--------------------------- MODULE MCRoomLifecycle ---------------------------
(* Small instances of RoomLifecycle. *)
EXTENDS RoomLifecycle, TLC

CONSTANTS w1, w2, u1, u2, c1, c2

\* Workers, users and configurations are told apart by nothing but their name.
Symmetric ==
  Permutations(Workers) \cup Permutations(Users) \cup Permutations(Configs)
=============================================================================
