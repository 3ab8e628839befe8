---------------------------- MODULE MCRoomPresence ----------------------------
(* Small instances of RoomPresence. *)
EXTENDS RoomPresence, TLC

CONSTANTS w1, w2, u1, u2, u3

Symmetric == Permutations(Workers) \cup Permutations(Users)
=============================================================================
