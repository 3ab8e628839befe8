---------------------------- MODULE MCRoomGateway ----------------------------
(* A small instance of RoomGateway: one user with a socket on each of two *)
(* processes, another who only uses HTTP.                                 *)
EXTENDS RoomGateway, TLC

CONSTANTS u1, u2, s1, s2, p1, p2, h1, h2

TwoDevices == (s1 :> u1) @@ (s2 :> u1)
TwoServers == (s1 :> p1) @@ (s2 :> p2)
=============================================================================
