------------------------------ MODULE Membership ------------------------------
(***************************************************************************)
(* Who is in a room: what room.service.ts promises its callers, with every *)
(* operation in one step.  Players take and leave the seats of a waiting   *)
(* room; a player whose last socket is gone is away until a return is      *)
(* confirmed, and only a player who is away may be removed unasked; a      *)
(* running game keeps its players, though not its host.                    *)
(*                                                                         *)
(* This is the abstract specification: RoomPresence shows that the locks,  *)
(* transactions and offline markers of the code implement it, RoomGateway  *)
(* composes it with sockets and timers.                                    *)
(***************************************************************************)
EXTENDS Naturals, FiniteSets

CONSTANTS
  Users,
  MinPlayers,   \* to start a game, and the smallest room: SGS 2, Avalon 5
  MaxSeats      \* the largest room: SGS 8, Avalon 10

ASSUME UsersAssumption == IsFiniteSet(Users)
ASSUME SeatsAssumption ==
  MinPlayers \in Nat \ {0} /\ MaxSeats \in Nat /\ MinPlayers <= MaxSeats

VARIABLES
  status, hostId, maxPlayers,  \* the room row
  seat,                        \* the seat of each user, 0 if not a member
  away                         \* members gone and not confirmed back

room == <<status, hostId, maxPlayers>>
membership == <<room, seat, away>>

Seats   == 1 .. MaxSeats
Members == {u \in Users : seat[u] # 0}

\* assignSeat: the lowest free seat.
FreeSeats(limit) == {s \in 1 .. limit : \A u \in Users : seat[u] # s}
WrongFreeSeat(limit) ==
  CHOOSE s \in 1 .. (MaxSeats + 1) :
    (\A u \in Users : seat[u] < s) /\ (\E u \in Users : seat[u] = s - 1)
FreeSeat(limit) ==
  CHOOSE s \in FreeSeats(limit) : \A t \in FreeSeats(limit) : s <= t

\* createRoom: the creator has the first seat.
Init ==
  /\ status = "WAITING" /\ hostId \in Users
  /\ maxPlayers \in MinPlayers .. MaxSeats
  /\ seat = [u \in Users |-> IF u = hostId THEN 1 ELSE 0]
  /\ away = {}

Join(u) ==
  /\ status = "WAITING" /\ u \notin Members
  /\ Cardinality(Members) < maxPlayers
  /\ seat' = [seat EXCEPT ![u] = FreeSeat(maxPlayers)]
  /\ UNCHANGED <<room, away>>

\* The room goes with its last player, and its players with the room.
Delete ==
  /\ status' = "DELETED"
  /\ seat' = [u \in Users |-> 0]
  /\ away' = {}
  /\ UNCHANGED <<hostId, maxPlayers>>

\* A host who goes is succeeded by another member.
Remove(u) ==
  /\ status = "WAITING" /\ u \in Members
  /\ \/ /\ Members = {u}
        /\ Delete
     \/ /\ Members # {u}
        /\ seat' = [seat EXCEPT ![u] = 0]
        /\ away' = away \ {u}
        /\ IF u = hostId THEN hostId' \in Members \ {u} ELSE UNCHANGED hostId
        /\ UNCHANGED <<status, maxPlayers>>

Leave(u)  == Remove(u)
Kick(u)   == u # hostId /\ Remove(u)
Expire(u) == u \in away /\ Remove(u)

\* The cleanup of idle rooms.
Abandon == status # "DELETED" /\ Members \subseteq away /\ Delete

Depart(u) ==
  /\ u \in Members
  /\ away' = away \cup {u}
  /\ UNCHANGED <<room, seat>>
Return(u) ==
  /\ u \in Members
  /\ away' = away \ {u}
  /\ UNCHANGED <<room, seat>>

\* A running game is handed on when its host goes.
Transfer ==
  /\ status = "PLAYING" /\ hostId \in away
  /\ hostId' \in Members \ {hostId}
  /\ UNCHANGED <<status, maxPlayers, seat, away>>

\* The seats a start may leave behind: the old ones, or a shuffle.
Shuffles ==
  {s \in [Users -> 0 .. Cardinality(Members)] :
     /\ \A u \in Users : s[u] # 0 <=> u \in Members
     /\ \A u, v \in Members : s[u] = s[v] => u = v}

Start ==
  /\ status = "WAITING" /\ Cardinality(Members) >= MinPlayers
  /\ status' = "PLAYING"
  /\ seat' \in {seat} \cup Shuffles
  /\ UNCHANGED <<hostId, maxPlayers, away>>
End ==
  /\ status = "PLAYING"
  /\ status' = "WAITING"
  /\ UNCHANGED <<hostId, maxPlayers, seat, away>>

\* prepareRoomSettingsUpdates: no limit below the players already there.
UpdateSettings ==
  /\ status = "WAITING"
  /\ maxPlayers' \in MinPlayers .. MaxSeats
  /\ maxPlayers' >= Cardinality(Members)
  /\ UNCHANGED <<status, hostId, seat, away>>

Next ==
  \/ \E u \in Users :
       Join(u) \/ Leave(u) \/ Kick(u) \/ Expire(u) \/ Depart(u) \/ Return(u)
  \/ Abandon \/ Transfer \/ Start \/ End \/ UpdateSettings

Spec == Init /\ [][Next]_membership
-----------------------------------------------------------------------------
TypeOK ==
  /\ status \in {"WAITING", "PLAYING", "DELETED"} /\ hostId \in Users
  /\ maxPlayers \in MinPlayers .. MaxSeats
  /\ seat \in [Users -> 0 .. MaxSeats]
  /\ away \in SUBSET Users

\* No two players share a seat and no room holds more players than it
\* admits, however joins, settings and shuffles interleave.
SeatsSound ==
  /\ \A u, v \in Members : seat[u] = seat[v] => u = v
  /\ Cardinality(Members) <= maxPlayers

\* The host is a member: somebody can start, end, kick and change settings.
HostPresent == status # "DELETED" => hostId \in Members

\* A running game has the players its roles were dealt to: nobody joins and
\* nobody goes until it ends, or the whole room does.
Frozen ==
  [][status = "PLAYING" /\ status' # "DELETED" =>
       {u \in Users : seat'[u] # 0} = Members]_membership
=============================================================================
