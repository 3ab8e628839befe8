--------------------------- MODULE MembershipProofs ---------------------------
(***************************************************************************)
(* Theorems about Membership, for every set of users and every room size.  *)
(*                                                                         *)
(* The inductive invariant adds to SeatsSound and HostPresent that a host, *)
(* as anybody who is away, is a member, and that a running game has the    *)
(* players a start asks for.  The one fact of arithmetic is a pigeonhole:  *)
(* while there are fewer members than the room admits, a seat is free, so  *)
(* assignSeat never refuses what joinRoom has let through.                 *)
(***************************************************************************)
EXTENDS Membership, FiniteSetTheorems, WellFoundedInduction, TLAPS

\* The players of a running game are at least those its start asked for.
EnoughPlayers == status = "PLAYING" => Cardinality(Members) >= MinPlayers
AwayMembers == away \subseteq Members

MembershipInv ==
  TypeOK /\ SeatsSound /\ HostPresent /\ AwayMembers /\ EnoughPlayers

\* There are finitely many members, and a count of them is a number.
LEMMA MembersFinite ==
  IsFiniteSet(Members) /\ Cardinality(Members) \in Nat
<1>1. Members \in SUBSET Users
  BY DEF Members
<1> QED
  BY <1>1, UsersAssumption, FS_Subset, FS_CardinalityType

\* A set of numbers has a least one.
LEMMA LeastElement ==
  ASSUME NEW T, T \subseteq Nat, T # {}
  PROVE  \E s \in T : \A t \in T : s <= t
<1>1. PICK s \in T : \A t \in T : ~ (<<t, s>> \in OpToRel(<, Nat))
  BY WFMin, NatLessThanWellFounded
<1>2. \A t \in T : ~ (t < s)
  BY <1>1 DEF OpToRel
<1> QED
  BY <1>2

\* While a room has fewer members than it admits one of its seats is free:
\* the lowest one, which assignSeat takes (seat-assigner.ts refuses only a
\* room that joinRoom has counted as full).
LEMMA SeatAvailable ==
  ASSUME NEW limit \in Nat, seat \in [Users -> Nat],
         Cardinality(Members) < limit
  PROVE  FreeSeats(limit) # {} /\ FreeSeat(limit) \in FreeSeats(limit)
<1>1. FreeSeats(limit) # {}
  <2> SUFFICES ASSUME FreeSeats(limit) = {}
               PROVE  FALSE
    OBVIOUS
  <2>1. \A s \in 1 .. limit : \E u \in Members : seat[u] = s
    BY DEF FreeSeats, Members
  <2> DEFINE sitter == [s \in 1 .. limit |->
                          CHOOSE u \in Members : seat[u] = s]
  <2>2. sitter \in Injection(1 .. limit, Members)
    BY <2>1 DEF Injection, IsInjective
  <2>3. Cardinality(1 .. limit) = limit
    BY FS_Interval
  <2>4. Cardinality(1 .. limit) <= Cardinality(Members)
    BY <2>2, MembersFinite, FS_Injection
  <2> QED
    BY <2>3, <2>4, MembersFinite
<1>2. FreeSeats(limit) \subseteq Nat
  BY DEF FreeSeats
<1>3. \E s \in FreeSeats(limit) : \A t \in FreeSeats(limit) : s <= t
  BY ONLY <1>1, <1>2, LeastElement
<1> QED
  BY <1>1, <1>3 DEF FreeSeat

LEMMA InvInit == Init => MembershipInv
<1> SUFFICES ASSUME Init
             PROVE  MembershipInv
  OBVIOUS
<1>1. Members = {hostId}
  BY DEF Init, Members
<1>2. Cardinality(Members) = 1
  BY <1>1, FS_Singleton
<1>3. TypeOK
  BY SeatsAssumption DEF Init, TypeOK
<1>4. SeatsSound
  BY <1>1, <1>2, <1>3, SeatsAssumption DEF SeatsSound, TypeOK
<1>5. HostPresent /\ AwayMembers /\ EnoughPlayers
  BY <1>1 DEF Init, HostPresent, AwayMembers, EnoughPlayers
<1> QED
  BY <1>3, <1>4, <1>5 DEF MembershipInv

\* A join takes a free seat of a room that has one.
LEMMA InvJoin ==
  ASSUME MembershipInv, NEW u \in Users, Join(u)
  PROVE  MembershipInv'
<1> USE DEF MembershipInv
<1>1. /\ maxPlayers \in Nat /\ seat \in [Users -> Nat]
      /\ FreeSeat(maxPlayers) \in FreeSeats(maxPlayers)
  BY SeatAvailable, SeatsAssumption DEF Join, TypeOK
<1>2. /\ FreeSeat(maxPlayers) \in 1 .. maxPlayers
      /\ \A v \in Users : seat[v] # FreeSeat(maxPlayers)
  BY <1>1 DEF FreeSeats
<1>3. TypeOK'
  BY <1>2, SeatsAssumption DEF Join, TypeOK, room
<1>4. Members' = Members \cup {u}
  BY <1>2 DEF Join, Members, TypeOK
<1>5. Cardinality(Members') <= maxPlayers
  <2>1. Cardinality(Members) \in Nat /\ Cardinality(Members) < maxPlayers
    BY MembersFinite DEF Join
  <2>2. Cardinality(Members \cup {u}) =
          IF u \in Members THEN Cardinality(Members)
          ELSE Cardinality(Members) + 1
    BY MembersFinite, FS_AddElement
  <2> QED
    BY <1>1, <1>4, <2>1, <2>2
<1>6. \A v, w \in Members' : seat'[v] = seat'[w] => v = w
  BY <1>2, <1>4 DEF Join, SeatsSound, TypeOK, Members
<1>7. SeatsSound'
  BY <1>5, <1>6 DEF SeatsSound, Join, room
<1>8. HostPresent' /\ AwayMembers' /\ EnoughPlayers'
  BY <1>4 DEF Join, room, HostPresent, AwayMembers, EnoughPlayers
<1> QED
  BY <1>3, <1>7, <1>8

\* A deleted room has nobody.
LEMMA InvDelete ==
  ASSUME MembershipInv, Delete
  PROVE  MembershipInv'
<1> USE DEF MembershipInv
<1>1. Members' = {}
  BY DEF Delete, Members
<1>2. Cardinality(Members') = 0
  BY <1>1, FS_EmptySet
<1>3. TypeOK'
  BY SeatsAssumption DEF Delete, TypeOK
<1>4. SeatsSound'
  BY <1>1, <1>2, SeatsAssumption DEF Delete, SeatsSound, TypeOK
<1>5. HostPresent' /\ AwayMembers' /\ EnoughPlayers'
  BY <1>1 DEF Delete, HostPresent, AwayMembers, EnoughPlayers
<1> QED
  BY <1>3, <1>4, <1>5

\* Whoever goes while others stay leaves a host behind.
LEMMA InvRemove ==
  ASSUME MembershipInv, NEW u \in Users, Remove(u)
  PROVE  MembershipInv'
<1> USE DEF MembershipInv
<1>1. CASE Members = {u}
  BY <1>1, InvDelete DEF Remove
<1>2. CASE Members # {u}
  <2>1. /\ status = "WAITING" /\ UNCHANGED <<status, maxPlayers>>
        /\ seat' = [seat EXCEPT ![u] = 0] /\ away' = away \ {u}
        /\ hostId' = hostId \/ hostId' \in Members \ {u}
        /\ u = hostId => hostId' # u
    BY <1>2 DEF Remove
  <2>2. Members' = Members \ {u}
    BY <2>1 DEF Members, TypeOK
  <2>3. TypeOK'
    BY <2>1, SeatsAssumption DEF TypeOK, Members
  <2>4. Cardinality(Members') <= Cardinality(Members)
    BY <2>2, MembersFinite, FS_RemoveElement
  <2>5. Cardinality(Members') \in Nat
    BY <2>2, MembersFinite, FS_RemoveElement, FS_CardinalityType
  <2>6. SeatsSound'
    BY <2>1, <2>2, <2>4, <2>5, MembersFinite, SeatsAssumption
       DEF SeatsSound, TypeOK, Members
  <2>7. HostPresent' /\ AwayMembers' /\ EnoughPlayers'
    BY <2>1, <2>2 DEF HostPresent, AwayMembers, EnoughPlayers, TypeOK
  <2> QED
    BY <2>3, <2>6, <2>7
<1> QED
  BY <1>1, <1>2

\* A shuffle gives the members, and nobody else, different seats.
LEMMA InvStart ==
  ASSUME MembershipInv, Start
  PROVE  MembershipInv'
<1> USE DEF MembershipInv
<1>1. /\ seat' \in [Users -> 0 .. MaxSeats]
      /\ Members' = Members
      /\ \A v, w \in Members : seat'[v] = seat'[w] => v = w
  <2>1. CASE seat' = seat
    BY <2>1 DEF Members, TypeOK, SeatsSound
  <2>2. CASE seat' \in Shuffles
    <3>1. 0 .. Cardinality(Members) \subseteq 0 .. MaxSeats
      BY MembersFinite, SeatsAssumption DEF SeatsSound, TypeOK
    <3> QED
      BY <2>2, <3>1 DEF Shuffles, Members
  <2> QED
    BY <2>1, <2>2 DEF Start
<1>2. TypeOK'
  BY <1>1, SeatsAssumption DEF Start, TypeOK
<1>3. SeatsSound'
  BY <1>1 DEF Start, SeatsSound
<1>4. HostPresent' /\ AwayMembers' /\ EnoughPlayers'
  BY <1>1 DEF Start, HostPresent, AwayMembers, EnoughPlayers
<1> QED
  BY <1>2, <1>3, <1>4

\* The operations that leave the seats alone.
LEMMA InvOthers ==
  ASSUME MembershipInv,
         \/ \E u \in Users : Depart(u) \/ Return(u)
         \/ Transfer \/ End \/ UpdateSettings \/ UNCHANGED membership
  PROVE  MembershipInv'
<1> USE DEF MembershipInv
<1>1. seat' = seat /\ Members' = Members
  BY DEF Depart, Return, Transfer, End, UpdateSettings, membership, Members
<1>2. CASE \E u \in Users : Depart(u) \/ Return(u)
  BY <1>1, <1>2 DEF Depart, Return, room, TypeOK, SeatsSound, HostPresent,
                    AwayMembers, EnoughPlayers, Members
<1>3. CASE Transfer \/ End
  BY <1>1, <1>3 DEF Transfer, End, TypeOK, SeatsSound, HostPresent,
                    AwayMembers, EnoughPlayers, Members
<1>4. CASE UpdateSettings
  BY <1>1, <1>4, MembersFinite, SeatsAssumption
     DEF UpdateSettings, TypeOK, SeatsSound, HostPresent, AwayMembers,
         EnoughPlayers
<1>5. CASE UNCHANGED membership
  BY <1>1, <1>5 DEF membership, room, TypeOK, SeatsSound, HostPresent,
                    AwayMembers, EnoughPlayers
<1> QED
  BY <1>2, <1>3, <1>4, <1>5

LEMMA InvNext ==
  ASSUME MembershipInv, [Next]_membership
  PROVE  MembershipInv'
<1>1. CASE \E u \in Users : Join(u)
  BY <1>1, InvJoin
<1>2. CASE \E u \in Users : Leave(u) \/ Kick(u) \/ Expire(u)
  BY <1>2, InvRemove DEF Leave, Kick, Expire
<1>3. CASE Abandon
  BY <1>3, InvDelete DEF Abandon
<1>4. CASE Start
  BY <1>4, InvStart
<1>5. CASE \/ \E u \in Users : Depart(u) \/ Return(u)
           \/ Transfer \/ End \/ UpdateSettings \/ UNCHANGED membership
  BY <1>5, InvOthers
<1> QED
  BY <1>1, <1>2, <1>3, <1>4, <1>5 DEF Next

\* Nobody joins or leaves a running game.
LEMMA FrozenStep ==
  ASSUME MembershipInv, [Next]_membership, status = "PLAYING",
         status' # "DELETED"
  PROVE  {u \in Users : seat'[u] # 0} = Members
<1>1. \/ \E u \in Users : Depart(u) \/ Return(u)
      \/ Transfer \/ End \/ UNCHANGED membership
  BY DEF Next, Join, Leave, Kick, Expire, Remove, Abandon, Delete, Start,
         UpdateSettings
<1>2. seat' = seat
  BY <1>1 DEF Depart, Return, Transfer, End, membership
<1> QED
  BY <1>2 DEF Members

\* No two players share a seat, no room holds more than it admits, the room
\* always has a host among its members, nobody who is not a member is away,
\* and a running game has the players a start asks for.
THEOREM MembershipSafety == Spec => [](SeatsSound /\ MembershipInv)
<1>1. Init => MembershipInv
  BY InvInit
<1>2. MembershipInv /\ [Next]_membership => MembershipInv'
  BY InvNext
<1>3. MembershipInv => SeatsSound
  BY DEF MembershipInv
<1> QED
  BY <1>1, <1>2, <1>3, PTL DEF Spec

\* The players of a running game are the ones its roles were dealt to, until
\* it ends or its room is deleted.
THEOREM GameKeepsPlayers == Spec => Frozen
<1>1. Spec => []MembershipInv
  BY MembershipSafety, PTL
<1>2. MembershipInv /\ [Next]_membership =>
        [status = "PLAYING" /\ status' # "DELETED" =>
           {u \in Users : seat'[u] # 0} = Members]_membership
  BY FrozenStep
<1> QED
  BY <1>1, <1>2, PTL DEF Spec, Frozen
=============================================================================
