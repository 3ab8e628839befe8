-------------------------- MODULE RoomPresenceProofs --------------------------
(***************************************************************************)
(* Theorems about RoomPresence, for every set of users and of workers and  *)
(* any number of requests, crashes and lost leases.                        *)
(*                                                                         *)
(* First what does not rest on the presence lock: the seats stay sound and *)
(* a running game keeps its players.  What is inductive is the soundness   *)
(* of the seats with the types of the room row, because every transaction  *)
(* that gives or takes a seat decides again, on the row it has locked,     *)
(* what it had read before; what a worker has remembered is only trusted   *)
(* for the name of a user.                                                 *)
(*                                                                         *)
(* Then what does: that the locks and the versioned markers implement      *)
(* Membership, that a confirmed return is not undone by an expiry or an    *)
(* idle cleanup, that an online member succeeds a host, that a running     *)
(* game is handed on.  The inductive invariant is PresenceInv.  Its        *)
(* conjuncts say who holds the locks, that nobody has read a version that  *)
(* is yet to come, that whatever counts as evidence of a user's absence    *)
(* (a matching marker, a disconnect about to write one, an expiry that has *)
(* read one) is about a user who is away, and that what an operation has   *)
(* planned under the presence lock is still so when it acts.  After a lost *)
(* lease the plans are worth nothing, but the version still guards a       *)
(* return: Sure(u) names the one case in which it does not.                *)
(***************************************************************************)
EXTENDS RoomPresence, MembershipProofs

SeatTypeOK ==
  /\ status \in {"WAITING", "PLAYING", "DELETED"}
  /\ maxPlayers \in MinPlayers .. MaxSeats
  /\ seat \in [Users -> 0 .. MaxSeats]

SeatInv == SeatTypeOK /\ SeatsSound

seating == <<status, maxPlayers, seat>>

\* What a transaction can do to the seats of a room: nothing, empty them all,
\* empty one, or give a free one to a user who has none; or what the host's
\* operations do.
Vacating ==
  \E u : /\ status = "WAITING" /\ UNCHANGED <<status, maxPlayers>>
         /\ seat' = [seat EXCEPT ![u] = 0]
Taking ==
  \E u : /\ status = "WAITING" /\ UNCHANGED <<status, maxPlayers>>
         /\ u \notin Members /\ Cardinality(Members) < maxPlayers
         /\ seat' = [seat EXCEPT ![u] = FreeSeat(maxPlayers)]
SeatStep ==
  \/ UNCHANGED seating \/ Vacating \/ Taking
  \/ Delete \/ Start \/ End \/ UpdateSettings

\* Every step of the service is one of these, whatever its worker remembers.
LEMMA StepsOnSeats ==
  ASSUME [PresenceNext]_vars PROVE SeatStep
<1>1. ASSUME NEW w \in Workers, RemoveTx(w) PROVE SeatStep
  <2>1. CASE ~ MayRemove(w) \/ ~ SameRow(w)
    BY <1>1, <2>1 DEF RemoveTx, SeatStep, seating, membership, room
  <2>2. CASE MayRemove(w) /\ SameRow(w)
    BY <1>1, <2>2
       DEF RemoveTx, MayRemove, DeleteMember, SeatStep, Vacating
  <2> QED
    BY <2>1, <2>2
<1>2. ASSUME NEW w \in Workers, KickTx(w) PROVE SeatStep
  BY <1>2 DEF KickTx, DeleteMember, SeatStep, Vacating, seating, membership,
              room
<1>3. ASSUME NEW w \in Workers, JoinTx(w) PROVE SeatStep
  BY <1>3 DEF JoinTx, Limit, SeatStep, Taking, seating, room
<1>4. ASSUME NEW w \in Workers, CleanTx(w) PROVE SeatStep
  BY <1>4 DEF CleanTx, SeatStep
<1>5. CASE HostActs
  BY <1>5 DEF HostActs, SeatStep
<1>6. ASSUME NEW w \in Workers,
             \/ Enter(w) \/ EnterBusy(w) \/ Exit(w)
             \/ DecideRemoval(w) \/ DecideOther(w)
             \/ Unmark(w) \/ Bump(w) \/ Reread(w) \/ Mark(w) \/ Touch(w)
             \/ TransferTx(w) \/ Clear(w) \/ Confirm(w) \/ ReadToJoin(w)
             \/ CleanRow(w) \/ CleanRead(w)
      PROVE  SeatStep
  <2>1. UNCHANGED seating
    BY <1>6 DEF Enter, EnterBusy, Exit, DecideRemoval, DecideOther, Unmark,
                Bump, Reread, Mark, Touch, TransferTx, Clear, Confirm,
                ReadToJoin, CleanRow, CleanRead, seating, membership, room
  <2> QED
    BY <2>1 DEF SeatStep
<1>7. ASSUME NEW w \in Workers,
             Request(w) \/ RequestExpire(w) \/ RequestClean(w) \/ Crash(w)
      PROVE  SeatStep
  <2>1. UNCHANGED seating
    BY <1>7, Zenon
       DEF Request, RequestExpire, RequestClean, Crash, Ask, seating,
                membership, room
  <2> QED
    BY <2>1 DEF SeatStep
<1>8. CASE Ripen \/ Hour \/ LockExpires \/ UNCHANGED vars
  <2>1. UNCHANGED seating
    BY <1>8 DEF Ripen, Hour, LockExpires, vars, seating, membership, room
  <2> QED
    BY <2>1 DEF SeatStep
<1> QED
  BY <1>1, <1>2, <1>3, <1>4, <1>5, <1>6, <1>7, <1>8 DEF PresenceNext, Step

\* A seat that is given up leaves the others as they were.
LEMMA VacatingKeeps ==
  ASSUME SeatInv, Vacating
  PROVE  SeatInv'
<1> USE DEF SeatInv
<1>1. PICK u : UNCHANGED <<status, maxPlayers>>
               /\ seat' = [seat EXCEPT ![u] = 0]
  BY DEF Vacating
<1>2. SeatTypeOK'
  <2>1. seat \in [Users -> 0 .. MaxSeats] /\ 0 \in 0 .. MaxSeats
    BY SeatsAssumption DEF SeatTypeOK
  <2>2. seat' \in [Users -> 0 .. MaxSeats]
    BY ONLY <1>1, <2>1
  <2> QED
    BY <1>1, <2>2 DEF SeatTypeOK
<1>3. Members' = Members \ {u}
  BY <1>1 DEF Members, SeatTypeOK
<1>4. /\ Cardinality(Members') <= Cardinality(Members)
      /\ Cardinality(Members') \in Nat
  <2>1. Members' \subseteq Members
    BY <1>3
  <2>2. IsFiniteSet(Members') /\ Cardinality(Members') <= Cardinality(Members)
    BY <2>1, MembersFinite, FS_Subset
  <2> QED
    BY <2>2, FS_CardinalityType
<1>5. SeatsSound'
  BY <1>1, <1>3, <1>4, MembersFinite, SeatsAssumption
     DEF SeatsSound, SeatTypeOK, Members
<1> QED
  BY <1>2, <1>5

\* A join that finds fewer members than the limit it reads takes a seat that
\* is free and below that limit.
LEMMA TakingKeeps ==
  ASSUME SeatInv, Taking
  PROVE  SeatInv'
<1> USE DEF SeatInv
<1>1. PICK u : /\ UNCHANGED <<status, maxPlayers>>
               /\ u \notin Members /\ Cardinality(Members) < maxPlayers
               /\ seat' = [seat EXCEPT ![u] = FreeSeat(maxPlayers)]
  BY DEF Taking
<1>2. /\ maxPlayers \in Nat /\ seat \in [Users -> Nat]
      /\ FreeSeat(maxPlayers) \in FreeSeats(maxPlayers)
  BY <1>1, SeatAvailable, SeatsAssumption DEF SeatTypeOK
<1>3. /\ FreeSeat(maxPlayers) \in 1 .. maxPlayers
      /\ \A v \in Users : seat[v] # FreeSeat(maxPlayers)
  BY <1>2 DEF FreeSeats
<1>4. SeatTypeOK'
  <2>1. /\ seat \in [Users -> 0 .. MaxSeats]
        /\ FreeSeat(maxPlayers) \in 0 .. MaxSeats
    BY <1>2, <1>3, SeatsAssumption DEF SeatTypeOK
  <2>2. seat' \in [Users -> 0 .. MaxSeats]
    BY ONLY <1>1, <2>1
  <2> QED
    BY <1>1, <2>2 DEF SeatTypeOK
<1>5. CASE u \in Users
  <2>1. Members' = Members \cup {u}
    BY <1>1, <1>3, <1>5 DEF Members, SeatTypeOK
  <2>2. Cardinality(Members') = Cardinality(Members) + 1
    BY <1>1, <2>1, MembersFinite, FS_AddElement
  <2>3. Cardinality(Members') <= maxPlayers
    BY <1>1, <1>2, <2>2, MembersFinite
  <2>4. \A v, x \in Members' : seat'[v] = seat'[x] => v = x
    BY <1>1, <1>3, <2>1 DEF SeatsSound, SeatTypeOK, Members
  <2> QED
    BY <1>1, <1>4, <2>3, <2>4 DEF SeatsSound
<1>6. CASE u \notin Users
  <2>1. seat' = seat /\ Members' = Members
    BY <1>1, <1>6 DEF SeatTypeOK, Members
  <2> QED
    BY <1>1, <1>4, <2>1 DEF SeatsSound
<1> QED
  BY <1>5, <1>6

\* So does every other step on the seats.
LEMMA SeatStepKeeps ==
  ASSUME SeatInv, SeatStep
  PROVE  SeatInv'
<1> USE DEF SeatInv
<1>1. CASE UNCHANGED seating
  BY <1>1 DEF seating, SeatTypeOK, SeatsSound, Members
<1>2. CASE Delete
  <2>1. Members' = {}
    BY <1>2 DEF Delete, Members
  <2>2. Cardinality(Members') = 0
    BY <2>1, FS_EmptySet
  <2> QED
    BY <1>2, <2>1, <2>2, SeatsAssumption DEF Delete, SeatTypeOK, SeatsSound
<1>3. CASE Start
  <2>1. /\ seat' \in [Users -> 0 .. MaxSeats]
        /\ Members' = Members
        /\ \A v, x \in Members : seat'[v] = seat'[x] => v = x
    <3>1. CASE seat' = seat
      BY <3>1 DEF Members, SeatTypeOK, SeatsSound
    <3>2. CASE seat' \in Shuffles
      <4>1. 0 .. Cardinality(Members) \subseteq 0 .. MaxSeats
        BY MembersFinite, SeatsAssumption DEF SeatsSound, SeatTypeOK
      <4> QED
        BY <3>2, <4>1 DEF Shuffles, Members
    <3> QED
      BY <1>3, <3>1, <3>2 DEF Start
  <2> QED
    BY <1>3, <2>1 DEF Start, SeatTypeOK, SeatsSound
<1>4. CASE End
  BY <1>4 DEF End, SeatTypeOK, SeatsSound, Members
<1>5. CASE UpdateSettings
  <2>1. seat' = seat /\ Members' = Members
    BY <1>5 DEF UpdateSettings, Members
  <2> QED
    BY <1>5, <2>1, MembersFinite, SeatsAssumption
       DEF UpdateSettings, SeatTypeOK, SeatsSound
<1> QED
  BY <1>1, <1>2, <1>3, <1>4, <1>5, VacatingKeeps, TakingKeeps DEF SeatStep

\* No two players share a seat and no room holds more than it admits, however
\* joins, leaves, kicks, expiries, cleanups and the host's operations of any
\* number of workers interleave, and whichever leases are lost.
THEOREM PresenceSeats == PresenceSpec => []SeatsSound
<1>1. PresenceInit => SeatInv
  BY InvInit DEF PresenceInit, MembershipInv, TypeOK, SeatInv, SeatTypeOK
<1>2. SeatInv /\ [PresenceNext]_vars => SeatInv'
  BY StepsOnSeats, SeatStepKeeps
<1>3. SeatInv => SeatsSound
  BY DEF SeatInv
<1> QED
  BY <1>1, <1>2, <1>3, PTL DEF PresenceSpec

\* The players of a running game are the ones its roles were dealt to: leave,
\* kick, expiry and join decide once more, in their transactions, that the
\* room is still waiting.
THEOREM PresenceFrozen == PresenceSpec => Frozen
<1>1. [PresenceNext]_vars =>
        [status = "PLAYING" /\ status' # "DELETED" =>
           {u \in Users : seat'[u] # 0} = Members]_membership
  <2> SUFFICES ASSUME [PresenceNext]_vars, status = "PLAYING",
                      status' # "DELETED"
               PROVE  {u \in Users : seat'[u] # 0} = Members
    OBVIOUS
  <2>1. UNCHANGED seating \/ End
    BY StepsOnSeats DEF SeatStep, Vacating, Taking, Delete, Start,
                        UpdateSettings
  <2>2. seat' = seat
    BY <2>1 DEF seating, End
  <2> QED
    BY <2>2 DEF Members
<1> QED
  BY <1>1, PTL DEF PresenceSpec, Frozen

-----------------------------------------------------------------------------
(* The inductive invariant. *)

\* Positions in an operation that has taken the presence lock.
InSection == {"decide", "remove", "kick", "unmark", "bump", "reread", "mark",
              "touch", "transfer", "clear", "confirm"}
\* One operation at a time is past the lock, until a lease is lost.
Holders ==
  ~ leaseLost => \A w \in Workers : pc[w] \in InSection => lock = w
\* A cleanup that looks at Redis keeps the row of an existing room.
RowHolders ==
  \A w \in Workers :
    pc[w] \in {"cleanRead", "cleanTx"} => rowLock = w /\ status # "DELETED"

\* An operation is about a user, and the two ways out of a waiting room are
\* taken by those who ask for them.
JobsOK ==
  \A w \in Workers :
    /\ pc[w] \in InSection \cup {"lock", "join", "joinTx"} =>
         job[w].user \in Users
    /\ pc[w] = "remove" => job[w].kind \in {"leave", "expire"}
    /\ pc[w] = "kick" => job[w].kind = "kick"

\* Versions are only ever read: no marker and no worker names a row that is
\* yet to come, and members have a row.
Past(r, q) == r.id < q.id \/ (r.id = q.id /\ r.version <= q.version)
RowsPast ==
  /\ \A u \in Users : marker[u] # None => Past(marker[u].row, row[u])
  /\ \A w \in Workers :
       job[w].user \in Users => Past(job[w].row, row[job[w].user])
  /\ \A u \in Users : seat[u] # 0 => row[u].id > 0
  /\ \A w \in Workers :
       pc[w] \in {"reread", "mark"} => row[job[w].user].id > 0

\* What counts as evidence that a user is gone: his marker matches his row, a
\* disconnect is about to write one that will, an expiry has read one that did.
Marked(u) == marker[u] # None /\ marker[u].row = row[u]
Leaving(w, u) ==
  /\ job[w].user = u /\ lock = w
  /\ pc[w] = "reread" \/ (pc[w] = "mark" /\ job[w].row = row[u])
Expiring(w, u) ==
  /\ job[w].user = u /\ pc[w] = "remove" /\ job[w].kind = "expire"
  /\ job[w].row = row[u]
Gone(u) == Marked(u) \/ \E w \in Workers : Leaving(w, u) \/ Expiring(w, u)
\* After a lost lease, the marker of a disconnect may be read back from a row
\* of a later membership: only a first membership is safe from that.
Sure(u) == leaseLost => row[u].id = 1
\* A return whose version is still the user's.
Returning(w, u) ==
  /\ job[w].user = u /\ job[w].row = row[u]
  /\ pc[w] = "confirm" \/ (pc[w] = "clear" /\ lock = w)

\* Evidence of absence is about a user who is away, and a return that still
\* stands leaves none behind.
GoneAway == \A u \in Users : seat[u] # 0 /\ Sure(u) /\ Gone(u) => u \in away
NotBoth  == \A u \in Users, w \in Workers : Returning(w, u) => ~ Gone(u)

\* What an operation has read under the lock is still so: the user of a
\* disconnect is away, the host is the host, the members found offline are the
\* ones that are, the successor is a member.
Plan(w) ==
  /\ pc[w] \in {"reread", "mark", "touch", "transfer"} => job[w].user \in away
  /\ pc[w] \in {"remove", "reread", "mark", "touch"} => job[w].host = hostId
  /\ pc[w] = "remove" => job[w].others = Offline \ {job[w].user}
  /\ pc[w] = "transfer" => job[w].host \in Members \ {job[w].user}
Plans ==
  ~ leaseLost /\ status # "DELETED" => \A w \in Workers : Plan(w)
\* Everybody in a room that is about to be deleted as idle is away.
EmptyRoom ==
  \A w \in Workers, u \in Users :
    pc[w] = "cleanTx" /\ seat[u] # 0 /\ Sure(u) => u \in away

\* A lost lease costs the membership invariant, not the types and the seats.
PresenceInv ==
  /\ PresenceTypeOK /\ SeatsSound /\ (leaseLost \/ MembershipInv)
  /\ Holders /\ RowHolders /\ JobsOK /\ RowsPast
  /\ GoneAway /\ NotBoth /\ Plans /\ EmptyRoom

-----------------------------------------------------------------------------
(* The steps of a worker, and those of nobody.  Lemmas on what a step can  *)
(* change, one per group of variables. *)

WorkerStep(w) ==
  Request(w) \/ RequestExpire(w) \/ RequestClean(w) \/ Step(w) \/ Crash(w)
Around == HostActs \/ Ripen \/ Hour \/ LockExpires \/ UNCHANGED vars

\* Every step is one of the two.
LEMMA PresenceSteps ==
  [PresenceNext]_vars => Around \/ \E w \in Workers : WorkerStep(w)
  BY DEF PresenceNext, Around, WorkerStep

\* The member on the lowest seat is one of those asked for.
LEMMA LowestIsOne ==
  ASSUME seat \in [Users -> 0 .. MaxSeats], NEW us, us \subseteq Users, us # {}
  PROVE  Lowest(us) \in us
<1> DEFINE T == {seat[u] : u \in us}
<1>1. T \subseteq Nat /\ T # {}
  BY SeatsAssumption
<1> HIDE DEF T
<1>2. PICK s \in T : \A t \in T : s <= t
  BY <1>1, LeastElement
<1>3. \E u \in us : \A v \in us : seat[u] <= seat[v]
  BY <1>2 DEF T
<1> QED
  BY <1>3 DEF Lowest

\* Whoever the code picks to succeed a member is another one.
LEMMA PickedAmongOthers ==
  ASSUME seat \in [Users -> 0 .. MaxSeats], NEW w \in Workers
  PROVE  LET rest == Members \ {job[w].user} IN
         /\ rest # {} => Heir(w) \in rest /\ Successor(w) \in rest
         /\ rest = {} => Successor(w) = None
<1> DEFINE rest == Members \ {job[w].user}
           expected == rest \ job[w].others
           online == rest \ Offline
<1>1. rest \subseteq Users /\ expected \subseteq Users /\ online \subseteq Users
  BY DEF Members
<1>2. /\ Heir(w) = IF expected # {} THEN Lowest(expected) ELSE Lowest(rest)
      /\ Successor(w) = IF online # {} THEN Lowest(online)
                        ELSE IF rest # {} THEN Lowest(rest) ELSE None
  BY DEF Heir, Successor
<1>3. expected \subseteq rest /\ online \subseteq rest
  OBVIOUS
<1> HIDE DEF rest, expected, online
<1>4. /\ rest # {} => Lowest(rest) \in rest
      /\ expected # {} => Lowest(expected) \in expected
      /\ online # {} => Lowest(online) \in online
  BY <1>1, LowestIsOne
<1>5. /\ rest # {} => Heir(w) \in rest /\ Successor(w) \in rest
      /\ rest = {} => Successor(w) = None
  BY <1>2, <1>3, <1>4
<1> QED
  BY <1>5 DEF rest

\* A step writes the position and the job of its own worker, within their
\* types.
LEMMA JobTypeNext ==
  ASSUME PresenceTypeOK, JobsOK, NEW w \in Workers, WorkerStep(w)
  PROVE  /\ \E l \in Labels : pc' = [pc EXCEPT ![w] = l]
         /\ \E j \in JobType : job' = [job EXCEPT ![w] = j]
<1> USE DEF PresenceTypeOK
<1>1. job[w] \in JobType /\ job = [job EXCEPT ![w] = job[w]]
  OBVIOUS
<1>2. Idle \in JobType
  BY SeatsAssumption DEF Idle, NoRow, Row, JobType
<1>3. ASSUME NEW kind \in {"join", "leave", "kick", "online", "offline",
                           "expire", "clean"},
             NEW u \in Users \cup {None}, Ask(w, kind, u)
      PROVE  /\ \E l \in Labels : pc' = [pc EXCEPT ![w] = l]
             /\ \E j \in JobType : job' = [job EXCEPT ![w] = j]
  <2>1. [Idle EXCEPT !.kind = kind, !.user = u] \in JobType
    BY <1>2 DEF Idle, JobType
  <2> QED
    BY <1>3, <2>1 DEF Ask, Goto, Labels
<1>4. CASE Request(w) \/ RequestExpire(w) \/ RequestClean(w)
  BY <1>3, <1>4 DEF Request, RequestExpire, RequestClean
<1>5. CASE Crash(w)
  BY <1>2, <1>5 DEF Crash, Goto, Labels
<1>6. CASE /\ job' = job
           /\ \/ Enter(w) \/ DecideOther(w) \/ DecideRemoval(w)
              \/ RemoveTx(w) \/ KickTx(w) \/ Unmark(w) \/ Bump(w) \/ Reread(w)
              \/ Mark(w) \/ Touch(w) \/ TransferTx(w) \/ Clear(w) \/ Confirm(w)
              \/ ReadToJoin(w) \/ JoinTx(w) \/ CleanRow(w) \/ CleanRead(w)
              \/ CleanTx(w)
  BY <1>1, <1>6
     DEF Enter, DecideRemoval, DecideOther, RemoveTx, KickTx,
         Unmark, Bump, Reread, Mark, Touch, TransferTx, Clear, Confirm,
         ReadToJoin, JoinTx, CleanRow, CleanRead, CleanTx, Goto, Labels
<1>7. CASE EnterBusy(w) \/ Exit(w)
  BY <1>2, <1>7 DEF EnterBusy, Exit, Goto, Labels
<1>8. CASE DecideRemoval(w) /\ job' # job
  <2>1. row[job[w].user] \in Row /\ Offline \ {job[w].user} \subseteq Users
    BY <1>8 DEF DecideRemoval, At, JobsOK, InSection, Offline
  <2> QED
    BY <1>1, <1>8, <2>1
       DEF DecideRemoval, Goto, Labels, JobType, TypeOK
<1>9. CASE Bump(w) /\ job' # job
  <2>1. row[job[w].user] \in Row /\ hostId \in Users
    BY <1>9 DEF Bump, At, JobsOK, InSection, TypeOK
  <2> DEFINE r == [row[job[w].user] EXCEPT !.version = @ + 1]
  <2>2. r \in Row
    BY <2>1 DEF Row
  <2>3. job' = [job EXCEPT ![w].row = r, ![w].host = hostId,
                           ![w].playing = (status = "PLAYING")]
    BY <1>9 DEF Bump
  <2> HIDE DEF r
  <2>4. [job[w] EXCEPT !.row = r, !.host = hostId,
                       !.playing = (status = "PLAYING")] \in JobType
    BY <1>1, <2>1, <2>2 DEF JobType
  <2>5. \E l \in Labels : pc' = [pc EXCEPT ![w] = l]
    BY <1>9 DEF Bump, Goto, Labels
  <2> QED
    BY <2>3, <2>4, <2>5
<1>10. CASE Reread(w) /\ job' # job
  <2>1. row[job[w].user] \in Row
    BY <1>10 DEF Reread, At, JobsOK, InSection
  <2> QED
    BY <1>1, <1>10, <2>1 DEF Reread, Goto, Labels, JobType
<1>11. CASE Touch(w) /\ job' # job
  <2>1. Successor(w) \in Users
    <3>1. seat \in [Users -> 0 .. MaxSeats]
      BY DEF TypeOK
    <3>2. Successor(w) # None
      BY <1>11 DEF Touch
    <3> QED
      BY <3>1, <3>2, PickedAmongOthers DEF Members
  <2> QED
    BY <1>1, <1>11, <2>1 DEF Touch, Goto, Labels, JobType
<1>12. CASE ReadToJoin(w) /\ job' # job
  <2>1. maxPlayers \in 0 .. MaxSeats
    BY SeatsAssumption DEF TypeOK
  <2> QED
    BY <1>1, <1>12, <2>1 DEF ReadToJoin, Goto, Labels, JobType
<1>13. CASE job' # job /\ Step(w)
  BY <1>7, <1>8, <1>9, <1>10, <1>11, <1>12, <1>13
     DEF Step, Enter, DecideOther, RemoveTx, KickTx,
         Unmark, Mark, TransferTx, Clear, Confirm,
         JoinTx, CleanRow, CleanRead, CleanTx
<1> QED
  BY <1>4, <1>5, <1>6, <1>7, <1>13 DEF WorkerStep, Step

\* A step of w moves w and leaves the other workers as they are.
LEMMA OneMoves ==
  ASSUME PresenceTypeOK, JobsOK, NEW w \in Workers, WorkerStep(w)
  PROVE  /\ pc' \in [Workers -> Labels] /\ job' \in [Workers -> JobType]
         /\ \A g \in Workers \ {w} : pc'[g] = pc[g] /\ job'[g] = job[g]
<1>1. PICK l \in Labels : pc' = [pc EXCEPT ![w] = l]
  BY JobTypeNext
<1>2. PICK j \in JobType : job' = [job EXCEPT ![w] = j]
  BY JobTypeNext
<1> HIDE DEF Labels, JobType
<1> QED
  BY <1>1, <1>2 DEF PresenceTypeOK

\* What the steps of nobody may change.
LEMMA AroundMoves ==
  ASSUME Around
  PROVE  /\ UNCHANGED <<row, rowLock, pc, job, away, hostId>>
         /\ \A u \in Users : seat'[u] # 0 <=> seat[u] # 0
         /\ \/ lock' = lock
            \/ lock' = Free /\ (lock = Orphan \/ leaseLost')
         /\ leaseLost => leaseLost'
         /\ status = "DELETED" <=> status' = "DELETED"
         /\ \/ marker' = marker
            \/ \E u \in Users :
                 /\ marker[u] # None
                 /\ marker' = [marker EXCEPT ![u].ripe = TRUE]
<1>1. CASE HostActs
  <2>1. \A u \in Users : seat'[u] # 0 <=> seat[u] # 0
    BY <1>1
       DEF HostActs, Start, End, UpdateSettings, Shuffles, Members
  <2> QED
    BY <1>1, <2>1 DEF HostActs, Start, End, UpdateSettings, locks
<1>2. CASE Ripen
  BY <1>2 DEF Ripen, membership, room, locks, bounds
<1>3. CASE Hour
  BY <1>3 DEF Hour, membership, room, locks, bounds
<1>4. CASE LockExpires
  BY <1>4 DEF LockExpires, membership, room
<1>5. CASE UNCHANGED vars
  BY <1>5 DEF vars, membership, room, locks, bounds
<1> QED
  BY <1>1, <1>2, <1>3, <1>4, <1>5 DEF Around

\* The rows of the members: a disconnect or a return bumps the version, a join
\* adds a row.
RowStep(w) ==
  LET u == job[w].user IN
  \/ row' = row
  \/ /\ Bump(w) /\ u \in Members
     /\ row' = [row EXCEPT ![u] =
                  [id |-> row[u].id, version |-> row[u].version + 1]]
  \/ /\ JoinTx(w) /\ u \in Users /\ u \notin Members
     /\ row' = [row EXCEPT ![u] = [id |-> row[u].id + 1, version |-> 0]]

\* A row changes in no other way.
LEMMA RowMoves ==
  ASSUME PresenceTypeOK, JobsOK, NEW w \in Workers, WorkerStep(w)
  PROVE  RowStep(w)
<1>1. CASE Bump(w)
  <2>1. CASE job[w].user \in Members
    <3> DEFINE u == job[w].user
    <3>1. u \in Users /\ row[u] \in Row
      BY <2>1 DEF Members, PresenceTypeOK
    <3>2. [row[u] EXCEPT !.version = @ + 1] =
            [id |-> row[u].id, version |-> row[u].version + 1]
      BY <3>1 DEF Row
    <3> QED
      BY <1>1, <2>1, <3>2 DEF Bump, RowStep
  <2>2. CASE job[w].user \notin Members
    BY <1>1, <2>2 DEF Bump, RowStep
  <2> QED
    BY <2>1, <2>2
<1>2. CASE JoinTx(w)
  <2>1. job[w].user \in Users
    BY <1>2 DEF JoinTx, RowFree, At, JobsOK
  <2>2. CASE row' # row
    <3> DEFINE u == job[w].user
    <3>1. /\ u \notin Members
          /\ row' = [row EXCEPT ![u] = [id |-> @.id + 1, version |-> 0]]
      BY <1>2, <2>2 DEF JoinTx
    <3> QED
      BY <1>2, <2>1, <3>1 DEF RowStep
  <2> QED
    BY <2>2 DEF RowStep
<1>3. CASE ~ Bump(w) /\ ~ JoinTx(w)
  <2>1. row' = row
    BY <1>3, Zenon
       DEF WorkerStep, Request, RequestExpire, RequestClean, Ask, Crash,
           Step, Enter, EnterBusy, Exit, DecideRemoval, DecideOther,
           RemoveTx, KickTx, Unmark, Reread, Mark, Touch, TransferTx,
           Clear, Confirm, ReadToJoin, CleanRow, CleanRead, CleanTx
  <2> QED
    BY <2>1 DEF RowStep
<1> QED
  BY <1>1, <1>2, <1>3

\* Rows only move on.
LEMMA RowsGrow ==
  ASSUME PresenceTypeOK, NEW w \in Workers, RowStep(w)
  PROVE  /\ row' \in [Users -> Row]
         /\ \A u \in Users : Past(row[u], row'[u])
<1>1. \A u \in Users : row[u] \in Row /\ Past(row[u], row[u])
  BY DEF PresenceTypeOK, Row, Past
<1>2. CASE row' = row
  BY <1>1, <1>2 DEF PresenceTypeOK
<1>3. ASSUME NEW u \in Users, NEW r \in Row, Past(row[u], r),
             row' = [row EXCEPT ![u] = r]
      PROVE  /\ row' \in [Users -> Row]
             /\ \A v \in Users : Past(row[v], row'[v])
  <2>1. row \in [Users -> Row]
    BY DEF PresenceTypeOK
  <2> QED
    BY <1>1, <1>3, <2>1
<1>4. ASSUME NEW u \in Users
      PROVE  LET r == [id |-> row[u].id, version |-> row[u].version + 1]
                 q == [id |-> row[u].id + 1, version |-> 0]
             IN r \in Row /\ Past(row[u], r) /\ q \in Row /\ Past(row[u], q)
  BY <1>1 DEF Row, Past
<1>5. job[w].user \in Members => job[w].user \in Users
  BY DEF Members
<1> QED
  BY <1>2, <1>3, <1>4, <1>5 DEF RowStep

\* The markers, under the presence lock but for the idle cleanup.
MarkerStep(w) ==
  LET u == job[w].user IN
  \/ marker' = marker
  \/ /\ Unmark(w) \/ Clear(w)
     /\ lock = w /\ marker' = [marker EXCEPT ![u] = None]
  \/ /\ Mark(w)
     /\ lock = w
     /\ marker' = [marker EXCEPT ![u] = [row |-> job[w].row, ripe |-> FALSE]]
  \/ /\ CleanTx(w) /\ marker' = [v \in Users |-> None]

\* The lock, taken when it is free and given up with the operation.
LockStep(w) ==
  \/ lock' = lock
  \/ Enter(w) /\ lock = Free /\ lock' = w
  \/ lock = w /\ lock' \in {Free, Orphan} /\ pc'[w] = "idle"

\* Markers and locks change in no other way, and no worker loses a lease.
LEMMA StoreMoves ==
  ASSUME PresenceTypeOK, NEW w \in Workers, WorkerStep(w)
  PROVE  /\ MarkerStep(w) /\ LockStep(w)
         /\ leaseLost' = leaseLost
         /\ \/ rowLock' = rowLock
            \/ rowLock = Free /\ rowLock' = w /\ CleanRow(w)
            \/ rowLock' = Free /\ (CleanRead(w) \/ CleanTx(w) \/ rowLock = w)
<1>1. MarkerStep(w)
  BY ZenonT(60)
     DEF MarkerStep, WorkerStep, Request, RequestExpire, RequestClean, Ask,
         Crash,
         Step, Enter, EnterBusy, Exit, DecideRemoval, DecideOther,
         RemoveTx, KickTx, Unmark, Bump, Reread, Mark, Touch, TransferTx,
         Clear, Confirm, ReadToJoin, JoinTx, CleanRow, CleanRead, CleanTx
<1>2. LockStep(w)
  BY ZenonT(60)
     DEF PresenceTypeOK, LockStep, WorkerStep, Request, RequestExpire,
         RequestClean, Ask, Crash, Goto, locks,
         Step, Enter, EnterBusy, Exit, DecideRemoval, DecideOther,
         RemoveTx, KickTx, Unmark, Bump, Reread, Mark, Touch, TransferTx,
         Clear, Confirm, ReadToJoin, JoinTx, CleanRow, CleanRead, CleanTx
<1>3. leaseLost' = leaseLost
  BY ZenonT(60)
     DEF WorkerStep, Request, RequestExpire, RequestClean, Ask, Crash, bounds,
         Step, Enter, EnterBusy, Exit, DecideRemoval, DecideOther,
         RemoveTx, KickTx, Unmark, Bump, Reread, Mark, Touch, TransferTx,
         Clear, Confirm, ReadToJoin, JoinTx, CleanRow, CleanRead, CleanTx
<1>4. \/ rowLock' = rowLock
      \/ rowLock = Free /\ rowLock' = w /\ CleanRow(w)
      \/ rowLock' = Free /\ (CleanRead(w) \/ CleanTx(w) \/ rowLock = w)
  BY Zenon
     DEF WorkerStep, Request, RequestExpire, RequestClean, Ask, Crash, locks,
         RowFree,
         Step, Enter, EnterBusy, Exit, DecideRemoval, DecideOther,
         RemoveTx, KickTx, Unmark, Bump, Reread, Mark, Touch, TransferTx,
         Clear, Confirm, ReadToJoin, JoinTx, CleanRow, CleanRead, CleanTx
<1> QED
  BY <1>1, <1>2, <1>3, <1>4

\* Who becomes a member, ceases to be one, goes away and comes back.
MemberStep(w) ==
  \A u \in Users :
    /\ seat[u] = 0 /\ seat'[u] # 0 =>
         JoinTx(w) /\ u = job[w].user /\ row'[u].id = row[u].id + 1
    /\ seat[u] # 0 /\ seat'[u] = 0 =>
         status' = "DELETED" \/ ((RemoveTx(w) \/ KickTx(w)) /\ u = job[w].user)
    /\ u \in away /\ u \notin away' =>
         seat'[u] = 0 \/ (Confirm(w) /\ u = job[w].user /\ row[u] = job[w].row)
    /\ u \notin away /\ u \in away' =>
         Bump(w) /\ u = job[w].user /\ seat[u] # 0

\* Members, the away and the host change in no other way.
LEMMA MemberMoves ==
  ASSUME PresenceTypeOK, JobsOK, NEW w \in Workers, WorkerStep(w)
  PROVE  /\ MemberStep(w)
         /\ status = "DELETED" => status' = "DELETED"
         /\ hostId' = hostId \/ RemoveTx(w) \/ TransferTx(w)
         /\ status' # status => status' = "DELETED"
<1> USE DEF PresenceTypeOK, TypeOK
<1>1. CASE RemoveTx(w)
  BY <1>1
     DEF RemoveTx, MayRemove, DeleteMember, Delete, MemberStep, membership,
         room, Members, SameRow
<1>2. CASE KickTx(w)
  BY <1>2
     DEF KickTx, DeleteMember, MemberStep, membership, room, Members
<1>3. CASE JoinTx(w)
  <2>1. job[w].user \in Users
    BY <1>3 DEF JoinTx, RowFree, At, JobsOK
  <2> DEFINE u == job[w].user
             r == [id |-> row[u].id + 1, version |-> 0]
  <2>2. CASE seat' = seat
    BY <1>3, <2>2 DEF JoinTx, MemberStep, room
  <2>3. CASE seat' # seat
    <3>1. /\ seat' = [seat EXCEPT ![u] = FreeSeat(Limit(w))]
          /\ row' = [row EXCEPT ![u] = [id |-> @.id + 1, version |-> 0]]
          /\ UNCHANGED <<room, away>> /\ u \notin Members
      BY <1>3, <2>3 DEF JoinTx
    <3>2. row'[u].id = row[u].id + 1
      BY <2>1, <3>1
    <3> QED
      BY <1>3, <2>1, <3>1, <3>2 DEF MemberStep, room, Members
  <2> QED
    BY <2>2, <2>3
<1>4. CASE CleanTx(w)
  BY <1>4 DEF CleanTx, Delete, MemberStep, membership, room
<1>5. CASE Bump(w)
  BY <1>5 DEF Bump, MemberStep, Members, room
<1>6. CASE Confirm(w)
  BY <1>6 DEF Confirm, SameRow, MemberStep, room
<1>7. CASE TransferTx(w)
  BY <1>7 DEF TransferTx, MemberStep
<1>8. CASE /\ ~ RemoveTx(w) /\ ~ KickTx(w) /\ ~ JoinTx(w) /\ ~ CleanTx(w)
           /\ ~ Bump(w) /\ ~ Confirm(w) /\ ~ TransferTx(w)
  <2>1. UNCHANGED membership
    BY <1>8, Zenon
       DEF WorkerStep, Request, RequestExpire, RequestClean, Ask, Crash,
           Step, Enter, EnterBusy, Exit, DecideRemoval, DecideOther,
           Unmark, Reread, Mark, Touch, Clear, ReadToJoin, CleanRow, CleanRead
  <2> QED
    BY <2>1 DEF membership, room, MemberStep
<1> QED
  BY <1>1, <1>2, <1>3, <1>4, <1>5, <1>6, <1>7, <1>8

\* The types of what neither a job nor the room row holds.
LEMMA StoreTyped ==
  ASSUME PresenceTypeOK, JobsOK, NEW w \in Workers, WorkerStep(w)
  PROVE  /\ marker' \in [Users -> {None} \cup Marker]
         /\ lock' \in Workers \cup {Free, Orphan}
         /\ rowLock' \in Workers \cup {Free}
         /\ fresh' \in BOOLEAN
         /\ requests' \in 0 .. MaxRequests /\ faults' \in 0 .. MaxFaults
<1> USE DEF PresenceTypeOK
<1>1. marker' \in [Users -> {None} \cup Marker]
  <2>1. CASE Mark(w)
    <3>1. [row |-> job[w].row, ripe |-> FALSE] \in Marker
      BY DEF JobType, Marker
    <3> HIDE DEF Marker
    <3> QED
      BY <2>1, <3>1 DEF Mark
  <2>2. CASE ~ Mark(w)
    BY <2>2, StoreMoves, Zenon
       DEF MarkerStep
  <2> QED
    BY <2>1, <2>2
<1>2. lock' \in Workers \cup {Free, Orphan} /\ rowLock' \in Workers \cup {Free}
  BY StoreMoves DEF LockStep
<1>3. fresh' \in BOOLEAN
  BY ZenonT(60)
     DEF WorkerStep, Request, RequestExpire, RequestClean, Ask, Crash,
         Step, Enter, EnterBusy, Exit, DecideRemoval, DecideOther,
         RemoveTx, KickTx, Unmark, Bump, Reread, Mark, Touch, TransferTx,
         Clear, Confirm, ReadToJoin, JoinTx, CleanRow, CleanRead, CleanTx
<1>4. /\ \/ requests' = requests
         \/ requests < MaxRequests /\ requests' = requests + 1
      /\ faults' = faults \/ (faults < MaxFaults /\ faults' = faults + 1)
  BY Zenon
     DEF WorkerStep, Request, RequestExpire, RequestClean, Ask, Crash, Fault,
         bounds,
         Step, Enter, EnterBusy, Exit, DecideRemoval, DecideOther,
         RemoveTx, KickTx, Unmark, Bump, Reread, Mark, Touch, TransferTx,
         Clear, Confirm, ReadToJoin, JoinTx, CleanRow, CleanRead, CleanTx
<1>5. requests' \in 0 .. MaxRequests /\ faults' \in 0 .. MaxFaults
  <2>1. requests \in 0 .. MaxRequests /\ faults \in 0 .. MaxFaults
    OBVIOUS
  <2> QED
    BY ONLY <1>4, <2>1, PresenceBoundsAssumption
<1> QED
  BY <1>1, <1>2, <1>3, <1>5

\* The room keeps its types, whatever its worker remembers.
LEMMA RoomTyped ==
  ASSUME PresenceTypeOK, SeatsSound, JobsOK, [PresenceNext]_vars
  PROVE  TypeOK' /\ SeatsSound'
<1> USE DEF PresenceTypeOK
<1>1. SeatInv'
  BY StepsOnSeats, SeatStepKeeps DEF SeatInv, SeatTypeOK, TypeOK
<1>2. CASE Around
  BY <1>1, <1>2, AroundMoves DEF TypeOK, SeatInv, SeatTypeOK
<1>3. ASSUME NEW w \in Workers, WorkerStep(w)
      PROVE  hostId' \in Users /\ away' \subseteq Users
  <2>1. CASE RemoveTx(w)
    <3>1. ASSUME Members # {job[w].user}, job[w].user \in Members
          PROVE  Heir(w) \in Users
      <4>1. seat \in [Users -> 0 .. MaxSeats]
        BY DEF TypeOK
      <4> QED
        BY <3>1, <4>1, PickedAmongOthers DEF Members
    <3> QED
      BY <2>1, <3>1
         DEF RemoveTx, SameRow, DeleteMember, Delete, membership, room, TypeOK
  <2>2. CASE TransferTx(w)
    BY <2>2 DEF TransferTx, Members, TypeOK
  <2>3. hostId' \in Users
    BY <1>3, <2>1, <2>2, MemberMoves DEF TypeOK
  <2>4. away' \subseteq Users
    BY <1>3, ZenonT(60)
       DEF TypeOK, Members, membership, room, DeleteMember, Delete,
         WorkerStep, Request, RequestExpire, RequestClean, Ask, Crash,
         Step, Enter, EnterBusy, Exit, DecideRemoval, DecideOther,
         RemoveTx, KickTx, Unmark, Bump, Reread, Mark, Touch, TransferTx,
         Clear, Confirm, ReadToJoin, JoinTx, CleanRow, CleanRead, CleanTx
  <2> QED
    BY <2>3, <2>4
<1> QED
  BY <1>1, <1>2, <1>3, PresenceSteps DEF TypeOK, SeatInv, SeatTypeOK

-----------------------------------------------------------------------------
(* Each conjunct of the invariant is kept. *)

\* The types, and with them the seats.
LEMMA PresenceTypeNext ==
  ASSUME PresenceTypeOK, SeatsSound, JobsOK, [PresenceNext]_vars
  PROVE  PresenceTypeOK' /\ SeatsSound'
<1> USE DEF PresenceTypeOK
<1>1. CASE Around
  <2>1. marker' \in [Users -> {None} \cup Marker]
    <3>1. ASSUME NEW u \in Users, marker[u] # None,
                 marker' = [marker EXCEPT ![u].ripe = TRUE]
          PROVE  marker' \in [Users -> {None} \cup Marker]
      <4>1. marker[u] \in Marker
        BY <3>1
      <4>2. [marker[u] EXCEPT !.ripe = TRUE] \in Marker
        BY <4>1 DEF Marker
      <4> HIDE DEF Marker
      <4> QED
        BY <3>1, <4>2
    <3> QED
      BY <1>1, <3>1, AroundMoves
  <2>2. /\ \/ requests' = requests
           \/ requests < MaxRequests /\ requests' = requests + 1
        /\ faults' = faults \/ (faults < MaxFaults /\ faults' = faults + 1)
        /\ fresh' \in BOOLEAN /\ leaseLost' \in BOOLEAN
    BY <1>1
       DEF Around, HostActs, Ripen, Hour, LockExpires, Fault, vars, bounds
  <2>3. requests' \in 0 .. MaxRequests /\ faults' \in 0 .. MaxFaults
    <3>1. requests \in 0 .. MaxRequests /\ faults \in 0 .. MaxFaults
      OBVIOUS
    <3> QED
      BY ONLY <2>2, <3>1, PresenceBoundsAssumption
  <2> QED
    BY <1>1, <2>1, <2>2, <2>3, AroundMoves, RoomTyped
<1>2. ASSUME NEW w \in Workers, WorkerStep(w)
      PROVE  PresenceTypeOK' /\ SeatsSound'
  BY <1>2, OneMoves, StoreTyped, StoreMoves, RowMoves, RowsGrow, RoomTyped
<1> QED
  BY <1>1, <1>2, PresenceSteps

\* Which step leads where.
LEMMA Flow ==
  ASSUME PresenceTypeOK, NEW w \in Workers, WorkerStep(w)
  PROVE  /\ pc'[w] = "decide" => Enter(w)
         /\ pc'[w] = "remove" => DecideRemoval(w)
         /\ pc'[w] = "kick" => DecideOther(w)
         /\ pc'[w] = "unmark" => RemoveTx(w) \/ KickTx(w)
         /\ pc'[w] = "bump" => DecideRemoval(w) \/ DecideOther(w) \/ RemoveTx(w)
         /\ pc'[w] = "reread" => Bump(w)
         /\ pc'[w] = "mark" => Reread(w)
         /\ pc'[w] = "touch" => Mark(w)
         /\ pc'[w] = "transfer" => Touch(w)
         /\ pc'[w] = "clear" => Bump(w)
         /\ pc'[w] = "confirm" => Clear(w)
         /\ pc'[w] = "cleanRead" => CleanRow(w)
         /\ pc'[w] = "cleanTx" => CleanRead(w)
         /\ pc'[w] = "joinTx" => ReadToJoin(w)
         /\ pc'[w] \in {"join", "lock"} =>
              Request(w) \/ RequestExpire(w) \/ RequestClean(w)
<1>1. pc' = [pc EXCEPT ![w] = pc'[w]]
  BY ZenonT(60)
     DEF PresenceTypeOK, WorkerStep, Request, RequestExpire, RequestClean, Ask,
         Crash, Goto,
         Step, Enter, EnterBusy, Exit, DecideRemoval, DecideOther,
         RemoveTx, KickTx, Unmark, Bump, Reread, Mark, Touch, TransferTx,
         Clear, Confirm, ReadToJoin, JoinTx, CleanRow, CleanRead, CleanTx
<1>2. pc \in [Workers -> Labels]
  BY DEF PresenceTypeOK
<1>3. ASSUME NEW kind, NEW u, Ask(w, kind, u)
      PROVE  pc'[w] \in {"join", "cleanRow", "lock"}
  BY <1>2, <1>3 DEF Ask, Goto
<1>4. CASE Request(w) \/ RequestExpire(w) \/ RequestClean(w)
  BY <1>3, <1>4 DEF Request, RequestExpire, RequestClean
<1>5. CASE Crash(w)
  BY <1>2, <1>5 DEF Crash, Goto
<1>6. CASE Step(w)
  BY <1>2, <1>6, ZenonT(60)
     DEF Goto,
         Step, Enter, EnterBusy, Exit, DecideRemoval, DecideOther,
         RemoveTx, KickTx, Unmark, Bump, Reread, Mark, Touch, TransferTx,
         Clear, Confirm, ReadToJoin, JoinTx, CleanRow, CleanRead, CleanTx
<1> QED
  BY <1>4, <1>5, <1>6 DEF WorkerStep

\* An operation keeps its kind and its user, and what it has read unless it
\* reads again.
LEMMA SameOperation ==
  ASSUME PresenceTypeOK, NEW w \in Workers, Step(w), ~ EnterBusy(w), ~ Exit(w)
  PROVE  /\ job'[w].user = job[w].user /\ job'[w].kind = job[w].kind
         /\ ~ DecideRemoval(w) /\ ~ Bump(w) /\ ~ Reread(w) =>
              job'[w].row = job[w].row
         /\ ~ DecideRemoval(w) => job'[w].others = job[w].others
         /\ ~ DecideRemoval(w) /\ ~ Bump(w) /\ ~ Touch(w) =>
              job'[w].host = job[w].host
<1>1. job[w] \in JobType /\ job \in [Workers -> JobType]
  BY DEF PresenceTypeOK
<1>2. CASE job' = job
  BY <1>2
<1>3. CASE DecideRemoval(w)
  BY <1>1, <1>3 DEF DecideRemoval, JobType
<1>4. CASE Bump(w)
  BY <1>1, <1>4 DEF Bump, JobType
<1>5. CASE Reread(w)
  BY <1>1, <1>5 DEF Reread, JobType
<1>6. CASE Touch(w)
  BY <1>1, <1>6 DEF Touch, JobType
<1>7. CASE ReadToJoin(w)
  BY <1>1, <1>7 DEF ReadToJoin, JobType
<1> QED
  BY <1>2, <1>3, <1>4, <1>5, <1>6, <1>7
     DEF Step, Enter, DecideOther, RemoveTx, KickTx, Unmark, Mark, TransferTx,
         Clear, Confirm, JoinTx, CleanRow, CleanRead, CleanTx

\* Operations come to "remove" and "kick" from the requests for them.
LEMMA JobsNext ==
  ASSUME PresenceTypeOK, JobsOK, [PresenceNext]_vars
  PROVE  JobsOK'
<1>1. CASE Around
  BY <1>1, AroundMoves DEF JobsOK
<1>2. ASSUME NEW w \in Workers, WorkerStep(w)
      PROVE  JobsOK'
  <2>1. /\ pc'[w] \in InSection \cup {"lock", "join", "joinTx"} =>
             job'[w].user \in Users
        /\ pc'[w] = "remove" => job'[w].kind \in {"leave", "expire"}
        /\ pc'[w] = "kick" => job'[w].kind = "kick"
    <3>1. CASE Step(w) /\ ~ EnterBusy(w) /\ ~ Exit(w)
      <4>1. job'[w].user = job[w].user /\ job'[w].kind = job[w].kind
        BY <3>1, SameOperation
      <4>5. pc'[w] \notin {"join", "lock"}
        BY <3>1
           DEF PresenceTypeOK,
               Step, Enter, DecideRemoval, DecideOther,
               RemoveTx, KickTx, Unmark, Bump, Reread, Mark, Touch, TransferTx,
               Clear, Confirm, ReadToJoin, JoinTx, CleanRow, CleanRead,
               CleanTx, Goto
      <4>2. pc'[w] \in InSection \cup {"joinTx"} =>
              pc[w] \in InSection \cup {"lock", "join"}
        BY <1>2, Flow, ZenonT(60)
           DEF InSection, Enter, DecideRemoval, DecideOther, RemoveTx, KickTx,
               Bump, Reread, Mark, Touch, Clear, ReadToJoin, At, RowFree
      <4>3. /\ pc'[w] = "remove" => job[w].kind \in {"leave", "expire"}
            /\ pc'[w] = "kick" => DecideOther(w)
        BY <1>2, Flow, Zenon
           DEF DecideRemoval
      <4>4. DecideOther(w) /\ pc'[w] = "kick" => job[w].kind = "kick"
        BY DEF DecideOther, Goto, PresenceTypeOK
      <4> QED
        BY <4>1, <4>2, <4>3, <4>4, <4>5 DEF JobsOK
    <3>2. CASE EnterBusy(w) \/ Exit(w) \/ Crash(w)
      <4>1. pc'[w] = "idle"
        BY <3>2 DEF EnterBusy, Exit, Crash, Goto, PresenceTypeOK
      <4> QED
        BY <4>1 DEF InSection
    <3>3. ASSUME NEW kind, NEW u \in Users \cup {None}, Ask(w, kind, u),
                 u = None => kind = "clean"
          PROVE  /\ pc'[w] \notin {"remove", "kick"}
                 /\ pc'[w] \in InSection \cup {"lock", "join", "joinTx"} =>
                      job'[w].user \in Users
      <4>1. job'[w] = [Idle EXCEPT !.kind = kind, !.user = u]
        BY <3>3 DEF Ask, PresenceTypeOK
      <4>2. job'[w].user = u
        BY <4>1 DEF Idle
      <4>3. pc'[w] = CASE kind = "join" -> "join"
                       [] kind = "clean" -> "cleanRow"
                       [] OTHER -> "lock"
        BY <3>3 DEF Ask, Goto, PresenceTypeOK
      <4> QED
        BY <3>3, <4>2, <4>3 DEF InSection
    <3> QED
      BY <1>2, <3>1, <3>2, <3>3, PresenceTokenAssumption
         DEF WorkerStep, Request, RequestExpire, RequestClean
  <2> QED
    BY <1>2, <2>1, OneMoves DEF JobsOK
<1> QED
  BY <1>1, <1>2, PresenceSteps

\* One operation at a time has the presence lock, until a lease is lost.
LEMMA HoldersNext ==
  ASSUME PresenceTypeOK, JobsOK, Holders, [PresenceNext]_vars
  PROVE  Holders'
<1>1. CASE Around
  BY <1>1, AroundMoves, PresenceTokenAssumption DEF Holders
<1>2. ASSUME NEW w \in Workers, WorkerStep(w), ~ leaseLost',
             NEW g \in Workers, pc'[g] \in InSection
      PROVE  lock' = g
  <2>1. ~ leaseLost /\ LockStep(w)
    BY <1>2, StoreMoves
  <2>2. CASE g = w
    <3>1. Enter(w) \/ pc[w] \in InSection
      BY <1>2, <2>2, Flow, Zenon
         DEF InSection, DecideRemoval, DecideOther, RemoveTx, KickTx,
             Bump, Reread, Mark, Touch, Clear, At, RowFree
    <3> QED
      BY <1>2, <2>1, <2>2, <3>1 DEF Holders, LockStep, Enter, InSection
  <2>3. CASE g # w
    BY <1>2, <2>1, <2>3, OneMoves, PresenceTokenAssumption
       DEF Holders, LockStep
  <2> QED
    BY <2>2, <2>3
<1> QED
  BY <1>1, <1>2, PresenceSteps DEF Holders

\* A cleanup that looks at Redis has the row of a room that is still there.
LEMMA RowHoldersNext ==
  ASSUME PresenceTypeOK, JobsOK, RowHolders, [PresenceNext]_vars
  PROVE  RowHolders'
<1>1. CASE Around
  BY <1>1, AroundMoves DEF RowHolders
<1>2. ASSUME NEW w \in Workers, WorkerStep(w),
             NEW g \in Workers, pc'[g] \in {"cleanRead", "cleanTx"}
      PROVE  rowLock' = g /\ status' # "DELETED"
  <2>1. CASE g = w
    <3>1. CASE pc'[w] = "cleanRead"
      <4>1. CleanRow(w)
        BY <1>2, <3>1, Flow
      <4> QED
        BY <2>1, <3>1, <4>1
           DEF CleanRow, Goto, PresenceTypeOK, membership, room
    <3>2. CASE pc'[w] = "cleanTx"
      <4>1. CleanRead(w)
        BY <1>2, <3>2, Flow
      <4> QED
        BY <2>1, <3>2, <4>1
           DEF CleanRead, Goto, At, PresenceTypeOK, RowHolders, membership, room
    <3> QED
      BY <1>2, <2>1, <3>1, <3>2
  <2>2. CASE g # w
    <3>1. pc[g] \in {"cleanRead", "cleanTx"} /\ rowLock = g /\ rowLock # Free
          /\ status # "DELETED"
      BY <1>2, <2>2, OneMoves, PresenceTokenAssumption DEF RowHolders
    <3>2. ~ CleanRead(w) /\ ~ CleanTx(w) /\ ~ CleanRow(w)
      BY <2>2, <3>1 DEF CleanRead, CleanTx, CleanRow, RowFree, At, RowHolders
    <3>3. rowLock' = rowLock
      BY <1>2, <2>2, <3>1, <3>2, StoreMoves
    <3>4. status' = status
      BY <1>2, <3>1, <3>2, Zenon
         DEF WorkerStep, Request, RequestExpire, RequestClean, Ask, Crash,
           Step, Enter, EnterBusy, Exit, DecideRemoval, DecideOther,
           RemoveTx, KickTx, Unmark, Bump, Reread, Mark, Touch, TransferTx,
           Clear, Confirm, ReadToJoin, JoinTx, RowFree, membership, room
    <3> QED
      BY <3>1, <3>3, <3>4
  <2> QED
    BY <2>1, <2>2
<1> QED
  BY <1>1, <1>2, PresenceSteps DEF RowHolders

\* Rows are ordered by id, then by version.
LEMMA PastOrder ==
  /\ \A r \in Row : Past(r, r) /\ Past(NoRow, r)
  /\ \A r, q, t \in Row : Past(r, q) /\ Past(q, t) => Past(r, t)
  /\ \A r, q \in Row : Past(r, q) => r.id <= q.id
  /\ \A r, q \in Row : Past(r, q) /\ Past(q, r) => r = q
  BY DEF Past, Row, NoRow

\* Nobody has read a row that is yet to come.
LEMMA RowsPastNext ==
  ASSUME PresenceTypeOK, PresenceTypeOK', JobsOK, RowsPast, [PresenceNext]_vars
  PROVE  RowsPast'
<1>1. CASE Around
  <2>1. ASSUME NEW u \in Users, marker'[u] # None
        PROVE  marker[u] # None /\ marker'[u].row = marker[u].row
    <3>1. CASE marker' = marker
      BY <2>1, <3>1
    <3>2. ASSUME NEW v \in Users, marker[v] # None,
                 marker' = [marker EXCEPT ![v].ripe = TRUE]
          PROVE  marker[u] # None /\ marker'[u].row = marker[u].row
      <4>1. marker[v] \in Marker /\ marker \in [Users -> {None} \cup Marker]
        BY <3>2 DEF PresenceTypeOK
      <4>2. marker'[u] = IF u = v THEN [marker[v] EXCEPT !.ripe = TRUE]
                                  ELSE marker[u]
        BY <3>2, <4>1
      <4>3. [marker[v] EXCEPT !.ripe = TRUE].row = marker[v].row
        BY <4>1 DEF Marker
      <4> QED
        BY <2>1, <3>2, <4>2, <4>3
    <3> QED
      BY <1>1, <3>1, <3>2, AroundMoves
  <2> QED
    BY <1>1, <2>1, AroundMoves DEF RowsPast
<1>2. ASSUME NEW w \in Workers, WorkerStep(w)
      PROVE  RowsPast'
  <2>1. \A u \in Users : row[u] \in Row /\ row'[u] \in Row
    BY DEF PresenceTypeOK
  <2>2. \A u \in Users : Past(row[u], row'[u]) /\ row[u].id <= row'[u].id
    BY <1>2, <2>1, RowMoves, RowsGrow, PastOrder
  <2>3. ASSUME NEW u \in Users, NEW r \in Row, Past(r, row[u])
        PROVE  Past(r, row'[u])
    BY <2>1, <2>2, <2>3, PastOrder
  <2>4. ASSUME NEW g \in Workers
        PROVE  job[g].row \in Row /\ job'[g].row \in Row
    <3>1. job[g] \in JobType /\ job'[g] \in JobType
      BY DEF PresenceTypeOK
    <3> QED
      BY <3>1 DEF JobType
  <2>5. ASSUME NEW u \in Users, marker'[u] # None
        PROVE  Past(marker'[u].row, row'[u])
    <3>1. CASE marker'[u] = marker[u]
      <4>1. marker[u] \in Marker
        BY <2>5, <3>1 DEF PresenceTypeOK
      <4>2. marker[u].row \in Row
        BY <4>1 DEF Marker
      <4> QED
        BY <2>3, <2>5, <3>1, <4>2 DEF RowsPast
    <3>2. CASE marker'[u] # marker[u]
      <4>1. /\ u = job[w].user
            /\ marker' = [marker EXCEPT ![u] = [row |-> job[w].row,
                                                ripe |-> FALSE]]
        BY <1>2, <2>5, <3>2, StoreMoves DEF MarkerStep, PresenceTypeOK
      <4>2. marker'[u].row = job[w].row
        BY <4>1 DEF PresenceTypeOK
      <4> QED
        BY <2>3, <2>4, <4>1, <4>2 DEF RowsPast
    <3> QED
      BY <3>1, <3>2
  <2>6. ASSUME NEW g \in Workers, job'[g].user \in Users
        PROVE  Past(job'[g].row, row'[job'[g].user])
    <3>1. CASE job'[g].user = job[g].user /\ job'[g].row = job[g].row
      BY <2>3, <2>4, <2>6, <3>1 DEF RowsPast
    <3>2. CASE g = w /\ job'[g].row = NoRow
      BY <2>1, <2>6, <3>2, PastOrder
    <3>3. CASE g = w /\ DecideRemoval(w) /\ job' # job
      <4>1. job'[w].row = row[job[w].user] /\ job'[w].user = job[w].user
        BY <3>3 DEF DecideRemoval, PresenceTypeOK, JobType
      <4> QED
        BY <2>1, <2>2, <2>6, <3>3, <4>1
    <3>4. CASE g = w /\ Reread(w) /\ job' # job
      <4>1. job'[w].row = row[job[w].user] /\ job'[w].user = job[w].user
        BY <3>4 DEF Reread, PresenceTypeOK, JobType
      <4> QED
        BY <2>1, <2>2, <2>6, <3>4, <4>1
    <3>5. CASE g = w /\ Bump(w) /\ job' # job
      <4>1. /\ job'[w].row = [row[job[w].user] EXCEPT !.version = @ + 1]
            /\ job'[w].user = job[w].user /\ job[w].user \in Users
            /\ row' = [row EXCEPT ![job[w].user] =
                         [row[job[w].user] EXCEPT !.version = @ + 1]]
        BY <3>5 DEF Bump, PresenceTypeOK, JobType, Members
      <4>2. job'[w].row = row'[job'[w].user]
        BY <4>1 DEF PresenceTypeOK
      <4> QED
        BY <2>1, <2>6, <3>5, <4>2, PastOrder
    <3>6. CASE g # w
      BY <1>2, <3>1, <3>6, OneMoves
    <3>7. CASE g = w /\ job' = job
      BY <3>1, <3>7
    <3>8. CASE g = w /\ (EnterBusy(w) \/ Exit(w) \/ Crash(w))
      <4>1. job'[w] = Idle
        BY <3>8 DEF EnterBusy, Exit, Crash, PresenceTypeOK
      <4> QED
        BY <3>2, <3>8, <4>1 DEF Idle
    <3>9. ASSUME g = w, NEW kind, NEW u, Ask(w, kind, u)
          PROVE  job'[g].row = NoRow
      <4>1. job'[w] = [Idle EXCEPT !.kind = kind, !.user = u]
        BY <3>9 DEF Ask, PresenceTypeOK
      <4> QED
        BY <3>9, <4>1 DEF Idle
    <3>10. CASE g = w /\ Step(w)
      BY <3>1, <3>3, <3>4, <3>5, <3>7, <3>8, <3>10, SameOperation
    <3> QED
      BY <1>2, <3>2, <3>6, <3>8, <3>9, <3>10
         DEF WorkerStep, Request, RequestExpire, RequestClean
  <2>7. ASSUME NEW u \in Users, seat'[u] # 0
        PROVE  row'[u].id > 0
    <3>1. CASE seat[u] # 0
      <4>1. row[u].id > 0
        BY <3>1 DEF RowsPast
      <4> QED
        BY <2>1, <2>2, <4>1 DEF Row
    <3>2. CASE seat[u] = 0
      <4>1. row'[u].id = row[u].id + 1
        BY <1>2, <2>7, <3>2, MemberMoves DEF MemberStep
      <4> QED
        BY <2>1, <4>1 DEF Row
    <3> QED
      BY <3>1, <3>2
  <2>8. ASSUME NEW g \in Workers, pc'[g] \in {"reread", "mark"}
        PROVE  row'[job'[g].user].id > 0
    <3>1. ASSUME NEW u \in Users, row[u].id > 0
          PROVE  row'[u].id > 0
      BY <2>1, <2>2, <3>1 DEF Row
    <3>2. CASE g # w
      <4>1. job[g].user \in Users /\ row[job[g].user].id > 0
        BY <1>2, <2>8, <3>2, OneMoves DEF RowsPast, JobsOK, InSection
      <4> QED
        BY <1>2, <3>1, <3>2, <4>1, OneMoves
    <3>3. CASE g = w
      <4>1. Bump(w) \/ Reread(w)
        BY <1>2, <2>8, <3>3, Flow
      <4>2. job'[w].user = job[w].user
        BY <1>2, <4>1, SameOperation, Zenon
           DEF Step, Bump, Reread, EnterBusy, Exit, At, RowFree
      <4>3. job[w].user \in Members
        BY <2>8, <3>3, <4>1 DEF Bump, Reread, Goto, PresenceTypeOK
      <4> QED
        BY <3>1, <3>3, <4>2, <4>3 DEF Members, RowsPast
    <3> QED
      BY <3>2, <3>3
  <2> QED
    BY <2>5, <2>6, <2>7, <2>8 DEF RowsPast
<1> QED
  BY <1>1, <1>2, PresenceSteps

\* A row that somebody has read and that is the user's next row is the one he
\* has already.
LEMMA ReadRow ==
  ASSUME PresenceTypeOK, PresenceTypeOK', NEW w \in Workers, RowStep(w),
         NEW u \in Users, NEW r \in Row, Past(r, row[u]), r = row'[u]
  PROVE  row'[u] = row[u]
<1>1. Past(row[u], row'[u]) /\ row[u] \in Row /\ row'[u] \in Row
  BY RowsGrow DEF PresenceTypeOK
<1> QED
  BY <1>1, PastOrder

\* Evidence that a user has gone only comes from earlier evidence about the
\* same row, or from a disconnect.
Rereading(g, u) == pc[g] = "reread" /\ job[g].user = u /\ lock = g
LEMMA NewlyGone ==
  ASSUME PresenceTypeOK, PresenceTypeOK', JobsOK, RowsPast, NEW w \in Workers,
         WorkerStep(w), NEW u \in Users, Gone(u)'
  PROVE  \/ Gone(u) /\ row'[u] = row[u]
         \/ \E g \in Workers : Rereading(g, u)
         \/ /\ Bump(w) /\ u = job[w].user /\ u \in away' /\ pc'[w] = "reread"
            /\ row'[u] # row[u]
<1>1. /\ \A g \in Workers : job[g].row \in Row
      /\ row[u] \in Row /\ row'[u] \in Row /\ RowStep(w)
  BY RowMoves DEF PresenceTypeOK, JobType
<1>2. ASSUME Marked(u)'
      PROVE  Gone(u) /\ row'[u] = row[u]
  <2>1. CASE marker'[u] = marker[u]
    <3>1. marker[u].row \in Row
      BY <1>2, <2>1 DEF Marked, Marker, PresenceTypeOK
    <3>2. row'[u] = row[u]
      BY <1>1, <1>2, <2>1, <3>1, ReadRow DEF Marked, RowsPast
    <3> QED
      BY <1>2, <2>1, <3>2 DEF Marked, Gone
  <2>2. CASE marker'[u] # marker[u]
    <3>1. /\ Mark(w) /\ lock = w /\ u = job[w].user
          /\ marker' = [marker EXCEPT ![u] = [row |-> job[w].row,
                                              ripe |-> FALSE]]
      BY <1>2, <2>2, StoreMoves DEF Marked, MarkerStep, PresenceTypeOK
    <3>2. marker'[u].row = job[w].row
      BY <3>1 DEF PresenceTypeOK
    <3>3. row' = row /\ pc[w] = "mark"
      BY <3>1 DEF Mark, At
    <3>4. Leaving(w, u)
      BY <1>2, <3>1, <3>2, <3>3 DEF Marked, Leaving
    <3> QED
      BY <3>3, <3>4 DEF Gone
  <2> QED
    BY <2>1, <2>2
<1>3. ASSUME NEW g \in Workers \ {w}, Leaving(g, u)'
      PROVE  Rereading(g, u) \/ (Gone(u) /\ row'[u] = row[u])
  <2>1. pc'[g] = pc[g] /\ job'[g] = job[g]
    BY OneMoves
  <2>2. lock = g
    BY <1>3, StoreMoves, PresenceTokenAssumption DEF LockStep, Leaving
  <2>3. CASE pc[g] = "reread"
    BY <1>3, <2>1, <2>2, <2>3 DEF Leaving, Rereading
  <2>4. CASE pc[g] = "mark" /\ job[g].row = row'[u]
    <3>1. row'[u] = row[u]
      BY <1>1, <1>3, <2>1, <2>4, ReadRow DEF Leaving, RowsPast
    <3>2. Leaving(g, u)
      BY <1>3, <2>1, <2>2, <2>4, <3>1 DEF Leaving
    <3> QED
      BY <3>1, <3>2 DEF Gone
  <2> QED
    BY <1>3, <2>1, <2>3, <2>4 DEF Leaving
<1>4. ASSUME Leaving(w, u)'
      PROVE  \/ Rereading(w, u)
             \/ /\ Bump(w) /\ u = job[w].user /\ u \in away'
                /\ pc'[w] = "reread" /\ row'[u] # row[u]
  <2>1. CASE pc'[w] = "reread"
    <3>1. Bump(w)
      BY <2>1, Flow
    <3>2. job'[w].user = job[w].user
      BY <3>1, SameOperation, Zenon
         DEF Step, Bump, EnterBusy, Exit, At
    <3>3. /\ u = job[w].user /\ u \in away'
          /\ row' = [row EXCEPT ![u] = [row[u] EXCEPT !.version = @ + 1]]
      BY <1>4, <2>1, <3>1, <3>2 DEF Bump, Leaving, Goto, PresenceTypeOK
    <3>4. row'[u].version = row[u].version + 1
      BY <1>1, <3>3 DEF PresenceTypeOK, Row
    <3>5. row'[u] # row[u]
      BY <1>1, <3>4 DEF Row
    <3> QED
      BY <2>1, <3>1, <3>3, <3>5
  <2>2. CASE pc'[w] = "mark"
    <3>1. Reread(w)
      BY <2>2, Flow
    <3>2. job'[w].user = job[w].user
      BY <3>1, SameOperation DEF Step, Reread, EnterBusy, Exit, At
    <3> QED
      BY <1>4, <3>1, <3>2 DEF Reread, At, Leaving, Rereading, locks
  <2> QED
    BY <1>4, <2>1, <2>2 DEF Leaving
<1>5. ASSUME NEW g \in Workers \ {w}, Expiring(g, u)'
      PROVE  Gone(u) /\ row'[u] = row[u]
  <2>1. pc'[g] = pc[g] /\ job'[g] = job[g]
    BY OneMoves
  <2>2. row'[u] = row[u]
    BY <1>1, <1>5, <2>1, ReadRow DEF Expiring, RowsPast
  <2> QED
    BY <1>5, <2>1, <2>2 DEF Expiring, Gone
<1>6. ASSUME Expiring(w, u)'
      PROVE  Gone(u) /\ row'[u] = row[u]
  <2>1. DecideRemoval(w)
    BY <1>6, Flow DEF Expiring
  <2>2. job'[w].user = job[w].user /\ job'[w].kind = job[w].kind
    BY <2>1, SameOperation, Zenon
       DEF Step, DecideRemoval, EnterBusy, Exit, At
  <2>3. IsOffline(u) /\ row' = row
    BY <1>6, <2>1, <2>2
       DEF DecideRemoval, MayGo, Expiring, Goto, PresenceTypeOK
  <2> QED
    BY <2>3 DEF IsOffline, Marked, Gone
<1> QED
  BY <1>2, <1>3, <1>4, <1>5, <1>6 DEF Gone

\* Evidence and returns exclude each other: a return bumps the version and
\* clears the marker, a disconnect bumps it before it writes one, and what was
\* read before a bump matches nothing after it.
LEMMA GoneNext ==
  ASSUME PresenceInv, PresenceTypeOK', [PresenceNext]_vars
  PROVE  GoneAway' /\ NotBoth'
<1> USE DEF PresenceInv
<1>1. CASE Around
  <2>1. ASSUME NEW u \in Users
        PROVE  /\ Gone(u)' => Gone(u)
               /\ \A g \in Workers : Returning(g, u)' => Returning(g, u)
               /\ Sure(u)' => Sure(u)
    <3>1. Marked(u)' => Marked(u)
      <4>1. CASE marker' = marker
        BY <1>1, <4>1, AroundMoves DEF Marked
      <4>2. ASSUME NEW v \in Users, marker[v] # None,
                   marker' = [marker EXCEPT ![v].ripe = TRUE]
            PROVE  Marked(u)' => Marked(u)
        <5>1. marker[v] \in Marker /\ marker \in [Users -> {None} \cup Marker]
          BY <4>2 DEF PresenceTypeOK
        <5>2. marker'[u] = IF u = v THEN [marker[v] EXCEPT !.ripe = TRUE]
                                    ELSE marker[u]
          BY <4>2, <5>1
        <5>3. [marker[v] EXCEPT !.ripe = TRUE].row = marker[v].row
          BY <5>1 DEF Marker
        <5> QED
          BY <1>1, <4>2, <5>2, <5>3, AroundMoves DEF Marked
      <4> QED
        BY <1>1, <4>1, <4>2, AroundMoves
    <3>2. \A g \in Workers : lock' = g => lock = g
      BY <1>1, AroundMoves, PresenceTokenAssumption
    <3> QED
      BY <1>1, <3>1, <3>2, AroundMoves
         DEF Gone, Leaving, Expiring, Returning, Sure
  <2> QED
    BY <1>1, <2>1, AroundMoves DEF GoneAway, NotBoth
<1>2. ASSUME NEW w \in Workers, WorkerStep(w)
      PROVE  GoneAway' /\ NotBoth'
  <2>1. /\ \A g \in Workers : job[g].row \in Row
        /\ \A u \in Users : row[u] \in Row /\ row'[u] \in Row
        /\ RowStep(w)
    BY <1>2, RowMoves DEF PresenceTypeOK, JobType
  <2>2. \A g \in Workers, u \in Users : Rereading(g, u) => Gone(u)
    BY DEF Rereading, Leaving, Gone
  <2>3. ASSUME NEW u \in Users, seat'[u] # 0, Sure(u)', Gone(u)'
        PROVE  u \in away'
    <3>1. CASE Bump(w) /\ u \in away'
      BY <3>1
    <3>2. CASE seat[u] # 0 /\ Gone(u)
      <4>1. row[u].id > 0 /\ row[u].id <= row'[u].id
        BY <2>1, <3>2, RowsGrow, PastOrder DEF RowsPast
      <4>2. Sure(u)
        <5>1. leaseLost' = leaseLost
          BY <1>2, StoreMoves
        <5>2. leaseLost => row'[u].id = 1
          BY <2>3, <5>1 DEF Sure
        <5>3. row[u].id \in Nat
          BY <2>1 DEF Row
        <5> QED
          BY <4>1, <5>2, <5>3 DEF Sure
      <4>3. u \in away
        BY <3>2, <4>2 DEF GoneAway
      <4>4. ~ (Confirm(w) /\ u = job[w].user /\ row[u] = job[w].row)
        BY <3>2 DEF Confirm, RowFree, At, Returning, NotBoth
      <4> QED
        BY <1>2, <2>3, <4>3, <4>4, MemberMoves DEF MemberStep
    <3>3. CASE seat[u] = 0
      <4>1. JoinTx(w) /\ u = job[w].user /\ row'[u].id = row[u].id + 1
        BY <1>2, <2>3, <3>3, MemberMoves DEF MemberStep
      <4>2. row'[u] # row[u] /\ ~ Bump(w)
        BY <2>1, <4>1 DEF Row, JoinTx, Bump, RowFree, At
      <4>3. PICK g \in Workers : Rereading(g, u)
        BY <1>2, <2>3, <4>2, NewlyGone
      <4>4. row[u].id > 0
        BY <4>3 DEF Rereading, RowsPast
      <4>5. ~ leaseLost
        BY <1>2, <2>1, <2>3, <4>1, <4>4, StoreMoves DEF Sure, Row
      <4>6. status # "DELETED"
        BY <2>3, <3>3, <4>1 DEF JoinTx
      <4>7. u \in away
        BY <4>3, <4>5, <4>6 DEF Plans, Plan, Rereading
      <4> QED
        BY <3>3, <4>5, <4>7 DEF MembershipInv, AwayMembers, Members
    <3> QED
      BY <1>2, <2>2, <2>3, <3>1, <3>2, <3>3, NewlyGone
  <2>4. ASSUME NEW u \in Users, NEW g \in Workers, Returning(g, u)', Gone(u)'
        PROVE  FALSE
    <3>1. CASE g # w
      <4>1. pc'[g] = pc[g] /\ job'[g] = job[g]
        BY <1>2, <3>1, OneMoves
      <4>2. row'[u] = row[u]
        BY <2>1, <2>4, <4>1, ReadRow DEF Returning, RowsPast
      <4>3. lock' = g => lock = g
        BY <1>2, <3>1, StoreMoves, PresenceTokenAssumption DEF LockStep
      <4>4. Returning(g, u)
        BY <2>4, <4>1, <4>2, <4>3 DEF Returning
      <4> QED
        BY <1>2, <2>2, <2>4, <4>2, <4>4, NewlyGone DEF NotBoth
    <3>2. CASE g = w /\ pc'[w] = "confirm"
      <4>1. Clear(w)
        BY <1>2, <3>2, Flow
      <4>2. /\ job' = job /\ row' = row /\ pc[w] = "clear" /\ lock = w
        BY <3>2, <4>1 DEF Clear, At, Goto, PresenceTypeOK
      <4>3. Returning(w, u)
        BY <2>4, <3>2, <4>2 DEF Returning
      <4> QED
        BY <1>2, <2>2, <2>4, <4>2, <4>3, NewlyGone DEF NotBoth
    <3>3. CASE g = w /\ pc'[w] = "clear"
      <4>1. Bump(w)
        BY <1>2, <3>3, Flow
      <4>2. lock = w /\ pc[w] = "bump"
        BY <2>4, <3>3, <4>1 DEF Returning, Bump, At, locks
      <4>3. job'[w].user = job[w].user
        BY <4>1, SameOperation, Zenon
           DEF Step, Bump, EnterBusy, Exit, At
      <4>4. row' = [row EXCEPT ![u] = [row[u] EXCEPT !.version = @ + 1]]
        BY <2>4, <3>3, <4>1, <4>3 DEF Returning, Bump, Goto, PresenceTypeOK
      <4>5. row'[u] # row[u]
        <5>1. row'[u].version = row[u].version + 1
          BY <2>1, <4>4 DEF PresenceTypeOK, Row
        <5> QED
          BY <2>1, <5>1 DEF Row
      <4> QED
        BY <1>2, <2>4, <3>3, <4>2, <4>5, NewlyGone DEF Rereading
    <3> QED
      BY <2>4, <3>1, <3>2, <3>3 DEF Returning
  <2> QED
    BY <2>3, <2>4 DEF GoneAway, NotBoth
<1> QED
  BY <1>1, <1>2, PresenceSteps

\* A step that is not of the operation holding the presence lock leaves the
\* room to it, unless the room goes: nobody goes or comes back, and whoever
\* joins is online.
LEMMA Outsider ==
  ASSUME PresenceInv, ~ leaseLost, NEW w \in Workers, WorkerStep(w),
         pc[w] \notin InSection, status' # "DELETED"
  PROVE  /\ hostId' = hostId /\ away \subseteq away'
         /\ Members \subseteq Members' /\ Offline' = Offline
<1> USE DEF PresenceInv
<1>1. /\ ~ Confirm(w) /\ ~ RemoveTx(w) /\ ~ KickTx(w) /\ ~ TransferTx(w)
      /\ ~ Bump(w) /\ ~ Unmark(w) /\ ~ Clear(w) /\ ~ Mark(w)
  BY DEF InSection, Confirm, RemoveTx, KickTx, TransferTx, Bump, Unmark, Clear,
         Mark, RowFree, At
<1>2. ~ CleanTx(w)
  BY DEF CleanTx, Delete
<1>3. hostId' = hostId /\ MemberStep(w)
  BY <1>1, MemberMoves
<1>4. \A u \in Users : seat[u] # 0 => seat'[u] # 0
  BY <1>1, <1>3 DEF MemberStep
<1>5. Members \subseteq Members' /\ away \subseteq away'
  BY <1>1, <1>3, <1>4
     DEF MemberStep, Members, MembershipInv, AwayMembers
<1>6. marker' = marker
  BY <1>1, <1>2, StoreMoves DEF MarkerStep
<1>7. \A u \in Users : seat[u] # 0 => row'[u] = row[u]
  BY <1>1, RowMoves DEF RowStep, Members, PresenceTypeOK
<1>8. ASSUME NEW u \in Users
      PROVE  IsOffline(u)' <=> IsOffline(u)
  <2>1. CASE seat[u] # 0
    BY <1>4, <1>6, <1>7, <2>1 DEF IsOffline, Members
  <2>2. CASE seat[u] = 0 /\ seat'[u] = 0
    BY <2>2 DEF IsOffline, Members
  <2>3. CASE seat[u] = 0 /\ seat'[u] # 0
    <3>1. row'[u].id = row[u].id + 1 /\ row[u] \in Row
      BY <1>3, <2>3 DEF MemberStep, PresenceTypeOK
    <3>2. CASE marker[u] # None
      <4>1. marker[u].row \in Row /\ Past(marker[u].row, row[u])
        BY <3>2 DEF PresenceTypeOK, Marker, RowsPast
      <4>2. marker[u].row # row'[u]
        BY <3>1, <4>1 DEF Past, Row
      <4> QED
        BY <1>6, <2>3, <4>2 DEF IsOffline, Members
    <3> QED
      BY <1>6, <2>3, <3>2 DEF IsOffline, Members
  <2> QED
    BY <2>1, <2>2, <2>3
<1> QED
  BY <1>3, <1>5, <1>8 DEF Offline

\* What an operation has planned under the presence lock still holds.
LEMMA PlansNext ==
  ASSUME PresenceInv, PresenceTypeOK', JobsOK', [PresenceNext]_vars
  PROVE  Plans'
<1> USE DEF PresenceInv
<1>1. SUFFICES ASSUME ~ leaseLost', status' # "DELETED", NEW g \in Workers
               PROVE  Plan(g)'
  BY DEF Plans
<1>2. CASE Around
  <2>1. \A u \in Users : IsOffline(u)' <=> IsOffline(u)
    <3>1. ASSUME NEW u \in Users
          PROVE  Marked(u)' <=> Marked(u)
      <4>1. CASE marker' = marker
        BY <1>2, <4>1, AroundMoves DEF Marked
      <4>2. ASSUME NEW v \in Users, marker[v] # None,
                   marker' = [marker EXCEPT ![v].ripe = TRUE]
            PROVE  Marked(u)' <=> Marked(u)
        <5>1. marker[v] \in Marker /\ marker \in [Users -> {None} \cup Marker]
          BY <4>2 DEF PresenceTypeOK
        <5>2. marker'[u] = IF u = v THEN [marker[v] EXCEPT !.ripe = TRUE]
                                    ELSE marker[u]
          BY <4>2, <5>1
        <5>3. [marker[v] EXCEPT !.ripe = TRUE].row = marker[v].row
          BY <5>1 DEF Marker
        <5>4. [marker[v] EXCEPT !.ripe = TRUE] \in Marker
          BY <5>1 DEF Marker
        <5>5. marker'[u] # None <=> marker[u] # None
          BY <4>2, <5>2, <5>4, PresenceMarkerAssumption
        <5> QED
          BY <1>2, <5>2, <5>3, <5>5, AroundMoves DEF Marked
      <4> QED
        BY <1>2, <4>1, <4>2, AroundMoves
    <3> QED
      BY <1>2, <3>1, AroundMoves DEF Marked, IsOffline, Members
  <2>2. Offline' = Offline /\ Members' = Members
    BY <1>2, <2>1, AroundMoves DEF Offline, Members
  <2>3. ~ leaseLost /\ status # "DELETED"
    BY <1>1, <1>2, AroundMoves
  <2>4. Plan(g)
    BY <2>3 DEF Plans
  <2> QED
    BY <1>2, <2>2, <2>4, AroundMoves DEF Plan
<1>3. ASSUME NEW w \in Workers, WorkerStep(w)
      PROVE  Plan(g)'
  <2>1. ~ leaseLost /\ status # "DELETED"
    BY <1>1, <1>3, StoreMoves, MemberMoves
  <2>2. Plan(g)
    BY <2>1 DEF Plans
  <2>3. CASE g # w
    <3>1. pc'[g] = pc[g] /\ job'[g] = job[g]
      BY <1>3, <2>3, OneMoves
    <3>2. CASE pc[g] \in InSection
      <4>1. pc[w] \notin InSection
        BY <2>1, <2>3, <3>2 DEF Holders
      <4> QED
        BY <1>1, <1>3, <2>1, <2>2, <3>1, <4>1, Outsider DEF Plan
    <3>3. CASE pc[g] \notin InSection
      BY <3>1, <3>3 DEF Plan, InSection
    <3> QED
      BY <3>2, <3>3
  <2>4. CASE g = w
    <3>1. CASE pc'[w] = "remove"
      <4>1. DecideRemoval(w)
        BY <1>3, <3>1, Flow
      <4>2. /\ job'[w].host = hostId
            /\ job'[w].others = Offline \ {job[w].user}
            /\ job'[w].user = job[w].user
        BY <3>1, <4>1 DEF DecideRemoval, Goto, PresenceTypeOK, JobType
      <4>3. hostId' = hostId /\ Offline' = Offline
        BY <4>1 DEF DecideRemoval, membership, room, Offline, IsOffline, Members
      <4> QED
        BY <2>4, <3>1, <4>2, <4>3 DEF Plan
    <3>2. CASE pc'[w] = "reread"
      <4>1. Bump(w)
        BY <1>3, <3>2, Flow
      <4>2. job'[w].user = job[w].user
        BY <4>1, SameOperation, Zenon
           DEF Step, Bump, EnterBusy, Exit, At
      <4>3. job[w].user \in away' /\ job'[w].host = hostId /\ hostId' = hostId
        BY <3>2, <4>1 DEF Bump, Goto, PresenceTypeOK, JobType, room
      <4> QED
        BY <2>4, <3>2, <4>2, <4>3 DEF Plan
    <3>3. CASE pc'[w] \in {"mark", "touch"}
      <4>1. Reread(w) \/ Mark(w)
        BY <1>3, <3>3, Flow
      <4>2. job'[w].user = job[w].user /\ job'[w].host = job[w].host
        BY <4>1, SameOperation, Zenon
           DEF Step, DecideRemoval, Bump, Touch, Reread, Mark, EnterBusy, Exit,
               At, RowFree
      <4>3. /\ hostId' = hostId /\ away' = away
            /\ pc[w] \in {"reread", "mark"}
        BY <4>1 DEF Reread, Mark, At, membership, room
      <4> QED
        BY <2>2, <2>4, <3>3, <4>2, <4>3 DEF Plan
    <3>4. CASE pc'[w] = "transfer"
      <4>1. Touch(w)
        BY <1>3, <3>4, Flow
      <4>2. /\ job'[w].host = Successor(w) /\ Successor(w) # None
            /\ job'[w].user = job[w].user
        BY <3>4, <4>1 DEF Touch, Goto, PresenceTypeOK, JobType
      <4>3. Successor(w) \in Members \ {job[w].user}
        <5>1. seat \in [Users -> 0 .. MaxSeats]
          BY DEF PresenceTypeOK, TypeOK
        <5> QED
          BY <4>2, <5>1, PickedAmongOthers
      <4>4. away' = away /\ Members' = Members /\ pc[w] = "touch"
        BY <4>1 DEF Touch, RowFree, At, membership, Members
      <4> QED
        BY <2>2, <2>4, <3>4, <4>2, <4>3, <4>4 DEF Plan
    <3> QED
      BY <2>4, <3>1, <3>2, <3>3, <3>4 DEF Plan
  <2> QED
    BY <2>3, <2>4
<1> QED
  BY <1>2, <1>3, PresenceSteps

\* While a cleanup has the row of a room it found empty, nobody comes back.
LEMMA EmptyRoomNext ==
  ASSUME PresenceInv, PresenceTypeOK', [PresenceNext]_vars
  PROVE  EmptyRoom'
<1> USE DEF PresenceInv
<1>1. CASE Around
  BY <1>1, AroundMoves DEF EmptyRoom, Sure
<1>2. ASSUME NEW w \in Workers, WorkerStep(w), NEW g \in Workers,
             NEW u \in Users, pc'[g] = "cleanTx", seat'[u] # 0, Sure(u)'
      PROVE  u \in away'
  <2>1. CASE g = w
    <3>1. CleanRead(w)
      BY <1>2, <2>1, Flow
    <3>2. Members \subseteq Offline /\ UNCHANGED <<membership, row, marker>>
      BY <1>2, <2>1, <3>1 DEF CleanRead, Goto, PresenceTypeOK
    <3>3. u \in Members /\ away' = away
      BY <1>2, <3>2 DEF membership, Members
    <3>4. Gone(u) /\ seat[u] # 0
      BY <3>2, <3>3 DEF Offline, IsOffline, Members, Gone, Marked
    <3>5. Sure(u)
      BY <1>2, <3>2, StoreMoves DEF Sure
    <3> QED
      BY <3>3, <3>4, <3>5 DEF GoneAway
  <2>2. CASE g # w
    <3>1. pc[g] = "cleanTx" /\ rowLock = g /\ rowLock # Free
      BY <1>2, <2>2, OneMoves, PresenceTokenAssumption DEF RowHolders
    <3>2. ~ JoinTx(w) /\ ~ Confirm(w)
      BY <3>1 DEF JoinTx, Confirm, RowFree
    <3>3. seat[u] # 0
      BY <1>2, <3>2, MemberMoves DEF MemberStep
    <3>4. Sure(u)
      <4>1. /\ leaseLost' = leaseLost /\ row[u].id > 0
            /\ row[u] \in Row /\ row'[u] \in Row
        BY <1>2, <3>3, StoreMoves DEF RowsPast, PresenceTypeOK
      <4>2. row[u].id <= row'[u].id
        BY <1>2, <4>1, RowMoves, RowsGrow, PastOrder
      <4>3. leaseLost => row'[u].id = 1
        BY <1>2, <4>1 DEF Sure
      <4> QED
        BY <4>1, <4>2, <4>3 DEF Sure, Row
    <3>5. u \in away
      BY <3>1, <3>3, <3>4 DEF EmptyRoom
    <3> QED
      BY <1>2, <3>2, <3>5, MemberMoves DEF MemberStep
  <2> QED
    BY <2>1, <2>2
<1> QED
  BY <1>1, <1>2, PresenceSteps DEF EmptyRoom

\* Until a lease is lost, a step is one operation of Membership or none.
LEMMA PresenceStepImplements ==
  ASSUME PresenceInv, PresenceTypeOK', ~ leaseLost, [PresenceNext]_vars
  PROVE  [Next]_membership
<1> USE DEF PresenceInv
<1>1. CASE Around
  BY <1>1 DEF Around, HostActs, Ripen, Hour, LockExpires, vars, Next
<1>2. ASSUME NEW w \in Workers, RemoveTx(w)
      PROVE  [Next]_membership
  <2> DEFINE u == job[w].user
  <2>1. CASE ~ MayRemove(w) \/ ~ SameRow(w)
    BY <1>2, <2>1 DEF RemoveTx
  <2>2. CASE MayRemove(w) /\ SameRow(w)
    <3>1. /\ status = "WAITING" /\ u \in Members /\ u \in Users
          /\ hostId \in Members
      BY <2>2
         DEF MayRemove, SameRow, Members, MembershipInv, HostPresent
    <3>2. job[w].host = hostId
      BY <1>2, <3>1 DEF RemoveTx, RowFree, At, Plans, Plan
    <3>3. CASE u # hostId
      <4>1. DeleteMember(w) /\ hostId' = hostId
        BY <1>2, <2>2, <3>2, <3>3 DEF RemoveTx
      <4>2. Remove(u)
        BY <3>1, <3>3, <4>1 DEF DeleteMember, Remove
      <4> QED
        BY <3>1, <4>2 DEF Leave, Next
    <3>4. CASE u = hostId /\ Members # {u}
      <4>1. DeleteMember(w) /\ hostId' = Heir(w)
        BY <1>2, <2>2, <3>2, <3>4 DEF RemoveTx
      <4>2. Heir(w) \in Members \ {u}
        <5>1. seat \in [Users -> 0 .. MaxSeats]
          BY DEF PresenceTypeOK, TypeOK
        <5>2. Members \ {u} # {}
          BY <3>1, <3>4
        <5> QED
          BY <5>1, <5>2, PickedAmongOthers
      <4>3. Remove(u)
        BY <3>1, <3>4, <4>1, <4>2 DEF DeleteMember, Remove
      <4> QED
        BY <3>1, <4>3 DEF Leave, Next
    <3>5. CASE u = hostId /\ Members = {u}
      <4>1. Remove(u)
        BY <1>2, <2>2, <3>1, <3>2, <3>5 DEF RemoveTx, Remove
      <4> QED
        BY <3>1, <4>1 DEF Leave, Next
    <3> QED
      BY <3>3, <3>4, <3>5
  <2> QED
    BY <2>1, <2>2
<1>3. ASSUME NEW w \in Workers, KickTx(w)
      PROVE  [Next]_membership
  <2> DEFINE u == job[w].user
  <2>1. CASE UNCHANGED membership
    BY <2>1
  <2>2. CASE /\ status = "WAITING" /\ u # hostId /\ u \in Members
             /\ DeleteMember(w) /\ UNCHANGED hostId
    <3>1. u \in Users /\ Members # {u}
      BY <2>2 DEF Members, MembershipInv, HostPresent
    <3>2. Remove(u)
      BY <2>2, <3>1 DEF DeleteMember, Remove
    <3> QED
      BY <2>2, <3>1, <3>2 DEF Kick, Next
  <2> QED
    BY <1>3, <2>1, <2>2 DEF KickTx
<1>4. ASSUME NEW w \in Workers, Bump(w)
      PROVE  [Next]_membership
  <2> DEFINE u == job[w].user
  <2>1. CASE away' = away
    BY <1>4, <2>1 DEF Bump, membership
  <2>2. CASE away' # away
    <3>1. u \in Users /\ Depart(u)
      BY <1>4, <2>2 DEF Bump, Depart, Members
    <3> QED
      BY <3>1 DEF Next
  <2> QED
    BY <2>1, <2>2
<1>5. ASSUME NEW w \in Workers, Confirm(w)
      PROVE  [Next]_membership
  <2> DEFINE u == job[w].user
  <2>1. CASE ~ SameRow(w)
    BY <1>5, <2>1 DEF Confirm, membership
  <2>2. CASE SameRow(w)
    <3>1. u \in Users /\ Return(u)
      BY <1>5, <2>2 DEF Confirm, SameRow, Return, Members
    <3> QED
      BY <3>1 DEF Next
  <2> QED
    BY <2>1, <2>2
<1>6. ASSUME NEW w \in Workers, TransferTx(w)
      PROVE  [Next]_membership
  <2>1. CASE hostId' = hostId
    BY <1>6, <2>1 DEF TransferTx, membership, room
  <2>2. CASE hostId' # hostId
    <3>1. /\ status = "PLAYING" /\ hostId = job[w].user
          /\ hostId' = job[w].host
      BY <1>6, <2>2 DEF TransferTx
    <3>2. /\ job[w].user \in away
          /\ job[w].host \in Members \ {job[w].user}
      BY <1>6, <3>1 DEF TransferTx, RowFree, At, Plans, Plan
    <3>3. Transfer
      BY <1>6, <3>1, <3>2 DEF TransferTx, Transfer
    <3> QED
      BY <3>3 DEF Next
  <2> QED
    BY <2>1, <2>2
<1>7. ASSUME NEW w \in Workers, JoinTx(w)
      PROVE  [Next]_membership
  <2> DEFINE u == job[w].user
  <2>1. CASE seat' = seat
    BY <1>7, <2>1 DEF JoinTx, membership
  <2>2. CASE seat' # seat
    <3>1. u \in Users
      BY <1>7 DEF JoinTx, RowFree, At, JobsOK
    <3>2. Join(u)
      BY <1>7, <2>2 DEF JoinTx, Join, Limit
    <3> QED
      BY <3>1, <3>2 DEF Next
  <2> QED
    BY <2>1, <2>2
<1>8. ASSUME NEW w \in Workers, CleanTx(w)
      PROVE  [Next]_membership
  <2>1. status # "DELETED" /\ Members \subseteq away /\ Delete
    BY <1>8 DEF CleanTx, At, RowHolders, EmptyRoom, Sure, Members
  <2> QED
    BY <2>1 DEF Abandon, Next
<1>9. ASSUME NEW w \in Workers, WorkerStep(w),
             ~ RemoveTx(w), ~ KickTx(w), ~ Bump(w), ~ Confirm(w),
             ~ TransferTx(w), ~ JoinTx(w), ~ CleanTx(w)
      PROVE  [Next]_membership
  <2>1. UNCHANGED membership
    BY <1>9, Zenon
       DEF WorkerStep, Request, RequestExpire, RequestClean, Ask, Crash,
           Step, Enter, EnterBusy, Exit, DecideRemoval, DecideOther,
           Unmark, Reread, Mark, Touch, Clear, ReadToJoin, CleanRow, CleanRead
  <2> QED
    BY <2>1
<1> QED
  BY <1>1, <1>2, <1>3, <1>4, <1>5, <1>6, <1>7, <1>8, <1>9, PresenceSteps

-----------------------------------------------------------------------------
\* A new room has one member, no marker and nobody at work.
LEMMA PresenceInvInit == PresenceInit => PresenceInv
<1> SUFFICES ASSUME PresenceInit
             PROVE  PresenceInv
  OBVIOUS
<1> USE DEF PresenceInit
<1>1. MembershipInv
  BY InvInit
<1>2. Idle \in JobType /\ Idle.user = None /\ NoRow \in Row
  BY SeatsAssumption DEF Idle, NoRow, Row, JobType
<1>3. PresenceTypeOK
  <2>1. row \in [Users -> Row]
    BY <1>2 DEF Row
  <2>2. pc \in [Workers -> Labels] /\ job \in [Workers -> JobType]
    BY <1>2 DEF Labels
  <2>3. requests \in 0 .. MaxRequests /\ faults \in 0 .. MaxFaults
    BY PresenceBoundsAssumption
  <2> QED
    BY <1>1, <2>1, <2>2, <2>3 DEF PresenceTypeOK, MembershipInv
<1>4. \A w \in Workers : pc[w] = "idle" /\ job[w].user \notin Users
  BY <1>2, PresenceTokenAssumption
<1>5. Holders /\ RowHolders /\ JobsOK /\ Plans /\ EmptyRoom
  BY <1>4 DEF Holders, RowHolders, JobsOK, Plans, Plan, EmptyRoom, InSection
<1>6. RowsPast
  BY <1>4 DEF RowsPast, Init
<1>7. GoneAway /\ NotBoth
  BY <1>4
     DEF GoneAway, NotBoth, Gone, Marked, Leaving, Expiring, Returning
<1> QED
  BY <1>1, <1>3, <1>5, <1>6, <1>7 DEF PresenceInv, MembershipInv

\* Every step keeps the invariant, the loss of a lease included.
LEMMA PresenceInvNext ==
  ASSUME PresenceInv, [PresenceNext]_vars PROVE PresenceInv'
<1>1. /\ PresenceTypeOK /\ SeatsSound /\ JobsOK /\ Holders /\ RowHolders
      /\ RowsPast /\ (leaseLost \/ MembershipInv)
  BY DEF PresenceInv
<1>2. PresenceTypeOK' /\ SeatsSound'
  BY <1>1, PresenceTypeNext
<1>3. JobsOK' /\ Holders' /\ RowHolders' /\ RowsPast'
  BY <1>1, <1>2, JobsNext, HoldersNext, RowHoldersNext, RowsPastNext
<1>4. GoneAway' /\ NotBoth' /\ Plans' /\ EmptyRoom'
  BY <1>2, <1>3, GoneNext, PlansNext, EmptyRoomNext
<1>5. leaseLost' \/ MembershipInv'
  <2>1. leaseLost => leaseLost'
    BY <1>1, AroundMoves, StoreMoves, PresenceSteps
  <2>2. ~ leaseLost => MembershipInv'
    BY <1>1, <1>2, PresenceStepImplements, InvNext
  <2> QED
    BY <2>1, <2>2
<1> QED
  BY <1>2, <1>3, <1>4, <1>5 DEF PresenceInv

\* The invariant holds throughout.
LEMMA PresenceInvariant == PresenceSpec => []PresenceInv
<1>1. PresenceInit => PresenceInv
  BY PresenceInvInit
<1>2. PresenceInv /\ [PresenceNext]_vars => PresenceInv'
  BY PresenceInvNext
<1> QED
  BY <1>1, <1>2, PTL DEF PresenceSpec

\* Rows, markers, locks and jobs keep their types, and until a lease is lost
\* every room has its host among its members.
THEOREM PresenceSafety ==
  PresenceSpec => [](PresenceTypeOK /\ (leaseLost \/ HostPresent))
<1>1. PresenceInv => PresenceTypeOK /\ (leaseLost \/ HostPresent)
  BY DEF PresenceInv, MembershipInv
<1> QED
  BY <1>1, PresenceInvariant, PTL

\* As long as no lease of the presence lock has been lost, every transaction
\* and every Redis call of room.service.ts is one operation of Membership or
\* none: leave and expiry remove a member and name another host, only those
\* who are away expire or are cleaned up with their room, a transfer goes from
\* a host who is away to another member.
THEOREM PresenceImplements == PresenceSpec => ImplementsMembership
<1>1. PresenceInv /\ PresenceInv' /\ [PresenceNext]_vars =>
        [leaseLost \/ Next]_membership
  BY PresenceStepImplements DEF PresenceInv
<1> QED
  BY <1>1, PresenceInvariant, PTL DEF PresenceSpec, ImplementsMembership

\* Who is not away is not in any evidence, and so in no expiry or cleanup.
LEMMA ReturnStep ==
  ASSUME PresenceInv, [PresenceNext]_vars, NEW u \in Members \ away,
         seat'[u] = 0, leaseLost => row[u].id = 1
  PROVE  \E w \in Workers :
            /\ pc[w] \in {"remove", "kick"} /\ pc'[w] # pc[w]
            /\ job[w].kind \in {"leave", "kick"} /\ job[w].user = u
<1> USE DEF PresenceInv
<1>1. u \in Users /\ seat[u] # 0 /\ Sure(u)
  BY DEF Members, Sure
<1>2. ~ Around
  BY <1>1, AroundMoves
<1>3. PICK w \in Workers : WorkerStep(w)
  BY <1>2, PresenceSteps
<1>4. ~ CleanTx(w)
  BY <1>1 DEF CleanTx, At, EmptyRoom
<1>5. CASE RemoveTx(w)
  <2>1. /\ SameRow(w) /\ job[w].user = u
        /\ pc[w] = "remove" /\ pc'[w] = "unmark"
    BY <1>1, <1>5
       DEF RemoveTx, RowFree, At, Goto, DeleteMember, Delete, membership,
           PresenceTypeOK, TypeOK, Members
  <2>2. job[w].kind # "expire"
    BY <1>1, <2>1 DEF SameRow, Expiring, Gone, GoneAway
  <2>3. job[w].kind = "leave"
    BY <2>1, <2>2 DEF JobsOK
  <2> QED
    BY <2>1, <2>3
<1>6. CASE KickTx(w)
  <2>1. job[w].user = u /\ pc[w] = "kick" /\ pc'[w] = "unmark"
    BY <1>1, <1>6
       DEF KickTx, RowFree, At, Goto, DeleteMember, membership,
           PresenceTypeOK, TypeOK
  <2> QED
    BY <2>1 DEF JobsOK
<1>7. CASE ~ RemoveTx(w) /\ ~ KickTx(w)
  <2>1. CASE JoinTx(w)
    BY <1>1, <2>1 DEF JoinTx, PresenceTypeOK, TypeOK, Members
  <2>2. CASE ~ JoinTx(w)
    <3>1. seat' = seat
      BY <1>3, <1>4, <1>7, <2>2, Zenon
         DEF membership,
             WorkerStep, Request, RequestExpire, RequestClean, Ask, Crash,
             Step, Enter, EnterBusy, Exit, DecideRemoval, DecideOther, Bump,
             Unmark, Reread, Mark, Touch, TransferTx, Clear, Confirm,
             ReadToJoin, CleanRow, CleanRead
    <3> QED
      BY <1>1, <3>1
  <2> QED
    BY <2>1, <2>2
<1> QED
  BY <1>5, <1>6, <1>7

\* A player whose return was confirmed keeps his seat until he leaves or is
\* kicked, however old the marker an expiry or a cleanup has read; lost leases
\* change that for no first membership.
THEOREM ReturnsAreKept == PresenceSpec => ReturnKept
<1>1. PresenceInv /\ [PresenceNext]_vars =>
        [ \A u \in Members \ away :
            seat'[u] = 0 /\ (leaseLost => row[u].id = 1) =>
              \E w \in Workers :
                /\ pc[w] \in {"remove", "kick"} /\ pc'[w] # pc[w]
                /\ job[w].kind \in {"leave", "kick"} /\ job[w].user = u ]_vars
  BY ReturnStep
<1> QED
  BY <1>1, PresenceInvariant, PTL DEF PresenceSpec, ReturnKept

\* The preview of the members offline is exact when the host's row goes, and a
\* member who has joined since is online.
LEMMA HeirStep ==
  ASSUME PresenceInv, [PresenceNext]_vars, status = "WAITING",
         hostId' # hostId, ~ leaseLost
  PROVE  hostId' \notin Offline \/ Members \ {hostId} \subseteq Offline
<1> USE DEF PresenceInv
<1>1. ~ Around
  BY AroundMoves
<1>2. PICK w \in Workers : WorkerStep(w)
  BY <1>1, PresenceSteps
<1>3. RemoveTx(w)
  BY <1>2, MemberMoves DEF TransferTx
<1> DEFINE u == job[w].user
           rest == Members \ {u}
           online == rest \ job[w].others
<1>4. job[w].host = hostId /\ job[w].others = Offline \ {u}
  BY <1>3 DEF RemoveTx, RowFree, At, Plans, Plan
<1>5. u = hostId /\ Members # {u} /\ hostId' = Heir(w) /\ u \in Members
  BY <1>3, <1>4
     DEF RemoveTx, SameRow, membership, room, Delete
<1>6. Heir(w) = IF online # {} THEN Lowest(online) ELSE Lowest(rest)
  BY DEF Heir
<1>7. CASE online = {}
  BY <1>4, <1>5, <1>7
<1>8. CASE online # {}
  <2>1. online \subseteq Users /\ seat \in [Users -> 0 .. MaxSeats]
    BY DEF Members, PresenceTypeOK, TypeOK
  <2>2. Lowest(online) \in online
    BY <1>8, <2>1, LowestIsOne
  <2> HIDE DEF rest, online
  <2>3. hostId' \in online
    BY <1>5, <1>6, <1>8, <2>2
  <2> QED
    BY <1>4, <2>3 DEF rest, online
<1> QED
  BY <1>7, <1>8

\* When the host of a waiting room leaves or expires, the room goes to an
\* online member if there is one.
THEOREM HeirIsOnline == PresenceSpec => NewHostOnline
<1>1. PresenceInv /\ [PresenceNext]_vars =>
        [ status = "WAITING" /\ hostId' # hostId /\ ~ leaseLost =>
            hostId' \notin Offline
              \/ Members \ {hostId} \subseteq Offline ]_vars
  BY HeirStep
<1> QED
  BY <1>1, PresenceInvariant, PTL DEF PresenceSpec, NewHostOnline

\* The host a disconnect has read is the host it finds in its transaction.
LEMMA HandOverStep ==
  ASSUME PresenceInv, [PresenceNext]_vars, NEW w \in Workers,
         pc[w] \in {"touch", "transfer"}, pc'[w] = "exit",
         job[w].playing, ~ leaseLost
  PROVE  \/ status' # "PLAYING" \/ hostId' # job[w].user
         \/ Members = {job[w].user}
<1> USE DEF PresenceInv
<1>1. ~ Around
  BY AroundMoves
<1>2. WorkerStep(w)
  BY <1>1, PresenceSteps, OneMoves
<1>3. Touch(w) \/ TransferTx(w)
  BY <1>2, Zenon
     DEF WorkerStep, Request, RequestExpire, RequestClean, Ask, Crash, Goto,
         PresenceTypeOK, At, RowFree,
         Step, Enter, EnterBusy, Exit, DecideRemoval, DecideOther, RemoveTx,
         KickTx, Bump, Unmark, Reread, Mark, Clear, Confirm,
         ReadToJoin, JoinTx, CleanRow, CleanRead, CleanTx
<1>4. CASE status = "DELETED"
  BY <1>2, <1>4, MemberMoves
<1>5. CASE status # "DELETED" /\ Touch(w)
  <2> DEFINE u == job[w].user
             rest == Members \ {u}
  <2>1. UNCHANGED <<status, hostId>> /\ pc[w] = "touch"
    BY <1>5 DEF Touch, RowFree, At, membership, room
  <2>2. job[w].host = hostId /\ u \in Members
    BY <1>5, <2>1 DEF Plans, Plan, MembershipInv, AwayMembers
  <2>3. CASE job[w].host = u
    <3>1. Successor(w) = None
      BY <1>5, <2>3 DEF Touch, Goto, PresenceTypeOK
    <3>2. rest \subseteq Users /\ seat \in [Users -> 0 .. MaxSeats]
      BY DEF Members, PresenceTypeOK, TypeOK
    <3>3. rest = {}
      BY <3>1, <3>2, PickedAmongOthers, PresenceTokenAssumption
    <3> QED
      BY <2>2, <3>3
  <2> QED
    BY <2>1, <2>2, <2>3
<1>6. CASE status # "DELETED" /\ TransferTx(w)
  <2>1. pc[w] = "transfer" /\ job[w].host \in Members \ {job[w].user}
    BY <1>6 DEF TransferTx, RowFree, At, Plans, Plan
  <2> QED
    BY <1>6, <2>1 DEF TransferTx
<1> QED
  BY <1>3, <1>4, <1>5, <1>6

\* A host who goes offline during a game does not keep it while anybody else
\* is in it.
THEOREM GamesAreHandedOver == PresenceSpec => HostHandedOver
<1>1. PresenceInv /\ [PresenceNext]_vars =>
        [ \A w \in Workers :
            /\ pc[w] \in {"touch", "transfer"} /\ pc'[w] = "exit"
            /\ job[w].playing /\ ~ leaseLost
            => \/ status' # "PLAYING" \/ hostId' # job[w].user
               \/ Members = {job[w].user} ]_vars
  BY HandOverStep
<1> QED
  BY <1>1, PresenceInvariant, PTL DEF PresenceSpec, HostHandedOver
===============================================================================
