----------------------------- MODULE RoomPresence -----------------------------
(***************************************************************************)
(* Membership and presence as room.service.ts keeps them: the room row and *)
(* the membership rows in PostgreSQL, each with a presence version that    *)
(* every disconnect and every return bumps, the offline markers in Redis,  *)
(* bound to the row and version they were written for, and the presence    *)
(* lock of the room, a lease that leave, kick, markPlayerOnline,           *)
(* markPlayerOffline and the cleanup of offline players hold.  Joins,      *)
(* starts, ends and settings rely on the row lock alone.                   *)
(*                                                                         *)
(* A worker runs one operation; a database transaction is one step, except *)
(* the idle cleanup's, which keeps the row locked while it asks Redis.     *)
(* Reads that follow each other without a write are one step.  The module  *)
(* uses the variables of Membership and shows that it implements it.       *)
(*                                                                         *)
(* A definition named Wrong... is a slip the code could have made; it is   *)
(* used by no action and stands beside the definition it would replace.    *)
(***************************************************************************)
EXTENDS Membership

CONSTANTS
  Workers,       \* concurrent operations, in any process
  Free, Orphan,  \* lock values that are not a worker
  None,          \* no user, no marker
  MaxRequests,   \* bound on the operations of players
  MaxFaults      \* bound on the faults of a run

ASSUME PresenceBoundsAssumption == MaxRequests \in Nat /\ MaxFaults \in Nat
ASSUME PresenceTokenAssumption ==
  /\ Free # Orphan /\ Workers \cap {Free, Orphan} = {}
  /\ None \notin Users

VARIABLES
  row,       \* id and presenceVersion of each user's latest membership
  marker,    \* room:<code>:offline:<user>
  fresh,     \* the room row was updated within the last hour
  lock,      \* lock:room:<code>:presence
  rowLock,   \* the idle cleanup's lock on the room row
  pc, job,   \* per worker: position, and what it works on
  requests, faults,
  leaseLost  \* a lease of the presence lock expired under its holder

bounds == <<requests, faults, leaseLost>>
locks  == <<lock, rowLock>>
vars == <<membership, row, marker, fresh, locks, pc, job, bounds>>

NoRow == [id |-> 0, version |-> 0]
Idle == [kind |-> "none", user |-> None, row |-> NoRow, host |-> None,
         others |-> {}, playing |-> FALSE, limit |-> 0]

\* isPlayerOffline: the marker is the one of this membership and version.
IsOffline(u) ==
  /\ u \in Members /\ marker[u] # None
  /\ marker[u].row = row[u]
Offline == {u \in Users : IsOffline(u)}

\* deleteMany where id and presenceVersion: the row is still the one read.
WrongSameRow(w) ==
  LET u == job[w].user IN u \in Members /\ row[u].id = job[w].row.id
SameRow(w) ==
  LET u == job[w].user IN u \in Members /\ row[u] = job[w].row

PresenceInit ==
  /\ Init
  /\ row = [u \in Users |-> IF u = hostId THEN [id |-> 1, version |-> 0]
                            ELSE NoRow]
  /\ marker = [u \in Users |-> None]
  /\ fresh = TRUE /\ lock = Free /\ rowLock = Free
  /\ pc = [w \in Workers |-> "idle"] /\ job = [w \in Workers |-> Idle]
  /\ requests = 0 /\ faults = 0 /\ leaseLost = FALSE

At(w, label)   == pc[w] = label
Goto(w, label) == pc' = [pc EXCEPT ![w] = label]

\* Every step on the room row waits for whoever holds it.
RowFree(w, label) == At(w, label) /\ rowLock = Free

Lowest(us) == CHOOSE u \in us : \A v \in us : seat[u] <= seat[v]
-----------------------------------------------------------------------------
(* Requests.  An offline mark comes from a lost socket or a leave during a *)
(* game, an expiry from a timer or the cron job.                           *)

Ask(w, kind, u) ==
  /\ At(w, "idle")
  /\ job' = [job EXCEPT ![w] = [Idle EXCEPT !.kind = kind, !.user = u]]
  /\ Goto(w, CASE kind = "join" -> "join"
               [] kind = "clean" -> "cleanRow"
               [] OTHER -> "lock")
  /\ UNCHANGED <<membership, row, marker, fresh, locks, faults, leaseLost>>

Request(w) ==
  /\ requests < MaxRequests /\ requests' = requests + 1
  /\ \/ \E u \in Users, kind \in {"join", "leave", "online", "offline"} :
          Ask(w, kind, u)
     \/ \E u \in Users \ {hostId} : Ask(w, "kick", u)

RequestExpire(w) ==
  /\ \E u \in Users :
       marker[u] # None /\ marker[u].ripe /\ Ask(w, "expire", u)
  /\ UNCHANGED requests

RequestClean(w) ==
  /\ ~ fresh /\ Ask(w, "clean", None)
  /\ UNCHANGED requests

WrongEnter(w) ==
  /\ At(w, "lock")
  /\ lock' = w
  /\ Goto(w, "decide")
  /\ UNCHANGED <<membership, row, marker, fresh, rowLock, job, bounds>>
Enter(w) ==
  /\ At(w, "lock") /\ lock = Free
  /\ lock' = w
  /\ Goto(w, "decide")
  /\ UNCHANGED <<membership, row, marker, fresh, rowLock, job, bounds>>

\* LOCK_BUSY: the wait for a Redis lock is bounded.
EnterBusy(w) ==
  /\ At(w, "lock") /\ lock # Free
  /\ Goto(w, "idle")
  /\ job' = [job EXCEPT ![w] = Idle]
  /\ UNCHANGED <<membership, row, marker, fresh, locks, bounds>>

Exit(w) ==
  /\ At(w, "exit")
  /\ lock' = IF lock = w THEN Free ELSE lock
  /\ Goto(w, "idle")
  /\ job' = [job EXCEPT ![w] = Idle]
  /\ UNCHANGED <<membership, row, marker, fresh, rowLock, bounds>>
-----------------------------------------------------------------------------
(* What an operation reads once it has the lock. *)

\* A member who leaves, or one whose marker matches and has ripened.
MayGo(w) ==
  LET u == job[w].user IN
  IF job[w].kind = "leave" THEN u \in Members
  ELSE IsOffline(u) /\ marker[u].ripe

\* The room, then the membership row (the marker's, for an expiry), then the
\* markers of the other members.
DecideRemoval(w) ==
  /\ At(w, "decide") /\ job[w].kind \in {"leave", "expire"}
  /\ IF status = "WAITING" /\ MayGo(w)
       THEN /\ job' = [job EXCEPT ![w].row = row[job[w].user],
                                  ![w].host = hostId,
                                  ![w].others = Offline \ {job[w].user}]
            /\ Goto(w, "remove")
       ELSE /\ Goto(w, IF status = "PLAYING" /\ job[w].kind = "leave"
                       THEN "bump" ELSE "exit")
            /\ UNCHANGED job
  /\ UNCHANGED <<membership, row, marker, fresh, locks, bounds>>

DecideOther(w) ==
  /\ At(w, "decide") /\ job[w].kind \in {"kick", "online", "offline"}
  /\ Goto(w, IF job[w].kind = "kick" THEN "kick" ELSE "bump")
  /\ UNCHANGED <<membership, row, marker, fresh, locks, job, bounds>>
-----------------------------------------------------------------------------
(* leaveRoom and kickPlayer *)

\* The first member by seat whom the preview did not find offline, else the
\* first: a member who joined after the preview counts as online.
WrongHeir(w) == Lowest(Members \ {job[w].user})
Heir(w) ==
  LET rest == Members \ {job[w].user}
      online == rest \ job[w].others
  IN IF online # {} THEN Lowest(online) ELSE Lowest(rest)

DeleteMember(w) ==
  LET u == job[w].user IN
  /\ seat' = [seat EXCEPT ![u] = 0]
  /\ away' = away \ {u}
  /\ UNCHANGED <<status, maxPlayers>>

\* The room may have started since it was read: the guard is in the
\* transaction.
WrongMayRemove(w) == status # "DELETED"
MayRemove(w) == status = "WAITING"

\* The guard's update stays although the row turns out to be another.
RemoveTx(w) ==
  /\ RowFree(w, "remove")
  /\ IF ~ MayRemove(w)
       THEN /\ Goto(w, IF job[w].kind = "expire" THEN "exit" ELSE "bump")
            /\ UNCHANGED <<membership, fresh>>
       ELSE /\ fresh' = TRUE
            /\ IF ~ SameRow(w) THEN Goto(w, "exit") /\ UNCHANGED membership
               ELSE /\ Goto(w, "unmark")
                    /\ \/ /\ job[w].host # job[w].user
                          /\ DeleteMember(w) /\ UNCHANGED hostId
                       \/ /\ job[w].host = job[w].user
                          /\ Members # {job[w].user}
                          /\ DeleteMember(w) /\ hostId' = Heir(w)
                       \/ /\ job[w].host = job[w].user
                          /\ Members = {job[w].user}
                          /\ Delete
  /\ UNCHANGED <<row, marker, locks, job, bounds>>

\* The caller is the host when the kick is asked for; the guard wants the
\* same host, and a host does not kick himself.
KickTx(w) ==
  LET u == job[w].user IN
  /\ RowFree(w, "kick")
  /\ \/ /\ status = "WAITING" /\ u # hostId /\ u \in Members
        /\ DeleteMember(w) /\ UNCHANGED hostId
        /\ fresh' = TRUE /\ Goto(w, "unmark")
     \/ /\ status = "WAITING" /\ u \notin Members
        /\ fresh' = TRUE /\ Goto(w, "exit") /\ UNCHANGED membership
     \/ /\ status # "WAITING" \/ u = hostId
        /\ Goto(w, "exit") /\ UNCHANGED <<membership, fresh>>
  /\ UNCHANGED <<row, marker, locks, job, bounds>>

\* delWithLock; a failure is swallowed.
Unmark(w) ==
  /\ At(w, "unmark")
  /\ marker' = IF lock = w THEN [marker EXCEPT ![job[w].user] = None]
               ELSE marker
  /\ Goto(w, "exit")
  /\ UNCHANGED <<membership, row, fresh, locks, job, bounds>>
-----------------------------------------------------------------------------
(* markPlayerOffline and markPlayerOnline.  "away" changes where a         *)
(* disconnect or a return takes effect for the cleanup: with the bump of   *)
(* the one, with the update of the room at the end of the other.           *)

Bump(w) ==
  LET u == job[w].user
      r == [row[u] EXCEPT !.version = @ + 1]
  IN
  /\ At(w, "bump")
  /\ IF u \notin Members
       THEN Goto(w, "exit") /\ UNCHANGED <<away, row, job>>
       ELSE /\ row' = [row EXCEPT ![u] = r]
            /\ job' = [job EXCEPT ![w].row = r, ![w].host = hostId,
                                  ![w].playing = (status = "PLAYING")]
            /\ IF job[w].kind = "online"
                 THEN Goto(w, "clear") /\ UNCHANGED away
                 ELSE Goto(w, "reread") /\ away' = away \cup {u}
  /\ UNCHANGED <<room, seat, marker, fresh, locks, bounds>>

\* The version the marker will carry is read back after the bump.
Reread(w) ==
  LET u == job[w].user IN
  /\ At(w, "reread")
  /\ IF u \notin Members THEN Goto(w, "exit") /\ UNCHANGED job
     ELSE Goto(w, "mark") /\ job' = [job EXCEPT ![w].row = row[u]]
  /\ UNCHANGED <<membership, row, marker, fresh, locks, bounds>>

\* setWithLock, or LOCK_LOST.
Mark(w) ==
  /\ At(w, "mark")
  /\ IF lock = w
       THEN /\ marker' = [marker EXCEPT ![job[w].user] =
                            [row |-> job[w].row, ripe |-> FALSE]]
            /\ Goto(w, "touch")
       ELSE Goto(w, "exit") /\ UNCHANGED marker
  /\ UNCHANGED <<membership, row, fresh, locks, job, bounds>>

\* getPlayers: an online member to hand the game to, else any other.
WrongSuccessor(w) ==
  LET online == (Members \ {job[w].user}) \ Offline
  IN IF online # {} THEN Lowest(online) ELSE None
Successor(w) ==
  LET rest == Members \ {job[w].user}
      online == rest \ Offline
  IN IF online # {} THEN Lowest(online)
     ELSE IF rest # {} THEN Lowest(rest) ELSE None

\* Update the room; only a host of a room that was playing when it was read
\* has a game to hand on.
Touch(w) ==
  /\ RowFree(w, "touch")
  /\ fresh' = (fresh \/ status # "DELETED")
  /\ IF status # "DELETED" /\ job[w].playing /\ job[w].host = job[w].user
          /\ Successor(w) # None
       THEN /\ job' = [job EXCEPT ![w].host = Successor(w)]
            /\ Goto(w, "transfer")
       ELSE Goto(w, "exit") /\ UNCHANGED job
  /\ UNCHANGED <<membership, row, marker, locks, bounds>>

TransferTx(w) ==
  /\ RowFree(w, "transfer")
  /\ IF status = "PLAYING" /\ hostId = job[w].user /\ job[w].host \in Members
       THEN hostId' = job[w].host /\ fresh' = TRUE
       ELSE UNCHANGED <<hostId, fresh>>
  /\ Goto(w, "exit")
  /\ UNCHANGED <<status, maxPlayers, seat, away, row, marker, locks, job,
                 bounds>>

\* delWithLock, or LOCK_LOST.
Clear(w) ==
  /\ At(w, "clear")
  /\ IF lock = w
       THEN /\ marker' = [marker EXCEPT ![job[w].user] = None]
            /\ Goto(w, "confirm")
       ELSE Goto(w, "exit") /\ UNCHANGED marker
  /\ UNCHANGED <<membership, row, fresh, locks, job, bounds>>

\* The update of the room fails if the room is gone.  The return stands
\* unless a later disconnect has bumped the version again.
Confirm(w) ==
  /\ RowFree(w, "confirm")
  /\ fresh' = (fresh \/ status # "DELETED")
  /\ away' = IF SameRow(w) THEN away \ {job[w].user} ELSE away
  /\ Goto(w, "exit")
  /\ UNCHANGED <<room, seat, row, marker, locks, job, bounds>>
-----------------------------------------------------------------------------
(* joinRoom *)

\* The room is read, then the transaction reads the limit again.
ReadToJoin(w) ==
  LET u == job[w].user IN
  /\ At(w, "join")
  /\ IF status = "WAITING" /\ u \notin Members
       THEN /\ job' = [job EXCEPT ![w].limit = maxPlayers]
            /\ Goto(w, "joinTx")
       ELSE Goto(w, "exit") /\ UNCHANGED job
  /\ UNCHANGED <<membership, row, marker, fresh, locks, bounds>>

WrongLimit(w) == job[w].limit
Limit(w) == maxPlayers

JoinTx(w) ==
  LET u == job[w].user IN
  /\ RowFree(w, "joinTx")
  /\ IF /\ status = "WAITING" /\ u \notin Members
        /\ Cardinality(Members) < Limit(w) /\ FreeSeats(Limit(w)) # {}
       THEN /\ seat' = [seat EXCEPT ![u] = FreeSeat(Limit(w))]
            /\ row' = [row EXCEPT ![u] = [id |-> @.id + 1, version |-> 0]]
       ELSE UNCHANGED <<seat, row>>
  /\ fresh' = (fresh \/ status = "WAITING")
  /\ Goto(w, "exit")
  /\ UNCHANGED <<room, away, marker, locks, job, bounds>>
-----------------------------------------------------------------------------
(* cleanupIdleRooms: lock the row, read everybody's presence, delete.  A   *)
(* room untouched for an hour is the only one it looks at.                 *)

CleanRow(w) ==
  /\ RowFree(w, "cleanRow")
  /\ IF status # "DELETED" /\ ~ fresh
       THEN rowLock' = w /\ Goto(w, "cleanRead")
       ELSE UNCHANGED rowLock /\ Goto(w, "exit")
  /\ UNCHANGED <<membership, row, marker, fresh, lock, job, bounds>>

\* Recent moves in the room's hash, or a busy state lock, stop it as well.
CleanRead(w) ==
  /\ At(w, "cleanRead")
  /\ \/ Members \subseteq Offline /\ Goto(w, "cleanTx") /\ UNCHANGED rowLock
     \/ Goto(w, "exit") /\ rowLock' = Free
  /\ UNCHANGED <<membership, row, marker, fresh, lock, job, bounds>>

\* The markers follow once the deletion is committed; they match no row.
CleanTx(w) ==
  /\ At(w, "cleanTx")
  /\ Delete
  /\ marker' = [u \in Users |-> None]
  /\ rowLock' = Free
  /\ Goto(w, "exit")
  /\ UNCHANGED <<row, fresh, lock, job, bounds>>
-----------------------------------------------------------------------------
(* Operations that are one transaction on the room row and whose earlier   *)
(* reads decide nothing that it does not check again; time; faults.        *)

HostActs ==
  /\ rowLock = Free
  /\ requests < MaxRequests /\ requests' = requests + 1
  /\ Start \/ End \/ UpdateSettings
  /\ fresh' = TRUE
  /\ UNCHANGED <<row, marker, locks, pc, job, faults, leaseLost>>

\* The grace period of a marker, and an hour in which nobody does anything.
Ripen ==
  /\ \E u \in Users :
       /\ marker[u] # None
       /\ marker' = [marker EXCEPT ![u].ripe = TRUE]
  /\ UNCHANGED <<membership, row, fresh, locks, pc, job, bounds>>
Hour ==
  /\ \A w \in Workers : At(w, "idle")
  /\ fresh' = FALSE
  /\ UNCHANGED <<membership, row, marker, locks, pc, job, bounds>>

Fault == faults < MaxFaults /\ faults' = faults + 1

LockExpires ==
  /\ lock # Free
  /\ IF lock = Orphan THEN UNCHANGED <<faults, leaseLost>>
     ELSE Fault /\ leaseLost' = TRUE
  /\ lock' = Free
  /\ UNCHANGED <<membership, row, marker, fresh, rowLock, pc, job, requests>>

Crash(w) ==
  /\ ~ At(w, "idle") /\ Fault
  /\ Goto(w, "idle")
  /\ job' = [job EXCEPT ![w] = Idle]
  /\ lock' = IF lock = w THEN Orphan ELSE lock
  /\ rowLock' = IF rowLock = w THEN Free ELSE rowLock
  /\ UNCHANGED <<membership, row, marker, fresh, requests, leaseLost>>
-----------------------------------------------------------------------------
Step(w) ==
  \/ Enter(w) \/ EnterBusy(w) \/ Exit(w) \/ DecideRemoval(w) \/ DecideOther(w)
  \/ RemoveTx(w) \/ KickTx(w) \/ Unmark(w)
  \/ Bump(w) \/ Reread(w) \/ Mark(w) \/ Touch(w) \/ TransferTx(w)
  \/ Clear(w) \/ Confirm(w)
  \/ ReadToJoin(w) \/ JoinTx(w)
  \/ CleanRow(w) \/ CleanRead(w) \/ CleanTx(w)

PresenceNext ==
  \/ \E w \in Workers :
       Request(w) \/ RequestExpire(w) \/ RequestClean(w) \/ Step(w) \/ Crash(w)
  \/ HostActs \/ Ripen \/ Hour \/ LockExpires

PresenceSpec == PresenceInit /\ [][PresenceNext]_vars
-----------------------------------------------------------------------------
Labels == {"idle", "lock", "decide", "exit", "remove", "kick", "unmark",
           "bump", "reread", "mark", "touch", "transfer", "clear", "confirm",
           "join", "joinTx", "cleanRow", "cleanRead", "cleanTx"}
Row == [id : Nat, version : Nat]
Marker == [row : Row, ripe : BOOLEAN]
ASSUME PresenceMarkerAssumption == None \notin Marker
JobType ==
  [kind : {"none", "join", "leave", "kick", "online", "offline", "expire",
           "clean"},
   user : Users \cup {None}, row : Row, host : Users \cup {None},
   others : SUBSET Users, playing : BOOLEAN, limit : 0 .. MaxSeats]

PresenceTypeOK ==
  /\ TypeOK
  /\ row \in [Users -> Row]
  /\ marker \in [Users -> {None} \cup Marker]
  /\ fresh \in BOOLEAN /\ leaseLost \in BOOLEAN
  /\ lock \in Workers \cup {Free, Orphan} /\ rowLock \in Workers \cup {Free}
  /\ pc \in [Workers -> Labels] /\ job \in [Workers -> JobType]
  /\ requests \in 0 .. MaxRequests /\ faults \in 0 .. MaxFaults

\* As long as no lease of the presence lock has been lost, every step is a
\* step of Membership: in particular whoever deletes the host's row names
\* another host, a running game keeps its players, and nobody who is not away
\* expires.
ImplementsMembership == [][leaseLost \/ Next]_membership

\* A player whose return was confirmed, and who has not gone again, is only
\* removed by a leave of his own or a kick: no expiry or idle cleanup decided
\* on an older marker takes the row.  A lost lease does not change that, but
\* for a player who leaves and joins again between the bump and the re-read
\* of a disconnect: the marker is then written for the new membership.
ReturnKept ==
  [][ \A u \in Members \ away :
        seat'[u] = 0 /\ (leaseLost => row[u].id = 1) =>
          \E w \in Workers :
            /\ pc[w] \in {"remove", "kick"} /\ pc'[w] # pc[w]
            /\ job[w].kind \in {"leave", "kick"} /\ job[w].user = u ]_vars

\* When the host of a waiting room leaves, an online member succeeds if there
\* is one, a player included who joins while the host is on the way out.
NewHostOnline ==
  [][ status = "WAITING" /\ hostId' # hostId /\ ~ leaseLost =>
        hostId' \notin Offline \/ Members \ {hostId} \subseteq Offline ]_vars

\* A host who goes offline in a game that was running when his disconnect was
\* looked at does not keep it if anybody else is there to end it.
HostHandedOver ==
  [][ \A w \in Workers :
        /\ pc[w] \in {"touch", "transfer"} /\ pc'[w] = "exit"
        /\ job[w].playing /\ ~ leaseLost
        => \/ status' # "PLAYING" \/ hostId' # job[w].user
           \/ Members = {job[w].user} ]_vars
=============================================================================
