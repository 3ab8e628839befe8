---------------------------- MODULE RoomLifecycle ----------------------------
(***************************************************************************)
(* Starting and ending the games of one Avalon room (room.service.ts):     *)
(* the room row, its players' roles and the game records in PostgreSQL,    *)
(* the game state in Redis, and the three locks between them, the Redis    *)
(* lifecycle lock, the database row lock and the Redis state lock.         *)
(*                                                                         *)
(* A game record is a generation: the id a start creates, the Redis state  *)
(* carries, and every later step compares.  A worker runs startGame,       *)
(* endGame, the host transfer of markPlayerOffline or the idle cleanup of  *)
(* the room; each database transaction is one step, except the two that    *)
(* keep the row locked while they wait for Redis.                          *)
(*                                                                         *)
(* A definition named Wrong... is a slip the code could have made; it is   *)
(* used by no action and stands beside the definition it would replace.    *)
(***************************************************************************)
EXTENDS Naturals, FiniteSets

CONSTANTS
  Workers,      \* concurrent requests, in any process
  Users,        \* members of the room
  Configs,      \* role configurations the host may choose
  MaxGen,       \* bound on the games started
  MaxFaults,    \* bound on the faults of a run
  TxMayExpire,  \* may the database give up a transaction that waits on Redis
  Free, Orphan, \* lock values that are not a worker
  NoGame,       \* the Redis key does not exist
  None          \* an idle worker's user and configuration

ASSUME BoundsAssumption ==
  MaxGen \in Nat /\ MaxFaults \in Nat /\ TxMayExpire \in BOOLEAN
ASSUME TokenAssumption == Free # Orphan /\ Workers \cap {Free, Orphan} = {}

Gens == 1 .. MaxGen

VARIABLES
  status, hostId, roleConfig, \* the room row
  openRecords,   \* game records whose endedAt is null
  roles,         \* the generation whose roles room_players carries, or 0
  dealt,         \* per generation, the configuration its roles come from
  lastGen,       \* game records created so far
  store,         \* avalon:<code>:state
  lifecycle, rowLock, stateLock,
  pc, job,       \* per worker: position, and what it works on
  abandoned,     \* generations whose starter died or could not roll back
  faults

room    == <<status, hostId, roleConfig>>
db      == <<room, openRecords, roles, dealt, lastGen>>
locks   == <<lifecycle, rowLock, stateLock>>
history == <<abandoned, faults>>
vars    == <<db, store, locks, pc, job, history>>

Idle == [kind |-> "none", user |-> None, cfg |-> None, gen |-> 0,
         snap |-> NoGame]

\* isActiveGameGeneration
WrongActiveGen(g) == status = "PLAYING"
ActiveGen(g) == status = "PLAYING" /\ g \in openRecords
Visible == IF store # NoGame /\ ActiveGen(store.gen) THEN store ELSE NoGame

Init ==
  /\ status = "WAITING" /\ hostId \in Users /\ roleConfig \in Configs
  /\ openRecords = {} /\ roles = 0 /\ lastGen = 0
  /\ dealt = [g \in Gens |-> roleConfig]
  /\ store = NoGame
  /\ lifecycle = Free /\ rowLock = Free /\ stateLock = Free
  /\ pc = [w \in Workers |-> "idle"]
  /\ job = [w \in Workers |-> Idle]
  /\ abandoned = {} /\ faults = 0

At(w, label) == pc[w] = label
Goto(w, label) == pc' = [pc EXCEPT ![w] = label]

Released(lock, w) == IF lock = w THEN Free ELSE lock
-----------------------------------------------------------------------------
(* Taking and leaving the lifecycle lock. *)

Request(w, kind, u) ==
  /\ At(w, "idle")
  /\ job' = [job EXCEPT ![w] = [Idle EXCEPT !.kind = kind, !.user = u]]
  /\ Goto(w, IF kind = "transfer" THEN "transfer" ELSE "queued")
  /\ UNCHANGED <<db, store, locks, history>>

\* The cron job finds the room idle; nobody asks for it.
RequestCleanup(w) ==
  /\ At(w, "idle")
  /\ job' = [job EXCEPT ![w] = [Idle EXCEPT !.kind = "cleanup"]]
  /\ Goto(w, "cleanRow")
  /\ UNCHANGED <<db, store, locks, history>>

Enter(w) ==
  /\ At(w, "queued") /\ lifecycle = Free
  /\ lifecycle' = w
  /\ Goto(w, "check")
  /\ UNCHANGED <<db, store, rowLock, stateLock, job, history>>

\* LOCK_BUSY: the wait for a Redis lock is bounded.
EnterBusy(w) ==
  /\ At(w, "queued") /\ lifecycle # Free
  /\ Goto(w, "idle")
  /\ UNCHANGED <<db, store, locks, job, history>>

Exit(w) ==
  /\ At(w, "exit")
  /\ lifecycle' = Released(lifecycle, w)
  /\ Goto(w, "idle")
  /\ job' = [job EXCEPT ![w] = Idle]
  /\ UNCHANGED <<db, store, rowLock, stateLock, history>>

\* getRoom and the host check, then for an end the status check; a start keeps
\* the room it has read.
Check(w) ==
  /\ At(w, "check")
  /\ job' = IF job[w].kind = "start" /\ hostId = job[w].user
            THEN [job EXCEPT ![w].cfg = roleConfig] ELSE job
  /\ Goto(w, IF hostId # job[w].user THEN "exit"
             ELSE IF job[w].kind = "start" THEN "start"
             ELSE IF status = "PLAYING" THEN "find" ELSE "exit")
  /\ UNCHANGED <<db, store, locks, history>>
-----------------------------------------------------------------------------
(* startGame *)

\* The configuration the roles are dealt from: the room is read again once the
\* flip holds its row.
WrongConfigToDeal(w) == job[w].cfg
ConfigToDeal(w) == roleConfig

\* The start transaction: flip the room, deal roles from the configuration it
\* reads after the flip, close stale records, create this game's record.
StartTx(w) ==
  /\ At(w, "start") /\ rowLock = Free
  /\ IF status = "WAITING" /\ hostId = job[w].user
       THEN /\ lastGen < MaxGen
            /\ status' = "PLAYING"
            /\ lastGen' = lastGen + 1
            /\ dealt' = [dealt EXCEPT ![lastGen'] = ConfigToDeal(w)]
            /\ roles' = lastGen'
            /\ openRecords' = {lastGen'}
            /\ job' = [job EXCEPT ![w].gen = lastGen',
                                  ![w].cfg = ConfigToDeal(w)]
            /\ Goto(w, "init")
            /\ UNCHANGED <<hostId, roleConfig>>
       ELSE Goto(w, "exit") /\ UNCHANGED <<db, job>>
  /\ UNCHANGED <<store, locks, history>>

\* Too few players, or a configuration that does not fit them: the flip is
\* rolled back.
StartRefused(w) ==
  /\ At(w, "start") /\ rowLock = Free
  /\ Goto(w, "exit")
  /\ UNCHANGED <<db, store, locks, job, history>>

\* The state initializeGame writes, from the configuration computed in the
\* start transaction and the host as of now.
WrongFirstState(w) == [gen |-> 0, cfg |-> job[w].cfg, host |-> hostId]
FirstState(w) == [gen |-> job[w].gen, cfg |-> job[w].cfg, host |-> hostId]

\* initializeAvalonGame: lock the row, revalidate status and generation, and
\* keep the row locked until Redis has answered.
InitTx(w) ==
  /\ At(w, "init") /\ rowLock = Free
  /\ IF ActiveGen(job[w].gen)
       THEN /\ rowLock' = w
            /\ job' = [job EXCEPT ![w].snap = FirstState(w)]
            /\ Goto(w, "initLock")
       ELSE Goto(w, "rollback") /\ UNCHANGED <<rowLock, job>>
  /\ UNCHANGED <<db, store, lifecycle, stateLock, history>>

InitLock(w) ==
  /\ At(w, "initLock") /\ stateLock = Free
  /\ stateLock' = w
  /\ Goto(w, "initWrite")
  /\ UNCHANGED <<db, store, lifecycle, rowLock, job, history>>

WrongInitBusy(w) ==
  /\ At(w, "initLock") /\ stateLock # Free
  /\ Goto(w, "rollback")
  /\ UNCHANGED <<db, store, locks, job, history>>
InitBusy(w) ==
  /\ At(w, "initLock") /\ stateLock # Free
  /\ Goto(w, "initFailed")
  /\ UNCHANGED <<db, store, locks, job, history>>

InitWrite(w) ==
  /\ At(w, "initWrite")
  /\ store' = IF stateLock = w THEN job[w].snap ELSE store
  /\ Goto(w, IF stateLock = w THEN "initDone" ELSE "initFailed")
  /\ UNCHANGED <<db, locks, job, history>>

\* The state lock is released, the transaction commits; it fails if the
\* database has given it up.
InitCommit(w) ==
  /\ At(w, "initDone")
  /\ stateLock' = Released(stateLock, w)
  /\ rowLock' = Released(rowLock, w)
  /\ Goto(w, IF rowLock = w THEN "exit" ELSE "rollback")
  /\ UNCHANGED <<db, store, lifecycle, job, history>>

InitAbort(w) ==
  /\ At(w, "initFailed")
  /\ stateLock' = Released(stateLock, w)
  /\ rowLock' = Released(rowLock, w)
  /\ Goto(w, "rollback")
  /\ UNCHANGED <<db, store, lifecycle, job, history>>

\* Roll back only what is still playing.
Rollback(w) ==
  /\ At(w, "rollback")
  /\ Goto(w, IF status = "PLAYING" THEN "reset" ELSE "exit")
  /\ UNCHANGED <<db, store, locks, job, history>>
-----------------------------------------------------------------------------
(* endGame, and the reset it shares with a start's rollback. *)

FindRecord(w) ==
  /\ At(w, "find")
  /\ IF openRecords = {} THEN Goto(w, "exit") /\ UNCHANGED job
     ELSE \E g \in openRecords :
            /\ \A other \in openRecords : other <= g
            /\ job' = [job EXCEPT ![w].gen = g]
            /\ Goto(w, "reset")
  /\ UNCHANGED <<db, store, locks, history>>

\* The where clauses of resetRoomDatabase; an end also names its host.
WrongResetApplies(w) ==
  status = "PLAYING" /\ (job[w].kind = "end" => hostId = job[w].user)
ResetApplies(w) ==
  /\ status = "PLAYING"
  /\ job[w].kind = "end" => hostId = job[w].user
  /\ job[w].gen \in openRecords

CloseGame(w) ==
  /\ status' = "WAITING"
  /\ openRecords' = openRecords \ {job[w].gen}
  /\ roles' = 0
  /\ UNCHANGED <<hostId, roleConfig, dealt, lastGen>>

\* A rollback whose reset did not apply tries once more.
ResetTx(w) ==
  /\ At(w, "reset") /\ rowLock = Free
  /\ IF ResetApplies(w)
       THEN CloseGame(w) /\ Goto(w, "delLock")
       ELSE /\ UNCHANGED db
            /\ Goto(w, IF job[w].kind = "start" THEN "force" ELSE "exit")
  /\ UNCHANGED <<store, locks, job, history>>

ForceTx(w) ==
  /\ At(w, "force") /\ rowLock = Free
  /\ IF ResetApplies(w) THEN CloseGame(w) ELSE UNCHANGED db
  /\ Goto(w, "exit")
  /\ UNCHANGED <<store, locks, job, history>>

DelLock(w) ==
  /\ At(w, "delLock") /\ stateLock = Free
  /\ stateLock' = w
  /\ Goto(w, "delete")
  /\ UNCHANGED <<db, store, lifecycle, rowLock, job, history>>

\* The reset is committed, so a cleanup that cannot have the lock is dropped.
DelBusy(w) ==
  /\ At(w, "delLock") /\ stateLock # Free
  /\ Goto(w, "exit")
  /\ UNCHANGED <<db, store, locks, job, history>>

WrongDelete(w) ==
  /\ At(w, "delete")
  /\ store' = IF stateLock = w THEN NoGame ELSE store
  /\ Goto(w, "delUnlock")
  /\ UNCHANGED <<db, locks, job, history>>
\* delJsonFieldWithLock: still the owner, and the key holds this generation.
Delete(w) ==
  /\ At(w, "delete")
  /\ store' = IF stateLock = w /\ store # NoGame /\ store.gen = job[w].gen
              THEN NoGame ELSE store
  /\ Goto(w, "delUnlock")
  /\ UNCHANGED <<db, locks, job, history>>

DelUnlock(w) ==
  /\ At(w, "delUnlock")
  /\ stateLock' = Released(stateLock, w)
  /\ Goto(w, "exit")
  /\ UNCHANGED <<db, store, lifecycle, rowLock, job, history>>
-----------------------------------------------------------------------------
(* The host transfer of a running game, and the state write that follows.  *)

TransferTx(w) ==
  /\ At(w, "transfer") /\ rowLock = Free
  /\ IF status = "PLAYING" /\ hostId = job[w].user /\ Users # {hostId}
       THEN /\ hostId' \in Users \ {hostId}
            /\ job' = [job EXCEPT ![w].user = hostId']
            /\ Goto(w, "hostLock")
            /\ UNCHANGED <<status, roleConfig, openRecords, roles, dealt,
                           lastGen>>
       ELSE Goto(w, "idle") /\ UNCHANGED <<db, job>>
  /\ UNCHANGED <<store, locks, history>>

HostLock(w) ==
  /\ At(w, "hostLock") /\ stateLock = Free
  /\ stateLock' = w
  /\ Goto(w, "hostRead")
  /\ UNCHANGED <<db, store, lifecycle, rowLock, job, history>>

HostBusy(w) ==
  /\ At(w, "hostLock") /\ stateLock # Free
  /\ Goto(w, "idle")
  /\ UNCHANGED <<db, store, locks, job, history>>

HostRead(w) ==
  /\ At(w, "hostRead")
  /\ job' = [job EXCEPT ![w].snap = Visible]
  /\ Goto(w, IF Visible = NoGame THEN "hostUnlock" ELSE "hostWrite")
  /\ UNCHANGED <<db, store, locks, history>>

HostWrite(w) ==
  /\ At(w, "hostWrite")
  /\ store' = IF stateLock = w THEN [job[w].snap EXCEPT !.host = job[w].user]
              ELSE store
  /\ Goto(w, "hostUnlock")
  /\ UNCHANGED <<db, locks, job, history>>

HostUnlock(w) ==
  /\ At(w, "hostUnlock")
  /\ stateLock' = Released(stateLock, w)
  /\ Goto(w, "idle")
  /\ job' = [job EXCEPT ![w] = Idle]
  /\ UNCHANGED <<db, store, lifecycle, rowLock, history>>
-----------------------------------------------------------------------------
(* cleanupIdleRooms: the row lock, then the state lock, as in              *)
(* initializeAvalonGame.  Whether the room is idle is a matter of time and *)
(* presence (RoomPresence); here it may be found so at any moment.         *)

CleanupRow(w) ==
  /\ At(w, "cleanRow") /\ rowLock = Free
  /\ \/ status # "DELETED" /\ rowLock' = w /\ Goto(w, "cleanLock")
     \/ Goto(w, "exit") /\ UNCHANGED rowLock
  /\ UNCHANGED <<db, store, lifecycle, stateLock, job, history>>

CleanupLock(w) ==
  /\ At(w, "cleanLock") /\ stateLock = Free
  /\ stateLock' = w
  /\ Goto(w, "cleanDecide")
  /\ UNCHANGED <<db, store, lifecycle, rowLock, job, history>>

CleanupBusy(w) ==
  /\ At(w, "cleanLock") /\ stateLock # Free
  /\ rowLock' = Released(rowLock, w)
  /\ Goto(w, "exit")
  /\ UNCHANGED <<db, store, lifecycle, stateLock, job, history>>

\* Note the generation in Redis and delete the room in the transaction; the
\* state lock is released before the transaction commits.
CleanupDecide(w) ==
  /\ At(w, "cleanDecide")
  /\ stateLock' = Released(stateLock, w)
  /\ \/ /\ rowLock' = Released(rowLock, w)
        /\ Goto(w, "exit")
        /\ UNCHANGED job
     \/ /\ job' = [job EXCEPT ![w].gen = IF store = NoGame THEN 0
                                         ELSE store.gen]
        /\ Goto(w, "cleanCommit")
        /\ UNCHANGED rowLock
  /\ UNCHANGED <<db, store, lifecycle, history>>

\* The room's players and game records go with it; the state follows.
CleanupCommit(w) ==
  /\ At(w, "cleanCommit")
  /\ IF rowLock = w
       THEN /\ status' = "DELETED" /\ openRecords' = {} /\ roles' = 0
            /\ Goto(w, IF job[w].gen = 0 THEN "exit" ELSE "delLock")
            /\ UNCHANGED <<hostId, roleConfig, dealt, lastGen>>
       ELSE Goto(w, "exit") /\ UNCHANGED db
  /\ rowLock' = Released(rowLock, w)
  /\ UNCHANGED <<store, lifecycle, stateLock, job, history>>
-----------------------------------------------------------------------------
(* A waiting room: settings and host change under the row lock. *)

UpdateSettings ==
  /\ status = "WAITING" /\ rowLock = Free
  /\ roleConfig' \in Configs
  /\ UNCHANGED <<status, hostId, openRecords, roles, dealt, lastGen, store,
                 locks, pc, job, history>>

HostLeaves ==
  /\ status = "WAITING" /\ rowLock = Free
  /\ hostId' \in Users \ {hostId}
  /\ UNCHANGED <<status, roleConfig, openRecords, roles, dealt, lastGen, store,
                 locks, pc, job, history>>
-----------------------------------------------------------------------------
(* Faults. *)

Fault == faults < MaxFaults /\ faults' = faults + 1

LifecycleExpires ==
  /\ lifecycle # Free
  /\ IF lifecycle = Orphan THEN UNCHANGED faults ELSE Fault
  /\ lifecycle' = Free
  /\ UNCHANGED <<db, store, rowLock, stateLock, pc, job, abandoned>>

StateLockExpires ==
  /\ stateLock # Free
  /\ IF stateLock = Orphan THEN UNCHANGED faults ELSE Fault
  /\ stateLock' = Free
  /\ UNCHANGED <<db, store, lifecycle, rowLock, pc, job, abandoned>>

\* The interactive transaction runs into its timeout, or its connection dies:
\* the row is unlocked while the callback still waits for Redis.
TxExpires ==
  /\ TxMayExpire /\ rowLock # Free /\ Fault
  /\ rowLock' = Free
  /\ UNCHANGED <<db, store, lifecycle, stateLock, pc, job, abandoned>>

Starting == {"init", "initLock", "initWrite", "initDone", "initFailed",
             "rollback", "reset", "force"}

\* Both the reset and the forced reset of a rollback fail in the database.
ForceFails(w) ==
  /\ At(w, "force") /\ Fault
  /\ abandoned' = abandoned \cup {job[w].gen}
  /\ Goto(w, "exit")
  /\ UNCHANGED <<db, store, locks, job>>

ResetFails(w) ==
  /\ At(w, "reset") /\ Fault
  /\ Goto(w, IF job[w].kind = "start" THEN "force" ELSE "exit")
  /\ UNCHANGED <<db, store, locks, job, abandoned>>

\* Redis performs the write of the first state, the reply is lost.
InitUnacked(w) ==
  /\ At(w, "initWrite") /\ stateLock = w /\ Fault
  /\ store' = job[w].snap
  /\ Goto(w, "initFailed")
  /\ UNCHANGED <<db, locks, job, abandoned>>

Crash(w) ==
  /\ ~ At(w, "idle") /\ Fault
  /\ Goto(w, "idle")
  /\ job' = [job EXCEPT ![w] = Idle]
  /\ lifecycle' = IF lifecycle = w THEN Orphan ELSE lifecycle
  /\ stateLock' = IF stateLock = w THEN Orphan ELSE stateLock
  /\ rowLock' = Released(rowLock, w)
  /\ abandoned' = IF job[w].kind = "start" /\ pc[w] \in Starting
                  THEN abandoned \cup {job[w].gen} ELSE abandoned
  /\ UNCHANGED <<db, store>>
-----------------------------------------------------------------------------
Start(w) ==
  \/ StartTx(w) \/ StartRefused(w) \/ InitTx(w) \/ InitLock(w) \/ InitBusy(w)
  \/ InitWrite(w) \/ InitCommit(w) \/ InitAbort(w) \/ Rollback(w)
Reset(w) ==
  \/ FindRecord(w) \/ ResetTx(w) \/ ForceTx(w)
  \/ DelLock(w) \/ DelBusy(w) \/ Delete(w) \/ DelUnlock(w)
Transfer(w) ==
  \/ TransferTx(w) \/ HostLock(w) \/ HostBusy(w) \/ HostRead(w) \/ HostWrite(w)
  \/ HostUnlock(w)

Cleanup(w) ==
  \/ CleanupRow(w) \/ CleanupLock(w) \/ CleanupBusy(w) \/ CleanupDecide(w)
  \/ CleanupCommit(w)

Step(w) ==
  \/ Enter(w) \/ EnterBusy(w) \/ Check(w) \/ Exit(w)
  \/ Start(w) \/ Reset(w) \/ Transfer(w) \/ Cleanup(w)

Failure ==
  \/ LifecycleExpires \/ StateLockExpires \/ TxExpires
  \/ \E w \in Workers :
       ForceFails(w) \/ ResetFails(w) \/ InitUnacked(w) \/ Crash(w)

Next ==
  \/ \E w \in Workers :
       \/ \E kind \in {"start", "end", "transfer"}, u \in Users :
            Request(w, kind, u)
       \/ RequestCleanup(w)
       \/ Step(w)
  \/ UpdateSettings \/ HostLeaves
  \/ Failure

Spec == Init /\ [][Next]_vars

\* Workers keep running, and PostgreSQL hands a row lock to those who wait for
\* it in their order; nothing is assumed about players or about faults.
TakeRow(w) ==
  \/ StartTx(w) \/ StartRefused(w) \/ InitTx(w) \/ ResetTx(w) \/ ForceTx(w)
  \/ TransferTx(w) \/ CleanupRow(w)

FairSpec ==
  Spec /\ \A w \in Workers : WF_vars(Step(w)) /\ SF_vars(TakeRow(w))
-----------------------------------------------------------------------------
GameType == [gen : Gens, cfg : Configs, host : Users]
ASSUME NoGameAssumption == NoGame \notin GameType

Labels == {"idle", "queued", "check", "exit", "start", "find", "delLock",
           "delete", "delUnlock", "transfer", "hostLock", "hostRead",
           "hostWrite", "hostUnlock", "cleanRow", "cleanLock", "cleanDecide",
           "cleanCommit"} \cup Starting

JobType ==
  [kind : {"none", "start", "end", "transfer", "cleanup"},
   user : Users \cup {None}, cfg : Configs \cup {None}, gen : 0 .. MaxGen,
   snap : GameType \cup {NoGame}]

DbTyped ==
  /\ status \in {"WAITING", "PLAYING", "DELETED"} /\ hostId \in Users
  /\ roleConfig \in Configs
  /\ openRecords \in SUBSET Gens /\ roles \in 0 .. MaxGen
  /\ dealt \in [Gens -> Configs] /\ lastGen \in 0 .. MaxGen

TypeOK ==
  /\ DbTyped
  /\ store \in GameType \cup {NoGame}
  /\ {lifecycle, rowLock, stateLock} \subseteq Workers \cup {Free, Orphan}
  /\ pc \in [Workers -> Labels]
  /\ job \in [Workers -> JobType]
  /\ abandoned \in SUBSET Gens /\ faults \in 0 .. MaxFaults

\* The three places the database keeps a game in agree in every committed
\* state, whoever lost a lock on the way: a playing room has exactly one open
\* record and its players hold that record's roles, a waiting or deleted room
\* has no open record and no roles ("status, roles, and the open record never
\* diverge").
DbConsistent ==
  /\ status = "PLAYING" => openRecords = {lastGen} /\ roles = lastGen
  /\ status # "PLAYING" => openRecords = {} /\ roles = 0

\* A game the database calls active has its state in Redis once its start is
\* over: a failed start rolls back, no late writer, deleter or starter of
\* another generation replaces or removes the state.
ActiveGameReadable ==
  \A g \in openRecords \ abandoned :
    \/ store # NoGame /\ store.gen = g
    \/ \E w \in Workers : job[w].kind = "start" /\ job[w].gen = g

\* The game everybody plays has the settings its room shows and the roles of
\* that generation were dealt from: settings are frozen once the room plays,
\* and none the host saved while the start was on its way is missed.
DealMatches ==
  Visible # NoGame =>
    Visible.cfg = roleConfig /\ dealt[Visible.gen] = roleConfig

\* A starter writes the state of its own game only while that game is the
\* active one (the generation is revalidated under the row lock, which is
\* kept until the write).
FencedInit ==
  [][ \A g \in Gens :
        (/\ store' # NoGame /\ store'.gen = g
         /\ store = NoGame \/ store.gen # g)
        => status = "PLAYING" /\ g \in openRecords ]_vars

\* Every start, end, transfer and cleanup returns: the lifecycle lock, the row
\* lock and the state lock are never waited for in a circle.
OperationsEnd == \A w \in Workers : ~ At(w, "idle") ~> At(w, "idle")
=============================================================================
