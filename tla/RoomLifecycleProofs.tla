------------------------- MODULE RoomLifecycleProofs -------------------------
(***************************************************************************)
(* The safety of RoomLifecycle, for any workers, users, configurations and *)
(* bounds.                                                                 *)
(*                                                                         *)
(* DealInv says what every carried value means: the generation a worker    *)
(* works on is one that was created, the configuration it deals with is    *)
(* the one that generation's roles came from, and what lies in Redis or in *)
(* a worker's copy agrees with the record of its generation.  It needs no  *)
(* lock at all, so it survives every lock that is lost.                    *)
(*                                                                         *)
(* FenceInv is what the locks are for: the row lock keeps the generation a *)
(* starter has revalidated open until its state is written, and the state  *)
(* lock keeps what a host transfer has read.  It holds as long as the      *)
(* database does not time a waiting transaction out.                       *)
(*                                                                         *)
(* Each obligation is a step of one worker or a step Aside; the lemmas     *)
(* that open every action (DbSteps, StoreSteps, LockSteps, Footprints,     *)
(* Arrivals, StartSteps) say once what a worker's step may change.         *)
(***************************************************************************)
EXTENDS RoomLifecycle, TLAPS

\* What a worker carries along belongs to the place where it stands.
JobOK(w) ==
  LET j == job[w] IN
    /\ pc[w] \in {"start"} \cup (Starting \ {"reset"}) => j.kind = "start"
    /\ pc[w] = "find" => j.kind # "start"
    /\ pc[w] \in Starting => j.gen \in 1 .. lastGen
    /\ pc[w] \in Starting /\ j.kind = "start" => j.cfg = dealt[j.gen]
    /\ pc[w] \in {"initLock", "initWrite"} =>
         j.snap \in GameType /\ j.snap.gen = j.gen /\ j.snap.cfg = j.cfg
    /\ pc[w] \in {"hostLock", "hostRead", "hostWrite"} => j.user \in Users
    /\ pc[w] = "hostWrite" =>
         /\ j.snap \in GameType /\ j.snap.gen <= lastGen
         /\ j.snap.cfg = dealt[j.snap.gen]
    /\ pc[w] \in {"delLock", "delete", "delUnlock"} =>
         j.gen \in (1 .. lastGen) \ openRecords
    /\ pc[w] = "cleanCommit" => j.gen <= lastGen
JobsOK == \A w \in Workers : JobOK(w)

\* The state in Redis is that of a game that was started, with the settings
\* its roles were dealt from.
StoreOK ==
  store # NoGame => store.gen <= lastGen /\ store.cfg = dealt[store.gen]
\* The settings the room shows are those of the game it plays.
SettingsFrozen == status = "PLAYING" => dealt[lastGen] = roleConfig

DealInv == TypeOK /\ DbConsistent /\ JobsOK /\ StoreOK /\ SettingsFrozen

\* A starter keeps the row locked from its revalidation to Redis' answer.
RowHeld ==
  \A w \in Workers :
    pc[w] \in {"initLock", "initWrite", "initDone", "initFailed"} => rowLock = w
\* Meanwhile its game stays open.
InitFenced ==
  \A w \in Workers :
    pc[w] \in {"initLock", "initWrite", "initDone"} =>
      job[w].gen \in openRecords
\* A starter that is about to commit has its state in Redis.
Written ==
  \A w \in Workers :
    pc[w] = "initDone" => store # NoGame /\ store.gen = job[w].gen
\* A host transfer that still owns the state lock replaces what it has read.
HostSnapshot ==
  \A w \in Workers :
    pc[w] = "hostWrite" /\ stateLock = w => store = job[w].snap
\* ActiveGameReadable, and the start it waits for is at a place from which it
\* either writes the state or closes the game.
Readable ==
  \A g \in openRecords \ abandoned :
    \/ store # NoGame /\ store.gen = g
    \/ \E w \in Workers :
         job[w].kind = "start" /\ job[w].gen = g /\ pc[w] \in Starting

FenceInv == RowHeld /\ InitFenced /\ Written /\ HostSnapshot /\ Readable
-----------------------------------------------------------------------------
(* The steps, and what they may change. *)

WorkerStep(w) ==
  \/ \E kind \in {"start", "end", "transfer"}, u \in Users : Request(w, kind, u)
  \/ RequestCleanup(w) \/ Step(w)
  \/ ForceFails(w) \/ ResetFails(w) \/ InitUnacked(w) \/ Crash(w)
Aside ==
  \/ UpdateSettings \/ HostLeaves
  \/ LifecycleExpires \/ StateLockExpires \/ TxExpires
  \/ UNCHANGED vars

\* Every step is one worker's or nobody's.
LEMMA Steps == [Next]_vars => Aside \/ \E w \in Workers : WorkerStep(w)
  BY DEF Next, Failure, Aside, WorkerStep

\* The job of an idle worker is a job.
LEMMA IdleTyped == Idle \in JobType
  BY BoundsAssumption DEF Idle, JobType

\* The database keeps its types, for every worker's step.
LEMMA DbTypedNext ==
  ASSUME DealInv, NEW w \in Workers, WorkerStep(w) PROVE DbTyped'
<1> USE DEF DealInv, TypeOK
<1>1. CASE StartTx(w)
  <2>1. CASE status = "WAITING" /\ hostId = job[w].user
    <3>1. lastGen + 1 \in Gens /\ lastGen' = lastGen + 1
      BY <1>1, <2>1, BoundsAssumption DEF StartTx, DbTyped, Gens
    <3> QED
      BY <1>1, <2>1, <3>1 DEF StartTx, DbTyped, ConfigToDeal, Gens
  <2>2. CASE ~ (status = "WAITING" /\ hostId = job[w].user)
    BY <1>1, <2>2 DEF StartTx, DbTyped, db, room
  <2> QED
    BY <2>1, <2>2
<1>2. CASE ResetTx(w) \/ ForceTx(w)
  BY <1>2, BoundsAssumption
     DEF ResetTx, ForceTx, CloseGame, DbTyped, db, room
<1>3. CASE TransferTx(w)
  BY <1>3 DEF TransferTx, DbTyped, db, room
<1>4. CASE CleanupCommit(w)
  BY <1>4, BoundsAssumption DEF CleanupCommit, DbTyped, db, room
<1>5. CASE UNCHANGED db
  BY <1>5 DEF DbTyped, db, room
<1>6. CASE ~ UNCHANGED db
  BY <1>1, <1>2, <1>3, <1>4, <1>6
     DEF WorkerStep, Request, RequestCleanup, Step, Enter, EnterBusy, Exit,
         Check, Start, StartRefused, InitTx, InitLock, InitBusy, InitWrite,
         InitCommit, InitAbort, Rollback, Reset, FindRecord, DelLock, DelBusy,
         Delete, DelUnlock, Transfer, HostLock, HostBusy, HostRead, HostWrite,
         HostUnlock, Cleanup, CleanupRow, CleanupLock, CleanupBusy,
         CleanupDecide, ForceFails, ResetFails, InitUnacked, Crash
<1> QED
  BY <1>5, <1>6

\* The jobs keep theirs: each step that changes a job changes the worker's own,
\* and puts a typed value in one of its fields.
LEMMA JobTypedNext ==
  ASSUME DealInv, NEW w \in Workers, WorkerStep(w)
  PROVE  job' \in [Workers -> JobType]
<1> USE DEF DealInv, TypeOK
<1> SUFFICES ASSUME job' # job PROVE job' \in [Workers -> JobType]
  OBVIOUS
<1>1. job[w] \in JobType
  OBVIOUS
<1>2. \E r \in JobType : job' = [job EXCEPT ![w] = r]
  <2>1. ASSUME NEW kind \in {"start", "end", "transfer"}, NEW u \in Users,
               Request(w, kind, u)
        PROVE  \E r \in JobType : job' = [job EXCEPT ![w] = r]
    <3>1. [Idle EXCEPT !.kind = kind, !.user = u] \in JobType
      BY IdleTyped DEF JobType
    <3> QED
      BY <2>1, <3>1 DEF Request
  <2>2. CASE RequestCleanup(w)
    <3>1. [Idle EXCEPT !.kind = "cleanup"] \in JobType
      BY IdleTyped DEF JobType
    <3> QED
      BY <2>2, <3>1 DEF RequestCleanup
  <2>3. CASE Exit(w) \/ HostUnlock(w) \/ Crash(w)
    BY <2>3, IdleTyped DEF Exit, HostUnlock, Crash
  <2>4. CASE Check(w)
    <3>1. [job[w] EXCEPT !.cfg = roleConfig] \in JobType
      BY <1>1 DEF JobType, DbTyped
    <3> QED
      BY <2>4, <3>1 DEF Check
  <2>5. CASE StartTx(w)
    <3>1. lastGen + 1 \in 0 .. MaxGen /\ lastGen' = lastGen + 1
      BY <2>5, BoundsAssumption DEF StartTx, DbTyped
    <3>2. [job[w] EXCEPT !.gen = lastGen', !.cfg = roleConfig] \in JobType
      BY <1>1, <3>1 DEF JobType, DbTyped
    <3> QED
      BY <2>5, <3>2 DEF StartTx, ConfigToDeal
  <2>6. CASE InitTx(w)
    <3>1. /\ pc[w] \in Starting /\ job[w].kind = "start"
          /\ job[w].gen \in Gens /\ job[w].cfg \in Configs
      BY <2>6, BoundsAssumption
         DEF InitTx, At, Starting, JobsOK, JobOK, DbTyped, Gens
    <3>2. FirstState(w) \in GameType
      BY <3>1 DEF FirstState, GameType, DbTyped
    <3>3. [job[w] EXCEPT !.snap = FirstState(w)] \in JobType
      BY <1>1, <3>2 DEF JobType
    <3> QED
      BY <2>6, <3>3 DEF InitTx
  <2>7. CASE FindRecord(w)
    <3>1. PICK g \in Gens : job' = [job EXCEPT ![w].gen = g]
      BY <2>7 DEF FindRecord, DbTyped
    <3>2. [job[w] EXCEPT !.gen = g] \in JobType
      BY <1>1, BoundsAssumption DEF JobType, Gens
    <3> QED
      BY <3>1, <3>2
  <2>8. CASE TransferTx(w)
    <3>1. [job[w] EXCEPT !.user = hostId'] \in JobType
      BY <1>1, <2>8, DbTypedNext
         DEF JobType, DbTyped, WorkerStep, Step, Transfer
    <3> QED
      BY <2>8, <3>1 DEF TransferTx
  <2>9. CASE HostRead(w)
    <3>1. [job[w] EXCEPT !.snap = Visible] \in JobType
      BY <1>1 DEF JobType, Visible
    <3> QED
      BY <2>9, <3>1 DEF HostRead
  <2>10. CASE CleanupDecide(w)
    <3>1. PICK g : /\ job' = [job EXCEPT ![w].gen = g]
                   /\ g = IF store = NoGame THEN 0 ELSE store.gen
      BY <2>10 DEF CleanupDecide
    <3>2. g \in 0 .. MaxGen
      BY <3>1, BoundsAssumption DEF GameType, Gens
    <3>3. [job[w] EXCEPT !.gen = g] \in JobType
      BY <1>1, <3>2 DEF JobType
    <3> QED
      BY <3>1, <3>3
  <2> QED
    BY <2>1, <2>2, <2>3, <2>4, <2>5, <2>6, <2>7, <2>8, <2>9, <2>10
       DEF WorkerStep, Step, Enter, EnterBusy, Start, StartRefused, InitLock,
           InitBusy, InitWrite, InitCommit, InitAbort, Rollback, Reset, ResetTx,
           ForceTx, DelLock, DelBusy, Delete, DelUnlock, Transfer, HostLock,
           HostBusy, HostWrite, Cleanup, CleanupRow, CleanupLock, CleanupBusy,
           CleanupCommit, ForceFails, ResetFails, InitUnacked
<1> QED
  BY <1>2

\* The three ways a worker changes the state in Redis.
FirstWrite(w) ==
  /\ pc[w] = "initWrite" /\ stateLock = w
  /\ store' = job[w].snap
  /\ pc' \in {[pc EXCEPT ![w] = "initDone"], [pc EXCEPT ![w] = "initFailed"]}
HostWritten(w) ==
  /\ pc[w] = "hostWrite" /\ stateLock = w
  /\ store' = [job[w].snap EXCEPT !.host = job[w].user]
  /\ pc' = [pc EXCEPT ![w] = "hostUnlock"]
Deleted(w) ==
  /\ pc[w] = "delete" /\ stateLock = w
  /\ store # NoGame /\ store.gen = job[w].gen
  /\ store' = NoGame
  /\ pc' = [pc EXCEPT ![w] = "delUnlock"]

\* The state in Redis changes in one of these ways, under the state lock, and
\* no such step changes anything else the invariants speak of.
LEMMA StoreSteps ==
  ASSUME NEW w \in Workers, WorkerStep(w)
  PROVE  \/ UNCHANGED store
         \/ /\ FirstWrite(w) \/ HostWritten(w) \/ Deleted(w)
            /\ UNCHANGED <<db, locks, job, abandoned>>
<1>1. CASE InitWrite(w) \/ InitUnacked(w)
  BY <1>1 DEF InitWrite, InitUnacked, FirstWrite, history, At, Goto
<1>2. CASE HostWrite(w)
  BY <1>2 DEF HostWrite, HostWritten, history, At, Goto
<1>3. CASE Delete(w)
  BY <1>3 DEF Delete, Deleted, history, At, Goto
<1>4. CASE ~ (InitWrite(w) \/ InitUnacked(w) \/ HostWrite(w) \/ Delete(w))
  BY <1>4
     DEF WorkerStep, Request, RequestCleanup, Step, Enter, EnterBusy, Exit,
         Check, Start, StartTx, StartRefused, InitTx, InitLock, InitBusy,
         InitCommit, InitAbort, Rollback, Reset, FindRecord, ResetTx, ForceTx,
         DelLock, DelBusy, DelUnlock, Transfer, TransferTx, HostLock, HostBusy,
         HostRead, HostUnlock, Cleanup, CleanupRow, CleanupLock, CleanupBusy,
         CleanupDecide, CleanupCommit, ForceFails, ResetFails, Crash
<1> QED
  BY <1>1, <1>2, <1>3, <1>4

\* The ways a worker changes the database.
NewGame(w) ==
  /\ StartTx(w) /\ status = "WAITING" /\ status' = "PLAYING"
  /\ lastGen < MaxGen /\ lastGen' = lastGen + 1
  /\ roles' = lastGen' /\ openRecords' = {lastGen'}
  /\ dealt' = [dealt EXCEPT ![lastGen'] = roleConfig]
  /\ UNCHANGED <<hostId, roleConfig>>
GameClosed(w) ==
  /\ rowLock = Free /\ status = "PLAYING" /\ job[w].gen \in openRecords
  /\ CloseGame(w)
RoomDeleted ==
  /\ status' = "DELETED" /\ openRecords' = {} /\ roles' = 0
  /\ UNCHANGED <<roleConfig, dealt, lastGen>>
HostChange ==
  UNCHANGED <<status, roleConfig, openRecords, roles, dealt, lastGen>>

\* The database changes in one of these ways, and an open record is closed only
\* with the row lock free or the worker's own.
LEMMA DbSteps ==
  ASSUME NEW w \in Workers, WorkerStep(w)
  PROVE  \/ UNCHANGED db
         \/ NewGame(w) \/ GameClosed(w)
         \/ RoomDeleted /\ rowLock = w
         \/ HostChange
<1>1. CASE StartTx(w)
  BY <1>1 DEF StartTx, NewGame, ConfigToDeal, At
<1>2. CASE ResetTx(w) \/ ForceTx(w)
  BY <1>2 DEF ResetTx, ForceTx, ResetApplies, GameClosed
<1>3. CASE TransferTx(w)
  BY <1>3 DEF TransferTx, HostChange
<1>4. CASE CleanupCommit(w)
  BY <1>4 DEF CleanupCommit, RoomDeleted
<1>5. CASE ~ (StartTx(w) \/ ResetTx(w) \/ ForceTx(w) \/ TransferTx(w)
              \/ CleanupCommit(w))
  BY <1>5
     DEF WorkerStep, Request, RequestCleanup, Step, Enter, EnterBusy, Exit,
         Check, Start, StartRefused, InitTx, InitLock, InitBusy, InitWrite,
         InitCommit, InitAbort, Rollback, Reset, FindRecord, DelLock, DelBusy,
         Delete, DelUnlock, Transfer, HostLock, HostBusy, HostRead, HostWrite,
         HostUnlock, Cleanup, CleanupRow, CleanupLock, CleanupBusy,
         CleanupDecide, ForceFails, ResetFails, InitUnacked, Crash
<1> QED
  BY <1>1, <1>2, <1>3, <1>4, <1>5

\* What a step of a worker may touch: its own place and job, the locks, and
\* the fault counters.
Footprint(w) ==
  /\ \E l \in Labels : pc' = [pc EXCEPT ![w] = l]
  /\ job' = job \/ \E r : job' = [job EXCEPT ![w] = r]
  /\ lifecycle' \in {lifecycle, w, Free, Orphan}
  /\ rowLock' \in {rowLock, w, Free}
  /\ stateLock' \in {stateLock, w, Free, Orphan}
  /\ \/ abandoned' = abandoned
     \/ pc[w] \in Starting /\ abandoned' = abandoned \cup {job[w].gen}
  /\ faults' = faults \/ Fault

\* Every step of a worker stays within its footprint.
LEMMA Footprints ==
  ASSUME NEW w \in Workers, WorkerStep(w) PROVE Footprint(w)
  BY DEF Footprint, Labels, Starting, At, Goto, Released, locks, history,
         WorkerStep, Request, RequestCleanup, Step, Enter, EnterBusy, Exit,
         Check, Start, StartTx, StartRefused, InitTx, InitLock, InitBusy,
         InitWrite, InitCommit, InitAbort, Rollback, Reset, FindRecord, ResetTx,
         ForceTx, DelLock, DelBusy, Delete, DelUnlock, Transfer, TransferTx,
         HostLock, HostBusy, HostRead, HostWrite, HostUnlock, Cleanup,
         CleanupRow, CleanupLock, CleanupBusy, CleanupDecide, CleanupCommit,
         ForceFails, ResetFails, InitUnacked, Crash

-----------------------------------------------------------------------------
(* DealInv is inductive. *)

\* Types are kept by every worker's step.
LEMMA TypeNext ==
  ASSUME DealInv, NEW w \in Workers, WorkerStep(w) PROVE TypeOK'
<1> USE DEF DealInv, TypeOK
<1>1. store' \in GameType \cup {NoGame}
  BY StoreSteps
     DEF JobsOK, JobOK, GameType, FirstWrite, HostWritten, Deleted
<1>2. {lifecycle', rowLock', stateLock'} \subseteq Workers \cup {Free, Orphan}
  BY Footprints DEF Footprint
<1>3. pc' \in [Workers -> Labels]
  BY Footprints DEF Footprint
<1>4. abandoned' \in SUBSET Gens
  <2>1. pc[w] \in Starting => job[w].gen \in Gens
    BY BoundsAssumption DEF JobsOK, JobOK, DbTyped, Gens
  <2> QED
    BY <2>1, Footprints DEF Footprint
<1>5. faults' \in 0 .. MaxFaults
  BY Footprints, BoundsAssumption DEF Footprint, Fault
<1> QED
  BY <1>1, <1>2, <1>3, <1>4, <1>5, DbTypedNext, JobTypedNext DEF TypeOK

\* Status, roles and open record change together.
LEMMA DbNext ==
  ASSUME DealInv, NEW w \in Workers, WorkerStep(w)
  PROVE  DbConsistent' /\ SettingsFrozen'
<1> USE DbSteps DEF DealInv, TypeOK, DbTyped
<1>1. CASE NewGame(w)
  BY <1>1, BoundsAssumption DEF NewGame, DbConsistent, SettingsFrozen, Gens
<1>2. CASE GameClosed(w)
  BY <1>2 DEF GameClosed, CloseGame, DbConsistent, SettingsFrozen
<1>3. CASE RoomDeleted
  BY <1>3 DEF RoomDeleted, DbConsistent, SettingsFrozen
<1>4. CASE UNCHANGED db \/ HostChange
  BY <1>4 DEF HostChange, DbConsistent, SettingsFrozen, db, room
<1> QED
  BY <1>1, <1>2, <1>3, <1>4

\* Generations are only added: what a past one was dealt from stays, and a
\* closed record stays closed.
Evolves ==
  /\ lastGen <= lastGen' /\ lastGen' \in Nat
  /\ \A g \in 1 .. lastGen :
       dealt'[g] = dealt[g] /\ (g \in openRecords' => g \in openRecords)

\* So do they with every worker's step.
LEMMA RecordsEvolve ==
  ASSUME DealInv, NEW w \in Workers, WorkerStep(w)
  PROVE  Evolves
<1> USE DbSteps DEF DealInv, TypeOK, DbTyped
<1>1. CASE NewGame(w)
  BY <1>1, BoundsAssumption DEF NewGame, Evolves, Gens
<1>2. CASE GameClosed(w)
  BY <1>2, BoundsAssumption DEF GameClosed, CloseGame, Evolves
<1>3. CASE RoomDeleted
  BY <1>3, BoundsAssumption DEF RoomDeleted, Evolves
<1>4. CASE UNCHANGED db \/ HostChange
  BY <1>4, BoundsAssumption DEF HostChange, Evolves, db, room
<1> QED
  BY <1>1, <1>2, <1>3, <1>4

\* What a worker writes to Redis agrees with the record of its generation.
LEMMA StoreNext ==
  ASSUME DealInv, NEW w \in Workers, WorkerStep(w) PROVE StoreOK'
<1> USE StoreSteps, RecordsEvolve, BoundsAssumption
        DEF DealInv, TypeOK, DbTyped, Evolves, StoreOK, GameType, Gens
<1>1. CASE UNCHANGED store
  BY <1>1
<1>2. CASE FirstWrite(w) /\ UNCHANGED db
  BY <1>2 DEF FirstWrite, JobsOK, JobOK, Starting, db, room
<1>3. CASE HostWritten(w) /\ UNCHANGED db
  BY <1>3 DEF HostWritten, JobsOK, JobOK, db, room
<1>4. CASE Deleted(w)
  BY <1>4 DEF Deleted
<1> QED
  BY <1>1, <1>2, <1>3, <1>4

\* The jobs of the other workers keep their meaning.
LEMMA OthersOK ==
  ASSUME DealInv, NEW w \in Workers, WorkerStep(w), NEW x \in Workers, x # w
  PROVE  JobOK(x)'
<1>1. pc'[x] = pc[x] /\ job'[x] = job[x]
  BY Footprints DEF Footprint, DealInv, TypeOK
<1>2. job[x].gen \in Nat /\ lastGen \in Nat
  BY BoundsAssumption DEF DealInv, TypeOK, DbTyped, JobType
<1>3. \A g \in GameType : g.gen \in Nat /\ g.gen >= 1
  BY BoundsAssumption DEF GameType, Gens
<1>4. JobOK(x)
  BY DEF DealInv, JobsOK
<1> QED
  BY <1>1, <1>2, <1>3, <1>4, RecordsEvolve DEF JobOK, Evolves

\* A worker's own step brings along what its next place asks for.
LEMMA OwnOK ==
  ASSUME DealInv, NEW w \in Workers, WorkerStep(w) PROVE JobOK(w)'
<1> USE BoundsAssumption, NoGameAssumption DEF DealInv, TypeOK, At, Goto
<1>1. JobOK(w)
  BY DEF JobsOK
<1>2. CASE pc'[w] \in {"idle", "queued", "check", "exit", "transfer",
                          "hostUnlock", "cleanRow", "cleanLock", "cleanDecide"}
  BY <1>2 DEF JobOK, Starting
<1>3. CASE Check(w)
  BY <1>1, <1>3 DEF Check, JobOK, Starting
<1>4. CASE StartTx(w)
  <2>1. CASE status = "WAITING" /\ hostId = job[w].user
    <3>1. /\ lastGen + 1 \in Gens /\ lastGen' = lastGen + 1
          /\ lastGen' \in 1 .. lastGen'
      BY <1>4, <2>1 DEF StartTx, DbTyped, Gens
    <3>2. pc'[w] = "init" /\ dealt'[lastGen'] = roleConfig
      BY <1>4, <2>1, <3>1 DEF StartTx, DbTyped, ConfigToDeal
    <3>3. /\ job'[w] = [job[w] EXCEPT !.gen = lastGen', !.cfg = roleConfig]
          /\ job[w] \in JobType
      BY <1>4, <2>1 DEF StartTx, ConfigToDeal
    <3>4. /\ job'[w].gen = lastGen' /\ job'[w].cfg = roleConfig
          /\ job'[w].kind = job[w].kind
      BY <3>3 DEF JobType
    <3>5. job[w].kind = "start"
      BY <1>1, <1>4 DEF StartTx, JobOK, Starting
    <3> QED
      BY <3>1, <3>2, <3>4, <3>5 DEF JobOK, Starting
  <2>2. CASE ~ (status = "WAITING" /\ hostId = job[w].user)
    BY <1>4, <2>2, <1>2 DEF StartTx
  <2> QED
    BY <2>1, <2>2
<1>5. CASE InitTx(w)
  <2>1. /\ pc[w] = "init" /\ job[w].kind = "start"
        /\ job[w].gen \in 1 .. lastGen /\ job[w].cfg = dealt[job[w].gen]
    BY <1>1, <1>5 DEF InitTx, JobOK, Starting
  <2>2. lastGen' = lastGen /\ dealt' = dealt
    BY <1>5 DEF InitTx, db
  <2>3. CASE pc'[w] = "rollback" /\ job' = job
    BY <2>1, <2>2, <2>3 DEF JobOK, Starting
  <2>4. CASE /\ pc'[w] = "initLock"
             /\ job' = [job EXCEPT ![w].snap = FirstState(w)]
    <3>1. /\ FirstState(w).gen = job[w].gen /\ FirstState(w).cfg = job[w].cfg
          /\ FirstState(w) \in GameType
      BY <2>1 DEF FirstState, GameType, DbTyped, Gens
    <3>2. /\ job'[w] = [job[w] EXCEPT !.snap = FirstState(w)]
          /\ job[w] \in JobType
      BY <2>4
    <3>3. /\ job'[w].snap = FirstState(w) /\ job'[w].gen = job[w].gen
          /\ job'[w].cfg = job[w].cfg /\ job'[w].kind = job[w].kind
      BY <3>2 DEF JobType
    <3> QED
      BY <2>1, <2>2, <2>4, <3>1, <3>3 DEF JobOK, Starting
  <2> QED
    BY <1>5, <2>3, <2>4 DEF InitTx
<1>6. CASE \/ InitLock(w) \/ InitBusy(w) \/ InitWrite(w) \/ InitCommit(w)
           \/ InitAbort(w) \/ Rollback(w) \/ ResetFails(w) \/ InitUnacked(w)
  BY <1>1, <1>6
     DEF InitLock, InitBusy, InitWrite, InitCommit, InitAbort, Rollback,
         ResetFails, InitUnacked, JobOK, Starting, db, room
<1>7. CASE FindRecord(w)
  <2>1. CASE openRecords = {}
    BY <1>2, <1>7, <2>1 DEF FindRecord
  <2>2. CASE openRecords # {}
    <3>1. PICK g \in openRecords : job' = [job EXCEPT ![w].gen = g]
      BY <1>7, <2>2 DEF FindRecord
    <3>2. g \in 1 .. lastGen
      BY DEF DbConsistent, DbTyped, Gens
    <3>3. job'[w] = [job[w] EXCEPT !.gen = g] /\ job[w] \in JobType
      BY <3>1
    <3>4. job'[w].gen = g /\ job'[w].kind = job[w].kind
      BY <3>3 DEF JobType
    <3>5. pc'[w] = "reset" /\ lastGen' = lastGen /\ job[w].kind # "start"
      BY <1>1, <1>7, <2>2 DEF FindRecord, db, JobOK
    <3> QED
      BY <3>2, <3>4, <3>5 DEF JobOK, Starting
  <2> QED
    BY <2>1, <2>2
<1>8. CASE ResetTx(w)
  BY <1>1, <1>8
     DEF ResetTx, ResetApplies, CloseGame, JobOK, Starting, DbConsistent,
         DbTyped, db, room
<1>9. CASE DelLock(w) \/ Delete(w)
  BY <1>1, <1>9 DEF DelLock, Delete, JobOK, Starting, db, room
<1>10. CASE TransferTx(w)
  <2>1. hostId' \in Users
    BY <1>10, DbTypedNext DEF DbTyped, WorkerStep, Step, Transfer
  <2>2. CASE pc'[w] = "idle"
    BY <1>2, <2>2
  <2>3. CASE /\ pc'[w] = "hostLock"
             /\ job' = [job EXCEPT ![w].user = hostId']
    <3>1. job'[w].user = hostId'
      BY <2>3 DEF JobType
    <3> QED
      BY <2>1, <2>3, <3>1 DEF JobOK, Starting
  <2> QED
    BY <1>10, <2>2, <2>3 DEF TransferTx
<1>14. CASE HostLock(w)
  BY <1>1, <1>14 DEF HostLock, JobOK, Starting
<1>11. CASE HostRead(w)
  BY <1>1, <1>11 DEF HostRead, Visible, JobOK, Starting, StoreOK, db, room
<1>12. CASE CleanupDecide(w)
  <2>1. CASE pc'[w] = "exit"
    BY <1>2, <2>1
  <2>2. CASE /\ pc'[w] = "cleanCommit"
             /\ job' = [job EXCEPT ![w].gen = IF store = NoGame THEN 0
                                              ELSE store.gen]
    <3>1. job'[w].gen = IF store = NoGame THEN 0 ELSE store.gen
      BY <2>2 DEF JobType
    <3>2. lastGen' = lastGen /\ lastGen \in Nat
      BY <1>12 DEF CleanupDecide, db, DbTyped
    <3> QED
      BY <2>2, <3>1, <3>2 DEF JobOK, Starting, StoreOK
  <2> QED
    BY <1>12, <2>1, <2>2 DEF CleanupDecide
<1>13. CASE CleanupCommit(w)
  BY <1>1, <1>13 DEF CleanupCommit, JobOK, Starting, DbTyped, JobType
<1> QED
  <2>1. CASE \/ ForceTx(w) \/ DelUnlock(w) \/ DelBusy(w) \/ Exit(w)
             \/ Enter(w) \/ EnterBusy(w) \/ StartRefused(w)
             \/ RequestCleanup(w) \/ HostBusy(w) \/ HostWrite(w)
             \/ HostUnlock(w) \/ CleanupRow(w) \/ CleanupLock(w)
             \/ CleanupBusy(w) \/ ForceFails(w) \/ Crash(w)
             \/ \E kind \in {"start", "end", "transfer"}, u \in Users :
                  Request(w, kind, u)
    BY <1>2, <2>1
       DEF ForceTx, DelUnlock, DelBusy, Exit, Enter, EnterBusy, StartRefused,
           RequestCleanup, HostBusy, HostWrite, HostUnlock, CleanupRow,
           CleanupLock, CleanupBusy, ForceFails, Crash, Request
  <2> QED
    BY <1>3, <1>4, <1>5, <1>6, <1>7, <1>8, <1>9, <1>10, <1>11, <1>12, <1>13,
       <1>14, <2>1
       DEF WorkerStep, Step, Start, Reset, Transfer, Cleanup
\* Together: the jobs keep their meaning.
LEMMA JobsNext ==
  ASSUME DealInv, NEW w \in Workers, WorkerStep(w) PROVE JobsOK'
  BY OthersOK, OwnOK DEF JobsOK

\* A step nobody's: settings and host of a waiting room, and the locks that
\* expire.
LEMMA DealAside == DealInv /\ Aside => DealInv'
<1> SUFFICES ASSUME DealInv, Aside PROVE DealInv'
  OBVIOUS
<1> USE DEF DealInv, TypeOK, DbTyped, DbConsistent, StoreOK, SettingsFrozen
<1>1. CASE UpdateSettings \/ HostLeaves
  BY <1>1 DEF UpdateSettings, HostLeaves, JobsOK, JobOK, locks, history
<1>2. CASE LifecycleExpires \/ StateLockExpires \/ TxExpires
  <2>1. /\ {lifecycle', rowLock', stateLock'}
             \subseteq Workers \cup {Free, Orphan}
        /\ UNCHANGED <<db, store, pc, job, abandoned>>
        /\ faults' \in 0 .. MaxFaults
    BY <1>2, BoundsAssumption
       DEF LifecycleExpires, StateLockExpires, TxExpires, Fault
  <2> QED
    BY <2>1 DEF JobsOK, JobOK, db, room
<1>3. CASE UNCHANGED vars
  BY <1>3 DEF vars, db, room, locks, history, JobsOK, JobOK
<1> QED
  BY <1>1, <1>2, <1>3 DEF Aside

\* DealInv holds in a fresh room.
LEMMA DealInit == Init => DealInv
<1> SUFFICES ASSUME Init PROVE DealInv
  OBVIOUS
<1> USE BoundsAssumption DEF Init
<1>1. job \in [Workers -> JobType]
  BY IdleTyped
<1>2. pc \in [Workers -> Labels]
  BY DEF Labels
<1>3. TypeOK
  BY <1>1, <1>2 DEF TypeOK, DbTyped
<1>4. DbConsistent /\ StoreOK /\ SettingsFrozen
  BY DEF DbConsistent, StoreOK, SettingsFrozen
<1>5. JobsOK
  BY DEF JobsOK, JobOK, Starting
<1> QED
  BY <1>3, <1>4, <1>5 DEF DealInv

\* DealInv is kept by every step.
LEMMA DealNext == DealInv /\ [Next]_vars => DealInv'
<1> SUFFICES ASSUME DealInv, [Next]_vars PROVE DealInv'
  OBVIOUS
<1>1. ASSUME NEW w \in Workers, WorkerStep(w) PROVE DealInv'
  BY <1>1, TypeNext, DbNext, JobsNext, StoreNext DEF DealInv
<1> QED
  BY <1>1, DealAside, Steps

\* A visible state is that of the last generation, whose settings are frozen.
LEMMA DealShown == DealInv => DealMatches
  BY DEF DealInv, DealMatches, Visible, ActiveGen, DbConsistent, StoreOK,
         SettingsFrozen

\* Whatever lock is lost, request dies or answer goes missing, the database's
\* account of a game stays one account, and the game that is played has the
\* settings its room shows and the roles were dealt from.
THEOREM DealSafety == Spec => [](TypeOK /\ DbConsistent /\ DealMatches)
<1>1. DealInv => TypeOK /\ DbConsistent /\ DealMatches
  BY DealShown DEF DealInv
<1> QED
  BY <1>1, DealInit, DealNext, PTL DEF Spec
-----------------------------------------------------------------------------
(* FenceInv is inductive while no waiting transaction is timed out. *)

\* A worker takes a free lock and gives up its own, never another's.
LEMMA LockSteps ==
  ASSUME NEW w \in Workers, WorkerStep(w)
  PROVE  /\ \/ rowLock' = rowLock
            \/ rowLock = Free /\ rowLock' = w
            \/ rowLock = w /\ rowLock' = Free
         /\ \/ stateLock' = stateLock
            \/ stateLock = Free /\ stateLock' = w
            \/ stateLock = w /\ stateLock' \in {Free, Orphan}
  BY DEF Released, locks, history,
         WorkerStep, Request, RequestCleanup, Step, Enter, EnterBusy, Exit,
         Check, Start, StartTx, StartRefused, InitTx, InitLock, InitBusy,
         InitWrite, InitCommit, InitAbort, Rollback, Reset, FindRecord, ResetTx,
         ForceTx, DelLock, DelBusy, Delete, DelUnlock, Transfer, TransferTx,
         HostLock, HostBusy, HostRead, HostWrite, HostUnlock, Cleanup,
         CleanupRow, CleanupLock, CleanupBusy, CleanupDecide, CleanupCommit,
         ForceFails, ResetFails, InitUnacked, Crash

\* Where a starter holds the row.
Inits == {"initLock", "initWrite", "initDone", "initFailed"}

\* The steps by which a worker arrives at a place the fence speaks of.
LEMMA Arrivals ==
  ASSUME TypeOK, NEW w \in Workers, WorkerStep(w)
  PROVE  /\ pc'[w] \in Inits /\ pc[w] \notin Inits =>
              InitTx(w) /\ pc'[w] = "initLock"
         /\ pc'[w] \in Inits /\ pc[w] \in Inits =>
              /\ pc[w] \in {"initLock", "initWrite"}
              /\ UNCHANGED <<job, openRecords, rowLock>>
         /\ pc'[w] = "initWrite" => pc[w] = "initLock"
         /\ pc'[w] = "initDone" => InitWrite(w)
         /\ pc'[w] = "hostWrite" => HostRead(w)
  BY DEF TypeOK, Inits, At, Goto, Labels, db, locks, history,
         WorkerStep, Request, RequestCleanup, Step, Enter, EnterBusy, Exit,
         Check, Start, StartTx, StartRefused, InitTx, InitLock, InitBusy,
         InitWrite, InitCommit, InitAbort, Rollback, Reset, FindRecord, ResetTx,
         ForceTx, DelLock, DelBusy, Delete, DelUnlock, Transfer, TransferTx,
         HostLock, HostBusy, HostRead, HostWrite, HostUnlock, Cleanup,
         CleanupRow, CleanupLock, CleanupBusy, CleanupDecide, CleanupCommit,
         ForceFails, ResetFails, InitUnacked, Crash

\* A starter goes on working on its game, or leaves it written, closed or
\* abandoned.
LEMMA StartSteps ==
  ASSUME TypeOK, NEW w \in Workers, WorkerStep(w),
         pc[w] \in Starting, job[w].kind = "start"
  PROVE  \/ /\ pc'[w] \in Starting
            /\ job'[w].kind = "start" /\ job'[w].gen = job[w].gen
         \/ InitCommit(w)
         \/ Rollback(w) /\ status # "PLAYING"
         \/ ResetTx(w) /\ ResetApplies(w)
         \/ ForceTx(w)
         \/ abandoned' = abandoned \cup {job[w].gen} /\ UNCHANGED db
<1>1. CASE InitTx(w)
  <2>1. job'[w].kind = job[w].kind /\ job'[w].gen = job[w].gen
    BY <1>1 DEF InitTx, TypeOK, JobType
  <2> QED
    BY <1>1, <2>1 DEF InitTx, TypeOK, Starting, Goto
<1>2. CASE ~ InitTx(w)
  BY <1>2 DEF TypeOK, Starting, At, Goto, db, room,
         WorkerStep, Request, RequestCleanup, Step, Enter, EnterBusy, Exit,
         Check, Start, StartTx, StartRefused, InitLock, InitBusy,
         InitWrite, InitAbort, Rollback, Reset, FindRecord, ResetTx,
         DelLock, DelBusy, Delete, DelUnlock, Transfer, TransferTx,
         HostLock, HostBusy, HostRead, HostWrite, HostUnlock, Cleanup,
         CleanupRow, CleanupLock, CleanupBusy, CleanupDecide, CleanupCommit,
         ForceFails, ResetFails, InitUnacked, Crash
<1> QED
  BY <1>1, <1>2

\* Nobody takes the row from a starter.
LEMMA RowHeldNext ==
  ASSUME DealInv, RowHeld, NEW w \in Workers, WorkerStep(w)
  PROVE  RowHeld'
<1> SUFFICES ASSUME NEW x \in Workers, pc'[x] \in Inits PROVE rowLock' = x
  BY DEF RowHeld, Inits
<1>1. CASE x = w
  <2>1. CASE pc[w] \in Inits
    BY <1>1, <2>1, Arrivals DEF DealInv, RowHeld, Inits
  <2>2. CASE pc[w] \notin Inits
    BY <1>1, <2>2, Arrivals DEF DealInv, TypeOK, InitTx, Goto, Inits
  <2> QED
    BY <2>1, <2>2
<1>2. CASE x # w
  <2>1. pc'[x] = pc[x]
    BY <1>2, Footprints DEF Footprint, DealInv, TypeOK
  <2>2. rowLock = x
    BY <2>1 DEF RowHeld, Inits
  <2> QED
    BY <1>2, <2>2, LockSteps, TokenAssumption
<1> QED
  BY <1>1, <1>2

\* Whoever closes or replaces a game needs the row the starter holds.
LEMMA InitFencedNext ==
  ASSUME DealInv, FenceInv, NEW w \in Workers, WorkerStep(w)
  PROVE  InitFenced'
<1> USE DEF DealInv, TypeOK, FenceInv
<1> SUFFICES ASSUME NEW x \in Workers, pc'[x] \in Inits \ {"initFailed"}
             PROVE  job'[x].gen \in openRecords'
  BY DEF InitFenced, Inits
<1>1. CASE x = w
  <2>1. CASE pc[w] \in Inits
    <3>1. UNCHANGED <<job, openRecords>>
      BY <1>1, <2>1, Arrivals
    <3> QED
      BY <1>1, <2>1, <3>1, Arrivals DEF InitFenced, Inits
  <2>2. CASE pc[w] \notin Inits
    <3>1. InitTx(w) /\ pc'[w] = "initLock"
      BY <1>1, <2>2, Arrivals
    <3>2. job[w].gen \in openRecords /\ openRecords' = openRecords
      BY <3>1 DEF InitTx, ActiveGen, Goto, db
    <3>3. job'[w].gen = job[w].gen
      BY <3>1 DEF InitTx, JobType
    <3> QED
      BY <1>1, <3>2, <3>3
  <2> QED
    BY <2>1, <2>2
<1>2. CASE x # w
  <2>1. pc'[x] = pc[x] /\ job'[x] = job[x]
    BY <1>2, Footprints DEF Footprint
  <2>2. rowLock = x /\ job[x].gen \in openRecords
    BY <2>1 DEF RowHeld, InitFenced, Inits
  <2>3. ~ (NewGame(w) \/ GameClosed(w) \/ (RoomDeleted /\ rowLock = w))
    BY <1>2, <2>2, TokenAssumption DEF NewGame, GameClosed, DbConsistent
  <2> QED
    BY <2>1, <2>2, <2>3, DbSteps DEF HostChange, db
<1> QED
  BY <1>1, <1>2

\* What a starter has written stays: other starters have no row, a host
\* transfer writes the same generation, a delete is for a closed one.
LEMMA WrittenNext ==
  ASSUME DealInv, FenceInv, NEW w \in Workers, WorkerStep(w)
  PROVE  Written'
<1> USE NoGameAssumption DEF DealInv, TypeOK, FenceInv
<1> SUFFICES ASSUME NEW x \in Workers, pc'[x] = "initDone"
             PROVE  store' # NoGame /\ store'.gen = job'[x].gen
  BY DEF Written
<1>1. CASE x = w
  <2>1. pc[w] = "initWrite" /\ store' = job[w].snap /\ job' = job
    BY <1>1, Arrivals DEF InitWrite, Goto, At
  <2> QED
    BY <1>1, <2>1 DEF JobsOK, JobOK
<1>2. CASE x # w
  <2>1. pc'[x] = pc[x] /\ job'[x] = job[x]
    BY <1>2, Footprints DEF Footprint
  <2>2. /\ store # NoGame /\ store.gen = job[x].gen
        /\ rowLock = x /\ job[x].gen \in openRecords
    BY <2>1 DEF Written, RowHeld, InitFenced
  <2>3. ~ FirstWrite(w)
    BY <1>2, <2>2 DEF FirstWrite, RowHeld
  <2>4. CASE HostWritten(w)
    BY <2>1, <2>2, <2>4 DEF HostWritten, HostSnapshot, JobsOK, JobOK, GameType
  <2>5. ~ Deleted(w)
    BY <2>2 DEF Deleted, JobsOK, JobOK
  <2> QED
    BY <2>1, <2>2, <2>3, <2>4, <2>5, StoreSteps
<1> QED
  BY <1>1, <1>2

\* The state does not change under the state lock of another.
LEMMA HostSnapshotNext ==
  ASSUME DealInv, HostSnapshot, NEW w \in Workers, WorkerStep(w)
  PROVE  HostSnapshot'
<1> USE DEF DealInv, TypeOK
<1> SUFFICES ASSUME NEW x \in Workers, pc'[x] = "hostWrite", stateLock' = x
             PROVE  store' = job'[x].snap
  BY DEF HostSnapshot
<1>1. CASE x = w
  <2>1. HostRead(w)
    BY <1>1, Arrivals
  <2>2. Visible # NoGame
    BY <1>1, <2>1 DEF HostRead, Goto
  <2>3. job'[w].snap = Visible /\ store' = store
    BY <2>1 DEF HostRead, JobType
  <2> QED
    BY <1>1, <2>2, <2>3 DEF Visible
<1>2. CASE x # w
  <2>1. pc'[x] = pc[x] /\ job'[x] = job[x]
    BY <1>2, Footprints DEF Footprint
  <2>2. stateLock = x
    BY <1>2, LockSteps, TokenAssumption
  <2>3. store' = store
    BY <1>2, <2>2, StoreSteps DEF FirstWrite, HostWritten, Deleted
  <2> QED
    BY <2>1, <2>2, <2>3 DEF HostSnapshot
<1> QED
  BY <1>1, <1>2

\* An open game is in Redis, or its starter still answers for it.
LEMMA ReadableNext ==
  ASSUME DealInv, FenceInv, NEW w \in Workers, WorkerStep(w)
  PROVE  Readable'
<1> USE NoGameAssumption DEF DealInv, TypeOK, DbTyped, FenceInv
<1> DEFINE Underway(g) ==
      \E x \in Workers :
        job[x].kind = "start" /\ job[x].gen = g /\ pc[x] \in Starting
<1> SUFFICES ASSUME NEW g \in openRecords' \ abandoned'
             PROVE  \/ store' # NoGame /\ store'.gen = g
                    \/ \E x \in Workers :
                         /\ job'[x].kind = "start" /\ job'[x].gen = g
                         /\ pc'[x] \in Starting
  BY DEF Readable
<1>1. CASE NewGame(w)
  <2>1. job[w].kind = "start"
    BY <1>1 DEF NewGame, StartTx, At, JobsOK, JobOK, Starting
  <2>2. g = lastGen'
    BY <1>1 DEF NewGame
  <2>3. pc'[w] = "init" /\ job'[w].gen = lastGen' /\ job'[w].kind = "start"
    <3>1. /\ pc'[w] = "init"
          /\ job' = [job EXCEPT ![w].gen = lastGen',
                                ![w].cfg = ConfigToDeal(w)]
      BY <1>1 DEF NewGame, StartTx, Goto, db, room
    <3>2. /\ job'[w] = [job[w] EXCEPT !.gen = lastGen',
                                     !.cfg = ConfigToDeal(w)]
          /\ job[w] \in JobType
      BY <3>1
    <3> QED
      BY <2>1, <3>1, <3>2 DEF JobType
  <2> QED
    BY <2>2, <2>3 DEF Starting
<1>2. CASE ~ NewGame(w)
  <2>1. openRecords' \subseteq openRecords
    BY <1>2, DbSteps DEF GameClosed, CloseGame, RoomDeleted, HostChange, db
  <2>2. abandoned \subseteq abandoned'
    BY Footprints DEF Footprint
  <2>3. g \in openRecords \ abandoned /\ openRecords = {g} /\ status = "PLAYING"
    BY <2>1, <2>2 DEF DbConsistent
  <2>4. CASE store # NoGame /\ store.gen = g
    <3>1. CASE FirstWrite(w)
      BY <2>3, <3>1 DEF FirstWrite, InitFenced, JobsOK, JobOK
    <3>2. CASE HostWritten(w)
      BY <2>4, <3>2 DEF HostWritten, HostSnapshot, JobsOK, JobOK, GameType
    <3>3. ~ Deleted(w)
      BY <2>3, <2>4 DEF Deleted, JobsOK, JobOK
    <3> QED
      BY <2>4, <3>1, <3>2, <3>3, StoreSteps
  <2>5. ASSUME NEW x \in Workers, job[x].kind = "start", job[x].gen = g,
               pc[x] \in Starting
        PROVE  \/ store' # NoGame /\ store'.gen = g
               \/ /\ job'[x].kind = "start" /\ job'[x].gen = g
                  /\ pc'[x] \in Starting
    <3>1. CASE x # w
      BY <2>5, <3>1, Footprints DEF Footprint
    <3>2. CASE x = w
      <4>1. CASE InitCommit(w)
        BY <2>5, <3>2, <4>1 DEF InitCommit, At, Written
      <4>2. ~ (Rollback(w) /\ status # "PLAYING")
        BY <2>3
      <4>3. ~ (ResetTx(w) /\ ResetApplies(w))
        BY <2>3, <2>5, <3>2 DEF ResetTx, CloseGame
      <4>4. ~ ForceTx(w)
        BY <2>3, <2>5, <3>2 DEF ForceTx, ResetApplies, CloseGame
      <4> QED
        BY <2>5, <3>2, <4>1, <4>2, <4>3, <4>4, StartSteps
    <3> QED
      BY <3>1, <3>2
  <2> QED
    BY <2>3, <2>4, <2>5 DEF Readable
<1> QED
  BY <1>1, <1>2

\* A step nobody's takes no row lock away, unless a transaction times out.
LEMMA FenceAside ==
  ~ TxMayExpire /\ DealInv /\ FenceInv /\ Aside => FenceInv'
<1> SUFFICES ASSUME ~ TxMayExpire, FenceInv, Aside PROVE FenceInv'
  OBVIOUS
<1>1. UNCHANGED <<openRecords, store, rowLock, pc, job, abandoned>>
  BY DEF Aside, UpdateSettings, HostLeaves, LifecycleExpires, StateLockExpires,
         TxExpires, vars, db, room, locks, history
<1>2. stateLock' \in {stateLock, Free}
  BY DEF Aside, UpdateSettings, HostLeaves, LifecycleExpires, StateLockExpires,
         TxExpires, vars, locks
<1> QED
  BY <1>1, <1>2, TokenAssumption
     DEF FenceInv, RowHeld, InitFenced, Written, HostSnapshot, Readable

\* FenceInv holds in a fresh room.
LEMMA FenceInit == Init => FenceInv
  BY DEF Init, FenceInv, RowHeld, InitFenced, Written, HostSnapshot, Readable

\* FenceInv is kept by every step.
LEMMA FenceNext ==
  ~ TxMayExpire /\ DealInv /\ FenceInv /\ [Next]_vars => FenceInv'
<1> SUFFICES ASSUME ~ TxMayExpire, DealInv, FenceInv, [Next]_vars
             PROVE  FenceInv'
  OBVIOUS
<1>1. ASSUME NEW w \in Workers, WorkerStep(w) PROVE FenceInv'
  BY <1>1, RowHeldNext, InitFencedNext, WrittenNext, HostSnapshotNext,
     ReadableNext DEF FenceInv
<1> QED
  BY <1>1, FenceAside, Steps

\* The state of another generation appears only by its starter's first write.
LEMMA FirstWrites ==
  ASSUME DealInv, FenceInv, [Next]_vars, NEW g \in Gens,
         store' # NoGame, store'.gen = g, store = NoGame \/ store.gen # g
  PROVE  status = "PLAYING" /\ g \in openRecords
<1> USE DEF DealInv, TypeOK, FenceInv
<1>1. ~ Aside
  BY DEF Aside, UpdateSettings, HostLeaves, LifecycleExpires, StateLockExpires,
         TxExpires, vars
<1>2. PICK w \in Workers : WorkerStep(w)
  BY <1>1, Steps
<1>3. ASSUME HostWritten(w) PROVE FALSE
  <2>1. /\ store = job[w].snap /\ store \in GameType
        /\ store' = [store EXCEPT !.host = job[w].user]
    BY <1>3 DEF HostWritten, HostSnapshot, JobsOK, JobOK
  <2>2. store'.gen = store.gen
    BY <2>1 DEF GameType
  <2> QED
    BY <2>1, <2>2, NoGameAssumption
<1>4. FirstWrite(w)
  BY <1>2, <1>3, StoreSteps DEF Deleted
<1> QED
  BY <1>4 DEF FirstWrite, InitFenced, JobsOK, JobOK, DbConsistent

\* While no transaction is timed out: a game the database calls active has its
\* state in Redis once its start is over, and a starter writes the state of its
\* game only while that game is the active one.
THEOREM FenceSafety ==
  ASSUME ~ TxMayExpire PROVE Spec => []ActiveGameReadable /\ FencedInit
<1> DEFINE Inv == DealInv /\ FenceInv
           FirstWriteOnly ==
             \A g \in Gens :
               (/\ store' # NoGame /\ store'.gen = g
                /\ store = NoGame \/ store.gen # g)
               => status = "PLAYING" /\ g \in openRecords
<1>1. Init => Inv
  BY DealInit, FenceInit
<1>2. Inv /\ [Next]_vars => Inv'
  BY DealNext, FenceNext
<1>3. Inv => ActiveGameReadable
  BY DEF FenceInv, Readable, ActiveGameReadable
<1>4. Inv /\ [Next]_vars => [FirstWriteOnly]_vars
  BY FirstWrites
<1> QED
  BY <1>1, <1>2, <1>3, <1>4, PTL DEF Spec, FencedInit
=============================================================================
