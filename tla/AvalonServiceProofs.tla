------------------------- MODULE AvalonServiceProofs -------------------------
(***************************************************************************)
(* Theorems about the server side of a running game, for every number of   *)
(* handlers and processes and every number of faults: a write that passes  *)
(* Redis's comparison of tokens was decided on the current state.          *)
(*                                                                         *)
(* The argument: the promise chain of a process lets one handler at a time *)
(* into the room's section, so the lease that saveGameState finds in the   *)
(* map of its process is the handler's own; a handler whose token is in    *)
(* the lock read the state after it took the lock, and since then nobody   *)
(* else could write.  A handler that has lost its lease may hold any old   *)
(* state, but its write is refused.                                        *)
(*                                                                         *)
(* So each write replaces the stored state by what the engine makes of it  *)
(* and of an accepted request: the stored game stays Sound, and goes       *)
(* Forward, by the lemmas of GameSoundnessProofs; and it is a step of      *)
(* AvalonGame, whose engine is shown to be the one of this module.         *)
(***************************************************************************)
EXTENDS AvalonService, GameSoundnessProofs

CoreType ==
  /\ roomChains \in [Processes -> Seq(Handlers)]
  /\ roomLeases \in [Processes -> Handlers \cup {Free}]
  /\ home \in [Handlers -> Processes]
  /\ pc \in [Handlers -> {"idle", "queued", "check"} \cup Running]
  /\ req \in [Handlers -> RequestType]
  /\ snap = [h \in Handlers |-> snap[h]]
  /\ present \in BOOLEAN

\* A handler that waits for its turn or has it is in the chain.
InChain ==
  \A h \in Handlers :
    pc[h] \in {"queued"} \cup Running => h \in Range(roomChains[home[h]])

\* What is about to be written is a move the engine accepted.
Decided ==
  \A h \in Handlers : pc[h] = "decided" => Accepts(snap[h], req[h])

Chained == InChain /\ OwnLease
ServiceInv == CoreType /\ Chained /\ SnapshotCurrent /\ Decided
-----------------------------------------------------------------------------
(* Requests and chains. *)

\* Every request the gateway makes is a request.
LEMMA RequestsTyped ==
  /\ \A p \in Players : /\ Request("closeVote", p, "answer") \in RequestType
                        /\ Request("closeQuest", p, "answer") \in RequestType
  /\ \A p \in Hosts : /\ Request("handover", p, "answer") \in RequestType
                      /\ Request("handover", p, "begin") \in RequestType
                      /\ Request("begin", p, "answer") \in RequestType
  /\ \A p \in Roamers : /\ Request("online", p, "answer") \in RequestType
                        /\ Request("offline", p, "answer") \in RequestType
BY PlayerInputsAssumption DEF Request, RequestType, Ops

LEMMA ReceiptsTyped ==
  /\ \A p \in Players, team \in Proposals :
       [Request("propose", p, "answer") EXCEPT !.team = team] \in RequestType
  /\ \A p \in Players : \A v \in Votes[p] :
       [Request("vote", p, "check") EXCEPT !.choice = v] \in RequestType
  /\ \A p \in Players : \A a \in Tickets[p] :
       [Request("act", p, "check") EXCEPT !.choice = a] \in RequestType
  /\ \A k \in Kills :
       [Request("kill", k[1], "answer") EXCEPT !.target = k[2]] \in RequestType
BY KillsAssumption, PlayerInputsAssumption DEF Request, RequestType, Ops

\* A failed section still answers.
LEMMA FailTyped ==
  ASSUME NEW r \in RequestType
  PROVE  [r EXCEPT !.then = "answer"] \in RequestType
BY DEF RequestType

LEMMA FailKeepsType ==
  ASSUME req \in [Handlers -> RequestType], NEW h \in Handlers, Fail(h)
  PROVE  req' \in [Handlers -> RequestType]
<1>1. req' = [req EXCEPT ![h] = [req[h] EXCEPT !.then = "answer"]]
  BY DEF Fail
<1>2. [req[h] EXCEPT !.then = "answer"] \in RequestType
  BY FailTyped
<1> QED
  BY <1>1, <1>2

LEMMA ChainAppend ==
  ASSUME NEW s \in Seq(Handlers), NEW h \in Handlers
  PROVE  /\ Append(s, h) \in Seq(Handlers)
         /\ Range(Append(s, h)) = Range(s) \cup {h}
         /\ \A x \in Range(s) : Head(Append(s, h)) = Head(s)
<1>1. /\ DOMAIN s = 1 .. Len(s) /\ Len(s) \in Nat
      /\ DOMAIN Append(s, h) = 1 .. (Len(s) + 1)
      /\ Append(s, h)[Len(s) + 1] = h
      /\ \A i \in 1 .. Len(s) : Append(s, h)[i] = s[i]
  OBVIOUS
<1>2. Range(Append(s, h)) = Range(s) \cup {h}
  BY <1>1 DEF Range
<1>3. ASSUME NEW x \in Range(s) PROVE Head(Append(s, h)) = Head(s)
  <2>1. s # <<>> /\ Append(s, h) # <<>>
    BY <1>1, <1>3 DEF Range
  <2> QED
    BY <1>1, <2>1
<1> QED
  BY <1>2, <1>3

LEMMA ChainTail ==
  ASSUME NEW s \in Seq(Handlers), NEW h \in Range(s), Head(s) = h
  PROVE  /\ Tail(s) \in Seq(Handlers)
         /\ \A x \in Range(s) : x = h \/ x \in Range(Tail(s))
<1>1. /\ DOMAIN s = 1 .. Len(s) /\ Len(s) \in Nat /\ s # <<>>
  BY DEF Range
<1>2. /\ Tail(s) \in Seq(Handlers) /\ Head(s) = s[1]
      /\ DOMAIN Tail(s) = 1 .. (Len(s) - 1)
      /\ \A i \in 1 .. (Len(s) - 1) : Tail(s)[i] = s[i + 1]
  BY <1>1
<1>3. ASSUME NEW i \in 1 .. Len(s), i # 1
      PROVE  s[i] \in Range(Tail(s))
  <2>1. i - 1 \in 1 .. (Len(s) - 1) /\ (i - 1) + 1 = i
    BY <1>1, <1>3
  <2>2. Tail(s)[i - 1] = s[i]
    BY <1>2, <2>1
  <2> QED
    BY <1>2, <2>1, <2>2 DEF Range
<1> QED
  BY <1>1, <1>2, <1>3 DEF Range
-----------------------------------------------------------------------------
(* One lemma per kind of step.  Handlers is the only set the lemmas need;  *)
(* what the engine computes plays no part.                                 *)

LEMMA InitHolds == Init => ServiceInv
<1> SUFFICES ASSUME Init PROVE ServiceInv
  OBVIOUS
<1>1. 0 \in Players
  BY PlayerCountAssumption DEF Players
<1>2. Request("closeVote", 0, "answer") \in RequestType
  BY <1>1, RequestsTyped
<1>3. CoreType
  BY <1>2, HomesAssumption DEF Init, CoreType
<1> QED
  BY <1>3 DEF Init, ServiceInv, Chained, InChain, OwnLease, SnapshotCurrent,
              Decided, Running

\* The steps that leave every handler alone: endGame's, the evictions.
Aside ==
  /\ UNCHANGED <<home, roomChains, roomLeases, pc, req, snap, store>>
  /\ lock' \in {lock, Free, Orphan, Ender}
  /\ present' \in BOOLEAN /\ (lock # Ender => present' = present)

LEMMA AsideKeeps == ServiceInv /\ Aside => ServiceInv'
<1> SUFFICES ASSUME ServiceInv, Aside PROVE ServiceInv'
  OBVIOUS
<1> USE DEF ServiceInv, Aside
<1>1. CoreType'
  BY DEF CoreType
<1>2. Chained'
  BY DEF Chained, InChain, OwnLease, Running
<1>3. SnapshotCurrent'
  BY TokenAssumption DEF SnapshotCurrent
<1>4. Decided'
  BY DEF Decided
<1> QED
  BY <1>1, <1>2, <1>3, <1>4

LEMMA EnqueueKeeps ==
  ASSUME ServiceInv, NEW h \in Handlers, NEW r \in RequestType,
         Enqueue(h, r),
         UNCHANGED <<home, store, present, active, lock, roomLeases, snap,
                     endPc, faults>>,
         pc[h] \in {"idle", "check"}
  PROVE  ServiceInv'
<1> USE DEF ServiceInv
<1>0. /\ home[h] \in Processes /\ roomChains[home[h]] \in Seq(Handlers)
      /\ pc'[h] = "queued"
      /\ \A x \in Handlers \ {h} : pc'[x] = pc[x] /\ req'[x] = req[x]
      /\ roomChains'[home[h]] = Append(roomChains[home[h]], h)
      /\ \A i \in Processes \ {home[h]} : roomChains'[i] = roomChains[i]
  BY DEF CoreType, Enqueue
<1>1. CoreType'
  BY <1>0, ChainAppend DEF CoreType, Enqueue
<1>2. InChain'
  <2> SUFFICES ASSUME NEW x \in Handlers,
                      pc'[x] \in {"queued"} \cup Running
               PROVE  x \in Range(roomChains'[home[x]])
    BY DEF InChain, Running
  <2>1. CASE x = h
    BY <1>0, <2>1, ChainAppend
  <2>2. CASE x # h
    <3>1. x \in Range(roomChains[home[x]]) /\ home[x] \in Processes
      BY <1>0, <2>2 DEF Chained, InChain, CoreType
    <3> QED
      BY <1>0, <3>1, ChainAppend
  <2> QED
    BY <2>1, <2>2
<1>3. OwnLease'
  <2> SUFFICES ASSUME NEW x \in Handlers, pc'[x] \in Running
               PROVE  /\ roomLeases[home[x]] = x
                      /\ Head(roomChains'[home[x]]) = x
    BY DEF OwnLease, Running
  <2>1. x # h /\ pc[x] \in Running
    BY <1>0 DEF Running
  <2>2. /\ x \in Range(roomChains[home[x]]) /\ home[x] \in Processes
        /\ roomLeases[home[x]] = x /\ Head(roomChains[home[x]]) = x
    BY <2>1 DEF Chained, InChain, OwnLease, CoreType
  <2> QED
    BY <1>0, <2>2, ChainAppend
<1>4. SnapshotCurrent'
  BY <1>0 DEF SnapshotCurrent
<1>5. Decided'
  BY <1>0 DEF Decided
<1> QED
  BY <1>1, <1>2, <1>3, <1>4, <1>5 DEF Chained
-----------------------------------------------------------------------------
(* Inside a section only the handler at the head of the chain moves.       *)

\* Two running handlers of one process would both be its head.
LEMMA OneRuns ==
  ASSUME CoreType, Chained,
         NEW h \in Handlers, NEW x \in Handlers, home[x] = home[h],
         pc[x] \in Running, pc[h] \in Running \/ Turn(h)
  PROVE  x = h
BY DEF Chained, OwnLease, Turn

LEMMA AcquireKeeps ==
  ASSUME ServiceInv, NEW h \in Handlers, Acquire(h)
  PROVE  ServiceInv'
<1> USE DEF ServiceInv
<1>0. /\ home[h] \in Processes /\ pc'[h] = "locked"
      /\ \A x \in Handlers \ {h} : pc'[x] = pc[x]
      /\ roomLeases'[home[h]] = h /\ Head(roomChains[home[h]]) = h
      /\ \A i \in Processes \ {home[h]} : roomLeases'[i] = roomLeases[i]
      /\ UNCHANGED <<home, store, present, roomChains, req, snap>>
      /\ pc[h] = "queued" /\ Turn(h)
  BY DEF CoreType, Acquire, Turn
<1>1. CoreType'
  BY <1>0 DEF CoreType, Acquire, Running
<1>2. InChain'
  BY <1>0 DEF Chained, InChain, Running
<1>3. OwnLease'
  BY <1>0, OneRuns DEF Chained, OwnLease, CoreType, Running
<1>4. SnapshotCurrent'
  BY <1>0 DEF SnapshotCurrent, Acquire
<1>5. Decided'
  BY <1>0 DEF Decided
<1> QED
  BY <1>1, <1>2, <1>3, <1>4, <1>5 DEF Chained

LEMMA ReadKeeps ==
  ASSUME ServiceInv, NEW h \in Handlers, Read(h)
  PROVE  ServiceInv'
<1> USE DEF ServiceInv
<1>0. /\ pc[h] = "locked" /\ pc'[h] \in {"decided", "release"}
      /\ \A x \in Handlers \ {h} :
           pc'[x] = pc[x] /\ req'[x] = req[x] /\ snap'[x] = snap[x]
      /\ UNCHANGED <<home, store, present, lock, roomChains, roomLeases>>
      /\ pc'[h] = "decided" =>
           /\ req'[h] = req[h] /\ snap'[h] = Visible
           /\ Visible # NoGame /\ Accepts(Visible, req[h])
  BY DEF CoreType, Read, Fail
<1>1. CoreType'
  <2>1. req' \in [Handlers -> RequestType]
    BY FailKeepsType DEF CoreType, Read
  <2>2. snap' = [x \in Handlers |-> snap'[x]]
    BY DEF CoreType, Read
  <2> QED
    BY <1>0, <2>1, <2>2 DEF CoreType, Read, Running
<1>2. Chained'
  BY <1>0 DEF Chained, InChain, OwnLease, Running
<1>3. SnapshotCurrent'
  BY <1>0 DEF SnapshotCurrent, Visible
<1>4. Decided'
  BY <1>0 DEF Decided
<1> QED
  BY <1>1, <1>2, <1>3, <1>4

\* LockLost and ReadFails: the section gives up.
LEMMA GiveUpKeeps ==
  ASSUME ServiceInv, NEW h \in Handlers, LockLost(h) \/ ReadFails(h)
  PROVE  ServiceInv'
<1> USE DEF ServiceInv
<1>0. /\ pc[h] \in Running /\ pc'[h] = "release"
      /\ \A x \in Handlers \ {h} : pc'[x] = pc[x] /\ req'[x] = req[x]
      /\ UNCHANGED <<home, store, present, lock, roomChains, roomLeases, snap>>
  BY DEF CoreType, LockLost, ReadFails, Fail, Running
<1>1. CoreType'
  <2>1. req' \in [Handlers -> RequestType]
    BY FailKeepsType DEF CoreType, LockLost, ReadFails
  <2> QED
    BY <1>0, <2>1 DEF CoreType, LockLost, ReadFails, Running
<1>2. Chained'
  BY <1>0 DEF Chained, InChain, OwnLease, Running
<1>3. SnapshotCurrent'
  BY <1>0 DEF SnapshotCurrent
<1>4. Decided'
  BY <1>0 DEF Decided
<1> QED
  BY <1>1, <1>2, <1>3, <1>4

\* Commit and CommitUnacked: only the handler that Redis knows writes.
LEMMA CommitKeeps ==
  ASSUME ServiceInv, NEW h \in Handlers, Commit(h) \/ CommitUnacked(h)
  PROVE  ServiceInv' /\ lock = h
<1> USE DEF ServiceInv
<1>0. /\ pc[h] = "decided" /\ pc'[h] = "release" /\ present'
      /\ \A x \in Handlers \ {h} : pc'[x] = pc[x] /\ req'[x] = req[x]
      /\ UNCHANGED <<home, lock, roomChains, roomLeases, snap>>
      /\ lock = roomLeases[home[h]]
  BY DEF CoreType, Commit, CommitUnacked, Write, Fail, Fenced
<1>1. CoreType'
  <2>1. req' \in [Handlers -> RequestType]
    BY FailKeepsType DEF CoreType, Commit, CommitUnacked
  <2>2. present' \in BOOLEAN
    BY DEF Commit, CommitUnacked, Write
  <2> QED
    BY <1>0, <2>1, <2>2 DEF CoreType, Commit, CommitUnacked, Running
<1>2. Chained'
  BY <1>0 DEF Chained, InChain, OwnLease, Running
<1>3. lock = h
  BY <1>0 DEF Chained, OwnLease, Running
<1>4. SnapshotCurrent'
  BY <1>0, <1>3 DEF SnapshotCurrent
<1>5. Decided'
  BY <1>0 DEF Decided
<1> QED
  BY <1>1, <1>2, <1>3, <1>4, <1>5

LEMMA LeaveKeeps ==
  ASSUME ServiceInv, NEW h \in Handlers, Leave(h),
         lock' \in {lock, Free, Orphan}
  PROVE  ServiceInv'
<1> USE DEF ServiceInv
<1>0. /\ pc[h] = "release" /\ pc'[h] \in {"queued", "check", "idle"}
      /\ \A x \in Handlers \ {h} :
           pc'[x] = pc[x] /\ req'[x] = req[x] /\ snap'[x] = snap[x]
      /\ UNCHANGED <<home, store, present>>
      /\ home[h] \in Processes
      /\ \A i \in Processes \ {home[h]} :
           roomLeases'[i] = roomLeases[i] /\ roomChains'[i] = roomChains[i]
  BY DEF CoreType, Leave
<1>a. /\ roomChains[home[h]] \in Seq(Handlers)
      /\ h \in Range(roomChains[home[h]]) /\ Head(roomChains[home[h]]) = h
  BY <1>0 DEF CoreType, Chained, InChain, OwnLease, Running
<1>b. /\ roomChains'[home[h]] \in
           {Tail(roomChains[home[h]]), Append(Tail(roomChains[home[h]]), h)}
      /\ pc'[h] = "queued" =>
           roomChains'[home[h]] = Append(Tail(roomChains[home[h]]), h)
  BY <1>0 DEF CoreType, Leave
<1>c. /\ roomChains'[home[h]] \in Seq(Handlers)
      /\ \A x \in Handlers \ {h} :
           x \in Range(roomChains[home[h]]) =>
             x \in Range(roomChains'[home[h]])
      /\ pc'[h] = "queued" => h \in Range(roomChains'[home[h]])
  <2>1. /\ Tail(roomChains[home[h]]) \in Seq(Handlers)
        /\ \A x \in Range(roomChains[home[h]]) :
             x = h \/ x \in Range(Tail(roomChains[home[h]]))
    BY <1>a, ChainTail
  <2>2. LET s == Tail(roomChains[home[h]])
        IN /\ Append(s, h) \in Seq(Handlers)
           /\ Range(Append(s, h)) = Range(s) \cup {h}
    BY <2>1, ChainAppend
  <2> QED
    BY <1>b, <2>1, <2>2
<1>1. CoreType'
  <2>1. req' \in [Handlers -> RequestType]
    <3>1. req[h].then = "begin" => Request("begin", req[h].by, "answer")
                                     \in RequestType
      BY RequestsTyped DEF CoreType, RequestType
    <3> QED
      BY <3>1 DEF CoreType, Leave
  <2>2. roomChains' \in [Processes -> Seq(Handlers)]
    BY <1>c, <1>0 DEF CoreType, Leave
  <2>3. snap' = [x \in Handlers |-> snap'[x]]
    BY DEF CoreType, Leave
  <2>4. /\ pc' \in [Handlers -> {"idle", "queued", "check"} \cup Running]
        /\ roomLeases' \in [Processes -> Handlers \cup {Free}]
    BY DEF CoreType, Leave
  <2> QED
    BY <1>0, <2>1, <2>2, <2>3, <2>4 DEF CoreType, Running
<1>2. InChain'
  BY <1>0, <1>c DEF Chained, InChain, Running, CoreType
<1>3. OwnLease'
  <2> SUFFICES ASSUME NEW x \in Handlers, pc'[x] \in Running
               PROVE  /\ roomLeases'[home[x]] = x
                      /\ Head(roomChains'[home[x]]) = x
    BY <1>0 DEF OwnLease, Running
  <2>1. x # h /\ pc[x] \in Running /\ pc[h] \in Running
    BY <1>0 DEF Running
  <2>2. home[x] # home[h] /\ home[x] \in Processes
    BY <2>1, OneRuns DEF CoreType
  <2> QED
    BY <1>0, <2>1, <2>2 DEF Chained, OwnLease
<1>4. SnapshotCurrent'
  BY <1>0, TokenAssumption DEF SnapshotCurrent
<1>5. Decided'
  BY <1>0 DEF Decided
<1> QED
  BY <1>1, <1>2, <1>3, <1>4, <1>5 DEF Chained

LEMMA BusyKeeps ==
  ASSUME ServiceInv, NEW h \in Handlers, LockBusy(h)
  PROVE  ServiceInv'
<1> USE DEF ServiceInv
<1>0. /\ pc[h] = "queued" /\ Turn(h) /\ pc'[h] = "idle"
      /\ \A x \in Handlers \ {h} : pc'[x] = pc[x]
      /\ UNCHANGED <<home, store, present, lock, roomLeases, req, snap>>
      /\ home[h] \in Processes
      /\ roomChains'[home[h]] = Tail(roomChains[home[h]])
      /\ \A i \in Processes \ {home[h]} : roomChains'[i] = roomChains[i]
  BY DEF CoreType, LockBusy, Turn
<1>a. /\ roomChains[home[h]] \in Seq(Handlers)
      /\ h \in Range(roomChains[home[h]]) /\ Head(roomChains[home[h]]) = h
  BY <1>0 DEF CoreType, Chained, InChain, Turn
<1>b. /\ Tail(roomChains[home[h]]) \in Seq(Handlers)
      /\ \A x \in Range(roomChains[home[h]]) :
           x = h \/ x \in Range(Tail(roomChains[home[h]]))
  BY <1>a, ChainTail
<1>1. CoreType'
  BY <1>0, <1>b DEF CoreType, LockBusy, Running
<1>2. InChain'
  BY <1>0, <1>b DEF Chained, InChain, Running, CoreType
<1>3. OwnLease'
  <2> SUFFICES ASSUME NEW x \in Handlers, pc'[x] \in Running
               PROVE  /\ roomLeases'[home[x]] = x
                      /\ Head(roomChains'[home[x]]) = x
    BY <1>0 DEF OwnLease, Running
  <2>1. x # h /\ pc[x] \in Running
    BY <1>0 DEF Running
  <2>2. home[x] # home[h] /\ home[x] \in Processes
    BY <1>0, <2>1, OneRuns DEF CoreType
  <2> QED
    BY <1>0, <2>1, <2>2 DEF Chained, OwnLease
<1>4. SnapshotCurrent'
  BY <1>0 DEF SnapshotCurrent
<1>5. Decided'
  BY <1>0 DEF Decided
<1> QED
  BY <1>1, <1>2, <1>3, <1>4, <1>5 DEF Chained

LEMMA CheckFailsKeeps ==
  ASSUME ServiceInv, NEW h \in Handlers, pc[h] = "check",
         pc' = [pc EXCEPT ![h] = "idle"],
         UNCHANGED <<home, store, present, lock, roomChains, roomLeases, req,
                     snap>>
  PROVE  ServiceInv'
<1> USE DEF ServiceInv
<1>0. /\ pc'[h] = "idle"
      /\ \A x \in Handlers \ {h} : pc'[x] = pc[x]
  BY DEF CoreType
<1>1. CoreType'
  BY DEF CoreType, Running
<1>2. Chained'
  BY <1>0 DEF Chained, InChain, OwnLease, Running
<1>3. SnapshotCurrent'
  BY <1>0 DEF SnapshotCurrent
<1>4. Decided'
  BY <1>0 DEF Decided
<1> QED
  BY <1>1, <1>2, <1>3, <1>4

LEMMA CrashKeeps ==
  ASSUME ServiceInv, NEW i \in Processes, Crash(i)
  PROVE  ServiceInv'
<1> USE DEF ServiceInv
<1>0. /\ \A x \in Handlers : home[x] = i => pc'[x] = "idle"
      /\ \A x \in Handlers :
           home[x] # i => pc'[x] = pc[x] /\ snap'[x] = snap[x]
      /\ \A j \in Processes \ {i} :
           roomChains'[j] = roomChains[j] /\ roomLeases'[j] = roomLeases[j]
      /\ UNCHANGED <<home, store, present, req>>
      /\ lock' \in {lock, Orphan}
  BY DEF CoreType, Crash
<1>1. CoreType'
  BY <1>0 DEF CoreType, Crash, Running
<1>2. Chained'
  BY <1>0 DEF Chained, InChain, OwnLease, Running, CoreType
<1>3. SnapshotCurrent'
  BY <1>0, TokenAssumption DEF SnapshotCurrent
<1>4. Decided'
  BY <1>0 DEF Decided
<1> QED
  BY <1>1, <1>2, <1>3, <1>4
-----------------------------------------------------------------------------
(* Every step, and what it may do to the stored game.                      *)

\* A step that writes is a write of an accepted request on the stored game.
Stored ==
  \/ store' = store
  \/ \E r \in RequestType : Accepts(store, r) /\ store' = Outcome(store, r)

LEMMA CommitStores ==
  ASSUME ServiceInv, NEW h \in Handlers, Commit(h) \/ CommitUnacked(h)
  PROVE  Stored /\ present
<1>1. lock = h /\ pc[h] = "decided"
  BY CommitKeeps DEF Commit, CommitUnacked
<1>2. /\ present /\ snap[h] = store
      /\ Accepts(snap[h], req[h]) /\ req[h] \in RequestType
  BY <1>1 DEF ServiceInv, SnapshotCurrent, Decided, CoreType
<1>3. store' = Outcome(snap[h], req[h])
  BY DEF Commit, CommitUnacked, Write
<1> QED
  BY <1>2, <1>3 DEF Stored

LEMMA ReceiveKeeps ==
  ASSUME ServiceInv, NEW h \in Handlers, ReceiveAny(h)
  PROVE  ServiceInv' /\ UNCHANGED <<store, present>>
<1>1. \E r \in RequestType : Receive(h, r)
  <2>1. CASE ReceiveBegin(h)
    BY <2>1, RequestsTyped DEF ReceiveBegin
  <2>2. CASE ReceivePropose(h)
    BY <2>2, ReceiptsTyped DEF ReceivePropose
  <2>3. CASE ReceiveVote(h)
    BY <2>3, ReceiptsTyped DEF ReceiveVote
  <2>4. CASE ReceiveAct(h)
    BY <2>4, ReceiptsTyped DEF ReceiveAct
  <2>5. CASE ReceiveKill(h)
    BY <2>5, ReceiptsTyped DEF ReceiveKill
  <2>6. CASE ReceiveHandover(h)
    BY <2>6, RequestsTyped DEF ReceiveHandover
  <2>7. CASE ReceiveRoam(h)
    BY <2>7, RequestsTyped DEF ReceiveRoam
  <2> QED
    BY <2>1, <2>2, <2>3, <2>4, <2>5, <2>6, <2>7 DEF ReceiveAny
<1>2. PICK r \in RequestType : Receive(h, r)
  BY <1>1
<1> QED
  BY <1>2, EnqueueKeeps DEF Receive

LEMMA CheckKeeps ==
  ASSUME ServiceInv, NEW h \in Handlers, Check(h) \/ CheckFails(h)
  PROVE  ServiceInv' /\ UNCHANGED <<store, present>>
<1>1. CASE Check(h) /\ pc' = [pc EXCEPT ![h] = "idle"] /\ UNCHANGED roomChains
                    /\ UNCHANGED req
  BY <1>1, CheckFailsKeeps DEF Check
<1>2. CASE CheckFails(h)
  BY <1>2, CheckFailsKeeps DEF CheckFails
<1>3. ASSUME Check(h), NEW op \in {"closeVote", "closeQuest"},
             Enqueue(h, Request(op, req[h].by, "answer"))
      PROVE  ServiceInv' /\ UNCHANGED <<store, present>>
  <2>1. Request(op, req[h].by, "answer") \in RequestType
    BY RequestsTyped DEF ServiceInv, CoreType, RequestType
  <2> QED
    BY <1>3, <2>1, EnqueueKeeps DEF Check
<1>4. Check(h) =>
        \/ pc' = [pc EXCEPT ![h] = "idle"] /\ UNCHANGED <<req, roomChains>>
        \/ \E op \in {"closeVote", "closeQuest"} :
             Enqueue(h, Request(op, req[h].by, "answer"))
  BY DEF Check
<1> QED
  BY <1>1, <1>2, <1>3, <1>4

LEMMA AsideSteps ==
  ASSUME ServiceInv,
         \/ EndGame \/ EndStep \/ EndFails \/ EvictOrphan \/ LeaseExpires
         \/ UNCHANGED vars
  PROVE  Aside /\ UNCHANGED store /\ (~ present => ~ present')
<1> USE DEF ServiceInv, CoreType, Aside
<1>1. CASE EndGame
  BY <1>1 DEF EndGame
<1>2. CASE EndStep
  <2>1. CASE EndAcquire
    BY <2>1 DEF EndAcquire
  <2>2. CASE EndDelete
    BY <2>2 DEF EndDelete
  <2>3. CASE EndRelease
    BY <2>3 DEF EndRelease
  <2> QED
    BY <1>2, <2>1, <2>2, <2>3 DEF EndStep
<1>3. CASE EndFails
  BY <1>3 DEF EndFails
<1>4. CASE EvictOrphan \/ LeaseExpires
  BY <1>4 DEF EvictOrphan, LeaseExpires, Evict
<1>5. CASE UNCHANGED vars
  BY <1>5 DEF vars
<1> QED
  BY <1>1, <1>2, <1>3, <1>4, <1>5

LEMMA ServiceStep ==
  ServiceInv /\ [Next]_vars =>
    ServiceInv' /\ Stored /\ (~ present => ~ present')
<1> SUFFICES ASSUME ServiceInv, [Next]_vars
             PROVE  ServiceInv' /\ Stored /\ (~ present => ~ present')
  OBVIOUS
<1>1. CASE \/ EndGame \/ EndStep \/ EndFails \/ EvictOrphan \/ LeaseExpires
           \/ UNCHANGED vars
  BY <1>1, AsideSteps, AsideKeeps DEF Stored
<1>2. ASSUME NEW h \in Handlers,
             \/ ReceiveAny(h) \/ Check(h) \/ CheckFails(h)
      PROVE  ServiceInv' /\ Stored /\ (~ present => ~ present')
  BY <1>2, ReceiveKeeps, CheckKeeps DEF Stored
<1>3. ASSUME NEW h \in Handlers, Acquire(h) \/ Read(h) \/ LockBusy(h)
      PROVE  ServiceInv' /\ Stored /\ (~ present => ~ present')
  BY <1>3, AcquireKeeps, ReadKeeps, BusyKeeps
     DEF Stored, Acquire, Read, LockBusy
<1>4. ASSUME NEW h \in Handlers, LockLost(h) \/ ReadFails(h)
      PROVE  ServiceInv' /\ Stored /\ (~ present => ~ present')
  BY <1>4, GiveUpKeeps DEF Stored, LockLost, ReadFails
<1>5. ASSUME NEW h \in Handlers, Commit(h) \/ CommitUnacked(h)
      PROVE  ServiceInv' /\ Stored /\ (~ present => ~ present')
  BY <1>5, CommitKeeps, CommitStores
<1>6. ASSUME NEW h \in Handlers, Release(h) \/ ReleaseFails(h)
      PROVE  ServiceInv' /\ Stored /\ (~ present => ~ present')
  <2>1. Leave(h) /\ lock' \in {lock, Free, Orphan}
    BY <1>6 DEF Release, ReleaseFails
  <2> QED
    BY <2>1, LeaveKeeps DEF Stored, Leave
<1>7. ASSUME NEW i \in Processes, Crash(i)
      PROVE  ServiceInv' /\ Stored /\ (~ present => ~ present')
  BY <1>7, CrashKeeps DEF Stored, Crash
<1> QED
  BY <1>1, <1>2, <1>3, <1>4, <1>5, <1>6, <1>7
     DEF Next, Failure, Step, Section
-----------------------------------------------------------------------------
\* A handler inside its section finds its own lease in the map of its
\* process, and one whose token Redis still knows decides on the current
\* state: with any number of handlers and processes, whatever expires, fails
\* or crashes.
THEOREM ServiceFenced == Spec => [](OwnLease /\ SnapshotCurrent)
<1>1. Init => ServiceInv
  BY InitHolds
<1>2. ServiceInv /\ [Next]_vars => ServiceInv'
  BY ServiceStep
<1>3. ServiceInv => OwnLease /\ SnapshotCurrent
  BY DEF ServiceInv, Chained
<1> QED
  BY <1>1, <1>2, <1>3, PTL DEF Spec

\* No late write of a handler brings the state of an ended game back.
THEOREM EndedStaysDeleted == Spec => NoResurrection
<1>1. Init => ServiceInv
  BY InitHolds
<1>2. ServiceInv /\ [Next]_vars => ServiceInv'
  BY ServiceStep
<1>3. ServiceInv /\ [Next]_vars => [~ present => ~ present']_vars
  BY ServiceStep
<1> QED
  BY <1>1, <1>2, <1>3, PTL DEF Spec, NoResurrection
-----------------------------------------------------------------------------
(* The stored game is sound whatever happens to the handlers.              *)

\* What the engine makes of a sound game and a request it accepts is sound.
LEMMA AcceptedSound ==
  ASSUME NEW g, Sound(g), NEW r \in RequestType, Accepts(g, r)
  PROVE  Sound(Outcome(g, r))
<1>0. /\ r.by \in Players
      /\ r.op = "propose" => r.team \in Seq(0 .. Stranger)
      /\ r.op = "vote" => r.choice \in {"approve", "reject"}
      /\ r.op = "act" => r.choice \in {"success", "fail"}
  BY PlayerInputsAssumption DEF RequestType
<1>1. CASE r.op = "begin"
  BY <1>1, BeginSound DEF Accepts, Outcome
<1>2. CASE r.op = "propose"
  BY <1>0, <1>2, ProposeSound DEF Accepts, Outcome
<1>3. CASE r.op = "vote"
  BY <1>0, <1>3, VoteSound DEF Accepts, Outcome
<1>4. CASE r.op = "closeVote"
  BY <1>4, CloseVoteSound DEF Accepts, Outcome
<1>5. CASE r.op = "act"
  BY <1>0, <1>5, ActSound DEF Accepts, Outcome
<1>6. CASE r.op = "closeQuest"
  BY <1>6, CloseQuestSound DEF Accepts, Outcome
<1>7. CASE r.op = "kill"
  BY <1>7, KillSound DEF Accepts, Outcome
<1>8. CASE r.op = "handover"
  BY <1>8, HandoverSound DEF Accepts, Outcome
<1>9. CASE r.op \in {"online", "offline"}
  BY <1>0, <1>9, RoamSound DEF Outcome
<1> QED
  BY <1>1, <1>2, <1>3, <1>4, <1>5, <1>6, <1>7, <1>8, <1>9
     DEF RequestType, Ops

\* The variables that play no part in the fence.
SideType ==
  /\ active \in BOOLEAN
  /\ lock \in Handlers \cup {Free, Orphan, Ender}
  /\ snap \in [Handlers -> GameState \cup {NoGame}]
  /\ endPc \in {"idle", "queued", "locked", "release", "done"}
  /\ faults \in 0 .. MaxFaults

StoreInv == ServiceInv /\ SideType /\ Sound(store)

LEMMA InitSide == Init => SideType /\ Sound(store)
BY StartsAssumption, MaxFaultsAssumption DEF Init, SideType

\* A handler's step gives it at most the stored game or nothing to look at.
LEMMA SideSteps ==
  ASSUME SideType, store \in GameState, [Next]_vars
  PROVE  SideType'
<1> USE DEF SideType
<1>0. faults < MaxFaults => faults + 1 \in 0 .. MaxFaults
  BY MaxFaultsAssumption
<1>1. ASSUME NEW h \in Handlers,
             ReceiveAny(h) \/ Acquire(h) \/ Commit(h) \/ LockLost(h) \/ Check(h)
      PROVE  SideType'
  <2>1. CASE ReceiveAny(h)
    BY <2>1 DEF ReceiveAny, ReceiveBegin, ReceivePropose, ReceiveVote,
       ReceiveAct, ReceiveKill, ReceiveHandover, ReceiveRoam, Receive
  <2>2. CASE Acquire(h)
    BY <2>2 DEF Acquire
  <2>3. CASE Commit(h) \/ LockLost(h)
    BY <2>3 DEF Commit, LockLost
  <2>4. CASE Check(h)
    BY <2>4 DEF Check
  <2> QED
    BY <1>1, <2>1, <2>2, <2>3, <2>4
<1>2. ASSUME NEW h \in Handlers, Read(h)
      PROVE  SideType'
  <2>1. Visible \in GameState \cup {NoGame}
    BY DEF Visible
  <2> QED
    BY <1>2, <2>1 DEF Read
<1>3. ASSUME NEW h \in Handlers, Release(h) \/ ReleaseFails(h)
      PROVE  SideType'
  BY <1>0, <1>3 DEF Release, ReleaseFails, Leave, Fault
<1>4. ASSUME NEW h \in Handlers,
             LockBusy(h) \/ ReadFails(h) \/ CommitUnacked(h) \/ CheckFails(h)
      PROVE  SideType'
  BY <1>0, <1>4 DEF LockBusy, ReadFails, CommitUnacked, CheckFails, Fault
<1>5. CASE EndGame \/ EndStep \/ EndFails
  BY <1>0, <1>5
     DEF EndGame, EndStep, EndAcquire, EndDelete, EndRelease, EndFails, Fault
<1>6. CASE EvictOrphan \/ LeaseExpires
  BY <1>0, <1>6 DEF EvictOrphan, LeaseExpires, Evict, Fault
<1>7. ASSUME NEW i \in Processes, Crash(i)
      PROVE  SideType'
  BY <1>0, <1>7 DEF Crash, Fault
<1>8. CASE UNCHANGED vars
  BY <1>8 DEF vars
<1> QED
  BY <1>1, <1>2, <1>3, <1>4, <1>5, <1>6, <1>7, <1>8
     DEF Next, Failure, Step, Section

LEMMA StoreStep == StoreInv /\ [Next]_vars => StoreInv'
<1> SUFFICES ASSUME StoreInv, [Next]_vars PROVE StoreInv'
  OBVIOUS
<1>1. ServiceInv' /\ Stored
  BY ServiceStep DEF StoreInv
<1>2. SideType'
  BY SideSteps DEF StoreInv, Sound, Core
<1>3. Sound(store')
  BY <1>1, AcceptedSound DEF StoreInv, Stored
<1> QED
  BY <1>1, <1>2, <1>3 DEF StoreInv

\* Whatever expires, fails, crashes or races: the game that Redis holds has
\* the type of a game, scores, round and verdict that agree, a quest only
\* with the mandate of the table, a history that accounts for the scores,
\* and until it is finished a move that the engine accepts.
THEOREM StoredGameIsSound ==
  Spec => [](/\ TypeOK
             /\ Stands(store) /\ Justified(store) /\ Ledger(store)
             /\ Mandate(store) /\ Movable(store))
<1>1. Init => StoreInv
  BY InitHolds, InitSide DEF StoreInv
<1>2. StoreInv => TypeOK
  BY DEF StoreInv, ServiceInv, CoreType, SideType, TypeOK, Sound, Core
<1>3. StoreInv => /\ Stands(store) /\ Justified(store) /\ Ledger(store)
                  /\ Mandate(store) /\ Movable(store)
  BY MandateHolds, NobodyStuck DEF StoreInv, Sound, Core
<1> QED
  BY <1>1, <1>2, <1>3, StoreStep, PTL DEF Spec

\* What the engine makes of an accepted request is a step forward.
LEMMA AcceptedForward ==
  ASSUME NEW g, Sound(g), NEW r \in RequestType, Accepts(g, r)
  PROVE  Forward(g, Outcome(g, r))
<1>0. /\ r.by \in Players
      /\ r.op = "propose" => r.team \in Seq(0 .. Stranger)
      /\ r.op = "vote" => r.choice \in {"approve", "reject"}
      /\ r.op = "act" => r.choice \in {"success", "fail"}
  BY PlayerInputsAssumption DEF RequestType
<1>1. CASE r.op = "begin"
  BY <1>1, BeginForward DEF Accepts, Outcome
<1>2. CASE r.op = "propose"
  BY <1>0, <1>2, ProposeForward DEF Accepts, Outcome
<1>3. CASE r.op = "vote"
  BY <1>0, <1>3, VoteForward DEF Accepts, Outcome
<1>4. CASE r.op = "closeVote"
  BY <1>4, CloseVoteForward DEF Accepts, Outcome
<1>5. CASE r.op = "act"
  BY <1>0, <1>5, ActForward DEF Accepts, Outcome
<1>6. CASE r.op = "closeQuest"
  BY <1>6, CloseQuestForward DEF Accepts, Outcome
<1>7. CASE r.op = "kill"
  BY <1>7, KillForward DEF Accepts, Outcome
<1>8. CASE r.op = "handover"
  BY <1>8, HandoverForward DEF Accepts, Outcome
<1>9. CASE r.op \in {"online", "offline"}
  BY <1>0, <1>9, RoamForward DEF Outcome
<1> QED
  BY <1>1, <1>2, <1>3, <1>4, <1>5, <1>6, <1>7, <1>8, <1>9
     DEF RequestType, Ops

\* Whatever expires, fails, crashes or races: a verdict that was stored is
\* final, a quest once stored is neither rewritten nor scored again, and every
\* write but those to the player list uses up a move, so that retries and
\* duplicate requests never send a stored game round in circles.
THEOREM StoredGameMovesOn == Spec => [][Forward(store, store')]_store
<1>1. Init => StoreInv
  BY InitHolds, InitSide DEF StoreInv
<1>2. StoreInv /\ [Next]_vars => [Forward(store, store')]_store
  BY ServiceStep, AcceptedForward DEF StoreInv, Stored
<1> QED
  BY <1>1, <1>2, StoreStep, PTL DEF Spec
-----------------------------------------------------------------------------
(* The write of an accepted request is a step of the abstract game.  Its   *)
(* operators are the engine's own, reached through the instance.           *)

LEMMA SameLibrary ==
  /\ \A S : Game!Cardinality(S) = Cardinality(S)
  /\ \A f : Game!Range(f) = Range(f)
  /\ \A f : Game!IsInjective(f) <=> IsInjective(f)
<1>1. \A S : Game!Cardinality(S) = Cardinality(S)
  BY DEF Game!Cardinality, Cardinality
<1>2. \A f : Game!Range(f) = Range(f)
  BY DEF Game!Range, Range
<1>3. \A f : Game!IsInjective(f) <=> IsInjective(f)
  BY DEF Game!IsInjective, IsInjective
<1> QED
  BY <1>1, <1>2, <1>3

LEMMA SameSets ==
  /\ Game!Players = Players /\ Game!Stranger = Stranger
  /\ Game!Good = Good /\ Game!Evil = Evil /\ Game!NoVotes = NoVotes
  /\ Game!HasAssassin <=> HasAssassin
<1>1. Game!Players = Players
  BY DEF Game!Players, Players
<1>2. Game!Good = Good /\ (Game!HasAssassin <=> HasAssassin)
  BY <1>1 DEF Game!Good, Good, Game!HasAssassin, HasAssassin,
              Game!GoodRoles, GoodRoles
<1>3. Game!Evil = Evil
  BY <1>1, <1>2 DEF Game!Evil, Evil
<1>4. Game!NoVotes = NoVotes
  BY <1>1 DEF Game!NoVotes, NoVotes
<1>5. Game!Stranger = Stranger
  BY DEF Game!Stranger, Stranger
<1> QED
  BY <1>1, <1>2, <1>3, <1>4, <1>5

LEMMA SameCounts ==
  /\ \A b : Game!Cast(b) = Cast(b)
  /\ \A b, k : Game!Count(b, k) = Count(b, k)
  /\ \A i : Game!RotateLeader(i) = RotateLeader(i)
  /\ \A i : Game!QuestTeamSize(i) = QuestTeamSize(i)
  /\ \A i : Game!RequiredFailCount(i) = RequiredFailCount(i)
<1>1. \A b : Game!Cast(b) = Cast(b)
  BY SameSets DEF Game!Cast, Cast
<1>2. \A b, k : Game!Count(b, k) = Count(b, k)
  BY SameSets, SameLibrary DEF Game!Count, Count
<1>3. \A i : Game!RotateLeader(i) = RotateLeader(i)
  BY DEF Game!RotateLeader, RotateLeader
<1>4. \A i : Game!QuestTeamSize(i) = QuestTeamSize(i)
  BY DEF Game!QuestTeamSize, QuestTeamSize, Game!QUEST_CONFIGS, QUEST_CONFIGS
<1>5. \A i : Game!RequiredFailCount(i) = RequiredFailCount(i)
  BY DEF Game!RequiredFailCount, RequiredFailCount
<1> QED
  BY <1>1, <1>2, <1>3, <1>4, <1>5

LEMMA SameTests ==
  ASSUME NEW g, NEW p, NEW q
  PROVE  /\ Game!CanBeginGame(g, p) <=> CanBeginGame(g, p)
         /\ Game!CanProposeTeam(g, p, q) <=> CanProposeTeam(g, p, q)
         /\ Game!CanSubmitTeamVote(g, p) <=> CanSubmitTeamVote(g, p)
         /\ Game!CanResolveTeamVote(g) <=> CanResolveTeamVote(g)
         /\ Game!CanSubmitQuestAction(g, p, q) <=>
              CanSubmitQuestAction(g, p, q)
         /\ Game!CanResolveQuest(g) <=> CanResolveQuest(g)
         /\ Game!CanAssassinate(g, p, q) <=> CanAssassinate(g, p, q)
         /\ Game!CanUpdateHost(g, p) <=> CanUpdateHost(g, p)
<1>1. Game!CanBeginGame(g, p) <=> CanBeginGame(g, p)
  BY DEF Game!CanBeginGame, CanBeginGame
<1>2. Game!CanProposeTeam(g, p, q) <=> CanProposeTeam(g, p, q)
  BY SameSets, SameCounts, SameLibrary
     DEF Game!CanProposeTeam, CanProposeTeam, Game!NoDuplicates, NoDuplicates
<1>3. Game!CanSubmitTeamVote(g, p) <=> CanSubmitTeamVote(g, p)
  BY SameSets DEF Game!CanSubmitTeamVote, CanSubmitTeamVote
<1>4. Game!CanResolveTeamVote(g) <=> CanResolveTeamVote(g)
  BY SameSets, SameCounts
     DEF Game!CanResolveTeamVote, CanResolveTeamVote, Game!AllVoted, AllVoted
<1>5. Game!CanSubmitQuestAction(g, p, q) <=> CanSubmitQuestAction(g, p, q)
  BY SameSets, SameLibrary DEF Game!CanSubmitQuestAction, CanSubmitQuestAction
<1>6. Game!CanResolveQuest(g) <=> CanResolveQuest(g)
  BY SameSets, SameCounts, SameLibrary
     DEF Game!CanResolveQuest, CanResolveQuest, Game!AllActed, AllActed
<1>7. Game!CanAssassinate(g, p, q) <=> CanAssassinate(g, p, q)
  BY SameSets DEF Game!CanAssassinate, CanAssassinate
<1>8. Game!CanUpdateHost(g, p) <=> CanUpdateHost(g, p)
  BY SameSets DEF Game!CanUpdateHost, CanUpdateHost
<1> QED
  BY <1>1, <1>2, <1>3, <1>4, <1>5, <1>6, <1>7, <1>8

LEMMA SameMoves ==
  ASSUME NEW g, NEW p, NEW q
  PROVE  /\ Game!BeginGame(g) = BeginGame(g)
         /\ Game!ProposeTeam(g, q) = ProposeTeam(g, q)
         /\ Game!SubmitTeamVote(g, p, q) = SubmitTeamVote(g, p, q)
         /\ Game!SubmitQuestAction(g, p, q) = SubmitQuestAction(g, p, q)
         /\ Game!Assassinate(g, p) = Assassinate(g, p)
         /\ Game!UpdateHost(g, p) = UpdateHost(g, p)
         /\ Game!MarkPlayer(g, p, q) = MarkPlayer(g, p, q)
<1>1. /\ Game!BeginGame(g) = BeginGame(g)
      /\ Game!UpdateHost(g, p) = UpdateHost(g, p)
  BY DEF Game!BeginGame, BeginGame, Game!UpdateHost, UpdateHost
<1>2. Game!ProposeTeam(g, q) = ProposeTeam(g, q)
  BY SameSets DEF Game!ProposeTeam, ProposeTeam
<1>3. /\ Game!SubmitTeamVote(g, p, q) = SubmitTeamVote(g, p, q)
      /\ Game!SubmitQuestAction(g, p, q) = SubmitQuestAction(g, p, q)
  BY DEF Game!SubmitTeamVote, SubmitTeamVote,
         Game!SubmitQuestAction, SubmitQuestAction
<1>4. Game!Assassinate(g, p) = Assassinate(g, p)
  BY DEF Game!Assassinate, Assassinate, Game!Finish, Finish
<1>5. Game!MarkPlayer(g, p, q) = MarkPlayer(g, p, q)
  BY SameSets DEF Game!MarkPlayer, MarkPlayer
<1> QED
  BY <1>1, <1>2, <1>3, <1>4, <1>5

LEMMA SameVote ==
  ASSUME NEW g PROVE Game!ResolveTeamVote(g) = ResolveTeamVote(g)
<1>1. Game!Approved(g) <=> Approved(g)
  BY SameCounts DEF Game!Approved, Approved
<1>2. Game!StartQuest(g) = StartQuest(g)
  BY SameSets DEF Game!StartQuest, StartQuest
<1>3. Game!FinishRejected(g) = FinishRejected(g)
  BY DEF Game!FinishRejected, FinishRejected
<1>4. Game!NextLeader(g) = NextLeader(g)
  BY SameSets, SameCounts DEF Game!NextLeader, NextLeader
<1>5. Game!MaxRejected = MaxRejected
  BY DEF Game!MaxRejected, MaxRejected
<1> QED
  BY <1>1, <1>2, <1>3, <1>4, <1>5
     DEF Game!ResolveTeamVote, ResolveTeamVote

LEMMA SameQuest ==
  ASSUME NEW g PROVE Game!ResolveQuest(g) = ResolveQuest(g)
<1>1. Game!QuestSucceeds(g) = QuestSucceeds(g)
  BY SameCounts DEF Game!QuestSucceeds, QuestSucceeds
<1>2. Game!ScoreQuest(g) = ScoreQuest(g)
  BY <1>1, SameCounts DEF Game!ScoreQuest, ScoreQuest
<1>3. ASSUME NEW s PROVE Game!ClearTable(s) = ClearTable(s)
  BY SameSets, SameCounts DEF Game!ClearTable, ClearTable
<1>4. ASSUME NEW s, NEW w, NEW e
      PROVE  Game!Finish(s, w, e) = Finish(s, w, e)
  BY DEF Game!Finish, Finish
<1>5. Game!RoundsToWin = RoundsToWin
  BY DEF Game!RoundsToWin, RoundsToWin
<1>6. ASSUME NEW s PROVE Game!AfterQuest(s) = AfterQuest(s)
  BY <1>3, <1>4, <1>5, SameSets DEF Game!AfterQuest, AfterQuest
<1> QED
  BY <1>2, <1>6 DEF Game!ResolveQuest, ResolveQuest
-----------------------------------------------------------------------------
LEMMA AcceptedIsAStep ==
  ASSUME NEW r \in RequestType, Accepts(store, r), store' = Outcome(store, r)
  PROVE  Game!Next
<1>0. /\ r.by \in Players
      /\ r.op \in {"begin", "handover"} => r.by \in Hosts
      /\ r.op = "propose" => r.team \in Proposals
      /\ r.op = "vote" => r.choice \in Votes[r.by]
      /\ r.op = "act" => r.choice \in Tickets[r.by]
      /\ r.op = "kill" => r.target \in Players
      /\ r.op \in {"online", "offline"} => r.by \in Roamers
  BY DEF RequestType
<1>1. CASE r.op = "begin"
  BY <1>0, <1>1, SameTests, SameMoves
     DEF Accepts, Outcome, Game!Begin, Game!Next, Game!Progress
<1>2. CASE r.op = "propose"
  BY <1>0, <1>2, SameTests, SameMoves, SameSets
     DEF Accepts, Outcome, Game!Propose, Game!Next, Game!Progress
<1>3. CASE r.op = "vote"
  BY <1>0, <1>3, SameTests, SameMoves, SameSets
     DEF Accepts, Outcome, Game!Vote, Game!Next, Game!Progress
<1>4. CASE r.op = "closeVote"
  BY <1>4, SameTests, SameVote
     DEF Accepts, Outcome, Game!CloseVote, Game!Next, Game!Progress
<1>5. CASE r.op = "act"
  BY <1>0, <1>5, SameTests, SameMoves, SameSets
     DEF Accepts, Outcome, Game!Act, Game!Next, Game!Progress
<1>6. CASE r.op = "closeQuest"
  BY <1>6, SameTests, SameQuest
     DEF Accepts, Outcome, Game!CloseQuest, Game!Next, Game!Progress
<1>7. CASE r.op = "kill"
  BY <1>0, <1>7, SameTests, SameMoves, SameSets
     DEF Accepts, Outcome, Game!Kill, Game!Next, Game!Progress
<1>8. CASE r.op = "handover"
  BY <1>0, <1>8, SameTests, SameMoves
     DEF Accepts, Outcome, Game!Handover, Game!Next
<1>9. CASE r.op \in {"online", "offline"}
  <2>1. PICK b \in BOOLEAN : store' = MarkPlayer(store, r.by, b)
    BY <1>9 DEF Outcome
  <2>2. store' = Game!MarkPlayer(store, r.by, b)
    BY <2>1, SameMoves
  <2> QED
    BY <1>0, <1>9, <2>2 DEF Game!Roam, Game!Next
<1> QED
  BY <1>1, <1>2, <1>3, <1>4, <1>5, <1>6, <1>7, <1>8, <1>9
     DEF RequestType, Ops

\* Every change of the stored game is one engine step from the state it
\* replaces: no vote, no ticket, no host and no connection flag is lost by a
\* whole-record write, and nothing is resolved twice.
THEOREM EveryWriteIsAMove == Spec => ImplementsStep
<1>1. Init => ServiceInv
  BY InitHolds
<1>2. ServiceInv /\ [Next]_vars => ServiceInv'
  BY ServiceStep
<1>3. ServiceInv /\ [Next]_vars => [store' # store => Game!Next]_store
  BY ServiceStep, AcceptedIsAStep DEF Stored
<1> QED
  BY <1>1, <1>2, <1>3, PTL DEF Spec, ImplementsStep

\* Played from the deal, the service implements the abstract game.
THEOREM ServiceIsAGame ==
  ASSUME \A g \in Starts : \E leader \in Players, host \in Hosts :
           g = CreateInitialState(leader, host)
  PROVE  Spec => ImplementsGame
<1>1. Init => ServiceInv
  BY InitHolds
<1>2. ServiceInv /\ [Next]_vars => ServiceInv'
  BY ServiceStep
<1>3. ServiceInv /\ [Next]_vars => [Game!Next]_store
  BY ServiceStep, AcceptedIsAStep DEF Stored
<1>4. Init => Game!Init
  <2>1. \A leader, host : Game!CreateInitialState(leader, host)
                             = CreateInitialState(leader, host)
    BY SameSets DEF Game!CreateInitialState, CreateInitialState
  <2> QED
    BY <2>1, SameSets DEF Init, Game!Init
<1> QED
  BY <1>1, <1>2, <1>3, <1>4, PTL DEF Spec, ImplementsGame, Game!Spec
=============================================================================
