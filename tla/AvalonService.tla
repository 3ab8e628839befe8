---------------------------- MODULE AvalonService ----------------------------
(***************************************************************************)
(* The server side of one running game: the gateway's message handlers     *)
(* (avalon.gateway.ts), the service methods they call (avalon.service.ts)  *)
(* and the Redis lock and fenced writes under them (redis.service.ts).     *)
(*                                                                         *)
(* A handler runs one or more critical sections.  A section waits for its  *)
(* turn in the promise chain its process keeps for the room, takes the     *)
(* Redis lock, reads the state, lets the engine decide, writes the result  *)
(* while Redis still knows its token, and releases the lock.  A team vote  *)
(* or a quest ticket is followed by an unlocked look at the state and, if  *)
(* that was the last one, by a section that resolves the vote or quest.    *)
(*                                                                         *)
(* The environment may cost up to MaxFaults faults: a lease that expires   *)
(* under its holder, a lock that is not released, a wait for the lock that *)
(* times out, a read that throws, a write whose reply is lost, a crash.    *)
(*                                                                         *)
(* A definition named Wrong... is a slip the code could have made; it is   *)
(* used by no action and stands beside the definition it would replace.    *)
(***************************************************************************)
EXTENDS GameSoundness

CONSTANTS
  Proposals, Votes, Tickets, Roamers, Hosts,   \* inputs, as in AvalonGame
  Kills,        \* inputs: the <<caller, target>> pairs of assassinations
  Starts,       \* game states a run starts from
  Handlers,     \* concurrent message handlers
  Processes,    \* server processes
  Homes,        \* ways to spread the handlers over the processes
  Ender,        \* the token of endGame's own critical section
  Free,         \* the lock key is absent
  Orphan,       \* the lock key holds a token nobody will release
  NoGame,       \* getGameState returned null
  MaxFaults     \* bound on the faults of a run

ASSUME PlayerInputsAssumption ==
  /\ Proposals \subseteq Seq(0 .. Stranger)
  /\ Hosts \cup Roamers \subseteq Players
  /\ \A p \in Players : /\ Votes[p] \subseteq {"approve", "reject"}
                       /\ Tickets[p] \subseteq {"success", "fail"}
ASSUME KillsAssumption == Kills \subseteq Players \X Players
ASSUME HomesAssumption == Homes \subseteq [Handlers -> Processes]
ASSUME StartsAssumption == \A g \in Starts : Sound(g)
ASSUME MaxFaultsAssumption == MaxFaults \in Nat
ASSUME TokenAssumption ==
  /\ Free # Orphan /\ Ender \notin {Free, Orphan}
  /\ Handlers \cap {Free, Orphan, Ender} = {}
  /\ NoGame \notin GameState

VARIABLES
  store,     \* the game in Redis (its last value once deleted)
  present,   \* the Redis key avalon:<code>:state exists
  active,    \* isActiveGameGeneration: the DB still plays this generation
  lock,      \* the token in lock:avalon:<code>:state
  roomChains, \* per process, the handlers in the room's promise chain
  roomLeases, \* per process, the lease saveGameState will use for the room
  home,      \* the process each handler runs in
  pc, req, snap,  \* per handler: position, current request, state read
  endPc,     \* position of endGame
  faults     \* faults so far

vars == <<store, present, active, lock, roomChains, roomLeases, home, pc, req,
          snap, endPc, faults>>

Game == INSTANCE AvalonGame WITH game <- store
-----------------------------------------------------------------------------
(* Requests.  "then" is what the gateway does after a section that did not *)
(* fail: answer, look whether everybody has voted or acted, or begin.      *)

Ops == {"begin", "propose", "vote", "closeVote", "act", "closeQuest", "kill",
        "handover", "online", "offline"}

Request(op, by, then) ==
  [team |-> <<>>, op |-> op, by |-> by, then |-> then, choice |-> "none",
   target |-> Stranger]

RequestType ==
  {r \in [team : Proposals \cup {<<>>},
          op : Ops, by : Players, then : {"answer", "check", "begin"},
          choice : {"approve", "reject", "success", "fail", "none"},
          target : Players \cup {Stranger}] :
     /\ r.op \in {"begin", "handover"} => r.by \in Hosts
     /\ r.op = "propose" => r.team \in Proposals
     /\ r.op = "vote" => r.choice \in Votes[r.by]
     /\ r.op = "act" => r.choice \in Tickets[r.by]
     /\ r.op = "kill" => r.target \in Players
     /\ r.op \in {"online", "offline"} => r.by \in Roamers
     /\ r.then = "begin" => r.by \in Hosts}

WrongAccepts(g, r) ==
  \/ r.op = "begin"   /\ CanBeginGame(g, r.by)
  \/ r.op = "propose" /\ CanProposeTeam(g, r.by, r.team)
  \/ r.op = "vote"    /\ CanSubmitTeamVote(g, r.by)
  \/ r.op = "act"     /\ CanSubmitQuestAction(g, r.by, r.choice)
  \/ r.op = "kill"    /\ CanAssassinate(g, r.by, r.target)
  \/ r.op \in {"closeVote", "closeQuest", "handover", "online", "offline"}

Accepts(g, r) ==
  \/ r.op = "begin"      /\ CanBeginGame(g, r.by)
  \/ r.op = "propose"    /\ CanProposeTeam(g, r.by, r.team)
  \/ r.op = "vote"       /\ CanSubmitTeamVote(g, r.by)
  \/ r.op = "closeVote"  /\ CanResolveTeamVote(g)
  \/ r.op = "act"        /\ CanSubmitQuestAction(g, r.by, r.choice)
  \/ r.op = "closeQuest" /\ CanResolveQuest(g)
  \/ r.op = "kill"       /\ CanAssassinate(g, r.by, r.target)
  \/ r.op = "handover"   /\ CanUpdateHost(g, r.by)
  \/ r.op \in {"online", "offline"}

Outcome(g, r) ==
  CASE r.op = "begin"      -> BeginGame(g)
    [] r.op = "propose"    -> ProposeTeam(g, r.team)
    [] r.op = "vote"       -> SubmitTeamVote(g, r.by, r.choice)
    [] r.op = "closeVote"  -> ResolveTeamVote(g)
    [] r.op = "act"        -> SubmitQuestAction(g, r.by, r.choice)
    [] r.op = "closeQuest" -> ResolveQuest(g)
    [] r.op = "kill"       -> Assassinate(g, r.target)
    [] r.op = "handover"   -> UpdateHost(g, r.by)
    [] r.op = "online"     -> MarkPlayer(g, r.by, TRUE)
    [] OTHER               -> MarkPlayer(g, r.by, FALSE)

\* getGameState: null unless the key exists and its generation is active.
Visible == IF present /\ active THEN store ELSE NoGame
-----------------------------------------------------------------------------
Init ==
  /\ store \in Starts /\ present = TRUE /\ active = TRUE
  /\ lock = Free /\ home \in Homes
  /\ roomChains = [i \in Processes |-> <<>>]
  /\ roomLeases = [i \in Processes |-> Free]
  /\ pc = [h \in Handlers |-> "idle"]
  /\ req = [h \in Handlers |-> Request("closeVote", 0, "answer")]
  /\ snap = [h \in Handlers |-> NoGame]
  /\ endPc = "idle"
  /\ faults = 0

\* withRoomLock: append to the chain of the room in this process.
Enqueue(h, r) ==
  /\ req' = [req EXCEPT ![h] = r]
  /\ pc' = [pc EXCEPT ![h] = "queued"]
  /\ roomChains' = [roomChains EXCEPT ![home[h]] = Append(@, h)]

\* A message arrives.  Every handler but the ones for a lost socket and a
\* host transfer has seen the room PLAYING (requireActiveMember).
Receive(h, r) ==
  /\ pc[h] = "idle"
  /\ active \/ (r.op \in {"offline", "handover"} /\ r.then = "answer")
  /\ Enqueue(h, r)
  /\ UNCHANGED <<home, store, present, active, lock, roomLeases, snap, endPc,
                 faults>>

ReceiveBegin(h) ==
  \E p \in Hosts : Receive(h, Request("handover", p, "begin"))
ReceivePropose(h) ==
  \E p \in Players, team \in Proposals :
    Receive(h, [Request("propose", p, "answer") EXCEPT !.team = team])
ReceiveVote(h) ==
  \E p \in Players : \E v \in Votes[p] :
    Receive(h, [Request("vote", p, "check") EXCEPT !.choice = v])
ReceiveAct(h) ==
  \E p \in Players : \E a \in Tickets[p] :
    Receive(h, [Request("act", p, "check") EXCEPT !.choice = a])
ReceiveKill(h) ==
  \E k \in Kills :
    Receive(h, [Request("kill", k[1], "answer") EXCEPT !.target = k[2]])
ReceiveHandover(h) ==
  \E p \in Hosts : Receive(h, Request("handover", p, "answer"))
ReceiveRoam(h) ==
  \E p \in Roamers, op \in {"online", "offline"} :
    Receive(h, Request(op, p, "answer"))

ReceiveAny(h) ==
  \/ ReceiveBegin(h) \/ ReceivePropose(h) \/ ReceiveVote(h) \/ ReceiveAct(h)
  \/ ReceiveKill(h) \/ ReceiveHandover(h) \/ ReceiveRoam(h)

WrongTurn(h) == pc[h] = "queued"
Turn(h) == pc[h] = "queued" /\ Head(roomChains[home[h]]) = h

\* SET key token PX ttl NX succeeds; the lease is noted for saveGameState.
Acquire(h) ==
  /\ Turn(h) /\ lock = Free
  /\ lock' = h
  /\ roomLeases' = [roomLeases EXCEPT ![home[h]] = h]
  /\ pc' = [pc EXCEPT ![h] = "locked"]
  /\ UNCHANGED <<home, store, present, active, roomChains, req, snap, endPc,
                 faults>>

\* GET and the generation check; null and the engine's refusals end the
\* section without a write.  updateHost and markPlayer* return quietly on
\* null, so a begin goes on to its second section.
Fail(h) == req' = [req EXCEPT ![h].then = "answer"]

Read(h) ==
  /\ pc[h] = "locked"
  /\ snap' = [snap EXCEPT ![h] = Visible]
  /\ IF Visible # NoGame /\ Accepts(Visible, req[h])
       THEN /\ pc' = [pc EXCEPT ![h] = "decided"]
            /\ UNCHANGED req
       ELSE /\ pc' = [pc EXCEPT ![h] = "release"]
            /\ IF Visible = NoGame /\ req[h].then = "begin"
                 THEN UNCHANGED req ELSE Fail(h)
  /\ UNCHANGED <<home, store, present, active, lock, roomChains, roomLeases,
                 endPc, faults>>

\* saveGameState: setWithLock compares the token of the lease in roomLeases.
WrongUnfenced(h) == roomLeases[home[h]] # Free
Fenced(h) == roomLeases[home[h]] # Free /\ lock = roomLeases[home[h]]

Write(h) ==
  /\ store' = Outcome(snap[h], req[h])
  /\ present' = TRUE

Commit(h) ==
  /\ pc[h] = "decided" /\ Fenced(h)
  /\ Write(h)
  /\ pc' = [pc EXCEPT ![h] = "release"]
  /\ UNCHANGED <<home, active, lock, roomChains, roomLeases, req, snap, endPc,
                 faults>>

\* LOCK_LOST: caught and returned as {error}, or thrown to the gateway.
LockLost(h) ==
  /\ pc[h] = "decided" /\ ~ Fenced(h)
  /\ pc' = [pc EXCEPT ![h] = "release"]
  /\ Fail(h)
  /\ UNCHANGED <<home, store, present, active, lock, roomChains, roomLeases,
                 snap, endPc, faults>>

\* The finally blocks: forget the lease, leave the chain, delete the lock if
\* it still holds this token.  A begin then queues its second section.
Leave(h) ==
  /\ pc[h] = "release"
  /\ roomLeases' = [roomLeases EXCEPT ![home[h]] = Free]
  /\ snap' = [snap EXCEPT ![h] = NoGame]
  /\ IF req[h].then = "begin"
       THEN /\ req' = [req EXCEPT ![h] = Request("begin", req[h].by, "answer")]
            /\ pc' = [pc EXCEPT ![h] = "queued"]
            /\ roomChains' =
                 [roomChains EXCEPT ![home[h]] = Append(Tail(@), h)]
       ELSE /\ pc' = [pc EXCEPT ![h] =
                        IF req[h].then = "check" THEN "check" ELSE "idle"]
            /\ roomChains' = [roomChains EXCEPT ![home[h]] = Tail(@)]
            /\ UNCHANGED req
  /\ UNCHANGED <<home, store, present, active, endPc>>

Release(h) ==
  /\ Leave(h)
  /\ lock' = IF lock = h THEN Free ELSE lock
  /\ UNCHANGED faults

\* isTeamVoteComplete and isQuestComplete read without the lock.
WrongComplete(g, r) ==
  IF r.op = "vote" THEN Cardinality(Cast(g.teamVotes)) = Len(g.proposedTeam)
  ELSE Cast(g.questActions) = Players
Complete(g, r) ==
  IF r.op = "vote" THEN AllVoted(g)
  ELSE Cardinality(Cast(g.questActions)) = Len(g.proposedTeam)

Check(h) ==
  /\ pc[h] = "check"
  /\ IF Visible # NoGame /\ Complete(Visible, req[h])
       THEN Enqueue(h, Request(IF req[h].op = "vote" THEN "closeVote"
                               ELSE "closeQuest", req[h].by, "answer"))
       ELSE /\ pc' = [pc EXCEPT ![h] = "idle"]
            /\ UNCHANGED <<req, roomChains>>
  /\ UNCHANGED <<home, store, present, active, lock, roomLeases, snap, endPc,
                 faults>>
-----------------------------------------------------------------------------
(* RoomService.endGame: the database leaves PLAYING and closes the game    *)
(* record, then the state is deleted under the lock, if it can be had.     *)

EndGame ==
  /\ endPc = "idle" /\ active
  /\ active' = FALSE /\ endPc' = "queued"
  /\ UNCHANGED <<home, store, present, lock, roomChains, roomLeases, pc, req,
                 snap, faults>>
EndAcquire ==
  /\ endPc = "queued" /\ lock = Free
  /\ lock' = Ender /\ endPc' = "locked"
  /\ UNCHANGED <<home, store, present, active, roomChains, roomLeases, pc, req,
                 snap, faults>>
EndDelete ==
  /\ endPc = "locked"
  /\ present' = (present /\ lock # Ender)
  /\ endPc' = "release"
  /\ UNCHANGED <<home, store, active, lock, roomChains, roomLeases, pc, req,
                 snap, faults>>
EndRelease ==
  /\ endPc = "release"
  /\ lock' = IF lock = Ender THEN Free ELSE lock
  /\ endPc' = "done"
  /\ UNCHANGED <<home, store, present, active, roomChains, roomLeases, pc, req,
                 snap, faults>>
EndStep == EndAcquire \/ EndDelete \/ EndRelease
-----------------------------------------------------------------------------
(* Faults. *)

Fault == faults < MaxFaults /\ faults' = faults + 1

\* 40 attempts at the lock fail: LOCK_BUSY is thrown, the section never runs.
WrongLockBusy(h) ==
  /\ Turn(h) /\ lock # Free /\ Fault
  /\ pc' = [pc EXCEPT ![h] = "idle"]
  /\ UNCHANGED <<home, store, present, active, lock, roomChains, roomLeases,
                 req, snap, endPc>>
LockBusy(h) ==
  /\ Turn(h) /\ lock # Free /\ Fault
  /\ pc' = [pc EXCEPT ![h] = "idle"]
  /\ roomChains' = [roomChains EXCEPT ![home[h]] = Tail(@)]
  /\ UNCHANGED <<home, store, present, active, lock, roomLeases, req, snap,
                 endPc>>

\* endGame swallows the same error and leaves the state behind; or its
\* process dies.
EndFails ==
  /\ endPc \in {"queued", "locked", "release"} /\ Fault
  /\ lock' = IF lock = Ender THEN Orphan ELSE lock
  /\ endPc' = "done"
  /\ UNCHANGED <<home, store, present, active, roomChains, roomLeases, pc, req,
                 snap>>

\* Redis evicts a token: one that nobody renews any more, or one whose
\* renewals failed for a whole TTL while its holder carries on.
Evict ==
  /\ lock' = Free
  /\ UNCHANGED <<home, store, present, active, roomChains, roomLeases, pc, req,
                 snap, endPc>>
EvictOrphan  == lock = Orphan /\ Evict /\ UNCHANGED faults
LeaseExpires == lock \notin {Free, Orphan} /\ Fault /\ Evict

\* GET or the generation query throws.
ReadFails(h) ==
  /\ pc[h] = "locked" /\ Fault
  /\ pc' = [pc EXCEPT ![h] = "release"]
  /\ Fail(h)
  /\ UNCHANGED <<home, store, present, active, lock, roomChains, roomLeases,
                 snap, endPc>>

\* Redis performs the write but the reply never arrives: an {error}.
CommitUnacked(h) ==
  /\ pc[h] = "decided" /\ Fenced(h) /\ Fault
  /\ Write(h)
  /\ pc' = [pc EXCEPT ![h] = "release"]
  /\ Fail(h)
  /\ UNCHANGED <<home, active, lock, roomChains, roomLeases, snap, endPc>>

ReleaseFails(h) ==
  /\ Fault /\ Leave(h)
  /\ lock' = IF lock = h THEN Orphan ELSE lock

CheckFails(h) ==
  /\ pc[h] = "check" /\ Fault
  /\ pc' = [pc EXCEPT ![h] = "idle"]
  /\ UNCHANGED <<home, store, present, active, lock, roomChains, roomLeases,
                 req, snap, endPc>>

\* A process dies: its handlers, chain and leases are gone, its token stays.
Crash(i) ==
  /\ Fault
  /\ pc' = [h \in Handlers |-> IF home[h] = i THEN "idle" ELSE pc[h]]
  /\ snap' = [h \in Handlers |-> IF home[h] = i THEN NoGame ELSE snap[h]]
  /\ roomChains' = [roomChains EXCEPT ![i] = <<>>]
  /\ roomLeases' = [roomLeases EXCEPT ![i] = Free]
  /\ lock' = IF \E h \in Handlers : lock = h /\ home[h] = i
             THEN Orphan ELSE lock
  /\ UNCHANGED <<home, store, present, active, req, endPc>>
-----------------------------------------------------------------------------
Section(h) ==
  Acquire(h) \/ Read(h) \/ Commit(h) \/ LockLost(h) \/ Release(h)

Step(h) == Section(h) \/ Check(h)

Failure ==
  \/ \E h \in Handlers : \/ LockBusy(h) \/ ReadFails(h) \/ CommitUnacked(h)
                         \/ ReleaseFails(h) \/ CheckFails(h)
  \/ EndFails \/ LeaseExpires
  \/ \E i \in Processes : Crash(i)

Next ==
  \/ \E h \in Handlers : ReceiveAny(h) \/ Step(h)
  \/ EndGame \/ EndStep \/ EvictOrphan
  \/ Failure

Spec == Init /\ [][Next]_vars

\* Handlers keep running and an expired token is evicted by Redis; nobody
\* has to send a request or to end the game.
FairSpec ==
  /\ Spec
  /\ \A h \in Handlers : WF_vars(Step(h))
  /\ WF_vars(EndStep)
  /\ WF_vars(EvictOrphan)
-----------------------------------------------------------------------------
Running == {"locked", "decided", "release"}

TypeOK ==
  /\ store \in GameState
  /\ present \in BOOLEAN /\ active \in BOOLEAN
  /\ lock \in Handlers \cup {Free, Orphan, Ender}
  /\ roomChains \in [Processes -> Seq(Handlers)]
  /\ roomLeases \in [Processes -> Handlers \cup {Free}]
  /\ pc \in [Handlers -> {"idle", "queued", "check"} \cup Running]
  /\ req \in [Handlers -> RequestType]
  /\ snap \in [Handlers -> GameState \cup {NoGame}]
  /\ endPc \in {"idle", "queued", "locked", "release", "done"}
  /\ home \in [Handlers -> Processes]
  /\ faults \in 0 .. MaxFaults

\* A running section finds its own lease in the process-wide roomLeases map,
\* which is keyed by the room alone: what lets saveGameState look the lease
\* up there is that the promise chain runs one section per process.
OwnLease ==
  \A h \in Handlers :
    pc[h] \in Running =>
      roomLeases[home[h]] = h /\ Head(roomChains[home[h]]) = h

\* A section whose token Redis still knows decides on the current state: no
\* write of another section can have come between its read and its write.
SnapshotCurrent ==
  \A h \in Handlers :
    pc[h] = "decided" /\ lock = h => present /\ snap[h] = store

\* Every change of the stored game is one engine step from the state it
\* replaces (whole-record writes lose no vote, no ticket and no player's
\* connection flag, and no vote or quest is resolved twice).
ImplementsStep == [][store' # store => Game!Next]_store

\* From the start of a game: the service implements the abstract game.
ImplementsGame == Game!Spec

\* endGame's deletion is final: no late write of a handler brings the state
\* of an ended game back.
NoResurrection == [][~ present => ~ present']_vars

\* Once everybody has voted the vote is resolved, once the whole team has
\* acted the quest is resolved, whichever handlers race (each of the last
\* voters looks after its own section, so the last of them sees the others'),
\* unless the game is ended first or a fault strikes.
VotePending  == active /\ store.phase = "team_voting" /\ AllVoted(store)
QuestPending == active /\ store.phase = "quest_action" /\ AllActed(store)
VoteResolved  == VotePending ~> (~ VotePending \/ faults > 0)
QuestResolved == QuestPending ~> (~ QuestPending \/ faults > 0)

\* "When the vote is complete it is resolved and broadcast"
\* (docs/development-guide.md, 7.2), whatever happens to a handler.
VoteAlwaysResolved == VotePending ~> ~ VotePending

\* Every handler comes to an end: a lost lease, an orphaned lock or a failed
\* section never blocks the room's chain for good.
EveryRequestEnds ==
  \A h \in Handlers : pc[h] # "idle" ~> pc[h] = "idle"
=============================================================================
