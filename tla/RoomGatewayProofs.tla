-------------------------- MODULE RoomGatewayProofs --------------------------
(***************************************************************************)
(* The safety of RoomGateway, for any users, sockets, processes, handlers  *)
(* and bounds, whatever crashes or fails and however late an order arrives *)
(* or whether it does, as far as the history variables say it goes.        *)
(*                                                                         *)
(* GatewayInv adds to the properties what carries them.  JobsOK: a handler *)
(* stands where it does with a user, and a join with a socket of that user *)
(* on its own process.  PlacedOK: a place is a connected member's.         *)
(* OrdersPlaced: a process is only sent orders for users it may have, so a *)
(* join order for a user reaches the process the eviction reached.         *)
(* RestoreDue: an eviction that is not late is followed, in its queue, by  *)
(* the join that makes up for it, or by a handler yet to decide; this is   *)
(* what restoreConcurrentMembership is for, and StillHears stands on it.   *)
(*                                                                         *)
(* A step is a handler's (Footprints, HandlerMoves, OrderSteps and         *)
(* MemberSteps say once what it may change), a step Aside, or a crash.     *)
(***************************************************************************)
EXTENDS RoomGateway, MembershipProofs

\* A handler works on a user, a join by a socket on that socket's user and
\* process.
JobOK(h) ==
  /\ pc[h] # "idle" => job[h].user \in Users
  /\ pc[h] \in {"confirm", "subscribe", "recheck", "unsubscribe", "attach"} =>
       job[h].socket \in Sockets
  /\ job[h].socket \in Sockets =>
       /\ Owner[job[h].socket] = job[h].user
       /\ Server[job[h].socket] = job[h].proc
JobsOK == \A h \in Handlers : JobOK(h)

\* A step of the handler h, a step of no handler, and a crash.
HandlerStep(h) ==
  \/ Request(h)
  \/ Step(h)
  \/ Fault /\ Fails(h)
  \/ \E u \in Users, p \in Processes : FireTimer(h, p, u) \/ Sweep(h, u, p)
Aside ==
  \/ \E s \in Sockets : Connect(s)
  \/ \E p \in Processes : Deliver(p) \/ (Fault /\ Lose(p))
  \/ \E u \in Users : Ripen(u)
  \/ OthersAct
  \/ UNCHANGED vars
CrashStep == \E p \in Processes : Fault /\ Crash(p)

\* These are all there are.
LEMMA Steps ==
  [GatewayNext]_vars =>
    Aside \/ CrashStep \/ \E h \in Handlers : HandlerStep(h)
<1> SUFFICES ASSUME [GatewayNext]_vars
             PROVE  Aside \/ CrashStep \/ \E h \in Handlers : HandlerStep(h)
  OBVIOUS
<1>1. ASSUME NEW h \in Handlers, NEW u \in Users, NEW p \in Processes,
             FireTimer(h, p, u) \/ Sweep(h, u, p)
      PROVE  HandlerStep(h)
  BY <1>1 DEF HandlerStep
<1>2. ASSUME NEW h \in Handlers,
             Request(h) \/ Step(h) \/ (Fault /\ Fails(h))
      PROVE  HandlerStep(h)
  BY <1>2 DEF HandlerStep
<1>3. CASE UNCHANGED vars
  BY <1>3 DEF Aside
<1>4. CASE /\ Fault
           /\ \/ \E h \in Handlers : Fails(h)
              \/ \E p \in Processes : Crash(p) \/ Lose(p)
  BY <1>2, <1>4 DEF CrashStep, Aside
<1>5. CASE \E h \in Handlers : Request(h) \/ Step(h)
  BY <1>2, <1>5
<1>6. CASE \E h \in Handlers, u \in Users, p \in Processes :
             FireTimer(h, p, u) \/ Sweep(h, u, p)
  BY <1>1, <1>6
<1>7. CASE \/ \E s \in Sockets : Connect(s)
           \/ \E p \in Processes : Deliver(p)
           \/ \E u \in Users : Ripen(u)
           \/ OthersAct
  BY <1>7 DEF Aside
<1> QED
  BY <1>3, <1>4, <1>5, <1>6, <1>7 DEF GatewayNext

\* What Begin does.
LEMMA BeginIs ==
  ASSUME NEW h \in Handlers, NEW kind, NEW u, NEW s, NEW p, NEW label,
         Begin(h, kind, u, s, p, label)
  PROVE  /\ pc[h] = "idle" /\ pc' = [pc EXCEPT ![h] = label]
         /\ job' = [job EXCEPT ![h] =
                      [kind |-> kind, user |-> u, socket |-> s,
                       proc |-> p, offline |-> u \in away]]
  BY DEF Begin, At, Goto

\* An idle handler's job is a job.
LEMMA IdleTyped == Idle \in JobType
  BY DEF Idle, JobType

\* What Keep makes of the history is of its type.
LEMMA KeepTyped ==
  ASSUME GatewayTypeOK, NEW P \in SUBSET Sockets, NEW S \in SUBSET Sockets,
         NEW G \in SUBSET Users, Keep(P, S, G)
  PROVE  /\ placed' \subseteq Sockets /\ strays' \subseteq Sockets
         /\ ghosts' \subseteq Users
  BY DEF Keep, GatewayTypeOK

\* Every step takes the membership through a step of Membership.
LEMMA MembershipSteps ==
  ASSUME GatewayTypeOK, JobsOK, [GatewayNext]_vars
  PROVE  [Next]_membership
<1>1. CASE Aside
  BY <1>1 DEF Aside, Connect, Deliver, Lose, Ripen, OthersAct, vars, Next
<1>2. CASE CrashStep
  BY <1>2 DEF CrashStep, Crash
<1>3. ASSUME NEW h \in Handlers, Request(h)
      PROVE  [Next]_membership
  BY <1>3 DEF Request, Disconnect, RequestJoin, RequestHttpJoin, RequestLeave,
              KickPlayer, Next
<1>4. ASSUME NEW h \in Handlers, NEW u \in Users, NEW p \in Processes,
             FireTimer(h, p, u) \/ Sweep(h, u, p)
      PROVE  [Next]_membership
  BY <1>4 DEF FireTimer, Sweep, Next
<1>5. ASSUME NEW h \in Handlers, Step(h)
      PROVE  [Next]_membership
  <2>1. job[h].user \in Users
    BY <1>5 DEF Step, At, JobsOK, JobOK
  <2> QED
    BY <1>5, <2>1
       DEF Step, CountDevices, FindRooms, MarkOffline, HandOver, SetTimer,
           ConfirmOnline, Subscribe, Recheck, Unsubscribe, Enter, Attach,
           LeaveRoom, EvictRemoved, CheckRemoved, Restore, EvictAway, Refuse,
           Next
<1>6. ASSUME NEW h \in Handlers, Fails(h)
      PROVE  [Next]_membership
  <2>1. CASE OfflineFails(h)
    <3>1. job[h].user \in Users
      BY <2>1 DEF OfflineFails, Return, Members
    <3> QED
      BY <2>1, <3>1 DEF OfflineFails, Next
  <2> QED
    BY <1>6, <2>1
       DEF Fails, DisconnectFails, RecheckFails, EvictionFails, CheckFails
<1> QED
  BY <1>1, <1>2, <1>3, <1>4, <1>5, <1>6, Steps DEF HandlerStep

\* A step of h moves h, leaves the other handlers as they are, and at most
\* loses sockets.
Footprint(h) ==
  /\ \E l \in Labels : pc' = [pc EXCEPT ![h] = l]
  /\ job' = job \/ \E r : job' = [job EXCEPT ![h] = r]
  /\ conn' \subseteq conn
  /\ \A g \in Handlers \ {h} : pc'[g] = pc[g] /\ job'[g] = job[g]

LEMMA Footprints ==
  ASSUME GatewayTypeOK, NEW h \in Handlers, HandlerStep(h) PROVE Footprint(h)
<1>1. /\ \E l \in Labels : pc' = [pc EXCEPT ![h] = l]
      /\ job' = job \/ \E r : job' = [job EXCEPT ![h] = r]
      /\ conn' \subseteq conn
  BY BeginIs
     DEF GatewayTypeOK, Labels, HandlerStep, Request, Disconnect, RequestJoin,
         RequestHttpJoin, RequestLeave, KickPlayer, FireTimer, Sweep,
         Fails, DisconnectFails, OfflineFails,
         RecheckFails, EvictionFails, CheckFails,
         handlers, sockets, Done, Goto, At,
         Step, CountDevices, FindRooms, MarkOffline, HandOver, SetTimer,
         ConfirmOnline, Subscribe, Recheck, Unsubscribe, Enter, Attach,
         LeaveRoom, EvictRemoved, CheckRemoved, Restore, EvictAway, Refuse
<1> QED
  BY <1>1 DEF Footprint, GatewayTypeOK
-----------------------------------------------------------------------------
\* What the membership does in a step.
LEMMA MembershipMoves ==
  ASSUME MembershipInv, [Next]_membership
  PROVE  /\ seat' \in [Users -> 0 .. MaxSeats]
         /\ Members' = {u \in Users : seat'[u] # 0}
         /\ status = "DELETED" => status' = "DELETED"
<1>1. MembershipInv'
  BY InvNext
<1>2. seat' \in [Users -> 0 .. MaxSeats]
  BY <1>1 DEF MembershipInv, TypeOK
<1>3. status = "DELETED" => status' = "DELETED"
  BY DEF Next, Join, Leave, Kick, Expire, Remove, Delete, Abandon, Depart,
         Return, Transfer, Start, End, UpdateSettings, room, membership
<1> QED
  BY <1>2, <1>3 DEF Members

\* A published order leaves the queues queues, and within their bound.
LEMMA PublishTyped ==
  ASSUME GatewayTypeOK, NEW o \in OrderType, Publish(o)
  PROVE  /\ orders' \in [Processes -> Seq(OrderType)]
         /\ \A p \in Processes : Len(orders'[p]) <= MaxOrders
<1>1. ASSUME NEW p \in Processes
      PROVE  /\ Append(orders[p], o) \in Seq(OrderType)
             /\ Len(Append(orders[p], o)) <= MaxOrders
             /\ orders[p] \in Seq(OrderType) /\ Len(orders[p]) <= MaxOrders
  BY SocketsAssumption DEF GatewayTypeOK, Publish
<1> QED
  BY <1>1 DEF Publish

\* What a step makes of its handler: it begins, ends or goes on.
SocketLabels == {"confirm", "subscribe", "recheck", "unsubscribe", "attach"}
Begun(h) ==
  \E j \in JobType, l \in Labels \ {"idle"} :
    /\ pc[h] = "idle" /\ j.kind # "none" /\ j.user \in Users
    /\ l \in SocketLabels => j.socket \in Sockets
    /\ j.socket \in Sockets =>
         Owner[j.socket] = j.user /\ Server[j.socket] = j.proc
    /\ pc' = [pc EXCEPT ![h] = l] /\ job' = [job EXCEPT ![h] = j]
Ended(h) ==
  pc' = [pc EXCEPT ![h] = "idle"] /\ job' = [job EXCEPT ![h] = Idle]
WentOn(h) ==
  \E l \in Labels \ {"idle"} :
    /\ pc[h] # "idle"
    /\ l \in SocketLabels => pc[h] \in SocketLabels \/ job[h].socket # None
    /\ pc' = [pc EXCEPT ![h] = l] /\ job' = job

LEMMA HandlerMoves ==
  ASSUME GatewayTypeOK, NEW h \in Handlers, HandlerStep(h)
  PROVE  Begun(h) \/ Ended(h) \/ WentOn(h) \/ UNCHANGED handlers
<1>1. ASSUME NEW kind \in {"disconnect", "join", "leave", "kick", "timer",
                           "cron"},
             NEW u \in Users, NEW s \in Sockets \cup {None},
             NEW p \in Processes, NEW l \in Labels \ {"idle"},
             Begin(h, kind, u, s, p, l),
             s # None => Owner[s] = u /\ Server[s] = p,
             l \in SocketLabels => s # None
      PROVE  Begun(h)
  <2> DEFINE j == [kind |-> kind, user |-> u, socket |-> s, proc |-> p,
                   offline |-> u \in away]
  <2>1. j \in JobType /\ j.kind # "none" /\ j.user \in Users
    BY DEF JobType
  <2>2. /\ j.socket \in Sockets =>
             Owner[j.socket] = j.user /\ Server[j.socket] = j.proc
        /\ l \in SocketLabels => j.socket \in Sockets
    BY <1>1, SocketsAssumption
  <2>3. /\ pc[h] = "idle" /\ pc' = [pc EXCEPT ![h] = l]
        /\ job' = [job EXCEPT ![h] = j]
    BY <1>1, BeginIs
  <2> QED
    BY <2>1, <2>2, <2>3 DEF Begun
<1>2. CASE Request(h)
  <2>1. ASSUME NEW s \in Sockets, Disconnect(h, s) \/ RequestJoin(h, s)
        PROVE  Begun(h)
    <3>1. Owner[s] \in Users /\ Server[s] \in Processes /\ s # None
      BY SocketsAssumption
    <3>2. CASE Disconnect(h, s)
      BY <1>1, <3>1, <3>2 DEF Disconnect, Labels, SocketLabels
    <3>3. CASE RequestJoin(h, s)
      <4>1. PICK l \in {"confirm", "enter"} :
              Begin(h, "join", Owner[s], s, Server[s], l)
        BY <3>3 DEF RequestJoin
      <4> QED
        BY <1>1, <3>1, <4>1 DEF Labels
    <3> QED
      BY <2>1, <3>2, <3>3
  <2>2. ASSUME NEW u \in Users, NEW p \in Processes,
               \/ RequestHttpJoin(h, u, p) \/ RequestLeave(h, u, p)
               \/ KickPlayer(h, u, p)
        PROVE  Begun(h)
    BY <1>1, <2>2
       DEF RequestHttpJoin, RequestLeave, KickPlayer, Labels, SocketLabels
  <2> QED
    BY <1>2, <2>1, <2>2 DEF Request
<1>3. ASSUME NEW u \in Users, NEW p \in Processes,
             FireTimer(h, p, u) \/ Sweep(h, u, p)
      PROVE  Begun(h) \/ UNCHANGED handlers
  BY <1>1, <1>3 DEF FireTimer, Sweep, Labels, SocketLabels
<1>4. CASE Step(h)
  BY <1>4
     DEF Step, CountDevices, FindRooms, MarkOffline, HandOver, SetTimer,
         ConfirmOnline, Subscribe, Recheck, Unsubscribe, Enter, Attach,
         LeaveRoom, EvictRemoved, CheckRemoved, Restore, EvictAway, Refuse,
         Ended, WentOn, Done, Goto, At, Labels, SocketLabels
<1>5. CASE Fault /\ Fails(h)
  BY <1>5
     DEF Fails, DisconnectFails, OfflineFails, RecheckFails, EvictionFails,
         CheckFails, Ended, Done, Goto
<1> QED
  BY <1>2, <1>3, <1>4, <1>5 DEF HandlerStep

\* A handler's position and job keep their types, and fit one another.
LEMMA JobTypedNext ==
  ASSUME GatewayTypeOK, JobsOK, NEW h \in Handlers, HandlerStep(h)
  PROVE  /\ job' \in [Handlers -> JobType]
         /\ pc' \in [Handlers -> Labels]
         /\ \A g \in Handlers : pc'[g] = "idle" <=> job'[g] = Idle
         /\ JobsOK'
<1> USE DEF GatewayTypeOK, JobsOK
<1>1. CASE Begun(h)
  <2>1. PICK j \in JobType, l \in Labels \ {"idle"} :
          /\ j.kind # "none" /\ j.user \in Users
          /\ l \in SocketLabels => j.socket \in Sockets
          /\ j.socket \in Sockets =>
               Owner[j.socket] = j.user /\ Server[j.socket] = j.proc
          /\ pc' = [pc EXCEPT ![h] = l] /\ job' = [job EXCEPT ![h] = j]
    BY <1>1 DEF Begun
  <2>2. j # Idle
    BY <2>1 DEF Idle
  <2>3. JobOK(h)'
    BY <2>1 DEF JobOK, SocketLabels
  <2> QED
    BY <2>1, <2>2, <2>3 DEF JobOK
<1>2. CASE Ended(h)
  <2>1. JobOK(h)'
    BY <1>2, SocketsAssumption DEF Ended, JobOK, Idle
  <2> QED
    BY <1>2, <2>1, IdleTyped DEF Ended, JobOK, Labels
<1>3. CASE WentOn(h)
  <2>1. PICK l \in Labels \ {"idle"} :
          /\ pc[h] # "idle"
          /\ l \in SocketLabels =>
               pc[h] \in SocketLabels \/ job[h].socket # None
          /\ pc' = [pc EXCEPT ![h] = l] /\ job' = job
    BY <1>3 DEF WentOn
  <2>2. JobOK(h)'
    BY <2>1 DEF JobOK, SocketLabels, JobType
  <2> QED
    BY <2>1, <2>2 DEF JobOK
<1>4. CASE UNCHANGED handlers
  BY <1>4 DEF handlers, JobOK
<1> QED
  BY <1>1, <1>2, <1>3, <1>4, HandlerMoves
-----------------------------------------------------------------------------
\* Every order of a user whose removal nobody will check any more is late.
MarkedLate(us) ==
  \A p \in Processes :
    orders'[p] = [i \in DOMAIN orders[p] |->
                    IF orders[p][i].user \in us
                    THEN [orders[p][i] EXCEPT !.late = TRUE] ELSE orders[p][i]]

\* The queues grow by an eviction or by a join, or are marked late by a check
\* that finds nobody or fails.
LEMMA OrderSteps ==
  ASSUME GatewayTypeOK, JobsOK, NEW h \in Handlers, HandlerStep(h)
  PROVE  \/ UNCHANGED orders
         \/ /\ EvictRemoved(h)
            /\ Publish([kind |-> "leave", user |-> job[h].user, late |-> FALSE])
         \/ /\ Restore(h)
            /\ Publish([kind |-> "join", user |-> job[h].user, late |-> FALSE])
         \/ /\ EvictAway(h)
            /\ Publish([kind |-> "leave", user |-> job[h].user, late |-> TRUE])
         \/ /\ orders' \in [Processes -> Seq(OrderType)]
            /\ MarkedLate({job[h].user})
<1>1. CASE CheckRemoved(h) \/ CheckFails(h)
  <2>1. CASE CheckRemoved(h) /\ job[h].user \in Members
    BY <2>1 DEF CheckRemoved
  <2>2. CASE NobodyRestores(job[h].user)
    <3> DEFINE late(p) == [i \in DOMAIN orders[p] |->
                             IF orders[p][i].user = job[h].user
                             THEN [orders[p][i] EXCEPT !.late = TRUE]
                             ELSE orders[p][i]]
    <3>1. orders' = [p \in Processes |-> late(p)]
      BY <2>2 DEF NobodyRestores
    <3>2. ASSUME NEW p \in Processes
          PROVE  late(p) \in Seq(OrderType)
      <4>1. orders[p] \in Seq(OrderType)
        BY DEF GatewayTypeOK
      <4>2. /\ DOMAIN orders[p] = 1 .. Len(orders[p]) /\ Len(orders[p]) \in Nat
            /\ \A i \in 1 .. Len(orders[p]) : orders[p][i] \in OrderType
        BY <4>1
      <4>3. \A o \in OrderType : [o EXCEPT !.late = TRUE] \in OrderType
        BY DEF OrderType
      <4> HIDE DEF OrderType
      <4> QED
        BY <4>2, <4>3
    <3>3. orders' \in [Processes -> Seq(OrderType)]
      BY <3>1, <3>2
    <3> QED
      BY <3>1, <3>3 DEF MarkedLate
  <2> QED
    BY <1>1, <2>1, <2>2 DEF CheckRemoved, CheckFails
<1>2. CASE ~ (CheckRemoved(h) \/ CheckFails(h))
  BY <1>2
     DEF HandlerStep, Request, Disconnect, RequestJoin, RequestHttpJoin,
         RequestLeave, KickPlayer, FireTimer, Sweep, Fails, DisconnectFails, OfflineFails,
         RecheckFails, EvictionFails, CheckFails, sockets,
         Step, CountDevices, FindRooms, MarkOffline, HandOver, SetTimer,
         ConfirmOnline, Subscribe, Recheck, Unsubscribe, Enter, Attach,
         LeaveRoom, EvictRemoved, Restore, EvictAway, Refuse
<1> QED
  BY <1>1, <1>2

\* What is in a queue stays there, at its place.
OrdersStay ==
  \A p \in Processes :
    /\ Len(orders[p]) <= Len(orders'[p])
    /\ \A i \in 1 .. Len(orders[p]) :
         /\ orders'[p][i].kind = orders[p][i].kind
         /\ orders'[p][i].user = orders[p][i].user
         /\ orders[p][i].late => orders'[p][i].late

\* Publishing adds to the end.
LEMMA PublishStays ==
  ASSUME GatewayTypeOK, NEW o \in OrderType, Publish(o)
  PROVE  OrdersStay
<1>1. ASSUME NEW p \in Processes
      PROVE  /\ orders[p] \in Seq(OrderType)
             /\ orders'[p] \in {orders[p], Append(orders[p], o)}
  BY DEF GatewayTypeOK, Publish
<1> QED
  BY <1>1 DEF OrdersStay

\* Marking changes nothing else.
LEMMA LateStays ==
  ASSUME GatewayTypeOK, NEW us, MarkedLate(us),
         orders' \in [Processes -> Seq(OrderType)]
  PROVE  OrdersStay /\ \A p \in Processes : Len(orders'[p]) = Len(orders[p])
<1> SUFFICES ASSUME NEW p \in Processes
             PROVE  /\ Len(orders'[p]) = Len(orders[p])
                    /\ \A i \in 1 .. Len(orders[p]) :
                         /\ orders'[p][i].kind = orders[p][i].kind
                         /\ orders'[p][i].user = orders[p][i].user
                         /\ orders[p][i].late => orders'[p][i].late
  BY DEF OrdersStay
<1>1. /\ orders[p] \in Seq(OrderType) /\ orders'[p] \in Seq(OrderType)
      /\ orders'[p] = [i \in DOMAIN orders[p] |->
                         IF orders[p][i].user \in us
                         THEN [orders[p][i] EXCEPT !.late = TRUE]
                         ELSE orders[p][i]]
  BY DEF GatewayTypeOK, MarkedLate
<1>2. Len(orders'[p]) = Len(orders[p])
  <2>1. DOMAIN orders'[p] = DOMAIN orders[p]
    BY <1>1
  <2> QED
    BY <1>1, <2>1
<1>3. ASSUME NEW i \in 1 .. Len(orders[p])
      PROVE  /\ orders'[p][i].kind = orders[p][i].kind
             /\ orders'[p][i].user = orders[p][i].user
             /\ orders[p][i].late => orders'[p][i].late
  <2>1. i \in DOMAIN orders[p] /\ orders[p][i] \in OrderType
    BY <1>1
  <2>2. orders'[p][i] \in {orders[p][i], [orders[p][i] EXCEPT !.late = TRUE]}
    BY <1>1, <2>1
  <2> QED
    BY <2>1, <2>2 DEF OrderType
<1> QED
  BY <1>2, <1>3

\* What a handler's step makes of the queues.
LEMMA OrdersNext ==
  ASSUME GatewayTypeOK, JobsOK, NEW h \in Handlers, HandlerStep(h)
  PROVE  /\ orders' \in [Processes -> Seq(OrderType)]
         /\ \A p \in Processes : Len(orders'[p]) <= MaxOrders
         /\ OrdersStay
<1>1. ASSUME pc[h] # "idle", NEW kind \in {"leave", "join"},
             NEW late \in BOOLEAN
      PROVE  [kind |-> kind, user |-> job[h].user, late |-> late] \in OrderType
  BY <1>1 DEF JobsOK, JobOK, OrderType
<1>2. CASE UNCHANGED orders
  BY <1>2 DEF GatewayTypeOK, OrdersStay
<1>3. CASE /\ EvictRemoved(h)
           /\ Publish([kind |-> "leave", user |-> job[h].user, late |-> FALSE])
  BY <1>1, <1>3, PublishTyped, PublishStays DEF EvictRemoved, At
<1>4. CASE /\ Restore(h)
           /\ Publish([kind |-> "join", user |-> job[h].user, late |-> FALSE])
  BY <1>1, <1>4, PublishTyped, PublishStays DEF Restore, At
<1>5. CASE /\ EvictAway(h)
           /\ Publish([kind |-> "leave", user |-> job[h].user, late |-> TRUE])
  BY <1>1, <1>5, PublishTyped, PublishStays DEF EvictAway, At
<1>6. CASE /\ orders' \in [Processes -> Seq(OrderType)]
           /\ MarkedLate({job[h].user})
  BY <1>6, LateStays DEF GatewayTypeOK
<1> QED
  BY <1>2, <1>3, <1>4, <1>5, <1>6, OrderSteps

\* The rest of the types.
LEMMA RestTypedNext ==
  ASSUME GatewayTypeOK, JobsOK, NEW h \in Handlers, HandlerStep(h)
  PROVE  /\ ripe' \subseteq Users /\ conn' \subseteq Sockets
         /\ subs' \subseteq conn' /\ timers' \in [Processes -> SUBSET Users]
         /\ requests' \in 0 .. MaxRequests /\ faults' \in 0 .. MaxFaults
<1> USE DEF GatewayTypeOK
<1>1. requests' \in 0 .. MaxRequests /\ faults' \in 0 .. MaxFaults
  BY SocketsAssumption
     DEF HandlerStep, Request, Step, Fault, FireTimer, Sweep, bounds
<1>2. ripe' \subseteq Users /\ conn' \subseteq Sockets /\ subs' \subseteq conn'
  BY DEF HandlerStep, Request, Disconnect, RequestJoin, RequestHttpJoin,
         RequestLeave, KickPlayer, FireTimer, Sweep, Fails, DisconnectFails, OfflineFails,
         RecheckFails, EvictionFails, CheckFails, sockets,
         Step, CountDevices, FindRooms, MarkOffline, HandOver, SetTimer,
         ConfirmOnline, Subscribe, Recheck, Unsubscribe, Enter, Attach,
         LeaveRoom, EvictRemoved, CheckRemoved, Restore, EvictAway, Refuse
<1>3. timers' \in [Processes -> SUBSET Users]
  <2>1. CASE SetTimer(h) \/ Subscribe(h)
    <3>1. job[h].user \in Users
      BY <2>1 DEF JobsOK, JobOK, SetTimer, Subscribe, At
    <3> QED
      BY <2>1, <3>1 DEF SetTimer, Subscribe
  <2>2. CASE \E u \in Users, p \in Processes : FireTimer(h, p, u)
    BY <2>2 DEF FireTimer
  <2>3. CASE UNCHANGED timers
    BY <2>3
  <2>4. CASE ~ UNCHANGED timers
    BY <2>1, <2>2, <2>4
       DEF HandlerStep, Request, Disconnect, RequestJoin, RequestHttpJoin,
         RequestLeave, KickPlayer, Sweep, Fails, DisconnectFails, OfflineFails,
         RecheckFails, EvictionFails, CheckFails, sockets,
         Step, CountDevices, FindRooms, MarkOffline, HandOver,
         ConfirmOnline, Recheck, Unsubscribe, Enter, Attach,
         LeaveRoom, EvictRemoved, CheckRemoved, Restore, EvictAway, Refuse
  <2> QED
    BY <2>3, <2>4
<1> QED
  BY <1>1, <1>2, <1>3
-----------------------------------------------------------------------------
\* A place belongs to a connected socket of a member.
PlacedOK == \A s \in placed : s \in conn /\ seat[Owner[s]] # 0

\* What every step keeps of the history.
HistoryKept ==
  /\ \A s \in placed' : s \in conn' /\ seat'[Owner[s]] # 0
  /\ \A s \in strays : s \in subs' /\ seat'[Owner[s]] = 0 => s \in strays'
  /\ \A u \in ghosts :
       seat'[u] # 0 /\ u \notin away' /\ conn' \cap SocketsOf(u) = {} =>
         u \in ghosts'
HistoryTyped ==
  /\ placed' \subseteq Sockets /\ strays' \subseteq Sockets
  /\ ghosts' \subseteq Users

\* Keep keeps it, and so does a step that leaves alone what it depends on.
LEMMA KeepKeeps ==
  ASSUME GatewayTypeOK, NEW P \in SUBSET Sockets, NEW S \in SUBSET Sockets,
         NEW G \in SUBSET Users, Keep(P, S, G)
  PROVE  HistoryKept /\ HistoryTyped
  BY DEF Keep, GatewayTypeOK, HistoryKept, HistoryTyped

LEMMA SameKeeps ==
  ASSUME GatewayTypeOK, PlacedOK, UNCHANGED <<seat, away, conn, history>>
  PROVE  HistoryKept /\ HistoryTyped
  BY DEF GatewayTypeOK, PlacedOK, HistoryKept, HistoryTyped, history

\* So does every step of a handler.
LEMMA HistoryNext ==
  ASSUME GatewayTypeOK, JobsOK, PlacedOK, NEW h \in Handlers, HandlerStep(h)
  PROVE  HistoryKept /\ HistoryTyped
<1>1. ASSUME pc[h] # "idle"
      PROVE  {job[h].user} \subseteq Users
  BY <1>1 DEF JobsOK, JobOK
<1>2. ASSUME pc[h] \in SocketLabels
      PROVE  {job[h].socket} \subseteq Sockets
  BY <1>2 DEF JobsOK, JobOK, SocketLabels
<1>3. CASE Subscribe(h)
  BY <1>2, <1>3, KeepKeeps DEF Subscribe, At, SocketLabels
<1>4. CASE Attach(h)
  BY <1>2, <1>4, KeepKeeps DEF Attach, At, SocketLabels
<1>5. CASE Unsubscribe(h)
  BY <1>5
     DEF Unsubscribe, GatewayTypeOK, PlacedOK, HistoryKept, HistoryTyped,
         membership
<1>6. CASE ConfirmOnline(h)
  <2>1. {job[h].user} \cap Members \subseteq Users
    BY DEF Members
  <2> QED
    BY <1>6, <2>1, KeepKeeps DEF ConfirmOnline
<1>7. CASE Enter(h)
  <2>1. {job[h].user} \ Members \subseteq Users
    BY <1>1, <1>7 DEF Enter, At
  <2> QED
    BY <1>7, <2>1, KeepKeeps DEF Enter
<1>8. CASE Fails(h)
  <2>1. CASE DisconnectFails(h) \/ OfflineFails(h)
    <3>1. {job[h].user} \subseteq Users
      BY <1>1, <2>1 DEF DisconnectFails, OfflineFails, At
    <3> QED
      BY <2>1, <3>1, KeepKeeps DEF DisconnectFails, OfflineFails
  <2>2. CASE RecheckFails(h)
    <3>1. {job[h].socket} \subseteq Sockets
      BY <1>2, <2>2 DEF RecheckFails, At, SocketLabels
    <3> QED
      BY <2>2, <3>1, KeepKeeps DEF RecheckFails
  <2>3. CASE EvictionFails(h)
    <3>1. SocketsOf(job[h].user) \subseteq Sockets
      BY DEF SocketsOf
    <3> QED
      BY <2>3, <3>1, KeepKeeps DEF EvictionFails
  <2>4. CASE CheckFails(h)
    BY <2>4
       DEF CheckFails, GatewayTypeOK, PlacedOK, HistoryKept, HistoryTyped,
           membership
  <2> QED
    BY <1>8, <2>1, <2>2, <2>3, <2>4 DEF Fails
<1>9. ASSUME NEW u \in Users, NEW p \in Processes, FireTimer(h, p, u)
      PROVE  HistoryKept /\ HistoryTyped
  <2>1. SocketsOf(u) \subseteq Sockets
    BY DEF SocketsOf
  <2> QED
    BY <1>9, <2>1, KeepKeeps, SameKeeps DEF FireTimer, membership
<1>10. CASE KeepHistory
  BY <1>10, KeepKeeps DEF KeepHistory
<1>11. CASE UNCHANGED <<membership, conn, history>>
  BY <1>11, SameKeeps DEF membership
<1>12. CASE /\ ~ KeepHistory /\ ~ UNCHANGED <<membership, conn, history>>
            /\ ~ Fails(h)
            /\ ~ \E u \in Users, p \in Processes : FireTimer(h, p, u)
  BY <1>3, <1>4, <1>5, <1>6, <1>7, <1>12
     DEF HandlerStep, Request, Disconnect, RequestJoin, RequestHttpJoin,
         RequestLeave, KickPlayer, Sweep, sockets,
         Step, CountDevices, FindRooms, MarkOffline, HandOver, SetTimer,
         Recheck, LeaveRoom, EvictRemoved, CheckRemoved, Restore, EvictAway,
         Refuse
<1> QED
  BY <1>8, <1>9, <1>10, <1>11, <1>12

\* The type invariant is kept by every step of a handler.
LEMMA HandlerTypeNext ==
  ASSUME MembershipInv, GatewayTypeOK, JobsOK, PlacedOK, NEW h \in Handlers,
         HandlerStep(h), [Next]_membership
  PROVE  GatewayTypeOK' /\ PlacedOK'
<1>1. TypeOK'
  BY InvNext DEF MembershipInv
<1> QED
  BY <1>1, JobTypedNext, OrdersNext, RestTypedNext, HistoryNext
     DEF GatewayTypeOK, PlacedOK, HistoryTyped, HistoryKept
-----------------------------------------------------------------------------
(* Accounted *)

\* The handler of a lost socket that may yet mark its user as away.
Watched(h, u) ==
  job[h].kind = "disconnect" /\ job[h].user = u
  /\ pc[h] \in {"devices", "rooms", "mark"}

\* A handler that looks after a player with no device goes on doing so, or has
\* marked the player as away, found him gone, or is a ghost's.
LEMMA WatchKept ==
  ASSUME GatewayTypeOK, JobsOK, NEW h \in Handlers, HandlerStep(h),
         NEW u \in Users, Watched(h, u)
  PROVE  \/ Watched(h, u)' \/ seat'[u] = 0 \/ u \in away'
         \/ Devices(u) # {} /\ conn' = conn
         \/ u \in ghosts' \/ conn' \cap SocketsOf(u) # {}
<1>1. CASE CountDevices(h)
  BY <1>1
     DEF CountDevices, Watched, GatewayTypeOK, Goto, At, sockets, Devices
<1>2. CASE FindRooms(h)
  BY <1>2
     DEF FindRooms, Watched, GatewayTypeOK, Goto, At, Members, membership
<1>3. CASE MarkOffline(h)
  BY <1>3 DEF MarkOffline, Watched, At, Depart, Members, membership
<1>5. pc[h] \in {"devices", "rooms", "mark"}
  BY DEF Watched
<1>4. CASE Fails(h)
  BY <1>4, <1>5
     DEF Fails, DisconnectFails, OfflineFails, RecheckFails, EvictionFails,
         CheckFails, At, Watched, Keep
<1>6. ~ (Request(h) \/ \E v \in Users, p \in Processes : Sweep(h, v, p))
  BY <1>5, BeginIs
     DEF Request, Disconnect, RequestJoin, RequestHttpJoin, RequestLeave,
         KickPlayer, Sweep
<1>7. ASSUME NEW v \in Users, NEW p \in Processes, FireTimer(h, p, v)
      PROVE  FALSE
  BY <1>5, <1>7, BeginIs DEF FireTimer, At
<1>8. CASE Step(h)
  BY <1>1, <1>2, <1>3, <1>5, <1>8
     DEF Step, HandOver, SetTimer, ConfirmOnline, Subscribe, Recheck,
         Unsubscribe, Enter, Attach, LeaveRoom, EvictRemoved, CheckRemoved,
         Restore, EvictAway, Refuse, At, Watched
<1> QED
  BY <1>4, <1>6, <1>7, <1>8 DEF HandlerStep

\* Removing one player takes nobody else's seat, unless the room goes.
LEMMA RemovedBy ==
  ASSUME TypeOK, NEW u \in Users, NEW v \in Users, Remove(v)
  PROVE  /\ seat'[u] # 0 => seat[u] # 0 /\ (u \in away => u \in away')
         /\ seat[u] # 0 /\ seat'[u] = 0 => u = v \/ status' = "DELETED"
  BY DEF Remove, Delete, TypeOK, Members

\* Who gains a seat, comes back or loses the seat, and by which operation.
LEMMA MemberSteps ==
  ASSUME GatewayTypeOK, JobsOK, NEW h \in Handlers, HandlerStep(h),
         NEW u \in Users
  PROVE  /\ seat[u] = 0 /\ seat'[u] # 0 => Enter(h) /\ u = job[h].user
         /\ u \in away /\ u \notin away' /\ seat'[u] # 0 =>
              /\ ConfirmOnline(h) \/ OfflineFails(h)
              /\ u = job[h].user /\ u \in Members
         /\ seat[u] # 0 /\ seat'[u] = 0 =>
              \/ status' = "DELETED"
              \/ LeaveRoom(h) /\ u = job[h].user /\ Goto(h, "evictRemoved")
              \/ \E p \in Processes :
                   \/ KickPlayer(h, u, p) \/ Sweep(h, u, p)
                   \/ FireTimer(h, p, u) /\ MayExpire(u)
<1> USE DEF GatewayTypeOK
<1>1. CASE LeaveRoom(h)
  <2>1. job[h].user \in Users
    BY <1>1 DEF LeaveRoom, At, JobsOK, JobOK
  <2>2. CASE Leave(job[h].user) /\ Goto(h, "evictRemoved")
    BY <1>1, <2>1, <2>2, RemovedBy DEF Leave
  <2>3. CASE UNCHANGED membership
    BY <2>3 DEF membership
  <2>4. CASE Depart(job[h].user)
    BY <2>4 DEF Depart
  <2> QED
    BY <1>1, <2>2, <2>3, <2>4 DEF LeaveRoom
<1>2. ASSUME NEW v \in Users, NEW p \in Processes,
             KickPlayer(h, v, p) \/ Sweep(h, v, p)
      PROVE  /\ seat'[u] # 0 => seat[u] # 0 /\ (u \in away => u \in away')
             /\ seat[u] # 0 /\ seat'[u] = 0 => u = v \/ status' = "DELETED"
  BY <1>2, RemovedBy DEF KickPlayer, Sweep, Kick, Expire
<1>3. ASSUME NEW v \in Users, NEW p \in Processes, FireTimer(h, p, v)
      PROVE  /\ seat'[u] # 0 => seat[u] # 0 /\ (u \in away => u \in away')
             /\ seat[u] # 0 /\ seat'[u] = 0 =>
                  (u = v /\ MayExpire(u)) \/ status' = "DELETED"
  BY <1>3, RemovedBy DEF FireTimer, Expire, membership
<1>4. CASE Enter(h)
  BY <1>4 DEF Enter, Join, membership, TypeOK, Members
<1>5. CASE ConfirmOnline(h)
  BY <1>5 DEF ConfirmOnline, Return, membership, TypeOK
<1>6. CASE Step(h) /\ ~ (LeaveRoom(h) \/ Enter(h) \/ ConfirmOnline(h))
  BY <1>6
     DEF Step, CountDevices, FindRooms, MarkOffline, HandOver, SetTimer,
         Subscribe, Recheck, Unsubscribe, Attach, EvictRemoved, CheckRemoved,
         Restore, EvictAway, Refuse, membership, Depart, Transfer
<1>7. CASE Fails(h)
  BY <1>7
     DEF Fails, DisconnectFails, OfflineFails, RecheckFails, EvictionFails,
         CheckFails, Return, membership, TypeOK
<1>8. CASE Request(h) /\ ~ \E v \in Users, p \in Processes : KickPlayer(h, v, p)
  BY <1>8
     DEF Request, Disconnect, RequestJoin, RequestHttpJoin, RequestLeave,
         membership
<1> QED
  BY <1>1, <1>2, <1>3, <1>4, <1>5, <1>6, <1>7, <1>8 DEF HandlerStep

\* The devices of a player are lost one by one, each to a handler of its own.
LEMMA DeviceLost ==
  ASSUME GatewayTypeOK, NEW h \in Handlers, HandlerStep(h), NEW u \in Users,
         Devices(u) # {}, conn' \cap SocketsOf(u) = {}
  PROVE  Watched(h, u)'
<1>1. conn' # conn
  BY DEF Devices
<1>2. PICK s \in Sockets : Disconnect(h, s)
  BY <1>1
     DEF HandlerStep, Request, RequestJoin, RequestHttpJoin,
         RequestLeave, KickPlayer, FireTimer, Sweep, Fails, DisconnectFails, OfflineFails,
         RecheckFails, EvictionFails, CheckFails, sockets,
         Step, CountDevices, FindRooms, MarkOffline, HandOver, SetTimer,
         ConfirmOnline, Subscribe, Recheck, Unsubscribe, Enter, Attach,
         LeaveRoom, EvictRemoved, CheckRemoved, Restore, EvictAway, Refuse
<1>3. Owner[s] = u
  BY <1>2 DEF Disconnect, Devices, SocketsOf
<1>4. pc'[h] = "devices" /\ job'[h].kind = "disconnect" /\ job'[h].user = u
  BY <1>2, <1>3, BeginIs DEF Disconnect, GatewayTypeOK
<1> QED
  BY <1>4 DEF Watched

\* Accounted, of one player.
Looked(u) ==
  \/ Devices(u) # {} \/ u \in away \/ u \in ghosts
  \/ \E h \in Handlers : Watched(h, u)

\* Accounted is kept by every step of a handler.
LEMMA AccountedNext ==
  ASSUME MembershipInv, GatewayTypeOK, JobsOK, PlacedOK, Accounted,
         NEW h \in Handlers, HandlerStep(h)
  PROVE  Accounted'
<1> SUFFICES ASSUME NEW u \in Users, seat'[u] # 0
             PROVE  Looked(u)'
  BY DEF Accounted, Looked, Members, Watched
<1>1. CASE conn' \cap SocketsOf(u) # {}
  BY <1>1 DEF Looked, Devices, SocketsOf
<1>2. CASE u \in away'
  BY <1>2 DEF Looked
<1>3. CASE conn' \cap SocketsOf(u) = {} /\ u \notin away'
  <2>1. CASE seat[u] = 0
    <3>1. Enter(h) /\ u = job[h].user /\ u \notin Members
      BY <2>1, MemberSteps DEF Members
    <3>2. u \in ghosts'
      BY <1>3, <3>1 DEF Enter, Keep
    <3> QED
      BY <3>2 DEF Looked
  <2>2. CASE seat[u] # 0
    <3>1. Looked(u)
      BY <2>2 DEF Accounted, Looked, Members, Watched
    <3>2. CASE Devices(u) # {}
      BY <1>3, <3>2, DeviceLost DEF Looked
    <3>3. CASE u \in away
      <4>1. /\ ConfirmOnline(h) \/ OfflineFails(h)
            /\ u = job[h].user /\ u \in Members
        BY <1>3, <3>3, MemberSteps
      <4>2. u \in ghosts'
        BY <1>3, <4>1 DEF ConfirmOnline, OfflineFails, Keep
      <4> QED
        BY <4>2 DEF Looked
    <3>4. CASE u \in ghosts
      BY <1>3, <3>4, HistoryNext DEF HistoryKept, Looked
    <3>5. ASSUME NEW g \in Handlers, Watched(g, u)
          PROVE  Looked(u)'
      <4>1. CASE g # h
        BY <3>5, <4>1, Footprints DEF Footprint, Watched, Looked
      <4>2. CASE g = h
        BY <1>3, <3>5, <4>2, WatchKept DEF Looked, Devices
      <4> QED
        BY <4>1, <4>2
    <3> QED
      BY <3>1, <3>2, <3>3, <3>4, <3>5 DEF Looked
  <2> QED
    BY <2>1, <2>2
<1> QED
  BY <1>1, <1>2, <1>3
-----------------------------------------------------------------------------
(* NoEavesdropper *)

\* NoEavesdropper, of one socket: who is about to silence it, or why nobody is.
Evicting(h, u) == pc[h] = "evictRemoved" /\ job[h].user = u
Checking(h, s) ==
  job[h].socket = s /\ pc[h] \in {"recheck", "unsubscribe"}
Excused(s) ==
  \/ Owner[s] \in Members \/ s \in strays \/ status = "DELETED"
  \/ \E h \in Handlers : Evicting(h, Owner[s])
  \/ Ordered(s, "leave")
  \/ \E h \in Handlers : Checking(h, s)

LEMMA Listeners == NoEavesdropper <=> \A s \in subs : Excused(s)
  BY DEF NoEavesdropper, Excused, Handling, Evicting, Checking

\* Orders are only for users with a socket on the process.
OrdersPlaced ==
  \A p \in Processes : \A i \in 1 .. Len(orders[p]) :
    Here(p) \cap SocketsOf(orders[p][i].user) # {}

\* A published order is the last of the queue of every process with a socket of
\* its user.
LEMMA Published ==
  ASSUME GatewayTypeOK, NEW o \in OrderType, Publish(o), NEW s \in Sockets,
         Owner[s] = o.user
  PROVE  /\ Len(orders'[Server[s]]) = Len(orders[Server[s]]) + 1
         /\ orders'[Server[s]][Len(orders'[Server[s]])] = o
<1>1. Server[s] \in Processes /\ orders[Server[s]] \in Seq(OrderType)
  BY SocketsAssumption DEF GatewayTypeOK
<1>2. s \in Here(Server[s]) \cap SocketsOf(o.user)
  BY DEF Here, SocketsOf
<1>3. orders'[Server[s]] = Append(orders[Server[s]], o)
  BY <1>1, <1>2 DEF Publish
<1> QED
  BY <1>1, <1>3

\* A published order is under way to every socket of its user.
LEMMA OrderedNow ==
  ASSUME GatewayTypeOK, NEW o \in OrderType, Publish(o), NEW s \in Sockets,
         Owner[s] = o.user
  PROVE  Ordered(s, o.kind)'
<1>1. /\ Len(orders'[Server[s]]) = Len(orders[Server[s]]) + 1
      /\ orders'[Server[s]][Len(orders'[Server[s]])] = o
  BY Published
<1>2. /\ Server[s] \in Processes
      /\ orders' \in [Processes -> Seq(OrderType)]
      /\ Len(orders[Server[s]]) \in Nat
  BY PublishTyped, SocketsAssumption DEF GatewayTypeOK
<1>3. Len(orders'[Server[s]]) \in DOMAIN orders'[Server[s]]
  BY <1>1, <1>2
<1> QED
  BY <1>1, <1>3 DEF Ordered

\* It stays under way for as long as only handlers move.
LEMMA OrderedStays ==
  ASSUME GatewayTypeOK, JobsOK, NEW h \in Handlers, HandlerStep(h),
         NEW s \in Sockets, NEW kind, Ordered(s, kind)
  PROVE  Ordered(s, kind)'
<1>1. /\ Server[s] \in Processes
      /\ orders[Server[s]] \in Seq(OrderType)
      /\ orders'[Server[s]] \in Seq(OrderType)
  BY OrdersNext, SocketsAssumption DEF GatewayTypeOK
<1>2. PICK i \in DOMAIN orders[Server[s]] :
        /\ orders[Server[s]][i].kind = kind
        /\ orders[Server[s]][i].user = Owner[s]
  BY DEF Ordered
<1>3. i \in 1 .. Len(orders[Server[s]]) /\ i \in DOMAIN orders'[Server[s]]
  BY <1>1, <1>2, OrdersNext DEF OrdersStay
<1> QED
  BY <1>1, <1>2, <1>3, OrdersNext DEF OrdersStay, Ordered

\* A socket that begins to hear the room is one a join is about to look at
\* again, or has let in for a user who was already gone.
LEMMA NewListener ==
  ASSUME GatewayTypeOK, JobsOK, NEW h \in Handlers, HandlerStep(h),
         NEW s \in Sockets, s \in subs', s \notin subs
  PROVE  Excused(s)'
<1>1. CASE Subscribe(h)
  BY <1>1 DEF Subscribe, At, Goto, Excused, Checking, GatewayTypeOK
<1>2. CASE Attach(h)
  <2>1. s = job[h].socket
    BY <1>2 DEF Attach
  <2>2. seat'[Owner[s]] = 0 => s \in strays'
    BY <1>2, <2>1 DEF Attach, Keep
  <2> QED
    BY <2>2, SocketsAssumption DEF Excused, Members
<1>3. ~ (Subscribe(h) \/ Attach(h)) => subs' \subseteq subs
  BY DEF HandlerStep, Request, Disconnect, RequestJoin, RequestHttpJoin,
         RequestLeave, KickPlayer, FireTimer, Sweep, Fails, DisconnectFails, OfflineFails,
         RecheckFails, EvictionFails, CheckFails, sockets,
         Step, CountDevices, FindRooms, MarkOffline, HandOver, SetTimer,
         ConfirmOnline, Subscribe, Recheck, Unsubscribe, Enter, Attach,
         LeaveRoom, EvictRemoved, CheckRemoved, Restore, EvictAway, Refuse
<1> QED
  BY <1>1, <1>2, <1>3

\* Whoever takes a member out of the room sees to his sockets.
LEMMA RemovedExcused ==
  ASSUME GatewayTypeOK, JobsOK, NEW h \in Handlers, HandlerStep(h),
         NEW s \in Sockets, s \in subs', Owner[s] \in Members
  PROVE  Excused(s)'
<1> DEFINE u == Owner[s]
<1>1. u \in Users
  BY SocketsAssumption
<1>2. CASE seat'[u] # 0
  BY <1>1, <1>2 DEF Excused, Members
<1>3. CASE seat'[u] = 0
  <2>1. CASE status' = "DELETED"
    BY <2>1 DEF Excused
  <2>2. CASE LeaveRoom(h) /\ u = job[h].user /\ Goto(h, "evictRemoved")
    BY <2>2 DEF LeaveRoom, Excused, Evicting, Goto, GatewayTypeOK, Done, Idle
  <2>3. ASSUME NEW p \in Processes, KickPlayer(h, u, p) \/ Sweep(h, u, p)
        PROVE  Excused(s)'
    <3>1. pc'[h] = "evictRemoved" /\ job'[h].user = u
      BY <2>3, BeginIs DEF KickPlayer, Sweep, GatewayTypeOK
    <3> QED
      BY <3>1 DEF Excused, Evicting
  <2>4. ASSUME NEW p \in Processes, FireTimer(h, p, u), MayExpire(u)
        PROVE  Excused(s)'
    <3>1. seat[u] # 0 /\ seat[u] # seat'[u]
      BY <1>3 DEF Members
    <3>2. Keep({}, SocketsOf(u), {})
      BY <2>4, <3>1 DEF FireTimer, membership
    <3>3. s \in strays'
      BY <1>3, <3>2 DEF Keep, SocketsOf
    <3> QED
      BY <3>3 DEF Excused
  <2>5. seat[u] # 0
    BY DEF Members
  <2> QED
    BY <1>1, <1>3, <2>1, <2>2, <2>3, <2>4, <2>5, MemberSteps
<1> QED
  BY <1>2, <1>3

\* A handler that is to evict a user publishes the order; one that looks again
\* finds a member or unsubscribes the socket; one that fails leaves a stray.
LEMMA ExcuseKept ==
  ASSUME GatewayTypeOK, JobsOK, NEW h \in Handlers, HandlerStep(h),
         NEW s \in subs, s \in subs',
         Evicting(h, Owner[s]) \/ Checking(h, s)
  PROVE  Excused(s)'
<1>1. pc[h] \in {"evictRemoved", "recheck", "unsubscribe"}
  BY DEF Evicting, Checking
<1>2. s \in Sockets
  BY DEF GatewayTypeOK
<1>3. CASE EvictRemoved(h)
  <2>1. job[h].user = Owner[s]
    BY <1>3 DEF EvictRemoved, At, Evicting, Checking
  <2> DEFINE o == [kind |-> "leave", user |-> job[h].user, late |-> FALSE]
  <2>2. o \in OrderType /\ Publish(o)
    BY <1>2, <1>3, <2>1, SocketsAssumption DEF EvictRemoved, OrderType
  <2>3. Ordered(s, o.kind)'
    BY <1>2, <2>1, <2>2, OrderedNow
  <2> QED
    BY <2>3 DEF Excused
<1>4. CASE Recheck(h)
  <2>1. /\ job[h].socket = s /\ job[h].user = Owner[s]
    BY <1>2, <1>4 DEF Recheck, At, Evicting, Checking, JobsOK, JobOK
  <2>2. CASE job[h].user \in Members
    BY <1>4, <2>1, <2>2 DEF Recheck, membership, Excused, Members
  <2>3. CASE job[h].user \notin Members
    BY <1>4, <2>1, <2>3
       DEF Recheck, Goto, GatewayTypeOK, Excused, Checking
  <2> QED
    BY <2>2, <2>3
<1>5. ~ Unsubscribe(h)
  BY DEF Unsubscribe, At, Evicting, Checking
<1>6. ~ Request(h)
  BY <1>1, BeginIs
     DEF Request, Disconnect, RequestJoin, RequestHttpJoin, RequestLeave,
         KickPlayer
<1>7. ASSUME NEW v \in Users, NEW p \in Processes,
             FireTimer(h, p, v) \/ Sweep(h, v, p)
      PROVE  FALSE
  BY <1>1, <1>7, BeginIs DEF FireTimer, Sweep, At
<1>8. CASE Fails(h)
  <2>1. CASE RecheckFails(h)
    <3>1. job[h].socket = s
      BY <2>1 DEF RecheckFails, At, Evicting, Checking
    <3>2. seat'[Owner[s]] = 0 => s \in strays'
      BY <2>1, <3>1 DEF RecheckFails, Keep
    <3> QED
      BY <1>2, <3>2, SocketsAssumption DEF Excused, Members
  <2>2. CASE EvictionFails(h)
    <3>1. s \in SocketsOf(job[h].user)
      BY <1>2, <2>2 DEF EvictionFails, At, Evicting, Checking, SocketsOf
    <3>2. seat'[Owner[s]] = 0 => s \in strays'
      BY <2>2, <3>1 DEF EvictionFails, Keep
    <3> QED
      BY <1>2, <3>2, SocketsAssumption DEF Excused, Members
  <2> QED
    BY <1>1, <1>8, <2>1, <2>2
       DEF Fails, DisconnectFails, OfflineFails, CheckFails, At
<1>9. CASE Step(h)
  BY <1>1, <1>3, <1>4, <1>5, <1>9
     DEF Step, CountDevices, FindRooms, MarkOffline, HandOver, SetTimer,
         ConfirmOnline, Subscribe, Enter, Attach,
         LeaveRoom, CheckRemoved, Restore, EvictAway, Refuse, At
<1> QED
  BY <1>6, <1>7, <1>8, <1>9 DEF HandlerStep

\* NoEavesdropper is kept by every step of a handler.
LEMMA NoEavesdropperNext ==
  ASSUME MembershipInv, GatewayTypeOK, JobsOK, PlacedOK, NoEavesdropper,
         NEW h \in Handlers, HandlerStep(h), [Next]_membership
  PROVE  NoEavesdropper'
<1> SUFFICES ASSUME NEW s \in Sockets, s \in subs'
             PROVE  Excused(s)'
  BY RestTypedNext
     DEF NoEavesdropper, Excused, Handling, Evicting, Checking
<1>1. CASE s \notin subs
  BY <1>1, NewListener
<1>2. CASE s \in subs
  <2>1. Excused(s)
    BY <1>2, Listeners
  <2>2. CASE Owner[s] \in Members
    BY <2>2, RemovedExcused
  <2>3. CASE s \in strays
    BY <2>3, HistoryNext, SocketsAssumption DEF HistoryKept, Excused, Members
  <2>4. CASE status = "DELETED"
    BY <2>4, MembershipMoves DEF Excused
  <2>5. CASE Ordered(s, "leave")
    BY <2>5, OrderedStays DEF Excused
  <2>6. ASSUME NEW g \in Handlers, Evicting(g, Owner[s]) \/ Checking(g, s)
        PROVE  Excused(s)'
    <3>1. CASE g # h
      BY <2>6, <3>1, Footprints DEF Footprint, Evicting, Checking, Excused
    <3>2. CASE g = h
      BY <1>2, <2>6, <3>2, ExcuseKept
    <3> QED
      BY <3>1, <3>2
  <2> QED
    BY <2>1, <2>2, <2>3, <2>4, <2>5, <2>6 DEF Excused
<1> QED
  BY <1>1, <1>2
-----------------------------------------------------------------------------
(* StillHears *)

\* A handler that is yet to see whether a removed user has joined again.
Restoring(h, u) == pc[h] \in {"check", "restore"} /\ job[h].user = u

\* An eviction that is not late is followed by the join order that makes up
\* for it, or by a handler that has yet to see whether one is called for.
RestoreDue ==
  \A p \in Processes : \A i \in 1 .. Len(orders[p]) :
    orders[p][i].kind = "leave" /\ ~ orders[p][i].late =>
      \/ \E h \in Handlers : Restoring(h, orders[p][i].user)
      \/ \E j \in (i + 1) .. Len(orders[p]) :
           /\ orders[p][j].kind = "join"
           /\ orders[p][j].user = orders[p][i].user

\* A handler that checks a removal restores the player, or makes the order late
\* when there is nobody to restore, or when it fails and takes the places of
\* those who lost the room.
LEMMA RestoringKept ==
  ASSUME GatewayTypeOK, JobsOK, NEW h \in Handlers, HandlerStep(h),
         NEW u \in Users, Restoring(h, u)
  PROVE  \/ Restoring(h, u)'
         \/ /\ MarkedLate({u})
            /\ u \in Members =>
                 \A s \in placed' : s \in subs' \/ Owner[s] # u
         \/ Publish([kind |-> "join", user |-> u, late |-> FALSE])
<1>1. pc[h] \in {"check", "restore"} /\ job[h].user = u
  BY DEF Restoring
<1>2. CASE CheckRemoved(h)
  <2>1. CASE u \in Members
    BY <1>1, <1>2, <2>1 DEF CheckRemoved, Goto, GatewayTypeOK, Restoring
  <2>2. CASE u \notin Members
    BY <1>1, <1>2, <2>2 DEF CheckRemoved, NobodyRestores, MarkedLate
  <2> QED
    BY <2>1, <2>2
<1>3. CASE Restore(h)
  BY <1>1, <1>3 DEF Restore
<1>4. ~ Request(h)
  BY <1>1, BeginIs
     DEF Request, Disconnect, RequestJoin, RequestHttpJoin, RequestLeave,
         KickPlayer
<1>5. ASSUME NEW v \in Users, NEW p \in Processes,
             FireTimer(h, p, v) \/ Sweep(h, v, p)
      PROVE  FALSE
  BY <1>1, <1>5, BeginIs DEF FireTimer, Sweep, At
<1>6. CASE Fails(h)
  <2>1. CheckFails(h)
    BY <1>1, <1>6
       DEF Fails, DisconnectFails, OfflineFails, RecheckFails, EvictionFails,
           At
  <2> QED
    BY <1>1, <2>1 DEF CheckFails, NobodyRestores, MarkedLate
<1>7. CASE Step(h)
  BY <1>1, <1>2, <1>3, <1>7
     DEF Step, CountDevices, FindRooms, MarkOffline, HandOver, SetTimer,
         ConfirmOnline, Subscribe, Recheck, Unsubscribe, Enter, Attach,
         LeaveRoom, EvictRemoved, EvictAway, Refuse, At
<1> QED
  BY <1>4, <1>5, <1>6, <1>7 DEF HandlerStep

\* What a handler adds to a queue.
LEMMA Appended ==
  ASSUME GatewayTypeOK, JobsOK, NEW h \in Handlers, HandlerStep(h),
         NEW p \in Processes, NEW i \in 1 .. Len(orders'[p]),
         i > Len(orders[p])
  PROVE  /\ i = Len(orders[p]) + 1
         /\ Here(p) \cap SocketsOf(orders'[p][i].user) # {}
         /\ orders'[p][i].kind = "leave" /\ ~ orders'[p][i].late =>
              EvictRemoved(h) /\ orders'[p][i].user = job[h].user
<1>1. orders[p] \in Seq(OrderType) /\ Len(orders[p]) \in Nat
  BY DEF GatewayTypeOK
<1>2. ASSUME NEW o, Publish(o)
      PROVE  /\ i = Len(orders[p]) + 1 /\ orders'[p][i] = o
             /\ Here(p) \cap SocketsOf(o.user) # {}
  <2>1. orders'[p] = IF Here(p) \cap SocketsOf(o.user) = {} THEN orders[p]
                     ELSE Append(orders[p], o)
    BY <1>2 DEF Publish
  <2> QED
    BY <1>1, <2>1
<1>3. CASE UNCHANGED orders
  BY <1>1, <1>3
<1>4. CASE /\ orders' \in [Processes -> Seq(OrderType)]
           /\ MarkedLate({job[h].user})
  BY <1>1, <1>4, LateStays
<1>5. CASE /\ EvictRemoved(h)
           /\ Publish([kind |-> "leave", user |-> job[h].user, late |-> FALSE])
  BY <1>2, <1>5
<1>6. CASE Publish([kind |-> "join", user |-> job[h].user, late |-> FALSE])
  BY <1>2, <1>6
<1>7. CASE Publish([kind |-> "leave", user |-> job[h].user, late |-> TRUE])
  BY <1>2, <1>7
<1> QED
  BY <1>3, <1>4, <1>5, <1>6, <1>7, OrderSteps

\* OrdersPlaced is kept by every step of a handler.
LEMMA OrdersPlacedNext ==
  ASSUME GatewayTypeOK, JobsOK, OrdersPlaced, NEW h \in Handlers,
         HandlerStep(h)
  PROVE  OrdersPlaced'
<1> SUFFICES ASSUME NEW p \in Processes, NEW i \in 1 .. Len(orders'[p])
             PROVE  Here(p) \cap SocketsOf(orders'[p][i].user) # {}
  BY DEF OrdersPlaced, Here, SocketsOf
<1>1. Len(orders[p]) \in Nat
  BY DEF GatewayTypeOK
<1>2. CASE i <= Len(orders[p])
  BY <1>1, <1>2, OrdersNext DEF OrdersStay, OrdersPlaced
<1>3. CASE i > Len(orders[p])
  BY <1>3, Appended
<1> QED
  BY <1>1, <1>2, <1>3

\* RestoreDue is kept: an eviction is published by a handler that goes on to
\* check; a check that ends marks the eviction or publishes a join behind it.
LEMMA RestoreDueNext ==
  ASSUME GatewayTypeOK, JobsOK, OrdersPlaced, RestoreDue, NEW h \in Handlers,
         HandlerStep(h)
  PROVE  RestoreDue'
<1> SUFFICES ASSUME NEW p \in Processes, NEW i \in 1 .. Len(orders'[p]),
                    NEW u \in Users, u = orders'[p][i].user,
                    orders'[p][i].kind = "leave", ~ orders'[p][i].late
             PROVE  \/ \E g \in Handlers : Restoring(g, u)'
                    \/ \E j \in (i + 1) .. Len(orders'[p]) :
                         orders'[p][j].kind = "join" /\ orders'[p][j].user = u
  <2>1. ASSUME NEW p \in Processes, NEW i \in 1 .. Len(orders'[p])
        PROVE  orders'[p][i].user \in Users
    <3>1. orders'[p][i] \in OrderType
      BY <2>1, OrdersNext
    <3> QED
      BY <3>1 DEF OrderType
  <2> QED
    BY <2>1 DEF RestoreDue, Restoring
<1>1. /\ orders[p] \in Seq(OrderType) /\ Len(orders[p]) \in Nat
      /\ orders'[p] \in Seq(OrderType) /\ Len(orders'[p]) \in Nat
  BY OrdersNext DEF GatewayTypeOK
<1>2. CASE i <= Len(orders[p])
  <2>1. /\ i \in 1 .. Len(orders[p]) /\ i \in DOMAIN orders[p]
        /\ orders[p][i] \in OrderType /\ orders[p][i].user = u
        /\ orders[p][i].kind = "leave" /\ ~ orders[p][i].late
    BY <1>1, <1>2, OrdersNext DEF OrdersStay
  <2>2. ASSUME NEW g \in Handlers, Restoring(g, u)
        PROVE  \/ Restoring(g, u)'
               \/ \E j \in (i + 1) .. Len(orders'[p]) :
                    orders'[p][j].kind = "join" /\ orders'[p][j].user = u
    <3>1. CASE g # h
      BY <2>2, <3>1, Footprints DEF Footprint, Restoring
    <3>2. ASSUME MarkedLate({u})
          PROVE  FALSE
      <4>1. orders'[p][i] = [orders[p][i] EXCEPT !.late = TRUE]
        BY <2>1, <3>2 DEF MarkedLate
      <4> QED
        BY <2>1, <4>1 DEF OrderType
    <3>3. CASE Publish([kind |-> "join", user |-> u, late |-> FALSE])
      <4> DEFINE o == [kind |-> "join", user |-> u, late |-> FALSE]
      <4>1. o \in OrderType
        BY DEF OrderType
      <4>2. PICK s \in Sockets : Server[s] = p /\ Owner[s] = u
        BY <2>1 DEF OrdersPlaced, Here, SocketsOf
      <4>3. /\ Len(orders'[p]) = Len(orders[p]) + 1
            /\ orders'[p][Len(orders'[p])] = o
        BY <3>3, <4>1, <4>2, Published
      <4> QED
        BY <1>1, <1>2, <4>3
    <3> QED
      BY <2>2, <3>1, <3>2, <3>3, RestoringKept
  <2>3. ASSUME NEW j \in (i + 1) .. Len(orders[p]),
               orders[p][j].kind = "join", orders[p][j].user = u
        PROVE  /\ j \in (i + 1) .. Len(orders'[p])
               /\ orders'[p][j].kind = "join" /\ orders'[p][j].user = u
    BY <1>1, <2>3, OrdersNext DEF OrdersStay
  <2>4. \/ \E g \in Handlers : Restoring(g, u)
        \/ \E j \in (i + 1) .. Len(orders[p]) :
             orders[p][j].kind = "join" /\ orders[p][j].user = u
    BY <2>1 DEF RestoreDue
  <2> QED
    BY <2>2, <2>3, <2>4
<1>3. CASE i > Len(orders[p])
  <2>1. EvictRemoved(h) /\ u = job[h].user
    BY <1>3, Appended
  <2>2. pc'[h] = "check" /\ job'[h].user = u
    BY <2>1 DEF EvictRemoved, Goto, GatewayTypeOK
  <2> QED
    BY <2>2 DEF Restoring
<1> QED
  BY <1>1, <1>2, <1>3

\* A place is granted to a socket that is subscribed with it.
LEMMA NewPlace ==
  ASSUME GatewayTypeOK, JobsOK, NEW h \in Handlers, HandlerStep(h),
         NEW s \in placed', s \notin placed
  PROVE  s \in subs'
<1>1. CASE Subscribe(h)
  BY <1>1 DEF Subscribe, Keep
<1>2. CASE Attach(h)
  BY <1>2 DEF Attach, Keep
<1>3. ~ (Subscribe(h) \/ Attach(h)) => placed' \subseteq placed
  BY DEF HandlerStep, Request, Disconnect, RequestJoin, RequestHttpJoin,
         RequestLeave, KickPlayer, FireTimer, Sweep, Fails, DisconnectFails, OfflineFails,
         RecheckFails, EvictionFails, CheckFails, Keep,
         KeepHistory, history,
         Step, CountDevices, FindRooms, MarkOffline, HandOver, SetTimer,
         ConfirmOnline, Subscribe, Recheck, Unsubscribe, Enter, Attach,
         LeaveRoom, EvictRemoved, CheckRemoved, Restore, EvictAway, Refuse
<1> QED
  BY <1>1, <1>2, <1>3

\* A socket that keeps its place loses the room only to an order.
LEMMA PlaceHeld ==
  ASSUME GatewayTypeOK, JobsOK, PlacedOK, NEW h \in Handlers, HandlerStep(h),
         NEW s \in placed', s \in subs
  PROVE  s \in subs'
<1>1. ~ Unsubscribe(h) => subs \cap conn' \subseteq subs'
  BY DEF GatewayTypeOK, HandlerStep, Request, Disconnect, RequestJoin,
         RequestHttpJoin,
         RequestLeave, KickPlayer, FireTimer, Sweep, Fails, DisconnectFails, OfflineFails,
         RecheckFails, EvictionFails, CheckFails, sockets,
         Step, CountDevices, FindRooms, MarkOffline, HandOver, SetTimer,
         ConfirmOnline, Subscribe, Recheck, Unsubscribe, Enter, Attach,
         LeaveRoom, EvictRemoved, CheckRemoved, Restore, EvictAway, Refuse
<1>2. CASE Unsubscribe(h)
  BY <1>2 DEF Unsubscribe
<1> QED
  BY <1>1, <1>2, HistoryNext DEF HistoryKept

\* StillHears, of one socket.
Heard(s) ==
  \/ s \in subs
  \/ \E h \in Handlers : Restoring(h, Owner[s])
  \/ Ordered(s, "join")

\* StillHears is kept by every step of a handler.
LEMMA StillHearsNext ==
  ASSUME GatewayTypeOK, JobsOK, PlacedOK, StillHears, NEW h \in Handlers,
         HandlerStep(h)
  PROVE  StillHears'
<1> SUFFICES ASSUME NEW s \in placed'
             PROVE  Heard(s)'
  BY DEF StillHears, Heard, Handling, Restoring
<1>1. CASE s \notin placed
  BY <1>1, NewPlace DEF Heard
<1>2. CASE s \in placed
  <2>1. /\ s \in Sockets /\ Owner[s] \in Users /\ Owner[s] \in Members
    BY <1>2, SocketsAssumption DEF GatewayTypeOK, PlacedOK, Members
  <2>2. Heard(s)
    BY <1>2 DEF StillHears, Heard, Handling, Restoring
  <2>3. CASE s \in subs
    BY <2>3, PlaceHeld DEF Heard
  <2>4. CASE Ordered(s, "join")
    BY <2>1, <2>4, OrderedStays DEF Heard
  <2>5. ASSUME NEW g \in Handlers, Restoring(g, Owner[s])
        PROVE  Heard(s)'
    <3>1. CASE g # h
      BY <2>5, <3>1, Footprints DEF Footprint, Restoring, Heard
    <3>2. CASE Restoring(h, Owner[s])'
      BY <3>2 DEF Heard
    <3>3. CASE Publish([kind |-> "join", user |-> Owner[s], late |-> FALSE])
      <4> DEFINE o == [kind |-> "join", user |-> Owner[s], late |-> FALSE]
      <4>1. o \in OrderType
        BY <2>1 DEF OrderType
      <4>2. Ordered(s, o.kind)'
        BY <2>1, <3>3, <4>1, OrderedNow
      <4> QED
        BY <4>2 DEF Heard
    <3>4. CASE \A t \in placed' : t \in subs' \/ Owner[t] # Owner[s]
      BY <3>4 DEF Heard
    <3> QED
      BY <2>1, <2>5, <3>1, <3>2, <3>3, <3>4, RestoringKept
  <2> QED
    BY <2>2, <2>3, <2>4, <2>5 DEF Heard
<1> QED
  BY <1>1, <1>2
-----------------------------------------------------------------------------
(* The steps that are no handler's. *)

\* The inductive invariant.
GatewayInv ==
  /\ MembershipInv /\ GatewayTypeOK /\ JobsOK
  /\ PlacedOK /\ OrdersPlaced /\ RestoreDue
  /\ NoEavesdropper /\ StillHears /\ Accounted

\* A connection, the passing of time, and the operations that change nobody's
\* seat except by deleting the room.
Quiet ==
  \/ \E s \in Sockets : Connect(s)
  \/ \E u \in Users : Ripen(u)
  \/ OthersAct
  \/ UNCHANGED vars

\* They bring nobody in or back.
LEMMA QuietMembers ==
  ASSUME TypeOK, NEW u \in Users,
         Start \/ End \/ UpdateSettings \/ Abandon \/ UNCHANGED membership
  PROVE  /\ seat'[u] # 0 => seat[u] # 0 /\ (u \in away => u \in away')
         /\ seat[u] # 0 => seat'[u] # 0 \/ status' = "DELETED"
<1>1. CASE Start
  BY <1>1 DEF Start, Shuffles, Members
<1>2. CASE End \/ UpdateSettings \/ UNCHANGED membership
  BY <1>2 DEF End, UpdateSettings, membership
<1>3. CASE Abandon
  BY <1>3 DEF Abandon, Delete
<1> QED
  BY <1>1, <1>2, <1>3

\* What they may change.
LEMMA QuietSteps ==
  ASSUME GatewayTypeOK, PlacedOK, Quiet
  PROVE  /\ UNCHANGED <<subs, timers, orders, handlers>>
         /\ conn \subseteq conn' /\ conn' \subseteq Sockets
         /\ HistoryKept /\ HistoryTyped /\ placed' \subseteq placed
         /\ \A u \in Users :
              /\ seat'[u] # 0 => seat[u] # 0 /\ (u \in away => u \in away')
              /\ seat[u] # 0 => seat'[u] # 0 \/ status' = "DELETED"
         /\ ripe' \subseteq Users
         /\ requests' \in 0 .. MaxRequests /\ faults' \in 0 .. MaxFaults
<1> USE DEF GatewayTypeOK
<1>1. UNCHANGED <<subs, timers, orders, handlers>>
  BY DEF Quiet, Connect, Ripen, OthersAct, sockets, vars
<1>2. conn \subseteq conn' /\ conn' \subseteq Sockets
  BY DEF Quiet, Connect, Ripen, OthersAct, sockets, vars
<1>3. HistoryKept /\ HistoryTyped
  <2>1. CASE \E s \in Sockets : Connect(s)
    BY <2>1, KeepKeeps DEF Connect, KeepHistory
  <2>2. CASE OthersAct
    BY <2>2, KeepKeeps DEF OthersAct
  <2>3. CASE UNCHANGED <<membership, conn, history>>
    BY <2>3, SameKeeps DEF membership
  <2> QED
    BY <2>1, <2>2, <2>3 DEF Quiet, Ripen, sockets, vars
<1>4. placed' \subseteq placed
  BY DEF Quiet, Connect, Ripen, OthersAct, KeepHistory, Keep, history, vars
<1>5. ASSUME NEW u \in Users
      PROVE  /\ seat'[u] # 0 => seat[u] # 0 /\ (u \in away => u \in away')
             /\ seat[u] # 0 => seat'[u] # 0 \/ status' = "DELETED"
  <2>1. Start \/ End \/ UpdateSettings \/ Abandon \/ UNCHANGED membership
    BY DEF Quiet, Connect, Ripen, OthersAct, vars
  <2> QED
    BY <2>1, QuietMembers
<1>6. ripe' \subseteq Users
  BY DEF Quiet, Connect, Ripen, OthersAct, vars
<1>7. requests' \in 0 .. MaxRequests /\ faults' \in 0 .. MaxFaults
  BY SocketsAssumption DEF Quiet, Connect, Ripen, OthersAct, vars, bounds
<1> QED
  BY <1>1, <1>2, <1>3, <1>4, <1>5, <1>6, <1>7

\* The invariant is kept by them,
LEMMA QuietNext ==
  ASSUME GatewayInv, Quiet, [Next]_membership
  PROVE  GatewayInv'
<1> USE DEF GatewayInv
<1>1. MembershipInv' /\ TypeOK'
  BY InvNext DEF MembershipInv
<1>2. UNCHANGED <<subs, timers, orders, handlers, pc, job>>
  BY QuietSteps DEF handlers
<1>3. GatewayTypeOK'
  BY <1>1, <1>2, QuietSteps DEF GatewayTypeOK, HistoryTyped
<1>4. JobsOK' /\ OrdersPlaced' /\ RestoreDue'
  BY <1>2
     DEF JobsOK, JobOK, OrdersPlaced, RestoreDue, Restoring, Here, SocketsOf
<1>5. PlacedOK'
  BY QuietSteps DEF HistoryKept, PlacedOK
<1>6. NoEavesdropper'
  <2> SUFFICES ASSUME NEW s \in subs'
               PROVE  Excused(s)'
    BY DEF NoEavesdropper, Excused, Handling, Evicting, Checking
  <2>1. s \in subs /\ s \in Sockets /\ Owner[s] \in Users
    BY <1>2, SocketsAssumption DEF GatewayTypeOK
  <2>2. Excused(s)
    BY <2>1, Listeners
  <2>3. CASE Owner[s] \in Members
    BY <2>1, <2>3, QuietSteps DEF Members, Excused
  <2>4. CASE s \in strays
    BY <2>1, <2>4, QuietSteps DEF HistoryKept, Members, Excused
  <2>5. CASE status = "DELETED"
    BY <2>5, MembershipMoves DEF Excused
  <2> QED
    BY <1>2, <2>2, <2>3, <2>4, <2>5
       DEF Excused, Evicting, Checking, Ordered
<1>7. StillHears'
  BY <1>2, QuietSteps DEF StillHears, Handling, Ordered
<1>8. Accounted'
  <2> SUFFICES ASSUME NEW u \in Users, seat'[u] # 0
               PROVE  Looked(u)'
    BY DEF Accounted, Looked, Members, Watched
  <2>1. Looked(u)
    BY QuietSteps DEF Accounted, Looked, Members, Watched
  <2>2. CASE Devices(u) # {}
    BY <2>2, QuietSteps DEF Looked, Devices, SocketsOf
  <2>3. CASE u \in away
    BY <2>3, QuietSteps DEF Looked
  <2>4. CASE u \in ghosts
    BY <2>4, QuietSteps DEF HistoryKept, Looked, Devices
  <2> QED
    BY <1>2, <2>1, <2>2, <2>3, <2>4 DEF Looked, Watched
<1> QED
  BY <1>1, <1>3, <1>4, <1>5, <1>6, <1>7, <1>8

\* The first order of a queue, and the rest.
LEMMA QueueHead ==
  ASSUME GatewayTypeOK, NEW p \in Processes, orders[p] # <<>>,
         orders' = [orders EXCEPT ![p] = Tail(@)]
  PROVE  /\ Head(orders[p]) = orders[p][1] /\ Head(orders[p]) \in OrderType
         /\ 1 \in 1 .. Len(orders[p])
         /\ orders' \in [Processes -> Seq(OrderType)]
         /\ Len(orders'[p]) = Len(orders[p]) - 1
         /\ \A i \in 1 .. Len(orders'[p]) :
              orders'[p][i] = orders[p][i + 1] /\ i + 1 \in 1 .. Len(orders[p])
         /\ \A q \in Processes \ {p} : orders'[q] = orders[q]
<1>1. orders[p] \in Seq(OrderType) /\ orders[p] # <<>>
  BY DEF GatewayTypeOK
<1>2. /\ Tail(orders[p]) \in Seq(OrderType)
      /\ Len(Tail(orders[p])) = Len(orders[p]) - 1
      /\ \A i \in 1 .. Len(Tail(orders[p])) :
           /\ Tail(orders[p])[i] = orders[p][i + 1]
           /\ i + 1 \in 1 .. Len(orders[p])
      /\ Head(orders[p]) = orders[p][1] /\ Head(orders[p]) \in OrderType
      /\ 1 \in 1 .. Len(orders[p])
  BY <1>1
<1>3. orders'[p] = Tail(orders[p])
  BY DEF GatewayTypeOK
<1>4. orders' \in [Processes -> Seq(OrderType)]
  BY <1>2 DEF GatewayTypeOK
<1> QED
  BY <1>2, <1>3, <1>4 DEF GatewayTypeOK

\* by an order that arrives or is lost,
LEMMA DeliverNext ==
  ASSUME GatewayInv, NEW p \in Processes, Deliver(p) \/ (Fault /\ Lose(p))
  PROVE  GatewayInv'
<1> USE DEF GatewayInv
<1> DEFINE o == Head(orders[p])
           ss == Here(p) \cap Devices(o.user)
<1>1. /\ orders[p] # <<>> /\ orders' = [orders EXCEPT ![p] = Tail(@)]
      /\ UNCHANGED <<membership, status, hostId, maxPlayers, seat, away, ripe,
                     conn, timers, pc, job>>
      /\ requests' \in 0 .. MaxRequests /\ faults' \in 0 .. MaxFaults
  BY SocketsAssumption
     DEF Deliver, Lose, Fault, membership, room, handlers, bounds,
         GatewayTypeOK
<1>2. /\ o = orders[p][1] /\ o \in OrderType /\ 1 \in 1 .. Len(orders[p])
      /\ orders' \in [Processes -> Seq(OrderType)]
      /\ Len(orders'[p]) = Len(orders[p]) - 1
      /\ \A i \in 1 .. Len(orders'[p]) :
           orders'[p][i] = orders[p][i + 1] /\ i + 1 \in 1 .. Len(orders[p])
      /\ \A q \in Processes \ {p} : orders'[q] = orders[q]
  BY <1>1, QueueHead
<1>3. \/ /\ o.kind = "leave" /\ subs' = subs \ ss
         /\ placed' = IF o.late THEN placed \ ss ELSE placed
         /\ strays' = strays \ ss /\ ghosts' = ghosts
      \/ /\ o.kind = "join" /\ subs' = subs \cup ss /\ Keep({}, ss, {})
      \/ /\ subs' = subs /\ ghosts' = ghosts
         /\ placed' = {s \in placed :
                         o.kind = "leave" \/ s \in subs \/ s \notin ss}
         /\ strays' = strays \cup
              {s \in ss \cap subs : o.kind = "leave" /\ o.user \notin Members}
  <2>1. CASE Deliver(p)
    BY <2>1 DEF Deliver
  <2>2. CASE Lose(p)
    <3>1. CASE o.kind = "leave"
      BY <2>2, <3>1 DEF Lose
    <3>2. CASE o.kind = "join"
      BY <2>2, <3>2 DEF Lose
    <3> QED
      BY <2>2, <3>1, <3>2 DEF Lose
  <2> QED
    BY <2>1, <2>2
<1>4. ss \subseteq conn /\ ss \subseteq Sockets
  BY DEF Devices, SocketsOf
<1>5. HistoryKept /\ HistoryTyped /\ placed' \subseteq placed
  <2>1. CASE ~ Keep({}, ss, {})
    BY <1>1, <1>3, <1>4, <2>1
       DEF GatewayTypeOK, PlacedOK, HistoryKept, HistoryTyped
  <2>2. CASE Keep({}, ss, {})
    BY <1>4, <2>2, KeepKeeps DEF Keep
  <2> QED
    BY <2>1, <2>2
<1>6. MembershipInv' /\ TypeOK'
  BY <1>1, InvNext DEF MembershipInv
<1>7. GatewayTypeOK'
  <2>1. ASSUME NEW q \in Processes
        PROVE  Len(orders'[q]) <= MaxOrders
    <3>1. Len(orders[p]) \in Nat /\ MaxOrders \in Nat
      BY SocketsAssumption DEF GatewayTypeOK
    <3>2. Len(orders[q]) <= MaxOrders
      BY DEF GatewayTypeOK
    <3> QED
      BY <1>2, <3>1, <3>2
  <2>2. subs' \subseteq conn'
    BY <1>1, <1>3, <1>4 DEF GatewayTypeOK
  <2> QED
    BY <1>1, <1>2, <1>5, <1>6, <2>1, <2>2 DEF GatewayTypeOK, HistoryTyped
<1>8. JobsOK' /\ PlacedOK'
  BY <1>1, <1>5 DEF JobsOK, JobOK, HistoryKept, PlacedOK
<1>9. OrdersPlaced'
  <2> SUFFICES ASSUME NEW q \in Processes, NEW i \in 1 .. Len(orders'[q])
               PROVE  Here(q) \cap SocketsOf(orders'[q][i].user) # {}
    BY DEF OrdersPlaced, Here, SocketsOf
  <2>1. CASE q # p
    BY <1>2, <2>1 DEF OrdersPlaced
  <2>2. CASE q = p
    BY <1>2, <2>2 DEF OrdersPlaced
  <2> QED
    BY <2>1, <2>2
<1>10. RestoreDue'
  <2> SUFFICES ASSUME NEW q \in Processes, NEW i \in 1 .. Len(orders'[q]),
                      NEW u, u = orders'[q][i].user,
                      orders'[q][i].kind = "leave", ~ orders'[q][i].late
               PROVE  \/ \E h \in Handlers : Restoring(h, u)'
                      \/ \E j \in (i + 1) .. Len(orders'[q]) :
                           orders'[q][j].kind = "join" /\ orders'[q][j].user = u
    BY DEF RestoreDue, Restoring
  <2>1. ASSUME NEW h \in Handlers, Restoring(h, u)
        PROVE  Restoring(h, u)'
    BY <1>1, <2>1 DEF Restoring
  <2>2. CASE q # p
    <3>1. orders'[q] = orders[q]
      BY <1>2, <2>2
    <3>2. \/ \E h \in Handlers : Restoring(h, u)
          \/ \E j \in (i + 1) .. Len(orders[q]) :
               orders[q][j].kind = "join" /\ orders[q][j].user = u
      BY <3>1 DEF RestoreDue
    <3> QED
      BY <2>1, <3>1, <3>2
  <2>3. CASE q = p
    <3>1. /\ i + 1 \in 1 .. Len(orders[p]) /\ orders'[p][i] = orders[p][i + 1]
          /\ Len(orders[p]) \in Nat
      BY <1>2, <2>3 DEF GatewayTypeOK
    <3>2. \/ \E h \in Handlers : Restoring(h, u)
          \/ \E j \in ((i + 1) + 1) .. Len(orders[p]) :
               orders[p][j].kind = "join" /\ orders[p][j].user = u
      BY <2>3, <3>1 DEF RestoreDue
    <3>3. ASSUME NEW j \in ((i + 1) + 1) .. Len(orders[p]),
                 orders[p][j].kind = "join", orders[p][j].user = u
          PROVE  \E k \in (i + 1) .. Len(orders'[p]) :
                   orders'[p][k].kind = "join" /\ orders'[p][k].user = u
      <4>1. /\ j - 1 \in (i + 1) .. Len(orders'[p]) /\ (j - 1) + 1 = j
            /\ j - 1 \in 1 .. Len(orders'[p])
        BY <1>2, <2>3, <3>1
      <4>2. orders'[p][j - 1] = orders[p][j]
        BY <1>2, <4>1
      <4> QED
        BY <3>3, <4>1, <4>2
    <3> QED
      BY <2>1, <2>3, <3>2, <3>3
  <2> QED
    BY <2>2, <2>3
<1>11. ASSUME NEW s \in Sockets, NEW kind, Ordered(s, kind)
       PROVE  \/ Ordered(s, kind)'
              \/ Server[s] = p /\ Owner[s] = o.user /\ kind = o.kind
  <2>1. PICK i \in DOMAIN orders[Server[s]] :
          /\ orders[Server[s]][i].kind = kind
          /\ orders[Server[s]][i].user = Owner[s]
    BY <1>11 DEF Ordered
  <2>2. /\ Server[s] \in Processes /\ orders[Server[s]] \in Seq(OrderType)
        /\ orders'[Server[s]] \in Seq(OrderType)
    BY <1>2, SocketsAssumption DEF GatewayTypeOK
  <2>3. CASE Server[s] # p
    BY <1>2, <2>1, <2>2, <2>3 DEF Ordered
  <2>4. CASE Server[s] = p /\ i = 1
    BY <1>2, <2>1, <2>4
  <2>5. CASE Server[s] = p /\ i # 1
    <3>1. /\ i - 1 \in 1 .. Len(orders'[p]) /\ (i - 1) + 1 = i
          /\ i - 1 \in DOMAIN orders'[p]
      BY <1>2, <2>1, <2>2, <2>5
    <3>2. orders'[p][i - 1] = orders[p][i]
      BY <1>2, <3>1
    <3> QED
      BY <2>1, <2>5, <3>1, <3>2 DEF Ordered
  <2> QED
    BY <2>3, <2>4, <2>5
<1>12. NoEavesdropper'
  <2> SUFFICES ASSUME NEW s \in subs'
               PROVE  Excused(s)'
    BY DEF NoEavesdropper, Excused, Handling, Evicting, Checking
  <2>1. s \in Sockets /\ s \in conn /\ Owner[s] \in Users
    BY <1>1, <1>3, <1>4, SocketsAssumption DEF GatewayTypeOK
  <2>2. CASE s \notin subs
    <3>1. Keep({}, ss, {}) /\ s \in ss
      BY <1>3, <2>2
    <3>2. seat'[Owner[s]] = 0 => s \in strays'
      BY <3>1 DEF Keep
    <3> QED
      BY <2>1, <3>2 DEF Excused, Members
  <2>3. CASE s \in subs
    <3>1. Excused(s)
      BY <2>3, Listeners
    <3>2. CASE Owner[s] \in Members \/ status = "DELETED"
      BY <1>1, <3>2 DEF Excused, Members
    <3>3. CASE s \in strays
      BY <1>5, <2>1, <3>3 DEF HistoryKept, Excused, Members
    <3>4. CASE Ordered(s, "leave")
      <4>1. ASSUME Server[s] = p, Owner[s] = o.user, o.kind = "leave"
            PROVE  Excused(s)'
        <5>1. s \in ss
          BY <2>1, <4>1 DEF Here, Devices, SocketsOf
        <5>2. o.user \in Members \/ s \in strays'
          BY <1>2, <1>3, <2>3, <4>1, <5>1
        <5> QED
          BY <1>1, <4>1, <5>2 DEF Excused, Members
      <4> QED
        BY <1>11, <2>1, <3>4, <4>1 DEF Excused
    <3>5. CASE \E h \in Handlers : Evicting(h, Owner[s]) \/ Checking(h, s)
      BY <1>1, <3>5 DEF Excused, Evicting, Checking
    <3> QED
      BY <3>1, <3>2, <3>3, <3>4, <3>5 DEF Excused
  <2> QED
    BY <2>2, <2>3
<1>13. StillHears'
  <2> SUFFICES ASSUME NEW s \in placed'
               PROVE  Heard(s)'
    BY DEF StillHears, Heard, Handling, Restoring
  <2>1. s \in placed /\ s \in Sockets /\ s \in conn
    BY <1>5 DEF GatewayTypeOK, PlacedOK
  <2>2. Server[s] = p /\ Owner[s] = o.user => s \in ss
    BY <2>1 DEF Here, Devices, SocketsOf
  <2>3. Heard(s)
    BY <2>1 DEF StillHears, Heard, Handling, Restoring
  <2>4. CASE \E h \in Handlers : Restoring(h, Owner[s])
    BY <1>1, <2>4 DEF Restoring, Heard
  <2>5. CASE Ordered(s, "join")
    BY <1>3, <1>11, <2>1, <2>2, <2>5 DEF Heard
  <2>6. CASE s \in subs /\ s \notin subs'
    <3>1. /\ o.kind = "leave" /\ ~ o.late /\ s \in ss
      BY <1>3, <2>6
    <3>2. Server[s] = p /\ Owner[s] = o.user
      BY <3>1 DEF Here, Devices, SocketsOf
    <3>3. \/ \E h \in Handlers : Restoring(h, o.user)
          \/ \E j \in 2 .. Len(orders[p]) :
               orders[p][j].kind = "join" /\ orders[p][j].user = o.user
      BY <1>2, <3>1 DEF RestoreDue
    <3>4. ASSUME NEW j \in 2 .. Len(orders[p]), orders[p][j].kind = "join",
                 orders[p][j].user = o.user
          PROVE  Ordered(s, "join")'
      <4>1. Len(orders[p]) \in Nat /\ orders'[p] \in Seq(OrderType)
        BY <1>2 DEF GatewayTypeOK
      <4>2. j - 1 \in 1 .. Len(orders'[p]) /\ (j - 1) + 1 = j
        BY <1>2, <4>1
      <4>3. orders'[p][j - 1] = orders[p][j] /\ j - 1 \in DOMAIN orders'[p]
        BY <1>2, <4>1, <4>2
      <4> QED
        BY <3>2, <3>4, <4>3 DEF Ordered
    <3> QED
      BY <2>4, <3>2, <3>3, <3>4 DEF Heard
  <2> QED
    BY <2>3, <2>4, <2>5, <2>6 DEF Heard
<1>14. Accounted'
  <2> SUFFICES ASSUME NEW u \in Users, seat'[u] # 0
               PROVE  Looked(u)'
    BY DEF Accounted, Looked, Members, Watched
  <2>1. Looked(u)
    BY <1>1 DEF Accounted, Looked, Members, Watched
  <2>2. CASE u \in ghosts
    BY <1>5, <2>2 DEF HistoryKept, Looked, Devices
  <2> QED
    BY <1>1, <2>1, <2>2 DEF Looked, Devices, Watched
<1> QED
  BY <1>6, <1>7, <1>8, <1>9, <1>10, <1>12, <1>13, <1>14
-----------------------------------------------------------------------------
(* A crash *)

\* The handlers that die with p, and the users they were working on.
Dead(p) == {h \in Handlers : job[h].proc = p}
UsersAt(p, labels) ==
  {job[h].user : h \in {g \in Dead(p) : pc[g] \in labels}}

\* What a crash leaves of the queues: those of the other processes, with every
\* eviction late that a dead handler was to check.
LEMMA CrashOrders ==
  ASSUME GatewayTypeOK, NEW p \in Processes, Crash(p)
  PROVE  /\ orders' \in [Processes -> Seq(OrderType)]
         /\ orders'[p] = <<>>
         /\ \A q \in Processes \ {p} :
              /\ Len(orders'[q]) = Len(orders[q])
              /\ \A i \in 1 .. Len(orders[q]) :
                   /\ orders'[q][i].kind = orders[q][i].kind
                   /\ orders'[q][i].user = orders[q][i].user
                   /\ ~ orders'[q][i].late =>
                        /\ ~ orders[q][i].late
                        /\ orders[q][i].user \notin
                             UsersAt(p, {"check", "restore"})
<1> DEFINE U == UsersAt(p, {"check", "restore"})
           late(q) == [i \in DOMAIN orders[q] |->
                         IF orders[q][i].user \in U
                         THEN [orders[q][i] EXCEPT !.late = TRUE]
                         ELSE orders[q][i]]
<1>1. orders' = [q \in Processes |-> IF q = p THEN <<>> ELSE late(q)]
  BY DEF Crash, UsersAt, Dead
<1>2. ASSUME NEW q \in Processes
      PROVE  /\ late(q) \in Seq(OrderType) /\ Len(late(q)) = Len(orders[q])
             /\ \A i \in 1 .. Len(orders[q]) :
                  /\ late(q)[i].kind = orders[q][i].kind
                  /\ late(q)[i].user = orders[q][i].user
                  /\ ~ late(q)[i].late =>
                       ~ orders[q][i].late /\ orders[q][i].user \notin U
  <2> HIDE DEF U
  <2>1. orders[q] \in Seq(OrderType)
    BY DEF GatewayTypeOK
  <2>2. /\ DOMAIN orders[q] = 1 .. Len(orders[q]) /\ Len(orders[q]) \in Nat
        /\ \A i \in 1 .. Len(orders[q]) : orders[q][i] \in OrderType
    BY <2>1
  <2>3. \A o \in OrderType :
          /\ [o EXCEPT !.late = TRUE] \in OrderType
          /\ [o EXCEPT !.late = TRUE].kind = o.kind
          /\ [o EXCEPT !.late = TRUE].user = o.user
          /\ [o EXCEPT !.late = TRUE].late
    BY DEF OrderType
  <2>4. late(q) \in Seq(OrderType)
    BY <2>2, <2>3
  <2>5. Len(late(q)) = Len(orders[q])
    BY <2>2, <2>4
  <2>6. ASSUME NEW i \in 1 .. Len(orders[q])
        PROVE  /\ late(q)[i].kind = orders[q][i].kind
               /\ late(q)[i].user = orders[q][i].user
               /\ ~ late(q)[i].late =>
                    ~ orders[q][i].late /\ orders[q][i].user \notin U
    <3>1. orders[q][i] \in OrderType
      BY <2>2
    <3>2. late(q)[i] = IF orders[q][i].user \in U
                       THEN [orders[q][i] EXCEPT !.late = TRUE]
                       ELSE orders[q][i]
      BY <2>2
    <3> HIDE DEF late
    <3> QED
      BY <2>3, <3>1, <3>2
  <2> QED
    BY <2>4, <2>5, <2>6
<1> HIDE DEF late
<1>3. orders'[p] = <<>> /\ \A q \in Processes \ {p} : orders'[q] = late(q)
  BY <1>1
<1>4. orders' \in [Processes -> Seq(OrderType)]
  BY <1>1, <1>2
<1> QED
  BY <1>2, <1>3, <1>4

\* and by a crash.
LEMMA CrashNext ==
  ASSUME GatewayInv, NEW p \in Processes, Fault, Crash(p)
  PROVE  GatewayInv'
<1> USE DEF GatewayInv
<1>1. /\ UNCHANGED <<membership, status, hostId, maxPlayers, seat, away, ripe>>
      /\ conn' = conn \ Here(p) /\ subs' = subs \ Here(p)
      /\ timers' = [timers EXCEPT ![p] = {}]
      /\ pc' = [h \in Handlers |-> IF h \in Dead(p) THEN "idle" ELSE pc[h]]
      /\ job' = [h \in Handlers |-> IF h \in Dead(p) THEN Idle ELSE job[h]]
  BY DEF Crash, Dead, membership, room
<1>2. requests' \in 0 .. MaxRequests /\ faults' \in 0 .. MaxFaults
  BY SocketsAssumption DEF Fault, GatewayTypeOK
<1>3. placed' = {s \in placed \cap conn' :
                   \/ s \in subs
                   \/ Owner[s] \notin UsersAt(p, {"check", "restore"})
                   \/ s \notin Sockets}
  BY DEF Crash, UsersAt, Dead, SocketsOf
<1>4. strays' = {s \in strays \cup
                         {t \in Sockets : Owner[t] \in
                            UsersAt(p, {"evictRemoved", "evict"})} :
                   s \in subs' /\ Owner[s] \notin Members}
  BY DEF Crash, UsersAt, Dead, SocketsOf
<1>5. ghosts' = {u \in ghosts \cup
                         {job[h].user : h \in {g \in Dead(p) :
                                          job[g].kind = "disconnect"}} \cup
                         {Owner[s] : s \in conn \ conn'} :
                   u \in Members \ away /\ conn' \cap SocketsOf(u) = {}}
  BY DEF Crash, Dead
<1>6. MembershipInv' /\ TypeOK'
  BY <1>1, InvNext DEF MembershipInv
<1>7. \A h \in Handlers : h \notin Dead(p) => pc'[h] = pc[h] /\ job'[h] = job[h]
  BY <1>1
<1>8. JobsOK'
  BY <1>1, SocketsAssumption DEF JobsOK, JobOK, Idle
<1>9. GatewayTypeOK'
  <2>1. \A q \in Processes : Len(orders'[q]) <= MaxOrders
    BY CrashOrders, SocketsAssumption DEF GatewayTypeOK
  <2>2. /\ pc' \in [Handlers -> Labels] /\ job' \in [Handlers -> JobType]
        /\ \A h \in Handlers : pc'[h] = "idle" <=> job'[h] = Idle
    BY <1>1, IdleTyped DEF GatewayTypeOK, Labels
  <2>3. /\ placed' \subseteq Sockets /\ strays' \subseteq Sockets
        /\ ghosts' \subseteq Users
    BY <1>3, <1>4, <1>5 DEF GatewayTypeOK, Members
  <2>4. /\ ripe' \subseteq Users /\ conn' \subseteq Sockets
        /\ subs' \subseteq conn' /\ timers' \in [Processes -> SUBSET Users]
    BY <1>1 DEF GatewayTypeOK
  <2> QED
    BY <1>2, <1>6, <2>1, <2>2, <2>3, <2>4, CrashOrders DEF GatewayTypeOK
<1>10. PlacedOK'
  BY <1>1, <1>3 DEF PlacedOK
<1>11. OrdersPlaced'
  <2> SUFFICES ASSUME NEW q \in Processes, NEW i \in 1 .. Len(orders'[q])
               PROVE  Here(q) \cap SocketsOf(orders'[q][i].user) # {}
    BY DEF OrdersPlaced, Here, SocketsOf
  <2>1. q # p
    BY CrashOrders
  <2> QED
    BY <2>1, CrashOrders DEF OrdersPlaced
<1>12. RestoreDue'
  <2> HIDE DEF GatewayInv
  <2> SUFFICES ASSUME NEW q \in Processes, NEW i \in 1 .. Len(orders'[q]),
                      NEW u, u = orders'[q][i].user,
                      orders'[q][i].kind = "leave", ~ orders'[q][i].late
               PROVE  \/ \E h \in Handlers : Restoring(h, u)'
                      \/ \E j \in (i + 1) .. Len(orders'[q]) :
                           orders'[q][j].kind = "join" /\ orders'[q][j].user = u
    BY DEF RestoreDue, Restoring
  <2> USE DEF GatewayInv
  <2>1. q # p
    BY CrashOrders
  <2>2. /\ Len(orders'[q]) = Len(orders[q]) /\ Len(orders[q]) \in Nat
        /\ i \in 1 .. Len(orders[q]) /\ orders[q][i].user = u
        /\ orders[q][i].kind = "leave" /\ ~ orders[q][i].late
        /\ u \notin UsersAt(p, {"check", "restore"})
    BY <2>1, CrashOrders DEF GatewayTypeOK
  <2>3. ASSUME NEW h \in Handlers, Restoring(h, u)
        PROVE  Restoring(h, u)'
    <3>1. h \notin Dead(p)
      BY <2>2, <2>3 DEF UsersAt, Restoring
    <3> QED
      BY <1>7, <2>3, <3>1 DEF Restoring
  <2>4. \/ \E h \in Handlers : Restoring(h, u)
        \/ \E j \in (i + 1) .. Len(orders[q]) :
             orders[q][j].kind = "join" /\ orders[q][j].user = u
    BY <2>2 DEF RestoreDue
  <2>5. ASSUME NEW j \in (i + 1) .. Len(orders[q]),
               orders[q][j].kind = "join", orders[q][j].user = u
        PROVE  /\ j \in (i + 1) .. Len(orders'[q])
               /\ orders'[q][j].kind = "join" /\ orders'[q][j].user = u
    <3>1. j \in 1 .. Len(orders[q])
      BY <2>2
    <3> QED
      BY <2>1, <2>2, <2>5, <3>1, CrashOrders
  <2> QED
    BY <2>3, <2>4, <2>5
<1>13. ASSUME NEW s \in Sockets, s \notin Here(p), NEW kind, Ordered(s, kind)
       PROVE  Ordered(s, kind)'
  <2>1. Server[s] \in Processes \ {p}
    BY <1>13, SocketsAssumption DEF Here
  <2>2. /\ orders[Server[s]] \in Seq(OrderType)
        /\ orders'[Server[s]] \in Seq(OrderType)
        /\ Len(orders'[Server[s]]) = Len(orders[Server[s]])
    BY <2>1, CrashOrders DEF GatewayTypeOK
  <2>3. PICK i \in DOMAIN orders[Server[s]] :
          /\ orders[Server[s]][i].kind = kind
          /\ orders[Server[s]][i].user = Owner[s]
    BY <1>13 DEF Ordered
  <2>4. i \in 1 .. Len(orders[Server[s]]) /\ i \in DOMAIN orders'[Server[s]]
    BY <2>2, <2>3
  <2> QED
    BY <2>1, <2>3, <2>4, CrashOrders DEF Ordered
<1>14. NoEavesdropper'
  <2> SUFFICES ASSUME NEW s \in subs'
               PROVE  Excused(s)'
    BY DEF NoEavesdropper, Excused, Handling, Evicting, Checking
  <2>1. s \in subs /\ s \in Sockets /\ s \notin Here(p)
    BY <1>1 DEF GatewayTypeOK
  <2>2. Excused(s)
    BY <2>1, Listeners
  <2>3. CASE Owner[s] \in Members \/ status = "DELETED"
    BY <1>1, <2>3 DEF Excused, Members
  <2>4. CASE s \in strays
    BY <1>1, <1>4, <2>3, <2>4 DEF Excused
  <2>5. CASE Ordered(s, "leave")
    BY <1>13, <2>1, <2>5 DEF Excused
  <2>6. ASSUME NEW h \in Handlers, Evicting(h, Owner[s])
        PROVE  Excused(s)'
    <3>1. CASE h \in Dead(p)
      <4>1. Owner[s] \in UsersAt(p, {"evictRemoved", "evict"})
        BY <2>6, <3>1 DEF UsersAt, Evicting
      <4> QED
        BY <1>4, <2>1, <2>3, <4>1 DEF Excused
    <3>2. CASE h \notin Dead(p)
      BY <1>7, <2>6, <3>2 DEF Excused, Evicting
    <3> QED
      BY <3>1, <3>2
  <2>7. ASSUME NEW h \in Handlers, Checking(h, s)
        PROVE  Excused(s)'
    <3>1. h \notin Dead(p)
      BY <2>1, <2>7 DEF Dead, Here, Checking, JobsOK, JobOK
    <3> QED
      BY <1>7, <2>7, <3>1 DEF Excused, Checking
  <2> QED
    BY <2>2, <2>3, <2>4, <2>5, <2>6, <2>7 DEF Excused
<1>15. StillHears'
  <2> SUFFICES ASSUME NEW s \in placed'
               PROVE  Heard(s)'
    BY DEF StillHears, Heard, Handling, Restoring
  <2>1. /\ s \in placed /\ s \in Sockets /\ s \notin Here(p)
        /\ s \in subs \/ Owner[s] \notin UsersAt(p, {"check", "restore"})
    BY <1>1, <1>3 DEF GatewayTypeOK
  <2>2. Heard(s)
    BY <2>1 DEF StillHears, Heard, Handling, Restoring
  <2>3. CASE s \in subs
    BY <1>1, <2>1, <2>3 DEF Heard
  <2>4. CASE Ordered(s, "join")
    BY <1>13, <2>1, <2>4 DEF Heard
  <2>5. ASSUME s \notin subs, NEW h \in Handlers, Restoring(h, Owner[s])
        PROVE  Heard(s)'
    <3>1. h \notin Dead(p)
      BY <2>1, <2>5 DEF UsersAt, Restoring
    <3> QED
      BY <1>7, <2>5, <3>1 DEF Restoring, Heard
  <2> QED
    BY <2>2, <2>3, <2>4, <2>5 DEF Heard
<1>16. Accounted'
  <2> SUFFICES ASSUME NEW u \in Users, u \in Members
               PROVE  Looked(u)'
    BY <1>1 DEF Accounted, Looked, Members, Watched
  <2>1. Looked(u)
    BY DEF Accounted, Looked, Watched
  <2>2. CASE u \in away \/ Devices(u)' # {}
    BY <1>1, <2>2 DEF Looked
  <2>3. CASE u \notin away /\ Devices(u)' = {}
    <3>1. conn' \cap SocketsOf(u) = {}
      BY <2>3 DEF Devices, SocketsOf
    <3>2. CASE Devices(u) # {}
      <4>1. PICK s \in conn : Owner[s] = u /\ s \notin conn'
        BY <3>1, <3>2 DEF Devices, SocketsOf
      <4> QED
        BY <1>5, <2>3, <3>1, <4>1 DEF Looked
    <3>3. CASE u \in ghosts
      BY <1>5, <2>3, <3>1, <3>3 DEF Looked
    <3>4. ASSUME NEW h \in Handlers, Watched(h, u)
          PROVE  Looked(u)'
      <4>1. CASE h \in Dead(p)
        BY <1>5, <2>3, <3>1, <3>4, <4>1 DEF Looked, Watched
      <4>2. CASE h \notin Dead(p)
        BY <1>7, <3>4, <4>2 DEF Looked, Watched
      <4> QED
        BY <4>1, <4>2
    <3> QED
      BY <2>1, <2>3, <3>2, <3>3, <3>4 DEF Looked
  <2> QED
    BY <2>2, <2>3
<1> QED
  BY <1>6, <1>8, <1>9, <1>10, <1>11, <1>12, <1>14, <1>15, <1>16
-----------------------------------------------------------------------------
\* The invariant holds at first and is kept by every step.
LEMMA GatewayInvInit == GatewayInit => GatewayInv
<1> SUFFICES ASSUME GatewayInit
             PROVE  GatewayInv
  OBVIOUS
<1>1. /\ ripe = {} /\ conn = {} /\ subs = {} /\ Init
      /\ timers = [p \in Processes |-> {}]
      /\ orders = [p \in Processes |-> <<>>]
      /\ pc = [h \in Handlers |-> "idle"] /\ job = [h \in Handlers |-> Idle]
      /\ placed = {} /\ strays = {} /\ ghosts = {hostId}
      /\ requests = 0 /\ faults = 0
  BY DEF GatewayInit
<1>2. MembershipInv /\ TypeOK
  BY <1>1, InvInit DEF MembershipInv
<1>3. hostId \in Users /\ Members = {hostId}
  BY <1>1, <1>2 DEF Init, Members, TypeOK
<1>4. GatewayTypeOK
  <2>1. orders \in [Processes -> Seq(OrderType)]
    BY <1>1
  <2> QED
    BY <1>1, <1>2, <1>3, <2>1, IdleTyped, SocketsAssumption
       DEF GatewayTypeOK, Labels
<1>5. JobsOK
  BY <1>1, SocketsAssumption DEF JobsOK, JobOK, Idle
<1>6. PlacedOK /\ OrdersPlaced /\ RestoreDue /\ NoEavesdropper /\ StillHears
  BY <1>1
     DEF PlacedOK, OrdersPlaced, RestoreDue, NoEavesdropper, StillHears
<1>7. Accounted
  BY <1>1, <1>3 DEF Accounted
<1> QED
  BY <1>2, <1>4, <1>5, <1>6, <1>7 DEF GatewayInv

LEMMA GatewayInvNext == GatewayInv /\ [GatewayNext]_vars => GatewayInv'
<1> SUFFICES ASSUME GatewayInv, [GatewayNext]_vars
             PROVE  GatewayInv'
  OBVIOUS
<1> USE DEF GatewayInv
<1>1. [Next]_membership
  BY MembershipSteps
<1>2. CASE Aside
  <2>1. CASE Quiet
    BY <1>1, <2>1, QuietNext
  <2>2. ASSUME NEW p \in Processes, Deliver(p) \/ (Fault /\ Lose(p))
        PROVE  GatewayInv'
    BY <2>2, DeliverNext
  <2> QED
    BY <1>2, <2>1, <2>2 DEF Aside, Quiet
<1>3. CASE CrashStep
  BY <1>3, CrashNext DEF CrashStep
<1>4. ASSUME NEW h \in Handlers, HandlerStep(h)
      PROVE  GatewayInv'
  <2>1. MembershipInv'
    BY <1>1, InvNext
  <2>2. GatewayTypeOK' /\ PlacedOK' /\ JobsOK'
    BY <1>1, <1>4, HandlerTypeNext, JobTypedNext
  <2>3. OrdersPlaced' /\ RestoreDue'
    BY <1>4, OrdersPlacedNext, RestoreDueNext
  <2>4. NoEavesdropper' /\ StillHears' /\ Accounted'
    BY <1>1, <1>4, NoEavesdropperNext, StillHearsNext, AccountedNext
  <2> QED
    BY <2>1, <2>2, <2>3, <2>4
<1> QED
  BY <1>2, <1>3, <1>4, Steps

\* A socket that hears a room its user is not in has an eviction or a second look
\* coming, if the room is not deleted and the socket not one of `strays'
\* (NoEavesdropper); one whose join was granted and not taken back hears the room
\* or is about to be let in again (StillHears); and a player without a device is
\* away, about to be found so or one of `ghosts' (Accounted): joins, leaves,
\* kicks, timers, the cron job, orders, errors and crashes in any order.
THEOREM GatewaySafety ==
  GatewaySpec =>
    [](GatewayTypeOK /\ NoEavesdropper /\ StillHears /\ Accounted)
<1>1. GatewayInv => GatewayTypeOK /\ NoEavesdropper /\ StillHears /\ Accounted
  BY DEF GatewayInv
<1> QED
  BY <1>1, GatewayInvInit, GatewayInvNext, PTL DEF GatewaySpec

\* Everything the gateway, the controller and the cron job do to the membership
\* is an operation of the room service: RoomGateway implements Membership, so
\* all that MembershipProofs proves of Spec holds of it.
THEOREM GatewayImplements == GatewaySpec => Spec
<1>1. GatewayInit => Init
  BY DEF GatewayInit
<1>2. GatewayInv /\ [GatewayNext]_vars => [Next]_membership
  BY MembershipSteps DEF GatewayInv
<1> QED
  BY <1>1, <1>2, GatewayInvInit, GatewayInvNext, PTL DEF GatewaySpec, Spec
=============================================================================
