----------------------------- MODULE RoomGateway ------------------------------
(***************************************************************************)
(* Sockets, timers and rooms: how room.gateway.ts, with the HTTP routes of *)
(* room.controller.ts and the cron job, keeps the sockets that hear a room *)
(* and the users who are in it together.  The operations of the room       *)
(* service are Membership's; between them a handler waits, and anything    *)
(* may happen.                                                             *)
(*                                                                         *)
(* A user has sockets on several processes.  A process crashes with its    *)
(* sockets, handlers and timers and without a disconnect event.  An order  *)
(* to all of a user's sockets goes through Redis and reaches each process  *)
(* some time later, in order, or never; a socket's own join and leave take *)
(* effect at once.  A timer may fire at any time: it is the age of the     *)
(* offline marker that decides.                                            *)
(*                                                                         *)
(* Redis and the database may fail at every call a handler waits for.      *)
(* Refuse are the failures that leave no gap; the others, the crashes and  *)
(* the lost orders are faults, counted by `faults'.                        *)
(*                                                                         *)
(* A definition named Wrong... is a slip the code could have made; it is   *)
(* used by no action and stands beside the definition it would replace.    *)
(***************************************************************************)
EXTENDS Membership, Sequences

CONSTANTS
  Sockets, Owner, Server,  \* whose each socket is, and where
  Processes, Handlers,     \* the requests and events being handled
  None,                    \* no user, no socket
  MaxOrders,               \* bound on the undelivered orders of a process
  MaxRequests,             \* bound on the requests and lost sockets
  MaxFaults                \* bound on the faults

ASSUME SocketsAssumption ==
  /\ Owner \in [Sockets -> Users] /\ Server \in [Sockets -> Processes]
  /\ None \notin Users \cup Sockets
  /\ {MaxOrders, MaxRequests, MaxFaults} \subseteq Nat

VARIABLES
  ripe,     \* players away for longer than the grace period
  conn,     \* connected sockets: those in the room user:<id>
  subs,     \* sockets in the room's Socket.IO room
  timers,   \* offlineTimeouts of each process
  orders,   \* socketsLeave and socketsJoin on their way to each process
  pc, job,  \* per handler: position, and what it works on
  requests, faults,
  \* History: the gaps of the code that the properties leave out.
  placed,   \* sockets whose join was granted and not taken back since
  strays,   \* sockets of a user who is gone that nothing will evict
  ghosts    \* players nobody will mark as away

sockets  == <<conn, subs, timers, orders>>
handlers == <<pc, job>>
bounds   == <<requests, faults>>
history  == <<placed, strays, ghosts>>
vars == <<membership, ripe, sockets, handlers, bounds, history>>

SocketsOf(u) == {s \in Sockets : Owner[s] = u}
Here(p)      == {s \in Sockets : Server[s] = p}
Devices(u)   == conn \cap SocketsOf(u)

Idle == [kind |-> "none", user |-> None, socket |-> None, proc |-> None,
         offline |-> FALSE]

GatewayInit ==
  /\ Init
  /\ ripe = {} /\ conn = {} /\ subs = {}
  /\ timers = [p \in Processes |-> {}]
  /\ orders = [p \in Processes |-> <<>>]
  /\ pc = [h \in Handlers |-> "idle"]
  /\ job = [h \in Handlers |-> Idle]
  /\ placed = {} /\ strays = {} /\ ghosts = {hostId}
  /\ requests = 0 /\ faults = 0

At(h, label)   == pc[h] = label
Goto(h, label) == pc' = [pc EXCEPT ![h] = label]
Done(h)        == Goto(h, "idle") /\ job' = [job EXCEPT ![h] = Idle]

\* A new handler: the kind of request, its user and socket, its process.
\* Handlers differ in nothing but their name: any one that is idle will do.
Begin(h, kind, u, s, p, label) ==
  /\ At(h, "idle") /\ h = CHOOSE g \in Handlers : At(g, "idle")
  /\ Goto(h, label)
  /\ job' = [job EXCEPT ![h] = [kind |-> kind, user |-> u, socket |-> s,
                                proc |-> p, offline |-> u \in away]]

\* What every step keeps of the history, besides what it adds: a user who
\* is removed takes the places of his sockets along.
Keep(newPlaced, newStrays, newGhosts) ==
  /\ placed' = {s \in placed \cup newPlaced :
                  s \in conn' /\ seat'[Owner[s]] # 0}
  /\ strays' = {s \in strays \cup newStrays :
                  s \in subs' /\ seat'[Owner[s]] = 0}
  /\ ghosts' = {u \in ghosts \cup newGhosts :
                  /\ seat'[u] # 0 /\ u \notin away'
                  /\ conn' \cap SocketsOf(u) = {}}
KeepHistory == Keep({}, {}, {})

\* socketsLeave and socketsJoin: a message to every process.
Publish(order) ==
  /\ \A p \in Processes : Len(orders[p]) < MaxOrders
  /\ orders' = [p \in Processes |->
                  IF Here(p) \cap SocketsOf(order.user) = {} THEN orders[p]
                  ELSE Append(orders[p], order)]
-----------------------------------------------------------------------------
(* Connections *)

\* handleConnection: the socket joins user:<id>.
Connect(s) ==
  /\ s \notin conn
  /\ conn' = conn \cup {s}
  /\ UNCHANGED <<membership, ripe, subs, timers, orders, handlers, bounds>>
  /\ KeepHistory

\* handleDisconnect is called after the socket has left all its rooms.
Disconnect(h, s) ==
  /\ s \in conn
  /\ conn' = conn \ {s} /\ subs' = subs \ {s}
  /\ Begin(h, "disconnect", Owner[s], s, Server[s], "devices")
  /\ UNCHANGED <<membership, ripe, timers, orders>>
  /\ KeepHistory

\* fetchSockets: nothing to do while another device is connected.
WrongCountDevices(h) ==
  /\ At(h, "devices")
  /\ IF Cardinality(Devices(job[h].user)) < Cardinality(SocketsOf(job[h].user))
       THEN Done(h) ELSE Goto(h, "rooms") /\ UNCHANGED job
  /\ UNCHANGED <<membership, ripe, sockets, history>>
CountDevices(h) ==
  /\ At(h, "devices")
  /\ IF Devices(job[h].user) # {}
       THEN Done(h) ELSE Goto(h, "rooms") /\ UNCHANGED job
  /\ UNCHANGED <<membership, ripe, sockets, history>>

\* getUserRooms.
FindRooms(h) ==
  /\ At(h, "rooms")
  /\ IF job[h].user \in Members
       THEN Goto(h, "mark") /\ UNCHANGED job ELSE Done(h)
  /\ UNCHANGED <<membership, ripe, sockets, history>>

\* markPlayerOffline; its answer is not looked at.
MarkOffline(h) ==
  LET u == job[h].user IN
  /\ At(h, "mark")
  /\ IF u \in Members
       THEN Depart(u) /\ ripe' = ripe \ {u} /\ Goto(h, "handover")
       ELSE UNCHANGED <<membership, ripe>> /\ Goto(h, "timer")
  /\ UNCHANGED <<sockets, job>>
  /\ KeepHistory

\* The end of markPlayerOffline, for a disconnect or a leave during a game.
HandOver(h) ==
  /\ At(h, "handover")
  /\ IF /\ status = "PLAYING" /\ hostId = job[h].user /\ hostId \in away
        /\ Members # {hostId}
       THEN Transfer ELSE UNCHANGED membership
  /\ Goto(h, IF job[h].kind = "leave" THEN "evict" ELSE "timer")
  /\ UNCHANGED <<ripe, sockets, job>>
  /\ KeepHistory

\* setOfflineTimeout, in the process the socket was connected to.
SetTimer(h) ==
  /\ At(h, "timer")
  /\ timers' = [timers EXCEPT ![job[h].proc] = @ \cup {job[h].user}]
  /\ Done(h)
  /\ UNCHANGED <<membership, ripe, conn, subs, orders, history>>

\* A disconnect that fails is logged, for a lock that stays busy or an error
\* of Redis or the database.
DisconnectFails(h) ==
  /\ \E l \in {"devices", "rooms", "mark", "handover", "timer"} : At(h, l)
  /\ job[h].kind = "disconnect"
  /\ Done(h)
  /\ UNCHANGED <<membership, ripe, sockets>>
  /\ Keep({}, {}, {job[h].user})

\* markPlayerOffline, for a disconnect or a leave during a game, fails between
\* the new version and the new marker: an older marker counts no more.
OfflineFails(h) ==
  LET u == job[h].user IN
  /\ At(h, "mark") \/ (At(h, "leave") /\ status = "PLAYING")
  /\ Return(u) /\ ripe' = ripe \ {u}
  /\ Done(h)
  /\ UNCHANGED sockets
  /\ Keep({}, {}, {u})
-----------------------------------------------------------------------------
(* room:join, and POST /rooms/:code/join *)

\* The room, the membership and the marker are read; a member is confirmed,
\* anyone else is admitted if the room waits.
RequestJoin(h, s) ==
  LET u == Owner[s] IN
  /\ s \in conn /\ status # "DELETED"
  /\ u \in Members \/ status = "WAITING"
  /\ Begin(h, "join", u, s, Server[s],
           IF u \in Members THEN "confirm" ELSE "enter")
  /\ UNCHANGED <<membership, ripe, sockets, history>>
RequestHttpJoin(h, u, p) ==
  /\ status = "WAITING" /\ u \notin Members
  /\ Begin(h, "join", u, None, p, "enter")
  /\ UNCHANGED <<membership, ripe, sockets, history>>

\* markPlayerOnline; a player who has been removed meanwhile goes on as
\* anyone else.
ConfirmOnline(h) ==
  LET u == job[h].user IN
  /\ At(h, "confirm")
  /\ IF u \in Members
       THEN /\ Return(u) /\ ripe' = ripe \ {u}
            /\ Goto(h, "subscribe") /\ UNCHANGED job
       ELSE /\ UNCHANGED <<membership, ripe>>
            /\ IF status = "WAITING" THEN Goto(h, "enter") /\ UNCHANGED job
               ELSE Done(h)
  /\ UNCHANGED sockets
  /\ Keep({}, {}, {u} \cap Members)

\* clearOfflineTimeout for a player found away, client.join.
Subscribe(h) ==
  LET s == job[h].socket IN
  /\ At(h, "subscribe")
  /\ timers' = [timers EXCEPT ![job[h].proc] =
                  IF job[h].offline THEN @ \ {job[h].user} ELSE @]
  /\ subs' = subs \cup ({s} \cap conn)
  /\ Goto(h, "recheck")
  /\ UNCHANGED <<membership, ripe, conn, orders, job>>
  /\ Keep({s}, {}, {})

\* Is the player still a member?  If not, client.leave.
WrongRecheck(h) ==
  /\ At(h, "recheck")
  /\ Done(h)
  /\ UNCHANGED <<membership, ripe, sockets, history>>
Recheck(h) ==
  /\ At(h, "recheck")
  /\ IF job[h].user \in Members THEN Done(h)
     ELSE Goto(h, "unsubscribe") /\ UNCHANGED job
  /\ UNCHANGED <<membership, ripe, sockets, history>>
\* The second look fails: the handler ends, and the socket stays.
RecheckFails(h) ==
  /\ At(h, "recheck")
  /\ Done(h)
  /\ UNCHANGED <<membership, ripe, sockets>>
  /\ Keep({}, {job[h].socket}, {})
Unsubscribe(h) ==
  LET s == job[h].socket IN
  /\ At(h, "unsubscribe")
  /\ subs' = subs \ {s}
  /\ Done(h)
  /\ placed' = placed \ {s} /\ strays' = strays \ {s}
  /\ UNCHANGED <<membership, ripe, conn, timers, orders, ghosts>>

\* joinRoom, which decides on the room as it is then.
Enter(h) ==
  LET u == job[h].user IN
  /\ At(h, "enter")
  /\ IF /\ status = "WAITING" /\ u \notin Members
        /\ Cardinality(Members) < maxPlayers
       THEN /\ Join(u)
            /\ IF job[h].socket = None THEN Done(h)
               ELSE Goto(h, "attach") /\ UNCHANGED job
       ELSE Done(h) /\ UNCHANGED membership
  /\ UNCHANGED <<ripe, sockets>>
  /\ Keep({}, {}, {u} \ Members)

\* client.join, without a look at whether the player is still there.
Attach(h) ==
  LET s == job[h].socket IN
  /\ At(h, "attach")
  /\ subs' = subs \cup ({s} \cap conn)
  /\ Done(h)
  /\ UNCHANGED <<membership, ripe, conn, timers, orders>>
  /\ Keep({s}, {s}, {})
-----------------------------------------------------------------------------
(* room:leave, room:kick, their routes, and the removal of those away *)

RequestLeave(h, u, p) ==
  /\ u \in Members
  /\ Begin(h, "leave", u, None, p, "leave")
  /\ UNCHANGED <<membership, ripe, sockets, history>>

\* leaveRoom: out of a waiting room, away from a running game.
LeaveRoom(h) ==
  LET u == job[h].user IN
  /\ At(h, "leave")
  /\ IF u \notin Members
       THEN Done(h) /\ UNCHANGED <<membership, ripe>>
       ELSE /\ ripe' = ripe \ {u} /\ UNCHANGED job
            /\ \/ Leave(u) /\ Goto(h, "evictRemoved")
               \/ status = "PLAYING" /\ Depart(u) /\ Goto(h, "handover")
  /\ UNCHANGED sockets
  /\ KeepHistory

\* kickPlayer for the host of a waiting room.
KickPlayer(h, u, p) ==
  /\ Kick(u)
  /\ Begin(h, "kick", u, None, p, "evictRemoved")
  /\ ripe' = ripe \ {u}
  /\ UNCHANGED sockets
  /\ KeepHistory

\* cleanupOfflinePlayer decides on the marker and the room as they are.
MayExpire(u) == status = "WAITING" /\ u \in away \cap ripe

\* A fired timer drops its own entry, whether the cleanup then removes the
\* player, skips him or fails; it does not evict, nobody is connected.
FireTimer(h, p, u) ==
  /\ u \in timers[p]
  /\ timers' = [timers EXCEPT ![p] = @ \ {u}]
  /\ UNCHANGED <<conn, subs, orders, bounds>>
  /\ \/ /\ MayExpire(u) /\ Expire(u) /\ ripe' = ripe \ {u}
        /\ Begin(h, "timer", u, None, p, "check")
        /\ Keep({}, SocketsOf(u), {})
     \/ At(h, "idle") /\ UNCHANGED <<membership, ripe, handlers, history>>

\* The cron job on the waiting rooms.
WrongSweep(h, u, p) ==
  /\ MayExpire(u) /\ u \in timers[p]
  /\ Expire(u) /\ ripe' = ripe \ {u}
  /\ Begin(h, "cron", u, None, p, "evictRemoved")
  /\ UNCHANGED <<sockets, bounds>>
  /\ KeepHistory
Sweep(h, u, p) ==
  /\ MayExpire(u)
  /\ Expire(u) /\ ripe' = ripe \ {u}
  /\ Begin(h, "cron", u, None, p, "evictRemoved")
  /\ UNCHANGED <<sockets, bounds>>
  /\ KeepHistory

\* The removal is committed and its reply lost: nobody evicts.
EvictionFails(h) ==
  /\ At(h, "evictRemoved")
  /\ Done(h)
  /\ UNCHANGED <<membership, ripe, sockets>>
  /\ Keep({}, SocketsOf(job[h].user), {})

\* notifyClientsAfterLeave and notifyClientsAfterKick: evictUserFromRoom,
\* then restoreConcurrentMembership.
EvictRemoved(h) ==
  /\ At(h, "evictRemoved")
  /\ Publish([kind |-> "leave", user |-> job[h].user, late |-> FALSE])
  /\ Goto(h, "check")
  /\ UNCHANGED <<membership, ripe, conn, subs, timers, job, history>>

\* An eviction not yet delivered will hit whoever joins after this check.
WrongCheckRemoved(h) ==
  /\ At(h, "check")
  /\ Done(h)
  /\ UNCHANGED <<membership, ripe, sockets, history>>
NobodyRestores(u) ==
  orders' = [p \in Processes |->
               [i \in DOMAIN orders[p] |->
                  IF orders[p][i].user = u
                    THEN [orders[p][i] EXCEPT !.late = TRUE]
                    ELSE orders[p][i]]]
CheckRemoved(h) ==
  /\ At(h, "check")
  /\ IF job[h].user \in Members
       THEN Goto(h, "restore") /\ UNCHANGED <<orders, job>>
       ELSE Done(h) /\ NobodyRestores(job[h].user)
  /\ UNCHANGED <<membership, ripe, conn, subs, timers, history>>

\* The look fails: a member whom the eviction hit is not let in again.
CheckFails(h) ==
  LET u == job[h].user IN
  /\ At(h, "check")
  /\ Done(h) /\ NobodyRestores(u)
  /\ placed' = {s \in placed : s \in subs \/ Owner[s] # u}
  /\ UNCHANGED <<membership, ripe, conn, subs, timers, strays, ghosts>>
Restore(h) ==
  /\ At(h, "restore")
  /\ Publish([kind |-> "join", user |-> job[h].user, late |-> FALSE])
  /\ Done(h)
  /\ UNCHANGED <<membership, ripe, conn, subs, timers, history>>

\* notifyClientsAfterOffline evicts as well, and restores nobody.
EvictAway(h) ==
  /\ At(h, "evict")
  /\ Publish([kind |-> "leave", user |-> job[h].user, late |-> TRUE])
  /\ Done(h)
  /\ UNCHANGED <<membership, ripe, conn, subs, timers, history>>

\* An order arrives at a process.
Deliver(p) ==
  /\ orders[p] # <<>>
  /\ orders' = [orders EXCEPT ![p] = Tail(@)]
  /\ UNCHANGED <<membership, ripe, conn, timers, handlers, bounds>>
  /\ LET o == Head(orders[p])
         ss == Here(p) \cap Devices(o.user)
     IN \/ /\ o.kind = "leave"
           /\ subs' = subs \ ss
           /\ placed' = IF o.late THEN placed \ ss ELSE placed
           /\ strays' = strays \ ss
           /\ UNCHANGED ghosts
        \/ /\ o.kind = "join"
           /\ subs' = subs \cup ss
           /\ Keep({}, ss, {})

\* A process that is reconnecting to Redis misses an order.
Lose(p) ==
  LET o == Head(orders[p])
      ss == Here(p) \cap Devices(o.user)
  IN
  /\ orders[p] # <<>>
  /\ orders' = [orders EXCEPT ![p] = Tail(@)]
  /\ UNCHANGED <<membership, ripe, conn, subs, timers, handlers, ghosts>>
  /\ \/ /\ o.kind = "leave"
        /\ strays' = strays \cup {s \in ss \cap subs : o.user \notin Members}
        /\ UNCHANGED placed
     \/ /\ o.kind = "join"
        /\ placed' = {s \in placed : s \in subs \/ s \notin ss}
        /\ UNCHANGED strays
-----------------------------------------------------------------------------
\* LOCK_BUSY, or an error of Redis or the database that leaves no gap: the
\* request is refused before anything is written, or it fails afterwards and
\* a confirmed return, a new membership or a leave during a game goes without
\* its join or its eviction.
Refuse(h) ==
  /\ \/ \E l \in {"confirm", "subscribe", "enter", "attach", "leave",
                  "evict"} : At(h, l)
     \/ At(h, "handover") /\ job[h].kind = "leave"
  /\ Done(h)
  /\ UNCHANGED <<membership, ripe, sockets, history>>

\* The rest of the room service; the cleanup of idle rooms tells nobody.
OthersAct ==
  /\ requests < MaxRequests /\ requests' = requests + 1
  /\ \/ Start \/ End \/ UpdateSettings
     \/ Abandon
  /\ ripe' = IF status' = "DELETED" THEN {} ELSE ripe
  /\ UNCHANGED <<sockets, handlers, faults>>
  /\ Keep({}, IF status' = "DELETED" THEN Sockets ELSE {}, {})

Ripen(u) ==
  /\ u \in away \ ripe
  /\ ripe' = ripe \cup {u}
  /\ UNCHANGED <<membership, sockets, handlers, bounds, history>>

\* The sockets, handlers, timers and undelivered orders of a process are
\* gone; a removal that was not evicted, checked or restored stays so.
Crash(p) ==
  LET dead == {h \in Handlers : job[h].proc = p}
      lost == {job[h].user : h \in {g \in dead : job[g].kind = "disconnect"}}
      unevicted == {job[h].user : h \in {g \in dead :
                                     pc[g] \in {"evictRemoved", "evict"}}}
      unrestored == {job[h].user : h \in {g \in dead :
                                     pc[g] \in {"check", "restore"}}}
      Of(us) == UNION {SocketsOf(u) : u \in us}
      Late(o) == IF o.user \in unrestored THEN [o EXCEPT !.late = TRUE] ELSE o
  IN
  /\ dead # {} \/ Here(p) \cap conn # {} \/ timers[p] # {}
  /\ conn' = conn \ Here(p) /\ subs' = subs \ Here(p)
  /\ timers' = [timers EXCEPT ![p] = {}]
  /\ orders' = [q \in Processes |-> IF q = p THEN <<>>
                  ELSE [i \in DOMAIN orders[q] |-> Late(orders[q][i])]]
  /\ pc' = [h \in Handlers |-> IF h \in dead THEN "idle" ELSE pc[h]]
  /\ job' = [h \in Handlers |-> IF h \in dead THEN Idle ELSE job[h]]
  /\ placed' = {s \in placed \cap conn' :
                  s \in subs \/ s \notin Of(unrestored)}
  /\ strays' = {s \in strays \cup Of(unevicted) :
                  s \in subs' /\ Owner[s] \notin Members}
  /\ ghosts' = {u \in ghosts \cup lost \cup {Owner[s] : s \in conn \ conn'} :
                  u \in Members \ away /\ conn' \cap SocketsOf(u) = {}}
  /\ UNCHANGED <<membership, ripe>>
-----------------------------------------------------------------------------
Step(h) ==
  /\ UNCHANGED bounds /\ ~ At(h, "idle")
  /\ \/ CountDevices(h) \/ FindRooms(h) \/ MarkOffline(h) \/ HandOver(h)
     \/ SetTimer(h)
     \/ ConfirmOnline(h) \/ Subscribe(h) \/ Recheck(h) \/ Unsubscribe(h)
     \/ Enter(h) \/ Attach(h)
     \/ LeaveRoom(h) \/ EvictRemoved(h) \/ CheckRemoved(h) \/ Restore(h)
     \/ EvictAway(h) \/ Refuse(h)

Request(h) ==
  /\ requests < MaxRequests /\ requests' = requests + 1 /\ UNCHANGED faults
  /\ \/ \E s \in Sockets : Disconnect(h, s) \/ RequestJoin(h, s)
     \/ \E u \in Users, p \in Processes :
          \/ RequestHttpJoin(h, u, p) \/ RequestLeave(h, u, p)
          \/ KickPlayer(h, u, p)

Fault == faults < MaxFaults /\ faults' = faults + 1 /\ UNCHANGED requests

\* The failures that leave a gap.
Fails(h) ==
  \/ DisconnectFails(h) \/ OfflineFails(h)
  \/ RecheckFails(h) \/ EvictionFails(h) \/ CheckFails(h)

GatewayNext ==
  \/ \E s \in Sockets : Connect(s)
  \/ \E h \in Handlers : Request(h) \/ Step(h)
  \/ \E h \in Handlers, u \in Users, p \in Processes :
       FireTimer(h, p, u) \/ Sweep(h, u, p)
  \/ \E p \in Processes : Deliver(p)
  \/ \E u \in Users : Ripen(u)
  \/ OthersAct
  \/ Fault /\ \/ \E h \in Handlers : Fails(h)
              \/ \E p \in Processes : Crash(p) \/ Lose(p)

GatewaySpec == GatewayInit /\ [][GatewayNext]_vars

\* Handlers that have begun go on, messages arrive, time passes, and the
\* cron job comes by: none of it can go on forever without a new request.
Progress ==
  /\ UNCHANGED bounds
  /\ \/ \E h \in Handlers : Step(h)
     \/ \E p \in Processes : Deliver(p)
     \/ \E u \in Users : Ripen(u)
     \/ \E h \in Handlers, u \in Users, p \in Processes : Sweep(h, u, p)

FairSpec == GatewaySpec /\ WF_vars(Progress)
-----------------------------------------------------------------------------
Labels == {"idle", "devices", "rooms", "mark", "handover", "timer", "confirm",
           "subscribe", "recheck", "unsubscribe", "enter", "attach", "leave",
           "evictRemoved", "evict", "check", "restore"}

OrderType == [kind : {"leave", "join"}, user : Users, late : BOOLEAN]
JobType ==
  [kind : {"none", "disconnect", "join", "leave", "kick", "timer", "cron"},
   user : Users \cup {None}, socket : Sockets \cup {None},
   proc : Processes \cup {None}, offline : BOOLEAN]

GatewayTypeOK ==
  /\ TypeOK
  /\ ripe \subseteq Users /\ conn \subseteq Sockets /\ subs \subseteq conn
  /\ timers \in [Processes -> SUBSET Users]
  /\ orders \in [Processes -> Seq(OrderType)]
  /\ \A p \in Processes : Len(orders[p]) <= MaxOrders
  /\ pc \in [Handlers -> Labels]
  /\ job \in [Handlers -> JobType]
  /\ \A h \in Handlers : pc[h] = "idle" <=> job[h] = Idle
  /\ placed \subseteq Sockets /\ strays \subseteq Sockets
  /\ ghosts \subseteq Users
  /\ requests \in 0 .. MaxRequests /\ faults \in 0 .. MaxFaults

Handling(u, labels) ==
  \E h \in Handlers : pc[h] \in labels /\ job[h].user = u
Ordered(s, kind) ==
  \E i \in DOMAIN orders[Server[s]] :
    /\ orders[Server[s]][i].kind = kind
    /\ orders[Server[s]][i].user = Owner[s]

\* A socket in the room of a user who is not has an eviction or a second look
\* coming, unless the room is deleted or the socket is one of `strays': nothing
\* looked again or nobody evicted (the first join, a late restore, a timer, the
\* idle cleanup), or a crash, a failed call or a lost order took the eviction or
\* the second look away.  Those may stay for ever.
NoEavesdropper ==
  \A s \in subs :
    \/ Owner[s] \in Members \/ s \in strays \/ status = "DELETED"
    \/ Handling(Owner[s], {"evictRemoved"}) \/ Ordered(s, "leave")
    \/ \E h \in Handlers :
         job[h].socket = s /\ pc[h] \in {"recheck", "unsubscribe"}

\* A socket in `placed' hears the room or is about to be let in again.  It left
\* `placed' with its connection or its user's seat, and where the code takes
\* back a join it granted and does not make up for it: by an eviction that
\* arrives when no check of it is to come, by the second look of an earlier
\* membership, or when the look, the order or the process that was to restore
\* it fails.
StillHears ==
  \A s \in placed :
    \/ s \in subs
    \/ Handling(Owner[s], {"check", "restore"}) \/ Ordered(s, "join")

\* A player without a connected device is away, or a disconnect handler is about
\* to find out, or he is one of `ghosts': nobody will (he has only used HTTP, his
\* socket dropped while a join or a return was under way, a disconnect failed or
\* was lost in a crash).
Accounted ==
  \A u \in Members :
    \/ Devices(u) # {} \/ u \in away \/ u \in ghosts
    \/ \E h \in Handlers :
         /\ job[h].kind = "disconnect" /\ job[h].user = u
         /\ pc[h] \in {"devices", "rooms", "mark"}

\* The seat of a player who is gone becomes free: timers are lost, the cron
\* job is not.
Stranded(u) ==
  /\ status = "WAITING" /\ seat[u] # 0 /\ u \notin ghosts
  /\ Devices(u) = {}
SeatFreed == \A u \in Users : Stranded(u) ~> ~ Stranded(u)

\* room.gateway.ts:465: "Only mark offline and schedule cleanup when ALL
\* devices are disconnected", so never while one of them hears the room.
MarkedWhenGone ==
  [][ \A h \in Handlers :
        pc[h] = "mark" /\ pc'[h] = "handover" =>
          SocketsOf(job[h].user) \cap subs = {} ]_vars
=============================================================================
