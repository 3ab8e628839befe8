# TLA+ models of the NightDeal backend

NightDeal is a NestJS server for social-deduction games. Players share a room,
the host starts a game, roles are dealt, and for Avalon the server then runs the
whole game: team proposals, votes, quests and the assassination. State lives in
two stores (PostgreSQL for rooms, players and game records; Redis for the running
game, locks and presence), and any number of server processes may serve one room.

This directory holds TLA+ modules translated from the source, the TLC runs that
check them on small instances, and TLAPS proofs for every instance.
`PROJECT.json` maps each definition to the lines it stands for. Paths below are
relative to `src/src/`.

## 1. Inventory

| Component | State it keeps | Operations | Models |
|---|---|---|---|
| Avalon engine (`avalon/game-engine.ts`, `types.ts`) | none; pure functions over `AvalonGameState` | create, begin, propose, vote, resolve vote, quest ticket, resolve quest, assassinate | `GameEngine`, `GameSoundness`, `AvalonGame` |
| Role generation (`room/role-config.schema.ts`, `room/sgs-role-assigner.ts`, `generateRoles`) | none | presets, validation of a configuration, pool of roles | `RoleDeal` |
| Role views (`avalon/visibility.ts`) | none | what one player is shown | `AvalonView` |
| Avalon service (`avalon/avalon.service.ts`) | the game in Redis; per process `roomChains` (promise chains) and `roomLeases` | every engine function under the room lock; `updateHost`, `markPlayerOnline/Offline`, `initializeGame` | `AvalonService`, `RoomLifecycle` |
| Avalon gateway (`avalon/avalon.gateway.ts`) | socket rooms | one handler per message; resolves a vote or quest after the last ballot; broadcasts | `AvalonService` (control flow only) |
| Redis service (`redis/redis.service.ts`) | lock tokens with a TTL, JSON values | `withLock`, fenced set, fenced delete | inside `AvalonService`, `RoomLifecycle`, `RoomPresence` |
| Room lifecycle (`room/room.service.ts`: `startGame`, `endGame`) | room status and host, roles, game records, lifecycle lock | start, rollback, end, generation check | `RoomLifecycle` |
| Membership and settings (`room/room.service.ts`, `seat-assigner.ts`) | `room_players`, seats, room limit, `roleConfig` | create, join, leave, kick, settings | `Membership`, `RoomPresence`; `roleConfig` in `RoomLifecycle` |
| Presence (`room/room.service.ts`) | offline markers bound to a player row and a version, presence lock | online, offline, expiry, host transfer | `RoomPresence`; the transfer's writes in `RoomLifecycle` |
| Idle-room cleanup (`cleanupIdleRooms`) | none of its own | cron job that deletes idle rooms | `RoomPresence`, `RoomLifecycle` |
| Room gateway and routes (`room/room.gateway.ts`, `room.controller.ts`) | socket rooms, `offlineTimeouts` in each process | connect, disconnect, join, leave, kick, eviction, timers | `RoomGateway` |
| Socket adapter (`redis/redis-io.adapter.ts`) | none | carries `socketsLeave` and `socketsJoin` between processes | inside `RoomGateway` |
| Authentication (`auth/`) | JWT, session record in Redis | log in, verify | not modelled |
| Storage, health, filters, interceptors, wiring | none of interest | I/O, formatting | not modelled |

How they interact:

- A socket message reaches a gateway handler. It asks the database whether the
  caller is an active member of a playing room (`requireActiveMember`), then calls
  the service, sometimes more than once: a vote is one locked section, the question
  "was that the last vote?" is an unlocked read, the resolution a second locked
  section.
- A locked section waits in the promise chain its process keeps for the room, takes
  `lock:avalon:<code>:state` with `SET NX PX` and a random token, reads the state,
  computes, and writes with a script that compares the token (the *fence*). The
  lease is renewed while the section runs and may still be lost.
- `startGame` and `endGame` run under a second Redis lock (lifecycle). Starting
  commits the database first, then writes the state to Redis inside a transaction
  that keeps the room row locked. Ending resets the database first, then deletes the
  state under the state lock. The id of the game record, the *generation*, ties the
  two stores together: `getGameState` returns a state only if the database plays its
  generation.
- A member whose last socket is gone gets an offline marker, under a third Redis lock
  per player (presence). In a waiting room the marker, once old enough, removes the
  player: by a timer in the process that saw the disconnect, or by the cron job. In a
  playing room the player stays, and if it was the host another player becomes host,
  first in the database, then in the state.
- A player who is removed has all sockets evicted from the room's socket room by an
  order that travels through Redis to every process. Since the player may have come
  back meanwhile, the membership is looked up again afterwards and the sockets
  restored if need be.

Hard behaviours: read-modify-write by several processes; leases that expire under
their holder; lost replies and crashes between two stores; work that follows a commit
outside the lock; a return that races the removal; orders delivered after what they
were decided on has changed; timers that die with their process; several kinds of
locks held together; long games that must reach exactly one justified verdict. What
makes each component correct:

- engine: scores, round, history and verdict agree; somebody can always move; every
  game ends; no quest without a majority; what is closed stays as it was;
- roles and views: the deal is the one the settings announced, nobody sees what their
  role must not, and the buttons are the moves the engine takes;
- service and gateway: every write is one engine step from the state it replaces,
  a complete vote or quest is resolved once, no request blocks its room for ever,
  an ended game stays ended;
- lifecycle: status, roles, open record and Redis state describe the same game, under
  any crash and any lost lock, and every operation returns;
- membership and presence: seats are distinct and within the limit, a running game
  keeps its players, nobody who is back is removed, a host who goes is succeeded by
  somebody who is there;
- room gateway: whoever hears a room is in it and whoever is in it hears it, a player
  without a device is noticed and in the end loses the seat.

`PROJECT.json` lists the hazards line by line with the properties that watch them.

## 2. Modules

| Module | What it is |
|---|---|
| `GameEngine` | The rules as pure operators. An engine function `f` becomes `CanF` (the checks at its top, which throw) and `F` (the state it returns). Players are seat indices, `Stranger` is anybody else. |
| `GameSoundness` | What a state of a game must satisfy, as predicates on a state: `Stands`, `Justified`, `Ledger`, `Mandate`, `Movable`, and the stronger `Sound` that every engine function keeps; and what a move may never do, as a predicate on two states (`Forward`: `RecordKept`, `Shrinks`). |
| `AvalonGame` | The abstract game: one variable `game`, one atomic step per engine function. This is what the server promises its players. |
| `RoleDeal` | Presets, validation of a configuration and the pools of roles, for Avalon and SGS. `PresetsAssumption` states about the constant tables what TLC evaluates: every preset is one the validation accepts and the generator can deal, for every number of players. |
| `AvalonView` | `getPlayerView` for any state of `AvalonGame` under any deal, so that one table can be shown under two deals and compared. |
| `AvalonService` | The detailed game: handlers, promise chains, leases, fenced writes, the look after the last ballot, `endGame`'s deletion, faults. Instantiates `AvalonGame WITH game <- store`. |
| `RoomLifecycle` | Games of a room started, rolled back, ended, handed over and cleaned up, across PostgreSQL, Redis and three locks, with faults. |
| `Membership` | The abstract room: who is in it, on which seat, who is away, each operation in one step. |
| `RoomPresence` | The detailed room: transactions and row lock, presence lock, markers with row and version, the cron jobs, faults. Shown to implement `Membership`. |
| `RoomGateway` | `Membership` composed with sockets, timers, handlers and orders in flight between processes, with crashes, failed calls and lost orders. |
| `GameSoundnessProofs` | Lemmas about the engine alone: each function, applied where it does not throw, keeps `Sound` and goes `Forward`. The proofs about the game and about the service both stand on them. |
| `AvalonGameProofs`, `AvalonViewProofs`, `AvalonServiceProofs`, `RoomLifecycleProofs`, `MembershipProofs`, `RoomPresenceProofs`, `RoomGatewayProofs` | TLAPS proofs about the module each is named for. |
| `MC...` | Constants for TLC. |

A definition named `Wrong...` is a slip the code could plausibly have made, such as a
dropped guard or an off-by-one. No action uses it; it stands before the definition
it would replace, so that each property can be shown to catch a real mistake.

### State and code

- The invariants of `AvalonGame` are the predicates of `GameSoundness` of its variable:
  `Standing` is `Stands(game)`, `VerdictJustified` is `Justified(game)`, `QuestLedger`
  `Ledger(game)`, `QuestMandate` `Mandate(game)` and `NoDeadEnd` `Movable(game)`.
- `game`/`store` is `AvalonGameState` without names, seats and the copies of role ids
  (`merlinId`, `assassinId` follow from `Role`, a constant of the model). Absent
  votes, tickets, winner and reason are `"none"`.
- `roomChains[i]` and `roomLeases[i]` are the entries of this room in process `i`'s maps
  of the same names; the code keys the leases by room, not by section. `home` says in
  which process each handler runs. `lock` is the Redis key; `Orphan` is a token whose
  owner is gone.
- `pc[h]` is where a handler stands: `queued`, `locked`, `decided` (engine
  computed, write outstanding), `release`, `check` (the unlocked look).
- In `RoomLifecycle` the room row is `status`, `hostId`, `roleConfig`; `openRecords`
  are game records without `endedAt`; `roles` and `dealt` say which generation's roles
  the players hold and from which settings; `store` keeps generation, settings and
  host of the Redis state. A database transaction is one step, except the ones of
  `initializeAvalonGame` and of the cleanup, which keep `rowLock` over Redis calls.
  `cfg` in `job` is the room snapshot the start took and later what it dealt from.
- `active` in `AvalonService` is the generation check; `EndGame` switches it off, as
  `resetRoomDatabase` does, before the deletion.
- In `Membership` `seat[u]` is the seat of a row of `room_players`, 0 without one; `away`
  are the members whose going has taken effect and whose return has not. In
  `RoomPresence` going takes effect where the presence version is bumped, a return
  at the update of the room that ends it (`Confirm`), neither where its request
  begins; that choice of step is what makes the refinement hold.
- In `RoomGateway` `conn` are the sockets of `user:<id>`, `subs` those in the room's
  socket room, `timers[p]` is `offlineTimeouts` of a process, `orders[p]` what the
  adapter has not delivered there yet. `ripe` are the players away for longer than
  the grace period.
- `placed`, `strays` and `ghosts` in `RoomGateway` are history: which sockets
  were granted a place that was not taken back since, which hear a room their user has
  left although nothing will evict them, which players nobody will mark as away. All
  three may last for ever. They record the gaps of the code listed in section 5,
  and the invariants say what holds outside them.

### Abstractions

- Time is not modelled: a lease may expire or a wait be given up at any moment, at the
  price of one fault; an offline marker ripens at any moment. The 24-hour life of
  a game state (`avalon.service.ts:40`) is left out.
- Broadcasts, logging and messages are left out. What a client is told after a
  resolution is read without the lock (`avalon.gateway.ts:488`), so announcements may
  overtake each other; no property is about them.
- In `RoomLifecycle` the presence lock around a host transfer is left out, so transfers
  interleave more freely than in the code: safety results carry over. The game's own
  progress is irrelevant and absent; an SGS room starts by the same transaction
  without `InitTx` onwards.
- `RoomGateway` takes the operations of the room service as atomic (`Membership`), which
  `RoomPresence` justifies; handlers may be interrupted between any two of them. Which
  of the idle handlers takes a request is fixed: they differ in nothing but their name.
- Redis and the database may fail at every call of `RoomGateway`. Failures that leave no
  gap (`Refuse`) may happen at any time; those after which a socket, an
  eviction or a marker is missing (`Fails`) cost a fault and are recorded in the history.
- The shuffle is a free choice: `Role` is any deal of good and evil roles with a good
  player in it. `generateRoles` refuses a deal without an Assassin although
  `resolveQuest` has a branch for it; the branch is checked all the same.

## 3. Runs

Bounds are named constants in the `.cfg` files.

| Run | Question | Bounds, and why they are enough |
|---|---|---|
| `game_six` | Do score, round, history and verdict agree in whole games; can somebody always move; does a tie, a wrong team or a good player's fail ticket ever carry a quest; are the buttons honest and the deal the one announced; is every closed record final; does each game end? | Six players (the smallest even number, so that votes tie) with the standard roles; proposals of right and wrong size, with a repeated member and a stranger; two free votes decide each team; every ticket. 201,570 states. |
| `game_seven` | Do the two-fail rule and a game without an Assassin work; does any field of a view tell apart two deals that must look alike? | Seven players, the smallest number with that rule, with all special roles but the Assassin; every team passes, so that the fourth quest is always reached; host and connection of a player change. 227,500 states. |
| `service_races` | Is every write one engine step from what it replaces, from the writer's own lease, and never after the deletion? | Two handlers in one process (sharing a promise chain) or in two (competing through Redis), just before the last votes or the last ticket of the third quest, with the assassination and a host transfer; two faults: one to lose a lease, one more to fail afterwards. 1,489,319 states up to symmetry. |
| `service_game` | Does the service implement `AvalonGame`? | From the deal through the first quest, two handlers sharing a process, no fault. 948,839 states. |
| `service_recover` | Is a complete vote or quest always resolved, does every handler end? | Starts just before a fifth rejection, an ordinary quest's and a deciding quest's close; one process, one fault. 177,698 states. |
| `service_stuck` | *Violation*: a complete vote is resolved whatever happens to a handler. | The same, see section 5. |
| `lifecycle_faults` | May a late starter, ender, rollback or cleanup touch another generation's state? Is the game played with the settings the room shows? | Two workers, two configurations, two games: a stale actor and its successor. Two faults: one to lose a lock, one more to fail. No transaction timeout. 2,066,984 states up to symmetry. |
| `lifecycle_ends` | Can lifecycle lock, row lock and state lock deadlock, or block an operation? | Two workers, one game, one fault, a transaction timeout included. 200,640 states. |
| `lifecycle_txexpires` | *Violation*: a stale starter cannot initialise a game that was ended. | Two faults, a transaction timeout included. |
| `presence` | Does the room service implement `Membership`; is a player who is back ever removed; is a host who goes succeeded by somebody who is there? | Three users (a host, a successor, one to join), rooms of two or three seats, two concurrent operations, four requests, one crash or lost lease. 1,589,993 states up to symmetry. |
| `gateway` | Does whoever hears a room belong there, and the reverse; is a player without a device noticed; is the seat freed? | Two users, one with a device on each of two processes, two handlers, three requests (leave, rejoin, leave), two undelivered orders per process, one fault (a crash, a failed call or a lost order). 457,226 states. |
| `gateway_connected` | *Violation*: a player is marked offline only when no device hears the room. | The same, see section 5. |

Deadlock checking is on for the games, where it would be a game that is stuck, and off
elsewhere: the inputs of a run are finite and the system may come to rest. Symmetry
is used in runs without liveness only (`service_races`, `service_game`,
`lifecycle_faults`, `presence`), over sets whose members nothing tells apart.

`VoteResolved` and `QuestResolved` ask for a resolution of fault-free behaviours only
(or of a vote or quest that the game's end overtakes); `service_stuck` shows why the
unconditional form is false.

### Fairness

- `AvalonGame!FairSpec`: weak fairness of `Progress`: the players keep playing.
  Nothing is assumed about *which* move they make. Only `GameEnds` uses it.
- `AvalonService!FairSpec`: weak fairness of each handler's own steps (the event
  loop runs it, its awaits return or fail), of `endGame`'s steps, and of
  `EvictOrphan`, since Redis evicts a token nobody renews. Nobody has to send a
  message or end the game. The run has one process: with two, a handler might lose
  the race for the lock again and again, and what the code promises is only that it
  gives up after 40 attempts (`LockBusy`).
- `RoomLifecycle!FairSpec`: weak fairness of each worker, and strong fairness of taking
  the room row, since PostgreSQL hands a row lock to its waiters in order. Waits for
  Redis locks can be given up (`EnterBusy`, `InitBusy`, `DelBusy`, `HostBusy`, ...), as
  `withLock` does after its bounded number of attempts.
- `RoomGateway!FairSpec`: weak fairness of `Progress`: handlers that have begun go on,
  orders are delivered (or lost, at the price of a fault), time passes, and the cron job comes by. A timer need never
  fire, for its process may have died.

Nothing is assumed about requests or about faults.

## 4. Proofs

Assumptions are the named `ASSUME`s of the modules, which TLC evaluates on every run:

- the game: five to ten players, good and evil roles with a good player among them,
  Boolean flags, inputs and requests of the right types;
- the service: handlers' homes among the processes, lock values that are no handler, and
  starts that are `Sound`, as a freshly created state is (lemma `DealSound`). A start in
  the middle of a game serves the runs;
- the room: finitely many users; at least one player to start, no more than the seats;
- `"none"`-like values (`None`, `NoGame`, `Free`, `Orphan`) distinct from what they stand
  beside; bounds that are numbers. No theorem needs a particular bound.

Every safety invariant and every action property of the passing runs is stated by a
theorem, and so is each of their refinements.

| Theorem | Says, for every value of the constants |
|---|---|
| `GameSafety` | `[](TypeOK /\ Standing /\ VerdictJustified)` |
| `QuestSafety` | `[](QuestMandate /\ QuestLedger /\ NoDeadEnd)` |
| `RecordIsFinal`, `GameTerminates` | a closed record is final; each move uses up some of a bounded number of moves |
| `ButtonsAreHonest` | a view offers a move exactly when the engine takes it |
| `RolesStayHidden` | two deals a viewer is not to tell apart give the viewer the same view, field by field |
| `SettingsAreKept` | accepted settings that yield the roles on the table announced these roles, with a Merlin and an assassin |
| `ServiceFenced` | for any number of handlers, processes and faults: a section that still holds the lock works on the stored state, and with its own lease |
| `EndedStaysDeleted`, `EveryWriteIsAMove` | a deleted game is never written; every write is one step of `AvalonGame` |
| `StoredGameIsSound` | what Redis holds is a sound game: `TypeOK` and all of the game's invariants, of the stored state |
| `StoredGameMovesOn` | what the two theorems about the record say of the game, said of every write to Redis: a stored verdict is final, no quest is rewritten or scored twice, and no retry sends the game round in circles |
| `ServiceIsAGame` | if every start is a freshly created state, `AvalonService` implements `AvalonGame` |
| `DealSafety` | `[](TypeOK /\ DbConsistent /\ DealMatches)`, any fault included: the database's account of a game is one account, and the visible state has its settings and roles |
| `FenceSafety` | if no transaction outlives its time limit: `[]ActiveGameReadable` and `FencedInit` |
| `MembershipSafety`, `GameKeepsPlayers` | distinct seats, the limit, a host who is a member; a running game keeps its players |
| `PresenceSeats`, `PresenceFrozen` | the same two of `RoomPresence`, for any number of operations, crashes and lost leases |
| `PresenceSafety` | `PresenceTypeOK`, and a host who is a member until a lease is lost |
| `PresenceImplements` | until a lease is lost, each transaction and Redis call is one step of `Membership` or none |
| `ReturnsAreKept` | no expiry or cleanup removes a player whose return was confirmed; after a lost lease, of a first membership |
| `HeirIsOnline`, `GamesAreHandedOver` | until a lease is lost: an online member succeeds the host if there is one; a host who goes offline in a game hands it over |
| `GatewaySafety` | `[](GatewayTypeOK /\ NoEavesdropper /\ StillHears /\ Accounted)`: outside `strays`, `placed` and `ghosts`, with crashes, failed calls and lost orders |
| `GatewayImplements` | `RoomGateway` implements `Membership` |

Along which argument:

- *The game* (`GameInv`, which is `Sound(game)`). The type alone is not inductive: round,
  scores and rejection counter are bounded only because a deciding quest or a fifth
  rejection ends the game. `Stands` supplies that: while quests are played both
  scores are below three and the round is one more than their sum, so a quest that does
  not decide leaves a round of at most five; the counter is below five in an unfinished
  game. `Justified` needs `Stands` to know that the losing side has not reached
  three, too. `TeamKept` adds that the team on the table has the size of the round and
  distinct members, `TicketsKept` that a quest under way was approved, that only members
  have a ticket and no good player a fail. `Mandate` and `Movable` then follow: the
  leader has a team to propose, somebody a vote not yet cast, a team member a ticket, or
  the resolution is due. For each engine function one lemma keeps `Core` and one `Sound`.
- *The record* (`Forward`). A measure of the phases, rejections and quests left (`MovesLeft`)
  decreases with every move, and only closing a quest writes the history, when as many
  tickets as members are in, all of them members'. One lemma for each engine function.
- *The views.* Both sides of `ButtonsHonest` test the same fields, except that the
  assassination asks for a target: `GameInv` and `SomeGoodAssumption` give one. A field of
  a view depends on a role only through membership in a list of recognised roles;
  exchanged roles are both on it or both off it. That the settings announce what is dealt
  follows from the counts of each card in the pool, for every accepted configuration.
- *The service* (`ServiceInv`): type correctness, `Chained`, `SnapshotCurrent` and `Decided`
  (what is about to be written is a move the engine accepted). `Chained` says that whoever
  waits or works is in the promise chain of its process (`InChain`) and that a section
  finds its own lease in `roomLeases` (`OwnLease`); from it follows that a write the
  fence admits comes from the holder of the lock, hence (`SnapshotCurrent`) from the
  state it replaces. Lemmas state that the engine of the instance `Game!` is the engine of
  the module, so that `Game!Next` follows from the action decided. `StoreInv` adds
  `Sound(store)`: a write replaces a sound state by what an accepted engine function
  returns, which is sound, and a step `Forward`, by the lemmas of `GameSoundnessProofs`.
- *The lifecycle, without any lock* (`DealInv`). Every transaction asks again what it needs of
  the row (`DbConsistent`). What a job has remembered is only used for a generation that exists (`JobsOK`), a stored state
  has the settings of its generation (`StoreOK`), and the settings of the last
  generation do not change while it is being played (`SettingsFrozen`). A visible
  state is of the active generation, hence `DealMatches`, and no lock is mentioned.
- *The lifecycle, with its row lock* (`FenceInv`). A starter holds the row from revalidating
  its game until Redis has answered (`RowHeld`), so the game stays open meanwhile
  (`InitFenced`) and its state is there when it commits (`Written`); a transfer that still
  owns the state lock replaces what it has read (`HostSnapshot`); an open game whose
  starter neither died nor failed to roll back has its state or its starter (`Readable`).
  The hypothesis `~ TxMayExpire` is needed: without it `lifecycle_txexpires` is
  the counterexample (section 5).
- *The room* (`MembershipInv`): type correctness, `SeatsSound`, `HostPresent`, that who
  is away is a member, and that a playing room has enough players.
- *Presence, by the row lock alone* (`SeatInv`): each transaction that gives or takes a seat
  decides again on the row it has locked, so seats are kept sound by whatever stale plan
  a worker brings along. Markers and leases are not needed for this, and cannot break it.
- *Presence, with its own lock* (`PresenceInv`): who holds the presence lock; nobody has
  read a version that is yet to come; all evidence of absence (a valid marker, a disconnect
  about to write one, an expiry or cleanup that has read one) is about a user who is
  away; what an operation has planned under the lock is still so when it acts; everybody in
  a room that is about to be deleted as idle is away (`EmptyRoom`). After a lost
  lease (`leaseLost`) plans prove nothing, and the properties that rest on them say so. `ReturnKept` rests on the
  versions and survives it, but for the exception that `Sure(u)` names: somebody who left
  and joined again during the loss (section 5).
- *The room gateway* (`GatewayInv`): handlers work for the user and socket they began with
  (`JobsOK`); a granted place is a connected member's (`PlacedOK`); a process is
  only sent orders for users it may have, so a join order reaches every process the
  eviction reached (`OrdersPlaced`); behind every eviction that is not late there is, in
  the same queue, the join that makes up for it, or a handler that has yet to look the
  membership up (`RestoreDue`). `StillHears` stands on these; `NoEavesdropper` and
  `Accounted` have one lemma for each kind of step. A fault or a late order must
  show in the history: the lemmas show that no other socket or player is struck.

No invariant is only model-checked. Liveness (`GameEnds`, `VoteResolved`, `QuestResolved`,
`EveryRequestEnds`, `OperationsEnd`, `SeatFreed`) is out of the prover's reach and stays
with TLC. So do the negative results of section 5, which are counterexamples. The bodies
of `GenerateRoles` and `FreeSeat` are sets and choices, not recursion, so nothing is
left to induction over data.

## 5. Findings

1. **A complete vote can stay unresolved** (`service_stuck`). The last voter's handler
   stores the vote, looks whether all votes are in, and resolves. If it fails in
   between (the look throws, the lock of the second section is busy, the reply to
   the committed write is lost, the process dies), the vote is complete, every player
   has voted and is refused a second time, and nothing else calls
   `resolveTeamVote`. The host can only end the game. `docs/development-guide.md`
   (7.2) says that a complete vote is resolved. Quests have the same gap.
2. **The row lock does not fence a starter whose transaction timed out**
   (`lifecycle_txexpires`). `initializeAvalonGame` waits for Redis inside an
   interactive transaction with the default timeout; when the database gives up, the
   callback carries on and writes. If the starter also lost its lifecycle lease, the
   write may fall into another owner's time. The comment there says a stale starter
   cannot. The harm is bounded: `getGameState` hides a state of a generation
   that is not active, so players never see it (`Visible`, `DealMatches`).
3. **A player can be marked offline while a device hears the room**
   (`gateway_connected`). `handleDisconnect` counts the user's devices, looks up the
   rooms and only then, behind the presence lock, marks the player offline. A device
   that joins in between is overtaken: the host of a running game may be replaced
   while connected. `room.gateway.ts:465` says "Only mark offline and schedule cleanup
   when ALL devices are disconnected"; `DEVELOPMENT.md:522` says the same.

Gaps met on the way that contradict no stated promise, or that no run is about:

- *Subscribed without a seat* (`strays`): the first join of a socket subscribes without
  a second look (`room.gateway.ts:167`); the second look of a return (123) may throw,
  which leaves the socket where it is; a restore may be published after a second
  removal; the timer and the idle cleanup evict nobody; a crash, or the lost reply of a
  committed removal (`leaveRoom`, `kickPlayer`, the cron job), may fall between a removal and
  its eviction; and a process that is reconnecting to Redis misses the eviction.
- *A seat without a subscription* (sockets leave `placed`): an eviction still undelivered
  when the membership is looked up again hits whoever joins later; leaving a running
  game evicts every device and restores none; the second look at `room.gateway.ts:123`
  cannot tell a membership from its successor; and the lookup that decides on a
  restoration (`room.gateway.ts:250`) may throw, its process crash, or the order to
  restore be missed by a process, after the eviction has been delivered.
- *Never marked offline* (`ghosts`): members who only use HTTP, a join in flight when
  its socket drops, a crash, a disconnect handler that fails, and a `markPlayerOffline`
  that fails after the new version (`room.service.ts:1178`) and before the marker, which
  makes an older marker void as well. `SeatFreed` leaves them out, and the idle cleanup does not delete a room that holds one.
- After a lost presence lease, a player who leaves and joins between the bump of the
  version (`room.service.ts:1178`) and the second read (1183) gets a valid marker for
  the *new* membership, contrary to the comment at 1188.
- A start that commits after `markPlayerOffline` has read a waiting room leaves the game
  to a host who is offline; nobody hands it over until the host disconnects again.
- An SGS room of four: lowering the limit while somebody sits on seat five, then
  starting without random seats, makes `assignFourPlayerSgsRoles` throw. `CanDealSgs`
  states the condition; no run composes it with the membership.
- `createRoom` and `updateRoomSettings` accept Avalon configurations that a start
  refuses (`Startable` is the stricter one).

## 6. Not modelled

- *Authentication*: linear code over expiring keys; a token that outlives its session
  is a question of clocks.
- *Avatar storage, health, filters, interceptors, bootstrap, rate limits*: I/O, wiring
  and formatting.
- *Announcements* of both gateways, profile updates (`player:update`), read-only routes.
- *Expiry of a game state* after 24 hours while the database still plays it.
- `getTeamVoteView`, `getQuestActionView` and `role-assigner.ts` have no caller outside
  the tests; the generated Prisma client is generated.

## 7. Plan

Done: the game, its service, roles and views, the lifecycle of a room, membership,
presence, idle cleanup and the room gateway; every safety property of the runs
and every refinement as a theorem (section 4).

Next, most important first:

1. `GatewayBroadcasts`: what a client is told, read after the resolution without the
   lock: order and duplicates of phase changes and of the final result.
2. The SGS deal composed with `Membership`.
3. The state lock and the lifecycle lock as one abstract lock with leases, shown once to
   be what `AvalonService`, `RoomLifecycle` and `RoomPresence` each assume of it.
4. `AuthSession`.
