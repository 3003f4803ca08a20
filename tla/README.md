# A verification of the ghost client

TLA+ models of ConquestOfAzerothGhost (module `azghost`, Go), a headless World of
Warcraft client that logs bots in to an AzerothCore server, plays them from Lua
or from a built-in AI, and serves as an end-to-end harness for the server.  The
modules are checked with TLC on small instances and their safety proved with
TLAPS for every value of the constants.  `PROJECT.json` maps each definition to
the lines it models.

## 1. The system

One process holds many bots.  Each bot owns one `WorldClient` (one TCP session)
and runs three kinds of goroutine that share its state:

* the **read loop** (`client/world.go`, `readLoop`) reads one packet at a time and
  runs its handler to the end; callbacks into the bot run on it;
* the **movement loop** (`bot/bot.go`, `updateMovement`, each 250 ms) advances the
  `MovementController` and publishes its pose;
* the **AI loop** (`runAILoop`) calls Lua or the behaviour tree, which plan paths,
  attack, cast and wait.

Callers outside (the orchestrator, the HTTP server, the harness, Lua `wait_*`
calls) block on channels that the read loop feeds.  State is shared under about a
dozen mutexes; several fields are written without one.

| component | state | operations | meets | modelled in |
|---|---|---|---|---|
| session phases (`client/session.go`) | `phase`, `teleportSeq`, `phaseWaiters` | `setPhase`, `WaitForSessionPhase`, `WaitForTeleportAfter` | every login, teleport, logout handler; the callers that wait | `SessionPhase` |
| movement (`bot/bot.go`, `movement/movement.go`) | world pose, controller pose, `isMoving`, teleport flag | `updateMovement`, `moveToPoint`, `stopCurrentMove`, `SetFacing`, `AbortAndSnap` | teleport and relocation handlers | `BotMovement` |
| summon requests (`client/summon.go`) | `pendingSummon`, hooks | handler, `ArmSummonRequest`, cancel | read loop, callers | `SummonWait` |
| aura tables (`client/world.go`) | four maps per object | two packets, queries | read loop, AI and harness | `AuraTable` |
| object cache (`client/world.go`) | `objects` | creates, values, moves, out of range, prune, map change | every handler; AI | `UpdateLayout`, `ObjectCache` |
| melee engagement (`client/world.go`, `client/reject.go`, `bot/bot.go`) | target, attacking, `inCombat`, known-dead set, grind target | swing, stop, the server's answers, rejects, the AI tick | read loop, AI loop | `Engagement` |
| unit health (`client/world.go`) | health fields and dead flags per object, own health, kills, deaths | melee packets, values updates, corpse reclaim, marking dead | read loop, AI loop | `UnitHealth` |
| spells and cooldowns (`client/world.go`) | known spells, cooldowns | six packets, `IsSpellReady` | read loop, AI | `SpellBook` |
| hook registries, trade, loot rolls, battleground, group (`client/hooks.go`, `trade.go`, `loot_roll.go`, `battleground.go`) | a list of hooks per packet; the last status or the open rolls | add, cancel, call; packets; clears and drains | read loop, callers | `PacketHooks` |
| world connection (`client/world.go`) | socket, two ciphers, `sendMu`, `stopChan` | send, read, log, `Close` | server, every goroutine | `PacketStream` |
| bot lifecycle (`bot/bot.go`) | what `Run` holds, its goroutines, `stopCh` | `Run`, `Stop` | everything above | `BotRun` |
| bot registry, rollout (`server/server.go`, `orchestrator/orchestrator.go`) | map of bots, counter of ids | launch, stop, update; of one or all | bots | `BotNode` |
| AI loop and behaviour tree (`bot/bot.go`, `ai/behaviortree`) | what each sequence remembers, blackboard | tick | read loop, server | `BotTree`, `Engagement` |
| authentication (`client/auth.go`) | SRP6 exchange | connect, prove, list realms | server | no |
| movement controller's turns (`movement/movement.go`) | turn phase | advance | movement loop | no |
| Lua engine, scripts, scenarios | VM | tick, `wait_*` | AI loop | no |
| path finding, game data, configuration | files in memory | queries | movement, AI | no |
| guild bank, petitions, vehicles, item pushes | last answer | packets | read loop, callers | no |
| harness (`e2e/e2eharness`) | none of its own | drives clients | server under test | no |

**What is hard.**  Waits are made of a check, a registration and a channel whose
sends drop; a relocation by the server must win over a loop that publishes the
pose four times a second and over paths computed without the lock; a packet is
applied in several locked pieces and read in between; answers of the server
arrive for a state the client has left.  `PROJECT.json` lists each such place as a
hazard with its line, and the properties aimed at it or the reason there is none.

## 2. The modules

| module | models | composed with |
|---|---|---|
| `SessionPhase` | phases, waiters, and the handlers that change the phase | |
| `TeleportWait` | what `WaitForTeleportAfter` promises, in one variable per call | implemented by `SessionPhase` |
| `SessionPhaseRefinement` | the mapping between the two | |
| `SummonWait` | the summon cache, the hooks and the waits | |
| `BotMovement` | the pose between four writers | |
| `AuraTable` | aura maps, the stream that feeds them, the cache they live in | |
| `UpdateLayout` | the bytes of an update block, as written, read, parsed and skipped | |
| `ObjectCache` | which objects the client knows, against what the server shows | uses `UpdateLayout` |
| `UnitHealth` | health as the client predicts it, against the server's | |
| `Engagement` | target, swing, combat and the list of the dead, between two loops | |
| `BotTree` | the behaviour tree through a death of the bot | |
| `SpellBook` | known spells and cooldowns, against the server's | |
| `PacketHooks` | what is stored of a packet, and who is told | |
| `PacketStream` | framing, header keys, sending, and `Close` | |
| `BotLife` | what a node relies on when it holds a bot | implemented by `BotRun` |
| `BotRun` | every step of `Run`, its goroutines, its failures and sends that block | implements `BotLife` |
| `BotNode` | the bots of a node and the requests about them | each bot is a `BotLife` |
| `CallsProofs` | theorems about `SessionPhase`, its refinement and `SummonWait` | |
| `BotProofs` | theorems about `BotMovement` and `BotTree` | |
| `ReadLoopProofs` | theorems about `AuraTable` and `SpellBook` | |
| `PacketProofs` | theorems about `PacketHooks` and `PacketStream` | |
| `ObjectCacheProofs` | theorems about `UpdateLayout` and `ObjectCache` | |
| `UnitHealthProofs` | theorems about `UnitHealth` | |
| `EngagementProofs` | theorems about `Engagement` | |
| `FleetProofs` | theorems about `BotRun`, its refinement and `BotNode` | |
| `MC*` | model values and symmetry for TLC, and the unions below | |

Each module says at its head what one step stands for.  The rule is the same in
all: a section under a mutex is one step; what a goroutine does between two such
sections can be interleaved with every other goroutine.  Packets are what the
server may send in the state it has put the client in.

Four `MC` modules take modules that share no variable and let a behaviour be one of
any of them, chosen initially, the variables of the others keeping their initial
values: `MCCalls` (`SessionPhase`, `SummonWait`), `MCReadLoop` (`AuraTable`, `SpellBook`,
`PacketHooks`, `BotMovement`, `PacketStream`), `MCObjects` (`ObjectCache`, `UnitHealth`) and
`MCFleet` (`BotRun`, `BotNode`).  This asks the questions of several components in one
run; it is not a composition.  The compositions are by refinement: `BotNode` is
written on the safety part of `BotLife`, and `BotRun` is shown to implement `BotLife`.

### SessionPhase

`phase`, `teleportSeq`, `registered` are `w.phase`, `w.teleportSeq`,
`w.phaseWaiters`.  A handler is the list `todo` of the phases it enters and the
effects between them (`teleport_ack` in a teleport, `player_login` in
`LoginCharacter`, closing `loginDone`, `logoutDone` and `stopChan`).  `setPhase` is
`SetPhase` (the section under `phaseMu`, which copies the waiters) and one
`Notify` per copied waiter, each a send that drops when the channel is full.  A
wait is a program counter: `PhaseCall`, `PhaseRegister` (append and recheck under
one lock), `PhaseReceive`, `GiveUp` (timer, `stopChan`), `Leave` (the deferred
`removePhaseWaiter`); likewise for teleports, whose loop compares the sequence
after every message.

### BotMovement

A pose is the number of the relocation it derives from: walking does not change
it, a relocation does.  That is all the properties need, and it makes the
geometry disappear.  The controller and the world each hold a pose and a heading.
`PlanRead`, `PlanLock`, `PlanInstall` are the three parts of `moveToPoint`: the pose
is read, a short locked section decides, the path search runs unlocked, a second
locked section installs the path.  `Teleport...` and `Relocate...` are the pieces of
the handlers on the read loop.  Turn phases of the controller are unreachable
because `StopForTurns` is false unless a caller sets it, and none does.

### SummonWait

`Receive`, `CopyHooks`, `CallHook`, `HandlerReturns` are `handleSummonRequest`;
`ArmPoll` and `ArmHook` the two halves of `ArmSummonRequest`; `Cancel` the removal of
the hook, deferred or called by the caller.  The hooks are called from a copy, so a
call may be handed a request after its cancellation.

### AuraTable

The server's stream is a queue of messages, each with the list it describes
(`now`); a packet is applied slot by slot (`ApplySlot`), because `aurasMu` is taken
per slot.  `SetAura` is `setAuraForSlot`; `HasAura`, `AuraStacks` and `AuraDurationFrom`
are the queries.  `AuraDuration` ranges over a Go map, so its model is the set of
slots it may answer from.  `RemoveObject` and `NewWorld` are the two ways a table
is dropped with its object.

### UnitHealth

The server's part holds the true health of each unit and what it last reported.
`AttackerStateUpdate`, `TakeValues` and `CorpseReclaimDelay` are the three packets that
change what the client believes; `Kills` is the prediction whose hook, `OnKill`, marks
the victim.  An entry keeps its health and the two kinds of dead flags apart,
since a values update overwrites only what it carries.  `JudgeTarget` and `MarkTarget`
are the look and the write of the behaviour tree.  Three history variables say
when the server has kept something back: silent damage (`unseen`), a gain not yet
reported (`gained`), and damage on top of such a gain (`misled`).

### UpdateLayout and ObjectCache

Blocks of `SMSG_UPDATE_OBJECT` carry no length, so a byte too few or too many loses
the rest of the packet.  `UpdateLayout` gives, for each combination of flags, the bytes
the server writes and those each path of the client takes: `readMovementBlock`,
`parseMovementBlock` for a unit's spline, `skipMovementBlock`, `readValuesUpdate`,
`skipValuesUpdate`.  Contents are left out.

In `ObjectCache` the server (external) shows and withdraws objects on a line of places.
It adds an object to those it takes the client to have when the object comes into
sight, builds the create block then and sends it later, while moves leave at once.
`UpdateObject` takes up a packet, whose blocks are then read one by one (`CreateBlock`,
`ValuesBlock`, `MovementBlock`, `OutBlock`), because `objectsMu` is taken per block;
`off` counts the bytes consumed too many or too few, and `Misparse` is what becomes of the
rest.  `MonsterMove`, `MovementPacket`, `DestroyObject`, `MoveTeleportAck` (prune, then
acknowledge) and `NewWorld` are the other handlers.  A pose is where an object is and
where it walks to.  The world is a continent: `DistanceAssumption` has sight within what the
pruning keeps.  In an instance or a battleground a server may show more, and the pruning
may drop what is in sight; that is left out.

### Engagement

Two goroutines write the target, the swing flag, the combat flag, the list of the
dead and the grind target.  The read loop takes an answer of the server and runs
its handler (`ReadHit`, `ReadValues`, `ReadAttackStart`, `ReadTerminal`, `ReadTransient`, ...);
`OnKill` is two steps, `KillCompare` and `KillClear`, since it looks at the target and
clears it under two holds of the lock.  The AI loop's tick is its prologue (dead target, pursuit,
timeout of a fight, cleanup of the list) and the children of the grind selector; a
decision and its effect are two steps where the code releases a lock between
them.  A unit in the cache is `alive`, `zero`, `dead` or `revived`, which is what `IsAlive`
and `Health` tell apart.  `excused` is a history variable: the mobs the bot had a reason
to write off.

### BotTree

`Children` lists the children of the root selector and of the mode's selector, as
the bot builds them for each of its four modes; each has a guard and an action, and
all but the last are sequences, which remember a running action and do not ask their
condition again.  `BeginTick` starts at the first child, `Decline` is the selector's step from
a child that fails to the next; the server and the read loop act between them.  The dying, the release of the
spirit, the wait at the corpse and the request for it are modelled with their times;
fighting, searching and walking are the status an action returns, the target, the
combat flag and whether the bot walks.

### SpellBook

`known` and `cooldowns` against the server's book and cooldowns, with the six packets
that change them (the book at login, learned, superseded, removed, cooldown,
cleared cooldown) and the expiry.  `IsSpellReady` is the query.

### PacketHooks

All packets pass `invokePacketHooks` first, then the handler of their family, which
stores and then calls the family's hooks from a copy.  A hook is called in one step,
and between two calls anybody adds, cancels or clears.  The families are those with
something stored: trade status, group, loot rolls (with the bound on their list),
battlefield status, and a plain notice for the registries that store nothing.  A
session's stream is one of the sequences of packets the server can send of a family.

### PacketStream

Per direction a key is a position: the number of headers encrypted or decrypted so
far.  `CheckOutboundPhase`, `SendEncrypt`, `SendWrite` are `sendPacket`; the read loop reads a
header in two pieces where its length has three bytes, sets the keys up in
`handleAuthChallenge`, and may send or log in a handler.  `FlushLearnedSpellLog`,
`CloseConn`, `SignalStop` are `Close`.  A connection holds `Buffer` packets, beyond which a
write blocks; a connection that fails is closed for both ends.  A write that fails
ends the stream.  The senders other than the read loop begin once the session is
connected.  In the code nothing enforces that: a bot sleeps two seconds after it
has dialled (`bot/bot.go:476`), and a packet sent before `CMSG_AUTH_SESSION` would shift
the key for good.

### BotLife, BotRun and BotNode

`BotRun` follows `Run` from `authenticate` to `done` with one step per thing that may fail,
the list of what it holds (connection, navigator, engine, movement loop) and the
three goroutines that outlive some of its exits: the reader, the wait for the login,
the movement loop.  `Stop` may come at any time; the server may drop the connection
or verify the login at any time.  `sendPacket` writes without a deadline under `sendMu`,
so while the server does not read, a send of any of `Run`, the reader and the movement
loop may not return (`SendBlocks`, `sending`): that goroutine does nothing else, and `Close`,
which takes `sendMu` too, waits (`CanClose`).  The server may read on, or the connection
fail, or neither (`SendReturns`).

`Life` is the mapping to `BotLife`, which says only that a bot ends, has its engine open at
most once and never after its end, and ends when told to.  Run keeps the last promise
only if writes return at last (`WritesReturn`): a stopped bot whose server keeps the
connection and stops reading may hang, in a loop that never looks at `stopCh` or in
`Close`.  `ImplementsBotLife` states that condition; the rest it claims without it.

`BotNode` has the map of bots, the counter of ids, and the HTTP requests as goroutines
that pause between the look at a bot and what they do to it.  `Stop` looks at `stopCh` and
closes it in two steps; `updateLua` meets a bot whose engine is not yet open, open or
closed, and a panic ends the request alone.  `Range` over the map visits what was there
when it began and is there still.

## 3. The runs

| run | asks | bounds |
|---|---|---|
| `phase_calls` | can a wait for a phase succeed falsely, or sleep through its phase; are acknowledgements and the login ordered; does closing end the wait; can an armed call lose a summon request, and does it end | 1 phase call, 2 teleports, channel of 4; 2 summon calls, 3 requests |
| `phase_waits` | can a wait for a teleport miss it or leak its channel; does it implement the atomic one, and end | 2 calls, 2 teleports, channel of 1 |
| `read_loop` | do the aura maps agree and mirror the server; is a spell taken for ready ready; are hooks and cache consistent; does a handled relocation or a facing hold; do both ends use the keys at the same positions | see below |
| `objects` | is the cache what the server shows, and where; is a death seen at once, known, and counted once | a mob and a player on four places, 5 packets, at most 2 in flight; the character and 1 mob, 2 points of health, 4 messages |
| `engagement` | is a mob written off without reason; is a corpse let go; does combat end; does the bot go on hunting | 2 mobs, 1 message in flight |
| `fleet` | what does an ended `Run` hold or leave running, in which order does it close; is `in_world` true; does it implement `BotLife`, given writes that return; do requests about all bots reach them all | 2 names; 2 bots, 2 launches, 2 requests |
| `tree` | does a dead bot do anything else; is each death released and each corpse asked for | 4 modes, times scaled |
| `movement_stale_path` | (violated) is a relocation final | 1 relocation |
| `health_phantom` | (violated) does a report of life settle a predicted death | as `objects` |
| `objects_skip` | (violated) is every shown object cached, whatever was skipped | as the cache of `objects`, 4 packets |
| `tree_walks` | (violated) does the dead bot stand still | 1 mode, times scaled |
| `close_blocked` | (violated) does closing the client end it | 1 sender, 2 packets out, 1 in, connection of 1 |

**Why the bounds are enough.**

* *Calls.*  Waiters do not interact except through the list they register in, so two
  of them show every interference; one teleport can be missed and a second can be
  mistaken for the first.  A channel of one drops sends after a single message; for
  `WaitForSessionPhase`, where a dropped message is a lost wake-up, the run has four
  places, the longest run of phases before `in_world`, and the code sixteen.  Three
  summon requests fill a channel, are dropped, and arrive during a cancellation.
* *Read loop.*  Two slots hold one spell twice, and three messages on two objects
  bring one in, change it, and remove or refresh it.  Two spells are two ranks, and
  three packets replace, remove and relearn.  Two hooks: one is called while the
  other is added or cancelled; three rolls for a list of two reach its bound, and four
  packets start three and decide one.  Two relocations are the least in which a path
  planned before the first can be installed after the second.  Two senders beside the
  read loop contend for the mutex, and with two packets in each direction the second
  is out of step if the first was.  The run uses the symmetry of the two objects, which
  are also the two spells, hooks and senders: no definition tells them apart, and
  that run has no liveness property.
* *Objects.*  Sight is two places and pruning spares four, so that an object can be seen
  from one end and not from the other, be spared by the pruning and be dropped by
  it; as in the code, sight and two steps of a mob are less than the pruning distance.
  One object changes per server tick, each moves at most once during a teleport, and not
  back into sight after one that left it out of it; a create follows a move within the
  two seconds in which the client lets the move win.
  The server withdraws what is out of sight before the next teleport.  Five packets are a
  create, a move, a teleport, a block for what was pruned and a withdrawal.  Two points of
  health let a hit hurt, kill exactly and more than kill; four messages are a create,
  two hits and a report, or a fatal hit, its reclaim delay, a late report and a release.
* *Engagement.*  Two mobs: the one fought and the one chosen instead.  One message in
  flight delays every answer past any number of ticks; more of them only repeat it.
  Either both are enemies and in sight, or one is, which leaves the sight and returns,
  beside a mob that is no enemy.
* *Fleet.*  Two requests overlap in every way, on a bot that each may stop, and with a
  second launch between.  Two names let the first be taken and the second fail.  The
  symmetry is that of the requests, which the liveness properties, all of `BotRun`, do
  not mention.
* *Tree.*  The code waits 32 seconds for a delay of 30, and a request takes up to two; the
  model has 2, 1 and 1, which keeps the order of what can happen when.

The theorems below lift the bounds where there are any.

`CHECK_DEADLOCK FALSE` stands where the system really stops: a session whose client is
closed and whose calls have returned, callers that have returned after the last
request, a stream that has been drained, a bot that has ended.

**Fairness.** Only `PacketStream` and `BotRun` have writes that block.  The other
modules take it that a write returns: a handler that has begun runs to its end, since it
holds the read loop and the sends to waiters never block; the loops of a bot keep
running.  A waiter that can move is scheduled.  A timer has no fairness where it would
help: it may always fire late, so a wait never ends by its timeout alone.  `Engagement`:
both loops keep running; the server need not act.  `BotRun`: the waits of `Run` have
timers, and a read or a write on a connection that has failed returns.  A send may block
and return again and again, with the step of `Run` or the end of the movement loop
possible only in between; each is taken at last (strong fairness: the loop looks at its
stop channel between two sends, Go's `select` chooses at random among what is ready, and
its mutex starves nobody; `MCFleet` states one condition for both, as each step can be
taken only finitely often).  Nothing in `Fairness` makes a blocked send return on an
open connection.  That is `WritesReturn`, an assumption about the server which is no
part of `Spec` and stands before the liveness half of `ImplementsBotLife` alone; it
fails of a peer that stops reading, and `close_blocked` shows what happens then.
`NothingIsLeftRunning` holds without it.  `BotTree`: ticks and seconds pass, the server
answers a request and reports a change of health.  `PacketStream`: the client's
goroutines run, the read deadline passes, and a goroutine that waits for `sendMu` gets
it (strong fairness: Go's mutex hands itself to a waiter that has starved); nothing is
assumed of the server, since a peer that stops reading is the very case in question.

### What the violations show

* `RelocationIsFinal`: `moveToPoint` and `actionWander` read the pose and compute the
  path without `movementMu`.  A relocation handled meanwhile is undone when the
  path from the old pose is installed; `AbortAndSnap` promises the opposite.
  `RelocationHolds` shows that this is the only way it can be undone.
* `ReportSettlesPrediction`: a kill is predicted from a health that lags the server's.
  When the mob had gained health between two hits, it is marked dead while it
  lives, and the values update that says so restores the health but not the flags.
* `EveryShownObjectIsCached`: `skipValuesUpdate` takes at most 32 mask words, and a
  player's block has more.  After a near teleport has pruned a player the server still
  shows, its next block is consumed short and the creates behind it are lost.
  `CacheIsWhatIsShown` shows that this, and pruning by a pose that missed a move, are the
  only ways to lose an object on a continent.
* `DeadStandsStill`: nothing clears the target when the bot dies, and the pursuit before
  each tick asks only whether the target lives, so the ghost walks after its killer.
* `CloseStopsTheClient`: `Close` takes the mutex that a blocked write holds.  When the
  server reads on, the property holds.  The same case is the reason for the condition in
  `ImplementsBotLife`: without it a bot told to stop may never end.

Found by earlier versions and now exceptions of the properties that hold, each
named at its property:

* `travelDist` stays positive after a path ends, so every tick republishes the heading
  of its last segment and `FaceTarget` turns again (`FacingIsKept` speaks of a quiet
  controller);
* `WaitSummonRequest` says it arms and then polls; the code polls and then arms, and a
  request in the gap is in the cache while the call blocks (`ArmedCatches` begins at the
  arming);
* a full aura list clears the table and refills it slot by slot, so a reader can be told
  that an aura held all along is absent (`MirrorsServer` speaks of a drained stream).

## 4. What is proved

Every theorem is about the whole specification, for any sets of calls, objects,
slots, spells, units, hooks, senders and requests, any capacity and any number of
messages.  The only assumptions are those the modules state on their constants:
distinct kinds of calls, a positive capacity, a heading that is none of the headings, a
spell id 0 that is no spell, numbers that are natural; for `ObjectCache`, finitely many
objects, no mob that is a player, sight and two steps within the pruning distance, and
splines no longer than the client reads; one theorem adds a bound, named below.  The
type invariant of a module is proved rather than run.

Each safety invariant and action property that a passing run checks is stated by a
theorem.  Few of them are inductive; what has to be added is the argument:

* `CallsProofs`, on `SessionPhase`: types; a completed teleport is never missed
  (`NoLostTeleportWake`: from the recheck under the lock that registers, every later
  change of `teleportSeq` copies the waiter); the waiter list is exact; a wait that
  succeeds saw its phase (each value in a channel or being sent is in `seen`);
  acknowledgements precede completion (the steps left in `todo` determine what is owed);
  the login is kept; `TeleportWaitSafety`, that every step is a step of `TeleportWait` or a
  stutter.  `NoPhaseWaiterIsStranded` depends on the capacity: sends drop when a channel is
  full.  `StrandInv` keeps an account of what each call has been and is about to be sent:
  before the world is entered that is at most the number of phases passed (`CountInv`),
  and nothing for a call not yet registered (`FreshInv`).  Hence a blocked call that can
  still succeed has its phase in the channel, is to be sent it and has room, or has been
  sent little enough (`Room`).  The hypotheses are a channel of at least four, where the
  code has sixteen, and that the phases waited for are `authed` and `in_world`, the only
  two the program asks for.
* `CallsProofs`, on `SummonWait`: types and `ArmedCatches`, with the fact that a call keeps its
  hook from arming to the end of its wait, which a cancellation of another call must
  not disturb.
* `BotProofs`, on `BotMovement`: types, `RelocationHolds`, `FlagFollowsSnap` and `FacingIsKept`.
  The invariant says that no pose comes from the future, that every pose is older until a
  handler writes the new one, and what each stage of a handler has made quiet; without
  the last part the movement loop could publish an old pose between the two writes.
* `BotProofs`, on `BotTree`: types and `DeadDoesNothingElse`, in every mode.
  `DeathComesFirst` says that the root remembers the death sequence exactly while the spirit
  is released, and that a tick gets past the first child only with a bot that is not
  helpless.
* `ReadLoopProofs`, on `AuraTable`: types, `MapsAgree`, `UpdateLeavesOthers`, `MirrorsServer`
  and `CacheIsWhatIsSeen`.  `Chain` relates each message in flight to the one before it and
  `Progress` says how much of the packet in hand the maps show; `SetAuraWorks` is the lemma
  about `setAuraForSlot` the rest stands on.
* `ReadLoopProofs`, on `SpellBook`: types and `ReadyIsReady`.  `Delivers` is what a FIFO stream
  owes to one item of a set it keeps up to date: the item is there or a packet under way
  adds it, and every packet that drops it is followed by one that adds it.  It is
  shown once for a send and once for a read, and used for the book, its complement, the
  cooldowns, and the objects of `CacheIsWhatIsSeen`.
* `PacketProofs`, on `PacketHooks`: types, `HooksSeeAll`, `StoredBeforeTold` and
  `OpenRollsAreListed`.  `Shown` says where a hook that waits for the packet in hand is:
  called, in the copy, or still in the registry of its family.  `Kept` says that the cached
  rolls are a suffix of those that are due and that each roll cut off has seen as many
  later starts as the list has places, which removals from the middle must preserve.
* `PacketProofs`, on `PacketStream`: types and `StreamsInStep`.  `Control` says who holds the
  mutex at each point, that nobody sends before the keys are set up, and that nothing is
  sent on a closed connection; `OutKeyFits` and `InKeyFits` count the headers between the two
  ends: those encrypted and not yet written, those on the way, those read.
* `ObjectCacheProofs`, on `UpdateLayout`: two theorems without a specification.  For every
  set of flags and every spline within the cap, reading, parsing and skipping a movement
  block consume what the server wrote; a values block is read exactly, and skipped exactly
  up to 32 mask words and short beyond.
* `ObjectCacheProofs`, on `ObjectCache`: types, `CacheIsWhatIsShown` and `PoseIsFresh`.  What the
  client will hold of an object once it has read what is under way is determined by
  the blocks at hand and the packets in flight: `BlocksTo` and `LeadsTo` say that a *course*
  of views takes what is cached now (`Held`) to a last view, and `Told` says that this
  last view fits the server's account of the object: it has the entry and the
  pose, or is lost by a stale pose, or the teleport under way leaves it so far off that the
  server withdraws it.  A send of the server lengthens the course by one view, a read of the
  client shortens it by one; neither changes another object's.  `PacketsOk` (withdrawals
  come first in a packet, layouts are written ones), `TeleportsOk` (at most one teleport, its
  place among the packets) and `ServerOk` (what the server has built and where it takes
  objects to be) say what packets there can be.  The lemmas on layouts enter where a
  block is consumed to its end.
* `UnitHealthProofs`: types, `DeathIsSeenAtOnce`, `CorpseIsKnown` and `DeathIsCountedOnce`, by the same
  device: `Foreseen` says that a course of beliefs leads from what the client believes, over
  the messages under way, to beliefs that fit the true health, the reports and the history
  variables.
* `EngagementProofs`: types and `OnlyExcusedAreWrittenOff`.  `Reasons` says of every place that
  holds a mob on its way to the list of the dead (the decision between two steps of the
  tick, the kill between its two halves, the cache) that the mob is excused;
  `Explains` says it of the packets in flight, for what the client knows when it will read
  them: a unit created without health is one the server has withdrawn before.
* `FleetProofs`, on `BotRun`: types, `EndedHoldsNothing`, `MoverEndsFirst`, `InWorldIsVerified`, from
  an invariant that says what is held at each point of `Run` (`HoldsByPoint`), how the login
  wait relates to the reader and the status (`LoginByWait`), and how many names were
  tried; and `RunImplementsLife`, that every step is a step of `BotLife` or a stutter.
* `FleetProofs`, on `BotNode`: types, `StopAllReachesAll` and `UpdateAllReachesAll`.  A bot a
  request owes has been told, is being told or is still to be visited (`StopDue`,
  `UpdateDue`), and `Placed` says where a request can be for what it does and what it has
  left to visit.

Only model-checked: every liveness property, and the liveness part of the two
refinements, which are beyond the prover; and the five runs that end in a violation, which
are counterexamples.

## 5. What is not modelled, and the plan

Not modelled because a model would say nothing: geometry (path finding, terrain),
cryptography (SRP6), packet encodings other than the layout of update blocks, file
loading, log text, Lua content, the tests.

Left out of the modules above:

* `Engagement`: walking into range and chasing, looting (`lastLootGUID`), the hogger and
  dungeon modes, the filters by health and level, the target cache.  The server answers
  a swing at once, visible mobs are in scan range, and factions are fixed, so the branch
  of `actionEngageTarget` that finds its target friendly cannot happen.
* `PacketStream`: the content of packets, partial arrival, and that `setPhase` logs (under
  `sendMu`) between the change of the phase and the waking of the waiters, so that a
  blocked write delays these too.
* `BotNode`: ids that `Range` would meet because they were added during it.
* `SpellBook`: the cooldowns at the end of `SMSG_INITIAL_SPELLS`, which the client does not
  read (`ReadyIsReady` excepts them).
* `PacketHooks`: the single legacy callbacks, called after the hooks of their packet.

Seen while reading, and not expressed as a property of any module:

* a bot resurrected by somebody else, or whose death was mispredicted, stands idle until
  its 32 seconds are over and then sends a request that is of no use; and a refused
  request leaves a ghost that plays on as if alive;
* the loot branch asks for a target that lives (`bot/bot.go:1284`), after the tick has
  cleared `lastLootGUID` (1160), so it is not reached for a corpse;
* a living mob that comes back under an id in the list of the dead is written off
  again (1747, 1888), against the comment at 3309;
* faction 57 is listed both friendly and hostile;
* a stationary create that was delayed drops the move that overtook it
  (`client/world.go:4628-4675`), which `PoseIsFresh` excepts;
* the short form in `handleForceSpeedChange` (2355-2380) can never be read;
* the size of an outgoing header wraps beyond 65531 bytes;
* the pose is written by handlers without `moveMu` (5631), so a reader can see half of it;
* `IsSpellReady` reads two maps one after the other;
* `AcceptSummon` in the harness clears a request that arrived after the one it answers;
* the orchestrator posts to `/ai`, which the server does not register, and ignores the 404;
  groups launched with no node run bots locally that later calls look for on a node;
* a launch under an id in use leaves the earlier bot running and out of reach, and the
  ids the server makes up (`bot-N`) are those the orchestrator uses;
* two calls of `Stop` at once may both close `stopCh`, and code loaded into a bot that has
  ended panics: both end the request, and the second cuts an update of all bots short
  (the properties of `BotNode` speak of requests that were answered);
* code sent to a bot between the making of its engine and the loading of its
  configuration is overwritten by the older code;
* `Stop` during the login takes effect only when the AI loop starts;
* the connection stays open when the read loop ends by its deadline.

Planned, most important first:

1. Proofs that speak of more than one module: that what `AuraTable` caches is what
   `ObjectCache` holds, and that the deaths `Engagement` excuses are those of `UnitHealth`.
2. The engagement's walking and looting, and its two other modes.
3. The orchestrator's groups and health polling against launches and stops.
4. The turn machine of the movement controller, as pure operators against a reference.
5. The Lua engine's waits and its mutex, against `Stop`.
