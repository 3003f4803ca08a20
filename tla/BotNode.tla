------------------------------ MODULE BotNode ------------------------------
(***************************************************************************)
(* The bots of one node (server/server.go): the orchestrator's rollout and *)
(* launches by hand, and the HTTP requests that stop or update one bot or  *)
(* all of them.  A bot is what BotLife says.                               *)
(*                                                                         *)
(* Each request is a goroutine that may pause between any two of the steps *)
(* below, and that a panic ends without ending the process (net/http       *)
(* recovers it).  An answered request may be made again.                   *)
(*                                                                         *)
(* A bot is the number of its launch, an id the N of "bot-N".              *)
(***************************************************************************)
EXTENDS Naturals

CONSTANTS
  Requests,     \* stop and update requests that may be in progress together
  NumBots,      \* bots the orchestrator launches on this node
  MaxLaunches   \* bound: launches, those of a repeated rollout and manual ones included

Bots == 1..MaxLaunches
Ids == 1..MaxLaunches
NoBot == 0

ASSUME NodeAssumption ==
  /\ MaxLaunches \in Nat
  /\ NumBots \in 1..MaxLaunches

VARIABLES
  launched,   \* bots launched so far
  registry,   \* s.bots
  nextID,     \* s.nextID
  rollout,    \* index the orchestrator launches next, 0 when its rollout failed
  engine,     \* per bot, b.lua
  over,       \* per bot, Run has returned
  signalled,  \* per bot, b.stopCh is closed
  loaded,     \* per bot, the requests in progress whose code its engine has run
  rpc, rop,   \* per request, where it is and what it does
  rbot,       \* the bot it works on
  rtodo,      \* ids its Range has still to visit
  rdue        \* history: per id, the bot it named when the request began, if the
              \* request owes that bot anything

fleetVars == <<launched, registry, nextID, rollout>>
botVars == <<engine, over, signalled, loaded>>
reqVars == <<rpc, rop, rbot, rtodo, rdue>>
nodeVars == <<fleetVars, botVars, reqVars>>

Nothing == [i \in Ids |-> NoBot]

NodeInit ==
  /\ launched = 0
  /\ registry = Nothing
  /\ nextID = 0
  /\ rollout = 1
  /\ engine = [b \in Bots |-> "none"]
  /\ over = [b \in Bots |-> FALSE]
  /\ signalled = [b \in Bots |-> FALSE]
  /\ loaded = [b \in Bots |-> {}]
  /\ rpc = [r \in Requests |-> "idle"]
  /\ rop = [r \in Requests |-> "none"]
  /\ rbot = [r \in Requests |-> NoBot]
  /\ rtodo = [r \in Requests |-> {}]
  /\ rdue = [r \in Requests |-> Nothing]

-----------------------------------------------------------------------------
(***************************************************************************)
(* Launches.                                                               *)
(***************************************************************************)

\* NewBot, s.bots.Store and go b.Run(): an id that is in use changes hands.
Register(id) ==
  /\ launched < MaxLaunches
  /\ launched' = launched + 1
  /\ registry' = [registry EXCEPT ![id] = launched']
  /\ UNCHANGED <<botVars, reqVars>>

\* A launch without an id.
LaunchManually ==
  /\ nextID < MaxLaunches
  /\ nextID' = nextID + 1
  /\ Register(nextID')
  /\ UNCHANGED rollout

\* LaunchBots posts the assignments one after the other and stops at the first that is
\* not answered, whether or not the node received it.
LaunchAssigned ==
  /\ rollout \in 1..NumBots
  /\ Register(rollout)
  /\ rollout' \in {rollout + 1, 0}
  /\ UNCHANGED nextID

LaunchUnreachable ==
  /\ rollout \in 1..NumBots
  /\ rollout' = 0
  /\ UNCHANGED <<launched, registry, nextID, botVars, reqVars>>

\* The orchestrator exits after a failure and is run again.
Relaunch ==
  /\ rollout = 0
  /\ launched < MaxLaunches
  /\ rollout' = 1
  /\ UNCHANGED <<launched, registry, nextID, botVars, reqVars>>

-----------------------------------------------------------------------------
(***************************************************************************)
(* The bots: the progress of BotLife.                                      *)
(***************************************************************************)

EndUnopened(b) ==
  /\ b <= launched
  /\ engine[b] = "none"
  /\ ~over[b]
  /\ over' = [over EXCEPT ![b] = TRUE]
  /\ UNCHANGED <<engine, signalled, loaded, fleetVars, reqVars>>

Open(b) ==
  /\ b <= launched
  /\ engine[b] = "none"
  /\ ~over[b]
  /\ engine' = [engine EXCEPT ![b] = "open"]
  /\ UNCHANGED <<over, signalled, loaded, fleetVars, reqVars>>

Finish(b) ==
  /\ engine[b] = "open"
  /\ engine' = [engine EXCEPT ![b] = "closed"]
  /\ over' = [over EXCEPT ![b] = TRUE]
  /\ UNCHANGED <<signalled, loaded, fleetVars, reqVars>>

BotStep(b) == EndUnopened(b) \/ Open(b) \/ Finish(b)

-----------------------------------------------------------------------------
(***************************************************************************)
(* Requests.                                                               *)
(***************************************************************************)

\* handleStop and handleLuaUpdate with an id.
BeginOne(r, id) ==
  /\ rpc[r] = "idle"
  /\ \E op \in {"stop", "update"} :
       /\ rop' = [rop EXCEPT ![r] = op]
       /\ rpc' = [rpc EXCEPT ![r] = IF registry[id] = NoBot THEN "missing"
                                      ELSE IF op = "stop" THEN "check" ELSE "load"]
  /\ rbot' = [rbot EXCEPT ![r] = registry[id]]
  /\ UNCHANGED <<fleetVars, botVars, rtodo, rdue>>

\* ... and without one: Range visits the ids that are stored when it starts.  A stop is
\* owed to every bot, an update to those whose engine is open.
BeginAll(r, op) ==
  /\ rpc[r] = "idle"
  /\ rop' = [rop EXCEPT ![r] = op]
  /\ rpc' = [rpc EXCEPT ![r] = "range"]
  /\ rtodo' = [rtodo EXCEPT ![r] = {i \in Ids : registry[i] # NoBot}]
  /\ rdue' = [rdue EXCEPT ![r] =
       [i \in Ids |->
          IF registry[i] \in Bots /\ (op = "stop_all" \/ engine[registry[i]] = "open")
            THEN registry[i] ELSE NoBot]]
  /\ UNCHANGED <<fleetVars, botVars, rbot>>

\* The next id, with the bot it names now.
Visit(r, id) ==
  /\ rpc[r] = "range"
  /\ id \in rtodo[r]
  /\ rtodo' = [rtodo EXCEPT ![r] = @ \ {id}]
  /\ rbot' = [rbot EXCEPT ![r] = registry[id]]
  /\ rpc' = [rpc EXCEPT ![r] = IF rop[r] = "stop_all" THEN "check" ELSE "load"]
  /\ UNCHANGED <<fleetVars, botVars, rop, rdue>>

AnswerAll(r) ==
  /\ rpc[r] = "range"
  /\ rtodo[r] = {}
  /\ rpc' = [rpc EXCEPT ![r] = "ok"]
  /\ UNCHANGED <<fleetVars, botVars, rop, rbot, rtodo, rdue>>

\* After one bot is served.
Served(r) == IF rop[r] \in {"stop_all", "update_all"} THEN "range" ELSE "ok"

\* Mutant: a bot that is already told ends the Range.
CheckStopLast(r) ==
  /\ rpc[r] = "check"
  /\ rpc' = [rpc EXCEPT ![r] = IF signalled[rbot[r]] THEN "ok" ELSE "close"]
  /\ UNCHANGED <<fleetVars, botVars, rop, rbot, rtodo, rdue>>

\* Stop looks at stopCh...
CheckStop(r) ==
  /\ rpc[r] = "check"
  /\ rpc' = [rpc EXCEPT ![r] = IF signalled[rbot[r]] THEN Served(r) ELSE "close"]
  /\ UNCHANGED <<fleetVars, botVars, rop, rbot, rtodo, rdue>>

\* ... and closes it, which panics when another request has closed it meanwhile.
CloseStop(r) ==
  /\ rpc[r] = "close"
  /\ IF signalled[rbot[r]]
       THEN rpc' = [rpc EXCEPT ![r] = "panic"] /\ UNCHANGED signalled
       ELSE /\ rpc' = [rpc EXCEPT ![r] = Served(r)]
            /\ signalled' = [signalled EXCEPT ![rbot[r]] = TRUE]
  /\ UNCHANGED <<fleetVars, engine, over, loaded, rop, rbot, rtodo, rdue>>

\* Mutant: an engine that does not exist yet ends the Range.
LoadLuaOrStop(r) ==
  /\ rpc[r] = "load"
  /\ rpc' = [rpc EXCEPT ![r] = CASE engine[rbot[r]] = "open" -> Served(r)
                                 [] engine[rbot[r]] = "closed" -> "panic"
                                 [] OTHER -> "ok"]
  /\ loaded' = [loaded EXCEPT ![rbot[r]] = IF engine[rbot[r]] = "open" THEN @ \cup {r} ELSE @]
  /\ UNCHANGED <<fleetVars, engine, over, signalled, rop, rbot, rtodo, rdue>>

\* LoadLuaScript: without an engine it returns an error, which only the request for one
\* bot reports; an engine that has been closed has no Lua state and panics.
LoadLua(r) ==
  /\ rpc[r] = "load"
  /\ rpc' = [rpc EXCEPT ![r] = CASE engine[rbot[r]] = "open" -> Served(r)
                                 [] engine[rbot[r]] = "closed" -> "panic"
                                 [] OTHER -> IF rop[r] = "update" THEN "error" ELSE "range"]
  /\ loaded' = [loaded EXCEPT ![rbot[r]] = IF engine[rbot[r]] = "open" THEN @ \cup {r} ELSE @]
  /\ UNCHANGED <<fleetVars, engine, over, signalled, rop, rbot, rtodo, rdue>>

\* The answer is sent, or the connection of a handler that panicked is closed.
Return(r) ==
  /\ rpc[r] \in {"ok", "missing", "error", "panic"}
  /\ rpc' = [rpc EXCEPT ![r] = "idle"]
  /\ rop' = [rop EXCEPT ![r] = "none"]
  /\ rbot' = [rbot EXCEPT ![r] = NoBot]
  /\ rtodo' = [rtodo EXCEPT ![r] = {}]
  /\ rdue' = [rdue EXCEPT ![r] = Nothing]
  /\ loaded' = [b \in Bots |-> loaded[b] \ {r}]
  /\ UNCHANGED <<fleetVars, engine, over, signalled>>

RequestStep(r) ==
  \/ \E id \in Ids : BeginOne(r, id)
  \/ \E op \in {"stop_all", "update_all"} : BeginAll(r, op)
  \/ \E id \in Ids : Visit(r, id)
  \/ AnswerAll(r)
  \/ CheckStop(r)
  \/ CloseStop(r)
  \/ LoadLua(r)
  \/ Return(r)

-----------------------------------------------------------------------------
NodeNext ==
  \/ LaunchManually
  \/ LaunchAssigned
  \/ LaunchUnreachable
  \/ Relaunch
  \/ \E b \in Bots : BotStep(b)
  \/ \E r \in Requests : RequestStep(r)

NodeSpec == NodeInit /\ [][NodeNext]_nodeVars

-----------------------------------------------------------------------------
(***************************************************************************)
(* Properties                                                              *)
(***************************************************************************)

NodeTypeOK ==
  /\ launched \in 0..MaxLaunches
  /\ registry \in [Ids -> 0..launched]
  /\ nextID \in 0..MaxLaunches
  /\ rollout \in 0..(NumBots + 1)
  /\ engine \in [Bots -> {"none", "open", "closed"}]
  /\ over \in [Bots -> BOOLEAN]
  /\ signalled \in [Bots -> BOOLEAN]
  /\ loaded \in [Bots -> SUBSET Requests]
  /\ rpc \in [Requests -> {"idle", "range", "check", "close", "load", "ok", "missing",
                           "error", "panic"}]
  /\ rop \in [Requests -> {"none", "stop", "update", "stop_all", "update_all"}]
  /\ rbot \in [Requests -> 0..launched]
  /\ rtodo \in [Requests -> SUBSET Ids]
  /\ rdue \in [Requests -> [Ids -> 0..launched]]

\* "All bots told": a bot that was registered when the request came and still is when
\* it is answered has been told to stop, whatever other requests and launches ran.
StopAllReachesAll ==
  \A r \in Requests : rop[r] = "stop_all" /\ rpc[r] = "ok" =>
    \A i \in Ids : rdue[r][i] # NoBot /\ registry[i] = rdue[r][i] => signalled[registry[i]]

\* "Lua updated", for all bots: every bot whose engine was open when the request came,
\* and that is still registered, has run the code.
UpdateAllReachesAll ==
  \A r \in Requests : rop[r] = "update_all" /\ rpc[r] = "ok" =>
    \A i \in Ids : rdue[r][i] # NoBot /\ registry[i] = rdue[r][i] => r \in loaded[registry[i]]

=============================================================================
