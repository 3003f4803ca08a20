---------------------------- MODULE FleetProofs -----------------------------
(***************************************************************************)
(* Proofs about a bot's life, for any number of names tried, and about the *)
(* node that runs many, for any number of bots, launches and requests: a   *)
(* bot releases what it holds, and a request to all reaches every bot it   *)
(* owes, whatever runs beside it.                                          *)
(***************************************************************************)
EXTENDS BotRun, BotNode, TLAPS

-----------------------------------------------------------------------------
(* The run of one bot. *)

\* What Run holds at each point: the engine opens once and closes last; the movement
\* loop lives within the AI loop; only the two exits shut the connection.
HoldsByPoint ==
  /\ pc \in {"authenticate", "connect"} => conn = "none"
  /\ pc \in {"engine", "loop", "join", "close", "close_lua"} => lua = "open"
  /\ pc = "done" => lua = "closed"
  /\ pc \notin {"engine", "loop", "join", "close", "close_lua", "done"}
       => lua = "none" /\ nav = "none"
  /\ mover = "running" => pc \in {"loop", "join"}
  /\ conn = "shut" => pc \in {"failed", "close_lua", "done"}
  /\ pc \in {"failed", "close_lua", "done"} => conn \in {"none", "shut"}
  /\ pc \in {"close_lua", "done"} => nav # "open"

\* A wait that succeeded was verified, and so is every status it leads to.
LoginByWait ==
  /\ waiter = "ok" => verified
  /\ InWorldIsVerified

\* Another name is tried only while the limit allows it.
TriesByPoint ==
  /\ pc \in {"authenticate", "connect", "list", "relist"} => tries = 0
  /\ pc = "create" => tries < MaxAttempts

RunInv == TypeOK /\ HoldsByPoint /\ LoginByWait /\ TriesByPoint

LEMMA RunInitially == ASSUME Init PROVE RunInv
<1>1. tries \in 0..MaxAttempts
  BY MaxAttemptsAssumption DEF Init
<1>2. TypeOK
  BY <1>1, Zenon DEF Init, TypeOK
<1>3. HoldsByPoint
  BY DEF Init, HoldsByPoint
<1>4. LoginByWait
  BY DEF Init, LoginByWait, InWorldIsVerified
<1>5. TriesByPoint
  BY MaxAttemptsAssumption DEF Init, TriesByPoint
<1> QED
  BY <1>2, <1>3, <1>4, <1>5 DEF RunInv

\* Every step of Run keeps the invariant.
LEMMA RunKeeps ==
  ASSUME RunInv, RunStep
  PROVE  RunInv'
<1> USE MaxAttemptsAssumption
    DEF RunInv, TypeOK, HoldsByPoint, LoginByWait, TriesByPoint, InWorldIsVerified, held, GoTo,
        Fail
<1>0. UNCHANGED sending
  BY DEF RunStep
<1>1. CASE Authenticate   BY <1>0, <1>1 DEF Authenticate
<1>2. CASE Connect        BY <1>0, <1>2 DEF Connect
<1>3. CASE AwaitList      BY <1>0, <1>3 DEF AwaitList
<1>4. CASE AwaitRelist    BY <1>0, <1>4 DEF AwaitRelist
<1>5. CASE CreateCharacter
  <2>1. /\ pc = "create"
        /\ GoTo("newlist") \/ GoTo("create") \/ Fail
        /\ UNCHANGED <<account, stopped, reader, errReady, verified, waiter>>
    BY <1>0, <1>5, Zenon DEF CreateCharacter
  <2>2. \/ tries' = tries + 1 /\ pc' \in {"newlist", "failed"}
        \/ tries' = tries + 1 /\ tries' < MaxAttempts /\ pc' = "create"
        \/ tries' = tries /\ pc' = "failed"
    BY <1>0, <1>5 DEF CreateCharacter
  <2>3. tries < MaxAttempts /\ tries \in 0..MaxAttempts
    BY <2>1
  <2>4. tries' \in 0..MaxAttempts
    BY <2>2, <2>3
  <2>5. TriesByPoint'
    BY <2>2, <2>3
  <2>6. TypeOK' /\ HoldsByPoint'
    BY <1>0, <2>1, <2>4
  <2>7. LoginByWait'
    BY <2>1, Zenon
  <2> QED
    BY <2>5, <2>6, <2>7
<1>6. CASE AwaitNewList   BY <1>0, <1>6 DEF AwaitNewList
<1>7. CASE BeginLogin     BY <1>0, <1>7 DEF BeginLogin
<1>8. CASE TakeLogin
  <2>1. TypeOK' /\ HoldsByPoint' /\ TriesByPoint'
    BY <1>0, <1>8 DEF TakeLogin
  <2>2. LoginByWait'
    BY <1>0, <1>8, ZenonT(30) DEF TakeLogin
  <2> QED
    BY <2>1, <2>2
<1>9. CASE TakeWorldError
  <2>1. /\ pc = "verify" /\ Fail
        /\ UNCHANGED <<account, stopped, tries, reader, verified, waiter>>
    BY <1>0, <1>9, Zenon DEF TakeWorldError
  <2>2. errReady' \in BOOLEAN
    BY <1>0, <1>9, Zenon DEF TakeWorldError
  <2> QED
    BY <1>0, <2>1, <2>2
<1>10. CASE MakeEngine    BY <1>0, <1>10 DEF MakeEngine
<1>11. CASE LoadConfig    BY <1>0, <1>11 DEF LoadConfig
<1>12. CASE LeaveLoop
  <2>1. /\ pc = "loop" /\ GoTo("join")
        /\ UNCHANGED <<account, stopped, tries, reader, verified, waiter>>
    BY <1>0, <1>12, Zenon DEF LeaveLoop
  <2>2. errReady' \in BOOLEAN
    BY <1>0, <1>12, Zenon DEF LeaveLoop
  <2> QED
    BY <1>0, <2>1, <2>2
<1>13. CASE Join          BY <1>0, <1>13 DEF Join
<1>14. CASE CloseWorld    BY <1>0, <1>14 DEF CloseWorld
<1>15. CASE CloseLua      BY <1>0, <1>15 DEF CloseLua
<1> QED
  BY RunStep, <1>1, <1>2, <1>3, <1>4, <1>5, <1>6, <1>7, <1>8, <1>9, <1>10, <1>11, <1>12, <1>13,
     <1>14, <1>15 DEF RunStep

LEMMA RunNextKeeps ==
  ASSUME RunInv, [Next]_vars
  PROVE  RunInv'
<1> USE DEF RunInv, TypeOK, HoldsByPoint, LoginByWait, TriesByPoint, InWorldIsVerified,
        held
<1>1. CASE RunStep      BY <1>1, RunKeeps
<1>2. CASE ServerDrops  BY <1>2 DEF ServerDrops
<1>3. CASE ReadVerify   BY <1>3 DEF ReadVerify
<1>4. CASE ReaderEnds   BY <1>4 DEF ReaderEnds
<1>5. CASE WaiterEnds   BY <1>5 DEF WaiterEnds
<1>6. CASE MoverEnds    BY <1>6 DEF MoverEnds
<1>7. CASE Stop         BY <1>7 DEF Stop
<1>8. ASSUME NEW g \in Goroutines, SendBlocks(g) \/ SendReturns(g)
      PROVE  RunInv'
  BY <1>8 DEF SendBlocks, SendReturns
<1>9. CASE UNCHANGED vars BY <1>9 DEF vars
<1> QED
  BY <1>1, <1>2, <1>3, <1>4, <1>5, <1>6, <1>7, <1>8, <1>9 DEF Next

\* The invariant holds of every behaviour of Run.
THEOREM RunInvariant == SafeSpec => []RunInv
<1>1. Init => RunInv
  BY RunInitially
<1>2. RunInv /\ [Next]_vars => RunInv'
  BY RunNextKeeps
<1> QED
  BY <1>1, <1>2, PTL DEF SafeSpec

\* The variables of a Run keep their types, and it tries no more names than allowed.
THEOREM RunTypeCorrect == SafeSpec => []TypeOK
BY RunInvariant, PTL DEF RunInv

\* A Run that has ended has shut its connection, closed its navigator and engine, and
\* outlived its movement loop.
THEOREM RunReleasesAll == SafeSpec => []EndedHoldsNothing
<1>1. RunInv => EndedHoldsNothing
  BY DEF RunInv, TypeOK, HoldsByPoint, EndedHoldsNothing, Ended
<1> QED
  BY <1>1, RunInvariant, PTL

\* The movement loop has ended before Run shuts the connection.
THEOREM MoverEndsBeforeClose == SafeSpec => []MoverEndsFirst
<1>1. RunInv => MoverEndsFirst
  BY DEF RunInv, HoldsByPoint, MoverEndsFirst
<1> QED
  BY <1>1, RunInvariant, PTL

\* "in_world" is reported only of a verified login.
THEOREM InWorldOnlyVerified == SafeSpec => []InWorldIsVerified
BY RunInvariant, PTL DEF RunInv, LoginByWait

-----------------------------------------------------------------------------
\* A step of Run opens the engine once, ends before it opens or when it closes, or does
\* neither.
LEMMA RunStepIsLifeStep ==
  ASSUME RunInv, RunStep
  PROVE  [Life!Next]_Life!lifeVars
<1> USE DEF RunInv, TypeOK, HoldsByPoint, held, GoTo, Fail, Ended, Life!Next, Life!Progress,
        Life!EndUnopened, Life!Open, Life!Finish, Life!lifeVars
<1>1. CASE Authenticate   BY <1>1 DEF Authenticate
<1>2. CASE Connect        BY <1>2 DEF Connect
<1>3. CASE AwaitList      BY <1>3 DEF AwaitList
<1>4. CASE AwaitRelist    BY <1>4 DEF AwaitRelist
<1>5. CASE CreateCharacter BY <1>5 DEF CreateCharacter
<1>6. CASE AwaitNewList   BY <1>6 DEF AwaitNewList
<1>7. CASE BeginLogin     BY <1>7 DEF BeginLogin
<1>8. CASE TakeLogin      BY <1>8 DEF TakeLogin
<1>9. CASE TakeWorldError BY <1>9 DEF TakeWorldError
<1>10. CASE MakeEngine    BY <1>10 DEF MakeEngine
<1>11. CASE LoadConfig    BY <1>11 DEF LoadConfig
<1>12. CASE LeaveLoop     BY <1>12 DEF LeaveLoop
<1>13. CASE Join          BY <1>13 DEF Join
<1>14. CASE CloseWorld    BY <1>14 DEF CloseWorld
<1>15. CASE CloseLua      BY <1>15 DEF CloseLua
<1> QED
  BY RunStep, <1>1, <1>2, <1>3, <1>4, <1>5, <1>6, <1>7, <1>8, <1>9, <1>10, <1>11, <1>12, <1>13,
     <1>14, <1>15 DEF RunStep

LEMMA NextIsLifeStep ==
  ASSUME RunInv, [Next]_vars
  PROVE  [Life!Next]_Life!lifeVars
<1> USE DEF held, Ended, Life!lifeVars
<1>1. CASE RunStep      BY <1>1, RunStepIsLifeStep
<1>2. CASE ServerDrops  BY <1>2 DEF ServerDrops
<1>3. CASE ReadVerify   BY <1>3 DEF ReadVerify
<1>4. CASE ReaderEnds   BY <1>4 DEF ReaderEnds
<1>5. CASE WaiterEnds   BY <1>5 DEF WaiterEnds
<1>6. CASE MoverEnds    BY <1>6 DEF MoverEnds
<1>7. CASE Stop         BY <1>7 DEF Stop, Life!Next, Life!Stop
<1>8. ASSUME NEW g \in Goroutines, SendBlocks(g) \/ SendReturns(g)
      PROVE  [Life!Next]_Life!lifeVars
  BY <1>8 DEF SendBlocks, SendReturns
<1>9. CASE UNCHANGED vars BY <1>9 DEF vars
<1> QED
  BY <1>1, <1>2, <1>3, <1>4, <1>5, <1>6, <1>7, <1>8, <1>9 DEF Next

\* Run implements the safety part of BotLife: a node may rely on an engine that opens at
\* most once, closes with the end, and never opens after it.
THEOREM RunImplementsLife == SafeSpec => Life!SafeSpec
<1>1. Init => Life!Init
  BY DEF Init, Life!Init, Ended
<1>2. RunInv /\ [Next]_vars => [Life!Next]_Life!lifeVars
  BY NextIsLifeStep
<1> QED
  BY <1>1, <1>2, RunInvariant, PTL DEF SafeSpec, Life!SafeSpec

-----------------------------------------------------------------------------
(* The registry of the node. *)

All == {"stop_all", "update_all"}

\* Where a request is agrees with what it does, and with what it has left to visit.
Placed(r) ==
  /\ rpc[r] \in {"check", "close"} => rop[r] \in {"stop", "stop_all"} /\ rbot[r] \in Bots
  /\ rpc[r] = "load" => rop[r] \in {"update", "update_all"} /\ rbot[r] \in Bots
  /\ rpc[r] = "range" => rop[r] \in All
  /\ rpc[r] = "ok" /\ rop[r] \in All => rtodo[r] = {}
  /\ \A i \in rtodo[r] : registry[i] # NoBot

\* A bot that is still registered as it was when the request began.
Owed(r, i) == rdue[r][i] # NoBot /\ registry[i] = rdue[r][i]

\* A bot owed a stop has been told, is being told, or is still to be visited.
StopDue(r) ==
  rop[r] = "stop_all" /\ rpc[r] # "panic" =>
    \A i \in Ids : Owed(r, i) =>
      \/ signalled[registry[i]]
      \/ i \in rtodo[r]
      \/ rpc[r] \in {"check", "close"} /\ rbot[r] = registry[i]

\* A bot owed an update has run the code, is about to, or is still to be visited; its
\* engine was open once.
UpdateDue(r) ==
  rop[r] = "update_all" =>
    /\ \A i \in Ids : rdue[r][i] # NoBot => engine[rdue[r][i]] # "none"
    /\ rpc[r] # "panic" =>
         \A i \in Ids : Owed(r, i) =>
           \/ r \in loaded[registry[i]]
           \/ i \in rtodo[r]
           \/ rpc[r] = "load" /\ rbot[r] = registry[i]

NodeInv ==
  /\ NodeTypeOK
  /\ \A r \in Requests : Placed(r) /\ StopDue(r) /\ UpdateDue(r)

USE NodeAssumption DEF fleetVars, botVars, reqVars, Bots, Ids, NoBot, Nothing

-----------------------------------------------------------------------------
LEMMA InitNodeInv == ASSUME NodeInit PROVE NodeInv
BY DEF NodeInit, NodeInv, NodeTypeOK, Placed, StopDue, UpdateDue, Owed

\* A launch names a bot that no request owes anything.
LEMMA RegisterKeeps ==
  ASSUME NodeInv, NEW id \in Ids, Register(id),
         nextID' \in 0..MaxLaunches, rollout' \in 0..(NumBots + 1)
  PROVE  NodeInv'
<1>1. launched' \in 0..MaxLaunches /\ launched' = launched + 1 /\ launched \in Nat
  BY DEF NodeInv, NodeTypeOK, Register
<1>2. registry' \in [Ids -> 0..launched'] /\ registry'[id] = launched'
  BY <1>1 DEF NodeInv, NodeTypeOK, Register
<1>3. NodeTypeOK'
  BY <1>1, <1>2 DEF NodeInv, NodeTypeOK, Register
<1>4. \A r \in Requests, i \in Ids : rdue[r][i] \in 0..launched
  BY DEF NodeInv, NodeTypeOK
<1>5. \A r \in Requests, i \in Ids : Owed(r, i)' => Owed(r, i) /\ registry'[i] = registry[i]
  BY <1>1, <1>2, <1>4 DEF NodeInv, NodeTypeOK, Register, Owed
<1>6. ASSUME NEW r \in Requests
      PROVE  Placed(r)' /\ StopDue(r)' /\ UpdateDue(r)'
  <2>1. Placed(r)'
    BY <1>1, <1>2 DEF NodeInv, NodeTypeOK, Register, Placed
  <2>2. StopDue(r)'
    BY <1>5 DEF NodeInv, Register, StopDue
  <2>3. UpdateDue(r)'
    BY <1>5 DEF NodeInv, Register, UpdateDue
  <2> QED
    BY <2>1, <2>2, <2>3
<1> QED
  BY <1>3, <1>6 DEF NodeInv

LEMMA LaunchKeeps ==
  ASSUME NodeInv, LaunchManually \/ LaunchAssigned \/ LaunchUnreachable \/ Relaunch
  PROVE  NodeInv'
<1> USE DEF NodeInv, NodeTypeOK
<1>1. CASE LaunchManually
  <2>1. nextID' \in Ids /\ nextID' \in 0..MaxLaunches /\ rollout' \in 0..(NumBots + 1)
    BY <1>1 DEF LaunchManually
  <2>2. Register(nextID')
    BY <1>1 DEF LaunchManually
  <2> HIDE DEF NodeInv
  <2> QED
    BY <2>1, <2>2, RegisterKeeps
<1>2. CASE LaunchAssigned
  <2>1. rollout \in Ids /\ nextID' \in 0..MaxLaunches /\ rollout' \in 0..(NumBots + 1)
    BY <1>2 DEF LaunchAssigned
  <2>2. Register(rollout)
    BY <1>2 DEF LaunchAssigned
  <2> HIDE DEF NodeInv
  <2> QED
    BY <2>1, <2>2, RegisterKeeps
<1>3. CASE LaunchUnreachable \/ Relaunch
  <2>1. /\ rollout' \in 0..(NumBots + 1)
        /\ UNCHANGED <<launched, registry, nextID, botVars, reqVars>>
    BY <1>3 DEF LaunchUnreachable, Relaunch
  <2>2. NodeTypeOK'
    BY <2>1
  <2>3. ASSUME NEW r \in Requests PROVE Placed(r)' /\ StopDue(r)' /\ UpdateDue(r)'
    BY <2>1 DEF Placed, StopDue, UpdateDue, Owed
  <2> QED
    BY <2>2, <2>3
<1> QED
  BY <1>1, <1>2, <1>3

\* An engine that has been open does not become unopened.
LEMMA BotKeeps ==
  ASSUME NodeInv, NEW b \in Bots, BotStep(b)
  PROVE  NodeInv'
<1>1. /\ UNCHANGED <<signalled, loaded, fleetVars, reqVars>>
      /\ engine' \in [Bots -> {"none", "open", "closed"}]
      /\ over' \in [Bots -> BOOLEAN]
      /\ \A c \in Bots : engine[c] # "none" => engine'[c] # "none"
  BY DEF BotStep, EndUnopened, Open, Finish, NodeInv, NodeTypeOK
<1>2. NodeTypeOK'
  BY <1>1 DEF NodeInv, NodeTypeOK
<1>3. ASSUME NEW r \in Requests
      PROVE  Placed(r)' /\ StopDue(r)' /\ UpdateDue(r)'
  BY <1>1 DEF NodeInv, NodeTypeOK, Placed, StopDue, UpdateDue, Owed
<1> QED
  BY <1>2, <1>3 DEF NodeInv

-----------------------------------------------------------------------------
\* What a step of one request leaves alone of the others.
Beside(r) ==
  /\ UNCHANGED <<fleetVars, engine, over>>
  /\ NodeTypeOK'
  /\ \A s \in Requests \ {r} :
       /\ rpc'[s] = rpc[s]
       /\ rop'[s] = rop[s]
       /\ rbot'[s] = rbot[s]
       /\ rtodo'[s] = rtodo[s]
       /\ rdue'[s] = rdue[s]
       /\ \A b \in Bots : s \in loaded[b] => s \in loaded'[b]
  /\ \A b \in Bots : signalled[b] => signalled'[b]

LEMMA BesideKeeps ==
  ASSUME NodeInv, NEW r \in Requests, Beside(r), Placed(r)', StopDue(r)', UpdateDue(r)'
  PROVE  NodeInv'
<1>1. ASSUME NEW s \in Requests \ {r}
      PROVE  Placed(s)' /\ StopDue(s)' /\ UpdateDue(s)'
  <2>1. /\ s \in Requests /\ s # r /\ Placed(s) /\ StopDue(s) /\ UpdateDue(s)
        /\ UNCHANGED <<registry, engine>>
        /\ rpc'[s] = rpc[s] /\ rop'[s] = rop[s] /\ rbot'[s] = rbot[s]
        /\ rtodo'[s] = rtodo[s] /\ rdue'[s] = rdue[s]
    BY <1>1 DEF NodeInv, Beside
  <2>2. \A i \in Ids : Owed(s, i)' <=> Owed(s, i)
    BY <2>1 DEF Owed
  <2>3. \A i \in Ids : Owed(s, i) => registry[i] \in Bots
    BY <2>1 DEF NodeInv, NodeTypeOK, Owed
  <2>4. Placed(s)'
    BY <2>1 DEF Placed
  <2>5. StopDue(s)'
    BY <2>1, <2>2, <2>3 DEF StopDue, Beside
  <2>6. UpdateDue(s)'
    BY <2>1, <2>2, <2>3 DEF UpdateDue, Beside
  <2> QED
    BY <2>4, <2>5, <2>6
<1> QED
  BY <1>1 DEF NodeInv, Beside

LEMMA BeginKeeps ==
  ASSUME NodeInv, NEW r \in Requests,
         (\E id \in Ids : BeginOne(r, id)) \/ (\E op \in All : BeginAll(r, op))
  PROVE  NodeInv'
<1>1. CASE \E id \in Ids : BeginOne(r, id)
  <2>1. PICK id \in Ids : BeginOne(r, id)
    BY <1>1
  <2>2. Beside(r)
    BY <2>1 DEF Beside, BeginOne, NodeInv, NodeTypeOK
  <2>3. /\ rop'[r] \in {"stop", "update"}
        /\ rbot'[r] = registry[id]
        /\ rpc'[r] = "missing" \/ registry[id] # NoBot
        /\ rpc'[r] \in {"missing", IF rop'[r] = "stop" THEN "check" ELSE "load"}
        /\ UNCHANGED <<registry, rtodo>>
    <3>1. PICK op \in {"stop", "update"} :
            /\ rop' = [rop EXCEPT ![r] = op]
            /\ rpc' = [rpc EXCEPT ![r] = IF registry[id] = NoBot THEN "missing"
                                         ELSE IF op = "stop" THEN "check" ELSE "load"]
      BY <2>1, Zenon DEF BeginOne
    <3> QED
      BY <2>1, <3>1 DEF BeginOne, NodeInv, NodeTypeOK
  <2>4. Placed(r)'
    BY <2>3 DEF NodeInv, NodeTypeOK, Placed, All
  <2>5. StopDue(r)' /\ UpdateDue(r)'
    BY <2>3 DEF StopDue, UpdateDue
  <2> QED
    BY <2>2, <2>4, <2>5, BesideKeeps
<1>2. CASE \E op \in All : BeginAll(r, op)
  <2>1. PICK op \in All : BeginAll(r, op)
    BY <1>2
  <2>2. Beside(r)
    BY <2>1 DEF Beside, BeginAll, NodeInv, NodeTypeOK, All
  <2>3. Placed(r)' /\ StopDue(r)' /\ UpdateDue(r)'
    BY <2>1 DEF BeginAll, NodeInv, NodeTypeOK, Placed, StopDue, UpdateDue, Owed, All
  <2> QED
    BY <2>2, <2>3, BesideKeeps
<1> QED
  BY <1>1, <1>2

LEMMA RangeKeeps ==
  ASSUME NodeInv, NEW r \in Requests, (\E id \in Ids : Visit(r, id)) \/ AnswerAll(r)
  PROVE  NodeInv'
<1>1. CASE \E id \in Ids : Visit(r, id)
  <2>1. PICK id \in Ids : Visit(r, id)
    BY <1>1
  <2>2. Beside(r)
    BY <2>1 DEF Beside, Visit, NodeInv, NodeTypeOK
  <2>3. Placed(r)'
    BY <2>1 DEF Visit, NodeInv, NodeTypeOK, Placed, All
  <2>4. StopDue(r)'
    BY <2>1 DEF Visit, NodeInv, NodeTypeOK, Placed, StopDue, Owed, All
  <2>5. UpdateDue(r)'
    <3>1. /\ rpc[r] = "range" /\ rop[r] = "update_all" => rpc'[r] = "load"
          /\ rbot'[r] = registry[id]
          /\ rtodo'[r] = rtodo[r] \ {id}
          /\ UNCHANGED <<registry, engine, loaded, rop, rdue>>
      BY <2>1 DEF Visit, NodeInv, NodeTypeOK
    <3> QED
      BY <2>1, <3>1 DEF Visit, NodeInv, UpdateDue, Owed
  <2> QED
    BY <2>2, <2>3, <2>4, <2>5, BesideKeeps
<1>2. CASE AnswerAll(r)
  <2>1. Beside(r)
    BY <1>2 DEF Beside, AnswerAll, NodeInv, NodeTypeOK
  <2>2. /\ rpc[r] = "range" /\ rpc'[r] = "ok" /\ rtodo[r] = {}
        /\ UNCHANGED <<registry, engine, signalled, loaded, rop, rbot, rtodo, rdue>>
    BY <1>2 DEF AnswerAll, NodeInv, NodeTypeOK
  <2>3. Placed(r)' /\ StopDue(r)'
    BY <2>2 DEF NodeInv, Placed, StopDue, Owed
  <2>4. UpdateDue(r)'
    BY <2>2 DEF NodeInv, UpdateDue, Owed
  <2> QED
    BY <2>1, <2>3, <2>4, BesideKeeps
<1> QED
  BY <1>1, <1>2

LEMMA StopKeeps ==
  ASSUME NodeInv, NEW r \in Requests, CheckStop(r) \/ CloseStop(r)
  PROVE  NodeInv'
<1>1. CASE CheckStop(r)
  <2>1. Beside(r)
    BY <1>1 DEF Beside, CheckStop, Served, NodeInv, NodeTypeOK
  <2>2. Placed(r)' /\ StopDue(r)' /\ UpdateDue(r)'
    BY <1>1 DEF CheckStop, Served, NodeInv, NodeTypeOK, Placed, StopDue, UpdateDue, Owed, All
  <2> QED
    BY <2>1, <2>2, BesideKeeps
<1>2. CASE CloseStop(r)
  <2>1. Beside(r)
    BY <1>2 DEF Beside, CloseStop, Served, NodeInv, NodeTypeOK
  <2>2. Placed(r)'
    BY <1>2 DEF CloseStop, Served, NodeInv, NodeTypeOK, Placed, All
  <2>3. /\ rbot[r] \in Bots /\ rpc[r] = "close" /\ rop[r] # "update_all"
        /\ UNCHANGED <<registry, rop, rbot, rtodo, rdue>>
    BY <1>2 DEF CloseStop, NodeInv, Placed
  <2>4. UpdateDue(r)'
    BY <2>3 DEF UpdateDue
  <2>5. \A b \in Bots : signalled[b] \/ b = rbot[r] => signalled'[b]
    BY <1>2, <2>3 DEF CloseStop, NodeInv, NodeTypeOK
  <2>6. \A i \in Ids : Owed(r, i) => registry[i] \in Bots
    BY DEF Owed, NodeInv, NodeTypeOK
  <2>7. StopDue(r)'
    BY <2>3, <2>5, <2>6 DEF NodeInv, StopDue, Owed
  <2> QED
    BY <2>1, <2>2, <2>4, <2>7, BesideKeeps
<1> QED
  BY <1>1, <1>2

LEMMA LoadKeeps ==
  ASSUME NodeInv, NEW r \in Requests, LoadLua(r)
  PROVE  NodeInv'
<1>1. Beside(r)
  BY DEF Beside, LoadLua, Served, NodeInv, NodeTypeOK
<1>2. Placed(r)' /\ StopDue(r)'
  BY DEF LoadLua, Served, NodeInv, NodeTypeOK, Placed, StopDue, Owed, All
<1>3. UpdateDue(r)'
  <2> SUFFICES ASSUME rop[r] = "update_all"
               PROVE  UpdateDue(r)'
    BY DEF LoadLua, UpdateDue
  <2>1. /\ rbot[r] \in Bots /\ rpc[r] = "load"
        /\ UNCHANGED <<registry, engine, rop, rbot, rtodo, rdue>>
    BY DEF LoadLua, NodeInv, Placed
  <2>2. \A i \in Ids : rdue[r][i] # NoBot => engine[rdue[r][i]] # "none"
    BY DEF NodeInv, UpdateDue
  <2>3. ASSUME NEW i \in Ids, Owed(r, i)
        PROVE  r \in loaded[registry[i]] \/ i \in rtodo[r] \/ rbot[r] = registry[i]
    BY <2>1, <2>3 DEF NodeInv, UpdateDue
  <2>4. CASE engine[rbot[r]] = "open"
    <3>1. \A b \in Bots : r \in loaded[b] \/ b = rbot[r] => r \in loaded'[b]
      BY <2>1, <2>4 DEF LoadLua, NodeInv, NodeTypeOK
    <3>2. \A i \in Ids : Owed(r, i) => registry[i] \in Bots
      BY DEF Owed, NodeInv, NodeTypeOK
    <3> QED
      BY <2>1, <2>2, <2>3, <3>1, <3>2 DEF UpdateDue, Owed
  <2>5. CASE engine[rbot[r]] = "closed"
    <3>1. rpc'[r] = "panic"
      BY <2>1, <2>5 DEF LoadLua, NodeInv, NodeTypeOK
    <3> QED
      BY <2>1, <2>2, <3>1 DEF UpdateDue
  <2>6. CASE engine[rbot[r]] = "none"
    <3>1. loaded' = loaded
      BY <2>1, <2>6 DEF LoadLua, NodeInv, NodeTypeOK
    <3>2. \A i \in Ids : Owed(r, i) => rbot[r] # registry[i]
      BY <2>2, <2>6 DEF Owed
    <3> QED
      BY <2>1, <2>2, <2>3, <3>1, <3>2 DEF UpdateDue, Owed
  <2> QED
    BY <2>1, <2>4, <2>5, <2>6 DEF NodeInv, NodeTypeOK
<1> QED
  BY <1>1, <1>2, <1>3, BesideKeeps

LEMMA ReturnKeeps ==
  ASSUME NodeInv, NEW r \in Requests, Return(r)
  PROVE  NodeInv'
<1>1. Beside(r)
  BY DEF Beside, Return, NodeInv, NodeTypeOK
<1>2. Placed(r)' /\ StopDue(r)' /\ UpdateDue(r)'
  BY DEF Return, NodeInv, NodeTypeOK, Placed, StopDue, UpdateDue, Owed, All
<1> QED
  BY <1>1, <1>2, BesideKeeps

-----------------------------------------------------------------------------
\* The invariant holds of every behaviour of a node.
THEOREM NodeInvariant == NodeSpec => []NodeInv
<1>1. NodeInit => NodeInv
  BY InitNodeInv
<1>2. NodeInv /\ [NodeNext]_nodeVars => NodeInv'
  <2> SUFFICES ASSUME NodeInv, [NodeNext]_nodeVars PROVE NodeInv'
    OBVIOUS
  <2>1. CASE LaunchManually \/ LaunchAssigned \/ LaunchUnreachable \/ Relaunch
    BY <2>1, LaunchKeeps
  <2>2. ASSUME NEW b \in Bots, BotStep(b) PROVE NodeInv'
    BY <2>2, BotKeeps
  <2>3. ASSUME NEW r \in Requests, RequestStep(r) PROVE NodeInv'
    BY <2>3, BeginKeeps, RangeKeeps, StopKeeps, LoadKeeps, ReturnKeeps DEF RequestStep, All
  <2>4. CASE UNCHANGED nodeVars
    BY <2>4 DEF nodeVars, NodeInv, NodeTypeOK, Placed, StopDue, UpdateDue, Owed
  <2> QED
    BY <2>1, <2>2, <2>3, <2>4 DEF NodeNext
<1> QED
  BY <1>1, <1>2, PTL DEF NodeSpec

\* The state of a node keeps its types.
THEOREM NodeTypeCorrect == NodeSpec => []NodeTypeOK
BY NodeInvariant, PTL DEF NodeInv

\* A stop of all bots that is answered has told every bot registered since it came.
THEOREM StopAllReaches == NodeSpec => []StopAllReachesAll
<1>1. NodeInv => StopAllReachesAll
  BY DEF NodeInv, Placed, StopDue, Owed, All, StopAllReachesAll
<1> QED
  BY <1>1, NodeInvariant, PTL

\* An update of all bots that is answered has run on every bot it could have.
THEOREM UpdateAllReaches == NodeSpec => []UpdateAllReachesAll
<1>1. NodeInv => UpdateAllReachesAll
  BY DEF NodeInv, Placed, UpdateDue, Owed, All, UpdateAllReachesAll
<1> QED
  BY <1>1, NodeInvariant, PTL

=============================================================================
