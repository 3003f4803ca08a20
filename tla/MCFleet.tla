------------------------------ MODULE MCFleet ------------------------------
(***************************************************************************)
(* Instances of BotRun and BotNode for TLC.  A behaviour of this module is *)
(* one of either, chosen initially, while the variables of the other keep  *)
(* their initial values: BotRun shows that a bot is what BotLife says, and *)
(* BotNode takes it from there.                                            *)
(***************************************************************************)
EXTENDS BotRun, BotNode, TLC

CONSTANTS r1, r2

VARIABLE system   \* the module whose behaviour this is

FleetInit ==
  /\ system \in {"run", "node"}
  /\ Init
  /\ NodeInit
  /\ system = "node" => account = "has"

RunNext ==
  /\ system = "run"
  /\ Next
  /\ UNCHANGED <<system, nodeVars>>

OneNodeNext ==
  /\ system = "node"
  /\ NodeNext
  /\ UNCHANGED <<system, vars>>

allVars == <<system, vars, nodeVars>>

Run(A) == system = "run" /\ A /\ UNCHANGED <<system, nodeVars>>

\* With the fairness of BotRun.  Its two strong conditions are one here: a Run has only
\* finitely many steps and its movement loop ends once, so either way both are at last
\* disabled for good.
FleetSpec ==
  /\ FleetInit
  /\ [][RunNext \/ OneNodeNext]_allVars
  /\ SF_allVars(Run(RunStep \/ MoverEnds))
  /\ WF_allVars(Run(WaiterEnds))
  /\ WF_allVars(Run(FailedCallReturns))

\* Requests are alike; the properties of BotRun, liveness included, do not mention them.
Symmetry == Permutations(Requests)

=============================================================================
