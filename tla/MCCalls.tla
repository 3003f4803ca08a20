------------------------------- MODULE MCCalls -------------------------------
(***************************************************************************)
(* Instances of SessionPhase and SummonWait for TLC: the calls that wait   *)
(* for a phase or for a summon.  A behaviour of this module is one of the  *)
(* two, chosen initially, while the variables of the other keep their      *)
(* initial values.                                                         *)
(***************************************************************************)
EXTENDS MCSessionPhase, SummonWait

CONSTANTS c1, c2

VARIABLE system   \* the module whose behaviour this is

CallsInit == system \in {"phase", "summon"} /\ Init /\ SummonInit

Phase(A) == system = "phase" /\ A /\ UNCHANGED <<system, summonVars>>
Summon(A) == system = "summon" /\ A /\ UNCHANGED <<system, vars>>

OnePhaseNext == system = "phase" /\ Next /\ UNCHANGED <<system, summonVars>>
OneSummonNext == system = "summon" /\ SummonNext /\ UNCHANGED <<system, vars>>

callsVars == <<system, vars, summonVars>>

\* With the fairness of the modules.
CallsSpec ==
  /\ CallsInit
  /\ [][OnePhaseNext \/ OneSummonNext]_callsVars
  /\ \A s \in Threads :
       /\ WF_callsVars(Phase(SetPhase(s)))
       /\ WF_callsVars(Phase(\E w \in Waiters : Notify(s, w)))
       /\ WF_callsVars(Phase(\E e \in Effects : RunEffect(s, e)))
  /\ \A w \in PhaseWaiters :
       /\ WF_callsVars(Phase(PhaseRegister(w) \/ PhaseReceive(w) \/ Leave(w)))
       /\ WF_callsVars(Phase(SeeStop(w)))
  /\ \A t \in TeleportWaiters :
       /\ WF_callsVars(Phase(TeleportCall(t) \/ TeleportRegister(t) \/ TeleportCheck(t)))
       /\ WF_callsVars(Phase(TeleportReceive(t) \/ Leave(t)))
       /\ WF_callsVars(Phase(SeeStop(t)))
  /\ WF_callsVars(Summon(CopyHooks))
  /\ WF_callsVars(Summon(\E c \in Callers : CallHook(c)))
  /\ \A c \in Callers :
       WF_callsVars(Summon(ArmHook(c) \/ BeginWait(c) \/ WaitReceive(c) \/ Cancel(c)))

==============================================================================
