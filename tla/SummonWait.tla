----------------------------- MODULE SummonWait -----------------------------
(***************************************************************************)
(* Waiting for a summon (client/summon.go).  The read loop stores each     *)
(* SMSG_SUMMON_REQUEST in a cache, copies the list of hooks, and calls the *)
(* copies without a lock.  ArmSummonRequest looks at the cache and then    *)
(* adds a hook; both offer the request to a channel of capacity one.  Each *)
(* element of Callers is one call of ArmSummonRequest with its wait, or of *)
(* WaitSummonRequest, which arms and waits at once.                        *)
(*                                                                         *)
(* A request is its number in the order the server sent them.              *)
(***************************************************************************)
EXTENDS Naturals, Sequences

CONSTANTS
  Callers,
  MaxRequests   \* bound: summon requests the server sends

VARIABLES
  latest,        \* requests received so far
  pendingSummon, \* w.pendingSummon, 0 when there is none
  handlerPc,     \* where handleSummonRequest is
  toCall,        \* the copied hooks it still has to call
  hooks,         \* w.summonRequestHooks
  callPc,        \* per caller, where it is
  offered,       \* per caller, the content of its channel
  answer,        \* per caller, the request its wait returned, 0 for none
  armedAt        \* history: per caller, latest when its hook was added

handlerVars == <<latest, handlerPc, toCall>>
callerVars == <<callPc, offered, answer, armedAt>>
summonVars == <<handlerVars, pendingSummon, hooks, callerVars>>

SummonInit ==
  /\ latest = 0
  /\ pendingSummon = 0
  /\ handlerPc = "idle"
  /\ toCall = {}
  /\ hooks = {}
  /\ callPc = [c \in Callers |-> "idle"]
  /\ offered = [c \in Callers |-> <<>>]
  /\ answer = [c \in Callers |-> 0]
  /\ armedAt = [c \in Callers |-> 0]

\* A send that is dropped when the channel is full.
Offer(c, request) ==
  offered' = IF offered[c] = <<>> THEN [offered EXCEPT ![c] = <<request>>] ELSE offered

-----------------------------------------------------------------------------
(***************************************************************************)
(* The read loop: handleSummonRequest.                                     *)
(***************************************************************************)

Receive ==
  /\ handlerPc = "idle"
  /\ latest < MaxRequests
  /\ latest' = latest + 1
  /\ pendingSummon' = latest'
  /\ handlerPc' = "stored"
  /\ UNCHANGED <<toCall, hooks, callerVars>>

CopyHooks ==
  /\ handlerPc = "stored"
  /\ toCall' = hooks
  /\ handlerPc' = "calling"
  /\ UNCHANGED <<latest, pendingSummon, hooks, callerVars>>

\* Mutant: the channel is unbuffered, so only a blocked wait receives.
CallHookUnbuffered(c) ==
  /\ handlerPc = "calling"
  /\ c \in toCall
  /\ toCall' = toCall \ {c}
  /\ IF callPc[c] = "wait" THEN Offer(c, latest) ELSE UNCHANGED offered
  /\ UNCHANGED <<latest, handlerPc, pendingSummon, hooks, callPc, answer, armedAt>>

CallHook(c) ==
  /\ handlerPc = "calling"
  /\ c \in toCall
  /\ toCall' = toCall \ {c}
  /\ Offer(c, latest)
  /\ UNCHANGED <<latest, handlerPc, pendingSummon, hooks, callPc, answer, armedAt>>

HandlerReturns ==
  /\ handlerPc = "calling"
  /\ toCall = {}
  /\ handlerPc' = "idle"
  /\ UNCHANGED <<latest, toCall, pendingSummon, hooks, callerVars>>

-----------------------------------------------------------------------------
(***************************************************************************)
(* The callers.                                                            *)
(***************************************************************************)

\* ArmSummonRequest offers what is already in the cache...
ArmPoll(c) ==
  /\ callPc[c] = "idle"
  /\ callPc' = [callPc EXCEPT ![c] = "polled"]
  /\ IF pendingSummon # 0 THEN Offer(c, pendingSummon) ELSE UNCHANGED offered
  /\ UNCHANGED <<handlerVars, pendingSummon, hooks, answer, armedAt>>

\* ... and then adds its hook.
ArmHook(c) ==
  /\ callPc[c] = "polled"
  /\ callPc' = [callPc EXCEPT ![c] = "armed"]
  /\ hooks' = hooks \cup {c}
  /\ armedAt' = [armedAt EXCEPT ![c] = latest]
  /\ UNCHANGED <<handlerVars, pendingSummon, offered, answer>>

BeginWait(c) ==
  /\ callPc[c] = "armed"
  /\ callPc' = [callPc EXCEPT ![c] = "wait"]
  /\ UNCHANGED <<handlerVars, pendingSummon, hooks, offered, answer, armedAt>>

WaitReceive(c) ==
  /\ callPc[c] = "wait"
  /\ offered[c] # <<>>
  /\ answer' = [answer EXCEPT ![c] = Head(offered[c])]
  /\ offered' = [offered EXCEPT ![c] = <<>>]
  /\ callPc' = [callPc EXCEPT ![c] = "cancel"]
  /\ UNCHANGED <<handlerVars, pendingSummon, hooks, armedAt>>

WaitTimeout(c) ==
  /\ callPc[c] = "wait"
  /\ callPc' = [callPc EXCEPT ![c] = "cancel"]
  /\ UNCHANGED <<handlerVars, pendingSummon, hooks, offered, answer, armedAt>>

\* Mutant: the comparison that filters the list is inverted.
CancelOthers(c) ==
  /\ callPc[c] = "cancel"
  /\ callPc' = [callPc EXCEPT ![c] = "done"]
  /\ hooks' = hooks \cap {c}
  /\ UNCHANGED <<handlerVars, pendingSummon, offered, answer, armedAt>>

\* The cancel function returned by AddSummonRequestHook.
Cancel(c) ==
  /\ callPc[c] = "cancel"
  /\ callPc' = [callPc EXCEPT ![c] = "done"]
  /\ hooks' = hooks \ {c}
  /\ UNCHANGED <<handlerVars, pendingSummon, offered, answer, armedAt>>

\* A caller that got a request answers it and drops the cached one.
ClearPendingSummon(c) ==
  /\ callPc[c] = "done"
  /\ answer[c] # 0
  /\ pendingSummon # 0
  /\ pendingSummon' = 0
  /\ UNCHANGED <<handlerVars, hooks, callerVars>>

CallerStep(c) ==
  \/ ArmPoll(c)
  \/ ArmHook(c)
  \/ BeginWait(c)
  \/ WaitReceive(c)
  \/ WaitTimeout(c)
  \/ Cancel(c)
  \/ ClearPendingSummon(c)

SummonNext ==
  \/ Receive
  \/ CopyHooks
  \/ \E c \in Callers : CallHook(c)
  \/ HandlerReturns
  \/ \E c \in Callers : CallerStep(c)

SummonSafeSpec == SummonInit /\ [][SummonNext]_summonVars

\* A handler that has started runs to its end; a call that has begun goes on, but
\* nothing obliges its timer to fire or the server to send a request.
SummonFairness ==
  /\ WF_summonVars(CopyHooks)
  /\ WF_summonVars(\E c \in Callers : CallHook(c))
  /\ \A c \in Callers :
       WF_summonVars(ArmHook(c) \/ BeginWait(c) \/ WaitReceive(c) \/ Cancel(c))

SummonSpec == SummonSafeSpec /\ SummonFairness

-----------------------------------------------------------------------------
(***************************************************************************)
(* Properties                                                              *)
(***************************************************************************)

SummonTypeOK ==
  /\ latest \in Nat
  /\ pendingSummon \in Nat
  /\ handlerPc \in {"idle", "stored", "calling"}
  /\ toCall \subseteq Callers
  /\ hooks \subseteq Callers
  /\ callPc \in [Callers -> {"idle", "polled", "armed", "wait", "cancel", "done"}]
  /\ offered \in [Callers -> Seq(Nat)]
  /\ \A c \in Callers : Len(offered[c]) <= 1
  /\ answer \in [Callers -> Nat]
  /\ armedAt \in [Callers -> Nat]

\* A call that has armed and not returned holds, or is about to be handed, a
\* request whenever one arrived since it armed: neither the cancellation of
\* another call nor the delay before the wait begins loses it.
ArmedCatches ==
  \A c \in Callers :
    callPc[c] \in {"armed", "wait"} /\ latest > armedAt[c] =>
      \/ offered[c] # <<>>
      \/ handlerPc = "stored" /\ c \in hooks
      \/ c \in toCall

\* A call that armed before the request arrived ends without its timer.
ArmedWaitEnds ==
  \A c \in Callers :
    callPc[c] = "armed" /\ latest > armedAt[c] ~> callPc[c] \in {"cancel", "done"}

=============================================================================
