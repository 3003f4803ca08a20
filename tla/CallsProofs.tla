---------------------------- MODULE CallsProofs -----------------------------
(***************************************************************************)
(* Proofs about the calls that wait: those of SummonWait, for any callers  *)
(* and requests, and those of SessionPhase, for any waiters, any capacity  *)
(* of the channels and any number of teleports.                            *)
(***************************************************************************)
EXTENDS SessionPhaseRefinement, SummonWait, SequenceTheorems, TLAPS

-----------------------------------------------------------------------------
(* Summon requests. *)

\* A call keeps its hook from ArmSummonRequest to the end of its wait.
HookKept == \A c \in Callers : callPc[c] \in {"armed", "wait"} => c \in hooks

SummonInv == SummonTypeOK /\ HookKept /\ ArmedCatches

\* An offer leaves the caller's channel full and the others as they were.
LEMMA OfferFills ==
  ASSUME SummonTypeOK, NEW c \in Callers, NEW request \in Nat, Offer(c, request)
  PROVE  /\ offered' \in [Callers -> Seq(Nat)]
         /\ \A d \in Callers : Len(offered'[d]) <= 1
         /\ offered'[c] # <<>>
         /\ \A d \in Callers : offered[d] # <<>> => offered'[d] # <<>>
<1>1. CASE offered[c] = <<>>
  <2>1. offered' = [offered EXCEPT ![c] = <<request>>]
    BY <1>1 DEF Offer
  <2>2. <<request>> \in Seq(Nat) /\ Len(<<request>>) <= 1 /\ <<request>> # <<>>
    OBVIOUS
  <2> QED
    BY <2>1, <2>2 DEF SummonTypeOK
<1>2. CASE offered[c] # <<>>
  BY <1>2 DEF Offer, SummonTypeOK
<1> QED
  BY <1>1, <1>2

LEMMA SummonInitially == SummonInit => SummonInv
<1> SUFFICES ASSUME SummonInit PROVE SummonInv
  OBVIOUS
<1>1. <<>> \in Seq(Nat) /\ Len(<<>>) = 0
  OBVIOUS
<1> QED
  BY <1>1 DEF SummonInit, SummonInv, SummonTypeOK, HookKept, ArmedCatches

LEMMA SummonReadLoop ==
  ASSUME SummonInv, Receive \/ CopyHooks \/ (\E c \in Callers : CallHook(c)) \/ HandlerReturns
  PROVE  SummonInv'
<1>1. CASE Receive
  <2>1. SummonTypeOK'
    BY <1>1 DEF Receive, callerVars, SummonInv, SummonTypeOK
  <2>2. HookKept' /\ ArmedCatches'
    BY <1>1 DEF Receive, callerVars, SummonInv, HookKept, ArmedCatches
  <2> QED
    BY <2>1, <2>2 DEF SummonInv
<1>2. CASE CopyHooks
  BY <1>2 DEF CopyHooks, callerVars, SummonInv, SummonTypeOK, HookKept, ArmedCatches
<1>3. CASE \E c \in Callers : CallHook(c)
  <2>1. PICK c \in Callers : CallHook(c)
    BY <1>3
  <2>2. /\ Offer(c, latest) /\ toCall' = toCall \ {c}
        /\ UNCHANGED <<latest, handlerPc, pendingSummon, hooks, callPc, answer, armedAt>>
    BY <2>1 DEF CallHook
  <2>3. /\ offered' \in [Callers -> Seq(Nat)]
        /\ \A d \in Callers : Len(offered'[d]) <= 1
        /\ offered'[c] # <<>>
        /\ \A d \in Callers : offered[d] # <<>> => offered'[d] # <<>>
    BY <2>2, OfferFills DEF SummonInv, SummonTypeOK
  <2>4. SummonTypeOK'
    BY <2>2, <2>3 DEF SummonInv, SummonTypeOK
  <2>5. HookKept' /\ ArmedCatches'
    BY <2>2, <2>3 DEF SummonInv, HookKept, ArmedCatches
  <2> QED
    BY <2>4, <2>5 DEF SummonInv
<1>4. CASE HandlerReturns
  BY <1>4 DEF HandlerReturns, callerVars, SummonInv, SummonTypeOK, HookKept, ArmedCatches
<1> QED
  BY <1>1, <1>2, <1>3, <1>4

LEMMA SummonCaller == ASSUME SummonInv, NEW c \in Callers, CallerStep(c) PROVE SummonInv'
<1>1. CASE ArmPoll(c)
  <2>1. /\ callPc[c] = "idle" /\ callPc' = [callPc EXCEPT ![c] = "polled"]
        /\ UNCHANGED <<latest, handlerPc, toCall, pendingSummon, hooks, answer, armedAt>>
        /\ IF pendingSummon # 0 THEN Offer(c, pendingSummon) ELSE UNCHANGED offered
    BY <1>1 DEF ArmPoll, handlerVars
  <2>2. /\ offered' \in [Callers -> Seq(Nat)]
        /\ \A d \in Callers : Len(offered'[d]) <= 1
        /\ \A d \in Callers : offered[d] # <<>> => offered'[d] # <<>>
    <3>1. CASE pendingSummon # 0
      BY <3>1, <2>1, OfferFills DEF SummonInv, SummonTypeOK
    <3>2. CASE pendingSummon = 0
      BY <3>2, <2>1 DEF SummonInv, SummonTypeOK
    <3> QED
      BY <3>1, <3>2
  <2>3. SummonTypeOK'
    BY <2>1, <2>2 DEF SummonInv, SummonTypeOK
  <2>4. HookKept' /\ ArmedCatches'
    BY <2>1, <2>2 DEF SummonInv, SummonTypeOK, HookKept, ArmedCatches
  <2> QED
    BY <2>3, <2>4 DEF SummonInv
<1>2. CASE ArmHook(c)
  <2>1. SummonTypeOK'
    BY <1>2 DEF ArmHook, handlerVars, SummonInv, SummonTypeOK
  <2>2. HookKept' /\ ArmedCatches'
    BY <1>2 DEF ArmHook, handlerVars, SummonInv, SummonTypeOK, HookKept, ArmedCatches
  <2> QED
    BY <2>1, <2>2 DEF SummonInv
<1>3. CASE BeginWait(c)
  BY <1>3 DEF BeginWait, handlerVars, SummonInv, SummonTypeOK, HookKept, ArmedCatches
<1>4. CASE WaitReceive(c)
  <2>1. Head(offered[c]) \in Nat /\ <<>> \in Seq(Nat) /\ Len(<<>>) <= 1
    BY <1>4 DEF WaitReceive, SummonInv, SummonTypeOK
  <2>2. SummonTypeOK'
    BY <1>4, <2>1 DEF WaitReceive, handlerVars, SummonInv, SummonTypeOK
  <2>3. HookKept' /\ ArmedCatches'
    BY <1>4 DEF WaitReceive, handlerVars, SummonInv, SummonTypeOK, HookKept, ArmedCatches
  <2> QED
    BY <2>2, <2>3 DEF SummonInv
<1>5. CASE WaitTimeout(c)
  BY <1>5 DEF WaitTimeout, handlerVars, SummonInv, SummonTypeOK, HookKept, ArmedCatches
<1>6. CASE Cancel(c)
  BY <1>6 DEF Cancel, handlerVars, SummonInv, SummonTypeOK, HookKept, ArmedCatches
<1>7. CASE ClearPendingSummon(c)
  BY <1>7 DEF ClearPendingSummon, handlerVars, callerVars, SummonInv, SummonTypeOK, HookKept, ArmedCatches
<1> QED
  BY <1>1, <1>2, <1>3, <1>4, <1>5, <1>6, <1>7 DEF CallerStep

\* The types, each armed caller's hook in place, and no request missed while it is:
\* together they are inductive.
THEOREM SummonInvHolds == SummonSafeSpec => []SummonInv
<1>1. SummonInv /\ [SummonNext]_summonVars => SummonInv'
  <2> SUFFICES ASSUME SummonInv, [SummonNext]_summonVars PROVE SummonInv'
    OBVIOUS
  <2>1. CASE SummonNext
    BY <2>1, SummonReadLoop, SummonCaller DEF SummonNext
  <2>2. CASE UNCHANGED summonVars
    BY <2>2 DEF summonVars, handlerVars, callerVars, SummonInv, SummonTypeOK, HookKept, ArmedCatches
  <2> QED
    BY <2>1, <2>2
<1> QED
  BY SummonInitially, <1>1, PTL DEF SummonSafeSpec

\* The state keeps its types: no channel holds more than the one request it has room for.
THEOREM SummonTypesHold == SummonSpec => []SummonTypeOK
BY SummonInvHolds, PTL DEF SummonSpec, SummonInv

\* Between ArmSummonRequest and the end of the wait no request is lost, however many
\* calls overlap, cancel or answer (ArmSummonRequest, AddSummonRequestHook).
THEOREM ArmedNeverMisses == SummonSpec => []ArmedCatches
BY SummonInvHolds, PTL DEF SummonSpec, SummonInv

-----------------------------------------------------------------------------
(* Session phases and teleports. *)

USE DEF Waiters, Threads, Transfers, sessionVars, threadVars, callVars, TimeOut,
        SeeStop

-----------------------------------------------------------------------------
(***************************************************************************)
(* Type correctness                                                        *)
(***************************************************************************)

\* The lists of steps of the handlers are lists of steps.
LEMMA HandlerStepsType ==
  /\ <<"connected">> \in Seq(Phases \cup Effects)
  /\ <<"authed">> \in Seq(Phases \cup Effects)
  /\ <<"stop">> \in Seq(Phases \cup Effects)
  /\ <<"loading", "player_login">> \in Seq(Phases \cup Effects)
  /\ <<"in_world", "login_done">> \in Seq(Phases \cup Effects)
  /\ <<"near_teleport", "teleport_ack", "in_world">> \in Seq(Phases \cup Effects)
  /\ <<"far_transfer", "teleport_ack", "in_world">> \in Seq(Phases \cup Effects)
  /\ <<"logout", "logout_done", "stop">> \in Seq(Phases \cup Effects)
  BY DEF Phases, Effects

\* Starting a well-typed handler keeps the types.
LEMMA StartType ==
  ASSUME TypeOK, NEW s \in Threads, NEW steps \in Seq(Phases \cup Effects),
         Start(s, steps)
  PROVE  TypeOK'
  BY DEF TypeOK, Start

\* A packet, a login call or a Close keeps the types.
LEMMA ArrivalsType == TypeOK /\ Arrivals => TypeOK'
<1> SUFFICES ASSUME TypeOK, Arrivals PROVE TypeOK'
  OBVIOUS
<1>1. CASE Close
  BY <1>1 DEF Close, TypeOK
<1>2. CASE ~Close
  BY <1>2, HandlerStepsType, StartType
     DEF Arrivals, AuthChallenge, AuthOk, AuthFailed, LoginCharacter,
         LoginVerifyWorld, MoveTeleport, NewWorld, LogoutComplete
<1>3. QED
  BY <1>1, <1>2

\* A step of a handler keeps the types.
LEMMA HandlerType == TypeOK /\ Handler => TypeOK'
<1> SUFFICES ASSUME TypeOK, NEW s \in Threads,
                    \/ SetPhase(s)
                    \/ \E w \in Waiters : Notify(s, w)
                    \/ \E e \in Effects : RunEffect(s, e)
             PROVE  TypeOK'
  BY DEF Handler
<1>1. ASSUME todo[s] # <<>>
      PROVE  Tail(todo[s]) \in Seq(Phases \cup Effects)
  BY <1>1, HeadTailProperties DEF TypeOK
<1>2. CASE SetPhase(s)
  <2>1. todo' \in [Threads -> Seq(Phases \cup Effects)]
    BY <1>1, <1>2 DEF SetPhase, TypeOK
  <2>2. /\ phase' \in Phases
        /\ teleportSeq' \in Nat
        /\ announcing' \in [Threads -> Phases]
        /\ toNotify' \in [Threads -> SUBSET Waiters]
    BY <1>2 DEF SetPhase, TypeOK
  <2>3. seen' \in [PhaseWaiters -> SUBSET Phases]
    <3>1. CASE phase = Head(todo[s])
      BY <1>2, <3>1 DEF SetPhase, TypeOK
    <3>2. CASE phase # Head(todo[s])
      <4>1. Head(todo[s]) \in Phases
        BY <1>2 DEF SetPhase
      <4>2. seen' = [w \in PhaseWaiters |->
                      IF Calling(w) THEN seen[w] \cup {Head(todo[s])}
                                    ELSE seen[w]]
        BY <1>2, <3>2 DEF SetPhase
      <4>3. QED
        BY <4>1, <4>2 DEF TypeOK
    <3>3. QED
      BY <3>1, <3>2
  <2>4. QED
    BY <1>2, <2>1, <2>2, <2>3 DEF SetPhase, TypeOK
<1>3. ASSUME NEW w \in Waiters, Notify(s, w)
      PROVE  TypeOK'
  <2>1. /\ chan' \in [Waiters -> Seq(Phases)]
        /\ \A v \in Waiters : Len(chan'[v]) <= ChanCap
    <3>1. announcing[s] \in Phases /\ chan[w] \in Seq(Phases)
      BY DEF TypeOK
    <3>2. /\ Append(chan[w], announcing[s]) \in Seq(Phases)
          /\ Len(Append(chan[w], announcing[s])) = Len(chan[w]) + 1
      BY <3>1, AppendProperties
    <3>3. QED
      BY <1>3, <3>1, <3>2, LenProperties, ConstantsAssumption
         DEF Notify, TypeOK
  <2>2. toNotify' \in [Threads -> SUBSET Waiters]
    BY <1>3 DEF Notify, TypeOK
  <2>3. QED
    BY <1>3, <2>1, <2>2 DEF Notify, TypeOK
<1>4. ASSUME NEW e \in Effects, RunEffect(s, e)
      PROVE  TypeOK'
  <2>1. todo' \in [Threads -> Seq(Phases \cup Effects)]
    BY <1>1, <1>4 DEF RunEffect, TypeOK
  <2>2. QED
    BY <1>4, <2>1 DEF RunEffect, TypeOK
<1>5. QED
  BY <1>2, <1>3, <1>4

\* Reading a message from a channel leaves a shorter well-typed channel.
LEMMA ReceiveType ==
  ASSUME TypeOK, NEW w \in Waiters, chan[w] # <<>>,
         chan' = [chan EXCEPT ![w] = Tail(@)]
  PROVE  /\ chan' \in [Waiters -> Seq(Phases)]
         /\ \A v \in Waiters : Len(chan'[v]) <= ChanCap
<1>1. chan[w] \in Seq(Phases) /\ Len(chan[w]) <= ChanCap
  BY DEF TypeOK
<1>2. /\ Tail(chan[w]) \in Seq(Phases)
      /\ Len(Tail(chan[w])) = Len(chan[w]) - 1
  BY <1>1, HeadTailProperties
<1>3. QED
  BY <1>1, <1>2, LenProperties, ConstantsAssumption DEF TypeOK

\* A step of a waiting call keeps the types.
LEMMA WaiterType ==
  ASSUME TypeOK,
         \/ \E w \in PhaseWaiters : PhaseWaiterStep(w)
         \/ \E t \in TeleportWaiters : TeleportWaiterStep(t)
  PROVE  TypeOK'
<1>1. ASSUME NEW w \in Waiters, GiveUp(w) \/ Leave(w)
      PROVE  TypeOK'
  BY <1>1 DEF GiveUp, Leave, Decide, PCs, Results, TypeOK
<1>2. ASSUME NEW w \in PhaseWaiters, PhaseWaiterStep(w)
      PROVE  TypeOK'
  <2>1. CASE PhaseCall(w)
    BY <2>1 DEF PhaseCall, Decide, PCs, Results, TypeOK
  <2>2. CASE PhaseRegister(w)
    BY <2>2 DEF PhaseRegister, Decide, PCs, Results, TypeOK
  <2>3. CASE PhaseReceive(w)
    <3>1. /\ chan' \in [Waiters -> Seq(Phases)]
          /\ \A v \in Waiters : Len(chan'[v]) <= ChanCap
      BY <2>3, ReceiveType DEF PhaseReceive
    <3>2. QED
      BY <2>3, <3>1 DEF PhaseReceive, Decide, PCs, Results, TypeOK
  <2>4. QED
    BY <1>1, <1>2, <2>1, <2>2, <2>3 DEF PhaseWaiterStep
<1>3. ASSUME NEW t \in TeleportWaiters, TeleportWaiterStep(t)
      PROVE  TypeOK'
  <2>1. CASE Snapshot(t)
    BY <2>1 DEF Snapshot, PCs, TypeOK
  <2>2. CASE TeleportCall(t)
    BY <2>2 DEF TeleportCall, Decide, PCs, Results, TypeOK
  <2>3. CASE TeleportRegister(t)
    BY <2>3 DEF TeleportRegister, Decide, PCs, Results, TypeOK
  <2>4. CASE TeleportCheck(t)
    BY <2>4 DEF TeleportCheck, Decide, PCs, Results, TypeOK
  <2>5. CASE TeleportReceive(t)
    <3>1. /\ chan' \in [Waiters -> Seq(Phases)]
          /\ \A v \in Waiters : Len(chan'[v]) <= ChanCap
      BY <2>5, ReceiveType DEF TeleportReceive
    <3>2. QED
      BY <2>5, <3>1 DEF TeleportReceive, PCs, TypeOK
  <2>6. QED
    BY <1>1, <1>3, <2>1, <2>2, <2>3, <2>4, <2>5 DEF TeleportWaiterStep
<1>4. QED
  BY <1>2, <1>3

\* Every variable of SessionPhase keeps its type, and a waiter's channel never
\* holds more than its capacity.
THEOREM TypeCorrect == SafeSpec => []TypeOK
<1>1. Init => TypeOK
  <2> SUFFICES ASSUME Init PROVE TypeOK
    OBVIOUS
  <2>1. /\ todo \in [Threads -> Seq(Phases \cup Effects)]
        /\ chan \in [Waiters -> Seq(Phases)]
        /\ \A w \in Waiters : Len(chan[w]) <= ChanCap
    BY ConstantsAssumption DEF Init
  <2>2. want \in [PhaseWaiters -> Phases]
    BY ConstantsAssumption DEF Init
  <2>3. announcing \in [Threads -> Phases] /\ phase \in Phases
    BY DEF Init, Phases
  <2>4. QED
    BY <2>1, <2>2, <2>3 DEF Init, TypeOK, PCs, Results
<1>2. TypeOK /\ [Next]_vars => TypeOK'
  <2>1. TypeOK /\ UNCHANGED vars => TypeOK'
    BY DEF TypeOK, vars
  <2>2. QED
    BY <2>1, ArrivalsType, HandlerType, WaiterType DEF Next
<1>3. QED
  BY <1>1, <1>2, PTL DEF SafeSpec

-----------------------------------------------------------------------------
(***************************************************************************)
(* No lost wake-up                                                         *)
(***************************************************************************)

\* What a step preserves: the registered calls are the ones a setPhase call
\* copies, so none that is blocked is left out of the copy.
WakeInv == RegistrationMatchesCalls /\ NoLostTeleportWake

\* Arrivals change neither the calls nor the sequence.
LEMMA ArrivalsWake == WakeInv /\ Arrivals => WakeInv'
  BY DEF WakeInv, RegistrationMatchesCalls, NoLostTeleportWake, Arrivals, Start,
         AuthChallenge, AuthOk, AuthFailed, LoginCharacter, LoginVerifyWorld,
         MoveTeleport, NewWorld, LogoutComplete, Close

\* setPhase copies every registered call when it advances the sequence, and a
\* send leaves the channel non-empty whether or not it drops its value.
LEMMA HandlerWake == TypeOK /\ WakeInv /\ Handler => WakeInv'
<1> SUFFICES ASSUME TypeOK, WakeInv, NEW s \in Threads,
                    \/ SetPhase(s)
                    \/ \E w \in Waiters : Notify(s, w)
                    \/ \E e \in Effects : RunEffect(s, e)
             PROVE  WakeInv'
  BY DEF Handler
<1> USE DEF WakeInv, RegistrationMatchesCalls, NoLostTeleportWake
<1>1. CASE SetPhase(s)
  <2>1. CASE phase = Head(todo[s])
    BY <1>1, <2>1 DEF SetPhase
  <2>2. CASE phase # Head(todo[s])
    <3>1. /\ toNotify' = [toNotify EXCEPT ![s] = registered]
          /\ UNCHANGED <<registered, chan, pc, after>>
      BY <1>1, <2>2 DEF SetPhase
    <3>2. QED
      BY <3>1 DEF TypeOK
  <2>3. QED
    BY <2>1, <2>2
<1>2. ASSUME NEW w \in Waiters, Notify(s, w)
      PROVE  WakeInv'
  <2>1. chan'[w] # <<>> /\ \A v \in Waiters \ {w} : chan'[v] = chan[v]
    <3>1. announcing[s] \in Phases /\ chan[w] \in Seq(Phases)
      BY DEF TypeOK
    <3>2. Append(chan[w], announcing[s]) # <<>>
      BY <3>1, AppendProperties
    <3>3. Len(<<>>) = 0 /\ ChanCap > 0
      BY ConstantsAssumption
    <3>4. QED
      BY <1>2, <3>2, <3>3 DEF Notify, TypeOK
  <2>2. \A r \in Threads, v \in Waiters \ {w} :
          v \in toNotify[r] => v \in toNotify'[r]
    BY <1>2 DEF Notify, TypeOK
  <2>3. QED
    BY <1>2, <2>1, <2>2 DEF Notify
<1>3. ASSUME NEW e \in Effects, RunEffect(s, e)
      PROVE  WakeInv'
  BY <1>3 DEF RunEffect
<1>4. QED
  BY <1>1, <1>2, <1>3

\* A call registers and rechecks in one step, and checks the sequence before
\* every select, so it never blocks on a sequence that has already passed.
LEMMA WaiterWake ==
  ASSUME TypeOK, WakeInv,
         \/ \E w \in PhaseWaiters : PhaseWaiterStep(w)
         \/ \E t \in TeleportWaiters : TeleportWaiterStep(t)
  PROVE  WakeInv'
<1> USE DEF WakeInv, RegistrationMatchesCalls, NoLostTeleportWake
<1>1. ASSUME NEW w \in Waiters, GiveUp(w) \/ Leave(w)
      PROVE  WakeInv'
  BY <1>1 DEF GiveUp, Leave, Decide, TypeOK
<1>2. ASSUME NEW w \in PhaseWaiters, PhaseWaiterStep(w)
      PROVE  WakeInv'
  <2>0. w \notin TeleportWaiters
    BY ConstantsAssumption
  <2>1. CASE PhaseCall(w)
    BY <2>0, <2>1 DEF PhaseCall, Decide, TypeOK
  <2>2. CASE PhaseRegister(w)
    BY <2>0, <2>2 DEF PhaseRegister, Decide, TypeOK
  <2>3. CASE PhaseReceive(w)
    BY <2>0, <2>3 DEF PhaseReceive, Decide, TypeOK
  <2>4. QED
    BY <1>1, <1>2, <2>1, <2>2, <2>3 DEF PhaseWaiterStep
<1>3. ASSUME NEW t \in TeleportWaiters, TeleportWaiterStep(t)
      PROVE  WakeInv'
  <2>1. CASE Snapshot(t)
    BY <2>1 DEF Snapshot, TypeOK
  <2>2. CASE TeleportCall(t)
    BY <2>2 DEF TeleportCall, Decide, TypeOK
  <2>3. CASE TeleportRegister(t)
    BY <2>3 DEF TeleportRegister, Decide, TypeOK
  <2>4. CASE TeleportCheck(t)
    BY <2>4 DEF TeleportCheck, Decide, TypeOK
  <2>5. CASE TeleportReceive(t)
    BY <2>5 DEF TeleportReceive, TypeOK
  <2>6. QED
    BY <1>1, <1>3, <2>1, <2>2, <2>3, <2>4, <2>5 DEF TeleportWaiterStep
<1>4. QED
  BY <1>2, <1>3

\* WakeInv is an invariant of SessionPhase.
LEMMA WakeInvariant == SafeSpec => []WakeInv
<1>1. Init => WakeInv
  BY DEF Init, WakeInv, RegistrationMatchesCalls, NoLostTeleportWake
<1>2. TypeOK /\ WakeInv /\ [Next]_vars => WakeInv'
  <2>1. WakeInv /\ UNCHANGED vars => WakeInv'
    BY DEF WakeInv, RegistrationMatchesCalls, NoLostTeleportWake, vars
  <2>2. QED
    BY <2>1, ArrivalsWake, HandlerWake, WaiterWake DEF Next
<1>3. QED
  BY <1>1, <1>2, TypeCorrect, PTL DEF SafeSpec

\* A completed teleport is never missed: whatever the capacity of the channels
\* and however many sends they drop, a call of WaitForTeleportAfter blocked past
\* its teleport has, or is about to be sent, a message that wakes it.
THEOREM TeleportWakeNotLost == SafeSpec => []NoLostTeleportWake
<1>1. WakeInv => NoLostTeleportWake
  BY DEF WakeInv
<1>2. QED
  BY <1>1, WakeInvariant, PTL

\* phaseWaiters holds the calls that are waiting or leaving, and no others.
THEOREM RegistrationIsExact == SafeSpec => []RegistrationMatchesCalls
<1>1. WakeInv => RegistrationMatchesCalls
  BY DEF WakeInv
<1>2. QED
  BY <1>1, WakeInvariant, PTL

-----------------------------------------------------------------------------
(***************************************************************************)
(* A wait for a phase is satisfied only by a phase of the call             *)
(***************************************************************************)

\* From its registration on, everything a call can receive is in its history:
\* what its channel holds, and what setPhase calls in progress will send it.
\* Before that nothing can reach it, and its result is still open.
SeenBy(w) ==
  /\ pc[w] \in {"idle", "register"} =>
       chan[w] = <<>> /\ \A s \in Threads : w \notin toNotify[s]
  /\ pc[w] \in {"register", "select"} => phase \in seen[w]
  /\ pc[w] = "select" =>
       /\ \A i \in DOMAIN chan[w] : chan[w][i] \in seen[w]
       /\ \A s \in Threads : w \in toNotify[s] => announcing[s] \in seen[w]
  /\ result[w] = "ok" =>
       pc[w] \in {"leave", "returned"} /\ want[w] \in seen[w]

SeenInv == \A w \in PhaseWaiters : SeenBy(w)

\* The locked section of setPhase adds the new phase to the history of every
\* call it will notify.
LEMMA SetPhaseSeen ==
  ASSUME TypeOK, WakeInv, SeenInv, NEW s \in Threads, SetPhase(s),
         NEW w \in PhaseWaiters
  PROVE  SeenBy(w)'
<1>1. /\ UNCHANGED <<chan, pc, result, want>>
      /\ SeenBy(w)
  BY DEF SetPhase, SeenInv
<1>2. CASE phase = Head(todo[s])
  BY <1>1, <1>2 DEF SetPhase, SeenBy
<1>3. CASE phase # Head(todo[s])
  <2>1. /\ phase' = Head(todo[s])
        /\ announcing' = [announcing EXCEPT ![s] = phase']
        /\ toNotify' = [toNotify EXCEPT ![s] = registered]
        /\ seen'[w] = IF Calling(w) THEN seen[w] \cup {phase'} ELSE seen[w]
    BY <1>3 DEF SetPhase
  <2>2. \A r \in Threads :
          /\ announcing'[r] = IF r = s THEN phase' ELSE announcing[r]
          /\ toNotify'[r] = IF r = s THEN registered ELSE toNotify[r]
    BY <2>1 DEF TypeOK
  <2>3. w \in registered <=> pc[w] \in {"loop", "select", "leave"}
    BY DEF WakeInv, RegistrationMatchesCalls
  <2>4. QED
    BY <1>1, <2>1, <2>2, <2>3 DEF SeenBy, Calling
<1>4. QED
  BY <1>2, <1>3

\* A send appends the announced phase, or nothing, to one channel.
LEMMA NotifySeen ==
  ASSUME TypeOK, SeenInv, NEW s \in Threads, NEW v \in Waiters, Notify(s, v),
         NEW w \in PhaseWaiters
  PROVE  SeenBy(w)'
<1>1. /\ UNCHANGED <<phase, announcing, pc, result, want, seen>>
      /\ SeenBy(w)
      /\ v \in toNotify[s]
  BY DEF Notify, SeenInv, SeenBy
<1>2. \A r \in Threads : toNotify'[r] \subseteq toNotify[r]
  BY DEF Notify, TypeOK
<1>3. CASE chan'[w] = chan[w]
  BY <1>1, <1>2, <1>3 DEF SeenBy
<1>4. CASE chan'[w] # chan[w]
  <2>1. w = v /\ chan'[w] = Append(chan[w], announcing[s])
    BY <1>4 DEF Notify, TypeOK
  <2>2. chan[w] \in Seq(Phases) /\ announcing[s] \in Phases
    BY DEF TypeOK
  <2>3. \A i \in DOMAIN chan'[w] :
          \/ i \in DOMAIN chan[w] /\ chan'[w][i] = chan[w][i]
          \/ chan'[w][i] = announcing[s]
    BY <2>1, <2>2, AppendProperties, LenProperties
  <2>4. pc[w] \notin {"idle", "register"}
    BY <1>1, <2>1 DEF SeenBy
  <2>5. QED
    BY <1>1, <1>2, <2>1, <2>3, <2>4 DEF SeenBy
<1>5. QED
  BY <1>3, <1>4

\* A receive takes a phase of the history from the channel.
LEMMA PhaseWaiterSeen ==
  ASSUME TypeOK, WakeInv, SeenInv, NEW v \in PhaseWaiters, PhaseWaiterStep(v),
         NEW w \in PhaseWaiters
  PROVE  SeenBy(w)'
<1>1. SeenBy(w) /\ SeenBy(v) /\ UNCHANGED <<phase, toNotify, announcing, want>>
  BY DEF SeenInv, PhaseWaiterStep, PhaseCall, PhaseRegister, PhaseReceive,
         GiveUp, Leave
<1>2. CASE w # v
  <2>1. /\ pc'[w] = pc[w] /\ result'[w] = result[w] /\ chan'[w] = chan[w]
        /\ seen'[w] = seen[w]
    BY <1>2 DEF PhaseWaiterStep, PhaseCall, PhaseRegister, PhaseReceive, GiveUp,
                Leave, Decide, TypeOK
  <2>2. QED
    BY <1>1, <2>1 DEF SeenBy
<1>3. CASE w = v
  <2>1. CASE PhaseCall(w)
    BY <1>1, <2>1 DEF PhaseCall, Decide, SeenBy, TypeOK
  <2>2. CASE PhaseRegister(w)
    BY <1>1, <2>2 DEF PhaseRegister, Decide, SeenBy, TypeOK
  <2>3. CASE PhaseReceive(w)
    <3>1. chan[w] \in Seq(Phases) /\ chan[w] # <<>>
      BY <2>3 DEF PhaseReceive, TypeOK
    <3>2. /\ Head(chan[w]) = chan[w][1] /\ 1 \in DOMAIN chan[w]
          /\ \A i \in DOMAIN Tail(chan[w]) :
               i + 1 \in DOMAIN chan[w] /\ Tail(chan[w])[i] = chan[w][i + 1]
      BY <3>1, HeadTailProperties, LenProperties
    <3>3. chan'[w] = Tail(chan[w]) /\ seen'[w] = seen[w]
      BY <2>3 DEF PhaseReceive, TypeOK
    <3>4. QED
      BY <1>1, <2>3, <3>2, <3>3 DEF PhaseReceive, Decide, SeenBy, TypeOK
  <2>4. CASE GiveUp(w) \/ Leave(w)
    BY <1>1, <2>4 DEF GiveUp, Leave, Decide, SeenBy, TypeOK
  <2>5. QED
    BY <1>3, <2>1, <2>2, <2>3, <2>4 DEF PhaseWaiterStep
<1>4. QED
  BY <1>2, <1>3

\* SeenInv is an invariant of SessionPhase.
LEMMA SeenInvariant == SafeSpec => []SeenInv
<1>1. Init => SeenInv
  BY DEF Init, SeenInv, SeenBy
<1>2. TypeOK /\ WakeInv /\ SeenInv /\ [Next]_vars => SeenInv'
  <2> SUFFICES ASSUME TypeOK, WakeInv, SeenInv, [Next]_vars,
                      NEW w \in PhaseWaiters
               PROVE  SeenBy(w)'
    BY DEF SeenInv
  <2>1. ASSUME Arrivals
        PROVE  SeenBy(w)'
    BY <2>1 DEF SeenInv, SeenBy, Arrivals, Start, AuthChallenge, AuthOk,
                AuthFailed, LoginCharacter, LoginVerifyWorld, MoveTeleport,
                NewWorld, LogoutComplete, Close
  <2>2. ASSUME NEW s \in Threads, NEW e \in Effects, RunEffect(s, e)
        PROVE  SeenBy(w)'
    BY <2>2 DEF RunEffect, SeenInv, SeenBy
  <2>3. CASE Handler
    BY <2>2, <2>3, SetPhaseSeen, NotifySeen DEF Handler
  <2>4. ASSUME NEW t \in TeleportWaiters, TeleportWaiterStep(t)
        PROVE  SeenBy(w)'
    <3>1. t # w
      BY ConstantsAssumption
    <3>2. /\ pc'[w] = pc[w] /\ result'[w] = result[w] /\ chan'[w] = chan[w]
          /\ UNCHANGED <<phase, toNotify, announcing, want, seen>>
      BY <2>4, <3>1 DEF TeleportWaiterStep, Snapshot, TeleportCall,
                        TeleportRegister, TeleportCheck, TeleportReceive, GiveUp,
                        Leave, Decide, TypeOK
    <3>3. QED
      BY <3>2 DEF SeenInv, SeenBy
  <2>5. CASE UNCHANGED vars
    BY <2>5 DEF vars, SeenInv, SeenBy
  <2>6. QED
    BY <2>1, <2>3, <2>4, <2>5, PhaseWaiterSeen DEF Next
<1>3. QED
  BY <1>1, <1>2, TypeCorrect, WakeInvariant, PTL DEF SafeSpec

\* A call of WaitForSessionPhase returns nil only for a phase that the session
\* was in during the call, whatever was dropped or delivered late.
THEOREM PhaseOkIsWitnessed == SafeSpec => []PhaseOkWitnessed
<1>1. SeenInv => PhaseOkWitnessed
  BY DEF SeenInv, SeenBy, PhaseOkWitnessed
<1>2. QED
  BY <1>1, SeenInvariant, PTL

-----------------------------------------------------------------------------
(***************************************************************************)
(* Where the two handlers can be                                           *)
(***************************************************************************)

\* The read loop's place in its handler, with the phase and the counters there.
ReadPlace(r) ==
  \/ /\ r = <<>>
     /\ phase \notin Transfers
     /\ acks = teleportSeq
     /\ loginDone <=> phase \in {"in_world", "logout"}
  \/ /\ r = <<"stop">>
     /\ phase \in {"connected", "logout"}
     /\ acks = teleportSeq
     /\ loginDone <=> phase = "logout"
  \/ r = <<"connected">> /\ phase = "none" /\ ~loginDone /\ acks = teleportSeq
  \/ r = <<"authed">> /\ phase = "connected" /\ ~loginDone /\ acks = teleportSeq
  \/ /\ r = <<"in_world", "login_done">>
     /\ phase = "loading"
     /\ loginSent /\ ~loginDone
     /\ acks = teleportSeq
  \/ /\ r = <<"login_done">>
     /\ phase = "in_world"
     /\ ~loginDone
     /\ acks = teleportSeq
  \/ /\ r \in {<<"near_teleport", "teleport_ack", "in_world">>,
               <<"far_transfer", "teleport_ack", "in_world">>,
               <<"logout", "logout_done", "stop">>}
     /\ phase = "in_world"
     /\ loginDone
     /\ acks = teleportSeq
  \/ /\ r = <<"teleport_ack", "in_world">>
     /\ phase \in Transfers
     /\ loginDone
     /\ acks = teleportSeq
  \/ /\ r = <<"in_world">>
     /\ phase \in Transfers
     /\ loginDone
     /\ acks = teleportSeq + 1
  \/ /\ r = <<"logout_done", "stop">>
     /\ phase = "logout"
     /\ loginDone
     /\ acks = teleportSeq

\* The application's place in LoginCharacter.
AppPlace(a, r) ==
  \/ a = <<>>
  \/ a = <<"loading", "player_login">> /\ phase = "authed" /\ r = <<>> /\ ~loginSent
  \/ a = <<"player_login">> /\ phase = "loading" /\ r = <<>> /\ ~loginSent

HandlerInv ==
  /\ ReadPlace(todo["read"])
  /\ AppPlace(todo["app"], todo["read"])
  /\ loginSent => phase \notin {"none", "connected", "authed"} /\ todo["app"] = <<>>
  /\ phase \in {"in_world", "logout"} \cup Transfers => loginSent

\* The heads and the tails of the handlers.
LEMMA HandlerSteps ==
  /\ Head(<<"connected">>) = "connected" /\ Tail(<<"connected">>) = <<>>
  /\ Head(<<"authed">>) = "authed" /\ Tail(<<"authed">>) = <<>>
  /\ Head(<<"stop">>) = "stop" /\ Tail(<<"stop">>) = <<>>
  /\ Head(<<"loading", "player_login">>) = "loading"
  /\ Tail(<<"loading", "player_login">>) = <<"player_login">>
  /\ Head(<<"player_login">>) = "player_login" /\ Tail(<<"player_login">>) = <<>>
  /\ Head(<<"in_world", "login_done">>) = "in_world"
  /\ Tail(<<"in_world", "login_done">>) = <<"login_done">>
  /\ Head(<<"login_done">>) = "login_done" /\ Tail(<<"login_done">>) = <<>>
  /\ Head(<<"near_teleport", "teleport_ack", "in_world">>) = "near_teleport"
  /\ Tail(<<"near_teleport", "teleport_ack", "in_world">>)
       = <<"teleport_ack", "in_world">>
  /\ Head(<<"far_transfer", "teleport_ack", "in_world">>) = "far_transfer"
  /\ Tail(<<"far_transfer", "teleport_ack", "in_world">>)
       = <<"teleport_ack", "in_world">>
  /\ Head(<<"teleport_ack", "in_world">>) = "teleport_ack"
  /\ Tail(<<"teleport_ack", "in_world">>) = <<"in_world">>
  /\ Head(<<"in_world">>) = "in_world" /\ Tail(<<"in_world">>) = <<>>
  /\ Head(<<"logout", "logout_done", "stop">>) = "logout"
  /\ Tail(<<"logout", "logout_done", "stop">>) = <<"logout_done", "stop">>
  /\ Head(<<"logout_done", "stop">>) = "logout_done"
  /\ Tail(<<"logout_done", "stop">>) = <<"stop">>
  OBVIOUS

\* What setPhase does to the two counters and the phase, without its waiters.
LEMMA SetPhaseEffect ==
  ASSUME NEW s \in Threads, SetPhase(s)
  PROVE  /\ phase' = Head(todo[s])
         /\ teleportSeq' = IF phase' = "in_world" /\ phase \in Transfers
                             THEN teleportSeq + 1
                             ELSE teleportSeq
         /\ UNCHANGED <<acks, loginSent, loginDone>>
  BY DEF SetPhase

\* A step of the read loop moves to the next place of its handler.
LEMMA ReadLoopPlaces ==
  ASSUME TypeOK, HandlerInv, SetPhase("read") \/ \E e \in Effects : RunEffect("read", e)
  PROVE  HandlerInv'
<1> DEFINE r == todo["read"]
<1>1. /\ r # <<>>
      /\ todo'["read"] = Tail(r)
      /\ todo'["app"] = todo["app"]
  BY DEF SetPhase, RunEffect, TypeOK
<1>2. CASE SetPhase("read")
  <2>1. /\ Head(r) \in Phases
        /\ phase' = Head(r)
        /\ teleportSeq' = IF phase' = "in_world" /\ phase \in Transfers
                            THEN teleportSeq + 1
                            ELSE teleportSeq
        /\ UNCHANGED <<acks, loginSent, loginDone>>
    BY <1>2, SetPhaseEffect DEF SetPhase
  <2>2. QED
    BY <1>1, <2>1, HandlerSteps
       DEF HandlerInv, ReadPlace, AppPlace, Phases, TypeOK
<1>3. ASSUME NEW e \in Effects, RunEffect("read", e)
      PROVE  HandlerInv'
  <2>1. /\ Head(r) = e
        /\ UNCHANGED <<phase, teleportSeq>>
        /\ acks' = IF e = "teleport_ack" THEN acks + 1 ELSE acks
        /\ loginSent' = (loginSent \/ e = "player_login")
        /\ loginDone' = (loginDone \/ e = "login_done")
    BY <1>3 DEF RunEffect
  <2>2. QED
    BY <1>1, <2>1, HandlerSteps
       DEF HandlerInv, ReadPlace, AppPlace, Effects, TypeOK
<1>4. QED
  BY <1>2, <1>3

\* A step of the application moves to the next place of LoginCharacter.
LEMMA AppPlaces ==
  ASSUME TypeOK, HandlerInv, SetPhase("app") \/ \E e \in Effects : RunEffect("app", e)
  PROVE  HandlerInv'
<1> DEFINE a == todo["app"]
<1>1. /\ a # <<>>
      /\ todo'["app"] = Tail(a)
      /\ todo'["read"] = todo["read"]
  BY DEF SetPhase, RunEffect, TypeOK
<1>2. todo["read"] = <<>> /\ ~loginSent
  BY <1>1 DEF HandlerInv, AppPlace
<1>3. CASE SetPhase("app")
  <2>1. Head(a) \in Phases
    BY <1>3 DEF SetPhase
  <2>2. a = <<"loading", "player_login">> /\ phase = "authed"
    BY <1>1, <2>1, HandlerSteps DEF HandlerInv, AppPlace, Phases
  <2>3. phase' = "loading" /\ UNCHANGED <<acks, teleportSeq, loginSent, loginDone>>
    BY <1>3, <2>2, SetPhaseEffect, HandlerSteps
  <2>4. QED
    BY <1>1, <1>2, <2>2, <2>3, HandlerSteps DEF HandlerInv, ReadPlace, AppPlace
<1>4. ASSUME NEW e \in Effects, RunEffect("app", e)
      PROVE  HandlerInv'
  <2>1. Head(a) = e
    BY <1>4 DEF RunEffect
  <2>2. a = <<"player_login">> /\ phase = "loading" /\ e = "player_login"
    BY <1>1, <2>1, HandlerSteps DEF HandlerInv, AppPlace, Effects
  <2>3. UNCHANGED <<phase, teleportSeq, acks, loginDone>> /\ loginSent'
    BY <1>4, <2>2 DEF RunEffect, TypeOK
  <2>4. QED
    BY <1>1, <1>2, <2>2, <2>3, HandlerSteps DEF HandlerInv, ReadPlace, AppPlace
<1>5. QED
  BY <1>3, <1>4

\* A packet or a login starts its handler in a phase that fits it.
LEMMA ArrivalPlaces ==
  ASSUME TypeOK, HandlerInv, Arrivals
  PROVE  HandlerInv'
<1>1. CASE Close
  BY <1>1 DEF Close, HandlerInv, ReadPlace, AppPlace
<1>2. CASE LoginCharacter
  <2>1. /\ todo'["app"] = <<"loading", "player_login">>
        /\ todo'["read"] = todo["read"]
        /\ phase = "authed"
        /\ UNCHANGED <<phase, teleportSeq, acks, loginSent, loginDone>>
    BY <1>2 DEF LoginCharacter, Start, TypeOK
  <2>2. todo["read"] = <<>> /\ ~loginSent
    BY <2>1 DEF HandlerInv, ReadPlace
  <2>3. QED
    BY <2>1, <2>2 DEF HandlerInv, ReadPlace, AppPlace
<1>3. CASE ~Close /\ ~LoginCharacter
  <2>1. /\ todo["read"] = <<>>
        /\ todo'["app"] = todo["app"]
        /\ UNCHANGED <<phase, teleportSeq, acks, loginSent, loginDone>>
        /\ \/ phase = "none" /\ todo'["read"] = <<"connected">>
           \/ phase = "connected" /\ todo'["read"] = <<"authed">>
           \/ phase = "connected" /\ todo'["read"] = <<"stop">>
           \/ /\ loginSent /\ ~loginDone
              /\ todo'["read"] = <<"in_world", "login_done">>
           \/ /\ phase = "in_world"
              /\ todo'["read"] \in
                   {<<"near_teleport", "teleport_ack", "in_world">>,
                    <<"far_transfer", "teleport_ack", "in_world">>,
                    <<"logout", "logout_done", "stop">>}
    BY <1>3 DEF Arrivals, Start, Free, AuthChallenge, AuthOk, AuthFailed,
                LoginVerifyWorld, MoveTeleport, NewWorld, LogoutComplete, TypeOK
  <2>2. QED
    BY <2>1 DEF HandlerInv, ReadPlace, AppPlace, TypeOK, Phases
<1>4. QED
  BY <1>1, <1>2, <1>3

\* HandlerInv is an invariant of SessionPhase.
LEMMA HandlerInvariant == SafeSpec => []HandlerInv
<1>1. Init => HandlerInv
  BY DEF Init, HandlerInv, ReadPlace, AppPlace
<1>2. TypeOK /\ HandlerInv /\ [Next]_vars => HandlerInv'
  <2> SUFFICES ASSUME TypeOK, HandlerInv, [Next]_vars
               PROVE  HandlerInv'
    OBVIOUS
  <2>1. CASE UNCHANGED <<phase, teleportSeq, acks, loginSent, loginDone, todo>>
    BY <2>1 DEF HandlerInv, ReadPlace, AppPlace
  <2>2. ASSUME NEW s \in Threads, NEW w \in Waiters, Notify(s, w)
        PROVE  UNCHANGED <<phase, teleportSeq, acks, loginSent, loginDone, todo>>
    BY <2>2 DEF Notify
  <2>3. CASE Handler
    BY <2>1, <2>2, <2>3, ReadLoopPlaces, AppPlaces DEF Handler
  <2>4. ASSUME NEW w \in PhaseWaiters, PhaseWaiterStep(w)
        PROVE  UNCHANGED <<phase, teleportSeq, acks, loginSent, loginDone, todo>>
    BY <2>4 DEF PhaseWaiterStep, PhaseCall, PhaseRegister, PhaseReceive, GiveUp,
                Leave
  <2>5. ASSUME NEW t \in TeleportWaiters, TeleportWaiterStep(t)
        PROVE  UNCHANGED <<phase, teleportSeq, acks, loginSent, loginDone, todo>>
    BY <2>5 DEF TeleportWaiterStep, Snapshot, TeleportCall, TeleportRegister,
                TeleportCheck, TeleportReceive, GiveUp, Leave
  <2>6. QED
    BY <2>1, <2>3, <2>4, <2>5, ArrivalPlaces DEF Next, vars
<1>3. QED
  BY <1>1, <1>2, TypeCorrect, PTL DEF SafeSpec

\* Every teleport the session reports complete was acknowledged before, whatever
\* the waiters do meanwhile.
THEOREM TeleportsAreAcknowledged == SafeSpec => []AcksMatchTeleports
<1>1. TypeOK /\ HandlerInv => AcksMatchTeleports
  BY DEF TypeOK, HandlerInv, ReadPlace, AcksMatchTeleports
<1>2. QED
  BY <1>1, TypeCorrect, HandlerInvariant, PTL

\* A verified login is never undone by the login that caused it.
THEOREM LoginStays == SafeSpec => []LoginIsKept
<1>1. HandlerInv => LoginIsKept
  BY DEF HandlerInv, ReadPlace, LoginIsKept
<1>2. QED
  BY <1>1, HandlerInvariant, PTL

-----------------------------------------------------------------------------
(***************************************************************************)
(* The capacity of a waiter's channel                                      *)
(***************************************************************************)

\* The phases before the world, and how many transitions led there.
EarlyPhases == {"none", "connected", "authed", "loading"}

Rank(p) == CASE p = "none" -> 0 [] p = "connected" -> 1 [] p = "authed" -> 2 [] OTHER -> 3

\* The messages in a waiter's channel and those about to be sent to it.
Pending(w, s) == IF w \in toNotify[s] THEN 1 ELSE 0
Underway(w) == Len(chan[w]) + Pending(w, "read") + Pending(w, "app")

\* The session will not enter the wanted phase again.
Past(w) ==
  IF want[w] = "authed" THEN phase \notin {"none", "connected", "authed"} ELSE phase = "logout"

CountInv == \A w \in PhaseWaiters : phase \in EarlyPhases => Underway(w) <= Rank(phase)

\* A call has no message before it registers.
FreshInv == \A w \in PhaseWaiters : pc[w] \in {"idle", "register"} => Underway(w) = 0

\* A blocked call that can still succeed has its phase in the channel, or is to be sent
\* it and has room, or has been sent little enough.
Room(w) ==
  pc[w] = "select" /\ ~Past(w) =>
    \/ \E i \in DOMAIN chan[w] : chan[w][i] = want[w]
    \/ \E s \in Threads : w \in toNotify[s] /\ announcing[s] = want[w] /\ Underway(w) <= ChanCap
    \/ phase # want[w] /\ (phase \in EarlyPhases \/ Underway(w) = 0)

\* Only the login handler announces a phase of the application, and the world is
\* announced once the login was sent.
AnnounceInv ==
  /\ announcing["app"] \in {"none", "loading"}
  /\ announcing["read"] = "in_world" => loginSent

StrandInv ==
  /\ want \in [PhaseWaiters -> Wanted]
  /\ CountInv
  /\ FreshInv
  /\ AnnounceInv
  /\ \A w \in PhaseWaiters : Room(w)

\* The transitions of a session, and whose they are.
LEMMA Transitions ==
  ASSUME TypeOK, HandlerInv, NEW s \in Threads, SetPhase(s)
  PROVE  /\ phase' = Head(todo[s])
         /\ \/ phase = "none" /\ phase' = "connected"
            \/ phase = "connected" /\ phase' = "authed"
            \/ phase = "authed" /\ phase' = "loading"
            \/ phase = "loading" /\ phase' = "in_world"
            \/ phase = "in_world" /\ phase' \in Transfers \cup {"logout"}
            \/ phase \in Transfers /\ phase' = "in_world"
         /\ s = "app" => phase = "authed" /\ ~loginSent
         /\ s = "app" <=> phase' = "loading"
         /\ phase' = "in_world" => loginSent
<1> DEFINE r == todo[s]
<1>1. r # <<>> /\ Head(r) \in Phases /\ phase' = Head(r)
  BY SetPhaseEffect DEF SetPhase
<1>2. CASE s = "read"
  <2>1. \/ phase = "none" /\ phase' = "connected"
        \/ phase = "connected" /\ phase' = "authed"
        \/ phase = "loading" /\ phase' = "in_world" /\ loginSent
        \/ phase = "in_world" /\ phase' \in Transfers \cup {"logout"}
        \/ phase \in Transfers /\ phase' = "in_world" /\ loginSent
    <3>1. ReadPlace(r) /\ (phase \in {"in_world", "logout"} \cup Transfers => loginSent)
      BY <1>2 DEF HandlerInv
    <3>2. \/ r = <<"connected">> /\ phase = "none"
          \/ r = <<"authed">> /\ phase = "connected"
          \/ r = <<"in_world", "login_done">> /\ phase = "loading" /\ loginSent
          \/ /\ r \in {<<"near_teleport", "teleport_ack", "in_world">>,
                       <<"far_transfer", "teleport_ack", "in_world">>,
                       <<"logout", "logout_done", "stop">>}
             /\ phase = "in_world"
          \/ r = <<"in_world">> /\ phase \in Transfers
      <4> HIDE DEF r
      <4>1. QED
        BY <1>1, <3>1, HandlerSteps DEF ReadPlace, Phases
    <3>3. QED
      <4> HIDE DEF r
      <4>1. QED
        BY <1>1, <3>1, <3>2, HandlerSteps DEF Transfers
  <2>2. QED
    BY <1>1, <1>2, <2>1 DEF Transfers
<1>3. CASE s = "app"
  <2>1. AppPlace(r, todo["read"])
    BY <1>3 DEF HandlerInv
  <2>2. phase = "authed" /\ phase' = "loading" /\ ~loginSent
    <3> HIDE DEF r
    <3>1. QED
      BY <1>1, <2>1, HandlerSteps DEF AppPlace, Phases
  <2>3. QED
    BY <1>1, <1>3, <2>2
<1>4. QED
  BY <1>2, <1>3 DEF Threads

LEMMA UnderwayType ==
  ASSUME TypeOK, NEW w \in PhaseWaiters
  PROVE  Len(chan[w]) \in Nat /\ Underway(w) \in Nat
<1>1. chan[w] \in Seq(Phases)
  BY DEF TypeOK, Waiters
<1>2. Len(chan[w]) \in Nat
  BY <1>1
<1>3. Pending(w, "read") \in Nat /\ Pending(w, "app") \in Nat
  BY DEF Pending
<1>4. QED
  BY <1>2, <1>3 DEF Underway

\* A transition is sent to the calls that are registered.
LEMMA SetPhaseRoom ==
  ASSUME TypeOK, HandlerInv, RegistrationMatchesCalls, StrandInv, Wanted \subseteq {"authed", "in_world"},
         ChanCap >= 4, NEW s \in Threads, SetPhase(s)
  PROVE  StrandInv'
<1>1. /\ toNotify[s] = {} /\ phase # phase' /\ announcing' = [announcing EXCEPT ![s] = phase']
      /\ toNotify' = [toNotify EXCEPT ![s] = registered]
      /\ UNCHANGED <<loginSent, registered, chan, pc, want>>
  BY Transitions DEF SetPhase
<1>2. /\ \/ phase = "none" /\ phase' = "connected"
         \/ phase = "connected" /\ phase' = "authed"
         \/ phase = "authed" /\ phase' = "loading"
         \/ phase = "loading" /\ phase' = "in_world"
         \/ phase = "in_world" /\ phase' \in Transfers \cup {"logout"}
         \/ phase \in Transfers /\ phase' = "in_world"
      /\ s = "app" => phase = "authed" /\ ~loginSent
      /\ s = "app" <=> phase' = "loading"
      /\ phase' = "in_world" => loginSent
  BY Transitions
<1>3. /\ toNotify'[s] = registered /\ announcing'[s] = phase'
      /\ \A z \in Threads \ {s} : toNotify'[z] = toNotify[z] /\ announcing'[z] = announcing[z]
  BY <1>1 DEF TypeOK
<1>4. ASSUME NEW w \in PhaseWaiters
      PROVE  /\ Underway(w)' = Underway(w) + (IF w \in registered THEN 1 ELSE 0)
             /\ Underway(w) \in Nat
  <2>1. Pending(w, s) = 0 /\ Pending(w, s)' = (IF w \in registered THEN 1 ELSE 0)
    BY <1>1, <1>3 DEF Pending
  <2>2. \A z \in Threads \ {s} : Pending(w, z)' = Pending(w, z)
    BY <1>3 DEF Pending
  <2>3. Pending(w, "read") \in Nat /\ Pending(w, "app") \in Nat /\ Len(chan[w]) \in Nat
    BY UnderwayType DEF Pending
  <2>4. chan' = chan
    BY <1>1
  <2>5. CASE s = "read"
    BY <2>1, <2>2, <2>3, <2>4, <2>5 DEF Underway
  <2>6. CASE s = "app"
    BY <2>1, <2>2, <2>3, <2>4, <2>6 DEF Underway
  <2>7. QED
    BY <2>5, <2>6
<1>5. CountInv'
  BY <1>2, <1>4 DEF StrandInv, CountInv, EarlyPhases, Rank
<1>6. FreshInv'
  <2>1. \A w \in PhaseWaiters : pc[w] \in {"idle", "register"} => w \notin registered
    BY DEF RegistrationMatchesCalls
  <2>2. QED
    BY <1>1, <1>4, <2>1 DEF StrandInv, FreshInv
<1>7. AnnounceInv'
  BY <1>1, <1>2, <1>3 DEF StrandInv, AnnounceInv
<1>8. ASSUME NEW w \in PhaseWaiters, pc'[w] = "select", ~Past(w)', ~Past(w)
      PROVE  \/ \E i \in DOMAIN chan'[w] : chan'[w][i] = want'[w]
             \/ \E z \in Threads : w \in toNotify'[z] /\ announcing'[z] = want'[w] /\ Underway(w)' <= ChanCap
             \/ phase' # want'[w] /\ (phase' \in EarlyPhases \/ Underway(w)' = 0)
  <2>1. pc[w] = "select" /\ want'[w] = want[w] /\ chan'[w] = chan[w] /\ want[w] \in {"authed", "in_world"}
    BY <1>1, <1>8 DEF StrandInv
  <2>2. w \in registered
    BY <2>1 DEF RegistrationMatchesCalls
  <2>3. CASE \E i \in DOMAIN chan[w] : chan[w][i] = want[w]
    BY <2>1, <2>3
  <2>4. ASSUME NEW z \in Threads, w \in toNotify[z], announcing[z] = want[w]
        PROVE  FALSE
    <3>1. z # s /\ z = "read"
      BY <1>1, <2>1, <2>4 DEF StrandInv, AnnounceInv
    <3>2. s = "app" /\ want[w] = "authed"
      BY <1>2, <2>1, <2>4, <3>1 DEF StrandInv, AnnounceInv
    <3>3. QED
      BY <1>2, <1>8, <2>1, <3>2 DEF Past
  <2>5. CASE phase # want[w] /\ (phase \in EarlyPhases \/ Underway(w) = 0)
    <3>1. Underway(w) <= 3
      BY <1>4, <2>5 DEF StrandInv, CountInv, Rank
    <3>2. CASE phase' = want[w]
      <4>1. w \in toNotify'[s] /\ announcing'[s] = want'[w]
        BY <1>3, <2>1, <2>2, <3>2
      <4>2. Underway(w)' <= ChanCap
        <5> HIDE DEF Underway
        <5>1. Underway(w)' <= Underway(w) + 1
          BY <1>4
        <5>2. QED
          BY <1>4, <3>1, <5>1, ConstantsAssumption
      <4>3. QED
        BY <4>1, <4>2
    <3>3. CASE phase' # want[w]
      <4>1. phase' \in EarlyPhases
        BY <1>2, <1>8, <2>1, <2>5, <3>3 DEF Past, EarlyPhases
      <4>2. QED
        BY <2>1, <3>3, <4>1
    <3>4. QED
      BY <3>2, <3>3
  <2>6. Room(w)
    BY DEF StrandInv
  <2>7. QED
    BY <1>8, <2>1, <2>3, <2>4, <2>5, <2>6 DEF Room
<1>9. ASSUME NEW w \in PhaseWaiters PROVE Past(w) => Past(w)'
  <2>1. want'[w] = want[w] /\ want[w] \in {"authed", "in_world"}
    BY <1>1 DEF StrandInv
  <2>2. QED
    BY <1>2, <2>1 DEF Past
<1>10. \A w \in PhaseWaiters : Room(w)'
  BY <1>8, <1>9 DEF Room
<1>11. QED
  BY <1>1, <1>5, <1>6, <1>7, <1>10 DEF StrandInv

\* A message is sent, or dropped at a full channel.
LEMMA NotifyRoom ==
  ASSUME TypeOK, StrandInv, NEW s \in Threads, NEW v \in Waiters, Notify(s, v)
  PROVE  StrandInv'
<1>1. /\ v \in toNotify[s] /\ toNotify' = [toNotify EXCEPT ![s] = @ \ {v}]
      /\ chan' = IF Len(chan[v]) < ChanCap THEN [chan EXCEPT ![v] = Append(@, announcing[s])] ELSE chan
      /\ UNCHANGED <<phase, loginSent, announcing, pc, want>>
  BY DEF Notify
<1>2. /\ toNotify'[s] = toNotify[s] \ {v}
      /\ \A z \in Threads \ {s} : toNotify'[z] = toNotify[z]
      /\ \A w \in Waiters \ {v} : chan'[w] = chan[w]
  BY <1>1 DEF TypeOK
<1>3. /\ Len(chan[v]) < ChanCap => chan'[v] = Append(chan[v], announcing[s])
      /\ ~(Len(chan[v]) < ChanCap) => chan'[v] = chan[v]
      /\ chan[v] \in Seq(Phases) /\ announcing[s] \in Phases
  BY <1>1 DEF TypeOK
<1>4. ASSUME NEW w \in PhaseWaiters
      PROVE  /\ Underway(w)' <= Underway(w) /\ Underway(w)' \in Nat /\ Underway(w) \in Nat
             /\ \A i \in DOMAIN chan[w] : i \in DOMAIN chan'[w] /\ chan'[w][i] = chan[w][i]
  <2>1. CASE w # v
    <3>1. chan'[w] = chan[w] /\ Pending(w, "read")' = Pending(w, "read") /\ Pending(w, "app")' = Pending(w, "app")
      BY <1>2, <2>1 DEF Pending
    <3>2. QED
      BY <3>1, UnderwayType DEF Underway
  <2>2. CASE w = v
    <3>1. Pending(w, s) = 1 /\ Pending(w, s)' = 0
      BY <1>1, <1>2, <2>2 DEF Pending
    <3>2. \A z \in Threads \ {s} : Pending(w, z)' = Pending(w, z)
      BY <1>2 DEF Pending
    <3>3. Pending(w, "read") \in Nat /\ Pending(w, "app") \in Nat /\ Len(chan[w]) \in Nat
      BY UnderwayType DEF Pending
    <3>4. Len(chan'[w]) <= Len(chan[w]) + 1 /\ Len(chan'[w]) \in Nat
      <4>1. Len(Append(chan[v], announcing[s])) = Len(chan[v]) + 1
        BY <1>3
      <4>2. QED
        BY <1>3, <2>2, <3>3, <4>1, UnderwayType
    <3>5. Underway(w)' <= Underway(w) /\ Underway(w)' \in Nat /\ Underway(w) \in Nat
      <4>1. CASE s = "read"
        <5>1. Pending(w, "read") = 1 /\ Pending(w, "read")' = 0 /\ Pending(w, "app")' = Pending(w, "app")
          BY <3>1, <3>2, <4>1
        <5>2. QED
          BY <3>3, <3>4, <5>1 DEF Underway
      <4>2. CASE s = "app"
        <5>1. Pending(w, "app") = 1 /\ Pending(w, "app")' = 0 /\ Pending(w, "read")' = Pending(w, "read")
          BY <3>1, <3>2, <4>2
        <5>2. QED
          BY <3>3, <3>4, <5>1 DEF Underway
      <4>3. QED
        BY <4>1, <4>2 DEF Threads
    <3>6. \A i \in DOMAIN chan[w] : i \in DOMAIN chan'[w] /\ chan'[w][i] = chan[w][i]
      BY <1>3, <2>2
    <3>7. QED
      BY <3>5, <3>6
  <2>3. QED
    BY <2>1, <2>2
<1>5. \A p \in Phases : Rank(p) \in Nat
  BY DEF Rank
<1>6. CountInv'
  BY <1>1, <1>4, <1>5 DEF StrandInv, CountInv, TypeOK
<1>7. FreshInv'
  BY <1>1, <1>4 DEF StrandInv, FreshInv
<1>8. AnnounceInv'
  BY <1>1 DEF StrandInv, AnnounceInv
<1>9. ASSUME NEW w \in PhaseWaiters, pc[w] = "select", ~Past(w)
      PROVE  \/ \E i \in DOMAIN chan'[w] : chan'[w][i] = want[w]
             \/ \E z \in Threads : w \in toNotify'[z] /\ announcing[z] = want[w] /\ Underway(w)' <= ChanCap
             \/ phase # want[w] /\ (phase \in EarlyPhases \/ Underway(w)' = 0)
  <2>1. CASE \E i \in DOMAIN chan[w] : chan[w][i] = want[w]
    BY <1>4, <2>1
  <2>2. ASSUME NEW z \in Threads, w \in toNotify[z], announcing[z] = want[w], Underway(w) <= ChanCap
        PROVE  \/ \E i \in DOMAIN chan'[w] : chan'[w][i] = want[w]
               \/ w \in toNotify'[z] /\ Underway(w)' <= ChanCap
    <3>1. CASE z = s /\ w = v
      <4>1. Pending(w, s) = 1 /\ Pending(w, "read") \in Nat /\ Pending(w, "app") \in Nat /\ Len(chan[w]) \in Nat
        BY <1>1, <3>1, UnderwayType DEF Pending
      <4>2. Len(chan[w]) + 1 <= Underway(w)
        <5>1. CASE s = "read"
          BY <4>1, <5>1 DEF Underway
        <5>2. CASE s = "app"
          BY <4>1, <5>2 DEF Underway
        <5>3. QED
          BY <5>1, <5>2
      <4>3. Len(chan[v]) < ChanCap
        BY <1>4, <2>2, <3>1, <4>1, <4>2, ConstantsAssumption
      <4>4. chan'[w] = Append(chan[w], want[w])
        BY <1>3, <2>2, <3>1, <4>3
      <4>5. Len(chan[w]) + 1 \in DOMAIN chan'[w] /\ chan'[w][Len(chan[w]) + 1] = want[w]
        BY <1>3, <3>1, <4>4
      <4>6. QED
        BY <4>5
    <3>2. CASE z # s \/ w # v
      BY <1>2, <1>4, <2>2, <3>2, ConstantsAssumption
    <3>3. QED
      BY <3>1, <3>2
  <2>3. CASE phase # want[w] /\ (phase \in EarlyPhases \/ Underway(w) = 0)
    BY <1>4, <2>3
  <2>4. Room(w)
    BY DEF StrandInv
  <2>5. QED
    BY <1>9, <2>1, <2>2, <2>3, <2>4 DEF Room
<1>10. \A w \in PhaseWaiters : Room(w)'
  BY <1>1, <1>9 DEF Room, Past
<1>11. QED
  BY <1>1, <1>6, <1>7, <1>8, <1>10 DEF StrandInv

\* A step that sends no call a message and sets none back keeps the account of what was
\* sent.
LEMMA CallsRoom ==
  ASSUME TypeOK, TypeOK', StrandInv,
         UNCHANGED <<phase, toNotify, announcing, want>>, loginSent => loginSent',
         \A w \in PhaseWaiters : /\ Len(chan'[w]) <= Len(chan[w])
                                 /\ pc'[w] \in {"idle", "register"} => pc[w] \in {"idle", "register"}
  PROVE  (want \in [PhaseWaiters -> Wanted])' /\ CountInv' /\ FreshInv' /\ AnnounceInv'
<1>1. ASSUME NEW w \in PhaseWaiters
      PROVE  Underway(w)' <= Underway(w) /\ Underway(w)' \in Nat /\ Underway(w) \in Nat
  <2>1. Pending(w, "read")' = Pending(w, "read") /\ Pending(w, "app")' = Pending(w, "app")
    BY DEF Pending
  <2>2. Pending(w, "read") \in Nat /\ Pending(w, "app") \in Nat
    BY DEF Pending
  <2>3. Len(chan[w]) \in Nat /\ Len(chan'[w]) \in Nat
    <3>1. chan[w] \in Seq(Phases) /\ chan'[w] \in Seq(Phases)
      BY DEF TypeOK, Waiters
    <3>2. QED
      BY <3>1
  <2>4. Underway(w) = Len(chan[w]) + Pending(w, "read") + Pending(w, "app")
    BY DEF Underway
  <2>5. Underway(w)' = Len(chan'[w]) + Pending(w, "read") + Pending(w, "app")
    BY <2>1 DEF Underway
  <2>6. Len(chan'[w]) <= Len(chan[w])
    OBVIOUS
  <2>7. QED
    BY <2>2, <2>3, <2>4, <2>5, <2>6, SMTT(30)
<1>2. \A p \in Phases : Rank(p) \in Nat
  BY DEF Rank
<1>3. CountInv'
  BY <1>1, <1>2 DEF StrandInv, CountInv, TypeOK
<1>4. FreshInv'
  BY <1>1 DEF StrandInv, FreshInv
<1>5. AnnounceInv'
  BY DEF StrandInv, AnnounceInv
<1>6. QED
  BY <1>3, <1>4, <1>5 DEF StrandInv

\* A call that neither receives nor begins to block keeps its room.
LEMMA SameRoom ==
  ASSUME NEW w \in PhaseWaiters, Room(w), UNCHANGED <<phase, toNotify, announcing, want>>,
         chan'[w] = chan[w], pc'[w] = "select" => pc[w] = "select"
  PROVE  Room(w)'
<1>1. Underway(w)' = Underway(w)
  BY DEF Underway, Pending
<1>2. QED
  BY <1>1 DEF Room, Past

\* The call begins to block: it has no message yet, and the phase is another one.
LEMMA RegisterRoom ==
  ASSUME TypeOK, TypeOK', StrandInv, NEW v \in PhaseWaiters, PhaseRegister(v)
  PROVE  StrandInv'
<1>1. /\ pc[v] = "register" /\ pc'[v] = "select" => phase # want[v]
      /\ \A w \in PhaseWaiters \ {v} : pc'[w] = pc[w]
      /\ pc'[v] \in {"select", "leave"}
      /\ UNCHANGED <<phase, loginSent, toNotify, announcing, chan, want>>
  BY DEF PhaseRegister, Decide, TypeOK, Waiters, sessionVars, threadVars
<1>2. pc[v] = "register"
  BY DEF PhaseRegister
<1>3. Underway(v) = 0 /\ Underway(v)' = Underway(v)
  <2>1. Underway(v)' = Underway(v)
    BY <1>1 DEF Underway, Pending
  <2>2. QED
    BY <1>2, <2>1 DEF StrandInv, FreshInv
<1>4. Room(v)'
  BY <1>1, <1>2, <1>3 DEF Room
<1>5. ASSUME NEW w \in PhaseWaiters, w # v PROVE Room(w)'
  BY <1>1, <1>5, SameRoom DEF StrandInv
<1>6. \A w \in PhaseWaiters : Len(chan'[w]) <= Len(chan[w])
  BY <1>1, UnderwayType
<1>7. \A w \in PhaseWaiters : Room(w)'
  BY <1>4, <1>5
<1>8. (want \in [PhaseWaiters -> Wanted])' /\ CountInv' /\ FreshInv' /\ AnnounceInv'
  BY <1>1, <1>2, <1>6, CallsRoom
<1>9. QED
  BY <1>7, <1>8 DEF StrandInv

\* The call takes a message: if it is not the phase it wants, that one is still there.
LEMMA ReceiveRoom ==
  ASSUME TypeOK, TypeOK', StrandInv, NEW v \in PhaseWaiters, PhaseReceive(v)
  PROVE  StrandInv'
<1> DEFINE q == chan[v]
<1>1. /\ pc[v] = "select" /\ q # <<>> /\ chan'[v] = Tail(q)
      /\ pc'[v] = "select" => Head(q) # want[v]
      /\ pc'[v] \in {"select", "leave"}
      /\ \A w \in PhaseWaiters \ {v} : pc'[w] = pc[w] /\ chan'[w] = chan[w]
      /\ UNCHANGED <<phase, loginSent, toNotify, announcing, want>>
  BY DEF PhaseReceive, Decide, TypeOK, Waiters, sessionVars, threadVars
<1>2. q \in Seq(Phases)
  BY DEF TypeOK, Waiters
<1>3. /\ Len(q) \in Nat \ {0} /\ Len(Tail(q)) = Len(q) - 1 /\ Head(q) = q[1]
      /\ DOMAIN q = 1..Len(q) /\ DOMAIN Tail(q) = 1..(Len(q) - 1)
      /\ \A i \in 1..(Len(q) - 1) : Tail(q)[i] = q[i + 1]
  <2> HIDE DEF q
  <2>1. QED
    BY <1>1, <1>2
<1>4. Underway(v)' + 1 = Underway(v) /\ Underway(v)' \in Nat /\ Underway(v) \in Nat \ {0}
  <2>1. Pending(v, "read")' = Pending(v, "read") /\ Pending(v, "app")' = Pending(v, "app")
    BY <1>1 DEF Pending
  <2>2. Pending(v, "read") \in Nat /\ Pending(v, "app") \in Nat
    BY DEF Pending
  <2>3. Len(chan'[v]) = Len(chan[v]) - 1 /\ Len(chan[v]) \in Nat \ {0}
    BY <1>1, <1>3
  <2>4. Underway(v) = Len(chan[v]) + Pending(v, "read") + Pending(v, "app")
    BY DEF Underway
  <2>5. Underway(v)' = Len(chan'[v]) + Pending(v, "read") + Pending(v, "app")
    BY <2>1 DEF Underway
  <2>6. QED
    BY <2>2, <2>3, <2>4, <2>5
<1>5. ASSUME pc'[v] = "select", ~Past(v)'
      PROVE  \/ \E i \in DOMAIN chan'[v] : chan'[v][i] = want[v]
             \/ \E z \in Threads : v \in toNotify[z] /\ announcing[z] = want[v] /\ Underway(v)' <= ChanCap
             \/ phase # want[v] /\ (phase \in EarlyPhases \/ Underway(v)' = 0)
  <2>1. Room(v) /\ ~Past(v)
    BY <1>1, <1>5 DEF StrandInv, Past
  <2>2. CASE \E i \in DOMAIN q : q[i] = want[v]
    <3>1. PICK i \in DOMAIN q : q[i] = want[v]
      BY <2>2
    <3>2. i # 1
      BY <1>1, <1>3, <1>5, <3>1
    <3>3. i - 1 \in 1..(Len(q) - 1) /\ (i - 1) + 1 = i
      BY <1>3, <3>2
    <3>4. Tail(q)[i - 1] = want[v] /\ i - 1 \in DOMAIN Tail(q)
      BY <1>3, <3>1, <3>3
    <3>5. QED
      BY <1>1, <3>4
  <2>3. CASE \E z \in Threads : v \in toNotify[z] /\ announcing[z] = want[v] /\ Underway(v) <= ChanCap
    BY <1>4, <2>3, ConstantsAssumption
  <2>4. CASE phase # want[v] /\ phase \in EarlyPhases
    BY <2>4
  <2>5. \/ \E i \in DOMAIN chan[v] : chan[v][i] = want[v]
        \/ \E z \in Threads : v \in toNotify[z] /\ announcing[z] = want[v] /\ Underway(v) <= ChanCap
        \/ phase # want[v] /\ (phase \in EarlyPhases \/ Underway(v) = 0)
    BY <1>1, <2>1 DEF Room
  <2>6. Underway(v) # 0
    BY <1>4
  <2>7. QED
    BY <2>2, <2>3, <2>4, <2>5, <2>6, Zenon
<1>6. Room(v)'
  BY <1>1, <1>5 DEF Room
<1>7. ASSUME NEW w \in PhaseWaiters, w # v PROVE Room(w)'
  BY <1>1, <1>7, SameRoom DEF StrandInv
<1>8. \A w \in PhaseWaiters : Len(chan'[w]) <= Len(chan[w])
  <2>1. ASSUME NEW w \in PhaseWaiters, w # v PROVE Len(chan'[w]) <= Len(chan[w])
    BY <1>1, <2>1, UnderwayType
  <2>2. Len(chan'[v]) <= Len(chan[v])
    BY <1>1, <1>3
  <2>3. QED
    BY <2>1, <2>2
<1>9. \A w \in PhaseWaiters : Room(w)'
  BY <1>6, <1>7
<1>10. (want \in [PhaseWaiters -> Wanted])' /\ CountInv' /\ FreshInv' /\ AnnounceInv'
  BY <1>1, <1>8, CallsRoom
<1>11. QED
  BY <1>9, <1>10 DEF StrandInv

\* A step of a waiting call keeps the account.
LEMMA WaiterRoom ==
  ASSUME TypeOK, TypeOK', StrandInv,
         \/ \E w \in PhaseWaiters : PhaseWaiterStep(w)
         \/ \E t \in TeleportWaiters : TeleportWaiterStep(t)
  PROVE  StrandInv'
<1>1. ASSUME UNCHANGED <<phase, loginSent, toNotify, announcing, want>>,
             \A w \in PhaseWaiters : /\ chan'[w] = chan[w]
                                     /\ pc'[w] = "select" => pc[w] = "select"
                                     /\ pc'[w] \in {"idle", "register"} => pc[w] \in {"idle", "register"}
      PROVE  StrandInv'
  <2>1. \A w \in PhaseWaiters : Room(w)'
    BY <1>1, SameRoom DEF StrandInv
  <2>2. \A w \in PhaseWaiters : Len(chan'[w]) <= Len(chan[w])
    BY <1>1, UnderwayType
  <2>3. (want \in [PhaseWaiters -> Wanted])' /\ CountInv' /\ FreshInv' /\ AnnounceInv'
    BY <1>1, <2>2, CallsRoom
  <2>4. QED
    BY <2>1, <2>3 DEF StrandInv
<1>2. ASSUME NEW v \in PhaseWaiters, PhaseCall(v) \/ GiveUp(v) \/ Leave(v)
      PROVE  StrandInv'
  <2>1. /\ UNCHANGED <<phase, loginSent, toNotify, announcing, want, chan>>
        /\ pc'[v] \in {"register", "leave", "returned"}
        /\ pc'[v] = "register" => pc[v] = "idle"
        /\ \A w \in PhaseWaiters \ {v} : pc'[w] = pc[w]
    BY <1>2 DEF PhaseCall, GiveUp, TimeOut, SeeStop, Leave, Decide, TypeOK, Waiters, sessionVars, threadVars
  <2>2. QED
    BY <1>1, <2>1
<1>3. ASSUME NEW t \in TeleportWaiters, TeleportWaiterStep(t)
      PROVE  StrandInv'
  <2>1. /\ UNCHANGED <<phase, loginSent, toNotify, announcing, want>>
        /\ \A w \in Waiters \ {t} : pc'[w] = pc[w] /\ chan'[w] = chan[w]
    BY <1>3 DEF TeleportWaiterStep, Snapshot, TeleportCall, TeleportRegister, TeleportCheck, TeleportReceive,
                GiveUp, TimeOut, SeeStop, Leave, Decide, TypeOK, sessionVars, threadVars
  <2>2. \A w \in PhaseWaiters : w \in Waiters \ {t}
    BY ConstantsAssumption DEF Waiters
  <2>3. QED
    BY <1>1, <2>1, <2>2
<1>4. QED
  BY <1>2, <1>3, RegisterRoom, ReceiveRoom DEF PhaseWaiterStep

\* The account of messages is kept by every step.
LEMMA StrandInvariant ==
  ASSUME Wanted \subseteq {"authed", "in_world"}, ChanCap >= 4
  PROVE  SafeSpec => []StrandInv
<1>1. Init => StrandInv
  <2> SUFFICES ASSUME Init PROVE StrandInv
    OBVIOUS
  <2>1. ASSUME NEW w \in PhaseWaiters PROVE Underway(w) = 0 /\ pc[w] = "idle"
    BY DEF Init, Underway, Pending, Waiters, Threads
  <2>2. QED
    BY <2>1 DEF Init, StrandInv, CountInv, FreshInv, AnnounceInv, Room, Rank, Threads
<1>2. TypeOK /\ TypeOK' /\ HandlerInv /\ RegistrationMatchesCalls /\ StrandInv /\ [Next]_vars => StrandInv'
  <2> SUFFICES ASSUME TypeOK, TypeOK', HandlerInv, RegistrationMatchesCalls, StrandInv, [Next]_vars
               PROVE  StrandInv'
    OBVIOUS
  <2>1. ASSUME UNCHANGED <<phase, toNotify, announcing, want, chan, pc>>, loginSent => loginSent'
        PROVE  StrandInv'
    <3>1. \A w \in PhaseWaiters : Room(w)'
      BY <2>1, SameRoom DEF StrandInv
    <3>2. \A w \in PhaseWaiters : Len(chan'[w]) <= Len(chan[w])
      BY <2>1, UnderwayType
    <3>3. (want \in [PhaseWaiters -> Wanted])' /\ CountInv' /\ FreshInv' /\ AnnounceInv'
      BY <2>1, <3>2, CallsRoom
    <3>4. QED
      BY <3>1, <3>3 DEF StrandInv
  <2>2. CASE Arrivals \/ UNCHANGED vars
    BY <2>1, <2>2 DEF Arrivals, Start, AuthChallenge, AuthOk, AuthFailed, LoginCharacter, LoginVerifyWorld,
                      MoveTeleport, NewWorld, LogoutComplete, Close, vars, sessionVars, threadVars, callVars
  <2>3. ASSUME NEW s \in Threads, SetPhase(s) PROVE StrandInv'
    BY <2>3, SetPhaseRoom
  <2>4. ASSUME NEW s \in Threads, NEW w \in Waiters, Notify(s, w) PROVE StrandInv'
    BY <2>4, NotifyRoom
  <2>5. ASSUME NEW s \in Threads, NEW e \in Effects, RunEffect(s, e) PROVE StrandInv'
    BY <2>1, <2>5 DEF RunEffect, callVars
  <2>6. QED
    BY <2>2, <2>3, <2>4, <2>5, WaiterRoom DEF Next, Handler
<1>3. QED
  BY <1>1, <1>2, TypeCorrect, HandlerInvariant, RegistrationIsExact, PTL DEF SafeSpec

\* A call of WaitForSessionPhase that blocks while the session is in the phase it wants
\* has that phase in its channel or is about to be sent it.  The program asks only for
\* the phases after authentication and of the world, and before either is entered the
\* first time no call can have been sent more than three phases: a capacity of four is
\* enough, and the code's is sixteen.
THEOREM NoPhaseWaiterIsStranded ==
  ASSUME Wanted \subseteq {"authed", "in_world"}, ChanCap >= 4
  PROVE  SafeSpec => []NoStrandedPhaseWaiter
<1>1. StrandInv => NoStrandedPhaseWaiter
  <2> SUFFICES ASSUME StrandInv, NEW w \in PhaseWaiters, pc[w] = "select", phase = want[w]
               PROVE  \/ \E i \in DOMAIN chan[w] : chan[w][i] = want[w]
                      \/ \E s \in Threads : w \in toNotify[s] /\ announcing[s] = want[w]
    BY DEF NoStrandedPhaseWaiter
  <2>1. want[w] \in {"authed", "in_world"}
    BY DEF StrandInv
  <2>2. ~Past(w) /\ Room(w)
    BY <2>1 DEF StrandInv, Past
  <2>3. QED
    BY <2>2 DEF Room
<1>2. QED
  BY <1>1, StrandInvariant, PTL

-----------------------------------------------------------------------------
(***************************************************************************)
(* SessionPhase implements the safety part of TeleportWait                 *)
(***************************************************************************)

\* A call has no result until it is about to leave, and keeps it from then on.
DecidedInv ==
  \A t \in TeleportWaiters : result[t] = "none" <=> pc[t] \notin {"leave", "returned"}

LEMMA DecidedInvariant == SafeSpec => []DecidedInv
<1>1. Init => DecidedInv
  BY DEF Init, DecidedInv
<1>2. TypeOK /\ DecidedInv /\ [Next]_vars => DecidedInv'
  <2> SUFFICES ASSUME TypeOK, DecidedInv, [Next]_vars,
                      NEW t \in TeleportWaiters
               PROVE  (result[t] = "none" <=> pc[t] \notin {"leave", "returned"})'
    BY DEF DecidedInv
  <2>1. CASE UNCHANGED <<pc, result>>
    BY <2>1 DEF DecidedInv
  <2>2. CASE Arrivals \/ Handler
    BY <2>1, <2>2 DEF Arrivals, Start, AuthChallenge, AuthOk, AuthFailed,
                      LoginCharacter, LoginVerifyWorld, MoveTeleport, NewWorld,
                      LogoutComplete, Close, Handler, SetPhase, Notify, RunEffect
  <2>3. ASSUME NEW w \in PhaseWaiters, PhaseWaiterStep(w)
        PROVE  pc'[t] = pc[t] /\ result'[t] = result[t]
    <3>1. w # t
      BY ConstantsAssumption
    <3>2. QED
      BY <2>3, <3>1 DEF PhaseWaiterStep, PhaseCall, PhaseRegister, PhaseReceive,
                        GiveUp, Leave, Decide, TypeOK
  <2>4. ASSUME NEW u \in TeleportWaiters, TeleportWaiterStep(u)
        PROVE  (result[t] = "none" <=> pc[t] \notin {"leave", "returned"})'
    <3>1. CASE Snapshot(u) \/ TeleportCall(u) \/ TeleportRegister(u)
      BY <3>1 DEF Snapshot, TeleportCall, TeleportRegister, Decide, DecidedInv, TypeOK
    <3>2. CASE TeleportCheck(u) \/ TeleportReceive(u) \/ GiveUp(u) \/ Leave(u)
      BY <3>2 DEF TeleportCheck, TeleportReceive, GiveUp, Leave, Decide,
                  DecidedInv, TypeOK
    <3>3. QED
      BY <2>4, <3>1, <3>2 DEF TeleportWaiterStep
  <2>5. QED
    BY <2>1, <2>2, <2>3, <2>4 DEF Next, vars, DecidedInv
<1>3. QED
  BY <1>1, <1>2, TypeCorrect, PTL DEF SafeSpec

\* The state that TeleportWait sees.
Statuses == [t \in TeleportWaiters |-> TeleportStatus(t)]

\* Only the locked section of setPhase moves the count of teleports, by one.
LEMMA SetPhaseCompletes ==
  ASSUME TypeOK, NEW s \in Threads, SetPhase(s)
  PROVE  [Abstract!Next]_(Abstract!waitVars)
<1>1. UNCHANGED <<after, pc, result>>
  BY DEF SetPhase
<1>2. Statuses' = Statuses
  BY <1>1 DEF Statuses, TeleportStatus
<1>3. teleportSeq' \in {teleportSeq, teleportSeq + 1}
  BY DEF SetPhase
<1>4. QED
  BY <1>1, <1>2, <1>3
     DEF Statuses, Abstract!Next, Abstract!Complete, Abstract!waitVars

\* A step that moves no call and no count is a stuttering step of TeleportWait.
LEMMA QuietStutters ==
  ASSUME UNCHANGED <<teleportSeq, after, pc, result>>
  PROVE  UNCHANGED Abstract!waitVars
<1>1. Statuses' = Statuses
  BY DEF Statuses, TeleportStatus
<1>2. QED
  BY <1>1 DEF Statuses, Abstract!waitVars

\* A step of a call is a step of the same caller, or stutters.
LEMMA TeleportCallMaps ==
  ASSUME TypeOK, DecidedInv, NEW t \in TeleportWaiters, TeleportWaiterStep(t)
  PROVE  [Abstract!Next]_(Abstract!waitVars)
<1>1. /\ teleportSeq' = teleportSeq
      /\ \A u \in TeleportWaiters \ {t} :
            TeleportStatus(u)' = TeleportStatus(u)
  BY DEF TeleportWaiterStep, Snapshot, TeleportCall, TeleportRegister,
         TeleportCheck, TeleportReceive, GiveUp, Leave, Decide, TeleportStatus,
         TypeOK
<1>2. ASSUME after' = after, TeleportStatus(t)' = TeleportStatus(t)
      PROVE  UNCHANGED Abstract!waitVars
  <2>1. Statuses' = Statuses
    BY <1>1, <1>2 DEF Statuses
  <2>2. QED
    BY <1>1, <1>2, <2>1 DEF Statuses, Abstract!waitVars
<1>3. ASSUME NEW s, TeleportStatus(t)' = s
      PROVE  Statuses' = [Statuses EXCEPT ![t] = s]
  BY <1>1, <1>3 DEF Statuses
<1>4. CASE Snapshot(t)
  <2>1. /\ TeleportStatus(t) = "idle"
        /\ TeleportStatus(t)' = "waiting"
        /\ after' = [after EXCEPT ![t] = teleportSeq]
    BY <1>4 DEF Snapshot, TeleportStatus, DecidedInv, TypeOK
  <2>2. Statuses' = [Statuses EXCEPT ![t] = "waiting"] /\ Statuses[t] = "idle"
    BY <1>3, <2>1 DEF Statuses
  <2>3. Abstract!Remember(t)
    BY <1>1, <2>1, <2>2 DEF Statuses, Abstract!Remember
  <2>4. QED
    BY <2>3 DEF Abstract!Next
<1>5. CASE TeleportCall(t) \/ TeleportRegister(t) \/ TeleportCheck(t)
  <2>1. after' = after /\ TeleportStatus(t) = "waiting"
    BY <1>5 DEF TeleportCall, TeleportRegister, TeleportCheck, TeleportStatus,
                DecidedInv
  <2>2. CASE teleportSeq > after[t]
    <3>1. TeleportStatus(t)' = "ok"
      BY <1>5, <2>2 DEF TeleportCall, TeleportRegister, TeleportCheck, Decide,
                        TeleportStatus, TypeOK
    <3>2. Statuses' = [Statuses EXCEPT ![t] = "ok"] /\ Statuses[t] = "waiting"
      BY <1>3, <2>1, <3>1 DEF Statuses
    <3>3. Abstract!Succeed(t)
      BY <1>1, <2>1, <2>2, <3>2 DEF Statuses, Abstract!Succeed
    <3>4. QED
      BY <3>3 DEF Abstract!Next
  <2>3. CASE ~(teleportSeq > after[t])
    <3>1. TeleportStatus(t)' = "waiting"
      BY <1>5, <2>3 DEF TeleportCall, TeleportRegister, TeleportCheck,
                        TeleportStatus, DecidedInv, TypeOK
    <3>2. QED
      BY <1>2, <2>1, <3>1
  <2>4. QED
    BY <2>2, <2>3
<1>6. CASE GiveUp(t)
  <2>1. /\ after' = after
        /\ TeleportStatus(t) = "waiting"
        /\ TeleportStatus(t)' = "gave_up"
    BY <1>6 DEF GiveUp, Decide, TeleportStatus, DecidedInv, TypeOK
  <2>2. Statuses' = [Statuses EXCEPT ![t] = "gave_up"] /\ Statuses[t] = "waiting"
    BY <1>3, <2>1 DEF Statuses
  <2>3. Abstract!GiveUp(t)
    BY <1>1, <2>1, <2>2 DEF Statuses, Abstract!GiveUp
  <2>4. QED
    BY <2>3 DEF Abstract!Next
<1>7. CASE TeleportReceive(t) \/ Leave(t)
  <2>1. after' = after /\ TeleportStatus(t)' = TeleportStatus(t)
    BY <1>7 DEF TeleportReceive, Leave, TeleportStatus, TypeOK
  <2>2. QED
    BY <1>2, <2>1
<1>8. QED
  BY <1>4, <1>5, <1>6, <1>7 DEF TeleportWaiterStep

\* The read loop's setPhase, the locks, the channels and the lossy sends
\* together never let a call of WaitForTeleportAfter succeed before a teleport
\* completed after its snapshot, nor a completed teleport be taken back.
THEOREM TeleportWaitSafety == SafeSpec => Abstract!SafeSpec
<1>1. Init => Abstract!Init
  BY DEF Init, Abstract!Init, TeleportStatus
<1>2. TypeOK /\ DecidedInv /\ [Next]_vars => [Abstract!Next]_(Abstract!waitVars)
  <2> SUFFICES ASSUME TypeOK, DecidedInv, [Next]_vars
               PROVE  [Abstract!Next]_(Abstract!waitVars)
    OBVIOUS
  <2>1. CASE Arrivals
    <3>1. UNCHANGED <<teleportSeq, after, pc, result>>
      BY <2>1 DEF Arrivals, Start, AuthChallenge, AuthOk, AuthFailed,
                  LoginCharacter, LoginVerifyWorld, MoveTeleport, NewWorld,
                  LogoutComplete, Close
    <3>2. QED
      BY <3>1, QuietStutters
  <2>2. ASSUME NEW s \in Threads,
               (\E w \in Waiters : Notify(s, w)) \/ (\E e \in Effects : RunEffect(s, e))
        PROVE  UNCHANGED <<teleportSeq, after, pc, result>>
    BY <2>2 DEF Notify, RunEffect
  <2>3. CASE Handler
    BY <2>2, <2>3, SetPhaseCompletes, QuietStutters DEF Handler
  <2>4. ASSUME NEW w \in PhaseWaiters, PhaseWaiterStep(w)
        PROVE  UNCHANGED Abstract!waitVars
    <3>1. UNCHANGED <<teleportSeq, after>>
      BY <2>4 DEF PhaseWaiterStep, PhaseCall, PhaseRegister, PhaseReceive, GiveUp,
                  Leave
    <3>2. \A t \in TeleportWaiters : TeleportStatus(t)' = TeleportStatus(t)
      BY <2>4, ConstantsAssumption
         DEF PhaseWaiterStep, PhaseCall, PhaseRegister, PhaseReceive, GiveUp,
             Leave, Decide, TypeOK, TeleportStatus
    <3>3. Statuses' = Statuses
      BY <3>2 DEF Statuses
    <3>4. QED
      BY <3>1, <3>3 DEF Statuses, Abstract!waitVars
  <2>5. CASE UNCHANGED vars
    BY <2>5, QuietStutters DEF vars
  <2>6. QED
    BY <2>1, <2>3, <2>4, <2>5, TeleportCallMaps DEF Next
<1>3. QED
  BY <1>1, <1>2, TypeCorrect, DecidedInvariant, PTL DEF SafeSpec, Abstract!SafeSpec

=============================================================================
