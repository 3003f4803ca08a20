---------------------------- MODULE SessionPhase ----------------------------
(***************************************************************************)
(* The session phase of one WorldClient (client/session.go) and the        *)
(* goroutines that share it: the read loop, which runs one packet handler  *)
(* at a time, the application goroutine that logs the character in, and    *)
(* the goroutines blocked in WaitForSessionPhase and WaitForTeleportAfter. *)
(*                                                                         *)
(* A handler is a list of steps still to be executed (todo).  setPhase is  *)
(* not one step: it changes the phase and copies the list of waiters under *)
(* phaseMu, then, with the lock released, sends the new phase to each      *)
(* waiter it copied with a send that drops the value when the channel is   *)
(* full.  Waiters run between any two of those steps.                      *)
(*                                                                         *)
(* Each element of PhaseWaiters and TeleportWaiters is one call of the     *)
(* corresponding function, with the channel that call makes.               *)
(***************************************************************************)
EXTENDS Naturals, Sequences

CONSTANTS
  PhaseWaiters,     \* calls of WaitForSessionPhase
  TeleportWaiters,  \* calls of WaitForTeleportAfter
  Wanted,           \* the phases that calls of WaitForSessionPhase ask for
  ChanCap,          \* capacity of a waiter's channel, 16 in the code
  MaxTeleports      \* bound: teleports the server starts

Phases == {"none", "connected", "authed", "loading", "in_world",
           "far_transfer", "near_teleport", "logout"}

ASSUME ConstantsAssumption ==
  /\ PhaseWaiters \cap TeleportWaiters = {}
  /\ Wanted \subseteq Phases
  /\ ChanCap \in Nat \ {0}
  /\ MaxTeleports \in Nat

Waiters == PhaseWaiters \cup TeleportWaiters

Transfers == {"far_transfer", "near_teleport"}

\* The goroutines that call setPhase.
Threads == {"read", "app"}

\* What a handler does besides entering a phase.
Effects == {"player_login", "login_done", "teleport_ack", "logout_done", "stop"}

VARIABLES
  phase,         \* w.phase
  teleportSeq,   \* w.teleportSeq
  acks,          \* w.teleportAcksSent + w.worldportAcksSent
  loginSent,     \* CMSG_PLAYER_LOGIN is on the wire
  loginDone,     \* w.loginDone is closed
  logoutDone,    \* w.logoutDone is closed
  stopped,       \* w.stopChan is closed
  todo,          \* per thread, the steps of its handler still to run
  announcing,    \* per thread, the phase its setPhase call is sending
  toNotify,      \* per thread, the waiters it still has to send to
  registered,    \* w.phaseWaiters
  chan,          \* per waiter, the content of its channel
  pc,            \* per waiter, where its call is
  result,        \* per waiter, what its call returns ("none" until decided)
  want,          \* per phase waiter, the argument want
  after,         \* per teleport waiter, the argument afterSeq
  seen           \* history: per phase waiter, the phases since its call began

sessionVars == <<phase, teleportSeq, acks, loginSent, loginDone, logoutDone>>
threadVars  == <<todo, announcing, toNotify>>
callVars    == <<pc, result, want, after>>
vars == <<sessionVars, stopped, threadVars, registered, chan, callVars, seen>>

PCs     == {"idle", "armed", "register", "loop", "select", "leave", "returned"}
Results == {"none", "ok", "timeout", "stopped"}

Init ==
  /\ phase = "none"
  /\ teleportSeq = 0
  /\ acks = 0
  /\ loginSent = FALSE
  /\ loginDone = FALSE
  /\ logoutDone = FALSE
  /\ stopped = FALSE
  /\ todo = [s \in Threads |-> <<>>]
  /\ announcing = [s \in Threads |-> "none"]
  /\ toNotify = [s \in Threads |-> {}]
  /\ registered = {}
  /\ chan = [w \in Waiters |-> <<>>]
  /\ pc = [w \in Waiters |-> "idle"]
  /\ result = [w \in Waiters |-> "none"]
  /\ want \in [PhaseWaiters -> Wanted]
  /\ after = [t \in TeleportWaiters |-> 0]
  /\ seen = [w \in PhaseWaiters |-> {}]

-----------------------------------------------------------------------------
(***************************************************************************)
(* Packets and application calls: each starts a handler on its thread.     *)
(* The guards on phase are those of the world server and of the callers:   *)
(* what it sends, and when a caller logs in, in each phase of a session.   *)
(***************************************************************************)

Free(s) == todo[s] = <<>> /\ toNotify[s] = {}

Start(s, steps) ==
  /\ Free(s)
  /\ todo' = [todo EXCEPT ![s] = steps]
  /\ UNCHANGED <<sessionVars, stopped, announcing, toNotify, registered, chan,
                 callVars, seen>>

\* SMSG_AUTH_CHALLENGE, read by Run before the read loop starts.
AuthChallenge == phase = "none" /\ Start("read", <<"connected">>)

\* SMSG_AUTH_RESPONSE with AUTH_OK.
AuthOk == phase = "connected" /\ Start("read", <<"authed">>)

\* SMSG_AUTH_RESPONSE with a failure code: the handler closes the client.
AuthFailed ==
  /\ phase = "connected"
  /\ ~stopped
  /\ Start("read", <<"stop">>)

\* Mutant: the packet is sent before the loading phase is entered.
LoginCharacterSendFirst ==
  /\ phase = "authed"
  /\ Start("app", <<"player_login", "loading">>)

\* LoginCharacter enters the loading phase before it sends the packet.
LoginCharacter ==
  /\ phase = "authed"
  /\ Start("app", <<"loading", "player_login">>)

\* SMSG_LOGIN_VERIFY_WORLD answers CMSG_PLAYER_LOGIN.
LoginVerifyWorld ==
  /\ loginSent
  /\ ~loginDone
  /\ Start("read", <<"in_world", "login_done">>)

\* Mutant: the acknowledgement follows the return to the world.
MoveTeleportAckLast ==
  /\ phase = "in_world"
  /\ teleportSeq < MaxTeleports
  /\ Start("read", <<"near_teleport", "in_world", "teleport_ack">>)

\* A self SMSG_MOVE_TELEPORT, in either of its two packet forms.
MoveTeleport ==
  /\ phase = "in_world"
  /\ teleportSeq < MaxTeleports
  /\ Start("read", <<"near_teleport", "teleport_ack", "in_world">>)

\* SMSG_NEW_WORLD.
NewWorld ==
  /\ phase = "in_world"
  /\ teleportSeq < MaxTeleports
  /\ Start("read", <<"far_transfer", "teleport_ack", "in_world">>)

\* SMSG_LOGOUT_COMPLETE.
LogoutComplete ==
  /\ phase = "in_world"
  /\ Start("read", <<"logout", "logout_done", "stop">>)

\* Close, called from the application at any time, or a read error.
Close ==
  /\ ~stopped
  /\ stopped' = TRUE
  /\ UNCHANGED <<sessionVars, threadVars, registered, chan, callVars, seen>>

Arrivals ==
  \/ AuthChallenge
  \/ AuthOk
  \/ AuthFailed
  \/ LoginCharacter
  \/ LoginVerifyWorld
  \/ MoveTeleport
  \/ NewWorld
  \/ LogoutComplete
  \/ Close

-----------------------------------------------------------------------------
(***************************************************************************)
(* Running a handler.                                                      *)
(***************************************************************************)

\* A waiter's call has begun and has not returned.
Calling(w) == pc[w] \notin {"idle", "armed", "returned"}

\* The locked section of setPhase; a call that names the current phase
\* returns at once.
SetPhase(s) ==
  /\ todo[s] # <<>>
  /\ toNotify[s] = {}
  /\ Head(todo[s]) \in Phases
  /\ LET to == Head(todo[s]) IN
       /\ todo' = [todo EXCEPT ![s] = Tail(@)]
       /\ phase' = to
       /\ IF phase = to
            THEN UNCHANGED <<teleportSeq, announcing, toNotify, seen>>
            ELSE /\ teleportSeq' = IF to = "in_world" /\ phase \in Transfers
                                     THEN teleportSeq + 1
                                     ELSE teleportSeq
                 /\ announcing' = [announcing EXCEPT ![s] = to]
                 /\ toNotify' = [toNotify EXCEPT ![s] = registered]
                 /\ seen' = [w \in PhaseWaiters |->
                              IF Calling(w) THEN seen[w] \cup {to} ELSE seen[w]]
  /\ UNCHANGED <<acks, loginSent, loginDone, logoutDone, stopped, registered,
                 chan, callVars>>

\* One send of the loop that ends setPhase: dropped when the channel is full.
Notify(s, w) ==
  /\ w \in toNotify[s]
  /\ toNotify' = [toNotify EXCEPT ![s] = @ \ {w}]
  /\ chan' = IF Len(chan[w]) < ChanCap
               THEN [chan EXCEPT ![w] = Append(@, announcing[s])]
               ELSE chan
  /\ UNCHANGED <<sessionVars, stopped, todo, announcing, registered, callVars,
                 seen>>

\* The steps of a handler that are not setPhase calls.
RunEffect(s, e) ==
  /\ todo[s] # <<>>
  /\ toNotify[s] = {}
  /\ Head(todo[s]) = e
  /\ e \in Effects
  /\ todo' = [todo EXCEPT ![s] = Tail(@)]
  /\ loginSent' = (loginSent \/ e = "player_login")
  /\ loginDone' = (loginDone \/ e = "login_done")
  /\ logoutDone' = (logoutDone \/ e = "logout_done")
  /\ stopped' = (stopped \/ e = "stop")
  /\ acks' = IF e = "teleport_ack" THEN acks + 1 ELSE acks
  /\ UNCHANGED <<phase, teleportSeq, announcing, toNotify, registered, chan,
                 callVars, seen>>

Handler ==
  \E s \in Threads :
    \/ SetPhase(s)
    \/ \E w \in Waiters : Notify(s, w)
    \/ \E e \in Effects : RunEffect(s, e)

-----------------------------------------------------------------------------
(***************************************************************************)
(* Steps shared by the two waiting functions.                              *)
(***************************************************************************)

\* Decide what the call returns and go to pc next.
Decide(w, r, next) ==
  /\ result' = [result EXCEPT ![w] = r]
  /\ pc' = [pc EXCEPT ![w] = next]

\* <-timer.C in the select.
TimeOut(w) ==
  /\ pc[w] = "select"
  /\ Decide(w, "timeout", "leave")
  /\ UNCHANGED <<sessionVars, stopped, threadVars, registered, chan, want,
                 after, seen>>

\* Mutant: the select sees stopChan but does not leave the loop around it.
SeeStopAndLoop(w) ==
  /\ pc[w] = "select"
  /\ stopped
  /\ UNCHANGED vars

\* <-stopChan in the select.
SeeStop(w) ==
  /\ pc[w] = "select"
  /\ stopped
  /\ Decide(w, "stopped", "leave")
  /\ UNCHANGED <<sessionVars, stopped, threadVars, registered, chan, want,
                 after, seen>>

GiveUp(w) == TimeOut(w) \/ SeeStop(w)

\* Mutant: the deferred removePhaseWaiter is missing.
LeaveRegistered(w) ==
  /\ pc[w] = "leave"
  /\ pc' = [pc EXCEPT ![w] = "returned"]
  /\ UNCHANGED <<sessionVars, stopped, threadVars, registered, chan, result,
                 want, after, seen>>

\* removePhaseWaiter, run by the deferred call before the function returns.
Leave(w) ==
  /\ pc[w] = "leave"
  /\ pc' = [pc EXCEPT ![w] = "returned"]
  /\ registered' = registered \ {w}
  /\ UNCHANGED <<sessionVars, stopped, threadVars, chan, result, want, after,
                 seen>>

-----------------------------------------------------------------------------
(***************************************************************************)
(* WaitForSessionPhase(want, timeout)                                      *)
(***************************************************************************)

PhaseCall(w) ==
  /\ pc[w] = "idle"
  /\ seen' = [seen EXCEPT ![w] = {phase}]
  /\ IF phase = want[w]
       THEN Decide(w, "ok", "returned")
       ELSE pc' = [pc EXCEPT ![w] = "register"] /\ UNCHANGED result
  /\ UNCHANGED <<sessionVars, stopped, threadVars, registered, chan, want, after>>

\* Mutant: registers without looking at the phase again.
PhaseRegisterUnchecked(w) ==
  /\ pc[w] = "register"
  /\ registered' = registered \cup {w}
  /\ pc' = [pc EXCEPT ![w] = "select"]
  /\ UNCHANGED <<sessionVars, stopped, threadVars, chan, result, want, after, seen>>

\* Append the channel to phaseWaiters and check again under the same lock.
PhaseRegister(w) ==
  /\ pc[w] = "register"
  /\ registered' = registered \cup {w}
  /\ IF phase = want[w]
       THEN Decide(w, "ok", "leave")
       ELSE pc' = [pc EXCEPT ![w] = "select"] /\ UNCHANGED result
  /\ UNCHANGED <<sessionVars, stopped, threadVars, chan, want, after, seen>>

\* Mutant: any message ends the wait.
PhaseReceiveAny(w) ==
  /\ pc[w] = "select"
  /\ chan[w] # <<>>
  /\ chan' = [chan EXCEPT ![w] = Tail(@)]
  /\ Decide(w, "ok", "leave")
  /\ UNCHANGED <<sessionVars, stopped, threadVars, registered, want, after, seen>>

\* The loop looks only at the value received, never at the phase again.
PhaseReceive(w) ==
  /\ pc[w] = "select"
  /\ chan[w] # <<>>
  /\ chan' = [chan EXCEPT ![w] = Tail(@)]
  /\ IF Head(chan[w]) = want[w]
       THEN Decide(w, "ok", "leave")
       ELSE UNCHANGED <<pc, result>>
  /\ UNCHANGED <<sessionVars, stopped, threadVars, registered, want, after, seen>>

PhaseWaiterStep(w) ==
  \/ PhaseCall(w)
  \/ PhaseRegister(w)
  \/ PhaseReceive(w)
  \/ GiveUp(w)
  \/ Leave(w)

-----------------------------------------------------------------------------
(***************************************************************************)
(* WaitForTeleportAfter(afterSeq, timeout)                                 *)
(***************************************************************************)

\* The caller snapshots TeleportSeq before it asks for the teleport.
Snapshot(t) ==
  /\ pc[t] = "idle"
  /\ after' = [after EXCEPT ![t] = teleportSeq]
  /\ pc' = [pc EXCEPT ![t] = "armed"]
  /\ UNCHANGED <<sessionVars, stopped, threadVars, registered, chan, result,
                 want, seen>>

TeleportCall(t) ==
  /\ pc[t] = "armed"
  /\ IF teleportSeq > after[t]
       THEN Decide(t, "ok", "returned")
       ELSE pc' = [pc EXCEPT ![t] = "register"] /\ UNCHANGED result
  /\ UNCHANGED <<sessionVars, stopped, threadVars, registered, chan, want, after,
                 seen>>

\* Mutant: registers and blocks without comparing the counts again.
TeleportRegisterUnchecked(t) ==
  /\ pc[t] = "register"
  /\ registered' = registered \cup {t}
  /\ pc' = [pc EXCEPT ![t] = "select"]
  /\ UNCHANGED <<sessionVars, stopped, threadVars, chan, result, want, after, seen>>

\* Append the channel to phaseWaiters and compare again under the same lock.
TeleportRegister(t) ==
  /\ pc[t] = "register"
  /\ registered' = registered \cup {t}
  /\ IF teleportSeq > after[t]
       THEN Decide(t, "ok", "leave")
       ELSE pc' = [pc EXCEPT ![t] = "loop"] /\ UNCHANGED result
  /\ UNCHANGED <<sessionVars, stopped, threadVars, chan, want, after, seen>>

\* Mutant: compares the counts off by one.
TeleportCheckOffByOne(t) ==
  /\ pc[t] = "loop"
  /\ IF teleportSeq >= after[t]
       THEN Decide(t, "ok", "leave")
       ELSE pc' = [pc EXCEPT ![t] = "select"] /\ UNCHANGED result
  /\ UNCHANGED <<sessionVars, stopped, threadVars, registered, chan, want, after,
                 seen>>

\* The check at the head of the loop, and the one after a receive.
TeleportCheck(t) ==
  /\ pc[t] = "loop"
  /\ IF teleportSeq > after[t]
       THEN Decide(t, "ok", "leave")
       ELSE pc' = [pc EXCEPT ![t] = "select"] /\ UNCHANGED result
  /\ UNCHANGED <<sessionVars, stopped, threadVars, registered, chan, want, after,
                 seen>>

\* A message only wakes the call: the count decides.
TeleportReceive(t) ==
  /\ pc[t] = "select"
  /\ chan[t] # <<>>
  /\ chan' = [chan EXCEPT ![t] = Tail(@)]
  /\ pc' = [pc EXCEPT ![t] = "loop"]
  /\ UNCHANGED <<sessionVars, stopped, threadVars, registered, result, want,
                 after, seen>>

TeleportWaiterStep(t) ==
  \/ Snapshot(t)
  \/ TeleportCall(t)
  \/ TeleportRegister(t)
  \/ TeleportCheck(t)
  \/ TeleportReceive(t)
  \/ GiveUp(t)
  \/ Leave(t)

-----------------------------------------------------------------------------
Next ==
  \/ Arrivals
  \/ Handler
  \/ \E w \in PhaseWaiters : PhaseWaiterStep(w)
  \/ \E t \in TeleportWaiters : TeleportWaiterStep(t)

SafeSpec == Init /\ [][Next]_vars

(***************************************************************************)
(* Fairness: a handler that has started runs to its end (the sends to      *)
(* waiters never block, and its writes are taken to return), and a waiter  *)
(* that can move is scheduled.  A timer is never obliged to fire before    *)
(* anything else, so TimeOut has no fairness.  Nothing else is assumed of  *)
(* the server or of the application.                                       *)
(***************************************************************************)
Fairness ==
  /\ \A s \in Threads :
       /\ WF_vars(SetPhase(s))
       /\ WF_vars(\E w \in Waiters : Notify(s, w))
       /\ WF_vars(\E e \in Effects : RunEffect(s, e))
  /\ \A w \in PhaseWaiters :
       /\ WF_vars(PhaseRegister(w) \/ PhaseReceive(w) \/ Leave(w))
       /\ WF_vars(SeeStop(w))
  /\ \A t \in TeleportWaiters :
       /\ WF_vars(TeleportCall(t) \/ TeleportRegister(t) \/ TeleportCheck(t))
       /\ WF_vars(TeleportReceive(t) \/ Leave(t))
       /\ WF_vars(SeeStop(t))

Spec == SafeSpec /\ Fairness

-----------------------------------------------------------------------------
(***************************************************************************)
(* Properties                                                              *)
(***************************************************************************)

\* Every variable keeps its type, and no channel holds more than its capacity.
TypeOK ==
  /\ phase \in Phases
  /\ teleportSeq \in Nat
  /\ acks \in Nat
  /\ loginSent \in BOOLEAN
  /\ loginDone \in BOOLEAN
  /\ logoutDone \in BOOLEAN
  /\ stopped \in BOOLEAN
  /\ todo \in [Threads -> Seq(Phases \cup Effects)]
  /\ announcing \in [Threads -> Phases]
  /\ toNotify \in [Threads -> SUBSET Waiters]
  /\ registered \in SUBSET Waiters
  /\ chan \in [Waiters -> Seq(Phases)]
  /\ \A w \in Waiters : Len(chan[w]) <= ChanCap
  /\ pc \in [Waiters -> PCs]
  /\ result \in [Waiters -> Results]
  /\ want \in [PhaseWaiters -> Phases]
  /\ after \in [TeleportWaiters -> Nat]
  /\ seen \in [PhaseWaiters -> SUBSET Phases]

\* A teleport that completed cannot be missed: a call of WaitForTeleportAfter
\* that is blocked in its select although the sequence has passed afterSeq has
\* a message to read, or a setPhase call in progress is about to send it one.
\* This is what registering before rechecking, under one lock, is for, and it
\* holds although the sends drop messages when the channel is full.
NoLostTeleportWake ==
  \A t \in TeleportWaiters :
    pc[t] = "select" /\ teleportSeq > after[t] =>
      chan[t] # <<>> \/ \E s \in Threads : t \in toNotify[s]

\* A call of WaitForSessionPhase that returns nil did so for a phase the session
\* was in at some moment of the call: a message left over from before the call,
\* or sent for another phase, never satisfies it.
PhaseOkWitnessed ==
  \A w \in PhaseWaiters : result[w] = "ok" => want[w] \in seen[w]

\* A call of WaitForSessionPhase blocked in its select while the session is in
\* the phase it wants finds that phase in its channel, or is about to be sent
\* it.  Sends to a full channel are dropped and the loop never looks at the
\* phase again, so this depends on the capacity of the channel.
NoStrandedPhaseWaiter ==
  \A w \in PhaseWaiters :
    pc[w] = "select" /\ phase = want[w] =>
      \/ \E i \in DOMAIN chan[w] : chan[w][i] = want[w]
      \/ \E s \in Threads : w \in toNotify[s] /\ announcing[s] = want[w]

\* The session reports a teleport complete only after the acknowledgement the
\* server waits for was sent, and owes no more than the one in progress.
AcksMatchTeleports ==
  /\ teleportSeq <= acks
  /\ acks <= teleportSeq + (IF phase \in Transfers THEN 1 ELSE 0)

\* Once the server has verified the login, the session is never again in a phase
\* from before it: LoginCharacter enters the loading phase before it sends the
\* packet, so its own transition cannot overtake the answer.
LoginIsKept ==
  loginDone => phase \notin {"none", "connected", "authed", "loading"}

\* The list of waiters holds exactly the calls between their registration and
\* their return: no call leaks its channel, and none waits unregistered.
RegistrationMatchesCalls ==
  registered = {w \in Waiters : pc[w] \in {"loop", "select", "leave"}}

\* Closing the client, for whatever reason, ends every call in progress.  (The run that
\* checks it has the waits for a phase only.)
StopEndsEveryWait ==
  \A w \in Waiters : stopped /\ Calling(w) ~> pc[w] = "returned"

=============================================================================
