------------------------------- MODULE BotRun -------------------------------
(***************************************************************************)
(* The Run of one bot (bot/bot.go): authentication, connection, character, *)
(* login, AI loop and the order in which it lets go of what it holds.      *)
(*                                                                         *)
(* Run starts three goroutines that outlive some of its exits: the reader  *)
(* (WorldClient.Run), the wait for the login, and the movement loop.       *)
(* Anyone may stop the bot at any time.  What a server or a timer decides  *)
(* is a choice: a step that waits for an answer fails when the answer is a *)
(* refusal, does not come in time or cannot be asked for.                  *)
(*                                                                         *)
(* A packet is written without a deadline under sendMu, which Close takes  *)
(* too.  So a send may last for as long as the server does not read, and   *)
(* with it every other send and Close.                                     *)
(***************************************************************************)
EXTENDS Naturals

CONSTANT
  MaxAttempts   \* names tried for a new character (ten in the code)

ASSUME MaxAttemptsAssumption == MaxAttempts \in Nat \ {0}

VARIABLES
  account,    \* what the account holds: the character, none of its name, or
              \* characters to delete first
  pc,         \* where Run is
  status,     \* b.status; "connecting" stands for all that precede "in_world"
  stopped,    \* b.stopCh is closed
  tries,      \* names tried so far
  conn,       \* the connection: none, open, dropped by the server, shut by Close
  reader,     \* the goroutine of WorldClient.Run
  errReady,   \* worldErrCh holds the reader's error
  verified,   \* w.loginDone is closed
  waiter,     \* the goroutine of WaitForLogin; from "ok" and "late" on it has ended
  mover,      \* the goroutine of runMovementLoop
  sending,    \* who is in a send that does not return: in its write, or waiting for a lock
              \* that another such send holds (sendMu, b.movementMu)
  nav, lua    \* b.nav and b.lua

held == <<conn, mover, nav, lua>>
vars == <<account, pc, status, stopped, tries, reader, errReady, verified, waiter, sending, held>>

Goroutines == {"run", "reader", "mover"}

Init ==
  /\ account \in {"has", "nameless", "crowded"}
  /\ pc = "authenticate"
  /\ status = "connecting"
  /\ stopped = FALSE
  /\ tries = 0
  /\ conn = "none"
  /\ reader = "none"
  /\ errReady = FALSE
  /\ verified = FALSE
  /\ waiter = "none"
  /\ sending = {}
  /\ mover = "none"
  /\ nav = "none"
  /\ lua = "none"

Ended == pc \in {"failed", "done"}

-----------------------------------------------------------------------------
(***************************************************************************)
(* Run.                                                                    *)
(***************************************************************************)

\* Close waits for sendMu.
CanClose == sending = {}

\* The server answers, and the answer is read.
Answers == conn = "open" /\ reader = "running"

\* Mutant: the connection is left open.
FailOpen ==
  /\ pc' = "failed"
  /\ status' = "error"
  /\ UNCHANGED held

Fail ==
  /\ CanClose
  /\ pc' = "failed"
  /\ status' = "error"
  /\ conn' = IF conn = "none" THEN conn ELSE "shut"
  /\ UNCHANGED <<mover, nav, lua>>

GoTo(next) ==
  /\ pc' = next
  /\ UNCHANGED <<status, held>>

Authenticate ==
  /\ pc = "authenticate"
  /\ GoTo("connect") \/ Fail
  /\ UNCHANGED <<account, stopped, tries, reader, errReady, verified, waiter>>

Connect ==
  /\ pc = "connect"
  /\ \/ /\ pc' = "list"
        /\ conn' = "open"
        /\ reader' = "running"
        /\ UNCHANGED <<status, mover, nav, lua>>
     \/ Fail /\ UNCHANGED reader
  /\ UNCHANGED <<account, stopped, tries, errReady, verified, waiter>>

\* The first character list: existing characters are deleted when that is asked for.
AwaitList ==
  /\ pc = "list"
  /\ \/ /\ Answers
        /\ GoTo(CASE account = "crowded" -> "relist"
                  [] account = "nameless" -> "create"
                  [] OTHER -> "login")
     \/ Fail
  /\ UNCHANGED <<account, stopped, tries, reader, errReady, verified, waiter>>

\* The list after the deletions, which the server may have refused.
AwaitRelist ==
  /\ pc = "relist"
  /\ \/ /\ Answers
        /\ \E next \in {"create", "login"} : GoTo(next)
     \/ Fail
  /\ UNCHANGED <<account, stopped, tries, reader, errReady, verified, waiter>>

\* One attempt: a name in use makes the loop try another.
CreateCharacter ==
  /\ pc = "create"
  /\ \/ /\ Answers
        /\ tries' = tries + 1
        /\ \/ GoTo("newlist")
           \/ tries' < MaxAttempts /\ GoTo("create")
           \/ tries' = MaxAttempts /\ Fail
     \/ Fail /\ UNCHANGED tries
  /\ UNCHANGED <<account, stopped, reader, errReady, verified, waiter>>

AwaitNewList ==
  /\ pc = "newlist"
  /\ \/ Answers /\ GoTo("login")
     \/ Fail
  /\ UNCHANGED <<account, stopped, tries, reader, errReady, verified, waiter>>

\* LoginCharacter and the goroutine that waits for its verification.
BeginLogin ==
  /\ pc = "login"
  /\ \/ GoTo("verify") /\ waiter' = "waiting"
     \/ conn # "open" /\ Fail /\ UNCHANGED waiter
  /\ UNCHANGED <<account, stopped, tries, reader, errReady, verified>>

\* Mutant: what the wait reports is not looked at.
TakeLoginUnread ==
  /\ pc = "verify"
  /\ waiter \in {"ok", "late"}
  /\ waiter' = "taken"
  /\ pc' = "world"
  /\ status' = "in_world"
  /\ UNCHANGED <<account, stopped, tries, reader, errReady, verified, held>>

TakeLogin ==
  /\ pc = "verify"
  /\ waiter \in {"ok", "late"}
  /\ waiter' = "taken"
  /\ IF waiter = "ok"
       THEN pc' = "world" /\ status' = "in_world" /\ UNCHANGED held
       ELSE Fail
  /\ UNCHANGED <<account, stopped, tries, reader, errReady, verified>>

TakeWorldError ==
  /\ pc = "verify"
  /\ errReady
  /\ errReady' = FALSE
  /\ Fail
  /\ UNCHANGED <<account, stopped, tries, reader, verified, waiter>>

\* initNavigation and NewEngine: without a service or a data directory there is no nav.
MakeEngine ==
  /\ pc = "world"
  /\ pc' = "engine"
  /\ nav' \in {"none", "open"}
  /\ lua' = "open"
  /\ UNCHANGED <<account, status, stopped, tries, conn, reader, errReady, verified, waiter, mover>>

\* The code of the configuration, the tree, and the start of the movement loop.
LoadConfig ==
  /\ pc = "engine"
  /\ pc' = "loop"
  /\ mover' = "running"
  /\ UNCHANGED <<account, status, stopped, tries, conn, reader, errReady, verified, waiter, nav, lua>>

\* The branches of runAILoop that return.
LeaveLoop ==
  /\ pc = "loop"
  /\ \/ stopped /\ UNCHANGED errReady
     \/ errReady /\ errReady' = FALSE
  /\ GoTo("join")
  /\ UNCHANGED <<account, stopped, tries, reader, verified, waiter>>

\* Mutant: the loop returns without waiting for the movement loop.
JoinUnawaited ==
  /\ pc = "join"
  /\ GoTo("close")
  /\ UNCHANGED <<account, stopped, tries, reader, errReady, verified, waiter>>

\* <-movementDone
Join ==
  /\ pc = "join"
  /\ mover = "ended"
  /\ GoTo("close")
  /\ UNCHANGED <<account, stopped, tries, reader, errReady, verified, waiter>>

CloseWorld ==
  /\ pc = "close"
  /\ CanClose
  /\ pc' = "close_lua"
  /\ conn' = "shut"
  /\ nav' = IF nav = "open" THEN "closed" ELSE nav
  /\ UNCHANGED <<account, status, stopped, tries, reader, errReady, verified, waiter, mover, lua>>

CloseLua ==
  /\ pc = "close_lua"
  /\ pc' = "done"
  /\ lua' = "closed"
  /\ status' = "done"
  /\ UNCHANGED <<account, stopped, tries, conn, reader, errReady, verified, waiter, mover, nav>>

RunStep ==
  /\ "run" \notin sending
  /\ \/ Authenticate
     \/ Connect
     \/ AwaitList
     \/ AwaitRelist
     \/ CreateCharacter
     \/ AwaitNewList
     \/ BeginLogin
     \/ TakeLogin
     \/ TakeWorldError
     \/ MakeEngine
     \/ LoadConfig
     \/ LeaveLoop
     \/ Join
     \/ CloseWorld
     \/ CloseLua
  /\ UNCHANGED sending

-----------------------------------------------------------------------------
(***************************************************************************)
(* The bot's other goroutines, the world server, and Stop.                 *)
(***************************************************************************)

ServerDrops ==
  /\ conn = "open"
  /\ conn' = "dropped"
  /\ UNCHANGED <<account, pc, status, stopped, tries, reader, errReady, verified, waiter, sending,
                 mover, nav, lua>>

\* SMSG_LOGIN_VERIFY_WORLD closes loginDone.
ReadVerify ==
  /\ Answers
  /\ "reader" \notin sending
  /\ pc = "verify"
  /\ verified' = TRUE
  /\ UNCHANGED <<account, pc, status, stopped, tries, reader, errReady, waiter, sending, held>>

\* Mutant: worldErrCh has no buffer, so only a Run that receives takes the error.
ReaderEndsUnbuffered ==
  /\ reader = "running"
  /\ "reader" \notin sending
  /\ pc \in {"verify", "loop"}
  /\ reader' = "ended"
  /\ errReady' = TRUE
  /\ UNCHANGED <<account, pc, status, stopped, tries, verified, waiter, sending, held>>

\* The read fails, with the connection or by its deadline, and the error fits into
\* worldErrCh.
ReaderEnds ==
  /\ reader = "running"
  /\ "reader" \notin sending
  /\ reader' = "ended"
  /\ errReady' = TRUE
  /\ UNCHANGED <<account, pc, status, stopped, tries, verified, waiter, sending, held>>

\* Mutant: the wait has no timer.
WaiterEndsUntimed ==
  /\ waiter = "waiting"
  /\ verified
  /\ waiter' = "ok"
  /\ UNCHANGED <<account, pc, status, stopped, tries, reader, errReady, verified, sending, held>>

\* WaitForLogin returns, and its result fits into loginErrCh.
WaiterEnds ==
  /\ waiter = "waiting"
  /\ \/ verified /\ waiter' = "ok"
     \/ waiter' = "late"
  /\ UNCHANGED <<account, pc, status, stopped, tries, reader, errReady, verified, sending, held>>

MoverEnds ==
  /\ mover = "running"
  /\ "mover" \notin sending
  /\ stopped \/ pc = "join"
  /\ mover' = "ended"
  /\ UNCHANGED <<account, pc, status, stopped, tries, conn, reader, errReady, verified, waiter,
                 sending, nav, lua>>

Stop ==
  /\ ~stopped
  /\ stopped' = TRUE
  /\ UNCHANGED <<account, pc, status, tries, reader, errReady, verified, waiter, sending, held>>

\* Where a goroutine sends packets: requests, heartbeats, pings and what the tree and Lua
\* do; answers of the handlers; movement.
Sends(g) ==
  CASE g = "run"    -> pc \in {"list", "relist", "create", "newlist", "login", "world", "engine",
                               "loop"}
    [] g = "reader" -> reader = "running"
    [] g = "mover"  -> mover = "running"

\* The server does not read and the connection is full: sendPacket keeps sendMu, or waits
\* for it.
SendBlocks(g) ==
  /\ conn = "open"
  /\ Sends(g)
  /\ g \notin sending
  /\ sending' = sending \cup {g}
  /\ UNCHANGED <<account, pc, status, stopped, tries, reader, errReady, verified, waiter, held>>

\* The server reads on, or the connection has failed.
SendReturns(g) ==
  /\ g \in sending
  /\ sending' = sending \ {g}
  /\ UNCHANGED <<account, pc, status, stopped, tries, reader, errReady, verified, waiter, held>>

\* A read or a write on a connection that has failed.  None begins then that does not
\* return.
FailedCallReturns ==
  /\ conn # "open"
  /\ ReaderEnds \/ \E g \in Goroutines : SendReturns(g)

Next ==
  \/ RunStep
  \/ ServerDrops
  \/ ReadVerify
  \/ ReaderEnds
  \/ WaiterEnds
  \/ MoverEnds
  \/ Stop
  \/ \E g \in Goroutines : SendBlocks(g) \/ SendReturns(g)

SafeSpec == Init /\ [][Next]_vars

\* Goroutines run, and every wait of Run has a timer.  A loop that sends again and again
\* looks at its stop channel between two sends, and a goroutine that waits for sendMu gets
\* it when it is free again and again, since Go's select chooses at random and its mutex
\* starves nobody: strong fairness.  A read or a write on a connection that has failed
\* returns.  Nothing obliges the server to answer, to read or to drop the connection, nor
\* anyone to stop the bot.
Fairness ==
  /\ SF_vars(RunStep)
  /\ SF_vars(MoverEnds)
  /\ WF_vars(WaiterEnds)
  /\ WF_vars(FailedCallReturns)

\* An assumption about the server, not part of Spec: a write returns at last.  It fails of
\* a server that keeps the connection and stops reading (CloseStopsTheClient in
\* PacketStream).
WritesReturn == \A g \in Goroutines : WF_vars(SendReturns(g))

Spec == SafeSpec /\ Fairness

-----------------------------------------------------------------------------
(***************************************************************************)
(* Properties                                                              *)
(***************************************************************************)

TypeOK ==
  /\ account \in {"has", "nameless", "crowded"}
  /\ pc \in {"authenticate", "connect", "list", "relist", "create", "newlist", "login", "verify",
             "world", "engine", "loop", "join", "close", "close_lua", "failed", "done"}
  /\ status \in {"connecting", "in_world", "done", "error"}
  /\ stopped \in BOOLEAN
  /\ tries \in 0..MaxAttempts
  /\ conn \in {"none", "open", "dropped", "shut"}
  /\ reader \in {"none", "running", "ended"}
  /\ errReady \in BOOLEAN
  /\ verified \in BOOLEAN
  /\ waiter \in {"none", "waiting", "ok", "late", "taken"}
  /\ sending \subseteq Goroutines
  /\ mover \in {"none", "running", "ended"}
  /\ nav \in {"none", "open", "closed"}
  /\ lua \in {"none", "open", "closed"}

\* Whatever step Run fails at, and however its loop is left: once it has ended, its
\* connection is shut, its navigator and engine are closed, its movement loop is gone.
EndedHoldsNothing ==
  Ended =>
    /\ conn \in {"none", "shut"}
    /\ nav # "open"
    /\ lua # "open"
    /\ mover # "running"

\* The movement loop never runs on a connection that Run has closed, also when it was
\* the server that ended the session.
MoverEndsFirst == mover = "running" => conn # "shut"

\* A bot reports "in_world" only after the server has verified its login, although the
\* wait for it, its timer and the reader's error race.
InWorldIsVerified == status = "in_world" => verified

\* A Run that has returned leaves no goroutine behind: those it started end after it,
\* whatever the server does.
NothingIsLeftRunning == Ended ~> reader # "running" /\ waiter # "waiting"

\* Run is what the node relies on.  Among the rest, a bot that is told to stop ends,
\* wherever its Run is, if writes return: the server may refuse, be silent or drop the
\* connection, but not keep it and stop reading.
Life == INSTANCE BotLife WITH engine <- lua, over <- Ended

ImplementsBotLife == Life!SafeSpec /\ (WritesReturn => Life!Fairness)

=============================================================================
