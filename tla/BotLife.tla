------------------------------- MODULE BotLife -------------------------------
(***************************************************************************)
(* What a node relies on when it holds a bot (bot.Bot): it ends, at once   *)
(* or after its Lua engine has been open for a while; the engine is open   *)
(* at most once and never after the end; and a bot that is told to stop    *)
(* does end.  BotRun shows that Bot.Run keeps this promise, the last part  *)
(* of it as long as writes return.  BotNode is built on the safety part.   *)
(***************************************************************************)
VARIABLES
  engine,   \* b.lua: none, open, closed
  over,     \* Run has returned
  stopped   \* b.stopCh is closed

lifeVars == <<engine, over, stopped>>

Init ==
  /\ engine = "none"
  /\ over = FALSE
  /\ stopped = FALSE

\* Authentication, connection, character or login failed.
EndUnopened ==
  /\ engine = "none"
  /\ ~over
  /\ over' = TRUE
  /\ UNCHANGED <<engine, stopped>>

Open ==
  /\ engine = "none"
  /\ ~over
  /\ engine' = "open"
  /\ UNCHANGED <<over, stopped>>

Finish ==
  /\ engine = "open"
  /\ engine' = "closed"
  /\ over' = TRUE
  /\ UNCHANGED stopped

Progress == EndUnopened \/ Open \/ Finish

\* Anyone, at any time, once.
Stop ==
  /\ ~stopped
  /\ stopped' = TRUE
  /\ UNCHANGED <<engine, over>>

Next == Progress \/ Stop

SafeSpec == Init /\ [][Next]_lifeVars

Fairness == WF_lifeVars(stopped /\ Progress)

Spec == SafeSpec /\ Fairness

=============================================================================
