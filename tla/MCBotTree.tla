------------------------------ MODULE MCBotTree ------------------------------
(* The modes of a bot, and the seconds at a corpse scaled down. *)
EXTENDS BotTree
==============================================================================
