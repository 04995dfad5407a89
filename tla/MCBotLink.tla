------------------------------- MODULE MCBotLink -------------------------------
(***************************************************************************)
(* Instances of BotLink for TLC.                                           *)
(***************************************************************************)
EXTENDS BotLink, TLC
=============================================================================
