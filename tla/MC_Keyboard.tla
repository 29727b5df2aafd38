----------------------------- MODULE MC_Keyboard -----------------------------
(***************************************************************************)
(* TLC instances of Keyboard: the keys of every consumer, on a desktop     *)
(* with the channel of the shell only.                                     *)
(***************************************************************************)
EXTENDS Keyboard
=============================================================================
