----------------------------- MODULE MC_Desktop -----------------------------
(***************************************************************************)
(* TLC instances of Desktop: the three system channels, with every command *)
(* key and frames on the shell's channel, where all the system panes and   *)
(* an Application pane can come to claim the same output.                  *)
(***************************************************************************)
EXTENDS Desktop
=============================================================================
