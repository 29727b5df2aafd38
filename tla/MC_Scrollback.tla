---------------------------- MODULE MC_Scrollback ----------------------------
(***************************************************************************)
(* TLC instances of Scrollback: three lines of scrollback, six completed,  *)
(* partial lines of up to four bytes; the page's smallest window and its   *)
(* fixed one, and panes until the smallest has no place for the grid.      *)
(***************************************************************************)
EXTENDS Scrollback
=============================================================================
