---------------------------- MODULE MC_Occupancy ----------------------------
(***************************************************************************)
(* TLC instances of Occupancy: channel 1, whose pane is there from the     *)
(* start, and channel 2, whose pane its first output opens.                *)
(***************************************************************************)
EXTENDS Occupancy
=============================================================================
