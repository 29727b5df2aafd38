--------------------------- MODULE MC_Negotiation ---------------------------
(***************************************************************************)
(* TLC instances of Negotiation, with the retry interval scaled down from  *)
(* 25 ticks and the wrap of the tick from 2^32.                            *)
(***************************************************************************)
EXTENDS Negotiation
=============================================================================
