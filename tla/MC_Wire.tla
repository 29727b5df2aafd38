------------------------------- MODULE MC_Wire -------------------------------
(***************************************************************************)
(* TLC instances of Wire.                                                  *)
(***************************************************************************)
EXTENDS Wire

(* One line, longer than one frame carries.                                *)
Line == {<<97, 98, 10>>}
=============================================================================
