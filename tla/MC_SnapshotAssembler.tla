------------------------ MODULE MC_SnapshotAssembler ------------------------
(***************************************************************************)
(* TLC instances of SnapshotAssembler: four generations of up to two rows, *)
(* numbered with three numbers so that they wrap.                          *)
(***************************************************************************)
EXTENDS SnapshotAssembler
=============================================================================
