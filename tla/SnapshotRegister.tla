-------------------------- MODULE SnapshotRegister --------------------------
(***************************************************************************)
(* What SnapshotAssembler promises to those who read what it published,    *)
(* the panes that follow their processes by it (panes.rs of                *)
(* crates/swtos-session): the published snapshot behaves as if a table was *)
(* written in one step, the newest there is and all of it.  A generation   *)
(* that lost a record or was given up is damaged.  Publishing it may show  *)
(* any part of the damaged ones, but nothing of any other.                 *)
(***************************************************************************)
EXTENDS Naturals, Sequences

CONSTANT Bodies     \* What a table can speak of.

VARIABLES
  tables,   \* the tables the target was asked for, in order
  damaged,  \* the tables of which something was lost
  shown     \* the rows published last, each with its table's number

vars == <<tables, damaged, shown>>

Init == tables = <<>> /\ damaged = {} /\ shown = {}

Newest == Len(tables)

Ask(table) ==
  /\ tables' = Append(tables, table)
  /\ UNCHANGED <<damaged, shown>>

Damage ==
  /\ Newest > 0
  /\ damaged' = damaged \cup {Newest}
  /\ UNCHANGED <<tables, shown>>

Publish ==
  /\ Newest > 0
  /\ IF Newest \in damaged THEN shown' \subseteq damaged \X Bodies
                           ELSE shown' = {Newest} \X tables[Newest]
  /\ UNCHANGED <<tables, damaged>>

Next == (\E table \in SUBSET Bodies : Ask(table)) \/ Damage \/ Publish

Spec == Init /\ [][Next]_vars
=============================================================================
