-------------------------- MODULE SnapshotAssembler --------------------------
(***************************************************************************)
(* SnapshotAssembler of crates/swtos-frontend/src/resource.rs.  A resource *)
(* snapshot comes as a generation of records, BEGIN, one or more for each  *)
(* process, END, each with the generation's number in one byte.  A record  *)
(* in a damaged frame is lost, a target that is rewound gives a generation *)
(* up, and may count from zero again.  What is published must be one       *)
(* generation, and all of it.                                              *)
(*                                                                         *)
(* The bodies of the records are abstracted to what they speak of, and to  *)
(* the generation they were really sent for, which the code cannot see.    *)
(***************************************************************************)
EXTENDS Naturals, Sequences, FiniteSets

CONSTANTS
  Bodies,      \* What records can speak of: processes, memory, preemption.
  GenMod,      \* The numbers of generations: 256, as they are one byte.
  MaxSent,     \* Bound on the generations sent.
  MaxLost,     \* Bound on the records lost.
  MaxRewinds   \* Bound on the times the target is rewound.

NoBody == "none"    \* BEGIN and END speak of none

ASSUME BodyAssumption  == NoBody \notin Bodies
ASSUME GenAssumption   == GenMod \in Nat \ {0}
ASSUME BoundAssumption == MaxSent \in Nat /\ MaxLost \in Nat /\ MaxRewinds \in Nat

NoSnapshot == [generation |-> GenMod, rows |-> {}]

VARIABLES
  pending,    \* SnapshotAssembler.pending
  current,    \* SnapshotAssembler.current
  (* The target. *)
  generation, \* the number of the generation it is at
  phase,      \* what it sends next: "begin", "rows" and END, or nothing
  left,       \* the rows of this generation still to be sent
  sent,       \* generations begun
  lost,       \* records lost
  rewinds,    \* times it was rewound
  (* History. *)
  tables,     \* what each generation was to speak of, by its order
  cut         \* the generations that lost a record or were given up

assembler == <<pending, current>>
target    == <<generation, phase, left, sent, rewinds, tables>>
losses    == <<lost, cut>>
vars      == <<assembler, target, losses>>

Init ==
  /\ pending = NoSnapshot /\ current = NoSnapshot
  /\ generation = GenMod - 1 /\ phase = "idle" /\ left = {} /\ sent = 0
  /\ lost = 0 /\ rewinds = 0
  /\ tables = <<>> /\ cut = {}

-----------------------------------------------------------------------------
(* SnapshotAssembler::push.                                                *)

(* Mutant: records are taken also when no BEGIN has come.                  *)
MatchesOrNone(record) == pending.generation \in {record.generation, GenMod}

Matches(record) == pending.generation = record.generation

(* Mutant: a generation that begins again keeps what it had.               *)
BegunKeeping(record) == [pending EXCEPT !.generation = record.generation]

(* Mutant: a generation is not given up for the next.                      *)
BegunOnce(record) ==
  IF pending = NoSnapshot THEN [generation |-> record.generation, rows |-> {}]
                          ELSE pending

Begun(record) == [generation |-> record.generation, rows |-> {}]

Push(record) ==
  \/ /\ record.kind = "BEGIN"
     /\ pending' = Begun(record)
     /\ UNCHANGED current
  \/ /\ record.kind = "ROW" /\ Matches(record)
     /\ pending' = [pending EXCEPT !.rows = @ \cup {<<record.of, record.about>>}]
     /\ UNCHANGED current
  \/ /\ record.kind = "END" /\ Matches(record)
     /\ current' = pending
     /\ pending' = NoSnapshot
  \/ /\ record.kind # "BEGIN" /\ ~Matches(record)
     /\ UNCHANGED assembler

-----------------------------------------------------------------------------
(* The target and the link.                                                *)

Record(kind, about) ==
  [kind |-> kind, generation |-> generation, of |-> sent, about |-> about]

(* A request is answered by the records of what there is.                  *)
BeginGeneration(table) ==
  /\ phase = "idle" /\ sent < MaxSent
  /\ phase' = "begin"
  /\ left' = table
  /\ generation' = (generation + 1) % GenMod
  /\ sent' = sent + 1
  /\ tables' = Append(tables, table)
  /\ UNCHANGED <<assembler, losses, rewinds>>

(* The records it may send now: rows come in no order, END after them.     *)
Due ==
  CASE phase = "begin" -> {Record("BEGIN", NoBody)}
    [] phase = "rows" /\ left # {} -> {Record("ROW", body) : body \in left}
    [] phase = "rows" /\ left = {} -> {Record("END", NoBody)}
    [] OTHER -> {}

Passes(record) ==
  /\ phase' = IF record.kind = "END" THEN "idle" ELSE "rows"
  /\ left' = left \ {record.about}
  /\ UNCHANGED <<generation, sent, rewinds, tables>>

SendRecord ==
  /\ \E record \in Due : Push(record) /\ Passes(record)
  /\ UNCHANGED losses

LoseRecord ==
  /\ lost < MaxLost
  /\ lost' = lost + 1
  /\ cut' = cut \cup {sent}
  /\ \E record \in Due : Passes(record)
  /\ UNCHANGED assembler

(* Whether the number survives a rewind is the target's affair.            *)
Rewind ==
  /\ rewinds < MaxRewinds
  /\ rewinds' = rewinds + 1
  /\ phase' = "idle" /\ left' = {}
  /\ generation' \in {GenMod - 1, generation}
  /\ cut' = IF phase = "idle" THEN cut ELSE cut \cup {sent}
  /\ UNCHANGED <<assembler, sent, lost, tables>>

Requests == \E table \in SUBSET Bodies : BeginGeneration(table)

Next == Requests \/ SendRecord \/ LoseRecord \/ Rewind

Spec == Init /\ [][Next]_vars

(* A snapshot is requested every 25 ticks while the link is framed, and    *)
(* the emulator runs on.                                                   *)
FairSpec == Spec /\ WF_vars(Requests) /\ WF_vars(SendRecord)

-----------------------------------------------------------------------------
(* Properties.                                                             *)

(* Every variable has its type, and what has no number has no rows.        *)
TypeOK ==
  /\ \A snapshot \in {pending, current} :
       /\ snapshot.generation \in 0..GenMod
       /\ snapshot.generation = GenMod => snapshot.rows = {}
       /\ snapshot.rows \subseteq (1..MaxSent) \X Bodies
  /\ generation \in 0..(GenMod - 1)
  /\ phase \in {"idle", "begin", "rows"} /\ left \subseteq Bodies
  /\ sent = Len(tables)
  /\ cut \subseteq 1..sent
  /\ lost \in 0..MaxLost /\ rewinds \in 0..MaxRewinds

Of(snapshot) == {row[1] : row \in snapshot.rows}

(* Snapshots are published only once a whole generation has landed.  What  *)
(* is shown of a generation that lost no record and was not given up is    *)
(* all of it, and nothing else beside it, whatever befell the others.      *)
PublishedWhole ==
  \A n \in Of(current) \ cut : current.rows = {n} \X tables[n]

Register == INSTANCE SnapshotRegister
            WITH damaged <- cut, shown <- current.rows

(* Readers of what is published may take it for a register that is written *)
(* in one step: an undamaged table replaces what was there whole, and only *)
(* while it is the newest.  A late END never brings an older one back.     *)
WritesWholeTables == Register!Spec

(* While snapshots are requested, one is published in the end.             *)
PublishedInTheEnd == <>(current # NoSnapshot)

-----------------------------------------------------------------------------
(* What the sources say and the code does not keep: TLC refutes it.        *)

(* A partial generation must never be shown: one that was given up or lost *)
(* a record is not.                                                        *)
NothingPartial == Of(current) \cap cut = {}
=============================================================================
