----------------------- MODULE SnapshotAssemblerProofs -----------------------
(***************************************************************************)
(* What is published of a generation that lost no record and was not given *)
(* up is all of it and nothing else, for any numbers of processes, of      *)
(* generations, of losses and of rewinds.                                  *)
(*                                                                         *)
(* The invariant follows the generation being sent: as long as nothing of  *)
(* it is lost, what is pending is exactly what has been sent of it.  Rows  *)
(* of other generations may be pending or published beside a damaged one,  *)
(* but only rows of damaged ones.                                          *)
(***************************************************************************)
EXTENDS SnapshotAssembler, TLAPS

Target ==
  /\ phase \in {"idle", "begin", "rows"} /\ generation \in Nat
  /\ sent \in Nat /\ tables \in Seq(SUBSET Bodies) /\ sent = Len(tables)
  /\ phase # "idle" => sent \in 1..Len(tables) /\ left \subseteq tables[sent]
  /\ phase = "begin" => left = tables[sent]

Snapshots == [generation : Nat, rows : SUBSET (Nat \X Bodies)]

(* What is pending of a generation that is being sent, and of others.      *)
PendingIsSent ==
  phase = "rows" /\ sent \notin cut =>
    /\ pending.generation = generation
    /\ pending.rows = {sent} \X (tables[sent] \ left)

PendingIsCut == \A n \in Of(pending) \ cut : phase = "rows" /\ n = sent

CurrentIsWhole ==
  \A n \in Of(current) \ cut : n \in 1..Len(tables) /\ current.rows = {n} \X tables[n]

WholeIInv ==
  /\ Target
  /\ pending \in Snapshots
  /\ PendingIsSent
  /\ PendingIsCut
  /\ CurrentIsWhole

(* A generation that begins leaves the tables of the others alone.         *)
LEMMA BeginningStep ==
  ASSUME WholeIInv, NEW table \in SUBSET Bodies, BeginGeneration(table)
  PROVE  WholeIInv'
<1>1. /\ phase = "idle" /\ phase' = "begin" /\ left' = table /\ sent' = sent + 1
      /\ tables' = Append(tables, table) /\ cut' = cut
      /\ pending' = pending /\ current' = current
      /\ generation' = (generation + 1) % GenMod
  BY DEF BeginGeneration, assembler, losses
<1>2. /\ tables' \in Seq(SUBSET Bodies) /\ Len(tables') = Len(tables) + 1
      /\ tables'[sent + 1] = table
      /\ \A n \in 1..Len(tables) : tables'[n] = tables[n]
  BY <1>1 DEF WholeIInv, Target
<1>3. generation' \in Nat
  BY <1>1, GenAssumption DEF WholeIInv, Target
<1>4. Target'
  BY <1>1, <1>2, <1>3 DEF WholeIInv, Target
<1>5. PendingIsSent'
  BY <1>1 DEF PendingIsSent
<1>6. PendingIsCut'
  BY <1>1 DEF WholeIInv, PendingIsCut, Of
<1>7. CurrentIsWhole'
  <2> SUFFICES ASSUME NEW n \in Of(current) \ cut
               PROVE  n \in 1..Len(tables') /\ current.rows = {n} \X tables'[n]
    BY <1>1 DEF CurrentIsWhole, Of
  <2>1. n \in 1..Len(tables) /\ current.rows = {n} \X tables[n]
    BY DEF WholeIInv, CurrentIsWhole
  <2> QED
    BY <1>2, <2>1 DEF WholeIInv, Target
<1> QED
  BY <1>1, <1>4, <1>5, <1>6, <1>7 DEF WholeIInv

(* BEGIN discards what was pending, whatever it was.                       *)
LEMMA BeginStep ==
  ASSUME WholeIInv, phase = "begin", SendRecord
  PROVE  WholeIInv'
<1>1. PICK record \in Due : Push(record) /\ Passes(record)
  BY DEF SendRecord
<1>2. /\ sent' = sent /\ tables' = tables /\ generation' = generation
      /\ cut' = cut
  BY <1>1 DEF Passes, SendRecord, losses
<1>3. record = Record("BEGIN", NoBody)
  BY <1>1 DEF Due
<1>4. phase' = "rows" /\ left' = left
  <2>1. NoBody \notin left
    BY BodyAssumption DEF WholeIInv, Target
  <2> QED
    BY <1>1, <1>3, <2>1 DEF Passes, Record
<1>5. pending' = [generation |-> generation, rows |-> {}] /\ current' = current
  BY <1>1, <1>3 DEF Push, Begun, Record
<1>6. tables[sent] \ left = {}
  BY DEF WholeIInv, Target
<1>7. Target' /\ pending' \in Snapshots /\ PendingIsSent'
  BY <1>2, <1>4, <1>5, <1>6 DEF WholeIInv, Target, Snapshots, PendingIsSent
<1>8. PendingIsCut' /\ CurrentIsWhole'
  BY <1>2, <1>5 DEF WholeIInv, PendingIsCut, CurrentIsWhole, Of
<1> QED
  BY <1>7, <1>8 DEF WholeIInv

(* A row is added to what is pending, or is of a damaged generation.       *)
LEMMA RowStep ==
  ASSUME WholeIInv, phase = "rows", left # {}, SendRecord
  PROVE  WholeIInv'
<1>1. PICK record \in Due : Push(record) /\ Passes(record)
  BY DEF SendRecord
<1>2. /\ sent' = sent /\ tables' = tables /\ generation' = generation
      /\ cut' = cut
  BY <1>1 DEF Passes, SendRecord, losses
<1>3. PICK body \in left : record = Record("ROW", body)
  BY <1>1 DEF Due
<1>4. phase' = "rows" /\ left' = left \ {body}
  BY <1>1, <1>3 DEF Passes, Record
<1>5. body \in Bodies /\ body \in tables[sent]
  BY <1>3 DEF WholeIInv, Target
<1>6. current' = current
  BY <1>1, <1>3 DEF Push, Record, assembler
<1>7. Target' /\ CurrentIsWhole'
  BY <1>2, <1>4, <1>6 DEF WholeIInv, Target, CurrentIsWhole, Of
<1>8. CASE Matches(record)
  <2>1. pending' = [pending EXCEPT !.rows = @ \cup {<<sent, body>>}]
    BY <1>1, <1>3, <1>8 DEF Push, Record, assembler
  <2>2. /\ pending' \in Snapshots
        /\ pending'.generation = pending.generation
        /\ pending'.rows = pending.rows \cup {<<sent, body>>}
    BY <2>1, <1>5 DEF WholeIInv, Target, Snapshots
  <2>3. PendingIsSent'
    BY <1>2, <1>4, <1>3, <1>5, <2>2 DEF WholeIInv, PendingIsSent
  <2>4. \A n \in Of(pending') : n \in Of(pending) \/ n = sent
    BY <2>2 DEF Of
  <2>5. PendingIsCut'
    BY <1>2, <1>4, <2>4 DEF WholeIInv, PendingIsCut, Of
  <2> QED
    BY <1>7, <2>2, <2>3, <2>5 DEF WholeIInv
<1>9. CASE ~Matches(record)
  <2>1. pending' = pending
    BY <1>1, <1>3, <1>9 DEF Push, Record, assembler
  <2>2. sent \in cut
    BY <1>3, <1>9 DEF Matches, Record, WholeIInv, PendingIsSent
  <2>3. PendingIsSent' /\ PendingIsCut'
    BY <1>2, <1>4, <2>1, <2>2 DEF WholeIInv, PendingIsSent, PendingIsCut, Of
  <2> QED
    BY <1>7, <2>1, <2>3 DEF WholeIInv
<1> QED
  BY <1>8, <1>9

(* END publishes what is pending, all that was sent if nothing was lost.   *)
LEMMA EndStep ==
  ASSUME WholeIInv, phase = "rows", left = {}, SendRecord
  PROVE  WholeIInv'
<1>1. PICK record \in Due : Push(record) /\ Passes(record)
  BY DEF SendRecord
<1>2. /\ sent' = sent /\ tables' = tables /\ generation' = generation
      /\ cut' = cut
  BY <1>1 DEF Passes, SendRecord, losses
<1>3. record = Record("END", NoBody)
  BY <1>1 DEF Due
<1>4. phase' = "idle"
  BY <1>1, <1>3 DEF Passes, Record
<1>5. Target' /\ PendingIsSent'
  BY <1>2, <1>4 DEF WholeIInv, Target, PendingIsSent
<1>6. CASE Matches(record)
  <2>1. current' = pending /\ pending' = NoSnapshot
    BY <1>1, <1>3, <1>6 DEF Push, Record, assembler
  <2>2. pending' \in Snapshots /\ PendingIsCut'
    BY <2>1, GenAssumption DEF NoSnapshot, Snapshots, PendingIsCut, Of
  <2>3. CurrentIsWhole'
    <3> SUFFICES ASSUME NEW n \in Of(pending) \ cut
                 PROVE  n \in 1..Len(tables) /\ pending.rows = {n} \X tables[n]
      BY <1>2, <2>1 DEF CurrentIsWhole, Of
    <3>1. n = sent
      BY DEF WholeIInv, PendingIsCut
    <3>2. pending.rows = {sent} \X tables[sent] /\ sent \in 1..Len(tables)
      BY <3>1 DEF WholeIInv, Target, PendingIsSent
    <3> QED
      BY <3>1, <3>2
  <2> QED
    BY <1>5, <2>2, <2>3 DEF WholeIInv
<1>7. CASE ~Matches(record)
  <2>1. current' = current /\ pending' = pending
    BY <1>1, <1>3, <1>7 DEF Push, Record, assembler
  <2>2. sent \in cut
    BY <1>3, <1>7 DEF Matches, Record, WholeIInv, PendingIsSent
  <2>3. PendingIsCut' /\ CurrentIsWhole'
    BY <1>2, <2>1, <2>2 DEF WholeIInv, PendingIsCut, CurrentIsWhole, Of
  <2> QED
    BY <1>5, <2>1, <2>3 DEF WholeIInv
<1> QED
  BY <1>6, <1>7

(* A generation that loses a record is damaged from then on.               *)
LEMMA LosingStep ==
  ASSUME WholeIInv, LoseRecord
  PROVE  WholeIInv'
<1>1. PICK record \in Due : Passes(record)
  BY DEF LoseRecord
<1>2. /\ sent' = sent /\ tables' = tables /\ generation' = generation
      /\ left' \subseteq left /\ phase' \in {"rows", "idle"}
      /\ cut' = cut \cup {sent} /\ pending' = pending /\ current' = current
  BY <1>1 DEF Passes, LoseRecord, assembler
<1>3. phase # "idle"
  BY <1>1 DEF Due
<1>4. Target'
  BY <1>2, <1>3 DEF WholeIInv, Target
<1>5. PendingIsSent' /\ PendingIsCut' /\ CurrentIsWhole'
  BY <1>2 DEF WholeIInv, PendingIsSent, PendingIsCut, CurrentIsWhole, Of
<1> QED
  BY <1>2, <1>4, <1>5 DEF WholeIInv

(* A generation that is given up is damaged, its number used again or not. *)
LEMMA RewindStep ==
  ASSUME WholeIInv, Rewind
  PROVE  WholeIInv'
<1>1. /\ sent' = sent /\ tables' = tables /\ phase' = "idle"
      /\ pending' = pending /\ current' = current
      /\ cut' = IF phase = "idle" THEN cut ELSE cut \cup {sent}
  BY DEF Rewind, assembler
<1>2. generation' \in Nat
  BY GenAssumption DEF Rewind, WholeIInv, Target
<1>3. Target' /\ PendingIsSent'
  BY <1>1, <1>2 DEF WholeIInv, Target, PendingIsSent
<1>4. PendingIsCut' /\ CurrentIsWhole'
  BY <1>1 DEF WholeIInv, PendingIsCut, CurrentIsWhole, Of
<1> QED
  BY <1>1, <1>3, <1>4 DEF WholeIInv

LEMMA WholeStep ==
  ASSUME WholeIInv, [Next]_vars
  PROVE  WholeIInv'
<1>1. CASE Requests
  BY <1>1, BeginningStep DEF Requests
<1>2. CASE SendRecord
  <2>1. phase \in {"begin", "rows"}
    BY <1>2 DEF SendRecord, Due, WholeIInv, Target
  <2> QED
    BY <1>2, <2>1, BeginStep, RowStep, EndStep
<1>3. CASE LoseRecord
  BY <1>3, LosingStep
<1>4. CASE Rewind
  BY <1>4, RewindStep
<1>5. CASE UNCHANGED vars
  BY <1>5 DEF vars, assembler, target, losses, WholeIInv, Target, PendingIsSent,
              PendingIsCut, CurrentIsWhole, Of
<1> QED
  BY <1>1, <1>2, <1>3, <1>4, <1>5 DEF Next

(* Only whole generations are published: what is shown of one that lost no *)
(* record and was not given up is all that the target sent of it, alone,   *)
(* whatever was lost of the others and however numbers come back.          *)
THEOREM PublishedAreWhole == Spec => []PublishedWhole
<1>1. Init => WholeIInv
  BY GenAssumption DEF Init, NoSnapshot, WholeIInv, Target, Snapshots, PendingIsSent,
                       PendingIsCut, CurrentIsWhole, Of
<1>2. WholeIInv /\ [Next]_vars => WholeIInv'
  BY WholeStep
<1>3. WholeIInv => PublishedWhole
  BY DEF WholeIInv, CurrentIsWhole, PublishedWhole
<1> QED
  BY <1>1, <1>2, <1>3, PTL DEF Spec

-----------------------------------------------------------------------------
(* The refinement: END publishes in the register, a loss damages it, and   *)
(* every other step of the assembler is one that it does not see.          *)

(* END, with the number of what is pending.                                *)
LEMMA PublishingStep ==
  ASSUME WholeIInv, phase = "rows", left = {}, current' = pending,
         tables' = tables, cut' = cut
  PROVE  Register!Publish
<1>1. sent = Len(tables) /\ sent > 0
  BY DEF WholeIInv, Target
<1>2. CASE sent \in cut
  <2>1. \A row \in pending.rows : row \in cut \X Bodies
    <3> SUFFICES ASSUME NEW row \in pending.rows
                 PROVE  row \in cut \X Bodies
      OBVIOUS
    <3>1. row \in Nat \X Bodies /\ row[1] \in Of(pending)
      BY DEF WholeIInv, Snapshots, Of
    <3>2. row[1] \in cut
      BY <1>2, <3>1 DEF WholeIInv, PendingIsCut
    <3> QED
      BY <3>1, <3>2
  <2> QED
    BY <1>1, <1>2, <2>1 DEF Register!Publish, Register!Newest
<1>3. CASE sent \notin cut
  <2>1. pending.rows = {sent} \X tables[sent]
    BY <1>3 DEF WholeIInv, PendingIsSent
  <2> QED
    BY <1>1, <1>3, <2>1 DEF Register!Publish, Register!Newest
<1> QED
  BY <1>2, <1>3

LEMMA RegisterStep ==
  ASSUME WholeIInv, [Next]_vars
  PROVE  [Register!Next]_(Register!vars)
<1> USE DEF Register!vars
<1>1. CASE Requests
  <2>1. PICK table \in SUBSET Bodies : BeginGeneration(table)
    BY <1>1 DEF Requests
  <2>2. Register!Ask(table)
    BY <2>1 DEF BeginGeneration, assembler, losses, Register!Ask
  <2> QED
    BY <2>2 DEF Register!Next
<1>2. CASE SendRecord
  <2>1. PICK record \in Due : Push(record) /\ Passes(record)
    BY <1>2 DEF SendRecord
  <2>2. tables' = tables /\ cut' = cut
    BY <1>2, <2>1 DEF SendRecord, Passes, losses
  <2>3. CASE current' = current
    BY <2>2, <2>3
  <2>4. CASE current' # current
    <3>1. record.kind = "END" /\ current' = pending
      BY <2>1, <2>4 DEF Push, assembler
    <3>2. phase = "rows" /\ left = {}
      BY <3>1 DEF Due, Record
    <3> QED
      BY <2>2, <3>1, <3>2, PublishingStep DEF Register!Next
  <2> QED
    BY <2>3, <2>4
<1>3. CASE LoseRecord
  <2>1. phase # "idle"
    BY <1>3 DEF LoseRecord, Due
  <2>2. sent = Len(tables) /\ sent > 0
    BY <2>1 DEF WholeIInv, Target
  <2>3. tables' = tables /\ current' = current /\ cut' = cut \cup {sent}
    BY <1>3 DEF LoseRecord, Passes, assembler
  <2> QED
    BY <2>2, <2>3 DEF Register!Next, Register!Damage, Register!Newest
<1>4. CASE Rewind
  <2>1. /\ tables' = tables /\ current' = current
        /\ cut' = IF phase = "idle" THEN cut ELSE cut \cup {sent}
    BY <1>4 DEF Rewind, assembler
  <2>2. phase # "idle" => sent = Len(tables) /\ sent > 0
    BY DEF WholeIInv, Target
  <2> QED
    BY <2>1, <2>2 DEF Register!Next, Register!Damage, Register!Newest
<1>5. CASE UNCHANGED vars
  BY <1>5 DEF vars, assembler, target, losses
<1> QED
  BY <1>1, <1>2, <1>3, <1>4, <1>5 DEF Next

(* Whoever reads what is published may take the assembler, the link that   *)
(* loses records and the target that is rewound for one register written   *)
(* in one step with the newest table.                                      *)
THEOREM RegisterImplemented == Spec => WritesWholeTables
<1>1. Init => WholeIInv
  BY GenAssumption DEF Init, NoSnapshot, WholeIInv, Target, Snapshots, PendingIsSent,
                       PendingIsCut, CurrentIsWhole, Of
<1>2. WholeIInv /\ [Next]_vars => WholeIInv'
  BY WholeStep
<1>3. Init => Register!Init
  BY DEF Init, NoSnapshot, Register!Init
<1>4. WholeIInv /\ [Next]_vars => [Register!Next]_(Register!vars)
  BY RegisterStep
<1> QED
  BY <1>1, <1>2, <1>3, <1>4, PTL DEF Spec, WritesWholeTables, Register!Spec
-----------------------------------------------------------------------------
(* Types.  A number without a generation has no rows because no record has *)
(* that number; a generation that loses a record has been begun.           *)

Typed(snapshot) ==
  /\ snapshot.generation \in 0..GenMod
  /\ snapshot.generation = GenMod => snapshot.rows = {}
  /\ \A row \in snapshot.rows : row \in (1..MaxSent) \X Bodies

TargetTyped ==
  /\ generation \in 0..(GenMod - 1)
  /\ phase \in {"idle", "begin", "rows"} /\ left \subseteq Bodies
  /\ sent = Len(tables) /\ sent <= MaxSent
  /\ \A n \in cut : n \in 1..sent
  /\ lost \in 0..MaxLost /\ rewinds \in 0..MaxRewinds

TypeIInv == Typed(pending) /\ Typed(current) /\ TargetTyped

LEMMA TypeStep ==
  ASSUME WholeIInv, TypeIInv, [Next]_vars
  PROVE  TypeIInv'
<1> USE GenAssumption, BoundAssumption
<1>0. sent \in Nat /\ (phase # "idle" => sent \in 1..MaxSent)
  BY DEF WholeIInv, Target, TypeIInv, TargetTyped
<1>1. CASE Requests
  <2>1. PICK table \in SUBSET Bodies : BeginGeneration(table)
    BY <1>1 DEF Requests
  <2>2. /\ phase' = "begin" /\ left' = table /\ sent' = sent + 1 /\ sent < MaxSent
        /\ cut' = cut /\ lost' = lost /\ rewinds' = rewinds
        /\ pending' = pending /\ current' = current
        /\ generation' = (generation + 1) % GenMod
    BY <2>1 DEF BeginGeneration, assembler, losses
  <2>3. Len(tables') = Len(tables) + 1
    BY <2>1 DEF BeginGeneration, WholeIInv, Target
  <2>4. generation' \in 0..(GenMod - 1)
    BY <2>2 DEF TypeIInv, TargetTyped
  <2> QED
    BY <1>0, <2>2, <2>3, <2>4 DEF TypeIInv, TargetTyped
<1>2. CASE SendRecord
  <2>1. PICK record \in Due : Push(record) /\ Passes(record)
    BY <1>2 DEF SendRecord
  <2>2. /\ sent' = sent /\ tables' = tables /\ generation' = generation
        /\ rewinds' = rewinds /\ lost' = lost /\ cut' = cut
        /\ left' \subseteq left /\ phase' \in {"idle", "rows"}
    BY <1>2, <2>1 DEF SendRecord, Passes, losses
  <2>3. /\ record.generation = generation /\ record.of = sent /\ phase # "idle"
        /\ record.kind = "ROW" => record.about \in Bodies
    BY <2>1 DEF Due, Record, TypeIInv, TargetTyped
  <2>4. Typed(pending') /\ Typed(current')
    <3>1. CASE record.kind = "BEGIN"
      BY <2>1, <2>3, <3>1 DEF Push, Begun, TypeIInv, TargetTyped, Typed
    <3>2. CASE record.kind = "ROW" /\ Matches(record)
      <4>1. /\ pending' = [pending EXCEPT !.rows = @ \cup {<<sent, record.about>>}]
            /\ current' = current
        BY <2>1, <2>3, <3>2 DEF Push, assembler
      <4>2. /\ pending'.generation = pending.generation
            /\ pending'.rows = pending.rows \cup {<<sent, record.about>>}
        BY <4>1 DEF WholeIInv, Snapshots
      <4>3. pending.generation = generation
        BY <2>3, <3>2 DEF Matches
      <4>4. <<sent, record.about>> \in (1..MaxSent) \X Bodies
        BY <1>0, <2>3, <3>2
      <4> QED
        BY <4>1, <4>2, <4>3, <4>4 DEF TypeIInv, TargetTyped, Typed
    <3>3. CASE record.kind = "END" /\ Matches(record)
      BY <2>1, <3>3 DEF Push, NoSnapshot, TypeIInv, Typed
    <3>4. CASE record.kind # "BEGIN" /\ ~Matches(record)
      BY <2>1, <3>4 DEF Push, assembler, TypeIInv
    <3> QED
      BY <2>1, <3>1, <3>2, <3>3, <3>4 DEF Push
  <2> QED
    BY <2>2, <2>4 DEF TypeIInv, TargetTyped
<1>3. CASE LoseRecord
  <2>1. PICK record \in Due : Passes(record)
    BY <1>3 DEF LoseRecord
  <2>2. /\ sent' = sent /\ tables' = tables /\ generation' = generation
        /\ rewinds' = rewinds /\ lost' = lost + 1 /\ lost < MaxLost
        /\ cut' = cut \cup {sent} /\ pending' = pending /\ current' = current
        /\ left' \subseteq left /\ phase' \in {"idle", "rows"}
    BY <1>3, <2>1 DEF LoseRecord, Passes, assembler
  <2>3. phase # "idle"
    BY <2>1 DEF Due
  <2> QED
    BY <1>0, <2>2, <2>3 DEF TypeIInv, TargetTyped
<1>4. CASE Rewind
  <2>1. /\ sent' = sent /\ tables' = tables /\ phase' = "idle" /\ left' = {}
        /\ pending' = pending /\ current' = current /\ lost' = lost
        /\ rewinds' = rewinds + 1 /\ rewinds < MaxRewinds
        /\ generation' \in {GenMod - 1, generation}
        /\ cut' = IF phase = "idle" THEN cut ELSE cut \cup {sent}
    BY <1>4 DEF Rewind, assembler
  <2> QED
    BY <1>0, <2>1 DEF TypeIInv, TargetTyped
<1>5. CASE UNCHANGED vars
  BY <1>5 DEF vars, assembler, target, losses, TypeIInv, TargetTyped
<1> QED
  BY <1>1, <1>2, <1>3, <1>4, <1>5 DEF Next

(* Every variable keeps its type, and what has no number never has a row,  *)
(* although rows are added to whatever is pending under a number that      *)
(* comes back.                                                             *)
THEOREM TypeCorrect == Spec => []TypeOK
<1>1. Init => WholeIInv
  BY GenAssumption DEF Init, NoSnapshot, WholeIInv, Target, Snapshots, PendingIsSent,
                       PendingIsCut, CurrentIsWhole, Of
<1>2. Init => TypeIInv
  BY GenAssumption, BoundAssumption DEF Init, NoSnapshot, TypeIInv, TargetTyped, Typed
<1>3. WholeIInv /\ [Next]_vars => WholeIInv'
  BY WholeStep
<1>4. WholeIInv /\ TypeIInv /\ [Next]_vars => TypeIInv'
  BY TypeStep
<1>5. TypeIInv => TypeOK
  BY DEF TypeIInv, TargetTyped, Typed, TypeOK
<1> QED
  BY <1>1, <1>2, <1>3, <1>4, <1>5, PTL DEF Spec
=============================================================================
