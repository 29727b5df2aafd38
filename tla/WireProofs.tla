------------------------------ MODULE WireProofs ------------------------------
(***************************************************************************)
(* Proofs about both directions of the line: about Wire, which carries     *)
(* bytes to the target, for every text, clock, payload, ring and number of *)
(* turns, and about StreamDecoder, which makes frames of the bytes that    *)
(* come back, whatever they are and however they are cut up.               *)
(***************************************************************************)
EXTENDS Wire, StreamDecoder, FiniteSetTheorems, SequenceTheorems, WellFoundedInduction, TLAPS

-----------------------------------------------------------------------------
(* Recursion.                                                              *)

(* Induction over the natural numbers, as a least element: the initial     *)
(* segments are finite, so the one below the others is minimal.            *)
LEMMA LeastNumber ==
  ASSUME NEW T \in SUBSET Nat, T # {}
  PROVE  \E n \in T : \A m \in T : n <= m
<1> DEFINE Upto(n) == 1..n
           Initial == {Upto(n) : n \in T}
<1>1. PICK X \in Initial : \A Y \in Initial : <<Y, X>> \notin StrictSubsetOrdering(Nat)
  <2>1. Initial \subseteq FiniteSubsetsOf(Nat)
    <3> SUFFICES ASSUME NEW n \in T
                 PROVE  1..n \subseteq Nat /\ IsFiniteSet(1..n)
      BY DEF FiniteSubsetsOf
    <3> QED
      BY FS_Interval
  <2>2. Initial # {}
    OBVIOUS
  <2> QED
    BY <2>1, <2>2, FS_StrictSubsetOrderingWellFounded, WFMin
<1>2. PICK n \in T : X = 1..n
  OBVIOUS
<1>3. ASSUME NEW m \in T, m < n
      PROVE  FALSE
  <2>1. 1..m \subseteq 1..n /\ n \in 1..n /\ n \notin 1..m
    BY <1>3
  <2>2. <<1..m, 1..n>> \in StrictSubsetOrdering(Nat)
    BY <2>1 DEF StrictSubsetOrdering
  <2> QED
    BY <1>1, <1>2, <2>2
<1> QED
  BY <1>3

(* What a recursive function over 0..n computes exists, and is one value.  *)
Iterates(f, n, base, step) ==
  f[0] = base /\ \A k \in 1..n : f[k] = step[k][f[k - 1]]

LEMMA IterationExists ==
  ASSUME NEW n \in Nat, NEW V, NEW base \in V, NEW step \in [1..n -> [V -> V]]
  PROVE  \E f \in [0..n -> V] : Iterates(f, n, base, step)
<1> DEFINE Goes(m) == \E f \in [0..m -> V] : Iterates(f, m, base, step)
           wrong == {m \in 0..n : ~Goes(m)}
<1>1. ASSUME wrong # {}
      PROVE  FALSE
  <2>1. PICK m \in wrong : \A j \in wrong : m <= j
    <3> HIDE DEF wrong
    <3>1. wrong \in SUBSET Nat
      BY DEF wrong
    <3> QED
      BY <1>1, <3>1, LeastNumber
  <2>2. m \in 0..n /\ ~Goes(m)
    BY <2>1
  <2>3. m # 0
    <3>1. [k \in 0..0 |-> base] \in [0..0 -> V] /\ Iterates([k \in 0..0 |-> base], 0, base, step)
      BY DEF Iterates
    <3> QED
      BY <2>2, <3>1
  <2> DEFINE j == m - 1
  <2>4. j \in 0..n /\ ~(m <= j) /\ m \in 1..n /\ m \in Nat /\ j \in Nat
    BY <2>2, <2>3
  <2>5. Goes(j)
    <3> HIDE DEF Goes, j
    <3> QED
      BY <2>1, <2>4
  <2>6. PICK f \in [0..j -> V] : Iterates(f, j, base, step)
    BY <2>5
  <2> DEFINE g == [k \in 0..m |-> IF k = m THEN step[m][f[j]] ELSE f[k]]
  <2>7. step[m][f[j]] \in V
    BY <2>4, <2>6
  <2>8. \A k \in 0..m : k # m => k \in 0..j
    BY <2>4
  <2>9. g \in [0..m -> V]
    BY <2>6, <2>7, <2>8
  <2>10. Iterates(g, m, base, step)
    <3>1. g[0] = base
      BY <2>4, <2>6 DEF Iterates
    <3>2. ASSUME NEW k \in 1..m
          PROVE  g[k] = step[k][g[k - 1]]
      <4>1. CASE k = m
        BY <2>4, <4>1
      <4>2. CASE k # m
        <5>1. k \in 1..j /\ k \in 0..m /\ k - 1 \in 0..m /\ k - 1 # m
          BY <2>4, <4>2
        <5>2. f[k] = step[k][f[k - 1]]
          BY <2>6, <5>1 DEF Iterates
        <5> QED
          BY <4>2, <5>1, <5>2
      <4> QED
        BY <4>1, <4>2
    <3> QED
      BY <3>1, <3>2 DEF Iterates
  <2> QED
    BY <2>2, <2>9, <2>10
<1>2. n \in 0..n
  OBVIOUS
<1> QED
  BY <1>1, <1>2

(* Two sequences of values that begin alike and go on alike are the same.  *)
LEMMA Agree ==
  ASSUME NEW n \in Nat, NEW f, NEW g, f[0] = g[0],
         \A k \in 1..n : f[k - 1] = g[k - 1] => f[k] = g[k]
  PROVE  f[n] = g[n]
<1> DEFINE wrong == {m \in 0..n : f[m] # g[m]}
<1>1. ASSUME wrong # {}
      PROVE  FALSE
  <2>1. PICK m \in wrong : \A j \in wrong : m <= j
    <3> HIDE DEF wrong
    <3>1. wrong \in SUBSET Nat
      BY DEF wrong
    <3> QED
      BY <1>1, <3>1, LeastNumber
  <2>2. m \in 0..n /\ f[m] # g[m] /\ m # 0
    BY <2>1
  <2>3. m - 1 \in 0..n /\ ~(m <= m - 1) /\ m \in 1..n
    BY <2>2
  <2> QED
    BY <2>1, <2>2, <2>3
<1>2. n \in 0..n
  OBVIOUS
<1> QED
  BY <1>1, <1>2

-----------------------------------------------------------------------------
(* FlattenSeq.                                                             *)

Joins(f, seqs) == f[0] = <<>> /\ \A k \in 1..Len(seqs) : f[k] = f[k - 1] \o seqs[k]

LEMMA Members ==
  ASSUME NEW S, NEW s \in Seq(S)
  PROVE  /\ Len(s) \in Nat /\ DOMAIN s = 1..Len(s)
         /\ \A k \in 1..Len(s) : s[k] \in S
  OBVIOUS

LEMMA FunctionIsSequence ==
  ASSUME NEW n \in Nat, NEW S, NEW f \in [1..n -> S]
  PROVE  f \in Seq(S)
  OBVIOUS

LEMMA Applied ==
  ASSUME NEW D, NEW V, NEW f \in [D -> V], NEW x \in D
  PROVE  f[x] \in V
  OBVIOUS

LEMMA JoinExists ==
  ASSUME NEW R, NEW seqs \in Seq(Seq(R))
  PROVE  \E f \in [0..Len(seqs) -> Seq(R)] : Joins(f, seqs)
<1> DEFINE n == Len(seqs)
           step == [k \in 1..n |-> [before \in Seq(R) |-> before \o seqs[k]]]
<1>1. n \in Nat /\ <<>> \in Seq(R) /\ \A k \in 1..n : seqs[k] \in Seq(R)
  BY Members
<1>2. step \in [1..n -> [Seq(R) -> Seq(R)]]
  BY <1>1
<1>3. PICK f \in [0..n -> Seq(R)] : Iterates(f, n, <<>>, step)
  <2> HIDE DEF n, step
  <2> QED
    BY <1>1, <1>2, IterationExists
<1>4. ASSUME NEW k \in 1..n
      PROVE  f[k] = f[k - 1] \o seqs[k]
  <2>1. k - 1 \in 0..n
    BY <1>1
  <2>2. f[k - 1] \in Seq(R)
    <3> HIDE DEF n
    <3> QED
      BY <1>3, <2>1, Applied
  <2>3. f[k] = step[k][f[k - 1]]
    BY <1>3 DEF Iterates
  <2> QED
    BY <2>2, <2>3
<1> QED
  BY <1>3, <1>4 DEF Joins, Iterates

LEMMA FlattenJoins ==
  ASSUME NEW R, NEW seqs \in Seq(Seq(R)), NEW f \in [0..Len(seqs) -> Seq(R)], Joins(f, seqs)
  PROVE  FlattenSeq(seqs) = f[Len(seqs)]
<1> DEFINE n == Len(seqs)
           Flat(h) == [i \in 1..n |-> IF i = 1 THEN seqs[i] ELSE h[i - 1] \o seqs[i]]
           flat == CHOOSE h : h = Flat(h)
           closed == [i \in 1..n |-> f[i]]
           g == [i \in 0..n |-> IF i = 0 THEN <<>> ELSE flat[i]]
<1>1. /\ n \in Nat /\ n = Len(seqs)
      /\ \A i \in 1..n : seqs[i] \in Seq(R)
      /\ f[0] = <<>> /\ \A i \in 1..n : f[i] = f[i - 1] \o seqs[i]
  BY Members DEF Joins
<1>2. CASE n = 0
  <2>1. seqs = <<>>
    BY <1>2
  <2> QED
    BY <1>1, <1>2, <2>1 DEF FlattenSeq
<1>3. n # 0 => FlattenSeq(seqs) = flat[n]
  BY DEF FlattenSeq
<1> HIDE DEF n
<1>4. CASE n # 0
  <2>1. closed = Flat(closed)
    <3>1. ASSUME NEW i \in 1..n
          PROVE  f[i] = IF i = 1 THEN seqs[i] ELSE closed[i - 1] \o seqs[i]
      <4>1. seqs[i] \in Seq(R) /\ f[i] = f[i - 1] \o seqs[i] /\ f[0] = <<>>
        BY <1>1
      <4>2. ASSUME i = 1
            PROVE  f[i] = seqs[i]
        <5>1. i - 1 = 0
          BY <4>2
        <5>2. f[i] = <<>> \o seqs[i]
          BY <4>1, <5>1
        <5> QED
          BY <4>1, <5>2, ConcatEmptySeq
      <4>3. CASE i # 1
        <5>1. i - 1 \in 1..n
          BY <1>1, <4>3
        <5> QED
          BY <4>1, <4>3, <5>1
      <4> QED
        BY <4>2, <4>3
    <3> QED
      BY <3>1
  <2>2. flat = Flat(flat)
    <3> HIDE DEF Flat, closed
    <3> QED
      BY <2>1
  <2>3. \A i \in 1..n : flat[i] = IF i = 1 THEN seqs[i] ELSE flat[i - 1] \o seqs[i]
    <3> HIDE DEF flat
    <3> QED
      BY <2>2
  <2> HIDE DEF flat
  <2>4. ASSUME NEW i \in 1..n
        PROVE  g[i] = g[i - 1] \o seqs[i]
    <3>1. i \in 0..n /\ i # 0 /\ i - 1 \in 0..n /\ seqs[i] \in Seq(R)
      BY <1>1
    <3>2. CASE i = 1
      <4>1. g[i] = seqs[i] /\ g[i - 1] = <<>>
        BY <2>3, <3>1, <3>2
      <4> QED
        BY <3>1, <4>1, SMTT(60)
    <3>3. CASE i # 1
      <4>1. i - 1 # 0 /\ g[i - 1] = flat[i - 1] /\ g[i] = flat[i]
        BY <3>1, <3>3
      <4> QED
        BY <2>3, <3>3, <4>1
    <3> QED
      BY <3>2, <3>3
  <2>5. Joins(g, seqs)
    BY <1>1, <2>4, Z3T(30) DEF Joins
  <2>6. g[n] = flat[n]
    BY <1>1, <1>4
  <2>7. g[n] = f[n]
    <3>1. g[0] = f[0]
      BY <1>1
    <3>2. \A i \in 1..n : g[i - 1] = f[i - 1] => g[i] = f[i]
      BY <1>1, <2>4
    <3> HIDE DEF g
    <3> QED
      BY <1>1, <3>1, <3>2, Agree
  <2> QED
    BY <1>1, <1>3, <1>4, <2>6, <2>7
<1> QED
  BY <1>1, <1>2, <1>4

LEMMA FlattenEmpty ==
  FlattenSeq(<<>>) = <<>>
  BY DEF FlattenSeq

LEMMA FlattenTyped ==
  ASSUME NEW R, NEW seqs \in Seq(Seq(R))
  PROVE  FlattenSeq(seqs) \in Seq(R)
<1>1. PICK f \in [0..Len(seqs) -> Seq(R)] : Joins(f, seqs)
  BY JoinExists
<1>2. Len(seqs) \in 0..Len(seqs)
  BY Members
<1>3. f[Len(seqs)] \in Seq(R)
  BY <1>1, <1>2, Applied
<1> QED
  BY <1>1, <1>3, FlattenJoins

LEMMA FlattenAppend ==
  ASSUME NEW R, NEW seqs \in Seq(Seq(R)), NEW s \in Seq(R)
  PROVE  FlattenSeq(Append(seqs, s)) = FlattenSeq(seqs) \o s
<1> DEFINE longer == Append(seqs, s)
<1>1. PICK n \in Nat : n = Len(seqs)
  BY Members
<1>2. /\ longer \in Seq(Seq(R)) /\ Len(longer) = n + 1 /\ longer[n + 1] = s
      /\ \A i \in 1..n : longer[i] = seqs[i]
  BY <1>1, AppendProperties
<1> HIDE DEF longer
<1>3. PICK f \in [0..Len(longer) -> Seq(R)] : Joins(f, longer)
  BY <1>2, JoinExists
<1> DEFINE g == [k \in 0..n |-> f[k]]
<1>4. ASSUME NEW k \in 0..n
      PROVE  f[k] \in Seq(R)
  <2>1. k \in 0..Len(longer)
    BY <1>2
  <2> QED
    BY <1>3, <2>1, Applied
<1>5. /\ f[0] = <<>> /\ f[n + 1] = f[n] \o s
      /\ \A k \in 1..n : f[k] = f[k - 1] \o seqs[k]
  <2>1. n + 1 \in 1..Len(longer) /\ (n + 1) - 1 = n /\ \A k \in 1..n : k \in 1..Len(longer)
    BY <1>2
  <2>2. f[0] = <<>> /\ \A k \in 1..Len(longer) : f[k] = f[k - 1] \o longer[k]
    BY <1>3 DEF Joins
  <2>3. f[n + 1] = f[n] \o s
    BY <1>2, <2>1, <2>2
  <2>4. \A k \in 1..n : f[k] = f[k - 1] \o seqs[k]
    BY <1>2, <2>1, <2>2
  <2> QED
    BY <2>2, <2>3, <2>4
<1>6. g \in [0..n -> Seq(R)]
  BY <1>4
<1>7. Joins(g, seqs)
  <2>1. g[0] = <<>>
    BY <1>5
  <2>2. ASSUME NEW k \in 1..n
        PROVE  g[k] = g[k - 1] \o seqs[k]
    <3>1. k \in 0..n /\ k - 1 \in 0..n
      OBVIOUS
    <3> QED
      BY <1>5, <3>1
  <2> HIDE DEF g
  <2> QED
    BY <1>1, <2>1, <2>2 DEF Joins
<1>8. g[n] = f[n]
  OBVIOUS
<1> HIDE DEF g
<1>9. FlattenSeq(seqs) = g[n]
  BY <1>1, <1>6, <1>7, FlattenJoins
<1>10. FlattenSeq(longer) = f[n + 1]
  BY <1>2, <1>3, FlattenJoins
<1> QED
  BY <1>5, <1>8, <1>9, <1>10 DEF longer

LEMMA FlattenConcat ==
  ASSUME NEW R, NEW a \in Seq(Seq(R)), NEW b \in Seq(Seq(R))
  PROVE  FlattenSeq(a \o b) = FlattenSeq(a) \o FlattenSeq(b)
<1>1. PICK n \in Nat : n = Len(b)
  BY Members
<1> DEFINE upto(k) == SubSeq(b, 1, k)
           f == [k \in 0..n |-> FlattenSeq(a \o upto(k))]
           g == [k \in 0..n |-> FlattenSeq(a) \o FlattenSeq(upto(k))]
<1>2. FlattenSeq(a) \in Seq(R)
  BY FlattenTyped
<1>3. f[0] = g[0]
  <2>1. upto(0) = <<>>
    OBVIOUS
  <2>2. a \o <<>> = a /\ FlattenSeq(a) \o <<>> = FlattenSeq(a)
    BY <1>2, ConcatEmptySeq
  <2>3. /\ f[0] = FlattenSeq(a \o upto(0))
        /\ g[0] = FlattenSeq(a) \o FlattenSeq(upto(0))
    OBVIOUS
  <2> HIDE DEF upto, f, g
  <2> QED
    BY <2>1, <2>2, <2>3, FlattenEmpty
<1>4. ASSUME NEW k \in 1..n, f[k - 1] = g[k - 1]
      PROVE  f[k] = g[k]
  <2> DEFINE before == upto(k - 1)
             e == b[k]
  <2>1. k \in 0..n /\ k - 1 \in 0..n
    BY <1>1
  <2>2. e \in Seq(R)
    BY <1>1, Members
  <2>3. before \in Seq(Seq(R)) /\ upto(k) = Append(before, e)
    BY <1>1
  <2>4. a \o Append(before, e) = Append(a \o before, e) /\ a \o before \in Seq(Seq(R))
    <3> HIDE DEF before, e
    <3> QED
      BY <2>2, <2>3
  <2>5. FlattenSeq(a \o before) = FlattenSeq(a) \o FlattenSeq(before)
    BY <1>4, <2>1
  <2>6. f[k] = FlattenSeq(Append(a \o before, e))
    BY <2>1, <2>3, <2>4
  <2>7. g[k] = FlattenSeq(a) \o FlattenSeq(Append(before, e))
    BY <2>1, <2>3
  <2> HIDE DEF before, e, f, g
  <2>8. f[k] = FlattenSeq(a \o before) \o e
    BY <2>2, <2>4, <2>6, FlattenAppend
  <2>9. g[k] = FlattenSeq(a) \o (FlattenSeq(before) \o e)
    BY <2>2, <2>3, <2>7, FlattenAppend
  <2>10. FlattenSeq(before) \in Seq(R)
    BY <2>3, FlattenTyped
  <2>11. (FlattenSeq(a) \o FlattenSeq(before)) \o e = FlattenSeq(a) \o (FlattenSeq(before) \o e)
    BY <1>2, <2>2, <2>10, ConcatAssociative
  <2> QED
    BY <2>5, <2>8, <2>9, <2>11
<1>5. f[n] = FlattenSeq(a \o b) /\ g[n] = FlattenSeq(a) \o FlattenSeq(b)
  <2>1. upto(n) = b /\ n \in 0..n
    BY <1>1, SubSeqFull
  <2>2. f[n] = FlattenSeq(a \o upto(n)) /\ g[n] = FlattenSeq(a) \o FlattenSeq(upto(n))
    BY <2>1
  <2> HIDE DEF upto, f, g
  <2> QED
    BY <2>1, <2>2
<1> HIDE DEF f, g
<1> QED
  BY <1>3, <1>4, <1>5, Agree

-----------------------------------------------------------------------------
(* Bytes and frames.                                                       *)

LEMMA Extensional ==
  ASSUME NEW S, NEW s \in Seq(S), NEW t \in Seq(S), Len(s) = Len(t),
         \A i \in 1..Len(s) : s[i] = t[i]
  PROVE  s = t
  BY SeqEqual

LEMMA BytesRegroup ==
  \A s, t, u \in Seq(Bytes) : (s \o t) \o u = s \o (t \o u)
  BY ConcatAssociative

LEMMA SingleByte ==
  ASSUME NEW s \in Seq(Bytes), Len(s) = 1
  PROVE  s = <<s[1]>> /\ s[1] \in Bytes
<1> DEFINE b == s[1]
           t == <<b>>
<1>1. b \in Bytes
  <2>1. 1 \in 1..Len(s)
    OBVIOUS
  <2> QED
    BY <2>1, Members
<1> HIDE DEF b
<1>2. t \in Seq(Bytes) /\ Len(t) = 1 /\ t[1] = b
  BY <1>1
<1> HIDE DEF t
<1>3. \A i \in 1..Len(s) : s[i] = t[i]
  <2>1. \A i \in 1..1 : i = 1
    OBVIOUS
  <2> QED
    BY <1>2, <2>1 DEF b
<1>4. s = t
  BY <1>2, <1>3, Extensional
<1> QED
  BY <1>1, <1>4 DEF t, b

LEMMA ByteSum ==
  ASSUME NEW a \in 0..255, NEW b \in 0..255
  PROVE  (a + b) % 256 \in 0..255
  OBVIOUS

Adds(f, bytes) ==
  f[0] = 0 /\ \A k \in 1..Len(bytes) : f[k] = (f[k - 1] + bytes[k]) % 256

LEMMA ChecksumAdds ==
  ASSUME NEW bytes \in Seq(0..255)
  PROVE  \E f \in [0..Len(bytes) -> 0..255] :
           Adds(f, bytes) /\ Checksum(bytes) = f[Len(bytes)]
<1> DEFINE V == 0..255
           Sums(h) == [k \in 0..Len(bytes) |-> IF k = 0 THEN 0 ELSE (h[k - 1] + bytes[k]) % 256]
           sum == CHOOSE h : h = Sums(h)
<1>1. Checksum(bytes) = sum[Len(bytes)]
  BY DEF Checksum
<1>2. PICK n \in Nat : n = Len(bytes)
  BY Members
<1> DEFINE step == [k \in 1..n |-> [v \in V |-> (v + bytes[k]) % 256]]
<1>3. \A k \in 1..n : bytes[k] \in V
  BY <1>2, Members
<1>4. step \in [1..n -> [V -> V]]
  <2>1. ASSUME NEW k \in 1..n, NEW v \in V
        PROVE  (v + bytes[k]) % 256 \in V
    <3>1. bytes[k] \in V
      BY <1>3
    <3> QED
      BY <3>1, ByteSum
  <2> QED
    BY <2>1
<1>5. PICK f \in [0..n -> V] : Iterates(f, n, 0, step)
  <2>1. 0 \in V
    OBVIOUS
  <2> HIDE DEF step, V
  <2> QED
    BY <1>4, <2>1, IterationExists
<1>6. ASSUME NEW k \in 1..n
      PROVE  f[k] = (f[k - 1] + bytes[k]) % 256
  <2>1. k - 1 \in 0..n
    OBVIOUS
  <2>2. f[k - 1] \in V
    BY <1>5, <2>1
  <2>3. f[k] = step[k][f[k - 1]]
    BY <1>5 DEF Iterates
  <2> QED
    BY <2>2, <2>3
<1>7. f[0] = 0
  BY <1>5 DEF Iterates
<1> DEFINE closed == [k \in 0..n |-> f[k]]
<1>8. closed = Sums(closed)
  <2>1. ASSUME NEW k \in 0..n
        PROVE  f[k] = IF k = 0 THEN 0 ELSE (closed[k - 1] + bytes[k]) % 256
    <3>1. CASE k = 0
      BY <1>7, <3>1
    <3>2. CASE k # 0
      <4>1. k - 1 \in 0..n /\ k \in 1..n
        BY <3>2
      <4> QED
        BY <1>6, <3>2, <4>1
    <3> QED
      BY <3>1, <3>2
  <2> QED
    BY <1>2, <2>1
<1>9. sum = Sums(sum)
  <2> HIDE DEF Sums, closed
  <2> QED
    BY <1>8
<1> HIDE DEF sum
<1>10. \A k \in 0..n : sum[k] = IF k = 0 THEN 0 ELSE (sum[k - 1] + bytes[k]) % 256
  BY <1>2, <1>9
<1>11. f[0] = sum[0] /\ \A k \in 1..n : f[k - 1] = sum[k - 1] => f[k] = sum[k]
  <2>1. \A k \in 1..n : k \in 0..n /\ k # 0
    OBVIOUS
  <2> QED
    BY <1>6, <1>7, <1>10, <2>1
<1>12. f[n] = sum[n]
  <2> HIDE DEF Sums, step
  <2> QED
    BY <1>11, Agree
<1>13. Adds(f, bytes)
  BY <1>2, <1>6, <1>7 DEF Adds
<1>14. f \in [0..Len(bytes) -> V] /\ Checksum(bytes) = f[Len(bytes)]
  BY <1>1, <1>2, <1>5, <1>12
<1> HIDE DEF sum
<1> QED
  BY <1>13, <1>14

LEMMA ChecksumByte ==
  ASSUME NEW bytes \in Seq(0..255)
  PROVE  Checksum(bytes) \in 0..255
<1> DEFINE V == 0..255
<1>1. PICK f \in [0..Len(bytes) -> V] : Checksum(bytes) = f[Len(bytes)]
  BY ChecksumAdds
<1>2. Len(bytes) \in 0..Len(bytes)
  BY Members
<1>3. Checksum(bytes) \in V
  <2> HIDE DEF V
  <2> QED
    BY <1>1, <1>2
<1> QED
  BY <1>3

Queues(paced) == [byte : Bytes, paced : {paced}, carries : {"byte"}]

Entry == [byte : Bytes, paced : BOOLEAN, carries : {"byte", "signal"} \cup Signals]

(* The longest payload whose length is two bytes.                          *)
Longest == 65535

LEMMA PayloadLength == MaxPayload \in Nat \ {0} /\ MaxPayload <= Longest
  BY PacingAssumption, SMT DEF Longest

LEMMA ShortPayload == Longest \in Nat /\ 12 <= Longest
  BY SMT DEF Longest

Kinds == {"TtyInput", "Uptime", "WallClock", "ResourceSnapshot", "DebugRequest", "Hello"}

LEMMA DividedNat ==
  ASSUME NEW n \in Nat, NEW d \in Nat \ {0}
  PROVE  n \div d \in Nat
  OBVIOUS

LEMMA LengthBytes ==
  ASSUME NEW n \in Nat, n <= Longest
  PROVE  n % 256 \in Bytes /\ n \div 256 \in Bytes
  BY SMT DEF Longest, Bytes

LEMMA KindByte ==
  ASSUME NEW kind \in Kinds
  PROVE  Kind[kind] \in Bytes
<1>1. CASE kind = "TtyInput"
  BY <1>1 DEF Kind, Bytes
<1>2. CASE kind = "Uptime"
  BY <1>2 DEF Kind, Bytes
<1>3. CASE kind = "WallClock"
  BY <1>3 DEF Kind, Bytes
<1>4. CASE kind = "ResourceSnapshot"
  BY <1>4 DEF Kind, Bytes
<1>5. CASE kind = "DebugRequest"
  BY <1>5 DEF Kind, Bytes
<1>6. CASE kind = "Hello"
  BY <1>6 DEF Kind, Bytes
<1> QED
  BY <1>1, <1>2, <1>3, <1>4, <1>5, <1>6 DEF Kinds

LEMMA EncodeBytes ==
  ASSUME NEW kind \in Bytes, NEW channel \in Bytes,
         NEW payload \in Seq(Bytes), Len(payload) <= Longest
  PROVE  LET frame == [kind |-> kind, channel |-> channel, payload |-> payload]
         IN  Encode(frame) \in Seq(Bytes) /\ Len(Encode(frame)) = Len(payload) + 8
<1> DEFINE header == <<VERSION, kind, channel, Len(payload) % 256, Len(payload) \div 256>>
           body == header \o payload
           frame == [kind |-> kind, channel |-> channel, payload |-> payload]
<1>1. PICK n \in Nat : n = Len(payload)
  BY Members
<1>2. n % 256 \in Bytes /\ n \div 256 \in Bytes
  BY <1>1, LengthBytes
<1>3. VERSION \in Bytes /\ 165 \in Bytes /\ 90 \in Bytes
  BY DEF Bytes, VERSION
<1>4. header \in Seq(Bytes) /\ Len(header) = 5
  BY <1>1, <1>2, <1>3
<1>5. body \in Seq(Bytes) /\ Len(body) = n + 5
  <2> HIDE DEF header
  <2>1. header \o payload \in Seq(Bytes)
    BY <1>4, ConcatProperties
  <2>2. Len(header \o payload) = Len(header) + Len(payload)
    BY <1>4, ConcatProperties
  <2> QED
    BY <1>1, <1>4, <2>1, <2>2
<1>6. Checksum(body) \in Bytes
  BY <1>5, ChecksumByte DEF Bytes
<1>7. Encode(frame) = SYNC \o body \o <<Checksum(body)>>
  BY DEF Encode
<1> HIDE DEF body, header, frame
<1>8. SYNC \in Seq(Bytes) /\ Len(SYNC) = 2 /\ <<Checksum(body)>> \in Seq(Bytes)
  BY <1>3, <1>6 DEF SYNC
<1>9. /\ SYNC \o body \o <<Checksum(body)>> \in Seq(Bytes)
      /\ Len(SYNC \o body \o <<Checksum(body)>>) = n + 8
  <2>1. SYNC \o body \in Seq(Bytes)
    BY <1>5, <1>8, ConcatProperties
  <2> DEFINE sum == <<Checksum(body)>>
  <2>2. sum \in Seq(Bytes) /\ Len(sum) = 1
    BY <1>8
  <2> HIDE DEF sum
  <2>3. (SYNC \o body) \o sum \in Seq(Bytes)
    BY <2>1, <2>2, ConcatProperties
  <2>4. Len(SYNC \o body) = Len(SYNC) + Len(body)
    BY <1>5, <1>8, ConcatProperties
  <2>5. Len((SYNC \o body) \o sum) = Len(SYNC \o body) + Len(sum)
    BY <2>1, <2>2, ConcatProperties
  <2> QED
    BY <1>5, <1>8, <2>2, <2>3, <2>4, <2>5 DEF sum
<1> QED
  BY <1>1, <1>7, <1>9 DEF frame

LEMMA QueuedTyped ==
  ASSUME NEW bytes \in Seq(Bytes), NEW paced \in BOOLEAN
  PROVE  Queued(bytes, paced) \in Seq(Queues(paced))
<1>1. PICK n \in Nat : n = Len(bytes) /\ \A i \in 1..n : bytes[i] \in Bytes
  BY Members
<1>2. \A i \in 1..n : [byte |-> bytes[i], paced |-> paced, carries |-> "byte"] \in Queues(paced)
  BY <1>1 DEF Queues
<1> HIDE DEF Queues
<1> QED
  BY <1>1, <1>2 DEF Queued

LEMMA FrameTyped ==
  ASSUME NEW kind \in Kinds, NEW channel \in Bytes,
         NEW payload \in Seq(Bytes), Len(payload) <= Longest
  PROVE  Frame(kind, channel, payload) \in Seq(Queues(TRUE))
  BY KindByte, EncodeBytes, QueuedTyped DEF Frame

LEMMA HelloTyped ==
  /\ Hello \in Seq(Bytes) /\ Len(Hello) = 12
  /\ Queued(Hello, TRUE) \in Seq(Queues(TRUE))
<1>1. <<83, 87, 84, 49>> \in Seq(Bytes) /\ Len(<<83, 87, 84, 49>>) = 4 /\ 0 \in Bytes
  BY DEF Bytes
<1>2. Kind.Hello \in Bytes
  BY DEF Kind, Bytes
<1>3. Hello \in Seq(Bytes) /\ Len(Hello) = 12
  <2> DEFINE magic == <<83, 87, 84, 49>>
  <2>1. magic \in Seq(Bytes) /\ Len(magic) = 4 /\ Len(magic) <= Longest /\ 0 \in Bytes
    BY <1>1, ShortPayload
  <2> HIDE DEF magic
  <2> DEFINE frame == [kind |-> Kind.Hello, channel |-> 0, payload |-> magic]
  <2>2. Encode(frame) \in Seq(Bytes) /\ Len(Encode(frame)) = Len(magic) + 8
    BY <1>2, <2>1, EncodeBytes
  <2> QED
    BY <2>1, <2>2 DEF Hello, magic
<1> QED
  BY <1>3, QueuedTyped

LEMMA ThreeBytesTyped ==
  ASSUME NEW n \in Nat
  PROVE  ThreeBytes(n) \in Seq(Bytes) /\ Len(ThreeBytes(n)) = 3
<1>1. \A m \in Nat : m % 256 \in Bytes
  BY DEF Bytes
<1> DEFINE high == n \div 65536
           middle == n \div 256
<1>2. high \in Nat /\ middle \in Nat
  BY SMT, DividedNat
<1>3. ThreeBytes(n) = <<n % 256, middle % 256, high % 256>>
  BY SMT DEF ThreeBytes
<1> HIDE DEF high, middle
<1>4. n % 256 \in Bytes /\ middle % 256 \in Bytes /\ high % 256 \in Bytes
  BY <1>1, <1>2
<1> QED
  BY <1>3, <1>4

LEMMA ThreeBytesShort ==
  ASSUME NEW n \in Nat
  PROVE  ThreeBytes(n) \in Seq(Bytes) /\ Len(ThreeBytes(n)) <= Longest
<1>1. ThreeBytes(n) \in Seq(Bytes) /\ Len(ThreeBytes(n)) = 3
  BY ThreeBytesTyped
<1>2. 3 <= Longest
  BY ShortPayload
<1> QED
  BY <1>1, <1>2

LEMMA TimesTyped ==
  ASSUME NEW second \in Seconds, tick \in Nat
  PROVE  Times(second) \in Seq(Queues(TRUE))
<1>1. 100 * second \in Nat
  <2>1. second \in Nat
    BY ClockAssumption, SMT
  <2> QED
    BY <2>1
<1>2. /\ "Uptime" \in Kinds /\ "WallClock" \in Kinds /\ "ResourceSnapshot" \in Kinds
      /\ 0 \in Bytes /\ <<>> \in Seq(Bytes) /\ Len(<<>>) = 0
  BY DEF Kinds, Bytes
<1>3. Frame("Uptime", 0, ThreeBytes(tick)) \in Seq(Queues(TRUE))
  <2>1. ThreeBytes(tick) \in Seq(Bytes) /\ Len(ThreeBytes(tick)) <= Longest
    BY ThreeBytesShort
  <2> QED
    BY <1>2, <2>1, FrameTyped
<1>4. Frame("WallClock", 0, ThreeBytes(100 * second)) \in Seq(Queues(TRUE))
  <2>1. /\ ThreeBytes(100 * second) \in Seq(Bytes)
        /\ Len(ThreeBytes(100 * second)) <= Longest
    BY <1>1, ThreeBytesShort
  <2> QED
    BY <1>2, <2>1, FrameTyped
<1>5. Frame("ResourceSnapshot", 0, <<>>) \in Seq(Queues(TRUE))
  <2>1. Len(<<>>) <= Longest
    BY ShortPayload
  <2> QED
    BY <1>2, <2>1, FrameTyped
<1>6. Frame("Uptime", 0, ThreeBytes(tick)) \o Frame("WallClock", 0, ThreeBytes(100 * second))
        \in Seq(Queues(TRUE))
  BY <1>3, <1>4, ConcatProperties
<1> QED
  BY <1>5, <1>6, ConcatProperties DEF Times

(* A line is cut into pieces no longer than a frame's payload.             *)
LEMMA ChunkTyped ==
  ASSUME NEW bytes \in Seq(Bytes), NEW i \in DOMAIN Chunks(bytes)
  PROVE  Chunks(bytes)[i] \in Seq(Bytes) /\ Len(Chunks(bytes)[i]) <= Longest
<1>1. PICK n \in Nat : n = Len(bytes)
  BY Members
<1>2. PICK m \in Nat \ {0} : m = MaxPayload /\ m <= Longest
  BY PayloadLength
<1> DEFINE from == m * (i - 1) + 1
           to   == IF m * i < n THEN m * i ELSE n
<1>3. i \in 1..((n + m - 1) \div m)
  BY <1>1, <1>2 DEF Chunks
<1>4. i \in Nat \ {0}
  BY <1>2, <1>3
<1>5. m * i \in Nat /\ m * (i - 1) \in Nat /\ m * i = m * (i - 1) + m
  BY <1>4
<1>6. from \in Nat /\ 1 <= from /\ to \in Nat /\ to <= n /\ to + 1 - from <= m
  BY <1>5
<1>7. Chunks(bytes)[i] = SubSeq(bytes, from, to)
  BY <1>1, <1>2, <1>3 DEF Chunks
<1> HIDE DEF from, to
<1>8. SubSeq(bytes, from, to) \in Seq(Bytes) /\ Len(SubSeq(bytes, from, to)) <= m
  <2>1. \A j \in from..to : bytes[j] \in Bytes
    BY <1>1, <1>6, Members
  <2>2. /\ SubSeq(bytes, from, to) \in Seq(Bytes)
        /\ Len(SubSeq(bytes, from, to)) = IF from <= to THEN to - from + 1 ELSE 0
    BY <1>6, <2>1, SubSeqProperties
  <2> QED
    BY <1>2, <1>6, <2>2
<1>9. Len(SubSeq(bytes, from, to)) \in Nat
  BY <1>8, Members
<1> QED
  BY <1>2, <1>7, <1>8, <1>9, ShortPayload

LEMMA ToChannelTyped ==
  ASSUME NEW bytes \in Seq(Bytes)
  PROVE  ToChannel(bytes) \in Seq(Queues(mode = "Framed"))
<1> DEFINE frames == [i \in DOMAIN Chunks(bytes) |-> Frame("TtyInput", 0, Chunks(bytes)[i])]
<1>1. CASE mode = "Framed"
  <2>1. 0 \in Bytes /\ "TtyInput" \in Kinds
    BY DEF Bytes, Kinds
  <2>2. \A i \in DOMAIN Chunks(bytes) : frames[i] \in Seq(Queues(TRUE))
    BY <2>1, ChunkTyped, FrameTyped
  <2>3. DOMAIN Chunks(bytes) = 1..((Len(bytes) + MaxPayload - 1) \div MaxPayload)
    BY DEF Chunks
  <2>4. (Len(bytes) + MaxPayload - 1) \div MaxPayload \in Nat
    <3>1. Len(bytes) + MaxPayload - 1 \in Nat
      BY Members, PayloadLength
    <3> QED
      BY <3>1, PayloadLength, DividedNat
  <2>5. frames \in Seq(Seq(Queues(TRUE)))
    <3>1. PICK n \in Nat : DOMAIN Chunks(bytes) = 1..n
      BY <2>3, <2>4
    <3>2. frames \in [1..n -> Seq(Queues(TRUE))]
      BY <2>2, <3>1
    <3> HIDE DEF frames
    <3> QED
      BY <3>2, FunctionIsSequence
  <2>6. FlattenSeq(frames) \in Seq(Queues(TRUE))
    <3> HIDE DEF frames
    <3> QED
      BY <2>5, FlattenTyped
  <2> QED
    BY <1>1, <2>6 DEF ToChannel
<1>2. CASE mode # "Framed"
  BY <1>2, QueuedTyped DEF ToChannel
<1> QED
  BY <1>1, <1>2

LEMMA SignalledTyped ==
  ASSUME NEW bytes \in Seq(Bytes), NEW signal \in Signals
  PROVE  Signalled(bytes, signal) \in Seq(Entry)
<1>1. PICK n \in Nat : n = Len(bytes) /\ \A i \in 1..n : bytes[i] \in Bytes
  BY Members
<1>2. \A i \in 1..n : [byte |-> bytes[i], paced |-> FALSE,
                       carries |-> IF i = n THEN signal ELSE "signal"] \in Entry
  BY <1>1 DEF Entry
<1> HIDE DEF Entry
<1> QED
  BY <1>1, <1>2 DEF Signalled

LEMMA HeartbeatTyped ==
  ASSUME tick \in Nat
  PROVE  Heartbeat \in Seq(Entry)
<1>1. <<255, 1>> \o ThreeBytes(tick) \in Seq(Bytes)
  <2>1. <<255, 1>> \in Seq(Bytes)
    BY DEF Bytes
  <2> QED
    BY <2>1, ThreeBytesTyped
<1>2. "heartbeat" \in Signals
  BY DEF Signals
<1> QED
  BY <1>1, <1>2, SignalledTyped DEF Heartbeat

LEMMA QueuesAreEntries ==
  ASSUME NEW paced \in BOOLEAN
  PROVE  Seq(Queues(paced)) \subseteq Seq(Entry)
<1>1. Queues(paced) \subseteq Entry
  BY DEF Queues, Entry
<1> HIDE DEF Queues, Entry
<1> QED
  BY <1>1, SeqMonotonic

-----------------------------------------------------------------------------
(* Types.                                                                  *)

Said == {"input", "ack", "text"}

HandlerStates == {"normal", "escape", "tick0", "tick1", "tick2"}

Recoveries == {"restart", "reboot"}

TypeIInv ==
  /\ tick \in Nat /\ tick <= MaxTicks /\ nextHello \in Nat
  /\ mode \in {"Plain", "Framed"} /\ greeted \in BOOLEAN
  /\ toTarget \in Seq(Entry)
  /\ unread \in Seq(Said)
  /\ phase \in {"between", "delivering", "listening"}
  /\ handler \in HandlerStates
  /\ ring \in Seq(Bytes) /\ Len(ring) <= RingSize
  /\ recent \in Seq(Bytes) /\ Len(recent) < Len(Hello)
  /\ asked \in Seq(Recoveries) /\ recovered \in Seq(Recoveries)
  /\ beats \in Nat
  /\ raw \in BOOLEAN /\ slow \in BOOLEAN /\ lost \in BOOLEAN

LEMMA LargestNumber ==
  ASSUME NEW k \in Nat, NEW T \in SUBSET (0..k), T # {}
  PROVE  Max(T) \in T /\ \A m \in T : Max(T) >= m
<1> DEFINE mirrored == {k - n : n \in T}
<1>1. mirrored \in SUBSET Nat /\ mirrored # {}
  <2>1. ASSUME NEW n \in T
        PROVE  k - n \in Nat
    <3>1. n \in 0..k
      OBVIOUS
    <3> QED
      BY <3>1
  <2> QED
    BY <2>1
<1>2. PICK least \in mirrored : \A m \in mirrored : least <= m
  <2> HIDE DEF mirrored
  <2> QED
    BY <1>1, LeastNumber
<1>3. PICK n \in T : least = k - n
  BY <1>2
<1>4. \A m \in T : n >= m
  <2> TAKE m \in T
  <2>1. k - m \in mirrored
    OBVIOUS
  <2>2. k - n <= k - m
    BY <1>2, <1>3, <2>1
  <2> QED
    BY <2>2
<1> QED
  BY <1>4 DEF Max

LEMMA BeginningTyped ==
  ASSUME NEW bytes \in Seq(Bytes)
  PROVE  Beginning(bytes) \in Seq(Bytes) /\ Len(Beginning(bytes)) < Len(Hello)
<1>1. PICK length \in Nat : length = Len(bytes)
  BY Members
<1>2. Len(Hello) = 12
  BY HelloTyped
<1> DEFINE most == IF Len(bytes) < Len(Hello) THEN Len(bytes) ELSE Len(Hello) - 1
           fits == {n \in 0..most : LastOf(bytes, n) = SubSeq(Hello, 1, n)}
           n == Max(fits)
<1>3. most \in Nat /\ most <= length /\ most < 12
  BY <1>1, <1>2
<1>4. 0 \in fits
  <2>1. LastOf(bytes, 0) = <<>> /\ SubSeq(Hello, 1, 0) = <<>>
    BY <1>1, SubSeqEmpty DEF LastOf
  <2>2. 0 \in 0..most
    BY <1>3
  <2> QED
    BY <2>1, <2>2
<1>5. n \in 0..most
  <2>1. fits \in SUBSET (0..most) /\ fits # {}
    BY <1>4
  <2> HIDE DEF fits, most
  <2>2. Max(fits) \in fits
    BY <1>3, <2>1, LargestNumber
  <2> QED
    BY <2>1, <2>2
<1>6. Beginning(bytes) = LastOf(bytes, n)
  BY DEF Beginning
<1> HIDE DEF n, most
<1>7. n \in Nat /\ n <= length /\ n < 12
  BY <1>3, <1>5
<1>8. LastOf(bytes, n) = SubSeq(bytes, length - n + 1, length)
  BY <1>1 DEF LastOf
<1>9. \A i \in length - n + 1..length : bytes[i] \in Bytes
  BY <1>1, <1>7, Members
<1>10. /\ SubSeq(bytes, length - n + 1, length) \in Seq(Bytes)
       /\ Len(SubSeq(bytes, length - n + 1, length)) = n
  BY <1>7, <1>9, SubSeqProperties
<1> QED
  BY <1>2, <1>6, <1>7, <1>8, <1>10

LEMMA HandledTyped ==
  ASSUME NEW state \in HandlerStates, NEW byte \in Bytes
  PROVE  /\ Handled(state, byte).state \in HandlerStates
         /\ Handled(state, byte).bytes \in Seq(Bytes)
         /\ Handled(state, byte).signal \in {"none"} \cup Signals
<1>1. 255 \in Bytes
  BY DEF Bytes
<1>2. <<>> \in Seq(Bytes) /\ <<byte>> \in Seq(Bytes) /\ <<255>> \in Seq(Bytes) /\ <<255, byte>> \in Seq(Bytes)
  BY <1>1
<1>3. CASE state = "normal"
  BY <1>2, <1>3 DEF Handled, HandlerStates, Signals
<1>4. CASE state = "escape"
  <2>1. CASE byte = 1
    BY <1>2, <1>4, <2>1 DEF Handled, HandlerStates, Signals
  <2>2. CASE byte = 4
    BY <1>2, <1>4, <2>2 DEF Handled, HandlerStates, Signals
  <2>3. CASE byte = 5
    BY <1>2, <1>4, <2>3 DEF Handled, HandlerStates, Signals
  <2>4. CASE byte = 0
    BY <1>2, <1>4, <2>4 DEF Handled, HandlerStates, Signals
  <2>5. CASE byte \notin {0, 1, 4, 5}
    BY <1>2, <1>4, <2>5 DEF Handled, HandlerStates, Signals
  <2> QED
    BY <2>1, <2>2, <2>3, <2>4, <2>5
<1>5. CASE state = "tick0"
  BY <1>2, <1>5 DEF Handled, HandlerStates, Signals
<1>6. CASE state = "tick1"
  BY <1>2, <1>6 DEF Handled, HandlerStates, Signals
<1>7. CASE state = "tick2"
  BY <1>2, <1>7 DEF Handled, HandlerStates, Signals
<1> QED
  BY <1>3, <1>4, <1>5, <1>6, <1>7 DEF HandlerStates

LEMMA StoredTyped ==
  ASSUME TypeIInv, NEW bytes \in Seq(Bytes)
  PROVE  Stored(bytes) \in Seq(Bytes) /\ Len(Stored(bytes)) <= RingSize
<1>1. PICK held \in Nat : held = Len(ring) /\ held <= RingSize
  BY Members DEF TypeIInv
<1>2. PICK length \in Nat : length = Len(bytes)
  BY Members
<1>3. RingSize \in Nat
  BY PacingAssumption
<1> DEFINE room == RingSize - held
           kept == IF room < length THEN room ELSE length
<1>4. kept \in Nat /\ kept <= length /\ held + kept <= RingSize
  BY <1>1, <1>2, <1>3
<1>5. Stored(bytes) = ring \o SubSeq(bytes, 1, kept)
  BY <1>1, <1>2 DEF Stored, Free
<1> HIDE DEF kept
<1>6. SubSeq(bytes, 1, kept) \in Seq(Bytes) /\ Len(SubSeq(bytes, 1, kept)) = kept
  <2>1. \A i \in 1..kept : bytes[i] \in Bytes
    BY <1>2, <1>4, Members
  <2> QED
    BY <1>4, <2>1, SubSeqProperties
<1>7. ring \in Seq(Bytes)
  BY DEF TypeIInv
<1>8. Len(ring \o SubSeq(bytes, 1, kept)) = Len(ring) + Len(SubSeq(bytes, 1, kept))
  BY <1>6, <1>7, ConcatProperties
<1> QED
  BY <1>1, <1>4, <1>5, <1>6, <1>7, <1>8, ConcatProperties

LEMMA SaidTyped ==
  ASSUME NEW reads \in BOOLEAN, NEW speaks \in BOOLEAN
  PROVE  /\ (IF reads THEN <<"ack">> ELSE <<>>) \o (IF speaks THEN <<"text">> ELSE <<>>) \in Seq({"ack", "text"})
         /\ {"ack", "text"} \subseteq Said
<1> <<>> \in Seq({"ack", "text"}) /\ <<"ack">> \in Seq({"ack", "text"}) /\ <<"text">> \in Seq({"ack", "text"})
  OBVIOUS
<1>1. (IF reads THEN <<"ack">> ELSE <<>>) \in Seq({"ack", "text"})
  OBVIOUS
<1>2. (IF speaks THEN <<"text">> ELSE <<>>) \in Seq({"ack", "text"})
  OBVIOUS
<1> QED
  BY <1>1, <1>2, ConcatProperties DEF Said

(* What the programs do with the ring, and what the target says.           *)
LEMMA BatchDoes ==
  ASSUME TypeIInv, NEW filled \in Seq(Bytes), NEW log \in Seq(Said), Batch(filled, log)
  PROVE  \E reads \in BOOLEAN, says \in Seq({"ack", "text"}) :
           /\ ring' = IF reads THEN <<>> ELSE filled
           /\ unread' = log \o says
           /\ recent' \in Seq(Bytes) /\ Len(recent') < Len(Hello)
           /\ slow' = (slow \/ (~reads /\ filled # <<>>
                                 /\ toTarget # <<>> /\ Head(toTarget).paced))
<1>1. PICK reads \in BOOLEAN, speaks \in BOOLEAN :
        LET now  == IF reads THEN recent \o filled ELSE recent
            acks == \E n \in Len(Hello)..Len(now) :
                      SubSeq(now, n - Len(Hello) + 1, n) = Hello
            says == (IF acks THEN <<"ack">> ELSE <<>>)
                    \o (IF speaks THEN <<"text">> ELSE <<>>)
        IN  /\ speaks => Len(Outputs) + Len(heard) < MaxOutput
            /\ ring' = IF reads THEN <<>> ELSE filled
            /\ recent' = Beginning(now)
            /\ unread' = log \o says
            /\ slow' = (slow \/ (~reads /\ filled # <<>>
                                  /\ toTarget # <<>> /\ Head(toTarget).paced))
  BY DEF Batch
<1> DEFINE now  == IF reads THEN recent \o filled ELSE recent
           acks == \E n \in Len(Hello)..Len(now) :
                     SubSeq(now, n - Len(Hello) + 1, n) = Hello
           says == (IF acks THEN <<"ack">> ELSE <<>>)
                   \o (IF speaks THEN <<"text">> ELSE <<>>)
<1>2. /\ ring' = IF reads THEN <<>> ELSE filled
      /\ recent' = Beginning(now)
      /\ unread' = log \o says
      /\ slow' = (slow \/ (~reads /\ filled # <<>>
                            /\ toTarget # <<>> /\ Head(toTarget).paced))
  BY <1>1
<1>3. now \in Seq(Bytes)
  BY ConcatProperties DEF TypeIInv
<1>4. says \in Seq({"ack", "text"})
  <2>1. acks \in BOOLEAN
    OBVIOUS
  <2> HIDE DEF acks
  <2> QED
    BY <2>1, SaidTyped
<1> HIDE DEF now, says
<1>5. recent' \in Seq(Bytes) /\ Len(recent') < Len(Hello)
  BY <1>2, <1>3, BeginningTyped
<1> QED
  BY <1>2, <1>4, <1>5

LEMMA WithInputTyped ==
  ASSUME TypeIInv
  PROVE  WithInput \in Seq(Said)
  BY DEF TypeIInv, WithInput, Said

(* The queue a person's command or a turn leaves behind.                   *)
LEMMA PersonTyped ==
  ASSUME TypeIInv, Person
  PROVE  toTarget' \in Seq(Entry) /\ asked' \in Seq(Recoveries) /\ raw' \in BOOLEAN
<1>1. ASSUME NEW text \in Texts, Type(text)
      PROVE  toTarget' \in Seq(Entry) /\ asked' \in Seq(Recoveries) /\ raw' \in BOOLEAN
  <2>1. text \in Seq(Bytes)
    <3>1. text \in Seq(0..244) /\ 0..244 \subseteq Bytes
      BY TextAssumption DEF Bytes
    <3> QED
      BY <3>1, SeqMonotonic
  <2>2. ToChannel(text) \in Seq(Entry)
    BY <2>1, ToChannelTyped, QueuesAreEntries
  <2>3. toTarget' = toTarget \o ToChannel(text) /\ asked' = asked /\ raw' = (raw \/ mode = "Plain")
    BY <1>1 DEF Type
  <2> QED
    BY <2>2, <2>3, ConcatProperties DEF TypeIInv
<1>2. ASSUME NEW bytes \in Seq(Bytes), NEW signal \in Recoveries, Recover(bytes, signal)
      PROVE  toTarget' \in Seq(Entry) /\ asked' \in Seq(Recoveries) /\ raw' \in BOOLEAN
  <2>1. Signalled(bytes, signal) \in Seq(Entry)
    BY SignalledTyped DEF Recoveries, Signals
  <2>2. toTarget' = toTarget \o Signalled(bytes, signal) /\ asked' = Append(asked, signal) /\ raw' = raw
    BY <1>2 DEF Recover, Request
  <2> QED
    BY <2>1, <2>2, ConcatProperties DEF TypeIInv
<1>3. <<255, 4>> \in Seq(Bytes) /\ <<255, 5>> \in Seq(Bytes) /\ "restart" \in Recoveries /\ "reboot" \in Recoveries
  BY DEF Bytes, Recoveries
<1> QED
  BY <1>1, <1>2, <1>3 DEF Person, RestartShell, RebootSystem

LEMMA FramesTyped ==
  ASSUME TypeIInv, NEW second \in Seconds
  PROVE  Frames(second) \in Seq(Queues(TRUE))
<1>1. Queued(Hello, TRUE) \in Seq(Queues(TRUE))
  BY HelloTyped
<1>2. Frame("DebugRequest", 0, <<1>>) \in Seq(Queues(TRUE))
  <2>1. <<1>> \in Seq(Bytes) /\ Len(<<1>>) = 1 /\ 0 \in Bytes /\ "DebugRequest" \in Kinds
    BY DEF Bytes, Kinds
  <2>2. Len(<<1>>) <= Longest
    BY <2>1, ShortPayload
  <2> QED
    BY <2>1, <2>2, FrameTyped
<1>3. Times(second) \in Seq(Queues(TRUE))
  BY TimesTyped DEF TypeIInv
<1> DEFINE first  == IF Offered THEN Queued(Hello, TRUE) ELSE <<>>
           greeting == IF mode = "Framed" /\ ~greeted THEN Frame("DebugRequest", 0, <<1>>) ELSE <<>>
           third  == IF Due THEN Times(second) ELSE <<>>
<1>4. first \in Seq(Queues(TRUE)) /\ greeting \in Seq(Queues(TRUE)) /\ third \in Seq(Queues(TRUE))
  <2>1. <<>> \in Seq(Queues(TRUE))
    OBVIOUS
  <2> QED
    BY <1>1, <1>2, <1>3, <2>1
<1>5. Frames(second) = first \o greeting \o third
  BY DEF Frames
<1> HIDE DEF first, greeting, third
<1>6. first \o greeting \in Seq(Queues(TRUE))
  BY <1>4, ConcatProperties
<1> QED
  BY <1>4, <1>5, <1>6, ConcatProperties

LEMMA TurnTyped ==
  ASSUME TypeIInv, NEW second \in Seconds, BeginTurn(second)
  PROVE  TypeIInv'
<1>1. toTarget' \in Seq(Entry)
  <2>1. Frames(second) \in Seq(Entry)
    BY FramesTyped, QueuesAreEntries
  <2>2. Heartbeat \in Seq(Entry)
    BY HeartbeatTyped DEF TypeIInv
  <2>3. toTarget' = toTarget \o Frames(second) \o Heartbeat
    BY DEF BeginTurn
  <2>4. toTarget \o Frames(second) \in Seq(Entry)
    BY <2>1, ConcatProperties DEF TypeIInv
  <2> QED
    BY <2>2, <2>3, <2>4, ConcatProperties
<1>2. tick' = tick + 1 /\ tick < MaxTicks /\ tick \in Nat /\ MaxTicks \in Nat
  BY BoundAssumption DEF BeginTurn, TypeIInv
<1>3. nextHello' \in Nat
  BY PacingAssumption DEF BeginTurn, TypeIInv
<1>4. phase' = "delivering" /\ greeted' \in BOOLEAN
  BY DEF BeginTurn, TypeIInv
<1>5. UNCHANGED <<mode, unread, handler, ring, recent, asked, recovered, beats, raw, slow, lost>>
  BY DEF BeginTurn, machine, history
<1> QED
  BY <1>1, <1>2, <1>3, <1>4, <1>5 DEF TypeIInv

LEMMA DeliverTyped ==
  ASSUME TypeIInv, Deliver
  PROVE  TypeIInv'
<1> DEFINE byte  == Head(toTarget).byte
           taken == Handled(handler, byte)
<1>1. /\ handler' = taken.state
      /\ recovered' = IF taken.signal \in {"restart", "reboot"}
                      THEN Append(recovered, taken.signal) ELSE recovered
      /\ beats' = IF taken.signal = "heartbeat" THEN beats + 1 ELSE beats
      /\ lost' = (lost \/ Free < Len(taken.bytes))
      /\ Batch(Stored(taken.bytes), WithInput)
  BY DEF Deliver
<1>2. byte \in Bytes
  <2>1. toTarget # <<>> /\ toTarget \in Seq(Entry)
    BY DEF Deliver, TypeIInv
  <2>2. Head(toTarget) \in Entry
    BY <2>1, HeadTailProperties
  <2> QED
    BY <2>2 DEF Entry
<1>3. handler \in HandlerStates
  BY DEF TypeIInv
<1> HIDE DEF byte
<1>4. /\ taken.state \in HandlerStates /\ taken.bytes \in Seq(Bytes)
      /\ taken.signal \in {"none"} \cup Signals
  BY <1>2, <1>3, HandledTyped
<1> HIDE DEF taken
<1>5. Stored(taken.bytes) \in Seq(Bytes) /\ Len(Stored(taken.bytes)) <= RingSize
  BY <1>4, StoredTyped
<1>6. WithInput \in Seq(Said)
  BY WithInputTyped
<1>7. PICK reads \in BOOLEAN, says \in Seq({"ack", "text"}) :
        /\ ring' = IF reads THEN <<>> ELSE Stored(taken.bytes)
        /\ unread' = WithInput \o says
        /\ recent' \in Seq(Bytes) /\ Len(recent') < Len(Hello)
        /\ slow' = (slow \/ (~reads /\ Stored(taken.bytes) # <<>>
                              /\ toTarget # <<>> /\ Head(toTarget).paced))
  BY <1>1, <1>5, <1>6, BatchDoes
<1>8. ring' \in Seq(Bytes) /\ Len(ring') <= RingSize
  BY <1>5, <1>7, PacingAssumption
<1>9. unread' \in Seq(Said)
  <2>1. says \in Seq(Said)
    BY SeqMonotonic, SaidTyped
  <2> QED
    BY <1>6, <1>7, <2>1, ConcatProperties
<1>10. slow' \in BOOLEAN /\ lost' \in BOOLEAN
  BY <1>1, <1>7 DEF TypeIInv
<1>11. recovered' \in Seq(Recoveries)
  BY <1>1 DEF TypeIInv, Recoveries
<1>12. beats' \in Nat
  BY <1>1 DEF TypeIInv
<1>13. toTarget' \in Seq(Entry)
  <2>1. toTarget' = Tail(toTarget) /\ toTarget # <<>> /\ toTarget \in Seq(Entry)
    BY DEF Deliver, TypeIInv
  <2> QED
    BY <2>1, HeadTailProperties
<1>14. UNCHANGED <<tick, nextHello, mode, greeted, phase, asked, raw>>
  BY DEF Deliver
<1>15. recent' \in Seq(Bytes) /\ Len(recent') < Len(Hello)
  BY <1>7
<1> QED
  BY <1>1, <1>4, <1>8, <1>9, <1>10, <1>11, <1>12, <1>13, <1>14, <1>15 DEF TypeIInv

LEMMA LastBatchTyped ==
  ASSUME TypeIInv, LastBatch
  PROVE  TypeIInv'
<1>1. ring \in Seq(Bytes) /\ unread \in Seq(Said) /\ Batch(ring, unread)
  BY DEF TypeIInv, LastBatch
<1>2. PICK reads \in BOOLEAN, says \in Seq({"ack", "text"}) :
        /\ ring' = IF reads THEN <<>> ELSE ring
        /\ unread' = unread \o says
        /\ recent' \in Seq(Bytes) /\ Len(recent') < Len(Hello)
        /\ slow' = (slow \/ (~reads /\ ring # <<>>
                              /\ toTarget # <<>> /\ Head(toTarget).paced))
  BY <1>1, BatchDoes
<1>3. ring' \in Seq(Bytes) /\ Len(ring') <= RingSize
  BY <1>2, PacingAssumption DEF TypeIInv
<1>4. unread' \in Seq(Said)
  <2>1. says \in Seq(Said)
    BY SeqMonotonic, SaidTyped
  <2> QED
    BY <1>1, <1>2, <2>1, ConcatProperties
<1>5. slow' \in BOOLEAN
  BY <1>2 DEF TypeIInv
<1>6. recent' \in Seq(Bytes) /\ Len(recent') < Len(Hello)
  BY <1>2
<1>7. /\ phase' = "listening"
      /\ UNCHANGED <<tick, nextHello, mode, greeted, toTarget, handler,
                     asked, recovered, beats, raw, lost>>
  BY DEF LastBatch
<1> QED
  BY <1>3, <1>4, <1>5, <1>6, <1>7 DEF TypeIInv

LEMMA ListenTyped ==
  ASSUME TypeIInv, Listen
  PROVE  TypeIInv'
<1>1. unread' = <<>>
  BY DEF Listen, Seen, TypeIInv
<1>2. mode' \in {"Plain", "Framed"} /\ phase' = "between"
  BY DEF Listen, TypeIInv
<1>3. UNCHANGED <<tick, nextHello, greeted, toTarget, handler, ring, recent,
                  asked, recovered, beats, raw, slow, lost>>
  BY DEF Listen, machine
<1> QED
  BY <1>1, <1>2, <1>3 DEF TypeIInv

LEMMA TypeStep ==
  ASSUME TypeIInv, [Next]_vars
  PROVE  TypeIInv'
<1>1. CASE Person
  <2>1. toTarget' \in Seq(Entry) /\ asked' \in Seq(Recoveries) /\ raw' \in BOOLEAN
    BY <1>1, PersonTyped
  <2>2. UNCHANGED <<tick, nextHello, mode, greeted, unread, phase, handler, ring, recent,
                    recovered, beats, slow, lost>>
    BY <1>1 DEF Person, Type, RestartShell, RebootSystem, Recover, Sends, machine
  <2> QED
    BY <2>1, <2>2 DEF TypeIInv
<1>2. CASE Turn
  BY <1>2, TurnTyped, DeliverTyped, LastBatchTyped, ListenTyped DEF Turn
<1>3. CASE UNCHANGED vars
  BY <1>3 DEF vars, host, machine, history, TypeIInv
<1> QED
  BY <1>1, <1>2, <1>3 DEF Next

LEMMA TypeInit == Init => TypeIInv
<1> SUFFICES ASSUME Init
             PROVE  TypeIInv
  OBVIOUS
<1>1. RingSize \in Nat /\ MaxTicks \in Nat
  BY PacingAssumption, BoundAssumption
<1>2. Len(Hello) = 12
  BY HelloTyped
<1>3. \A S : <<>> \in Seq(S) /\ Len(<<>>) = 0
  OBVIOUS
<1>4. 0 <= RingSize /\ 0 < Len(Hello) /\ 0 \in 0..MaxTicks
  BY <1>1, <1>2, PacingAssumption
<1>5. tick = 0 /\ nextHello = 0 /\ beats = 0 /\ sends = 0 /\ 0 \in Nat
  BY DEF Init
<1>6. /\ mode = "Plain" /\ greeted = FALSE /\ phase = "between" /\ handler = "normal"
      /\ raw = FALSE /\ slow = FALSE /\ lost = FALSE
  BY DEF Init
<1>7. /\ toTarget = <<>> /\ unread = <<>> /\ ring = <<>> /\ recent = <<>>
      /\ asked = <<>> /\ recovered = <<>> /\ heard = <<>>
  BY DEF Init
<1>8. /\ toTarget \in Seq(Entry) /\ unread \in Seq(Said)
      /\ ring \in Seq(Bytes) /\ recent \in Seq(Bytes)
      /\ asked \in Seq(Recoveries) /\ recovered \in Seq(Recoveries)
  BY <1>3, <1>7
<1>9. Len(ring) <= RingSize /\ Len(recent) < Len(Hello)
  BY <1>3, <1>4, <1>7
<1>10. tick \in Nat /\ tick <= MaxTicks /\ nextHello \in Nat /\ beats \in Nat
  BY <1>1, <1>5
<1> QED
  BY <1>6, <1>8, <1>9, <1>10 DEF TypeIInv, HandlerStates

LEMMA Typed == Spec => []TypeIInv
<1>1. Init => TypeIInv
  BY TypeInit
<1>2. TypeIInv /\ [Next]_vars => TypeIInv'
  BY TypeStep
<1> QED
  BY <1>1, <1>2, PTL DEF Spec

(* Whatever is typed and whatever the clock shows, what is queued for the  *)
(* target is bytes, checksums and lengths included, and the ring and what  *)
(* is remembered of a HELLO keep their sizes.                              *)
THEOREM TypeCorrect == Spec => []TypeOK
<1>1. TypeIInv => TypeOK
  <2> SUFFICES ASSUME TypeIInv
               PROVE  TypeOK
    OBVIOUS
  <2>1. \A i \in DOMAIN toTarget : toTarget[i].byte \in 0..255
    <3> TAKE i \in DOMAIN toTarget
    <3>1. toTarget[i] \in Entry
      BY Members DEF TypeIInv
    <3> QED
      BY <3>1 DEF Entry, Bytes
  <2>2. tick \in 0..MaxTicks
    BY BoundAssumption DEF TypeIInv
  <2> QED
    BY <2>1, <2>2 DEF TypeIInv, TypeOK, HandlerStates
<1> QED
  BY <1>1, Typed, PTL

-----------------------------------------------------------------------------
(* What is queued, as the interrupt handler makes of it.                   *)

Values(field) == {entry[field] : entry \in Entry}

LEMMA PickedTyped ==
  ASSUME NEW queue \in Seq(Entry), NEW kinds, NEW field \in {"byte", "carries"}
  PROVE  [i \in DOMAIN queue |-> IF queue[i].carries \in kinds THEN <<queue[i][field]>> ELSE <<>>]
           \in Seq(Seq(Values(field)))
<1>1. PICK n \in Nat : n = Len(queue) /\ DOMAIN queue = 1..n /\ \A i \in 1..n : queue[i] \in Entry
  BY Members
<1>2. ASSUME NEW i \in 1..n
      PROVE  (IF queue[i].carries \in kinds THEN <<queue[i][field]>> ELSE <<>>) \in Seq(Values(field))
  <2>1. queue[i][field] \in Values(field)
    BY <1>1 DEF Values
  <2>2. <<>> \in Seq(Values(field)) /\ <<queue[i][field]>> \in Seq(Values(field))
    BY <2>1
  <2> QED
    BY <2>2
<1> DEFINE picked == [i \in 1..n |-> IF queue[i].carries \in kinds THEN <<queue[i][field]>> ELSE <<>>]
<1>3. picked \in [1..n -> Seq(Values(field))]
  BY <1>2
<1>4. picked \in Seq(Seq(Values(field)))
  <2> HIDE DEF picked
  <2> QED
    BY <1>3, FunctionIsSequence
<1> QED
  BY <1>1, <1>4

LEMMA CarriedTyped ==
  ASSUME NEW queue \in Seq(Entry), NEW kinds, NEW field \in {"byte", "carries"}
  PROVE  Carried(queue, kinds, field) \in Seq(Values(field))
  BY PickedTyped, FlattenTyped DEF Carried

LEMMA CarriedConcat ==
  ASSUME NEW a \in Seq(Entry), NEW b \in Seq(Entry), NEW kinds, NEW field \in {"byte", "carries"}
  PROVE  Carried(a \o b, kinds, field) = Carried(a, kinds, field) \o Carried(b, kinds, field)
<1> DEFINE picked(q) == [i \in DOMAIN q |-> IF q[i].carries \in kinds THEN <<q[i][field]>> ELSE <<>>]
<1>1. a \o b \in Seq(Entry)
  BY ConcatProperties
<1>2. picked(a) \in Seq(Seq(Values(field))) /\ picked(b) \in Seq(Seq(Values(field)))
  BY PickedTyped
<1>3. picked(a \o b) = picked(a) \o picked(b)
  <2>1. PICK n \in Nat, m \in Nat : n = Len(a) /\ m = Len(b)
    BY Members
  <2>2. DOMAIN (a \o b) = 1..n + m /\ DOMAIN a = 1..n /\ DOMAIN b = 1..m
    BY <2>1
  <2>3. Len(picked(a)) = n /\ Len(picked(b)) = m
    BY <2>1, <2>2, <1>2
  <2>4. \A i \in 1..n + m : (a \o b)[i] = IF i <= n THEN a[i] ELSE b[i - n]
    BY <2>1
  <2>5. ASSUME NEW i \in 1..n + m
        PROVE  picked(a \o b)[i] = (picked(a) \o picked(b))[i]
    <3>1. CASE i <= n
      <4>1. i \in 1..n
        BY <3>1
      <4>2. (picked(a) \o picked(b))[i] = picked(a)[i]
        <5> HIDE DEF picked
        <5> QED
          BY <1>2, <2>3, <2>5, <3>1
      <4> QED
        BY <2>2, <2>4, <3>1, <4>1, <4>2
    <3>2. CASE i > n
      <4>1. i - n \in 1..m
        BY <3>2, <2>1
      <4>2. (picked(a) \o picked(b))[i] = picked(b)[i - n]
        <5> HIDE DEF picked
        <5> QED
          BY <1>2, <2>3, <2>5, <3>2, SMTT(60)
      <4>3. ~(i <= n)
        BY <3>2
      <4>4. (a \o b)[i] = b[i - n]
        BY <2>4, <4>3
      <4> QED
        BY <2>2, <4>1, <4>2, <4>4
    <3> HIDE DEF picked
    <3>3. i <= n \/ i > n
      BY <2>1
    <3> QED
      BY <3>1, <3>2, <3>3
  <2>6. picked(a \o b) \in Seq(Seq(Values(field))) /\ Len(picked(a \o b)) = n + m
    <3>1. picked(a \o b) \in Seq(Seq(Values(field)))
      BY <1>1, PickedTyped
    <3>2. DOMAIN picked(a \o b) = 1..n + m
      BY <2>2
    <3> HIDE DEF picked
    <3> QED
      BY <3>1, <3>2, Members
  <2>7. picked(a) \o picked(b) \in Seq(Seq(Values(field))) /\ Len(picked(a) \o picked(b)) = n + m
    <3> HIDE DEF picked
    <3> QED
      BY <1>2, <2>3, ConcatProperties
  <2> HIDE DEF picked
  <2> QED
    BY <2>5, <2>6, <2>7, SeqEqual
<1>4. FlattenSeq(picked(a) \o picked(b)) = FlattenSeq(picked(a)) \o FlattenSeq(picked(b))
  <2> HIDE DEF picked
  <2> QED
    BY <1>2, FlattenConcat
<1> QED
  BY <1>3, <1>4 DEF Carried

(* Nothing of a kind that is not queued.                                   *)
LEMMA CarriedNone ==
  ASSUME NEW queue \in Seq(Entry), NEW kinds, NEW field \in {"byte", "carries"},
         \A i \in DOMAIN queue : queue[i].carries \notin kinds
  PROVE  Carried(queue, kinds, field) = <<>>
<1> DEFINE picked == [i \in DOMAIN queue |-> IF queue[i].carries \in kinds THEN <<queue[i][field]>> ELSE <<>>]
<1>1. PICK n \in Nat : n = Len(queue) /\ DOMAIN queue = 1..n
  BY Members
<1>2. picked = [i \in 1..n |-> <<>>]
  BY <1>1
<1>3. picked \in Seq(Seq(Values(field)))
  BY PickedTyped
<1> DEFINE f == [k \in 0..n |-> <<>>]
<1>4. Len(picked) = n
  BY <1>1, <1>2
<1>5. f \in [0..n -> Seq(Values(field))] /\ f[0] = <<>> /\ f[n] = <<>>
  OBVIOUS
<1>6. \A k \in 1..n : f[k] = f[k - 1] \o picked[k]
  <2> TAKE k \in 1..n
  <2>1. f[k] = <<>> /\ f[k - 1] = <<>> /\ picked[k] = <<>>
    BY <1>2
  <2>2. <<>> \o <<>> = <<>>
    OBVIOUS
  <2> QED
    BY <2>1, <2>2
<1> HIDE DEF f, picked
<1>7. FlattenSeq(picked) = f[n]
  BY <1>3, <1>4, <1>5, <1>6, FlattenJoins DEF Joins
<1> QED
  BY <1>5, <1>7 DEF Carried, picked

LEMMA CarriedOne ==
  ASSUME NEW entry \in Entry, NEW kinds, NEW field \in {"byte", "carries"}
  PROVE  Carried(<<entry>>, kinds, field) = IF entry.carries \in kinds THEN <<entry[field]>> ELSE <<>>
<1> DEFINE s == IF entry.carries \in kinds THEN <<entry[field]>> ELSE <<>>
           picked == [i \in DOMAIN <<entry>> |->
                        IF <<entry>>[i].carries \in kinds THEN <<<<entry>>[i][field]>> ELSE <<>>]
<1>1. s \in Seq(Values(field))
  <2>1. entry[field] \in Values(field)
    BY DEF Values
  <2>2. <<>> \in Seq(Values(field)) /\ <<entry[field]>> \in Seq(Values(field))
    BY <2>1
  <2> QED
    BY <2>2
<1>2. picked = Append(<<>>, s)
  <2>1. DOMAIN <<entry>> = 1..1 /\ <<entry>>[1] = entry
    OBVIOUS
  <2>2. picked = [i \in 1..1 |-> s]
    BY <2>1
  <2> QED
    BY <2>2
<1>3. <<>> \in Seq(Seq(Values(field)))
  OBVIOUS
<1> HIDE DEF s
<1>4. FlattenSeq(Append(<<>>, s)) = <<>> \o s
  BY <1>1, <1>3, FlattenAppend, FlattenEmpty
<1>5. <<>> \o s = s
  BY <1>1, ConcatEmptySeq
<1> QED
  BY <1>2, <1>4, <1>5 DEF Carried, s

LEMMA CarriedHead ==
  ASSUME NEW queue \in Seq(Entry), queue # <<>>, NEW kinds, NEW field \in {"byte", "carries"}
  PROVE  Carried(queue, kinds, field)
           = (IF Head(queue).carries \in kinds THEN <<Head(queue)[field]>> ELSE <<>>)
             \o Carried(Tail(queue), kinds, field)
<1>1. Head(queue) \in Entry /\ Tail(queue) \in Seq(Entry) /\ queue = <<Head(queue)>> \o Tail(queue)
  BY HeadTailProperties
<1> DEFINE head == Head(queue)
           tail == Tail(queue)
<1>2. <<head>> \in Seq(Entry) /\ head \in Entry /\ tail \in Seq(Entry)
  BY <1>1
<1>3. queue = <<head>> \o tail
  BY <1>1
<1> HIDE DEF head, tail
<1>4. Carried(<<head>> \o tail, kinds, field)
        = Carried(<<head>>, kinds, field) \o Carried(tail, kinds, field)
  BY <1>2, CarriedConcat, ZenonT(60)
<1>5. Carried(<<head>>, kinds, field) = IF head.carries \in kinds THEN <<head[field]>> ELSE <<>>
  BY <1>2, CarriedOne
<1> QED
  BY <1>3, <1>4, <1>5 DEF head, tail

(* A byte is taken for what it was queued as.                              *)
Takes(before, entry, after) ==
  LET taken == Handled(before, entry.byte)
  IN  /\ taken.state = after
      /\ taken.bytes = IF entry.carries = "byte" THEN <<entry.byte>> ELSE <<>>
      /\ taken.signal = IF entry.carries \in Signals THEN entry.carries ELSE "none"

(* A queue is: its bytes are the programs', its signals the handler's.     *)
Reads(states, queue) ==
  \A i \in 1..Len(queue) : Takes(states[i - 1], queue[i], states[i])

Understood(queue, from, to) ==
  \E states \in [0..Len(queue) -> HandlerStates] :
    states[0] = from /\ states[Len(queue)] = to /\ Reads(states, queue)

LEMMA UnderstoodNothing ==
  ASSUME NEW from \in HandlerStates
  PROVE  Understood(<<>>, from, from)
<1> DEFINE states == [i \in 0..0 |-> from]
<1>1. states \in [0..0 -> HandlerStates] /\ states[0] = from /\ Len(<<>>) = 0 /\ 1..0 = {}
  OBVIOUS
<1> QED
  BY <1>1 DEF Understood, Reads

LEMMA UnderstoodConcat ==
  ASSUME NEW a \in Seq(Entry), NEW b \in Seq(Entry), NEW from, NEW via, NEW to,
         Understood(a, from, via), Understood(b, via, to)
  PROVE  Understood(a \o b, from, to)
<1>1. PICK n \in Nat, m \in Nat : n = Len(a) /\ m = Len(b)
  BY Members
<1>2. PICK first \in [0..n -> HandlerStates] :
        first[0] = from /\ first[n] = via /\ Reads(first, a)
  BY <1>1 DEF Understood
<1>3. PICK second \in [0..m -> HandlerStates] :
        second[0] = via /\ second[m] = to /\ Reads(second, b)
  BY <1>1 DEF Understood
<1> DEFINE states == [i \in 0..n + m |-> IF i <= n THEN first[i] ELSE second[i - n]]
<1>4. /\ Len(a \o b) = n + m
      /\ \A i \in 1..n : (a \o b)[i] = a[i]
      /\ \A i \in n + 1..n + m : (a \o b)[i] = b[i - n]
  BY <1>1, ConcatProperties
<1>5. states \in [0..n + m -> HandlerStates]
  <2>1. ASSUME NEW i \in 0..n + m
        PROVE  (IF i <= n THEN first[i] ELSE second[i - n]) \in HandlerStates
    <3>1. CASE i <= n
      BY <1>2, <3>1
    <3>2. CASE ~(i <= n)
      <4>1. i - n \in 0..m
        BY <3>2
      <4> QED
        BY <1>3, <3>2, <4>1
    <3> QED
      BY <3>1, <3>2
  <2> QED
    BY <2>1
<1>6. /\ \A i \in 0..n : states[i] = first[i]
      /\ \A i \in n..n + m : states[i] = second[i - n]
  <2>1. ASSUME NEW i \in 0..n
        PROVE  states[i] = first[i]
    OBVIOUS
  <2>2. ASSUME NEW i \in n..n + m
        PROVE  states[i] = second[i - n]
    <3>1. CASE i = n
      <4>1. i - n = 0 /\ i <= n /\ i \in 0..n + m
        BY <3>1
      <4> QED
        BY <1>2, <1>3, <3>1, <4>1
    <3>2. CASE i # n
      <4>1. ~(i <= n) /\ i \in 0..n + m
        BY <3>2
      <4> QED
        BY <4>1
    <3> QED
      BY <3>1, <3>2
  <2> QED
    BY <2>1, <2>2
<1>7. states[0] = from /\ states[n + m] = to
  <2>1. n + m \in n..n + m /\ (n + m) - n = m /\ 0 \in 0..n
    OBVIOUS
  <2> HIDE DEF states
  <2> QED
    BY <1>2, <1>3, <1>6, <2>1
<1> HIDE DEF states
<1>8. ASSUME NEW i \in 1..n + m
      PROVE  Takes(states[i - 1], (a \o b)[i], states[i])
  <2>1. CASE i <= n
    <3>1. i \in 1..n /\ i - 1 \in 0..n /\ i \in 0..n
      BY <2>1
    <3>2. Takes(first[i - 1], a[i], first[i])
      BY <1>1, <1>2, <3>1 DEF Reads
    <3> QED
      BY <1>4, <1>6, <3>1, <3>2
  <2>2. CASE ~(i <= n)
    <3>1. /\ i \in n + 1..n + m /\ i - 1 \in n..n + m /\ i \in n..n + m
          /\ i - n \in 1..m /\ (i - 1) - n = (i - n) - 1
      BY <2>2
    <3>2. Takes(second[(i - n) - 1], b[i - n], second[i - n])
      BY <1>1, <1>3, <3>1 DEF Reads
    <3>3. states[i - 1] = second[(i - n) - 1] /\ states[i] = second[i - n]
      BY <1>6, <3>1
    <3> QED
      BY <1>4, <3>1, <3>2, <3>3
  <2> QED
    BY <2>1, <2>2
<1> QED
  BY <1>4, <1>5, <1>7, <1>8 DEF Understood, Reads

(* The first is taken, and what is left is understood from there.          *)
LEMMA UnderstoodHead ==
  ASSUME NEW queue \in Seq(Entry), queue # <<>>, NEW from, NEW to, Understood(queue, from, to)
  PROVE  \E via \in HandlerStates :
           Takes(from, Head(queue), via) /\ Understood(Tail(queue), via, to)
<1>1. PICK n \in Nat : n = Len(queue)
  BY Members
<1>2. n # 0 /\ n \in 0..n /\ 1 \in 0..n /\ 1 \in 1..n /\ n - 1 \in Nat /\ 1 - 1 = 0
  BY <1>1, EmptySeq
<1>3. PICK states \in [0..n -> HandlerStates] :
        states[0] = from /\ states[n] = to /\ Reads(states, queue)
  BY <1>1 DEF Understood
<1>4. Takes(from, Head(queue), states[1]) /\ states[1] \in HandlerStates
  <2>1. Takes(states[1 - 1], queue[1], states[1])
    BY <1>1, <1>2, <1>3 DEF Reads
  <2>2. Head(queue) = queue[1]
    OBVIOUS
  <2> QED
    BY <1>2, <1>3, <2>1, <2>2
<1> DEFINE rest == [i \in 0..n - 1 |-> states[i + 1]]
<1>5. Len(Tail(queue)) = n - 1 /\ \A i \in 1..n - 1 : Tail(queue)[i] = queue[i + 1]
  BY <1>1, HeadTailProperties
<1>6. \A i \in 0..n - 1 : i + 1 \in 0..n /\ rest[i] = states[i + 1]
  OBVIOUS
<1>7. rest \in [0..n - 1 -> HandlerStates]
  BY <1>3, <1>6
<1>8. rest[0] = states[1] /\ rest[n - 1] = to
  <2>1. 0 \in 0..n - 1 /\ n - 1 \in 0..n - 1 /\ 0 + 1 = 1 /\ (n - 1) + 1 = n
    BY <1>2
  <2> HIDE DEF rest
  <2> QED
    BY <1>3, <1>6, <2>1
<1> HIDE DEF rest
<1>9. ASSUME NEW i \in 1..n - 1
      PROVE  Takes(rest[i - 1], Tail(queue)[i], rest[i])
  <2>1. i - 1 \in 0..n - 1 /\ i \in 0..n - 1 /\ i + 1 \in 1..n /\ (i + 1) - 1 = (i - 1) + 1
    OBVIOUS
  <2>2. Takes(states[(i + 1) - 1], queue[i + 1], states[i + 1])
    BY <1>1, <1>3, <2>1 DEF Reads
  <2>3. rest[i - 1] = states[(i + 1) - 1] /\ rest[i] = states[i + 1]
    BY <1>6, <2>1
  <2> QED
    BY <1>5, <2>2, <2>3
<1>10. Understood(Tail(queue), states[1], to)
  BY <1>5, <1>7, <1>8, <1>9 DEF Understood, Reads
<1> QED
  BY <1>4, <1>10

(* No byte on its way to the programs is the handler's escape.  Of a byte  *)
(* that is one the code sends nothing else than of any other (the run      *)
(* wire_escape shows what comes of it), so what follows holds of the       *)
(* behaviours in which the texts, the clock, the ticks and the checksums   *)
(* make none.                                                              *)
NoEscape(queue) == \A i \in DOMAIN queue : queue[i].carries = "byte" => queue[i].byte # 255

Unescaped == NoEscape(toTarget)

LEMMA BytesUnderstood ==
  ASSUME NEW paced \in BOOLEAN, NEW queue \in Seq(Queues(paced)), NoEscape(queue)
  PROVE  Understood(queue, "normal", "normal")
<1>1. PICK n \in Nat : n = Len(queue) /\ DOMAIN queue = 1..n /\ \A i \in 1..n : queue[i] \in Queues(paced)
  BY Members
<1> DEFINE states == [i \in 0..n |-> "normal"]
<1>2. /\ states \in [0..n -> HandlerStates]
      /\ \A i \in 0..n : states[i] = "normal"
  BY DEF HandlerStates
<1> HIDE DEF states
<1>3. ASSUME NEW i \in 1..n
      PROVE  Takes(states[i - 1], queue[i], states[i])
  <2>1. states[i - 1] = "normal" /\ states[i] = "normal"
    BY <1>2
  <2>2. queue[i].carries = "byte" /\ queue[i].byte # 255
    BY <1>1 DEF Queues, NoEscape
  <2>3. "byte" \notin Signals
    BY DEF Signals
  <2> QED
    BY <2>1, <2>2, <2>3 DEF Takes, Handled
<1> QED
  BY <1>1, <1>2, <1>3 DEF Understood, Reads

LEMMA NoSignals ==
  ASSUME NEW paced \in BOOLEAN, NEW queue \in Seq(Queues(paced)), NEW kinds, "byte" \notin kinds,
         NEW field \in {"byte", "carries"}
  PROVE  Carried(queue, kinds, field) = <<>>
<1>1. DOMAIN queue = 1..Len(queue) /\ \A i \in 1..Len(queue) : queue[i] \in Queues(paced)
  BY Members
<1>2. \A i \in DOMAIN queue : queue[i].carries \notin kinds
  BY <1>1 DEF Queues
<1> QED
  BY <1>2, QueuesAreEntries, CarriedNone

(* A signal is carried by its last byte.                                   *)
LEMMA OneSignal ==
  ASSUME NEW bytes \in Seq(Bytes), bytes # <<>>, NEW signal \in Signals, NEW kinds, "signal" \notin kinds
  PROVE  Carried(Signalled(bytes, signal), kinds, "carries")
           = IF signal \in kinds THEN <<signal>> ELSE <<>>
<1>1. PICK n \in Nat \ {0} : n = Len(bytes)
  <2>1. Len(bytes) \in Nat /\ Len(bytes) # 0
    BY Members, EmptySeq
  <2> QED
    BY <2>1
<1> DEFINE queue == Signalled(bytes, signal)
           front == [i \in 1..n - 1 |-> queue[i]]
           last  == queue[n]
<1>2. queue \in Seq(Entry) /\ Len(queue) = n /\ \A i \in 1..n : queue[i] \in Entry
  <2>1. queue \in Seq(Entry)
    BY SignalledTyped
  <2>2. DOMAIN queue = 1..n
    BY <1>1 DEF Signalled
  <2> HIDE DEF queue
  <2> QED
    BY <2>1, <2>2, Members
<1>3. last.carries = signal /\ \A i \in 1..n - 1 : queue[i].carries = "signal"
  BY <1>1 DEF Signalled
<1> HIDE DEF queue
<1>4. front \in Seq(Entry) /\ Len(front) = n - 1 /\ DOMAIN front = 1..n - 1
  <2>1. front \in [1..n - 1 -> Entry] /\ n - 1 \in Nat
    BY <1>2
  <2>2. DOMAIN front = 1..n - 1
    OBVIOUS
  <2> HIDE DEF front
  <2>3. front \in Seq(Entry)
    BY <2>1, FunctionIsSequence
  <2> QED
    BY <2>1, <2>2, <2>3, Members
<1>5. last \in Entry /\ <<last>> \in Seq(Entry)
  BY <1>2
<1>6. queue = front \o <<last>>
  <2>1. \A i \in 1..n - 1 : front[i] = queue[i]
    OBVIOUS
  <2>2. front \o <<last>> \in Seq(Entry)
    BY <1>4, <1>5, ConcatProperties
  <2>3. Len(front \o <<last>>) = n
    <3> HIDE DEF front, last
    <3> QED
      BY <1>4, <1>5
  <2>4. ASSUME NEW i \in 1..n
        PROVE  (front \o <<last>>)[i] = queue[i]
    <3> HIDE DEF front
    <3>1. CASE i = n
      BY <1>4, <1>5, <3>1
    <3>2. CASE i # n
      <4>1. i \in 1..n - 1
        BY <3>2
      <4> QED
        BY <1>4, <1>5, <2>1, <4>1
    <3> QED
      BY <3>1, <3>2
  <2> HIDE DEF front, last
  <2> QED
    BY <1>2, <2>2, <2>3, <2>4, SeqEqual
<1>7. Carried(front, kinds, "carries") = <<>>
  <2>1. \A i \in DOMAIN front : front[i].carries \notin kinds
    BY <1>3, <1>4
  <2> HIDE DEF front
  <2> QED
    BY <1>4, <2>1, CarriedNone
<1>8. Carried(<<last>>, kinds, "carries") = IF signal \in kinds THEN <<signal>> ELSE <<>>
  <2> HIDE DEF last
  <2> QED
    BY <1>3, <1>5, CarriedOne
<1>9. Carried(front \o <<last>>, kinds, "carries")
        = Carried(front, kinds, "carries") \o Carried(<<last>>, kinds, "carries")
  <2> HIDE DEF front, last
  <2> QED
    BY <1>4, <1>5, CarriedConcat
<1> HIDE DEF front, last
<1>10. \A S : \A s \in Seq(S) : <<>> \o s = s
  BY ConcatEmptySeq
<1> QED
  BY <1>6, <1>7, <1>8, <1>9 DEF queue

LEMMA RecoveryUnderstood ==
  /\ Understood(Signalled(<<255, 4>>, "restart"), "normal", "normal")
  /\ Understood(Signalled(<<255, 5>>, "reboot"), "normal", "normal")
<1> DEFINE states == [i \in 0..2 |-> IF i = 1 THEN "escape" ELSE "normal"]
<1>1. /\ states \in [0..2 -> HandlerStates]
      /\ states[0] = "normal" /\ states[1] = "escape" /\ states[2] = "normal"
  BY DEF HandlerStates
<1> HIDE DEF states
<1>2. 1..2 = {1, 2} /\ 1 - 1 = 0 /\ 2 - 1 = 1
  OBVIOUS
<1>3. Understood(Signalled(<<255, 4>>, "restart"), "normal", "normal")
  <2> DEFINE queue == Signalled(<<255, 4>>, "restart")
  <2>1. /\ Len(queue) = 2
        /\ queue[1].byte = 255 /\ queue[1].carries = "signal"
        /\ queue[2].byte = 4 /\ queue[2].carries = "restart"
    BY DEF Signalled
  <2> HIDE DEF queue
  <2>2. Takes(states[0], queue[1], states[1])
    BY <1>1, <2>1 DEF Takes, Handled, Signals
  <2>3. Takes(states[1], queue[2], states[2])
    BY <1>1, <2>1 DEF Takes, Handled, Signals
  <2>4. Reads(states, queue)
    BY <1>2, <2>1, <2>2, <2>3 DEF Reads
  <2>5. Understood(queue, "normal", "normal")
    BY <1>1, <2>1, <2>4 DEF Understood
  <2> QED
    BY <2>5 DEF queue
<1>4. Understood(Signalled(<<255, 5>>, "reboot"), "normal", "normal")
  <2> DEFINE queue == Signalled(<<255, 5>>, "reboot")
  <2>1. /\ Len(queue) = 2
        /\ queue[1].byte = 255 /\ queue[1].carries = "signal"
        /\ queue[2].byte = 5 /\ queue[2].carries = "reboot"
    BY DEF Signalled
  <2> HIDE DEF queue
  <2>2. Takes(states[0], queue[1], states[1])
    BY <1>1, <2>1 DEF Takes, Handled, Signals
  <2>3. Takes(states[1], queue[2], states[2])
    BY <1>1, <2>1 DEF Takes, Handled, Signals
  <2>4. Reads(states, queue)
    BY <1>2, <2>1, <2>2, <2>3 DEF Reads
  <2>5. Understood(queue, "normal", "normal")
    BY <1>1, <2>1, <2>4 DEF Understood
  <2> QED
    BY <2>5 DEF queue
<1> QED
  BY <1>3, <1>4

LEMMA TwoAndThree ==
  ASSUME NEW a \in Seq(Bytes), NEW b \in Seq(Bytes), Len(a) = 2, Len(b) = 3
  PROVE  Len(a \o b) = 5 /\ (a \o b)[1] = a[1] /\ (a \o b)[2] = a[2]
<1>1. Len(a \o b) = Len(a) + Len(b)
  BY ConcatProperties
<1>2. \A i \in 1..Len(a) + Len(b) : (a \o b)[i] = IF i <= Len(a) THEN a[i] ELSE b[i - Len(a)]
  BY ConcatProperties
<1>3. 1 \in 1..Len(a) + Len(b) /\ 2 \in 1..Len(a) + Len(b) /\ 1 <= Len(a) /\ 2 <= Len(a)
  OBVIOUS
<1> HIDE DEF Bytes
<1> QED
  BY <1>1, <1>2, <1>3

(* Whatever the tick is: the three bytes after 255, 1 are not looked at.   *)
LEMMA HeartbeatUnderstood ==
  ASSUME tick \in Nat
  PROVE  Understood(Heartbeat, "normal", "normal")
<1> DEFINE states == [i \in 0..5 |-> CASE i = 1 -> "escape" [] i = 2 -> "tick0" [] i = 3 -> "tick1"
                                       [] i = 4 -> "tick2" [] OTHER -> "normal"]
<1>1. /\ states \in [0..5 -> HandlerStates]
      /\ states[0] = "normal" /\ states[1] = "escape" /\ states[2] = "tick0"
      /\ states[3] = "tick1" /\ states[4] = "tick2" /\ states[5] = "normal"
  BY DEF HandlerStates
<1> HIDE DEF states
<1>2. /\ Len(Heartbeat) = 5
      /\ Heartbeat[1].byte = 255 /\ Heartbeat[1].carries = "signal"
      /\ Heartbeat[2].byte = 1 /\ Heartbeat[2].carries = "signal"
      /\ Heartbeat[3].carries = "signal" /\ Heartbeat[4].carries = "signal"
      /\ Heartbeat[5].carries = "heartbeat"
  <2> DEFINE start == <<255, 1>>
             number == ThreeBytes(tick)
             bytes == start \o number
  <2>1. number \in Seq(Bytes) /\ Len(number) = 3
    BY ThreeBytesTyped
  <2>2. start \in Seq(Bytes) /\ Len(start) = 2 /\ start[1] = 255 /\ start[2] = 1
    BY DEF Bytes
  <2> HIDE DEF start, number
  <2>4. Len(bytes) = 5 /\ bytes[1] = 255 /\ bytes[2] = 1
    BY <2>1, <2>2, TwoAndThree
  <2> HIDE DEF bytes
  <2>3. Heartbeat = Signalled(bytes, "heartbeat")
    BY DEF Heartbeat, bytes, start, number
  <2> QED
    BY <2>3, <2>4 DEF Signalled
<1>3. Takes(states[0], Heartbeat[1], states[1])
  BY <1>1, <1>2 DEF Takes, Handled, Signals
<1>4. Takes(states[1], Heartbeat[2], states[2])
  BY <1>1, <1>2 DEF Takes, Handled, Signals
<1>5. Takes(states[2], Heartbeat[3], states[3])
  BY <1>1, <1>2 DEF Takes, Handled, Signals
<1>6. Takes(states[3], Heartbeat[4], states[4])
  BY <1>1, <1>2 DEF Takes, Handled, Signals
<1>7. Takes(states[4], Heartbeat[5], states[5])
  BY <1>1, <1>2 DEF Takes, Handled, Signals
<1>8. Reads(states, Heartbeat)
  <2>1. 1..5 = {1, 2, 3, 4, 5} /\ 1 - 1 = 0 /\ 2 - 1 = 1 /\ 3 - 1 = 2 /\ 4 - 1 = 3 /\ 5 - 1 = 4
    OBVIOUS
  <2> QED
    BY <1>2, <1>3, <1>4, <1>5, <1>6, <1>7, <2>1 DEF Reads
<1> QED
  BY <1>1, <1>2, <1>8 DEF Understood

-----------------------------------------------------------------------------
(* Recoveries and heartbeats.                                              *)

(* The handler is in step with the queue; what it took and what the queue  *)
(* still carries are all there was to take.                                *)
LineIInv ==
  /\ Understood(toTarget, handler, "normal")
  /\ asked = recovered \o Carried(toTarget, Recoveries, "carries")
  /\ tick = beats + Len(Carried(toTarget, {"heartbeat"}, "carries"))
  /\ phase = "listening" => toTarget = <<>>

LEMMA SignalKinds ==
  /\ "byte" \notin Recoveries /\ "signal" \notin Recoveries /\ "heartbeat" \notin Recoveries
  /\ "byte" \notin {"heartbeat"} /\ "signal" \notin {"heartbeat"}
  /\ Recoveries \subseteq Signals /\ "heartbeat" \in Signals
  /\ "byte" \notin Signals /\ "signal" \notin Signals
  BY DEF Recoveries, Signals

(* What an entry may be queued as.                                         *)
Carriers == {"byte", "signal"} \cup Signals

LEMMA CarriedSignals ==
  ASSUME NEW queue \in Seq(Entry), NEW kinds
  PROVE  /\ Carried(queue, kinds, "carries") \in Seq(Carriers)
         /\ Len(Carried(queue, kinds, "carries")) \in Nat
<1>1. Values("carries") \subseteq Carriers
  <2>1. ASSUME NEW entry \in Entry
        PROVE  entry["carries"] \in Carriers
    BY DEF Entry, Carriers
  <2> QED
    BY <2>1 DEF Values
<1>2. Carried(queue, kinds, "carries") \in Seq(Values("carries"))
  BY CarriedTyped
<1>3. Seq(Values("carries")) \subseteq Seq(Carriers)
  BY <1>1, SeqMonotonic
<1>4. Carried(queue, kinds, "carries") \in Seq(Carriers)
  BY <1>2, <1>3
<1> QED
  BY <1>4, Members

(* What typing, a recovery and a turn queue, in one form.                  *)
Added(queue) ==
  /\ queue \in Seq(Entry) /\ toTarget' = toTarget \o queue
  /\ Understood(queue, "normal", "normal")

LEMMA AddedUnderstood ==
  ASSUME TypeIInv, LineIInv, NEW queue, Added(queue), handler' = handler
  PROVE  Understood(toTarget', handler', "normal")
  BY UnderstoodConcat DEF TypeIInv, LineIInv, Added

LEMMA AddedCarries ==
  ASSUME TypeIInv, NEW queue, Added(queue), NEW kinds, NEW field \in {"byte", "carries"}
  PROVE  Carried(toTarget', kinds, field) = Carried(toTarget, kinds, field) \o Carried(queue, kinds, field)
  BY CarriedConcat DEF TypeIInv, Added

(* The bytes that follow others are as free of escapes as all of them.     *)
LEMMA LaterBytes ==
  ASSUME NEW a \in Seq(Entry), NEW b \in Seq(Entry), NoEscape(a \o b)
  PROVE  NoEscape(b)
<1>1. PICK n \in Nat, m \in Nat : n = Len(a) /\ m = Len(b) /\ DOMAIN b = 1..m
  BY Members
<1> DEFINE c == a \o b
<1>2. ASSUME NEW i \in 1..m
      PROVE  n + i \in DOMAIN c /\ c[n + i] = b[i]
  <2>1. n + i \in 1..n + m /\ ~(n + i <= n) /\ (n + i) - n = i
    BY <1>1
  <2>2. Len(c) = n + m /\ c \in Seq(Entry)
    BY <1>1, ConcatProperties
  <2>3. DOMAIN c = 1..n + m
    <3> HIDE DEF c
    <3> QED
      BY <2>2, Members
  <2> QED
    BY <1>1, <2>1, <2>3, ConcatProperties
<1>3. NoEscape(c)
  OBVIOUS
<1> HIDE DEF c
<1> QED
  BY <1>1, <1>2, <1>3 DEF NoEscape

LEMMA EarlierBytes ==
  ASSUME NEW a \in Seq(Entry), NEW b \in Seq(Entry), NoEscape(a \o b)
  PROVE  NoEscape(a)
<1>1. PICK n \in Nat, m \in Nat : n = Len(a) /\ m = Len(b) /\ DOMAIN a = 1..n
  BY Members
<1> DEFINE c == a \o b
<1>2. ASSUME NEW i \in 1..n
      PROVE  i \in DOMAIN c /\ c[i] = a[i]
  <2>1. i \in 1..n + m /\ i <= n
    BY <1>1
  <2>2. Len(c) = n + m /\ c \in Seq(Entry)
    BY <1>1, ConcatProperties
  <2>3. DOMAIN c = 1..n + m
    <3> HIDE DEF c
    <3> QED
      BY <2>2, Members
  <2> QED
    BY <1>1, <2>1, <2>3, ConcatProperties
<1>3. NoEscape(c)
  OBVIOUS
<1> HIDE DEF c
<1> QED
  BY <1>1, <1>2, <1>3 DEF NoEscape

LEMMA TypeAdds ==
  ASSUME TypeIInv, Unescaped', NEW text \in Texts, Type(text)
  PROVE  /\ Added(ToChannel(text))
         /\ ToChannel(text) \in Seq(Queues(mode = "Framed"))
<1>1. text \in Seq(Bytes)
  <2>1. text \in Seq(0..244) /\ 0..244 \subseteq Bytes
    BY TextAssumption DEF Bytes
  <2> QED
    BY <2>1, SeqMonotonic
<1>2. ToChannel(text) \in Seq(Queues(mode = "Framed")) /\ ToChannel(text) \in Seq(Entry)
  BY <1>1, ToChannelTyped, QueuesAreEntries
<1>3. toTarget' = toTarget \o ToChannel(text)
  BY DEF Type
<1>4. NoEscape(ToChannel(text))
  BY <1>2, <1>3, LaterBytes DEF TypeIInv, Unescaped
<1> QED
  BY <1>2, <1>3, <1>4, BytesUnderstood DEF Added

LEMMA RecoverAdds ==
  ASSUME TypeIInv, RestartShell \/ RebootSystem
  PROVE  \E bytes \in Seq(Bytes), signal \in Recoveries :
           /\ Recover(bytes, signal) /\ bytes # <<>>
           /\ Added(Signalled(bytes, signal))
<1>1. /\ <<255, 4>> \in Seq(Bytes) /\ <<255, 4>> # <<>>
      /\ <<255, 5>> \in Seq(Bytes) /\ <<255, 5>> # <<>>
      /\ "restart" \in Recoveries /\ "reboot" \in Recoveries
  BY DEF Bytes, Recoveries
<1>2. CASE RestartShell
  <2>1. Signalled(<<255, 4>>, "restart") \in Seq(Entry)
    BY <1>1, SignalKinds, SignalledTyped
  <2>2. Recover(<<255, 4>>, "restart")
    BY <1>2 DEF RestartShell
  <2>3. toTarget' = toTarget \o Signalled(<<255, 4>>, "restart")
    BY <2>2 DEF Recover, Request
  <2> QED
    BY <1>1, <2>1, <2>2, <2>3, RecoveryUnderstood, ZenonT(60) DEF Added
<1>3. CASE RebootSystem
  <2>1. Signalled(<<255, 5>>, "reboot") \in Seq(Entry)
    BY <1>1, SignalKinds, SignalledTyped
  <2>2. Recover(<<255, 5>>, "reboot")
    BY <1>3 DEF RebootSystem
  <2>3. toTarget' = toTarget \o Signalled(<<255, 5>>, "reboot")
    BY <2>2 DEF Recover, Request
  <2> QED
    BY <1>1, <2>1, <2>2, <2>3, RecoveryUnderstood, ZenonT(60) DEF Added
<1> QED
  BY <1>2, <1>3

LEMMA TurnAdds ==
  ASSUME TypeIInv, Unescaped', NEW second \in Seconds, BeginTurn(second)
  PROVE  /\ Added(Frames(second) \o Heartbeat)
         /\ Frames(second) \in Seq(Queues(TRUE))
         /\ Frames(second) \in Seq(Entry) /\ Heartbeat \in Seq(Entry)
<1>1. Frames(second) \in Seq(Queues(TRUE)) /\ Frames(second) \in Seq(Entry)
  BY FramesTyped, QueuesAreEntries
<1>2. Heartbeat \in Seq(Entry) /\ Understood(Heartbeat, "normal", "normal")
  BY HeartbeatTyped, HeartbeatUnderstood DEF TypeIInv
<1>3. toTarget' = toTarget \o Frames(second) \o Heartbeat /\ toTarget \in Seq(Entry)
  BY DEF BeginTurn, TypeIInv
<1>4. toTarget' = toTarget \o (Frames(second) \o Heartbeat)
  BY <1>1, <1>2, <1>3, ConcatAssociative
<1>5. Frames(second) \o Heartbeat \in Seq(Entry)
  BY <1>1, <1>2, ConcatProperties
<1>6. NoEscape(Frames(second))
  <2>1. NoEscape(Frames(second) \o Heartbeat)
    BY <1>3, <1>4, <1>5, LaterBytes DEF Unescaped
  <2> QED
    BY <1>1, <1>2, <2>1, EarlierBytes
<1>7. Understood(Frames(second), "normal", "normal")
  BY <1>1, <1>6, BytesUnderstood
<1> QED
  BY <1>1, <1>2, <1>4, <1>5, <1>7, UnderstoodConcat DEF Added

(* Delivered is the first of the queue, taken for what it was queued as.   *)
LEMMA DeliverTakes ==
  ASSUME TypeIInv, LineIInv, Deliver
  PROVE  /\ Head(toTarget) \in Entry
         /\ Takes(handler, Head(toTarget), handler')
         /\ Understood(toTarget', handler', "normal")
<1>1. toTarget # <<>> /\ toTarget \in Seq(Entry) /\ toTarget' = Tail(toTarget)
  BY DEF Deliver, TypeIInv
<1>2. Head(toTarget) \in Entry
  BY <1>1, HeadTailProperties
<1>3. PICK via \in HandlerStates :
        Takes(handler, Head(toTarget), via) /\ Understood(Tail(toTarget), via, "normal")
  BY <1>1, UnderstoodHead DEF LineIInv
<1>4. handler' = Handled(handler, Head(toTarget).byte).state
  BY DEF Deliver
<1>5. handler' = via
  BY <1>3, <1>4 DEF Takes
<1> QED
  BY <1>1, <1>2, <1>3, <1>5

LEMMA LinePerson ==
  ASSUME TypeIInv, LineIInv, Unescaped', Person
  PROVE  LineIInv'
<1>1. UNCHANGED <<handler, recovered, tick, beats, phase>> /\ phase = "between"
  BY DEF Person, Type, RestartShell, RebootSystem, Recover, Sends, machine
<1>2. ASSUME NEW text \in Texts, Type(text)
      PROVE  LineIInv'
  <2> DEFINE queue == ToChannel(text)
  <2>1. Added(queue) /\ queue \in Seq(Queues(mode = "Framed")) /\ (mode = "Framed") \in BOOLEAN
    BY <1>2, TypeAdds
  <2> HIDE DEF queue
  <2>2. \A kinds : "byte" \notin kinds => Carried(queue, kinds, "carries") = <<>>
    BY <2>1, NoSignals
  <2>3. /\ Carried(toTarget', Recoveries, "carries") = Carried(toTarget, Recoveries, "carries")
        /\ Carried(toTarget', {"heartbeat"}, "carries") = Carried(toTarget, {"heartbeat"}, "carries")
    <3>1. \A kinds : "byte" \notin kinds =>
            Carried(toTarget', kinds, "carries") = Carried(toTarget, kinds, "carries") \o <<>>
      BY <2>1, <2>2, AddedCarries
    <3>2. \A kinds : Carried(toTarget, kinds, "carries") \o <<>> = Carried(toTarget, kinds, "carries")
      <4> TAKE kinds
      <4>1. Carried(toTarget, kinds, "carries") \in Seq(Carriers)
        BY CarriedSignals DEF TypeIInv
      <4> QED
        BY <4>1, ConcatEmptySeq
    <3> QED
      BY <3>1, <3>2, SignalKinds
  <2>4. asked' = asked
    BY <1>2 DEF Type
  <2>5. Understood(toTarget', handler', "normal")
    BY <1>1, <2>1, AddedUnderstood
  <2> QED
    BY <1>1, <2>3, <2>4, <2>5 DEF LineIInv
<1>3. ASSUME RestartShell \/ RebootSystem
      PROVE  LineIInv'
  <2>1. PICK bytes \in Seq(Bytes), signal \in Recoveries :
          /\ Recover(bytes, signal) /\ bytes # <<>>
          /\ Added(Signalled(bytes, signal))
    BY <1>3, RecoverAdds
  <2> DEFINE queue == Signalled(bytes, signal)
  <2>2. signal \in Signals /\ signal \notin {"heartbeat"}
    BY <2>1, SignalKinds
  <2>3. Carried(queue, Recoveries, "carries") = <<signal>>
    BY <2>1, <2>2, SignalKinds, OneSignal
  <2>4. Carried(queue, {"heartbeat"}, "carries") = <<>>
    BY <2>1, <2>2, SignalKinds, OneSignal
  <2>5. Added(queue)
    BY <2>1
  <2> HIDE DEF queue
  <2>6. /\ Carried(toTarget', Recoveries, "carries") = Carried(toTarget, Recoveries, "carries") \o <<signal>>
        /\ Carried(toTarget', {"heartbeat"}, "carries")
             = Carried(toTarget, {"heartbeat"}, "carries") \o <<>>
    BY <2>3, <2>4, <2>5, AddedCarries
  <2>7. Carried(toTarget', {"heartbeat"}, "carries") = Carried(toTarget, {"heartbeat"}, "carries")
    <3>1. Carried(toTarget, {"heartbeat"}, "carries") \in Seq(Carriers)
      BY CarriedSignals DEF TypeIInv
    <3> QED
      BY <2>6, <3>1, ConcatEmptySeq
  <2>8. asked' = recovered' \o Carried(toTarget', Recoveries, "carries")
    <3> DEFINE carried == Carried(toTarget, Recoveries, "carries")
    <3>1. carried \in Seq(Carriers) /\ recovered \in Seq(Carriers) /\ <<signal>> \in Seq(Carriers)
          /\ signal \in Carriers
      <4>1. Recoveries \subseteq Carriers
        BY SignalKinds DEF Carriers
      <4>2. recovered \in Seq(Carriers)
        BY <4>1, SeqMonotonic DEF TypeIInv
      <4>3. signal \in Carriers
        BY <2>1, <4>1
      <4> QED
        BY <4>2, <4>3, CarriedSignals DEF TypeIInv
    <3>2. asked = recovered \o carried /\ asked' = Append(asked, signal)
      BY <2>1 DEF LineIInv, Recover
    <3> HIDE DEF carried
    <3>3. asked \in Seq(Carriers)
      BY <3>1, <3>2, ConcatProperties
    <3>4. asked' = (recovered \o carried) \o <<signal>>
      BY <3>1, <3>2, <3>3, AppendIsConcat
    <3>5. asked' = recovered \o (carried \o <<signal>>)
      BY <3>1, <3>4, ConcatAssociative
    <3> QED
      BY <1>1, <2>6, <3>5 DEF carried
  <2>9. Understood(toTarget', handler', "normal")
    BY <1>1, <2>5, AddedUnderstood
  <2> QED
    BY <1>1, <2>7, <2>8, <2>9 DEF LineIInv
<1> QED
  BY <1>2, <1>3 DEF Person

LEMMA LineTurn ==
  ASSUME TypeIInv, LineIInv, Unescaped', NEW second \in Seconds, BeginTurn(second)
  PROVE  LineIInv'
<1> DEFINE queue == Frames(second) \o Heartbeat
<1>1. /\ Added(queue) /\ Frames(second) \in Seq(Queues(TRUE))
      /\ Frames(second) \in Seq(Entry) /\ Heartbeat \in Seq(Entry)
  BY TurnAdds
<1>2. \A kinds : Carried(queue, kinds, "carries")
                   = Carried(Frames(second), kinds, "carries") \o Carried(Heartbeat, kinds, "carries")
  BY <1>1, CarriedConcat
<1>3. \A kinds : "byte" \notin kinds => Carried(Frames(second), kinds, "carries") = <<>>
  BY <1>1, NoSignals
<1>4. \A kinds : "signal" \notin kinds =>
        Carried(Heartbeat, kinds, "carries") = IF "heartbeat" \in kinds THEN <<"heartbeat">> ELSE <<>>
  <2> DEFINE bytes == <<255, 1>> \o ThreeBytes(tick)
  <2>1. bytes \in Seq(Bytes) /\ bytes # <<>>
    <3>1. ThreeBytes(tick) \in Seq(Bytes) /\ Len(ThreeBytes(tick)) = 3
      BY ThreeBytesTyped DEF TypeIInv
    <3>2. <<255, 1>> \in Seq(Bytes) /\ Len(<<255, 1>>) = 2
      BY DEF Bytes
    <3>3. bytes \in Seq(Bytes)
      BY <3>1, <3>2, ConcatProperties
    <3>4. Len(bytes) = Len(<<255, 1>>) + Len(ThreeBytes(tick))
      BY <3>1, <3>2, ConcatProperties, ZenonT(60)
    <3>5. Len(bytes) = 5
      BY <3>1, <3>2, <3>4
    <3>6. bytes = <<>> => Len(bytes) = 0
      OBVIOUS
    <3> HIDE DEF bytes
    <3> QED
      BY <3>3, <3>5, <3>6
  <2> HIDE DEF bytes
  <2>2. \A kinds : "signal" \notin kinds =>
          Carried(Signalled(bytes, "heartbeat"), kinds, "carries")
            = IF "heartbeat" \in kinds THEN <<"heartbeat">> ELSE <<>>
    BY <2>1, SignalKinds, OneSignal
  <2> QED
    BY <2>2 DEF Heartbeat, bytes
<1> HIDE DEF queue
<1>5. Carried(queue, Recoveries, "carries") = <<>> /\ Carried(queue, {"heartbeat"}, "carries") = <<"heartbeat">>
  <2>1. <<>> \o <<>> = <<>> /\ <<>> \o <<"heartbeat">> = <<"heartbeat">>
    OBVIOUS
  <2>2. Carried(queue, Recoveries, "carries") = <<>> \o <<>>
    BY <1>2, <1>3, <1>4, SignalKinds
  <2>3. Carried(queue, {"heartbeat"}, "carries") = <<>> \o <<"heartbeat">>
    BY <1>2, <1>3, <1>4, SignalKinds
  <2> QED
    BY <2>1, <2>2, <2>3
<1>6. /\ Carried(toTarget, Recoveries, "carries") \in Seq(Carriers)
      /\ Carried(toTarget, {"heartbeat"}, "carries") \in Seq(Carriers)
  BY CarriedSignals DEF TypeIInv
<1>7. Carried(toTarget', Recoveries, "carries") = Carried(toTarget, Recoveries, "carries")
  <2>1. Carried(toTarget', Recoveries, "carries") = Carried(toTarget, Recoveries, "carries") \o <<>>
    BY <1>1, <1>5, AddedCarries
  <2> QED
    BY <1>6, <2>1, ConcatEmptySeq
<1>8. Len(Carried(toTarget', {"heartbeat"}, "carries"))
        = Len(Carried(toTarget, {"heartbeat"}, "carries")) + 1
  <2> DEFINE carried == Carried(toTarget, {"heartbeat"}, "carries")
  <2>1. Carried(toTarget', {"heartbeat"}, "carries") = carried \o <<"heartbeat">>
    BY <1>1, <1>5, AddedCarries
  <2>2. <<"heartbeat">> \in Seq(Carriers) /\ Len(<<"heartbeat">>) = 1
    BY DEF Carriers, Signals
  <2>3. carried \in Seq(Carriers)
    BY <1>6
  <2> HIDE DEF carried
  <2>4. Len(carried \o <<"heartbeat">>) = Len(carried) + Len(<<"heartbeat">>)
    BY <2>2, <2>3, ConcatProperties
  <2> QED
    BY <2>1, <2>2, <2>4 DEF carried
<1>9. /\ tick' = tick + 1 /\ phase' = "delivering"
      /\ UNCHANGED <<handler, recovered, asked, beats>>
  BY DEF BeginTurn, machine, history
<1>10. Understood(toTarget', handler', "normal")
  BY <1>1, <1>9, AddedUnderstood
<1>11. tick' = beats' + Len(Carried(toTarget', {"heartbeat"}, "carries"))
  <2>1. Len(Carried(toTarget, {"heartbeat"}, "carries")) \in Nat /\ beats \in Nat
    BY CarriedSignals DEF TypeIInv
  <2> QED
    BY <1>8, <1>9, <2>1 DEF LineIInv
<1> QED
  BY <1>7, <1>9, <1>10, <1>11 DEF LineIInv

LEMMA LineDeliver ==
  ASSUME TypeIInv, LineIInv, Deliver
  PROVE  LineIInv'
<1> DEFINE head == Head(toTarget)
           rest(kinds) == Carried(toTarget', kinds, "carries")
<1>1. /\ head \in Entry /\ Takes(handler, head, handler')
      /\ Understood(toTarget', handler', "normal")
  BY DeliverTakes
<1>2. /\ toTarget # <<>> /\ toTarget \in Seq(Entry) /\ toTarget' = Tail(toTarget)
      /\ phase' = "delivering" /\ asked' = asked /\ tick' = tick
  BY DEF Deliver, TypeIInv
<1>3. /\ recovered' = IF Handled(handler, head.byte).signal \in {"restart", "reboot"}
                      THEN Append(recovered, Handled(handler, head.byte).signal) ELSE recovered
      /\ beats' = IF Handled(handler, head.byte).signal = "heartbeat" THEN beats + 1 ELSE beats
  BY DEF Deliver
<1>4. Tail(toTarget) \in Seq(Entry)
  BY <1>2, HeadTailProperties
<1>5. \A kinds : /\ Carried(toTarget, kinds, "carries")
                      = (IF head.carries \in kinds THEN <<head.carries>> ELSE <<>>) \o rest(kinds)
                 /\ rest(kinds) \in Seq(Carriers) /\ Len(rest(kinds)) \in Nat
  BY <1>2, <1>4, CarriedHead, CarriedSignals
<1>6. head.carries \in Carriers /\ "none" \notin Signals
  BY <1>1 DEF Entry, Carriers, Signals
<1>7. Handled(handler, head.byte).signal = IF head.carries \in Signals THEN head.carries ELSE "none"
  BY <1>1 DEF Takes
<1> HIDE DEF head, rest
<1>8. asked' = recovered' \o rest(Recoveries)
  <2>1. recovered \in Seq(Carriers) /\ rest(Recoveries) \in Seq(Carriers)
    <3>1. Recoveries \subseteq Carriers
      BY SignalKinds DEF Carriers
    <3> QED
      BY <1>5, <3>1, SeqMonotonic DEF TypeIInv
  <2>2. asked = recovered \o Carried(toTarget, Recoveries, "carries")
    BY DEF LineIInv
  <2>3. CASE head.carries \in Recoveries
    <3>1. recovered' = Append(recovered, head.carries)
      BY <1>3, <1>7, <2>3, SignalKinds DEF Recoveries
    <3>2. <<head.carries>> \in Seq(Carriers)
      BY <1>6
    <3>3. recovered' = recovered \o <<head.carries>>
      BY <1>6, <2>1, <3>1, AppendIsConcat
    <3>4. asked = recovered \o (<<head.carries>> \o rest(Recoveries))
      BY <1>5, <2>2, <2>3
    <3>5. asked = (recovered \o <<head.carries>>) \o rest(Recoveries)
      BY <2>1, <3>2, <3>4, ConcatAssociative
    <3> QED
      BY <1>2, <3>3, <3>5
  <2>4. CASE head.carries \notin Recoveries
    <3>1. recovered' = recovered
      BY <1>3, <1>6, <1>7, <2>4 DEF Recoveries
    <3>2. Carried(toTarget, Recoveries, "carries") = rest(Recoveries)
      <4>1. Carried(toTarget, Recoveries, "carries") = <<>> \o rest(Recoveries)
        BY <1>5, <2>4
      <4> QED
        BY <2>1, <4>1, ConcatEmptySeq
    <3> QED
      BY <1>2, <2>2, <3>1, <3>2
  <2> QED
    BY <2>3, <2>4
<1>9. tick' = beats' + Len(rest({"heartbeat"}))
  <2>1. /\ tick = beats + Len(Carried(toTarget, {"heartbeat"}, "carries")) /\ beats \in Nat
        /\ rest({"heartbeat"}) \in Seq(Carriers) /\ Len(rest({"heartbeat"})) \in Nat
    BY <1>5 DEF LineIInv, TypeIInv
  <2>2. CASE head.carries = "heartbeat"
    <3>1. beats' = beats + 1
      BY <1>3, <1>7, <2>2, SignalKinds
    <3>2. Carried(toTarget, {"heartbeat"}, "carries") = <<head.carries>> \o rest({"heartbeat"})
      BY <1>5, <2>2
    <3>3. <<head.carries>> \in Seq(Carriers) /\ Len(<<head.carries>>) = 1
      BY <1>6
    <3>4. Len(<<head.carries>> \o rest({"heartbeat"})) = 1 + Len(rest({"heartbeat"}))
      BY <2>1, <3>3, ConcatProperties
    <3> QED
      BY <1>2, <2>1, <3>1, <3>2, <3>4
  <2>3. CASE head.carries # "heartbeat"
    <3>1. beats' = beats
      BY <1>3, <1>7, <2>3
    <3>2. Carried(toTarget, {"heartbeat"}, "carries") = <<>> \o rest({"heartbeat"})
      BY <1>5, <2>3
    <3>3. Carried(toTarget, {"heartbeat"}, "carries") = rest({"heartbeat"})
      BY <2>1, <3>2, ConcatEmptySeq
    <3> QED
      BY <1>2, <2>1, <3>1, <3>3
  <2> QED
    BY <2>2, <2>3
<1>10. Understood(toTarget', handler', "normal")
  BY <1>1
<1> QED
  BY <1>2, <1>8, <1>9, <1>10 DEF LineIInv, rest

LEMMA LineStep ==
  ASSUME TypeIInv, LineIInv, Unescaped', [Next]_vars
  PROVE  LineIInv'
<1>1. CASE Person
  BY <1>1, LinePerson
<1>2. ASSUME NEW second \in Seconds, BeginTurn(second)
      PROVE  LineIInv'
  BY <1>2, LineTurn
<1>3. CASE Deliver
  BY <1>3, LineDeliver
<1>4. CASE LastBatch
  BY <1>4 DEF LastBatch, LineIInv
<1>5. CASE Listen
  <2>1. phase' = "between" /\ UNCHANGED <<toTarget, handler, asked, recovered, tick, beats>>
    BY <1>5 DEF Listen, machine
  <2> QED
    BY <2>1 DEF LineIInv
<1>6. CASE UNCHANGED vars
  BY <1>6 DEF vars, host, machine, history, LineIInv
<1> QED
  BY <1>1, <1>2, <1>3, <1>4, <1>5, <1>6 DEF Next, Turn

LEMMA LineInit == Init => LineIInv
<1> SUFFICES ASSUME Init
             PROVE  LineIInv
  OBVIOUS
<1>1. /\ toTarget = <<>> /\ handler = "normal" /\ asked = <<>> /\ recovered = <<>>
      /\ tick = 0 /\ beats = 0 /\ phase = "between"
  BY DEF Init
<1>2. \A kinds : Carried(<<>>, kinds, "carries") = <<>>
  <2>1. <<>> \in Seq(Entry) /\ DOMAIN <<>> = {}
    OBVIOUS
  <2> QED
    BY <2>1, CarriedNone
<1>3. Understood(<<>>, "normal", "normal")
  BY UnderstoodNothing DEF HandlerStates
<1>4. <<>> \o <<>> = <<>> /\ Len(<<>>) = 0
  OBVIOUS
<1>5. asked = recovered \o Carried(toTarget, Recoveries, "carries")
  BY <1>1, <1>2, <1>4
<1>6. tick = beats + Len(Carried(toTarget, {"heartbeat"}, "carries"))
  BY <1>1, <1>2, <1>4
<1> QED
  BY <1>1, <1>3, <1>5, <1>6 DEF LineIInv

LEMMA InLine == Spec /\ []Unescaped => [](TypeIInv /\ LineIInv)
<1>1. Init => TypeIInv /\ LineIInv
  BY TypeInit, LineInit
<1>2. TypeIInv /\ LineIInv /\ Unescaped' /\ [Next]_vars => (TypeIInv /\ LineIInv)'
  BY TypeStep, LineStep
<1> QED
  BY <1>1, <1>2, PTL DEF Spec

LEMMA PrefixOfConcat ==
  ASSUME NEW S, NEW s \in Seq(S), NEW t \in Seq(S)
  PROVE  IsPrefix(s, s \o t)
<1>1. PICK n \in Nat, m \in Nat : n = Len(s) /\ m = Len(t)
  BY Members
<1>2. Len(s \o t) = n + m
  BY <1>1, ConcatProperties
<1>3. SubSeq(s \o t, 1, n) = s
  BY <1>1, SubSeqOfConcat1, SubSeqFull
<1>4. SubSeq(s, 1, n) = s
  BY <1>1, SubSeqFull
<1> QED
  BY <1>1, <1>2, <1>3, <1>4 DEF IsPrefix

(* A restart or a reboot asked for reaches the handler, once and in the    *)
(* order asked, through whatever else is queued, and no heartbeat or text  *)
(* is taken for one.                                                       *)
THEOREM RecoveriesArrive == Spec /\ []Unescaped => []RecoveredAsAsked
<1>1. TypeIInv /\ LineIInv => RecoveredAsAsked
  <2> SUFFICES ASSUME TypeIInv, LineIInv
               PROVE  RecoveredAsAsked
    OBVIOUS
  <2> DEFINE carried == Carried(toTarget, Recoveries, "carries")
  <2>1. recovered \in Seq(Carriers) /\ carried \in Seq(Carriers)
    <3>1. Recoveries \subseteq Carriers
      BY SignalKinds DEF Carriers
    <3> QED
      BY <3>1, SeqMonotonic, CarriedSignals DEF TypeIInv
  <2>2. asked = recovered \o carried
    BY DEF LineIInv
  <2>3. phase = "listening" => carried = <<>>
    <3>1. DOMAIN <<>> = {} /\ <<>> \in Seq(Entry)
      OBVIOUS
    <3> QED
      BY <3>1, CarriedNone DEF LineIInv
  <2> HIDE DEF carried
  <2>4. IsPrefix(recovered, asked)
    BY <2>1, <2>2, PrefixOfConcat
  <2>5. phase = "listening" => recovered = asked
    BY <2>1, <2>2, <2>3, ConcatEmptySeq
  <2> QED
    BY <2>4, <2>5 DEF RecoveredAsAsked, RecoveryIsAsked
<1> QED
  BY <1>1, InLine, PTL

(* The target's clock advances by one for every turn of the session.       *)
THEOREM EveryTurnBeats == Spec /\ []Unescaped => []BeatsPerTurn
<1>1. TypeIInv /\ LineIInv => BeatsPerTurn
  <2> SUFFICES ASSUME TypeIInv, LineIInv, phase = "listening"
               PROVE  beats = tick
    BY DEF BeatsPerTurn
  <2>1. Carried(toTarget, {"heartbeat"}, "carries") = <<>>
    <3>1. DOMAIN <<>> = {} /\ <<>> \in Seq(Entry)
      OBVIOUS
    <3> QED
      BY <3>1, CarriedNone DEF LineIInv
  <2> QED
    BY <2>1 DEF TypeIInv, LineIInv
<1> QED
  BY <1>1, InLine, PTL

-----------------------------------------------------------------------------
(* Pacing.                                                                 *)

(* Once the link is framed what is queued for the programs is paced, so    *)
(* the ring was emptied for each byte unless the programs missed one.      *)
Paced(queue) == \A i \in DOMAIN queue : queue[i].carries = "byte" => queue[i].paced

PacedIInv ==
  /\ ~raw => Paced(toTarget)
  /\ ~raw /\ ~slow => ring = <<>>
  /\ lost => slow \/ raw

LEMMA PacedConcat ==
  ASSUME NEW a \in Seq(Entry), NEW b \in Seq(Entry), Paced(a), Paced(b)
  PROVE  Paced(a \o b)
<1> DEFINE c == a \o b
<1>1. PICK n \in Nat, m \in Nat : n = Len(a) /\ DOMAIN a = 1..n /\ m = Len(b) /\ DOMAIN b = 1..m
  BY Members
<1>2. Len(c) = n + m /\ c \in Seq(Entry)
  BY <1>1, ConcatProperties
<1>3. \A i \in 1..n + m : c[i] = IF i <= n THEN a[i] ELSE b[i - n]
  BY <1>1, ConcatProperties
<1> HIDE DEF c
<1>4. DOMAIN c = 1..n + m
  BY <1>2, Members
<1>5. ASSUME NEW i \in 1..n + m, c[i].carries = "byte"
      PROVE  c[i].paced
  <2>1. CASE i <= n
    <3>1. i \in 1..n
      BY <2>1
    <3> QED
      BY <1>1, <1>3, <1>5, <2>1, <3>1 DEF Paced
  <2>2. CASE ~(i <= n)
    <3>1. i - n \in 1..m
      BY <2>2
    <3> QED
      BY <1>1, <1>3, <1>5, <2>2, <3>1 DEF Paced
  <2> QED
    BY <2>1, <2>2
<1>6. Paced(c)
  BY <1>4, <1>5 DEF Paced
<1> QED
  BY <1>6 DEF c

LEMMA PacedFrames ==
  ASSUME NEW queue \in Seq(Queues(TRUE))
  PROVE  Paced(queue)
<1>1. DOMAIN queue = 1..Len(queue) /\ \A i \in 1..Len(queue) : queue[i] \in Queues(TRUE)
  BY Members
<1> QED
  BY <1>1 DEF Paced, Queues

LEMMA PacedSignal ==
  ASSUME NEW bytes \in Seq(Bytes), NEW signal \in Signals
  PROVE  Paced(Signalled(bytes, signal))
<1>1. \A i \in 1..Len(bytes) : Signalled(bytes, signal)[i].carries # "byte"
  BY SignalKinds DEF Signalled
<1>2. DOMAIN Signalled(bytes, signal) = 1..Len(bytes)
  BY DEF Signalled
<1> QED
  BY <1>1, <1>2 DEF Paced

LEMMA PacedTail ==
  ASSUME NEW queue \in Seq(Entry), queue # <<>>, Paced(queue)
  PROVE  Paced(Tail(queue)) /\ (Head(queue).carries = "byte" => Head(queue).paced)
<1>1. PICK n \in Nat : n = Len(queue) /\ DOMAIN queue = 1..n
  BY Members
<1>2. n # 0 /\ Head(queue) = queue[1]
  BY <1>1, EmptySeq
<1>3. Tail(queue) \in Seq(Entry) /\ Len(Tail(queue)) = n - 1
      /\ \A i \in 1..n - 1 : Tail(queue)[i] = queue[i + 1]
  BY <1>1, HeadTailProperties
<1>4. DOMAIN Tail(queue) = 1..n - 1
  BY <1>3, Members
<1>5. 1 \in 1..n /\ \A i \in 1..n - 1 : i + 1 \in 1..n
  BY <1>2
<1> QED
  BY <1>1, <1>2, <1>3, <1>4, <1>5 DEF Paced

(* A byte that finds the ring empty has room there.                        *)
LEMMA RoomForOne ==
  ASSUME TypeIInv, NEW bytes \in Seq(Bytes), ring = <<>>, Len(bytes) <= 1
  PROVE  ~(Free < Len(bytes)) /\ (bytes = <<>> => Stored(bytes) = <<>>)
<1>1. Len(ring) = 0 /\ Free = RingSize /\ RingSize \in Nat \ {0} /\ Len(bytes) \in Nat
  BY PacingAssumption, Members DEF Free
<1>2. ~(Free < Len(bytes))
  BY <1>1
<1>3. ASSUME bytes = <<>>
      PROVE  Stored(bytes) = <<>>
  <2>1. Len(bytes) = 0 /\ SubSeq(bytes, 1, 0) = <<>>
    BY <1>3, SubSeqEmpty
  <2>2. ~(Free < 0)
    BY <1>1
  <2>3. Stored(bytes) = <<>> \o <<>>
    BY <2>1, <2>2 DEF Stored
  <2> QED
    BY <2>3
<1> QED
  BY <1>2, <1>3

LEMMA PacedDeliver ==
  ASSUME TypeIInv, LineIInv, PacedIInv, Deliver
  PROVE  PacedIInv'
<1> DEFINE head  == Head(toTarget)
           taken == Handled(handler, head.byte)
<1>1. head \in Entry /\ Takes(handler, head, handler') /\ toTarget # <<>> /\ toTarget \in Seq(Entry)
  BY DeliverTakes DEF Deliver, TypeIInv
<1>2. /\ lost' = (lost \/ Free < Len(taken.bytes))
      /\ Batch(Stored(taken.bytes), WithInput)
      /\ toTarget' = Tail(toTarget) /\ raw' = raw
  BY DEF Deliver
<1>3. taken.bytes = IF head.carries = "byte" THEN <<head.byte>> ELSE <<>>
  BY <1>1 DEF Takes
<1>4. head.byte \in Bytes
  BY <1>1 DEF Entry
<1> HIDE DEF taken
<1>5. taken.bytes \in Seq(Bytes) /\ Len(taken.bytes) <= 1
  BY <1>3, <1>4
<1>6. PICK reads \in BOOLEAN, says \in Seq({"ack", "text"}) :
        /\ ring' = IF reads THEN <<>> ELSE Stored(taken.bytes)
        /\ unread' = WithInput \o says
        /\ recent' \in Seq(Bytes) /\ Len(recent') < Len(Hello)
        /\ slow' = (slow \/ (~reads /\ Stored(taken.bytes) # <<>>
                              /\ toTarget # <<>> /\ head.paced))
  BY <1>2, <1>5, StoredTyped, WithInputTyped, BatchDoes
<1>7. ~raw' => Paced(toTarget')
  BY <1>1, <1>2, PacedTail DEF PacedIInv
<1>8. ASSUME ~raw, ~slow
      PROVE  ~(Free < Len(taken.bytes)) /\ (~slow' => ring' = <<>>)
  <2>1. ring = <<>> /\ (head.carries = "byte" => head.paced)
    BY <1>1, <1>8, PacedTail DEF PacedIInv
  <2>2. ~(Free < Len(taken.bytes)) /\ (taken.bytes = <<>> => Stored(taken.bytes) = <<>>)
    BY <1>5, <2>1, RoomForOne
  <2>3. CASE head.carries = "byte"
    BY <1>1, <1>6, <2>1, <2>2, <2>3
  <2>4. CASE head.carries # "byte"
    BY <1>3, <1>6, <2>2, <2>4
  <2> QED
    BY <2>2, <2>3, <2>4
<1>9. (slow => slow') /\ raw \in BOOLEAN /\ slow \in BOOLEAN
  BY <1>6 DEF TypeIInv
<1>10. ~raw' /\ ~slow' => ring' = <<>>
  BY <1>2, <1>8, <1>9
<1>11. lost' => slow' \/ raw'
  BY <1>2, <1>8, <1>9 DEF PacedIInv
<1> QED
  BY <1>7, <1>10, <1>11 DEF PacedIInv

LEMMA PacedStep ==
  ASSUME TypeIInv, LineIInv, PacedIInv, Unescaped', [Next]_vars
  PROVE  PacedIInv'
<1>1. ASSUME NEW text \in Texts, Type(text)
      PROVE  PacedIInv'
  <2>1. Added(ToChannel(text)) /\ ToChannel(text) \in Seq(Queues(mode = "Framed"))
    BY <1>1, TypeAdds
  <2>2. UNCHANGED <<ring, slow, lost>> /\ raw' = (raw \/ mode = "Plain")
    BY <1>1 DEF Type, Sends, machine
  <2>3. ASSUME ~raw'
        PROVE  Paced(toTarget')
    <3>1. ~raw /\ (mode = "Framed") = TRUE
      BY <2>2, <2>3 DEF TypeIInv
    <3>2. Paced(ToChannel(text))
      BY <2>1, <3>1, PacedFrames
    <3> QED
      BY <2>1, <3>1, <3>2, PacedConcat DEF Added, TypeIInv, PacedIInv
  <2> QED
    BY <2>2, <2>3 DEF PacedIInv
<1>2. ASSUME RestartShell \/ RebootSystem
      PROVE  PacedIInv'
  <2>1. PICK bytes \in Seq(Bytes), signal \in Recoveries :
          /\ Recover(bytes, signal) /\ bytes # <<>>
          /\ Added(Signalled(bytes, signal))
    BY <1>2, RecoverAdds
  <2>2. UNCHANGED <<ring, slow, lost, raw>>
    BY <2>1 DEF Recover, Sends, machine
  <2>3. Paced(Signalled(bytes, signal))
    BY <2>1, SignalKinds, PacedSignal
  <2>4. Paced(toTarget) => Paced(toTarget')
    BY <2>1, <2>3, PacedConcat DEF Added, TypeIInv
  <2> QED
    BY <2>2, <2>4 DEF PacedIInv
<1>3. ASSUME NEW second \in Seconds, BeginTurn(second)
      PROVE  PacedIInv'
  <2>1. /\ Added(Frames(second) \o Heartbeat) /\ Frames(second) \in Seq(Queues(TRUE))
        /\ Frames(second) \in Seq(Entry) /\ Heartbeat \in Seq(Entry)
    BY <1>3, TurnAdds
  <2>2. UNCHANGED <<ring, slow, lost, raw>>
    BY <1>3 DEF BeginTurn, machine, history
  <2>3. Paced(Frames(second)) /\ Paced(Heartbeat)
    <3>1. <<255, 1>> \o ThreeBytes(tick) \in Seq(Bytes)
      <4>1. <<255, 1>> \in Seq(Bytes)
        BY DEF Bytes
      <4> QED
        BY <4>1, ThreeBytesTyped, ConcatProperties DEF TypeIInv
    <3> QED
      BY <2>1, <3>1, SignalKinds, PacedFrames, PacedSignal DEF Heartbeat
  <2>4. Paced(Frames(second) \o Heartbeat)
    BY <2>1, <2>3, PacedConcat
  <2>5. Paced(toTarget) => Paced(toTarget')
    BY <2>1, <2>4, PacedConcat DEF Added, TypeIInv
  <2> QED
    BY <2>2, <2>5 DEF PacedIInv
<1>4. CASE Deliver
  BY <1>4, PacedDeliver
<1>5. CASE LastBatch
  <2>1. ring \in Seq(Bytes) /\ unread \in Seq(Said) /\ Batch(ring, unread)
    BY <1>5 DEF TypeIInv, LastBatch
  <2>2. PICK reads \in BOOLEAN, says \in Seq({"ack", "text"}) :
          /\ ring' = IF reads THEN <<>> ELSE ring
          /\ unread' = unread \o says
          /\ recent' \in Seq(Bytes) /\ Len(recent') < Len(Hello)
          /\ slow' = (slow \/ (~reads /\ ring # <<>>
                                /\ toTarget # <<>> /\ Head(toTarget).paced))
    BY <2>1, BatchDoes
  <2>3. UNCHANGED <<toTarget, raw, lost>>
    BY <1>5 DEF LastBatch
  <2>4. slow => slow'
    BY <2>2
  <2>5. ~raw /\ ~slow => ring' = <<>>
    BY <2>2 DEF PacedIInv
  <2>6. slow \in BOOLEAN
    BY DEF TypeIInv
  <2> QED
    BY <2>3, <2>4, <2>5, <2>6 DEF PacedIInv
<1>6. CASE Listen
  <2>1. UNCHANGED <<toTarget, ring, raw, slow, lost>>
    BY <1>6 DEF Listen, machine
  <2> QED
    BY <2>1 DEF PacedIInv
<1>7. CASE UNCHANGED vars
  BY <1>7 DEF vars, host, machine, history, PacedIInv
<1> QED
  BY <1>1, <1>2, <1>3, <1>4, <1>5, <1>6, <1>7 DEF Next, Person, Turn

(* A paced queue overruns no ring, however small: only programs that miss  *)
(* their turn, or text sent while the link was plain, lose a byte.         *)
THEOREM PacingKeeps == Spec /\ []Unescaped => []PacedInputKept
<1>1. Init => PacedIInv
  BY DEF Init, PacedIInv, Paced
<1>2. TypeIInv /\ LineIInv /\ PacedIInv /\ Unescaped' /\ [Next]_vars => PacedIInv'
  BY PacedStep
<1>3. PacedIInv => PacedInputKept
  BY DEF PacedIInv, PacedInputKept
<1> QED
  BY <1>1, <1>2, <1>3, InLine, PTL DEF Spec

-----------------------------------------------------------------------------
(* The wire is a serial line with a control signal beside it.              *)

Down    == ring \o Carried(toTarget, {"byte"}, "byte")
Pending == Carried(toTarget, Signals, "carries")

(* What a log holds besides the inputs.                                    *)
OutputsOf(log) ==
  FlattenSeq([i \in DOMAIN log |-> IF log[i] = "input" THEN <<>> ELSE <<log[i]>>])

LEMMA OutputsTyped ==
  ASSUME NEW log \in Seq(Said)
  PROVE  /\ [i \in DOMAIN log |-> IF log[i] = "input" THEN <<>> ELSE <<log[i]>>] \in Seq(Seq(Said))
         /\ OutputsOf(log) \in Seq(Said)
<1>1. PICK n \in Nat : n = Len(log) /\ DOMAIN log = 1..n /\ \A i \in 1..n : log[i] \in Said
  BY Members
<1> DEFINE picked == [i \in 1..n |-> IF log[i] = "input" THEN <<>> ELSE <<log[i]>>]
<1>2. picked \in [1..n -> Seq(Said)]
  <2>1. ASSUME NEW i \in 1..n
        PROVE  (IF log[i] = "input" THEN <<>> ELSE <<log[i]>>) \in Seq(Said)
    <3>1. <<>> \in Seq(Said) /\ <<log[i]>> \in Seq(Said)
      BY <1>1
    <3> QED
      BY <3>1
  <2> QED
    BY <2>1
<1>3. picked \in Seq(Seq(Said))
  <2> HIDE DEF picked
  <2> QED
    BY <1>2, FunctionIsSequence
<1>4. FlattenSeq(picked) \in Seq(Said)
  <2> HIDE DEF picked
  <2> QED
    BY <1>3, FlattenTyped
<1> QED
  BY <1>1, <1>3, <1>4 DEF OutputsOf

LEMMA OutputsAppend ==
  ASSUME NEW log \in Seq(Said), NEW entry \in Said
  PROVE  OutputsOf(Append(log, entry))
           = OutputsOf(log) \o (IF entry = "input" THEN <<>> ELSE <<entry>>)
<1> DEFINE picked(l) == [i \in DOMAIN l |-> IF l[i] = "input" THEN <<>> ELSE <<l[i]>>]
           longer == Append(log, entry)
           s == IF entry = "input" THEN <<>> ELSE <<entry>>
<1>1. PICK n \in Nat : n = Len(log) /\ DOMAIN log = 1..n
  BY Members
<1>2. /\ longer \in Seq(Said) /\ Len(longer) = n + 1 /\ longer[n + 1] = entry
      /\ \A i \in 1..n : longer[i] = log[i]
  BY <1>1, AppendProperties
<1> HIDE DEF longer
<1>3. DOMAIN longer = 1..n + 1
  BY <1>2, Members
<1>4. s \in Seq(Said)
  <2>1. <<>> \in Seq(Said) /\ <<entry>> \in Seq(Said)
    OBVIOUS
  <2> QED
    BY <2>1
<1>5. picked(log) \in Seq(Seq(Said)) /\ picked(longer) \in Seq(Seq(Said))
  BY <1>2, OutputsTyped
<1>6. DOMAIN picked(log) = 1..n /\ DOMAIN picked(longer) = 1..n + 1
  BY <1>1, <1>3
<1>7. picked(longer)[n + 1] = s /\ \A i \in 1..n : picked(longer)[i] = picked(log)[i]
  <2>1. n + 1 \in 1..n + 1 /\ \A i \in 1..n : i \in 1..n + 1
    OBVIOUS
  <2> QED
    BY <1>1, <1>2, <1>3, <2>1
<1> HIDE DEF s, picked
<1>8. picked(longer) = Append(picked(log), s)
  <2>1. Len(picked(log)) = n /\ Len(picked(longer)) = n + 1
    BY <1>5, <1>6, Members
  <2>2. /\ Append(picked(log), s) \in Seq(Seq(Said)) /\ Len(Append(picked(log), s)) = n + 1
        /\ Append(picked(log), s)[n + 1] = s
        /\ \A i \in 1..n : Append(picked(log), s)[i] = picked(log)[i]
    BY <1>4, <1>5, <2>1, AppendProperties
  <2>3. ASSUME NEW i \in 1..n + 1
        PROVE  picked(longer)[i] = Append(picked(log), s)[i]
    <3>1. i \in 1..n \/ i = n + 1
      OBVIOUS
    <3> QED
      BY <1>7, <2>2, <3>1
  <2> QED
    BY <1>5, <2>1, <2>2, <2>3, SeqEqual
<1>9. FlattenSeq(picked(longer)) = FlattenSeq(picked(log)) \o s
  BY <1>4, <1>5, <1>8, FlattenAppend
<1> QED
  BY <1>9 DEF OutputsOf, picked, longer, s

(* An input is not heard.                                                  *)
LEMMA InputSilent ==
  ASSUME TypeIInv
  PROVE  OutputsOf(WithInput) = Outputs
<1>1. "input" \in Said /\ unread \in Seq(Said)
  BY DEF Said, TypeIInv
<1>2. OutputsOf(Append(unread, "input")) = OutputsOf(unread) \o <<>>
  BY <1>1, OutputsAppend
<1>3. OutputsOf(unread) \o <<>> = OutputsOf(unread)
  BY <1>1, OutputsTyped, ConcatEmptySeq
<1>4. Outputs = OutputsOf(unread)
  BY DEF Outputs, OutputsOf
<1> QED
  BY <1>2, <1>3, <1>4 DEF WithInput

(* What is logged later is heard later.                                    *)
LEMMA OutputsPrefix ==
  ASSUME NEW log \in Seq(Said), NEW says \in Seq(Said)
  PROVE  IsPrefix(OutputsOf(log), OutputsOf(log \o says))
<1> DEFINE picked(l) == [i \in DOMAIN l |-> IF l[i] = "input" THEN <<>> ELSE <<l[i]>>]
<1>1. PICK n \in Nat, m \in Nat : n = Len(log) /\ DOMAIN log = 1..n /\ m = Len(says) /\ DOMAIN says = 1..m
  BY Members
<1> DEFINE longer == log \o says
<1>2. longer \in Seq(Said) /\ Len(longer) = n + m
  BY <1>1, ConcatProperties
<1>3. \A i \in 1..n + m : longer[i] = IF i <= n THEN log[i] ELSE says[i - n]
  BY <1>1, ConcatProperties
<1> HIDE DEF longer
<1>4. DOMAIN longer = 1..n + m
  BY <1>2, Members
<1>5. picked(log) \in Seq(Seq(Said)) /\ picked(says) \in Seq(Seq(Said)) /\ picked(longer) \in Seq(Seq(Said))
  BY <1>2, OutputsTyped
<1>6. DOMAIN picked(log) = 1..n /\ DOMAIN picked(says) = 1..m /\ DOMAIN picked(longer) = 1..n + m
  BY <1>1, <1>4
<1>7. \A i \in 1..n + m : picked(longer)[i] = IF i <= n THEN picked(log)[i] ELSE picked(says)[i - n]
  <2>1. ASSUME NEW i \in 1..n + m
        PROVE  (i <= n => i \in 1..n) /\ (~(i <= n) => i - n \in 1..m)
    BY <1>1
  <2> QED
    BY <1>1, <1>3, <1>4, <2>1
<1> HIDE DEF picked
<1>8. picked(longer) = picked(log) \o picked(says)
  <2>1. Len(picked(log)) = n /\ Len(picked(says)) = m /\ Len(picked(longer)) = n + m
    BY <1>5, <1>6, Members
  <2> DEFINE joined == picked(log) \o picked(says)
  <2>2. joined \in Seq(Seq(Said)) /\ Len(joined) = n + m
    BY <1>5, <2>1, ConcatProperties
  <2>3. \A i \in 1..n + m : joined[i] = IF i <= n THEN picked(log)[i] ELSE picked(says)[i - n]
    BY <1>5, <2>1, ConcatProperties
  <2> HIDE DEF joined
  <2>4. picked(longer) = joined
    BY <1>5, <1>7, <2>1, <2>2, <2>3, SeqEqual, ZenonT(60)
  <2> QED
    BY <2>4 DEF joined
<1>9. FlattenSeq(picked(longer)) = FlattenSeq(picked(log)) \o FlattenSeq(picked(says))
  BY <1>5, <1>8, FlattenConcat
<1>10. FlattenSeq(picked(log)) \in Seq(Said) /\ FlattenSeq(picked(says)) \in Seq(Said)
  BY <1>5, FlattenTyped
<1>11. IsPrefix(FlattenSeq(picked(log)), FlattenSeq(picked(longer)))
  BY <1>9, <1>10, PrefixOfConcat
<1> QED
  BY <1>11 DEF OutputsOf, picked, longer

LEMMA CarriedBytes ==
  ASSUME NEW queue \in Seq(Entry), NEW kinds
  PROVE  Carried(queue, kinds, "byte") \in Seq(Bytes)
<1>1. Values("byte") \subseteq Bytes
  <2>1. ASSUME NEW entry \in Entry
        PROVE  entry["byte"] \in Bytes
    BY DEF Entry
  <2> QED
    BY <2>1 DEF Values
<1>2. Carried(queue, kinds, "byte") \in Seq(Values("byte"))
  BY CarriedTyped
<1>3. Seq(Values("byte")) \subseteq Seq(Bytes)
  BY <1>1, SeqMonotonic
<1> QED
  BY <1>2, <1>3

(* The end of a sequence that another was put before.                      *)
LEMMA EndOfConcat ==
  ASSUME NEW S, NEW a \in Seq(S), NEW b \in Seq(S)
  PROVE  SubSeq(a \o b, Len(a \o b) - Len(b) + 1, Len(a \o b)) = b
<1>1. PICK n \in Nat, m \in Nat : n = Len(a) /\ m = Len(b) /\ n + m = Len(a \o b)
  BY Members, ConcatProperties
<1>2. CASE m = 0
  <2>1. b = <<>>
    BY <1>1, <1>2, EmptySeq
  <2>2. SubSeq(a \o b, n + m - m + 1, n + m) = <<>>
    BY <1>2, SubSeqEmpty
  <2> QED
    BY <1>1, <2>1, <2>2
<1>3. CASE m # 0
  <2>1. n + 1 \in n + 1..n + m /\ n + m \in n + 1..n + m
    BY <1>3
  <2>2. SubSeq(a \o b, n + 1, n + m) = SubSeq(b, n + 1 - n, n + m - n)
    BY <1>1, <2>1, SubSeqOfConcat2
  <2>3. n + 1 - n = 1 /\ n + m - n = m /\ n + m - m + 1 = n + 1
    OBVIOUS
  <2>4. SubSeq(b, 1, m) = b
    BY <1>1, SubSeqFull
  <2> QED
    BY <1>1, <2>2, <2>3, <2>4
<1> QED
  BY <1>2, <1>3

LEMMA BeginningOfConcat ==
  ASSUME NEW S, NEW a \in Seq(S), NEW b \in Seq(S)
  PROVE  SubSeq(a \o b, 1, Len(a)) = a
<1>1. PICK n \in Nat : n = Len(a)
  BY Members
<1>2. CASE n = 0
  <2>1. a = <<>>
    BY <1>1, <1>2, EmptySeq
  <2>2. SubSeq(a \o b, 1, 0) = <<>>
    BY SubSeqEmpty
  <2> QED
    BY <1>1, <1>2, <2>1, <2>2
<1>3. CASE n # 0
  <2>1. 1 \in 1..n /\ n \in 1..n
    BY <1>3
  <2>2. SubSeq(a \o b, 1, n) = SubSeq(a, 1, n)
    BY <1>1, <2>1, SubSeqOfConcat1
  <2> QED
    BY <1>1, <2>2, SubSeqFull
<1> QED
  BY <1>2, <1>3

LEMMA Removed ==
  ASSUME NEW S, NEW a \in Seq(S), NEW x \in S, NEW b \in Seq(S)
  PROVE  RemoveAt(a \o (<<x>> \o b), Len(a) + 1) = a \o b
<1>1. PICK n \in Nat, m \in Nat : n = Len(a) /\ m = Len(b)
  BY Members
<1>2. <<x>> \in Seq(S) /\ Len(<<x>>) = 1
  OBVIOUS
<1> DEFINE one == <<x>>
           c == a \o (one \o b)
<1> HIDE DEF one
<1>3. one \in Seq(S) /\ Len(one) = 1
  BY <1>2 DEF one
<1>4. one \o b \in Seq(S) /\ a \o one \in Seq(S) /\ c = (a \o one) \o b
  BY <1>3, ConcatProperties, ConcatAssociative, SMTT(60)
<1>5. SubSeq(c, 1, n) = a
  BY <1>1, <1>4, BeginningOfConcat
<1>6. Len(c) = n + 1 + m
  <2>1. Len(one \o b) = 1 + m
    BY <1>1, <1>3, ConcatProperties, ZenonT(60)
  <2>2. Len(c) = Len(a) + Len(one \o b)
    BY <1>4, ConcatProperties
  <2> QED
    BY <1>1, <2>1, <2>2
<1>7. SubSeq(c, n + 2, Len(c)) = b
  <2>1. SubSeq((a \o one) \o b, Len((a \o one) \o b) - Len(b) + 1, Len((a \o one) \o b)) = b
    BY <1>4, EndOfConcat
  <2> HIDE DEF c
  <2>2. SubSeq(c, Len(c) - Len(b) + 1, Len(c)) = b
    BY <1>4, <2>1
  <2>3. Len(c) - Len(b) + 1 = n + 2
    BY <1>1, <1>6
  <2> QED
    BY <2>2, <2>3
<1>8. (n + 1) - 1 = n /\ (n + 1) + 1 = n + 2
  OBVIOUS
<1> HIDE DEF c
<1>9. RemoveAt(c, n + 1) = a \o b
  BY <1>5, <1>7, <1>8 DEF RemoveAt
<1> QED
  BY <1>1, <1>9 DEF c, one

LEMMA LinkWrites ==
  ASSUME TypeIInv, NEW queue, Added(queue), UNCHANGED <<ring, unread, heard>>
  PROVE  Link!Write
<1>1. queue \in Seq(Entry) /\ toTarget \in Seq(Entry) /\ ring \in Seq(Bytes) /\ ring' = ring
  BY DEF Added, TypeIInv
<1> DEFINE first == Carried(toTarget, {"byte"}, "byte")
           then  == Carried(queue, {"byte"}, "byte")
<1>2. first \in Seq(Bytes) /\ then \in Seq(Bytes) /\ Carried(toTarget', {"byte"}, "byte") = first \o then
  BY <1>1, CarriedBytes, AddedCarries
<1>3. Pending \in Seq(Carriers) /\ Carried(queue, Signals, "carries") \in Seq(Carriers)
  BY <1>1, CarriedSignals DEF Pending
<1>4. Pending' = Pending \o Carried(queue, Signals, "carries")
  BY AddedCarries DEF Pending
<1>5. IsPrefix(Pending, Pending')
  BY <1>3, <1>4, PrefixOfConcat
<1>6. Down = ring \o first /\ Down' = ring \o (first \o then)
  BY <1>1, <1>2 DEF Down
<1> HIDE DEF first, then
<1>7. IsPrefix(Down, Down')
  <2>1. ring \o first \in Seq(Bytes)
    BY <1>1, <1>2, ConcatProperties
  <2>2. (ring \o first) \o then = ring \o (first \o then)
    BY <1>1, <1>2, BytesRegroup
  <2> QED
    BY <1>2, <1>6, <2>1, <2>2, PrefixOfConcat
<1>8. Outputs' = Outputs /\ heard' = heard
  BY DEF Outputs
<1>9. Link!IsPrefix(Pending, Pending') /\ Link!IsPrefix(Down, Down')
  BY <1>5, <1>7 DEF IsPrefix, Link!IsPrefix
<1> QED
  BY <1>8, <1>9 DEF Link!Write, Down, Pending

LEMMA LinkReads ==
  ASSUME NEW S, NEW a \in Seq(S), NEW b \in Seq(S), Down = a \o b
  PROVE  Link!Read(b)
<1>1. PICK n \in Nat, m \in Nat : n = Len(a) /\ m = Len(b) /\ n + m = Len(a \o b)
  BY Members, ConcatProperties
<1>2. Len(b) <= Len(Down)
  BY <1>1
<1>3. SubSeq(Down, Len(Down) - Len(b) + 1, Len(Down)) = b
  BY EndOfConcat
<1> QED
  BY <1>2, <1>3 DEF Link!Read, Link!EndOf, Down

(* A batch: what is said is put on the line after what was.                *)
LEMMA SaysMore ==
  ASSUME TypeIInv, NEW log \in Seq(Said), OutputsOf(log) = Outputs,
         NEW says \in Seq({"ack", "text"}), unread' = log \o says
  PROVE  Link!IsPrefix(Outputs, Outputs')
<1>1. says \in Seq(Said)
  BY SeqMonotonic, SaidTyped
<1>2. IsPrefix(OutputsOf(log), OutputsOf(log \o says))
  BY <1>1, OutputsPrefix
<1>3. Outputs' = OutputsOf(unread')
  BY DEF Outputs, OutputsOf
<1>4. IsPrefix(Outputs, Outputs')
  BY <1>2, <1>3
<1> QED
  BY <1>4 DEF IsPrefix, Link!IsPrefix

(* What the ring keeps of one byte or of none: it, or nothing of it.       *)
LEMMA KeepsOrDrops ==
  ASSUME TypeIInv, NEW bytes \in Seq(Bytes), Len(bytes) <= 1
  PROVE  \/ Stored(bytes) = ring \o bytes
         \/ Len(bytes) = 1 /\ Stored(bytes) = ring
<1>1. PICK held \in Nat : held = Len(ring) /\ held <= RingSize /\ ring \in Seq(Bytes)
  BY Members DEF TypeIInv
<1>2. PICK length \in Nat : length = Len(bytes) /\ length <= 1
  BY Members
<1>3. Free = RingSize - held /\ RingSize \in Nat
  BY <1>1, PacingAssumption DEF Free
<1>4. CASE Free < length
  <2>1. Free = 0 /\ length = 1
    BY <1>1, <1>2, <1>3, <1>4
  <2>2. SubSeq(bytes, 1, 0) = <<>>
    BY SubSeqEmpty
  <2>3. Stored(bytes) = ring \o <<>>
    BY <1>2, <1>4, <2>1, <2>2 DEF Stored
  <2> QED
    BY <1>1, <1>2, <2>1, <2>3, ConcatEmptySeq
<1>5. CASE ~(Free < length)
  <2>1. Stored(bytes) = ring \o SubSeq(bytes, 1, length)
    BY <1>2, <1>5 DEF Stored
  <2>2. SubSeq(bytes, 1, length) = bytes
    BY <1>2, SubSeqFull
  <2> QED
    BY <2>1, <2>2
<1> QED
  BY <1>4, <1>5

LEMMA LinkDelivers ==
  ASSUME TypeIInv, LineIInv, Deliver
  PROVE  Link!Run
<1> DEFINE head  == Head(toTarget)
           taken == Handled(handler, head.byte)
           bytes == taken.bytes
           rest  == Carried(toTarget', {"byte"}, "byte")
<1>1. /\ head \in Entry /\ Takes(handler, head, handler')
      /\ toTarget # <<>> /\ toTarget \in Seq(Entry) /\ toTarget' = Tail(toTarget)
  BY DeliverTakes DEF Deliver, TypeIInv
<1>2. Tail(toTarget) \in Seq(Entry)
  BY <1>1, HeadTailProperties
<1>3. bytes = IF head.carries = "byte" THEN <<head.byte>> ELSE <<>>
  BY <1>1 DEF Takes
<1>4. Batch(Stored(bytes), WithInput) /\ heard' = heard
  BY DEF Deliver
<1>5. head.byte \in Bytes
  BY <1>1 DEF Entry
<1> HIDE DEF taken
<1>6. bytes \in Seq(Bytes) /\ Len(bytes) <= 1 /\ Len(bytes) \in Nat
  BY <1>3, <1>5
<1>7. rest \in Seq(Bytes) /\ ring \in Seq(Bytes)
  BY <1>1, <1>2, CarriedBytes DEF TypeIInv
<1>8. Carried(toTarget, {"byte"}, "byte") = bytes \o rest
  <2>1. Carried(toTarget, {"byte"}, "byte")
          = (IF head.carries \in {"byte"} THEN <<head["byte"]>> ELSE <<>>) \o rest
    BY <1>1, CarriedHead
  <2> QED
    BY <1>3, <2>1
<1>9. PICK reads \in BOOLEAN, says \in Seq({"ack", "text"}) :
        /\ ring' = IF reads THEN <<>> ELSE Stored(bytes)
        /\ unread' = WithInput \o says
        /\ recent' \in Seq(Bytes) /\ Len(recent') < Len(Hello)
        /\ slow' = (slow \/ (~reads /\ Stored(bytes) # <<>>
                              /\ toTarget # <<>> /\ head.paced))
  BY <1>4, <1>6, StoredTyped, WithInputTyped, BatchDoes
<1>10. Link!IsPrefix(Outputs, Outputs')
  BY <1>9, WithInputTyped, InputSilent, SaysMore
<1>11. \/ UNCHANGED Pending
       \/ Pending # <<>> /\ Pending' = Tail(Pending)
  <2>1. /\ Pending = (IF head.carries \in Signals THEN <<head.carries>> ELSE <<>>) \o Pending'
        /\ Pending' \in Seq(Carriers)
    <3>1. Pending = (IF head.carries \in Signals THEN <<head["carries"]>> ELSE <<>>)
                    \o Carried(Tail(toTarget), Signals, "carries")
      BY <1>1, CarriedHead DEF Pending
    <3>2. Carried(Tail(toTarget), Signals, "carries") \in Seq(Carriers)
      BY <1>2, CarriedSignals
    <3> QED
      BY <1>1, <3>1, <3>2 DEF Pending
  <2>2. CASE head.carries \in Signals
    <3>1. Pending = <<head.carries>> \o Pending' /\ head.carries \in Carriers
      BY <2>1, <2>2 DEF Carriers
    <3> QED
      BY <2>1, <3>1
  <2>3. CASE head.carries \notin Signals
    <3>1. Pending = <<>> \o Pending'
      BY <2>1, <2>3
    <3> QED
      BY <2>1, <3>1, ConcatEmptySeq
  <2> QED
    BY <2>2, <2>3
<1> HIDE DEF head, bytes, rest
<1>12. Down = ring \o (bytes \o rest) /\ Down' = ring' \o rest
  BY <1>8 DEF Down, rest
<1>13. Down = (ring \o bytes) \o rest /\ ring \o bytes \in Seq(Bytes)
  <2>1. ring \o bytes \in Seq(Bytes)
    BY <1>6, <1>7, ConcatProperties
  <2>2. (ring \o bytes) \o rest = ring \o (bytes \o rest)
    BY <1>6, <1>7, BytesRegroup
  <2> QED
    BY <1>12, <2>1, <2>2
<1>14. Link!Read(Down') \/ Link!ReadAndLost(Down')
  <2>1. CASE reads
    <3>1. Down' = rest
      BY <1>7, <1>9, <1>12, <2>1, ConcatEmptySeq
    <3> QED
      BY <1>7, <1>13, <3>1, LinkReads
  <2>2. CASE ~reads /\ Stored(bytes) = ring \o bytes
    <3>1. Down' = Down
      BY <1>9, <1>12, <1>13, <2>2
    <3>2. <<>> \in Seq(Bytes) /\ Down \in Seq(Bytes)
      BY <1>7, <1>13, ConcatProperties
    <3>3. Down = <<>> \o Down
      BY <3>2, ConcatEmptySeq
    <3> QED
      BY <3>1, <3>2, <3>3, LinkReads
  <2>3. CASE ~reads /\ Len(bytes) = 1 /\ Stored(bytes) = ring
    <3>1. Down' = ring \o rest
      BY <1>9, <1>12, <2>3
    <3>2. bytes = <<bytes[1]>> /\ bytes[1] \in Bytes
      <4>1. bytes \in Seq(Bytes) /\ Len(bytes) = 1
        BY <1>6, <2>3
      <4> QED
        BY <4>1, SingleByte
    <3>3. Down = ring \o (<<bytes[1]>> \o rest)
      BY <1>12, <3>2
    <3>4. PICK n \in Nat, m \in Nat : n = Len(ring) /\ m = Len(rest)
      BY <1>7, Members
    <3>5. RemoveAt(Down, n + 1) = ring \o rest
      BY <1>7, <3>2, <3>3, <3>4, Removed
    <3>6. Down \in Seq(Bytes) /\ Len(Down) = n + 1 + m /\ ring \o rest \in Seq(Bytes) /\ Len(ring \o rest) = n + m
      <4>1. Len(ring \o bytes) = n + 1
        <5>1. Len(ring \o bytes) = Len(ring) + Len(bytes)
          BY <1>6, <1>7, ConcatProperties
        <5> QED
          BY <2>3, <3>4, <5>1
      <4>2. Len(Down) = n + 1 + m
        BY <1>7, <1>13, <3>4, <4>1, ConcatProperties, ZenonT(60)
      <4>3. Len(ring \o rest) = n + m
        BY <1>7, <3>4, ConcatProperties
      <4> QED
        BY <1>7, <1>13, <4>2, <4>3, ConcatProperties
    <3>7. n + 1 \in DOMAIN Down /\ Len(Down') < Len(Down)
      <4>1. DOMAIN Down = 1..n + 1 + m
        BY <3>6, Members
      <4> QED
        BY <3>1, <3>6, <4>1
    <3>8. Link!EndOf(ring \o rest, Len(ring \o rest)) = ring \o rest
      <4> DEFINE left == ring \o rest
      <4>1. left \in Seq(Bytes) /\ Len(left) = n + m
        BY <3>6
      <4> HIDE DEF left
      <4>2. SubSeq(left, 1, Len(left)) = left
        BY <4>1, SubSeqFull
      <4>3. Len(left) - Len(left) + 1 = 1
        BY <4>1
      <4>4. Link!EndOf(left, Len(left)) = left
        BY <4>2, <4>3 DEF Link!EndOf
      <4> QED
        BY <4>4 DEF left
    <3>9. Link!RemoveAt(Down, n + 1) = RemoveAt(Down, n + 1)
      BY DEF RemoveAt, Link!RemoveAt
    <3>10. Down' = Link!EndOf(Link!RemoveAt(Down, n + 1), Len(Down'))
      BY <3>1, <3>5, <3>8, <3>9
    <3> QED
      BY <3>7, <3>10 DEF Link!ReadAndLost, Down
  <2> QED
    BY <1>6, <2>1, <2>2, <2>3, KeepsOrDrops
<1> QED
  BY <1>4, <1>10, <1>11, <1>14 DEF Link!Run, Down, Pending

LEMMA LinkRuns ==
  ASSUME TypeIInv, LineIInv, LastBatch
  PROVE  Link!Run
<1>1. toTarget = <<>> /\ UNCHANGED <<toTarget, heard>> /\ Batch(ring, unread)
  BY DEF LastBatch
<1>2. ring \in Seq(Bytes) /\ unread \in Seq(Said)
  BY DEF TypeIInv
<1>3. PICK reads \in BOOLEAN, says \in Seq({"ack", "text"}) :
        /\ ring' = IF reads THEN <<>> ELSE ring
        /\ unread' = unread \o says
        /\ recent' \in Seq(Bytes) /\ Len(recent') < Len(Hello)
        /\ slow' = (slow \/ (~reads /\ ring # <<>>
                              /\ toTarget # <<>> /\ Head(toTarget).paced))
  BY <1>1, <1>2, BatchDoes
<1>4. OutputsOf(unread) = Outputs
  BY DEF Outputs, OutputsOf
<1>5. Link!IsPrefix(Outputs, Outputs')
  BY <1>2, <1>3, <1>4, SaysMore
<1>6. UNCHANGED Pending
  BY <1>1 DEF Pending
<1> DEFINE rest == Carried(toTarget, {"byte"}, "byte")
<1>7. rest \in Seq(Bytes) /\ Down = ring \o rest /\ Down' = ring' \o rest
  BY <1>1, CarriedBytes DEF Down, TypeIInv
<1> HIDE DEF rest
<1>8. Link!Read(Down')
  <2>1. CASE reads
    <3>1. Down' = rest
      BY <1>3, <1>7, <2>1, ConcatEmptySeq
    <3> QED
      BY <1>2, <1>7, <3>1, LinkReads
  <2>2. CASE ~reads
    <3>1. Down' = Down
      BY <1>3, <1>7, <2>2
    <3>2. <<>> \in Seq(Bytes) /\ Down \in Seq(Bytes)
      BY <1>2, <1>7, ConcatProperties
    <3>3. Down = <<>> \o Down
      BY <3>2, ConcatEmptySeq
    <3> QED
      BY <3>1, <3>2, <3>3, LinkReads
  <2> QED
    BY <2>1, <2>2
<1> QED
  BY <1>1, <1>5, <1>6, <1>8 DEF Link!Run, Down, Pending

LEMMA LinkHears ==
  ASSUME TypeIInv, Listen
  PROVE  Link!Hear
<1>1. unread' = <<>>
  BY DEF Listen, Seen, TypeIInv
<1>2. Outputs' = <<>>
  <2>1. [i \in DOMAIN <<>> |-> IF <<>>[i] = "input" THEN <<>> ELSE <<<<>>[i]>>] = <<>>
    OBVIOUS
  <2> QED
    BY <1>1, <2>1, FlattenEmpty DEF Outputs
<1>3. heard' = heard \o Outputs /\ UNCHANGED <<ring, toTarget>>
  BY DEF Listen, machine
<1>4. UNCHANGED <<Down, Pending>>
  BY <1>3 DEF Down, Pending
<1> QED
  BY <1>2, <1>3, <1>4 DEF Link!Hear, Down, Pending

LEMMA LinkSteps ==
  ASSUME TypeIInv, LineIInv, Unescaped', [Next]_vars
  PROVE  [Link!Next]_Link!vars
<1>1. ASSUME NEW text \in Texts, Type(text)
      PROVE  Link!Next
  <2>1. Added(ToChannel(text)) /\ UNCHANGED <<ring, unread, heard>>
    BY <1>1, TypeAdds DEF Type, Sends, machine
  <2> QED
    BY <2>1, LinkWrites DEF Link!Next
<1>2. ASSUME RestartShell \/ RebootSystem
      PROVE  Link!Next
  <2>1. PICK bytes \in Seq(Bytes), signal \in Recoveries :
          /\ Recover(bytes, signal) /\ bytes # <<>>
          /\ Added(Signalled(bytes, signal))
    BY <1>2, RecoverAdds
  <2>2. UNCHANGED <<ring, unread, heard>>
    BY <2>1 DEF Recover, Sends, machine
  <2> QED
    BY <2>1, <2>2, LinkWrites DEF Link!Next
<1>3. ASSUME NEW second \in Seconds, BeginTurn(second)
      PROVE  Link!Next
  <2>1. Added(Frames(second) \o Heartbeat) /\ UNCHANGED <<ring, unread, heard>>
    BY <1>3, TurnAdds DEF BeginTurn, machine, history
  <2> QED
    BY <2>1, LinkWrites DEF Link!Next
<1>4. CASE Deliver
  BY <1>4, LinkDelivers DEF Link!Next
<1>5. CASE LastBatch
  BY <1>5, LinkRuns DEF Link!Next
<1>6. CASE Listen
  BY <1>6, LinkHears DEF Link!Next
<1>7. CASE UNCHANGED vars
  <2>1. UNCHANGED <<ring, toTarget, unread, heard>>
    BY <1>7 DEF vars, host, machine, history
  <2>2. UNCHANGED <<Down, Pending, Outputs, heard>>
    BY <2>1 DEF Down, Pending, Outputs
  <2> QED
    BY <2>2 DEF Link!vars, Down, Pending
<1> QED
  BY <1>1, <1>2, <1>3, <1>4, <1>5, <1>6, <1>7 DEF Next, Person, Turn

LEMMA LinkInit == Init => Link!Init
<1> SUFFICES ASSUME Init
             PROVE  Link!Init
  OBVIOUS
<1>1. toTarget = <<>> /\ ring = <<>> /\ unread = <<>> /\ heard = <<>>
  BY DEF Init
<1>2. Down = <<>> /\ Pending = <<>>
  <2>1. <<>> \in Seq(Entry) /\ DOMAIN <<>> = {} /\ <<>> \o <<>> = <<>>
    OBVIOUS
  <2> QED
    BY <1>1, <2>1, CarriedNone DEF Down, Pending
<1>3. Outputs = <<>>
  <2>1. [i \in DOMAIN <<>> |-> IF <<>>[i] = "input" THEN <<>> ELSE <<<<>>[i]>>] = <<>>
    OBVIOUS
  <2> QED
    BY <1>1, <2>1, FlattenEmpty DEF Outputs
<1> QED
  BY <1>1, <1>2, <1>3 DEF Link!Init, Down, Pending

(* The queue, the pump, the handler's escapes, the ring and the log make a *)
(* serial line: bytes in order and none made up, at most one lost in a     *)
(* batch, a signal past all of them and once, and every output heard once. *)
THEOREM WireIsFullDuplex == Spec /\ []Unescaped => FullDuplex
<1>1. Init => Link!Init
  BY LinkInit
<1>2. TypeIInv /\ LineIInv /\ Unescaped' /\ [Next]_vars => [Link!Next]_Link!vars
  BY LinkSteps
<1> QED
  BY <1>1, <1>2, InLine, PTL DEF Spec, FullDuplex, Link!Spec

-----------------------------------------------------------------------------
(* The decoder: Decode.                                                    *)

(* What a decoder says of b, by what f says of what is left to look at.    *)
Says(f, b, ends, last, first, next) ==
  IF b \in ends THEN last[b]
  ELSE [items |-> <<first[b]>> \o f[next[b]].items, left |-> f[next[b]].left]

Descends(f, S, ends, last, first, next) ==
  f = [b \in S |-> Says(f, b, ends, last, first, next)]

(* A recursion that goes down in size has a value: for every k there is a  *)
(* function of what is smaller than k, and all of these agree.             *)
LEMMA DescentExists ==
  ASSUME NEW S, NEW ends, NEW last, NEW first, NEW next, NEW size \in [S -> Nat],
         \A b \in S : b \notin ends => next[b] \in S /\ size[next[b]] < size[b]
  PROVE  \E f : Descends(f, S, ends, last, first, next)
<1> DEFINE V(f, b) == Says(f, b, ends, last, first, next)
           Below(k) == {b \in S : size[b] < k}
           Part(f, k) == f = [b \in Below(k) |-> V(f, b)]
           lacking == {k \in Nat : ~\E f : Part(f, k)}
           part == [k \in Nat |-> CHOOSE f : Part(f, k)]
           whole == [b \in S |-> part[size[b] + 1][b]]
<1>1. ASSUME NEW f, NEW g, NEW b \in S,
             b \notin ends => f[next[b]] = g[next[b]]
      PROVE  V(f, b) = V(g, b)
  BY <1>1 DEF Says
<1>2. \A b \in S : size[b] \in Nat
  OBVIOUS
<1> HIDE DEF V
<1>3. ASSUME NEW f, NEW k, Part(f, k), NEW b \in S, size[b] < k
      PROVE  f[b] = V(f, b)
  BY <1>3
<1>4. ASSUME lacking # {}
      PROVE  FALSE
  <2>1. PICK k \in lacking : \A j \in lacking : k <= j
    <3>1. lacking \in SUBSET Nat
      OBVIOUS
    <3> HIDE DEF lacking
    <3> QED
      BY <1>4, <3>1, LeastNumber
  <2>2. k \in Nat /\ ~\E f : Part(f, k)
    BY <2>1
  <2>3. k # 0
    <3>1. Below(0) = {}
      BY <1>2
    <3>2. Part([b \in {} |-> 0], 0)
      BY <3>1
    <3> QED
      BY <2>2, <3>2
  <2>4. k - 1 \in Nat /\ ~(k <= k - 1)
    BY <2>2, <2>3
  <2>5. PICK f : Part(f, k - 1)
    <3>1. k - 1 \notin lacking
      BY <2>1, <2>4
    <3> HIDE DEF Part
    <3> QED
      BY <2>4, <3>1
  <2> DEFINE g == [b \in Below(k) |-> V(f, b)]
  <2>6. ASSUME NEW b \in Below(k)
        PROVE  V(f, b) = V(g, b)
    <3>1. b \in S /\ size[b] \in Nat /\ size[b] < k
      BY <1>2
    <3>2. ASSUME b \notin ends
          PROVE  f[next[b]] = g[next[b]]
      <4>1. next[b] \in S /\ size[next[b]] < k - 1 /\ size[next[b]] < k
        BY <1>2, <2>2, <3>1, <3>2
      <4>2. f[next[b]] = V(f, next[b])
        <5> HIDE DEF Part
        <5> QED
          BY <1>3, <2>5, <4>1
      <4> QED
        BY <4>1, <4>2
    <3> HIDE DEF g
    <3> QED
      BY <1>1, <3>1, <3>2
  <2>7. Part(g, k)
    BY <2>6
  <2> QED
    BY <2>2, <2>7
<1>5. \A k \in Nat : Part(part[k], k)
  <2>1. \A k \in Nat : \E f : Part(f, k)
    BY <1>4
  <2> HIDE DEF Part
  <2> QED
    BY <2>1
<1> HIDE DEF Part, lacking, part
<1> DEFINE Differ(n) == \E b \in S : size[b] = n /\ \E j, k \in Nat : size[b] < j /\ size[b] < k /\ part[j][b] # part[k][b]
           different == {n \in Nat : Differ(n)}
<1>6. ASSUME different # {}
      PROVE  FALSE
  <2>1. PICK n \in different : \A m \in different : n <= m
    <3>1. different \in SUBSET Nat
      OBVIOUS
    <3> HIDE DEF different
    <3> QED
      BY <1>6, <3>1, LeastNumber
  <2>2. PICK b \in S, j \in Nat, k \in Nat :
          size[b] = n /\ size[b] < j /\ size[b] < k /\ part[j][b] # part[k][b]
    BY <2>1
  <2>3. part[j][b] = V(part[j], b) /\ part[k][b] = V(part[k], b)
    BY <1>3, <1>5, <2>2
  <2>4. ASSUME b \notin ends
        PROVE  part[j][next[b]] = part[k][next[b]]
    <3>1. /\ next[b] \in S /\ size[next[b]] \in Nat /\ size[next[b]] < n
          /\ size[next[b]] < j /\ size[next[b]] < k
      BY <1>2, <2>2, <2>4
    <3>2. ~Differ(size[next[b]])
      BY <2>1, <3>1
    <3> QED
      BY <3>1, <3>2
  <2>5. V(part[j], b) = V(part[k], b)
    BY <1>1, <2>4
  <2> QED
    BY <2>2, <2>3, <2>5
<1>7. ASSUME NEW b \in S
      PROVE  part[size[b] + 1][b] = V(whole, b)
  <2>1. size[b] \in Nat /\ size[b] + 1 \in Nat /\ size[b] < size[b] + 1
    BY <1>2
  <2>2. part[size[b] + 1][b] = V(part[size[b] + 1], b)
    BY <1>3, <1>5, <2>1
  <2>3. ASSUME b \notin ends
        PROVE  part[size[b] + 1][next[b]] = whole[next[b]]
    <3> DEFINE c == next[b]
    <3>1. c \in S /\ size[c] \in Nat /\ size[c] + 1 \in Nat /\ size[c] < size[c] + 1 /\ size[c] < size[b] + 1
      BY <1>2, <2>1, <2>3
    <3>2. ~Differ(size[c])
      BY <1>6, <3>1
    <3> QED
      BY <2>1, <3>1, <3>2
  <2> HIDE DEF whole
  <2> QED
    BY <1>1, <2>2, <2>3
<1>8. whole = [b \in S |-> V(whole, b)]
  <2>1. \A b \in S : part[size[b] + 1][b] = V(whole, b)
    BY <1>7
  <2> QED
    BY <2>1
<1> HIDE DEF whole
<1> QED
  BY <1>8 DEF V, Descends

(* Elements between two places.                                            *)
LEMMA Slice ==
  ASSUME NEW S, NEW s \in Seq(S), NEW m \in Nat, NEW n \in Nat,
         1 <= m, m <= n + 1, n <= Len(s)
  PROVE  /\ SubSeq(s, m, n) \in Seq(S)
         /\ Len(SubSeq(s, m, n)) = n + 1 - m
         /\ \A i \in 1..(n + 1 - m) : SubSeq(s, m, n)[i] = s[m + i - 1]
<1>1. Len(s) \in Nat /\ \A i \in m..n : s[i] \in S
  BY Members
<1>2. /\ SubSeq(s, m, n) \in Seq(S)
      /\ Len(SubSeq(s, m, n)) = IF m <= n THEN n - m + 1 ELSE 0
      /\ \A i \in 1..(n - m + 1) : SubSeq(s, m, n)[i] = s[m + i - 1]
  BY <1>1, SubSeqProperties
<1>3. n - m + 1 = n + 1 - m /\ (~(m <= n) => n + 1 - m = 0)
  OBVIOUS
<1> QED
  BY <1>2, <1>3

(* What a concatenation has at a place.                                    *)
LEMMA Joined ==
  ASSUME NEW S, NEW s \in Seq(S), NEW t \in Seq(S)
  PROVE  /\ s \o t \in Seq(S)
         /\ Len(s \o t) = Len(s) + Len(t)
         /\ \A i \in 1..Len(s) : (s \o t)[i] = s[i]
         /\ \A i \in 1..Len(t) : (s \o t)[Len(s) + i] = t[i]
<1>1. PICK n \in Nat, m \in Nat : n = Len(s) /\ m = Len(t)
  BY Members
<1>2. /\ s \o t \in Seq(S)
      /\ Len(s \o t) = n + m
      /\ \A i \in 1..(n + m) : (s \o t)[i] = IF i <= n THEN s[i] ELSE t[i - n]
  BY <1>1, ConcatProperties
<1>3. \A i \in 1..n : i \in 1..(n + m) /\ i <= n
  OBVIOUS
<1>4. \A i \in 1..m : n + i \in 1..(n + m) /\ ~(n + i <= n) /\ (n + i) - n = i
  OBVIOUS
<1> QED
  BY <1>1, <1>2, <1>3, <1>4

LEMMA LowestMember ==
  ASSUME NEW T \in SUBSET Nat, T # {}
  PROVE  Min(T) \in T /\ \A n \in T : Min(T) <= n
  BY LeastNumber DEF Min

LEMMA OccursAt ==
  ASSUME NEW p \in Seq(Bytes), p # <<>>, NEW b \in Seq(Bytes), NEW i \in Nat
  PROVE  i \in Occurrences(p, b) <=>
           /\ 1 <= i /\ i + Len(p) <= Len(b) + 1
           /\ \A j \in 1..Len(p) : b[i + j - 1] = p[j]
<1>1. PICK k \in Nat, n \in Nat : k = Len(p) /\ n = Len(b) /\ k # 0
  BY Members, EmptySeq
<1> DEFINE here == SubSeq(b, i, i + k - 1)
<1>2. i \in Occurrences(p, b) <=> i \in 1..(n + 1 - k) /\ here = p
  BY <1>1 DEF Occurrences
<1>3. i \in 1..(n + 1 - k) <=> 1 <= i /\ i + k <= n + 1
  BY <1>1
<1>4. ASSUME 1 <= i, i + k <= n + 1
      PROVE  here = p <=> \A j \in 1..k : b[i + j - 1] = p[j]
  <2>1. i + k - 1 \in Nat /\ i <= (i + k - 1) + 1 /\ i + k - 1 <= n /\ (i + k - 1) + 1 - i = k
    BY <1>1, <1>4
  <2>2. here \in Seq(Bytes) /\ Len(here) = k /\ \A j \in 1..k : here[j] = b[i + j - 1]
    BY <1>1, <1>4, <2>1, Slice
  <2> HIDE DEF here
  <2>3. (\A j \in 1..k : here[j] = p[j]) => here = p
    BY <1>1, <2>2, Extensional
  <2> QED
    BY <2>2, <2>3
<1> QED
  BY <1>1, <1>2, <1>3, <1>4

LEMMA SyncsAt ==
  ASSUME NEW b \in Seq(Bytes), NEW i \in Nat
  PROVE  i \in Occurrences(SYNC, b) <=>
           1 <= i /\ i + 1 <= Len(b) /\ b[i] = 165 /\ b[i + 1] = 90
<1>0. SYNC \in Seq(Bytes) /\ SYNC # <<>>
  BY DEF SYNC, Bytes
<1>1. Len(SYNC) = 2 /\ SYNC[1] = 165 /\ SYNC[2] = 90
  BY DEF SYNC
<1>2. PICK n \in Nat : n = Len(b)
  BY Members
<1>3. i \in Occurrences(SYNC, b) <=>
        /\ 1 <= i /\ i + 2 <= n + 1
        /\ \A j \in 1..2 : b[i + j - 1] = SYNC[j]
  <2>1. i \in Occurrences(SYNC, b) <=>
          /\ 1 <= i /\ i + Len(SYNC) <= Len(b) + 1
          /\ \A j \in 1..Len(SYNC) : b[i + j - 1] = SYNC[j]
    BY <1>0, OccursAt
  <2> QED
    BY <1>1, <1>2, <2>1
<1>4. (\A j \in 1..2 : b[i + j - 1] = SYNC[j]) <=> b[i + 1 - 1] = 165 /\ b[i + 2 - 1] = 90
  <2>1. \A j \in 1..2 : j = 1 \/ j = 2
    OBVIOUS
  <2>2. 1 \in 1..2 /\ 2 \in 1..2
    OBVIOUS
  <2> QED
    BY <1>1, <2>1, <2>2
<1>5. i + 1 - 1 = i /\ i + 2 - 1 = i + 1 /\ (i + 2 <= n + 1 <=> i + 1 <= n)
  OBVIOUS
<1> QED
  BY <1>2, <1>3, <1>4, <1>5

LEMMA OccurrencesAreNumbers ==
  ASSUME NEW p, NEW b
  PROVE  Occurrences(p, b) \subseteq Nat
  BY DEF Occurrences

(* What is left of a buffer from its first SYNC.                           *)
Synced(buffer) == SubSeq(buffer, Min(Occurrences(SYNC, buffer)), Len(buffer))

LEMMA SyncedTyped ==
  ASSUME NEW b \in Seq(Bytes), Occurrences(SYNC, b) # {}
  PROVE  Synced(b) \in Seq(Bytes) /\ Len(Synced(b)) <= Len(b)
<1> DEFINE i == Min(Occurrences(SYNC, b))
<1>1. PICK n \in Nat : n = Len(b)
  BY Members
<1>2. i \in Nat /\ i \in Occurrences(SYNC, b)
  BY OccurrencesAreNumbers, LowestMember
<1> HIDE DEF i
<1>3. 1 <= i /\ i + 1 <= n
  BY <1>1, <1>2, SyncsAt
<1>4. i <= n + 1 /\ n + 1 - i <= n
  BY <1>2, <1>3
<1>5. SubSeq(b, i, n) \in Seq(Bytes) /\ Len(SubSeq(b, i, n)) = n + 1 - i
  BY <1>1, <1>2, <1>3, <1>4, Slice
<1> QED
  BY <1>1, <1>4, <1>5 DEF Synced, i

(* The length a frame claims is a number once its two bytes are in.        *)
LEMMA ClaimedTyped ==
  ASSUME NEW s \in Seq(Bytes), Len(s) >= 7
  PROVE  Claimed(s) \in Nat
<1>1. s[6] \in Bytes /\ s[7] \in Bytes
  <2>1. 6 \in 1..Len(s) /\ 7 \in 1..Len(s)
    BY Members
  <2> QED
    BY <2>1, Members
<1>2. \A x \in Bytes : x \in Nat
  BY DEF Bytes
<1>3. s[6] \in Nat /\ s[7] \in Nat
  BY <1>1, <1>2
<1> QED
  BY <1>3 DEF Claimed

LEMMA SkippedShorter ==
  ASSUME NEW s \in Seq(Bytes), Decidable(s)
  PROVE  Skipped(s) \in Seq(Bytes) /\ Len(Skipped(s)) < Len(s)
<1>1. PICK n \in Nat : n = Len(s) /\ n >= 7
  BY Members DEF Decidable
<1>2. PICK c \in Nat : c = Claimed(s)
  BY <1>1, ClaimedTyped
<1>3. CASE BadHeader(s) \/ BadChecksum(s)
  <2>1. s # <<>>
    BY <1>1
  <2>2. Tail(s) \in Seq(Bytes) /\ Len(Tail(s)) = n - 1
    BY <1>1, <2>1, HeadTailProperties
  <2> QED
    BY <1>1, <1>3, <2>2 DEF Skipped
<1>4. CASE ~(BadHeader(s) \/ BadChecksum(s))
  <2>1. n >= 8 + c
    BY <1>1, <1>2, <1>4 DEF Decidable
  <2>2. 9 + c \in Nat /\ 1 <= 9 + c /\ 9 + c <= n + 1 /\ n + 1 - (9 + c) < n
    BY <1>1, <1>2, <2>1
  <2>3. SubSeq(s, 9 + c, n) \in Seq(Bytes) /\ Len(SubSeq(s, 9 + c, n)) = n + 1 - (9 + c)
    BY <1>1, <2>2, Slice
  <2>4. Skipped(s) = SubSeq(s, 9 + c, n)
    BY <1>1, <1>2, <1>4 DEF Skipped
  <2> QED
    BY <1>1, <2>2, <2>3, <2>4
<1> QED
  BY <1>3, <1>4

(* Decode is what its definition says it is.                               *)
LEMMA DecodeUnfolds ==
  ASSUME NEW b \in Seq(Bytes)
  PROVE  /\ Occurrences(SYNC, b) = {} =>
              Decode[b] = [items |-> <<>>, left |-> KeptTail(b)]
         /\ Occurrences(SYNC, b) # {} =>
              /\ ~Decidable(Synced(b)) => Decode[b] = [items |-> <<>>, left |-> Synced(b)]
              /\ Decidable(Synced(b)) =>
                   LET later == Decode[Skipped(Synced(b))]
                   IN  Decode[b] = [items |-> <<Verdict(Synced(b))>> \o later.items,
                                    left  |-> later.left]
<1> DEFINE S == Seq(Bytes)
           Body(f, c) ==
             LET syncs  == Occurrences(SYNC, c)
                 synced == SubSeq(c, Min(syncs), Len(c))
                 later  == f[Skipped(synced)]
             IN  IF syncs = {} THEN [items |-> <<>>, left |-> KeptTail(c)]
                 ELSE IF ~Decidable(synced) THEN [items |-> <<>>, left |-> synced]
                 ELSE [items |-> <<Verdict(synced)>> \o later.items, left |-> later.left]
           ends  == {c \in S : Occurrences(SYNC, c) = {} \/ ~Decidable(Synced(c))}
           last  == [c \in S |-> [items |-> <<>>,
                                  left  |-> IF Occurrences(SYNC, c) = {} THEN KeptTail(c)
                                                                         ELSE Synced(c)]]
           first == [c \in S |-> Verdict(Synced(c))]
           next  == [c \in S |-> Skipped(Synced(c))]
           size  == [c \in S |-> Len(c)]
<1>1. Decode = CHOOSE f : f = [c \in S |-> Body(f, c)]
  BY DEF Decode
<1>2. ASSUME NEW f, NEW c \in S
      PROVE  Body(f, c) = Says(f, c, ends, last, first, next)
  <2>1. CASE Occurrences(SYNC, c) = {}
    BY <2>1 DEF Says
  <2>2. CASE Occurrences(SYNC, c) # {} /\ ~Decidable(Synced(c))
    BY <2>2 DEF Says, Synced
  <2>3. CASE Occurrences(SYNC, c) # {} /\ Decidable(Synced(c))
    <3>1. c \notin ends
      BY <2>3
    <3>2. first[c] = Verdict(Synced(c)) /\ next[c] = Skipped(Synced(c))
      OBVIOUS
    <3>3. Body(f, c) = [items |-> <<Verdict(Synced(c))>> \o f[Skipped(Synced(c))].items,
                        left  |-> f[Skipped(Synced(c))].left]
      BY <2>3 DEF Synced
    <3> HIDE DEF ends, first, next, last, Body
    <3> QED
      BY <3>1, <3>2, <3>3 DEF Says
  <2> QED
    BY <2>1, <2>2, <2>3
<1>3. ASSUME NEW c \in S, c \notin ends
      PROVE  next[c] \in S /\ size[next[c]] < size[c]
  <2>1. Occurrences(SYNC, c) # {} /\ Decidable(Synced(c))
    BY <1>3
  <2>2. Synced(c) \in S /\ Len(Synced(c)) <= Len(c)
    BY <2>1, SyncedTyped
  <2>3. Skipped(Synced(c)) \in S /\ Len(Skipped(Synced(c))) < Len(Synced(c))
    BY <2>1, <2>2, SkippedShorter
  <2>4. next[c] = Skipped(Synced(c))
    OBVIOUS
  <2>5. Len(c) \in Nat /\ Len(Synced(c)) \in Nat /\ Len(Skipped(Synced(c))) \in Nat
    BY <2>2, <2>3, Members
  <2> HIDE DEF next
  <2> QED
    BY <2>2, <2>3, <2>4, <2>5
<1>4. size \in [S -> Nat]
  BY Members
<1> HIDE DEF ends, last, first, next, size
<1>5. PICK f : Descends(f, S, ends, last, first, next)
  <2> HIDE DEF S, Body
  <2>1. \A c \in S : c \notin ends => next[c] \in S /\ size[next[c]] < size[c]
    BY <1>3
  <2> QED
    BY <1>4, <2>1, DescentExists
<1>6. f = [c \in S |-> Body(f, c)]
  <2>1. \A c \in S : Says(f, c, ends, last, first, next) = Body(f, c)
    BY <1>2
  <2> HIDE DEF Body
  <2>2. [c \in S |-> Says(f, c, ends, last, first, next)] = [c \in S |-> Body(f, c)]
    BY <2>1
  <2> QED
    BY <1>5, <2>2 DEF Descends
<1>7. Decode = [c \in S |-> Body(Decode, c)]
  <2> HIDE DEF Body
  <2> QED
    BY <1>1, <1>6
<1>8. Decode[b] = Body(Decode, b)
  <2> HIDE DEF Body
  <2> QED
    BY <1>7
<1> QED
  BY <1>8 DEF Synced

(* What is handed on is typed.                                             *)
Item == [kind : Bytes, channel : Bytes, payload : Seq(Bytes)]

LEMMA ItemsRegroup ==
  \A s, t, u \in Seq(Item) : (s \o t) \o u = s \o (t \o u)
  BY ConcatAssociative

LEMMA ErrorTyped == Error \in Item
<1>1. 0 \in Bytes
  BY DEF Bytes
<1> QED
  BY <1>1 DEF Error, Item

LEMMA VerdictTyped ==
  ASSUME NEW s \in Seq(Bytes), Decidable(s)
  PROVE  Verdict(s) \in Item
<1>1. PICK n \in Nat : n = Len(s) /\ n >= 7
  BY Members DEF Decidable
<1>2. PICK c \in Nat : c = Claimed(s)
  BY <1>1, ClaimedTyped
<1>3. CASE BadHeader(s) \/ BadChecksum(s) \/ s[4] \notin KINDS
  BY <1>3, ErrorTyped DEF Verdict
<1>4. CASE ~(BadHeader(s) \/ BadChecksum(s) \/ s[4] \notin KINDS)
  <2>1. n >= 8 + c
    BY <1>1, <1>2, <1>4 DEF Decidable
  <2>2. s[4] \in Bytes /\ s[5] \in Bytes
    BY <1>1, Members
  <2>3. 8 \in Nat /\ 7 + c \in Nat /\ 1 <= 8 /\ 8 <= (7 + c) + 1 /\ 7 + c <= n
    BY <1>1, <1>2, <2>1
  <2>4. SubSeq(s, 8, 7 + c) \in Seq(Bytes)
    BY <1>1, <2>3, Slice
  <2>5. Verdict(s) = [kind |-> s[4], channel |-> s[5], payload |-> SubSeq(s, 8, 7 + c)]
    BY <1>2, <1>4 DEF Verdict
  <2> QED
    BY <2>2, <2>4, <2>5 DEF Item
<1> QED
  BY <1>3, <1>4

LEMMA KeptTyped ==
  ASSUME NEW b
  PROVE  KeptTail(b) \in Seq(Bytes)
<1>1. SYNC[1] \in Bytes
  BY DEF SYNC, Bytes
<1>2. KeptTail(b) = <<SYNC[1]>> \/ KeptTail(b) = <<>>
  BY DEF KeptTail
<1>3. <<SYNC[1]>> \in Seq(Bytes) /\ <<>> \in Seq(Bytes)
  <2> DEFINE x == SYNC[1]
  <2>1. x \in Bytes
    BY <1>1
  <2> HIDE DEF x
  <2>2. <<x>> \in Seq(Bytes)
    BY <2>1
  <2> QED
    BY <2>2 DEF x
<1> QED
  BY <1>2, <1>3

Result == [items : Seq(Item), left : Seq(Bytes)]

LEMMA DecodeTyped ==
  ASSUME NEW b \in Seq(Bytes)
  PROVE  Decode[b] \in Result
<1> DEFINE wrong == {n \in Nat : \E c \in Seq(Bytes) : Len(c) = n /\ Decode[c] \notin Result}
<1>1. ASSUME wrong # {}
      PROVE  FALSE
  <2>1. PICK n \in wrong : \A m \in wrong : n <= m
    <3>1. wrong \in SUBSET Nat
      OBVIOUS
    <3> HIDE DEF wrong
    <3> QED
      BY <1>1, <3>1, LeastNumber
  <2>2. PICK c \in Seq(Bytes) : Len(c) = n /\ n \in Nat /\ Decode[c] \notin Result
    BY <2>1
  <2>3. Occurrences(SYNC, c) # {} /\ Decidable(Synced(c))
    <3>1. ASSUME Occurrences(SYNC, c) = {}
          PROVE  FALSE
      <4>1. Decode[c] = [items |-> <<>>, left |-> KeptTail(c)]
        BY <3>1, DecodeUnfolds
      <4>2. <<>> \in Seq(Item) /\ KeptTail(c) \in Seq(Bytes)
        BY KeptTyped
      <4> QED
        BY <2>2, <4>1, <4>2 DEF Result
    <3>2. ASSUME Occurrences(SYNC, c) # {}, ~Decidable(Synced(c))
          PROVE  FALSE
      <4>1. Decode[c] = [items |-> <<>>, left |-> Synced(c)]
        BY <3>2, DecodeUnfolds
      <4>2. <<>> \in Seq(Item) /\ Synced(c) \in Seq(Bytes)
        BY <3>2, SyncedTyped
      <4> QED
        BY <2>2, <4>1, <4>2 DEF Result
    <3> QED
      BY <3>1, <3>2
  <2> DEFINE d == Skipped(Synced(c))
             m == Len(d)
             later == Decode[d]
  <2>4. d \in Seq(Bytes) /\ m \in Nat /\ m < n
    <3>1. Synced(c) \in Seq(Bytes) /\ Len(Synced(c)) <= n
      BY <2>2, <2>3, SyncedTyped
    <3>2. d \in Seq(Bytes) /\ Len(d) < Len(Synced(c))
      BY <2>3, <3>1, SkippedShorter
    <3>3. Len(Synced(c)) \in Nat /\ m \in Nat
      BY <3>1, <3>2, Members
    <3> HIDE DEF d
    <3> QED
      BY <2>2, <3>1, <3>2, <3>3
  <2>5. later \in Result
    <3>1. m \notin wrong
      <4> HIDE DEF wrong, m
      <4>1. ~(n <= m)
        BY <2>2, <2>4
      <4> QED
        BY <2>1, <4>1
    <3> HIDE DEF d
    <3> QED
      BY <2>4, <3>1
  <2>6. Decode[c] = [items |-> <<Verdict(Synced(c))>> \o later.items, left |-> later.left]
    BY <2>3, DecodeUnfolds
  <2>7. Verdict(Synced(c)) \in Item
    BY <2>3, SyncedTyped, VerdictTyped
  <2> HIDE DEF later
  <2>8. later.items \in Seq(Item) /\ later.left \in Seq(Bytes)
    BY <2>5 DEF Result
  <2>9. <<Verdict(Synced(c))>> \o later.items \in Seq(Item)
    <3>1. <<Verdict(Synced(c))>> \in Seq(Item)
      BY <2>7
    <3> QED
      BY <2>8, <3>1, ConcatProperties
  <2> QED
    BY <2>2, <2>6, <2>8, <2>9 DEF Result
<1> QED
  <2>1. Len(b) \in Nat /\ Len(b) \notin wrong
    BY <1>1, Members
  <2> QED
    BY <2>1

-----------------------------------------------------------------------------
(* The decoder: more input.                                                *)

LEMMA SliceOfJoined ==
  ASSUME NEW S, NEW s \in Seq(S), NEW t \in Seq(S), NEW m \in Nat, NEW n \in Nat,
         1 <= m, m <= n + 1, n <= Len(s)
  PROVE  SubSeq(s \o t, m, n) = SubSeq(s, m, n)
<1>1. PICK j \in Nat, k \in Nat : j = Len(s) /\ k = Len(t)
  BY Members
<1> DEFINE long == s \o t
<1>2. long \in Seq(S) /\ Len(long) = j + k /\ \A i \in 1..j : long[i] = s[i]
  BY <1>1, Joined
<1> HIDE DEF long
<1>3. n <= j + k
  BY <1>1
<1>4. /\ SubSeq(long, m, n) \in Seq(S)
      /\ Len(SubSeq(long, m, n)) = n + 1 - m
      /\ \A i \in 1..(n + 1 - m) : SubSeq(long, m, n)[i] = long[m + i - 1]
  BY <1>2, <1>3, Slice
<1>5. /\ SubSeq(s, m, n) \in Seq(S)
      /\ Len(SubSeq(s, m, n)) = n + 1 - m
      /\ \A i \in 1..(n + 1 - m) : SubSeq(s, m, n)[i] = s[m + i - 1]
  BY Slice
<1>6. \A i \in 1..(n + 1 - m) : m + i - 1 \in 1..j
  BY <1>1
<1>7. \A i \in 1..(n + 1 - m) : SubSeq(long, m, n)[i] = SubSeq(s, m, n)[i]
  BY <1>2, <1>4, <1>5, <1>6
<1> QED
  BY <1>4, <1>5, <1>7, Extensional DEF long

LEMMA RestOfJoined ==
  ASSUME NEW S, NEW s \in Seq(S), NEW t \in Seq(S), NEW m \in Nat,
         1 <= m, m <= Len(s) + 1
  PROVE  SubSeq(s \o t, m, Len(s \o t)) = SubSeq(s, m, Len(s)) \o t
<1>1. PICK j \in Nat, k \in Nat : j = Len(s) /\ k = Len(t)
  BY Members
<1> DEFINE long == s \o t
           rest == SubSeq(s, m, j)
<1>2. /\ long \in Seq(S) /\ Len(long) = j + k
      /\ \A i \in 1..j : long[i] = s[i]
      /\ \A i \in 1..k : long[j + i] = t[i]
  BY <1>1, Joined
<1>3. /\ rest \in Seq(S) /\ Len(rest) = j + 1 - m
      /\ \A i \in 1..(j + 1 - m) : rest[i] = s[m + i - 1]
  BY <1>1, Slice
<1> HIDE DEF long, rest
<1>4. j + k \in Nat /\ m <= (j + k) + 1 /\ (j + k) + 1 - m = (j + 1 - m) + k /\ j + 1 - m \in Nat
  BY <1>1
<1>5. /\ SubSeq(long, m, j + k) \in Seq(S)
      /\ Len(SubSeq(long, m, j + k)) = (j + 1 - m) + k
      /\ \A i \in 1..((j + 1 - m) + k) : SubSeq(long, m, j + k)[i] = long[m + i - 1]
  <2>1. /\ SubSeq(long, m, j + k) \in Seq(S)
        /\ Len(SubSeq(long, m, j + k)) = (j + k) + 1 - m
        /\ \A i \in 1..((j + k) + 1 - m) : SubSeq(long, m, j + k)[i] = long[m + i - 1]
    <3>1. j + k <= Len(long)
      BY <1>2, <1>4
    <3> QED
      BY <1>2, <1>4, <3>1, Slice
  <2> QED
    BY <1>4, <2>1
<1>6. /\ rest \o t \in Seq(S)
      /\ Len(rest \o t) = (j + 1 - m) + k
      /\ \A i \in 1..(j + 1 - m) : (rest \o t)[i] = rest[i]
      /\ \A i \in 1..k : (rest \o t)[(j + 1 - m) + i] = t[i]
  <2>1. /\ rest \o t \in Seq(S)
        /\ Len(rest \o t) = Len(rest) + Len(t)
        /\ \A i \in 1..Len(rest) : (rest \o t)[i] = rest[i]
        /\ \A i \in 1..Len(t) : (rest \o t)[Len(rest) + i] = t[i]
    <3>1. rest \in Seq(S)
      BY <1>3
    <3> QED
      BY <3>1, Joined
  <2> QED
    BY <1>1, <1>3, <2>1
<1>7. ASSUME NEW i \in 1..((j + 1 - m) + k)
      PROVE  SubSeq(long, m, j + k)[i] = (rest \o t)[i]
  <2>1. SubSeq(long, m, j + k)[i] = long[m + i - 1]
    BY <1>5
  <2>2. CASE i <= j + 1 - m
    <3>1. i \in 1..(j + 1 - m) /\ m + i - 1 \in 1..j
      BY <1>4, <2>2
    <3> QED
      BY <1>2, <1>3, <1>6, <2>1, <3>1
  <2>3. CASE ~(i <= j + 1 - m)
    <3> DEFINE e == i - (j + 1 - m)
    <3>1. e \in 1..k /\ i = (j + 1 - m) + e /\ m + i - 1 = j + e
      BY <1>4, <2>3
    <3> HIDE DEF e
    <3>2. (rest \o t)[i] = t[e]
      BY <1>6, <3>1
    <3>3. long[m + i - 1] = t[e]
      BY <1>2, <3>1
    <3> QED
      BY <2>1, <3>2, <3>3
  <2> QED
    BY <2>2, <2>3
<1>8. SubSeq(long, m, j + k) = rest \o t
  BY <1>5, <1>6, <1>7, Extensional
<1> QED
  BY <1>1, <1>2, <1>8 DEF long, rest

LEMMA EndOfJoined ==
  ASSUME NEW S, NEW s \in Seq(S), NEW t \in Seq(S), NEW m \in Nat,
         1 <= m, m <= Len(t) + 1
  PROVE  SubSeq(s \o t, Len(s) + m, Len(s \o t)) = SubSeq(t, m, Len(t))
<1> DEFINE b == s \o t
<1>1. PICK n \in Nat, k \in Nat : n = Len(s) /\ k = Len(t)
  BY Members
<1>2. b \in Seq(S) /\ Len(b) = n + k /\ \A i \in 1..k : b[n + i] = t[i]
  BY <1>1, Joined
<1> HIDE DEF b
<1>3. /\ n + m \in Nat /\ n + k \in Nat /\ 1 <= n + m /\ n + m <= (n + k) + 1
      /\ (n + k) + 1 - (n + m) = k + 1 - m
  BY <1>1
<1>4. /\ SubSeq(b, n + m, n + k) \in Seq(S)
      /\ Len(SubSeq(b, n + m, n + k)) = k + 1 - m
      /\ \A i \in 1..(k + 1 - m) : SubSeq(b, n + m, n + k)[i] = b[n + m + i - 1]
  <2>1. n + k <= Len(b)
    BY <1>2, <1>3
  <2>2. /\ SubSeq(b, n + m, n + k) \in Seq(S)
        /\ Len(SubSeq(b, n + m, n + k)) = (n + k) + 1 - (n + m)
        /\ \A i \in 1..((n + k) + 1 - (n + m)) : SubSeq(b, n + m, n + k)[i] = b[n + m + i - 1]
    BY <1>2, <1>3, <2>1, Slice
  <2> QED
    BY <1>3, <2>2
<1>5. /\ SubSeq(t, m, k) \in Seq(S)
      /\ Len(SubSeq(t, m, k)) = k + 1 - m
      /\ \A i \in 1..(k + 1 - m) : SubSeq(t, m, k)[i] = t[m + i - 1]
  BY <1>1, Slice
<1>6. \A i \in 1..(k + 1 - m) : m + i - 1 \in 1..k /\ n + m + i - 1 = n + (m + i - 1)
  BY <1>1
<1>7. \A i \in 1..(k + 1 - m) : SubSeq(b, n + m, n + k)[i] = SubSeq(t, m, k)[i]
  BY <1>2, <1>4, <1>5, <1>6
<1>8. SubSeq(b, n + m, n + k) = SubSeq(t, m, k)
  BY <1>4, <1>5, <1>7, Extensional
<1> QED
  BY <1>1, <1>2, <1>8 DEF b

(* What occurs in an end occurs in the whole.                              *)
LEMMA OccursShifted ==
  ASSUME NEW p \in Seq(Bytes), p # <<>>, NEW a \in Seq(Bytes), NEW t \in Seq(Bytes), NEW i \in Nat
  PROVE  i \in Occurrences(p, t) <=> 1 <= i /\ Len(a) + i \in Occurrences(p, a \o t)
<1> DEFINE b == a \o t
<1>1. PICK n \in Nat, k \in Nat, j \in Nat : n = Len(a) /\ k = Len(t) /\ j = Len(p)
  BY Members
<1>2. b \in Seq(Bytes) /\ Len(b) = n + k /\ \A e \in 1..k : b[n + e] = t[e]
  BY <1>1, Joined
<1> HIDE DEF b
<1>3. i \in Occurrences(p, t) <=>
        1 <= i /\ i + j <= k + 1 /\ \A e \in 1..j : t[i + e - 1] = p[e]
  BY <1>1, OccursAt
<1>4. n + i \in Occurrences(p, b) <=>
        1 <= n + i /\ n + i + j <= n + k + 1 /\ \A e \in 1..j : b[n + i + e - 1] = p[e]
  <2>1. n + i \in Nat
    OBVIOUS
  <2> QED
    BY <1>1, <1>2, <2>1, OccursAt
<1>5. ASSUME 1 <= i, i + j <= k + 1
      PROVE  \A e \in 1..j : b[n + i + e - 1] = t[i + e - 1]
  <2>1. \A e \in 1..j : i + e - 1 \in 1..k /\ n + i + e - 1 = n + (i + e - 1)
    BY <1>1, <1>5
  <2> QED
    BY <1>2, <2>1
<1>6. (i + j <= k + 1 <=> n + i + j <= n + k + 1) /\ (1 <= i => 1 <= n + i)
  BY <1>1
<1>7. i \in Occurrences(p, t) <=> 1 <= i /\ n + i \in Occurrences(p, b)
  BY <1>3, <1>4, <1>5, <1>6
<1> QED
  BY <1>1, <1>7 DEF b

LEMMA BeginningOfJoined ==
  ASSUME NEW S, NEW s \in Seq(S), NEW t \in Seq(S), NEW m \in Nat, m <= Len(t)
  PROVE  SubSeq(s \o t, 1, Len(s) + m) = s \o SubSeq(t, 1, m)
<1> DEFINE b == s \o t
           e == SubSeq(t, 1, m)
<1>1. PICK n \in Nat, k \in Nat : n = Len(s) /\ k = Len(t)
  BY Members
<1>2. /\ b \in Seq(S) /\ Len(b) = n + k
      /\ \A i \in 1..n : b[i] = s[i]
      /\ \A i \in 1..k : b[n + i] = t[i]
  BY <1>1, Joined
<1>3. e \in Seq(S) /\ Len(e) = m /\ \A i \in 1..m : e[i] = t[i]
  <2>1. 1 \in Nat /\ 1 <= m + 1 /\ m + 1 - 1 = m /\ \A i \in 1..m : 1 + i - 1 = i
    OBVIOUS
  <2>2. e \in Seq(S) /\ Len(e) = m + 1 - 1 /\ \A i \in 1..(m + 1 - 1) : e[i] = t[1 + i - 1]
    BY <2>1, Slice
  <2> HIDE DEF e
  <2> QED
    BY <2>1, <2>2
<1>4. /\ s \o e \in Seq(S) /\ Len(s \o e) = n + m
      /\ \A i \in 1..n : (s \o e)[i] = s[i]
      /\ \A i \in 1..m : (s \o e)[n + i] = e[i]
  <2> HIDE DEF e
  <2>1. /\ s \o e \in Seq(S) /\ Len(s \o e) = Len(s) + Len(e)
        /\ \A i \in 1..Len(s) : (s \o e)[i] = s[i]
        /\ \A i \in 1..Len(e) : (s \o e)[Len(s) + i] = e[i]
    <3>1. e \in Seq(S)
      BY <1>3
    <3> QED
      BY <3>1, Joined
  <2> QED
    BY <1>1, <1>3, <2>1
<1> HIDE DEF b, e
<1>5. /\ SubSeq(b, 1, n + m) \in Seq(S) /\ Len(SubSeq(b, 1, n + m)) = n + m
      /\ \A i \in 1..(n + m) : SubSeq(b, 1, n + m)[i] = b[i]
  <2>1. /\ 1 \in Nat /\ n + m \in Nat /\ 1 <= (n + m) + 1 /\ n + m <= Len(b)
        /\ (n + m) + 1 - 1 = n + m /\ \A i \in 1..(n + m) : 1 + i - 1 = i
    BY <1>1, <1>2
  <2>2. /\ SubSeq(b, 1, n + m) \in Seq(S) /\ Len(SubSeq(b, 1, n + m)) = (n + m) + 1 - 1
        /\ \A i \in 1..((n + m) + 1 - 1) : SubSeq(b, 1, n + m)[i] = b[1 + i - 1]
    BY <1>2, <2>1, Slice
  <2> QED
    BY <2>1, <2>2
<1>6. ASSUME NEW i \in 1..(n + m)
      PROVE  b[i] = (s \o e)[i]
  <2>1. CASE i <= n
    <3>1. i \in 1..n
      BY <2>1
    <3> QED
      BY <1>2, <1>4, <3>1
  <2>2. CASE ~(i <= n)
    <3>1. PICK f \in 1..m : i = n + f
      <4>1. i - n \in 1..m /\ i = n + (i - n)
        BY <2>2
      <4> QED
        BY <4>1
    <3>2. f \in 1..k
      BY <1>1
    <3>3. b[n + f] = t[f] /\ (s \o e)[n + f] = t[f]
      BY <1>2, <1>3, <1>4, <3>2
    <3> QED
      BY <3>1, <3>3
  <2> QED
    BY <2>1, <2>2
<1>7. SubSeq(b, 1, n + m) = s \o e
  BY <1>4, <1>5, <1>6, Extensional
<1> QED
  BY <1>1, <1>7 DEF b, e

(* A frame that can be decided on is decided on alike whatever follows.    *)
LEMMA MoreInput ==
  ASSUME NEW s \in Seq(Bytes), NEW t \in Seq(Bytes), Decidable(s)
  PROVE  /\ Decidable(s \o t)
         /\ Verdict(s \o t) = Verdict(s)
         /\ Skipped(s \o t) = Skipped(s) \o t
<1> DEFINE long == s \o t
<1>1. PICK n \in Nat, k \in Nat : n = Len(s) /\ k = Len(t) /\ n >= 7
  BY Members DEF Decidable
<1>2. long \in Seq(Bytes) /\ Len(long) = n + k /\ \A i \in 1..n : long[i] = s[i]
  BY <1>1, Joined
<1>3. \A i \in 3..7 : i \in 1..n
  BY <1>1
<1>4. long[3] = s[3] /\ long[4] = s[4] /\ long[5] = s[5] /\ long[6] = s[6] /\ long[7] = s[7]
  <2> HIDE DEF long
  <2> QED
    BY <1>2, <1>3
<1>5. PICK c \in Nat : c = Claimed(s)
  BY <1>1, ClaimedTyped
<1>6. Claimed(long) = c
  <2> HIDE DEF long
  <2> QED
    BY <1>4, <1>5 DEF Claimed
<1>7. BadHeader(long) <=> BadHeader(s)
  <2> HIDE DEF long
  <2> QED
    BY <1>4, <1>5, <1>6 DEF BadHeader
<1>8. ASSUME n >= 8 + c
      PROVE  /\ BadChecksum(long) <=> BadChecksum(s)
             /\ SubSeq(long, 8, 7 + c) = SubSeq(s, 8, 7 + c)
  <2>1. SubSeq(long, 3, 7 + c) = SubSeq(s, 3, 7 + c)
    <3>1. 3 \in Nat /\ 7 + c \in Nat /\ 1 <= 3 /\ 3 <= (7 + c) + 1 /\ 7 + c <= n
      BY <1>1, <1>8
    <3> QED
      BY <1>1, <3>1, SliceOfJoined
  <2>2. SubSeq(long, 8, 7 + c) = SubSeq(s, 8, 7 + c)
    <3>1. 8 \in Nat /\ 7 + c \in Nat /\ 1 <= 8 /\ 8 <= (7 + c) + 1 /\ 7 + c <= n
      BY <1>1, <1>8
    <3> QED
      BY <1>1, <3>1, SliceOfJoined
  <2>3. long[8 + c] = s[8 + c]
    <3>1. 8 + c \in 1..n
      BY <1>1, <1>8
    <3> HIDE DEF long
    <3> QED
      BY <1>2, <3>1
  <2> HIDE DEF long
  <2> QED
    BY <1>5, <1>6, <2>1, <2>2, <2>3 DEF BadChecksum
<1>9. BadHeader(s) \/ n >= 8 + c
  BY <1>1, <1>5 DEF Decidable
<1>10. Decidable(long)
  <2>1. n + k >= 7 /\ (n >= 8 + c => n + k >= 8 + c)
    BY <1>1
  <2> HIDE DEF long
  <2> QED
    BY <1>2, <1>6, <1>7, <1>9, <2>1 DEF Decidable
<1>11. Verdict(long) = Verdict(s)
  <2> HIDE DEF long
  <2>1. CASE BadHeader(s)
    BY <1>7, <2>1 DEF Verdict
  <2>2. CASE ~BadHeader(s)
    <3>1. BadChecksum(long) <=> BadChecksum(s)
      BY <1>8, <1>9, <2>2
    <3>2. SubSeq(long, 8, 7 + c) = SubSeq(s, 8, 7 + c)
      BY <1>8, <1>9, <2>2
    <3> QED
      BY <1>4, <1>5, <1>6, <1>7, <3>1, <3>2 DEF Verdict
  <2> QED
    BY <2>1, <2>2
<1>12. Skipped(long) = Skipped(s) \o t
  <2>1. CASE BadHeader(s) \/ BadChecksum(s)
    <3>1. BadHeader(long) \/ BadChecksum(long)
      BY <1>7, <1>8, <1>9, <2>1
    <3>2. s # <<>> /\ long # <<>>
      <4>1. Len(s) # 0 /\ Len(long) # 0
        BY <1>1, <1>2
      <4> HIDE DEF long
      <4> QED
        BY <1>2, <4>1, EmptySeq
    <3>3. Tail(s) = SubSeq(s, 2, Len(s)) /\ Tail(long) = SubSeq(long, 2, Len(long))
      <4> HIDE DEF long
      <4> QED
        BY <1>2, <3>2, TailIsSubSeq
    <3>4. SubSeq(long, 2, Len(long)) = SubSeq(s, 2, Len(s)) \o t
      <4>1. 2 \in Nat /\ 1 <= 2 /\ 2 <= Len(s) + 1
        BY <1>1
      <4> QED
        BY <4>1, RestOfJoined
    <3>5. Skipped(long) = Tail(long) /\ Skipped(s) = Tail(s)
      <4> HIDE DEF long
      <4> QED
        BY <2>1, <3>1 DEF Skipped
    <3> QED
      BY <3>3, <3>4, <3>5
  <2>2. CASE ~(BadHeader(s) \/ BadChecksum(s))
    <3>1. ~(BadHeader(long) \/ BadChecksum(long))
      BY <1>7, <1>8, <1>9, <2>2
    <3>2. 9 + c \in Nat /\ 1 <= 9 + c /\ 9 + c <= Len(s) + 1
      BY <1>1, <1>9, <2>2
    <3>3. SubSeq(long, 9 + c, Len(long)) = SubSeq(s, 9 + c, Len(s)) \o t
      BY <3>2, RestOfJoined
    <3>4. Skipped(long) = SubSeq(long, 9 + c, Len(long)) /\ Skipped(s) = SubSeq(s, 9 + c, Len(s))
      <4> HIDE DEF long
      <4> QED
        BY <1>5, <1>6, <2>2, <3>1 DEF Skipped
    <3> QED
      BY <3>3, <3>4
  <2> QED
    BY <2>1, <2>2
<1> QED
  BY <1>10, <1>11, <1>12

LEMMA SyncTyped == SYNC \in Seq(Bytes) /\ SYNC # <<>>
  BY DEF SYNC, Bytes

LEMMA SyncLength == Len(SYNC) = 2
  BY DEF SYNC

(* Noise in which no SYNC begins makes no difference.                      *)
LEMMA NoiseSkipped ==
  ASSUME NEW p \in Seq(Bytes), NEW q \in Seq(Bytes),
         \A i \in 1..Len(p) : i \notin Occurrences(SYNC, p \o q),
         q = <<>> => KeptTail(p) = <<>>
  PROVE  Decode[p \o q] = Decode[q]
<1> DEFINE b == p \o q
<1>1. PICK n \in Nat, k \in Nat : n = Len(p) /\ k = Len(q)
  BY Members
<1>2. b \in Seq(Bytes) /\ Len(b) = n + k /\ \A i \in 1..k : b[n + i] = q[i]
  BY <1>1, Joined
<1>3. \A i \in 1..n : i \notin Occurrences(SYNC, b)
  BY <1>1
<1>4. \A m \in Nat : 1 <= m /\ m <= k + 1 => SubSeq(b, n + m, Len(b)) = SubSeq(q, m, k)
  BY <1>1, EndOfJoined
<1>5. \A i \in Nat : i \in Occurrences(SYNC, q) <=> 1 <= i /\ n + i \in Occurrences(SYNC, b)
  BY <1>1, SyncTyped, OccursShifted
<1> HIDE DEF b
<1>6. \A j \in Occurrences(SYNC, b) : j \in Nat /\ j - n \in Nat /\ j = n + (j - n) /\ j > n
  <2> SUFFICES ASSUME NEW j \in Occurrences(SYNC, b)
               PROVE  j \in Nat /\ j > n
    OBVIOUS
  <2>1. j \in Nat
    BY OccurrencesAreNumbers
  <2>2. 1 <= j
    BY <1>2, <2>1, SyncsAt
  <2> QED
    BY <1>3, <2>1, <2>2
<1>7. CASE Occurrences(SYNC, q) = {}
  <2>1. Occurrences(SYNC, b) = {}
    <3>1. \A j \in Occurrences(SYNC, b) : j - n \in Occurrences(SYNC, q)
      BY <1>5, <1>6
    <3> QED
      BY <1>7, <3>1
  <2>2. KeptTail(b) = KeptTail(q)
    <3>1. CASE k = 0
      <4>1. q = <<>> /\ b = p
        BY <1>1, <3>1, EmptySeq, ConcatEmptySeq DEF b
      <4> QED
        BY <4>1 DEF KeptTail
    <3>2. CASE k # 0
      <4>1. k \in 1..k /\ n + k # 0
        BY <1>1, <3>2
      <4>2. Last(b) = Last(q)
        BY <1>1, <1>2, <4>1 DEF Last
      <4>3. b # <<>> /\ q # <<>>
        BY <1>1, <1>2, <3>2, <4>1, EmptySeq
      <4> QED
        BY <4>2, <4>3 DEF KeptTail
    <3> QED
      BY <3>1, <3>2
  <2> QED
    BY <1>2, <1>7, <2>1, <2>2, DecodeUnfolds DEF b
<1>8. CASE Occurrences(SYNC, q) # {}
  <2> DEFINE m == Min(Occurrences(SYNC, q))
  <2>1. m \in Nat /\ m \in Occurrences(SYNC, q) /\ \A i \in Occurrences(SYNC, q) : m <= i
    BY <1>8, OccurrencesAreNumbers, LowestMember
  <2> DEFINE j == Min(Occurrences(SYNC, b))
  <2>2. Occurrences(SYNC, b) # {}
    BY <1>5, <2>1
  <2>3. j \in Nat /\ j \in Occurrences(SYNC, b) /\ \A i \in Occurrences(SYNC, b) : j <= i
    BY <2>2, OccurrencesAreNumbers, LowestMember
  <2>4. Synced(b) = SubSeq(b, j, Len(b)) /\ Synced(q) = SubSeq(q, m, k)
    BY <1>1 DEF Synced
  <2> HIDE DEF m, j
  <2>5. j = n + m
    <3>1. n + m \in Occurrences(SYNC, b)
      BY <1>5, <2>1
    <3>2. j - n \in Occurrences(SYNC, q) /\ j - n \in Nat
      <4>1. j - n \in Nat /\ j = n + (j - n) /\ j > n
        BY <1>6, <2>3
      <4>2. 1 <= j - n
        BY <2>3, <4>1
      <4> QED
        BY <1>5, <2>3, <4>1, <4>2
    <3>3. j <= n + m /\ m <= j - n
      BY <2>1, <2>3, <3>1, <3>2
    <3> QED
      BY <2>1, <2>3, <3>3
  <2>6. 1 <= m /\ m <= k + 1
    BY <1>1, <2>1, SyncsAt
  <2>7. Synced(b) = Synced(q)
    BY <1>4, <2>1, <2>4, <2>5, <2>6
  <2>8. /\ ~Decidable(Synced(q)) => Decode[b] = Decode[q]
        /\ Decidable(Synced(q)) => Decode[b] = Decode[q]
    BY <1>2, <1>8, <2>2, <2>7, DecodeUnfolds
  <2> QED
    BY <2>8 DEF b
<1> QED
  BY <1>7, <1>8

(* What occurs in a beginning occurs in the whole, and what ends within    *)
(* the beginning occurs there.                                             *)
LEMMA OccursWithin ==
  ASSUME NEW p \in Seq(Bytes), p # <<>>, NEW a \in Seq(Bytes), NEW t \in Seq(Bytes), NEW i \in Nat
  PROVE  i \in Occurrences(p, a) <=>
           i \in Occurrences(p, a \o t) /\ i + Len(p) <= Len(a) + 1
<1> DEFINE long == a \o t
<1>1. PICK n \in Nat, k \in Nat, j \in Nat : n = Len(a) /\ k = Len(t) /\ j = Len(p)
  BY Members
<1>2. long \in Seq(Bytes) /\ Len(long) = n + k /\ \A e \in 1..n : long[e] = a[e]
  BY <1>1, Joined
<1> HIDE DEF long
<1>3. i \in Occurrences(p, a) <=>
        1 <= i /\ i + j <= n + 1 /\ \A e \in 1..j : a[i + e - 1] = p[e]
  BY <1>1, OccursAt
<1>4. i \in Occurrences(p, long) <=>
        1 <= i /\ i + j <= n + k + 1 /\ \A e \in 1..j : long[i + e - 1] = p[e]
  BY <1>1, <1>2, OccursAt
<1>5. ASSUME 1 <= i, i + j <= n + 1
      PROVE  \A e \in 1..j : long[i + e - 1] = a[i + e - 1]
  <2>1. \A e \in 1..j : i + e - 1 \in 1..n
    BY <1>1, <1>5
  <2> QED
    BY <1>2, <2>1
<1>6. i + j <= n + 1 => i + j <= n + k + 1
  BY <1>1
<1>7. i \in Occurrences(p, a) <=> i \in Occurrences(p, long) /\ i + j <= n + 1
  BY <1>3, <1>4, <1>5, <1>6
<1> QED
  BY <1>1, <1>7 DEF long

LEMMA FirstStays ==
  ASSUME NEW p \in Seq(Bytes), p # <<>>, NEW a \in Seq(Bytes), NEW t \in Seq(Bytes),
         Occurrences(p, a) # {}
  PROVE  /\ Occurrences(p, a \o t) # {}
         /\ Min(Occurrences(p, a \o t)) = Min(Occurrences(p, a))
         /\ Min(Occurrences(p, a)) \in Nat
         /\ 1 <= Min(Occurrences(p, a)) /\ Min(Occurrences(p, a)) + Len(p) <= Len(a) + 1
<1> DEFINE m == Min(Occurrences(p, a))
           j == Min(Occurrences(p, a \o t))
<1>1. m \in Nat /\ m \in Occurrences(p, a) /\ \A i \in Occurrences(p, a) : m <= i
  BY OccurrencesAreNumbers, LowestMember
<1>2. m \in Occurrences(p, a \o t)
  <2> HIDE DEF m
  <2> QED
    BY <1>1, OccursWithin
<1>3. j \in Nat /\ j \in Occurrences(p, a \o t) /\ \A i \in Occurrences(p, a \o t) : j <= i
  BY <1>2, OccurrencesAreNumbers, LowestMember
<1> HIDE DEF m, j
<1>4. 1 <= m /\ m + Len(p) <= Len(a) + 1
  BY <1>1, OccursAt
<1>5. j <= m
  BY <1>2, <1>3
<1>6. j \in Occurrences(p, a)
  <2>1. Len(p) \in Nat /\ Len(a) \in Nat
    BY Members
  <2>2. j + Len(p) <= Len(a) + 1
    BY <1>1, <1>3, <1>4, <1>5, <2>1
  <2> QED
    BY <1>3, <2>2, OccursWithin
<1>7. j = m
  <2>1. m <= j
    BY <1>1, <1>6
  <2> QED
    BY <1>1, <1>3, <1>5, <2>1
<1> QED
  BY <1>1, <1>2, <1>4, <1>7 DEF m, j

LEMMA SplitAt ==
  ASSUME NEW S, NEW s \in Seq(S), NEW m \in Nat, 1 <= m, m <= Len(s) + 1
  PROVE  /\ SubSeq(s, 1, m - 1) \in Seq(S) /\ SubSeq(s, m, Len(s)) \in Seq(S)
         /\ Len(SubSeq(s, 1, m - 1)) = m - 1
         /\ s = SubSeq(s, 1, m - 1) \o SubSeq(s, m, Len(s))
<1>1. PICK n \in Nat : n = Len(s)
  BY Members
<1>2. 1 \in Nat /\ m - 1 \in Nat /\ 1 <= 1 /\ 1 <= (m - 1) + 1 /\ m - 1 <= n /\ (m - 1) + 1 - 1 = m - 1
  BY <1>1
<1>3. SubSeq(s, 1, m - 1) \in Seq(S) /\ Len(SubSeq(s, 1, m - 1)) = (m - 1) + 1 - 1
  BY <1>1, <1>2, Slice
<1>4. SubSeq(s, m, n) \in Seq(S)
  BY <1>1, Slice
<1>5. SubSeq(s, 1, m - 1) \o SubSeq(s, (m - 1) + 1, n) = SubSeq(s, 1, n)
  <2>1. 1 \in 1..Len(s) + 1 /\ m - 1 \in (1 - 1)..Len(s) /\ n \in (m - 1)..Len(s)
    BY <1>1, <1>2
  <2> QED
    BY <2>1, ConcatAdjacentSubSeq
<1>6. SubSeq(s, 1, n) = s /\ (m - 1) + 1 = m
  BY <1>1, SubSeqFull
<1> QED
  BY <1>1, <1>2, <1>3, <1>4, <1>5, <1>6

(* A decoder that waits is where it would be if it had seen nothing but    *)
(* what it keeps.                                                          *)
LEMMA KeptSuffices ==
  ASSUME NEW a \in Seq(Bytes), NEW t \in Seq(Bytes),
         Occurrences(SYNC, a) = {} \/ ~Decidable(Synced(a))
  PROVE  /\ Decode[a].items = <<>>
         /\ Decode[a \o t] = Decode[Decode[a].left \o t]
<1>1. PICK n \in Nat : n = Len(a)
  BY Members
<1> DEFINE Cut(m) == /\ 1 <= m /\ m <= n + 1
                     /\ Decode[a].items = <<>>
                     /\ Decode[a].left = SubSeq(a, m, n)
                     /\ \A i \in 1..(m - 1) : i \notin Occurrences(SYNC, a \o t)
                     /\ m = n + 1 => KeptTail(a) = <<>>
<1>2. PICK m \in Nat : Cut(m)
  <2>1. CASE Occurrences(SYNC, a) = {}
    <3>1. Decode[a] = [items |-> <<>>, left |-> KeptTail(a)]
      BY <2>1, DecodeUnfolds
    <3>2. \A i \in Nat : i + 1 <= n => i \notin Occurrences(SYNC, a \o t)
      <4>1. \A i \in Nat : i + 1 <= n => i + Len(SYNC) <= Len(a) + 1
        BY <1>1, SyncLength
      <4> QED
        BY <2>1, <4>1, SyncTyped, OccursWithin
    <3>3. CASE a # <<>> /\ Last(a) = SYNC[1]
      <4>1. n \in 1..n /\ KeptTail(a) = <<a[n]>>
        <5>1. n # 0
          BY <1>1, <3>3, EmptySeq
        <5> QED
          BY <1>1, <3>3, <5>1 DEF KeptTail, Last
      <4>2. SubSeq(a, n, n) = <<a[n]>>
        <5>1. SubSeq(a, n, n) = <<a[n]>> \o SubSeq(a, n + 1, n)
          BY <1>1, <4>1, SubSeqRecursiveFirst
        <5>2. SubSeq(a, n + 1, n) = <<>>
          BY <1>1, SubSeqEmpty
        <5>3. <<a[n]>> \in Seq(Bytes)
          <6> DEFINE x == a[n]
          <6>1. x \in Bytes
            BY <1>1, <4>1, Members
          <6> HIDE DEF x
          <6> QED
            BY <6>1 DEF x
        <5> QED
          BY <5>1, <5>2, <5>3, ConcatEmptySeq
      <4>3. \A i \in 1..(n - 1) : i \in Nat /\ i + 1 <= n
        BY <4>1
      <4>4. 1 <= n /\ n <= n + 1 /\ n # n + 1
        BY <4>1
      <4>5. Decode[a].left = SubSeq(a, n, n) /\ Decode[a].items = <<>>
        BY <3>1, <4>1, <4>2
      <4>6. Cut(n)
        BY <3>2, <4>3, <4>4, <4>5
      <4> QED
        BY <4>6
    <3>4. CASE ~(a # <<>> /\ Last(a) = SYNC[1])
      <4>1. KeptTail(a) = <<>> /\ SubSeq(a, n + 1, n) = <<>>
        BY <1>1, <3>4, SubSeqEmpty DEF KeptTail
      <4>2. ASSUME NEW i \in 1..n
            PROVE  i \notin Occurrences(SYNC, a \o t)
        <5>1. CASE i + 1 <= n
          BY <3>2, <5>1
        <5>2. CASE ~(i + 1 <= n)
          <6>1. i = n /\ n \in 1..n /\ n # 0
            BY <5>2
          <6>2. a[n] # SYNC[1]
            <7>1. a # <<>>
              BY <1>1, <6>1, EmptySeq
            <7> QED
              BY <1>1, <3>4, <7>1 DEF Last
          <6>3. (a \o t)[n] = a[n] /\ a \o t \in Seq(Bytes)
            BY <1>1, <6>1, Joined
          <6>4. SYNC[1] = 165
            BY DEF SYNC
          <6>5. n \in Occurrences(SYNC, a \o t) => (a \o t)[n] = 165
            <7> DEFINE long == a \o t
            <7>1. long \in Seq(Bytes)
              BY <6>3
            <7> HIDE DEF long
            <7>2. n \in Occurrences(SYNC, long) => long[n] = 165
              BY <7>1, SyncsAt
            <7> QED
              BY <7>2 DEF long
          <6> QED
            BY <6>1, <6>2, <6>3, <6>4, <6>5
        <5> QED
          BY <5>1, <5>2
      <4>3. n + 1 \in Nat /\ 1 <= n + 1 /\ n + 1 <= n + 1 /\ (n + 1) - 1 = n
        OBVIOUS
      <4>4. Decode[a].left = SubSeq(a, n + 1, n) /\ Decode[a].items = <<>>
        BY <3>1, <4>1
      <4>5. \A i \in 1..((n + 1) - 1) : i \notin Occurrences(SYNC, a \o t)
        BY <4>2, <4>3
      <4>6. Cut(n + 1)
        BY <4>1, <4>3, <4>4, <4>5
      <4> HIDE DEF Cut
      <4> QED
        BY <4>3, <4>6
    <3> QED
      BY <3>3, <3>4
  <2>2. CASE Occurrences(SYNC, a) # {} /\ ~Decidable(Synced(a))
    <3> DEFINE m == Min(Occurrences(SYNC, a))
    <3>1. Decode[a] = [items |-> <<>>, left |-> Synced(a)]
      BY <2>2, DecodeUnfolds
    <3>2. m \in Nat /\ 1 <= m /\ m + 2 <= n + 1
      <4>1. m \in Nat /\ 1 <= m /\ m + Len(SYNC) <= Len(a) + 1
        BY <2>2, SyncTyped, FirstStays
      <4> HIDE DEF m
      <4> QED
        BY <1>1, <4>1, SyncLength
    <3>3. \A i \in Occurrences(SYNC, a) : m <= i
      BY <2>2, OccurrencesAreNumbers, LowestMember
    <3>4. Synced(a) = SubSeq(a, m, n)
      BY <1>1 DEF Synced
    <3> HIDE DEF m
    <3>5. ASSUME NEW i \in 1..(m - 1)
          PROVE  i \notin Occurrences(SYNC, a \o t)
      <4>1. i \in Nat /\ i + 2 <= n + 1 /\ ~(m <= i)
        BY <3>2
      <4>2. i \notin Occurrences(SYNC, a) /\ i + Len(SYNC) <= Len(a) + 1
        BY <1>1, <3>3, <4>1, SyncLength
      <4> QED
        BY <4>1, <4>2, SyncTyped, OccursWithin
    <3>6. m <= n + 1 /\ m # n + 1
      BY <3>2
    <3>7. Cut(m)
      BY <3>1, <3>2, <3>4, <3>5, <3>6
    <3> HIDE DEF Cut
    <3> QED
      BY <3>2, <3>7
  <2> QED
    BY <2>1, <2>2
<1> DEFINE p == SubSeq(a, 1, m - 1)
           r == SubSeq(a, m, n)
<1>3. p \in Seq(Bytes) /\ r \in Seq(Bytes) /\ Len(p) = m - 1 /\ a = p \o r
  BY <1>1, <1>2, SplitAt
<1>4. r \o t \in Seq(Bytes)
  <2> HIDE DEF r
  <2> QED
    BY <1>3, ConcatProperties
<1>5. a \o t = p \o (r \o t)
  <2> HIDE DEF p, r
  <2>1. (p \o r) \o t = p \o (r \o t)
    BY <1>3, BytesRegroup
  <2> QED
    BY <1>3, <2>1
<1>6. ASSUME r \o t = <<>>
      PROVE  KeptTail(p) = <<>>
  <2>1. r = <<>>
    <3> HIDE DEF r
    <3> QED
      BY <1>3, <1>6, ConcatEqualIffEmpty
  <2>2. p = a
    <3> HIDE DEF p, r
    <3> QED
      BY <1>3, <2>1, ConcatEmptySeq
  <2>3. m - 1 = n
    <3> HIDE DEF p, r
    <3> QED
      BY <1>1, <1>3, <2>2
  <2>4. m = n + 1
    BY <1>2, <2>3
  <2> HIDE DEF p
  <2> QED
    BY <1>2, <2>2, <2>4
<1> HIDE DEF p
<1>7. Decode[p \o (r \o t)] = Decode[r \o t]
  <2> HIDE DEF r
  <2>1. \A i \in 1..Len(p) : i \notin Occurrences(SYNC, p \o (r \o t))
    BY <1>2, <1>3, <1>5
  <2> QED
    BY <1>3, <1>4, <1>6, <2>1, NoiseSkipped
<1> QED
  BY <1>2, <1>5, <1>7

(* Two pushes of a decoder are as good as one of all that was pushed.      *)
GoesOn(a, t) ==
  /\ Decode[a \o t].items = Decode[a].items \o Decode[Decode[a].left \o t].items
  /\ Decode[a \o t].left = Decode[Decode[a].left \o t].left

LEMMA DecodeGoesOn ==
  ASSUME NEW b \in Seq(Bytes), NEW t \in Seq(Bytes)
  PROVE  GoesOn(b, t)
<1> DEFINE wrong == {n \in Nat : \E a \in Seq(Bytes) : Len(a) = n /\ ~GoesOn(a, t)}
<1>1. ASSUME wrong # {}
      PROVE  FALSE
  <2>1. PICK n \in wrong : \A m \in wrong : n <= m
    <3>1. wrong \in SUBSET Nat
      OBVIOUS
    <3> HIDE DEF wrong
    <3> QED
      BY <1>1, <3>1, LeastNumber
  <2>2. PICK a \in Seq(Bytes) : Len(a) = n /\ n \in Nat /\ ~GoesOn(a, t)
    BY <2>1
  <2>3. Decode[a].left \in Seq(Bytes) /\ Decode[a].items \in Seq(Item)
    BY DecodeTyped DEF Result
  <2>4. ASSUME Occurrences(SYNC, a) = {} \/ ~Decidable(Synced(a))
        PROVE  FALSE
    <3>1. Decode[a].items = <<>> /\ Decode[a \o t] = Decode[Decode[a].left \o t]
      BY <2>4, KeptSuffices
    <3> DEFINE after == Decode[Decode[a].left \o t]
    <3>2. after.items \in Seq(Item)
      <4>1. Decode[a].left \o t \in Seq(Bytes)
        BY <2>3, ConcatProperties
      <4> QED
        BY <4>1, DecodeTyped DEF Result
    <3>3. <<>> \o after.items = after.items
      <4> HIDE DEF after
      <4> QED
        BY <3>2, ConcatEmptySeq
    <3> QED
      BY <2>2, <3>1, <3>3 DEF GoesOn
  <2>5. Occurrences(SYNC, a) # {} /\ Decidable(Synced(a))
    BY <2>4
  <2> DEFINE s == Synced(a)
             d == Skipped(s)
             m == Len(d)
             v == <<Verdict(s)>>
             long == a \o t
  <2>6. s \in Seq(Bytes) /\ d \in Seq(Bytes) /\ v \in Seq(Item) /\ long \in Seq(Bytes)
    <3>1. s \in Seq(Bytes)
      BY <2>5, SyncedTyped
    <3>2. d \in Seq(Bytes) /\ Verdict(s) \in Item
      <4> HIDE DEF s
      <4> QED
        BY <2>5, <3>1, SkippedShorter, VerdictTyped DEF s
    <3> QED
      BY <3>1, <3>2, ConcatProperties
  <2>7. m \in Nat /\ m < n
    <3>1. Len(s) <= n
      BY <2>2, <2>5, SyncedTyped
    <3>2. m < Len(s)
      BY <2>5, <2>6, SkippedShorter
    <3>3. Len(s) \in Nat /\ m \in Nat
      <4> HIDE DEF s, d
      <4> QED
        BY <2>6, Members
    <3> HIDE DEF s, m
    <3> QED
      BY <2>2, <3>1, <3>2, <3>3
  <2>8. GoesOn(d, t)
    <3>1. m \notin wrong
      <4> HIDE DEF wrong, m
      <4>1. ~(n <= m)
        BY <2>2, <2>7
      <4> QED
        BY <2>1, <4>1
    <3> HIDE DEF d
    <3> QED
      BY <2>6, <2>7, <3>1
  <2>9. Occurrences(SYNC, long) # {} /\ Synced(long) = s \o t
    <3> DEFINE i == Min(Occurrences(SYNC, a))
    <3>1. /\ Occurrences(SYNC, long) # {} /\ Min(Occurrences(SYNC, long)) = i
          /\ i \in Nat /\ 1 <= i /\ i + Len(SYNC) <= Len(a) + 1
      BY <2>5, SyncTyped, FirstStays
    <3>2. Synced(long) = SubSeq(long, i, Len(long)) /\ s = SubSeq(a, i, Len(a))
      BY <3>1 DEF Synced
    <3> HIDE DEF i, s
    <3>3. i <= Len(a) + 1
      BY <2>2, <3>1, SyncLength
    <3> QED
      BY <3>1, <3>2, <3>3, RestOfJoined
  <2>10. /\ Decidable(s \o t) /\ Verdict(s \o t) = Verdict(s)
         /\ Skipped(s \o t) = d \o t
    <3> HIDE DEF s
    <3> QED
      BY <2>5, <2>6, MoreInput DEF s
  <2>11. Decode[a] = [items |-> v \o Decode[d].items, left |-> Decode[d].left]
    BY <2>5, DecodeUnfolds
  <2>12. Decode[long] = [items |-> v \o Decode[d \o t].items, left |-> Decode[d \o t].left]
    <3>1. /\ Decidable(Synced(long)) /\ <<Verdict(Synced(long))>> = v
          /\ Skipped(Synced(long)) = d \o t
      <4> HIDE DEF s, d, long
      <4> QED
        BY <2>9, <2>10 DEF s
    <3>2. Decode[long] = [items |-> <<Verdict(Synced(long))>> \o Decode[Skipped(Synced(long))].items,
                          left  |-> Decode[Skipped(Synced(long))].left]
      <4> HIDE DEF s, long
      <4> QED
        BY <2>6, <2>9, <3>1, DecodeUnfolds
    <3> HIDE DEF v, long, d
    <3> QED
      BY <3>1, <3>2
  <2> HIDE DEF v, d, s, m
  <2> DEFINE D == Decode[Decode[d].left \o t]
  <2>13. Decode[d].items \in Seq(Item) /\ D.items \in Seq(Item)
    <3>1. Decode[d].left \in Seq(Bytes) /\ Decode[d].items \in Seq(Item)
      BY <2>6, DecodeTyped DEF Result
    <3>2. Decode[d].left \o t \in Seq(Bytes)
      BY <3>1, ConcatProperties
    <3> QED
      BY <3>1, <3>2, DecodeTyped DEF Result
  <2>14. Decode[a].left = Decode[d].left /\ Decode[a].items = v \o Decode[d].items
    BY <2>11, SMTT(60)
  <2>15. Decode[long].left = D.left /\ Decode[long].items = v \o (Decode[d].items \o D.items)
    <3> HIDE DEF long
    <3>1. Decode[d \o t].left = D.left /\ Decode[d \o t].items = Decode[d].items \o D.items
      BY <2>8 DEF GoesOn
    <3> HIDE DEF D
    <3>2. /\ Decode[long].left = Decode[d \o t].left
          /\ Decode[long].items = v \o Decode[d \o t].items
      BY <2>12
    <3> QED
      BY <3>1, <3>2
  <2>16. v \o (Decode[d].items \o D.items) = (v \o Decode[d].items) \o D.items
    <3> DEFINE x == Decode[d].items
               y == D.items
    <3>1. v \in Seq(Item) /\ x \in Seq(Item) /\ y \in Seq(Item)
      BY <2>6, <2>13
    <3> HIDE DEF x, y
    <3>2. (v \o x) \o y = v \o (x \o y)
      BY <3>1, ItemsRegroup
    <3> QED
      BY <3>2 DEF x, y
  <2> QED
    BY <2>2, <2>14, <2>15, <2>16 DEF GoesOn
<1> QED
  <2>1. Len(b) \in Nat /\ Len(b) \notin wrong
    BY <1>1, Members
  <2> QED
    BY <2>1

-----------------------------------------------------------------------------
(* The connection: the ACK.                                                *)

LEMMA AckTyped == Ack \in Seq(Bytes) /\ Len(Ack) = 12 /\ Ack # <<>>
<1> DEFINE magic == <<83, 87, 84, 49>>
           frame == [kind |-> 13, channel |-> 0, payload |-> magic]
<1>1. magic \in Seq(Bytes) /\ Len(magic) = 4 /\ Len(magic) <= Longest
  BY ShortPayload DEF Bytes
<1>2. 0 \in Bytes /\ 13 \in Bytes
  BY DEF Bytes
<1>3. Ack = Encode(frame)
  BY DEF Ack, HELLO_ACK
<1> HIDE DEF magic
<1>4. Encode(frame) \in Seq(Bytes) /\ Len(Encode(frame)) = Len(magic) + 8
  BY <1>1, <1>2, EncodeBytes
<1> HIDE DEF frame
<1>5. Ack \in Seq(Bytes) /\ Len(Ack) = 12
  BY <1>1, <1>3, <1>4
<1>6. Len(Ack) # 0
  BY <1>5
<1> QED
  BY <1>5, <1>6, EmptySeq

LEMMA SuffixMeans ==
  ASSUME NEW S, NEW s \in Seq(S), NEW t \in Seq(S)
  PROVE  IsSuffix(s, t) <=>
           Len(s) <= Len(t) /\ \A i \in 1..Len(s) : t[Len(t) - Len(s) + i] = s[i]
<1>1. PICK n \in Nat, k \in Nat : n = Len(s) /\ k = Len(t)
  BY Members
<1> DEFINE rs == Reverse(s)
           rt == Reverse(t)
<1>2. /\ rs \in Seq(S) /\ Len(rs) = n /\ \A i \in 1..n : rs[i] = s[n - i + 1]
      /\ rt \in Seq(S) /\ Len(rt) = k /\ \A i \in 1..k : rt[i] = t[k - i + 1]
  <2>1. \A i \in 1..n : n - i + 1 \in 1..n
    OBVIOUS
  <2>2. \A i \in 1..k : k - i + 1 \in 1..k
    OBVIOUS
  <2>3. rs = [i \in 1..n |-> s[n - i + 1]] /\ rt = [i \in 1..k |-> t[k - i + 1]]
    BY <1>1 DEF Reverse
  <2>4. \A i \in 1..n : s[i] \in S
    BY <1>1, Members
  <2>5. \A i \in 1..k : t[i] \in S
    BY <1>1, Members
  <2>6. rs \in [1..n -> S] /\ rt \in [1..k -> S]
    <3> HIDE DEF rs, rt
    <3> QED
      BY <2>1, <2>2, <2>3, <2>4, <2>5
  <2> HIDE DEF rs, rt
  <2>7. rs \in Seq(S) /\ rt \in Seq(S)
    BY <2>6, FunctionIsSequence
  <2>8. Len(rs) = n /\ Len(rt) = k
    BY <2>3
  <2> QED
    BY <2>3, <2>7, <2>8
<1>3. IsSuffix(s, t) <=> n <= k /\ SubSeq(rs, 1, n) = SubSeq(rt, 1, n)
  BY <1>2 DEF IsSuffix, IsPrefix
<1> HIDE DEF rs, rt
<1>4. SubSeq(rs, 1, n) = rs
  BY <1>2, SubSeqFull
<1>5. ASSUME n <= k
      PROVE  SubSeq(rt, 1, n) = rs <=> \A i \in 1..n : t[k - n + i] = s[i]
  <2>1. /\ SubSeq(rt, 1, n) \in Seq(S) /\ Len(SubSeq(rt, 1, n)) = n
        /\ \A i \in 1..n : SubSeq(rt, 1, n)[i] = rt[i]
    <3>1. 1 \in Nat /\ 1 <= n + 1 /\ n + 1 - 1 = n /\ \A i \in 1..n : 1 + i - 1 = i
      OBVIOUS
    <3>2. /\ SubSeq(rt, 1, n) \in Seq(S) /\ Len(SubSeq(rt, 1, n)) = n + 1 - 1
          /\ \A i \in 1..(n + 1 - 1) : SubSeq(rt, 1, n)[i] = rt[1 + i - 1]
      BY <1>2, <1>5, <3>1, Slice
    <3> QED
      BY <3>1, <3>2
  <2>2. SubSeq(rt, 1, n) = rs <=> \A i \in 1..n : rt[i] = rs[i]
    <3>1. (\A i \in 1..n : rt[i] = rs[i]) => SubSeq(rt, 1, n) = rs
      BY <1>2, <2>1, Extensional
    <3> QED
      BY <2>1, <3>1
  <2>3. \A i \in 1..n : i \in 1..k
    BY <1>5
  <2>4. (\A i \in 1..n : rt[i] = rs[i]) <=> \A i \in 1..n : t[k - i + 1] = s[n - i + 1]
    BY <1>2, <2>3
  <2>5. (\A i \in 1..n : t[k - i + 1] = s[n - i + 1]) <=> \A i \in 1..n : t[k - n + i] = s[i]
    <3>1. ASSUME \A i \in 1..n : t[k - i + 1] = s[n - i + 1], NEW i \in 1..n
          PROVE  t[k - n + i] = s[i]
      <4>1. n - i + 1 \in 1..n /\ k - (n - i + 1) + 1 = k - n + i /\ n - (n - i + 1) + 1 = i
        OBVIOUS
      <4> QED
        BY <3>1, <4>1
    <3>2. ASSUME \A i \in 1..n : t[k - n + i] = s[i], NEW i \in 1..n
          PROVE  t[k - i + 1] = s[n - i + 1]
      <4>1. n - i + 1 \in 1..n /\ k - n + (n - i + 1) = k - i + 1
        OBVIOUS
      <4> QED
        BY <3>2, <4>1
    <3> QED
      BY <3>1, <3>2
  <2> QED
    BY <2>2, <2>4, <2>5
<1>6. IsSuffix(s, t) <=> n <= k /\ \A i \in 1..n : t[k - n + i] = s[i]
  BY <1>3, <1>4, <1>5
<1> QED
  BY <1>1, <1>6

(* The last n bytes are the first n of an ACK.                             *)
EndsInAck(bytes, n) ==
  n <= Len(bytes) /\ \A i \in 1..n : bytes[Len(bytes) - n + i] = Ack[i]

LEMMA RetainedIsLongest ==
  ASSUME NEW b \in Seq(Bytes)
  PROVE  /\ Retained(b) \in 0..11 /\ EndsInAck(b, Retained(b))
         /\ \A n \in 0..11 : EndsInAck(b, n) => n <= Retained(b)
<1> DEFINE held == {n \in 1..(Len(Ack) - 1) :
                      n <= Len(b) /\ IsSuffix(SubSeq(Ack, 1, n), b)}
           T == {0} \cup held
<1>1. ASSUME NEW n \in 1..11
      PROVE  n \in held <=> EndsInAck(b, n)
  <2> DEFINE start == SubSeq(Ack, 1, n)
  <2>1. start \in Seq(Bytes) /\ Len(start) = n /\ \A i \in 1..n : start[i] = Ack[i]
    <3>1. /\ n \in Nat /\ 1 \in Nat /\ 1 <= 1 /\ 1 <= n + 1 /\ n + 1 - 1 = n
          /\ \A i \in 1..n : 1 + i - 1 = i
      OBVIOUS
    <3>2. Ack \in Seq(Bytes) /\ n <= Len(Ack)
      BY AckTyped
    <3>3. /\ start \in Seq(Bytes) /\ Len(start) = n + 1 - 1
          /\ \A i \in 1..(n + 1 - 1) : start[i] = Ack[1 + i - 1]
      BY <3>1, <3>2, Slice
    <3> HIDE DEF start
    <3> QED
      BY <3>1, <3>3
  <2>2. n \in held <=> n <= Len(b) /\ IsSuffix(start, b)
    BY AckTyped
  <2> HIDE DEF start, held
  <2>3. IsSuffix(start, b) <=> n <= Len(b) /\ \A i \in 1..n : b[Len(b) - n + i] = start[i]
    <3>1. IsSuffix(start, b) <=>
            Len(start) <= Len(b) /\ \A i \in 1..Len(start) : b[Len(b) - Len(start) + i] = start[i]
      BY <2>1, SuffixMeans
    <3> QED
      BY <2>1, <3>1
  <2> QED
    BY <2>1, <2>2, <2>3 DEF EndsInAck
<1>2. T \in SUBSET (0..11) /\ T # {}
  BY AckTyped
<1>3. Retained(b) = Max(T)
  BY DEF Retained
<1>4. \A n \in 0..11 : n = 0 \/ n \in 1..11
  OBVIOUS
<1>5. T = {0} \cup held
  OBVIOUS
<1> HIDE DEF T, held
<1>6. Max(T) \in T /\ \A n \in T : Max(T) >= n
  <2>1. 11 \in Nat
    OBVIOUS
  <2> QED
    BY <1>2, <2>1, LargestNumber
<1>7. EndsInAck(b, 0)
  <2>1. 0 <= Len(b)
    BY Members
  <2> QED
    BY <2>1 DEF EndsInAck
<1>8. \A n \in 0..11 : n \in T <=> EndsInAck(b, n)
  BY <1>1, <1>4, <1>5, <1>7
<1> QED
  BY <1>2, <1>3, <1>6, <1>8

-----------------------------------------------------------------------------
(* The connection: pushes.                                                 *)

PlainConnection(pending, text) ==
  [mode |-> "Plain", pending |-> pending, buffer |-> <<>>, text |-> text, items |-> <<>>]

FramedConnection(text, items, buffer) ==
  [mode |-> "Framed", pending |-> <<>>, buffer |-> buffer, text |-> text, items |-> items]

LEMMA FreshIsPlain == Fresh = PlainConnection(<<>>, <<>>)
  BY DEF Fresh, PlainConnection

LEMMA FramedPush ==
  ASSUME NEW text \in Seq(Bytes), NEW items \in Seq(Item),
         NEW buffer \in Seq(Bytes), NEW input \in Seq(Bytes)
  PROVE  /\ Push(FramedConnection(text, items, buffer), input) =
              FramedConnection(text, items \o Decode[buffer \o input].items,
                               Decode[buffer \o input].left)
         /\ PushFramed(FramedConnection(text, items, buffer), input) =
              FramedConnection(text, items \o Decode[buffer \o input].items,
                               Decode[buffer \o input].left)
<1>1. FramedConnection(text, items, buffer).mode = "Framed"
  BY DEF FramedConnection
<1>2. ASSUME NEW r, NEW s, r = FramedConnection(text, items, buffer), s = PushFramed(r, input)
      PROVE  s = FramedConnection(text, items \o Decode[buffer \o input].items,
                                  Decode[buffer \o input].left)
  <2> DEFINE d == Decode[buffer \o input]
  <2>1. r.buffer = buffer /\ r.items = items
    BY <1>2 DEF FramedConnection
  <2>2. s = [r EXCEPT !.buffer = d.left, !.items = items \o d.items]
    BY <1>2, <2>1 DEF PushFramed
  <2> HIDE DEF d
  <2>3. s = FramedConnection(text, items \o d.items, d.left)
    BY <1>2, <2>2 DEF FramedConnection
  <2> QED
    BY <2>3 DEF d
<1> QED
  BY <1>1, <1>2 DEF Push

(* The decoder's own ACK is an item.                                       *)
LEMMA AckIsItem == HELLO_ACK \in Item
  BY DEF HELLO_ACK, Item, Bytes

LEMMA AfterAckTyped ==
  ASSUME NEW b \in Seq(Bytes), Occurrences(Ack, b) # {}
  PROVE  LET first == Min(Occurrences(Ack, b))
         IN  /\ first \in Nat /\ 1 <= first /\ first + Len(Ack) <= Len(b) + 1
             /\ first \in Occurrences(Ack, b) /\ \A i \in Occurrences(Ack, b) : first <= i
             /\ AfterAck(b) = SubSeq(b, first + Len(Ack), Len(b))
             /\ AfterAck(b) \in Seq(Bytes)
<1> DEFINE first == Min(Occurrences(Ack, b))
<1>1. /\ first \in Occurrences(Ack, b) /\ first \in Nat
      /\ \A i \in Occurrences(Ack, b) : first <= i
  BY OccurrencesAreNumbers, LowestMember
<1>2. AfterAck(b) = SubSeq(b, first + Len(Ack), Len(b))
  BY DEF AfterAck
<1> HIDE DEF first
<1>3. 1 <= first /\ first + Len(Ack) <= Len(b) + 1
  BY <1>1, AckTyped, OccursAt
<1>4. Len(Ack) \in Nat /\ Len(b) \in Nat
  BY AckTyped, Members
<1>5. first + Len(Ack) \in Nat /\ 1 <= first + Len(Ack) /\ Len(b) <= Len(b)
  BY <1>1, <1>3, <1>4
<1>6. AfterAck(b) \in Seq(Bytes)
  BY <1>2, <1>3, <1>4, <1>5, Slice
<1> QED
  BY <1>1, <1>2, <1>3, <1>6 DEF first

(* What is handed on of bytes without an ACK.                              *)
Handed(bytes) == Len(bytes) - Retained(bytes)

LEMMA HandedIsWithin ==
  ASSUME NEW r \in Seq(Bytes)
  PROVE  /\ Handed(r) \in Nat /\ Handed(r) <= Len(r) /\ Len(r) \in Nat
         /\ Handed(r) = Len(r) - Retained(r) /\ Retained(r) \in Nat
<1>1. Len(r) \in Nat
  OBVIOUS
<1>2. Retained(r) \in 0..11 /\ Retained(r) <= Len(r)
  BY RetainedIsLongest DEF EndsInAck
<1> QED
  BY <1>1, <1>2 DEF Handed

LEMMA PlainPush ==
  ASSUME NEW pending \in Seq(Bytes), NEW text \in Seq(Bytes), NEW input \in Seq(Bytes)
  PROVE  LET bytes   == pending \o input
             handed  == Handed(bytes)
             decoded == Decode[AfterAck(bytes)]
             first   == Min(Occurrences(Ack, bytes))
         IN  /\ Occurrences(Ack, bytes) = {} =>
                  Push(PlainConnection(pending, text), input) =
                    PlainConnection(SubSeq(bytes, handed + 1, Len(bytes)),
                                    text \o SubSeq(bytes, 1, handed))
             /\ Occurrences(Ack, bytes) # {} =>
                  Push(PlainConnection(pending, text), input) =
                    FramedConnection(text \o SubSeq(bytes, 1, first - 1),
                                     <<HELLO_ACK>> \o decoded.items, decoded.left)
<1> DEFINE bytes == pending \o input
           first == Min(Occurrences(Ack, bytes))
           rest  == AfterAck(bytes)
           plain == PlainConnection(pending, text)
<1>1. Push(plain, input) = PushPlain(plain, input)
  BY DEF Push, PlainConnection
<1>2. ASSUME Occurrences(Ack, bytes) = {}
      PROVE  Push(plain, input) =
               PlainConnection(SubSeq(bytes, Handed(bytes) + 1, Len(bytes)),
                               text \o SubSeq(bytes, 1, Handed(bytes)))
  <2>1. PushPlain(plain, input) =
          [plain EXCEPT !.text    = plain.text \o SubSeq(bytes, 1, Handed(bytes)),
                        !.pending = SubSeq(bytes, Handed(bytes) + 1, Len(bytes))]
    BY <1>2 DEF PushPlain, PlainConnection, Handed
  <2> HIDE DEF bytes
  <2> QED
    BY <1>1, <2>1 DEF PlainConnection
<1>3. ASSUME Occurrences(Ack, bytes) # {}
      PROVE  Push(plain, input) =
               FramedConnection(text \o SubSeq(bytes, 1, first - 1),
                                <<HELLO_ACK>> \o Decode[rest].items, Decode[rest].left)
  <2> DEFINE head == SubSeq(bytes, 1, first - 1)
             framed == FramedConnection(text \o head, <<HELLO_ACK>>, <<>>)
  <2>1. PushPlain(plain, input) = PushFramed(framed, rest)
    <3>1. PushPlain(plain, input) =
            PushFramed([plain EXCEPT !.mode    = "Framed",
                                     !.pending = <<>>,
                                     !.text    = plain.text \o head,
                                     !.items   = Append(plain.items, HELLO_ACK)], rest)
      BY <1>3 DEF PushPlain, PlainConnection
    <3>2. plain.items = <<>> /\ Append(<<>>, HELLO_ACK) = <<HELLO_ACK>> /\ plain.text = text
      BY DEF PlainConnection
    <3> HIDE DEF head, rest
    <3>3. [plain EXCEPT !.mode    = "Framed",
                        !.pending = <<>>,
                        !.text    = text \o head,
                        !.items   = <<HELLO_ACK>>] = framed
      <4> DEFINE one == <<HELLO_ACK>>
                 after == text \o head
                 made == [plain EXCEPT !.mode = "Framed", !.pending = <<>>, !.text = after,
                                       !.items = one]
      <4> HIDE DEF one, after
      <4>1. /\ plain = PlainConnection(pending, text)
            /\ made = [plain EXCEPT !.mode = "Framed", !.pending = <<>>, !.text = after,
                                    !.items = one]
        OBVIOUS
      <4> HIDE DEF plain, made
      <4>2. made = FramedConnection(after, one, <<>>)
        BY <4>1 DEF PlainConnection, FramedConnection
      <4> QED
        BY <4>2 DEF made, one, after
    <3> HIDE DEF plain, framed
    <3> QED
      BY <3>1, <3>2, <3>3
  <2>2. rest \in Seq(Bytes) /\ <<>> \o rest = rest
    <3>1. rest \in Seq(Bytes)
      <4>1. bytes \in Seq(Bytes)
        BY ConcatProperties
      <4> HIDE DEF bytes
      <4> QED
        BY <1>3, <4>1, AfterAckTyped
    <3> HIDE DEF rest
    <3> QED
      BY <3>1, ConcatEmptySeq
  <2>3. PushFramed(framed, rest) =
          FramedConnection(text \o head, <<HELLO_ACK>> \o Decode[<<>> \o rest].items,
                           Decode[<<>> \o rest].left)
    <3> DEFINE one == <<HELLO_ACK>>
               after == text \o head
    <3>2. one \in Seq(Item)
      BY AckIsItem
    <3>3. after \in Seq(Bytes)
      <4>1. bytes \in Seq(Bytes)
        BY ConcatProperties
      <4>2. first \in Nat /\ 1 <= first /\ first + Len(Ack) <= Len(bytes) + 1
        <5> HIDE DEF bytes
        <5> QED
          BY <1>3, <4>1, AfterAckTyped DEF first
      <4> HIDE DEF bytes, first
      <4>3. Len(Ack) = 12 /\ Len(bytes) \in Nat
        BY <4>1, AckTyped, Members
      <4>4. first - 1 \in Nat /\ 1 \in Nat /\ 1 <= 1 /\ 1 <= (first - 1) + 1 /\ first - 1 <= Len(bytes)
        BY <4>2, <4>3
      <4>5. head \in Seq(Bytes)
        BY <4>1, <4>4, Slice
      <4> HIDE DEF head
      <4> QED
        BY <4>5, ConcatProperties
    <3> DEFINE none == <<>>
    <3>4. none \in Seq(Bytes)
      OBVIOUS
    <3> HIDE DEF one, after, head, rest, none
    <3>1. PushFramed(FramedConnection(after, one, none), rest) =
            FramedConnection(after, one \o Decode[none \o rest].items, Decode[none \o rest].left)
      BY <2>2, <3>2, <3>3, <3>4, FramedPush
    <3> QED
      BY <3>1 DEF one, after, none
  <2> HIDE DEF head, rest, framed, plain
  <2> QED
    BY <1>1, <2>1, <2>2, <2>3 DEF head
<1> QED
  BY <1>2, <1>3

LEMMA FreshPush ==
  ASSUME NEW r \in Seq(Bytes)
  PROVE  /\ Occurrences(Ack, r) = {} =>
              Push(Fresh, r) = PlainConnection(SubSeq(r, Handed(r) + 1, Len(r)),
                                               SubSeq(r, 1, Handed(r)))
         /\ Occurrences(Ack, r) # {} =>
              Push(Fresh, r) =
                FramedConnection(SubSeq(r, 1, Min(Occurrences(Ack, r)) - 1),
                                 <<HELLO_ACK>> \o Decode[AfterAck(r)].items,
                                 Decode[AfterAck(r)].left)
<1> DEFINE none == <<>>
           handed == SubSeq(r, 1, Handed(r))
           before == SubSeq(r, 1, Min(Occurrences(Ack, r)) - 1)
<1>1. none \in Seq(Bytes) /\ none \o r = r
  BY ConcatEmptySeq
<1>2. Occurrences(Ack, r) = {} => none \o handed = handed
  <2>1. Handed(r) \in Nat /\ 1 \in Nat /\ 1 <= 1 /\ 1 <= Handed(r) + 1 /\ Handed(r) <= Len(r)
    BY HandedIsWithin
  <2>2. handed \in Seq(Bytes)
    BY <2>1, Slice
  <2> HIDE DEF handed
  <2> QED
    BY <2>2, ConcatEmptySeq
<1>3. Occurrences(Ack, r) # {} => none \o before = before
  <2> SUFFICES ASSUME Occurrences(Ack, r) # {}
               PROVE  none \o before = before
    OBVIOUS
  <2> DEFINE first == Min(Occurrences(Ack, r))
  <2>1. first \in Nat /\ 1 <= first /\ first + Len(Ack) <= Len(r) + 1
    BY AfterAckTyped
  <2>2. before = SubSeq(r, 1, first - 1)
    OBVIOUS
  <2> HIDE DEF first, before
  <2>3. Len(Ack) = 12 /\ Len(r) \in Nat
    BY AckTyped, Members
  <2>4. first - 1 \in Nat /\ 1 \in Nat /\ 1 <= 1 /\ 1 <= (first - 1) + 1 /\ first - 1 <= Len(r)
    BY <2>1, <2>3
  <2>5. before \in Seq(Bytes)
    BY <2>2, <2>4, Slice
  <2> QED
    BY <2>5, ConcatEmptySeq
<1>4. Fresh = PlainConnection(none, none)
  BY FreshIsPlain
<1> HIDE DEF none, handed, before
<1>5. Occurrences(Ack, none \o r) = {} =>
        Push(PlainConnection(none, none), r) =
          PlainConnection(SubSeq(none \o r, Handed(none \o r) + 1, Len(none \o r)),
                          none \o SubSeq(none \o r, 1, Handed(none \o r)))
  BY <1>1, PlainPush
<1>6. Occurrences(Ack, none \o r) # {} =>
        Push(PlainConnection(none, none), r) =
          FramedConnection(none \o SubSeq(none \o r, 1, Min(Occurrences(Ack, none \o r)) - 1),
                           <<HELLO_ACK>> \o Decode[AfterAck(none \o r)].items,
                           Decode[AfterAck(none \o r)].left)
  BY <1>1, PlainPush
<1>7. Occurrences(Ack, r) = {} =>
        Push(Fresh, r) =
          PlainConnection(SubSeq(r, Handed(r) + 1, Len(r)), none \o SubSeq(r, 1, Handed(r)))
  BY <1>1, <1>4, <1>5
<1>8. Occurrences(Ack, r) # {} =>
        Push(Fresh, r) =
          FramedConnection(none \o SubSeq(r, 1, Min(Occurrences(Ack, r)) - 1),
                           <<HELLO_ACK>> \o Decode[AfterAck(r)].items,
                           Decode[AfterAck(r)].left)
  BY <1>1, <1>4, <1>6
<1>9. Occurrences(Ack, r) = {} => none \o SubSeq(r, 1, Handed(r)) = SubSeq(r, 1, Handed(r))
  BY <1>2 DEF handed
<1>10. Occurrences(Ack, r) # {} =>
         none \o SubSeq(r, 1, Min(Occurrences(Ack, r)) - 1) =
           SubSeq(r, 1, Min(Occurrences(Ack, r)) - 1)
  BY <1>3 DEF before
<1> QED
  BY <1>7, <1>8, <1>9, <1>10

(* An ACK has been read: the rest are frames.                              *)
LEMMA FramedGoesOn ==
  ASSUME NEW r \in Seq(Bytes), NEW x \in Seq(Bytes), Occurrences(Ack, r) # {}
  PROVE  Push(Push(Fresh, r), x) = Push(Fresh, r \o x)
<1> DEFINE w == r \o x
           first == Min(Occurrences(Ack, r))
           a == AfterAck(r)
           before == SubSeq(r, 1, first - 1)
           one == <<HELLO_ACK>>
<1>1. /\ first \in Nat /\ 1 <= first /\ first + Len(Ack) <= Len(r) + 1
      /\ a = SubSeq(r, first + Len(Ack), Len(r)) /\ a \in Seq(Bytes)
  BY AfterAckTyped
<1>2. Occurrences(Ack, w) # {} /\ Min(Occurrences(Ack, w)) = first
  BY AckTyped, FirstStays
<1>3. w \in Seq(Bytes)
  BY ConcatProperties
<1>4. Len(Ack) = 12 /\ Len(r) \in Nat
  BY AckTyped, Members
<1>5. AfterAck(w) = a \o x
  <2>1. AfterAck(w) = SubSeq(w, first + Len(Ack), Len(w))
    BY <1>2, <1>3, AfterAckTyped
  <2> HIDE DEF first, a
  <2>2. first + Len(Ack) \in Nat /\ 1 <= first + Len(Ack)
    BY <1>1, <1>4
  <2>3. SubSeq(w, first + Len(Ack), Len(w)) = SubSeq(r, first + Len(Ack), Len(r)) \o x
    BY <1>1, <2>2, RestOfJoined
  <2> QED
    BY <1>1, <2>1, <2>3
<1> HIDE DEF a
<1>6. before \in Seq(Bytes) /\ SubSeq(w, 1, first - 1) = before
  <2> HIDE DEF first
  <2>1. first - 1 \in Nat /\ 1 \in Nat /\ 1 <= 1 /\ 1 <= (first - 1) + 1 /\ first - 1 <= Len(r)
    BY <1>1, <1>4
  <2>2. SubSeq(w, 1, first - 1) = SubSeq(r, 1, first - 1)
    BY <2>1, SliceOfJoined
  <2>3. SubSeq(r, 1, first - 1) \in Seq(Bytes)
    BY <2>1, Slice
  <2> QED
    BY <2>2, <2>3
<1>7. /\ Push(Fresh, r) = FramedConnection(before, one \o Decode[a].items, Decode[a].left)
      /\ Push(Fresh, w) = FramedConnection(before, one \o Decode[a \o x].items,
                                           Decode[a \o x].left)
  <2>1. Push(Fresh, r) = FramedConnection(before, one \o Decode[a].items, Decode[a].left)
    BY FreshPush DEF a
  <2>2. Push(Fresh, w) = FramedConnection(SubSeq(w, 1, Min(Occurrences(Ack, w)) - 1),
                                          <<HELLO_ACK>> \o Decode[AfterAck(w)].items,
                                          Decode[AfterAck(w)].left)
    <3> HIDE DEF w
    <3> QED
      BY <1>2, <1>3, FreshPush
  <2> HIDE DEF w, first, before
  <2> QED
    BY <1>2, <1>5, <1>6, <2>1, <2>2
<1> DEFINE d == Decode[a]
           e == Decode[d.left \o x]
<1>8. d \in Result
  BY <1>1, DecodeTyped
<1>9. d.items \in Seq(Item) /\ d.left \in Seq(Bytes)
  <2> HIDE DEF d
  <2> QED
    BY <1>8 DEF Result
<1>10. e.items \in Seq(Item) /\ e.left \in Seq(Bytes)
  <2> HIDE DEF d
  <2>1. d.left \o x \in Seq(Bytes)
    BY <1>9, ConcatProperties
  <2>2. e \in Result
    BY <2>1, DecodeTyped
  <2> HIDE DEF e
  <2> QED
    BY <2>2 DEF Result
<1>11. Decode[a \o x].items = d.items \o e.items /\ Decode[a \o x].left = e.left
  BY <1>1, DecodeGoesOn DEF GoesOn
<1>12. one \in Seq(Item)
  BY AckIsItem
<1>13. one \o d.items \in Seq(Item)
  <2> HIDE DEF one, d
  <2> QED
    BY <1>9, <1>12, ConcatProperties
<1>14. one \o (d.items \o e.items) = (one \o d.items) \o e.items
  <2> DEFINE p == d.items
             q == e.items
  <2>1. one \in Seq(Item) /\ p \in Seq(Item) /\ q \in Seq(Item)
    BY <1>9, <1>10, <1>12
  <2> HIDE DEF one, p, q
  <2>2. one \o (p \o q) = (one \o p) \o q
    BY <2>1, ItemsRegroup
  <2> QED
    BY <2>2 DEF p, q
<1> DEFINE items == one \o d.items
           left == d.left
<1>15. Push(FramedConnection(before, items, left), x) =
         FramedConnection(before, items \o Decode[left \o x].items, Decode[left \o x].left)
  <2>1. items \in Seq(Item) /\ left \in Seq(Bytes)
    BY <1>9, <1>13
  <2> HIDE DEF before, items, left
  <2> QED
    BY <1>6, <2>1, FramedPush
<1>16. Push(Fresh, r) = FramedConnection(before, items, left)
  BY <1>7
<1>17. Push(Fresh, w) = FramedConnection(before, one \o (d.items \o e.items), e.left)
  <2> HIDE DEF before, one, d, e
  <2> QED
    BY <1>7, <1>11
<1>18. Decode[left \o x] = e
  OBVIOUS
<1> HIDE DEF before, one, d, e, items, left, w
<1>19. Push(Fresh, w) = FramedConnection(before, items \o e.items, e.left)
  BY <1>14, <1>17 DEF items
<1>20. Push(Push(Fresh, r), x) = Push(Fresh, w)
  BY <1>15, <1>16, <1>18, <1>19
<1> QED
  BY <1>20 DEF w

LEMMA EndsShifted ==
  ASSUME NEW a \in Seq(Bytes), NEW b \in Seq(Bytes), NEW n \in Nat, n <= Len(b)
  PROVE  EndsInAck(a \o b, n) <=> EndsInAck(b, n)
<1>1. Len(a) \in Nat /\ Len(b) \in Nat
  BY Members
<1>2. PICK j \in Nat, k \in Nat : j = Len(a) /\ k = Len(b)
  BY <1>1
<1> DEFINE w == a \o b
<1>3. Len(w) = j + k /\ \A i \in 1..k : w[j + i] = b[i]
  BY <1>2, Joined
<1> HIDE DEF w
<1>4. ASSUME NEW i \in 1..n
      PROVE  w[Len(w) - n + i] = b[k - n + i]
  <2>1. k - n + i \in 1..k /\ Len(w) - n + i = j + (k - n + i)
    BY <1>2, <1>3
  <2> QED
    BY <1>3, <2>1
<1>5. n <= Len(w) /\ n <= Len(b)
  BY <1>2, <1>3
<1> QED
  BY <1>2, <1>4, <1>5 DEF EndsInAck, w

(* What is held back of bytes without an ACK is enough: none begins before *)
(* it, and what ends in the beginning of one is no longer.                 *)
LEMMA NoneBeginsEarlier ==
  ASSUME NEW r \in Seq(Bytes), NEW x \in Seq(Bytes), Occurrences(Ack, r) = {},
         NEW i \in Occurrences(Ack, r \o x)
  PROVE  i \in Nat /\ i > Handed(r)
<1> DEFINE w == r \o x
<1>1. Ack \in Seq(Bytes) /\ Len(Ack) = 12 /\ Ack # <<>>
  BY AckTyped
<1>2. i \in Nat
  BY OccurrencesAreNumbers
<1>3. PICK k \in Nat : k = Len(r)
  BY Members
<1>4. \A m \in 1..k : w[m] = r[m]
  BY <1>3, Joined
<1>5. w \in Seq(Bytes)
  BY ConcatProperties
<1>6. 1 <= i /\ \A m \in 1..12 : w[i + m - 1] = Ack[m]
  <2>1. i \in Occurrences(Ack, w)
    OBVIOUS
  <2> HIDE DEF w
  <2>2. 1 <= i /\ \A m \in 1..Len(Ack) : w[i + m - 1] = Ack[m]
    BY <1>1, <1>2, <1>5, <2>1, OccursAt, ZenonT(60)
  <2> QED
    BY <1>1, <2>2
<1>7. ~(i + 12 <= k + 1)
  BY <1>1, <1>2, <1>3, OccursWithin
<1> HIDE DEF w
<1>8. ASSUME i <= k
      PROVE  i > Handed(r)
  <2> DEFINE n == k + 1 - i
  <2>3. 1 <= i
    BY <1>6
  <2>1. n \in 0..11 /\ n <= Len(r)
    BY <1>2, <1>3, <1>7, <1>8, <2>3
  <2>2. ASSUME NEW m \in 1..n
        PROVE  r[Len(r) - n + m] = Ack[m]
    <3>1. Len(r) - n + m = i + m - 1 /\ i + m - 1 \in 1..k /\ m \in 1..12
      BY <1>2, <1>3, <2>1, <2>3
    <3> QED
      BY <1>4, <1>6, <3>1
  <2>5. EndsInAck(r, n)
    BY <2>1, <2>2 DEF EndsInAck
  <2> HIDE DEF n
  <2>4. n <= Retained(r) /\ Retained(r) \in 0..11
    BY <2>1, <2>5, RetainedIsLongest
  <2> QED
    BY <1>2, <1>3, <2>4, SMTT(60) DEF n, Handed
<1>9. ASSUME i > k
      PROVE  i > Handed(r)
  BY <1>2, <1>3, <1>9, RetainedIsLongest, SMTT(60) DEF Handed
<1> QED
  BY <1>2, <1>3, <1>8, <1>9

(* No ACK begins in what has been handed on, so looking for one in what    *)
(* was held back and the new input is looking for one in everything.       *)
LEMMA RetainedGoesOn ==
  ASSUME NEW a \in Seq(Bytes), NEW p \in Seq(Bytes), NEW x \in Seq(Bytes),
         Len(p) = Retained(a \o p)
  PROVE  Retained((a \o p) \o x) = Retained(p \o x)
<1> DEFINE r == a \o p
           w == r \o x
           b == p \o x
<1>17. r \in Seq(Bytes) /\ Len(p) = Retained(r)
  BY ConcatProperties
<1>1. w \in Seq(Bytes) /\ b \in Seq(Bytes) /\ w = a \o b
  <2>1. w = a \o b
    BY BytesRegroup
  <2> HIDE DEF r
  <2>2. w \in Seq(Bytes) /\ b \in Seq(Bytes)
    BY <1>17, ConcatProperties
  <2> QED
    BY <2>1, <2>2
<1> HIDE DEF r
<1>2. \A i \in 1..Len(r) : w[i] = r[i]
  BY <1>17, Joined
<1> DEFINE held == Retained(r)
           u == Retained(w)
           v == Retained(b)
<1>3. PICK k \in Nat, j \in Nat : k = Len(r) /\ j = Len(x)
  BY <1>17, Members
<1>16. held \in Nat /\ Len(w) = k + j /\ Len(b) = held + j
  <2>1. held = Len(p) /\ Len(p) \in Nat
    BY <1>17, Members
  <2>2. Len(r \o x) = Len(r) + Len(x) /\ Len(p \o x) = Len(p) + Len(x)
    BY <1>17, Joined
  <2> QED
    BY <1>3, <2>1, <2>2
<1> HIDE DEF w, b
<1>4. \A n \in 0..11 : EndsInAck(r, n) => n <= held
  BY <1>17, RetainedIsLongest
<1>5. \A n \in 0..11 : EndsInAck(w, n) => n <= u
  BY <1>1, RetainedIsLongest
<1>6. \A n \in 0..11 : EndsInAck(b, n) => n <= v
  BY <1>1, RetainedIsLongest
<1>7. u \in 0..11 /\ EndsInAck(w, u) /\ v \in 0..11 /\ EndsInAck(b, v)
  BY <1>1, RetainedIsLongest
<1>8. held = Retained(r) /\ u = Retained(w) /\ v = Retained(b)
  OBVIOUS
<1> HIDE DEF held, u, v
<1>9. u <= k + j /\ v <= Len(b)
  BY <1>7, <1>16 DEF EndsInAck
<1>10. u \in Nat /\ v \in Nat /\ u <= 11 /\ v <= 11
  BY <1>7
<1>11. u <= held + j
  <2> SUFFICES ASSUME u > held + j
               PROVE  FALSE
    BY <1>10, <1>16
  <2> DEFINE n == u - j
  <2>1. n \in 0..11 /\ n <= k /\ n > held
    BY <1>9, <1>10, <1>16
  <2>2. ASSUME NEW m \in 1..n
        PROVE  r[Len(r) - n + m] = Ack[m]
    <3>1. /\ k - n + m = (k + j) - u + m
          /\ k - n + m \in 1..k /\ m \in 1..u
      BY <1>10, <2>1
    <3>2. w[Len(w) - u + m] = Ack[m]
      BY <1>7, <3>1 DEF EndsInAck
    <3> QED
      BY <1>2, <1>3, <1>16, <3>1, <3>2
  <2> HIDE DEF n
  <2>3. EndsInAck(r, n)
    BY <1>3, <2>1, <2>2 DEF EndsInAck
  <2>4. n <= held
    BY <1>4, <2>1, <2>3
  <2> QED
    BY <1>16, <2>1, <2>4
<1>12. EndsInAck(b, u)
  BY <1>1, <1>7, <1>10, <1>11, <1>16, EndsShifted
<1>13. EndsInAck(w, v)
  BY <1>1, <1>7, <1>9, <1>10, EndsShifted
<1>14. u <= v /\ v <= u
  BY <1>5, <1>6, <1>7, <1>12, <1>13
<1>15. u = v
  BY <1>10, <1>14
<1> QED
  BY <1>8, <1>15 DEF w, b, r

LEMMA PlainGoesOn ==
  ASSUME NEW r \in Seq(Bytes), NEW x \in Seq(Bytes), Occurrences(Ack, r) = {}
  PROVE  Push(Push(Fresh, r), x) = Push(Fresh, r \o x)
<1> DEFINE h == Handed(r)
           a == SubSeq(r, 1, h)
           p == SubSeq(r, h + 1, Len(r))
           w == r \o x
           b == p \o x
<1>1. h \in Nat /\ h <= Len(r) /\ h = Len(r) - Retained(r) /\ Len(r) \in Nat /\ Retained(r) \in Nat
  BY HandedIsWithin
<1>2. Push(Fresh, r) = PlainConnection(p, a)
  BY FreshPush
<1> HIDE DEF h
<1>3. a \in Seq(Bytes) /\ p \in Seq(Bytes) /\ Len(a) = h /\ r = a \o p
  <2>1. h + 1 \in Nat /\ 1 <= h + 1 /\ h + 1 <= Len(r) + 1 /\ (h + 1) - 1 = h
    BY <1>1
  <2>2. /\ SubSeq(r, 1, (h + 1) - 1) \in Seq(Bytes) /\ SubSeq(r, h + 1, Len(r)) \in Seq(Bytes)
        /\ Len(SubSeq(r, 1, (h + 1) - 1)) = (h + 1) - 1
        /\ r = SubSeq(r, 1, (h + 1) - 1) \o SubSeq(r, h + 1, Len(r))
    BY <2>1, SplitAt
  <2> QED
    BY <2>1, <2>2
<1> HIDE DEF a, p
<1>4. Len(p) = Retained(r)
  <2>1. Len(r) = Len(a) + Len(p) /\ Len(p) \in Nat
    BY <1>3, Joined, Members
  <2> QED
    BY <1>1, <1>3, <2>1
<1>5. w \in Seq(Bytes) /\ b \in Seq(Bytes) /\ w = a \o b
  <2>1. w \in Seq(Bytes) /\ b \in Seq(Bytes)
    BY <1>3, ConcatProperties
  <2>2. (a \o p) \o x = a \o (p \o x)
    BY <1>3, BytesRegroup
  <2> QED
    BY <1>3, <2>1, <2>2 DEF w, b
<1>6. Retained(w) = Retained(b)
  <2>1. a \in Seq(Bytes) /\ p \in Seq(Bytes) /\ r = a \o p
    BY <1>3
  <2> HIDE DEF w, b
  <2>2. Len(p) = Retained(a \o p)
    BY <1>4, <2>1
  <2>3. Retained((a \o p) \o x) = Retained(p \o x)
    BY <2>1, <2>2, RetainedGoesOn
  <2> QED
    BY <2>1, <2>3 DEF w, b
<1>7. \A i \in Occurrences(Ack, w) : i \in Nat /\ i > h
  BY NoneBeginsEarlier DEF h
<1>8. Push(PlainConnection(p, a), x) = Push(Fresh, w)
  <2>1. /\ Occurrences(Ack, b) = {} =>
             Push(PlainConnection(p, a), x) =
               PlainConnection(SubSeq(b, Handed(b) + 1, Len(b)), a \o SubSeq(b, 1, Handed(b)))
        /\ Occurrences(Ack, b) # {} =>
             Push(PlainConnection(p, a), x) =
               FramedConnection(a \o SubSeq(b, 1, Min(Occurrences(Ack, b)) - 1),
                                <<HELLO_ACK>> \o Decode[AfterAck(b)].items,
                                Decode[AfterAck(b)].left)
    BY <1>3, PlainPush, ZenonT(60)
  <2>2. /\ Occurrences(Ack, w) = {} =>
             Push(Fresh, w) =
               PlainConnection(SubSeq(w, Handed(w) + 1, Len(w)), SubSeq(w, 1, Handed(w)))
        /\ Occurrences(Ack, w) # {} =>
             Push(Fresh, w) =
               FramedConnection(SubSeq(w, 1, Min(Occurrences(Ack, w)) - 1),
                                <<HELLO_ACK>> \o Decode[AfterAck(w)].items,
                                Decode[AfterAck(w)].left)
    <3> HIDE DEF w
    <3> QED
      BY <1>5, FreshPush
  <2> HIDE DEF b, w
  <2>3. \A i \in Nat : i \in Occurrences(Ack, b) <=> 1 <= i /\ h + i \in Occurrences(Ack, w)
    <3> TAKE i \in Nat
    <3>1. i \in Occurrences(Ack, b) <=> 1 <= i /\ Len(a) + i \in Occurrences(Ack, a \o b)
      BY <1>3, <1>5, AckTyped, OccursShifted
    <3> QED
      BY <1>3, <1>5, <3>1
  <2>4. CASE Occurrences(Ack, b) = {}
    <3>1. Occurrences(Ack, w) = {}
      <4> SUFFICES ASSUME NEW i \in Occurrences(Ack, w)
                   PROVE  FALSE
        OBVIOUS
      <4>1. i \in Nat /\ i > h
        BY <1>7
      <4>2. i - h \in Nat /\ 1 <= i - h /\ h + (i - h) = i
        BY <1>1, <4>1, SMTT(60)
      <4>3. i - h \in Occurrences(Ack, b)
        BY <2>3, <4>2
      <4> QED
        BY <2>4, <4>3
    <3> DEFINE hb == Handed(b)
    <3>2. hb \in Nat /\ hb <= Len(b) /\ Len(b) \in Nat /\ Handed(w) = h + hb
      <4> DEFINE v == Retained(b)
      <4>1. v \in 0..11 /\ v <= Len(b) /\ Len(b) \in Nat
        BY <1>5, RetainedIsLongest, Members DEF EndsInAck
      <4>2. Len(w) = h + Len(b)
        BY <1>3, <1>5, Joined
      <4>3. hb = Len(b) - v /\ Handed(w) = Len(w) - v
        BY <1>6 DEF Handed
      <4> HIDE DEF hb, v
      <4>4. PICK k \in Nat : k = Len(b)
        BY <4>1
      <4>5. h \in Nat /\ v \in Nat /\ v <= k
        BY <1>1, <4>1, <4>4
      <4>6. hb = k - v /\ Handed(w) = (h + k) - v
        BY <4>2, <4>3, <4>4
      <4>7. hb \in Nat /\ hb <= k /\ (h + k) - v = h + hb
        BY <4>5, <4>6
      <4> QED
        BY <4>4, <4>6, <4>7
    <3> HIDE DEF hb
    <3>3. SubSeq(w, 1, h + hb) = a \o SubSeq(b, 1, hb)
      BY <1>3, <1>5, <3>2, BeginningOfJoined
    <3>4. SubSeq(w, (h + hb) + 1, Len(w)) = SubSeq(b, hb + 1, Len(b))
      <4>1. hb + 1 \in Nat /\ 1 <= hb + 1 /\ hb + 1 <= Len(b) + 1 /\ (h + hb) + 1 = h + (hb + 1)
        BY <1>1, <3>2
      <4>2. SubSeq(a \o b, Len(a) + (hb + 1), Len(a \o b)) = SubSeq(b, hb + 1, Len(b))
        BY <1>3, <1>5, <4>1, EndOfJoined
      <4> QED
        BY <1>3, <1>5, <4>1, <4>2
    <3>5. Push(PlainConnection(p, a), x) =
            PlainConnection(SubSeq(b, hb + 1, Len(b)), a \o SubSeq(b, 1, hb))
      BY <2>1, <2>4 DEF hb
    <3>6. Push(Fresh, w) =
            PlainConnection(SubSeq(w, (h + hb) + 1, Len(w)), SubSeq(w, 1, h + hb))
      BY <2>2, <3>1, <3>2
    <3> QED
      BY <3>3, <3>4, <3>5, <3>6
  <2>5. CASE Occurrences(Ack, b) # {}
    <3> DEFINE f == Min(Occurrences(Ack, b))
               g == Min(Occurrences(Ack, w))
    <3>1. /\ f \in Nat /\ 1 <= f /\ f + Len(Ack) <= Len(b) + 1
          /\ f \in Occurrences(Ack, b) /\ \A i \in Occurrences(Ack, b) : f <= i
          /\ AfterAck(b) = SubSeq(b, f + Len(Ack), Len(b))
      BY <1>5, <2>5, AfterAckTyped
    <3>2. h + f \in Occurrences(Ack, w)
      <4> HIDE DEF f
      <4> QED
        BY <2>3, <3>1
    <3>3. /\ g \in Nat
          /\ g \in Occurrences(Ack, w) /\ \A i \in Occurrences(Ack, w) : g <= i
          /\ AfterAck(w) = SubSeq(w, g + Len(Ack), Len(w))
      BY <1>5, <3>2, AfterAckTyped
    <3>4. /\ Push(PlainConnection(p, a), x) =
               FramedConnection(a \o SubSeq(b, 1, f - 1),
                                <<HELLO_ACK>> \o Decode[AfterAck(b)].items,
                                Decode[AfterAck(b)].left)
          /\ Push(Fresh, w) =
               FramedConnection(SubSeq(w, 1, g - 1),
                                <<HELLO_ACK>> \o Decode[AfterAck(w)].items,
                                Decode[AfterAck(w)].left)
      BY <2>1, <2>2, <2>5, <3>2
    <3> HIDE DEF f, g
    <3>5. g = h + f
      <4>1. g > h /\ g <= h + f
        <5>1. g > h
          BY <1>7, <3>3
        <5>2. g <= h + f
          BY <3>2, <3>3
        <5> QED
          BY <5>1, <5>2
      <4>5. g \in Nat /\ h \in Nat
        BY <1>1, <3>3
      <4>2. g - h \in Nat /\ 1 <= g - h /\ h + (g - h) = g
        BY <4>1, <4>5
      <4>3. g - h \in Occurrences(Ack, b)
        BY <2>3, <3>3, <4>2
      <4>4. f <= g - h
        BY <3>1, <4>3
      <4> QED
        <5>1. h \in Nat /\ f \in Nat /\ g \in Nat
          BY <1>1, <3>1, <3>3
        <5> QED
          BY <4>1, <4>4, <5>1
    <3>6. Len(Ack) = 12 /\ Len(b) \in Nat
      BY <1>5, AckTyped, Members
    <3>7. SubSeq(w, 1, g - 1) = a \o SubSeq(b, 1, f - 1)
      <4>1. f - 1 \in Nat /\ f - 1 <= Len(b) /\ g - 1 = h + (f - 1)
        BY <1>1, <3>1, <3>5, <3>6
      <4>2. SubSeq(a \o b, 1, Len(a) + (f - 1)) = a \o SubSeq(b, 1, f - 1)
        BY <1>3, <1>5, <4>1, BeginningOfJoined, ZenonT(60)
      <4> QED
        BY <1>3, <1>5, <4>1, <4>2
    <3>8. AfterAck(w) = AfterAck(b)
      <4>1. /\ f + Len(Ack) \in Nat /\ 1 <= f + Len(Ack) /\ f + Len(Ack) <= Len(b) + 1
            /\ g + Len(Ack) = h + (f + Len(Ack))
        BY <1>1, <3>1, <3>5, <3>6
      <4>2. SubSeq(a \o b, Len(a) + (f + Len(Ack)), Len(a \o b)) =
              SubSeq(b, f + Len(Ack), Len(b))
        BY <1>3, <1>5, <4>1, EndOfJoined
      <4> QED
        BY <1>3, <1>5, <3>1, <3>3, <4>1, <4>2
    <3> QED
      BY <3>4, <3>7, <3>8
  <2> QED
    BY <2>4, <2>5
<1> QED
  BY <1>2, <1>8 DEF w

(* Two pushes come to what one of everything would have come to.           *)
LEMMA PushGoesOn ==
  ASSUME NEW r \in Seq(Bytes), NEW x \in Seq(Bytes)
  PROVE  Push(Push(Fresh, r), x) = Push(Fresh, r \o x)
  BY FramedGoesOn, PlainGoesOn

(* The checksum of an ACK, byte by byte.                                   *)
LEMMA AckChecksum ==
  ASSUME NEW b \in Seq(0..255), Len(b) = 9,
         b[1] = 1, b[2] = 13, b[3] = 0, b[4] = 4, b[5] = 0,
         b[6] = 83, b[7] = 87, b[8] = 84, b[9] = 49
  PROVE  Checksum(b) = 65
<1>1. PICK f \in [0..9 -> 0..255] : Adds(f, b) /\ Checksum(b) = f[9]
  <2>1. \E f \in [0..Len(b) -> 0..255] : Adds(f, b) /\ Checksum(b) = f[Len(b)]
    BY ChecksumAdds
  <2> QED
    BY <2>1, ZenonT(60)
<1>2. f[0] = 0 /\ \A k \in 1..9 : f[k] = (f[k - 1] + b[k]) % 256
  BY <1>1 DEF Adds
<1>3. f[1] = 1
  BY <1>2
<1>4. f[2] = 14
  BY <1>2, <1>3
<1>5. f[3] = 14
  BY <1>2, <1>4
<1>6. f[4] = 18
  BY <1>2, <1>5
<1>7. f[5] = 18
  BY <1>2, <1>6
<1>8. f[6] = 101
  BY <1>2, <1>7
<1>9. f[7] = 188
  BY <1>2, <1>8
<1>10. f[8] = 16
  BY <1>2, <1>9
<1>11. f[9] = 65
  BY <1>2, <1>10
<1> QED
  BY <1>1, <1>11

(* No byte of an ACK but its first is the first of one, so none overlaps   *)
(* another.                                                                *)
LEMMA AckBegins ==
  /\ Ack[1] = 165
  /\ \A i \in 2..12 : Ack[i] # 165
<1> DEFINE head == <<1, 13, 0, 4, 0>>
           magic == <<83, 87, 84, 49>>
           body == head \o magic
           begin == SYNC \o body
           sum == <<Checksum(body)>>
<1>1. head \in Seq(Bytes) /\ Len(head) = 5 /\ magic \in Seq(Bytes) /\ Len(magic) = 4
  BY DEF Bytes
<1>2. /\ head[1] = 1 /\ head[2] = 13 /\ head[3] = 0 /\ head[4] = 4 /\ head[5] = 0
      /\ magic[1] = 83 /\ magic[2] = 87 /\ magic[3] = 84 /\ magic[4] = 49
  OBVIOUS
<1>3. SYNC \in Seq(Bytes) /\ Len(SYNC) = 2 /\ SYNC[1] = 165 /\ SYNC[2] = 90
  BY DEF SYNC, Bytes
<1>4. Ack = begin \o sum
  <2> DEFINE frame == [kind |-> 13, channel |-> 0, payload |-> magic]
             header == <<VERSION, 13, 0, Len(magic) % 256, Len(magic) \div 256>>
  <2>1. Ack = Encode(frame)
    BY DEF Ack, HELLO_ACK
  <2>2. Encode(frame) = SYNC \o (header \o magic) \o <<Checksum(header \o magic)>>
    BY DEF Encode
  <2>3. header = head
    <3>1. Len(magic) % 256 = 4 /\ Len(magic) \div 256 = 0
      BY <1>1
    <3> QED
      BY <3>1 DEF VERSION
  <2> HIDE DEF frame, header, head, magic
  <2> QED
    BY <2>1, <2>2, <2>3
<1> HIDE DEF head, magic
<1>5. /\ body \in Seq(Bytes) /\ Len(body) = 9
      /\ \A i \in 1..5 : body[i] = head[i]
      /\ \A i \in 1..4 : body[5 + i] = magic[i]
  <2>1. /\ body \in Seq(Bytes) /\ Len(body) = Len(head) + Len(magic)
        /\ \A i \in 1..Len(head) : body[i] = head[i]
        /\ \A i \in 1..Len(magic) : body[Len(head) + i] = magic[i]
    <3>1. head \in Seq(Bytes) /\ magic \in Seq(Bytes)
      BY <1>1
    <3> QED
      BY <3>1, Joined
  <2> HIDE DEF body
  <2> QED
    BY <1>1, <2>1
<1> HIDE DEF body
<1>6. /\ body[1] = 1 /\ body[2] = 13 /\ body[3] = 0 /\ body[4] = 4 /\ body[5] = 0
      /\ body[6] = 83 /\ body[7] = 87 /\ body[8] = 84 /\ body[9] = 49
  <2>1. 5 + 1 = 6 /\ 5 + 2 = 7 /\ 5 + 3 = 8 /\ 5 + 4 = 9
    OBVIOUS
  <2> QED
    BY <1>2, <1>5, <2>1
<1>7. Checksum(body) = 65
  <2>1. body \in Seq(0..255)
    BY <1>5 DEF Bytes
  <2> QED
    BY <1>5, <1>6, <2>1, AckChecksum
<1>8. /\ begin \in Seq(Bytes) /\ Len(begin) = 11
      /\ \A i \in 1..2 : begin[i] = SYNC[i]
      /\ \A i \in 1..9 : begin[2 + i] = body[i]
  <2>1. /\ begin \in Seq(Bytes) /\ Len(begin) = Len(SYNC) + Len(body)
        /\ \A i \in 1..Len(SYNC) : begin[i] = SYNC[i]
        /\ \A i \in 1..Len(body) : begin[Len(SYNC) + i] = body[i]
    <3>1. SYNC \in Seq(Bytes) /\ body \in Seq(Bytes)
      BY <1>3, <1>5
    <3> QED
      BY <3>1, Joined
  <2> HIDE DEF begin
  <2>2. Len(SYNC) = 2 /\ Len(body) = 9
    BY <1>3, <1>5
  <2> QED
    BY <2>1, <2>2
<1>9. sum \in Seq(Bytes) /\ Len(sum) = 1 /\ sum[1] = 65
  BY <1>7 DEF Bytes
<1> HIDE DEF begin, sum
<1>10. /\ \A i \in 1..11 : Ack[i] = begin[i]
       /\ Ack[12] = 65
  <2>1. /\ \A i \in 1..Len(begin) : (begin \o sum)[i] = begin[i]
        /\ \A i \in 1..Len(sum) : (begin \o sum)[Len(begin) + i] = sum[i]
    <3>1. begin \in Seq(Bytes) /\ sum \in Seq(Bytes)
      BY <1>8, <1>9
    <3> QED
      BY <3>1, Joined
  <2>2. 1 \in 1..1 /\ 11 + 1 = 12
    OBVIOUS
  <2>3. Len(begin) = 11 /\ Len(sum) = 1 /\ sum[1] = 65
    BY <1>8, <1>9
  <2>4. \A i \in 1..11 : Ack[i] = begin[i]
    BY <1>4, <2>1, <2>3
  <2>5. (begin \o sum)[11 + 1] = sum[1]
    BY <2>1, <2>2, <2>3
  <2> QED
    BY <1>4, <2>2, <2>3, <2>4, <2>5
<1>11. Ack[1] = 165
  BY <1>3, <1>8, <1>10
<1>12. Ack[2] = 90
  BY <1>3, <1>8, <1>10
<1>13. ASSUME NEW i \in 3..11
       PROVE  Ack[i] # 165
  <2>1. i - 2 \in 1..9 /\ 2 + (i - 2) = i /\ i \in 1..11
    OBVIOUS
  <2>2. Ack[i] = body[i - 2]
    BY <1>8, <1>10, <2>1
  <2>3. \A k \in 1..9 : body[k] # 165
    BY <1>6
  <2> QED
    BY <2>1, <2>2, <2>3
<1>14. \A i \in 2..12 : i = 2 \/ i = 12 \/ i \in 3..11
  OBVIOUS
<1>15. Ack[12] # 165 /\ Ack[2] # 165
  BY <1>10, <1>12
<1> QED
  BY <1>11, <1>13, <1>14, <1>15

-----------------------------------------------------------------------------
(* The text before an ACK.                                                 *)

LEMMA BeginningIsPrefix ==
  ASSUME NEW t \in Seq(Bytes), NEW m \in Nat, m <= Len(t)
  PROVE  IsPrefix(SubSeq(t, 1, m), t)
<1> DEFINE s == SubSeq(t, 1, m)
<1>1. /\ m \in Nat /\ 1 \in Nat /\ 1 <= 1 /\ 1 <= m + 1 /\ m + 1 - 1 = m
      /\ \A i \in 1..m : 1 + i - 1 = i
  OBVIOUS
<1>2. /\ s \in Seq(Bytes) /\ Len(s) = m + 1 - 1
      /\ \A i \in 1..(m + 1 - 1) : s[i] = t[1 + i - 1]
  BY <1>1, Slice
<1>3. s \in Seq(Bytes) /\ Len(s) = m
  BY <1>1, <1>2
<1> HIDE DEF s
<1>4. /\ SubSeq(s, 1, m) \in Seq(Bytes) /\ Len(SubSeq(s, 1, m)) = m + 1 - 1
      /\ \A i \in 1..(m + 1 - 1) : SubSeq(s, 1, m)[i] = s[1 + i - 1]
  <2>1. m <= Len(s)
    BY <1>3
  <2> QED
    BY <1>1, <1>3, <2>1, Slice
<1>5. SubSeq(s, 1, m) = s
  <2> DEFINE e == SubSeq(s, 1, m)
  <2>1. e \in Seq(Bytes) /\ Len(e) = m /\ \A i \in 1..m : e[i] = s[i]
    BY <1>1, <1>4
  <2> HIDE DEF e
  <2>2. e = s
    BY <1>3, <2>1, Extensional
  <2> QED
    BY <2>2 DEF e
<1>6. Len(s) <= Len(t) /\ SubSeq(s, 1, Len(s)) = SubSeq(t, 1, Len(s))
  BY <1>3, <1>5 DEF s
<1> QED
  BY <1>6 DEF IsPrefix, s

(* The target is plain.                                                    *)
LEMMA TextWhilePlain ==
  ASSUME NEW r \in Seq(Bytes), NEW y \in Seq(Bytes), Occurrences(Ack, r \o y) = {}
  PROVE  /\ IsPrefix(Push(Fresh, r).text, r \o y)
         /\ y = <<>> => Push(Fresh, r).text \o Push(Fresh, r).pending = r \o y
<1> DEFINE t == r \o y
           h == Handed(r)
           text == SubSeq(r, 1, h)
           pending == SubSeq(r, h + 1, Len(r))
<1>1. Occurrences(Ack, r) = {}
  <2>1. \A i \in Nat : i \in Occurrences(Ack, r) => i \in Occurrences(Ack, t)
    BY AckTyped, OccursWithin
  <2> QED
    BY <2>1, OccurrencesAreNumbers
<1>2. Push(Fresh, r) = PlainConnection(pending, text)
  BY <1>1, FreshPush
<1>3. Push(Fresh, r).text = text /\ Push(Fresh, r).pending = pending
  <2> HIDE DEF text, pending
  <2> QED
    BY <1>2 DEF PlainConnection
<1>4. h \in Nat /\ h <= Len(r) /\ Len(r) \in Nat
  BY HandedIsWithin
<1> HIDE DEF h
<1>5. t \in Seq(Bytes) /\ Len(t) = Len(r) + Len(y) /\ Len(y) \in Nat
  BY ConcatProperties, Members
<1>6. text = SubSeq(t, 1, h)
  <2>1. 1 \in Nat /\ 1 <= 1 /\ 1 <= h + 1
    BY <1>4
  <2> QED
    BY <1>4, <2>1, SliceOfJoined
<1>7. IsPrefix(text, t)
  <2>1. h <= Len(t)
    BY <1>4, <1>5
  <2> HIDE DEF t, text
  <2> QED
    BY <1>4, <1>5, <1>6, <2>1, BeginningIsPrefix
<1>8. text \o pending = r
  <2>1. h + 1 \in Nat /\ 1 <= h + 1 /\ h + 1 <= Len(r) + 1 /\ (h + 1) - 1 = h
    BY <1>4
  <2>2. r = SubSeq(r, 1, (h + 1) - 1) \o SubSeq(r, h + 1, Len(r))
    BY <2>1, SplitAt
  <2> QED
    BY <2>1, <2>2
<1>9. y = <<>> => t = r
  BY ConcatEmptySeq
<1> HIDE DEF t, text, pending
<1>10. /\ IsPrefix(Push(Fresh, r).text, t)
       /\ y = <<>> => Push(Fresh, r).text \o Push(Fresh, r).pending = t
  BY <1>3, <1>7, <1>8, <1>9
<1> QED
  BY <1>10 DEF t

(* The first ACK of text without one, an ACK and more is that ACK.         *)
LEMMA FirstAck ==
  ASSUME NEW t \in Seq(Bytes), NEW z \in Seq(Bytes), Occurrences(Ack, t) = {}
  PROVE  /\ Len(t) + 1 \in Occurrences(Ack, t \o (Ack \o z))
         /\ \A i \in Occurrences(Ack, t \o (Ack \o z)) : i >= Len(t) + 1
         /\ \A m \in 1..12 : (t \o (Ack \o z))[Len(t) + m] = Ack[m]
<1> DEFINE e == Ack \o z
           w == t \o e
<1>1. Ack \in Seq(Bytes) /\ Len(Ack) = 12 /\ Ack # <<>>
  BY AckTyped
<1>2. e \in Seq(Bytes) /\ Len(e) \in Nat /\ Len(e) = 12 + Len(z) /\ Len(z) \in Nat
  <2>1. e \in Seq(Bytes) /\ Len(e) = Len(Ack) + Len(z)
    BY <1>1, ConcatProperties
  <2> QED
    BY <1>1, <2>1, Members
<1>3. \A m \in 1..12 : e[m] = Ack[m]
  <2>1. \A m \in 1..Len(Ack) : e[m] = Ack[m]
    <3>1. Ack \in Seq(Bytes)
      BY <1>1
    <3> QED
      BY <3>1, Joined
  <2> HIDE DEF e
  <2> QED
    BY <1>1, <2>1
<1>4. 1 \in Occurrences(Ack, e)
  <2>1. 1 \in Occurrences(Ack, Ack)
    <3>1. 1 \in Nat /\ 1 <= 1 /\ 1 + Len(Ack) <= Len(Ack) + 1 /\ \A j \in 1..Len(Ack) : 1 + j - 1 = j
      BY <1>1
    <3> QED
      BY <1>1, <3>1, OccursAt
  <2>2. 1 \in Nat
    OBVIOUS
  <2> QED
    BY <1>1, <2>1, <2>2, OccursWithin
<1> HIDE DEF e
<1>5. PICK n \in Nat : n = Len(t)
  BY Members
<1>6. n + 1 \in Occurrences(Ack, w)
  BY <1>1, <1>2, <1>4, <1>5, OccursShifted
<1>7. w \in Seq(Bytes) /\ \A m \in 1..12 : w[n + m] = Ack[m]
  <2>1. w \in Seq(Bytes) /\ \A m \in 1..Len(e) : w[Len(t) + m] = e[m]
    BY <1>2, Joined
  <2>2. \A m \in 1..12 : m \in 1..Len(e)
    BY <1>2
  <2> HIDE DEF w
  <2> QED
    BY <1>3, <1>5, <2>1, <2>2
<1>8. ASSUME NEW i \in Nat, i \in Occurrences(Ack, w), ~(i >= n + 1)
      PROVE  FALSE
  <2>1. i \in Nat
    OBVIOUS
  <2>2. i <= n
    BY <1>5, <1>8, <2>1
  <2>3. 1 <= i /\ \A m \in 1..12 : w[i + m - 1] = Ack[m]
    <3> HIDE DEF w
    <3>1. 1 <= i /\ \A m \in 1..Len(Ack) : w[i + m - 1] = Ack[m]
      BY <1>1, <1>7, <1>8, <2>1, OccursAt, ZenonT(60)
    <3> QED
      BY <1>1, <3>1
  <2>4. ~(i + 12 <= n + 1)
    <3>1. ~(i + Len(Ack) <= Len(t) + 1)
      BY <1>1, <1>2, <1>8, <2>1, OccursWithin
    <3> QED
      BY <1>1, <1>5, <3>1
  <2> HIDE DEF w
  <2> DEFINE k == n + 2 - i
  <2>5. k \in 2..12 /\ k \in 1..12 /\ i + k - 1 = n + 1
    <3>1. 1 <= i
      BY <2>3
    <3> QED
      BY <2>2, <2>4, <3>1
  <2> HIDE DEF k
  <2>6. w[n + 1] = Ack[k]
    BY <2>3, <2>5
  <2>7. w[n + 1] = Ack[1]
    <3>1. 1 \in 1..12
      OBVIOUS
    <3> QED
      BY <1>7, <3>1
  <2> QED
    BY <2>5, <2>6, <2>7, AckBegins
<1>9. \A i \in Occurrences(Ack, w) : i >= n + 1
  BY <1>8, OccurrencesAreNumbers
<1> QED
  BY <1>5, <1>6, <1>7, <1>9 DEF e

(* The target is framed.                                                   *)
LEMMA TextBeforeFrames ==
  ASSUME NEW r \in Seq(Bytes), NEW y \in Seq(Bytes), NEW t \in Seq(Bytes), NEW z \in Seq(Bytes),
         Occurrences(Ack, t) = {}, r \o y = t \o (Ack \o z)
  PROVE  /\ IsPrefix(Push(Fresh, r).text, t)
         /\ y = <<>> => Push(Fresh, r).text \o Push(Fresh, r).pending = t
<1> DEFINE w == r \o y
<1>1. PICK n \in Nat, k \in Nat : n = Len(t) /\ k = Len(r)
  BY Members
<1>2. /\ n + 1 \in Occurrences(Ack, w) /\ \A i \in Occurrences(Ack, w) : i >= n + 1
      /\ \A m \in 1..12 : w[n + m] = Ack[m]
  <2> DEFINE v == t \o (Ack \o z)
  <2>1. /\ Len(t) + 1 \in Occurrences(Ack, v) /\ \A i \in Occurrences(Ack, v) : i >= Len(t) + 1
        /\ \A m \in 1..12 : v[Len(t) + m] = Ack[m]
    BY FirstAck
  <2>2. w = v
    OBVIOUS
  <2> HIDE DEF w, v
  <2> QED
    BY <1>1, <2>1, <2>2
<1>3. /\ Len(w) \in Nat /\ n + 12 <= Len(w) /\ (y = <<>> => Len(w) = k)
      /\ \A i \in 1..k : w[i] = r[i]
  <2>1. Len(w) = Len(r) + Len(y) /\ Len(y) \in Nat /\ \A i \in 1..Len(r) : w[i] = r[i]
    BY Joined, Members, SMTT(60)
  <2>2. Ack \o z \in Seq(Bytes) /\ Len(Ack \o z) = Len(Ack) + Len(z) /\ Len(z) \in Nat
    <3>1. Ack \in Seq(Bytes)
      BY AckTyped
    <3> QED
      BY <3>1, Joined, Members
  <2>3. Len(w) = Len(t) + Len(Ack \o z)
    BY <2>2, Joined
  <2>4. Len(w) = n + (12 + Len(z))
    BY <1>1, <2>2, <2>3, AckTyped
  <2>5. y = <<>> => Len(y) = 0
    OBVIOUS
  <2> HIDE DEF w
  <2>6. Len(w) = k + Len(y) /\ \A i \in 1..k : w[i] = r[i]
    BY <1>1, <2>1
  <2>7. y = <<>> => Len(w) = k
    BY <1>1, <2>5, <2>6
  <2>8. n + 12 <= n + (12 + Len(z)) /\ n + (12 + Len(z)) \in Nat
    BY <1>1, <2>2
  <2> QED
    BY <2>4, <2>6, <2>7, <2>8
<1>4. ASSUME NEW m \in Nat, m <= n, m <= k
      PROVE  SubSeq(r, 1, m) = SubSeq(t, 1, m)
  <2>1. 1 \in Nat /\ 1 <= 1 /\ 1 <= m + 1
    BY <1>4
  <2>2. SubSeq(r \o y, 1, m) = SubSeq(r, 1, m)
    BY <1>1, <1>4, <2>1, SliceOfJoined
  <2>3. Ack \o z \in Seq(Bytes)
    BY AckTyped, ConcatProperties
  <2>4. SubSeq(t \o (Ack \o z), 1, m) = SubSeq(t, 1, m)
    BY <1>1, <1>4, <2>1, <2>3, SliceOfJoined
  <2> QED
    BY <2>2, <2>4
<1>5. \A i \in Nat : i \in Occurrences(Ack, r) <=> i \in Occurrences(Ack, w) /\ i + 12 <= k + 1
  <2>1. \A i \in Nat : i \in Occurrences(Ack, r) <=>
                         i \in Occurrences(Ack, w) /\ i + Len(Ack) <= Len(r) + 1
    BY AckTyped, OccursWithin
  <2> HIDE DEF w
  <2> QED
    BY <1>1, <2>1, AckTyped
<1> HIDE DEF w
<1>6. CASE n + 12 <= k
  <2> DEFINE first == Min(Occurrences(Ack, r))
  <2>1. n + 1 \in Occurrences(Ack, r)
    <3>1. n + 1 \in Nat /\ (n + 1) + 12 <= k + 1
      BY <1>6
    <3> QED
      BY <1>2, <1>5, <3>1
  <2>2. first \in Nat /\ first \in Occurrences(Ack, r) /\ \A i \in Occurrences(Ack, r) : first <= i
    BY <2>1, AfterAckTyped
  <2>3. Push(Fresh, r) = FramedConnection(SubSeq(r, 1, first - 1),
                                          <<HELLO_ACK>> \o Decode[AfterAck(r)].items,
                                          Decode[AfterAck(r)].left)
    BY <2>1, FreshPush
  <2> HIDE DEF first
  <2>4. first = n + 1
    <3>1. first <= n + 1 /\ first >= n + 1
      BY <1>2, <1>5, <2>1, <2>2
    <3> QED
      BY <1>1, <2>2, <3>1
  <2>5. SubSeq(r, 1, first - 1) = t
    <3>1. first - 1 = n /\ n <= n /\ n <= k
      BY <1>1, <1>6, <2>4
    <3>2. SubSeq(r, 1, n) = SubSeq(t, 1, n)
      BY <1>1, <1>4, <3>1
    <3>3. SubSeq(t, 1, n) = t
      BY <1>1, SubSeqFull
    <3> QED
      BY <3>1, <3>2, <3>3
  <2>6. Push(Fresh, r).text = t /\ Push(Fresh, r).pending = <<>>
    BY <2>3, <2>5 DEF FramedConnection
  <2>7. IsPrefix(t, t)
    <3>1. n <= Len(t) /\ SubSeq(t, 1, n) = t
      BY <1>1, SubSeqFull
    <3> QED
      BY <1>1, <3>1, BeginningIsPrefix
  <2>8. t \o <<>> = t
    BY ConcatEmptySeq
  <2> QED
    BY <2>6, <2>7, <2>8
<1>7. CASE ~(n + 12 <= k)
  <2> DEFINE h == Handed(r)
             held == Retained(r)
  <2>1. Occurrences(Ack, r) = {}
    <3> SUFFICES ASSUME NEW i \in Occurrences(Ack, r)
                 PROVE  FALSE
      OBVIOUS
    <3>1. i \in Nat
      BY OccurrencesAreNumbers
    <3>2. i >= n + 1 /\ i + 12 <= k + 1
      BY <1>2, <1>5, <3>1
    <3> QED
      BY <1>1, <1>7, <3>1, <3>2
  <2>2. Push(Fresh, r) = PlainConnection(SubSeq(r, h + 1, Len(r)), SubSeq(r, 1, h))
    BY <2>1, FreshPush
  <2>3. /\ held \in Nat /\ held <= k /\ h = k - held
        /\ \A m \in 0..11 : EndsInAck(r, m) => m <= held
    <3>1. held \in 0..11 /\ EndsInAck(r, held) /\ \A m \in 0..11 : EndsInAck(r, m) => m <= held
      BY RetainedIsLongest
    <3>2. h = Len(r) - held
      BY DEF Handed
    <3> HIDE DEF h, held
    <3>3. held <= Len(r)
      BY <3>1 DEF EndsInAck
    <3> QED
      BY <1>1, <3>1, <3>2, <3>3
  <2> HIDE DEF h, held
  <2>4. h \in Nat /\ h <= k
    BY <1>1, <2>3
  <2>5. h <= n
    <3>1. CASE k <= n
      BY <1>1, <2>4, <3>1
    <3>2. CASE ~(k <= n)
      <4> DEFINE m == k - n
      <4>1. m \in 0..11 /\ m \in Nat /\ m <= k /\ k - m = n
        BY <1>7, <3>2
      <4>2. ASSUME NEW i \in 1..m
            PROVE  r[Len(r) - m + i] = Ack[i]
        <5>1. k - m + i = n + i /\ n + i \in 1..k /\ i \in 1..12
          BY <1>7, <3>2
        <5>2. r[n + i] = Ack[i]
          BY <1>2, <1>3, <5>1
        <5> QED
          BY <1>1, <5>1, <5>2
      <4> HIDE DEF m
      <4>3. EndsInAck(r, m)
        BY <1>1, <4>1, <4>2 DEF EndsInAck
      <4>4. m <= held
        BY <2>3, <4>1, <4>3
      <4>5. h = k - held /\ held \in Nat
        BY <2>3
      <4> QED
        BY <1>1, <4>1, <4>4, <4>5
    <3> QED
      BY <3>1, <3>2
  <2>6. Push(Fresh, r).text = SubSeq(r, 1, h)
    <3> DEFINE text == SubSeq(r, 1, h)
               pending == SubSeq(r, h + 1, Len(r))
    <3>1. Push(Fresh, r) = PlainConnection(pending, text)
      BY <2>2
    <3> HIDE DEF text, pending
    <3>2. Push(Fresh, r).text = text
      BY <3>1 DEF PlainConnection
    <3> QED
      BY <3>2 DEF text
  <2>7. IsPrefix(SubSeq(t, 1, h), t)
    BY <1>1, <2>4, <2>5, BeginningIsPrefix
  <2>8. SubSeq(r, 1, h) = SubSeq(t, 1, h)
    BY <1>4, <2>4, <2>5
  <2>9. y # <<>>
    BY <1>1, <1>3, <1>7
  <2> QED
    BY <2>6, <2>7, <2>8, <2>9
<1> QED
  BY <1>6, <1>7

-----------------------------------------------------------------------------
(* The decoder's theorems.                                                 *)

LEMMA FreshIsFixed == Push(Fresh, <<>>) = Fresh
<1> DEFINE none == <<>>
           h == Handed(none)
<1>1. none \in Seq(Bytes) /\ Len(none) = 0
  OBVIOUS
<1>2. Occurrences(Ack, none) = {}
  <2> HIDE DEF none
  <2> SUFFICES ASSUME NEW i \in Occurrences(Ack, none)
               PROVE  FALSE
    OBVIOUS
  <2>1. i \in Nat
    BY OccurrencesAreNumbers
  <2>2. 1 <= i /\ i + Len(Ack) <= Len(none) + 1
    BY <1>1, <2>1, AckTyped, OccursAt
  <2>3. 1 <= i /\ i + 12 <= 1
    BY <1>1, <2>2, AckTyped
  <2> QED
    BY <2>1, <2>3
<1>3. h = 0
  <2> HIDE DEF none
  <2>1. Retained(none) \in 0..11 /\ Retained(none) <= 0
    BY <1>1, RetainedIsLongest DEF EndsInAck
  <2> QED
    BY <1>1, <2>1 DEF Handed
<1>4. Push(Fresh, none) = PlainConnection(SubSeq(none, h + 1, Len(none)), SubSeq(none, 1, h))
  <2> HIDE DEF none
  <2> QED
    BY <1>1, <1>2, FreshPush
<1>5. SubSeq(none, 0 + 1, 0) = none /\ SubSeq(none, 1, 0) = none
  <2>1. 1 \in Nat /\ 0 \in Nat /\ 1 <= 1 /\ 1 <= 0 + 1 /\ 0 + 1 - 1 = 0
    OBVIOUS
  <2>2. SubSeq(none, 1, 0) \in Seq(Bytes) /\ Len(SubSeq(none, 1, 0)) = 0
    <3> HIDE DEF none
    <3>1. 0 <= Len(none)
      BY <1>1
    <3> QED
      BY <1>1, <2>1, <3>1, Slice
  <2> DEFINE e == SubSeq(none, 1, 0)
  <2>3. e = <<>>
    <3>1. e \in Seq(Bytes) /\ Len(e) = 0
      BY <2>2
    <3> HIDE DEF e
    <3> QED
      BY <3>1, EmptySeq
  <2> QED
    BY <2>3
<1>6. Push(Fresh, none) = PlainConnection(none, none)
  <2> HIDE DEF none, h
  <2> QED
    BY <1>1, <1>3, <1>4, <1>5
<1> QED
  BY <1>6, FreshIsPlain

(* What one push of everything comes to.                                   *)
LEMMA PushTyped ==
  ASSUME NEW r \in Seq(Bytes)
  PROVE  LET c == Push(Fresh, r)
         IN  /\ c.mode \in {"Plain", "Framed"}
             /\ c.pending \in Seq(Bytes) /\ c.buffer \in Seq(Bytes) /\ c.text \in Seq(Bytes)
             /\ Len(c.pending) < 12
             /\ c.mode = "Framed" => c.pending = <<>>
             /\ c.mode = "Plain" => c.buffer = <<>> /\ c.items = <<>>
<1> DEFINE h == Handed(r)
           pending == SubSeq(r, h + 1, Len(r))
           text == SubSeq(r, 1, h)
<1>1. CASE Occurrences(Ack, r) = {}
  <2>1. Push(Fresh, r) = PlainConnection(pending, text)
    BY <1>1, FreshPush
  <2>2. PICK held \in 0..11 : held = Retained(r)
    BY RetainedIsLongest
  <2>3. PICK k \in Nat : k = Len(r)
    BY Members
  <2>4. h = k - held /\ held <= k
    BY <2>2, <2>3, RetainedIsLongest DEF Handed, EndsInAck
  <2> HIDE DEF h
  <2>5. /\ h \in Nat /\ h <= k /\ (h + 1) - 1 = h
        /\ h + 1 \in Nat /\ 1 <= h + 1 /\ h + 1 <= k + 1 /\ k + 1 - (h + 1) = held
    BY <2>4
  <2>6. pending \in Seq(Bytes) /\ text \in Seq(Bytes)
    <3>1. h + 1 <= Len(r) + 1
      BY <2>3, <2>5
    <3>2. SubSeq(r, 1, (h + 1) - 1) \in Seq(Bytes) /\ SubSeq(r, h + 1, Len(r)) \in Seq(Bytes)
      BY <2>5, <3>1, SplitAt
    <3> QED
      BY <2>5, <3>2
  <2>7. Len(pending) = held
    <3>1. Len(SubSeq(r, h + 1, k)) = k + 1 - (h + 1)
      <4>1. k <= Len(r)
        BY <2>3
      <4> QED
        BY <2>5, <4>1, Slice
    <3> QED
      BY <2>3, <2>5, <3>1
  <2>8. held < 12
    OBVIOUS
  <2> HIDE DEF pending, text
  <2>9. ASSUME NEW c, c = PlainConnection(pending, text)
        PROVE  /\ c.mode = "Plain" /\ c.pending = pending /\ c.buffer = <<>> /\ c.text = text
               /\ c.items = <<>>
    BY <2>9 DEF PlainConnection
  <2>10. "Plain" # "Framed" /\ <<>> \in Seq(Bytes)
    OBVIOUS
  <2> QED
    BY <2>1, <2>6, <2>7, <2>8, <2>9, <2>10
<1>2. CASE Occurrences(Ack, r) # {}
  <2> DEFINE first == Min(Occurrences(Ack, r))
             before == SubSeq(r, 1, first - 1)
             items == <<HELLO_ACK>> \o Decode[AfterAck(r)].items
             left == Decode[AfterAck(r)].left
  <2>1. Push(Fresh, r) = FramedConnection(before, items, left)
    BY <1>2, FreshPush
  <2>2. left \in Seq(Bytes)
    <3>1. AfterAck(r) \in Seq(Bytes)
      BY <1>2, AfterAckTyped
    <3>2. Decode[AfterAck(r)] \in Result
      BY <3>1, DecodeTyped
    <3> QED
      BY <3>2 DEF Result
  <2>3. first \in Nat /\ 1 <= first /\ first + Len(Ack) <= Len(r) + 1
    BY <1>2, AfterAckTyped
  <2> HIDE DEF first
  <2>4. before \in Seq(Bytes)
    <3>1. Len(Ack) = 12 /\ Len(r) \in Nat
      BY AckTyped, Members
    <3>2. first - 1 \in Nat /\ 1 \in Nat /\ 1 <= 1 /\ 1 <= (first - 1) + 1 /\ first - 1 <= Len(r)
      BY <2>3, <3>1
    <3> QED
      BY <3>2, Slice
  <2> HIDE DEF before, items, left
  <2>5. ASSUME NEW c, c = FramedConnection(before, items, left)
        PROVE  c.mode = "Framed" /\ c.pending = <<>> /\ c.buffer = left /\ c.text = before
    BY <2>5 DEF FramedConnection
  <2>6. "Plain" # "Framed" /\ <<>> \in Seq(Bytes) /\ Len(<<>>) < 12
    OBVIOUS
  <2> QED
    BY <2>1, <2>2, <2>4, <2>5, <2>6
<1> QED
  BY <1>1, <1>2

(* The inductive invariant: the connection is what one push of everything  *)
(* read would have made of it.                                             *)
StreamInv ==
  /\ read \in Seq(Bytes) /\ wire \in Seq(Bytes)
  /\ segments \in 0..MaxSegments
  /\ connection = Push(Fresh, read)

LEMMA EmittedBytes ==
  ASSUME NEW bytes \in Seq(Bytes), StreamInv, Emit(bytes)
  PROVE  StreamInv'
<1>1. wire' \in Seq(Bytes)
  BY ConcatProperties DEF Emit, StreamInv
<1>2. segments' \in 0..MaxSegments
  BY StreamAssumption DEF Emit, StreamInv
<1> QED
  BY <1>1, <1>2 DEF Emit, StreamInv

LEMMA FrameEncoded ==
  ASSUME NEW frame \in FramesSent
  PROVE  Encode(frame) \in Seq(Bytes)
<1> DEFINE same == [kind |-> frame.kind, channel |-> frame.channel, payload |-> frame.payload]
<1>1. /\ frame.kind \in KINDS /\ frame.channel \in Bytes
      /\ frame.payload \in Seq(Bytes) /\ Len(frame.payload) <= 1024
  BY StreamAssumption DEF MAX_PAYLOAD
<1>2. frame.kind \in Bytes
  BY <1>1 DEF KINDS, Bytes
<1>3. Len(frame.payload) <= Longest
  BY <1>1, Members DEF Longest
<1>4. Encode(same) \in Seq(Bytes)
  BY <1>1, <1>2, <1>3, EncodeBytes
<1>5. same.kind = frame.kind /\ same.channel = frame.channel /\ same.payload = frame.payload
  OBVIOUS
<1> HIDE DEF same
<1>6. Encode(frame) = Encode(same)
  BY <1>5 DEF Encode
<1> QED
  BY <1>4, <1>6

LEMMA ReadKeeps ==
  ASSUME StreamInv, NEW n \in 0..Len(wire), Read(n)
  PROVE  StreamInv'
<1> DEFINE input == SubSeq(wire, 1, n)
<1>1. wire \in Seq(Bytes) /\ read \in Seq(Bytes)
  BY DEF StreamInv
<1>2. PICK k \in Nat : k = Len(wire)
  BY <1>1, Members
<1>3. n \in Nat /\ n <= k /\ n + 1 \in Nat /\ 1 <= n + 1 /\ n + 1 <= k + 1 /\ (n + 1) - 1 = n
  BY <1>2
<1>4. input \in Seq(Bytes) /\ SubSeq(wire, n + 1, Len(wire)) \in Seq(Bytes)
  <2>1. n + 1 <= Len(wire) + 1
    BY <1>2, <1>3
  <2>2. SubSeq(wire, 1, (n + 1) - 1) \in Seq(Bytes) /\ SubSeq(wire, n + 1, Len(wire)) \in Seq(Bytes)
    BY <1>1, <1>3, <2>1, SplitAt
  <2> QED
    BY <1>3, <2>2
<1>5. /\ connection' = Push(connection, input) /\ read' = read \o input
      /\ wire' = SubSeq(wire, n + 1, Len(wire)) /\ segments' = segments
  BY DEF Read
<1> HIDE DEF input
<1>6. read' \in Seq(Bytes)
  BY <1>1, <1>4, <1>5, ConcatProperties
<1>7. Push(Push(Fresh, read), input) = Push(Fresh, read \o input)
  BY <1>1, <1>4, PushGoesOn
<1>8. connection' = Push(Fresh, read')
  BY <1>5, <1>7 DEF StreamInv
<1> QED
  BY <1>4, <1>5, <1>6, <1>8 DEF StreamInv

LEMMA StreamKept == DecoderSpec => []StreamInv
<1>1. DecoderInit => StreamInv
  <2> SUFFICES ASSUME DecoderInit
               PROVE  StreamInv
    OBVIOUS
  <2>1. read \in Seq(Bytes) /\ wire \in Seq(Bytes)
    BY DEF DecoderInit
  <2>2. segments \in 0..MaxSegments
    BY StreamAssumption DEF DecoderInit
  <2>3. connection = Push(Fresh, read)
    BY FreshIsFixed DEF DecoderInit
  <2> QED
    BY <2>1, <2>2, <2>3 DEF StreamInv
<1>2. StreamInv /\ [DecoderNext]_decoderVars => StreamInv'
  <2> SUFFICES ASSUME StreamInv, [DecoderNext]_decoderVars
               PROVE  StreamInv'
    OBVIOUS
  <2>1. ASSUME NEW text \in PlainTexts, EmitText(text)
        PROVE  StreamInv'
    <3>1. text \in Seq(Bytes) /\ Emit(text)
      BY <2>1, StreamAssumption DEF EmitText
    <3> QED
      BY <3>1, EmittedBytes
  <2>2. CASE EmitAck
    <3>1. Ack \in Seq(Bytes) /\ Emit(Ack)
      BY <2>2, AckTyped DEF EmitAck
    <3> QED
      BY <3>1, EmittedBytes
  <2>3. ASSUME NEW frame \in FramesSent, EmitFrame(frame)
        PROVE  StreamInv'
    <3>1. Encode(frame) \in Seq(Bytes) /\ Emit(Encode(frame))
      BY <2>3, FrameEncoded DEF EmitFrame
    <3> QED
      BY <3>1, EmittedBytes
  <2>4. ASSUME NEW bytes \in Damages, EmitDamage(bytes)
        PROVE  StreamInv'
    <3>1. bytes \in Seq(Bytes) /\ Emit(bytes)
      BY <2>4, StreamAssumption DEF EmitDamage
    <3> QED
      BY <3>1, EmittedBytes
  <2>5. ASSUME NEW n \in 0..Len(wire), Read(n)
        PROVE  StreamInv'
    BY <2>5, ReadKeeps
  <2>6. CASE UNCHANGED decoderVars
    BY <2>6 DEF decoderVars, StreamInv
  <2> QED
    BY <2>1, <2>2, <2>3, <2>4, <2>5, <2>6 DEF DecoderNext
<1> QED
  BY <1>1, <1>2, PTL DEF DecoderSpec

(* However the bytes were cut up, the decoder is what one push of all of   *)
(* them would have made of it.                                             *)
THEOREM CutsMakeNoDifference == DecoderSpec => []Unfragmented
<1>1. StreamInv => Unfragmented
  BY DEF StreamInv, Unfragmented
<1> QED
  BY <1>1, StreamKept, PTL

(* A plain connection holds back less than an ACK and buffers no frame; a  *)
(* framed one holds back nothing.                                          *)
THEOREM DecoderTypeCorrect == DecoderSpec => []DecoderTypeOK
<1>1. StreamInv => DecoderTypeOK
  <2> SUFFICES ASSUME StreamInv
               PROVE  DecoderTypeOK
    OBVIOUS
  <2>1. /\ connection.mode \in {"Plain", "Framed"}
        /\ connection.pending \in Seq(Bytes) /\ connection.buffer \in Seq(Bytes)
        /\ connection.text \in Seq(Bytes)
        /\ Len(connection.pending) < 12
        /\ connection.mode = "Framed" => connection.pending = <<>>
        /\ connection.mode = "Plain" => connection.buffer = <<>> /\ connection.items = <<>>
    <3>1. read \in Seq(Bytes) /\ connection = Push(Fresh, read)
      BY DEF StreamInv
    <3> QED
      BY <3>1, PushTyped
  <2>2. wire \in Seq(Bytes) /\ segments \in 0..MaxSegments
    BY DEF StreamInv
  <2> QED
    BY <2>1, <2>2, AckTyped DEF DecoderTypeOK
<1> QED
  BY <1>1, StreamKept, PTL

(* What has been emitted is what was printed, and an ACK and more once the *)
(* target is framed.                                                       *)
TextInv ==
  /\ printed \in Seq(Bytes)
  /\ ~TargetFramed => read \o wire = printed
  /\ TargetFramed => \E rest \in Seq(Bytes) : read \o wire = printed \o (Ack \o rest)

LEMMA EmittedAfter ==
  ASSUME NEW bytes \in Seq(Bytes), StreamInv, Emit(bytes)
  PROVE  /\ read' \o wire' = (read \o wire) \o bytes
         /\ read \o wire \in Seq(Bytes)
<1>1. read \in Seq(Bytes) /\ wire \in Seq(Bytes)
  BY DEF StreamInv
<1>2. read' = read /\ wire' = wire \o bytes
  BY DEF Emit
<1>3. read \o (wire \o bytes) = (read \o wire) \o bytes
  BY <1>1, BytesRegroup
<1>4. read \o wire \in Seq(Bytes)
  BY <1>1, ConcatProperties
<1> QED
  BY <1>2, <1>3, <1>4

LEMMA EmittedMore ==
  ASSUME NEW bytes \in Seq(Bytes), NEW rest \in Seq(Bytes), StreamInv, Emit(bytes),
         printed \in Seq(Bytes), read \o wire = printed \o (Ack \o rest)
  PROVE  /\ rest \o bytes \in Seq(Bytes)
         /\ read' \o wire' = printed \o (Ack \o (rest \o bytes))
<1>1. read' \o wire' = (printed \o (Ack \o rest)) \o bytes
  BY EmittedAfter
<1>2. Ack \in Seq(Bytes)
  BY AckTyped
<1> DEFINE e == Ack \o rest
           more == rest \o bytes
<1>3. e \in Seq(Bytes) /\ more \in Seq(Bytes) /\ e \o bytes = Ack \o more
  <2>1. e \in Seq(Bytes) /\ more \in Seq(Bytes)
    BY <1>2, ConcatProperties
  <2>2. e \o bytes = Ack \o more
    BY <1>2, BytesRegroup
  <2> QED
    BY <2>1, <2>2
<1> HIDE DEF e, more
<1>4. (printed \o e) \o bytes = printed \o (e \o bytes)
  BY <1>3, BytesRegroup
<1>5. read' \o wire' = printed \o (Ack \o more)
  BY <1>1, <1>3, <1>4 DEF e
<1> QED
  BY <1>3, <1>5 DEF more

LEMMA EmittedAfterAck ==
  ASSUME NEW bytes \in Seq(Bytes), StreamInv, TextInv, TargetFramed, Emit(bytes),
         printed' = printed, TargetFramed'
  PROVE  TextInv'
<1>1. PICK rest \in Seq(Bytes) : read \o wire = printed \o (Ack \o rest)
  BY DEF TextInv
<1>2. printed \in Seq(Bytes)
  BY DEF TextInv
<1>3. /\ rest \o bytes \in Seq(Bytes)
      /\ read' \o wire' = printed' \o (Ack \o (rest \o bytes))
  BY <1>1, <1>2, EmittedMore
<1>4. \E r \in Seq(Bytes) : read' \o wire' = printed' \o (Ack \o r)
  BY <1>3
<1> QED
  BY <1>2, <1>4 DEF TextInv

LEMMA ReadTogether ==
  ASSUME StreamInv, NEW n \in 0..Len(wire), Read(n)
  PROVE  read' \o wire' = read \o wire
<1> DEFINE input == SubSeq(wire, 1, n)
           left == SubSeq(wire, n + 1, Len(wire))
<1>1. wire \in Seq(Bytes) /\ read \in Seq(Bytes)
  BY DEF StreamInv
<1>2. input \in Seq(Bytes) /\ left \in Seq(Bytes) /\ wire = input \o left
  <2>1. Len(wire) \in Nat
    BY <1>1, Members
  <2>2. n + 1 \in Nat /\ 1 <= n + 1 /\ n + 1 <= Len(wire) + 1 /\ (n + 1) - 1 = n
    BY <2>1
  <2>3. /\ SubSeq(wire, 1, (n + 1) - 1) \in Seq(Bytes)
        /\ SubSeq(wire, n + 1, Len(wire)) \in Seq(Bytes)
        /\ wire = SubSeq(wire, 1, (n + 1) - 1) \o SubSeq(wire, n + 1, Len(wire))
    BY <1>1, <2>2, SplitAt
  <2> QED
    BY <2>2, <2>3
<1>3. read' = read \o input /\ wire' = left
  BY DEF Read
<1> HIDE DEF input, left
<1>4. (read \o input) \o left = read \o (input \o left)
  BY <1>1, <1>2, BytesRegroup
<1> QED
  BY <1>2, <1>3, <1>4

LEMMA TextKept ==
  ASSUME StreamInv, TextInv, [DecoderNext]_decoderVars
  PROVE  TextInv'
<1>1. ASSUME NEW text \in PlainTexts, EmitText(text)
      PROVE  TextInv'
  <2>1. text \in Seq(Bytes) /\ Emit(text)
    BY <1>1, StreamAssumption DEF EmitText
  <2>2. read' \o wire' = (read \o wire) \o text
    BY <2>1, EmittedAfter
  <2>3. ~TargetFramed /\ ~TargetFramed' /\ printed' = printed \o text /\ printed \in Seq(Bytes)
    BY <1>1 DEF EmitText, TargetFramed, TextInv
  <2>4. printed' \in Seq(Bytes)
    BY <2>1, <2>3, ConcatProperties
  <2>5. read' \o wire' = printed'
    BY <2>2, <2>3 DEF TextInv
  <2> QED
    BY <2>3, <2>4, <2>5 DEF TextInv
<1>2. CASE EmitAck
  <2>1. Ack \in Seq(Bytes) /\ Emit(Ack)
    BY <1>2, AckTyped DEF EmitAck
  <2>2. read' \o wire' = (read \o wire) \o Ack
    BY <2>1, EmittedAfter
  <2>3. ~TargetFramed /\ printed' = printed /\ printed \in Seq(Bytes)
    BY <1>2 DEF EmitAck, TextInv
  <2>4. TargetFramed'
    BY <1>2 DEF EmitAck, TargetFramed
  <2> DEFINE none == <<>>
  <2>5. none \in Seq(Bytes) /\ Ack \o none = Ack
    BY <2>1, ConcatEmptySeq
  <2> HIDE DEF none
  <2>6. read' \o wire' = printed' \o (Ack \o none)
    BY <2>2, <2>3, <2>5 DEF TextInv
  <2>7. \E r \in Seq(Bytes) : read' \o wire' = printed' \o (Ack \o r)
    BY <2>5, <2>6
  <2> QED
    BY <2>3, <2>4, <2>7 DEF TextInv
<1>3. ASSUME NEW frame \in FramesSent, EmitFrame(frame)
      PROVE  TextInv'
  <2>1. Encode(frame) \in Seq(Bytes) /\ Emit(Encode(frame))
    BY <1>3, FrameEncoded DEF EmitFrame
  <2>2. TargetFramed /\ printed' = printed /\ framesSent' = Append(framesSent, frame)
    BY <1>3 DEF EmitFrame
  <2>3. TargetFramed'
    <3>1. framesSent' # <<>>
      BY <2>2
    <3> QED
      BY <3>1 DEF TargetFramed
  <2> QED
    BY <2>1, <2>2, <2>3, EmittedAfterAck
<1>4. ASSUME NEW bytes \in Damages, EmitDamage(bytes)
      PROVE  TextInv'
  <2>1. bytes \in Seq(Bytes) /\ Emit(bytes)
    BY <1>4, StreamAssumption DEF EmitDamage
  <2>2. TargetFramed /\ TargetFramed' /\ printed' = printed
    BY <1>4 DEF EmitDamage, TargetFramed
  <2> QED
    BY <2>1, <2>2, EmittedAfterAck
<1>5. ASSUME NEW n \in 0..Len(wire), Read(n)
      PROVE  TextInv'
  <2>1. read' \o wire' = read \o wire
    BY <1>5, ReadTogether
  <2>2. printed' = printed /\ framesSent' = framesSent
    BY <1>5 DEF Read
  <2> QED
    BY <2>1, <2>2 DEF TextInv, TargetFramed
<1>6. CASE UNCHANGED decoderVars
  BY <1>6 DEF decoderVars, TextInv, TargetFramed
<1> QED
  BY <1>1, <1>2, <1>3, <1>4, <1>5, <1>6 DEF DecoderNext

LEMMA TextFollows ==
  ASSUME StreamInv, TextInv, NoAckPrinted
  PROVE  TextBeforeAck
<1>1. /\ read \in Seq(Bytes) /\ wire \in Seq(Bytes) /\ printed \in Seq(Bytes)
      /\ connection = Push(Fresh, read) /\ Occurrences(Ack, printed) = {}
  BY DEF StreamInv, TextInv, NoAckPrinted
<1>2. CASE ~TargetFramed
  <2>1. read \o wire = printed
    BY <1>2 DEF TextInv
  <2>2. Occurrences(Ack, read \o wire) = {}
    BY <1>1, <2>1
  <2>3. /\ IsPrefix(Push(Fresh, read).text, read \o wire)
        /\ wire = <<>> => Push(Fresh, read).text \o Push(Fresh, read).pending = read \o wire
    BY <1>1, <2>2, TextWhilePlain
  <2> QED
    BY <1>1, <2>1, <2>3 DEF TextBeforeAck
<1>3. CASE TargetFramed
  <2>1. PICK rest \in Seq(Bytes) : read \o wire = printed \o (Ack \o rest)
    BY <1>3 DEF TextInv
  <2>2. /\ IsPrefix(Push(Fresh, read).text, printed)
        /\ wire = <<>> => Push(Fresh, read).text \o Push(Fresh, read).pending = printed
    BY <1>1, <2>1, TextBeforeFrames
  <2> QED
    BY <1>1, <2>2 DEF TextBeforeAck
<1> QED
  BY <1>2, <1>3

(* What a plain target prints is handed on as it printed it, whatever the  *)
(* turns cut it into, unless it prints an ACK itself.                      *)
THEOREM TextIsHandedOn == DecoderSpec /\ []NoAckPrinted => []TextBeforeAck
<1>1. DecoderInit => TextInv
  <2> SUFFICES ASSUME DecoderInit
               PROVE  TextInv
    OBVIOUS
  <2>1. printed = <<>> /\ read = <<>> /\ wire = <<>> /\ framesSent = <<>>
    BY DEF DecoderInit
  <2>2. <<>> \o <<>> = <<>> /\ <<>> \in Seq(Bytes)
    OBVIOUS
  <2> QED
    BY <2>1, <2>2 DEF TextInv, TargetFramed
<1>2. StreamInv /\ TextInv /\ [DecoderNext]_decoderVars => TextInv'
  BY TextKept
<1>3. StreamInv /\ TextInv /\ NoAckPrinted => TextBeforeAck
  BY TextFollows
<1> QED
  BY <1>1, <1>2, <1>3, StreamKept, PTL DEF DecoderSpec

-----------------------------------------------------------------------------
(* Whole frames.                                                           *)

Sendable == [kind : KINDS, channel : Bytes, payload : Seq(Bytes)]

LEMMA FrameIsItem ==
  ASSUME NEW frame \in Sendable
  PROVE  frame \in Item /\ frame # Error
<1>1. frame.kind \in KINDS /\ frame.channel \in Bytes /\ frame.payload \in Seq(Bytes)
  BY DEF Sendable
<1>2. frame.kind \in Bytes /\ frame.kind # 0
  BY <1>1 DEF KINDS, Bytes
<1>3. Error.kind = 0
  BY DEF Error
<1> QED
  BY <1>2, <1>3 DEF Sendable, Item

(* The length of a payload from its two bytes.                             *)
LEMMA LengthDecoded ==
  ASSUME NEW n \in Nat
  PROVE  (n % 256) + 256 * (n \div 256) = n
  BY SMT

LEMMA FiveBytes ==
  ASSUME NEW a \in Bytes, NEW b \in Bytes, NEW c \in Bytes, NEW d \in Bytes, NEW e \in Bytes
  PROVE  <<a, b, c, d, e>> \in Seq(Bytes) /\ Len(<<a, b, c, d, e>>) = 5
  OBVIOUS

Layout(e, frame, n) ==
  /\ e \in Seq(Bytes) /\ Len(e) = n + 8
  /\ e[1] = 165 /\ e[2] = 90 /\ e[3] = VERSION /\ e[4] = frame.kind
  /\ e[5] = frame.channel /\ e[6] = n % 256 /\ e[7] = n \div 256
  /\ e[n + 8] = Checksum(SubSeq(e, 3, n + 7))
  /\ SubSeq(e, 8, n + 7) = frame.payload

(* What an encoded frame has at each place.                                *)
LEMMA EncodedBytes ==
  ASSUME NEW frame \in Sendable, NEW n \in Nat, n = Len(frame.payload), n <= MAX_PAYLOAD
  PROVE  Layout(Encode(frame), frame, n)
<1> DEFINE e == Encode(frame)
<1>0. frame.kind \in Bytes /\ frame.channel \in Bytes /\ frame.payload \in Seq(Bytes)
  BY DEF Sendable, KINDS, Bytes
<1>1. PICK kind \in Bytes, channel \in Bytes, payload \in Seq(Bytes) :
        kind = frame.kind /\ channel = frame.channel /\ payload = frame.payload
  BY <1>0
<1>2. PICK low \in Bytes, high \in Bytes : low = n % 256 /\ high = n \div 256
  <2>1. n <= Longest
    BY DEF MAX_PAYLOAD, Longest
  <2> QED
    BY <2>1, LengthBytes
<1> DEFINE header == <<VERSION, kind, channel, low, high>>
           body == header \o payload
           sum == <<Checksum(body)>>
<1>3. VERSION \in Bytes
  BY DEF Bytes, VERSION
<1>4. header \in Seq(Bytes) /\ Len(header) = 5
  BY <1>3, FiveBytes
<1>5. /\ header[1] = VERSION /\ header[2] = kind /\ header[3] = channel
      /\ header[4] = low /\ header[5] = high
  OBVIOUS
<1> HIDE DEF header
<1>6. /\ body \in Seq(Bytes) /\ Len(body) = n + 5
      /\ \A i \in 1..5 : body[i] = header[i]
  <2>1. header \in Seq(Bytes) /\ payload \in Seq(Bytes)
    BY <1>4
  <2>2. /\ header \o payload \in Seq(Bytes)
        /\ Len(header \o payload) = Len(header) + Len(payload)
        /\ \A i \in 1..Len(header) : (header \o payload)[i] = header[i]
    BY <2>1, Joined
  <2>3. Len(header) + Len(payload) = n + 5
    BY <1>1, <1>4
  <2> QED
    BY <1>4, <2>2, <2>3
<1>7. Checksum(body) \in Bytes
  BY <1>6, ChecksumByte DEF Bytes
<1>8. sum \in Seq(Bytes) /\ Len(sum) = 1 /\ sum[1] = Checksum(body)
  BY <1>7
<1>9. e = (SYNC \o body) \o sum
  BY <1>1, <1>2 DEF Encode, header
<1>10. Len(header) + 1 = 6 /\ SubSeq(body, Len(header) + 1, Len(body)) = payload
  <2>1. SubSeq(header \o payload, Len(header) + 1, Len(header \o payload))
          = SubSeq(payload, 1, Len(payload))
    <3>1. header \in Seq(Bytes) /\ payload \in Seq(Bytes) /\ 1 \in Nat /\ 1 <= 1
          /\ 1 <= Len(payload) + 1
      BY <1>1, <1>4
    <3> QED
      BY <3>1, EndOfJoined
  <2>2. SubSeq(payload, 1, Len(payload)) = payload
    BY <1>1, SubSeqFull
  <2> QED
    BY <1>4, <2>1, <2>2
<1> HIDE DEF body, sum, e
<1> DEFINE front == SYNC \o body
<1>11. /\ front \in Seq(Bytes) /\ Len(front) = Len(SYNC) + Len(body)
       /\ \A i \in 1..Len(SYNC) : front[i] = SYNC[i]
       /\ \A i \in 1..Len(body) : front[Len(SYNC) + i] = body[i]
  <2>1. SYNC \in Seq(Bytes) /\ body \in Seq(Bytes)
    BY <1>6, SyncTyped
  <2> QED
    BY <2>1, Joined
<1> HIDE DEF front
<1>12. /\ front \in Seq(Bytes) /\ Len(front) = n + 7 /\ e = front \o sum
       /\ front[1] = 165 /\ front[2] = 90
       /\ \A i \in 1..(n + 5) : front[2 + i] = body[i]
  <2>1. Len(front) = n + 7 /\ \A i \in 1..(n + 5) : front[2 + i] = body[i]
    BY <1>6, <1>11, SyncLength
  <2>2. 1 \in 1..Len(SYNC) /\ 2 \in 1..Len(SYNC) /\ SYNC[1] = 165 /\ SYNC[2] = 90
    BY SyncLength DEF SYNC
  <2>3. front[1] = 165 /\ front[2] = 90
    BY <1>11, <2>2
  <2> QED
    BY <1>9, <1>11, <2>1, <2>3 DEF front
<1>13. /\ e \in Seq(Bytes) /\ Len(e) = n + 8
       /\ \A i \in 1..(n + 7) : e[i] = front[i]
       /\ e[n + 8] = Checksum(body)
  <2>1. front \in Seq(Bytes) /\ sum \in Seq(Bytes)
    BY <1>8, <1>12
  <2>2. /\ front \o sum \in Seq(Bytes)
        /\ Len(front \o sum) = Len(front) + Len(sum)
        /\ \A i \in 1..Len(front) : (front \o sum)[i] = front[i]
        /\ \A i \in 1..Len(sum) : (front \o sum)[Len(front) + i] = sum[i]
    BY <2>1, Joined
  <2>3. 1 \in 1..Len(sum) /\ (n + 7) + 1 = n + 8
    BY <1>8
  <2>4. (front \o sum)[(n + 7) + 1] = sum[1]
    BY <1>12, <2>2, <2>3
  <2> QED
    BY <1>8, <1>12, <2>2, <2>3, <2>4
<1>14. SubSeq(e, 3, n + 7) = body
  <2>1. SubSeq(front \o sum, 3, n + 7) = SubSeq(front, 3, n + 7)
    BY <1>8, <1>12, SliceOfJoined
  <2>2. SubSeq(front, Len(SYNC) + 1, Len(front)) = SubSeq(body, 1, Len(body))
    <3>1. 1 <= 1 /\ 1 <= Len(body) + 1 /\ 1 \in Nat
      BY <1>6
    <3> QED
      BY <1>6, <3>1, SyncTyped, EndOfJoined DEF front
  <2>3. SubSeq(body, 1, Len(body)) = body
    BY <1>6, SubSeqFull
  <2>4. Len(SYNC) + 1 = 3
    BY SyncLength
  <2> QED
    BY <1>12, <2>1, <2>2, <2>3, <2>4
<1>15. SubSeq(e, 8, n + 7) = payload
  <2>1. SubSeq(front \o sum, 8, n + 7) = SubSeq(front, 8, n + 7)
    BY <1>8, <1>12, SliceOfJoined
  <2>2. SubSeq(front, Len(SYNC) + 6, Len(front)) = SubSeq(body, 6, Len(body))
    <3>1. 1 <= 6 /\ 6 <= Len(body) + 1 /\ 6 \in Nat
      BY <1>6
    <3> QED
      BY <1>6, <3>1, SyncTyped, EndOfJoined DEF front
  <2>3. SubSeq(body, 6, Len(body)) = payload
    BY <1>10
  <2>4. Len(SYNC) + 6 = 8
    BY SyncLength
  <2> QED
    BY <1>12, <2>1, <2>2, <2>3, <2>4
<1>16. ASSUME NEW i \in 1..5
       PROVE  e[i + 2] = header[i]
  <2>1. i + 2 \in 1..(n + 7) /\ i \in 1..(n + 5) /\ i + 2 = 2 + i
    OBVIOUS
  <2>2. e[i + 2] = front[i + 2]
    BY <1>13, <2>1
  <2>3. front[i + 2] = body[i]
    BY <1>12, <2>1
  <2>4. body[i] = header[i]
    BY <1>6
  <2> QED
    BY <2>2, <2>3, <2>4
<1>17. /\ e[1 + 2] = header[1] /\ e[2 + 2] = header[2] /\ e[3 + 2] = header[3]
       /\ e[4 + 2] = header[4] /\ e[5 + 2] = header[5]
  BY <1>16
<1>18. e[1] = 165 /\ e[2] = 90
  <2>1. 1 \in 1..(n + 7) /\ 2 \in 1..(n + 7)
    OBVIOUS
  <2> QED
    BY <1>12, <1>13, <2>1
<1>19. 1 + 2 = 3 /\ 2 + 2 = 4 /\ 3 + 2 = 5 /\ 4 + 2 = 6 /\ 5 + 2 = 7
  OBVIOUS
<1>20. /\ e[3] = VERSION /\ e[4] = frame.kind /\ e[5] = frame.channel
       /\ e[6] = n % 256 /\ e[7] = n \div 256
  BY <1>1, <1>2, <1>5, <1>17, <1>19, ZenonT(60)
<1> QED
  BY <1>1, <1>13, <1>14, <1>15, <1>18, <1>20 DEF e, Layout

LEMMA NothingDecodes == Decode[<<>>] = [items |-> <<>>, left |-> <<>>]
<1> DEFINE none == <<>>
<1>1. none \in Seq(Bytes) /\ Len(none) = 0
  OBVIOUS
<1>2. Occurrences(SYNC, none) = {}
  BY SyncLength DEF Occurrences
<1>3. Decode[none] = [items |-> <<>>, left |-> KeptTail(none)]
  <2> HIDE DEF none
  <2> QED
    BY <1>1, <1>2, DecodeUnfolds
<1>4. KeptTail(none) = <<>>
  BY DEF KeptTail
<1> QED
  BY <1>3, <1>4

(* A frame sent whole, whatever it holds, is handed on as it was sent, and *)
(* nothing is left of it.                                                  *)
LEMMA FrameDecodes ==
  ASSUME NEW frame \in Sendable, Len(frame.payload) <= MAX_PAYLOAD
  PROVE  Decode[Encode(frame)] = [items |-> <<frame>>, left |-> <<>>]
<1>1. PICK n \in Nat : n = Len(frame.payload) /\ n <= MAX_PAYLOAD
  BY Members DEF Sendable
<1> DEFINE e == Encode(frame)
<1>3. /\ e \in Seq(Bytes) /\ Len(e) = n + 8
      /\ e[1] = 165 /\ e[2] = 90 /\ e[3] = VERSION /\ e[4] = frame.kind
      /\ e[5] = frame.channel /\ e[6] = n % 256 /\ e[7] = n \div 256
      /\ e[n + 8] = Checksum(SubSeq(e, 3, n + 7))
      /\ SubSeq(e, 8, n + 7) = frame.payload
  <2>1. Layout(Encode(frame), frame, n)
    BY <1>1, EncodedBytes
  <2> QED
    BY <2>1 DEF Layout
<1> HIDE DEF e
<1>4. Occurrences(SYNC, e) # {} /\ Synced(e) = e
  <2>1. 1 \in Nat /\ 1 <= 1 /\ 1 + 1 <= Len(e) /\ 1 + 1 = 2
    BY <1>3
  <2>2. 1 \in Occurrences(SYNC, e)
    BY <1>3, <2>1, SyncsAt, ZenonT(60)
  <2>3. Min(Occurrences(SYNC, e)) \in Occurrences(SYNC, e) /\ Min(Occurrences(SYNC, e)) <= 1
    BY <2>2, OccurrencesAreNumbers, LowestMember
  <2>4. PICK m \in Nat : m = Min(Occurrences(SYNC, e))
    BY <2>3, OccurrencesAreNumbers
  <2>5. 1 <= m
    BY <1>3, <2>3, <2>4, SyncsAt
  <2>6. Min(Occurrences(SYNC, e)) = 1
    BY <2>3, <2>4, <2>5
  <2>7. SubSeq(e, 1, Len(e)) = e
    BY <1>3, SubSeqFull
  <2> QED
    BY <2>2, <2>6, <2>7 DEF Synced
<1>5. Claimed(e) = n
  BY <1>3, LengthDecoded DEF Claimed
<1>6. /\ ~BadHeader(e) /\ Decidable(e)
  BY <1>1, <1>3, <1>5 DEF BadHeader, Decidable, MAX_PAYLOAD
<1>7. 8 + n = n + 8 /\ 7 + n = n + 7 /\ 9 + n = n + 9
  BY <1>1
<1>8. ~BadChecksum(e)
  BY <1>3, <1>5, <1>7 DEF BadChecksum
<1>9. /\ frame.kind \in KINDS
      /\ frame = [kind |-> frame.kind, channel |-> frame.channel, payload |-> frame.payload]
  BY DEF Sendable
<1>10. Verdict(e) = frame
  <2>1. Verdict(e) = [kind |-> e[4], channel |-> e[5], payload |-> SubSeq(e, 8, 7 + Claimed(e))]
    BY <1>3, <1>6, <1>8, <1>9 DEF Verdict
  <2>2. SubSeq(e, 8, 7 + Claimed(e)) = frame.payload
    BY <1>3, <1>5, <1>7
  <2> QED
    BY <1>3, <1>9, <2>1, <2>2
<1>11. Skipped(e) = <<>>
  <2>1. Skipped(e) = SubSeq(e, n + 9, n + 8)
    BY <1>3, <1>5, <1>6, <1>7, <1>8 DEF Skipped
  <2>2. n + 9 \in Nat /\ n + 8 \in Nat /\ 1 <= n + 9 /\ n + 9 <= (n + 8) + 1 /\ n + 8 <= Len(e)
        /\ (n + 8) + 1 - (n + 9) = 0
    BY <1>3
  <2>3. SubSeq(e, n + 9, n + 8) \in Seq(Bytes) /\ Len(SubSeq(e, n + 9, n + 8)) = 0
    BY <1>3, <2>2, Slice
  <2> QED
    BY <2>1, <2>3, EmptySeq
<1>12. Decode[e] = [items |-> <<frame>> \o Decode[<<>>].items, left |-> Decode[<<>>].left]
  <2>1. Occurrences(SYNC, e) # {} /\ Decidable(Synced(e)) /\ e \in Seq(Bytes)
    BY <1>3, <1>4, <1>6
  <2>2. Decode[e] = [items |-> <<Verdict(Synced(e))>> \o Decode[Skipped(Synced(e))].items,
                     left  |-> Decode[Skipped(Synced(e))].left]
    BY <2>1, DecodeUnfolds
  <2>3. Verdict(Synced(e)) = frame /\ Skipped(Synced(e)) = <<>>
    BY <1>4, <1>10, <1>11
  <2> QED
    BY <2>2, <2>3
<1>13. <<frame>> \o <<>> = <<frame>>
  OBVIOUS
<1> QED
  BY <1>12, <1>13, NothingDecodes DEF e

-----------------------------------------------------------------------------
(* The items that are frames.                                              *)

Kept(items) == [i \in DOMAIN items |-> IF items[i] = Error THEN <<>> ELSE <<items[i]>>]

LEMMA WholeIsKept ==
  ASSUME NEW items
  PROVE  Whole(items) = FlattenSeq(Kept(items))
  BY DEF Whole, Kept

LEMMA KeptItems ==
  ASSUME NEW items \in Seq(Item)
  PROVE  /\ Kept(items) \in Seq(Seq(Item)) /\ Len(Kept(items)) = Len(items)
         /\ \A i \in 1..Len(items) : Kept(items)[i] = IF items[i] = Error THEN <<>> ELSE <<items[i]>>
<1>1. PICK n \in Nat : n = Len(items) /\ DOMAIN items = 1..n
  BY Members
<1>2. Kept(items) = [i \in 1..n |-> IF items[i] = Error THEN <<>> ELSE <<items[i]>>]
  BY <1>1 DEF Kept
<1>3. ASSUME NEW i \in 1..n
      PROVE  (IF items[i] = Error THEN <<>> ELSE <<items[i]>>) \in Seq(Item)
  <2>1. items[i] \in Item
    BY <1>1, Members
  <2> HIDE DEF Item
  <2>2. <<>> \in Seq(Item) /\ <<items[i]>> \in Seq(Item)
    BY <2>1
  <2> QED
    BY <2>2
<1>4. Kept(items) \in [1..n -> Seq(Item)]
  BY <1>2, <1>3
<1>5. Kept(items) \in Seq(Seq(Item))
  BY <1>4, FunctionIsSequence
<1>6. Len(Kept(items)) = n
  <2>1. DOMAIN Kept(items) = 1..n
    BY <1>2
  <2> QED
    BY <1>1, <1>5, <2>1
<1> QED
  BY <1>1, <1>2, <1>5, <1>6

LEMMA WholeTyped ==
  ASSUME NEW items \in Seq(Item)
  PROVE  Whole(items) \in Seq(Item)
  BY KeptItems, FlattenTyped, WholeIsKept

LEMMA WholeConcat ==
  ASSUME NEW a \in Seq(Item), NEW b \in Seq(Item)
  PROVE  Whole(a \o b) = Whole(a) \o Whole(b)
<1>1. PICK m \in Nat, n \in Nat : m = Len(a) /\ n = Len(b)
  BY Members
<1> DEFINE c == a \o b
           k == Kept(a) \o Kept(b)
<1>2. /\ c \in Seq(Item) /\ Len(c) = m + n
      /\ \A i \in 1..m : c[i] = a[i]
      /\ \A i \in 1..n : c[m + i] = b[i]
  BY <1>1, Joined
<1>3. /\ Kept(a) \in Seq(Seq(Item)) /\ Len(Kept(a)) = m
      /\ Kept(b) \in Seq(Seq(Item)) /\ Len(Kept(b)) = n
      /\ Kept(c) \in Seq(Seq(Item)) /\ Len(Kept(c)) = m + n
  BY <1>1, <1>2, KeptItems
<1>4. /\ k \in Seq(Seq(Item)) /\ Len(k) = m + n
      /\ \A i \in 1..m : k[i] = Kept(a)[i]
      /\ \A i \in 1..n : k[m + i] = Kept(b)[i]
  <2>1. PICK p \in Seq(Seq(Item)), q \in Seq(Seq(Item)) : p = Kept(a) /\ q = Kept(b)
    BY <1>3
  <2>2. /\ p \o q \in Seq(Seq(Item)) /\ Len(p \o q) = Len(p) + Len(q)
        /\ \A i \in 1..Len(p) : (p \o q)[i] = p[i]
        /\ \A i \in 1..Len(q) : (p \o q)[Len(p) + i] = q[i]
    BY Joined
  <2>3. k = p \o q /\ Len(p) = m /\ Len(q) = n
    BY <1>3, <2>1
  <2> HIDE DEF c, k
  <2> QED
    BY <2>1, <2>2, <2>3
<1> HIDE DEF c, k
<1>5. ASSUME NEW i \in 1..(m + n)
      PROVE  Kept(c)[i] = k[i]
  <2>1. Kept(c)[i] = IF c[i] = Error THEN <<>> ELSE <<c[i]>>
    BY <1>2, KeptItems
  <2>2. CASE i \in 1..m
    <3>1. Kept(a)[i] = IF a[i] = Error THEN <<>> ELSE <<a[i]>>
      BY <1>1, <2>2, KeptItems
    <3>2. c[i] = a[i] /\ k[i] = Kept(a)[i]
      BY <1>2, <1>4, <2>2
    <3> QED
      BY <2>1, <3>1, <3>2
  <2>3. CASE i \notin 1..m
    <3>1. PICK j \in 1..n : i = m + j
      <4>1. i - m \in 1..n /\ i = m + (i - m)
        BY <2>3
      <4> QED
        BY <4>1
    <3>2. Kept(b)[j] = IF b[j] = Error THEN <<>> ELSE <<b[j]>>
      BY <1>1, KeptItems
    <3>3. c[i] = b[j] /\ k[i] = Kept(b)[j]
      BY <1>2, <1>4, <3>1
    <3> QED
      BY <2>1, <3>2, <3>3
  <2> QED
    BY <2>2, <2>3
<1>6. Kept(c) = k
  BY <1>3, <1>4, <1>5, Extensional
<1>7. FlattenSeq(k) = FlattenSeq(Kept(a)) \o FlattenSeq(Kept(b))
  BY <1>3, FlattenConcat DEF k
<1> QED
  BY <1>6, <1>7, WholeIsKept DEF c

LEMMA WholeOfOne ==
  ASSUME NEW item \in Item, item # Error
  PROVE  Whole(<<item>>) = <<item>>
<1> DEFINE none == <<>>
           one == <<item>>
<1>1. none \in Seq(Seq(Item)) /\ one \in Seq(Item)
  OBVIOUS
<1>2. FlattenSeq(Append(none, one)) = FlattenSeq(none) \o one
  <2> HIDE DEF none, one
  <2> QED
    BY <1>1, FlattenAppend
<1>3. Kept(one) = Append(none, one)
  BY DEF Kept
<1>4. <<>> \o one = one
  OBVIOUS
<1> QED
  BY <1>2, <1>3, <1>4, FlattenEmpty, WholeIsKept

LEMMA WholeOfNone == Whole(<<>>) = <<>>
  BY FlattenEmpty DEF Whole

(* No frame is among errors alone.                                         *)
LEMMA WholeOfErrors ==
  ASSUME NEW items \in Seq(Item), \A i \in DOMAIN items : items[i] = Error
  PROVE  Whole(items) = <<>>
<1>1. PICK n \in Nat : n = Len(items) /\ DOMAIN items = 1..n
  BY Members
<1> DEFINE none == <<>>
           f == [k \in 0..n |-> none]
<1>2. f \in [0..n -> Seq(Item)]
  <2>1. none \in Seq(Item)
    OBVIOUS
  <2> QED
    BY <2>1
<1>3. Kept(items) \in Seq(Seq(Item)) /\ Len(Kept(items)) = n
  BY <1>1, KeptItems
<1>4. ASSUME NEW k \in 1..n
      PROVE  f[k] = f[k - 1] \o Kept(items)[k]
  <2>1. k \in 0..n /\ k - 1 \in 0..n
    OBVIOUS
  <2>2. Kept(items)[k] = none
    BY <1>1, KeptItems
  <2>3. none \o none = none
    OBVIOUS
  <2> QED
    BY <2>1, <2>2, <2>3
<1>5. f[0] = <<>>
  BY <1>1
<1>6. Joins(f, Kept(items))
  <2> HIDE DEF f
  <2> QED
    BY <1>3, <1>4, <1>5 DEF Joins
<1>7. f[n] = <<>>
  BY <1>1
<1> HIDE DEF f
<1>8. FlattenSeq(Kept(items)) = f[Len(Kept(items))]
  BY <1>2, <1>3, <1>6, FlattenJoins
<1> QED
  BY <1>3, <1>7, <1>8, WholeIsKept

-----------------------------------------------------------------------------
(* Frames on a line where damage is seen for what it is.                   *)

(* What damage leaves of a frame is judged without what comes after it:    *)
(* nothing of it waits, and nothing in it passes for a frame.  A frame cut *)
(* short is not so, for what follows may complete it.                      *)
SelfContained ==
  \A bytes \in Damages :
    /\ Decode[bytes].left = <<>>
    /\ \A i \in DOMAIN Decode[bytes].items : Decode[bytes].items[i] = Error

(* What was emitted since the ACK decodes to the frames sent whole, and    *)
(* nothing is left of it.                                                  *)
SentAs(bytes) ==
  /\ read \o wire = printed \o (Ack \o bytes)
  /\ Decode[bytes].left = <<>>
  /\ framesSent = <<HELLO_ACK>> \o Whole(Decode[bytes].items)

FrameInv == TargetFramed => \E bytes \in Seq(Bytes) : SentAs(bytes)

LEMMA DecodedItems ==
  ASSUME NEW bytes \in Seq(Bytes)
  PROVE  Decode[bytes].items \in Seq(Item) /\ Decode[bytes].left \in Seq(Bytes)
  BY DecodeTyped DEF Result

(* More is emitted that the decoder is done with.                          *)
LEMMA EmittedWhole ==
  ASSUME NEW bytes \in Seq(Bytes), NEW frames \in Seq(Item),
         StreamInv, TextInv, FrameInv, TargetFramed, Emit(bytes), printed' = printed,
         Decode[bytes].left = <<>>, Whole(Decode[bytes].items) = frames,
         framesSent' = framesSent \o frames
  PROVE  FrameInv'
<1>1. PICK sent \in Seq(Bytes) : SentAs(sent)
  BY DEF FrameInv
<1> DEFINE more == sent \o bytes
<1>2. more \in Seq(Bytes) /\ read' \o wire' = printed \o (Ack \o more)
  BY <1>1, EmittedMore DEF TextInv, SentAs
<1>3. Decode[more].items = Decode[sent].items \o Decode[bytes].items /\ Decode[more].left = <<>>
  <2>1. GoesOn(sent, bytes)
    BY DecodeGoesOn
  <2>2. <<>> \o bytes = bytes
    BY ConcatEmptySeq
  <2>3. Decode[sent].left = <<>>
    BY <1>1 DEF SentAs
  <2> QED
    BY <2>1, <2>2, <2>3 DEF GoesOn
<1>4. PICK before \in Seq(Item), after \in Seq(Item) :
        before = Decode[sent].items /\ after = Decode[bytes].items
  BY DecodedItems
<1>5. Whole(before \o after) = Whole(before) \o Whole(after)
  BY WholeConcat
<1>6. PICK ack \in Seq(Item), whole \in Seq(Item) : ack = <<HELLO_ACK>> /\ whole = Whole(before)
  <2>1. <<HELLO_ACK>> \in Seq(Item)
    BY AckIsItem
  <2> QED
    BY <2>1, WholeTyped
<1>7. (ack \o whole) \o frames = ack \o (whole \o frames)
  BY ItemsRegroup, ZenonT(60)
<1>8. framesSent = ack \o whole
  BY <1>1, <1>4, <1>6 DEF SentAs
<1>9. framesSent' = ack \o (whole \o frames)
  BY <1>7, <1>8
<1>10. Whole(Decode[more].items) = whole \o frames
  BY <1>3, <1>4, <1>5, <1>6
<1> HIDE DEF more
<1>11. SentAs(more)'
  BY <1>2, <1>3, <1>6, <1>9, <1>10 DEF SentAs
<1> QED
  BY <1>2, <1>11 DEF FrameInv

LEMMA FrameKept ==
  ASSUME SelfContained, StreamInv, TextInv, FrameInv, [DecoderNext]_decoderVars
  PROVE  FrameInv'
<1>1. ASSUME NEW text \in PlainTexts, EmitText(text)
      PROVE  FrameInv'
  BY <1>1 DEF EmitText, TargetFramed, FrameInv
<1>2. CASE EmitAck
  <2>1. Ack \in Seq(Bytes) /\ Emit(Ack) /\ ~TargetFramed /\ printed' = printed
    BY <1>2, AckTyped DEF EmitAck
  <2>2. read' \o wire' = (read \o wire) \o Ack
    BY <2>1, EmittedAfter
  <2> DEFINE none == <<>>
  <2>3. none \in Seq(Bytes) /\ Ack \o none = Ack
    BY <2>1, ConcatEmptySeq
  <2>4. Decode[none].left = <<>> /\ Whole(Decode[none].items) = <<>>
    BY NothingDecodes, WholeOfNone
  <2>5. framesSent' = <<HELLO_ACK>> \o <<>>
    <3>1. <<HELLO_ACK>> \o <<>> = <<HELLO_ACK>>
      OBVIOUS
    <3> QED
      BY <1>2, <3>1 DEF EmitAck
  <2> HIDE DEF none
  <2>6. read' \o wire' = printed' \o (Ack \o none)
    BY <2>1, <2>2, <2>3 DEF TextInv
  <2>7. SentAs(none)'
    BY <2>4, <2>5, <2>6 DEF SentAs
  <2> QED
    BY <2>3, <2>7 DEF FrameInv
<1>3. ASSUME NEW frame \in FramesSent, EmitFrame(frame)
      PROVE  FrameInv'
  <2>1. frame \in Sendable /\ Len(frame.payload) <= MAX_PAYLOAD
    BY StreamAssumption DEF Sendable
  <2>2. Encode(frame) \in Seq(Bytes) /\ Emit(Encode(frame))
    BY <1>3, FrameEncoded DEF EmitFrame
  <2>3. TargetFramed /\ printed' = printed /\ framesSent' = Append(framesSent, frame)
    BY <1>3 DEF EmitFrame
  <2>4. Decode[Encode(frame)].left = <<>> /\ Decode[Encode(frame)].items = <<frame>>
    <3>1. Decode[Encode(frame)] = [items |-> <<frame>>, left |-> <<>>]
      BY <2>1, FrameDecodes
    <3> QED
      BY <3>1
  <2>5. frame \in Item /\ frame # Error /\ Whole(<<frame>>) = <<frame>>
    BY <2>1, FrameIsItem, WholeOfOne
  <2>6. <<frame>> \in Seq(Item)
    BY <2>5
  <2>7. framesSent' = framesSent \o <<frame>>
    <3>1. PICK sent \in Seq(Bytes) : SentAs(sent)
      BY <2>3 DEF FrameInv
    <3>2. <<HELLO_ACK>> \in Seq(Item) /\ Whole(Decode[sent].items) \in Seq(Item)
      BY AckIsItem, DecodedItems, WholeTyped
    <3>3. framesSent \in Seq(Item)
      BY <3>1, <3>2, ConcatProperties DEF SentAs
    <3>4. Append(framesSent, frame) = framesSent \o <<frame>>
      BY <2>5, <3>3, AppendIsConcat
    <3> QED
      BY <2>3, <3>4
  <2> QED
    BY <2>2, <2>3, <2>4, <2>5, <2>6, <2>7, EmittedWhole
<1>4. ASSUME NEW bytes \in Damages, EmitDamage(bytes)
      PROVE  FrameInv'
  <2>1. bytes \in Seq(Bytes) /\ Emit(bytes) /\ TargetFramed /\ printed' = printed
        /\ framesSent' = framesSent
    BY <1>4, StreamAssumption DEF EmitDamage
  <2>2. Decode[bytes].left = <<>> /\ Whole(Decode[bytes].items) = <<>>
    BY <2>1, DecodedItems, WholeOfErrors DEF SelfContained
  <2>3. framesSent \o <<>> = framesSent
    <3>1. PICK sent \in Seq(Bytes) : SentAs(sent)
      BY <2>1 DEF FrameInv
    <3>2. <<HELLO_ACK>> \in Seq(Item) /\ Whole(Decode[sent].items) \in Seq(Item)
      BY AckIsItem, DecodedItems, WholeTyped
    <3>3. framesSent \in Seq(Item)
      BY <3>1, <3>2, ConcatProperties DEF SentAs
    <3> QED
      BY <3>3, ConcatEmptySeq
  <2> DEFINE none == <<>>
  <2>4. none \in Seq(Item) /\ Whole(Decode[bytes].items) = none /\ framesSent' = framesSent \o none
    BY <2>1, <2>2, <2>3
  <2> HIDE DEF none
  <2> QED
    BY <2>1, <2>2, <2>4, EmittedWhole
<1>5. ASSUME NEW n \in 0..Len(wire), Read(n)
      PROVE  FrameInv'
  <2>1. read' \o wire' = read \o wire
    BY <1>5, ReadTogether
  <2>2. printed' = printed /\ framesSent' = framesSent
    BY <1>5 DEF Read
  <2> QED
    BY <2>1, <2>2 DEF FrameInv, SentAs, TargetFramed
<1>6. CASE UNCHANGED decoderVars
  BY <1>6 DEF decoderVars, FrameInv, SentAs, TargetFramed
<1> QED
  BY <1>1, <1>2, <1>3, <1>4, <1>5, <1>6 DEF DecoderNext

(* The frames handed on of a beginning are the first of those of it all.   *)
LEMMA WholeSoFar ==
  ASSUME NEW r \in Seq(Bytes), NEW y \in Seq(Bytes), Occurrences(Ack, r) # {}
  PROVE  IsPrefix(Whole(Push(Fresh, r).items), Whole(Push(Fresh, r \o y).items))
<1> DEFINE first == Min(Occurrences(Ack, r))
           before == SubSeq(r, 1, first - 1)
           decoded == Decode[AfterAck(r)]
           items == <<HELLO_ACK>> \o decoded.items
           left == decoded.left
           later == Decode[left \o y]
<1>1. Push(Fresh, r) = FramedConnection(before, items, left)
  BY FreshPush
<1>2. before \in Seq(Bytes) /\ items \in Seq(Item) /\ left \in Seq(Bytes)
  <2>1. AfterAck(r) \in Seq(Bytes) /\ first \in Nat /\ 1 <= first /\ first + Len(Ack) <= Len(r) + 1
    BY AfterAckTyped
  <2>2. decoded.items \in Seq(Item) /\ left \in Seq(Bytes)
    BY <2>1, DecodedItems
  <2>3. items \in Seq(Item)
    <3>1. <<HELLO_ACK>> \in Seq(Item)
      BY AckIsItem
    <3> HIDE DEF decoded
    <3> QED
      BY <2>2, <3>1, ConcatProperties
  <2>4. first <= Len(r) + 1
    <3>1. Len(Ack) = 12 /\ Len(r) \in Nat
      BY AckTyped, Members
    <3> HIDE DEF first
    <3> QED
      BY <2>1, <3>1
  <2>5. before \in Seq(Bytes)
    <3> HIDE DEF first
    <3> QED
      BY <2>1, <2>4, SplitAt
  <2> QED
    BY <2>2, <2>3, <2>5
<1> HIDE DEF before, items, left
<1>3. left \o y \in Seq(Bytes)
  BY <1>2, ConcatProperties
<1>4. later.items \in Seq(Item)
  BY <1>3, DecodedItems
<1>5. Push(FramedConnection(before, items, left), y) =
        FramedConnection(before, items \o later.items, later.left)
  BY <1>2, FramedPush
<1>6. Push(Fresh, r \o y) = FramedConnection(before, items \o later.items, later.left)
  BY <1>1, <1>5, PushGoesOn
<1> HIDE DEF later
<1>7. Push(Fresh, r).items = items /\ Push(Fresh, r \o y).items = items \o later.items
  BY <1>1, <1>6 DEF FramedConnection
<1>8. Whole(items \o later.items) = Whole(items) \o Whole(later.items)
  BY <1>2, <1>4, WholeConcat
<1>9. Whole(items) \in Seq(Item) /\ Whole(later.items) \in Seq(Item)
  BY <1>2, <1>4, WholeTyped
<1>10. IsPrefix(Whole(items), Whole(items) \o Whole(later.items))
  BY <1>9, PrefixOfConcat
<1> QED
  BY <1>7, <1>8, <1>10

(* Nothing framed is handed on before an ACK is read.                      *)
LEMMA NothingSoFar ==
  ASSUME NEW r \in Seq(Bytes), Occurrences(Ack, r) = {}
  PROVE  Whole(Push(Fresh, r).items) = <<>>
<1>1. Push(Fresh, r).items = <<>>
  BY FreshPush DEF PlainConnection
<1> QED
  BY <1>1, WholeOfNone

(* What comes of text without an ACK, an ACK, and more.                    *)
LEMMA FramesAfterText ==
  ASSUME NEW t \in Seq(Bytes), NEW z \in Seq(Bytes), Occurrences(Ack, t) = {}
  PROVE  /\ Occurrences(Ack, t \o (Ack \o z)) # {}
         /\ Push(Fresh, t \o (Ack \o z)).items = <<HELLO_ACK>> \o Decode[z].items
<1> DEFINE w == t \o (Ack \o z)
           first == Min(Occurrences(Ack, w))
<1>1. PICK n \in Nat : n = Len(t)
  BY Members
<1>2. n + 1 \in Occurrences(Ack, w) /\ \A i \in Occurrences(Ack, w) : i >= n + 1
  BY <1>1, FirstAck
<1>3. Ack \in Seq(Bytes) /\ Len(Ack) = 12
  BY AckTyped
<1>4. Ack \o z \in Seq(Bytes) /\ w \in Seq(Bytes)
  BY <1>3, ConcatProperties
<1>5. /\ first \in Nat /\ first \in Occurrences(Ack, w)
      /\ \A i \in Occurrences(Ack, w) : first <= i
      /\ AfterAck(w) = SubSeq(w, first + Len(Ack), Len(w))
  BY <1>2, <1>4, AfterAckTyped
<1>6. first = n + 1
  <2> HIDE DEF first, w
  <2>1. first >= n + 1 /\ first <= n + 1
    BY <1>2, <1>5
  <2> QED
    BY <1>5, <2>1
<1>7. AfterAck(w) = z
  <2> DEFINE e == Ack \o z
  <2>1. SubSeq(t \o e, Len(t) + 13, Len(t \o e)) = SubSeq(e, 13, Len(e))
    <3>1. Len(e) = 12 + Len(z) /\ Len(z) \in Nat
      <4>1. Len(Ack \o z) = Len(Ack) + Len(z)
        BY <1>3, Joined, ZenonT(60)
      <4>2. Len(z) \in Nat
        BY Members
      <4> QED
        BY <1>3, <4>1, <4>2
    <3>2. e \in Seq(Bytes)
      BY <1>4
    <3> HIDE DEF e
    <3>3. 1 <= 13 /\ 13 <= Len(e) + 1 /\ 13 \in Nat
      BY <3>1
    <3> QED
      BY <3>2, <3>3, EndOfJoined
  <2>2. SubSeq(Ack \o z, Len(Ack) + 1, Len(Ack \o z)) = SubSeq(z, 1, Len(z))
    <3>1. Len(z) \in Nat
      BY Members
    <3>2. 1 <= 1 /\ 1 <= Len(z) + 1 /\ 1 \in Nat
      BY <3>1
    <3> QED
      BY <1>3, <3>2, EndOfJoined
  <2>3. SubSeq(z, 1, Len(z)) = z
    BY SubSeqFull
  <2>4. Len(Ack) + 1 = 13
    BY <1>3
  <2>5. SubSeq(e, 13, Len(e)) = z
    BY <2>2, <2>3, <2>4
  <2>6. first + Len(Ack) = Len(t) + 13
    <3> HIDE DEF first
    <3> QED
      BY <1>1, <1>3, <1>6
  <2>7. w = t \o e
    OBVIOUS
  <2> HIDE DEF w, e, first
  <2> QED
    BY <1>5, <2>1, <2>5, <2>6, <2>7
<1>8. Occurrences(Ack, w) # {}
  BY <1>2
<1> HIDE DEF w, first
<1>9. Push(Fresh, w).items = <<HELLO_ACK>> \o Decode[AfterAck(w)].items
  BY <1>4, <1>8, FreshPush DEF FramedConnection
<1> QED
  BY <1>7, <1>8, <1>9 DEF w

LEMMA FramesFollow ==
  ASSUME StreamInv, TextInv, FrameInv, NoAckPrinted
  PROVE  FramesSurviveDamage
<1>1. /\ read \in Seq(Bytes) /\ wire \in Seq(Bytes) /\ printed \in Seq(Bytes)
      /\ connection = Push(Fresh, read) /\ Occurrences(Ack, printed) = {}
  BY DEF StreamInv, TextInv, NoAckPrinted
<1>2. read \o wire \in Seq(Bytes)
  BY <1>1, ConcatProperties
<1>3. wire = <<>> => read \o wire = read
  BY <1>1, ConcatEmptySeq
<1>4. CASE ~TargetFramed
  <2>1. framesSent = <<>> /\ read \o wire = printed
    BY <1>4 DEF TextInv, TargetFramed
  <2>2. Occurrences(Ack, read) = {}
    <3> SUFFICES ASSUME NEW i \in Occurrences(Ack, read)
                 PROVE  FALSE
      OBVIOUS
    <3>1. i \in Nat
      BY OccurrencesAreNumbers
    <3>2. i \in Occurrences(Ack, read \o wire)
      BY <1>1, <3>1, AckTyped, OccursWithin
    <3> QED
      BY <1>1, <2>1, <3>2
  <2>3. Whole(connection.items) = <<>>
    BY <1>1, <2>2, NothingSoFar
  <2>4. IsPrefix(<<>>, <<>>)
    <3>1. <<>> \in Seq(Bytes) /\ <<>> \o <<>> = <<>>
      OBVIOUS
    <3> QED
      BY <3>1, PrefixOfConcat
  <2> QED
    BY <2>1, <2>3, <2>4 DEF FramesSurviveDamage
<1>5. CASE TargetFramed
  <2>1. PICK sent \in Seq(Bytes) : SentAs(sent)
    BY <1>5 DEF FrameInv
  <2>2. read \o wire = printed \o (Ack \o sent)
    BY <2>1 DEF SentAs
  <2>3. /\ Occurrences(Ack, read \o wire) # {}
        /\ Push(Fresh, read \o wire).items = <<HELLO_ACK>> \o Decode[sent].items
    BY <1>1, <2>2, FramesAfterText
  <2>4. Whole(Push(Fresh, read \o wire).items) = framesSent
    <3>1. PICK ack \in Seq(Item), items \in Seq(Item) :
            ack = <<HELLO_ACK>> /\ items = Decode[sent].items
      <4>1. <<HELLO_ACK>> \in Seq(Item)
        BY AckIsItem
      <4> QED
        BY <4>1, DecodedItems
    <3>2. Whole(ack \o items) = Whole(ack) \o Whole(items)
      BY WholeConcat
    <3>3. HELLO_ACK # Error
      <4>1. HELLO_ACK.kind = 13 /\ Error.kind = 0
        BY DEF HELLO_ACK, Error
      <4> QED
        BY <4>1
    <3>4. Whole(<<HELLO_ACK>>) = <<HELLO_ACK>>
      BY <3>3, AckIsItem, WholeOfOne
    <3> QED
      BY <2>1, <2>3, <3>1, <3>2, <3>4 DEF SentAs
  <2>5. CASE Occurrences(Ack, read) # {}
    <3>1. IsPrefix(Whole(connection.items), framesSent)
      BY <1>1, <2>4, <2>5, WholeSoFar
    <3>2. wire = <<>> => Whole(connection.items) = framesSent
      BY <1>1, <1>3, <2>4
    <3> QED
      BY <3>1, <3>2 DEF FramesSurviveDamage
  <2>6. CASE Occurrences(Ack, read) = {}
    <3>1. Whole(connection.items) = <<>>
      BY <1>1, <2>6, NothingSoFar
    <3>2. wire # <<>>
      BY <1>3, <2>3, <2>6
    <3>3. framesSent \in Seq(Item)
      <4>1. <<HELLO_ACK>> \in Seq(Item) /\ Whole(Decode[sent].items) \in Seq(Item)
        BY AckIsItem, DecodedItems, WholeTyped
      <4> QED
        BY <2>1, <4>1, ConcatProperties DEF SentAs
    <3>4. IsPrefix(<<>>, framesSent)
      <4>1. <<>> \in Seq(Item) /\ <<>> \o framesSent = framesSent
        BY <3>3, ConcatEmptySeq
      <4>2. IsPrefix(<<>>, <<>> \o framesSent)
        BY <3>3, <4>1, PrefixOfConcat
      <4> QED
        BY <4>1, <4>2
    <3> QED
      BY <3>1, <3>2, <3>4 DEF FramesSurviveDamage
  <2> QED
    BY <2>5, <2>6
<1> QED
  BY <1>4, <1>5

(* Damage that is seen for what it is costs only itself: whatever the      *)
(* frames hold and the turns cut them into, those sent whole are handed on *)
(* in their order, and none is missing once all has been read.             *)
THEOREM FramesArrive ==
  ASSUME SelfContained
  PROVE  DecoderSpec /\ []NoAckPrinted => []FramesSurviveDamage
<1>1. DecoderInit => TextInv /\ FrameInv
  <2> SUFFICES ASSUME DecoderInit
               PROVE  TextInv /\ FrameInv
    OBVIOUS
  <2>1. printed = <<>> /\ read = <<>> /\ wire = <<>> /\ framesSent = <<>>
    BY DEF DecoderInit
  <2>2. <<>> \o <<>> = <<>> /\ <<>> \in Seq(Bytes)
    OBVIOUS
  <2> QED
    BY <2>1, <2>2 DEF TextInv, FrameInv, TargetFramed
<1>2. StreamInv /\ TextInv /\ FrameInv /\ [DecoderNext]_decoderVars => TextInv' /\ FrameInv'
  BY TextKept, FrameKept
<1>3. StreamInv /\ TextInv /\ FrameInv /\ NoAckPrinted => FramesSurviveDamage
  BY FramesFollow
<1> QED
  BY <1>1, <1>2, <1>3, StreamKept, PTL DEF DecoderSpec
===============================================================================
