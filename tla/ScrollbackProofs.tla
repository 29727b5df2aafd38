--------------------------- MODULE ScrollbackProofs ---------------------------
(***************************************************************************)
(* For every scrollback limit, line length, page, number of panes and size *)
(* of the window: the completed lines stay within the limit, the view      *)
(* within the lines, the newest line is on screen, and the panes, rules    *)
(* and bars share the screen out.                                          *)
(***************************************************************************)
EXTENDS Scrollback, FiniteSetTheorems, SequenceTheorems, WellFoundedInduction, TLAPS

(* The lines are a bounded sequence and the offset a number within it.     *)
ViewIInv ==
  /\ lines \in Seq(Int) /\ Len(lines) <= ScrollbackLimit
  /\ completed \in Int
  /\ offset \in Nat /\ offset <= Len(lines)

(* Evicting and appending never leaves fewer lines than there were.        *)
LEMMA EvictedLength ==
  ASSUME NEW s \in Seq(Int), NEW n \in Int, Len(s) <= ScrollbackLimit
  PROVE  LET kept == Evicted(Append(s, n)) IN
         /\ kept \in Seq(Int)
         /\ Len(kept) <= ScrollbackLimit
         /\ Len(s) <= Len(kept)
  BY LimitAssumption DEF Evicted

(* A completed line keeps the offset within the lines.                     *)
LEMMA FinishedLine ==
  ASSUME ViewIInv, FinishLine, UNCHANGED offset
  PROVE  ViewIInv'
<1>1. completed' = completed + 1 /\ completed \in Int
  BY DEF ViewIInv, FinishLine
<1>2. lines' = Evicted(Append(lines, completed'))
  BY DEF FinishLine
<1>3. lines' \in Seq(Int) /\ Len(lines') <= ScrollbackLimit /\ Len(lines) <= Len(lines')
  BY <1>1, <1>2, EvictedLength DEF ViewIInv
<1> QED
  BY <1>1, <1>3 DEF ViewIInv

(* Scrolling by any distance is clamped to the lines.                      *)
LEMMA ClampedRange ==
  ASSUME ViewIInv, NEW n \in Int
  PROVE  Clamped(n) \in Nat /\ Clamped(n) <= Len(lines)
  BY DEF ViewIInv, Clamped

(* Every step keeps the view within the lines.                             *)
LEMMA ViewStep ==
  ASSUME ViewIInv, [Next]_vars
  PROVE  ViewIInv'
<1>1. CASE Newline
  BY <1>1, FinishedLine DEF Newline
<1>2. CASE CarriageReturn
  BY <1>2 DEF CarriageReturn, ViewIInv
<1>3. CASE Backspace
  BY <1>3 DEF Backspace, ViewIInv
<1>4. ASSUME NEW width \in {1, 3}, Character(width)
      PROVE  ViewIInv'
  <2>1. CASE FinishLine
    BY <1>4, <2>1, FinishedLine DEF Character
  <2>2. CASE UNCHANGED <<lines, completed>>
    BY <1>4, <2>2 DEF Character, ViewIInv
  <2> QED
    BY <1>4, <2>1, <2>2 DEF Character, Assembled
<1>5. CASE Emptied
  <2>1. lines' = <<>> /\ offset' = 0 /\ completed' = completed
    BY <1>5 DEF Emptied, OffsetCleared
  <2> QED
    BY <2>1, LimitAssumption DEF ViewIInv
<1>6. CASE CopyMove
  <2>1. PICK by \in {1, -1, Page, -Page} : ScrolledTo(Clamped(offset + by))
    BY <1>6 DEF CopyMove
  <2>2. offset + by \in Int
    BY ViewAssumption DEF ViewIInv
  <2>3. Clamped(offset + by) \in Nat /\ Clamped(offset + by) <= Len(lines)
    BY <2>2, ClampedRange
  <2> QED
    BY <2>1, <2>3 DEF ScrolledTo, ViewIInv
<1>7. CASE CopyHome
  BY <1>7 DEF CopyHome, ScrolledTo, ViewIInv
<1>8. CASE CopyEnd
  BY <1>8 DEF CopyEnd, ScrolledTo, ViewIInv
<1>9. CASE ToggleCopy
  BY <1>9 DEF ToggleCopy, ViewIInv
<1>10. CASE UNCHANGED vars
  BY <1>10 DEF vars, ViewIInv
<1>11. CASE UNCHANGED text
  BY <1>11 DEF text, ViewIInv
<1>12. Resize \/ PaneOpens \/ PaneCloses => UNCHANGED text
  BY DEF Resize, PaneOpens, PaneCloses, Redrawn
<1> QED
  BY <1>1, <1>2, <1>3, <1>4, <1>5, <1>6, <1>7, <1>8, <1>9, <1>10, <1>11, <1>12 DEF Next

-----------------------------------------------------------------------------
(* Numbers.                                                                *)

(* Induction over the natural numbers, as a least element: the initial     *)
(* segments are finite, so the one below the others is minimal.            *)
LEMMA LeastNumber ==
  ASSUME NEW T \in SUBSET Nat, T # {}
  PROVE  \E n \in T : \A m \in T : n <= m
<1> DEFINE Upto(n) == 1..n
           Initial == {Upto(n) : n \in T}
<1>1. PICK X \in Initial : \A Y \in Initial : <<Y, X>> \notin StrictSubsetOrdering(Nat)
  <2>1. Initial \subseteq FiniteSubsetsOf(Nat)
    <3> SUFFICES ASSUME NEW n \in T
                 PROVE  1..n \subseteq Nat /\ IsFiniteSet(1..n)
      BY DEF FiniteSubsetsOf
    <3> QED
      BY FS_Interval
  <2>2. Initial # {}
    OBVIOUS
  <2> QED
    BY <2>1, <2>2, FS_StrictSubsetOrderingWellFounded, WFMin
<1>2. PICK n \in T : X = 1..n
  OBVIOUS
<1>3. ASSUME NEW m \in T, m < n
      PROVE  FALSE
  <2>1. 1..m \subseteq 1..n /\ n \in 1..n /\ n \notin 1..m
    BY <1>3
  <2>2. <<1..m, 1..n>> \in StrictSubsetOrdering(Nat)
    BY <2>1 DEF StrictSubsetOrdering
  <2> QED
    BY <1>1, <1>2, <2>2
<1> QED
  BY <1>3

LEMMA LargerOfTwo ==
  ASSUME NEW a \in Int, NEW b \in Int
  PROVE  Max({a, b}) = IF a >= b THEN a ELSE b
<1>1. CASE a >= b
  BY <1>1 DEF Max
<1>2. CASE ~(a >= b)
  BY <1>2 DEF Max
<1> QED
  BY <1>1, <1>2

LEMMA SmallerOfTwo ==
  ASSUME NEW a \in Int, NEW b \in Int
  PROVE  Min({a, b}) = IF a <= b THEN a ELSE b
<1>1. CASE a <= b
  BY <1>1 DEF Min
<1>2. CASE ~(a <= b)
  BY <1>2 DEF Min
<1> QED
  BY <1>1, <1>2

LEMMA Divided ==
  ASSUME NEW n \in Nat, NEW d \in Nat \ {0}
  PROVE  n \div d \in Nat /\ d * (n \div d) <= n /\ n < d * (n \div d) + d
  OBVIOUS

LEMMA DividedWhole ==
  ASSUME NEW n \in Nat, NEW d \in Nat \ {0}
  PROVE  (d * n) \div d = n
  OBVIOUS

-----------------------------------------------------------------------------
(* The grid.                                                               *)

(* Running sums of shares, one apart: what RuleAt and ColumnAt add up is   *)
(* the share of all that lies before, rounded once.                        *)
LEMMA RunningSum ==
  ASSUME NEW n \in Nat, NEW total \in Nat, NEW parts \in Nat \ {0},
         NEW y, \A k \in 0..n : y[k] = IF k = 0 THEN 0
                                       ELSE y[k - 1] + 1 + Share(total, parts, k - 1)
  PROVE  y[n] = n + (n * total) \div parts
<1> DEFINE wrong == {k \in 0..n : y[k] # k + (k * total) \div parts}
<1>1. ASSUME wrong # {}
      PROVE  FALSE
  <2>1. PICK k \in wrong : \A m \in wrong : k <= m
    <3> HIDE DEF wrong
    <3>1. wrong \in SUBSET Nat
      BY DEF wrong
    <3> QED
      BY <1>1, <3>1, LeastNumber
  <2>2. k \in 0..n /\ y[k] # k + (k * total) \div parts
    BY <2>1
  <2>3. k # 0
    BY <2>2, Divided
  <2> DEFINE j == k - 1
  <2>4. j \in 0..n /\ j \in Nat /\ k = j + 1 /\ ~(k <= j)
    BY <2>2, <2>3
  <2>5. y[j] = j + (j * total) \div parts
    BY <2>1, <2>4
  <2>6. y[k] = y[j] + 1 + Share(total, parts, j)
    BY <2>2, <2>3
  <2> DEFINE before == (j * total) \div parts
             after  == (k * total) \div parts
  <2> HIDE DEF j, wrong
  <2>7. j * total \in Nat /\ k * total \in Nat
    BY <2>4
  <2>8. before \in Nat /\ after \in Nat
    BY <2>7, Divided
  <2>9. Share(total, parts, j) = after - before
    BY <2>4 DEF Share
  <2>10. y[j] = j + before /\ y[k] # k + after
    BY <2>2, <2>5
  <2> HIDE DEF before, after
  <2> QED
    BY <2>4, <2>6, <2>8, <2>9, <2>10
<1>2. n \in 0..n
  OBVIOUS
<1> QED
  BY <1>1, <1>2

LEMMA RunningSumIs ==
  ASSUME NEW n \in Nat, NEW total \in Nat, NEW parts \in Nat \ {0}
  PROVE  LET y[k \in 0..n] == IF k = 0 THEN 0
                             ELSE y[k - 1] + 1 + Share(total, parts, k - 1)
         IN  y[n] = n + (n * total) \div parts
<1> DEFINE Sums(y) == [k \in 0..n |-> IF k = 0 THEN 0
                                     ELSE y[k - 1] + 1 + Share(total, parts, k - 1)]
           part(k) == (k * total) \div parts
           closed  == [k \in 0..n |-> k + part(k)]
<1>1. \A k \in 0..n : part(k) \in Nat
  <2> TAKE k \in 0..n
  <2>1. k * total \in Nat
    OBVIOUS
  <2> QED
    BY <2>1, Divided
<1>2. part(0) = 0
  BY Divided
<1>3. \A k \in 0..n : k # 0 =>
        k - 1 \in 0..n /\ Share(total, parts, k - 1) = part(k) - part(k - 1)
  <2> SUFFICES ASSUME NEW k \in 0..n, k # 0
               PROVE  Share(total, parts, k - 1) = part(k) - part(k - 1)
    OBVIOUS
  <2>1. (k - 1) + 1 = k
    OBVIOUS
  <2> QED
    BY <2>1 DEF Share
<1> HIDE DEF part
<1>4. closed = Sums(closed)
  <2>1. ASSUME NEW k \in 0..n
        PROVE  k + part(k) = IF k = 0 THEN 0
                             ELSE closed[k - 1] + 1 + Share(total, parts, k - 1)
    <3>1. CASE k = 0
      BY <1>2, <3>1
    <3>2. CASE k # 0
      <4>1. closed[k - 1] = (k - 1) + part(k - 1)
        BY <1>3, <3>2
      <4>2. part(k) \in Nat /\ part(k - 1) \in Nat
        BY <1>1, <1>3, <3>2
      <4> QED
        BY <1>3, <3>2, <4>1, <4>2
    <3> QED
      BY <3>1, <3>2
  <2> QED
    BY <2>1
<1> DEFINE y == CHOOSE f : f = Sums(f)
<1>5. y = Sums(y)
  <2> HIDE DEF Sums, closed
  <2> QED
    BY <1>4
<1>6. y[n] = n + (n * total) \div parts
  <2> HIDE DEF y
  <2>1. \A k \in 0..n : y[k] = IF k = 0 THEN 0
                               ELSE y[k - 1] + 1 + Share(total, parts, k - 1)
    BY <1>5
  <2> HIDE DEF Sums
  <2> QED
    BY <2>1, RunningSum
<1> QED
  BY <1>6

(* The sizes of a window with panes, as numbers.                           *)
LEMMA ScreenSizes ==
  ASSUME NEW s \in Screens
  PROVE  /\ Width(s) \in Nat /\ Width(s) >= 24
         /\ BodyHeight(s) \in Nat /\ BodyHeight(s) >= 6
         /\ Columns(s) \in {1, 2} /\ GridRows(s) \in Nat \ {0}
<1>1. s.width \in Nat /\ s.height \in Nat /\ s.panes \in Nat \ {0}
  <2>1. s.width \in Widths /\ s.height \in WindowHeights /\ s.panes \in 1..MaxPanes
    BY DEF Screens
  <2>2. s.width \in Nat /\ s.height \in Nat
    BY <2>1, SizeAssumption
  <2> QED
    BY <2>1, <2>2, PanesAssumption
<1>2. Width(s) \in Nat /\ Width(s) >= 24 /\ BodyHeight(s) \in Nat /\ BodyHeight(s) >= 6
  BY <1>1, LargerOfTwo DEF Width, BodyHeight
<1>3. CASE s.panes <= 1
  BY <1>1, <1>2, <1>3 DEF Columns, GridRows
<1>4. CASE ~(s.panes <= 1)
  BY <1>1, <1>2, <1>4 DEF Columns, GridRows
<1> QED
  BY <1>3, <1>4

LEMMA RuleIs ==
  ASSUME NEW s \in Screens, Tiled(s), NEW row \in 0..GridRows(s)
  PROVE  RuleAt(s, row) = row + (row * (BodyHeight(s) - GridRows(s))) \div GridRows(s)
<1>1. BodyHeight(s) - GridRows(s) \in Nat /\ GridRows(s) \in Nat \ {0} /\ row \in Nat
  BY ScreenSizes DEF Tiled
<1> QED
  BY <1>1, RunningSumIs DEF RuleAt, ContentHeight

LEMMA ColumnIs ==
  ASSUME NEW s \in Screens, NEW column \in 0..Columns(s)
  PROVE  ColumnAt(s, column) = column + (column * (Width(s) - (Columns(s) - 1))) \div Columns(s)
<1>1. Width(s) - (Columns(s) - 1) \in Nat /\ Columns(s) \in Nat \ {0} /\ column \in Nat
  BY ScreenSizes
<1> QED
  BY <1>1, RunningSumIs DEF ColumnAt, ColumnWidth

(* A share is within one of the exact quotient, so two shares of the same  *)
(* total differ by one at most.                                            *)
LEMMA SharesFair ==
  ASSUME NEW total \in Nat, NEW parts \in Nat \ {0}, NEW k \in Nat, NEW m \in Nat
  PROVE  /\ Share(total, parts, k) \in Nat
         /\ Share(total, parts, k) <= Share(total, parts, m) + 1
<1> DEFINE part(j) == (j * total) \div parts
<1>1. ASSUME NEW j \in Nat
      PROVE  /\ part(j) \in Nat
             /\ parts * part(j) <= j * total /\ j * total < parts * part(j) + parts
  <2>1. j * total \in Nat
    OBVIOUS
  <2> QED
    BY <2>1, Divided
<1>2. ASSUME NEW j \in Nat
      PROVE  /\ Share(total, parts, j) = part(j + 1) - part(j)
             /\ (j + 1) * total = j * total + total
  BY DEF Share
<1> HIDE DEF part
<1>3. ASSUME NEW j \in Nat
      PROVE  LET share == Share(total, parts, j)
             IN  /\ share \in Int
                 /\ parts * share < total + parts /\ total < parts * share + parts
  <2> DEFINE a == part(j)
             b == part(j + 1)
             x == j * total
  <2>1. /\ a \in Nat /\ b \in Nat /\ x \in Nat
        /\ parts * a <= x /\ x < parts * a + parts
        /\ parts * b <= x + total /\ x + total < parts * b + parts
    BY <1>1, <1>2
  <2>2. Share(total, parts, j) = b - a
    BY <1>2
  <2> HIDE DEF a, b, x
  <2>3. parts * (b - a) = parts * b - parts * a
    BY <2>1
  <2> QED
    BY <2>1, <2>2, <2>3
<1> DEFINE p == Share(total, parts, k)
           q == Share(total, parts, m)
<1>4. /\ p \in Int /\ parts * p < total + parts /\ total < parts * p + parts
      /\ q \in Int /\ parts * q < total + parts /\ total < parts * q + parts
  BY <1>3
<1> HIDE DEF p, q
<1>5. p >= 0
  <2> SUFFICES ASSUME p <= -1
               PROVE  FALSE
    BY <1>4
  <2>1. parts * p <= parts * (-1)
    BY <1>4
  <2> QED
    BY <1>4, <2>1
<1>6. p <= q + 1
  <2> SUFFICES ASSUME p - q >= 2
               PROVE  FALSE
    BY <1>4
  <2>1. parts * (p - q) >= parts * 2 /\ parts * (p - q) = parts * p - parts * q
    BY <1>4
  <2> QED
    BY <1>4, <2>1
<1> QED
  BY <1>4, <1>5, <1>6 DEF p, q

LEMMA GridTiles ==
  ASSUME NEW s \in Screens, Tiled(s)
  PROVE  EndsMeet(s) /\ FairlyShared(s)
<1> DEFINE total == BodyHeight(s) - GridRows(s)
           inner == Width(s) - (Columns(s) - 1)
<1>1. /\ total \in Nat /\ inner \in Nat
      /\ GridRows(s) \in Nat \ {0} /\ Columns(s) \in Nat \ {0}
      /\ GridRows(s) + total = BodyHeight(s) /\ Columns(s) + inner - 1 = Width(s)
      /\ Width(s) \in Nat
  BY ScreenSizes DEF Tiled
<1>2. RuleAt(s, GridRows(s)) = BodyHeight(s)
  <2>1. RuleAt(s, GridRows(s)) = GridRows(s) + (GridRows(s) * total) \div GridRows(s)
    BY <1>1, RuleIs
  <2> HIDE DEF total
  <2> QED
    BY <1>1, <2>1, DividedWhole
<1>3. ColumnAt(s, Columns(s)) - 1 = Width(s)
  <2>1. ColumnAt(s, Columns(s)) = Columns(s) + (Columns(s) * inner) \div Columns(s)
    BY <1>1, ColumnIs
  <2> HIDE DEF inner
  <2> QED
    BY <1>1, <2>1, DividedWhole
<1>4. \A row \in 0..(GridRows(s) - 1), q \in 0..(GridRows(s) - 1) :
        /\ ContentHeight(s, row) >= 0
        /\ ContentHeight(s, row) <= ContentHeight(s, q) + 1
  <2> TAKE row \in 0..(GridRows(s) - 1), q \in 0..(GridRows(s) - 1)
  <2> HIDE DEF total
  <2>1. row \in Nat /\ q \in Nat
    BY <1>1
  <2>2. /\ ContentHeight(s, row) = Share(total, GridRows(s), row)
        /\ ContentHeight(s, q) = Share(total, GridRows(s), q)
    BY DEF ContentHeight, total
  <2>3. /\ Share(total, GridRows(s), row) \in Nat
        /\ Share(total, GridRows(s), row) <= Share(total, GridRows(s), q) + 1
    BY <1>1, <2>1, SharesFair
  <2> QED
    BY <2>2, <2>3
<1>5. \A column \in 0..(Columns(s) - 1) : ColumnWidth(s, column) \in Nat
  <2> TAKE column \in 0..(Columns(s) - 1)
  <2> HIDE DEF inner
  <2>1. column \in Nat
    BY <1>1
  <2>2. ColumnWidth(s, column) = Share(inner, Columns(s), column)
    BY DEF ColumnWidth, inner
  <2> QED
    BY <1>1, <2>1, <2>2, SharesFair, SMTT(60)
<1>6. EndsMeet(s)
  BY <1>1, <1>2, <1>3, <1>4, <1>5 DEF EndsMeet
<1>7. FairlyShared(s)
  BY <1>4 DEF FairlyShared
<1> QED
  BY <1>6, <1>7

(* A pane is drawn in as many rows as its text was asked for.              *)
LEMMA PlacesFit ==
  ASSUME NEW s \in Screens, NEW place \in Places(s)
  PROVE  place.asked \in Nat /\ place.rows = place.asked
<1>1. CASE place = BoxPlace(s)
  BY <1>1, ScreenSizes DEF BoxPlace
<1>2. ASSUME NEW row \in 0..(GridRows(s) - 1), Tiled(s), place = GridPlace(s, row)
      PROVE  place.asked \in Nat /\ place.rows = place.asked
  <2> DEFINE total == BodyHeight(s) - GridRows(s)
             part(j) == (j * total) \div GridRows(s)
  <2>1. /\ total \in Nat /\ GridRows(s) \in Nat \ {0} /\ row \in Nat
        /\ BodyHeight(s) \in Nat /\ GridRows(s) + total = BodyHeight(s)
    BY <1>2, ScreenSizes DEF Tiled
  <2>2. RuleAt(s, row) = row + part(row)
    BY <1>2, <2>1, RuleIs
  <2>3. ContentHeight(s, row) = part(row + 1) - part(row)
    BY DEF ContentHeight, Share
  <2>4. ContentHeight(s, row) \in Nat
    <3> HIDE DEF total
    <3>1. ContentHeight(s, row) = Share(total, GridRows(s), row)
      BY DEF ContentHeight, total
    <3> QED
      BY <2>1, <3>1, SharesFair
  <2>5. part(row + 1) \in Nat /\ part(row + 1) <= total
    <3> HIDE DEF total
    <3>1. (row + 1) * total \in Nat
      BY <2>1
    <3>2. /\ part(row + 1) \in Nat
          /\ GridRows(s) * part(row + 1) <= (row + 1) * total
      BY <2>1, <3>1, Divided
    <3>3. (row + 1) * total <= GridRows(s) * total
      BY <2>1
    <3> HIDE DEF part
    <3>4. ~(part(row + 1) >= total + 1)
      <4> SUFFICES ASSUME part(row + 1) >= total + 1
                   PROVE  FALSE
        OBVIOUS
      <4>1. GridRows(s) * part(row + 1) >= GridRows(s) * (total + 1)
        BY <2>1, <3>2
      <4>2. GridRows(s) * (total + 1) = GridRows(s) * total + GridRows(s)
        BY <2>1
      <4>3. /\ GridRows(s) * part(row + 1) \in Int /\ GridRows(s) * total \in Int
            /\ (row + 1) * total \in Int
        BY <2>1, <3>2
      <4> QED
        BY <2>1, <3>2, <3>3, <4>1, <4>2, <4>3
    <3> QED
      BY <2>1, <3>2, <3>4
  <2>6. part(row) \in Nat
    <3>1. row * total \in Nat
      BY <2>1
    <3> QED
      BY <2>1, <3>1, Divided
  <2> HIDE DEF part, total
  <2>7. ContentHeight(s, row) <= BodyHeight(s) - (RuleAt(s, row) + 1)
    BY <2>1, <2>2, <2>3, <2>5, <2>6
  <2>8. BodyHeight(s) - (RuleAt(s, row) + 1) \in Int
    BY <2>1, <2>2, <2>6
  <2> QED
    BY <1>2, <2>4, <2>7, <2>8, SmallerOfTwo DEF GridPlace
<1> QED
  BY <1>1, <1>2 DEF Places

-----------------------------------------------------------------------------
(* What is kept and what is shown.                                         *)

(* The last line kept is the last one completed: eviction takes the first. *)
ShownIInv ==
  /\ lines \in Seq(1..MaxLines) /\ completed \in 0..MaxLines
  /\ lines # <<>> => lines[Len(lines)] = completed
  /\ current \in Seq({1, 3}) /\ Bytes(current) < MaxLineBytes
  /\ copying \in BOOLEAN /\ screen \in Screens

LEMMA EvictedLast ==
  ASSUME NEW s \in Seq(1..MaxLines), NEW n \in 1..MaxLines
  PROVE  LET kept == Evicted(Append(s, n)) IN
         /\ kept \in Seq(1..MaxLines)
         /\ kept # <<>> /\ kept[Len(kept)] = n
<1> DEFINE t == Append(s, n)
<1>1. /\ t \in Seq(1..MaxLines) /\ Len(t) = Len(s) + 1 /\ t[Len(t)] = n /\ t # <<>>
      /\ Len(s) \in Nat
  OBVIOUS
<1> HIDE DEF t
<1>2. CASE Len(t) > ScrollbackLimit
  <2>1. Len(t) >= 2
    BY <1>1, <1>2, LimitAssumption
  <2>2. /\ Tail(t) \in Seq(1..MaxLines) /\ Len(Tail(t)) = Len(t) - 1
        /\ Tail(t)[Len(t) - 1] = t[Len(t)]
    BY <1>1, <2>1
  <2>3. Tail(t) # <<>>
    BY <2>1, <2>2, SMTT(60)
  <2> QED
    BY <1>1, <1>2, <2>2, <2>3 DEF Evicted, t
<1>3. CASE ~(Len(t) > ScrollbackLimit)
  BY <1>1, <1>3 DEF Evicted, t
<1> QED
  BY <1>2, <1>3

LEMMA BytesEmpty == Bytes(<<>>) = 0
<1>1. {i \in DOMAIN <<>> : <<>>[i] = 3} = {}
  OBVIOUS
<1> QED
  BY <1>1, FS_EmptySet DEF Bytes

(* A line gets shorter when its last character is taken back.              *)
LEMMA BytesFront ==
  ASSUME NEW line \in Seq({1, 3}), line # <<>>
  PROVE  /\ Front(line) \in Seq({1, 3})
         /\ Bytes(Front(line)) \in Nat /\ Bytes(line) \in Nat
         /\ Bytes(Front(line)) < Bytes(line)
<1> DEFINE wide(s) == {i \in DOMAIN s : s[i] = 3}
<1>1. /\ Front(line) \in Seq({1, 3}) /\ Len(Front(line)) = Len(line) - 1
      /\ \A i \in 1..(Len(line) - 1) : Front(line)[i] = line[i]
      /\ Len(line) \in Nat \ {0}
  <2>1. Len(line) \in Nat \ {0} /\ \A i \in 1..(Len(line) - 1) : line[i] \in {1, 3}
    BY EmptySeq, ElementOfSeq
  <2>2. Len(line) - 1 \in Nat
    BY <2>1
  <2> DEFINE n == Len(line) - 1
  <2>3. /\ SubSeq(line, 1, n) \in Seq({1, 3})
        /\ Len(SubSeq(line, 1, n)) = IF 1 <= n THEN n - 1 + 1 ELSE 0
        /\ \A i \in 1..(n - 1 + 1) : SubSeq(line, 1, n)[i] = line[1 + i - 1]
    <3> HIDE DEF n
    <3>1. n \in Int /\ \A i \in 1..n : line[i] \in {1, 3}
      BY <2>1, <2>2 DEF n
    <3> QED
      BY <3>1, SubSeqProperties
  <2>4. Front(line) = SubSeq(line, 1, n)
    BY DEF Front
  <2>5. Len(Front(line)) = n /\ \A i \in 1..n : Front(line)[i] = line[i]
    <3> HIDE DEF n
    <3>1. n \in Nat
      BY <2>2 DEF n
    <3> QED
      BY <2>3, <2>4, <3>1
  <2> QED
    BY <2>1, <2>3, <2>4, <2>5
<1>2. wide(Front(line)) \subseteq wide(line)
  BY <1>1
<1>3. IsFiniteSet(wide(line))
  <2>1. IsFiniteSet(1..Len(line)) /\ wide(line) \subseteq 1..Len(line)
    BY <1>1, FS_Interval
  <2> QED
    BY <2>1, FS_Subset
<1>4. /\ Cardinality(wide(Front(line))) \in Nat /\ Cardinality(wide(line)) \in Nat
      /\ Cardinality(wide(Front(line))) <= Cardinality(wide(line))
  BY <1>2, <1>3, FS_Subset, FS_CardinalityType
<1> QED
  BY <1>1, <1>4 DEF Bytes

LEMMA FinishedShows ==
  ASSUME ShownIInv, FinishLine, UNCHANGED view
  PROVE  ShownIInv'
<1>1. completed' = completed + 1 /\ completed' \in 1..MaxLines
  BY BoundAssumption DEF FinishLine, ShownIInv
<1>2. /\ lines' \in Seq(1..MaxLines) /\ lines' # <<>>
      /\ lines'[Len(lines')] = completed'
  BY <1>1, EvictedLast DEF FinishLine, ShownIInv
<1>3. current' = <<>> /\ current' \in Seq({1, 3}) /\ Bytes(current') < MaxLineBytes
  BY BytesEmpty, LimitAssumption DEF FinishLine
<1> QED
  BY <1>1, <1>2, <1>3 DEF ShownIInv, view

LEMMA ShownStep ==
  ASSUME ShownIInv, [Next]_vars
  PROVE  ShownIInv'
<1> USE DEF ShownIInv
<1>1. CASE Newline
  BY <1>1, FinishedShows DEF Newline
<1>2. CASE CarriageReturn
  BY <1>2, BytesEmpty, LimitAssumption DEF CarriageReturn, view
<1>3. CASE Backspace
  <2>1. CASE current = <<>>
    BY <1>3, <2>1 DEF Backspace, view
  <2>2. CASE current # <<>>
    <3>1. current' = Front(current)
      BY <1>3, <2>2 DEF Backspace
    <3>2. current' \in Seq({1, 3}) /\ Bytes(current') < MaxLineBytes
      BY <2>2, <3>1, BytesFront, LimitAssumption
    <3> QED
      BY <1>3, <3>2 DEF Backspace, view
  <2> QED
    BY <2>1, <2>2
<1>4. ASSUME NEW width \in {1, 3}, Character(width)
      PROVE  ShownIInv'
  <2>1. CASE FinishLine
    BY <1>4, <2>1, FinishedShows DEF Character
  <2>2. CASE /\ current' = Append(current, width) /\ ~TooLong(Append(current, width))
             /\ UNCHANGED <<lines, completed>>
    <3>1. current' \in Seq({1, 3})
      BY <2>2
    <3>2. Bytes(current') < MaxLineBytes
      <4>1. current' # <<>>
        BY <2>2
      <4>2. Bytes(current') \in Nat
        BY <3>1, <4>1, BytesFront
      <4>3. ~(Bytes(current') >= MaxLineBytes)
        BY <2>2 DEF TooLong
      <4> QED
        BY <4>2, <4>3, LimitAssumption
    <3> QED
      BY <1>4, <2>2, <3>1, <3>2 DEF Character, view
  <2> QED
    BY <1>4, <2>1, <2>2 DEF Character, Assembled
<1>5. CASE Emptied
  BY <1>5, BytesEmpty, LimitAssumption DEF Emptied, view
<1>6. CASE CopyMove \/ CopyHome \/ CopyEnd
  BY <1>6 DEF CopyMove, CopyHome, CopyEnd, ScrolledTo, view
<1>7. CASE ToggleCopy
  BY <1>7 DEF ToggleCopy
<1>8. CASE Resize \/ PaneOpens \/ PaneCloses
  BY <1>8 DEF Resize, PaneOpens, PaneCloses, Redrawn, text
<1>9. CASE UNCHANGED vars
  BY <1>9 DEF vars, view
<1> QED
  BY <1>1, <1>2, <1>3, <1>4, <1>5, <1>6, <1>7, <1>8, <1>9 DEF Next

LEMMA ShownInit == Init => ShownIInv
<1> SUFFICES ASSUME Init
             PROVE  ShownIInv
  OBVIOUS
<1>1. lines \in Seq(1..MaxLines) /\ completed \in 0..MaxLines /\ lines = <<>>
  BY BoundAssumption DEF Init
<1>2. current \in Seq({1, 3}) /\ Bytes(current) < MaxLineBytes
  BY BytesEmpty, LimitAssumption DEF Init
<1> QED
  BY <1>1, <1>2 DEF Init, ShownIInv

LEMMA Shown == Spec => [](ShownIInv /\ ViewIInv)
<1>1. Init => ShownIInv /\ ViewIInv
  BY ShownInit, LimitAssumption DEF Init, ViewIInv
<1>2. ShownIInv /\ ViewIInv /\ [Next]_vars => (ShownIInv /\ ViewIInv)'
  BY ShownStep, ViewStep
<1> QED
  BY <1>1, <1>2, PTL DEF Spec

(* A pane holds no more than its limits allow, for all limits and however  *)
(* little of the output is newlines, and whatever is printed, emptied and  *)
(* scrolled the view is within the lines there are.                        *)
THEOREM TypeCorrect == Spec => []TypeOK
<1>1. ShownIInv /\ ViewIInv => TypeOK
  BY DEF ShownIInv, ViewIInv, TypeOK
<1> QED
  BY <1>1, Shown, PTL

(* What visible_lines returns for a height that is not zero.               *)
LEMMA VisibleFit ==
  ASSUME ShownIInv, ViewIInv, NEW height \in Nat \ {0}
  PROVE  LET shown == VisibleLines(height) IN
         /\ Len(shown) <= height
         /\ offset = 0 /\ current # <<>> => shown # <<>> /\ Last(shown) = Partial
         /\ offset = 0 /\ current = <<>> /\ lines # <<>> => Last(shown) = completed
<1> DEFINE rows  == RowsForComplete(height)
           end   == Less(Len(lines), offset)
           start == Less(end, rows)
           part  == SubSeq(lines, start + 1, end)
<1>1. lines \in Seq(Int) /\ Len(lines) \in Nat /\ offset \in Nat
  BY DEF ViewIInv
<1>2. /\ rows \in Nat /\ rows <= height
      /\ current # <<>> => rows = height - 1
      /\ current = <<>> => rows = height
  BY DEF RowsForComplete, Less
<1>3. /\ end \in 0..Len(lines) /\ start \in 0..end /\ end - start <= rows
      /\ rows > 0 /\ end > 0 => start < end
      /\ offset = 0 => end = Len(lines)
  BY <1>1, <1>2, SMTT(60) DEF Less
<1>4. /\ part \in Seq(Int) /\ Len(part) = end - start
      /\ start < end => part[end - start] = lines[end]
  <2>1. \A i \in (start + 1)..end : lines[i] \in Int
    BY <1>1, <1>3
  <2> HIDE DEF end, start
  <2>2. start + 1 \in Int /\ end \in Int /\ start <= end
    BY <1>3
  <2>3. /\ part \in Seq(Int)
        /\ Len(part) = IF start + 1 <= end THEN end - (start + 1) + 1 ELSE 0
        /\ \A i \in 1..(end - (start + 1) + 1) : part[i] = lines[(start + 1) + i - 1]
    BY <2>1, <2>2, SubSeqProperties
  <2> HIDE DEF part
  <2> QED
    BY <1>3, <2>3
<1>5. VisibleLines(height) = IF offset = 0 /\ current # <<>> /\ Len(part) < height
                             THEN Append(part, Partial) ELSE part
  BY DEF VisibleLines
<1> HIDE DEF part, rows, end, start
<1>6. CASE offset = 0 /\ current # <<>>
  <2>1. Len(part) < height
    BY <1>2, <1>3, <1>4, <1>6
  <2>2. VisibleLines(height) = Append(part, Partial)
    BY <1>5, <1>6, <2>1
  <2>3. /\ Len(Append(part, Partial)) = Len(part) + 1 /\ Append(part, Partial) # <<>>
        /\ Append(part, Partial)[Len(part) + 1] = Partial
    <3>1. Partial \in Int
      BY DEF Partial
    <3> QED
      BY <1>4, <3>1, AppendProperties
  <2> QED
    BY <1>4, <1>6, <2>1, <2>2, <2>3 DEF Last
<1>7. CASE offset = 0 /\ current = <<>>
  <2>1. VisibleLines(height) = part /\ Len(part) <= height
    BY <1>2, <1>3, <1>4, <1>5, <1>7
  <2>2. ASSUME lines # <<>>
        PROVE  Last(part) = completed
    <3>1. Len(lines) > 0
      BY <1>1, <2>2
    <3>2. start < end /\ end = Len(lines)
      BY <1>2, <1>3, <1>7, <3>1
    <3> QED
      BY <1>4, <2>2, <3>2 DEF Last, ShownIInv
  <2> QED
    BY <1>7, <2>1, <2>2
<1>8. CASE offset # 0
  BY <1>2, <1>3, <1>4, <1>5, <1>8
<1> QED
  BY <1>6, <1>7, <1>8

(* At every size of the window, with any number of panes, zoomed or in the *)
(* grid, the newest line of a pane that is not scrolled back is drawn.     *)
THEOREM NewestIsShown == Spec => []NewestShown
<1>1. ASSUME ShownIInv, ViewIInv
      PROVE  NewestShown
  <2> SUFFICES ASSUME NEW place \in Places(screen), place.asked > 0
               PROVE  LET shown == VisibleLines(place.asked) IN
                      /\ Len(shown) <= place.rows
                      /\ offset = 0 /\ current # <<>> => shown # <<>> /\ Last(shown) = Partial
                      /\ offset = 0 /\ current = <<>> /\ lines # <<>> => Last(shown) = completed
    BY DEF NewestShown
  <2>1. place.asked \in Nat \ {0} /\ place.rows = place.asked
    BY <1>1, PlacesFit DEF ShownIInv
  <2> QED
    BY <1>1, <2>1, VisibleFit
<1> QED
  BY <1>1, Shown, PTL

(* For every size and every number of panes that has room for its rules,   *)
(* the rounded shares add up to the canvas and differ by a line at most.   *)
THEOREM GridNeverLoses == Spec => []PanesTile
<1>1. ShownIInv => PanesTile
  BY GridTiles DEF ShownIInv, PanesTile
<1> QED
  BY <1>1, Shown, PTL
=============================================================================
