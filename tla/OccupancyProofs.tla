--------------------------- MODULE OccupancyProofs ---------------------------
(***************************************************************************)
(* Proofs about Occupancy, for every set of channels and names and any     *)
(* number of processes: what a pane says of the process on its channel,    *)
(* before, between and after the snapshots.                                *)
(***************************************************************************)
EXTENDS Occupancy, PaneListProofs

(* Channel 255 would be endpoint 256, which no process can have: the code  *)
(* never takes it for running.                                             *)
EndpointsFit == 255 \notin Channels

-----------------------------------------------------------------------------
(* What an operation does to the marks a pane bears, when it publishes no  *)
(* snapshot: each pane keeps them, or is new and has none, and a new one   *)
(* takes the place of ended ones alone.  Only panes on the channels in     *)
(* written come to have been written to.                                   *)

Kept(pane, later) ==
  /\ later.kind = pane.kind /\ later.channel = pane.channel /\ later.title = pane.title
  /\ later.ended = pane.ended /\ later.absent = pane.absent

Unmarked(pane) == pane.ended = FALSE /\ pane.absent = 0

IsNew(ps, pane, written) ==
  /\ Unmarked(pane)
  /\ pane.ran => pane.channel \in written
  /\ \A i \in DOMAIN ps :
       ps[i].kind = pane.kind /\ ps[i].channel = pane.channel => ps[i].ended

IsOld(ps, pane, written) ==
  \E i \in DOMAIN ps : /\ Kept(ps[i], pane)
                       /\ pane.ran => ps[i].ran \/ pane.channel \in written

Grown(ps, qs, written) ==
  \A j \in DOMAIN qs : IsOld(ps, qs[j], written) \/ IsNew(ps, qs[j], written)

Keeps(ps, qs) == \A i \in DOMAIN ps : \E j \in DOMAIN qs : qs[j] = ps[i]

LEMMA StaysOld ==
  ASSUME NEW ps, NEW i \in DOMAIN ps, NEW written
  PROVE  IsOld(ps, ps[i], written)
  BY DEF IsOld, Kept

LEMMA SystemUnmarked ==
  ASSUME NEW kind
  PROVE  /\ Unmarked(SystemPane(kind)) /\ SystemPane(kind).ran = FALSE
         /\ SystemPane(kind).kind = kind
  BY DEF Unmarked, SystemPane, NewPane

LEMMA GrownTwice ==
  ASSUME NEW ps, NEW qs, NEW rs, Keeps(ps, qs), Grown(ps, qs, {}), Grown(qs, rs, {})
  PROVE  Grown(ps, rs, {})
<1> SUFFICES ASSUME NEW j \in DOMAIN rs
             PROVE  IsOld(ps, rs[j], {}) \/ IsNew(ps, rs[j], {})
  BY DEF Grown
<1>1. CASE IsNew(qs, rs[j], {})
  BY <1>1 DEF IsNew, Keeps
<1>2. CASE IsOld(qs, rs[j], {})
  <2>1. PICK i \in DOMAIN qs : Kept(qs[i], rs[j]) /\ (rs[j].ran => qs[i].ran)
    BY <1>2 DEF IsOld
  <2>2. CASE IsOld(ps, qs[i], {})
    BY <2>1, <2>2 DEF IsOld, Kept
  <2>3. CASE IsNew(ps, qs[i], {})
    BY <2>1, <2>3 DEF IsNew, Kept, Unmarked
  <2> QED
    BY <2>2, <2>3 DEF Grown
<1> QED
  BY <1>1, <1>2 DEF Grown

LEMMA RestoreKindGrown ==
  ASSUME NEW d, d.panes \in Seq(Pane), NEW position \in 1..3
  PROVE  LET qs == RestoreKind(d, position).panes
         IN  Keeps(d.panes, qs) /\ Grown(d.panes, qs, {})
<1> DEFINE pane == SystemPane(SystemKinds[position])
           at   == Smaller(position, Len(d.panes) + 1)
           qs   == InsertPane(d.panes, at, pane)
<1>1. CASE RestoreKind(d, position) = d
  <2>1. Keeps(d.panes, d.panes) /\ Grown(d.panes, d.panes, {})
    BY StaysOld DEF Keeps, Grown
  <2> QED
    BY <1>1, <2>1
<1>2. CASE /\ RestoreKind(d, position).panes = qs
           /\ \A i \in DOMAIN d.panes : d.panes[i].kind # SystemKinds[position]
  <2>1. Len(d.panes) \in Nat /\ DOMAIN d.panes = 1..Len(d.panes)
    OBVIOUS
  <2>2. at \in 1..(Len(d.panes) + 1)
    BY <2>1 DEF Smaller
  <2>3. IsNew(d.panes, pane, {})
    BY <1>2, SystemUnmarked DEF IsNew
  <2> HIDE DEF at, pane
  <2>4. \A j \in 1..(Len(d.panes) + 1) :
          \/ qs[j] = pane
          \/ \E i \in DOMAIN d.panes : qs[j] = d.panes[i]
    <3> TAKE j \in 1..(Len(d.panes) + 1)
    <3>1. CASE j = at
      BY <3>1, <2>1, <2>2 DEF InsertPane
    <3>2. CASE j < at
      <4>1. j \in DOMAIN d.panes /\ qs[j] = d.panes[j]
        BY <3>2, <2>1, <2>2 DEF InsertPane
      <4> QED
        BY <4>1
    <3>3. CASE j > at
      <4>1. j - 1 \in DOMAIN d.panes /\ qs[j] = d.panes[j - 1]
        BY <3>3, <2>1, <2>2 DEF InsertPane
      <4> QED
        BY <4>1
    <3> QED
      BY <2>2, <3>1, <3>2, <3>3
  <2>5. DOMAIN qs = 1..(Len(d.panes) + 1)
    BY DEF InsertPane
  <2>6. \A i \in DOMAIN d.panes : i < at => i \in DOMAIN qs /\ qs[i] = d.panes[i]
    BY <2>1, <2>2, <2>5 DEF InsertPane
  <2>7. \A i \in DOMAIN d.panes : ~(i < at) => i + 1 \in DOMAIN qs /\ qs[i + 1] = d.panes[i]
    BY <2>1, <2>2, <2>5 DEF InsertPane
  <2> HIDE DEF qs
  <2>8. Keeps(d.panes, qs)
    BY <2>6, <2>7 DEF Keeps
  <2>9. Grown(d.panes, qs, {})
    BY <2>3, <2>4, <2>5, StaysOld DEF Grown
  <2> QED
    BY <1>2, <2>8, <2>9
<1> QED
  BY <1>1, <1>2 DEF RestoreKind

LEMMA RestoreGrown ==
  ASSUME NEW d \in Desks, Ordered(d.panes)
  PROVE  Grown(d.panes, RestoreSystemPanes(d).panes, {})
<1> DEFINE e == RestoreKind(d, 1)
           f == RestoreKind(e, 2)
           g == RestoreKind(f, 3)
<1>1. /\ e \in Desks /\ Ordered(e.panes)
      /\ Keeps(d.panes, e.panes) /\ Grown(d.panes, e.panes, {})
  BY RestoreKindOrdered, RestoreKindGrown DEF Ordered
<1> HIDE DEF e
<1>2. /\ f \in Desks /\ Ordered(f.panes)
      /\ Keeps(e.panes, f.panes) /\ Grown(e.panes, f.panes, {})
  BY <1>1, RestoreKindOrdered, RestoreKindGrown DEF Ordered
<1> HIDE DEF f
<1>3. Grown(f.panes, g.panes, {})
  BY <1>2, RestoreKindGrown DEF Ordered
<1>4. RestoreSystemPanes(d) = g
  BY DEF RestoreSystemPanes, e, f
<1> HIDE DEF g
<1>5. Grown(e.panes, g.panes, {})
  BY <1>2, <1>3, GrownTwice
<1> QED
  BY <1>1, <1>4, <1>5, GrownTwice

LEMMA CloseFocusedGrown ==
  ASSUME NEW d, Sound(d)
  PROVE  Grown(d.panes, CloseFocused(d).panes, {})
<1>1. d.panes \in Seq(Pane) /\ d.focus \in 1..Len(d.panes) /\ Len(d.panes) \in Nat
  BY DEF Sound, Ordered
<1>2. CASE Len(d.panes) > 1
  <2>1. CloseFocused(d).panes = RemovePane(d.panes, d.focus)
    BY <1>2 DEF CloseFocused
  <2>2. \A j \in 1..(Len(d.panes) - 1) :
          \E i \in DOMAIN d.panes : RemovePane(d.panes, d.focus)[j] = d.panes[i]
    <3> TAKE j \in 1..(Len(d.panes) - 1)
    <3>1. j \in DOMAIN d.panes /\ j + 1 \in DOMAIN d.panes
      BY <1>1
    <3> QED
      BY <3>1 DEF RemovePane
  <2>3. DOMAIN RemovePane(d.panes, d.focus) = 1..(Len(d.panes) - 1)
    BY DEF RemovePane
  <2> QED
    BY <2>1, <2>2, <2>3, StaysOld DEF Grown
<1>3. CASE ~(Len(d.panes) > 1)
  BY <1>3, StaysOld DEF CloseFocused, Grown
<1> QED
  BY <1>2, <1>3

(* A sweep that leaves nothing has closed ended panes alone, so the three  *)
(* it brings back take the place of ended ones.                            *)
LEMMA CloseEndedGrown ==
  ASSUME NEW d, Sound(d)
  PROVE  Grown(d.panes, CloseEnded(d).panes, {})
<1> DEFINE keep == NotEnded(d.panes)
           ps   == Retain(d.panes, keep)
           kept == [d EXCEPT !.panes = ps]
<1>1. Ordered(d.panes) /\ d \in Desks /\ keep \in SUBSET (DOMAIN d.panes)
  BY DEF Sound, NotEnded
<1>2. DOMAIN d.panes = 1..Len(d.panes) /\ Len(d.panes) \in Nat
  BY <1>1 DEF Ordered
<1>3. Ordered(ps)
  BY <1>1, RetainOrdered
<1>4. /\ Cardinality(keep) \in Nat
      /\ \A k \in 1..Cardinality(keep) : \E i \in keep : Rank(keep, i) = k
  BY <1>1, <1>2, RankOnto
<1>5. kept \in Desks /\ kept.panes = ps
  BY <1>1, <1>3 DEF Desks, Ordered
<1>6. Survivors(d) = IF ps = <<>> THEN RestoreSystemPanes(kept) ELSE kept
  BY <1>5 DEF Survivors
<1>7. Survivors(d) \in Desks
  BY <1>3, <1>5, <1>6, RestoreOrdered
<1>8. CloseEnded(d).panes = Survivors(d).panes
  BY <1>7 DEF CloseEnded, Desks
<1>9. DOMAIN ps = 1..Cardinality(keep)
  BY DEF Retain
<1>10. CASE ps # <<>>
  <2>1. \A k \in 1..Cardinality(keep) : \E i \in keep : ps[k] = d.panes[i]
    BY <1>4 DEF Retain
  <2> HIDE DEF ps
  <2>2. Grown(d.panes, ps, {})
    BY <1>1, <1>9, <2>1, StaysOld DEF Grown
  <2> QED
    BY <1>5, <1>6, <1>8, <1>10, <2>2
<1>11. CASE ps = <<>>
  <2>1. Cardinality(keep) = 0
    <3>1. Len(ps) = Cardinality(keep)
      BY <1>1, RetainOrdered
    <3> HIDE DEF ps
    <3> QED
      BY <1>11, <3>1
  <2>2. IsFiniteSet(keep)
    <3>1. IsFiniteSet(DOMAIN d.panes)
      BY <1>2, FS_Interval
    <3> HIDE DEF keep
    <3> QED
      BY <1>1, <3>1, FS_Subset
  <2>3. keep = {}
    BY <2>1, <2>2, FS_EmptySet
  <2>4. \A i \in DOMAIN d.panes : d.panes[i].ended
    BY <2>3 DEF NotEnded
  <2> HIDE DEF ps, kept
  <2>5. Grown(<<>>, Survivors(d).panes, {})
    BY <1>3, <1>5, <1>6, <1>11, RestoreGrown
  <2>6. \A j \in DOMAIN Survivors(d).panes : IsNew(<<>>, Survivors(d).panes[j], {})
    BY <2>5 DEF Grown, IsOld
  <2> QED
    BY <1>8, <2>4, <2>6 DEF Grown, IsNew
<1> QED
  BY <1>10, <1>11

(* Writing to a channel marks no pane.                                     *)
LEMMA PushOld ==
  ASSUME NEW d, Sound(d), NEW channel
  PROVE  \A j \in DOMAIN PushChannel(d, channel).panes :
           IsOld(d.panes, PushChannel(d, channel).panes[j], {channel})
<1>1. CASE HasChannel(d.panes, channel)
  <2> DEFINE n == FirstOn(d.panes, channel)
             pane == Printed(d.panes[n], n = d.focus)
  <2>1. n \in DOMAIN d.panes /\ d.panes[n].channel = channel
    BY <1>1, FirstOnIsFirst DEF Sound, Ordered
  <2>2. d.panes[n] \in Pane
    BY <2>1, PaneAt
  <2>3. Kept(d.panes[n], pane)
    BY <2>2 DEF Kept, Printed, Pane
  <2>4. PushChannel(d, channel).panes = [d.panes EXCEPT ![n] = pane]
    BY <1>1, <2>1 DEF PushChannel, Sound, Desks
  <2> HIDE DEF pane, n
  <2>5. IsOld(d.panes, pane, {channel})
    BY <2>1, <2>3 DEF IsOld, Kept
  <2>6. d.panes \in Seq(Pane)
    BY DEF Sound, Ordered
  <2>7. \A j \in DOMAIN d.panes :
          [d.panes EXCEPT ![n] = pane][j] = IF j = n THEN pane ELSE d.panes[j]
    BY <2>1, <2>6
  <2>8. DOMAIN [d.panes EXCEPT ![n] = pane] = DOMAIN d.panes
    OBVIOUS
  <2> QED
    BY <2>4, <2>5, <2>7, <2>8, StaysOld
<1>2. CASE ~HasChannel(d.panes, channel)
  BY <1>2, StaysOld DEF PushChannel
<1> QED
  BY <1>1, <1>2

LEMMA OpenGrown ==
  ASSUME NEW d, Sound(d), NEW channel \in Own
  PROVE  /\ Keeps(d.panes, OpenForOutput(d, channel).panes)
         /\ Grown(d.panes, OpenForOutput(d, channel).panes, {})
<1>1. CASE HasChannel(d.panes, channel)
  BY <1>1, StaysOld DEF OpenForOutput, Grown, Keeps
<1>2. CASE ~HasChannel(d.panes, channel)
  <2> DEFINE pane == NewPane("Application", channel, TtyTitle)
             ps   == Append(d.panes, pane)
  <2>1. d.panes \in Seq(Pane) /\ pane \in Pane
    BY NewPaneType DEF Sound, Ordered, Kind, Title
  <2>2. OpenForOutput(d, channel).panes = ps
    BY <1>2 DEF OpenForOutput, AddApplication, Sound, Desks
  <2>3. \A i \in DOMAIN d.panes : d.panes[i].channel # channel
    BY <1>2 DEF HasChannel, On
  <2>4. IsNew(d.panes, pane, {})
    BY <2>3 DEF IsNew, Unmarked, NewPane
  <2> HIDE DEF pane
  <2>5. /\ \A i \in DOMAIN d.panes : i \in DOMAIN ps /\ ps[i] = d.panes[i]
        /\ \A j \in DOMAIN ps : (j \in DOMAIN d.panes /\ ps[j] = d.panes[j]) \/ ps[j] = pane
    BY <2>1
  <2> HIDE DEF ps
  <2> QED
    BY <2>2, <2>4, <2>5, StaysOld DEF Grown, Keeps
<1> QED
  BY <1>1, <1>2

(* Writing after an operation that keeps the panes.                        *)
LEMMA GrownThenWritten ==
  ASSUME NEW ps, NEW qs, NEW rs, NEW written,
         Keeps(ps, qs), Grown(ps, qs, {}), Grown(qs, rs, written)
  PROVE  Grown(ps, rs, written)
<1> SUFFICES ASSUME NEW j \in DOMAIN rs
             PROVE  IsOld(ps, rs[j], written) \/ IsNew(ps, rs[j], written)
  BY DEF Grown
<1>1. CASE IsNew(qs, rs[j], written)
  BY <1>1 DEF IsNew, Keeps
<1>2. CASE IsOld(qs, rs[j], written)
  <2>1. PICK i \in DOMAIN qs :
          Kept(qs[i], rs[j]) /\ (rs[j].ran => qs[i].ran \/ rs[j].channel \in written)
    BY <1>2 DEF IsOld
  <2>2. CASE IsOld(ps, qs[i], {})
    BY <2>1, <2>2 DEF IsOld, Kept
  <2>3. CASE IsNew(ps, qs[i], {})
    BY <2>1, <2>3 DEF IsNew, Kept, Unmarked
  <2> QED
    BY <2>2, <2>3 DEF Grown
<1> QED
  BY <1>1, <1>2 DEF Grown

LEMMA UnalertedSound ==
  ASSUME NEW d, Sound(d)
  PROVE  /\ Sound(Unalerted(d))
         /\ \A ps, written : Grown(ps, d.panes, written) => Grown(ps, Unalerted(d).panes, written)
<1> DEFINE qs == [i \in DOMAIN d.panes |-> [d.panes[i] EXCEPT !.alert = FALSE]]
<1>1. d.panes \in Seq(Pane) /\ d \in Desks
  BY DEF Sound, Ordered
<1>2. Unalerted(d) = [d EXCEPT !.panes = qs]
  BY <1>1 DEF Unalerted, Desks
<1>3. \A i \in DOMAIN d.panes : /\ qs[i] \in Pane /\ qs[i].ran = d.panes[i].ran
                                /\ Kept(d.panes[i], qs[i])
  <2> TAKE i \in DOMAIN d.panes
  <2>1. d.panes[i] \in Pane
    BY PaneAt
  <2> QED
    BY <2>1 DEF Pane, Kept
<1>4. qs \in Seq(Pane) /\ DOMAIN qs = DOMAIN d.panes
  <2>1. DOMAIN d.panes = 1..Len(d.panes) /\ Len(d.panes) \in Nat
    BY <1>1
  <2>2. qs = [i \in 1..Len(d.panes) |-> qs[i]]
    BY <2>1
  <2>3. \A i \in 1..Len(d.panes) : qs[i] \in Pane
    BY <1>3, <2>1
  <2> HIDE DEF qs
  <2> QED
    BY <2>1, <2>2, <2>3
<1>5. Unalerted(d).panes = qs
  BY <1>1, <1>2 DEF Desks
<1> HIDE DEF qs
<1>6. Sound(Unalerted(d))
  BY <1>2, <1>3, <1>4, FlagsSound DEF Kept
<1>7. ASSUME NEW ps, NEW written, Grown(ps, d.panes, written)
      PROVE  Grown(ps, qs, written)
  <2> SUFFICES ASSUME NEW j \in DOMAIN qs
               PROVE  IsOld(ps, qs[j], written) \/ IsNew(ps, qs[j], written)
    BY DEF Grown
  <2>1. Kept(d.panes[j], qs[j]) /\ qs[j].ran = d.panes[j].ran /\ j \in DOMAIN d.panes
    BY <1>3, <1>4
  <2>2. CASE IsOld(ps, d.panes[j], written)
    BY <2>1, <2>2 DEF IsOld, Kept
  <2>3. CASE IsNew(ps, d.panes[j], written)
    BY <2>1, <2>3 DEF IsNew, Kept, Unmarked
  <2> QED
    BY <1>7, <2>1, <2>2, <2>3 DEF Grown
<1> QED
  BY <1>5, <1>6, <1>7

-----------------------------------------------------------------------------
(* What a published generation does to the marks of a pane.                *)

LEMMA CountUp ==
  ASSUME NEW n \in 0..AbsentMax
  PROVE  /\ SaturatingInc(n) \in Nat /\ SaturatingInc(n) >= n
         /\ n >= 1 => SaturatingInc(n) >= 2
         /\ SaturatingInc(n) >= 1
         /\ n = 0 => SaturatingInc(n) = 1
  BY AbsentAssumption DEF SaturatingInc

LEMMA MissedMarks ==
  ASSUME NEW pane \in Pane
  PROVE  /\ Missed(pane).absent = SaturatingInc(pane.absent)
         /\ IF SaturatingInc(pane.absent) >= 2
            THEN Missed(pane).ended = TRUE ELSE Missed(pane).ended = FALSE
         /\ Missed(pane).ran = pane.ran
         /\ Missed(pane).kind = pane.kind /\ Missed(pane).channel = pane.channel
<1> DEFINE absent == SaturatingInc(pane.absent)
<1>0. pane.absent \in 0..AbsentMax
  BY DEF Pane
<1>1. (absent >= 2) \in BOOLEAN
  BY <1>0, CountTyped
<1>2. PICK ended \in BOOLEAN : ended = (absent >= 2)
  BY <1>1
<1>3. Missed(pane) = [pane EXCEPT !.absent = absent, !.ended = ended]
  BY <1>2 DEF Missed
<1>4. IF absent >= 2 THEN ended = TRUE ELSE ended = FALSE
  BY <1>2
<1> HIDE DEF absent
<1>5. /\ Missed(pane).absent = absent /\ Missed(pane).ended = ended
      /\ Missed(pane).ran = pane.ran
      /\ Missed(pane).kind = pane.kind /\ Missed(pane).channel = pane.channel
  BY <1>3 DEF Pane
<1> QED
  BY <1>4, <1>5 DEF absent

LEMMA FollowedMarks ==
  ASSUME EndpointsFit, NEW pane \in Pane, NEW listing,
         DOMAIN listing \subseteq Channels,
         \A channel \in DOMAIN listing : listing[channel] \in Names
  PROVE  LET later == FollowedPane(pane, listing)
         IN  /\ pane.kind # "Application" => later = pane
             /\ pane.kind = "Application" /\ pane.channel \in DOMAIN listing
                  => /\ later.ended = FALSE /\ later.absent = 0
                     /\ later.title = listing[pane.channel]
             /\ pane.kind = "Application" /\ pane.channel \notin DOMAIN listing
                  => later = IF pane.ran THEN Missed(pane) ELSE pane
<1>1. CASE pane.kind # "Application"
  BY <1>1 DEF FollowedPane, Named, Marked
<1>2. CASE pane.kind = "Application" /\ pane.channel \in DOMAIN listing
  <2> DEFINE name  == listing[pane.channel]
             named == Named(pane, name)
  <2>1. name \in Names /\ name # NoName
    BY <1>2, NameAssumption
  <2>2. ASSUME pane.title # name
        PROVE  /\ named = [pane EXCEPT !.title = name, !.ended = FALSE, !.absent = 0]
               /\ named \in Pane /\ named.title = name
               /\ named.kind = pane.kind /\ named.channel = pane.channel
    <3>1. named = [pane EXCEPT !.title = name, !.ended = FALSE, !.absent = 0]
      BY <1>2, <2>1, <2>2 DEF Named
    <3>2. name \in Title /\ 0 \in 0..AbsentMax
      BY <2>1, AbsentAssumption DEF Title
    <3> HIDE DEF named, name
    <3> QED
      BY <3>1, <3>2 DEF Pane
  <2>3. named \in Pane /\ named.title = name /\ named.kind = pane.kind
        /\ named.channel = pane.channel
    <3>1. CASE pane.title = name
      <4>1. named = pane
        BY <3>1 DEF Named
      <4> HIDE DEF named, name
      <4> QED
        BY <3>1, <4>1
    <3>2. CASE pane.title # name
      BY <2>2, <3>2
    <3> QED
      BY <3>1, <3>2
  <2>4. pane.channel < 255
    <3>1. pane.channel \in Channels
      BY <1>2
    <3>2. pane.channel \in 0..255 /\ pane.channel # 255
      BY <3>1, ChannelAssumption DEF EndpointsFit
    <3> QED
      BY <3>2
  <2>5. FollowedPane(pane, listing)
          = [named EXCEPT !.ran = TRUE, !.ended = FALSE, !.absent = 0]
    BY <1>2, <2>3, <2>4 DEF FollowedPane, Marked, Running
  <2> HIDE DEF named, name
  <2> QED
    BY <1>2, <2>3, <2>5 DEF name, Pane
<1>3. CASE pane.kind = "Application" /\ pane.channel \notin DOMAIN listing
  BY <1>3 DEF FollowedPane, Marked, Running
<1> QED
  BY <1>1, <1>2, <1>3

-----------------------------------------------------------------------------
(* The invariant.                                                          *)

LinkTyped ==
  /\ process \in [Channels -> Names \cup {NoProcess}]
  /\ settled \in [Channels -> 0..2]
  /\ pending.open \in BOOLEAN
  /\ pending = [open |-> pending.open, left |-> pending.left, rows |-> pending.rows]
  /\ pending.left \subseteq Channels \ DOMAIN pending.rows
  /\ DOMAIN pending.rows \subseteq Channels
  /\ \A channel \in DOMAIN pending.rows : pending.rows[channel] \in Names

(* (ended) is the count of missed snapshots at two and above.              *)
EndedAtTwo(pane) ==
  IF pane.absent >= 2 THEN pane.ended = TRUE ELSE pane.ended = FALSE

(* A pane written to has a process, or has had one.                        *)
HeldIsKnown ==
  \A channel \in Channels : Held(desk, channel) /\ ~Live(channel) => channel \in stale

(* A pane without a past is missed only by the snapshot that was being     *)
(* read when its process started, and the next one lists it.               *)
Trusted(pane) ==
  pane.kind = "Application" /\ pane.channel \in Channels \ stale =>
    \/ pane.absent = 0
    \/ /\ Live(pane.channel) /\ pane.absent = 1
       /\ pending.open => pane.channel \in pending.left \cup DOMAIN pending.rows

(* The rows read so far are true of the channels nothing has happened to   *)
(* since BEGIN.                                                            *)
RowsTrue ==
  pending.open => \A channel \in Channels \ changed :
    \/ channel \in pending.left
    \/ Live(channel) /\ channel \in DOMAIN pending.rows /\ pending.rows[channel] = process[channel]
    \/ ~Live(channel) /\ channel \notin DOMAIN pending.rows

SettledIsQuiet ==
  pending.open => \A channel \in Channels : settled[channel] >= 1 => channel \notin changed

(* A pane whose process has been listed whole bears its name and no mark.  *)
Revived(pane) ==
  pane.kind = "Application" /\ pane.channel \in Channels
  /\ Live(pane.channel) /\ settled[pane.channel] >= 1
    => pane.absent = 0 /\ pane.title = process[pane.channel]

(* A pane whose process is gone has counted the snapshots since.           *)
Counted(pane) ==
  pane.kind = "Application" /\ pane.channel \in Channels /\ ~Live(pane.channel) /\ pane.ran
    => pane.absent >= settled[pane.channel]

MarksTrue(pane) == EndedAtTwo(pane) /\ Trusted(pane) /\ Revived(pane) /\ Counted(pane)

IInv ==
  /\ Sound(desk)
  /\ LinkTyped
  /\ HeldIsKnown
  /\ RowsTrue
  /\ SettledIsQuiet
  /\ \A i \in DOMAIN desk.panes : MarksTrue(desk.panes[i])

LEMMA QuietRecord ==
  ASSUME LinkTyped, Record(FALSE)
  PROVE  /\ settled' \in [Channels -> 0..2]
         /\ \A channel \in Channels :
              \/ settled'[channel] = 0 /\ channel \in changed'
              \/ /\ settled'[channel] = settled[channel]
                 /\ channel \in changed' <=> channel \in changed
                 /\ process'[channel] = process[channel]
                 /\ Owned(desk, channel) <=> Owned(desk', channel)
                 /\ Held(desk, channel) <=> Held(desk', channel)
<1>1. /\ changed' = changed \cup Touched(FALSE)
      /\ settled' = [channel \in Channels |->
                       IF channel \in Touched(FALSE) THEN 0 ELSE settled[channel]]
      /\ settled \in [Channels -> 0..2]
  BY DEF Record, LinkTyped
<1>2. ASSUME NEW channel \in Channels, channel \notin Touched(FALSE)
      PROVE  /\ process'[channel] = process[channel]
             /\ Owned(desk, channel) <=> Owned(desk', channel)
             /\ Held(desk, channel) <=> Held(desk', channel)
  <2>1. process'[channel] = process[channel]
    BY <1>2 DEF Touched
  <2>2. Owned(desk, channel) = Owned(desk', channel)
    BY <1>2, Zenon DEF Touched
  <2>3. Held(desk, channel) = Held(desk', channel)
    BY <1>2, Zenon DEF Touched
  <2>4. Owned(desk, channel) <=> Owned(desk', channel)
    BY <2>2, Zenon
  <2>5. Held(desk, channel) <=> Held(desk', channel)
    BY <2>3, Zenon
  <2> QED
    BY <2>1, <2>4, <2>5, Zenon
<1>3. settled' \in [Channels -> 0..2]
  <2>1. /\ settled' = [channel \in Channels |-> settled'[channel]]
        /\ \A channel \in Channels :
             settled'[channel] = 0 \/ settled'[channel] = settled[channel]
    BY <1>1
  <2>2. ASSUME NEW channel \in Channels
        PROVE  settled'[channel] \in 0..2
    <3>1. settled[channel] \in 0..2
      BY <1>1
    <3> QED
      BY <2>1, <3>1
  <2> QED
    BY <2>1, <2>2
<1> QED
  BY <1>1, <1>2, <1>3

(* The pane that bears a channel's output is one.                          *)
LEMMA OnePane ==
  ASSUME NEW d, Sound(d), NEW i \in DOMAIN d.panes, d.panes[i].kind = "Application",
         Held(d, d.panes[i].channel)
  PROVE  d.panes[i].ran
  BY DEF Sound, Ordered, Unique, Held

(* A step that publishes nothing and changes no process.                   *)
LEMMA GrownStep ==
  ASSUME IInv, Sound(desk'), NEW written,
         \A j \in DOMAIN desk'.panes :
            \/ IsOld(desk.panes, desk'.panes[j], written)
            \/ /\ IsNew(desk.panes, desk'.panes[j], written)
               /\ desk'.panes[j].ran => Live(desk'.panes[j].channel),
         UNCHANGED <<process, pending>>, Record(FALSE),
         \A channel \in Channels :
            channel \in stale => channel \in stale' \/ ~Owned(desk', channel),
         \A channel \in Channels : channel \in written => Live(channel) \/ channel \in stale'
  PROVE  IInv'
<1>1. LinkTyped'
  BY QuietRecord DEF IInv, LinkTyped
<1>2. \A channel \in Channels : Live(channel)' <=> Live(channel)
  BY DEF Live
<1>4. \A j \in DOMAIN desk'.panes : desk'.panes[j] \in Pane
  BY PaneAt
<1>5. \A i \in DOMAIN desk.panes : desk.panes[i] \in Pane
  BY PaneAt DEF IInv
<1>6. HeldIsKnown'
  <2> SUFFICES ASSUME NEW channel \in Channels, Held(desk', channel), ~Live(channel)
               PROVE  channel \in stale'
    BY <1>2 DEF HeldIsKnown
  <2>1. PICK j \in DOMAIN desk'.panes : /\ desk'.panes[j].kind = "Application"
                                        /\ desk'.panes[j].channel = channel
                                        /\ desk'.panes[j].ran
    BY DEF Held
  <2>2. Owned(desk', channel)
    BY <2>1 DEF Owned
  <2>3. CASE channel \in written
    BY <2>3
  <2>4. CASE Held(desk, channel)
    BY <2>2, <2>4 DEF IInv, HeldIsKnown
  <2>5. CASE IsOld(desk.panes, desk'.panes[j], written)
    BY <2>1, <2>3, <2>4, <2>5 DEF IsOld, Kept, Held
  <2>6. CASE IsNew(desk.panes, desk'.panes[j], written)
    BY <2>1, <2>3, <2>6 DEF IsNew
  <2> QED
    BY <2>5, <2>6
<1>7. RowsTrue'
  BY <1>2, QuietRecord DEF IInv, RowsTrue
<1>8. SettledIsQuiet'
  BY QuietRecord DEF IInv, SettledIsQuiet
<1>9. ASSUME NEW j \in DOMAIN desk'.panes
      PROVE  MarksTrue(desk.panes[j])'
  <2> DEFINE pane == desk'.panes[j]
  <2>0. pane \in Pane /\ pane.channel \in Own
    BY <1>4 DEF Pane, Own
  <2>1. CASE IsOld(desk.panes, pane, written)
    <3>1. PICK i \in DOMAIN desk.panes :
            /\ Kept(desk.panes[i], pane)
            /\ pane.ran => desk.panes[i].ran \/ pane.channel \in written
      BY <2>1 DEF IsOld
    <3>2. MarksTrue(desk.panes[i])
      BY DEF IInv
    <3>3. EndedAtTwo(desk.panes[j])'
      BY <3>1, <3>2 DEF Kept, MarksTrue, EndedAtTwo
    <3>4. Trusted(desk.panes[j])'
      <4> SUFFICES ASSUME pane.kind = "Application", pane.channel \in Channels \ stale'
                   PROVE  \/ pane.absent = 0
                          \/ /\ Live(pane.channel) /\ pane.absent = 1
                             /\ pending.open => pane.channel \in pending.left \cup DOMAIN pending.rows
        BY <1>2 DEF Trusted
      <4>1. Owned(desk', pane.channel)
        BY DEF Owned
      <4>2. pane.channel \notin stale
        BY <4>1
      <4> QED
        BY <3>1, <3>2, <4>2 DEF MarksTrue, Trusted, Kept
    <3>5. Revived(desk.panes[j])'
      <4> SUFFICES ASSUME pane.kind = "Application", pane.channel \in Channels,
                          Live(pane.channel), settled'[pane.channel] >= 1
                   PROVE  pane.absent = 0 /\ pane.title = process[pane.channel]
        BY <1>2 DEF Revived
      <4>1. settled[pane.channel] >= 1
        BY QuietRecord DEF IInv
      <4> QED
        BY <3>1, <3>2, <4>1 DEF MarksTrue, Revived, Kept
    <3>6. Counted(desk.panes[j])'
      <4> SUFFICES ASSUME pane.kind = "Application", pane.channel \in Channels,
                          ~Live(pane.channel), pane.ran
                   PROVE  pane.absent >= settled'[pane.channel]
        BY <1>2 DEF Counted
      <4>1. CASE settled'[pane.channel] = 0
        BY <2>0, <4>1 DEF Pane
      <4>2. CASE settled'[pane.channel] = settled[pane.channel]
                 /\ (Held(desk, pane.channel) <=> Held(desk', pane.channel))
        <5>1. Held(desk', pane.channel)
          BY DEF Held
        <5>2. desk.panes[i].ran
          BY <3>1, <4>2, <5>1, OnePane DEF IInv, Kept
        <5> QED
          BY <3>1, <3>2, <4>2, <5>2 DEF MarksTrue, Counted, Kept
      <4> QED
        BY <4>1, <4>2, QuietRecord DEF IInv
    <3> QED
      BY <3>3, <3>4, <3>5, <3>6 DEF MarksTrue
  <2>2. CASE IsNew(desk.panes, pane, written) /\ (pane.ran => Live(pane.channel))
    <3>1. pane.ended = FALSE /\ pane.absent = 0
      BY <2>2 DEF IsNew, Unmarked
    <3>2. EndedAtTwo(desk.panes[j])'
      BY <3>1 DEF EndedAtTwo
    <3>3. Trusted(desk.panes[j])'
      BY <3>1 DEF Trusted
    <3>4. ASSUME pane.kind = "Application", pane.channel \in Channels,
                 settled'[pane.channel] >= 1
          PROVE  \E i \in DOMAIN desk.panes :
                   /\ desk.panes[i].kind = "Application"
                   /\ desk.panes[i].channel = pane.channel
                   /\ desk.panes[i].absent # 0
                   /\ settled[pane.channel] = settled'[pane.channel]
      <4>1. Owned(desk', pane.channel)
        BY <3>4 DEF Owned
      <4>2. Owned(desk, pane.channel) /\ settled[pane.channel] = settled'[pane.channel]
        BY <3>4, <4>1, QuietRecord DEF IInv
      <4>3. PICK i \in DOMAIN desk.panes : /\ desk.panes[i].kind = "Application"
                                           /\ desk.panes[i].channel = pane.channel
        BY <4>2 DEF Owned
      <4>4. desk.panes[i].ended
        BY <2>2, <3>4, <4>3 DEF IsNew
      <4>5. EndedAtTwo(desk.panes[i])
        BY DEF IInv, MarksTrue
      <4>6. desk.panes[i].absent # 0
        BY <4>4, <4>5 DEF EndedAtTwo
      <4> QED
        BY <4>2, <4>3, <4>6
    <3>5. Revived(desk.panes[j])'
      <4> SUFFICES ASSUME pane.kind = "Application", pane.channel \in Channels,
                          Live(pane.channel), settled'[pane.channel] >= 1
                   PROVE  FALSE
        BY <1>2 DEF Revived
      <4>1. PICK i \in DOMAIN desk.panes : /\ desk.panes[i].kind = "Application"
                                           /\ desk.panes[i].channel = pane.channel
                                           /\ desk.panes[i].absent # 0
                                           /\ settled[pane.channel] = settled'[pane.channel]
        BY <3>4
      <4>2. Revived(desk.panes[i])
        BY DEF IInv, MarksTrue
      <4> QED
        BY <4>1, <4>2 DEF Revived
    <3>6. Counted(desk.panes[j])'
      BY <1>2, <2>2 DEF Counted
    <3> QED
      BY <3>2, <3>3, <3>5, <3>6 DEF MarksTrue
  <2> QED
    BY <2>1, <2>2
<1> QED
  BY <1>1, <1>6, <1>7, <1>8, <1>9 DEF IInv

(* A step of the processes alone.                                          *)
LEMMA ProcessStep ==
  ASSUME IInv, desk' = desk, Record(FALSE),
         process' \in [Channels -> Names \cup {NoProcess}],
         pending' = pending \/ pending' = NoSnapshot,
         \A channel \in Channels : channel \in stale => channel \in stale',
         \A channel \in Channels : process'[channel] # process[channel] =>
            \/ ~Live(channel) /\ process'[channel] # NoProcess
            \/ Owned(desk, channel) => channel \in stale'
  PROVE  IInv'
<1>1. LinkTyped'
  <2>1. settled' \in [Channels -> 0..2]
    BY QuietRecord DEF IInv
  <2>2. CASE pending' = pending
    BY <2>1, <2>2 DEF IInv, LinkTyped
  <2>3. CASE pending' = NoSnapshot
    BY <2>1, <2>3 DEF LinkTyped, NoSnapshot
  <2> QED
    BY <2>2, <2>3
<1>2. \A channel \in Channels : Live(channel)' <=> process'[channel] # NoProcess
  BY DEF Live
<1>3. HeldIsKnown'
  <2> SUFFICES ASSUME NEW channel \in Channels, Held(desk, channel), ~Live(channel)'
               PROVE  channel \in stale'
    BY DEF HeldIsKnown
  <2>1. Owned(desk, channel)
    BY DEF Held, Owned
  <2>2. CASE process'[channel] = process[channel]
    BY <2>2 DEF IInv, HeldIsKnown, Live
  <2> QED
    BY <1>2, <2>1, <2>2
<1>4. pending'.open => pending' = pending
  BY DEF NoSnapshot
<1>5. RowsTrue'
  <2> SUFFICES ASSUME pending.open, pending' = pending,
                      NEW channel \in Channels, channel \notin changed'
               PROVE  \/ channel \in pending.left
                      \/ /\ process'[channel] # NoProcess /\ channel \in DOMAIN pending.rows
                         /\ pending.rows[channel] = process'[channel]
                      \/ process'[channel] = NoProcess /\ channel \notin DOMAIN pending.rows
    BY <1>2, <1>4 DEF RowsTrue
  <2>1. channel \notin changed /\ process'[channel] = process[channel]
    BY QuietRecord DEF IInv
  <2> QED
    BY <2>1 DEF IInv, RowsTrue, Live
<1>6. SettledIsQuiet'
  <2> SUFFICES ASSUME pending.open, NEW channel \in Channels, settled'[channel] >= 1
               PROVE  channel \notin changed'
    BY <1>4 DEF SettledIsQuiet
  <2> QED
    BY QuietRecord DEF IInv, SettledIsQuiet
<1>7. ASSUME NEW i \in DOMAIN desk.panes
      PROVE  MarksTrue(desk.panes[i])'
  <2> DEFINE pane    == desk.panes[i]
             channel == pane.channel
  <2>1. MarksTrue(pane) /\ pane \in Pane
    BY PaneAt DEF IInv
  <2>2. EndedAtTwo(desk.panes[i])'
    BY <2>1 DEF MarksTrue, EndedAtTwo
  <2>3. pane.kind = "Application" => Owned(desk, channel)
    BY DEF Owned
  <2>4. Trusted(desk.panes[i])'
    <3> SUFFICES ASSUME pane.kind = "Application", channel \in Channels, channel \notin stale'
                 PROVE  \/ pane.absent = 0
                        \/ /\ process'[channel] # NoProcess /\ pane.absent = 1
                           /\ pending'.open =>
                                channel \in pending.left \cup DOMAIN pending.rows
      BY <1>2, <1>4 DEF Trusted
    <3>1. channel \notin stale
      OBVIOUS
    <3>2. pane.absent = 0 \/ (/\ Live(channel) /\ pane.absent = 1
                              /\ pending.open =>
                                   channel \in pending.left \cup DOMAIN pending.rows)
      BY <2>1, <3>1 DEF MarksTrue, Trusted
    <3>3. CASE process'[channel] = process[channel]
      BY <1>4, <3>2, <3>3 DEF Live
    <3> QED
      BY <2>3, <3>2, <3>3
  <2>5. Revived(desk.panes[i])'
    <3> SUFFICES ASSUME pane.kind = "Application", channel \in Channels,
                        process'[channel] # NoProcess, settled'[channel] >= 1
                 PROVE  pane.absent = 0 /\ pane.title = process'[channel]
      BY <1>2 DEF Revived
    <3>1. settled[channel] >= 1 /\ process'[channel] = process[channel]
      BY QuietRecord DEF IInv
    <3> QED
      BY <2>1, <3>1 DEF MarksTrue, Revived, Live
  <2>6. Counted(desk.panes[i])'
    <3> SUFFICES ASSUME pane.kind = "Application", channel \in Channels,
                        process'[channel] = NoProcess, pane.ran
                 PROVE  pane.absent >= settled'[channel]
      BY <1>2 DEF Counted
    <3>1. CASE settled'[channel] = 0
      BY <2>1, <3>1 DEF Pane
    <3>2. CASE settled'[channel] = settled[channel] /\ process'[channel] = process[channel]
      BY <2>1, <3>2 DEF MarksTrue, Counted, Live
    <3> QED
      BY <3>1, <3>2, QuietRecord DEF IInv
  <2> QED
    BY <2>2, <2>4, <2>5, <2>6 DEF MarksTrue
<1> QED
  BY <1>1, <1>3, <1>5, <1>6, <1>7 DEF IInv

(* The step that publishes a generation.                                   *)
LEMMA PublishStep ==
  ASSUME IInv, EndpointsFit, SnapshotEnd
  PROVE  IInv'
<1> DEFINE rows == pending.rows
<1>1. /\ pending.open /\ pending.left = {} /\ pending' = NoSnapshot
      /\ desk' = Follow(desk, rows)
      /\ stale' = stale \cup {c \in DOMAIN rows : ~Live(c) /\ Owned(desk, c)}
      /\ process' = process
      /\ Record(TRUE)
  BY DEF SnapshotEnd
<1>2. /\ DOMAIN rows \subseteq Channels
      /\ \A channel \in DOMAIN rows : rows[channel] \in Names
  BY DEF IInv, LinkTyped
<1>3. Sound(desk')
  BY <1>1, <1>2, FollowSound DEF IInv
<1>4. /\ DOMAIN desk'.panes = DOMAIN desk.panes
      /\ \A i \in DOMAIN desk.panes : desk'.panes[i] = FollowedPane(desk.panes[i], rows)
  BY <1>1 DEF Follow, IInv, Sound, Desks
<1>5. \A i \in DOMAIN desk.panes : desk.panes[i] \in Pane /\ MarksTrue(desk.panes[i])
  BY PaneAt DEF IInv
<1>6. \A i \in DOMAIN desk.panes :
        /\ desk'.panes[i].kind = desk.panes[i].kind
        /\ desk'.panes[i].channel = desk.panes[i].channel
  BY <1>2, <1>4, <1>5, FollowedTyped
<1>7. /\ settled' \in [Channels -> 0..2]
      /\ \A channel \in Channels : settled'[channel] >= 1 =>
           /\ channel \notin changed
           /\ settled'[channel] <= settled[channel] + 1
  <2>0. settled \in [Channels -> 0..2]
    BY DEF IInv, LinkTyped
  <2>1. /\ settled' = [channel \in Channels |-> settled'[channel]]
        /\ \A channel \in Channels : settled'[channel] =
             IF channel \in Touched(TRUE) THEN 0
             ELSE IF channel \notin changed /\ settled[channel] < 2
                  THEN settled[channel] + 1
                  ELSE settled[channel]
    BY <1>1 DEF Record
  <2>2. \A channel \in Channels :
          \/ settled'[channel] = 0
          \/ settled'[channel] = settled[channel]
          \/ /\ channel \notin changed /\ settled[channel] < 2
             /\ settled'[channel] = settled[channel] + 1
    BY <2>1
  <2>3. settled' \in [Channels -> 0..2]
    <3>1. ASSUME NEW channel \in Channels
          PROVE  settled'[channel] \in 0..2
      <4>1. settled[channel] \in 0..2
        BY <2>0
      <4> QED
        BY <2>2, <4>1
    <3> QED
      BY <2>1, <3>1
  <2>4. ASSUME NEW channel \in Channels, settled'[channel] >= 1
        PROVE  channel \notin changed /\ settled'[channel] <= settled[channel] + 1
    <3>1. settled[channel] \in 0..2
      BY <2>0
    <3>2. settled[channel] >= 1 => channel \notin changed
      BY <1>1 DEF IInv, SettledIsQuiet
    <3> QED
      BY <2>2, <2>4, <3>1, <3>2
  <2> QED
    BY <2>3, <2>4
<1>8. LinkTyped'
  BY <1>1, <1>7 DEF IInv, LinkTyped, NoSnapshot
<1>9. \A channel \in Channels : Live(channel)' <=> Live(channel)
  BY <1>1 DEF Live
<1>10. RowsTrue' /\ SettledIsQuiet'
  BY <1>1 DEF RowsTrue, SettledIsQuiet, NoSnapshot
<1>11. HeldIsKnown'
  <2> SUFFICES ASSUME NEW channel \in Channels, Held(desk', channel), ~Live(channel)
               PROVE  channel \in stale'
    BY <1>9 DEF HeldIsKnown
  <2>1. PICK i \in DOMAIN desk.panes : /\ desk'.panes[i].kind = "Application"
                                       /\ desk'.panes[i].channel = channel
                                       /\ desk'.panes[i].ran
    BY <1>4 DEF Held
  <2>2. desk.panes[i].kind = "Application" /\ desk.panes[i].channel = channel
    BY <1>6, <2>1
  <2>3. Owned(desk, channel)
    BY <2>2 DEF Owned
  <2>4. CASE channel \in DOMAIN rows
    BY <1>1, <2>3, <2>4
  <2>5. CASE channel \notin DOMAIN rows
    <3>0. desk.panes[i] \in Pane
      BY <1>5
    <3>1. desk'.panes[i] = IF desk.panes[i].ran THEN Missed(desk.panes[i]) ELSE desk.panes[i]
      BY <1>2, <1>4, <2>2, <2>5, <3>0, FollowedMarks
    <3>11. desk.panes[i].ran
      BY <2>1, <3>1
    <3>2. Held(desk, channel)
      BY <2>2, <3>11 DEF Held
    <3> QED
      BY <1>1, <3>2 DEF IInv, HeldIsKnown
  <2> QED
    BY <2>4, <2>5
<1>12. ASSUME NEW i \in DOMAIN desk.panes
       PROVE  MarksTrue(desk.panes[i])'
  <2> DEFINE pane    == desk.panes[i]
             later   == desk'.panes[i]
             channel == pane.channel
  <2>0. pane \in Pane
    BY <1>5
  <2>1. pane \in Pane /\ MarksTrue(pane)
    BY <1>5
  <2>2. later = FollowedPane(pane, rows) /\ later.kind = pane.kind /\ later.channel = channel
    BY <1>4, <1>6
  <2>3. CASE pane.kind # "Application"
    <3>1. later = pane
      BY <1>2, <2>1, <2>2, <2>3, FollowedMarks
    <3> QED
      BY <2>1, <2>3, <3>1 DEF MarksTrue, EndedAtTwo, Trusted, Revived, Counted
  <2>4. CASE pane.kind = "Application" /\ channel \in DOMAIN rows
    <3>0. LET followed == FollowedPane(pane, rows)
          IN  followed.ended = FALSE /\ followed.absent = 0 /\ followed.title = rows[channel]
      BY <1>2, <2>0, <2>4, FollowedMarks
    <3>1. later.ended = FALSE /\ later.absent = 0 /\ later.title = rows[channel]
      BY <2>2, <3>0
    <3>2. EndedAtTwo(desk.panes[i])' /\ Trusted(desk.panes[i])'
      BY <3>1 DEF EndedAtTwo, Trusted
    <3>3. ASSUME settled'[channel] >= 1
          PROVE  Live(channel) /\ rows[channel] = process[channel]
      BY <1>1, <1>2, <1>7, <2>4, <3>3 DEF IInv, RowsTrue
    <3>4. Revived(desk.panes[i])'
      BY <1>1, <2>2, <3>1, <3>3 DEF Revived
    <3>5. Counted(desk.panes[i])'
      <4> SUFFICES ASSUME ~Live(channel)
                   PROVE  0 >= settled'[channel]
        BY <1>9, <2>2, <3>1 DEF Counted
      <4>1. settled'[channel] \in 0..2
        BY <1>2, <1>7, <2>4
      <4> QED
        BY <3>3, <4>1
    <3> QED
      BY <3>2, <3>4, <3>5 DEF MarksTrue
  <2>5. CASE pane.kind = "Application" /\ channel \notin DOMAIN rows
    <3>1. later = IF pane.ran THEN Missed(pane) ELSE pane
      BY <1>2, <2>1, <2>2, <2>5, FollowedMarks
    <3>2. pane.absent \in 0..AbsentMax
      BY <2>1 DEF Pane
    <3>3. EndedAtTwo(desk.panes[i])'
      <4>1. CASE pane.ran
        <5>1. /\ later.absent = SaturatingInc(pane.absent)
              /\ IF SaturatingInc(pane.absent) >= 2
                 THEN later.ended = TRUE ELSE later.ended = FALSE
          BY <2>1, <3>1, <4>1, MissedMarks
        <5> QED
          BY <5>1 DEF EndedAtTwo
      <4>2. CASE ~pane.ran
        BY <2>1, <3>1, <4>2 DEF EndedAtTwo, MarksTrue
      <4> QED
        BY <4>1, <4>2
    <3>4. Trusted(desk.panes[i])'
      <4> SUFFICES ASSUME channel \in Channels, channel \notin stale'
                   PROVE  later.absent = 0 \/ (Live(channel) /\ later.absent = 1)
        BY <1>1, <1>9, <2>2 DEF Trusted, NoSnapshot
      <4>1. channel \notin stale
        BY <1>1
      <4>2. pane.absent = 0
        BY <1>1, <2>1, <2>5, <4>1 DEF MarksTrue, Trusted
      <4>3. CASE pane.ran
        <5>1. Held(desk, channel)
          BY <2>5, <4>3 DEF Held
        <5>2. Live(channel)
          BY <4>1, <5>1 DEF IInv, HeldIsKnown
        <5>3. later.absent = 1
          BY <2>1, <3>1, <3>2, <4>2, <4>3, MissedMarks, CountUp
        <5> QED
          BY <5>2, <5>3
      <4>4. CASE ~pane.ran
        BY <3>1, <4>2, <4>4
      <4> QED
        BY <4>3, <4>4
    <3>5. ASSUME channel \in Channels, settled'[channel] >= 1
          PROVE  ~Live(channel)
      BY <1>1, <1>7, <2>5, <3>5 DEF IInv, RowsTrue
    <3>6. Revived(desk.panes[i])'
      BY <1>9, <2>2, <3>5 DEF Revived
    <3>7. Counted(desk.panes[i])'
      <4> SUFFICES ASSUME channel \in Channels, ~Live(channel), later.ran
                   PROVE  later.absent >= settled'[channel]
        BY <1>9, <2>2 DEF Counted
      <4>1. pane.ran
        BY <3>1
      <4>2. later.absent = SaturatingInc(pane.absent)
        BY <2>1, <3>1, <4>1, MissedMarks
      <4>3. settled[channel] \in 0..2 /\ settled'[channel] \in 0..2
        BY <1>7 DEF IInv, LinkTyped
      <4>4. pane.absent >= settled[channel]
        BY <2>1, <2>5, <4>1 DEF MarksTrue, Counted
      <4>5. settled'[channel] >= 1 => settled'[channel] <= settled[channel] + 1
        BY <1>7
      <4>6. /\ SaturatingInc(pane.absent) \in Nat
            /\ SaturatingInc(pane.absent) >= pane.absent
            /\ pane.absent >= 1 => SaturatingInc(pane.absent) >= 2
            /\ SaturatingInc(pane.absent) >= 1
        BY <3>2, CountUp
      <4> QED
        BY <3>2, <4>2, <4>3, <4>4, <4>5, <4>6
    <3> QED
      BY <3>3, <3>4, <3>6, <3>7 DEF MarksTrue
  <2> QED
    BY <2>3, <2>4, <2>5
<1> QED
  BY <1>3, <1>4, <1>8, <1>10, <1>11, <1>12 DEF IInv

-----------------------------------------------------------------------------
(* The steps.                                                              *)

LEMMA InitialInv == Init => IInv
<1> SUFFICES ASSUME Init PROVE IInv
  OBVIOUS
<1>2. \A i \in DOMAIN desk.panes : desk.panes[i] = SystemPane(SystemKinds[i])
  BY DEF Init, InitialDesk
<1>3. Sound(desk)
  BY InitialSound DEF Init
<1>4. LinkTyped
  <2>1. /\ process = [channel \in Channels |-> NoProcess]
        /\ settled = [channel \in Channels |-> 0]
        /\ pending = [open |-> FALSE, left |-> {}, rows |-> <<>>]
    BY DEF Init, NoSnapshot
  <2>2. settled \in [Channels -> 0..2] /\ process \in [Channels -> Names \cup {NoProcess}]
    BY <2>1
  <2>3. /\ pending = [open |-> pending.open, left |-> pending.left, rows |-> pending.rows]
        /\ pending.open \in BOOLEAN /\ pending.left = {} /\ DOMAIN pending.rows = {}
    BY <2>1
  <2> QED
    BY <2>2, <2>3 DEF LinkTyped
<1>5. \A i \in DOMAIN desk.panes : Unmarked(desk.panes[i]) /\ desk.panes[i].ran = FALSE
  <2> TAKE i \in DOMAIN desk.panes
  <2> DEFINE pane == SystemPane(SystemKinds[i])
  <2>1. desk.panes[i] = pane
    BY <1>2
  <2>2. pane.ended = FALSE /\ pane.absent = 0 /\ pane.ran = FALSE
    BY DEF SystemPane, NewPane
  <2> HIDE DEF pane
  <2> QED
    BY <2>1, <2>2 DEF Unmarked
<1>6. HeldIsKnown /\ RowsTrue /\ SettledIsQuiet
  BY <1>5 DEF HeldIsKnown, Held, RowsTrue, SettledIsQuiet, Init, NoSnapshot
<1>7. \A i \in DOMAIN desk.panes : MarksTrue(desk.panes[i])
  BY <1>5 DEF Unmarked, MarksTrue, EndedAtTwo, Trusted, Revived, Counted, Init, Live
<1> QED
  BY <1>3, <1>4, <1>6, <1>7 DEF IInv

(* The person changes the panes and marks none.                            *)
LEMMA RearrangedStep ==
  ASSUME IInv, NEW d, Rearranged(d), Sound(d), Grown(desk.panes, d.panes, {})
  PROVE  IInv'
<1>1. /\ desk' = d /\ stale' = stale \ Closed
      /\ UNCHANGED <<process, pending>> /\ Record(FALSE)
  BY DEF Rearranged
<1> DEFINE none == {}
<1>2. \A j \in DOMAIN desk'.panes :
        \/ IsOld(desk.panes, desk'.panes[j], none)
        \/ /\ IsNew(desk.panes, desk'.panes[j], none)
           /\ desk'.panes[j].ran => Live(desk'.panes[j].channel)
  BY <1>1 DEF Grown, IsNew
<1>3. \A channel \in Channels :
        channel \in stale => channel \in stale' \/ ~Owned(desk', channel)
  BY <1>1 DEF Closed
<1>4. Sound(desk')
  BY <1>1
<1>5. \A channel \in Channels : channel \in none => Live(channel) \/ channel \in stale'
  OBVIOUS
<1> HIDE DEF none
<1> QED
  BY <1>1, <1>2, <1>3, <1>4, <1>5, GrownStep

LEMMA OutputStep ==
  ASSUME IInv, NEW channel \in Channels, Output(channel)
  PROVE  IInv'
<1> DEFINE opened == OpenForOutput(desk, channel)
           pushed == PushChannel(opened, channel)
<1>1. /\ desk' = Unalerted(pushed) /\ Live(channel) /\ stale' = stale
      /\ UNCHANGED <<process, pending>> /\ Record(FALSE)
  BY DEF Output
<1>2. Sound(opened) /\ Keeps(desk.panes, opened.panes) /\ Grown(desk.panes, opened.panes, {})
  BY OpenSound, OpenGrown DEF IInv, Own
<1> HIDE DEF opened
<1>3. Sound(pushed) /\ Grown(opened.panes, pushed.panes, {channel})
  BY <1>2, PushSound, PushOld DEF Grown
<1> HIDE DEF pushed
<1>4. Grown(desk.panes, pushed.panes, {channel})
  BY <1>2, <1>3, GrownThenWritten
<1>5. Sound(desk') /\ Grown(desk.panes, desk'.panes, {channel})
  BY <1>1, <1>3, <1>4, UnalertedSound
<1>6. \A j \in DOMAIN desk'.panes :
        \/ IsOld(desk.panes, desk'.panes[j], {channel})
        \/ /\ IsNew(desk.panes, desk'.panes[j], {channel})
           /\ desk'.panes[j].ran => Live(desk'.panes[j].channel)
  BY <1>1, <1>5 DEF Grown, IsNew
<1> QED
  BY <1>1, <1>5, <1>6, GrownStep

LEMMA EchoStep ==
  ASSUME IInv, LocalEcho
  PROVE  IInv'
<1> DEFINE channel == desk.panes[desk.focus].channel
<1>1. /\ desk' = PushChannel(desk, channel)
      /\ stale' = stale \cup ({channel} \ {c \in Channels : Live(c)})
      /\ UNCHANGED <<process, pending>> /\ Record(FALSE)
  BY DEF LocalEcho, panes
<1> HIDE DEF channel
<1>2. Sound(desk')
  BY <1>1, PushSound DEF IInv
<1>3. \A j \in DOMAIN desk'.panes : IsOld(desk.panes, desk'.panes[j], {channel})
  BY <1>1, PushOld DEF IInv
<1>4. \A c \in Channels : c \in {channel} => Live(c) \/ c \in stale'
  BY <1>1
<1> QED
  BY <1>1, <1>2, <1>3, <1>4, GrownStep

LEMMA TargetStep ==
  ASSUME IInv, Target
  PROVE  IInv'
<1>1. process \in [Channels -> Names \cup {NoProcess}]
  BY DEF IInv, LinkTyped
<1>2. ASSUME NEW channel \in Channels, NEW name \in Names, Start(channel, name)
      PROVE  IInv'
  <2>1. /\ process' = [process EXCEPT ![channel] = name] /\ ~Live(channel) /\ name # NoProcess
        /\ UNCHANGED <<desk, pending, stale>> /\ Record(FALSE)
    BY <1>2, NoProcessAssumption DEF Start
  <2>2. process' \in [Channels -> Names \cup {NoProcess}]
    BY <1>1, <2>1
  <2> QED
    BY <1>1, <2>1, <2>2, ProcessStep
<1>3. ASSUME NEW channel \in Channels, Exit(channel)
      PROVE  IInv'
  <2>1. /\ process' = [process EXCEPT ![channel] = NoProcess]
        /\ stale' = stale \cup {c \in {channel} : Owned(desk, c)}
        /\ UNCHANGED <<desk, pending>> /\ Record(FALSE)
    BY <1>3 DEF Exit
  <2>2. process' \in [Channels -> Names \cup {NoProcess}]
    BY <1>1, <2>1
  <2> QED
    BY <1>1, <2>1, <2>2, ProcessStep
<1>4. ASSUME Reboot
      PROVE  IInv'
  <2>1. /\ process' = [channel \in Channels |-> NoProcess]
        /\ stale' = stale \cup {channel \in Channels : Live(channel) /\ Owned(desk, channel)}
        /\ desk' = desk /\ pending' = NoSnapshot /\ Record(FALSE)
    BY <1>4 DEF Reboot
  <2>2. process' \in [Channels -> Names \cup {NoProcess}]
    BY <2>1
  <2>3. \A channel \in Channels : process'[channel] # process[channel] =>
          (Owned(desk, channel) => channel \in stale')
    BY <2>1 DEF Live
  <2> QED
    BY <2>1, <2>2, <2>3, ProcessStep
<1> QED
  BY <1>2, <1>3, <1>4 DEF Target

LEMMA BeginStep ==
  ASSUME IInv, SnapshotBegin
  PROVE  IInv'
<1>1. /\ pending' = [open |-> TRUE, left |-> Channels, rows |-> <<>>] /\ changed' = {}
      /\ ~pending.open
      /\ desk' = desk /\ process' = process /\ stale' = stale /\ settled' = settled
  BY DEF SnapshotBegin
<1>2. LinkTyped'
  BY <1>1 DEF IInv, LinkTyped
<1>3. RowsTrue' /\ SettledIsQuiet'
  BY <1>1 DEF RowsTrue, SettledIsQuiet
<1>4. HeldIsKnown' /\ Sound(desk')
  BY <1>1 DEF IInv, HeldIsKnown, Live
<1>5. ASSUME NEW i \in DOMAIN desk.panes
      PROVE  MarksTrue(desk.panes[i])'
  <2>1. MarksTrue(desk.panes[i])
    BY DEF IInv
  <2> QED
    BY <1>1, <2>1 DEF MarksTrue, EndedAtTwo, Trusted, Revived, Counted, Live
<1> QED
  BY <1>1, <1>2, <1>3, <1>4, <1>5 DEF IInv

LEMMA RowStep ==
  ASSUME IInv, SnapshotRow
  PROVE  IInv'
<1> DEFINE row    == CHOOSE c \in pending.left : \A e \in pending.left : c <= e
           listed == DOMAIN pending.rows \cup {row}
           rows   == IF Live(row)
                     THEN [c \in listed |-> IF c = row THEN process[c] ELSE pending.rows[c]]
                     ELSE pending.rows
<1>1. LinkTyped
  BY DEF IInv
<1>2. row \in pending.left /\ row \in Channels
  <2>1. pending.left \in SUBSET Nat /\ pending.left # {}
    BY <1>1, ChannelAssumption DEF SnapshotRow, LinkTyped
  <2>2. row \in pending.left
    BY <2>1, LeastExists
  <2> QED
    BY <1>1, <2>2 DEF LinkTyped
<1>3. /\ pending' = [pending EXCEPT !.left = @ \ {row}, !.rows = rows] /\ pending.open
      /\ desk' = desk /\ process' = process
      /\ stale' = stale /\ settled' = settled /\ changed' = changed
  BY DEF SnapshotRow, history
<1>4. Live(row) => process[row] \in Names
  BY <1>1, <1>2 DEF Live, LinkTyped
<1>5. /\ DOMAIN rows \subseteq Channels
      /\ \A channel \in DOMAIN rows : rows[channel] \in Names
      /\ \A channel \in Channels : channel # row =>
           /\ channel \in DOMAIN rows <=> channel \in DOMAIN pending.rows
           /\ channel \in DOMAIN rows => rows[channel] = pending.rows[channel]
      /\ Live(row) => row \in DOMAIN rows /\ rows[row] = process[row]
  <2>1. CASE Live(row)
    <3>1. /\ DOMAIN rows = listed
          /\ \A c \in listed : rows[c] = IF c = row THEN process[c] ELSE pending.rows[c]
      BY <2>1
    <3>2. DOMAIN pending.rows \subseteq Channels
          /\ \A c \in DOMAIN pending.rows : pending.rows[c] \in Names
      BY <1>1 DEF LinkTyped
    <3> HIDE DEF rows, row
    <3> QED
      BY <1>2, <1>4, <2>1, <3>1, <3>2
  <2>2. CASE ~Live(row)
    BY <1>1, <2>2 DEF LinkTyped
  <2> QED
    BY <2>1, <2>2
<1> HIDE DEF row, rows
<1>6. pending' = [open |-> TRUE, left |-> pending.left \ {row}, rows |-> rows]
  BY <1>1, <1>3 DEF LinkTyped
<1>7. LinkTyped'
  BY <1>1, <1>3, <1>5, <1>6 DEF LinkTyped
<1>8. \A channel \in Channels : Live(channel)' <=> Live(channel)
  BY <1>3 DEF Live
<1>9. HeldIsKnown' /\ Sound(desk')
  BY <1>3 DEF IInv, HeldIsKnown, Live
<1>10. RowsTrue'
  <2> SUFFICES ASSUME NEW channel \in Channels \ changed
               PROVE  \/ channel \in pending.left \ {row}
                      \/ /\ Live(channel) /\ channel \in DOMAIN rows
                         /\ rows[channel] = process[channel]
                      \/ ~Live(channel) /\ channel \notin DOMAIN rows
    BY <1>3, <1>6, <1>8 DEF RowsTrue
  <2>1. CASE channel = row
    <3>1. ~Live(row) => rows = pending.rows
      BY DEF rows
    <3> QED
      BY <1>1, <1>2, <1>5, <2>1, <3>1 DEF LinkTyped
  <2>2. CASE channel # row
    BY <1>3, <1>5, <2>2 DEF IInv, RowsTrue
  <2> QED
    BY <2>1, <2>2
<1>11. SettledIsQuiet'
  BY <1>3, <1>6 DEF IInv, SettledIsQuiet
<1>12. ASSUME NEW i \in DOMAIN desk.panes
       PROVE  MarksTrue(desk.panes[i])'
  <2> DEFINE pane    == desk.panes[i]
             channel == pane.channel
  <2>1. MarksTrue(pane)
    BY DEF IInv
  <2>2. EndedAtTwo(desk.panes[i])' /\ Revived(desk.panes[i])' /\ Counted(desk.panes[i])'
    BY <1>3, <2>1 DEF MarksTrue, EndedAtTwo, Revived, Counted, Live
  <2>3. Trusted(desk.panes[i])'
    <3> SUFFICES ASSUME pane.kind = "Application", channel \in Channels \ stale,
                        pane.absent # 0
                 PROVE  Live(channel) /\ pane.absent = 1
                        /\ channel \in (pending.left \ {row}) \cup DOMAIN rows
      BY <1>3, <1>6, <1>8 DEF Trusted
    <3>1. /\ Live(channel) /\ pane.absent = 1
          /\ channel \in pending.left \cup DOMAIN pending.rows
      BY <1>3, <2>1 DEF MarksTrue, Trusted
    <3> QED
      BY <1>5, <3>1
  <2> QED
    BY <2>2, <2>3 DEF MarksTrue
<1> QED
  BY <1>3, <1>7, <1>9, <1>10, <1>11, <1>12 DEF IInv

-----------------------------------------------------------------------------
(* The theorems.                                                           *)

LEMMA OccupancyInvariant ==
  ASSUME EndpointsFit
  PROVE  Spec => []IInv
<1>1. IInv /\ [Next]_vars => IInv'
  <2> SUFFICES ASSUME IInv, [Next]_vars
               PROVE  IInv'
    OBVIOUS
  <2>1. CASE Target
    BY <2>1, TargetStep
  <2>2. CASE Frames
    BY <2>2, OutputStep, BeginStep, RowStep, PublishStep DEF Frames
  <2>3. CASE Person
    <3>1. Sound(desk)
      BY DEF IInv
    <3>2. ASSUME NEW n \in DOMAIN panes, FocusPane(n)
          PROVE  IInv'
      <4> DEFINE d == [desk EXCEPT !.focus = n]
      <4>1. d \in Desks /\ d.panes = desk.panes /\ d.focus = n
        BY <3>1 DEF Sound, Desks, Ordered, panes
      <4>2. Rearranged(d) /\ n \in DOMAIN desk.panes
        BY <3>2 DEF FocusPane, panes
      <4> HIDE DEF d
      <4>3. Sound(d)
        BY <3>1, <4>1, <4>2 DEF Sound
      <4>4. Grown(desk.panes, d.panes, {})
        BY <4>1, StaysOld DEF Grown
      <4> QED
        BY <4>2, <4>3, <4>4, RearrangedStep
    <3>3. CASE ClosePane
      BY <3>1, <3>3, CloseFocusedSound, CloseFocusedGrown, RearrangedStep DEF ClosePane
    <3>4. CASE SweepEnded
      BY <3>1, <3>4, CloseEndedSound, CloseEndedGrown, RearrangedStep DEF SweepEnded
    <3>5. CASE Restore
      BY <3>1, <3>5, RestoreSound, RestoreGrown, RearrangedStep DEF Restore, Sound
    <3>6. CASE LocalEcho
      BY <3>6, EchoStep
    <3> QED
      BY <2>3, <3>2, <3>3, <3>4, <3>5, <3>6 DEF Person
  <2>4. CASE UNCHANGED vars
    BY <2>4 DEF vars, history, IInv, LinkTyped, HeldIsKnown, RowsTrue, SettledIsQuiet,
                MarksTrue, EndedAtTwo, Trusted, Revived, Counted, Live
  <2> QED
    BY <2>1, <2>2, <2>3, <2>4 DEF Next
<1> QED
  BY InitialInv, <1>1, PTL DEF Spec

(* A pane without a past never says (ended): of the snapshots that miss a  *)
(* first process only one was begun before it started, and the code waits  *)
(* for two.                                                                *)
THEOREM FirstIsTrusted ==
  ASSUME EndpointsFit
  PROVE  Spec => []FirstProcessNeverFlickers
<1>1. IInv => FirstProcessNeverFlickers
  <2> SUFFICES ASSUME IInv, NEW channel \in Channels, channel \notin stale,
                      NEW i \in PaneOf(channel)
               PROVE  ~panes[i].ended
    BY DEF FirstProcessNeverFlickers, SaysEnded
  <2>1. i \in DOMAIN desk.panes /\ desk.panes[i] = panes[i]
        /\ panes[i].kind = "Application" /\ panes[i].channel = channel
    BY DEF PaneOf, panes
  <2>2. EndedAtTwo(panes[i]) /\ Trusted(panes[i])
    BY <2>1 DEF IInv, MarksTrue
  <2> QED
    BY <2>1, <2>2 DEF EndedAtTwo, Trusted
<1> QED
  BY OccupancyInvariant, <1>1, PTL

(* One whole generation begun after a process started takes (ended) off    *)
(* its pane and gives it the process's name, and nothing puts it back.     *)
THEOREM OneRevives ==
  ASSUME EndpointsFit
  PROVE  Spec => []SnapshotRevivesPane
<1>1. IInv => SnapshotRevivesPane
  <2> SUFFICES ASSUME IInv, NEW channel \in Channels, Live(channel), settled[channel] >= 1,
                      NEW i \in PaneOf(channel)
               PROVE  ~panes[i].ended /\ panes[i].title = process[channel]
    BY DEF SnapshotRevivesPane
  <2>1. i \in DOMAIN desk.panes /\ desk.panes[i] = panes[i]
        /\ panes[i].kind = "Application" /\ panes[i].channel = channel
    BY DEF PaneOf, panes
  <2>2. EndedAtTwo(panes[i]) /\ Revived(panes[i])
    BY <2>1 DEF IInv, MarksTrue
  <2> QED
    BY <2>1, <2>2 DEF EndedAtTwo, Revived
<1> QED
  BY OccupancyInvariant, <1>1, PTL

(* c spares every process that is the first on its channel or has been     *)
(* listed whole: its pane is not marked, and c closes only those that are. *)
THEOREM ListedAreSpared ==
  ASSUME EndpointsFit
  PROVE  Spec => SweepSparesListed
<1> DEFINE Spared ==
             \A channel \in Channels :
               Live(channel) /\ Owned(desk, channel)
               /\ (channel \notin stale \/ settled[channel] >= 1) => Owned(desk', channel)
<1>1. ASSUME IInv, SweepEnded
      PROVE  Spared
  <2> SUFFICES ASSUME NEW channel \in Channels, Live(channel), Owned(desk, channel),
                      channel \notin stale \/ settled[channel] >= 1
               PROVE  Owned(desk', channel)
    OBVIOUS
  <2> DEFINE e == CloseEnded(desk)
             keep == NotEnded(desk.panes)
  <2>1. desk' = e /\ Sound(desk)
    BY <1>1 DEF SweepEnded, Rearranged, IInv
  <2>2. PICK i \in DOMAIN desk.panes : /\ desk.panes[i].kind = "Application"
                                       /\ desk.panes[i].channel = channel
    BY DEF Owned
  <2>3. EndedAtTwo(desk.panes[i]) /\ Trusted(desk.panes[i]) /\ Revived(desk.panes[i])
    BY <1>1 DEF IInv, MarksTrue
  <2>4. ~desk.panes[i].ended
    BY <2>2, <2>3 DEF EndedAtTwo, Trusted, Revived
  <2>5. i \in keep
    BY <2>4 DEF NotEnded
  <2>6. keep # {} =>
          \E place \in [keep -> DOMAIN e.panes] : \A k \in keep : e.panes[place[k]] = desk.panes[k]
    BY <2>1, SweepLeaves
  <2> HIDE DEF e, keep
  <2>7. PICK place \in [keep -> DOMAIN e.panes] :
          \A k \in keep : e.panes[place[k]] = desk.panes[k]
    BY <2>5, <2>6
  <2>8. place[i] \in DOMAIN e.panes /\ e.panes[place[i]] = desk.panes[i]
    BY <2>5, <2>7
  <2> QED
    BY <2>1, <2>2, <2>8 DEF Owned
<1>2. IInv /\ [Next]_vars => [SweepEnded => Spared]_vars
  BY <1>1
<1> QED
  BY OccupancyInvariant, <1>2, PTL DEF Spec, SweepSparesListed

(* Two whole generations begun after a process exited mark its pane, if it *)
(* was written to, and it stays marked.                                    *)
THEOREM TwoEnd ==
  ASSUME EndpointsFit
  PROVE  Spec => []TwoSnapshotsEndPane
<1>1. IInv => TwoSnapshotsEndPane
  <2> SUFFICES ASSUME IInv, NEW channel \in Channels, ~Live(channel), settled[channel] = 2,
                      NEW i \in PaneOf(channel), panes[i].ran
               PROVE  panes[i].ended
    BY DEF TwoSnapshotsEndPane
  <2>1. i \in DOMAIN desk.panes /\ desk.panes[i] = panes[i]
        /\ panes[i].kind = "Application" /\ panes[i].channel = channel
    BY DEF PaneOf, panes
  <2>2. EndedAtTwo(panes[i]) /\ Counted(panes[i])
    BY <2>1 DEF IInv, MarksTrue
  <2> QED
    BY <2>1, <2>2 DEF EndedAtTwo, Counted
<1> QED
  BY OccupancyInvariant, <1>1, PTL
=============================================================================
