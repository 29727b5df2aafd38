---------------------------- MODULE PaneListProofs ----------------------------
(***************************************************************************)
(* What the operations of PaneList do to the order, the channels and the   *)
(* types of the panes, for every set of channels and names.                *)
(***************************************************************************)
EXTENDS PaneList, FiniteSetTheorems, TLAPS

-----------------------------------------------------------------------------
(* The first pane of a channel.                                            *)

LEMMA LeastExists ==
  ASSUME NEW S \in SUBSET Nat, S # {}
  PROVE  \E n \in S : \A m \in S : n <= m
<1> DEFINE R == OpToRel(<, Nat)
<1>1. IsWellFoundedOn(R, Nat)
  BY NatLessThanWellFounded
<1>2. PICK n \in S : \A m \in S : <<m, n>> \notin R
  <2> HIDE DEF R
  <2> QED
    BY <1>1, WFMin
<1>3. \A m \in S : ~(m < n)
  BY <1>2 DEF OpToRel
<1> QED
  BY <1>3

LEMMA FirstOnIsFirst ==
  ASSUME NEW ps \in Seq(Pane), NEW channel, HasChannel(ps, channel)
  PROVE  /\ FirstOn(ps, channel) \in DOMAIN ps
         /\ ps[FirstOn(ps, channel)].channel = channel
         /\ \A j \in DOMAIN ps : ps[j].channel = channel => FirstOn(ps, channel) <= j
<1>1. On(ps, channel) \in SUBSET Nat /\ On(ps, channel) # {}
  BY DEF On, HasChannel
<1>2. \E i \in On(ps, channel) : \A j \in On(ps, channel) : i <= j
  BY <1>1, LeastExists
<1>3. /\ FirstOn(ps, channel) \in On(ps, channel)
      /\ \A j \in On(ps, channel) : FirstOn(ps, channel) <= j
  BY <1>2 DEF FirstOn
<1> QED
  BY <1>3 DEF On

-----------------------------------------------------------------------------
(* Sound panes: each kind on its channel, no two of a kind on one, and a   *)
(* Shell pane before every other of its channel.                           *)

OwnChannels(ps) ==
  \A i \in DOMAIN ps :
     ps[i].kind # "Application" => ps[i].channel = DefaultChannel(ps[i].kind)

Unique(ps) ==
  \A i, j \in DOMAIN ps :
     ps[i].kind = ps[j].kind /\ ps[i].channel = ps[j].channel => i = j

ShellFirst(ps) ==
  \A i, j \in DOMAIN ps :
     ps[i].kind = "Shell" /\ ps[j].channel = ShellChannel => i <= j

Ordered(ps) == ps \in Seq(Pane) /\ OwnChannels(ps) /\ Unique(ps) /\ ShellFirst(ps)

Desks == [panes : Seq(Pane), focus : Nat]

Sound(d) == d \in Desks /\ Ordered(d.panes) /\ d.focus \in DOMAIN d.panes

(* Nothing but flags and titles has changed of the panes there were, and   *)
(* the keyboard is where it was.                                           *)
Stays(d, e) ==
  /\ e.focus = d.focus
  /\ \A i \in DOMAIN d.panes : /\ i \in DOMAIN e.panes
                               /\ e.panes[i].kind = d.panes[i].kind
                               /\ e.panes[i].channel = d.panes[i].channel

LEMMA StaysTwice ==
  ASSUME NEW d, NEW e, NEW f, Stays(d, e), Stays(e, f)
  PROVE  Stays(d, f)
  BY DEF Stays

-----------------------------------------------------------------------------
(* Flags.                                                                  *)

LEMMA FlagsSound ==
  ASSUME NEW d, Sound(d), NEW ps \in Seq(Pane), DOMAIN ps = DOMAIN d.panes,
         \A i \in DOMAIN ps : /\ ps[i].kind = d.panes[i].kind
                              /\ ps[i].channel = d.panes[i].channel
  PROVE  LET e == [d EXCEPT !.panes = ps] IN Sound(e) /\ Stays(d, e)
<1> DEFINE e == [d EXCEPT !.panes = ps]
<1>1. e \in Desks /\ e.panes = ps /\ e.focus = d.focus
  BY DEF Sound, Desks
<1>2. Ordered(ps)
  BY DEF Sound, Ordered, OwnChannels, Unique, ShellFirst
<1> HIDE DEF e
<1>3. Sound(e)
  BY <1>1, <1>2 DEF Sound
<1>4. Stays(d, e)
  BY <1>1 DEF Stays
<1> QED
  BY <1>3, <1>4 DEF e

(* One pane with other flags or another title.                             *)
LEMMA PaneFlagged ==
  ASSUME NEW d, Sound(d), NEW i \in DOMAIN d.panes, NEW pane \in Pane,
         pane.kind = d.panes[i].kind, pane.channel = d.panes[i].channel
  PROVE  LET e == [d EXCEPT !.panes[i] = pane] IN Sound(e) /\ Stays(d, e)
<1> DEFINE ps == [d.panes EXCEPT ![i] = pane]
<1>1. d.panes \in Seq(Pane) /\ d \in Desks
  BY DEF Sound, Ordered
<1>2. ps \in Seq(Pane) /\ DOMAIN ps = DOMAIN d.panes
  BY <1>1
<1>3. \A j \in DOMAIN ps : ps[j].kind = d.panes[j].kind /\ ps[j].channel = d.panes[j].channel
  BY <1>1, <1>2
<1>4. [d EXCEPT !.panes[i] = pane] = [d EXCEPT !.panes = ps]
  BY <1>1 DEF Desks
<1> HIDE DEF ps
<1> QED
  BY <1>2, <1>3, <1>4, FlagsSound

-----------------------------------------------------------------------------
(* Output.                                                                 *)

LEMMA PaneAt ==
  ASSUME NEW d, Sound(d), NEW i \in DOMAIN d.panes
  PROVE  d.panes[i] \in Pane
<1>1. d.panes \in Seq(Pane)
  BY DEF Sound, Ordered
<1> QED
  BY <1>1

LEMMA PushSound ==
  ASSUME NEW d, Sound(d), NEW channel
  PROVE  Sound(PushChannel(d, channel)) /\ Stays(d, PushChannel(d, channel))
<1>1. CASE HasChannel(d.panes, channel)
  <2> DEFINE i == FirstOn(d.panes, channel)
             pane == Printed(d.panes[i], i = d.focus)
  <2>1. i \in DOMAIN d.panes
    BY <1>1, FirstOnIsFirst DEF Sound, Ordered
  <2>2. d.panes[i] \in Pane
    BY <2>1, PaneAt
  <2>3. pane \in Pane /\ pane.kind = d.panes[i].kind /\ pane.channel = d.panes[i].channel
    BY <2>2 DEF Printed, Pane
  <2>4. PushChannel(d, channel) = [d EXCEPT !.panes[i] = pane]
    BY <1>1, <2>1 DEF PushChannel, Sound, Desks
  <2> HIDE DEF pane, i
  <2> QED
    BY <2>1, <2>3, <2>4, PaneFlagged
<1>2. CASE ~HasChannel(d.panes, channel)
  BY <1>2 DEF PushChannel, Stays
<1> QED
  BY <1>1, <1>2

LEMMA ClearSound ==
  ASSUME NEW d, Sound(d), NEW channel
  PROVE  Sound(ClearChannel(d, channel)) /\ Stays(d, ClearChannel(d, channel))
<1>1. CASE HasChannel(d.panes, channel)
  <2> DEFINE i == FirstOn(d.panes, channel)
             pane == [d.panes[i] EXCEPT !.alert = FALSE]
  <2>1. i \in DOMAIN d.panes
    BY <1>1, FirstOnIsFirst DEF Sound, Ordered
  <2>2. d.panes[i] \in Pane
    BY <2>1, PaneAt
  <2>3. pane \in Pane /\ pane.kind = d.panes[i].kind /\ pane.channel = d.panes[i].channel
    BY <2>2 DEF Pane
  <2>4. ClearChannel(d, channel) = [d EXCEPT !.panes[i] = pane]
    BY <1>1, <2>1 DEF ClearChannel, Sound, Desks
  <2> HIDE DEF pane, i
  <2> QED
    BY <2>1, <2>3, <2>4, PaneFlagged
<1>2. CASE ~HasChannel(d.panes, channel)
  BY <1>2 DEF ClearChannel, Stays
<1> QED
  BY <1>1, <1>2

LEMMA TitleSound ==
  ASSUME NEW d, Sound(d), NEW channel, NEW title \in Title
  PROVE  Sound(SetChannelTitle(d, channel, title)) /\ Stays(d, SetChannelTitle(d, channel, title))
<1>1. CASE HasChannel(d.panes, channel)
  <2> DEFINE i == FirstOn(d.panes, channel)
             pane == [d.panes[i] EXCEPT !.title = title]
  <2>1. i \in DOMAIN d.panes
    BY <1>1, FirstOnIsFirst DEF Sound, Ordered
  <2>2. d.panes[i] \in Pane
    BY <2>1, PaneAt
  <2>3. pane \in Pane /\ pane.kind = d.panes[i].kind /\ pane.channel = d.panes[i].channel
    BY <2>2 DEF Pane
  <2>4. SetChannelTitle(d, channel, title) = [d EXCEPT !.panes[i] = pane]
    BY <1>1, <2>1 DEF SetChannelTitle, Sound, Desks
  <2> HIDE DEF pane, i
  <2> QED
    BY <2>1, <2>3, <2>4, PaneFlagged
<1>2. CASE ~HasChannel(d.panes, channel)
  BY <1>2 DEF SetChannelTitle, Stays
<1> QED
  BY <1>1, <1>2

(* Where a pane may be opened by the target.                               *)
Own == Channels \cup {ShellChannel, ApplicationChannel, DebuggerChannel}

LEMMA NewPaneType ==
  ASSUME NEW kind \in Kind, NEW channel \in Own, NEW title \in Title
  PROVE  NewPane(kind, channel, title) \in Pane
  BY AbsentAssumption DEF NewPane, Pane, Own

LEMMA PaneAdded ==
  ASSUME NEW d, Sound(d), NEW pane \in Pane, pane.kind = "Application",
         ~HasChannel(d.panes, pane.channel)
  PROVE  LET e == [d EXCEPT !.panes = Append(@, pane)] IN Sound(e) /\ Stays(d, e)
<1> DEFINE ps == Append(d.panes, pane)
           e  == [d EXCEPT !.panes = ps]
<1>1. d.panes \in Seq(Pane) /\ d \in Desks
  BY DEF Sound, Ordered
<1>2. /\ ps \in Seq(Pane) /\ DOMAIN ps = 1..(Len(d.panes) + 1)
      /\ DOMAIN d.panes = 1..Len(d.panes) /\ Len(d.panes) \in Nat
      /\ ps[Len(d.panes) + 1] = pane
      /\ \A i \in DOMAIN d.panes : ps[i] = d.panes[i]
  BY <1>1
<1>3. \A i \in DOMAIN d.panes : d.panes[i].channel # pane.channel
  BY DEF HasChannel, On
<1> HIDE DEF ps
<1>4. \A i \in DOMAIN ps :
        (i \in DOMAIN d.panes /\ ps[i] = d.panes[i]) \/ (i = Len(d.panes) + 1 /\ ps[i] = pane)
  BY <1>2
<1>5. OwnChannels(ps)
  BY <1>4 DEF OwnChannels, Sound, Ordered
<1>6. Unique(ps)
  BY <1>3, <1>4 DEF Unique, Sound, Ordered
<1>7. ShellFirst(ps)
  <2>1. \A i \in DOMAIN d.panes : i <= Len(d.panes) + 1
    BY <1>2
  <2>2. \A i, j \in DOMAIN d.panes :
          d.panes[i].kind = "Shell" /\ d.panes[j].channel = ShellChannel => i <= j
    BY DEF ShellFirst, Sound, Ordered
  <2>3. pane.kind # "Shell"
    OBVIOUS
  <2> QED
    BY <1>4, <2>1, <2>2, <2>3 DEF ShellFirst
<1>8. e \in Desks /\ e.panes = ps /\ e.focus = d.focus
  BY <1>1, <1>2 DEF Desks
<1> HIDE DEF e
<1>9. Sound(e) /\ Stays(d, e)
  BY <1>2, <1>5, <1>6, <1>7, <1>8 DEF Sound, Ordered, Stays
<1> QED
  BY <1>9 DEF e, ps

LEMMA AddSound ==
  ASSUME NEW d, Sound(d), NEW channel \in Own, NEW title \in Title
  PROVE  Sound(AddApplication(d, channel, title)) /\ Stays(d, AddApplication(d, channel, title))
<1>1. CASE HasChannel(d.panes, channel)
  <2>1. AddApplication(d, channel, title) = SetChannelTitle(d, channel, title)
    BY <1>1 DEF AddApplication, SetChannelTitle
  <2> QED
    BY <2>1, TitleSound
<1>2. CASE ~HasChannel(d.panes, channel)
  <2> DEFINE pane == NewPane("Application", channel, title)
  <2>1. pane \in Pane
    BY NewPaneType DEF Kind
  <2>2. pane.kind = "Application" /\ pane.channel = channel
    BY DEF NewPane
  <2>3. AddApplication(d, channel, title) = [d EXCEPT !.panes = Append(@, pane)]
    BY <1>2 DEF AddApplication
  <2> HIDE DEF pane
  <2> QED
    BY <1>2, <2>1, <2>2, <2>3, PaneAdded
<1> QED
  BY <1>1, <1>2

LEMMA OpenSound ==
  ASSUME NEW d, Sound(d), NEW channel \in Own
  PROVE  Sound(OpenForOutput(d, channel)) /\ Stays(d, OpenForOutput(d, channel))
<1>1. TtyTitle \in Title
  BY DEF Title
<1> QED
  BY <1>1, AddSound DEF OpenForOutput, Stays

-----------------------------------------------------------------------------
(* Snapshots.                                                              *)

LEMMA CountTyped ==
  ASSUME NEW n \in 0..AbsentMax
  PROVE  SaturatingInc(n) \in 0..AbsentMax
  BY AbsentAssumption DEF SaturatingInc

LEMMA MissedTyped ==
  ASSUME NEW pane \in Pane
  PROVE  /\ Missed(pane) \in Pane
         /\ Missed(pane).kind = pane.kind /\ Missed(pane).channel = pane.channel
<1> DEFINE absent == SaturatingInc(pane.absent)
<1>1. pane.absent \in 0..AbsentMax
  BY DEF Pane
<1>2. absent \in 0..AbsentMax /\ (absent >= 2) \in BOOLEAN
  BY <1>1, CountTyped
<1>3. Missed(pane) = [pane EXCEPT !.absent = absent, !.ended = absent >= 2]
  BY DEF Missed
<1> HIDE DEF absent
<1>4. PICK ended \in BOOLEAN : ended = (absent >= 2)
  BY <1>2
<1>5. Missed(pane) = [pane EXCEPT !.absent = absent, !.ended = ended]
  BY <1>3, <1>4
<1> QED
  BY <1>2, <1>5 DEF Pane

LEMMA FollowedTyped ==
  ASSUME NEW pane \in Pane, NEW listing,
         \A channel \in DOMAIN listing : listing[channel] \in Names \cup {NoName}
  PROVE  LET followed == FollowedPane(pane, listing)
         IN  followed \in Pane /\ followed.kind = pane.kind /\ followed.channel = pane.channel
<1> DEFINE named == IF pane.channel \in DOMAIN listing
                    THEN Named(pane, listing[pane.channel]) ELSE pane
<1>1. ASSUME NEW name \in Names \cup {NoName}
      PROVE  /\ Named(pane, name) \in Pane
             /\ Named(pane, name).kind = pane.kind /\ Named(pane, name).channel = pane.channel
  <2>1. name \in Title /\ 0 \in 0..AbsentMax
    BY AbsentAssumption DEF Title
  <2>2. LET renamed == [pane EXCEPT !.title = name, !.ended = FALSE, !.absent = 0]
        IN  renamed \in Pane /\ renamed.kind = pane.kind /\ renamed.channel = pane.channel
    BY <2>1 DEF Pane
  <2> QED
    BY <2>2 DEF Named
<1>2. named \in Pane /\ named.kind = pane.kind /\ named.channel = pane.channel
  BY <1>1
<1> HIDE DEF named
<1>3. /\ Marked(named, listing) \in Pane
      /\ Marked(named, listing).kind = named.kind /\ Marked(named, listing).channel = named.channel
  <2>1. 0 \in 0..AbsentMax
    BY AbsentAssumption
  <2>2. LET live == [named EXCEPT !.ran = TRUE, !.ended = FALSE, !.absent = 0]
        IN  live \in Pane /\ live.kind = named.kind /\ live.channel = named.channel
    BY <1>2, <2>1 DEF Pane
  <2> QED
    BY <1>2, <2>2, MissedTyped DEF Marked
<1> QED
  BY <1>2, <1>3 DEF FollowedPane, named

LEMMA FollowSound ==
  ASSUME NEW d, Sound(d), NEW listing,
         \A channel \in DOMAIN listing : listing[channel] \in Names \cup {NoName}
  PROVE  Sound(Follow(d, listing)) /\ Stays(d, Follow(d, listing))
<1> DEFINE ps == [i \in DOMAIN d.panes |-> FollowedPane(d.panes[i], listing)]
<1>1. \A i \in DOMAIN d.panes : /\ FollowedPane(d.panes[i], listing) \in Pane
                                /\ FollowedPane(d.panes[i], listing).kind = d.panes[i].kind
                                /\ FollowedPane(d.panes[i], listing).channel = d.panes[i].channel
  BY PaneAt, FollowedTyped
<1>2. DOMAIN d.panes = 1..Len(d.panes) /\ Len(d.panes) \in Nat
  BY DEF Sound, Ordered
<1>3. ps \in Seq(Pane)
  BY <1>1, <1>2
<1>4. Follow(d, listing) = [d EXCEPT !.panes = ps]
  BY DEF Follow
<1>5. DOMAIN ps = DOMAIN d.panes
  OBVIOUS
<1>6. \A i \in DOMAIN ps : ps[i].kind = d.panes[i].kind /\ ps[i].channel = d.panes[i].channel
  BY <1>1
<1> HIDE DEF ps
<1> QED
  BY <1>3, <1>4, <1>5, <1>6, FlagsSound

-----------------------------------------------------------------------------
(* Closing.                                                                *)

LEMMA SubsequenceOrdered ==
  ASSUME NEW ps, Ordered(ps), NEW n \in Nat, NEW f \in [1..n -> DOMAIN ps],
         \A k, l \in 1..n : k < l => f[k] < f[l]
  PROVE  LET qs == [k \in 1..n |-> ps[f[k]]] IN Ordered(qs) /\ Len(qs) = n
<1> DEFINE qs == [k \in 1..n |-> ps[f[k]]]
<1>1. /\ DOMAIN ps = 1..Len(ps) /\ Len(ps) \in Nat
      /\ \A i \in DOMAIN ps : ps[i] \in Pane
  BY DEF Ordered
<1>2. qs \in Seq(Pane) /\ Len(qs) = n
  BY <1>1
<1>3. DOMAIN qs = 1..n /\ \A k \in 1..n : qs[k] = ps[f[k]] /\ f[k] \in DOMAIN ps
  OBVIOUS
<1>4. \A k, l \in 1..n : f[k] = f[l] => k = l
  BY <1>1
<1>5. \A k, l \in 1..n : f[k] <= f[l] => k <= l
  BY <1>1
<1> HIDE DEF qs
<1>6. OwnChannels(qs)
  BY <1>3 DEF OwnChannels, Ordered
<1>7. Unique(qs)
  BY <1>3, <1>4 DEF Unique, Ordered
<1>8. ShellFirst(qs)
  BY <1>3, <1>5 DEF ShellFirst, Ordered
<1> QED
  BY <1>2, <1>6, <1>7, <1>8 DEF Ordered, qs

LEMMA RemoveOrdered ==
  ASSUME NEW ps, Ordered(ps), NEW at \in DOMAIN ps
  PROVE  Ordered(RemovePane(ps, at)) /\ Len(RemovePane(ps, at)) = Len(ps) - 1
<1> DEFINE n == Len(ps) - 1
           f == [k \in 1..n |-> IF k < at THEN k ELSE k + 1]
<1>1. DOMAIN ps = 1..Len(ps) /\ Len(ps) \in Nat
  BY DEF Ordered
<1>2. n \in Nat /\ f \in [1..n -> DOMAIN ps]
  BY <1>1
<1>3. \A k, l \in 1..n : k < l => f[k] < f[l]
  BY <1>1
<1>4. RemovePane(ps, at) = [k \in 1..n |-> ps[f[k]]]
  BY <1>1 DEF RemovePane
<1> HIDE DEF n, f
<1>5. Ordered(RemovePane(ps, at)) /\ Len(RemovePane(ps, at)) = n
  BY <1>2, <1>3, <1>4, SubsequenceOrdered
<1> QED
  BY <1>5 DEF n

LEMMA CloseFocusedSound ==
  ASSUME NEW d, Sound(d)
  PROVE  Sound(CloseFocused(d))
<1>1. CASE Len(d.panes) > 1
  <2> DEFINE ps == RemovePane(d.panes, d.focus)
             focus == Smaller(d.focus, Len(d.panes) - 1)
  <2>1. Ordered(ps) /\ Len(ps) = Len(d.panes) - 1
    BY RemoveOrdered DEF Sound
  <2>2. Len(d.panes) \in Nat /\ d.focus \in 1..Len(d.panes)
    BY DEF Sound, Ordered
  <2>3. focus \in 1..(Len(d.panes) - 1)
    BY <1>1, <2>2 DEF Smaller
  <2>4. CloseFocused(d) = [panes |-> ps, focus |-> focus]
    BY <1>1 DEF CloseFocused
  <2> HIDE DEF ps, focus
  <2>5. ps \in Seq(Pane) /\ DOMAIN ps = 1..(Len(d.panes) - 1)
    BY <2>1 DEF Ordered
  <2>6. focus \in Nat
    BY <2>2, <2>3
  <2> QED
    BY <2>1, <2>3, <2>4, <2>5, <2>6 DEF Sound, Desks
<1>2. CASE ~(Len(d.panes) > 1)
  BY <1>2 DEF CloseFocused
<1> QED
  BY <1>1, <1>2

-----------------------------------------------------------------------------
(* Sweeping.                                                               *)

(* Each rank up to the number of those kept is the rank of one of them.    *)
LEMMA RankOnto ==
  ASSUME NEW n \in Nat, NEW keep \in SUBSET (1..n)
  PROVE  /\ Cardinality(keep) \in Nat
         /\ \A k \in 1..Cardinality(keep) : \E i \in keep : Rank(keep, i) = k
         /\ \A i \in keep : Rank(keep, i) \in 1..Cardinality(keep)
         /\ \A i, j \in keep : i < j => Rank(keep, i) < Rank(keep, j)
<1> DEFINE upTo(i) == {j \in keep : j <= i}
           m == Cardinality(keep)
           f == [i \in keep |-> Rank(keep, i)]
<1>0. \A i \in keep : i \in Int
  OBVIOUS
<1>1. IsFiniteSet(keep) /\ m \in Nat
  <2>1. IsFiniteSet(1..n)
    BY FS_Interval
  <2>2. IsFiniteSet(keep)
    BY <2>1, FS_Subset
  <2> QED
    BY <2>2, FS_CardinalityType
<1>2. \A i \in keep : /\ IsFiniteSet(upTo(i)) /\ Cardinality(upTo(i)) \in Nat
                      /\ Cardinality(upTo(i)) <= m
  <2> TAKE i \in keep
  <2>1. upTo(i) \subseteq keep
    OBVIOUS
  <2> QED
    BY <1>1, <2>1, FS_Subset, FS_CardinalityType
<1>3. \A i \in keep : Rank(keep, i) = Cardinality(upTo(i))
  BY DEF Rank
<1>4. \A i \in keep : Cardinality(upTo(i)) # 0
  <2> TAKE i \in keep
  <2>1. i \in upTo(i)
    BY <1>0
  <2> QED
    BY <1>2, <2>1, FS_EmptySet
<1>5. \A i \in keep : f[i] \in 1..m
  <2> TAKE i \in keep
  <2>1. PICK c \in Nat : c = Cardinality(upTo(i)) /\ c <= m /\ c # 0
    BY <1>2, <1>4
  <2>2. f[i] = c
    BY <1>3, <2>1
  <2> QED
    BY <1>1, <2>1, <2>2
<1>6. \A i, j \in keep : i <= j => upTo(i) \subseteq upTo(j)
  <2> SUFFICES ASSUME NEW i \in keep, NEW j \in keep, i <= j, NEW x \in keep, x <= i
               PROVE  x <= j
    OBVIOUS
  <2>1. x \in Int /\ i \in Int /\ j \in Int
    BY <1>0
  <2> QED
    BY <2>1
<1>7. \A i, j \in keep : i < j => f[i] # f[j]
  <2> SUFFICES ASSUME NEW i \in keep, NEW j \in keep, i < j
               PROVE  f[i] # f[j]
    OBVIOUS
  <2>1. i <= j /\ j \in upTo(j) /\ j \notin upTo(i)
    BY <1>0
  <2>2. Cardinality(upTo(i)) # Cardinality(upTo(j))
    BY <1>2, <1>6, <2>1, FS_Subset
  <2> QED
    BY <1>3, <2>2
<1>8. f \in Injection(keep, 1..m)
  <2>1. f \in [keep -> 1..m]
    BY <1>5
  <2>2. \A i, j \in keep : f[i] = f[j] => i = j
    BY <1>7
  <2> HIDE DEF f
  <2> QED
    BY <2>1, <2>2 DEF Injection, IsInjective
<1>9. IsFiniteSet(1..m) /\ Cardinality(1..m) = m
  BY <1>1, FS_Interval
<1>10. f \in Surjection(keep, 1..m)
  BY <1>8, <1>9, FS_Injection
<1>11. \A k \in 1..m : \E i \in keep : f[i] = k
  BY <1>10 DEF Surjection
<1>12. \A i, j \in keep : i < j => Rank(keep, i) < Rank(keep, j)
  <2> SUFFICES ASSUME NEW i \in keep, NEW j \in keep, i < j
               PROVE  Rank(keep, i) < Rank(keep, j)
    OBVIOUS
  <2>1. i <= j
    BY <1>0
  <2>2. upTo(i) \in SUBSET upTo(j)
    BY <1>6, <2>1
  <2>3. Cardinality(upTo(i)) <= Cardinality(upTo(j))
    BY <1>2, <2>2, FS_Subset
  <2>4. f[i] <= f[j] /\ f[i] # f[j] /\ f[i] \in 1..m /\ f[j] \in 1..m
    BY <1>3, <1>5, <1>7, <2>3
  <2>5. f[i] = Rank(keep, i) /\ f[j] = Rank(keep, j)
    OBVIOUS
  <2> HIDE DEF f, m
  <2> QED
    BY <1>1, <2>4, <2>5
<1> QED
  BY <1>1, <1>5, <1>11, <1>12

LEMMA RetainOrdered ==
  ASSUME NEW ps, Ordered(ps), NEW keep \in SUBSET (DOMAIN ps)
  PROVE  /\ Ordered(Retain(ps, keep)) /\ Len(Retain(ps, keep)) = Cardinality(keep)
         /\ Cardinality(keep) \in Nat
<1> DEFINE n == Cardinality(keep)
           f == [k \in 1..n |-> CHOOSE i \in keep : Rank(keep, i) = k]
<1>1. DOMAIN ps = 1..Len(ps) /\ Len(ps) \in Nat
  BY DEF Ordered
<1>2. /\ n \in Nat
      /\ \A k \in 1..n : \E i \in keep : Rank(keep, i) = k
      /\ \A i, j \in keep : i < j => Rank(keep, i) < Rank(keep, j)
  BY <1>1, RankOnto
<1>3. \A k \in 1..n : f[k] \in keep /\ Rank(keep, f[k]) = k
  BY <1>2
<1>4. Retain(ps, keep) = [k \in 1..n |-> ps[f[k]]]
  BY DEF Retain
<1>5. f \in [1..n -> DOMAIN ps]
  BY <1>3
<1> HIDE DEF n, f
<1>6. \A k, l \in 1..n : k < l => f[k] < f[l]
  <2> SUFFICES ASSUME NEW k \in 1..n, NEW l \in 1..n, k < l, ~(f[k] < f[l])
               PROVE  FALSE
    OBVIOUS
  <2>1. f[k] \in Nat /\ f[l] \in Nat
    BY <1>1, <1>5
  <2>2. f[l] < f[k] => Rank(keep, f[l]) < Rank(keep, f[k])
    BY <1>2, <1>3
  <2>3. l <= k
    BY <1>3, <2>1, <2>2
  <2> QED
    BY <1>2, <2>3
<1>7. Ordered(Retain(ps, keep)) /\ Len(Retain(ps, keep)) = n
  BY <1>2, <1>4, <1>5, <1>6, SubsequenceOrdered
<1> QED
  BY <1>2, <1>7 DEF n

(* Position i goes to its rank among those kept.                           *)
LEMMA RetainPlaces ==
  ASSUME NEW ps, Ordered(ps), NEW keep \in SUBSET (DOMAIN ps)
  PROVE  LET place == [i \in keep |-> Rank(keep, i)]
         IN  /\ place \in [keep -> 1..Cardinality(keep)]
             /\ \A i, j \in keep : i < j => place[i] < place[j]
             /\ \A i \in keep : Retain(ps, keep)[place[i]] = ps[i]
             /\ \A k \in 1..Cardinality(keep) : \E i \in keep : place[i] = k
<1>1. DOMAIN ps = 1..Len(ps) /\ Len(ps) \in Nat
  BY DEF Ordered
<1>2. /\ \A k \in 1..Cardinality(keep) : \E i \in keep : Rank(keep, i) = k
      /\ \A i \in keep : Rank(keep, i) \in 1..Cardinality(keep)
      /\ \A i, j \in keep : i < j => Rank(keep, i) < Rank(keep, j)
      /\ Cardinality(keep) \in Nat
  BY <1>1, RankOnto
<1>3. \A i, j \in keep : Rank(keep, i) = Rank(keep, j) => i = j
  <2> SUFFICES ASSUME NEW i \in keep, NEW j \in keep, i < j
               PROVE  Rank(keep, i) # Rank(keep, j)
    BY <1>1
  <2>1. /\ Rank(keep, i) < Rank(keep, j)
        /\ Rank(keep, i) \in Nat /\ Rank(keep, j) \in Nat
    BY <1>2
  <2> QED
    BY <2>1
<1>4. \A i \in keep : (CHOOSE j \in keep : Rank(keep, j) = Rank(keep, i)) = i
  BY <1>3
<1>5. \A i \in keep : Retain(ps, keep)[Rank(keep, i)] = ps[i]
  BY <1>2, <1>4 DEF Retain
<1> QED
  BY <1>2, <1>5

-----------------------------------------------------------------------------
(* Restoring.                                                              *)

LEMMA InsertOrdered ==
  ASSUME NEW ps, Ordered(ps), NEW at \in 1..(Len(ps) + 1), NEW pane \in Pane,
         pane.channel = DefaultChannel(pane.kind),
         pane.kind = "Shell" => at = 1,
         pane.channel = ShellChannel => pane.kind = "Shell",
         \A i \in DOMAIN ps : ps[i].kind # pane.kind
  PROVE  LET qs == InsertPane(ps, at, pane) IN Ordered(qs) /\ Len(qs) = Len(ps) + 1
<1> DEFINE qs == InsertPane(ps, at, pane)
           from(i) == IF i < at THEN i ELSE i - 1
<1>1. /\ DOMAIN ps = 1..Len(ps) /\ Len(ps) \in Nat
      /\ \A i \in DOMAIN ps : ps[i] \in Pane
  BY DEF Ordered
<1>2. \A i \in 1..(Len(ps) + 1) : i # at => from(i) \in DOMAIN ps
  BY <1>1
<1>3. \A i \in 1..(Len(ps) + 1) : qs[i] = IF i = at THEN pane ELSE ps[from(i)]
  BY DEF InsertPane
<1>4. \A i \in 1..(Len(ps) + 1) : qs[i] \in Pane
  BY <1>1, <1>2, <1>3
<1>5. qs = [i \in 1..(Len(ps) + 1) |-> qs[i]]
  BY DEF InsertPane
<1> HIDE DEF qs
<1>6. qs \in Seq(Pane) /\ Len(qs) = Len(ps) + 1 /\ DOMAIN qs = 1..(Len(ps) + 1)
  BY <1>1, <1>4, <1>5
<1>7. \A i, j \in 1..(Len(ps) + 1) :
        i # at /\ j # at => (i = j <=> from(i) = from(j)) /\ (i <= j <=> from(i) <= from(j))
  BY <1>1
<1> HIDE DEF from
<1>8. OwnChannels(qs)
  BY <1>2, <1>3, <1>6 DEF OwnChannels, Ordered
<1>9. Unique(qs)
  BY <1>2, <1>3, <1>6, <1>7 DEF Unique, Ordered
<1>10. ShellFirst(qs)
  <2> SUFFICES ASSUME NEW i \in 1..(Len(ps) + 1), NEW j \in 1..(Len(ps) + 1),
                      qs[i].kind = "Shell", qs[j].channel = ShellChannel
               PROVE  i <= j
    BY <1>6 DEF ShellFirst
  <2>1. CASE i = at
    <3>1. at = 1
      BY <1>3, <2>1
    <3> QED
      BY <1>1, <2>1, <3>1
  <2>2. CASE i # at /\ j = at
    <3>1. pane.kind = "Shell"
      BY <1>3, <2>2
    <3>2. ps[from(i)].kind = "Shell" /\ from(i) \in DOMAIN ps
      BY <1>2, <1>3, <2>2
    <3> QED
      BY <3>1, <3>2
  <2>3. CASE i # at /\ j # at
    <3>1. /\ from(i) \in DOMAIN ps /\ from(j) \in DOMAIN ps
          /\ ps[from(i)].kind = "Shell" /\ ps[from(j)].channel = ShellChannel
      BY <1>2, <1>3, <2>3
    <3>2. from(i) <= from(j)
      BY <3>1 DEF Ordered, ShellFirst
    <3> QED
      BY <1>7, <2>3, <3>2
  <2> QED
    BY <2>1, <2>2, <2>3
<1> QED
  BY <1>6, <1>8, <1>9, <1>10 DEF Ordered, qs

(* The keyboard stays on its pane; there need not be any.                  *)
LEMMA RestoreKindOrdered ==
  ASSUME NEW d \in Desks, Ordered(d.panes), NEW position \in 1..3
  PROVE  LET e == RestoreKind(d, position)
         IN  /\ e \in Desks /\ Ordered(e.panes) /\ e.panes # <<>>
             /\ d.focus \in DOMAIN d.panes => e.focus \in DOMAIN e.panes
<1> DEFINE kind == SystemKinds[position]
           at   == Smaller(position, Len(d.panes) + 1)
           pane == SystemPane(kind)
           qs   == InsertPane(d.panes, at, pane)
           focus == IF d.focus >= at THEN d.focus + 1 ELSE d.focus
           e    == RestoreKind(d, position)
<1>1. DOMAIN d.panes = 1..Len(d.panes) /\ Len(d.panes) \in Nat /\ d.focus \in Nat
  BY DEF Ordered, Desks
<1>2. CASE \E i \in DOMAIN d.panes : d.panes[i].kind = kind
  <2>1. e = d
    BY <1>2 DEF RestoreKind
  <2>2. d.panes # <<>>
    BY <1>1, <1>2
  <2> QED
    BY <2>1, <2>2
<1>3. CASE ~\E i \in DOMAIN d.panes : d.panes[i].kind = kind
  <2>1. at \in 1..(Len(d.panes) + 1)
    BY <1>1 DEF Smaller
  <2>2. /\ kind \in Kind /\ DefaultChannel(kind) \in Own /\ kind \in Title
        /\ kind = "Shell" => position = 1
        /\ DefaultChannel(kind) = ShellChannel => kind = "Shell"
    BY DEF SystemKinds, Kind, DefaultChannel, Own, Title,
           ShellChannel, ApplicationChannel, DebuggerChannel
  <2>3. pane \in Pane /\ pane.kind = kind /\ pane.channel = DefaultChannel(kind)
    BY <2>2, NewPaneType DEF SystemPane, NewPane
  <2>4. kind = "Shell" => at = 1
    BY <1>1, <2>2 DEF Smaller
  <2>5. e = [panes |-> qs, focus |-> focus]
    BY <1>3 DEF RestoreKind
  <2>6. d.focus \in 1..Len(d.panes) => focus \in 1..(Len(d.panes) + 1)
    BY <1>1
  <2>7. focus \in Nat
    BY <1>1
  <2> HIDE DEF kind, at, pane, focus
  <2>8. Ordered(qs) /\ Len(qs) = Len(d.panes) + 1
    BY <1>3, <2>1, <2>2, <2>3, <2>4, InsertOrdered
  <2> HIDE DEF qs, e
  <2>9. qs \in Seq(Pane) /\ DOMAIN qs = 1..(Len(d.panes) + 1) /\ qs # <<>>
    BY <1>1, <2>8 DEF Ordered
  <2>10. e \in Desks /\ e.panes = qs /\ e.focus = focus
    BY <2>5, <2>7, <2>9 DEF Desks
  <2>11. d.focus \in DOMAIN d.panes => e.focus \in DOMAIN e.panes
    BY <1>1, <2>6, <2>9, <2>10
  <2> QED
    BY <2>8, <2>9, <2>10, <2>11 DEF e
<1> QED
  BY <1>2, <1>3

LEMMA RestoreOrdered ==
  ASSUME NEW d \in Desks, Ordered(d.panes)
  PROVE  LET e == RestoreSystemPanes(d)
         IN  /\ e \in Desks /\ Ordered(e.panes) /\ e.panes # <<>>
             /\ d.focus \in DOMAIN d.panes => e.focus \in DOMAIN e.panes
<1> DEFINE e == RestoreKind(d, 1)
           f == RestoreKind(e, 2)
           g == RestoreKind(f, 3)
<1>1. /\ e \in Desks /\ Ordered(e.panes)
      /\ d.focus \in DOMAIN d.panes => e.focus \in DOMAIN e.panes
  BY RestoreKindOrdered
<1> HIDE DEF e
<1>2. /\ f \in Desks /\ Ordered(f.panes)
      /\ e.focus \in DOMAIN e.panes => f.focus \in DOMAIN f.panes
  BY <1>1, RestoreKindOrdered
<1> HIDE DEF f
<1>3. /\ g \in Desks /\ Ordered(g.panes) /\ g.panes # <<>>
      /\ f.focus \in DOMAIN f.panes => g.focus \in DOMAIN g.panes
  BY <1>2, RestoreKindOrdered
<1>4. RestoreSystemPanes(d) = g
  BY DEF RestoreSystemPanes, e, f
<1> QED
  BY <1>1, <1>2, <1>3, <1>4

LEMMA RestoreSound ==
  ASSUME NEW d, Sound(d)
  PROVE  Sound(RestoreSystemPanes(d))
  BY RestoreOrdered DEF Sound

LEMMA CloseEndedSound ==
  ASSUME NEW d, Sound(d)
  PROVE  Sound(CloseEnded(d))
<1> DEFINE ps      == Retain(d.panes, NotEnded(d.panes))
           kept    == [d EXCEPT !.panes = ps]
           channel == d.panes[d.focus].channel
           focus   == IF HasChannel(Survivors(d).panes, channel)
                      THEN FirstOn(Survivors(d).panes, channel) ELSE 1
<1>1. Ordered(d.panes) /\ d \in Desks
  BY DEF Sound
<1>2. Ordered(ps)
  BY <1>1, RetainOrdered DEF NotEnded
<1>3. kept \in Desks /\ kept.panes = ps
  BY <1>1, <1>2 DEF Desks, Ordered
<1>4. Survivors(d) = IF ps = <<>> THEN RestoreSystemPanes(kept) ELSE kept
  BY <1>3 DEF Survivors
<1> HIDE DEF ps, kept
<1>5. /\ Survivors(d) \in Desks /\ Ordered(Survivors(d).panes)
      /\ Survivors(d).panes # <<>>
  BY <1>2, <1>3, <1>4, RestoreOrdered
<1>6. CloseEnded(d) = [Survivors(d) EXCEPT !.focus = focus]
  BY <1>3 DEF CloseEnded, Survivors
<1>7. focus \in DOMAIN Survivors(d).panes
  <2>1. Survivors(d).panes \in Seq(Pane)
    BY <1>5 DEF Ordered
  <2>2. 1 \in DOMAIN Survivors(d).panes
    BY <1>5, <2>1
  <2> QED
    BY <2>1, <2>2, FirstOnIsFirst
<1>8. focus \in Nat
  BY <1>5, <1>7 DEF Ordered
<1> HIDE DEF focus
<1> QED
  BY <1>5, <1>6, <1>7, <1>8 DEF Sound, Desks

-----------------------------------------------------------------------------
(* The desktop at the start.                                               *)

LEMMA InitialSound == Sound(InitialDesk)
<1> DEFINE ps == [i \in 1..3 |-> SystemPane(SystemKinds[i])]
<1>1. \A i \in 1..3 : /\ SystemPane(SystemKinds[i]) \in Pane
                      /\ SystemPane(SystemKinds[i]).kind = SystemKinds[i]
                      /\ SystemPane(SystemKinds[i]).channel = DefaultChannel(SystemKinds[i])
  <2>1. \A kind \in Kind : kind \in Title /\ DefaultChannel(kind) \in Own
    BY DEF Kind, Title, DefaultChannel, Own
  <2>2. \A kind \in Kind : SystemPane(kind) \in Pane
    BY <2>1, NewPaneType DEF SystemPane
  <2>3. \A i \in 1..3 : SystemKinds[i] \in Kind
    BY DEF SystemKinds, Kind
  <2> QED
    BY <2>2, <2>3 DEF SystemPane, NewPane
<1>2. ps \in Seq(Pane) /\ DOMAIN ps = 1..3
  BY <1>1
<1>3. \A i \in 1..3 : ps[i].kind = SystemKinds[i] /\ ps[i].channel = DefaultChannel(SystemKinds[i])
  BY <1>1
<1>4. InitialDesk = [panes |-> ps, focus |-> 1]
  BY DEF InitialDesk
<1> HIDE DEF ps
<1>5. Ordered(ps)
  <2>1. \A i, j \in 1..3 : /\ SystemKinds[i] = SystemKinds[j] => i = j
                           /\ SystemKinds[i] = "Shell" => i = 1
    BY DEF SystemKinds
  <2> QED
    BY <1>2, <1>3, <2>1 DEF Ordered, OwnChannels, Unique, ShellFirst
<1> QED
  BY <1>2, <1>4, <1>5 DEF Sound, Desks

-----------------------------------------------------------------------------
(* Which kinds of pane restoring adds.                                     *)

HasKind(ps, kind) == \E i \in DOMAIN ps : ps[i].kind = kind

(* A pane of the kind is there afterwards, and of no other kind that was   *)
(* not there before.                                                       *)
LEMMA RestoreKindAdds ==
  ASSUME NEW d \in Desks, Ordered(d.panes), NEW position \in 1..3,
         Len(d.panes) >= position - 1
  PROVE  LET e == RestoreKind(d, position)
         IN  /\ HasKind(e.panes, SystemKinds[position])
             /\ \A kind : HasKind(d.panes, kind) => HasKind(e.panes, kind)
             /\ \A kind : HasKind(e.panes, kind) =>
                  HasKind(d.panes, kind) \/ kind = SystemKinds[position]
<1> DEFINE kind == SystemKinds[position]
           pane == SystemPane(kind)
           qs   == InsertPane(d.panes, position, pane)
           e    == RestoreKind(d, position)
<1>1. DOMAIN d.panes = 1..Len(d.panes) /\ Len(d.panes) \in Nat
  BY DEF Ordered, Desks
<1>2. CASE HasKind(d.panes, kind)
  <2>1. e = d
    BY <1>2 DEF RestoreKind, HasKind
  <2> HIDE DEF e
  <2> QED
    BY <1>2, <2>1 DEF e
<1>3. CASE ~HasKind(d.panes, kind)
  <2>1. Smaller(position, Len(d.panes) + 1) = position
    BY <1>1 DEF Smaller
  <2>2. e.panes = qs
    BY <1>3, <2>1 DEF RestoreKind, HasKind
  <2>3. pane.kind = kind
    BY DEF SystemPane, NewPane
  <2> HIDE DEF pane, kind, e
  <2>4. position \in 1..(Len(d.panes) + 1)
    BY <1>1
  <2>5. /\ DOMAIN qs = 1..(Len(d.panes) + 1)
        /\ \A i \in 1..(Len(d.panes) + 1) :
             qs[i] = IF i < position THEN d.panes[i]
                     ELSE IF i = position THEN pane ELSE d.panes[i - 1]
    BY DEF InsertPane
  <2> HIDE DEF qs
  <2>6. \A i \in DOMAIN d.panes :
          IF i < position THEN i \in DOMAIN qs /\ qs[i] = d.panes[i]
                          ELSE i + 1 \in DOMAIN qs /\ qs[i + 1] = d.panes[i]
    BY <1>1, <2>5
  <2>7. \A j \in DOMAIN qs : j # position =>
          \E i \in DOMAIN d.panes : qs[j] = d.panes[i]
    <3> SUFFICES ASSUME NEW j \in DOMAIN qs, j # position
                 PROVE  \E i \in DOMAIN d.panes : qs[j] = d.panes[i]
      OBVIOUS
    <3>1. CASE j < position
      BY <1>1, <2>4, <2>5, <3>1
    <3>2. CASE ~(j < position)
      <4>1. j - 1 \in DOMAIN d.panes /\ qs[j] = d.panes[j - 1]
        BY <1>1, <2>4, <2>5, <3>2
      <4> QED
        BY <4>1
    <3> QED
      BY <3>1, <3>2
  <2>8. position \in DOMAIN qs /\ qs[position] = pane
    BY <2>4, <2>5
  <2>9. HasKind(qs, kind) /\ \A k : HasKind(d.panes, k) => HasKind(qs, k)
    BY <2>3, <2>6, <2>8 DEF HasKind
  <2>10. \A k : HasKind(qs, k) => HasKind(d.panes, k) \/ k = kind
    BY <2>3, <2>7, <2>8 DEF HasKind
  <2> QED
    BY <2>2, <2>9, <2>10 DEF kind, e
<1> QED
  BY <1>2, <1>3

-----------------------------------------------------------------------------
(* Where each pane goes.                                                   *)

(* Pane i of d is pane place[i] of e, unchanged and in order; the keyboard *)
(* is on the pane it was on, and e has no other panes than at new.         *)
Fits(place, d, e, new) ==
  /\ place \in [DOMAIN d.panes -> DOMAIN e.panes \ new]
  /\ \A i, j \in DOMAIN d.panes : i < j => place[i] < place[j]
  /\ \A i \in DOMAIN d.panes : e.panes[place[i]] = d.panes[i]
  /\ \A k \in DOMAIN e.panes \ new : \E i \in DOMAIN d.panes : place[i] = k
  /\ d.focus \in DOMAIN d.panes => e.focus = place[d.focus]

NewAt(ps, position) == IF HasKind(ps, SystemKinds[position]) THEN {} ELSE {position}

LEMMA RestoreKindFits ==
  ASSUME NEW d \in Desks, Ordered(d.panes), NEW position \in 1..3,
         Len(d.panes) >= position - 1
  PROVE  LET e == RestoreKind(d, position)
         IN  /\ \A p \in NewAt(d.panes, position) :
                  p \in DOMAIN e.panes /\ e.panes[p] = SystemPane(SystemKinds[p])
             /\ \E place : /\ Fits(place, d, e, NewAt(d.panes, position))
                           /\ \A i \in DOMAIN d.panes : i < position => place[i] = i
<1> DEFINE kind  == SystemKinds[position]
           pane  == SystemPane(kind)
           qs    == InsertPane(d.panes, position, pane)
           e     == RestoreKind(d, position)
           stays == [i \in DOMAIN d.panes |-> i]
           shift == [i \in DOMAIN d.panes |-> IF i < position THEN i ELSE i + 1]
<1>1. DOMAIN d.panes = 1..Len(d.panes) /\ Len(d.panes) \in Nat /\ d.focus \in Nat
  BY DEF Ordered, Desks
<1>2. CASE HasKind(d.panes, kind)
  <2>1. e = d /\ NewAt(d.panes, position) = {}
    BY <1>2 DEF RestoreKind, HasKind, NewAt
  <2>2. Fits(stays, d, d, {})
    BY DEF Fits
  <2> HIDE DEF e
  <2> QED
    BY <2>1, <2>2 DEF e
<1>3. CASE ~HasKind(d.panes, kind)
  <2>1. Smaller(position, Len(d.panes) + 1) = position
    BY <1>1 DEF Smaller
  <2>2. /\ e.panes = qs
        /\ e.focus = IF d.focus >= position THEN d.focus + 1 ELSE d.focus
        /\ NewAt(d.panes, position) = {position}
    BY <1>3, <2>1 DEF RestoreKind, HasKind, NewAt
  <2> HIDE DEF pane, e
  <2>3. /\ DOMAIN qs = 1..(Len(d.panes) + 1)
        /\ \A i \in 1..(Len(d.panes) + 1) :
             qs[i] = IF i < position THEN d.panes[i]
                     ELSE IF i = position THEN pane ELSE d.panes[i - 1]
    BY DEF InsertPane
  <2> HIDE DEF qs
  <2>4. shift \in [DOMAIN d.panes -> DOMAIN qs \ {position}]
    BY <1>1, <2>3
  <2>5. \A i, j \in DOMAIN d.panes : i < j => shift[i] < shift[j]
    BY <1>1
  <2>6. \A i \in DOMAIN d.panes : qs[shift[i]] = d.panes[i]
    BY <1>1, <2>3
  <2>7. ASSUME NEW k \in DOMAIN qs \ {position}
        PROVE  \E i \in DOMAIN d.panes : shift[i] = k
    <3>1. CASE k < position
      <4>1. k \in DOMAIN d.panes /\ shift[k] = k
        BY <1>1, <2>3, <2>7, <3>1
      <4> QED
        BY <4>1
    <3>2. CASE ~(k < position)
      <4>1. k - 1 \in DOMAIN d.panes /\ shift[k - 1] = k
        BY <1>1, <2>3, <2>7, <3>2
      <4> QED
        BY <4>1
    <3> QED
      BY <3>1, <3>2
  <2>8. d.focus \in DOMAIN d.panes => e.focus = shift[d.focus]
    BY <1>1, <2>2
  <2>9. Fits(shift, d, e, {position})
    BY <2>2, <2>4, <2>5, <2>6, <2>7, <2>8 DEF Fits
  <2>10. \A i \in DOMAIN d.panes : i < position => shift[i] = i
    OBVIOUS
  <2>11. position \in DOMAIN qs /\ qs[position] = pane
    BY <1>1, <2>3
  <2> HIDE DEF shift
  <2> QED
    BY <2>2, <2>9, <2>10, <2>11 DEF e, pane
<1> QED
  BY <1>2, <1>3

(* From d to e by g, then to f by h, which moves nothing below n.          *)
InTurn(d, e, f, g, h, new, more, n) ==
  /\ n \in Nat /\ DOMAIN d.panes \subseteq Nat
  /\ DOMAIN e.panes \subseteq Nat /\ DOMAIN f.panes \subseteq Nat
  /\ Fits(g, d, e, new) /\ Fits(h, e, f, more)
  /\ \A i \in DOMAIN e.panes : i < n => h[i] = i
  /\ \A k \in new : k \in DOMAIN e.panes /\ k < n
  /\ d.focus \in DOMAIN d.panes => e.focus \in DOMAIN e.panes

(* Every pane of d has its place in f, and what is new in e stays new.     *)
LEMMA FitsTwice ==
  ASSUME NEW d, NEW e, NEW f, NEW g, NEW h, NEW new, NEW more, NEW n,
         InTurn(d, e, f, g, h, new, more, n)
  PROVE  \E place : Fits(place, d, f, new \cup more)
<1> DEFINE place == [i \in DOMAIN d.panes |-> h[g[i]]]
<1>0. /\ n \in Nat /\ DOMAIN d.panes \subseteq Nat
      /\ DOMAIN e.panes \subseteq Nat /\ DOMAIN f.panes \subseteq Nat
      /\ Fits(g, d, e, new) /\ Fits(h, e, f, more)
      /\ \A i \in DOMAIN e.panes : i < n => h[i] = i
      /\ \A k \in new : k \in DOMAIN e.panes /\ k < n
      /\ d.focus \in DOMAIN d.panes => e.focus \in DOMAIN e.panes
  BY DEF InTurn
<1>1. /\ g \in [DOMAIN d.panes -> DOMAIN e.panes \ new]
      /\ h \in [DOMAIN e.panes -> DOMAIN f.panes \ more]
  BY <1>0 DEF Fits
<1>2. \A k \in new : h[k] = k
  BY <1>0
<1>3. \A i, j \in DOMAIN e.panes : h[i] = h[j] => i = j
  <2> SUFFICES ASSUME NEW i \in DOMAIN e.panes, NEW j \in DOMAIN e.panes, i < j
               PROVE  h[i] # h[j]
    BY <1>0
  <2>1. h[i] < h[j] /\ h[i] \in Nat /\ h[j] \in Nat
    BY <1>0, <1>1 DEF Fits
  <2> QED
    BY <2>1
<1>4. \A i \in DOMAIN d.panes : place[i] \in DOMAIN f.panes \ (new \cup more)
  BY <1>0, <1>1, <1>2, <1>3
<1>5. \A i, j \in DOMAIN d.panes : i < j => place[i] < place[j]
  BY <1>0, <1>1 DEF Fits
<1>6. \A i \in DOMAIN d.panes : f.panes[place[i]] = d.panes[i]
  BY <1>0, <1>1 DEF Fits
<1>7. ASSUME NEW k \in DOMAIN f.panes \ (new \cup more)
      PROVE  \E i \in DOMAIN d.panes : place[i] = k
  <2>1. PICK j \in DOMAIN e.panes : h[j] = k
    BY <1>0 DEF Fits
  <2>2. j \notin new
    BY <1>2, <1>7, <2>1
  <2>3. PICK i \in DOMAIN d.panes : g[i] = j
    BY <1>0, <2>2 DEF Fits
  <2> QED
    BY <2>1, <2>3
<1>8. d.focus \in DOMAIN d.panes => f.focus = place[d.focus]
  BY <1>0 DEF Fits
<1>9. Fits(place, d, f, new \cup more)
  <2>1. place \in [DOMAIN d.panes -> DOMAIN f.panes \ (new \cup more)]
    BY <1>4
  <2> HIDE DEF place
  <2> QED
    BY <2>1, <1>5, <1>6, <1>7, <1>8 DEF Fits
<1> QED
  BY <1>9

LEMMA RestoreFits ==
  ASSUME NEW d \in Desks, Ordered(d.panes)
  PROVE  LET e      == RestoreSystemPanes(d)
             closed == {p \in 1..3 : ~HasKind(d.panes, SystemKinds[p])}
         IN  /\ \A p \in closed : p \in DOMAIN e.panes /\ e.panes[p] = SystemPane(SystemKinds[p])
             /\ \E place : Fits(place, d, e, closed)
<1> DEFINE a == RestoreKind(d, 1)
           b == RestoreKind(a, 2)
           c == RestoreKind(b, 3)
           closed == {p \in 1..3 : ~HasKind(d.panes, SystemKinds[p])}
           one == NewAt(d.panes, 1)
           two == NewAt(a.panes, 2)
           three == NewAt(b.panes, 3)
<1>1. RestoreSystemPanes(d) = c
  BY DEF RestoreSystemPanes
<1>2. Len(d.panes) >= 1 - 1 /\ Len(d.panes) \in Nat
  BY DEF Ordered
<1>3. /\ a \in Desks /\ Ordered(a.panes)
      /\ d.focus \in DOMAIN d.panes => a.focus \in DOMAIN a.panes
  BY RestoreKindOrdered
<1>4. /\ HasKind(a.panes, SystemKinds[1])
      /\ \A kind : HasKind(d.panes, kind) => HasKind(a.panes, kind)
      /\ \A kind : HasKind(a.panes, kind) => HasKind(d.panes, kind) \/ kind = SystemKinds[1]
  <2> DEFINE k == SystemKinds[1]
  <2>1. /\ HasKind(a.panes, k)
        /\ \A kind : HasKind(d.panes, kind) => HasKind(a.panes, kind)
    BY <1>2, RestoreKindAdds
  <2>2. \A kind : HasKind(a.panes, kind) => HasKind(d.panes, kind) \/ kind = k
    BY <1>2, RestoreKindAdds
  <2> QED
    BY <2>1, <2>2
<1>5. /\ \A p \in one : p \in DOMAIN a.panes /\ a.panes[p] = SystemPane(SystemKinds[p])
      /\ \E place : Fits(place, d, a, one)
  BY <1>2, RestoreKindFits
<1> HIDE DEF a
<1>6. Len(a.panes) >= 2 - 1
  BY <1>3, <1>4 DEF HasKind, Ordered
<1>7. /\ b \in Desks /\ Ordered(b.panes)
      /\ a.focus \in DOMAIN a.panes => b.focus \in DOMAIN b.panes
  BY <1>3, RestoreKindOrdered
<1>8. /\ HasKind(b.panes, SystemKinds[2])
      /\ \A kind : HasKind(a.panes, kind) => HasKind(b.panes, kind)
      /\ \A kind : HasKind(b.panes, kind) => HasKind(a.panes, kind) \/ kind = SystemKinds[2]
  <2> DEFINE k == SystemKinds[2]
  <2>0. a \in Desks /\ Ordered(a.panes) /\ Len(a.panes) >= 2 - 1 /\ 2 \in 1..3
    BY <1>3, <1>6
  <2>1. /\ HasKind(b.panes, k)
        /\ \A kind : HasKind(a.panes, kind) => HasKind(b.panes, kind)
    BY <2>0, RestoreKindAdds
  <2>2. \A kind : HasKind(b.panes, kind) => HasKind(a.panes, kind) \/ kind = k
    BY <2>0, RestoreKindAdds
  <2> QED
    BY <2>1, <2>2
<1>9. /\ \A p \in two : p \in DOMAIN b.panes /\ b.panes[p] = SystemPane(SystemKinds[p])
      /\ \E place : /\ Fits(place, a, b, two)
                    /\ \A i \in DOMAIN a.panes : i < 2 => place[i] = i
  BY <1>3, <1>6, RestoreKindFits
<1> HIDE DEF b
<1>10. Len(b.panes) >= 3 - 1
  <2>1. HasKind(b.panes, SystemKinds[1])
    BY <1>4, <1>8
  <2>2. PICK i \in DOMAIN b.panes, j \in DOMAIN b.panes :
          b.panes[i].kind = SystemKinds[1] /\ b.panes[j].kind = SystemKinds[2]
    BY <1>8, <2>1 DEF HasKind
  <2>3. SystemKinds[1] # SystemKinds[2]
    BY DEF SystemKinds
  <2>4. i # j /\ DOMAIN b.panes = 1..Len(b.panes) /\ Len(b.panes) \in Nat
    BY <1>7, <2>2, <2>3 DEF Ordered
  <2> QED
    BY <2>4
<1>11. c \in Desks /\ Ordered(c.panes)
  BY <1>7, RestoreKindOrdered
<1>12. /\ \A p \in three : p \in DOMAIN c.panes /\ c.panes[p] = SystemPane(SystemKinds[p])
       /\ \E place : /\ Fits(place, b, c, three)
                     /\ \A i \in DOMAIN b.panes : i < 3 => place[i] = i
  BY <1>7, <1>10, RestoreKindFits
<1> HIDE DEF c
<1>13. /\ DOMAIN d.panes \subseteq Nat /\ DOMAIN a.panes \subseteq Nat
       /\ DOMAIN b.panes \subseteq Nat /\ DOMAIN c.panes \subseteq Nat
  BY <1>3, <1>7, <1>11 DEF Ordered
<1>14. one \subseteq {1} /\ two \subseteq {2} /\ three \subseteq {3}
  BY DEF NewAt
<1>15. one \cup two \cup three = closed
  <2>1. \A i, j \in 1..3 : i # j => SystemKinds[i] # SystemKinds[j]
    BY DEF SystemKinds
  <2>2. /\ HasKind(a.panes, SystemKinds[2]) <=> HasKind(d.panes, SystemKinds[2])
        /\ HasKind(b.panes, SystemKinds[3]) <=> HasKind(d.panes, SystemKinds[3])
    BY <1>4, <1>8, <2>1
  <2> QED
    BY <2>2 DEF NewAt
<1> HIDE DEF one, two, three, closed
<1>16. PICK f : Fits(f, d, a, one)
  BY <1>5
<1>17. PICK g : Fits(g, a, b, two) /\ \A i \in DOMAIN a.panes : i < 2 => g[i] = i
  BY <1>9
<1>18. PICK h : Fits(h, b, c, three) /\ \A i \in DOMAIN b.panes : i < 3 => h[i] = i
  BY <1>12
<1>19. \A k \in one : k \in DOMAIN a.panes /\ k < 2
  BY <1>5, <1>14
<1>20. PICK e : Fits(e, d, b, one \cup two)
  <2>1. InTurn(d, a, b, f, g, one, two, 2)
    BY <1>3, <1>13, <1>16, <1>17, <1>19 DEF InTurn
  <2> QED
    BY <2>1, FitsTwice
<1>21. \A k \in one : k \in DOMAIN b.panes /\ b.panes[k] = a.panes[k]
  BY <1>17, <1>19 DEF Fits
<1>22. \A k \in one \cup two : /\ k \in DOMAIN b.panes /\ k < 3
                              /\ b.panes[k] = SystemPane(SystemKinds[k])
  BY <1>5, <1>9, <1>14, <1>21
<1>23. /\ \E place : Fits(place, d, c, (one \cup two) \cup three)
       /\ \A k \in one \cup two : k \in DOMAIN c.panes /\ c.panes[k] = b.panes[k]
  <2>1. InTurn(d, b, c, e, h, one \cup two, three, 3)
    BY <1>3, <1>7, <1>13, <1>18, <1>20, <1>22 DEF InTurn
  <2>2. \E place : Fits(place, d, c, (one \cup two) \cup three)
    BY <2>1, FitsTwice
  <2>3. \A k \in one \cup two : k \in DOMAIN c.panes /\ c.panes[k] = b.panes[k]
    BY <1>18, <1>22 DEF Fits
  <2> QED
    BY <2>2, <2>3
<1>24. \A k \in closed : k \in DOMAIN c.panes /\ c.panes[k] = SystemPane(SystemKinds[k])
  BY <1>12, <1>15, <1>22, <1>23
<1> QED
  BY <1>1, <1>15, <1>23, <1>24 DEF closed

-----------------------------------------------------------------------------
(* With no panes at all, restoring gives the desktop of the start.         *)
LEMMA RestoreOfNone ==
  ASSUME NEW d \in Desks, d.panes = <<>>
  PROVE  RestoreSystemPanes(d).panes = InitialDesk.panes
<1> DEFINE e == RestoreSystemPanes(d)
           closed == {p \in 1..3 : ~HasKind(d.panes, SystemKinds[p])}
<1>1. DOMAIN d.panes = {} /\ Ordered(d.panes)
  BY DEF Ordered, OwnChannels, Unique, ShellFirst
<1>2. closed = 1..3
  BY <1>1 DEF HasKind
<1>3. /\ \A p \in closed : p \in DOMAIN e.panes /\ e.panes[p] = SystemPane(SystemKinds[p])
      /\ \E place : Fits(place, d, e, closed)
  BY <1>1, RestoreFits
<1>4. e \in Desks /\ e.panes \in Seq(Pane)
  BY <1>1, RestoreOrdered DEF Ordered
<1> HIDE DEF e
<1>5. DOMAIN e.panes \ closed = {}
  BY <1>1, <1>3 DEF Fits
<1>6. DOMAIN e.panes = 1..3 /\ \A p \in 1..3 : e.panes[p] = SystemPane(SystemKinds[p])
  BY <1>2, <1>3, <1>5
<1>7. e.panes = [p \in 1..3 |-> e.panes[p]]
  BY <1>4, <1>6
<1>8. InitialDesk.panes = [p \in 1..3 |-> SystemPane(SystemKinds[p])]
  BY DEF InitialDesk
<1> QED
  BY <1>6, <1>7, <1>8 DEF e

(* What a sweep leaves: the panes that have not ended, in order, or the    *)
(* three of the start.                                                     *)
LEMMA SweepLeaves ==
  ASSUME NEW d, Sound(d)
  PROVE  LET e    == CloseEnded(d)
             keep == NotEnded(d.panes)
         IN  /\ keep # {} =>
                  \E place \in [keep -> DOMAIN e.panes] :
                    /\ \A i, j \in keep : i < j => place[i] < place[j]
                    /\ \A i \in keep : e.panes[place[i]] = d.panes[i]
                    /\ \A k \in DOMAIN e.panes : \E i \in keep : place[i] = k
             /\ keep = {} => e.panes = InitialDesk.panes
             /\ HasChannel(e.panes, d.panes[d.focus].channel) =>
                  e.panes[e.focus].channel = d.panes[d.focus].channel
<1> DEFINE keep    == NotEnded(d.panes)
           ps      == Retain(d.panes, keep)
           kept    == [d EXCEPT !.panes = ps]
           channel == d.panes[d.focus].channel
           e       == CloseEnded(d)
           place   == [i \in keep |-> Rank(keep, i)]
<1>1. Ordered(d.panes) /\ d \in Desks /\ keep \in SUBSET (DOMAIN d.panes)
  BY DEF Sound, NotEnded
<1>2. DOMAIN d.panes = 1..Len(d.panes) /\ Len(d.panes) \in Nat
  BY <1>1 DEF Ordered
<1>3. /\ Ordered(ps) /\ Len(ps) = Cardinality(keep) /\ Cardinality(keep) \in Nat
      /\ DOMAIN ps = 1..Cardinality(keep)
  <2>1. /\ Ordered(ps) /\ Len(ps) = Cardinality(keep) /\ Cardinality(keep) \in Nat
    BY <1>1, RetainOrdered
  <2>2. DOMAIN ps = 1..Cardinality(keep)
    BY DEF Retain
  <2> HIDE DEF ps, keep
  <2> QED
    BY <2>1, <2>2
<1>4. /\ place \in [keep -> 1..Cardinality(keep)]
      /\ \A i, j \in keep : i < j => place[i] < place[j]
      /\ \A i \in keep : ps[place[i]] = d.panes[i]
      /\ \A k \in 1..Cardinality(keep) : \E i \in keep : place[i] = k
  BY <1>1, RetainPlaces
<1>5. kept \in Desks /\ kept.panes = ps
  BY <1>1, <1>3 DEF Desks, Ordered
<1>6. Survivors(d) = IF ps = <<>> THEN RestoreSystemPanes(kept) ELSE kept
  BY <1>5 DEF Survivors
<1>7. keep = {} <=> ps = <<>>
  <2>1. IsFiniteSet(keep)
    <3>1. IsFiniteSet(1..Len(d.panes))
      BY <1>2, FS_Interval
    <3>2. keep \in SUBSET (1..Len(d.panes))
      BY <1>1, <1>2
    <3> HIDE DEF keep
    <3> QED
      BY <3>1, <3>2, FS_Subset
  <2>2. keep = {} <=> Cardinality(keep) = 0
    BY <2>1, FS_EmptySet
  <2>3. ps \in Seq(Pane)
    BY <1>3 DEF Ordered
  <2> HIDE DEF ps, keep
  <2> QED
    BY <1>3, <2>2, <2>3
<1>8. CloseEnded(d) = [Survivors(d) EXCEPT !.focus = IF HasChannel(Survivors(d).panes, channel)
                                                     THEN FirstOn(Survivors(d).panes, channel) ELSE 1]
  BY DEF CloseEnded
<1> HIDE DEF ps, kept, place
<1>9. Survivors(d) \in Desks /\ Ordered(Survivors(d).panes)
  BY <1>3, <1>5, <1>6, RestoreOrdered
<1>10. /\ e.panes = Survivors(d).panes
       /\ HasChannel(Survivors(d).panes, channel) => e.focus = FirstOn(Survivors(d).panes, channel)
  BY <1>8, <1>9 DEF Desks
<1> HIDE DEF e, channel, keep
<1>11. keep = {} => e.panes = InitialDesk.panes
  BY <1>5, <1>6, <1>7, <1>10, RestoreOfNone
<1>12. ASSUME keep # {}
       PROVE  \E p \in [keep -> DOMAIN e.panes] :
                /\ \A i, j \in keep : i < j => p[i] < p[j]
                /\ \A i \in keep : e.panes[p[i]] = d.panes[i]
                /\ \A k \in DOMAIN e.panes : \E i \in keep : p[i] = k
  <2>1. e.panes = ps
    BY <1>5, <1>6, <1>7, <1>10, <1>12
  <2> QED
    BY <1>3, <1>4, <2>1
<1>13. HasChannel(e.panes, channel) => e.panes[e.focus].channel = channel
  BY <1>9, <1>10, FirstOnIsFirst DEF Ordered
<1> QED
  BY <1>11, <1>12, <1>13 DEF e, channel, keep
=============================================================================
