---------------------------- MODULE DesktopProofs ----------------------------
(***************************************************************************)
(* Proofs about Desktop and Keyboard, for every set of keys, channels and  *)
(* names: what the person and the target do in any order leaves the panes  *)
(* sound, and the target never moves the keyboard; and keys and clicks do  *)
(* only what Desktop allows, a command never without its prefix.           *)
(***************************************************************************)
EXTENDS Keyboard, PaneListProofs

(* The panes are sound and the modes Boolean.                              *)
DesktopIInv ==
  /\ Sound(desk)
  /\ zoomed \in BOOLEAN /\ help \in BOOLEAN /\ copyMode \in BOOLEAN
  /\ broadcast \in BOOLEAN /\ broadcastArmed \in BOOLEAN

LEMMA DesktopInit == Init => DesktopIInv
  BY InitialSound DEF Init, DesktopIInv

-----------------------------------------------------------------------------
(* Commands.                                                               *)

LEMMA SeenSound ==
  ASSUME NEW d, Sound(d)
  PROVE  Sound(Seen(d))
<1> DEFINE pane == [d.panes[d.focus] EXCEPT !.alert = FALSE]
<1>1. d.focus \in DOMAIN d.panes /\ d.panes[d.focus] \in Pane
  BY PaneAt DEF Sound
<1>2. pane \in Pane /\ pane.kind = d.panes[d.focus].kind /\ pane.channel = d.panes[d.focus].channel
  BY <1>1 DEF Pane
<1>3. Seen(d) = [d EXCEPT !.panes[d.focus] = pane]
  BY <1>1 DEF Seen, Sound, Desks
<1> HIDE DEF pane
<1> QED
  BY <1>1, <1>2, <1>3, PaneFlagged

LEMMA FocusSound ==
  ASSUME NEW d, Sound(d), NEW n \in DOMAIN d.panes
  PROVE  Sound([d EXCEPT !.focus = n])
  BY DEF Sound, Desks, Ordered

LEMMA ArrangeKeeps ==
  ASSUME DesktopIInv, NEW key, NEW d, Sound(d), Arrange(key, d)
  PROVE  DesktopIInv'
<1>1. desk' = Seen(d) /\ broadcastArmed' = FALSE /\ UNCHANGED modes
  BY DEF Arrange, Disarmed
<1>2. Sound(desk')
  BY <1>1, SeenSound
<1> QED
  BY <1>1, <1>2 DEF DesktopIInv, modes

LEMMA CommandKeeps ==
  ASSUME DesktopIInv, NEW key \in Keys, CommandKey(key)
  PROVE  DesktopIInv'
<1>1. Sound(desk) /\ panes = desk.panes
  BY DEF DesktopIInv, panes
<1>2. DOMAIN panes = 1..Len(panes) /\ Len(panes) \in Nat /\ desk.focus \in 1..Len(panes)
  BY <1>1 DEF Sound, Ordered
<1>3. ASSUME NEW n \in 1..9, FocusPane(n)
      PROVE  DesktopIInv'
  <2>1. n \in 1..Len(panes)
    BY <1>2, <1>3 DEF FocusPane
  <2>2. Sound([desk EXCEPT !.focus = n])
    BY <1>1, <1>2, <2>1, FocusSound
  <2> QED
    BY <1>3, <2>2, ArrangeKeeps DEF FocusPane
<1>4. CASE NextPane
  <2>1. (desk.focus % Len(panes)) + 1 \in DOMAIN panes
    BY <1>2
  <2>2. Sound([desk EXCEPT !.focus = (@ % Len(panes)) + 1])
    BY <1>1, <2>1, FocusSound
  <2> QED
    BY <1>4, <2>2, ArrangeKeeps DEF NextPane
<1>5. CASE PrevPane
  <2>1. ((desk.focus + Len(panes) - 2) % Len(panes)) + 1 \in DOMAIN panes
    BY <1>2
  <2>2. Sound([desk EXCEPT !.focus = ((@ + Len(panes) - 2) % Len(panes)) + 1])
    BY <1>1, <2>1, FocusSound
  <2> QED
    BY <1>5, <2>2, ArrangeKeeps DEF PrevPane
<1>6. CASE ClosePane
  BY <1>1, <1>6, CloseFocusedSound, ArrangeKeeps DEF ClosePane
<1>7. CASE SweepEnded
  BY <1>1, <1>7, CloseEndedSound, ArrangeKeeps DEF SweepEnded
<1>8. CASE Restore
  BY <1>1, <1>8, RestoreSound, ArrangeKeeps DEF Restore
<1>9. CASE ClearPane \/ Unbound(key)
  BY <1>1, <1>9, ArrangeKeeps DEF ClearPane, Unbound
<1>10. CASE ReturnEarly(key)
  BY <1>10 DEF ReturnEarly, Disarmed, modes, DesktopIInv
<1>11. CASE \/ ToggleZoom \/ ToggleCopy \/ ToggleHelp \/ CloseHelp(key) \/ CancelModes
            \/ ArmBroadcast \/ ToggleBroadcast
  <2>1. Sound(desk')
    BY <1>1, <1>11, SeenSound
       DEF ToggleZoom, ToggleCopy, ToggleHelp, CloseHelp, CancelModes,
           ArmBroadcast, ToggleBroadcast
  <2> QED
    BY <1>11, <2>1
       DEF ToggleZoom, ToggleCopy, ToggleHelp, CloseHelp, CancelModes,
           ArmBroadcast, ToggleBroadcast, Disarmed, modes, DesktopIInv
<1> QED
  BY <1>3, <1>4, <1>5, <1>6, <1>7, <1>8, <1>9, <1>10, <1>11 DEF CommandKey

-----------------------------------------------------------------------------
(* Frames.                                                                 *)

LEMMA FrameKeeps ==
  ASSUME DesktopIInv, Frame
  PROVE  /\ Sound(desk') /\ Stays(desk, desk')
         /\ UNCHANGED <<modes, broadcastArmed>>
<1>1. Sound(desk)
  BY DEF DesktopIInv
<1>2. Channels \subseteq Own /\ ShellChannel \in Own
  BY DEF Own
<1>3. \A name \in Names \cup {NoName} : name \in Title /\ TtyTitle \in Title
  BY DEF Title
<1>4. CASE PlainOutput \/ DebuggerPrints \/ LocalEcho
  BY <1>1, <1>4, PushSound DEF PlainOutput, DebuggerPrints, LocalEcho, Background
<1>5. ASSUME NEW channel \in Channels, NEW rewound \in BOOLEAN, TtyOutput(channel, rewound)
      PROVE  Sound(desk') /\ Stays(desk, desk') /\ UNCHANGED <<modes, broadcastArmed>>
  <2> DEFINE opened == OpenForOutput(desk, channel)
             shown  == PushChannel(opened, channel)
             told   == PushChannel(shown, DebuggerChannel)
  <2>1. Sound(opened) /\ Stays(desk, opened)
    BY <1>1, <1>2, OpenSound
  <2> HIDE DEF opened
  <2>2. Sound(shown) /\ Stays(opened, shown)
    BY <2>1, PushSound
  <2> HIDE DEF shown
  <2>3. Sound(told) /\ Stays(shown, told)
    BY <2>2, PushSound
  <2> HIDE DEF told
  <2>4. Stays(desk, shown) /\ Stays(desk, told)
    BY <2>1, <2>2, <2>3, StaysTwice
  <2>5. desk' = (IF rewound THEN told ELSE shown) /\ UNCHANGED <<modes, broadcastArmed>>
    BY <1>5 DEF TtyOutput, Background, told, shown, opened
  <2> QED
    BY <2>2, <2>3, <2>4, <2>5
<1>6. ASSUME NEW channel \in Channels, NEW name \in Names \cup {NoName},
             ChannelOpen(channel, name)
      PROVE  Sound(desk') /\ Stays(desk, desk') /\ UNCHANGED <<modes, broadcastArmed>>
  <2> DEFINE cleared == ClearChannel(desk, channel)
             title   == IF name = NoName THEN TtyTitle ELSE name
             added   == AddApplication(cleared, channel, title)
  <2>1. Sound(cleared) /\ Stays(desk, cleared)
    BY <1>1, ClearSound
  <2>2. title \in Title
    BY <1>3
  <2> HIDE DEF cleared, title
  <2>3. Sound(added) /\ Stays(cleared, added)
    BY <1>2, <2>1, <2>2, AddSound
  <2> HIDE DEF added
  <2>4. Stays(desk, added)
    BY <2>1, <2>3, StaysTwice
  <2>5. desk' = added /\ UNCHANGED <<modes, broadcastArmed>>
    BY <1>6 DEF ChannelOpen, Background, added, title, cleared
  <2> QED
    BY <2>3, <2>4, <2>5
<1>7. ASSUME NEW channel \in Channels, NEW name \in Names \cup {NoName},
             ChannelTitle(channel, name)
      PROVE  Sound(desk') /\ Stays(desk, desk') /\ UNCHANGED <<modes, broadcastArmed>>
  BY <1>1, <1>3, <1>7, TitleSound DEF ChannelTitle, Background
<1>8. ASSUME NEW listing \in Listings, SnapshotPublished(listing)
      PROVE  Sound(desk') /\ Stays(desk, desk') /\ UNCHANGED <<modes, broadcastArmed>>
  <2>1. \A channel \in DOMAIN listing : listing[channel] \in Names \cup {NoName}
    BY DEF Listings
  <2> QED
    BY <1>1, <1>8, <2>1, FollowSound DEF SnapshotPublished, Background
<1> QED
  BY <1>4, <1>5, <1>6, <1>7, <1>8 DEF Frame, TargetFrame

LEMMA DesktopNext ==
  ASSUME DesktopIInv, [Next]_vars
  PROVE  DesktopIInv'
<1>1. CASE Command
  BY <1>1, CommandKeeps DEF Command
<1>2. CASE Frame
  BY <1>2, FrameKeeps DEF DesktopIInv, modes
<1>3. CASE UNCHANGED vars
  BY <1>3 DEF vars, modes, DesktopIInv
<1> QED
  BY <1>1, <1>2, <1>3 DEF Next

LEMMA DesktopInvariant == Spec => []DesktopIInv
<1>1. DesktopIInv /\ [Next]_vars => DesktopIInv'
  BY DesktopNext
<1> QED
  BY DesktopInit, <1>1, PTL DEF Spec

-----------------------------------------------------------------------------
(* Results.                                                                *)

(* Whatever is opened, closed, swept or restored, there is a pane where    *)
(* the code indexes it without a check.                                    *)
THEOREM TypeCorrect == Spec => []TypeOK
<1>1. DesktopIInv => TypeOK
  BY DEF DesktopIInv, Sound, Desks, TypeOK, Desk, panes
<1> QED
  BY DesktopInvariant, <1>1, PTL

(* No two Application panes come to share a channel, and no system pane is *)
(* there twice.                                                            *)
THEOREM NoPaneTwice == Spec => []PanesUnique
<1>1. DesktopIInv => PanesUnique
  BY DEF DesktopIInv, Sound, Ordered, Unique, PanesUnique, panes
<1> QED
  BY DesktopInvariant, <1>1, PTL

(* The shell's output finds the Shell pane whenever there is one.          *)
THEOREM ShellIsReached == Spec => []ShellOutputReachesShell
<1>1. DesktopIInv => ShellOutputReachesShell
  <2> SUFFICES ASSUME DesktopIInv, NEW i \in DOMAIN desk.panes, desk.panes[i].kind = "Shell"
               PROVE  FirstOn(desk.panes, ShellChannel) = i
    BY DEF ShellOutputReachesShell, panes
  <2>1. desk.panes \in Seq(Pane) /\ OwnChannels(desk.panes) /\ ShellFirst(desk.panes)
    BY DEF DesktopIInv, Sound, Ordered
  <2>2. desk.panes[i].channel = ShellChannel
    BY <2>1 DEF OwnChannels, DefaultChannel
  <2>3. HasChannel(desk.panes, ShellChannel)
    BY <2>2 DEF HasChannel, On
  <2> DEFINE first == FirstOn(desk.panes, ShellChannel)
  <2>4. first \in DOMAIN desk.panes /\ first <= i /\ desk.panes[first].channel = ShellChannel
    BY <2>1, <2>2, <2>3, FirstOnIsFirst
  <2> HIDE DEF first
  <2>5. i <= first
    BY <2>1, <2>4 DEF ShellFirst
  <2>6. i \in Nat /\ first \in Nat
    BY <2>1, <2>4
  <2>7. first = i
    BY <2>4, <2>5, <2>6
  <2> QED
    BY <2>7 DEF first
<1> QED
  BY DesktopInvariant, <1>1, PTL

(* No frame moves the keyboard, however many panes the target opens.       *)
THEOREM FramesLeaveKeyboard == Spec => FramesKeepKeyboard
<1>1. DesktopIInv /\ [Next]_vars
      => [~SameButFlags(panes'[desk'.focus], Focused) => ~Frame]_vars
  <2> SUFFICES ASSUME DesktopIInv, Frame
               PROVE  SameButFlags(panes'[desk'.focus], Focused)
    OBVIOUS
  <2>1. Stays(desk, desk') /\ desk.focus \in DOMAIN desk.panes
    BY FrameKeeps DEF DesktopIInv, Sound
  <2> QED
    BY <2>1 DEF Stays, SameButFlags, Focused, panes
<1> QED
  BY DesktopInvariant, <1>1, PTL DEF Spec, FramesKeepKeyboard

-----------------------------------------------------------------------------
(* Restoring and sweeping.                                                 *)

(* Looking at a pane takes nothing but its alert away.                     *)
LEMMA SeenSame ==
  ASSUME NEW d, Sound(d)
  PROVE  /\ Seen(d).focus = d.focus /\ DOMAIN Seen(d).panes = DOMAIN d.panes
         /\ \A i \in DOMAIN d.panes : SamePane(Seen(d).panes[i], d.panes[i])
         /\ \A i \in DOMAIN d.panes : ~d.panes[i].alert => Seen(d).panes[i] = d.panes[i]
<1> DEFINE pane == [d.panes[d.focus] EXCEPT !.alert = FALSE]
           ps   == [d.panes EXCEPT ![d.focus] = pane]
<1>1. d.focus \in DOMAIN d.panes /\ d.panes \in Seq(Pane) /\ d \in Desks
  BY DEF Sound, Ordered
<1>2. \A i \in DOMAIN d.panes : d.panes[i] \in Pane
  BY PaneAt
<1>3. \A p \in Pane : SamePane(p, p) /\ SamePane([p EXCEPT !.alert = FALSE], p)
  BY DEF SamePane, Pane
<1>4. \A p \in Pane : ~p.alert => [p EXCEPT !.alert = FALSE] = p
  BY DEF Pane
<1>5. Seen(d) = [d EXCEPT !.panes = ps]
  BY <1>1 DEF Seen, Desks
<1>6. DOMAIN ps = DOMAIN d.panes
  BY <1>1
<1>7. \A i \in DOMAIN d.panes : /\ SamePane(ps[i], d.panes[i])
                                /\ ~d.panes[i].alert => ps[i] = d.panes[i]
  BY <1>1, <1>2, <1>3, <1>4
<1> HIDE DEF ps
<1>8. Seen(d).panes = ps /\ Seen(d).focus = d.focus
  BY <1>1, <1>5 DEF Desks
<1> QED
  BY <1>6, <1>7, <1>8

(* S opens the system panes that were closed at their own positions and no *)
(* others, leaves every pane there was in its order and the keyboard on    *)
(* its pane.                                                               *)
THEOREM RestoreInPlace == Spec => RestoreIsCanonical
<1> DEFINE Canonical ==
             LET others == DOMAIN panes' \ Closed(panes)
             IN  /\ \A p \in Closed(panes) : /\ p \in DOMAIN panes'
                                             /\ panes'[p] = SystemPane(SystemKinds[p])
                 /\ \E place \in [DOMAIN panes -> others] :
                      /\ InOrder(place, panes, panes')
                      /\ \A k \in others : \E i \in DOMAIN panes : place[i] = k
                      /\ desk'.focus = place[desk.focus]
<1>1. ASSUME DesktopIInv, Restore
      PROVE  Canonical
  <2> DEFINE e == RestoreSystemPanes(desk)
             others == DOMAIN desk'.panes \ Closed(desk.panes)
  <2>1. Sound(desk) /\ desk \in Desks /\ Ordered(desk.panes) /\ desk.focus \in DOMAIN desk.panes
    BY <1>1 DEF DesktopIInv, Sound
  <2>2. desk' = Seen(e)
    BY <1>1 DEF Restore, Arrange
  <2>3. Sound(e)
    BY <2>1, RestoreSound
  <2>4. Closed(desk.panes) = {p \in 1..3 : ~HasKind(desk.panes, SystemKinds[p])}
    BY DEF Closed, HasKind
  <2>5. /\ \A p \in Closed(desk.panes) :
             p \in DOMAIN e.panes /\ e.panes[p] = SystemPane(SystemKinds[p])
        /\ \E place : Fits(place, desk, e, Closed(desk.panes))
    BY <2>1, <2>4, RestoreFits
  <2> HIDE DEF e
  <2>6. PICK place : Fits(place, desk, e, Closed(desk.panes))
    BY <2>5
  <2>7. /\ desk'.focus = e.focus /\ DOMAIN desk'.panes = DOMAIN e.panes
        /\ \A i \in DOMAIN e.panes : SamePane(desk'.panes[i], e.panes[i])
        /\ \A i \in DOMAIN e.panes : ~e.panes[i].alert => desk'.panes[i] = e.panes[i]
    BY <2>2, <2>3, SeenSame
  <2>8. \A kind : ~SystemPane(kind).alert
    BY DEF SystemPane, NewPane
  <2>9. \A p \in Closed(desk.panes) : /\ p \in DOMAIN desk'.panes
                                      /\ desk'.panes[p] = SystemPane(SystemKinds[p])
    BY <2>5, <2>7, <2>8
  <2>10. place \in [DOMAIN desk.panes -> others]
    BY <2>6, <2>7 DEF Fits
  <2>11. InOrder(place, desk.panes, desk'.panes)
    BY <2>6, <2>7 DEF Fits, InOrder
  <2>12. /\ \A k \in others : \E i \in DOMAIN desk.panes : place[i] = k
         /\ desk'.focus = place[desk.focus]
    BY <2>1, <2>6, <2>7 DEF Fits
  <2> HIDE DEF others
  <2> QED
    BY <2>9, <2>10, <2>11, <2>12 DEF panes, others
<1>2. DesktopIInv /\ [Next]_vars => [Restore => Canonical]_vars
  BY <1>1
<1> QED
  BY DesktopInvariant, <1>2, PTL DEF Spec, RestoreIsCanonical

(* c closes the panes that have ended and no other: the rest stay as they  *)
(* are and in order, or the three system panes come anew; and the keyboard *)
(* is not taken from a channel that still has a pane.                      *)
THEOREM SweepIsExact == Spec => SweepClosesEnded
<1> DEFINE Exact ==
             /\ IF NotEnded(panes) = {} THEN panes' = InitialDesk.panes
                ELSE \E place \in [NotEnded(panes) -> DOMAIN panes'] :
                       /\ InOrder(place, panes, panes')
                       /\ \A k \in DOMAIN panes' : \E i \in NotEnded(panes) : place[i] = k
             /\ HasChannel(panes', Focused.channel)
                  => panes'[desk'.focus].channel = Focused.channel
<1>1. ASSUME DesktopIInv, SweepEnded
      PROVE  Exact
  <2> DEFINE e == CloseEnded(desk)
             keep == NotEnded(desk.panes)
             channel == desk.panes[desk.focus].channel
  <2>1. Sound(desk)
    BY <1>1 DEF DesktopIInv
  <2>2. desk' = Seen(e)
    BY <1>1 DEF SweepEnded, Arrange
  <2>3. Sound(e)
    BY <2>1, CloseEndedSound
  <2>4. /\ keep # {} =>
             \E place \in [keep -> DOMAIN e.panes] :
               /\ \A i, j \in keep : i < j => place[i] < place[j]
               /\ \A i \in keep : e.panes[place[i]] = desk.panes[i]
               /\ \A k \in DOMAIN e.panes : \E i \in keep : place[i] = k
        /\ keep = {} => e.panes = InitialDesk.panes
        /\ HasChannel(e.panes, channel) => e.panes[e.focus].channel = channel
    BY <2>1, SweepLeaves
  <2> HIDE DEF e, channel, keep
  <2>5. e.focus \in DOMAIN e.panes /\ e.panes \in Seq(Pane)
    BY <2>3 DEF Sound, Ordered
  <2>6. /\ desk'.focus = e.focus /\ DOMAIN desk'.panes = DOMAIN e.panes
        /\ \A i \in DOMAIN e.panes : SamePane(desk'.panes[i], e.panes[i])
        /\ \A i \in DOMAIN e.panes : ~e.panes[i].alert => desk'.panes[i] = e.panes[i]
    BY <2>2, <2>3, SeenSame
  <2>7. ASSUME keep = {}
        PROVE  desk'.panes = InitialDesk.panes
    <3>1. \A i \in 1..3 : ~InitialDesk.panes[i].alert
      BY DEF InitialDesk, SystemPane, NewPane
    <3>2. DOMAIN InitialDesk.panes = 1..3
      BY DEF InitialDesk
    <3>3. \A i \in DOMAIN e.panes : desk'.panes[i] = e.panes[i]
      BY <2>4, <2>6, <2>7, <3>1, <3>2
    <3>4. Sound(desk')
      BY <2>2, <2>3, SeenSound
    <3>5. desk'.panes \in Seq(Pane)
      BY <3>4 DEF Sound, Ordered
    <3> QED
      BY <2>4, <2>5, <2>6, <2>7, <3>3, <3>5
  <2>8. ASSUME keep # {}
        PROVE  \E place \in [keep -> DOMAIN desk'.panes] :
                 /\ InOrder(place, desk.panes, desk'.panes)
                 /\ \A k \in DOMAIN desk'.panes : \E i \in keep : place[i] = k
    <3>1. PICK place \in [keep -> DOMAIN e.panes] :
            /\ \A i, j \in keep : i < j => place[i] < place[j]
            /\ \A i \in keep : e.panes[place[i]] = desk.panes[i]
            /\ \A k \in DOMAIN e.panes : \E i \in keep : place[i] = k
      BY <2>4, <2>8
    <3>2. InOrder(place, desk.panes, desk'.panes)
      BY <2>6, <3>1 DEF InOrder
    <3> QED
      BY <2>6, <3>1, <3>2
  <2>9. HasChannel(desk'.panes, channel) => desk'.panes[desk'.focus].channel = channel
    <3>1. \A a : \A b \in Pane : SamePane(a, b) => a.channel = b.channel
      BY DEF SamePane, Pane
    <3>2. \A i \in DOMAIN e.panes : e.panes[i] \in Pane
      BY <2>3, PaneAt
    <3>3. \A i \in DOMAIN e.panes : desk'.panes[i].channel = e.panes[i].channel
      BY <2>6, <3>1, <3>2
    <3> QED
      BY <2>4, <2>5, <2>6, <3>3 DEF HasChannel, On
  <2> QED
    BY <2>7, <2>8, <2>9 DEF panes, Focused, keep, channel
<1>2. DesktopIInv /\ [Next]_vars => [SweepEnded => Exact]_vars
  BY <1>1
<1> QED
  BY DesktopInvariant, <1>2, PTL DEF Spec, SweepClosesEnded

-----------------------------------------------------------------------------
(* Each key is a command, an echo, a line of the console or nothing to the *)
(* desktop.                                                                *)

LEMMA CommandIsKey ==
  ASSUME NEW key, CommandKey(key)
  PROVE  Next
<1>1. key \in Keys
  BY DEF CommandKey, FocusPane, NextPane, PrevPane, ClosePane, ClearPane, Restore, SweepEnded,
         ToggleZoom, ToggleCopy, ToggleHelp, ArmBroadcast, ToggleBroadcast, CancelModes,
         CloseHelp, ReturnEarly, Unbound, Arrange, Disarmed
<1> QED
  BY <1>1 DEF Next, Command

LEMMA CopyIsKey ==
  ASSUME ToggleCopy
  PROVE  Next
<1>1. CommandKey("y")
  BY DEF CommandKey
<1> QED
  BY <1>1, CommandIsKey

LEMMA HandledByDesktop ==
  ASSUME NEW key, Handle(key)
  PROVE  [Next]_vars
<1>1. CASE Modifier(key)
  BY <1>1 DEF Modifier
<1>2. CASE PrefixedCommand(key)
  BY <1>2, CommandIsKey DEF PrefixedCommand, Next, Frame
<1>3. CASE ArmPrefix(key)
  BY <1>3 DEF ArmPrefix
<1>4. CASE DismissHelp(key)
  BY <1>4, CommandIsKey DEF DismissHelp
<1>5. CASE CopyMotion(key)
  BY <1>5, CopyIsKey DEF CopyMotion
<1>6. CASE ConsoleKey(key)
  BY <1>6 DEF ConsoleKey, Next, Frame
<1>7. CASE ToTarget(key)
  BY <1>7 DEF ToTarget, Next, Frame
<1> QED
  BY <1>1, <1>2, <1>3, <1>4, <1>5, <1>6, <1>7 DEF Handle

LEMMA KeyboardStep ==
  ASSUME [KeyboardNext]_keyboardVars
  PROVE  [Next]_vars
<1>1. CASE KeyboardNext
  BY <1>1, HandledByDesktop DEF KeyboardNext, Key, MenuPrefix, MenuCommand, FrameArrives, Next, Frame
<1>2. CASE UNCHANGED keyboardVars
  BY <1>2 DEF keyboardVars
<1> QED
  BY <1>1, <1>2

(* Whatever keys, clicks and frames come, the desktop behaves as Desktop   *)
(* says: its theorems hold of it under dispatch::key.                      *)
THEOREM KeysDriveDesktop == KeyboardSpec => Spec
<1>1. KeyboardInit => Init
  BY DEF KeyboardInit
<1>2. [KeyboardNext]_keyboardVars => [Next]_vars
  BY KeyboardStep
<1> QED
  BY <1>1, <1>2, PTL DEF KeyboardSpec, Spec

-----------------------------------------------------------------------------
(* Commands and their prefix.                                              *)

(* The prefix is armed only right after it was pressed.                    *)
ArmedByPrefix == prefixArmed => prefixed

LEMMA ArmedByPrefixAlways == KeyboardSpec => []ArmedByPrefix
<1>1. KeyboardInit => ArmedByPrefix
  BY DEF KeyboardInit, ArmedByPrefix
<1>2. ASSUME ArmedByPrefix, NEW key, Handle(key)
      PROVE  ArmedByPrefix'
  BY <1>2 DEF ArmedByPrefix, Handle, Modifier, PrefixedCommand, PrefixTaken, ArmPrefix,
              DismissHelp, CopyMotion, ConsoleKey, ToTarget, Bare
<1>3. ArmedByPrefix /\ [KeyboardNext]_keyboardVars => ArmedByPrefix'
  BY <1>2 DEF KeyboardNext, Key, MenuPrefix, MenuCommand, FrameArrives,
              ArmedByPrefix, keyboardVars, keyboard
<1> QED
  BY <1>1, <1>3, PTL DEF KeyboardSpec

LEMMA PushShape ==
  ASSUME NEW d, Sound(d), NEW channel
  PROVE  Shape(PushChannel(d, channel)) = Shape(d)
<1> DEFINE e == PushChannel(d, channel)
<1>1. Stays(d, e)
  BY PushSound
<1>2. DOMAIN e.panes = DOMAIN d.panes
  BY DEF PushChannel, Sound, Desks
<1> HIDE DEF e
<1>3. [i \in DOMAIN e.panes |-> e.panes[i].kind] = [i \in DOMAIN d.panes |-> d.panes[i].kind]
  BY <1>1, <1>2 DEF Stays
<1> QED
  BY <1>1, <1>3 DEF Shape, Stays, e

(* A key that does not follow the prefix closes no pane, does not move the *)
(* keyboard and switches no mode, outside the help overlay and copy mode.  *)
THEOREM PrefixPerCommand == KeyboardSpec => CommandsNeedPrefix
<1>1. ASSUME DesktopIInv, ArmedByPrefix, ~help, ~copyMode, ~prefixed,
             NEW key \in AllInputs, Key(key)
      PROVE  Shape(desk)' = Shape(desk) /\ UNCHANGED modes
  <2>1. Sound(desk) /\ ~prefixArmed
    BY <1>1 DEF DesktopIInv, ArmedByPrefix
  <2>2. ASSUME UNCHANGED vars
        PROVE  Shape(desk)' = Shape(desk) /\ UNCHANGED modes
    BY <2>2 DEF vars
  <2>3. ASSUME NEW channel, Background(PushChannel(desk, channel))
        PROVE  Shape(desk)' = Shape(desk) /\ UNCHANGED modes
    <3>1. desk' = PushChannel(desk, channel) /\ UNCHANGED modes
      BY <2>3 DEF Background
    <3>2. Shape(desk') = Shape(desk)
      BY <2>1, <3>1, PushShape
    <3> QED
      BY <3>1, <3>2
  <2>4. Handle(key)
    BY <1>1 DEF Key
  <2>5. CASE Modifier(key) \/ ArmPrefix(key)
    BY <2>2, <2>5 DEF Modifier, ArmPrefix
  <2>6. CASE PrefixedCommand(key)
    BY <2>1, <2>6 DEF PrefixedCommand
  <2>7. CASE DismissHelp(key) \/ CopyMotion(key)
    BY <1>1, <2>7 DEF DismissHelp, Dismisses, CopyMotion, Claims
  <2>8. CASE ConsoleKey(key)
    BY <2>2, <2>3, <2>8 DEF ConsoleKey, DebuggerPrints
  <2>9. CASE ToTarget(key)
    BY <2>3, <2>9 DEF ToTarget, LocalEcho
  <2> QED
    BY <2>4, <2>5, <2>6, <2>7, <2>8, <2>9 DEF Handle
<1>2. DesktopIInv /\ ArmedByPrefix /\ [KeyboardNext]_keyboardVars =>
        [(\E key \in AllInputs : Key(key)) /\ ~help /\ ~copyMode /\ ~prefixed =>
           Shape(desk)' = Shape(desk) /\ UNCHANGED modes]_keyboardVars
  BY <1>1
<1> QED
  BY KeysDriveDesktop, DesktopInvariant, ArmedByPrefixAlways, <1>2, PTL
     DEF KeyboardSpec, CommandsNeedPrefix

(* In copy mode a motion is claimed before the console or the target is    *)
(* asked, in every pane and whatever help and the other modes are.         *)
THEOREM ScrollingIsClaimed == KeyboardSpec => ScrollingDoesNotType
<1>1. ASSUME copyMode, ~prefixArmed, NEW key \in Motions, Key(key)
      PROVE  output' = Nothing
  <2>1. Claims(key) /\ Handle(key)
    BY <1>1 DEF Claims, Key
  <2> QED
    BY <1>1, <2>1 DEF Handle, Modifier, PrefixedCommand, ArmPrefix, DismissHelp, CopyMotion,
                      ConsoleKey, ToTarget
<1>2. [KeyboardNext]_keyboardVars =>
        [\A key \in Motions : copyMode /\ ~prefixArmed /\ Key(key) => output' = Nothing]_keyboardVars
  BY <1>1
<1> QED
  BY <1>2, PTL DEF KeyboardSpec, ScrollingDoesNotType
=============================================================================
