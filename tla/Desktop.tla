------------------------------- MODULE Desktop -------------------------------
(***************************************************************************)
(* The desktop of swtos-frontend: its panes, the pane with the keyboard    *)
(* and the modes of Desktop::command, driven by the two parties that share *)
(* it.  The person presses command keys; the target's frames arrive        *)
(* between any two of them and open, name, flag and write to panes.        *)
(*                                                                         *)
(* Frames: crates/swtos-session/src/routing.rs and panes.rs.               *)
(* Commands: Desktop::command in crates/swtos-frontend/src/ui.rs.          *)
(***************************************************************************)
EXTENDS PaneList

CONSTANT Keys   \* The command keys the person uses.

AllKeys == {"digit", "n", "p", "z", "x", "l", "S", "c", "y", "w", "b",
            "q", "Escape", "?", "d", "unbound"}

ASSUME KeyAssumption == Keys \subseteq AllKeys

VARIABLES
  desk,             \* [panes, focus]
  zoomed, help, copyMode, broadcast,
  broadcastArmed    \* the next b toggles broadcast

modes == <<zoomed, help, copyMode, broadcast>>
vars  == <<desk, modes, broadcastArmed>>

panes   == desk.panes
Focused == panes[desk.focus]

Init ==
  /\ desk = InitialDesk
  /\ zoomed = FALSE /\ help = FALSE /\ copyMode = FALSE
  /\ broadcast = FALSE /\ broadcastArmed = FALSE

-----------------------------------------------------------------------------
(* Command keys.  Every key but b disarms broadcast, and every command     *)
(* that does not return early clears the alert of the pane it leaves the   *)
(* keyboard on.                                                            *)

Seen(d) == [d EXCEPT !.panes[d.focus].alert = FALSE]

Disarmed(key) ==
  /\ key \in Keys
  /\ broadcastArmed' = FALSE

(* A command that rearranges the panes or moves the keyboard.              *)
Arrange(key, d) ==
  /\ Disarmed(key)
  /\ desk' = Seen(d)
  /\ UNCHANGED modes

FocusPane(n) ==
  /\ n \in 1..9 /\ n <= Len(panes)
  /\ Arrange("digit", [desk EXCEPT !.focus = n])

NextPane  == Arrange("n", [desk EXCEPT !.focus = (@ % Len(panes)) + 1])
PrevPane  == Arrange("p", [desk EXCEPT !.focus = ((@ + Len(panes) - 2) % Len(panes)) + 1])
ClosePane == Arrange("x", CloseFocused(desk))
ClearPane == Arrange("l", desk)
Restore   == Arrange("S", RestoreSystemPanes(desk))
SweepEnded == Arrange("c", CloseEnded(desk))

(* A key with no binding, a digit without a pane, q with the help closed.  *)
Unbound(key) ==
  /\ \/ key = "unbound"
     \/ key = "digit" /\ Len(panes) < 9
     \/ key = "q" /\ ~help
  /\ Arrange(key, desk)

(* w and d return early: the caller saves or detaches, nothing else.       *)
ReturnEarly(key) ==
  /\ key \in {"w", "d"}
  /\ Disarmed(key)
  /\ UNCHANGED <<desk, modes>>

ToggleZoom ==
  /\ Disarmed("z")
  /\ zoomed' = ~zoomed
  /\ help' = FALSE
  /\ desk' = Seen(desk)
  /\ UNCHANGED <<copyMode, broadcast>>

ToggleCopy ==
  /\ Disarmed("y")
  /\ copyMode' = ~copyMode
  /\ desk' = Seen(desk)
  /\ UNCHANGED <<zoomed, help, broadcast>>

ToggleHelp ==
  /\ Disarmed("?")
  /\ help' = ~help
  /\ desk' = Seen(desk)
  /\ UNCHANGED <<zoomed, copyMode, broadcast>>

CloseHelp(key) ==
  /\ key \in {"q", "Escape"} /\ help
  /\ Disarmed(key)
  /\ help' = FALSE
  /\ desk' = Seen(desk)
  /\ UNCHANGED <<zoomed, copyMode, broadcast>>

CancelModes ==
  /\ ~help
  /\ Disarmed("Escape")
  /\ broadcast' = FALSE
  /\ copyMode' = FALSE
  /\ desk' = Seen(desk)
  /\ UNCHANGED <<zoomed, help>>

ArmBroadcast ==
  /\ ~broadcastArmed
  /\ "b" \in Keys
  /\ broadcastArmed' = TRUE
  /\ desk' = Seen(desk)
  /\ UNCHANGED modes

ToggleBroadcast ==
  /\ broadcastArmed
  /\ "b" \in Keys
  /\ broadcastArmed' = FALSE
  /\ broadcast' = ~broadcast
  /\ desk' = Seen(desk)
  /\ UNCHANGED <<zoomed, help, copyMode>>

(* Desktop::command.                                                       *)
CommandKey(key) ==
  \/ key = "digit" /\ \E n \in 1..9 : FocusPane(n)
  \/ key = "n" /\ NextPane
  \/ key = "p" /\ PrevPane
  \/ key = "x" /\ ClosePane
  \/ key = "l" /\ ClearPane
  \/ key = "S" /\ Restore
  \/ key = "c" /\ SweepEnded
  \/ key = "z" /\ ToggleZoom
  \/ key = "y" /\ ToggleCopy
  \/ key = "?" /\ ToggleHelp
  \/ key = "b" /\ (ArmBroadcast \/ ToggleBroadcast)
  \/ key = "Escape" /\ CancelModes
  \/ CloseHelp(key)
  \/ ReturnEarly(key)
  \/ Unbound(key)

Command == \E key \in Keys : CommandKey(key)

-----------------------------------------------------------------------------
(* Frames from the target, and the lines the debugger console prints.      *)
(* None of them is a command: the modes and the keyboard are left alone.   *)

Background(d) ==
  /\ desk' = d
  /\ UNCHANGED <<modes, broadcastArmed>>

(* Bytes outside any frame belong to the Shell pane, if there is one.      *)
PlainOutput == Background(PushChannel(desk, ShellChannel))

(* A rewind banner on channel 0 also prints the debugger's command list.   *)
TtyOutput(channel, rewound) ==
  LET shown == PushChannel(OpenForOutput(desk, channel), channel)
  IN  /\ rewound => channel = ShellChannel
      /\ Background(IF rewound THEN PushChannel(shown, DebuggerChannel) ELSE shown)

(* A CHANNEL_CLOSE frame returns at once and is a stuttering step.         *)
ChannelOpen(channel, name) ==
  Background(AddApplication(ClearChannel(desk, channel), channel,
                            IF name = NoName THEN TtyTitle ELSE name))

ChannelTitle(channel, name) == Background(SetChannelTitle(desk, channel, name))

SnapshotPublished(listing) == Background(Follow(desk, listing))

(* A reply, a prompt, the greeting or the debug map's note.                *)
DebuggerPrints == Background(PushChannel(desk, DebuggerChannel))

(* A key sent to the target is echoed on the channel it is sent to.        *)
LocalEcho == Background(PushChannel(desk, Focused.channel))

Listings == UNION {[live -> Names \cup {NoName}] : live \in SUBSET Channels}

TargetFrame ==
  \/ PlainOutput
  \/ \E channel \in Channels, rewound \in BOOLEAN : TtyOutput(channel, rewound)
  \/ \E channel \in Channels, name \in Names \cup {NoName} : ChannelOpen(channel, name)
  \/ \E channel \in Channels, name \in Names \cup {NoName} : ChannelTitle(channel, name)
  \/ \E listing \in Listings : SnapshotPublished(listing)

Frame == TargetFrame \/ DebuggerPrints \/ LocalEcho

Next == Command \/ Frame

Spec == Init /\ [][Next]_vars

-----------------------------------------------------------------------------
(* Properties.                                                             *)

Desk == [panes : Seq(Pane), focus : Nat]

(* Every variable has its type.  The code indexes panes[self.focus]        *)
(* without a check in a dozen places: whatever is closed, swept, restored  *)
(* or opened, there is a pane there.                                       *)
TypeOK ==
  /\ desk \in Desk
  /\ desk.focus \in DOMAIN panes
  /\ zoomed \in BOOLEAN /\ help \in BOOLEAN /\ copyMode \in BOOLEAN
  /\ broadcast \in BOOLEAN /\ broadcastArmed \in BOOLEAN

(* No two Application panes share a channel, and there is one Shell and    *)
(* one Debugger pane at most, each on its own channel: what a process      *)
(* prints is never split between panes that both claim to be its own.      *)
PanesUnique ==
  \A i, j \in DOMAIN panes :
     panes[i].kind = panes[j].kind /\ panes[i].channel = panes[j].channel => i = j

(* The shell's output goes to the Shell pane whenever there is one, also   *)
(* after it was closed, its channel given an Application pane by the       *)
(* shell's next output, and restored: routing takes the first match.       *)
ShellOutputReachesShell ==
  \A i \in DOMAIN panes : panes[i].kind = "Shell" => FirstOn(panes, ShellChannel) = i

SameButFlags(a, b) == a.kind = b.kind /\ a.channel = b.channel

(* A frame never moves the keyboard: the next key typed goes to the        *)
(* channel the last one went to, however many panes the target opens.      *)
FramesKeepKeyboard == [][~SameButFlags(panes'[desk'.focus], Focused) => ~Frame]_vars

(* A command may take the alert off the pane it leaves the keyboard on.    *)
SamePane(a, b) == a = [b EXCEPT !.alert = a.alert]

(* Pane i of before is pane place[i] of after: none of those that have a   *)
(* place is changed, doubled or moved past another.                        *)
InOrder(place, before, after) ==
  /\ \A i, j \in DOMAIN place : i < j => place[i] < place[j]
  /\ \A i \in DOMAIN place : SamePane(after[place[i]], before[i])

Closed(ps) == {p \in 1..3 : \A i \in DOMAIN ps : ps[i].kind # SystemKinds[p]}

(* S opens each system pane that was closed, new and at its canonical      *)
(* position, and no other; every pane that was there stays, in the order   *)
(* it had among them, with the keyboard on the pane it was on.             *)
RestoreIsCanonical ==
  [][Restore =>
       LET others == DOMAIN panes' \ Closed(panes)
       IN  /\ \A p \in Closed(panes) : /\ p \in DOMAIN panes'
                                       /\ panes'[p] = SystemPane(SystemKinds[p])
           /\ \E place \in [DOMAIN panes -> others] :
                /\ InOrder(place, panes, panes')
                /\ \A k \in others : \E i \in DOMAIN panes : place[i] = k
                /\ desk'.focus = place[desk.focus]]_vars

(* c closes the panes that say (ended) and no other: what is left is the   *)
(* rest, each once and in the order they had, or, when every pane has      *)
(* ended, the three system panes anew.  The keyboard stays on the channel  *)
(* it was on while that channel still has a pane.                          *)
SweepClosesEnded ==
  [][SweepEnded =>
       /\ IF NotEnded(panes) = {} THEN panes' = InitialDesk.panes
          ELSE \E place \in [NotEnded(panes) -> DOMAIN panes'] :
                 /\ InOrder(place, panes, panes')
                 /\ \A k \in DOMAIN panes' : \E i \in NotEnded(panes) : place[i] = k
       /\ HasChannel(panes', Focused.channel) => panes'[desk'.focus].channel = Focused.channel]_vars

-----------------------------------------------------------------------------
(* What the sources say and the code does not keep: TLC refutes it.        *)

(* What is typed is echoed in the pane it is typed at: the echo goes to    *)
(* the first pane of the focused pane's channel.                           *)
EchoInFocusedPane == FirstOn(panes, Focused.channel) = desk.focus
=============================================================================
