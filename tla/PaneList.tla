------------------------------ MODULE PaneList ------------------------------
(***************************************************************************)
(* The panes of the desktop and what each operation of                     *)
(* crates/swtos-frontend/src/ui.rs does to them, as operators on a value.  *)
(*                                                                         *)
(* A "desk" is a record [panes, focus]: the sequence of panes in screen    *)
(* order and the position of the one holding the keyboard.  The code       *)
(* counts positions from zero, this module from one.  What a pane shows    *)
(* (its lines, scroll offsets, search) is abstracted away; what is kept is *)
(* what decides where output goes, which pane has the keyboard and which   *)
(* pane is said to have ended.                                             *)
(*                                                                         *)
(* An operation of the code that runs several of these in a row is their   *)
(* composition, so each step of the state machines built on this module is *)
(* a whole handler.                                                        *)
(***************************************************************************)
EXTENDS Naturals, Sequences, FiniteSets

CONSTANTS
  Channels,    \* The TTY channels the target may use (a subset of 0..255).
  Names,       \* Program names: what a snapshot or a title frame can carry.
  NoName,      \* The empty name.
  AbsentMax    \* Where Pane.absent saturates; u8::MAX in the code.

ASSUME ChannelAssumption == Channels \subseteq 0..255
ASSUME NameAssumption    == NoName \notin Names
ASSUME AbsentAssumption  == AbsentMax \in Nat /\ AbsentMax >= 2

ShellChannel       == 0
ApplicationChannel == 1
DebuggerChannel    == 254

(* PaneKind::ALL, in its canonical order, and the channel of each.         *)
(* PaneKind::Resources is never constructed and has no pane.               *)
SystemKinds == <<"Shell", "Application", "Debugger">>
Kind == {"Shell", "Application", "Debugger"}

DefaultChannel(kind) ==
  CASE kind = "Shell"       -> ShellChannel
    [] kind = "Application" -> ApplicationChannel
    [] kind = "Debugger"    -> DebuggerChannel

(* The pane opened before anything names it is titled "TTY n": one value,  *)
(* for only the pane on channel n ever has it.                             *)
TtyTitle == "TTY"
Title    == Names \cup Kind \cup {TtyTitle, NoName}

Pane == [kind    : Kind,
         channel : Channels \cup {ShellChannel, ApplicationChannel, DebuggerChannel},
         title   : Title,
         ran     : BOOLEAN,     \* a process held this channel at some point
         ended   : BOOLEAN,     \* that process has since gone
         absent  : 0..AbsentMax, \* consecutive snapshots without its endpoint
         alert   : BOOLEAN]

NewPane(kind, channel, title) ==
  [kind |-> kind, channel |-> channel, title |-> title,
   ran |-> FALSE, ended |-> FALSE, absent |-> 0, alert |-> FALSE]

SystemPane(kind) == NewPane(kind, DefaultChannel(kind), kind)

InitialDesk ==
  [panes |-> [i \in 1..3 |-> SystemPane(SystemKinds[i])], focus |-> 1]

-----------------------------------------------------------------------------
(* Finding panes.                                                          *)

On(ps, channel)         == {i \in DOMAIN ps : ps[i].channel = channel}
HasChannel(ps, channel) == On(ps, channel) # {}

(* `position` finds the first pane on a channel, not the only one.         *)
FirstOn(ps, channel) ==
  CHOOSE i \in On(ps, channel) : \A j \in On(ps, channel) : i <= j

-----------------------------------------------------------------------------
(* Output.                                                                 *)

(* Mutant: opening a pane takes the keyboard, as it used to.               *)
AddApplicationTakesFocus(d, channel, title) ==
  IF HasChannel(d.panes, channel)
  THEN [d EXCEPT !.panes[FirstOn(d.panes, channel)].title = title]
  ELSE [panes |-> Append(d.panes, NewPane("Application", channel, title)),
        focus |-> Len(d.panes) + 1]

AddApplication(d, channel, title) ==
  IF HasChannel(d.panes, channel)
  THEN [d EXCEPT !.panes[FirstOn(d.panes, channel)].title = title]
  ELSE [d EXCEPT !.panes = Append(@, NewPane("Application", channel, title))]

(* Mutant: a pane is appended even when the channel already has one.       *)
OpenForOutputAlways(d, channel) ==
  [d EXCEPT !.panes = Append(@, NewPane("Application", channel, TtyTitle))]

OpenForOutput(d, channel) ==
  IF HasChannel(d.panes, channel) THEN d
  ELSE AddApplication(d, channel, TtyTitle)

Printed(pane, focused) ==
  [pane EXCEPT !.ran   = @ \/ pane.kind = "Application",
               !.alert = @ \/ ~focused]

PushChannel(d, channel) ==
  IF HasChannel(d.panes, channel)
  THEN LET i == FirstOn(d.panes, channel)
       IN  [d EXCEPT !.panes[i] = Printed(@, i = d.focus)]
  ELSE d

ClearChannel(d, channel) ==
  IF HasChannel(d.panes, channel)
  THEN [d EXCEPT !.panes[FirstOn(d.panes, channel)].alert = FALSE]
  ELSE d

SetChannelTitle(d, channel, title) ==
  IF HasChannel(d.panes, channel)
  THEN [d EXCEPT !.panes[FirstOn(d.panes, channel)].title = title]
  ELSE d

-----------------------------------------------------------------------------
(* Resource snapshots.  A listing maps the channel of every live process   *)
(* (its endpoint less one) to its name, NoName when the snapshot has none. *)

(* A channel whose endpoint does not fit a byte is never running.          *)
Running(listing, channel) == channel < 255 /\ channel \in DOMAIN listing

Named(pane, name) ==
  IF name = NoName \/ pane.kind # "Application" \/ pane.title = name THEN pane
  ELSE [pane EXCEPT !.title = name, !.ended = FALSE, !.absent = 0]

(* Mutant: the count of missed snapshots overflows.                        *)
WrappingInc(n) == n + 1

SaturatingInc(n) == IF n < AbsentMax THEN n + 1 ELSE n

(* Mutant: one snapshot without the process is taken for its end.          *)
MissedOnce(pane) ==
  LET absent == SaturatingInc(pane.absent)
  IN  [pane EXCEPT !.absent = absent, !.ended = absent >= 1]

(* Mutant: three snapshots without the process are needed.                 *)
MissedTwice(pane) ==
  LET absent == SaturatingInc(pane.absent)
  IN  [pane EXCEPT !.absent = absent, !.ended = absent > 2]

Missed(pane) ==
  LET absent == SaturatingInc(pane.absent)
  IN  [pane EXCEPT !.absent = absent, !.ended = absent >= 2]

(* Mutant: a process that is back does not take (ended) off its pane.      *)
MarkedKeepsEnded(pane, listing) ==
  IF pane.kind # "Application" THEN pane
  ELSE IF Running(listing, pane.channel)
       THEN [pane EXCEPT !.ran = TRUE, !.absent = 0]
       ELSE IF pane.ran THEN Missed(pane) ELSE pane

Marked(pane, listing) ==
  IF pane.kind # "Application" THEN pane
  ELSE IF Running(listing, pane.channel)
       THEN [pane EXCEPT !.ran = TRUE, !.ended = FALSE, !.absent = 0]
       ELSE IF pane.ran THEN Missed(pane) ELSE pane

FollowedPane(pane, listing) ==
  Marked(IF pane.channel \in DOMAIN listing
           THEN Named(pane, listing[pane.channel]) ELSE pane, listing)

(* Mutant: the panes are named but not marked.                             *)
FollowNames(d, listing) ==
  [d EXCEPT !.panes = [i \in DOMAIN d.panes |->
     IF d.panes[i].channel \in DOMAIN listing
     THEN Named(d.panes[i], listing[d.panes[i].channel]) ELSE d.panes[i]]]

(* Every pane is named after its process, then marked live or missing.     *)
Follow(d, listing) ==
  [d EXCEPT !.panes = [i \in DOMAIN d.panes |-> FollowedPane(d.panes[i], listing)]]

-----------------------------------------------------------------------------
(* Opening, closing and restoring.                                         *)

Rank(keep, i) == Cardinality({j \in keep : j <= i})

(* Mutant: what goes is replaced by the last ones, as swap_remove does.    *)
RetainSwaps(s, keep) ==
  LET head  == 1..Cardinality(keep)
      moved == [i \in keep \ head |-> Rank(keep \ head, i)]
  IN  [k \in head |->
         s[IF k \in keep THEN k
           ELSE CHOOSE i \in DOMAIN moved : moved[i] = Rank(head \ keep, k)]]

(* The subsequence of s at the positions in keep, in order.                *)
Retain(s, keep) ==
  [k \in 1..Cardinality(keep) |-> s[CHOOSE i \in keep : Rank(keep, i) = k]]

InsertPane(ps, at, pane) ==
  [i \in 1..(Len(ps) + 1) |->
     IF i < at THEN ps[i] ELSE IF i = at THEN pane ELSE ps[i - 1]]

RemovePane(ps, at) == [i \in 1..(Len(ps) - 1) |-> IF i < at THEN ps[i] ELSE ps[i + 1]]

Smaller(a, b) == IF a <= b THEN a ELSE b

(* Mutant: the keyboard stays at its position while the panes move.        *)
RestoreKindKeepsFocus(d, position) ==
  LET kind == SystemKinds[position]
      at   == Smaller(position, Len(d.panes) + 1)
  IN  IF \E i \in DOMAIN d.panes : d.panes[i].kind = kind THEN d
      ELSE [d EXCEPT !.panes = InsertPane(@, at, SystemPane(kind))]

(* Mutant: the pane comes back last instead of at its own position.        *)
RestoreKindLast(d, position) ==
  LET kind == SystemKinds[position]
  IN  IF \E i \in DOMAIN d.panes : d.panes[i].kind = kind THEN d
      ELSE [d EXCEPT !.panes = Append(@, SystemPane(kind))]

RestoreKind(d, position) ==
  LET kind == SystemKinds[position]
      at   == Smaller(position, Len(d.panes) + 1)
  IN  IF \E i \in DOMAIN d.panes : d.panes[i].kind = kind THEN d
      ELSE [panes |-> InsertPane(d.panes, at, SystemPane(kind)),
            focus |-> IF d.focus >= at THEN d.focus + 1 ELSE d.focus]

RestoreSystemPanes(d) == RestoreKind(RestoreKind(RestoreKind(d, 1), 2), 3)

(* Mutant: the focused pane is removed and the keyboard not moved.         *)
CloseFocusedKeepsFocus(d) ==
  IF Len(d.panes) > 1
  THEN [d EXCEPT !.panes = RemovePane(@, d.focus)]
  ELSE d

CloseFocused(d) ==
  IF Len(d.panes) > 1
  THEN [panes |-> RemovePane(d.panes, d.focus),
        focus |-> Smaller(d.focus, Len(d.panes) - 1)]
  ELSE d

(* Mutant: a pane that has missed a snapshot is taken for an ended one.    *)
NotMissed(ps) == {i \in DOMAIN ps : ps[i].absent = 0}

NotEnded(ps) == {i \in DOMAIN ps : ~ps[i].ended}

Survivors(d) ==
  LET kept == [d EXCEPT !.panes = Retain(@, NotEnded(@))]
  IN  IF kept.panes = <<>> THEN RestoreSystemPanes(kept) ELSE kept

(* The keyboard follows the channel it was on, or goes to the first pane.  *)
CloseEnded(d) ==
  LET kept    == Survivors(d)
      channel == d.panes[d.focus].channel
  IN  [kept EXCEPT !.focus = IF HasChannel(kept.panes, channel)
                             THEN FirstOn(kept.panes, channel) ELSE 1]
=============================================================================
