------------------------------ MODULE Occupancy ------------------------------
(***************************************************************************)
(* The panes of the desktop against the processes they show.               *)
(*                                                                         *)
(* Processes start, print and exit on the target.  The frontend learns of  *)
(* them from their output, at once, and from resource snapshots, late: the *)
(* target reads its process table row by row between the BEGIN and the END *)
(* record of a generation, processes come and go meanwhile, and only the   *)
(* END publishes the rows.  A pane's (ended) flag is what is left of that. *)
(*                                                                         *)
(* The link is a FIFO without loss (the UART is a queue in memory), so a   *)
(* frame is handled in the order it was produced and the transit is no     *)
(* step of its own.  The process table is the target's: it is external,    *)
(* and modelled as any sequence of starts and exits.                       *)
(***************************************************************************)
EXTENDS PaneList

CONSTANT MaxStarts   \* Bound on the processes ever started, over all channels.

ASSUME StartsAssumption == MaxStarts \in Nat

NoProcess == "none"
ASSUME NoProcessAssumption == NoProcess \notin Names

VARIABLES
  desk,       \* [panes, focus]
  process,    \* the program running on each channel, or NoProcess
  pending,    \* the generation being received: [open, left, rows]
  (* History, for the properties and the bound. *)
  starts,     \* processes started so far
  printed,    \* channels whose running process has printed
  stale,      \* channels whose pane has a past: a process that has exited,
              \* a row of one, or an echo before any
  changed,    \* channels whose process or pane changed since BEGIN
  settled     \* whole generations published since the last such change, to 2

history == <<starts, printed, stale, changed, settled>>
vars    == <<desk, process, pending, history>>

panes == desk.panes
NoSnapshot == [open |-> FALSE, left |-> {}, rows |-> <<>>]
Live(channel) == process[channel] # NoProcess

(* The Application pane on a channel: there is one at most.                *)
Owned(d, channel) == \E i \in DOMAIN d.panes :
                       d.panes[i].kind = "Application" /\ d.panes[i].channel = channel
Held(d, channel)  == \E i \in DOMAIN d.panes :
                       /\ d.panes[i].kind = "Application"
                       /\ d.panes[i].channel = channel
                       /\ d.panes[i].ran

Init ==
  /\ desk = InitialDesk
  /\ process = [channel \in Channels |-> NoProcess]
  /\ pending = NoSnapshot
  /\ starts = 0
  /\ printed = {}
  /\ stale = {}
  /\ changed = {}
  /\ settled = [channel \in Channels |-> 0]

(* What makes the snapshots published so far say nothing of a channel: its *)
(* process changed, its pane came or went, or was first written to.        *)
Touched(published) ==
  {channel \in Channels :
     \/ process[channel] # process'[channel]
     \/ Owned(desk, channel) # Owned(desk', channel)
     \/ ~published /\ Held(desk, channel) # Held(desk', channel)}

(* A pane that goes takes the past of its channel with it.                 *)
Closed == {channel \in Channels : Owned(desk, channel) /\ ~Owned(desk', channel)}

Record(published) ==
  /\ changed' = (IF published THEN {} ELSE changed) \cup Touched(published)
  /\ settled' = [channel \in Channels |->
       IF channel \in Touched(published) THEN 0
       ELSE IF published /\ channel \notin changed /\ settled[channel] < 2
            THEN settled[channel] + 1
            ELSE settled[channel]]

-----------------------------------------------------------------------------
(* The target.                                                             *)

Start(channel, name) ==
  /\ starts < MaxStarts
  /\ ~Live(channel)
  /\ process' = [process EXCEPT ![channel] = name]
  /\ starts' = starts + 1
  /\ UNCHANGED <<desk, pending, printed, stale>>
  /\ Record(FALSE)

Exit(channel) ==
  /\ Live(channel)
  /\ process' = [process EXCEPT ![channel] = NoProcess]
  /\ printed' = printed \ {channel}
  /\ stale' = stale \cup {c \in {channel} : Owned(desk, c)}
  /\ UNCHANGED <<desk, pending, starts>>
  /\ Record(FALSE)

(* A warm reboot ends every process and abandons the generation it was     *)
(* sending: its END never comes, and the next BEGIN discards its rows.     *)
Reboot ==
  /\ \E channel \in Channels : Live(channel)
  /\ process' = [channel \in Channels |-> NoProcess]
  /\ pending' = NoSnapshot
  /\ printed' = {}
  /\ stale' = stale \cup {channel \in Channels : Live(channel) /\ Owned(desk, channel)}
  /\ UNCHANGED <<desk, starts>>
  /\ Record(FALSE)

-----------------------------------------------------------------------------
(* Frames.                                                                 *)

(* Alerts are Desktop's affair: here none is kept.                         *)
Unalerted(d) ==
  [d EXCEPT !.panes = [i \in DOMAIN @ |-> [@[i] EXCEPT !.alert = FALSE]]]

(* TTY_OUTPUT from a running process.                                      *)
Output(channel) ==
  /\ Live(channel)
  /\ desk' = Unalerted(PushChannel(OpenForOutput(desk, channel), channel))
  /\ printed' = printed \cup {channel}
  /\ UNCHANGED <<process, pending, starts, stale>>
  /\ Record(FALSE)

SnapshotBegin ==
  /\ ~pending.open
  /\ pending' = [open |-> TRUE, left |-> Channels, rows |-> <<>>]
  /\ changed' = {}
  /\ UNCHANGED <<desk, process, starts, printed, stale, settled>>

(* PROCESS and PROCESS_IO: the next row, as the process is at this moment. *)
SnapshotRow ==
  /\ pending.open
  /\ pending.left # {}
  /\ LET channel == CHOOSE c \in pending.left : \A e \in pending.left : c <= e
         listed  == DOMAIN pending.rows \cup {channel}
     IN  pending' = [pending EXCEPT
           !.left = @ \ {channel},
           !.rows = IF Live(channel)
                    THEN [c \in listed |-> IF c = channel THEN process[c] ELSE @[c]]
                    ELSE @]
  /\ UNCHANGED <<desk, process, history>>

SnapshotEnd ==
  /\ pending.open
  /\ pending.left = {}
  /\ pending' = NoSnapshot
  /\ desk' = Follow(desk, pending.rows)
  /\ stale' = stale \cup {c \in DOMAIN pending.rows : ~Live(c) /\ Owned(desk, c)}
  /\ UNCHANGED <<process, starts, printed>>
  /\ Record(TRUE)

-----------------------------------------------------------------------------
(* The person.                                                             *)

Rearranged(d) ==
  /\ desk' = d
  /\ stale' = stale \ Closed
  /\ UNCHANGED <<process, pending, starts, printed>>
  /\ Record(FALSE)

FocusPane(n)  == n \in DOMAIN panes /\ Rearranged([desk EXCEPT !.focus = n])
ClosePane     == Rearranged(CloseFocused(desk))
SweepEnded    == Rearranged(CloseEnded(desk))
Restore       == Rearranged(RestoreSystemPanes(desk))

(* A key typed at an Application pane is echoed there before it is sent.   *)
LocalEcho ==
  /\ panes[desk.focus].kind = "Application"
  /\ desk' = PushChannel(desk, panes[desk.focus].channel)
  /\ stale' = stale \cup ({panes[desk.focus].channel} \ {c \in Channels : Live(c)})
  /\ UNCHANGED <<process, pending, starts, printed>>
  /\ Record(FALSE)

Target  == \/ \E channel \in Channels, name \in Names : Start(channel, name)
           \/ \E channel \in Channels : Exit(channel)
           \/ Reboot
Frames  == \/ \E channel \in Channels : Output(channel)
           \/ SnapshotBegin
           \/ SnapshotRow
           \/ SnapshotEnd
Person  == \/ \E n \in DOMAIN panes : FocusPane(n)
           \/ ClosePane
           \/ SweepEnded
           \/ Restore
           \/ LocalEcho

Next == Target \/ Frames \/ Person

(* The session asks for a snapshot every 25 ticks for as long as it runs,  *)
(* and the target answers: a generation under way gets its next record.    *)
Fairness == WF_vars(SnapshotBegin) /\ WF_vars(SnapshotRow) /\ WF_vars(SnapshotEnd)

Spec     == Init /\ [][Next]_vars
FairSpec == Spec /\ Fairness

-----------------------------------------------------------------------------
(* Properties.                                                             *)

PaneOf(channel) == {i \in DOMAIN panes : /\ panes[i].kind = "Application"
                                         /\ panes[i].channel = channel}
SaysEnded(channel) == \E i \in PaneOf(channel) : panes[i].ended

(* One whole generation begun after a process started is enough: from then *)
(* on its pane does not say (ended), and is titled with its name, whatever *)
(* ran on the channel before.                                              *)
SnapshotRevivesPane ==
  \A channel \in Channels : Live(channel) /\ settled[channel] >= 1 =>
    \A i \in PaneOf(channel) : ~panes[i].ended /\ panes[i].title = process[channel]

(* Two whole generations begun after it exited are enough: from then on    *)
(* a pane that was written to says (ended), so c can reclaim it.           *)
TwoSnapshotsEndPane ==
  \A channel \in Channels : ~Live(channel) /\ settled[channel] = 2 =>
    \A i \in PaneOf(channel) : panes[i].ran => panes[i].ended

(* Two snapshots, not one: a pane says (ended) only if it has a past.  An  *)
(* empty pane never does, whatever the snapshots miss, nor does that of a  *)
(* first process, although its output may come before the snapshot that    *)
(* first lists it.                                                         *)
FirstProcessNeverFlickers ==
  \A channel \in Channels : channel \notin stale => ~SaysEnded(channel)

(* c closes the pane of no running process but in the time between its     *)
(* start, on a channel another used before it, and the end of the first    *)
(* whole generation begun since: that generation makes c safe.             *)
SweepSparesListed ==
  [][SweepEnded => \A channel \in Channels :
       Live(channel) /\ Owned(desk, channel) /\ (channel \notin stale \/ settled[channel] >= 1)
         => Owned(desk', channel)]_vars

(* The pane of a process that has exited comes to say so, unless it is     *)
(* closed or another process takes the channel.                            *)
EndedEventually ==
  \A channel \in Channels :
    (~Live(channel) /\ Held(desk, channel)) ~>
      (Live(channel) \/ SaysEnded(channel) \/ ~Owned(desk, channel))

-----------------------------------------------------------------------------
(* What the sources say and the code does not keep: TLC refutes it.        *)

(* FirstProcessNeverFlickers for every process, also on a channel another  *)
(* one used before: a pane does not turn to (ended) under a process that   *)
(* is printing to it.                                                      *)
NeverEndedWhilePrinting ==
  [][\A channel \in Channels :
       Live(channel) /\ channel \in printed /\ ~SaysEnded(channel)
         => ~SaysEnded(channel)']_vars

(* c closes the pane of no process that is running and has printed to it.  *)
SweepSparesRunning ==
  [][SweepEnded => \A channel \in Channels :
       Live(channel) /\ channel \in printed /\ Owned(desk, channel) => Owned(desk', channel)]_vars

(* Only a pane that has held a process can end: an empty pane is not a     *)
(* dead one.                                                               *)
EndedHeldProcess == starts = 0 => \A channel \in Channels : ~SaysEnded(channel)
=============================================================================
