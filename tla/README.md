# Verification of web-sw-tos

web-sw-tos runs the SWTOS operating system in an emulator inside a web page and
shows it as a desktop of panes: a Shell, an Application pane per terminal
channel, and a Debugger pane with a console of its own. This directory models the program around
the emulator in TLA+ (what is shown, what is sent, and when), checks the models with TLC and
proves theorems about them with TLAPS.

## The system

One thread runs everything. The page's timer calls `driver::run`, which makes
a number of turns; a turn offers HELLO if that is due, sends the periodic requests, runs
the emulator for a while, decodes what it emitted and routes it to the panes.
Between two timer calls the page delivers keys, clicks and the fetched debug
map. So there are no data races. What is hard is the order: the person's keys fall between
any two frames, frames arrive late and say nothing of what they answer, and
much of what the panes show is inferred from a target that never announces it.

| Component | State | Operations | What makes it correct |
|---|---|---|---|
| panes (`ui.rs`) | the list of panes, `focus`, flags `alert`, `ran`, `ended`, `absent` | open, name, print to, close, sweep, restore | one pane per channel; the keyboard stays where it was put; nothing printed is lost to the wrong pane |
| desktop commands (`ui.rs`) | `zoomed`, `copy_mode`, `broadcast`, `broadcast_armed`, `help` | one per command key | modes change only when asked; broadcast needs to be asked twice |
| routing (`routing.rs`, `panes.rs`) | none of its own | one arm per frame | the pane a frame is for gets it, whatever panes there are |
| process following (`panes.rs`, `resource.rs`, `ui.rs`) | `ran`, `ended`, `absent` of each pane | one per published snapshot | a pane says `(ended)` when its process is gone, and only then |
| snapshot assembler (`resource.rs`) | `pending`, `current` | one per record | only a whole generation is published |
| negotiation (`driver.rs`, `sending.rs`) | `tick`, `next_hello`, the mode, `greeted` | `offer_hello`, `periodic`, `greet_once`, input | attach once; no frame to a plain target; the link comes to be framed |
| stream decoder (`protocol.rs`) | `mode`, `pending`, the frame buffer | `push` | what is decoded does not depend on how the bytes were cut up |
| debugger console (`debugger.rs`, `debug.rs`) | `awaiting`, `prompt_due`, `pending_disassembly`, the build | a typed line, a DEBUG_RESPONSE, the prompt | it says the truth about unanswered requests; a reply is shown as what was asked |
| keyboard (`dispatch.rs`, `translate.rs`, `recovery.rs`) | `prefix_armed` | a key, a menu click | a key goes to the one consumer meant to have it |
| pane text (`ui.rs`) | lines, the partial line, offsets | `push`, copy mode | bounded; what is shown is there |
| UART and pump (`uart.rs`, `pump.rs`, `control.rs`) | two queues, the log and `log_seen` | `send`, one round of `run`, `receive` | every byte once and in order; the target's ring is not overrun; a restart is taken exactly when asked for |
| screen (`ui.rs`, `chrome.rs`) | none of its own | `render` at any size of the window | the panes share the screen without losing a line |
| disassembler (`disasm.rs`, `debug.rs`) | none of its own | what is listed at an address, what bytes decode to | no more is decoded than was read; a listing carries on |
| page, build | | HTML, tables | layout and pure tables |

The components meet in five places. A frame is decoded, routed and then printed
to a pane: stream decoder, routing, panes. A snapshot is assembled and then
followed: assembler, process following, panes. A key is dispatched to a
command, to the console or to the target: keyboard, desktop commands, console,
negotiation. The mode of the decoder decides what may be sent: decoder,
negotiation. And everything that is sent shares one line with the heartbeats and
the recovery requests, which are not frames: sending, recovery, UART and pump.

## The modules

Each module says at its top which files it models. `PROJECT.json` maps every
definition to its lines. Variables keep the names of the code's fields where
TLA+ allows it; a variable marked "history" in its module is not in the code and only
serves properties and bounds. Operators preceded by a comment "Mutant: ..."
are not part of the model: each is a plausible bug, and putting it in the place of
the operator it follows breaks the property that watches that operator.

**PaneList** (`ui.rs`) has no state. A "desk" is the value `[panes, focus]`,
and each operation of `Desktop` on panes is an operator from desks to desks:
`AddApplication`, `OpenForOutput`, `PushChannel`, `SetChannelTitle`, `Follow`
(name, then mark live or missing), `CloseFocused`, `CloseEnded`,
`RestoreSystemPanes`. Desktop, Keyboard and Occupancy are built on it.
Positions count from one where the code counts from zero. The text of a pane
is not in it, only the flags that writing sets.

**Desktop** (`ui.rs`, `routing.rs`, `panes.rs`): variables `desk`, the modes
`zoomed`, `help`, `copyMode`, `broadcast`, and `broadcastArmed`. One action for
each arm of `Desktop::command` (`CommandKey` is its dispatch) and one for each arm
of `route` that touches the panes. An arm that only writes the status line, or
returns at once (CHANNEL_CLOSE, an error), is a stuttering step.

**Keyboard** (`dispatch.rs`, `translate.rs`, `recovery.rs`, the menu) extends
Desktop with `prefixArmed` and the two calls of a menu click. `Handle` asks the
consumers in the code's order: modifier, armed prefix, the prefix itself, help,
copy mode, console, target. Which bytes a key stands for is abstracted to
`output`, the kind of what was sent and its channels.

**Occupancy** (`panes.rs`, `resource.rs`, `ui.rs`) sets the panes against the
processes they claim to show. The process table is the target's, so external:
`Start`, `Exit` and `Reboot` change it at any moment, also between two rows of
the generation that reports it. `SnapshotBegin`, `SnapshotRow`, `SnapshotEnd`
are the records; only `SnapshotEnd` reaches the panes.

**SnapshotAssembler** (`resource.rs`) has the code's `pending` and `current`,
and a target that numbers its generations modulo `GenMod`, may lose any record
in a damaged frame and may be rewound, which gives a generation up and may
reset the number. The target is external. **SnapshotRegister** is what it
promises to its readers: a register into which whole tables are written in one
step, each the newest. `WritesWholeTables` is the register's specification under
the refinement mapping that takes what is published for what is written.

**Negotiation** (`driver.rs`, `sending.rs`): one `Tick` is one turn of
`driver::run`, in the code's order: HELLO if due, periodic traffic and greeting
if framed, then the target runs. The target is external: it boots when it
likes, and finishes answering a HELLO within `Latency` ticks of its offer.

**FrameCodec** (`protocol.rs`'s `encode`) has no state: the bytes of a frame, with
length and checksum, which Wire sends and StreamDecoder's target emits.

**StreamDecoder** (`protocol.rs`): the decoder byte for byte, with checksums and
resynchronisation, fed by a target that emits text, its acknowledgement,
frames and what damage leaves of them, in pieces of any length. `Decode` is a
function of the bytes that recurses on what is left of them.

**Console** (`debugger.rs`, `debug.rs`): what is inferred of replies that carry
no request's number: `awaiting`, the prompt a reply owes (`promptIn`, the time
left until `prompt_due`) and `disassembly`. It also remembers where a bare `list` carries on
(`nextListing`). Frames of an answer are paced in
ticks, the prompt in the page's clock; `Turn(advance)` is a tick during which the clock
moves by `advance`.

**DebugMap** (`debug.rs`, `disasm.rs`) has no state: the instruction an address
falls inside, the one `list` shows, where the next listing begins, and how many
of the bytes read at an address are decoded. An instruction is its address and size.

**Wire** (`sending.rs`, `driver.rs`, `recovery.rs`, `uart.rs`, `pump.rs`,
`control.rs`), on FrameCodec, is every byte between the session and the machine. A turn
queues HELLO, greeting, periodic frames and the heartbeat (`BeginTurn`), `Deliver` is one
round of `Pump::run` (one byte into the UART, then its cycles), `LastBatch` the cycles after the last byte,
`Listen` reads the log from `log_seen` on. The person types and recovers
between turns. The target is external: its interrupt handler (`Handled`), the
ring it fills, and programs that read the ring or do not get to it. History
records for each byte sent which signal, if any, it completes. **SerialLink** is
the line that Wire promises: two queues of bytes, and a queue of signals that
overtake them.

**Tiling** (`ui.rs`, `chrome.rs`) has no state: where rules, bars and
panes go on a screen of a given size with a given number of panes, in the grid
or zoomed, in the code's own rounded arithmetic and with its clipping.

**Scrollback** (`ui.rs`), on Tiling: the completed lines by number, the partial
line by the widths of its characters, the offset of copy mode, and
`VisibleLines`; and the screen the pane is drawn on, whose window is resized and
on which other panes come and go (`Resize`, `PaneOpens`, `PaneCloses`).

The theorems are in **NegotiationProofs**, **SnapshotAssemblerProofs**,
**ScrollbackProofs**, **ConsoleProofs**, **WireProofs** (Wire and StreamDecoder),
**DesktopProofs** (Desktop and Keyboard) and **OccupancyProofs**; **PaneListProofs**
holds the lemmas about PaneList's operators that the last two share. The **MC_** modules extend a module for TLC.

## The runs

| Run | What it shows | Bounds |
|---|---|---|
| `desktop` | The code's unchecked `panes[self.focus]` is in range; one pane per claim; the shell's output finds the Shell pane after any close, reopening and restore; frames never move the keyboard; `S` and `c` do what they say to each pane: which are closed or come back, which stay, where each stands afterwards | All keys; frames on channel 0, which the Shell pane and an Application pane can both claim; `AbsentMax` 2, the count at which `ended` is set |
| `keyboard` | A command needs its prefix, scrolling does not type | The keys that differ in a consumer, one of each; the menu's `x`, `k`, `?` |
| `occupancy` | Two whole generations after an exit the pane says `(ended)`; the pane of a first process does not say `(ended)`; `c` spares a running process that is the first on its channel, or has been listed since it started; one whole generation names and revives the pane of a reused channel; the end of a process comes to be shown | Two channels, because the rows of a generation are read at different moments; one name; two starts, on one channel or on two |
| `snapshots` | What is published of an undamaged generation is all of it and only it, and appears as if written in one step; no older one comes back; one is published in the end | Five generations numbered modulo 2, so that numbers come back twice; three losses, one more than suffices to bring a stale number back; one rewind |
| `negotiation` | One attach, no frame to a plain target, HELLOs spaced, framed in the end | The code's own intervals (25); the tick wraps at 160; the target boots before tick 80, and answers within 24, the latest that is before the retry |
| `console` | A warning is about an unanswered request; the prompt follows a reply and waits for its last frame; a hex dump stays one; a bare `list` leaves out no instruction; no more is decoded than was read | Three requests, two frames each (registers), gap 2 under a wait of 3, clock and tick in step; a map of three instructions of sizes 1, 4 and 2 with a hole; `x` of 3 and 5 bytes and `dis` of 5 (at most 12 and always 12 in the code), which end inside an instruction of 2 bytes and of 4; `dis` of 4 instructions and of none, which reads even inside the image |
| `stream` | What is decoded does not depend on the cuts; damage costs only itself; no text is lost before the acknowledgement | Any four segments, cut anywhere, among them a false start of an acknowledgement and a truncated frame |
| `scrollback` | The text is bounded, the view inside it, the newest line on screen wherever the pane is drawn; the grid neither loses nor shares a line | Limit 3, lines of 4 bytes, pages of 2, six lines: eviction happens with every offset. Windows of 12 rows, the least `fit` gives, of 13 and of 24, an even and an odd width, and up to 20 panes: some have no line, and at 12 rows the rules alone fill the canvas |
| `wire` | Each byte arrives once and in order, each way; every recovery asked for is taken in its turn, none other is, and each turn's heartbeat is; the ring loses nothing that was paced while the programs read | Two turns, a line of three bytes (two chunks of at most 2) or a recovery, twice; a ring of 2 (16 in the target); one word of output; the time 01:02:03, whose frames hold no 255; HELLO and periodic traffic on each turn |

Three runs end in a violation, each of something the sources say of the code:

| Run | Property | What happens |
|---|---|---|
| `occupancy_flicker` | `NeverEndedWhilePrinting` | A snapshot missed by the last process of a channel counts against the next one, because output does not reset `absent`. One generation begun before the new process started flags its pane `(ended)` while it prints. `ui.rs:384-387` says two are needed. |
| `keyboard_click` | `ClickTypesNothing` | With the prefix armed, the prefix of a menu click is taken as the command `b` and the letter is typed into the pane. `docs/architecture.md:194-196` says a button cannot mean something different from its key. |
| `wire_escape` | `RecoveryIsAsked` | A frame is not escaped on its way to an interrupt handler that takes 255 and 4 for a restart, whatever they belong to. The WALL_CLOCK frame of 01:05:30 (393000 centiseconds, `28 ff 05`) reboots the target, and nobody asked. `recovery.rs:8-9` names the three ways in. |

The last of these comes about by itself: WALL_CLOCK at 00:54:35 and 00:54:36 (restart) and
from 01:05:30 to 01:05:32 (reboot), UPTIME about 54.6 minutes (restart) and 65.5 minutes
(reboot) into a session, and a request to read an address with those two bytes in it.
255 before 1 or 0, or a checksum of 255, costs the frame instead: the handler
swallows bytes of it. The run `wire` is therefore of a time without 255, and its
properties are about those frames only.

Other statements of the sources fail as well. Their properties are stated at
the end of the modules under "What the sources say and the code does not
keep"; TLC refutes each within seconds when it is put in place of the
properties of the configuration named here.

| Property (module, configuration) | What happens |
|---|---|
| `EndedHeldProcess` (Occupancy, `_flicker`) | The local echo sets `ran` too, so an empty pane somebody typed into is `(ended)` after two snapshots; `ui.rs:369-371` excludes that |
| `SweepSparesRunning` (Occupancy, `_flicker`) | Output does not clear `ended`, so `c` closes the pane of the new process, until the end of the first whole generation begun since it started (from then on `SweepSparesListed`) |
| `EchoInFocusedPane` (Desktop) | With two panes on channel 0 the echo goes to the first, not to the one typed at |
| `NoTtyOnConsole` (Keyboard, `_click`) | Prefix `e` at the Debugger pane sends TTY_INPUT on channel 254; `dispatch.rs:149-150` says that is discarded |
| `BroadcastReachesAll` (Keyboard, `_click`) | Broadcast changes nothing: input goes to the focused pane; `Desktop::input_channels` has no caller |
| `DisassemblyShown` (Console) | The reply to an earlier `x` forgets the `dis`, whose own reply is then a hex dump (`debug.rs:289`) |
| `UnansweredIsAwaited` (Console) | The second frame of `regs` counts as the reply to the next request |
| `PromptAfterFrames` (Console, `MaxAdvance` 3) | In a hidden tab the clock runs ahead of the ticks and the prompt comes between two frames |
| `NothingPartial` (SnapshotAssembler) | END publishes a generation that lost a record, and a process left out of it is a step nearer to `(ended)` |
| `HelpSaysHowToLeave` (Scrollback) | In a window of 12 or 13 rows the help overlay is cut before its last line, which says how to close it; `dispatch.rs:76` says that it does |
| `JumpShowsEnd` (Scrollback) | `g` sets the offset to the number of lines and the pane is blank: `visible_lines` shows what lies before that many lines from the end. `README.md:144-145` says it jumps. |
| `HelloSpacing` (Negotiation, `BootBy` = `MaxTicks`) | For 25 ticks before the wrap of the tick, HELLO is offered on each |

Also seen: a debugger command typed on a plain link is sent at once, framed
(`sending.rs:35`), which is why `FramesOnlyWhenFramed` excepts it; a frame cut after its version
byte makes the decoder take its length from the next frame, and wait for up to
1 KB before it resynchronises; and README's `s` ("Add a pane") and `c` ("Clear the focused
pane") are not what `Desktop::command` binds.

`CHECK_DEADLOCK FALSE` is set for SnapshotAssembler, where a target that has
sent its last generation is silent, and so may a real one be, and for Wire,
which ends with its bounded ticks.

## Fairness

- Negotiation and Console: turns go on (`WF_vars(Tick)`, `Turns` with an
  advance of at least one). The page re-arms its timer after every turn
  (`src/lib.rs:145-167`) and the wall clock advances. The target boots.
- Occupancy: a generation is begun, gets its rows and its END again and again:
  the session requests one every 25 ticks while the link is framed, and the
  emulator runs on. Nothing is assumed of processes or of the person.
- SnapshotAssembler: requests and records go on; losses and rewinds are not fair
  and are bounded, so the run says that a bounded number of them cannot keep a
  snapshot away.

## The bounds

A bound is a constant with "Bound" in its comment: `MaxStarts`, `MaxSent`,
`MaxLost`, `MaxRewinds`, `MaxTicks`, `MaxSends`, `MaxOutput`, `BootBy`, `MaxRequests`, `MaxFrames`,
`MaxSegments`, `MaxLines`, `MaxPanes`. Numbers that are scaled down, such as the scrollback's limit and the
generations' modulus, stay above the point where the code behaves differently:
one row beyond a limit, a number that comes back, a second process on a
channel, a ring that is full. In Wire the inputs that the emulator logs one after another are one entry of
the log, since the pump skips them alike, and a program of the target reads the
whole ring or nothing. What is proved below does not depend on any of them.

## What is proved

TLAPS proves these for every value of the constants their assumptions allow.

- **`PublishedAreWhole`** (SnapshotAssemblerProofs): `Spec => []PublishedWhole`,
  for any bodies, modulus, losses and rewinds. The property alone is not inductive: that a
  generation is whole when END publishes it depends on what was pending when
  its rows came. `WholeIInv` adds that as long as nothing of the generation being sent
  is lost, what is pending is exactly what has been sent of it
  (`PendingIsSent`), and that rows of other generations, which a number that
  comes back may leave there, are of damaged ones only (`PendingIsCut`). One
  lemma per step: beginning, BEGIN, a row, END, a loss, a rewind.
- **`AttachedOnce`**, **`HellosSpaced`** (NegotiationProofs), from `Prompt`
  (`Latency < HelloRetry`) and `NoWrap` (`MaxTicks + HelloRetry <= TickMod`;
  with 32 bits, years of ticks). `AttachIInv` computes the age of the last HELLO from `tick` and
  `nextHello` and says that whatever is under way is of that age, so that
  nothing is when the next one is due. The run `negotiation` lets the
  tick of a framed session wrap, where `NoWrap` does not hold.
- **`PlainTargetGetsNoFrames`**, for any latency, from `FramedIInv`: an
  acknowledgement under way means that the target is framed.
- **`GreetedOnce`**, from `GreetIInv`, which counts greetings by `greeted`.
- **`TypeCorrect`**: `TypeOK` of Negotiation is inductive as it stands. That
  `attaches` is a number needs that the ages are a finite set.
- **`NewestIsShown`**, **`GridNeverLoses`** and **`TypeCorrect`** (ScrollbackProofs), for every
  size of the window and number of panes. That the view stays within the lines is
  part of the types: eviction happens one line at a time and only when one was added, so
  the lines never become fewer than the offset except when emptied, which resets it
  (`ViewIInv`). `ShownIInv` adds that the last line kept is the last one completed, and
  that the partial line is shorter than its limit, whose
  bytes are a sum over its characters. Where things go on the screen is a matter of rounded
  shares: those of consecutive rows and columns meet, the last ends where the canvas does,
  they differ by one at most (`SharesFair`), and so a pane is drawn in as many rows as
  its text was asked for (`PlacesFit`).
- **`RegisterImplemented`** (SnapshotAssemblerProofs): the assembler implements
  SnapshotRegister, by `WholeIInv` again. A request is the register's `Ask`, a loss or a
  rewind its `Damage`, an END that matches its `Publish`, and BEGIN and the rows are stutters.
  **`TypeCorrect`** beside it: a snapshot without a number has no rows because no record
  has the number 256.
- **`TypeCorrect`**, **`NoPaneTwice`**, **`ShellIsReached`**,
  **`FramesLeaveKeyboard`** (DesktopProofs), for any channels and names. The invariant is
  `Sound(desk)`: the focus is a position, each system pane is on its channel, no two
  panes of a kind share one, and a Shell pane stands before every other pane of
  its channel. The last part is what `ShellOutputReachesShell` needs to be
  inductive, since output goes to the first pane of a channel. Sweeping is the
  hard step: a pane's new place is a count of those that stay before it, and
  `RankOnto` (PaneListProofs) shows by counting that these counts are each place once.
  **`RestoreInPlace`** and **`SweepIsExact`** say what `S` and `c` do from any
  such arrangement, pane by pane: which positions the old panes have in the new list,
  in the old order, that the rest of it is the closed system panes (after `S`) or
  nothing (after `c`), and where the keyboard is. `S` is up to three insertions one
  after another, each pushing back what stands behind it: `RestoreFits` carries through
  them where the panes of before are (`Fits`), and `FitsTwice` composes two of them.
- **`KeysDriveDesktop`** (DesktopProofs): `KeyboardSpec => Spec`. Keyboard
  implements Desktop, so the theorems about Desktop hold under `dispatch::key`.
  **`PrefixPerCommand`** adds `ArmedByPrefix`, that the prefix is armed only right
  after it was pressed, and uses `Sound` for the echo, which finds an open pane.
  **`ScrollingIsClaimed`** is that no consumer after copy mode gets a motion.
- **`FirstIsTrusted`**, **`ListedAreSpared`**, **`OneRevives`**, **`TwoEnd`** (OccupancyProofs),
  for any channels, names and number of processes, from `EndpointsFit` (no process on channel 255, whose
  endpoint would be 256). None of the four is inductive alone: what a snapshot makes of a pane depends on
  what happened since its BEGIN. `IInv` adds what is true between the records: `RowsTrue`, the
  rows read so far are true of every channel nothing has happened to since BEGIN;
  `SettledIsQuiet`, a generation that counts as begun after the last change was;
  and of every pane `MarksTrue`: `EndedAtTwo`, the flag is the count of misses at two; `Counted`,
  a pane without a process has counted the generations since; `Revived`, one with a listed
  process has none; and `Trusted`, one without a past has missed
  at most the generation in which its process started, and then the next lists
  it. So what `c` closes is never the pane of a process that is the first on its channel or that
  a whole generation has listed (`ListedAreSpared`). Every other operation on the panes is covered by one lemma each, that the
  panes after it are `Grown` from those before: kept with their marks, or new without any.
- **`WarningsAreTrue`**, **`HexDumpsStayHex`**, **`ListingCarriesOn`**, **`PromptWaits`**
  (ConsoleProofs), for every debug map, any number of requests and frames. Under the first
  two is `PipeIInv`, that what is under way answers requests that were made.
  `WarnIInv` then says that a request outstanding is the last one and unanswered; `HexIInv`
  that a disassembly under way was asked for; `ListIInv` that the next listing is the
  end of the last listed instruction, which with the map's order makes the one after it
  the next; `PromptIInv` relates the time the prompt waits to the time since the
  last frame. `PromptWaits` assumes `InStep`: the clock advances by at most one in a tick
  and the gap between frames is shorter than the wait. Without it the property
  fails (`MaxAdvance` 3, above).

  **`TypeCorrect`** beside them: its hard part is that no more is decoded
  than was read (`DecodedAsRead`), however much that was and whatever sizes the bytes have,
  since the code slices the bytes by that number unchecked.
- **`TypeCorrect`** (WireProofs): every byte queued is a byte, lengths, times and
  checksums included. For the other theorems about Wire:
  - `Unescaped` is their hypothesis: no byte queued for the programs is 255. The code does
    not see to it (the run `wire_escape`), so they are of the sessions in which
    texts, clock, tick and checksums make none, as the run `wire` is one; heartbeats
    and recoveries, which begin with 255, are among those sessions' bytes.
  - **`RecoveriesArrive`**, **`EveryTurnBeats`**, from `LineIInv`: the state of the handler and the
    queue fit together, so that the handler is back at rest when the queue is through
    (`Understood`); what was asked is what was taken and what the queue carries;
    so for the heartbeats. The properties are about the end of a turn, when the queue is
    empty; only what it holds in between makes them inductive.
  - **`PacingKeeps`**, from `PacedIInv`: with nothing sent on a plain link every byte for the
    programs is paced, so the ring is empty when it comes, of whatever size it is.
  - **`WireIsFullDuplex`**: Wire implements SerialLink, step by step. A byte that the handler
    takes in the middle of a signal is a stutter, the last of a signal delivers it, and what the programs
    read, lose or print in a batch is what the line does to its two queues.
- **`CutsMakeNoDifference`** (WireProofs), for all texts, frames and damages: the
  connection is at any time what one push of everything read would have made of it.
  That is `StreamInv`, and inductive because a push goes on where the last one stopped
  (`PushGoesOn`): in a framed connection because no verdict of the decoder
  depends on bytes it has not got (`DecodeGoesOn`), in a plain one because
  what is held back is the longest end of the text that an ACK can begin with.
  **`DecoderTypeCorrect`** follows: held back is less than an ACK.
- **`TextIsHandedOn`**, from `TextInv`: what was emitted is what was printed, then an ACK,
  then the rest. It needs `NoAckPrinted`, that a program does not print the twelve bytes of
  an ACK, which the code takes for the target's own. The texts of the run
  `stream` do not, alone or run together.
- **`FramesArrive`**, from `FrameInv`: what was emitted since the ACK decodes to the frames
  sent whole and leaves nothing; what was read of it is a beginning, which decodes to the
  first of them. It assumes `SelfContained`: damage leaves something that is seen to be damage
  without what follows it, such as a frame with a byte of its payload changed. A frame cut short is not so. What
  follows completes it, and if the checksum comes out right, which one time in
  256 it may, the decoder hands on a frame that nobody sent. The run `stream` has a cut frame
  and a half SYNC as well, with which that does not happen.

The recursive functions under these (checksums, `Decode`, the bytes of a line, the
bytes decoded) and the sums over sequences are reasoned about by least elements:
the proof takes the smallest number, or shortest sequence, for which a statement fails.
`LeastNumber` says that there is one. That the functions exist at all is `RecursionExists`,
`IterationExists`, `JoinExists` and `DescentExists`.

Only model-checked:

- Liveness: `EndedEventually`, `PublishedInTheEnd`, `EventuallyFramed`, `PromptComes`. TLAPS proves
  nothing of fairness and ENABLED.
- `FramesSurviveDamage` for damage that is not self-contained.

## What is not modelled

- The words on the screen: labels, the status line, the help.
- Page: the HTML, and how many turns a timer call makes, which no model depends
  on. Its timer is the fairness, its resize and its fetched map are actions.
- Disassembler: the table from opcodes to text is in the ISA crate, which is
  not part of this repository. `build`: no state.
- Debugger console: the text of the answers, the lookup of names, the editing of the line.
- API that no part of the program calls: `assign_focused`, `claim_application`,
  `release_channel`, `search`, `restore_layout` (`layout` only feeds the menu),
  `input_channels`, `set_connected`; `disconnect`, `resynchronize`, `clear` and `Negotiator` in
  `protocol.rs`; `disconnect` and `has_process_named` in `resource.rs`.
- The image in `assets/`: external, modelled by what the session sees of it.

## Plan

1. Compose: `Session`, one frame from Wire through StreamDecoder to Desktop,
   for which StreamDecoder is to implement a queue of frames that damage may
   shorten, as Wire implements SerialLink.
2. Prove: `FramesArrive` for cut frames too, under the weaker hypothesis that the
   checksum fails whenever the bytes of two frames are taken for one.
3. Deepen: several panes with text of their own in Scrollback, so that output,
   sweeping and copy mode act on the text that `close` and `restore` discard.
