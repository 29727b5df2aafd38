-------------------------------- MODULE Wire --------------------------------
(***************************************************************************)
(* Every byte between the session and the emulated machine: what is sent   *)
(* (sending.rs and the turn of driver.rs of crates/swtos-session, the      *)
(* frames of protocol.rs, recovery.rs of crates/swtos-input), the virtual  *)
(* UART and the pump (uart.rs, pump.rs and control.rs of                   *)
(* crates/swtos-host).                                                     *)
(*                                                                         *)
(* The target is external.  Its interrupt handler takes every byte: after  *)
(* 255, a 1 begins a heartbeat of three more bytes, 4 asks for a restart,  *)
(* 5 for a reboot, 0 stands for a 255, and anything else follows it.       *)
(* (control.rs says so of 1, 4 and 5; the handler's own instructions,      *)
(* _preemption_uart_isr in assets/program.debug.json, say the rest.)  The  *)
(* other bytes go to a ring, from which its programs read when they run.   *)
(* They have time to when a byte of a frame was followed by its cycles,    *)
(* and may have when a heartbeat's was.                                    *)
(***************************************************************************)
EXTENDS Integers, Sequences, FiniteSets, SequencesExt, FrameCodec

CONSTANTS
  Texts,       \* What the person may type, as bytes.
  Seconds,     \* Seconds since midnight the wall clock may show.
  MaxPayload,  \* MAX_PAYLOAD (16).
  HelloRetry,  \* HELLO_RETRY (25).
  Periodic,    \* PERIODIC (25).
  RingSize,    \* Bytes the target's ring holds.
  MaxTicks,    \* Bound: no turn begins at this tick.
  MaxSends,    \* Bound on the lines and the recoveries the person sends.
  MaxOutput    \* Bound on what the target says besides acknowledging.

ASSUME TextAssumption   == \A text \in Texts : text \in Seq(0..244)
ASSUME ClockAssumption  == \A second \in Seconds : second \in Nat /\ second < 86400
ASSUME PacingAssumption == /\ MaxPayload \in Nat \ {0}
                           /\ MaxPayload < 65536   \* a length is two bytes
                           /\ RingSize \in Nat \ {0}
                           /\ HelloRetry \in Nat \ {0} /\ Periodic \in Nat \ {0}
ASSUME BoundAssumption  == /\ MaxTicks \in Nat /\ MaxSends \in Nat /\ MaxOutput \in Nat

VARIABLES
  tick,       \* Session.tick
  nextHello,  \* Transport.next_hello
  mode,       \* ConnectionDecoder.mode
  toTarget,   \* VirtualUart.to_target: [byte, paced, carries]
  unread,     \* the emulator's UART log from Pump.log_seen on, both directions
  greeted,    \* Session.greeted
  phase,      \* where driver::run is: between turns, delivering, listening
  (* The target. *)
  handler,    \* what the interrupt handler has made of the bytes since 255
  ring,       \* bytes its programs have not read
  recent,     \* of a HELLO, what they have read
  (* History. *)
  sends,      \* times the person sent something
  asked,      \* recoveries the person asked for
  recovered,  \* recoveries the handler took
  beats,      \* heartbeats the handler took
  heard,      \* what the decoder was given
  raw,        \* text was sent before the link was framed
  slow,       \* the target's programs once left a paced byte unread
  lost        \* a byte found the ring full

host    == <<tick, nextHello, mode, greeted, toTarget, unread, phase>>
machine == <<handler, ring, recent>>
history == <<sends, asked, recovered, beats, heard, raw, slow, lost>>
vars    == <<host, machine, history>>

Init ==
  /\ tick = 0 /\ nextHello = 0 /\ mode = "Plain" /\ greeted = FALSE
  /\ toTarget = <<>> /\ unread = <<>> /\ phase = "between"
  /\ handler = "normal" /\ ring = <<>> /\ recent = <<>>
  /\ sends = 0 /\ asked = <<>> /\ recovered = <<>> /\ beats = 0
  /\ heard = <<>> /\ raw = FALSE /\ slow = FALSE /\ lost = FALSE

-----------------------------------------------------------------------------
(* Bytes.                                                                  *)

(* The low three bytes of a number, the least first.                       *)
ThreeBytes(n) == <<n % 256, (n \div 256) % 256, (n \div 65536) % 256>>

Kind == [TtyInput |-> 1, Uptime |-> 6, WallClock |-> 7, ResourceSnapshot |-> 8,
         DebugRequest |-> 9, Hello |-> 12]

Hello == Encode([kind |-> Kind.Hello, channel |-> 0,
                 payload |-> <<83, 87, 84, 49>>])     \* "SWT1"

(* VirtualUart::send.  Which signal a byte completes the code cannot see.  *)
Queued(bytes, paced) ==
  [i \in 1..Len(bytes) |-> [byte |-> bytes[i], paced |-> paced, carries |-> "byte"]]

(* Mutant: a frame is paced like a heartbeat.                              *)
FrameUnpaced(kind, channel, payload) ==
  Queued(Encode([kind |-> Kind[kind], channel |-> channel, payload |-> payload]), FALSE)

Frame(kind, channel, payload) ==
  Queued(Encode([kind |-> Kind[kind], channel |-> channel, payload |-> payload]), TRUE)

Signals == {"heartbeat", "restart", "reboot"}

Signalled(bytes, signal) ==
  [i \in 1..Len(bytes) |->
     [byte |-> bytes[i], paced |-> FALSE,
      carries |-> IF i = Len(bytes) THEN signal ELSE "signal"]]

(* Mutant: the heartbeat carries the tick's low byte only.                 *)
HeartbeatShort == Signalled(<<255, 1, tick % 256>>, "heartbeat")

Heartbeat == Signalled(<<255, 1>> \o ThreeBytes(tick), "heartbeat")

Chunks(bytes) ==
  [i \in 1..((Len(bytes) + MaxPayload - 1) \div MaxPayload) |->
     SubSeq(bytes, MaxPayload * (i - 1) + 1,
            IF MaxPayload * i < Len(bytes) THEN MaxPayload * i ELSE Len(bytes))]

(* to_channel, on the channel the focus has.                               *)
ToChannel(bytes) ==
  IF mode = "Framed"
  THEN FlattenSeq([i \in DOMAIN Chunks(bytes) |-> Frame("TtyInput", 0, Chunks(bytes)[i])])
  ELSE Queued(bytes, FALSE)

-----------------------------------------------------------------------------
(* Between two turns: the person.                                          *)

Sends ==
  /\ phase = "between" /\ sends < MaxSends
  /\ sends' = sends + 1
  /\ UNCHANGED <<tick, nextHello, mode, greeted, unread, phase, machine,
                 recovered, beats, heard, slow, lost>>

Type(text) ==
  /\ Sends
  /\ raw' = (raw \/ mode = "Plain")
  /\ toTarget' = toTarget \o ToChannel(text)
  /\ UNCHANGED asked

(* Mutant: the shell is asked to, by a frame it has to read.              *)
RequestTyped(bytes, signal) == Frame("TtyInput", 0, Tail(bytes))

(* recovery::request.                                                      *)
Request(bytes, signal) == Signalled(bytes, signal)

Recover(bytes, signal) ==
  /\ Sends
  /\ toTarget' = toTarget \o Request(bytes, signal)
  /\ asked' = Append(asked, signal)
  /\ UNCHANGED raw

RestartShell == Recover(<<255, 4>>, "restart")
RebootSystem == Recover(<<255, 5>>, "reboot")

-----------------------------------------------------------------------------
(* A turn of driver::run.                                                  *)

Offered == mode = "Plain" /\ tick >= nextHello

Due == mode = "Framed" /\ tick % Periodic = 0

(* What periodic sends, when the clock shows second.                       *)
Times(second) ==
  Frame("Uptime", 0, ThreeBytes(tick)) \o Frame("WallClock", 0, ThreeBytes(100 * second))
  \o Frame("ResourceSnapshot", 0, <<>>)

(* The frames of a turn.                                                   *)
Frames(second) ==
  (IF Offered THEN Queued(Hello, TRUE) ELSE <<>>)
  \o (IF mode = "Framed" /\ ~greeted THEN Frame("DebugRequest", 0, <<1>>) ELSE <<>>)
  \o (IF Due THEN Times(second) ELSE <<>>)

BeginTurn(second) ==
  /\ phase = "between" /\ tick < MaxTicks
  /\ toTarget' = toTarget \o Frames(second) \o Heartbeat
  /\ nextHello' = IF Offered THEN tick + HelloRetry ELSE nextHello
  /\ greeted' = (greeted \/ mode = "Framed")
  /\ tick' = tick + 1
  /\ phase' = "delivering"
  /\ UNCHANGED <<mode, unread, machine, history>>

-----------------------------------------------------------------------------
(* The machine.                                                            *)

(* The interrupt handler: its state after a byte, what it leaves in the    *)
(* ring and the signal it takes.                                           *)
Handled(state, byte) ==
  LET then(next, bytes, signal) == [state |-> next, bytes |-> bytes, signal |-> signal]
  IN  CASE state = "normal" -> IF byte = 255 THEN then("escape", <<>>, "none")
                               ELSE then("normal", <<byte>>, "none")
        [] state = "escape" ->
             CASE byte = 1 -> then("tick0", <<>>, "none")
               [] byte = 4 -> then("normal", <<>>, "restart")
               [] byte = 5 -> then("normal", <<>>, "reboot")
               [] byte = 0 -> then("normal", <<255>>, "none")
               [] OTHER    -> then("normal", <<255, byte>>, "none")
        [] state = "tick0" -> then("tick1", <<>>, "none")
        [] state = "tick1" -> then("tick2", <<>>, "none")
        [] state = "tick2" -> then("normal", <<>>, "heartbeat")

Free == RingSize - Len(ring)

Stored(bytes) == ring \o SubSeq(bytes, 1, IF Free < Len(bytes) THEN Free ELSE Len(bytes))

(* The last n bytes of a sequence.                                         *)
LastOf(bytes, n) == SubSeq(bytes, Len(bytes) - n + 1, Len(bytes))

(* The end of what was read that may be the beginning of a HELLO.          *)
Beginning(bytes) ==
  LET short == Len(bytes) < Len(Hello)
  IN  LastOf(bytes, Max({n \in 0..(IF short THEN Len(bytes) ELSE Len(Hello) - 1) :
                         LastOf(bytes, n) = SubSeq(Hello, 1, n)}))

(* What is new in the log and the target put out.                          *)
Outputs ==
  FlattenSeq([i \in DOMAIN unread |-> IF unread[i] = "input" THEN <<>> ELSE <<unread[i]>>])

(* An input joins those logged just before it.                             *)
WithInput == IF unread # <<>> /\ Last(unread) = "input" THEN unread ELSE Append(unread, "input")

(* run_batch: the programs read the ring or do not get to it, and the      *)
(* target says something more or does not.                                 *)
Batch(filled, log) ==
  \E reads \in BOOLEAN, speaks \in BOOLEAN :
    LET now  == IF reads THEN recent \o filled ELSE recent
        acks == \E n \in Len(Hello)..Len(now) :
                  SubSeq(now, n - Len(Hello) + 1, n) = Hello
        says == (IF acks THEN <<"ack">> ELSE <<>>)
                \o (IF speaks THEN <<"text">> ELSE <<>>)
    IN  /\ speaks => Len(Outputs) + Len(heard) < MaxOutput
        /\ ring' = IF reads THEN <<>> ELSE filled
        /\ recent' = Beginning(now)
        /\ unread' = log \o says
        /\ slow' = (slow \/ (~reads /\ filled # <<>>
                              /\ toTarget # <<>> /\ Head(toTarget).paced))

(* One round of the loop of Pump::run.                                     *)
Deliver ==
  /\ phase = "delivering" /\ toTarget # <<>>
  /\ LET byte  == Head(toTarget).byte
         taken == Handled(handler, byte)
     IN  /\ handler' = taken.state
         /\ recovered' = IF taken.signal \in {"restart", "reboot"}
                         THEN Append(recovered, taken.signal) ELSE recovered
         /\ beats' = IF taken.signal = "heartbeat" THEN beats + 1 ELSE beats
         /\ lost' = (lost \/ Free < Len(taken.bytes))
         /\ Batch(Stored(taken.bytes), WithInput)
  /\ toTarget' = Tail(toTarget)
  /\ UNCHANGED <<tick, nextHello, mode, greeted, phase, sends, asked, heard, raw>>

(* The batch after the last byte.                                          *)
LastBatch ==
  /\ phase = "delivering" /\ toTarget = <<>>
  /\ phase' = "listening"
  /\ Batch(ring, unread)
  /\ UNCHANGED <<tick, nextHello, mode, greeted, toTarget, handler,
                 sends, asked, recovered, beats, heard, raw, lost>>

(* Mutant: only the bytes that are output count as seen.                   *)
SeenOutputs == Len(Outputs)

(* How far log_seen moves on.                                              *)
Seen == Len(unread)

(* The log is read, and what is new in it given to the decoder.            *)
Listen ==
  /\ phase = "listening"
  /\ phase' = "between"
  /\ heard' = heard \o Outputs
  /\ unread' = SubSeq(unread, Seen + 1, Len(unread))
  /\ mode' = IF Contains(Outputs, "ack") THEN "Framed" ELSE mode
  /\ UNCHANGED <<tick, nextHello, greeted, toTarget, machine,
                 sends, asked, recovered, beats, raw, slow, lost>>

Person == \/ \E text \in Texts : Type(text)
          \/ RestartShell
          \/ RebootSystem

Turn == \/ \E second \in Seconds : BeginTurn(second)
        \/ Deliver \/ LastBatch \/ Listen

Next == Person \/ Turn

Spec == Init /\ [][Next]_vars

-----------------------------------------------------------------------------
(* Properties.                                                             *)

(* Every variable has its type.                                            *)
TypeOK ==
  /\ tick \in 0..MaxTicks /\ nextHello \in Nat
  /\ mode \in {"Plain", "Framed"} /\ greeted \in BOOLEAN
  /\ \A i \in DOMAIN toTarget : toTarget[i].byte \in 0..255
  /\ phase \in {"between", "delivering", "listening"}
  /\ handler \in {"normal", "escape", "tick0", "tick1", "tick2"}
  /\ Len(ring) <= RingSize /\ Len(recent) < Len(Hello)
  /\ raw \in BOOLEAN /\ slow \in BOOLEAN /\ lost \in BOOLEAN

(* There are three ways in, the two commands and !kill 1: the target       *)
(* restarts and reboots only as the person asked, in that order.           *)
RecoveryIsAsked == IsPrefix(recovered, asked)

(* And it has heard of every one of them by the end of the turn, whether   *)
(* its programs read anything or not.                                      *)
RecoveredAsAsked == RecoveryIsAsked /\ (phase = "listening" => recovered = asked)

(* A turn's heartbeat is taken in that turn.                               *)
BeatsPerTurn == phase = "listening" => beats = tick

(* Delivery is paced because the ring drops what it has no room for: it    *)
(* drops nothing unless the programs of the target once failed to read in  *)
(* a frame's time, or text was sent before the link was framed.            *)
PacedInputKept == lost => slow \/ raw

(* Neither a byte is made up on the way to the target, nor are two out of  *)
(* order, a signal overtakes them and is taken once, and each byte the     *)
(* target says is read from the log once and in order.                     *)
Carried(queue, kinds, field) ==
  FlattenSeq([i \in DOMAIN queue |->
                IF queue[i].carries \in kinds THEN <<queue[i][field]>> ELSE <<>>])

Link == INSTANCE SerialLink
        WITH down <- ring \o Carried(toTarget, {"byte"}, "byte"),
             signals <- Carried(toTarget, Signals, "carries"),
             up <- Outputs

FullDuplex == Link!Spec
=============================================================================
