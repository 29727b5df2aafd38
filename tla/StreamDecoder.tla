---------------------------- MODULE StreamDecoder ----------------------------
(***************************************************************************)
(* ConnectionDecoder and Decoder of crates/swtos-frontend/src/protocol.rs: *)
(* the bytes the target emits, read in whatever pieces the turns of the    *)
(* emulator cut them into, become plain text until the target acknowledges *)
(* HELLO, and frames after.  Bytes are the real ones, since the checksum   *)
(* and the two sync bytes are what recovery from damage depends on.        *)
(***************************************************************************)
EXTENDS Naturals, Sequences, SequencesExt, FiniteSetsExt, FrameCodec

CONSTANTS
  PlainTexts,   \* What a plain target prints, as byte sequences.
  FramesSent,   \* The frames a framed target sends.
  Damages,      \* Byte sequences that damage leaves of frames.
  MaxSegments   \* Bound on the texts, frames and damages of a run.

Bytes       == 0..255
MAX_PAYLOAD == 1024
KINDS       == 1..13
HELLO_ACK   == [kind |-> 13, channel |-> 0, payload |-> <<83, 87, 84, 49>>]
Error       == [kind |-> 0, channel |-> 0, payload |-> <<>>]  \* a DecodeError

(* Frame::encode refuses a longer payload.                                 *)
ASSUME StreamAssumption ==
  /\ \A bytes \in PlainTexts \cup Damages : bytes \in Seq(Bytes)
  /\ \A frame \in FramesSent :
       /\ frame \in [kind : KINDS, channel : Bytes, payload : Seq(Bytes)]
       /\ Len(frame.payload) <= MAX_PAYLOAD
  /\ MaxSegments \in Nat

-----------------------------------------------------------------------------
(* Frames.                                                                 *)

Ack == Encode(HELLO_ACK)

(* Where pattern begins in bytes.                                          *)
Occurrences(pattern, bytes) ==
  {i \in 1..(Len(bytes) + 1 - Len(pattern)) :
     SubSeq(bytes, i, i + Len(pattern) - 1) = pattern}

(* The rest speaks of a buffer that begins with SYNC.                      *)
Claimed(buffer) == buffer[6] + 256 * buffer[7]

BadHeader(buffer) == buffer[3] # VERSION \/ Claimed(buffer) > MAX_PAYLOAD

Decidable(buffer) ==
  /\ Len(buffer) >= 7
  /\ BadHeader(buffer) \/ Len(buffer) >= 8 + Claimed(buffer)

BadChecksum(buffer) ==
  buffer[8 + Claimed(buffer)] # Checksum(SubSeq(buffer, 3, 7 + Claimed(buffer)))

Verdict(buffer) ==
  IF BadHeader(buffer) \/ BadChecksum(buffer) \/ buffer[4] \notin KINDS
  THEN Error
  ELSE [kind |-> buffer[4], channel |-> buffer[5],
        payload |-> SubSeq(buffer, 8, 7 + Claimed(buffer))]

(* Mutant: damage costs as much as the frame claimed to be.                *)
SkipsClaimed(buffer) ==
  IF BadHeader(buffer) THEN Tail(buffer)
  ELSE SubSeq(buffer, 9 + Claimed(buffer), Len(buffer))

(* What is left to look at after the verdict.  A damaged frame costs one   *)
(* byte, so that a frame that begins inside it is found.                   *)
Skipped(buffer) ==
  IF BadHeader(buffer) \/ BadChecksum(buffer) THEN Tail(buffer)
  ELSE SubSeq(buffer, 9 + Claimed(buffer), Len(buffer))

(* Mutant: nothing is kept of a buffer without SYNC.                       *)
KeepsNothing(buffer) == <<>>

(* Without SYNC, only a last byte that may begin one is kept.              *)
KeptTail(buffer) ==
  IF buffer # <<>> /\ Last(buffer) = SYNC[1] THEN <<SYNC[1]>> ELSE <<>>

(* Decoder.push once its input is in the buffer.                           *)
Decode[buffer \in Seq(Bytes)] ==
  LET syncs  == Occurrences(SYNC, buffer)
      synced == SubSeq(buffer, Min(syncs), Len(buffer))
      later  == Decode[Skipped(synced)]
  IN  IF syncs = {} THEN [items |-> <<>>, left |-> KeptTail(buffer)]
      ELSE IF ~Decidable(synced) THEN [items |-> <<>>, left |-> synced]
      ELSE [items |-> <<Verdict(synced)>> \o later.items, left |-> later.left]

-----------------------------------------------------------------------------
(* A connection: mode, the ACK prefix held back, the frame buffer, and     *)
(* what has been handed on, text and items.                                *)

Fresh == [mode |-> "Plain", pending |-> <<>>, buffer |-> <<>>,
          text |-> <<>>, items |-> <<>>]

PushFramed(connection, input) ==
  LET decoded == Decode[connection.buffer \o input]
  IN  [connection EXCEPT !.buffer = decoded.left,
                         !.items  = @ \o decoded.items]

(* Mutant: no byte is held back.                                           *)
HoldsNothing(bytes) == 0

(* Mutant: all is held back from the first byte that could begin an ACK.   *)
HoldsFromSync(bytes) ==
  Max({0} \cup {Len(bytes) + 1 - i : i \in {j \in 1..Len(bytes) : bytes[j] = SYNC[1]}})

(* longest_suffix_prefix(bytes, Ack).                                      *)
Retained(bytes) ==
  Max({0} \cup {n \in 1..(Len(Ack) - 1) :
                  n <= Len(bytes) /\ IsSuffix(SubSeq(Ack, 1, n), bytes)})

AfterAck(bytes) ==
  SubSeq(bytes, Min(Occurrences(Ack, bytes)) + Len(Ack), Len(bytes))

PushPlain(connection, input) ==
  LET bytes  == connection.pending \o input
      handed == Len(bytes) - Retained(bytes)
      framed == [connection EXCEPT
                   !.mode    = "Framed",
                   !.pending = <<>>,
                   !.text    = @ \o SubSeq(bytes, 1, Min(Occurrences(Ack, bytes)) - 1),
                   !.items   = Append(@, HELLO_ACK)]
  IN  IF Occurrences(Ack, bytes) # {}
      THEN PushFramed(framed, AfterAck(bytes))
      ELSE [connection EXCEPT
              !.text    = @ \o SubSeq(bytes, 1, handed),
              !.pending = SubSeq(bytes, handed + 1, Len(bytes))]

Push(connection, input) ==
  IF connection.mode = "Framed" THEN PushFramed(connection, input)
                                ELSE PushPlain(connection, input)

-----------------------------------------------------------------------------
(* The target emits and the turns read.                                    *)

VARIABLES
  connection,  \* ConnectionDecoder
  wire,        \* emitted, not yet read
  segments,    \* how many texts, frames and damages the target has emitted
  (* History. *)
  read,        \* every byte read
  printed,     \* what the target printed while it was plain
  framesSent   \* the frames it sent whole, its ACK the first

decoderVars ==
  <<connection, wire, segments, read, printed, framesSent>>

DecoderInit ==
  /\ connection = Fresh
  /\ wire = <<>> /\ segments = 0
  /\ read = <<>> /\ printed = <<>> /\ framesSent = <<>>

TargetFramed == framesSent # <<>>

Emit(bytes) ==
  /\ segments < MaxSegments
  /\ segments' = segments + 1
  /\ wire' = wire \o bytes
  /\ UNCHANGED <<connection, read>>

EmitText(text) ==
  /\ ~TargetFramed
  /\ Emit(text)
  /\ printed' = printed \o text
  /\ UNCHANGED framesSent

EmitAck ==
  /\ ~TargetFramed
  /\ Emit(Ack)
  /\ framesSent' = <<HELLO_ACK>>
  /\ UNCHANGED printed

EmitFrame(frame) ==
  /\ TargetFramed
  /\ Emit(Encode(frame))
  /\ framesSent' = Append(framesSent, frame)
  /\ UNCHANGED printed

(* A target that is rewound while it sends a frame leaves a part of it.    *)
EmitDamage(bytes) ==
  /\ TargetFramed
  /\ Emit(bytes)
  /\ UNCHANGED <<printed, framesSent>>

(* One turn reads what has been emitted by then.                           *)
Read(n) ==
  /\ connection' = Push(connection, SubSeq(wire, 1, n))
  /\ read' = read \o SubSeq(wire, 1, n)
  /\ wire' = SubSeq(wire, n + 1, Len(wire))
  /\ UNCHANGED <<segments, printed, framesSent>>

DecoderNext ==
  \/ \E text \in PlainTexts : EmitText(text)
  \/ EmitAck
  \/ \E frame \in FramesSent : EmitFrame(frame)
  \/ \E bytes \in Damages : EmitDamage(bytes)
  \/ \E n \in 0..Len(wire) : Read(n)

DecoderSpec == DecoderInit /\ [][DecoderNext]_decoderVars

-----------------------------------------------------------------------------
(* Properties.                                                             *)

(* Bytes are bytes; a plain connection buffers no frame and holds back     *)
(* less than an ACK, a framed one holds back nothing.                      *)
DecoderTypeOK ==
  /\ connection.mode \in {"Plain", "Framed"}
  /\ \A bytes \in {connection.pending, connection.buffer, connection.text, wire} :
       bytes \in Seq(Bytes)
  /\ Len(connection.pending) < Len(Ack)
  /\ connection.mode = "Framed" => connection.pending = <<>>
  /\ connection.mode = "Plain" => connection.buffer = <<>> /\ connection.items = <<>>
  /\ segments \in 0..MaxSegments

(* How the bytes were cut up makes no difference: the decoder is, and has  *)
(* handed on, what one push of all of them would have come to.             *)
Unfragmented == connection = Push(Fresh, read)

(* The items that are frames, in their order.                              *)
Whole(items) ==
  FlattenSeq([i \in DOMAIN items |-> IF items[i] = Error THEN <<>> ELSE <<items[i]>>])

(* Damage costs only itself.  The frames handed on are those the target    *)
(* sent whole, in their order, and none is missing once the decoder waits  *)
(* for nothing.                                                            *)
FramesSurviveDamage ==
  /\ IsPrefix(Whole(connection.items), framesSent)
  /\ wire = <<>> /\ connection.buffer = <<>> /\ connection.pending = <<>> =>
       Whole(connection.items) = framesSent

(* A plain target does not print an ACK, in one text or across two.        *)
NoAckPrinted == Occurrences(Ack, printed) = {}

(* What a plain target printed is handed on as it was printed, no byte of  *)
(* the ACK among it, and only what may begin one is held back.             *)
TextBeforeAck ==
  /\ IsPrefix(connection.text, printed)
  /\ wire = <<>> => connection.text \o connection.pending = printed
=============================================================================
