------------------------------ MODULE FrameCodec ------------------------------
(***************************************************************************)
(* Frame::encode of crates/swtos-frontend/src/protocol.rs, which both ends *)
(* of the line share: the host sends frames (Wire) and decodes those of    *)
(* the target (StreamDecoder).  A frame is [kind, channel, payload], its   *)
(* kind the number FrameType gives it.                                     *)
(***************************************************************************)
EXTENDS Naturals, Sequences

SYNC    == <<165, 90>>
VERSION == 1

(* Mutant: the checksum is not wrapped to a byte.                          *)
ChecksumWide(bytes) ==
  LET sum[n \in 0..Len(bytes)] == IF n = 0 THEN 0 ELSE sum[n - 1] + bytes[n]
  IN  sum[Len(bytes)]

Checksum(bytes) ==
  LET sum[n \in 0..Len(bytes)] == IF n = 0 THEN 0 ELSE (sum[n - 1] + bytes[n]) % 256
  IN  sum[Len(bytes)]

Encode(frame) ==
  LET length == Len(frame.payload)
      body   == <<VERSION, frame.kind, frame.channel, length % 256, length \div 256>>
                \o frame.payload
  IN  SYNC \o body \o <<Checksum(body)>>
=============================================================================
