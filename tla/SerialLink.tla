----------------------------- MODULE SerialLink -----------------------------
(***************************************************************************)
(* What the session takes the wire to the target for: a full-duplex serial *)
(* line with a control signal beside it.                                   *)
(*                                                                         *)
(* Bytes written are read in the order they were written, and one may be   *)
(* lost on the way, but none is made up.  Signals (a heartbeat, a request  *)
(* to restart or to reboot) overtake the bytes and are taken one by one,   *)
(* each once.  What the target puts on the line is heard once, in order    *)
(* and whole.                                                              *)
(***************************************************************************)
EXTENDS Integers, Sequences, SequencesExt

VARIABLES
  down,     \* bytes on the way to the target's programs
  signals,  \* signals on the way to the target
  up,       \* what the target has put on the line
  heard     \* what the session has heard of it

vars == <<down, signals, up, heard>>

Init == down = <<>> /\ signals = <<>> /\ up = <<>> /\ heard = <<>>

Write ==
  /\ IsPrefix(down, down') /\ IsPrefix(signals, signals')
  /\ UNCHANGED <<up, heard>>

(* The first of the bytes are read, and one of the rest may be lost.       *)
EndOf(bytes, n) == SubSeq(bytes, Len(bytes) - n + 1, Len(bytes))

Read(left) == Len(left) <= Len(down) /\ left = EndOf(down, Len(left))

ReadAndLost(left) ==
  /\ Len(left) < Len(down)
  /\ \E i \in DOMAIN down : left = EndOf(RemoveAt(down, i), Len(left))

(* The target runs: it reads some bytes, takes a signal, and says more.    *)
Run ==
  /\ Read(down') \/ ReadAndLost(down')
  /\ \/ UNCHANGED signals
     \/ signals # <<>> /\ signals' = Tail(signals)
  /\ IsPrefix(up, up')
  /\ UNCHANGED heard

Hear ==
  /\ heard' = heard \o up /\ up' = <<>>
  /\ UNCHANGED <<down, signals>>

Next == Write \/ Run \/ Hear

Spec == Init /\ [][Next]_vars
=============================================================================
