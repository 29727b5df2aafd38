------------------------------ MODULE MC_Console ------------------------------
(***************************************************************************)
(* TLC instances of Console: an image with instructions of each size and a *)
(* gap, an address inside it, where only dis of no instruction reads, and  *)
(* one beyond, where what is read ends inside an instruction, of two bytes *)
(* when x reads it and of four when dis does.                              *)
(***************************************************************************)
EXTENDS Console

Image == <<[address |-> 0, size |-> 1], [address |-> 1, size |-> 4],
           [address |-> 7, size |-> 2]>>

Arena == [address \in 20..31 |-> CASE address \in {20, 21} -> 1
                                    [] address = 22 -> 2
                                    [] address = 24 -> 4
                                    [] OTHER -> 0]
=============================================================================
