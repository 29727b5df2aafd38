------------------------------- MODULE DebugMap -------------------------------
(***************************************************************************)
(* What the debugger answers from the debug map and from bytes it has      *)
(* read: DebugMap of crates/swtos-frontend/src/debug.rs, and the window of *)
(* memory that dis decodes where the map knows nothing (disasm.rs).        *)
(*                                                                         *)
(* An instruction is its address and size; mnemonics, operands and source  *)
(* text are left out.  The session has no assembly beside the map, so a    *)
(* listing is of the one line the map holds.                               *)
(***************************************************************************)
EXTENDS Integers, Sequences, FiniteSets

CONSTANTS
  Instructions,  \* DebugMap.instructions: a sequence of [address, size].
  Sizes,         \* What the bytes at an address outside begin: a size, or 0.
  Window         \* WINDOW (12), the most that is read at once.

ASSUME MapAssumption ==
  /\ Instructions \in Seq([address : Nat, size : Nat \ {0}])
  /\ \A i, j \in DOMAIN Instructions :
       i < j => Instructions[i].address + Instructions[i].size <= Instructions[j].address
ASSUME WindowAssumption == Window \in Nat \ {0}
ASSUME SizesAssumption  == \A address \in DOMAIN Sizes : Sizes[address] \in {0, 1, 2, 4}

Nowhere == -1

(* The first index of a set of them, and the last.                         *)
First(indices) == CHOOSE i \in indices : \A j \in indices : i <= j
Latest(indices) == CHOOSE i \in indices : \A j \in indices : j <= i

EndOf(i) == Instructions[i].address + Instructions[i].size

(* source_at: the instruction an address falls inside, or none.            *)
SourceAt(address) ==
  LET below == {i \in DOMAIN Instructions : Instructions[i].address <= address}
  IN  {i \in below : i = Latest(below) /\ address < EndOf(i)}

(* disassemble, before it takes as many as were asked for.                 *)
Following(address) == {i \in DOMAIN Instructions : Instructions[i].address >= address}

(* The instruction list shows for an address: none beyond the image.       *)
Listed(address) ==
  IF SourceAt(address) # {} THEN SourceAt(address)
  ELSE {i \in Following(address) : i = First(Following(address))}

(* Mutant: the next address, not the next instruction.                     *)
NextInside(i) == Instructions[i].address + 1

(* Where a bare list carries on after an instruction.                      *)
NextListing(i) == EndOf(i)

(* Mutant: what has not been read is decoded as well.                      *)
DecodesCut(at, left) == at \in DOMAIN Sizes /\ Sizes[at] # 0

(* decode: an instruction begins here, and all of it has been read.        *)
Decodes(at, left) == at \in DOMAIN Sizes /\ Sizes[at] # 0 /\ Sizes[at] <= left

(* disassemble_bytes: how much of the bytes read at an address it has      *)
(* decoded after a number of instructions.                                 *)
DecodedAfter(address, length) ==
  LET offset[n \in 0..Window] ==
        IF n = 0 THEN 0
        ELSE LET at == offset[n - 1]
             IN  IF at < length /\ Decodes(address + at, length - at)
                 THEN at + Sizes[address + at] ELSE at
  IN  offset
=============================================================================
