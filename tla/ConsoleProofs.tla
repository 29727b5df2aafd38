----------------------------- MODULE ConsoleProofs -----------------------------
(***************************************************************************)
(* Proofs about Console, for every debug map, every number of requests and *)
(* any pace of the answers, but for the prompt, which needs that the clock *)
(* does not run ahead of the ticks.                                        *)
(***************************************************************************)
EXTENDS Console, WellFoundedInduction, TLAPS

-----------------------------------------------------------------------------
(* The map.                                                                *)

Indices == DOMAIN Instructions

LEMMA MapTypes ==
  /\ Indices = 1..Len(Instructions) /\ Len(Instructions) \in Nat
  /\ \A i \in Indices : /\ Instructions[i].address \in Nat
                        /\ Instructions[i].size \in Nat \ {0}
                        /\ EndOf(i) \in Nat
<1> DEFINE Instruction == [address : Nat, size : Nat \ {0}]
<1>1. Instructions \in Seq(Instruction)
  BY MapAssumption
<1>2. Indices = 1..Len(Instructions) /\ Len(Instructions) \in Nat
  BY <1>1 DEF Indices
<1>3. \A i \in Indices : Instructions[i] \in Instruction
  <2> HIDE DEF Instruction
  <2> QED
    BY <1>1 DEF Indices
<1>4. ASSUME NEW i \in Indices
      PROVE  /\ Instructions[i].address \in Nat /\ Instructions[i].size \in Nat \ {0}
             /\ EndOf(i) \in Nat
  BY <1>3 DEF EndOf
<1> QED
  BY <1>2, <1>4

(* Nothing is listed at the end of the last instruction, and at the end of *)
(* any other the one after it: no instruction reaches into the next.       *)
LEMMA ListedAfter ==
  ASSUME NEW i \in Indices, NEW n \in Listed(EndOf(i))
  PROVE  i # Len(Instructions) /\ n = i + 1
<1> DEFINE below == {j \in DOMAIN Instructions : Instructions[j].address <= EndOf(i)}
           after == Following(EndOf(i))
<1>1. \A j \in Indices : j > i <=> j \in after
  <2> TAKE j \in Indices
  <2>1. CASE j > i
    BY <2>1, MapAssumption, MapTypes DEF Following, Indices, EndOf
  <2>2. CASE j = i
    BY <2>2, MapTypes DEF Following, EndOf
  <2>3. CASE j < i
    <3>1. EndOf(j) <= Instructions[i].address
      BY <2>3, MapAssumption DEF EndOf, Indices
    <3>2. /\ Instructions[i].address \in Nat /\ Instructions[i].size \in Nat \ {0}
          /\ Instructions[j].address \in Nat /\ Instructions[j].size \in Nat \ {0}
      BY MapTypes
    <3>3. ~(Instructions[j].address >= EndOf(i))
      BY <3>1, <3>2 DEF EndOf
    <3>4. ~(j > i)
      BY <2>3, MapTypes
    <3> QED
      BY <3>3, <3>4 DEF Following
  <2> QED
    BY <2>1, <2>2, <2>3, MapTypes
<1>2. n \in Indices
  BY DEF Listed, SourceAt, Following, Indices
<1>3. n > i
  <2>1. CASE SourceAt(EndOf(i)) = {}
    BY <2>1, <1>1, <1>2 DEF Listed
  <2>2. CASE SourceAt(EndOf(i)) # {}
    <3>1. EndOf(i) < EndOf(n)
      BY <2>2 DEF Listed, SourceAt
    <3>2. CASE n < i
      <4>1. EndOf(n) <= Instructions[i].address
        BY <1>2, <3>2, MapAssumption DEF EndOf, Indices
      <4> QED
        BY <1>2, <3>1, <4>1, MapTypes DEF EndOf
    <3> QED
      BY <1>2, <3>1, <3>2, MapTypes
  <2> QED
    BY <2>1, <2>2
<1>4. i + 1 \in Indices
  BY <1>2, <1>3, MapTypes
<1>5. i + 1 \in after
  BY <1>1, <1>4, MapTypes
<1>6. n = i + 1
  <2>1. CASE SourceAt(EndOf(i)) = {}
    <3>1. First(after) \in after /\ \A j \in after : First(after) <= j
      <4>1. \A j \in after : i + 1 <= j
        BY <1>1, MapTypes DEF Following, Indices
      <4> QED
        BY <1>5, <4>1 DEF First
    <3>2. n = First(after)
      BY <2>1 DEF Listed
    <3> QED
      BY <1>2, <1>3, <1>4, <1>5, <3>1, <3>2, MapTypes
  <2>2. CASE SourceAt(EndOf(i)) # {}
    <3>1. n \in below
      BY <2>2 DEF Listed, SourceAt
    <3>2. CASE n > i + 1
      <4>1. EndOf(i + 1) <= Instructions[n].address
        BY <1>2, <1>4, <3>2, MapAssumption DEF EndOf, Indices
      <4>2. EndOf(i) <= Instructions[i + 1].address
        <5>1. i \in Indices /\ i < i + 1
          BY MapTypes
        <5> QED
          BY <1>4, <5>1, MapAssumption DEF EndOf, Indices
      <4>3. /\ Instructions[i + 1].address \in Nat /\ Instructions[i + 1].size \in Nat \ {0}
            /\ Instructions[n].address \in Nat /\ EndOf(i) \in Nat
        BY <1>2, <1>4, MapTypes
      <4>4. Instructions[n].address <= EndOf(i)
        BY <3>1
      <4> QED
        BY <4>1, <4>2, <4>3, <4>4 DEF EndOf
    <3> QED
      BY <1>2, <1>3, <3>2, MapTypes
  <2> QED
    BY <2>1, <2>2
<1> QED
  BY <1>4, <1>6, MapTypes

(* At the end of any but the last there is something to list.              *)
LEMMA ListedSomething ==
  ASSUME NEW i \in Indices, Listed(EndOf(i)) = {}
  PROVE  i = Len(Instructions)
<1> SUFFICES ASSUME i # Len(Instructions) PROVE FALSE
  OBVIOUS
<1> DEFINE after == Following(EndOf(i))
<1>1. i + 1 \in Indices /\ i < i + 1
  BY MapTypes
<1>2. EndOf(i) <= Instructions[i + 1].address
  BY <1>1, MapAssumption DEF EndOf, Indices
<1>3. i + 1 \in after
  BY <1>1, <1>2 DEF Following, Indices
<1>4. \A j \in after : i + 1 <= j
  <2> TAKE j \in after
  <2>1. j \in Indices /\ EndOf(i) <= Instructions[j].address
    BY DEF Following, Indices
  <2>2. CASE j < i
    <3>1. EndOf(j) <= Instructions[i].address
      BY <2>1, <2>2, MapAssumption DEF EndOf, Indices
    <3>2. /\ Instructions[i].address \in Nat /\ Instructions[i].size \in Nat \ {0}
          /\ Instructions[j].address \in Nat /\ Instructions[j].size \in Nat \ {0}
      BY <2>1, MapTypes
    <3> QED
      BY <2>1, <3>1, <3>2 DEF EndOf
  <2>3. CASE j = i
    BY <2>1, <2>3, MapTypes DEF EndOf
  <2> QED
    BY <2>1, <2>2, <2>3, MapTypes
<1>5. First(after) \in after
  BY <1>3, <1>4 DEF First
<1> QED
  BY <1>5 DEF Listed

-----------------------------------------------------------------------------
(* Answers under way.                                                      *)

(* What the lines ask for is not more than a window.                       *)
LEMMA LengthsFit ==
  /\ 0 \in 0..Window /\ Window \in 0..Window
  /\ \A length \in Lengths : length \in 0..Window
<1>1. \A n \in 1..Window : n \in 0..Window
  BY WindowAssumption
<1>2. Lengths \subseteq 1..Window
  BY AddressAssumption
<1> QED
  BY <1>1, <1>2, WindowAssumption

Answer == [id : Nat, kind : {"identity", "status", "memory", "dis"},
           address : Int, length : 0..Window, frames : Nat \ {0}]

(* No answer under way is to a request not yet made, and one that brings   *)
(* memory is of an address that was asked for.  No answer brings more than *)
(* a window.                                                               *)
Sent(answer) ==
  /\ answer.id <= asked
  /\ answer.kind \in {"memory", "dis"} => answer.address \in Addresses

PipeIInv ==
  /\ asked \in Nat
  /\ pipe \in Seq(Answer)
  /\ \A i \in DOMAIN pipe : Sent(pipe[i])

LEMMA HeadIsAnswer ==
  ASSUME PipeIInv, pipe # <<>>
  PROVE  /\ Head(pipe) \in Answer /\ Sent(Head(pipe))
         /\ Tail(pipe) \in Seq(Answer) /\ Tail(pipe) # pipe
         /\ \A i \in DOMAIN Tail(pipe) : Sent(Tail(pipe)[i])
<1>1. pipe \in Seq(Answer) /\ Len(pipe) \in Nat \ {0} /\ DOMAIN pipe = 1..Len(pipe)
  BY DEF PipeIInv
<1>2. Head(pipe) = pipe[1] /\ 1 \in DOMAIN pipe
  BY <1>1
<1>3. Head(pipe) \in Answer /\ Sent(Head(pipe))
  BY <1>1, <1>2 DEF PipeIInv
<1>4. Tail(pipe) \in Seq(Answer) /\ Len(Tail(pipe)) = Len(pipe) - 1
  BY <1>1
<1>5. \A i \in DOMAIN Tail(pipe) : Tail(pipe)[i] = pipe[i + 1] /\ i + 1 \in DOMAIN pipe
  BY <1>1, <1>4
<1>6. Len(pipe) \in Nat
  BY <1>1
<1>7. Len(pipe) - 1 # Len(pipe)
  BY <1>6
<1>8. Tail(pipe) # pipe
  BY <1>4, <1>7
<1> QED
  BY <1>3, <1>4, <1>5, <1>8 DEF PipeIInv

LEMMA PipeAppended ==
  ASSUME PipeIInv, NEW answer \in Answer, asked' \in Nat,
         answer.id <= asked', asked <= asked',
         answer.kind \in {"memory", "dis"} => answer.address \in Addresses,
         pipe' = Append(pipe, answer)
  PROVE  PipeIInv'
<1>1. pipe \in Seq(Answer) /\ asked \in Nat
  BY DEF PipeIInv
<1>2. pipe' \in Seq(Answer) /\ DOMAIN pipe' = 1..(Len(pipe) + 1)
  BY <1>1
<1>3. ASSUME NEW i \in DOMAIN pipe'
      PROVE  /\ pipe'[i].id <= asked'
             /\ pipe'[i].kind \in {"memory", "dis"} => pipe'[i].address \in Addresses
  <2>1. CASE i \in DOMAIN pipe
    <3>1. pipe'[i] = pipe[i] /\ pipe[i] \in Answer /\ Sent(pipe[i])
      BY <1>1, <2>1 DEF PipeIInv
    <3>2. pipe[i].id \in Nat
      BY <3>1 DEF Answer
    <3> QED
      BY <1>1, <3>1, <3>2 DEF Sent
  <2>2. CASE i = Len(pipe) + 1
    <3>1. pipe'[i] = answer
      BY <1>1, <2>2
    <3> QED
      BY <3>1
  <2> QED
    BY <1>1, <1>2, <2>1, <2>2
<1> QED
  BY <1>2, <1>3 DEF PipeIInv, Sent

(* A frame takes its answer out of the pipe or leaves less of it.          *)
LEMMA PipeAnswered ==
  ASSUME PipeIInv, Response, UNCHANGED asked
  PROVE  PipeIInv' /\ pipe' # pipe
<1>1. pipe # <<>>
  BY DEF Response
<1>2. /\ Head1 \in Answer /\ Sent(Head1)
      /\ Tail(pipe) \in Seq(Answer) /\ Tail(pipe) # pipe
      /\ \A i \in DOMAIN Tail(pipe) : Sent(Tail(pipe)[i])
  BY <1>1, HeadIsAnswer DEF Head1
<1>3. CASE Head1.frames = 1
  <2>1. pipe' = Tail(pipe)
    BY <1>3 DEF Response
  <2> QED
    BY <1>2, <2>1 DEF PipeIInv, Sent
<1>4. CASE Head1.frames # 1
  <2> DEFINE rest == [Head1 EXCEPT !.frames = @ - 1]
  <2>1. Head1.frames - 1 \in Nat \ {0} /\ Head1.frames # Head1.frames - 1
    <3>1. Head1.frames \in Nat \ {0}
      BY <1>2 DEF Answer
    <3> QED
      BY <1>4, <3>1
  <2>2. rest \in Answer /\ rest # Head1 /\ Sent(rest)
    BY <1>2, <2>1 DEF Answer, Sent
  <2>3. pipe \in Seq(Answer) /\ Len(pipe) \in Nat \ {0} /\ Head1 = pipe[1]
    BY <1>1 DEF PipeIInv, Head1
  <2>4. pipe' = [pipe EXCEPT ![1] = rest]
    BY <1>4, <2>3 DEF Response
  <2> HIDE DEF rest
  <2>5. pipe' \in Seq(Answer) /\ DOMAIN pipe' = DOMAIN pipe
    BY <2>2, <2>3, <2>4
  <2>6. 1 \in DOMAIN pipe /\ pipe'[1] = rest /\ pipe[1] # rest
    BY <2>2, <2>3, <2>4
  <2>7. \A i \in DOMAIN pipe' : Sent(pipe'[i])
    BY <2>2, <2>4, <2>5, <2>6 DEF PipeIInv
  <2> QED
    BY <2>5, <2>6, <2>7 DEF PipeIInv, Sent
<1> QED
  BY <1>3, <1>4

LEMMA PipeInit == Init => PipeIInv
  BY DEF Init, PipeIInv, Greeting

(* Every step but a turn's, as far as the pipe, the requests and what they *)
(* left behind are concerned: an answer may join the pipe.                 *)
LEMMA AsksPipe ==
  ASSUME PipeIInv, NEW kind \in {"status", "memory", "dis"}, NEW address \in Int,
         kind # "status" => address \in Addresses,
         NEW length \in 0..Window, NEW frames \in Nat,
         Asks(kind, address, length, frames)
  PROVE  PipeIInv'
<1>1. asked \in Nat /\ asked' = asked + 1
  BY DEF PipeIInv, Asks
<1>2. CASE frames = 0
  <2>1. pipe' = pipe /\ pipe \in Seq(Answer)
    BY <1>2 DEF Asks, PipeIInv
  <2>2. \A i \in DOMAIN pipe : pipe[i] \in Answer /\ Sent(pipe[i])
    BY <2>1 DEF PipeIInv
  <2>3. \A i \in DOMAIN pipe : pipe[i].id \in Nat
    BY <2>2 DEF Answer
  <2> QED
    BY <1>1, <2>1, <2>2, <2>3 DEF PipeIInv, Sent
<1>3. CASE frames # 0
  <2>1. PICK answer : answer = [id |-> asked + 1, kind |-> kind, address |-> address,
                                length |-> length, frames |-> frames]
    OBVIOUS
  <2>2. answer \in Answer
    BY <1>1, <1>3, <2>1 DEF Answer
  <2>3. answer.id <= asked' /\ asked <= asked' /\ asked' \in Nat
    BY <1>1, <2>1
  <2>4. answer.kind \in {"memory", "dis"} => answer.address \in Addresses
    BY <2>1
  <2>5. pipe' = Append(pipe, answer)
    BY <1>3, <2>1 DEF Asks
  <2> QED
    BY <2>2, <2>3, <2>4, <2>5, PipeAppended
<1> QED
  BY <1>2, <1>3

LEMMA GreetPipe ==
  ASSUME PipeIInv, Greet
  PROVE  PipeIInv'
<1>1. PICK answer : answer = [id |-> Greeting, kind |-> "identity", address |-> NoAddress,
                              length |-> 0, frames |-> 1]
  OBVIOUS
<1>2. answer \in Answer
  BY <1>1, LengthsFit DEF Answer, Greeting, NoAddress
<1>3. asked \in Nat /\ asked' = asked /\ answer.id = 0
  BY <1>1 DEF PipeIInv, Greet, Greeting
<1>4. answer.kind \in {"memory", "dis"} => answer.address \in Addresses
  BY <1>1
<1>5. pipe' = Append(pipe, answer)
  BY <1>1 DEF Greet
<1>6. answer.id <= asked' /\ asked <= asked' /\ asked' \in Nat
  BY <1>3
<1> QED
  BY <1>2, <1>4, <1>5, <1>6, PipeAppended

(* Which of the requests a line makes.                                     *)
LEMMA LineKinds ==
  ASSUME Lines
  PROVE  \/ AnsweredHere
         \/ \E frames \in Nat : /\ Asks("status", NoAddress, 0, frames)
                                /\ UNCHANGED <<disassembly, decoded>>
         \/ \E address \in Addresses, length \in Lengths : ReadMemory(address, length)
         \/ \E address \in Addresses, count \in Counts : Disassemble(address, count)
<1>1. CASE LocalLine
  BY <1>1 DEF LocalLine
<1>2. CASE Registers
  BY <1>2, BoundAssumption DEF Registers
<1>3. CASE Status
  BY <1>3 DEF Status
<1>4. CASE \E location \in Locations : List(location)
  BY <1>4 DEF List, Lists
<1>5. CASE ListOn
  BY <1>5 DEF ListOn, LocalLine, Lists
<1> QED
  BY <1>1, <1>2, <1>3, <1>4, <1>5 DEF Lines

LEMMA PipeNext ==
  ASSUME PipeIInv, [Next]_vars
  PROVE  PipeIInv'
<1>1. CASE Turns
  <2>1. PICK advance \in 0..MaxAdvance : Turn(advance)
    BY <1>1 DEF Turns
  <2>2. UNCHANGED asked /\ (Response \/ NoResponse)
    BY <2>1 DEF Turn
  <2>3. CASE Response
    BY <2>2, <2>3, PipeAnswered
  <2>4. CASE NoResponse
    BY <2>2, <2>4 DEF NoResponse, PipeIInv, Sent
  <2> QED
    BY <2>2, <2>3, <2>4
<1>2. CASE AnsweredHere
  BY <1>2 DEF AnsweredHere, PipeIInv, Sent
<1>3. ASSUME NEW frames \in Nat, Asks("status", NoAddress, 0, frames)
      PROVE  PipeIInv'
  BY <1>3, AsksPipe, LengthsFit DEF NoAddress
<1>4. ASSUME NEW address \in Addresses, NEW length \in Lengths, ReadMemory(address, length)
      PROVE  PipeIInv'
  BY <1>4, AsksPipe, AddressAssumption, LengthsFit DEF ReadMemory
<1>5. ASSUME NEW address \in Addresses, NEW count \in Counts, Disassemble(address, count)
      PROVE  PipeIInv'
  BY <1>5, AsksPipe, AddressAssumption, LengthsFit DEF Disassemble
<1>6. CASE Greet
  BY <1>6, GreetPipe
<1>7. CASE Rewound \/ LoadMap \/ UNCHANGED vars
  BY <1>7 DEF Rewound, LoadMap, vars, wire, history, PipeIInv, Sent
<1>8. CASE Lines
  BY <1>8, <1>2, <1>3, <1>4, <1>5, LineKinds
<1> QED
  BY <1>1, <1>6, <1>7, <1>8 DEF Next

-----------------------------------------------------------------------------
(* Requests without a reply.                                               *)

(* What is awaited is the last request, and nothing has answered it.       *)
WarnIInv ==
  /\ PipeIInv
  /\ awaiting \in 0..1
  /\ answered \subseteq 0..asked
  /\ awaiting > 0 => asked # Greeting /\ asked \notin answered

LEMMA WarnInit == Init => WarnIInv
  BY PipeInit DEF Init, WarnIInv, Greeting

LEMMA AsksWarn ==
  ASSUME WarnIInv, NEW kind, NEW address, NEW length, NEW frames,
         Asks(kind, address, length, frames)
  PROVE  /\ awaiting' \in 0..1 /\ answered' \subseteq 0..asked'
         /\ awaiting' > 0 => asked' # Greeting /\ asked' \notin answered'
<1>1. /\ awaiting' = 1 /\ asked' = asked + 1 /\ answered' = answered
      /\ asked \in Nat /\ answered \subseteq 0..asked
  BY DEF WarnIInv, PipeIInv, Asks, Entered, Warned
<1>2. \A id \in answered : id \in 0..asked' /\ id # asked'
  BY <1>1
<1> QED
  BY <1>1, <1>2 DEF Greeting

LEMMA ResponseWarn ==
  ASSUME WarnIInv, Response, UNCHANGED asked
  PROVE  awaiting' = 0 /\ answered' \subseteq 0..asked'
<1>1. awaiting' = 0
  BY DEF WarnIInv, Response, Replied
<1>2. Head1 \in Answer /\ Sent(Head1) /\ asked \in Nat
  BY HeadIsAnswer DEF Response, Head1, WarnIInv, PipeIInv
<1>3. Head1.id \in 0..asked
  BY <1>2 DEF Answer, Sent
<1>4. answered' = answered \cup {Head1.id}
  BY DEF Response
<1> QED
  BY <1>1, <1>3, <1>4 DEF WarnIInv

LEMMA WarnNext ==
  ASSUME WarnIInv, [Next]_vars
  PROVE  WarnIInv'
<1> DEFINE Awaited == /\ awaiting' \in 0..1 /\ answered' \subseteq 0..asked'
                      /\ awaiting' > 0 => asked' # Greeting /\ asked' \notin answered'
<1> SUFFICES Awaited
  BY PipeNext DEF WarnIInv
<1>2. CASE Turns
  <2>1. PICK advance \in 0..MaxAdvance : Turn(advance)
    BY <1>2 DEF Turns
  <2>2. UNCHANGED asked /\ (Response \/ NoResponse)
    BY <2>1 DEF Turn
  <2>3. CASE Response
    BY <2>2, <2>3, ResponseWarn
  <2>4. CASE NoResponse
    BY <2>2, <2>4 DEF NoResponse, WarnIInv
  <2> QED
    BY <2>2, <2>3, <2>4
<1>3. CASE AnsweredHere
  BY <1>3 DEF AnsweredHere, Entered, Warned, WarnIInv
<1>4. ASSUME NEW frames \in Nat, Asks("status", NoAddress, 0, frames)
      PROVE  Awaited
  BY <1>4, AsksWarn
<1>5. ASSUME NEW address \in Addresses, NEW length \in Lengths, ReadMemory(address, length)
      PROVE  Awaited
  BY <1>5, AsksWarn DEF ReadMemory
<1>6. ASSUME NEW address \in Addresses, NEW count \in Counts, Disassemble(address, count)
      PROVE  Awaited
  BY <1>6, AsksWarn DEF Disassemble
<1>7. CASE Lines
  BY <1>7, <1>3, <1>4, <1>5, <1>6, LineKinds
<1>8. CASE Greet \/ Rewound \/ LoadMap \/ UNCHANGED vars
  BY <1>8 DEF Greet, Rewound, LoadMap, vars, pane, history, WarnIInv
<1> QED
  BY <1>2, <1>7, <1>8 DEF Next

(* Only entering a line gives a request up.                                *)
LEMMA WarnStep ==
  ASSUME WarnIInv, [Next]_vars, NEW id \in dropped' \ dropped
  PROVE  id # Greeting /\ id \notin answered
<1>1. CASE Entered
  BY <1>1 DEF Entered, WarnIInv
<1>2. CASE Lines
  <2>1. Entered
    BY <1>2, LineKinds DEF AnsweredHere, Asks, ReadMemory, Disassemble
  <2> QED
    BY <1>1, <2>1
<1>3. CASE Turns \/ Greet \/ Rewound \/ LoadMap \/ UNCHANGED vars
  BY <1>3 DEF Turns, Turn, Greet, Rewound, LoadMap, vars, history
<1> QED
  BY <1>2, <1>3 DEF Next

(* The warning that a request has no reply is printed only of the last     *)
(* request, and only when not one frame has answered it.                   *)
THEOREM WarningsAreTrue == Spec => WarnedUnanswered
<1>1. WarnIInv /\ [Next]_vars => WarnIInv'
  BY WarnNext
<1>2. WarnIInv /\ [Next]_vars
      => [\A id \in dropped' \ dropped : id # Greeting /\ id \notin answered]_vars
  BY WarnStep
<1> QED
  BY WarnInit, <1>1, <1>2, PTL DEF Spec, WarnedUnanswered

-----------------------------------------------------------------------------
(* Bytes that are shown as instructions.                                   *)

(* What is to be decoded next was asked for with dis.                      *)
HexIInv ==
  /\ PipeIInv
  /\ HexStaysHex
  /\ disassembly[1] # NoAddress => disassembly[1] \in decoded

LEMMA HexInit == Init => HexIInv
  BY PipeInit DEF Init, HexIInv, HexStaysHex

LEMMA ResponseHex ==
  ASSUME HexIInv, Response, UNCHANGED decoded
  PROVE  HexStaysHex' /\ (disassembly'[1] # NoAddress => disassembly'[1] \in decoded')
<1>1. Head1 \in Answer /\ Sent(Head1)
  BY HeadIsAnswer DEF Response, Head1, HexIInv
<1>2. disassembly'[1] # NoAddress => disassembly'[1] \in decoded'
  BY DEF Response, HexIInv
<1>3. CASE ~IsMemory
  BY <1>2, <1>3 DEF Response, HexIInv, HexStaysHex
<1>4. CASE IsMemory /\ ~AsInstructions
  <2>1. shown' = shown \cup {<<Head1.kind, Head1.address, "memory", Head1.length, Head1.length>>}
    BY <1>4 DEF Response
  <2> QED
    BY <1>2, <2>1 DEF Response, HexIInv, HexStaysHex
<1>5. CASE IsMemory /\ AsInstructions
  <2> DEFINE reply == <<Head1.kind, Head1.address, "dis",
                        DecodedAfter(Head1.address, Head1.length)[disassembly[2]],
                        Head1.length>>
  <2>1. shown' = shown \cup {reply} /\ reply[2] = Head1.address
    BY <1>5 DEF Response
  <2> HIDE DEF reply
  <2>2. Head1.address \in Nat
    BY <1>1, <1>5, AddressAssumption DEF IsMemory, Sent
  <2>3. Head1.address \in decoded
    BY <1>5, <2>2 DEF AsInstructions, HexIInv, NoAddress
  <2> QED
    BY <1>2, <2>1, <2>3 DEF Response, HexIInv, HexStaysHex
<1> QED
  BY <1>3, <1>4, <1>5

LEMMA HexNext ==
  ASSUME HexIInv, [Next]_vars
  PROVE  HexIInv'
<1> DEFINE Kept == HexStaysHex' /\ (disassembly'[1] # NoAddress => disassembly'[1] \in decoded')
<1> SUFFICES Kept
  BY PipeNext DEF HexIInv
<1>2. CASE Turns
  <2>1. PICK advance \in 0..MaxAdvance : Turn(advance)
    BY <1>2 DEF Turns
  <2>2. UNCHANGED decoded /\ (Response \/ NoResponse)
    BY <2>1 DEF Turn
  <2>3. CASE Response
    BY <2>2, <2>3, ResponseHex
  <2>4. CASE NoResponse
    BY <2>2, <2>4 DEF NoResponse, HexIInv, HexStaysHex
  <2> QED
    BY <2>2, <2>3, <2>4
<1>3. CASE AnsweredHere
  BY <1>3 DEF AnsweredHere, Entered, HexIInv, HexStaysHex
<1>4. ASSUME NEW frames \in Nat, Asks("status", NoAddress, 0, frames),
             UNCHANGED <<disassembly, decoded>>
      PROVE  Kept
  BY <1>4 DEF Asks, Entered, HexIInv, HexStaysHex
<1>5. ASSUME NEW address \in Addresses, NEW length \in Lengths, ReadMemory(address, length)
      PROVE  Kept
  BY <1>5 DEF ReadMemory, Asks, Entered, HexIInv, HexStaysHex
<1>6. ASSUME NEW address \in Addresses, NEW count \in Counts, Disassemble(address, count)
      PROVE  Kept
  BY <1>6 DEF Disassemble, Asks, Entered, HexIInv, HexStaysHex
<1>7. CASE Lines
  BY <1>7, <1>3, <1>4, <1>5, <1>6, LineKinds
<1>8. CASE Greet \/ Rewound \/ LoadMap \/ UNCHANGED vars
  BY <1>8 DEF Greet, Rewound, LoadMap, vars, pane, history, HexIInv, HexStaysHex
<1> QED
  BY <1>2, <1>7, <1>8 DEF Next

(* However late the answers come, x of an address is shown as bytes unless *)
(* dis was asked of the same address.                                      *)
THEOREM HexDumpsStayHex == Spec => []HexStaysHex
<1>1. HexIInv /\ [Next]_vars => HexIInv'
  BY HexNext
<1>2. HexIInv => HexStaysHex
  BY DEF HexIInv
<1> QED
  BY HexInit, <1>1, <1>2, PTL DEF Spec

-----------------------------------------------------------------------------
(* Where a listing carries on.                                             *)

(* What is to be listed next begins where the last one ended.              *)
ListIInv ==
  \/ listed = 0 /\ nextListing = Nowhere
  \/ listed \in Indices /\ nextListing = EndOf(listed)

LEMMA ListInit == Init => ListIInv
  BY DEF Init, ListIInv

LEMMA ListsKeeps ==
  ASSUME ListIInv, NEW address, Lists(address)
  PROVE  ListIInv'
<1>1. CASE Matched /\ Listed(address) # {}
  <2>1. PICK i \in Listed(address) : nextListing' = NextListing(i) /\ listed' = i
    BY <1>1 DEF Lists
  <2>2. i \in Indices
    BY DEF Listed, SourceAt, Following, Indices
  <2> QED
    BY <2>1, <2>2 DEF NextListing, ListIInv
<1>2. CASE ~(Matched /\ Listed(address) # {})
  BY <1>2 DEF Lists, listing, ListIInv
<1> QED
  BY <1>1, <1>2

LEMMA ListNext ==
  ASSUME ListIInv, [Next]_vars
  PROVE  ListIInv'
<1>1. CASE ListOn \/ \E location \in Locations : List(location)
  BY <1>1, ListsKeeps DEF ListOn, List, LocalLine, listing, ListIInv
<1>2. CASE Registers \/ Status \/ LocalLine
  BY <1>2 DEF Registers, Status, LocalLine, Asks, listing, ListIInv
<1>3. CASE \/ \E address \in Addresses, length \in Lengths : ReadMemory(address, length)
           \/ \E address \in Addresses, count \in Counts : Disassemble(address, count)
  BY <1>3 DEF ReadMemory, Disassemble, Asks, listing, ListIInv
<1>4. CASE Turns \/ Greet \/ Rewound \/ LoadMap \/ UNCHANGED vars
  BY <1>4 DEF Turns, Turn, Greet, Rewound, LoadMap, vars, pane, history, listing, ListIInv
<1> QED
  BY <1>1, <1>2, <1>3, <1>4 DEF Next, Lines

LEMMA ListStep ==
  ASSUME ListIInv, Matched, listed # 0, ListOn
  PROVE  listed' = IF listed = Len(Instructions) THEN listed ELSE listed + 1
<1>1. listed \in Indices /\ nextListing = EndOf(listed) /\ nextListing # Nowhere
  BY MapTypes DEF ListIInv, Nowhere
<1>2. Lists(EndOf(listed))
  BY <1>1 DEF ListOn
<1>3. CASE Listed(EndOf(listed)) # {}
  <2>1. PICK n \in Listed(EndOf(listed)) : listed' = n
    BY <1>2, <1>3 DEF Lists
  <2>2. listed # Len(Instructions) /\ n = listed + 1
    BY <1>1, ListedAfter
  <2> QED
    BY <2>1, <2>2
<1>4. CASE Listed(EndOf(listed)) = {}
  <2>1. UNCHANGED listed
    BY <1>2, <1>4 DEF Lists, listing
  <2>2. listed = Len(Instructions)
    BY <1>1, <1>4, ListedSomething
  <2> QED
    BY <2>1, <2>2
<1> QED
  BY <1>3, <1>4

(* A bare list leaves out no instruction of the map and shows none twice.  *)
THEOREM ListingCarriesOn == Spec => ListCarriesOn
<1>1. ListIInv /\ [Next]_vars => ListIInv'
  BY ListNext
<1>2. ListIInv /\ [Next]_vars
      => [Matched /\ listed # 0 /\ ListOn =>
            listed' = IF listed = Len(Instructions) THEN listed ELSE listed + 1]_vars
  BY ListStep
<1> QED
  BY ListInit, <1>1, <1>2, PTL DEF Spec, ListCarriesOn

-----------------------------------------------------------------------------
(* The prompt.                                                             *)

(* What the code relies on in silence: in the time that frames of one      *)
(* answer are apart, the clock does not reach the prompt.                  *)
InStep == MaxAdvance <= 1 /\ Gap < PromptAfter

(* Between two frames of an answer the prompt was put off at the first,    *)
(* and the clock has moved no further than the ticks since.                *)
PromptIInv ==
  /\ PipeIInv
  /\ promptIn = NoPrompt \/ promptIn \in 1..PromptAfter
  /\ quiet \in 0..Gap
  /\ quiet > 0 /\ promptIn # NoPrompt => promptIn + quiet > PromptAfter

LEMMA PromptInit == Init => PromptIInv
  BY PipeInit, TimingAssumption DEF Init, PromptIInv, NoPrompt

(* A turn, and what it may print.                                          *)
PromptKept == /\ promptIn' = NoPrompt \/ promptIn' \in 1..PromptAfter
              /\ quiet' \in 0..Gap
              /\ quiet' > 0 /\ promptIn' # NoPrompt => promptIn' + quiet' > PromptAfter

LEMMA FramePrompt ==
  ASSUME PromptIInv, NEW advance \in 0..MaxAdvance, Turn(advance), Response
  PROVE  PromptKept /\ (tail' = "prompt" => quiet' = 0)
<1>1. pipe' # pipe
  BY PipeAnswered DEF PromptIInv, Turn
<1>2. promptIn' = PromptAfter /\ tail' = "reply"
  BY <1>1, TimingAssumption DEF Turn, Due, PromptIfDue
<1>3. quiet' = 0 \/ quiet' = 1
  BY DEF Response
<1>4. quiet' \in 0..Gap /\ (quiet' > 0 => PromptAfter + quiet' > PromptAfter)
  <2>1. 0 \in 0..Gap /\ 1 \in 0..Gap /\ PromptAfter + 1 > PromptAfter
    BY TimingAssumption
  <2>2. CASE quiet' = 0
    BY <2>1, <2>2
  <2>3. CASE quiet' = 1
    BY <2>1, <2>3
  <2> QED
    BY <1>3, <2>2, <2>3
<1>5. PromptAfter \in 1..PromptAfter
  BY TimingAssumption
<1>6. PromptKept
  BY <1>2, <1>4, <1>5 DEF PromptKept
<1> QED
  BY <1>2, <1>6

LEMMA QuietPrompt ==
  ASSUME InStep, PromptIInv, NEW advance \in 0..MaxAdvance, Turn(advance), NoResponse
  PROVE  PromptKept /\ (tail # "prompt" /\ tail' = "prompt" => quiet' = 0)
<1> DEFINE at == Left(advance)
<1>1. pipe' = pipe
  BY DEF NoResponse
<1>2. /\ promptIn' = IF at = 0 THEN NoPrompt ELSE at
      /\ tail' = IF at = 0 THEN "prompt" ELSE tail
  BY <1>1 DEF Turn, PromptIfDue
<1>3. quiet \in 0..Gap /\ quiet < Gap /\ quiet' = IF quiet = 0 THEN 0 ELSE quiet + 1
  BY DEF NoResponse, PromptIInv
<1>4. advance \in 0..1 /\ Gap \in Nat /\ PromptAfter \in Nat /\ Gap < PromptAfter
  BY TimingAssumption DEF InStep
<1>5. CASE promptIn = NoPrompt
  BY <1>2, <1>3, <1>4, <1>5 DEF Left, NoPrompt, PromptKept
<1>6. CASE promptIn \in 1..PromptAfter
  <2>1. at \in 0..PromptAfter /\ (promptIn > advance => at = promptIn - advance)
    BY <1>4, <1>6 DEF Left, NoPrompt
  <2>2. CASE quiet = 0
    BY <1>2, <1>3, <1>4, <2>1, <2>2 DEF PromptKept
  <2>3. CASE quiet > 0
    <3>1. promptIn + quiet > PromptAfter
      BY <1>6, <2>3 DEF PromptIInv, NoPrompt
    <3>2. promptIn > advance
      BY <1>3, <1>4, <1>6, <3>1
    <3>3. at # 0 /\ at + quiet' > PromptAfter
      BY <1>3, <1>4, <1>6, <2>1, <2>3, <3>1, <3>2
    <3> QED
      BY <1>2, <1>3, <1>4, <2>1, <3>3 DEF PromptKept
  <2> QED
    BY <1>3, <2>2, <2>3
<1> QED
  BY <1>5, <1>6 DEF PromptIInv

LEMMA PromptNext ==
  ASSUME InStep, PromptIInv, [Next]_vars
  PROVE  PromptIInv'
<1> SUFFICES PromptKept
  BY PipeNext DEF PromptIInv, PromptKept
<1>1. CASE Turns
  BY <1>1, FramePrompt, QuietPrompt DEF Turns, Turn
<1>2. CASE Lines
  <2>1. Entered
    BY <1>2, LineKinds DEF AnsweredHere, Asks, ReadMemory, Disassemble
  <2> QED
    BY <2>1 DEF Entered, PromptIInv, PromptKept
<1>3. CASE Greet \/ Rewound \/ LoadMap \/ UNCHANGED vars
  BY <1>3 DEF Greet, Rewound, LoadMap, vars, pane, wire, PromptIInv, PromptKept
<1> QED
  BY <1>1, <1>2, <1>3 DEF Next

LEMMA PromptStep ==
  ASSUME InStep, PromptIInv, Turns, tail # "prompt", tail' = "prompt"
  PROVE  quiet' = 0
<1>1. PICK advance \in 0..MaxAdvance : Turn(advance)
  BY DEF Turns
<1>2. CASE Response
  BY <1>1, <1>2, FramePrompt
<1>3. CASE NoResponse
  BY <1>1, <1>3, QuietPrompt
<1> QED
  BY <1>1, <1>2, <1>3 DEF Turn

(* A prompt is not printed between two frames of one answer, as long as    *)
(* the clock keeps step with the ticks.                                    *)
THEOREM PromptWaits ==
  ASSUME InStep
  PROVE  Spec => PromptAfterFrames
<1>1. PromptIInv /\ [Next]_vars => PromptIInv'
  BY PromptNext
<1>2. PromptIInv /\ [Next]_vars
      => [Turns /\ tail # "prompt" /\ tail' = "prompt" => quiet' = 0]_vars
  BY PromptStep
<1> QED
  BY PromptInit, <1>1, <1>2, PTL DEF Spec, PromptAfterFrames

-----------------------------------------------------------------------------
(* What the bytes read decode to.                                          *)

LEMMA LeastNumber ==
  ASSUME NEW T \in SUBSET Nat, T # {}
  PROVE  \E n \in T : \A m \in T : n <= m
<1> DEFINE R == OpToRel(<, Nat)
<1>1. IsWellFoundedOn(R, Nat)
  BY NatLessThanWellFounded
<1>2. PICK n \in T : \A m \in T : <<m, n>> \notin R
  <2> HIDE DEF R
  <2> QED
    BY <1>1, WFMin
<1>3. \A m \in T : ~(m < n)
  BY <1>2 DEF OpToRel
<1> QED
  BY <1>3

(* A function defined by recursion over 0..n exists.                       *)
Recurs(f, n, base, step) == f[0] = base /\ \A k \in 1..n : f[k] = step[f[k - 1]]

LEMMA RecursionExists ==
  ASSUME NEW n \in Nat, NEW V, NEW base \in V, NEW step \in [V -> V]
  PROVE  \E f \in [0..n -> V] : Recurs(f, n, base, step)
<1> DEFINE Goes(m) == \E f \in [0..m -> V] : Recurs(f, m, base, step)
           wrong == {m \in 0..n : ~Goes(m)}
<1>1. ASSUME wrong # {}
      PROVE  FALSE
  <2>1. PICK m \in wrong : \A j \in wrong : m <= j
    <3> HIDE DEF wrong
    <3>1. wrong \in SUBSET Nat
      BY DEF wrong
    <3> QED
      BY <1>1, <3>1, LeastNumber
  <2>2. m \in 0..n /\ ~Goes(m)
    BY <2>1
  <2>3. m # 0
    <3>1. [k \in 0..0 |-> base] \in [0..0 -> V] /\ Recurs([k \in 0..0 |-> base], 0, base, step)
      BY DEF Recurs
    <3> QED
      BY <2>2, <3>1
  <2> DEFINE j == m - 1
  <2>4. j \in 0..n /\ ~(m <= j) /\ m \in 1..n /\ m \in Nat /\ j \in Nat
    BY <2>2, <2>3
  <2>5. Goes(j)
    <3> HIDE DEF Goes, j
    <3> QED
      BY <2>1, <2>4
  <2>6. PICK f \in [0..j -> V] : Recurs(f, j, base, step)
    BY <2>5
  <2> DEFINE g == [k \in 0..m |-> IF k = m THEN step[f[j]] ELSE f[k]]
  <2>7. step[f[j]] \in V
    BY <2>4, <2>6
  <2>8. \A k \in 0..m : k # m => k \in 0..j
    BY <2>4
  <2>9. g \in [0..m -> V]
    BY <2>6, <2>7, <2>8
  <2>10. Recurs(g, m, base, step)
    <3>1. g[0] = base
      BY <2>4, <2>6 DEF Recurs
    <3>2. ASSUME NEW k \in 1..m
          PROVE  g[k] = step[g[k - 1]]
      <4>1. CASE k = m
        BY <2>4, <4>1
      <4>2. CASE k # m
        <5>1. k \in 1..j /\ k \in 0..m /\ k - 1 \in 0..m /\ k - 1 # m
          BY <2>4, <4>2
        <5>2. f[k] = step[f[k - 1]]
          BY <2>6, <5>1 DEF Recurs
        <5> QED
          BY <4>2, <5>1, <5>2
      <4> QED
        BY <4>1, <4>2
    <3> QED
      BY <3>1, <3>2 DEF Recurs
  <2> QED
    BY <2>2, <2>9, <2>10
<1>2. n \in 0..n
  OBVIOUS
<1> QED
  BY <1>1, <1>2

(* However many instructions are asked for, what is decoded for them does  *)
(* not go beyond the bytes that were read.                                 *)
LEMMA DecodedAsRead ==
  ASSUME NEW address, NEW length \in 0..Window, NEW count \in 0..Window
  PROVE  DecodedAfter(address, length)[count] \in 0..length
<1> DEFINE V == 0..length
           Goes(at) == IF at < length /\ Decodes(address + at, length - at)
                       THEN at + Sizes[address + at] ELSE at
           Offsets(h) == [n \in 0..Window |-> IF n = 0 THEN 0 ELSE Goes(h[n - 1])]
           offset == CHOOSE h : h = Offsets(h)
           step == [at \in V |-> Goes(at)]
<1>1. DecodedAfter(address, length) = offset
  BY DEF DecodedAfter
<1>2. Window \in Nat /\ length \in Nat
  BY WindowAssumption
<1>3. step \in [V -> V]
  <2>1. ASSUME NEW at \in V
        PROVE  Goes(at) \in V
    <3>1. CASE at < length /\ Decodes(address + at, length - at)
      <4>1. Sizes[address + at] \in {0, 1, 2, 4} /\ Sizes[address + at] <= length - at
        BY <3>1, SizesAssumption DEF Decodes
      <4>2. PICK size \in Nat : size = Sizes[address + at] /\ size <= length - at
        BY <4>1
      <4>3. at + size \in 0..length
        BY <1>2, <4>2
      <4> QED
        BY <3>1, <4>2, <4>3
    <3>2. CASE ~(at < length /\ Decodes(address + at, length - at))
      BY <3>2
    <3> HIDE DEF V, Goes
    <3> QED
      BY <3>1, <3>2
  <2> HIDE DEF Goes, V
  <2> QED
    BY <2>1
<1>4. PICK f \in [0..Window -> V] : Recurs(f, Window, 0, step)
  <2>1. 0 \in V
    BY <1>2
  <2> HIDE DEF V, step
  <2> QED
    BY <1>2, <1>3, <2>1, RecursionExists
<1>5. ASSUME NEW k \in 1..Window
      PROVE  f[k] = Goes(f[k - 1])
  <2>1. f[k - 1] \in V
    <3>1. k - 1 \in 0..Window
      BY <1>2
    <3> QED
      BY <1>4, <3>1
  <2>2. f[k] = step[f[k - 1]]
    BY <1>4 DEF Recurs
  <2> HIDE DEF Goes
  <2> QED
    BY <2>1, <2>2
<1>6. f = Offsets(f)
  <2>1. \A k \in 0..Window : k # 0 => k \in 1..Window
    BY <1>2
  <2> HIDE DEF Goes, V, step
  <2>2. \A k \in 0..Window : f[k] = IF k = 0 THEN 0 ELSE Goes(f[k - 1])
    BY <1>4, <1>5, <2>1 DEF Recurs
  <2>3. f = [k \in 0..Window |-> f[k]]
    BY <1>4
  <2> QED
    BY <2>2, <2>3
<1>7. offset = Offsets(offset)
  <2> HIDE DEF Offsets
  <2> QED
    BY <1>6
<1> HIDE DEF offset
<1>8. offset[0] = 0 /\ \A k \in 1..Window : offset[k] = Goes(offset[k - 1])
  <2>1. \A k \in 1..Window : k # 0 /\ k \in 0..Window
    BY <1>2
  <2>2. 0 \in 0..Window
    BY <1>2
  <2> HIDE DEF Goes
  <2> QED
    BY <1>7, <2>1, <2>2
<1> DEFINE wrong == {k \in 0..Window : offset[k] \notin V}
<1>9. ASSUME wrong # {}
      PROVE  FALSE
  <2>1. PICK k \in wrong : \A j \in wrong : k <= j
    <3> HIDE DEF wrong
    <3>1. wrong \in SUBSET Nat
      BY <1>2 DEF wrong
    <3> QED
      BY <1>9, <3>1, LeastNumber
  <2>2. k \in 0..Window /\ offset[k] \notin V
    BY <2>1
  <2>3. k # 0
    BY <1>2, <1>8, <2>2
  <2>4. k - 1 \in 0..Window /\ ~(k <= k - 1) /\ k \in 1..Window
    BY <1>2, <2>2, <2>3
  <2>5. offset[k - 1] \in V
    <3> HIDE DEF V
    <3> QED
      BY <2>1, <2>4
  <2>6. Goes(offset[k - 1]) = step[offset[k - 1]]
    <3> HIDE DEF Goes, V
    <3> QED
      BY <2>5
  <2> HIDE DEF V, Goes, step
  <2> QED
    BY <1>3, <1>8, <2>2, <2>4, <2>5, <2>6
<1> HIDE DEF V
<1>10. offset[count] \in V
  BY <1>9
<1> QED
  BY <1>1, <1>10 DEF V

-----------------------------------------------------------------------------
(* Types.                                                                  *)

Reply == [id : 0..MaxRequests, kind : {"identity", "status", "memory", "dis"},
          address : Addresses \cup {NoAddress}, length : 0..Window,
          frames : 1..MaxFrames]

Shown == {"memory", "dis"} \X Addresses \X {"memory", "dis"} \X (0..Window) \X (0..Window)

ShownAsRead == shown \subseteq Shown /\ \A reply \in shown : reply[4] <= reply[5]

Wanted == (Addresses \X Counts) \cup {<<NoAddress, NoCount>>}

(* The part of TypeOK that WarnIInv and ListIInv leave.                    *)
RestTyped ==
  /\ promptIn = NoPrompt \/ promptIn \in 0..PromptAfter
  /\ disassembly \in Wanted
  /\ loaded \in BOOLEAN /\ identified \in BOOLEAN /\ greeted \in BOOLEAN
  /\ pipe \in Seq(Reply)
  /\ quiet \in 0..Gap
  /\ tail \in {"prompt", "reply", "lines"}
  /\ asked \in 0..MaxRequests
  /\ dropped \subseteq 0..MaxRequests
  /\ decoded \subseteq Addresses
  /\ ShownAsRead

TypeIInv == WarnIInv /\ ListIInv /\ RestTyped

LEMMA TypeFollows == TypeIInv => TypeOK
<1> SUFFICES ASSUME TypeIInv PROVE TypeOK
  OBVIOUS
<1>1. awaiting \in 0..1 /\ answered \subseteq 0..asked /\ asked \in 0..MaxRequests
  BY DEF TypeIInv, WarnIInv, RestTyped
<1>2. answered \subseteq 0..MaxRequests
  <2>1. \A id \in 0..asked : id \in 0..MaxRequests
    BY <1>1, BoundAssumption
  <2> QED
    BY <1>1, <2>1
<1>3. nextListing \in Nat \cup {Nowhere} /\ listed \in 0..Len(Instructions)
  <2>1. CASE listed = 0 /\ nextListing = Nowhere
    BY <2>1, MapTypes
  <2>2. CASE listed \in Indices /\ nextListing = EndOf(listed)
    BY <2>2, MapTypes
  <2> QED
    BY <2>1, <2>2 DEF TypeIInv, ListIInv
<1> QED
  BY <1>1, <1>2, <1>3 DEF TypeIInv, RestTyped, TypeOK, Reply, ShownAsRead, Shown, Wanted

LEMMA RestInit == Init => RestTyped
<1> SUFFICES ASSUME Init PROVE RestTyped
  OBVIOUS
<1>1. asked \in 0..MaxRequests /\ quiet \in 0..Gap
  BY BoundAssumption, TimingAssumption DEF Init, Greeting
<1>2. pipe \in Seq(Reply)
  BY DEF Init
<1> QED
  BY <1>1, <1>2 DEF Init, RestTyped, ShownAsRead, Wanted

(* The frame that comes, and what is left of its answer.                   *)
LEMMA HeadReply ==
  ASSUME RestTyped, WarnIInv, pipe # <<>>
  PROVE  /\ Head1 \in Reply /\ Sent(Head1)
         /\ Tail(pipe) \in Seq(Reply)
         /\ Head1.frames # 1 => [pipe EXCEPT ![1].frames = @ - 1] \in Seq(Reply)
<1>1. pipe \in Seq(Reply) /\ Sent(Head1)
  BY HeadIsAnswer DEF RestTyped, WarnIInv, Head1
<1>2. Len(pipe) \in Nat \ {0} /\ Head1 = pipe[1]
  BY <1>1 DEF Head1
<1>3. Head1 \in Reply /\ Tail(pipe) \in Seq(Reply)
  BY <1>1, <1>2
<1>4. ASSUME Head1.frames # 1
      PROVE  [pipe EXCEPT ![1].frames = @ - 1] \in Seq(Reply)
  <2>1. PICK rest : rest = [Head1 EXCEPT !.frames = @ - 1]
    OBVIOUS
  <2>2. Head1.frames \in 1..MaxFrames
    BY <1>3 DEF Reply
  <2>3. Head1.frames - 1 \in 1..MaxFrames
    BY <1>4, <2>2, BoundAssumption
  <2>4. rest \in Reply
    BY <1>3, <2>1, <2>3 DEF Reply
  <2>5. [pipe EXCEPT ![1].frames = @ - 1] = [pipe EXCEPT ![1] = rest]
    BY <1>2, <2>1
  <2>6. [pipe EXCEPT ![1] = rest] \in Seq(Reply)
    BY <1>1, <1>2, <2>4
  <2> QED
    BY <2>5, <2>6
<1> QED
  BY <1>1, <1>3, <1>4

(* What a memory reply is shown as lies in what was read: a number of      *)
(* instructions is remembered whenever an address is.                      *)
LEMMA ReplyShown ==
  ASSUME RestTyped, WarnIInv, Response
  PROVE  ShownAsRead'
<1>1. Head1 \in Reply /\ Sent(Head1)
  BY HeadReply DEF Response
<1>2. CASE ~IsMemory
  BY <1>2 DEF Response, RestTyped, ShownAsRead
<1>3. CASE IsMemory
  <2>1. Head1.kind \in {"memory", "dis"} /\ Head1.address \in Addresses
    BY <1>1, <1>3 DEF IsMemory, Sent
  <2>2. PICK length \in 0..Window : length = Head1.length
    BY <1>1 DEF Reply
  <2>3. CASE ~AsInstructions
    <3> DEFINE reply == <<Head1.kind, Head1.address, "memory", length, length>>
    <3>1. shown' = shown \cup {reply}
      BY <1>3, <2>2, <2>3 DEF Response
    <3>2. reply \in Shown /\ reply[4] <= reply[5]
      BY <2>1, <2>2, WindowAssumption DEF Shown
    <3> HIDE DEF reply
    <3> QED
      BY <3>1, <3>2 DEF RestTyped, ShownAsRead
  <2>4. CASE AsInstructions
    <3>1. PICK bytes : bytes = DecodedAfter(Head1.address, length)[disassembly[2]]
      OBVIOUS
    <3>2. disassembly[1] \in Nat
      BY <2>1, <2>4, AddressAssumption DEF AsInstructions
    <3>3. disassembly[2] \in Counts
      BY <3>2 DEF RestTyped, Wanted, NoAddress
    <3>4. disassembly[2] \in 0..Window
      BY <3>3, AddressAssumption
    <3>5. bytes \in 0..length
      BY <3>1, <3>4, DecodedAsRead
    <3>6. bytes \in 0..Window /\ bytes <= length
      BY <2>2, <3>5, WindowAssumption
    <3> DEFINE reply == <<Head1.kind, Head1.address, "dis", bytes, length>>
    <3>7. shown' = shown \cup {reply}
      BY <1>3, <2>2, <2>4, <3>1 DEF Response
    <3>8. reply \in Shown /\ reply[4] <= reply[5]
      BY <2>1, <2>2, <3>6 DEF Shown
    <3> HIDE DEF reply
    <3> QED
      BY <3>7, <3>8 DEF RestTyped, ShownAsRead
  <2> QED
    BY <2>3, <2>4
<1> QED
  BY <1>2, <1>3

LEMMA TurnRest ==
  ASSUME RestTyped, WarnIInv, NEW advance \in 0..MaxAdvance, Turn(advance)
  PROVE  RestTyped'
<1>1. /\ disassembly' \in Wanted /\ identified' \in BOOLEAN
      /\ pipe' \in Seq(Reply) /\ quiet' \in 0..Gap /\ ShownAsRead'
  <2>1. CASE Response
    <3>1. ShownAsRead'
      BY <2>1, ReplyShown
    <3>2. pipe' \in Seq(Reply)
      BY <2>1, HeadReply DEF Response
    <3>3. disassembly' \in Wanted
      BY <2>1 DEF Response, RestTyped, Wanted
    <3>4. quiet' \in 0..Gap
      BY <2>1, TimingAssumption DEF Response
    <3> QED
      BY <2>1, <3>1, <3>2, <3>3, <3>4 DEF Response, RestTyped
  <2>2. CASE NoResponse
    <3>1. quiet' \in 0..Gap
      BY <2>2, TimingAssumption DEF NoResponse, RestTyped
    <3> QED
      BY <2>2, <3>1 DEF NoResponse, RestTyped, ShownAsRead
  <2> QED
    BY <2>1, <2>2 DEF Turn
<1>2. promptIn' = NoPrompt \/ promptIn' \in 0..PromptAfter
  <2> DEFINE at == IF pipe' # pipe THEN Due ELSE Left(advance)
  <2>1. at = NoPrompt \/ at \in 0..PromptAfter
    <3>1. Due \in 0..PromptAfter
      BY TimingAssumption DEF Due
    <3>2. Left(advance) = NoPrompt \/ Left(advance) \in 0..PromptAfter
      BY TimingAssumption DEF Left, RestTyped
    <3> QED
      BY <3>1, <3>2
  <2>2. promptIn' = IF PromptIfDue(at) THEN NoPrompt ELSE at
    BY DEF Turn
  <2> QED
    BY <2>1, <2>2
<1>3. tail' \in {"prompt", "reply", "lines"}
  BY DEF Turn, RestTyped
<1> QED
  BY <1>1, <1>2, <1>3 DEF Turn, RestTyped

(* What every line leaves behind, and what a request adds to it.           *)
LEMMA EnteredRest ==
  ASSUME RestTyped, Entered
  PROVE  /\ promptIn' = NoPrompt /\ dropped' \subseteq 0..MaxRequests
         /\ loaded' \in BOOLEAN /\ identified' \in BOOLEAN /\ greeted' \in BOOLEAN
         /\ quiet' \in 0..Gap /\ ShownAsRead'
  BY DEF RestTyped, Entered, ShownAsRead

LEMMA AsksRest ==
  ASSUME RestTyped, NEW kind \in {"status", "memory", "dis"},
         NEW address \in Addresses \cup {NoAddress}, NEW length \in 0..Window,
         NEW frames \in 0..MaxFrames, Asks(kind, address, length, frames), disassembly' \in Wanted, decoded' \subseteq Addresses
  PROVE  RestTyped'
<1>1. Entered /\ tail' = "lines"
  BY DEF Asks
<1>2. asked' \in 0..MaxRequests /\ asked' = asked + 1
  BY BoundAssumption DEF Asks, RestTyped
<1>3. pipe' \in Seq(Reply)
  <2>1. CASE frames = 0
    BY <2>1 DEF Asks, RestTyped
  <2>2. CASE frames # 0
    <3>1. PICK answer : answer = [id |-> asked + 1, kind |-> kind, address |-> address,
                                  length |-> length, frames |-> frames]
      OBVIOUS
    <3>2. frames \in 1..MaxFrames
      BY <2>2, BoundAssumption
    <3>3. answer \in Reply
      BY <1>2, <3>1, <3>2 DEF Reply
    <3>4. pipe' = Append(pipe, answer)
      BY <2>2, <3>1 DEF Asks
    <3> QED
      BY <3>3, <3>4 DEF RestTyped
  <2> QED
    BY <2>1, <2>2
<1> QED
  BY <1>1, <1>2, <1>3, EnteredRest DEF RestTyped

LEMMA LinesRest ==
  ASSUME RestTyped, Lines
  PROVE  RestTyped'
<1>1. CASE AnsweredHere
  BY <1>1, EnteredRest DEF AnsweredHere, RestTyped
<1>2. CASE Registers
  <2>1. PICK frames \in {0, MaxFrames} : Asks("status", NoAddress, 0, frames)
    BY <1>2 DEF Registers
  <2>2. frames \in 0..MaxFrames
    BY BoundAssumption
  <2>3. disassembly' \in Wanted /\ decoded' \subseteq Addresses
    BY <1>2 DEF Registers, RestTyped
  <2> QED
    BY <2>1, <2>2, <2>3, AsksRest, LengthsFit
<1>3. 1 \in 0..MaxFrames
  BY BoundAssumption
<1>4. CASE Status
  <2>1. disassembly' \in Wanted /\ decoded' \subseteq Addresses
    BY <1>4 DEF Status, RestTyped
  <2> QED
    BY <1>3, <1>4, <2>1, AsksRest, LengthsFit DEF Status
<1>5. ASSUME NEW address \in Addresses, NEW length \in Lengths, ReadMemory(address, length)
      PROVE  RestTyped'
  <2>1. disassembly' \in Wanted /\ decoded' \subseteq Addresses
    BY <1>5 DEF ReadMemory, RestTyped
  <2> QED
    BY <1>3, <1>5, <2>1, AsksRest, LengthsFit DEF ReadMemory
<1>6. ASSUME NEW address \in Addresses, NEW count \in Counts, Disassemble(address, count)
      PROVE  RestTyped'
  <2>1. disassembly' \in Wanted /\ decoded' \subseteq Addresses
    BY <1>6 DEF Disassemble, RestTyped, Wanted
  <2> QED
    BY <1>3, <1>6, <2>1, AsksRest, LengthsFit DEF Disassemble
<1>7. LocalLine \/ ListOn \/ (\E location \in Locations : List(location)) => AnsweredHere
  BY DEF LocalLine, ListOn, List, Lists
<1> QED
  BY <1>1, <1>2, <1>4, <1>5, <1>6, <1>7 DEF Lines

LEMMA GreetRest ==
  ASSUME RestTyped, Greet
  PROVE  RestTyped'
<1>1. PICK answer : answer = [id |-> Greeting, kind |-> "identity", address |-> NoAddress,
                              length |-> 0, frames |-> 1]
  OBVIOUS
<1>2. Greeting \in 0..MaxRequests /\ 1 \in 1..MaxFrames
  BY BoundAssumption DEF Greeting
<1>3. answer \in Reply
  BY <1>1, <1>2, LengthsFit DEF Reply
<1>4. pipe' = Append(pipe, answer)
  BY <1>1 DEF Greet
<1>5. pipe' \in Seq(Reply)
  BY <1>3, <1>4 DEF RestTyped
<1> QED
  BY <1>5 DEF Greet, RestTyped, ShownAsRead

LEMMA TypeNext ==
  ASSUME TypeIInv, [Next]_vars
  PROVE  TypeIInv'
<1> SUFFICES RestTyped'
  BY WarnNext, ListNext DEF TypeIInv
<1>1. CASE Turns
  BY <1>1, TurnRest DEF Turns, TypeIInv
<1>2. CASE Lines
  BY <1>2, LinesRest DEF TypeIInv
<1>3. CASE Greet
  BY <1>3, GreetRest DEF TypeIInv
<1>4. CASE Rewound \/ LoadMap \/ UNCHANGED vars
  BY <1>4 DEF Rewound, LoadMap, vars, pane, wire, history, listing, TypeIInv, RestTyped,
           ShownAsRead
<1> QED
  BY <1>1, <1>2, <1>3, <1>4 DEF Next

(* Every variable of the console has its type, whatever answers come and   *)
(* when: among it that a reply shown as instructions never has more bytes  *)
(* decoded than were read, which the code slices unchecked.                *)
THEOREM TypeCorrect == Spec => []TypeOK
<1>1. Init => TypeIInv
  BY WarnInit, ListInit, RestInit DEF TypeIInv
<1>2. TypeIInv /\ [Next]_vars => TypeIInv'
  BY TypeNext
<1> QED
  BY <1>1, <1>2, TypeFollows, PTL DEF Spec
===============================================================================
