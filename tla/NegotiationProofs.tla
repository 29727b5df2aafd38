-------------------------- MODULE NegotiationProofs --------------------------
(***************************************************************************)
(* Proofs about Negotiation, for every value of its constants.             *)
(*                                                                         *)
(* Typing and the frames of a plain link need no more than the module's    *)
(* assumptions.  That a target is attached to once needs the two premises  *)
(* the code relies on in silence: the target answers before the retry, and *)
(* the tick does not come near its wrap.                                   *)
(***************************************************************************)
EXTENDS Negotiation, FiniteSetTheorems, TLAPS

-----------------------------------------------------------------------------
(* What a turn leaves in flight.                                           *)

(* The HELLOs in flight age by one tick, and one may join them at zero.    *)
LEMMA UnreadBounded ==
  ASSUME TypeOK
  PROVE  /\ Unread \in SUBSET (0..(Latency + 1))
         /\ Older(acks) \in SUBSET (0..(Latency + 1))
<1>1. \A age \in 0..Latency : age + 1 \in 0..(Latency + 1)
  BY LatencyAssumption
<1>2. Older(hellos) \in SUBSET (0..(Latency + 1))
  BY <1>1 DEF TypeOK, Older
<1>3. Older(acks) \in SUBSET (0..(Latency + 1))
  BY <1>1 DEF TypeOK, Older
<1>4. 0 \in 0..(Latency + 1)
  BY LatencyAssumption
<1> QED
  BY <1>2, <1>3, <1>4 DEF Unread

(* So a turn reads finitely many.                                          *)
LEMMA ReadFinite ==
  ASSUME TypeOK, NEW read \in SUBSET Unread
  PROVE  Cardinality(read) \in Nat
<1>1. IsFiniteSet(0..(Latency + 1))
  BY FS_Interval, LatencyAssumption
<1>2. read \subseteq 0..(Latency + 1)
  BY UnreadBounded
<1>3. IsFiniteSet(read)
  BY <1>1, <1>2, FS_Subset
<1> QED
  BY <1>3, FS_CardinalityType

-----------------------------------------------------------------------------
(* Typing.                                                                 *)

LEMMA TypeInit == Init => TypeOK
<1> SUFFICES ASSUME Init PROVE TypeOK
  OBVIOUS
<1>1. tick \in 0..(TickMod - 1) /\ nextHello \in 0..(TickMod - 1)
  BY RetryAssumption, TickAssumption DEF Init
<1>2. sinceOffer \in 1..HelloRetry
  BY RetryAssumption DEF Init
<1> QED
  BY <1>1, <1>2 DEF Init, TypeOK

LEMMA TypeExchanged ==
  ASSUME TypeOK,
         NEW read \in SUBSET Unread,
         NEW heard \in SUBSET (Older(acks) \cup read),
         Exchanged(read, heard)
  PROVE  /\ hellos' \in SUBSET (0..Latency) /\ acks' \in SUBSET (0..Latency)
         /\ framed' \in BOOLEAN
         /\ mode' \in {"Plain", "Framed"}
         /\ attaches' \in Nat
<1>1. hellos' \cup acks' \subseteq 0..(Latency + 1)
  BY UnreadBounded DEF Exchanged
<1>2. \A age \in hellos' \cup acks' : age < Latency
  BY DEF Exchanged
<1>3. \A age \in hellos' \cup acks' : age \in 0..Latency
  BY <1>1, <1>2, LatencyAssumption
<1>4. attaches' \in Nat
  BY ReadFinite DEF Exchanged, TypeOK
<1>5. framed' \in BOOLEAN /\ mode' \in {"Plain", "Framed"}
  BY DEF Exchanged, TypeOK
<1> QED
  BY <1>3, <1>4, <1>5

LEMMA TypeTick ==
  ASSUME TypeOK, Tick
  PROVE  TypeOK'
<1>1. PICK read \in SUBSET Unread :
        \E heard \in SUBSET (Older(acks) \cup read) : Exchanged(read, heard)
  BY DEF Tick
<1>2. PICK heard \in SUBSET (Older(acks) \cup read) : Exchanged(read, heard)
  BY <1>1
<1>3. /\ hellos' \in SUBSET (0..Latency) /\ acks' \in SUBSET (0..Latency)
      /\ framed' \in BOOLEAN
      /\ mode' \in {"Plain", "Framed"}
      /\ attaches' \in Nat
  BY <1>2, TypeExchanged
<1>4. tick' \in 0..(TickMod - 1) /\ nextHello' \in 0..(TickMod - 1)
  BY TickAssumption, RetryAssumption DEF TypeOK, Tick, NextTick, NextHello
<1>5. /\ greeted' \in BOOLEAN /\ up' \in BOOLEAN /\ greetings' \in Nat
      /\ early' \subseteq {"identity", "time", "resources", "input", "debug"}
  BY DEF TypeOK, Tick, Greeted, Sent
<1>6. sinceOffer' \in 1..HelloRetry
  BY RetryAssumption DEF TypeOK, Tick
<1> QED
  BY <1>3, <1>4, <1>5, <1>6 DEF TypeOK

LEMMA TypeNext ==
  ASSUME TypeOK, [Next]_vars
  PROVE  TypeOK'
<1>1. CASE Tick
  BY <1>1, TypeTick
<1>2. CASE Boot
  BY <1>2 DEF Boot, TypeOK, session, history
<1>3. CASE Input
  BY <1>3 DEF Input, TypeOK, session, target
<1>4. CASE ConsoleRequest
  BY <1>4 DEF ConsoleRequest, TypeOK, session, target
<1>5. CASE UNCHANGED vars
  BY <1>5 DEF TypeOK, vars, session, target, history
<1> QED
  BY <1>1, <1>2, <1>3, <1>4, <1>5 DEF Next

(* Every variable keeps its type, however long the session runs.           *)
THEOREM TypeCorrect == Spec => []TypeOK
<1>1. TypeOK /\ [Next]_vars => TypeOK'
  BY TypeNext
<1> QED
  BY TypeInit, <1>1, PTL DEF Spec

-----------------------------------------------------------------------------
(* Frames on a plain link.                                                 *)

(* An acknowledgement is on its way, or has been heard, only of a framed   *)
(* target.                                                                 *)
FramedIInv ==
  /\ acks # {} => framed
  /\ FramesOnlyWhenFramed

LEMMA FramedInit == Init => FramedIInv
BY DEF Init, FramedIInv, FramesOnlyWhenFramed

LEMMA FramedTick ==
  ASSUME TypeOK, FramedIInv, Tick
  PROVE  FramedIInv'
<1>1. PICK read \in SUBSET Unread :
        \E heard \in SUBSET (Older(acks) \cup read) : Exchanged(read, heard)
  BY DEF Tick
<1>2. PICK heard \in SUBSET (Older(acks) \cup read) : Exchanged(read, heard)
  BY <1>1
<1>3. Older(acks) # {} => framed
  BY DEF FramedIInv, Older
<1>4. acks' # {} => framed'
  BY <1>2, <1>3 DEF Exchanged
<1>5. mode' = "Framed" => framed'
  BY <1>2, <1>3 DEF Exchanged, FramedIInv, FramesOnlyWhenFramed
<1>6. early' \subseteq {"debug"}
  BY DEF Tick, Sent, FramedIInv, FramesOnlyWhenFramed
<1> QED
  BY <1>4, <1>5, <1>6 DEF FramedIInv, FramesOnlyWhenFramed

LEMMA FramedNext ==
  ASSUME TypeOK, FramedIInv, [Next]_vars
  PROVE  FramedIInv'
<1>1. CASE Tick
  BY <1>1, FramedTick
<1>2. CASE Boot
  BY <1>2 DEF Boot, FramedIInv, FramesOnlyWhenFramed, session, history
<1>3. CASE Input
  BY <1>3 DEF Input, InputIsFramed, FramedIInv, FramesOnlyWhenFramed, session, target
<1>4. CASE ConsoleRequest
  BY <1>4 DEF ConsoleRequest, FramedIInv, FramesOnlyWhenFramed, session, target
<1>5. CASE UNCHANGED vars
  BY <1>5 DEF FramedIInv, FramesOnlyWhenFramed, vars, session, target, history
<1> QED
  BY <1>1, <1>2, <1>3, <1>4, <1>5 DEF Next

(* No periodic request, greeting or framed input is ever sent to a target  *)
(* that is still plain, however late it boots and answers.                 *)
THEOREM PlainTargetGetsNoFrames == Spec => []FramesOnlyWhenFramed
<1>1. TypeOK /\ FramedIInv /\ [Next]_vars => FramedIInv'
  BY FramedNext
<1>2. FramedIInv => FramesOnlyWhenFramed
  BY DEF FramedIInv
<1> QED
  BY TypeCorrect, FramedInit, <1>1, <1>2, PTL DEF Spec

-----------------------------------------------------------------------------
(* The greeting.                                                           *)

(* The flag and the count of greetings agree.                              *)
GreetIInv ==
  /\ greetings = IF greeted THEN 1 ELSE 0
  /\ greeted => mode = "Framed"

LEMMA GreetNext ==
  ASSUME TypeOK, GreetIInv, [Next]_vars
  PROVE  GreetIInv'
<1>1. CASE Tick
  <2>1. PICK read \in SUBSET Unread :
          \E heard \in SUBSET (Older(acks) \cup read) : Exchanged(read, heard)
    BY <1>1 DEF Tick
  <2>2. mode = "Framed" => mode' = "Framed"
    BY <2>1 DEF Exchanged
  <2>3. /\ greeted' = (greeted \/ mode = "Framed")
        /\ greetings' = IF mode = "Framed" /\ ~greeted THEN greetings + 1 ELSE greetings
    BY <1>1 DEF Tick, Greeted
  <2>4. greetings' = IF greeted' THEN 1 ELSE 0
    <3>1. CASE mode = "Framed" /\ ~greeted
      <4>1. greetings = 0
        BY <3>1 DEF GreetIInv
      <4>2. greetings' = greetings + 1
        BY <2>3, <3>1
      <4>3. greetings' = 1
        BY <4>1, <4>2
      <4> QED
        BY <2>3, <3>1, <4>3
    <3>2. CASE ~(mode = "Framed" /\ ~greeted)
      <4>1. greetings' = greetings /\ greeted' = greeted
        BY <2>3, <3>2 DEF TypeOK, GreetIInv
      <4> QED
        BY <4>1 DEF GreetIInv
    <3> QED
      BY <3>1, <3>2
  <2> QED
    BY <2>2, <2>3, <2>4 DEF GreetIInv
<1>2. CASE Boot
  BY <1>2 DEF Boot, GreetIInv, session, history
<1>3. CASE Input
  BY <1>3 DEF Input, GreetIInv, session
<1>4. CASE ConsoleRequest
  BY <1>4 DEF ConsoleRequest, GreetIInv, session
<1>5. CASE UNCHANGED vars
  BY <1>5 DEF GreetIInv, vars, session, history
<1> QED
  BY <1>1, <1>2, <1>3, <1>4, <1>5 DEF Next

(* The debugger greets once in a session, and on a framed link.            *)
THEOREM GreetedOnce == Spec => []GreetOnce
<1>1. Init => GreetIInv
  BY DEF Init, GreetIInv
<1>2. TypeOK /\ GreetIInv /\ [Next]_vars => GreetIInv'
  BY GreetNext
<1>3. GreetIInv => GreetOnce
  BY DEF GreetIInv, GreetOnce
<1> QED
  BY TypeCorrect, <1>1, <1>2, <1>3, PTL DEF Spec
-----------------------------------------------------------------------------
(* One attach.                                                             *)

(* The target's answer to a HELLO is in before the retry is due.           *)
Prompt == Latency < HelloRetry

(* The retry never wraps.                                                  *)
NoWrap == MaxTicks + HelloRetry <= TickMod

(* The age of the last HELLO, by the session's own clock.                  *)
Age == tick + HelloRetry - 1 - nextHello

(* Whatever is in flight is the last HELLO or its answer, and once the     *)
(* target has read one, its answer is in flight or the link is framed: the *)
(* session's retry timer alone says whether anything can be in flight.     *)
AttachIInv ==
  /\ tick <= MaxTicks
  /\ nextHello < tick + HelloRetry
  /\ hellos \subseteq {Age} /\ acks \subseteq {Age}
  /\ \A age \in hellos \cup acks : age < Latency
  /\ attaches \in {0, 1}
  /\ attaches = 0 => acks = {} /\ mode = "Plain"
  /\ attaches = 1 => hellos = {} /\ (mode = "Framed" \/ acks = {Age})
  /\ sinceOffer = IF Age + 1 < HelloRetry THEN Age + 1 ELSE HelloRetry

LEMMA AttachInit == Init => AttachIInv
BY RetryAssumption, BoundAssumption DEF Init, AttachIInv, Age

(* Away from the wrap, the tick and the retry are plain sums.              *)
LEMMA NoWrapInTick ==
  ASSUME TypeOK, NoWrap, Tick
  PROVE  /\ tick' = tick + 1 /\ tick' <= MaxTicks
         /\ nextHello' = IF Offered THEN tick + HelloRetry ELSE nextHello
<1>1. /\ tick \in Nat /\ tick < MaxTicks /\ MaxTicks \in Nat
      /\ HelloRetry \in Nat \ {0} /\ TickMod \in Nat \ {0}
      /\ MaxTicks + HelloRetry <= TickMod
  BY RetryAssumption, TickAssumption, BoundAssumption DEF TypeOK, NoWrap, Tick, NextTick
<1>2. (tick + 1) % TickMod = tick + 1
  BY <1>1
<1>3. (tick + HelloRetry) % TickMod = tick + HelloRetry
  BY <1>1
<1> QED
  BY <1>1, <1>2, <1>3 DEF Tick, NextTick, NextHello

(* A HELLO is offered only when nothing is in flight.                      *)
LEMMA OfferedAlone ==
  ASSUME TypeOK, AttachIInv, Prompt, Offered
  PROVE  /\ hellos = {} /\ acks = {} /\ attaches = 0
         /\ sinceOffer = HelloRetry
<1>1. Age >= HelloRetry - 1 /\ Age \in Int
  BY RetryAssumption DEF Offered, Age, TypeOK
<1>2. ~(Age < Latency) /\ ~(Age + 1 < HelloRetry)
  BY <1>1, RetryAssumption, LatencyAssumption DEF Prompt
<1>3. hellos = {} /\ acks = {}
  BY <1>2 DEF AttachIInv
<1> QED
  BY <1>2, <1>3 DEF AttachIInv, Offered

(* What was in flight and what this turn sent has one age after the turn.  *)
LEMMA OneInFlight ==
  ASSUME TypeOK, AttachIInv, Prompt, NoWrap, Tick
  PROVE  /\ Unread \subseteq {Age'} /\ Older(acks) \subseteq {Age'}
         /\ Older(acks) = {} <=> acks = {}
         /\ attaches = 1 => Unread = {}
         /\ Age' \in Int
         /\ nextHello' < tick' + HelloRetry
<1>1. Age' = IF Offered THEN 0 ELSE Age + 1
  BY NoWrapInTick, RetryAssumption DEF Age, TypeOK
<1>2. nextHello' < tick' + HelloRetry
  BY NoWrapInTick, RetryAssumption DEF AttachIInv, TypeOK
<1>3. Age \in Int
  BY RetryAssumption DEF Age, TypeOK
<1>4. CASE Offered
  <2>1. hellos = {} /\ acks = {} /\ attaches = 0
    BY <1>4, OfferedAlone
  <2> QED
    BY <1>1, <1>2, <1>4, <2>1 DEF Unread, Older
<1>5. CASE ~Offered
  <2>1. Unread = Older(hellos)
    BY <1>5 DEF Unread
  <2> QED
    BY <1>1, <1>2, <1>3, <1>5, <2>1 DEF AttachIInv, Older
<1> QED
  BY <1>4, <1>5

LEMMA AttachTick ==
  ASSUME TypeOK, AttachIInv, Prompt, NoWrap, Tick
  PROVE  AttachIInv'
<1>1. PICK read \in SUBSET Unread :
        \E heard \in SUBSET (Older(acks) \cup read) : Exchanged(read, heard)
  BY DEF Tick
<1>2. PICK heard \in SUBSET (Older(acks) \cup read) : Exchanged(read, heard)
  BY <1>1
<1>3. tick' <= MaxTicks /\ nextHello' < tick' + HelloRetry
  BY NoWrapInTick, OneInFlight
<1>4. /\ hellos' \subseteq {Age'} /\ acks' \subseteq {Age'}
      /\ \A age \in hellos' \cup acks' : age < Latency
  BY <1>2, OneInFlight DEF Exchanged
<1>5. /\ attaches' \in {0, 1}
      /\ attaches' = 0 => acks' = {} /\ mode' = "Plain"
      /\ attaches' = 1 => hellos' = {} /\ (mode' = "Framed" \/ acks' = {Age'})
  <2>1. CASE read = {}
    <3>1. attaches' = attaches
      BY <1>2, <2>1, FS_EmptySet DEF Exchanged, TypeOK
    <3>2. CASE attaches = 0
      <4>1. Older(acks) = {} /\ mode = "Plain"
        BY <3>2, OneInFlight DEF AttachIInv
      <4> QED
        BY <1>2, <2>1, <3>1, <3>2, <4>1 DEF Exchanged
    <3>3. CASE attaches = 1
      <4>1. hellos' = {}
        BY <1>2, <3>3, OneInFlight DEF Exchanged
      <4>2. mode = "Framed" \/ Older(acks) = {Age'}
        BY <3>3, OneInFlight DEF AttachIInv
      <4>3. mode' = "Framed" \/ acks' = {Age'}
        <5>1. CASE heard = {}
          BY <1>2, <2>1, <4>2, <5>1 DEF Exchanged
        <5>2. CASE heard # {}
          BY <1>2, <5>2 DEF Exchanged
        <5> QED
          BY <5>1, <5>2
      <4> QED
        BY <3>1, <3>3, <4>1, <4>3
    <3> QED
      BY <3>2, <3>3 DEF AttachIInv
  <2>2. CASE read # {}
    <3>1. attaches = 0 /\ read = {Age'} /\ Unread = {Age'}
      BY <2>2, OneInFlight DEF AttachIInv
    <3>2. attaches' = 1
      <4>1. Cardinality({Age'}) = 1
        BY FS_Singleton
      <4>2. attaches' = attaches + Cardinality(read)
        BY <1>2 DEF Exchanged
      <4> QED
        BY <3>1, <4>1, <4>2
    <3>3. hellos' = {} /\ (mode' = "Framed" \/ acks' = {Age'})
      BY <1>2, <3>1, OneInFlight DEF Exchanged
    <3> QED
      BY <3>2, <3>3
  <2> QED
    BY <2>1, <2>2
<1>6. sinceOffer' = IF Age' + 1 < HelloRetry THEN Age' + 1 ELSE HelloRetry
  BY NoWrapInTick, RetryAssumption DEF AttachIInv, TypeOK, Tick, NextTick, Age
<1> QED
  BY <1>3, <1>4, <1>5, <1>6 DEF AttachIInv
LEMMA AttachNext ==
  ASSUME TypeOK, AttachIInv, Prompt, NoWrap, [Next]_vars
  PROVE  AttachIInv'
<1>1. CASE Tick
  BY <1>1, AttachTick
<1>2. CASE Boot
  BY <1>2 DEF Boot, AttachIInv, Age, session, history
<1>3. CASE Input
  BY <1>3 DEF Input, AttachIInv, Age, session, target
<1>4. CASE ConsoleRequest
  BY <1>4 DEF ConsoleRequest, AttachIInv, Age, session, target
<1>5. CASE UNCHANGED vars
  BY <1>5 DEF AttachIInv, Age, vars, session, target, history
<1> QED
  BY <1>1, <1>2, <1>3, <1>4, <1>5 DEF Next

(* A target that answers within the retry interval is attached to once,    *)
(* whatever the interval, the latency and the moment it boots.             *)
THEOREM AttachedOnce ==
  ASSUME Prompt, NoWrap
  PROVE  Spec => []AttachOnce
<1>1. TypeOK /\ AttachIInv /\ [Next]_vars => AttachIInv'
  BY AttachNext
<1>2. AttachIInv => AttachOnce
  BY DEF AttachIInv, AttachOnce
<1> QED
  BY TypeCorrect, AttachInit, <1>1, <1>2, PTL DEF Spec

(* And two HELLOs are the retry interval apart.                            *)
THEOREM HellosSpaced ==
  ASSUME Prompt, NoWrap
  PROVE  Spec => HelloSpacing
<1>1. TypeOK /\ AttachIInv /\ [Next]_vars => AttachIInv'
  BY AttachNext
<1>2. TypeOK /\ AttachIInv /\ [Next]_vars
        => [Tick /\ Offered => sinceOffer = HelloRetry]_vars
  BY OfferedAlone
<1> QED
  BY TypeCorrect, AttachInit, <1>1, <1>2, PTL DEF Spec, HelloSpacing
=============================================================================
