----------------------------- MODULE Negotiation -----------------------------
(***************************************************************************)
(* From a plain link to a framed one: the session's tick (driver.rs and    *)
(* sending.rs of crates/swtos-session) against a target that boots late    *)
(* and answers late.                                                       *)
(*                                                                         *)
(* Each tick the session offers a HELLO if it is still plain and the retry *)
(* is due, sends its periodic traffic if it is framed, runs the target for *)
(* a while and reads what came back.  The target is external (the image in *)
(* assets/): a HELLO it reads makes it framed and, repeated or not, is an  *)
(* attach that restarts the menu and is acknowledged.  It reads a HELLO    *)
(* and finishes the acknowledgement within Latency ticks of the offer.     *)
(* Fragments of an acknowledgement are the decoder's business: here an ACK *)
(* counts when its last byte is in.                                        *)
(***************************************************************************)
EXTENDS Naturals, FiniteSets

CONSTANTS
  HelloRetry,  \* Ticks between HELLO attempts (25).
  Periodic,    \* Ticks between time frames and resource requests (25).
  TickMod,     \* The session's tick is a u32: 2^32.
  MaxTicks,    \* Bound: no tick is run once the counter is here.
  BootBy,      \* Bound: the target listens before this tick is run.
  Latency      \* The target's answer is in this many ticks after the offer.

ASSUME RetryAssumption   == HelloRetry \in Nat \ {0} /\ Periodic \in Nat \ {0}
ASSUME TickAssumption    == TickMod \in Nat /\ TickMod > HelloRetry
ASSUME BoundAssumption   == MaxTicks \in Nat /\ MaxTicks <= TickMod /\ BootBy \in Nat
ASSUME LatencyAssumption == Latency \in Nat

VARIABLES
  tick,        \* Session.tick
  nextHello,   \* Transport.next_hello
  mode,        \* ConnectionDecoder.mode
  greeted,     \* Session.greeted
  up, framed,  \* the target listens; the target is in framed mode
  hellos,      \* ages in ticks of the HELLOs the target has not read
  acks,        \* ages of those it has read and not finished answering
  (* History, for the properties. *)
  attaches,    \* HELLOs the target has read
  greetings,   \* greetings sent
  early,       \* kinds of frame, HELLO apart, sent while the target is plain
  sinceOffer   \* ticks since the last HELLO, to HelloRetry

session == <<tick, nextHello, mode, greeted>>
target  == <<up, framed, hellos, acks>>
history == <<attaches, greetings, early, sinceOffer>>
vars    == <<session, target, history>>

Init ==
  /\ tick = 0 /\ nextHello = 0
  /\ mode = "Plain"
  /\ greeted = FALSE
  /\ up = FALSE /\ framed = FALSE
  /\ hellos = {} /\ acks = {}
  /\ attaches = 0 /\ greetings = 0
  /\ early = {}
  /\ sinceOffer = HelloRetry

-----------------------------------------------------------------------------
(* Mutant: the retry is never scheduled.                                   *)
OfferedAlways == mode = "Plain"

(* Mutant: HELLO is offered once and never again.                          *)
OfferedOnce == mode = "Plain" /\ nextHello = 0

Offered == mode = "Plain" /\ tick >= nextHello

Due == tick % Periodic = 0

(* Mutant: the periodic requests are sent before the framed guard.         *)
SentUnguarded == (IF mode = "Framed" /\ ~greeted THEN {"identity"} ELSE {})
                 \cup (IF Due THEN {"time", "resources"} ELSE {})

(* The frames of one tick besides HELLO.                                   *)
Sent == (IF mode = "Framed" /\ ~greeted THEN {"identity"} ELSE {})
        \cup (IF mode = "Framed" /\ Due THEN {"time", "resources"} ELSE {})

(* Mutant: the next tick retries.                                          *)
NextHelloEarly == IF Offered THEN nextHello + 1 ELSE nextHello

(* Mutant: the tick runs on past the width of its counter.                 *)
NextTickUnwrapped == tick + 1

NextTick == (tick + 1) % TickMod

NextHello == IF Offered THEN (tick + HelloRetry) % TickMod ELSE nextHello

(* Mutant: the greeting is not remembered.                                 *)
GreetedNever == FALSE

Greeted == greeted \/ mode = "Framed"

Older(ages) == {age + 1 : age \in ages}

(* The HELLOs the target may read in this turn.                            *)
Unread == Older(hellos) \cup {age \in {0} : Offered /\ up}

(* The target reads some of them, and the acknowledgements heard are in.   *)
(* Whatever it has left is not late yet.                                   *)
Exchanged(read, heard) ==
  /\ hellos' = Unread \ read
  /\ acks' = (Older(acks) \cup read) \ heard
  /\ \A age \in hellos' \cup acks' : age < Latency
  /\ framed' = (framed \/ read # {})
  /\ attaches' = attaches + Cardinality(read)
  /\ mode' = IF heard # {} THEN "Framed" ELSE mode

(* One turn of driver::run.                                                *)
Tick ==
  /\ tick < MaxTicks /\ (up \/ tick < BootBy)
  /\ tick' = NextTick
  /\ nextHello' = NextHello
  /\ greeted' = Greeted
  /\ greetings' = IF mode = "Framed" /\ ~greeted THEN greetings + 1 ELSE greetings
  /\ early' = IF framed THEN early ELSE early \cup Sent
  /\ sinceOffer' = IF Offered THEN 1
                   ELSE IF sinceOffer < HelloRetry THEN sinceOffer + 1 ELSE sinceOffer
  /\ \E read \in SUBSET Unread :
       \E heard \in SUBSET (Older(acks) \cup read) : Exchanged(read, heard)
  /\ UNCHANGED up

(* The target begins to listen; a HELLO sent before is lost.               *)
Boot ==
  /\ ~up
  /\ up' = TRUE
  /\ UNCHANGED <<session, framed, hellos, acks, history>>

InputIsFramed == mode = "Framed"

(* A key for a channel, between two ticks: raw while plain, else framed.   *)
Input ==
  /\ early' = IF InputIsFramed /\ ~framed THEN early \cup {"input"} ELSE early
  /\ UNCHANGED <<session, target, attaches, greetings, sinceOffer>>

(* A command of the debugger's console that asks the target something.     *)
(* Its request is framed in either mode.                                   *)
ConsoleRequest ==
  /\ early' = IF framed THEN early ELSE early \cup {"debug"}
  /\ UNCHANGED <<session, target, attaches, greetings, sinceOffer>>

Next == Tick \/ Boot \/ Input \/ ConsoleRequest

(* The browser re-arms its timer after every turn, and the target boots.   *)
Fairness == WF_vars(Tick) /\ WF_vars(Boot)

Spec     == Init /\ [][Next]_vars
FairSpec == Spec /\ Fairness

-----------------------------------------------------------------------------
(* Properties.                                                             *)

(* Every variable has its type.                                            *)
TypeOK ==
  /\ tick \in 0..(TickMod - 1)
  /\ nextHello \in 0..(TickMod - 1)
  /\ mode \in {"Plain", "Framed"}
  /\ greeted \in BOOLEAN
  /\ up \in BOOLEAN /\ framed \in BOOLEAN
  /\ hellos \in SUBSET (0..Latency) /\ acks \in SUBSET (0..Latency)
  /\ attaches \in Nat /\ greetings \in Nat
  /\ early \subseteq {"identity", "time", "resources", "input", "debug"}
  /\ sinceOffer \in 1..HelloRetry

(* A target that answers within the retry interval is attached to once:    *)
(* no retry is sent while its answer is on the way, and none after.  A     *)
(* second attach would rerun autostart and print the menu again.           *)
AttachOnce == attaches <= 1

(* The session believes the link framed only when the target does, and     *)
(* neither its periodic requests nor its greeting nor framed input is ever *)
(* sent to a target that is still plain.                                   *)
FramesOnlyWhenFramed == (mode = "Framed" => framed) /\ early \subseteq {"debug"}

(* The debugger greets once, and only on a framed link.                    *)
GreetOnce == greetings <= 1 /\ (greetings = 1 => mode = "Framed")

(* Two HELLOs are HelloRetry ticks apart, as the retry's comment says.     *)
HelloSpacing == [][Tick /\ Offered => sinceOffer = HelloRetry]_vars

(* A target that boots, however late, is negotiated with and greeted.      *)
EventuallyFramed == <>[](mode = "Framed" /\ greeted)
=============================================================================
