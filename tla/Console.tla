------------------------------- MODULE Console -------------------------------
(***************************************************************************)
(* The Debugger pane's console (debugger.rs of crates/swtos-session and    *)
(* DebugConsole of crates/swtos-frontend/src/debug.rs) against a target    *)
(* that answers late, in several frames, or not at all.                    *)
(*                                                                         *)
(* A line is typed and entered, its request goes out, and frames come back *)
(* between any two lines.  Three things are inferred from bare frames,     *)
(* which carry no request's number: whether the last request is still      *)
(* unanswered, when its answer is complete and a prompt may follow, and    *)
(* whether bytes that were read are to be shown as instructions.  A bare   *)
(* list carries on from the last, whatever came between.                   *)
(*                                                                         *)
(* Time: frames of one answer are spaced in ticks of the emulator, the     *)
(* prompt waits in milliseconds of the page's clock, and how far the clock *)
(* moves from one tick to the next is the browser's affair.                *)
(***************************************************************************)
EXTENDS DebugMap

CONSTANTS
  Addresses,    \* Addresses x and dis are given.
  Lengths,      \* Numbers of bytes x is asked for.
  Counts,       \* Numbers of instructions dis is asked for.
  Locations,    \* Addresses list is given, in hex, by symbol or by line.
  MaxRequests,  \* Bound on the requests the person makes.
  MaxFrames,    \* The most frames one answer comes in.
  Gap,          \* Ticks from a frame of an answer to its next, at most.
  PromptAfter,  \* PROMPT_AFTER, in units of the clock.
  MaxAdvance    \* How far the clock moves in a tick, at most.

ASSUME BoundAssumption  == MaxRequests \in Nat /\ MaxFrames \in Nat \ {0}
ASSUME TimingAssumption == /\ Gap \in Nat \ {0}
                           /\ PromptAfter \in Nat \ {0}
                           /\ MaxAdvance \in Nat

NoAddress == -1
NoCount   == -1
NoPrompt  == -1
Greeting  == 0          \* the number of the greeting's identity request
ASSUME AddressAssumption ==
  /\ Addresses \subseteq Nat /\ Locations \subseteq Nat
  /\ Lengths \subseteq 1..Window /\ Counts \subseteq 0..Window

VARIABLES
  awaiting,     \* Console.awaiting
  promptIn,     \* prompt_due less the clock, or NoPrompt
  disassembly,  \* DebugConsole.pending_disassembly: <<address, count>>
  nextListing,  \* DebugConsole.next_listing, or Nowhere
  loaded,       \* the debug map is in
  identified,   \* the target's build is known (and is the map's)
  greeted,      \* Session.greeted
  pipe,         \* answers to come: [id, kind, address, length, frames]
  quiet,        \* ticks since the last frame of an answer half in, else 0
  (* History, for the properties. *)
  tail,         \* what the pane shows last: "prompt", "reply" or "lines"
  asked,        \* the last request of the person
  answered,     \* requests that at least one frame has answered
  dropped,      \* requests the console has said have no reply
  decoded,      \* addresses dis has read
  listed,       \* index of the instruction listed last, or 0
  shown         \* memory: <<asked as, address, shown as, bytes shown, read>>

pane    == <<awaiting, promptIn, disassembly, nextListing, loaded, identified, greeted>>
wire    == <<pipe, quiet>>
listing == <<nextListing, listed>>
history == <<tail, asked, answered, dropped, decoded, listed, shown>>
vars    == <<pane, wire, history>>

Init ==
  /\ awaiting = 0 /\ promptIn = NoPrompt /\ disassembly = <<NoAddress, NoCount>>
  /\ loaded = FALSE /\ identified = FALSE /\ greeted = FALSE
  /\ nextListing = Nowhere /\ listed = 0
  /\ pipe = <<>> /\ quiet = 0
  /\ tail = "lines" /\ asked = Greeting
  /\ answered = {} /\ dropped = {} /\ decoded = {} /\ shown = {}

-----------------------------------------------------------------------------
(* Lines.                                                                  *)

(* Mutant: a request is remembered until its own reply, warned of or not.  *)
WarnedKeeps == awaiting

(* Entering a line gives up what is awaited, after saying so.              *)
Warned == 0

Entered ==
  /\ dropped' = IF awaiting > 0 THEN dropped \cup {asked} ELSE dropped
  /\ promptIn' = NoPrompt
  /\ UNCHANGED <<loaded, identified, greeted, quiet, answered, shown>>

(* A line answered here (dis inside the image is one), refused, or handed  *)
(* to the shell with !.                                                    *)
AnsweredHere ==
  /\ Entered
  /\ awaiting' = Warned
  /\ tail' = "prompt"
  /\ UNCHANGED <<disassembly, pipe, asked, decoded>>

LocalLine == AnsweredHere /\ UNCHANGED listing

Matched == loaded /\ identified

(* list: the line of one instruction, or an error that changes nothing.    *)
Lists(address) ==
  /\ AnsweredHere
  /\ IF Matched /\ Listed(address) # {}
     THEN \E i \in Listed(address) : nextListing' = NextListing(i) /\ listed' = i
     ELSE UNCHANGED listing

List(location) == Lists(location)

(* A bare list.                                                            *)
ListOn == IF nextListing = Nowhere THEN LocalLine ELSE Lists(nextListing)

(* A line that asks the target.  Registers may be answered by silence.     *)
Asks(kind, address, length, frames) ==
  /\ asked < MaxRequests
  /\ Entered
  /\ asked' = asked + 1
  /\ awaiting' = Warned + 1
  /\ pipe' = IF frames = 0 THEN pipe
             ELSE Append(pipe, [id |-> asked + 1, kind |-> kind, address |-> address,
                                length |-> length, frames |-> frames])
  /\ tail' = "lines"
  /\ UNCHANGED listing

Registers == \E frames \in {0, MaxFrames} :
  /\ Asks("status", NoAddress, 0, frames)
  /\ UNCHANGED <<disassembly, decoded>>

Status ==
  /\ Asks("status", NoAddress, 0, 1)
  /\ UNCHANGED <<disassembly, decoded>>

ReadMemory(address, length) ==
  /\ Asks("memory", address, length, 1)
  /\ UNCHANGED <<disassembly, decoded>>

(* dis of what the map has nothing to show for, or of no instruction at    *)
(* all, reads the bytes and remembers what they are for.                   *)
Disassemble(address, count) ==
  /\ Matched
  /\ count = 0 \/ Following(address) = {}
  /\ Asks("dis", address, Window, 1)
  /\ disassembly' = <<address, count>>
  /\ decoded' = decoded \cup {address}

-----------------------------------------------------------------------------
(* Frames and ticks.                                                       *)

Head1 == Head(pipe)

(* Mutant: the reply's address is not compared.                            *)
AsInstructionsAnyway == disassembly[1] # NoAddress

AsInstructions == disassembly[1] = Head1.address

IsMemory == Head1.kind \in {"memory", "dis"}

(* Mutant: a prompt already owed is not pushed out.                        *)
DueKept == IF promptIn = NoPrompt THEN PromptAfter ELSE promptIn

Due == PromptAfter

(* Mutant: a reply does not count.                                         *)
RepliedNever == awaiting

Replied == IF awaiting > 0 THEN awaiting - 1 ELSE 0

(* DEBUG_RESPONSE.                                                         *)
Response ==
  /\ pipe # <<>>
  /\ awaiting' = Replied
  /\ answered' = answered \cup {Head1.id}
  /\ disassembly' = IF IsMemory THEN <<NoAddress, NoCount>> ELSE disassembly
  /\ shown' = IF ~IsMemory THEN shown
              ELSE shown \cup
                   {IF AsInstructions
                    THEN <<Head1.kind, Head1.address, "dis",
                           DecodedAfter(Head1.address, Head1.length)[disassembly[2]],
                           Head1.length>>
                    ELSE <<Head1.kind, Head1.address, "memory", Head1.length, Head1.length>>}
  /\ identified' = (identified \/ Head1.kind = "identity")
  /\ pipe' = IF Head1.frames = 1 THEN Tail(pipe)
             ELSE [pipe EXCEPT ![1].frames = @ - 1]
  /\ quiet' = IF Head1.frames = 1 THEN 0 ELSE 1

NoResponse ==
  /\ quiet < Gap
  /\ quiet' = IF quiet = 0 THEN 0 ELSE quiet + 1
  /\ UNCHANGED <<awaiting, disassembly, identified, pipe, answered, shown>>

(* Mutant: the prompt is only looked at when a frame has come.             *)
PromptIfDueOnFrame(at) == at = 0 /\ pipe' # pipe

PromptIfDue(at) == at = 0

(* What is left of the wait for the prompt.                                *)
Left(advance) == IF promptIn = NoPrompt THEN NoPrompt
                 ELSE IF promptIn > advance THEN promptIn - advance ELSE 0

(* One turn of driver::run: what came in is routed, then the prompt is     *)
(* printed if it is due.                                                   *)
Turn(advance) ==
  LET at == IF pipe' # pipe THEN Due ELSE Left(advance)
  IN  /\ Response \/ NoResponse
      /\ promptIn' = IF PromptIfDue(at) THEN NoPrompt ELSE at
      /\ tail' = IF PromptIfDue(at) THEN "prompt"
                 ELSE IF pipe' # pipe THEN "reply" ELSE tail
      /\ UNCHANGED <<loaded, greeted, asked, dropped, decoded, listing>>

(* greet_once: the command list, a prompt and the identity request.        *)
Greet ==
  /\ ~greeted
  /\ greeted' = TRUE
  /\ pipe' = Append(pipe, [id |-> Greeting, kind |-> "identity", address |-> NoAddress,
                           length |-> 0, frames |-> 1])
  /\ tail' = "prompt"
  /\ UNCHANGED <<awaiting, promptIn, disassembly, loaded, identified, quiet,
                 asked, answered, dropped, decoded, listing, shown>>

(* The target says it was rewound: the command list again, and a prompt.   *)
Rewound ==
  /\ tail' = "prompt"
  /\ UNCHANGED <<pane, wire, asked, answered, dropped, decoded, listed, shown>>

(* The debug map has been fetched, and may not be one.                     *)
LoadMap ==
  /\ ~loaded
  /\ loaded' \in BOOLEAN
  /\ tail' = "lines"
  /\ UNCHANGED <<awaiting, promptIn, disassembly, identified, greeted, wire,
                 asked, answered, dropped, decoded, listing, shown>>

Turns == \E advance \in 0..MaxAdvance : Turn(advance)

Lines == \/ LocalLine
         \/ Registers
         \/ Status
         \/ \E address \in Addresses, length \in Lengths : ReadMemory(address, length)
         \/ \E address \in Addresses, count \in Counts : Disassemble(address, count)
         \/ \E location \in Locations : List(location)
         \/ ListOn

Next == Turns \/ Lines \/ Greet \/ Rewound \/ LoadMap

(* The page re-arms its timer after every turn, and its clock moves on.    *)
Fairness == WF_vars(\E advance \in 1..MaxAdvance : Turn(advance))

Spec     == Init /\ [][Next]_vars
FairSpec == Spec /\ Fairness

-----------------------------------------------------------------------------
(* Properties.                                                             *)

(* Every variable has its type.  A line is entered with at most one        *)
(* request awaited, for entering it gives up the one before.  No more is   *)
(* decoded than was read: the code slices the bytes unchecked.             *)
TypeOK ==
  /\ awaiting \in 0..1
  /\ promptIn = NoPrompt \/ promptIn \in 0..PromptAfter
  /\ disassembly \in (Addresses \X Counts) \cup {<<NoAddress, NoCount>>}
  /\ nextListing \in Nat \cup {Nowhere} /\ listed \in 0..Len(Instructions)
  /\ loaded \in BOOLEAN /\ identified \in BOOLEAN /\ greeted \in BOOLEAN
  /\ pipe \in Seq([id : 0..MaxRequests, kind : {"identity", "status", "memory", "dis"},
                   address : Addresses \cup {NoAddress}, length : 0..Window,
                   frames : 1..MaxFrames])
  /\ quiet \in 0..Gap
  /\ tail \in {"prompt", "reply", "lines"}
  /\ asked \in 0..MaxRequests
  /\ answered \subseteq 0..MaxRequests /\ dropped \subseteq 0..MaxRequests
  /\ decoded \subseteq Addresses
  /\ shown \subseteq {"memory", "dis"} \X Addresses \X {"memory", "dis"}
                         \X (0..Window) \X (0..Window)
  /\ \A reply \in shown : reply[4] <= reply[5]

(* "(no reply to the previous request ...)" is printed only when the last  *)
(* request the person made has had no reply.                               *)
WarnedUnanswered ==
  [][\A id \in dropped' \ dropped : id # Greeting /\ id \notin answered]_vars

(* What the prompt of a reply is for: it is not printed between two frames *)
(* of one answer.                                                          *)
PromptAfterFrames ==
  [][Turns /\ tail # "prompt" /\ tail' = "prompt" => quiet' = 0]_vars

(* A reply does not stay the last thing in the pane, whether or not more   *)
(* frames come: a prompt follows it, unless another line does.             *)
PromptComes == tail = "reply" ~> tail # "reply"

(* Bytes asked for with x are not shown as instructions, unless dis was    *)
(* asked of the same address too.                                          *)
HexStaysHex ==
  \A reply \in shown : reply[1] = "memory" /\ reply[3] = "dis" => reply[2] \in decoded

(* list (carries on): a bare list shows the next instruction after the one *)
(* listed last, wherever in it the location fell and whatever was typed    *)
(* and answered since, none left out and none twice.                       *)
ListCarriesOn ==
  [][Matched /\ listed # 0 /\ ListOn =>
       listed' = IF listed = Len(Instructions) THEN listed ELSE listed + 1]_vars

-----------------------------------------------------------------------------
(* What the sources say and the code does not keep: TLC refutes it.        *)

(* The reply to a dis is rendered as instructions rather than as a hex     *)
(* dump.                                                                   *)
DisassemblyShown == \A reply \in shown : reply[1] = "dis" => reply[3] = "dis"

(* A request with no reply yet is counted, until the console has said so.  *)
UnansweredIsAwaited ==
  asked # Greeting /\ asked \notin answered \cup dropped => awaiting = 1
=============================================================================
