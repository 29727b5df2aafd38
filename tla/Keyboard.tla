------------------------------ MODULE Keyboard ------------------------------
(***************************************************************************)
(* Where a key goes (crates/swtos-input/src/dispatch.rs): a frontend       *)
(* command, the help overlay, copy mode, the debugger's console or the     *)
(* target, on top of the desktop these act on.  A click in the command     *)
(* menu is two keys in a row, the prefix and the command's, with nothing   *)
(* between them.                                                           *)
(*                                                                         *)
(* Keys are the names of Desktop's command keys and the ones below; what a *)
(* console line asks for is in Console.                                    *)
(***************************************************************************)
EXTENDS Desktop

CONSTANTS
  Modifiers,    \* Shift and the like, which a browser reports as keys.
  Motions,      \* Keys that move in copy mode, arrows and letters.
  MenuKeys      \* The commands the menu offers.

PrefixKey  == "Ctrl-B"
NoKey      == "no key"
Recoveries == {"k", "B"}            \* restart the shell, warm reboot
Escapes    == {"e"}                 \* a real Escape for the application
Plains     == {"a", "Enter"}        \* keys that mean nothing here
AllInputs  == Keys \cup Modifiers \cup Motions \cup Recoveries \cup Escapes
              \cup Plains \cup {PrefixKey}

ASSUME MenuAssumption == MenuKeys \subseteq AllInputs \ Modifiers

VARIABLES
  prefixArmed,  \* Input.prefix_armed
  clicked,      \* the menu command whose prefix has just been pressed
  output,       \* what the last key put on the wire: [what, channels]
  prefixed      \* history: the last key, modifiers aside, was the prefix

keyboard     == <<prefixArmed, clicked, output, prefixed>>
keyboardVars == <<vars, keyboard>>

Nothing == [what |-> "nothing", channels |-> {}]
Sent(what, channels) == [what |-> what, channels |-> channels]

KeyboardInit ==
  /\ Init
  /\ prefixArmed = FALSE /\ clicked = NoKey
  /\ output = Nothing /\ prefixed = FALSE

-----------------------------------------------------------------------------
(* The consumers of a key, in the order dispatch::key asks them.           *)

(* A bare modifier is dropped, armed or not.                               *)
Modifier(key) ==
  /\ key \in Modifiers
  /\ output' = Nothing
  /\ UNCHANGED <<vars, prefixArmed, prefixed>>

(* Mutant: the prefix stays armed after its command.                       *)
PrefixKept == prefixArmed

PrefixTaken == FALSE

(* The key of the command table that a key is there.                       *)
TableKey(key) ==
  IF key = PrefixKey THEN "b" ELSE IF key \in AllKeys THEN key ELSE "unbound"

ChannelsNow == {Focused.channel}

PrefixedCommand(key) ==
  /\ prefixArmed /\ key \notin Modifiers
  /\ prefixArmed' = PrefixTaken
  /\ \/ /\ key \in Escapes
        /\ output' = Sent("tty", ChannelsNow)
        /\ UNCHANGED vars
     \/ /\ key \in Recoveries
        /\ output' = Sent("raw", {})
        /\ DebuggerPrints
     \/ /\ key \notin Escapes \cup Recoveries
        /\ output' = Nothing
        /\ CommandKey(TableKey(key))
  /\ prefixed' = FALSE

ArmPrefix(key) ==
  /\ ~prefixArmed /\ key = PrefixKey
  /\ prefixArmed' = TRUE
  /\ output' = Nothing
  /\ prefixed' = TRUE
  /\ UNCHANGED vars

(* No prefix is in play: the key is itself.                                *)
Bare(key) ==
  /\ ~prefixArmed /\ key \notin Modifiers \cup {PrefixKey}
  /\ prefixed' = FALSE
  /\ UNCHANGED prefixArmed

Dismisses(key) == help /\ key \in {"q", "Escape", "?"}

DismissHelp(key) ==
  /\ Bare(key) /\ Dismisses(key)
  /\ output' = Nothing
  /\ CommandKey(key)

Leaves(key) == key \in {"q", "Escape"}

(* Mutant: copy mode claims the arrows only.                               *)
ClaimsArrows(key) == copyMode /\ key \in Motions \ Recoveries

Claims(key) == copyMode /\ (key \in Motions \/ Leaves(key))

CopyMotion(key) ==
  /\ Bare(key) /\ ~Dismisses(key) /\ Claims(key)
  /\ output' = Nothing
  /\ IF Leaves(key) THEN ToggleCopy ELSE UNCHANGED vars

(* A line may hold a debugger command, a command for the shell or !kill 1. *)
ConsoleKey(key) ==
  /\ Bare(key) /\ ~Dismisses(key) /\ ~Claims(key)
  /\ Focused.kind = "Debugger"
  /\ DebuggerPrints \/ (key # "Enter" /\ UNCHANGED vars)
  /\ output' \in {Nothing} \cup
       (IF key = "Enter"
        THEN {Sent("request", {}), Sent("raw", {}), Sent("tty", {ShellChannel})}
        ELSE {})

(* Echoed locally and sent.  A key without bytes is an empty echo.         *)
ToTarget(key) ==
  /\ Bare(key) /\ ~Dismisses(key) /\ ~Claims(key)
  /\ Focused.kind # "Debugger"
  /\ LocalEcho
  /\ output' \in {Nothing, Sent("tty", ChannelsNow)}

Handle(key) ==
  \/ Modifier(key)
  \/ PrefixedCommand(key)
  \/ ArmPrefix(key)
  \/ DismissHelp(key)
  \/ CopyMotion(key)
  \/ ConsoleKey(key)
  \/ ToTarget(key)

-----------------------------------------------------------------------------
(* Keys, clicks and frames.                                                *)

Key(key) == clicked = NoKey /\ Handle(key) /\ UNCHANGED clicked

(* menu_command: the two calls of dispatch::key.                           *)
MenuPrefix(key) == clicked = NoKey /\ Handle(PrefixKey) /\ clicked' = key

MenuCommand == clicked # NoKey /\ Handle(clicked) /\ clicked' = NoKey

FrameArrives ==
  /\ clicked = NoKey
  /\ TargetFrame \/ DebuggerPrints
  /\ UNCHANGED keyboard

KeyboardNext == \/ \E key \in AllInputs : Key(key)
                \/ \E key \in MenuKeys : MenuPrefix(key)
                \/ MenuCommand
                \/ FrameArrives

KeyboardSpec == KeyboardInit /\ [][KeyboardNext]_keyboardVars

-----------------------------------------------------------------------------
(* Properties.                                                             *)

Shape(d) == [focus |-> d.focus, kinds |-> [i \in DOMAIN d.panes |-> d.panes[i].kind]]

(* Each command needs a prefix of its own: outside the help overlay and    *)
(* copy mode a key that does not directly follow the prefix closes no      *)
(* pane, does not move the keyboard and switches no mode.                  *)
CommandsNeedPrefix ==
  [][(\E key \in AllInputs : Key(key)) /\ ~help /\ ~copyMode /\ ~prefixed =>
       Shape(desk)' = Shape(desk) /\ UNCHANGED modes]_keyboardVars

(* Copy mode claims navigation: scrolling does not type into the shell.    *)
ScrollingDoesNotType ==
  [][\A key \in Motions : copyMode /\ ~prefixArmed /\ Key(key) => output' = Nothing]_keyboardVars

-----------------------------------------------------------------------------
(* What the sources say and the code does not keep: TLC refutes it.        *)

(* A click means the command it names: it types nothing at the target.     *)
ClickTypesNothing == [][MenuCommand => output'.what # "tty"]_keyboardVars

(* The Debugger pane is no terminal: nothing is sent to its channel, where *)
(* the target has no TTY and discards it.                                  *)
NoTtyOnConsole == output.what = "tty" => DebuggerChannel \notin output.channels

(* Broadcast input reaches every pane that takes any.                      *)
BroadcastReachesAll ==
  [][broadcast /\ ToTarget("a") /\ output'.what = "tty" =>
       \A i \in DOMAIN panes :
         panes[i].kind # "Debugger" => panes[i].channel \in output'.channels]_keyboardVars
=============================================================================
