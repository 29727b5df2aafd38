------------------------------ MODULE Scrollback ------------------------------
(***************************************************************************)
(* The text of one pane (Pane of crates/swtos-frontend/src/ui.rs): the     *)
(* completed lines, the line being assembled, and how far copy mode has    *)
(* scrolled back, while output keeps arriving, other panes come and go and *)
(* the window is resized.  The lines are numbered as they are completed,   *)
(* and the partial line is the widths in bytes of its characters: a byte   *)
(* that is not printable is stored as U+FFFD, three bytes wide.            *)
(***************************************************************************)
EXTENDS Tiling, Sequences, SequencesExt

CONSTANTS
  ScrollbackLimit,  \* scrollback_limit: completed lines kept.
  MaxLineBytes,     \* MAX_LINE_BYTES: a longer partial line is broken.
  Page,             \* Lines PageUp and PageDown move by.
  MaxLines          \* Bound on the lines that are completed.

ASSUME LimitAssumption == ScrollbackLimit \in Nat \ {0} /\ MaxLineBytes \in Nat \ {0}
ASSUME ViewAssumption  == Page \in Nat \ {0}
ASSUME BoundAssumption == MaxLines \in Nat

VARIABLES
  lines,     \* Pane.lines
  current,   \* Pane.current
  offset,    \* Pane.scroll_offset
  copying,   \* Desktop.copy_mode
  screen,    \* the window, and the number of panes that share it
  completed  \* history: the number of the last completed line

view == <<copying, screen>>
text == <<lines, current, offset, copying, completed>>
vars == <<lines, current, offset, view, completed>>

Init ==
  /\ lines = <<>> /\ current = <<>>
  /\ offset = 0 /\ copying = FALSE
  /\ screen \in {s \in Screens : s.panes = InitialPanes}
  /\ completed = 0

-----------------------------------------------------------------------------
(* Output.                                                                 *)

(* The length of String: two bytes more for each U+FFFD.                   *)
Bytes(line) == Len(line) + 2 * Cardinality({i \in DOMAIN line : line[i] = 3})

(* Mutant: the oldest line is evicted a line too late.                     *)
EvictedLate(s) == IF Len(s) > ScrollbackLimit + 1 THEN Tail(s) ELSE s

Evicted(s) == IF Len(s) > ScrollbackLimit THEN Tail(s) ELSE s

FinishLine ==
  /\ completed < MaxLines
  /\ completed' = completed + 1
  /\ lines' = Evicted(Append(lines, completed'))
  /\ current' = <<>>

TooLong(line) == Bytes(line) >= MaxLineBytes

(* What a byte makes of the partial line, which is broken if too long.     *)
Assembled(line) ==
  IF TooLong(line) THEN FinishLine
                   ELSE current' = line /\ UNCHANGED <<lines, completed>>

Newline == FinishLine /\ UNCHANGED <<offset, view>>

CarriageReturn ==
  current' = <<>> /\ UNCHANGED <<lines, offset, view, completed>>

Backspace ==
  /\ current' = IF current = <<>> THEN current ELSE Front(current)
  /\ UNCHANGED <<lines, offset, view, completed>>

Character(width) ==
  Assembled(Append(current, width)) /\ UNCHANGED <<offset, view>>

(* Mutant: the view is left where it was.                                  *)
OffsetKept == offset

OffsetCleared == 0

(* A form feed from the program, l from the person, and a channel opened   *)
(* again by the target empty the pane alike.                               *)
Emptied ==
  /\ lines' = <<>> /\ current' = <<>>
  /\ offset' = OffsetCleared
  /\ UNCHANGED <<view, completed>>

-----------------------------------------------------------------------------
(* Copy mode.                                                              *)

Clamped(n) == IF n < 0 THEN 0 ELSE IF n > Len(lines) THEN Len(lines) ELSE n

ScrolledTo(n) ==
  /\ copying
  /\ offset' = n
  /\ UNCHANGED <<lines, current, view, completed>>

CopyMove == \E by \in {1, -1, Page, -Page} : ScrolledTo(Clamped(offset + by))

CopyHome == ScrolledTo(Len(lines))
CopyEnd  == ScrolledTo(0)

ToggleCopy ==
  copying' = ~copying /\ UNCHANGED <<lines, current, offset, screen, completed>>

-----------------------------------------------------------------------------
(* The screen.                                                             *)

Redrawn(s) == s \in Screens /\ screen' = s /\ UNCHANGED text

Resize == \E width \in Widths, height \in WindowHeights :
            Redrawn([screen EXCEPT !.width = width, !.height = height])

(* Another pane is opened, or closed.                                      *)
PaneOpens  == Redrawn([screen EXCEPT !.panes = @ + 1])
PaneCloses == Redrawn([screen EXCEPT !.panes = @ - 1])

Next == \/ Newline
        \/ CarriageReturn
        \/ Backspace
        \/ \E width \in {1, 3} : Character(width)
        \/ Emptied
        \/ CopyMove
        \/ CopyHome
        \/ CopyEnd
        \/ ToggleCopy
        \/ Resize
        \/ PaneOpens
        \/ PaneCloses

Spec == Init /\ [][Next]_vars

-----------------------------------------------------------------------------
(* What is drawn at a height: the completed lines, by number, and Partial  *)
(* for the partial line.                                                   *)

Partial == 0

Less(a, b) == IF a > b THEN a - b ELSE 0

(* Mutant: the partial line is given no row of its own.                    *)
RowsForAll(height) == height

RowsForComplete(height) == Less(height, IF current = <<>> THEN 0 ELSE 1)

VisibleLines(height) ==
  LET end   == Less(Len(lines), offset)
      start == Less(end, RowsForComplete(height))
      shown == SubSeq(lines, start + 1, end)
  IN  IF offset = 0 /\ current # <<>> /\ Len(shown) < height
      THEN Append(shown, Partial) ELSE shown

-----------------------------------------------------------------------------
(* Properties.                                                             *)

(* Every variable has its type.  A pane holds at most the scrollback's     *)
(* lines and a partial line of less than the limit, however much is        *)
(* printed and however little of it is newlines.  The scroll offset is     *)
(* never beyond the lines left after eviction, a form feed, l or a new     *)
(* program on the channel: visible_lines takes a range computed from it.   *)
TypeOK ==
  /\ lines \in Seq(1..MaxLines) /\ Len(lines) <= ScrollbackLimit
  /\ current \in Seq({1, 3}) /\ Bytes(current) < MaxLineBytes
  /\ offset \in 0..Len(lines)
  /\ copying \in BOOLEAN
  /\ screen \in Screens
  /\ completed \in 0..MaxLines

(* A pane that is not scrolled back shows what was printed last, wherever  *)
(* it is drawn: zoomed or in the grid, its lines fill the rows that are    *)
(* there for it from the top, and the newest is still one of them.         *)
NewestShown ==
  \A place \in Places(screen) :
    LET shown == VisibleLines(place.asked) IN
    place.asked > 0 =>
      /\ Len(shown) <= place.rows
      /\ offset = 0 /\ current # <<>> => shown # <<>> /\ Last(shown) = Partial
      /\ offset = 0 /\ current = <<>> /\ lines # <<>> => Last(shown) = completed

(* The grid is laid out by running sums of rounded shares, and what is     *)
(* off the canvas is skipped without a word: at every size and with every  *)
(* number of panes the grid has a place for, no pane, rule or bar loses a  *)
(* line or a column to another one or to the edge of the screen.           *)
PanesTile ==
  Tiled(screen) => EndsMeet(screen) /\ FairlyShared(screen)

-----------------------------------------------------------------------------
(* What the sources say and the code does not keep: TLC refutes it.        *)

(* g jumps to the oldest line: it is on the screen, at the top.            *)
JumpShowsEnd ==
  [][CopyHome /\ lines # <<>> =>
       \A place \in Places(screen) : place.asked > 0 =>
         /\ VisibleLines(place.asked)' # <<>>
         /\ Head(VisibleLines(place.asked)') = lines[1]]_vars

(* The help overlay says how to close it, on its last line.                *)
HelpSaysHowToLeave == HelpShown(screen) = HelpLines
=============================================================================
