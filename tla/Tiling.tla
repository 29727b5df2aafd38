-------------------------------- MODULE Tiling --------------------------------
(***************************************************************************)
(* Where the panes go on the screen (render, draw_grid and draw_box of     *)
(* crates/swtos-frontend/src/ui.rs).  Drawing is a function of the window, *)
(* the number of panes and whether one is zoomed; it has no state of its   *)
(* own.  Rows and columns are those of the canvas, from zero; the last     *)
(* line of the window is the status line.                                  *)
(***************************************************************************)
EXTENDS Integers, FiniteSetsExt

CONSTANTS
  Widths, WindowHeights,  \* Sizes the page asks for: the fixed ones, and those
                          \* that fit() measures, clamped.
  MaxPanes                \* Bound on the panes.

ASSUME SizeAssumption  == Widths \subseteq Nat /\ WindowHeights \subseteq Nat
ASSUME PanesAssumption == MaxPanes \in Nat /\ MaxPanes >= 3

InitialPanes == 3   \* Shell, Application, Debugger

(* The last pane is never closed.                                          *)
Screens == [width : Widths, height : WindowHeights, panes : 1..MaxPanes]

Width(s)      == Max({s.width, 24})
BodyHeight(s) == Max({s.height, 8}) - 2

-----------------------------------------------------------------------------
(* The grid: one rule above each row of panes, one bar between columns.    *)

Columns(s)  == IF s.panes <= 1 THEN 1 ELSE 2
GridRows(s) == (s.panes + Columns(s) - 1) \div Columns(s)

(* Nothing is drawn when the rules alone would fill the canvas.            *)
Tiled(s) == BodyHeight(s) > GridRows(s)

(* Mutant: an even share, whatever remains.                                *)
EvenShare(total, parts, k) == total \div parts

Share(total, parts, k) == ((k + 1) * total) \div parts - (k * total) \div parts

ContentHeight(s, row)  == Share(BodyHeight(s) - GridRows(s), GridRows(s), row)
ColumnWidth(s, column) == Share(Width(s) - (Columns(s) - 1), Columns(s), column)

RuleAt(s, row) ==
  LET y[r \in 0..row] == IF r = 0 THEN 0 ELSE y[r - 1] + 1 + ContentHeight(s, r - 1)
  IN  y[row]

(* The bar before a column is at the position left of it.                  *)
ColumnAt(s, column) ==
  LET x[c \in 0..column] == IF c = 0 THEN 0 ELSE x[c - 1] + 1 + ColumnWidth(s, c - 1)
  IN  x[column]

-----------------------------------------------------------------------------
(* A pane's text: the height visible_lines is asked for, and the rows that *)
(* are there for it.                                                       *)

(* draw_pane_content: the rows from y to the end of the canvas.            *)
GridPlace(s, row) ==
  [asked |-> ContentHeight(s, row),
   rows  |-> Min({ContentHeight(s, row), BodyHeight(s) - (RuleAt(s, row) + 1)})]

(* draw_pane and draw_box: a zoomed pane, between the edges of its box.    *)
BoxPlace(s) ==
  LET bottom == BodyHeight(s) - 1
  IN  [asked |-> BodyHeight(s) - 2, rows |-> bottom - 1]

(* Where a pane may be drawn: zoomed, or in a row of the grid.             *)
Places(s) ==
  {BoxPlace(s)} \cup
  {GridPlace(s, row) : row \in {r \in 0..(GridRows(s) - 1) : Tiled(s)}}

(* The help overlay is a box over the whole body.                          *)
HelpLines    == 10
HelpShown(s) == Min({HelpLines, BoxPlace(s).rows})

-----------------------------------------------------------------------------
(* What a grid should be.                                                  *)

(* The last row and the last column end where the canvas does, and none    *)
(* before them has a negative size.                                        *)
EndsMeet(s) ==
  /\ RuleAt(s, GridRows(s)) = BodyHeight(s)
  /\ ColumnAt(s, Columns(s)) - 1 = Width(s)
  /\ \A row \in 0..(GridRows(s) - 1) : ContentHeight(s, row) >= 0
  /\ \A column \in 0..(Columns(s) - 1) : ColumnWidth(s, column) >= 0

(* No row of panes is more than a line taller than another.                *)
FairlyShared(s) ==
  \A r, q \in 0..(GridRows(s) - 1) : ContentHeight(s, r) <= ContentHeight(s, q) + 1
=============================================================================
