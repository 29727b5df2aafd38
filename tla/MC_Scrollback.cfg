SPECIFICATION Spec
CONSTANTS
  ScrollbackLimit = 3
  MaxLineBytes = 4
  Page = 2
  Widths = {40, 41}
  WindowHeights = {12, 13, 24}
  MaxPanes = 20
  MaxLines = 6
INVARIANTS
  TypeOK
  NewestShown
  PanesTile
