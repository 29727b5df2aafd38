SPECIFICATION Spec
CONSTANTS
  Channels = {0}
  Names = {}
  NoName = "-"
  AbsentMax = 2
  Keys = {"digit", "n", "p", "x", "l", "S", "c", "z", "y", "w", "b", "q", "Escape", "?", "unbound"}
INVARIANTS
  TypeOK
  PanesUnique
  ShellOutputReachesShell
PROPERTIES
  FramesKeepKeyboard
  RestoreIsCanonical
  SweepClosesEnded
