SPECIFICATION FairSpec
CONSTANTS
  Bodies = {a, b}
  GenMod = 2
  MaxSent = 5
  MaxLost = 3
  MaxRewinds = 1
INVARIANTS
  TypeOK
  PublishedWhole
PROPERTIES
  WritesWholeTables
  PublishedInTheEnd
CHECK_DEADLOCK FALSE
