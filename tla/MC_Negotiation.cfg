SPECIFICATION FairSpec
CONSTANTS
  HelloRetry = 25
  Periodic = 25
  TickMod = 160
  MaxTicks = 160
  BootBy = 80
  Latency = 24
INVARIANTS
  TypeOK
  AttachOnce
  FramesOnlyWhenFramed
PROPERTIES
  HelloSpacing
  EventuallyFramed
