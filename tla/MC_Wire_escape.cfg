SPECIFICATION Spec
CONSTANTS
  Texts <- Line
  Seconds = {3930}
  MaxPayload = 2
  HelloRetry = 1
  Periodic = 1
  RingSize = 2
  MaxTicks = 2
  MaxSends = 2
  MaxOutput = 1
INVARIANTS
  RecoveryIsAsked
CHECK_DEADLOCK FALSE
