SPECIFICATION DecoderSpec
CONSTANTS
  PlainTexts <- MC_Texts
  FramesSent <- MC_FramesSent
  Damages <- MC_Damages
  MaxSegments = 4
INVARIANTS
  DecoderTypeOK
  Unfragmented
  FramesSurviveDamage
  TextBeforeAck
