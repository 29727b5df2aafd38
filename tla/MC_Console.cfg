SPECIFICATION FairSpec
CONSTANTS
  Instructions <- Image
  Sizes <- Arena
  Window = 5
  Addresses = {7, 20}
  Lengths = {3, 5}
  Counts = {0, 4}
  Locations = {3}
  MaxRequests = 3
  MaxFrames = 2
  Gap = 2
  PromptAfter = 3
  MaxAdvance = 1
INVARIANTS
  TypeOK
  HexStaysHex
PROPERTIES
  WarnedUnanswered
  PromptAfterFrames
  PromptComes
  ListCarriesOn
