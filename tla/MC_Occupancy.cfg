SPECIFICATION FairSpec
CONSTANTS
  Channels = {1, 2}
  Names = {"mon"}
  NoName = "-"
  AbsentMax = 3
  MaxStarts = 2
INVARIANTS
  TwoSnapshotsEndPane
  FirstProcessNeverFlickers
  SnapshotRevivesPane
PROPERTIES
  
  EndedEventually
