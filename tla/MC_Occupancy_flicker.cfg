SPECIFICATION Spec
CONSTANTS
  Channels = {1}
  Names = {"mon", "snake"}
  NoName = "-"
  AbsentMax = 3
  MaxStarts = 2
PROPERTIES
  NeverEndedWhilePrinting
