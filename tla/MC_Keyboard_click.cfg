SPECIFICATION KeyboardSpec
CONSTANTS
  Channels = {0}
  Names = {}
  NoName = "-"
  AbsentMax = 2
  Keys = {"n", "x", "y", "b", "q", "Escape", "?", "unbound"}
  Modifiers = {"Shift"}
  Motions = {"k", "Arrow"}
  MenuKeys = {"x", "k", "?"}
PROPERTIES
  ClickTypesNothing
