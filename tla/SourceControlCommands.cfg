CONSTANTS
  Sources = {"s"}
  Ordinary = {"s"}
  MaxGeneration = 0
  MaxCommands = 3
  MaxLate = 1
  MaxPushes = 1
SPECIFICATION Spec
PROPERTIES
  PauseStands
  NumbersAreNew
