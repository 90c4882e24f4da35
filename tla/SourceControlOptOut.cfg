CONSTANTS
  Sources = {"s"}
  Ordinary = {}
  MaxGeneration = 2
  MaxCommands = 1
  MaxLate = 0
  MaxPushes = 1
SPECIFICATION Spec
PROPERTIES
  OptOutTakesEffect
