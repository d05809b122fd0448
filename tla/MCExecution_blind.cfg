SPECIFICATION Spec
CONSTANTS
  Callers = {c1, c2}
  Runs = {r1, r2}
  MaxQty = 2
  PaperQuantities = {0, 1}
  Commands <- AllCommands
PROPERTIES
  NeverTradesBlind
