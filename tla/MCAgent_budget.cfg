SPECIFICATION Spec
CONSTANTS
  s1 = s1
  s2 = s2
  Symbols = {s1, s2}
  OtherSymbols = {}
  MaxOpen = 1
  Bars = 2
  MaxLives = 2
INVARIANT
  NeverOverBudget
