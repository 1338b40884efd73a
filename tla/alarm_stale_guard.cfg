SPECIFICATION Spec
CONSTANTS
  Procs = {p1}
  Intervals = {2}
  Results = {0, 1}
  Values = {0}
  Scratch = {0, 1}
  MaxSpent = 2
  HandlerMay = {"exit"}
INVARIANT
  FiresOnTime
