SPECIFICATION ClientSpec
CONSTANTS
  Nil = Nil
  c1 = c1  c2 = c2  w1 = w1  w2 = w2
  Client = {c1, c2}
  Writer = {w1, w2}
  MaxCommits = 2
  MaxPulses = 1
  MaxRestarts = 1
CHECK_DEADLOCK FALSE
INVARIANTS
  CursorIsLowerBound
  NothingSleptThrough
PROPERTIES
  EveryChangeSeen
  TableIsTrue
