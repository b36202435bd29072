SPECIFICATION FairSpec
CONSTANTS
  h1 = h1  h2 = h2  k1 = k1  k2 = k2  Nil = Nil
  Hosts = {h1, h2}
  Keys = {k1, k2}
  MaxEntries = 2
  MaxPanes = 2
  Budgets <- Scenes
CHECK_DEADLOCK FALSE
INVARIANTS
  RecordsAreTrue
PROPERTIES
  TypingIsOrderly
  EverythingSettles
