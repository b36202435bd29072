SPECIFICATION Spec
CONSTANTS
  h1 = h1  h2 = h2  t1 = t1  Nil = Nil
  Hosts = {h1, h2}
  Tasks = {t1}
  MaxRespawns = 1
  Allowance <- RebootFaults
INVARIANTS
  OneHostRuns
