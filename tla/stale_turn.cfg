SPECIFICATION Spec
CONSTANTS
  t1 = t1  t2 = t2  t3 = t3  r1 = r1  r2 = r2  r3 = r3  h1 = h1  h2 = h2
  Nil = Nil
  Graph <- Graphs
  Task = {t1, t2}
  Born <- OneTask
  Runner = {h1}
  Fact = {1}
  Req = {r1, r2}
  Call <- StaleTurnCalls
  MaxCalls = 2
  MayCrash = FALSE
INVARIANTS
  StateMatchesTail
