SPECIFICATION DropSpec
CONSTANTS
  t1 = t1  t2 = t2  t3 = t3  r1 = r1  r2 = r2  r3 = r3  h1 = h1  h2 = h2
  Nil = Nil
  Graph <- Graphs
  Task = {t1, t2, t3}
  Born <- Ring
  Runner = {h1}
  Fact = {1}
  Req = {r1, r2, r3}
  Call <- DropCalls
  MaxCalls = 3
  MayCrash = FALSE
CHECK_DEADLOCK FALSE
INVARIANTS
  GovernorStaysDropped
PROPERTIES
  EveryCallAnswered
