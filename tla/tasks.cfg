SPECIFICATION GroupSpec
CONSTANTS
  t1 = t1  t2 = t2  t3 = t3  r1 = r1  r2 = r2  r3 = r3  h1 = h1  h2 = h2
  Nil = Nil
  Graph <- Graphs
  Task = {t1, t2, t3}
  Born <- TwoTasks
  Runner = {h1, h2}
  Fact = {1}
  Req = {r1, r2, r3}
  Call <- AllCalls
  MaxCalls = 4
  MayCrash = TRUE
INVARIANTS
  LockedSaversCurrent
  OrderlyHistory
  DependenciesAcyclic
PROPERTIES
  GateHoldsAtAppend
  SettledWakeStays
  ClaimGivenUpOnly
  ClaimOnlyReady
