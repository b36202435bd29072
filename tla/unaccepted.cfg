SPECIFICATION HostsSpec
CONSTANTS
  h1 = h1  h2 = h2  t1 = t1  Nil = Nil
  Hosts = {h1, h2}
  Budgets <- PlainMove
  Parts = {"workspace"}
CHECK_DEADLOCK FALSE
INVARIANTS
  SpawnAwaitsAcceptance
