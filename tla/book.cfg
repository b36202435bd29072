SPECIFICATION Spec
CONSTANTS
  Nil = Nil
  Parts = {"review", "setup", "scopes", "book", "stream", "log", "stack", "flow"}
  Models = {"opus", "sol"}
  Defects = {"none", "exit", "unkept", "usage", "section"}
  Slots <- McSlots
  Work <- McWork
  Clients = {"c1"}
  Patches <- McPatches
  Touches <- McTouches
  MaxTasks = 1
  MaxRepos = 2
  MaxPatches = 1
  Starters = {"s1", "s2"}
  Scenes <- McScenes
  Setups = {"u1", "u2"}
  Kits <- McKits
  Callers = {"c1", "c2"}
  Worlds <- McWorlds
  Tokens <- McTokens
  Letters = {"a", "b", "c"}
  MaxText = 6
  Lifespans = {"l1", "l2"}
  Threads = {"t1", "t2"}
  MaxRuns = 3
CHECK_DEADLOCK FALSE
INVARIANTS
  GatesStayShut
  TokensStayIn
PROPERTIES
  RoundIsSound
  SetupDisturbsNothing
  Containment
  DefaultsAreHonest
  OneInstallation
