SPECIFICATION TroubleSpec
CONSTANTS
  h1 = h1  h2 = h2  t1 = t1  Nil = Nil
  Hosts = {h1}
  Tasks = {t1}
  MaxRespawns = 2
  Allowance <- RecoveryFaults
INVARIANTS
  CrashLoopCapped
PROPERTIES
  
  OpenCheckoutsStay
  CleansUp
  Recovers
