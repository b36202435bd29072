SPECIFICATION DeskSpec
CONSTANT Nil = Nil
CHECK_DEADLOCK FALSE
INVARIANTS
  TurnFollowsAgent
  RunsAsApproved
  ScriptHasItsClaim
PROPERTIES
  
  SessionsEndClean
  PicksAreFollowed
