CONSTANTS
  w1 = w1
  w2 = w2
  Workers = {w1, w2}
  Main = Main
  Nobody = Nobody
  NoEngine = NoEngine
  Engines <- ThreeEngines
  RecoveryMayFail = TRUE
SPECIFICATION Spec
INVARIANT OneAtWork
INVARIANT RunningIsKnown
INVARIANT StopRestores
PROPERTY ExitRestores
PROPERTY ParentGoneEnds
CHECK_DEADLOCK FALSE
