CONSTANTS
  w1 = w1
  w2 = w2
  Workers = {w1, w2}
  Main = Main
  Nobody = Nobody
  NoEngine = NoEngine
  Engines <- ThreeEngines
  RecoveryMayFail = TRUE
SPECIFICATION Spec
INVARIANT RecoverIsPossible
CHECK_DEADLOCK FALSE
