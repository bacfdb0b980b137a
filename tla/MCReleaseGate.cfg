CONSTANTS
  engineFile = engineFile
  serverFile = serverFile
  Code = {engineFile, serverFile}
  MaxEdit = 2
  MaxBuild = 2
  MaxDamage = 1
SYMMETRY CodeSymmetry
SPECIFICATION Spec
INVARIANT GateAcceptsRelease
CHECK_DEADLOCK FALSE
