SPECIFICATION Spec
CONSTANTS
  MaxEps = 2
  Xt = 1
  NGP = 1
  Coupling <- OneWay
  Subiterations = TRUE
  LinStress = FALSE
  Workers = 1
  Loads = {2}
  Stray = {}
  UsesRestart = FALSE
  Fresh <- Recycled
INVARIANTS
  PassedLimitIsReported
