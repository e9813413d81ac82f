SPECIFICATION Spec
CONSTANTS
  MaxEps = 2
  Xt = 1
  NGP = 1
  Coupling <- OneWay
  Subiterations = TRUE
  LinStress = FALSE
  Workers = 1
  Loads = {0, 2}
  Stray = {0, 1, 2}
  UsesRestart = FALSE
  Fresh <- ZeroPages
PROPERTIES
  OutputShowsCommittedStep
