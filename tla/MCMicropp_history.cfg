SPECIFICATION Spec
CONSTANTS
  MaxEps = 3
  Xt = 1
  NGP = 1
  Coupling <- OneWay
  Subiterations = TRUE
  LinStress = FALSE
  Workers = 1
  Loads = {1, 3}
  Stray = {2}
  UsesRestart = TRUE
  Fresh <- ZeroPages
INVARIANTS
  UnallocatedIsVirgin
  StressAnswersStrain
  PassedLimitIsReported
PROPERTIES
  HistoryGrows
  ImplementsConstitutive
