SPECIFICATION FairSpec
CONSTANTS
  MaxEps = 2
  Xt = 1
  NGP = 4
  Coupling <- Mixed
  Subiterations = TRUE
  LinStress = FALSE
  Workers = 2
  Loads = {2}
  Stray = {}
  UsesRestart = FALSE
  Fresh <- ZeroPages
INVARIANTS
  TypeOK
  BuffersDisjoint
  TrialEvolvesCommitted
PROPERTIES
  CommittedIsStable
  HomogenizeReturns
  ImplementsConstitutive
