SPECIFICATION FairSpec
CONSTANTS
  Couplings = {"FE_ONE_WAY", "FE_FULL"}
  NVoi = 2
  NrMaxIts = 2
  CgIts = {1}
  Subiterations = TRUE
  NSubs = {0, 2}
  LinStress = FALSE
  Loads = {0, 1}
  Found = {0, 3}
INVARIANTS
  TypeOK
  ConvergedIsHonest
  FieldCarriesStrain
  SubStepsAreIncrements
  CostIsWork
  TangentIsComplete
PROPERTIES
  CallReturns
