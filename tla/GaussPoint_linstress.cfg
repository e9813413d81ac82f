SPECIFICATION Spec
CONSTANTS
  Couplings = {"FE_FULL"}
  NVoi = 2
  NrMaxIts = 2
  CgIts = {1}
  Subiterations = TRUE
  NSubs = {2}
  LinStress = TRUE
  Loads = {0, 1}
  Found = {0, 3}
INVARIANTS
  TangentIsOfFEStress
