SPECIFICATION CellSpec
CONSTANTS
  Sizes <- Grids
  Structures <- AllStructures
  NrMaxIts = 2
  CgMaxIts = 2
  geo_param = 140
INVARIANTS
  CellTypeOK
  FibresRunThrough
  BoundaryIsImposed
  BoundariesAgree
  SystemIsOfTheCell
  CgStaysInside
