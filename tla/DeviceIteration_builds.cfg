SPECIFICATION FairIteration
CONSTANTS
  nx = 4
  ny = 2
  nz = 2
  Builds = {"cpu", "openacc", "cuda"}
  tx = 2
  ty = 1
  tz = 1
  nrow = 5
  nnz = 3
  grid_mvp = 2
  block_mvp = 4
  grid_dot = 3
  block_dot = 2
  block_red = 2
INVARIANTS
  PartialSumsComplete
PROPERTIES
  MatrixAssembled
  ResidualAssembled
  IterationEnds
CHECK_DEADLOCK FALSE
