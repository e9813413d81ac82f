SPECIFICATION Spec
CONSTANTS
  nrow = 5
  nnz = 3
  grid_mvp = 2
  block_mvp = 4
  grid_dot = 3
  block_dot = 2
  block_red = 2
INVARIANTS
  SumComplete
CHECK_DEADLOCK FALSE
