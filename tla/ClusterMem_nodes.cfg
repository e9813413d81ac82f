SPECIFICATION ClusterSpec
CONSTANTS
  nx = 3
  ny = 3
  nz = 6
  NodesNr = {4, 7}
  Point = {1, 2}
  Worker = {0, 1, 2}
  MaxTrials = 3
INVARIANTS
  RegionsDisjoint
  ClusterIsOneMemory
  LinearIsAsFound
PROPERTIES
  TableComplete
  UsersFindTheirColumns
CHECK_DEADLOCK FALSE
