SPECIFICATION Spec
CONSTANTS
  Rank = {1, 2}
  ngp <- Ngp
  Id = {1, 2}
  NV = 2
  NU = 1
  Loads <- Histories
  MaxStep = 2
  MaxWrites = 2
INVARIANTS
  RestoredIsWritten
  TornIsWrittenOrNone
