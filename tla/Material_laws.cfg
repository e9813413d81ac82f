SPECIFICATION Spec
CONSTANTS
  Kinds = {"elastic", "plastic", "damage"}
  Kas = {0, 2}
  Xts = {0, 200, 300}
  Sy = 256
  Ey = 200
  Sizes = {0, 256, 512}
  MaxCommits = 3
INVARIANTS
  StressOnYieldSurface
  LinearTrialIsForgotten
  CommittedIsSettled
  TangentNotNegative
PROPERTIES
  HistoryNeverShrinks
