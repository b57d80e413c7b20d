SPECIFICATION FairSpec
CONSTANTS
  Threads = {w1, w2}
  Handles = {f1, f2}
  Null = Null
  Nobody = Nobody
  Limit = 1
  Burst = 2
  MayFail = FALSE
INVARIANTS TypeOK RotationInv RefsConserved OpenFiles FileBounded
PROPERTIES RotationReturns
