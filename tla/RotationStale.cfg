\* Two workers of one plugin: a file is closed under a drain.
SPECIFICATION Spec
CONSTANTS
  Threads = {w1, w2}
  Handles = {f1, f2, f3}
  Null = Null
  Nobody = Nobody
  Limit = 1
  Burst = 2
  MayFail = FALSE
INVARIANTS NoWriteAfterClose
