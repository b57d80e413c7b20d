\* A plugin with one worker; directories and files may fail.
SPECIFICATION Spec
CONSTANTS
  Threads = {w1}
  Handles = {f1, f2, f3}
  Null = Null
  Nobody = Nobody
  Limit = 3
  Burst = 2
  MayFail = TRUE
INVARIANTS RotationInv NoWriteAfterClose SizeExact SoloInv
CHECK_DEADLOCK FALSE
