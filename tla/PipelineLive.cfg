SPECIFICATION FairSpec
CONSTANTS
  r1 = r1
  w1 = w1
  w2 = w2
  a = a
  b = b
  c = c
  Receivers = {r1}
  nb_masters = 1
  Workers = {w1, w2}
  plugin_cnt = 2
  Msgs = {a, b, c}
  PluginOf <- PluginOfTwo
  CoresOf <- OwnCores
  RecCapacity = 2
  RxCapacity = 2
  Burst = 1
  None = None
INVARIANTS OrderKept
PROPERTIES Delivered Termination
CHECK_DEADLOCK FALSE
