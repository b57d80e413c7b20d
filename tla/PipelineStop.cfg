SPECIFICATION Spec
CONSTANTS
  r1 = r1
  w1 = w1
  w2 = w2
  a = a
  b = b
  c = c
  Receivers = {r1}
  nb_masters = 2
  Workers = {w1}
  plugin_cnt = 2
  Msgs = {a, b, c}
  PluginOf <- PluginOfTwo
  CoresOf <- OneCore
  RecCapacity = 2
  RxCapacity = 2
  Burst = 2
  None = None
PROPERTIES WaitedUntilEmpty
CHECK_DEADLOCK FALSE
