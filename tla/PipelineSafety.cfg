SPECIFICATION Spec
CONSTANTS
  r1 = r1
  w1 = w1
  w2 = w2
  a = a
  b = b
  c = c
  Receivers = {r1}
  nb_masters = 2
  Workers = {w1, w2}
  plugin_cnt = 1
  Msgs = {a, b, c}
  PluginOf <- PluginOfSome
  CoresOf <- SharedPlugin
  RecCapacity = 1
  RxCapacity = 1
  Burst = 1
  None = None
INVARIANTS TypeOK SingleOwner TempBeforeJson DropsCounted
CHECK_DEADLOCK FALSE
