\* Two receivers share the ring of one master: every producer uses ring_enqueue.
SPECIFICATION Spec
CONSTANTS
  Producers = {p1, p2}
  Consumers = {c1}
  Objs = {a}
  Garbage = Garbage
  Size = 4
  Capacity = 3
  IndexMod = 8
  MaxN = 1
INVARIANTS NoSlotRace
