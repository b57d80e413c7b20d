SPECIFICATION Spec
CONSTANTS
  Producers = {p1}
  Consumers = {c1}
  Objs = {a, b}
  Garbage = Garbage
  Size = 4
  Capacity = 3
  IndexMod = 8
  MaxN = 2
INVARIANTS TypeOK RingInv EntriesInRange NoSlotRace CountExact
PROPERTIES GrantMaximal ImplementsQueue
CHECK_DEADLOCK TRUE
