-------------------------------- MODULE Ring --------------------------------
(***************************************************************************)
(* The lock-free ring of ring.h, ring.c and ring_c11_mem.h, one action for *)
(* each access to shared memory that another thread can see: the load of   *)
(* the own head, the load of the opposite tail, the store of the new head, *)
(* the copy of one slot, the release store of the own tail.                *)
(*                                                                         *)
(* Indices are uint32_t and wrap at IndexMod (2^32 in the code); a slot is *)
(* an index & mask, which is the index modulo Size.                        *)
(*                                                                         *)
(* The variants ring_enqueue, ring_enqueue_bulk, ring_sp_enqueue(_bulk)    *)
(* all run __ring_do_enqueue, and the dequeue variants (burst included)    *)
(* __ring_do_dequeue.  They differ in n and in the behavior, which a call  *)
(* chooses here; is_sp and is_sc are never read, so the "multi" and the    *)
(* "single" variants are one and the same.                                 *)
(***************************************************************************)
EXTENDS Integers, Sequences, FiniteSets

CONSTANTS
  Producers,   \* threads that enqueue on this ring
  Consumers,   \* threads that dequeue from this ring
  Objs,        \* the pointers the callers put in
  Garbage,     \* what a slot of the malloc'ed table holds before it is written
  Size,        \* r->size, a power of two
  Capacity,    \* r->capacity: mask, or the exact count under RING_F_EXACT_SZ
  IndexMod,    \* 2^32 in the code: where head and tail wrap
  MaxN         \* bound on the number of objects of one call

ASSUME RingAssumption ==
  /\ Size \in Nat \ {0}
  /\ Capacity \in 0 .. Size - 1
  /\ IndexMod \in Nat
  /\ \E k \in 1 .. IndexMod : IndexMod = k * Size
  /\ MaxN \in Nat
  /\ Garbage \notin Objs

Index == 0 .. IndexMod - 1
Slots == 0 .. Size - 1

\* enum ring_queue_behavior
Behaviors == {"FIXED", "VARIABLE"}

VARIABLES
  prod_head, prod_tail,   \* r->prod
  cons_head, cons_tail,   \* r->cons
  slot,                   \* the table at &r[1]
  ppc, pold, pn, pi, pobj, pbeh,  \* __ring_do_enqueue's locals, per producer
  dpc, dold, dn, dbeh, dobj       \* __ring_do_dequeue's locals, per consumer

shared == <<prod_head, prod_tail, cons_head, cons_tail, slot>>
pvars == <<ppc, pold, pn, pi, pobj, pbeh>>
dvars == <<dpc, dold, dn, dbeh, dobj>>
vars == <<shared, pvars, dvars>>

PCs == {"idle", "check", "move", "copy"}

-----------------------------------------------------------------------------
(* Arithmetic on the wrapping indices.                                     *)

\* The uint32_t difference a - b.
Dist(a, b) == (a - b) % IndexMod

\* The uint32_t sum a + n.
AdvanceUnwrapped(a, n) == a + n
Advance(a, n) == (a + n) % IndexMod

\* The place of an index in the table: index & mask.
SlotOf(a) == a % Size

\* How many objects an operation moves when it wants n and "room" are there.
GrantShy(n, room, behavior) ==
  IF n < room THEN n
  ELSE IF behavior = "FIXED" THEN 0 ELSE room
Grant(n, room, behavior) ==
  IF n <= room THEN n
  ELSE IF behavior = "FIXED" THEN 0 ELSE room

-----------------------------------------------------------------------------

Init ==
  /\ prod_head = 0 /\ prod_tail = 0
  /\ cons_head = 0 /\ cons_tail = 0
  /\ slot = [s \in Slots |-> Garbage]
  /\ ppc = [p \in Producers |-> "idle"]
  /\ pold = [p \in Producers |-> 0]
  /\ pn = [p \in Producers |-> 0]
  /\ pi = [p \in Producers |-> 0]
  /\ pobj = [p \in Producers |-> <<>>]
  /\ pbeh = [p \in Producers |-> "FIXED"]
  /\ dpc = [c \in Consumers |-> "idle"]
  /\ dold = [c \in Consumers |-> 0]
  /\ dn = [c \in Consumers |-> 0]
  /\ dbeh = [c \in Consumers |-> "FIXED"]
  /\ dobj = [c \in Consumers |-> <<>>]

-----------------------------------------------------------------------------
(* Enqueue.                                                                *)

\* The caller hands over a table of objects; prod.head is loaded.
EnqLoadHead(p, objs, behavior) ==
  /\ ppc[p] = "idle"
  /\ ppc' = [ppc EXCEPT ![p] = "check"]
  /\ pobj' = [pobj EXCEPT ![p] = objs]
  /\ pbeh' = [pbeh EXCEPT ![p] = behavior]
  /\ pold' = [pold EXCEPT ![p] = prod_head]
  /\ pn' = [pn EXCEPT ![p] = Len(objs)]
  /\ pi' = [pi EXCEPT ![p] = 0]
  /\ UNCHANGED <<shared, dvars>>

\* *free_entries: what the loaded cons.tail leaves free ahead of the old head.
FreeEntriesOfSize(p) == (Size + cons_tail - pold[p]) % IndexMod
FreeEntries(p) == (Capacity + cons_tail - pold[p]) % IndexMod

\* cons.tail is loaded and the room computed; with no room the call returns 0.
EnqCheck(p) ==
  /\ ppc[p] = "check"
  /\ LET n == Grant(pn[p], FreeEntries(p), pbeh[p])
     IN  /\ pn' = [pn EXCEPT ![p] = n]
         /\ ppc' = [ppc EXCEPT ![p] = IF n = 0 THEN "idle" ELSE "move"]
  /\ UNCHANGED <<shared, pold, pi, pobj, pbeh, dvars>>

\* r->prod.head = *new_head: a plain store, not a compare-and-swap.
EnqMoveHead(p) ==
  /\ ppc[p] = "move"
  /\ prod_head' = Advance(pold[p], pn[p])
  /\ ppc' = [ppc EXCEPT ![p] = "copy"]
  /\ UNCHANGED <<prod_tail, cons_head, cons_tail, slot, pold, pn, pi, pobj, pbeh, dvars>>

\* ENQUEUE_PTRS writes the next slot.
EnqCopy(p) ==
  /\ ppc[p] = "copy"
  /\ pi[p] < pn[p]
  /\ slot' = [slot EXCEPT ![SlotOf(pold[p] + pi[p])] = pobj[p][pi[p] + 1]]
  /\ pi' = [pi EXCEPT ![p] = @ + 1]
  /\ UNCHANGED <<prod_head, prod_tail, cons_head, cons_tail, ppc, pold, pn, pobj, pbeh, dvars>>

\* update_tail: the objects become visible and the call returns n.
EnqPublishEarly(p) ==
  /\ ppc[p] = "copy"
  /\ prod_tail' = Advance(pold[p], pn[p])
  /\ ppc' = [ppc EXCEPT ![p] = "idle"]
  /\ UNCHANGED <<prod_head, cons_head, cons_tail, slot, pold, pn, pi, pobj, pbeh, dvars>>
EnqPublish(p) ==
  /\ ppc[p] = "copy"
  /\ pi[p] = pn[p]
  /\ prod_tail' = Advance(pold[p], pn[p])
  /\ ppc' = [ppc EXCEPT ![p] = "idle"]
  /\ UNCHANGED <<prod_head, cons_head, cons_tail, slot, pold, pn, pi, pobj, pbeh, dvars>>

-----------------------------------------------------------------------------
(* Dequeue.                                                                *)

\* The caller asks for n objects; cons.head is loaded.
DeqLoadHead(c, n, behavior) ==
  /\ dpc[c] = "idle"
  /\ dpc' = [dpc EXCEPT ![c] = "check"]
  /\ dbeh' = [dbeh EXCEPT ![c] = behavior]
  /\ dold' = [dold EXCEPT ![c] = cons_head]
  /\ dn' = [dn EXCEPT ![c] = n]
  /\ dobj' = [dobj EXCEPT ![c] = <<>>]
  /\ UNCHANGED <<shared, pvars>>

\* *entries: how far the loaded prod.tail is ahead of the old head.
EntriesToHead(c) == Dist(prod_head, dold[c])
Entries(c) == Dist(prod_tail, dold[c])

\* prod.tail is loaded; with too few objects the call returns 0.
DeqCheck(c) ==
  /\ dpc[c] = "check"
  /\ LET n == Grant(dn[c], Entries(c), dbeh[c])
     IN  /\ dn' = [dn EXCEPT ![c] = n]
         /\ dpc' = [dpc EXCEPT ![c] = IF n = 0 THEN "idle" ELSE "move"]
  /\ UNCHANGED <<shared, pvars, dold, dbeh, dobj>>

\* r->cons.head = *new_head.
DeqMoveHead(c) ==
  /\ dpc[c] = "move"
  /\ cons_head' = Advance(dold[c], dn[c])
  /\ dpc' = [dpc EXCEPT ![c] = "copy"]
  /\ UNCHANGED <<prod_head, prod_tail, cons_tail, slot, pvars, dold, dn, dbeh, dobj>>

\* DEQUEUE_PTRS reads the next slot.
DeqCopy(c) ==
  /\ dpc[c] = "copy"
  /\ Len(dobj[c]) < dn[c]
  /\ dobj' = [dobj EXCEPT ![c] = Append(@, slot[SlotOf(dold[c] + Len(dobj[c]))])]
  /\ UNCHANGED <<shared, pvars, dpc, dold, dn, dbeh>>

\* update_tail: the slots go back to the producer and the call returns n.
DeqReleaseEarly(c) ==
  /\ dpc[c] = "copy"
  /\ cons_tail' = Advance(dold[c], dn[c])
  /\ dpc' = [dpc EXCEPT ![c] = IF Len(dobj[c]) = dn[c] THEN "idle" ELSE "copy"]
  /\ UNCHANGED <<prod_head, prod_tail, cons_head, slot, pvars, dold, dn, dbeh, dobj>>
DeqRelease(c) ==
  /\ dpc[c] = "copy"
  /\ Len(dobj[c]) = dn[c]
  /\ cons_tail' = Advance(dold[c], dn[c])
  /\ dpc' = [dpc EXCEPT ![c] = "idle"]
  /\ UNCHANGED <<prod_head, prod_tail, cons_head, slot, pvars, dold, dn, dbeh, dobj>>

-----------------------------------------------------------------------------

\* The tables a caller can hand over, at most MaxN objects long.
Tables == UNION {[1 .. n -> Objs] : n \in 1 .. MaxN}

Produce(p) ==
  \/ \E objs \in Tables, b \in Behaviors : EnqLoadHead(p, objs, b)
  \/ EnqCheck(p)
  \/ EnqMoveHead(p)
  \/ EnqCopy(p)
  \/ EnqPublish(p)

Consume(c) ==
  \/ \E n \in 1 .. MaxN, b \in Behaviors : DeqLoadHead(c, n, b)
  \/ DeqCheck(c)
  \/ DeqMoveHead(c)
  \/ DeqCopy(c)
  \/ DeqRelease(c)

Next ==
  \/ \E p \in Producers : Produce(p)
  \/ \E c \in Consumers : Consume(c)

Spec == Init /\ [][Next]_vars

-----------------------------------------------------------------------------
(* What other code reads off the ring.                                     *)

\* ring_count: the mask and the cap come after the subtraction.
RingCount ==
  LET count == Dist(prod_tail, cons_tail) % Size
  IN  IF count > Capacity THEN Capacity ELSE count

\* The objects published and not yet released, oldest first.
Contents ==
  [i \in 1 .. Dist(prod_tail, cons_tail) |-> slot[SlotOf(cons_tail + i - 1)]]

-----------------------------------------------------------------------------
(* The invariant behind the properties below.  It describes a ring with    *)
(* one producer and one consumer, the only use its code is correct for.    *)

\* How logcollector uses the rings between a master and a worker.
SingleThreaded ==
  /\ \A p, q \in Producers : p = q
  /\ \A c, d \in Consumers : c = d

\* Slots claimed, published and taken, counted from cons.tail.
Claimed == Dist(prod_head, cons_tail)
Published == Dist(prod_tail, cons_tail)
Taken == Dist(cons_head, cons_tail)

\* The four indices never pass each other on the circle of IndexMod values.
IndexOrder == Taken <= Published /\ Published <= Claimed /\ Claimed <= Capacity

\* What a producer knows at each point of __ring_do_enqueue.
ProducerInv(p) ==
  /\ ppc[p] # "copy" => prod_head = prod_tail
  /\ ppc[p] \in {"check", "move"} => pold[p] = prod_head /\ pi[p] = 0
  /\ ppc[p] = "check" => pn[p] = Len(pobj[p])
  /\ ppc[p] \in {"move", "copy"} => pn[p] \in 1 .. Len(pobj[p])
  /\ ppc[p] = "move" => Published + pn[p] <= Capacity
  /\ ppc[p] = "copy" =>
       /\ pold[p] = prod_tail
       /\ prod_head = Advance(pold[p], pn[p])
       /\ Claimed = Published + pn[p]
       /\ pi[p] <= pn[p]
       /\ \A j \in 0 .. pi[p] - 1 : slot[SlotOf(pold[p] + j)] = pobj[p][j + 1]

\* What a consumer knows at each point of __ring_do_dequeue.
ConsumerInv(c) ==
  /\ dpc[c] # "copy" => cons_head = cons_tail
  /\ dpc[c] \in {"check", "move"} => dold[c] = cons_head /\ dobj[c] = <<>>
  /\ dpc[c] \in {"move", "copy"} => dn[c] \in 1 .. Published
  /\ dpc[c] = "copy" =>
       /\ dold[c] = cons_tail
       /\ cons_head = Advance(dold[c], dn[c])
       /\ Taken = dn[c]
       /\ Len(dobj[c]) <= dn[c]
       /\ \A j \in 1 .. Len(dobj[c]) : dobj[c][j] = slot[SlotOf(dold[c] + j - 1)]

\* A published slot holds an object some caller put in.
ContentsInv == \A j \in 0 .. Published - 1 : slot[SlotOf(cons_tail + j)] \in Objs

RingInv ==
  /\ IndexOrder
  /\ \A p \in Producers : ProducerInv(p)
  /\ \A c \in Consumers : ConsumerInv(c)
  /\ ContentsInv

-----------------------------------------------------------------------------
(* Properties.                                                             *)

\* Every variable has the type its C declaration gives it, and a call never
\* moves more objects than its table holds.
TypeOK ==
  /\ prod_head \in Index /\ prod_tail \in Index
  /\ cons_head \in Index /\ cons_tail \in Index
  /\ slot \in [Slots -> Objs \union {Garbage}]
  /\ ppc \in [Producers -> PCs]
  /\ pold \in [Producers -> Index]
  /\ pn \in [Producers -> 0 .. MaxN]
  /\ pi \in [Producers -> 0 .. MaxN]
  /\ pobj \in [Producers -> Seq(Objs)]
  /\ \A p \in Producers : pn[p] <= Len(pobj[p])
  /\ pbeh \in [Producers -> Behaviors]
  /\ dpc \in [Consumers -> PCs]
  /\ dold \in [Consumers -> Index]
  /\ dn \in [Consumers -> 0 .. MaxN]
  /\ dbeh \in [Consumers -> Behaviors]
  /\ dobj \in [Consumers -> Seq(Objs \union {Garbage})]

\* The claim of the comments in ring_c11_mem.h:61-65 and 130-134: the wrapping
\* subtractions always yield a count that fits the ring, although the index
\* they start from was loaded before the opposite tail moved on.
EntriesInRange ==
  /\ \A p \in Producers : ppc[p] = "check" => FreeEntries(p) \in 0 .. Capacity
  /\ \A c \in Consumers : dpc[c] = "check" => Entries(c) \in 0 .. Size - 1

\* The slots an operation still has to copy.
Writing(p) ==
  IF ppc[p] = "copy" THEN {SlotOf(pold[p] + j) : j \in pi[p] .. pn[p] - 1} ELSE {}
Reading(c) ==
  IF dpc[c] = "copy" THEN {SlotOf(dold[c] + j) : j \in Len(dobj[c]) .. dn[c] - 1} ELSE {}
Unread == {SlotOf(cons_tail + j) : j \in 0 .. Dist(prod_tail, cons_tail) - 1}

\* No slot is ever written while its object is unread or being read, and no two
\* enqueues write the same slot: the copy loops need no lock.
NoSlotRace ==
  /\ \A p \in Producers : Writing(p) \cap Unread = {}
  /\ \A p \in Producers, c \in Consumers : Writing(p) \cap Reading(c) = {}
  /\ \A p, q \in Producers : p # q => Writing(p) \cap Writing(q) = {}

\* Between two operations of the consumer ring_count is the number of objects
\* it can still dequeue: a full ring is never taken for an empty one, which is
\* what the threads that stop when ring_count is 0 rely on.
CountExact ==
  \A c \in Consumers : dpc[c] = "idle" => RingCount = Dist(prod_tail, cons_head)

\* How a step leaves "check" with less than the call asked for.
ShortEnqueue(p) == ppc[p] = "check" /\ ppc'[p] # "check" /\ pn'[p] < Len(pobj[p])
ShortDequeue(c) == dpc[c] = "check" /\ dpc'[c] # "check" /\ dn'[c] < dn[c]

\* What such a step must find.
ShortGrants ==
  /\ \A p \in Producers : ShortEnqueue(p) =>
       /\ Len(Contents) + Len(pobj[p]) > Capacity
       /\ pn'[p] = IF pbeh[p] = "FIXED" THEN 0 ELSE Capacity - Len(Contents)
  /\ \A c \in Consumers : ShortDequeue(c) =>
       /\ dn[c] > Len(Contents)
       /\ dn'[c] = IF dbeh[c] = "FIXED" THEN 0 ELSE Len(Contents)

\* A call moves fewer objects than asked only when the ring cannot hold or does
\* not have more at that moment, and a FIXED call then moves none.
GrantMaximal == [][ShortGrants]_vars

\* The ring implements the bounded FIFO queue: an enqueue takes effect when it
\* publishes prod.tail, a dequeue when it releases cons.tail.
Queue == INSTANCE RingQueue WITH
  queue <- Contents,
  result <- [c \in Consumers |-> IF dpc[c] = "idle" THEN dobj[c] ELSE <<>>]

ImplementsQueue == Queue!Spec
=============================================================================
