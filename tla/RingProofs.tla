----------------------------- MODULE RingProofs -----------------------------
(***************************************************************************)
(* Proofs about Ring: type correctness for any producers and consumers,    *)
(* and, for one producer and one consumer, the order of the indices, what  *)
(* follows from it, and that the ring implements RingQueue.                *)
(***************************************************************************)
EXTENDS Ring, SequenceTheorems, TLAPS

-----------------------------------------------------------------------------
(* Facts about the remainder for a symbolic modulus.                       *)

\* Quotient and remainder.
LEMMA ModDef ==
  ASSUME NEW m \in Nat \ {0}, NEW a \in Int
  PROVE  /\ a = m * (a \div m) + (a % m)
         /\ a \div m \in Int
         /\ a % m \in 0 .. m - 1
OBVIOUS

\* The remainder is unique.
LEMMA ModUnique ==
  ASSUME NEW m \in Nat \ {0}, NEW q \in Int, NEW r \in 0 .. m - 1
  PROVE  (m * q + r) % m = r
OBVIOUS

\* Numbers below the modulus are their own remainder.
LEMMA ModSmall ==
  ASSUME NEW m \in Nat \ {0}, NEW r \in 0 .. m - 1
  PROVE  r % m = r
OBVIOUS

\* Numbers below twice the modulus lose it once.
LEMMA ModWrap ==
  ASSUME NEW m \in Nat \ {0}, NEW r \in m .. 2 * m - 1
  PROVE  r % m = r - m
OBVIOUS

\* Multiples of the modulus do not matter.
LEMMA ModShift ==
  ASSUME NEW m \in Nat \ {0}, NEW q \in Int, NEW a \in Int
  PROVE  (a + m * q) % m = a % m
<1> DEFINE k == a \div m
           r == a % m
<1>1. a = m * k + r /\ k \in Int /\ r \in 0 .. m - 1
  BY ModDef
<1>2. k + q \in Int /\ (m * (k + q) + r) % m = r
  <2> HIDE DEF k, r
  <2>1. k + q \in Int
    BY <1>1
  <2>2. QED
    BY <1>1, <2>1, ModUnique
<1>3. a + m * q = m * (k + q) + r
  <2> HIDE DEF k, r
  <2>1. QED
    BY <1>1
<1>4. QED
  BY <1>2, <1>3

\* Two numbers closer than the modulus have different remainders.
LEMMA ModNear ==
  ASSUME NEW m \in Nat \ {0}, NEW x \in Int, NEW y \in Int, x < y, y - x < m
  PROVE  x % m # y % m
<1> DEFINE k == (y \div m) - (x \div m)
<1>1. x = m * (x \div m) + (x % m) /\ x \div m \in Int
  BY ModDef
<1>2. y = m * (y \div m) + (y % m) /\ y \div m \in Int
  BY ModDef
<1>3. SUFFICES ASSUME x % m = y % m PROVE FALSE
  OBVIOUS
<1>4. y - x = m * k
  BY <1>1, <1>2, <1>3
<1>5. k \in Int /\ m * k > 0 /\ m * k < m
  BY <1>1, <1>2, <1>4
<1>6. \A i \in Int : ~(m * i > 0 /\ m * i < m)
  OBVIOUS
<1>7. QED
  BY <1>5, <1>6

-----------------------------------------------------------------------------
(* Facts about the wrapping arithmetic.                                    *)

\* The constants are such that a count of objects fits an index.
LEMMA Sizes ==
  /\ Size \in Nat \ {0} /\ IndexMod \in Nat \ {0} /\ Capacity \in Nat /\ MaxN \in Nat
  /\ Capacity < Size /\ Size <= IndexMod
BY RingAssumption

\* A wrapping difference of two indices, without the modulus.
LEMMA DistCases ==
  ASSUME NEW a \in Index, NEW b \in Index
  PROVE  Dist(a, b) = IF a >= b THEN a - b ELSE a - b + IndexMod
BY Sizes DEF Index, Dist

\* A wrapping sum of an index and a count, without the modulus.
LEMMA AdvanceCases ==
  ASSUME NEW a \in Index, NEW n \in 0 .. IndexMod
  PROVE  Advance(a, n) = IF a + n < IndexMod THEN a + n ELSE a + n - IndexMod
BY Sizes DEF Index, Advance

\* Sums and differences of indices are indices.
LEMMA IndexClosed ==
  /\ \A a \in Index, n \in Nat : Advance(a, n) \in Index
  /\ \A a, b \in Index : Dist(a, b) \in Index
BY Sizes DEF Index, Advance, Dist

\* Moving the leading index ahead adds to the distance.
LEMMA DistAhead ==
  ASSUME NEW a \in Index, NEW b \in Index, NEW n \in Nat, Dist(a, b) + n < IndexMod
  PROVE  Dist(Advance(a, n), b) = Dist(a, b) + n
<1>1. n \in 0 .. IndexMod /\ Advance(a, n) \in Index
  BY IndexClosed, Sizes DEF Index
<1>2. Dist(a, b) = IF a >= b THEN a - b ELSE a - b + IndexMod
  BY DistCases
<1>3. Advance(a, n) = IF a + n < IndexMod THEN a + n ELSE a + n - IndexMod
  BY <1>1, AdvanceCases
<1>4. Dist(Advance(a, n), b) =
        IF Advance(a, n) >= b THEN Advance(a, n) - b ELSE Advance(a, n) - b + IndexMod
  BY <1>1, DistCases
<1>5. QED
  BY <1>2, <1>3, <1>4, Sizes DEF Index

\* Moving the trailing index ahead takes from the distance.
LEMMA DistBehind ==
  ASSUME NEW a \in Index, NEW b \in Index, NEW n \in Nat, n <= Dist(a, b)
  PROVE  Dist(a, Advance(b, n)) = Dist(a, b) - n
<1>1. n \in 0 .. IndexMod /\ Advance(b, n) \in Index
  BY IndexClosed, Sizes DEF Index
<1>2. Dist(a, b) = IF a >= b THEN a - b ELSE a - b + IndexMod
  BY DistCases
<1>3. Advance(b, n) = IF b + n < IndexMod THEN b + n ELSE b + n - IndexMod
  BY <1>1, AdvanceCases
<1>4. Dist(a, Advance(b, n)) =
        IF a >= Advance(b, n) THEN a - Advance(b, n) ELSE a - Advance(b, n) + IndexMod
  BY <1>1, DistCases
<1>5. QED
  BY <1>2, <1>3, <1>4, Sizes DEF Index

\* Distances from a common base subtract.
LEMMA DistBase ==
  ASSUME NEW a \in Index, NEW b \in Index, NEW c \in Index, Dist(b, c) <= Dist(a, c)
  PROVE  Dist(a, b) = Dist(a, c) - Dist(b, c)
BY DistCases, Sizes DEF Index

\* An index is at distance 0 of itself.
LEMMA DistSelf == ASSUME NEW a \in Index PROVE Dist(a, a) = 0
BY DistCases, Sizes DEF Index

\* The room computed from the old head is the capacity less what is claimed.
LEMMA RoomLeft ==
  ASSUME NEW a \in Index, NEW b \in Index, Dist(a, b) <= Capacity
  PROVE  (Capacity + b - a) % IndexMod = Capacity - Dist(a, b)
<1> DEFINE r == Capacity + b - a
<1>1. Dist(a, b) = IF a >= b THEN a - b ELSE a - b + IndexMod
  BY DistCases
<1>2. /\ a >= b => r \in 0 .. IndexMod - 1 /\ r = Capacity - Dist(a, b)
      /\ a < b => r \in IndexMod .. 2 * IndexMod - 1 /\ r - IndexMod = Capacity - Dist(a, b)
  BY <1>1, Sizes DEF Index
<1>3. r % IndexMod = Capacity - Dist(a, b)
  <2> HIDE DEF r
  <2>1. CASE a >= b
    BY <1>2, <2>1, ModSmall, Sizes
  <2>2. CASE a < b
    BY <1>2, <2>2, ModWrap, Sizes
  <2>3. QED
    BY <2>1, <2>2 DEF Index
<1>4. QED
  BY <1>3

\* The slot of an advanced index is the slot of the unwrapped sum: the table
\* size divides the modulus of the indices.
LEMMA SlotAdvance ==
  ASSUME NEW a \in Index, NEW n \in Nat, NEW j \in Nat
  PROVE  SlotOf(Advance(a, n) + j) = SlotOf(a + n + j)
<1>1. PICK k \in 1 .. IndexMod : IndexMod = k * Size
  BY RingAssumption
<1> DEFINE q == (a + n) \div IndexMod
<1>2. q \in Int /\ a + n = IndexMod * q + Advance(a, n) /\ Advance(a, n) \in Int
  BY ModDef, Sizes DEF Index, Advance
<1> HIDE DEF q
<1>3. k * q \in Int /\ a + n + j = (Advance(a, n) + j) + Size * (k * q)
  BY <1>1, <1>2, Sizes DEF Index
<1>4. Advance(a, n) + j \in Int
  BY <1>2
<1>5. QED
  BY <1>3, <1>4, ModShift, Sizes DEF SlotOf

\* Two positions of one window of at most Size slots have different slots.
LEMMA SlotsDiffer ==
  ASSUME NEW a \in Index, NEW i \in Nat, NEW j \in Nat, i # j, i < Size, j < Size
  PROVE  SlotOf(a + i) # SlotOf(a + j)
<1>1. a + i \in Int /\ a + j \in Int /\ Size \in Nat \ {0}
  BY Sizes DEF Index
<1>2. CASE i < j
  <2>1. a + i < a + j /\ (a + j) - (a + i) < Size
    BY <1>1, <1>2, Sizes DEF Index
  <2>2. (a + i) % Size # (a + j) % Size
    BY <1>1, <2>1, ModNear
  <2>3. QED
    BY <2>2 DEF SlotOf
<1>3. CASE j < i
  <2>1. a + j < a + i /\ (a + i) - (a + j) < Size
    BY <1>1, <1>3, Sizes DEF Index
  <2>2. (a + j) % Size # (a + i) % Size
    BY <1>1, <2>1, ModNear
  <2>3. QED
    BY <2>2 DEF SlotOf
<1>4. QED
  BY <1>2, <1>3

\* Every index has a slot.
LEMMA SlotRange ==
  ASSUME NEW a \in Nat PROVE SlotOf(a) \in Slots
BY Sizes DEF SlotOf, Slots

\* The grant never exceeds what was asked or what there is.
LEMMA GrantBounds ==
  ASSUME NEW n \in Nat, NEW room \in Nat, NEW b \in Behaviors
  PROVE  /\ Grant(n, room, b) \in Nat
         /\ Grant(n, room, b) <= n
         /\ Grant(n, room, b) <= room
BY DEF Grant

-----------------------------------------------------------------------------
(* Types.                                                                  *)

\* The tables of the callers are sequences of objects, none longer than MaxN.
LEMMA TablesType ==
  ASSUME NEW objs \in Tables
  PROVE  objs \in Seq(Objs) /\ Len(objs) \in 1 .. MaxN
BY Sizes DEF Tables

\* The two differences the code computes are counts.
LEMMA RoomType ==
  ASSUME TypeOK
  PROVE  /\ \A p \in Producers : FreeEntries(p) \in Nat
         /\ \A c \in Consumers : Entries(c) \in Nat
<1>1. ASSUME NEW x \in Int PROVE x % IndexMod \in Nat
  BY <1>1, ModDef, Sizes
<1>2. ASSUME NEW p \in Producers PROVE FreeEntries(p) \in Nat
  <2>1. Capacity + cons_tail - pold[p] \in Int
    BY Sizes DEF TypeOK, Index
  <2>2. QED
    BY <1>1, <2>1 DEF FreeEntries
<1>3. ASSUME NEW c \in Consumers PROVE Entries(c) \in Nat
  <2>1. prod_tail - dold[c] \in Int
    BY Sizes DEF TypeOK, Index
  <2>2. QED
    BY <1>1, <2>1 DEF Entries, Dist
<1>4. QED
  BY <1>2, <1>3

\* Every step of a producer keeps the types.
LEMMA ProduceType ==
  ASSUME TypeOK, NEW p \in Producers, Produce(p)
  PROVE  TypeOK'
<1> USE DEF TypeOK, PCs, Behaviors, pvars, dvars, shared
<1>1. ASSUME NEW objs \in Tables, NEW b \in Behaviors, EnqLoadHead(p, objs, b)
      PROVE  TypeOK'
  BY <1>1, TablesType, Sizes DEF EnqLoadHead
<1>2. CASE EnqCheck(p)
  <2> DEFINE n == Grant(pn[p], FreeEntries(p), pbeh[p])
  <2>1. n \in Nat /\ n <= pn[p]
    <3>1. pn[p] \in Nat /\ FreeEntries(p) \in Nat /\ pbeh[p] \in Behaviors
      BY RoomType, Sizes
    <3>2. QED
      BY <3>1, GrantBounds
  <2> HIDE DEF n
  <2>2. n \in 0 .. MaxN /\ n <= Len(pobj[p])
    BY <2>1, Sizes
  <2>3. /\ pn' = [pn EXCEPT ![p] = n]
        /\ ppc' = [ppc EXCEPT ![p] = IF n = 0 THEN "idle" ELSE "move"]
        /\ UNCHANGED <<shared, pold, pi, pobj, pbeh, dvars>>
    BY <1>2 DEF EnqCheck, n
  <2>4. QED
    BY <2>2, <2>3
<1>3. CASE EnqMoveHead(p)
  <2>1. Advance(pold[p], pn[p]) \in Index
    BY IndexClosed
  <2>2. QED
    BY <1>3, <2>1 DEF EnqMoveHead
<1>4. CASE EnqCopy(p)
  <2>1. SlotOf(pold[p] + pi[p]) \in Slots
    BY SlotRange, Sizes DEF Index
  <2>2. pi[p] + 1 \in 1 .. Len(pobj[p]) /\ pi[p] + 1 \in 0 .. MaxN
    BY <1>4, Sizes DEF EnqCopy
  <2>3. pobj[p][pi[p] + 1] \in Objs
    BY <2>2
  <2>4. QED
    BY <1>4, <2>1, <2>2, <2>3 DEF EnqCopy
<1>5. CASE EnqPublish(p)
  <2>1. Advance(pold[p], pn[p]) \in Index
    BY IndexClosed
  <2>2. QED
    BY <1>5, <2>1 DEF EnqPublish
<1>6. QED
  BY <1>1, <1>2, <1>3, <1>4, <1>5 DEF Produce

\* Every step of a consumer keeps the types.
LEMMA ConsumeType ==
  ASSUME TypeOK, NEW c \in Consumers, Consume(c)
  PROVE  TypeOK'
<1> USE DEF TypeOK, PCs, Behaviors, pvars, dvars, shared
<1>1. ASSUME NEW n \in 1 .. MaxN, NEW b \in Behaviors, DeqLoadHead(c, n, b)
      PROVE  TypeOK'
  BY <1>1, Sizes DEF DeqLoadHead
<1>2. CASE DeqCheck(c)
  <2> DEFINE n == Grant(dn[c], Entries(c), dbeh[c])
  <2>1. n \in Nat /\ n <= dn[c]
    <3>1. dn[c] \in Nat /\ Entries(c) \in Nat /\ dbeh[c] \in Behaviors
      BY RoomType, Sizes
    <3>2. QED
      BY <3>1, GrantBounds
  <2> HIDE DEF n
  <2>2. n \in 0 .. MaxN
    BY <2>1, Sizes
  <2>3. /\ dn' = [dn EXCEPT ![c] = n]
        /\ dpc' = [dpc EXCEPT ![c] = IF n = 0 THEN "idle" ELSE "move"]
        /\ UNCHANGED <<shared, pvars, dold, dbeh, dobj>>
    BY <1>2 DEF DeqCheck, n
  <2>4. QED
    BY <2>2, <2>3
<1>3. CASE DeqMoveHead(c)
  <2>1. Advance(dold[c], dn[c]) \in Index
    BY IndexClosed
  <2>2. QED
    BY <1>3, <2>1 DEF DeqMoveHead
<1>4. CASE DeqCopy(c)
  <2>1. SlotOf(dold[c] + Len(dobj[c])) \in Slots
    BY SlotRange, Sizes DEF Index
  <2>2. QED
    BY <1>4, <2>1 DEF DeqCopy
<1>5. CASE DeqRelease(c)
  <2>1. Advance(dold[c], dn[c]) \in Index
    BY IndexClosed
  <2>2. QED
    BY <1>5, <2>1 DEF DeqRelease
<1>6. QED
  BY <1>1, <1>2, <1>3, <1>4, <1>5 DEF Consume

\* The initial state has the types.
LEMMA InitType == Init => TypeOK
BY Sizes DEF Init, TypeOK, PCs, Behaviors, Index

\* Type correctness, for any number of producers and consumers: whatever the
\* threads do, indices stay uint32_t values and a table never outgrows its call.
THEOREM TypeCorrect == Spec => []TypeOK
<1>1. TypeOK /\ [Next]_vars => TypeOK'
  <2> SUFFICES ASSUME TypeOK, [Next]_vars PROVE TypeOK'
    OBVIOUS
  <2>1. CASE UNCHANGED vars
    BY <2>1 DEF TypeOK, vars, shared, pvars, dvars
  <2>2. CASE Next
    BY <2>2, ProduceType, ConsumeType DEF Next
  <2>3. QED
    BY <2>1, <2>2
<1>2. QED
  BY <1>1, InitType, PTL DEF Spec

-----------------------------------------------------------------------------
(* The order of the indices, for one producer and one consumer.            *)

\* An index is its base advanced by its distance from it.
LEMMA DistAdvance ==
  ASSUME NEW a \in Index, NEW b \in Index
  PROVE  Advance(b, Dist(a, b)) = a
<1>1. Dist(a, b) \in 0 .. IndexMod
  BY IndexClosed, Sizes DEF Index
<1>2. Dist(a, b) = IF a >= b THEN a - b ELSE a - b + IndexMod
  BY DistCases
<1>3. QED
  BY <1>1, <1>2, AdvanceCases, Sizes DEF Index

\* The three counts the invariant speaks of are natural numbers.
LEMMA CountsType ==
  ASSUME TypeOK
  PROVE  Claimed \in Index /\ Published \in Index /\ Taken \in Index
BY IndexClosed DEF TypeOK, Claimed, Published, Taken

\* What the steps of a producer find when they start: the counts are small and
\* the slots being written lie behind the published ones.
LEMMA Window ==
  ASSUME TypeOK, RingInv
  PROVE  /\ Taken \in Nat /\ Published \in Nat /\ Claimed \in Nat
         /\ Taken <= Published /\ Published <= Claimed /\ Claimed <= Capacity
         /\ Capacity < Size /\ Size <= IndexMod
         /\ prod_tail = Advance(cons_tail, Published)
         /\ \A j \in Nat : SlotOf(prod_tail + j) = SlotOf(cons_tail + Published + j)
<1>1. Taken \in Nat /\ Published \in Nat /\ Claimed \in Nat
  BY CountsType, Sizes DEF Index
<1>2. prod_tail = Advance(cons_tail, Published)
  BY DistAdvance DEF TypeOK, Published
<1>3. \A j \in Nat : SlotOf(prod_tail + j) = SlotOf(cons_tail + Published + j)
  BY <1>1, <1>2, SlotAdvance DEF TypeOK
<1>4. QED
  BY <1>1, <1>2, <1>3, Sizes DEF RingInv, IndexOrder

\* Loading prod.head keeps the invariant: it only fills the caller's locals.
LEMMA InvLoadHeadP ==
  ASSUME TypeOK, RingInv, SingleThreaded, NEW p \in Producers, NEW objs \in Tables,
         NEW b \in Behaviors, EnqLoadHead(p, objs, b)
  PROVE  RingInv'
<1> USE DEF EnqLoadHead, shared, dvars
<1>1. IndexOrder' /\ ContentsInv'
  BY DEF RingInv, IndexOrder, ContentsInv, Claimed, Published, Taken
<1>2. ASSUME NEW c \in Consumers PROVE ConsumerInv(c)'
  BY DEF RingInv, ConsumerInv, Published, Taken
<1>3. ProducerInv(p)'
  BY TablesType DEF RingInv, ProducerInv, TypeOK
<1>4. QED
  BY <1>1, <1>2, <1>3 DEF RingInv, SingleThreaded

\* The room computed from cons.tail is exactly the room left, so the grant fits.
LEMMA InvCheckP ==
  ASSUME TypeOK, RingInv, SingleThreaded, NEW p \in Producers, EnqCheck(p)
  PROVE  RingInv'
<1> DEFINE n == Grant(pn[p], FreeEntries(p), pbeh[p])
<1>0. /\ ppc[p] = "check"
      /\ pn' = [pn EXCEPT ![p] = n]
      /\ ppc' = [ppc EXCEPT ![p] = IF n = 0 THEN "idle" ELSE "move"]
      /\ UNCHANGED <<shared, pold, pi, pobj, pbeh, dvars>>
  BY DEF EnqCheck
<1>1. IndexOrder' /\ ContentsInv'
  BY <1>0 DEF RingInv, IndexOrder, ContentsInv, Claimed, Published, Taken, shared
<1>2. ASSUME NEW c \in Consumers PROVE ConsumerInv(c)'
  BY <1>0 DEF RingInv, ConsumerInv, Published, Taken, shared, dvars
<1>3. FreeEntries(p) = Capacity - Published
  <2>1. pold[p] = prod_tail /\ pold[p] \in Index /\ cons_tail \in Index
    BY <1>0 DEF RingInv, ProducerInv, TypeOK
  <2>2. Dist(pold[p], cons_tail) = Published
    BY <2>1 DEF Published
  <2>3. Published <= Capacity
    BY Window, Sizes
  <2>4. QED
    BY <2>1, <2>2, <2>3, RoomLeft DEF FreeEntries
<1>4. n \in Nat /\ n <= pn[p] /\ n <= Capacity - Published
  <2>1. pn[p] \in Nat /\ Capacity - Published \in Nat /\ pbeh[p] \in Behaviors
    BY Window, Sizes DEF TypeOK
  <2>2. QED
    BY <1>3, <2>1, GrantBounds
<1> HIDE DEF n
<1>5. ProducerInv(p)'
  <2>1. ppc'[p] = (IF n = 0 THEN "idle" ELSE "move") /\ pn'[p] = n
    BY <1>0 DEF TypeOK
  <2>2. Published' = Published
    BY <1>0 DEF Published, shared
  <2>3. pn[p] = Len(pobj[p]) /\ Len(pobj[p]) \in Nat
    BY <1>0 DEF RingInv, ProducerInv, TypeOK
  <2>4. Published + n <= Capacity
    BY <1>4, Window, Sizes
  <2>5. QED
    BY <1>0, <1>4, <2>1, <2>2, <2>3, <2>4 DEF RingInv, ProducerInv, shared
<1>6. QED
  BY <1>1, <1>2, <1>5 DEF RingInv, SingleThreaded

\* Moving prod.head claims the granted slots ahead of the published ones.
LEMMA InvMoveHeadP ==
  ASSUME TypeOK, RingInv, SingleThreaded, NEW p \in Producers, EnqMoveHead(p)
  PROVE  RingInv'
<1> USE DEF EnqMoveHead, dvars
<1>1. /\ pold[p] = prod_head /\ prod_head = prod_tail /\ pi[p] = 0
      /\ pn[p] \in 1 .. Len(pobj[p]) /\ Published + pn[p] <= Capacity
      /\ pn[p] \in Nat /\ pold[p] \in Index /\ cons_tail \in Index
  BY DEF RingInv, ProducerInv, TypeOK
<1>2. Claimed = Published
  BY <1>1 DEF Claimed, Published
<1>3. Published' = Published /\ Taken' = Taken
  BY DEF Published, Taken
<1>4. Claimed' = Published + pn[p]
  <2>1. Dist(pold[p], cons_tail) + pn[p] < IndexMod
    <3>1. Dist(pold[p], cons_tail) = Published
      BY <1>1 DEF Published
    <3>2. QED
      BY <1>1, <3>1, Window, Sizes
  <2>2. Dist(Advance(pold[p], pn[p]), cons_tail) = Dist(pold[p], cons_tail) + pn[p]
    BY <1>1, <2>1, DistAhead
  <2>3. QED
    BY <1>1, <2>2 DEF Claimed, Published
<1>5. IndexOrder' /\ ContentsInv'
  BY <1>1, <1>3, <1>4, Window DEF RingInv, IndexOrder, ContentsInv
<1>6. ASSUME NEW c \in Consumers PROVE ConsumerInv(c)'
  BY <1>3 DEF RingInv, ConsumerInv
<1>7. ProducerInv(p)'
  BY <1>1, <1>3, <1>4 DEF ProducerInv, TypeOK
<1>8. QED
  BY <1>5, <1>6, <1>7 DEF RingInv, SingleThreaded

\* Writing a claimed slot touches no published slot and no slot written before.
LEMMA InvCopyP ==
  ASSUME TypeOK, RingInv, SingleThreaded, NEW p \in Producers, EnqCopy(p)
  PROVE  RingInv'
<1> USE DEF EnqCopy, dvars
<1> DEFINE here == SlotOf(pold[p] + pi[p])
<1>1. /\ ppc[p] = "copy" /\ pold[p] = prod_tail /\ Claimed = Published + pn[p]
      /\ pi[p] \in Nat /\ pn[p] \in Nat /\ pi[p] < pn[p]
      /\ cons_tail \in Index /\ here \in Slots /\ prod_tail \in Index
  BY SlotRange, Sizes DEF RingInv, ProducerInv, TypeOK, Index
<1>2. here = SlotOf(cons_tail + Published + pi[p])
  BY <1>1, Window
<1> HIDE DEF here
<1>3. slot' = [slot EXCEPT ![here] = pobj[p][pi[p] + 1]]
  BY DEF here
<1>4. Published' = Published /\ Taken' = Taken /\ Claimed' = Claimed
  BY DEF Published, Taken, Claimed
<1>5. ASSUME NEW j \in Nat, j < Published + pn[p], j # Published + pi[p]
      PROVE  SlotOf(cons_tail + j) # here /\ slot'[SlotOf(cons_tail + j)] = slot[SlotOf(cons_tail + j)]
  <2>1. Published + pi[p] \in Nat /\ Published + pi[p] < Size /\ j < Size
    BY <1>1, <1>5, Window, Sizes
  <2>2. SlotOf(cons_tail + j) # SlotOf(cons_tail + (Published + pi[p]))
    BY <1>1, <1>5, <2>1, SlotsDiffer
  <2>3. cons_tail + (Published + pi[p]) = cons_tail + Published + pi[p]
    BY <1>1, <2>1, Window DEF Index
  <2>4. SlotOf(cons_tail + j) \in Slots
    BY <1>1, SlotRange, Sizes DEF Index
  <2>5. QED
    BY <1>1, <1>2, <1>3, <2>2, <2>3, <2>4 DEF TypeOK
<1>6. IndexOrder'
  BY <1>4 DEF RingInv, IndexOrder
<1>7. ContentsInv'
  BY <1>1, <1>4, <1>5, Window DEF RingInv, ContentsInv
<1>8. ASSUME NEW c \in Consumers PROVE ConsumerInv(c)'
  <2>1. ASSUME dpc[c] = "copy", NEW j \in 1 .. Len(dobj[c])
        PROVE  slot'[SlotOf(dold[c] + j - 1)] = slot[SlotOf(dold[c] + j - 1)]
    <3>1. /\ dold[c] = cons_tail /\ Len(dobj[c]) \in Nat /\ dn[c] \in Nat
          /\ dn[c] <= Published /\ Len(dobj[c]) <= dn[c]
      BY <2>1 DEF RingInv, ConsumerInv, TypeOK
    <3>2. j - 1 \in Nat /\ j - 1 < Published + pn[p] /\ j - 1 # Published + pi[p]
      BY <1>1, <2>1, <3>1, Window, SMTT(30)
    <3>3. slot'[SlotOf(cons_tail + (j - 1))] = slot[SlotOf(cons_tail + (j - 1))]
      BY <1>5, <3>2
    <3>4. dold[c] + j - 1 = cons_tail + (j - 1)
      BY <1>1, <3>1, <3>2, Sizes DEF Index
    <3>5. QED
      BY <3>3, <3>4
  <2>2. QED
    BY <1>4, <2>1 DEF RingInv, ConsumerInv
<1>9. ProducerInv(p)'
  <2>1. pi'[p] = pi[p] + 1
    BY DEF TypeOK
  <2>2. ASSUME NEW j \in 0 .. pi[p] PROVE slot'[SlotOf(pold[p] + j)] = pobj[p][j + 1]
    <3>1. CASE j = pi[p]
      BY <1>1, <1>3, <3>1 DEF TypeOK, here
    <3>2. CASE j # pi[p]
      <4>1. Published + j \in Nat /\ Published + j < Published + pn[p]
            /\ Published + j # Published + pi[p]
        BY <1>1, <3>2, Window
      <4>2. slot'[SlotOf(cons_tail + (Published + j))] = slot[SlotOf(cons_tail + (Published + j))]
        BY <1>5, <4>1
      <4>3. cons_tail + (Published + j) = cons_tail + Published + j
        BY <1>1, Window, Sizes DEF Index
      <4>4. SlotOf(pold[p] + j) = SlotOf(cons_tail + Published + j)
        BY <1>1, Window
      <4>5. slot[SlotOf(pold[p] + j)] = pobj[p][j + 1]
        BY <1>1, <3>2 DEF RingInv, ProducerInv
      <4>6. QED
        BY <4>2, <4>3, <4>4, <4>5
    <3>3. QED
      BY <3>1, <3>2
  <2>3. pi'[p] - 1 = pi[p] /\ pi'[p] <= pn[p]
    BY <1>1, <2>1
  <2>4. QED
    BY <1>1, <1>4, <2>1, <2>2, <2>3 DEF RingInv, ProducerInv
<1>10. QED
  BY <1>6, <1>7, <1>8, <1>9 DEF RingInv, SingleThreaded

\* Publishing makes the claimed slots, all written, part of the contents.
LEMMA InvPublishP ==
  ASSUME TypeOK, RingInv, SingleThreaded, NEW p \in Producers, EnqPublish(p)
  PROVE  RingInv'
<1> USE DEF EnqPublish, dvars
<1>1. /\ pold[p] = prod_tail /\ prod_head = Advance(pold[p], pn[p])
      /\ Claimed = Published + pn[p] /\ pi[p] = pn[p] /\ pn[p] \in 1 .. Len(pobj[p])
      /\ \A j \in 0 .. pi[p] - 1 : slot[SlotOf(pold[p] + j)] = pobj[p][j + 1]
      /\ Len(pobj[p]) \in Nat /\ pobj[p] \in Seq(Objs)
  BY DEF RingInv, ProducerInv, TypeOK
<1>2. prod_tail' = prod_head /\ ppc'[p] = "idle"
  BY <1>1 DEF TypeOK
<1>3. Published' = Claimed /\ Claimed' = Claimed /\ Taken' = Taken
  BY <1>2 DEF Published, Claimed, Taken
<1>4. IndexOrder'
  BY <1>3, Window, Sizes DEF IndexOrder
<1>5. ContentsInv'
  <2>1. ASSUME NEW j \in Nat, j < Claimed PROVE slot[SlotOf(cons_tail + j)] \in Objs
    <3>1. CASE j < Published
      BY <3>1, Window DEF RingInv, ContentsInv
    <3>2. CASE j >= Published
      <4> DEFINE i == j - Published
      <4>1. i \in 0 .. pi[p] - 1 /\ i \in Nat
        BY <1>1, <2>1, <3>2, Window
      <4>2. SlotOf(pold[p] + i) = SlotOf(cons_tail + Published + i)
        BY <1>1, <4>1, Window
      <4>3. cons_tail + Published + i = cons_tail + j
        <5>1. cons_tail \in Nat
          BY Sizes DEF TypeOK, Index
        <5>2. Published \in Nat
          BY Window
        <5>3. QED
          BY <5>1, <5>2
      <4>4. pobj[p][i + 1] \in Objs
        <5>1. i + 1 \in 1 .. Len(pobj[p])
          BY <1>1, <4>1
        <5> HIDE DEF i
        <5>2. QED
          BY <1>1, <5>1
      <4> HIDE DEF i
      <4>5. slot[SlotOf(pold[p] + i)] = pobj[p][i + 1]
        BY <1>1, <4>1
      <4>6. QED
        BY <4>2, <4>3, <4>4, <4>5
    <3>3. QED
      BY <3>1, <3>2, Window
  <2>2. QED
    BY <1>3, <2>1, Window DEF ContentsInv
<1>6. ASSUME NEW c \in Consumers PROVE ConsumerInv(c)'
  BY <1>3, Window DEF RingInv, ConsumerInv, TypeOK
<1>7. ProducerInv(p)'
  BY <1>2 DEF ProducerInv
<1>8. QED
  BY <1>4, <1>5, <1>6, <1>7 DEF RingInv, SingleThreaded

\* Loading cons.head keeps the invariant: it only fills the caller's locals.
LEMMA InvLoadHeadC ==
  ASSUME TypeOK, RingInv, SingleThreaded, NEW c \in Consumers, NEW n \in 1 .. MaxN,
         NEW b \in Behaviors, DeqLoadHead(c, n, b)
  PROVE  RingInv'
<1> USE DEF DeqLoadHead, shared, pvars
<1>1. IndexOrder' /\ ContentsInv'
  BY DEF RingInv, IndexOrder, ContentsInv, Claimed, Published, Taken
<1>2. ASSUME NEW p \in Producers PROVE ProducerInv(p)'
  BY DEF RingInv, ProducerInv, Published, Claimed
<1>3. ConsumerInv(c)'
  BY DEF RingInv, ConsumerInv, TypeOK
<1>4. QED
  BY <1>1, <1>2, <1>3 DEF RingInv, SingleThreaded

\* The entries computed from prod.tail are exactly the published ones.
LEMMA InvCheckC ==
  ASSUME TypeOK, RingInv, SingleThreaded, NEW c \in Consumers, DeqCheck(c)
  PROVE  RingInv'
<1> DEFINE n == Grant(dn[c], Entries(c), dbeh[c])
<1>0. /\ dpc[c] = "check"
      /\ dn' = [dn EXCEPT ![c] = n]
      /\ dpc' = [dpc EXCEPT ![c] = IF n = 0 THEN "idle" ELSE "move"]
      /\ UNCHANGED <<shared, pvars, dold, dbeh, dobj>>
  BY DEF DeqCheck
<1>1. IndexOrder' /\ ContentsInv'
  BY <1>0 DEF RingInv, IndexOrder, ContentsInv, Claimed, Published, Taken, shared
<1>2. ASSUME NEW p \in Producers PROVE ProducerInv(p)'
  BY <1>0 DEF RingInv, ProducerInv, Published, Claimed, shared, pvars
<1>3. Entries(c) = Published
  BY <1>0 DEF RingInv, ConsumerInv, Entries, Published
<1>4. n \in Nat /\ n <= Published
  <2>1. dn[c] \in Nat /\ Published \in Nat /\ dbeh[c] \in Behaviors
    BY Window, Sizes DEF TypeOK
  <2>2. QED
    BY <1>3, <2>1, GrantBounds
<1> HIDE DEF n
<1>5. ConsumerInv(c)'
  <2>1. dpc'[c] = (IF n = 0 THEN "idle" ELSE "move") /\ dn'[c] = n
    BY <1>0 DEF TypeOK
  <2>2. Published' = Published
    BY <1>0 DEF Published, shared
  <2>3. QED
    BY <1>0, <1>4, <2>1, <2>2, Window DEF RingInv, ConsumerInv, shared
<1>6. QED
  BY <1>1, <1>2, <1>5 DEF RingInv, SingleThreaded

\* Moving cons.head takes published slots only.
LEMMA InvMoveHeadC ==
  ASSUME TypeOK, RingInv, SingleThreaded, NEW c \in Consumers, DeqMoveHead(c)
  PROVE  RingInv'
<1> USE DEF DeqMoveHead, pvars
<1>1. /\ dold[c] = cons_head /\ cons_head = cons_tail /\ dobj[c] = <<>>
      /\ dn[c] \in 1 .. Published /\ dn[c] \in Nat /\ cons_tail \in Index
      /\ dpc'[c] = "copy"
  BY DEF RingInv, ConsumerInv, TypeOK
<1>2. Published' = Published /\ Claimed' = Claimed
  BY DEF Published, Claimed
<1>3. Taken' = dn[c]
  <2>1. Dist(cons_tail, cons_tail) = 0
    BY <1>1, DistSelf
  <2>2. 0 + dn[c] < IndexMod
    BY <1>1, Window, Sizes
  <2>3. Dist(Advance(cons_tail, dn[c]), cons_tail) = 0 + dn[c]
    BY <1>1, <2>1, <2>2, DistAhead
  <2>4. QED
    BY <1>1, <2>3 DEF Taken
<1>4. IndexOrder' /\ ContentsInv'
  BY <1>1, <1>2, <1>3, Window, Sizes DEF RingInv, IndexOrder, ContentsInv
<1>5. ASSUME NEW p \in Producers PROVE ProducerInv(p)'
  BY <1>2 DEF RingInv, ProducerInv
<1>6. ConsumerInv(c)'
  BY <1>1, <1>2, <1>3 DEF ConsumerInv
<1>7. QED
  BY <1>4, <1>5, <1>6 DEF RingInv, SingleThreaded

\* Reading a taken slot changes nothing shared.
LEMMA InvCopyC ==
  ASSUME TypeOK, RingInv, SingleThreaded, NEW c \in Consumers, DeqCopy(c)
  PROVE  RingInv'
<1> USE DEF DeqCopy, shared, pvars
<1>1. IndexOrder' /\ ContentsInv'
  BY DEF RingInv, IndexOrder, ContentsInv, Claimed, Published, Taken
<1>2. ASSUME NEW p \in Producers PROVE ProducerInv(p)'
  BY DEF RingInv, ProducerInv, Published, Claimed
<1>3. ConsumerInv(c)'
  <2> DEFINE o == slot[SlotOf(dold[c] + Len(dobj[c]))]
  <2>1. dobj'[c] = Append(dobj[c], o) /\ dobj[c] \in Seq(Objs \union {Garbage})
        /\ Len(dobj[c]) \in Nat /\ dn[c] \in Nat /\ dpc'[c] = "copy"
    BY DEF TypeOK
  <2>2. o = slot[SlotOf(dold[c] + (Len(dobj[c]) + 1) - 1)]
    BY <2>1, Sizes DEF TypeOK, Index
  <2> HIDE DEF o
  <2>3. Len(dobj'[c]) = Len(dobj[c]) + 1 /\ dobj'[c][Len(dobj[c]) + 1] = o
        /\ \A j \in 1 .. Len(dobj[c]) : dobj'[c][j] = dobj[c][j]
    BY <2>1
  <2>4. ASSUME NEW j \in 1 .. Len(dobj'[c])
        PROVE  dobj'[c][j] = slot[SlotOf(dold[c] + j - 1)]
    <3>1. CASE j = Len(dobj[c]) + 1
      BY <2>2, <2>3, <3>1
    <3>2. CASE j \in 1 .. Len(dobj[c])
      BY <2>3, <3>2 DEF RingInv, ConsumerInv
    <3>3. QED
      BY <2>1, <2>3, <3>1, <3>2
  <2>5. Len(dobj'[c]) <= dn[c]
    BY <2>1, <2>3
  <2>6. QED
    BY <2>1, <2>4, <2>5 DEF RingInv, ConsumerInv, Published, Taken
<1>4. QED
  BY <1>1, <1>2, <1>3 DEF RingInv, SingleThreaded

\* Releasing the slots shortens all three counts by what was taken.
LEMMA InvReleaseC ==
  ASSUME TypeOK, RingInv, SingleThreaded, NEW c \in Consumers, DeqRelease(c)
  PROVE  RingInv'
<1> USE DEF DeqRelease, pvars
<1>1. /\ dold[c] = cons_tail /\ cons_head = Advance(dold[c], dn[c]) /\ Taken = dn[c]
      /\ dn[c] \in 1 .. Published /\ dn[c] \in Nat /\ cons_tail \in Index
      /\ prod_tail \in Index /\ prod_head \in Index /\ cons_head \in Index
      /\ dpc'[c] = "idle"
  BY DEF RingInv, ConsumerInv, TypeOK
<1>2. cons_tail' = Advance(cons_tail, dn[c]) /\ cons_tail' = cons_head
  BY <1>1
<1>3. Published' = Published - dn[c]
  <2>1. dn[c] <= Dist(prod_tail, cons_tail)
    BY <1>1, Window DEF Published
  <2>2. QED
    BY <1>1, <1>2, <2>1, DistBehind DEF Published
<1>4. Claimed' = Claimed - dn[c]
  <2>1. dn[c] <= Claimed
    BY <1>1, Window
  <2>2. QED
    BY <1>1, <1>2, <2>1, DistBehind DEF Claimed
<1>5. Taken' = 0
  BY <1>1, <1>2, DistSelf DEF Taken
<1>6. IndexOrder'
  BY <1>1, <1>3, <1>4, <1>5, Window, Sizes DEF IndexOrder
<1>7. ContentsInv'
  <2>1. ASSUME NEW j \in Nat, j < Published - dn[c]
        PROVE  slot[SlotOf(cons_tail' + j)] \in Objs
    <3>1. SlotOf(Advance(cons_tail, dn[c]) + j) = SlotOf(cons_tail + dn[c] + j)
      BY <1>1, SlotAdvance
    <3>2. cons_tail + dn[c] + j = cons_tail + (dn[c] + j)
      BY <1>1, Sizes DEF Index
    <3>3. dn[c] + j \in 0 .. Published - 1
      BY <1>1, <2>1, Window
    <3>4. slot[SlotOf(cons_tail + (dn[c] + j))] \in Objs
      BY <3>3 DEF RingInv, ContentsInv
    <3>5. QED
      BY <1>2, <3>1, <3>2, <3>4
  <2>2. QED
    BY <1>1, <1>3, <2>1, Window DEF ContentsInv
<1>8. ASSUME NEW p \in Producers PROVE ProducerInv(p)'
  BY <1>1, <1>3, <1>4, Window, Sizes, SMTT(30) DEF RingInv, ProducerInv, TypeOK
<1>9. ConsumerInv(c)'
  BY <1>1, <1>2 DEF ConsumerInv
<1>10. QED
  BY <1>6, <1>7, <1>8, <1>9 DEF RingInv, SingleThreaded

\* The invariant holds of the empty ring.
LEMMA InvInit == Init => RingInv
<1> SUFFICES ASSUME Init PROVE RingInv
  OBVIOUS
<1>1. Claimed = 0 /\ Published = 0 /\ Taken = 0
  <2>1. 0 \in Index
    BY Sizes DEF Index
  <2>2. QED
    BY <2>1, DistSelf DEF Init, Claimed, Published, Taken
<1>2. IndexOrder /\ ContentsInv
  BY <1>1, Sizes DEF IndexOrder, ContentsInv
<1>3. QED
  BY <1>2 DEF Init, RingInv, ProducerInv, ConsumerInv

\* Every step of a ring with one producer and one consumer keeps the invariant.
LEMMA InvStep ==
  ASSUME SingleThreaded, TypeOK, RingInv, [Next]_vars
  PROVE  RingInv'
<1>1. CASE UNCHANGED vars
  BY <1>1 DEF vars, shared, pvars, dvars, RingInv, IndexOrder, ContentsInv, ProducerInv,
              ConsumerInv, Claimed, Published, Taken
<1>2. ASSUME NEW p \in Producers, Produce(p) PROVE RingInv'
  BY <1>2, InvLoadHeadP, InvCheckP, InvMoveHeadP, InvCopyP, InvPublishP DEF Produce
<1>3. ASSUME NEW c \in Consumers, Consume(c) PROVE RingInv'
  BY <1>3, InvLoadHeadC, InvCheckC, InvMoveHeadC, InvCopyC, InvReleaseC DEF Consume
<1>4. QED
  BY <1>1, <1>2, <1>3 DEF Next

\* The inductive invariant of a ring with one producer and one consumer: the
\* indices stay in order however the two threads interleave and wrap around.
THEOREM RingInvariant ==
  ASSUME SingleThreaded
  PROVE  Spec => []RingInv
<1>1. TypeOK /\ RingInv /\ [Next]_vars => RingInv'
  BY InvStep
<1>2. QED
  BY <1>1, InvInit, TypeCorrect, PTL DEF Spec

\* The claim of the comments in ring_c11_mem.h, for every size of ring.
THEOREM EntriesStayInRange ==
  ASSUME SingleThreaded
  PROVE  Spec => []EntriesInRange
<1>1. TypeOK /\ RingInv => EntriesInRange
  <2> SUFFICES ASSUME TypeOK, RingInv PROVE EntriesInRange
    OBVIOUS
  <2>1. ASSUME NEW p \in Producers, ppc[p] = "check"
        PROVE  FreeEntries(p) \in 0 .. Capacity
    <3>1. /\ pold[p] = prod_head /\ pold[p] \in Index /\ cons_tail \in Index
          /\ Dist(pold[p], cons_tail) = Claimed
      BY <2>1 DEF RingInv, ProducerInv, TypeOK, Claimed
    <3>2. Claimed \in Nat /\ Claimed <= Capacity
      BY Window, Sizes
    <3>3. FreeEntries(p) = Capacity - Claimed
      BY <3>1, <3>2, RoomLeft DEF FreeEntries
    <3>4. QED
      BY <3>2, <3>3, Sizes
  <2>2. ASSUME NEW c \in Consumers, dpc[c] = "check"
        PROVE  Entries(c) \in 0 .. Size - 1
    <3>1. Entries(c) = Published
      BY <2>2 DEF RingInv, ConsumerInv, Entries, Published
    <3>2. QED
      BY <3>1, Window, Sizes
  <2>3. QED
    BY <2>1, <2>2 DEF EntriesInRange
<1>2. QED
  BY <1>1, TypeCorrect, RingInvariant, PTL

\* ring_count, masked and capped as it is, counts exactly what is left.
THEOREM CountIsExact ==
  ASSUME SingleThreaded
  PROVE  Spec => []CountExact
<1>1. TypeOK /\ RingInv => CountExact
  <2> SUFFICES ASSUME TypeOK, RingInv, NEW c \in Consumers, dpc[c] = "idle"
               PROVE  RingCount = Dist(prod_tail, cons_head)
    BY DEF CountExact
  <2>1. Dist(prod_tail, cons_head) = Published
    BY DEF RingInv, ConsumerInv, Published
  <2>2. Published \in 0 .. Size - 1 /\ Published <= Capacity
    BY Window, Sizes
  <2>3. Published % Size = Published
    BY <2>2, ModSmall, Sizes
  <2>4. Dist(prod_tail, cons_tail) = Published
    BY DEF Published
  <2>5. QED
    BY <2>1, <2>2, <2>3, <2>4, Sizes DEF RingCount
<1>2. QED
  BY <1>1, TypeCorrect, RingInvariant, PTL

\* A slot being written lies behind the published ones, within one turn of the
\* table: it is the slot of no unread object.
LEMMA WritingIsFree ==
  ASSUME TypeOK, RingInv, NEW p \in Producers
  PROVE  Writing(p) \cap Unread = {}
<1> SUFFICES ASSUME ppc[p] = "copy",
                    NEW j \in pi[p] .. pn[p] - 1,
                    NEW i \in 0 .. Dist(prod_tail, cons_tail) - 1
             PROVE  SlotOf(pold[p] + j) # SlotOf(cons_tail + i)
  BY DEF Writing, Unread
<1>1. /\ pold[p] = prod_tail /\ Claimed = Published + pn[p]
      /\ pi[p] \in Nat /\ pn[p] \in Nat /\ cons_tail \in Index
      /\ Dist(prod_tail, cons_tail) = Published
  BY DEF RingInv, ProducerInv, TypeOK, Published
<1>2. j \in Nat /\ j < pn[p] /\ i \in Nat /\ i < Published
  BY <1>1, Window
<1>3. /\ Published + j \in Nat /\ Published + j < Size
      /\ i < Size /\ i # Published + j
  BY <1>1, <1>2, Window, Sizes
<1>4. SlotOf(cons_tail + i) # SlotOf(cons_tail + (Published + j))
  BY <1>1, <1>2, <1>3, SlotsDiffer
<1>5. cons_tail + (Published + j) = cons_tail + Published + j
  BY <1>1, <1>2, Window DEF Index
<1>6. SlotOf(pold[p] + j) = SlotOf(cons_tail + Published + j)
  BY <1>1, <1>2, Window
<1>7. QED
  BY <1>4, <1>5, <1>6

\* A slot being read holds an unread object.
LEMMA ReadingIsUnread ==
  ASSUME TypeOK, RingInv, NEW c \in Consumers
  PROVE  Reading(c) \subseteq Unread
<1> SUFFICES ASSUME dpc[c] = "copy", NEW j \in Len(dobj[c]) .. dn[c] - 1
             PROVE  SlotOf(dold[c] + j) \in Unread
  BY DEF Reading
<1>1. /\ dold[c] = cons_tail /\ dn[c] \in Nat /\ dn[c] <= Published
      /\ Len(dobj[c]) \in Nat /\ Dist(prod_tail, cons_tail) = Published
  BY Window DEF RingInv, ConsumerInv, TypeOK, Published
<1>2. j \in 0 .. Published - 1
  BY <1>1, Window
<1>3. QED
  BY <1>1, <1>2 DEF Unread

\* With one producer and one consumer the copy loops of ENQUEUE_PTRS and
\* DEQUEUE_PTRS never meet on a slot, for every size, burst and index width.
THEOREM SlotsAreNotRaced ==
  ASSUME SingleThreaded
  PROVE  Spec => []NoSlotRace
<1>1. TypeOK /\ RingInv => NoSlotRace
  <2> SUFFICES ASSUME TypeOK, RingInv PROVE NoSlotRace
    OBVIOUS
  <2>1. \A p \in Producers : Writing(p) \cap Unread = {}
    BY WritingIsFree
  <2>2. \A p \in Producers, c \in Consumers : Writing(p) \cap Reading(c) = {}
    BY <2>1, ReadingIsUnread
  <2>3. \A p, q \in Producers : p = q
    BY DEF SingleThreaded
  <2>4. QED
    BY <2>1, <2>2, <2>3 DEF NoSlotRace
<1>2. QED
  BY <1>1, TypeCorrect, RingInvariant, PTL

\* What the ring holds is as long as the distance of its tails.
LEMMA ContentsLength ==
  ASSUME TypeOK
  PROVE  Len(Contents) = Published /\ Published \in Nat
<1>1. Published \in Nat
  BY CountsType, Sizes DEF Index
<1>2. Dist(prod_tail, cons_tail) = Published
  BY DEF Published
<1> DEFINE f == [i \in 1 .. Published |-> slot[SlotOf(cons_tail + i - 1)]]
<1>3. Contents = f
  BY <1>2 DEF Contents
<1>4. Len(f) = Published
  BY <1>1
<1>5. QED
  BY <1>1, <1>3, <1>4

\* No call is refused, or cut, while the ring has the room or the objects.
THEOREM GrantsAreMaximal ==
  ASSUME SingleThreaded
  PROVE  Spec => GrantMaximal
<1>1. ASSUME TypeOK, RingInv, [Next]_vars, NEW p \in Producers, ShortEnqueue(p)
      PROVE  /\ Len(Contents) + Len(pobj[p]) > Capacity
             /\ pn'[p] = IF pbeh[p] = "FIXED" THEN 0 ELSE Capacity - Len(Contents)
  <2>1. EnqCheck(p)
    <3>1. ~ UNCHANGED vars
      BY <1>1 DEF ShortEnqueue, vars, pvars
    <3>2. ASSUME NEW c \in Consumers, Consume(c) PROVE FALSE
      BY <1>1, <3>2
      DEF ShortEnqueue, Consume, DeqLoadHead, DeqCheck, DeqMoveHead, DeqCopy, DeqRelease,
          pvars
    <3>3. PICK q \in Producers : Produce(q)
      BY <1>1, <3>1, <3>2 DEF Next
    <3>4. q = p
      BY DEF SingleThreaded
    <3>5. QED
      BY <1>1, <3>3, <3>4
      DEF ShortEnqueue, Produce, EnqLoadHead, EnqMoveHead, EnqCopy, EnqPublish
  <2>2. /\ pold[p] = prod_tail /\ pn[p] = Len(pobj[p]) /\ pbeh[p] \in Behaviors
        /\ pold[p] \in Index /\ cons_tail \in Index /\ Len(pobj[p]) \in Nat
    BY <1>1 DEF ShortEnqueue, RingInv, ProducerInv, TypeOK
  <2>3. Dist(pold[p], cons_tail) = Published /\ Published \in Nat /\ Published <= Capacity
    BY <1>1, <2>2, Window, Sizes DEF Published
  <2>4. FreeEntries(p) = Capacity - Published
    BY <2>2, <2>3, RoomLeft DEF FreeEntries
  <2>5. pn'[p] = Grant(Len(pobj[p]), Capacity - Published, pbeh[p])
    BY <1>1, <2>1, <2>2, <2>4 DEF EnqCheck, TypeOK
  <2>6. pn'[p] < Len(pobj[p])
    BY <1>1 DEF ShortEnqueue
  <2>7. Len(Contents) = Published
    BY <1>1, ContentsLength
  <2>8. QED
    BY <2>2, <2>3, <2>5, <2>6, <2>7, Sizes DEF Grant
<1>2. ASSUME TypeOK, RingInv, [Next]_vars, NEW c \in Consumers, ShortDequeue(c)
      PROVE  /\ dn[c] > Len(Contents)
             /\ dn'[c] = IF dbeh[c] = "FIXED" THEN 0 ELSE Len(Contents)
  <2>1. DeqCheck(c)
    <3>1. ~ UNCHANGED vars
      BY <1>2 DEF ShortDequeue, vars, dvars
    <3>2. ASSUME NEW p \in Producers, Produce(p) PROVE FALSE
      BY <1>2, <3>2
      DEF ShortDequeue, Produce, EnqLoadHead, EnqCheck, EnqMoveHead, EnqCopy, EnqPublish,
          dvars
    <3>3. PICK d \in Consumers : Consume(d)
      BY <1>2, <3>1, <3>2 DEF Next
    <3>4. d = c
      BY DEF SingleThreaded
    <3>5. QED
      BY <1>2, <3>3, <3>4
      DEF ShortDequeue, Consume, DeqLoadHead, DeqMoveHead, DeqCopy, DeqRelease
  <2>2. Entries(c) = Published /\ dn[c] \in Nat
    <3>1. dpc[c] = "check"
      BY <1>2 DEF ShortDequeue
    <3>2. dold[c] = cons_tail
      BY <1>2, <3>1 DEF RingInv, ConsumerInv
    <3>3. dn[c] \in Nat
      BY <1>2, Sizes DEF TypeOK
    <3>4. QED
      BY <3>2, <3>3 DEF Entries, Published
  <2>3. dn'[c] = Grant(dn[c], Published, dbeh[c])
    <3>1. dn' = [dn EXCEPT ![c] = Grant(dn[c], Entries(c), dbeh[c])]
      BY <2>1 DEF DeqCheck
    <3>2. dn \in [Consumers -> 0 .. MaxN]
      BY <1>2 DEF TypeOK
    <3>3. QED
      BY <2>2, <3>1, <3>2
  <2>4. dn'[c] < dn[c]
    BY <1>2 DEF ShortDequeue
  <2>5. Len(Contents) = Published /\ Published \in Nat
    BY <1>2, ContentsLength
  <2>6. QED
    BY <2>2, <2>3, <2>4, <2>5 DEF Grant
<1>3. TypeOK /\ RingInv /\ [Next]_vars => [ShortGrants]_vars
  BY <1>1, <1>2 DEF ShortGrants
<1>4. QED
  BY <1>3, TypeCorrect, RingInvariant, PTL DEF Spec, GrantMaximal

-----------------------------------------------------------------------------
(* Ring implements RingQueue, for one producer and one consumer: every step *)
(* of the ring is a step of the bounded FIFO or leaves its queue and its    *)
(* results alone.                                                           *)

\* What RingQueue calls "result".
Result == [c \in Consumers |-> IF dpc[c] = "idle" THEN dobj[c] ELSE <<>>]

-----------------------------------------------------------------------------
(* The contents of the ring.                                               *)

\* The place of the i-th oldest object.
Place(i) == SlotOf(cons_tail + i - 1)

ContentsFacts ==
  /\ Contents \in Seq(Objs) /\ Len(Contents) = Published /\ Published \in Nat
  /\ \A i \in 1 .. Published : Contents[i] = slot[Place(i)]

LEMMA ContentsSeq == TypeOK /\ RingInv => ContentsFacts
<1> SUFFICES ASSUME TypeOK, RingInv PROVE ContentsFacts
  OBVIOUS
<1>1. Len(Contents) = Published /\ Published \in Nat
  BY ContentsLength
<1>2. Contents = [i \in 1 .. Published |-> slot[Place(i)]]
  BY DEF Contents, Published, Place
<1>3. ASSUME NEW i \in 1 .. Published PROVE slot[Place(i)] \in Objs
  <2>1. i - 1 \in 0 .. Published - 1 /\ cons_tail + (i - 1) = cons_tail + i - 1
    BY <1>1, Sizes DEF TypeOK, Index
  <2>2. slot[SlotOf(cons_tail + (i - 1))] \in Objs
    BY <2>1 DEF RingInv, ContentsInv
  <2>3. QED
    BY <2>1, <2>2 DEF Place
<1>4. Contents \in Seq(Objs)
  BY <1>1, <1>2, <1>3
<1>5. QED
  BY <1>1, <1>2, <1>4 DEF ContentsFacts

\* The contents are determined by their length and their slots.
LEMMA ContentsSame ==
  ASSUME TypeOK, RingInv, TypeOK', RingInv', Published' = Published,
         \A i \in 1 .. Published : slot'[Place(i)'] = slot[Place(i)]
  PROVE  Contents' = Contents
<1>1. ContentsFacts
  BY ContentsSeq
<1>2. ContentsFacts'
  BY ContentsSeq, PTL
<1>3. QED
  BY <1>1, <1>2, SeqEqual DEF ContentsFacts

-----------------------------------------------------------------------------
(* The producer.                                                           *)

\* Until it publishes, what a producer does is invisible: it writes only slots
\* outside of the contents.
LEMMA ProducerStutters ==
  ASSUME SingleThreaded, TypeOK, RingInv, TypeOK', RingInv', NEW p \in Producers,
         \/ \E objs \in Tables, b \in Behaviors : EnqLoadHead(p, objs, b)
         \/ EnqCheck(p) \/ EnqMoveHead(p) \/ EnqCopy(p)
  PROVE  UNCHANGED <<Contents, Result>>
<1>1. UNCHANGED <<prod_tail, cons_tail, dvars>>
  BY DEF EnqLoadHead, EnqCheck, EnqMoveHead, EnqCopy, shared
<1>2. Published' = Published /\ Result' = Result
  BY <1>1 DEF Published, Result, dvars
<1>3. ASSUME NEW i \in 1 .. Published PROVE slot'[Place(i)'] = slot[Place(i)]
  <2>1. Place(i)' = Place(i)
    BY <1>1 DEF Place
  <2>2. CASE EnqCopy(p)
    <3>1. pi[p] \in pi[p] .. pn[p] - 1 /\ ppc[p] = "copy"
      BY <2>2 DEF EnqCopy, TypeOK
    <3>2. SlotOf(pold[p] + pi[p]) \in Writing(p)
      BY <3>1 DEF Writing
    <3>3. Place(i) \in Unread
      <4>1. i - 1 \in 0 .. Dist(prod_tail, cons_tail) - 1
        BY Window DEF Published
      <4>2. cons_tail + (i - 1) = cons_tail + i - 1
        BY Window, Sizes DEF TypeOK, Index
      <4>3. QED
        BY <4>1, <4>2 DEF Unread, Place
    <3>4. Place(i) # SlotOf(pold[p] + pi[p])
      BY <3>2, <3>3, WritingIsFree
    <3>5. QED
      BY <2>1, <2>2, <3>4 DEF EnqCopy
  <2>3. CASE UNCHANGED slot
    BY <2>1, <2>3
  <2>4. QED
    BY <2>2, <2>3 DEF EnqLoadHead, EnqCheck, EnqMoveHead, shared
<1>4. QED
  BY <1>2, <1>3, ContentsSame

\* Publishing is the enqueue of the objects that were granted.
LEMMA PublishEnqueues ==
  ASSUME SingleThreaded, TypeOK, RingInv, TypeOK', RingInv', NEW p \in Producers,
         EnqPublish(p)
  PROVE  \E n \in 1 .. Capacity : \E objs \in [1 .. n -> Objs] : Queue!Enqueue(objs)
<1> DEFINE n == pn[p]
           objs == [i \in 1 .. n |-> pobj[p][i]]
<1>1. /\ ppc[p] = "copy" /\ pi[p] = pn[p]
      /\ UNCHANGED <<cons_tail, slot, dvars>>
  BY DEF EnqPublish
<1>2. /\ pold[p] = prod_tail /\ prod_head = Advance(pold[p], pn[p])
      /\ Claimed = Published + n /\ n \in 1 .. Len(pobj[p])
      /\ \A j \in 0 .. n - 1 : slot[SlotOf(pold[p] + j)] = pobj[p][j + 1]
      /\ Len(pobj[p]) \in Nat /\ pobj[p] \in Seq(Objs) /\ cons_tail \in Index
  BY <1>1 DEF RingInv, ProducerInv, TypeOK
<1>3. Published' = Published + n
  BY <1>1, <1>2 DEF EnqPublish, Published, Claimed
<1>4. n \in 1 .. Capacity /\ n \in Nat /\ Published + n <= Capacity
  BY <1>2, Window, Sizes
<1>5. /\ objs \in [1 .. n -> Objs] /\ objs \in Seq(Objs) /\ Len(objs) = n /\ objs # <<>>
      /\ \A i \in 1 .. n : objs[i] = pobj[p][i]
  BY <1>2, <1>4, SMTT(30)
<1> HIDE DEF n, objs
<1>6. /\ ContentsFacts /\ ContentsFacts'
      /\ Contents \in Seq(Objs) /\ Len(Contents) = Published /\ Published \in Nat
  <2>1. ContentsFacts /\ ContentsFacts'
    BY ContentsSeq, PTL
  <2>2. QED
    BY <2>1 DEF ContentsFacts
<1>7. /\ Contents \o objs \in Seq(Objs) /\ Len(Contents \o objs) = Published + n
      /\ \A i \in 1 .. Published + n : (Contents \o objs)[i] =
           IF i <= Published THEN Contents[i] ELSE objs[i - Published]
  <2>1. /\ Contents \o objs \in Seq(Objs)
        /\ Len(Contents \o objs) = Len(Contents) + Len(objs)
        /\ \A i \in 1 .. Len(Contents) + Len(objs) : (Contents \o objs)[i] =
             IF i <= Len(Contents) THEN Contents[i] ELSE objs[i - Len(Contents)]
    BY <1>5, <1>6, ConcatProperties
  <2>2. QED
    BY <1>5, <1>6, <2>1
<1>8. ASSUME NEW i \in 1 .. Published + n PROVE Contents'[i] = (Contents \o objs)[i]
  <2>1. Contents'[i] = slot[Place(i)]
    BY <1>1, <1>3, <1>6 DEF ContentsFacts, Place
  <2>2. CASE i <= Published
    BY <1>6, <1>7, <2>1, <2>2 DEF ContentsFacts
  <2>3. CASE i > Published
    <3> DEFINE j == i - Published - 1
    <3>1. j \in 0 .. n - 1 /\ j \in Nat /\ j + 1 = i - Published /\ j + 1 \in 1 .. n
      BY <1>4, <1>6, <2>3 DEF ContentsFacts
    <3>2. cons_tail + Published + j = cons_tail + i - 1
      BY <1>2, <1>6, Sizes DEF Index, ContentsFacts
    <3> HIDE DEF j
    <3>3. SlotOf(pold[p] + j) = SlotOf(cons_tail + Published + j)
      BY <1>2, <3>1, Window
    <3>4. slot[Place(i)] = pobj[p][j + 1]
      BY <1>2, <3>1, <3>2, <3>3 DEF Place
    <3>5. (Contents \o objs)[i] = objs[j + 1]
      BY <1>6, <1>7, <2>3, <3>1
    <3>6. objs[j + 1] = pobj[p][j + 1]
      BY <1>5, <3>1
    <3>7. QED
      BY <2>1, <3>4, <3>5, <3>6
  <2>4. i <= Published \/ i > Published
    BY <1>4, <1>6
  <2>5. QED
    BY <2>2, <2>3, <2>4
<1>9. Contents' = Contents \o objs
  BY <1>3, <1>6, <1>7, <1>8, SeqEqual DEF ContentsFacts
<1>10. Result' = Result
  BY <1>1 DEF Result, dvars
<1>11. Len(Contents) + Len(objs) <= Capacity
  BY <1>4, <1>5, <1>6
<1>12. Queue!Enqueue(objs)
  BY <1>5, <1>9, <1>10, <1>11 DEF Queue!Enqueue, Result
<1>13. QED
  BY <1>4, <1>5, <1>12

-----------------------------------------------------------------------------
(* The consumer.                                                           *)

\* A dequeue that starts clears what the last one of its consumer returned.
LEMMA LoadHeadCalls ==
  ASSUME SingleThreaded, TypeOK, RingInv, TypeOK', RingInv', NEW c \in Consumers,
         NEW m \in 1 .. MaxN, NEW b \in Behaviors, DeqLoadHead(c, m, b)
  PROVE  Queue!Call(c)
<1>1. /\ dpc' = [dpc EXCEPT ![c] = "check"] /\ dobj' = [dobj EXCEPT ![c] = <<>>]
      /\ UNCHANGED shared
  BY DEF DeqLoadHead
<1>2. Contents' = Contents
  BY <1>1 DEF Contents, shared
<1>3. Result' = [Result EXCEPT ![c] = <<>>]
  BY <1>1 DEF Result, TypeOK
<1>4. QED
  BY <1>2, <1>3 DEF Queue!Call, Result

\* Until it releases, a consumer changes neither the queue nor its result; a
\* refused call ends with nothing.
LEMMA ConsumerStutters ==
  ASSUME SingleThreaded, TypeOK, RingInv, TypeOK', RingInv', NEW c \in Consumers,
         DeqCheck(c) \/ DeqMoveHead(c) \/ DeqCopy(c)
  PROVE  UNCHANGED <<Contents, Result>>
<1>1. UNCHANGED <<prod_tail, cons_tail, slot>>
  BY DEF DeqCheck, DeqMoveHead, DeqCopy, shared
<1>2. Contents' = Contents
  BY <1>1 DEF Contents
<1>3. \A d \in Consumers : d = c
  BY DEF SingleThreaded
<1>4. /\ dpc \in [Consumers -> PCs] /\ dpc' \in [Consumers -> PCs]
      /\ dpc[c] \in {"check", "move", "copy"}
  BY DEF TypeOK, DeqCheck, DeqMoveHead, DeqCopy
<1>5. dpc'[c] = "idle" => dobj'[c] = <<>>
  <2>1. CASE DeqCheck(c)
    BY <2>1 DEF RingInv, ConsumerInv, DeqCheck
  <2>2. CASE DeqMoveHead(c) \/ DeqCopy(c)
    BY <2>2, <1>4 DEF DeqMoveHead, DeqCopy
  <2>3. QED
    BY <2>1, <2>2
<1>6. Result' = Result
  BY <1>3, <1>4, <1>5 DEF Result
<1>7. QED
  BY <1>2, <1>6

\* Releasing is the dequeue of the objects that were copied, the oldest ones.
LEMMA ReleaseDequeues ==
  ASSUME SingleThreaded, TypeOK, RingInv, TypeOK', RingInv', NEW c \in Consumers,
         DeqRelease(c)
  PROVE  \E k \in 1 .. Len(Contents) : Queue!Dequeue(c, k)
<1> DEFINE k == dn[c]
<1>1. /\ dpc[c] = "copy" /\ Len(dobj[c]) = k /\ cons_tail' = Advance(dold[c], k)
      /\ dpc' = [dpc EXCEPT ![c] = "idle"]
      /\ UNCHANGED <<prod_tail, slot, dobj>>
  BY DEF DeqRelease
<1>2. /\ dold[c] = cons_tail /\ k \in 1 .. Published /\ k \in Nat /\ cons_tail \in Index
      /\ \A j \in 1 .. k : dobj[c][j] = slot[SlotOf(dold[c] + j - 1)]
      /\ dobj[c] \in Seq(Objs \union {Garbage}) /\ prod_tail \in Index
  BY <1>1, Window DEF RingInv, ConsumerInv, TypeOK
<1>3. Published' = Published - k
  BY <1>1, <1>2, DistBehind DEF Published
<1>4. ContentsFacts /\ ContentsFacts'
  BY ContentsSeq, PTL
<1> HIDE DEF k
<1>5. /\ Contents \in Seq(Objs) /\ Len(Contents) = Published /\ Published \in Nat
       /\ \A i \in 1 .. Published : Contents[i] \in Objs
  BY <1>4, ElementOfSeq DEF ContentsFacts
<1> DEFINE front == SubSeq(Contents, 1, k)
           rest == SubSeq(Contents, k + 1, Len(Contents))
<1>6. /\ front \in Seq(Objs) /\ Len(front) = k
      /\ \A j \in 1 .. k : front[j] = Contents[j]
  <2>1. \A i \in 1 .. k : Contents[i] \in Objs
    BY <1>2, <1>5
  <2>2. /\ front \in Seq(Objs) /\ Len(front) = IF 1 <= k THEN k - 1 + 1 ELSE 0
        /\ \A j \in 1 .. k - 1 + 1 : front[j] = Contents[1 + j - 1]
    BY <1>2, <2>1, SubSeqProperties
  <2> HIDE DEF front
  <2>3. QED
    BY <1>2, <2>2
<1>7. /\ rest \in Seq(Objs) /\ Len(rest) = Published - k
      /\ \A j \in 1 .. Published - k : rest[j] = Contents[k + j]
  <2> DEFINE m == k + 1
             n == Len(Contents)
  <2>1. m \in Int /\ n \in Int /\ n = Published /\ \A i \in m .. n : Contents[i] \in Objs
    BY <1>2, <1>5
  <2>2. /\ rest \in Seq(Objs) /\ Len(rest) = IF m <= n THEN n - m + 1 ELSE 0
        /\ \A j \in 1 .. n - m + 1 : rest[j] = Contents[m + j - 1]
    <3>1. SubSeq(Contents, m, n) = rest
      OBVIOUS
    <3> HIDE DEF m, n, rest
    <3>2. /\ SubSeq(Contents, m, n) \in Seq(Objs)
          /\ Len(SubSeq(Contents, m, n)) = IF m <= n THEN n - m + 1 ELSE 0
          /\ \A j \in 1 .. n - m + 1 : SubSeq(Contents, m, n)[j] = Contents[m + j - 1]
      BY <2>1, SubSeqProperties
    <3>3. QED
      BY <3>1, <3>2
  <2> HIDE DEF rest
  <2>3. QED
    BY <1>2, <1>5, <2>2
<1>8. dobj[c] = front
  <2>1. \A j \in 1 .. k : Contents[j] = dobj[c][j]
    <3>1. k <= Published /\ 1 .. k \subseteq 1 .. Published
      BY <1>2, <1>5
    <3>2. QED
      BY <1>2, <1>4, <3>1 DEF ContentsFacts, Place
  <2>2. front \in Seq(Objs \union {Garbage})
    BY <1>6, SeqMonotonic
  <2> HIDE DEF front
  <2>3. dobj[c] \in Seq(Objs \union {Garbage}) /\ Len(dobj[c]) = Len(front)
    BY <1>1, <1>2, <1>6 DEF k
  <2>4. \A j \in 1 .. Len(dobj[c]) : dobj[c][j] = front[j]
    BY <1>1, <1>6, <2>1 DEF k
  <2>5. QED
    BY <2>2, <2>3, <2>4, SeqEqual
<1>9. Contents' = rest
  <2>1. ASSUME NEW j \in 1 .. Published - k PROVE Contents'[j] = rest[j]
    <3>1. k + j \in 1 .. Published /\ j - 1 \in Nat
      BY <1>2, <1>4 DEF ContentsFacts
    <3>2. SlotOf(Advance(cons_tail, k) + (j - 1)) = SlotOf(cons_tail + k + (j - 1))
      BY <1>2, <3>1, SlotAdvance
    <3>3. /\ cons_tail + k + (j - 1) = cons_tail + (k + j) - 1
          /\ Advance(cons_tail, k) + (j - 1) = Advance(cons_tail, k) + j - 1
      <4>1. cons_tail \in Nat /\ Advance(cons_tail, k) \in Nat
        BY <1>2, IndexClosed, Sizes DEF Index
      <4>2. QED
        BY <1>2, <1>5, <4>1
    <3>4. Contents'[j] = slot[SlotOf(Advance(cons_tail, k) + j - 1)]
      BY <1>1, <1>2, <1>3, <1>4 DEF ContentsFacts, Place
    <3>5. Contents[k + j] = slot[SlotOf(cons_tail + (k + j) - 1)]
      BY <1>4, <3>1 DEF ContentsFacts, Place
    <3>6. QED
      BY <1>7, <3>2, <3>3, <3>4, <3>5
  <2> HIDE DEF rest
  <2>2. QED
    BY <1>3, <1>4, <1>7, <2>1, SeqEqual DEF ContentsFacts
<1>10. Result' = [Result EXCEPT ![c] = front]
  <2> HIDE DEF front
  <2>1. QED
    BY <1>1, <1>8 DEF Result, TypeOK
<1>11. Queue!Dequeue(c, k)
  BY <1>9, <1>10 DEF Queue!Dequeue, Result
<1>12. k \in 1 .. Len(Contents)
  BY <1>2, <1>5
<1> HIDE DEF front, rest
<1>13. QED
  BY <1>11, <1>12 DEF Queue!Dequeue

-----------------------------------------------------------------------------

LEMMA InitRefines == Init => Queue!Init
<1> SUFFICES ASSUME Init PROVE Queue!Init
  OBVIOUS
<1>1. Contents = <<>>
  <2>1. 0 \in Index
    BY Sizes DEF Index
  <2>2. Dist(prod_tail, cons_tail) = 0
    BY <2>1, DistSelf DEF Init
  <2>3. QED
    BY <2>2 DEF Contents
<1>2. Result = [c \in Consumers |-> <<>>]
  BY DEF Init, Result
<1>3. QED
  BY <1>1, <1>2 DEF Queue!Init, Result

LEMMA StepRefines ==
  SingleThreaded /\ TypeOK /\ RingInv /\ TypeOK' /\ RingInv' /\ [Next]_vars
    => [Queue!Next]_(Queue!vars)
<1> SUFFICES ASSUME SingleThreaded, TypeOK, RingInv, TypeOK', RingInv', [Next]_vars
             PROVE  [Queue!Next]_(Queue!vars)
  OBVIOUS
<1>1. UNCHANGED <<Contents, Result>> => UNCHANGED Queue!vars
  BY DEF Queue!vars, Result
<1>2. CASE UNCHANGED vars
  <2>1. UNCHANGED <<Contents, Result>>
    BY <1>2 DEF vars, shared, dvars, Contents, Result
  <2>2. QED
    BY <1>1, <2>1
<1>3. ASSUME NEW p \in Producers, Produce(p)
      PROVE  UNCHANGED <<Contents, Result>> \/ Queue!Next
  <2>1. CASE EnqPublish(p)
    BY <2>1, PublishEnqueues DEF Queue!Next
  <2>2. CASE ~ EnqPublish(p)
    BY <1>3, <2>2, ProducerStutters DEF Produce
  <2>3. QED
    BY <2>1, <2>2
<1>4. ASSUME NEW c \in Consumers, Consume(c)
      PROVE  UNCHANGED <<Contents, Result>> \/ Queue!Next
  <2>1. CASE \E n \in 1 .. MaxN, b \in Behaviors : DeqLoadHead(c, n, b)
    BY <2>1, LoadHeadCalls DEF Queue!Next
  <2>2. CASE DeqCheck(c) \/ DeqMoveHead(c) \/ DeqCopy(c)
    BY <2>2, ConsumerStutters
  <2>3. CASE DeqRelease(c)
    BY <2>3, ReleaseDequeues DEF Queue!Next
  <2>4. QED
    BY <1>4, <2>1, <2>2, <2>3 DEF Consume
<1>5. QED
  BY <1>1, <1>2, <1>3, <1>4 DEF Next

\* The lock-free ring is the bounded FIFO that ring.h promises, for every size,
\* index width and length of a call: what goes in comes out once and in order,
\* and an operation takes effect at a single step.
THEOREM RingImplementsQueue ==
  ASSUME SingleThreaded
  PROVE  Spec => ImplementsQueue
<1>1. Init => Queue!Init
  BY InitRefines
<1>2. TypeOK /\ RingInv /\ TypeOK' /\ RingInv' /\ [Next]_vars
        => [Queue!Next]_(Queue!vars)
  BY StepRefines
<1>3. QED
  BY <1>1, <1>2, TypeCorrect, RingInvariant, PTL DEF Spec, ImplementsQueue, Queue!Spec
=============================================================================
