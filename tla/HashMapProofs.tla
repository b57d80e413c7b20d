---------------------------- MODULE HashMapProofs ----------------------------
(***************************************************************************)
(* Proofs about HashMap: a table is a finite map.  The first part is about *)
(* loops: a recursive function over the rounds of a loop exists, and what  *)
(* a round preserves holds at the end.  Induction is stated for a set of   *)
(* numbers, from the least element that a set of numbers has.              *)
(***************************************************************************)
EXTENDS HashMap, SequenceTheorems, WellFoundedInduction, TLAPS

-----------------------------------------------------------------------------
(* Induction and recursion.                                                *)

LEMMA NatMin ==
  ASSUME NEW T \in SUBSET Nat, T # {}
  PROVE  \E m \in T : \A k \in T : m <= k
<1>1. IsWellFoundedOn({ss \in Nat \X Nat : ss[1] < ss[2]}, Nat)
  BY NatLessThanWellFounded DEF OpToRel
<1>2. PICK x \in T : \A y \in T : <<y, x>> \notin {ss \in Nat \X Nat : ss[1] < ss[2]}
  BY <1>1, WFMin
<1>3. ASSUME NEW y \in T PROVE x <= y
  <2>1. x \in Nat /\ y \in Nat /\ <<y, x>> \in Nat \X Nat
    OBVIOUS
  <2>2. ~ (<<y, x>>[1] < <<y, x>>[2])
    BY <1>2, <2>1
  <2>3. QED
    BY <2>1, <2>2
<1>4. QED
  BY <1>3

LEMMA Induction ==
  ASSUME NEW S, 0 \in S, \A n \in Nat : n \in S => n + 1 \in S
  PROVE  Nat \subseteq S
<1> SUFFICES ASSUME Nat \ S # {} PROVE FALSE
  OBVIOUS
<1>1. PICK m \in Nat \ S : \A k \in Nat \ S : m <= k
  BY NatMin
<1>2. m # 0 /\ m - 1 \in Nat
  OBVIOUS
<1>3. m - 1 \in S
  BY <1>1, <1>2
<1>4. QED
  BY <1>1, <1>2, <1>3

LEMMA UpTo ==
  ASSUME NEW n \in Nat, NEW S, 0 \in S,
         \A k \in Nat : k < n /\ k \in S => k + 1 \in S
  PROVE  \A k \in 0 .. n : k \in S
<1> DEFINE K == {k \in Nat : k <= n => k \in S}
<1>1. 0 \in K
  OBVIOUS
<1>2. ASSUME NEW k \in Nat, k \in K PROVE k + 1 \in K
  BY <1>2
<1>3. Nat \subseteq K
  <2> HIDE DEF K
  <2>1. QED
    BY <1>1, <1>2, Induction
<1>4. QED
  BY <1>3

\* Two loops that start the same and whose rounds do the same end the same.
LEMMA SameRounds ==
  ASSUME NEW n \in Nat, NEW f, NEW h, f[0] = h[0],
         \A i \in 1 .. n : f[i - 1] = h[i - 1] => f[i] = h[i]
  PROVE  \A i \in 0 .. n : f[i] = h[i]
<1> DEFINE S == {i \in Nat : f[i] = h[i]}
<1>1. 0 \in S
  OBVIOUS
<1>2. ASSUME NEW k \in Nat, k < n /\ k \in S PROVE k + 1 \in S
  <2> DEFINE i == k + 1
  <2>1. i \in 1 .. n /\ i - 1 = k
    BY <1>2
  <2> HIDE DEF i
  <2>2. f[i] = h[i]
    BY <1>2, <2>1
  <2>3. QED
    BY <2>1, <2>2 DEF i
<1>3. \A i \in 0 .. n : i \in S
  <2> HIDE DEF S
  <2>1. QED
    BY <1>1, <1>2, UpTo
<1>4. QED
  BY <1>3

\* f is what a loop from 1 to n makes of b when round i makes g[<<x, i>>] of x.
Rounds(f, X, n, b, g) ==
  f \in [0 .. n -> X] /\ f[0] = b /\ \A i \in 1 .. n : f[i] = g[<<f[i - 1], i>>]

LEMMA Recursion ==
  ASSUME NEW X, NEW n \in Nat, NEW b \in X, NEW g \in [X \X (1 .. n) -> X]
  PROVE  \E f : Rounds(f, X, n, b, g)
<1> DEFINE K == {k \in Nat : k <= n => \E f : Rounds(f, X, k, b, g)}
<1>1. 0 \in K
  <2>1. Rounds([i \in 0 .. 0 |-> b], X, 0, b, g)
    BY DEF Rounds
  <2>2. QED
    BY <2>1, Zenon
<1>2. ASSUME NEW k \in Nat, k \in K PROVE k + 1 \in K
  <2> SUFFICES ASSUME k + 1 <= n PROVE \E f : Rounds(f, X, k + 1, b, g)
    OBVIOUS
  <2>1. PICK f : Rounds(f, X, k, b, g)
    BY <1>2
  <2>2. f \in [0 .. k -> X] /\ f[0] = b /\ \A i \in 1 .. k : f[i] = g[<<f[i - 1], i>>]
    BY <2>1 DEF Rounds
  <2> DEFINE h == [i \in 0 .. k + 1 |-> IF i = k + 1 THEN g[<<f[k], k + 1>>] ELSE f[i]]
  <2>3. <<f[k], k + 1>> \in X \X (1 .. n)
    BY <2>2
  <2>4. h \in [0 .. k + 1 -> X]
    BY <2>2, <2>3
  <2>5. \A i \in 0 .. k : h[i] = f[i]
    OBVIOUS
  <2>6. h[k + 1] = g[<<f[k], k + 1>>] /\ h[k] = f[k]
    OBVIOUS
  <2> HIDE DEF h
  <2>7. ASSUME NEW i \in 1 .. k + 1 PROVE h[i] = g[<<h[i - 1], i>>]
    <3>1. CASE i = k + 1
      BY <3>1, <2>6
    <3>2. CASE i \in 1 .. k
      <4>1. i - 1 \in 0 .. k /\ i \in 0 .. k
        BY <3>2
      <4>2. QED
        BY <2>2, <2>5, <3>2, <4>1
    <3>3. QED
      BY <3>1, <3>2
  <2>8. h[0] = b
    BY <2>2, <2>5
  <2>9. Rounds(h, X, k + 1, b, g)
    BY <2>4, <2>7, <2>8 DEF Rounds
  <2>10. QED
    BY <2>9, Zenon
<1>3. Nat \subseteq K
  <2> HIDE DEF K
  <2>1. QED
    BY <1>1, <1>2, Induction
<1>4. QED
  BY <1>3

\* FlattenSeq, with the empty sequence as a start.
LEMMA FlattenRec ==
  ASSUME NEW V, NEW ss \in Seq(Seq(V))
  PROVE  \E f \in [0 .. Len(ss) -> Seq(V)] :
           /\ f[0] = <<>> /\ FlattenSeq(ss) = f[Len(ss)]
           /\ \A i \in 1 .. Len(ss) : f[i] = f[i - 1] \o ss[i]
<1>0. PICK n \in Nat : n = Len(ss)
  OBVIOUS
<1> DEFINE Eq(h) == h = [i \in 1 .. n |-> IF i = 1 THEN ss[i] ELSE h[i - 1] \o ss[i]]
           flat == CHOOSE h : Eq(h)
           g == [xi \in Seq(V) \X (1 .. n) |-> xi[1] \o ss[xi[2]]]
<1>1. n \in Nat
  OBVIOUS
<1>2. \A i \in 1 .. n : ss[i] \in Seq(V)
  BY <1>0
<1>3. g \in [Seq(V) \X (1 .. n) -> Seq(V)]
  <2>1. ASSUME NEW xi \in Seq(V) \X (1 .. n) PROVE xi[1] \o ss[xi[2]] \in Seq(V)
    BY <1>2
  <2>2. QED
    BY <2>1
<1>4. <<>> \in Seq(V)
  OBVIOUS
<1>5. PICK f : Rounds(f, Seq(V), n, <<>>, g)
  <2> HIDE DEF g
  <2>1. QED
    BY <1>3, <1>4, Recursion
<1>6. f \in [0 .. n -> Seq(V)] /\ f[0] = <<>> /\ \A i \in 1 .. n : f[i] = g[<<f[i - 1], i>>]
  BY <1>5 DEF Rounds
<1>7. ASSUME NEW i \in 1 .. n PROVE f[i] = f[i - 1] \o ss[i]
  <2>1. f[i - 1] \in Seq(V)
    BY <1>6
  <2>2. <<f[i - 1], i>> \in Seq(V) \X (1 .. n)
    BY <2>1
  <2>3. g[<<f[i - 1], i>>] = f[i - 1] \o ss[i]
    BY <2>2
  <2>4. QED
    BY <1>6, <2>3
<1>8. n # 0 => f[1] = ss[1]
  <2> SUFFICES ASSUME n # 0 PROVE f[1] = ss[1]
    OBVIOUS
  <2>1. 1 \in 1 .. n
    OBVIOUS
  <2>2. f[1] = f[1 - 1] \o ss[1] /\ ss[1] \in Seq(V)
    BY <1>2, <1>7, <2>1
  <2>3. f[1 - 1] = <<>>
    BY <1>6
  <2>4. QED
    BY <2>2, <2>3
<1>9. Eq([i \in 1 .. n |-> f[i]])
  <2> SUFFICES ASSUME NEW i \in 1 .. n
               PROVE  f[i] = IF i = 1 THEN ss[i] ELSE [j \in 1 .. n |-> f[j]][i - 1] \o ss[i]
    BY Zenon
  <2>1. CASE i = 1
    BY <1>8, <2>1
  <2>2. CASE i # 1
    <3>1. i - 1 \in 1 .. n
      BY <1>1, <2>2
    <3>2. QED
      BY <1>7, <2>2, <3>1
  <2>3. QED
    BY <2>1, <2>2
<1>10. Eq(flat)
  BY <1>9, Zenon
<1>11. ASSUME NEW i \in 1 .. n PROVE flat[i] = IF i = 1 THEN ss[i] ELSE flat[i - 1] \o ss[i]
  BY <1>10, Zenon
<1>12. \A i \in 1 .. n : flat[i] = f[i]
  <2> HIDE DEF flat, g
  <2> DEFINE K == {k \in Nat : k + 1 \in 1 .. n => flat[k + 1] = f[k + 1]}
  <2>1. 0 \in K
    BY <1>1, <1>8, <1>11
  <2>2. ASSUME NEW k \in Nat, k \in K PROVE k + 1 \in K
    <3> SUFFICES ASSUME NEW j \in 1 .. n, j = k + 2 PROVE flat[j] = f[j]
      OBVIOUS
    <3>1. k + 1 \in 1 .. n /\ j # 1 /\ j - 1 = k + 1
      BY <1>1
    <3>2. flat[k + 1] = f[k + 1]
      BY <2>2, <3>1
    <3>3. flat[j] = flat[j - 1] \o ss[j] /\ f[j] = f[j - 1] \o ss[j]
      BY <1>7, <1>11, <3>1
    <3>4. QED
      BY <3>1, <3>2, <3>3
  <2>3. Nat \subseteq K
    <3> HIDE DEF K
    <3>1. QED
      BY <2>1, <2>2, Induction
  <2>4. ASSUME NEW i \in 1 .. n PROVE flat[i] = f[i]
    <3>1. i - 1 \in Nat /\ i - 1 + 1 = i
      BY <1>1
    <3>2. QED
      BY <2>3, <3>1
  <2>5. QED
    BY <2>4
<1>13. FlattenSeq(ss) = f[n]
  <2>1. CASE n = 0
    <3>1. ss = <<>> /\ Len(ss) = 0
      BY <1>0, <2>1, EmptySeq
    <3>2. FlattenSeq(ss) = ss
      BY <3>1, Zenon DEF FlattenSeq
    <3>3. QED
      BY <2>1, <3>1, <3>2, <1>6
  <2>2. CASE n # 0
    <3>1. FlattenSeq(ss) = flat[n]
      BY <1>0, <2>2, Zenon DEF FlattenSeq
    <3>2. QED
      <4>1. n \in 1 .. n
        BY <2>2
      <4>2. QED
        BY <1>12, <3>1, <4>1
  <2>3. QED
    BY <2>1, <2>2
<1>14. QED
  BY <1>0, <1>6, <1>7, <1>13

-----------------------------------------------------------------------------
(* Concatenations.                                                         *)

LEMMA ConcatToSet ==
  ASSUME NEW V, NEW s \in Seq(V), NEW t \in Seq(V)
  PROVE  ToSet(s \o t) \subseteq ToSet(s) \cup ToSet(t)
<1>1. PICK m \in Nat : m = Len(s) /\ DOMAIN s = 1 .. m
  OBVIOUS
<1>2. PICK n \in Nat : n = Len(t) /\ DOMAIN t = 1 .. n
  OBVIOUS
<1>3. PICK u \in Seq(V) : u = s \o t /\ Len(u) = m + n
  BY <1>1, <1>2, ConcatProperties
<1>4. ASSUME NEW i \in DOMAIN u PROVE u[i] \in ToSet(s) \cup ToSet(t)
  <2>1. i \in 1 .. m + n
    BY <1>3
  <2>2. CASE i <= m
    <3>1. i \in DOMAIN s /\ u[i] = s[i]
      BY <1>1, <1>2, <1>3, <2>1, <2>2, ConcatProperties
    <3>2. QED
      BY <3>1 DEF ToSet
  <2>3. CASE i > m
    <3>1. PICK j \in DOMAIN t : j = i - m
      BY <1>2, <2>1, <2>3
    <3>2. u[i] = t[j]
      BY <1>1, <1>2, <1>3, <2>1, <2>3, <3>1, ConcatProperties
    <3>3. QED
      BY <3>2 DEF ToSet
  <2>4. QED
    BY <2>1, <2>2, <2>3
<1>5. QED
  BY <1>3, <1>4 DEF ToSet

\* Every element of the concatenation is from one of the sequences.
LEMMA FlattenRange ==
  ASSUME NEW V, NEW ss \in Seq(Seq(V))
  PROVE  /\ FlattenSeq(ss) \in Seq(V)
         /\ \A x \in ToSet(FlattenSeq(ss)) : \E i \in 1 .. Len(ss) : x \in ToSet(ss[i])
<1>1. PICK n \in Nat : n = Len(ss)
  OBVIOUS
<1>2. PICK f \in [0 .. n -> Seq(V)] :
        /\ f[0] = <<>> /\ FlattenSeq(ss) = f[n]
        /\ \A i \in 1 .. n : f[i] = f[i - 1] \o ss[i]
  BY <1>1, FlattenRec
<1> DEFINE From(k) == \A x \in ToSet(f[k]) : \E i \in 1 .. k : x \in ToSet(ss[i])
           S == {k \in 0 .. n : From(k)}
<1>3. 0 \in S
  BY <1>2 DEF ToSet
<1>4. ASSUME NEW k \in Nat, k < n /\ k \in S PROVE k + 1 \in S
  <2>1. PICK i \in 1 .. n : i = k + 1
    BY <1>4
  <2>2. i - 1 = k /\ f[k] \in Seq(V) /\ ss[i] \in Seq(V)
    BY <1>1, <1>4, <2>1
  <2>3. f[i] = f[k] \o ss[i]
    BY <1>2, <2>2
  <2>4. ToSet(f[i]) \subseteq ToSet(f[k]) \cup ToSet(ss[i])
    BY <2>2, <2>3, ConcatToSet
  <2>5. (1 .. k) \subseteq (1 .. i) /\ i \in 1 .. i
    BY <2>1
  <2>6. From(k)
    BY <1>4
  <2>7. From(i)
    BY <2>4, <2>5, <2>6, Zenon
  <2>8. QED
    BY <2>1, <2>7
<1>5. \A k \in 0 .. n : k \in S
  <2> HIDE DEF S
  <2>1. QED
    BY <1>3, <1>4, UpTo
<1>6. n \in 0 .. n
  OBVIOUS
<1>7. From(n) /\ f[n] \in Seq(V)
  BY <1>5, <1>6
<1>8. QED
  BY <1>1, <1>2, <1>7, Zenon

\* The place of an element of a concatenation.
LEMMA ConcatPlaces ==
  ASSUME NEW V, NEW s \in Seq(V), NEW t \in Seq(V)
  PROVE  /\ \A i \in 1 .. Len(s \o t) :
              \/ i \in DOMAIN s /\ (s \o t)[i] = s[i]
              \/ \E j \in DOMAIN t : i = Len(s) + j /\ (s \o t)[i] = t[j]
         /\ \A i \in DOMAIN s : i \in 1 .. Len(s \o t) /\ (s \o t)[i] = s[i]
         /\ \A j \in DOMAIN t : Len(s) + j \in 1 .. Len(s \o t) /\ (s \o t)[Len(s) + j] = t[j]
<1>1. PICK m \in Nat : m = Len(s) /\ DOMAIN s = 1 .. m
  OBVIOUS
<1>2. PICK n \in Nat : n = Len(t) /\ DOMAIN t = 1 .. n
  OBVIOUS
<1>3. PICK u \in Seq(V) : u = s \o t /\ Len(u) = m + n
  BY <1>1, <1>2, ConcatProperties
<1>4. \A i \in 1 .. m + n : u[i] = IF i <= m THEN s[i] ELSE t[i - m]
  BY <1>1, <1>2, <1>3, ConcatProperties
<1>5. ASSUME NEW i \in 1 .. m + n
      PROVE  (i \in 1 .. m /\ u[i] = s[i]) \/ \E j \in 1 .. n : i = m + j /\ u[i] = t[j]
  <2>1. CASE i <= m
    BY <1>4, <2>1
  <2>2. CASE i > m
    <3>1. PICK j \in 1 .. n : j = i - m
      BY <2>2
    <3>2. i = m + j /\ u[i] = t[j]
      BY <1>4, <2>2, <3>1
    <3>3. QED
      BY <3>2
  <2>3. QED
    BY <2>1, <2>2
<1>6. ASSUME NEW i \in 1 .. m PROVE i \in 1 .. m + n /\ u[i] = s[i]
  BY <1>4
<1>7. ASSUME NEW j \in 1 .. n PROVE m + j \in 1 .. m + n /\ u[m + j] = t[j]
  <2>1. PICK i \in 1 .. m + n : i = m + j
    OBVIOUS
  <2>2. ~ (i <= m) /\ i - m = j
    BY <2>1
  <2>3. QED
    BY <1>4, <2>1, <2>2
<1>8. Len(s \o t) = m + n /\ Len(s) = m /\ DOMAIN s = 1 .. m /\ DOMAIN t = 1 .. n
  BY <1>1, <1>2, <1>3
<1>9. QED
  BY <1>3, <1>5, <1>6, <1>7, <1>8, Zenon

-----------------------------------------------------------------------------
(* Masks.                                                                  *)

LEMMA MaskRounds ==
  ASSUME NEW n \in Nat
  PROVE  \E f \in [0 .. n -> Nat] :
           f[0] = 0 /\ MaskOf(n) = f[n] /\ \A i \in 1 .. n : f[i] = 2 * f[i - 1] + 1
<1> DEFINE Eq(h) == h = [i \in 0 .. n |-> IF i = 0 THEN 0 ELSE 2 * h[i - 1] + 1]
           low == CHOOSE h : Eq(h)
           g == [xi \in Nat \X (1 .. n) |-> 2 * xi[1] + 1]
<1>1. g \in [Nat \X (1 .. n) -> Nat]
  OBVIOUS
<1>2. PICK f : Rounds(f, Nat, n, 0, g)
  <2> HIDE DEF g
  <2>1. QED
    BY <1>1, Recursion
<1>3. f \in [0 .. n -> Nat] /\ f[0] = 0 /\ \A i \in 1 .. n : f[i] = g[<<f[i - 1], i>>]
  BY <1>2 DEF Rounds
<1>4. ASSUME NEW i \in 1 .. n PROVE f[i] = 2 * f[i - 1] + 1
  <2>1. <<f[i - 1], i>> \in Nat \X (1 .. n)
    BY <1>3
  <2>2. g[<<f[i - 1], i>>] = 2 * f[i - 1] + 1
    BY <2>1
  <2>3. QED
    BY <1>3, <2>2
<1>5. Eq([i \in 0 .. n |-> f[i]])
  <2> HIDE DEF g
  <2> SUFFICES ASSUME NEW i \in 0 .. n
               PROVE  f[i] = IF i = 0 THEN 0 ELSE 2 * [j \in 0 .. n |-> f[j]][i - 1] + 1
    BY Zenon
  <2>1. CASE i = 0
    BY <1>3, <2>1
  <2>2. CASE i # 0
    <3>1. i - 1 \in 0 .. n /\ i \in 1 .. n
      BY <2>2
    <3>2. QED
      BY <1>4, <2>2, <3>1
  <2>3. QED
    BY <2>1, <2>2
<1>6. Eq(low)
  BY <1>5, Zenon
<1>7. ASSUME NEW i \in 0 .. n PROVE low[i] = IF i = 0 THEN 0 ELSE 2 * low[i - 1] + 1
  BY <1>6, Zenon
<1>8. \A i \in 0 .. n : low[i] = f[i]
  <2> HIDE DEF low, g
  <2>1. low[0] = f[0]
    BY <1>3, <1>7
  <2>2. ASSUME NEW i \in 1 .. n, low[i - 1] = f[i - 1] PROVE low[i] = f[i]
    BY <1>4, <1>7, <2>2
  <2>3. QED
    BY <2>1, <2>2, SameRounds
<1>9. MaskOf(n) = low[n]
  BY Zenon DEF MaskOf
<1>10. n \in 0 .. n
  OBVIOUS
<1>11. MaskOf(n) = f[n]
  BY <1>8, <1>9, <1>10
<1>12. QED
  BY <1>3, <1>4, <1>11

\* A mask of k bits is a number, and at least k.
LEMMA MaskAtLeast ==
  ASSUME NEW n \in Nat
  PROVE  MaskOf(n) \in Nat /\ MaskOf(n) >= n
<1>1. PICK f \in [0 .. n -> Nat] :
        f[0] = 0 /\ MaskOf(n) = f[n] /\ \A i \in 1 .. n : f[i] = 2 * f[i - 1] + 1
  BY MaskRounds
<1> DEFINE S == {i \in Nat : i <= n => f[i] >= i}
<1>2. 0 \in S
  BY <1>1
<1>3. ASSUME NEW k \in Nat, k < n /\ k \in S PROVE k + 1 \in S
  <2>1. PICK i \in 1 .. n : i = k + 1
    BY <1>3
  <2>2. f[i] = 2 * f[i - 1] + 1 /\ i - 1 = k /\ f[k] \in Nat /\ f[k] >= k
    BY <1>1, <1>3, <2>1
  <2>3. QED
    BY <2>1, <2>2
<1>4. \A i \in 0 .. n : i \in S
  <2> HIDE DEF S
  <2>1. QED
    BY <1>2, <1>3, UpTo
<1>5. n \in 0 .. n
  OBVIOUS
<1>6. QED
  BY <1>1, <1>4, <1>5

\* The masks of no and of two bits.
LEMMA MaskSmall == MaskOf(0) = 0 /\ MaskOf(2) = 3
<1>1. PICK f \in [0 .. 0 -> Nat] :
        f[0] = 0 /\ MaskOf(0) = f[0] /\ \A i \in 1 .. 0 : f[i] = 2 * f[i - 1] + 1
  BY MaskRounds
<1>2. PICK h \in [0 .. 2 -> Nat] :
        h[0] = 0 /\ MaskOf(2) = h[2] /\ \A i \in 1 .. 2 : h[i] = 2 * h[i - 1] + 1
  BY MaskRounds
<1>3. h[1] = 2 * h[1 - 1] + 1 /\ h[2] = 2 * h[2 - 1] + 1
  BY <1>2
<1>4. QED
  BY <1>1, <1>2, <1>3

LEMMA MinIsLeast ==
  ASSUME NEW T \in SUBSET Nat, T # {}
  PROVE  Min(T) \in T /\ \A k \in T : Min(T) <= k
<1>1. \E m \in T : \A k \in T : m <= k
  BY NatMin
<1>2. QED
  BY <1>1, Zenon DEF Min

\* calc_mask returns a mask, of at least half the capacity and of no more bits than its
\* own value.
LEMMA CalcMaskIsMask ==
  ASSUME NEW c \in Nat
  PROVE  /\ CalcMask(c) \in Nat /\ CalcMask(c) >= c \div 2
         /\ \E k \in 0 .. CalcMask(c) : CalcMask(c) = MaskOf(k)
<1>1. PICK half \in Nat : half = c \div 2
  OBVIOUS
<1>2. CASE half = 1
  <2>1. CalcMask(c) = 3
    BY <1>1, <1>2 DEF CalcMask
  <2>2. QED
    BY <1>1, <1>2, <2>1, MaskSmall
<1>3. CASE half # 1
  <2>1. PICK T : T = {MaskOf(k) : k \in 0 .. half} \ (0 .. half - 1)
    OBVIOUS
  <2>2. CalcMask(c) = Min(T)
    BY <1>1, <1>3, <2>1 DEF CalcMask
  <2>3. \A x \in T : x \in Nat /\ x >= half /\ \E k \in 0 .. x : x = MaskOf(k)
    <3> SUFFICES ASSUME NEW k \in 0 .. half, MaskOf(k) \notin 0 .. half - 1
                 PROVE  MaskOf(k) \in Nat /\ MaskOf(k) >= half /\ k \in 0 .. MaskOf(k)
      BY <2>1
    <3>1. MaskOf(k) \in Nat /\ MaskOf(k) >= k
      BY MaskAtLeast
    <3>2. QED
      BY <3>1
  <2>4. MaskOf(half) \in T
    <3>1. MaskOf(half) \in Nat /\ MaskOf(half) >= half
      BY MaskAtLeast
    <3>2. half \in 0 .. half
      OBVIOUS
    <3>3. QED
      BY <2>1, <3>1, <3>2
  <2>5. Min(T) \in T
    BY <2>3, <2>4, MinIsLeast
  <2>6. QED
    BY <1>1, <2>2, <2>3, <2>5
<1>4. QED
  BY <1>2, <1>3

-----------------------------------------------------------------------------
(* Concatenations that differ in one part.                                 *)

\* u is s and then t, m the length of s.
Joined(u, s, t, m) ==
  /\ \A i \in DOMAIN u : \/ i \in DOMAIN s /\ u[i] = s[i]
                         \/ \E j \in DOMAIN t : i = m + j /\ u[i] = t[j]
  /\ \A i \in DOMAIN s : i \in DOMAIN u /\ u[i] = s[i]
  /\ \A j \in DOMAIN t : m + j \in DOMAIN u /\ u[m + j] = t[j]
  /\ \A i \in DOMAIN s, j \in DOMAIN t : i # m + j
  /\ \A i, j \in DOMAIN t : m + i = m + j => i = j

LEMMA ConcatJoins ==
  ASSUME NEW V, NEW s \in Seq(V), NEW t \in Seq(V)
  PROVE  Joined(s \o t, s, t, Len(s))
<1>1. PICK u \in Seq(V) : u = s \o t
  BY ConcatProperties, Zenon
<1>2. PICK m \in Nat : m = Len(s) /\ DOMAIN s = 1 .. m
  OBVIOUS
<1>3. DOMAIN u = 1 .. Len(u) /\ DOMAIN t \subseteq Nat \ {0}
  OBVIOUS
<1>4. /\ \A i \in DOMAIN u : \/ i \in DOMAIN s /\ u[i] = s[i]
                             \/ \E j \in DOMAIN t : i = m + j /\ u[i] = t[j]
      /\ \A i \in DOMAIN s : i \in DOMAIN u /\ u[i] = s[i]
      /\ \A j \in DOMAIN t : m + j \in DOMAIN u /\ u[m + j] = t[j]
  <2>1. /\ \A i \in 1 .. Len(s \o t) :
             \/ i \in DOMAIN s /\ (s \o t)[i] = s[i]
             \/ \E j \in DOMAIN t : i = Len(s) + j /\ (s \o t)[i] = t[j]
        /\ \A i \in DOMAIN s : i \in 1 .. Len(s \o t) /\ (s \o t)[i] = s[i]
        /\ \A j \in DOMAIN t : Len(s) + j \in 1 .. Len(s \o t) /\ (s \o t)[Len(s) + j] = t[j]
    BY ONLY ConcatPlaces, s \in Seq(V), t \in Seq(V), SMTT(30)
  <2>2. s \o t = u /\ Len(s) = m
    BY <1>1, <1>2
  <2>3. QED
    BY <1>3, <2>1, <2>2
<1>5. \A i \in DOMAIN s, j \in DOMAIN t : i # m + j
  BY <1>2, <1>3
<1>6. \A i, j \in DOMAIN t : m + i = m + j => i = j
  BY <1>3
<1>7. Joined(u, s, t, m)
  BY <1>4, <1>5, <1>6 DEF Joined
<1>8. QED
  BY <1>1, <1>2, <1>7

LEMMA ConcatSets ==
  ASSUME NEW V, NEW s \in Seq(V), NEW t \in Seq(V)
  PROVE  ToSet(s \o t) = ToSet(s) \cup ToSet(t)
<1>1. PICK u : u = s \o t
  OBVIOUS
<1>2. PICK m : m = Len(s)
  OBVIOUS
<1>3. Joined(u, s, t, m)
  BY <1>1, <1>2, ConcatJoins, Zenon
<1>4. ToSet(s) \subseteq ToSet(u) /\ ToSet(t) \subseteq ToSet(u)
  <2>1. \A i \in DOMAIN s : i \in DOMAIN u /\ u[i] = s[i]
    BY <1>3, Zenon DEF Joined
  <2>2. \A j \in DOMAIN t : m + j \in DOMAIN u /\ u[m + j] = t[j]
    BY <1>3, Zenon DEF Joined
  <2>3. QED
    BY <2>1, <2>2 DEF ToSet
<1>5. ToSet(u) \subseteq ToSet(s) \cup ToSet(t)
  BY <1>1, ConcatToSet, Zenon
<1>6. QED
  BY <1>1, <1>4, <1>5

\* No two nodes of s have one name; none of s has the name of one of t.
Apart(s) == \A i, j \in DOMAIN s : s[i].name = s[j].name => i = j
Unlike(s, t) == \A x \in ToSet(s), y \in ToSet(t) : x.name # y.name

LEMMA ApartConcat ==
  ASSUME NEW V, NEW s \in Seq(V), NEW t \in Seq(V)
  PROVE  Apart(s \o t) <=> Apart(s) /\ Apart(t) /\ Unlike(s, t)
<1>1. PICK u : u = s \o t
  OBVIOUS
<1>2. PICK m : m = Len(s)
  OBVIOUS
<1>3. Joined(u, s, t, m)
  BY <1>1, <1>2, ConcatJoins, Zenon
<1>4. ASSUME Apart(u) PROVE Apart(s) /\ Apart(t) /\ Unlike(s, t)
  <2>1. Apart(s)
    BY ONLY <1>3, <1>4 DEF Apart, Joined
  <2>2. Apart(t)
    <3> SUFFICES ASSUME NEW i \in DOMAIN t, NEW j \in DOMAIN t, t[i].name = t[j].name
                 PROVE  i = j
      BY DEF Apart
    <3>1. /\ m + i \in DOMAIN u /\ u[m + i] = t[i]
          /\ m + j \in DOMAIN u /\ u[m + j] = t[j]
          /\ m + i = m + j => i = j
      BY <1>3, Zenon DEF Joined
    <3>2. QED
      BY <1>4, <3>1 DEF Apart
  <2>3. Unlike(s, t)
    <3> SUFFICES ASSUME NEW i \in DOMAIN s, NEW j \in DOMAIN t, s[i].name = t[j].name
                 PROVE  FALSE
      BY DEF Unlike, ToSet
    <3>1. /\ i \in DOMAIN u /\ u[i] = s[i]
          /\ m + j \in DOMAIN u /\ u[m + j] = t[j]
          /\ i # m + j
      BY <1>3, Zenon DEF Joined
    <3>2. QED
      BY <1>4, <3>1 DEF Apart
  <2>4. QED
    BY <2>1, <2>2, <2>3
<1>5. ASSUME Apart(s), Apart(t), Unlike(s, t) PROVE Apart(u)
  <2>1. \A i \in DOMAIN s, j \in DOMAIN t : s[i].name # t[j].name
    BY <1>5 DEF Unlike, ToSet
  <2> SUFFICES ASSUME NEW i \in DOMAIN u, NEW j \in DOMAIN u, u[i].name = u[j].name
               PROVE  i = j
    BY DEF Apart
  <2>2. /\ (i \in DOMAIN s /\ u[i] = s[i]) \/ \E k \in DOMAIN t : i = m + k /\ u[i] = t[k]
        /\ (j \in DOMAIN s /\ u[j] = s[j]) \/ \E k \in DOMAIN t : j = m + k /\ u[j] = t[k]
    <3>1. (i \in DOMAIN s /\ u[i] = s[i]) \/ \E k \in DOMAIN t : i = m + k /\ u[i] = t[k]
      BY <1>3 DEF Joined
    <3>2. (j \in DOMAIN s /\ u[j] = s[j]) \/ \E k \in DOMAIN t : j = m + k /\ u[j] = t[k]
      BY <1>3 DEF Joined
    <3>3. QED
      BY <3>1, <3>2
  <2>3. CASE i \in DOMAIN s /\ u[i] = s[i]
    BY <1>5, <2>1, <2>2, <2>3, Zenon DEF Apart
  <2>4. CASE \E k \in DOMAIN t : i = m + k /\ u[i] = t[k]
    <3>1. PICK k \in DOMAIN t : i = m + k /\ u[i] = t[k]
      BY <2>4
    <3>2. PICK l \in DOMAIN t : j = m + l /\ u[j] = t[l]
      BY <2>1, <2>2, <3>1
    <3>3. k = l
      BY <1>5, <3>1, <3>2 DEF Apart
    <3>4. QED
      BY <3>1, <3>2, <3>3
  <2>5. QED
    BY <2>2, <2>3, <2>4
<1>6. QED
  BY <1>1, <1>4, <1>5, Zenon

\* f and h are the same but for u in f and t in h.
Around(V, f, h, u, t) == \E a, b \in Seq(V) : f = (a \o u) \o b /\ h = (a \o t) \o b

LEMMA AroundMore ==
  ASSUME NEW V, NEW f, NEW h, NEW u \in Seq(V), NEW t \in Seq(V), NEW c \in Seq(V),
         Around(V, f, h, u, t)
  PROVE  Around(V, f \o c, h \o c, u, t)
<1>1. PICK a \in Seq(V), b \in Seq(V) : f = (a \o u) \o b /\ h = (a \o t) \o b
  BY Zenon DEF Around
<1>2. a \o u \in Seq(V) /\ a \o t \in Seq(V) /\ b \o c \in Seq(V)
  BY ConcatProperties, Zenon
<1>3. f \o c = (a \o u) \o (b \o c) /\ h \o c = (a \o t) \o (b \o c)
  <2>1. ASSUME NEW d \in Seq(V) PROVE (d \o b) \o c = d \o (b \o c)
    BY ONLY ConcatAssociative, d \in Seq(V), b \in Seq(V), c \in Seq(V), SMTT(30)
  <2>2. QED
    BY <1>1, <1>2, <2>1, Zenon
<1>4. QED
  BY <1>2, <1>3, Zenon DEF Around

\* To change one of the sequences changes a part of their concatenation.
LEMMA FlattenChanged ==
  ASSUME NEW V, NEW ss \in Seq(Seq(V)), NEW p \in DOMAIN ss, NEW t \in Seq(V)
  PROVE  Around(V, FlattenSeq(ss), FlattenSeq([ss EXCEPT ![p] = t]), ss[p], t)
<1>1. PICK n \in Nat : n = Len(ss) /\ DOMAIN ss = 1 .. n
  OBVIOUS
<1>2. PICK tt \in Seq(Seq(V)) : tt = [ss EXCEPT ![p] = t] /\ Len(tt) = n
  <2>1. PICK W : W = Seq(V)
    OBVIOUS
  <2>2. ss \in Seq(W) /\ t \in W /\ p \in 1 .. n
    BY <1>1, <2>1
  <2>3. [ss EXCEPT ![p] = t] \in Seq(W) /\ Len([ss EXCEPT ![p] = t]) = n
    BY ONLY <1>1, <2>2
  <2>4. QED
    BY <2>1, <2>3
<1>3. tt[p] = t /\ \A i \in 1 .. n : i # p => tt[i] = ss[i]
  BY <1>1, <1>2
<1>4. PICK f \in [0 .. n -> Seq(V)] :
        /\ f[0] = <<>> /\ FlattenSeq(ss) = f[n]
        /\ \A i \in 1 .. n : f[i] = f[i - 1] \o ss[i]
  BY <1>1, FlattenRec
<1>5. PICK h \in [0 .. n -> Seq(V)] :
        /\ h[0] = <<>> /\ FlattenSeq(tt) = h[n]
        /\ \A i \in 1 .. n : h[i] = h[i - 1] \o tt[i]
  <2>1. \E h \in [0 .. Len(tt) -> Seq(V)] :
          /\ h[0] = <<>> /\ FlattenSeq(tt) = h[Len(tt)]
          /\ \A i \in 1 .. Len(tt) : h[i] = h[i - 1] \o tt[i]
    BY FlattenRec, Zenon
  <2>2. QED
    BY <1>2, <2>1
<1> DEFINE Place(k) == IF k < p THEN f[k] = h[k] ELSE Around(V, f[k], h[k], ss[p], t)
           S == {k \in 0 .. n : Place(k)}
<1>6. p \in 1 .. n /\ ss[p] \in Seq(V)
  BY <1>1
<1>7. 0 \in S
  BY <1>4, <1>5, <1>6
<1>8. ASSUME NEW k \in Nat, k < n /\ k \in S PROVE k + 1 \in S
  <2>1. PICK i \in 1 .. n : i = k + 1
    BY <1>8
  <2>0. PICK W : W = Seq(V)
    OBVIOUS
  <2>2. i - 1 = k /\ f[k] \in Seq(V) /\ h[k] \in Seq(V) /\ ss[i] \in Seq(V)
    <3>1. i - 1 = k /\ k \in 0 .. n /\ i \in DOMAIN ss
      BY <1>1, <1>8, <2>1
    <3>2. f \in [0 .. n -> W] /\ h \in [0 .. n -> W] /\ ss \in Seq(W)
      BY <2>0
    <3>3. f[k] \in W /\ h[k] \in W /\ ss[i] \in W
      BY <3>1, <3>2, SMTT(30)
    <3>4. QED
      BY <2>0, <3>1, <3>3
  <2>3. f[i] = f[k] \o ss[i] /\ h[i] = h[k] \o tt[i]
    BY <1>4, <1>5, <2>2
  <2>4. CASE i < p
    <3>1. f[k] = h[k] /\ tt[i] = ss[i]
      <4>1. k < p /\ i # p
        BY <1>1, <2>1, <2>4
      <4>2. QED
        BY <1>3, <1>8, <4>1
    <3>2. f[i] = h[i]
      BY <2>3, <3>1
    <3>3. QED
      BY <2>1, <2>4, <3>2
  <2>5. CASE i = p
    <3>1. f[k] = h[k] /\ tt[i] = t /\ ss[i] = ss[p]
      BY <1>3, <1>8, <2>1, <2>5
    <3>2. /\ f[k] \o ss[p] \in Seq(V) /\ f[k] \o t \in Seq(V) /\ <<>> \in Seq(V)
      BY <1>6, <2>2, ConcatProperties
    <3>3. f[i] = (f[k] \o ss[p]) \o <<>> /\ h[i] = (f[k] \o t) \o <<>>
      BY <2>3, <3>1, <3>2, ConcatEmptySeq
    <3>4. Around(V, f[i], h[i], ss[p], t)
      BY <2>2, <3>2, <3>3, Zenon DEF Around
    <3>5. QED
      BY <2>1, <2>5, <3>4
  <2>6. CASE i > p
    <3>1. Around(V, f[k], h[k], ss[p], t) /\ tt[i] = ss[i]
      BY <1>3, <1>8, <2>1, <2>6, SMTT(30)
    <3>2. Around(V, f[i], h[i], ss[p], t)
      BY <1>6, <2>2, <2>3, <3>1, AroundMore, ZenonT(60)
    <3>3. QED
      BY <1>6, <2>1, <2>6, <3>2
  <2>7. QED
    BY <1>6, <2>4, <2>5, <2>6
<1>9. \A k \in 0 .. n : k \in S
  <2> HIDE DEF S
  <2>1. QED
    BY <1>7, <1>8, UpTo
<1>10. n \in 0 .. n /\ ~ (n < p)
  BY <1>6
<1>11. Around(V, f[n], h[n], ss[p], t)
  BY <1>9, <1>10
<1>12. QED
  BY <1>2, <1>4, <1>5, <1>11

\* What a part gives to the whole.
Shares(V, f, h, u, t) ==
  /\ f \in Seq(V) /\ h \in Seq(V)
  /\ Len(h) + Len(u) = Len(f) + Len(t)
  /\ \E R : ToSet(f) = R \cup ToSet(u) /\ ToSet(h) = R \cup ToSet(t)

LEMMA AroundFacts ==
  ASSUME NEW V, NEW f, NEW h, NEW u \in Seq(V), NEW t \in Seq(V), Around(V, f, h, u, t)
  PROVE  Shares(V, f, h, u, t)
<1>1. PICK a \in Seq(V), b \in Seq(V) : f = (a \o u) \o b /\ h = (a \o t) \o b
  BY Zenon DEF Around
<1>2. a \o u \in Seq(V) /\ a \o t \in Seq(V) /\ f \in Seq(V) /\ h \in Seq(V)
  BY <1>1, ConcatProperties, Zenon
<1>3. Len(a \o u) = Len(a) + Len(u) /\ Len(a \o t) = Len(a) + Len(t)
  BY ConcatProperties, Zenon
<1>4. Len(f) = Len(a \o u) + Len(b) /\ Len(h) = Len(a \o t) + Len(b)
  BY <1>1, <1>2, ConcatProperties, Zenon
<1>5. Len(h) + Len(u) = Len(f) + Len(t)
  <2>1. {Len(a), Len(b), Len(u), Len(t)} \subseteq Nat
    OBVIOUS
  <2>2. QED
    BY <1>3, <1>4, <2>1
<1>6. /\ ToSet(f) = (ToSet(a) \cup ToSet(u)) \cup ToSet(b)
      /\ ToSet(h) = (ToSet(a) \cup ToSet(t)) \cup ToSet(b)
  <2>1. ToSet(a \o u) = ToSet(a) \cup ToSet(u)
    BY ConcatSets, Zenon
  <2>2. ToSet(a \o t) = ToSet(a) \cup ToSet(t)
    BY ConcatSets, Zenon
  <2>3. ToSet(f) = ToSet(a \o u) \cup ToSet(b)
    BY <1>1, <1>2, ConcatSets, ZenonT(60)
  <2>4. ToSet(h) = ToSet(a \o t) \cup ToSet(b)
    BY <1>1, <1>2, ConcatSets, ZenonT(60)
  <2>5. QED
    BY <2>1, <2>2, <2>3, <2>4, Zenon
<1>7. PICK R : R = ToSet(a) \cup ToSet(b)
  OBVIOUS
<1>8. ToSet(f) = R \cup ToSet(u) /\ ToSet(h) = R \cup ToSet(t)
  BY <1>6, <1>7
<1>9. QED
  BY <1>2, <1>5, <1>8, Zenon DEF Shares

\* When the names in the part are as unlike each other and the rest as before, so are
\* those of the whole.
LEMMA AroundApart ==
  ASSUME NEW V, NEW f, NEW h, NEW u \in Seq(V), NEW t \in Seq(V), Around(V, f, h, u, t),
         Apart(f), Apart(t),
         \A y \in ToSet(t) : \/ \E x \in ToSet(u) : x.name = y.name
                             \/ \A x \in ToSet(f) : x.name # y.name
  PROVE  Apart(h)
<1>1. PICK a \in Seq(V), b \in Seq(V) : f = (a \o u) \o b /\ h = (a \o t) \o b
  BY Zenon DEF Around
<1>2. a \o u \in Seq(V) /\ a \o t \in Seq(V)
  BY ConcatProperties, Zenon
<1>3. Apart(a \o u) /\ Apart(b) /\ Unlike(a \o u, b)
  BY <1>1, <1>2, ApartConcat, Zenon
<1>4. Apart(a) /\ Unlike(a, u)
  BY <1>3, ApartConcat, Zenon
<1>5. /\ ToSet(a \o u) = ToSet(a) \cup ToSet(u) /\ ToSet(a \o t) = ToSet(a) \cup ToSet(t)
      /\ ToSet(f) = ToSet(a \o u) \cup ToSet(b)
  <2>1. ToSet(a \o u) = ToSet(a) \cup ToSet(u)
    BY ConcatSets, ZenonT(60)
  <2>2. ToSet(a \o t) = ToSet(a) \cup ToSet(t)
    BY ConcatSets, ZenonT(60)
  <2>3. ToSet(f) = ToSet(a \o u) \cup ToSet(b)
    <3>1. \A d \in Seq(V) : ToSet(d \o b) = ToSet(d) \cup ToSet(b)
      BY ConcatSets, ZenonT(60)
    <3>2. QED
      BY <1>1, <1>2, <3>1
  <2>4. QED
    BY <2>1, <2>2, <2>3
<1>6. Unlike(a, t) /\ Unlike(t, b)
  <2>1. ASSUME NEW y \in ToSet(t) 
        PROVE  /\ \A x \in ToSet(a) : x.name # y.name
               /\ \A x \in ToSet(b) : x.name # y.name
    <3>1. CASE \E x \in ToSet(u) : x.name = y.name
      BY <1>3, <1>4, <1>5, <3>1 DEF Unlike
    <3>2. CASE \A x \in ToSet(f) : x.name # y.name
      BY <1>5, <3>2
    <3>3. QED
      BY <2>1, <3>1, <3>2
  <2>2. QED
    BY <2>1 DEF Unlike
<1>7. Apart(a \o t)
  BY <1>4, <1>6, ApartConcat, Zenon
<1>8. Unlike(a \o t, b)
  BY <1>3, <1>5, <1>6 DEF Unlike
<1>9. QED
  BY <1>1, <1>2, <1>3, <1>7, <1>8, ApartConcat, Zenon

-----------------------------------------------------------------------------
(* Tables whose data are from D.                                           *)

NodeSet(D) == [name : Names, data : D]
TableSet(D, k) == [mask : {k}, n : Nat, bucket : [0 .. k -> Seq(NodeSet(D))]]
Laid(m) == [i \in 1 .. m.mask + 1 |-> m.bucket[i - 1]]
Nodes(m) == ToSet(NodesOf(m))

\* What the insertion into a chain keeps, whatever the number of chains.
InBuckets(m) ==
  \A b \in 0 .. m.mask : \A x \in ToSet(m.bucket[b]) : BucketOf(m, x.name) = b
Table(m, D) ==
  /\ m.mask \in Nat /\ m \in TableSet(D, m.mask)
  /\ m.n = Len(NodesOf(m)) /\ InBuckets(m) /\ Apart(NodesOf(m))

\* A sound table: a power of two of chains, and no more nodes than its capacity.
Sound(m, D) ==
  /\ Table(m, D)
  /\ \E k \in 0 .. m.mask : m.mask = MaskOf(k)
  /\ m.n <= 2 * m.mask + 1

LEMMA SoundIsMapSound ==
  ASSUME NEW D, NEW m, Sound(m, D)
  PROVE  MapSound(m)
<1>1. m \in TableSet(D, m.mask) /\ Table(m, D)
  BY DEF Sound, Table
<1>2. DOMAIN m.bucket = 0 .. m.mask
  BY <1>1 DEF TableSet
<1>3. \A b \in 0 .. m.mask : \A i \in DOMAIN m.bucket[b] :
        BucketOf(m, m.bucket[b][i].name) = b
  BY <1>1 DEF Table, InBuckets, ToSet
<1>4. \A i, j \in DOMAIN NodesOf(m) : NodesOf(m)[i].name = NodesOf(m)[j].name => i = j
  BY <1>1, Zenon DEF Table, Apart
<1>5. m.n = Len(NodesOf(m)) /\ m.n <= 2 * m.mask + 1 /\ \E k \in 0 .. m.mask : m.mask = MaskOf(k)
  BY DEF Sound, Table
<1>6. QED
  BY <1>2, <1>3, <1>4, <1>5, Zenon DEF MapSound

LEMMA BucketIn ==
  ASSUME NEW D, NEW k \in Nat, NEW m \in TableSet(D, k), NEW name \in Names
  PROVE  BucketOf(m, name) \in 0 .. k
<1>1. HashOf[name] \in Nat /\ m.mask = k
  BY HashAssumption DEF TableSet
<1>2. QED
  BY <1>1 DEF BucketOf

LEMMA LaidSeq ==
  ASSUME NEW D, NEW k \in Nat, NEW m \in TableSet(D, k)
  PROVE  /\ Laid(m) \in Seq(Seq(NodeSet(D))) /\ DOMAIN Laid(m) = 1 .. k + 1
         /\ Len(Laid(m)) = k + 1 /\ NodesOf(m) = FlattenSeq(Laid(m))
         /\ \A b \in 0 .. k : Laid(m)[b + 1] = m.bucket[b]
<1>1. PICK W : W = Seq(NodeSet(D))
  OBVIOUS
<1>2. m.mask = k /\ m.bucket \in [0 .. k -> W]
  BY <1>1 DEF TableSet
<1>3. Laid(m) = [i \in 1 .. k + 1 |-> m.bucket[i - 1]]
  BY <1>2 DEF Laid
<1>4. \A i \in 1 .. k + 1 : m.bucket[i - 1] \in W
  BY <1>2
<1>5. Laid(m) \in Seq(W) /\ Len(Laid(m)) = k + 1 /\ DOMAIN Laid(m) = 1 .. k + 1
  BY <1>3, <1>4
<1>6. \A b \in 0 .. k : b + 1 \in 1 .. k + 1 /\ (b + 1) - 1 = b
  OBVIOUS
<1>7. NodesOf(m) = FlattenSeq(Laid(m))
  BY DEF NodesOf, Laid
<1>8. QED
  BY <1>1, <1>3, <1>5, <1>6, <1>7

\* A table whose chain b becomes t, and whose count becomes n.
With(m, n, b, t) == [m EXCEPT !.n = n, !.bucket[b] = t]

Changed(D, k, m, h, b, t) ==
  /\ h \in TableSet(D, k)
  /\ h.bucket = [m.bucket EXCEPT ![b] = t]
  /\ Around(NodeSet(D), NodesOf(m), NodesOf(h), m.bucket[b], t)

LEMMA ChainChanged ==
  ASSUME NEW D, NEW k \in Nat, NEW m \in TableSet(D, k), NEW b \in 0 .. k,
         NEW t \in Seq(NodeSet(D)), NEW n \in Nat
  PROVE  With(m, n, b, t).n = n /\ Changed(D, k, m, With(m, n, b, t), b, t)
<1>1. PICK W : W = Seq(NodeSet(D))
  OBVIOUS
<1>2. /\ m \in [mask : {k}, n : Nat, bucket : [0 .. k -> W]] /\ t \in W
  BY <1>1 DEF TableSet
<1>3. PICK h : h = With(m, n, b, t)
  OBVIOUS
<1>4. /\ h \in [mask : {k}, n : Nat, bucket : [0 .. k -> W]]
      /\ h.n = n /\ h.bucket = [m.bucket EXCEPT ![b] = t]
  BY <1>2, <1>3 DEF With
<1>5. h \in TableSet(D, k)
  BY <1>1, <1>4 DEF TableSet
<1>6. Laid(h) = [Laid(m) EXCEPT ![b + 1] = t]
  <2>1. m.mask = k /\ h.mask = k
    BY <1>2, <1>4
  <2>2. Laid(m) = [i \in 1 .. k + 1 |-> m.bucket[i - 1]]
    BY <2>1 DEF Laid
  <2>3. Laid(h) = [i \in 1 .. k + 1 |-> h.bucket[i - 1]]
    BY <2>1 DEF Laid
  <2>4. \A i \in 1 .. k + 1 : h.bucket[i - 1] = IF i = b + 1 THEN t ELSE m.bucket[i - 1]
    BY <1>2, <1>4
  <2>5. QED
    BY <2>2, <2>3, <2>4
<1>7. /\ Laid(m) \in Seq(Seq(NodeSet(D))) /\ b + 1 \in DOMAIN Laid(m)
      /\ NodesOf(m) = FlattenSeq(Laid(m)) /\ Laid(m)[b + 1] = m.bucket[b]
  BY LaidSeq
<1>8. NodesOf(h) = FlattenSeq(Laid(h))
  BY <1>5, LaidSeq
<1>9. Around(NodeSet(D), FlattenSeq(Laid(m)), FlattenSeq([Laid(m) EXCEPT ![b + 1] = t]),
             Laid(m)[b + 1], t)
  BY <1>7, FlattenChanged, Zenon
<1>10. QED
  BY <1>3, <1>4, <1>5, <1>6, <1>7, <1>8, <1>9 DEF Changed

-----------------------------------------------------------------------------
(* Insertion.                                                              *)

LEMMA ElementFirst ==
  ASSUME NEW V, NEW x \in V, NEW s \in Seq(V)
  PROVE  /\ <<x>> \o s \in Seq(V) /\ Len(<<x>> \o s) = Len(s) + 1
         /\ ToSet(<<x>> \o s) = ToSet(s) \cup {x}
         /\ Apart(s) /\ (\A y \in ToSet(s) : y.name # x.name) => Apart(<<x>> \o s)
<1>1. <<x>> \in Seq(V) /\ Len(<<x>>) = 1 /\ ToSet(<<x>>) = {x} /\ Apart(<<x>>)
  BY DEF ToSet, Apart
<1>2. PICK o \in Seq(V) : o = <<x>> /\ Len(o) = 1 /\ ToSet(o) = {x} /\ Apart(o)
  BY <1>1
<1>3. o \o s \in Seq(V) /\ Len(o \o s) = Len(o) + Len(s)
  BY ConcatProperties, Zenon
<1>4. ToSet(o \o s) = ToSet(o) \cup ToSet(s)
  BY ConcatSets, Zenon
<1>5. ASSUME Apart(s), \A y \in ToSet(s) : y.name # x.name PROVE Apart(o \o s)
  <2>1. Unlike(o, s)
    BY <1>2, <1>5 DEF Unlike
  <2>2. QED
    BY <1>2, <1>5, <2>1, ApartConcat, Zenon
<1>6. Len(s) \in Nat
  OBVIOUS
<1>7. QED
  BY <1>2, <1>3, <1>4, <1>5, <1>6

\* The insertion of x into m makes t of the chain b.
Puts(D, m, x, b, t) ==
  /\ b = BucketOf(m, x.name) /\ t = <<x>> \o m.bucket[b]
  /\ m.n + 1 \in Nat /\ InsertFast(m, x) = With(m, m.n + 1, b, t)
  /\ m.bucket[b] \in Seq(NodeSet(D))

LEMMA InsertFastIsWith ==
  ASSUME NEW D, NEW k \in Nat, NEW m \in TableSet(D, k), NEW x \in NodeSet(D)
  PROVE  \E b \in 0 .. k, t \in Seq(NodeSet(D)) : Puts(D, m, x, b, t)
<1>1. PICK b \in 0 .. k : b = BucketOf(m, x.name)
  BY BucketIn DEF NodeSet
<1>2. m.bucket[b] \in Seq(NodeSet(D)) /\ m.n + 1 \in Nat
  BY DEF TableSet
<1>3. PICK t \in Seq(NodeSet(D)) : t = <<x>> \o m.bucket[b]
  BY <1>2, ElementFirst, Zenon
<1>4. InsertFast(m, x) = With(m, m.n + 1, b, t)
  BY <1>1, <1>3 DEF InsertFast, With
<1>5. QED
  BY <1>1, <1>2, <1>3, <1>4 DEF Puts

LEMMA InsertFastType ==
  ASSUME NEW D, NEW k \in Nat, NEW m \in TableSet(D, k), NEW x \in NodeSet(D)
  PROVE  InsertFast(m, x) \in TableSet(D, k)
<1>1. PICK b \in 0 .. k, t \in Seq(NodeSet(D)) : Puts(D, m, x, b, t)
  BY InsertFastIsWith, Zenon
<1>2. PICK n \in Nat : n = m.n + 1 /\ InsertFast(m, x) = With(m, n, b, t)
  BY <1>1 DEF Puts
<1>3. Changed(D, k, m, With(m, n, b, t), b, t)
  BY ChainChanged, Zenon
<1>4. QED
  BY <1>2, <1>3 DEF Changed

\* A part that has one node more, with a new name.
OneMore(V, f, g, x) ==
  /\ f \in Seq(V) /\ g \in Seq(V) /\ Len(g) = Len(f) + 1
  /\ ToSet(g) = ToSet(f) \cup {x} /\ Apart(g)
LEMMA AroundOneMore ==
  ASSUME NEW V, NEW f, NEW g, NEW u \in Seq(V), NEW x \in V,
         Around(V, f, g, u, <<x>> \o u), Apart(f), \A y \in ToSet(f) : y.name # x.name
  PROVE  OneMore(V, f, g, x)
<1>1. PICK t \in Seq(V) : t = <<x>> \o u
  BY ElementFirst, Zenon
<1>2. Around(V, f, g, u, t)
  BY <1>1
<1>3. /\ Len(t) = Len(u) + 1 /\ ToSet(t) = ToSet(u) \cup {x}
      /\ Apart(u) /\ (\A y \in ToSet(u) : y.name # x.name) => Apart(t)
  BY <1>1, ElementFirst, ZenonT(60)
<1> Shares(V, f, g, u, t)
  BY <1>2, AroundFacts, Zenon
<1>4. f \in Seq(V) /\ g \in Seq(V) /\ Len(g) + Len(u) = Len(f) + Len(t)
  BY Zenon DEF Shares
<1>5. PICK R : ToSet(f) = R \cup ToSet(u) /\ ToSet(g) = R \cup ToSet(t)
  BY Zenon DEF Shares
<1>6. Len(g) = Len(f) + 1
  <2>1. {Len(f), Len(g), Len(u)} \subseteq Nat
    BY <1>4
  <2>2. QED
    BY <1>3, <1>4, <2>1
<1>7. ToSet(g) = ToSet(f) \cup {x}
  BY <1>3, <1>5
<1>8. Apart(u)
  <2>1. PICK a \in Seq(V), c \in Seq(V) : f = (a \o u) \o c
    BY <1>2, Zenon DEF Around
  <2>2. a \o u \in Seq(V)
    BY ConcatProperties, Zenon
  <2>3. Apart(a \o u)
    BY <2>1, <2>2, ApartConcat, Zenon
  <2>4. QED
    BY <2>3, ApartConcat, Zenon
<1>9. Apart(t)
  BY <1>3, <1>5, <1>8
<1>10. \A y \in ToSet(t) : \/ \E z \in ToSet(u) : z.name = y.name
                           \/ \A z \in ToSet(f) : z.name # y.name
  BY <1>3
<1>11. Apart(g)
  BY <1>2, <1>9, <1>10, AroundApart, Zenon
<1>12. QED
  BY <1>4, <1>6, <1>7, <1>11 DEF OneMore

\* hmap_insert_fast adds the node, when its name is new.
LEMMA InsertFastAdds ==
  ASSUME NEW D, NEW m, Table(m, D), NEW x \in NodeSet(D),
         \A y \in Nodes(m) : y.name # x.name
  PROVE  /\ Table(InsertFast(m, x), D) /\ Nodes(InsertFast(m, x)) = Nodes(m) \cup {x}
         /\ InsertFast(m, x).mask = m.mask /\ InsertFast(m, x).n = m.n + 1
<1>1. PICK k \in Nat : k = m.mask /\ m \in TableSet(D, k)
  BY DEF Table
<1>0. PICK b \in 0 .. k, t \in Seq(NodeSet(D)) : Puts(D, m, x, b, t)
  BY <1>1, InsertFastIsWith, Zenon
<1>2. /\ b = BucketOf(m, x.name) /\ t = <<x>> \o m.bucket[b]
      /\ m.n + 1 \in Nat /\ InsertFast(m, x) = With(m, m.n + 1, b, t)
      /\ m.bucket[b] \in Seq(NodeSet(D))
  BY <1>0 DEF Puts
<1>3. PICK u \in Seq(NodeSet(D)) : u = m.bucket[b]
  BY <1>2
<1>a. PICK n \in Nat : n = m.n + 1
  BY <1>2
<1>4. PICK h : h = InsertFast(m, x) /\ h = With(m, n, b, t)
  BY <1>2, <1>a
<1>5. /\ h \in TableSet(D, k) /\ h.n = m.n + 1
      /\ h.bucket = [m.bucket EXCEPT ![b] = t]
      /\ Around(NodeSet(D), NodesOf(m), NodesOf(h), u, t)
  <2>0. m \in TableSet(D, k)
    BY <1>1
  <2>1. Changed(D, k, m, With(m, n, b, t), b, t)
    BY <2>0, ChainChanged, Zenon
  <2>2. With(m, n, b, t).n = n
    BY <2>0 DEF With, TableSet
  <2>3. QED
    BY <1>3, <1>4, <1>a, <2>1, <2>2 DEF Changed
<1>6. Apart(NodesOf(m)) /\ m.n = Len(NodesOf(m)) /\ \A y \in ToSet(NodesOf(m)) : y.name # x.name
  BY DEF Table, Nodes
<1>7. Around(NodeSet(D), NodesOf(m), NodesOf(h), u, <<x>> \o u)
  BY <1>2, <1>3, <1>5
<1>8. /\ Len(NodesOf(h)) = Len(NodesOf(m)) + 1
      /\ ToSet(NodesOf(h)) = ToSet(NodesOf(m)) \cup {x} /\ Apart(NodesOf(h))
  <2>1. PICK f, g : f = NodesOf(m) /\ g = NodesOf(h)
    OBVIOUS
  <2>2. Around(NodeSet(D), f, g, u, <<x>> \o u) /\ Apart(f) /\ \A y \in ToSet(f) : y.name # x.name
    BY <1>6, <1>7, <2>1
  <2>3. OneMore(NodeSet(D), f, g, x)
    BY <2>2, AroundOneMore, Zenon
  <2>4. QED
    BY <2>1, <2>3 DEF OneMore
<1>9. ToSet(t) = ToSet(u) \cup {x}
  BY <1>2, <1>3, ElementFirst, Zenon
<1>16. InBuckets(h)
  <2>1. h.mask = k /\ m.mask = k
    BY <1>1, <1>5 DEF TableSet
  <2>2. \A name : BucketOf(h, name) = BucketOf(m, name)
    BY <2>1 DEF BucketOf
  <2>3. \A i \in 0 .. k : h.bucket[i] = IF i = b THEN t ELSE m.bucket[i]
    BY <1>1, <1>5 DEF TableSet
  <2>4. \A i \in 0 .. k : \A y \in ToSet(m.bucket[i]) : BucketOf(m, y.name) = i
    BY <2>1 DEF Table, InBuckets
  <2>5. \A y \in ToSet(t) : BucketOf(m, y.name) = b
    BY <1>2, <1>3, <1>9, <2>4
  <2>6. QED
    BY <2>1, <2>2, <2>3, <2>4, <2>5 DEF InBuckets
<1>17. h.mask = k
  BY <1>5 DEF TableSet
<1>18. Table(h, D)
  BY <1>5, <1>6, <1>8, <1>16, <1>17 DEF Table
<1>19. QED
  BY <1>1, <1>4, <1>5, <1>8, <1>17, <1>18 DEF Nodes

LEMMA NewTableEmpty ==
  ASSUME NEW D, NEW k \in Nat
  PROVE  /\ Table(NewTable(k), D) /\ NewTable(k) \in TableSet(D, k)
         /\ NodesOf(NewTable(k)) = <<>> /\ Nodes(NewTable(k)) = {}
         /\ NewTable(k).n = 0 /\ NewTable(k).mask = k
<1>1. PICK h : h = NewTable(k)
  OBVIOUS
<1>2. /\ h = [mask |-> k, n |-> 0, bucket |-> [i \in 0 .. k |-> <<>>]]
  BY <1>1 DEF NewTable
<1>3. h \in TableSet(D, k)
  <2>0. <<>> \in Seq(NodeSet(D))
    OBVIOUS
  <2>1. PICK W : W = Seq(NodeSet(D)) /\ <<>> \in W
    BY <2>0, Zenon
  <2>2. h \in [mask : {k}, n : Nat, bucket : [0 .. k -> W]]
    BY <1>2, <2>1
  <2>3. QED
    BY <2>1, <2>2 DEF TableSet
<1>4. \A b \in 0 .. k : h.bucket[b] = <<>>
  BY <1>2
<1>5. /\ Laid(h) \in Seq(Seq(NodeSet(D))) /\ Len(Laid(h)) = k + 1
      /\ NodesOf(h) = FlattenSeq(Laid(h)) /\ \A b \in 0 .. k : Laid(h)[b + 1] = h.bucket[b]
  BY <1>3, LaidSeq
<1>6. \A i \in 1 .. k + 1 : Laid(h)[i] = <<>>
  <2> SUFFICES ASSUME NEW i \in 1 .. k + 1 PROVE Laid(h)[i] = <<>>
    OBVIOUS
  <2>1. PICK b \in 0 .. k : i = b + 1
    BY i - 1 \in 0 .. k
  <2>2. QED
    BY <1>4, <1>5, <2>1
<1>7. PICK f \in Seq(NodeSet(D)) :
        f = NodesOf(h) /\ \A x \in ToSet(f) : \E i \in 1 .. k + 1 : x \in ToSet(Laid(h)[i])
  BY <1>5, FlattenRange
<1>8. ToSet(<<>>) = {}
  BY DEF ToSet
<1>9. ToSet(f) = {}
  BY <1>6, <1>7, <1>8
<1>10. f = <<>>
  <2>1. \A i \in DOMAIN f : f[i] \in ToSet(f)
    BY DEF ToSet
  <2>2. DOMAIN f = {}
    BY <1>9, <2>1
  <2>3. PICK l \in Nat : l = Len(f) /\ DOMAIN f = 1 .. l
    OBVIOUS
  <2>4. l = 0
    BY <2>2, <2>3
  <2>5. QED
    BY <2>3, <2>4, EmptySeq
<1>11. InBuckets(h)
  BY <1>2, <1>4, <1>8 DEF InBuckets
<1>12. Apart(<<>>) /\ Len(<<>>) = 0
  BY DEF Apart
<1>13. h.n = 0 /\ h.mask = k
  BY <1>2
<1>14. Table(h, D)
  BY <1>3, <1>7, <1>10, <1>11, <1>12, <1>13 DEF Table
<1>15. QED
  BY <1>1, <1>3, <1>7, <1>9, <1>10, <1>13, <1>14 DEF Nodes

-----------------------------------------------------------------------------
(* Growth.                                                                 *)

\* resize, node by node.
Resizing(f, D, m, k) ==
  /\ f \in [0 .. Len(NodesOf(m)) -> TableSet(D, k)]
  /\ f[0] = NewTable(k) /\ Resize(m, k) = f[Len(NodesOf(m))]
  /\ \A i \in 1 .. Len(NodesOf(m)) : f[i] = InsertFast(f[i - 1], NodesOf(m)[i])

LEMMA ResizeRounds ==
  ASSUME NEW D, NEW m, NEW k \in Nat, NodesOf(m) \in Seq(NodeSet(D))
  PROVE  \E f : Resizing(f, D, m, k)
<1>1. PICK s \in Seq(NodeSet(D)) : s = NodesOf(m)
  OBVIOUS
<1>2. PICK n \in Nat : n = Len(s)
  OBVIOUS
<1>a. PICK b : b = NewTable(k)
  OBVIOUS
<1>b. PICK X : X = TableSet(D, k)
  OBVIOUS
<1> DEFINE Eq(h) == h = [i \in 0 .. n |-> IF i = 0 THEN b ELSE InsertFast(h[i - 1], s[i])]
           tmp == CHOOSE h : Eq(h)
           g == [xi \in X \X (1 .. n) |-> InsertFast(xi[1], s[xi[2]])]
<1>3. \A i \in 1 .. n : s[i] \in NodeSet(D)
  BY <1>2
<1>4. g \in [X \X (1 .. n) -> X]
  <2>1. ASSUME NEW x \in X, NEW i \in 1 .. n PROVE InsertFast(x, s[i]) \in X
    BY <1>b, <1>3, InsertFastType
  <2>2. QED
    BY <2>1
<1>5. b \in X
  BY <1>a, <1>b, NewTableEmpty
<1>6. PICK f : Rounds(f, X, n, b, g)
  <2> HIDE DEF g
  <2>1. QED
    BY <1>4, <1>5, Recursion
<1>7. f \in [0 .. n -> X] /\ f[0] = b /\ \A i \in 1 .. n : f[i] = g[<<f[i - 1], i>>]
  BY <1>6 DEF Rounds
<1>8. ASSUME NEW i \in 1 .. n PROVE f[i] = InsertFast(f[i - 1], s[i])
  <2>1. f[i - 1] \in X
    BY <1>7
  <2>2. <<f[i - 1], i>> \in X \X (1 .. n)
    BY <2>1
  <2>3. g[<<f[i - 1], i>>] = InsertFast(f[i - 1], s[i])
    BY <2>2
  <2>4. QED
    BY <1>7, <2>3
<1>9. Eq([i \in 0 .. n |-> f[i]])
  <2> HIDE DEF g
  <2> SUFFICES ASSUME NEW i \in 0 .. n
               PROVE  f[i] = IF i = 0 THEN b
                             ELSE InsertFast([j \in 0 .. n |-> f[j]][i - 1], s[i])
    BY Zenon
  <2>1. CASE i = 0
    BY <1>7, <2>1
  <2>2. CASE i # 0
    <3>1. i - 1 \in 0 .. n /\ i \in 1 .. n
      BY <2>2
    <3>2. [j \in 0 .. n |-> f[j]][i - 1] = f[i - 1]
      BY <3>1
    <3>3. QED
      BY <1>8, <2>2, <3>1, <3>2
  <2>3. QED
    BY <2>1, <2>2
<1>10. Eq(tmp)
  BY <1>9, Zenon
<1>11. ASSUME NEW i \in 0 .. n
       PROVE  tmp[i] = IF i = 0 THEN b ELSE InsertFast(tmp[i - 1], s[i])
  BY <1>10, Zenon
<1>12. \A i \in 0 .. n : tmp[i] = f[i]
  <2>1. PICK h : h = tmp
    OBVIOUS
  <2> HIDE DEF tmp, g, Eq
  <2>2. ASSUME NEW i \in 0 .. n
        PROVE  h[i] = IF i = 0 THEN b ELSE InsertFast(h[i - 1], s[i])
    BY <1>11, <2>1
  <2>3. h[0] = f[0]
    BY <1>7, <2>2
  <2>4. ASSUME NEW i \in 1 .. n, h[i - 1] = f[i - 1] PROVE h[i] = f[i]
    <3>1. i \in 0 .. n /\ i # 0
      OBVIOUS
    <3>2. h[i] = InsertFast(h[i - 1], s[i])
      BY <2>2, <3>1
    <3>3. f[i] = InsertFast(f[i - 1], s[i])
      BY <1>8
    <3>4. QED
      BY <2>4, <3>2, <3>3
  <2>5. \A i \in 0 .. n : h[i] = f[i]
    <3>1. \A i \in 1 .. n : h[i - 1] = f[i - 1] => h[i] = f[i]
      BY <2>4
    <3>2. QED
      BY ONLY <2>3, <3>1, n \in Nat, SameRounds, SMTT(30)
  <2>6. QED
    BY <2>1, <2>5
<1>13. Resize(m, k) = tmp[n]
  BY <1>1, <1>2, <1>a, Zenon DEF Resize
<1>14. Resize(m, k) = f[n]
  <2>1. n \in 0 .. n
    OBVIOUS
  <2>2. QED
    BY <1>12, <1>13, <2>1
<1>15. Resizing(f, D, m, k)
  BY <1>1, <1>2, <1>a, <1>b, <1>7, <1>8, <1>14 DEF Resizing
<1>16. QED
  BY <1>15, Zenon

\* resize keeps the nodes.
LEMMA ResizeKeeps ==
  ASSUME NEW D, NEW m, Table(m, D), NEW k \in Nat
  PROVE  /\ Table(Resize(m, k), D) /\ Nodes(Resize(m, k)) = Nodes(m)
         /\ Resize(m, k).mask = k /\ Resize(m, k).n = m.n
<1>1. NodesOf(m) \in Seq(NodeSet(D))
  <2>1. m.mask \in Nat /\ m \in TableSet(D, m.mask)
    BY DEF Table
  <2>2. Laid(m) \in Seq(Seq(NodeSet(D))) /\ NodesOf(m) = FlattenSeq(Laid(m))
    BY <2>1, LaidSeq
  <2>3. QED
    BY <2>2, FlattenRange
<1>2. PICK s \in Seq(NodeSet(D)) : s = NodesOf(m)
  BY <1>1
<1>3. PICK n \in Nat : n = Len(s) /\ DOMAIN s = 1 .. n
  OBVIOUS
<1>4. PICK f : Resizing(f, D, m, k)
  BY <1>1, ResizeRounds
<1>5. /\ f \in [0 .. n -> TableSet(D, k)] /\ f[0] = NewTable(k) /\ Resize(m, k) = f[n]
      /\ \A i \in 1 .. n : f[i] = InsertFast(f[i - 1], s[i])
  BY <1>2, <1>3, <1>4 DEF Resizing
<1>6. Apart(s) /\ m.n = n
  BY <1>2, <1>3 DEF Table
<1> DEFINE Up(i) == {s[j] : j \in 1 .. i}
           Good(i) == Table(f[i], D) /\ Nodes(f[i]) = Up(i) /\ f[i].mask = k /\ f[i].n = i
           S == {i \in 0 .. n : Good(i)}
<1>7. 0 \in S
  <2>1. Table(f[0], D) /\ Nodes(f[0]) = {} /\ f[0].mask = k /\ f[0].n = 0
    BY <1>5, NewTableEmpty
  <2>2. Up(0) = {}
    OBVIOUS
  <2>3. QED
    BY <2>1, <2>2
<1>8. ASSUME NEW i \in Nat, i < n /\ i \in S PROVE i + 1 \in S
  <2>1. PICK j \in 1 .. n : j = i + 1 /\ j - 1 = i
    BY <1>8
  <2>2. PICK h : h = f[i]
    OBVIOUS
  <2>3. f[j] = InsertFast(h, s[j]) /\ s[j] \in NodeSet(D)
    BY <1>3, <1>5, <2>1, <2>2
  <2>4. Table(h, D) /\ Nodes(h) = Up(i) /\ h.mask = k /\ h.n = i
    BY <1>8, <2>2
  <2>5. \A y \in Nodes(h) : y.name # s[j].name
    <3> SUFFICES ASSUME NEW l \in 1 .. i, s[l].name = s[j].name PROVE FALSE
      BY <2>4
    <3>1. l \in DOMAIN s /\ j \in DOMAIN s /\ l # j
      BY <1>3, <2>1
    <3>2. QED
      BY <1>6, <3>1 DEF Apart
  <2>6. /\ Table(f[j], D) /\ Nodes(f[j]) = Nodes(h) \cup {s[j]}
        /\ f[j].mask = k /\ f[j].n = i + 1
    BY <2>3, <2>4, <2>5, InsertFastAdds
  <2>7. Up(j) = Up(i) \cup {s[j]}
    <3>1. (1 .. j) = (1 .. i) \cup {j}
      BY <2>1
    <3>2. QED
      BY <3>1
  <2>8. Good(j)
    BY <2>1, <2>4, <2>6, <2>7
  <2>9. QED
    BY <2>1, <2>8
<1>9. \A i \in 0 .. n : i \in S
  <2> HIDE DEF S
  <2>1. QED
    BY <1>7, <1>8, UpTo
<1>10. Good(n)
  <2>1. n \in 0 .. n
    OBVIOUS
  <2>2. QED
    BY <1>9, <2>1
<1>11. Up(n) = Nodes(m)
  BY <1>2, <1>3 DEF Nodes, ToSet
<1>12. QED
  BY <1>5, <1>6, <1>10, <1>11

\* hmap_insert: the table stays sound, and has the node more.
LEMMA InsertAdds ==
  ASSUME NEW D, NEW m, Sound(m, D), NEW x \in NodeSet(D), \A y \in Nodes(m) : y.name # x.name
  PROVE  Sound(Insert(m, x), D) /\ Nodes(Insert(m, x)) = Nodes(m) \cup {x}
<1>1. PICK f : f = InsertFast(m, x)
  OBVIOUS
<1>2. Table(m, D) /\ m.mask \in Nat /\ m.n \in Nat /\ m.n <= 2 * m.mask + 1
      /\ \E k \in 0 .. m.mask : m.mask = MaskOf(k)
  BY DEF Sound, Table, TableSet
<1>3. Table(f, D) /\ Nodes(f) = Nodes(m) \cup {x} /\ f.mask = m.mask /\ f.n = m.n + 1
  BY <1>1, <1>2, InsertFastAdds
<1>4. CASE f.n \div 2 > f.mask
  <2>0. PICK p \in Nat : p = f.n
    BY <1>2, <1>3
  <2>1. PICK c \in Nat : c = CalcMask(f.n) /\ c >= f.n \div 2 /\ \E k \in 0 .. c : c = MaskOf(k)
    <3>1. /\ CalcMask(p) \in Nat /\ CalcMask(p) >= p \div 2
          /\ \E k \in 0 .. CalcMask(p) : CalcMask(p) = MaskOf(k)
      BY CalcMaskIsMask
    <3>2. QED
      BY <2>0, <3>1
  <2>2. Insert(m, x) = Resize(f, c)
    <3>1. c > f.mask
      BY <1>2, <1>3, <1>4, <2>1
    <3>2. QED
      BY <1>1, <1>4, <2>1, <3>1 DEF Insert, Expand
  <2>3. PICK h : h = Resize(f, c)
    OBVIOUS
  <2>4. Table(h, D) /\ Nodes(h) = Nodes(f) /\ h.mask = c /\ h.n = f.n
    BY <1>3, <2>3, ResizeKeeps
  <2>5. h.n <= 2 * h.mask + 1
    BY <1>2, <1>3, <2>1, <2>4
  <2>6. Sound(h, D)
    BY <2>1, <2>4, <2>5 DEF Sound
  <2>7. QED
    BY <1>3, <2>2, <2>3, <2>4, <2>6
<1>5. CASE ~ (f.n \div 2 > f.mask)
  <2>1. Insert(m, x) = f
    BY <1>1, <1>5 DEF Insert
  <2>2. f.n <= 2 * f.mask + 1
    BY <1>2, <1>3, <1>5
  <2>3. Sound(f, D)
    BY <1>2, <1>3, <2>2 DEF Sound
  <2>4. QED
    BY <1>3, <2>1, <2>3
<1>6. QED
  BY <1>4, <1>5

-----------------------------------------------------------------------------
(* Lookup.                                                                 *)

\* The nodes are those of the chains.
LEMMA NodePlace ==
  ASSUME NEW D, NEW m, Table(m, D), NEW x
  PROVE  x \in Nodes(m) <=> \E b \in 0 .. m.mask : x \in ToSet(m.bucket[b])
<1>1. PICK k \in Nat : k = m.mask /\ m \in TableSet(D, k)
  BY DEF Table
<1>2. /\ Laid(m) \in Seq(Seq(NodeSet(D))) /\ Len(Laid(m)) = k + 1
      /\ NodesOf(m) = FlattenSeq(Laid(m)) /\ \A b \in 0 .. k : Laid(m)[b + 1] = m.bucket[b]
  BY <1>1, LaidSeq
<1>3. ASSUME x \in Nodes(m) PROVE \E b \in 0 .. k : x \in ToSet(m.bucket[b])
  <2>1. \A y \in ToSet(FlattenSeq(Laid(m))) : \E i \in 1 .. Len(Laid(m)) : y \in ToSet(Laid(m)[i])
    BY <1>2, FlattenRange
  <2>2. PICK i \in 1 .. k + 1 : x \in ToSet(Laid(m)[i])
    BY <1>2, <1>3, <2>1 DEF Nodes
  <2>3. PICK b \in 0 .. k : i = b + 1
    BY i - 1 \in 0 .. k
  <2>4. QED
    BY <1>2, <2>2, <2>3
<1>4. ASSUME NEW b \in 0 .. k, x \in ToSet(m.bucket[b]) PROVE x \in Nodes(m)
  <2>1. PICK c \in Seq(NodeSet(D)) : c = m.bucket[b]
    BY <1>1 DEF TableSet
  <2>2. PICK h : h = With(m, 0, b, c)
    OBVIOUS
  <2>3. Changed(D, k, m, h, b, c)
    <3>1. m \in TableSet(D, k) /\ 0 \in Nat
      BY <1>1
    <3>2. Changed(D, k, m, With(m, 0, b, c), b, c)
      BY <3>1, ChainChanged
    <3>3. QED
      BY <2>2, <3>2
  <2>4. Around(NodeSet(D), NodesOf(m), NodesOf(h), c, c)
    BY <2>1, <2>3 DEF Changed
  <2>5. PICK f, g : f = NodesOf(m) /\ g = NodesOf(h)
    OBVIOUS
  <2>6. Shares(NodeSet(D), f, g, c, c)
    <3>1. Around(NodeSet(D), f, g, c, c)
      BY <2>4, <2>5
    <3>2. QED
      BY <3>1, AroundFacts, Zenon
  <2>7. ToSet(c) \subseteq ToSet(f)
    BY <2>6 DEF Shares
  <2>8. QED
    BY <1>4, <2>1, <2>5, <2>7 DEF Nodes
<1>5. QED
  BY <1>1, <1>3, <1>4

LEMMA OneOfAName ==
  ASSUME NEW m, Apart(NodesOf(m)), NEW x \in Nodes(m), NEW y \in Nodes(m), x.name = y.name
  PROVE  x = y
<1>1. PICK i \in DOMAIN NodesOf(m) : x = NodesOf(m)[i]
  BY DEF Nodes, ToSet
<1>2. PICK j \in DOMAIN NodesOf(m) : y = NodesOf(m)[j]
  BY DEF Nodes, ToSet
<1>3. i = j
  BY <1>1, <1>2, Zenon DEF Apart
<1>4. QED
  BY <1>1, <1>2, <1>3

\* The chain c of the bucket b of this name, and the place i of the node y that
\* shash_find__ returns.
FoundIn(D, m, name, b, c, i) ==
  /\ b = BucketOf(m, name) /\ c = m.bucket[b] /\ c = Chain(m, name)
  /\ i \in DOMAIN c /\ i = Min(FoundAt(m, name)) /\ c[i].name = name

LEMMA FoundInChain ==
  ASSUME NEW D, NEW m, Table(m, D), NEW name \in Names, Has(m, name)
  PROVE  \E b \in 0 .. m.mask, c \in Seq(NodeSet(D)), i \in Nat : FoundIn(D, m, name, b, c, i)
<1>1. PICK k \in Nat : k = m.mask /\ m \in TableSet(D, k)
  BY DEF Table
<1>2. PICK b \in 0 .. k : b = BucketOf(m, name)
  BY <1>1, BucketIn
<1>3. PICK c \in Seq(NodeSet(D)) : c = m.bucket[b]
  BY <1>1 DEF TableSet
<1>4. c = Chain(m, name)
  BY <1>2, <1>3 DEF Chain
<1>5. PICK T : T = FoundAt(m, name)
  OBVIOUS
<1>6. T = {i \in DOMAIN c : c[i].name = name}
  BY <1>4, <1>5 DEF FoundAt
<1>7. T \in SUBSET Nat /\ T # {}
  BY <1>5, <1>6 DEF Has
<1>8. Min(T) \in T
  BY <1>7, MinIsLeast
<1>9. PICK i \in Nat : i = Min(T) /\ i \in DOMAIN c /\ c[i].name = name
  BY <1>6, <1>7, <1>8
<1>10. FoundIn(D, m, name, b, c, i)
  BY <1>2, <1>3, <1>4, <1>5, <1>9 DEF FoundIn
<1>11. QED
  BY <1>1, <1>10, Zenon

\* shash.c, shash_find__: a sound table has a name exactly when one of its nodes has it,
\* in whatever chain, and finds the data of that node.
THEOREM LookupFinds ==
  ASSUME NEW D, NEW m, Table(m, D), NEW name \in Names
  PROVE  /\ Has(m, name) <=> \E x \in Nodes(m) : x.name = name
         /\ \A x \in Nodes(m) : x.name = name => Find(m, name) = x.data
<1>1. PICK k \in Nat : k = m.mask /\ m \in TableSet(D, k)
  BY DEF Table
<1>2. ASSUME Has(m, name)
      PROVE  \E x \in Nodes(m) : x.name = name /\ Find(m, name) = x.data
  <2>1. PICK b \in 0 .. k, c \in Seq(NodeSet(D)), i \in Nat : FoundIn(D, m, name, b, c, i)
    BY <1>1, <1>2, FoundInChain, Zenon
  <2>2. /\ c = m.bucket[b] /\ c = Chain(m, name) /\ i \in DOMAIN c
        /\ i = Min(FoundAt(m, name)) /\ c[i].name = name
    BY <2>1 DEF FoundIn
  <2>3. c[i] \in Nodes(m)
    <3>1. c[i] \in ToSet(m.bucket[b])
      BY <2>2 DEF ToSet
    <3>2. QED
      BY <1>1, <3>1, NodePlace
  <2>4. Find(m, name) = c[i].data
    BY <2>2 DEF Find
  <2>5. QED
    BY <2>2, <2>3, <2>4
<1>3. ASSUME NEW x \in Nodes(m), x.name = name PROVE Has(m, name)
  <2>1. PICK b \in 0 .. k : x \in ToSet(m.bucket[b])
    BY <1>1, NodePlace
  <2>2. BucketOf(m, name) = b
    BY <1>1, <1>3, <2>1 DEF Table, InBuckets
  <2>3. PICK i \in DOMAIN m.bucket[b] : x = m.bucket[b][i]
    BY <2>1 DEF ToSet
  <2>4. QED
    BY <1>3, <2>2, <2>3 DEF Has, FoundAt, Chain
<1>4. ASSUME NEW x \in Nodes(m), x.name = name PROVE Find(m, name) = x.data
  <2>1. PICK y \in Nodes(m) : y.name = name /\ Find(m, name) = y.data
    BY <1>2, <1>3, <1>4
  <2>2. Apart(NodesOf(m))
    BY DEF Table
  <2>3. x = y
    BY <1>4, <2>1, <2>2, OneOfAName
  <2>4. QED
    BY <2>1, <2>3
<1>5. QED
  BY <1>2, <1>3, <1>4

-----------------------------------------------------------------------------
(* The calls.                                                              *)

\* hmap_init
LEMMA EmptyMapSound ==
  ASSUME NEW D
  PROVE  Sound(EmptyMap, D) /\ Nodes(EmptyMap) = {}
<1>1. EmptyMap = NewTable(0)
  <2>1. (0 .. 0) = {0}
    OBVIOUS
  <2>2. QED
    BY <2>1 DEF EmptyMap, NewTable
<1>2. /\ Table(EmptyMap, D) /\ Nodes(EmptyMap) = {}
      /\ EmptyMap.n = 0 /\ EmptyMap.mask = 0
  BY <1>1, NewTableEmpty
<1>3. MaskOf(0) = 0 /\ 0 \in 0 .. 0
  BY MaskSmall
<1>4. QED
  BY <1>2, <1>3 DEF Sound

\* shash.c, shash_add_once: the table stays sound; a new name is added with its data, and
\* for a name that is there nothing changes.
THEOREM AddOnceAdds ==
  ASSUME NEW D, NEW m, Sound(m, D), NEW name \in Names, NEW data \in D
  PROVE  /\ Sound(AddOnce(m, name, data), D)
         /\ Nodes(AddOnce(m, name, data)) =
              IF \E x \in Nodes(m) : x.name = name THEN Nodes(m)
              ELSE Nodes(m) \cup {[name |-> name, data |-> data]}
<1>1. Table(m, D)
  BY DEF Sound
<1>2. Has(m, name) <=> \E x \in Nodes(m) : x.name = name
  BY <1>1, LookupFinds
<1>3. CASE Has(m, name)
  BY <1>2, <1>3 DEF AddOnce
<1>4. CASE ~ Has(m, name)
  <2>1. PICK x \in NodeSet(D) : x = [name |-> name, data |-> data]
    BY DEF NodeSet
  <2>2. \A y \in Nodes(m) : y.name # x.name
    BY <1>2, <1>4, <2>1
  <2>3. Sound(Insert(m, x), D) /\ Nodes(Insert(m, x)) = Nodes(m) \cup {x}
    BY <2>2, InsertAdds
  <2>4. AddOnce(m, name, data) = Insert(m, x)
    BY <1>4, <2>1 DEF AddOnce
  <2>5. QED
    BY <1>2, <1>4, <2>1, <2>3, <2>4
<1>5. QED
  BY <1>3, <1>4

\* A chain with other data for one node.
LEMMA DataChanged ==
  ASSUME NEW D, NEW c \in Seq(NodeSet(D)), NEW i \in DOMAIN c, NEW data \in D,
         NEW t, t = [c EXCEPT ![i].data = data]
  PROVE  /\ t \in Seq(NodeSet(D)) /\ Len(t) = Len(c) /\ DOMAIN t = DOMAIN c
         /\ t[i] = [name |-> c[i].name, data |-> data]
         /\ \A j \in DOMAIN c : t[j].name = c[j].name /\ (j # i => t[j] = c[j])
<1>1. c[i] \in NodeSet(D)
  OBVIOUS
<1>2. PICK y : y = [c[i] EXCEPT !.data = data]
  OBVIOUS
<1>3. y \in NodeSet(D) /\ y = [name |-> c[i].name, data |-> data] /\ y.name = c[i].name
  BY <1>1, <1>2 DEF NodeSet
<1>4. t = [c EXCEPT ![i] = y]
  BY <1>2
<1>5. PICK W : W = NodeSet(D)
  OBVIOUS
<1>6. c \in Seq(W) /\ y \in W
  BY <1>3, <1>5
<1>7. t \in Seq(W) /\ Len(t) = Len(c) /\ DOMAIN t = DOMAIN c
  BY ONLY <1>4, <1>6, i \in DOMAIN c
<1>8. t[i] = y /\ \A j \in DOMAIN c : j # i => t[j] = c[j]
  BY <1>4, <1>6
<1>9. QED
  BY <1>3, <1>5, <1>7, <1>8

LEMMA PartApart ==
  ASSUME NEW V, NEW f, NEW h, NEW u \in Seq(V), NEW t \in Seq(V), Around(V, f, h, u, t), Apart(f)
  PROVE  Apart(u)
<1>1. PICK a \in Seq(V), c \in Seq(V) : f = (a \o u) \o c
  BY Zenon DEF Around
<1>2. a \o u \in Seq(V)
  BY ConcatProperties, Zenon
<1>3. Apart(a \o u)
  BY <1>1, <1>2, ApartConcat, Zenon
<1>4. QED
  BY <1>3, ApartConcat, Zenon

\* What shash_replace makes of a table that has the name.
Replaced(m, name, data) ==
  {x \in Nodes(m) : x.name # name} \cup {[name |-> name, data |-> data]}

LEMMA ReplaceInPlace ==
  ASSUME NEW D, NEW m, Table(m, D), NEW name \in Names, NEW data \in D, Has(m, name)
  PROVE  /\ Table(Replace(m, name, data), D)
         /\ Replace(m, name, data).mask = m.mask /\ Replace(m, name, data).n = m.n
         /\ Nodes(Replace(m, name, data)) = Replaced(m, name, data)
<1>1. PICK k \in Nat : k = m.mask /\ m \in TableSet(D, k)
  BY DEF Table
<1>2. PICK b \in 0 .. k, c \in Seq(NodeSet(D)), i \in Nat : FoundIn(D, m, name, b, c, i)
  BY <1>1, FoundInChain, Zenon
<1>3. /\ b = BucketOf(m, name) /\ c = m.bucket[b] /\ i \in DOMAIN c
      /\ i = Min(FoundAt(m, name)) /\ c[i].name = name
  BY <1>2 DEF FoundIn
<1>4. PICK t : t = [c EXCEPT ![i].data = data]
  OBVIOUS
<1>5. /\ t \in Seq(NodeSet(D)) /\ Len(t) = Len(c) /\ DOMAIN t = DOMAIN c
      /\ t[i] = [name |-> name, data |-> data]
      /\ \A j \in DOMAIN c : t[j].name = c[j].name /\ (j # i => t[j] = c[j])
  <2>0. i \in DOMAIN c /\ c[i].name = name
    BY <1>3
  <2>1. /\ t \in Seq(NodeSet(D)) /\ Len(t) = Len(c) /\ DOMAIN t = DOMAIN c
        /\ t[i] = [name |-> c[i].name, data |-> data]
        /\ \A j \in DOMAIN c : t[j].name = c[j].name /\ (j # i => t[j] = c[j])
    BY ONLY <1>4, <2>0, c \in Seq(NodeSet(D)), data \in D, DataChanged
  <2>2. QED
    BY <2>0, <2>1
<1>6. PICK n \in Nat : n = m.n
  BY <1>1 DEF TableSet
<1>7. PICK h : h = With(m, n, b, t)
  OBVIOUS
<1>8. h = Replace(m, name, data)
  <2>1. Replace(m, name, data) = [m EXCEPT !.bucket[b][i].data = data]
    BY <1>3 DEF Replace
  <2>2. PICK W : W = Seq(NodeSet(D))
    OBVIOUS
  <2>3. m \in [mask : {k}, n : Nat, bucket : [0 .. k -> W]]
    BY <1>1, <2>2 DEF TableSet
  <2>4. [m EXCEPT !.bucket[b][i].data = data] = [m EXCEPT !.bucket[b] = t]
    BY <1>3, <1>4
  <2>5. h = [m EXCEPT !.bucket[b] = t]
    BY <1>6, <1>7, <2>3 DEF With
  <2>6. QED
    BY <2>1, <2>4, <2>5
<1>9. Changed(D, k, m, h, b, t)
  <2>1. m \in TableSet(D, k)
    BY <1>1
  <2>2. Changed(D, k, m, With(m, n, b, t), b, t)
    BY <1>5, <2>1, ChainChanged
  <2>3. QED
    BY <1>7, <2>2
<1>10. /\ h \in TableSet(D, k) /\ h.bucket = [m.bucket EXCEPT ![b] = t]
       /\ Around(NodeSet(D), NodesOf(m), NodesOf(h), c, t)
  BY <1>3, <1>9 DEF Changed
<1>11. h.n = m.n /\ h.mask = k
  <2>1. h.n = n
    BY <1>1, <1>7 DEF With, TableSet
  <2>2. QED
    BY <1>6, <1>10, <2>1 DEF TableSet
<1>12. PICK f, g : f = NodesOf(m) /\ g = NodesOf(h)
  OBVIOUS
<1>13. Apart(f) /\ m.n = Len(f) /\ InBuckets(m)
  BY <1>12 DEF Table
<1>14. Around(NodeSet(D), f, g, c, t)
  BY <1>10, <1>12
<1>15. Apart(c)
  BY <1>5, <1>13, <1>14, PartApart, Zenon
<1>16. Apart(t)
  BY <1>5, <1>15 DEF Apart
<1>17. \A y \in ToSet(t) : \E x \in ToSet(c) : x.name = y.name
  BY <1>5 DEF ToSet
<1>18. Apart(g)
  <2>1. \A y \in ToSet(t) : \/ \E x \in ToSet(c) : x.name = y.name
                            \/ \A x \in ToSet(f) : x.name # y.name
    BY <1>17, Zenon
  <2>2. QED
    BY <1>5, <1>13, <1>14, <1>16, <2>1, AroundApart, Zenon
<1>19. Shares(NodeSet(D), f, g, c, t)
  BY <1>5, <1>14, AroundFacts, Zenon
<1>20. Len(g) = Len(f)
  <2>1. f \in Seq(NodeSet(D)) /\ g \in Seq(NodeSet(D)) /\ Len(g) + Len(c) = Len(f) + Len(t)
    BY <1>19 DEF Shares
  <2>2. QED
    BY <1>5, <2>1
<1>21. PICK R : ToSet(f) = R \cup ToSet(c) /\ ToSet(g) = R \cup ToSet(t)
  BY <1>19, Zenon DEF Shares
<1>22. InBuckets(h)
  <2>1. h.mask = k /\ m.mask = k
    BY <1>1, <1>11
  <2>2. \A nm : BucketOf(h, nm) = BucketOf(m, nm)
    BY <2>1 DEF BucketOf
  <2>3. \A j \in 0 .. k : h.bucket[j] = IF j = b THEN t ELSE m.bucket[j]
    BY <1>1, <1>10 DEF TableSet
  <2>4. \A j \in 0 .. k : \A y \in ToSet(m.bucket[j]) : BucketOf(m, y.name) = j
    BY <1>13, <2>1 DEF InBuckets
  <2>5. \A y \in ToSet(t) : BucketOf(m, y.name) = b
    BY <1>3, <1>17, <2>4
  <2>6. QED
    BY <2>1, <2>2, <2>3, <2>4, <2>5 DEF InBuckets
<1>23. Table(h, D)
  BY <1>10, <1>11, <1>12, <1>13, <1>18, <1>20, <1>22 DEF Table
<1>24. Nodes(h) = Replaced(m, name, data)
  <2>1. Nodes(h) = ToSet(g) /\ Nodes(m) = ToSet(f)
    BY <1>12 DEF Nodes
  <2>2. t[i] \in ToSet(t) /\ t[i].name = name
    BY <1>3, <1>5 DEF ToSet
  <2>3. ASSUME NEW x \in Nodes(m), x.name # name PROVE x \in Nodes(h)
    <3>1. CASE x \in R
      BY <1>21, <2>1, <3>1
    <3>2. CASE x \in ToSet(c)
      <4>1. PICK j \in DOMAIN c : x = c[j]
        BY <3>2 DEF ToSet
      <4>2. j # i
        BY <1>3, <2>3, <4>1
      <4>3. x \in ToSet(t)
        BY <1>5, <4>1, <4>2 DEF ToSet
      <4>4. QED
        BY <1>21, <2>1, <4>3
    <3>3. QED
      BY <1>21, <2>1, <3>1, <3>2
  <2>4. ASSUME NEW x \in Nodes(h), x.name # name PROVE x \in Nodes(m)
    <3>1. CASE x \in R
      BY <1>21, <2>1, <3>1
    <3>2. CASE x \in ToSet(t)
      <4>1. PICK j \in DOMAIN c : x = t[j]
        BY <1>5, <3>2 DEF ToSet
      <4>2. x \in ToSet(c)
        BY <1>5, <2>2, <2>4, <4>1 DEF ToSet
      <4>3. QED
        BY <1>21, <2>1, <4>2
    <3>3. QED
      BY <1>21, <2>1, <3>1, <3>2
  <2>5. t[i] \in Nodes(h)
    BY <1>21, <2>1, <2>2
  <2>6. ASSUME NEW x \in Nodes(h), x.name = name PROVE x = t[i]
    <3>1. Apart(NodesOf(h))
      BY <1>12, <1>18
    <3>2. x.name = t[i].name
      BY <2>2, <2>6
    <3>3. QED
      BY <2>5, <3>1, <3>2, OneOfAName
  <2>7. QED
    BY <1>5, <2>3, <2>4, <2>5, <2>6 DEF Replaced
<1>25. QED
  BY <1>1, <1>8, <1>11, <1>23, <1>24

\* shash.c, shash_replace_nocopy: the table stays sound, and holds the new data for the
\* name, once, and for the other names what it held, whether or not the name was there.
THEOREM ReplaceReplaces ==
  ASSUME NEW D, NEW m, Sound(m, D), NEW name \in Names, NEW data \in D
  PROVE  /\ Sound(Replace(m, name, data), D)
         /\ Nodes(Replace(m, name, data)) = Replaced(m, name, data)
<1>1. Table(m, D)
  BY DEF Sound
<1>2. CASE Has(m, name)
  <2>1. PICK h : h = Replace(m, name, data)
    OBVIOUS
  <2>2. Table(h, D) /\ h.mask = m.mask /\ h.n = m.n /\ Nodes(h) = Replaced(m, name, data)
    BY <1>1, <1>2, <2>1, ReplaceInPlace
  <2>3. Sound(h, D)
    BY <2>2 DEF Sound
  <2>4. QED
    BY <2>1, <2>2, <2>3
<1>3. CASE ~ Has(m, name)
  <2>1. PICK x \in NodeSet(D) : x = [name |-> name, data |-> data]
    BY DEF NodeSet
  <2>2. \A y \in Nodes(m) : y.name # name
    BY <1>1, <1>3, LookupFinds
  <2>3. Sound(Insert(m, x), D) /\ Nodes(Insert(m, x)) = Nodes(m) \cup {x}
    <3>1. \A y \in Nodes(m) : y.name # x.name
      BY <2>1, <2>2
    <3>2. QED
      BY <3>1, InsertAdds
  <2>4. Replace(m, name, data) = Insert(m, x)
    BY <1>3, <2>1 DEF Replace
  <2>5. Replaced(m, name, data) = Nodes(m) \cup {x}
    BY <2>1, <2>2 DEF Replaced
  <2>6. QED
    BY <2>3, <2>4, <2>5
<1>4. QED
  BY <1>2, <1>3

=============================================================================
