----------------------------- MODULE JsonProofs -----------------------------
(***************************************************************************)
(* Proofs about Json, for any client, any input and any number of values:  *)
(* the reference counts are exact, the parser's stack is a path, and the   *)
(* table of every object is sound.                                         *)
(***************************************************************************)
EXTENDS Json, HashMapProofs, FiniteSetTheorems, TLAPS

-----------------------------------------------------------------------------
(* Finite sets.                                                            *)

\* A finite union of finite sets is finite.
LEMMA FiniteUnion ==
  ASSUME NEW D, IsFiniteSet(D), NEW f, \A c \in D : IsFiniteSet(f[c])
  PROVE  IsFiniteSet(UNION {f[c] : c \in D})
<1> DEFINE All(T) == UNION {f[c] : c \in T}
           S == {n \in Nat : \A T \in SUBSET D : Cardinality(T) = n => IsFiniteSet(All(T))}
<1>1. 0 \in S
  <2>1. ASSUME NEW T \in SUBSET D, Cardinality(T) = 0 PROVE IsFiniteSet(All(T))
    <3>1. T = {}
      BY <2>1, FS_Subset, FS_EmptySet
    <3>2. All(T) = {}
      BY <3>1
    <3>3. QED
      BY <3>2, FS_EmptySet
  <2>2. QED
    BY <2>1
<1>2. ASSUME NEW n \in Nat, n \in S PROVE n + 1 \in S
  <2>1. ASSUME NEW T \in SUBSET D, Cardinality(T) = n + 1 PROVE IsFiniteSet(All(T))
    <3>1. IsFiniteSet(T)
      BY FS_Subset
    <3>2. T # {}
      BY <2>1, FS_EmptySet
    <3>3. PICK c \in T : TRUE
      BY <3>2
    <3>4. PICK U \in SUBSET D : U = T \ {c}
      OBVIOUS
    <3>5. Cardinality(U) = n
      <4>1. Cardinality(T \ {c}) = Cardinality(T) - 1
        BY <3>1, <3>3, FS_RemoveElement
      <4>2. QED
        BY <2>1, <3>4, <4>1
    <3>6. IsFiniteSet(All(U))
      BY <1>2, <3>5
    <3>7. All(T) = All(U) \cup f[c]
      BY <3>3, <3>4
    <3>8. IsFiniteSet(f[c])
      BY <3>3
    <3> HIDE DEF All
    <3>9. QED
      BY <3>6, <3>7, <3>8, FS_Union
  <2>2. QED
    BY <2>1
<1>3. Nat \subseteq S
  <2> HIDE DEF S
  <2>1. QED
    BY <1>1, <1>2, Induction
<1>4. Cardinality(D) \in Nat
  BY FS_CardinalityType
<1>5. QED
  BY <1>3, <1>4

\* The values of a function on a finite set.
LEMMA FiniteValues ==
  ASSUME NEW D, IsFiniteSet(D), NEW f
  PROVE  IsFiniteSet({f[c] : c \in D})
<1>1. PICK g : g = [c \in D |-> {f[c]}]
  OBVIOUS
<1>2. \A c \in D : IsFiniteSet(g[c])
  BY <1>1, FS_Singleton
<1>3. IsFiniteSet(UNION {g[c] : c \in D})
  BY <1>2, FiniteUnion
<1>4. UNION {g[c] : c \in D} = {f[c] : c \in D}
  BY <1>1
<1>5. QED
  BY <1>3, <1>4

-----------------------------------------------------------------------------
(* References and how many of them lead to a value.                        *)

IdSet == Nat \ {0}

\* How many references lead to id.
To(R, id) == Cardinality(Into(R, id))

LEMMA ToIsNat ==
  ASSUME NEW R, IsFiniteSet(R), NEW id
  PROVE  /\ To(R, id) \in Nat
         /\ To(R, id) > 0 <=> \E r \in R : r[3] = id
<1>1. Into(R, id) \in SUBSET R
  BY DEF Into
<1>2. IsFiniteSet(Into(R, id))
  BY <1>1, FS_Subset
<1>3. To(R, id) \in Nat /\ (To(R, id) = 0 <=> Into(R, id) = {})
  BY <1>2, FS_CardinalityType, FS_EmptySet DEF To
<1>4. Into(R, id) # {} <=> \E r \in R : r[3] = id
  BY DEF Into
<1>5. QED
  BY <1>3, <1>4

LEMMA ToMore ==
  ASSUME NEW R, IsFiniteSet(R), NEW r, r \notin R
  PROVE  /\ IsFiniteSet(R \cup {r})
         /\ \A id : To(R \cup {r}, id) = To(R, id) + (IF r[3] = id THEN 1 ELSE 0)
<1>1. IsFiniteSet(R \cup {r})
  BY FS_AddElement
<1>2. ASSUME NEW id PROVE To(R \cup {r}, id) = To(R, id) + (IF r[3] = id THEN 1 ELSE 0)
  <2>1. Into(R, id) \in SUBSET R
    BY DEF Into
  <2>2. IsFiniteSet(Into(R, id)) /\ To(R, id) \in Nat /\ r \notin Into(R, id)
    BY <2>1, FS_Subset, ToIsNat
  <2>3. CASE r[3] = id
    <3>1. Into(R \cup {r}, id) = Into(R, id) \cup {r}
      BY <2>3 DEF Into
    <3>2. QED
      BY <2>2, <2>3, <3>1, FS_AddElement DEF To
  <2>4. CASE r[3] # id
    <3>1. Into(R \cup {r}, id) = Into(R, id)
      BY <2>4 DEF Into
    <3>2. QED
      BY <2>2, <2>4, <3>1 DEF To
  <2>5. QED
    BY <2>3, <2>4
<1>3. QED
  BY <1>1, <1>2

LEMMA ToFewer ==
  ASSUME NEW R, IsFiniteSet(R), NEW r \in R
  PROVE  /\ IsFiniteSet(R \ {r})
         /\ \A id : To(R \ {r}, id) = To(R, id) - (IF r[3] = id THEN 1 ELSE 0)
<1>1. IsFiniteSet(R \ {r})
  BY FS_RemoveElement
<1>2. PICK Q : Q = R \ {r}
  OBVIOUS
<1>3. IsFiniteSet(Q) /\ r \notin Q /\ Q \cup {r} = R
  BY <1>1, <1>2
<1>4. ASSUME NEW id PROVE To(Q, id) = To(R, id) - (IF r[3] = id THEN 1 ELSE 0)
  <2>1. To(R, id) = To(Q, id) + (IF r[3] = id THEN 1 ELSE 0)
    BY <1>3, ToMore
  <2>2. To(Q, id) \in Nat
    BY <1>3, ToIsNat
  <2>3. QED
    BY <2>1, <2>2
<1>5. QED
  BY <1>1, <1>2, <1>4

-----------------------------------------------------------------------------
(* Heaps.                                                                  *)

Types == {"object", "array", "true", "string", "integer", "real"}
CellOK(cell) ==
  /\ DOMAIN cell = {"type", "count", "val", "elems", "map"}
  /\ cell.type \in Types /\ cell.count \in Nat \ {0}
  /\ cell.elems \in Seq(IdSet) /\ Sound(cell.map, IdSet)
HeapOK(h) ==
  /\ IsFiniteSet(DOMAIN h) /\ DOMAIN h \subseteq IdSet
  /\ \A c \in DOMAIN h : CellOK(h[c])

\* The members of an object.
LEMMA MembersFinite ==
  ASSUME NEW m, Sound(m, IdSet)
  PROVE  /\ NodesOf(m) \in Seq(NodeSet(IdSet)) /\ IsFiniteSet(Nodes(m))
         /\ \A x \in Nodes(m) : x.name \in Names /\ x.data \in IdSet
<1>1. m.mask \in Nat /\ m \in TableSet(IdSet, m.mask)
  BY DEF Sound, Table
<1>2. NodesOf(m) \in Seq(NodeSet(IdSet))
  BY <1>1, LaidSeq, FlattenRange
<1>3. PICK s \in Seq(NodeSet(IdSet)) : s = NodesOf(m)
  BY <1>2
<1>4. IsFiniteSet({s[i] : i \in DOMAIN s})
  <2>1. DOMAIN s = 1 .. Len(s) /\ Len(s) \in Nat
    OBVIOUS
  <2>2. IsFiniteSet(DOMAIN s)
    BY <2>1, FS_Interval
  <2>3. QED
    BY <2>2, FiniteValues
<1>5. Nodes(m) = {s[i] : i \in DOMAIN s}
  BY <1>3 DEF Nodes, ToSet
<1>6. \A x \in Nodes(m) : x \in NodeSet(IdSet)
  BY <1>5
<1>7. QED
  BY <1>2, <1>4, <1>5, <1>6 DEF NodeSet

LEMMA SlotsFinite ==
  ASSUME NEW c, NEW cell, CellOK(cell)
  PROVE  /\ IsFiniteSet(Slots(c, cell))
         /\ \A r \in Slots(c, cell) : r[1] = c /\ r[3] \in IdSet
<1> DEFINE E == {<<c, <<"elem", i>>, cell.elems[i]>> : i \in DOMAIN cell.elems}
           M == {<<c, <<"member", x.name>>, x.data>> : x \in Nodes(cell.map)}
<1>1. Slots(c, cell) = E \cup M
  BY DEF Slots, Nodes
<1>2. PICK s \in Seq(IdSet) : s = cell.elems
  BY DEF CellOK
<1>3. IsFiniteSet(E) /\ \A r \in E : r[1] = c /\ r[3] \in IdSet
  <2>1. DOMAIN s = 1 .. Len(s) /\ Len(s) \in Nat
    OBVIOUS
  <2>2. IsFiniteSet(DOMAIN s)
    BY <2>1, FS_Interval
  <2>3. PICK f : f = [i \in DOMAIN s |-> <<c, <<"elem", i>>, s[i]>>]
    OBVIOUS
  <2>4. IsFiniteSet({f[i] : i \in DOMAIN s})
    BY <2>2, FiniteValues
  <2>5. E = {f[i] : i \in DOMAIN s}
    BY <1>2, <2>3
  <2>6. \A r \in E : r[1] = c /\ r[3] \in IdSet
    BY <1>2
  <2>7. QED
    BY <2>4, <2>5, <2>6
<1>4. IsFiniteSet(M) /\ \A r \in M : r[1] = c /\ r[3] \in IdSet
  <2>1. IsFiniteSet(Nodes(cell.map)) /\ \A x \in Nodes(cell.map) : x.data \in IdSet
    BY MembersFinite DEF CellOK
  <2>2. PICK N : N = Nodes(cell.map)
    OBVIOUS
  <2>3. PICK f : f = [x \in N |-> <<c, <<"member", x.name>>, x.data>>]
    OBVIOUS
  <2>4. IsFiniteSet({f[x] : x \in N})
    BY <2>1, <2>2, FiniteValues
  <2>5. M = {f[x] : x \in N}
    BY <2>2, <2>3
  <2>6. \A r \in M : r[1] = c /\ r[3] \in IdSet
    BY <2>1
  <2>7. QED
    BY <2>4, <2>5, <2>6
<1>5. QED
  <2> HIDE DEF E, M
  <2>1. IsFiniteSet(E \cup M)
    BY <1>3, <1>4, FS_Union
  <2>2. QED
    BY <1>1, <1>3, <1>4, <2>1

LEMMA AllSlotsFinite ==
  ASSUME NEW h, HeapOK(h)
  PROVE  /\ IsFiniteSet(AllSlots(h))
         /\ \A r \in AllSlots(h) :
              r[1] \in DOMAIN h /\ r \in Slots(r[1], h[r[1]]) /\ r[3] \in IdSet
         /\ \A c \in DOMAIN h : Slots(c, h[c]) \subseteq AllSlots(h)
<1>1. PICK f : f = [c \in DOMAIN h |-> Slots(c, h[c])]
  OBVIOUS
<1>2. AllSlots(h) = UNION {f[c] : c \in DOMAIN h}
  BY <1>1 DEF AllSlots
<1>3. \A c \in DOMAIN h : /\ IsFiniteSet(Slots(c, h[c]))
                          /\ \A r \in Slots(c, h[c]) : r[1] = c /\ r[3] \in IdSet
  BY SlotsFinite DEF HeapOK
<1>4. IsFiniteSet(DOMAIN h) /\ \A c \in DOMAIN h : IsFiniteSet(f[c])
  BY <1>1, <1>3 DEF HeapOK
<1>5. IsFiniteSet(AllSlots(h))
  BY <1>2, <1>4, FiniteUnion
<1>6. QED
  BY <1>3, <1>5 DEF AllSlots

\* What a change of one value changes.
LEMMA OneCell ==
  ASSUME NEW h, HeapOK(h), NEW a \in DOMAIN h, NEW g, DOMAIN g = DOMAIN h,
         CellOK(g[a]), \A c \in DOMAIN h : c # a => g[c] = h[c]
  PROVE  /\ HeapOK(g)
         /\ AllSlots(g) = (AllSlots(h) \ Slots(a, h[a])) \cup Slots(a, g[a])
<1>1. HeapOK(g)
  BY DEF HeapOK
<1>2. \A r \in AllSlots(h) : r[1] \in DOMAIN h /\ r \in Slots(r[1], h[r[1]])
  BY AllSlotsFinite
<1>3. \A r \in AllSlots(g) : r[1] \in DOMAIN g /\ r \in Slots(r[1], g[r[1]])
  BY <1>1, AllSlotsFinite
<1>4. \A r \in Slots(a, h[a]) : r[1] = a
  BY SlotsFinite DEF HeapOK
<1>5. \A c \in DOMAIN h : Slots(c, h[c]) \subseteq AllSlots(h) /\ Slots(c, g[c]) \subseteq AllSlots(g)
  BY <1>1, AllSlotsFinite
<1>6. QED
  BY <1>1, <1>2, <1>3, <1>4, <1>5

-----------------------------------------------------------------------------
(* One value that changes.                                                 *)

\* What of a value says where it leads.
Same(cell, g) == g.type = cell.type /\ g.elems = cell.elems /\ g.map = cell.map

LEMMA CountCell ==
  ASSUME NEW cell, CellOK(cell), NEW n \in Nat \ {0}, NEW g, g = [cell EXCEPT !.count = n]
  PROVE  CellOK(g) /\ g.count = n /\ Same(cell, g) /\ \A c : Slots(c, g) = Slots(c, cell)
<1>1. /\ DOMAIN g = DOMAIN cell /\ g.count = n
      /\ g.type = cell.type /\ g.elems = cell.elems /\ g.map = cell.map
  BY DEF CellOK
<1>2. CellOK(g)
  BY <1>1 DEF CellOK
<1>3. \A c : Slots(c, g) = Slots(c, cell)
  BY <1>1 DEF Slots
<1>4. QED
  BY <1>1, <1>2, <1>3 DEF Same

\* One more element.
ElemSlot(c, cell, v) == <<c, <<"elem", Len(cell.elems) + 1>>, v>>
ElemsFacts(cell, v, g) ==
  /\ CellOK(g) /\ g.count = cell.count /\ g.type = cell.type /\ g.map = cell.map
  /\ g.elems # <<>> /\ Last(g.elems) = v
  /\ \A c : /\ Slots(c, g) = Slots(c, cell) \cup {ElemSlot(c, cell, v)}
            /\ ElemSlot(c, cell, v) \notin Slots(c, cell)
LEMMA ElemsCell ==
  ASSUME NEW cell, CellOK(cell), NEW v \in IdSet,
         NEW g, g = [cell EXCEPT !.elems = Append(cell.elems, v)]
  PROVE  ElemsFacts(cell, v, g)
<1>1. /\ DOMAIN g = DOMAIN cell /\ g.count = cell.count
      /\ g.type = cell.type /\ g.elems = Append(cell.elems, v) /\ g.map = cell.map
  BY DEF CellOK
<1>2. PICK s \in Seq(IdSet) : s = cell.elems
  BY DEF CellOK
<1>3. PICK t : t = Append(s, v)
  OBVIOUS
<1>4. PICK n \in Nat : n = Len(s)
  OBVIOUS
<1>5. /\ t \in Seq(IdSet) /\ Len(t) = n + 1 /\ DOMAIN s = 1 .. n /\ DOMAIN t = 1 .. n + 1
      /\ t[n + 1] = v /\ \A i \in 1 .. n : t[i] = s[i]
  BY <1>3, <1>4
<1>6. CellOK(g)
  BY <1>1, <1>2, <1>3, <1>5 DEF CellOK
<1>7. t # <<>> /\ Last(t) = v
  BY <1>5 DEF Last
<1>8. ASSUME NEW c
      PROVE  /\ Slots(c, g) = Slots(c, cell) \cup {ElemSlot(c, cell, v)}
             /\ ElemSlot(c, cell, v) \notin Slots(c, cell)
  <2>1. ElemSlot(c, cell, v) = <<c, <<"elem", n + 1>>, v>>
    BY <1>2, <1>4 DEF ElemSlot
  <2>2. {<<c, <<"elem", i>>, t[i]>> : i \in 1 .. n + 1}
          = {<<c, <<"elem", i>>, s[i]>> : i \in 1 .. n} \cup {<<c, <<"elem", n + 1>>, v>>}
    BY <1>5
  <2>3. Slots(c, g) = Slots(c, cell) \cup {ElemSlot(c, cell, v)}
    BY <1>1, <1>2, <1>3, <1>5, <2>1, <2>2 DEF Slots
  <2>4. <<c, <<"elem", n + 1>>, v>> \notin {<<c, <<"elem", i>>, s[i]>> : i \in 1 .. n}
    OBVIOUS
  <2>5. <<c, <<"elem", n + 1>>, v>> \notin
          {<<c, <<"member", x.name>>, x.data>> : x \in ToSet(NodesOf(cell.map))}
    OBVIOUS
  <2>6. QED
    BY <1>2, <1>5, <2>1, <2>3, <2>4, <2>5 DEF Slots
<1>9. QED
  BY <1>1, <1>2, <1>3, <1>6, <1>7, <1>8 DEF ElemsFacts

\* Another value for a name, or one more name.
NameSlot(c, name, v) == <<c, <<"member", name>>, v>>
Putting(cell, name, v) == [cell EXCEPT !.map = Replace(cell.map, name, v)]
Swaps(cell, g, name, v, old) ==
  \A c : /\ NameSlot(c, name, old) \in Slots(c, cell)
         /\ Slots(c, g) = (Slots(c, cell) \ {NameSlot(c, name, old)}) \cup {NameSlot(c, name, v)}
         /\ NameSlot(c, name, v) \notin Slots(c, cell) \ {NameSlot(c, name, old)}
PutFacts(cell, name, v, g) ==
  /\ CellOK(g) /\ g.count = cell.count /\ g.type = cell.type /\ g.elems = cell.elems
  /\ \E x \in ToSet(NodesOf(g.map)) : x.data = v

LEMMA PutCell ==
  ASSUME NEW cell, CellOK(cell), NEW name \in Names, NEW v \in IdSet,
         NEW g, g = Putting(cell, name, v)
  PROVE  /\ PutFacts(cell, name, v, g)
         /\ ~ Has(cell.map, name) =>
              \A c : /\ Slots(c, g) = Slots(c, cell) \cup {NameSlot(c, name, v)}
                     /\ NameSlot(c, name, v) \notin Slots(c, cell)
         /\ Has(cell.map, name) =>
              \E old \in IdSet : Find(cell.map, name) = old /\ Swaps(cell, g, name, v, old)
<1>1. PICK m : m = cell.map
  OBVIOUS
<1>2. PICK k : k = Replace(m, name, v)
  OBVIOUS
<1>3. /\ DOMAIN g = DOMAIN cell /\ g.count = cell.count
      /\ g.type = cell.type /\ g.elems = cell.elems /\ g.map = k
  BY <1>1, <1>2 DEF CellOK, Putting
<1>4. Sound(m, IdSet) /\ Table(m, IdSet) /\ Apart(NodesOf(m))
  BY <1>1 DEF CellOK, Sound, Table
<1>5. Sound(k, IdSet) /\ Nodes(k) = Replaced(m, name, v)
  BY <1>2, <1>4, ReplaceReplaces
<1>6. CellOK(g)
  BY <1>3, <1>5 DEF CellOK
<1>7. [name |-> name, data |-> v] \in Nodes(k)
  BY <1>5 DEF Replaced
<1>8. PutFacts(cell, name, v, g)
  BY <1>3, <1>6, <1>7 DEF PutFacts, Nodes
<1> DEFINE E(c) == {<<c, <<"elem", i>>, cell.elems[i]>> : i \in DOMAIN cell.elems}
           M(c, N) == {<<c, <<"member", x.name>>, x.data>> : x \in N}
<1>9. \A c : Slots(c, cell) = E(c) \cup M(c, Nodes(m)) /\ Slots(c, g) = E(c) \cup M(c, Nodes(k))
  BY <1>1, <1>3 DEF Slots, Nodes
<1>10. \A x \in Nodes(m), y \in Nodes(m) : x.name = y.name => x = y
  BY <1>4, OneOfAName
<1>11. \A c, w : NameSlot(c, name, w) \notin E(c)
  BY DEF NameSlot
<1>12. ASSUME NEW c
       PROVE  M(c, Nodes(k)) = {r \in M(c, Nodes(m)) : r[2] # <<"member", name>>}
                               \cup {NameSlot(c, name, v)}
  <2>1. PICK N : N = {x \in Nodes(m) : x.name # name}
    OBVIOUS
  <2>2. PICK z : z = [name |-> name, data |-> v]
    OBVIOUS
  <2>3. Nodes(k) = N \cup {z}
    BY <1>5, <2>1, <2>2 DEF Replaced
  <2>4. M(c, N \cup {z}) = M(c, N) \cup {<<c, <<"member", z.name>>, z.data>>}
    OBVIOUS
  <2>5. <<c, <<"member", z.name>>, z.data>> = NameSlot(c, name, v)
    BY <2>2 DEF NameSlot
  <2>6. ASSUME NEW r \in M(c, N) PROVE r \in M(c, Nodes(m)) /\ r[2] # <<"member", name>>
    BY <2>1
  <2>7. ASSUME NEW r \in M(c, Nodes(m)), r[2] # <<"member", name>> PROVE r \in M(c, N)
    <3>1. PICK x \in Nodes(m) : r = <<c, <<"member", x.name>>, x.data>>
      OBVIOUS
    <3>2. x.name # name
      BY <2>7, <3>1
    <3>3. QED
      BY <2>1, <3>1, <3>2
  <2> HIDE DEF M
  <2>8. QED
    BY <2>3, <2>4, <2>5, <2>6, <2>7
<1>13. ASSUME NEW c PROVE \A r \in M(c, Nodes(m)) : r[2] = <<"member", name>> =>
         \E x \in Nodes(m) : x.name = name /\ r = NameSlot(c, name, x.data)
  BY DEF NameSlot
<1>14. ASSUME ~ Has(m, name), NEW c
       PROVE  /\ Slots(c, g) = Slots(c, cell) \cup {NameSlot(c, name, v)}
              /\ NameSlot(c, name, v) \notin Slots(c, cell)
  <2>1. \A x \in Nodes(m) : x.name # name
    BY <1>4, <1>14, LookupFinds
  <2>2. \A r \in M(c, Nodes(m)) : r[2] # <<"member", name>>
    BY <1>13, <2>1
  <2>3. M(c, Nodes(k)) = M(c, Nodes(m)) \cup {NameSlot(c, name, v)}
    BY <1>12, <2>2
  <2>4. NameSlot(c, name, v) \notin M(c, Nodes(m))
    BY <2>2 DEF NameSlot
  <2> HIDE DEF E, M
  <2>5. QED
    BY <1>9, <1>11, <2>3, <2>4
<1>15. ASSUME Has(m, name)
       PROVE  \E old \in IdSet : Find(m, name) = old /\ Swaps(cell, g, name, v, old)
  <2>1. PICK y \in Nodes(m) : y.name = name
    BY <1>4, <1>15, LookupFinds
  <2>2. Find(m, name) = y.data
    BY <1>4, <2>1, LookupFinds
  <2>3. y.data \in IdSet
    BY <1>4, MembersFinite
  <2>4. PICK old \in IdSet : old = y.data
    BY <2>3
  <2>5. ASSUME NEW c
        PROVE  /\ NameSlot(c, name, old) \in M(c, Nodes(m))
               /\ \A r \in M(c, Nodes(m)) :
                    r[2] = <<"member", name>> <=> r = NameSlot(c, name, old)
    <3>1. NameSlot(c, name, old) \in M(c, Nodes(m))
      BY <2>1, <2>4 DEF NameSlot
    <3>2. \A r \in M(c, Nodes(m)) : r[2] = <<"member", name>> => r = NameSlot(c, name, old)
      BY <1>10, <1>13, <2>1, <2>4
    <3>3. NameSlot(c, name, old)[2] = <<"member", name>>
      BY DEF NameSlot
    <3> HIDE DEF M
    <3>4. QED
      BY <3>1, <3>2, <3>3
  <2>6. ASSUME NEW c
        PROVE  /\ NameSlot(c, name, old) \in Slots(c, cell)
               /\ Slots(c, g) = (Slots(c, cell) \ {NameSlot(c, name, old)})
                                        \cup {NameSlot(c, name, v)}
               /\ NameSlot(c, name, v) \notin Slots(c, cell) \ {NameSlot(c, name, old)}
    <3>1. NameSlot(c, name, v)[2] = <<"member", name>>
      BY DEF NameSlot
    <3>2. M(c, Nodes(k)) = (M(c, Nodes(m)) \ {NameSlot(c, name, old)}) \cup {NameSlot(c, name, v)}
      <4> HIDE DEF M
      <4>1. QED
        BY <1>12, <2>5
    <3>3. NameSlot(c, name, v) \notin M(c, Nodes(m)) \ {NameSlot(c, name, old)}
      <4> HIDE DEF M
      <4>1. QED
        BY <2>5, <3>1
    <3> HIDE DEF E, M
    <3>4. QED
      BY <1>9, <1>11, <2>5, <3>2, <3>3
  <2>7. QED
    BY <2>2, <2>4, <2>6 DEF Swaps
<1>16. QED
  BY <1>1, <1>8, <1>14, <1>15

-----------------------------------------------------------------------------
(* Heaps whose counts are right.                                           *)

\* ext says how many references from elsewhere there are to each value.
Count(h, id) == IF id \in DOMAIN h THEN h[id].count ELSE 0
Good(h, ext) ==
  /\ HeapOK(h) /\ ext \in [IdSet -> Nat]
  /\ \A id \in IdSet : Count(h, id) = ext[id] + To(AllSlots(h), id)
Bump(ext, id) == [ext EXCEPT ![id] = ext[id] + 1]
Dip(ext, id)  == [ext EXCEPT ![id] = ext[id] - 1]

\* The values outside of S that are there before and after lead where they led.
Kept(h, g, S) == \A c \in (DOMAIN h \cap DOMAIN g) \ S : Same(h[c], g[c])

\* What something refers to is there.
LEMMA ReferredLives ==
  ASSUME NEW h, NEW ext, Good(h, ext), NEW id \in IdSet,
         ext[id] > 0 \/ \E r \in AllSlots(h) : r[3] = id
  PROVE  id \in DOMAIN h
<1>1. IsFiniteSet(AllSlots(h))
  BY AllSlotsFinite DEF Good
<1>2. /\ To(AllSlots(h), id) \in Nat
      /\ To(AllSlots(h), id) > 0 <=> \E r \in AllSlots(h) : r[3] = id
  BY <1>1, ToIsNat
<1>3. ext[id] \in Nat /\ Count(h, id) = ext[id] + To(AllSlots(h), id)
  BY DEF Good
<1>4. Count(h, id) # 0
  BY <1>2, <1>3
<1>5. QED
  BY <1>4 DEF Count

\* and what is not there, nothing refers to.
LEMMA UnreferredIsFree ==
  ASSUME NEW h, NEW ext, Good(h, ext), NEW id \in IdSet, id \notin DOMAIN h
  PROVE  ext[id] = 0 /\ To(AllSlots(h), id) = 0
<1>1. IsFiniteSet(AllSlots(h))
  BY AllSlotsFinite DEF Good
<1>2. To(AllSlots(h), id) \in Nat
  BY <1>1, ToIsNat
<1>3. ext[id] \in Nat /\ Count(h, id) = ext[id] + To(AllSlots(h), id) /\ Count(h, id) = 0
  BY DEF Good, Count
<1>4. QED
  BY <1>2, <1>3

LEMMA BumpDip ==
  ASSUME NEW ext \in [IdSet -> Nat], NEW id \in IdSet
  PROVE  /\ Bump(ext, id) \in [IdSet -> Nat]
         /\ \A c \in IdSet : Bump(ext, id)[c] = ext[c] + (IF c = id THEN 1 ELSE 0)
         /\ ext[id] > 0 => Dip(ext, id) \in [IdSet -> Nat]
         /\ \A c \in IdSet : Dip(ext, id)[c] = ext[c] - (IF c = id THEN 1 ELSE 0)
         /\ Dip(Bump(ext, id), id) = ext
<1>1. /\ Bump(ext, id) \in [IdSet -> Nat]
      /\ \A c \in IdSet : Bump(ext, id)[c] = ext[c] + (IF c = id THEN 1 ELSE 0)
  BY DEF Bump
<1>2. ext[id] > 0 => Dip(ext, id) \in [IdSet -> Nat]
  BY DEF Dip
<1>3. \A c \in IdSet : Dip(ext, id)[c] = ext[c] - (IF c = id THEN 1 ELSE 0)
  BY DEF Dip
<1>4. Dip(Bump(ext, id), id) = ext
  <2>1. PICK f \in [IdSet -> Nat] : f = Bump(ext, id)
    BY <1>1
  <2>2. f = [ext EXCEPT ![id] = ext[id] + 1]
    BY <2>1 DEF Bump
  <2>3. [f EXCEPT ![id] = f[id] - 1] = ext
    <3>1. f[id] - 1 = ext[id] /\ \A c \in IdSet : c # id => f[c] = ext[c]
      BY <2>2
    <3>2. PICK d : d = [f EXCEPT ![id] = f[id] - 1]
      OBVIOUS
    <3>3. d \in [IdSet -> Nat] /\ \A c \in IdSet : d[c] = ext[c]
      BY <3>1, <3>2
    <3>4. d = ext
      BY <3>3
    <3>5. QED
      BY <3>2, <3>4
  <2>4. QED
    BY <2>1, <2>3 DEF Dip
<1>5. QED
  BY <1>1, <1>2, <1>3, <1>4

LEMMA NewIdFresh ==
  ASSUME NEW h, HeapOK(h)
  PROVE  NewId(h) \in IdSet /\ NewId(h) \notin DOMAIN h
<1>1. PICK D : D = DOMAIN h
  OBVIOUS
<1>2. IsFiniteSet(D) /\ Cardinality(D) \in Nat
  BY <1>1, FS_CardinalityType DEF HeapOK
<1>3. PICK n \in Nat : n = Cardinality(D)
  BY <1>2
<1>4. PICK T : T = (1 .. n + 1) \ D
  OBVIOUS
<1>5. T # {}
  <2> SUFFICES ASSUME T = {} PROVE FALSE
    OBVIOUS
  <2>1. (1 .. n + 1) \in SUBSET D
    BY <1>4
  <2>2. Cardinality(1 .. n + 1) <= n
    BY <1>2, <1>3, <2>1, FS_Subset
  <2>3. Cardinality(1 .. n + 1) = n + 1
    BY FS_Interval
  <2>4. QED
    BY <2>2, <2>3
<1>6. T \in SUBSET Nat
  BY <1>4
<1>7. Min(T) \in T
  BY <1>5, <1>6, MinIsLeast
<1>8. NewId(h) = Min(T)
  BY <1>1, <1>3, <1>4 DEF NewId
<1>9. QED
  BY <1>1, <1>4, <1>7, <1>8 DEF IdSet

LEMMA NewCell ==
  ASSUME NEW type \in Types, NEW val
  PROVE  /\ CellOK(Cell(type, val)) /\ Cell(type, val).count = 1 /\ Cell(type, val).type = type
         /\ \A c : Slots(c, Cell(type, val)) = {}
<1>1. PICK g : g = Cell(type, val)
  OBVIOUS
<1>2. /\ DOMAIN g = {"type", "count", "val", "elems", "map"} /\ g.type = type
      /\ g.count = 1 /\ g.elems = <<>> /\ g.map = EmptyMap
  BY <1>1 DEF Cell
<1>3. Sound(EmptyMap, IdSet) /\ Nodes(EmptyMap) = {}
  BY EmptyMapSound
<1>4. CellOK(g)
  BY <1>2, <1>3 DEF CellOK
<1>5. \A c : Slots(c, g) = {}
  BY <1>2, <1>3 DEF Slots, Nodes
<1>6. QED
  BY <1>1, <1>2, <1>4, <1>5

LEMMA EmptyHeapGood ==
  ASSUME NEW ext, ext = [id \in IdSet |-> 0]
  PROVE  Good(EmptyHeap, ext)
<1>1. DOMAIN EmptyHeap = {}
  BY DEF EmptyHeap
<1>2. HeapOK(EmptyHeap)
  BY <1>1, FS_EmptySet DEF HeapOK
<1>3. AllSlots(EmptyHeap) = {}
  BY <1>1 DEF AllSlots
<1>4. \A id : To({}, id) = 0
  BY FS_EmptySet DEF To, Into
<1>5. QED
  BY <1>1, <1>2, <1>3, <1>4 DEF Good, Count

\* What an allocation does; n is the new identifier.
Allocated(h, ext, cell, g, n) ==
  /\ n \in IdSet /\ n \notin DOMAIN h /\ DOMAIN g = DOMAIN h \cup {n}
  /\ g[n] = cell /\ \A c \in DOMAIN h : g[c] = h[c]
  /\ Good(g, Bump(ext, n))
LEMMA AllocGood ==
  ASSUME NEW h, NEW ext, Good(h, ext), NEW type \in Types, NEW val
  PROVE  Allocated(h, ext, Cell(type, val), Alloc(h, Cell(type, val)), NewId(h))
<1>1. PICK cell : cell = Cell(type, val)
  OBVIOUS
<1>2. CellOK(cell) /\ cell.count = 1 /\ \A c : Slots(c, cell) = {}
  BY <1>1, NewCell
<1>3. HeapOK(h)
  BY DEF Good
<1>4. PICK n : n = NewId(h)
  OBVIOUS
<1>5. n \in IdSet /\ n \notin DOMAIN h
  BY <1>3, <1>4, NewIdFresh
<1>6. PICK g : g = Alloc(h, cell)
  OBVIOUS
<1>7. DOMAIN g = DOMAIN h \cup {n} /\ g[n] = cell /\ \A c \in DOMAIN h : g[c] = h[c]
  BY <1>4, <1>5, <1>6 DEF Alloc
<1>8. IsFiniteSet(DOMAIN g)
  <2>1. IsFiniteSet(DOMAIN h)
    BY <1>3 DEF HeapOK
  <2>2. IsFiniteSet(DOMAIN h \cup {n})
    BY <2>1, FS_AddElement
  <2>3. QED
    BY <1>7, <2>2
<1>9. HeapOK(g)
  BY <1>2, <1>3, <1>5, <1>7, <1>8 DEF HeapOK
<1>10. AllSlots(g) = AllSlots(h)
  BY <1>2, <1>5, <1>7 DEF AllSlots
<1>11. ext[n] = 0 /\ To(AllSlots(h), n) = 0
  BY <1>5, UnreferredIsFree
<1>12. /\ Bump(ext, n) \in [IdSet -> Nat]
       /\ \A c \in IdSet : Bump(ext, n)[c] = ext[c] + (IF c = n THEN 1 ELSE 0)
  BY <1>5, BumpDip DEF Good
<1>13. ASSUME NEW id \in IdSet
       PROVE  Count(g, id) = Bump(ext, n)[id] + To(AllSlots(g), id)
  <2>1. Count(h, id) = ext[id] + To(AllSlots(h), id)
    BY DEF Good
  <2>2. CASE id = n
    BY <1>2, <1>7, <1>10, <1>11, <1>12, <2>2 DEF Count
  <2>3. CASE id # n
    <3>1. Count(g, id) = Count(h, id)
      BY <1>7, <2>3 DEF Count
    <3>2. Bump(ext, n)[id] = ext[id]
      BY <1>12, <2>3 DEF Good
    <3>3. QED
      BY <1>10, <2>1, <3>1, <3>2
  <2>4. QED
    BY <2>2, <2>3
<1>14. Good(g, Bump(ext, n))
  BY <1>9, <1>12, <1>13 DEF Good
<1>15. QED
  BY <1>1, <1>4, <1>5, <1>6, <1>7, <1>14 DEF Allocated

LEMMA SameKept ==
  ASSUME NEW h, NEW a, NEW g, \A c \in DOMAIN h : c # a => g[c] = h[c]
  PROVE  Kept(h, g, {a})
  BY DEF Kept, Same

\* What a new count changes.
Recounted(h, id, n, g) ==
  /\ HeapOK(g) /\ DOMAIN g = DOMAIN h /\ AllSlots(g) = AllSlots(h) /\ Kept(h, g, {})
  /\ g[id].count = n /\ \A c \in DOMAIN h : c # id => g[c] = h[c]
LEMMA SetCount ==
  ASSUME NEW h, HeapOK(h), NEW id \in DOMAIN h, NEW n \in Nat \ {0},
         NEW g, g = [h EXCEPT ![id] = [h[id] EXCEPT !.count = n]]
  PROVE  Recounted(h, id, n, g)
<1>1. PICK cell : cell = h[id]
  OBVIOUS
<1>2. CellOK(cell)
  BY <1>1 DEF HeapOK
<1>3. PICK new : new = [cell EXCEPT !.count = n]
  OBVIOUS
<1>4. CellOK(new) /\ new.count = n /\ Same(cell, new) /\ \A c : Slots(c, new) = Slots(c, cell)
  BY <1>2, <1>3, CountCell
<1>5. DOMAIN g = DOMAIN h /\ g[id] = new /\ \A c \in DOMAIN h : c # id => g[c] = h[c]
  BY <1>1, <1>3
<1>6. CellOK(g[id])
  BY <1>4, <1>5
<1>7. HeapOK(g) /\ AllSlots(g) = (AllSlots(h) \ Slots(id, h[id])) \cup Slots(id, g[id])
  BY <1>5, <1>6, OneCell, ZenonT(60)
<1>8. AllSlots(g) = AllSlots(h)
  <2>1. Slots(id, new) = Slots(id, cell)
    BY <1>4
  <2>2. Slots(id, h[id]) \subseteq AllSlots(h)
    BY AllSlotsFinite
  <2>3. QED
    BY <1>1, <1>5, <1>7, <2>1, <2>2
<1>9. Kept(h, g, {})
  BY <1>1, <1>4, <1>5 DEF Kept, Same
<1>10. QED
  BY <1>4, <1>5, <1>7, <1>8, <1>9 DEF Recounted

LEMMA CountIsNat ==
  ASSUME NEW h, HeapOK(h), NEW id
  PROVE  Count(h, id) \in Nat /\ (Count(h, id) > 0 <=> id \in DOMAIN h)
  BY DEF HeapOK, CellOK, Count

LEMMA CountChanged ==
  ASSUME NEW h, HeapOK(h), NEW id \in DOMAIN h, NEW n \in Nat, NEW g, Recounted(h, id, n, g)
  PROVE  \A c : Count(g, c) = IF c = id THEN n ELSE Count(h, c)
  BY DEF Recounted, Count

\* json_clone
LEMMA CloneGood ==
  ASSUME NEW h, NEW ext, Good(h, ext), NEW id \in DOMAIN h,
         NEW g, g = CloneValue(h, id)
  PROVE  Good(g, Bump(ext, id)) /\ DOMAIN g = DOMAIN h /\ Kept(h, g, {})
<1>1. HeapOK(h) /\ id \in IdSet /\ h[id].count \in Nat
  BY DEF Good, HeapOK, CellOK
<1>2. PICK n \in Nat \ {0} : n = h[id].count + 1
  BY <1>1
<1>3. g = [h EXCEPT ![id] = [h[id] EXCEPT !.count = n]]
  BY <1>2 DEF CloneValue
<1>4. Recounted(h, id, n, g)
  BY <1>1, <1>3, SetCount
<1>5. /\ Bump(ext, id) \in [IdSet -> Nat]
      /\ \A c \in IdSet : Bump(ext, id)[c] = ext[c] + (IF c = id THEN 1 ELSE 0)
  BY <1>1, BumpDip DEF Good
<1>6. ASSUME NEW c \in IdSet PROVE Count(g, c) = Bump(ext, id)[c] + To(AllSlots(g), c)
  <2>1. Count(h, c) = ext[c] + To(AllSlots(h), c) /\ ext[c] \in Nat
    BY DEF Good
  <2>2. To(AllSlots(h), c) \in Nat
    BY <1>1, AllSlotsFinite, ToIsNat
  <2>3. Count(g, c) = IF c = id THEN n ELSE Count(h, c)
    BY <1>1, <1>4, CountChanged
  <2>4. Count(h, id) = h[id].count /\ AllSlots(g) = AllSlots(h)
    BY <1>4 DEF Count, Recounted
  <2>5. QED
    BY <1>2, <1>5, <2>1, <2>2, <2>3, <2>4
<1>7. QED
  BY <1>4, <1>5, <1>6 DEF Good, Recounted

\* A reference from elsewhere that moves into a new place.
LEMMA MoveIn ==
  ASSUME NEW h, NEW ext, Good(h, ext), NEW g, HeapOK(g), DOMAIN g = DOMAIN h,
         \A c \in DOMAIN h : g[c].count = h[c].count,
         NEW r, NEW v \in IdSet, r[3] = v, r \notin AllSlots(h), AllSlots(g) = AllSlots(h) \cup {r},
         ext[v] > 0
  PROVE  Good(g, Dip(ext, v))
<1>1. IsFiniteSet(AllSlots(h))
  BY AllSlotsFinite DEF Good
<1>2. /\ Dip(ext, v) \in [IdSet -> Nat]
      /\ \A c \in IdSet : Dip(ext, v)[c] = ext[c] - (IF c = v THEN 1 ELSE 0)
  BY BumpDip DEF Good
<1>3. ASSUME NEW c \in IdSet
      PROVE  Count(g, c) = Dip(ext, v)[c] + To(AllSlots(g), c)
  <2>1. Count(h, c) = ext[c] + To(AllSlots(h), c) /\ ext[c] \in Nat
    BY DEF Good
  <2>2. To(AllSlots(h), c) \in Nat
    BY <1>1, ToIsNat
  <2>3. To(AllSlots(g), c) = To(AllSlots(h), c) + (IF c = v THEN 1 ELSE 0)
    <3>1. To(AllSlots(h) \cup {r}, c) = To(AllSlots(h), c) + (IF r[3] = c THEN 1 ELSE 0)
      BY <1>1, ToMore, ZenonT(60)
    <3>2. QED
      BY <3>1
  <2>4. Count(g, c) = Count(h, c)
    BY DEF Count
  <2>5. QED
    BY <1>2, <2>1, <2>2, <2>3, <2>4
<1>4. QED
  BY <1>2, <1>3 DEF Good

\* json_array_add
AddKeeps(h, a, v, g) ==
  /\ DOMAIN g = DOMAIN h /\ Kept(h, g, {a})
  /\ g[a].type = h[a].type /\ g[a].elems # <<>> /\ Last(g[a].elems) = v
LEMMA AddGood ==
  ASSUME NEW h, NEW ext, Good(h, ext), NEW a \in DOMAIN h, NEW v \in IdSet, ext[v] > 0,
         NEW g, g = ArrayAdd(h, a, v)
  PROVE  Good(g, Dip(ext, v)) /\ AddKeeps(h, a, v, g)
<1>1. PICK cell : cell = h[a]
  OBVIOUS
<1>2. CellOK(cell) /\ HeapOK(h) /\ a \in IdSet
  BY <1>1 DEF Good, HeapOK
<1>3. PICK new : new = [cell EXCEPT !.elems = Append(cell.elems, v)]
  OBVIOUS
<1>4. PICK r : r = ElemSlot(a, cell, v)
  OBVIOUS
<1>5. /\ CellOK(new) /\ new.count = cell.count /\ new.type = cell.type
      /\ new.elems # <<>> /\ Last(new.elems) = v
      /\ Slots(a, new) = Slots(a, cell) \cup {r} /\ r \notin Slots(a, cell)
  <2>1. ElemsFacts(cell, v, new)
    BY <1>2, <1>3, ElemsCell
  <2>2. QED
    BY <1>4, <2>1 DEF ElemsFacts
<1>6. g = [h EXCEPT ![a] = new]
  BY <1>1, <1>3 DEF ArrayAdd
<1>7. DOMAIN g = DOMAIN h /\ g[a] = new /\ \A c \in DOMAIN h : c # a => g[c] = h[c]
  BY <1>6
<1>8. HeapOK(g) /\ AllSlots(g) = (AllSlots(h) \ Slots(a, cell)) \cup Slots(a, new)
  <2>1. CellOK(g[a])
    BY <1>5, <1>7
  <2>2. HeapOK(g) /\ AllSlots(g) = (AllSlots(h) \ Slots(a, h[a])) \cup Slots(a, g[a])
    BY <1>2, <1>7, <2>1, OneCell
  <2>3. QED
    BY <1>1, <1>7, <2>2
<1>9. Slots(a, cell) \subseteq AllSlots(h) /\ \A x \in AllSlots(h) : x \in Slots(x[1], h[x[1]])
  BY <1>1, <1>2, AllSlotsFinite
<1>10. r[1] = a /\ r[3] = v
  BY <1>4 DEF ElemSlot
<1>11. r \notin AllSlots(h)
  BY <1>1, <1>5, <1>9, <1>10
<1>12. AllSlots(g) = AllSlots(h) \cup {r}
  BY <1>5, <1>8, <1>9
<1>13. \A c \in DOMAIN h : g[c].count = h[c].count
  BY <1>1, <1>5, <1>7
<1>14. Good(g, Dip(ext, v))
  BY <1>7, <1>8, <1>10, <1>11, <1>12, <1>13, MoveIn
<1>15. Kept(h, g, {a})
  BY <1>7, SameKept
<1>16. QED
  BY <1>1, <1>5, <1>7, <1>14, <1>15 DEF AddKeeps

-----------------------------------------------------------------------------
(* json_destroy: one reference after the other is dropped.                 *)

Freed(h, id, g) ==
  /\ HeapOK(g) /\ DOMAIN g = DOMAIN h \ {id} /\ \A c \in DOMAIN g : g[c] = h[c]
  /\ AllSlots(g) \cup Slots(id, h[id]) = AllSlots(h)
  /\ \A r \in Slots(id, h[id]) : r[1] = id /\ r[3] \in IdSet
LEMMA FreeOne ==
  ASSUME NEW h, HeapOK(h), NEW id \in DOMAIN h, NEW g, g = Free(h, id)
  PROVE  Freed(h, id, g)
<1>1. DOMAIN g = DOMAIN h \ {id} /\ \A c \in DOMAIN g : g[c] = h[c]
  BY DEF Free
<1>2. IsFiniteSet(DOMAIN g)
  BY <1>1, FS_RemoveElement DEF HeapOK
<1>3. HeapOK(g)
  BY <1>1, <1>2 DEF HeapOK
<1>4. AllSlots(g) \cup Slots(id, h[id]) = AllSlots(h)
  BY <1>1 DEF AllSlots
<1>5. \A r \in Slots(id, h[id]) : r[1] = id /\ r[3] \in IdSet
  BY SlotsFinite DEF HeapOK
<1>6. QED
  BY <1>1, <1>3, <1>4, <1>5 DEF Freed

\* All references, those to be dropped included, and what holds while they are dropped.
Refs(d) == AllSlots(d.h) \cup d.drop
Lesser(h, g) == DOMAIN g \subseteq DOMAIN h /\ Kept(h, g, {})
Dropping(d, h, ext) ==
  /\ HeapOK(d.h) /\ Lesser(h, d.h) /\ IsFiniteSet(Refs(d))
  /\ \A r \in d.drop : r[1] \notin DOMAIN d.h /\ r[3] \in IdSet
  /\ \A id \in IdSet : Count(d.h, id) = ext[id] + To(Refs(d), id)

LEMMA LesserTrans ==
  ASSUME NEW h, NEW g, NEW f, Lesser(h, g), Lesser(g, f)
  PROVE  Lesser(h, f)
  BY DEF Lesser, Kept, Same

\* What the drop of r does.
Dropped(d, e, r) ==
  /\ HeapOK(e.h) /\ Lesser(d.h, e.h) /\ Refs(e) = Refs(d) \ {r}
  /\ \A x \in e.drop : x[1] \notin DOMAIN e.h /\ x[3] \in IdSet
  /\ \A id \in IdSet : Count(e.h, id) = Count(d.h, id) - (IF id = r[3] THEN 1 ELSE 0)

LEMMA DropShared ==
  ASSUME NEW d, HeapOK(d.h), \A r \in d.drop : r[1] \notin DOMAIN d.h /\ r[3] \in IdSet,
         NEW r \in d.drop, NEW id \in DOMAIN d.h, id = r[3], d.h[id].count > 1,
         NEW e, e = [h |-> [d.h EXCEPT ![id].count = @ - 1], drop |-> d.drop \ {r}]
  PROVE  Dropped(d, e, r)
<1>1. PICK h : h = d.h
  OBVIOUS
<1>2. HeapOK(h) /\ h[id].count \in Nat
  BY <1>1 DEF HeapOK, CellOK
<1>3. PICK n \in Nat \ {0} : n = h[id].count - 1
  BY <1>1, <1>2
<1>4. PICK g : g = [h EXCEPT ![id] = [h[id] EXCEPT !.count = n]]
  OBVIOUS
<1>5. Recounted(h, id, n, g)
  BY <1>1, <1>2, <1>4, SetCount
<1>6. e.h = g /\ e.drop = d.drop \ {r}
  <2>1. e.h = [d.h EXCEPT ![id].count = d.h[id].count - 1] /\ e.drop = d.drop \ {r}
    OBVIOUS
  <2>2. QED
    BY <1>1, <1>3, <1>4, <2>1
<1>7. \A c : Count(g, c) = IF c = id THEN n ELSE Count(h, c)
  BY <1>1, <1>2, <1>5, CountChanged
<1>8. \A c : Count(h, c) \in Nat
  BY <1>2, CountIsNat
<1>9. Count(h, id) = n + 1
  BY <1>1, <1>2, <1>3 DEF Count
<1>10. \A c \in IdSet : Count(g, c) = Count(h, c) - (IF c = r[3] THEN 1 ELSE 0)
  BY <1>7, <1>8, <1>9
<1>11. r \notin AllSlots(h)
  BY <1>1, <1>2, AllSlotsFinite
<1>12. Refs(e) = Refs(d) \ {r}
  BY <1>1, <1>5, <1>6, <1>11 DEF Refs, Recounted
<1>13. Lesser(h, g) /\ HeapOK(g) /\ DOMAIN g = DOMAIN h
  BY <1>5 DEF Lesser, Recounted
<1>14. \A x \in e.drop : x[1] \notin DOMAIN e.h /\ x[3] \in IdSet
  BY <1>1, <1>6, <1>13
<1>15. QED
  BY <1>1, <1>6, <1>10, <1>12, <1>13, <1>14 DEF Dropped

LEMMA DropLast ==
  ASSUME NEW d, HeapOK(d.h), \A r \in d.drop : r[1] \notin DOMAIN d.h /\ r[3] \in IdSet,
         NEW r \in d.drop, NEW id \in DOMAIN d.h, id = r[3], ~ (d.h[id].count > 1),
         NEW e, e = [h |-> Free(d.h, id), drop |-> (d.drop \ {r}) \cup Slots(id, d.h[id])]
  PROVE  Dropped(d, e, r)
<1>1. PICK h : h = d.h
  OBVIOUS
<1>2. HeapOK(h) /\ h[id].count = 1
  BY <1>1 DEF HeapOK, CellOK
<1>3. PICK g : g = Free(h, id)
  OBVIOUS
<1>4. /\ HeapOK(g) /\ DOMAIN g = DOMAIN h \ {id} /\ \A c \in DOMAIN g : g[c] = h[c]
      /\ AllSlots(g) \cup Slots(id, h[id]) = AllSlots(h)
      /\ \A x \in Slots(id, h[id]) : x[1] = id /\ x[3] \in IdSet
  <2>1. Freed(h, id, g)
    BY <1>1, <1>2, <1>3, FreeOne
  <2>2. QED
    BY <2>1 DEF Freed
<1>5. e.h = g /\ e.drop = (d.drop \ {r}) \cup Slots(id, h[id])
  BY <1>1, <1>3
<1>6. r \notin AllSlots(h)
  BY <1>1, <1>2, AllSlotsFinite
<1>7. Refs(e) = Refs(d) \ {r}
  BY <1>1, <1>4, <1>5, <1>6 DEF Refs
<1>8. Lesser(h, g)
  BY <1>4 DEF Lesser, Kept, Same
<1>9. \A x \in e.drop : x[1] \notin DOMAIN e.h /\ x[3] \in IdSet
  BY <1>1, <1>4, <1>5
<1>10. \A c \in IdSet : Count(g, c) = Count(h, c) - (IF c = r[3] THEN 1 ELSE 0)
  <2>1. \A c : Count(h, c) \in Nat
    BY <1>2, CountIsNat
  <2>2. Count(g, id) = 0 /\ Count(h, id) = 1
    BY <1>1, <1>2, <1>4 DEF Count
  <2>3. \A c : c # id => Count(g, c) = Count(h, c)
    BY <1>4 DEF Count
  <2>4. QED
    BY <2>1, <2>2, <2>3
<1>11. QED
  BY <1>1, <1>4, <1>5, <1>7, <1>8, <1>9, <1>10 DEF Dropped

LEMMA DropOneStep ==
  ASSUME NEW h, NEW ext \in [IdSet -> Nat], NEW d, Dropping(d, h, ext), d.drop # {}
  PROVE  /\ Dropping(DropOne(d), h, ext)
         /\ \E r \in Refs(d) : Refs(DropOne(d)) = Refs(d) \ {r}
<1>1. PICK r : r = CHOOSE x \in d.drop : TRUE
  OBVIOUS
<1>2. r \in d.drop /\ r \in Refs(d)
  BY <1>1 DEF Refs
<1>3. PICK id \in IdSet : id = r[3]
  BY <1>2 DEF Dropping
<1>4. id \in DOMAIN d.h
  <2>1. IsFiniteSet(Refs(d)) /\ Count(d.h, id) = ext[id] + To(Refs(d), id) /\ ext[id] \in Nat
    BY DEF Dropping
  <2>2. To(Refs(d), id) \in Nat /\ To(Refs(d), id) > 0
    BY <1>2, <1>3, <2>1, ToIsNat
  <2>3. Count(d.h, id) # 0
    BY <2>1, <2>2
  <2>4. QED
    BY <2>3 DEF Count
<1>5. HeapOK(d.h) /\ \A x \in d.drop : x[1] \notin DOMAIN d.h /\ x[3] \in IdSet
  BY DEF Dropping
<1>6. PICK e : e = DropOne(d)
  OBVIOUS
<1>7. Dropped(d, e, r)
  <2>1. CASE d.h[id].count > 1
    <3>1. e = [h |-> [d.h EXCEPT ![id].count = @ - 1], drop |-> d.drop \ {r}]
      BY <1>1, <1>2, <1>3, <1>6, <2>1 DEF DropOne
    <3>2. QED
      BY <1>2, <1>3, <1>4, <1>5, <2>1, <3>1, DropShared
  <2>2. CASE ~ (d.h[id].count > 1)
    <3>1. e = [h |-> Free(d.h, id), drop |-> (d.drop \ {r}) \cup Slots(id, d.h[id])]
      BY <1>1, <1>2, <1>3, <1>6, <2>2 DEF DropOne
    <3>2. QED
      BY <1>2, <1>3, <1>4, <1>5, <2>2, <3>1, DropLast
  <2>3. QED
    BY <2>1, <2>2
<1>8. IsFiniteSet(Refs(d))
  BY DEF Dropping
<1>9. IsFiniteSet(Refs(e)) /\ \A c \in IdSet : Count(e.h, c) = ext[c] + To(Refs(e), c)
  <2>1. Refs(e) = Refs(d) \ {r}
    BY <1>7 DEF Dropped
  <2>2. IsFiniteSet(Refs(d) \ {r})
    BY <1>8, FS_RemoveElement
  <2>3. ASSUME NEW c \in IdSet PROVE Count(e.h, c) = ext[c] + To(Refs(e), c)
    <3>1. To(Refs(d) \ {r}, c) = To(Refs(d), c) - (IF r[3] = c THEN 1 ELSE 0)
      BY <1>2, <1>8, ToFewer
    <3>2. Count(e.h, c) = Count(d.h, c) - (IF c = r[3] THEN 1 ELSE 0)
      BY <1>7 DEF Dropped
    <3>3. Count(d.h, c) = ext[c] + To(Refs(d), c) /\ ext[c] \in Nat
      BY DEF Dropping
    <3>4. To(Refs(d), c) \in Nat
      BY <1>8, ToIsNat
    <3>5. QED
      BY <2>1, <3>1, <3>2, <3>3, <3>4
  <2>4. QED
    BY <2>1, <2>2, <2>3
<1>10. Lesser(h, e.h)
  BY <1>7, LesserTrans DEF Dropped, Dropping
<1>11. QED
  BY <1>2, <1>6, <1>7, <1>9, <1>10 DEF Dropping, Dropped

-----------------------------------------------------------------------------
(* The loops of json.c are recursive functions, and these exist.           *)

\* Round i of each loop, on x; w says which loop it is.
Round(w, x, i) ==
  CASE w.loop = "drop"   -> DropOne(x)
    [] w.loop = "object" -> ObjectPut(CloneValue(x, w.of[i].data), w.new, w.of[i].name, w.of[i].data)
    [] w.loop = "array"  -> ArrayAdd(CloneValue(x, w.of[i]), w.new, w.of[i])
    [] w.loop = "feed"   -> FeedChar(x, w.of[i])
Looping(f, n, b, w) == f = [i \in 0 .. n |-> IF i = 0 THEN b ELSE Round(w, f[i - 1], i)]

LEMMA Loop ==
  ASSUME NEW n \in Nat, NEW b, NEW w
  PROVE  \E f : Looping(f, n, b, w)
<1> DEFINE K == {k \in Nat : \E f : Looping(f, k, b, w)}
<1>1. 0 \in K
  <2>1. PICK f : f = [i \in 0 .. 0 |-> b]
    OBVIOUS
  <2>2. [i \in 0 .. 0 |-> IF i = 0 THEN b ELSE Round(w, f[i - 1], i)] = [i \in 0 .. 0 |-> b]
    OBVIOUS
  <2>3. Looping(f, 0, b, w)
    BY <2>1, <2>2, Zenon DEF Looping
  <2>4. QED
    BY <2>3, Zenon
<1>2. ASSUME NEW k \in Nat, k \in K PROVE k + 1 \in K
  <2>1. PICK f : Looping(f, k, b, w)
    BY <1>2
  <2>2. PICK g : g = [i \in 0 .. k + 1 |-> IF i = 0 THEN b ELSE Round(w, f[i - 1], i)]
    OBVIOUS
  <2>3. ASSUME NEW i \in 0 .. k PROVE g[i] = f[i]
    <3>1. f[i] = IF i = 0 THEN b ELSE Round(w, f[i - 1], i)
      BY <2>1, Zenon DEF Looping
    <3>2. i \in 0 .. k + 1
      OBVIOUS
    <3>3. g[i] = IF i = 0 THEN b ELSE Round(w, f[i - 1], i)
      BY <2>2, <3>2, Zenon
    <3>4. QED
      BY <3>1, <3>3
  <2>4. ASSUME NEW i \in 0 .. k + 1
        PROVE  (IF i = 0 THEN b ELSE Round(w, f[i - 1], i))
               = IF i = 0 THEN b ELSE Round(w, g[i - 1], i)
    <3>1. CASE i = 0
      BY <3>1
    <3>2. CASE i # 0
      <4>1. i - 1 \in 0 .. k
        BY <3>2
      <4>2. g[i - 1] = f[i - 1]
        BY <2>3, <4>1
      <4>3. QED
        BY <4>2
    <3>3. QED
      BY <3>1, <3>2
  <2>5. Looping(g, k + 1, b, w)
    BY <2>2, <2>4, Zenon DEF Looping
  <2>6. k + 1 \in Nat /\ \E e : Looping(e, k + 1, b, w)
    BY <2>5
  <2>7. QED
    BY <2>6, Zenon
<1>3. Nat \subseteq K
  <2> HIDE DEF K
  <2>1. QED
    BY <1>1, <1>2, Induction
<1>4. QED
  BY <1>3

\* json_destroy, reference by reference.
DestroyLoop(f, h, id, n) ==
  /\ f[0] = [h |-> h, drop |-> {Reference(id)}] /\ Destroy(h, id) = f[n].h
  /\ \A i \in 1 .. n : f[i] = DropOne(f[i - 1])

LEMMA DestroyRounds ==
  ASSUME NEW h, NEW id, NEW n \in Nat, n = Cardinality(AllSlots(h)) + 1
  PROVE  \E f : DestroyLoop(f, h, id, n)
<1>1. PICK b : b = [h |-> h, drop |-> {Reference(id)}]
  OBVIOUS
<1>2. PICK w : w = [loop |-> "drop"]
  OBVIOUS
<1> DEFINE Eq(f) == f = [i \in 0 .. n |-> IF i = 0 THEN b ELSE DropOne(f[i - 1])]
           left == CHOOSE f : Eq(f)
<1>3. \A x, i : Round(w, x, i) = DropOne(x)
  BY <1>2 DEF Round
<1>4. PICK g : Looping(g, n, b, w)
  BY Loop
<1>5. Eq(g)
  BY <1>3, <1>4, Zenon DEF Looping
<1>6. Eq(left)
  BY <1>5, Zenon
<1>7. PICK f : f = left
  OBVIOUS
<1>8. \A i \in 0 .. n : f[i] = IF i = 0 THEN b ELSE DropOne(f[i - 1])
  BY <1>6, <1>7, Zenon
<1>9. Destroy(h, id) = f[n].h
  BY <1>1, <1>7, Zenon DEF Destroy
<1> HIDE DEF Eq, left
<1>10. 0 \in 0 .. n /\ \A i \in 1 .. n : i \in 0 .. n /\ i # 0
  OBVIOUS
<1>11. f[0] = b /\ \A i \in 1 .. n : f[i] = DropOne(f[i - 1])
  BY <1>8, <1>10, Zenon
<1>12. QED
  BY <1>1, <1>9, <1>11, Zenon DEF DestroyLoop

-----------------------------------------------------------------------------
(* What json_destroy, json_object_put and json_deep_clone keep.            *)

LEMMA DestroyStarts ==
  ASSUME NEW h, NEW ext, Good(h, ext), NEW id \in IdSet, ext[id] > 0,
         NEW d, d = [h |-> h, drop |-> {Reference(id)}]
  PROVE  /\ Dropping(d, h, Dip(ext, id))
         /\ Cardinality(Refs(d)) = Cardinality(AllSlots(h)) + 1
<1>1. PICK R : R = AllSlots(h)
  OBVIOUS
<1>2. PICK r : r = Reference(id)
  OBVIOUS
<1>3. HeapOK(h) /\ IsFiniteSet(R) /\ \A x \in R : x[1] \in DOMAIN h
  BY <1>1, AllSlotsFinite DEF Good
<1>4. r[1] = 0 /\ r[3] = id /\ 0 \notin DOMAIN h
  BY <1>2, <1>3 DEF Reference, HeapOK, IdSet
<1>5. r \notin R
  BY <1>3, <1>4
<1>6. d.h = h /\ d.drop = {r} /\ Refs(d) = R \cup {r}
  BY <1>1, <1>2 DEF Refs
<1>7. IsFiniteSet(R \cup {r}) /\ Cardinality(R \cup {r}) = Cardinality(R) + 1
  BY <1>3, <1>5, FS_AddElement
<1>8. /\ Dip(ext, id) \in [IdSet -> Nat]
      /\ \A c \in IdSet : Dip(ext, id)[c] = ext[c] - (IF c = id THEN 1 ELSE 0)
  BY BumpDip DEF Good
<1>9. ASSUME NEW c \in IdSet PROVE Count(h, c) = Dip(ext, id)[c] + To(R \cup {r}, c)
  <2>1. Count(h, c) = ext[c] + To(R, c) /\ ext[c] \in Nat
    BY <1>1 DEF Good
  <2>2. To(R, c) \in Nat
    BY <1>3, ToIsNat
  <2>3. To(R \cup {r}, c) = To(R, c) + (IF r[3] = c THEN 1 ELSE 0)
    BY <1>3, <1>5, ToMore
  <2>4. QED
    BY <1>4, <1>8, <2>1, <2>2, <2>3
<1>10. Lesser(h, h)
  BY DEF Lesser, Kept, Same
<1>11. \A x \in d.drop : x[1] \notin DOMAIN d.h /\ x[3] \in IdSet
  BY <1>4, <1>6
<1>12. QED
  BY <1>1, <1>3, <1>6, <1>7, <1>9, <1>10, <1>11 DEF Dropping

LEMMA DestroyGood ==
  ASSUME NEW h, NEW ext, Good(h, ext), NEW id \in IdSet, ext[id] > 0,
         NEW g, g = Destroy(h, id)
  PROVE  Good(g, Dip(ext, id)) /\ Lesser(h, g)
<1>1. IsFiniteSet(AllSlots(h)) /\ Cardinality(AllSlots(h)) \in Nat
  BY AllSlotsFinite, FS_CardinalityType DEF Good
<1>2. PICK n \in Nat : n = Cardinality(AllSlots(h)) + 1
  BY <1>1
<1>3. PICK f : DestroyLoop(f, h, id, n)
  BY <1>2, DestroyRounds
<1>4. PICK e : e = Dip(ext, id)
  OBVIOUS
<1>5. e \in [IdSet -> Nat]
  BY <1>4, BumpDip DEF Good
<1> DEFINE S == {i \in 0 .. n : /\ Dropping(f[i], h, e)
                                /\ f[i].drop = {} \/ Cardinality(Refs(f[i])) <= n - i}
<1>6. 0 \in S
  <2>1. PICK d : d = [h |-> h, drop |-> {Reference(id)}]
    OBVIOUS
  <2>2. Dropping(d, h, e) /\ Cardinality(Refs(d)) = n
    BY <1>2, <1>4, <2>1, DestroyStarts
  <2>3. f[0] = d
    BY <1>3, <2>1 DEF DestroyLoop
  <2>4. QED
    BY <2>2, <2>3
<1>7. ASSUME NEW i \in Nat, i < n /\ i \in S PROVE i + 1 \in S
  <2>1. PICK j \in 1 .. n : j = i + 1 /\ j - 1 = i
    BY <1>7
  <2>2. PICK d : d = f[i]
    OBVIOUS
  <2>3. Dropping(d, h, e) /\ (d.drop = {} \/ Cardinality(Refs(d)) <= n - i)
    BY <1>7, <2>2
  <2>4. f[j] = DropOne(d)
    BY <1>3, <2>1, <2>2 DEF DestroyLoop
  <2>5. Dropping(f[j], h, e) /\ (f[j].drop = {} \/ Cardinality(Refs(f[j])) <= n - j)
    <3>1. CASE d.drop = {}
      BY <2>3, <2>4, <3>1 DEF DropOne
    <3>2. CASE d.drop # {}
      <4>1. Dropping(DropOne(d), h, e) /\ \E r \in Refs(d) : Refs(DropOne(d)) = Refs(d) \ {r}
        BY <1>5, <2>3, <3>2, DropOneStep
      <4>2. PICK r \in Refs(d) : Refs(f[j]) = Refs(d) \ {r}
        BY <2>4, <4>1
      <4>3. IsFiniteSet(Refs(d))
        BY <2>3 DEF Dropping
      <4>4. Cardinality(Refs(d)) \in Nat
        BY <4>3, FS_CardinalityType
      <4>5. Cardinality(Refs(d) \ {r}) = Cardinality(Refs(d)) - 1
        BY <4>2, <4>3, FS_RemoveElement
      <4>6. Cardinality(Refs(f[j])) <= n - j
        BY <2>1, <2>3, <3>2, <4>2, <4>4, <4>5
      <4>7. QED
        BY <2>4, <4>1, <4>6
    <3>3. QED
      BY <3>1, <3>2
  <2>6. QED
    BY <2>1, <2>5
<1>8. \A i \in 0 .. n : i \in S
  <2> HIDE DEF S
  <2>1. QED
    BY <1>6, <1>7, UpTo
<1>9. PICK d : d = f[n]
  OBVIOUS
<1>10. Dropping(d, h, e) /\ (d.drop = {} \/ Cardinality(Refs(d)) <= n - n)
  <2>1. n \in S
    BY <1>8
  <2>2. QED
    BY <1>9, <2>1
<1>11. d.drop = {}
  <2> SUFFICES ASSUME Cardinality(Refs(d)) <= 0 PROVE d.drop = {}
    BY <1>10
  <2>1. IsFiniteSet(Refs(d))
    BY <1>10 DEF Dropping
  <2>2. Cardinality(Refs(d)) = 0
    BY <2>1, FS_CardinalityType
  <2>3. Refs(d) = {}
    BY <2>1, <2>2, FS_EmptySet
  <2>4. QED
    BY <2>3 DEF Refs
<1>12. g = d.h
  BY <1>3, <1>9 DEF DestroyLoop
<1>13. Refs(d) = AllSlots(g)
  BY <1>11, <1>12 DEF Refs
<1>14. QED
  BY <1>4, <1>5, <1>10, <1>12, <1>13 DEF Good, Dropping

\* A reference from elsewhere that takes the place of another one.
LEMMA SwapIn ==
  ASSUME NEW h, NEW ext, Good(h, ext), NEW g, HeapOK(g), DOMAIN g = DOMAIN h,
         \A c \in DOMAIN h : g[c].count = h[c].count,
         NEW r, NEW v \in IdSet, r[3] = v, NEW q \in AllSlots(h), NEW u \in IdSet, q[3] = u,
         r \notin AllSlots(h) \ {q}, AllSlots(g) = (AllSlots(h) \ {q}) \cup {r}, ext[v] > 0
  PROVE  Good(g, Bump(Dip(ext, v), u))
<1>1. PICK R : R = AllSlots(h)
  OBVIOUS
<1>2. IsFiniteSet(R)
  BY <1>1, AllSlotsFinite DEF Good
<1>3. PICK Q : Q = R \ {q}
  OBVIOUS
<1>4. IsFiniteSet(Q) /\ \A c : To(Q, c) = To(R, c) - (IF q[3] = c THEN 1 ELSE 0)
  BY <1>1, <1>2, <1>3, ToFewer
<1>5. \A c : To(Q \cup {r}, c) = To(Q, c) + (IF r[3] = c THEN 1 ELSE 0)
  BY <1>1, <1>3, <1>4, ToMore
<1>6. PICK e : e = Dip(ext, v)
  OBVIOUS
<1>7. e \in [IdSet -> Nat] /\ \A c \in IdSet : e[c] = ext[c] - (IF c = v THEN 1 ELSE 0)
  BY <1>6, BumpDip DEF Good
<1>8. PICK b : b = Bump(e, u)
  OBVIOUS
<1>9. b \in [IdSet -> Nat] /\ \A c \in IdSet : b[c] = e[c] + (IF c = u THEN 1 ELSE 0)
  BY <1>7, <1>8, BumpDip
<1>10. ASSUME NEW c \in IdSet PROVE Count(g, c) = b[c] + To(AllSlots(g), c)
  <2>1. Count(h, c) = ext[c] + To(R, c) /\ ext[c] \in Nat
    BY <1>1 DEF Good
  <2>2. To(R, c) \in Nat
    BY <1>2, ToIsNat
  <2>3. Count(g, c) = Count(h, c)
    BY DEF Count
  <2>4. AllSlots(g) = Q \cup {r}
    BY <1>1, <1>3
  <2>5. To(AllSlots(g), c) = To(R, c) - (IF u = c THEN 1 ELSE 0) + (IF v = c THEN 1 ELSE 0)
    BY <1>4, <1>5, <2>4
  <2>6. QED
    BY <1>7, <1>9, <2>1, <2>2, <2>3, <2>5
<1>11. QED
  BY <1>6, <1>8, <1>9, <1>10 DEF Good

\* json_object_put
HasMember(cell, v) == \E x \in ToSet(NodesOf(cell.map)) : x.data = v
PutKeeps(h, o, v, g) ==
  /\ DOMAIN g \subseteq DOMAIN h /\ Kept(h, g, {o})
  /\ o \in DOMAIN g => g[o].type = h[o].type /\ HasMember(g[o], v)

LEMMA KeptTrans ==
  ASSUME NEW h, NEW o, NEW v, NEW p, PutKeeps(h, o, v, p), o \in DOMAIN p,
         NEW g, Lesser(p, g)
  PROVE  PutKeeps(h, o, v, g)
<1>1. DOMAIN g \subseteq DOMAIN h /\ Kept(h, g, {o})
  BY DEF PutKeeps, Lesser, Kept, Same
<1>2. o \in DOMAIN g => Same(p[o], g[o])
  BY DEF Lesser, Kept
<1>3. o \in DOMAIN g => g[o].type = h[o].type /\ HasMember(g[o], v)
  BY <1>2 DEF PutKeeps, Same, HasMember
<1>4. QED
  BY <1>1, <1>3 DEF PutKeeps

LEMMA PutGood ==
  ASSUME NEW h, NEW ext, Good(h, ext), NEW o \in DOMAIN h, NEW name \in Names,
         NEW v \in IdSet, ext[v] > 0, NEW g, g = ObjectPut(h, o, name, v)
  PROVE  Good(g, Dip(ext, v)) /\ PutKeeps(h, o, v, g)
<1>1. PICK cell : cell = h[o]
  OBVIOUS
<1>2. CellOK(cell) /\ HeapOK(h) /\ o \in IdSet
  BY <1>1 DEF Good, HeapOK
<1>3. PICK new : new = Putting(cell, name, v)
  OBVIOUS
<1>4. PICK p : p = [h EXCEPT ![o] = new]
  OBVIOUS
<1>5. PutFacts(cell, name, v, new)
  BY <1>2, <1>3, PutCell
<1>6. DOMAIN p = DOMAIN h /\ p[o] = new /\ \A c \in DOMAIN h : c # o => p[c] = h[c]
  BY <1>4
<1>7. CellOK(p[o]) /\ p[o].type = h[o].type /\ HasMember(p[o], v)
      /\ \A c \in DOMAIN h : p[c].count = h[c].count
  BY <1>1, <1>5, <1>6 DEF PutFacts, HasMember
<1>8. HeapOK(p) /\ AllSlots(p) = (AllSlots(h) \ Slots(o, h[o])) \cup Slots(o, p[o])
  BY <1>2, <1>6, <1>7, OneCell
<1>9. Slots(o, cell) \subseteq AllSlots(h) /\ \A x \in AllSlots(h) : x \in Slots(x[1], h[x[1]])
  BY <1>1, <1>2, AllSlotsFinite
<1>10. Kept(h, p, {o})
  BY <1>6, SameKept
<1>11. PutKeeps(h, o, v, p) /\ o \in DOMAIN p
  BY <1>6, <1>7, <1>10 DEF PutKeeps
<1>12. p = [h EXCEPT ![o].map = Replace(h[o].map, name, v)]
  BY <1>1, <1>3, <1>4 DEF Putting
<1>13. PICK r : r = NameSlot(o, name, v)
  OBVIOUS
<1>14. r[1] = o /\ r[3] = v
  BY <1>13 DEF NameSlot
<1>15. CASE ~ Has(cell.map, name)
  <2>1. \A c : /\ Slots(c, new) = Slots(c, cell) \cup {NameSlot(c, name, v)}
               /\ NameSlot(c, name, v) \notin Slots(c, cell)
    BY <1>2, <1>3, <1>15, PutCell
  <2>2. Slots(o, new) = Slots(o, cell) \cup {r} /\ r \notin Slots(o, cell)
    BY <1>13, <2>1
  <2>3. r \notin AllSlots(h)
    BY <1>1, <1>9, <1>14, <2>2
  <2>4. AllSlots(p) = AllSlots(h) \cup {r}
    BY <1>1, <1>6, <1>8, <1>9, <2>2
  <2>5. Good(p, Dip(ext, v))
    BY <1>6, <1>7, <1>8, <1>14, <2>3, <2>4, MoveIn
  <2>6. g = p
    BY <1>1, <1>12, <1>15 DEF ObjectPut
  <2>7. QED
    BY <1>11, <2>5, <2>6
<1>16. CASE Has(cell.map, name)
  <2>1. \E old \in IdSet : Find(cell.map, name) = old /\ Swaps(cell, new, name, v, old)
    BY <1>2, <1>3, <1>16, PutCell
  <2>2. PICK old \in IdSet : Find(cell.map, name) = old /\ Swaps(cell, new, name, v, old)
    BY <2>1
  <2>3. PICK q : q = NameSlot(o, name, old)
    OBVIOUS
  <2>4. /\ q \in Slots(o, cell) /\ Slots(o, new) = (Slots(o, cell) \ {q}) \cup {r}
        /\ r \notin Slots(o, cell) \ {q}
    BY <1>13, <2>2, <2>3 DEF Swaps
  <2>5. q[1] = o /\ q[3] = old
    BY <2>3 DEF NameSlot
  <2>6. q \in AllSlots(h) /\ r \notin AllSlots(h) \ {q}
    BY <1>1, <1>9, <1>14, <2>4
  <2>7. \A x \in Slots(o, cell) : x \in AllSlots(h)
    BY <1>9
  <2>8. AllSlots(p) = (AllSlots(h) \ {q}) \cup {r}
    <3>1. AllSlots(p) = (AllSlots(h) \ Slots(o, cell)) \cup ((Slots(o, cell) \ {q}) \cup {r})
      BY <1>1, <1>6, <1>8, <2>4
    <3>2. QED
      BY <2>4, <2>7, <3>1
  <2>9. PICK e : e = Bump(Dip(ext, v), old)
    OBVIOUS
  <2>10. Good(p, e)
    BY <1>6, <1>7, <1>8, <1>14, <2>5, <2>6, <2>8, <2>9, SwapIn
  <2>11. Dip(ext, v) \in [IdSet -> Nat]
    BY BumpDip DEF Good
  <2>12. e[old] = Dip(ext, v)[old] + 1 /\ Dip(ext, v)[old] \in Nat
    BY <2>9, <2>11, BumpDip
  <2>13. e[old] > 0
    BY <2>12
  <2>14. Dip(e, old) = Dip(ext, v)
    BY <2>9, <2>11, BumpDip
  <2>15. g = Destroy(p, old)
    BY <1>1, <1>12, <1>16, <2>2 DEF ObjectPut
  <2>16. Good(g, Dip(e, old)) /\ Lesser(p, g)
    BY <2>10, <2>13, <2>15, DestroyGood
  <2>17. PutKeeps(h, o, v, g)
    BY <1>11, <2>16, KeptTrans
  <2>18. QED
    BY <2>14, <2>16, <2>17
<1>17. QED
  BY <1>15, <1>16

\* json_deep_clone, child by child; the value that is copied stays as it is.
Copying(g, ext, id, cell) == Good(g, ext) /\ id \in DOMAIN g /\ Same(cell, g[id])

Cloned(h, ext, id, cell, v, g) ==
  Copying(g, Bump(ext, v), id, cell) /\ DOMAIN g = DOMAIN h /\ Bump(ext, v)[v] > 0
LEMMA ChildCloned ==
  ASSUME NEW h, NEW ext, NEW id \in IdSet, NEW cell, Copying(h, ext, id, cell), ext[id] > 0,
         NEW r \in Slots(id, cell), NEW v \in IdSet, r[3] = v,
         NEW g, g = CloneValue(h, v)
  PROVE  Cloned(h, ext, id, cell, v, g)
<1>1. Good(h, ext) /\ id \in DOMAIN h /\ Same(cell, h[id]) /\ ext \in [IdSet -> Nat]
  BY DEF Copying, Good
<1>2. Slots(id, h[id]) = Slots(id, cell)
  BY <1>1 DEF Same, Slots
<1>3. Slots(id, h[id]) \subseteq AllSlots(h)
  BY <1>1, AllSlotsFinite DEF Good
<1>4. v \in DOMAIN h
  BY <1>1, <1>2, <1>3, ReferredLives
<1>5. Good(g, Bump(ext, v)) /\ DOMAIN g = DOMAIN h /\ Kept(h, g, {})
  BY <1>1, <1>4, CloneGood
<1>6. Same(cell, g[id])
  BY <1>1, <1>5 DEF Kept, Same
<1>7. Bump(ext, v)[v] = ext[v] + 1 /\ ext[v] \in Nat
  BY <1>1, BumpDip
<1>8. QED
  BY <1>1, <1>5, <1>6, <1>7 DEF Copying, Cloned

\* The reference that the copy of a child has goes into the new container.
LEMMA ChildPlaced ==
  ASSUME NEW h, NEW ext \in [IdSet -> Nat], NEW id \in IdSet, NEW cell, NEW v \in IdSet,
         Copying(h, Bump(ext, v), id, cell), ext[id] > 0, NEW n, n # id,
         NEW g, Good(g, Dip(Bump(ext, v), v)), Kept(h, g, {n})
  PROVE  Copying(g, ext, id, cell)
<1>1. Good(g, ext)
  BY BumpDip
<1>2. id \in DOMAIN g
  BY <1>1, ReferredLives
<1>3. Same(cell, g[id])
  BY <1>2 DEF Kept, Same, Copying
<1>4. QED
  BY <1>1, <1>2, <1>3 DEF Copying

LEMMA MemberCopied ==
  ASSUME NEW h, NEW ext, NEW id \in IdSet, NEW cell, CellOK(cell),
         Copying(h, ext, id, cell), ext[id] > 0,
         NEW n \in IdSet, n # id, ext[n] > 0, NEW x \in ToSet(NodesOf(cell.map)),
         NEW g, g = ObjectPut(CloneValue(h, x.data), n, x.name, x.data)
  PROVE  Copying(g, ext, id, cell)
<1>1. ext \in [IdSet -> Nat] /\ Good(h, ext)
  BY DEF Copying, Good
<1>2. x.name \in Names /\ x.data \in IdSet
  BY MembersFinite DEF CellOK, Nodes
<1>3. PICK name \in Names, v \in IdSet : name = x.name /\ v = x.data
  BY <1>2
<1>4. PICK c : c = CloneValue(h, v)
  OBVIOUS
<1>5. PICK r : r = <<id, <<"member", x.name>>, x.data>>
  OBVIOUS
<1>6. r \in Slots(id, cell) /\ r[3] = v
  BY <1>3, <1>5 DEF Slots
<1>7. Copying(c, Bump(ext, v), id, cell) /\ DOMAIN c = DOMAIN h /\ Bump(ext, v)[v] > 0
  <2>1. Cloned(h, ext, id, cell, v, c)
    BY <1>4, <1>6, ChildCloned
  <2>2. QED
    BY <2>1 DEF Cloned
<1>8. n \in DOMAIN c
  BY <1>1, <1>7, ReferredLives
<1>9. g = ObjectPut(c, n, name, v)
  BY <1>3, <1>4
<1>10. Good(c, Bump(ext, v))
  BY <1>7 DEF Copying
<1>11. Good(g, Dip(Bump(ext, v), v)) /\ PutKeeps(c, n, v, g)
  BY <1>7, <1>8, <1>9, <1>10, PutGood
<1>12. Kept(c, g, {n})
  BY <1>11 DEF PutKeeps
<1>13. QED
  BY <1>1, <1>7, <1>11, <1>12, ChildPlaced

LEMMA ElementCopied ==
  ASSUME NEW h, NEW ext, NEW id \in IdSet, NEW cell, CellOK(cell),
         Copying(h, ext, id, cell), ext[id] > 0,
         NEW n \in IdSet, n # id, ext[n] > 0, NEW i \in DOMAIN cell.elems,
         NEW g, g = ArrayAdd(CloneValue(h, cell.elems[i]), n, cell.elems[i])
  PROVE  Copying(g, ext, id, cell)
<1>1. ext \in [IdSet -> Nat] /\ Good(h, ext)
  BY DEF Copying, Good
<1>2. cell.elems[i] \in IdSet
  BY DEF CellOK
<1>3. PICK v \in IdSet : v = cell.elems[i]
  BY <1>2
<1>4. PICK c : c = CloneValue(h, v)
  OBVIOUS
<1>5. PICK r : r = <<id, <<"elem", i>>, cell.elems[i]>>
  OBVIOUS
<1>6. r \in Slots(id, cell) /\ r[3] = v
  BY <1>3, <1>5 DEF Slots
<1>7. Copying(c, Bump(ext, v), id, cell) /\ DOMAIN c = DOMAIN h /\ Bump(ext, v)[v] > 0
  <2>1. Cloned(h, ext, id, cell, v, c)
    BY <1>4, <1>6, ChildCloned
  <2>2. QED
    BY <2>1 DEF Cloned
<1>8. n \in DOMAIN c
  BY <1>1, <1>7, ReferredLives
<1>9. g = ArrayAdd(c, n, v)
  BY <1>3, <1>4
<1>10. Good(c, Bump(ext, v))
  BY <1>7 DEF Copying
<1>11. Good(g, Dip(Bump(ext, v), v)) /\ AddKeeps(c, n, v, g)
  BY <1>7, <1>8, <1>9, <1>10, AddGood
<1>12. Kept(c, g, {n})
  BY <1>11 DEF AddKeeps
<1>13. QED
  BY <1>1, <1>7, <1>11, <1>12, ChildPlaced

\* json_clone_object and json_clone_array as loops.
CopyLoop(f, h, n, s, w, g) ==
  /\ f[0] = h /\ g = f[Len(s)]
  /\ w = [loop |-> w.loop, of |-> s, new |-> n]
  /\ \A i \in 1 .. Len(s) : f[i] = Round(w, f[i - 1], i)

LEMMA ObjectRounds ==
  ASSUME NEW h, NEW n, NEW s, Len(s) \in Nat,
         NEW w, w = [loop |-> "object", of |-> s, new |-> n]
  PROVE  \E f : CopyLoop(f, h, n, s, w, CloneObject(h, n, s))
<1>1. PICK m \in Nat : m = Len(s)
  OBVIOUS
<1> DEFINE Eq(f) == f = [i \in 0 .. m |-> IF i = 0 THEN h
                           ELSE ObjectPut(CloneValue(f[i - 1], s[i].data), n, s[i].name, s[i].data)]
           json == CHOOSE f : Eq(f)
<1>2. \A x, i : Round(w, x, i) = ObjectPut(CloneValue(x, s[i].data), n, s[i].name, s[i].data)
  BY DEF Round
<1>3. PICK g : Looping(g, m, h, w)
  BY Loop
<1>4. Eq(g)
  BY <1>2, <1>3, Zenon DEF Looping
<1>5. Eq(json)
  BY <1>4, Zenon
<1>6. PICK f : f = json
  OBVIOUS
<1>7. \A i \in 0 .. m : f[i] = IF i = 0 THEN h ELSE Round(w, f[i - 1], i)
  BY <1>2, <1>5, <1>6, Zenon
<1>8. CloneObject(h, n, s) = f[m]
  BY <1>1, <1>6, Zenon DEF CloneObject
<1> HIDE DEF Eq, json
<1>9. 0 \in 0 .. m /\ \A i \in 1 .. m : i \in 0 .. m /\ i # 0
  OBVIOUS
<1>10. f[0] = h /\ \A i \in 1 .. m : f[i] = Round(w, f[i - 1], i)
  BY <1>7, <1>9, Zenon
<1>11. CopyLoop(f, h, n, s, w, CloneObject(h, n, s))
  BY <1>1, <1>8, <1>10 DEF CopyLoop
<1>12. QED
  BY <1>11, Zenon

LEMMA ArrayRounds ==
  ASSUME NEW h, NEW n, NEW s, Len(s) \in Nat,
         NEW w, w = [loop |-> "array", of |-> s, new |-> n]
  PROVE  \E f : CopyLoop(f, h, n, s, w, CloneArray(h, n, s))
<1>1. PICK m \in Nat : m = Len(s)
  OBVIOUS
<1> DEFINE Eq(f) == f = [i \in 0 .. m |-> IF i = 0 THEN h
                           ELSE ArrayAdd(CloneValue(f[i - 1], s[i]), n, s[i])]
           elems == CHOOSE f : Eq(f)
<1>2. \A x, i : Round(w, x, i) = ArrayAdd(CloneValue(x, s[i]), n, s[i])
  BY DEF Round
<1>3. PICK g : Looping(g, m, h, w)
  BY Loop
<1>4. Eq(g)
  BY <1>2, <1>3, Zenon DEF Looping
<1>5. Eq(elems)
  BY <1>4, Zenon
<1>6. PICK f : f = elems
  OBVIOUS
<1>7. \A i \in 0 .. m : f[i] = IF i = 0 THEN h ELSE Round(w, f[i - 1], i)
  BY <1>2, <1>5, <1>6, Zenon
<1>8. CloneArray(h, n, s) = f[m]
  BY <1>1, <1>6, Zenon DEF CloneArray
<1> HIDE DEF Eq, elems
<1>9. 0 \in 0 .. m /\ \A i \in 1 .. m : i \in 0 .. m /\ i # 0
  OBVIOUS
<1>10. f[0] = h /\ \A i \in 1 .. m : f[i] = Round(w, f[i - 1], i)
  BY <1>7, <1>9, Zenon
<1>11. CopyLoop(f, h, n, s, w, CloneArray(h, n, s))
  BY <1>1, <1>8, <1>10 DEF CopyLoop
<1>12. QED
  BY <1>11, Zenon

\* When every round copies a child, the loop copies them all.
LEMMA CopiedAll ==
  ASSUME NEW f, NEW h, NEW n, NEW s, NEW w, NEW g, CopyLoop(f, h, n, s, w, g), Len(s) \in Nat,
         NEW ext, NEW id, NEW cell, Copying(h, ext, id, cell),
         \A x : \A i \in 1 .. Len(s) :
           Copying(x, ext, id, cell) => Copying(Round(w, x, i), ext, id, cell)
  PROVE  Copying(g, ext, id, cell)
<1>1. PICK m \in Nat : m = Len(s)
  OBVIOUS
<1> DEFINE S == {i \in 0 .. m : Copying(f[i], ext, id, cell)}
<1>2. 0 \in S
  BY DEF CopyLoop
<1>3. ASSUME NEW i \in Nat, i < m /\ i \in S PROVE i + 1 \in S
  <2>1. PICK j \in 1 .. m : j = i + 1 /\ j - 1 = i
    BY <1>3
  <2>2. f[j] = Round(w, f[j - 1], j)
    BY <1>1 DEF CopyLoop
  <2>3. Copying(f[j - 1], ext, id, cell)
    BY <1>3, <2>1
  <2>4. Copying(Round(w, f[j - 1], j), ext, id, cell)
    BY <1>1, <2>3
  <2>5. QED
    BY <2>1, <2>2, <2>4
<1>4. \A i \in 0 .. m : i \in S
  <2> HIDE DEF S
  <2>1. QED
    BY <1>2, <1>3, UpTo
<1>5. m \in S
  BY <1>4
<1>6. QED
  BY <1>1, <1>5 DEF CopyLoop

\* json_deep_clone
LEMMA DeepCloneGood ==
  ASSUME NEW h, NEW ext, Good(h, ext), NEW id \in DOMAIN h, ext[id] > 0,
         NEW g, g = DeepCloneValue(h, id)
  PROVE  Good(g, Bump(ext, NewId(h))) /\ NewId(h) \in IdSet
<1>1. PICK cell : cell = h[id]
  OBVIOUS
<1>2. CellOK(cell) /\ HeapOK(h) /\ id \in IdSet /\ cell.type \in Types /\ ext \in [IdSet -> Nat]
  BY <1>1 DEF Good, HeapOK, CellOK
<1>3. PICK new : new = Cell(cell.type, cell.val)
  OBVIOUS
<1>4. PICK n, blank : n = NewId(h) /\ blank = Alloc(h, new)
  OBVIOUS
<1>5. Allocated(h, ext, new, blank, n)
  BY <1>2, <1>3, <1>4, AllocGood
<1>6. PICK e : e = Bump(ext, n)
  OBVIOUS
<1>7. n \in IdSet /\ n # id /\ Good(blank, e) /\ id \in DOMAIN blank /\ blank[id] = cell
  BY <1>1, <1>5, <1>6 DEF Allocated
<1>8. \A c \in IdSet : e[c] = ext[c] + (IF c = n THEN 1 ELSE 0)
  BY <1>2, <1>6, <1>7, BumpDip
<1>9. ext[id] \in Nat /\ ext[n] \in Nat
  BY <1>2, <1>7
<1>10. e[id] > 0 /\ e[n] > 0
  BY <1>2, <1>7, <1>8, <1>9
<1>11. Copying(blank, e, id, cell)
  BY <1>7 DEF Copying, Same
<1>12. CASE cell.type = "object"
  <2>1. PICK s \in Seq(NodeSet(IdSet)) : s = NodesOf(cell.map)
    BY <1>2, MembersFinite DEF CellOK
  <2>2. PICK w : w = [loop |-> "object", of |-> s, new |-> n]
    OBVIOUS
  <2>3. g = CloneObject(blank, n, s)
    BY <1>1, <1>3, <1>4, <1>12, <2>1 DEF DeepCloneValue
  <2>4. PICK f : CopyLoop(f, blank, n, s, w, g)
    BY <2>2, <2>3, ObjectRounds
  <2>5. ASSUME NEW x, NEW i \in 1 .. Len(s), Copying(x, e, id, cell)
        PROVE  Copying(Round(w, x, i), e, id, cell)
    <3>1. PICK y : y = s[i]
      OBVIOUS
    <3>2. y \in ToSet(NodesOf(cell.map))
      BY <2>1, <3>1 DEF ToSet
    <3>3. PICK z : z = Round(w, x, i)
      OBVIOUS
    <3>4. z = ObjectPut(CloneValue(x, y.data), n, y.name, y.data)
      BY <2>2, <3>1, <3>3 DEF Round
    <3>5. Copying(z, e, id, cell)
      BY <1>2, <1>7, <1>10, <2>5, <3>2, <3>4, MemberCopied
    <3>6. QED
      BY <3>3, <3>5
  <2>6. Copying(g, e, id, cell)
    <3>1. \A x : \A i \in 1 .. Len(s) :
            Copying(x, e, id, cell) => Copying(Round(w, x, i), e, id, cell)
      BY <2>5
    <3>2. Len(s) \in Nat
      OBVIOUS
    <3>3. QED
      BY <1>11, <2>4, <3>1, <3>2, CopiedAll
  <2>7. QED
    BY <1>4, <1>6, <1>7, <2>6 DEF Copying
<1>13. CASE cell.type # "object"
  <2>1. PICK s \in Seq(IdSet) : s = cell.elems
    BY <1>2 DEF CellOK
  <2>2. PICK w : w = [loop |-> "array", of |-> s, new |-> n]
    OBVIOUS
  <2>3. g = CloneArray(blank, n, s)
    BY <1>1, <1>3, <1>4, <1>13, <2>1 DEF DeepCloneValue
  <2>4. PICK f : CopyLoop(f, blank, n, s, w, g)
    BY <2>2, <2>3, ArrayRounds
  <2>5. ASSUME NEW x, NEW i \in 1 .. Len(s), Copying(x, e, id, cell)
        PROVE  Copying(Round(w, x, i), e, id, cell)
    <3>1. i \in DOMAIN cell.elems /\ s[i] = cell.elems[i]
      BY <2>1
    <3>2. PICK z : z = Round(w, x, i)
      OBVIOUS
    <3>3. z = ArrayAdd(CloneValue(x, cell.elems[i]), n, cell.elems[i])
      BY <2>2, <3>1, <3>2 DEF Round
    <3>4. Copying(z, e, id, cell)
      BY <1>2, <1>7, <1>10, <2>5, <3>1, <3>3, ElementCopied
    <3>5. QED
      BY <3>2, <3>4
  <2>6. Copying(g, e, id, cell)
    <3>1. \A x : \A i \in 1 .. Len(s) :
            Copying(x, e, id, cell) => Copying(Round(w, x, i), e, id, cell)
      BY <2>5
    <3>2. Len(s) \in Nat
      OBVIOUS
    <3>3. QED
      BY <1>11, <2>4, <3>1, <3>2, CopiedAll
  <2>7. QED
    BY <1>4, <1>6, <1>7, <2>6 DEF Copying
<1>14. QED
  BY <1>12, <1>13

-----------------------------------------------------------------------------
(* The path of the containers that the parser is in.                       *)

PathOK(h, stack) ==
  /\ stack \in Seq(IdSet) /\ Len(stack) <= MaxHeight
  /\ \A i, j \in DOMAIN stack : stack[i] = stack[j] => i = j
  /\ \A i \in DOMAIN stack :
       /\ stack[i] \in DOMAIN h /\ h[stack[i]].type \in {"object", "array"}
       /\ i > 1 => Below(h, stack[i - 1], stack[i])

LEMMA BelowLives ==
  ASSUME NEW h, NEW ext, Good(h, ext), NEW up \in DOMAIN h, NEW id \in IdSet, Below(h, up, id)
  PROVE  id \in DOMAIN h
<1>1. PICK cell : cell = h[up]
  OBVIOUS
<1>2. CellOK(cell) /\ HeapOK(h) /\ Slots(up, cell) \subseteq AllSlots(h)
  BY <1>1, AllSlotsFinite DEF Good, HeapOK
<1>3. \E r \in Slots(up, cell) : r[3] = id
  <2>1. CASE cell.type = "array"
    <3>1. PICK s \in Seq(IdSet) : s = cell.elems
      BY <1>2 DEF CellOK
    <3>2. s # <<>> /\ s[Len(s)] = id
      BY <1>1, <2>1, <3>1 DEF Below, Last
    <3>3. Len(s) \in DOMAIN s
      BY <3>2
    <3>4. <<up, <<"elem", Len(s)>>, s[Len(s)]>> \in Slots(up, cell)
      BY <3>1, <3>3 DEF Slots
    <3>5. QED
      BY <3>2, <3>4
  <2>2. CASE cell.type # "array"
    <3>1. PICK x \in ToSet(NodesOf(cell.map)) : x.data = id
      BY <1>1, <2>2 DEF Below
    <3>2. <<up, <<"member", x.name>>, x.data>> \in Slots(up, cell)
      BY DEF Slots
    <3>3. QED
      BY <3>1, <3>2
  <2>3. QED
    BY <2>1, <2>2
<1>4. QED
  BY <1>2, <1>3, ReferredLives

LEMMA BelowKept ==
  ASSUME NEW h, NEW g, NEW up, Same(h[up], g[up]), NEW id, Below(h, up, id)
  PROVE  Below(g, up, id)
  BY DEF Same, Below

\* The containers below the top stay while something else changes, because the bottom
\* one is referred to and each refers to the next.
LEMMA PathKept ==
  ASSUME NEW h, NEW stack, PathOK(h, stack), NEW g, NEW ext, Good(g, ext),
         stack # <<>> => ext[Head(stack)] > 0,
         \A i \in DOMAIN stack : stack[i] \in DOMAIN g =>
           /\ g[stack[i]].type = h[stack[i]].type
           /\ i < Len(stack) => Same(h[stack[i]], g[stack[i]])
  PROVE  PathOK(g, stack)
<1>1. PICK n \in Nat : n = Len(stack)
  BY DEF PathOK
<1>2. /\ stack \in Seq(IdSet) /\ n <= MaxHeight /\ DOMAIN stack = 1 .. n
      /\ \A i \in 1 .. n : stack[i] \in IdSet
      /\ \A i, j \in DOMAIN stack : stack[i] = stack[j] => i = j
  BY <1>1 DEF PathOK
<1>3. \A i \in 1 .. n : /\ h[stack[i]].type \in {"object", "array"}
                        /\ i > 1 => Below(h, stack[i - 1], stack[i])
  BY <1>2 DEF PathOK
<1>4. \A i \in 1 .. n : stack[i] \in DOMAIN g =>
           /\ g[stack[i]].type = h[stack[i]].type
           /\ i < n => Same(h[stack[i]], g[stack[i]])
  BY <1>1, <1>2
<1> DEFINE S == {i \in 0 .. n : i = 0 \/ stack[i] \in DOMAIN g}
<1>5. ASSUME NEW i \in 1 .. n, i > 1, stack[i - 1] \in DOMAIN g
      PROVE  Below(g, stack[i - 1], stack[i])
  <2>1. PICK j \in 1 .. n : j = i - 1 /\ j < n
    BY <1>5
  <2>2. Same(h[stack[j]], g[stack[j]])
    BY <1>4, <1>5, <2>1
  <2>3. Below(h, stack[j], stack[i])
    BY <1>3, <1>5, <2>1
  <2>4. Below(g, stack[j], stack[i])
    BY <2>2, <2>3, BelowKept
  <2>5. QED
    BY <2>1, <2>4
<1>6. ASSUME NEW i \in Nat, i < n /\ i \in S PROVE i + 1 \in S
  <2>1. PICK j \in 1 .. n : j = i + 1 /\ j - 1 = i
    BY <1>6
  <2>2. stack[j] \in DOMAIN g
    <3>1. CASE i = 0
      <4>1. stack # <<>> /\ Head(stack) = stack[j]
        BY <1>1, <1>2, <2>1, <3>1
      <4>2. QED
        BY <1>2, <2>1, <4>1, ReferredLives
    <3>2. CASE i # 0
      <4>1. stack[j - 1] \in DOMAIN g /\ j > 1
        BY <1>6, <2>1, <3>2
      <4>2. Below(g, stack[j - 1], stack[j])
        BY <1>5, <4>1
      <4>3. stack[j] \in IdSet
        BY <1>2
      <4>4. QED
        BY <4>1, <4>2, <4>3, BelowLives
    <3>3. QED
      BY <3>1, <3>2
  <2>3. QED
    BY <2>1, <2>2
<1>7. \A i \in 0 .. n : i \in S
  <2>1. 0 \in S
    OBVIOUS
  <2> HIDE DEF S
  <2>2. QED
    BY <1>6, <2>1, UpTo
<1>8. ASSUME NEW i \in 1 .. n PROVE stack[i] \in DOMAIN g
  <2>1. i \in S
    BY <1>7
  <2>2. QED
    BY <2>1
<1>9. ASSUME NEW i \in 1 .. n, i > 1 PROVE Below(g, stack[i - 1], stack[i])
  <2>1. i - 1 \in 1 .. n
    BY <1>9
  <2>2. QED
    BY <1>5, <1>8, <1>9, <2>1
<1>10. QED
  BY <1>1, <1>2, <1>3, <1>4, <1>8, <1>9 DEF PathOK

LEMMA LastOfPath ==
  ASSUME NEW h, NEW stack, PathOK(h, stack), stack # <<>>
  PROVE  /\ Last(stack) \in DOMAIN h /\ Last(stack) \in IdSet /\ Head(stack) \in IdSet
         /\ h[Last(stack)].type \in {"object", "array"}
         /\ \A i \in DOMAIN stack : i < Len(stack) => stack[i] # Last(stack)
         /\ Len(stack) \in DOMAIN stack
<1>1. stack \in Seq(IdSet) /\ Len(stack) \in Nat /\ Len(stack) # 0
  BY DEF PathOK
<1>2. Len(stack) \in DOMAIN stack /\ DOMAIN stack = 1 .. Len(stack) /\ Head(stack) = stack[1]
  BY <1>1
<1>3. stack[Len(stack)] \in IdSet /\ stack[1] \in IdSet
  BY <1>1, <1>2
<1>4. QED
  BY <1>1, <1>2, <1>3 DEF PathOK, Last

\* json_parser_put_value, as what it does to the heap.
PutInto(h, top, member, v) ==
  IF h[top].type = "object" THEN ObjectPut(h, top, Head(member), v) ELSE ArrayAdd(h, top, v)

\* A new value goes into the container on top.
GoesInto(h, e, stack, top, v, g) ==
  /\ Good(g, e) /\ PathOK(g, stack) /\ Below(g, top, v) /\ Kept(h, g, {top})
  /\ g[top].type = h[top].type
LEMMA PutIntoGood ==
  ASSUME NEW h, NEW stack, PathOK(h, stack), stack # <<>>,
         NEW e \in [IdSet -> Nat], e[Head(stack)] > 0, NEW v \in IdSet, Good(h, Bump(e, v)),
         NEW top, top = Last(stack), NEW member,
         h[top].type = "object" => Head(member) \in Names,
         NEW g, g = PutInto(h, top, member, v)
  PROVE  GoesInto(h, e, stack, top, v, g)
<1>1. /\ top \in DOMAIN h /\ h[top].type \in {"object", "array"} /\ Len(stack) \in DOMAIN stack
      /\ \A i \in DOMAIN stack : i < Len(stack) => stack[i] # top
  BY LastOfPath
<1>2. Dip(Bump(e, v), v) = e /\ Bump(e, v)[v] = e[v] + 1 /\ e[v] \in Nat
  BY BumpDip
<1>3. Bump(e, v)[v] > 0
  BY <1>2
<1>4. /\ Good(g, e) /\ Kept(h, g, {top})
      /\ top \in DOMAIN g => g[top].type = h[top].type /\ Below(g, top, v)
  <2>1. CASE h[top].type = "object"
    <3>1. PICK name \in Names : name = Head(member)
      BY <2>1
    <3>2. g = ObjectPut(h, top, name, v)
      BY <2>1, <3>1 DEF PutInto
    <3>3. Good(g, Dip(Bump(e, v), v)) /\ PutKeeps(h, top, v, g)
      BY <1>1, <1>3, <3>2, PutGood
    <3>4. QED
      BY <1>2, <2>1, <3>3 DEF PutKeeps, HasMember, Below
  <2>2. CASE h[top].type # "object"
    <3>1. g = ArrayAdd(h, top, v)
      BY <2>2 DEF PutInto
    <3>2. Good(g, Dip(Bump(e, v), v)) /\ AddKeeps(h, top, v, g)
      BY <1>1, <1>3, <3>1, AddGood
    <3>3. h[top].type = "array"
      BY <1>1, <2>2
    <3>4. QED
      BY <1>2, <3>2, <3>3 DEF Below, AddKeeps
  <2>3. QED
    BY <2>1, <2>2
<1>5. ASSUME NEW i \in DOMAIN stack, stack[i] \in DOMAIN g
      PROVE  /\ g[stack[i]].type = h[stack[i]].type
             /\ i < Len(stack) => Same(h[stack[i]], g[stack[i]])
  <2>1. stack[i] \in DOMAIN h
    BY DEF PathOK
  <2>2. stack[i] # top => Same(h[stack[i]], g[stack[i]])
    BY <1>4, <1>5, <2>1 DEF Kept
  <2>3. QED
    BY <1>1, <1>4, <1>5, <2>2 DEF Same
<1>6. PathOK(g, stack)
  BY <1>4, <1>5, PathKept
<1>7. top \in DOMAIN g
  BY <1>1, <1>6 DEF PathOK, Last
<1>8. QED
  BY <1>4, <1>6, <1>7 DEF GoesInto

\* The path after an allocation.
LEMMA PathAllocated ==
  ASSUME NEW h, NEW stack, PathOK(h, stack), NEW ext, NEW cell, NEW g, NEW n,
         Allocated(h, ext, cell, g, n)
  PROVE  PathOK(g, stack) /\ \A i \in DOMAIN stack : stack[i] # n
<1>1. ASSUME NEW i \in DOMAIN stack PROVE stack[i] \in DOMAIN g /\ g[stack[i]] = h[stack[i]]
  BY DEF PathOK, Allocated
<1>2. ASSUME NEW i \in DOMAIN stack, i > 1 PROVE Below(g, stack[i - 1], stack[i])
  <2>1. i - 1 \in DOMAIN stack
    BY <1>2 DEF PathOK
  <2>2. g[stack[i - 1]] = h[stack[i - 1]] /\ Below(h, stack[i - 1], stack[i])
    BY <1>1, <1>2, <2>1 DEF PathOK
  <2>3. QED
    BY <2>2 DEF Below
<1>3. QED
  BY <1>1, <1>2 DEF PathOK, Allocated

\* The path with one more container.
LEMMA PathLonger ==
  ASSUME NEW h, NEW stack, PathOK(h, stack), Len(stack) < MaxHeight, MaxHeight \in Nat,
         NEW n \in IdSet, n \in DOMAIN h, h[n].type \in {"object", "array"},
         \A i \in DOMAIN stack : stack[i] # n,
         stack # <<>> => Below(h, Last(stack), n)
  PROVE  PathOK(h, Append(stack, n)) /\ Last(Append(stack, n)) = n
<1>1. PICK m \in Nat : m = Len(stack)
  BY DEF PathOK
<1>2. PICK t : t = Append(stack, n)
  OBVIOUS
<1>3. stack \in Seq(IdSet) /\ DOMAIN stack = 1 .. m
  BY <1>1 DEF PathOK
<1>4. /\ t \in Seq(IdSet) /\ Len(t) = m + 1 /\ DOMAIN t = 1 .. m + 1
      /\ t[m + 1] = n /\ \A i \in 1 .. m : t[i] = stack[i]
  BY <1>1, <1>2, <1>3
<1>5. Len(t) <= MaxHeight
  BY <1>1, <1>4
<1>6. \A i, j \in DOMAIN t : t[i] = t[j] => i = j
  BY <1>3, <1>4 DEF PathOK
<1>7. ASSUME NEW i \in DOMAIN t
      PROVE  /\ t[i] \in DOMAIN h /\ h[t[i]].type \in {"object", "array"}
             /\ i > 1 => Below(h, t[i - 1], t[i])
  <2>1. CASE i = m + 1
    <3>1. i > 1 => stack # <<>> /\ i - 1 = m /\ m \in 1 .. m
      BY <1>1, <1>3, <2>1
    <3>2. i > 1 => t[i - 1] = Last(stack)
      BY <1>1, <1>4, <3>1 DEF Last
    <3>3. QED
      BY <1>4, <2>1, <3>1, <3>2
  <2>2. CASE i # m + 1
    <3>1. i \in 1 .. m /\ t[i] = stack[i]
      BY <1>4, <2>2
    <3>2. i > 1 => i - 1 \in 1 .. m /\ t[i - 1] = stack[i - 1]
      BY <1>4, <3>1
    <3>3. /\ stack[i] \in DOMAIN h /\ h[stack[i]].type \in {"object", "array"}
          /\ i > 1 => Below(h, stack[i - 1], stack[i])
      BY <1>3, <3>1 DEF PathOK
    <3>4. QED
      BY <3>1, <3>2, <3>3
  <2>3. QED
    BY <2>1, <2>2
<1>8. Last(t) = n
  BY <1>4 DEF Last
<1>9. QED
  BY <1>2, <1>4, <1>5, <1>6, <1>7, <1>8 DEF PathOK

LEMMA PathShorter ==
  ASSUME NEW h, NEW stack, PathOK(h, stack), stack # <<>>, Len(stack) # 1
  PROVE  /\ PathOK(h, Front(stack)) /\ Front(stack) # <<>> /\ Head(Front(stack)) = Head(stack)
         /\ h[Last(Front(stack))].type \in {"object", "array"}
<1>1. PICK m \in Nat : m = Len(stack)
  BY DEF PathOK
<1>2. PICK t : t = Front(stack)
  OBVIOUS
<1>3. stack \in Seq(IdSet) /\ DOMAIN stack = 1 .. m /\ m > 1
  BY <1>1 DEF PathOK
<1>4. /\ t \in Seq(IdSet) /\ Len(t) = m - 1 /\ DOMAIN t = 1 .. m - 1
      /\ \A i \in 1 .. m - 1 : t[i] = stack[i]
  BY <1>1, <1>2, <1>3 DEF Front
<1>5. t # <<>> /\ Head(t) = Head(stack)
  BY <1>3, <1>4
<1>6. ASSUME NEW i \in DOMAIN t
      PROVE  /\ t[i] \in DOMAIN h /\ h[t[i]].type \in {"object", "array"}
             /\ i > 1 => Below(h, t[i - 1], t[i])
  <2>1. i \in 1 .. m /\ t[i] = stack[i]
    BY <1>4
  <2>2. i > 1 => i - 1 \in 1 .. m - 1 /\ t[i - 1] = stack[i - 1]
    BY <1>4
  <2>3. /\ stack[i] \in DOMAIN h /\ h[stack[i]].type \in {"object", "array"}
        /\ i > 1 => Below(h, stack[i - 1], stack[i])
    BY <1>3, <2>1 DEF PathOK
  <2>4. QED
    BY <2>1, <2>2, <2>3
<1>7. \A i, j \in DOMAIN t : t[i] = t[j] => i = j
  BY <1>3, <1>4 DEF PathOK
<1>8. Len(t) <= MaxHeight
  BY <1>1, <1>3, <1>4, JsonAssumption DEF PathOK
<1>9. PathOK(h, t)
  BY <1>4, <1>6, <1>7, <1>8 DEF PathOK
<1>10. h[Last(t)].type \in {"object", "array"}
  BY <1>5, <1>9, LastOfPath
<1>11. QED
  BY <1>2, <1>5, <1>9, <1>10

-----------------------------------------------------------------------------
(* The parser: its state fits the path, whatever the input.                *)

ParserFields == {"open", "trailer", "lex", "buffer", "state", "stack", "member_name",
                 "done", "error", "fed"}
LexStates == {"START", "NUMBER", "KEYWORD", "STRING", "ESCAPE"}
Shape(s) == DOMAIN s = {"h", "p"} /\ DOMAIN s.p = ParserFields

TopIs(h, stack, type) == stack # <<>> /\ h[Last(stack)].type = type
StateFits(h, stack, state, member) ==
  /\ state \in InObject => TopIs(h, stack, "object")
  /\ state \in InArray => TopIs(h, stack, "array")
  /\ state = "END" => Len(stack) = 1
  /\ state = "START" => stack = <<>>
  /\ (member # <<>>) <=> (state \in {"OBJECT_COLON", "OBJECT_VALUE"})
MemberOK(member) == member = <<>> \/ \E x : member = <<x>>
Rooted(ext, stack) == IF stack = <<>> THEN ext ELSE Bump(ext, Head(stack))

ParserOK(s, ext) ==
  /\ Shape(s) /\ s.p.open = TRUE /\ s.p.lex \in LexStates
  /\ Good(s.h, Rooted(ext, s.p.stack)) /\ PathOK(s.h, s.p.stack)
  /\ StateFits(s.h, s.p.stack, s.p.state, s.p.member_name) /\ MemberOK(s.p.member_name)

LEMMA RootedIs ==
  ASSUME NEW ext \in [IdSet -> Nat], NEW h, NEW stack, PathOK(h, stack)
  PROVE  /\ Rooted(ext, stack) \in [IdSet -> Nat]
         /\ stack # <<>> => Rooted(ext, stack)[Head(stack)] > 0
<1>1. CASE stack = <<>>
  BY <1>1 DEF Rooted
<1>2. CASE stack # <<>>
  <2>1. Head(stack) \in IdSet
    BY <1>2, LastOfPath
  <2>2. /\ Bump(ext, Head(stack)) \in [IdSet -> Nat]
        /\ Bump(ext, Head(stack))[Head(stack)] = ext[Head(stack)] + 1
    BY <2>1, BumpDip
  <2>3. ext[Head(stack)] \in Nat
    BY <2>1
  <2>4. QED
    BY <1>2, <2>2, <2>3 DEF Rooted
<1>3. QED
  BY <1>1, <1>2

\* A step of the lexer that leaves values, stack and state alone.
Like(s, t) ==
  /\ Shape(t) /\ t.h = s.h /\ t.p.lex \in LexStates /\ t.p.open = s.p.open
  /\ t.p.stack = s.p.stack /\ t.p.state = s.p.state /\ t.p.member_name = s.p.member_name

LEMMA LikeOK ==
  ASSUME NEW s, NEW ext, ParserOK(s, ext), NEW t, Like(s, t)
  PROVE  ParserOK(t, ext)
  BY DEF ParserOK, Like

\* A token that only changes the state and the member name.
LEMMA StateOK ==
  ASSUME NEW s, NEW ext, ParserOK(s, ext), NEW t, Shape(t), t.h = s.h, t.p.lex = s.p.lex,
         t.p.open = s.p.open, t.p.stack = s.p.stack, MemberOK(t.p.member_name),
         StateFits(s.h, s.p.stack, t.p.state, t.p.member_name)
  PROVE  ParserOK(t, ext)
  BY DEF ParserOK

LEMMA ErrorLike ==
  ASSUME NEW s, Shape(s), s.p.lex \in LexStates
  PROVE  /\ Like(s, Error(s)) /\ Error(s).p.error = TRUE
         /\ Error(s).p.lex = s.p.lex
<1>1. PICK p : p = [s.p EXCEPT !.error = TRUE, !.done = TRUE]
  OBVIOUS
<1>2. Error(s) = [s EXCEPT !.p = p]
  BY <1>1 DEF Error, Shape, ParserFields
<1>3. DOMAIN p = ParserFields /\ p.error = TRUE /\ p.lex = s.p.lex /\ p.open = s.p.open
      /\ p.stack = s.p.stack /\ p.state = s.p.state /\ p.member_name = s.p.member_name
  BY <1>1 DEF Shape, ParserFields
<1>4. PICK t : t = [s EXCEPT !.p = p]
  OBVIOUS
<1>5. DOMAIN t = {"h", "p"} /\ t.h = s.h /\ t.p = p
  BY <1>4 DEF Shape
<1>6. Like(s, t) /\ t.p.error = TRUE /\ t.p.lex = s.p.lex
  BY <1>3, <1>5 DEF Like, Shape
<1>7. QED
  BY <1>2, <1>4, <1>6

\* json_parser_put_value
PutView(s, v, t) ==
  /\ Shape(t) /\ t.h = PutInto(s.h, Top(s), s.p.member_name, v)
  /\ t.p.member_name = IF s.h[Top(s)].type = "object" THEN <<>> ELSE s.p.member_name
  /\ t.p.lex = s.p.lex /\ t.p.open = s.p.open
  /\ t.p.stack = s.p.stack /\ t.p.state = s.p.state
LEMMA PutValueView ==
  ASSUME NEW s, Shape(s), NEW v, NEW t, t = PutValue(s, v)
  PROVE  PutView(s, v, t)
<1>1. PICK g : g = PutInto(s.h, Top(s), s.p.member_name, v)
  OBVIOUS
<1>2. CASE s.h[Top(s)].type = "object"
  <2>1. t = [s EXCEPT !.h = g, !.p = [s.p EXCEPT !.member_name = <<>>]]
    BY <1>1, <1>2 DEF PutValue, PutInto, Shape
  <2>2. DOMAIN t = {"h", "p"} /\ t.h = g /\ t.p = [s.p EXCEPT !.member_name = <<>>]
    BY <2>1 DEF Shape
  <2>3. QED
    BY <1>1, <1>2, <2>2 DEF PutView, Shape, ParserFields
<1>3. CASE s.h[Top(s)].type # "object"
  <2>1. t = [s EXCEPT !.h = g]
    BY <1>1, <1>3 DEF PutValue, PutInto
  <2>2. DOMAIN t = {"h", "p"} /\ t.h = g /\ t.p = s.p
    BY <2>1 DEF Shape
  <2>3. QED
    BY <1>1, <1>3, <2>2 DEF PutView, Shape
<1>4. QED
  BY <1>2, <1>3

\* A value, new, that the parser puts into the container on top.
Named(s) == ToSet(s.p.member_name) \subseteq Names
Waiting == {"OBJECT_VALUE", "ARRAY_INIT", "ARRAY_VALUE"}
PutNew(s, ext, type, n, u) ==
  /\ Shape(u) /\ u.p.member_name = <<>>
  /\ u.p.lex = s.p.lex /\ u.p.open = s.p.open /\ u.p.stack = s.p.stack
  /\ Good(u.h, Rooted(ext, s.p.stack)) /\ PathOK(u.h, s.p.stack)
  /\ n \in IdSet /\ n \in DOMAIN u.h /\ u.h[n].type = type
  /\ Below(u.h, Last(s.p.stack), n) /\ \A i \in DOMAIN s.p.stack : s.p.stack[i] # n
  /\ u.h[Last(s.p.stack)].type = s.h[Last(s.p.stack)].type

LEMMA PutNewValue ==
  ASSUME NEW s, NEW ext \in [IdSet -> Nat], ParserOK(s, ext), Named(s), s.p.state \in Waiting,
         NEW type \in Types, NEW val, NEW n, n = NewId(s.h),
         NEW u, u = PutValue([s EXCEPT !.h = Alloc(s.h, Cell(type, val))], n)
  PROVE  PutNew(s, ext, type, n, u)
<1>1. PICK h, stack, member : h = s.h /\ stack = s.p.stack /\ member = s.p.member_name
  OBVIOUS
<1>2. /\ Shape(s) /\ Good(h, Rooted(ext, stack)) /\ PathOK(h, stack) /\ MemberOK(member)
      /\ StateFits(h, stack, s.p.state, member)
  BY <1>1 DEF ParserOK
<1>3. PICK g : g = Alloc(h, Cell(type, val))
  OBVIOUS
<1>4. PICK e : e = Rooted(ext, stack)
  OBVIOUS
<1>5. Allocated(h, e, Cell(type, val), g, n)
  BY <1>1, <1>2, <1>3, <1>4, AllocGood
<1>6. /\ n \in IdSet /\ n \notin DOMAIN h /\ DOMAIN g = DOMAIN h \cup {n}
      /\ g[n].type = type /\ Good(g, Bump(e, n)) /\ \A c \in DOMAIN h : g[c] = h[c]
  BY <1>5, NewCell DEF Allocated
<1>7. PICK top : top = Last(stack)
  OBVIOUS
<1>8. stack # <<>> /\ h[top].type \in {"object", "array"} /\ top \in DOMAIN h
  <2>1. stack # <<>>
    BY <1>2 DEF StateFits, Waiting, InObject, InArray, TopIs
  <2>2. QED
    BY <1>2, <1>7, <2>1, LastOfPath
<1>9. g[top] = h[top]
  BY <1>6, <1>8
<1>10. /\ h[top].type = "object" => member # <<>>
       /\ h[top].type # "object" => member = <<>>
  BY <1>2, <1>7 DEF StateFits, Waiting, InObject, InArray, TopIs
<1>11. h[top].type = "object" => Head(member) \in Names
  <2> SUFFICES ASSUME h[top].type = "object" PROVE Head(member) \in Names
    OBVIOUS
  <2>1. PICK x : member = <<x>>
    BY <1>2, <1>10 DEF MemberOK
  <2>2. Head(member) = x /\ x \in ToSet(member)
    BY <2>1 DEF ToSet
  <2>3. QED
    BY <1>1, <2>2 DEF Named
<1>12. PathOK(g, stack) /\ \A i \in DOMAIN stack : stack[i] # n
  BY <1>2, <1>5, PathAllocated
<1>13. PICK t : t = [s EXCEPT !.h = g]
  OBVIOUS
<1>14. Shape(t) /\ t.h = g /\ t.p = s.p
  BY <1>2, <1>13 DEF Shape
<1>15. PutView(t, n, u)
  BY <1>1, <1>3, <1>13, <1>14, PutValueView
<1>16. Top(t) = top
  BY <1>1, <1>7, <1>14 DEF Top
<1>17. u.h = PutInto(g, top, member, n) /\ u.p.member_name = <<>>
  <2>1. u.h = PutInto(g, top, member, n)
    BY <1>1, <1>14, <1>15, <1>16 DEF PutView
  <2>2. u.p.member_name = IF h[top].type = "object" THEN <<>> ELSE member
    BY <1>1, <1>9, <1>14, <1>15, <1>16 DEF PutView
  <2>3. QED
    BY <1>10, <2>1, <2>2
<1>18. e \in [IdSet -> Nat] /\ e[Head(stack)] > 0
  BY <1>2, <1>4, <1>8, RootedIs
<1>19. PICK k : k = u.h
  OBVIOUS
<1>20. /\ Good(k, e) /\ PathOK(k, stack) /\ Below(k, top, n) /\ Kept(g, k, {top})
       /\ k[top].type = g[top].type
  <2>1. k = PutInto(g, top, member, n) /\ (g[top].type = "object" => Head(member) \in Names)
    BY <1>9, <1>11, <1>17, <1>19
  <2>2. GoesInto(g, e, stack, top, n, k)
    BY <1>6, <1>7, <1>8, <1>12, <1>18, <2>1, PutIntoGood
  <2>3. QED
    BY <2>2 DEF GoesInto
<1>21. top \in DOMAIN k
  BY <1>7, <1>8, <1>20, LastOfPath
<1>22. n \in DOMAIN k
  BY <1>6, <1>20, <1>21, BelowLives
<1>23. n # top /\ k[n].type = type
  <2>1. n # top
    BY <1>6, <1>8
  <2>2. QED
    BY <1>6, <1>20, <1>22, <2>1 DEF Kept, Same
<1>24. k[top].type = h[top].type
  BY <1>9, <1>20
<1>25. u.p.lex = s.p.lex /\ u.p.open = s.p.open /\ u.p.stack = s.p.stack /\ Shape(u)
  BY <1>14, <1>15 DEF PutView
<1>26. QED
  BY <1>1, <1>4, <1>6, <1>7, <1>12, <1>17, <1>19, <1>20, <1>22, <1>23, <1>24, <1>25 DEF PutNew

\* A step after which the parser has no member name but one that it had before.
Tame(s, t) == t.p.member_name = <<>> \/ t.p.member_name = s.p.member_name

\* json_parser_push
FreshState(type) == IF type = "object" THEN "OBJECT_INIT" ELSE "ARRAY_INIT"

LEMMA PushDeepOK ==
  ASSUME NEW s, NEW ext \in [IdSet -> Nat], ParserOK(s, ext), Named(s),
         s.p.state \in Waiting \cup {"START"}, Len(s.p.stack) < MaxHeight,
         NEW type \in {"object", "array"}, NEW t, t = PushDeep(s, type, FreshState(type))
  PROVE  ParserOK(t, ext) /\ t.p.member_name = <<>>
<1>1. PICK n : n = NewId(s.h)
  OBVIOUS
<1>2. PICK stack : stack = s.p.stack
  OBVIOUS
<1>3. PICK new_state : new_state = FreshState(type)
  OBVIOUS
<1>4. PICK u : u = IF stack = <<>> THEN [s EXCEPT !.h = Alloc(s.h, Cell(type, <<>>))]
                   ELSE PutValue([s EXCEPT !.h = Alloc(s.h, Cell(type, <<>>))], n)
  OBVIOUS
<1>5. t = [u EXCEPT !.p.stack = Append(u.p.stack, n), !.p.state = new_state]
  BY <1>1, <1>2, <1>3, <1>4 DEF PushDeep
<1>6. /\ Shape(s) /\ s.p.lex \in LexStates /\ s.p.open = TRUE /\ type \in Types
      /\ StateFits(s.h, stack, s.p.state, s.p.member_name)
      /\ Good(s.h, Rooted(ext, stack)) /\ PathOK(s.h, stack)
  BY <1>2 DEF ParserOK, Types
<1>7. PICK r : r = Append(stack, n)
  OBVIOUS
<1>8. /\ Shape(u) /\ u.p.lex = s.p.lex /\ u.p.open = s.p.open /\ u.p.stack = stack
      /\ u.p.member_name = <<>> /\ Good(u.h, Rooted(ext, r))
      /\ PathOK(u.h, r) /\ Last(r) = n /\ r # <<>> /\ u.h[n].type = type
  <2>1. CASE stack = <<>>
    <3>1. PICK g : g = Alloc(s.h, Cell(type, <<>>))
      OBVIOUS
    <3>2. u = [s EXCEPT !.h = g]
      BY <1>4, <2>1, <3>1
    <3>3. Shape(u) /\ u.h = g /\ u.p = s.p
      BY <1>6, <3>2 DEF Shape
    <3>4. s.p.state = "START" /\ s.p.member_name = <<>>
      BY <1>6, <2>1 DEF StateFits, Waiting, InObject, InArray, TopIs
    <3>5. Good(s.h, ext)
      BY <1>6, <2>1 DEF Rooted
    <3>6. Allocated(s.h, ext, Cell(type, <<>>), g, n)
      BY <1>1, <1>6, <3>1, <3>5, AllocGood
    <3>7. n \in IdSet /\ n \in DOMAIN g /\ g[n].type = type /\ Good(g, Bump(ext, n))
      BY <1>6, <3>6, NewCell DEF Allocated
    <3>8. PathOK(g, stack)
      BY <1>6, <3>6, PathAllocated
    <3>9. Len(stack) < MaxHeight /\ MaxHeight \in Nat
      BY <1>2, JsonAssumption
    <3>10. PathOK(g, r) /\ Last(r) = n
      <4>1. \A i \in DOMAIN stack : stack[i] # n
        BY <2>1
      <4>2. PathOK(g, Append(stack, n)) /\ Last(Append(stack, n)) = n
        BY <2>1, <3>7, <3>8, <3>9, <4>1, PathLonger
      <4>3. QED
        BY <1>7, <4>2
    <3>11. r = <<n>> /\ Head(r) = n /\ r # <<>>
      BY <1>7, <2>1
    <3>12. Rooted(ext, r) = Bump(ext, n)
      BY <3>11 DEF Rooted
    <3>13. QED
      BY <1>2, <3>3, <3>4, <3>7, <3>10, <3>11, <3>12
  <2>2. CASE stack # <<>>
    <3>1. s.p.state \in Waiting
      BY <1>6, <2>2 DEF StateFits
    <3>2. u = PutValue([s EXCEPT !.h = Alloc(s.h, Cell(type, <<>>))], n)
      BY <1>4, <2>2
    <3>3. PutNew(s, ext, type, n, u)
      BY <1>1, <1>6, <3>1, <3>2, PutNewValue
    <3>4. /\ Shape(u) /\ u.p.member_name = <<>> /\ u.p.lex = s.p.lex /\ u.p.open = s.p.open
          /\ u.p.stack = stack /\ Good(u.h, Rooted(ext, stack)) /\ PathOK(u.h, stack)
          /\ n \in IdSet /\ n \in DOMAIN u.h /\ u.h[n].type = type
          /\ Below(u.h, Last(stack), n) /\ \A i \in DOMAIN stack : stack[i] # n
      BY <1>2, <3>3 DEF PutNew
    <3>5. Len(stack) < MaxHeight /\ MaxHeight \in Nat
      BY <1>2, JsonAssumption
    <3>6. PathOK(u.h, Append(stack, n)) /\ Last(Append(stack, n)) = n
      BY <3>4, <3>5, PathLonger
    <3>7. stack \in Seq(IdSet)
      BY <1>6 DEF PathOK
    <3>8. r # <<>> /\ Head(r) = Head(stack)
      BY <1>7, <2>2, <3>4, <3>7
    <3>9. Rooted(ext, r) = Rooted(ext, stack)
      BY <2>2, <3>8 DEF Rooted
    <3>10. QED
      BY <1>7, <3>4, <3>6, <3>8, <3>9
  <2>3. QED
    BY <2>1, <2>2
<1>9. /\ Shape(t) /\ t.h = u.h /\ t.p.stack = r /\ t.p.state = new_state
      /\ t.p.lex = u.p.lex /\ t.p.open = u.p.open /\ t.p.member_name = u.p.member_name
  <2>1. PICK p : p = [u.p EXCEPT !.stack = r, !.state = new_state]
    OBVIOUS
  <2>2. t = [u EXCEPT !.p = p]
    BY <1>5, <1>7, <1>8, <2>1 DEF Shape, ParserFields
  <2>3. /\ DOMAIN p = ParserFields /\ p.stack = r /\ p.state = new_state
        /\ p.lex = u.p.lex /\ p.open = u.p.open /\ p.member_name = u.p.member_name
    BY <1>8, <2>1 DEF Shape, ParserFields
  <2>4. DOMAIN t = {"h", "p"} /\ t.h = u.h /\ t.p = p
    BY <1>8, <2>2 DEF Shape
  <2>5. QED
    BY <2>3, <2>4 DEF Shape
<1>10. StateFits(t.h, r, new_state, <<>>)
  BY <1>3, <1>8, <1>9 DEF StateFits, TopIs, FreshState, InObject, InArray
<1>11. ParserOK(t, ext)
  BY <1>6, <1>8, <1>9, <1>10 DEF ParserOK, MemberOK
<1>12. QED
  BY <1>8, <1>9, <1>11

LEMMA PushOK ==
  ASSUME NEW s, NEW ext \in [IdSet -> Nat], ParserOK(s, ext), Named(s),
         s.p.state \in Waiting \cup {"START"},
         NEW type \in {"object", "array"}, NEW t, t = Push(s, type, FreshState(type))
  PROVE  ParserOK(t, ext) /\ Tame(s, t)
<1>1. CASE Len(s.p.stack) < MaxHeight
  <2>1. t = PushDeep(s, type, FreshState(type))
    BY <1>1 DEF Push
  <2>2. QED
    BY <1>1, <2>1, PushDeepOK DEF Tame
<1>2. CASE ~ (Len(s.p.stack) < MaxHeight)
  <2>1. t = Error(s)
    BY <1>2 DEF Push
  <2>2. Like(s, t)
    BY <2>1, ErrorLike DEF ParserOK
  <2>3. QED
    BY <2>2, LikeOK DEF Like, Tame
<1>3. QED
  BY <1>1, <1>2

\* json_parse_value
Scalar(s, type, val, next_state) ==
  [PutValue([s EXCEPT !.h = Alloc(s.h, Cell(type, val))], NewId(s.h)) EXCEPT !.p.state = next_state]

LEMMA ScalarOK ==
  ASSUME NEW s, NEW ext \in [IdSet -> Nat], ParserOK(s, ext), Named(s), s.p.state \in Waiting,
         NEW type \in Types, NEW val, NEW next_state, next_state = AfterValue[s.p.state],
         NEW t, t = Scalar(s, type, val, next_state)
  PROVE  ParserOK(t, ext) /\ Tame(s, t)
<1>1. PICK n : n = NewId(s.h)
  OBVIOUS
<1>2. PICK u : u = PutValue([s EXCEPT !.h = Alloc(s.h, Cell(type, val))], n)
  OBVIOUS
<1>3. PutNew(s, ext, type, n, u)
  BY <1>1, <1>2, PutNewValue
<1>4. PICK stack : stack = s.p.stack
  OBVIOUS
<1>5. /\ Shape(u) /\ u.p.member_name = <<>> /\ u.p.lex = s.p.lex /\ u.p.open = s.p.open
      /\ u.p.stack = stack /\ Good(u.h, Rooted(ext, stack)) /\ PathOK(u.h, stack)
      /\ u.h[Last(stack)].type = s.h[Last(stack)].type
  BY <1>3, <1>4 DEF PutNew
<1>6. /\ s.p.lex \in LexStates /\ s.p.open = TRUE
      /\ StateFits(s.h, stack, s.p.state, s.p.member_name)
  BY <1>4 DEF ParserOK
<1>7. PICK p : p = [u.p EXCEPT !.state = next_state]
  OBVIOUS
<1>8. t = [u EXCEPT !.p = p]
  <2>1. t = [u EXCEPT !.p.state = next_state]
    BY <1>1, <1>2 DEF Scalar
  <2>2. QED
    BY <1>7, <2>1
<1>9. /\ DOMAIN p = ParserFields /\ p.state = next_state /\ p.stack = u.p.stack
      /\ p.lex = u.p.lex /\ p.open = u.p.open /\ p.member_name = u.p.member_name
  BY <1>5, <1>7 DEF Shape, ParserFields
<1>10. DOMAIN t = {"h", "p"} /\ t.h = u.h /\ t.p = p
  BY <1>5, <1>8 DEF Shape
<1>11. StateFits(u.h, stack, next_state, <<>>)
  <2>1. CASE s.p.state = "OBJECT_VALUE"
    <3>1. next_state = "OBJECT_NEXT"
      BY <2>1 DEF AfterValue
    <3>2. TopIs(u.h, stack, "object")
      BY <1>5, <1>6, <2>1 DEF StateFits, InObject, TopIs
    <3>3. QED
      BY <3>1, <3>2 DEF StateFits, InArray
  <2>2. CASE s.p.state \in {"ARRAY_INIT", "ARRAY_VALUE"}
    <3>1. next_state = "ARRAY_NEXT"
      BY <2>2 DEF AfterValue
    <3>2. TopIs(u.h, stack, "array")
      BY <1>5, <1>6, <2>2 DEF StateFits, InArray, TopIs
    <3>3. QED
      BY <3>1, <3>2 DEF StateFits, InObject
  <2>3. QED
    BY <2>1, <2>2 DEF Waiting
<1>12. ParserOK(t, ext)
  BY <1>5, <1>6, <1>9, <1>10, <1>11 DEF ParserOK, MemberOK, Shape
<1>13. QED
  BY <1>5, <1>9, <1>10, <1>12 DEF Tame

LEMMA ErrorOK ==
  ASSUME NEW s, NEW ext, ParserOK(s, ext)
  PROVE  ParserOK(Error(s), ext) /\ Tame(s, Error(s))
<1>1. Like(s, Error(s))
  BY ErrorLike DEF ParserOK
<1>2. QED
  BY <1>1, LikeOK DEF Tame, Like

LEMMA ParseValueOK ==
  ASSUME NEW s, NEW ext \in [IdSet -> Nat], ParserOK(s, ext), Named(s),
         s.p.state \in Waiting \cup {"START"}, NEW token,
         s.p.state = "START" => token.type \in {"{", "["},
         NEW t, t = ParseValue(s, token, AfterValue[s.p.state])
  PROVE  ParserOK(t, ext) /\ Tame(s, t)
<1>1. CASE token.type \in {"{", "["}
  <2>1. PICK type \in {"object", "array"} : type = IF token.type = "{" THEN "object" ELSE "array"
    OBVIOUS
  <2>2. t = Push(s, type, FreshState(type))
    BY <1>1, <2>1 DEF ParseValue, FreshState
  <2>3. QED
    BY <2>2, PushOK
<1>2. CASE token.type \in {"true", "integer", "real", "string"}
  <2>1. s.p.state \in Waiting
    BY <1>2
  <2>2. PICK type \in Types : type = token.type
    BY <1>2 DEF Types
  <2>3. PICK val : val = token.val
    OBVIOUS
  <2>4. PICK next_state : next_state = AfterValue[s.p.state]
    OBVIOUS
  <2>5. t = Scalar(s, type, val, next_state)
    BY <1>2, <2>2, <2>3, <2>4 DEF ParseValue, Scalar
  <2>6. QED
    BY <2>1, <2>4, <2>5, ScalarOK
<1>3. CASE token.type \notin {"{", "[", "true", "integer", "real", "string"}
  <2>1. t = Error(s)
    BY <1>3 DEF ParseValue
  <2>2. QED
    BY <2>1, ErrorOK
<1>4. QED
  BY <1>1, <1>2, <1>3

\* json_parser_pop
LEMMA PopOK ==
  ASSUME NEW s, NEW ext \in [IdSet -> Nat], ParserOK(s, ext),
         s.p.state \in {"OBJECT_INIT", "OBJECT_NEXT", "ARRAY_INIT", "ARRAY_NEXT"},
         NEW t, t = Pop(s)
  PROVE  ParserOK(t, ext) /\ Tame(s, t)
<1>1. PICK stack : stack = s.p.stack
  OBVIOUS
<1>2. /\ Shape(s) /\ s.p.lex \in LexStates /\ s.p.open = TRUE
      /\ Good(s.h, Rooted(ext, stack)) /\ PathOK(s.h, stack)
      /\ stack # <<>> /\ s.p.member_name = <<>>
  BY <1>1 DEF ParserOK, StateFits, InObject, InArray, TopIs
<1>3. CASE Len(stack) = 1
  <2>1. PICK p : p = [s.p EXCEPT !.state = "END", !.done = ~ s.p.trailer]
    OBVIOUS
  <2>2. t = [s EXCEPT !.p = p]
    BY <1>1, <1>2, <1>3, <2>1 DEF Pop, Shape, ParserFields
  <2>3. /\ DOMAIN p = ParserFields /\ p.state = "END" /\ p.stack = stack /\ p.lex = s.p.lex
        /\ p.open = s.p.open /\ p.member_name = s.p.member_name
    BY <1>1, <1>2, <2>1 DEF Shape, ParserFields
  <2>4. DOMAIN t = {"h", "p"} /\ t.h = s.h /\ t.p = p
    BY <1>2, <2>2 DEF Shape
  <2>5. StateFits(s.h, stack, "END", <<>>)
    BY <1>3 DEF StateFits, InObject, InArray
  <2>6. QED
    BY <1>2, <2>3, <2>4, <2>5 DEF ParserOK, MemberOK, Shape, Tame
<1>4. CASE Len(stack) # 1
  <2>1. PICK r : r = Front(stack)
    OBVIOUS
  <2>2. /\ PathOK(s.h, r) /\ r # <<>> /\ Head(r) = Head(stack)
        /\ s.h[Last(r)].type \in {"object", "array"}
    BY <1>2, <1>4, <2>1, PathShorter
  <2>3. PICK state : state = IF s.h[Last(r)].type = "array" THEN "ARRAY_NEXT" ELSE "OBJECT_NEXT"
    OBVIOUS
  <2>4. PICK up : up = [s EXCEPT !.p.stack = r]
    OBVIOUS
  <2>5. PICK q : q = [s.p EXCEPT !.stack = r]
    OBVIOUS
  <2>6. /\ DOMAIN q = ParserFields /\ q.stack = r /\ q.lex = s.p.lex
        /\ q.open = s.p.open /\ q.member_name = s.p.member_name
    BY <1>2, <2>5 DEF Shape, ParserFields
  <2>7. DOMAIN up = {"h", "p"} /\ up.h = s.h /\ up.p = q
    BY <1>2, <2>4, <2>5 DEF Shape
  <2>8. t = [up EXCEPT !.p.state = state]
    <3>1. t = [up EXCEPT !.p.state = IF up.h[Top(up)].type = "array"
                                     THEN "ARRAY_NEXT" ELSE "OBJECT_NEXT"]
      BY <1>1, <1>4, <2>1, <2>4 DEF Pop
    <3>2. Top(up) = Last(r) /\ up.h = s.h
      BY <2>6, <2>7 DEF Top
    <3>3. QED
      BY <2>3, <3>1, <3>2
  <2>9. PICK p : p = [q EXCEPT !.state = state]
    OBVIOUS
  <2>10. /\ DOMAIN p = ParserFields /\ p.stack = r /\ p.lex = s.p.lex /\ p.state = state
         /\ p.open = s.p.open /\ p.member_name = s.p.member_name
    BY <2>6, <2>9 DEF ParserFields
  <2>11. DOMAIN t = {"h", "p"} /\ t.h = s.h /\ t.p = p
    BY <2>7, <2>8, <2>9
  <2>12. StateFits(s.h, r, state, <<>>)
    BY <2>2, <2>3 DEF StateFits, InObject, InArray, TopIs
  <2>13. Rooted(ext, r) = Rooted(ext, stack)
    BY <1>2, <2>2 DEF Rooted
  <2>14. QED
    BY <1>2, <2>2, <2>10, <2>11, <2>12, <2>13 DEF ParserOK, MemberOK, Shape, Tame
<1>5. QED
  BY <1>3, <1>4

-----------------------------------------------------------------------------
(* The lexer and the parser's inputs.                                      *)

\* json_parser_input
Takes(s, ext, token, t) == ParserOK(t, ext) /\ (token.type # "string" => Tame(s, t))

\* A token that only moves the parser on.
Moved(s, at) == [s EXCEPT !.p.state = at]
LEMMA MoveOK ==
  ASSUME NEW s, NEW ext, ParserOK(s, ext), NEW at, StateFits(s.h, s.p.stack, at, s.p.member_name),
         NEW t, t = Moved(s, at)
  PROVE  ParserOK(t, ext) /\ Tame(s, t)
<1>1. Shape(s) /\ MemberOK(s.p.member_name)
  BY DEF ParserOK
<1>2. PICK p : p = [s.p EXCEPT !.state = at]
  OBVIOUS
<1>3. t = [s EXCEPT !.p = p]
  BY <1>2 DEF Moved
<1>4. /\ DOMAIN p = ParserFields /\ p.state = at /\ p.stack = s.p.stack /\ p.lex = s.p.lex
      /\ p.open = s.p.open /\ p.member_name = s.p.member_name
  BY <1>1, <1>2 DEF Shape, ParserFields
<1>5. DOMAIN t = {"h", "p"} /\ t.h = s.h /\ t.p = p
  BY <1>1, <1>3 DEF Shape
<1>6. ParserOK(t, ext)
  BY <1>1, <1>4, <1>5, StateOK DEF Shape
<1>7. QED
  BY <1>4, <1>5, <1>6 DEF Tame

NameTaken(s, val) == [s EXCEPT !.p.member_name = <<val>>, !.p.state = "OBJECT_COLON"]
LEMMA NameOK ==
  ASSUME NEW s, NEW ext, ParserOK(s, ext), s.p.state \in {"OBJECT_INIT", "OBJECT_NAME"},
         NEW val, NEW t, t = NameTaken(s, val)
  PROVE  ParserOK(t, ext)
<1>1. Shape(s)
  BY DEF ParserOK
<1>2. PICK p : p = [s.p EXCEPT !.member_name = <<val>>, !.state = "OBJECT_COLON"]
  OBVIOUS
<1>3. t = [s EXCEPT !.p = p]
  BY <1>1, <1>2 DEF NameTaken, Shape, ParserFields
<1>4. /\ DOMAIN p = ParserFields /\ p.state = "OBJECT_COLON" /\ p.stack = s.p.stack
      /\ p.lex = s.p.lex /\ p.open = s.p.open /\ p.member_name = <<val>>
  BY <1>1, <1>2 DEF Shape, ParserFields
<1>5. DOMAIN t = {"h", "p"} /\ t.h = s.h /\ t.p = p
  BY <1>1, <1>3 DEF Shape
<1>6. StateFits(s.h, s.p.stack, "OBJECT_COLON", <<val>>)
  BY DEF ParserOK, StateFits, InObject, InArray
<1>7. MemberOK(<<val>>)
  BY DEF MemberOK
<1>8. QED
  BY <1>1, <1>4, <1>5, <1>6, <1>7, StateOK DEF Shape

LEMMA ParseOK ==
  ASSUME NEW s, NEW ext \in [IdSet -> Nat], ParserOK(s, ext), Named(s),
         NEW token, NEW t, t = Parse(s, token)
  PROVE  Takes(s, ext, token, t)
<1>1. PICK at : at = s.p.state
  OBVIOUS
<1>2. PICK is : is = token.type
  OBVIOUS
<1>3. DOMAIN AfterValue = Waiting \cup {"START"}
  BY DEF AfterValue, Waiting
<1>4. CASE \/ at \in {"OBJECT_INIT", "OBJECT_NEXT"} /\ is = "}"
           \/ at \in {"ARRAY_INIT", "ARRAY_NEXT"} /\ is = "]"
  <2>1. t = Pop(s)
    BY <1>1, <1>2, <1>4, <1>3 DEF Parse, Waiting
  <2>2. s.p.state \in {"OBJECT_INIT", "OBJECT_NEXT", "ARRAY_INIT", "ARRAY_NEXT"}
    BY <1>1, <1>4
  <2>3. ParserOK(t, ext) /\ Tame(s, t)
    BY <2>1, <2>2, PopOK
  <2>4. QED
    BY <2>3 DEF Takes
<1>5. CASE at \in {"OBJECT_INIT", "OBJECT_NAME"} /\ is = "string"
  <2>1. t = NameTaken(s, token.val)
    BY <1>1, <1>2, <1>3, <1>5 DEF Parse, NameTaken, Waiting
  <2>2. ParserOK(t, ext)
    BY <1>1, <1>5, <2>1, NameOK
  <2>3. QED
    BY <1>2, <1>5, <2>2 DEF Takes
<1>6. ASSUME NEW to, t = Moved(s, to),
             \/ at = "OBJECT_COLON" /\ to = "OBJECT_VALUE"
             \/ at = "OBJECT_NEXT" /\ to = "OBJECT_NAME"
             \/ at = "ARRAY_NEXT" /\ to = "ARRAY_VALUE"
      PROVE  Takes(s, ext, token, t)
  <2>1. StateFits(s.h, s.p.stack, to, s.p.member_name)
    BY <1>1, <1>6 DEF ParserOK, StateFits, InObject, InArray
  <2>2. ParserOK(t, ext) /\ Tame(s, t)
    BY <1>6, <2>1, MoveOK
  <2>3. QED
    BY <2>2 DEF Takes
<1>7. CASE at = "OBJECT_COLON" /\ is = ":"
  <2>1. t = Moved(s, "OBJECT_VALUE")
    BY <1>1, <1>2, <1>3, <1>7 DEF Parse, Moved, Waiting
  <2>2. QED
    BY <1>6, <1>7, <2>1
<1>8. CASE at = "OBJECT_NEXT" /\ is = ","
  <2>1. t = Moved(s, "OBJECT_NAME")
    BY <1>1, <1>2, <1>3, <1>8 DEF Parse, Moved, Waiting
  <2>2. QED
    BY <1>6, <1>8, <2>1
<1>9. CASE at = "ARRAY_NEXT" /\ is = ","
  <2>1. t = Moved(s, "ARRAY_VALUE")
    BY <1>1, <1>2, <1>3, <1>9 DEF Parse, Moved, Waiting
  <2>2. QED
    BY <1>6, <1>9, <2>1
<1> DEFINE Starts == /\ at \in DOMAIN AfterValue
                     /\ ~ (at = "START" /\ is \notin {"{", "["})
                     /\ ~ (at = "ARRAY_INIT" /\ is = "]")
<1>10. CASE Starts
  <2>1. t = ParseValue(s, token, AfterValue[s.p.state])
    BY <1>1, <1>2, <1>3, <1>10 DEF Parse, Waiting
  <2>2. s.p.state \in Waiting \cup {"START"}
    BY <1>1, <1>3, <1>10
  <2>3. s.p.state = "START" => token.type \in {"{", "["}
    BY <1>1, <1>2, <1>10
  <2>4. ParserOK(t, ext) /\ Tame(s, t)
    BY <2>1, <2>2, <2>3, ParseValueOK
  <2>5. QED
    BY <2>4 DEF Takes
<1>11. CASE /\ ~ (\/ at \in {"OBJECT_INIT", "OBJECT_NEXT"} /\ is = "}"
                  \/ at \in {"ARRAY_INIT", "ARRAY_NEXT"} /\ is = "]")
            /\ ~ (at \in {"OBJECT_INIT", "OBJECT_NAME"} /\ is = "string")
            /\ ~ (at = "OBJECT_COLON" /\ is = ":") /\ ~ (at = "OBJECT_NEXT" /\ is = ",")
            /\ ~ (at = "ARRAY_NEXT" /\ is = ",") /\ ~ Starts
  <2>1. t = Error(s)
    BY <1>1, <1>2, <1>11 DEF Parse
  <2>2. QED
    BY <2>1, ErrorOK DEF Takes
<1>12. QED
  BY <1>4, <1>5, <1>7, <1>8, <1>9, <1>10, <1>11

LEMMA InputOK ==
  ASSUME NEW s, NEW ext \in [IdSet -> Nat], ParserOK(s, ext), Named(s),
         NEW type, NEW val, NEW t, t = Input(s, type, val)
  PROVE  ParserOK(t, ext) /\ (type # "string" => Tame(s, t))
<1>1. PICK token : token = [type |-> type, val |-> val]
  OBVIOUS
<1>2. PICK u : u = Parse(s, token)
  OBVIOUS
<1>3. Takes(s, ext, token, u)
  BY <1>2, ParseOK
<1>4. token.type = type
  BY <1>1
<1>5. ParserOK(u, ext) /\ (type # "string" => Tame(s, u))
  BY <1>3, <1>4 DEF Takes
<1>6. Shape(u)
  BY <1>5 DEF ParserOK
<1>7. PICK p : p = [u.p EXCEPT !.lex = "START", !.buffer = <<>>]
  OBVIOUS
<1>8. t = [u EXCEPT !.p = p]
  BY <1>1, <1>2, <1>6, <1>7 DEF Input, Shape, ParserFields
<1>9. /\ DOMAIN p = ParserFields /\ p.state = u.p.state /\ p.stack = u.p.stack
      /\ p.lex = "START" /\ p.open = u.p.open /\ p.member_name = u.p.member_name
  BY <1>6, <1>7 DEF Shape, ParserFields
<1>10. DOMAIN t = {"h", "p"} /\ t.h = u.h /\ t.p = p
  BY <1>6, <1>8 DEF Shape
<1>11. Like(u, t)
  BY <1>9, <1>10 DEF Like, Shape, LexStates
<1>12. QED
  BY <1>5, <1>9, <1>10, <1>11, LikeOK DEF Tame

\* What the lexer keeps.
LEMMA TameNamed ==
  ASSUME NEW s, NEW t, Named(s), Tame(s, t)
  PROVE  Named(t)
<1>1. CASE t.p.member_name = <<>>
  BY <1>1 DEF Named, ToSet
<1>2. CASE t.p.member_name = s.p.member_name
  BY <1>2 DEF Named
<1>3. QED
  BY <1>1, <1>2 DEF Tame

LEMMA LexTokenOK ==
  ASSUME NEW s, NEW ext \in [IdSet -> Nat], ParserOK(s, ext), Named(s), NEW t, t = LexToken(s)
  PROVE  ParserOK(t, ext) /\ Tame(s, t)
<1>1. ASSUME NEW type \in {"integer", "real", "true"}, NEW val, t = Input(s, type, val)
      PROVE  ParserOK(t, ext) /\ Tame(s, t)
  <2>1. ParserOK(t, ext) /\ (type # "string" => Tame(s, t))
    BY <1>1, InputOK
  <2>2. QED
    BY <2>1
<1>2. CASE t = Error(s)
  BY <1>2, ErrorOK
<1>3. CASE s.p.lex = "NUMBER"
  <2>1. PICK val, real : val = NumberValue(s.p.buffer) /\ real = Rounded(val, DoubleDigits)
    OBVIOUS
  <2>2. t = Error(s) \/ t = Input(s, "integer", val) \/ t = Input(s, "real", real)
    BY <1>3, <2>1 DEF LexToken, LexNumber
  <2>3. QED
    BY <1>1, <1>2, <2>2
<1>4. CASE s.p.lex # "NUMBER"
  <2>1. t = Error(s) \/ t = Input(s, "true", <<>>)
    BY <1>4 DEF LexToken, LexKeyword
  <2>2. QED
    BY <1>1, <1>2, <2>1
<1>5. QED
  BY <1>3, <1>4

Relexed(s, lex) == [s EXCEPT !.p.lex = lex]
LEMMA CollectLike ==
  ASSUME NEW s, Shape(s), NEW c, NEW lex \in LexStates
  PROVE  Like(s, Collect(s, c, lex)) /\ Like(s, Relexed(s, lex))
<1>1. PICK p : p = [s.p EXCEPT !.buffer = Append(s.p.buffer, c), !.lex = lex]
  OBVIOUS
<1>2. Collect(s, c, lex) = [s EXCEPT !.p = p]
  BY <1>1 DEF Collect, Shape, ParserFields
<1>3. PICK q : q = [s.p EXCEPT !.lex = lex]
  OBVIOUS
<1>4. Relexed(s, lex) = [s EXCEPT !.p = q]
  BY <1>3 DEF Relexed
<1>5. ASSUME NEW r, NEW t, r \in {p, q}, t = [s EXCEPT !.p = r] PROVE Like(s, t)
  <2>1. DOMAIN r = ParserFields /\ r.lex = lex /\ r.open = s.p.open
        /\ r.stack = s.p.stack /\ r.state = s.p.state /\ r.member_name = s.p.member_name
    BY <1>1, <1>3, <1>5 DEF Shape, ParserFields
  <2>2. DOMAIN t = {"h", "p"} /\ t.h = s.h /\ t.p = r
    BY <1>5 DEF Shape
  <2>3. QED
    BY <2>1, <2>2 DEF Like, Shape
<1>6. QED
  BY <1>2, <1>4, <1>5

LEMMA LexCharOK ==
  ASSUME NEW s, NEW ext \in [IdSet -> Nat], ParserOK(s, ext), Named(s), NEW c,
         NEW t, t = LexChar(s, c)
  PROVE  ParserOK(t, ext)
<1>1. ASSUME NEW type, NEW val, t = Input(s, type, val) PROVE ParserOK(t, ext)
  BY <1>1, InputOK
<1>2. CASE t = Error(s) \/ t = s
  BY <1>2, ErrorOK
<1>3. ASSUME NEW lex \in LexStates, t = Collect(s, c, lex) \/ t = Relexed(s, lex)
      PROVE  ParserOK(t, ext)
  <2>1. Like(s, t)
    BY <1>3, CollectLike DEF ParserOK
  <2>2. QED
    BY <2>1, LikeOK
<1>4. CASE t = LexString(s)
  <2>1. PICK u : u = Unescape(s.p.buffer)
    OBVIOUS
  <2>2. t = Error(s) \/ t = Input(s, "string", u.out)
    BY <1>4, <2>1 DEF LexString
  <2>3. QED
    BY <1>1, <1>2, <2>2
<1>5. PICK in \in LexStates : in = s.p.lex
  BY DEF ParserOK
<1>6. {"START", "KEYWORD", "NUMBER", "STRING", "ESCAPE"} \subseteq LexStates
  BY DEF LexStates
<1>7. CASE in = "START"
  <2>1. \/ t \in {s, Error(s), Input(s, c, <<>>)}
        \/ \E lex \in LexStates : t = Collect(s, c, lex) \/ t = Relexed(s, lex)
    BY <1>5, <1>6, <1>7 DEF LexChar, Relexed
  <2>2. QED
    BY <1>1, <1>2, <1>3, <2>1
<1>8. CASE in # "START"
  <2>1. \/ t \in {Error(s), LexString(s)}
        \/ \E lex \in LexStates : t = Collect(s, c, lex)
    BY <1>5, <1>6, <1>8 DEF LexChar
  <2>2. QED
    BY <1>2, <1>3, <1>4, <2>1
<1>9. QED
  BY <1>7, <1>8

FedMore(s, c) == [s EXCEPT !.p.fed = Append(s.p.fed, c)]
LEMMA FedLike ==
  ASSUME NEW s, Shape(s), s.p.lex \in LexStates, NEW c, NEW t,
         t = FedMore(s, c)
  PROVE  Like(s, t)
<1>1. PICK p : p = [s.p EXCEPT !.fed = Append(s.p.fed, c)]
  OBVIOUS
<1>2. t = [s EXCEPT !.p = p]
  BY <1>1 DEF FedMore
<1>3. DOMAIN p = ParserFields /\ p.lex = s.p.lex /\ p.open = s.p.open
      /\ p.stack = s.p.stack /\ p.state = s.p.state /\ p.member_name = s.p.member_name
  BY <1>1 DEF Shape, ParserFields
<1>4. DOMAIN t = {"h", "p"} /\ t.h = s.h /\ t.p = p
  BY <1>2 DEF Shape
<1>5. QED
  BY <1>3, <1>4 DEF Like, Shape

\* json_parser_feed, for a character.
LEMMA FeedCharOK ==
  ASSUME NEW s, NEW ext \in [IdSet -> Nat], ParserOK(s, ext), Named(s), NEW c,
         NEW t, t = FeedChar(s, c)
  PROVE  ParserOK(t, ext)
<1>1. PICK u : u = IF ~ s.p.done /\ Ends(s, c) THEN LexToken(s) ELSE s
  OBVIOUS
<1>2. ParserOK(u, ext) /\ Named(u)
  <2>1. CASE u = s
    BY <2>1
  <2>2. CASE u = LexToken(s)
    <3>1. ParserOK(u, ext) /\ Tame(s, u)
      BY <2>2, LexTokenOK
    <3>2. QED
      BY <3>1, TameNamed
  <2>3. QED
    BY <1>1, <2>1, <2>2
<1>3. t = TakeChar(u, c)
  BY <1>1 DEF FeedChar
<1>4. CASE t = u
  BY <1>2, <1>4
<1>5. CASE t # u
  <2>1. PICK v : v = LexChar(u, c)
    OBVIOUS
  <2>2. t = FedMore(v, c)
    BY <1>3, <1>5, <2>1 DEF TakeChar, FedMore
  <2>3. ParserOK(v, ext)
    BY <1>2, <2>1, LexCharOK
  <2>4. Like(v, t)
    BY <2>2, <2>3, FedLike DEF ParserOK
  <2>5. QED
    BY <2>3, <2>4, LikeOK
<1>6. QED
  BY <1>4, <1>5

\* json_parser_feed, for a chunk: the guard of ParserFeed on the names holds at every round.
FedLoop(f, s, chunk, n) == f[0] = s /\ \A i \in 1 .. n : f[i] = FeedChar(f[i - 1], chunk[i])

LEMMA FedRounds ==
  ASSUME NEW s, NEW chunk, NEW n \in Nat, n = Len(chunk), NEW fed, fed = Fed(s, chunk)
  PROVE  FedLoop(fed, s, chunk, n)
<1>1. PICK w : w = [loop |-> "feed", of |-> chunk]
  OBVIOUS
<1> DEFINE Eq(f) == f = [i \in 0 .. n |-> IF i = 0 THEN s ELSE FeedChar(f[i - 1], chunk[i])]
           left == CHOOSE f : Eq(f)
<1>2. \A x, i : Round(w, x, i) = FeedChar(x, chunk[i])
  BY <1>1 DEF Round
<1>3. PICK g : Looping(g, n, s, w)
  BY Loop
<1>4. Eq(g)
  BY <1>2, <1>3, Zenon DEF Looping
<1>5. Eq(left)
  BY <1>4, Zenon
<1>6. fed = left
  BY Zenon DEF Fed
<1>7. \A i \in 0 .. n : fed[i] = IF i = 0 THEN s ELSE FeedChar(fed[i - 1], chunk[i])
  BY <1>5, <1>6, Zenon
<1> HIDE DEF Eq, left
<1>8. 0 \in 0 .. n /\ \A i \in 1 .. n : i \in 0 .. n /\ i # 0
  OBVIOUS
<1>9. fed[0] = s /\ \A i \in 1 .. n : fed[i] = FeedChar(fed[i - 1], chunk[i])
  BY <1>7, <1>8, Zenon
<1>10. QED
  BY <1>9, Zenon DEF FedLoop

LEMMA FedOK ==
  ASSUME NEW s, NEW ext \in [IdSet -> Nat], ParserOK(s, ext), Named(s),
         NEW chunk, NEW n \in Nat, n = Len(chunk), NEW fed, fed = Fed(s, chunk),
         \A i \in 1 .. n : Named(fed[i])
  PROVE  ParserOK(fed[n], ext) /\ Named(fed[n])
<1>1. FedLoop(fed, s, chunk, n)
  BY FedRounds
<1> DEFINE S == {i \in 0 .. n : ParserOK(fed[i], ext) /\ Named(fed[i])}
<1>2. 0 \in S
  BY <1>1 DEF FedLoop
<1>3. ASSUME NEW i \in Nat, i < n /\ i \in S PROVE i + 1 \in S
  <2>1. PICK j \in 1 .. n : j = i + 1 /\ j - 1 = i
    BY <1>3
  <2>2. PICK t : t = fed[i]
    OBVIOUS
  <2>3. ParserOK(t, ext) /\ Named(t)
    BY <1>3, <2>2
  <2>4. fed[j] = FeedChar(t, chunk[j])
    BY <1>1, <2>1, <2>2 DEF FedLoop
  <2>5. ParserOK(fed[j], ext)
    BY <2>3, <2>4, FeedCharOK
  <2>6. QED
    BY <2>1, <2>5
<1>4. \A i \in 0 .. n : i \in S
  <2> HIDE DEF S
  <2>1. QED
    BY <1>2, <1>3, UpTo
<1>5. n \in S
  BY <1>4
<1>6. QED
  BY <1>5

\* json_parser_abort gives up the parser's reference, and nothing but that.
LEMMA DropGood ==
  ASSUME NEW s, NEW ext \in [IdSet -> Nat], NEW stack \in Seq(IdSet), stack = s.p.stack,
         NEW h, h = s.h, Good(h, Rooted(ext, stack)), NEW g, g = Drop(s)
  PROVE  Good(g, ext)
<1>1. CASE stack = <<>>
  BY <1>1 DEF Drop, Rooted
<1>2. CASE stack # <<>>
  <2>1. PICK root \in IdSet : root = Head(stack)
    BY <1>2
  <2>2. g = Destroy(h, root)
    BY <1>2, <2>1 DEF Drop
  <2>3. PICK e : e = Bump(ext, root)
    OBVIOUS
  <2>4. e[root] = ext[root] + 1 /\ ext[root] \in Nat /\ Dip(e, root) = ext
    BY <2>3, BumpDip
  <2>5. Good(h, e) /\ e[root] > 0
    BY <1>2, <2>1, <2>3, <2>4 DEF Rooted
  <2>6. Good(g, Dip(e, root))
    BY <2>2, <2>5, DestroyGood
  <2>7. QED
    BY <2>4, <2>6
<1>3. QED
  BY <1>1, <1>2

\* json_parser_finish
LEMMA CompleteOK ==
  ASSUME NEW s, NEW ext \in [IdSet -> Nat], ParserOK(s, ext), Named(s),
         NEW t, t = Complete(s)
  PROVE  /\ ParserOK(t, ext)
         /\ t.p.error = TRUE \/ t.p.state = "END"
<1>1. PICK u : u = CASE s.p.lex \in {"STRING", "ESCAPE"} -> Error(s)
                     [] s.p.lex \in {"NUMBER", "KEYWORD"} -> LexToken(s)
                     [] OTHER -> s
  OBVIOUS
<1>2. ParserOK(u, ext)
  <2>1. u \in {Error(s), LexToken(s), s}
    BY <1>1
  <2>2. QED
    BY <2>1, ErrorOK, LexTokenOK
<1>3. t = Whole(u)
  BY <1>1 DEF Complete
<1>4. CASE u.p.state = "END"
  BY <1>2, <1>3, <1>4 DEF Whole
<1>5. CASE u.p.state # "END"
  <2>1. t = Error(u)
    BY <1>3, <1>5 DEF Whole
  <2>2. Error(u).p.error = TRUE
    BY <1>2, ErrorLike DEF ParserOK
  <2>3. QED
    BY <1>2, <2>1, <2>2, ErrorOK
<1>6. QED
  BY <1>4, <1>5

LEMMA BumpBump ==
  ASSUME NEW ext \in [IdSet -> Nat], NEW a \in IdSet, NEW b \in IdSet
  PROVE  Bump(Bump(ext, a), b) = Bump(Bump(ext, b), a)
<1>1. PICK f \in [IdSet -> Nat] : f = Bump(ext, a)
  BY BumpDip
<1>2. PICK g \in [IdSet -> Nat] : g = Bump(ext, b)
  BY BumpDip
<1>3. PICK u \in [IdSet -> Nat] : u = Bump(f, b)
  BY BumpDip
<1>4. PICK v \in [IdSet -> Nat] : v = Bump(g, a)
  BY BumpDip
<1>5. ASSUME NEW c \in IdSet PROVE u[c] = v[c]
  <2>1. /\ f[c] = ext[c] + (IF c = a THEN 1 ELSE 0) /\ u[c] = f[c] + (IF c = b THEN 1 ELSE 0)
        /\ g[c] = ext[c] + (IF c = b THEN 1 ELSE 0) /\ v[c] = g[c] + (IF c = a THEN 1 ELSE 0)
    BY <1>1, <1>2, <1>3, <1>4, BumpDip, SMTT(30)
  <2>2. QED
    BY <2>1
<1>6. u = v
  BY <1>5
<1>7. QED
  BY <1>1, <1>2, <1>3, <1>4, <1>6

LEMMA ResultGood ==
  ASSUME NEW s, NEW ext \in [IdSet -> Nat], ParserOK(s, ext), Named(s),
         NEW r, r = Result(s)
  PROVE  r.id \in IdSet /\ Good(r.h, Bump(ext, r.id))
<1>1. PICK t : t = Complete(s)
  OBVIOUS
<1>2. ParserOK(t, ext) /\ (t.p.error = TRUE \/ t.p.state = "END")
  BY <1>1, CompleteOK
<1>3. PICK stack : stack = t.p.stack
  OBVIOUS
<1>4. /\ Shape(t) /\ Good(t.h, Rooted(ext, stack)) /\ PathOK(t.h, stack) /\ stack \in Seq(IdSet)
      /\ StateFits(t.h, stack, t.p.state, t.p.member_name)
  BY <1>2, <1>3 DEF ParserOK, PathOK
<1>5. r = Outcome(t)
  BY <1>1 DEF Result
<1>6. CASE ~ t.p.error
  <2>1. t.p.state = "END"
    BY <1>2, <1>6
  <2>2. stack # <<>>
    BY <1>4, <2>1 DEF StateFits
  <2>3. Head(stack) \in IdSet
    BY <1>4, <2>2
  <2>4. r = [id |-> Head(stack), h |-> t.h]
    BY <1>3, <1>5, <1>6 DEF Outcome
  <2>5. QED
    BY <1>4, <2>2, <2>3, <2>4 DEF Rooted
<1>7. CASE t.p.error
  <2>1. PICK e : e = Rooted(ext, stack)
    OBVIOUS
  <2>2. PICK n, h : n = NewId(t.h) /\ h = Alloc(t.h, Cell("string", <<>>))
    OBVIOUS
  <2>3. Allocated(t.h, e, Cell("string", <<>>), h, n)
    BY <1>4, <2>1, <2>2, AllocGood DEF Types
  <2>4. n \in IdSet /\ Good(h, Bump(e, n))
    BY <2>3 DEF Allocated
  <2>5. PICK u : u = [t EXCEPT !.h = h]
    OBVIOUS
  <2>6. u.h = h /\ u.p = t.p
    BY <1>4, <2>5 DEF Shape
  <2>7. PICK g : g = Drop(u)
    OBVIOUS
  <2>8. r = [id |-> n, h |-> g]
    BY <1>5, <1>7, <2>2, <2>5, <2>7 DEF Outcome
  <2>9. PICK f \in [IdSet -> Nat] : f = Bump(ext, n)
    BY <2>4, BumpDip
  <2>10. Bump(e, n) = Rooted(f, stack)
    <3>1. CASE stack = <<>>
      BY <2>1, <2>9, <3>1 DEF Rooted
    <3>2. CASE stack # <<>>
      <4>1. PICK root \in IdSet : root = Head(stack)
        BY <1>4, <3>2
      <4>2. e = Bump(ext, root) /\ Rooted(f, stack) = Bump(f, root)
        BY <2>1, <3>2, <4>1 DEF Rooted
      <4>3. QED
        BY <2>4, <2>9, <4>2, BumpBump
    <3>3. QED
      BY <3>1, <3>2
  <2>11. Good(h, Rooted(f, stack)) /\ stack = u.p.stack
    BY <1>3, <2>4, <2>6, <2>10
  <2>12. Good(g, f)
    BY <1>4, <2>6, <2>7, <2>11, DropGood
  <2>13. QED
    BY <2>4, <2>8, <2>9, <2>12
<1>8. QED
  BY <1>6, <1>7

-----------------------------------------------------------------------------
(* The inductive invariant: the counts are right and, while an input is    *)
(* parsed, the parser's stack is a path and its state fits it.             *)

\* The client's references, to every identifier.
Out(k) == [id \in IdSet |-> IF id \in Ids THEN k[id] ELSE 0]

State   == [h |-> heap, p |-> parser]
Idle    == parser = Closed /\ Good(heap, Out(held))
Parsing == ParserOK(State, Out(held)) /\ Named(State)
IInv ==
  /\ held \in [Ids -> Nat] /\ work \in 0 .. MaxWork /\ DOMAIN heap \subseteq Ids
  /\ Idle \/ Parsing

LEMMA IdsAre == Ids \subseteq IdSet
  BY JsonAssumption DEF Ids, IdSet

LEMMA OutMoves ==
  ASSUME NEW k \in [Ids -> Nat], NEW id \in Ids
  PROVE  /\ Out(k) \in [IdSet -> Nat] /\ Out(k)[id] = k[id]
         /\ [k EXCEPT ![id] = k[id] + 1] \in [Ids -> Nat]
         /\ Out([k EXCEPT ![id] = k[id] + 1]) = Bump(Out(k), id)
         /\ k[id] > 0 => /\ [k EXCEPT ![id] = k[id] - 1] \in [Ids -> Nat]
                         /\ Out([k EXCEPT ![id] = k[id] - 1]) = Dip(Out(k), id)
<1>1. PICK e : e = Out(k)
  OBVIOUS
<1>2. e \in [IdSet -> Nat] /\ \A c \in IdSet : e[c] = IF c \in Ids THEN k[c] ELSE 0
  BY <1>1 DEF Out
<1>3. id \in IdSet /\ e[id] = k[id]
  BY <1>2, IdsAre
<1>4. ASSUME NEW n \in Nat, NEW j, j = [k EXCEPT ![id] = n]
      PROVE  j \in [Ids -> Nat] /\ Out(j) = [e EXCEPT ![id] = n]
  <2>1. j \in [Ids -> Nat] /\ \A c \in Ids : j[c] = IF c = id THEN n ELSE k[c]
    BY <1>4
  <2>2. PICK d : d = [e EXCEPT ![id] = n]
    OBVIOUS
  <2>3. d \in [IdSet -> Nat] /\ \A c \in IdSet : d[c] = IF c = id THEN n ELSE e[c]
    BY <1>2, <2>2
  <2>4. \A c \in IdSet : d[c] = IF c \in Ids THEN j[c] ELSE 0
    BY <1>2, <2>1, <2>3
  <2>5. d = [c \in IdSet |-> IF c \in Ids THEN j[c] ELSE 0]
    BY <2>3, <2>4
  <2>6. QED
    BY <2>1, <2>2, <2>5 DEF Out
<1>5. k[id] \in Nat
  OBVIOUS
<1>6. PICK up \in Nat : up = k[id] + 1
  BY <1>5
<1>7. /\ [k EXCEPT ![id] = k[id] + 1] \in [Ids -> Nat]
      /\ Out([k EXCEPT ![id] = k[id] + 1]) = Bump(Out(k), id)
  BY <1>1, <1>3, <1>4, <1>6 DEF Bump
<1>8. ASSUME k[id] > 0
      PROVE  /\ [k EXCEPT ![id] = k[id] - 1] \in [Ids -> Nat]
             /\ Out([k EXCEPT ![id] = k[id] - 1]) = Dip(Out(k), id)
  <2>1. PICK down \in Nat : down = k[id] - 1
    BY <1>5, <1>8
  <2>2. QED
    BY <1>1, <1>3, <1>4, <2>1 DEF Dip
<1>9. QED
  BY <1>1, <1>2, <1>3, <1>7, <1>8

\* What the client holds is there.
LEMMA HeldLives ==
  ASSUME NEW h, NEW k \in [Ids -> Nat], Good(h, Out(k)), NEW id \in Ids, k[id] > 0
  PROVE  id \in DOMAIN h /\ Out(k)[id] > 0 /\ id \in IdSet
<1>1. Out(k)[id] = k[id] /\ id \in IdSet
  BY OutMoves, IdsAre
<1>2. Out(k)[id] > 0
  BY <1>1
<1>3. QED
  BY <1>1, <1>2, ReferredLives

\* The client's calls.
LEMMA CallIdle ==
  ASSUME IInv, Call, UNCHANGED parser
  PROVE  /\ parser' = Closed /\ Good(heap, Out(held)) /\ held \in [Ids -> Nat]
         /\ work' \in 0 .. MaxWork /\ DOMAIN heap \subseteq Ids
<1>1. Idle
  BY DEF IInv, Call, Parsing, ParserOK, State
<1>2. work' \in 0 .. MaxWork
  BY JsonAssumption DEF IInv, Call, Work
<1>3. QED
  BY <1>1, <1>2 DEF Idle, IInv

LEMMA CreateKeeps ==
  ASSUME IInv, Create
  PROVE  IInv'
<1>1. /\ parser' = Closed /\ Good(heap, Out(held)) /\ held \in [Ids -> Nat]
      /\ work' \in 0 .. MaxWork
  BY CallIdle DEF Create
<1>2. PICK type, val : type \in Types /\ heap' = Alloc(heap, Cell(type, val))
  BY DEF Create, Types
<1>3. PICK h, k, n : h = heap /\ k = held /\ n = NewId(heap)
  OBVIOUS
<1>4. PICK g : g = heap'
  OBVIOUS
<1>5. g = Alloc(h, Cell(type, val)) /\ Good(h, Out(k)) /\ n = NewId(h)
  BY <1>1, <1>2, <1>3, <1>4
<1>6. Allocated(h, Out(k), Cell(type, val), g, n)
  BY <1>2, <1>5, AllocGood
<1>7. Good(g, Bump(Out(k), n)) /\ n \in DOMAIN g
  BY <1>6 DEF Allocated
<1>8. DOMAIN g \subseteq Ids
  BY <1>4 DEF Create, Room
<1>9. n \in Ids
  BY <1>7, <1>8
<1>10. held' = [k EXCEPT ![n] = k[n] + 1]
  BY <1>3 DEF Create
<1>11. held' \in [Ids -> Nat] /\ Out(held') = Bump(Out(k), n)
  BY <1>1, <1>3, <1>9, <1>10, OutMoves
<1>12. QED
  BY <1>1, <1>4, <1>7, <1>8, <1>11 DEF IInv, Idle

LEMMA PutKeepsIInv ==
  ASSUME IInv, Put
  PROVE  IInv'
<1>1. /\ parser' = Closed /\ Good(heap, Out(held)) /\ held \in [Ids -> Nat]
      /\ work' \in 0 .. MaxWork /\ DOMAIN heap \subseteq Ids
  BY CallIdle DEF Put
<1>2. PICK o \in Held, v \in Held, name \in PutNames :
        heap' = ObjectPut(heap, o, name, v) /\ held' = [held EXCEPT ![v] = held[v] - 1]
  BY DEF Put
<1>3. PICK h, k : h = heap /\ k = held
  OBVIOUS
<1>4. PICK g : g = heap'
  OBVIOUS
<1>5. o \in Ids /\ v \in Ids /\ k[o] > 0 /\ k[v] > 0 /\ Good(h, Out(k)) /\ k \in [Ids -> Nat]
  BY <1>1, <1>3 DEF Held
<1>6. o \in DOMAIN h /\ v \in IdSet /\ Out(k)[v] > 0
  BY <1>5, HeldLives
<1>7. name \in Names /\ g = ObjectPut(h, o, name, v)
  BY <1>2, <1>3, <1>4, JsonAssumption
<1>8. Good(g, Dip(Out(k), v)) /\ PutKeeps(h, o, v, g)
  BY <1>5, <1>6, <1>7, PutGood
<1>9. DOMAIN g \subseteq Ids
  BY <1>1, <1>3, <1>8 DEF PutKeeps
<1>10. held' \in [Ids -> Nat] /\ Out(held') = Dip(Out(k), v)
  BY <1>2, <1>3, <1>5, OutMoves
<1>11. QED
  BY <1>1, <1>4, <1>8, <1>9, <1>10 DEF IInv, Idle

LEMMA AddKeepsIInv ==
  ASSUME IInv, Add
  PROVE  IInv'
<1>1. /\ parser' = Closed /\ Good(heap, Out(held)) /\ held \in [Ids -> Nat]
      /\ work' \in 0 .. MaxWork /\ DOMAIN heap \subseteq Ids
  BY CallIdle DEF Add
<1>2. PICK a \in Held, v \in Held :
        heap' = ArrayAdd(heap, a, v) /\ held' = [held EXCEPT ![v] = held[v] - 1]
  BY DEF Add
<1>3. PICK h, k : h = heap /\ k = held
  OBVIOUS
<1>4. PICK g : g = heap'
  OBVIOUS
<1>5. a \in Ids /\ v \in Ids /\ k[a] > 0 /\ k[v] > 0 /\ Good(h, Out(k)) /\ k \in [Ids -> Nat]
  BY <1>1, <1>3 DEF Held
<1>6. a \in DOMAIN h /\ v \in IdSet /\ Out(k)[v] > 0
  BY <1>5, HeldLives
<1>7. g = ArrayAdd(h, a, v)
  BY <1>2, <1>3, <1>4
<1>8. Good(g, Dip(Out(k), v)) /\ AddKeeps(h, a, v, g)
  BY <1>5, <1>6, <1>7, AddGood
<1>9. DOMAIN g \subseteq Ids
  BY <1>1, <1>3, <1>8 DEF AddKeeps
<1>10. held' \in [Ids -> Nat] /\ Out(held') = Dip(Out(k), v)
  BY <1>2, <1>3, <1>5, OutMoves
<1>11. QED
  BY <1>1, <1>4, <1>8, <1>9, <1>10 DEF IInv, Idle

LEMMA CloneKeeps ==
  ASSUME IInv, Clone
  PROVE  IInv'
<1>1. /\ parser' = Closed /\ Good(heap, Out(held)) /\ held \in [Ids -> Nat]
      /\ work' \in 0 .. MaxWork /\ DOMAIN heap \subseteq Ids
  BY CallIdle DEF Clone
<1>2. PICK id \in Held : heap' = CloneValue(heap, id) /\ held' = [held EXCEPT ![id] = held[id] + 1]
  BY DEF Clone
<1>3. PICK h, k : h = heap /\ k = held
  OBVIOUS
<1>4. PICK g : g = heap'
  OBVIOUS
<1>5. id \in Ids /\ k[id] > 0 /\ Good(h, Out(k)) /\ k \in [Ids -> Nat]
  BY <1>1, <1>2, <1>3 DEF Held
<1>6. id \in DOMAIN h
  BY <1>5, HeldLives
<1>7. g = CloneValue(h, id)
  BY <1>2, <1>3, <1>4
<1>8. Good(g, Bump(Out(k), id)) /\ DOMAIN g = DOMAIN h
  BY <1>5, <1>6, <1>7, CloneGood
<1>9. held' \in [Ids -> Nat] /\ Out(held') = Bump(Out(k), id)
  BY <1>2, <1>3, <1>5, OutMoves
<1>10. QED
  BY <1>1, <1>3, <1>4, <1>8, <1>9 DEF IInv, Idle

LEMMA DeepCloneKeeps ==
  ASSUME IInv, DeepClone
  PROVE  IInv'
<1>1. /\ parser' = Closed /\ Good(heap, Out(held)) /\ held \in [Ids -> Nat]
      /\ work' \in 0 .. MaxWork
  BY CallIdle DEF DeepClone
<1>2. PICK id \in Held : heap' = DeepCloneValue(heap, id)
  BY DEF DeepClone
<1>3. PICK h, k, n : h = heap /\ k = held /\ n = NewId(heap)
  OBVIOUS
<1>4. PICK g : g = heap'
  OBVIOUS
<1>5. id \in Ids /\ k[id] > 0 /\ Good(h, Out(k)) /\ k \in [Ids -> Nat]
  BY <1>1, <1>2, <1>3 DEF Held
<1>6. id \in DOMAIN h /\ Out(k)[id] > 0
  BY <1>5, HeldLives
<1>7. g = DeepCloneValue(h, id) /\ n = NewId(h)
  BY <1>2, <1>3, <1>4
<1>8. Good(g, Bump(Out(k), n)) /\ n \in IdSet
  BY <1>5, <1>6, <1>7, DeepCloneGood
<1>9. n \in DOMAIN g
  <2>1. Out(k) \in [IdSet -> Nat]
    BY <1>5, OutMoves
  <2>2. Bump(Out(k), n)[n] = Out(k)[n] + 1 /\ Out(k)[n] \in Nat
    BY <1>8, <2>1, BumpDip
  <2>3. Bump(Out(k), n)[n] > 0
    BY <2>2
  <2>4. QED
    BY <1>8, <2>3, ReferredLives
<1>10. DOMAIN g \subseteq Ids
  BY <1>4 DEF DeepClone, Room
<1>11. held' = [k EXCEPT ![n] = k[n] + 1] /\ n \in Ids
  BY <1>3, <1>9, <1>10 DEF DeepClone
<1>12. held' \in [Ids -> Nat] /\ Out(held') = Bump(Out(k), n)
  BY <1>5, <1>11, OutMoves
<1>13. QED
  BY <1>1, <1>4, <1>8, <1>10, <1>12 DEF IInv, Idle

\* json_destroy, while the parser may be in the middle of an input.
LEMMA RootedDip ==
  ASSUME NEW ext \in [IdSet -> Nat], NEW id \in IdSet, ext[id] > 0, NEW stack \in Seq(IdSet)
  PROVE  /\ Rooted(ext, stack)[id] > 0
         /\ Dip(Rooted(ext, stack), id) = Rooted(Dip(ext, id), stack)
<1>1. PICK d \in [IdSet -> Nat] : d = Dip(ext, id)
  BY BumpDip
<1>2. CASE stack = <<>>
  BY <1>2 DEF Rooted
<1>3. CASE stack # <<>>
  <2>1. PICK root \in IdSet : root = Head(stack)
    BY <1>3
  <2>2. PICK e \in [IdSet -> Nat] : e = Bump(ext, root)
    BY BumpDip
  <2>3. Rooted(ext, stack) = e /\ Rooted(d, stack) = Bump(d, root)
    BY <1>3, <2>1, <2>2 DEF Rooted
  <2>4. ASSUME NEW c \in IdSet
        PROVE  /\ e[c] = ext[c] + (IF c = root THEN 1 ELSE 0)
               /\ d[c] = ext[c] - (IF c = id THEN 1 ELSE 0)
    <3>1. Bump(ext, root)[c] = ext[c] + (IF c = root THEN 1 ELSE 0)
      BY BumpDip
    <3>2. Dip(ext, id)[c] = ext[c] - (IF c = id THEN 1 ELSE 0)
      BY BumpDip
    <3>3. QED
      BY <1>1, <2>2, <3>1, <3>2
  <2>5. e[id] > 0
    <3>1. e[id] = ext[id] + (IF id = root THEN 1 ELSE 0) /\ ext[id] \in Nat
      BY <2>4
    <3>2. QED
      BY <3>1
  <2>6. PICK u \in [IdSet -> Nat] : u = Dip(e, id)
    BY <2>5, BumpDip
  <2>7. PICK v \in [IdSet -> Nat] : v = Bump(d, root)
    BY BumpDip
  <2>8. ASSUME NEW c \in IdSet PROVE u[c] = v[c]
    <3>1. Dip(e, id)[c] = e[c] - (IF c = id THEN 1 ELSE 0)
      BY BumpDip, ZenonT(60)
    <3>2. Bump(d, root)[c] = d[c] + (IF c = root THEN 1 ELSE 0)
      BY BumpDip, ZenonT(60)
    <3>3. u[c] = e[c] - (IF c = id THEN 1 ELSE 0) /\ v[c] = d[c] + (IF c = root THEN 1 ELSE 0)
      BY <2>6, <2>7, <3>1, <3>2
    <3>4. ext[c] \in Nat
      OBVIOUS
    <3>5. QED
      BY <2>4, <3>3, <3>4, SMTT(30)
  <2>9. u = v
    BY <2>8
  <2>10. QED
    BY <1>1, <2>3, <2>5, <2>6, <2>7, <2>9
<1>4. QED
  BY <1>2, <1>3

\* The parser's part of the invariant after a value was destroyed.
LEMMA ParserKept ==
  ASSUME NEW s, NEW ext \in [IdSet -> Nat], ParserOK(s, ext), NEW id \in IdSet, ext[id] > 0,
         NEW g, g = Destroy(s.h, id), NEW t, t = [h |-> g, p |-> s.p]
  PROVE  ParserOK(t, Dip(ext, id)) /\ Lesser(s.h, g)
<1>1. PICK h, stack : h = s.h /\ stack = s.p.stack
  OBVIOUS
<1>2. /\ Good(h, Rooted(ext, stack)) /\ PathOK(h, stack) /\ stack \in Seq(IdSet)
      /\ StateFits(h, stack, s.p.state, s.p.member_name) /\ DOMAIN s.p = ParserFields
  BY <1>1 DEF ParserOK, PathOK, Shape
<1>3. PICK e \in [IdSet -> Nat] : e = Dip(ext, id)
  BY BumpDip
<1>4. PICK x : x = Rooted(ext, stack)
  OBVIOUS
<1>5. x[id] > 0 /\ Dip(x, id) = Rooted(e, stack)
  BY <1>2, <1>3, <1>4, RootedDip
<1>6. Good(g, Dip(x, id)) /\ Lesser(h, g)
  BY <1>1, <1>2, <1>4, <1>5, DestroyGood
<1>7. PICK y \in [IdSet -> Nat] : y = Rooted(e, stack)
  BY <1>2, RootedIs
<1>8. Good(g, y) /\ (stack # <<>> => y[Head(stack)] > 0)
  BY <1>2, <1>5, <1>6, <1>7, RootedIs
<1>9. ASSUME NEW i \in DOMAIN stack, stack[i] \in DOMAIN g
      PROVE  /\ g[stack[i]].type = h[stack[i]].type
             /\ i < Len(stack) => Same(h[stack[i]], g[stack[i]])
  <2>1. stack[i] \in DOMAIN h
    BY <1>2 DEF PathOK
  <2>2. Same(h[stack[i]], g[stack[i]])
    BY <1>6, <1>9, <2>1 DEF Lesser, Kept
  <2>3. QED
    BY <2>2 DEF Same
<1>10. PathOK(g, stack)
  BY <1>2, <1>8, <1>9, PathKept
<1>11. StateFits(g, stack, s.p.state, s.p.member_name)
  <2>1. CASE stack = <<>>
    BY <1>2, <2>1 DEF StateFits, TopIs
  <2>2. CASE stack # <<>>
    <3>1. Len(stack) \in DOMAIN stack /\ Last(stack) \in DOMAIN g
      BY <1>10, <2>2, LastOfPath
    <3>2. g[Last(stack)].type = h[Last(stack)].type
      BY <1>9, <3>1 DEF Last
    <3>3. QED
      BY <1>2, <3>2 DEF StateFits, TopIs
  <2>3. QED
    BY <2>1, <2>2
<1>12. DOMAIN t = {"h", "p"} /\ t.h = g /\ t.p = s.p
  OBVIOUS
<1>13. ParserOK(t, e)
  BY <1>1, <1>2, <1>7, <1>8, <1>10, <1>11, <1>12 DEF ParserOK, Shape
<1>14. QED
  BY <1>1, <1>3, <1>6, <1>13

LEMMA DestroyHeldKeeps ==
  ASSUME IInv, DestroyHeld
  PROVE  IInv'
<1>1. PICK id \in Held : heap' = Destroy(heap, id) /\ held' = [held EXCEPT ![id] = held[id] - 1]
  BY DEF DestroyHeld
<1>2. PICK h, k, p : h = heap /\ k = held /\ p = parser
  OBVIOUS
<1>3. PICK g : g = heap'
  OBVIOUS
<1>4. g = Destroy(h, id) /\ parser' = p /\ work' = work
  BY <1>1, <1>2, <1>3 DEF DestroyHeld
<1>5. id \in Ids /\ k[id] > 0 /\ k \in [Ids -> Nat] /\ DOMAIN h \subseteq Ids
  BY <1>2 DEF Held, IInv
<1>6. PICK e \in [IdSet -> Nat] : e = Out(k)
  BY <1>5, OutMoves
<1>7. id \in IdSet /\ e[id] > 0
  BY <1>5, <1>6, IdsAre, OutMoves
<1>8. held' \in [Ids -> Nat] /\ Out(held') = Dip(e, id)
  BY <1>1, <1>2, <1>5, <1>6, OutMoves
<1>9. CASE Idle
  <2>1. p = Closed /\ Good(h, e)
    BY <1>2, <1>6, <1>9 DEF Idle
  <2>2. Good(g, Dip(e, id)) /\ Lesser(h, g)
    BY <1>4, <1>7, <2>1, DestroyGood
  <2>3. QED
    BY <1>3, <1>4, <1>5, <1>8, <2>1, <2>2 DEF IInv, Idle, Lesser
<1>10. CASE Parsing
  <2>1. PICK s : s = [h |-> h, p |-> p]
    OBVIOUS
  <2>2. s.h = h /\ s.p = p /\ s = State
    BY <1>2, <2>1 DEF State
  <2>3. ParserOK(s, e) /\ Named(s)
    BY <1>2, <1>6, <1>10, <2>2 DEF Parsing
  <2>4. PICK t : t = [h |-> g, p |-> p]
    OBVIOUS
  <2>5. ParserOK(t, Dip(e, id)) /\ Lesser(h, g)
    BY <1>4, <1>7, <2>2, <2>3, <2>4, ParserKept
  <2>6. t = State'
    BY <1>3, <1>4, <2>4 DEF State
  <2>7. Named(t)
    BY <2>2, <2>3, <2>4 DEF Named
  <2>8. QED
    BY <1>3, <1>4, <1>5, <1>8, <2>5, <2>6, <2>7 DEF IInv, Parsing, Lesser
<1>11. QED
  BY <1>9, <1>10 DEF IInv

\* json_parser_create, json_parser_feed, json_parser_finish and json_parser_abort
LEMMA ParserCreateKeeps ==
  ASSUME IInv, ParserCreate
  PROVE  IInv'
<1>1. PICK trailer \in BOOLEAN : parser' = [Closed EXCEPT !.open = TRUE, !.trailer = trailer]
  BY DEF ParserCreate
<1>2. Idle /\ heap' = heap /\ held' = held /\ work' = work
  BY DEF ParserCreate, IInv, Parsing, ParserOK, State
<1>3. PICK p : p = parser'
  OBVIOUS
<1>4. /\ DOMAIN p = ParserFields /\ p.open = TRUE /\ p.lex = "START" /\ p.stack = <<>>
      /\ p.state = "START" /\ p.member_name = <<>>
  BY <1>1, <1>3 DEF Closed, ParserFields
<1>5. PICK t : t = [h |-> heap, p |-> p]
  OBVIOUS
<1>6. DOMAIN t = {"h", "p"} /\ t.h = heap /\ t.p = p
  BY <1>5
<1>7. PathOK(heap, <<>>)
  BY JsonAssumption DEF PathOK
<1>8. StateFits(heap, <<>>, "START", <<>>)
  BY DEF StateFits, InObject, InArray
<1>9. Good(heap, Rooted(Out(held), <<>>))
  BY <1>2 DEF Idle, Rooted
<1>10. ParserOK(t, Out(held))
  BY <1>4, <1>6, <1>7, <1>8, <1>9 DEF ParserOK, Shape, LexStates, MemberOK
<1>11. Named(t)
  BY <1>4, <1>6 DEF Named, ToSet
<1>12. t = State'
  BY <1>2, <1>3, <1>5 DEF State
<1>13. QED
  BY <1>2, <1>10, <1>11, <1>12 DEF IInv, Parsing

LEMMA ParserIsOpen ==
  ASSUME IInv, parser.open
  PROVE  Parsing
  BY DEF IInv, Idle, Closed

LEMMA ParserFeedKeeps ==
  ASSUME IInv, ParserFeed
  PROVE  IInv'
<1>1. PICK s : s = State
  OBVIOUS
<1>2. PICK ext \in [IdSet -> Nat] : ext = Out(held)
  BY DEF Out, IInv
<1>3. ParserOK(s, ext) /\ Named(s)
  BY <1>1, <1>2, ParserIsOpen DEF ParserFeed, Parsing
<1>4. PICK chunk \in Offered :
        LET fed == Fed([h |-> heap, p |-> parser], chunk)
        IN /\ \A i \in DOMAIN chunk : ToSet(fed[i].p.member_name) \subseteq Names
           /\ \E t \in {fed[Len(chunk)]} : heap' = t.h /\ parser' = t.p
  BY DEF ParserFeed
<1>5. PICK fed : fed = Fed(s, chunk)
  OBVIOUS
<1>6. /\ \A i \in DOMAIN chunk : ToSet(fed[i].p.member_name) \subseteq Names
      /\ heap' = fed[Len(chunk)].h /\ parser' = fed[Len(chunk)].p
  BY <1>1, <1>4, <1>5 DEF State
<1>7. chunk \in Chunks \/ chunk \in StringChunks
  BY <1>4 DEF Offered
<1>8. PICK n \in Nat : n = Len(chunk) /\ DOMAIN chunk = 1 .. n
  BY <1>7, JsonAssumption
<1>9. \A i \in 1 .. n : Named(fed[i])
  BY <1>6, <1>8 DEF Named
<1>10. PICK t : t = fed[n]
  OBVIOUS
<1>11. ParserOK(t, ext) /\ Named(t)
  BY <1>3, <1>5, <1>8, <1>9, <1>10, FedOK
<1>12. heap' = t.h /\ parser' = t.p /\ held' = held
  BY <1>6, <1>8, <1>10 DEF ParserFeed
<1>13. PICK u : u = State'
  OBVIOUS
<1>14. DOMAIN u = {"h", "p"} /\ u.h = t.h /\ u.p = t.p
  BY <1>12, <1>13 DEF State
<1>15. ParserOK(u, ext) /\ Named(u)
  BY <1>11, <1>14 DEF ParserOK, Named, Shape
<1>16. DOMAIN heap' \subseteq Ids
  BY DEF ParserFeed, Room
<1>17. work' \in 0 .. MaxWork
  BY JsonAssumption DEF IInv, ParserFeed, Work
<1>18. Out(held') = ext /\ held' \in [Ids -> Nat]
  BY <1>2, <1>12 DEF IInv
<1>19. QED
  BY <1>13, <1>15, <1>16, <1>17, <1>18 DEF IInv, Parsing

LEMMA ParserFinishKeeps ==
  ASSUME IInv, ParserFinish
  PROVE  IInv'
<1>1. PICK s : s = State
  OBVIOUS
<1>2. PICK k \in [Ids -> Nat] : k = held
  BY DEF IInv
<1>3. PICK ext \in [IdSet -> Nat] : ext = Out(k)
  BY <1>2 DEF Out
<1>4. ParserOK(s, ext) /\ Named(s)
  BY <1>1, <1>2, <1>3, ParserIsOpen DEF ParserFinish, Parsing
<1>5. PICK r : r = Result(s)
  OBVIOUS
<1>6. /\ heap' = r.h /\ DOMAIN r.h \subseteq Ids /\ r.id \in Ids
      /\ held' = [k EXCEPT ![r.id] = k[r.id] + 1]
  BY <1>1, <1>2, <1>5 DEF ParserFinish, State, Room
<1>7. Good(r.h, Bump(ext, r.id))
  BY <1>4, <1>5, ResultGood
<1>8. held' \in [Ids -> Nat] /\ Out(held') = Bump(ext, r.id)
  BY <1>3, <1>6, OutMoves
<1>9. parser' = Closed /\ work' \in 0 .. MaxWork
  BY DEF ParserFinish, IInv
<1>10. QED
  BY <1>6, <1>7, <1>8, <1>9 DEF IInv, Idle

LEMMA ParserAbortKeeps ==
  ASSUME IInv, ParserAbort
  PROVE  IInv'
<1>1. PICK s : s = State
  OBVIOUS
<1>2. PICK ext \in [IdSet -> Nat] : ext = Out(held)
  BY DEF Out, IInv
<1>3. ParserOK(s, ext)
  BY <1>1, <1>2, ParserIsOpen DEF ParserAbort, Parsing
<1>4. PICK h, stack : h = s.h /\ stack = s.p.stack
  OBVIOUS
<1>5. Good(h, Rooted(ext, stack)) /\ stack \in Seq(IdSet)
  BY <1>3, <1>4 DEF ParserOK, PathOK
<1>6. PICK g : g = Drop(s)
  OBVIOUS
<1>7. Good(g, ext)
  BY <1>4, <1>5, <1>6, DropGood
<1>8. heap' = g /\ parser' = Closed /\ held' = held /\ work' = work
  BY <1>1, <1>6 DEF ParserAbort, State
<1>9. DOMAIN g \subseteq DOMAIN heap
  <2>1. h = heap
    BY <1>1, <1>4 DEF State
  <2>2. DOMAIN g \subseteq DOMAIN h
    <3>1. CASE stack = <<>>
      BY <1>4, <1>6, <3>1 DEF Drop
    <3>2. CASE stack # <<>>
      <4>1. PICK root : root = Head(stack)
        OBVIOUS
      <4>2. root \in IdSet /\ Rooted(ext, stack)[root] > 0
        BY <1>3, <1>4, <1>5, <3>2, <4>1, RootedIs DEF ParserOK
      <4>3. PICK e : e = Rooted(ext, stack)
        OBVIOUS
      <4>4. g = Destroy(h, root)
        BY <1>4, <1>6, <3>2, <4>1 DEF Drop
      <4>5. Lesser(h, g)
        BY <1>5, <4>2, <4>3, <4>4, DestroyGood
      <4>6. QED
        BY <4>5 DEF Lesser
    <3>3. QED
      BY <3>1, <3>2
  <2>3. QED
    BY <2>1, <2>2
<1>10. QED
  BY <1>2, <1>7, <1>8, <1>9 DEF IInv, Idle

LEMMA InitIInv ==
  ASSUME Init
  PROVE  IInv
<1>1. held \in [Ids -> Nat] /\ \A id \in Ids : held[id] = 0
  BY DEF Init
<1>2. Out(held) = [id \in IdSet |-> 0]
  BY <1>1 DEF Out
<1>3. Good(heap, Out(held))
  BY <1>2, EmptyHeapGood DEF Init
<1>4. DOMAIN heap = {}
  BY DEF Init, EmptyHeap
<1>5. work \in 0 .. MaxWork
  BY JsonAssumption DEF Init
<1>6. QED
  BY <1>1, <1>3, <1>4, <1>5 DEF Init, IInv, Idle

LEMMA NextIInv ==
  ASSUME IInv, [Next]_vars
  PROVE  IInv'
<1>1. CASE UNCHANGED vars
  <2>1. heap' = heap /\ parser' = parser /\ held' = held /\ work' = work
    BY <1>1 DEF vars
  <2>2. State' = State /\ Out(held') = Out(held)
    BY <2>1 DEF State
  <2>3. QED
    BY <2>1, <2>2 DEF IInv, Idle, Parsing
<1>2. QED
  BY <1>1, CreateKeeps, PutKeepsIInv, AddKeepsIInv, CloneKeeps, DeepCloneKeeps, DestroyHeldKeeps,
     ParserCreateKeeps, ParserFeedKeeps, ParserFinishKeeps, ParserAbortKeeps DEF Next

-----------------------------------------------------------------------------
(* What the invariant says.                                                *)

\* The invariant, whether an input is being parsed or not.
LEMMA IInvSays ==
  ASSUME IInv
  PROVE  /\ Good(heap, Rooted(Out(held), parser.stack)) /\ PathOK(heap, parser.stack)
         /\ StateFits(heap, parser.stack, parser.state, parser.member_name)
         /\ MemberOK(parser.member_name) /\ ToSet(parser.member_name) \subseteq Names
         /\ DOMAIN parser = ParserFields /\ parser.lex \in LexStates
<1>1. CASE Idle
  <2>1. PICK p : p = parser
    OBVIOUS
  <2>2. /\ p.stack = <<>> /\ p.state = "START" /\ p.member_name = <<>> /\ p.lex = "START"
        /\ DOMAIN p = ParserFields
    BY <1>1, <2>1 DEF Idle, Closed, ParserFields
  <2>3. PathOK(heap, <<>>)
    BY JsonAssumption DEF PathOK
  <2>4. StateFits(heap, <<>>, "START", <<>>)
    BY DEF StateFits, InObject, InArray
  <2>5. Good(heap, Rooted(Out(held), <<>>))
    BY <1>1 DEF Idle, Rooted
  <2>6. QED
    BY <2>1, <2>2, <2>3, <2>4, <2>5 DEF MemberOK, LexStates, ToSet
<1>2. CASE Parsing
  <2>1. State.h = heap /\ State.p = parser
    BY DEF State
  <2>2. QED
    BY <1>2, <2>1 DEF Parsing, ParserOK, Shape, Named
<1>3. QED
  BY <1>1, <1>2 DEF IInv

\* What a container holds is there.
LEMMA ElemsLive ==
  ASSUME NEW h, NEW ext, Good(h, ext), NEW c \in DOMAIN h
  PROVE  ToSet(h[c].elems) \subseteq DOMAIN h
<1>1. PICK s : s = h[c].elems
  OBVIOUS
<1>2. s \in Seq(IdSet) /\ HeapOK(h)
  BY <1>1 DEF Good, HeapOK, CellOK
<1>3. ASSUME NEW i \in DOMAIN s PROVE s[i] \in DOMAIN h
  <2>1. <<c, <<"elem", i>>, s[i]>> \in Slots(c, h[c])
    BY <1>1 DEF Slots
  <2>2. \E r \in AllSlots(h) : r[3] = s[i]
    BY <1>2, <2>1, AllSlotsFinite
  <2>3. s[i] \in IdSet
    BY <1>2
  <2>4. QED
    BY <2>2, <2>3, ReferredLives
<1>4. QED
  BY <1>1, <1>3 DEF ToSet

LEMMA TypeFollows ==
  ASSUME IInv
  PROVE  TypeOK
<1>1. PICK stack, member : stack = parser.stack /\ member = parser.member_name
  OBVIOUS
<1>2. PICK ext : ext = Rooted(Out(held), stack)
  OBVIOUS
<1>3. /\ Good(heap, ext) /\ PathOK(heap, stack) /\ MemberOK(member) /\ ToSet(member) \subseteq Names
      /\ DOMAIN parser = ParserFields /\ parser.lex \in LexStates
  BY <1>1, <1>2, IInvSays
<1>4. ASSUME NEW id \in DOMAIN heap
      PROVE  /\ heap[id].type \in {"object", "array", "true", "string", "integer", "real"}
             /\ heap[id].count \in Nat \ {0}
             /\ ToSet(heap[id].elems) \subseteq DOMAIN heap
  <2>1. CellOK(heap[id])
    BY <1>3 DEF Good, HeapOK
  <2>2. QED
    BY <1>3, <2>1, ElemsLive DEF CellOK, Types
<1>5. ToSet(stack) \subseteq DOMAIN heap /\ Len(stack) <= MaxHeight
  BY <1>3 DEF PathOK, ToSet
<1>6. Len(member) <= 1
  <2>1. CASE member = <<>>
    BY <2>1
  <2>2. CASE \E x : member = <<x>>
    <3>1. PICK x : member = <<x>>
      BY <2>2
    <3>2. QED
      BY <3>1
  <2>3. QED
    BY <1>3, <2>1, <2>2 DEF MemberOK
<1>7. DOMAIN Closed = ParserFields
  BY DEF Closed, ParserFields
<1>8. QED
  BY <1>1, <1>3, <1>4, <1>5, <1>6, <1>7 DEF TypeOK, IInv, LexStates

LEMMA RefsFollow ==
  ASSUME IInv
  PROVE  RefExact
<1>1. PICK stack, h, k : stack = parser.stack /\ h = heap /\ k = held
  OBVIOUS
<1>2. PICK ext : ext = Rooted(Out(k), stack)
  OBVIOUS
<1>3. Good(h, ext) /\ PathOK(h, stack)
  BY <1>1, <1>2, IInvSays
<1>4. ASSUME NEW id \in Ids
      PROVE  References(id) = IF id \in DOMAIN heap THEN heap[id].count ELSE 0
  <2>1. id \in IdSet /\ k \in [Ids -> Nat]
    BY <1>1, IdsAre DEF IInv
  <2>2. Out(k) \in [IdSet -> Nat] /\ Out(k)[id] = k[id]
    BY <2>1, OutMoves
  <2>3. ext[id] = k[id] + AtRoot(parser, id)
    <3>1. CASE stack = <<>>
      BY <1>1, <1>2, <2>1, <2>2, <3>1 DEF Rooted, AtRoot
    <3>2. CASE stack # <<>>
      <4>1. Head(stack) \in IdSet
        BY <1>3, <3>2, LastOfPath
      <4>2. ext = Bump(Out(k), Head(stack))
        BY <1>2, <3>2 DEF Rooted
      <4>3. Bump(Out(k), Head(stack))[id] = Out(k)[id] + (IF id = Head(stack) THEN 1 ELSE 0)
        BY <2>1, <2>2, <4>1, BumpDip
      <4>4. AtRoot(parser, id) = IF id = Head(stack) THEN 1 ELSE 0
        BY <1>1, <3>2 DEF AtRoot
      <4>5. QED
        BY <2>2, <4>2, <4>3, <4>4
    <3>3. QED
      BY <3>1, <3>2
  <2>4. Count(h, id) = ext[id] + To(AllSlots(h), id)
    BY <1>3, <2>1 DEF Good
  <2>5. References(id) = k[id] + AtRoot(parser, id) + To(AllSlots(h), id)
    BY <1>1 DEF References, To
  <2>6. QED
    BY <1>1, <2>3, <2>4, <2>5 DEF Count
<1>5. QED
  BY <1>4 DEF RefExact

LEMMA ChainFollows ==
  ASSUME IInv
  PROVE  StackChain
<1>1. PathOK(heap, parser.stack) /\ StateFits(heap, parser.stack, parser.state, parser.member_name)
  BY IInvSays
<1>2. \A i \in DOMAIN parser.stack :
        /\ heap[parser.stack[i]].type \in {"object", "array"}
        /\ i > 1 => Below(heap, parser.stack[i - 1], parser.stack[i])
  BY <1>1 DEF PathOK
<1>3. QED
  BY <1>1, <1>2 DEF StackChain, StateFits, TopIs

LEMMA ObjectsFollow ==
  ASSUME IInv
  PROVE  ObjectsSound
<1>1. ASSUME NEW id \in DOMAIN heap PROVE MapSound(heap[id].map)
  <2>1. Sound(heap[id].map, IdSet)
    BY IInvSays DEF Good, HeapOK, CellOK
  <2>2. QED
    BY <2>1, SoundIsMapSound
<1>2. QED
  BY <1>1 DEF ObjectsSound

LEMMA SpecIInv == Spec => []IInv
  BY InitIInv, NextIInv, PTL DEF Spec

\* Every variable of json.c's model has its type, whatever is created, put, cloned,
\* destroyed and parsed.
THEOREM TypesHold == Spec => []TypeOK
<1>1. IInv => TypeOK
  BY TypeFollows
<1>2. QED
  BY <1>1, SpecIInv, PTL

\* The count of every value is the number of references to it, and nothing refers to a
\* value that was freed: json_clone, json_deep_clone, json_object_put, json_array_add and
\* json_destroy in any order, and the parser wherever its input ends, breaks or is aborted.
THEOREM CountsAreExact == Spec => []RefExact
<1>1. IInv => RefExact
  BY RefsFollow
<1>2. QED
  BY <1>1, SpecIInv, PTL

\* The parser's stack is a path of containers, each the newest child of the one below it,
\* and the parser's state fits the container on top (json_parser_push, json_parser_pop,
\* json_parser_put_value): also when a name of an object comes again and its former value
\* is destroyed, and when the client destroys values meanwhile.
THEOREM StackIsAPath == Spec => []StackChain
<1>1. IInv => StackChain
  BY ChainFollows
<1>2. QED
  BY <1>1, SpecIInv, PTL

\* The table of every object is sound: each name once and in the bucket of its hash, for
\* any hash and any number of names, while hmap_expand makes it grow.
THEOREM ObjectsAreSound == Spec => []ObjectsSound
<1>1. IInv => ObjectsSound
  BY ObjectsFollow
<1>2. QED
  BY <1>1, SpecIInv, PTL

=============================================================================
