---------------------------- MODULE StartupProofs ----------------------------
(***************************************************************************)
(* Proofs about Startup: rings, roles of cores, readers, the table of the  *)
(* custom functions, what is read of the plugin files.                     *)
(***************************************************************************)
EXTENDS WorkerMatch, HashMapProofs, FiniteSetTheorems

-----------------------------------------------------------------------------
(* The filters of Startup.                                                 *)

\* Chosen, round by round.
Choosing(f, V, s, T) ==
  /\ f \in [0 .. Len(s) -> Seq(V)]
  /\ f[0] = <<>> /\ Chosen(s, T) = f[Len(s)]
  /\ \A i \in 1 .. Len(s) :
       f[i] = IF s[i] \in T THEN Append(f[i - 1], s[i]) ELSE f[i - 1]

LEMMA ChosenRounds ==
  ASSUME NEW V, NEW s \in Seq(V), NEW T
  PROVE  \E f : Choosing(f, V, s, T)
<1>1. PICK n \in Nat : n = Len(s)
  OBVIOUS
<1> DEFINE Turn(h, i) == IF s[i] \in T THEN Append(h[i - 1], s[i]) ELSE h[i - 1]
           Eq(h) == h = [i \in 0 .. n |-> IF i = 0 THEN <<>> ELSE Turn(h, i)]
           kept == CHOOSE h : Eq(h)
           g == [xi \in Seq(V) \X (1 .. n) |->
                   IF s[xi[2]] \in T THEN Append(xi[1], s[xi[2]]) ELSE xi[1]]
<1>2. \A i \in 1 .. n : s[i] \in V
  BY <1>1
<1>3. g \in [Seq(V) \X (1 .. n) -> Seq(V)]
  <2>1. ASSUME NEW x \in Seq(V), NEW i \in 1 .. n
        PROVE  (IF s[i] \in T THEN Append(x, s[i]) ELSE x) \in Seq(V)
    BY <1>2
  <2>2. QED
    BY <2>1
<1>4. <<>> \in Seq(V)
  OBVIOUS
<1>5. PICK f : Rounds(f, Seq(V), n, <<>>, g)
  <2> HIDE DEF g
  <2>1. QED
    BY <1>3, <1>4, Recursion
<1>6. f \in [0 .. n -> Seq(V)] /\ f[0] = <<>> /\ \A i \in 1 .. n : f[i] = g[<<f[i - 1], i>>]
  BY <1>5 DEF Rounds
<1>7. ASSUME NEW i \in 1 .. n PROVE f[i] = Turn(f, i)
  <2>1. f[i - 1] \in Seq(V)
    BY <1>6
  <2>2. <<f[i - 1], i>> \in Seq(V) \X (1 .. n)
    BY <2>1
  <2>3. g[<<f[i - 1], i>>] = Turn(f, i)
    BY <2>2
  <2>4. QED
    BY <1>6, <2>3
<1>8. Eq([i \in 0 .. n |-> f[i]])
  <2> HIDE DEF g
  <2> SUFFICES ASSUME NEW i \in 0 .. n
               PROVE  f[i] = IF i = 0 THEN <<>> ELSE Turn([j \in 0 .. n |-> f[j]], i)
    BY Zenon
  <2>1. CASE i = 0
    BY <1>6, <2>1
  <2>2. CASE i # 0
    <3>1. i - 1 \in 0 .. n /\ i \in 1 .. n
      BY <2>2
    <3>2. QED
      BY <1>7, <2>2, <3>1
  <2>3. QED
    BY <2>1, <2>2
<1>9. Eq(kept)
  BY <1>8, Zenon
<1>10. ASSUME NEW i \in 0 .. n PROVE kept[i] = IF i = 0 THEN <<>> ELSE Turn(kept, i)
  BY <1>9, Zenon
<1>11. \A i \in 0 .. n : kept[i] = f[i]
  <2> HIDE DEF kept, g
  <2>1. kept[0] = f[0]
    BY <1>6, <1>10
  <2>2. ASSUME NEW i \in 1 .. n, kept[i - 1] = f[i - 1] PROVE kept[i] = f[i]
    <3>1. i \in 0 .. n /\ i # 0
      OBVIOUS
    <3>2. kept[i] = Turn(kept, i) /\ f[i] = Turn(f, i)
      BY <1>7, <1>10, <3>1
    <3>3. QED
      BY <2>2, <3>2
  <2>3. QED
    BY <2>1, <2>2, SameRounds, SMTT(30)
<1>12. Chosen(s, T) = kept[n]
  BY <1>1, Zenon DEF Chosen
<1>13. Chosen(s, T) = f[n]
  <2>1. n \in 0 .. n
    OBVIOUS
  <2>2. QED
    BY <1>11, <1>12, <2>1
<1>14. Choosing(f, V, s, T)
  BY <1>1, <1>6, <1>7, <1>13 DEF Choosing
<1>15. QED
  BY <1>14, Zenon

LEMMA AppendToSet ==
  ASSUME NEW V, NEW s \in Seq(V), NEW x \in V
  PROVE  ToSet(Append(s, x)) = ToSet(s) \cup {x}
<1>1. PICK n \in Nat : n = Len(s)
  OBVIOUS
<1>2. DOMAIN s = 1 .. n /\ DOMAIN Append(s, x) = 1 .. n + 1 /\ Append(s, x)[n + 1] = x
  BY <1>1
<1>3. \A i \in 1 .. n : i \in 1 .. n + 1 /\ Append(s, x)[i] = s[i]
  BY <1>1
<1>4. \A i \in 1 .. n + 1 : i = n + 1 \/ i \in 1 .. n
  OBVIOUS
<1>5. n + 1 \in 1 .. n + 1
  OBVIOUS
<1>6. QED
  BY <1>2, <1>3, <1>4, <1>5, Zenon DEF ToSet

\* What is chosen is from s and in T, and nothing of that is missing.
LEMMA ChosenRange ==
  ASSUME NEW V, NEW s \in Seq(V), NEW T
  PROVE  /\ Chosen(s, T) \in Seq(V) /\ Len(Chosen(s, T)) <= Len(s)
         /\ ToSet(Chosen(s, T)) = ToSet(s) \cap T
<1>1. PICK n \in Nat : n = Len(s)
  OBVIOUS
<1>2. PICK f : Choosing(f, V, s, T)
  BY ChosenRounds
<1>3. f \in [0 .. n -> Seq(V)] /\ f[0] = <<>> /\ Chosen(s, T) = f[n]
  BY <1>1, <1>2 DEF Choosing
<1>4. ASSUME NEW i \in 1 .. n
      PROVE  f[i] = IF s[i] \in T THEN Append(f[i - 1], s[i]) ELSE f[i - 1]
  BY <1>1, <1>2 DEF Choosing
<1> DEFINE First(k) == {s[i] : i \in 1 .. k}
           S == {k \in 0 .. n : Len(f[k]) <= k /\ ToSet(f[k]) = First(k) \cap T}
<1>5. 0 \in S
  BY <1>3 DEF ToSet
<1>6. ASSUME NEW k \in Nat, k < n /\ k \in S PROVE k + 1 \in S
  <2>1. PICK i \in 1 .. n : i = k + 1
    BY <1>6
  <2>2. i - 1 = k /\ f[k] \in Seq(V) /\ s[i] \in V
    BY <1>1, <1>3, <1>6, <2>1
  <2>3. First(i) = First(k) \cup {s[i]}
    <3>1. 1 .. i = (1 .. k) \cup {i}
      BY <2>1
    <3>2. QED
      BY <3>1, Zenon
  <2>4. Len(f[k]) <= k /\ Len(f[k]) \in Nat /\ ToSet(f[k]) = First(k) \cap T
    BY <1>6, <2>2
  <2>5. Len(f[i]) <= i /\ ToSet(f[i]) = First(i) \cap T
    <3>1. CASE s[i] \in T
      <4>1. PICK c \in Seq(V) : c = f[k]
        BY <2>2
      <4>2. f[i] = Append(c, s[i])
        BY <1>4, <2>2, <3>1, <4>1
      <4>3. Len(f[i]) = Len(c) + 1
        BY <2>2, <4>2
      <4>4. ToSet(f[i]) = ToSet(c) \cup {s[i]}
        BY <2>2, <4>2, AppendToSet
      <4>5. QED
        BY <2>1, <2>3, <2>4, <3>1, <4>1, <4>3, <4>4
    <3>2. CASE s[i] \notin T
      <4>1. f[i] = f[k]
        BY <1>4, <2>2, <3>2
      <4>2. QED
        BY <2>1, <2>3, <2>4, <3>2, <4>1
    <3>3. QED
      BY <3>1, <3>2
  <2>6. QED
    BY <2>1, <2>5
<1>7. \A k \in 0 .. n : k \in S
  <2> HIDE DEF S
  <2>1. QED
    BY <1>5, <1>6, UpTo
<1>8. n \in 0 .. n /\ ToSet(s) = First(n)
  BY <1>1 DEF ToSet
<1>9. QED
  BY <1>1, <1>3, <1>7, <1>8

\* Two sequences that have at most k elements together, and one more step.
Fit(c, d, k) == Len(c) + Len(d) <= k
LEMMA FitOneMore ==
  ASSUME NEW V, NEW c \in Seq(V), NEW d \in Seq(V), NEW x \in V, NEW k \in Nat, Fit(c, d, k)
  PROVE  Fit(c, d, k + 1) /\ Fit(Append(c, x), d, k + 1) /\ Fit(c, Append(d, x), k + 1)
<1>1. PICK a \in Nat : a = Len(c)
  OBVIOUS
<1>2. PICK b \in Nat : b = Len(d)
  OBVIOUS
<1>3. a + b <= k
  BY <1>1, <1>2 DEF Fit
<1>4. Len(Append(c, x)) = a + 1 /\ Len(Append(d, x)) = b + 1
  BY <1>1, <1>2
<1>5. a + b <= k + 1 /\ (a + 1) + b <= k + 1 /\ a + (b + 1) <= k + 1
  BY <1>3
<1>6. QED
  BY <1>1, <1>2, <1>4, <1>5 DEF Fit

\* Two choices without a common element do not exceed the whole.
LEMMA ChosenApart ==
  ASSUME NEW V, NEW s \in Seq(V), NEW T, NEW U, T \cap U = {}
  PROVE  Len(Chosen(s, T)) + Len(Chosen(s, U)) <= Len(s)
<1>1. PICK n \in Nat : n = Len(s)
  OBVIOUS
<1>2. PICK f : Choosing(f, V, s, T)
  BY ChosenRounds
<1>3. PICK h : Choosing(h, V, s, U)
  BY ChosenRounds
<1>4. /\ f \in [0 .. n -> Seq(V)] /\ f[0] = <<>> /\ Chosen(s, T) = f[n]
      /\ h \in [0 .. n -> Seq(V)] /\ h[0] = <<>> /\ Chosen(s, U) = h[n]
  BY <1>1, <1>2, <1>3 DEF Choosing
<1>5. ASSUME NEW i \in 1 .. n
      PROVE  /\ f[i] = IF s[i] \in T THEN Append(f[i - 1], s[i]) ELSE f[i - 1]
             /\ h[i] = IF s[i] \in U THEN Append(h[i - 1], s[i]) ELSE h[i - 1]
  BY <1>1, <1>2, <1>3 DEF Choosing
<1> DEFINE S == {k \in 0 .. n : Fit(f[k], h[k], k)}
<1>6. 0 \in S
  BY <1>4 DEF Fit
<1>7. ASSUME NEW k \in Nat, k < n /\ k \in S PROVE k + 1 \in S
  <2>1. PICK i \in 1 .. n : i = k + 1
    BY <1>7
  <2>2. i - 1 = k /\ f[k] \in Seq(V) /\ h[k] \in Seq(V) /\ s[i] \in V
    BY <1>1, <1>4, <1>7, <2>1
  <2>3. PICK c \in Seq(V) : c = f[k]
    BY <2>2
  <2>4. PICK d \in Seq(V) : d = h[k]
    BY <2>2
  <2>5. Fit(c, d, k)
    BY <1>7, <2>3, <2>4, Zenon
  <2>6. Fit(c, d, i) /\ Fit(Append(c, s[i]), d, i) /\ Fit(c, Append(d, s[i]), i)
    BY <2>1, <2>2, <2>5, FitOneMore
  <2>7. f[i] = IF s[i] \in T THEN Append(c, s[i]) ELSE c
    BY <1>5, <2>2, <2>3, Zenon
  <2>8. h[i] = IF s[i] \in U THEN Append(d, s[i]) ELSE d
    BY <1>5, <2>2, <2>4, Zenon
  <2>9. s[i] \notin T \/ s[i] \notin U
    OBVIOUS
  <2>10. Fit(f[i], h[i], i)
    BY <2>6, <2>7, <2>8, <2>9, Zenon
  <2>11. i \in 0 .. n
    OBVIOUS
  <2>12. QED
    BY <2>1, <2>10, <2>11, Zenon
<1>8. \A k \in 0 .. n : k \in S
  <2> HIDE DEF S
  <2>1. QED
    BY <1>6, <1>7, UpTo
<1>9. n \in 0 .. n
  OBVIOUS
<1>10. Fit(Chosen(s, T), Chosen(s, U), n)
  BY <1>4, <1>8, <1>9, Zenon
<1>11. QED
  BY <1>1, <1>10 DEF Fit

\* A choice of an increasing sequence increases.
Increasing(s) == \A i, j \in DOMAIN s : i < j => s[i] < s[j]
LEMMA ChosenIncreasing ==
  ASSUME NEW s \in Seq(Nat), Increasing(s), NEW T
  PROVE  Increasing(Chosen(s, T))
<1>1. PICK n \in Nat : n = Len(s)
  OBVIOUS
<1>2. PICK f : Choosing(f, Nat, s, T)
  BY ChosenRounds
<1>3. f \in [0 .. n -> Seq(Nat)] /\ f[0] = <<>> /\ Chosen(s, T) = f[n]
  BY <1>1, <1>2 DEF Choosing
<1>4. ASSUME NEW i \in 1 .. n
      PROVE  f[i] = IF s[i] \in T THEN Append(f[i - 1], s[i]) ELSE f[i - 1]
  BY <1>1, <1>2 DEF Choosing
<1> DEFINE Below(k) == \A j \in DOMAIN f[k] : \E i \in 1 .. k : f[k][j] = s[i]
           S == {k \in 0 .. n : Increasing(f[k]) /\ Below(k)}
<1>5. 0 \in S
  BY <1>3 DEF Increasing
<1>6. ASSUME NEW k \in Nat, k < n /\ k \in S PROVE k + 1 \in S
  <2>1. PICK i \in 1 .. n : i = k + 1
    BY <1>6
  <2>2. PICK c \in Seq(Nat) : c = f[k]
    BY <1>3, <1>6
  <2>3. i - 1 = k /\ s[i] \in Nat /\ i \in DOMAIN s
    BY <1>1, <1>3, <1>6, <2>1
  <2>4. Increasing(c) /\ \A j \in DOMAIN c : \E l \in 1 .. k : c[j] = s[l]
    BY <1>6, <2>2
  <2>5. f[i] = IF s[i] \in T THEN Append(c, s[i]) ELSE c
    BY <1>4, <2>2, <2>3
  <2>6. \A j \in DOMAIN c : c[j] < s[i] /\ c[j] \in Nat
    <3> TAKE j \in DOMAIN c
    <3>1. PICK l \in 1 .. k : c[j] = s[l]
      BY <2>4
    <3>2. l \in DOMAIN s /\ l < i
      BY <1>1, <2>1
    <3>3. QED
      BY <2>3, <3>1, <3>2 DEF Increasing
  <2>7. \A l \in 1 .. k : l \in 1 .. i
    BY <2>1
  <2>8. Increasing(f[i]) /\ Below(i)
    <3>1. CASE s[i] \in T
      <4>1. PICK m \in Nat : m = Len(c)
        OBVIOUS
      <4>2. PICK d : d = Append(c, s[i])
        OBVIOUS
      <4>3. /\ DOMAIN c = 1 .. m /\ DOMAIN d = 1 .. m + 1 /\ d[m + 1] = s[i]
            /\ \A j \in 1 .. m : d[j] = c[j]
        BY <2>3, <4>1, <4>2
      <4>4. Increasing(d)
        BY <2>4, <2>6, <4>3, SMTT(30) DEF Increasing
      <4>5. ASSUME NEW j \in DOMAIN d PROVE \E l \in 1 .. i : d[j] = s[l]
        <5>1. CASE j = m + 1
          BY <2>1, <4>3, <5>1
        <5>2. CASE j \in 1 .. m
          BY <2>4, <2>7, <4>3, <5>2
        <5>3. QED
          BY <4>3, <5>1, <5>2
      <4>6. QED
        BY <2>5, <3>1, <4>2, <4>4, <4>5
    <3>2. CASE s[i] \notin T
      BY <2>4, <2>5, <2>7, <3>2
    <3>3. QED
      BY <3>1, <3>2
  <2>9. QED
    BY <2>1, <2>8
<1>7. \A k \in 0 .. n : k \in S
  <2> HIDE DEF S
  <2>1. QED
    BY <1>5, <1>6, UpTo
<1>8. n \in 0 .. n
  OBVIOUS
<1>9. QED
  BY <1>3, <1>7, <1>8

-----------------------------------------------------------------------------
(* The start of the program.                                               *)

IsSeq(s) == s \in Seq(ToSet(s))
OptionSet == [opt : STRING, cores : Seq(Int)]
Roles == {"s", "m", "c"}
CoreSet == [core : Int, role : Roles]
FileLines == UNION {UNION {ToSet(inp.files[f]) : f \in DOMAIN inp.files} : inp \in Inputs}

\* What CreateRings, AssignPlugins and Teardown compute.
RingTable == [x \in (DOMAIN plugin) \X AllCores \X (1 .. nb_masters) |->
                RingOf(x[1], x[2], x[3])]
WorkerTable == [w \in DOMAIN worker_cores |-> Worker(worker_cores[w])]
FreedTable == [r \in MadeRings |-> FreesOf(r)]

PluginOK(s) == /\ DOMAIN s = DOMAIN EmptySlot
               /\ s.core_ids \in Seq(Int)
               /\ IsSeq(s.regex) /\ Len(s.regex) <= MaxRegex

InputInv == input \in Inputs /\ options \in Seq(OptionSet) /\ lines \in Seq(FileLines)
CoresInv == core_conf \in Seq(CoreSet)
SlotInv == PluginOK(slot)
PluginInv == IsSeq(plugin) /\ \A p \in DOMAIN plugin : PluginOK(plugin[p])
RingsInv == pc \in {"assign", "running", "joined", "stopped"} => ring_rxs = RingTable
WorkersInv == pc \in {"running", "joined", "stopped"} => workers = WorkerTable
FreedInv == pc = "stopped" => freed = FreedTable /\ \A r \in MadeRings : FreesOf(r) <= 1
StartInv == /\ InputInv /\ CoresInv /\ SlotInv /\ PluginInv
            /\ RingsInv /\ WorkersInv /\ FreedInv

LEMMA SeqOfMore ==
  ASSUME NEW A, NEW B, A \subseteq B, NEW s \in Seq(A)
  PROVE  s \in Seq(B)
OBVIOUS

LEMMA SeqOfElements ==
  ASSUME NEW A, NEW s \in Seq(A)
  PROVE  IsSeq(s) /\ ToSet(s) \subseteq A
<1>1. \A i \in DOMAIN s : s[i] \in ToSet(s) /\ s[i] \in A
  BY DEF ToSet
<1>2. ToSet(s) \subseteq A
  BY <1>1 DEF ToSet
<1>3. IsSeq(s)
  BY <1>1 DEF IsSeq
<1>4. QED
  BY <1>2, <1>3

LEMMA IsSeqAppend ==
  ASSUME NEW s, IsSeq(s), NEW x
  PROVE  IsSeq(Append(s, x))
<1>1. PICK A : A = ToSet(s) \cup {x}
  OBVIOUS
<1>2. s \in Seq(A)
  BY <1>1, SeqOfMore DEF IsSeq
<1>3. Append(s, x) \in Seq(A)
  BY <1>1, <1>2
<1>4. QED
  BY <1>3, SeqOfElements

\* What a file line gives to a plugin.
LEMMA LineCores ==
  ASSUME NEW l \in FileLines, l[1] = "core_id"
  PROVE  l[2] \in Seq(Int)
<1>1. PICK inp \in Inputs : \E f \in DOMAIN inp.files : l \in ToSet(inp.files[f])
  BY DEF FileLines
<1>2. PICK f \in DOMAIN inp.files : l \in ToSet(inp.files[f])
  BY <1>1
<1>3. QED
  BY <1>2, InputsAssumption

LEMMA FileSeq ==
  ASSUME NEW inp \in Inputs, NEW f \in DOMAIN inp.files
  PROVE  inp.files[f] \in Seq(FileLines)
<1>1. PICK A : A = ToSet(inp.files[f])
  OBVIOUS
<1>2. A \subseteq FileLines
  BY <1>1 DEF FileLines
<1>3. inp.files[f] \in Seq(A)
  BY <1>1, InputsAssumption
<1>4. QED
  BY <1>2, <1>3, SeqOfMore

LEMMA PluginKeyOK ==
  ASSUME NEW s, PluginOK(s), NEW key, NEW value, key = "core_id" => value \in Seq(Int)
  PROVE  PluginOK(PluginKey(s, key, value))
<1>1. CASE key = "core_id" /\ value # <<>>
  <2>1. PluginKey(s, key, value) = [s EXCEPT !.core_ids = @ \o value]
    BY <1>1 DEF PluginKey
  <2>2. s.core_ids \o value \in Seq(Int)
    BY <1>1 DEF PluginOK
  <2>3. QED
    BY <2>1, <2>2 DEF PluginOK, EmptySlot
<1>2. CASE ~ (key = "core_id" /\ value # <<>>)
  <2>1. PICK t : t = PluginKey(s, key, value)
    OBVIOUS
  <2>2. \/ t = s \/ t = [s EXCEPT !.filename = value] \/ t = [s EXCEPT !.plugin_id = value]
        \/ t = [s EXCEPT !.ip = value]
        \/ t = [s EXCEPT !.all_nondedicated_cores = (value = <<"true">>)]
        \/ t = [s EXCEPT !.optimized = (value = <<"true">>)]
    <3>1. CASE value = <<>>
      BY <2>1, <3>1 DEF PluginKey
    <3>2. CASE value # <<>> /\ key # "core_id"
      BY <2>1, <3>2 DEF PluginKey
    <3>3. QED
      BY <1>2, <3>1, <3>2
  <2>3. DOMAIN t = DOMAIN s /\ t.core_ids = s.core_ids /\ t.regex = s.regex
    BY <2>2 DEF PluginOK, EmptySlot
  <2>4. QED
    BY <2>1, <2>3 DEF PluginOK
<1>3. QED
  BY <1>1, <1>2

LEMMA RegexKeyOK ==
  ASSUME NEW s, PluginOK(s), NEW key, NEW value, Len(s.regex) < MaxRegex
  PROVE  PluginOK(RegexKey(s, key, value))
<1>1. CASE key = "fields"
  <2>1. PICK r : r = Append(s.regex, [s.open EXCEPT !.fields = value])
    OBVIOUS
  <2>2. PICK t : t = RegexKey(s, key, value)
    OBVIOUS
  <2>3. DOMAIN t = DOMAIN s /\ t.core_ids = s.core_ids /\ t.regex = r
    BY <1>1, <2>1, <2>2 DEF RegexKey, PluginOK, EmptySlot
  <2>4. IsSeq(r)
    BY <2>1, IsSeqAppend DEF PluginOK
  <2>5. Len(r) <= MaxRegex
    <3>1. PICK n \in Nat : n = Len(s.regex)
      BY DEF PluginOK, IsSeq
    <3>2. Len(r) = n + 1
      BY <2>1, <3>1 DEF PluginOK, IsSeq
    <3>3. QED
      BY <3>1, <3>2, StartupAssumption
  <2>6. QED
    BY <2>2, <2>3, <2>4, <2>5 DEF PluginOK
<1>2. CASE key # "fields"
  BY <1>2 DEF RegexKey, PluginOK, EmptySlot
<1>3. QED
  BY <1>1, <1>2

LEMMA StartInit == WInit => StartInv
<1> SUFFICES ASSUME WInit PROVE StartInv
  OBVIOUS
<1>1. InputInv /\ CoresInv
  BY InputsAssumption DEF WInit, Init, InputInv, CoresInv, OptionSet
<1>2. SlotInv /\ PluginInv
  BY StartupAssumption DEF WInit, Init, SlotInv, PluginInv, PluginOK, EmptySlot, IsSeq
<1>3. RingsInv /\ WorkersInv /\ FreedInv
  BY DEF WInit, Init, RingsInv, WorkersInv, FreedInv
<1>4. QED
  BY <1>1, <1>2, <1>3 DEF StartInv

\* The tables depend on the cores, the plugins and the rings.
LEMMA SameTables ==
  ASSUME UNCHANGED <<core_conf, plugin>>
  PROVE  /\ RingTable' = RingTable /\ WorkerTable' = WorkerTable /\ MadeRings' = MadeRings
         /\ ring_rxs' = ring_rxs => FreedTable' = FreedTable
         /\ ring_rxs' = ring_rxs => \A r \in MadeRings : FreesOf(r)' = FreesOf(r)
<1>1. /\ nb_receivers' = nb_receivers /\ nb_masters' = nb_masters /\ nb_slaves' = nb_slaves
      /\ worker_cores' = worker_cores
  BY DEF nb_receivers, nb_masters, nb_slaves, worker_cores, CountOf, Slice
<1>2. Dedicated' = Dedicated /\ AllCores' = AllCores /\ Others' = Others
  BY <1>1 DEF Dedicated, AllCores, Others
<1>3. RingTable' = RingTable
  BY <1>1, <1>2 DEF RingTable, RingOf, Positions
<1>4. WorkerTable' = WorkerTable
  BY <1>1, <1>2 DEF WorkerTable, Worker, DedicatedTo, Positions
<1>5. MadeRings' = MadeRings
  BY <1>1, <1>2 DEF MadeRings
<1>6. ring_rxs' = ring_rxs => \A r : FreesOf(r)' = FreesOf(r)
  BY <1>5 DEF FreesOf
<1>7. ring_rxs' = ring_rxs => FreedTable' = FreedTable
  BY <1>5, <1>6 DEF FreedTable
<1>8. QED
  BY <1>3, <1>4, <1>5, <1>6, <1>7

\* Only the program counter changes, to a place without a successor.
Leaves == /\ pc' \in {"exited"} \cup Faults
          /\ UNCHANGED <<input, options, core_conf, seen, config, files, lines, plugin,
                         slot, ring_rxs, hash_map, workers, freed>>

LEMMA LeavesForGood ==
  ASSUME Leaves
  PROVE  pc' \notin {"args", "config", "plugins", "assign", "running", "joined", "stopped"}
BY DEF Leaves, Faults, Arrays

LEMMA ExitLeaves == Exit => Leaves
BY DEF Exit, Leaves

LEMMA UndefinedLeaves ==
  ASSUME NEW fault \in Faults, Undefined(fault)
  PROVE  Leaves
BY DEF Undefined, Leaves

\* What the steps that may exit or fail do when they do not.
Taken(key, value) ==
  /\ TakeLine(key, value)
  /\ key \in RegexKeys => ~ (Len(slot.regex) >= MaxRegex)
  /\ key \in RegexKeys \ {"precheck"} => value # <<>>
LEMMA EvaluatedLine ==
  ASSUME EvaluateLine
  PROVE  /\ pc = "plugins" /\ lines # <<>>
         /\ Leaves \/ Taken(lines[1][1], lines[1][2])
<1>1. PICK key, value : key = lines[1][1] /\ value = lines[1][2]
  OBVIOUS
<1>2. CASE key \in RegexKeys \ {"precheck"} /\ value = <<>>
  <2>1. Exit
    BY <1>1, <1>2 DEF EvaluateLine
  <2>2. QED
    BY <2>1, ExitLeaves DEF EvaluateLine
<1>3. CASE ~ (key \in RegexKeys \ {"precheck"} /\ value = <<>>)
  <2>1. CASE key = "unclosed"
    <3>1. Undefined("delim")
      BY <1>1, <1>3, <2>1 DEF EvaluateLine
    <3>2. QED
      BY <3>1, UndefinedLeaves DEF Faults, EvaluateLine
  <2>2. CASE key # "unclosed" /\ \E array \in Arrays : Overrun(array, key, value)
    <3>1. \E array \in Arrays : Undefined(array)
      BY <1>1, <1>3, <2>2 DEF EvaluateLine
    <3>2. QED
      BY <3>1, UndefinedLeaves DEF Faults, EvaluateLine
  <2>3. CASE key # "unclosed" /\ ~ \E array \in Arrays : Overrun(array, key, value)
    <3>1. Undefined("temp7") \/ TakeLine(key, value)
      BY <1>1, <1>3, <2>3 DEF EvaluateLine
    <3>2. ~ Overrun("regex", key, value)
      BY <2>3 DEF Arrays
    <3>3. key \in RegexKeys => ~ (Len(slot.regex) >= MaxRegex)
      BY <3>2 DEF Overrun
    <3>4. CASE Undefined("temp7")
      BY <3>4, UndefinedLeaves DEF Faults, EvaluateLine
    <3>5. CASE TakeLine(key, value)
      BY <1>1, <1>3, <3>3, <3>5 DEF EvaluateLine, Taken
    <3>6. QED
      BY <3>1, <3>4, <3>5
  <2>4. QED
    BY <2>1, <2>2, <2>3
<1>4. QED
  BY <1>2, <1>3

Created == /\ pc = "plugins" /\ lines = <<>> /\ files = <<>> /\ pc' = "assign"
           /\ ring_rxs' = RingTable /\ hash_map' = FunctionTable
           /\ \A p \in Dedicated : ~ OutOfRange(p)
           /\ UNCHANGED <<input, options, core_conf, seen, config, files, lines, plugin,
                          slot, workers, freed>>
LEMMA CreatedRings ==
  ASSUME CreateRings
  PROVE  Leaves \/ Created
<1>1. CASE Undefined("plugin") \/ Undefined("ring_rxs")
  BY <1>1, UndefinedLeaves DEF Faults, Arrays
<1>2. CASE ~ (Undefined("plugin") \/ Undefined("ring_rxs"))
  BY <1>2 DEF CreateRings, Created, RingTable
<1>3. QED
  BY <1>1, <1>2

Assigned == /\ pc = "assign" /\ pc' = "running" /\ workers' = WorkerTable
            /\ UNCHANGED <<input, options, core_conf, seen, config, files, lines, plugin,
                           slot, ring_rxs, hash_map, freed>>
LEMMA AssignedPlugins ==
  ASSUME AssignPlugins
  PROVE  Leaves \/ Assigned
<1>1. CASE Exit \/ Undefined("strdup")
  BY <1>1, ExitLeaves, UndefinedLeaves DEF Faults
<1>2. CASE ~ (Exit \/ Undefined("strdup"))
  BY <1>2 DEF AssignPlugins, Assigned, WorkerTable
<1>3. QED
  BY <1>1, <1>2

TornDown == /\ pc = "joined" /\ pc' = "stopped" /\ freed' = FreedTable
            /\ \A r \in MadeRings : FreesOf(r) <= 1
            /\ UNCHANGED <<input, options, core_conf, seen, config, files, lines, plugin,
                           slot, ring_rxs, hash_map, workers>>
LEMMA TeardownEnds ==
  ASSUME Teardown
  PROVE  Leaves \/ TornDown
<1>1. CASE \E fault \in {"file_lock", "ring_rxs", "ring_free"} : Undefined(fault)
  BY <1>1, UndefinedLeaves DEF Faults
<1>2. CASE ~ \E fault \in {"file_lock", "ring_rxs", "ring_free"} : Undefined(fault)
  BY <1>2 DEF Teardown, TornDown, FreedTable
<1>3. QED
  BY <1>1, <1>2

LEMMA Worked ==
  ASSUME WorkerStep
  PROVE  pc = "running" /\ (Leaves \/ UNCHANGED svars)
<1>1. CASE StartWorker \/ VisitPlugin \/ PollEmpty \/ NextPlugin
  BY <1>1 DEF StartWorker, VisitPlugin, PollEmpty, NextPlugin
<1>2. CASE PollPacket
  <2>1. Undefined("suit_rgxs") \/ UNCHANGED svars
    BY <1>2 DEF PollPacket
  <2>2. QED
    BY <1>2, <2>1, UndefinedLeaves DEF Faults, PollPacket
<1>3. CASE PollNoRing
  BY <1>3, UndefinedLeaves DEF Faults, PollNoRing
<1>4. CASE TryGenerics
  <2>1. Undefined("generic_p_regex") \/ UNCHANGED svars
    BY <1>4 DEF TryGenerics
  <2>2. QED
    BY <1>4, <2>1, UndefinedLeaves DEF Faults, TryGenerics
<1>5. CASE EmitUnmatched
  <2>1. Undefined("best_rgx") \/ UNCHANGED svars
    BY <1>5 DEF EmitUnmatched, Emitted
  <2>2. QED
    BY <1>5, <2>1, UndefinedLeaves DEF Faults, EmitUnmatched
<1>6. CASE EmitMatched
  <2>1. Undefined("func_ret_str") \/ UNCHANGED svars
    BY <1>6 DEF EmitMatched, Emitted
  <2>2. QED
    BY <1>6, <2>1, UndefinedLeaves DEF Faults, EmitMatched
<1>7. CASE ExitWorker
  <2>1. Undefined("wb") \/ UNCHANGED svars
    BY <1>7 DEF ExitWorker
  <2>2. QED
    BY <1>7, <2>1, UndefinedLeaves DEF Faults, ExitWorker
<1>8. QED
  BY <1>1, <1>2, <1>3, <1>4, <1>5, <1>6, <1>7 DEF WorkerStep

LEMMA LeavesKeepStart ==
  ASSUME StartInv, Leaves
  PROVE  StartInv'
<1>1. InputInv' /\ CoresInv' /\ SlotInv' /\ PluginInv'
  BY DEF StartInv, Leaves, InputInv, CoresInv, SlotInv, PluginInv
<1>2. RingsInv' /\ WorkersInv' /\ FreedInv'
  BY LeavesForGood DEF RingsInv, WorkersInv, FreedInv
<1>3. QED
  BY <1>1, <1>2 DEF StartInv

LEMMA SameKeepsStart ==
  ASSUME StartInv, UNCHANGED svars
  PROVE  StartInv'
<1>1. RingTable' = RingTable /\ WorkerTable' = WorkerTable /\ FreedTable' = FreedTable
      /\ MadeRings' = MadeRings /\ \A r \in MadeRings : FreesOf(r)' = FreesOf(r)
  BY SameTables DEF svars
<1>2. InputInv' /\ CoresInv' /\ SlotInv' /\ PluginInv'
  BY DEF StartInv, svars, InputInv, CoresInv, SlotInv, PluginInv
<1>3. RingsInv' /\ WorkersInv' /\ FreedInv'
  BY <1>1 DEF StartInv, svars, RingsInv, WorkersInv, FreedInv
<1>4. QED
  BY <1>2, <1>3 DEF StartInv

LEMMA ReadOptionStart ==
  ASSUME StartInv, ReadOption
  PROVE  StartInv'
<1>1. CASE Exit
  <2>1. Leaves
    BY <1>1 DEF Exit, Leaves
  <2>2. QED
    BY <2>1, LeavesKeepStart
<1>2. CASE ~ Exit
  <2>1. options \in Seq(OptionSet) /\ options # <<>> /\ core_conf \in Seq(CoreSet)
    BY DEF StartInv, ReadOption, InputInv, CoresInv
  <2>2. PICK o \in OptionSet : o = Head(options)
    BY <2>1
  <2>3. /\ options' = Tail(options)
        /\ \/ /\ core_conf' = core_conf \o [i \in DOMAIN o.cores |->
                                            [core |-> o.cores[i], role |-> o.opt]]
              /\ o.opt \in Roles
           \/ core_conf' = core_conf
        /\ UNCHANGED <<input, pc, lines, plugin, slot, ring_rxs, workers, freed>>
    BY <1>2, <2>2 DEF ReadOption, Roles
  <2>4. InputInv'
    BY <2>1, <2>3 DEF StartInv, InputInv
  <2>5. CoresInv'
    <3>1. PICK n \in Nat : n = Len(o.cores)
      BY DEF OptionSet
    <3>2. \A i \in 1 .. n : o.cores[i] \in Int
      BY <3>1 DEF OptionSet
    <3>3. DOMAIN o.cores = 1 .. n
      BY <3>1 DEF OptionSet
    <3>4. CASE core_conf' = core_conf
      BY <2>1, <3>4 DEF CoresInv
    <3>5. CASE core_conf' # core_conf
      <4>1. PICK t : t = [i \in DOMAIN o.cores |-> [core |-> o.cores[i], role |-> o.opt]]
        OBVIOUS
      <4>2. o.opt \in Roles /\ core_conf' = core_conf \o t
        BY <2>3, <3>5, <4>1
      <4>3. \A i \in 1 .. n : [core |-> o.cores[i], role |-> o.opt] \in CoreSet
        BY <3>2, <4>2 DEF CoreSet
      <4>4. t \in [1 .. n -> CoreSet]
        BY <3>3, <4>1, <4>3
      <4>5. t \in Seq(CoreSet)
        BY <4>4
      <4>6. core_conf \o t \in Seq(CoreSet)
        BY <2>1, <4>5
      <4>7. QED
        BY <4>2, <4>6 DEF CoresInv
    <3>6. QED
      BY <3>4, <3>5
  <2>6. SlotInv' /\ PluginInv'
    BY <2>3 DEF StartInv, SlotInv, PluginInv
  <2>7. pc' = "args"
    BY <2>3 DEF ReadOption
  <2>8. QED
    BY <2>4, <2>5, <2>6, <2>7 DEF StartInv, RingsInv, WorkersInv, FreedInv
<1>3. QED
  BY <1>1, <1>2

LEMMA ReadFilesStart ==
  ASSUME StartInv, CheckOptions \/ ParseConfiguration \/ OpenPluginFile
  PROVE  StartInv'
<1>1. CASE Exit
  <2>1. Leaves
    BY <1>1 DEF Exit, Leaves
  <2>2. QED
    BY <2>1, LeavesKeepStart
<1>2. CASE ~ Exit
  <2>1. /\ pc' \in {"config", "plugins"}
        /\ UNCHANGED <<input, options, core_conf, plugin, slot>>
    BY <1>2 DEF CheckOptions, ParseConfiguration, OpenPluginFile
  <2>2. lines' \in Seq(FileLines)
    <3>1. CASE OpenPluginFile
      <4>1. Head(files) \in DOMAIN input.files /\ lines' = input.files[Head(files)]
        BY <1>2, <3>1 DEF OpenPluginFile, Sane
      <4>2. input \in Inputs
        BY DEF StartInv, InputInv
      <4>3. QED
        BY <4>1, <4>2, FileSeq
    <3>2. CASE CheckOptions \/ ParseConfiguration
      <4>1. lines' = lines
        BY <1>2, <3>2 DEF CheckOptions, ParseConfiguration
      <4>2. QED
        BY <4>1 DEF StartInv, InputInv
    <3>3. QED
      BY <3>1, <3>2
  <2>3. InputInv' /\ CoresInv' /\ SlotInv' /\ PluginInv'
    BY <2>1, <2>2 DEF StartInv, InputInv, CoresInv, SlotInv, PluginInv
  <2>4. QED
    BY <2>1, <2>3 DEF StartInv, RingsInv, WorkersInv, FreedInv
<1>3. QED
  BY <1>1, <1>2

LEMMA EvaluateLineStart ==
  ASSUME StartInv, EvaluateLine
  PROVE  StartInv'
<1>1. CASE Leaves
  BY <1>1, LeavesKeepStart
<1>2. CASE Taken(lines[1][1], lines[1][2])
  <2>1. PICK key, value : key = lines[1][1] /\ value = lines[1][2]
    OBVIOUS
  <2>2. /\ ~ (key \in RegexKeys /\ Len(slot.regex) >= MaxRegex)
        /\ lines' = Tail(lines)
        /\ UNCHANGED <<input, pc, options, core_conf, ring_rxs, workers, freed>>
    BY <1>2, <2>1 DEF Taken, TakeLine
  <2>3. \/ plugin' = Append(plugin, slot) /\ slot' = EmptySlot
        \/ plugin' = plugin /\ key \in RegexKeys /\ slot' = RegexKey(slot, key, value)
        \/ plugin' = plugin /\ slot' = PluginKey(slot, key, value)
    BY <1>2, <2>1 DEF Taken, TakeLine
  <2>4. lines \in Seq(FileLines) /\ lines # <<>> /\ pc = "plugins"
    BY EvaluatedLine DEF StartInv, InputInv
  <2>5. InputInv' /\ CoresInv'
    BY <2>2, <2>4 DEF StartInv, InputInv, CoresInv
  <2>6. PluginOK(slot) /\ IsSeq(plugin) /\ \A p \in DOMAIN plugin : PluginOK(plugin[p])
    BY DEF StartInv, SlotInv, PluginInv
  <2>7. SlotInv'
    <3>1. CASE slot' = EmptySlot
      BY <3>1, StartupAssumption DEF SlotInv, PluginOK, EmptySlot, IsSeq
    <3>2. CASE key \in RegexKeys /\ slot' = RegexKey(slot, key, value)
      <4>1. Len(slot.regex) < MaxRegex
        <5>1. PICK n \in Nat : n = Len(slot.regex)
          BY <2>6 DEF PluginOK, IsSeq
        <5>2. QED
          BY <2>2, <3>2, <5>1, StartupAssumption
      <4>2. QED
        BY <2>6, <3>2, <4>1, RegexKeyOK DEF SlotInv
    <3>3. CASE slot' = PluginKey(slot, key, value)
      <4>1. key = "core_id" => value \in Seq(Int)
        <5>1. lines[1] \in FileLines
          BY <2>4
        <5>2. QED
          BY <2>1, <5>1, LineCores
      <4>2. QED
        BY <2>6, <3>3, <4>1, PluginKeyOK DEF SlotInv
    <3>4. QED
      BY <2>3, <3>1, <3>2, <3>3
  <2>8. PluginInv'
    <3>1. CASE plugin' = plugin
      BY <2>6, <3>1 DEF PluginInv
    <3>2. CASE plugin' = Append(plugin, slot)
      <4>1. IsSeq(Append(plugin, slot))
        BY <2>6, IsSeqAppend
      <4>2. PICK n \in Nat : n = Len(plugin)
        BY <2>6 DEF IsSeq
      <4>3. /\ DOMAIN plugin = 1 .. n /\ DOMAIN Append(plugin, slot) = 1 .. n + 1
            /\ \A p \in 1 .. n : Append(plugin, slot)[p] = plugin[p]
            /\ Append(plugin, slot)[n + 1] = slot
        BY <2>6, <4>2 DEF IsSeq
      <4>4. ASSUME NEW p \in DOMAIN plugin' PROVE PluginOK(plugin'[p])
        <5>1. p = n + 1 \/ p \in 1 .. n
          BY <3>2, <4>3
        <5>2. QED
          BY <2>6, <3>2, <4>3, <5>1
      <4>5. QED
        BY <3>2, <4>1, <4>4 DEF PluginInv
    <3>3. QED
      BY <2>3, <3>1, <3>2
  <2>9. QED
    BY <2>2, <2>4, <2>5, <2>7, <2>8 DEF StartInv, RingsInv, WorkersInv, FreedInv
<1>3. QED
  BY <1>1, <1>2, EvaluatedLine

LEMMA TablesStart ==
  ASSUME StartInv, Created \/ Assigned \/ Join \/ TornDown
  PROVE  StartInv'
<1>1. UNCHANGED <<input, options, core_conf, lines, plugin, slot>>
  BY DEF Created, Assigned, Join, TornDown
<1>2. InputInv' /\ CoresInv' /\ SlotInv' /\ PluginInv'
  BY <1>1 DEF StartInv, InputInv, CoresInv, SlotInv, PluginInv
<1>3. RingTable' = RingTable /\ WorkerTable' = WorkerTable /\ MadeRings' = MadeRings
      /\ (ring_rxs' = ring_rxs => FreedTable' = FreedTable)
      /\ (ring_rxs' = ring_rxs => \A r \in MadeRings : FreesOf(r)' = FreesOf(r))
  BY <1>1, SameTables
<1>4. RingsInv' /\ WorkersInv' /\ FreedInv'
  <2>1. CASE Created
    BY <1>3, <2>1 DEF Created, RingsInv, WorkersInv, FreedInv
  <2>2. CASE Assigned
    BY <1>3, <2>2 DEF StartInv, Assigned, RingsInv, WorkersInv, FreedInv
  <2>3. CASE Join
    BY <1>3, <2>3 DEF StartInv, Join, RingsInv, WorkersInv, FreedInv
  <2>4. CASE TornDown
    <3>1. RingsInv' /\ WorkersInv'
      BY <1>3, <2>4 DEF StartInv, TornDown, RingsInv, WorkersInv
    <3>2. freed' = FreedTable' /\ \A r \in MadeRings' : FreesOf(r)' <= 1
      BY <1>3, <2>4 DEF TornDown
    <3>3. QED
      BY <3>1, <3>2 DEF FreedInv
  <2>5. QED
    BY <2>1, <2>2, <2>3, <2>4
<1>5. QED
  BY <1>2, <1>4 DEF StartInv

\* A step of the worker leaves all that main has made.
LEMMA WorkerStart ==
  ASSUME StartInv, WorkerStep
  PROVE  StartInv'
BY Worked, LeavesKeepStart, SameKeepsStart

LEMMA StartStep == StartInv /\ [Next]_<<svars, wvars>> => StartInv'
<1> SUFFICES ASSUME StartInv, [Next]_<<svars, wvars>> PROVE StartInv'
  OBVIOUS
<1>1. CASE Setup
  <2>1. CASE CreateRings \/ AssignPlugins
    BY <2>1, CreatedRings, AssignedPlugins, LeavesKeepStart, TablesStart
  <2>2. CASE ~ (CreateRings \/ AssignPlugins)
    BY <1>1, <2>2, ReadOptionStart, ReadFilesStart, EvaluateLineStart DEF Setup
  <2>3. QED
    BY <2>1, <2>2
<1>2. CASE WorkerStep
  BY <1>2, WorkerStart
<1>3. CASE End
  BY <1>3, TeardownEnds, LeavesKeepStart, TablesStart DEF End
<1>4. CASE UNCHANGED svars
  BY <1>4, SameKeepsStart
<1>5. QED
  BY <1>1, <1>2, <1>3, <1>4 DEF Next

LEMMA StartInvariant == Spec => []StartInv
BY StartInit, StartStep, PTL DEF Spec

LEMMA PluginDomain ==
  ASSUME StartInv
  PROVE  \E n \in Nat : n = Len(plugin) /\ DOMAIN plugin = 1 .. n
BY DEF StartInv, PluginInv, IsSeq

LEMMA PositionsCount ==
  ASSUME StartInv, NEW p \in DOMAIN plugin, NEW core
  PROVE  /\ Cardinality(Positions(p, core)) \in Nat
         /\ Positions(p, core) = {} => Cardinality(Positions(p, core)) = 0
<1>1. PICK n \in Nat : DOMAIN plugin[p].core_ids = 1 .. n
  BY DEF StartInv, PluginInv, PluginOK
<1>2. IsFiniteSet(1 .. n)
  BY FS_Interval
<1>3. Positions(p, core) \subseteq 1 .. n
  BY <1>1 DEF Positions
<1>4. IsFiniteSet(Positions(p, core))
  BY <1>2, <1>3, FS_Subset
<1>5. QED
  BY <1>4, FS_CardinalityType, FS_EmptySet

\* A set of positions has a greatest one.
LEMMA GreatestOf ==
  ASSUME NEW n \in Nat, NEW P \in SUBSET (1 .. n), P # {}
  PROVE  Max(P) \in P
<1> DEFINE HasTop(k) == \A T \in SUBSET (1 .. k) :
                          T # {} => \E x \in T : \A y \in T : x >= y
           S == {k \in 0 .. n : HasTop(k)}
<1>1. 0 \in S
  <2>1. 1 .. 0 = {} /\ 0 \in 0 .. n
    OBVIOUS
  <2>2. HasTop(0)
    BY <2>1
  <2>3. QED
    BY <2>1, <2>2
<1>2. ASSUME NEW k \in Nat, k < n /\ k \in S PROVE k + 1 \in S
  <2>1. ASSUME NEW T \in SUBSET (1 .. k + 1), T # {}
        PROVE  \E x \in T : \A y \in T : x >= y
    <3>1. CASE k + 1 \in T
      BY <2>1, <3>1
    <3>2. CASE k + 1 \notin T
      <4>1. T \in SUBSET (1 .. k)
        BY <3>2
      <4>2. QED
        BY <1>2, <2>1, <4>1
    <3>3. QED
      BY <3>1, <3>2
  <2>2. QED
    BY <1>2, <2>1
<1>3. \A k \in 0 .. n : k \in S
  <2> HIDE DEF S
  <2>1. QED
    BY <1>1, <1>2, UpTo
<1>4. HasTop(n)
  BY <1>3
<1>5. \E x \in P : \A y \in P : x >= y
  BY <1>4
<1>6. QED
  BY <1>5, Zenon DEF Max

\* The pointer of a core is that of its last position.
LEMMA RingAt ==
  ASSUME StartInv, ring_rxs = RingTable, NEW p \in Dedicated,
         NEW i \in DOMAIN plugin[p].core_ids, NEW m \in 1 .. nb_masters
  PROVE  \E k \in Positions(p, plugin[p].core_ids[i]) :
           ring_rxs[<<p, plugin[p].core_ids[i], m>>] = <<p, k, m>>
<1>1. p \in DOMAIN plugin
  BY DEF Dedicated
<1>2. PICK ids \in Seq(Int) : ids = plugin[p].core_ids
  BY <1>1 DEF StartInv, PluginInv, PluginOK
<1>3. PICK n \in Nat : DOMAIN ids = 1 .. n
  BY <1>2
<1>4. PICK core : core = ids[i]
  OBVIOUS
<1>5. core \in AllCores
  <2>1. core \in ToSet(plugin[p].core_ids)
    BY <1>2, <1>4 DEF ToSet
  <2>2. QED
    BY <1>1, <2>1, Zenon DEF AllCores
<1>6. Positions(p, core) \in SUBSET (1 .. n) /\ i \in Positions(p, core)
  BY <1>2, <1>3, <1>4 DEF Positions
<1>7. Max(Positions(p, core)) \in Positions(p, core)
  BY <1>6, GreatestOf
<1>8. <<p, core, m>> \in (DOMAIN plugin) \X AllCores \X (1 .. nb_masters)
  BY <1>1, <1>5
<1>9. ring_rxs[<<p, core, m>>] = RingOf(p, core, m)
  BY <1>8 DEF RingTable
<1>10. RingOf(p, core, m) = <<p, Max(Positions(p, core)), m>>
  BY <1>6 DEF RingOf
<1>11. QED
  BY <1>2, <1>4, <1>7, <1>9, <1>10

LEMMA MadeRing ==
  ASSUME NEW r \in MadeRings
  PROVE  \E p \in Dedicated, i \in DOMAIN plugin[r[1]].core_ids, m \in 1 .. nb_masters :
           r = <<p, i, m>>
<1>1. PICK p \in Dedicated : r \in {p} \X (DOMAIN plugin[p].core_ids) \X (1 .. nb_masters)
  BY DEF MadeRings
<1>2. QED
  BY <1>1

\* The positions whose free at the end is one of the ring r.
FreedAt(r) == {x \in MadeRings : ring_rxs[<<x[1], plugin[x[1]].core_ids[x[2]], x[3]>>] = r}

\* Where cores are distinct, a position frees its own ring.
LEMMA DistinctFrees ==
  ASSUME StartInv, ring_rxs = RingTable,
         \A p \in Dedicated : Distinct(plugin[p].core_ids), NEW r \in MadeRings
  PROVE  FreesOf(r) = 1
<1>1. ASSUME NEW x \in MadeRings
      PROVE  ring_rxs[<<x[1], plugin[x[1]].core_ids[x[2]], x[3]>>] = x
  <2>1. PICK p \in Dedicated, i \in DOMAIN plugin[x[1]].core_ids, m \in 1 .. nb_masters :
          x = <<p, i, m>>
    BY MadeRing
  <2>2. i \in DOMAIN plugin[p].core_ids
    BY <2>1
  <2>3. PICK k \in Positions(p, plugin[p].core_ids[i]) :
          ring_rxs[<<p, plugin[p].core_ids[i], m>>] = <<p, k, m>>
    BY <2>2, RingAt
  <2>4. k = i
    BY <2>2, <2>3 DEF Positions, Distinct
  <2>5. QED
    BY <2>1, <2>3, <2>4
<1>2. FreedAt(r) = {r}
  BY <1>1 DEF FreedAt
<1>3. QED
  BY <1>2, FS_Singleton DEF FreesOf, FreedAt

\* Where no ring is freed twice, cores are distinct.
LEMMA FreesDistinct ==
  ASSUME StartInv, ring_rxs = RingTable, \A r \in MadeRings : FreesOf(r) <= 1,
         NEW m \in 1 .. nb_masters, NEW p \in Dedicated
  PROVE  Distinct(plugin[p].core_ids)
<1> SUFFICES ASSUME NEW i \in DOMAIN plugin[p].core_ids, NEW j \in DOMAIN plugin[p].core_ids,
                    plugin[p].core_ids[i] = plugin[p].core_ids[j], i # j
             PROVE  FALSE
  BY DEF Distinct
<1>1. p \in DOMAIN plugin
  BY DEF Dedicated
<1>2. PICK ids \in Seq(Int) : ids = plugin[p].core_ids
  BY <1>1 DEF StartInv, PluginInv, PluginOK
<1>3. PICK n \in Nat : DOMAIN ids = 1 .. n
  BY <1>2
<1>4. PICK k \in Positions(p, plugin[p].core_ids[i]) :
        ring_rxs[<<p, plugin[p].core_ids[i], m>>] = <<p, k, m>>
  BY RingAt
<1>5. ring_rxs[<<p, plugin[p].core_ids[j], m>>] = <<p, k, m>>
  BY <1>4
<1>6. k \in DOMAIN ids
  BY <1>2, <1>4 DEF Positions
<1>7. PICK r, x, y : r = <<p, k, m>> /\ x = <<p, i, m>> /\ y = <<p, j, m>>
  OBVIOUS
<1>8. r \in MadeRings /\ x \in MadeRings /\ y \in MadeRings
  BY <1>2, <1>6, <1>7 DEF MadeRings
<1>9. x \in FreedAt(r) /\ y \in FreedAt(r) /\ x # y
  BY <1>4, <1>5, <1>7, <1>8 DEF FreedAt
<1>10. IsFiniteSet(FreedAt(r))
  <2>1. ASSUME NEW z \in FreedAt(r)
        PROVE  z \in {<<p, l, m>> : l \in 1 .. n}
    <3>1. z \in MadeRings /\ ring_rxs[<<z[1], plugin[z[1]].core_ids[z[2]], z[3]>>] = r
      BY DEF FreedAt
    <3>2. PICK q \in Dedicated, l \in DOMAIN plugin[z[1]].core_ids, o \in 1 .. nb_masters :
            z = <<q, l, o>>
      BY <3>1, MadeRing
    <3>3. l \in DOMAIN plugin[q].core_ids
      BY <3>2
    <3>4. PICK h \in Positions(q, plugin[q].core_ids[l]) :
            ring_rxs[<<q, plugin[q].core_ids[l], o>>] = <<q, h, o>>
      BY <3>3, RingAt
    <3>5. q = p /\ o = m
      BY <1>7, <3>1, <3>2, <3>4
    <3>6. QED
      BY <1>2, <1>3, <3>2, <3>3, <3>5
  <2>2. IsFiniteSet({<<p, l, m>> : l \in 1 .. n})
    <3>1. IsFiniteSet(1 .. n)
      BY FS_Interval
    <3>2. PICK f : f = [l \in 1 .. n |-> <<p, l, m>>]
      OBVIOUS
    <3>3. f \in Surjection(1 .. n, {<<p, l, m>> : l \in 1 .. n})
      BY <3>2 DEF Surjection
    <3>4. QED
      BY <3>1, <3>3, FS_Surjection
  <2>3. FreedAt(r) \in SUBSET {<<p, l, m>> : l \in 1 .. n}
    BY <2>1
  <2>4. QED
    BY <2>2, <2>3, FS_Subset
<1>11. Cardinality({x, y}) = 2
  <2>1. IsFiniteSet({x}) /\ Cardinality({x}) = 1
    BY FS_Singleton
  <2>2. y \notin {x}
    BY <1>9
  <2>3. Cardinality({x} \cup {y}) = 1 + 1
    BY <2>1, <2>2, FS_AddElement
  <2>4. {x} \cup {y} = {x, y}
    OBVIOUS
  <2>5. QED
    BY <2>3, <2>4
<1>12. Cardinality({x, y}) <= Cardinality(FreedAt(r))
  <2>1. {x, y} \in SUBSET FreedAt(r)
    BY <1>9
  <2>2. QED
    BY <1>10, <2>1, FS_Subset
<1>13. Cardinality(FreedAt(r)) \in Nat /\ Cardinality(FreedAt(r)) <= 1
  BY <1>8, <1>10, FS_CardinalityType DEF FreesOf, FreedAt
<1>14. QED
  BY <1>11, <1>12, <1>13

\* logcollector.c, the end of main: whatever cores the plugins are given, a program that
\* ends without freeing a ring twice has freed every ring it made.
THEOREM RingsAreFreedOnce == Spec => []FreedOnce
<1>1. StartInv => FreedOnce
  <2> SUFFICES ASSUME StartInv, pc = "stopped", NEW r \in MadeRings PROVE freed[r] = 1
    BY DEF FreedOnce
  <2>1. ring_rxs = RingTable /\ freed = FreedTable /\ \A x \in MadeRings : FreesOf(x) <= 1
    BY DEF StartInv, RingsInv, FreedInv
  <2>2. PICK m : m \in 1 .. nb_masters
    BY MadeRing
  <2>3. \A p \in Dedicated : Distinct(plugin[p].core_ids)
    BY <2>1, <2>2, FreesDistinct
  <2>4. FreesOf(r) = 1
    BY <2>1, <2>3, DistinctFrees
  <2>5. QED
    BY <2>1, <2>4 DEF FreedTable
<1>2. QED
  BY <1>1, StartInvariant, PTL

-----------------------------------------------------------------------------
(* The readers of a ring.                                                  *)

\* x is at exactly one place of s.
OnceIn(s, x) == \E j \in DOMAIN s : s[j] = x /\ \A i \in DOMAIN s : s[i] = x => i = j

LEMMA OnceConcat ==
  ASSUME NEW V, NEW s \in Seq(V), NEW t \in Seq(V), NEW x,
         \/ OnceIn(s, x) /\ x \notin ToSet(t)
         \/ x \notin ToSet(s) /\ OnceIn(t, x)
  PROVE  OnceIn(s \o t, x)
<1>1. PICK u \in Seq(V) : u = s \o t
  BY ConcatProperties, Zenon
<1>2. PICK m \in Nat : m = Len(s) /\ DOMAIN s = 1 .. m
  OBVIOUS
<1>3. DOMAIN u = 1 .. Len(u) /\ DOMAIN t \subseteq Nat \ {0}
  OBVIOUS
<1>4. /\ \A i \in DOMAIN u : \/ i \in DOMAIN s /\ u[i] = s[i]
                             \/ \E j \in DOMAIN t : i = m + j /\ u[i] = t[j]
      /\ \A i \in DOMAIN s : i \in DOMAIN u /\ u[i] = s[i]
      /\ \A j \in DOMAIN t : m + j \in DOMAIN u /\ u[m + j] = t[j]
  <2>1. /\ \A i \in 1 .. Len(s \o t) :
             \/ i \in DOMAIN s /\ (s \o t)[i] = s[i]
             \/ \E j \in DOMAIN t : i = Len(s) + j /\ (s \o t)[i] = t[j]
        /\ \A i \in DOMAIN s : i \in 1 .. Len(s \o t) /\ (s \o t)[i] = s[i]
        /\ \A j \in DOMAIN t : Len(s) + j \in 1 .. Len(s \o t) /\ (s \o t)[Len(s) + j] = t[j]
    BY ONLY ConcatPlaces, s \in Seq(V), t \in Seq(V)
  <2>2. s \o t = u /\ Len(s) = m
    BY <1>1, <1>2
  <2>3. QED
    BY <1>3, <2>1, <2>2
<1>5. CASE OnceIn(s, x) /\ x \notin ToSet(t)
  <2>1. PICK j \in DOMAIN s : s[j] = x /\ \A i \in DOMAIN s : s[i] = x => i = j
    BY <1>5 DEF OnceIn
  <2>2. \A k \in DOMAIN t : t[k] # x
    BY <1>5 DEF ToSet
  <2>3. ASSUME NEW i \in DOMAIN u, u[i] = x PROVE i = j
    BY <1>4, <2>1, <2>2, <2>3, Zenon
  <2>4. j \in DOMAIN u /\ u[j] = x
    BY <1>4, <2>1, Zenon
  <2>5. QED
    BY <1>1, <2>3, <2>4, Zenon DEF OnceIn
<1>6. CASE x \notin ToSet(s) /\ OnceIn(t, x)
  <2>1. PICK j \in DOMAIN t : t[j] = x /\ \A i \in DOMAIN t : t[i] = x => i = j
    BY <1>6 DEF OnceIn
  <2>2. \A k \in DOMAIN s : s[k] # x
    BY <1>6 DEF ToSet
  <2>3. ASSUME NEW i \in DOMAIN u, u[i] = x PROVE i = m + j
    BY <1>4, <2>1, <2>2, <2>3, Zenon
  <2>4. m + j \in DOMAIN u /\ u[m + j] = x
    BY <1>4, <2>1, Zenon
  <2>5. QED
    BY <1>1, <2>3, <2>4, Zenon DEF OnceIn
<1>7. QED
  BY <1>5, <1>6

\* When x is once in one of the sequences and in no other, their concatenation has it
\* once.
OnceAt(ss, p, x) == /\ OnceIn(ss[p], x)
                    /\ \A q \in DOMAIN ss : q # p => x \notin ToSet(ss[q])
LEMMA FlattenOnce ==
  ASSUME NEW V, NEW ss \in Seq(Seq(V)), NEW p \in DOMAIN ss, NEW x, OnceAt(ss, p, x)
  PROVE  OnceIn(FlattenSeq(ss), x)
<1>1. PICK n \in Nat : n = Len(ss) /\ DOMAIN ss = 1 .. n
  OBVIOUS
<1>2. PICK f \in [0 .. n -> Seq(V)] :
        /\ f[0] = <<>> /\ FlattenSeq(ss) = f[n]
        /\ \A i \in 1 .. n : f[i] = f[i - 1] \o ss[i]
  BY <1>1, FlattenRec
<1> DEFINE Place(k) == IF k < p THEN x \notin ToSet(f[k]) ELSE OnceIn(f[k], x)
           S == {k \in 0 .. n : Place(k)}
<1>3. 0 \in S
  <2>1. 0 < p
    BY <1>1
  <2>2. QED
    BY <1>2, <2>1 DEF ToSet
<1>4. ASSUME NEW k \in Nat, k < n /\ k \in S PROVE k + 1 \in S
  <2>1. PICK i \in 1 .. n : i = k + 1
    BY <1>4
  <2>2. i - 1 = k /\ f[k] \in Seq(V) /\ ss[i] \in Seq(V)
    BY <1>1, <1>4, <2>1
  <2>3. f[i] = f[k] \o ss[i]
    BY <1>2, <2>2
  <2>4. CASE i < p
    <3>1. x \notin ToSet(f[k]) /\ x \notin ToSet(ss[i])
      <4>1. k < p /\ i # p /\ i \in DOMAIN ss
        BY <1>1, <2>1, <2>4
      <4>2. QED
        BY <1>4, <4>1 DEF OnceAt
    <3>2. x \notin ToSet(f[i])
      BY <2>2, <2>3, <3>1, ConcatToSet
    <3>3. QED
      BY <2>1, <2>4, <3>2
  <2>5. CASE i = p
    <3>1. x \notin ToSet(f[k]) /\ OnceIn(ss[i], x)
      BY <1>1, <1>4, <2>1, <2>5 DEF OnceAt
    <3>2. OnceIn(f[i], x)
      BY <2>2, <2>3, <3>1, OnceConcat
    <3>3. QED
      BY <2>1, <2>5, <3>2
  <2>6. CASE i > p
    <3>1. OnceIn(f[k], x) /\ x \notin ToSet(ss[i])
      <4>1. ~ (k < p) /\ i # p /\ i \in DOMAIN ss
        BY <1>1, <2>1, <2>6
      <4>2. QED
        BY <1>4, <4>1 DEF OnceAt
    <3>2. OnceIn(f[i], x)
      BY <2>2, <2>3, <3>1, OnceConcat
    <3>3. QED
      BY <1>1, <2>1, <2>6, <3>2
  <2>7. QED
    BY <1>1, <2>4, <2>5, <2>6
<1>5. \A k \in 0 .. n : k \in S
  <2> HIDE DEF S
  <2>1. QED
    BY <1>3, <1>4, UpTo
<1>6. n \in 0 .. n /\ p <= n
  BY <1>1
<1>7. QED
  BY <1>1, <1>2, <1>5, <1>6

\* DedicatedTo, plugin by plugin.
Copies(core) == [p \in DOMAIN plugin |->
                   IF p \notin Dedicated THEN <<>>
                   ELSE [i \in 1 .. Cardinality(Positions(p, core)) |-> p]]

LEMMA CopiesOf ==
  ASSUME StartInv, NEW core, NEW p \in DOMAIN plugin
  PROVE  /\ Copies(core)[p] \in Seq(DOMAIN plugin)
         /\ \A x \in ToSet(Copies(core)[p]) :
              x = p /\ p \in Dedicated /\ Positions(p, core) # {}
<1>1. CASE p \notin Dedicated
  <2>1. Copies(core)[p] = <<>>
    BY <1>1 DEF Copies
  <2>2. ToSet(<<>>) = {} /\ <<>> \in Seq(DOMAIN plugin)
    BY DEF ToSet
  <2>3. QED
    BY <2>1, <2>2, Zenon
<1>2. CASE p \in Dedicated
  <2>1. PICK c \in Nat : c = Cardinality(Positions(p, core))
                         /\ (Positions(p, core) = {} => c = 0)
    BY PositionsCount
  <2>2. Copies(core)[p] = [i \in 1 .. c |-> p]
    BY <1>2, <2>1 DEF Copies
  <2>3. PICK D : D = DOMAIN plugin
    OBVIOUS
  <2>4. [i \in 1 .. c |-> p] \in Seq(D)
    BY <2>3
  <2>5. ASSUME NEW x \in ToSet([i \in 1 .. c |-> p]) PROVE x = p /\ c # 0
    BY <2>5 DEF ToSet
  <2>6. QED
    BY <1>2, <2>1, <2>2, <2>3, <2>4, <2>5
<1>3. QED
  BY <1>1, <1>2

LEMMA DedicatedCopies ==
  ASSUME StartInv, NEW core
  PROVE  /\ DedicatedTo(core) = FlattenSeq(Copies(core))
         /\ Copies(core) \in Seq(Seq(DOMAIN plugin))
         /\ DOMAIN Copies(core) = DOMAIN plugin
<1>1. PICK n \in Nat : n = Len(plugin) /\ DOMAIN plugin = 1 .. n
  BY PluginDomain
<1>2. DOMAIN Copies(core) = 1 .. n
  BY <1>1 DEF Copies
<1>3. Copies(core) = [p \in 1 .. n |-> Copies(core)[p]]
  BY <1>1 DEF Copies
<1>4. Copies(core) \in [1 .. n -> Seq(DOMAIN plugin)]
  BY <1>1, <1>3, CopiesOf
<1>5. Copies(core) \in Seq(Seq(DOMAIN plugin))
  BY <1>4
<1>6. DedicatedTo(core) = FlattenSeq(Copies(core))
  BY Zenon DEF DedicatedTo, Copies
<1>7. QED
  BY <1>1, <1>2, <1>5, <1>6

\* A worker visits plugins that are dedicated to its core, or to none.
LEMMA WorkerPlugins ==
  ASSUME StartInv, NEW core
  PROVE  /\ Worker(core).plugins \in Seq(DOMAIN plugin)
         /\ \A p \in ToSet(Worker(core).plugins) : p \in Dedicated => Positions(p, core) # {}
<1>1. PICK n \in Nat : n = Len(plugin) /\ DOMAIN plugin = 1 .. n
  BY PluginDomain
<1>2. /\ DedicatedTo(core) = FlattenSeq(Copies(core))
      /\ Copies(core) \in Seq(Seq(1 .. n)) /\ DOMAIN Copies(core) = 1 .. n
  BY <1>1, DedicatedCopies
<1>3. /\ DedicatedTo(core) \in Seq(1 .. n)
      /\ \A x \in ToSet(DedicatedTo(core)) : \E p \in 1 .. n : x \in ToSet(Copies(core)[p])
  <2>1. 1 .. Len(Copies(core)) = 1 .. n
    BY <1>2
  <2>2. QED
    BY <1>2, <2>1, FlattenRange
<1>4. ASSUME NEW x \in ToSet(DedicatedTo(core)) PROVE Positions(x, core) # {}
  <2>1. PICK p \in 1 .. n : x \in ToSet(Copies(core)[p])
    BY <1>3
  <2>2. x = p /\ Positions(p, core) # {}
    BY <1>1, <2>1, CopiesOf
  <2>3. QED
    BY <2>2
<1>5. Others \in Seq(1 .. n) /\ \A x \in ToSet(Others) : x \notin Dedicated
  <2>1. PICK all : all = [p \in DOMAIN plugin |-> p]
    OBVIOUS
  <2>2. all \in Seq(1 .. n)
    BY <1>1, <2>1
  <2>3. Others = Chosen(all, DOMAIN plugin \ Dedicated)
    BY <2>1 DEF Others
  <2>4. QED
    BY <2>2, <2>3, ChosenRange
<1>6. Worker(core).plugins = DedicatedTo(core) \/ Worker(core).plugins = Others
  BY DEF Worker
<1>7. QED
  BY <1>1, <1>3, <1>4, <1>5, <1>6

\* A concatenation has what its parts have.
LEMMA ConcatHolds ==
  ASSUME NEW V, NEW s \in Seq(V), NEW t \in Seq(V), NEW x, x \in ToSet(s) \/ x \in ToSet(t)
  PROVE  x \in ToSet(s \o t)
<1>1. PICK u \in Seq(V) : u = s \o t
  BY ConcatProperties, Zenon
<1>2. /\ \A i \in 1 .. Len(s \o t) :
           \/ i \in DOMAIN s /\ (s \o t)[i] = s[i]
           \/ \E j \in DOMAIN t : i = Len(s) + j /\ (s \o t)[i] = t[j]
      /\ \A i \in DOMAIN s : i \in 1 .. Len(s \o t) /\ (s \o t)[i] = s[i]
      /\ \A j \in DOMAIN t : Len(s) + j \in 1 .. Len(s \o t) /\ (s \o t)[Len(s) + j] = t[j]
  BY ONLY ConcatPlaces, s \in Seq(V), t \in Seq(V)
<1>3. /\ \A i \in DOMAIN s : i \in 1 .. Len(u) /\ u[i] = s[i]
      /\ \A j \in DOMAIN t : Len(s) + j \in 1 .. Len(u) /\ u[Len(s) + j] = t[j]
  <2>1. s \o t = u
    BY <1>1
  <2>2. QED
    BY <1>2, <2>1
<1>4. DOMAIN u = 1 .. Len(u)
  OBVIOUS
<1>5. \E i \in DOMAIN u : u[i] = x
  BY <1>3, <1>4 DEF ToSet
<1>6. QED
  BY <1>1, <1>5 DEF ToSet

LEMMA FlattenHolds ==
  ASSUME NEW V, NEW ss \in Seq(Seq(V)), NEW p \in DOMAIN ss, NEW x, x \in ToSet(ss[p])
  PROVE  x \in ToSet(FlattenSeq(ss))
<1>1. PICK n \in Nat : n = Len(ss) /\ DOMAIN ss = 1 .. n
  OBVIOUS
<1>2. PICK f \in [0 .. n -> Seq(V)] :
        /\ f[0] = <<>> /\ FlattenSeq(ss) = f[n]
        /\ \A i \in 1 .. n : f[i] = f[i - 1] \o ss[i]
  BY <1>1, FlattenRec
<1> DEFINE S == {k \in 0 .. n : k >= p => x \in ToSet(f[k])}
<1>3. 0 \in S
  BY <1>1
<1>4. ASSUME NEW k \in Nat, k < n /\ k \in S PROVE k + 1 \in S
  <2>1. PICK i \in 1 .. n : i = k + 1
    BY <1>4
  <2>2. i - 1 = k /\ f[k] \in Seq(V) /\ ss[i] \in Seq(V)
    BY <1>1, <1>4, <2>1
  <2>3. f[i] = f[k] \o ss[i]
    BY <1>2, <2>2
  <2>4. i >= p => x \in ToSet(f[k]) \/ x \in ToSet(ss[i])
    BY <1>1, <1>4, <2>1
  <2>5. i >= p => x \in ToSet(f[i])
    <3>1. ASSUME i >= p PROVE x \in ToSet(f[k] \o ss[i])
      BY <2>2, <2>4, <3>1, ConcatHolds
    <3>2. QED
      BY <2>3, <3>1
  <2>6. QED
    BY <2>1, <2>5
<1>5. \A k \in 0 .. n : k \in S
  <2> HIDE DEF S
  <2>1. QED
    BY <1>3, <1>4, UpTo
<1>6. n \in 0 .. n /\ n >= p
  BY <1>1
<1>7. QED
  BY <1>2, <1>5, <1>6

\* A worker without plugins: none is for its core and none is for any worker.
LEMMA WorkerIdle ==
  ASSUME StartInv, NEW core, Worker(core).plugins = <<>>, NEW p \in DOMAIN plugin
  PROVE  ~ plugin[p].all_nondedicated_cores /\ core \notin ToSet(plugin[p].core_ids)
<1>1. PICK n \in Nat : n = Len(plugin) /\ DOMAIN plugin = 1 .. n
  BY PluginDomain
<1>2. DedicatedTo(core) = <<>> /\ Others = <<>>
  BY DEF Worker
<1>3. p \in Dedicated
  <2>1. PICK all : all = [q \in DOMAIN plugin |-> q]
    OBVIOUS
  <2>2. all \in Seq(1 .. n) /\ p \in ToSet(all)
    BY <1>1, <2>1 DEF ToSet
  <2>3. Others = Chosen(all, DOMAIN plugin \ Dedicated)
    BY <2>1 DEF Others
  <2>4. ToSet(<<>>) = ToSet(all) \cap (DOMAIN plugin \ Dedicated)
    BY <1>2, <2>2, <2>3, ChosenRange
  <2>5. QED
    BY <2>2, <2>4 DEF ToSet
<1>4. core \notin ToSet(plugin[p].core_ids)
  <2> SUFFICES ASSUME core \in ToSet(plugin[p].core_ids) PROVE FALSE
    OBVIOUS
  <2>1. PICK m \in Nat : DOMAIN plugin[p].core_ids = 1 .. m
    BY DEF StartInv, PluginInv, PluginOK
  <2>2. Positions(p, core) # {} /\ Positions(p, core) \in SUBSET (1 .. m)
    BY <2>1 DEF Positions, ToSet
  <2>3. IsFiniteSet(Positions(p, core))
    BY <2>1, <2>2, FS_Interval, FS_Subset
  <2>4. PICK c \in Nat : c = Cardinality(Positions(p, core)) /\ c # 0
    BY <2>2, <2>3, FS_CardinalityType, FS_EmptySet
  <2>5. Copies(core)[p] = [i \in 1 .. c |-> p]
    BY <1>3, <2>4 DEF Copies
  <2>6. p \in ToSet(Copies(core)[p])
    BY <2>4, <2>5 DEF ToSet
  <2>7. p \in ToSet(FlattenSeq(Copies(core)))
    BY <2>6, DedicatedCopies, FlattenHolds
  <2>8. p \in ToSet(<<>>)
    BY <1>2, <2>7, DedicatedCopies
  <2>9. QED
    BY <2>8 DEF ToSet
<1>5. QED
  BY <1>3, <1>4 DEF Dedicated

\* A plugin that is given a core once is copied once to the worker there.
LEMMA DedicatedOnce ==
  ASSUME StartInv, NEW core, NEW p \in Dedicated, NEW i, Positions(p, core) = {i}
  PROVE  OnceIn(DedicatedTo(core), p)
<1>1. p \in DOMAIN plugin
  BY DEF Dedicated
<1>2. Copies(core)[p] = [k \in 1 .. 1 |-> p]
  BY <1>1, FS_Singleton DEF Copies
<1>3. OnceIn(Copies(core)[p], p)
  BY <1>2 DEF OnceIn
<1>4. OnceAt(Copies(core), p, p)
  <2>1. ASSUME NEW q \in DOMAIN plugin, q # p PROVE p \notin ToSet(Copies(core)[q])
    BY <2>1, CopiesOf
  <2>2. DOMAIN Copies(core) = DOMAIN plugin
    BY DedicatedCopies
  <2>3. QED
    BY <1>3, <2>1, <2>2, Zenon DEF OnceAt
<1>5. QED
  BY <1>1, <1>4, DedicatedCopies, FlattenOnce

\* Who polls the rings of a plugin for its i-th core: the worker on that core, with
\* that plugin.
ReadAt(p, i, w) ==
  \A m \in 1 .. nb_masters, v \in DOMAIN worker_cores, q \in DOMAIN plugin :
    ring_rxs[<<q, worker_cores[v], m>>] = <<p, i, m>> <=> q = p /\ v = w

LEMMA RingReader ==
  ASSUME StartInv, pc = "running", Distinct(worker_cores),
         NEW p \in Dedicated, Distinct(plugin[p].core_ids),
         NEW i \in DOMAIN plugin[p].core_ids,
         NEW w \in DOMAIN worker_cores, worker_cores[w] = plugin[p].core_ids[i]
  PROVE  ReadAt(p, i, w)
<1> SUFFICES ASSUME NEW m \in 1 .. nb_masters, NEW v \in DOMAIN worker_cores,
                    NEW q \in DOMAIN plugin
             PROVE  ring_rxs[<<q, worker_cores[v], m>>] = <<p, i, m>> <=> q = p /\ v = w
  BY DEF ReadAt
<1>1. PICK c : c = worker_cores[v]
  OBVIOUS
<1>2. PICK ids \in Seq(Int) : ids = plugin[p].core_ids
  BY DEF Dedicated, StartInv, PluginInv, PluginOK
<1>3. c \in AllCores
  <2>1. c \in ToSet(worker_cores)
    BY <1>1 DEF ToSet
  <2>2. QED
    BY <2>1 DEF AllCores
<1>4. ring_rxs[<<q, c, m>>] = RingOf(q, c, m)
  BY <1>3 DEF StartInv, RingsInv, RingTable
<1>5. ASSUME RingOf(q, c, m) = <<p, i, m>> PROVE q = p /\ v = w
  <2>1. <<p, i, m>> # NoRing
    BY DEF NoRing
  <2>2. q \in Dedicated /\ Positions(q, c) # {} /\ <<q, Max(Positions(q, c)), m>> = <<p, i, m>>
    BY <1>5, <2>1 DEF RingOf
  <2>3. q = p /\ Max(Positions(p, c)) = i
    BY <2>2
  <2>4. PICK k \in Positions(p, c) : TRUE
    BY <2>2, <2>3
  <2>5. k \in DOMAIN ids /\ ids[k] = c /\ k \in Nat
    BY <1>2, <2>4 DEF Positions
  <2>6. Positions(p, c) = {k}
    BY <1>2, <2>5 DEF Positions, Distinct
  <2>7. Max({k}) = k
    BY <2>5 DEF Max
  <2>8. ids[i] = c
    BY <2>3, <2>5, <2>6, <2>7
  <2>9. worker_cores[v] = worker_cores[w]
    BY <1>1, <1>2, <2>8
  <2>10. QED
    BY <2>3, <2>9 DEF Distinct
<1>6. ASSUME q = p, v = w PROVE RingOf(q, c, m) = <<p, i, m>>
  <2>1. c = ids[i] /\ i \in DOMAIN ids /\ i \in Nat
    BY <1>1, <1>2, <1>6
  <2>2. Positions(p, c) = {i}
    BY <1>2, <2>1 DEF Positions, Distinct
  <2>3. Max({i}) = i
    BY <2>1 DEF Max
  <2>4. QED
    BY <1>6, <2>2, <2>3 DEF RingOf
<1>7. QED
  BY <1>1, <1>4, <1>5, <1>6

\* logcollector.c, assign_plugins_to_workers and the rings: with distinct cores, every
\* ring of a plugin on cores of workers is polled by one worker, for one plugin.
THEOREM RingsHaveOneReader == Spec => []OneReader
<1>1. StartInv => OneReader
  <2> SUFFICES ASSUME StartInv, pc = "running", Distinct(worker_cores), NEW p \in Dedicated,
                      Distinct(plugin[p].core_ids),
                      ToSet(plugin[p].core_ids) \subseteq ToSet(worker_cores),
                      NEW r \in MadeRings, r[1] = p
               PROVE  Cardinality(Readers(r)) = 1
    BY Zenon DEF OneReader
  <2>1. PICK ids \in Seq(Int) : ids = plugin[p].core_ids
    BY DEF Dedicated, StartInv, PluginInv, PluginOK
  <2>2. PICK i \in DOMAIN ids, m \in 1 .. nb_masters : r = <<p, i, m>>
    <3>1. PICK q \in Dedicated : r \in {q} \X (DOMAIN plugin[q].core_ids) \X (1 .. nb_masters)
      BY DEF MadeRings
    <3>2. q = p
      BY <3>1
    <3>3. QED
      BY <2>1, <3>1, <3>2
  <2>3. PICK w \in DOMAIN worker_cores : worker_cores[w] = ids[i]
    BY <2>1, <2>2 DEF ToSet
  <2>4. workers = WorkerTable
    BY DEF StartInv, WorkersInv
  <2>5. \A v \in DOMAIN worker_cores : /\ workers[v] = Worker(worker_cores[v])
                                       /\ workers[v].core = worker_cores[v]
                                       /\ workers[v].plugins \in Seq(DOMAIN plugin)
    BY <2>4, WorkerPlugins DEF WorkerTable, Worker
  <2>6. DOMAIN workers = DOMAIN worker_cores
    BY <2>4 DEF WorkerTable
  <2>7. Positions(p, ids[i]) = {i}
    BY <2>1, <2>2 DEF Positions, Distinct
  <2>8. OnceIn(DedicatedTo(ids[i]), p)
    BY <2>7, DedicatedOnce
  <2>9. workers[w].plugins = DedicatedTo(ids[i])
    <3>1. DedicatedTo(ids[i]) # <<>>
      BY <2>8 DEF OnceIn
    <3>2. Worker(ids[i]).plugins = DedicatedTo(ids[i])
      BY <3>1 DEF Worker
    <3>3. workers[w] = Worker(ids[i])
      BY <2>3, <2>5
    <3>4. QED
      BY <3>2, <3>3
  <2>10. PICK j \in DOMAIN workers[w].plugins :
           /\ workers[w].plugins[j] = p
           /\ \A k \in DOMAIN workers[w].plugins : workers[w].plugins[k] = p => k = j
    BY <2>8, <2>9 DEF OnceIn
  <2>11. ReadAt(p, i, w)
    <3>1. i \in DOMAIN plugin[p].core_ids /\ worker_cores[w] = plugin[p].core_ids[i]
      BY <2>1, <2>2, <2>3
    <3>2. QED
      BY <3>1, RingReader
  <2>12. ASSUME NEW v \in DOMAIN workers, NEW k \in DOMAIN workers[v].plugins
         PROVE  ring_rxs[<<workers[v].plugins[k], workers[v].core, r[3]>>] = r
                  <=> <<v, k>> = <<w, j>>
    <3>1. PICK q \in DOMAIN plugin : q = workers[v].plugins[k]
      BY <2>5, <2>6
    <3>2. r[3] = m /\ workers[v].core = worker_cores[v]
      BY <2>2, <2>5, <2>6
    <3>3. ring_rxs[<<q, worker_cores[v], m>>] = <<p, i, m>> <=> q = p /\ v = w
      BY <2>6, <2>11 DEF ReadAt
    <3>4. q = p /\ v = w <=> v = w /\ k = j
      BY <2>10, <3>1
    <3>5. QED
      BY <2>2, <3>1, <3>2, <3>3, <3>4
  <2>13. Readers(r) = {<<w, j>>}
    <3>1. ASSUME NEW x \in Readers(r) PROVE x = <<w, j>>
      <4>1. PICK v \in DOMAIN workers : x \in {v} \X DOMAIN workers[v].plugins
        BY DEF Readers
      <4>2. PICK k \in DOMAIN workers[v].plugins : x = <<v, k>>
        BY <4>1
      <4>3. ring_rxs[<<workers[v].plugins[k], workers[v].core, r[3]>>] = r
        BY <4>2 DEF Readers
      <4>4. QED
        BY <2>12, <4>2, <4>3
    <3>2. <<w, j>> \in Readers(r)
      <4>1. ring_rxs[<<workers[w].plugins[j], workers[w].core, r[3]>>] = r
        BY <2>6, <2>10, <2>12
      <4>2. PICK z : z = <<w, j>>
        OBVIOUS
      <4>3. w \in DOMAIN workers /\ z \in {w} \X DOMAIN workers[w].plugins
        BY <2>6, <4>2
      <4>4. z[1] = w /\ z[2] = j
        BY <4>2
      <4>5. z \in UNION {{v} \X DOMAIN workers[v].plugins : v \in DOMAIN workers}
        BY <4>3
      <4>6. z \in Readers(r)
        BY <4>1, <4>4, <4>5 DEF Readers
      <4>7. QED
        BY <4>2, <4>6
    <3>3. QED
      BY <3>1, <3>2
  <2>14. QED
    BY <2>13, FS_Singleton
<1>2. QED
  BY <1>1, StartInvariant, PTL

-----------------------------------------------------------------------------
(* The roles of the cores.                                                 *)

\* In an array of cores, the cores s with a role follow the first from ones.
Held(conf, from, s, role) ==
  \A i \in DOMAIN s : conf[from + i].core = s[i] /\ conf[from + i].role = role
Tagged(cores, role) == [i \in DOMAIN cores |-> [core |-> cores[i], role |-> role]]

LEMMA TaggedFacts ==
  ASSUME NEW cores \in Seq(Int), NEW role \in Roles
  PROVE  /\ Tagged(cores, role) \in Seq(CoreSet) /\ Len(Tagged(cores, role)) = Len(cores)
         /\ \A i \in 1 .. Len(cores) : /\ Tagged(cores, role)[i].core = cores[i]
                                       /\ Tagged(cores, role)[i].role = role
<1>1. PICK n \in Nat : n = Len(cores) /\ DOMAIN cores = 1 .. n
  OBVIOUS
<1>2. PICK t : t = Tagged(cores, role)
  OBVIOUS
<1>3. t = [i \in 1 .. n |-> [core |-> cores[i], role |-> role]]
  BY <1>1, <1>2 DEF Tagged
<1>4. \A i \in 1 .. n : cores[i] \in Int
  BY <1>1
<1>5. t \in [1 .. n -> CoreSet]
  BY <1>3, <1>4 DEF CoreSet
<1>6. t \in Seq(CoreSet) /\ Len(t) = n
  BY <1>5
<1>7. \A i \in 1 .. n : t[i].core = cores[i] /\ t[i].role = role
  BY <1>3
<1>8. QED
  BY <1>1, <1>2, <1>6, <1>7

\* More cores at the end of the array.
LEMMA HeldKept ==
  ASSUME NEW conf \in Seq(CoreSet), NEW t \in Seq(CoreSet), NEW from \in Nat,
         NEW s \in Seq(Int), NEW role, Held(conf, from, s, role), from + Len(s) <= Len(conf)
  PROVE  Held(conf \o t, from, s, role)
<1>1. PICK n \in Nat : n = Len(conf)
  OBVIOUS
<1>2. PICK m \in Nat : m = Len(s) /\ DOMAIN s = 1 .. m
  OBVIOUS
<1>3. from + m <= n
  BY <1>1, <1>2
<1>4. ASSUME NEW i \in DOMAIN s PROVE (conf \o t)[from + i] = conf[from + i]
  <2>1. PICK k \in 1 .. n : k = from + i
    BY <1>2, <1>3
  <2>2. (conf \o t)[k] = conf[k]
    BY <1>1, <2>1
  <2>3. QED
    BY <2>1, <2>2
<1>5. QED
  BY <1>4, Zenon DEF Held

LEMMA LenConcat ==
  ASSUME NEW A, NEW s \in Seq(A), NEW t \in Seq(A)
  PROVE  Len(s \o t) = Len(s) + Len(t)
OBVIOUS

LEMMA HeldMore ==
  ASSUME NEW conf \in Seq(CoreSet), NEW cores \in Seq(Int), NEW role \in Roles,
         NEW from \in Nat, NEW s \in Seq(Int), Held(conf, from, s, role),
         from + Len(s) = Len(conf)
  PROVE  /\ Held(conf \o Tagged(cores, role), from, s \o cores, role)
         /\ Len(conf \o Tagged(cores, role)) = Len(conf) + Len(cores)
<1>1. PICK n \in Nat : n = Len(conf)
  OBVIOUS
<1>2. PICK m \in Nat : m = Len(s) /\ DOMAIN s = 1 .. m
  OBVIOUS
<1>3. PICK d \in Nat : d = Len(cores) /\ DOMAIN cores = 1 .. d
  OBVIOUS
<1>4. PICK t : t = Tagged(cores, role)
  OBVIOUS
<1>5. t \in Seq(CoreSet) /\ Len(t) = d
  BY <1>3, <1>4, TaggedFacts
<1>6. \A i \in 1 .. d : t[i].core = cores[i] /\ t[i].role = role
  BY <1>3, <1>4, TaggedFacts
<1>7. PICK u : u = s \o cores
  OBVIOUS
<1>8. u \in Seq(Int) /\ DOMAIN u = 1 .. m + d
  BY <1>2, <1>3, <1>7
<1>9. from + m = n
  BY <1>1, <1>2
<1>10. ASSUME NEW i \in 1 .. m + d
       PROVE  (conf \o t)[from + i].core = u[i] /\ (conf \o t)[from + i].role = role
  <2>1. PICK k \in 1 .. n + d : k = from + i
    BY <1>9
  <2>2. CASE i <= m
    <3>1. k \in 1 .. n /\ i \in 1 .. m
      BY <1>9, <2>1, <2>2
    <3>2. (conf \o t)[k] = conf[k]
      BY <1>1, <1>5, <3>1
    <3>3. u[i] = s[i]
      BY <1>2, <1>3, <1>7, <3>1
    <3>4. conf[k].core = s[i] /\ conf[k].role = role
      BY <1>2, <2>1, <3>1, Zenon DEF Held
    <3>5. QED
      BY <2>1, <3>2, <3>3, <3>4
  <2>3. CASE ~ (i <= m)
    <3>1. PICK j \in 1 .. d : j = i - m
      BY <2>3
    <3>2. k = n + j /\ i = m + j
      BY <1>9, <2>1, <3>1
    <3>3. (conf \o t)[n + j] = t[j]
      BY <1>1, <1>5
    <3>4. u[m + j] = cores[j]
      BY <1>2, <1>3, <1>7
    <3>5. QED
      BY <1>6, <2>1, <3>2, <3>3, <3>4
  <2>4. QED
    BY <2>2, <2>3
<1>11. Held(conf \o t, from, u, role)
  BY <1>8, <1>10, Zenon DEF Held
<1>12. Len(conf \o t) = n + d
  <2>1. Len(conf \o t) = Len(conf) + Len(t)
    BY <1>5, LenConcat, Zenon
  <2>2. QED
    BY <1>1, <1>5, <2>1, Zenon
<1>13. QED
  BY <1>1, <1>3, <1>4, <1>7, <1>11, <1>12

\* The array holds the roles one after the other.
RolesAre(conf, S, M, C) ==
  /\ Len(conf) = Len(S) + Len(M) + Len(C)
  /\ Held(conf, 0, S, "s") /\ Held(conf, Len(S), M, "m") /\ Held(conf, Len(S) + Len(M), C, "c")

\* Then its slices are the cores of the roles.
LEMMA ThreeSlices ==
  ASSUME core_conf \in Seq(CoreSet), NEW S \in Seq(Int), NEW M \in Seq(Int),
         NEW C \in Seq(Int), RolesAre(core_conf, S, M, C)
  PROVE  receiver_cores = S /\ master_cores = M /\ worker_cores = C
<1>1. PICK a \in Nat : a = Len(S) /\ DOMAIN S = 1 .. a
  OBVIOUS
<1>2. PICK b \in Nat : b = Len(M) /\ DOMAIN M = 1 .. b
  OBVIOUS
<1>3. PICK c \in Nat : c = Len(C) /\ DOMAIN C = 1 .. c
  OBVIOUS
<1>4. PICK conf : conf = core_conf
  OBVIOUS
<1>5. DOMAIN conf = 1 .. (a + b) + c
  BY <1>1, <1>2, <1>3, <1>4 DEF RolesAre
<1>6. /\ \A i \in 1 .. a : conf[0 + i].core = S[i] /\ conf[0 + i].role = "s"
      /\ \A i \in 1 .. b : conf[a + i].core = M[i] /\ conf[a + i].role = "m"
      /\ \A i \in 1 .. c : conf[(a + b) + i].core = C[i] /\ conf[(a + b) + i].role = "c"
  BY <1>1, <1>2, <1>3, <1>4, Zenon DEF RolesAre, Held
<1>7. ASSUME NEW i \in 1 .. (a + b) + c
      PROVE  \/ i \in 1 .. a /\ conf[i].role = "s"
             \/ i \in a + 1 .. a + b /\ conf[i].role = "m"
             \/ i \in (a + b) + 1 .. (a + b) + c /\ conf[i].role = "c"
  <2>1. CASE i <= a
    <3>1. i \in 1 .. a /\ 0 + i = i
      BY <2>1
    <3>2. conf[0 + i].role = "s"
      BY <1>6, <3>1, Zenon
    <3>3. QED
      BY <3>1, <3>2
  <2>2. CASE a < i /\ i <= a + b
    <3>1. PICK k \in 1 .. b : i = a + k
      BY <2>2
    <3>2. conf[a + k].role = "m"
      BY <1>6, Zenon
    <3>3. QED
      BY <2>2, <3>1, <3>2
  <2>3. CASE a + b < i
    <3>1. PICK k \in 1 .. c : i = (a + b) + k
      BY <2>3
    <3>2. conf[(a + b) + k].role = "c"
      BY <1>6, Zenon
    <3>3. QED
      BY <2>3, <3>1, <3>2
  <2>4. QED
    BY <2>1, <2>2, <2>3
<1>8. nb_receivers = a /\ nb_masters = b /\ nb_slaves = c
  <2> DEFINE R(role) == {i \in DOMAIN conf : conf[i].role = role}
  <2>1. R("s") = 1 .. a
    <3>1. ASSUME NEW i \in R("s") PROVE i \in 1 .. a
      BY <1>5, <1>7
    <3>2. ASSUME NEW i \in 1 .. a PROVE i \in R("s")
      <4>1. i \in 1 .. (a + b) + c /\ i \notin a + 1 .. a + b
              /\ i \notin (a + b) + 1 .. (a + b) + c
        OBVIOUS
      <4>2. QED
        BY <1>5, <1>7, <4>1, Zenon
    <3>3. QED
      BY <3>1, <3>2, Zenon
  <2>2. R("m") = a + 1 .. a + b
    <3>1. ASSUME NEW i \in R("m") PROVE i \in a + 1 .. a + b
      BY <1>5, <1>7
    <3>2. ASSUME NEW i \in a + 1 .. a + b PROVE i \in R("m")
      <4>1. PICK k \in 1 .. b : i = a + k
        OBVIOUS
      <4>2. i \in 1 .. (a + b) + c
        OBVIOUS
      <4>3. QED
        BY <1>5, <1>6, <4>1, <4>2, Zenon
    <3>3. QED
      BY <3>1, <3>2, Zenon
  <2>3. R("c") = (a + b) + 1 .. (a + b) + c
    <3>1. ASSUME NEW i \in R("c") PROVE i \in (a + b) + 1 .. (a + b) + c
      BY <1>5, <1>7
    <3>2. ASSUME NEW i \in (a + b) + 1 .. (a + b) + c PROVE i \in R("c")
      <4>1. PICK k \in 1 .. c : i = (a + b) + k
        OBVIOUS
      <4>2. i \in 1 .. (a + b) + c
        OBVIOUS
      <4>3. QED
        BY <1>5, <1>6, <4>1, <4>2, Zenon
    <3>3. QED
      BY <3>1, <3>2, Zenon
  <2>4. Cardinality(1 .. a) = a
    BY FS_Interval
  <2>5. Cardinality(a + 1 .. a + b) = b
    BY FS_Interval
  <2>6. Cardinality((a + b) + 1 .. (a + b) + c) = c
    BY FS_Interval
  <2>7. /\ nb_receivers = Cardinality(R("s")) /\ nb_masters = Cardinality(R("m"))
        /\ nb_slaves = Cardinality(R("c"))
    BY <1>4, Zenon DEF nb_receivers, nb_masters, nb_slaves, CountOf
  <2>8. QED
    BY <2>1, <2>2, <2>3, <2>4, <2>5, <2>6, <2>7
<1>9. S = [i \in 1 .. a |-> S[i]] /\ M = [i \in 1 .. b |-> M[i]] /\ C = [i \in 1 .. c |-> C[i]]
  BY <1>1, <1>2, <1>3
<1>10. receiver_cores = S
  <2>1. receiver_cores = [i \in 1 .. a |-> conf[0 + i].core]
    BY <1>4, <1>8, Zenon DEF receiver_cores, Slice
  <2>2. QED
    BY <1>6, <1>9, <2>1, Zenon
<1>11. master_cores = M
  <2>1. master_cores = [i \in 1 .. b |-> conf[a + i].core]
    BY <1>4, <1>8, Zenon DEF master_cores, Slice
  <2>2. QED
    BY <1>6, <1>9, <2>1, Zenon
<1>12. worker_cores = C
  <2>1. worker_cores = [i \in 1 .. c |-> conf[(a + b) + i].core]
    BY <1>4, <1>8, Zenon DEF worker_cores, Slice
  <2>2. QED
    BY <1>6, <1>9, <2>1, Zenon
<1>13. QED
  BY <1>10, <1>11, <1>12

LEMMA MoreReceivers ==
  ASSUME NEW conf \in Seq(CoreSet), NEW S \in Seq(Int), NEW cores \in Seq(Int),
         RolesAre(conf, S, <<>>, <<>>)
  PROVE  RolesAre(conf \o Tagged(cores, "s"), S \o cores, <<>>, <<>>)
<1>1. Held(conf, 0, S, "s") /\ 0 + Len(S) = Len(conf)
  BY DEF RolesAre
<1>2. /\ Held(conf \o Tagged(cores, "s"), 0, S \o cores, "s")
      /\ Len(conf \o Tagged(cores, "s")) = Len(conf) + Len(cores)
  <2>1. "s" \in Roles /\ 0 \in Nat
    BY DEF Roles
  <2>2. QED
    BY <1>1, <2>1, HeldMore, Zenon
<1>3. PICK new, T : new = conf \o Tagged(cores, "s") /\ T = S \o cores
  OBVIOUS
<1>4. Len(T) = Len(S) + Len(cores) /\ Len(T) \in Nat
  BY <1>3, LenConcat
<1>5. Len(new) = Len(T) + 0 + 0
  BY <1>1, <1>2, <1>3, <1>4
<1>6. Held(new, Len(T), <<>>, "m") /\ Held(new, Len(T) + 0, <<>>, "c")
  BY DEF Held
<1>7. RolesAre(new, T, <<>>, <<>>)
  BY <1>2, <1>3, <1>5, <1>6 DEF RolesAre
<1>8. QED
  BY <1>3, <1>7

LEMMA MoreMasters ==
  ASSUME NEW conf \in Seq(CoreSet), NEW S \in Seq(Int), NEW M \in Seq(Int),
         NEW cores \in Seq(Int), RolesAre(conf, S, M, <<>>)
  PROVE  RolesAre(conf \o Tagged(cores, "m"), S, M \o cores, <<>>)
<1>1. PICK a \in Nat : a = Len(S)
  OBVIOUS
<1>2. Held(conf, 0, S, "s") /\ Held(conf, a, M, "m") /\ a + Len(M) = Len(conf)
  BY <1>1 DEF RolesAre
<1>3. PICK t \in Seq(CoreSet) : t = Tagged(cores, "m")
  <2>1. "m" \in Roles
    BY DEF Roles
  <2>2. QED
    BY <2>1, TaggedFacts, Zenon
<1>4. Held(conf \o t, 0, S, "s")
  <2>1. 0 + Len(S) <= Len(conf)
    BY <1>1, <1>2
  <2>2. QED
    BY <1>2, <2>1, HeldKept
<1>5. Held(conf \o t, a, M \o cores, "m") /\ Len(conf \o t) = Len(conf) + Len(cores)
  <2>1. "m" \in Roles
    BY DEF Roles
  <2>2. QED
    BY <1>2, <1>3, <2>1, HeldMore, Zenon
<1>6. PICK new, T : new = conf \o t /\ T = M \o cores
  OBVIOUS
<1>7. Len(T) = Len(M) + Len(cores)
  BY <1>6, LenConcat
<1>8. Len(new) = Len(S) + Len(T) + 0
  <2>1. PICK m \in Nat, d \in Nat : m = Len(M) /\ d = Len(cores)
    OBVIOUS
  <2>2. Len(new) = (a + m) + d /\ Len(T) = m + d
    BY <1>2, <1>5, <1>6, <1>7, <2>1, Zenon
  <2>3. QED
    BY ONLY <1>1, <2>1, <2>2
<1>9. Held(new, Len(S) + Len(T), <<>>, "c")
  BY DEF Held
<1>10. RolesAre(new, S, T, <<>>)
  BY <1>1, <1>4, <1>5, <1>6, <1>8, <1>9 DEF RolesAre
<1>11. QED
  BY <1>3, <1>6, <1>10

LEMMA MoreWorkers ==
  ASSUME NEW conf \in Seq(CoreSet), NEW S \in Seq(Int), NEW M \in Seq(Int),
         NEW C \in Seq(Int), NEW cores \in Seq(Int), RolesAre(conf, S, M, C)
  PROVE  RolesAre(conf \o Tagged(cores, "c"), S, M, C \o cores)
<1>1. PICK a \in Nat, b \in Nat, c \in Nat : a = Len(S) /\ b = Len(M) /\ c = Len(C)
  OBVIOUS
<1>2. /\ Held(conf, 0, S, "s") /\ Held(conf, a, M, "m") /\ Held(conf, a + b, C, "c")
      /\ Len(conf) = (a + b) + c
  BY <1>1 DEF RolesAre
<1>3. PICK t \in Seq(CoreSet) : t = Tagged(cores, "c")
  <2>1. "c" \in Roles
    BY DEF Roles
  <2>2. QED
    BY <2>1, TaggedFacts, Zenon
<1>4. Held(conf \o t, 0, S, "s")
  <2>1. 0 + Len(S) <= Len(conf)
    BY <1>1, <1>2
  <2>2. QED
    BY <1>2, <2>1, HeldKept
<1>5. Held(conf \o t, a, M, "m")
  <2>1. a + Len(M) <= Len(conf)
    BY <1>1, <1>2
  <2>2. QED
    BY <1>2, <2>1, HeldKept
<1>6. Held(conf \o t, a + b, C \o cores, "c") /\ Len(conf \o t) = Len(conf) + Len(cores)
  <2>1. a + b + Len(C) = Len(conf) /\ a + b \in Nat /\ "c" \in Roles
    BY <1>1, <1>2 DEF Roles
  <2>2. QED
    BY <1>2, <1>3, <2>1, HeldMore, Zenon
<1>7. PICK new, T : new = conf \o t /\ T = C \o cores
  OBVIOUS
<1>8. Len(T) = Len(C) + Len(cores)
  BY <1>7, LenConcat
<1>9. Len(new) = Len(S) + Len(M) + Len(T)
  BY <1>1, <1>2, <1>6, <1>7, <1>8
<1>10. RolesAre(new, S, M, T)
  BY <1>1, <1>4, <1>5, <1>6, <1>7, <1>9 DEF RolesAre
<1>11. QED
  BY <1>3, <1>7, <1>10

\* The cores that the first options give to a role.
Pieces(opts, role) ==
  [i \in DOMAIN opts |-> IF opts[i].opt = role THEN opts[i].cores ELSE <<>>]
Grows(f, opts, role) ==
  /\ f \in [0 .. Len(opts) -> Seq(Int)]
  /\ f[0] = <<>> /\ f[Len(opts)] = FlattenSeq(Pieces(opts, role))
  /\ \A i \in 1 .. Len(opts) : f[i] = f[i - 1] \o Pieces(opts, role)[i]
Grown(opts, role) == CHOOSE f : Grows(f, opts, role)

LEMMA GrownGrows ==
  ASSUME NEW opts \in Seq(OptionSet), NEW role
  PROVE  Grows(Grown(opts, role), opts, role)
<1>1. PICK n \in Nat : n = Len(opts) /\ DOMAIN opts = 1 .. n
  OBVIOUS
<1>2. PICK ss : ss = Pieces(opts, role)
  OBVIOUS
<1>3. ss = [i \in 1 .. n |-> IF opts[i].opt = role THEN opts[i].cores ELSE <<>>]
  BY <1>1, <1>2 DEF Pieces
<1>4. ASSUME NEW i \in 1 .. n
      PROVE  (IF opts[i].opt = role THEN opts[i].cores ELSE <<>>) \in Seq(Int)
  <2>1. opts[i] \in OptionSet
    BY <1>1
  <2>2. QED
    BY <2>1 DEF OptionSet
<1>5. ss \in [1 .. n -> Seq(Int)]
  BY <1>3, <1>4
<1>6. ss \in Seq(Seq(Int)) /\ Len(ss) = n
  BY <1>5
<1>7. PICK f \in [0 .. Len(ss) -> Seq(Int)] :
         /\ f[0] = <<>> /\ FlattenSeq(ss) = f[Len(ss)]
         /\ \A i \in 1 .. Len(ss) : f[i] = f[i - 1] \o ss[i]
  BY <1>6, FlattenRec
<1>8. Grows(f, opts, role)
  BY <1>1, <1>2, <1>6, <1>7 DEF Grows
<1>9. QED
  BY <1>8 DEF Grown

LEMMA GrownRound ==
  ASSUME NEW opts \in Seq(OptionSet), NEW role, NEW i \in 1 .. Len(opts)
  PROVE  /\ Grown(opts, role)[i - 1] \in Seq(Int) /\ Grown(opts, role)[i] \in Seq(Int)
         /\ opts[i].opt = role
              => Grown(opts, role)[i] = Grown(opts, role)[i - 1] \o opts[i].cores
         /\ opts[i].opt # role => Grown(opts, role)[i] = Grown(opts, role)[i - 1]
<1>1. PICK n \in Nat : n = Len(opts) /\ DOMAIN opts = 1 .. n
  OBVIOUS
<1>2. PICK f : f = Grown(opts, role)
  OBVIOUS
<1>3. /\ f \in [0 .. n -> Seq(Int)]
      /\ \A k \in 1 .. n : f[k] = f[k - 1] \o Pieces(opts, role)[k]
  BY <1>1, <1>2, GrownGrows DEF Grows
<1>4. PICK h \in 0 .. n : h = i - 1
  BY <1>1
<1>5. i \in 1 .. n /\ i \in 0 .. n
  BY <1>1
<1>6. f[h] \in Seq(Int) /\ f[i] \in Seq(Int)
  BY <1>3, <1>5
<1>7. f[i] = f[h] \o Pieces(opts, role)[i]
  BY <1>3, <1>4, <1>5
<1>8. Pieces(opts, role)[i] = IF opts[i].opt = role THEN opts[i].cores ELSE <<>>
  BY <1>1, <1>5 DEF Pieces
<1>9. PICK s \in Seq(Int) : s = f[h]
  BY <1>6
<1>10. s \o <<>> = s
  OBVIOUS
<1>11. QED
  BY <1>2, <1>4, <1>6, <1>7, <1>8, <1>9, <1>10, Zenon

LEMMA GrownEmpty ==
  ASSUME NEW opts \in Seq(OptionSet), NEW role, NEW k \in 0 .. Len(opts),
         \A i \in 1 .. k : opts[i].opt # role
  PROVE  Grown(opts, role)[k] = <<>>
<1>1. PICK n \in Nat : n = Len(opts)
  OBVIOUS
<1>2. k \in Nat /\ k \in 0 .. k /\ k <= n
  BY <1>1
<1> DEFINE S == {j \in Nat : Grown(opts, role)[j] = <<>>}
<1>3. 0 \in S
  BY GrownGrows DEF Grows
<1>4. ASSUME NEW j \in Nat, j < k /\ j \in S PROVE j + 1 \in S
  <2>1. PICK i \in 1 .. k : i = j + 1 /\ i - 1 = j
    BY <1>2, <1>4
  <2>2. i \in 1 .. Len(opts)
    BY <1>1, <1>2
  <2>3. Grown(opts, role)[i] = Grown(opts, role)[i - 1]
    BY <2>2, GrownRound
  <2>4. QED
    BY <1>4, <2>1, <2>3
<1>5. \A j \in 0 .. k : j \in S
  <2> HIDE DEF S
  <2>1. QED
    BY <1>2, <1>3, <1>4, UpTo
<1>6. QED
  BY <1>2, <1>5

\* The options of the roles come in the order receivers, masters, workers.
Ordered(opts) ==
  \A i, j \in DOMAIN opts :
    i < j => <<opts[i].opt, opts[j].opt>> \notin {<<"m", "s">>, <<"c", "s">>, <<"c", "m">>}
\* The array holds what the first k options give.
RolesUpTo(conf, opts, k) ==
  RolesAre(conf, Grown(opts, "s")[k], Grown(opts, "m")[k], Grown(opts, "c")[k])
\* What reading an option makes of the array.
ReadInto(conf, o) == IF o.opt \in Roles THEN conf \o Tagged(o.cores, o.opt) ELSE conf

\* No option of a later role comes before one of this role.
LEMMA LaterEmpty ==
  ASSUME NEW opts \in Seq(OptionSet), Ordered(opts), NEW i \in 1 .. Len(opts),
         NEW role, <<role, opts[i].opt>> \in {<<"m", "s">>, <<"c", "s">>, <<"c", "m">>}
  PROVE  Grown(opts, role)[i - 1] = <<>> /\ Grown(opts, role)[i] = <<>>
<1>1. PICK n \in Nat : n = Len(opts) /\ DOMAIN opts = 1 .. n
  OBVIOUS
<1>2. ASSUME NEW j \in 1 .. n, j <= i, opts[j].opt = role PROVE FALSE
  <2>1. j # i
    BY <1>2
  <2>2. j < i /\ i \in 1 .. n
    BY <1>1, <1>2, <2>1
  <2>3. QED
    BY <1>1, <1>2, <2>2, Zenon DEF Ordered
<1>3. PICK h \in 0 .. n : h = i - 1
  BY <1>1
<1>4. i \in 0 .. n /\ \A j \in 1 .. i : opts[j].opt # role
  BY <1>1, <1>2
<1>5. \A j \in 1 .. h : opts[j].opt # role
  BY <1>1, <1>3, <1>4
<1>6. QED
  BY <1>1, <1>3, <1>4, <1>5, GrownEmpty

LEMMA RolesMore ==
  ASSUME NEW opts \in Seq(OptionSet), Ordered(opts), NEW i \in 1 .. Len(opts),
         NEW conf \in Seq(CoreSet), RolesUpTo(conf, opts, i - 1)
  PROVE  RolesUpTo(ReadInto(conf, opts[i]), opts, i)
<1>1. PICK h : h = i - 1
  OBVIOUS
<1>2. PICK o : o = opts[i]
  OBVIOUS
<1>3. o.cores \in Seq(Int)
  <2>1. o \in OptionSet
    BY <1>2
  <2>2. QED
    BY <2>1 DEF OptionSet
<1>4. PICK s : s = [role \in Roles |-> Grown(opts, role)[h]]
  OBVIOUS
<1>5. PICK t : t = [role \in Roles |-> Grown(opts, role)[i]]
  OBVIOUS
<1>6. ASSUME NEW role \in Roles
      PROVE  /\ s[role] \in Seq(Int)
             /\ o.opt = role => t[role] = s[role] \o o.cores
             /\ o.opt # role => t[role] = s[role]
  <2>1. s[role] = Grown(opts, role)[h] /\ t[role] = Grown(opts, role)[i]
    BY <1>4, <1>5
  <2>2. QED
    BY <1>1, <1>2, <2>1, GrownRound
<1>7. RolesAre(conf, s["s"], s["m"], s["c"])
  BY <1>1, <1>4 DEF RolesUpTo, Roles
<1>8. RolesAre(ReadInto(conf, o), t["s"], t["m"], t["c"])
  <2>1. "s" \in Roles /\ "m" \in Roles /\ "c" \in Roles
    BY DEF Roles
  <2>2. CASE o.opt = "s"
    <3>1. s["m"] = <<>> /\ s["c"] = <<>>
      BY <1>1, <1>2, <1>4, <2>1, <2>2, LaterEmpty
    <3>2. t["s"] = s["s"] \o o.cores /\ t["m"] = <<>> /\ t["c"] = <<>>
      BY <1>6, <2>1, <2>2, <3>1
    <3>3. ReadInto(conf, o) = conf \o Tagged(o.cores, "s")
      BY <2>1, <2>2 DEF ReadInto
    <3>4. s["s"] \in Seq(Int) /\ RolesAre(conf, s["s"], <<>>, <<>>)
      BY <1>6, <1>7, <2>1, <3>1
    <3>5. QED
      BY <1>3, <3>2, <3>3, <3>4, MoreReceivers, Zenon
  <2>3. CASE o.opt = "m"
    <3>1. s["c"] = <<>>
      BY <1>1, <1>2, <1>4, <2>1, <2>3, LaterEmpty
    <3>2. t["s"] = s["s"] /\ t["m"] = s["m"] \o o.cores /\ t["c"] = <<>>
      BY <1>6, <2>1, <2>3, <3>1
    <3>3. ReadInto(conf, o) = conf \o Tagged(o.cores, "m")
      BY <2>1, <2>3 DEF ReadInto
    <3>4. /\ s["s"] \in Seq(Int) /\ s["m"] \in Seq(Int)
          /\ RolesAre(conf, s["s"], s["m"], <<>>)
      BY <1>6, <1>7, <2>1, <3>1
    <3>5. QED
      BY <1>3, <3>2, <3>3, <3>4, MoreMasters, Zenon
  <2>4. CASE o.opt = "c"
    <3>1. t["s"] = s["s"] /\ t["m"] = s["m"] /\ t["c"] = s["c"] \o o.cores
      BY <1>6, <2>1, <2>4
    <3>2. ReadInto(conf, o) = conf \o Tagged(o.cores, "c")
      BY <2>1, <2>4 DEF ReadInto
    <3>3. s["s"] \in Seq(Int) /\ s["m"] \in Seq(Int) /\ s["c"] \in Seq(Int)
      BY <1>6, <2>1
    <3>4. QED
      BY <1>3, <1>7, <3>1, <3>2, <3>3, MoreWorkers, Zenon
  <2>5. CASE o.opt \notin Roles
    <3>1. t["s"] = s["s"] /\ t["m"] = s["m"] /\ t["c"] = s["c"]
      BY <1>6, <2>1, <2>5
    <3>2. QED
      BY <1>7, <2>5, <3>1 DEF ReadInto
  <2>6. QED
    BY <2>2, <2>3, <2>4, <2>5 DEF Roles
<1>9. QED
  BY <1>2, <1>5, <1>8 DEF RolesUpTo, Roles

\* k options are read, and if they are in order core_conf holds what they give.
ReadSome(k) ==
  /\ Len(options) = Len(input.options) - k
  /\ \A i \in 1 .. Len(options) : options[i] = input.options[k + i]
  /\ Ordered(input.options) => RolesUpTo(core_conf, input.options, k)
RolesInv ==
  /\ pc = "args" => \E k \in 0 .. Len(input.options) : ReadSome(k)
  /\ pc \in {"config", "plugins", "assign", "running"} /\ Ordered(input.options)
       => RolesUpTo(core_conf, input.options, Len(input.options))

LEMMA RolesInit == WInit => RolesInv
<1> SUFFICES ASSUME WInit PROVE RolesInv
  OBVIOUS
<1>1. pc = "args" /\ options = input.options /\ core_conf = <<>> /\ input \in Inputs
  BY DEF WInit, Init
<1>2. input.options \in Seq(OptionSet)
  BY <1>1, InputsAssumption DEF OptionSet
<1>3. PICK n \in Nat : n = Len(input.options)
  BY <1>2
<1>4. \A role \in Roles : Grown(input.options, role)[0] = <<>>
  BY <1>2, GrownGrows DEF Grows
<1>5. RolesAre(<<>>, <<>>, <<>>, <<>>)
  BY DEF RolesAre, Held
<1>6. RolesUpTo(core_conf, input.options, 0)
  BY <1>1, <1>4, <1>5 DEF RolesUpTo, Roles
<1>7. ReadSome(0)
  BY <1>1, <1>3, <1>6 DEF ReadSome
<1>8. 0 \in 0 .. n
  OBVIOUS
<1>9. QED
  BY <1>1, <1>3, <1>7, <1>8 DEF RolesInv

LEMMA RolesRead ==
  ASSUME StartInv, RolesInv, ReadOption
  PROVE  RolesInv'
<1>1. CASE Exit
  BY <1>1 DEF Exit, RolesInv
<1>2. CASE ~ Exit
  <2>1. /\ input \in Inputs /\ options \in Seq(OptionSet) /\ core_conf \in Seq(CoreSet)
        /\ options # <<>> /\ pc = "args"
    BY DEF StartInv, InputInv, CoresInv, ReadOption
  <2>2. input.options \in Seq(OptionSet)
    BY <2>1, InputsAssumption DEF OptionSet
  <2>3. PICK opts : opts = input.options
    OBVIOUS
  <2>4. PICK n \in Nat : n = Len(opts)
    BY <2>2, <2>3
  <2>5. PICK k \in 0 .. n : ReadSome(k)
    BY <2>1, <2>3, <2>4 DEF RolesInv
  <2>6. PICK d \in Nat : d = Len(options) /\ d # 0
    BY <2>1
  <2>7. d = n - k /\ \A i \in 1 .. d : options[i] = opts[k + i]
    BY <2>3, <2>4, <2>5, <2>6 DEF ReadSome
  <2>8. PICK i \in 1 .. n : i = k + 1 /\ i - 1 = k
    BY <2>6, <2>7
  <2>9. Head(options) = opts[i]
    BY <2>1, <2>6, <2>7, <2>8
  <2>10. /\ options' = Tail(options) /\ input' = input /\ pc' = pc
         /\ core_conf' = ReadInto(core_conf, opts[i])
    BY <1>2, <2>9 DEF ReadOption, ReadInto, Roles, Tagged
  <2>11. Len(options') = n - i
    <3>1. Len(Tail(options)) = d - 1
      BY <2>1, <2>6
    <3>2. QED
      BY ONLY <2>7, <2>8, <2>10, <3>1, n \in Nat, k \in 0 .. n, i \in 1 .. n, d \in Nat
  <2>12. ASSUME NEW j \in 1 .. Len(options') PROVE options'[j] = opts[i + j]
    <3>1. PICK l \in 1 .. d : l = j + 1
      BY <2>7, <2>8, <2>11, <2>12
    <3>2. options'[j] = options[l]
      BY <2>1, <2>10, <2>12, <3>1
    <3>3. k + l = i + j
      BY <2>8, <2>11, <2>12, <3>1
    <3>4. QED
      BY <2>7, <3>1, <3>2, <3>3
  <2>13. ASSUME Ordered(opts) PROVE RolesUpTo(core_conf', opts, i)
    <3>1. RolesUpTo(core_conf, opts, i - 1)
      BY <2>3, <2>5, <2>8, <2>13 DEF ReadSome
    <3>2. QED
      BY <2>1, <2>2, <2>3, <2>4, <2>10, <2>13, <3>1, RolesMore
  <2>14. ReadSome(i)'
    BY <2>3, <2>4, <2>10, <2>11, <2>12, <2>13 DEF ReadSome
  <2>15. QED
    BY <2>1, <2>3, <2>4, <2>10, <2>14 DEF RolesInv
<1>3. QED
  BY <1>1, <1>2

LEMMA RolesChecked ==
  ASSUME StartInv, RolesInv, CheckOptions
  PROVE  RolesInv'
<1>1. CASE Exit
  BY <1>1 DEF Exit, RolesInv
<1>2. CASE ~ Exit
  <2>1. pc = "args" /\ pc' = "config" /\ UNCHANGED <<input, core_conf>> /\ options = <<>>
    BY <1>2 DEF CheckOptions
  <2>2. input.options \in Seq(OptionSet)
    BY InputsAssumption DEF StartInv, InputInv, OptionSet
  <2>3. PICK n \in Nat : n = Len(input.options)
    BY <2>2
  <2>4. PICK k \in 0 .. n : ReadSome(k)
    BY <2>1, <2>3 DEF RolesInv
  <2>5. k = n
    BY <2>1, <2>3, <2>4 DEF ReadSome
  <2>6. Ordered(input.options) => RolesUpTo(core_conf, input.options, n)
    BY <2>4, <2>5 DEF ReadSome
  <2>7. QED
    BY <2>1, <2>3, <2>6 DEF RolesInv
<1>3. QED
  BY <1>1, <1>2

LEMMA RolesStay ==
  ASSUME RolesInv, UNCHANGED <<input, core_conf>>,
         \/ pc' = pc /\ UNCHANGED options
         \/ pc' # "args" /\ (pc' \in {"config", "plugins", "assign", "running"}
                               => pc \in {"config", "plugins", "assign", "running"})
  PROVE  RolesInv'
<1>1. CASE pc' = pc /\ UNCHANGED options
  <2>1. \A k : ReadSome(k)' = ReadSome(k)
    BY <1>1 DEF ReadSome
  <2>2. QED
    BY <1>1, <2>1 DEF RolesInv
<1>2. CASE ~ (pc' = pc /\ UNCHANGED options)
  BY <1>2 DEF RolesInv
<1>3. QED
  BY <1>1, <1>2

LEMMA RolesStep == StartInv /\ RolesInv /\ [Next]_<<svars, wvars>> => RolesInv'
<1> SUFFICES ASSUME StartInv, RolesInv, [Next]_<<svars, wvars>> PROVE RolesInv'
  OBVIOUS
<1>1. CASE ReadOption
  BY <1>1, RolesRead
<1>2. CASE CheckOptions
  BY <1>2, RolesChecked
<1>3. CASE Leaves \/ UNCHANGED svars
  <2>1. \/ UNCHANGED <<input, core_conf, options, pc>>
        \/ UNCHANGED <<input, core_conf>>
           /\ pc' \notin {"args", "config", "plugins", "assign", "running"}
    BY <1>3, LeavesForGood DEF svars, Leaves
  <2>2. QED
    BY <2>1, RolesStay
<1>4. CASE \/ ParseConfiguration \/ OpenPluginFile \/ Taken(lines[1][1], lines[1][2])
           \/ Created \/ Assigned \/ Join \/ TornDown
  <2>1. CASE ParseConfiguration \/ OpenPluginFile
    <3>1. /\ UNCHANGED <<input, core_conf>> /\ pc' # "args"
          /\ pc \in {"config", "plugins", "assign", "running"}
      BY <2>1 DEF ParseConfiguration, OpenPluginFile, Exit
    <3>2. QED
      BY <3>1, RolesStay
  <2>2. CASE Created \/ Assigned \/ Join \/ TornDown
    <3>1. /\ UNCHANGED <<input, core_conf>> /\ pc' # "args"
          /\ pc' \in {"config", "plugins", "assign", "running"}
               => pc \in {"config", "plugins", "assign", "running"}
      BY <2>2 DEF Created, Assigned, Join, TornDown
    <3>2. QED
      BY <3>1, RolesStay
  <2>3. CASE Taken(lines[1][1], lines[1][2])
    BY <2>3, RolesStay DEF Taken, TakeLine
  <2>4. QED
    BY <1>4, <2>1, <2>2, <2>3
<1>5. CASE Setup \/ WorkerStep \/ End
  BY <1>1, <1>2, <1>3, <1>4, <1>5, EvaluatedLine, CreatedRings, AssignedPlugins, TeardownEnds, Worked
     DEF Setup, End
<1>6. CASE UNCHANGED <<svars, wvars>>
  BY <1>3, <1>6
<1>7. QED
  BY <1>5, <1>6 DEF Next

\* logcollector.c, core_conf: when the options of the receivers come before those of
\* the masters and these before those of the workers, the slices of core_conf that the
\* threads are made from hold, in their order, the cores given for their roles.
THEOREM RolesAreKept == Spec => []RolesKept
<1>1. StartInv /\ RolesInv => RolesKept
  <2> SUFFICES ASSUME StartInv, RolesInv, pc \in {"config", "running"}, InOrder
               PROVE  /\ receiver_cores = Given("s") /\ master_cores = Given("m")
                      /\ worker_cores = Given("c")
    BY DEF RolesKept
  <2>1. input.options \in Seq(OptionSet) /\ core_conf \in Seq(CoreSet)
    BY InputsAssumption DEF StartInv, InputInv, CoresInv, OptionSet
  <2>2. PICK opts : opts = input.options
    OBVIOUS
  <2>3. PICK n \in Nat : n = Len(opts)
    BY <2>1, <2>2
  <2>4. RolesUpTo(core_conf, opts, n)
    BY <2>2, <2>3 DEF RolesInv, InOrder, Ordered
  <2>5. ASSUME NEW role PROVE Grown(opts, role)[n] = Given(role) /\ Given(role) \in Seq(Int)
    <3>1. Given(role) = FlattenSeq(Pieces(opts, role))
      BY <2>2 DEF Given, Pieces
    <3>2. /\ Grown(opts, role) \in [0 .. n -> Seq(Int)]
          /\ Grown(opts, role)[n] = FlattenSeq(Pieces(opts, role))
      BY <2>1, <2>2, <2>3, GrownGrows DEF Grows
    <3>3. QED
      BY <3>1, <3>2
  <2>6. RolesAre(core_conf, Given("s"), Given("m"), Given("c"))
    BY <2>4, <2>5 DEF RolesUpTo
  <2>7. QED
    BY <2>1, <2>5, <2>6, ThreeSlices
<1>2. QED
  BY <1>1, StartInit, StartStep, RolesInit, RolesStep, PTL DEF Spec

-----------------------------------------------------------------------------
(* The custom functions.                                                   *)

FunctionNode(name) == [name |-> name, data |-> name]
FunctionMaps == {m \in UNION {TableSet(Names, k) : k \in Nat} : Sound(m, Names)}

\* FunctionTable, name by name of d.
Filling(f, d) ==
  /\ f \in [0 .. Len(d) -> FunctionMaps]
  /\ f[0] = EmptyMap /\ FunctionTable = f[Len(d)]
  /\ \A i \in 1 .. Len(d) : f[i] = AddOnce(f[i - 1], d[i], d[i])

LEMMA SoundIsFunctionMap ==
  ASSUME NEW m, Sound(m, Names)
  PROVE  m \in FunctionMaps
BY DEF Sound, Table, FunctionMaps

LEMMA DictionarySeq == cf_dictionary \in Seq(Names)
<1>1. PICK n \in Nat : n = Len(cf_dictionary) /\ DOMAIN cf_dictionary = 1 .. n
  BY DEF cf_dictionary
<1>2. \A i \in 1 .. n : cf_dictionary[i] \in Names
  BY <1>1, NamesAssumption DEF ToSet
<1>3. cf_dictionary = [i \in 1 .. n |-> cf_dictionary[i]]
  <2>1. cf_dictionary \in Seq(ToSet(cf_dictionary))
    BY DEF cf_dictionary, ToSet
  <2>2. QED
    BY <1>1, <2>1
<1>4. QED
  BY <1>2, <1>3

LEMMA FillingRounds == \E f : Filling(f, cf_dictionary)
<1>1. PICK d \in Seq(Names) : d = cf_dictionary
  BY DictionarySeq
<1>2. PICK n \in Nat : n = Len(d)
  OBVIOUS
<1>3. PICK X, b : X = FunctionMaps /\ b = EmptyMap
  OBVIOUS
<1> DEFINE Eq(h) == h = [i \in 0 .. n |-> IF i = 0 THEN b ELSE AddOnce(h[i - 1], d[i], d[i])]
           map == CHOOSE h : Eq(h)
           g == [xi \in X \X (1 .. n) |-> AddOnce(xi[1], d[xi[2]], d[xi[2]])]
<1>4. \A i \in 1 .. n : d[i] \in Names
  BY <1>2
<1>5. g \in [X \X (1 .. n) -> X]
  <2>1. ASSUME NEW x \in X, NEW i \in 1 .. n PROVE AddOnce(x, d[i], d[i]) \in X
    <3>1. PICK name \in Names : name = d[i]
      BY <1>4
    <3>2. Sound(x, Names)
      BY <1>3 DEF FunctionMaps
    <3>3. Sound(AddOnce(x, name, name), Names)
      BY <3>2, AddOnceAdds
    <3>4. QED
      BY <1>3, <3>1, <3>3, SoundIsFunctionMap
  <2>2. QED
    BY <2>1
<1>6. b \in X
  BY <1>3, EmptyMapSound, SoundIsFunctionMap
<1>7. PICK f : Rounds(f, X, n, b, g)
  <2> HIDE DEF g
  <2>1. QED
    BY <1>5, <1>6, Recursion
<1>8. f \in [0 .. n -> X] /\ f[0] = b /\ \A i \in 1 .. n : f[i] = g[<<f[i - 1], i>>]
  BY <1>7 DEF Rounds
<1>9. ASSUME NEW i \in 1 .. n PROVE f[i] = AddOnce(f[i - 1], d[i], d[i])
  <2>1. f[i - 1] \in X
    BY <1>8
  <2>2. <<f[i - 1], i>> \in X \X (1 .. n)
    BY <2>1
  <2>3. g[<<f[i - 1], i>>] = AddOnce(f[i - 1], d[i], d[i])
    BY <2>2
  <2>4. QED
    BY <1>8, <2>3
<1>10. Eq([i \in 0 .. n |-> f[i]])
  <2> HIDE DEF g
  <2> SUFFICES ASSUME NEW i \in 0 .. n
               PROVE  f[i] = IF i = 0 THEN b
                             ELSE AddOnce([j \in 0 .. n |-> f[j]][i - 1], d[i], d[i])
    BY Zenon
  <2>1. CASE i = 0
    BY <1>8, <2>1
  <2>2. CASE i # 0
    <3>1. i - 1 \in 0 .. n /\ i \in 1 .. n
      BY <2>2
    <3>2. [j \in 0 .. n |-> f[j]][i - 1] = f[i - 1]
      BY <3>1
    <3>3. QED
      BY <1>9, <2>2, <3>1, <3>2
  <2>3. QED
    BY <2>1, <2>2
<1>11. Eq(map)
  BY <1>10, Zenon
<1>12. ASSUME NEW i \in 0 .. n
       PROVE  map[i] = IF i = 0 THEN b ELSE AddOnce(map[i - 1], d[i], d[i])
  BY <1>11, Zenon
<1>13. \A i \in 0 .. n : map[i] = f[i]
  <2>1. PICK h : h = map
    OBVIOUS
  <2> HIDE DEF map, g, Eq
  <2>2. ASSUME NEW i \in 0 .. n
        PROVE  h[i] = IF i = 0 THEN b ELSE AddOnce(h[i - 1], d[i], d[i])
    BY <1>12, <2>1
  <2>3. h[0] = f[0]
    BY <1>8, <2>2
  <2>4. ASSUME NEW i \in 1 .. n, h[i - 1] = f[i - 1] PROVE h[i] = f[i]
    <3>1. i \in 0 .. n /\ i # 0
      OBVIOUS
    <3>2. h[i] = AddOnce(h[i - 1], d[i], d[i])
      BY <2>2, <3>1
    <3>3. QED
      BY <1>9, <2>4, <3>2
  <2>5. \A i \in 0 .. n : h[i] = f[i]
    <3>1. \A i \in 1 .. n : h[i - 1] = f[i - 1] => h[i] = f[i]
      BY <2>4
    <3>2. QED
      BY ONLY <2>3, <3>1, n \in Nat, SameRounds, SMTT(30)
  <2>6. QED
    BY <2>1, <2>5
<1>14. FunctionTable = map[n]
  BY <1>1, <1>2, <1>3, Zenon DEF FunctionTable
<1>15. FunctionTable = f[n]
  <2>1. n \in 0 .. n
    OBVIOUS
  <2>2. QED
    BY <1>13, <1>14, <2>1
<1>16. Filling(f, d)
  BY <1>2, <1>3, <1>8, <1>9, <1>15 DEF Filling
<1>17. QED
  BY <1>1, <1>16, Zenon

\* The table that main builds: sound, with a node for each function.
LEMMA FunctionTableSound ==
  /\ Sound(FunctionTable, Names)
  /\ Nodes(FunctionTable) = {FunctionNode(name) : name \in ToSet(cf_dictionary)}
<1>1. PICK d \in Seq(Names) : d = cf_dictionary
  BY DictionarySeq
<1>2. PICK n \in Nat : n = Len(d) /\ DOMAIN d = 1 .. n
  OBVIOUS
<1>3. PICK f : Filling(f, d)
  BY <1>1, FillingRounds
<1>4. /\ f[0] = EmptyMap /\ FunctionTable = f[n]
      /\ \A i \in 1 .. n : f[i] = AddOnce(f[i - 1], d[i], d[i])
  BY <1>2, <1>3 DEF Filling
<1> DEFINE Up(i) == {FunctionNode(d[j]) : j \in 1 .. i}
           S == {i \in 0 .. n : Sound(f[i], Names) /\ Nodes(f[i]) = Up(i)}
<1>5. 0 \in S
  <2>1. Up(0) = {}
    OBVIOUS
  <2>2. Sound(f[0], Names) /\ Nodes(f[0]) = {}
    BY <1>4, EmptyMapSound
  <2>3. QED
    BY <2>1, <2>2
<1>6. ASSUME NEW i \in Nat, i < n /\ i \in S PROVE i + 1 \in S
  <2>1. PICK j \in 1 .. n : j = i + 1 /\ j - 1 = i
    BY <1>6
  <2>2. PICK h : h = f[i]
    OBVIOUS
  <2>3. PICK name \in Names : name = d[j]
    BY <1>2
  <2>4. Sound(h, Names) /\ Nodes(h) = Up(i) /\ f[j] = AddOnce(h, name, name)
    BY <1>4, <1>6, <2>1, <2>2, <2>3
  <2>5. /\ Sound(f[j], Names)
        /\ Nodes(f[j]) = IF \E x \in Nodes(h) : x.name = name THEN Nodes(h)
                         ELSE Nodes(h) \cup {FunctionNode(name)}
    BY <2>4, AddOnceAdds DEF FunctionNode
  <2>6. (\E x \in Up(i) : x.name = name) => FunctionNode(name) \in Up(i)
    BY DEF FunctionNode
  <2>7. Up(j) = Up(i) \cup {FunctionNode(name)}
    <3>1. (1 .. j) = (1 .. i) \cup {j}
      BY <2>1
    <3>2. QED
      BY <2>3, <3>1
  <2>8. Nodes(f[j]) = Up(j)
    <3> HIDE DEF Up
    <3>1. QED
      BY <2>4, <2>5, <2>6, <2>7
  <2>9. QED
    BY <2>1, <2>5, <2>8
<1>7. \A i \in 0 .. n : i \in S
  <2> HIDE DEF S
  <2>1. QED
    BY <1>5, <1>6, UpTo
<1>8. Sound(f[n], Names) /\ Nodes(f[n]) = Up(n)
  <2>1. n \in 0 .. n
    OBVIOUS
  <2>2. QED
    BY <1>7, <2>1
<1>9. Up(n) = {FunctionNode(name) : name \in ToSet(d)}
  BY <1>2 DEF ToSet
<1>10. QED
  BY <1>1, <1>4, <1>8, <1>9

MapInv == hash_map \in {EmptyMap, FunctionTable}

LEMMA MapStep == MapInv /\ [Next]_<<svars, wvars>> => MapInv'
<1> SUFFICES ASSUME MapInv, [Next]_<<svars, wvars>> PROVE MapInv'
  OBVIOUS
<1>1. hash_map' = hash_map \/ hash_map' = FunctionTable
  <2>1. CASE Leaves \/ UNCHANGED svars
    BY <2>1 DEF Leaves, svars
  <2>2. CASE Created \/ Assigned \/ Join \/ TornDown
    BY <2>2 DEF Created, Assigned, Join, TornDown
  <2>3. CASE Taken(lines[1][1], lines[1][2])
    BY <2>3 DEF Taken, TakeLine
  <2>4. CASE ReadOption \/ CheckOptions \/ ParseConfiguration \/ OpenPluginFile
    BY <2>4 DEF ReadOption, CheckOptions, ParseConfiguration, OpenPluginFile, Exit
  <2>5. CASE Setup \/ WorkerStep \/ End
    BY <2>1, <2>2, <2>3, <2>4, <2>5, EvaluatedLine, CreatedRings, AssignedPlugins, TeardownEnds, Worked
       DEF Setup, End
  <2>6. QED
    BY <2>1, <2>5 DEF Next
<1>2. QED
  BY <1>1 DEF MapInv

\* logcollector.c, initialize_custom_functions: whatever the hashes of the names, the
\* table that the threads read is sound, and shash_find in it gives each function of
\* the dictionary, and NULL for every other name.
THEOREM FunctionsAreFound == Spec => []FunctionsFound
<1>1. WInit => MapInv
  BY DEF WInit, Init, MapInv
<1>2. MapInv => FunctionsFound
  <2> SUFFICES ASSUME hash_map = FunctionTable
               PROVE  /\ MapSound(hash_map)
                      /\ \A f \in Names : Has(hash_map, f) = (f \in ToSet(cf_dictionary))
                      /\ \A f \in ToSet(cf_dictionary) : Find(hash_map, f) = f
    BY DEF MapInv, FunctionsFound
  <2>1. PICK m : m = FunctionTable
    OBVIOUS
  <2>2. Sound(m, Names) /\ Nodes(m) = {FunctionNode(name) : name \in ToSet(cf_dictionary)}
    BY <2>1, FunctionTableSound
  <2>3. MapSound(m)
    BY <2>2, SoundIsMapSound
  <2>4. Table(m, Names)
    BY <2>2 DEF Sound
  <2>5. ASSUME NEW f \in Names PROVE Has(m, f) = (f \in ToSet(cf_dictionary))
    <3>1. Has(m, f) <=> \E x \in Nodes(m) : x.name = f
      BY <2>4, LookupFinds
    <3>2. (\E x \in Nodes(m) : x.name = f) <=> f \in ToSet(cf_dictionary)
      <4>1. \A name \in ToSet(cf_dictionary) : FunctionNode(name).name = name
        BY DEF FunctionNode
      <4>2. QED
        BY <2>2, <4>1, Zenon
    <3>3. QED
      BY <3>1, <3>2 DEF Has
  <2>6. ASSUME NEW f \in ToSet(cf_dictionary) PROVE Find(m, f) = f
    <3>1. FunctionNode(f) \in Nodes(m) /\ f \in Names
      BY <2>2, NamesAssumption
    <3>2. \A x \in Nodes(m) : x.name = f => Find(m, f) = x.data
      BY <2>4, <3>1, LookupFinds
    <3>3. QED
      BY <3>1, <3>2 DEF FunctionNode
  <2>7. QED
    BY <2>1, <2>3, <2>5, <2>6
<1>3. QED
  BY <1>1, <1>2, MapStep, PTL DEF Spec

-----------------------------------------------------------------------------
(* The plugin files: what has been said after each line.                   *)

\* l is the line after n, in a part that starts with a.
NextLine(a, n, l) == a \in Nat /\ n \in Nat /\ l \in Nat /\ l = n + 1 /\ a <= l

LEMMA OneLineMore ==
  ASSUME NEW a, NEW n, NEW l, NextLine(a, n, l)
  PROVE  a .. l = (a .. n) \cup {l}
BY DEF NextLine

\* The lines with a key, and with one more line.
LEMMA KeyedMore ==
  ASSUME NEW ls, NEW key, NEW a, NEW n, NEW l, NextLine(a, n, l)
  PROVE  /\ Keyed(ls, key, a, n) \subseteq a .. n
         /\ ls[l][1] = key => Keyed(ls, key, a, l) = Keyed(ls, key, a, n) \cup {l}
         /\ ls[l][1] # key => Keyed(ls, key, a, l) = Keyed(ls, key, a, n)
<1>1. a .. l = (a .. n) \cup {l}
  BY OneLineMore
<1>2. QED
  BY <1>1, Zenon DEF Keyed

LEMMA ValuedMore ==
  ASSUME NEW ls, NEW key, NEW a, NEW n, NEW l, NextLine(a, n, l)
  PROVE  /\ Valued(ls, key, a, n) \subseteq a .. n
         /\ ls[l][1] = key /\ ls[l][2] # <<>>
              => Valued(ls, key, a, l) = Valued(ls, key, a, n) \cup {l}
         /\ ~ (ls[l][1] = key /\ ls[l][2] # <<>>)
              => Valued(ls, key, a, l) = Valued(ls, key, a, n)
<1>1. a .. l = (a .. n) \cup {l}
  BY OneLineMore
<1>2. QED
  BY <1>1, Zenon DEF Valued

LEMMA BooleansMore ==
  ASSUME NEW ls, NEW key, NEW a, NEW n, NEW l, NextLine(a, n, l)
  PROVE  /\ Booleans(ls, key, a, n) \subseteq a .. n
         /\ ls[l][1] = key /\ IsBoolean(ls[l][2])
              => Booleans(ls, key, a, l) = Booleans(ls, key, a, n) \cup {l}
         /\ ~ (ls[l][1] = key /\ IsBoolean(ls[l][2]))
              => Booleans(ls, key, a, l) = Booleans(ls, key, a, n)
<1>1. a .. l = (a .. n) \cup {l}
  BY OneLineMore
<1>2. QED
  BY <1>1, Zenon DEF Booleans

\* The greatest element of a set with one more above it.
LEMMA MaxMore ==
  ASSUME NEW S, NEW a, NEW n, NEW l, NextLine(a, n, l), S \subseteq a .. n
  PROVE  Max(S \cup {l}) = l
<1> USE DEF NextLine
<1>1. \A y \in S : y \in Nat /\ y <= n
  OBVIOUS
<1>2. PICK T : T = S \cup {l}
  OBVIOUS
<1>3. l \in T /\ \A y \in T : y \in Nat /\ l >= y
  BY <1>1, <1>2
<1>4. PICK m : m = Max(T)
  OBVIOUS
<1>5. m \in T /\ \A y \in T : m >= y
  BY <1>3, <1>4, Zenon DEF Max
<1>6. m = l
  BY <1>3, <1>5
<1>7. QED
  BY <1>2, <1>4, <1>6

\* l is the last line of T.
TopOf(T, l) == l \in T /\ \A y \in T : y \in Nat /\ l >= y
LEMMA LastOfMore ==
  ASSUME NEW ls, NEW default, NEW l, NEW T, TopOf(T, l)
  PROVE  LastOf(ls, T, default) = ls[l][2]
<1>1. PICK m : m = Max(T)
  OBVIOUS
<1>2. m \in T /\ \A y \in T : m >= y
  BY <1>1, Zenon DEF Max, TopOf
<1>3. m = l
  BY <1>2 DEF TopOf
<1>4. QED
  BY <1>1, <1>3 DEF LastOf, TopOf

\* Where a part starts, and with one more line.
LEMMA StartAfter ==
  ASSUME NEW ls, NEW key, NEW a, NEW n, NEW l, NextLine(a, n, l),
         ls[l][1] = key, ls[l][2] # <<>>, NEW m, m = l + 1
  PROVE  Start(ls, key, a, l) = m
<1>1. PICK V : V = Valued(ls, key, a, n)
  OBVIOUS
<1>2. V \subseteq a .. n /\ Valued(ls, key, a, l) = V \cup {l}
  BY <1>1, ValuedMore
<1>3. PICK S : S = {a} \cup {i + 1 : i \in V}
  OBVIOUS
<1>4. {a} \cup {i + 1 : i \in V \cup {l}} = S \cup {m}
  BY <1>3, Zenon
<1>5. S \subseteq a .. l /\ NextLine(a, l, m)
  BY <1>2, <1>3 DEF NextLine
<1>6. Max(S \cup {m}) = m
  BY <1>5, MaxMore
<1>7. QED
  BY <1>2, <1>4, <1>6, Zenon DEF Start

LEMMA StartSame ==
  ASSUME NEW ls, NEW key, NEW a, NEW n, NEW l, NextLine(a, n, l),
         ~ (ls[l][1] = key /\ ls[l][2] # <<>>)
  PROVE  Start(ls, key, a, l) = Start(ls, key, a, n)
<1>1. Valued(ls, key, a, l) = Valued(ls, key, a, n)
  BY ValuedMore
<1>2. QED
  BY <1>1, Zenon DEF Start

\* a part that starts after line n, with a, has none of the lines up to n.
NoneOf(a, n) == a \in Nat /\ n \in Nat /\ a = n + 1
LEMMA NoLines ==
  ASSUME NEW ls, NEW key, NEW a, NEW n, NoneOf(a, n)
  PROVE  /\ Keyed(ls, key, a, n) = {} /\ Valued(ls, key, a, n) = {}
         /\ Booleans(ls, key, a, n) = {} /\ Start(ls, key, a, n) = a
<1>1. a .. n = {}
  BY DEF NoneOf
<1>2. Keyed(ls, key, a, n) = {} /\ Valued(ls, key, a, n) = {} /\ Booleans(ls, key, a, n) = {}
  BY <1>1 DEF Keyed, Valued, Booleans
<1>3. PICK V : V = Valued(ls, key, a, n)
  OBVIOUS
<1>4. {a} \cup {i + 1 : i \in V} = {a}
  BY <1>2, <1>3
<1>5. Max({a}) = a
  BY DEF Max, NoneOf
<1>6. QED
  BY <1>2, <1>3, <1>4, <1>5, Zenon DEF Start

LEMMA StartWithin ==
  ASSUME NEW ls, NEW key, NEW a \in Nat, NEW n \in Nat, 1 <= a, a <= n + 1
  PROVE  Start(ls, key, a, n) \in a .. n + 1
<1>1. PICK b \in Nat : a = b + 1
  <2>1. a - 1 \in Nat /\ a = (a - 1) + 1
    OBVIOUS
  <2>2. QED
    BY <2>1
<1>2. PICK d \in Nat : n = b + d
  <2>1. n - b \in Nat /\ n = b + (n - b)
    BY <1>1
  <2>2. QED
    BY <2>1
<1> DEFINE S == {k \in 0 .. d : Start(ls, key, a, b + k) \in a .. b + k + 1}
<1>3. 0 \in S
  <2>1. Start(ls, key, a, b) = a
    <3>1. NoneOf(a, b)
      BY <1>1 DEF NoneOf
    <3>2. QED
      BY <3>1, NoLines
  <2>2. b + 0 = b
    OBVIOUS
  <2>3. QED
    BY <1>1, <2>1, <2>2
<1>4. ASSUME NEW k \in Nat, k < d /\ k \in S PROVE k + 1 \in S
  <2>1. PICK m \in Nat : m = b + k
    OBVIOUS
  <2>2. PICK l \in Nat : l = m + 1
    BY <2>1
  <2>3. Start(ls, key, a, m) \in a .. l /\ NextLine(a, m, l)
    BY <1>1, <1>4, <2>1, <2>2 DEF NextLine
  <2>4. Start(ls, key, a, l) \in {Start(ls, key, a, m), l + 1}
    <3>1. CASE ls[l][1] = key /\ ls[l][2] # <<>>
      <4>1. PICK e : e = l + 1
        OBVIOUS
      <4>2. Start(ls, key, a, l) = e
        BY <2>3, <3>1, <4>1, StartAfter, Zenon
      <4>3. QED
        BY <4>1, <4>2
    <3>2. CASE ~ (ls[l][1] = key /\ ls[l][2] # <<>>)
      BY <2>3, <3>2, StartSame
    <3>3. QED
      BY <3>1, <3>2
  <2>5. Start(ls, key, a, l) \in a .. l + 1
    BY <2>3, <2>4 DEF NextLine
  <2>6. b + (k + 1) = l
    BY <2>1, <2>2
  <2>7. QED
    BY <1>4, <2>5, <2>6
<1>5. \A k \in 0 .. d : k \in S
  <2> HIDE DEF S
  <2>1. QED
    BY <1>3, <1>4, UpTo
<1>6. QED
  BY <1>2, <1>5

\* How many parts have ended, and with one more line.
Ended(ls, key, a, n) == Cardinality(Valued(ls, key, a, n))
LEMMA EndedMore ==
  ASSUME NEW ls, NEW key, NEW a, NEW n, NEW l, NextLine(a, n, l)
  PROVE  /\ Ended(ls, key, a, n) \in Nat
         /\ ls[l][1] = key /\ ls[l][2] # <<>>
              => Ended(ls, key, a, l) = Ended(ls, key, a, n) + 1
         /\ ~ (ls[l][1] = key /\ ls[l][2] # <<>>)
              => Ended(ls, key, a, l) = Ended(ls, key, a, n)
<1>1. PICK V : V = Valued(ls, key, a, n)
  OBVIOUS
<1>2. V \subseteq a .. n
  BY <1>1, ValuedMore
<1>3. IsFiniteSet(V)
  <2>1. IsFiniteSet(a .. n)
    BY FS_Interval DEF NextLine
  <2>2. QED
    BY <1>2, <2>1, FS_Subset
<1>4. Cardinality(V) \in Nat /\ Cardinality(V \cup {l}) = Cardinality(V) + 1
  <2>1. l \notin V
    BY <1>2 DEF NextLine
  <2>2. QED
    BY <1>3, <2>1, FS_AddElement, FS_CardinalityType
<1>5. Ended(ls, key, a, n) = Cardinality(V)
  BY <1>1 DEF Ended
<1>6. CASE ls[l][1] = key /\ ls[l][2] # <<>>
  <2>1. Valued(ls, key, a, l) = V \cup {l}
    BY <1>1, <1>6, ValuedMore
  <2>2. QED
    BY <1>4, <1>5, <1>6, <2>1 DEF Ended
<1>7. CASE ~ (ls[l][1] = key /\ ls[l][2] # <<>>)
  <2>1. Valued(ls, key, a, l) = V
    BY <1>1, <1>7, ValuedMore
  <2>2. QED
    BY <1>4, <1>5, <1>7, <2>1 DEF Ended
<1>8. QED
  BY <1>6, <1>7

LEMMA EndedBefore ==
  ASSUME NEW ls, NEW key, NEW a \in Nat, NEW n \in Nat, NEW i \in Valued(ls, key, a, n)
  PROVE  Ended(ls, key, a, i) \in 1 .. Ended(ls, key, a, n)
<1>1. PICK V : V = Valued(ls, key, a, n)
  OBVIOUS
<1>2. PICK U : U = Valued(ls, key, a, i)
  OBVIOUS
<1>3. V \subseteq a .. n /\ i \in a .. n /\ U \subseteq V /\ i \in U
  BY <1>1, <1>2 DEF Valued
<1>4. IsFiniteSet(V)
  <2>1. IsFiniteSet(a .. n)
    BY FS_Interval
  <2>2. QED
    BY <1>3, <2>1, FS_Subset
<1>5. IsFiniteSet(U) /\ Cardinality(U) <= Cardinality(V)
  BY <1>3, <1>4, FS_Subset
<1>6. Cardinality(U) \in Nat /\ Cardinality(V) \in Nat
  BY <1>4, <1>5, FS_CardinalityType
<1>7. Cardinality(U) # 0
  BY <1>3, <1>5, FS_EmptySet
<1>8. QED
  BY <1>1, <1>2, <1>5, <1>6, <1>7 DEF Ended

-----------------------------------------------------------------------------
(* A line and what it says of the open regex and of the open plugin.       *)

RegexDefault(key) == IF key = "fields" THEN <<>> ELSE NULL
LEMMA RegexLine ==
  ASSUME NEW ls, NEW a, NEW n, NEW l, NextLine(a, n, l),
         NEW key \in RegexKeys, ls[l][1] = key,
         NEW r, DOMAIN r = RegexKeys, RegexSaid(r, ls, a, n)
  PROVE  /\ RegexSaid([r EXCEPT ![key] = ls[l][2]], ls, a, l)
         /\ DOMAIN [r EXCEPT ![key] = ls[l][2]] = RegexKeys
<1>1. PICK t : t = [r EXCEPT ![key] = ls[l][2]]
  OBVIOUS
<1>2. DOMAIN t = RegexKeys /\ t[key] = ls[l][2] /\ \A k \in RegexKeys : k # key => t[k] = r[k]
  BY <1>1
<1>3. ASSUME NEW k \in RegexKeys
      PROVE  t[k] = LastOf(ls, Keyed(ls, k, a, l), RegexDefault(k))
  <2>1. PICK S, d : S = Keyed(ls, k, a, n) /\ d = RegexDefault(k)
    OBVIOUS
  <2>2. CASE k = key
    <3>1. PICK T : T = Keyed(ls, k, a, l)
      OBVIOUS
    <3>2. TopOf(T, l)
      BY <2>1, <2>2, <3>1, KeyedMore DEF NextLine, Keyed, TopOf
    <3>3. LastOf(ls, T, d) = ls[l][2]
      BY <3>2, LastOfMore
    <3>4. QED
      BY <1>2, <2>1, <2>2, <3>1, <3>3
  <2>3. CASE k # key
    <3>1. Keyed(ls, k, a, l) = S
      BY <2>1, <2>3, KeyedMore
    <3>2. QED
      BY <1>2, <2>1, <2>3, <3>1 DEF RegexSaid, RegexDefault
  <2>4. QED
    BY <2>2, <2>3
<1>4. RegexSaid(t, ls, a, l)
  BY <1>3 DEF RegexSaid, RegexDefault
<1>5. QED
  BY <1>1, <1>2, <1>4

LEMMA RegexStays ==
  ASSUME NEW ls, NEW a, NEW n, NEW l, NextLine(a, n, l),
         ls[l][1] \notin RegexKeys, NEW r, RegexSaid(r, ls, a, n)
  PROVE  RegexSaid(r, ls, a, l)
<1>1. ASSUME NEW k \in RegexKeys PROVE Keyed(ls, k, a, l) = Keyed(ls, k, a, n)
  BY KeyedMore
<1>2. QED
  BY <1>1 DEF RegexSaid

LEMMA RegexOpens ==
  ASSUME NEW ls, NEW a, NEW n, NoneOf(a, n)
  PROVE  RegexSaid(EmptyRegex, ls, a, n) /\ DOMAIN EmptyRegex = RegexKeys
<1>1. \A k \in RegexKeys : Keyed(ls, k, a, n) = {}
  BY NoLines
<1>2. DOMAIN EmptyRegex = RegexKeys
  BY DEF EmptyRegex, RegexKeys
<1>3. \A k \in RegexKeys : EmptyRegex[k] = RegexDefault(k)
  BY DEF EmptyRegex, RegexDefault, RegexKeys
<1>4. QED
  BY <1>1, <1>2, <1>3 DEF RegexSaid, LastOf, RegexDefault

\* The regexes of the open plugin.
LEMMA RegexEnds ==
  ASSUME NEW ls, NEW a, NEW n, NEW l, NextLine(a, n, l),
         ls[l][1] = "fields", ls[l][2] # <<>>,
         NEW V, NEW rs \in Seq(V), RegexesSaid(rs, ls, a, n),
         NEW r, RegexSaid(r, ls, Start(ls, "fields", a, n), l)
  PROVE  RegexesSaid(Append(rs, r), ls, a, l)
<1>1. PICK e \in Nat : e = Ended(ls, "fields", a, n)
  BY EndedMore
<1>2. Len(rs) = e /\ Ended(ls, "fields", a, l) = e + 1
  BY <1>1, EndedMore DEF RegexesSaid, Ended
<1>3. Valued(ls, "fields", a, l) = Valued(ls, "fields", a, n) \cup {l}
  BY ValuedMore
<1>4. PICK t : t = Append(rs, r)
  OBVIOUS
<1>5. Len(t) = e + 1 /\ t[e + 1] = r /\ \A k \in 1 .. e : t[k] = rs[k]
  BY <1>2, <1>4
<1>6. ASSUME NEW i \in Valued(ls, "fields", a, l)
      PROVE  RegexSaid(t[Ended(ls, "fields", a, i)], ls, Start(ls, "fields", a, i - 1), i)
  <2>1. CASE i = l
    <3>1. i - 1 = n
      BY <2>1 DEF NextLine
    <3>2. QED
      BY <1>2, <1>5, <2>1, <3>1
  <2>2. CASE i \in Valued(ls, "fields", a, n)
    <3>1. Ended(ls, "fields", a, i) \in 1 .. e
      BY <1>1, <2>2, EndedBefore DEF NextLine
    <3>2. RegexSaid(rs[Ended(ls, "fields", a, i)], ls, Start(ls, "fields", a, i - 1), i)
      BY <2>2 DEF RegexesSaid, Ended
    <3>3. QED
      BY <1>5, <3>1, <3>2
  <2>3. QED
    BY <1>3, <2>1, <2>2
<1>7. RegexesSaid(t, ls, a, l)
  BY <1>2, <1>5, <1>6 DEF RegexesSaid, Ended
<1>8. QED
  BY <1>4, <1>7

LEMMA RegexesStay ==
  ASSUME NEW ls, NEW a, NEW n, NEW l, NextLine(a, n, l),
         ~ (ls[l][1] = "fields" /\ ls[l][2] # <<>>), NEW rs, RegexesSaid(rs, ls, a, n)
  PROVE  RegexesSaid(rs, ls, a, l)
<1>1. Valued(ls, "fields", a, l) = Valued(ls, "fields", a, n)
  BY ValuedMore
<1>2. QED
  BY <1>1 DEF RegexesSaid

\* The other keys of a plugin.
CoreParts(ls, a, n) ==
  [i \in 1 .. n - a + 1 |-> IF ls[a + i - 1][1] = "core_id" THEN ls[a + i - 1][2] ELSE <<>>]
CoresOf(l) == IF l[1] = "core_id" THEN l[2] ELSE <<>>

LEMMA LineCoresSeq ==
  ASSUME NEW ls \in Seq(FileLines), NEW i \in 1 .. Len(ls)
  PROVE  CoresOf(ls[i]) \in Seq(Int)
<1>1. ls[i] \in FileLines
  OBVIOUS
<1>2. QED
  BY <1>1, LineCores DEF CoresOf

LEMMA FlattenAppend ==
  ASSUME NEW V, NEW m \in Nat, NEW k \in Nat, k = m + 1,
         NEW ss \in Seq(Seq(V)), NEW tt \in Seq(Seq(V)),
         Len(ss) = m, Len(tt) = k, \A i \in 1 .. m : tt[i] = ss[i]
  PROVE  FlattenSeq(tt) = FlattenSeq(ss) \o tt[k]
<1>1. PICK f \in [0 .. m -> Seq(V)] :
         /\ f[0] = <<>> /\ FlattenSeq(ss) = f[m]
         /\ \A i \in 1 .. m : f[i] = f[i - 1] \o ss[i]
  BY FlattenRec, ZenonT(60)
<1>2. PICK h \in [0 .. k -> Seq(V)] :
         /\ h[0] = <<>> /\ FlattenSeq(tt) = h[k]
         /\ \A i \in 1 .. k : h[i] = h[i - 1] \o tt[i]
  BY ONLY tt \in Seq(Seq(V)), Len(tt) = k, FlattenRec
<1>3. ASSUME NEW i \in 1 .. m, f[i - 1] = h[i - 1] PROVE f[i] = h[i]
  <2>1. i \in 1 .. k
    OBVIOUS
  <2>2. QED
    BY <1>1, <1>2, <1>3, <2>1
<1> DEFINE S == {i \in 0 .. m : f[i] = h[i]}
<1>4. \A i \in 0 .. m : i \in S
  <2>1. 0 \in S
    BY <1>1, <1>2
  <2>2. ASSUME NEW i \in Nat, i < m /\ i \in S PROVE i + 1 \in S
    <3>1. PICK j \in 1 .. m : j = i + 1 /\ j - 1 = i
      BY <2>2
    <3>2. f[j] = h[j]
      BY <1>3, <2>2, <3>1
    <3>3. QED
      BY <3>1, <3>2
  <2>3. QED
    <3> HIDE DEF S
    <3>1. QED
      BY <2>1, <2>2, UpTo
<1>5. m \in 0 .. m /\ k \in 1 .. k /\ k - 1 = m
  OBVIOUS
<1>6. QED
  BY <1>1, <1>2, <1>4, <1>5

LEMMA CoresMore ==
  ASSUME NEW ls \in Seq(FileLines), NEW a, NEW n, NEW l, NextLine(a, n, l), 1 <= a,
         l <= Len(ls)
  PROVE  /\ CoresSaid(ls, a, n) \in Seq(Int)
         /\ CoresSaid(ls, a, l) = CoresSaid(ls, a, n) \o CoresOf(ls[l])
<1>1. a \in Nat /\ n \in Nat /\ l \in Nat /\ l = n + 1 /\ a <= l
  BY DEF NextLine
<1>2. PICK m \in Nat : m = n - a + 1
  BY <1>1
<1>3. PICK k \in Nat : k = m + 1 /\ l - a + 1 = k /\ a + m = l
  BY <1>1, <1>2
<1>4. PICK ss : ss = CoreParts(ls, a, n)
  OBVIOUS
<1>5. PICK tt : tt = CoreParts(ls, a, l)
  OBVIOUS
<1>6. ASSUME NEW i \in 1 .. k
      PROVE  /\ a + i - 1 \in 1 .. Len(ls) /\ CoresOf(ls[a + i - 1]) \in Seq(Int)
             /\ tt[i] = CoresOf(ls[a + i - 1])
  <2>1. PICK c \in Nat : c = Len(ls)
    OBVIOUS
  <2>2. a + i - 1 \in 1 .. c
    BY <1>1, <1>2, <1>3, <2>1
  <2>3. CoresOf(ls[a + i - 1]) \in Seq(Int)
    BY <2>1, <2>2, LineCoresSeq
  <2>4. tt[i] = CoresOf(ls[a + i - 1])
    BY <1>3, <1>5 DEF CoreParts, CoresOf
  <2>5. QED
    BY <2>1, <2>2, <2>3, <2>4
<1>7. ASSUME NEW i \in 1 .. m PROVE ss[i] = tt[i]
  BY <1>2, <1>3, <1>4, <1>5 DEF CoreParts
<1>8. /\ DOMAIN ss = 1 .. m /\ ss = [i \in 1 .. m |-> ss[i]]
      /\ DOMAIN tt = 1 .. k /\ tt = [i \in 1 .. k |-> tt[i]]
  BY <1>2, <1>3, <1>4, <1>5 DEF CoreParts
<1>9. tt \in Seq(Seq(Int)) /\ Len(tt) = k
  <2>1. \A i \in 1 .. k : tt[i] \in Seq(Int)
    BY <1>6
  <2>2. QED
    BY <1>8, <2>1, SMTT(30)
<1>10. ss \in Seq(Seq(Int)) /\ Len(ss) = m
  <2>1. ASSUME NEW i \in 1 .. m PROVE ss[i] \in Seq(Int)
    <3>1. i \in 1 .. k
      BY <1>3
    <3>2. QED
      BY <1>6, <1>7, <3>1
  <2>2. QED
    BY <1>8, <2>1
<1>11. FlattenSeq(tt) = FlattenSeq(ss) \o tt[k]
  BY <1>3, <1>7, <1>9, <1>10, FlattenAppend, ZenonT(60)
<1>12. tt[k] = CoresOf(ls[l])
  <2>1. k \in 1 .. k /\ a + k - 1 = l
    BY <1>1, <1>3
  <2>2. QED
    BY <1>6, <2>1
<1>13. CoresSaid(ls, a, l) = FlattenSeq(tt) /\ CoresSaid(ls, a, n) = FlattenSeq(ss)
  BY <1>4, <1>5 DEF CoresSaid, CoreParts
<1>14. FlattenSeq(ss) \in Seq(Int)
  BY <1>10, FlattenRange
<1>15. QED
  BY <1>11, <1>12, <1>13, <1>14

LEMMA ValueMore ==
  ASSUME NEW ls, NEW key, NEW default, NEW a, NEW n, NEW l, NextLine(a, n, l)
  PROVE  LastOf(ls, Valued(ls, key, a, l), default) =
           IF ls[l][1] = key /\ ls[l][2] # <<>> THEN ls[l][2]
           ELSE LastOf(ls, Valued(ls, key, a, n), default)
<1>1. CASE ls[l][1] = key /\ ls[l][2] # <<>>
  <2>1. PICK T : T = Valued(ls, key, a, l)
    OBVIOUS
  <2>2. TopOf(T, l)
    BY <1>1, <2>1 DEF NextLine, Valued, TopOf
  <2>3. LastOf(ls, T, default) = ls[l][2]
    BY <2>2, LastOfMore
  <2>4. QED
    BY <1>1, <2>1, <2>3
<1>2. CASE ~ (ls[l][1] = key /\ ls[l][2] # <<>>)
  BY <1>2, ValuedMore
<1>3. QED
  BY <1>1, <1>2

LEMMA BooleanMore ==
  ASSUME NEW ls, NEW key, NEW default, NEW a, NEW n, NEW l, NextLine(a, n, l)
  PROVE  LastOf(ls, Booleans(ls, key, a, l), default) =
           IF ls[l][1] = key /\ IsBoolean(ls[l][2]) THEN ls[l][2]
           ELSE LastOf(ls, Booleans(ls, key, a, n), default)
<1>1. CASE ls[l][1] = key /\ IsBoolean(ls[l][2])
  <2>1. PICK T : T = Booleans(ls, key, a, l)
    OBVIOUS
  <2>2. TopOf(T, l)
    BY <1>1, <2>1 DEF NextLine, Booleans, TopOf
  <2>3. LastOf(ls, T, default) = ls[l][2]
    BY <2>2, LastOfMore
  <2>4. QED
    BY <1>1, <2>1, <2>3
<1>2. CASE ~ (ls[l][1] = key /\ IsBoolean(ls[l][2]))
  BY <1>2, BooleansMore
<1>3. QED
  BY <1>1, <1>2

\* What a line of a plugin's key writes to a slot: t is s with it.
KeyWritten(t, s, key, value) ==
  /\ DOMAIN t = DOMAIN s /\ t.regex = s.regex /\ t.open = s.open
  /\ t.filename = (IF key = "filename" /\ value # <<>> THEN value ELSE s.filename)
  /\ t.plugin_id = (IF key = "plugin_id" /\ value # <<>> THEN value ELSE s.plugin_id)
  /\ t.ip = (IF key = "listen_ip" /\ value # <<>> THEN value ELSE s.ip)
  /\ t.core_ids = s.core_ids \o CoresOf(<<key, value>>)
  /\ t.all_nondedicated_cores =
       (IF key = "all_nondedicated_cores" /\ IsBoolean(value) THEN value = <<"true">>
        ELSE s.all_nondedicated_cores)
  /\ t.optimized = (IF key = "optimized" /\ IsBoolean(value) THEN value = <<"true">>
                    ELSE s.optimized)

LEMMA PluginKeyWrites ==
  ASSUME NEW s, PluginOK(s), NEW key, NEW value
  PROVE  KeyWritten(PluginKey(s, key, value), s, key, value)
<1>1. DOMAIN s = DOMAIN EmptySlot /\ s.core_ids \in Seq(Int) /\ s.core_ids \o <<>> = s.core_ids
  BY DEF PluginOK
<1>2. PICK t : t = PluginKey(s, key, value)
  OBVIOUS
<1>3. IsBoolean(value) => value # <<>>
  BY DEF IsBoolean
<1>4. CASE value = <<>>
  <2>1. t = s /\ CoresOf(<<key, value>>) = <<>>
    BY <1>2, <1>4 DEF PluginKey, CoresOf
  <2>2. QED
    BY <1>1, <1>2, <1>3, <1>4, <2>1 DEF KeyWritten
<1>5. CASE value # <<>> /\ key = "filename"
  <2>1. t = [s EXCEPT !.filename = value] /\ CoresOf(<<key, value>>) = <<>>
    BY <1>2, <1>5 DEF PluginKey, CoresOf
  <2>2. QED
    BY <1>1, <1>2, <1>5, <2>1 DEF KeyWritten, EmptySlot
<1>6. CASE value # <<>> /\ key = "plugin_id"
  <2>1. t = [s EXCEPT !.plugin_id = value] /\ CoresOf(<<key, value>>) = <<>>
    BY <1>2, <1>6 DEF PluginKey, CoresOf
  <2>2. QED
    BY <1>1, <1>2, <1>6, <2>1 DEF KeyWritten, EmptySlot
<1>7. CASE value # <<>> /\ key = "listen_ip"
  <2>1. t = [s EXCEPT !.ip = value] /\ CoresOf(<<key, value>>) = <<>>
    BY <1>2, <1>7 DEF PluginKey, CoresOf
  <2>2. QED
    BY <1>1, <1>2, <1>7, <2>1 DEF KeyWritten, EmptySlot
<1>8. CASE value # <<>> /\ key = "core_id"
  <2>1. t = [s EXCEPT !.core_ids = @ \o value] /\ CoresOf(<<key, value>>) = value
    BY <1>2, <1>8 DEF PluginKey, CoresOf
  <2>2. QED
    BY <1>1, <1>2, <1>8, <2>1 DEF KeyWritten, EmptySlot
<1>9. CASE value # <<>> /\ key = "all_nondedicated_cores"
  <2>1. t = (IF IsBoolean(value) THEN [s EXCEPT !.all_nondedicated_cores = (value = <<"true">>)] ELSE s)
    BY <1>2, <1>9 DEF PluginKey
  <2>2. CoresOf(<<key, value>>) = <<>>
    BY <1>9 DEF CoresOf
  <2>3. QED
    BY <1>1, <1>2, <1>9, <2>1, <2>2 DEF KeyWritten, EmptySlot
<1>10. CASE value # <<>> /\ key = "optimized"
  <2>1. t = (IF IsBoolean(value) THEN [s EXCEPT !.optimized = (value = <<"true">>)] ELSE s)
    BY <1>2, <1>10 DEF PluginKey
  <2>2. CoresOf(<<key, value>>) = <<>>
    BY <1>10 DEF CoresOf
  <2>3. QED
    BY <1>1, <1>2, <1>10, <2>1, <2>2 DEF KeyWritten, EmptySlot
<1>11. CASE key \notin {"filename", "plugin_id", "listen_ip", "core_id",
                        "all_nondedicated_cores", "optimized"}
  <2>1. t = s /\ CoresOf(<<key, value>>) = <<>>
    BY <1>2, <1>11 DEF PluginKey, CoresOf
  <2>2. QED
    BY <1>1, <1>2, <1>11, <2>1 DEF KeyWritten
<1>12. QED
  BY <1>4, <1>5, <1>6, <1>7, <1>8, <1>9, <1>10, <1>11

LEMMA KeysLine ==
  ASSUME NEW ls \in Seq(FileLines), NEW a, NEW n, NEW l, NextLine(a, n, l), 1 <= a,
         l <= Len(ls), NEW s, KeysSaid(s, ls, a, n),
         NEW t, KeyWritten(t, s, ls[l][1], ls[l][2])
  PROVE  KeysSaid(t, ls, a, l)
<1>1. PICK key, value : key = ls[l][1] /\ value = ls[l][2]
  OBVIOUS
<1>2. /\ t.filename = LastOf(ls, Valued(ls, "filename", a, l), NULL)
      /\ t.plugin_id = LastOf(ls, Valued(ls, "plugin_id", a, l), NULL)
      /\ t.ip = LastOf(ls, Valued(ls, "listen_ip", a, l), NULL)
  BY ValueMore DEF KeysSaid, KeyWritten
<1>3. t.core_ids = CoresSaid(ls, a, l)
  <2>1. CoresOf(<<ls[l][1], ls[l][2]>>) = CoresOf(ls[l])
    BY DEF CoresOf
  <2>2. CoresSaid(ls, a, l) = CoresSaid(ls, a, n) \o CoresOf(ls[l])
    BY CoresMore
  <2>3. QED
    BY <2>1, <2>2, Zenon DEF KeysSaid, KeyWritten
<1>4. t.all_nondedicated_cores =
        (LastOf(ls, Booleans(ls, "all_nondedicated_cores", a, l), NULL) = <<"true">>)
  <2>1. PICK x, y : /\ x = LastOf(ls, Booleans(ls, "all_nondedicated_cores", a, n), NULL)
                    /\ y = LastOf(ls, Booleans(ls, "all_nondedicated_cores", a, l), NULL)
    OBVIOUS
  <2>2. s.all_nondedicated_cores = (x = <<"true">>)
    BY <2>1, Zenon DEF KeysSaid
  <2>3. CASE key = "all_nondedicated_cores" /\ IsBoolean(value)
    <3>1. y = value
      <4>1. y = IF ls[l][1] = "all_nondedicated_cores" /\ IsBoolean(ls[l][2]) THEN ls[l][2] ELSE x
        BY <2>1, BooleanMore, Zenon
      <4>2. QED
        BY <1>1, <2>3, <4>1, Zenon
    <3>2. t.all_nondedicated_cores = (value = <<"true">>)
      BY <1>1, <2>3, Zenon DEF KeyWritten
    <3>3. QED
      BY <2>1, <3>1, <3>2, Zenon
  <2>4. CASE ~ (key = "all_nondedicated_cores" /\ IsBoolean(value))
    <3>1. y = x
      BY <1>1, <2>1, <2>4, BooleanMore
    <3>2. t.all_nondedicated_cores = s.all_nondedicated_cores
      BY <1>1, <2>4, Zenon DEF KeyWritten
    <3>3. QED
      BY <2>1, <2>2, <3>1, <3>2, Zenon
  <2>5. QED
    BY <2>3, <2>4
<1>5. t.optimized = (LastOf(ls, Booleans(ls, "optimized", a, l), NULL) = <<"true">>)
  <2>1. PICK x, y : /\ x = LastOf(ls, Booleans(ls, "optimized", a, n), NULL)
                    /\ y = LastOf(ls, Booleans(ls, "optimized", a, l), NULL)
    OBVIOUS
  <2>2. s.optimized = (x = <<"true">>)
    BY <2>1, Zenon DEF KeysSaid
  <2>3. CASE key = "optimized" /\ IsBoolean(value)
    <3>1. y = value
      <4>1. y = IF ls[l][1] = "optimized" /\ IsBoolean(ls[l][2]) THEN ls[l][2] ELSE x
        BY <2>1, BooleanMore, Zenon
      <4>2. QED
        BY <1>1, <2>3, <4>1, Zenon
    <3>2. t.optimized = (value = <<"true">>)
      BY <1>1, <2>3, Zenon DEF KeyWritten
    <3>3. QED
      BY <2>1, <3>1, <3>2, Zenon
  <2>4. CASE ~ (key = "optimized" /\ IsBoolean(value))
    <3>1. y = x
      BY <1>1, <2>1, <2>4, BooleanMore
    <3>2. t.optimized = s.optimized
      BY <1>1, <2>4, Zenon DEF KeyWritten
    <3>3. QED
      BY <2>1, <2>2, <3>1, <3>2, Zenon
  <2>5. QED
    BY <2>3, <2>4
<1>6. QED
  BY <1>2, <1>3, <1>4, <1>5, Zenon DEF KeysSaid

LEMMA KeysOpen ==
  ASSUME NEW ls, NEW a, NEW n, NoneOf(a, n)
  PROVE  KeysSaid(EmptySlot, ls, a, n)
<1>1. /\ Valued(ls, "filename", a, n) = {} /\ Valued(ls, "plugin_id", a, n) = {}
      /\ Valued(ls, "listen_ip", a, n) = {}
      /\ Booleans(ls, "all_nondedicated_cores", a, n) = {}
      /\ Booleans(ls, "optimized", a, n) = {}
  BY NoLines
<1>2. CoresSaid(ls, a, n) = <<>>
  <2>1. PICK ss : ss = CoreParts(ls, a, n)
    OBVIOUS
  <2>2. ss = [i \in 1 .. 0 |-> ss[i]]
    <3>1. n - a + 1 = 0
      BY DEF NoneOf
    <3>2. QED
      BY <2>1, <3>1 DEF CoreParts
  <2>3. ss \in Seq(Seq(Int)) /\ Len(ss) = 0
    BY <2>2
  <2>4. PICK f \in [0 .. 0 -> Seq(Int)] : f[0] = <<>> /\ FlattenSeq(ss) = f[0]
    BY <2>3, FlattenRec
  <2>5. QED
    BY <2>1, <2>4 DEF CoresSaid, CoreParts
<1>3. NULL # <<"true">>
  BY DEF NULL
<1>4. QED
  BY <1>1, <1>2, <1>3 DEF KeysSaid, EmptySlot, LastOf

-----------------------------------------------------------------------------
(* A line and what it makes of the open plugin and of the plugins.         *)

\* The open plugin s holds what the lines a .. n say.
OpenSaid(s, ls, a, n) ==
  /\ KeysSaid(s, ls, a, n) /\ RegexesSaid(s.regex, ls, a, n)
  /\ RegexSaid(s.open, ls, Start(ls, "fields", a, n), n) /\ DOMAIN s.open = RegexKeys

LEMMA PlainKeyWritten ==
  ASSUME NEW s, PluginOK(s), NEW key, NEW value,
         key \notin {"filename", "plugin_id", "listen_ip", "core_id",
                     "all_nondedicated_cores", "optimized"}
  PROVE  KeyWritten(s, s, key, value)
<1>1. CoresOf(<<key, value>>) = <<>>
  BY DEF CoresOf
<1>2. s.core_ids \o <<>> = s.core_ids
  BY DEF PluginOK
<1>3. QED
  BY <1>1, <1>2 DEF KeyWritten

\* The first line of the open regex.
LEMMA RegexFrom ==
  ASSUME NEW ls, NEW a, NEW n, NEW l, NextLine(a, n, l), 1 <= a
  PROVE  NextLine(Start(ls, "fields", a, n), n, l)
<1>1. a \in Nat /\ n \in Nat /\ l \in Nat /\ l = n + 1 /\ a <= n + 1
  BY DEF NextLine
<1>2. Start(ls, "fields", a, n) \in a .. n + 1
  BY <1>1, StartWithin
<1>3. QED
  BY <1>1, <1>2 DEF NextLine

LEMMA OpenStarts ==
  ASSUME NEW ls, NEW a, NEW n, NoneOf(a, n)
  PROVE  OpenSaid(EmptySlot, ls, a, n)
<1>1. Valued(ls, "fields", a, n) = {} /\ Start(ls, "fields", a, n) = a
  BY NoLines
<1>2. EmptySlot.regex = <<>> /\ EmptySlot.open = EmptyRegex /\ Len(<<>>) = 0
  BY DEF EmptySlot
<1>3. RegexesSaid(EmptySlot.regex, ls, a, n)
  BY <1>1, <1>2, FS_EmptySet DEF RegexesSaid
<1>4. RegexSaid(EmptyRegex, ls, a, n) /\ DOMAIN EmptyRegex = RegexKeys
  BY RegexOpens
<1>5. KeysSaid(EmptySlot, ls, a, n)
  BY KeysOpen
<1>6. QED
  BY <1>1, <1>2, <1>3, <1>4, <1>5 DEF OpenSaid

LEMMA OpenKeyLine ==
  ASSUME NEW ls \in Seq(FileLines), NEW a, NEW n, NEW l, NextLine(a, n, l), 1 <= a,
         l <= Len(ls), ls[l][1] \notin RegexKeys, NEW s, PluginOK(s), OpenSaid(s, ls, a, n)
  PROVE  OpenSaid(PluginKey(s, ls[l][1], ls[l][2]), ls, a, l)
<1>1. PICK t : t = PluginKey(s, ls[l][1], ls[l][2])
  OBVIOUS
<1>2. KeyWritten(t, s, ls[l][1], ls[l][2])
  BY <1>1, PluginKeyWrites
<1>3. KeysSaid(t, ls, a, l)
  BY <1>2, KeysLine DEF OpenSaid
<1>4. ls[l][1] # "fields"
  BY DEF RegexKeys
<1>5. t.regex = s.regex /\ t.open = s.open
  BY <1>2 DEF KeyWritten
<1>6. RegexesSaid(t.regex, ls, a, l)
  BY <1>4, <1>5, RegexesStay DEF OpenSaid
<1>7. PICK c : c = Start(ls, "fields", a, n)
  OBVIOUS
<1>8. NextLine(c, n, l) /\ Start(ls, "fields", a, l) = c
  BY <1>4, <1>7, RegexFrom, StartSame
<1>9. RegexSaid(t.open, ls, c, l)
  BY <1>5, <1>7, <1>8, RegexStays DEF OpenSaid
<1>10. QED
  BY <1>1, <1>3, <1>5, <1>6, <1>8, <1>9 DEF OpenSaid

\* Lines of regexes leave the other keys as they are.
LEMMA KeysStay ==
  ASSUME NEW ls \in Seq(FileLines), NEW a, NEW n, NEW l, NextLine(a, n, l), 1 <= a,
         l <= Len(ls), ls[l][1] \in RegexKeys \cup {"end"},
         NEW s, PluginOK(s), KeysSaid(s, ls, a, n)
  PROVE  KeysSaid(s, ls, a, l)
<1>1. ls[l][1] \notin {"filename", "plugin_id", "listen_ip", "core_id",
                       "all_nondedicated_cores", "optimized"}
  BY DEF RegexKeys
<1>2. KeyWritten(s, s, ls[l][1], ls[l][2])
  BY <1>1, PlainKeyWritten
<1>3. QED
  BY <1>2, KeysLine

SameKeys(t, s) ==
  /\ t.filename = s.filename /\ t.plugin_id = s.plugin_id /\ t.ip = s.ip
  /\ t.core_ids = s.core_ids /\ t.all_nondedicated_cores = s.all_nondedicated_cores
  /\ t.optimized = s.optimized
\* What a line of a regex's key writes to a slot: t is s with it, r the open regex with it.
RegexWritten(t, s, key, r) ==
  /\ SameKeys(t, s)
  /\ t.regex = IF key = "fields" THEN Append(s.regex, r) ELSE s.regex
  /\ t.open = IF key = "fields" THEN EmptyRegex ELSE r
LEMMA RegexKeyWrites ==
  ASSUME NEW s, PluginOK(s), NEW key, NEW value
  PROVE  RegexWritten(RegexKey(s, key, value), s, key, [s.open EXCEPT ![key] = value])
<1>1. DOMAIN s = DOMAIN EmptySlot
  BY DEF PluginOK
<1>2. PICK t : t = RegexKey(s, key, value)
  OBVIOUS
<1>3. PICK r : r = [s.open EXCEPT ![key] = value]
  OBVIOUS
<1>4. CASE key = "fields"
  <2>1. PICK rs : rs = Append(s.regex, r)
    OBVIOUS
  <2>2. t = [s EXCEPT !.regex = rs, !.open = EmptyRegex]
    BY <1>2, <1>3, <1>4, <2>1 DEF RegexKey
  <2>3. t.regex = rs /\ t.open = EmptyRegex /\ SameKeys(t, s)
    BY <1>1, <2>2 DEF SameKeys, EmptySlot
  <2>4. QED
    BY <1>2, <1>3, <1>4, <2>1, <2>3 DEF RegexWritten
<1>5. CASE key # "fields"
  <2>1. t = [s EXCEPT !.open = r]
    BY <1>2, <1>3, <1>5 DEF RegexKey
  <2>2. t.regex = s.regex /\ t.open = r /\ SameKeys(t, s)
    BY <1>1, <2>1 DEF SameKeys, EmptySlot
  <2>3. QED
    BY <1>2, <1>3, <1>5, <2>2 DEF RegexWritten
<1>6. QED
  BY <1>4, <1>5

LEMMA OpenRegexLine ==
  ASSUME NEW ls \in Seq(FileLines), NEW a, NEW n, NEW l, NextLine(a, n, l), 1 <= a,
         l <= Len(ls), ls[l][1] \in RegexKeys, ls[l][1] = "fields" => ls[l][2] # <<>>,
         NEW s, PluginOK(s), OpenSaid(s, ls, a, n)
  PROVE  OpenSaid(RegexKey(s, ls[l][1], ls[l][2]), ls, a, l)
<1>1. PICK t : t = RegexKey(s, ls[l][1], ls[l][2])
  OBVIOUS
<1>2. PICK r : r = [s.open EXCEPT ![ls[l][1]] = ls[l][2]]
  OBVIOUS
<1>3. RegexWritten(t, s, ls[l][1], r)
  BY <1>1, <1>2, RegexKeyWrites, Zenon
<1>4. KeysSaid(t, ls, a, l)
  <2>1. KeysSaid(s, ls, a, l)
    BY KeysStay DEF OpenSaid
  <2>2. SameKeys(t, s)
    BY <1>3 DEF RegexWritten
  <2>3. QED
    BY <2>1, <2>2, Zenon DEF KeysSaid, SameKeys
<1>5. PICK c : c = Start(ls, "fields", a, n)
  OBVIOUS
<1>6. NextLine(c, n, l)
  BY <1>5, RegexFrom
<1>7. RegexSaid(r, ls, c, l) /\ DOMAIN r = RegexKeys
  BY <1>5, <1>6, <1>2, RegexLine DEF OpenSaid
<1>8. CASE ls[l][1] # "fields"
  <2>1. t.regex = s.regex /\ t.open = r
    BY <1>3, <1>8 DEF RegexWritten
  <2>2. RegexesSaid(t.regex, ls, a, l)
    BY <1>8, <2>1, RegexesStay DEF OpenSaid
  <2>3. Start(ls, "fields", a, l) = c
    BY <1>5, <1>8, StartSame
  <2>4. QED
    BY <1>1, <1>4, <1>7, <2>1, <2>2, <2>3 DEF OpenSaid
<1>9. CASE ls[l][1] = "fields"
  <2>1. t.regex = Append(s.regex, r) /\ t.open = EmptyRegex
    BY <1>3, <1>9 DEF RegexWritten
  <2>2. PICK rs : rs = s.regex
    OBVIOUS
  <2>3. PICK V : rs \in Seq(V)
    BY <2>2 DEF PluginOK, IsSeq
  <2>4. RegexesSaid(Append(rs, r), ls, a, l)
    BY <1>5, <1>7, <1>9, <2>2, <2>3, RegexEnds DEF OpenSaid
  <2>5. Start(ls, "fields", a, l) = l + 1
    BY <1>9, StartAfter
  <2>6. RegexSaid(EmptyRegex, ls, l + 1, l) /\ DOMAIN EmptyRegex = RegexKeys
    <3>1. NoneOf(l + 1, l)
      BY DEF NextLine, NoneOf
    <3>2. QED
      BY <3>1, RegexOpens, Zenon
  <2>7. QED
    BY <1>1, <1>4, <2>1, <2>2, <2>4, <2>5, <2>6 DEF OpenSaid
<1>10. QED
  BY <1>8, <1>9

LEMMA PluginEnds ==
  ASSUME NEW ls, NEW n, NEW l, NextLine(1, n, l), ls[l][1] = "end", ls[l][2] # <<>>,
         NEW V, NEW ps \in Seq(V), PluginsSaid(ps, ls, n),
         NEW p, PluginSaid(p, ls, Start(ls, "end", 1, n), l)
  PROVE  PluginsSaid(Append(ps, p), ls, l)
<1>1. PICK e \in Nat : e = Ended(ls, "end", 1, n)
  BY EndedMore
<1>2. Len(ps) = e /\ Ended(ls, "end", 1, l) = e + 1
  BY <1>1, EndedMore DEF PluginsSaid, Ended
<1>3. Valued(ls, "end", 1, l) = Valued(ls, "end", 1, n) \cup {l}
  BY ValuedMore
<1>4. PICK t : t = Append(ps, p)
  OBVIOUS
<1>5. Len(t) = e + 1 /\ t[e + 1] = p /\ \A k \in 1 .. e : t[k] = ps[k]
  BY <1>2, <1>4
<1>6. ASSUME NEW i \in Valued(ls, "end", 1, l)
      PROVE  PluginSaid(t[Ended(ls, "end", 1, i)], ls, Start(ls, "end", 1, i - 1), i)
  <2>1. CASE i = l
    <3>1. i - 1 = n
      BY <2>1 DEF NextLine
    <3>2. QED
      BY <1>2, <1>5, <2>1, <3>1
  <2>2. CASE i \in Valued(ls, "end", 1, n)
    <3>1. Ended(ls, "end", 1, i) \in 1 .. e
      BY <1>1, <2>2, EndedBefore DEF NextLine
    <3>2. PluginSaid(ps[Ended(ls, "end", 1, i)], ls, Start(ls, "end", 1, i - 1), i)
      BY <2>2 DEF PluginsSaid, Ended
    <3>3. QED
      BY <1>5, <3>1, <3>2
  <2>3. QED
    BY <1>3, <2>1, <2>2
<1>7. PluginsSaid(t, ls, l)
  BY <1>2, <1>5, <1>6 DEF PluginsSaid, Ended
<1>8. QED
  BY <1>4, <1>7

LEMMA PluginsStay ==
  ASSUME NEW ls, NEW n, NEW l, NextLine(1, n, l), ~ (ls[l][1] = "end" /\ ls[l][2] # <<>>),
         NEW ps, PluginsSaid(ps, ls, n)
  PROVE  PluginsSaid(ps, ls, l)
<1>1. Valued(ls, "end", 1, l) = Valued(ls, "end", 1, n)
  BY ValuedMore
<1>2. QED
  BY <1>1 DEF PluginsSaid

\* After n lines: the plugins, the open plugin.
ReadRight(ps, s, ls, n) ==
  PluginsSaid(ps, ls, n) /\ OpenSaid(s, ls, Start(ls, "end", 1, n), n)
\* What evaluate_plugin makes of them.
LineTaken(ps, s, line, qs, t) ==
  IF line[1] = "end" /\ line[2] # <<>> THEN qs = Append(ps, s) /\ t = EmptySlot
  ELSE qs = ps /\ t = IF line[1] \in RegexKeys THEN RegexKey(s, line[1], line[2])
                      ELSE PluginKey(s, line[1], line[2])

LEMMA LineRead ==
  ASSUME NEW ls \in Seq(FileLines), NEW n, NEW l, NextLine(1, n, l), l <= Len(ls),
         NEW V, NEW ps \in Seq(V), NEW s, PluginOK(s), ReadRight(ps, s, ls, n),
         ls[l][1] = "fields" => ls[l][2] # <<>>,
         NEW qs, NEW t, LineTaken(ps, s, ls[l], qs, t)
  PROVE  ReadRight(qs, t, ls, l)
<1>1. PICK a : a = Start(ls, "end", 1, n)
  OBVIOUS
<1>2. PluginsSaid(ps, ls, n) /\ OpenSaid(s, ls, a, n)
  BY <1>1 DEF ReadRight
<1>3. NextLine(a, n, l) /\ 1 <= a
  <2>1. n \in Nat /\ l \in Nat /\ l = n + 1
    BY DEF NextLine
  <2>2. a \in 1 .. n + 1
    BY <1>1, <2>1, StartWithin
  <2>3. QED
    BY <2>1, <2>2 DEF NextLine
<1>4. CASE ls[l][1] = "end" /\ ls[l][2] # <<>>
  <2>1. qs = Append(ps, s) /\ t = EmptySlot
    BY <1>4 DEF LineTaken
  <2>2. KeysSaid(s, ls, a, l)
    BY <1>2, <1>3, <1>4, KeysStay DEF OpenSaid
  <2>3. RegexesSaid(s.regex, ls, a, l)
    BY <1>2, <1>3, <1>4, RegexesStay DEF OpenSaid
  <2>4. PluginSaid(s, ls, a, l)
    BY <2>2, <2>3 DEF PluginSaid
  <2>5. PluginsSaid(Append(ps, s), ls, l)
    BY <1>1, <1>2, <1>4, <2>4, PluginEnds
  <2>6. PICK m : m = l + 1
    OBVIOUS
  <2>7. Start(ls, "end", 1, l) = m
    BY <1>4, <2>6, StartAfter
  <2>8. OpenSaid(EmptySlot, ls, m, l)
    <3>1. NoneOf(m, l)
      BY <2>6 DEF NextLine, NoneOf
    <3>2. QED
      BY <3>1, OpenStarts
  <2>9. QED
    BY <2>1, <2>5, <2>7, <2>8 DEF ReadRight
<1>5. CASE ~ (ls[l][1] = "end" /\ ls[l][2] # <<>>)
  <2>1. qs = ps /\ t = IF ls[l][1] \in RegexKeys THEN RegexKey(s, ls[l][1], ls[l][2])
                       ELSE PluginKey(s, ls[l][1], ls[l][2])
    BY <1>5 DEF LineTaken
  <2>2. PluginsSaid(ps, ls, l)
    BY <1>2, <1>5, PluginsStay
  <2>3. Start(ls, "end", 1, l) = a
    BY <1>1, <1>5, StartSame
  <2>4. OpenSaid(t, ls, a, l)
    <3>1. CASE ls[l][1] \in RegexKeys
      BY <1>2, <1>3, <2>1, <3>1, OpenRegexLine
    <3>2. CASE ls[l][1] \notin RegexKeys
      BY <1>2, <1>3, <2>1, <3>2, OpenKeyLine
    <3>3. QED
      BY <3>1, <3>2
  <2>5. QED
    BY <2>1, <2>2, <2>3, <2>4 DEF ReadRight
<1>6. QED
  BY <1>4, <1>5

LEMMA NothingRead ==
  ASSUME NEW ls
  PROVE  ReadRight(<<>>, EmptySlot, ls, 0)
<1>1. NoneOf(1, 0)
  BY DEF NoneOf
<1>2. Valued(ls, "end", 1, 0) = {} /\ Start(ls, "end", 1, 0) = 1
  BY <1>1, NoLines
<1>3. PluginsSaid(<<>>, ls, 0)
  BY <1>2, FS_EmptySet DEF PluginsSaid
<1>4. OpenSaid(EmptySlot, ls, 1, 0)
  BY <1>1, OpenStarts
<1>5. QED
  BY <1>2, <1>3, <1>4 DEF ReadRight

-----------------------------------------------------------------------------
(* The configuration: which plugin files.                                  *)

\* The first k lines of ls, line by line.
ConfigRounds(h, ls, k) ==
  /\ h[0] = Defaults
  /\ \A i \in 1 .. k : h[i] = ConfigKey(h[i - 1], ls[i][1], ls[i][2])

LEMMA ConfigTo ==
  ASSUME NEW ls, NEW n \in Nat
  PROVE  \E h : ConfigRounds(h, ls, n)
<1> DEFINE S == {k \in 0 .. n : \E h : ConfigRounds(h, ls, k)}
<1>1. 0 \in S
  <2>1. PICK h : h = [i \in {0} |-> Defaults]
    OBVIOUS
  <2>2. ConfigRounds(h, ls, 0)
    BY <2>1 DEF ConfigRounds
  <2>3. QED
    BY <2>2
<1>2. ASSUME NEW k \in Nat, k < n /\ k \in S PROVE k + 1 \in S
  <2>1. PICK h : ConfigRounds(h, ls, k)
    BY <1>2
  <2>2. PICK l \in Nat : l = k + 1 /\ l \in 0 .. n
    BY <1>2
  <2>3. PICK g : g = [i \in 0 .. l |-> IF i = l THEN ConfigKey(h[k], ls[l][1], ls[l][2]) ELSE h[i]]
    OBVIOUS
  <2>4. g[0] = h[0] /\ \A i \in 1 .. k : g[i] = h[i] /\ g[i - 1] = h[i - 1]
    BY <2>2, <2>3
  <2>5. g[k] = h[k]
    BY <2>2, <2>3
  <2>6. g[l] = ConfigKey(h[k], ls[l][1], ls[l][2])
    BY <2>2, <2>3
  <2>7. ASSUME NEW i \in 1 .. l PROVE g[i] = ConfigKey(g[i - 1], ls[i][1], ls[i][2])
    <3>1. CASE i = l
      <4>1. i - 1 = k
        BY <2>2, <3>1
      <4>2. QED
        BY <2>5, <2>6, <3>1, <4>1
    <3>2. CASE i # l
      <4>1. i \in 1 .. k
        BY <2>2, <3>2
      <4>2. QED
        BY <2>1, <2>4, <4>1 DEF ConfigRounds
    <3>3. QED
      BY <3>1, <3>2
  <2>8. ConfigRounds(g, ls, l)
    BY <2>1, <2>4, <2>7 DEF ConfigRounds
  <2>9. \E u : ConfigRounds(u, ls, l)
    BY <2>8
  <2>10. QED
    BY <2>2, <2>9
<1>3. \A k \in 0 .. n : k \in S
  <2> HIDE DEF S
  <2>1. QED
    BY <1>1, <1>2, UpTo
<1>4. n \in S
  <2>1. n \in 0 .. n
    OBVIOUS
  <2>2. QED
    BY <1>3, <2>1
<1>5. QED
  BY <1>4

\* Configured runs through them.
LEMMA ConfiguredRounds ==
  ASSUME NEW V, NEW ls \in Seq(V)
  PROVE  \E h : ConfigRounds(h, ls, Len(ls)) /\ Configured(ls) = h[Len(ls)]
<1>1. PICK n \in Nat : n = Len(ls)
  OBVIOUS
<1> DEFINE Turn(h, i) == ConfigKey(h[i - 1], ls[i][1], ls[i][2])
           Eq(h) == h = [i \in 0 .. n |-> IF i = 0 THEN Defaults ELSE Turn(h, i)]
           c == CHOOSE h : Eq(h)
<1>2. PICK f : ConfigRounds(f, ls, n)
  BY ConfigTo
<1>3. f[0] = Defaults /\ \A i \in 1 .. n : f[i] = Turn(f, i)
  BY <1>2 DEF ConfigRounds
<1>4. Eq([i \in 0 .. n |-> f[i]])
  <2> SUFFICES ASSUME NEW i \in 0 .. n
               PROVE  f[i] = IF i = 0 THEN Defaults ELSE Turn([j \in 0 .. n |-> f[j]], i)
    BY Zenon
  <2>1. CASE i = 0
    BY <1>3, <2>1
  <2>2. CASE i # 0
    <3>1. i - 1 \in 0 .. n /\ i \in 1 .. n
      BY <2>2
    <3>2. [j \in 0 .. n |-> f[j]][i - 1] = f[i - 1]
      BY <3>1
    <3>3. QED
      BY <1>3, <2>2, <3>1, <3>2
  <2>3. QED
    BY <2>1, <2>2
<1>5. Eq(c)
  BY <1>4, Zenon
<1>6. ASSUME NEW i \in 0 .. n PROVE c[i] = IF i = 0 THEN Defaults ELSE Turn(c, i)
  BY <1>5, Zenon
<1>7. PICK h : h = c
  OBVIOUS
<1>8. h[0] = Defaults
  BY <1>6, <1>7
<1>9. ASSUME NEW i \in 1 .. n PROVE h[i] = ConfigKey(h[i - 1], ls[i][1], ls[i][2])
  <2>1. i \in 0 .. n /\ i # 0
    OBVIOUS
  <2>2. c[i] = Turn(c, i)
    BY <1>6, <2>1, Zenon
  <2>3. QED
    BY <1>7, <2>2, Zenon
<1>10. ConfigRounds(h, ls, n)
  BY <1>8, <1>9 DEF ConfigRounds
<1>11. Configured(ls) = h[n]
  BY <1>1, <1>7, Zenon DEF Configured
<1>12. QED
  BY <1>1, <1>10, <1>11

LEMMA ConcatSeq ==
  ASSUME NEW V, NEW s \in Seq(V), NEW t \in Seq(V)
  PROVE  s \o t \in Seq(V)
OBVIOUS

ConfigOK(c) == DOMAIN c = DOMAIN Defaults /\ c.plugin_file \in Seq(STRING)
LEMMA ConfigKeyOK ==
  ASSUME NEW c, ConfigOK(c), NEW key, NEW value, key = "plugin_file" => value \in Seq(STRING)
  PROVE  ConfigOK(ConfigKey(c, key, value))
<1>1. PICK t : t = ConfigKey(c, key, value)
  OBVIOUS
<1>2. CASE key \in {"temp_file_size", "json_file_size"}
  <2>1. PICK size : size = SizeOf(value)
    OBVIOUS
  <2>2. t = [c EXCEPT ![key] = size]
    BY <1>1, <1>2, <2>1 DEF ConfigKey
  <2>3. QED
    BY <1>1, <1>2, <2>2 DEF ConfigOK, Defaults
<1>3. CASE value = <<>> \/ key \notin DOMAIN Defaults
  <2>1. key \notin {"temp_file_size", "json_file_size"} => t = c
    BY <1>1, <1>3 DEF ConfigKey
  <2>2. QED
    BY <1>1, <1>2, <2>1
<1>4. CASE key = "plugin_file" /\ value # <<>>
  <2>1. t = [c EXCEPT !.plugin_file = c.plugin_file \o value]
    BY <1>1, <1>4 DEF ConfigKey, Defaults
  <2>5. PICK s \in Seq(STRING) : s = c.plugin_file
    BY DEF ConfigOK
  <2>6. PICK v \in Seq(STRING) : v = value
    BY <1>4
  <2>7. s \o v \in Seq(STRING)
    BY ConcatSeq
  <2>2. PICK names \in Seq(STRING) : names = c.plugin_file \o value
    BY <2>5, <2>6, <2>7
  <2>3. t = [c EXCEPT !.plugin_file = names]
    BY <2>1, <2>2
  <2>4. QED
    BY <1>1, <2>3 DEF ConfigOK, Defaults
<1>5. CASE /\ key \in DOMAIN Defaults /\ value # <<>>
           /\ key \notin {"plugin_file", "temp_file_size", "json_file_size"}
  <2>1. PICK v : v = IF key = "udp_socket" THEN c[key] \o value ELSE value
    OBVIOUS
  <2>2. t = [c EXCEPT ![key] = v]
    BY <1>1, <1>5, <2>1 DEF ConfigKey
  <2>3. QED
    BY <1>1, <1>5, <2>2 DEF ConfigOK, Defaults
<1>6. QED
  BY <1>2, <1>3, <1>4, <1>5

\* The configuration names its plugin files.
LEMMA ConfigNames ==
  ASSUME NEW inp \in Inputs, NEW f \in DOMAIN inp.files
  PROVE  Configured(inp.files[f]).plugin_file \in Seq(STRING)
<1>1. PICK ls \in Seq(FileLines) : ls = inp.files[f]
  BY FileSeq
<1>2. PICK n \in Nat : n = Len(ls)
  OBVIOUS
<1>3. PICK h : ConfigRounds(h, ls, n) /\ Configured(ls) = h[n]
  BY <1>2, ConfiguredRounds
<1>4. ASSUME NEW i \in 1 .. n PROVE ls[i][1] = "plugin_file" => ls[i][2] \in Seq(STRING)
  <2>1. ls[i] \in ToSet(inp.files[f])
    BY <1>1, <1>2 DEF ToSet
  <2>2. QED
    BY <2>1, InputsAssumption
<1> DEFINE S == {k \in 0 .. n : ConfigOK(h[k])}
<1>5. 0 \in S
  <2>1. <<>> \in Seq(STRING)
    OBVIOUS
  <2>2. Defaults.plugin_file = <<>>
    BY DEF Defaults
  <2>3. ConfigOK(Defaults)
    BY <2>1, <2>2, Zenon DEF ConfigOK
  <2>4. h[0] = Defaults
    BY <1>3 DEF ConfigRounds
  <2>5. QED
    BY <2>3, <2>4
<1>6. ASSUME NEW k \in Nat, k < n /\ k \in S PROVE k + 1 \in S
  <2>1. PICK i \in 1 .. n : i = k + 1 /\ i - 1 = k
    BY <1>6
  <2>2. ConfigOK(h[k]) /\ h[i] = ConfigKey(h[k], ls[i][1], ls[i][2])
    BY <1>3, <1>6, <2>1 DEF ConfigRounds
  <2>3. ConfigOK(h[i])
    BY <1>4, <2>2, ConfigKeyOK
  <2>4. QED
    BY <2>1, <2>3
<1>7. \A k \in 0 .. n : k \in S
  <2> HIDE DEF S
  <2>1. QED
    BY <1>5, <1>6, UpTo
<1>8. n \in 0 .. n
  OBVIOUS
<1>9. QED
  BY <1>1, <1>3, <1>7, <1>8 DEF ConfigOK

-----------------------------------------------------------------------------
(* The plugin files, one after the other.                                  *)

\* The lines of the files d.
Bodies(inp, d) ==
  [k \in DOMAIN d |-> IF d[k] \in DOMAIN inp.files THEN inp.files[d[k]] ELSE <<>>]

LEMMA BodiesSeq ==
  ASSUME NEW inp \in Inputs, NEW d \in Seq(STRING)
  PROVE  /\ Bodies(inp, d) \in Seq(Seq(FileLines)) /\ Len(Bodies(inp, d)) = Len(d)
         /\ \A k \in DOMAIN d : d[k] \in DOMAIN inp.files => Bodies(inp, d)[k] = inp.files[d[k]]
<1>1. PICK m \in Nat : m = Len(d) /\ DOMAIN d = 1 .. m
  OBVIOUS
<1>2. PICK ss : ss = Bodies(inp, d)
  OBVIOUS
<1>3. ss = [k \in 1 .. m |-> IF d[k] \in DOMAIN inp.files THEN inp.files[d[k]] ELSE <<>>]
  BY <1>1, <1>2, Zenon DEF Bodies
<1>4. ASSUME NEW k \in 1 .. m
      PROVE  (IF d[k] \in DOMAIN inp.files THEN inp.files[d[k]] ELSE <<>>) \in Seq(FileLines)
  <2>1. CASE d[k] \in DOMAIN inp.files
    BY <2>1, FileSeq
  <2>2. CASE d[k] \notin DOMAIN inp.files
    BY <2>2
  <2>3. QED
    BY <2>1, <2>2
<1>5. ss \in [1 .. m -> Seq(FileLines)]
  BY <1>3, <1>4
<1>6. ss \in Seq(Seq(FileLines)) /\ Len(ss) = m
  BY <1>5
<1>7. QED
  BY <1>1, <1>2, <1>3, <1>6

\* The lines of the first k files.
FilesGrow(f, ss) ==
  /\ f \in [0 .. Len(ss) -> Seq(FileLines)]
  /\ f[0] = <<>> /\ f[Len(ss)] = FlattenSeq(ss)
  /\ \A i \in 1 .. Len(ss) : f[i] = f[i - 1] \o ss[i]
Ahead(ss) == CHOOSE f : FilesGrow(f, ss)

LEMMA AheadGrows ==
  ASSUME NEW ss \in Seq(Seq(FileLines))
  PROVE  FilesGrow(Ahead(ss), ss)
<1>1. PICK f \in [0 .. Len(ss) -> Seq(FileLines)] :
         /\ f[0] = <<>> /\ FlattenSeq(ss) = f[Len(ss)]
         /\ \A i \in 1 .. Len(ss) : f[i] = f[i - 1] \o ss[i]
  BY FlattenRec
<1>2. FilesGrow(f, ss)
  BY <1>1 DEF FilesGrow
<1>3. QED
  BY <1>2 DEF Ahead

\* s begins with r.
Begins(s, r) == Len(r) <= Len(s) /\ \A j \in 1 .. Len(r) : s[j] = r[j]
LEMMA BeginsConcat ==
  ASSUME NEW V, NEW r \in Seq(V), NEW s \in Seq(V), NEW t \in Seq(V), Begins(s, r)
  PROVE  Begins(s \o t, r)
<1>1. PICK a \in Nat : a = Len(r)
  OBVIOUS
<1>2. PICK b \in Nat : b = Len(s) /\ a <= b
  BY <1>1 DEF Begins
<1>3. PICK c \in Nat : c = Len(t)
  OBVIOUS
<1>4. Len(s \o t) = b + c /\ \A j \in 1 .. b : (s \o t)[j] = s[j]
  BY <1>2, <1>3
<1>5. \A j \in 1 .. a : j \in 1 .. b
  BY <1>2
<1>6. \A j \in 1 .. a : s[j] = r[j]
  BY <1>1 DEF Begins
<1>7. a <= b + c
  BY <1>2
<1>8. QED
  BY <1>1, <1>4, <1>5, <1>6, <1>7 DEF Begins

\* All the lines begin with those of the first k files.
LEMMA AheadBegins ==
  ASSUME NEW ss \in Seq(Seq(FileLines)), NEW k \in 0 .. Len(ss)
  PROVE  Begins(FlattenSeq(ss), Ahead(ss)[k])
<1>1. PICK m \in Nat : m = Len(ss)
  OBVIOUS
<1>2. PICK f : f = Ahead(ss)
  OBVIOUS
<1>3. /\ f \in [0 .. m -> Seq(FileLines)] /\ f[m] = FlattenSeq(ss)
      /\ \A i \in 1 .. m : f[i] = f[i - 1] \o ss[i]
  BY <1>1, <1>2, AheadGrows DEF FilesGrow
<1>4. PICK r \in Seq(FileLines) : r = f[k]
  BY <1>1, <1>3
<1>5. PICK c \in Nat : c = m - k
  <2>1. k \in 0 .. m
    BY <1>1
  <2>2. m - k \in Nat
    BY <2>1
  <2>3. QED
    BY <2>2
<1> DEFINE S == {i \in 0 .. c : Begins(f[k + i], r)}
<1>6. 0 \in S
  <2>1. k + 0 = k
    BY <1>1
  <2>2. Begins(r, r)
    BY DEF Begins
  <2>3. QED
    BY <1>4, <2>1, <2>2
<1>7. ASSUME NEW i \in Nat, i < c /\ i \in S PROVE i + 1 \in S
  <2>1. PICK l \in 1 .. m : l = k + (i + 1) /\ l - 1 = k + i
    BY <1>1, <1>5, <1>7
  <2>2. l - 1 \in 0 .. m
    BY <2>1
  <2>3. PICK s \in Seq(FileLines) : s = f[l - 1]
    BY <1>3, <2>2
  <2>4. PICK t \in Seq(FileLines) : t = ss[l]
    BY <1>1
  <2>5. Begins(s, r)
    BY <1>7, <2>1, <2>3
  <2>6. f[l] = s \o t
    BY <1>3, <2>3, <2>4
  <2>7. Begins(f[l], r)
    BY <2>5, <2>6, BeginsConcat
  <2>8. i + 1 \in 0 .. c
    BY <1>7
  <2>9. QED
    BY <2>1, <2>7, <2>8
<1>8. \A i \in 0 .. c : i \in S
  <2> HIDE DEF S
  <2>1. QED
    BY <1>6, <1>7, UpTo
<1>9. c \in 0 .. c /\ k + c = m
  BY <1>1, <1>5
<1>10. Begins(f[m], r)
  BY <1>8, <1>9
<1>11. QED
  BY <1>2, <1>3, <1>4, <1>10

\* Where the lines of file k are among all the lines: after the n lines of the first h.
FileAt(ss, k, h, n, b) ==
  k \in 1 .. Len(ss) /\ h = k - 1 /\ n = Len(Ahead(ss)[h]) /\ b = ss[k]
LEMMA FileLinesAt ==
  ASSUME NEW ss \in Seq(Seq(FileLines)), NEW k, NEW h, NEW n, NEW b, FileAt(ss, k, h, n, b)
  PROVE  /\ n \in Nat /\ Len(Ahead(ss)[k]) = n + Len(b)
         /\ n + Len(b) <= Len(FlattenSeq(ss))
         /\ \A j \in 1 .. Len(b) : FlattenSeq(ss)[n + j] = b[j]
<1>0. k \in 1 .. Len(ss) /\ h = k - 1 /\ n = Len(Ahead(ss)[h]) /\ b = ss[k]
  BY DEF FileAt
<1>1. PICK m \in Nat : m = Len(ss)
  OBVIOUS
<1>2. PICK f : f = Ahead(ss)
  OBVIOUS
<1>3. /\ f \in [0 .. m -> Seq(FileLines)]
      /\ \A i \in 1 .. m : f[i] = f[i - 1] \o ss[i]
  BY <1>1, <1>2, AheadGrows DEF FilesGrow
<1>4. k \in 1 .. m /\ k \in 0 .. m /\ h \in 0 .. m
  BY <1>0, <1>1
<1>5. PICK s \in Seq(FileLines) : s = f[h]
  BY <1>3, <1>4
<1>6. PICK t \in Seq(FileLines) : t = b
  BY <1>0, <1>1
<1>7. n \in Nat /\ n = Len(s)
  BY <1>0, <1>2, <1>5
<1>8. PICK c \in Nat : c = Len(t)
  OBVIOUS
<1>9. PICK g : g = f[k]
  OBVIOUS
<1>10. g = s \o t
  <2>1. f[k] = f[k - 1] \o ss[k]
    BY <1>3, <1>4
  <2>2. QED
    BY <1>0, <1>5, <1>6, <1>9, <2>1
<1>11. Len(g) = n + c /\ \A j \in 1 .. c : n + j \in 1 .. n + c /\ g[n + j] = t[j]
  BY <1>7, <1>8, <1>10
<1>12. Begins(FlattenSeq(ss), g)
  BY <1>1, <1>2, <1>4, <1>9, AheadBegins
<1>13. n + c <= Len(FlattenSeq(ss)) /\ \A j \in 1 .. n + c : FlattenSeq(ss)[j] = g[j]
  BY <1>11, <1>12 DEF Begins
<1>14. QED
  BY <1>2, <1>6, <1>7, <1>8, <1>9, <1>11, <1>13

\* The files still to open: all of d but the first k.
FilesLeft(fs, d, k) ==
  /\ fs \in Seq(STRING) /\ k \in 0 .. Len(d) /\ Len(fs) = Len(d) - k
  /\ \A i \in 1 .. Len(fs) : fs[i] = d[k + i]
\* The lines still to read: those of ls after line n, to line e.
LinesLeft(rest, ls, n, e) ==
  /\ rest \in Seq(FileLines) /\ n \in Nat /\ e = n + Len(rest) /\ e <= Len(ls)
  /\ \A i \in 1 .. Len(rest) : ls[n + i] = rest[i]
Opened(inp, d, k) == \A i \in 1 .. k : d[i] \in DOMAIN inp.files
AllOf(inp, d) == FlattenSeq(Bodies(inp, d))
\* k files are opened and n lines are read.
ReadTo(d, inp, fs, rest, ps, s, k, n) ==
  /\ d \in Seq(STRING) /\ FilesLeft(fs, d, k) /\ Opened(inp, d, k)
  /\ LinesLeft(rest, AllOf(inp, d), n, Len(Ahead(Bodies(inp, d))[k]))
  /\ ReadRight(ps, s, AllOf(inp, d), n)

LEMMA SeqTail ==
  ASSUME NEW V, NEW s \in Seq(V), s # <<>>, NEW c, c = Len(s)
  PROVE  /\ c \in Nat /\ c # 0 /\ Head(s) = s[1]
         /\ Tail(s) \in Seq(V) /\ Len(Tail(s)) = c - 1
         /\ \A i \in 1 .. c - 1 : Tail(s)[i] = s[i + 1] /\ i + 1 \in 1 .. c
OBVIOUS

LEMMA FilesNext ==
  ASSUME NEW d \in Seq(STRING), NEW fs, NEW k, FilesLeft(fs, d, k), fs # <<>>,
         NEW l, l = k + 1
  PROVE  /\ l \in 1 .. Len(d) /\ l - 1 = k /\ Head(fs) = d[l]
         /\ FilesLeft(Tail(fs), d, l)
<1>1. PICK m \in Nat : m = Len(d)
  OBVIOUS
<1>2. PICK c \in Nat : c = Len(fs) /\ c # 0
  <2>1. fs \in Seq(STRING)
    BY DEF FilesLeft
  <2>2. QED
    BY <2>1, SeqTail
<1>3. /\ fs \in Seq(STRING) /\ k \in 0 .. m /\ c = m - k
      /\ \A i \in 1 .. c : fs[i] = d[k + i]
  BY <1>1, <1>2 DEF FilesLeft
<1>4. l \in 1 .. m /\ l - 1 = k
  BY <1>2, <1>3
<1>5. Head(fs) = d[l]
  <2>1. Head(fs) = fs[1] /\ 1 \in 1 .. c
    BY <1>2, <1>3, SeqTail
  <2>2. fs[1] = d[k + 1]
    BY <1>3, <2>1
  <2>3. QED
    BY <2>1, <2>2
<1>6. PICK t \in Seq(STRING) : t = Tail(fs)
  BY <1>3, SeqTail
<1>7. Len(t) = c - 1 /\ \A i \in 1 .. c - 1 : t[i] = fs[i + 1] /\ i + 1 \in 1 .. c
  BY <1>2, <1>3, <1>6, SeqTail
<1>8. Len(t) = m - l
  BY <1>2, <1>3, <1>4, <1>7
<1>9. ASSUME NEW i \in 1 .. Len(t) PROVE t[i] = d[l + i]
  <2>1. i \in 1 .. c - 1
    BY <1>7
  <2>2. t[i] = d[k + (i + 1)]
    BY <1>3, <1>7, <2>1
  <2>3. k + (i + 1) = l + i
    BY <1>3, <2>1
  <2>4. QED
    BY <2>2, <2>3
<1>10. FilesLeft(t, d, l)
  <2>1. l \in 0 .. m
    BY <1>4
  <2>2. QED
    BY ONLY <1>1, <1>6, <1>8, <1>9, <2>1 DEF FilesLeft
<1>11. QED
  BY <1>1, <1>4, <1>5, <1>6, <1>10

LEMMA LinesNext ==
  ASSUME NEW ls \in Seq(FileLines), NEW rest, NEW n, NEW e, LinesLeft(rest, ls, n, e),
         rest # <<>>, NEW l, l = n + 1
  PROVE  /\ NextLine(1, n, l) /\ l <= Len(ls) /\ rest[1] = ls[l]
         /\ LinesLeft(Tail(rest), ls, l, e)
<1>1. PICK m \in Nat : m = Len(ls)
  OBVIOUS
<1>2. PICK c \in Nat : c = Len(rest) /\ c # 0
  <2>1. rest \in Seq(FileLines)
    BY DEF LinesLeft
  <2>2. QED
    BY <2>1, SeqTail
<1>3. /\ rest \in Seq(FileLines) /\ n \in Nat /\ e = n + c /\ e <= m
      /\ \A i \in 1 .. c : ls[n + i] = rest[i]
  BY <1>1, <1>2 DEF LinesLeft
<1>4. l \in Nat /\ 1 <= l /\ l <= m
  BY <1>2, <1>3
<1>5. NextLine(1, n, l)
  BY <1>3, <1>4 DEF NextLine
<1>6. rest[1] = ls[l]
  <2>1. 1 \in 1 .. c
    BY <1>2
  <2>2. QED
    BY <1>3, <2>1
<1>7. PICK t \in Seq(FileLines) : t = Tail(rest)
  BY <1>3, SeqTail
<1>8. Len(t) = c - 1 /\ \A i \in 1 .. c - 1 : t[i] = rest[i + 1] /\ i + 1 \in 1 .. c
  BY <1>2, <1>3, <1>7, SeqTail
<1>9. e = l + Len(t)
  BY <1>3, <1>8
<1>10. ASSUME NEW i \in 1 .. Len(t) PROVE ls[l + i] = t[i]
  <2>1. i \in 1 .. c - 1
    BY <1>8
  <2>2. t[i] = ls[n + (i + 1)]
    BY <1>3, <1>8, <2>1
  <2>3. n + (i + 1) = l + i
    BY <1>3, <2>1
  <2>4. QED
    BY <2>2, <2>3
<1>11. LinesLeft(t, ls, l, e)
  BY <1>1, <1>3, <1>4, <1>9, <1>10 DEF LinesLeft
<1>12. QED
  BY <1>1, <1>4, <1>5, <1>6, <1>7, <1>11

\* All the lines are lines.
LEMMA AllOfSeq ==
  ASSUME NEW inp \in Inputs, NEW d \in Seq(STRING)
  PROVE  AllOf(inp, d) \in Seq(FileLines)
<1>1. PICK ss \in Seq(Seq(FileLines)) : ss = Bodies(inp, d)
  BY BodiesSeq
<1>2. PICK f : f = Ahead(ss)
  OBVIOUS
<1>3. PICK m \in Nat : m = Len(ss)
  OBVIOUS
<1>4. f \in [0 .. m -> Seq(FileLines)] /\ f[m] = FlattenSeq(ss)
  BY <1>2, <1>3, AheadGrows DEF FilesGrow
<1>5. f[m] \in Seq(FileLines)
  BY <1>4
<1>6. QED
  BY <1>1, <1>4, <1>5 DEF AllOf

LEMMA ReadingStarts ==
  ASSUME NEW inp \in Inputs, NEW d \in Seq(STRING)
  PROVE  ReadTo(d, inp, d, <<>>, <<>>, EmptySlot, 0, 0)
<1>1. FilesLeft(d, d, 0) /\ Opened(inp, d, 0)
  BY DEF FilesLeft, Opened
<1>2. Bodies(inp, d) \in Seq(Seq(FileLines))
  BY BodiesSeq
<1>3. Ahead(Bodies(inp, d))[0] = <<>>
  BY <1>2, AheadGrows DEF FilesGrow
<1>4. PICK ls \in Seq(FileLines) : ls = AllOf(inp, d)
  BY AllOfSeq
<1>5. LinesLeft(<<>>, ls, 0, 0) /\ Len(<<>>) = 0
  BY DEF LinesLeft
<1>6. ReadRight(<<>>, EmptySlot, ls, 0)
  BY NothingRead
<1>7. QED
  BY <1>1, <1>3, <1>4, <1>5, <1>6 DEF ReadTo

LEMMA FileOpened ==
  ASSUME NEW inp \in Inputs, NEW d, NEW fs, NEW ps, NEW s, NEW k, NEW n,
         ReadTo(d, inp, fs, <<>>, ps, s, k, n), fs # <<>>, Head(fs) \in DOMAIN inp.files,
         NEW l, l = k + 1
  PROVE  ReadTo(d, inp, Tail(fs), inp.files[Head(fs)], ps, s, l, n)
<1>1. /\ d \in Seq(STRING) /\ FilesLeft(fs, d, k) /\ Opened(inp, d, k)
      /\ LinesLeft(<<>>, AllOf(inp, d), n, Len(Ahead(Bodies(inp, d))[k]))
      /\ ReadRight(ps, s, AllOf(inp, d), n)
  BY DEF ReadTo
<1>2. /\ l \in 1 .. Len(d) /\ l - 1 = k /\ Head(fs) = d[l]
      /\ FilesLeft(Tail(fs), d, l)
  BY <1>1, FilesNext
<1>3. PICK ss \in Seq(Seq(FileLines)) :
        /\ ss = Bodies(inp, d) /\ Len(ss) = Len(d)
        /\ \A i \in DOMAIN d : d[i] \in DOMAIN inp.files => ss[i] = inp.files[d[i]]
  BY <1>1, BodiesSeq
<1>4. PICK b \in Seq(FileLines) : b = inp.files[Head(fs)]
  BY FileSeq
<1>5. l \in 1 .. Len(ss) /\ b = ss[l]
  <2>1. l \in DOMAIN d
    BY <1>1, <1>2
  <2>2. QED
    BY <1>2, <1>3, <1>4, <2>1
<1>6. n \in Nat /\ n = Len(Ahead(ss)[k])
  BY <1>1, <1>2, <1>3 DEF LinesLeft
<1>7. /\ Len(Ahead(ss)[l]) = n + Len(b) /\ n + Len(b) <= Len(FlattenSeq(ss))
      /\ \A j \in 1 .. Len(b) : FlattenSeq(ss)[n + j] = b[j]
  <2>1. FileAt(ss, l, k, n, b)
    BY <1>2, <1>5, <1>6 DEF FileAt
  <2>2. QED
    BY <2>1, FileLinesAt, SMTT(30)
<1>8. LinesLeft(b, FlattenSeq(ss), n, Len(Ahead(ss)[l]))
  BY <1>6, <1>7 DEF LinesLeft
<1>9. Opened(inp, d, l)
  <2>1. ASSUME NEW i \in 1 .. l PROVE d[i] \in DOMAIN inp.files
    <3>1. CASE i = l
      BY <1>2, <3>1
    <3>2. CASE i # l
      <4>1. i \in 1 .. k
        BY <1>1, <1>2, <3>2 DEF FilesLeft
      <4>2. QED
        BY <1>1, <4>1 DEF Opened
    <3>3. QED
      BY <3>1, <3>2
  <2>2. QED
    BY <2>1 DEF Opened
<1>10. QED
  BY <1>1, <1>2, <1>3, <1>4, <1>8, <1>9 DEF ReadTo, AllOf

LEMMA LineEvaluated ==
  ASSUME NEW inp \in Inputs, NEW d, NEW fs, NEW rest, NEW V, NEW ps \in Seq(V),
         NEW s, PluginOK(s), NEW k, NEW n,
         ReadTo(d, inp, fs, rest, ps, s, k, n), rest # <<>>,
         rest[1][1] = "fields" => rest[1][2] # <<>>,
         NEW qs, NEW t, LineTaken(ps, s, rest[1], qs, t), NEW l, l = n + 1
  PROVE  ReadTo(d, inp, fs, Tail(rest), qs, t, k, l)
<1>1. PICK e : e = Len(Ahead(Bodies(inp, d))[k])
  OBVIOUS
<1>2. /\ d \in Seq(STRING) /\ FilesLeft(fs, d, k) /\ Opened(inp, d, k)
      /\ LinesLeft(rest, AllOf(inp, d), n, e) /\ ReadRight(ps, s, AllOf(inp, d), n)
  BY <1>1 DEF ReadTo
<1>3. PICK ls \in Seq(FileLines) : ls = AllOf(inp, d)
  BY <1>2, AllOfSeq
<1>4. /\ NextLine(1, n, l) /\ l <= Len(ls) /\ rest[1] = ls[l]
      /\ LinesLeft(Tail(rest), ls, l, e)
  BY <1>2, <1>3, LinesNext
<1>5. ReadRight(qs, t, ls, l)
  BY <1>2, <1>3, <1>4, LineRead
<1>6. QED
  BY <1>1, <1>2, <1>3, <1>4, <1>5 DEF ReadTo

\* The end: nothing is left.
LEMMA ReadingEnds ==
  ASSUME NEW inp \in Inputs, NEW d, NEW ps, NEW s, NEW k, NEW n,
         ReadTo(d, inp, <<>>, <<>>, ps, s, k, n),
         NEW ls, ls = FlattenSeq([i \in DOMAIN d |-> inp.files[d[i]]])
  PROVE  PluginsSaid(ps, ls, Len(ls))
<1>1. /\ d \in Seq(STRING) /\ FilesLeft(<<>>, d, k) /\ Opened(inp, d, k)
      /\ LinesLeft(<<>>, AllOf(inp, d), n, Len(Ahead(Bodies(inp, d))[k]))
      /\ ReadRight(ps, s, AllOf(inp, d), n)
  BY DEF ReadTo
<1>2. PICK m \in Nat : m = Len(d) /\ DOMAIN d = 1 .. m
  BY <1>1
<1>3. k = m
  BY <1>1, <1>2 DEF FilesLeft
<1>4. PICK ss \in Seq(Seq(FileLines)) : ss = Bodies(inp, d) /\ Len(ss) = m
  BY <1>1, <1>2, BodiesSeq
<1>5. ss = [i \in DOMAIN d |-> inp.files[d[i]]]
  <2>1. \A i \in DOMAIN d : d[i] \in DOMAIN inp.files
    BY <1>1, <1>2, <1>3 DEF Opened
  <2>2. QED
    BY <1>4, <2>1 DEF Bodies
<1>6. Ahead(ss)[m] = FlattenSeq(ss)
  BY <1>4, AheadGrows DEF FilesGrow
<1>7. Len(ls) = n
  BY <1>1, <1>3, <1>4, <1>5, <1>6 DEF LinesLeft
<1>8. QED
  BY <1>1, <1>4, <1>5, <1>7 DEF ReadRight, AllOf

\* What is read of the plugin files.
ReadingInv(k, n) == ReadTo(config.plugin_file, input, files, lines, plugin, slot, k, n)
ReadInv ==
  /\ pc \in {"args", "config"} => lines = <<>> /\ plugin = <<>> /\ slot = EmptySlot
  /\ pc = "plugins" => \E k, n : ReadingInv(k, n)
  /\ ParsedRight

LEMMA ReadInit == WInit => ReadInv
BY DEF WInit, Init, ReadInv, ParsedRight

LEMMA ReadStays ==
  ASSUME ReadInv, UNCHANGED <<input, config, files, lines, plugin, slot>>,
         \/ pc' = pc
         \/ pc' \notin {"args", "config", "plugins", "assign", "running"}
         \/ pc = "args" /\ pc' = "config"
         \/ pc = "assign" /\ pc' = "running"
  PROVE  ReadInv'
<1>1. AllLines' = AllLines
  BY DEF AllLines
<1>2. ParsedRight'
  BY <1>1 DEF ReadInv, ParsedRight
<1>3. \A k, n : ReadingInv(k, n)' = ReadingInv(k, n)
  BY DEF ReadingInv
<1>4. QED
  BY <1>2, <1>3 DEF ReadInv

LEMMA LeavesRead ==
  ASSUME ReadInv, Leaves
  PROVE  ReadInv'
BY LeavesForGood, ReadStays DEF Leaves

LEMMA ConfigurationRead ==
  ASSUME StartInv, ReadInv, ParseConfiguration
  PROVE  ReadInv'
<1>1. CASE Exit
  BY <1>1 DEF Exit, ReadInv, ParsedRight
<1>2. CASE ~ Exit
  <2>1. /\ Sane(input.config) /\ config' = Configured(input.files[input.config])
        /\ files' = config'.plugin_file /\ pc' = "plugins" /\ pc = "config"
        /\ UNCHANGED <<input, lines, plugin, slot>>
    BY <1>2 DEF ParseConfiguration
  <2>2. lines = <<>> /\ plugin = <<>> /\ slot = EmptySlot
    BY <2>1 DEF ReadInv
  <2>3. input \in Inputs /\ input.config \in DOMAIN input.files
    BY <2>1 DEF StartInv, InputInv, Sane
  <2>4. PICK d \in Seq(STRING) : d = config'.plugin_file
    BY <2>1, <2>3, ConfigNames
  <2>5. ReadTo(d, input, d, <<>>, <<>>, EmptySlot, 0, 0)
    BY <2>3, ReadingStarts
  <2>6. ReadingInv(0, 0)'
    BY <2>1, <2>2, <2>4, <2>5 DEF ReadingInv
  <2>7. QED
    BY <2>1, <2>6 DEF ReadInv, ParsedRight
<1>3. QED
  BY <1>1, <1>2

LEMMA OpenRead ==
  ASSUME StartInv, ReadInv, OpenPluginFile
  PROVE  ReadInv'
<1>1. CASE Exit
  BY <1>1 DEF Exit, ReadInv, ParsedRight
<1>2. CASE ~ Exit
  <2>1. /\ lines = <<>> /\ files # <<>> /\ pc = "plugins" /\ Sane(Head(files))
        /\ lines' = input.files[Head(files)] /\ files' = Tail(files)
        /\ UNCHANGED <<input, pc, config, plugin, slot>>
    BY <1>2 DEF OpenPluginFile
  <2>2. input \in Inputs /\ Head(files) \in DOMAIN input.files
    BY <2>1 DEF StartInv, InputInv, Sane
  <2>3. PICK k, n : ReadingInv(k, n)
    BY <2>1 DEF ReadInv
  <2>4. PICK l : l = k + 1
    OBVIOUS
  <2>5. ReadTo(config.plugin_file, input, files, <<>>, plugin, slot, k, n)
    BY <2>1, <2>3 DEF ReadingInv
  <2>6. ReadTo(config.plugin_file, input, Tail(files), input.files[Head(files)],
               plugin, slot, l, n)
    BY <2>1, <2>2, <2>4, <2>5, FileOpened
  <2>7. ReadingInv(l, n)'
    BY <2>1, <2>6 DEF ReadingInv
  <2>8. QED
    BY <2>1, <2>7 DEF ReadInv, ParsedRight
<1>3. QED
  BY <1>1, <1>2

LEMMA EvaluatedRead ==
  ASSUME StartInv, ReadInv, EvaluateLine
  PROVE  ReadInv'
<1>1. CASE Leaves
  BY <1>1, LeavesRead
<1>2. CASE Taken(lines[1][1], lines[1][2])
  <2>1. PICK line : line = lines[1]
    OBVIOUS
  <2>2. /\ lines # <<>> /\ pc = "plugins" /\ lines' = Tail(lines)
        /\ line[1] = "fields" => line[2] # <<>>
        /\ UNCHANGED <<input, pc, config, files>>
    BY <1>2, <2>1, EvaluatedLine DEF Taken, TakeLine, RegexKeys
  <2>3. LineTaken(plugin, slot, line, plugin', slot')
    BY <1>2, <2>1 DEF Taken, TakeLine, LineTaken
  <2>4. PICK V : plugin \in Seq(V)
    BY DEF StartInv, PluginInv, IsSeq
  <2>5. input \in Inputs /\ PluginOK(slot)
    BY DEF StartInv, InputInv, SlotInv
  <2>6. PICK k, n : ReadingInv(k, n)
    BY <2>2 DEF ReadInv
  <2>7. PICK l : l = n + 1
    OBVIOUS
  <2>8. PICK qs, t : qs = plugin' /\ t = slot'
    OBVIOUS
  <2>9. LineTaken(plugin, slot, lines[1], qs, t)
    BY <2>1, <2>3, <2>8
  <2>10. ReadTo(config.plugin_file, input, files, lines, plugin, slot, k, n)
    BY <2>6 DEF ReadingInv
  <2>11. ReadTo(config.plugin_file, input, files, Tail(lines), qs, t, k, l)
    BY <2>1, <2>2, <2>4, <2>5, <2>7, <2>9, <2>10, LineEvaluated
  <2>12. ReadingInv(k, l)'
    BY <2>2, <2>8, <2>11 DEF ReadingInv
  <2>13. QED
    BY <2>2, <2>12 DEF ReadInv, ParsedRight
<1>3. QED
  BY <1>1, <1>2, EvaluatedLine

LEMMA RingsRead ==
  ASSUME StartInv, ReadInv, CreateRings
  PROVE  ReadInv'
<1>1. CASE Leaves
  BY <1>1, LeavesRead
<1>2. CASE Created
  <2>1. /\ lines = <<>> /\ files = <<>> /\ pc = "plugins" /\ pc' = "assign"
        /\ UNCHANGED <<input, config, plugin>>
    BY <1>2 DEF Created
  <2>2. PICK k, n : ReadingInv(k, n)
    BY <2>1 DEF ReadInv
  <2>3. input \in Inputs
    BY DEF StartInv, InputInv
  <2>4. ReadTo(config.plugin_file, input, <<>>, <<>>, plugin, slot, k, n)
    BY <2>1, <2>2 DEF ReadingInv
  <2>5. PICK ls : ls = AllLines
    OBVIOUS
  <2>6. PluginsSaid(plugin, ls, Len(ls))
    BY <2>3, <2>4, <2>5, ReadingEnds DEF AllLines
  <2>7. AllLines' = ls
    BY <2>1, <2>5 DEF AllLines
  <2>8. ParsedRight'
    BY <2>1, <2>6, <2>7 DEF ParsedRight
  <2>9. QED
    BY <2>1, <2>8 DEF ReadInv
<1>3. QED
  BY <1>1, <1>2, CreatedRings

LEMMA ReadStep == StartInv /\ ReadInv /\ [Next]_<<svars, wvars>> => ReadInv'
<1> SUFFICES ASSUME StartInv, ReadInv, [Next]_<<svars, wvars>> PROVE ReadInv'
  OBVIOUS
<1>1. CASE ParseConfiguration
  BY <1>1, ConfigurationRead
<1>2. CASE OpenPluginFile
  BY <1>2, OpenRead
<1>3. CASE EvaluateLine
  BY <1>3, EvaluatedRead
<1>4. CASE CreateRings
  BY <1>4, RingsRead
<1>5. CASE ReadOption \/ CheckOptions \/ Assigned \/ Join \/ TornDown
  <2>1. /\ UNCHANGED <<input, config, files, lines, plugin, slot>>
        /\ \/ pc' = pc
           \/ pc' \notin {"args", "config", "plugins", "assign", "running"}
           \/ pc = "args" /\ pc' = "config"
           \/ pc = "assign" /\ pc' = "running"
    BY <1>5 DEF ReadOption, CheckOptions, Assigned, Join, TornDown, Exit
  <2>2. QED
    BY <2>1, ReadStays
<1>6. CASE UNCHANGED svars
  BY <1>6, ReadStays DEF svars
<1>7. CASE AssignPlugins \/ WorkerStep \/ End
  BY <1>5, <1>6, <1>7, AssignedPlugins, TeardownEnds, Worked, LeavesRead DEF End
<1>8. QED
  BY <1>1, <1>2, <1>3, <1>4, <1>5, <1>6, <1>7 DEF Next, Setup

\* cfg.c, evaluate_plugin: for all files, however their lines are mixed and divided, when
\* the files are read each plugin is what its stanza says and each regex of it what the
\* lines up to its "fields" say; no line leaks into another regex or another plugin.
THEOREM PluginsAreParsedRight == Spec => []ParsedRight
<1>1. StartInv /\ ReadInv => ParsedRight
  BY DEF ReadInv
<1>2. QED
  BY <1>1, StartInit, StartStep, ReadInit, ReadStep, PTL DEF Spec

=============================================================================
