---------------------------- MODULE WorkerProofs ----------------------------
(***************************************************************************)
(* Proofs about WorkerMatch: types, the regex of a packet, its substrings, *)
(* and what some of the undefined accesses need.                           *)
(***************************************************************************)
EXTENDS StartupProofs

-----------------------------------------------------------------------------
(* The rows of a match.                                                    *)

\* MatchAll, row by row.
Bests == [match : Nat, rgx : Nat, row : Nat]
Matching(f, b, s, pkt) ==
  /\ f \in [0 .. Len(s) -> Bests]
  /\ f[0] = b /\ MatchAll(b, s, pkt) = f[Len(s)]
  /\ \A i \in 1 .. Len(s) : f[i] = Match(f[i - 1], s[i], i, Ret(pkt, s[i]))

LEMMA MatchRounds ==
  ASSUME NEW b \in Bests, NEW s \in Seq(Nat), NEW pkt,
         \A i \in 1 .. Len(s) : Ret(pkt, s[i]) \in Nat
  PROVE  \E f : Matching(f, b, s, pkt)
<1>1. PICK n \in Nat : n = Len(s)
  OBVIOUS
<1> DEFINE Turn(h, i) == Match(h[i - 1], s[i], i, Ret(pkt, s[i]))
           Eq(h) == h = [i \in 0 .. n |-> IF i = 0 THEN b ELSE Turn(h, i)]
           matched == CHOOSE h : Eq(h)
           g == [xi \in Bests \X (1 .. n) |->
                   Match(xi[1], s[xi[2]], xi[2], Ret(pkt, s[xi[2]]))]
<1>2. \A i \in 1 .. n : s[i] \in Nat /\ Ret(pkt, s[i]) \in Nat
  BY <1>1
<1>3. g \in [Bests \X (1 .. n) -> Bests]
  <2>1. ASSUME NEW x \in Bests, NEW i \in 1 .. n
        PROVE  Match(x, s[i], i, Ret(pkt, s[i])) \in Bests
    <3>1. PICK r \in Nat : r = Ret(pkt, s[i])
      BY <1>2
    <3>2. Match(x, s[i], i, r) \in Bests
      BY <1>2 DEF Bests, Match
    <3>3. QED
      BY <3>1, <3>2
  <2>2. QED
    BY <2>1
<1>4. PICK f : Rounds(f, Bests, n, b, g)
  <2> HIDE DEF g
  <2>1. QED
    BY <1>3, Recursion
<1>5. f \in [0 .. n -> Bests] /\ f[0] = b /\ \A i \in 1 .. n : f[i] = g[<<f[i - 1], i>>]
  BY <1>4 DEF Rounds
<1>6. ASSUME NEW i \in 1 .. n PROVE f[i] = Turn(f, i)
  <2>1. f[i - 1] \in Bests
    BY <1>5
  <2>2. <<f[i - 1], i>> \in Bests \X (1 .. n)
    BY <2>1
  <2>3. g[<<f[i - 1], i>>] = Turn(f, i)
    BY <2>2
  <2>4. QED
    BY <1>5, <2>3
<1>7. Eq([i \in 0 .. n |-> f[i]])
  <2> HIDE DEF g
  <2> SUFFICES ASSUME NEW i \in 0 .. n
               PROVE  f[i] = IF i = 0 THEN b ELSE Turn([j \in 0 .. n |-> f[j]], i)
    BY Zenon
  <2>1. CASE i = 0
    BY <1>5, <2>1
  <2>2. CASE i # 0
    <3>1. i - 1 \in 0 .. n /\ i \in 1 .. n
      BY <2>2
    <3>2. [j \in 0 .. n |-> f[j]][i - 1] = f[i - 1]
      BY <3>1
    <3>3. QED
      BY <1>6, <2>2, <3>1, <3>2, Zenon
  <2>3. QED
    BY <2>1, <2>2
<1>8. Eq(matched)
  BY <1>7, Zenon
<1>9. ASSUME NEW i \in 0 .. n PROVE matched[i] = IF i = 0 THEN b ELSE Turn(matched, i)
  BY <1>8, Zenon
<1>10. \A i \in 0 .. n : matched[i] = f[i]
  <2> HIDE DEF matched, g
  <2>1. matched[0] = f[0]
    BY <1>5, <1>9
  <2>2. ASSUME NEW i \in 1 .. n, matched[i - 1] = f[i - 1] PROVE matched[i] = f[i]
    <3>1. i \in 0 .. n /\ i # 0
      OBVIOUS
    <3>2. matched[i] = Turn(matched, i) /\ f[i] = Turn(f, i)
      BY <1>6, <1>9, <3>1
    <3>3. QED
      BY <2>2, <3>2
  <2>3. QED
    BY <2>1, <2>2, SameRounds, ZenonT(60)
<1>11. MatchAll(b, s, pkt) = matched[n]
  BY <1>1, Zenon DEF MatchAll
<1>12. MatchAll(b, s, pkt) = f[n]
  <2>1. n \in 0 .. n
    OBVIOUS
  <2>2. QED
    BY <1>10, <1>11, <2>1
<1>13. Matching(f, b, s, pkt)
  BY <1>1, <1>5, <1>6, <1>12 DEF Matching
<1>14. QED
  BY <1>13, Zenon

\* m is what the first n regexes of s make of b: b, when none returns more, else the
\* first of those that return the most.
FirstBest(m, b, s, pkt, n) ==
  \/ m = b /\ \A j \in 1 .. n : Ret(pkt, s[j]) <= b.match
  \/ \E k \in 1 .. n :
       /\ m = [match |-> Ret(pkt, s[k]), rgx |-> s[k], row |-> k]
       /\ m.match > b.match
       /\ \A j \in 1 .. n : Ret(pkt, s[j]) < m.match \/ (Ret(pkt, s[j]) = m.match /\ k <= j)

LEMMA MatchOneMore ==
  ASSUME NEW b \in Bests, NEW s \in Seq(Nat), NEW pkt, NEW k \in Nat, NEW m \in Bests,
         k < Len(s), \A i \in 1 .. Len(s) : Ret(pkt, s[i]) \in Nat,
         FirstBest(m, b, s, pkt, k)
  PROVE  FirstBest(Match(m, s[k + 1], k + 1, Ret(pkt, s[k + 1])), b, s, pkt, k + 1)
<1>1. PICK i \in Nat : i = k + 1
  OBVIOUS
<1>2. i \in 1 .. Len(s) /\ i - 1 = k
  BY <1>1
<1>3. PICK r \in Nat : r = Ret(pkt, s[i])
  BY <1>2
<1>4. ASSUME NEW j \in 1 .. i PROVE j = i \/ j \in 1 .. k
  BY <1>1
<1>5. b.match \in Nat /\ m.match \in Nat
  BY DEF Bests
<1>6. \A j \in 1 .. k : Ret(pkt, s[j]) \in Nat
  BY <1>1, <1>2
<1>7. b.match <= m.match /\ \A j \in 1 .. k : Ret(pkt, s[j]) <= m.match
  <2>1. CASE m = b /\ \A j \in 1 .. k : Ret(pkt, s[j]) <= b.match
    BY <1>5, <2>1
  <2>2. ASSUME m.match > b.match,
               \E q \in 1 .. k : \A j \in 1 .. k :
                 Ret(pkt, s[j]) < m.match \/ (Ret(pkt, s[j]) = m.match /\ q <= j)
        PROVE  b.match <= m.match /\ \A j \in 1 .. k : Ret(pkt, s[j]) <= m.match
    <3>1. b.match <= m.match
      BY <1>5, <2>2
    <3>2. ASSUME NEW j \in 1 .. k PROVE Ret(pkt, s[j]) <= m.match
      <4>1. PICK p \in Nat : p = Ret(pkt, s[j])
        BY <1>6
      <4>2. p < m.match \/ p = m.match
        BY <2>2, <4>1
      <4>3. QED
        BY <1>5, <4>1, <4>2
    <3>3. QED
      BY <3>1, <3>2
  <2>3. QED
    BY <2>1, <2>2 DEF FirstBest
<1>8. CASE r > m.match
  <2>1. PICK x \in Bests : x = [match |-> r, rgx |-> s[i], row |-> i]
    <3>1. s[i] \in Nat
      BY <1>2
    <3>2. [match |-> r, rgx |-> s[i], row |-> i] \in Bests
      BY <3>1 DEF Bests
    <3>3. QED
      BY <3>2
  <2>2. Match(m, s[i], i, r) = x
    BY <1>8, <2>1 DEF Match
  <2>3. x.match = r /\ r > b.match
    BY <1>5, <1>7, <1>8, <2>1
  <2>4. ASSUME NEW j \in 1 .. i PROVE Ret(pkt, s[j]) < r \/ (Ret(pkt, s[j]) = r /\ i <= j)
    <3>1. CASE j = i
      BY <1>3, <3>1
    <3>2. CASE j \in 1 .. k
      <4>1. PICK p \in Nat : p = Ret(pkt, s[j])
        BY <1>6, <3>2
      <4>2. p <= m.match
        BY <1>7, <3>2, <4>1
      <4>3. p < r
        BY <1>5, <1>8, <4>2
      <4>4. QED
        BY <4>1, <4>3
    <3>3. QED
      BY <1>4, <3>1, <3>2
  <2>5. FirstBest(x, b, s, pkt, i)
    <3>1. i \in 1 .. i
      BY <1>1
    <3>2. QED
      BY <1>3, <2>1, <2>3, <2>4, <3>1 DEF FirstBest
  <2>6. QED
    BY <1>1, <1>3, <2>2, <2>5
<1>9. CASE r <= m.match
  <2>1. Match(m, s[i], i, r) = m
    BY <1>5, <1>9 DEF Match
  <2>2. FirstBest(m, b, s, pkt, i)
    <3>1. CASE m = b /\ \A j \in 1 .. k : Ret(pkt, s[j]) <= b.match
      <4>1. \A j \in 1 .. i : Ret(pkt, s[j]) <= b.match
        BY <1>3, <1>4, <1>9, <3>1
      <4>2. QED
        BY <3>1, <4>1 DEF FirstBest
    <3>2. ASSUME NEW q \in 1 .. k,
                 m = [match |-> Ret(pkt, s[q]), rgx |-> s[q], row |-> q],
                 m.match > b.match,
                 \A j \in 1 .. k : Ret(pkt, s[j]) < m.match \/ (Ret(pkt, s[j]) = m.match /\ q <= j)
          PROVE  FirstBest(m, b, s, pkt, i)
      <4>1. q \in 1 .. i /\ q <= i
        BY <1>1
      <4>2. ASSUME NEW j \in 1 .. i
            PROVE  Ret(pkt, s[j]) < m.match \/ (Ret(pkt, s[j]) = m.match /\ q <= j)
        <5>1. CASE j = i
          <6>1. r < m.match \/ r = m.match
            BY <1>5, <1>9
          <6>2. QED
            BY <1>3, <4>1, <5>1, <6>1
        <5>2. CASE j \in 1 .. k
          BY <3>2, <5>2, Zenon
        <5>3. QED
          BY <1>4, <5>1, <5>2
      <4>3. QED
        BY <3>2, <4>1, <4>2 DEF FirstBest
    <3>3. QED
      BY <3>1, <3>2 DEF FirstBest
  <2>3. QED
    BY <1>1, <1>3, <2>1, <2>2
<1>10. QED
  BY <1>5, <1>8, <1>9

LEMMA MatchBest ==
  ASSUME NEW b \in Bests, NEW s \in Seq(Nat), NEW pkt,
         \A i \in 1 .. Len(s) : Ret(pkt, s[i]) \in Nat
  PROVE  MatchAll(b, s, pkt) \in Bests /\ FirstBest(MatchAll(b, s, pkt), b, s, pkt, Len(s))
<1>1. PICK n \in Nat : n = Len(s)
  OBVIOUS
<1>2. PICK f : Matching(f, b, s, pkt)
  BY MatchRounds
<1>3. f \in [0 .. n -> Bests] /\ f[0] = b /\ MatchAll(b, s, pkt) = f[n]
  BY <1>1, <1>2 DEF Matching
<1>4. ASSUME NEW i \in 1 .. n PROVE f[i] = Match(f[i - 1], s[i], i, Ret(pkt, s[i]))
  BY <1>1, <1>2 DEF Matching
<1> DEFINE S == {k \in 0 .. n : FirstBest(f[k], b, s, pkt, k)}
<1>5. 0 \in S
  BY <1>3 DEF FirstBest
<1>6. ASSUME NEW k \in Nat, k < n /\ k \in S PROVE k + 1 \in S
  <2>1. PICK i \in 1 .. n : i = k + 1
    BY <1>6
  <2>2. i - 1 = k /\ f[k] \in Bests /\ i \in 0 .. n
    BY <1>3, <1>6, <2>1
  <2>3. FirstBest(f[k], b, s, pkt, k) /\ k < Len(s)
    BY <1>1, <1>6
  <2>4. FirstBest(Match(f[k], s[i], i, Ret(pkt, s[i])), b, s, pkt, i)
    BY <2>1, <2>2, <2>3, MatchOneMore
  <2>5. f[i] = Match(f[k], s[i], i, Ret(pkt, s[i]))
    BY <1>4, <2>2
  <2>6. QED
    BY <2>1, <2>2, <2>4, <2>5, Zenon
<1>7. \A k \in 0 .. n : k \in S
  <2> HIDE DEF S
  <2>1. QED
    BY <1>5, <1>6, UpTo
<1>8. n \in 0 .. n
  OBVIOUS
<1>9. f[n] \in Bests /\ FirstBest(f[n], b, s, pkt, n)
  BY <1>3, <1>7, <1>8
<1>10. QED
  BY <1>1, <1>3, <1>9

-----------------------------------------------------------------------------
(* What a worker does with a packet.                                       *)

LEMMA MaxOfTwo ==
  ASSUME NEW a \in Nat, NEW b \in Nat
  PROVE  Max({a, b}) \in Nat /\ Max({a, b}) >= a /\ Max({a, b}) >= b /\ Max({a, b}) \in {a, b}
<1>1. \E x \in {a, b} : \A y \in {a, b} : x >= y
  <2>1. CASE a >= b
    BY <2>1
  <2>2. CASE b >= a
    BY <2>2
  <2>3. QED
    BY <2>1, <2>2
<1>2. Max({a, b}) \in {a, b} /\ \A y \in {a, b} : Max({a, b}) >= y
  BY <1>1 DEF Max
<1>3. QED
  BY <1>2

LEMMA MinOfTwo ==
  ASSUME NEW a \in Nat, NEW b \in Nat
  PROVE  Min({a, b}) \in Nat /\ Min({a, b}) <= a /\ (a <= b => Min({a, b}) = a)
<1>1. \E x \in {a, b} : \A y \in {a, b} : x <= y
  <2>1. CASE a >= b
    BY <2>1
  <2>2. CASE b >= a
    BY <2>2
  <2>3. QED
    BY <2>1, <2>2
<1>2. Min({a, b}) \in {a, b} /\ \A y \in {a, b} : Min({a, b}) <= y
  BY <1>1 DEF Min
<1>3. QED
  BY <1>2

LEMMA FunctionIsSeq ==
  ASSUME NEW n \in Nat, NEW f, f = [i \in 1 .. n |-> f[i]]
  PROVE  IsSeq(f) /\ Len(f) = n /\ DOMAIN f = 1 .. n
<1>1. PICK A : A = ToSet(f)
  OBVIOUS
<1>2. DOMAIN f = 1 .. n
  OBVIOUS
<1>3. \A i \in 1 .. n : f[i] \in A
  BY <1>1, <1>2 DEF ToSet
<1>4. f \in [1 .. n -> A]
  BY <1>2, <1>3
<1>5. f \in Seq(A)
  BY <1>4
<1>6. QED
  BY <1>1, <1>2, <1>5 DEF IsSeq

\* What match_regex returns is a number of groups.
LEMMA RetNat ==
  ASSUME NEW p, NEW pkt \in Packets(p), NEW x \in DOMAIN p.regex
  PROVE  Ret(pkt, x) \in Nat
<1>1. pkt.subs[x] \in Subs
  BY DEF Packets
<1>2. QED
  BY <1>1, SubsAssumption, FS_CardinalityType DEF Ret

\* The regexes of one kind, by their indices.
LEMMA SplitFacts ==
  ASSUME NEW p, PluginOK(p), NEW kind
  PROVE  /\ Split(p, kind) \in Seq(DOMAIN p.regex) /\ Split(p, kind) \in Seq(Nat)
         /\ Increasing(Split(p, kind)) /\ Len(Split(p, kind)) <= Len(p.regex)
         /\ ToSet(Split(p, kind)) = {i \in DOMAIN p.regex : Kind(p.regex[i].precheck) = kind}
<1>1. PICK n \in Nat : n = Len(p.regex) /\ DOMAIN p.regex = 1 .. n
  BY DEF PluginOK, IsSeq
<1>2. PICK T : T = {i \in DOMAIN p.regex : Kind(p.regex[i].precheck) = kind}
  OBVIOUS
<1>3. PICK all : all = [i \in DOMAIN p.regex |-> i]
  OBVIOUS
<1>4. Split(p, kind) = Chosen(all, T)
  BY <1>2, <1>3, Zenon DEF Split
<1>5. all \in Seq(1 .. n) /\ all \in Seq(Nat) /\ Len(all) = n
  BY <1>1, <1>3
<1>6. Increasing(all)
  BY <1>1, <1>3 DEF Increasing
<1>7. ToSet(all) = 1 .. n
  BY <1>1, <1>3 DEF ToSet
<1>8. Chosen(all, T) \in Seq(1 .. n) /\ Len(Chosen(all, T)) <= n
      /\ ToSet(Chosen(all, T)) = (1 .. n) \cap T
  BY <1>5, <1>7, ChosenRange
<1>9. Chosen(all, T) \in Seq(Nat)
  BY <1>5, ChosenRange
<1>10. Increasing(Chosen(all, T))
  BY <1>5, <1>6, ChosenIncreasing
<1>11. (1 .. n) \cap T = T
  BY <1>1, <1>2
<1>12. QED
  BY <1>1, <1>2, <1>4, <1>8, <1>9, <1>10, <1>11

LEMMA SplitApart ==
  ASSUME NEW p, PluginOK(p)
  PROVE  Len(filled_p_regex(p)) + Len(empty_p_regex(p)) <= Len(p.regex)
<1> DEFINE T(kind) == {i \in DOMAIN p.regex : Kind(p.regex[i].precheck) = kind}
<1>1. PICK n \in Nat : n = Len(p.regex) /\ DOMAIN p.regex = 1 .. n
  BY DEF PluginOK, IsSeq
<1>2. PICK all : all = [i \in DOMAIN p.regex |-> i]
  OBVIOUS
<1>3. all \in Seq(Nat) /\ Len(all) = n
  BY <1>1, <1>2
<1>4. T("filled") \cap T("empty") = {}
  OBVIOUS
<1>5. filled_p_regex(p) = Chosen(all, T("filled")) /\ empty_p_regex(p) = Chosen(all, T("empty"))
  BY <1>2, Zenon DEF Split, filled_p_regex, empty_p_regex
<1>6. QED
  <2> HIDE DEF T
  <2>1. Len(Chosen(all, T("filled"))) + Len(Chosen(all, T("empty"))) <= Len(all)
    BY <1>3, <1>4, ChosenApart
  <2>2. QED
    BY <1>1, <1>3, <1>5, <2>1

\* suit_rgxs grows by regexes of the plugin, by each at most once.
LEMMA AddSuitableBound ==
  ASSUME NEW p, PluginOK(p), NEW s \in Seq(DOMAIN p.regex), Len(s) <= MaxRegex, NEW pkt
  PROVE  /\ AddSuitable(s, p, pkt) \in Seq(DOMAIN p.regex)
         /\ Len(AddSuitable(s, p, pkt)) <= Len(s) + Len(p.regex)
<1>1. PICK D : D = DOMAIN p.regex
  OBVIOUS
<1>2. PICK n \in Nat : n = Len(p.regex)
  BY DEF PluginOK, IsSeq
<1>3. PICK filled \in Seq(D) : filled = Chosen(filled_p_regex(p), pkt.holds)
  BY <1>1, SplitFacts, ChosenRange DEF filled_p_regex
<1>4. PICK E \in Seq(D) : E = IF p.optimized THEN <<>> ELSE empty_p_regex(p)
  <2>1. empty_p_regex(p) \in Seq(D)
    BY <1>1, SplitFacts DEF empty_p_regex
  <2>2. <<>> \in Seq(D)
    OBVIOUS
  <2>3. QED
    BY <2>1, <2>2
<1>5. PICK a \in Nat : a = Len(s)
  OBVIOUS
<1>6. PICK b \in Nat : b = Len(filled)
  OBVIOUS
<1>7. PICK c \in Nat : c = Len(E)
  OBVIOUS
<1>8. MaxRegex - a \in Nat
  BY <1>5, StartupAssumption
<1>9. PICK k \in Nat : k = Min({b, MaxRegex - a}) /\ k <= b
  BY <1>8, MinOfTwo
<1>10. PICK taken \in Seq(D) : taken = SubSeq(filled, 1, k) /\ Len(taken) = k
  <2>1. \A i \in 1 .. k : filled[i] \in D
    BY <1>6, <1>9
  <2>2. /\ SubSeq(filled, 1, k) \in Seq(D)
        /\ Len(SubSeq(filled, 1, k)) = IF 1 <= k THEN k - 1 + 1 ELSE 0
    BY <2>1, SubSeqProperties
  <2>3. Len(SubSeq(filled, 1, k)) = k
    BY <2>2
  <2>4. QED
    BY <2>2, <2>3
<1>11. AddSuitable(s, p, pkt) = s \o taken \o E
  BY <1>3, <1>4, <1>5, <1>6, <1>9, <1>10 DEF AddSuitable
<1>12. s \o taken \o E \in Seq(D) /\ Len(s \o taken \o E) = a + k + c
  <2>0. s \in Seq(D)
    BY <1>1, Zenon
  <2>1. PICK u \in Seq(D) : u = s \o taken /\ Len(u) = Len(s) + Len(taken)
    BY <2>0, ConcatProperties, Zenon
  <2>2. Len(u) = a + k
    BY <1>5, <1>10, <2>1
  <2>3. u \o E \in Seq(D) /\ Len(u \o E) = Len(u) + c
    BY <1>7
  <2>4. QED
    BY <2>1, <2>2, <2>3
<1>13. b + c <= n
  <2>1. PICK x \in Nat : x = Len(filled_p_regex(p))
    BY SplitFacts DEF filled_p_regex
  <2>2. PICK y \in Nat : y = Len(empty_p_regex(p))
    BY SplitFacts DEF empty_p_regex
  <2>3. x + y <= n
    BY <1>2, <2>1, <2>2, SplitApart
  <2>4. b <= x
    BY <1>3, <1>6, <2>1, SplitFacts, ChosenRange DEF filled_p_regex
  <2>5. c <= y
    BY <1>4, <1>7, <2>2
  <2>6. QED
    BY <2>3, <2>4, <2>5
<1>14. QED
  BY <1>1, <1>2, <1>5, <1>9, <1>11, <1>12, <1>13

\* The first packet of a visit is matched with all the regexes that suit it, the filled
\* ones first.
LEMMA AddSuitableFirst ==
  ASSUME NEW p, PluginOK(p), NEW pkt \in Packets(p)
  PROVE  LET filled == Chosen(filled_p_regex(p), pkt.holds)
             E == IF p.optimized THEN <<>> ELSE empty_p_regex(p)
         IN /\ AddSuitable(<<>>, p, pkt) = filled \o E
            /\ filled \in Seq(Nat) /\ Increasing(filled) /\ ToSet(filled) = pkt.holds
            /\ E \in Seq(Nat) /\ Increasing(E)
            /\ ToSet(E) = IF p.optimized THEN {} ELSE ToSet(empty_p_regex(p))
<1>1. PICK filled : filled = Chosen(filled_p_regex(p), pkt.holds)
  OBVIOUS
<1>2. PICK E : E = IF p.optimized THEN <<>> ELSE empty_p_regex(p)
  OBVIOUS
<1>3. /\ filled_p_regex(p) \in Seq(Nat) /\ Increasing(filled_p_regex(p))
      /\ Len(filled_p_regex(p)) <= Len(p.regex)
  BY SplitFacts DEF filled_p_regex
<1>4. filled \in Seq(Nat) /\ Increasing(filled) /\ Len(filled) <= Len(filled_p_regex(p))
  BY <1>1, <1>3, ChosenRange, ChosenIncreasing
<1>5. ToSet(filled) = pkt.holds
  <2>1. pkt.holds \subseteq ToSet(filled_p_regex(p))
    BY DEF Packets
  <2>2. ToSet(filled) = ToSet(filled_p_regex(p)) \cap pkt.holds
    BY <1>1, <1>3, ChosenRange
  <2>3. QED
    BY <2>1, <2>2
<1>6. E \in Seq(Nat) /\ Increasing(E)
  <2>1. empty_p_regex(p) \in Seq(Nat) /\ Increasing(empty_p_regex(p))
    BY SplitFacts DEF empty_p_regex
  <2>2. <<>> \in Seq(Nat) /\ Increasing(<<>>)
    BY DEF Increasing
  <2>3. QED
    BY <1>2, <2>1, <2>2
<1>7. ToSet(E) = IF p.optimized THEN {} ELSE ToSet(empty_p_regex(p))
  <2>1. ToSet(<<>>) = {}
    BY DEF ToSet
  <2>2. QED
    BY <1>2, <2>1
<1>8. AddSuitable(<<>>, p, pkt) = filled \o E
  <2>1. PICK b \in Nat : b = Len(filled)
    BY <1>4
  <2>2. b <= MaxRegex
    <3>1. PICK n \in Nat : n = Len(p.regex) /\ n <= MaxRegex
      BY DEF PluginOK, IsSeq
    <3>2. PICK x \in Nat : x = Len(filled_p_regex(p))
      BY <1>3
    <3>3. QED
      BY <1>3, <1>4, <2>1, <3>1, <3>2, StartupAssumption
  <2>3. Len(<<>>) = 0 /\ MaxRegex - 0 = MaxRegex /\ MaxRegex \in Nat
    BY StartupAssumption
  <2>4. Min({b, MaxRegex}) = b
    BY <2>2, <2>3, MinOfTwo
  <2>5. SubSeq(filled, 1, b) = filled
    BY <1>4, <2>1
  <2>6. AddSuitable(<<>>, p, pkt) = <<>> \o filled \o E
    BY <1>1, <1>2, <2>1, <2>3, <2>4, <2>5 DEF AddSuitable
  <2>7. QED
    BY <1>4, <1>6, <2>6
<1>9. QED
  BY <1>1, <1>2, <1>4, <1>5, <1>6, <1>7, <1>8

-----------------------------------------------------------------------------
(* The plugins of a worker.                                                *)

LEMMA WorkerCoresDomain ==
  ASSUME StartInv
  PROVE  \E n \in Nat : n = nb_slaves /\ DOMAIN worker_cores = 1 .. n
<1>1. PICK n \in Nat : DOMAIN core_conf = 1 .. n
  BY DEF StartInv, CoresInv
<1>2. IsFiniteSet(1 .. n)
  BY FS_Interval
<1>3. {i \in DOMAIN core_conf : core_conf[i].role = "c"} \subseteq 1 .. n
  BY <1>1
<1>4. nb_slaves \in Nat
  BY <1>2, <1>3, FS_Subset, FS_CardinalityType DEF nb_slaves, CountOf
<1>5. QED
  BY <1>4 DEF worker_cores, Slice

LEMMA MastersCount == StartInv => nb_masters \in Nat
<1> SUFFICES ASSUME StartInv PROVE nb_masters \in Nat
  OBVIOUS
<1>1. PICK n \in Nat : DOMAIN core_conf = 1 .. n
  BY DEF StartInv, CoresInv
<1>2. IsFiniteSet(1 .. n)
  BY FS_Interval
<1>3. {i \in DOMAIN core_conf : core_conf[i].role = "m"} \subseteq 1 .. n
  BY <1>1
<1>4. QED
  BY <1>2, <1>3, FS_Subset, FS_CardinalityType DEF nb_masters, CountOf

\* Only plugins are copied.
LEMMA CopyRange ==
  ASSUME StartInv
  PROVE  CopyOrder(WorkerTable) \in Seq(DOMAIN plugin)
<1>1. PICK n \in Nat : DOMAIN worker_cores = 1 .. n
  BY WorkerCoresDomain
<1>2. PICK D : D = DOMAIN plugin
  OBVIOUS
<1>3. PICK all : all = WorkerTable
  OBVIOUS
<1>4. DOMAIN all = 1 .. n /\ \A w \in 1 .. n : all[w].plugins \in Seq(D)
  BY <1>1, <1>2, <1>3, WorkerPlugins DEF WorkerTable
<1>5. <<>> \in Seq(D)
  OBVIOUS
<1> DEFINE A == [w \in DOMAIN all |-> IF all[w].dedicated THEN all[w].plugins ELSE <<>>]
           B == [w \in DOMAIN all |-> IF all[w].dedicated THEN <<>> ELSE all[w].plugins]
<1>6. A \in [1 .. n -> Seq(D)] /\ B \in [1 .. n -> Seq(D)]
  BY <1>4, <1>5
<1>7. CopyOrder(all) = FlattenSeq(A) \o FlattenSeq(B)
  BY Zenon DEF CopyOrder
<1> HIDE DEF A, B
<1>8. A \in Seq(Seq(D)) /\ B \in Seq(Seq(D))
  BY <1>6
<1>9. FlattenSeq(A) \in Seq(D) /\ FlattenSeq(B) \in Seq(D)
  BY <1>8, FlattenRange
<1>10. QED
  BY <1>2, <1>3, <1>7, <1>9, ConcatProperties

-----------------------------------------------------------------------------
(* The loop of a worker.                                                   *)

Busy == step \in {"visit", "poll", "generic", "emit"}
Matches == step \in {"poll", "generic", "emit"}
MeInv == /\ step \in {"none", "visit", "poll", "generic", "emit", "exit", "done"}
         /\ step # "none" => /\ pc \in {"running", "joined", "stopped"} \cup Faults
                             /\ me \in DOMAIN workers
NoneInv == step = "none" => at = 1 /\ master = 1 /\ out = NoOutput
AtInv == Busy => at \in DOMAIN workers[me].plugins
MasterInv == /\ master \in Nat \ {0} /\ master <= nb_masters + 1
             /\ step \in {"generic", "emit"} => master <= nb_masters
PacketInv == step \in {"generic", "emit"} => packet \in Packets(Plgn)
BestInv == best \in Bests
RowsInv == IsSeq(rows)
SuitInv == Matches => suit \in Seq(DOMAIN Plgn.regex) /\ Len(suit) <= MaxRegex

\* The arrays hold no more than they have room for, and best_match a row that was filled.
BestRow(b, rs) == b = NoBest \/ (b.match > 0 /\ b.row \in DOMAIN rs)
RoomInv == suit \in Seq(Nat) /\ Len(suit) <= MaxRegex /\ Len(rows) <= MaxRegex /\ BestRow(best, rows)

\* Each packet of a visit adds at most every regex of the plugin once.
GrowInv == /\ step = "poll" => Len(suit) <= (master - 1) * Len(Plgn.regex)
           /\ step \in {"generic", "emit"} => Len(suit) <= master * Len(Plgn.regex)

\* The first packet of a visit finds nothing of an earlier one, and the best match
\* is one of its own.
PollInv == step = "poll" /\ master = 1 => best = NoBest /\ suit = <<>> /\ rows = <<>>
GenericInv == step = "generic" /\ master = 1 =>
                /\ best = NoBest
                /\ \A r \in Suitable(Plgn, packet) : Ret(packet, r) = 0
EmitInv == step = "emit" /\ master = 1 =>
             \/ best.match = 0
             \/ rows[best.row] = [rgx |-> best.rgx, ret |-> best.match, fresh |-> TRUE]

PlaceInv == MeInv /\ NoneInv /\ AtInv /\ MasterInv /\ BestInv /\ RowsInv
PacketsInv == PacketInv /\ SuitInv /\ GrowInv /\ PollInv /\ GenericInv /\ EmitInv /\ BestOfPacket
WorkerInv == PlaceInv /\ PacketsInv /\ RoomInv /\ FreshWithOneMaster

LEMMA WorkerInit == WInit => WorkerInv
<1> SUFFICES ASSUME WInit PROVE WorkerInv
  OBVIOUS
<1>1. PlaceInv
  BY StartInit, MastersCount
     DEF WInit, PlaceInv, MeInv, NoneInv, AtInv, MasterInv, BestInv, RowsInv, Busy, NoBest,
         Bests, IsSeq
<1>2. PacketsInv
  BY DEF WInit, PacketsInv, PacketInv, SuitInv, GrowInv, PollInv, GenericInv, EmitInv,
         BestOfPacket, Matches
<1>3. FreshWithOneMaster
  BY DEF WInit, FreshWithOneMaster, NoOutput
<1>4. RoomInv
  BY StartupAssumption DEF WInit, RoomInv, BestRow
<1>5. QED
  BY <1>1, <1>2, <1>3, <1>4 DEF WorkerInv

LEMMA MastersCountNext == StartInv' => nb_masters' \in Nat
<1>1. (StartInv => nb_masters \in Nat)'
  BY MastersCount, PTL
<1>2. QED
  BY <1>1

\* Before it starts, a worker has no state.
LEMMA SetupKeepsWorker ==
  ASSUME WorkerInv, StartInv', step = "none", UNCHANGED wvars
  PROVE  WorkerInv'
<1>1. PlaceInv'
  BY MastersCountNext
     DEF WorkerInv, PlaceInv, MeInv, NoneInv, AtInv, MasterInv, BestInv, RowsInv, Busy, wvars
<1>2. PacketsInv'
  BY DEF wvars, PacketsInv, PacketInv, SuitInv, GrowInv, PollInv, GenericInv, EmitInv,
         BestOfPacket, Matches
<1>3. FreshWithOneMaster'
  BY DEF WorkerInv, PlaceInv, NoneInv, wvars, FreshWithOneMaster, NoOutput
<1>4. RoomInv'
  BY DEF WorkerInv, wvars, RoomInv
<1>5. QED
  BY <1>1, <1>2, <1>3, <1>4 DEF WorkerInv

\* After it has started, main leaves alone what it works with.
LEMMA MainKeepsWorker ==
  ASSUME WorkerInv, UNCHANGED <<core_conf, plugin, workers>>, UNCHANGED wvars,
         pc' = pc \/ pc' \in {"joined", "stopped"} \cup Faults
  PROVE  WorkerInv'
<1>1. nb_masters' = nb_masters /\ Plgn' = Plgn
  BY DEF nb_masters, CountOf, Plgn, wvars
<1>2. PlaceInv'
  BY <1>1 DEF WorkerInv, PlaceInv, MeInv, NoneInv, AtInv, MasterInv, BestInv, RowsInv, Busy,
              wvars
<1>3. PacketInv' /\ SuitInv' /\ GrowInv' /\ PollInv'
  BY <1>1 DEF WorkerInv, PacketsInv, wvars, PacketInv, SuitInv, GrowInv, PollInv, Matches
<1>4. GenericInv' /\ EmitInv' /\ BestOfPacket'
  BY <1>1 DEF WorkerInv, PacketsInv, wvars, GenericInv, EmitInv, BestOfPacket
<1>5. FreshWithOneMaster' /\ RoomInv'
  BY <1>1 DEF WorkerInv, wvars, FreshWithOneMaster, RoomInv
<1>6. QED
  BY <1>2, <1>3, <1>4, <1>5 DEF WorkerInv, PacketsInv

\* The worker is one of the table, and visits one of the plugins.
LEMMA Visiting ==
  ASSUME StartInv, WorkerInv, pc = "running", Busy
  PROVE  /\ me \in DOMAIN worker_cores /\ workers[me] = Worker(worker_cores[me])
         /\ workers[me].core = worker_cores[me]
         /\ workers[me].plugins \in Seq(DOMAIN plugin)
         /\ at \in DOMAIN workers[me].plugins
         /\ workers[me].plugins[at] \in DOMAIN plugin
         /\ PluginOK(Plgn)
<1>1. me \in DOMAIN workers /\ at \in DOMAIN workers[me].plugins
  BY DEF WorkerInv, PlaceInv, MeInv, AtInv, Busy
<1>2. workers = WorkerTable
  BY DEF StartInv, WorkersInv
<1>3. me \in DOMAIN worker_cores /\ workers[me] = Worker(worker_cores[me])
  BY <1>1, <1>2 DEF WorkerTable
<1>4. workers[me].plugins \in Seq(DOMAIN plugin)
  BY <1>3, WorkerPlugins
<1>5. workers[me].plugins[at] \in DOMAIN plugin
  BY <1>1, <1>4
<1>6. PluginOK(Plgn)
  BY <1>5 DEF StartInv, PluginInv, Plgn
<1>7. workers[me].core = worker_cores[me]
  BY <1>3 DEF Worker
<1>8. QED
  BY <1>1, <1>3, <1>4, <1>5, <1>6, <1>7

LEMMA StartWorkerKeeps ==
  ASSUME StartInv, WorkerInv, StartWorker
  PROVE  WorkerInv'
<1>1. /\ pc' = "running" /\ step = "none" /\ at = 1 /\ at' = 1 /\ out' = NoOutput
      /\ UNCHANGED <<core_conf, plugin, workers, master, best, suit, rows>>
      /\ nb_masters' = nb_masters
  BY DEF nb_masters, CountOf, StartWorker, svars, WorkerInv, PlaceInv, NoneInv
<1>2. PICK w \in DOMAIN workers :
        me' = w /\ step' = IF workers[w].plugins = <<>> THEN "exit" ELSE "visit"
  BY DEF StartWorker
<1>3. workers[w].plugins # <<>> => 1 \in DOMAIN workers[w].plugins
  <2>1. workers = WorkerTable /\ pc = "running"
    BY DEF StartInv, WorkersInv, StartWorker
  <2>2. workers[w] = Worker(worker_cores[w])
    BY <2>1 DEF WorkerTable
  <2>3. workers[w].plugins \in Seq(DOMAIN plugin)
    BY <2>2, WorkerPlugins
  <2>4. QED
    BY <2>3
<1>4. step' \in {"exit", "visit"}
  BY <1>2
<1>5. PlaceInv'
  BY <1>1, <1>2, <1>3 DEF WorkerInv, PlaceInv, MeInv, NoneInv, AtInv, MasterInv, BestInv,
                          RowsInv, Busy
<1>6. PacketsInv'
  BY <1>4 DEF PacketsInv, PacketInv, SuitInv, GrowInv, PollInv, GenericInv, EmitInv,
              BestOfPacket, Matches
<1>7. FreshWithOneMaster' /\ RoomInv'
  BY <1>1 DEF WorkerInv, FreshWithOneMaster, NoOutput, RoomInv
<1>8. QED
  BY <1>5, <1>6, <1>7 DEF WorkerInv

LEMMA VisitPluginKeeps ==
  ASSUME StartInv, WorkerInv, VisitPlugin
  PROVE  WorkerInv'
<1>1. /\ step = "visit" /\ step' = "poll" /\ master' = 1 /\ best' = NoBest /\ suit' = <<>>
      /\ rows' = <<>> /\ UNCHANGED <<pc, core_conf, plugin, workers, me, at, packet, out>>
  BY DEF VisitPlugin, svars
<1>2. nb_masters' = nb_masters /\ Plgn' = Plgn
  BY <1>1 DEF nb_masters, CountOf, Plgn
<1>3. PluginOK(Plgn)
  BY <1>1, Visiting DEF VisitPlugin, Busy
<1>4. PlaceInv'
  BY <1>1, <1>2, MastersCount
     DEF WorkerInv, PlaceInv, MeInv, NoneInv, AtInv, MasterInv, BestInv, RowsInv, Busy,
         NoBest, Bests, IsSeq
<1>5. SuitInv' /\ GrowInv'
  <2>1. PICK n \in Nat : n = Len(Plgn.regex)
    BY <1>3 DEF PluginOK, IsSeq
  <2>2. (1 - 1) * n = 0
    OBVIOUS
  <2>3. QED
    BY <1>1, <1>2, <2>1, <2>2, StartupAssumption DEF SuitInv, GrowInv, Matches
<1>6. PacketInv' /\ PollInv' /\ GenericInv' /\ EmitInv' /\ BestOfPacket'
  BY <1>1 DEF PacketInv, PollInv, GenericInv, EmitInv, BestOfPacket
<1>7. FreshWithOneMaster'
  BY <1>1, <1>2 DEF WorkerInv, FreshWithOneMaster
<1>8. RoomInv'
  BY <1>1, StartupAssumption DEF RoomInv, BestRow
<1>9. QED
  BY <1>4, <1>5, <1>6, <1>7, <1>8 DEF WorkerInv, PacketsInv

LEMMA PollEmptyKeeps ==
  ASSUME StartInv, WorkerInv, PollEmpty
  PROVE  WorkerInv'
<1>1. /\ step = "poll" /\ step' = "poll" /\ master' = master + 1 /\ out' = NoOutput
      /\ master <= nb_masters
      /\ UNCHANGED <<pc, core_conf, plugin, workers, me, at, packet, best, suit, rows>>
  BY DEF PollEmpty, svars
<1>2. nb_masters' = nb_masters /\ Plgn' = Plgn
  BY <1>1 DEF nb_masters, CountOf, Plgn
<1>3. master \in Nat /\ master # 0 /\ master' # 1
  BY <1>1 DEF WorkerInv, PlaceInv, MasterInv
<1>4. PlaceInv'
  BY <1>1, <1>2, <1>3, MastersCount
     DEF WorkerInv, PlaceInv, MeInv, NoneInv, AtInv, MasterInv, BestInv, RowsInv, Busy
<1>5. SuitInv'
  BY <1>1, <1>2 DEF WorkerInv, PacketsInv, SuitInv, Matches
<1>6. GrowInv'
  <2>1. PluginOK(Plgn)
    BY <1>1, Visiting DEF PollEmpty, Busy
  <2>2. PICK n \in Nat : n = Len(Plgn.regex)
    BY <2>1 DEF PluginOK, IsSeq
  <2>3. PICK k \in Nat : k = Len(suit)
    BY <1>1 DEF WorkerInv, PacketsInv, SuitInv, Matches
  <2>4. k <= (master - 1) * n
    BY <1>1, <2>2, <2>3 DEF WorkerInv, PacketsInv, GrowInv
  <2>5. (master - 1) * n + n = master * n /\ (master - 1) * n \in Nat /\ master * n \in Nat
    BY <1>3
  <2>6. k <= master * n /\ master' - 1 = master
    BY <1>1, <1>3, <2>4, <2>5
  <2>7. QED
    BY <1>1, <1>2, <2>2, <2>3, <2>6 DEF GrowInv
<1>7. PacketInv' /\ PollInv' /\ GenericInv' /\ EmitInv' /\ BestOfPacket'
  BY <1>1, <1>3 DEF PacketInv, PollInv, GenericInv, EmitInv, BestOfPacket
<1>8. FreshWithOneMaster' /\ RoomInv'
  BY <1>1 DEF WorkerInv, FreshWithOneMaster, NoOutput, RoomInv
<1>9. QED
  BY <1>4, <1>5, <1>6, <1>7, <1>8 DEF WorkerInv, PacketsInv

LEMMA NextPluginKeeps ==
  ASSUME StartInv, WorkerInv, NextPlugin
  PROVE  WorkerInv'
<1>1. /\ step = "poll" /\ step' \in {"visit", "exit"} /\ out' = NoOutput
      /\ at' = IF at = Len(workers[me].plugins) THEN 1 ELSE at + 1
      /\ UNCHANGED <<pc, core_conf, plugin, workers, me, master, best, suit, rows>>
      /\ nb_masters' = nb_masters
  BY DEF NextPlugin, svars, nb_masters, CountOf
<1>2. PICK n \in Nat : n = Len(workers[me].plugins) /\ DOMAIN workers[me].plugins = 1 .. n
  BY <1>1, Visiting DEF NextPlugin, Busy
<1>3. at \in 1 .. n
  BY <1>1, <1>2, Visiting DEF NextPlugin, Busy
<1>4. at' \in 1 .. n
  BY <1>1, <1>2, <1>3
<1>5. PlaceInv'
  BY <1>1, <1>2, <1>4 DEF WorkerInv, PlaceInv, MeInv, NoneInv, AtInv, MasterInv, BestInv,
                          RowsInv, Busy
<1>6. PacketsInv'
  BY <1>1 DEF PacketsInv, PacketInv, SuitInv, GrowInv, PollInv, GenericInv, EmitInv,
              BestOfPacket, Matches
<1>7. FreshWithOneMaster' /\ RoomInv'
  BY <1>1 DEF WorkerInv, FreshWithOneMaster, NoOutput, RoomInv
<1>8. QED
  BY <1>5, <1>6, <1>7 DEF WorkerInv

LEMMA ExitWorkerKeeps ==
  ASSUME StartInv, WorkerInv, ExitWorker, ~ Leaves
  PROVE  WorkerInv'
<1>1. /\ step = "exit" /\ step' = "done"
      /\ UNCHANGED <<pc, core_conf, plugin, workers, me, at, master, packet, best, suit, rows,
                     out>>
  BY UndefinedLeaves DEF ExitWorker, svars, Faults
<1>2. nb_masters' = nb_masters
  BY <1>1 DEF nb_masters, CountOf
<1>3. PlaceInv'
  BY <1>1, <1>2 DEF WorkerInv, PlaceInv, MeInv, NoneInv, AtInv, MasterInv, BestInv, RowsInv, Busy
<1>4. PacketsInv'
  BY <1>1 DEF PacketsInv, PacketInv, SuitInv, GrowInv, PollInv, GenericInv, EmitInv,
              BestOfPacket, Matches
<1>5. FreshWithOneMaster' /\ RoomInv'
  BY <1>1, <1>2 DEF WorkerInv, FreshWithOneMaster, RoomInv
<1>6. QED
  BY <1>3, <1>4, <1>5 DEF WorkerInv

\* Rows that a match fills.
LEMMA MatchedRows ==
  ASSUME NEW rs, IsSeq(rs), NEW s \in Seq(Nat), NEW pkt
  PROVE  /\ IsSeq(Matched(rs, s, pkt)) /\ IsSeq(Aged(rs))
         /\ \A k \in 1 .. Len(s) :
              Matched(rs, s, pkt)[k] = [rgx |-> s[k], ret |-> Ret(pkt, s[k]), fresh |-> TRUE]
<1>1. PICK m \in Nat : m = Len(rs) /\ DOMAIN rs = 1 .. m
  BY DEF IsSeq
<1>2. PICK n \in Nat : n = Len(s)
  OBVIOUS
<1>3. PICK x \in Nat : x = Max({m, n}) /\ x >= n
  BY MaxOfTwo
<1>4. PICK f : f = Matched(rs, s, pkt)
  OBVIOUS
<1>5. f = [r \in 1 .. x |->
             IF r <= n THEN [rgx |-> s[r], ret |-> Ret(pkt, s[r]), fresh |-> TRUE] ELSE rs[r]]
  BY <1>1, <1>2, <1>3, <1>4 DEF Matched
<1>6. f = [r \in 1 .. x |-> f[r]]
  BY <1>5
<1>7. IsSeq(f)
  BY <1>6, FunctionIsSeq
<1>8. IsSeq(Aged(rs))
  <2>1. PICK g : g = Aged(rs)
    OBVIOUS
  <2>2. g = [r \in 1 .. m |-> g[r]]
    BY <1>1, <2>1 DEF Aged
  <2>3. QED
    BY <2>1, <2>2, FunctionIsSeq
<1>9. ASSUME NEW k \in 1 .. n
      PROVE  f[k] = [rgx |-> s[k], ret |-> Ret(pkt, s[k]), fresh |-> TRUE]
  <2>1. k \in 1 .. x /\ k <= n
    BY <1>3
  <2>2. QED
    BY <1>5, <2>1
<1>10. QED
  BY <1>2, <1>4, <1>7, <1>8, <1>9

LEMMA MatchedRoom ==
  ASSUME NEW rs, IsSeq(rs), Len(rs) <= MaxRegex,
         NEW s \in Seq(Nat), Len(s) <= MaxRegex, NEW pkt
  PROVE  /\ Len(Matched(rs, s, pkt)) <= MaxRegex /\ Len(Aged(rs)) <= MaxRegex
         /\ DOMAIN Aged(rs) = DOMAIN rs /\ DOMAIN rs \subseteq DOMAIN Matched(rs, s, pkt)
         /\ 1 .. Len(s) \subseteq DOMAIN Matched(rs, s, pkt)
<1>1. PICK m \in Nat : m = Len(rs) /\ DOMAIN rs = 1 .. m
  BY DEF IsSeq
<1>2. PICK n \in Nat : n = Len(s)
  OBVIOUS
<1>3. PICK x \in Nat : x = Max({m, n}) /\ x >= n /\ x >= m /\ x \in {m, n}
  BY MaxOfTwo
<1>4. PICK f, g : f = Matched(rs, s, pkt) /\ g = Aged(rs)
  OBVIOUS
<1>5. f = [r \in 1 .. x |-> f[r]] /\ g = [r \in 1 .. m |-> g[r]]
  BY <1>1, <1>2, <1>3, <1>4 DEF Matched, Aged
<1>6. Len(f) = x /\ DOMAIN f = 1 .. x /\ Len(g) = m /\ DOMAIN g = 1 .. m
  BY <1>5, FunctionIsSeq
<1>7. x <= MaxRegex
  BY <1>1, <1>2, <1>3
<1>8. 1 .. m \subseteq 1 .. x /\ 1 .. n \subseteq 1 .. x
  <2>1. m <= x /\ n <= x
    BY <1>3
  <2>2. QED
    BY ONLY <2>1, m \in Nat, n \in Nat, x \in Nat
<1>9. QED
  BY <1>1, <1>2, <1>4, <1>6, <1>7, <1>8

\* The best match stays in a row that is filled.
LEMMA BestRowKept ==
  ASSUME NEW b \in Bests, NEW rs, IsSeq(rs), Len(rs) <= MaxRegex, BestRow(b, rs),
         NEW s \in Seq(Nat), Len(s) <= MaxRegex, NEW pkt,
         \A i \in 1 .. Len(s) : Ret(pkt, s[i]) \in Nat
  PROVE  BestRow(MatchAll(b, s, pkt), Matched(rs, s, pkt))
<1>1. PICK c \in Bests : c = MatchAll(b, s, pkt) /\ FirstBest(c, b, s, pkt, Len(s))
  BY MatchBest
<1>2. PICK D : D = DOMAIN Matched(rs, s, pkt)
  OBVIOUS
<1>3. DOMAIN rs \subseteq D /\ 1 .. Len(s) \subseteq D
  BY <1>2, MatchedRoom
<1>4. CASE c = b
  BY <1>1, <1>2, <1>3, <1>4 DEF BestRow
<1>5. ASSUME NEW k \in 1 .. Len(s), c = [match |-> Ret(pkt, s[k]), rgx |-> s[k], row |-> k],
             c.match > b.match
      PROVE  c.match > 0 /\ c.row \in D
  <2>1. c.match \in Nat /\ b.match \in Nat
    BY DEF Bests
  <2>2. c.row = k
    BY <1>5
  <2>3. QED
    BY <1>3, <1>5, <2>1, <2>2
<1>6. QED
  BY <1>1, <1>2, <1>4, <1>5 DEF FirstBest, BestRow

\* The best match of the first packet of a visit.
LEMMA BestOfFirst ==
  ASSUME NEW p, PluginOK(p), NEW pkt \in Packets(p), NEW b,
         b = MatchAll(NoBest, AddSuitable(<<>>, p, pkt), pkt)
  PROVE  /\ b.match = 0 => b = NoBest /\ \A r \in Suitable(p, pkt) : Ret(pkt, r) = 0
         /\ (\E r \in Suitable(p, pkt) : Ret(pkt, r) > 0) =>
              /\ b.rgx \in Suitable(p, pkt) /\ b.match = Ret(pkt, b.rgx)
              /\ \A q \in Suitable(p, pkt) :
                   \/ Ret(pkt, q) < b.match
                   \/ Ret(pkt, q) = b.match /\ Earlier(p, b.rgx, q)
<1>1. PICK F : F = Chosen(filled_p_regex(p), pkt.holds)
  OBVIOUS
<1>2. PICK E : E = IF p.optimized THEN <<>> ELSE empty_p_regex(p)
  OBVIOUS
<1>3. /\ AddSuitable(<<>>, p, pkt) = F \o E
      /\ F \in Seq(Nat) /\ Increasing(F) /\ ToSet(F) = pkt.holds
      /\ E \in Seq(Nat) /\ Increasing(E)
      /\ ToSet(E) = IF p.optimized THEN {} ELSE ToSet(empty_p_regex(p))
  BY <1>1, <1>2, AddSuitableFirst
<1>4. PICK s \in Seq(Nat) : s = F \o E
  BY <1>3, ConcatProperties
<1>5. PICK n \in Nat : n = Len(s) /\ DOMAIN s = 1 .. n
  OBVIOUS
<1>6. PICK f \in Nat : f = Len(F)
  <2>1. F \in Seq(Nat)
    BY <1>3
  <2>2. QED
    BY <2>1
<1>7. /\ \A i \in 1 .. n : \/ i \in DOMAIN F /\ s[i] = F[i]
                           \/ \E j \in DOMAIN E : i = f + j /\ s[i] = E[j]
      /\ \A i \in DOMAIN F : i \in 1 .. n /\ s[i] = F[i]
      /\ \A j \in DOMAIN E : f + j \in 1 .. n /\ s[f + j] = E[j]
  BY <1>3, <1>4, <1>5, <1>6, ConcatPlaces
<1>8. PICK G : G = Suitable(p, pkt)
  OBVIOUS
<1>9. G = ToSet(F) \cup ToSet(E)
  BY <1>3, <1>8 DEF Suitable
<1>10. \A i \in 1 .. n : s[i] \in G
  BY <1>7, <1>9 DEF ToSet
<1>11. \A q \in G : \E i \in 1 .. n : s[i] = q
  <2> SUFFICES ASSUME NEW q \in G PROVE \E i \in 1 .. n : s[i] = q
    OBVIOUS
  <2>1. CASE q \in ToSet(F)
    BY <1>7, <2>1 DEF ToSet
  <2>2. CASE q \in ToSet(E)
    <3>1. PICK j \in DOMAIN E : q = E[j]
      BY <2>2 DEF ToSet
    <3>2. QED
      BY <1>7, <3>1
  <2>3. QED
    BY <1>9, <2>1, <2>2
<1>12. G \subseteq DOMAIN p.regex
  <2>1. ToSet(E) \subseteq DOMAIN p.regex
    BY <1>3, SplitFacts DEF empty_p_regex
  <2>2. ToSet(filled_p_regex(p)) \subseteq DOMAIN p.regex
    BY SplitFacts DEF filled_p_regex
  <2>3. pkt.holds \subseteq ToSet(filled_p_regex(p))
    BY DEF Packets
  <2>4. QED
    BY <1>3, <1>9, <2>1, <2>2, <2>3
<1>13. \A q \in G : Ret(pkt, q) \in Nat
  BY <1>12, RetNat
<1>14. NoBest \in Bests /\ NoBest.match = 0
  BY DEF NoBest, Bests
<1>15. b \in Bests /\ FirstBest(b, NoBest, s, pkt, n)
  BY <1>3, <1>4, <1>5, <1>10, <1>13, <1>14, MatchBest
<1>16. CASE b = NoBest /\ \A j \in 1 .. n : Ret(pkt, s[j]) <= 0
  <2>1. \A q \in G : Ret(pkt, q) = 0
    <3> SUFFICES ASSUME NEW q \in G PROVE Ret(pkt, q) = 0
      OBVIOUS
    <3>1. PICK r \in Nat : r = Ret(pkt, q)
      BY <1>13
    <3>2. r <= 0
      BY <1>11, <1>16, <3>1
    <3>3. QED
      BY <3>1, <3>2
  <2>2. QED
    BY <1>8, <1>16, <2>1
<1>17. ASSUME NEW k \in 1 .. n,
              b = [match |-> Ret(pkt, s[k]), rgx |-> s[k], row |-> k],
              b.match > 0,
              \A j \in 1 .. n : Ret(pkt, s[j]) < b.match \/ (Ret(pkt, s[j]) = b.match /\ k <= j)
       PROVE  /\ b.match # 0 /\ b.rgx \in G /\ b.match = Ret(pkt, b.rgx)
              /\ \A q \in G : Ret(pkt, q) < b.match
                                \/ (Ret(pkt, q) = b.match /\ Earlier(p, b.rgx, q))
  <2>1. b.rgx = s[k] /\ b.match = Ret(pkt, s[k]) /\ s[k] \in G
    BY <1>10, <1>17
  <2>2. b.match # 0
    BY <1>17
  <2>3. ASSUME NEW q \in G
        PROVE  Ret(pkt, q) < b.match \/ (Ret(pkt, q) = b.match /\ Earlier(p, s[k], q))
    <3>1. PICK j \in 1 .. n : s[j] = q
      BY <1>11
    <3>2. CASE Ret(pkt, q) < b.match
      BY <3>2
    <3>3. CASE Ret(pkt, q) = b.match /\ k <= j
      <4>1. Earlier(p, s[k], s[j])
        <5>1. PICK A : A = ToSet(filled_p_regex(p))
          OBVIOUS
        <5>2. \A i \in DOMAIN F : F[i] \in A
          <6>1. ToSet(F) \subseteq A
            BY <1>3, <5>1 DEF Packets
          <6>2. QED
            BY <6>1 DEF ToSet
        <5>3. \A i \in DOMAIN E : E[i] \notin A
          <6>1. ToSet(E) \cap A = {}
            BY <1>3, <5>1, SplitFacts DEF filled_p_regex, empty_p_regex
          <6>2. QED
            BY <6>1 DEF ToSet
        <5>4. \A i \in DOMAIN F : i \in 1 .. f
          BY <1>3, <1>6
        <5>5. \A i \in DOMAIN E : i \in Nat /\ i >= 1
          BY <1>3
        <5>6. CASE k \in DOMAIN F /\ s[k] = F[k]
          <6>1. s[k] \in A
            BY <5>2, <5>6
          <6>2. CASE s[j] \notin A
            BY <5>1, <6>1, <6>2 DEF Earlier
          <6>3. CASE s[j] \in A
            <7>1. j \in DOMAIN F /\ s[j] = F[j]
              BY <1>7, <5>3, <6>3
            <7>2. F[k] < F[j] \/ k = j
              BY <3>3, <5>4, <5>6, <7>1, <1>3 DEF Increasing
            <7>3. F[k] \in Nat /\ F[j] \in Nat
              BY <1>3, <5>6, <7>1, SMTT(30)
            <7>4. s[k] <= s[j]
              BY <5>6, <7>1, <7>2, <7>3
            <7>5. QED
              BY <5>1, <6>1, <6>3, <7>4 DEF Earlier
          <6>4. QED
            BY <6>2, <6>3
        <5>7. ASSUME NEW i \in DOMAIN E, k = f + i, s[k] = E[i]
              PROVE  Earlier(p, s[k], s[j])
          <6>1. s[k] \notin A
            BY <5>3, <5>7
          <6>2. j \notin DOMAIN F
            BY <3>3, <5>4, <5>5, <5>7
          <6>3. PICK l \in DOMAIN E : j = f + l /\ s[j] = E[l]
            BY <1>7, <6>2
          <6>4. s[j] \notin A
            BY <5>3, <6>3
          <6>5. i < l \/ i = l
            BY <3>3, <5>5, <5>7, <6>3
          <6>6. E[i] < E[l] \/ i = l
            BY <6>5, <1>3 DEF Increasing
          <6>7. E[i] \in Nat /\ E[l] \in Nat
            BY <1>3
          <6>8. s[k] <= s[j]
            BY <5>7, <6>3, <6>6, <6>7
          <6>9. QED
            BY <5>1, <6>1, <6>4, <6>8 DEF Earlier
        <5>8. QED
          BY <1>7, <5>6, <5>7
      <4>2. QED
        BY <3>1, <3>3, <4>1
    <3>4. QED
      BY <1>17, <3>1, <3>2, <3>3
  <2>4. QED
    BY <2>1, <2>2, <2>3
<1>18. (b = NoBest /\ \A j \in 1 .. n : Ret(pkt, s[j]) <= 0)
       \/ \E k \in 1 .. n :
            /\ b = [match |-> Ret(pkt, s[k]), rgx |-> s[k], row |-> k]
            /\ b.match > 0
            /\ \A j \in 1 .. n :
                 Ret(pkt, s[j]) < b.match \/ (Ret(pkt, s[j]) = b.match /\ k <= j)
  BY <1>14, <1>15 DEF FirstBest
<1>19. QED
  BY <1>8, <1>14, <1>16, <1>17, <1>18

\* What best_match of a packet is, for a packet that starts from no match.
LEMMA FreshRow ==
  ASSUME NEW rs, IsSeq(rs), NEW s \in Seq(Nat), NEW pkt, NEW b,
         \A i \in 1 .. Len(s) : Ret(pkt, s[i]) \in Nat,
         b = MatchAll(NoBest, s, pkt)
  PROVE  \/ b.match = 0
         \/ Matched(rs, s, pkt)[b.row] = [rgx |-> b.rgx, ret |-> b.match, fresh |-> TRUE]
<1>1. NoBest \in Bests /\ NoBest.match = 0
  BY DEF NoBest, Bests
<1>2. FirstBest(b, NoBest, s, pkt, Len(s))
  BY <1>1, MatchBest
<1>3. CASE b = NoBest
  BY <1>1, <1>3
<1>4. ASSUME NEW k \in 1 .. Len(s), b = [match |-> Ret(pkt, s[k]), rgx |-> s[k], row |-> k]
      PROVE  Matched(rs, s, pkt)[b.row] = [rgx |-> b.rgx, ret |-> b.match, fresh |-> TRUE]
  <2>1. b.row = k /\ b.rgx = s[k] /\ b.match = Ret(pkt, s[k])
    BY <1>4
  <2>2. Matched(rs, s, pkt)[k] = [rgx |-> s[k], ret |-> Ret(pkt, s[k]), fresh |-> TRUE]
    BY MatchedRows
  <2>3. QED
    BY <2>1, <2>2
<1>5. QED
  BY <1>2, <1>3, <1>4 DEF FirstBest

LEMMA PollPacketKeeps ==
  ASSUME StartInv, WorkerInv, PollPacket, ~ Leaves
  PROVE  WorkerInv'
<1>0. ~ Undefined("suit_rgxs")
  BY UndefinedLeaves DEF Faults
<1>1. /\ step = "poll" /\ pc = "running" /\ master <= nb_masters /\ out' = NoOutput
      /\ UNCHANGED <<pc, core_conf, plugin, workers, me, at, master>>
  BY <1>0 DEF PollPacket, svars
<1>2. PICK pkt \in Packets(Plgn) :
        /\ Len(AddSuitable(suit, Plgn, pkt)) <= MaxRegex
        /\ packet' = pkt /\ suit' = AddSuitable(suit, Plgn, pkt)
        /\ best' = MatchAll(best, AddSuitable(suit, Plgn, pkt), pkt)
        /\ rows' = Matched(Aged(rows), AddSuitable(suit, Plgn, pkt), pkt)
        /\ step' = IF best'.match = 0 THEN "generic" ELSE "emit"
  <2>1. PICK pkt \in Packets(Plgn) :
          LET s == AddSuitable(suit, Plgn, pkt)
          IN IF Len(s) > MaxRegex THEN Undefined("suit_rgxs") /\ UNCHANGED wvars
             ELSE /\ packet' = pkt /\ suit' = s
                  /\ best' = MatchAll(best, s, pkt)
                  /\ rows' = Matched(Aged(rows), s, pkt)
                  /\ step' = IF best'.match = 0 THEN "generic" ELSE "emit"
                  /\ out' = NoOutput
                  /\ UNCHANGED <<svars, me, at, master>>
    BY DEF PollPacket
  <2>2. PluginOK(Plgn) /\ suit \in Seq(DOMAIN Plgn.regex) /\ Len(suit) <= MaxRegex
    BY <1>1, Visiting DEF Busy, WorkerInv, PacketsInv, SuitInv, Matches
  <2>3. PICK k \in Nat : k = Len(AddSuitable(suit, Plgn, pkt))
    BY <2>2, AddSuitableBound
  <2>4. ~ (Len(AddSuitable(suit, Plgn, pkt)) > MaxRegex)
    BY <1>0, <2>1
  <2>5. Len(AddSuitable(suit, Plgn, pkt)) <= MaxRegex
    BY <2>3, <2>4, StartupAssumption
  <2>6. QED
    BY <2>1, <2>4, <2>5
<1>3. nb_masters' = nb_masters /\ Plgn' = Plgn
  BY <1>1 DEF nb_masters, CountOf, Plgn
<1>4. PluginOK(Plgn)
  BY <1>1, Visiting DEF Busy
<1>5. suit \in Seq(DOMAIN Plgn.regex) /\ Len(suit) <= MaxRegex
  BY <1>1 DEF WorkerInv, PacketsInv, SuitInv, Matches
<1>6. PICK D : D = DOMAIN Plgn.regex
  OBVIOUS
<1>7. D \subseteq Nat
  BY <1>4, <1>6 DEF PluginOK, IsSeq
<1>8. PICK s \in Seq(D) : s = AddSuitable(suit, Plgn, pkt)
  BY <1>4, <1>5, <1>6, AddSuitableBound
<1>9. s \in Seq(Nat)
  BY <1>7, <1>8, SeqOfMore
<1>10. \A i \in 1 .. Len(s) : Ret(pkt, s[i]) \in Nat
  <2>1. \A x \in D : Ret(pkt, x) \in Nat
    BY <1>6, RetNat
  <2>2. QED
    BY <1>8, <2>1
<1>11. step' \in {"generic", "emit"}
  BY <1>2
<1>12. best \in Bests /\ IsSeq(rows) /\ master \in Nat /\ master # 0
  BY DEF WorkerInv, PlaceInv, BestInv, RowsInv, MasterInv
<1>13. best' \in Bests
  BY <1>2, <1>8, <1>9, <1>10, <1>12, MatchBest
<1>14. IsSeq(rows')
  BY <1>2, <1>8, <1>9, <1>12, MatchedRows
<1>15. PlaceInv'
  BY <1>1, <1>3, <1>11, <1>12, <1>13, <1>14
     DEF WorkerInv, PlaceInv, MeInv, NoneInv, AtInv, MasterInv, BestInv, RowsInv, Busy
<1>16. PacketInv'
  BY <1>2, <1>3 DEF PacketInv
<1>17. SuitInv'
  BY <1>2, <1>3, <1>6, <1>8 DEF SuitInv
<1>18. GrowInv'
  <2>1. PICK n \in Nat : n = Len(Plgn.regex)
    BY <1>4 DEF PluginOK, IsSeq
  <2>2. PICK k \in Nat : k = Len(suit)
    BY <1>5
  <2>3. PICK l \in Nat : l = Len(s)
    OBVIOUS
  <2>4. l <= k + n
    BY <1>4, <1>5, <1>8, <2>1, <2>2, <2>3, AddSuitableBound
  <2>5. k <= (master - 1) * n
    BY <1>1, <2>1, <2>2 DEF WorkerInv, PacketsInv, GrowInv
  <2>6. (master - 1) * n + n = master * n /\ (master - 1) * n \in Nat /\ master * n \in Nat
    BY <1>12
  <2>7. l <= master * n
    BY <2>4, <2>5, <2>6
  <2>8. QED
    BY <1>1, <1>2, <1>3, <1>8, <1>11, <2>1, <2>3, <2>7 DEF GrowInv
<1>19. PollInv'
  BY <1>11 DEF PollInv
<1>20. GenericInv' /\ EmitInv' /\ BestOfPacket'
  <2>1. CASE master = 1
    <3>1. best = NoBest /\ suit = <<>> /\ rows = <<>>
      BY <1>1, <2>1 DEF WorkerInv, PacketsInv, PollInv
    <3>2. PICK b : b = best' /\ b = MatchAll(NoBest, AddSuitable(<<>>, Plgn, pkt), pkt)
                   /\ b = MatchAll(NoBest, s, pkt)
      BY <1>2, <1>8, <3>1
    <3>3. /\ b.match = 0 => b = NoBest /\ \A r \in Suitable(Plgn, pkt) : Ret(pkt, r) = 0
          /\ (\E r \in Suitable(Plgn, pkt) : Ret(pkt, r) > 0) =>
               /\ b.rgx \in Suitable(Plgn, pkt) /\ b.match = Ret(pkt, b.rgx)
               /\ \A q \in Suitable(Plgn, pkt) :
                    \/ Ret(pkt, q) < b.match
                    \/ Ret(pkt, q) = b.match /\ Earlier(Plgn, b.rgx, q)
      BY <1>4, <3>2, BestOfFirst
    <3>4. GenericInv'
      <4>1. Suitable(Plgn, packet)' = Suitable(Plgn, pkt)
        BY <1>2, <1>3 DEF Suitable
      <4>2. QED
        BY <1>2, <3>2, <3>3, <4>1 DEF GenericInv
    <3>5. EmitInv'
      <4>1. IsSeq(Aged(rows))
        BY <1>9, <1>12, MatchedRows
      <4>2. \/ b.match = 0
            \/ rows'[b.row] = [rgx |-> b.rgx, ret |-> b.match, fresh |-> TRUE]
        BY <1>2, <1>8, <1>9, <1>10, <3>2, <4>1, FreshRow
      <4>3. QED
        BY <3>2, <4>2 DEF EmitInv
    <3>6. BestOfPacket'
      BY <1>2, <1>3, <3>2, <3>3 DEF BestOfPacket, Suitable, Earlier
    <3>7. QED
      BY <3>4, <3>5, <3>6
  <2>2. CASE master # 1
    BY <1>1, <2>2 DEF GenericInv, EmitInv, BestOfPacket
  <2>3. QED
    BY <2>1, <2>2
<1>21. FreshWithOneMaster'
  BY <1>1 DEF FreshWithOneMaster, NoOutput
<1>22. RoomInv'
  <2>1. Len(rows) <= MaxRegex /\ BestRow(best, rows) /\ Len(s) <= MaxRegex
    BY <1>2, <1>8 DEF WorkerInv, RoomInv
  <2>2. PICK aged : aged = Aged(rows)
    OBVIOUS
  <2>3. IsSeq(aged) /\ Len(aged) <= MaxRegex /\ DOMAIN aged = DOMAIN rows
    BY <1>9, <1>12, <2>1, <2>2, MatchedRows, MatchedRoom
  <2>4. BestRow(best, aged)
    BY <2>1, <2>3 DEF BestRow
  <2>5. BestRow(MatchAll(best, s, pkt), Matched(aged, s, pkt))
    BY <1>9, <1>10, <1>12, <2>1, <2>3, <2>4, BestRowKept
  <2>6. Len(Matched(aged, s, pkt)) <= MaxRegex
    BY <1>9, <2>1, <2>3, MatchedRoom
  <2>7. QED
    BY <1>2, <1>8, <1>9, <2>1, <2>2, <2>5, <2>6 DEF RoomInv
<1>23. QED
  BY <1>15, <1>16, <1>17, <1>18, <1>19, <1>20, <1>21, <1>22 DEF WorkerInv, PacketsInv

LEMMA TryGenericsKeeps ==
  ASSUME StartInv, WorkerInv, TryGenerics, ~ Leaves
  PROVE  WorkerInv'
<1>0. ~ Undefined("generic_p_regex")
  BY UndefinedLeaves DEF Faults
<1>1. /\ step = "generic" /\ pc = "running" /\ step' = "emit"
      /\ UNCHANGED <<pc, core_conf, plugin, workers, me, at, master, packet, out>>
  BY <1>0 DEF TryGenerics, svars
<1>2. nb_masters' = nb_masters /\ Plgn' = Plgn
  BY <1>1 DEF nb_masters, CountOf, Plgn
<1>3. PluginOK(Plgn)
  BY <1>1, Visiting DEF Busy
<1>4. PICK D : D = DOMAIN Plgn.regex
  OBVIOUS
<1>5. PICK n \in Nat : n = Len(Plgn.regex) /\ n <= MaxRegex
  BY <1>3 DEF PluginOK, IsSeq
<1>6. PICK g \in Seq(D) : g = generic_p_regex(Plgn) /\ Len(g) <= n
  BY <1>3, <1>4, <1>5, SplitFacts DEF generic_p_regex
<1>7. g = <<>> \/ at \in DOMAIN g
  BY <1>0, <1>6 DEF TryGenerics
<1>8. PICK s : s = [r \in DOMAIN g |-> g[at]]
  OBVIOUS
<1>9. suit' = s /\ best' = MatchAll(best, s, packet) /\ rows' = Matched(rows, s, packet)
  BY <1>0, <1>6, <1>8 DEF TryGenerics
<1>10. PICK l \in Nat : l = Len(g) /\ DOMAIN g = 1 .. l
  BY <1>6
<1>11. s \in Seq(D) /\ Len(s) = l
  <2>1. \A r \in 1 .. l : g[at] \in D
    BY <1>6, <1>7, <1>10
  <2>2. s \in [1 .. l -> D]
    BY <1>8, <1>10, <2>1
  <2>3. QED
    BY <2>2
<1>12. D \subseteq Nat
  BY <1>3, <1>4 DEF PluginOK, IsSeq
<1>13. s \in Seq(Nat)
  BY <1>11, <1>12, SeqOfMore
<1>14. packet \in Packets(Plgn)
  BY <1>1 DEF WorkerInv, PacketsInv, PacketInv
<1>15. \A i \in 1 .. Len(s) : Ret(packet, s[i]) \in Nat
  <2>1. \A x \in D : Ret(packet, x) \in Nat
    BY <1>4, <1>14, RetNat
  <2>2. QED
    BY <1>11, <2>1
<1>16. best \in Bests /\ IsSeq(rows) /\ master \in Nat /\ master # 0 /\ master <= nb_masters
  BY <1>1 DEF WorkerInv, PlaceInv, BestInv, RowsInv, MasterInv
<1>17. best' \in Bests
  BY <1>9, <1>13, <1>15, <1>16, MatchBest
<1>18. IsSeq(rows')
  BY <1>9, <1>13, <1>16, MatchedRows
<1>19. PlaceInv'
  BY <1>1, <1>2, <1>16, <1>17, <1>18
     DEF WorkerInv, PlaceInv, MeInv, NoneInv, AtInv, MasterInv, BestInv, RowsInv, Busy
<1>20. PacketInv'
  BY <1>1, <1>2, <1>14 DEF PacketInv
<1>21. l <= n
  BY <1>6, <1>10
<1>22. SuitInv'
  <2>1. l <= MaxRegex
    BY <1>5, <1>21, StartupAssumption
  <2>2. QED
    BY <1>2, <1>4, <1>9, <1>11, <2>1 DEF SuitInv
<1>23. GrowInv'
  <2>1. n <= master * n
    <3>1. (master - 1) * n + n = master * n /\ (master - 1) * n \in Nat /\ master * n \in Nat
      BY <1>16
    <3>2. QED
      BY <3>1
  <2>2. l <= master * n
    <3>1. master * n \in Nat
      BY <1>16
    <3>2. QED
      BY <1>21, <2>1, <3>1
  <2>3. QED
    BY <1>1, <1>2, <1>5, <1>9, <1>11, <2>2 DEF GrowInv
<1>24. PollInv' /\ GenericInv'
  BY <1>1 DEF PollInv, GenericInv
<1>25. EmitInv' /\ BestOfPacket'
  <2>1. CASE master = 1
    <3>1. best = NoBest /\ \A r \in Suitable(Plgn, packet) : Ret(packet, r) = 0
      BY <1>1, <2>1 DEF WorkerInv, PacketsInv, GenericInv
    <3>2. EmitInv'
      <4>1. PICK b : b = best' /\ b = MatchAll(NoBest, s, packet)
        BY <1>9, <3>1
      <4>2. \/ b.match = 0
            \/ rows'[b.row] = [rgx |-> b.rgx, ret |-> b.match, fresh |-> TRUE]
        BY <1>9, <1>13, <1>15, <1>16, <4>1, FreshRow
      <4>3. QED
        BY <4>1, <4>2 DEF EmitInv
    <3>3. BestOfPacket'
      <4>1. Suitable(Plgn, packet)' = Suitable(Plgn, packet)
        BY <1>1, <1>2 DEF Suitable
      <4>2. \A r \in Suitable(Plgn, packet)' : ~ (Ret(packet', r) > 0)
        BY <1>1, <3>1, <4>1
      <4>3. QED
        BY <4>2 DEF BestOfPacket
    <3>4. QED
      BY <3>2, <3>3
  <2>2. CASE master # 1
    BY <1>1, <2>2 DEF EmitInv, BestOfPacket
  <2>3. QED
    BY <2>1, <2>2
<1>26. FreshWithOneMaster'
  BY <1>1, <1>2 DEF WorkerInv, FreshWithOneMaster
<1>27. RoomInv'
  <2>1. Len(rows) <= MaxRegex /\ BestRow(best, rows)
    BY DEF WorkerInv, RoomInv
  <2>2. Len(s) <= MaxRegex
    BY <1>5, <1>11, <1>21, StartupAssumption
  <2>3. BestRow(MatchAll(best, s, packet), Matched(rows, s, packet))
    BY <1>13, <1>15, <1>16, <2>1, <2>2, BestRowKept
  <2>4. Len(Matched(rows, s, packet)) <= MaxRegex
    BY <1>13, <1>16, <2>1, <2>2, MatchedRoom
  <2>5. QED
    BY <1>9, <1>13, <2>2, <2>3, <2>4 DEF RoomInv
<1>28. QED
  BY <1>19, <1>20, <1>22, <1>23, <1>24, <1>25, <1>26, <1>27 DEF WorkerInv, PacketsInv

\* The object that is written, if it is of a match.
IsFresh == rows[best.row] = [rgx |-> best.rgx, ret |-> best.match, fresh |-> TRUE]
LEMMA EmittedObject ==
  ASSUME EmitUnmatched \/ EmitMatched, ~ Leaves
  PROVE  \/ best.match = 0 /\ Emitted(NoOutput)
         \/ best.match # 0
            /\ \E subs, fields : Emitted([rgx |-> best.rgx, fresh |-> IsFresh, subs |-> subs,
                                          fields |-> fields])
<1>1. ~ Undefined("best_rgx") /\ ~ Undefined("func_ret_str")
  BY UndefinedLeaves DEF Faults
<1>2. CASE EmitUnmatched
  BY <1>1, <1>2 DEF EmitUnmatched
<1>3. CASE EmitMatched
  <2>1. \E subs, bufs :
          Emitted([rgx |-> best.rgx, fresh |-> IsFresh, subs |-> subs,
                   fields |-> Fields(Plgn.regex[best.rgx].fields, subs, bufs)])
    BY <1>1, <1>3, Zenon DEF EmitMatched, IsFresh
  <2>2. best.match # 0
    BY <1>3 DEF EmitMatched
  <2>3. QED
    BY <2>1, <2>2, Zenon
<1>4. QED
  BY <1>2, <1>3

LEMMA EmitKeeps ==
  ASSUME StartInv, WorkerInv, EmitUnmatched \/ EmitMatched, ~ Leaves
  PROVE  WorkerInv'
<1>1. /\ step = "emit" /\ pc = "running" /\ step' = "poll" /\ master' = master + 1
      /\ UNCHANGED <<pc, core_conf, plugin, workers, me, at, best, suit, rows>>
      /\ \/ best.match = 0 /\ out' = NoOutput
         \/ best.match # 0
            /\ \E subs, fields : out' = [rgx |-> best.rgx, fresh |-> IsFresh, subs |-> subs,
                                         fields |-> fields]
  <2>1. step = "emit" /\ pc = "running"
    BY DEF EmitUnmatched, EmitMatched
  <2>2. QED
    BY <2>1, EmittedObject DEF Emitted, svars
<1>2. nb_masters' = nb_masters /\ Plgn' = Plgn
  BY <1>1 DEF nb_masters, CountOf, Plgn
<1>3. master \in Nat /\ master # 0 /\ master' # 1 /\ master <= nb_masters
  BY <1>1 DEF WorkerInv, PlaceInv, MasterInv
<1>4. PlaceInv'
  BY <1>1, <1>2, <1>3, MastersCount
     DEF WorkerInv, PlaceInv, MeInv, NoneInv, AtInv, MasterInv, BestInv, RowsInv, Busy
<1>5. SuitInv'
  BY <1>1, <1>2 DEF WorkerInv, PacketsInv, SuitInv, Matches
<1>6. GrowInv'
  <2>1. Len(suit) <= master * Len(Plgn.regex) /\ master' - 1 = master
    BY <1>1, <1>3 DEF WorkerInv, PacketsInv, GrowInv
  <2>2. QED
    BY <1>1, <1>2, <2>1 DEF GrowInv
<1>7. PacketInv' /\ PollInv' /\ GenericInv' /\ EmitInv' /\ BestOfPacket'
  BY <1>1, <1>3 DEF PacketInv, PollInv, GenericInv, EmitInv, BestOfPacket
<1>8. FreshWithOneMaster'
  <2> SUFFICES ASSUME nb_masters = 1 PROVE out'.fresh
    BY <1>2 DEF FreshWithOneMaster
  <2>1. master = 1
    BY <1>3
  <2>2. \/ best.match = 0
        \/ rows[best.row] = [rgx |-> best.rgx, ret |-> best.match, fresh |-> TRUE]
    BY <1>1, <2>1 DEF WorkerInv, PacketsInv, EmitInv
  <2>3. CASE best.match = 0
    BY <1>1, <2>3 DEF NoOutput
  <2>4. CASE best.match # 0
    <3>1. PICK t : t = IsFresh
      OBVIOUS
    <3>2. t = TRUE
      BY <2>2, <2>4, <3>1 DEF IsFresh
    <3>3. PICK subs, fields : out' = [rgx |-> best.rgx, fresh |-> t, subs |-> subs,
                                      fields |-> fields]
      BY <1>1, <2>4, <3>1
    <3>4. out'.fresh = t
      BY <3>3
    <3>5. QED
      BY <3>2, <3>4
  <2>5. QED
    BY <2>3, <2>4
<1>9. RoomInv'
  BY <1>1 DEF WorkerInv, RoomInv
<1>10. QED
  BY <1>4, <1>5, <1>6, <1>7, <1>8, <1>9 DEF WorkerInv, PacketsInv

\* The accesses of a worker that are not defined change nothing but pc.
LEMMA FaultSteps ==
  ASSUME WorkerStep, Leaves
  PROVE  /\ UNCHANGED wvars /\ pc = "running"
         /\ \/ PollPacket /\ pc' = "suit_rgxs"
            \/ PollNoRing /\ pc' = "ring_dequeue"
            \/ TryGenerics /\ pc' = "generic_p_regex"
            \/ pc' \in {"best_rgx", "func_ret_str"}
            \/ ExitWorker /\ pc' = "wb"
<1>1. pc = "running" /\ pc' # "running"
  BY Worked, LeavesForGood
<1>2. ~ UNCHANGED svars
  BY <1>1 DEF svars
<1>3. CASE StartWorker \/ VisitPlugin \/ PollEmpty \/ NextPlugin
  BY <1>2, <1>3 DEF StartWorker, VisitPlugin, PollEmpty, NextPlugin
<1>4. CASE PollPacket
  <2>1. Undefined("suit_rgxs") /\ UNCHANGED wvars
    BY <1>2, <1>4 DEF PollPacket
  <2>2. QED
    BY <1>1, <1>4, <2>1 DEF Undefined
<1>5. CASE PollNoRing
  BY <1>1, <1>5 DEF PollNoRing, Undefined
<1>6. CASE TryGenerics
  <2>1. Undefined("generic_p_regex") /\ UNCHANGED wvars
    BY <1>2, <1>6 DEF TryGenerics
  <2>2. QED
    BY <1>1, <1>6, <2>1 DEF Undefined
<1>7. CASE EmitUnmatched
  <2>1. Undefined("best_rgx") /\ UNCHANGED wvars
    BY <1>2, <1>7 DEF EmitUnmatched, Emitted
  <2>2. QED
    BY <1>1, <2>1 DEF Undefined
<1>8. CASE EmitMatched
  <2>1. Undefined("func_ret_str") /\ UNCHANGED wvars
    BY <1>2, <1>8 DEF EmitMatched, Emitted
  <2>2. QED
    BY <1>1, <2>1 DEF Undefined
<1>9. CASE ExitWorker
  <2>1. Undefined("wb") /\ UNCHANGED wvars
    BY <1>2, <1>9 DEF ExitWorker
  <2>2. QED
    BY <1>1, <1>9, <2>1 DEF Undefined
<1>10. QED
  BY <1>3, <1>4, <1>5, <1>6, <1>7, <1>8, <1>9 DEF WorkerStep

LEMMA WorkerInvStep == StartInv /\ WorkerInv /\ [Next]_<<svars, wvars>> => WorkerInv'
<1> SUFFICES ASSUME StartInv, WorkerInv, [Next]_<<svars, wvars>> PROVE WorkerInv'
  OBVIOUS
<1>1. CASE Setup /\ UNCHANGED wvars
  <2>1. pc \in {"args", "config", "plugins", "assign"}
    BY <1>1 DEF Setup, ReadOption, CheckOptions, ParseConfiguration, OpenPluginFile,
                EvaluateLine, CreateRings, AssignPlugins
  <2>2. step = "none"
    BY <2>1 DEF WorkerInv, PlaceInv, MeInv, Faults, Arrays
  <2>3. StartInv'
    BY StartStep
  <2>4. QED
    BY <1>1, <2>2, <2>3, SetupKeepsWorker
<1>3. CASE WorkerStep /\ ~ Leaves
  <2>1. CASE PollNoRing
    BY <1>3, <2>1, UndefinedLeaves DEF PollNoRing, Faults
  <2>2. CASE ~ PollNoRing
    BY <1>3, <2>2, StartWorkerKeeps, VisitPluginKeeps, PollEmptyKeeps, PollPacketKeeps,
       TryGenericsKeeps, EmitKeeps, NextPluginKeeps, ExitWorkerKeeps DEF WorkerStep
  <2>3. QED
    BY <2>1, <2>2
<1>4. CASE WorkerStep /\ Leaves
  <2>1. UNCHANGED wvars /\ pc' \in Faults
    BY <1>4, FaultSteps DEF Faults
  <2>2. QED
    BY <1>4, <2>1, MainKeepsWorker DEF Leaves
<1>5. CASE End /\ UNCHANGED wvars
  <2>1. CASE Leaves
    <3>1. pc' # "exited"
      BY <1>5, <2>1 DEF End, Join, Teardown, Undefined, Faults
    <3>2. QED
      BY <1>5, <2>1, <3>1, MainKeepsWorker DEF Leaves
  <2>2. CASE Join \/ TornDown
    BY <1>5, <2>2, MainKeepsWorker DEF Join, TornDown
  <2>3. QED
    BY <1>5, <2>1, <2>2, TeardownEnds DEF End
<1>6. CASE UNCHANGED <<svars, wvars>>
  BY <1>6, MainKeepsWorker DEF svars
<1>7. QED
  BY <1>1, <1>3, <1>4, <1>5, <1>6 DEF Next

\* What the types of the worker's variables need of main.
Places == {"args", "config", "plugins", "assign", "running", "joined", "stopped",
           "exited"} \cup Faults
MainInv == /\ pc \in Places
           /\ pc \in {"args", "config", "plugins", "assign"} => workers = <<>>
           /\ \A w \in DOMAIN workers : workers[w].plugins \in Seq(DOMAIN plugin)

LEMMA MainInit == WInit => MainInv
BY DEF WInit, Init, MainInv, Places

LEMMA MainStep == StartInv /\ MainInv /\ [Next]_<<svars, wvars>> => MainInv'
<1> SUFFICES ASSUME StartInv, MainInv, [Next]_<<svars, wvars>> PROVE MainInv'
  OBVIOUS
<1>1. CASE workers' = workers /\ plugin' = plugin /\ pc' \in Places
           /\ (pc' \in {"args", "config", "plugins", "assign"}
                 => pc \in {"args", "config", "plugins", "assign"})
  BY <1>1 DEF MainInv
<1>2. CASE Leaves
  <2>1. pc' \in Places
    BY <1>2 DEF Leaves, Places
  <2>2. QED
    BY <1>1, <1>2, <2>1, LeavesForGood DEF Leaves
<1>3. CASE EvaluateLine /\ Taken(lines[1][1], lines[1][2])
  <2>1. workers = <<>> /\ workers' = <<>> /\ pc' = "plugins"
    BY <1>3, EvaluatedLine DEF Taken, TakeLine, MainInv
  <2>2. QED
    BY <2>1 DEF MainInv, Places
<1>4. CASE Assigned
  <2>1. workers' = WorkerTable /\ plugin' = plugin /\ pc' = "running"
    BY <1>4 DEF Assigned
  <2>2. ASSUME NEW w \in DOMAIN workers' PROVE workers'[w].plugins \in Seq(DOMAIN plugin)
    <3>1. workers'[w] = Worker(worker_cores[w])
      BY <2>1 DEF WorkerTable
    <3>2. QED
      BY <3>1, WorkerPlugins
  <2>3. QED
    BY <2>1, <2>2 DEF MainInv, Places
<1>5. CASE ReadOption \/ CheckOptions \/ ParseConfiguration \/ OpenPluginFile
  BY <1>1, <1>5 DEF ReadOption, CheckOptions, ParseConfiguration, OpenPluginFile, Exit, Places
<1>6. CASE Created \/ Join \/ TornDown
  BY <1>1, <1>6 DEF Created, Join, TornDown, Places
<1>7. CASE UNCHANGED svars
  BY <1>1, <1>7 DEF svars, MainInv
<1>8. QED
  BY <1>2, <1>3, <1>4, <1>5, <1>6, <1>7, EvaluatedLine, CreatedRings, AssignedPlugins,
     TeardownEnds, Worked DEF Next, Setup, End

LEMMA WorkerInvariant == Spec => [](StartInv /\ WorkerInv)
<1>1. WInit => StartInv /\ WorkerInv
  BY StartInit, WorkerInit
<1>2. StartInv /\ WorkerInv /\ [Next]_<<svars, wvars>> => (StartInv /\ WorkerInv)'
  BY StartStep, WorkerInvStep
<1>3. QED
  BY <1>1, <1>2, PTL DEF Spec

\* Types: the variables of main and of its workers keep their types for any command line,
\* files and packets: no index leaves the plugins, the masters or the rows of a match.
THEOREM TypeCorrect == Spec => []TypeOK
<1>1. StartInv /\ WorkerInv /\ MainInv => TypeOK
  <2> SUFFICES ASSUME StartInv, WorkerInv, MainInv PROVE TypeOK
    OBVIOUS
  <2>1. input \in Inputs /\ pc \in Places
    BY DEF StartInv, InputInv, MainInv
  <2>2. \A i \in DOMAIN core_conf :
          core_conf[i].core \in Int /\ core_conf[i].role \in {"s", "m", "c"}
    <3>1. core_conf \in Seq(CoreSet)
      BY DEF StartInv, CoresInv
    <3>2. ASSUME NEW i \in DOMAIN core_conf PROVE core_conf[i] \in CoreSet
      BY <3>1
    <3>3. QED
      BY <3>2 DEF CoreSet, Roles
  <2>3. \A p \in DOMAIN plugin : Len(plugin[p].regex) <= MaxRegex
    BY DEF StartInv, PluginInv, PluginOK
  <2>4. ASSUME NEW w \in DOMAIN workers PROVE ToSet(workers[w].plugins) \subseteq DOMAIN plugin
    BY SeqOfElements DEF MainInv
  <2>5. /\ step \in {"none", "visit", "poll", "generic", "emit", "exit", "done"}
        /\ step = "none" \/ me \in DOMAIN workers
    BY DEF WorkerInv, PlaceInv, MeInv
  <2>6. step \in {"none", "exit", "done"} \/ at \in DOMAIN workers[me].plugins
    BY <2>5 DEF WorkerInv, PlaceInv, AtInv, Busy
  <2>7. master \in 1 .. nb_masters + 1
    BY MastersCount DEF WorkerInv, PlaceInv, MasterInv
  <2>8. /\ Len(suit) <= MaxRegex /\ Len(rows) <= MaxRegex
        /\ best = NoBest \/ (best.match > 0 /\ best.row \in DOMAIN rows)
    BY DEF WorkerInv, RoomInv, BestRow
  <2>9. QED
    BY <2>1, <2>2, <2>3, <2>4, <2>5, <2>6, <2>7, <2>8 DEF TypeOK, Places
<1>2. Spec => []MainInv
  BY StartInvariant, MainInit, MainStep, PTL DEF Spec
<1>3. QED
  BY <1>1, <1>2, WorkerInvariant, PTL

\* logcollector.c, worker_loop: the regex of the first packet of a visit is the first of
\* those that return the most.
THEOREM BestIsFirstOfTheMost == Spec => []BestOfPacket
<1>1. StartInv /\ WorkerInv => BestOfPacket
  BY DEF WorkerInv, PacketsInv
<1>2. QED
  BY <1>1, WorkerInvariant, PTL

\* logcollector.c, best_match and rgx_sub_vectors: with one master no object is made of
\* the substrings of an earlier packet.
THEOREM SubstringsAreFresh == Spec => []FreshWithOneMaster
<1>1. StartInv /\ WorkerInv => FreshWithOneMaster
  BY DEF WorkerInv
<1>2. QED
  BY <1>1, WorkerInvariant, PTL

-----------------------------------------------------------------------------
(* Faults and their causes.                                                *)

\* Main does none of these before the threads run, and one after they have stopped.
LEMMA MainFaults ==
  ASSUME Setup \/ End, Leaves
  PROVE  /\ pc' \notin {"suit_rgxs", "ring_dequeue", "generic_p_regex", "wb"}
         /\ pc' = "ring_free" => pc = "joined" /\ \E r \in MadeRings : FreesOf(r) > 1
<1>1. CASE Teardown
  BY <1>1 DEF Teardown, Undefined
<1>2. CASE Join
  BY <1>2 DEF Join
<1>3. CASE Setup
  <2>1. CASE EvaluateLine
    <3>1. PICK key, value : key = lines[1][1] /\ value = lines[1][2]
      OBVIOUS
    <3>2. ~ TakeLine(key, value)
      BY LeavesForGood, <2>1 DEF TakeLine, EvaluateLine
    <3>3. \/ Exit \/ Undefined("delim") \/ Undefined("temp7")
          \/ \E array \in Arrays : Undefined(array)
      BY <2>1, <3>1, <3>2 DEF EvaluateLine
    <3>4. QED
      BY <3>3 DEF Exit, Undefined, Arrays
  <2>2. CASE ReadOption \/ CheckOptions \/ ParseConfiguration \/ OpenPluginFile
    BY <2>2 DEF ReadOption, CheckOptions, ParseConfiguration, OpenPluginFile, Exit
  <2>3. CASE CreateRings
    BY <2>3 DEF CreateRings, Undefined
  <2>4. CASE AssignPlugins
    BY <2>4 DEF AssignPlugins, Exit, Undefined
  <2>5. QED
    BY <1>3, <2>1, <2>2, <2>3, <2>4 DEF Setup
<1>4. QED
  BY <1>1, <1>2, <1>3 DEF End

\* Every other step of main and of the worker goes on where the program is defined.
LEMMA SoundSteps ==
  ASSUME Next, ~ Leaves
  PROVE  UNCHANGED svars \/ pc' \notin Faults
<1>1. CASE ReadOption \/ OpenPluginFile
  <2>1. ~ Exit
    BY ExitLeaves
  <2>2. pc \in {"args", "plugins"} /\ pc' = pc
    BY <1>1, <2>1 DEF ReadOption, OpenPluginFile
  <2>3. QED
    BY <2>2 DEF Faults, Arrays
<1>2. CASE CheckOptions \/ ParseConfiguration
  <2>1. ~ Exit
    BY ExitLeaves
  <2>2. pc' \in {"config", "plugins"}
    BY <1>2, <2>1 DEF CheckOptions, ParseConfiguration
  <2>3. QED
    BY <2>2 DEF Faults, Arrays
<1>3. CASE EvaluateLine
  <2>1. pc' = "plugins"
    BY <1>3, EvaluatedLine DEF Taken, TakeLine
  <2>2. QED
    BY <2>1 DEF Faults, Arrays
<1>4. CASE CreateRings \/ AssignPlugins
  <2>1. pc' \in {"assign", "running"}
    BY <1>4, CreatedRings, AssignedPlugins DEF Created, Assigned
  <2>2. QED
    BY <2>1 DEF Faults, Arrays
<1>5. CASE WorkerStep
  BY <1>5, Worked
<1>6. CASE End
  <2>1. pc' \in {"joined", "stopped"}
    BY <1>6, TeardownEnds DEF End, Join, TornDown
  <2>2. QED
    BY <2>1 DEF Faults, Arrays
<1>7. QED
  BY <1>1, <1>2, <1>3, <1>4, <1>5, <1>6 DEF Next, Setup

TooManyRegexes == \E p \in DOMAIN plugin : nb_masters * Len(plugin[p].regex) > MaxRegex
ForAllCores    == \E p \in DOMAIN plugin : plugin[p].all_nondedicated_cores
SeveralPlugins == \E w \in DOMAIN workers : Len(workers[w].plugins) > 1
IdleWorker     ==
  \E w \in DOMAIN worker_cores : \A p \in DOMAIN plugin :
    ~ plugin[p].all_nondedicated_cores /\ worker_cores[w] \notin ToSet(plugin[p].core_ids)
DoubledCore    == \E p \in DOMAIN plugin : ~ Distinct(plugin[p].core_ids)

LEMMA DoubleFree ==
  ASSUME StartInv, pc = "joined", NEW r \in MadeRings, FreesOf(r) > 1
  PROVE  DoubledCore
<1>1. ring_rxs = RingTable
  BY DEF StartInv, RingsInv
<1>2. CASE \A p \in Dedicated : Distinct(plugin[p].core_ids)
  <2>1. FreesOf(r) = 1
    BY <1>1, <1>2, DistinctFrees
  <2>2. QED
    BY <2>1
<1>3. CASE \E p \in Dedicated : ~ Distinct(plugin[p].core_ids)
  BY <1>3 DEF Dedicated, DoubledCore
<1>4. QED
  BY <1>2, <1>3

\* A ring that is missing is one of a plugin without cores of its own.
LEMMA NoRingUndefined ==
  ASSUME StartInv, WorkerInv, PollNoRing
  PROVE  ForAllCores
<1>1. pc = "running" /\ step = "poll" /\ master <= nb_masters /\ Busy
      /\ ring_rxs[<<workers[me].plugins[at], workers[me].core, master>>] = NoRing
  BY DEF PollNoRing, Busy
<1>2. PICK p \in DOMAIN plugin : p = workers[me].plugins[at]
  BY <1>1, Visiting
<1>3. PICK core : core = worker_cores[me] /\ core = workers[me].core
  BY <1>1, Visiting
<1>4. me \in DOMAIN worker_cores /\ workers[me] = Worker(core)
  BY <1>1, <1>3, Visiting
<1>5. core \in AllCores
  <2>1. core \in ToSet(worker_cores)
    BY <1>3, <1>4 DEF ToSet
  <2>2. QED
    BY <2>1, Zenon DEF AllCores
<1>6. master \in 1 .. nb_masters
  BY <1>1, MastersCount DEF WorkerInv, PlaceInv, MasterInv
<1>7. ring_rxs[<<p, core, master>>] = RingOf(p, core, master)
  <2>1. ring_rxs = RingTable
    BY <1>1 DEF StartInv, RingsInv
  <2>2. <<p, core, master>> \in (DOMAIN plugin) \X AllCores \X (1 .. nb_masters)
    BY <1>5, <1>6
  <2>3. QED
    BY <2>1, <2>2 DEF RingTable
<1>8. p \in Dedicated => Positions(p, core) # {}
  <2>1. p \in ToSet(Worker(core).plugins)
    <3>1. at \in DOMAIN workers[me].plugins
      BY <1>1, Visiting
    <3>2. QED
      BY <1>2, <1>4, <3>1 DEF ToSet
  <2>2. QED
    BY <2>1, WorkerPlugins
<1>9. CASE p \notin Dedicated
  BY <1>9 DEF Dedicated, ForAllCores
<1>10. CASE p \in Dedicated
  <2>1. RingOf(p, core, master) = <<p, Max(Positions(p, core)), master>>
    BY <1>8, <1>10 DEF RingOf
  <2>2. RingOf(p, core, master) = <<>>
    BY <1>1, <1>2, <1>3, <1>7 DEF NoRing
  <2>3. QED
    BY <2>1, <2>2
<1>11. QED
  BY <1>9, <1>10

\* Too many regexes for one packet are too many for the plugin and the masters.
LEMMA TooManyUndefined ==
  ASSUME StartInv, WorkerInv, PollPacket, pc' = "suit_rgxs"
  PROVE  TooManyRegexes
<1>1. pc = "running" /\ step = "poll" /\ master <= nb_masters /\ Busy /\ Matches
  BY DEF PollPacket, Busy, Matches
<1>2. PICK pkt \in Packets(Plgn) : Len(AddSuitable(suit, Plgn, pkt)) > MaxRegex
  BY <1>1 DEF PollPacket, svars
<1>3. PluginOK(Plgn) /\ suit \in Seq(DOMAIN Plgn.regex) /\ Len(suit) <= MaxRegex
  BY <1>1, Visiting DEF WorkerInv, PacketsInv, SuitInv
<1>4. PICK n \in Nat : n = Len(Plgn.regex)
  BY <1>3 DEF PluginOK, IsSeq
<1>5. PICK k \in Nat : k = Len(suit)
  BY <1>3
<1>6. PICK l \in Nat : l = Len(AddSuitable(suit, Plgn, pkt))
  BY <1>3, AddSuitableBound
<1>7. l <= k + n
  BY <1>3, <1>4, <1>5, <1>6, AddSuitableBound
<1>8. k <= (master - 1) * n
  BY <1>1, <1>4, <1>5 DEF WorkerInv, PacketsInv, GrowInv
<1>9. PICK x \in Nat : nb_masters = master + x
  <2>1. nb_masters \in Nat /\ master \in Nat /\ master <= nb_masters
    BY <1>1, MastersCount DEF WorkerInv, PlaceInv, MasterInv
  <2>2. nb_masters - master \in Nat /\ nb_masters = master + (nb_masters - master)
    BY <2>1
  <2>3. QED
    BY <2>2
<1>10. master \in Nat /\ master # 0
  BY DEF WorkerInv, PlaceInv, MasterInv
<1>11. /\ (master - 1) * n + n = master * n /\ (master - 1) * n \in Nat
       /\ master * n \in Nat /\ x * n \in Nat /\ (master + x) * n = master * n + x * n
  BY <1>10
<1>12. l <= nb_masters * n
  BY <1>7, <1>8, <1>9, <1>11
<1>13. nb_masters * Len(Plgn.regex) > MaxRegex
  <2>1. nb_masters * n \in Nat
    BY <1>9, <1>10
  <2>2. l > MaxRegex
    BY <1>2, <1>6
  <2>3. QED
    BY <1>4, <1>12, <2>1, <2>2, StartupAssumption
<1>14. workers[me].plugins[at] \in DOMAIN plugin
  BY <1>1, Visiting
<1>15. QED
  BY <1>13, <1>14 DEF Plgn, TooManyRegexes

\* One plugin makes the index of the plugin 1, which every kind that has a regex has.
LEMMA PastGenerics ==
  ASSUME StartInv, WorkerInv, TryGenerics, pc' = "generic_p_regex"
  PROVE  SeveralPlugins
<1>1. PICK g : g = generic_p_regex(Plgn)
  OBVIOUS
<1>2. pc = "running" /\ step = "generic" /\ g # <<>> /\ at \notin DOMAIN g
  BY <1>1 DEF TryGenerics, svars
<1>3. me \in DOMAIN workers /\ at \in DOMAIN workers[me].plugins
      /\ workers[me].plugins \in Seq(DOMAIN plugin) /\ PluginOK(Plgn)
  BY <1>2, Visiting DEF Busy, WorkerInv, PlaceInv, MeInv
<1>4. g \in Seq(Nat)
  BY <1>1, <1>3, SplitFacts DEF generic_p_regex
<1>5. 1 \in DOMAIN g
  BY <1>2, <1>4
<1>6. PICK n \in Nat : n = Len(workers[me].plugins) /\ DOMAIN workers[me].plugins = 1 .. n
  BY <1>3
<1>7. at # 1 /\ at \in 1 .. n
  BY <1>2, <1>3, <1>5, <1>6
<1>8. n > 1
  BY <1>7
<1>9. QED
  BY <1>3, <1>6, <1>8 DEF SeveralPlugins

LEMMA PastBuffers ==
  ASSUME StartInv, WorkerInv, ExitWorker, pc' = "wb"
  PROVE  IdleWorker
<1>1. pc = "running" /\ step = "exit" /\ workers[me].plugins = <<>>
  BY DEF ExitWorker, svars
<1>2. me \in DOMAIN workers /\ workers = WorkerTable
  BY <1>1 DEF WorkerInv, PlaceInv, MeInv, StartInv, WorkersInv
<1>3. me \in DOMAIN worker_cores /\ workers[me] = Worker(worker_cores[me])
  BY <1>2 DEF WorkerTable
<1>4. QED
  BY <1>1, <1>3, WorkerIdle DEF IdleWorker

\* logcollector.c, from main to the loop of the workers: for any command line, files and
\* packets, these five accesses go wrong only for the reason that each is given; the ones
\* far from what they depend on never for another, as what an earlier visit left.
THEOREM FaultsNeedCauses == Spec => []FaultsHaveCauses
<1>1. FaultsHaveCauses <=>
        /\ pc = "suit_rgxs" => TooManyRegexes
        /\ pc = "ring_dequeue" => ForAllCores
        /\ pc = "generic_p_regex" => SeveralPlugins
        /\ pc = "wb" => IdleWorker
        /\ pc = "ring_free" => DoubledCore
  BY Zenon DEF FaultsHaveCauses, TooManyRegexes, ForAllCores, SeveralPlugins, IdleWorker, DoubledCore
<1>2. WInit => FaultsHaveCauses
  BY DEF WInit, Init, FaultsHaveCauses
<1>3. FaultsHaveCauses' <=>
        /\ pc' = "suit_rgxs" => TooManyRegexes'
        /\ pc' = "ring_dequeue" => ForAllCores'
        /\ pc' = "generic_p_regex" => SeveralPlugins'
        /\ pc' = "wb" => IdleWorker'
        /\ pc' = "ring_free" => DoubledCore'
  BY Zenon DEF FaultsHaveCauses, TooManyRegexes, ForAllCores, SeveralPlugins, IdleWorker, DoubledCore
<1>4. ASSUME StartInv, WorkerInv, FaultsHaveCauses, [Next]_<<svars, wvars>>
      PROVE  FaultsHaveCauses'
  <2>1. ASSUME UNCHANGED <<core_conf, plugin, workers>>
        PROVE  /\ TooManyRegexes' = TooManyRegexes /\ ForAllCores' = ForAllCores
               /\ SeveralPlugins' = SeveralPlugins /\ IdleWorker' = IdleWorker
               /\ DoubledCore' = DoubledCore
    <3>1. nb_masters' = nb_masters /\ worker_cores' = worker_cores
      BY <2>1 DEF nb_masters, worker_cores, nb_receivers, nb_slaves, CountOf, Slice
    <3>2. QED
      BY <2>1, <3>1 DEF TooManyRegexes, ForAllCores, SeveralPlugins, IdleWorker, DoubledCore
  <2>2. CASE Leaves
    <3>1. /\ pc' = "suit_rgxs" => TooManyRegexes
          /\ pc' = "ring_dequeue" => ForAllCores
          /\ pc' = "generic_p_regex" => SeveralPlugins
          /\ pc' = "wb" => IdleWorker
          /\ pc' = "ring_free" => DoubledCore
      <4>1. CASE Setup \/ End
        BY <1>4, <2>2, <4>1, MainFaults, DoubleFree
      <4>2. CASE WorkerStep
        BY <1>4, <2>2, <4>2, FaultSteps, TooManyUndefined, NoRingUndefined, PastGenerics,
           PastBuffers
      <4>3. CASE UNCHANGED svars
        BY <1>1, <1>4, <4>3 DEF svars
      <4>4. QED
        BY <1>4, <4>1, <4>2, <4>3 DEF Next
    <3>2. UNCHANGED <<core_conf, plugin, workers>>
      BY <2>2 DEF Leaves
    <3>3. QED
      BY <1>3, <2>1, <3>1, <3>2
  <2>3. CASE ~ Leaves
    <3>1. CASE UNCHANGED svars
      BY <1>1, <1>4, <1>3, <2>1, <3>1 DEF svars
    <3>2. CASE ~ UNCHANGED svars
      <4>1. pc' \notin Faults
        <5>1. Next
          BY <1>4, <3>2
        <5>2. QED
          BY <2>3, <3>2, <5>1, SoundSteps
      <4>2. QED
        BY <4>1 DEF FaultsHaveCauses, Faults
    <3>3. QED
      BY <3>1, <3>2
  <2>4. QED
    BY <2>2, <2>3
<1>5. QED
  BY <1>2, <1>4, WorkerInvariant, PTL DEF Spec

=============================================================================
