--------------------------- MODULE PipelineProofs ---------------------------
(***************************************************************************)
(* Proofs about Pipeline: the types of its variables, and that every       *)
(* packet has one owner, for any number of threads, plugins and packets.   *)
(***************************************************************************)
EXTENDS Pipeline, TLAPS

\* A master holds a packet, of a plugin, exactly while it has it to send.
Holding ==
  \A m \in Masters :
    IF mpc[m] = "send" THEN mbuf[m] # None /\ PluginOf[mbuf[m]] # 0 ELSE mbuf[m] = None

-----------------------------------------------------------------------------
(* Functions of two and three arguments at one of which the value changes. *)

LEMMA TwoLevels ==
  ASSUME NEW S, NEW D, NEW E, NEW f \in [D -> [E -> S]],
         NEW d \in D, NEW e \in E, NEW s \in S
  PROVE  [f EXCEPT ![d][e] = s] \in [D -> [E -> S]]
  OBVIOUS

LEMMA ThreeLevels ==
  ASSUME NEW S, NEW D, NEW E, NEW F, NEW f \in [D -> [E -> [F -> S]]],
         NEW d \in D, NEW e \in E, NEW g \in F, NEW s \in S
  PROVE  /\ [f EXCEPT ![d][e][g] = s] \in [D -> [E -> [F -> S]]]
         /\ f[d][e][g] \in S
         /\ \A a \in D, b \in E, c \in F :
              [f EXCEPT ![d][e][g] = s][a][b][c]
                = IF a = d /\ b = e /\ c = g THEN s ELSE f[a][b][c]
  OBVIOUS

-----------------------------------------------------------------------------
(* Types.                                                                  *)

\* Init has the types.
LEMMA InitTypes == Init => TypeOK
<1> SUFFICES ASSUME Init PROVE TypeOK
  OBVIOUS
<1>1. 1 \in Plugins /\ 1 \in Masters /\ 0 \in Nat
  BY PipelineAssumption DEF Plugins, Masters
<1>2. <<>> \in Seq(Msgs)
  OBVIOUS
<1>3. QED
  BY <1>1, <1>2 DEF Init, TypeOK

\* The steps of the receivers.
LEMMA ReceiverTypes ==
  ASSUME TypeOK, NEW r \in Receivers, Receive(r)
  PROVE  TypeOK'
<1> USE DEF receivers, masters, workers, rings
<1>1. ASSUME NEW msg \in net, Recv(r, msg) PROVE TypeOK'
  BY <1>1 DEF Recv, TypeOK
<1>2. ASSUME NEW m \in Masters, PassOn(r, m) PROVE TypeOK'
  <2>1. rbuf[r] \in Msgs /\ r \in Receivers \union Masters
    BY <1>2 DEF PassOn, TypeOK
  <2>2. rbuf' \in [Receivers -> Msgs \union {None}]
    BY <1>2 DEF PassOn, TypeOK
  <2>3. Append(rec_ring[m], rbuf[r]) \in Seq(Msgs)
    BY <2>1 DEF TypeOK
  <2>4. rec_ring' \in [Masters -> Seq(Msgs)]
    BY <1>2, <2>3 DEF PassOn, TypeOK
  <2>5. freed' \subseteq Msgs /\ tot_free' \in [Receivers \union Masters -> Nat]
    BY <1>2, <2>1 DEF PassOn, Drop, TypeOK
  <2>6. QED
    BY <1>2, <2>2, <2>4, <2>5 DEF PassOn, TypeOK
<1>3. CASE StopReceiving(r)
  BY <1>3 DEF StopReceiving, TypeOK
<1>4. QED
  BY <1>1, <1>2, <1>3 DEF Receive

\* The steps of the masters.
LEMMA MasterTypes ==
  ASSUME TypeOK, Holding, NEW m \in Masters, Dispatch(m)
  PROVE  TypeOK'
<1> USE DEF receivers, masters, workers, rings
<1>0. 1 \in Plugins /\ m \in Receivers \union Masters
  BY PipelineAssumption DEF Plugins
<1>1. CASE Take(m)
  <2> DEFINE pkt == Head(rec_ring[m])
  <2>1. pkt \in Msgs /\ Tail(rec_ring[m]) \in Seq(Msgs)
    BY <1>1 DEF Take, TypeOK
  <2>2. rec_ring' \in [Masters -> Seq(Msgs)]
    BY <1>1, <2>1 DEF Take, TypeOK
  <2>3. CASE PluginOf[pkt] = 0
    BY <1>1, <2>2, <2>3 DEF Take, TypeOK
  <2>4. CASE PluginOf[pkt] # 0
    <3> DEFINE i == PluginOf[pkt]
    <3>1. i \in Plugins
      BY <2>1, <2>4, PipelineAssumption
    <3>2. LogTemp(m, i, pkt) /\ mbuf' = [mbuf EXCEPT ![m] = pkt]
          /\ mpc' = [mpc EXCEPT ![m] = "send"] /\ mi' = mi
      BY <1>1, <2>4 DEF Take
    <3>3. /\ temp[i] \o twb[m][i] \in Seq(Msgs)
          /\ <<pkt>> \in Seq(Msgs)
          /\ Append(twb[m][i], pkt) \in Seq(Msgs)
      BY <2>1, <3>1 DEF TypeOK
    <3>4. temp' \in [Plugins -> Seq(Msgs)]
      BY <3>1, <3>2, <3>3 DEF LogTemp, TypeOK
    <3>5. twb' \in [Masters -> [Plugins -> Seq(Msgs)]]
      <4>1. twb \in [Masters -> [Plugins -> Seq(Msgs)]]
        BY DEF TypeOK
      <4>2. PICK s \in Seq(Msgs) : twb' = [twb EXCEPT ![m][i] = s]
        BY <3>2, <3>3, <4>1, Zenon DEF LogTemp
      <4>3. [twb EXCEPT ![m][i] = s] \in [Masters -> [Plugins -> Seq(Msgs)]]
        BY <3>1, <4>1, TwoLevels, Zenon
      <4>4. QED
        BY <4>2, <4>3
    <3>6. /\ mbuf' \in [Masters -> Msgs \union {None}]
          /\ mpc' \in [Masters -> {"top", "send", "sweep", "done"}]
          /\ mi' \in [Masters -> Plugins]
      BY <2>1, <3>2 DEF TypeOK
    <3>7. QED
      BY <1>1, <2>2, <3>4, <3>5, <3>6 DEF Take, TypeOK
  <2>5. QED
    BY <2>3, <2>4
<1>2. CASE NothingToTake(m)
  BY <1>0, <1>2 DEF NothingToTake, Continue, TypeOK
<1>3. CASE Sweep(m)
  <2>1. mi[m] \in Plugins
    BY DEF TypeOK
  <2>2. temp[mi[m]] \o twb[m][mi[m]] \in Seq(Msgs) /\ <<>> \in Seq(Msgs)
    BY <2>1 DEF TypeOK
  <2>3. temp' \in [Plugins -> Seq(Msgs)]
    BY <1>3, <2>1, <2>2 DEF Sweep, TypeOK
  <2>4. twb' \in [Masters -> [Plugins -> Seq(Msgs)]]
    <3>1. twb \in [Masters -> [Plugins -> Seq(Msgs)]]
      BY DEF TypeOK
    <3>2. [i \in Plugins |-> <<>>] \in [Plugins -> Seq(Msgs)]
      BY <2>2
    <3>3. \/ twb' = [twb EXCEPT ![m] = [i \in Plugins |-> <<>>]]
          \/ twb' = [twb EXCEPT ![m][mi[m]] = <<>>]
      BY <1>3 DEF Sweep
    <3>4. /\ [twb EXCEPT ![m] = [i \in Plugins |-> <<>>]] \in [Masters -> [Plugins -> Seq(Msgs)]]
          /\ [twb EXCEPT ![m][mi[m]] = <<>>] \in [Masters -> [Plugins -> Seq(Msgs)]]
      BY <2>1, <2>2, <3>1, <3>2, TwoLevels, Zenon
    <3>5. QED
      BY <3>3, <3>4
  <2>5. /\ mpc' \in [Masters -> {"top", "send", "sweep", "done"}]
        /\ mi' \in [Masters -> Plugins]
    <3>1. mi[m] < plugin_cnt => mi[m] + 1 \in Plugins
      BY <2>1, PipelineAssumption DEF Plugins
    <3>2. QED
      BY <1>0, <1>3, <2>1, <3>1 DEF Sweep, NextPlugin, Continue, TypeOK
  <2>6. QED
    BY <1>3, <2>3, <2>4, <2>5 DEF Sweep, TypeOK
<1>4. ASSUME NEW w \in Workers, NEW due \in BOOLEAN, Send(m, w, due)
      PROVE TypeOK'
  <2> DEFINE i == PluginOf[mbuf[m]]
  <2>1. UNCHANGED <<kill_signal, net, receivers, twb, temp, workers, rec_ring>>
    BY <1>4 DEF Send
  <2>2. /\ mbuf' \in [Masters -> Msgs \union {None}]
        /\ mpc' \in [Masters -> {"top", "send", "sweep", "done"}]
        /\ mi' \in [Masters -> Plugins]
    BY <1>0, <1>4 DEF Send, Continue, TypeOK
  <2>3. i \in Plugins /\ mbuf[m] \in Msgs
    BY <1>4, PipelineAssumption DEF Send, Holding, TypeOK
  <2>4. ring_rxs \in [Plugins -> [Workers -> [Masters -> Seq(Msgs)]]]
    BY DEF TypeOK
  <2>5. ring_rxs' \in [Plugins -> [Workers -> [Masters -> Seq(Msgs)]]]
    <3> DEFINE s == Append(ring_rxs[i][w][m], mbuf[m])
    <3>1. ring_rxs[i] \in [Workers -> [Masters -> Seq(Msgs)]]
      BY <2>3, <2>4
    <3>2. ring_rxs[i][w] \in [Masters -> Seq(Msgs)]
      BY <3>1
    <3>3. s \in Seq(Msgs)
      BY <2>3, <3>2
    <3>4. \/ ring_rxs' = [ring_rxs EXCEPT ![i][w][m] = s]
          \/ ring_rxs' = ring_rxs
      BY <1>4 DEF Send
    <3> HIDE DEF s, i
    <3>5. [ring_rxs EXCEPT ![i][w][m] = s] \in [Plugins -> [Workers -> [Masters -> Seq(Msgs)]]]
      BY <2>3, <2>4, <3>1, <3>2, <3>3, SMTT(30)
    <3>6. QED
      BY <2>4, <3>4, <3>5
  <2>6. freed' \subseteq Msgs /\ tot_free' \in [Receivers \union Masters -> Nat]
    <3>1. \/ freed' = freed /\ tot_free' = tot_free
          \/ Drop(m, mbuf[m])
      BY <1>4 DEF Send
    <3>2. freed \subseteq Msgs /\ tot_free \in [Receivers \union Masters -> Nat]
      BY DEF TypeOK
    <3>3. tot_free[m] + 1 \in Nat
      BY <1>0, <3>2
    <3>4. QED
      BY <1>0, <2>3, <3>1, <3>2, <3>3 DEF Drop
  <2>7. QED
    BY <2>1, <2>2, <2>5, <2>6 DEF TypeOK
<1>5. QED
  BY <1>1, <1>2, <1>3, <1>4 DEF Dispatch

\* The steps of the workers.
LEMMA WorkerTypes ==
  ASSUME TypeOK, NEW w \in Workers, Work(w)
  PROVE  TypeOK'
<1> USE DEF receivers, masters, workers, rings
<1> DEFINE i == wi[w]
<1>1. i \in Plugins /\ wm[w] \in Masters
  BY DEF TypeOK
<1>2. /\ jwb \in [Workers -> [Plugins -> Seq(Msgs)]]
      /\ json \in [Plugins -> Seq(Msgs)]
      /\ ring_rxs \in [Plugins -> [Workers -> [Masters -> Seq(Msgs)]]]
  BY DEF TypeOK
<1>3. jwb[w][i] \in Seq(Msgs) /\ json[i] \in Seq(Msgs) /\ <<>> \in Seq(Msgs)
  BY <1>1, <1>2
<1>4. ASSUME NEW s \in Seq(Msgs)
      PROVE  /\ [jwb EXCEPT ![w][i] = s] \in [Workers -> [Plugins -> Seq(Msgs)]]
             /\ [json EXCEPT ![i] = s] \in [Plugins -> Seq(Msgs)]
  BY <1>1, <1>2
<1>5. CASE Poll(w)
  <2> DEFINE ring == ring_rxs[i][w][wm[w]]
  <2>1. ring_rxs[i] \in [Workers -> [Masters -> Seq(Msgs)]]
    BY <1>1, <1>2
  <2>2. ring_rxs[i][w] \in [Masters -> Seq(Msgs)]
    BY <2>1
  <2>3. ring \in Seq(Msgs)
    BY <1>1, <2>2
  <2>4. /\ ring_rxs' \in [Plugins -> [Workers -> [Masters -> Seq(Msgs)]]]
        /\ freed' \subseteq Msgs
        /\ jwb' \in [Workers -> [Plugins -> Seq(Msgs)]]
        /\ json' \in [Plugins -> Seq(Msgs)]
    <3>1. CASE ring = <<>>
      BY <1>2, <1>5, <3>1 DEF Poll, CurrentRing, TypeOK
    <3>2. CASE ring # <<>>
      <4> DEFINE pkt == Head(ring)
                 tail == Tail(ring)
      <4>1. /\ ring_rxs' = [ring_rxs EXCEPT ![i][w][wm[w]] = tail]
            /\ LogJson(w, pkt)
            /\ freed' = freed \union {pkt}
        BY <1>5, <3>2 DEF Poll, CurrentRing
      <4>2. pkt \in Msgs /\ tail \in Seq(Msgs) /\ <<pkt>> \in Seq(Msgs)
        BY <2>3, <3>2
      <4>3. json[i] \o jwb[w][i] \in Seq(Msgs) /\ Append(jwb[w][i], pkt) \in Seq(Msgs)
        BY <1>3, <4>2
      <4>4. json' \in [Plugins -> Seq(Msgs)] /\ jwb' \in [Workers -> [Plugins -> Seq(Msgs)]]
        <5>1. json' = json \/ json' = [json EXCEPT ![i] = json[i] \o jwb[w][i]]
          BY <4>1 DEF LogJson
        <5>2. \/ jwb' = [jwb EXCEPT ![w][i] = <<pkt>>]
              \/ jwb' = [jwb EXCEPT ![w][i] = Append(jwb[w][i], pkt)]
          BY <4>1 DEF LogJson
        <5> HIDE DEF i, pkt
        <5>3. json' \in [Plugins -> Seq(Msgs)]
          BY <1>2, <1>4, <4>3, <5>1
        <5>4. /\ [jwb EXCEPT ![w][i] = <<pkt>>] \in [Workers -> [Plugins -> Seq(Msgs)]]
              /\ [jwb EXCEPT ![w][i] = Append(jwb[w][i], pkt)]
                   \in [Workers -> [Plugins -> Seq(Msgs)]]
          BY <1>4, <4>2, <4>3
        <5>5. QED
          BY <5>2, <5>3, <5>4
      <4>5. [ring_rxs EXCEPT ![i][w][wm[w]] = tail]
              \in [Plugins -> [Workers -> [Masters -> Seq(Msgs)]]]
        <5> HIDE DEF i, tail
        <5>1. QED
          BY <1>1, <1>2, <2>1, <2>2, <4>2, SMTT(30)
      <4>6. freed' \subseteq Msgs
        BY <4>1, <4>2 DEF TypeOK
      <4>7. QED
        BY <4>1, <4>4, <4>5, <4>6
    <3>3. QED
      BY <3>1, <3>2
  <2>5. wm' \in [Workers -> Masters] /\ wpc' \in [Workers -> {"poll", "tick", "done"}]
    <3>1. 1 \in Masters /\ (wm[w] < nb_masters => wm[w] + 1 \in Masters)
      BY <1>1, PipelineAssumption DEF Masters
    <3>2. QED
      BY <1>5, <3>1 DEF Poll, TypeOK
  <2>6. QED
    BY <1>5, <2>4, <2>5 DEF Poll, TypeOK
<1>6. CASE Stop(w)
  <2>1. [j \in Plugins |-> <<>>] \in [Plugins -> Seq(Msgs)]
    BY <1>3
  <2>2. jwb' \in [Workers -> [Plugins -> Seq(Msgs)]]
    BY <1>2, <1>6, <2>1 DEF Stop
  <2>3. QED
    BY <1>6, <2>2 DEF Stop, TypeOK
<1>7. ASSUME NEW report \in BOOLEAN, NEW flush \in BOOLEAN, GoOn(w, report, flush)
      PROVE TypeOK'
  <2>1. json' \in [Plugins -> Seq(Msgs)] /\ jwb' \in [Workers -> [Plugins -> Seq(Msgs)]]
    <3>1. json[i] \o jwb[w][i] \in Seq(Msgs)
      BY <1>3
    <3>2. \/ json' = json /\ jwb' = jwb
          \/ /\ json' = [json EXCEPT ![i] = json[i] \o jwb[w][i]]
             /\ jwb' = [jwb EXCEPT ![w][i] = <<>>]
      BY <1>7 DEF GoOn
    <3> HIDE DEF i
    <3>3. QED
      BY <1>2, <1>3, <1>4, <3>1, <3>2
  <2>2. wi' \in [Workers -> Plugins]
    BY <1>7 DEF GoOn, NextOfMine, Mine, TypeOK
  <2>3. QED
    BY <1>7, <2>1, <2>2 DEF GoOn, TypeOK
<1>8. QED
  BY <1>5, <1>6, <1>7 DEF Work

\* Every step keeps the types.
LEMMA NextTypes == TypeOK /\ Holding /\ [Next]_vars => TypeOK'
<1> SUFFICES ASSUME TypeOK, Holding, [Next]_vars PROVE TypeOK'
  OBVIOUS
<1>1. CASE Kill
  BY <1>1 DEF Kill, TypeOK, receivers, masters, workers, rings
<1>2. CASE UNCHANGED vars
  BY <1>2 DEF vars, TypeOK, receivers, masters, workers, rings
<1>3. QED
  BY <1>1, <1>2, ReceiverTypes, MasterTypes, WorkerTypes DEF Next

\* A master takes a packet up only when it has none, and only a packet whose
\* sender a plugin knows; it lets go of it when it sends it.
LEMMA NextHolding == TypeOK /\ Holding /\ [Next]_vars => Holding'
<1> SUFFICES ASSUME TypeOK, Holding, [Next]_vars PROVE Holding'
  OBVIOUS
<1> USE DEF receivers, masters, workers, rings
<1>1. mbuf \in [Masters -> Msgs \union {None}] /\ mpc \in [Masters -> {"top", "send", "sweep", "done"}]
  BY DEF TypeOK
<1>2. ASSUME UNCHANGED <<mpc, mbuf>> PROVE Holding'
  BY <1>2 DEF Holding
<1>3. ASSUME NEW m \in Masters, Dispatch(m) PROVE Holding'
  <2>1. CASE Take(m)
    <3> DEFINE pkt == Head(rec_ring[m])
    <3>1. pkt \in Msgs
      BY <2>1 DEF Take, TypeOK
    <3>2. CASE PluginOf[pkt] = 0
      BY <1>2, <2>1, <3>2 DEF Take
    <3>3. CASE PluginOf[pkt] # 0
      BY <1>1, <2>1, <3>1, <3>3, PipelineAssumption DEF Take, Holding
    <3>4. QED
      BY <3>2, <3>3
  <2>2. CASE NothingToTake(m)
    BY <1>1, <2>2 DEF NothingToTake, Continue, Holding
  <2>3. CASE Sweep(m)
    BY <1>1, <2>3 DEF Sweep, NextPlugin, Continue, Holding
  <2>4. ASSUME NEW w \in Workers, NEW due \in BOOLEAN, Send(m, w, due) PROVE Holding'
    BY <1>1, <2>4 DEF Send, Continue, Holding
  <2>5. QED
    BY <1>3, <2>1, <2>2, <2>3, <2>4 DEF Dispatch
<1>4. ASSUME NEW r \in Receivers, Receive(r) PROVE Holding'
  BY <1>2, <1>4 DEF Receive, Recv, PassOn, StopReceiving
<1>5. ASSUME NEW w \in Workers, Work(w) PROVE Holding'
  BY <1>2, <1>5 DEF Work, Poll, Stop, GoOn
<1>6. Kill \/ UNCHANGED vars => Holding'
  BY <1>2 DEF Kill, vars
<1>7. QED
  BY <1>3, <1>4, <1>5, <1>6 DEF Next

LEMMA InitHolding == Init => Holding
  BY DEF Init, Holding

\* In every run, with any number of threads, plugins and packets, the variables
\* have their types: the sweep of a master stays within the plugins, a worker
\* visits existing plugins and rings (main_loop, worker_loop).
THEOREM PipelineTypes == Spec => [](TypeOK /\ Holding)
<1>1. Init => TypeOK /\ Holding
  BY InitTypes, InitHolding
<1>2. TypeOK /\ Holding /\ [Next]_vars => (TypeOK /\ Holding)'
  BY NextTypes, NextHolding
<1>3. QED
  BY <1>1, <1>2, PTL DEF Spec

-----------------------------------------------------------------------------
(* Who points to a packet.                                                 *)

\* Taking the head out of a queue without repetitions, and putting in at its end
\* what is not there.
LEMMA TailOfQueue ==
  ASSUME NEW s \in Seq(Msgs), IsInjective(s), s # <<>>
  PROVE  /\ IsInjective(Tail(s))
         /\ ToSet(Tail(s)) = ToSet(s) \ {Head(s)}
         /\ Head(s) \in ToSet(s)
<1>1. /\ Len(s) \in Nat \ {0}
      /\ Len(Tail(s)) = Len(s) - 1
      /\ \A k \in 1 .. Len(s) - 1 : Tail(s)[k] = s[k + 1]
      /\ DOMAIN Tail(s) = 1 .. Len(s) - 1
      /\ DOMAIN s = 1 .. Len(s)
      /\ Head(s) = s[1]
  OBVIOUS
<1>2. IsInjective(Tail(s))
  BY <1>1 DEF IsInjective
<1>3. \A x \in ToSet(s) \ {Head(s)} : \E k \in 1 .. Len(s) - 1 : s[k + 1] = x
  <2> SUFFICES ASSUME NEW j \in 1 .. Len(s), s[j] # s[1]
               PROVE  \E k \in 1 .. Len(s) - 1 : s[k + 1] = s[j]
    BY <1>1 DEF ToSet
  <2>1. j - 1 \in 1 .. Len(s) - 1 /\ (j - 1) + 1 = j
    BY <1>1
  <2>2. QED
    BY <2>1
<1>4. \A k \in 1 .. Len(s) - 1 : s[k + 1] \in ToSet(s) \ {Head(s)}
  BY <1>1 DEF IsInjective, ToSet
<1>5. ToSet(Tail(s)) = {s[k + 1] : k \in 1 .. Len(s) - 1}
  BY <1>1 DEF ToSet
<1>6. ToSet(Tail(s)) = ToSet(s) \ {Head(s)}
  BY <1>3, <1>4, <1>5
<1>7. Head(s) \in ToSet(s)
  BY <1>1 DEF ToSet
<1>8. QED
  BY <1>2, <1>6, <1>7

LEMMA AppendToQueue ==
  ASSUME NEW s \in Seq(Msgs), IsInjective(s), NEW x \in Msgs, x \notin ToSet(s)
  PROVE  /\ IsInjective(Append(s, x))
         /\ ToSet(Append(s, x)) = ToSet(s) \union {x}
<1>1. /\ Len(s) \in Nat
      /\ DOMAIN s = 1 .. Len(s)
      /\ DOMAIN Append(s, x) = 1 .. Len(s) + 1
      /\ \A k \in 1 .. Len(s) : Append(s, x)[k] = s[k]
      /\ Append(s, x)[Len(s) + 1] = x
  OBVIOUS
<1>2. \A k \in 1 .. Len(s) : s[k] # x
  BY <1>1 DEF ToSet
<1>3. QED
  BY <1>1, <1>2 DEF IsInjective, ToSet

\* The names of the rings.
RecRing(m) == [place |-> "rec", m |-> m]
RxRing(i, w, m) == [place |-> "rx", i |-> i, w |-> w, m |-> m]

LEMMA RecRingChanged ==
  ASSUME TypeOK, NEW m \in Masters, NEW s,
         rec_ring' = [rec_ring EXCEPT ![m] = s], UNCHANGED ring_rxs
  PROVE  /\ RecRing(m) \in Ring /\ RingAt(RecRing(m)) = rec_ring[m]
         /\ \A q \in Ring : RingAt(q)' = IF q = RecRing(m) THEN s ELSE RingAt(q)
<1>1. RecRing(m) \in Ring /\ RingAt(RecRing(m)) = rec_ring[m]
  BY DEF Ring, RecRing, RingAt
<1>2. ASSUME NEW n \in Masters
      PROVE  rec_ring'[n] = IF RecRing(n) = RecRing(m) THEN s ELSE rec_ring[n]
  BY <1>2 DEF RecRing, TypeOK
<1>3. ASSUME NEW q \in Ring, q.place = "rec" PROVE q.m \in Masters /\ q = RecRing(q.m)
  BY <1>3 DEF Ring, RecRing
<1>4. QED
  BY <1>1, <1>2, <1>3 DEF RingAt, RecRing

LEMMA RxRingChanged ==
  ASSUME TypeOK, NEW i \in Plugins, NEW w \in Workers, NEW m \in Masters, NEW s,
         \A a \in Plugins, b \in Workers, c \in Masters :
           ring_rxs'[a][b][c] = IF a = i /\ b = w /\ c = m THEN s ELSE ring_rxs[a][b][c],
         UNCHANGED rec_ring
  PROVE  /\ RxRing(i, w, m) \in Ring /\ RingAt(RxRing(i, w, m)) = ring_rxs[i][w][m]
         /\ \A q \in Ring : RingAt(q)' = IF q = RxRing(i, w, m) THEN s ELSE RingAt(q)
<1>1. RxRing(i, w, m) \in Ring /\ RingAt(RxRing(i, w, m)) = ring_rxs[i][w][m]
  BY DEF Ring, RxRing, RingAt
<1>2. ASSUME NEW q \in Ring, q.place # "rec"
      PROVE  /\ q.i \in Plugins /\ q.w \in Workers /\ q.m \in Masters
             /\ q = RxRing(q.i, q.w, q.m)
  BY <1>2 DEF Ring, RxRing
<1>3. QED
  BY <1>1, <1>2 DEF RingAt, RxRing

\* Every ring holds packets.
LEMMA RingTypes == ASSUME TypeOK, NEW q \in Ring PROVE RingAt(q) \in Seq(Msgs)
<1>1. CASE q.place = "rec"
  BY <1>1 DEF Ring, RingAt, TypeOK
<1>2. CASE q.place # "rec"
  <2>1. q.i \in Plugins /\ q.w \in Workers /\ q.m \in Masters
    BY <1>2 DEF Ring
  <2>2. ring_rxs[q.i] \in [Workers -> [Masters -> Seq(Msgs)]]
    BY <2>1 DEF TypeOK
  <2>3. QED
    BY <1>2, <2>1, <2>2 DEF RingAt
<1>3. QED
  BY <1>1, <1>2

\* The three kinds of pointers, before and after a step.
LEMMA WhoPoints ==
  ASSUME NEW msg
  PROVE  /\ \A p : p \in Pointers(msg) <=>
              \/ \E r \in Receivers : rbuf[r] = msg /\ p = <<"rbuf", r>>
              \/ \E m \in Masters : mbuf[m] = msg /\ p = <<"mbuf", m>>
              \/ \E q \in Ring : msg \in ToSet(RingAt(q)) /\ p = <<"ring", q>>
         /\ \A p : p \in Pointers(msg)' <=>
              \/ \E r \in Receivers : rbuf'[r] = msg /\ p = <<"rbuf", r>>
              \/ \E m \in Masters : mbuf'[m] = msg /\ p = <<"mbuf", m>>
              \/ \E q \in Ring : msg \in ToSet(RingAt(q)') /\ p = <<"ring", q>>
  BY DEF Pointers

\* Nothing of a packet changes when no receiver, no master and no ring takes or
\* loses it.
LEMMA SamePointers ==
  ASSUME NEW msg,
         \A r \in Receivers : rbuf'[r] = msg <=> rbuf[r] = msg,
         \A m \in Masters : mbuf'[m] = msg <=> mbuf[m] = msg,
         \A q \in Ring : msg \in ToSet(RingAt(q)') <=> msg \in ToSet(RingAt(q))
  PROVE  Pointers(msg)' = Pointers(msg)
<1>1. \A p : p \in Pointers(msg)' <=> p \in Pointers(msg)
  BY WhoPoints
<1>2. QED
  BY <1>1, Zenon

\* A step that moves one packet only keeps its owner single if it leaves that packet
\* with at most one owner, and with none exactly when it is freed or forgotten.
LEMMA OneMoves ==
  ASSUME SingleOwner, NEW x \in Msgs,
         \A y \in Msgs : y # x =>
           /\ \A r \in Receivers : rbuf'[r] = y <=> rbuf[r] = y
           /\ \A m \in Masters : mbuf'[m] = y <=> mbuf[m] = y
           /\ \A q \in Ring : y \in ToSet(RingAt(q)') <=> y \in ToSet(RingAt(q))
           /\ y \in (net \union freed)' <=> y \in net \union freed,
         \A q \in Ring : IsInjective(RingAt(q)'),
         \A p, q \in Pointers(x)' : p = q,
         x \in (net \union freed)' => Pointers(x)' = {},
         Pointers(x)' = {} /\ PluginOf[x] # 0 => x \in (net \union freed)'
  PROVE  SingleOwner'
<1>1. ASSUME NEW y \in Msgs, y # x
      PROVE  Pointers(y)' = Pointers(y) /\ (y \in (net \union freed)' <=> y \in net \union freed)
  BY <1>1, SamePointers
<1>2. QED
  BY <1>1 DEF SingleOwner

-----------------------------------------------------------------------------
(* The steps that move a packet.                                           *)

\* Nobody moves.
LEMMA NoneMoves ==
  ASSUME SingleOwner, UNCHANGED <<rbuf, mbuf, rings, net, freed>>
  PROVE  SingleOwner'
<1>1. \A q \in Ring : RingAt(q)' = RingAt(q)
  BY DEF RingAt, rings
<1>2. \A msg : Pointers(msg)' = Pointers(msg)
  BY <1>1, SamePointers
<1>3. QED
  BY <1>1, <1>2 DEF SingleOwner

\* No packet is both to come and given back.
Apart == net \intersect freed = {}

\* A packet that a receiver, a master or a ring has is not to come and not given back,
\* and nobody else has it.
LEMMA OnlyOwner ==
  ASSUME SingleOwner, NEW x \in Msgs, NEW p \in Pointers(x)
  PROVE  /\ x \notin net \union freed
         /\ \A r \in Receivers : rbuf[r] = x => p = <<"rbuf", r>>
         /\ \A m \in Masters : mbuf[m] = x => p = <<"mbuf", m>>
         /\ \A q \in Ring : x \in ToSet(RingAt(q)) => p = <<"ring", q>>
<1>1. x \notin net \union freed /\ \A q \in Pointers(x) : q = p
  BY DEF SingleOwner
<1>2. QED
  BY <1>1, WhoPoints

\* A step that moves a packet from one place to at most one other.
LEMMA MovesTo ==
  ASSUME SingleOwner, NEW x \in Msgs,
         \A y \in Msgs : y # x =>
           /\ \A r \in Receivers : rbuf'[r] = y <=> rbuf[r] = y
           /\ \A m \in Masters : mbuf'[m] = y <=> mbuf[m] = y
           /\ \A q \in Ring : y \in ToSet(RingAt(q)') <=> y \in ToSet(RingAt(q))
           /\ y \in (net \union freed)' <=> y \in net \union freed,
         \A q \in Ring : IsInjective(RingAt(q)'),
         x \notin (net \union freed)',
         Pointers(x)' # {}, \A p, q \in Pointers(x)' : p = q
  PROVE  SingleOwner'
  BY OneMoves

LEMMA MovesOut ==
  ASSUME SingleOwner, NEW x \in Msgs,
         \A y \in Msgs : y # x =>
           /\ \A r \in Receivers : rbuf'[r] = y <=> rbuf[r] = y
           /\ \A m \in Masters : mbuf'[m] = y <=> mbuf[m] = y
           /\ \A q \in Ring : y \in ToSet(RingAt(q)') <=> y \in ToSet(RingAt(q))
           /\ y \in (net \union freed)' <=> y \in net \union freed,
         \A q \in Ring : IsInjective(RingAt(q)'),
         x \in (net \union freed)' \/ PluginOf[x] = 0,
         \A r \in Receivers : rbuf'[r] # x,
         \A m \in Masters : mbuf'[m] # x,
         \A q \in Ring : x \notin ToSet(RingAt(q)')
  PROVE  SingleOwner'
<1>1. \A p : p \notin Pointers(x)'
  BY WhoPoints
<1>2. Pointers(x)' = {}
  BY <1>1, Zenon
<1>3. QED
  BY <1>1, <1>2, OneMoves

\* A receiver gets a packet from the network.
LEMMA RecvOwner ==
  ASSUME TypeOK, Apart, SingleOwner, NEW r \in Receivers, NEW x \in Msgs, Recv(r, x)
  PROVE  SingleOwner' /\ Apart'
<1>1. /\ rbuf \in [Receivers -> Msgs \union {None}] /\ rbuf[r] = None
      /\ rbuf' = [rbuf EXCEPT ![r] = x]
      /\ x \in net /\ net' = net \ {x}
      /\ UNCHANGED <<freed, mbuf, rec_ring, ring_rxs>>
  BY DEF Recv, TypeOK, masters, rings
<1>2. \A q \in Ring : RingAt(q)' = RingAt(q)
  BY <1>1 DEF RingAt
<1>3. Pointers(x) = {}
  BY <1>1 DEF SingleOwner
<1>4. ASSUME NEW y \in Msgs, y # x
      PROVE  /\ \A s \in Receivers : rbuf'[s] = y <=> rbuf[s] = y
             /\ y \in (net \union freed)' <=> y \in net \union freed
  BY <1>1, <1>4, PipelineAssumption
<1>5. x \notin (net \union freed)'
  BY <1>1 DEF Apart
<1>6. \A p : p \in Pointers(x)' <=> p = <<"rbuf", r>>
  BY <1>1, <1>2, <1>3, WhoPoints
<1>7. \A q \in Ring : IsInjective(RingAt(q)')
  BY <1>2 DEF SingleOwner
<1>8. Apart'
  BY <1>1 DEF Apart
<1>9. Pointers(x)' # {} /\ \A p, q \in Pointers(x)' : p = q
  <2> DEFINE to == <<"rbuf", r>>
  <2>1. \A p : p \in Pointers(x)' <=> p = to
    BY <1>6
  <2> HIDE DEF to
  <2>2. QED
    BY <2>1
<1>10. QED
  BY <1>1, <1>2, <1>4, <1>5, <1>7, <1>8, <1>9, MovesTo

\* A receiver passes its packet on to a master, or gives it back.
LEMMA PassOnOwner ==
  ASSUME TypeOK, Apart, SingleOwner, NEW r \in Receivers, NEW m \in Masters, PassOn(r, m)
  PROVE  SingleOwner' /\ Apart'
<1>1. PICK x \in Msgs : x = rbuf[r]
  BY DEF PassOn, TypeOK
<1>2. /\ x \notin net \union freed
      /\ \A s \in Receivers : rbuf[s] = x => s = r
      /\ \A n \in Masters : mbuf[n] # x
      /\ \A q \in Ring : x \notin ToSet(RingAt(q))
  <2>1. <<"rbuf", r>> \in Pointers(x)
    BY <1>1, WhoPoints
  <2>2. QED
    BY <2>1, OnlyOwner
<1>3. /\ \A s \in Receivers : rbuf'[s] = IF s = r THEN None ELSE rbuf[s]
      /\ UNCHANGED <<net, mbuf, ring_rxs>>
  BY DEF PassOn, TypeOK, masters
<1>4. rec_ring[m] \in Seq(Msgs)
  BY DEF TypeOK
<1>5. CASE Len(rec_ring[m]) < RecCapacity
  <2>1. rec_ring' = [rec_ring EXCEPT ![m] = Append(rec_ring[m], x)] /\ freed' = freed
    BY <1>1, <1>5 DEF PassOn
  <2>2. /\ RecRing(m) \in Ring /\ RingAt(RecRing(m)) = rec_ring[m]
        /\ \A q \in Ring :
             RingAt(q)' = IF q = RecRing(m) THEN Append(rec_ring[m], x) ELSE RingAt(q)
    BY <1>3, <2>1, RecRingChanged
  <2>3. /\ IsInjective(Append(rec_ring[m], x))
        /\ ToSet(Append(rec_ring[m], x)) = ToSet(rec_ring[m]) \union {x}
    BY <1>2, <1>4, <2>2, AppendToQueue DEF SingleOwner
  <2>4. \A p : p \in Pointers(x)' <=> p = <<"ring", RecRing(m)>>
    <3>1. \A q \in Ring : x \in ToSet(RingAt(q)') <=> q = RecRing(m)
      BY <1>2, <2>2, <2>3
    <3>2. (\A s \in Receivers : rbuf'[s] # x) /\ (\A n \in Masters : mbuf'[n] # x)
      BY <1>2, <1>3, PipelineAssumption
    <3>3. QED
      BY <2>2, <3>1, <3>2, WhoPoints
  <2>5. \A q \in Ring : IsInjective(RingAt(q)')
    BY <2>2, <2>3 DEF SingleOwner
  <2>6. ASSUME NEW y \in Msgs, y # x
        PROVE  /\ \A s \in Receivers : rbuf'[s] = y <=> rbuf[s] = y
               /\ \A q \in Ring : y \in ToSet(RingAt(q)') <=> y \in ToSet(RingAt(q))
    BY <1>1, <1>3, <2>2, <2>3, <2>6, PipelineAssumption
  <2>7. Pointers(x)' # {} /\ \A p, q \in Pointers(x)' : p = q
    <3> DEFINE to == <<"ring", RecRing(m)>>
    <3>1. \A p : p \in Pointers(x)' <=> p = to
      BY <2>4
    <3> HIDE DEF to
    <3>2. QED
      BY <3>1
  <2>8. SingleOwner'
    BY <1>2, <1>3, <2>1, <2>5, <2>6, <2>7, MovesTo
  <2>9. QED
    BY <1>3, <2>1, <2>8 DEF Apart
<1>6. CASE ~ (Len(rec_ring[m]) < RecCapacity)
  <2>1. rec_ring' = rec_ring /\ freed' = freed \union {x}
    BY <1>1, <1>6 DEF PassOn, Drop
  <2>2. \A q \in Ring : RingAt(q)' = RingAt(q)
    BY <1>3, <2>1 DEF RingAt
  <2>3. \A q \in Ring : IsInjective(RingAt(q)')
    BY <2>2 DEF SingleOwner
  <2>4. ASSUME NEW y \in Msgs, y # x
        PROVE  /\ \A s \in Receivers : rbuf'[s] = y <=> rbuf[s] = y
               /\ y \in (net \union freed)' <=> y \in net \union freed
    BY <1>1, <1>3, <2>1, <2>4, PipelineAssumption
  <2>5. \A s \in Receivers : rbuf'[s] # x
    BY <1>2, <1>3, PipelineAssumption
  <2>6. SingleOwner'
    BY <1>2, <1>3, <2>1, <2>2, <2>3, <2>4, <2>5, MovesOut
  <2>7. QED
    BY <1>2, <1>3, <2>1, <2>6 DEF Apart
<1>7. QED
  BY <1>5, <1>6

\* A master takes a packet from its ring, or forgets it.
LEMMA TakeOwner ==
  ASSUME TypeOK, Holding, Apart, SingleOwner, NEW m \in Masters, Take(m)
  PROVE  SingleOwner' /\ Apart'
<1>1. /\ rec_ring[m] \in Seq(Msgs) /\ rec_ring[m] # <<>>
      /\ mbuf \in [Masters -> Msgs \union {None}] /\ mbuf[m] = None
      /\ rec_ring' = [rec_ring EXCEPT ![m] = Tail(rec_ring[m])]
      /\ UNCHANGED <<net, freed, rbuf, ring_rxs>>
  BY DEF Take, Holding, TypeOK, receivers
<1>2. PICK x \in Msgs : x = Head(rec_ring[m])
  BY <1>1
<1>3. /\ RecRing(m) \in Ring /\ RingAt(RecRing(m)) = rec_ring[m]
      /\ \A q \in Ring :
           RingAt(q)' = IF q = RecRing(m) THEN Tail(rec_ring[m]) ELSE RingAt(q)
  BY <1>1, RecRingChanged
<1>4. /\ IsInjective(Tail(rec_ring[m]))
      /\ ToSet(Tail(rec_ring[m])) = ToSet(rec_ring[m]) \ {x}
      /\ x \in ToSet(rec_ring[m])
  BY <1>1, <1>2, <1>3, TailOfQueue DEF SingleOwner
<1>5. /\ x \notin net \union freed
      /\ \A r \in Receivers : rbuf[r] # x
      /\ \A n \in Masters : mbuf[n] # x
      /\ \A q \in Ring : x \in ToSet(RingAt(q)) => q = RecRing(m)
  <2>1. <<"ring", RecRing(m)>> \in Pointers(x)
    BY <1>3, <1>4, WhoPoints
  <2>2. QED
    BY <2>1, OnlyOwner
<1>6. \A q \in Ring : IsInjective(RingAt(q)') /\ x \notin ToSet(RingAt(q)')
  BY <1>3, <1>4, <1>5, ZenonT(60) DEF SingleOwner
<1>7. ASSUME NEW y \in Msgs, y # x
      PROVE  \A q \in Ring : y \in ToSet(RingAt(q)') <=> y \in ToSet(RingAt(q))
  BY <1>3, <1>4, <1>7
<1>8. CASE PluginOf[x] = 0
  <2>1. mbuf' = mbuf
    BY <1>2, <1>8 DEF Take, masters
  <2>2. QED
    BY <1>1, <1>5, <1>6, <1>7, <1>8, <2>1, MovesOut DEF Apart
<1>9. CASE PluginOf[x] # 0
  <2>1. mbuf' = [mbuf EXCEPT ![m] = x]
    BY <1>2, <1>9 DEF Take
  <2>2. \A n \in Masters : mbuf'[n] = IF n = m THEN x ELSE mbuf[n]
    BY <1>1, <2>1
  <2>3. \A p : p \in Pointers(x)' <=> p = <<"mbuf", m>>
    BY <1>1, <1>5, <1>6, <2>2, WhoPoints
  <2>4. ASSUME NEW y \in Msgs, y # x
        PROVE  \A n \in Masters : mbuf'[n] = y <=> mbuf[n] = y
    BY <1>1, <2>2, <2>4, PipelineAssumption
  <2>5. Pointers(x)' # {} /\ \A p, q \in Pointers(x)' : p = q
    <3> DEFINE to == <<"mbuf", m>>
    <3>1. \A p : p \in Pointers(x)' <=> p = to
      BY <2>3
    <3> HIDE DEF to
    <3>2. QED
      BY <3>1
  <2>6. QED
    BY <1>1, <1>5, <1>6, <1>7, <2>4, <2>5, MovesTo DEF Apart
<1>10. QED
  BY <1>8, <1>9

\* A master sends its packet to a worker, or gives it back.
LEMMA SendOwner ==
  ASSUME TypeOK, Holding, Apart, SingleOwner, NEW m \in Masters, NEW w \in Workers,
         NEW due \in BOOLEAN, Send(m, w, due)
  PROVE  SingleOwner' /\ Apart'
<1>1. PICK x \in Msgs : x = mbuf[m] /\ PluginOf[x] # 0
  BY DEF Send, Holding, TypeOK
<1>2. PICK i \in Plugins : i = PluginOf[x]
  BY <1>1, PipelineAssumption
<1>3. /\ x \notin net \union freed
      /\ \A r \in Receivers : rbuf[r] # x
      /\ \A n \in Masters : mbuf[n] = x => n = m
      /\ \A q \in Ring : x \notin ToSet(RingAt(q))
  <2>1. <<"mbuf", m>> \in Pointers(x)
    BY <1>1, WhoPoints
  <2>2. QED
    BY <2>1, OnlyOwner
<1>4. /\ \A n \in Masters : mbuf'[n] = IF n = m THEN None ELSE mbuf[n]
      /\ UNCHANGED <<net, rbuf, rec_ring>>
  BY DEF Send, TypeOK, receivers
<1>5. ring_rxs[i][w][m] \in Seq(Msgs)
  <2>1. ring_rxs[i] \in [Workers -> [Masters -> Seq(Msgs)]]
    BY DEF TypeOK
  <2>2. QED
    BY <2>1
<1>6. CASE Len(ring_rxs[i][w][m]) < RxCapacity
  <2> DEFINE s == Append(ring_rxs[i][w][m], x)
  <2>1. ring_rxs' = [ring_rxs EXCEPT ![i][w][m] = s] /\ freed' = freed
    BY <1>1, <1>2, <1>6 DEF Send
  <2>2. s \in Seq(Msgs)
    BY <1>5
  <2>3. /\ RxRing(i, w, m) \in Ring /\ RingAt(RxRing(i, w, m)) = ring_rxs[i][w][m]
        /\ \A q \in Ring : RingAt(q)' = IF q = RxRing(i, w, m) THEN s ELSE RingAt(q)
    <3> HIDE DEF s
    <3>1. ring_rxs \in [Plugins -> [Workers -> [Masters -> Seq(Msgs)]]]
      BY DEF TypeOK
    <3>2. \A a \in Plugins, b \in Workers, c \in Masters :
            ring_rxs'[a][b][c] = IF a = i /\ b = w /\ c = m THEN s ELSE ring_rxs[a][b][c]
      BY <2>1, <3>1
    <3>3. QED
      BY <1>4, <3>2, RxRingChanged
  <2>4. IsInjective(s) /\ ToSet(s) = ToSet(ring_rxs[i][w][m]) \union {x}
    BY <1>3, <1>5, <2>3, AppendToQueue DEF SingleOwner
  <2> HIDE DEF s
  <2>5. \A p : p \in Pointers(x)' <=> p = <<"ring", RxRing(i, w, m)>>
    <3>1. \A q \in Ring : x \in ToSet(RingAt(q)') <=> q = RxRing(i, w, m)
      BY <1>3, <2>3, <2>4
    <3>2. (\A r \in Receivers : rbuf'[r] # x) /\ (\A n \in Masters : mbuf'[n] # x)
      BY <1>3, <1>4, PipelineAssumption
    <3>3. QED
      BY <2>3, <3>1, <3>2, WhoPoints
  <2>6. \A q \in Ring : IsInjective(RingAt(q)')
    BY <2>3, <2>4 DEF SingleOwner
  <2>7. ASSUME NEW y \in Msgs, y # x
        PROVE  /\ \A n \in Masters : mbuf'[n] = y <=> mbuf[n] = y
               /\ \A q \in Ring : y \in ToSet(RingAt(q)') <=> y \in ToSet(RingAt(q))
    BY <1>1, <1>4, <2>3, <2>4, <2>7, PipelineAssumption
  <2>8. Pointers(x)' # {} /\ \A p, q \in Pointers(x)' : p = q
    <3> DEFINE to == <<"ring", RxRing(i, w, m)>>
    <3>1. \A p : p \in Pointers(x)' <=> p = to
      BY <2>5
    <3> HIDE DEF to
    <3>2. QED
      BY <3>1
  <2>9. SingleOwner'
    BY <1>3, <1>4, <2>1, <2>6, <2>7, <2>8, MovesTo
  <2>10. QED
    BY <1>4, <2>1, <2>9 DEF Apart
<1>7. CASE ~ (Len(ring_rxs[i][w][m]) < RxCapacity)
  <2>1. ring_rxs' = ring_rxs /\ freed' = freed \union {x}
    BY <1>1, <1>2, <1>7 DEF Send, Drop
  <2>2. \A q \in Ring : RingAt(q)' = RingAt(q)
    BY <1>4, <2>1 DEF RingAt
  <2>3. \A q \in Ring : IsInjective(RingAt(q)')
    BY <2>2 DEF SingleOwner
  <2>4. ASSUME NEW y \in Msgs, y # x
        PROVE  /\ \A n \in Masters : mbuf'[n] = y <=> mbuf[n] = y
               /\ y \in (net \union freed)' <=> y \in net \union freed
    BY <1>1, <1>4, <2>1, <2>4, PipelineAssumption
  <2>5. \A n \in Masters : mbuf'[n] # x
    BY <1>3, <1>4, PipelineAssumption
  <2>6. SingleOwner'
    BY <1>3, <1>4, <2>1, <2>2, <2>3, <2>4, <2>5, MovesOut
  <2>7. QED
    BY <1>3, <1>4, <2>1, <2>6 DEF Apart
<1>8. QED
  BY <1>6, <1>7

\* A worker takes a packet from a ring and gives it back.
LEMMA PollOwner ==
  ASSUME TypeOK, Apart, SingleOwner, NEW w \in Workers, Poll(w)
  PROVE  SingleOwner' /\ Apart'
<1>1. UNCHANGED <<net, rbuf, mbuf, rec_ring>>
  BY DEF Poll, receivers, masters
<1>2. CASE CurrentRing(w) = <<>>
  BY <1>1, <1>2, NoneMoves DEF Poll, rings, Apart
<1>3. CASE CurrentRing(w) # <<>>
  <2>1. PICK i \in Plugins, m \in Masters : i = wi[w] /\ m = wm[w]
    BY DEF TypeOK
  <2>2. ring_rxs[i][w][m] \in Seq(Msgs)
    <3>1. ring_rxs[i] \in [Workers -> [Masters -> Seq(Msgs)]]
      BY DEF TypeOK
    <3>2. QED
      BY <3>1
  <2>3. ring_rxs[i][w][m] # <<>>
    BY <1>3, <2>1 DEF CurrentRing
  <2>4. PICK x \in Msgs : x = Head(ring_rxs[i][w][m])
    BY <2>2, <2>3
  <2> DEFINE s == Tail(ring_rxs[i][w][m])
  <2>5. ring_rxs' = [ring_rxs EXCEPT ![i][w][m] = s] /\ freed' = freed \union {x}
    BY <1>3, <2>1, <2>4 DEF Poll, CurrentRing
  <2>6. s \in Seq(Msgs)
    BY <2>2, <2>3
  <2>7. /\ RxRing(i, w, m) \in Ring /\ RingAt(RxRing(i, w, m)) = ring_rxs[i][w][m]
        /\ \A q \in Ring : RingAt(q)' = IF q = RxRing(i, w, m) THEN s ELSE RingAt(q)
    <3> HIDE DEF s
    <3>1. ring_rxs \in [Plugins -> [Workers -> [Masters -> Seq(Msgs)]]]
      BY DEF TypeOK
    <3>2. \A a \in Plugins, b \in Workers, c \in Masters :
            ring_rxs'[a][b][c] = IF a = i /\ b = w /\ c = m THEN s ELSE ring_rxs[a][b][c]
      BY <2>5, <3>1
    <3>3. QED
      BY <1>1, <3>2, RxRingChanged
  <2>8. /\ IsInjective(s) /\ ToSet(s) = ToSet(ring_rxs[i][w][m]) \ {x}
        /\ x \in ToSet(ring_rxs[i][w][m])
    BY <2>2, <2>3, <2>4, <2>7, TailOfQueue DEF SingleOwner
  <2> HIDE DEF s
  <2>9. /\ x \notin net \union freed
        /\ \A r \in Receivers : rbuf[r] # x
        /\ \A n \in Masters : mbuf[n] # x
        /\ \A q \in Ring : x \in ToSet(RingAt(q)) => q = RxRing(i, w, m)
    <3>1. <<"ring", RxRing(i, w, m)>> \in Pointers(x)
      BY <2>7, <2>8, WhoPoints
    <3>2. QED
      BY <3>1, OnlyOwner
  <2>10. \A q \in Ring : IsInjective(RingAt(q)') /\ x \notin ToSet(RingAt(q)')
    BY <2>7, <2>8, <2>9 DEF SingleOwner
  <2>11. ASSUME NEW y \in Msgs, y # x
         PROVE  /\ \A q \in Ring : y \in ToSet(RingAt(q)') <=> y \in ToSet(RingAt(q))
                /\ y \in (net \union freed)' <=> y \in net \union freed
    BY <1>1, <2>5, <2>7, <2>8, <2>11
  <2>12. SingleOwner'
    BY <1>1, <2>5, <2>9, <2>10, <2>11, MovesOut
  <2>13. QED
    BY <1>1, <2>5, <2>9, <2>12 DEF Apart
<1>4. QED
  BY <1>2, <1>3

-----------------------------------------------------------------------------
(* Ownership is inductive.                                                 *)

OwnerInv == TypeOK /\ Holding /\ Apart /\ SingleOwner

LEMMA InitOwner == Init => OwnerInv
<1> SUFFICES ASSUME Init PROVE OwnerInv
  OBVIOUS
<1>1. \A q \in Ring : RingAt(q) = <<>>
  BY DEF Init, Ring, RingAt
<1>2. IsInjective(<<>>) /\ ToSet(<<>>) = {}
  BY DEF IsInjective, ToSet
<1>3. ASSUME NEW msg \in Msgs PROVE Pointers(msg) = {}
  <2>1. \A p : p \notin Pointers(msg)
    BY <1>1, <1>2, PipelineAssumption DEF Init, Pointers
  <2>2. QED
    BY <2>1, Zenon
<1>4. SingleOwner
  BY <1>1, <1>2, <1>3 DEF Init, SingleOwner
<1>5. Apart
  BY DEF Init, Apart
<1>6. QED
  BY <1>4, <1>5, InitTypes, InitHolding DEF OwnerInv

LEMMA NextOwner == OwnerInv /\ [Next]_vars => OwnerInv'
<1> SUFFICES ASSUME OwnerInv, [Next]_vars PROVE SingleOwner' /\ Apart'
  BY NextTypes, NextHolding DEF OwnerInv
<1> USE DEF receivers, masters, workers, rings
<1>0. TypeOK /\ Holding /\ Apart /\ SingleOwner
  BY DEF OwnerInv
<1>1. ASSUME UNCHANGED <<rbuf, mbuf, rings, net, freed>> PROVE SingleOwner' /\ Apart'
  BY <1>0, <1>1, NoneMoves DEF Apart
<1>2. ASSUME NEW r \in Receivers, Receive(r) PROVE SingleOwner' /\ Apart'
  <2>1. CASE StopReceiving(r)
    BY <1>1, <2>1 DEF StopReceiving
  <2>2. ASSUME NEW msg \in net, Recv(r, msg) PROVE SingleOwner' /\ Apart'
    <3>1. msg \in Msgs
      BY <1>0 DEF TypeOK
    <3>2. QED
      BY <1>0, <2>2, <3>1, RecvOwner
  <2>3. QED
    BY <1>0, <1>2, <2>1, <2>2, PassOnOwner DEF Receive
<1>3. ASSUME NEW m \in Masters, Dispatch(m) PROVE SingleOwner' /\ Apart'
  <2>1. CASE NothingToTake(m) \/ Sweep(m)
    BY <1>1, <2>1 DEF NothingToTake, Sweep
  <2>2. QED
    BY <1>0, <1>3, <2>1, TakeOwner, SendOwner DEF Dispatch
<1>4. ASSUME NEW w \in Workers, Work(w) PROVE SingleOwner' /\ Apart'
  <2>1. CASE Stop(w) \/ \E report, flush \in BOOLEAN : GoOn(w, report, flush)
    BY <1>1, <2>1 DEF Stop, GoOn
  <2>2. QED
    BY <1>0, <1>4, <2>1, PollOwner DEF Work
<1>5. CASE Kill
  BY <1>1, <1>5 DEF Kill
<1>6. CASE UNCHANGED vars
  BY <1>1, <1>6 DEF vars
<1>7. QED
  BY <1>2, <1>3, <1>4, <1>5, <1>6 DEF Next

\* In every run, a packet (lbuf) that was received and not freed has exactly one
\* owner - one thread's local or one slot of one ring - and a freed one has none; only
\* main_loop loses packets, those of senders that no plugin knows.
THEOREM PacketsHaveOneOwner == Spec => []SingleOwner
<1>1. OwnerInv => SingleOwner
  BY DEF OwnerInv
<1>2. QED
  BY <1>1, InitOwner, NextOwner, PTL DEF Spec
=============================================================================
