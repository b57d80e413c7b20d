---------------------------- MODULE PipelineLogs ----------------------------
(***************************************************************************)
(* Proofs about Pipeline: what is in the temp and json files.  A log is in *)
(* the temp lines of its plugin before a worker has it, it is nowhere      *)
(* twice, what a counter counts is lost, and with one master the logs of a *)
(* plugin keep their order from the temp lines to those of a worker.       *)
(***************************************************************************)
EXTENDS PipelineProofs, FiniteSetTheorems, SequenceTheorems

-----------------------------------------------------------------------------
(* Files and write buffers.  Masters with temp and twb, and workers with   *)
(* json and jwb, do the same, so file and buf stand for either.            *)

\* All lines of a plugin, drained or not, of the threads T.
Lines(file, buf, T, i) == ToSet(file[i]) \union UNION {ToSet(buf[t][i]) : t \in T}

\* No line of a plugin is there twice.
Once(file, buf, T, i) ==
  /\ IsInjective(file[i])
  /\ \A t \in T : IsInjective(buf[t][i])
  /\ \A t \in T : \A x \in ToSet(buf[t][i]) :
       /\ x \notin ToSet(file[i])
       /\ \A u \in T : x \in ToSet(buf[u][i]) => u = t

\* A thread t drains its buffer for plugin i into the file and has s instead, or puts
\* x behind what it has; nothing else changes.
Drains(file, buf, T, t, i, s, file2, buf2) ==
  /\ file2[i] = file[i] \o buf[t][i] /\ buf2[t][i] = s
  /\ \A j \in Plugins : j # i => file2[j] = file[j]
  /\ \A u \in T, j \in Plugins : u # t \/ j # i => buf2[u][j] = buf[u][j]
Buffers(buf, T, t, i, x, buf2) ==
  /\ buf2[t][i] = Append(buf[t][i], x)
  /\ \A u \in T, j \in Plugins : u # t \/ j # i => buf2[u][j] = buf[u][j]

\* Plugin i has got the lines of S, and every line is still there once.
Gains(file, buf, T, i, S, file2, buf2) ==
  \A j \in Plugins :
    /\ Once(file2, buf2, T, j)
    /\ Lines(file2, buf2, T, j) = Lines(file, buf, T, j) \union (IF j = i THEN S ELSE {})

\* What they depend on.
LEMMA WhatLines ==
  ASSUME NEW T, NEW file, NEW buf, NEW i
  PROVE  \A x : x \in Lines(file, buf, T, i) <=>
                 x \in ToSet(file[i]) \/ \E t \in T : x \in ToSet(buf[t][i])
  BY DEF Lines

LEMMA SameLines ==
  ASSUME NEW T, NEW file, NEW buf, NEW file2, NEW buf2, NEW j,
         file2[j] = file[j], \A u \in T : buf2[u][j] = buf[u][j]
  PROVE  /\ Lines(file2, buf2, T, j) = Lines(file, buf, T, j)
         /\ Once(file, buf, T, j) => Once(file2, buf2, T, j)
<1>1. \A x : x \in Lines(file2, buf2, T, j) <=> x \in Lines(file, buf, T, j)
  BY WhatLines
<1>2. Lines(file2, buf2, T, j) = Lines(file, buf, T, j)
  BY <1>1, Zenon
<1>3. ASSUME Once(file, buf, T, j) PROVE Once(file2, buf2, T, j)
  BY <1>3, Zenon DEF Once
<1>4. QED
  BY <1>2, <1>3

LEMMA EmptyQueue == IsInjective(<<>>) /\ ToSet(<<>>) = {}
  BY DEF IsInjective, ToSet

\* Two queues with nothing in common, one behind the other.
LEMMA JoinQueues ==
  ASSUME NEW s \in Seq(Msgs), NEW u \in Seq(Msgs)
  PROVE  /\ s \o u \in Seq(Msgs)
         /\ ToSet(s \o u) = ToSet(s) \union ToSet(u)
         /\ IsInjective(s) /\ IsInjective(u) /\ (\A x \in ToSet(u) : x \notin ToSet(s))
              => IsInjective(s \o u)
<1>1. /\ Len(s) \in Nat /\ Len(u) \in Nat
      /\ DOMAIN s = 1 .. Len(s) /\ DOMAIN u = 1 .. Len(u)
      /\ s \o u \in Seq(Msgs)
      /\ DOMAIN (s \o u) = 1 .. Len(s) + Len(u)
      /\ \A k \in 1 .. Len(s) : (s \o u)[k] = s[k]
      /\ \A k \in Len(s) + 1 .. Len(s) + Len(u) : (s \o u)[k] = u[k - Len(s)]
  OBVIOUS
<1>2. \A k \in 1 .. Len(u) : k + Len(s) \in DOMAIN (s \o u) /\ (s \o u)[k + Len(s)] = u[k]
  BY <1>1
<1>3. ToSet(s \o u) = ToSet(s) \union ToSet(u)
  <2>1. ToSet(s \o u) \subseteq ToSet(s) \union ToSet(u)
    <3> SUFFICES ASSUME NEW k \in 1 .. Len(s) + Len(u)
                 PROVE  (s \o u)[k] \in ToSet(s) \union ToSet(u)
      BY <1>1 DEF ToSet
    <3>1. CASE k \in 1 .. Len(s)
      BY <1>1, <3>1 DEF ToSet
    <3>2. CASE k \in Len(s) + 1 .. Len(s) + Len(u)
      <4>1. k - Len(s) \in 1 .. Len(u)
        BY <1>1, <3>2
      <4>2. QED
        BY <1>1, <3>2, <4>1 DEF ToSet
    <3>3. QED
      BY <1>1, <3>1, <3>2
  <2>2. ToSet(s) \subseteq ToSet(s \o u)
    <3>1. ASSUME NEW k \in DOMAIN s
          PROVE  k \in DOMAIN (s \o u) /\ (s \o u)[k] = s[k]
      BY <1>1
    <3>2. QED
      BY <3>1 DEF ToSet
  <2>3. ToSet(u) \subseteq ToSet(s \o u)
    <3>1. ASSUME NEW k \in DOMAIN u
          PROVE  \E j \in DOMAIN (s \o u) : (s \o u)[j] = u[k]
      BY <1>1, <1>2
    <3>2. QED
      BY <3>1 DEF ToSet
  <2>4. QED
    BY <2>1, <2>2, <2>3
<1>4. ASSUME IsInjective(s), IsInjective(u), \A x \in ToSet(u) : x \notin ToSet(s)
      PROVE  IsInjective(s \o u)
  <2>1. ASSUME NEW j \in 1 .. Len(s), NEW k \in 1 .. Len(u) PROVE s[j] # u[k]
    BY <1>1, <1>4 DEF ToSet
  <2>2. ASSUME NEW j \in DOMAIN (s \o u), NEW k \in DOMAIN (s \o u), (s \o u)[j] = (s \o u)[k]
        PROVE  j = k
    <3>1. j \in 1 .. Len(s) \/ j - Len(s) \in 1 .. Len(u)
      BY <1>1
    <3>2. k \in 1 .. Len(s) \/ k - Len(s) \in 1 .. Len(u)
      BY <1>1
    <3>3. CASE j \in 1 .. Len(s) /\ k \in 1 .. Len(s)
      BY <1>1, <1>4, <2>2, <3>3 DEF IsInjective
    <3>4. CASE j \in 1 .. Len(s) /\ k - Len(s) \in 1 .. Len(u)
      BY <1>1, <2>1, <2>2, <3>4
    <3>5. CASE j - Len(s) \in 1 .. Len(u) /\ k \in 1 .. Len(s)
      BY <1>1, <2>1, <2>2, <3>5
    <3>6. CASE j - Len(s) \in 1 .. Len(u) /\ k - Len(s) \in 1 .. Len(u)
      <4>1. u[j - Len(s)] = u[k - Len(s)]
        BY <1>1, <2>2, <3>6
      <4>2. j - Len(s) = k - Len(s)
        BY <1>1, <1>4, <3>6, <4>1 DEF IsInjective
      <4>3. QED
        BY <1>1, <4>2
    <3>7. QED
      BY <3>1, <3>2, <3>3, <3>4, <3>5, <3>6
  <2>3. QED
    BY <2>2 DEF IsInjective
<1>5. QED
  BY <1>1, <1>3, <1>4

\* A buffer is drained into its file, and then holds s, which is new.
LEMMA Drained ==
  ASSUME NEW T, NEW file \in [Plugins -> Seq(Msgs)],
         NEW buf \in [T -> [Plugins -> Seq(Msgs)]],
         NEW t \in T, NEW i \in Plugins, NEW s \in Seq(Msgs), NEW file2, NEW buf2
  PROVE  /\ \A j \in Plugins : Once(file, buf, T, j)
         /\ IsInjective(s) /\ \A x \in ToSet(s) : x \notin Lines(file, buf, T, i)
         /\ Drains(file, buf, T, t, i, s, file2, buf2)
         => Gains(file, buf, T, i, ToSet(s), file2, buf2)
<1>0. SUFFICES ASSUME
        \A j \in Plugins : Once(file, buf, T, j),
        IsInjective(s), \A x \in ToSet(s) : x \notin Lines(file, buf, T, i),
        file2[i] = file[i] \o buf[t][i], buf2[t][i] = s,
        \A j \in Plugins : j # i => file2[j] = file[j],
        \A u \in T, j \in Plugins : u # t \/ j # i => buf2[u][j] = buf[u][j]
      PROVE Gains(file, buf, T, i, ToSet(s), file2, buf2)
  BY DEF Drains
<1>1. buf[t] \in [Plugins -> Seq(Msgs)] /\ file[i] \in Seq(Msgs)
  OBVIOUS
<1>2. buf[t][i] \in Seq(Msgs)
  BY <1>1
<1>3. /\ file2[i] = file[i] \o buf[t][i] /\ buf2[t][i] = s
      /\ \A j \in Plugins : j # i => file2[j] = file[j] /\ \A u \in T : buf2[u][j] = buf[u][j]
      /\ \A u \in T : u # t => buf2[u][i] = buf[u][i]
  BY <1>0
<1>4. \A x \in ToSet(buf[t][i]) : x \notin ToSet(file[i])
  BY <1>0 DEF Once
<1>5. /\ ToSet(file2[i]) = ToSet(file[i]) \union ToSet(buf[t][i])
      /\ IsInjective(file2[i])
  <2>1. IsInjective(file[i]) /\ IsInjective(buf[t][i])
    BY <1>0 DEF Once
  <2>2. QED
    BY <1>1, <1>2, <1>3, <1>4, <2>1, JoinQueues
<1>6. \A x \in ToSet(s) : x \notin ToSet(file2[i])
  BY <1>0, <1>5, WhatLines
<1>7. Once(file2, buf2, T, i)
  <2>1. ASSUME NEW x \in ToSet(s)
        PROVE  \A u \in T : x \notin ToSet(buf[u][i])
    BY <1>0, WhatLines
  <2>2. /\ \A u \in T : u # t => buf2[u][i] = buf[u][i]
        /\ buf2[t][i] = s
    BY <1>0
  <2>3. /\ IsInjective(file[i])
        /\ \A u \in T : IsInjective(buf[u][i])
        /\ \A u \in T : \A x \in ToSet(buf[u][i]) :
             x \notin ToSet(file[i]) /\ \A v \in T : x \in ToSet(buf[v][i]) => v = u
    BY <1>0 DEF Once
  <2>4. \A u \in T : IsInjective(buf2[u][i])
    BY <1>0, <2>2, <2>3
  <2>5. ASSUME NEW u \in T, NEW x \in ToSet(buf2[u][i])
        PROVE  x \notin ToSet(file2[i]) /\ \A v \in T : x \in ToSet(buf2[v][i]) => v = u
    <3>1. CASE u = t
      BY <1>6, <2>1, <2>2, <2>5, <3>1
    <3>2. CASE u # t
      <4>1. x \in ToSet(buf[u][i]) /\ x \notin ToSet(s) /\ x \notin ToSet(buf[t][i])
        BY <2>1, <2>2, <2>3, <2>5, <3>2
      <4>2. x \notin ToSet(file2[i])
        BY <1>5, <2>3, <4>1
      <4>3. QED
        BY <2>2, <2>3, <4>1, <4>2
    <3>3. QED
      BY <3>1, <3>2
  <2>6. QED
    BY <1>5, <2>4, <2>5 DEF Once
<1>8. \A x : x \in Lines(file2, buf2, T, i) <=> x \in Lines(file, buf, T, i) \union ToSet(s)
  <2>1. \A x : x \in ToSet(file2[i]) <=> x \in ToSet(file[i]) \/ x \in ToSet(buf[t][i])
    BY <1>5
  <2>2. \A x : (\E u \in T : x \in ToSet(buf2[u][i])) \/ x \in ToSet(buf[t][i])
               <=> (\E u \in T : x \in ToSet(buf[u][i])) \/ x \in ToSet(s)
    BY <1>3, Zenon
  <2>3. \A x : x \in Lines(file, buf, T, i) <=>
                x \in ToSet(file[i]) \/ \E u \in T : x \in ToSet(buf[u][i])
    BY WhatLines, Zenon
  <2>4. \A x : x \in Lines(file2, buf2, T, i) <=>
                x \in ToSet(file2[i]) \/ \E u \in T : x \in ToSet(buf2[u][i])
    BY WhatLines, Zenon
  <2>5. ASSUME NEW x
        PROVE  x \in Lines(file2, buf2, T, i) <=> x \in Lines(file, buf, T, i) \union ToSet(s)
    <3> DEFINE e == \E u \in T : x \in ToSet(buf[u][i])
               e2 == \E u \in T : x \in ToSet(buf2[u][i])
    <3>1. /\ x \in Lines(file, buf, T, i) <=> x \in ToSet(file[i]) \/ e
          /\ x \in Lines(file2, buf2, T, i) <=> x \in ToSet(file2[i]) \/ e2
          /\ e2 \/ x \in ToSet(buf[t][i]) <=> e \/ x \in ToSet(s)
          /\ x \in ToSet(file2[i]) <=> x \in ToSet(file[i]) \/ x \in ToSet(buf[t][i])
      BY <2>1, <2>2, <2>3, <2>4, Zenon
    <3> HIDE DEF e, e2
    <3>2. QED
      BY <3>1
  <2>6. QED
    BY <2>5, Zenon
<1>9. Lines(file2, buf2, T, i) = Lines(file, buf, T, i) \union ToSet(s)
  BY <1>8, Zenon
<1>10. ASSUME NEW j \in Plugins, j # i
       PROVE  Once(file2, buf2, T, j) /\ Lines(file2, buf2, T, j) = Lines(file, buf, T, j)
  <2>1. file2[j] = file[j]
    BY <1>3, <1>10
  <2>2. \A u \in T : buf2[u][j] = buf[u][j]
    BY <1>3, <1>10
  <2>3. /\ Lines(file2, buf2, T, j) = Lines(file, buf, T, j)
        /\ Once(file, buf, T, j) => Once(file2, buf2, T, j)
    BY <2>1, <2>2, SameLines
  <2>4. Once(file, buf, T, j)
    BY <1>0
  <2>5. QED
    BY <2>3, <2>4
<1>11. QED
  BY <1>7, <1>9, <1>10 DEF Gains

\* A line that is new goes to the end of a buffer.
LEMMA Buffered ==
  ASSUME NEW T, NEW file \in [Plugins -> Seq(Msgs)],
         NEW buf \in [T -> [Plugins -> Seq(Msgs)]],
         NEW t \in T, NEW i \in Plugins, NEW x \in Msgs, NEW buf2
  PROVE  /\ \A j \in Plugins : Once(file, buf, T, j)
         /\ x \notin Lines(file, buf, T, i)
         /\ Buffers(buf, T, t, i, x, buf2)
         => Gains(file, buf, T, i, {x}, file, buf2)
<1>0. SUFFICES ASSUME
        \A j \in Plugins : Once(file, buf, T, j), x \notin Lines(file, buf, T, i),
        buf2[t][i] = Append(buf[t][i], x),
        \A u \in T, j \in Plugins : u # t \/ j # i => buf2[u][j] = buf[u][j]
      PROVE Gains(file, buf, T, i, {x}, file, buf2)
  BY DEF Buffers
<1>1. buf[t] \in [Plugins -> Seq(Msgs)]
  OBVIOUS
<1>2. buf[t][i] \in Seq(Msgs)
  BY <1>1
<1>3. /\ buf2[t][i] = Append(buf[t][i], x)
      /\ \A j \in Plugins : j # i => \A u \in T : buf2[u][j] = buf[u][j]
      /\ \A u \in T : u # t => buf2[u][i] = buf[u][i]
  BY <1>0
<1>4. x \notin ToSet(file[i]) /\ \A u \in T : x \notin ToSet(buf[u][i])
  BY <1>0, WhatLines
<1>5. /\ IsInjective(buf2[t][i])
      /\ ToSet(buf2[t][i]) = ToSet(buf[t][i]) \union {x}
  <2>1. IsInjective(buf[t][i])
    BY <1>0 DEF Once
  <2>2. QED
    BY <1>2, <1>3, <1>4, <2>1, AppendToQueue
<1>6. IsInjective(file[i]) /\ \A y \in ToSet(buf[t][i]) : y \notin ToSet(file[i])
  BY <1>0 DEF Once
<1>7. Once(file, buf2, T, i)
  <2>1. /\ \A u \in T : IsInjective(buf[u][i])
        /\ \A u \in T : \A y \in ToSet(buf[u][i]) :
             y \notin ToSet(file[i]) /\ \A v \in T : y \in ToSet(buf[v][i]) => v = u
    BY <1>0 DEF Once
  <2>2. \A u \in T : IsInjective(buf2[u][i])
    BY <1>3, <1>5, <2>1
  <2>3. ASSUME NEW u \in T, NEW y \in ToSet(buf2[u][i])
        PROVE  y \notin ToSet(file[i]) /\ \A v \in T : y \in ToSet(buf2[v][i]) => v = u
    <3>1. \A v \in T : y \in ToSet(buf2[v][i]) <=> y \in ToSet(buf[v][i]) \/ (v = t /\ y = x)
      BY <1>3, <1>5
    <3>2. QED
      BY <1>4, <2>1, <2>3, <3>1
  <2>4. QED
    BY <1>6, <2>2, <2>3 DEF Once
<1>8. \A y : y \in Lines(file, buf2, T, i) <=> y \in Lines(file, buf, T, i) \union {x}
  <2>1. \A y : y \in ToSet(buf2[t][i]) <=> y \in ToSet(buf[t][i]) \/ y = x
    BY <1>5
  <2>2. \A y : (\E u \in T : y \in ToSet(buf2[u][i]))
               <=> (\E u \in T : y \in ToSet(buf[u][i])) \/ y = x
    BY <1>3, <2>1, Zenon
  <2>3. \A y : y \in Lines(file, buf, T, i) <=>
                y \in ToSet(file[i]) \/ \E u \in T : y \in ToSet(buf[u][i])
    BY WhatLines, Zenon
  <2>4. \A y : y \in Lines(file, buf2, T, i) <=>
                y \in ToSet(file[i]) \/ \E u \in T : y \in ToSet(buf2[u][i])
    BY WhatLines, Zenon
  <2>5. QED
    BY <2>2, <2>3, <2>4
<1>9. Lines(file, buf2, T, i) = Lines(file, buf, T, i) \union {x}
  BY <1>8, Zenon
<1>10. ASSUME NEW j \in Plugins, j # i
       PROVE  Once(file, buf2, T, j) /\ Lines(file, buf2, T, j) = Lines(file, buf, T, j)
  <2>1. file[j] = file[j]
    BY <1>3, <1>10
  <2>2. \A u \in T : buf2[u][j] = buf[u][j]
    BY <1>3, <1>10
  <2>3. /\ Lines(file, buf2, T, j) = Lines(file, buf, T, j)
        /\ Once(file, buf, T, j) => Once(file, buf2, T, j)
    BY <2>1, <2>2, SameLines
  <2>4. Once(file, buf, T, j)
    BY <1>0
  <2>5. QED
    BY <2>3, <2>4
<1>11. QED
  BY <1>7, <1>9, <1>10 DEF Gains

\* A thread stops and gives its buffers up.
LEMMA GivenUp ==
  ASSUME NEW T, NEW file \in [Plugins -> Seq(Msgs)],
         NEW buf \in [T -> [Plugins -> Seq(Msgs)]],
         \A j \in Plugins : Once(file, buf, T, j),
         NEW t \in T, NEW buf2,
         \A j \in Plugins : buf2[t][j] = <<>> /\ \A u \in T : u # t => buf2[u][j] = buf[u][j]
  PROVE  \A j \in Plugins :
           /\ Once(file, buf2, T, j)
           /\ Lines(file, buf2, T, j) \subseteq Lines(file, buf, T, j)
<1> SUFFICES ASSUME NEW j \in Plugins
             PROVE  Once(file, buf2, T, j) /\ Lines(file, buf2, T, j) \subseteq Lines(file, buf, T, j)
  OBVIOUS
<1>1. buf2[t][j] = <<>> /\ \A u \in T : u # t => buf2[u][j] = buf[u][j]
  OBVIOUS
<1>2. Once(file, buf2, T, j)
  BY <1>1, EmptyQueue DEF Once
<1>3. \A x : x \in Lines(file, buf2, T, j) => x \in Lines(file, buf, T, j)
  <2>1. \A x : x \in Lines(file, buf, T, j) <=>
                x \in ToSet(file[j]) \/ \E u \in T : x \in ToSet(buf[u][j])
    BY WhatLines, ZenonT(60)
  <2>2. \A x : x \in Lines(file, buf2, T, j) <=>
                x \in ToSet(file[j]) \/ \E u \in T : x \in ToSet(buf2[u][j])
    BY WhatLines, Zenon
  <2>3. QED
    BY <1>1, EmptyQueue, <2>1, <2>2
<1>4. QED
  BY <1>2, <1>3, Zenon

\* The same for the steps as the program takes them: a thread logs a packet, drains
\* a buffer, or gives its buffers up.
LEMMA LogsOne ==
  ASSUME NEW T, NEW file \in [Plugins -> Seq(Msgs)],
         NEW buf \in [T -> [Plugins -> Seq(Msgs)]],
         NEW t \in T, NEW i \in Plugins, NEW x \in Msgs, NEW file2, NEW buf2
  PROVE  /\ \A j \in Plugins : Once(file, buf, T, j)
         /\ x \notin Lines(file, buf, T, i)
         /\ \/ /\ file2 = [file EXCEPT ![i] = @ \o buf[t][i]]
               /\ buf2 = [buf EXCEPT ![t][i] = <<x>>]
            \/ /\ file2 = file
               /\ buf2 = [buf EXCEPT ![t][i] = Append(@, x)]
         => Gains(file, buf, T, i, {x}, file2, buf2)
<1>0. SUFFICES ASSUME \A j \in Plugins : Once(file, buf, T, j),
                      x \notin Lines(file, buf, T, i)
               PROVE  \/ /\ file2 = [file EXCEPT ![i] = @ \o buf[t][i]]
                         /\ buf2 = [buf EXCEPT ![t][i] = <<x>>]
                      \/ /\ file2 = file
                         /\ buf2 = [buf EXCEPT ![t][i] = Append(@, x)]
                      => Gains(file, buf, T, i, {x}, file2, buf2)
  OBVIOUS
<1>1. ASSUME file2 = [file EXCEPT ![i] = @ \o buf[t][i]], buf2 = [buf EXCEPT ![t][i] = <<x>>]
      PROVE  Gains(file, buf, T, i, {x}, file2, buf2)
  <2>1. Drains(file, buf, T, t, i, <<x>>, file2, buf2)
    BY <1>1 DEF Drains
  <2>2. <<x>> \in Seq(Msgs) /\ IsInjective(<<x>>) /\ ToSet(<<x>>) = {x}
    BY DEF IsInjective, ToSet
  <2>3. \A y \in ToSet(<<x>>) : y \notin Lines(file, buf, T, i)
    BY <1>0, <2>2
  <2>4. Gains(file, buf, T, i, ToSet(<<x>>), file2, buf2)
    BY <1>0, <2>1, <2>2, <2>3, Drained
  <2>5. QED
    BY <2>2, <2>4
<1>2. ASSUME file2 = file, buf2 = [buf EXCEPT ![t][i] = Append(@, x)]
      PROVE  Gains(file, buf, T, i, {x}, file2, buf2)
  <2>1. Buffers(buf, T, t, i, x, buf2)
    BY <1>2 DEF Buffers
  <2>2. Gains(file, buf, T, i, {x}, file, buf2)
    BY <1>0, <2>1, Buffered
  <2>3. QED
    BY <1>2, <2>2
<1>3. QED
  BY <1>1, <1>2

LEMMA DrainsOne ==
  ASSUME NEW T, NEW file \in [Plugins -> Seq(Msgs)],
         NEW buf \in [T -> [Plugins -> Seq(Msgs)]],
         NEW t \in T, NEW i \in Plugins, NEW file2, NEW buf2
  PROVE  /\ \A j \in Plugins : Once(file, buf, T, j)
         /\ file2 = [file EXCEPT ![i] = @ \o buf[t][i]]
         /\ buf2 = [buf EXCEPT ![t][i] = <<>>]
         => Gains(file, buf, T, i, {}, file2, buf2)
<1>0. SUFFICES ASSUME \A j \in Plugins : Once(file, buf, T, j),
                      file2 = [file EXCEPT ![i] = @ \o buf[t][i]],
                      buf2 = [buf EXCEPT ![t][i] = <<>>]
               PROVE  Gains(file, buf, T, i, {}, file2, buf2)
  OBVIOUS
<1>1. Drains(file, buf, T, t, i, <<>>, file2, buf2)
  BY <1>0 DEF Drains
<1>2. <<>> \in Seq(Msgs) /\ \A x \in ToSet(<<>>) : x \notin Lines(file, buf, T, i)
  BY EmptyQueue
<1>3. \A j \in Plugins : Once(file, buf, T, j)
  BY <1>0
<1>4. Gains(file, buf, T, i, ToSet(<<>>), file2, buf2)
  BY <1>1, <1>2, <1>3, EmptyQueue, Drained
<1>5. QED
  BY <1>4, EmptyQueue

LEMMA GivesUp ==
  ASSUME NEW T, NEW file \in [Plugins -> Seq(Msgs)],
         NEW buf \in [T -> [Plugins -> Seq(Msgs)]], NEW t \in T, NEW buf2
  PROVE  /\ \A j \in Plugins : Once(file, buf, T, j)
         /\ buf2 = [buf EXCEPT ![t] = [j \in Plugins |-> <<>>]]
         => \A j \in Plugins :
              /\ Once(file, buf2, T, j)
              /\ Lines(file, buf2, T, j) \subseteq Lines(file, buf, T, j)
<1>0. SUFFICES ASSUME \A j \in Plugins : Once(file, buf, T, j),
                      buf2 = [buf EXCEPT ![t] = [j \in Plugins |-> <<>>]]
               PROVE  \A j \in Plugins :
                        /\ Once(file, buf2, T, j)
                        /\ Lines(file, buf2, T, j) \subseteq Lines(file, buf, T, j)
  OBVIOUS
<1>1. \A j \in Plugins : buf2[t][j] = <<>> /\ \A u \in T : u # t => buf2[u][j] = buf[u][j]
  BY <1>0
<1>2. QED
  BY <1>0, <1>1, GivenUp

-----------------------------------------------------------------------------
(* The invariant.                                                          *)

\* What masters and workers have logged for a plugin.
Arrived(i) == Lines(temp, twb, Masters, i)
Logged(i) == Lines(json, jwb, Workers, i)

\* A packet that no master has taken yet.
Upstream(x) ==
  \/ x \in net
  \/ \E r \in Receivers : rbuf[r] # None /\ rbuf[r] = x
  \/ \E m \in Masters : x \in ToSet(rec_ring[m])

Alive == \A m \in Masters : mpc[m] # "done"

\* What a master logs came out of its ring just before, and goes to the plugin
\* that knows its sender.
TempInv ==
  \A i \in Plugins :
    /\ Once(temp, twb, Masters, i)
    /\ \A x \in Arrived(i) : PluginOf[x] = i /\ ~ Upstream(x)

\* A packet stays with its plugin, and a worker frees what it logs.
JsonInv ==
  \A i \in Plugins :
    /\ Once(json, jwb, Workers, i)
    /\ \A x \in Logged(i) : PluginOf[x] = i /\ x \in freed
    /\ \A w \in Workers, m \in Masters : \A x \in ToSet(ring_rxs[i][w][m]) : PluginOf[x] = i

\* As long as no master has given its buffers up, what it sends, and what went to
\* a worker, is still among the temp lines.
AliveInv ==
  Alive =>
    /\ \A i \in Plugins : \A x \in Logged(i) : x \in Arrived(i)
    /\ \A i \in Plugins, w \in Workers, m \in Masters :
         \A x \in ToSet(ring_rxs[i][w][m]) : x \in Arrived(i)
    /\ \A m \in Masters : mbuf[m] # None => mbuf[m] \in Arrived(PluginOf[mbuf[m]])

LogInv == OwnerInv /\ TempInv /\ JsonInv /\ AliveInv

\* Steps that leave the lines alone.
LEMMA TempKept ==
  ASSUME TempInv, UNCHANGED <<temp, twb>>, \A x : Upstream(x)' => Upstream(x)
  PROVE  TempInv'
  BY DEF TempInv, Arrived

LEMMA JsonKept ==
  ASSUME JsonInv, UNCHANGED <<json, jwb, ring_rxs>>, freed \subseteq freed'
  PROVE  JsonInv'
  BY DEF JsonInv, Logged

LEMMA AliveKept ==
  ASSUME AliveInv, UNCHANGED <<temp, twb, json, jwb, ring_rxs, mbuf>>, Alive' => Alive
  PROVE  AliveInv'
  BY DEF AliveInv, Arrived, Logged

\* A packet moves on among the receivers, or is dropped there.
LEMMA ReceiveLogs ==
  ASSUME LogInv, NEW r \in Receivers, Receive(r)
  PROVE  TempInv' /\ JsonInv' /\ AliveInv'
<1>1. UNCHANGED <<temp, twb, json, jwb, ring_rxs, mbuf, mpc>> /\ freed \subseteq freed'
  BY DEF Receive, Recv, PassOn, Drop, StopReceiving, masters, workers, rings
<1>2. \A x : Upstream(x)' => Upstream(x)
  <2>1. ASSUME NEW msg \in net, Recv(r, msg) PROVE \A x : Upstream(x)' => Upstream(x)
    BY <2>1 DEF Recv, Upstream, LogInv, OwnerInv, TypeOK, rings
  <2>2. ASSUME NEW m \in Masters, PassOn(r, m) PROVE \A x : Upstream(x)' => Upstream(x)
    <3>1. /\ \A s \in Receivers : rbuf'[s] = IF s = r THEN None ELSE rbuf[s]
          /\ rbuf[r] \in Msgs /\ net' = net
      BY <2>2 DEF PassOn, LogInv, OwnerInv, TypeOK
    <3>2. ASSUME NEW n \in Masters
          PROVE  \A x : x \in ToSet(rec_ring'[n]) => x = rbuf[r] \/ x \in ToSet(rec_ring[n])
      <4>1. \/ rec_ring'[n] = rec_ring[n]
            \/ rec_ring'[n] = Append(rec_ring[n], rbuf[r])
        BY <2>2 DEF PassOn, LogInv, OwnerInv, TypeOK
      <4>2. rec_ring[n] \in Seq(Msgs)
        BY DEF LogInv, OwnerInv, TypeOK
      <4>3. QED
        BY <3>1, <4>1, <4>2 DEF ToSet
    <3>3. QED
      BY <3>1, <3>2, PipelineAssumption DEF Upstream
  <2>3. CASE StopReceiving(r)
    BY <2>3 DEF StopReceiving, Upstream, rings
  <2>4. QED
    BY <2>1, <2>2, <2>3 DEF Receive
<1>3. Alive' => Alive
  BY <1>1 DEF Alive
<1>4. QED
  BY <1>1, <1>2, <1>3, TempKept, JsonKept, AliveKept DEF LogInv

\* Steps of a master that take nothing and log nothing.
LEMMA MasterKept ==
  ASSUME LogInv, UNCHANGED <<receivers, workers, rings, net, freed>>,
         UNCHANGED <<temp, twb, mbuf>>, Alive' => Alive
  PROVE  TempInv' /\ JsonInv' /\ AliveInv'
<1>1. \A x : Upstream(x)' => Upstream(x)
  BY DEF Upstream, receivers, rings
<1>2. QED
  BY <1>1, TempKept, JsonKept, AliveKept DEF LogInv, workers, rings

\* The packet a master takes is new to the temp lines, and nobody else is upstream
\* with it any more.
LEMMA TakeLogs ==
  ASSUME LogInv, NEW m \in Masters, Take(m)
  PROVE  TempInv' /\ JsonInv' /\ AliveInv'
<1>1. TypeOK /\ Holding /\ SingleOwner
  BY DEF LogInv, OwnerInv
<1>2. /\ rec_ring[m] \in Seq(Msgs) /\ rec_ring[m] # <<>>
      /\ rec_ring' = [rec_ring EXCEPT ![m] = Tail(rec_ring[m])]
      /\ UNCHANGED <<net, freed, rbuf, ring_rxs, json, jwb>>
  BY <1>1 DEF Take, TypeOK, receivers, workers
<1>3. PICK x \in Msgs : x = Head(rec_ring[m])
  BY <1>2
<1>4. /\ RecRing(m) \in Ring /\ RingAt(RecRing(m)) = rec_ring[m]
      /\ \A n \in Masters : RecRing(n) \in Ring /\ RingAt(RecRing(n)) = rec_ring[n]
      /\ \A n \in Masters : rec_ring'[n] = IF n = m THEN Tail(rec_ring[m]) ELSE rec_ring[n]
  BY <1>1, <1>2 DEF RecRing, Ring, RingAt, TypeOK
<1>5. /\ IsInjective(rec_ring[m])
      /\ ToSet(Tail(rec_ring[m])) = ToSet(rec_ring[m]) \ {x}
      /\ x \in ToSet(rec_ring[m])
  <2>1. IsInjective(rec_ring[m])
    BY <1>1, <1>4 DEF SingleOwner
  <2>2. QED
    BY <1>2, <1>3, <2>1, TailOfQueue
<1>6. /\ x \notin net \union freed
      /\ \A r \in Receivers : rbuf[r] # x
      /\ \A n \in Masters : x \in ToSet(rec_ring[n]) => n = m
  <2>1. <<"ring", RecRing(m)>> \in Pointers(x)
    BY <1>4, <1>5, WhoPoints
  <2>2. \A n \in Masters : x \in ToSet(rec_ring[n]) => RecRing(n) = RecRing(m)
    BY <1>1, <1>4, <2>1, OnlyOwner
  <2>3. x \notin net \union freed /\ \A r \in Receivers : rbuf[r] # x
    BY <1>1, <2>1, OnlyOwner
  <2>4. \A n \in Masters : RecRing(n) = RecRing(m) => n = m
    BY DEF RecRing
  <2>5. QED
    BY <2>2, <2>3, <2>4
<1>7. Upstream(x) /\ ~ Upstream(x)' /\ \A y : Upstream(y)' => Upstream(y)
  <2>1. \A n \in Masters : \A y \in ToSet(rec_ring'[n]) : y \in ToSet(rec_ring[n]) /\ y # x
    BY <1>4, <1>5, <1>6
  <2>2. QED
    BY <1>2, <1>5, <1>6, <2>1 DEF Upstream
<1>8. JsonInv'
  BY <1>2, JsonKept DEF LogInv
<1>9. CASE PluginOf[x] = 0
  <2>1. UNCHANGED masters
    BY <1>3, <1>9 DEF Take
  <2>2. Alive' => Alive
    BY <2>1 DEF Alive, masters
  <2>3. QED
    BY <1>2, <1>7, <1>8, <2>1, <2>2, TempKept, AliveKept DEF LogInv, masters
<1>10. CASE PluginOf[x] # 0
  <2>1. PICK i \in Plugins : i = PluginOf[x]
    BY <1>10, PipelineAssumption
  <2>2. /\ LogTemp(m, i, x)
        /\ mbuf' = [mbuf EXCEPT ![m] = x]
        /\ mpc' = [mpc EXCEPT ![m] = "send"] /\ mpc[m] = "top"
    BY <1>3, <1>10, <2>1 DEF Take
  <2>3. /\ temp \in [Plugins -> Seq(Msgs)] /\ twb \in [Masters -> [Plugins -> Seq(Msgs)]]
        /\ mbuf \in [Masters -> Msgs \union {None}]
        /\ mpc \in [Masters -> {"top", "send", "sweep", "done"}]
    BY <1>1 DEF TypeOK
  <2>4. \A j \in Plugins : Once(temp, twb, Masters, j)
    BY DEF LogInv, TempInv
  <2>5. x \notin Lines(temp, twb, Masters, i)
    BY <1>7 DEF LogInv, TempInv, Arrived
  <2>6. \/ /\ temp' = [temp EXCEPT ![i] = @ \o twb[m][i]]
           /\ twb' = [twb EXCEPT ![m][i] = <<x>>]
        \/ /\ temp' = temp
           /\ twb' = [twb EXCEPT ![m][i] = Append(@, x)]
    BY <2>2 DEF LogTemp
  <2>7. Gains(temp, twb, Masters, i, {x}, temp', twb')
    BY <2>3, <2>4, <2>5, <2>6, LogsOne
  <2>8. \A j \in Plugins :
          /\ Once(temp', twb', Masters, j)
          /\ \A y : y \in Arrived(j)' <=> y \in Arrived(j) \/ (j = i /\ y = x)
    BY <2>7 DEF Gains, Arrived
  <2>9. TempInv'
    BY <1>7, <2>1, <2>8 DEF LogInv, TempInv
  <2>10. Alive' => Alive
    BY <2>2, <2>3 DEF Alive
  <2>11. AliveInv'
    <3>1. \A n \in Masters : mbuf'[n] = IF n = m THEN x ELSE mbuf[n]
      BY <2>2, <2>3
    <3>2. \A n \in Masters : mbuf[n] # None => PluginOf[mbuf[n]] \in Plugins
      BY <1>1, <2>3, PipelineAssumption DEF Holding
    <3>3. \A j \in Plugins : Logged(j)' = Logged(j)
      BY <1>2 DEF Logged
    <3>4. QED
      BY <1>2, <2>1, <2>8, <2>10, <3>1, <3>2, <3>3 DEF LogInv, AliveInv
  <2>12. QED
    BY <1>8, <2>9, <2>11
<1>11. QED
  BY <1>9, <1>10

\* A sweep drains one buffer; the last one of a master gives up the others.
LEMMA SweepLogs ==
  ASSUME LogInv, NEW m \in Masters, Sweep(m)
  PROVE  TempInv' /\ JsonInv' /\ AliveInv'
<1>1. PICK i \in Plugins : i = mi[m]
  BY DEF LogInv, OwnerInv, TypeOK
<1>2. /\ temp \in [Plugins -> Seq(Msgs)] /\ twb \in [Masters -> [Plugins -> Seq(Msgs)]]
      /\ mpc \in [Masters -> {"top", "send", "sweep", "done"}]
  BY DEF LogInv, OwnerInv, TypeOK
<1>3. /\ temp' = [temp EXCEPT ![i] = @ \o twb[m][i]]
      /\ UNCHANGED <<receivers, workers, rings, net, freed, mbuf>>
  BY <1>1 DEF Sweep
<1>4. \A j \in Plugins : Once(temp, twb, Masters, j)
  BY DEF LogInv, TempInv
<1>5. \A x : Upstream(x)' => Upstream(x)
  BY <1>3 DEF Upstream, receivers, rings
<1>6. JsonInv'
  BY <1>3, JsonKept DEF LogInv, workers, rings
<1> DEFINE cleared == [twb EXCEPT ![m][i] = <<>>]
<1>7. Gains(temp, twb, Masters, i, {}, temp', cleared)
  BY <1>2, <1>3, <1>4, DrainsOne
<1>8. \A j \in Plugins :
        /\ Once(temp', cleared, Masters, j)
        /\ \A x : x \in Lines(temp', cleared, Masters, j) <=> x \in Arrived(j)
  BY <1>7 DEF Gains, Arrived
<1>9. CASE kill_signal /\ rec_ring[m] = <<>>
  <2>1. mpc' = [mpc EXCEPT ![m] = "done"] /\ twb' = [twb EXCEPT ![m] = [j \in Plugins |-> <<>>]]
    BY <1>9 DEF Sweep
  <2>2. cleared \in [Masters -> [Plugins -> Seq(Msgs)]] /\ temp' \in [Plugins -> Seq(Msgs)]
    <3>1. <<>> \in Seq(Msgs)
      OBVIOUS
    <3>2. cleared \in [Masters -> [Plugins -> Seq(Msgs)]]
      BY <1>2, <3>1, TwoLevels, Zenon
    <3>3. QED
      BY <1>2, <1>3, <3>2
  <2>3. twb' = [cleared EXCEPT ![m] = [j \in Plugins |-> <<>>]]
    BY <1>2, <2>1
  <2> HIDE DEF cleared
  <2>4. \A j \in Plugins :
          /\ Once(temp', twb', Masters, j)
          /\ Lines(temp', twb', Masters, j) \subseteq Lines(temp', cleared, Masters, j)
    BY <1>8, <2>2, <2>3, GivesUp
  <2>5. \A j \in Plugins :
          /\ Once(temp', twb', Masters, j)
          /\ \A x : x \in Arrived(j)' => x \in Arrived(j)
    BY <1>8, <2>4 DEF Arrived
  <2>6. TempInv'
    BY <1>5, <2>5 DEF LogInv, TempInv
  <2>7. ~ Alive'
    BY <1>2, <2>1 DEF Alive
  <2>8. QED
    BY <1>6, <2>6, <2>7 DEF AliveInv
<1>10. CASE ~ (kill_signal /\ rec_ring[m] = <<>>)
  <2>1. twb' = cleared
    BY <1>1, <1>10 DEF Sweep
  <2> HIDE DEF cleared
  <2>2. \A j \in Plugins :
          /\ Once(temp', twb', Masters, j)
          /\ \A x : x \in Arrived(j)' <=> x \in Arrived(j)
    BY <1>8, <2>1 DEF Arrived
  <2>3. TempInv'
    BY <1>5, <2>2 DEF LogInv, TempInv
  <2>4. Alive' => Alive
    BY <1>2, <1>10 DEF Alive, Sweep, NextPlugin, Continue
  <2>5. AliveInv'
    <3>1. \A n \in Masters : mbuf[n] # None => PluginOf[mbuf[n]] \in Plugins
      BY PipelineAssumption DEF LogInv, OwnerInv, TypeOK, Holding
    <3>2. \A j \in Plugins : Logged(j)' = Logged(j)
      BY <1>3 DEF Logged, workers
    <3>3. QED
      BY <1>3, <2>2, <2>4, <3>1, <3>2 DEF LogInv, AliveInv, rings
  <2>6. QED
    BY <1>6, <2>3, <2>5
<1>11. QED
  BY <1>9, <1>10

\* What a master sends to a worker of the plugin is among the temp lines.
LEMMA SendLogs ==
  ASSUME LogInv, NEW m \in Masters, NEW w \in Workers, NEW due \in BOOLEAN, Send(m, w, due)
  PROVE  TempInv' /\ JsonInv' /\ AliveInv'
<1>1. PICK x \in Msgs : x = mbuf[m] /\ PluginOf[x] # 0
  BY DEF Send, LogInv, OwnerInv, Holding, TypeOK
<1>2. PICK i \in Plugins : i = PluginOf[x]
  BY <1>1, PipelineAssumption
<1>3. /\ \A n \in Masters : mbuf'[n] = IF n = m THEN None ELSE mbuf[n]
      /\ UNCHANGED <<net, rbuf, rec_ring, temp, twb, json, jwb>>
      /\ freed \subseteq freed'
  BY DEF Send, Drop, LogInv, OwnerInv, TypeOK, receivers, workers
<1>4. ring_rxs \in [Plugins -> [Workers -> [Masters -> Seq(Msgs)]]]
  BY DEF LogInv, OwnerInv, TypeOK
<1>5. ASSUME NEW a \in Plugins, NEW b \in Workers, NEW c \in Masters
      PROVE  \A y \in ToSet(ring_rxs'[a][b][c]) :
               y \in ToSet(ring_rxs[a][b][c]) \/ (a = i /\ y = x)
  <2> DEFINE s == Append(ring_rxs[i][w][m], x)
  <2>1. ring_rxs' = ring_rxs \/ ring_rxs' = [ring_rxs EXCEPT ![i][w][m] = s]
    BY <1>1, <1>2 DEF Send
  <2>2. ring_rxs[a] \in [Workers -> [Masters -> Seq(Msgs)]]
        /\ ring_rxs[i] \in [Workers -> [Masters -> Seq(Msgs)]]
    BY <1>4
  <2>3. ring_rxs[a][b][c] \in Seq(Msgs) /\ ring_rxs[i][w][m] \in Seq(Msgs)
    BY <2>2
  <2>4. s \in Seq(Msgs) /\ \A y \in ToSet(s) : y \in ToSet(ring_rxs[i][w][m]) \/ y = x
    BY <2>3 DEF ToSet
  <2> HIDE DEF s
  <2>5. ring_rxs'[a][b][c] = ring_rxs[a][b][c]
        \/ (a = i /\ b = w /\ c = m /\ ring_rxs'[a][b][c] = s)
    BY <1>4, <2>1, SMTT(30)
  <2>6. QED
    BY <2>4, <2>5
<1>6. \A y : Upstream(y)' => Upstream(y)
  BY <1>3 DEF Upstream
<1>7. TempInv'
  BY <1>3, <1>6, TempKept DEF LogInv
<1>8. \A j \in Plugins : Logged(j)' = Logged(j) /\ Arrived(j)' = Arrived(j)
  BY <1>3 DEF Logged, Arrived
<1>9. JsonInv'
  BY <1>2, <1>3, <1>5, <1>8 DEF LogInv, JsonInv, Logged
<1>10. Alive' => Alive
  BY DEF Alive, Send, Continue, LogInv, OwnerInv, TypeOK
<1>11. AliveInv'
  <2>1. Alive => x \in Arrived(i)
    BY <1>1, <1>2, PipelineAssumption DEF LogInv, AliveInv
  <2>2. \A n \in Masters : mbuf[n] # None => PluginOf[mbuf[n]] \in Plugins
    BY PipelineAssumption DEF LogInv, OwnerInv, TypeOK, Holding
  <2>3. QED
    BY <1>3, <1>5, <1>8, <1>10, <2>1, <2>2, SMTT(30) DEF LogInv, AliveInv
<1>12. QED
  BY <1>7, <1>9, <1>11

\* A packet that a worker takes out of a ring has no json line yet, gets one, and is
\* freed.
LEMMA PollMoves ==
  ASSUME LogInv, NEW w \in Workers, Poll(w), CurrentRing(w) # <<>>
  PROVE  \E i \in Plugins, m \in Masters, x \in Msgs :
           /\ i = wi[w] /\ x \notin freed /\ freed' = freed \union {x}
           /\ x \in ToSet(ring_rxs[i][w][m])
           /\ \A a \in Plugins, b \in Workers, c \in Masters :
                \A y \in ToSet(ring_rxs'[a][b][c]) : y \in ToSet(ring_rxs[a][b][c])
           /\ \A j \in Plugins :
                /\ Once(json', jwb', Workers, j)
                /\ \A y : y \in Logged(j)' <=> y \in Logged(j) \/ (j = i /\ y = x)
<1>1. PICK i \in Plugins, m \in Masters : i = wi[w] /\ m = wm[w]
  BY DEF LogInv, OwnerInv, TypeOK
<1>2. ring_rxs \in [Plugins -> [Workers -> [Masters -> Seq(Msgs)]]]
  BY DEF LogInv, OwnerInv, TypeOK
<1>3. ring_rxs[i] \in [Workers -> [Masters -> Seq(Msgs)]]
  BY <1>2
<1>4. ring_rxs[i][w][m] \in Seq(Msgs) /\ ring_rxs[i][w][m] # <<>>
  BY <1>1, <1>3 DEF CurrentRing
<1>5. PICK x \in Msgs : x = Head(ring_rxs[i][w][m])
  BY <1>4
<1> DEFINE s == Tail(ring_rxs[i][w][m])
<1>6. /\ ring_rxs' = [ring_rxs EXCEPT ![i][w][m] = s]
      /\ freed' = freed \union {x} /\ LogJson(w, x)
  BY <1>1, <1>5 DEF Poll, CurrentRing
<1>7. RxRing(i, w, m) \in Ring /\ RingAt(RxRing(i, w, m)) = ring_rxs[i][w][m]
  BY DEF RxRing, Ring, RingAt
<1>8. x \in ToSet(ring_rxs[i][w][m]) /\ \A y \in ToSet(s) : y \in ToSet(ring_rxs[i][w][m])
  BY <1>4, <1>5, <1>7, TailOfQueue DEF LogInv, OwnerInv, SingleOwner
<1> HIDE DEF s
<1>9. x \notin freed
  <2>1. <<"ring", RxRing(i, w, m)>> \in Pointers(x)
    BY <1>7, <1>8, WhoPoints
  <2>2. QED
    BY <2>1, OnlyOwner DEF LogInv, OwnerInv
<1>10. ASSUME NEW a \in Plugins, NEW b \in Workers, NEW c \in Masters
       PROVE  \A y \in ToSet(ring_rxs'[a][b][c]) : y \in ToSet(ring_rxs[a][b][c])
  <2>1. ring_rxs'[a][b][c] = ring_rxs[a][b][c]
        \/ (a = i /\ b = w /\ c = m /\ ring_rxs'[a][b][c] = s)
    BY <1>2, <1>6
  <2>2. QED
    BY <1>8, <2>1
<1>11. json \in [Plugins -> Seq(Msgs)] /\ jwb \in [Workers -> [Plugins -> Seq(Msgs)]]
  BY DEF LogInv, OwnerInv, TypeOK
<1>12. \A j \in Plugins : Once(json, jwb, Workers, j)
  BY DEF LogInv, JsonInv
<1>13. x \notin Lines(json, jwb, Workers, i)
  BY <1>9 DEF LogInv, JsonInv, Logged
<1>14. \/ /\ json' = [json EXCEPT ![i] = @ \o jwb[w][i]]
          /\ jwb' = [jwb EXCEPT ![w][i] = <<x>>]
       \/ /\ json' = json
          /\ jwb' = [jwb EXCEPT ![w][i] = Append(@, x)]
  BY <1>1, <1>6 DEF LogJson
<1>15. Gains(json, jwb, Workers, i, {x}, json', jwb')
  BY <1>11, <1>12, <1>13, <1>14, LogsOne
<1>16. \A j \in Plugins :
         /\ Once(json', jwb', Workers, j)
         /\ \A y : y \in Logged(j)' <=> y \in Logged(j) \/ (j = i /\ y = x)
  BY <1>15 DEF Gains, Logged
<1>17. QED
  BY <1>1, <1>6, <1>8, <1>9, <1>10, <1>16

LEMMA PollLogs ==
  ASSUME LogInv, NEW w \in Workers, Poll(w)
  PROVE  TempInv' /\ JsonInv' /\ AliveInv'
<1>1. UNCHANGED <<net, receivers, masters, rec_ring>>
  BY DEF Poll
<1>2. (\A x : Upstream(x)' => Upstream(x)) /\ (Alive' => Alive)
  BY <1>1 DEF Upstream, Alive, receivers, masters
<1>3. TempInv'
  BY <1>1, <1>2, TempKept DEF LogInv, masters
<1>4. CASE CurrentRing(w) = <<>>
  <2>1. UNCHANGED <<ring_rxs, freed, jwb, json>>
    BY <1>4 DEF Poll
  <2>2. QED
    BY <1>1, <1>2, <1>3, <2>1, JsonKept, AliveKept DEF LogInv, masters
<1>5. CASE CurrentRing(w) # <<>>
  <2>1. PICK i \in Plugins, m \in Masters, x \in Msgs :
          /\ i = wi[w] /\ x \notin freed /\ freed' = freed \union {x}
          /\ x \in ToSet(ring_rxs[i][w][m])
          /\ \A a \in Plugins, b \in Workers, c \in Masters :
               \A y \in ToSet(ring_rxs'[a][b][c]) : y \in ToSet(ring_rxs[a][b][c])
          /\ \A j \in Plugins :
               /\ Once(json', jwb', Workers, j)
               /\ \A y : y \in Logged(j)' <=> y \in Logged(j) \/ (j = i /\ y = x)
    BY <1>5, PollMoves
  <2>2. PluginOf[x] = i /\ (Alive => x \in Arrived(i))
    BY <2>1 DEF LogInv, JsonInv, AliveInv
  <2>3. JsonInv'
    <3>1. ASSUME NEW j \in Plugins, NEW y \in Logged(j)' PROVE PluginOf[y] = j /\ y \in freed'
      BY <2>1, <2>2, <3>1 DEF LogInv, JsonInv
    <3>2. ASSUME NEW a \in Plugins, NEW b \in Workers, NEW c \in Masters
          PROVE  \A y \in ToSet(ring_rxs'[a][b][c]) : PluginOf[y] = a
      BY <2>1 DEF LogInv, JsonInv
    <3>3. QED
      BY <2>1, <3>1, <3>2 DEF JsonInv
  <2>4. AliveInv'
    <3>1. \A j \in Plugins : Arrived(j)' = Arrived(j)
      BY <1>1 DEF Arrived, masters
    <3>2. mbuf' = mbuf
      BY <1>1 DEF masters
    <3>3. \A n \in Masters : mbuf[n] # None => PluginOf[mbuf[n]] \in Plugins
      BY PipelineAssumption DEF LogInv, OwnerInv, TypeOK, Holding
    <3>4. QED
      BY <1>2, <2>1, <2>2, <3>1, <3>2, <3>3 DEF LogInv, AliveInv
  <2>5. QED
    BY <1>3, <2>3, <2>4
<1>6. QED
  BY <1>4, <1>5

\* A worker drains a buffer, or stops and gives its buffers up.
LEMMA WorkerKept ==
  ASSUME LogInv, UNCHANGED <<net, freed, receivers, masters, rings>>,
         \A j \in Plugins :
           Once(json', jwb', Workers, j) /\ Lines(json', jwb', Workers, j) \subseteq Logged(j)
  PROVE  TempInv' /\ JsonInv' /\ AliveInv'
<1>1. (\A x : Upstream(x)' => Upstream(x)) /\ (Alive' => Alive)
  BY DEF Upstream, Alive, receivers, masters, rings
<1>2. TempInv'
  BY <1>1, TempKept DEF LogInv, masters
<1>3. \A j \in Plugins : Once(json', jwb', Workers, j) /\ \A x \in Logged(j)' : x \in Logged(j)
  BY DEF Logged
<1>4. JsonInv'
  BY <1>3 DEF LogInv, JsonInv, rings
<1>5. AliveInv'
  <2>1. \A j \in Plugins : Arrived(j)' = Arrived(j)
    BY DEF Arrived, masters
  <2>2. \A n \in Masters : mbuf[n] # None => PluginOf[mbuf[n]] \in Plugins
    BY PipelineAssumption DEF LogInv, OwnerInv, TypeOK, Holding
  <2>3. QED
    BY <1>1, <1>3, <2>1, <2>2 DEF LogInv, AliveInv, masters, rings
<1>6. QED
  BY <1>2, <1>4, <1>5

LEMMA GoOnLines ==
  ASSUME LogInv, NEW w \in Workers, NEW report \in BOOLEAN, NEW flush \in BOOLEAN,
         GoOn(w, report, flush)
  PROVE  \A j \in Plugins :
           Once(json', jwb', Workers, j) /\ \A y : y \in Logged(j)' <=> y \in Logged(j)
<1>1. json \in [Plugins -> Seq(Msgs)] /\ jwb \in [Workers -> [Plugins -> Seq(Msgs)]]
  BY DEF LogInv, OwnerInv, TypeOK
<1>2. \A j \in Plugins : Once(json, jwb, Workers, j)
  BY DEF LogInv, JsonInv
<1>3. PICK i \in Plugins : i = wi[w]
  BY DEF LogInv, OwnerInv, TypeOK
<1>4. CASE json' = json /\ jwb' = jwb
  BY <1>2, <1>4 DEF Logged
<1>5. CASE json' = [json EXCEPT ![i] = @ \o jwb[w][i]] /\ jwb' = [jwb EXCEPT ![w][i] = <<>>]
  <2>1. Gains(json, jwb, Workers, i, {}, json', jwb')
    BY <1>1, <1>2, <1>5, DrainsOne
  <2>2. QED
    BY <2>1 DEF Gains, Logged
<1>6. QED
  BY <1>3, <1>4, <1>5 DEF GoOn

LEMMA StopLogs ==
  ASSUME LogInv, NEW w \in Workers,
         Stop(w) \/ \E report, flush \in BOOLEAN : GoOn(w, report, flush)
  PROVE  TempInv' /\ JsonInv' /\ AliveInv'
<1>1. UNCHANGED <<net, freed, receivers, masters, rings>>
  BY DEF Stop, GoOn
<1>2. \A j \in Plugins :
        Once(json', jwb', Workers, j) /\ Lines(json', jwb', Workers, j) \subseteq Logged(j)
  <2>1. CASE Stop(w)
    <3>1. json \in [Plugins -> Seq(Msgs)] /\ jwb \in [Workers -> [Plugins -> Seq(Msgs)]]
      BY DEF LogInv, OwnerInv, TypeOK
    <3>2. \A j \in Plugins : Once(json, jwb, Workers, j)
      BY DEF LogInv, JsonInv
    <3>3. json' = json /\ jwb' = [jwb EXCEPT ![w] = [j \in Plugins |-> <<>>]]
      BY <2>1 DEF Stop
    <3>4. \A j \in Plugins : Once(json, jwb', Workers, j)
                             /\ Lines(json, jwb', Workers, j) \subseteq Lines(json, jwb, Workers, j)
      BY <3>1, <3>2, <3>3, GivesUp
    <3>5. QED
      BY <3>3, <3>4 DEF Logged
  <2>2. ASSUME NEW report \in BOOLEAN, NEW flush \in BOOLEAN, GoOn(w, report, flush)
        PROVE  \A j \in Plugins :
                 Once(json', jwb', Workers, j) /\ Lines(json', jwb', Workers, j) \subseteq Logged(j)
    <3>1. \A j \in Plugins :
            Once(json', jwb', Workers, j) /\ \A y : y \in Logged(j)' <=> y \in Logged(j)
      BY <2>2, GoOnLines
    <3>2. QED
      BY <3>1 DEF Logged
  <2>3. QED
    BY <2>1, <2>2
<1>3. QED
  BY <1>1, <1>2, WorkerKept

LEMMA InitLogs == Init => LogInv
<1> SUFFICES ASSUME Init PROVE TempInv /\ JsonInv /\ AliveInv
  BY InitOwner DEF LogInv
<1>1. \A i \in Plugins : Once(temp, twb, Masters, i) /\ Once(json, jwb, Workers, i)
  BY EmptyQueue DEF Init, Once
<1>2. \A i \in Plugins : \A x : x \notin Arrived(i) /\ x \notin Logged(i)
  <2>1. ASSUME NEW i \in Plugins, NEW x
        PROVE  /\ x \notin ToSet(temp[i]) /\ \A m \in Masters : x \notin ToSet(twb[m][i])
               /\ x \notin ToSet(json[i]) /\ \A w \in Workers : x \notin ToSet(jwb[w][i])
    BY EmptyQueue DEF Init
  <2>2. QED
    BY <2>1, WhatLines DEF Arrived, Logged
<1>3. \A i \in Plugins, w \in Workers, m \in Masters : \A x : x \notin ToSet(ring_rxs[i][w][m])
  BY EmptyQueue DEF Init
<1>4. \A m \in Masters : mbuf[m] = None
  BY DEF Init
<1>5. QED
  BY <1>1, <1>2, <1>3, <1>4 DEF TempInv, JsonInv, AliveInv

LEMMA NextLogs == LogInv /\ [Next]_vars => LogInv'
<1> SUFFICES ASSUME LogInv, [Next]_vars PROVE TempInv' /\ JsonInv' /\ AliveInv'
  BY NextOwner DEF LogInv
<1>1. ASSUME UNCHANGED <<receivers, masters, workers, rings, net, freed>>
      PROVE  TempInv' /\ JsonInv' /\ AliveInv'
  BY <1>1, MasterKept DEF Alive, masters
<1>2. ASSUME NEW m \in Masters, Dispatch(m) PROVE TempInv' /\ JsonInv' /\ AliveInv'
  <2>1. CASE NothingToTake(m)
    <3>1. Alive' => Alive
      BY <2>1 DEF NothingToTake, Continue, Alive, LogInv, OwnerInv, TypeOK
    <3>2. QED
      BY <2>1, <3>1, MasterKept DEF NothingToTake
  <2>2. QED
    BY <1>2, <2>1, TakeLogs, SweepLogs, SendLogs DEF Dispatch
<1>3. ASSUME NEW w \in Workers, Work(w) PROVE TempInv' /\ JsonInv' /\ AliveInv'
  BY <1>3, PollLogs, StopLogs DEF Work
<1>4. CASE Kill \/ UNCHANGED vars
  BY <1>1, <1>4 DEF Kill, vars
<1>5. QED
  BY <1>2, <1>3, <1>4, ReceiveLogs DEF Next

\* In every run, with any number of threads, plugins and packets: no worker has a log
\* before it is in the temp file of its plugin or in the write buffer of a master that
\* has not stopped, no file has a log of another plugin, and none has a log twice -
\* whichever of main_loop's and worker_loop's buffers are drained when.
THEOREM LogsAreTempBeforeJson == Spec => []TempBeforeJson
<1>1. LogInv => TempBeforeJson
  <2> SUFFICES ASSUME LogInv, NEW i \in Plugins
               PROVE  /\ (\A m \in Masters : mpc[m] # "done") =>
                           JsonLines(i) \union Sent(i)
                             \subseteq ToSet(temp[i]) \union UNION {TempLines(m, i) : m \in Masters}
                      /\ \A msg \in ToSet(temp[i]) \union JsonLines(i) : PluginOf[msg] = i
                      /\ IsInjective(temp[i]) /\ IsInjective(json[i])
    BY DEF TempBeforeJson
  <2>1. IsInjective(temp[i]) /\ IsInjective(json[i])
    BY DEF LogInv, TempInv, JsonInv, Once
  <2>2. JsonLines(i) = Logged(i)
        /\ ToSet(temp[i]) \union UNION {TempLines(m, i) : m \in Masters} = Arrived(i)
    BY Zenon DEF JsonLines, Logged, TempLines, Arrived, Lines
  <2>3. \A x \in ToSet(temp[i]) : x \in Arrived(i)
    BY WhatLines DEF Arrived
  <2>4. \A msg \in ToSet(temp[i]) \union JsonLines(i) : PluginOf[msg] = i
    BY <2>2, <2>3 DEF LogInv, TempInv, JsonInv
  <2>5. ASSUME Alive, NEW x \in Sent(i) PROVE x \in Arrived(i)
    <3>1. \E w \in Workers, m \in Masters : x \in ToSet(ring_rxs[i][w][m])
      BY <2>5 DEF Sent
    <3>2. QED
      BY <2>5, <3>1 DEF LogInv, AliveInv
  <2>6. ASSUME Alive, NEW x \in Logged(i) PROVE x \in Arrived(i)
    BY <2>6 DEF LogInv, AliveInv
  <2>7. Alive => JsonLines(i) \union Sent(i) \subseteq Arrived(i)
    BY <2>2, <2>5, <2>6
  <2>8. QED
    BY <2>1, <2>2, <2>4, <2>7 DEF Alive
<1>2. QED
  BY <1>1, InitLogs, NextLogs, PTL DEF Spec

-----------------------------------------------------------------------------
(* The counters of dropped packets.                                        *)

\* The packets given back without a json line, and who may have dropped them.
Lost == {x \in freed : \A i \in Plugins : x \notin Logged(i)}
Droppers == Receivers \union Masters

\* As the counters have it when the threads have dropped the packets of L.
Counted(L, count) ==
  \E d \in [L -> Droppers] :
    \A t \in Droppers : count[t] = Cardinality({x \in L : d[x] = t})

Running == \A w \in Workers : wpc[w] # "done" \/ Mine(w) = {}

CountInv ==
  /\ IsFiniteSet(freed)
  /\ \A w \in Workers : wpc[w] # "done" => wi[w] \in Mine(w)
  /\ Running => Counted(Lost, tot_free)

\* One more is dropped, and counted.
LEMMA DropsOneMore ==
  ASSUME NEW L, IsFiniteSet(L), NEW count \in [Droppers -> Nat], Counted(L, count),
         NEW x, x \notin L, NEW t \in Droppers
  PROVE  Counted(L \union {x}, [count EXCEPT ![t] = @ + 1])
<1>1. PICK d \in [L -> Droppers] :
        \A u \in Droppers : count[u] = Cardinality({y \in L : d[y] = u})
  BY DEF Counted
<1> DEFINE M == L \union {x}
           e == [y \in M |-> IF y = x THEN t ELSE d[y]]
<1>2. e \in [M -> Droppers]
  OBVIOUS
<1>3. ASSUME NEW u \in Droppers
      PROVE  [count EXCEPT ![t] = @ + 1][u] = Cardinality({y \in M : e[y] = u})
  <2> DEFINE S == {y \in L : d[y] = u}
  <2>1. IsFiniteSet(S) /\ x \notin S
    <3>1. S \in SUBSET L
      OBVIOUS
    <3>2. QED
      BY <3>1, FS_Subset
  <2>2. \A y : y \in {z \in M : e[z] = u} <=> y \in S \/ (y = x /\ u = t)
    OBVIOUS
  <2>3. CASE u = t
    <3>1. {y \in M : e[y] = u} = S \union {x}
      BY <2>2, <2>3
    <3>2. Cardinality(S \union {x}) = Cardinality(S) + 1
      BY <2>1, FS_AddElement
    <3>3. [count EXCEPT ![t] = @ + 1][u] = count[u] + 1
      BY <2>3
    <3>4. QED
      BY <1>1, <3>1, <3>2, <3>3
  <2>4. CASE u # t
    <3>1. {y \in M : e[y] = u} = S
      BY <2>2, <2>4
    <3>2. [count EXCEPT ![t] = @ + 1][u] = count[u]
      BY <2>4
    <3>3. QED
      BY <1>1, <3>1, <3>2
  <2>5. QED
    BY <2>3, <2>4
<1> HIDE DEF e
<1>4. QED
  BY <1>2, <1>3 DEF Counted

\* The worker's place when it is not done, and who runs.
LEMMA NextMine ==
  ASSUME TypeOK, [Next]_vars, \A w \in Workers : wpc[w] # "done" => wi[w] \in Mine(w)
  PROVE  /\ \A w \in Workers : wpc'[w] # "done" => wi'[w] \in Mine(w)
         /\ Running' => Running
         /\ \A w \in Workers : Stop(w) => ~ Running'
<1> USE DEF receivers, masters, workers, rings
<1>1. wpc \in [Workers -> {"poll", "tick", "done"}] /\ wi \in [Workers -> Plugins]
  BY DEF TypeOK
<1>2. ASSUME NEW w \in Workers, Work(w)
      PROVE  /\ \A v \in Workers : wpc'[v] # "done" => wi'[v] \in Mine(v)
             /\ \A v \in Workers : wpc[v] = "done" => wpc'[v] = "done"
             /\ Stop(w) => wpc'[w] = "done" /\ Mine(w) # {}
  <2>1. CASE Poll(w)
    BY <1>1, <2>1 DEF Poll, Stop
  <2>2. CASE Stop(w)
    BY <1>1, <2>2 DEF Stop
  <2>3. ASSUME NEW report \in BOOLEAN, NEW flush \in BOOLEAN, GoOn(w, report, flush)
        PROVE  /\ \A v \in Workers : wpc'[v] # "done" => wi'[v] \in Mine(v)
               /\ \A v \in Workers : wpc[v] = "done" => wpc'[v] = "done"
    BY <1>1, <2>3 DEF GoOn, NextOfMine
  <2>4. QED
    BY <1>2, <2>1, <2>2, <2>3 DEF Work
<1>3. UNCHANGED workers \/ \E w \in Workers : Work(w)
  <2>1. ASSUME NEW m \in Masters, Dispatch(m) PROVE UNCHANGED workers
    BY <2>1 DEF Dispatch, Take, NothingToTake, Sweep, Send
  <2>2. ASSUME NEW r \in Receivers, Receive(r) PROVE UNCHANGED workers
    BY <2>2 DEF Receive, Recv, PassOn, StopReceiving
  <2>3. QED
    BY <2>1, <2>2, SMTT(30) DEF Next, Kill, vars
<1>4. \A w \in Workers : wpc'[w] # "done" => wi'[w] \in Mine(w)
  BY <1>2, <1>3
<1>5. \A w \in Workers : wpc[w] = "done" => wpc'[w] = "done"
  BY <1>2, <1>3
<1>6. Running' => Running
  BY <1>5 DEF Running
<1>7. ASSUME NEW w \in Workers, Stop(w) PROVE ~ Running'
  BY <1>2, <1>7 DEF Work, Running
<1>8. QED
  BY <1>4, <1>6, <1>7

\* The counters are still right after the step.
CountKept == IsFiniteSet(freed') /\ (Running' => Counted(Lost, tot_free)')

\* What changes neither freed packets nor json lines, and what drops one packet that has
\* no json line.
LEMMA SameLost ==
  ASSUME CountInv, Running' => Running, UNCHANGED tot_free, IsFiniteSet(freed'),
         \A x : x \in Lost' <=> x \in Lost
  PROVE  CountKept
<1>1. Lost' = Lost
  BY Zenon
<1>2. QED
  BY <1>1 DEF CountInv, Counted, CountKept

LEMMA OneLost ==
  ASSUME TypeOK, CountInv, JsonInv, Running' => Running, NEW t \in Droppers,
         NEW x, x \notin freed, Drop(t, x), UNCHANGED <<json, jwb>>
  PROVE  CountKept
<1>1. freed' = freed \union {x} /\ tot_free' = [tot_free EXCEPT ![t] = @ + 1]
  BY DEF Drop
<1>2. IsFiniteSet(freed')
  BY <1>1, FS_AddElement DEF CountInv
<1>3. \A i \in Plugins : Logged(i)' = Logged(i) /\ x \notin Logged(i)
  BY DEF Logged, JsonInv
<1>4. Lost' = Lost \union {x}
  <2>1. \A y : y \in Lost' <=> y \in Lost \union {x}
    BY <1>1, <1>3 DEF Lost
  <2>2. QED
    BY <2>1, Zenon
<1>5. IsFiniteSet(Lost) /\ x \notin Lost
  <2>1. Lost \in SUBSET freed
    BY DEF Lost
  <2>2. QED
    BY <2>1, FS_Subset DEF CountInv
<1>6. tot_free \in [Droppers -> Nat]
  BY DEF TypeOK, Droppers
<1>7. ASSUME Running' PROVE Counted(Lost \union {x}, [tot_free EXCEPT ![t] = @ + 1])
  <2>1. Counted(Lost, tot_free)
    BY <1>7 DEF CountInv
  <2>2. QED
    BY <1>5, <1>6, <2>1, DropsOneMore
<1>8. Counted(Lost, tot_free)' <=> Counted(Lost \union {x}, [tot_free EXCEPT ![t] = @ + 1])
  BY <1>1, <1>4 DEF Counted
<1>9. QED
  BY <1>2, <1>7, <1>8 DEF CountKept

LEMMA InitCount == Init => CountInv
<1> SUFFICES ASSUME Init PROVE CountInv
  OBVIOUS
<1>1. freed = {} /\ IsFiniteSet(freed)
  BY FS_EmptySet DEF Init
<1>2. \A w \in Workers : wpc[w] # "done" => wi[w] \in Mine(w)
  BY DEF Init, IsFirst
<1>3. Counted(Lost, tot_free)
  <2>1. Lost = {}
    BY <1>1 DEF Lost
  <2>2. [x \in {} |-> x] \in [Lost -> Droppers]
    BY <2>1
  <2>3. ASSUME NEW t \in Droppers PROVE tot_free[t] = 0
    BY DEF Init, Droppers
  <2>4. \A d, t : {x \in Lost : d[x] = t} = {}
    BY <2>1
  <2>5. QED
    BY <2>2, <2>3, <2>4, FS_EmptySet DEF Counted
<1>4. QED
  BY <1>1, <1>2, <1>3 DEF CountInv

LEMMA NextCount == LogInv /\ CountInv /\ [Next]_vars => CountInv'
<1> SUFFICES ASSUME LogInv, CountInv, [Next]_vars PROVE CountInv'
  OBVIOUS
<1> USE DEF receivers, masters, workers, rings
<1>1. TypeOK /\ JsonInv /\ IsFiniteSet(freed)
  BY DEF LogInv, OwnerInv, CountInv
<1>2. /\ \A w \in Workers : wpc'[w] # "done" => wi'[w] \in Mine(w)
      /\ Running' => Running
      /\ \A w \in Workers : Stop(w) => ~ Running'
  BY <1>1, NextMine DEF CountInv
<1>3. ASSUME UNCHANGED <<freed, tot_free, json, jwb>> PROVE CountKept
  <2>1. \A x : x \in Lost' <=> x \in Lost
    BY <1>3 DEF Lost, Logged
  <2>2. QED
    BY <1>1, <1>2, <1>3, <2>1, SameLost
<1>4. ASSUME NEW r \in Receivers, Receive(r) PROVE CountKept
  <2>1. CASE StopReceiving(r) \/ \E msg \in net : Recv(r, msg)
    BY <1>3, <2>1 DEF StopReceiving, Recv
  <2>2. ASSUME NEW m \in Masters, PassOn(r, m) PROVE CountKept
    <3>1. CASE Len(rec_ring[m]) < RecCapacity
      BY <1>3, <2>2, <3>1 DEF PassOn
    <3>2. CASE ~ (Len(rec_ring[m]) < RecCapacity)
      <4>1. Drop(r, rbuf[r]) /\ UNCHANGED <<json, jwb>> /\ r \in Droppers
        BY <2>2, <3>2 DEF PassOn, Droppers
      <4>2. rbuf[r] \notin freed
        <5>1. <<"rbuf", r>> \in Pointers(rbuf[r]) /\ rbuf[r] \in Msgs
          BY <1>1, <2>2, WhoPoints DEF PassOn, TypeOK
        <5>2. QED
          BY <5>1, OnlyOwner DEF LogInv, OwnerInv
      <4>3. QED
        BY <1>1, <1>2, <4>1, <4>2, OneLost
    <3>3. QED
      BY <3>1, <3>2
  <2>3. QED
    BY <1>4, <2>1, <2>2 DEF Receive
<1>5. ASSUME NEW m \in Masters, Dispatch(m) PROVE CountKept
  <2>1. CASE Take(m) \/ NothingToTake(m) \/ Sweep(m)
    BY <1>3, <2>1 DEF Take, NothingToTake, Sweep
  <2>2. ASSUME NEW w \in Workers, NEW due \in BOOLEAN, Send(m, w, due) PROVE CountKept
    <3>1. UNCHANGED <<json, jwb>> /\ (UNCHANGED <<freed, tot_free>> \/ Drop(m, mbuf[m]))
      BY <2>2 DEF Send
    <3>2. CASE UNCHANGED <<freed, tot_free>>
      BY <1>3, <3>1, <3>2
    <3>3. CASE Drop(m, mbuf[m])
      <4>1. mbuf[m] \notin freed
        <5>1. <<"mbuf", m>> \in Pointers(mbuf[m]) /\ mbuf[m] \in Msgs
          BY <2>2, WhoPoints DEF Send, LogInv, OwnerInv, Holding, TypeOK
        <5>2. QED
          BY <5>1, OnlyOwner DEF LogInv, OwnerInv
      <4>2. m \in Droppers
        BY DEF Droppers
      <4>3. QED
        BY <1>1, <1>2, <3>1, <3>3, <4>1, <4>2, OneLost
    <3>4. QED
      BY <3>1, <3>2, <3>3
  <2>3. QED
    BY <1>5, <2>1, <2>2 DEF Dispatch
<1>6. ASSUME NEW w \in Workers, Work(w) PROVE CountKept
  <2>1. CASE Poll(w)
    <3>1. CASE CurrentRing(w) = <<>>
      BY <1>3, <2>1, <3>1 DEF Poll
    <3>2. CASE CurrentRing(w) # <<>>
      <4>1. PICK i \in Plugins, x \in Msgs :
              /\ x \notin freed /\ freed' = freed \union {x}
              /\ \A j \in Plugins :
                   \A y : y \in Logged(j)' <=> y \in Logged(j) \/ (j = i /\ y = x)
        BY <2>1, <3>2, PollMoves
      <4>2. \A y : y \in Lost' <=> y \in Lost
        BY <4>1 DEF Lost
      <4>3. IsFiniteSet(freed') /\ UNCHANGED tot_free
        BY <1>1, <2>1, <4>1, FS_AddElement DEF Poll
      <4>4. QED
        BY <1>2, <4>2, <4>3, SameLost
    <3>3. QED
      BY <3>1, <3>2
  <2>2. CASE Stop(w)
    <3>1. UNCHANGED freed
      BY <2>2 DEF Stop
    <3>2. QED
      BY <1>1, <1>2, <2>2, <3>1 DEF CountKept
  <2>3. ASSUME NEW report \in BOOLEAN, NEW flush \in BOOLEAN, GoOn(w, report, flush) PROVE CountKept
    <3>1. UNCHANGED <<freed, tot_free>>
      BY <2>3 DEF GoOn
    <3>2. \A j \in Plugins : \A y : y \in Logged(j)' <=> y \in Logged(j)
      BY <2>3, GoOnLines
    <3>3. \A y : y \in Lost' <=> y \in Lost
      BY <3>1, <3>2 DEF Lost
    <3>4. QED
      BY <1>1, <1>2, <3>1, <3>3, SameLost
  <2>4. QED
    BY <1>6, <2>1, <2>2, <2>3 DEF Work
<1>7. ASSUME Kill \/ UNCHANGED vars PROVE CountKept
  <2>1. UNCHANGED <<freed, tot_free, json, jwb>>
    BY <1>7 DEF Kill, vars
  <2>2. QED
    BY <1>3, <2>1
<1>8. CountKept
  BY <1>4, <1>5, <1>6, <1>7 DEF Next
<1>9. QED
  BY <1>2, <1>8 DEF CountInv, CountKept

\* In every run, as long as every worker runs: each packet
\* given back without a json line was dropped by one receiver or master, and the
\* tot_free_pkt_cnt of each is how many it dropped - an overflow never goes uncounted
\* or is counted twice, and worker_loop's free() of a logged packet is no drop.
THEOREM DropsAreCounted == Spec => []DropsCounted
<1>1. LogInv /\ CountInv => DropsCounted
  <2> SUFFICES ASSUME CountInv, Running
               PROVE  \E d \in [freed \ UNION {JsonLines(i) : i \in Plugins} -> Droppers] :
                        \A t \in Droppers :
                          tot_free[t] = Cardinality({x \in DOMAIN d : d[x] = t})
    BY DEF DropsCounted, Running, Droppers
  <2>1. freed \ UNION {JsonLines(i) : i \in Plugins} = Lost
    <3>1. \A i \in Plugins : JsonLines(i) = Logged(i)
      BY Zenon DEF JsonLines, Logged, Lines
    <3>2. \A x : x \in freed \ UNION {JsonLines(i) : i \in Plugins} <=> x \in Lost
      BY <3>1 DEF Lost
    <3>3. QED
      BY <3>2, Zenon
  <2>2. PICK d \in [Lost -> Droppers] :
          \A t \in Droppers : tot_free[t] = Cardinality({x \in Lost : d[x] = t})
    BY DEF CountInv, Counted
  <2>3. DOMAIN d = Lost
    OBVIOUS
  <2>4. QED
    BY <2>1, <2>2, <2>3
<1>2. Init => LogInv /\ CountInv
  BY InitLogs, InitCount
<1>3. LogInv /\ CountInv /\ [Next]_vars => (LogInv /\ CountInv)'
  BY NextLogs, NextCount
<1>4. QED
  BY <1>1, <1>2, <1>3, PTL DEF Spec

-----------------------------------------------------------------------------
(* The order of the logs.                                                  *)

\* y is somewhere behind x in a queue.
Follows(s, x, y) == \E j, k \in DOMAIN s : j < k /\ s[j] = x /\ s[k] = y

\* The temp lines of a plugin, in the order in which the only master logged them.
TempSeq(i) == temp[i] \o twb[1][i]

\* The way of a plugin's packets from that master through a worker; its json file is
\* part of it when no other worker writes there.
File(i, w) == IF CoresOf[i] = {w} THEN json[i] ELSE <<>>
Way(i, w) == File(i, w) \o jwb[w][i] \o ring_rxs[i][w][1]

\* The ways keep the order of the temp lines, and what the master is about to send is
\* the last temp line of its plugin.
WayOrder ==
  \A i \in Plugins, w \in Workers :
    \A x, y : Follows(Way(i, w), x, y) => Follows(TempSeq(i), x, y)
Behind ==
  mbuf[1] # None =>
    \A x \in Arrived(PluginOf[mbuf[1]]) :
      x = mbuf[1] \/ Follows(TempSeq(PluginOf[mbuf[1]]), x, mbuf[1])

OrderInv == nb_masters = 1 /\ mpc[1] # "done" => WayOrder /\ Behind

-----------------------------------------------------------------------------
(* Order in queues.                                                        *)

LEMMA ConcatAt ==
  ASSUME NEW s \in Seq(Msgs), NEW u \in Seq(Msgs)
  PROVE  /\ s \o u \in Seq(Msgs)
         /\ DOMAIN (s \o u) = 1 .. Len(s) + Len(u)
         /\ \A k \in 1 .. Len(s) : (s \o u)[k] = s[k]
         /\ \A k \in Len(s) + 1 .. Len(s) + Len(u) : (s \o u)[k] = u[k - Len(s)]
  OBVIOUS

LEMMA ThreeQueues ==
  ASSUME NEW s \in Seq(Msgs), NEW u \in Seq(Msgs), NEW v \in Seq(Msgs)
  PROVE  s \o (u \o v) = (s \o u) \o v
  BY ConcatAssociative

LEMMA FollowsConcat ==
  ASSUME NEW s \in Seq(Msgs), NEW u \in Seq(Msgs), NEW x, NEW y
  PROVE  Follows(s \o u, x, y) <=> \/ Follows(s, x, y) \/ Follows(u, x, y)
                                   \/ (x \in ToSet(s) /\ y \in ToSet(u))
<1> DEFINE c == s \o u
<1>1. /\ Len(s) \in Nat /\ Len(u) \in Nat
      /\ DOMAIN s = 1 .. Len(s) /\ DOMAIN u = 1 .. Len(u)
      /\ DOMAIN c = 1 .. Len(s) + Len(u)
      /\ \A k \in 1 .. Len(s) : c[k] = s[k]
      /\ \A k \in Len(s) + 1 .. Len(s) + Len(u) : c[k] = u[k - Len(s)]
  OBVIOUS
<1> HIDE DEF c
<1>2. \A k \in 1 .. Len(u) : k + Len(s) \in DOMAIN c /\ c[k + Len(s)] = u[k]
  BY <1>1
<1>3. ASSUME Follows(c, x, y)
      PROVE  Follows(s, x, y) \/ Follows(u, x, y) \/ (x \in ToSet(s) /\ y \in ToSet(u))
  <2>1. PICK j \in DOMAIN c, k \in DOMAIN c :
          j < k /\ c[j] = x /\ c[k] = y
    BY <1>3 DEF Follows
  <2>2. CASE k \in 1 .. Len(s)
    <3>1. j \in 1 .. Len(s)
      BY <1>1, <2>1, <2>2
    <3>2. s[j] = x /\ s[k] = y
      BY <1>1, <2>1, <2>2, <3>1
    <3>3. QED
      BY <1>1, <2>1, <2>2, <3>1, <3>2 DEF Follows
  <2>3. CASE k \notin 1 .. Len(s) /\ j \in 1 .. Len(s)
    <3>1. k - Len(s) \in DOMAIN u /\ u[k - Len(s)] = y /\ j \in DOMAIN s /\ s[j] = x
      BY <1>1, <2>1, <2>3
    <3>2. QED
      BY <3>1 DEF ToSet
  <2>4. CASE k \notin 1 .. Len(s) /\ j \notin 1 .. Len(s)
    <3>1. /\ j - Len(s) \in 1 .. Len(u) /\ k - Len(s) \in 1 .. Len(u)
          /\ j \in Len(s) + 1 .. Len(s) + Len(u) /\ k \in Len(s) + 1 .. Len(s) + Len(u)
          /\ j - Len(s) < k - Len(s)
      BY <1>1, <2>1, <2>4
    <3>2. u[j - Len(s)] = x /\ u[k - Len(s)] = y
      BY <1>1, <2>1, <3>1
    <3>3. QED
      BY <1>1, <3>1, <3>2 DEF Follows
  <2>5. QED
    BY <2>2, <2>3, <2>4
<1>4. ASSUME Follows(s, x, y) PROVE Follows(c, x, y)
  <2>1. PICK j \in DOMAIN s, k \in DOMAIN s : j < k /\ s[j] = x /\ s[k] = y
    BY <1>4 DEF Follows
  <2>2. /\ j \in DOMAIN c /\ c[j] = x
        /\ k \in DOMAIN c /\ c[k] = y
    BY <1>1, <2>1
  <2>3. QED
    BY <2>1, <2>2 DEF Follows
<1>5. ASSUME Follows(u, x, y) PROVE Follows(c, x, y)
  <2>1. PICK j \in DOMAIN u, k \in DOMAIN u : j < k /\ u[j] = x /\ u[k] = y
    BY <1>5 DEF Follows
  <2>2. /\ j + Len(s) \in DOMAIN c /\ c[j + Len(s)] = x
        /\ k + Len(s) \in DOMAIN c /\ c[k + Len(s)] = y
        /\ j + Len(s) < k + Len(s)
    BY <1>1, <1>2, <2>1
  <2>3. QED
    BY <2>2 DEF Follows
<1>6. ASSUME x \in ToSet(s), y \in ToSet(u) PROVE Follows(c, x, y)
  <2>1. PICK j \in 1 .. Len(s) : s[j] = x
    BY <1>1, <1>6 DEF ToSet
  <2>2. PICK k \in 1 .. Len(u) : u[k] = y
    BY <1>1, <1>6 DEF ToSet
  <2>3. /\ j \in DOMAIN c /\ c[j] = x
        /\ k + Len(s) \in DOMAIN c /\ c[k + Len(s)] = y
        /\ j < k + Len(s)
    BY <1>1, <1>2, <2>1, <2>2
  <2>4. QED
    BY <2>3 DEF Follows
<1>7. QED
  BY <1>3, <1>4, <1>5, <1>6 DEF c

LEMMA FollowsShort ==
  ASSUME NEW x, NEW y
  PROVE  ~ Follows(<<>>, x, y) /\ \A z : ~ Follows(<<z>>, x, y)
  BY DEF Follows

LEMMA OneInQueue ==
  ASSUME NEW z PROVE ToSet(<<z>>) = {z} /\ \A x, y : ~ Follows(<<z>>, x, y)
<1>1. DOMAIN <<z>> = {1} /\ <<z>>[1] = z
  OBVIOUS
<1>2. ToSet(<<z>>) = {z}
  BY <1>1 DEF ToSet
<1>3. QED
  BY <1>2, FollowsShort

LEMMA FollowsAppend ==
  ASSUME NEW s \in Seq(Msgs), NEW z \in Msgs, NEW x, NEW y
  PROVE  /\ Append(s, z) \in Seq(Msgs)
         /\ Follows(Append(s, z), x, y) <=> Follows(s, x, y) \/ (x \in ToSet(s) /\ y = z)
         /\ x \in ToSet(Append(s, z)) <=> x \in ToSet(s) \/ x = z
<1> DEFINE u == <<z>>
<1>0. Append(s, z) = s \o <<z>>
  BY AppendIsConcat
<1>1. Append(s, z) = s \o u /\ u \in Seq(Msgs)
  BY <1>0
<1>2. ToSet(u) = {z} /\ ~ Follows(u, x, y)
  BY OneInQueue
<1> HIDE DEF u
<1>3. Follows(s \o u, x, y) <=> \/ Follows(s, x, y) \/ Follows(u, x, y)
                                \/ (x \in ToSet(s) /\ y \in ToSet(u))
  BY <1>1, FollowsConcat
<1>4. s \o u \in Seq(Msgs) /\ ToSet(s \o u) = ToSet(s) \union ToSet(u)
  BY <1>1, JoinQueues
<1>5. QED
  BY <1>1, <1>2, <1>3, <1>4

\* What is behind the head stays in order, and was behind it.
LEMMA FollowsTail ==
  ASSUME NEW s \in Seq(Msgs), s # <<>>, NEW x, NEW y
  PROVE  /\ Tail(s) \in Seq(Msgs)
         /\ Follows(s, x, y) <=> \/ Follows(Tail(s), x, y)
                                 \/ (x = Head(s) /\ y \in ToSet(Tail(s)))
         /\ x \in ToSet(s) <=> x = Head(s) \/ x \in ToSet(Tail(s))
<1> DEFINE h == <<Head(s)>>
           t == Tail(s)
<1>1. /\ Len(s) \in Nat \ {0} /\ Head(s) = s[1] /\ \A k \in 1 .. Len(s) : s[k] \in Msgs
      /\ t \in Seq(Msgs) /\ Len(t) = Len(s) - 1
      /\ \A k \in 1 .. Len(s) - 1 : t[k] = s[k + 1]
      /\ h \in Seq(Msgs) /\ Len(h) = 1 /\ h[1] = s[1]
  OBVIOUS
<1>2. ToSet(h) = {Head(s)} /\ ~ Follows(h, x, y)
  BY OneInQueue
<1> HIDE DEF h, t
<1>6. s = h \o t
  <2>1. /\ h \o t \in Seq(Msgs) /\ Len(h \o t) = Len(s)
        /\ (h \o t)[1] = h[1]
        /\ \A k \in 2 .. Len(s) : (h \o t)[k] = t[k - 1]
    <3>1. /\ h \o t \in Seq(Msgs)
          /\ DOMAIN (h \o t) = 1 .. Len(h) + Len(t)
          /\ \A k \in 1 .. Len(h) : (h \o t)[k] = h[k]
          /\ \A k \in Len(h) + 1 .. Len(h) + Len(t) : (h \o t)[k] = t[k - Len(h)]
      BY <1>1, ConcatAt
    <3>2. Len(h) + Len(t) = Len(s) /\ Len(h) + 1 = 2
      BY <1>1
    <3>3. QED
      BY <1>1, <3>1, <3>2
  <2>2. ASSUME NEW k \in 1 .. Len(s), k # 1 PROVE s[k] = t[k - 1]
    <3>1. k - 1 \in 1 .. Len(s) - 1 /\ (k - 1) + 1 = k
      BY <1>1, <2>2
    <3>2. QED
      BY <1>1, <3>1
  <2>3. \A k \in 1 .. Len(s) : s[k] = (h \o t)[k]
    BY <1>1, <2>1, <2>2
  <2>4. QED
    BY <1>1, <2>1, <2>3, SeqEqual
<1>3. Follows(h \o t, x, y) <=> \/ Follows(h, x, y) \/ Follows(t, x, y)
                                \/ (x \in ToSet(h) /\ y \in ToSet(t))
  BY <1>1, FollowsConcat
<1>4. ToSet(h \o t) = ToSet(h) \union ToSet(t)
  BY <1>1, JoinQueues
<1>5. /\ t \in Seq(Msgs)
      /\ Follows(s, x, y) <=> Follows(t, x, y) \/ (x = Head(s) /\ y \in ToSet(t))
      /\ x \in ToSet(s) <=> x = Head(s) \/ x \in ToSet(t)
  BY <1>1, <1>2, <1>3, <1>4, <1>6
<1>7. QED
  BY <1>5 DEF t

\* Three queues, one behind the other.
LEMMA FollowsThree ==
  ASSUME NEW a \in Seq(Msgs), NEW b \in Seq(Msgs), NEW c \in Seq(Msgs), NEW x, NEW y
  PROVE  /\ a \o b \o c \in Seq(Msgs)
         /\ Follows(a \o b \o c, x, y) <=>
              \/ Follows(a, x, y) \/ Follows(b, x, y) \/ Follows(c, x, y)
              \/ (x \in ToSet(a) /\ (y \in ToSet(b) \/ y \in ToSet(c)))
              \/ (x \in ToSet(b) /\ y \in ToSet(c))
         /\ x \in ToSet(a \o b \o c) <=> x \in ToSet(a) \/ x \in ToSet(b) \/ x \in ToSet(c)
<1> DEFINE ab == a \o b
<1>1. ab \in Seq(Msgs) /\ ToSet(ab) = ToSet(a) \union ToSet(b)
  BY JoinQueues
<1>2. Follows(ab, x, y) <=> \/ Follows(a, x, y) \/ Follows(b, x, y)
                            \/ (x \in ToSet(a) /\ y \in ToSet(b))
  BY FollowsConcat
<1> HIDE DEF ab
<1>3. ab \o c \in Seq(Msgs) /\ ToSet(ab \o c) = ToSet(ab) \union ToSet(c)
  BY <1>1, JoinQueues
<1>4. Follows(ab \o c, x, y) <=> \/ Follows(ab, x, y) \/ Follows(c, x, y)
                                 \/ (x \in ToSet(ab) /\ y \in ToSet(c))
  BY <1>1, FollowsConcat
<1>5. QED
  BY <1>1, <1>2, <1>3, <1>4 DEF ab

-----------------------------------------------------------------------------
(* What a worker does to a queue that starts in a file f, goes on in its   *)
(* write buffer b and ends in its ring r: two logs that are in this order  *)
(* afterwards were in it before.                                           *)

LEMMA NothingFollows == ToSet(<<>>) = {} /\ \A x, y : ~ Follows(<<>>, x, y)
<1>1. ToSet(<<>>) = {}
  BY EmptyQueue
<1>2. QED
  BY <1>1, FollowsShort

\* The head of the ring moves into the buffer, which was drained if it was full.
LEMMA WayMoves ==
  ASSUME NEW f \in Seq(Msgs), NEW b \in Seq(Msgs), NEW r \in Seq(Msgs), r # <<>>,
         NEW f2, NEW b2, NEW x, NEW y,
         \/ (f2 = f \o b \/ f2 = <<>>) /\ b2 = <<Head(r)>>
         \/ f2 = f /\ b2 = Append(b, Head(r))
  PROVE  Follows(f2 \o b2 \o Tail(r), x, y) => Follows(f \o b \o r, x, y)
<1>1. PICK h \in Msgs : h = Head(r)
  OBVIOUS
<1>2. PICK t \in Seq(Msgs) : t = Tail(r)
  <2>1. Tail(r) \in Seq(Msgs)
    OBVIOUS
  <2>2. QED
    BY <2>1, Zenon
<1>3. /\ Follows(r, x, y) <=> Follows(t, x, y) \/ (x = h /\ y \in ToSet(t))
      /\ x \in ToSet(r) <=> x = h \/ x \in ToSet(t)
      /\ y \in ToSet(r) <=> y = h \/ y \in ToSet(t)
  BY <1>1, <1>2, FollowsTail
<1>4. Follows(f \o b \o r, x, y) <=>
        \/ Follows(f, x, y) \/ Follows(b, x, y) \/ Follows(r, x, y)
        \/ (x \in ToSet(f) /\ (y \in ToSet(b) \/ y \in ToSet(r)))
        \/ (x \in ToSet(b) /\ y \in ToSet(r))
  BY FollowsThree
<1>5. ASSUME NEW g \in Seq(Msgs), NEW c \in Seq(Msgs)
      PROVE  Follows(g \o c \o t, x, y) <=>
               \/ Follows(g, x, y) \/ Follows(c, x, y) \/ Follows(t, x, y)
               \/ (x \in ToSet(g) /\ (y \in ToSet(c) \/ y \in ToSet(t)))
               \/ (x \in ToSet(c) /\ y \in ToSet(t))
  BY FollowsThree
<1>6. /\ <<h>> \in Seq(Msgs) /\ <<>> \in Seq(Msgs)
      /\ ToSet(<<h>>) = {h} /\ ~ Follows(<<h>>, x, y)
      /\ ToSet(<<>>) = {} /\ ~ Follows(<<>>, x, y)
  BY OneInQueue, NothingFollows
<1>7. CASE f2 = f \o b /\ b2 = <<h>>
  <2>1. PICK g \in Seq(Msgs) : g = f \o b
    BY JoinQueues
  <2>2. /\ Follows(g, x, y) <=> \/ Follows(f, x, y) \/ Follows(b, x, y)
                                \/ (x \in ToSet(f) /\ y \in ToSet(b))
        /\ x \in ToSet(g) <=> x \in ToSet(f) \/ x \in ToSet(b)
    BY <2>1, FollowsConcat, JoinQueues
  <2>3. PICK c \in Seq(Msgs) : c = <<h>>
    BY <1>6
  <2>4. ToSet(c) = {h} /\ ~ Follows(c, x, y)
    BY <1>6, <2>3
  <2>5. Follows(g \o c \o t, x, y) => Follows(f \o b \o r, x, y)
    BY <1>3, <1>4, <1>5, <2>2, <2>4
  <2>6. QED
    BY <1>2, <1>7, <2>1, <2>3, <2>5
<1>8. CASE f2 = <<>> /\ b2 = <<h>>
  <2>1. PICK g \in Seq(Msgs), c \in Seq(Msgs) : g = <<>> /\ c = <<h>>
    BY <1>6
  <2>2. ToSet(c) = {h} /\ ~ Follows(c, x, y) /\ ToSet(g) = {} /\ ~ Follows(g, x, y)
    BY <1>6, <2>1
  <2>3. Follows(g \o c \o t, x, y) => Follows(f \o b \o r, x, y)
    BY <1>3, <1>4, <1>5, <2>2
  <2>4. QED
    BY <1>2, <1>8, <2>1, <2>3
<1>9. CASE f2 = f /\ b2 = Append(b, h)
  <2>1. PICK c \in Seq(Msgs) : c = Append(b, h)
    <3>1. Append(b, h) \in Seq(Msgs)
      OBVIOUS
    <3>2. QED
      BY <3>1, Zenon
  <2>2. /\ Follows(c, x, y) <=> Follows(b, x, y) \/ (x \in ToSet(b) /\ y = h)
        /\ x \in ToSet(c) <=> x \in ToSet(b) \/ x = h
        /\ y \in ToSet(c) <=> y \in ToSet(b) \/ y = h
    BY <2>1, FollowsAppend
  <2>3. Follows(f \o c \o t, x, y) => Follows(f \o b \o r, x, y)
    BY <1>3, <1>4, <1>5, <2>2
  <2>4. QED
    BY <1>2, <1>9, <2>1, <2>3
<1>10. QED
  BY <1>1, <1>7, <1>8, <1>9

\* The buffer is drained into the file, or given up.
LEMMA WayDrains ==
  ASSUME NEW f \in Seq(Msgs), NEW b \in Seq(Msgs), NEW r \in Seq(Msgs), NEW f2, NEW x, NEW y,
         f2 = f \o b \/ f2 = f
  PROVE  Follows(f2 \o <<>> \o r, x, y) => Follows(f \o b \o r, x, y)
<1>1. PICK n \in Seq(Msgs) : n = <<>>
  <2>1. <<>> \in Seq(Msgs)
    OBVIOUS
  <2>2. QED
    BY <2>1, Zenon
<1>2. ToSet(n) = {} /\ ~ Follows(n, x, y)
  BY <1>1, NothingFollows
<1>3. Follows(f \o b \o r, x, y) <=>
        \/ Follows(f, x, y) \/ Follows(b, x, y) \/ Follows(r, x, y)
        \/ (x \in ToSet(f) /\ (y \in ToSet(b) \/ y \in ToSet(r)))
        \/ (x \in ToSet(b) /\ y \in ToSet(r))
  BY FollowsThree
<1>4. ASSUME NEW g \in Seq(Msgs)
      PROVE  Follows(g \o n \o r, x, y) <=>
               \/ Follows(g, x, y) \/ Follows(n, x, y) \/ Follows(r, x, y)
               \/ (x \in ToSet(g) /\ (y \in ToSet(n) \/ y \in ToSet(r)))
               \/ (x \in ToSet(n) /\ y \in ToSet(r))
  BY FollowsThree
<1>5. Follows(f \o n \o r, x, y) => Follows(f \o b \o r, x, y)
  BY <1>2, <1>3, <1>4
<1>6. PICK g \in Seq(Msgs) : g = f \o b
  BY JoinQueues
<1>7. /\ Follows(g, x, y) <=> \/ Follows(f, x, y) \/ Follows(b, x, y)
                              \/ (x \in ToSet(f) /\ y \in ToSet(b))
      /\ x \in ToSet(g) <=> x \in ToSet(f) \/ x \in ToSet(b)
  BY <1>6, FollowsConcat, JoinQueues
<1>8. Follows(g \o n \o r, x, y) => Follows(f \o b \o r, x, y)
  BY <1>2, <1>3, <1>4, <1>7
<1>9. QED
  BY <1>1, <1>5, <1>6, <1>8

-----------------------------------------------------------------------------
(* The steps.                                                              *)

LEMMA WayTypes ==
  ASSUME TypeOK, nb_masters = 1, NEW i \in Plugins, NEW w \in Workers
  PROVE  /\ Masters = {1}
         /\ json[i] \in Seq(Msgs) /\ File(i, w) \in Seq(Msgs)
         /\ jwb[w][i] \in Seq(Msgs) /\ ring_rxs[i][w][1] \in Seq(Msgs)
         /\ temp[i] \in Seq(Msgs) /\ twb[1][i] \in Seq(Msgs)
<1>1. Masters = {1}
  BY DEF Masters
<1>2. json[i] \in Seq(Msgs) /\ <<>> \in Seq(Msgs) /\ temp[i] \in Seq(Msgs)
  BY DEF TypeOK
<1>3. jwb[w][i] \in Seq(Msgs)
  BY DEF TypeOK
<1>4. ring_rxs[i][w][1] \in Seq(Msgs)
  <2>1. ring_rxs \in [Plugins -> [Workers -> [Masters -> Seq(Msgs)]]]
    BY DEF TypeOK
  <2>2. QED
    BY <1>1, <2>1, ThreeLevels
<1>5. twb[1][i] \in Seq(Msgs)
  BY <1>1 DEF TypeOK
<1>6. QED
  BY <1>1, <1>2, <1>3, <1>4, <1>5 DEF File

\* Nothing changes on the way to a worker.
LEMMA SameWay ==
  ASSUME NEW i \in Plugins, NEW v \in Workers,
         CoresOf[i] = {v} => json'[i] = json[i],
         jwb'[v][i] = jwb[v][i], ring_rxs'[i][v][1] = ring_rxs[i][v][1]
  PROVE  Way(i, v)' = Way(i, v)
  BY DEF Way, File

\* A worker moves the packets of its plugins on.
LEMMA PollOrder ==
  ASSUME TypeOK, nb_masters = 1, NEW w \in Workers, wi[w] \in Mine(w), Poll(w),
         CurrentRing(w) # <<>>, NEW i \in Plugins, NEW v \in Workers, NEW x, NEW y
  PROVE  Follows(Way(i, v)', x, y) => Follows(Way(i, v), x, y)
<1>1. PICK j \in Plugins : j = wi[w] /\ w \in CoresOf[j]
  BY DEF Mine
<1>2. wm[w] = 1
  BY DEF TypeOK, Masters
<1>3. PICK f, b, r : f = File(j, w) /\ b = jwb[w][j] /\ r = ring_rxs[j][w][1]
  OBVIOUS
<1>4. /\ f \in Seq(Msgs) /\ b \in Seq(Msgs) /\ r \in Seq(Msgs) /\ r # <<>>
      /\ CurrentRing(w) = r /\ 1 \in Masters
  BY <1>1, <1>2, <1>3, WayTypes DEF CurrentRing
<1>5. \A a \in Plugins, c \in Workers :
        ring_rxs'[a][c][1] = IF a = j /\ c = w THEN Tail(r) ELSE ring_rxs[a][c][1]
  <2>1. ring_rxs \in [Plugins -> [Workers -> [Masters -> Seq(Msgs)]]] /\ Tail(r) \in Seq(Msgs)
    BY <1>4 DEF TypeOK
  <2>2. ring_rxs' = [ring_rxs EXCEPT ![j][w][1] = Tail(r)]
    BY <1>1, <1>2, <1>3 DEF Poll, CurrentRing
  <2>3. QED
    BY <1>4, <2>1, <2>2, ThreeLevels
<1>6. json \in [Plugins -> Seq(Msgs)] /\ jwb \in [Workers -> [Plugins -> Seq(Msgs)]]
  BY DEF TypeOK
<1>7. \/ /\ json' = [json EXCEPT ![j] = @ \o b]
         /\ jwb' = [jwb EXCEPT ![w][j] = <<Head(r)>>]
      \/ /\ json' = json
         /\ jwb' = [jwb EXCEPT ![w][j] = Append(@, Head(r))]
  BY <1>1, <1>3, <1>4 DEF Poll, LogJson
<1>8. /\ \A a \in Plugins : a # j => json'[a] = json[a]
      /\ \A a \in Plugins, c \in Workers : a # j \/ c # w => jwb'[c][a] = jwb[c][a]
  BY <1>6, <1>7, SMTT(30)
<1>9. CASE i = j /\ v = w
  <2>1. Way(i, v) = f \o b \o r
    BY <1>3, <1>9 DEF Way
  <2>2. Way(i, v)' = File(j, w)' \o jwb'[w][j] \o Tail(r)
    BY <1>5, <1>9 DEF Way
  <2>3. \/ (File(j, w)' = f \o b \/ File(j, w)' = <<>>) /\ jwb'[w][j] = <<Head(r)>>
        \/ File(j, w)' = f /\ jwb'[w][j] = Append(b, Head(r))
    <3>1. \/ json'[j] = json[j] \o b /\ jwb'[w][j] = <<Head(r)>>
          \/ json'[j] = json[j] /\ jwb'[w][j] = Append(b, Head(r))
      BY <1>3, <1>6, <1>7
    <3>2. /\ CoresOf[j] = {w} => f = json[j] /\ File(j, w)' = json'[j]
          /\ CoresOf[j] # {w} => f = <<>> /\ File(j, w)' = <<>>
      BY <1>3 DEF File
    <3>3. QED
      BY <3>1, <3>2
  <2>4. Follows(File(j, w)' \o jwb'[w][j] \o Tail(r), x, y) => Follows(f \o b \o r, x, y)
    BY <1>4, <2>3, WayMoves, ZenonT(60)
  <2>5. QED
    BY <2>1, <2>2, <2>4
<1>10. CASE i # j \/ v # w
  <2>1. CoresOf[i] = {v} => i # j
    BY <1>1, <1>10
  <2>2. /\ CoresOf[i] = {v} => json'[i] = json[i]
        /\ jwb'[v][i] = jwb[v][i]
    BY <1>8, <1>10, <2>1
  <2>3. ring_rxs'[i][v][1] = ring_rxs[i][v][1]
    BY <1>5, <1>10
  <2>4. Way(i, v)' = Way(i, v)
    BY <2>2, <2>3, SameWay
  <2>5. QED
    BY <2>4
<1>11. QED
  BY <1>9, <1>10

LEMMA StopOrder ==
  ASSUME TypeOK, nb_masters = 1, NEW w \in Workers, Stop(w),
         NEW i \in Plugins, NEW v \in Workers, NEW x, NEW y
  PROVE  Follows(Way(i, v)', x, y) => Follows(Way(i, v), x, y)
<1>1. /\ json' = json /\ ring_rxs' = ring_rxs
      /\ jwb' = [jwb EXCEPT ![w] = [j \in Plugins |-> <<>>]]
      /\ jwb \in [Workers -> [Plugins -> Seq(Msgs)]]
  BY DEF Stop, TypeOK, rings
<1>2. CASE v = w
  <2>1. jwb'[v][i] = <<>>
    BY <1>1, <1>2
  <2>2. Way(i, v)' = File(i, v) \o <<>> \o ring_rxs[i][v][1]
    BY <1>1, <2>1 DEF Way, File
  <2>3. Follows(File(i, v) \o <<>> \o ring_rxs[i][v][1], x, y) => Follows(Way(i, v), x, y)
    BY WayTypes, WayDrains DEF Way
  <2>4. QED
    BY <2>2, <2>3
<1>3. CASE v # w
  <2>1. jwb'[v][i] = jwb[v][i]
    BY <1>1, <1>3
  <2>2. Way(i, v)' = Way(i, v)
    BY <1>1, <2>1, SameWay
  <2>3. QED
    BY <2>2
<1>4. QED
  BY <1>2, <1>3

LEMMA GoOnOrder ==
  ASSUME TypeOK, nb_masters = 1, NEW w \in Workers, wi[w] \in Mine(w),
         NEW report \in BOOLEAN, NEW flush \in BOOLEAN, GoOn(w, report, flush),
         NEW i \in Plugins, NEW v \in Workers, NEW x, NEW y
  PROVE  Follows(Way(i, v)', x, y) => Follows(Way(i, v), x, y)
<1>1. PICK j \in Plugins : j = wi[w] /\ w \in CoresOf[j]
  BY DEF Mine
<1>2. json \in [Plugins -> Seq(Msgs)] /\ jwb \in [Workers -> [Plugins -> Seq(Msgs)]]
  BY DEF TypeOK
<1>3. ring_rxs' = ring_rxs
  BY DEF GoOn, rings
<1>4. \/ json' = json /\ jwb' = jwb
      \/ json' = [json EXCEPT ![j] = @ \o jwb[w][j]] /\ jwb' = [jwb EXCEPT ![w][j] = <<>>]
  BY <1>1 DEF GoOn
<1>5. CASE json' = json /\ jwb' = jwb
  BY <1>3, <1>5, SameWay
<1>6. CASE json' = [json EXCEPT ![j] = @ \o jwb[w][j]] /\ jwb' = [jwb EXCEPT ![w][j] = <<>>]
  <2>1. /\ \A a \in Plugins : a # j => json'[a] = json[a]
        /\ \A a \in Plugins, c \in Workers : a # j \/ c # w => jwb'[c][a] = jwb[c][a]
        /\ json'[j] = json[j] \o jwb[w][j] /\ jwb'[w][j] = <<>>
    BY <1>2, <1>6
  <2>2. CASE i = j /\ v = w
    <3>1. File(i, v)' = File(i, v) \o jwb[v][i] \/ File(i, v)' = File(i, v)
      BY <2>1, <2>2 DEF File
    <3>2. Way(i, v)' = File(i, v)' \o <<>> \o ring_rxs[i][v][1]
      BY <1>3, <2>1, <2>2 DEF Way
    <3>3. Follows(File(i, v)' \o <<>> \o ring_rxs[i][v][1], x, y) => Follows(Way(i, v), x, y)
      BY <3>1, WayTypes, WayDrains DEF Way
    <3>4. QED
      BY <3>2, <3>3
  <2>3. CASE i # j \/ v # w
    <3>1. CoresOf[i] = {v} => i # j
      BY <1>1, <2>3
    <3>2. Way(i, v)' = Way(i, v)
      BY <1>3, <2>1, <2>3, <3>1, SameWay
    <3>3. QED
      BY <3>2
  <2>4. QED
    BY <2>2, <2>3
<1>7. QED
  BY <1>4, <1>5, <1>6

\* What arrived is what is in the temp lines of the only master.
LEMMA ArrivedAtOne ==
  ASSUME TypeOK, nb_masters = 1, NEW i \in Plugins
  PROVE  /\ TempSeq(i) \in Seq(Msgs)
         /\ \A x : x \in Arrived(i) <=> x \in ToSet(TempSeq(i))
<1>1. temp[i] \in Seq(Msgs) /\ twb[1][i] \in Seq(Msgs) /\ Masters = {1}
  <2>1. PICK w \in Workers : TRUE
    BY PipelineAssumption
  <2>2. QED
    BY WayTypes
<1>2. TempSeq(i) \in Seq(Msgs) /\ ToSet(TempSeq(i)) = ToSet(temp[i]) \union ToSet(twb[1][i])
  BY <1>1, JoinQueues DEF TempSeq
<1>3. \A x : x \in Arrived(i) <=> x \in ToSet(temp[i]) \/ x \in ToSet(twb[1][i])
  BY <1>1, WhatLines DEF Arrived
<1>4. QED
  BY <1>2, <1>3

\* What a worker has arrived before.
LEMMA WayArrived ==
  ASSUME LogInv, nb_masters = 1, mpc[1] # "done", NEW i \in Plugins, NEW w \in Workers
  PROVE  /\ Way(i, w) \in Seq(Msgs)
         /\ \A x \in ToSet(Way(i, w)) : x \in Arrived(i)
<1>1. TypeOK
  BY DEF LogInv, OwnerInv
<1>2. /\ Masters = {1}
      /\ json[i] \in Seq(Msgs) /\ File(i, w) \in Seq(Msgs)
      /\ jwb[w][i] \in Seq(Msgs) /\ ring_rxs[i][w][1] \in Seq(Msgs)
  BY <1>1, WayTypes
<1>3. /\ Way(i, w) \in Seq(Msgs)
      /\ \A x : x \in ToSet(Way(i, w)) <=>
           x \in ToSet(File(i, w)) \/ x \in ToSet(jwb[w][i]) \/ x \in ToSet(ring_rxs[i][w][1])
  BY <1>2, FollowsThree DEF Way
<1>4. Alive
  BY <1>2 DEF Alive
<1>5. \A x : x \in ToSet(File(i, w)) \/ x \in ToSet(jwb[w][i]) => x \in Logged(i)
  BY EmptyQueue, WhatLines DEF File, Logged
<1>6. \A x \in ToSet(ring_rxs[i][w][1]) : x \in Arrived(i)
  BY <1>2, <1>4 DEF LogInv, AliveInv
<1>7. \A x \in Logged(i) : x \in Arrived(i)
  BY <1>4 DEF LogInv, AliveInv
<1>8. QED
  BY <1>3, <1>5, <1>6, <1>7

\* A worker has a packet that is not with the master, and not given back, in no place.
LEMMA NotOnTheWay ==
  ASSUME LogInv, nb_masters = 1, NEW i \in Plugins, NEW w \in Workers,
         mbuf[1] # None
  PROVE  \A x \in ToSet(Way(i, w)) : x # mbuf[1]
<1>1. TypeOK /\ SingleOwner /\ JsonInv
  BY DEF LogInv, OwnerInv
<1>2. /\ Masters = {1}
      /\ json[i] \in Seq(Msgs) /\ File(i, w) \in Seq(Msgs)
      /\ jwb[w][i] \in Seq(Msgs) /\ ring_rxs[i][w][1] \in Seq(Msgs)
  BY <1>1, WayTypes
<1>3. \A x : x \in ToSet(Way(i, w)) <=>
        x \in ToSet(File(i, w)) \/ x \in ToSet(jwb[w][i]) \/ x \in ToSet(ring_rxs[i][w][1])
  BY <1>2, FollowsThree DEF Way
<1>4. \A x : x \in ToSet(File(i, w)) \/ x \in ToSet(jwb[w][i]) => x \in Logged(i)
  BY EmptyQueue, WhatLines DEF File, Logged
<1>5. PICK z \in Msgs : z = mbuf[1]
  BY <1>1, <1>2 DEF TypeOK
<1>6. z \notin freed /\ \A q \in Ring : z \in ToSet(RingAt(q)) => <<"mbuf", 1>> = <<"ring", q>>
  <2>1. <<"mbuf", 1>> \in Pointers(z)
    BY <1>2, <1>5, WhoPoints
  <2>2. QED
    BY <1>1, <2>1, OnlyOwner
<1>7. z \notin ToSet(ring_rxs[i][w][1])
  <2>1. RxRing(i, w, 1) \in Ring /\ RingAt(RxRing(i, w, 1)) = ring_rxs[i][w][1]
    BY <1>2 DEF RxRing, Ring, RingAt
  <2>2. QED
    BY <1>6, <2>1
<1>8. z \notin Logged(i)
  BY <1>1, <1>6 DEF JsonInv
<1>9. QED
  BY <1>3, <1>4, <1>5, <1>7, <1>8

\* A step that leaves the master's packets alone.
LEMMA OrderKeptIf ==
  ASSUME WayOrder, Behind, UNCHANGED <<temp, twb>>, mbuf'[1] = mbuf[1] \/ mbuf'[1] = None,
         \A i \in Plugins, w \in Workers :
           \A x, y : Follows(Way(i, w)', x, y) => Follows(Way(i, w), x, y)
  PROVE  WayOrder' /\ Behind'
<1>1. \A i \in Plugins : Arrived(i)' = Arrived(i) /\ TempSeq(i)' = TempSeq(i)
  BY DEF Arrived, TempSeq
<1>2. WayOrder'
  BY <1>1 DEF WayOrder
<1>3. Behind'
  BY DEF Behind, Arrived, TempSeq
<1>4. QED
  BY <1>2, <1>3

\* The packet goes behind all that its plugin has.
LEMMA TakeOrder ==
  ASSUME LogInv, nb_masters = 1, Take(1), WayOrder, Behind
  PROVE  WayOrder' /\ Behind'
<1>1. TypeOK /\ 1 \in Masters
  BY DEF LogInv, OwnerInv, Masters
<1>2. UNCHANGED <<json, jwb, ring_rxs>> /\ rec_ring[1] \in Seq(Msgs) /\ rec_ring[1] # <<>>
  BY <1>1 DEF Take, workers, TypeOK
<1>3. \A i \in Plugins, w \in Workers : Way(i, w)' = Way(i, w)
  BY <1>2 DEF Way, File
<1>4. PICK z \in Msgs : z = Head(rec_ring[1])
  BY <1>2
<1>5. CASE PluginOf[z] = 0
  <2>1. UNCHANGED <<temp, twb, mbuf>>
    BY <1>4, <1>5 DEF Take, masters
  <2>2. QED
    BY <1>3, <2>1, OrderKeptIf
<1>6. CASE PluginOf[z] # 0
  <2>1. PICK j \in Plugins : j = PluginOf[z]
    BY <1>6, PipelineAssumption
  <2>2. mbuf'[1] = z /\ LogTemp(1, j, z)
    BY <1>1, <1>4, <1>6, <2>1 DEF Take, TypeOK
  <2>3. temp \in [Plugins -> Seq(Msgs)] /\ twb \in [Masters -> [Plugins -> Seq(Msgs)]]
    BY <1>1 DEF TypeOK
  <2>4. temp[j] \in Seq(Msgs) /\ twb[1][j] \in Seq(Msgs)
    BY <1>1, <2>3
  <2>5. /\ \A i \in Plugins : i # j => temp'[i] = temp[i] /\ twb'[1][i] = twb[1][i]
        /\ \/ temp'[j] = temp[j] \o twb[1][j] /\ twb'[1][j] = <<z>>
           \/ temp'[j] = temp[j] /\ twb'[1][j] = Append(twb[1][j], z)
    <3>1. \/ /\ temp' = [temp EXCEPT ![j] = @ \o twb[1][j]]
             /\ twb' = [twb EXCEPT ![1][j] = <<z>>]
          \/ /\ temp' = temp
             /\ twb' = [twb EXCEPT ![1][j] = Append(@, z)]
      BY <2>2 DEF LogTemp
    <3>2. QED
      BY <1>1, <2>3, <3>1
  <2>6. /\ TempSeq(j) \in Seq(Msgs)
        /\ \A x : x \in Arrived(j) <=> x \in ToSet(TempSeq(j))
    BY <1>1, ArrivedAtOne
  <2>7. TempSeq(j)' = Append(TempSeq(j), z)
    <3>1. CASE temp'[j] = temp[j] \o twb[1][j] /\ twb'[1][j] = <<z>>
      <4>1. TempSeq(j)' = TempSeq(j) \o <<z>>
        BY <3>1 DEF TempSeq
      <4>2. QED
        BY <2>6, <4>1, AppendIsConcat
    <3>2. CASE temp'[j] = temp[j] /\ twb'[1][j] = Append(twb[1][j], z)
      <4>1. TempSeq(j)' = temp[j] \o (twb[1][j] \o <<z>>)
        BY <2>4, <3>2, AppendIsConcat DEF TempSeq
      <4>2. <<z>> \in Seq(Msgs)
        OBVIOUS
      <4>3. temp[j] \o (twb[1][j] \o <<z>>) = (temp[j] \o twb[1][j]) \o <<z>>
        BY <2>4, <4>2, ThreeQueues
      <4>4. TempSeq(j)' = TempSeq(j) \o <<z>>
        BY <4>1, <4>3 DEF TempSeq
      <4>5. QED
        BY <2>6, <4>4, AppendIsConcat
    <3>3. QED
      BY <2>5, <3>1, <3>2
  <2>8. \A x, y : Follows(TempSeq(j)', x, y) <=>
                    Follows(TempSeq(j), x, y) \/ (x \in ToSet(TempSeq(j)) /\ y = z)
    BY <2>6, <2>7, FollowsAppend
  <2>9. \A x : x \in ToSet(TempSeq(j)') <=> x \in ToSet(TempSeq(j)) \/ x = z
    BY <2>6, <2>7, FollowsAppend
  <2>10. \A x : x \in Arrived(j)' <=> x \in ToSet(TempSeq(j)')
    <3>1. temp'[j] \in Seq(Msgs) /\ twb'[1][j] \in Seq(Msgs)
      <4>1. <<z>> \in Seq(Msgs) /\ Append(twb[1][j], z) \in Seq(Msgs)
        BY <2>4
      <4>2. temp[j] \o twb[1][j] \in Seq(Msgs)
        BY <2>4
      <4>3. QED
        BY <2>4, <2>5, <4>1, <4>2
    <3>2. ToSet(TempSeq(j)') = ToSet(temp'[j]) \union ToSet(twb'[1][j])
      BY <3>1, JoinQueues DEF TempSeq
    <3>3. \A x : x \in Arrived(j)' <=> x \in ToSet(temp'[j]) \/ x \in ToSet(twb'[1][j])
      BY WhatLines DEF Arrived, Masters
    <3>4. QED
      BY <3>2, <3>3
  <2>11. WayOrder'
    <3> SUFFICES ASSUME NEW i \in Plugins, NEW w \in Workers, NEW x, NEW y,
                        Follows(Way(i, w), x, y)
                 PROVE  Follows(TempSeq(i)', x, y)
      BY <1>3 DEF WayOrder
    <3>1. Follows(TempSeq(i), x, y)
      BY DEF WayOrder
    <3>2. CASE i = j
      BY <2>8, <3>1, <3>2
    <3>3. CASE i # j
      BY <2>5, <3>1, <3>3 DEF TempSeq
    <3>4. QED
      BY <3>2, <3>3
  <2>12. Behind'
    <3> SUFFICES ASSUME NEW x, x \in Arrived(j)', x # z
                 PROVE  Follows(TempSeq(j)', x, z)
      BY <2>1, <2>2 DEF Behind
    <3>1. QED
      BY <2>8, <2>9, <2>10
  <2>13. QED
    BY <2>11, <2>12
<1>7. QED
  BY <1>5, <1>6

\* A drained buffer is where it was, at the end of the temp lines.
LEMMA SweepOrder ==
  ASSUME LogInv, nb_masters = 1, Sweep(1), mpc'[1] # "done", WayOrder
  PROVE  WayOrder' /\ Behind'
<1>1. TypeOK /\ Holding /\ 1 \in Masters
  BY DEF LogInv, OwnerInv, Masters
<1>2. UNCHANGED <<json, jwb, ring_rxs, mbuf>> /\ mbuf[1] = None
  BY <1>1 DEF Sweep, workers, rings, Holding
<1>3. PICK j \in Plugins : j = mi[1]
  BY <1>1 DEF TypeOK
<1>4. temp \in [Plugins -> Seq(Msgs)] /\ twb \in [Masters -> [Plugins -> Seq(Msgs)]]
      /\ mpc \in [Masters -> {"top", "send", "sweep", "done"}]
  BY <1>1 DEF TypeOK
<1>5. /\ temp' = [temp EXCEPT ![j] = @ \o twb[1][j]]
      /\ twb' = [twb EXCEPT ![1][j] = <<>>]
  BY <1>1, <1>3, <1>4 DEF Sweep
<1>6. /\ \A i \in Plugins : i # j => temp'[i] = temp[i] /\ twb'[1][i] = twb[1][i]
      /\ temp'[j] = temp[j] \o twb[1][j] /\ twb'[1][j] = <<>>
  BY <1>1, <1>4, <1>5
<1>7. TempSeq(j)' = TempSeq(j)
  <2>1. temp[j] \o twb[1][j] \in Seq(Msgs)
    BY <1>1, ArrivedAtOne DEF TempSeq
  <2>2. (temp[j] \o twb[1][j]) \o <<>> = temp[j] \o twb[1][j]
    BY <2>1
  <2>3. QED
    BY <1>6, <2>2 DEF TempSeq
<1>8. \A i \in Plugins : TempSeq(i)' = TempSeq(i)
  BY <1>6, <1>7 DEF TempSeq
<1>9. \A i \in Plugins, w \in Workers : Way(i, w)' = Way(i, w)
  BY <1>2 DEF Way, File
<1>10. WayOrder'
  BY <1>8, <1>9 DEF WayOrder
<1>11. Behind'
  BY <1>2 DEF Behind
<1>12. QED
  BY <1>10, <1>11

\* What the master sends goes behind all the worker has, and is behind it in the temp lines.
LEMMA SendOrder ==
  ASSUME LogInv, nb_masters = 1, NEW u \in Workers, NEW due \in BOOLEAN, Send(1, u, due),
         WayOrder, Behind
  PROVE  WayOrder' /\ Behind'
<1>1. TypeOK /\ Holding /\ 1 \in Masters /\ mpc[1] # "done"
  BY DEF LogInv, OwnerInv, Masters, Send
<1>2. UNCHANGED <<json, jwb, temp, twb>> /\ mbuf'[1] = None
  BY <1>1 DEF Send, workers, TypeOK
<1>3. PICK z \in Msgs : z = mbuf[1] /\ z # None /\ PluginOf[z] # 0
  BY <1>1 DEF Send, Holding, TypeOK
<1>4. PICK j \in Plugins : j = PluginOf[z]
  BY <1>3, PipelineAssumption
<1>5. \A i \in Plugins, w \in Workers :
        \/ ring_rxs'[i][w][1] = ring_rxs[i][w][1]
        \/ i = j /\ ring_rxs'[i][w][1] = Append(ring_rxs[i][w][1], z)
  <2>1. ring_rxs \in [Plugins -> [Workers -> [Masters -> Seq(Msgs)]]]
    BY <1>1 DEF TypeOK
  <2>2. \/ ring_rxs' = ring_rxs
        \/ ring_rxs' = [ring_rxs EXCEPT ![j][u][1] = Append(ring_rxs[j][u][1], z)]
    BY <1>3, <1>4 DEF Send
  <2>3. Append(ring_rxs[j][u][1], z) \in Seq(Msgs)
    <3>1. ring_rxs[j][u][1] \in Seq(Msgs)
      BY <1>1, WayTypes
    <3>2. QED
      BY <3>1
  <2>4. CASE ring_rxs' = [ring_rxs EXCEPT ![j][u][1] = Append(ring_rxs[j][u][1], z)]
    <3>1. \A i \in Plugins, w \in Workers :
            ring_rxs'[i][w][1] = IF i = j /\ w = u THEN Append(ring_rxs[j][u][1], z)
                                 ELSE ring_rxs[i][w][1]
      BY <1>1, <2>1, <2>3, <2>4, ThreeLevels
    <3>2. QED
      BY <3>1
  <2>5. QED
    BY <2>2, <2>4
<1>6. ASSUME NEW i \in Plugins, NEW w \in Workers, NEW x, NEW y, Follows(Way(i, w)', x, y)
      PROVE  Follows(TempSeq(i), x, y)
  <2>1. CASE ring_rxs'[i][w][1] = ring_rxs[i][w][1]
    <3>1. Way(i, w)' = Way(i, w)
      BY <1>2, <2>1 DEF Way, File
    <3>2. QED
      BY <1>6, <3>1 DEF WayOrder
  <2>2. CASE i = j /\ ring_rxs'[i][w][1] = Append(ring_rxs[i][w][1], z)
    <3>1. PICK f, b, r : f = File(i, w) /\ b = jwb[w][i] /\ r = ring_rxs[i][w][1]
      OBVIOUS
    <3>2. f \in Seq(Msgs) /\ b \in Seq(Msgs) /\ r \in Seq(Msgs)
      BY <1>1, <3>1, WayTypes
    <3>3. Way(i, w)' = f \o b \o Append(r, z) /\ Way(i, w) = f \o b \o r
      BY <1>2, <2>2, <3>1 DEF Way, File
    <3>4. f \o b \in Seq(Msgs) /\ <<z>> \in Seq(Msgs)
      BY <3>2
    <3>5. Way(i, w)' = Append(Way(i, w), z)
      <4>1. Append(r, z) = r \o <<z>>
        BY <3>2, AppendIsConcat
      <4>2. (f \o b) \o (r \o <<z>>) = ((f \o b) \o r) \o <<z>>
        BY <3>2, <3>4, ThreeQueues
      <4>3. Way(i, w) \in Seq(Msgs)
        BY <1>1, WayArrived
      <4>4. Append(Way(i, w), z) = Way(i, w) \o <<z>>
        BY <4>3, AppendIsConcat
      <4>5. QED
        BY <3>3, <4>1, <4>2, <4>4
    <3>6. Way(i, w) \in Seq(Msgs) /\ \A a \in ToSet(Way(i, w)) : a \in Arrived(i) /\ a # z
      BY <1>1, <1>3, WayArrived, NotOnTheWay
    <3>7. Follows(Way(i, w), x, y) \/ (x \in ToSet(Way(i, w)) /\ y = z)
      BY <1>6, <3>5, <3>6, FollowsAppend
    <3>8. CASE Follows(Way(i, w), x, y)
      BY <3>8, SMTT(30) DEF WayOrder
    <3>9. CASE x \in ToSet(Way(i, w)) /\ y = z
      BY <1>3, <1>4, <2>2, <3>6, <3>9 DEF Behind
    <3>10. QED
      BY <3>7, <3>8, <3>9
  <2>3. QED
    BY <1>5, <2>1, <2>2
<1>7. WayOrder'
  BY <1>2, <1>6 DEF WayOrder, TempSeq
<1>8. Behind'
  BY <1>2 DEF Behind
<1>9. QED
  BY <1>7, <1>8

LEMMA InitOrder == Init => OrderInv
<1> SUFFICES ASSUME Init, nb_masters = 1 PROVE WayOrder /\ Behind
  BY DEF OrderInv
<1>1. 1 \in Masters
  BY DEF Masters
<1>2. Behind
  BY <1>1 DEF Init, Behind
<1>3. \A i \in Plugins, w \in Workers : Way(i, w) = <<>>
  <2> SUFFICES ASSUME NEW i \in Plugins, NEW w \in Workers PROVE Way(i, w) = <<>>
    OBVIOUS
  <2>1. File(i, w) = <<>> /\ jwb[w][i] = <<>> /\ ring_rxs[i][w][1] = <<>>
    BY <1>1 DEF Init, File
  <2>2. QED
    BY <2>1 DEF Way
<1>4. WayOrder
  BY <1>3, FollowsShort DEF WayOrder
<1>5. QED
  BY <1>2, <1>4

LEMMA NextOrder == LogInv /\ CountInv /\ OrderInv /\ [Next]_vars => OrderInv'
<1> SUFFICES ASSUME LogInv, CountInv, OrderInv, [Next]_vars, nb_masters = 1, mpc'[1] # "done"
             PROVE  WayOrder' /\ Behind'
  BY DEF OrderInv
<1> USE DEF receivers, masters, workers, rings
<1>1. TypeOK /\ Masters = {1} /\ mpc \in [Masters -> {"top", "send", "sweep", "done"}]
  BY DEF LogInv, OwnerInv, Masters, TypeOK
<1>2. ASSUME mpc[1] # "done", UNCHANGED <<temp, twb, mbuf, json, jwb, ring_rxs>>
      PROVE  WayOrder' /\ Behind'
  <2>1. \A i \in Plugins, w \in Workers : Way(i, w)' = Way(i, w)
    BY <1>2 DEF Way, File
  <2>2. WayOrder /\ Behind
    BY <1>2 DEF OrderInv
  <2>3. QED
    BY <1>2, <2>1, <2>2, OrderKeptIf
<1>3. ASSUME NEW m \in Masters, Dispatch(m) PROVE WayOrder' /\ Behind'
  <2>1. m = 1
    BY <1>1, <1>3, SMTT(30)
  <2>2. mpc[1] # "done"
    BY <1>3, <2>1 DEF Dispatch, Take, NothingToTake, Sweep, Send
  <2>3. WayOrder /\ Behind
    BY <2>2 DEF OrderInv
  <2>4. CASE Take(1)
    BY <2>3, <2>4, TakeOrder
  <2>5. CASE NothingToTake(1)
    BY <1>2, <2>2, <2>5 DEF NothingToTake
  <2>6. CASE Sweep(1)
    BY <2>3, <2>6, SweepOrder
  <2>7. ASSUME NEW w \in Workers, NEW due \in BOOLEAN, Send(1, w, due)
        PROVE  WayOrder' /\ Behind'
    BY <2>3, <2>7, SendOrder
  <2>8. QED
    BY <1>3, <2>1, <2>4, <2>5, <2>6, <2>7 DEF Dispatch
<1>4. ASSUME NEW w \in Workers, Work(w) PROVE WayOrder' /\ Behind'
  <2>1. UNCHANGED <<temp, twb, mbuf, mpc>>
    BY <1>4 DEF Work, Poll, Stop, GoOn
  <2>2. mpc[1] # "done" /\ WayOrder /\ Behind
    BY <2>1 DEF OrderInv
  <2>3. wpc[w] # "done" => wi[w] \in Mine(w)
    BY DEF CountInv
  <2>4. CASE Poll(w) /\ CurrentRing(w) = <<>>
    BY <1>2, <2>1, <2>2, <2>4 DEF Poll
  <2>5. ASSUME \A i \in Plugins, v \in Workers :
                 \A x, y : Follows(Way(i, v)', x, y) => Follows(Way(i, v), x, y)
        PROVE  WayOrder' /\ Behind'
    BY <2>1, <2>2, <2>5, OrderKeptIf
  <2>6. CASE Poll(w) /\ CurrentRing(w) # <<>>
    <3>1. wi[w] \in Mine(w)
      BY <2>3, <2>6 DEF Poll
    <3>2. QED
      BY <1>1, <2>5, <2>6, <3>1, PollOrder
  <2>7. CASE Stop(w)
    BY <1>1, <2>5, <2>7, StopOrder
  <2>8. ASSUME NEW report \in BOOLEAN, NEW flush \in BOOLEAN, GoOn(w, report, flush)
        PROVE  WayOrder' /\ Behind'
    <3>1. wi[w] \in Mine(w)
      BY <2>3, <2>8 DEF GoOn
    <3>2. QED
      BY <1>1, <2>5, <2>8, <3>1, GoOnOrder
  <2>9. QED
    BY <1>4, <2>4, <2>6, <2>7, <2>8 DEF Work
<1>5. ASSUME NEW r \in Receivers, Receive(r) PROVE WayOrder' /\ Behind'
  <2>1. UNCHANGED <<temp, twb, mbuf, mpc, json, jwb, ring_rxs>>
    BY <1>5 DEF Receive, Recv, PassOn, StopReceiving
  <2>2. QED
    BY <1>2, <2>1
<1>6. CASE Kill
  BY <1>2, <1>6 DEF Kill
<1>7. CASE UNCHANGED vars
  BY <1>2, <1>7 DEF vars
<1>8. QED
  BY <1>3, <1>4, <1>5, <1>6, <1>7 DEF Next

\* With one master and any number of other threads, rings and packets: two logs that
\* are one behind the other in a worker's ring, buffer or own json file have the same
\* order in the temp lines of their plugin (main_loop, worker_loop).
THEOREM LogsKeepTheirOrder == Spec => []OrderKept
<1>1. LogInv /\ OrderInv => OrderKept
  <2> SUFFICES ASSUME LogInv, OrderInv, nb_masters = 1, NEW i \in Plugins, NEW w \in Workers
               PROVE  mpc[1] # "done" =>
                        \A j, k \in 1 .. Len(Way(i, w)) : j < k =>
                          \E a, b \in 1 .. Len(TempSeq(i)) :
                            a < b /\ TempSeq(i)[a] = Way(i, w)[j] /\ TempSeq(i)[b] = Way(i, w)[k]
    BY DEF OrderKept, Way, File, TempSeq
  <2> SUFFICES ASSUME mpc[1] # "done"
               PROVE  \A j, k \in 1 .. Len(Way(i, w)) : j < k =>
                        \E a, b \in 1 .. Len(TempSeq(i)) :
                          a < b /\ TempSeq(i)[a] = Way(i, w)[j] /\ TempSeq(i)[b] = Way(i, w)[k]
    OBVIOUS
  <2> DEFINE s == Way(i, w)
             u == TempSeq(i)
  <2>1. s = Way(i, w) /\ u = TempSeq(i)
    OBVIOUS
  <2> HIDE DEF s, u
  <2>2. s \in Seq(Msgs) /\ u \in Seq(Msgs)
    BY <2>1, WayArrived, ArrivedAtOne DEF LogInv, OwnerInv
  <2>3. \A x, y : Follows(s, x, y) => Follows(u, x, y)
    BY <2>1 DEF OrderInv, WayOrder
  <2>4. ASSUME NEW j \in 1 .. Len(s), NEW k \in 1 .. Len(s), j < k
        PROVE  \E a, b \in 1 .. Len(u) : a < b /\ u[a] = s[j] /\ u[b] = s[k]
    <3>1. Follows(s, s[j], s[k])
      BY <2>2, <2>4 DEF Follows
    <3>2. Follows(u, s[j], s[k])
      BY <2>3, <3>1
    <3>3. QED
      BY <2>2, <3>2 DEF Follows
  <2>5. QED
    BY <2>4 DEF s, u
<1>2. QED
  BY <1>1, InitLogs, NextLogs, InitCount, NextCount, InitOrder, NextOrder, PTL DEF Spec
=============================================================================
