------------------------------ MODULE Pipeline ------------------------------
(***************************************************************************)
(* The threads of logcollector.c and the packets that travel between them: *)
(*                                                                         *)
(*   socket -> receiver_loop -> receiver_rings[master] -> main_loop        *)
(*          -> plugin->ring_rxs[worker][master] -> worker_loop -> files    *)
(*                                                                         *)
(* A packet (struct lbuf) is one datagram.  The threads own it in turn;    *)
(* whoever ends its way frees it.  Rings are the bounded FIFO queues that  *)
(* RingQueue specifies and that Ring implements for one producer and one   *)
(* consumer.  Every thread has its own write buffers, drained into the     *)
(* plugin's temp file (masters) or json file (workers); FileRotation shows *)
(* what happens below these files.                                         *)
(*                                                                         *)
(* The one-second timers fire at any pass of their loop.  Matching a log   *)
(* against the regular expressions is not modelled here.                   *)
(***************************************************************************)
EXTENDS Naturals, Sequences, FiniteSets, SequencesExt

CONSTANTS
  Receivers,    \* the receiver thread, as a set
  nb_masters,   \* how many masters; master m owns receiver_rings[m]
  Workers,      \* the worker threads
  plugin_cnt,   \* how many plugins
  Msgs,         \* the datagrams that may arrive
  PluginOf,     \* the plugin with the address a datagram comes from, or 0
  CoresOf,      \* core_ids of each plugin: the workers it runs on
  RecCapacity,  \* of a receiver ring
  RxCapacity,   \* of a ring between a master and a worker
  Burst,        \* MAX_LOG_BURST
  None          \* no packet

Masters == 1 .. nb_masters
Plugins == 1 .. plugin_cnt

\* One receiver: PassOn enqueues in one step, which the code does not when a second
\* receiver enqueues on the same ring (Ring has the steps of both).
ASSUME PipelineAssumption ==
  /\ \E r \in Receivers : Receivers = {r}
  /\ nb_masters \in Nat \ {0} /\ plugin_cnt \in Nat \ {0}
  /\ PluginOf \in [Msgs -> Plugins \union {0}]
  /\ CoresOf \in [Plugins -> (SUBSET Workers) \ {{}}]
  /\ RecCapacity \in Nat /\ RxCapacity \in Nat /\ Burst \in Nat \ {0}
  /\ None \notin Msgs

VARIABLES
  kill_signal,
  net,        \* the datagrams that have not been received
  freed,      \* the packets given back with free()
  tot_free,   \* tot_free_pkt_cnt of each receiver and master
  rpc, rbuf,  \* a receiver: running or not, and the packet it just received
  rec_ring,   \* receiver_rings
  mpc, mbuf,  \* a master: where it is, and the packet it just logged
  mi,         \* the plugin its one-second sweep has come to
  twb, temp,  \* its write buffer per plugin; the temp file of each plugin
  ring_rxs,   \* per plugin, worker and master
  wpc,        \* a worker: where it is
  wi, wm,     \* where its two loops are: plugin and master
  jwb, json   \* its write buffer per plugin; the json file of each plugin

receivers == <<rpc, rbuf>>
masters == <<mpc, mbuf, mi, twb, temp>>
workers == <<wpc, wi, wm, jwb, json>>
rings == <<rec_ring, ring_rxs>>
vars == <<kill_signal, net, freed, tot_free, receivers, masters, workers, rings>>

\* th->plugins, which assign_plugins_to_workers fills in the order of the plugins.
Mine(w) == {i \in Plugins : w \in CoresOf[i]}
IsFirst(i, S) == i \in S /\ \A j \in S : i <= j

Init ==
  /\ kill_signal = FALSE
  /\ net = Msgs /\ freed = {}
  /\ tot_free = [t \in Receivers \union Masters |-> 0]
  /\ rpc = [r \in Receivers |-> "loop"]
  /\ rbuf = [r \in Receivers |-> None]
  /\ rec_ring = [m \in Masters |-> <<>>]
  /\ mpc = [m \in Masters |-> "top"]
  /\ mbuf = [m \in Masters |-> None]
  /\ mi = [m \in Masters |-> 1]
  /\ twb = [m \in Masters |-> [i \in Plugins |-> <<>>]]
  /\ temp = [i \in Plugins |-> <<>>]
  /\ ring_rxs = [i \in Plugins |-> [w \in Workers |-> [m \in Masters |-> <<>>]]]
  /\ wpc = [w \in Workers |-> IF Mine(w) = {} THEN "done" ELSE "poll"]
  /\ wi \in [Workers -> Plugins]
  /\ \A w \in Workers : IsFirst(wi[w], IF Mine(w) = {} THEN {1} ELSE Mine(w))
  /\ wm = [w \in Workers |-> 1]
  /\ jwb = [w \in Workers |-> [i \in Plugins |-> <<>>]]
  /\ json = [i \in Plugins |-> <<>>]

\* signal_handler
Kill ==
  /\ kill_signal' = TRUE
  /\ ~ kill_signal
  /\ UNCHANGED <<net, freed, tot_free, receivers, masters, workers, rings>>

\* free(pkt) after an enqueue that found no room.
DropUncounted(t, pkt) ==
  /\ freed' = freed \union {pkt}
  /\ UNCHANGED tot_free
Drop(t, pkt) ==
  /\ freed' = freed \union {pkt}
  /\ tot_free' = [tot_free EXCEPT ![t] = @ + 1]

-----------------------------------------------------------------------------
(* receiver_loop                                                           *)

Recv(r, msg) ==
  /\ rpc[r] = "loop" /\ rbuf[r] = None /\ ~ kill_signal
  /\ msg \in net
  /\ net' = net \ {msg}
  /\ rbuf' = [rbuf EXCEPT ![r] = msg]
  /\ UNCHANGED <<kill_signal, freed, tot_free, rpc, masters, workers, rings>>

\* The packet goes to the ring of some master; the next one is a new packet.
PassOn(r, m) ==
  /\ rbuf[r] # None
  /\ IF Len(rec_ring[m]) < RecCapacity
     THEN /\ rec_ring' = [rec_ring EXCEPT ![m] = Append(@, rbuf[r])]
          /\ UNCHANGED <<freed, tot_free>>
     ELSE Drop(r, rbuf[r]) /\ UNCHANGED rec_ring
  /\ rbuf' = [rbuf EXCEPT ![r] = None]
  /\ UNCHANGED <<kill_signal, net, rpc, masters, workers, ring_rxs>>

StopReceiving(r) ==
  /\ rpc[r] = "loop" /\ rbuf[r] = None /\ kill_signal
  /\ rpc' = [rpc EXCEPT ![r] = "done"]
  /\ UNCHANGED <<kill_signal, net, freed, tot_free, rbuf, masters, workers, rings>>

-----------------------------------------------------------------------------
(* main_loop                                                               *)

\* A full write buffer is drained before the packet's copy goes in.
LogTemp(m, i, pkt) ==
  IF Len(twb[m][i]) >= Burst
  THEN /\ temp' = [temp EXCEPT ![i] = @ \o twb[m][i]]
       /\ twb' = [twb EXCEPT ![m][i] = <<pkt>>]
  ELSE /\ twb' = [twb EXCEPT ![m][i] = Append(@, pkt)]
       /\ UNCHANGED temp

\* A packet from the receivers.  Of a sender no plugin knows, it is forgotten,
\* neither freed nor counted, and the loop starts over before its timers.
Take(m) ==
  /\ mpc[m] = "top" /\ rec_ring[m] # <<>>
  /\ rec_ring' = [rec_ring EXCEPT ![m] = Tail(@)]
  /\ LET pkt == Head(rec_ring[m])
     IN  IF PluginOf[pkt] = 0
         THEN UNCHANGED masters
         ELSE /\ LogTemp(m, PluginOf[pkt], pkt)
              /\ mbuf' = [mbuf EXCEPT ![m] = pkt]
              /\ mpc' = [mpc EXCEPT ![m] = "send"]
              /\ UNCHANGED mi
  /\ UNCHANGED <<kill_signal, net, freed, tot_free, receivers, workers, ring_rxs>>

\* Whether the second since the last sweep is over when the loop gets there.
Continue(m, due) ==
  /\ mpc' = [mpc EXCEPT ![m] = IF due THEN "sweep" ELSE "top"]
  /\ mi' = [mi EXCEPT ![m] = 1]

\* With nothing to take, a pass before the second is over changes nothing.
NothingToTake(m) ==
  /\ mpc[m] = "top" /\ rec_ring[m] = <<>>
  /\ Continue(m, TRUE)
  /\ UNCHANGED <<kill_signal, net, freed, tot_free, receivers, mbuf, twb, temp, workers, rings>>

\* The packet goes to one of the workers of its plugin.
SendToFull(m, w, due) ==
  /\ mpc[m] = "send"
  /\ LET i == PluginOf[mbuf[m]]
     IN  /\ w \in CoresOf[i]
         /\ IF Len(ring_rxs[i][w][m]) < RxCapacity
            THEN /\ ring_rxs' = [ring_rxs EXCEPT ![i][w][m] = Append(@, mbuf[m])]
                 /\ UNCHANGED <<freed, tot_free>>
            ELSE UNCHANGED <<ring_rxs, freed, tot_free>>
  /\ mbuf' = [mbuf EXCEPT ![m] = None]
  /\ Continue(m, due)
  /\ UNCHANGED <<kill_signal, net, receivers, twb, temp, workers, rec_ring>>
Send(m, w, due) ==
  /\ mpc[m] = "send"
  /\ LET i == PluginOf[mbuf[m]]
     IN  /\ w \in CoresOf[i]
         /\ IF Len(ring_rxs[i][w][m]) < RxCapacity
            THEN /\ ring_rxs' = [ring_rxs EXCEPT ![i][w][m] = Append(@, mbuf[m])]
                 /\ UNCHANGED <<freed, tot_free>>
            ELSE Drop(m, mbuf[m]) /\ UNCHANGED ring_rxs
  /\ mbuf' = [mbuf EXCEPT ![m] = None]
  /\ Continue(m, due)
  /\ UNCHANGED <<kill_signal, net, receivers, twb, temp, workers, rec_ring>>

\* The loop of the sweep over the plugins.
NextPluginTooFar(m) ==
  IF mi[m] <= plugin_cnt
  THEN mi' = [mi EXCEPT ![m] = @ + 1] /\ UNCHANGED mpc
  ELSE Continue(m, FALSE)
NextPlugin(m) ==
  IF mi[m] < plugin_cnt
  THEN mi' = [mi EXCEPT ![m] = @ + 1] /\ UNCHANGED mpc
  ELSE Continue(m, FALSE)

\* The sweep drains the buffer of one plugin, then looks whether to stop: the
\* buffers of the plugins behind it are then given up.
SweepDrained(m) ==
  /\ mpc[m] = "sweep"
  /\ temp' = [temp EXCEPT ![mi[m]] = @ \o twb[m][mi[m]]]
  /\ IF kill_signal /\ rec_ring[m] = <<>>
     THEN /\ mpc' = [mpc EXCEPT ![m] = "done"]
          /\ twb' = [twb EXCEPT ![m] = [i \in Plugins |-> <<>>]]
          /\ UNCHANGED mi
     ELSE NextPlugin(m) /\ UNCHANGED twb
  /\ UNCHANGED <<kill_signal, net, freed, tot_free, receivers, mbuf, workers, rings>>
Sweep(m) ==
  /\ mpc[m] = "sweep"
  /\ temp' = [temp EXCEPT ![mi[m]] = @ \o twb[m][mi[m]]]
  /\ IF kill_signal /\ rec_ring[m] = <<>>
     THEN /\ mpc' = [mpc EXCEPT ![m] = "done"]
          /\ twb' = [twb EXCEPT ![m] = [i \in Plugins |-> <<>>]]
          /\ UNCHANGED mi
     ELSE NextPlugin(m) /\ twb' = [twb EXCEPT ![m][mi[m]] = <<>>]
  /\ UNCHANGED <<kill_signal, net, freed, tot_free, receivers, mbuf, workers, rings>>

-----------------------------------------------------------------------------
(* worker_loop                                                             *)

\* The ring a worker has come to.
CurrentRing(w) == ring_rxs[wi[w]][w][wm[w]]

\* The packet becomes a json line in the write buffer, drained first if full;
\* the line is a copy, so the packet is freed.
LogJsonDirect(w, pkt) ==
  LET i == wi[w]
  IN  IF Len(jwb[w][i]) >= Burst
      THEN json' = [json EXCEPT ![i] = Append(@, pkt)] /\ UNCHANGED jwb
      ELSE /\ jwb' = [jwb EXCEPT ![w][i] = Append(@, pkt)]
           /\ UNCHANGED json
LogJson(w, pkt) ==
  LET i == wi[w]
  IN  IF Len(jwb[w][i]) >= Burst
      THEN /\ json' = [json EXCEPT ![i] = @ \o jwb[w][i]]
           /\ jwb' = [jwb EXCEPT ![w][i] = <<pkt>>]
      ELSE /\ jwb' = [jwb EXCEPT ![w][i] = Append(@, pkt)]
           /\ UNCHANGED json

\* One ring of the current plugin, then on to the ring of the next master.
Poll(w) ==
  /\ wpc[w] = "poll"
  /\ IF CurrentRing(w) = <<>>
     THEN UNCHANGED <<ring_rxs, freed, jwb, json>>
     ELSE /\ ring_rxs' = [ring_rxs EXCEPT ![wi[w]][w][wm[w]] = Tail(@)]
          /\ LogJson(w, Head(CurrentRing(w)))
          /\ freed' = freed \union {Head(CurrentRing(w))}
  /\ IF wm[w] < nb_masters
     THEN wm' = [wm EXCEPT ![w] = @ + 1] /\ UNCHANGED wpc
     ELSE wm' = [wm EXCEPT ![w] = 1] /\ wpc' = [wpc EXCEPT ![w] = "tick"]
  /\ UNCHANGED <<kill_signal, net, tot_free, receivers, masters, wi, rec_ring>>

\* When the report of the last second is due, a killed worker stops as soon as
\* one ring of the current plugin is empty.
StopHereInverted(w) ==
  kill_signal /\ \E m \in Masters : ring_rxs[wi[w]][w][m] # <<>>
StopHere(w) == kill_signal /\ \E m \in Masters : ring_rxs[wi[w]][w][m] = <<>>

\* No write buffer is drained on the way out.
Stop(w) ==
  /\ wpc[w] = "tick" /\ StopHere(w)
  /\ wpc' = [wpc EXCEPT ![w] = "done"]
  /\ jwb' = [jwb EXCEPT ![w] = [i \in Plugins |-> <<>>]]
  /\ UNCHANGED <<kill_signal, net, freed, tot_free, receivers, masters, wi, wm, json, rings>>

\* The next plugin of the worker, or its first one again.
NextOfMine(w) ==
  \E i \in Mine(w) :
    LET later == {j \in Mine(w) : j > wi[w]}
    IN  /\ IsFirst(i, IF later = {} THEN Mine(w) ELSE later)
        /\ wi' = [wi EXCEPT ![w] = i]

\* The worker goes on to its next plugin; a second may have passed for the
\* report ("report") or for the write buffer of the current plugin ("flush").
GoOnForgetful(w, report, flush) ==
  /\ wpc[w] = "tick"
  /\ report => ~ StopHere(w)
  /\ UNCHANGED <<json, jwb>>
  /\ NextOfMine(w)
  /\ wpc' = [wpc EXCEPT ![w] = "poll"]
  /\ UNCHANGED <<kill_signal, net, freed, tot_free, receivers, masters, wm, rings>>
GoOn(w, report, flush) ==
  /\ wpc[w] = "tick"
  /\ report => ~ StopHere(w)
  /\ IF flush
     THEN /\ json' = [json EXCEPT ![wi[w]] = @ \o jwb[w][wi[w]]]
          /\ jwb' = [jwb EXCEPT ![w][wi[w]] = <<>>]
     ELSE UNCHANGED <<json, jwb>>
  /\ NextOfMine(w)
  /\ wpc' = [wpc EXCEPT ![w] = "poll"]
  /\ UNCHANGED <<kill_signal, net, freed, tot_free, receivers, masters, wm, rings>>

-----------------------------------------------------------------------------

Receive(r) ==
  \/ \E msg \in net : Recv(r, msg)
  \/ \E m \in Masters : PassOn(r, m)
  \/ StopReceiving(r)

Dispatch(m) ==
  \/ Take(m) \/ NothingToTake(m) \/ Sweep(m)
  \/ \E w \in Workers, due \in BOOLEAN : Send(m, w, due)

Work(w) ==
  \/ Poll(w) \/ Stop(w)
  \/ \E report, flush \in BOOLEAN : GoOn(w, report, flush)

Next ==
  \/ Kill
  \/ \E r \in Receivers : Receive(r)
  \/ \E m \in Masters : Dispatch(m)
  \/ \E w \in Workers : Work(w)

\* Every thread has a core of its own and never blocks, so it goes on; and time
\* passes, so each timer of a loop that goes on for ever fires again and again.
\* At which plugin a worker's timers fire is left open.
Fairness ==
  /\ \A r \in Receivers :
       WF_vars((\E m \in Masters : PassOn(r, m)) \/ StopReceiving(r))
  /\ \A m \in Masters :
       /\ WF_vars(Dispatch(m))
       /\ SF_vars(NothingToTake(m) \/ \E w \in Workers : Send(m, w, TRUE))
  /\ \A w \in Workers :
       /\ WF_vars(Work(w))
       /\ SF_vars(\E report \in BOOLEAN : GoOn(w, report, TRUE))
       /\ SF_vars(Stop(w) \/ \E flush \in BOOLEAN : GoOn(w, TRUE, flush))

Spec == Init /\ [][Next]_vars
FairSpec == Spec /\ Fairness

-----------------------------------------------------------------------------
(* Properties.                                                             *)

\* Every variable has its type; no loop index of a sweep or a poll runs past the
\* plugins, the workers' lists or the masters.
TypeOK ==
  /\ kill_signal \in BOOLEAN
  /\ net \subseteq Msgs /\ freed \subseteq Msgs
  /\ tot_free \in [Receivers \union Masters -> Nat]
  /\ rpc \in [Receivers -> {"loop", "done"}]
  /\ rbuf \in [Receivers -> Msgs \union {None}]
  /\ rec_ring \in [Masters -> Seq(Msgs)]
  /\ mpc \in [Masters -> {"top", "send", "sweep", "done"}]
  /\ mbuf \in [Masters -> Msgs \union {None}]
  /\ mi \in [Masters -> Plugins]
  /\ twb \in [Masters -> [Plugins -> Seq(Msgs)]]
  /\ temp \in [Plugins -> Seq(Msgs)]
  /\ ring_rxs \in [Plugins -> [Workers -> [Masters -> Seq(Msgs)]]]
  /\ wpc \in [Workers -> {"poll", "tick", "done"}]
  /\ wi \in [Workers -> Plugins]
  /\ wm \in [Workers -> Masters]
  /\ jwb \in [Workers -> [Plugins -> Seq(Msgs)]]
  /\ json \in [Plugins -> Seq(Msgs)]

\* Where the program still points to a packet.
Ring == [place : {"rec"}, m : Masters]
        \union [place : {"rx"}, i : Plugins, w : Workers, m : Masters]
RingAt(q) == IF q.place = "rec" THEN rec_ring[q.m] ELSE ring_rxs[q.i][q.w][q.m]
Pointers(msg) ==
  {<<"rbuf", r>> : r \in {r \in Receivers : rbuf[r] = msg}}
  \union {<<"mbuf", m>> : m \in {m \in Masters : mbuf[m] = msg}}
  \union {<<"ring", q>> : q \in {q \in Ring : msg \in ToSet(RingAt(q))}}

\* A packet has one owner: no two threads or ring slots point to the same lbuf,
\* none points to a freed one, and a packet nobody points to any more has been
\* freed - unless no plugin knows its sender: main_loop forgets those.
SingleOwner ==
  /\ \A q \in Ring : IsInjective(RingAt(q))
  /\ \A msg \in Msgs :
       /\ \A p, q \in Pointers(msg) : p = q
       /\ msg \in net \union freed => Pointers(msg) = {}
       /\ Pointers(msg) = {} /\ PluginOf[msg] # 0 => msg \in net \union freed

\* The lines of a plugin that masters and workers have logged, and the masters'
\* lines that are behind them in a ring.
TempLines(m, i) == ToSet(twb[m][i])
JsonLines(i) == ToSet(json[i]) \union UNION {ToSet(jwb[w][i]) : w \in Workers}
Sent(i) == UNION {ToSet(ring_rxs[i][w][m]) : w \in Workers, m \in Masters}

\* No log reaches a worker before it is in the temp file of its plugin or in a
\* live master's buffer for it; and no file has a log twice or another plugin's.
TempBeforeJson ==
  \A i \in Plugins :
    /\ (\A m \in Masters : mpc[m] # "done") =>
         JsonLines(i) \union Sent(i)
           \subseteq ToSet(temp[i]) \union UNION {TempLines(m, i) : m \in Masters}
    /\ \A msg \in ToSet(temp[i]) \union JsonLines(i) : PluginOf[msg] = i
    /\ IsInjective(temp[i]) /\ IsInjective(json[i])

\* What the counters of dropped packets miss: as long as every worker runs, each
\* freed packet without a json line was dropped by one thread, and the threads'
\* tot_free_pkt_cnt are how many they dropped: together they count what is lost.
DropsCounted ==
  (\A w \in Workers : wpc[w] # "done" \/ Mine(w) = {}) =>
    \E dropper \in [freed \ UNION {JsonLines(i) : i \in Plugins} -> Receivers \union Masters] :
      \A t \in Receivers \union Masters :
        tot_free[t] = Cardinality({msg \in DOMAIN dropper : dropper[msg] = t})

\* Along one way - one master, one worker - the logs of a plugin keep their
\* order, through rings and write buffers: what a worker has behind something
\* else was behind it in the temp lines of their master.  Stated for one master,
\* whose temp lines are then the order of arrival.
OrderKept ==
  nb_masters = 1 =>
    \A i \in Plugins, w \in Workers :
      LET arrived == temp[i] \o twb[1][i]
          logged == (IF CoresOf[i] = {w} THEN json[i] ELSE <<>>)
                    \o jwb[w][i] \o ring_rxs[i][w][1]
      IN  mpc[1] # "done" =>
            \A j, k \in 1 .. Len(logged) : j < k =>
              \E a, b \in 1 .. Len(arrived) :
                a < b /\ arrived[a] = logged[j] /\ arrived[b] = logged[k]

\* "Waited until all rings were emptied!" (logcollector.c:809), the message of a
\* worker that a signal stops.
WaitedUntilEmpty ==
  [][\A w \in Workers : wpc[w] # "done" /\ wpc'[w] = "done" =>
       \A i \in Plugins, m \in Masters : ring_rxs[i][w][m] = <<>>]_vars

\* As long as nobody kills it, the program finishes what it has received: every
\* packet from a known sender ends in a json file or is dropped and counted.
Delivered ==
  []~kill_signal =>
    \A msg \in Msgs :
      (msg \notin net /\ PluginOf[msg] # 0) ~>
        (msg \in freed /\ (\A i \in Plugins, w \in Workers : msg \notin ToSet(jwb[w][i])))

\* After the signal all threads stop, whatever is still on the way.
Termination ==
  kill_signal ~>
    /\ \A r \in Receivers : rpc[r] = "done"
    /\ \A m \in Masters : mpc[m] = "done"
    /\ \A w \in Workers : wpc[w] = "done"
=============================================================================
