----------------------------- MODULE RingQueue -----------------------------
(***************************************************************************)
(* What ring.h promises to its callers (ring.h:7-19): a bounded FIFO of    *)
(* object pointers with bulk enqueue and bulk dequeue.  Every operation    *)
(* is one atomic step here.  A refused operation is a step that changes    *)
(* nothing, so it does not appear.                                         *)
(***************************************************************************)
EXTENDS Naturals, Sequences

CONSTANTS
  Consumers,  \* the threads that dequeue
  Objs,       \* the pointers that travel through the ring
  Capacity    \* r->capacity: how many objects fit

VARIABLES
  queue,      \* the objects enqueued and not yet dequeued, oldest first
  result      \* what the last dequeue of each consumer handed back

vars == <<queue, result>>

Init ==
  /\ queue = <<>>
  /\ result = [c \in Consumers |-> <<>>]

\* An enqueue of the objects "objs" that succeeds.
Enqueue(objs) ==
  /\ objs # <<>>
  /\ Len(queue) + Len(objs) <= Capacity
  /\ queue' = queue \o objs
  /\ UNCHANGED result

\* A consumer calls a dequeue: it holds nothing of this call yet.
Call(c) ==
  /\ result' = [result EXCEPT ![c] = <<>>]
  /\ UNCHANGED queue

\* The dequeue takes the k oldest objects.
Dequeue(c, k) ==
  /\ result' = [result EXCEPT ![c] = SubSeq(queue, 1, k)]
  /\ queue' = SubSeq(queue, k + 1, Len(queue))

Next ==
  \/ \E n \in 1 .. Capacity : \E objs \in [1 .. n -> Objs] : Enqueue(objs)
  \/ \E c \in Consumers : Call(c) \/ \E k \in 1 .. Len(queue) : Dequeue(c, k)

Spec == Init /\ [][Next]_vars
=============================================================================
