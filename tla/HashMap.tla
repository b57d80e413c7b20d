------------------------------ MODULE HashMap ------------------------------
(***************************************************************************)
(* The hash table of hmap.h, hmap.c and shash.c, as far as the program     *)
(* calls it: json objects and the table of custom functions are made of    *)
(* it.  A table is a record                                                *)
(*   mask    one less than the number of buckets,                          *)
(*   n       the count that hmap keeps beside the chains,                  *)
(*   bucket  the chain of each bucket, head first,                         *)
(* and a node a record of its name and its data; its hash is HashOf[name]. *)
(* A chain stands for the next pointers of its nodes.                      *)
(***************************************************************************)
EXTENDS Integers, Sequences, SequencesExt, FiniteSetsExt

CONSTANTS
  Names,    \* the names that may be keys
  HashOf    \* hash_name, from Names to the natural numbers

ASSUME HashAssumption == HashOf \in [Names -> Nat]

\* hmap_init
EmptyMap == [mask |-> 0, n |-> 0, bucket |-> [i \in {0} |-> <<>>]]

\* hash & mask; mask + 1 is a power of two.
BucketOf(m, name) == HashOf[name] % (m.mask + 1)

\* HMAP_FOR_EACH: the buckets from the first to the last, each from its head.
NodesOf(m) == FlattenSeq([i \in 1 .. m.mask + 1 |-> m.bucket[i - 1]])

\* The mask that keeps k bits.
MaskOf(k) ==
  LET low[i \in 0 .. k] == IF i = 0 THEN 0 ELSE 2 * low[i - 1] + 1
  IN low[k]

\* calc_mask: the low bits of capacity / 2 filled up, and never just one bit.
CalcMask(capacity) ==
  LET half == capacity \div 2
  IN IF half = 1 THEN 3
     ELSE Min({MaskOf(k) : k \in 0 .. half} \ (0 .. half - 1))

\* hmap_insert_fast: the new node is the head of its chain.
InsertFast(m, node) ==
  [m EXCEPT !.n = @ + 1, !.bucket[BucketOf(m, node.name)] = <<node>> \o @]

\* resize: every node goes into the new buckets, in the order of the old ones.
ResizeInPlace(m, new_mask) ==
  [m EXCEPT !.mask = new_mask,
            !.bucket = [i \in 0 .. new_mask |-> IF i <= m.mask THEN m.bucket[i] ELSE <<>>]]
NewTable(new_mask) ==
  [mask |-> new_mask, n |-> 0, bucket |-> [i \in 0 .. new_mask |-> <<>>]]
Resize(m, new_mask) ==
  LET nodes == NodesOf(m)
      tmp[i \in 0 .. Len(nodes)] ==
        IF i = 0 THEN NewTable(new_mask) ELSE InsertFast(tmp[i - 1], nodes[i])
  IN tmp[Len(nodes)]

\* hmap_expand_at
Expand(m) == IF CalcMask(m.n) > m.mask THEN Resize(m, CalcMask(m.n)) ELSE m

\* hmap_insert_at
Insert(m, node) ==
  LET f == InsertFast(m, node)
  IN IF f.n \div 2 > f.mask THEN Expand(f) ELSE f

\* shash_find__: the places in the chain of this hash that have this name; the call
\* returns the node at the first one, or NULL when there is none.
Chain(m, name) == m.bucket[BucketOf(m, name)]
FoundAt(m, name) == {i \in DOMAIN Chain(m, name) : Chain(m, name)[i].name = name}
Has(m, name) == FoundAt(m, name) # {}
Find(m, name) == Chain(m, name)[Min(FoundAt(m, name))].data

\* shash_add_once
AddOnce(m, name, data) ==
  IF Has(m, name) THEN m ELSE Insert(m, [name |-> name, data |-> data])

\* shash_replace and shash_replace_nocopy: the table after the call, which
\* returns what Find gave before it.
ReplaceAlways(m, name, data) == Insert(m, [name |-> name, data |-> data])
Replace(m, name, data) ==
  IF ~ Has(m, name)
  THEN Insert(m, [name |-> name, data |-> data])
  ELSE [m EXCEPT !.bucket[BucketOf(m, name)][Min(FoundAt(m, name))].data = data]

-----------------------------------------------------------------------------

\* What a table promises: each node in the bucket of its hash, the count exact,
\* no name twice, and no more nodes than hmap_capacity.
MapSound(m) ==
  /\ DOMAIN m.bucket = 0 .. m.mask
  /\ \E k \in 0 .. m.mask : m.mask = MaskOf(k)
  /\ m.n = Len(NodesOf(m))
  /\ m.n <= 2 * m.mask + 1
  /\ \A b \in 0 .. m.mask : \A i \in DOMAIN m.bucket[b] :
       BucketOf(m, m.bucket[b][i].name) = b
  /\ \A i, j \in DOMAIN NodesOf(m) :
       NodesOf(m)[i].name = NodesOf(m)[j].name => i = j
=============================================================================
