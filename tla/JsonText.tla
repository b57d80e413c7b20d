------------------------------ MODULE JsonText ------------------------------
(***************************************************************************)
(* What json.c makes of whole values: json_equal, the serializer, and      *)
(* json_from_string.                                                       *)
(***************************************************************************)
EXTENDS Json

CONSTANTS
  RankOf,  \* the order of strcmp on Names, for the sorted output
  DBL_DIG  \* how many digits of a real are printed: fewer than a double keeps
ASSUME RankAssumption == RankOf \in [Names -> Nat]
ASSUME DigitsAssumption == DBL_DIG \in 1 .. DoubleDigits - 1

Children(h, id) == {r[3] : r \in Slots(id, h[id])}

\* json_equal, json_equal_object and json_equal_array
RECURSIVE EqualLoose(_, _, _, _)
EqualLoose(h, a, g, b) ==
  /\ h[a].type = g[b].type
  /\ h[a].val = g[b].val
  /\ Len(h[a].elems) = Len(g[b].elems)
  /\ \A i \in DOMAIN h[a].elems : EqualLoose(h, h[a].elems[i], g, g[b].elems[i])
  /\ \A x \in ToSet(NodesOf(h[a].map)) :
       Has(g[b].map, x.name) /\ EqualLoose(h, x.data, g, Find(g[b].map, x.name))
RECURSIVE Equal(_, _, _, _)
Equal(h, a, g, b) ==
  /\ h[a].type = g[b].type
  /\ h[a].val = g[b].val
  /\ Len(h[a].elems) = Len(g[b].elems)
  /\ \A i \in DOMAIN h[a].elems : Equal(h, h[a].elems[i], g, g[b].elems[i])
  /\ h[a].map.n = g[b].map.n
  /\ \A x \in ToSet(NodesOf(h[a].map)) :
       Has(g[b].map, x.name) /\ Equal(h, x.data, g, Find(g[b].map, x.name))

-----------------------------------------------------------------------------

\* json_from_string on an empty heap.
FromString(text) ==
  Result(FeedAll([h |-> EmptyHeap,
                  p |-> [Closed EXCEPT !.open = TRUE, !.trailer = TRUE]], text))

-----------------------------------------------------------------------------

\* json_serialize and its helpers.  JSSF_PRETTY puts white space between tokens;
\* how much of it is left out.

\* json_serialize_string
EscapeRaw(c) == <<c>>
Escape(c) == CASE c = "tab" -> <<"bs", "t">> [] c \in {"q", "bs"} -> <<"bs", c>>
               [] OTHER -> <<c>>
Quoted(string) == <<"q">> \o FlattenSeq([i \in DOMAIN string |-> Escape(string[i])])
                          \o <<"q">>

\* shash_sort
SortedNodes(m) == SortSeq(NodesOf(m), LAMBDA x, y : RankOf[x.name] < RankOf[y.name])

Line(flags) == IF "pretty" \in flags THEN <<"sp">> ELSE <<>>

\* The items of a container with a comma and a new line between them.
Separated(items, flags) ==
  FlattenSeq([i \in DOMAIN items |->
                (IF i = 1 THEN <<>> ELSE <<",">> \o Line(flags)) \o items[i]])

RECURSIVE Serialize(_, _, _)
Serialize(h, id, flags) ==
  LET nodes  == IF "sort" \in flags THEN SortedNodes(h[id].map) ELSE NodesOf(h[id].map)
      member == [i \in DOMAIN nodes |->
                   Quoted(nodes[i].name) \o <<":">> \o Line(flags)
                     \o Serialize(h, nodes[i].data, flags)]
      elem   == [i \in DOMAIN h[id].elems |-> Serialize(h, h[id].elems[i], flags)]
  IN CASE h[id].type = "true" -> <<"t">>
       [] h[id].type = "integer" -> h[id].val
       [] h[id].type = "real" -> Rounded(h[id].val, DBL_DIG)
       [] h[id].type = "string" -> Quoted(h[id].val)
       [] h[id].type = "object" ->
            <<"{">> \o Line(flags) \o Separated(member, flags) \o <<"}">>
       [] OTHER ->
            <<"[">> \o (IF elem = <<>> THEN <<>> ELSE Line(flags))
                    \o Separated(elem, flags) \o <<"]">>
=============================================================================
