---------------------------- MODULE JsonGrammar ----------------------------
(***************************************************************************)
(* What json.c promises: the meaning of a value, the meaning of a text     *)
(* after the grammar of RFC 4627 (json.h names it), written down without   *)
(* the states of the lexer and the parser, and the properties.             *)
(***************************************************************************)
EXTENDS JsonText

\* The data that a value stands for: a pair of its type and its content, an
\* object's content being the set of its (name, data) pairs.
RECURSIVE Denote(_, _)
Denote(h, id) ==
  CASE h[id].type = "object" ->
         <<"object", {<<x.name, Denote(h, x.data)>> : x \in ToSet(NodesOf(h[id].map))}>>
    [] h[id].type = "array" ->
         <<"array", [i \in DOMAIN h[id].elems |-> Denote(h, h[id].elems[i])]>>
    [] OTHER -> <<h[id].type, h[id].val>>

RECURSIVE Depth(_, _)
Depth(h, id) ==
  IF h[id].type \notin {"object", "array"} THEN 0
  ELSE 1 + Max({0} \cup {Depth(h, c) : c \in Children(h, id)})

Part(s, i, j) == SubSeq(s, i, j)

RECURSIVE Trim(_)
Trim(s) == IF s = <<>> THEN s
           ELSE IF Head(s) \in Space THEN Trim(Tail(s))
           ELSE IF Last(s) \in Space THEN Trim(Front(s))
           ELSE s

\* string = quote *char quote: the strings that s denotes (one or none).
Inside(s) == Part(s, 2, Len(s) - 1)
RECURSIVE Content(_)
Content(s) ==
  IF s = <<>> THEN {<<>>}
  ELSE IF Head(s) = "bs"
       THEN IF Len(s) >= 2 /\ s[2] \in DOMAIN Escapes
            THEN {<<Escapes[s[2]]>> \o r : r \in Content(Part(s, 3, Len(s)))} ELSE {}
       ELSE IF Head(s) \in {"q", "tab"} THEN {}
            ELSE {<<Head(s)>> \o r : r \in Content(Tail(s))}
Strings(s) ==
  IF Len(s) >= 2 /\ Head(s) = "q" /\ Last(s) = "q" THEN Content(Inside(s)) ELSE {}

\* number = [ minus ] ( zero / digit1-9 *digit ) [ point 1*digit ], a real to the
\* precision of a double.
Integral(s) == s # <<>> /\ ToSet(s) \subseteq Digits /\ (Len(s) = 1 \/ Head(s) # "0")
Numbers(s) ==
  LET body == IF s # <<>> /\ Head(s) = "-" THEN Tail(s) ELSE s
      At(i) == /\ body[i] = "." /\ Integral(Part(body, 1, i - 1)) /\ i < Len(body)
               /\ ToSet(Part(body, i + 1, Len(body))) \subseteq Digits
  IN IF Integral(body)
     THEN {<<"integer", IF body = <<"0">> THEN body ELSE s>>}
     ELSE IF ~ \E i \in DOMAIN body : At(i) THEN {}
     ELSE LET i    == CHOOSE j \in DOMAIN body : At(j)
              int  == Part(s, 1, Len(s) - Len(body) + i - 1)
              frac == Part(body, i + 1, Len(body))
              keep == Max({0} \cup {j \in DOMAIN frac : frac[j] # "0"})
          IN IF keep > 0
             THEN {<<"real", Rounded(int \o <<".">> \o Part(frac, 1, keep), DoubleDigits)>>}
             ELSE {<<"integer", IF Last(int) = "0" /\ Len(body) - Len(frac) = 2
                                THEN <<"0">> ELSE int>>}

\* value, and the comma-separated lists of an array and of an object; the last
\* of several members with one name counts.
RECURSIVE Values(_), Elements(_), Members(_)
Values(raw) ==
  LET s == Trim(raw)
      Between(open, close) == Len(s) >= 2 /\ Head(s) = open /\ Last(s) = close
  IN (IF s = <<"t">> THEN {<<"true", <<>>>>} ELSE {})
     \cup Numbers(s)
     \cup {<<"string", x>> : x \in Strings(s)}
     \cup (IF Between("[", "]") THEN {<<"array", l>> : l \in Elements(Inside(s))} ELSE {})
     \cup (IF Between("{", "}") THEN {<<"object", l>> : l \in Members(Inside(s))} ELSE {})
Elements(s) ==
  (IF Trim(s) = <<>> THEN {<<>>} ELSE {<<v>> : v \in Values(s)})
  \cup UNION { {Append(l, v) : l \in Elements(Part(s, 1, i - 1)) \ {<<>>},
                               v \in Values(Part(s, i + 1, Len(s)))}
               : i \in {j \in DOMAIN s : s[j] = ","} }
Pairs(s) ==
  UNION { Strings(Trim(Part(s, 1, i - 1))) \X Values(Part(s, i + 1, Len(s)))
          : i \in {j \in DOMAIN s : s[j] = ":"} }
Members(s) ==
  (IF Trim(s) = <<>> THEN {{}} ELSE {{p} : p \in Pairs(s)})
  \cup UNION { {{p} \cup {q \in l : q[1] # p[1]}
                  : l \in Members(Part(s, 1, i - 1)) \ {{}},
                    p \in Pairs(Part(s, i + 1, Len(s)))}
               : i \in {j \in DOMAIN s : s[j] = ","} }

\* How deep the brackets of a text nest (no string here has a bracket in it).
Nesting(s) ==
  Max({0} \cup {Cardinality({j \in 1 .. i : s[j] \in {"{", "["}})
                - Cardinality({j \in 1 .. i : s[j] \in {"}", "]"}}) : i \in DOMAIN s})

\* JSON-text = object / array, within JSON_MAX_HEIGHT.
Documents(s) ==
  IF Nesting(s) > MaxHeight THEN {}
  ELSE {v \in Values(s) : v[1] \in {"object", "array"}}

-----------------------------------------------------------------------------

\* json_equal says exactly whether two values stand for the same data, although
\* it looks the members of only one object up in the other.
EqualExact ==
  \A a, b \in DOMAIN heap :
    Equal(heap, a, heap, b) <=> Denote(heap, a) = Denote(heap, b)

\* Whether every real in a value has a fraction and no more digits than are printed.
RECURSIVE Printable(_, _)
Printable(h, id) ==
  /\ h[id].type = "real" =>
       FractionAt(h[id].val) # 0 /\ Significant(h[id].val, Len(h[id].val)) <= DBL_DIG
  /\ \A c \in Children(h, id) : Printable(h, c)

\* What json_to_string writes of an object or an array, json_from_string reads
\* back to an equal value, bare or pretty-printed and sorted, exactly when no real
\* in it has more digits than DBL_DIG or was rounded to a whole number, which comes
\* back as an integer; only nesting deeper than the parser allows gives an error.
ReadBack(id, r) ==
  IF Depth(heap, id) > MaxHeight THEN r.h[r.id].type = "string"
  ELSE r.h[r.id].type = heap[id].type
       /\ (Equal(heap, id, r.h, r.id) <=> Printable(heap, id))
RoundTrip ==
  \A id \in Held, flags \in {{}, {"pretty", "sort"}} :
    heap[id].type \in {"object", "array"} =>
      ReadBack(id, FromString(Serialize(heap, id, flags)))

\* json_parser_finish returns the data that the grammar gives to the characters
\* fed, in whatever chunks they came, or a string when they are no JSON text.
FinishVerdict ==
  [][parser.open /\ ~ parser'.open /\ (\E id \in Ids : held'[id] > held[id]) =>
       LET id == CHOOSE i \in Ids : held'[i] > held[i]
       IN IF Documents(parser.fed) = {} THEN heap'[id].type = "string"
          ELSE Documents(parser.fed) = {Denote(heap', id)}]_vars
=============================================================================
