------------------------------- MODULE Json -------------------------------
(***************************************************************************)
(* json.c: values with reference counts and the incremental parser.  The   *)
(* heap maps an identifier to the struct json that lives there.  A client  *)
(* creates, shares, nests and destroys values and drives one parser, chunk *)
(* of input by chunk of input.  JsonText has the serializer.               *)
(*                                                                         *)
(* A character is one of a few that the lexer tells apart: the six         *)
(* structural ones, the quote "q", the backslash "bs", the letter "t"      *)
(* (which alone is the keyword true), "-", ".", "0", "1", "sp" and "tab".  *)
(* The value of a real is the shortest text that reads as its double.      *)
(* Exponents are left out, and the limits of long long and of double.      *)
(***************************************************************************)
EXTENDS HashMap, FiniteSets, TLC

CONSTANTS
  PutNames,   \* the names a client puts
  Chunks,     \* the inputs of json_parser_feed between and in tokens,
  StringChunks, \* and inside a string, where structural characters are left out
  MaxString,  \* bounds the raw characters of a string
  MaxNumber,  \* and those of a number or a keyword
  MaxVals,    \* bounds the number of values
  MaxHeight,  \* JSON_MAX_HEIGHT
  DoubleDigits, \* the significant digits that a double keeps
  MaxWork     \* bounds a behaviour: a chunk counts 2, a client's call 3

ASSUME JsonAssumption ==
  /\ PutNames \subseteq Names
  /\ Chunks \subseteq Seq(UNION {ToSet(c) : c \in Chunks})
  /\ StringChunks \subseteq Seq(UNION {ToSet(c) : c \in StringChunks})
  /\ MaxString \in Nat /\ MaxNumber \in Nat
  /\ MaxVals \in Nat \ {0} /\ MaxHeight \in Nat \ {0} /\ MaxWork \in Nat
  /\ DoubleDigits \in Nat \ {0}

VARIABLES
  heap,     \* the values
  parser,   \* the struct json_parser
  held,     \* how many references the client holds to each value
  work      \* what was done so far, against MaxWork

vars == <<heap, parser, held, work>>

Structural == {"{", "}", "[", "]", ":", ","}
Space      == {"sp", "tab"}
Digits     == {"0", "1"}
InNumber   == Digits \cup {"-", "."}
Ids        == 1 .. MaxVals

-----------------------------------------------------------------------------

\* Values.

\* json_create
Cell(type, val) ==
  [type |-> type, count |-> 1, val |-> val, elems |-> <<>>, map |-> EmptyMap]

EmptyHeap == [id \in {} |-> Cell("null", <<>>)]
NewId(h)  == Min((1 .. Cardinality(DOMAIN h) + 1) \ DOMAIN h)
Alloc(h, cell) == [id \in DOMAIN h \cup {NewId(h)} |-> IF id \in DOMAIN h THEN h[id] ELSE cell]
Free(h, id)    == [c \in DOMAIN h \ {id} |-> h[c]]

\* The references that a container holds: from where, at which place, and to what.
Slots(c, cell) ==
  {<<c, <<"elem", i>>, cell.elems[i]>> : i \in DOMAIN cell.elems}
  \cup {<<c, <<"member", x.name>>, x.data>> : x \in ToSet(NodesOf(cell.map))}
AllSlots(h) == UNION {Slots(c, h[c]) : c \in DOMAIN h}
Into(refs, id) == {r \in refs : r[3] = id}

\* json_destroy, json_destroy_object and json_destroy_array: the references to drop are
\* dropped one by one; the last one to a value frees it, and those it holds are dropped
\* too.  The order, which the result does not depend on, is left out.
Reference(id) == <<0, <<"caller">>, id>>
DropOne(d) ==
  LET r  == CHOOSE x \in d.drop : TRUE
      id == r[3]
  IN IF d.drop = {} THEN d
     ELSE IF d.h[id].count > 1
     THEN [h |-> [d.h EXCEPT ![id].count = @ - 1], drop |-> d.drop \ {r}]
     ELSE [h |-> Free(d.h, id), drop |-> (d.drop \ {r}) \cup Slots(id, d.h[id])]
Destroy(h, id) ==
  LET most == Cardinality(AllSlots(h)) + 1
      left[i \in 0 .. most] ==
        IF i = 0 THEN [h |-> h, drop |-> {Reference(id)}] ELSE DropOne(left[i - 1])
  IN left[most].h

\* json_object_put and json_object_put_nocopy
ObjectPut(h, o, name, v) ==
  LET put == [h EXCEPT ![o].map = Replace(@, name, v)]
  IN IF Has(h[o].map, name) THEN Destroy(put, Find(h[o].map, name)) ELSE put

\* json_array_add
ArrayAdd(h, a, v) == [h EXCEPT ![a].elems = Append(@, v)]

\* json_clone
CloneValue(h, id) == [h EXCEPT ![id].count = @ + 1]

\* json_deep_clone: json_clone_object and json_clone_array put one more reference to each
\* child into a new container; a scalar is new.
CloneObject(h, new, nodes) ==
  LET json[i \in 0 .. Len(nodes)] ==
        IF i = 0 THEN h
        ELSE ObjectPut(CloneValue(json[i - 1], nodes[i].data), new, nodes[i].name, nodes[i].data)
  IN json[Len(nodes)]
CloneArray(h, new, array) ==
  LET elems[i \in 0 .. Len(array)] ==
        IF i = 0 THEN h ELSE ArrayAdd(CloneValue(elems[i - 1], array[i]), new, array[i])
  IN elems[Len(array)]
DeepCloneValue(h, id) ==
  LET blank == Alloc(h, Cell(h[id].type, h[id].val))
  IN IF h[id].type = "object" THEN CloneObject(blank, NewId(h), NodesOf(h[id].map))
     ELSE CloneArray(blank, NewId(h), h[id].elems)

-----------------------------------------------------------------------------

\* The parser.  A state of it is a record s of the heap s.h and the parser s.p.

Closed == [open |-> FALSE, trailer |-> FALSE, lex |-> "START", buffer |-> <<>>,
           state |-> "START", stack |-> <<>>, member_name |-> <<>>,
           done |-> FALSE, error |-> FALSE, fed |-> <<>>]

\* json_error: the first message stays, and the parser is done.
Error(s) == [s EXCEPT !.p.error = TRUE, !.p.done = TRUE]

\* json_parser_top
Top(s) == Last(s.p.stack)

\* json_parser_put_value
PutValue(s, v) ==
  IF s.h[Top(s)].type = "object"
  THEN [s EXCEPT !.h = ObjectPut(s.h, Top(s), Head(s.p.member_name), v),
                 !.p.member_name = <<>>]
  ELSE [s EXCEPT !.h = ArrayAdd(s.h, Top(s), v)]

\* json_parser_push, json_parser_push_object, json_parser_push_array
PushDeep(s, type, new_state) ==
  LET new == NewId(s.h)
      t   == [s EXCEPT !.h = Alloc(s.h, Cell(type, <<>>))]
      u   == IF s.p.stack = <<>> THEN t ELSE PutValue(t, new)
  IN [u EXCEPT !.p.stack = Append(@, new), !.p.state = new_state]
Push(s, type, new_state) ==
  IF Len(s.p.stack) < MaxHeight THEN PushDeep(s, type, new_state) ELSE Error(s)

\* json_parse_value
ParseValue(s, token, next_state) ==
  CASE token.type = "{" -> Push(s, "object", "OBJECT_INIT")
    [] token.type = "[" -> Push(s, "array", "ARRAY_INIT")
    [] token.type \in {"true", "integer", "real", "string"} ->
         [PutValue([s EXCEPT !.h = Alloc(s.h, Cell(token.type, token.val))],
                   NewId(s.h)) EXCEPT !.p.state = next_state]
    [] OTHER -> Error(s)

\* json_parser_pop
PopBlind(s) ==
  IF Len(s.p.stack) = 1
  THEN [s EXCEPT !.p.state = "END", !.p.done = ~ s.p.trailer]
  ELSE [s EXCEPT !.p.stack = Front(@), !.p.state = "ARRAY_NEXT"]
Pop(s) ==
  IF Len(s.p.stack) = 1
  THEN [s EXCEPT !.p.state = "END", !.p.done = ~ s.p.trailer]
  ELSE LET up == [s EXCEPT !.p.stack = Front(@)]
       IN [up EXCEPT !.p.state = IF up.h[Top(up)].type = "array"
                                 THEN "ARRAY_NEXT" ELSE "OBJECT_NEXT"]

\* json_parser_input: what the parser makes of a token in each of its states.
AfterValue ==
  [at \in {"START", "OBJECT_VALUE", "ARRAY_INIT", "ARRAY_VALUE"} |->
     CASE at = "START" -> "START"
       [] at = "OBJECT_VALUE" -> "OBJECT_NEXT"
       [] at \in {"ARRAY_INIT", "ARRAY_VALUE"} -> "ARRAY_NEXT"]
Parse(s, token) ==
  LET at == s.p.state  is == token.type
  IN CASE \/ at \in {"OBJECT_INIT", "OBJECT_NEXT"} /\ is = "}"
          \/ at \in {"ARRAY_INIT", "ARRAY_NEXT"} /\ is = "]" -> Pop(s)
       [] at \in {"OBJECT_INIT", "OBJECT_NAME"} /\ is = "string" ->
            [s EXCEPT !.p.member_name = <<token.val>>, !.p.state = "OBJECT_COLON"]
       [] at = "OBJECT_COLON" /\ is = ":" -> [s EXCEPT !.p.state = "OBJECT_VALUE"]
       [] at = "OBJECT_NEXT" /\ is = "," -> [s EXCEPT !.p.state = "OBJECT_NAME"]
       [] at = "ARRAY_NEXT" /\ is = "," -> [s EXCEPT !.p.state = "ARRAY_VALUE"]
       [] /\ at \in DOMAIN AfterValue
          /\ ~ (at = "START" /\ is \notin {"{", "["})
          /\ ~ (at = "ARRAY_INIT" /\ is = "]") -> ParseValue(s, token, AfterValue[at])
       [] OTHER -> Error(s)
Input(s, type, val) ==
  [Parse(s, [type |-> type, val |-> val])
     EXCEPT !.p.lex = "START", !.p.buffer = <<>>]

\* json_lex_number: a sign, an integer part without leading zeros, a fraction;
\* a fraction of zeros is dropped and so is the sign of zero.
NumberBody(raw) == IF Head(raw) = "-" THEN Tail(raw) ELSE raw
FractionAt(raw) == SelectInSeq(raw, LAMBDA c : c = ".")
IsNumber(raw) ==
  LET body == NumberBody(raw)
      dot  == FractionAt(body)
      digits(t) == t # <<>> /\ ToSet(t) \subseteq Digits
      int  == IF dot = 0 THEN body ELSE SubSeq(body, 1, dot - 1)
  IN /\ digits(int)
     /\ Head(int) = "0" => Len(int) = 1
     /\ dot # 0 => digits(SubSeq(body, dot + 1, Len(body)))
Shorten(raw) ==
  LET Strip(t, c) == IF FractionAt(raw) # 0 /\ Last(t) = c THEN Front(t) ELSE t
  IN Strip(FoldLeft(LAMBDA t, i : Strip(t, "0"), raw, raw), ".")
NumberValue(raw) == IF ToSet(raw) \cap Digits = {"0"} THEN <<"0">> ELSE Shorten(raw)

\* str_to_double and "%.*g": a text rounded to its first n significant digits.  What
\* is cut off starts with 0 or 1, the only digits here, so it is always rounded down.
Significant(t, i) ==
  Cardinality({j \in 1 .. i : t[j] \in Digits /\ \E k \in 1 .. j : t[k] \in Digits \ {"0"}})
Rounded(t, n) ==
  Shorten([i \in DOMAIN t |->
             IF t[i] \in Digits /\ Significant(t, i) > n THEN "0" ELSE t[i]])

LexNumber(s) ==
  LET val == NumberValue(s.p.buffer)
  IN IF ~ IsNumber(s.p.buffer) THEN Error(s)
     ELSE IF FractionAt(val) = 0 THEN Input(s, "integer", val)
     ELSE Input(s, "real", Rounded(val, DoubleDigits))

\* json_lex_keyword
LexKeyword(s) == IF s.p.buffer = <<"t">> THEN Input(s, "true", <<>>) ELSE Error(s)

\* json_string_unescape, without \u: the string, or Bad when an escape is wrong.
Escapes == ("t" :> "tab") @@ ("q" :> "q") @@ ("bs" :> "bs")
Unescape(raw) ==
  FoldLeft(LAMBDA u, c :
             IF ~ u.esc /\ c = "bs" THEN [u EXCEPT !.esc = TRUE]
             ELSE IF ~ u.esc THEN [u EXCEPT !.out = Append(@, c)]
             ELSE IF c \in DOMAIN Escapes
                  THEN [u EXCEPT !.out = Append(@, Escapes[c]), !.esc = FALSE]
                  ELSE [u EXCEPT !.bad = TRUE, !.esc = FALSE],
           [out |-> <<>>, esc |-> FALSE, bad |-> FALSE], raw)

\* json_lex_string
LexString(s) ==
  LET u == Unescape(s.p.buffer)
  IN IF u.bad THEN Error(s) ELSE Input(s, "string", u.out)

\* json_lex_input, for a character that it takes.
Collect(s, c, lex) == [s EXCEPT !.p.buffer = Append(@, c), !.p.lex = lex]
LexChar(s, c) ==
  LET in == s.p.lex
  IN CASE in = "START" /\ c \in Space -> s
       [] in = "START" /\ c \in Structural -> Input(s, c, <<>>)
       [] in = "START" /\ c = "t" -> Collect(s, c, "KEYWORD")
       [] in = "START" /\ c \in Digits \cup {"-"} -> Collect(s, c, "NUMBER")
       [] in = "START" /\ c = "q" -> [s EXCEPT !.p.lex = "STRING"]
       [] in = "START" -> Error(s)
       [] in \in {"KEYWORD", "NUMBER"} -> Collect(s, c, in)
       [] in = "STRING" /\ c = "bs" -> Collect(s, c, "ESCAPE")
       [] in = "STRING" /\ c = "q" -> LexString(s)
       [] in = "STRING" /\ c = "tab" -> Error(s)
       [] OTHER -> Collect(s, c, "STRING")

\* A character that ends a number or a keyword: json_lex_input takes the token
\* and returns false, and json_parser_feed gives it the character again.
Ends(s, c) == \/ s.p.lex = "KEYWORD" /\ c # "t"
              \/ s.p.lex = "NUMBER" /\ c \notin InNumber
LexToken(s) == IF s.p.lex = "NUMBER" THEN LexNumber(s) ELSE LexKeyword(s)

\* json_parser_feed
FeedOnce(s, c) ==
  IF s.p.done THEN s
  ELSE [(IF Ends(s, c) THEN LexToken(s) ELSE LexChar(s, c))
          EXCEPT !.p.fed = Append(@, c)]
TakeChar(s, c) ==
  IF s.p.done THEN s ELSE [LexChar(s, c) EXCEPT !.p.fed = Append(@, c)]
FeedChar(s, c) ==
  TakeChar(IF ~ s.p.done /\ Ends(s, c) THEN LexToken(s) ELSE s, c)
Fed(s, chunk) ==
  LET fed[i \in 0 .. Len(chunk)] == IF i = 0 THEN s ELSE FeedChar(fed[i - 1], chunk[i])
  IN fed
FeedAll(s, chunk) == Fed(s, chunk)[Len(chunk)]

\* json_parser_abort, for the values: the root takes everything below it.
Drop(s) == IF s.p.stack = <<>> THEN s.h ELSE Destroy(s.h, Head(s.p.stack))

\* json_parser_finish: the last token, the error of an input that is not
\* complete, and then the root or a string that describes the error.
Whole(t) == IF t.p.state # "END" THEN Error(t) ELSE t
Complete(s) ==
  Whole(CASE s.p.lex \in {"STRING", "ESCAPE"} -> Error(s)
          [] s.p.lex \in {"NUMBER", "KEYWORD"} -> LexToken(s)
          [] OTHER -> s)
OutcomeLeak(t) ==
  IF t.p.error
  THEN [id |-> NewId(t.h), h |-> Alloc(t.h, Cell("string", <<>>))]
  ELSE [id |-> Head(t.p.stack), h |-> t.h]
Outcome(t) ==
  IF t.p.error
  THEN [id |-> NewId(t.h), h |-> Drop([t EXCEPT !.h = Alloc(t.h, Cell("string", <<>>))])]
  ELSE [id |-> Head(t.p.stack), h |-> t.h]
Result(s) == Outcome(Complete(s))

-----------------------------------------------------------------------------

Init ==
  /\ heap = EmptyHeap
  /\ parser = Closed
  /\ held = [id \in Ids |-> 0]
  /\ work = 0

\* The bounds of values and of a behaviour.
Room(h) == DOMAIN h \subseteq Ids
Work(cost) == work + cost <= MaxWork /\ work' = work + cost
Held == {id \in Ids : held[id] > 0}

\* o can be reached from v: to put v into o would make a cycle.
Reaches(h, v, o) ==
  \A S \in SUBSET DOMAIN h :
    v \in S /\ (\A r \in AllSlots(h) : r[1] \in S => r[3] \in S) => o \in S

\* A call of the client.  It touches none of the parser's values, so that it is
\* enough to let it come before, between and after the parser's inputs as a whole.
Call == ~ parser.open /\ Work(3)

\* json_object_create, json_array_create_empty, json_string_create,
\* json_integer_create, json_boolean_create
Create ==
  /\ Call
  /\ \E cell \in {Cell("object", <<>>), Cell("array", <<>>), Cell("true", <<>>),
                  Cell("string", <<"tab">>), Cell("integer", <<"1">>)} :
       heap' = Alloc(heap, cell)
  /\ Room(heap')
  /\ held' = [held EXCEPT ![NewId(heap)] = @ + 1]
  /\ UNCHANGED parser

\* json_object_put takes over the caller's reference to the value.
Put ==
  /\ Call
  /\ \E o, v \in Held, name \in PutNames :
       /\ heap[o].type = "object" /\ ~ Reaches(heap, v, o)
       /\ heap' = ObjectPut(heap, o, name, v)
       /\ held' = [held EXCEPT ![v] = @ - 1]
  /\ UNCHANGED parser

\* json_array_add
Add ==
  /\ Call
  /\ \E a, v \in Held :
       /\ heap[a].type = "array" /\ ~ Reaches(heap, v, a)
       /\ heap' = ArrayAdd(heap, a, v)
       /\ held' = [held EXCEPT ![v] = @ - 1]
  /\ UNCHANGED parser

\* json_clone
Clone ==
  /\ Call
  /\ \E id \in Held : /\ heap' = CloneValue(heap, id)
                      /\ held' = [held EXCEPT ![id] = @ + 1]
  /\ UNCHANGED parser

\* json_deep_clone
DeepClone ==
  /\ Call
  /\ \E id \in Held : heap' = DeepCloneValue(heap, id)
  /\ Room(heap')
  /\ held' = [held EXCEPT ![NewId(heap)] = @ + 1]
  /\ UNCHANGED parser

\* json_destroy
DestroyHeld ==
  /\ \E id \in Held : /\ heap' = Destroy(heap, id)
                      /\ held' = [held EXCEPT ![id] = @ - 1]
  /\ UNCHANGED <<parser, work>>

\* json_parser_create
ParserCreate ==
  /\ ~ parser.open
  /\ \E trailer \in BOOLEAN :
       parser' = [Closed EXCEPT !.open = TRUE, !.trailer = trailer]
  /\ UNCHANGED <<heap, held, work>>

\* The chunks that keep the tokens within their bounds.
Offered ==
  CASE parser.lex \in {"STRING", "ESCAPE"} ->
         {c \in StringChunks : Len(parser.buffer) < MaxString \/ Head(c) = "q"}
    [] parser.lex \in {"NUMBER", "KEYWORD"} ->
         {c \in Chunks : Len(parser.buffer) < MaxNumber \/ Ends([p |-> parser], Head(c))}
    [] OTHER -> Chunks

\* json_parser_feed
ParserFeed ==
  /\ parser.open /\ ~ parser.done /\ Work(2)
  /\ \E chunk \in Offered :
       LET fed == Fed([h |-> heap, p |-> parser], chunk)
       IN /\ \A i \in DOMAIN chunk : ToSet(fed[i].p.member_name) \subseteq Names
          /\ \E s \in {fed[Len(chunk)]} : heap' = s.h /\ parser' = s.p
  /\ Room(heap')
  /\ UNCHANGED held

\* json_parser_finish
ParserFinish ==
  /\ parser.open
  /\ \E r \in {Result([h |-> heap, p |-> parser])} :
       /\ heap' = r.h /\ Room(r.h) /\ r.id \in Ids
       /\ held' = [held EXCEPT ![r.id] = @ + 1]
  /\ parser' = Closed
  /\ UNCHANGED work

\* json_parser_abort
ParserAbort ==
  /\ parser.open
  /\ heap' = Drop([h |-> heap, p |-> parser])
  /\ parser' = Closed
  /\ UNCHANGED <<held, work>>

Next ==
  \/ Create \/ Put \/ Add \/ Clone \/ DeepClone \/ DestroyHeld
  \/ ParserCreate \/ ParserFeed \/ ParserFinish \/ ParserAbort

Spec == Init /\ [][Next]_vars

-----------------------------------------------------------------------------

\* Every variable has its type.
TypeOK ==
  /\ DOMAIN heap \subseteq Ids
  /\ \A id \in DOMAIN heap :
       /\ heap[id].type \in {"object", "array", "true", "string", "integer", "real"}
       /\ heap[id].count \in Nat \ {0}
       /\ ToSet(heap[id].elems) \subseteq DOMAIN heap
  /\ held \in [Ids -> Nat]
  /\ DOMAIN parser = DOMAIN Closed
  /\ parser.lex \in {"START", "NUMBER", "KEYWORD", "STRING", "ESCAPE"}
  /\ ToSet(parser.stack) \subseteq DOMAIN heap /\ Len(parser.stack) <= MaxHeight
  /\ ToSet(parser.member_name) \subseteq Names /\ Len(parser.member_name) <= 1
  /\ work \in 0 .. MaxWork

\* The references to a value: from containers, from the client, and from the
\* bottom of the parser's stack.
AtRoot(p, id) == IF p.stack # <<>> /\ Head(p.stack) = id THEN 1 ELSE 0
References(id) == held[id] + AtRoot(parser, id) + Cardinality(Into(AllSlots(heap), id))

\* The count of a value is the number of references to it, and nothing refers to one
\* that was freed: no value leaks, whatever part of an input was parsed before the
\* error or the abort, and none is freed while a copy, a container or the parser still
\* has it (json_clone, json_destroy, json_parser_abort).
RefExact ==
  \A id \in Ids :
    References(id) = IF id \in DOMAIN heap THEN heap[id].count ELSE 0

\* The parser's stack is a path: each container is the newest child of the one
\* below it, and the state of the parser fits the container on top.  The member
\* name is there exactly while an object waits for its value.  A member that is
\* replaced by a later one of the same name is never on the path.
InObject == {"OBJECT_INIT", "OBJECT_NAME", "OBJECT_COLON", "OBJECT_VALUE", "OBJECT_NEXT"}
InArray  == {"ARRAY_INIT", "ARRAY_VALUE", "ARRAY_NEXT"}
Below(h, up, id) ==
  IF h[up].type = "array" THEN h[up].elems # <<>> /\ Last(h[up].elems) = id
  ELSE \E x \in ToSet(NodesOf(h[up].map)) : x.data = id
StackChain ==
  LET stack == parser.stack
      TopIs(type) == stack # <<>> /\ heap[Last(stack)].type = type
  IN /\ \A i \in DOMAIN stack :
          /\ heap[stack[i]].type \in {"object", "array"}
          /\ i > 1 => Below(heap, stack[i - 1], stack[i])
     /\ parser.state \in InObject => TopIs("object")
     /\ parser.state \in InArray => TopIs("array")
     /\ parser.state = "END" => Len(stack) = 1
     /\ parser.state = "START" => stack = <<>>
     /\ (parser.member_name # <<>>) <=> (parser.state \in {"OBJECT_COLON", "OBJECT_VALUE"})

\* The table of every object is sound: each name once, in the bucket of its hash,
\* before and after the table grows while names are put in and replaced.
ObjectsSound == \A id \in DOMAIN heap : MapSound(heap[id].map)
=============================================================================
