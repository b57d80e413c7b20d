---------------------------- MODULE WorkerMatch ----------------------------
(***************************************************************************)
(* A worker thread between its rings and its write buffer: which regex it  *)
(* picks for a packet and what it puts in the JSON object.  It is one of   *)
(* the workers that Startup makes; they share no variable, since each has  *)
(* its own copies of the plugins and its own column of the rings.          *)
(*                                                                         *)
(* A packet is a record: holds, the regexes whose precheck it contains;    *)
(* subs, the groups of each regex that capture some text of it, 0 for the  *)
(* whole match; text, what such a group captures.  A text is a sequence of *)
(* pieces, of which only the lengths matter.  siemplus_hash is left out.   *)
(***************************************************************************)
EXTENDS Startup

CONSTANTS
  Subs,      \* the groups that matching a regex may fill
  Texts,     \* what a group may capture
  LengthOf,  \* the length of each piece of a text
  GroupOf,   \* the number of a named group, the same in every regex
  MaxRetStr  \* MAX_CUST_FUNC_RET_STR

ASSUME SubsAssumption == \A s \in Subs : IsFiniteSet(s) /\ (s # {} => 0 \in s)

\* "endless" stands for an uninitialized buffer without a NUL in it.
ASSUME TextsAssumption ==
  /\ MaxRetStr \in Nat /\ LengthOf["endless"] >= MaxRetStr
  /\ \A t \in Texts : ToSet(t) \subseteq DOMAIN LengthOf

VARIABLES
  me,      \* the index in workers of this worker
  step,    \* where its loop is
  at,      \* i: the position of the plugin it visits
  master,  \* master_index
  packet,  \* pkt
  best,    \* best_match, best_rgx, best_rgx_index
  suit,    \* suit_rgxs[0 .. suit_cnt - 1]
  rows,    \* rgx_sub_vectors: the regex a row was matched with, what it returned,
           \* and whether that was on this packet
  out      \* the object it just wrote

wvars == <<me, step, at, master, packet, best, suit, rows, out>>

-----------------------------------------------------------------------------

\* The split of the regexes of a plugin by their precheck, as indices.
GENERIC_LOG_PRECHECK == <<"GENERIC_LOG">>
Kind(precheck) == CASE precheck = <<>> -> "empty"
                    [] precheck = GENERIC_LOG_PRECHECK -> "generic"
                    [] OTHER -> "filled"
Split(p, kind) ==
  Chosen([i \in DOMAIN p.regex |-> i], {i \in DOMAIN p.regex : Kind(p.regex[i].precheck) = kind})
empty_p_regex(p)   == Split(p, "empty")
generic_p_regex(p) == Split(p, "generic")
filled_p_regex(p)  == Split(p, "filled")

\* The regexes added to suit_rgxs for a packet; only the filled ones are bounded.
AddSuitable(s, p, pkt) ==
  LET filled == Chosen(filled_p_regex(p), pkt.holds)
      room   == MaxRegex - Len(s)
  IN s \o SubSeq(filled, 1, Min({Len(filled), room}))
       \o (IF p.optimized THEN <<>> ELSE empty_p_regex(p))

\* A regex is matched into a row; it replaces the best one if it returns more.
NoBest == [match |-> 0, rgx |-> 0, row |-> 0]
MatchLate(b, rgx, row, ret) ==
  IF ret >= b.match THEN [match |-> ret, rgx |-> rgx, row |-> row] ELSE b
Ret(pkt, rgx) == Cardinality(pkt.subs[rgx])
Match(b, rgx, row, ret) ==
  IF ret > b.match THEN [match |-> ret, rgx |-> rgx, row |-> row] ELSE b
MatchAll(b, s, pkt) ==
  LET matched[r \in 0 .. Len(s)] ==
        IF r = 0 THEN b ELSE Match(matched[r - 1], s[r], r, Ret(pkt, s[r]))
  IN matched[Len(s)]
Matched(rs, s, pkt) ==
  [r \in 1 .. Max({Len(rs), Len(s)}) |->
     IF r <= Len(s) THEN [rgx |-> s[r], ret |-> Ret(pkt, s[r]), fresh |-> TRUE] ELSE rs[r]]
Aged(rs) == [r \in DOMAIN rs |-> [rs[r] EXCEPT !.fresh = FALSE]]

\* The custom functions.  "date" and "code" stand for a text that the regex of the dates
\* matches and one that c_dict translates.
strlen(text) == FoldSeq(LAMBDA piece, n : LengthOf[piece] + n, 0, text)
DateMatches(arg) == arg = <<"date">>
c_dict == <<"code">> :> <<"number">>
\* Whether one calls strcat without a strcpy before it.
Appends(func, arg) ==
  CASE func \in {"normalize_date_fortigate", "normalize_date_citrix"} -> ~ DateMatches(arg)
    [] func = "fortigate_sid" -> strlen(arg) >= 8
    [] func = "translate_citrix" -> arg \notin DOMAIN c_dict
    [] OTHER -> FALSE
\* What ret_str holds after the call, given what it held before.
Custom(func, arg, buf) ==
  IF Appends(func, arg) THEN buf \o arg
  ELSE CASE func = "fortigate_sid" -> <<"10">> \o arg
         [] func = "normalize_protocol" -> IF arg # <<"1">> THEN <<"icmp">> ELSE <<"tcp">>
         [] func = "translate_citrix" -> c_dict[arg]
         [] OTHER -> <<"normal">>

\* func_ret_str is not initialized: it may be empty, or hold something, or have no end.
Garbage == {<<>>, <<"junk">>, <<"endless">>}

\* custom_function, and the copy of the substring when there is no such function.
Call(func, arg, buf) == IF Has(hash_map, func) THEN Custom(Find(hash_map, func), arg, buf) ELSE arg

\* pcre_get_named_substring: there is none for a name that the regex does not have, or
\* for a group whose number is not below stringcount; one that captured nothing is empty.
\* The offsets of another packet's row cut any text out of this one.
Numbered(f, stringcount) == f.findby \in DOMAIN GroupOf /\ GroupOf[f.findby] < stringcount
Substring(f, pkt, rgx) == IF GroupOf[f.findby] \in pkt.subs[rgx] THEN pkt.text ELSE <<>>
Found(fs, stringcount) == {i \in DOMAIN fs : ~ fs[i].is_value /\ Numbered(fs[i], stringcount)}
Substrings(fs, b, pkt, fresh) ==
  IF fresh THEN {[i \in Found(fs, b.match) |-> Substring(fs[i], pkt, b.rgx)]}
  ELSE [Found(fs, b.match) -> Texts \cup {<<>>}]

\* A field puts its constant, or the substring its regex captured, or what a custom
\* function makes of it, as a string or as the integer that strtol reads there.
Converted(f) == ~ f.is_value /\ func_name(f) # ""
FieldText(f, sub, buf) == IF Converted(f) THEN Call(func_name(f), sub, buf) ELSE sub
Fields(fs, subs, bufs) ==
  [i \in DOMAIN subs \cup {j \in DOMAIN fs : fs[j].is_value} |->
     [integer |-> is_integer(fs[i]),
      text |-> IF fs[i].is_value THEN fs[i].findby ELSE FieldText(fs[i], subs[i], bufs[i])]]
Overflows(fs, subs, bufs) ==
  \E i \in DOMAIN subs :
    Converted(fs[i]) /\ strlen(FieldText(fs[i], subs[i], bufs[i])) >= MaxRetStr

-----------------------------------------------------------------------------

Packets(p) ==
  [holds : SUBSET ToSet(filled_p_regex(p)), subs : [DOMAIN p.regex -> Subs], text : Texts]
NoPacket == [holds |-> {}, subs |-> <<>>, text |-> <<>>]
NoOutput == [rgx |-> 0, fresh |-> TRUE, subs |-> <<>>, fields |-> <<>>]

WInit == /\ Init
         /\ me = 0 /\ step = "none" /\ at = 1 /\ master = 1
         /\ packet = NoPacket /\ best = NoBest /\ suit = <<>> /\ rows = <<>>
         /\ out = NoOutput

Plgn == plugin[workers[me].plugins[at]]
DebugsMatches == {"d", "l"} \subseteq seen

\* The thread starts.
StartWorker ==
  /\ pc = "running" /\ step = "none"
  /\ \E w \in DOMAIN workers :
       /\ me' = w
       /\ step' = IF workers[w].plugins = <<>> THEN "exit" ELSE "visit"
  /\ UNCHANGED <<svars, at, master, packet, best, suit, rows, out>>

\* The locals of the loop over the plugins begin anew.
VisitKeepingBest ==
  /\ pc = "running" /\ step = "visit"
  /\ best' = best /\ suit' = <<>> /\ rows' = rows /\ master' = 1
  /\ step' = "poll"
  /\ UNCHANGED <<svars, me, at, packet, out>>
VisitKeepingSuit ==
  /\ pc = "running" /\ step = "visit"
  /\ best' = NoBest /\ suit' = suit /\ rows' = rows /\ master' = 1
  /\ step' = "poll"
  /\ UNCHANGED <<svars, me, at, packet, out>>
VisitPlugin ==
  /\ pc = "running" /\ step = "visit"
  /\ best' = NoBest /\ suit' = <<>> /\ rows' = <<>> /\ master' = 1
  /\ step' = "poll"
  /\ UNCHANGED <<svars, me, at, packet, out>>

\* The ring of this master is empty, or a packet of it is matched with the suitable
\* regexes; those of the packets of earlier masters are still among them.
PollEmpty ==
  /\ pc = "running" /\ step = "poll" /\ master <= nb_masters
  /\ ring_rxs[<<workers[me].plugins[at], workers[me].core, master>>] # NoRing
  /\ master' = master + 1
  /\ out' = NoOutput
  /\ UNCHANGED <<svars, me, step, at, packet, best, suit, rows>>
PollPacket ==
  /\ pc = "running" /\ step = "poll" /\ master <= nb_masters
  /\ ring_rxs[<<workers[me].plugins[at], workers[me].core, master>>] # NoRing
  /\ \E pkt \in Packets(Plgn) :
       LET s == AddSuitable(suit, Plgn, pkt)
       IN IF Len(s) > MaxRegex THEN Undefined("suit_rgxs") /\ UNCHANGED wvars
          ELSE /\ packet' = pkt /\ suit' = s
               /\ best' = MatchAll(best, s, pkt)
               /\ rows' = Matched(Aged(rows), s, pkt)
               /\ step' = IF best'.match = 0 THEN "generic" ELSE "emit"
               /\ out' = NoOutput
               /\ UNCHANGED <<svars, me, at, master>>

\* The generic regexes: the loop runs once for each of them, but takes the one with
\* the index of the plugin every time.
TryGenerics ==
  /\ pc = "running" /\ step = "generic"
  /\ LET g == generic_p_regex(Plgn)
         s == [r \in DOMAIN g |-> g[at]]
     IN IF g # <<>> /\ at \notin DOMAIN g THEN Undefined("generic_p_regex") /\ UNCHANGED wvars
        ELSE /\ suit' = s
             /\ best' = MatchAll(best, s, packet)
             /\ rows' = Matched(rows, s, packet)
             /\ step' = "emit"
             /\ UNCHANGED <<svars, me, at, master, packet, out>>

\* The object is written and the packet freed.
Emitted(object) ==
  /\ out' = object /\ packet' = NoPacket
  /\ step' = "poll" /\ master' = master + 1
  /\ UNCHANGED <<svars, me, at, best, suit, rows>>
\* The object of the packet.  Debugging prints the id of best_rgx, set or not.
EmitUnmatched ==
  /\ pc = "running" /\ step = "emit" /\ best.match = 0
  /\ IF DebugsMatches THEN Undefined("best_rgx") /\ UNCHANGED wvars
     ELSE Emitted(NoOutput)
EmitMatched ==
  /\ pc = "running" /\ step = "emit" /\ best.match > 0
  /\ LET fs == Plgn.regex[best.rgx].fields
         fresh == rows[best.row] = [rgx |-> best.rgx, ret |-> best.match, fresh |-> TRUE]
     IN \E subs \in Substrings(fs, best, packet, fresh) :
          \E bufs \in [{i \in DOMAIN subs : Converted(fs[i])} -> Garbage] :
            IF Overflows(fs, subs, bufs) THEN Undefined("func_ret_str") /\ UNCHANGED wvars
            ELSE Emitted([rgx |-> best.rgx, fresh |-> fresh, subs |-> subs,
                          fields |-> Fields(fs, subs, bufs)])

\* After the last master, the next plugin; or the end, once the signal has come.
NextPluginLate ==
  /\ pc = "running" /\ step = "poll" /\ master > nb_masters
  /\ at' = IF at > Len(workers[me].plugins) THEN 1 ELSE at + 1
  /\ step' \in {"visit", "exit"} /\ out' = NoOutput
  /\ UNCHANGED <<svars, me, master, packet, best, suit, rows>>
NextPlugin ==
  /\ pc = "running" /\ step = "poll" /\ master > nb_masters
  /\ at' = IF at = Len(workers[me].plugins) THEN 1 ELSE at + 1
  /\ step' \in {"visit", "exit"} /\ out' = NoOutput
  /\ UNCHANGED <<svars, me, master, packet, best, suit, rows>>

\* The plugin has no ring for this core and this master.
PollNoRing ==
  /\ pc = "running" /\ step = "poll" /\ master <= nb_masters
  /\ ring_rxs[<<workers[me].plugins[at], workers[me].core, master>>] = NoRing
  /\ Undefined("ring_dequeue") /\ UNCHANGED wvars

\* The thread frees its write buffers; one without plugins has none to free.
ExitWorker ==
  /\ pc = "running" /\ step = "exit"
  /\ IF workers[me].plugins = <<>> /\ plugin # <<>> THEN Undefined("wb") /\ UNCHANGED wvars
     ELSE step' = "done" /\ UNCHANGED <<svars, me, at, master, packet, best, suit, rows, out>>

WorkerStep == \/ StartWorker \/ VisitPlugin \/ PollEmpty \/ PollPacket \/ PollNoRing
              \/ TryGenerics \/ EmitUnmatched \/ EmitMatched \/ NextPlugin \/ ExitWorker

Next == \/ Setup /\ UNCHANGED wvars
        \/ WorkerStep
        \/ step = "done" /\ End /\ UNCHANGED wvars

Spec == WInit /\ [][Next]_<<svars, wvars>>

-----------------------------------------------------------------------------

\* Types: every variable holds what the code's variable may hold.
TypeOK ==
  /\ input \in Inputs
  /\ pc \in {"args", "config", "plugins", "assign", "running", "joined", "stopped",
            "exited"} \cup Faults
  /\ \A i \in DOMAIN core_conf : core_conf[i].core \in Int /\ core_conf[i].role \in {"s", "m", "c"}
  /\ \A p \in DOMAIN plugin : Len(plugin[p].regex) <= MaxRegex
  /\ \A w \in DOMAIN workers : ToSet(workers[w].plugins) \subseteq DOMAIN plugin
  /\ step \in {"none", "visit", "poll", "generic", "emit", "exit", "done"}
  /\ step = "none" \/ me \in DOMAIN workers
  /\ step \in {"none", "exit", "done"} \/ at \in DOMAIN workers[me].plugins
  /\ master \in 1 .. nb_masters + 1
  /\ Len(suit) <= MaxRegex /\ Len(rows) <= MaxRegex
  /\ best = NoBest \/ (best.match > 0 /\ best.row \in DOMAIN rows)

\* What the plugin files say, whatever the way they are read: a stanza ends with a line
\* "end", a regex of it with a line "fields"; the last value of a key in its part
\* counts; the core ids of all core_id lines are joined.
AllLines == FlattenSeq([f \in DOMAIN config.plugin_file |-> input.files[config.plugin_file[f]]])
\* Among the lines first .. last of ls: those with the key, with a value for it and with
\* a boolean for it.
Keyed(ls, key, first, last) == {i \in first .. last : ls[i][1] = key}
Valued(ls, key, first, last) == {i \in first .. last : ls[i][1] = key /\ ls[i][2] # <<>>}
Booleans(ls, key, first, last) ==
  {i \in first .. last : ls[i][1] = key /\ IsBoolean(ls[i][2])}
\* The first line of the part that is open after line last, where key ends a part.
Start(ls, key, first, last) ==
  Max({first} \cup {i + 1 : i \in Valued(ls, key, first, last)})
LastOf(ls, S, default) == IF S = {} THEN default ELSE ls[Max(S)][2]
CoresSaid(ls, first, last) ==
  FlattenSeq([i \in 1 .. last - first + 1 |->
    IF ls[first + i - 1][1] = "core_id" THEN ls[first + i - 1][2] ELSE <<>>])
KeysSaid(p, ls, first, last) ==
  /\ p.filename = LastOf(ls, Valued(ls, "filename", first, last), NULL)
  /\ p.plugin_id = LastOf(ls, Valued(ls, "plugin_id", first, last), NULL)
  /\ p.ip = LastOf(ls, Valued(ls, "listen_ip", first, last), NULL)
  /\ p.core_ids = CoresSaid(ls, first, last)
  /\ p.all_nondedicated_cores =
       (LastOf(ls, Booleans(ls, "all_nondedicated_cores", first, last), NULL) = <<"true">>)
  /\ p.optimized =
       (LastOf(ls, Booleans(ls, "optimized", first, last), NULL) = <<"true">>)
RegexSaid(r, ls, first, last) ==
  \A key \in RegexKeys :
    r[key] = LastOf(ls, Keyed(ls, key, first, last), IF key = "fields" THEN <<>> ELSE NULL)
RegexesSaid(rs, ls, first, last) ==
  /\ Len(rs) = Cardinality(Valued(ls, "fields", first, last))
  /\ \A i \in Valued(ls, "fields", first, last) :
       RegexSaid(rs[Cardinality(Valued(ls, "fields", first, i))], ls,
                 Start(ls, "fields", first, i - 1), i)
PluginSaid(p, ls, first, last) ==
  KeysSaid(p, ls, first, last) /\ RegexesSaid(p.regex, ls, first, last)
PluginsSaid(ps, ls, last) ==
  /\ Len(ps) = Cardinality(Valued(ls, "end", 1, last))
  /\ \A i \in Valued(ls, "end", 1, last) :
       PluginSaid(ps[Cardinality(Valued(ls, "end", 1, i))], ls,
                  Start(ls, "end", 1, i - 1), i)

\* cfg.c, evaluate_plugin: when the files are read, each plugin is what its stanza
\* says; no line leaks into another regex or another plugin.
ParsedRight ==
  pc \in {"assign", "running"} => PluginsSaid(plugin, AllLines, Len(AllLines))

\* logcollector.c, core_conf: when the options of the receivers come before those of
\* the masters and these before those of the workers, every thread gets a core that
\* was given for its role.
Given(role) ==
  FlattenSeq([i \in DOMAIN input.options |->
    IF input.options[i].opt = role THEN input.options[i].cores ELSE <<>>])
InOrder ==
  \A i, j \in DOMAIN input.options :
    i < j => <<input.options[i].opt, input.options[j].opt>>
               \notin {<<"m", "s">>, <<"c", "s">>, <<"c", "m">>}
RolesKept ==
  pc \in {"config", "running"} /\ InOrder =>
    /\ receiver_cores = Given("s")
    /\ master_cores = Given("m")
    /\ worker_cores = Given("c")

\* logcollector.c, assign_plugins_to_workers and the rings: when the workers have
\* distinct cores and a plugin is given distinct cores of workers, every ring that a
\* master can send the plugin's packets to is polled by one worker, for one plugin.
Distinct(s) == \A i, j \in DOMAIN s : s[i] = s[j] => i = j
Readers(r) ==
  {x \in UNION {{w} \X DOMAIN workers[w].plugins : w \in DOMAIN workers} :
     ring_rxs[<<workers[x[1]].plugins[x[2]], workers[x[1]].core, r[3]>>] = r}
OneReader ==
  pc = "running" /\ Distinct(worker_cores) =>
    \A p \in Dedicated :
      /\ Distinct(plugin[p].core_ids)
      /\ ToSet(plugin[p].core_ids) \subseteq ToSet(worker_cores)
      => \A r \in MadeRings : r[1] = p => Cardinality(Readers(r)) = 1

\* logcollector.c, the end of main: a program that ends well has freed every ring exactly
\* once; none leaks, whatever cores the plugins are given.
FreedOnce ==
  pc = "stopped" => \A r \in MadeRings : freed[r] = 1

\* logcollector.c, accesses far from what they depend on: suit_rgxs overflows only when
\* the masters times the regexes of a plugin do not fit, so never by what earlier visits
\* left; a worker polls a NULL ring only when a plugin is for all non-dedicated cores, and
\* reads past generic_p_regex only when it has several plugins; it frees past wb only when
\* no plugin has its core and none is for all others; a ring is freed twice only when a
\* plugin has a core twice.
FaultsHaveCauses ==
  /\ pc = "suit_rgxs" =>
       \E p \in DOMAIN plugin : nb_masters * Len(plugin[p].regex) > MaxRegex
  /\ pc = "ring_dequeue" => \E p \in DOMAIN plugin : plugin[p].all_nondedicated_cores
  /\ pc = "generic_p_regex" => \E w \in DOMAIN workers : Len(workers[w].plugins) > 1
  /\ pc = "wb" =>
       \E w \in DOMAIN worker_cores : \A p \in DOMAIN plugin :
         ~ plugin[p].all_nondedicated_cores
         /\ worker_cores[w] \notin ToSet(plugin[p].core_ids)
  /\ pc = "ring_free" => \E p \in DOMAIN plugin : ~ Distinct(plugin[p].core_ids)

\* logcollector.c, initialize_custom_functions: the table is sound and finds each of
\* the functions, and nothing else, also while it grows from one bucket.
FunctionsFound ==
  hash_map # EmptyMap =>
    /\ MapSound(hash_map)
    /\ \A f \in Names : Has(hash_map, f) = (f \in ToSet(cf_dictionary))
    /\ \A f \in ToSet(cf_dictionary) : Find(hash_map, f) = f

\* logcollector.c, worker_loop: for the first packet of a visit the regex is the first
\* of the suitable ones that return the most; the filled ones come first.
Suitable(p, pkt) ==
  pkt.holds \cup (IF p.optimized THEN {} ELSE ToSet(empty_p_regex(p)))
Earlier(p, r, q) ==
  LET filled == ToSet(filled_p_regex(p))
  IN IF (r \in filled) = (q \in filled) THEN r <= q ELSE r \in filled
BestOfPacket ==
  step = "emit" /\ master = 1 /\ (\E r \in Suitable(Plgn, packet) : Ret(packet, r) > 0) =>
    /\ best.rgx \in Suitable(Plgn, packet) /\ best.match = Ret(packet, best.rgx)
    /\ \A q \in Suitable(Plgn, packet) :
         \/ Ret(packet, q) < best.match
         \/ /\ Ret(packet, q) = best.match
            /\ Earlier(Plgn, best.rgx, q)

\* logcollector.c, best_match and rgx_sub_vectors: with one master, the substrings of
\* an object come from a match of its own packet, never from an earlier one.
FreshWithOneMaster == nb_masters = 1 => out.fresh

\* logcollector.c:601: "if no rgx is matched try generic regexes".  When no suitable
\* regex matches the packet and a generic one does, the object has a generic one.
GenericsTried ==
  LET g == ToSet(generic_p_regex(Plgn))
  IN step = "emit" /\ nb_masters = 1
     /\ (\A r \in Suitable(Plgn, packet) : Ret(packet, r) = 0)
     /\ (\E r \in g : Ret(packet, r) > 0)
     => best.rgx \in g

\* custom_functions.c:607: "if len(attackId) <8 : attackId = int(str(10) +
\* str(attackId))", "return attackId".
SidReturned ==
  out.rgx # 0 =>
    \A i \in DOMAIN out.subs :
      LET f == Plgn.regex[out.rgx].fields[i]
          sid == out.subs[i]
      IN func_name(f) = "fortigate_sid" =>
           out.fields[i].text = IF strlen(sid) < 8 THEN <<"10">> \o sid ELSE sid

=============================================================================
