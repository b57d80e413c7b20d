----------------------------- MODULE MCWorkers -----------------------------
(* Command lines, configuration files and plugin files for TLC. *)
EXTENDS WorkerMatch, TLC

NamesDef == ToSet(cf_dictionary) \cup {"unknown"}
HashDef  == [n \in NamesDef |->
  CASE n = "normalize_date_fortigate" -> 5 [] n = "fortigate_sid" -> 1
    [] n = "normalize_protocol" -> 2 [] n = "normalize_date_citrix" -> 13
    [] n = "translate_citrix" -> 6 [] OTHER -> 9]

\* Texts, the lengths of their pieces against a buffer of 16, and the groups of a match:
\* none, the whole, the last of three without the second, all.
TextsDef  == {<<"1">>, <<"long">>, <<"date">>, <<"code">>, <<"big">>}
LengthDef == [p \in {"1", "10", "long", "date", "code", "big", "normal", "number", "icmp",
                     "tcp", "junk", "endless"} |->
  CASE p = "1" -> 1 [] p = "10" -> 2 [] p = "long" -> 8 [] p = "big" -> 16
    [] p = "endless" -> 16 [] OTHER -> 6]
SubsDef  == {{}, {0}, {0, 2}, {0, 1, 2}}
GroupDef == <<"sub">> :> 1 @@ <<"sub2">> :> 2

\* Plugin files.
Field(k, by, rest) == [key |-> k, findby |-> <<by>>, is_value |-> FALSE, rest |-> rest]
Plain(k)    == Field(k, "sub", <<>>)
Value(k)    == [Field(k, "const", <<>>) EXCEPT !.is_value = TRUE]
By(k, name) == Field(k, "sub", <<name>>)
Regex(id, description, precheck, fields) ==
  <<<<"regex_id", <<id>>>>, <<"description", <<description>>>>, <<"precheck", precheck>>,
    <<"regexp", <<"re">>>>, <<"fields", fields>>>>
Head_(name, cores) ==
  <<<<"", <<>>>>, <<"plugin_id", <<name>>>>, <<"filename", <<name>>>>,
    <<"listen_ip", <<"ip">>>>, <<"core_id", cores>>>>
End_ == <<<<"end", <<"end">>>>>>
Generic_ == <<"GENERIC_LOG">>

\* One plugin with a regex of each kind; one whose second generic regex would match;
\* one that calls every function; and a second plugin, optimized, for other cores.
Small  == Head_("a", <<3>>) \o Regex("1", "f", <<"pre">>, <<Plain("k")>>)
          \o Regex("2", "e", <<>>, <<Value("k"), Field("n", "sub2", <<"", "integer">>)>>) \o End_
Kinds  == Head_("a", <<3>>) \o Regex("1", "f", <<"pre">>, <<Plain("k")>>)
          \o Regex("2", "f2", <<"pre2">>, <<Plain("k")>>)
          \o Regex("3", "e", <<>>, <<Value("k")>>)
          \o Regex("4", "g", Generic_, <<Plain("k")>>) \o End_
Fives  == SubSeq(Kinds, 1, 25) \o Regex("5", "g", Generic_, <<Plain("k")>>) \o End_
Calls  == Head_("a", <<3>>)
          \o Regex("1", "f", <<"pre">>, [i \in 1 .. 5 |-> By("k", cf_dictionary[i])]
                                       \o <<By("k", "unknown"), Value("v")>>) \o End_
Two    == Head_("a", <<3>>) \o Regex("1", "e", <<>>, <<Plain("k")>>)
          \o Regex("2", "g", Generic_, <<Plain("k")>>)
          \o Regex("3", "g2", Generic_, <<Plain("k")>>) \o End_
Second(cores) ==
  Head_("b", cores) \o <<<<"optimized", <<"true">>>>>>
  \o Regex("1", "f", <<"pre">>, <<Plain("k")>>)
  \o Regex("2", "e", <<>>, <<Field("i", "sub2", <<"fortigate_sid", "integer">>),
                            By("k", "normalize_protocol")>>) \o End_
Shared == Head_("c", <<3, 4>>) \o <<<<"all_nondedicated_cores", <<"false">>>>>>
          \o Regex("1", "f", <<"pre">>, <<Plain("k")>>) \o End_
Anyone == Head_("d", <<9>>) \o <<<<"all_nondedicated_cores", <<"true">>>>,
                                <<"listen_port", <<"514">>>>, <<"optimized", <<"maybe">>>>>>
          \o Regex("1", "f", <<"pre">>, <<Plain("k")>>) \o End_
Doubled == Head_("e", <<3, 3>>) \o Regex("1", "e", <<>>, <<Plain("k")>>) \o End_
Cored(cores) == Head_("h", cores) \o Regex("1", "e", <<>>, <<Plain("k")>>) \o End_
Bad(line) == Head_("x", <<3>>) \o <<line>> \o Regex("1", "e", <<>>, <<Plain("k")>>) \o End_

\* Every file with a line less or with two neighbours swapped.
Without(f, i) == RemoveAt(f, i)
Swapped(f, i) == [f EXCEPT ![i] = f[i + 1], ![i + 1] = f[i]]
Edited(f) == {Without(f, i) : i \in DOMAIN f}
             \cup {Swapped(f, i) : i \in 1 .. Len(f) - 1}

\* Configuration files.
Config(names) ==
  <<<<"", <<>>>>, <<"udp_socket", <<"ip:514">>>>, <<"plugin_file", names>>,
    <<"json_file_size", <<2, "GB">>>>, <<"temp_file_size", <<-1, "MB">>>>,
    <<"temp_file_size", <<1, "KB">>>>, <<"log_file", <<>>>>, <<"log_file", <<"log">>>>,
    <<"other", <<"x">>>>>>
Input(opts, fs) ==
  [options |-> opts, config |-> "conf",
   files |-> ("conf" :> Config([i \in DOMAIN fs |-> <<"p1", "p2">>[i]]))
             @@ [n \in {<<"p1", "p2">>[i] : i \in DOMAIN fs} |->
                   fs[CHOOSE i \in DOMAIN fs : <<"p1", "p2">>[i] = n]]]

\* Command lines.
Opt(o)        == [opt |-> o, cores |-> <<>>]
Cores(o, c)   == [opt |-> o, cores |-> c]
Line(r, m, w) == <<Cores("s", r), Cores("m", m), Cores("c", w), Opt("k"), Opt("f")>>
One     == Line(<<1>>, <<2>>, <<3>>)
TwoWork == Line(<<1>>, <<2>>, <<3, 4>>)
TwoMast == Line(<<1>>, <<2, 5>>, <<3>>)
Big     == Line(<<0, 1>>, <<2, 5>>, <<3, 4>>)
Wrong ==
  {Line(<<>>, <<2>>, <<3>>), Line(<<1>>, <<2>>, <<>>),
   <<Cores("c", <<3>>), Cores("m", <<2>>), Cores("s", <<1>>), Opt("k")>>,
   SubSeq(One, 1, 3), Append(SubSeq(One, 1, 3), Opt("badkey")), <<Opt("?")>>,
   <<Cores("s", <<1>>), Cores("s", <<0>>)>> \o Tail(One), Line(<<1>>, <<2>>, <<3, 3>>),
   Line(<<1>>, <<2>>, <<9>>)}
Loud == One \o <<Opt("d"), Opt("l")>>

InputsDef ==
  {Input(l, <<Small>>) : l \in Wrong \cup {One, Loud}}
  \cup {Input(One, <<f>>) : f \in Edited(Small) \cup {Kinds, Fives, Calls, Anyone, Doubled,
          Cored(<<9>>), Cored(<<-1>>), Cored([i \in 1 .. 9 |-> 3]), Small \o End_ \o End_,
          Bad(<<"unclosed", <<>>>>), Bad(<<"fields", [i \in 1 .. 8 |-> Plain("k")]>>),
          Bad(<<"malformed", <<>>>>), Bad(<<"regexp", <<"bad">>>>)}}
  \cup {Input(TwoMast, <<f>>) : f \in {Small, Shared, Kinds}}
  \cup {Input(TwoWork, <<Small, Second(<<4>>)>>), Input(TwoWork, <<Shared, Second(<<4>>)>>),
        Input(Big, <<Shared, Second(<<4>>)>>), Input(One, <<Small, Second(<<3>>)>>),
        Input(TwoWork, <<Small, Second(<<4>>) \o Small>>), Input(One, <<Two, Kinds>>), Input(One, <<>>),
        [Input(One, <<Small>>) EXCEPT !.config = "missing"]}

GenericInputs == {Input(One, <<Two>>)}
SidInputs     == {Input(One, <<Calls>>)}
=============================================================================
