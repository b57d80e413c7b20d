------------------------------ MODULE Startup ------------------------------
(***************************************************************************)
(* What main does around the threads: the command line, the configuration  *)
(* file, the plugin files, the rings of the plugins, the plugins of each   *)
(* worker, and the end.  The threads themselves are in other modules.      *)
(*                                                                         *)
(* A line of a file is a pair <<key, value>>, the value a sequence: <<>>   *)
(* for an empty value, the numbers of a core_id line, the fields of a      *)
(* fields line, else one string.  The key of a line without a colon or     *)
(* without a key is "malformed"; that of a comment or a blank line is "".  *)
(* A field is what strchr finds: a key up to the first colon, a name or a  *)
(* value in quotes up to the next one, the rest up to the bracket.  When   *)
(* it finds no colon, quote or bracket the key of the line is "unclosed".  *)
(*                                                                         *)
(* Undefined behaviour ends a behaviour: pc names the access.  Modelled    *)
(* are the ones listed in Faults, not every one of the program.            *)
(***************************************************************************)
EXTENDS HashMap, FiniteSets

CONSTANTS
  Inputs,    \* the command lines and files: [options, config, files]
  MaxRegex,  \* MAX_REGEX_CNT
  MaxCore,   \* MAX_CORE_NUM, MAX_PLUGIN_CORE_CNT
  MaxFields, \* MAX_REGEX_FIELDS
  MaxPlugins, \* MAX_PLUGIN_CNT
  SizeMod    \* the sizes that 64 bits hold, in megabytes

ASSUME StartupAssumption ==
  {MaxRegex, MaxCore, MaxFields, MaxPlugins, SizeMod} \subseteq Nat \ {0}

\* The cores of an option are what atoi makes of them and those of a core_id line what
\* parse_decimal does, -1 for no number; the value of a plugin_file line is file names.
ASSUME InputsAssumption ==
  \A inp \in Inputs :
    /\ inp.options \in Seq([opt : STRING, cores : Seq(Int)])
    /\ \A f \in DOMAIN inp.files :
         /\ inp.files[f] \in Seq(ToSet(inp.files[f]))
         /\ \A l \in ToSet(inp.files[f]) : /\ l[1] = "core_id" => l[2] \in Seq(Int)
                                           /\ l[1] = "plugin_file" => l[2] \in Seq(STRING)

VARIABLES
  input,      \* the command line and the files, fixed
  pc,         \* where main is, or the undefined access it or a worker made
  options,    \* the options still to read
  core_conf,  \* core_conf: the cores with their roles, in the order given
  seen,       \* the other options read: k the key, d a debug file, l level 2
  config,     \* struct configuration
  files,      \* the plugin files still to open
  lines,      \* the lines still to read of the open plugin file
  plugin,     \* plugin[0 .. plugin_cnt - 1]
  slot,       \* plugin[plugin_cnt], which the lines write to
  ring_rxs,   \* from <<plugin, core, master>> to a ring, or NULL
  hash_map,   \* the table of custom functions
  workers,    \* sthreads: core, dedicated, the plugins copied to it
  freed       \* the frees of each ring

svars == <<input, pc, options, core_conf, seen, config, files, lines, plugin, slot,
           ring_rxs, hash_map, workers, freed>>

NULL == <<"NULL">>

\* The elements of s that are in T, in their order: what a loop over s keeps.
Chosen(s, T) ==
  LET kept[i \in 0 .. Len(s)] ==
        IF i = 0 THEN <<>>
        ELSE IF s[i] \in T THEN Append(kept[i - 1], s[i]) ELSE kept[i - 1]
  IN kept[Len(s)]

-----------------------------------------------------------------------------

\* Cores.

CountOf(role)  == Cardinality({i \in DOMAIN core_conf : core_conf[i].role = role})
nb_receivers   == CountOf("s")
nb_masters     == CountOf("m")
nb_slaves      == CountOf("c")

\* The cores of rthreads, mthreads and sthreads: slices of core_conf.
Slice(from, n) == [i \in 1 .. n |-> core_conf[from + i].core]
receiver_cores == Slice(0, nb_receivers)
master_cores   == Slice(nb_receivers, nb_masters)
worker_cores_ahead == Slice(nb_masters, nb_slaves)
worker_cores   == Slice(nb_receivers + nb_masters, nb_slaves)

\* Plugins.

EmptyRegex == [regex_id |-> NULL, description |-> NULL, precheck |-> NULL, regexp |-> NULL,
               fields |-> <<>>]
EmptySlot  == [filename |-> NULL, plugin_id |-> NULL, ip |-> NULL, core_ids |-> <<>>,
               all_nondedicated_cores |-> FALSE, optimized |-> FALSE,
               regex |-> <<>>, open |-> EmptyRegex]

\* plugin_key_filename and the other handlers of plugin_dictionary: an empty or
\* wrong value is ignored, core_id adds to the cores.
IsBoolean(value) == value \in {<<"true">>, <<"false">>}
PluginKey(s, key, value) ==
  IF value = <<>> THEN s
  ELSE CASE key = "filename" -> [s EXCEPT !.filename = value]
         [] key = "plugin_id" -> [s EXCEPT !.plugin_id = value]
         [] key = "listen_ip" -> [s EXCEPT !.ip = value]
         [] key = "core_id" -> [s EXCEPT !.core_ids = @ \o value]
         [] key = "all_nondedicated_cores" /\ IsBoolean(value) ->
              [s EXCEPT !.all_nondedicated_cores = (value = <<"true">>)]
         [] key = "optimized" /\ IsBoolean(value) ->
              [s EXCEPT !.optimized = (value = <<"true">>)]
         [] OTHER -> s

\* regex_key_regex_id and the others write to regex[regex_cnt], and
\* regex_key_fields, whose line closes it, counts it.
RegexKeyStays(s, key, value) ==
  IF key = "fields" THEN [s EXCEPT !.regex = Append(@, [s.open EXCEPT !.fields = value])]
  ELSE [s EXCEPT !.open = [@ EXCEPT ![key] = value]]
RegexKey(s, key, value) ==
  IF key = "fields"
  THEN [s EXCEPT !.regex = Append(@, [s.open EXCEPT !.fields = value]),
                 !.open = EmptyRegex]
  ELSE [s EXCEPT !.open = [@ EXCEPT ![key] = value]]
RegexKeys == {"regex_id", "description", "precheck", "regexp", "fields"}

\* regex_key_fields, the rest of a field: the function and "integer".  A function alone
\* makes strchr read temp7, which only a field with both has set before; what strchr
\* returns is not used.
func_name(f)  == IF f.rest = <<>> THEN "" ELSE f.rest[1]
is_integer(f) == Len(f.rest) > 1 /\ f.rest[2] = "integer"
ReadsTemp7(fields) ==
  \E i \in DOMAIN fields :
    Len(fields[i].rest) = 1 /\ \A j \in 1 .. i - 1 : Len(fields[j].rest) < 2

\* What a line writes past: nothing bounds plugin_cnt, regex_cnt, core_id_num and the
\* number of fields.
WritesSlot(key, value) ==
  \/ key \in RegexKeys
  \/ key \in {"filename", "plugin_id", "listen_ip", "core_id"} /\ value # <<>>
  \/ key \in {"all_nondedicated_cores", "optimized"} /\ IsBoolean(value)
Overrun(array, key, value) ==
  CASE array = "plugin" -> WritesSlot(key, value) /\ Len(plugin) >= MaxPlugins
    [] array = "regex" -> key \in RegexKeys /\ Len(slot.regex) >= MaxRegex
    [] array = "fields" -> key = "fields" /\ Len(value) > MaxFields
    [] array = "core_ids" -> key = "core_id" /\ Len(slot.core_ids \o value) > MaxCore
Arrays == {"plugin", "regex", "fields", "core_ids"}

\* The accesses that are not defined in some case: a write through a NULL delim, the
\* arrays above, the uninitialized temp7, an index of ring_rxs, strdup of NULL, a mutex
\* in freed memory, a ring freed again; and in the worker suit_rgxs past its end, a NULL
\* ring, a regex past generic_p_regex, an unset best_rgx, func_ret_str and wb.
Faults == Arrays \cup
  {"delim", "temp7", "ring_rxs", "strdup", "file_lock", "ring_free", "suit_rgxs",
   "ring_dequeue", "generic_p_regex", "best_rgx", "func_ret_str", "wb"}

\* The handlers of the configuration file.  A size is a number, or -1 for what
\* parse_decimal refuses, and a unit; stored as uint64_t, where it wraps around.
Defaults == [plugin_file |-> <<>>, udp_socket |-> <<>>, recv_buf_size |-> NULL,
             log_file |-> NULL, tmp_folder |-> <<>>, json_folder |-> <<>>,
             temp_file_size |-> 100, json_file_size |-> 100]
HUN_MB_SIZE == 99
SizeOf(value) ==
  IF value = <<>> THEN HUN_MB_SIZE
  ELSE CASE value[2] = "MB" -> value[1] % SizeMod
         [] value[2] = "GB" -> (value[1] * 1024) % SizeMod
         [] OTHER -> HUN_MB_SIZE
ConfigKey(c, key, value) ==
  IF key \in {"temp_file_size", "json_file_size"} THEN [c EXCEPT ![key] = SizeOf(value)]
  ELSE IF value = <<>> \/ key \notin DOMAIN Defaults THEN c
  ELSE IF key \in {"plugin_file", "udp_socket"} THEN [c EXCEPT ![key] = @ \o value]
  ELSE [c EXCEPT ![key] = value]
\* parse_configuration_file, the loop over the lines.
Configured(ls) ==
  LET c[i \in 0 .. Len(ls)] ==
        IF i = 0 THEN Defaults ELSE ConfigKey(c[i - 1], ls[i][1], ls[i][2])
  IN c[Len(ls)]

\* sanitize_cfg, sanitize_plugin: the program exits on a malformed line anywhere,
\* before it evaluates the first line.
Sane(f) == f \in DOMAIN input.files
           /\ \A i \in DOMAIN input.files[f] : input.files[f][i][1] # "malformed"

\* copy_plugin duplicates these strings: strdup(NULL) is undefined.
CanCopy(p) ==
  /\ NULL \notin {p.filename, p.ip}
  /\ \A i \in DOMAIN p.regex :
       NULL \notin {p.regex[i].description, p.regex[i].precheck, p.regex[i].regexp}
\* compile_and_study_regexes
Compiles(p) == \A i \in DOMAIN p.regex : p.regex[i].regexp # <<"bad">>

\* assign_plugins_to_workers, first pass: a plugin is copied once for each of its
\* core ids that is the worker's core; second pass: a worker without a dedicated
\* plugin gets every plugin for non-dedicated cores.
Dedicated == {p \in DOMAIN plugin : ~ plugin[p].all_nondedicated_cores}
Positions(p, core) == {i \in DOMAIN plugin[p].core_ids : plugin[p].core_ids[i] = core}
DedicatedTo(core) ==
  FlattenSeq([p \in DOMAIN plugin |->
    IF p \notin Dedicated THEN <<>>
    ELSE [i \in 1 .. Cardinality(Positions(p, core)) |-> p]])
Others == Chosen([p \in DOMAIN plugin |-> p], DOMAIN plugin \ Dedicated)
WorkerLast(core) ==
  [core |-> core, dedicated |-> DedicatedTo(core) # <<>>,
   plugins |-> IF DedicatedTo(core) # <<>> THEN <<Last(DedicatedTo(core))>> ELSE Others]
Worker(core) ==
  [core |-> core, dedicated |-> DedicatedTo(core) # <<>>,
   plugins |-> IF DedicatedTo(core) # <<>> THEN DedicatedTo(core) ELSE Others]

\* The plugins in the order they are copied and compiled in.
CopyOrder(all) ==
  FlattenSeq([w \in DOMAIN all |-> IF all[w].dedicated THEN all[w].plugins ELSE <<>>])
  \o FlattenSeq([w \in DOMAIN all |-> IF all[w].dedicated THEN <<>> ELSE all[w].plugins])

\* create_rings_dedicated_threads: a ring for each plugin, position in core_ids and
\* master; a later position with the same core overwrites the pointer.
NoRing == <<>>
OutOfRange(p) ==
  \E i \in DOMAIN plugin[p].core_ids : plugin[p].core_ids[i] \notin 0 .. MaxCore - 1
AllCores == ToSet(worker_cores) \cup UNION {ToSet(plugin[p].core_ids) : p \in DOMAIN plugin}
MadeRings ==
  UNION {{p} \X (DOMAIN plugin[p].core_ids) \X (1 .. nb_masters) : p \in Dedicated}
RingOf(p, core, m) ==
  IF p \notin Dedicated \/ Positions(p, core) = {} THEN NoRing
  ELSE <<p, Max(Positions(p, core)), m>>

\* cf_dictionary
cf_dictionary == <<"normalize_date_fortigate", "fortigate_sid", "normalize_protocol",
                   "normalize_date_citrix", "translate_citrix">>
ASSUME NamesAssumption == ToSet(cf_dictionary) \subseteq Names

\* initialize_custom_functions
FunctionTable ==
  LET map[i \in 0 .. Len(cf_dictionary)] ==
        IF i = 0 THEN EmptyMap ELSE AddOnce(map[i - 1], cf_dictionary[i], cf_dictionary[i])
  IN map[Len(cf_dictionary)]

-----------------------------------------------------------------------------

Init ==
  /\ input \in Inputs
  /\ pc = "args" /\ options = input.options
  /\ core_conf = <<>> /\ seen = {}
  /\ config = Defaults /\ files = <<>> /\ lines = <<>>
  /\ plugin = <<>> /\ slot = EmptySlot
  /\ ring_rxs = <<>> /\ hash_map = EmptyMap
  /\ workers = <<>> /\ freed = <<>>

\* main returns or exits.
Exit == /\ pc' = "exited"
        /\ UNCHANGED <<input, options, core_conf, seen, config, files, lines, plugin,
                       slot, ring_rxs, hash_map, workers, freed>>

\* What happens next is not defined.
Undefined(fault) ==
  /\ pc' = fault
  /\ UNCHANGED <<input, options, core_conf, seen, config, files, lines, plugin, slot,
                 ring_rxs, hash_map, workers, freed>>

\* getopt and parse_core_mask: every mask adds to the one array.
ReadOption ==
  /\ pc = "args" /\ options # <<>>
  /\ LET o == Head(options)
     IN IF \/ o.opt \in {"?", "badkey"}
           \/ o.opt \in {"s", "m", "c"} /\ core_conf \o o.cores = <<>>
        THEN Exit
        ELSE /\ options' = Tail(options)
             /\ IF o.opt \in {"s", "m", "c"}
                THEN /\ core_conf' = core_conf \o [i \in DOMAIN o.cores |->
                                        [core |-> o.cores[i], role |-> o.opt]]
                     /\ seen' = seen
                ELSE seen' = seen \cup {o.opt} /\ core_conf' = core_conf
             /\ UNCHANGED <<input, pc, config, files, lines, plugin, slot, ring_rxs,
                            hash_map, workers, freed>>

\* The checks between the options and the configuration.
CheckOptions ==
  /\ pc = "args" /\ options = <<>>
  /\ IF 0 \in {nb_receivers, nb_masters, nb_slaves} \/ "k" \notin seen THEN Exit
     ELSE /\ pc' = "config"
          /\ UNCHANGED <<input, options, core_conf, seen, config, files, lines, plugin,
                         slot, ring_rxs, hash_map, workers, freed>>

\* parse_configuration_file
ParseConfiguration ==
  /\ pc = "config"
  /\ IF ~ Sane(input.config) THEN Exit
     ELSE /\ config' = Configured(input.files[input.config])
          /\ files' = config'.plugin_file
          /\ pc' = "plugins"
          /\ UNCHANGED <<input, options, core_conf, seen, lines, plugin, slot, ring_rxs,
                         hash_map, workers, freed>>

\* parse_plugin_file, up to the first line.
OpenPluginFile ==
  /\ pc = "plugins" /\ lines = <<>> /\ files # <<>>
  /\ IF ~ Sane(Head(files)) THEN Exit
     ELSE /\ lines' = input.files[Head(files)] /\ files' = Tail(files)
          /\ UNCHANGED <<input, pc, options, core_conf, seen, config, plugin, slot,
                         ring_rxs, hash_map, workers, freed>>

\* evaluate_plugin, one line.  "end" only counts.
TakeLine(key, value) ==
  /\ lines' = Tail(lines)
  /\ IF key = "end" /\ value # <<>>
     THEN plugin' = Append(plugin, slot) /\ slot' = EmptySlot
     ELSE /\ plugin' = plugin
          /\ slot' = IF key \in RegexKeys THEN RegexKey(slot, key, value)
                     ELSE PluginKey(slot, key, value)
  /\ UNCHANGED <<input, pc, options, core_conf, seen, config, files, ring_rxs, hash_map,
                 workers, freed>>
EvaluateLine ==
  /\ pc = "plugins" /\ lines # <<>>
  /\ LET key == lines[1][1]  value == lines[1][2]
     IN IF key \in RegexKeys \ {"precheck"} /\ value = <<>> THEN Exit
        ELSE IF key = "unclosed" THEN Undefined("delim")
        ELSE IF \E array \in Arrays : Overrun(array, key, value)
        THEN \E array \in Arrays : Overrun(array, key, value) /\ Undefined(array)
        ELSE \/ key = "fields" /\ ReadsTemp7(value) /\ Undefined("temp7")
             \/ TakeLine(key, value)

\* create_rings_dedicated_threads for every plugin, and initialize_custom_functions.
\* (create_rings_nondedicated_threads compares an array with NULL and makes none.)
CreateRings ==
  /\ pc = "plugins" /\ lines = <<>> /\ files = <<>>
  /\ IF Len(plugin) > MaxPlugins THEN Undefined("plugin")
     ELSE IF \E p \in Dedicated : OutOfRange(p) THEN Undefined("ring_rxs")
     ELSE /\ ring_rxs' = [x \in (DOMAIN plugin) \X AllCores \X (1 .. nb_masters) |->
                            RingOf(x[1], x[2], x[3])]
          /\ hash_map' = FunctionTable
          /\ pc' = "assign"
          /\ UNCHANGED <<input, options, core_conf, seen, config, files, lines, plugin,
                         slot, workers, freed>>

\* assign_plugins_to_workers, which stops at the first plugin that it cannot copy
\* or compile; then the worker threads start.
AssignPlugins ==
  /\ pc = "assign"
  /\ LET all == [w \in DOMAIN worker_cores |-> Worker(worker_cores[w])]
         order == CopyOrder(all)
         bad == {i \in DOMAIN order : ~ CanCopy(plugin[order[i]]) \/ ~ Compiles(plugin[order[i]])}
     IN IF bad # {}
        THEN IF CanCopy(plugin[order[Min(bad)]]) THEN Exit ELSE Undefined("strdup")
        ELSE /\ workers' = all /\ pc' = "running"
             /\ UNCHANGED <<input, options, core_conf, seen, config, files, lines,
                            plugin, slot, ring_rxs, hash_map, freed>>

\* After SIGINT the threads end and main joins them.
Join ==
  /\ pc = "running" /\ pc' = "joined"
  /\ UNCHANGED <<input, options, core_conf, seen, config, files, lines, plugin, slot,
                 ring_rxs, hash_map, workers, freed>>

\* The end of main destroys the mutexes of the plugins' files after it freed them, and
\* frees the ring of every plugin, core id and master.
FreesLast(r) == Cardinality({x \in MadeRings : x = r /\ r[3] = nb_masters})
FreesOf(r) ==
  Cardinality({x \in MadeRings :
                 ring_rxs[<<x[1], plugin[x[1]].core_ids[x[2]], x[3]>>] = r})
Teardown ==
  /\ pc = "joined"
  /\ \/ plugin # <<>> /\ Undefined("file_lock")
     \/ (\E p \in DOMAIN plugin : OutOfRange(p)) /\ Undefined("ring_rxs")
     \/ (\E r \in MadeRings : FreesOf(r) > 1) /\ Undefined("ring_free")
     \/ /\ \A p \in DOMAIN plugin : ~ OutOfRange(p)
        /\ \A r \in MadeRings : FreesOf(r) <= 1
        /\ pc' = "stopped"
        /\ freed' = [r \in MadeRings |-> FreesOf(r)]
        /\ UNCHANGED <<input, options, core_conf, seen, config, files, lines, plugin, slot,
                       ring_rxs, hash_map, workers>>

Setup == \/ ReadOption \/ CheckOptions \/ ParseConfiguration \/ OpenPluginFile
         \/ EvaluateLine \/ CreateRings \/ AssignPlugins
End   == Join \/ Teardown
=============================================================================
