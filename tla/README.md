# Verification of logcollector

logcollector receives syslog datagrams over UDP, keeps a raw copy of each in a
temp file, matches them against the regular expressions of the plugin of their
sender and writes the named fields as json lines. It is one process of pinned
threads that pass packet pointers through lock-free rings.

This directory holds TLA+ specifications of the program, TLC configurations
that check them on small instances, and proofs that TLAPS checks for every
value of the constants. `PROJECT.json` lists runs, mutants, the lines each
definition stands for, hazards, findings and theorems.

    tlc -workers 2 -config RingSpsc.cfg Ring      # a run: see "Runs"
    tlapm RingProofs.tla                          # a proof module

## Inventory

Line numbers are those of `src/src/`.

| Component | State | Operations | Talks to |
|---|---|---|---|
| Ring buffer: `ring.h`, `ring_c11_mem.h`, `ring.c` | head and tail of each side, the slot table | enqueue, dequeue (bulk, burst, single/multi variants), `ring_count`, `ring_create` | receivers to masters, masters to workers |
| Threads and packets: `receiver_loop` (820), `main_loop` (919), `worker_loop` (487) in `logcollector.c` | `kill_signal`, rings, write buffers, `tot_free_pkt_cnt`, timers | receive, dispatch, poll, one-second sweeps, shutdown | rings, files, json, regex |
| File handles and rotation: `create_*_log_file`, `set_*_file_ptr`, `drain_write_buffer*` (292-484) | one handle per plugin and kind: `fptr`, `prev_fptr`, `ref`, `prev_ref`, `file_size`, `file_lock`; one write buffer per thread and plugin | open, buffer, drain, rotate, close | all workers (json) or all masters (temp) of a plugin |
| Regex selection: `worker_loop` 543-730 | match results per regex, `best_match`, the list of suitable regexes | precheck, match, choose the best, fall back to the generic regexes | json, custom functions |
| Core masks, rings and assignment: 1269-1541 | thread contexts, `core_ids`, ring pointers | `parse_core_mask`, `create_rings_*`, `assign_plugins_to_workers` | start-up only |
| JSON: `json.c` | reference counts, tree, parser stack | build, clone, serialize, parse | workers |
| Hash map: `hmap.c`, `shash.c` | buckets, mask, node count | insert, remove, resize, iterate | json objects, configuration |
| Configuration: `cfg.c`, `config-handlers.c` | `config`, plugins and their regexes | parse line by line, evaluate a section's keys, look a plugin up | start-up; lookups by masters |
| Custom functions: `custom_functions.c` | none | rewrite one field | workers |
| Strings and utilities: `dynamic-string.c`, `util.c` | a growing buffer | append, format | json, configuration |
| Hashes, sockets, key check, tools, trial program | none of interest | - | - |

What is hard here, and what makes each component correct:

- **Ring.** Producer and consumer run without a lock on 32-bit indices that
  wrap; each computes its room from an index of the other that may move on. A
  slot must never be written while it is unread or being read, counts must be
  right at the wrap, and objects must come out once and in order.
- **Threads.** Each packet is malloc'ed by a receiver and freed by whoever ends
  its way, up to three threads later; rings fill up; the signal is seen at
  different times. A packet must have one owner, drops must be counted, the raw
  copy must be ahead of the json line, an order must survive, everything
  received must come out, and after the signal everything must stop.
- **Files.** Drains read `fptr` and `file_size` without the lock under which
  others rotate; a rotation is a little protocol of two counters in which every
  thread is expected to call once. Counters must add up, files must not leak, be
  closed twice or be written after their close, sizes must be respected, and a
  call must return.
- **Regex selection.** State is set once per plugin and used for the packets of
  several masters; two loops mix up indices or lack a bound. A packet must get
  the best of its own regexes and the substrings of its own match.
- **Start-up.** Cores come from one array that the order of the options fills;
  rings are made by position and looked up by core; plugin files are parsed
  with an implicit order of lines; whatever is missing shows up as a crash much
  later, in another function or at the end of `main`.
- **Json.** Reference counts must be balanced on every error and abort path of an
  incremental parser, and copies share children. What is parsed must be what
  the grammar says, however the text is cut into chunks.
- **Hash map.** It must agree with a finite map after any calls, also while it
  grows, because json objects and the table of custom functions are built on it.

`PROJECT.json` lists every hazard at its line, also those no property covers yet.

## Modules

| Module | Models | Status |
|---|---|---|
| `RingQueue` | what `ring.h` promises: an atomic bounded FIFO with bulk calls | done |
| `Ring` | the ring, one action per access to shared memory; refines `RingQueue` | done |
| `RingProofs` | theorems about `Ring` | types, invariant, counts, slot races, grants proved, and that `Ring` implements `RingQueue` |
| `FileRotation` | one file handle and the threads that share it | done |
| `FileRotationProofs` | theorems about `FileRotation` | reference counts, open files, the single thread, how far a file outgrows its size proved |
| `Pipeline`, `MCPipeline` | receivers, masters, workers and packets, over `RingQueue`'s FIFOs | done |
| `PipelineProofs` | theorems about `Pipeline` | types and single ownership proved |
| `PipelineLogs` | what is in the temp and json files, counted drops, order | proved |
| `HashMap` | `hmap` and `shash` as functions on a table | done, as far as the program calls it |
| `HashMapProofs` | theorems about its operators, and the induction on loops that other proofs use | sound tables, lookups, insertions and replacements proved |
| `Startup` | `main` around the threads: options, configuration, plugin files, rings, assignment, teardown | done |
| `WorkerMatch`, `MCWorkers` | a worker from a packet to its json object; extends `Startup`, whose result it runs on | done |
| `StartupProofs` | theorems about `Startup` | the parsed plugins, roles, rings, readers and the table of functions proved |
| `WorkerProofs` | theorems about `WorkerMatch` | types, the best regex, fresh substrings, the causes of five undefined accesses proved |
| `Json` | values and the incremental parser of `json.c`, its clients, the invariants | done, without `\u` and exponents |
| `JsonProofs` | theorems about `Json` | types, exact counts, the parser's stack, sound tables proved |
| `JsonText` | equality and the serializer, which walk a tree | done |
| `JsonGrammar`, `MCJson` | what `json.c` promises: denotation of values, the grammar, the properties about them | done |

The modules compose as the code does. `Pipeline` uses a sequence with a capacity
for each ring, which is the abstract state of `RingQueue`; that `Ring` implements
it for one producer and one consumer is checked by run `ring_spsc` and proved in
`RingProofs`. Every ring between a master and a worker is used that way, and the receiver
rings are when there is one receiver, which `PipelineAssumption` therefore requires: with two the code
loses and repeats packets there (run `ring_multi`). `Pipeline`'s temp and json files are sequences that a
drain appends to; `FileRotation` opens up what a drain and a rotation do below. `Startup` ends where the threads
start: `WorkerMatch` continues from its plugins, rings and table of functions. `HashMap`
is used twice: by `Startup` for the custom functions and by `Json` for objects.

### Ring

`prod_head`, `prod_tail`, `cons_head`, `cons_tail` and `slot` are the shared
memory. A call is the sequence load own head, load opposite tail and decide,
store own head, copy slot by slot, release own tail (`EnqLoadHead` .. `EnqPublish`,
`DeqLoadHead` .. `DeqRelease`), with the locals of the inlined functions per thread.
Loads of the opposite tail are acquire loads and stores of the own tail release
stores, and only the owner writes its head and tail, so a sequentially
consistent interleaving of these steps shows every outcome that one producer
and one consumer can have. All enqueue variants come down to
`__ring_do_enqueue` with a behaviour, FIXED or VARIABLE, that the action
chooses; nothing reads `is_sp` and `is_sc`. The table starts with garbage,
because `ring_create` mallocs it.

### FileRotation

One handle, json or temp: the two copies of the code are line by line the same.
A thread goes `create` (open the handle), then `loop`: a line comes (`Log`) or
the one-second timer fires (`Timer`); a drain loads `fptr` as its argument
(`StartDrain`), writes line by line (`Write`) and adds its total to `file_size`
(`AddSize`); after a line the size decides (`Check`), after a timer the clock
(`Hour`, either way), whether `set_json_file_ptr` is called. The call is split at
every access that a thread without the lock can see: `Lock`, then `OpenNew`
(new `fptr`) and `Reset` (counters and `file_size`), or `MoveOver`, then `Close`.
`DirFails` is the early return that leaves the lock held. A line counts 1 in the
file and in `file_size`; that the code counts a json line without its newline
is left out, and so are names of files and directories. A FILE pointer that was
closed may be returned by a later `fopen`, as malloc does with it.

### Pipeline

A receiver holds `rbuf`; a master `mbuf`, its place in the loop `mpc`, the
plugin its sweep has come to `mi`, its write buffers `twb`; a worker the plugin
and the master, `wi` and `wm`, its two loops are at and its write buffers `jwb`. One action is what a thread
does between two accesses to a ring: `Recv`, `PassOn`, `StopReceiving`; `Take` (from
the ring into the temp buffer), `Send`, `NothingToTake`, `Sweep` (one plugin);
`Poll` (one ring), `GoOn`, `Stop`. The counters `rand()` picks a master and a
worker with are a free choice. Timers fire or not at each pass. A master with
no plugin at all never sees the signal, because the test is inside its loop
over the plugins; the model assumes one.

### Startup and WorkerMatch

`Startup` is one thread, `main`. An input is a command line with the files it names,
line by line: a key and its value. `ReadOption` and `CheckOptions` are the loop over the
options and the checks after it; `ParseConfiguration` evaluates the configuration
file, line after line (`Configured`); `OpenPluginFile` and `EvaluateLine` write line after line into `slot`, the plugin at
`plugin[plugin_cnt]`, until a line `end` counts it. `CreateRings`, `AssignPlugins`, `Join`
and `Teardown` are the rest of `main`. Where the code exits, `pc` becomes "exited". Where
it makes an access that C leaves undefined, `pc` becomes the name of the access (`Faults`)
and nothing follows: what a build does then is not the program's meaning. The ones modelled:
writing through the NULL that `strchr` returns for a core id or a field without its
bracket, colon or quote ("delim"); more plugins, regexes, fields or core ids than their arrays
hold; reading `temp7` for a field with a function and no type ("temp7"), where the model takes
both outcomes because what `strchr` returns is not used; an index of `ring_rxs`
out of its range, -1 included, which `parse_decimal` gives for no number; `strdup(NULL)`; and at
the end the mutexes destroyed after their structs were freed ("file_lock", both outcomes)
and a ring freed again. In the worker: `suit_rgxs` past its end, a NULL ring, a regex past
`generic_p_regex`, an unset `best_rgx`, `func_ret_str` past its end, and a free past `wb`.
An uninitialised `func_ret_str` that a function appends to holds any of `Garbage`: nothing, some
text, or bytes without a NUL that are too long.
The list is not closed: the code has further ones (a long `listen_ip` overruns the file names
of 100 characters, masks the array `core_conf`, more than 32 `plugin_file` values or plugins on one
worker their arrays), and nothing here says that a program outside `Faults` is defined.
`FaultsHaveCauses` is about five of them whose reason is far from the access.

`WorkerMatch` is one worker thread that `Startup` made; the workers share nothing that
it changes. It visits a plugin (`VisitPlugin` sets the locals that the code sets once per
visit), polls one ring per master (`PollEmpty`, `PollPacket`), tries the generic regexes
(`TryGenerics`), writes the object (`EmitMatched`, `EmitUnmatched`) and goes on (`NextPlugin`,
`ExitWorker`). A packet is what matching can tell of it: the prechecks it holds, which groups of
each regex would capture some text, and which text. PCRE is that function and no more. What a
match returns is the number of those groups (`Ret`), and the code passes it on as `stringcount`, so
that a named group whose number is not below it is not found (`Numbered`) and its field is
missing, although the regex captured it. A text is a sequence of pieces with lengths. `rows`
remembers of each row of `rgx_sub_vectors` which regex and which packet filled it, so
that the object's fields can be traced to their packet.

### HashMap, Json, JsonText and JsonGrammar

A table is a record of mask, count and chains; each operator is one function of
`hmap.c` or `shash.c`. The heap of `Json` maps the identifiers of the values that are there
to the `struct json`, with its reference count; an identifier that was freed may come
again, as an address does. `held` is the client's references. `json_destroy` is a set of
references that are still to be dropped: the last one to a value frees it and puts the
references it held into the set (`DropOne`, `Destroy`). The order of the C code's recursion is
left out, because the result does not depend on it. Each public function is
an action of the client (`Create`, `Put`, `Add`, `Clone`, `DeepClone`, `DestroyHeld`) or of the
parser it drives (`ParserCreate`, `ParserFeed`, `ParserFinish`, `ParserAbort`), with the helpers as
operators under the names of the C functions. Characters are the classes the
lexer tells apart, and a chunk of input is a token or a part of one.
The client calls only while no parser is open: a call touches no value that
the parser has, so it commutes with every input; only `json_destroy` may come in the
middle of one. `ParserFeed` is a whole chunk, character by character (`FeedChar`), and its
guard keeps to the member names that have a hash in the instance. `JsonGrammar` says the same thing
without any state of a lexer or a parser: `Denote` is the data a value stands for and
`Documents` the data the grammar gives to a text. An integer is its normal decimal text. A
real is rounded to the `DoubleDigits` significant digits that a double keeps when it is read, and
to `DBL_DIG`, which are fewer, when it is printed (`Rounded`): so `RoundTrip` says exactly which values
come back equal, those without a real that has more digits than are printed or was
rounded to a whole number. Real doubles keep 15 to 17 digits and print 15; 64-bit overflow is left out.
The program itself only creates, fills, serializes and destroys values: nothing
in it calls the parser or the clones, which are modelled as the library they are.

## Runs

| Run | Instance | Shows |
|---|---|---|
| `ring_spsc` | 1 producer, 1 consumer, 4 slots, indices modulo 8, calls of 1 or 2 objects | types, `RingInv`, no slot race, room and entries in range at the wrap, `ring_count` exact, grants maximal, `RingQueue` implemented |
| `ring_multi` | 2 producers | `NoSlotRace` violated: finding 1 |
| `rotation_shared` | 2 threads, 2 handles, limit 1, bursts of 2 | counters conserved, exactly the right files open, files bounded, calls return |
| `rotation_single` | 1 thread, 3 handles, limit 3, failures | no write after close, `file_size` exact, the solo invariant |
| `rotation_stale` | 2 threads, 3 handles | `NoWriteAfterClose` violated: finding 2 |
| `pipeline` | 1 receiver, 2 masters, 2 workers on one plugin, all sizes 1, one packet of an unknown sender, kill at any time | one owner, temp ahead of json, drops counted |
| `pipeline_live` | 1 master, 2 plugins on a worker each, sizes 2, buffers 1 | order, delivery, termination |
| `pipeline_stop` | 2 masters, 1 worker with both plugins | `WaitedUntilEmpty` violated: finding 3 |
| `workers` | 66 command lines and sets of files, then every packet of a worker, with 5 texts and 4 sets of groups | plugins parsed as written, roles of cores kept, one reader per ring, rings freed once when `main` ends well, five undefined accesses only for their one reason, all custom functions found, the best regex chosen, no stale substrings with one master |
| `workers_generic` | a worker with one plugin that has two generic regexes | `GenericsTried` violated: finding 4 |
| `workers_sid` | a plugin whose fields call every custom function | `SidReturned` violated: finding 5 |
| `json` | heap of 3 values, nesting of 2, up to 6 chunks of input or 4 calls in any mixture | reference counts exact, the parser's stack a path, tables sound, equality exact, which values survive serializing and parsing, the parser accepts the grammar |

Findings: (1) the "multi-producer" enqueue of the ring moves its head with a
plain store, so two receivers that share a master's ring write the same slot;
(2) a thread that rotates twice uses up the reference of one that is writing;
(3) a worker stops as soon as the ring of one master is empty, although it
reports that it waited until all were; (4) the loop over the generic regexes takes
the one at the index of the plugin each time, so the others are never tried,
and a worker whose plugin has none there dereferences NULL; (5) custom
functions append to a result buffer that was never initialised.

**Bounds.** Four slots with capacity 3 and indices modulo 8 make a ring that
wraps its table twice before its indices wrap, is filled, emptied and refused
in every position; a call of 2 is the smallest that can be interrupted in the
middle of its copy and be granted in part. Two threads are enough for every
hazard of the handle, since each is about one thread that rotates and another
that drains or rotates; the proofs hold for any number. Bursts of 2 let a drain be
interrupted between two lines. The bound of `FileBounded` is the one that the proof
needs for N threads, `2 * Limit + (2 * N - 1) * Burst + N - 1`, one more when calls
may fail; `2 * Limit + 2 * N * Burst`, which two threads keep when no call fails, is too small for
three with bursts of 1, since each call that only moves its thread over to the
new file costs a line. In `Pipeline` three packets
overflow rings of size 1, wait behind each other in rings of size 2, and drain a
buffer of size 1 by its successor; two masters and two workers give every way
between the threads. Packets never repeat, so each stands for one datagram.
The inputs of `workers` are chosen, not all: a good plugin file of one stanza with
every line left out and every two neighbours swapped, files for each kind of
regex and of core list, and command lines that are wrong in each way the code
tests, or mix the roles; `MaxRegex = 4` and `MaxCore = 8` stand for 64 and 48 so that the
arrays can be overrun, as do `MaxFields = 7` and `MaxPlugins = 2` for 32, and `MaxRetStr = 16` for
the 256 bytes of `func_ret_str`; `SizeMod = 1000` lets the product of a size in GB wrap around. The
sets of groups are no match, the whole, the last group without the one before it (whose number
is then not below the count), and all.
In `json`, strings and numbers have two characters and one chunk more at most, a double keeps 3 digits and
2 are printed, so that 0.0111 does not come back equal and 10.0111 becomes whole, and `JSON_MAX_HEIGHT` is
2, so that it is reached and exceeded; three values are an object with two members, or a
container in a container with a value, and the object's table grows with its second
member; `MaxWork = 12`, with a chunk counted 2 and a call 3, lets an object with a member be
parsed and then copied or put into, and every mutant of the code be seen. Names collide in the hash table by choice
of `HashOf`.

`CHECK_DEADLOCK FALSE` is set where the program really may stop: `Pipeline` and
`workers` end after the signal, `main` may exit or be undefined before, a `json`
behaviour ends at its bound, and in `rotation_single` a failed `fopen` ends the
process and a failed directory leaves the lock held for ever.

**Fairness.** `FileRotation`: a thread's own steps are weakly fair, because each
thread has a core of its own. The lock is strongly fair: others take it at most
once for a line or a second of theirs and release it after a bounded number of
steps, so a waiting thread finds it free again and again, and the runs assume
it does not lose every race. Arrival of lines is not assumed. `Pipeline`: the
loops spin without blocking, so each is weakly fair, but a receiver only for the
packet it holds and for the signal. Time passes, so in a loop that goes on for
ever the tests of the one-second timers succeed again and again: they are
strongly fair, at no particular plugin. That is why `Delivered` is checked with
one plugin per worker: nothing in the code makes the timer of a worker with
several fire at each of them.

## Proofs

**`RingProofs`**, from `RingAssumption` (Size positive, IndexMod a multiple of
Size, Capacity below Size). `TypeCorrect` needs nothing else and holds for any
number of producers and consumers. `RingInvariant` assumes `SingleThreaded`. The
inductive invariant is `TypeOK /\ RingInv`. `RingInv` measures all indices from
`cons_tail`, as distances on the circle of IndexMod values: taken <= published <=
claimed <= capacity (`IndexOrder`). Then it says what each thread knows at each of its
program points: a stale tail can only underestimate its room, because the other
side moves that tail in one direction (`ProducerInv`, `ConsumerInv`). And it says
what the slots hold (`ContentsInv`). The arithmetic is in
lemmas on its own: a sum or difference of two indices modulo IndexMod is one of
two cases (`DistCases`, `AdvanceCases`), and two indices less than Size apart
have different slots (`SlotsDiffer`). `EntriesStayInRange`, `CountIsExact`,
`SlotsAreNotRaced` and `GrantsAreMaximal` follow.

`RingImplementsQueue` is the refinement, for one producer and one consumer. The queue is
`Contents`, the slots from `cons_tail` to `prod_tail`. Publishing is the abstract
enqueue: `ProducerInv` says that the slots it adds hold the caller's objects
(`PublishEnqueues`). Releasing is the abstract dequeue: `ConsumerInv` says that what
was copied is still the front (`ReleaseDequeues`). Everything between is a stutter,
because a producer writes only slots outside of the contents (`WritingIsFree`).

**`FileRotationProofs`**, from `RotationAssumption` (finitely many threads, Null
no FILE pointer, Nobody no thread). `Inv`, the conjunction of `TypeOK` and
`RotationInv`, is inductive for any number of threads, with failures. `RefsConserved` alone
is not inductive: `Reset` subtracts 1 from `ref` and `MoveOver` from `prev_ref`,
so it takes that `ref` is positive as soon as somebody opened the handle, that a
previous file is there exactly while `prev_ref` is positive and nobody is in the
middle of a call (`OpenFiles`), and that the owner of the lock is alone inside. `Alone`
and `Entering` collect what every step inside has in common. With a single thread
(`Solo`), `ref + prev_ref = 1` and `ref > 0` leave nothing for `prev_ref`, so
each call closes the old file itself; `SoloInv` adds that a drain goes to the
current file and that a file that is not open has no lines, which makes
`NoWriteAfterClose` and `SizeExact` inductive.

`FilesAreBounded` holds for any number of threads, from `Inv` and
`BoundInv`. `file_size` is of no use alone: what counts is `file_size` plus what the
threads have written and not added, plus what they may still write before they
look at it (`Pending`, `Ahead`). From the moment it exceeds the limit, every thread that
looks calls, and `prev_ref` says how many of those calls only move their thread over;
with it that sum is bounded (`SizeInv`). The size of the current file is that sum and
what `file_size = 0` forgot (`CurrentInv`, `WindowInv` while a thread is between the new
`fptr` and the reset), and the previous file is written only by drains that had
loaded it before (`PreviousInv`). A sum over threads is the cardinality of a set of
pairs, so that one thread's step changes it by one thread's share.

**`PipelineProofs`**, from `PipelineAssumption` (one receiver, at least one master and one plugin,
every plugin on some workers, None no packet), for any number of masters, workers,
plugins and packets and any capacities, 0 included. One receiver, because `PassOn` enqueues
in one step, which `ring_enqueue` implements for one producer only. The types need
`Holding`: a master has a packet of a known plugin exactly while it is about to
send it, otherwise the plugin it indexes with would not exist. `SingleOwner` needs `Apart`
too: nothing is still to be received and freed at once, otherwise a received packet
could already be free. `OwnerInv` is the conjunction. The proof is
about one packet per step: `WhoPoints` lists the three kinds of pointers, `OneMoves` says
that a step which moves one packet keeps everybody's owner single if the packet
ends with at most one owner, and with none exactly when it is freed or
forgotten; `MovesTo` and `MovesOut` are its two uses. That a queue without repetitions stays
one and loses just its head or gains just its new end is in `TailOfQueue` and `AppendToQueue`.

**`PipelineLogs`** goes on from `OwnerInv`. `LogsAreTempBeforeJson` needs to know what a
packet in a line cannot be: one in a master's lines is past the receivers and their
rings (`TempInv`), one in a worker's lines is freed (`JsonInv`), else it could be logged
twice; and as long as no master has given its buffers up, everything in a worker's
ring, buffer or file is among the temp lines (`AliveInv`). Masters and workers do the
same with file and buffer, so the lemmas on draining and buffering are stated once, for
either. `DropsAreCounted` keeps an assignment of the lost packets to the threads that
dropped them, each counter being the number of its packets (`CountInv`); a lost packet
is one that is freed and in no json line. `LogsKeepTheirOrder` assumes one master in its
property: the way of a plugin through a worker, file then buffer then ring, is a
sequence, and two packets in it have the order of the temp lines (`WayOrder`); what the
master is about to send is the last of those lines (`Behind`), so that it may go to
the end of any ring.

**`StartupProofs`** and **`WorkerProofs`** hold for every command line, every set of files and
every packet. `InputsAssumption` says that the lines of a file are a sequence, that
what follows `core_id` and the masks are sequences of numbers, which `atoi` makes of
anything and `parse_decimal` (-1 if need be), and that what follows `plugin_file` are names; `SubsAssumption` that a match
fills finitely many groups, `TextsAssumption` that texts have lengths; `StartupAssumption` that the
limits are positive; `HashAssumption` that names have hash values, and `NamesAssumption` that
those of the custom functions are among them. `StartupProofs` first shows what `FlattenSeq`
and the filters of `Startup` return. `StartInv` has the types of what is
parsed and says that rings, workers and frees are the tables of the plugins and
cores, from the step that makes them on. `RingsAreFreedOnce` and `RingsHaveOneReader` are about
those tables: a ring is looked up by core but made by position, so with distinct
cores the lookup finds the ring it came from, and with a core given twice it finds the last one twice, which is the
access "ring_free"; what reaches the end freed each ring once (`FreesDistinct`); and a core given once to a plugin puts that
plugin once among those of one worker (`DedicatedOnce`), which is the reader.
`RolesAreKept` reads the options one by one: `core_conf` holds the cores of the receivers,
then those of the masters, then those of the workers that the options so far gave
(`RolesAre`), and in the right order an option adds at the end of its own part
because the later ones are still empty (`LaterEmpty`). `FunctionsAreFound` is the table of custom
functions: five insertions, with a resize among them, after which each name leads to its
function (`FunctionsFound`, by `AddOnceAdds` of `HashMapProofs` at every round of the loop).

`PluginsAreParsedRight` compares what the program reads line by line with what the files say as a
whole. All plugin files, one after the other, are one sequence of lines; a line `end` with a
value closes a plugin and a line `fields` a regex, and the part that is open after line `n`
begins after the last of them (`Start`). `ReadInv` says which files are opened (`k`), how
many lines are read (`n`), that the files and lines still to read are the rest (`FilesLeft`,
`LinesLeft`), and that after `n` lines the plugins closed so far, the regexes of the open plugin
and its open regex are what their own lines say (`ReadRight`: `PluginsSaid`, `RegexesSaid`,
`KeysSaid`, `RegexSaid`). One line can add to a part, close a regex or close a plugin
(`OpenKeyLine`, `OpenRegexLine`, `PluginEnds`), and each must also leave the others as they are
(`KeysStay`, `RegexesStay`, `PluginsStay`); `LineRead` puts them together. The invariant has to cover
the open regex and the open plugin: `ParsedRight` alone says nothing until the last line. A plugin
may begin in one file and end in the next, as in the code.

`WorkerInv` says what the locals of `worker_loop` hold at each point of its loop: where it
is (`PlaceInv`), how much is in the arrays (`RoomInv`) and what of it is of the current
packet (`PacketsInv`). With one master, the first packet of a visit finds no match of an
earlier one (`PollInv`), the row of its best match was filled by it (`EmitInv`), and the best is
the first of those that return the most (`FirstBest`, by induction on the rows); this
gives `BestIsFirstOfTheMost` and `SubstringsAreFresh`, and is why they say no more about
the second master's packet. `FaultsNeedCauses` takes the steps that make five of the
accesses back to what they need (`TooManyUndefined`, `NoRingUndefined`, `PastGenerics`, `PastBuffers`,
`DoubleFree`); every other step leads elsewhere (`MainFaults`, `SoundSteps`). The hard one is the array of suitable regexes,
which grows by at most every regex of the plugin for each master (`GrowInv`), so that
it overflows only if masters times regexes exceed the limit. `TypeCorrect` is the rest of the
same invariants.

**`HashMapProofs`** is about operators, not behaviours: it holds for any names, any hash and any
data. The loops of the code are recursive functions, so it first shows, by induction on a
set of numbers, that such a function exists and what it preserves (`Recursion`, `UpTo`).
`Sound` is what each function of the table keeps: a mask of ones (`calc_mask`), each node in
the bucket of its hash, the count exact, no name twice, and no more nodes than the mask
allows. A table is then the set of its nodes (`Nodes`): `resize` keeps that set, `hmap_insert`
adds one to it, and `LookupFinds` says that the search of a chain finds the one
node with the name; so `AddOnceAdds` and `ReplaceReplaces` say what `shash_add_once` and
`shash_replace` do to the finite map from names to data. `MapSound`, the invariant that the
`json` run checks, follows from `Sound`.

**`JsonProofs`** proves `TypesHold`, `CountsAreExact`, `StackIsAPath` and `ObjectsAreSound` for any
number of values, any names and hash, any chunks and any limit on the nesting, from
`JsonAssumption` (the names put are names, chunks are sequences, bounds are numbers). The
accounting is `Good(h, ext)`: in the heap `h` every value's count is the number of references
from containers plus `ext`, the references from elsewhere. Each function of `json.c` moves
one reference: an allocation, `json_clone` and `json_deep_clone` add one to `ext` (`Bump`), `json_array_add`
and `json_object_put` take one out of it (`Dip`), and so does `json_destroy` (`DestroyGood`). For the
latter, each round drops one reference of a finite set, those in the heap and those still to
be dropped, so that the rounds the definition makes are enough; counts stay
exact at every round, when those still to be dropped are counted as references. What `Good` cannot say
is that the containers the parser is in survive while a member is replaced by a later
one of the same name, or the client destroys something in the middle of an input. `PathKept`
says why: the root is referred to by the parser, each container on the stack refers to the
next, and nothing but the one on top changes where it leads. `PathOK`
is that path, without repetition, and `StateFits` relates it to the parser's state
(`ParserOK`). Each of the lexer's and the parser's functions keeps `ParserOK` (`PushOK`, `ScalarOK`,
`PopOK`, `ParseOK`, `LexCharOK`, `FeedCharOK`), so a chunk does, by induction on its characters (`FedOK`),
and `json_parser_finish` and `json_parser_abort` hand over or drop exactly the parser's reference
(`ResultGood`, `DropGood`). The invariant `IInv` is that either no input is open and the heap is
`Good` for what the client holds, or `ParserOK` with one more reference to the root.

Only model-checked:

- Liveness (`RotationReturns`, `Delivered`, `Termination`), which these provers do not do.
- `EqualExact`, `RoundTrip` and `FinishVerdict`, which compare equality, serializer and parser with
  operators that walk trees and texts recursively: the provers cannot expand them.
- The violations of the five findings, which are single behaviours.

## Plan

1. `Ring`, `FileRotation`, `Pipeline` with their runs, types and first
   invariants: done.
2. `Startup` and `WorkerMatch`: options, files, cores, rings and assignment, then the
   choice of the regex and the object of a packet: done.
3. `HashMap`, `Json`, `JsonGrammar`: done.
4. Proofs: the ring and its refinement; the handle with its counts, files and sizes;
   types, ownership, files, counters and order of `Pipeline`; roles, rings, readers,
   choice of the regex and causes of undefined accesses of `Startup` and `WorkerMatch`: done.
5. `HashMap` and what `Startup` needs of it; the counts, the stack and the tables of `Json`: done.
6. What the plugin files say and what is read of them: done.
7. Open: `json_array_trim` and `json_hash` in `Json`, and `ring_reset` in `Ring`.

## Not modelled

- Names of files and directories, statistics output, logging: no property is
  about them. `localtime`'s shared buffer can make a thread name a file after
  another thread's time; it is listed as a hazard.
- PCRE, the socket calls and libc are used as black boxes.
- Hash functions mix bits; sockets are thin wrappers; the key check runs external
  commands once at start-up; `logcollector_trial.c` is an old copy that is not built;
  `tools/` are scripts and traffic generators around it. `dynamic-string.c` grows a
  buffer before it writes: the modules take strings as values.
- Of `hmap.c` and `shash.c`, what nothing in the program calls: removal, shrinking,
  reserving, random and positional access.
- Of `json.c`: `\u` escapes and surrogates, exponents, numbers beyond 64 bits, hashes of
  values, `json_from_file` and `json_from_stream`, and reals that a client creates. A NUL
  byte in a number, which `strchr` finds among the digits, is no character here.
- Of `cfg.c`: how a line is split into key and value, the limits on the length and
  number of lines, printing. Of the options: the mask "all", whose code
  prints the argument into itself and past its end (`logcollector.c:1273-1281`), more
  cores than `core_conf` holds, pinning, and a command
  line without `-f`, which leaves the name of the configuration file uninitialised;
  every modelled one has it. (The README and the usage text name only `-f` and
  `-c`; the code refuses to run without `-s`, `-m` and `-k`.)
- Of the custom functions: how the parts of a date are put together and the
  tables of protocols; the classes of texts that decide which branch is taken are kept.
- Of the object of a packet: its constant members and `siemplus_hash`. An integer field keeps the text
  that `strtol` reads.
- Of the exit of a worker: the buffers that leak when it has more plugins than one.
- Weak memory: for one producer and one consumer the acquire and release
  accesses make the model's order sufficient. For several, the code is broken
  already under sequential consistency.
