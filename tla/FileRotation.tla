---------------------------- MODULE FileRotation ----------------------------
(***************************************************************************)
(* The file handle that all threads of one plugin share (struct            *)
(* json_file_handle_t, and its twin temp_file_handle_t), from the moment   *)
(* each thread opens it (create_json_log_file, create_temp_log_file) to    *)
(* its replacement by a new file (set_json_file_ptr, set_temp_file_ptr).   *)
(*                                                                         *)
(* Only rotation holds file_lock.  The threads that drain their write      *)
(* buffers read fptr and file_size without it, so each of these accesses   *)
(* is a step of its own.  A log line counts 1, in the file and in          *)
(* file_size.                                                              *)
(***************************************************************************)
EXTENDS Integers, FiniteSets

CONSTANTS
  Threads,    \* the workers (or masters) that log for the plugin
  Handles,    \* the FILE pointers fopen may return; a closed one may come back
  Null,       \* the NULL FILE pointer
  Nobody,     \* the owner of a free lock
  Limit,      \* config.json_file_size or config.temp_file_size, in lines
  Burst,      \* MAX_LOG_BURST
  MayFail     \* whether mkdir and fopen may fail

ASSUME RotationAssumption ==
  /\ IsFiniteSet(Threads)
  /\ Null \notin Handles /\ Nobody \notin Threads
  /\ Limit \in Nat /\ Burst \in Nat \ {0}
  /\ MayFail \in BOOLEAN

VARIABLES
  file_lock,                                     \* its owner, or Nobody
  fptr, prev_fptr, ref, prev_ref, file_size,     \* the shared struct
  open,       \* the FILE pointers fopen returned and fclose has not got
  bytes,      \* the lines written to the file behind each of them, else 0
  running,    \* FALSE once ERROR_EXIT has ended the process
  pc,         \* where each thread is
  cnt,        \* wb->cnt
  len,        \* the running total of drain_write_buffer
  arg,        \* the FILE pointer drain_write_buffer was called with
  job         \* what called it: a full buffer or the one-second timer

handle == <<fptr, prev_fptr, ref, prev_ref>>
files == <<open, bytes>>
buffer == <<cnt, len, arg, job>>
vars == <<file_lock, handle, file_size, files, running, pc, buffer>>

PCs == {"create", "loop", "write", "check", "hour", "enter", "dir", "reset", "close"}

\* The thread is there and the process has not ended.
At(t, label) == running /\ pc[t] = label
Goto(t, label) == pc' = [pc EXCEPT ![t] = label]

\* fopen returns a FILE pointer nobody has open; its file has no line yet.
Fopen(h) ==
  /\ h \in Handles \ open
  /\ open' = open \union {h}
  /\ UNCHANGED bytes

Init ==
  /\ file_lock = Nobody
  /\ fptr = Null /\ prev_fptr = Null
  /\ ref = 0 /\ prev_ref = 0 /\ file_size = 0
  /\ open = {} /\ bytes = [h \in Handles |-> 0]
  /\ running = TRUE
  /\ pc = [t \in Threads |-> "create"]
  /\ cnt = [t \in Threads |-> 0]
  /\ len = [t \in Threads |-> 0]
  /\ arg = [t \in Threads |-> Null]
  /\ job = [t \in Threads |-> "log"]

\* ERROR_EXIT, or the error return that makes the caller run it.
Exit ==
  /\ running' = FALSE
  /\ UNCHANGED <<file_lock, handle, file_size, files, pc, buffer>>

-----------------------------------------------------------------------------
(* Opening.  fptr is NULL or settled while nobody holds the lock, so the   *)
(* whole critical section is one step.                                     *)

CreateAgain(t) ==
  /\ At(t, "create") /\ file_lock = Nobody
  /\ \/ /\ fptr = Null
        /\ \E h \in Handles : Fopen(h) /\ fptr' = h
        /\ ref' = 1 /\ prev_ref' = 0
     \/ /\ fptr # Null
        /\ ref' = 1
        /\ UNCHANGED <<fptr, prev_ref, files>>
  /\ Goto(t, "loop")
  /\ UNCHANGED <<file_lock, prev_fptr, file_size, running, buffer>>
Create(t) ==
  /\ At(t, "create") /\ file_lock = Nobody
  /\ \/ /\ fptr = Null
        /\ \E h \in Handles : Fopen(h) /\ fptr' = h
        /\ ref' = 1 /\ prev_ref' = 0
     \/ /\ fptr # Null
        /\ ref' = ref + 1
        /\ UNCHANGED <<fptr, prev_ref, files>>
  /\ Goto(t, "loop")
  /\ UNCHANGED <<file_lock, prev_fptr, file_size, running, buffer>>

\* No directory, or no file: the caller ends the process.
CreateFails(t) ==
  /\ MayFail
  /\ At(t, "create") /\ file_lock = Nobody
  /\ Exit

-----------------------------------------------------------------------------
(* Logging.                                                                *)

\* The argument of drain_write_buffer is loaded.
StartDrain(t, why) ==
  /\ arg' = [arg EXCEPT ![t] = fptr]
  /\ len' = [len EXCEPT ![t] = 0]
  /\ job' = [job EXCEPT ![t] = why]
  /\ UNCHANGED cnt
  /\ Goto(t, "write")

\* A log line arrives: it goes into the write buffer, drained first if full.
LogTooMany(t) ==
  /\ At(t, "loop")
  /\ IF cnt[t] > Burst
     THEN StartDrain(t, "log")
     ELSE /\ cnt' = [cnt EXCEPT ![t] = @ + 1]
          /\ Goto(t, "check")
          /\ UNCHANGED <<len, arg, job>>
  /\ UNCHANGED <<file_lock, handle, file_size, files, running>>
Log(t) ==
  /\ At(t, "loop")
  /\ IF cnt[t] >= Burst
     THEN StartDrain(t, "log")
     ELSE /\ cnt' = [cnt EXCEPT ![t] = @ + 1]
          /\ Goto(t, "check")
          /\ UNCHANGED <<len, arg, job>>
  /\ UNCHANGED <<file_lock, handle, file_size, files, running>>

\* The one-second timer: a drain if there is something, then the hour check.
Timer(t) ==
  /\ At(t, "loop")
  /\ IF cnt[t] > 0
     THEN StartDrain(t, "timer")
     ELSE Goto(t, "hour") /\ UNCHANGED buffer
  /\ UNCHANGED <<file_lock, handle, file_size, files, running>>

\* One line of the buffer reaches the file.  Through a stale pointer it
\* reaches nothing.
Write(t) ==
  /\ At(t, "write") /\ cnt[t] > 0
  /\ bytes' = IF arg[t] \in open THEN [bytes EXCEPT ![arg[t]] = @ + 1] ELSE bytes
  /\ cnt' = [cnt EXCEPT ![t] = @ - 1]
  /\ len' = [len EXCEPT ![t] = @ + 1]
  /\ UNCHANGED <<file_lock, handle, file_size, open, running, pc, arg, job>>

\* drain_write_buffer returns: its locals are gone.
Return(t) ==
  /\ arg' = [arg EXCEPT ![t] = Null]
  /\ len' = [len EXCEPT ![t] = 0]
  /\ job' = [job EXCEPT ![t] = "log"]

\* __sync_add_and_fetch(&file_size, size), then the line that was waiting.
AddSizeLost(t) ==
  /\ At(t, "write") /\ cnt[t] = 0
  /\ file_size' = len[t]
  /\ IF job[t] = "log"
     THEN cnt' = [cnt EXCEPT ![t] = 1] /\ Goto(t, "check")
     ELSE Goto(t, "hour") /\ UNCHANGED cnt
  /\ Return(t)
  /\ UNCHANGED <<file_lock, handle, files, running>>
AddSize(t) ==
  /\ At(t, "write") /\ cnt[t] = 0
  /\ file_size' = file_size + len[t]
  /\ IF job[t] = "log"
     THEN cnt' = [cnt EXCEPT ![t] = 1] /\ Goto(t, "check")
     ELSE Goto(t, "hour") /\ UNCHANGED cnt
  /\ Return(t)
  /\ UNCHANGED <<file_lock, handle, files, running>>

\* After each line the size decides, and after each timer the clock, whether
\* the thread calls set_json_file_ptr.
Check(t) ==
  /\ At(t, "check")
  /\ Goto(t, IF file_size > Limit THEN "enter" ELSE "loop")
  /\ UNCHANGED <<file_lock, handle, file_size, files, running, buffer>>

Hour(t) ==
  /\ At(t, "hour")
  /\ Goto(t, "enter") \/ Goto(t, "loop")
  /\ UNCHANGED <<file_lock, handle, file_size, files, running, buffer>>

-----------------------------------------------------------------------------
(* Rotation: set_json_file_ptr.                                            *)

Lock(t) ==
  /\ At(t, "enter") /\ file_lock = Nobody
  /\ file_lock' = t
  /\ Goto(t, "dir")
  /\ UNCHANGED <<handle, file_size, files, running, buffer>>

\* set_log_files_directory fails: the call returns ERR, which no caller looks
\* at, and the lock stays taken.
DirFails(t) ==
  /\ MayFail
  /\ At(t, "dir")
  /\ Goto(t, "loop")
  /\ UNCHANGED <<file_lock, handle, file_size, files, running, buffer>>

\* No previous file: the current one becomes it and a new one is opened.
OpenNew(t) ==
  /\ At(t, "dir")
  /\ prev_fptr = Null /\ prev_ref = 0
  /\ prev_fptr' = fptr
  /\ \E h \in Handles : Fopen(h) /\ fptr' = h
  /\ Goto(t, "reset")
  /\ UNCHANGED <<file_lock, ref, prev_ref, file_size, running, buffer>>

OpenNewFails(t) ==
  /\ MayFail
  /\ At(t, "dir")
  /\ prev_fptr = Null /\ prev_ref = 0
  /\ Exit

\* The threads that opened the previous file, but this one, still count on it.
ResetAll(t) ==
  /\ At(t, "reset")
  /\ file_size' = 0
  /\ prev_ref' = ref
  /\ ref' = 1
  /\ Goto(t, "close")
  /\ UNCHANGED <<file_lock, fptr, prev_fptr, files, running, buffer>>
Reset(t) ==
  /\ At(t, "reset")
  /\ file_size' = 0
  /\ prev_ref' = ref - 1
  /\ ref' = 1
  /\ Goto(t, "close")
  /\ UNCHANGED <<file_lock, fptr, prev_fptr, files, running, buffer>>

\* There is a previous file: this thread moves over to the current one.
MoveOver(t) ==
  /\ At(t, "dir")
  /\ prev_fptr # Null \/ prev_ref # 0
  /\ ref' = ref + 1
  /\ prev_ref' = prev_ref - 1
  /\ Goto(t, "close")
  /\ UNCHANGED <<file_lock, fptr, prev_fptr, file_size, files, running, buffer>>

\* The last user of the previous file closes it; the lock is released.
CloseNever(t) ==
  /\ At(t, "close")
  /\ file_lock' = Nobody
  /\ Goto(t, "loop")
  /\ UNCHANGED <<handle, files, file_size, running, buffer>>
CloseCurrent(t) ==
  /\ At(t, "close")
  /\ IF prev_ref = 0
     THEN open' = open \ {fptr} /\ prev_fptr' = Null
     ELSE UNCHANGED <<open, prev_fptr>>
  /\ file_lock' = Nobody
  /\ Goto(t, "loop")
  /\ UNCHANGED <<fptr, ref, prev_ref, file_size, bytes, running, buffer>>
CloseReturnsEarly(t) ==
  /\ At(t, "close")
  /\ IF prev_ref = 0
     THEN /\ open' = open \ {prev_fptr}
          /\ bytes' = [bytes EXCEPT ![prev_fptr] = 0]
          /\ prev_fptr' = Null
          /\ file_lock' = Nobody
     ELSE UNCHANGED <<files, prev_fptr, file_lock>>
  /\ Goto(t, "loop")
  /\ UNCHANGED <<fptr, ref, prev_ref, file_size, running, buffer>>
Close(t) ==
  /\ At(t, "close")
  /\ IF prev_ref = 0
     THEN /\ open' = open \ {prev_fptr}
          /\ bytes' = [bytes EXCEPT ![prev_fptr] = 0]
          /\ prev_fptr' = Null
     ELSE UNCHANGED <<files, prev_fptr>>
  /\ file_lock' = Nobody
  /\ Goto(t, "loop")
  /\ UNCHANGED <<fptr, ref, prev_ref, file_size, running, buffer>>

-----------------------------------------------------------------------------

Rotate(t) == Lock(t) \/ OpenNew(t) \/ Reset(t) \/ MoveOver(t) \/ Close(t)
Fail(t) == CreateFails(t) \/ DirFails(t) \/ OpenNewFails(t)
Drain(t) == Write(t) \/ AddSize(t)

Step(t) ==
  \/ Create(t) \/ Log(t) \/ Timer(t) \/ Drain(t) \/ Check(t) \/ Hour(t)
  \/ Rotate(t) \/ Fail(t)

Next == \E t \in Threads : Step(t)

\* A thread is scheduled as long as it can run, and waits for the lock only as
\* long as others hold it again and again; that a log line arrives is not
\* assumed.
Fairness ==
  \A t \in Threads :
    /\ WF_vars(Create(t) \/ Drain(t) \/ Check(t) \/ Hour(t))
    /\ WF_vars(OpenNew(t) \/ Reset(t) \/ MoveOver(t) \/ Close(t))
    /\ SF_vars(Lock(t))

Spec == Init /\ [][Next]_vars
FairSpec == Spec /\ Fairness

-----------------------------------------------------------------------------
(* Properties.                                                             *)

Created == {t \in Threads : pc[t] # "create"}

\* Every variable has its type: the counters never go below zero, and a write
\* buffer never holds more than MAX_LOG_BURST lines.
TypeOK ==
  /\ file_lock \in Threads \union {Nobody}
  /\ fptr \in Handles \union {Null} /\ prev_fptr \in Handles \union {Null}
  /\ ref \in Nat /\ prev_ref \in Nat /\ file_size \in Nat
  /\ open \subseteq Handles /\ bytes \in [Handles -> Nat]
  /\ running \in BOOLEAN
  /\ pc \in [Threads -> PCs]
  /\ cnt \in [Threads -> 0 .. Burst]
  /\ len \in [Threads -> 0 .. Burst]
  /\ arg \in [Threads -> Handles \union {Null}]
  /\ job \in [Threads -> {"log", "timer"}]

\* The two counters of set_json_file_ptr always add up to the number of threads
\* that opened the handle: no rotation, complete, half done or given up, loses
\* or invents a user, so the previous file is closed after as many calls as it
\* has users.
RefsConserved == ref + prev_ref = Cardinality(Created)

\* FILE pointers neither leak nor dangle in the struct: exactly the current and
\* the previous file are open, they differ, and outside of a call the previous
\* one is there exactly while prev_ref says that somebody still uses it.
OpenFiles ==
  /\ open = {fptr, prev_fptr} \ {Null}
  /\ fptr = Null <=> Created = {}
  /\ fptr = prev_fptr => fptr = Null
  /\ (\A t \in Threads : pc[t] \notin {"reset", "close"}) =>
       (prev_fptr # Null <=> prev_ref > 0)

\* What makes the two above inductive: the calls of set_json_file_ptr exclude
\* each other, what each of them finds at its next step, and a write buffer that
\* shrinks as its drain goes on.
Inside == {"dir", "reset", "close"}
RotationInv ==
  /\ RefsConserved /\ OpenFiles
  /\ \A t \in Threads : pc[t] \in Inside => file_lock = t
  /\ \A t \in Threads : pc[t] = "reset" => prev_ref = 0
  /\ \A t \in Threads : pc[t] \in {"reset", "close"} => prev_fptr # Null
  /\ Created # {} => ref > 0
  /\ \A t \in Threads :
       /\ cnt[t] + len[t] <= Burst
       /\ pc[t] # "write" => len[t] = 0

\* "if there is only one thread" (logcollector.c:319, 392): prev_ref = 0 is taken
\* to mean that nobody but the caller still uses the file about to be closed.
NoWriteAfterClose ==
  \A t \in Threads : pc[t] = "write" /\ cnt[t] > 0 => arg[t] \in open

\* With one thread the size that decides on a rotation is the size of the
\* current file, whichever way the last call ended.
SizeExact ==
  \A t \in Threads :
    fptr # Null /\ pc[t] # "reset" => bytes[fptr] = file_size + len[t]

\* What makes these two inductive: the only thread drains into the current file,
\* and a file that is not open has no lines.
SoloInv ==
  /\ \A t \in Threads : pc[t] = "write" => arg[t] = fptr
  /\ \A t \in Threads : pc[t] = "reset" => bytes[fptr] = 0
  /\ SizeExact
  /\ \A h \in Handles \ open : bytes[h] = 0
  /\ fptr = Null => file_size = 0

\* How far a file outgrows the configured size.  While the new file is in use and
\* file_size is still that of the previous one, the other threads see a full file
\* only at Limit, and drain their buffers: Limit + (N - 1) * Burst lines that
\* file_size = 0 then forgets.  After that, Limit again and a buffer of each
\* thread, a line for each call that only moves a thread over to the file, and one
\* for a call that fails, after which nobody gets the lock.
FileBounded ==
  LET N == Cardinality(Threads)
  IN  \A h \in open :
        bytes[h] <= 2 * Limit + (2 * N - 1) * Burst + N - 1 + (IF MayFail THEN 1 ELSE 0)

\* Every call of set_json_file_ptr comes back, whatever the others do.
RotationReturns == \A t \in Threads : pc[t] = "enter" ~> pc[t] = "loop"
=============================================================================
