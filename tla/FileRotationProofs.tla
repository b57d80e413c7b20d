------------------------- MODULE FileRotationProofs -------------------------
(***************************************************************************)
(* Proofs about FileRotation: the reference counts and the open files for  *)
(* any number of threads, what holds of the files of a plugin that has a   *)
(* single thread, and how far a file outgrows the configured size for any  *)
(* number of threads, any limit and any write buffer.                      *)
(***************************************************************************)
EXTENDS FileRotation, FiniteSetTheorems, TLAPS

\* The inductive invariant.
Inv == TypeOK /\ RotationInv

-----------------------------------------------------------------------------
(* The set of threads that opened the handle.                              *)

\* It is a finite set of threads.
LEMMA CreatedFinite ==
  /\ Created \subseteq Threads
  /\ IsFiniteSet(Created)
  /\ Cardinality(Created) \in Nat
<1>1. Created \subseteq Threads
  BY DEF Created
<1>2. IsFiniteSet(Threads)
  BY RotationAssumption
<1>3. QED
  BY <1>1, <1>2, FS_Subset, FS_CardinalityType

\* Only Create changes it.
LEMMA CreatedSame ==
  ASSUME TypeOK, NEW t \in Threads, pc[t] # "create",
         NEW label, label # "create", Goto(t, label)
  PROVE  Created' = Created
<1>1. pc \in [Threads -> PCs]
  BY DEF TypeOK
<1>2. pc' = [pc EXCEPT ![t] = label]
  BY DEF Goto
<1>3. \A u \in Threads : pc'[u] # "create" <=> pc[u] # "create"
  BY <1>1, <1>2
<1>4. QED
  BY <1>3 DEF Created

\* A thread that opens the handle is one more.
LEMMA CreatedGrows ==
  ASSUME TypeOK, NEW t \in Threads, pc[t] = "create", Goto(t, "loop")
  PROVE  /\ Created' = Created \union {t}
         /\ Cardinality(Created') = Cardinality(Created) + 1
<1>1. pc \in [Threads -> PCs]
  BY DEF TypeOK
<1>2. pc' = [pc EXCEPT ![t] = "loop"]
  BY DEF Goto
<1>3. Created' = Created \union {t} /\ t \notin Created
  BY <1>1, <1>2 DEF Created
<1>4. QED
  BY <1>3, CreatedFinite, FS_AddElement

\* Nobody is inside set_json_file_ptr together with the owner of the lock, and
\* nobody is inside while the lock is free.
LEMMA Alone ==
  ASSUME RotationInv, NEW t \in Threads
  PROVE  /\ pc[t] \in Inside => \A u \in Threads : pc[u] \in Inside => u = t
         /\ file_lock = Nobody => pc[t] \notin Inside
<1>1. Nobody \notin Threads
  BY RotationAssumption
<1>2. \A u \in Threads : pc[u] \in Inside => file_lock = u
  BY DEF RotationInv
<1>3. QED
  BY <1>1, <1>2

-----------------------------------------------------------------------------
(* The invariant holds initially and every action preserves it.            *)

LEMMA InvInit == Init => Inv
<1> SUFFICES ASSUME Init PROVE Inv
  OBVIOUS
<1>1. TypeOK
  BY RotationAssumption DEF Init, TypeOK, PCs
<1>2. Created = {}
  BY DEF Init, Created
<1>3. Cardinality(Created) = 0
  BY <1>2, FS_EmptySet
<1>4. RefsConserved
  BY <1>3 DEF Init, RefsConserved
<1>5. OpenFiles
  BY <1>2 DEF Init, OpenFiles
<1>6. QED
  BY <1>1, <1>2, <1>4, <1>5, RotationAssumption DEF Init, Inv, RotationInv, Inside

\* The two halves of RotationInv: the shared handle, the private buffers.
HandleInv ==
  /\ RefsConserved /\ OpenFiles
  /\ \A t \in Threads : pc[t] \in Inside => file_lock = t
  /\ \A t \in Threads : pc[t] = "reset" => prev_ref = 0
  /\ \A t \in Threads : pc[t] \in {"reset", "close"} => prev_fptr # Null
  /\ Created # {} => ref > 0
BufferInv ==
  \A t \in Threads :
    /\ cnt[t] + len[t] <= Burst
    /\ pc[t] # "write" => len[t] = 0

LEMMA Halves == RotationInv <=> HandleInv /\ BufferInv
BY DEF RotationInv, HandleInv, BufferInv

\* A step that leaves the handle, the lock and the set of open files alone and
\* moves a thread outside of the critical section keeps the first half.
LEMMA HandleKept ==
  ASSUME TypeOK, HandleInv, NEW t \in Threads,
         pc[t] \notin {"create", "reset", "close"},
         NEW label \in {"loop", "write", "check", "hour", "enter"},
         Goto(t, label), UNCHANGED <<file_lock, handle, open>>
  PROVE  HandleInv'
<1>1. Created' = Created
  BY CreatedSame
<1>2. \A u \in Threads : pc'[u] = IF u = t THEN label ELSE pc[u]
  BY DEF TypeOK, Goto
<1>3. UNCHANGED <<file_lock, fptr, prev_fptr, ref, prev_ref, open>>
  BY DEF handle
<1>4. RefsConserved'
  BY <1>1, <1>3 DEF HandleInv, RefsConserved
<1>5. OpenFiles'
  <2>1. (\A u \in Threads : pc'[u] \notin {"reset", "close"}) =>
          (\A u \in Threads : pc[u] \notin {"reset", "close"})
    BY <1>2
  <2>2. QED
    BY <1>1, <1>3, <2>1 DEF HandleInv, OpenFiles
<1>6. \A u \in Threads : pc'[u] \in Inside => pc[u] \in Inside /\ pc'[u] = pc[u]
  BY <1>2 DEF Inside
<1>7. QED
  BY <1>1, <1>3, <1>4, <1>5, <1>6 DEF HandleInv, Inside

\* A step of a thread that is not in a drain and does not touch a buffer keeps
\* the second half.
LEMMA BufferKept ==
  ASSUME TypeOK, BufferInv, NEW t \in Threads,
         NEW label, pc[t] = "write" => label = "write",
         Goto(t, label), UNCHANGED buffer
  PROVE  BufferInv'
<1>1. \A u \in Threads : pc'[u] = IF u = t THEN label ELSE pc[u]
  BY DEF TypeOK, Goto
<1>2. QED
  BY <1>1 DEF BufferInv, buffer

LEMMA InvCreate ==
  ASSUME Inv, NEW t \in Threads, Create(t)
  PROVE  Inv'
<1>1. TypeOK /\ HandleInv /\ BufferInv
  BY Halves DEF Inv
<1>2. running /\ pc[t] = "create" /\ file_lock = Nobody /\ Goto(t, "loop")
  BY DEF Create, At
<1>3. /\ UNCHANGED <<file_lock, prev_fptr, file_size, running, buffer>>
  BY DEF Create
<1>4. TypeOK'
  BY <1>1, RotationAssumption DEF Create, Goto, Fopen, TypeOK, PCs, buffer, files
<1>5. BufferInv'
  BY <1>1, <1>2, <1>3, BufferKept
<1>6. /\ Created' = Created \union {t}
      /\ Cardinality(Created') = Cardinality(Created) + 1
  BY <1>1, <1>2, CreatedGrows
<1>7. Cardinality(Created) \in Nat
  BY CreatedFinite
<1>8. \A u \in Threads : pc'[u] = IF u = t THEN "loop" ELSE pc[u]
  BY <1>1, <1>2 DEF TypeOK, Goto
<1>9. \A u \in Threads : pc[u] \notin Inside
  BY <1>1, <1>2, RotationAssumption DEF HandleInv
<1>10. \A u \in Threads : pc'[u] \notin Inside
  BY <1>8, <1>9 DEF Inside
<1>11. RefsConserved' /\ OpenFiles' /\ ref' > 0
  <2>1. CASE fptr = Null
    <3>1. Created = {} /\ Cardinality(Created) = 0
      BY <1>1, <2>1, FS_EmptySet DEF HandleInv, OpenFiles
    <3>2. ref = 0 /\ prev_ref = 0
      BY <1>1, <3>1 DEF HandleInv, RefsConserved, TypeOK
    <3>3. prev_fptr = Null
      BY <1>1, <1>9, <3>2 DEF HandleInv, OpenFiles, Inside
    <3>4. open = {}
      BY <1>1, <2>1, <3>3 DEF HandleInv, OpenFiles
    <3>5. PICK h \in Handles : Fopen(h) /\ fptr' = h /\ ref' = 1 /\ prev_ref' = 0
      BY <2>1 DEF Create
    <3>6. open' = {h} /\ h # Null /\ prev_fptr' = Null
      BY <1>3, <3>3, <3>4, <3>5, RotationAssumption DEF Fopen
    <3>7. RefsConserved'
      BY <1>6, <3>1, <3>5 DEF RefsConserved
    <3>8. OpenFiles'
      BY <1>6, <3>5, <3>6 DEF OpenFiles
    <3>9. QED
      BY <3>5, <3>7, <3>8
  <2>2. CASE fptr # Null
    <3>1. ref' = ref + 1 /\ UNCHANGED <<fptr, prev_ref, open>>
      BY <2>2 DEF Create, files
    <3>2. RefsConserved'
      BY <1>1, <1>6, <1>7, <3>1 DEF HandleInv, RefsConserved, TypeOK
    <3>3. OpenFiles'
      BY <1>1, <1>3, <1>6, <1>9, <2>2, <3>1 DEF HandleInv, OpenFiles, Inside
    <3>4. ref' > 0
      BY <1>1, <3>1 DEF TypeOK
    <3>5. QED
      BY <3>2, <3>3, <3>4
  <2>3. QED
    BY <2>1, <2>2
<1>12. HandleInv'
  BY <1>10, <1>11 DEF HandleInv, Inside
<1>13. QED
  BY <1>4, <1>5, <1>12, Halves DEF Inv, RotationInv, HandleInv, BufferInv


\* The steps outside of the critical section.
LEMMA InvOutside ==
  ASSUME Inv, NEW t \in Threads,
         Log(t) \/ Timer(t) \/ Write(t) \/ AddSize(t) \/ Check(t) \/ Hour(t)
  PROVE  Inv'
<1>1. TypeOK /\ HandleInv /\ BufferInv
  BY Halves DEF Inv
<1>2. /\ cnt[t] \in 0 .. Burst /\ len[t] \in 0 .. Burst
      /\ cnt[t] + len[t] <= Burst /\ (pc[t] # "write" => len[t] = 0)
  BY <1>1 DEF TypeOK, BufferInv
<1>3. PICK label \in {"loop", "write", "check", "hour", "enter"} :
        Goto(t, label)
  <2>1. CASE Write(t)
    BY <2>1, <1>1 DEF Write, At, Goto, TypeOK
  <2>2. CASE Log(t) \/ Timer(t)
    BY <2>2 DEF Log, Timer, StartDrain
  <2>3. CASE AddSize(t)
    BY <2>3 DEF AddSize
  <2>4. CASE Check(t) \/ Hour(t)
    BY <2>4 DEF Check, Hour
  <2>5. QED
    BY <2>1, <2>2, <2>3, <2>4
<1>4. pc[t] \in {"loop", "write", "check", "hour"}
  BY DEF Log, Timer, Write, AddSize, Check, Hour, At
<1>5. UNCHANGED <<file_lock, handle, open>>
  BY DEF Log, Timer, Write, AddSize, Check, Hour, files
<1>6. HandleInv'
  BY <1>1, <1>3, <1>4, <1>5, HandleKept
<1>7. UNCHANGED <<fptr, prev_fptr, ref, prev_ref>>
  BY <1>5 DEF handle
<1>8. pc' \in [Threads -> PCs] /\ running' \in BOOLEAN
  <2>1. UNCHANGED running
    BY DEF Log, Timer, Write, AddSize, Check, Hour
  <2>2. QED
    BY <2>1, <1>1, <1>3 DEF TypeOK, Goto, PCs
<1>9. TypeOK' /\ BufferInv'
  <2>1. CASE Log(t)
    <3>1. pc[t] = "loop" /\ UNCHANGED <<file_lock, fptr, file_size, bytes>>
      BY <2>1, <1>7 DEF Log, At, files
    <3>2. CASE cnt[t] >= Burst
      BY <2>1, <3>1, <3>2, <1>1, <1>2, <1>5, <1>7, <1>8, RotationAssumption
      DEF Log, StartDrain, Goto, TypeOK, BufferInv
    <3>3. CASE ~ (cnt[t] >= Burst)
      <4>1. cnt' = [cnt EXCEPT ![t] = @ + 1] /\ Goto(t, "check")
            /\ UNCHANGED <<len, arg, job>>
        BY <2>1, <3>3 DEF Log
      <4>2. cnt[t] + 1 \in 0 .. Burst /\ len[t] = 0 /\ cnt[t] + 1 <= Burst
        BY <3>1, <3>3, <1>2, RotationAssumption
      <4>3. TypeOK'
        BY <3>1, <4>1, <4>2, <1>1, <1>5, <1>7, <1>8 DEF TypeOK
      <4>4. BufferInv'
        BY <3>1, <4>1, <4>2, <1>1 DEF Goto, TypeOK, BufferInv
      <4>5. QED
        BY <4>3, <4>4
    <3>4. QED
      BY <3>2, <3>3
  <2>2. CASE Timer(t)
    BY <2>2, <1>1, <1>2, <1>5, <1>7, <1>8, RotationAssumption
    DEF Timer, StartDrain, At, Goto, files, buffer, TypeOK, BufferInv
  <2>3. CASE Write(t)
    <3>1. /\ cnt' = [cnt EXCEPT ![t] = @ - 1] /\ len' = [len EXCEPT ![t] = @ + 1]
          /\ cnt[t] > 0 /\ pc[t] = "write"
          /\ UNCHANGED <<file_lock, file_size, pc, arg, job>>
      BY <2>3 DEF Write, At
    <3>2. bytes' \in [Handles -> Nat]
      BY <2>3, <1>1 DEF Write, TypeOK
    <3>3. cnt[t] - 1 \in 0 .. Burst /\ len[t] + 1 \in 0 .. Burst
      BY <1>2, <3>1, RotationAssumption
    <3>4. cnt' \in [Threads -> 0 .. Burst] /\ len' \in [Threads -> 0 .. Burst]
      BY <1>1, <3>1, <3>3 DEF TypeOK
    <3>5. TypeOK'
      BY <1>1, <1>5, <1>7, <1>8, <3>1, <3>2, <3>4 DEF TypeOK
    <3>6. BufferInv'
      BY <1>1, <1>2, <3>1, RotationAssumption DEF TypeOK, BufferInv
    <3>7. QED
      BY <3>5, <3>6
  <2>4. CASE AddSize(t)
    BY <2>4, <1>1, <1>2, <1>5, <1>7, <1>8, RotationAssumption
    DEF AddSize, Return, At, Goto, files, TypeOK, BufferInv
  <2>5. CASE Check(t) \/ Hour(t)
    BY <2>5, <1>1, <1>2, <1>5, <1>7, <1>8, RotationAssumption
    DEF Check, Hour, At, Goto, files, buffer, TypeOK, BufferInv
  <2>6. QED
    BY <2>1, <2>2, <2>3, <2>4, <2>5
<1>10. QED
  BY <1>6, <1>9, Halves DEF Inv, RotationInv, HandleInv, BufferInv

-----------------------------------------------------------------------------
(* The critical section.                                                   *)

\* A call of set_json_file_ptr that fails leaves the handle as it is.
LEMMA InvDirFails ==
  ASSUME Inv, NEW t \in Threads, DirFails(t)
  PROVE  Inv'
<1>1. TypeOK /\ HandleInv /\ BufferInv
  BY Halves DEF Inv
<1>2. /\ pc[t] = "dir" /\ Goto(t, "loop")
      /\ UNCHANGED <<file_lock, handle, file_size, files, running, buffer>>
  BY DEF DirFails, At
<1>3. UNCHANGED <<file_lock, handle, open>>
  BY <1>2 DEF files
<1>4. HandleInv'
  BY <1>1, <1>2, <1>3, HandleKept
<1>5. BufferInv'
  BY <1>1, <1>2, BufferKept
<1>6. TypeOK'
  BY <1>1, <1>2 DEF Goto, handle, files, buffer, TypeOK, PCs
<1>7. QED
  BY <1>4, <1>5, <1>6, Halves DEF Inv, RotationInv, HandleInv, BufferInv

\* What every step of the thread t to the label of a rotation has in common:
\* the set Created stays, the buffers stay, the others stay where they are, none
\* of them inside.
LEMMA Entering ==
  ASSUME Inv, NEW t \in Threads, pc[t] \in Inside \/ file_lock = Nobody,
         pc[t] \in {"enter", "dir", "reset", "close"},
         NEW label \in {"dir", "reset", "close", "loop"},
         Goto(t, label), UNCHANGED buffer
  PROVE  /\ TypeOK /\ HandleInv /\ BufferInv'
         /\ pc' \in [Threads -> PCs]
         /\ Created' = Created /\ Created # {}
         /\ \A u \in Threads : pc'[u] = IF u = t THEN label ELSE pc[u]
         /\ \A u \in Threads : u # t => pc[u] \notin Inside
         /\ fptr \in Handles /\ ref > 0
         /\ RefsConserved /\ OpenFiles
<1>1. TypeOK /\ RotationInv /\ HandleInv /\ BufferInv
  BY Halves DEF Inv
<1>2. BufferInv'
  BY <1>1, BufferKept
<1>3. pc' \in [Threads -> PCs]
  BY <1>1 DEF TypeOK, Goto, PCs
<1>4. Created' = Created /\ t \in Created
  BY <1>1, CreatedSame DEF Created
<1>5. \A u \in Threads : pc'[u] = IF u = t THEN label ELSE pc[u]
  BY <1>1 DEF TypeOK, Goto
<1>6. \A u \in Threads : u # t => pc[u] \notin Inside
  BY <1>1, Alone
<1>7. fptr \in Handles /\ ref > 0 /\ RefsConserved /\ OpenFiles
  BY <1>1, <1>4 DEF HandleInv, OpenFiles, TypeOK
<1>8. QED
  BY <1>1, <1>2, <1>3, <1>4, <1>5, <1>6, <1>7

LEMMA InvLock ==
  ASSUME Inv, NEW t \in Threads, Lock(t)
  PROVE  Inv'
<1>1. /\ pc[t] = "enter" /\ file_lock = Nobody /\ file_lock' = t
      /\ Goto(t, "dir")
      /\ UNCHANGED <<handle, file_size, files, running, buffer>>
  BY DEF Lock, At
<1>2. /\ TypeOK /\ HandleInv /\ BufferInv'
      /\ pc' \in [Threads -> PCs]
      /\ Created' = Created
      /\ \A u \in Threads : pc'[u] = IF u = t THEN "dir" ELSE pc[u]
      /\ \A u \in Threads : u # t => pc[u] \notin Inside
      /\ RefsConserved /\ OpenFiles
  BY <1>1, Entering
<1>3. UNCHANGED <<fptr, prev_fptr, ref, prev_ref, open>>
  BY <1>1 DEF handle, files
<1>4. TypeOK'
  BY <1>1, <1>2 DEF TypeOK, handle, files, buffer
<1>5. \A u \in Threads : pc[u] \notin {"reset", "close"}
  BY <1>1, <1>2 DEF Inside
<1>6. RefsConserved' /\ OpenFiles'
  BY <1>2, <1>3, <1>5 DEF RefsConserved, OpenFiles
<1>7. HandleInv'
  BY <1>1, <1>2, <1>3, <1>6 DEF HandleInv, Inside
<1>8. QED
  BY <1>2, <1>4, <1>7, Halves DEF Inv, RotationInv, HandleInv, BufferInv

\* A new file is opened: the previous one is the file in use until now, which is
\* another one.
LEMMA InvOpenNew ==
  ASSUME Inv, NEW t \in Threads, OpenNew(t)
  PROVE  Inv'
<1>1. /\ pc[t] = "dir" /\ prev_fptr = Null /\ prev_ref = 0
      /\ prev_fptr' = fptr /\ Goto(t, "reset")
      /\ UNCHANGED <<file_lock, ref, prev_ref, file_size, running, buffer>>
  BY DEF OpenNew, At
<1>2. PICK h \in Handles : Fopen(h) /\ fptr' = h
  BY DEF OpenNew
<1>3. /\ TypeOK /\ HandleInv /\ BufferInv'
      /\ pc' \in [Threads -> PCs]
      /\ Created' = Created /\ Created # {}
      /\ \A u \in Threads : pc'[u] = IF u = t THEN "reset" ELSE pc[u]
      /\ \A u \in Threads : u # t => pc[u] \notin Inside
      /\ fptr \in Handles /\ ref > 0
      /\ RefsConserved /\ OpenFiles
  BY <1>1, Entering DEF Inside
<1>4. fptr # Null /\ h # Null /\ open = {fptr}
  BY <1>1, <1>3, RotationAssumption DEF OpenFiles
<1>5. h # fptr /\ open' = {h, fptr} /\ UNCHANGED bytes
  BY <1>2, <1>4 DEF Fopen
<1>6. TypeOK'
  BY <1>1, <1>2, <1>3, <1>5 DEF TypeOK, buffer
<1>7. RefsConserved'
  BY <1>1, <1>3 DEF RefsConserved
<1>8. OpenFiles'
  BY <1>1, <1>2, <1>3, <1>4, <1>5 DEF OpenFiles
<1>9. HandleInv'
  BY <1>1, <1>3, <1>4, <1>7, <1>8 DEF HandleInv, Inside
<1>10. QED
  BY <1>3, <1>6, <1>9, Halves DEF Inv, RotationInv, HandleInv, BufferInv

\* The counters are handed over: ref + prev_ref stays what it was, because
\* prev_ref was 0.
LEMMA InvReset ==
  ASSUME Inv, NEW t \in Threads, Reset(t)
  PROVE  Inv'
<1>1. /\ pc[t] = "reset" /\ file_size' = 0 /\ prev_ref' = ref - 1 /\ ref' = 1
      /\ Goto(t, "close")
      /\ UNCHANGED <<file_lock, fptr, prev_fptr, files, running, buffer>>
  BY DEF Reset, At
<1>2. /\ TypeOK /\ HandleInv /\ BufferInv'
      /\ pc' \in [Threads -> PCs]
      /\ Created' = Created /\ Created # {}
      /\ \A u \in Threads : pc'[u] = IF u = t THEN "close" ELSE pc[u]
      /\ \A u \in Threads : u # t => pc[u] \notin Inside
      /\ ref > 0
      /\ RefsConserved /\ OpenFiles
  BY <1>1, Entering DEF Inside
<1>3. prev_ref = 0 /\ prev_fptr # Null
  BY <1>1, <1>2 DEF HandleInv
<1>4. TypeOK'
  BY <1>1, <1>2 DEF TypeOK, files, buffer
<1>5. RefsConserved'
  BY <1>1, <1>2, <1>3, CreatedFinite DEF TypeOK, RefsConserved
<1>6. OpenFiles'
  BY <1>1, <1>2 DEF OpenFiles, files
<1>7. HandleInv'
  BY <1>1, <1>2, <1>3, <1>5, <1>6 DEF HandleInv, Inside
<1>8. QED
  BY <1>2, <1>4, <1>7, Halves DEF Inv, RotationInv, HandleInv, BufferInv

\* A thread moves over: prev_ref was not 0, because there is a previous file and
\* nobody else is inside.
LEMMA InvMoveOver ==
  ASSUME Inv, NEW t \in Threads, MoveOver(t)
  PROVE  Inv'
<1>1. /\ pc[t] = "dir" /\ (prev_fptr # Null \/ prev_ref # 0)
      /\ ref' = ref + 1 /\ prev_ref' = prev_ref - 1
      /\ Goto(t, "close")
      /\ UNCHANGED <<file_lock, fptr, prev_fptr, file_size, files, running, buffer>>
  BY DEF MoveOver, At
<1>2. /\ TypeOK /\ HandleInv /\ BufferInv'
      /\ pc' \in [Threads -> PCs]
      /\ Created' = Created /\ Created # {}
      /\ \A u \in Threads : pc'[u] = IF u = t THEN "close" ELSE pc[u]
      /\ \A u \in Threads : u # t => pc[u] \notin Inside
      /\ ref > 0
      /\ RefsConserved /\ OpenFiles
  BY <1>1, Entering DEF Inside
<1>3. \A u \in Threads : pc[u] \notin {"reset", "close"}
  BY <1>1, <1>2 DEF Inside
<1>4. prev_fptr # Null /\ prev_ref > 0
  BY <1>1, <1>2, <1>3 DEF OpenFiles, TypeOK
<1>5. TypeOK'
  BY <1>1, <1>2, <1>4 DEF TypeOK, files, buffer
<1>6. RefsConserved'
  BY <1>1, <1>2, CreatedFinite DEF TypeOK, RefsConserved
<1>7. OpenFiles'
  BY <1>1, <1>2 DEF OpenFiles, files
<1>8. ref' > 0
  BY <1>1, <1>2 DEF TypeOK
<1>9. HandleInv'
  BY <1>1, <1>2, <1>3, <1>4, <1>6, <1>7, <1>8 DEF HandleInv, Inside
<1>10. QED
  BY <1>2, <1>5, <1>9, Halves DEF Inv, RotationInv, HandleInv, BufferInv

LEMMA InvClose ==
  ASSUME Inv, NEW t \in Threads, Close(t)
  PROVE  Inv'
<1>1. /\ pc[t] = "close" /\ file_lock' = Nobody /\ Goto(t, "loop")
      /\ UNCHANGED <<fptr, ref, prev_ref, file_size, running, buffer>>
  BY DEF Close, At
<1>2. /\ TypeOK /\ HandleInv /\ BufferInv'
      /\ pc' \in [Threads -> PCs]
      /\ Created' = Created /\ Created # {}
      /\ \A u \in Threads : pc'[u] = IF u = t THEN "loop" ELSE pc[u]
      /\ \A u \in Threads : u # t => pc[u] \notin Inside
      /\ fptr \in Handles /\ ref > 0
      /\ RefsConserved /\ OpenFiles
  BY <1>1, Entering DEF Inside
<1>3. prev_fptr # Null /\ prev_fptr # fptr
  BY <1>1, <1>2, RotationAssumption DEF HandleInv, OpenFiles
<1>4. RefsConserved'
  BY <1>1, <1>2 DEF RefsConserved
<1>5. \A u \in Threads : pc'[u] \notin Inside
  BY <1>2 DEF Inside
<1>6. TypeOK' /\ OpenFiles'
  <2>1. CASE prev_ref = 0
    <3>1. /\ open' = open \ {prev_fptr} /\ prev_fptr' = Null
          /\ bytes' = [bytes EXCEPT ![prev_fptr] = 0]
      BY <2>1 DEF Close
    <3>2. TypeOK'
      BY <1>1, <1>2, <3>1 DEF TypeOK, buffer
    <3>3. OpenFiles'
      BY <2>1, <3>1, <1>1, <1>2, <1>3, RotationAssumption DEF OpenFiles
    <3>4. QED
      BY <3>2, <3>3
  <2>2. CASE prev_ref # 0
    <3>1. UNCHANGED <<open, bytes, prev_fptr>>
      BY <2>2 DEF Close, files
    <3>2. TypeOK'
      BY <1>1, <1>2, <3>1, RotationAssumption DEF TypeOK, buffer
    <3>3. prev_ref > 0
      BY <1>2, <2>2 DEF TypeOK
    <3>4. OpenFiles'
      BY <3>1, <3>3, <1>1, <1>2, <1>3 DEF OpenFiles
    <3>5. QED
      BY <3>2, <3>4
  <2>3. QED
    BY <2>1, <2>2
<1>7. HandleInv'
  BY <1>1, <1>2, <1>4, <1>5, <1>6 DEF HandleInv, Inside
<1>8. QED
  BY <1>2, <1>6, <1>7, Halves DEF Inv, RotationInv, HandleInv, BufferInv

\* An exit stops everything.
LEMMA InvExit ==
  ASSUME Inv, Exit
  PROVE  Inv'
<1>1. TypeOK'
  BY DEF Inv, TypeOK, Exit, handle, files, buffer
<1>2. Created' = Created
  BY DEF Exit, Created
<1>3. RotationInv'
  BY <1>2 DEF Inv, RotationInv, RefsConserved, OpenFiles, Exit, handle, files, buffer
<1>4. QED
  BY <1>1, <1>3 DEF Inv

-----------------------------------------------------------------------------
(* The invariant, for any number of threads.                               *)

LEMMA InvNext ==
  ASSUME Inv, [Next]_vars
  PROVE  Inv'
<1>1. CASE UNCHANGED vars
  <2>1. TypeOK'
    BY <1>1 DEF Inv, TypeOK, vars, handle, files, buffer
  <2>2. Created' = Created
    BY <1>1 DEF vars, Created
  <2>3. RotationInv'
    BY <1>1, <2>2
    DEF Inv, RotationInv, RefsConserved, OpenFiles, vars, handle, files, buffer
  <2>4. QED
    BY <2>1, <2>3 DEF Inv
<1>2. ASSUME NEW t \in Threads, Step(t)
      PROVE  Inv'
  <2>1. CASE Create(t)
    BY <2>1, InvCreate
  <2>2. CASE Log(t) \/ Timer(t) \/ Drain(t) \/ Check(t) \/ Hour(t)
    BY <2>2, InvOutside DEF Drain
  <2>3. CASE Rotate(t)
    BY <2>3, InvLock, InvOpenNew, InvReset, InvMoveOver, InvClose DEF Rotate
  <2>4. CASE Fail(t)
    BY <2>4, InvDirFails, InvExit DEF Fail, CreateFails, OpenNewFails
  <2>5. QED
    BY <1>2, <2>1, <2>2, <2>3, <2>4 DEF Step
<1>3. QED
  BY <1>1, <1>2 DEF Next

LEMMA InvAlways == Spec => []Inv
<1>1. Init => Inv
  BY InvInit
<1>2. Inv /\ [Next]_vars => Inv'
  BY InvNext
<1>3. QED
  BY <1>1, <1>2, PTL DEF Spec

\* No counter of set_json_file_ptr goes below zero, and no write buffer holds
\* more than MAX_LOG_BURST lines, whatever the threads, files and limits are.
THEOREM RotationTypeCorrect == Spec => []TypeOK
<1>1. Inv => TypeOK
  BY DEF Inv
<1>2. QED
  BY <1>1, InvAlways, PTL

\* The invariant that the run of two threads checks, for any number of them.
THEOREM RotationInvariant == Spec => []RotationInv
<1>1. Inv => RotationInv
  BY DEF Inv
<1>2. QED
  BY <1>1, InvAlways, PTL

\* ref + prev_ref of the handle is always the number of threads that opened it.
THEOREM RefsAreConserved == Spec => []RefsConserved
<1>1. Inv => RefsConserved
  BY DEF Inv, RotationInv
<1>2. QED
  BY <1>1, InvAlways, PTL

\* The open files are always the current one and the previous one of the handle.
THEOREM FilesAreAccounted == Spec => []OpenFiles
<1>1. Inv => OpenFiles
  BY DEF Inv, RotationInv
<1>2. QED
  BY <1>1, InvAlways, PTL

-----------------------------------------------------------------------------
(* A plugin with a single thread.                                          *)

\* There is one thread at most.
Solo == \A t, u \in Threads : t = u

LEMMA SoloInit == Init => SoloInv
BY RotationAssumption DEF Init, SoloInv, SizeExact

\* A single thread finds no user of the previous file but itself.
LEMMA SoloCount ==
  ASSUME Inv, Solo, NEW t \in Threads, pc[t] # "create"
  PROVE  ref = 1 /\ prev_ref = 0 /\ fptr \in Handles /\ fptr \in open
<1>1. Created = {t}
  BY DEF Solo, Created
<1>2. Cardinality(Created) = 1
  BY <1>1, FS_Singleton
<1>3. ref + prev_ref = 1 /\ ref > 0 /\ ref \in Nat /\ prev_ref \in Nat
  BY <1>1, <1>2 DEF Inv, RotationInv, RefsConserved, TypeOK
<1>4. fptr # Null /\ fptr \in Handles \union {Null} /\ open = {fptr, prev_fptr} \ {Null}
  BY <1>1 DEF Inv, RotationInv, OpenFiles, TypeOK
<1>5. QED
  BY <1>3, <1>4

LEMMA SoloStep ==
  ASSUME Inv, Solo, SoloInv, NEW t \in Threads, Step(t)
  PROVE  SoloInv'
<1>1. TypeOK /\ RotationInv
  BY DEF Inv
<1>2. pc[t] # "create" =>
        ref = 1 /\ prev_ref = 0 /\ fptr \in Handles /\ fptr \in open
  BY SoloCount
<1>3. \A u \in Threads : u = t
  BY DEF Solo
<1>4. /\ cnt[t] \in 0 .. Burst /\ len[t] \in 0 .. Burst /\ file_size \in Nat
      /\ fptr \in Handles \union {Null} /\ open \subseteq Handles
      /\ bytes \in [Handles -> Nat] /\ pc \in [Threads -> PCs]
      /\ cnt \in [Threads -> 0 .. Burst] /\ len \in [Threads -> 0 .. Burst]
      /\ arg \in [Threads -> Handles \union {Null}]
  BY <1>1 DEF TypeOK
<1>5. /\ pc[t] = "write" => arg[t] = fptr
      /\ pc[t] = "reset" => bytes[fptr] = 0
      /\ fptr # Null /\ pc[t] # "reset" => bytes[fptr] = file_size + len[t]
      /\ \A h \in Handles \ open : bytes[h] = 0
      /\ fptr = Null => file_size = 0
  BY DEF SoloInv, SizeExact
<1>6. pc[t] # "write" => len[t] = 0
  BY <1>1 DEF RotationInv
<1>7. SUFFICES
        /\ pc'[t] = "write" => arg'[t] = fptr'
        /\ pc'[t] = "reset" => bytes'[fptr'] = 0
        /\ fptr' # Null /\ pc'[t] # "reset" => bytes'[fptr'] = file_size' + len'[t]
        /\ \A h \in Handles \ open' : bytes'[h] = 0
        /\ fptr' = Null => file_size' = 0
  BY <1>3 DEF SoloInv, SizeExact
<1>8. CASE Create(t)
  <2>1. len[t] = 0 /\ pc'[t] = "loop" /\ UNCHANGED <<file_size, len, arg, bytes>>
    BY <1>8, <1>4, <1>6 DEF Create, At, Goto, buffer, files, Fopen
  <2>2. CASE fptr = Null
    BY <2>1, <2>2, <1>8, <1>4, <1>5, RotationAssumption DEF Create, Fopen
  <2>3. CASE fptr # Null
    BY <2>1, <2>3, <1>8, <1>5, <1>4, <1>6 DEF Create, At, files
  <2>4. QED
    BY <2>2, <2>3
<1>9. CASE Log(t)
  BY <1>9, <1>4, <1>5, <1>6 DEF Log, StartDrain, At, Goto, handle, files
<1>10. CASE Timer(t)
  BY <1>10, <1>4, <1>5, <1>6 DEF Timer, StartDrain, At, Goto, handle, files, buffer
<1>11. CASE Write(t)
  <2>1. pc[t] = "write" /\ arg[t] = fptr /\ fptr \in open /\ fptr \in Handles
    BY <1>11, <1>2, <1>5 DEF Write, At
  <2>2. /\ bytes' = [bytes EXCEPT ![fptr] = @ + 1] /\ len' = [len EXCEPT ![t] = @ + 1]
        /\ UNCHANGED <<fptr, file_size, open, pc, arg>>
    BY <1>11, <2>1 DEF Write, handle
  <2>3. QED
    BY <2>1, <2>2, <1>4, <1>5, RotationAssumption
<1>12. CASE AddSize(t)
  <2>1. /\ pc[t] = "write" /\ pc'[t] \in {"check", "hour"} /\ file_size' = file_size + len[t]
        /\ len'[t] = 0 /\ UNCHANGED <<fptr, open, bytes>>
    BY <1>12, <1>4 DEF AddSize, Return, At, Goto, handle, files
  <2>2. QED
    BY <2>1, <1>2, <1>4, <1>5, RotationAssumption
<1>13. CASE Check(t) \/ Hour(t) \/ Lock(t) \/ DirFails(t)
  <2>1. /\ pc[t] \notin {"write", "reset"} /\ pc'[t] \notin {"write", "reset"}
        /\ UNCHANGED <<fptr, file_size, open, bytes, len>>
    BY <1>13, <1>4
    DEF Check, Hour, Lock, DirFails, At, Goto, handle, files, buffer
  <2>2. QED
    BY <2>1, <1>5
<1>14. CASE OpenNew(t)
  <2>1. PICK h \in Handles \ open : fptr' = h
    BY <1>14 DEF OpenNew, Fopen
  <2>2. /\ pc'[t] = "reset" /\ open' = open \union {h} /\ UNCHANGED <<bytes, file_size>>
    BY <1>14, <1>4, <2>1 DEF OpenNew, Fopen, Goto
  <2>3. QED
    BY <2>1, <2>2, <1>5, RotationAssumption
<1>15. CASE Reset(t)
  BY <1>15, <1>4, <1>5, <1>6, <1>2, RotationAssumption
  DEF Reset, At, Goto, files, buffer
<1>16. CASE MoveOver(t)
  BY <1>16, <1>4, <1>5 DEF MoveOver, At, Goto, files, buffer
<1>17. CASE Close(t)
  <2>1. prev_ref = 0 /\ pc[t] = "close" /\ pc'[t] = "loop"
    BY <1>17, <1>2, <1>4 DEF Close, At, Goto
  <2>2. /\ prev_fptr # Null /\ prev_fptr # fptr /\ prev_fptr \in Handles
        /\ fptr \in Handles
    BY <2>1, <1>1, <1>2, RotationAssumption DEF RotationInv, OpenFiles, TypeOK
  <2>3. /\ open' = open \ {prev_fptr} /\ bytes' = [bytes EXCEPT ![prev_fptr] = 0]
        /\ UNCHANGED <<fptr, file_size, len>>
    BY <1>17, <2>1 DEF Close, buffer
  <2>4. QED
    BY <2>1, <2>2, <2>3, <1>4, <1>5, RotationAssumption
<1>18. CASE CreateFails(t) \/ OpenNewFails(t)
  BY <1>18, <1>5 DEF CreateFails, OpenNewFails, Exit, handle, files, buffer
<1>19. QED
  BY <1>8, <1>9, <1>10, <1>11, <1>12, <1>13, <1>14, <1>15, <1>16, <1>17, <1>18
  DEF Step, Drain, Rotate, Fail

LEMMA SoloAlways == Solo /\ Spec => []SoloInv
<1>1. Init => SoloInv
  BY SoloInit
<1>2. Solo /\ Inv /\ SoloInv /\ [Next]_vars => SoloInv'
  <2>1. SoloInv /\ UNCHANGED vars => SoloInv'
    BY DEF SoloInv, SizeExact, vars, handle, files, buffer
  <2>2. QED
    BY <2>1, SoloStep DEF Next
<1>3. Solo => []Solo
  <2>1. Solo => Solo'
    BY DEF Solo
  <2>2. QED
    BY <2>1, PTL
<1>4. QED
  BY <1>1, <1>2, <1>3, InvAlways, PTL DEF Spec

\* A plugin with one thread always drains into the current file, and starts each new
\* file with a size of 0: what drain_write_buffer and set_json_file_ptr rely on.
THEOREM SoloKeepsItsFile == Solo /\ Spec => []SoloInv
BY SoloAlways

\* The comment of the code is right for a plugin with one thread: the file that
\* it closes is not the one it still writes to.
THEOREM SoloWritesToOpenFile == Solo /\ Spec => []NoWriteAfterClose
<1>1. Solo /\ Inv /\ SoloInv => NoWriteAfterClose
  <2> SUFFICES ASSUME Solo, Inv, SoloInv, NEW t \in Threads, pc[t] = "write"
               PROVE  arg[t] \in open
    BY DEF NoWriteAfterClose
  <2>1. fptr \in open
    BY SoloCount
  <2>2. QED
    BY <2>1 DEF SoloInv
<1>2. Solo => []Solo
  <2>1. Solo => Solo'
    BY DEF Solo
  <2>2. QED
    BY <2>1, PTL
<1>3. QED
  BY <1>1, <1>2, InvAlways, SoloAlways, PTL

\* And file_size is the size of the file it writes to.
THEOREM SoloSizeIsExact == Solo /\ Spec => []SizeExact
<1>1. SoloInv => SizeExact
  BY DEF SoloInv
<1>2. QED
  BY <1>1, SoloAlways, PTL

-----------------------------------------------------------------------------
(* How far a file outgrows its size.                                      *)


\* What the threads have together, when f tells what each of them has.
Units(f) == {x \in Threads \X (1 .. Burst) : x[2] <= f[x[1]]}
Sum(f) == Cardinality(Units(f))

\* The lines a thread may still write before it looks at file_size: those in its
\* buffer, but not the one after which it is looking.  They all go to the file it has
\* loaded, or to the current one.
Looking == {"check", "enter", "dir", "reset"}
Ahead == [t \in Threads |->
            IF pc[t] \notin Looking THEN cnt[t] ELSE IF cnt[t] = 0 THEN 0 ELSE cnt[t] - 1]

\* Together with those it has written but not added to file_size.
Pending == [t \in Threads |-> Ahead[t] + len[t]]

\* The lines that will still go to the previous file.
Late == [t \in Threads |-> IF pc[t] = "write" /\ arg[t] = prev_fptr THEN cnt[t] ELSE 0]

\* A call may still fail: none has kept the lock.
MayStillFail == MayFail /\ (file_lock = Nobody \/ pc[file_lock] \in Inside)
FailsToCome == IF MayStillFail THEN 1 ELSE 0

N == Cardinality(Threads)
Forgotten == Limit + N * Burst - Burst
Counted == Limit + N * Burst + N - 1 + (IF MayFail THEN 1 ELSE 0)

\* What makes the bound inductive.  From the moment file_size exceeds Limit, each thread
\* that looks at it calls set_json_file_ptr, and prev_ref says how often such a call only
\* moves its thread over.
SizeInv == file_size + Sum(Pending) + prev_ref + FailsToCome <= Counted
CurrentInv ==
  fptr # Null => bytes[fptr] + Sum(Ahead) <= Forgotten + file_size + Sum(Pending)
WindowInv ==
  \A r \in Threads : pc[r] = "reset" =>
    /\ bytes[fptr] + Sum(Ahead) <= file_size + Sum(Pending)
    /\ bytes[fptr] + Sum(Ahead) - Ahead[r] <= Forgotten
PreviousInv ==
  prev_fptr # Null => bytes[prev_fptr] + Sum(Late) <= Forgotten + Counted
UnusedInv == \A h \in Handles \ open : bytes[h] = 0

BoundInv ==
  Threads # {} => SizeInv /\ CurrentInv /\ WindowInv /\ PreviousInv /\ UnusedInv

-----------------------------------------------------------------------------
(* Sums over the threads.                                                  *)

Amounts == [Threads -> 0 .. Burst]

LEMMA ThreadCount == IsFiniteSet(Threads) /\ N \in Nat /\ Burst \in Nat \ {0} /\ Limit \in Nat
  BY RotationAssumption, FS_CardinalityType DEF N

LEMMA SumBounded ==
  ASSUME NEW f \in Amounts
  PROVE  IsFiniteSet(Units(f)) /\ Sum(f) \in Nat /\ Sum(f) <= N * Burst
<1>1. IsFiniteSet(1 .. Burst) /\ Cardinality(1 .. Burst) = Burst
  BY ThreadCount, FS_Interval
<1>2. /\ IsFiniteSet(Threads \X (1 .. Burst))
      /\ Cardinality(Threads \X (1 .. Burst)) = N * Burst
  BY <1>1, ThreadCount, FS_Product DEF N
<1>3. Units(f) \subseteq Threads \X (1 .. Burst)
  BY DEF Units
<1>4. QED
  BY <1>2, <1>3, FS_Subset, FS_CardinalityType DEF Sum

LEMMA SumLeq ==
  ASSUME NEW f \in Amounts, NEW g \in Amounts, \A t \in Threads : f[t] <= g[t]
  PROVE  Sum(f) <= Sum(g)
<1>1. Units(f) \subseteq Units(g)
  BY ThreadCount DEF Units, Amounts
<1>2. QED
  BY <1>1, SumBounded, FS_Subset DEF Sum

\* The part of one thread, and that of the others.
Others(f, t) == {x \in Units(f) : x[1] # t}

LEMMA SumAt ==
  ASSUME NEW f \in Amounts, NEW t \in Threads
  PROVE  /\ Cardinality(Others(f, t)) \in Nat
         /\ Sum(f) = Cardinality(Others(f, t)) + f[t]
<1> DEFINE own == {t} \X (1 .. f[t])
<1>1. f[t] \in 0 .. Burst /\ f[t] \in Nat
  BY ThreadCount DEF Amounts
<1>2. IsFiniteSet(own) /\ Cardinality(own) = f[t]
  <2>1. IsFiniteSet(1 .. f[t]) /\ Cardinality(1 .. f[t]) = f[t]
    BY <1>1, FS_Interval, SMTT(30)
  <2>2. IsFiniteSet({t}) /\ Cardinality({t}) = 1
    BY FS_Singleton
  <2>3. IsFiniteSet(own) /\ Cardinality(own) = 1 * f[t]
    BY <2>1, <2>2, FS_Product, ZenonT(60)
  <2>4. QED
    BY <1>1, <2>3
<1>3. IsFiniteSet(Others(f, t))
  <2>1. Others(f, t) \subseteq Units(f)
    BY DEF Others
  <2>2. QED
    BY <2>1, SumBounded, FS_Subset
<1>4. Units(f) = Others(f, t) \union own
  <2>1. \A x : x \in own <=> x \in Units(f) /\ x[1] = t
    BY <1>1, ThreadCount DEF Units
  <2>2. QED
    BY <2>1 DEF Others
<1>5. Others(f, t) \intersect own = {}
  BY DEF Others
<1> HIDE DEF own
<1>6. Cardinality(Units(f)) = Cardinality(Others(f, t)) + Cardinality(own)
  <2>1. Cardinality(Others(f, t) \intersect own) = 0
    BY <1>5, FS_EmptySet
  <2>2. Cardinality(Others(f, t) \union own)
          = Cardinality(Others(f, t)) + Cardinality(own) - Cardinality(Others(f, t) \intersect own)
    BY <1>2, <1>3, FS_Union
  <2>3. Cardinality(Others(f, t)) \in Nat /\ Cardinality(own) \in Nat
    BY <1>2, <1>3, FS_CardinalityType
  <2>4. QED
    BY <1>4, <2>1, <2>2, <2>3
<1>7. QED
  BY <1>2, <1>3, <1>6, FS_CardinalityType DEF Sum

\* One thread has another amount.
LEMMA SumChange ==
  ASSUME NEW f \in Amounts, NEW g \in Amounts, NEW t \in Threads,
         \A u \in Threads : u # t => g[u] = f[u]
  PROVE  Sum(g) = Sum(f) - f[t] + g[t]
<1>1. Others(f, t) = Others(g, t)
  BY DEF Others, Units
<1>2. f[t] \in Nat /\ g[t] \in Nat
  BY ThreadCount DEF Amounts
<1>3. QED
  BY <1>1, <1>2, SumAt

\* What the others have at most.
LEMMA SumOfOthers ==
  ASSUME NEW f \in Amounts, NEW t \in Threads
  PROVE  f[t] <= Sum(f) /\ Sum(f) - f[t] <= N * Burst - Burst
<1>1. f[t] \in Nat /\ Sum(f) \in Nat /\ N * Burst \in Nat
  BY ThreadCount, SumBounded DEF Amounts
<1>2. f[t] <= Sum(f)
  BY <1>1, SumAt
<1>3. PICK g \in Amounts : g = [f EXCEPT ![t] = Burst]
  <2>1. Burst \in 0 .. Burst
    BY ThreadCount
  <2>2. [f EXCEPT ![t] = Burst] \in Amounts
    BY <2>1 DEF Amounts
  <2>3. QED
    BY <2>2, Zenon
<1>4. Sum(g) = Sum(f) - f[t] + Burst
  <2>1. g[t] = Burst /\ \A u \in Threads : u # t => g[u] = f[u]
    BY <1>3 DEF Amounts
  <2>2. QED
    BY <2>1, SumChange
<1>5. Sum(g) <= N * Burst
  BY SumBounded
<1>6. QED
  BY <1>1, <1>2, <1>4, <1>5, ThreadCount

-----------------------------------------------------------------------------
(* What the invariant of the rotation says about these amounts.            *)

LEMMA AmountTypes == Inv => Ahead \in Amounts /\ Pending \in Amounts /\ Late \in Amounts
<1> SUFFICES ASSUME Inv PROVE Ahead \in Amounts /\ Pending \in Amounts /\ Late \in Amounts
  OBVIOUS
<1>1. \A t \in Threads :
        cnt[t] \in 0 .. Burst /\ len[t] \in 0 .. Burst /\ cnt[t] + len[t] <= Burst
  BY DEF Inv, TypeOK, RotationInv
<1>2. \A t \in Threads : Ahead[t] \in 0 .. Burst /\ Ahead[t] <= cnt[t]
  BY <1>1, ThreadCount DEF Ahead
<1>3. \A t \in Threads : Pending[t] \in 0 .. Burst
  BY <1>1, <1>2, ThreadCount DEF Pending
<1>4. \A t \in Threads : Late[t] \in 0 .. Burst
  BY <1>1, ThreadCount DEF Late
<1>5. Ahead \in Amounts
  BY <1>2 DEF Ahead, Amounts
<1>6. Pending \in Amounts
  BY <1>3 DEF Pending, Amounts
<1>7. Late \in Amounts
  BY <1>4 DEF Late, Amounts
<1>8. QED
  BY <1>5, <1>6, <1>7

LEMMA AmountTypesNext == Inv' => Ahead' \in Amounts /\ Pending' \in Amounts /\ Late' \in Amounts
<1>1. Inv' => (Ahead \in Amounts /\ Pending \in Amounts /\ Late \in Amounts)'
  BY AmountTypes, PTL
<1>2. QED
  BY <1>1 DEF Amounts

\* All the numbers of the invariant are natural numbers.
LEMMA NumberTypes ==
  Inv => /\ Sum(Ahead) \in Nat /\ Sum(Pending) \in Nat /\ Sum(Late) \in Nat
         /\ file_size \in Nat /\ prev_ref \in Nat /\ FailsToCome \in 0 .. 1
         /\ Forgotten \in Int /\ Counted \in Int /\ N * Burst \in Nat
         /\ \A h \in Handles : bytes[h] \in Nat
         /\ \A t \in Threads :
              Ahead[t] \in Nat /\ Pending[t] \in Nat /\ Late[t] \in Nat /\ len[t] \in Nat
<1> SUFFICES ASSUME Inv
             PROVE  /\ Sum(Ahead) \in Nat /\ Sum(Pending) \in Nat /\ Sum(Late) \in Nat
                    /\ file_size \in Nat /\ prev_ref \in Nat /\ FailsToCome \in 0 .. 1
                    /\ Forgotten \in Int /\ Counted \in Int /\ N * Burst \in Nat
                    /\ \A h \in Handles : bytes[h] \in Nat
                    /\ \A t \in Threads :
                         Ahead[t] \in Nat /\ Pending[t] \in Nat /\ Late[t] \in Nat /\ len[t] \in Nat
  OBVIOUS
<1>1. Ahead \in Amounts /\ Pending \in Amounts /\ Late \in Amounts
  BY AmountTypes
<1>2. N * Burst \in Nat /\ Forgotten \in Int /\ Counted \in Int
  BY ThreadCount DEF Forgotten, Counted
<1>3. Sum(Ahead) \in Nat /\ Sum(Pending) \in Nat /\ Sum(Late) \in Nat
  BY <1>1, SumBounded
<1>4. \A t \in Threads : Ahead[t] \in Nat /\ Pending[t] \in Nat /\ Late[t] \in Nat
  BY <1>1, ThreadCount DEF Amounts
<1>5. QED
  BY <1>2, <1>3, <1>4, ThreadCount DEF Inv, TypeOK, FailsToCome

\* A file below its limit is far enough from the bound.
LEMMA SmallFile == Inv /\ Threads # {} /\ file_size <= Limit => SizeInv
<1> SUFFICES ASSUME Inv, Threads # {}, file_size <= Limit PROVE SizeInv
  OBVIOUS
<1>1. Sum(Pending) \in Nat /\ Sum(Pending) <= N * Burst /\ N * Burst \in Nat
  BY AmountTypes, NumberTypes, SumBounded
<1>2. N >= 1
  <2>1. N # 0
    BY ThreadCount, FS_EmptySet DEF N
  <2>2. QED
    BY <2>1, ThreadCount
<1>3. Cardinality(Created) <= N /\ Cardinality(Created) \in Nat
  BY CreatedFinite, ThreadCount, FS_Subset DEF N
<1>4. /\ ref \in Nat /\ prev_ref \in Nat /\ file_size \in Nat
      /\ ref + prev_ref = Cardinality(Created) /\ (Created # {} => ref > 0)
  BY DEF Inv, TypeOK, RotationInv, RefsConserved
<1>5. prev_ref <= N - 1
  <2>1. CASE Created = {}
    <3>1. Cardinality(Created) = 0
      BY <2>1, FS_EmptySet
    <3>2. QED
      BY <1>2, <1>4, <3>1, ThreadCount
  <2>2. CASE Created # {}
    BY <1>3, <1>4, <2>2, ThreadCount
  <2>3. QED
    BY <2>1, <2>2
<1>6. FailsToCome \in 0 .. 1 /\ (~ MayFail => FailsToCome = 0)
  BY DEF FailsToCome, MayStillFail
<1>7. QED
  BY <1>1, <1>4, <1>5, <1>6, ThreadCount, RotationAssumption DEF SizeInv, Counted

\* A step of the thread t.
Stays(u) == pc'[u] = pc[u] /\ cnt'[u] = cnt[u] /\ len'[u] = len[u] /\ arg'[u] = arg[u]
OnlyMoves(t) == \A u \in Threads : u # t => Stays(u)

LEMMA SumsMove ==
  ASSUME Inv, Inv', NEW t \in Threads, OnlyMoves(t)
  PROVE  /\ Sum(Ahead') = Sum(Ahead) - Ahead[t] + Ahead'[t]
         /\ Sum(Pending') = Sum(Pending) - Pending[t] + Pending'[t]
         /\ prev_fptr' = prev_fptr => Sum(Late') = Sum(Late) - Late[t] + Late'[t]
         /\ \A u \in Threads : u # t => Ahead'[u] = Ahead[u] /\ Pending'[u] = Pending[u]
<1>1. Ahead \in Amounts /\ Pending \in Amounts /\ Late \in Amounts
  BY AmountTypes
<1>2. Ahead' \in Amounts /\ Pending' \in Amounts /\ Late' \in Amounts
  BY AmountTypesNext
<1>3. \A u \in Threads : u # t => Ahead'[u] = Ahead[u]
  BY DEF OnlyMoves, Stays, Ahead
<1>4. \A u \in Threads : u # t => Pending'[u] = Pending[u]
  BY <1>3 DEF OnlyMoves, Stays, Pending
<1>5. prev_fptr' = prev_fptr => \A u \in Threads : u # t => Late'[u] = Late[u]
  BY DEF OnlyMoves, Stays, Late
<1>6. Sum(Ahead') = Sum(Ahead) - Ahead[t] + Ahead'[t]
  BY <1>1, <1>2, <1>3, SumChange
<1>7. Sum(Pending') = Sum(Pending) - Pending[t] + Pending'[t]
  BY <1>1, <1>2, <1>4, SumChange
<1>8. prev_fptr' = prev_fptr => Sum(Late') = Sum(Late) - Late[t] + Late'[t]
  BY <1>1, <1>2, <1>5, SumChange
<1>9. QED
  BY <1>3, <1>4, <1>6, <1>7, <1>8

LEMMA NumberTypesNext ==
  Inv' => /\ Sum(Ahead') \in Nat /\ Sum(Pending') \in Nat /\ Sum(Late') \in Nat
          /\ file_size' \in Nat /\ prev_ref' \in Nat /\ FailsToCome' \in 0 .. 1
          /\ \A h \in Handles : bytes'[h] \in Nat
          /\ \A t \in Threads :
               Ahead'[t] \in Nat /\ Pending'[t] \in Nat /\ Late'[t] \in Nat /\ len'[t] \in Nat
<1>1. Inv' => (/\ Sum(Ahead) \in Nat /\ Sum(Pending) \in Nat /\ Sum(Late) \in Nat
               /\ file_size \in Nat /\ prev_ref \in Nat /\ FailsToCome \in 0 .. 1
               /\ Forgotten \in Int /\ Counted \in Int /\ N * Burst \in Nat
               /\ \A h \in Handles : bytes[h] \in Nat
               /\ \A t \in Threads :
                    Ahead[t] \in Nat /\ Pending[t] \in Nat /\ Late[t] \in Nat /\ len[t] \in Nat)'
  BY NumberTypes, PTL
<1>2. QED
  BY <1>1

-----------------------------------------------------------------------------
(* The steps.                                                              *)

\* What a step of the thread t may do to its amounts when no line reaches a file.
Quiet(t) ==
  /\ \/ file_size' <= Limit
     \/ file_size' + Pending'[t] + prev_ref' + FailsToCome'
          <= file_size + Pending[t] + prev_ref + FailsToCome
  /\ Ahead'[t] - Ahead[t] <= file_size' + Pending'[t] - file_size - Pending[t]
  /\ \/ Ahead'[t] <= Ahead[t] \/ file_size' <= Limit
     \/ \A r \in Threads : pc[r] # "reset"
  /\ Late'[t] <= Late[t]

LEMMA QuietStep ==
  ASSUME Inv, Inv', BoundInv, NEW t \in Threads, OnlyMoves(t), Quiet(t),
         UNCHANGED <<fptr, prev_fptr, open, bytes>>,
         pc[t] # "reset", pc'[t] # "reset"
  PROVE  BoundInv'
<1>1. /\ Sum(Ahead) \in Nat /\ Sum(Pending) \in Nat /\ Sum(Late) \in Nat
      /\ file_size \in Nat /\ prev_ref \in Nat /\ FailsToCome \in 0 .. 1
      /\ Forgotten \in Int /\ Counted \in Int /\ N * Burst \in Nat
      /\ \A h \in Handles : bytes[h] \in Nat
      /\ \A u \in Threads :
           Ahead[u] \in Nat /\ Pending[u] \in Nat /\ Late[u] \in Nat /\ len[u] \in Nat
  BY NumberTypes
<1>2. /\ Sum(Ahead') \in Nat /\ Sum(Pending') \in Nat /\ Sum(Late') \in Nat
      /\ file_size' \in Nat /\ prev_ref' \in Nat /\ FailsToCome' \in 0 .. 1
      /\ \A u \in Threads :
           Ahead'[u] \in Nat /\ Pending'[u] \in Nat /\ Late'[u] \in Nat /\ len'[u] \in Nat
  BY NumberTypesNext
<1>3. /\ Sum(Ahead') = Sum(Ahead) - Ahead[t] + Ahead'[t]
      /\ Sum(Pending') = Sum(Pending) - Pending[t] + Pending'[t]
      /\ Sum(Late') = Sum(Late) - Late[t] + Late'[t]
      /\ \A u \in Threads : u # t => Ahead'[u] = Ahead[u] /\ Pending'[u] = Pending[u]
  BY SumsMove
<1>4. SizeInv /\ CurrentInv /\ WindowInv /\ PreviousInv /\ UnusedInv
  BY DEF BoundInv
<1>5. SizeInv'
  <2>1. CASE file_size' <= Limit
    <3>1. (Inv /\ Threads # {} /\ file_size <= Limit)' => SizeInv'
      BY SmallFile, PTL
    <3>2. QED
      BY <2>1, <3>1
  <2>2. CASE file_size' + Pending'[t] + prev_ref' + FailsToCome'
               <= file_size + Pending[t] + prev_ref + FailsToCome
    BY <1>1, <1>2, <1>3, <1>4, <2>2 DEF SizeInv
  <2>3. QED
    BY <2>1, <2>2 DEF Quiet
<1>6. Ahead'[t] - Ahead[t] <= file_size' + Pending'[t] - file_size - Pending[t]
  BY DEF Quiet
<1>7. fptr \in Handles \union {Null} /\ prev_fptr \in Handles \union {Null}
  BY DEF Inv, TypeOK
<1>8. CurrentInv'
  <2> SUFFICES ASSUME fptr # Null
               PROVE  bytes[fptr] + Sum(Ahead') <= Forgotten + file_size' + Sum(Pending')
    BY DEF CurrentInv, Forgotten, N
  <2>1. bytes[fptr] \in Nat /\ bytes[fptr] + Sum(Ahead) <= Forgotten + file_size + Sum(Pending)
    BY <1>1, <1>4, <1>7 DEF CurrentInv
  <2>2. QED
    BY <1>1, <1>2, <1>3, <1>6, <2>1
<1>9. WindowInv'
  <2> SUFFICES ASSUME NEW r \in Threads, pc'[r] = "reset"
               PROVE  /\ bytes[fptr] + Sum(Ahead') <= file_size' + Sum(Pending')
                      /\ bytes[fptr] + Sum(Ahead') - Ahead'[r] <= Forgotten
    BY DEF WindowInv, Forgotten, N
  <2>1. r # t /\ pc[r] = "reset"
    BY DEF OnlyMoves, Stays
  <2>2. /\ bytes[fptr] + Sum(Ahead) <= file_size + Sum(Pending)
        /\ bytes[fptr] + Sum(Ahead) - Ahead[r] <= Forgotten
    BY <1>4, <2>1 DEF WindowInv
  <2>3. fptr \in Handles /\ bytes[fptr] \in Nat
    <3>1. Created # {} /\ fptr # Null
      BY <2>1 DEF Inv, RotationInv, OpenFiles, Created
    <3>2. QED
      BY <1>1, <1>7, <3>1
  <2>4. bytes[fptr] + Sum(Ahead') <= file_size' + Sum(Pending')
    BY <1>1, <1>2, <1>3, <1>6, <2>2, <2>3
  <2>5. CASE Ahead'[t] <= Ahead[t]
    BY <1>1, <1>2, <1>3, <2>1, <2>2, <2>3, <2>4, <2>5
  <2>6. CASE file_size' <= Limit
    <3>1. Pending'[r] = Ahead'[r]
      <4>1. len'[r] = 0
        BY DEF Inv, RotationInv
      <4>2. Pending'[r] = Ahead'[r] + len'[r]
        BY DEF Pending
      <4>3. QED
        BY <1>2, <4>1, <4>2
    <3>2. Sum(Pending') - Pending'[r] <= N * Burst - Burst
      BY AmountTypesNext, SumOfOthers
    <3>3. QED
      BY <1>1, <1>2, <2>3, <2>4, <2>6, <3>1, <3>2, ThreadCount DEF Forgotten
  <2>7. QED
    BY <2>1, <2>4, <2>5, <2>6 DEF Quiet
<1>10. PreviousInv'
  <2> SUFFICES ASSUME prev_fptr # Null
               PROVE  bytes[prev_fptr] + Sum(Late') <= Forgotten + Counted
    BY DEF PreviousInv, Forgotten, Counted, N
  <2>1. bytes[prev_fptr] \in Nat /\ bytes[prev_fptr] + Sum(Late) <= Forgotten + Counted
    BY <1>1, <1>4, <1>7 DEF PreviousInv
  <2>2. Late'[t] <= Late[t]
    BY DEF Quiet
  <2>3. QED
    BY <1>1, <1>2, <1>3, <2>1, <2>2
<1>11. UnusedInv'
  BY <1>4 DEF UnusedInv
<1>12. QED
  BY <1>5, <1>8, <1>9, <1>10, <1>11 DEF BoundInv

\* The amounts of a thread before and after a step.
Behind(label, count) ==
  IF label \notin Looking THEN count ELSE IF count = 0 THEN 0 ELSE count - 1

LEMMA Values ==
  ASSUME NEW t \in Threads
  PROVE  /\ Ahead[t] = Behind(pc[t], cnt[t]) /\ Ahead'[t] = Behind(pc'[t], cnt'[t])
         /\ Pending[t] = Behind(pc[t], cnt[t]) + len[t]
         /\ Pending'[t] = Behind(pc'[t], cnt'[t]) + len'[t]
         /\ Late[t] = IF pc[t] = "write" /\ arg[t] = prev_fptr THEN cnt[t] ELSE 0
         /\ Late'[t] = IF pc'[t] = "write" /\ arg'[t] = prev_fptr' THEN cnt'[t] ELSE 0
  BY DEF Ahead, Pending, Late, Behind

\* What a thread has in its buffer, and where the handle is.
LEMMA ThreadTypes ==
  ASSUME Inv, NEW t \in Threads
  PROVE  /\ cnt[t] \in Nat /\ len[t] \in Nat /\ file_size \in Nat /\ prev_ref \in Nat
         /\ cnt[t] <= Burst
         /\ pc[t] # "write" => len[t] = 0
         /\ pc[t] # "create" => fptr # Null /\ fptr \in Handles /\ fptr # prev_fptr
         /\ pc[t] \in Inside => /\ file_lock = t
                                /\ \A r \in Threads : pc[r] = "reset" => r = t
         /\ t # Nobody
<1>1. TypeOK /\ RotationInv
  BY DEF Inv
<1>2. cnt[t] \in 0 .. Burst /\ len[t] \in 0 .. Burst
  BY <1>1 DEF TypeOK
<1>3. pc[t] # "create" => fptr # Null /\ fptr \in Handles /\ fptr # prev_fptr
  BY <1>1 DEF RotationInv, OpenFiles, Created, TypeOK
<1>4. pc[t] \in Inside => file_lock = t /\ \A r \in Threads : pc[r] = "reset" => r = t
  BY <1>1 DEF RotationInv, Inside
<1>5. QED
  BY <1>1, <1>2, <1>3, <1>4, ThreadCount, RotationAssumption DEF TypeOK, RotationInv

\* A step outside of the critical section does not end a call.
LEMMA SameFails ==
  ASSUME Inv, NEW t \in Threads, OnlyMoves(t), UNCHANGED file_lock,
         pc[t] \in Inside <=> pc'[t] \in Inside
  PROVE  FailsToCome' = FailsToCome
<1>1. file_lock \in Threads \union {Nobody}
  BY DEF Inv, TypeOK
<1>2. MayStillFail' <=> MayStillFail
  BY <1>1 DEF MayStillFail, OnlyMoves, Stays
<1>3. QED
  BY <1>2 DEF FailsToCome

LEMMA BoundLog ==
  ASSUME Inv, Inv', BoundInv, NEW t \in Threads, Log(t) \/ Timer(t)
  PROVE  BoundInv'
<1>1. TypeOK
  BY DEF Inv
<1>2. /\ UNCHANGED <<fptr, prev_fptr, open, bytes, file_size, file_lock, prev_ref>>
      /\ pc[t] = "loop"
  BY DEF Log, Timer, At, handle, files
<1>3. /\ OnlyMoves(t) /\ len'[t] = 0
      /\ \/ pc'[t] = "write" /\ cnt'[t] = cnt[t] /\ arg'[t] = fptr
         \/ pc'[t] = "check" /\ cnt'[t] = cnt[t] + 1
         \/ pc'[t] = "hour" /\ cnt'[t] = cnt[t]
  BY <1>1, <1>2, ThreadTypes
  DEF Log, Timer, StartDrain, Goto, buffer, OnlyMoves, Stays, TypeOK
<1>4. /\ cnt[t] \in Nat /\ len[t] = 0 /\ fptr # prev_fptr
      /\ file_size \in Nat /\ prev_ref \in Nat
  BY <1>2, ThreadTypes
<1>5. Ahead'[t] = Ahead[t] /\ Pending'[t] = Pending[t] /\ Late'[t] = Late[t]
  BY <1>2, <1>3, <1>4, Values DEF Behind, Looking
<1>6. FailsToCome' = FailsToCome
  BY <1>2, <1>3, SameFails DEF Inside
<1>7. FailsToCome \in 0 .. 1 /\ Ahead[t] \in Nat /\ Pending[t] \in Nat /\ Late[t] \in Nat
  BY NumberTypes
<1>8. Quiet(t)
  BY <1>2, <1>4, <1>5, <1>6, <1>7 DEF Quiet
<1>9. QED
  BY <1>2, <1>3, <1>8, QuietStep

LEMMA BoundAddSize ==
  ASSUME Inv, Inv', BoundInv, NEW t \in Threads, AddSize(t)
  PROVE  BoundInv'
<1>1. TypeOK
  BY DEF Inv
<1>2. /\ UNCHANGED <<fptr, prev_fptr, open, bytes, file_lock, prev_ref>>
      /\ pc[t] = "write" /\ cnt[t] = 0 /\ file_size' = file_size + len[t]
  BY DEF AddSize, At, handle, files
<1>3. /\ OnlyMoves(t) /\ len'[t] = 0
      /\ \/ pc'[t] = "check" /\ cnt'[t] = 1
         \/ pc'[t] = "hour" /\ cnt'[t] = 0
  BY <1>1, <1>2 DEF AddSize, Return, Goto, OnlyMoves, Stays, TypeOK
<1>4. len[t] \in Nat /\ file_size \in Nat /\ prev_ref \in Nat
  BY ThreadTypes
<1>5. /\ Ahead'[t] = Ahead[t] /\ Ahead[t] = 0 /\ Pending'[t] = 0 /\ Pending[t] = len[t]
      /\ Late'[t] = Late[t]
  BY <1>2, <1>3, <1>4, Values DEF Behind, Looking
<1>6. FailsToCome' = FailsToCome
  BY <1>2, <1>3, SameFails DEF Inside
<1>7. FailsToCome \in 0 .. 1 /\ Late[t] \in Nat
  BY NumberTypes
<1>8. Quiet(t)
  BY <1>2, <1>4, <1>5, <1>6, <1>7 DEF Quiet
<1>9. QED
  BY <1>2, <1>3, <1>8, QuietStep

\* Where a thread looks at the size, it goes on only if the file is still small.
LEMMA BoundCheck ==
  ASSUME Inv, Inv', BoundInv, NEW t \in Threads, Check(t) \/ Hour(t)
  PROVE  BoundInv'
<1>1. TypeOK
  BY DEF Inv
<1>2. /\ UNCHANGED <<fptr, prev_fptr, open, bytes, file_size, file_lock, prev_ref>>
      /\ pc[t] \in {"check", "hour"}
  BY DEF Check, Hour, At, handle, files
<1>3. /\ OnlyMoves(t) /\ len'[t] = len[t] /\ cnt'[t] = cnt[t]
      /\ \/ pc[t] = "check" /\ pc'[t] = "enter"
         \/ pc[t] = "check" /\ pc'[t] = "loop" /\ file_size <= Limit
         \/ pc[t] = "hour" /\ pc'[t] \in {"enter", "loop"}
  BY <1>1, <1>2, ThreadCount DEF Check, Hour, At, Goto, buffer, OnlyMoves, Stays, TypeOK
<1>4. cnt[t] \in Nat /\ len[t] = 0 /\ file_size \in Nat /\ prev_ref \in Nat
  BY <1>2, ThreadTypes
<1>5. Pending'[t] - Pending[t] = Ahead'[t] - Ahead[t] /\ Late'[t] = Late[t]
  BY <1>2, <1>3, <1>4, Values DEF Behind, Looking
<1>6. Ahead'[t] <= Ahead[t] \/ file_size' <= Limit
  BY <1>2, <1>3, <1>4, Values DEF Behind, Looking
<1>7. FailsToCome' = FailsToCome
  BY <1>2, <1>3, SameFails DEF Inside
<1>8. /\ FailsToCome \in 0 .. 1 /\ Ahead[t] \in Nat /\ Pending[t] \in Nat /\ Late[t] \in Nat
      /\ Ahead'[t] \in Nat /\ Pending'[t] \in Nat
  BY NumberTypes, NumberTypesNext
<1>9. Quiet(t)
  BY <1>2, <1>4, <1>5, <1>6, <1>7, <1>8 DEF Quiet
<1>10. QED
  BY <1>2, <1>3, <1>9, QuietStep

LEMMA BoundLock ==
  ASSUME Inv, Inv', BoundInv, NEW t \in Threads, Lock(t)
  PROVE  BoundInv'
<1>1. TypeOK
  BY DEF Inv
<1>2. /\ UNCHANGED <<fptr, prev_fptr, open, bytes, file_size, prev_ref>>
      /\ pc[t] = "enter" /\ file_lock = Nobody /\ file_lock' = t
  BY DEF Lock, At, handle, files
<1>3. OnlyMoves(t) /\ len'[t] = len[t] /\ cnt'[t] = cnt[t] /\ pc'[t] = "dir"
  BY <1>1 DEF Lock, Goto, buffer, OnlyMoves, Stays, TypeOK
<1>4. cnt[t] \in Nat /\ len[t] = 0 /\ file_size \in Nat /\ prev_ref \in Nat
  BY <1>2, ThreadTypes
<1>5. Ahead'[t] = Ahead[t] /\ Pending'[t] = Pending[t] /\ Late'[t] = Late[t]
  BY <1>2, <1>3, <1>4, Values DEF Behind, Looking
<1>6. FailsToCome' = FailsToCome
  BY <1>2, <1>3 DEF FailsToCome, MayStillFail, Inside
<1>7. FailsToCome \in 0 .. 1 /\ Ahead[t] \in Nat /\ Pending[t] \in Nat /\ Late[t] \in Nat
  BY NumberTypes
<1>8. Quiet(t)
  BY <1>2, <1>4, <1>5, <1>6, <1>7 DEF Quiet
<1>9. QED
  BY <1>2, <1>3, <1>8, QuietStep

\* A call that fails lets its thread log one more line, but no other call will.
LEMMA BoundDirFails ==
  ASSUME Inv, Inv', BoundInv, NEW t \in Threads, DirFails(t)
  PROVE  BoundInv'
<1>1. TypeOK
  BY DEF Inv
<1>2. /\ UNCHANGED <<fptr, prev_fptr, open, bytes, file_size, file_lock, prev_ref>>
      /\ pc[t] = "dir" /\ MayFail
  BY DEF DirFails, At, handle, files
<1>3. OnlyMoves(t) /\ len'[t] = len[t] /\ cnt'[t] = cnt[t] /\ pc'[t] = "loop"
  BY <1>1 DEF DirFails, Goto, buffer, OnlyMoves, Stays, TypeOK
<1>4. /\ cnt[t] \in Nat /\ len[t] = 0 /\ file_size \in Nat /\ prev_ref \in Nat
      /\ file_lock = t /\ t # Nobody /\ \A r \in Threads : pc[r] # "reset"
  BY <1>2, ThreadTypes DEF Inside
<1>5. /\ Pending'[t] - Pending[t] = Ahead'[t] - Ahead[t] /\ Late'[t] = Late[t]
      /\ Pending'[t] <= Pending[t] + 1
  <2>1. /\ Ahead[t] = (IF cnt[t] = 0 THEN 0 ELSE cnt[t] - 1) /\ Pending[t] = Ahead[t] + len[t]
        /\ Ahead'[t] = cnt[t] /\ Pending'[t] = cnt[t] + len[t]
        /\ Late'[t] = 0 /\ Late[t] = 0
    BY <1>2, <1>3, Values DEF Behind, Looking
  <2>2. QED
    BY <1>4, <2>1
<1>6. FailsToCome = 1 /\ FailsToCome' = 0
  BY <1>2, <1>3, <1>4 DEF FailsToCome, MayStillFail, Inside
<1>7. /\ Ahead[t] \in Nat /\ Pending[t] \in Nat /\ Late[t] \in Nat
      /\ Ahead'[t] \in Nat /\ Pending'[t] \in Nat
  BY NumberTypes, NumberTypesNext
<1>8. Quiet(t)
  BY <1>2, <1>4, <1>5, <1>6, <1>7 DEF Quiet
<1>9. QED
  BY <1>2, <1>3, <1>8, QuietStep

\* A call that moves its thread over lets it log one more line, but there are only
\* prev_ref of them.
LEMMA BoundMoveOver ==
  ASSUME Inv, Inv', BoundInv, NEW t \in Threads, MoveOver(t)
  PROVE  BoundInv'
<1>1. TypeOK
  BY DEF Inv
<1>2. /\ UNCHANGED <<fptr, prev_fptr, open, bytes, file_size, file_lock>>
      /\ pc[t] = "dir" /\ prev_ref' = prev_ref - 1
  BY DEF MoveOver, At, files
<1>3. OnlyMoves(t) /\ len'[t] = len[t] /\ cnt'[t] = cnt[t] /\ pc'[t] = "close"
  BY <1>1 DEF MoveOver, Goto, buffer, OnlyMoves, Stays, TypeOK
<1>4. /\ cnt[t] \in Nat /\ len[t] = 0 /\ file_size \in Nat /\ prev_ref \in Nat
      /\ \A r \in Threads : pc[r] # "reset"
  BY <1>2, ThreadTypes DEF Inside
<1>5. /\ Pending'[t] - Pending[t] = Ahead'[t] - Ahead[t] /\ Late'[t] = Late[t]
      /\ Pending'[t] <= Pending[t] + 1
  <2>1. /\ Ahead[t] = (IF cnt[t] = 0 THEN 0 ELSE cnt[t] - 1) /\ Pending[t] = Ahead[t] + len[t]
        /\ Ahead'[t] = cnt[t] /\ Pending'[t] = cnt[t] + len[t]
        /\ Late'[t] = 0 /\ Late[t] = 0
    BY <1>2, <1>3, Values DEF Behind, Looking
  <2>2. QED
    BY <1>4, <2>1
<1>6. FailsToCome' = FailsToCome
  BY <1>2, <1>3, SameFails DEF Inside
<1>7. /\ FailsToCome \in 0 .. 1 /\ Ahead[t] \in Nat /\ Pending[t] \in Nat /\ Late[t] \in Nat
      /\ Ahead'[t] \in Nat /\ Pending'[t] \in Nat
  BY NumberTypes, NumberTypesNext
<1>8. Quiet(t)
  BY <1>2, <1>4, <1>5, <1>6, <1>7 DEF Quiet
<1>9. QED
  BY <1>2, <1>3, <1>8, QuietStep

\* A line reaches the current file, the previous one, or no file that is open.
LEMMA BoundWrite ==
  ASSUME Inv, Inv', BoundInv, NEW t \in Threads, Write(t)
  PROVE  BoundInv'
<1>1. TypeOK
  BY DEF Inv
<1>2. /\ UNCHANGED <<fptr, prev_fptr, open, file_size, file_lock, prev_ref>>
      /\ pc[t] = "write" /\ cnt[t] > 0
      /\ bytes' = IF arg[t] \in open THEN [bytes EXCEPT ![arg[t]] = @ + 1] ELSE bytes
  BY DEF Write, At, handle
<1>3. /\ OnlyMoves(t) /\ len'[t] = len[t] + 1 /\ cnt'[t] = cnt[t] - 1
      /\ pc'[t] = "write" /\ arg'[t] = arg[t]
  BY <1>1, <1>2 DEF Write, OnlyMoves, Stays, TypeOK
<1>4. /\ cnt[t] \in Nat /\ len[t] \in Nat /\ file_size \in Nat /\ prev_ref \in Nat
      /\ fptr \in Handles /\ fptr # prev_fptr
  BY <1>2, ThreadTypes
<1>5. /\ Ahead'[t] = Ahead[t] - 1 /\ Pending'[t] = Pending[t]
      /\ arg[t] = prev_fptr => Late'[t] = Late[t] - 1
      /\ arg[t] # prev_fptr => Late'[t] = Late[t]
  BY <1>2, <1>3, <1>4, Values DEF Behind, Looking
<1>6. FailsToCome' = FailsToCome
  BY <1>2, <1>3, SameFails DEF Inside
<1>7. /\ Sum(Ahead) \in Nat /\ Sum(Pending) \in Nat /\ Sum(Late) \in Nat
      /\ FailsToCome \in 0 .. 1 /\ Forgotten \in Int /\ Counted \in Int
      /\ \A h \in Handles : bytes[h] \in Nat
      /\ \A u \in Threads : Ahead[u] \in Nat /\ Pending[u] \in Nat /\ Late[u] \in Nat
  BY NumberTypes
<1>8. /\ Sum(Ahead') = Sum(Ahead) - 1
      /\ Sum(Pending') = Sum(Pending)
      /\ arg[t] = prev_fptr => Sum(Late') = Sum(Late) - 1
      /\ arg[t] # prev_fptr => Sum(Late') = Sum(Late)
      /\ \A u \in Threads : u # t => Ahead'[u] = Ahead[u]
  <2>1. /\ Sum(Ahead') = Sum(Ahead) - Ahead[t] + Ahead'[t]
        /\ Sum(Pending') = Sum(Pending) - Pending[t] + Pending'[t]
        /\ Sum(Late') = Sum(Late) - Late[t] + Late'[t]
        /\ \A u \in Threads : u # t => Ahead'[u] = Ahead[u]
    BY <1>2, <1>3, SumsMove
  <2>2. QED
    BY <1>5, <1>7, <2>1
<1>9. SizeInv /\ CurrentInv /\ WindowInv /\ PreviousInv /\ UnusedInv
  BY DEF BoundInv
<1>10. bytes \in [Handles -> Nat] /\ open \subseteq Handles /\ prev_fptr \in Handles \union {Null}
  BY <1>1 DEF TypeOK
<1>11. /\ bytes'[fptr] <= bytes[fptr] + 1
       /\ prev_fptr # Null /\ arg[t] # prev_fptr => bytes'[prev_fptr] = bytes[prev_fptr]
       /\ prev_fptr # Null => bytes'[prev_fptr] <= bytes[prev_fptr] + 1
       /\ \A h \in Handles \ open : bytes'[h] = bytes[h]
       /\ bytes'[fptr] \in Nat
       /\ prev_fptr # Null => bytes'[prev_fptr] \in Nat
  BY <1>2, <1>4, <1>7, <1>10
<1>12. SizeInv'
  BY <1>2, <1>6, <1>8, <1>9 DEF SizeInv, Counted, N
<1>13. CurrentInv'
  <2>1. bytes[fptr] + Sum(Ahead) <= Forgotten + file_size + Sum(Pending)
    BY <1>4, <1>9, RotationAssumption DEF CurrentInv
  <2>2. bytes'[fptr] + Sum(Ahead') <= Forgotten + file_size + Sum(Pending')
    BY <1>4, <1>7, <1>8, <1>11, <2>1
  <2>3. QED
    BY <1>2, <2>2 DEF CurrentInv, Forgotten, N
<1>14. WindowInv'
  <2> SUFFICES ASSUME NEW r \in Threads, pc'[r] = "reset"
               PROVE  /\ bytes'[fptr] + Sum(Ahead') <= file_size + Sum(Pending')
                      /\ bytes'[fptr] + Sum(Ahead') - Ahead'[r] <= Forgotten
    BY <1>2 DEF WindowInv, Forgotten, N
  <2>1. r # t /\ pc[r] = "reset"
    BY <1>3 DEF OnlyMoves, Stays
  <2>2. /\ bytes[fptr] + Sum(Ahead) <= file_size + Sum(Pending)
        /\ bytes[fptr] + Sum(Ahead) - Ahead[r] <= Forgotten
    BY <1>9, <2>1 DEF WindowInv
  <2>3. QED
    BY <1>4, <1>7, <1>8, <1>11, <2>1, <2>2
<1>15. PreviousInv'
  <2> SUFFICES ASSUME prev_fptr # Null
               PROVE  bytes'[prev_fptr] + Sum(Late') <= Forgotten + Counted
    BY <1>2 DEF PreviousInv, Forgotten, Counted, N
  <2>1. bytes[prev_fptr] + Sum(Late) <= Forgotten + Counted /\ bytes[prev_fptr] \in Nat
    BY <1>7, <1>9, <1>10 DEF PreviousInv
  <2>2. QED
    BY <1>7, <1>8, <1>11, <2>1
<1>16. UnusedInv'
  BY <1>2, <1>9, <1>11 DEF UnusedInv
<1>17. QED
  BY <1>12, <1>13, <1>14, <1>15, <1>16 DEF BoundInv

\* How the sums compare.
LEMMA SumsCompare ==
  Inv => /\ Sum(Ahead) <= Sum(Pending) /\ Sum(Late) <= Sum(Ahead)
         /\ \A t \in Threads : /\ Sum(Ahead) - Ahead[t] <= N * Burst - Burst
                               /\ Pending[t] <= Sum(Pending)
         /\ Threads # {} => N * Burst - Burst <= Forgotten /\ 0 <= Forgotten
<1> SUFFICES ASSUME Inv
             PROVE  /\ Sum(Ahead) <= Sum(Pending) /\ Sum(Late) <= Sum(Ahead)
                    /\ \A t \in Threads : /\ Sum(Ahead) - Ahead[t] <= N * Burst - Burst
                                          /\ Pending[t] <= Sum(Pending)
                    /\ Threads # {} => N * Burst - Burst <= Forgotten /\ 0 <= Forgotten
  OBVIOUS
<1>1. Ahead \in Amounts /\ Pending \in Amounts /\ Late \in Amounts
  BY AmountTypes
<1>2. \A t \in Threads : Ahead[t] <= Pending[t]
  BY NumberTypes DEF Pending
<1>3. \A t \in Threads : Late[t] <= Ahead[t]
  <2> SUFFICES ASSUME NEW t \in Threads PROVE Late[t] <= Ahead[t]
    OBVIOUS
  <2>1. cnt[t] \in Nat
    BY ThreadTypes
  <2>2. QED
    BY <2>1, Values DEF Behind, Looking
<1>4. Sum(Ahead) <= Sum(Pending)
  BY <1>1, <1>2, SumLeq
<1>5. Sum(Late) <= Sum(Ahead)
  BY <1>1, <1>3, SumLeq
<1>6. \A t \in Threads : Sum(Ahead) - Ahead[t] <= N * Burst - Burst
  BY <1>1, SumOfOthers
<1>7. \A t \in Threads : Pending[t] <= Sum(Pending)
  BY <1>1, SumOfOthers
<1>8. Threads # {} => N * Burst - Burst <= Forgotten /\ 0 <= Forgotten
  <2> SUFFICES ASSUME NEW t \in Threads
               PROVE  N * Burst - Burst <= Forgotten /\ 0 <= Forgotten
    OBVIOUS
  <2>1. N * Burst \in Nat /\ Sum(Ahead) - Ahead[t] <= N * Burst - Burst
    BY <1>6, NumberTypes
  <2>2. Sum(Ahead) - Ahead[t] >= 0 /\ Sum(Ahead) \in Nat /\ Ahead[t] \in Nat
    BY <1>1, NumberTypes, SumOfOthers
  <2>3. QED
    BY <2>1, <2>2, ThreadCount DEF Forgotten
<1>9. QED
  BY <1>4, <1>5, <1>6, <1>7, <1>8

LEMMA SumsCompareNext ==
  Inv' => /\ Sum(Ahead') <= Sum(Pending') /\ Sum(Late') <= Sum(Ahead')
          /\ \A t \in Threads : /\ Sum(Ahead') - Ahead'[t] <= N * Burst - Burst
                                /\ Pending'[t] <= Sum(Pending')
<1>1. Inv' => (/\ Sum(Ahead) <= Sum(Pending) /\ Sum(Late) <= Sum(Ahead)
               /\ \A t \in Threads : /\ Sum(Ahead) - Ahead[t] <= N * Burst - Burst
                                     /\ Pending[t] <= Sum(Pending)
               /\ Threads # {} => N * Burst - Burst <= Forgotten /\ 0 <= Forgotten)'
  BY SumsCompare, PTL
<1>2. QED
  BY <1>1

LEMMA BoundCreate ==
  ASSUME Inv, Inv', BoundInv, NEW t \in Threads, Create(t)
  PROVE  BoundInv'
<1>1. TypeOK
  BY DEF Inv
<1>2. /\ UNCHANGED <<prev_fptr, bytes, file_size, file_lock>>
      /\ pc[t] = "create"
  BY DEF Create, At, files, Fopen
<1>3. OnlyMoves(t) /\ len'[t] = len[t] /\ cnt'[t] = cnt[t] /\ pc'[t] = "loop"
  BY <1>1 DEF Create, Goto, buffer, OnlyMoves, Stays, TypeOK
<1>4. cnt[t] \in Nat /\ len[t] = 0 /\ file_size \in Nat /\ prev_ref \in Nat
  BY <1>2, ThreadTypes
<1>5. Ahead'[t] = Ahead[t] /\ Pending'[t] = Pending[t] /\ Late'[t] = Late[t]
  BY <1>2, <1>3, <1>4, Values DEF Behind, Looking
<1>6. FailsToCome' = FailsToCome
  BY <1>2, <1>3, SameFails DEF Inside
<1>7. /\ Sum(Ahead) \in Nat /\ Sum(Pending) \in Nat /\ Sum(Late) \in Nat
      /\ FailsToCome \in 0 .. 1 /\ Forgotten \in Int /\ Counted \in Int
      /\ Ahead[t] \in Nat /\ Pending[t] \in Nat /\ Late[t] \in Nat
  BY NumberTypes
<1>8. CASE fptr # Null
  <2>1. UNCHANGED <<fptr, prev_ref, open>>
    BY <1>8 DEF Create, files
  <2>2. Quiet(t)
    BY <1>2, <1>4, <1>5, <1>6, <1>7, <2>1 DEF Quiet
  <2>3. QED
    BY <1>2, <1>3, <2>1, <2>2, QuietStep
<1>9. CASE fptr = Null
  <2>1. PICK h \in Handles : Fopen(h) /\ fptr' = h /\ prev_ref' = 0
    BY <1>9 DEF Create
  <2>2. Created = {}
    BY <1>9 DEF Inv, RotationInv, OpenFiles
  <2>3. Sum(Ahead') = Sum(Ahead) /\ Sum(Pending') = Sum(Pending) /\ Sum(Late') = Sum(Late)
    BY <1>2, <1>3, <1>5, <1>7, SumsMove
  <2>4. SizeInv /\ PreviousInv /\ UnusedInv
    BY DEF BoundInv
  <2>5. SizeInv'
    BY <1>2, <1>4, <1>6, <1>7, <2>1, <2>3, <2>4 DEF SizeInv, Counted, N
  <2>6. CurrentInv'
    <3>1. bytes'[h] = 0
      BY <1>2, <2>1, <2>4 DEF UnusedInv, Fopen
    <3>2. Sum(Ahead) <= Sum(Pending) /\ 0 <= Forgotten
      BY SumsCompare
    <3>3. bytes'[h] + Sum(Ahead') <= Forgotten + file_size' + Sum(Pending')
      BY <1>2, <1>4, <1>7, <2>3, <3>1, <3>2
    <3>4. QED
      BY <2>1, <3>3 DEF CurrentInv, Forgotten, N
  <2>7. WindowInv'
    BY <1>3, <2>2 DEF WindowInv, Created, OnlyMoves, Stays
  <2>8. PreviousInv'
    BY <1>2, <2>3, <2>4 DEF PreviousInv, Forgotten, Counted, N
  <2>9. UnusedInv'
    BY <1>2, <2>1, <2>4 DEF UnusedInv, Fopen
  <2>10. QED
    BY <2>5, <2>6, <2>7, <2>8, <2>9 DEF BoundInv
<1>10. QED
  BY <1>8, <1>9

\* A new file is in use before file_size is zeroed; the file that was in use is now the
\* previous one.
LEMMA BoundOpenNew ==
  ASSUME Inv, Inv', BoundInv, NEW t \in Threads, OpenNew(t)
  PROVE  BoundInv'
<1>1. TypeOK
  BY DEF Inv
<1>2. /\ UNCHANGED <<bytes, file_size, file_lock, prev_ref>>
      /\ pc[t] = "dir" /\ prev_fptr' = fptr
  BY DEF OpenNew, At, files, Fopen
<1>3. OnlyMoves(t) /\ len'[t] = len[t] /\ cnt'[t] = cnt[t] /\ pc'[t] = "reset"
  BY <1>1 DEF OpenNew, Goto, buffer, OnlyMoves, Stays, TypeOK
<1>4. /\ cnt[t] \in Nat /\ len[t] = 0 /\ file_size \in Nat /\ prev_ref \in Nat
      /\ fptr # Null /\ fptr \in Handles /\ \A r \in Threads : pc[r] = "reset" => r = t
  BY <1>2, ThreadTypes DEF Inside
<1>5. Ahead'[t] = Ahead[t] /\ Pending'[t] = Pending[t]
  BY <1>2, <1>3, <1>4, Values DEF Behind, Looking
<1>6. FailsToCome' = FailsToCome
  BY <1>2, <1>3, SameFails DEF Inside
<1>7. /\ Sum(Ahead) \in Nat /\ Sum(Pending) \in Nat /\ Sum(Late') \in Nat
      /\ FailsToCome \in 0 .. 1 /\ Forgotten \in Int /\ Counted \in Int
      /\ Ahead[t] \in Nat /\ Pending[t] \in Nat /\ N * Burst \in Nat
      /\ bytes[fptr] \in Nat
  BY <1>4, NumberTypes, NumberTypesNext
<1>8. Sum(Ahead') = Sum(Ahead) /\ Sum(Pending') = Sum(Pending)
  BY <1>2, <1>3, <1>5, <1>7, SumsMove
<1>9. SizeInv /\ CurrentInv /\ UnusedInv
  BY DEF BoundInv
<1>10. PICK h \in Handles \ open : fptr' = h /\ open' = open \union {h}
  BY DEF OpenNew, Fopen
<1>11. bytes[h] = 0
  BY <1>9 DEF UnusedInv
<1>12. /\ Sum(Ahead) <= Sum(Pending) /\ Sum(Late') <= Sum(Ahead')
       /\ Sum(Ahead) - Ahead[t] <= N * Burst - Burst
       /\ N * Burst - Burst <= Forgotten /\ 0 <= Forgotten
  BY SumsCompare, SumsCompareNext
<1>13. SizeInv'
  BY <1>2, <1>6, <1>8, <1>9 DEF SizeInv, Counted, N
<1>14. CurrentInv'
  <2>1. bytes[h] + Sum(Ahead') <= Forgotten + file_size + Sum(Pending')
    BY <1>4, <1>7, <1>8, <1>11, <1>12
  <2>2. QED
    BY <1>2, <1>10, <2>1 DEF CurrentInv, Forgotten, N
<1>15. WindowInv'
  <2> SUFFICES ASSUME NEW r \in Threads, pc'[r] = "reset"
               PROVE  /\ bytes[h] + Sum(Ahead') <= file_size + Sum(Pending')
                      /\ bytes[h] + Sum(Ahead') - Ahead'[r] <= Forgotten
    BY <1>2, <1>10 DEF WindowInv, Forgotten, N
  <2>1. r = t
    BY <1>3, <1>4 DEF OnlyMoves, Stays
  <2>2. QED
    BY <1>4, <1>5, <1>7, <1>8, <1>11, <1>12, <2>1, ThreadCount
<1>16. PreviousInv'
  <2>1. bytes[fptr] + Sum(Ahead) <= Forgotten + file_size + Sum(Pending)
    BY <1>4, <1>9 DEF CurrentInv
  <2>2. file_size + Sum(Pending) <= Counted
    BY <1>4, <1>7, <1>9 DEF SizeInv
  <2>3. bytes[fptr] + Sum(Late') <= Forgotten + Counted
    BY <1>4, <1>7, <1>8, <1>12, <2>1, <2>2
  <2>4. QED
    BY <1>2, <2>3 DEF PreviousInv, Forgotten, Counted, N
<1>17. UnusedInv'
  BY <1>2, <1>9, <1>10 DEF UnusedInv
<1>18. QED
  BY <1>13, <1>14, <1>15, <1>16, <1>17 DEF BoundInv

\* The lines that reached the new file so far are forgotten.
LEMMA BoundReset ==
  ASSUME Inv, Inv', BoundInv, NEW t \in Threads, Reset(t)
  PROVE  BoundInv'
<1>1. TypeOK
  BY DEF Inv
<1>2. /\ UNCHANGED <<fptr, prev_fptr, open, bytes, file_lock>>
      /\ pc[t] = "reset" /\ file_size' = 0
  BY DEF Reset, At, files
<1>3. OnlyMoves(t) /\ len'[t] = len[t] /\ cnt'[t] = cnt[t] /\ pc'[t] = "close"
  BY <1>1 DEF Reset, Goto, buffer, OnlyMoves, Stays, TypeOK
<1>4. /\ cnt[t] \in Nat /\ len[t] = 0 /\ fptr \in Handles
      /\ \A r \in Threads : pc[r] = "reset" => r = t
  BY <1>2, ThreadTypes DEF Inside
<1>5. Pending'[t] = Ahead'[t] /\ Late'[t] = Late[t] /\ Ahead'[t] = cnt[t]
  BY <1>2, <1>3, <1>4, Values DEF Behind, Looking
<1>6. /\ Sum(Ahead) \in Nat /\ Sum(Late) \in Nat /\ Ahead[t] \in Nat /\ Late[t] \in Nat
      /\ Sum(Ahead') \in Nat /\ Sum(Pending') \in Nat /\ bytes[fptr] \in Nat
      /\ Forgotten \in Int
  BY <1>4, NumberTypes, NumberTypesNext
<1>7. Sum(Ahead') = Sum(Ahead) - Ahead[t] + Ahead'[t] /\ Sum(Late') = Sum(Late)
  BY <1>2, <1>3, <1>5, <1>6, SumsMove
<1>8. WindowInv /\ PreviousInv /\ UnusedInv
  BY DEF BoundInv
<1>9. SizeInv'
  <2>1. (Inv /\ Threads # {} /\ file_size <= Limit)' => SizeInv'
    BY SmallFile, PTL
  <2>2. file_size' <= Limit
    BY <1>2, ThreadCount
  <2>3. QED
    BY <2>1, <2>2
<1>10. CurrentInv'
  <2>1. bytes[fptr] + Sum(Ahead) - Ahead[t] <= Forgotten
    BY <1>2, <1>8 DEF WindowInv
  <2>2. Pending'[t] <= Sum(Pending')
    BY SumsCompareNext
  <2>3. bytes[fptr] + Sum(Ahead') <= Forgotten + 0 + Sum(Pending')
    BY <1>4, <1>5, <1>6, <1>7, <2>1, <2>2
  <2>4. QED
    BY <1>2, <2>3 DEF CurrentInv, Forgotten, N
<1>11. WindowInv'
  BY <1>3, <1>4 DEF WindowInv, OnlyMoves, Stays
<1>12. PreviousInv'
  BY <1>2, <1>7, <1>8 DEF PreviousInv, Forgotten, Counted, N
<1>13. UnusedInv'
  BY <1>2, <1>8 DEF UnusedInv
<1>14. QED
  BY <1>9, <1>10, <1>11, <1>12, <1>13 DEF BoundInv

\* The previous file is closed, or not yet.
LEMMA BoundClose ==
  ASSUME Inv, Inv', BoundInv, NEW t \in Threads, Close(t)
  PROVE  BoundInv'
<1>1. TypeOK
  BY DEF Inv
<1>2. /\ UNCHANGED <<fptr, file_size, prev_ref>>
      /\ pc[t] = "close" /\ file_lock' = Nobody
  BY DEF Close, At
<1>3. OnlyMoves(t) /\ len'[t] = len[t] /\ cnt'[t] = cnt[t] /\ pc'[t] = "loop"
  BY <1>1 DEF Close, Goto, buffer, OnlyMoves, Stays, TypeOK
<1>4. /\ cnt[t] \in Nat /\ len[t] = 0 /\ file_size \in Nat /\ prev_ref \in Nat
      /\ fptr \in Handles /\ fptr # Null /\ fptr # prev_fptr /\ file_lock = t /\ t # Nobody
      /\ \A r \in Threads : pc[r] = "reset" => r = t
  BY <1>2, ThreadTypes DEF Inside
<1>5. Ahead'[t] = Ahead[t] /\ Pending'[t] = Pending[t] /\ Late'[t] = Late[t]
  BY <1>2, <1>3, <1>4, Values DEF Behind, Looking
<1>6. FailsToCome' = FailsToCome
  BY <1>2, <1>3, <1>4 DEF FailsToCome, MayStillFail, Inside
<1>7. /\ Sum(Ahead) \in Nat /\ Sum(Pending) \in Nat /\ Sum(Late) \in Nat
      /\ Ahead[t] \in Nat /\ Pending[t] \in Nat /\ Late[t] \in Nat
  BY NumberTypes
<1>8. /\ Sum(Ahead') = Sum(Ahead) /\ Sum(Pending') = Sum(Pending)
      /\ prev_fptr' = prev_fptr => Sum(Late') = Sum(Late)
  BY <1>2, <1>3, <1>5, <1>7, SumsMove
<1>9. SizeInv /\ CurrentInv /\ PreviousInv /\ UnusedInv
  BY DEF BoundInv
<1>10. bytes \in [Handles -> Nat] /\ open \subseteq Handles
  BY <1>1 DEF TypeOK
<1>11. /\ bytes'[fptr] = bytes[fptr]
       /\ \/ UNCHANGED <<open, bytes, prev_fptr>>
          \/ prev_fptr' = Null /\ \A h \in Handles \ open' : h = prev_fptr \/ h \notin open
       /\ \A h \in Handles \ open' :
            \/ h = prev_fptr /\ bytes'[h] = 0
            \/ h \notin open /\ bytes'[h] = bytes[h]
  <2>1. CASE prev_ref = 0
    <3>1. /\ open' = open \ {prev_fptr} /\ prev_fptr' = Null
          /\ bytes' = [bytes EXCEPT ![prev_fptr] = 0]
      BY <2>1 DEF Close
    <3>2. QED
      BY <1>4, <1>10, <3>1
  <2>2. CASE prev_ref # 0
    BY <1>10, <2>2 DEF Close, files
  <2>3. QED
    BY <2>1, <2>2
<1>12. SizeInv'
  BY <1>2, <1>6, <1>8, <1>9 DEF SizeInv, Counted, N
<1>13. CurrentInv'
  BY <1>2, <1>8, <1>9, <1>11 DEF CurrentInv, Forgotten, N
<1>14. WindowInv'
  BY <1>3, <1>4 DEF WindowInv, OnlyMoves, Stays
<1>15. PreviousInv'
  BY <1>8, <1>9, <1>11 DEF PreviousInv, Forgotten, Counted, N
<1>16. UnusedInv'
  BY <1>9, <1>11 DEF UnusedInv
<1>17. QED
  BY <1>12, <1>13, <1>14, <1>15, <1>16 DEF BoundInv

LEMMA BoundSame ==
  ASSUME BoundInv, UNCHANGED <<file_lock, handle, file_size, files, pc, buffer>>
  PROVE  BoundInv'
<1>1. Ahead' = Ahead /\ Late' = Late
  BY DEF Ahead, Late, handle, buffer
<1>2. Pending' = Pending
  BY <1>1 DEF Pending, buffer
<1>3. FailsToCome' = FailsToCome
  BY DEF FailsToCome, MayStillFail
<1>4. UNCHANGED <<fptr, prev_fptr, prev_ref, file_size, open, bytes, pc>>
  BY DEF handle, files
<1>5. QED
  BY <1>1, <1>2, <1>3, <1>4
  DEF BoundInv, SizeInv, CurrentInv, WindowInv, PreviousInv, UnusedInv, Forgotten, Counted, N

-----------------------------------------------------------------------------
(* The bound.                                                              *)

LEMMA BoundInit == Init => BoundInv
<1> SUFFICES ASSUME Init, NEW t \in Threads
             PROVE  SizeInv /\ CurrentInv /\ WindowInv /\ PreviousInv /\ UnusedInv
  BY DEF BoundInv
<1>1. Inv
  BY InvInit
<1>2. SizeInv
  BY <1>1, SmallFile, ThreadCount DEF Init
<1>3. QED
  BY <1>2 DEF Init, CurrentInv, WindowInv, PreviousInv, UnusedInv

LEMMA BoundNext == Inv /\ BoundInv /\ [Next]_vars => BoundInv'
<1> SUFFICES ASSUME Inv, BoundInv, [Next]_vars PROVE BoundInv'
  OBVIOUS
<1>1. Inv'
  BY InvNext
<1>2. CASE UNCHANGED vars
  BY <1>2, BoundSame DEF vars
<1>3. ASSUME NEW t \in Threads, Step(t) PROVE BoundInv'
  <2>1. CASE Create(t)
    BY <1>1, <2>1, BoundCreate
  <2>2. CASE Log(t) \/ Timer(t)
    BY <1>1, <2>2, BoundLog
  <2>3. CASE Drain(t)
    BY <1>1, <2>3, BoundWrite, BoundAddSize DEF Drain
  <2>4. CASE Check(t) \/ Hour(t)
    BY <1>1, <2>4, BoundCheck
  <2>5. CASE Rotate(t)
    BY <1>1, <2>5, BoundLock, BoundOpenNew, BoundReset, BoundMoveOver, BoundClose DEF Rotate
  <2>6. CASE DirFails(t)
    BY <1>1, <2>6, BoundDirFails
  <2>7. CASE CreateFails(t) \/ OpenNewFails(t)
    BY <2>7, BoundSame DEF CreateFails, OpenNewFails, Exit
  <2>8. QED
    BY <1>3, <2>1, <2>2, <2>3, <2>4, <2>5, <2>6, <2>7 DEF Step, Fail
<1>4. QED
  BY <1>2, <1>3 DEF Next

\* However many threads share the handle, whatever they write and whenever they look at
\* file_size, a file ends at most this far above the configured size (drain_write_buffer,
\* set_json_file_ptr, set_temp_file_ptr).
THEOREM FilesAreBounded == Spec => []FileBounded
<1>1. Inv /\ BoundInv => FileBounded
  <2> SUFFICES ASSUME Inv, BoundInv, NEW h \in open
               PROVE  bytes[h] <= 2 * Limit + (2 * N - 1) * Burst + N - 1
                                    + (IF MayFail THEN 1 ELSE 0)
    BY DEF FileBounded, N
  <2>1. open = {fptr, prev_fptr} \ {Null} /\ h # Null /\ h \in Handles
    BY RotationAssumption DEF Inv, RotationInv, OpenFiles, TypeOK
  <2>2. Threads # {}
    <3>1. SUFFICES ASSUME Threads = {} PROVE FALSE
      OBVIOUS
    <3>2. Created = {} /\ Cardinality(Created) = 0
      BY <3>1, FS_EmptySet DEF Created
    <3>3. fptr = Null /\ (prev_fptr # Null => prev_ref > 0)
      BY <3>1, <3>2 DEF Inv, RotationInv, OpenFiles
    <3>4. ref + prev_ref = 0 /\ ref \in Nat /\ prev_ref \in Nat
      BY <3>2 DEF Inv, RotationInv, RefsConserved, TypeOK
    <3>5. prev_ref = 0
      BY <3>4
    <3>6. QED
      BY <2>1, <3>3, <3>5
  <2>3. SizeInv /\ CurrentInv /\ PreviousInv
    BY <2>2 DEF BoundInv
  <2>4. /\ Sum(Ahead) \in Nat /\ Sum(Pending) \in Nat /\ Sum(Late) \in Nat
        /\ file_size \in Nat /\ prev_ref \in Nat /\ FailsToCome \in 0 .. 1
        /\ Forgotten \in Int /\ Counted \in Int /\ bytes[h] \in Nat
    BY <2>1, NumberTypes
  <2>5. bytes[h] <= Forgotten + Counted
    <3>1. CASE h = fptr
      <4>1. bytes[h] + Sum(Ahead) <= Forgotten + file_size + Sum(Pending)
        BY <2>1, <2>3, <3>1 DEF CurrentInv
      <4>2. file_size + Sum(Pending) + prev_ref + FailsToCome <= Counted
        BY <2>3 DEF SizeInv
      <4>3. QED
        BY <2>4, <4>1, <4>2
    <3>2. CASE h = prev_fptr
      <4>1. bytes[h] + Sum(Late) <= Forgotten + Counted
        BY <2>1, <2>3, <3>2 DEF PreviousInv
      <4>2. QED
        BY <2>4, <4>1
    <3>3. QED
      BY <2>1, <3>1, <3>2
  <2>6. (2 * N - 1) * Burst = N * Burst + N * Burst - Burst
    BY ThreadCount
  <2>7. N * Burst \in Nat
    BY NumberTypes
  <2>8. QED
    BY <2>4, <2>5, <2>6, <2>7, ThreadCount DEF Forgotten, Counted
<1>2. QED
  BY <1>1, InvAlways, BoundInit, BoundNext, PTL DEF Spec
=============================================================================
