-------------------------- MODULE FileStoreProofs --------------------------
(***************************************************************************)
(* FileStore is an atomic store, for every set of goroutines, keys and     *)
(* values.  IInv is what makes it so: the holder of the mutex is alone     *)
(* between its read of the file and its rename, so what it renames is the  *)
(* file it read with its own record changed.                               *)
(***************************************************************************)
EXTENDS FileStore, TLAPS

\* What readAllLocked returns is a map of records, whole as the file is.
LEMMA RecordsType ==
  ASSUME NEW c \in Contents \cup {Absent}
  PROVE  Records(c) \in Contents
  BY DEF Records, Contents, Empty

LEMMA OpsType ==
  \A o \in Ops : /\ o.key \in Keys /\ o.value \in Values \cup {None}
                 /\ o.kind \in {"load", "delete", "save"}
                 /\ o.kind = "delete" => o.value = None
                 /\ o # None
  BY ConstantsAssumption DEF Ops, ConstantsAssumption

LEMMA InitIInv == Init => IInv
<1> SUFFICES ASSUME Init PROVE IInv
  OBVIOUS
<1>1. TypeOK
  BY DEF Init, TypeOK, Points, Writing, Contents, Empty
<1>2. MutexInv
  BY DEF Init, MutexInv, Writing
<1>3. ContentInv
  BY ConstantsAssumption DEF Init, ContentInv, Writing, ConstantsAssumption
<1>. QED
  BY <1>1, <1>2, <1>3 DEF IInv

LEMMA CallStep ==
  ASSUME IInv, NEW p \in Procs, NEW o \in Ops, Call(p, o)
  PROVE  IInv'
<1> USE DEF IInv, Call, Goto
<1>1. TypeOK'
  BY DEF TypeOK, Points
<1>2. MutexInv'
  BY DEF TypeOK, MutexInv, Writing
<1>3. ContentInv'
  BY DEF TypeOK, ContentInv, Writing
<1>. QED
  BY <1>1, <1>2, <1>3

LEMMA LockStep ==
  ASSUME IInv, NEW p \in Procs, Lock(p)
  PROVE  IInv'
<1> USE DEF IInv, Lock, Goto
<1>0. mutex = None /\ \A q \in Procs : q # None
  BY ConstantsAssumption DEF ConstantsAssumption
<1>1. TypeOK'
  BY DEF TypeOK, Points
<1>2. MutexInv'
  BY <1>0 DEF TypeOK, MutexInv, Writing
<1>3. ContentInv'
  BY DEF TypeOK, ContentInv, Writing
<1>. QED
  BY <1>1, <1>2, <1>3

LEMMA ReadStep ==
  ASSUME IInv, NEW p \in Procs, Read(p)
  PROVE  IInv'
<1> DEFINE o == op[p]
           changed == [Records(file) EXCEPT ![o.key] = o.value]
<1>1. o \in Ops /\ Records(file) \in Contents
  BY RecordsType DEF IInv, TypeOK, MutexInv, ContentInv, Read, Writing
<1>2. changed \in Contents /\ Records(file)[o.key] \in Values \cup {None}
  BY <1>1, OpsType DEF Contents
<1>3. \/ /\ pc' = [pc EXCEPT ![p] = "return"]
         /\ UNCHANGED local
         /\ answer' \in [Procs -> Values \cup {None, "done", "failed"}]
      \/ /\ pc' = [pc EXCEPT ![p] = "create"]
         /\ o.kind # "load"
         /\ local' = [local EXCEPT ![p] = changed]
         /\ UNCHANGED answer
  BY <1>2 DEF Read, Return, Goto, IInv, TypeOK
<1>4. pc[p] = "read" /\ UNCHANGED <<op, mutex, temp, file>>
  BY DEF Read
<1> HIDE DEF changed
<1>5. TypeOK'
  BY <1>2, <1>3, <1>4 DEF IInv, TypeOK, Points, Writing
<1>6. MutexInv'
  BY <1>3, <1>4 DEF IInv, TypeOK, MutexInv, Writing
<1>7. ContentInv'
  BY <1>3, <1>4 DEF IInv, TypeOK, ContentInv, Writing, changed
<1>. QED
  BY <1>5, <1>6, <1>7 DEF IInv

\* Create, Write and Close change nothing but the temporary file of p, which
\* holds the new map from Write on.
LEMMA WritingStep ==
  ASSUME IInv, NEW p \in Procs, Create(p) \/ Write(p) \/ Close(p)
  PROVE  IInv'
<1>1. TypeOK'
  BY DEF IInv, TypeOK, Create, Write, Close, Return, Goto, Points, Writing
<1>2. MutexInv'
  BY DEF IInv, TypeOK, MutexInv, Create, Write, Close, Return, Goto, Writing
<1>3. ContentInv'
  BY DEF IInv, TypeOK, ContentInv, Create, Write, Close, Return, Goto, Writing
<1>. QED
  BY <1>1, <1>2, <1>3 DEF IInv

LEMMA RenameStep ==
  ASSUME IInv, NEW p \in Procs, Rename(p)
  PROVE  IInv'
<1>1. /\ temp[p] = local[p] /\ local[p] \in Contents /\ Torn \notin Contents
      /\ mutex = p
  BY ConstantsAssumption DEF ConstantsAssumption, IInv, TypeOK, MutexInv, ContentInv, Rename, Writing
<1>2. \A q \in Procs : q # p => pc[q] \notin Writing
  BY <1>1 DEF IInv, MutexInv
<1>3. TypeOK'
  BY <1>1 DEF IInv, TypeOK, Rename, Return, Goto, Points
<1>4. MutexInv'
  BY DEF IInv, TypeOK, MutexInv, Rename, Return, Goto, Writing
<1>5. ContentInv'
  BY <1>1, <1>2 DEF IInv, TypeOK, ContentInv, Rename, Return, Goto, Writing
<1>. QED
  BY <1>3, <1>4, <1>5 DEF IInv

LEMMA FinishStep ==
  ASSUME IInv, NEW p \in Procs, Finish(p)
  PROVE  IInv'
<1>1. \A q \in Procs : q # p => pc[q] \notin {"read", "return"} \cup Writing
  BY DEF IInv, MutexInv, Finish
<1>2. TypeOK'
  BY DEF IInv, TypeOK, Finish, Goto, Points, Contents, Empty
<1>3. MutexInv'
  BY <1>1 DEF IInv, TypeOK, MutexInv, Finish, Goto, Writing
<1>4. ContentInv'
  BY <1>1 DEF IInv, TypeOK, ContentInv, Finish, Goto, Writing
<1>. QED
  BY <1>2, <1>3, <1>4 DEF IInv

LEMMA CrashStep ==
  ASSUME IInv, Crash
  PROVE  IInv'
  BY DEF IInv, TypeOK, MutexInv, ContentInv, Crash, Points, Writing, Contents, Empty

\* The inductive invariant: the file is never torn, and what the holder of the
\* mutex has in memory is the file with its own record changed
\* (store.go:50-75, 103-134).
THEOREM IInvariance == Spec => []IInv
<1>1. ASSUME IInv, [Next]_vars
      PROVE  IInv'
  <2>1. CASE UNCHANGED vars
    BY <1>1, <2>1 DEF vars, IInv, TypeOK, MutexInv, ContentInv
  <2>2. CASE Crash
    BY <1>1, <2>2, CrashStep
  <2>3. ASSUME NEW p \in Procs, NEW o \in Ops, Call(p, o)
        PROVE  IInv'
    BY <1>1, <2>3, CallStep
  <2>4. ASSUME NEW p \in Procs, Step(p)
        PROVE  IInv'
    BY <1>1, <2>4, LockStep, ReadStep, WritingStep, RenameStep, FinishStep DEF Step
  <2>. QED
    BY <1>1, <2>1, <2>2, <2>3, <2>4 DEF Next
<1>. QED
  BY InitIInv, <1>1, PTL DEF Spec

\* Who has the mutex is on the way to Finish, and so is every temporary file.
NothingIsKept ==
  /\ mutex # None => pc[mutex] \in {"read", "return"} \cup Writing
  /\ \A p \in Procs : temp[p] # None => mutex = p

LEMMA NothingIsKeptStep ==
  ASSUME IInv, NothingIsKept, [Next]_vars
  PROVE  NothingIsKept'
<1>1. CASE UNCHANGED vars
  BY <1>1 DEF vars, NothingIsKept
<1>2. CASE Crash
  BY <1>2 DEF Crash, NothingIsKept
<1>3. ASSUME NEW p \in Procs, NEW o \in Ops, Call(p, o) PROVE NothingIsKept'
  <2>1. pc' = [pc EXCEPT ![p] = "lock"] /\ pc[p] = "idle" /\ UNCHANGED <<mutex, temp>>
    BY <1>3 DEF Call, Goto
  <2>. QED
    BY <2>1 DEF NothingIsKept, IInv, TypeOK, Writing
<1>4. ASSUME NEW p \in Procs, Lock(p) PROVE NothingIsKept'
  <2>1. pc' = [pc EXCEPT ![p] = "read"] /\ mutex = None /\ mutex' = p /\ UNCHANGED temp
    BY <1>4 DEF Lock, Goto
  <2>. QED
    BY <2>1, ConstantsAssumption DEF NothingIsKept, IInv, TypeOK, ConstantsAssumption
<1>5. ASSUME NEW p \in Procs, Read(p) \/ Create(p) \/ Write(p) \/ Close(p) \/ Rename(p)
      PROVE  NothingIsKept'
  <2>1. /\ mutex = p /\ UNCHANGED mutex
        /\ pc'[p] \in {"return"} \cup Writing
        /\ \A q \in Procs : q # p => temp'[q] = temp[q]
    BY <1>5 DEF Read, Create, Write, Close, Rename, Return, Goto, IInv, TypeOK, MutexInv, Writing
  <2>. QED
    BY <2>1 DEF NothingIsKept
<1>6. ASSUME NEW p \in Procs, Finish(p) PROVE NothingIsKept'
  <2>1. mutex = p /\ mutex' = None /\ temp' = [temp EXCEPT ![p] = None]
    BY <1>6 DEF Finish, IInv, MutexInv
  <2>. QED
    BY <2>1 DEF NothingIsKept, IInv, TypeOK
<1>. QED
  BY <1>1, <1>2, <1>3, <1>4, <1>5, <1>6 DEF Next, Step

\* Whatever fails, an operation that has the mutex or a temporary file is at a
\* step from which it still gives them back (store.go:36-75, 103-134).
THEOREM NothingIsLeftBehind == Spec => []NothingIsKept
<1>1. Init => NothingIsKept
  BY DEF Init, NothingIsKept
<1>. QED
  BY <1>1, NothingIsKeptStep, IInvariance, PTL DEF Spec

-----------------------------------------------------------------------------
(* The refinement.                                                         *)

LEMMA InitRefines == Init => Atomic!Init
  BY DEF Init, Atomic!Init, Undecided, Writing, Records, Empty

\* An operation that is about to return "failed" has had no effect.
LEMMA FailRefines ==
  ASSUME IInv, NEW p \in Procs, Undecided(p), pc[p] # "lock",
         Return(p, "failed"), UNCHANGED <<op, file>>
  PROVE  Atomic!Fail(p)
<1>1. op[p] # None
  BY OpsType DEF IInv, MutexInv, Undecided, Writing
<1>. QED
  BY <1>1 DEF IInv, TypeOK, Return, Goto, Undecided, Writing, Atomic!Fail

\* An operation takes effect when it decides on another answer.
LEMMA EffectRefines ==
  ASSUME IInv, NEW p \in Procs, Undecided(p), pc[p] # "lock", UNCHANGED op,
         NEW value, Return(p, value), value = Atomic!Answer(op[p], Records(file)),
         Records(file)' = Atomic!After(op[p], Records(file))
  PROVE  Atomic!TakeEffect(p)
<1>1. op[p] # None
  BY OpsType DEF IInv, MutexInv, Undecided, Writing
<1>. QED
  BY <1>1 DEF IInv, TypeOK, Return, Goto, Undecided, Writing, Atomic!TakeEffect

LEMMA ReadRefines ==
  ASSUME IInv, NEW p \in Procs, Read(p)
  PROVE  [Atomic!Next]_Atomic!vars
<1> DEFINE records == Records(file)
<1>1. Undecided(p) /\ pc[p] = "read" /\ op[p] \in Ops /\ records \in Contents
      /\ UNCHANGED <<op, mutex, temp, file>>
  BY RecordsType DEF IInv, TypeOK, MutexInv, ContentInv, Read, Undecided, Writing
<1>2. CASE Return(p, "failed")
  BY <1>1, <1>2, FailRefines DEF Atomic!Next
<1>3. CASE op[p].kind = "load" /\ Return(p, records[op[p].key])
  BY <1>1, <1>3, EffectRefines DEF Atomic!Next, Atomic!After, Atomic!Answer
<1>4. CASE op[p].kind = "delete" /\ records[op[p].key] = None /\ Return(p, "done")
  <2>1. records = [records EXCEPT ![op[p].key] = op[p].value]
    BY <1>1, <1>4, OpsType DEF Contents
  <2>. QED
    BY <1>1, <1>4, <2>1, EffectRefines DEF Atomic!Next, Atomic!After, Atomic!Answer
<1>5. CASE Goto(p, "create") /\ UNCHANGED answer
  BY <1>1, <1>5 DEF IInv, TypeOK, Goto, Undecided, Writing, Atomic!vars
<1>. QED
  BY <1>2, <1>3, <1>4, <1>5 DEF Read

LEMMA RenameRefines ==
  ASSUME IInv, NEW p \in Procs, Rename(p)
  PROVE  Atomic!Next
<1>1. Undecided(p) /\ pc[p] = "rename" /\ op[p].kind # "load" /\ UNCHANGED op
  BY DEF IInv, ContentInv, Rename, Undecided, Writing
<1>2. CASE Return(p, "failed") /\ UNCHANGED <<temp, file>>
  BY <1>1, <1>2, FailRefines DEF Atomic!Next
<1>3. CASE file' = temp[p] /\ Return(p, "done")
  <2>1. /\ temp[p] = [Records(file) EXCEPT ![op[p].key] = op[p].value]
        /\ temp[p] # Absent
    BY <1>1, ConstantsAssumption DEF ConstantsAssumption, IInv, TypeOK, ContentInv, Writing
  <2>. QED
    BY <1>1, <1>3, <2>1, EffectRefines DEF Atomic!Next, Atomic!After, Atomic!Answer, Records
<1>. QED
  BY <1>2, <1>3 DEF Rename

\* The other steps of a goroutine before its answer are not seen, nor is what
\* it does after it.
LEMMA SilentRefines ==
  ASSUME IInv, NEW p \in Procs, Lock(p) \/ Create(p) \/ Write(p) \/ Close(p) \/ Finish(p)
  PROVE  [Atomic!Next]_Atomic!vars
<1>1. UNCHANGED file
  BY DEF Lock, Create, Write, Close, Finish
<1>2. CASE Return(p, "failed") /\ pc[p] \in Writing /\ UNCHANGED op
  BY <1>1, <1>2, FailRefines DEF Atomic!Next, Undecided, Writing
<1>3. CASE UNCHANGED <<op, answer>> /\ Undecided(p) /\ \E c \in {"read"} \cup Writing : Goto(p, c)
  BY <1>1, <1>3 DEF IInv, TypeOK, Goto, Undecided, Writing, Atomic!vars
<1>4. CASE Finish(p)
  BY <1>1, <1>4 DEF IInv, TypeOK, Finish, Goto, Undecided, Writing, Atomic!vars
<1>. QED
  BY <1>2, <1>3, <1>4 DEF Lock, Create, Write, Close, Undecided, Writing

LEMMA StepRefines ==
  ASSUME IInv, [Next]_vars
  PROVE  [Atomic!Next]_Atomic!vars
<1>1. CASE UNCHANGED vars
  BY <1>1 DEF vars, Undecided, Writing, Records, Atomic!vars
<1>2. CASE Crash
  BY <1>2 DEF Crash, Undecided, Writing, Atomic!Next, Atomic!Crash
<1>3. ASSUME NEW p \in Procs, NEW o \in Ops, Call(p, o)
      PROVE  Atomic!Next
  <2>1. Atomic!Call(p, o)
    BY <1>3 DEF IInv, TypeOK, Call, Goto, Undecided, Writing, Atomic!Call
  <2>. QED
    BY <2>1 DEF Atomic!Next, Atomic!Ops, Ops
<1>4. ASSUME NEW p \in Procs, Step(p)
      PROVE  [Atomic!Next]_Atomic!vars
  BY <1>4, ReadRefines, RenameRefines, SilentRefines DEF Step
<1>. QED
  BY <1>1, <1>2, <1>3, <1>4 DEF Next

\* The store is atomic for every number of goroutines, keys and values: no
\* update is lost, a failed operation changes nothing, and a crash at any step
\* leaves the old records or the new ones whole (store.go:36-75, 103-134).
THEOREM Refinement == Spec => AtomicSpec
<1>1. AtomicSpec <=> Atomic!Init /\ [][Atomic!Next]_Atomic!vars
  BY DEF AtomicSpec, Atomic!Spec
<1>. QED
  BY <1>1, InitRefines, StepRefines, IInvariance, PTL DEF Spec
=============================================================================
