----------------------------- MODULE FileStore -----------------------------
(***************************************************************************)
(* The store of session records (src/internal/session/store.go): one file  *)
(* that every Save and Delete reads, changes in memory and replaces by     *)
(* renaming a temporary file, under one mutex per process.  A step is one  *)
(* system call or one operation on the mutex.                              *)
(***************************************************************************)
CONSTANTS
  Procs,   \* goroutines that use the store
  Keys,
  Values,  \* StoredSession values
  Absent,  \* the file does not exist
  Torn,    \* a file whose content cannot be parsed
  None

Contents == [Keys -> Values \cup {None}]
Empty == [k \in Keys |-> None]
Ops == [kind : {"load", "delete"}, key : Keys, value : {None}]
         \cup [kind : {"save"}, key : Keys, value : Values]

ASSUME ConstantsAssumption ==
  /\ None \notin Procs \cup Values \cup Contents \cup Ops
  /\ {Absent, Torn} \cap Contents = {} /\ Absent # Torn /\ None \notin {Absent, Torn}

VARIABLES
  pc, op, local, \* per goroutine: control point, operation, map of records
  answer,        \* what its operation is about to return, or returned
  mutex,         \* the holder of FileStore.mu
  temp,          \* the temporary file of each goroutine, or None
  file           \* what is at FileStore.path

vars == <<pc, op, local, answer, mutex, temp, file>>

Writing == {"create", "write", "close", "rename"}
Points == {"idle", "lock", "read", "return"} \cup Writing

Init ==
  /\ pc = [p \in Procs |-> "idle"]
  /\ op = [p \in Procs |-> None]
  /\ local = [p \in Procs |-> Empty]
  /\ answer = [p \in Procs |-> None]
  /\ mutex = None
  /\ temp = [p \in Procs |-> None]
  /\ file = Absent

Goto(p, point) == pc' = [pc EXCEPT ![p] = point]

\* The operation is on its way out with this answer; what is deferred follows.
Return(p, value) == /\ Goto(p, "return")
                    /\ answer' = [answer EXCEPT ![p] = value]

-----------------------------------------------------------------------------
Call(p, o) ==
  /\ pc[p] = "idle"
  /\ Goto(p, "lock")
  /\ op' = [op EXCEPT ![p] = o]
  /\ answer' = [answer EXCEPT ![p] = None]
  /\ UNCHANGED <<local, mutex, temp, file>>

\* Faulty: every goroutine has a mutex of its own.
LockNothing(p) ==
  /\ pc[p] = "lock"
  /\ mutex' = p
  /\ Goto(p, "read")
  /\ UNCHANGED <<op, local, answer, temp, file>>

Lock(p) ==
  /\ pc[p] = "lock"
  /\ mutex = None
  /\ mutex' = p
  /\ Goto(p, "read")
  /\ UNCHANGED <<op, local, answer, temp, file>>

\* The map readAllLocked returns: an empty one for a file that does not exist.
Records(content) == IF content = Absent THEN Empty ELSE content

\* readAllLocked fails, or Load answers, or Delete finds nothing to delete, or
\* the map is changed in memory.
Read(p) ==
  LET o == op[p]
      records == Records(file)
  IN
  /\ pc[p] = "read"
  /\ \/ Return(p, "failed") /\ UNCHANGED local
     \/ /\ file # Torn /\ o.kind = "load"
        /\ Return(p, records[o.key])
        /\ UNCHANGED local
     \/ /\ file # Torn /\ o.kind = "delete" /\ records[o.key] = None
        /\ Return(p, "done")
        /\ UNCHANGED local
     \/ /\ file # Torn /\ (o.kind = "delete" => records[o.key] # None) /\ o.kind # "load"
        /\ local' = [local EXCEPT ![p] = [records EXCEPT ![o.key] = o.value]]
        /\ Goto(p, "create")
        /\ UNCHANGED answer
  /\ UNCHANGED <<op, mutex, temp, file>>

\* The directory, the encoding and the temporary file, any of which may fail.
Create(p) ==
  /\ pc[p] = "create"
  /\ \/ Return(p, "failed") /\ UNCHANGED temp
     \/ /\ temp' = [temp EXCEPT ![p] = Torn]
        /\ Goto(p, "write")
        /\ UNCHANGED answer
  /\ UNCHANGED <<op, local, mutex, file>>

Write(p) ==
  /\ pc[p] = "write"
  /\ \/ Return(p, "failed") /\ UNCHANGED temp
     \/ /\ temp' = [temp EXCEPT ![p] = local[p]]
        /\ Goto(p, "close")
        /\ UNCHANGED answer
  /\ UNCHANGED <<op, local, mutex, file>>

Close(p) ==
  /\ pc[p] = "close"
  /\ Return(p, "failed") \/ (Goto(p, "rename") /\ UNCHANGED answer)
  /\ UNCHANGED <<op, local, mutex, temp, file>>

Rename(p) ==
  /\ pc[p] = "rename"
  /\ \/ Return(p, "failed") /\ UNCHANGED <<temp, file>>
     \/ /\ file' = temp[p]
        /\ temp' = [temp EXCEPT ![p] = None]
        /\ Return(p, "done")
  /\ UNCHANGED <<op, local, mutex>>

\* Faulty: a failed operation returns with the mutex.
FinishFailedLocked(p) ==
  /\ pc[p] = "return"
  /\ temp' = [temp EXCEPT ![p] = None]
  /\ mutex' = IF answer[p] = "failed" THEN mutex ELSE None
  /\ local' = [local EXCEPT ![p] = Empty]
  /\ op' = [op EXCEPT ![p] = None]
  /\ Goto(p, "idle")
  /\ UNCHANGED <<answer, file>>

\* What is deferred: the temporary file, if it is still there, is removed, and
\* the mutex is unlocked.
Finish(p) ==
  /\ pc[p] = "return"
  /\ temp' = [temp EXCEPT ![p] = None]
  /\ mutex' = None
  /\ local' = [local EXCEPT ![p] = Empty]
  /\ op' = [op EXCEPT ![p] = None]
  /\ Goto(p, "idle")
  /\ UNCHANGED <<answer, file>>

\* The process dies and starts again.  Its temporary file stays, and is never
\* opened again.
Crash ==
  /\ pc' = [p \in Procs |-> "idle"]
  /\ op' = [p \in Procs |-> None]
  /\ local' = [p \in Procs |-> Empty]
  /\ answer' = [p \in Procs |-> None]
  /\ mutex' = None
  /\ temp' = [p \in Procs |-> None]
  /\ UNCHANGED file

Step(p) == \/ Lock(p) \/ Read(p) \/ Create(p) \/ Write(p) \/ Close(p) \/ Rename(p)
           \/ Finish(p)

Next == (\E p \in Procs : (\E o \in Ops : Call(p, o)) \/ Step(p)) \/ Crash

Spec == Init /\ [][Next]_vars

\* System calls return, and a mutex of Go does not starve who waits for it.
FairSpec == Spec /\ \A p \in Procs : SF_vars(Step(p))

-----------------------------------------------------------------------------
TypeOK ==
  /\ pc \in [Procs -> Points]
  /\ op \in [Procs -> Ops \cup {None}]
  /\ local \in [Procs -> Contents]
  /\ answer \in [Procs -> Values \cup {None, "done", "failed"}]
  /\ mutex \in Procs \cup {None}
  /\ temp \in [Procs -> Contents \cup {Torn, None}]
  /\ file \in Contents \cup {Absent, Torn}

\* The store is atomic: what a goroutine reads, changes and renames back loses
\* no other goroutine's update, a failed operation leaves every record as it
\* was, and a crash at any step leaves the old file or the new one whole
\* (store.go:50-75, 103-134).
Undecided(p) == pc[p] \in {"lock", "read"} \cup Writing
Atomic == INSTANCE AtomicStore
            WITH records <- Records(file),
                 called <- [p \in Procs |-> IF Undecided(p) THEN op[p] ELSE None],
                 reply <- answer
AtomicSpec == Atomic!Spec

\* The inductive invariant: what the holder of the mutex has in memory is what
\* the file will contain, and the file is never torn.
MutexInv == \A p \in Procs :
  /\ pc[p] \in {"read", "return"} \cup Writing => mutex = p
  /\ pc[p] # "idle" => op[p] \in Ops
ContentInv ==
  /\ file # Torn
  /\ \A p \in Procs : /\ pc[p] \in Writing =>
                           /\ op[p].kind # "load"
                           /\ local[p] = [Records(file) EXCEPT ![op[p].key] = op[p].value]
                      /\ pc[p] \in {"close", "rename"} => temp[p] = local[p]
IInv == TypeOK /\ MutexInv /\ ContentInv

\* Every call of the store returns, or the process dies.
CallsReturn == \A p \in Procs : pc[p] # "idle" ~> pc[p] = "idle"
=============================================================================
