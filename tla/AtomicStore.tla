---------------------------- MODULE AtomicStore ----------------------------
(***************************************************************************)
(* What the session store promises to the session manager: each operation  *)
(* takes effect at one moment between its call and its return, or fails    *)
(* without effect, and a crash keeps what has taken effect.                *)
(***************************************************************************)
CONSTANTS Procs, Keys, Values, None

Ops == [kind : {"load", "delete"}, key : Keys, value : {None}]
         \cup [kind : {"save"}, key : Keys, value : Values]

VARIABLES records, \* the record of each key
          called,  \* the operation each caller waits for, until it takes effect
          reply    \* what it returns afterwards

vars == <<records, called, reply>>

Init == /\ records = [k \in Keys |-> None]
        /\ called = [p \in Procs |-> None]
        /\ reply = [p \in Procs |-> None]

Call(p, o) == /\ called[p] = None
              /\ called' = [called EXCEPT ![p] = o]
              /\ reply' = [reply EXCEPT ![p] = None]
              /\ UNCHANGED records

\* The contents after operation o, and the answer o gives.
After(o, c) == IF o.kind = "load" THEN c ELSE [c EXCEPT ![o.key] = o.value]
Answer(o, c) == IF o.kind = "load" THEN c[o.key] ELSE "done"

TakeEffect(p) == /\ called[p] # None
                 /\ records' = After(called[p], records)
                 /\ reply' = [reply EXCEPT ![p] = Answer(called[p], records)]
                 /\ called' = [called EXCEPT ![p] = None]

Fail(p) == /\ called[p] # None
           /\ reply' = [reply EXCEPT ![p] = "failed"]
           /\ called' = [called EXCEPT ![p] = None]
           /\ UNCHANGED records

Crash == /\ called' = [p \in Procs |-> None]
         /\ reply' = [p \in Procs |-> None]
         /\ UNCHANGED records

Next == \/ \E p \in Procs : (\E o \in Ops : Call(p, o)) \/ TakeEffect(p) \/ Fail(p)
        \/ Crash

Spec == Init /\ [][Next]_vars
=============================================================================
