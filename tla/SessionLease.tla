---------------------------- MODULE SessionLease ----------------------------
(***************************************************************************)
(* What the session manager promises to the request handlers, without its  *)
(* entries, mutexes and store: at most one request at a time uses a key,   *)
(* until the shutdown takes the keys away from whoever still uses them.    *)
(***************************************************************************)
CONSTANTS Reqs, Keys, None

VARIABLES lease,    \* the key each request has a lease on
          draining  \* the shutdown has begun

vars == <<lease, draining>>

Init == lease = [r \in Reqs |-> None] /\ draining = FALSE

Grant(r, k) ==
  /\ lease[r] = None
  /\ draining \/ \A q \in Reqs : lease[q] # k
  /\ lease' = [lease EXCEPT ![r] = k]
  /\ UNCHANGED draining

End(r) == /\ lease[r] # None
          /\ lease' = [lease EXCEPT ![r] = None]
          /\ UNCHANGED draining

Drain == ~draining /\ draining' = TRUE /\ UNCHANGED lease

\* A new process starts without leases.
Restart == lease' = [r \in Reqs |-> None] /\ draining' = FALSE

Next == \/ \E r \in Reqs : (\E k \in Keys : Grant(r, k)) \/ End(r)
        \/ Drain \/ Restart

Spec == Init /\ [][Next]_vars
=============================================================================
