-------------------------- MODULE MCSessionManager --------------------------
(* Instances of SessionManager for TLC.                                    *)
EXTENDS SessionManager, TLC

CONSTANTS r1, r2, l1, k1, k2

\* All keys belong to one API key.
MCNamespace == [k \in Keys |-> "first"]

\* The requests and the keys of one namespace are interchangeable.
ReqSymmetry == Permutations(Reqs)
TenantSymmetry == Permutations(Reqs) \cup Permutations({k1, k2})
=============================================================================
