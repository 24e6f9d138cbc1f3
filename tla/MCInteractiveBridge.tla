------------------------ MODULE MCInteractiveBridge ------------------------
(* Instances of InteractiveBridge for TLC.                                 *)
EXTENDS InteractiveBridge

CONSTANTS u1, u2, p1, p2, t1, c1, call

MCKind == [x \in Ids |-> CASE x \in {u1, u2} -> "user_input"
                           [] x \in {p1, p2} -> "permission"
                           [] OTHER -> "tool"]
\* The permission p1 is asked for the call that t1 executes, p2 for none.
MCCall == [x \in Ids |-> IF x \in {p1, t1} THEN call ELSE None]
=============================================================================
