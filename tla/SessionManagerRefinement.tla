---------------------- MODULE SessionManagerRefinement ----------------------
(***************************************************************************)
(* SessionManager implements SessionLease: whatever the interleaving of    *)
(* requests, expiry, teardown, shutdown and restart, a request that is     *)
(* handed a session has its key to itself until the shutdown.              *)
(***************************************************************************)
EXTENDS SessionManagerProofs

USE ConstantsAssumption
DEF ConstantsAssumption, procVars, memVars, extVars, Goto, Finish, Current, Leased,
    Procs, Creating, TearingDown, HoldsMutex, ReqPoints

\* Reading the lease off one request.
LEMMA LeaseStutters ==
  ASSUME \A q \in Reqs : /\ Leased(q)' <=> Leased(q)
                         /\ Leased(q) => key'[q] = key[q],
         UNCHANGED shutdown
  PROVE  UNCHANGED Lease!vars
  BY DEF Lease!vars

\* A goroutine that neither gets nor had a lease does not show in the leases.
LEMMA QuietStep ==
  ASSUME NEW p, p \in Reqs => ~Leased(p) /\ ~Leased(p)',
         \A q \in Reqs : q # p => pc'[q] = pc[q] /\ key'[q] = key[q],
         UNCHANGED shutdown
  PROVE  UNCHANGED Lease!vars
<1>1. \A q \in Reqs : /\ Leased(q)' <=> Leased(q)
                      /\ Leased(q) => key'[q] = key[q]
  OBVIOUS
<1>. QED
  BY <1>1, LeaseStutters

\* A request that goes on with an entry the map still names, or after the
\* shutdown, is granted its key.
LEMMA GrantStep ==
  ASSUME IInv, NEW r \in Reqs, pc[r] \in {"recheck", "save"}, shutdown \/ Current(r),
         Goto(r, "leased"), UNCHANGED <<key, shutdown>>
  PROVE  Lease!Next
<1>1. \A q \in Reqs : Leased(q)' <=> Leased(q) \/ q = r
  BY DEF IInv, TypeOK
<1>2. ~Leased(r) /\ key[r] \in Keys
  BY DEF IInv, ControlInv
<1>3. ASSUME ~shutdown, NEW q \in Reqs, Leased(q) PROVE key[q] # key[r]
  BY <1>2, <1>3 DEF IInv, MutexInv, CurrentInv
<1>4. None \notin Keys
  OBVIOUS
<1>5. \E k \in Keys : Lease!Grant(r, k)
  <2> DEFINE lease == [q \in Reqs |-> IF Leased(q) THEN key[q] ELSE None]
  <2>1. lease[r] = None
    BY <1>2
  <2>2. shutdown \/ \A q \in Reqs : lease[q] # key[r]
    BY <1>2, <1>3, <1>4
  <2>3. \A q \in Reqs : lease'[q] = IF q = r THEN key[r] ELSE lease[q]
    BY <1>1
  <2>4. lease' = [lease EXCEPT ![r] = key[r]]
    BY <2>3
  <2>. QED
    BY <1>2, <2>1, <2>2, <2>4 DEF Lease!Grant
<1>. QED
  BY <1>5 DEF Lease!Next

\* A request that had a lease and goes on without it ends it.
LEMMA EndStep ==
  ASSUME IInv, NEW r \in Reqs, Leased(r), NEW point, Goto(r, point), point # "leased",
         \A q \in Reqs : q # r => key'[q] = key[q], UNCHANGED shutdown
  PROVE  Lease!Next
<1>1. \A q \in Reqs : Leased(q)' <=> Leased(q) /\ q # r
  BY DEF IInv, TypeOK
<1>2. key[r] \in Keys /\ None \notin Keys
  BY DEF IInv, ControlInv
<1>3. Lease!End(r)
  BY <1>1, <1>2 DEF Lease!End
<1>. QED
  BY <1>3 DEF Lease!Next

LEMMA AcquireRefines ==
  ASSUME IInv, NEW r \in Reqs, AcquireStep(r)
  PROVE  [Lease!Next]_(Lease!vars)
<1>1. CASE LeaseExisting(r)
  BY <1>1, GrantStep DEF LeaseExisting
<1>2. CASE Save(r) /\ Goto(r, "leased")
  <2>1. shutdown \/ Current(r)
    BY <1>2 DEF Save, IInv, CurrentInv
  <2>. QED
    BY <1>2, <2>1, GrantStep DEF Save
<1>3. ASSUME ~LeaseExisting(r), ~Goto(r, "leased")
      PROVE  UNCHANGED Lease!vars
  <2>1. ~Leased(r)
    BY <1>3 DEF AcquireStep, RejectSpec, FoundEntry, GiveUp, LockEntry, RetryStale,
         RejectCapacity, Insert, Load, RemoveRecord, RemoveUpstream, Resume, ForgetRecord,
         Create, Save, Cleanup
  <2>2. ~Leased(r)'
    BY <1>3 DEF AcquireStep, RejectSpec, FoundEntry, GiveUp, LockEntry, RetryStale,
         RejectCapacity, Insert, Load, RemoveRecord, RemoveUpstream, Resume, ForgetRecord,
         Create, Save, Cleanup,
         StoreDelete, UpstreamDelete, IInv, TypeOK
  <2>3. (\A q \in Reqs : q # r => pc'[q] = pc[q] /\ key'[q] = key[q]) /\ UNCHANGED shutdown
    BY <1>3 DEF AcquireStep, RejectSpec, FoundEntry, GiveUp, LockEntry, RetryStale,
         RejectCapacity, Insert, Load, RemoveRecord, RemoveUpstream, Resume, ForgetRecord,
         Create, Save, Cleanup,
         StoreDelete, UpstreamDelete, IInv, TypeOK
  <2>. QED
    BY <2>1, <2>2, <2>3, QuietStep
<1>4. CASE ~LeaseExisting(r) /\ ~Save(r) /\ Goto(r, "leased")
  BY <1>4 DEF AcquireStep, RejectSpec, FoundEntry, GiveUp, LockEntry, RetryStale,
       RejectCapacity, Insert, Load, RemoveRecord, RemoveUpstream, Resume, ForgetRecord,
       Create, Cleanup, StoreDelete, UpstreamDelete, IInv, TypeOK
<1>. QED
  BY <1>1, <1>2, <1>3, <1>4

LEMMA LeaseStepRefines ==
  ASSUME IInv, NEW r \in Reqs, LeaseStep(r)
  PROVE  Lease!Next
<1>1. PICK point \in {"idle", "destroy"} : Goto(r, point)
  BY DEF LeaseStep, Release, Discard
<1>2. Leased(r) /\ UNCHANGED shutdown /\ \A q \in Reqs : q # r => key'[q] = key[q]
  BY DEF LeaseStep, Release, Discard, IInv, TypeOK
<1>. QED
  BY <1>1, <1>2, EndStep

LEMMA DestroyStutters ==
  ASSUME IInv, NEW p \in Reqs \cup {Janitor, Closer}, DestroyStep(p)
  PROVE  UNCHANGED Lease!vars
<1>1. p \in Reqs => ~Leased(p) /\ ~Leased(p)'
  BY DEF DestroyStep, DestroyRecord, DestroyUpstream, Resumes, IInv, TypeOK
<1>2. /\ UNCHANGED shutdown
      /\ \A q \in Reqs : q # p => pc'[q] = pc[q] /\ key'[q] = key[q]
  BY DEF DestroyStep, DestroyRecord, DestroyUpstream, Resumes, IInv, TypeOK
<1>. QED
  BY <1>1, <1>2, QuietStep

LEMMA OtherStepStutters ==
  ASSUME IInv,
         NEW p \in Procs, p \in Reqs => ~Leased(p),
         \/ \E k \in Keys, s \in Specs : p \in Reqs /\ Start(p, k, s)
         \/ p \in Reqs /\ (StartEphemeral(p) \/ EphemeralStep(p))
         \/ \E k \in Keys : LookupStarts(p, k)
         \/ LookupReturns(p)
         \/ p = Janitor /\ (SweepLooks \/ Sweep \/ SweepNext \/ SweepEnds)
         \/ p = Closer /\ (Disconnect \/ CloseEnds \/ \E e \in Entries : LockForClose(e))
  PROVE  UNCHANGED Lease!vars
<1>1. p \in Reqs => ~Leased(p)'
  BY DEF Start, StartEphemeral, EphemeralStep, CreateEphemeral, EndEphemeral, LookupStarts,
         LookupReturns, SweepLooks, Sweep, SweepNext, SweepEnds, Disconnect, CloseEnds, LockForClose,
         IInv, TypeOK
<1>2. /\ UNCHANGED shutdown
      /\ \A q \in Reqs : q # p => pc'[q] = pc[q] /\ key'[q] = key[q]
  BY DEF Start, StartEphemeral, EphemeralStep, CreateEphemeral, EndEphemeral, LookupStarts,
         LookupReturns, SweepLooks, Sweep, SweepNext, SweepEnds, Disconnect, CloseEnds, LockForClose,
         IInv, TypeOK
<1>. QED
  BY <1>1, <1>2, QuietStep

LEMMA InitRefines == Init => Lease!Init
  BY DEF Init, Lease!Init

LEMMA NextRefines == IInv /\ [Next]_vars => [Lease!Next]_(Lease!vars)
<1> SUFFICES ASSUME IInv, [Next]_vars PROVE [Lease!Next]_(Lease!vars)
  OBVIOUS
<1>1. CASE UNCHANGED vars
  BY <1>1, LeaseStutters DEF vars
<1>2. ASSUME NEW r \in Reqs,
             \/ \E k \in Keys, s \in Specs : Start(r, k, s)
             \/ StartEphemeral(r)
             \/ RequestStep(r)
      PROVE  [Lease!Next]_(Lease!vars)
  <2>1. CASE AcquireStep(r)
    BY <2>1, AcquireRefines
  <2>2. CASE LeaseStep(r)
    BY <2>2, LeaseStepRefines
  <2>3. CASE DestroyStep(r)
    BY <2>3, DestroyStutters
  <2>4. CASE \/ \E k \in Keys, s \in Specs : Start(r, k, s)
             \/ StartEphemeral(r) \/ EphemeralStep(r)
    <3>1. ~Leased(r)
      BY <2>4 DEF Start, StartEphemeral, EphemeralStep, CreateEphemeral, EndEphemeral
    <3>. QED
      BY <2>4, <3>1, OtherStepStutters
  <2>. QED
    BY <1>2, <2>1, <2>2, <2>3, <2>4 DEF RequestStep
<1>3. ASSUME NEW l \in Lookers, (\E k \in Keys : LookupStarts(l, k)) \/ LookupReturns(l)
      PROVE  UNCHANGED Lease!vars
  BY <1>3, OtherStepStutters
<1>4. CASE SweepLooks \/ SweepStep
  BY <1>4, DestroyStutters, OtherStepStutters DEF SweepStep
<1>5. ASSUME NEW event, NEW point \in {"disconnecting", "closing"}, EmptyMap(event, point)
      PROVE  Lease!Next
  <2>1. ~shutdown /\ shutdown'
    BY <1>5 DEF EmptyMap, IInv, ControlInv
  <2>2. \A q \in Reqs : (Leased(q)' <=> Leased(q)) /\ key'[q] = key[q]
    BY <1>5 DEF EmptyMap, IInv, TypeOK
  <2>3. Lease!Drain
    BY <2>1, <2>2, <1>5 DEF EmptyMap, Lease!Drain
  <2>. QED
    BY <2>3 DEF Lease!Next
<1>6. ASSUME NEW e \in Entries, SkipEntry(e) PROVE UNCHANGED Lease!vars
  BY <1>6, LeaseStutters DEF SkipEntry
<1>7. CASE DisconnectStarts \/ CloseStarts \/ CloserStep
  BY <1>5, <1>6, <1>7, DestroyStutters, OtherStepStutters
     DEF DisconnectStarts, CloseStarts, CloserStep
<1>8. CASE Restart
  <2>1. Lease!Restart
    BY <1>8 DEF Restart, Lease!Restart, Lease!Init
  <2>. QED
    BY <2>1 DEF Lease!Next
<1>9. CASE Tick \/ \E k \in Keys : LateCreate(k) \/ UpstreamForgets(k)
  BY <1>9, LeaseStutters DEF Tick, LateCreate, UpstreamForgets
<1>. QED
  BY <1>1, <1>2, <1>3, <1>4, <1>7, <1>8, <1>9 DEF Next, Environment

\* The manager implements the abstract leases: no two requests hold one key
\* before the shutdown (manager.go:93-260, 403-436).
THEOREM LeaseRefinement == Spec => LeaseSpec
  BY IInvariance, InitRefines, NextRefines, PTL DEF Spec, LeaseSpec, Lease!Spec

=============================================================================
