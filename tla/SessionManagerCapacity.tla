----------------------- MODULE SessionManagerCapacity -----------------------
(***************************************************************************)
(* The session limits hold for any number of keys: an entry is inserted in *)
(* the critical section that has counted the others, and every other step  *)
(* leaves the map alone or takes entries out of it.                        *)
(***************************************************************************)
EXTENDS SessionManagerProofs, FiniteSetTheorems

USE ConstantsAssumption DEF ConstantsAssumption, procVars, memVars, extVars

\* The mapped keys of the namespace of k.
Peers(k) == {j \in MappedKeys : Namespace[j] = Namespace[k]}

CapacityInv == IsFiniteSet(MappedKeys) /\ CapacityRespected

\* Taking entries out of the map keeps the limits.
LEMMA FewerKeys ==
  ASSUME CapacityInv, \A k \in Keys : sessions'[k] \in {sessions[k], None}
  PROVE  CapacityInv'
<1>1. MappedKeys' \subseteq MappedKeys
  BY DEF MappedKeys
<1>2. ASSUME NEW S, NEW T, IsFiniteSet(T), S \subseteq T
      PROVE  IsFiniteSet(S) /\ Cardinality(S) <= Cardinality(T) /\ Cardinality(S) \in Nat
                            /\ Cardinality(T) \in Nat
  BY <1>2, FS_Subset, FS_CardinalityType
<1>3. IsFiniteSet(MappedKeys') /\ Cardinality(MappedKeys') <= Cardinality(MappedKeys)
      /\ Cardinality(MappedKeys') \in Nat /\ Cardinality(MappedKeys) \in Nat
  BY <1>1, <1>2 DEF CapacityInv
<1>4. ASSUME NEW k \in MappedKeys'
      PROVE  /\ Cardinality(Peers(k)') <= Cardinality(Peers(k))
             /\ Cardinality(Peers(k)') \in Nat /\ Cardinality(Peers(k)) \in Nat
  <2>1. Peers(k)' \subseteq Peers(k) /\ Peers(k) \subseteq MappedKeys
    BY <1>1 DEF Peers
  <2>. QED
    BY <1>2, <2>1 DEF CapacityInv
<1>5. CapacityRespected'
  <2>1. ASSUME MaxPerNamespace > 0, NEW k \in MappedKeys'
        PROVE  Cardinality(Peers(k)') <= MaxPerNamespace
    <3>1. k \in MappedKeys
      BY <1>1
    <3>2. Cardinality(Peers(k)) <= MaxPerNamespace
      BY <2>1, <3>1 DEF CapacityInv, CapacityRespected, Peers
    <3>. QED
      BY <1>4, <3>2
  <2>2. MaxActive > 0 => Cardinality(MappedKeys') <= MaxActive
    BY <1>3 DEF CapacityInv, CapacityRespected
  <2>. QED
    BY <2>1, <2>2 DEF CapacityRespected, Peers
<1>. QED
  BY <1>3, <1>5 DEF CapacityInv

\* Inserting an entry below the limits keeps them.
LEMMA InsertKeepsCapacity ==
  ASSUME CapacityInv, TypeOK, NEW r \in Reqs, key[r] \in Keys, Insert(r)
  PROVE  CapacityInv'
<1>1. PICK e \in Entries : sessions' = [sessions EXCEPT ![key[r]] = e]
  BY DEF Insert
<1>2. key[r] \notin MappedKeys /\ MappedKeys' = MappedKeys \cup {key[r]}
  BY <1>1 DEF TypeOK, MappedKeys, Insert
<1>3. ASSUME NEW S, IsFiniteSet(S), NEW x, x \notin S
      PROVE  IsFiniteSet(S \cup {x}) /\ Cardinality(S \cup {x}) = Cardinality(S) + 1
                                     /\ Cardinality(S) \in Nat
  BY <1>3, FS_AddElement, FS_CardinalityType
<1>4. HasCapacity(key[r])
  BY DEF Insert
<1>5. IsFiniteSet(MappedKeys') /\ Cardinality(MappedKeys') = Cardinality(MappedKeys) + 1
      /\ Cardinality(MappedKeys) \in Nat
  BY <1>2, <1>3 DEF CapacityInv
<1>6. MaxActive > 0 => Cardinality(MappedKeys') <= MaxActive
  BY <1>4, <1>5 DEF HasCapacity
<1>7. ASSUME MaxPerNamespace > 0, NEW k \in MappedKeys'
      PROVE  Cardinality(Peers(k)') <= MaxPerNamespace
  <2>1. CASE Namespace[k] = Namespace[key[r]]
    <3>1. Peers(k)' = Peers(key[r]) \cup {key[r]} /\ key[r] \notin Peers(key[r])
      BY <1>2, <2>1 DEF Peers
    <3>2. IsFiniteSet(Peers(key[r]))
      BY FS_Subset DEF Peers, CapacityInv
    <3>3. Cardinality(Peers(key[r])) < MaxPerNamespace
      BY <1>4, <1>7 DEF HasCapacity, Peers
    <3>4. /\ Cardinality(Peers(k)') = Cardinality(Peers(key[r])) + 1
          /\ Cardinality(Peers(key[r])) \in Nat
      BY <1>3, <3>1, <3>2
    <3>. QED
      BY <3>3, <3>4
  <2>2. CASE Namespace[k] # Namespace[key[r]]
    <3>1. k \in MappedKeys /\ Peers(k)' = Peers(k)
      BY <1>2, <2>2 DEF Peers
    <3>. QED
      BY <1>7, <3>1 DEF CapacityInv, CapacityRespected, Peers
  <2>. QED
    BY <2>1, <2>2
<1>. QED
  BY <1>5, <1>6, <1>7 DEF CapacityInv, CapacityRespected, Peers

\* Every other step of a request leaves the map alone or unmaps its entry.
LEMMA OtherStepsOnlyUnmap ==
  ASSUME TypeOK, Next, \A r \in Reqs : ~Insert(r)
  PROVE  \A k \in Keys : sessions'[k] \in {sessions[k], None}
<1>1. ASSUME NEW r \in Reqs, AcquireStep(r)
      PROVE  \A k \in Keys : sessions'[k] \in {sessions[k], None}
  BY <1>1 DEF AcquireStep, RejectSpec, FoundEntry, GiveUp, LockEntry, LeaseExisting, RetryStale,
       RejectCapacity, Load, RemoveRecord, RemoveUpstream, Resume, ForgetRecord, Create, Save,
       Cleanup, Unmap, TypeOK
<1>2. ASSUME NEW r \in Reqs, LeaseStep(r) \/ EphemeralStep(r)
      PROVE  \A k \in Keys : sessions'[k] \in {sessions[k], None}
  BY <1>2 DEF LeaseStep, Release, Discard, EphemeralStep, CreateEphemeral, EndEphemeral, Unmap,
       TypeOK
<1>3. ASSUME NEW p, DestroyStep(p)
      PROVE  \A k \in Keys : sessions'[k] \in {sessions[k], None}
  BY <1>3 DEF DestroyStep, DestroyRecord, DestroyUpstream
<1>4. ASSUME NEW r \in Reqs,
             (\E k \in Keys, s \in Specs : Start(r, k, s)) \/ StartEphemeral(r) \/ RequestStep(r)
      PROVE  \A k \in Keys : sessions'[k] \in {sessions[k], None}
  BY <1>1, <1>2, <1>3, <1>4 DEF Start, StartEphemeral, RequestStep
<1>5. CASE \E l \in Lookers : (\E k \in Keys : LookupStarts(l, k)) \/ LookupReturns(l)
  BY <1>5 DEF LookupStarts, LookupReturns
<1>6. CASE SweepLooks \/ SweepStep
  BY <1>3, <1>6 DEF SweepLooks, Sweep, SweepStep, SweepNext, SweepEnds, TypeOK
<1>7. CASE DisconnectStarts \/ CloseStarts \/ CloserStep
  BY <1>3, <1>7 DEF DisconnectStarts, CloseStarts, EmptyMap, CloserStep, SkipEntry, LockForClose,
       Disconnect, CloseEnds
<1>8. CASE Environment
  BY <1>8 DEF Environment, Tick, Restart, LateCreate, UpstreamForgets
<1>. QED
  BY <1>4, <1>5, <1>6, <1>7, <1>8 DEF Next

\* The limits are never exceeded (validateCapacityLocked, manager.go:145-157).
THEOREM LimitsHold == Spec => []CapacityRespected
<1>1. Init => CapacityInv
  <2> SUFFICES ASSUME Init PROVE CapacityInv
    OBVIOUS
  <2>1. MappedKeys = {}
    BY DEF Init, MappedKeys
  <2>2. IsFiniteSet({}) /\ Cardinality({}) = 0
    BY FS_EmptySet
  <2>. QED
    BY <2>1, <2>2 DEF CapacityInv, CapacityRespected
<1>2. IInv /\ CapacityInv /\ [Next]_vars => CapacityInv'
  <2> SUFFICES ASSUME IInv, CapacityInv, [Next]_vars PROVE CapacityInv'
    OBVIOUS
  <2>1. CASE UNCHANGED vars
    BY <2>1, FewerKeys DEF vars
  <2>2. ASSUME NEW r \in Reqs, Insert(r) PROVE CapacityInv'
    BY <2>2, InsertKeepsCapacity DEF IInv, ControlInv, Insert, Acquiring, HoldsMutex, Creating
  <2>3. CASE Next /\ \A r \in Reqs : ~Insert(r)
    BY <2>3, OtherStepsOnlyUnmap, FewerKeys DEF IInv
  <2>. QED
    BY <2>1, <2>2, <2>3
<1>3. CapacityInv => CapacityRespected
  BY DEF CapacityInv
<1>. QED
  BY <1>1, <1>2, <1>3, IInvariance, PTL DEF Spec
=============================================================================
