------------------------ MODULE SessionManagerProofs ------------------------
(***************************************************************************)
(* The safety of SessionManager for every set of requests, keys, entries   *)
(* and specifications, every limit and every combination of events.        *)
(*                                                                         *)
(* IInv is inductive.  Each lemma below takes the steps of one kind of     *)
(* goroutine; IInvariance puts them together.  RecordInv, at the end, adds *)
(* what is durable of an open session where nothing is torn down.          *)
(***************************************************************************)
EXTENDS SessionManager, TLAPS

-----------------------------------------------------------------------------
(* The operators the actions are built from.                               *)

LEMMA EntryType ==
  ASSUME NEW k \in Keys \cup {None}, NEW s \in Specs \cup {None},
         NEW sess \in {"none", "open", "closed"}, NEW ready \in BOOLEAN, NEW age \in 0..TTL
  PROVE  Entry(k, s, sess, ready, age) \in EntryRecords
  BY DEF Entry, EntryRecords

LEMMA FieldsType ==
  ASSUME NEW v \in EntryRecords
  PROVE  /\ v.key \in Keys \cup {None} /\ v.spec \in Specs \cup {None}
         /\ v.sess \in {"none", "open", "closed"} /\ v.ready \in BOOLEAN /\ v.age \in 0..TTL
  BY DEF EntryRecords

LEMMA VacantType == \A b \in BOOLEAN : Vacant(b) \in EntryRecords
  BY ConstantsAssumption, EntryType DEF ConstantsAssumption, Vacant

LEMMA BlankType == Blank \in EntryRecords /\ Blank.key = None /\ Blank.sess = "none"
  BY VacantType DEF Blank, Vacant, Entry

LEMMA NewEntryType ==
  ASSUME NEW k \in Keys, NEW s \in Specs
  PROVE  /\ NewEntry(k, s) \in EntryRecords
         /\ NewEntry(k, s).key = k /\ NewEntry(k, s).spec = s
         /\ NewEntry(k, s).sess = "none"
<1>1. TTL \in 0..TTL
  BY ConstantsAssumption DEF ConstantsAssumption
<1>2. NewEntry(k, s) \in EntryRecords
  BY <1>1, EntryType DEF NewEntry
<1>. QED
  BY <1>2 DEF NewEntry, Entry

\* Saturated ages stay in their range.
LEMMA OlderAgeType == \A a \in 0..TTL : OlderAge(a) \in 0..TTL
  BY ConstantsAssumption DEF ConstantsAssumption, OlderAge

\* The updates of an entry keep it well typed, and its key and specification.
LEMMA UpdateType ==
  ASSUME NEW v \in EntryRecords,
         NEW w \in {Ready(v), Touched(v), Opened(v), Spoiled(v), Closed(v), Older(v)}
  PROVE  w \in EntryRecords /\ w.key = v.key /\ w.spec = v.spec
<1>0. 0 \in 0..TTL
  BY ConstantsAssumption DEF ConstantsAssumption
<1>1. Ready(v) \in EntryRecords
  BY FieldsType, EntryType DEF Ready
<1>2. Touched(v) \in EntryRecords
  BY <1>0, FieldsType, EntryType DEF Touched
<1>3. Opened(v) \in EntryRecords
  BY <1>0, FieldsType, EntryType DEF Opened
<1>4. Spoiled(v) \in EntryRecords
  BY <1>0, FieldsType, EntryType DEF Spoiled
<1>5. Closed(v) \in EntryRecords
  BY FieldsType, EntryType DEF Closed
<1>6. Older(v) \in EntryRecords
  BY FieldsType, EntryType, OlderAgeType DEF Older
<1>7. w.key = v.key /\ w.spec = v.spec
  BY DEF Ready, Touched, Opened, Spoiled, Closed, Older, Entry
<1>. QED
  BY <1>1, <1>2, <1>3, <1>4, <1>5, <1>6, <1>7

LEMMA UpdateSess ==
  ASSUME NEW v \in EntryRecords
  PROVE  /\ Ready(v).sess = v.sess /\ Touched(v).sess = v.sess /\ Older(v).sess = v.sess
         /\ Opened(v).sess = "open"
         /\ Spoiled(v).sess = "closed" /\ Closed(v).sess # "open"
  BY DEF EntryRecords, Ready, Touched, Opened, Spoiled, Closed, Older, Entry

\* What is left of an entry is well typed, and vacant or all of it; of a mapped
\* entry it is all.
LEMMA LeftType ==
  ASSUME NEW e, NEW v \in EntryRecords
  PROVE  /\ Left(e, v) \in EntryRecords
         /\ Left(e, v) = v \/ Left(e, v).key = None
         /\ \A k \in Keys : sessions'[k] = e => Left(e, v) = v
<1>1. v.ready \in BOOLEAN
  BY FieldsType
<1>2. Vacant(v.ready) \in EntryRecords /\ Vacant(v.ready).key = None
  BY <1>1, VacantType DEF Vacant, Entry
<1>. QED
  BY <1>2 DEF Left

LEMMA InitIInv == Init => IInv
<1> SUFFICES ASSUME Init PROVE IInv
  OBVIOUS
<1> USE DEF Init
<1>1. TypeOK
  BY BlankType DEF TypeOK, ReqPoints
<1>2. ControlInv
  BY DEF ControlInv, Procs, ReqPoints, TearingDown, HoldsMutex, Creating
<1>3. MutexInv
  BY DEF MutexInv, NoAbandonedMutex, Procs, TearingDown, HoldsMutex, Creating
<1>4. MapInv
  BY DEF MapInv, Procs, TearingDown
<1>5. EntryInv /\ CurrentInv
  BY DEF EntryInv, OwnEntry, AwaitedEntry, LeasedOpen, MappedOpen, CurrentInv,
         Procs, Leased, Creating
<1>. QED
  BY <1>1, <1>2, <1>3, <1>4, <1>5 DEF IInv

USE ConstantsAssumption
DEF ConstantsAssumption, procVars, memVars, extVars, Goto, Finish, Unlock, Current, Leased,
    Procs, Creating, TearingDown, HoldsMutex, Acquiring, ReqPoints, Records, Specs

-----------------------------------------------------------------------------
(* The steps of a request up to the insertion of an entry.                 *)

LEMMA StartStep == ASSUME IInv, NEW r \in Reqs, NEW k \in Keys, NEW s \in Specs, Start(r, k, s) PROVE IInv'
  BY DEF IInv, TypeOK, ControlInv, MutexInv, NoAbandonedMutex, MapInv,
           EntryInv, OwnEntry, AwaitedEntry, LeasedOpen, MappedOpen, CurrentInv, EntryRecords, Start

LEMMA RejectSpecStep ==
  ASSUME IInv, NEW r \in Reqs, RejectSpec(r)
  PROVE  IInv'
<1>1. TypeOK'
  BY DEF IInv, TypeOK, ControlInv, EntryRecords, RejectSpec
<1>2. ControlInv'
  BY DEF IInv, TypeOK, ControlInv, RejectSpec
<1>3. MutexInv'
  BY DEF IInv, TypeOK, ControlInv, MutexInv, NoAbandonedMutex, RejectSpec
<1>4. MapInv'
  BY DEF IInv, TypeOK, ControlInv, MutexInv, NoAbandonedMutex, MapInv, RejectSpec
<1>5. EntryInv'
  BY DEF IInv, TypeOK, ControlInv, MutexInv, NoAbandonedMutex, MapInv,
           EntryInv, OwnEntry, AwaitedEntry, LeasedOpen, MappedOpen, CurrentInv, RejectSpec
<1>6. CurrentInv'
  BY DEF IInv, TypeOK, ControlInv, MutexInv, NoAbandonedMutex, MapInv,
           EntryInv, OwnEntry, AwaitedEntry, LeasedOpen, MappedOpen, CurrentInv, RejectSpec
<1>. QED
  BY <1>1, <1>2, <1>3, <1>4, <1>5, <1>6 DEF IInv

LEMMA FoundEntryStep ==
  ASSUME IInv, NEW r \in Reqs, FoundEntry(r)
  PROVE  IInv'
<1>1. TypeOK'
  BY DEF IInv, TypeOK, ControlInv, EntryRecords, FoundEntry
<1>2. ControlInv'
  BY DEF IInv, TypeOK, ControlInv, FoundEntry
<1>3. MutexInv'
  BY DEF IInv, TypeOK, ControlInv, MutexInv, NoAbandonedMutex, FoundEntry
<1>4. MapInv'
  BY DEF IInv, TypeOK, ControlInv, MutexInv, NoAbandonedMutex, MapInv, FoundEntry
<1>5. EntryInv'
  BY DEF IInv, TypeOK, ControlInv, MutexInv, NoAbandonedMutex, MapInv,
           EntryInv, OwnEntry, AwaitedEntry, LeasedOpen, MappedOpen, CurrentInv, FoundEntry
<1>6. CurrentInv'
  BY DEF IInv, TypeOK, ControlInv, MutexInv, NoAbandonedMutex, MapInv,
           EntryInv, OwnEntry, AwaitedEntry, LeasedOpen, MappedOpen, CurrentInv, FoundEntry
<1>. QED
  BY <1>1, <1>2, <1>3, <1>4, <1>5, <1>6 DEF IInv

LEMMA GiveUpStep ==
  ASSUME IInv, NEW r \in Reqs, GiveUp(r)
  PROVE  IInv'
<1>1. \A e \in Entries : owner[e] # r
  BY DEF IInv, TypeOK, ControlInv, MutexInv, NoAbandonedMutex, GiveUp
<1>2. TypeOK'
  BY DEF IInv, TypeOK, ControlInv, EntryRecords, GiveUp
<1>3. ControlInv'
  BY DEF IInv, TypeOK, ControlInv, GiveUp
<1>4. MutexInv'
  BY <1>1 DEF IInv, TypeOK, ControlInv, MutexInv, NoAbandonedMutex, GiveUp
<1>5. MapInv'
  BY DEF IInv, TypeOK, ControlInv, MutexInv, NoAbandonedMutex, MapInv, GiveUp
<1>6. EntryInv'
  BY DEF IInv, TypeOK, ControlInv, MutexInv, NoAbandonedMutex, MapInv,
           EntryInv, OwnEntry, AwaitedEntry, LeasedOpen, MappedOpen, CurrentInv, GiveUp
<1>7. CurrentInv'
  BY DEF IInv, TypeOK, ControlInv, MutexInv, NoAbandonedMutex, MapInv,
           EntryInv, OwnEntry, AwaitedEntry, LeasedOpen, MappedOpen, CurrentInv, GiveUp
<1>. QED
  BY <1>2, <1>3, <1>4, <1>5, <1>6, <1>7 DEF IInv

LEMMA LockEntryStep == ASSUME IInv, NEW r \in Reqs, LockEntry(r) PROVE IInv'
  BY DEF IInv, TypeOK, ControlInv, MutexInv, NoAbandonedMutex, MapInv,
           EntryInv, OwnEntry, AwaitedEntry, LeasedOpen, MappedOpen, CurrentInv, EntryRecords, LockEntry

LEMMA LeaseExistingStep ==
  ASSUME IInv, NEW r \in Reqs, LeaseExisting(r)
  PROVE  IInv'
<1>1. /\ ent[r] \in Entries /\ key[r] \in Keys /\ spec[r] \in Specs /\ owner[ent[r]] = r
      /\ heap[ent[r]] \in EntryRecords
  BY DEF IInv, TypeOK, ControlInv, MutexInv, LeaseExisting
<1>2. PICK w \in EntryRecords :
        /\ heap' = [heap EXCEPT ![ent[r]] = w]
        /\ w.key = heap[ent[r]].key /\ w.spec = heap[ent[r]].spec /\ w.sess = heap[ent[r]].sess
  BY <1>1, UpdateType, UpdateSess DEF LeaseExisting
<1>3. heap[ent[r]].key = key[r]
  BY <1>1 DEF IInv, TypeOK, MapInv, LeaseExisting
<1>4. heap[ent[r]].spec = spec[r] /\ heap[ent[r]].sess = "open"
  BY <1>1, <1>3 DEF IInv, EntryInv, AwaitedEntry, MappedOpen, LeaseExisting
<1>5. \A q \in Reqs : pc[q] \in HoldsMutex /\ q # r => ent[q] # ent[r]
  BY <1>1 DEF IInv, MutexInv
<1>6. TypeOK'
  BY <1>1, <1>2 DEF IInv, TypeOK, ControlInv, LeaseExisting
<1>7. ControlInv'
  BY <1>1 DEF IInv, TypeOK, ControlInv, LeaseExisting
<1>8. MutexInv'
  BY <1>1 DEF IInv, TypeOK, ControlInv, MutexInv, NoAbandonedMutex, LeaseExisting
<1>9. MapInv'
  BY <1>1, <1>2 DEF IInv, TypeOK, ControlInv, MutexInv, NoAbandonedMutex, MapInv, LeaseExisting
<1>10. EntryInv'
  BY <1>1, <1>2, <1>3, <1>4, <1>5 DEF IInv, TypeOK, ControlInv, MutexInv, NoAbandonedMutex, MapInv,
           EntryInv, OwnEntry, AwaitedEntry, LeasedOpen, MappedOpen, CurrentInv, LeaseExisting
<1>11. CurrentInv'
  BY DEF IInv, TypeOK, ControlInv, MutexInv, NoAbandonedMutex, MapInv,
           EntryInv, OwnEntry, AwaitedEntry, LeasedOpen, MappedOpen, CurrentInv, LeaseExisting
<1>. QED
  BY <1>6, <1>7, <1>8, <1>9, <1>10, <1>11 DEF IInv

LEMMA RetryStaleStep ==
  ASSUME IInv, NEW r \in Reqs, RetryStale(r)
  PROVE  IInv'
<1>1. /\ ent[r] \in Entries /\ key[r] \in Keys /\ spec[r] \in Specs /\ owner[ent[r]] = r
      /\ heap[ent[r]] \in EntryRecords
  BY DEF IInv, TypeOK, ControlInv, MutexInv, RetryStale
<1>2. PICK w \in EntryRecords :
        /\ heap' = [heap EXCEPT ![ent[r]] = w]
        /\ w.key # None \/ (\E k \in Keys : sessions'[k] = ent[r]) =>
             /\ w.key = heap[ent[r]].key /\ w.spec = heap[ent[r]].spec
             /\ w.sess = heap[ent[r]].sess
  <2> DEFINE v == heap[ent[r]]
             w == Left(ent[r], v)
  <2>1. /\ v \in EntryRecords /\ v.sess = heap[ent[r]].sess
        /\ v.key = heap[ent[r]].key /\ v.spec = heap[ent[r]].spec
    BY <1>1
  <2>2. /\ w \in EntryRecords
        /\ w = v \/ w.key = None
        /\ \A k \in Keys : sessions'[k] = ent[r] => w = v
    BY <2>1, LeftType
  <2>3. heap' = [heap EXCEPT ![ent[r]] = w]
    BY DEF RetryStale, SetLeft
  <2> HIDE DEF v, w
  <2>. QED
    BY <2>1, <2>2, <2>3
<1>3. \A q \in Reqs : pc[q] \in HoldsMutex /\ q # r => ent[q] # ent[r]
  BY <1>1 DEF IInv, MutexInv
<1>4. TypeOK'
  BY <1>1, <1>2 DEF IInv, TypeOK, ControlInv, RetryStale
<1>5. ControlInv'
  BY <1>1 DEF IInv, TypeOK, ControlInv, RetryStale
<1>6. MutexInv'
  BY <1>1 DEF IInv, TypeOK, ControlInv, MutexInv, NoAbandonedMutex, RetryStale
<1>7. MapInv'
  BY <1>1, <1>2 DEF IInv, TypeOK, ControlInv, MutexInv, NoAbandonedMutex, MapInv, RetryStale
<1>8. EntryInv'
  BY <1>1, <1>2, <1>3 DEF IInv, TypeOK, ControlInv, MutexInv, NoAbandonedMutex, MapInv,
           EntryInv, OwnEntry, AwaitedEntry, LeasedOpen, MappedOpen, CurrentInv, RetryStale
<1>9. CurrentInv'
  BY DEF IInv, TypeOK, ControlInv, MutexInv, NoAbandonedMutex, MapInv,
           EntryInv, OwnEntry, AwaitedEntry, LeasedOpen, MappedOpen, CurrentInv, RetryStale
<1>. QED
  BY <1>4, <1>5, <1>6, <1>7, <1>8, <1>9 DEF IInv

LEMMA RejectCapacityStep == ASSUME IInv, NEW r \in Reqs, RejectCapacity(r) PROVE IInv'
  BY DEF IInv, TypeOK, ControlInv, MutexInv, NoAbandonedMutex, MapInv,
           EntryInv, OwnEntry, AwaitedEntry, LeasedOpen, MappedOpen, CurrentInv, EntryRecords, RejectCapacity

LEMMA InsertStep ==
  ASSUME IInv, NEW r \in Reqs, Insert(r)
  PROVE  IInv'
<1>1. key[r] \in Keys /\ spec[r] \in Specs
  BY DEF IInv, ControlInv, Insert
<1>2. PICK e \in Entries, w \in EntryRecords :
        /\ Unreferenced(e)
        /\ ent' = [ent EXCEPT ![r] = e]
        /\ heap' = [heap EXCEPT ![e] = w]
        /\ w.key = key[r] /\ w.spec = spec[r]
        /\ owner' = [owner EXCEPT ![e] = r]
        /\ sessions' = [sessions EXCEPT ![key[r]] = e]
  <2>1. PICK e \in Entries :
          /\ Unreferenced(e)
          /\ ent' = [ent EXCEPT ![r] = e]
          /\ heap' = [heap EXCEPT ![e] = NewEntry(key[r], spec[r])]
          /\ owner' = [owner EXCEPT ![e] = r]
          /\ sessions' = [sessions EXCEPT ![key[r]] = e]
    BY DEF Insert
  <2>2. PICK w \in EntryRecords : /\ w = NewEntry(key[r], spec[r])
                                 /\ w.key = key[r] /\ w.spec = spec[r]
    BY <1>1, NewEntryType
  <2>. QED
    BY <2>1, <2>2
<1>3. /\ \A k \in Keys : sessions[k] # e
      /\ \A q \in Procs : ent[q] # e
      /\ e \notin batch[Janitor] \cup batch[Closer]
  BY <1>2 DEF Unreferenced
<1>4. owner[e] = None
  BY <1>3 DEF IInv, TypeOK, MutexInv, NoAbandonedMutex
<1>5. TypeOK'
  BY <1>1, <1>2 DEF IInv, TypeOK, ControlInv, Insert
<1>6. ControlInv'
  BY <1>1, <1>2 DEF IInv, TypeOK, ControlInv, Insert
<1>7. MutexInv'
  BY <1>1, <1>2, <1>3, <1>4 DEF IInv, TypeOK, ControlInv, MutexInv, NoAbandonedMutex, Insert
<1>8. MapInv'
  BY <1>1, <1>2, <1>3 DEF IInv, TypeOK, ControlInv, MutexInv, NoAbandonedMutex, MapInv, Insert
<1>9. EntryInv'
  BY <1>1, <1>2, <1>3, <1>4 DEF IInv, TypeOK, ControlInv, MutexInv, NoAbandonedMutex, MapInv,
           EntryInv, OwnEntry, AwaitedEntry, LeasedOpen, MappedOpen, CurrentInv, Insert
<1>10. CurrentInv'
  BY <1>1, <1>2, <1>3 DEF IInv, TypeOK, ControlInv, MutexInv, NoAbandonedMutex, MapInv,
           EntryInv, OwnEntry, AwaitedEntry, LeasedOpen, MappedOpen, CurrentInv, Insert
<1>. QED
  BY <1>5, <1>6, <1>7, <1>8, <1>9, <1>10 DEF IInv

-----------------------------------------------------------------------------
(* The steps of the request that makes an entry.                           *)

LEMMA LoadStep ==
  ASSUME IInv, NEW r \in Reqs, Load(r)
  PROVE  IInv'
<1>1. TypeOK'
  BY DEF IInv, TypeOK, ControlInv, EntryRecords, Load
<1>2. ControlInv'
  BY DEF IInv, TypeOK, ControlInv, Load
<1>3. MutexInv'
  BY DEF IInv, TypeOK, ControlInv, MutexInv, NoAbandonedMutex, Load
<1>4. MapInv'
  BY DEF IInv, TypeOK, ControlInv, MutexInv, NoAbandonedMutex, MapInv, Load
<1>5. EntryInv'
  BY DEF IInv, TypeOK, ControlInv, MutexInv, NoAbandonedMutex, MapInv,
           EntryInv, OwnEntry, AwaitedEntry, LeasedOpen, MappedOpen, CurrentInv, Load
<1>6. CurrentInv'
  BY DEF IInv, TypeOK, ControlInv, MutexInv, NoAbandonedMutex, MapInv,
           EntryInv, OwnEntry, AwaitedEntry, LeasedOpen, MappedOpen, CurrentInv, Load
<1>. QED
  BY <1>1, <1>2, <1>3, <1>4, <1>5, <1>6 DEF IInv

LEMMA RemoveRecordStep == ASSUME IInv, NEW r \in Reqs, RemoveRecord(r) PROVE IInv'
  BY DEF IInv, TypeOK, ControlInv, MutexInv, NoAbandonedMutex, MapInv,
           EntryInv, OwnEntry, AwaitedEntry, LeasedOpen, MappedOpen, CurrentInv, EntryRecords, RemoveRecord, StoreDelete

LEMMA RemoveUpstreamStep == ASSUME IInv, NEW r \in Reqs, RemoveUpstream(r) PROVE IInv'
  BY DEF IInv, TypeOK, ControlInv, MutexInv, NoAbandonedMutex, MapInv,
           EntryInv, OwnEntry, AwaitedEntry, LeasedOpen, MappedOpen, CurrentInv, EntryRecords, RemoveUpstream, UpstreamDelete

LEMMA ResumeStep == ASSUME IInv, NEW r \in Reqs, Resume(r) PROVE IInv'
  BY DEF IInv, TypeOK, ControlInv, MutexInv, NoAbandonedMutex, MapInv,
           EntryInv, OwnEntry, AwaitedEntry, LeasedOpen, MappedOpen, CurrentInv, EntryRecords, Resume

LEMMA ForgetRecordStep == ASSUME IInv, NEW r \in Reqs, ForgetRecord(r) PROVE IInv'
  BY DEF IInv, TypeOK, ControlInv, MutexInv, NoAbandonedMutex, MapInv,
           EntryInv, OwnEntry, AwaitedEntry, LeasedOpen, MappedOpen, CurrentInv, EntryRecords, ForgetRecord, StoreDelete

LEMMA CreateStep == ASSUME IInv, NEW r \in Reqs, Create(r) PROVE IInv'
  BY DEF IInv, TypeOK, ControlInv, MutexInv, NoAbandonedMutex, MapInv,
           EntryInv, OwnEntry, AwaitedEntry, LeasedOpen, MappedOpen, CurrentInv, EntryRecords, Create

LEMMA SaveStep ==
  ASSUME IInv, NEW r \in Reqs, Save(r)
  PROVE  IInv'
<1>1. ent[r] \in Entries /\ key[r] \in Keys /\ spec[r] \in Specs /\ owner[ent[r]] = r
  BY DEF IInv, TypeOK, ControlInv, MutexInv, Save
<1>2. heap[ent[r]] \in EntryRecords
  BY <1>1 DEF IInv, TypeOK
<1>3. PICK w \in EntryRecords :
        /\ heap' = [heap EXCEPT ![ent[r]] = w]
        /\ w.key = heap[ent[r]].key /\ w.spec = heap[ent[r]].spec
        /\ (pc'[r] = "leased" /\ w.sess = "open") \/ pc'[r] = "cleanup"
  <2>1. CASE heap' = [heap EXCEPT ![ent[r]] = Opened(@)] /\ Goto(r, "leased")
    <3>1. Opened(heap[ent[r]]) \in EntryRecords /\ Opened(heap[ent[r]]).sess = "open"
      BY <1>2, UpdateType, UpdateSess
    <3>. QED
      BY <1>2, <2>1, <3>1, UpdateType DEF IInv, TypeOK
  <2>2. CASE heap' = [heap EXCEPT ![ent[r]] = Spoiled(@)] /\ Goto(r, "cleanup")
    <3>1. Spoiled(heap[ent[r]]) \in EntryRecords
      BY <1>2, UpdateType
    <3>. QED
      BY <1>2, <2>2, <3>1, UpdateType DEF IInv, TypeOK
  <2>. QED
    BY <2>1, <2>2 DEF Save
<1>4. Saved(spec[r].public, 0) \in Records
  BY <1>1 DEF Saved
<1>5. \A q \in Reqs : pc[q] \in HoldsMutex /\ q # r => ent[q] # ent[r]
  BY <1>1 DEF IInv, MutexInv
<1>6. TypeOK'
  BY <1>1, <1>3, <1>4 DEF IInv, TypeOK, ControlInv, Save
<1>7. ControlInv'
  BY <1>1 DEF IInv, TypeOK, ControlInv, Save
<1>8. MutexInv'
  BY <1>1 DEF IInv, TypeOK, ControlInv, MutexInv, NoAbandonedMutex, Save
<1>9. MapInv'
  BY <1>1, <1>3 DEF IInv, TypeOK, ControlInv, MutexInv, NoAbandonedMutex, MapInv, Save
<1>10. EntryInv'
  <2>1. OwnEntry'
    BY <1>1, <1>3, <1>5 DEF IInv, TypeOK, ControlInv, MutexInv, NoAbandonedMutex, MapInv, EntryInv, OwnEntry, Save
  <2>2. AwaitedEntry'
    BY <1>1, <1>3, <1>5 DEF IInv, TypeOK, ControlInv, MutexInv, NoAbandonedMutex, MapInv, EntryInv, AwaitedEntry, Save
  <2>3. LeasedOpen'
    BY <1>1, <1>3, <1>5 DEF IInv, TypeOK, ControlInv, MutexInv, NoAbandonedMutex, MapInv, EntryInv, LeasedOpen, Save
  <2>4. MappedOpen'
    <3> SUFFICES ASSUME NEW k \in Keys, sessions'[k] # None, heap'[sessions'[k]].sess # "open"
                 PROVE  owner'[sessions'[k]] \in Reqs /\ pc'[owner'[sessions'[k]]] \in Creating
      BY DEF MappedOpen
    <3>1. sessions[k] \in Entries /\ sessions'[k] = sessions[k]
      BY DEF IInv, TypeOK, Save
    <3>2. ASSUME sessions[k] # ent[r]
          PROVE  /\ owner[sessions[k]] \in Reqs /\ pc[owner[sessions[k]]] \in Creating
                 /\ owner[sessions[k]] # r /\ owner'[sessions[k]] = owner[sessions[k]]
      <4>1. heap'[sessions[k]] = heap[sessions[k]]
        BY <1>1, <1>3, <3>1, <3>2 DEF IInv, TypeOK
      <4>2. owner[sessions[k]] \in Reqs /\ pc[owner[sessions[k]]] \in Creating
        BY <3>1, <4>1 DEF IInv, EntryInv, MappedOpen
      <4>3. owner[sessions[k]] # r
        BY <3>1, <3>2, <4>2 DEF IInv, MutexInv, NoAbandonedMutex
      <4>. QED
        BY <3>1, <3>2, <4>2, <4>3 DEF IInv, TypeOK, Save
    <3>3. CASE sessions[k] = ent[r]
      BY <1>1, <1>3, <3>1, <3>3 DEF IInv, TypeOK, Save
    <3>4. CASE sessions[k] # ent[r]
      BY <3>1, <3>2, <3>4 DEF IInv, TypeOK, Save
    <3>. QED
      BY <3>3, <3>4
  <2>. QED
    BY <2>1, <2>2, <2>3, <2>4 DEF EntryInv
<1>11. CurrentInv'
  BY DEF IInv, TypeOK, ControlInv, MutexInv, NoAbandonedMutex, MapInv,
           EntryInv, OwnEntry, AwaitedEntry, LeasedOpen, MappedOpen, CurrentInv, Save
<1>. QED
  BY <1>6, <1>7, <1>8, <1>9, <1>10, <1>11 DEF IInv

LEMMA CleanupStep ==
  ASSUME IInv, NEW r \in Reqs, Cleanup(r)
  PROVE  IInv'
<1>1. /\ ent[r] \in Entries /\ key[r] \in Keys /\ spec[r] \in Specs /\ owner[ent[r]] = r
      /\ heap[ent[r]] \in EntryRecords
  BY DEF IInv, TypeOK, ControlInv, MutexInv, Cleanup
<1>2. PICK w \in EntryRecords :
        /\ heap' = [heap EXCEPT ![ent[r]] = w]
        /\ w.key # None \/ (\E k \in Keys : sessions'[k] = ent[r]) =>
             /\ w.key = heap[ent[r]].key /\ w.spec = heap[ent[r]].spec
             /\ w.sess = heap[ent[r]].sess
  <2> DEFINE v == Ready(heap[ent[r]])
             w == Left(ent[r], v)
  <2>1. /\ v \in EntryRecords /\ v.sess = heap[ent[r]].sess
        /\ v.key = heap[ent[r]].key /\ v.spec = heap[ent[r]].spec
    BY <1>1, UpdateType, UpdateSess
  <2>2. /\ w \in EntryRecords
        /\ w = v \/ w.key = None
        /\ \A k \in Keys : sessions'[k] = ent[r] => w = v
    BY <2>1, LeftType
  <2>3. heap' = [heap EXCEPT ![ent[r]] = w]
    BY DEF Cleanup, SetLeft
  <2> HIDE DEF v, w
  <2>. QED
    BY <2>1, <2>2, <2>3
<1>3. \A q \in Reqs : pc[q] \in HoldsMutex /\ q # r => ent[q] # ent[r]
  BY <1>1 DEF IInv, MutexInv
<1>4. TypeOK'
  BY <1>1, <1>2 DEF IInv, TypeOK, ControlInv, Cleanup, Unmap
<1>5. ControlInv'
  BY <1>1 DEF IInv, TypeOK, ControlInv, Cleanup, Unmap
<1>6. MutexInv'
  BY <1>1 DEF IInv, TypeOK, ControlInv, MutexInv, NoAbandonedMutex, Cleanup, Unmap
<1>7. MapInv'
  BY <1>1, <1>2 DEF IInv, TypeOK, ControlInv, MutexInv, NoAbandonedMutex, MapInv, Cleanup, Unmap
<1>8. EntryInv'
  <2>1. OwnEntry'
    BY <1>1, <1>2, <1>3 DEF IInv, TypeOK, ControlInv, MutexInv, NoAbandonedMutex, MapInv, EntryInv, OwnEntry, Cleanup, Unmap
  <2>2. AwaitedEntry'
    BY <1>1, <1>2, <1>3 DEF IInv, TypeOK, ControlInv, MutexInv, NoAbandonedMutex, MapInv, EntryInv, AwaitedEntry, Cleanup, Unmap
  <2>3. LeasedOpen'
    BY <1>1, <1>2, <1>3 DEF IInv, TypeOK, ControlInv, MutexInv, NoAbandonedMutex, MapInv, EntryInv, LeasedOpen, Cleanup, Unmap
  <2>4. MappedOpen'
    <3> SUFFICES ASSUME NEW k \in Keys, sessions'[k] # None, heap'[sessions'[k]].sess # "open"
                 PROVE  owner'[sessions'[k]] \in Reqs /\ pc'[owner'[sessions'[k]]] \in Creating
      BY DEF MappedOpen
    <3>1. sessions[k] \in Entries /\ sessions'[k] = sessions[k]
      BY DEF IInv, TypeOK, Cleanup, Unmap
    <3>2. ASSUME sessions[k] # ent[r]
          PROVE  /\ owner[sessions[k]] \in Reqs /\ pc[owner[sessions[k]]] \in Creating
                 /\ owner[sessions[k]] # r /\ owner'[sessions[k]] = owner[sessions[k]]
      <4>1. heap'[sessions[k]] = heap[sessions[k]]
        BY <1>1, <1>2, <3>1, <3>2 DEF IInv, TypeOK
      <4>2. owner[sessions[k]] \in Reqs /\ pc[owner[sessions[k]]] \in Creating
        BY <3>1, <4>1 DEF IInv, EntryInv, MappedOpen
      <4>3. owner[sessions[k]] # r
        BY <3>1, <3>2, <4>2 DEF IInv, MutexInv, NoAbandonedMutex
      <4>. QED
        BY <3>1, <3>2, <4>2, <4>3 DEF IInv, TypeOK, Cleanup, Unmap
    <3>3. sessions[k] # ent[r]
      BY <1>1, <3>1 DEF IInv, TypeOK, EntryInv, OwnEntry, MapInv, Cleanup, Unmap
    <3>. QED
      BY <3>1, <3>2, <3>3 DEF IInv, TypeOK, Cleanup
  <2>. QED
    BY <2>1, <2>2, <2>3, <2>4 DEF EntryInv
<1>9. CurrentInv'
  BY DEF IInv, TypeOK, ControlInv, MutexInv, NoAbandonedMutex, MapInv,
           EntryInv, OwnEntry, AwaitedEntry, LeasedOpen, MappedOpen, CurrentInv, Cleanup, Unmap
<1>. QED
  BY <1>4, <1>5, <1>6, <1>7, <1>8, <1>9 DEF IInv

-----------------------------------------------------------------------------
(* The end of a lease, and the teardown of an entry.                       *)

LEMMA ReleaseStep ==
  ASSUME IInv, NEW r \in Reqs, Release(r)
  PROVE  IInv'
<1>1. /\ ent[r] \in Entries /\ key[r] \in Keys /\ spec[r] \in Specs /\ owner[ent[r]] = r
      /\ heap[ent[r]] \in EntryRecords
  BY DEF IInv, TypeOK, ControlInv, MutexInv, Release
<1>2. PICK w \in EntryRecords :
        /\ heap' = [heap EXCEPT ![ent[r]] = w]
        /\ w.key # None \/ (\E k \in Keys : sessions'[k] = ent[r]) =>
             /\ w.key = heap[ent[r]].key /\ w.spec = heap[ent[r]].spec
             /\ w.sess = heap[ent[r]].sess
  <2> DEFINE v == Touched(heap[ent[r]])
             w == Left(ent[r], v)
  <2>1. /\ v \in EntryRecords /\ v.sess = heap[ent[r]].sess
        /\ v.key = heap[ent[r]].key /\ v.spec = heap[ent[r]].spec
    BY <1>1, UpdateType, UpdateSess
  <2>2. /\ w \in EntryRecords
        /\ w = v \/ w.key = None
        /\ \A k \in Keys : sessions'[k] = ent[r] => w = v
    BY <2>1, LeftType
  <2>3. heap' = [heap EXCEPT ![ent[r]] = w]
    BY DEF Release, SetLeft
  <2> HIDE DEF v, w
  <2>. QED
    BY <2>1, <2>2, <2>3
<1>3. \A q \in Reqs : pc[q] \in HoldsMutex /\ q # r => ent[q] # ent[r]
  BY <1>1 DEF IInv, MutexInv
<1>4. Saved(heap[ent[r]].spec.public, 0) \in Records
  BY <1>1 DEF IInv, TypeOK, EntryInv, OwnEntry, Saved, Release
<1>5. TypeOK'
  BY <1>1, <1>2, <1>4 DEF IInv, TypeOK, ControlInv, Release
<1>6. ControlInv'
  BY <1>1 DEF IInv, TypeOK, ControlInv, Release
<1>7. MutexInv'
  BY <1>1 DEF IInv, TypeOK, ControlInv, MutexInv, NoAbandonedMutex, Release
<1>8. MapInv'
  BY <1>1, <1>2 DEF IInv, TypeOK, ControlInv, MutexInv, NoAbandonedMutex, MapInv, Release
<1>9. EntryInv'
  BY <1>1, <1>2, <1>3 DEF IInv, TypeOK, ControlInv, MutexInv, NoAbandonedMutex, MapInv,
           EntryInv, OwnEntry, AwaitedEntry, LeasedOpen, MappedOpen, CurrentInv, Release
<1>10. CurrentInv'
  BY DEF IInv, TypeOK, ControlInv, MutexInv, NoAbandonedMutex, MapInv,
           EntryInv, OwnEntry, AwaitedEntry, LeasedOpen, MappedOpen, CurrentInv, Release
<1>. QED
  BY <1>5, <1>6, <1>7, <1>8, <1>9, <1>10 DEF IInv

LEMMA DiscardStep ==
  ASSUME IInv, NEW r \in Reqs, Discard(r)
  PROVE  IInv'
<1>1. ent[r] \in Entries /\ key[r] \in Keys /\ heap[ent[r]].key = key[r]
  BY DEF IInv, TypeOK, ControlInv, EntryInv, OwnEntry, Discard
<1>2. \A k \in Keys : sessions'[k] # ent[r]
  BY <1>1 DEF IInv, TypeOK, MapInv, Discard, Unmap
<1>3. \A k \in Keys : sessions'[k] \in {sessions[k], None}
  BY DEF IInv, TypeOK, Discard, Unmap
<1>4. TypeOK'
  BY DEF IInv, TypeOK, ControlInv, EntryRecords, Discard, Unmap
<1>5. ControlInv'
  BY DEF IInv, TypeOK, ControlInv, Discard, Unmap
<1>6. MutexInv'
  BY DEF IInv, TypeOK, ControlInv, MutexInv, NoAbandonedMutex, Discard, Unmap
<1>7. MapInv'
  BY <1>1, <1>2, <1>3 DEF IInv, TypeOK, ControlInv, MutexInv, NoAbandonedMutex, MapInv, Discard, Unmap
<1>8. EntryInv'
  BY <1>1, <1>2, <1>3 DEF IInv, TypeOK, ControlInv, MutexInv, NoAbandonedMutex, MapInv,
           EntryInv, OwnEntry, AwaitedEntry, LeasedOpen, MappedOpen, CurrentInv, Discard, Unmap
<1>9. CurrentInv'
  BY DEF IInv, TypeOK, ControlInv, MutexInv, NoAbandonedMutex, MapInv,
           EntryInv, OwnEntry, AwaitedEntry, LeasedOpen, MappedOpen, CurrentInv, Discard, Unmap
<1>. QED
  BY <1>4, <1>5, <1>6, <1>7, <1>8, <1>9 DEF IInv

LEMMA StartEphemeralStep == ASSUME IInv, NEW r \in Reqs, StartEphemeral(r) PROVE IInv'
  BY DEF IInv, TypeOK, ControlInv, MutexInv, NoAbandonedMutex, MapInv,
           EntryInv, OwnEntry, AwaitedEntry, LeasedOpen, MappedOpen, CurrentInv, EntryRecords, StartEphemeral

LEMMA EphemeralStepStep ==
  ASSUME IInv, NEW r \in Reqs, EphemeralStep(r)
  PROVE  IInv'
<1>1. PICK point \in {"ephemeralLeased", "idle"} : Goto(r, point)
  BY DEF EphemeralStep, CreateEphemeral, EndEphemeral
<1>2. UNCHANGED <<key, spec, ent, memVars, extVars>>
  BY DEF EphemeralStep, CreateEphemeral, EndEphemeral
<1>3. pc[r] \notin HoldsMutex \cup {"wait"}
  BY DEF EphemeralStep, CreateEphemeral, EndEphemeral
<1>4. \A e \in Entries : owner[e] # r
  BY <1>3 DEF IInv, TypeOK, MutexInv, NoAbandonedMutex
<1>5. TypeOK'
  BY <1>1, <1>2, <1>3, <1>4 DEF IInv, TypeOK, ControlInv
<1>6. ControlInv'
  BY <1>1, <1>2, <1>3, <1>4 DEF IInv, TypeOK, ControlInv
<1>7. MutexInv'
  BY <1>1, <1>2, <1>3, <1>4 DEF IInv, TypeOK, ControlInv, MutexInv, NoAbandonedMutex
<1>8. MapInv'
  BY <1>1, <1>2, <1>3, <1>4 DEF IInv, TypeOK, ControlInv, MutexInv, NoAbandonedMutex, MapInv
<1>9. EntryInv'
  BY <1>1, <1>2, <1>3, <1>4 DEF IInv, TypeOK, ControlInv, MutexInv, NoAbandonedMutex, MapInv,
           EntryInv, OwnEntry, AwaitedEntry, LeasedOpen, MappedOpen, CurrentInv
<1>10. CurrentInv'
  BY <1>1, <1>2, <1>3, <1>4 DEF IInv, TypeOK, ControlInv, MutexInv, NoAbandonedMutex, MapInv,
           EntryInv, OwnEntry, AwaitedEntry, LeasedOpen, MappedOpen, CurrentInv
<1>. QED
  BY <1>5, <1>6, <1>7, <1>8, <1>9, <1>10 DEF IInv

LEMMA DestroyRecordStep ==
  ASSUME IInv, NEW p \in Reqs \cup {Janitor, Closer}, DestroyRecord(p)
  PROVE  IInv'
<1> DEFINE e == ent[p]
<1>1. e \in Entries /\ owner[e] = p /\ heap[e] \in EntryRecords
  BY DEF IInv, TypeOK, ControlInv, MutexInv, DestroyRecord
<1>2. \A k \in Keys : sessions[k] # e
  BY <1>1 DEF IInv, TypeOK, ControlInv, MutexInv, MapInv, DestroyRecord
<1>3. PICK w \in EntryRecords :
        /\ heap' = [heap EXCEPT ![e] = w]
        /\ w.key # None => w.key = heap[e].key /\ w.spec = heap[e].spec
  BY <1>1, UpdateType DEF DestroyRecord
<1>4. \A q \in Reqs : pc[q] \in HoldsMutex /\ q # p => ent[q] # e
  BY <1>1 DEF IInv, MutexInv
<1>5. TypeOK'
  BY <1>1, <1>3 DEF IInv, TypeOK, ControlInv, DestroyRecord, StoreDelete
<1>6. ControlInv'
  BY <1>1 DEF IInv, TypeOK, ControlInv, DestroyRecord, StoreDelete
<1>7. MutexInv'
  BY <1>1 DEF IInv, TypeOK, ControlInv, MutexInv, NoAbandonedMutex, DestroyRecord, StoreDelete
<1>8. MapInv'
  BY <1>1, <1>2, <1>3 DEF IInv, TypeOK, ControlInv, MutexInv, NoAbandonedMutex, MapInv, DestroyRecord, StoreDelete
<1>9. EntryInv'
  <2>1. OwnEntry'
    BY <1>1, <1>2, <1>3, <1>4 DEF IInv, TypeOK, ControlInv, MutexInv, NoAbandonedMutex, MapInv, EntryInv, OwnEntry, DestroyRecord, StoreDelete
  <2>2. AwaitedEntry'
    BY <1>1, <1>2, <1>3, <1>4 DEF IInv, TypeOK, ControlInv, MutexInv, NoAbandonedMutex, MapInv, EntryInv, AwaitedEntry, DestroyRecord, StoreDelete
  <2>3. LeasedOpen'
    BY <1>1, <1>2, <1>3, <1>4 DEF IInv, TypeOK, ControlInv, MutexInv, NoAbandonedMutex, MapInv, EntryInv, LeasedOpen, DestroyRecord, StoreDelete
  <2>4. MappedOpen'
    BY <1>1, <1>2, <1>3, <1>4 DEF IInv, TypeOK, ControlInv, MutexInv, NoAbandonedMutex, MapInv, EntryInv, MappedOpen, DestroyRecord, StoreDelete
  <2>. QED
    BY <2>1, <2>2, <2>3, <2>4 DEF EntryInv
<1>10. CurrentInv'
  BY DEF IInv, TypeOK, ControlInv, MutexInv, NoAbandonedMutex, MapInv,
           EntryInv, OwnEntry, AwaitedEntry, LeasedOpen, MappedOpen, CurrentInv, DestroyRecord, StoreDelete
<1>. QED
  BY <1>5, <1>6, <1>7, <1>8, <1>9, <1>10 DEF IInv

LEMMA DestroyUpstreamStep ==
  ASSUME IInv, NEW p \in Reqs \cup {Janitor, Closer}, DestroyUpstream(p)
  PROVE  IInv'
<1> DEFINE e == ent[p]
<1>1. e \in Entries /\ owner[e] = p /\ heap[e] \in EntryRecords
  BY DEF IInv, TypeOK, ControlInv, MutexInv, DestroyUpstream
<1>2. \A k \in Keys : sessions[k] # e
  BY <1>1 DEF IInv, TypeOK, ControlInv, MutexInv, MapInv, DestroyUpstream
<1>3. PICK w \in EntryRecords :
        /\ heap' = [heap EXCEPT ![e] = w]
        /\ w.key # None => w.key = heap[e].key /\ w.spec = heap[e].spec
  <2> DEFINE left == Left(e, heap[e])
  <2>1. heap' = [heap EXCEPT ![e] = left]
    BY DEF DestroyUpstream, SetLeft
  <2>2. left \in EntryRecords /\ (left.key # None => left.key = heap[e].key /\ left.spec = heap[e].spec)
    BY <1>1, LeftType
  <2> HIDE DEF left
  <2>. QED
    BY <2>1, <2>2
<1>4. \A q \in Reqs : pc[q] \in HoldsMutex /\ q # p => ent[q] # e
  BY <1>1 DEF IInv, MutexInv
<1>5. pc' \in [Procs -> ReqPoints \cup {"await", "looking", "sweeping", "disconnecting",
                                       "closing", "disconnect", "closed"}]
  BY DEF IInv, TypeOK, DestroyUpstream, Resumes
<1>6. \A k \in Keys : sessions[k] # None => owner[sessions[k]] # p
  <2> SUFFICES ASSUME NEW k \in Keys, sessions[k] # None, owner[sessions[k]] = p
               PROVE  FALSE
    OBVIOUS
  <2>1. sessions[k] \in Entries /\ p # None
    BY DEF IInv, TypeOK
  <2>2. \/ owner[sessions[k]] = Janitor /\ sessions[k] \in batch[Janitor]
       \/ ent[p] = sessions[k]
    BY <2>1 DEF IInv, MutexInv, NoAbandonedMutex
  <2>. QED
    BY <1>2, <2>2 DEF IInv, MapInv
<1>7. TypeOK'
  BY <1>1, <1>3, <1>5 DEF IInv, TypeOK, ControlInv, DestroyUpstream, UpstreamDelete, Resumes
<1>8. ControlInv'
  BY <1>1 DEF IInv, TypeOK, ControlInv, DestroyUpstream, UpstreamDelete, Resumes
<1>9. MutexInv'
  BY <1>1 DEF IInv, TypeOK, ControlInv, MutexInv, NoAbandonedMutex, DestroyUpstream, UpstreamDelete, Resumes
<1>10. MapInv'
  BY <1>1, <1>2, <1>3 DEF IInv, TypeOK, ControlInv, MutexInv, NoAbandonedMutex, MapInv, DestroyUpstream, UpstreamDelete, Resumes
<1>11. EntryInv'
  BY <1>1, <1>2, <1>3, <1>4, <1>6 DEF IInv, TypeOK, ControlInv, MutexInv, NoAbandonedMutex, MapInv,
           EntryInv, OwnEntry, AwaitedEntry, LeasedOpen, MappedOpen, CurrentInv, DestroyUpstream, UpstreamDelete, Resumes
<1>12. CurrentInv'
  BY DEF IInv, TypeOK, ControlInv, MutexInv, NoAbandonedMutex, MapInv,
           EntryInv, OwnEntry, AwaitedEntry, LeasedOpen, MappedOpen, CurrentInv, DestroyUpstream, UpstreamDelete, Resumes
<1>. QED
  BY <1>7, <1>8, <1>9, <1>10, <1>11, <1>12 DEF IInv

-----------------------------------------------------------------------------
(* The janitor and the closer.                                             *)

LEMMA SweepLooksStep == ASSUME IInv, SweepLooks PROVE IInv'
  BY DEF IInv, TypeOK, ControlInv, MutexInv, NoAbandonedMutex, MapInv,
           EntryInv, OwnEntry, AwaitedEntry, LeasedOpen, MappedOpen, CurrentInv, SweepLooks

LEMMA SweepStart ==
  ASSUME IInv, Sweep
  PROVE  IInv'
<1>1. \A e \in Stale : e \in Entries /\ owner[e] = None
  BY DEF Stale, IInv, TypeOK
<1>2. \A k \in Keys : sessions'[k] # None => sessions'[k] = sessions[k] /\ sessions[k] \notin Stale
  BY DEF IInv, TypeOK, Sweep
<1>3. \A q \in Reqs : pc[q] \in HoldsMutex => ent[q] \notin Stale
  BY <1>1 DEF IInv, TypeOK, ControlInv, MutexInv
<1>4. batch[Janitor] = {} /\ \A e \in Entries : owner[e] # Janitor
  BY DEF IInv, TypeOK, ControlInv, MutexInv, NoAbandonedMutex, Sweep
<1>5. TypeOK'
  BY <1>1 DEF IInv, TypeOK, ControlInv, Sweep
<1>6. ControlInv'
  BY <1>1 DEF IInv, TypeOK, ControlInv, Sweep
<1>7. MutexInv'
  BY <1>1, <1>3, <1>4 DEF IInv, TypeOK, ControlInv, MutexInv, NoAbandonedMutex, Sweep
<1>8. MapInv'
  BY <1>1, <1>2 DEF IInv, TypeOK, ControlInv, MutexInv, NoAbandonedMutex, MapInv, Sweep
<1>9. EntryInv'
  BY <1>1, <1>2, <1>3 DEF IInv, TypeOK, ControlInv, MutexInv, NoAbandonedMutex, MapInv,
           EntryInv, OwnEntry, AwaitedEntry, LeasedOpen, MappedOpen, CurrentInv, Sweep
<1>10. CurrentInv'
  BY <1>3 DEF IInv, TypeOK, ControlInv, MutexInv, NoAbandonedMutex, MapInv,
           EntryInv, OwnEntry, AwaitedEntry, LeasedOpen, MappedOpen, CurrentInv, Sweep
<1>. QED
  BY <1>5, <1>6, <1>7, <1>8, <1>9, <1>10 DEF IInv

LEMMA SweepNextStep == ASSUME IInv, SweepNext PROVE IInv'
  BY DEF IInv, TypeOK, ControlInv, MutexInv, NoAbandonedMutex, MapInv,
           EntryInv, OwnEntry, AwaitedEntry, LeasedOpen, MappedOpen, CurrentInv, EntryRecords, SweepNext

LEMMA SweepEndsStep == ASSUME IInv, SweepEnds PROVE IInv'
  BY DEF IInv, TypeOK, ControlInv, MutexInv, NoAbandonedMutex, MapInv,
           EntryInv, OwnEntry, AwaitedEntry, LeasedOpen, MappedOpen, CurrentInv, EntryRecords, SweepEnds

LEMMA EmptyMapStep ==
  ASSUME IInv, NEW event, NEW point \in {"disconnecting", "closing"}, EmptyMap(event, point)
  PROVE  IInv'
<1>1. \A e \in Entries : owner[e] # Closer
  BY DEF IInv, TypeOK, ControlInv, MutexInv, NoAbandonedMutex, EmptyMap
<1>2. TypeOK'
  BY DEF IInv, TypeOK, ControlInv, EntryRecords, EmptyMap, MappedKeys
<1>3. ControlInv'
  BY DEF IInv, TypeOK, ControlInv, EmptyMap
<1>4. MutexInv'
  BY <1>1 DEF IInv, TypeOK, ControlInv, MutexInv, NoAbandonedMutex, EmptyMap
<1>5. MapInv'
  BY DEF IInv, TypeOK, ControlInv, MutexInv, NoAbandonedMutex, MapInv, EmptyMap, MappedKeys
<1>6. EntryInv'
  BY DEF IInv, TypeOK, ControlInv, MutexInv, NoAbandonedMutex, MapInv,
           EntryInv, OwnEntry, AwaitedEntry, LeasedOpen, MappedOpen, CurrentInv, EmptyMap
<1>7. CurrentInv'
  BY DEF IInv, TypeOK, ControlInv, MutexInv, NoAbandonedMutex, MapInv,
           EntryInv, OwnEntry, AwaitedEntry, LeasedOpen, MappedOpen, CurrentInv, EmptyMap
<1>. QED
  BY <1>2, <1>3, <1>4, <1>5, <1>6, <1>7 DEF IInv

LEMMA SkipEntryStep ==
  ASSUME IInv, NEW e \in Entries, SkipEntry(e)
  PROVE  IInv'
<1>1. \A k \in Keys : sessions[k] # e
  BY DEF IInv, TypeOK, MapInv, SkipEntry
<1>2. PICK w \in EntryRecords :
        /\ heap' = [heap EXCEPT ![e] = w]
        /\ w.key # None => w.key = heap[e].key /\ w.spec = heap[e].spec
        /\ owner[e] # None => w = heap[e]
  <2>1. CASE owner[e] = None
    BY <2>1, BlankType DEF SkipEntry
  <2>2. CASE owner[e] # None
    <3>1. heap[e] \in EntryRecords /\ heap' = [heap EXCEPT ![e] = heap[e]]
      BY <2>2 DEF IInv, TypeOK, SkipEntry
    <3>2. PICK v \in EntryRecords : v = heap[e] /\ heap' = [heap EXCEPT ![e] = v]
      BY <3>1
    <3>. QED
      BY <3>2
  <2>. QED
    BY <2>1, <2>2
<1>3. \A q \in Reqs : pc[q] \in HoldsMutex /\ ent[q] = e => owner[e] # None
  BY DEF IInv, MutexInv
<1>4. TypeOK'
  BY <1>2 DEF IInv, TypeOK, ControlInv, SkipEntry
<1>5. ControlInv'
  BY DEF IInv, TypeOK, ControlInv, SkipEntry
<1>6. MutexInv'
  BY DEF IInv, TypeOK, ControlInv, MutexInv, NoAbandonedMutex, SkipEntry
<1>7. MapInv'
  BY <1>1, <1>2 DEF IInv, TypeOK, ControlInv, MutexInv, NoAbandonedMutex, MapInv, SkipEntry
<1>8. EntryInv'
  BY <1>1, <1>2, <1>3 DEF IInv, TypeOK, ControlInv, MutexInv, NoAbandonedMutex, MapInv,
           EntryInv, OwnEntry, AwaitedEntry, LeasedOpen, MappedOpen, CurrentInv, SkipEntry
<1>9. CurrentInv'
  BY DEF IInv, TypeOK, ControlInv, MutexInv, NoAbandonedMutex, MapInv,
           EntryInv, OwnEntry, AwaitedEntry, LeasedOpen, MappedOpen, CurrentInv, SkipEntry
<1>. QED
  BY <1>4, <1>5, <1>6, <1>7, <1>8, <1>9 DEF IInv

LEMMA LockForCloseStep ==
  ASSUME IInv, NEW e \in Entries, LockForClose(e)
  PROVE  IInv'
<1>1. TypeOK'
  BY DEF IInv, TypeOK, ControlInv, EntryRecords, LockForClose
<1>2. ControlInv'
  BY DEF IInv, TypeOK, ControlInv, LockForClose
<1>3. MutexInv'
  BY DEF IInv, TypeOK, ControlInv, MutexInv, NoAbandonedMutex, LockForClose
<1>4. MapInv'
  BY DEF IInv, TypeOK, ControlInv, MutexInv, NoAbandonedMutex, MapInv, LockForClose
<1>5. EntryInv'
  BY DEF IInv, TypeOK, ControlInv, MutexInv, NoAbandonedMutex, MapInv,
           EntryInv, OwnEntry, AwaitedEntry, LeasedOpen, MappedOpen, CurrentInv, LockForClose
<1>6. CurrentInv'
  BY DEF IInv, TypeOK, ControlInv, MutexInv, NoAbandonedMutex, MapInv,
           EntryInv, OwnEntry, AwaitedEntry, LeasedOpen, MappedOpen, CurrentInv, LockForClose
<1>. QED
  BY <1>1, <1>2, <1>3, <1>4, <1>5, <1>6 DEF IInv

LEMMA DisconnectStep ==
  ASSUME IInv, Disconnect
  PROVE  IInv'
<1> DEFINE e == ent[Closer]
<1>1. e \in Entries /\ owner[e] = Closer /\ \A k \in Keys : sessions[k] # e
  BY DEF IInv, TypeOK, ControlInv, MutexInv, MapInv, Disconnect
<1>2. PICK w \in EntryRecords : heap' = [heap EXCEPT ![e] = w] /\ w.key = None
  BY BlankType DEF Disconnect
<1>3. \A q \in Reqs : pc[q] \in HoldsMutex => ent[q] # e
  BY <1>1 DEF IInv, MutexInv
<1>4. TypeOK'
  BY <1>1, <1>2 DEF IInv, TypeOK, ControlInv, Disconnect
<1>5. ControlInv'
  BY <1>1 DEF IInv, TypeOK, ControlInv, Disconnect
<1>6. MutexInv'
  BY <1>1 DEF IInv, TypeOK, ControlInv, MutexInv, NoAbandonedMutex, Disconnect
<1>7. MapInv'
  BY <1>1, <1>2 DEF IInv, TypeOK, ControlInv, MutexInv, NoAbandonedMutex, MapInv, Disconnect
<1>8. EntryInv'
  BY <1>1, <1>2, <1>3 DEF IInv, TypeOK, ControlInv, MutexInv, NoAbandonedMutex, MapInv,
           EntryInv, OwnEntry, AwaitedEntry, LeasedOpen, MappedOpen, CurrentInv, Disconnect
<1>9. CurrentInv'
  BY DEF IInv, TypeOK, ControlInv, MutexInv, NoAbandonedMutex, MapInv,
           EntryInv, OwnEntry, AwaitedEntry, LeasedOpen, MappedOpen, CurrentInv, Disconnect
<1>. QED
  BY <1>4, <1>5, <1>6, <1>7, <1>8, <1>9 DEF IInv

LEMMA CloseEndsStep ==
  ASSUME IInv, CloseEnds
  PROVE  IInv'
<1>1. TypeOK'
  BY DEF IInv, TypeOK, ControlInv, EntryRecords, CloseEnds
<1>2. ControlInv'
  BY DEF IInv, TypeOK, ControlInv, CloseEnds
<1>3. MutexInv'
  BY DEF IInv, TypeOK, ControlInv, MutexInv, NoAbandonedMutex, CloseEnds
<1>4. MapInv'
  BY DEF IInv, TypeOK, ControlInv, MutexInv, NoAbandonedMutex, MapInv, CloseEnds
<1>5. EntryInv'
  BY DEF IInv, TypeOK, ControlInv, MutexInv, NoAbandonedMutex, MapInv,
           EntryInv, OwnEntry, AwaitedEntry, LeasedOpen, MappedOpen, CurrentInv, CloseEnds
<1>6. CurrentInv'
  BY DEF IInv, TypeOK, ControlInv, MutexInv, NoAbandonedMutex, MapInv,
           EntryInv, OwnEntry, AwaitedEntry, LeasedOpen, MappedOpen, CurrentInv, CloseEnds
<1>. QED
  BY <1>1, <1>2, <1>3, <1>4, <1>5, <1>6 DEF IInv

-----------------------------------------------------------------------------
(* Lookups and the environment.                                            *)

LEMMA LookupStartsStep ==
  ASSUME IInv, NEW l \in Lookers, NEW k \in Keys, LookupStarts(l, k)
  PROVE  IInv'
<1>1. TypeOK'
  BY DEF IInv, TypeOK, ControlInv, EntryRecords, LookupStarts
<1>2. ControlInv'
  BY DEF IInv, TypeOK, ControlInv, LookupStarts
<1>3. MutexInv'
  BY DEF IInv, TypeOK, ControlInv, MutexInv, NoAbandonedMutex, LookupStarts
<1>4. MapInv'
  BY DEF IInv, TypeOK, ControlInv, MutexInv, NoAbandonedMutex, MapInv, LookupStarts
<1>5. EntryInv'
  BY DEF IInv, TypeOK, ControlInv, MutexInv, NoAbandonedMutex, MapInv,
           EntryInv, OwnEntry, AwaitedEntry, LeasedOpen, MappedOpen, CurrentInv, LookupStarts
<1>6. CurrentInv'
  BY DEF IInv, TypeOK, ControlInv, MutexInv, NoAbandonedMutex, MapInv,
           EntryInv, OwnEntry, AwaitedEntry, LeasedOpen, MappedOpen, CurrentInv, LookupStarts
<1>. QED
  BY <1>1, <1>2, <1>3, <1>4, <1>5, <1>6 DEF IInv

LEMMA LookupReturnsStep ==
  ASSUME IInv, NEW l \in Lookers, LookupReturns(l)
  PROVE  IInv'
<1>1. TypeOK'
  BY DEF IInv, TypeOK, ControlInv, EntryRecords, LookupReturns
<1>2. ControlInv'
  BY DEF IInv, TypeOK, ControlInv, LookupReturns
<1>3. MutexInv'
  BY DEF IInv, TypeOK, ControlInv, MutexInv, NoAbandonedMutex, LookupReturns
<1>4. MapInv'
  BY DEF IInv, TypeOK, ControlInv, MutexInv, NoAbandonedMutex, MapInv, LookupReturns
<1>5. EntryInv'
  BY DEF IInv, TypeOK, ControlInv, MutexInv, NoAbandonedMutex, MapInv,
           EntryInv, OwnEntry, AwaitedEntry, LeasedOpen, MappedOpen, CurrentInv, LookupReturns
<1>6. CurrentInv'
  BY DEF IInv, TypeOK, ControlInv, MutexInv, NoAbandonedMutex, MapInv,
           EntryInv, OwnEntry, AwaitedEntry, LeasedOpen, MappedOpen, CurrentInv, LookupReturns
<1>. QED
  BY <1>1, <1>2, <1>3, <1>4, <1>5, <1>6 DEF IInv

LEMMA TickStep ==
  ASSUME IInv, Tick
  PROVE  IInv'
<1>1. \A e \in Entries : heap[e] \in EntryRecords
  BY DEF IInv, TypeOK
<1>2. \A e \in Entries : /\ heap'[e] \in EntryRecords
                        /\ heap'[e].key = heap[e].key
                        /\ heap'[e].spec = heap[e].spec
                        /\ heap'[e].sess = heap[e].sess
  BY <1>1, UpdateType, UpdateSess DEF Tick
<1>3. heap' \in [Entries -> EntryRecords]
  BY <1>2 DEF Tick
<1>4. store' \in [Keys -> Records \cup {None}]
  <2>1. ASSUME NEW k \in Keys, store[k] # None
        PROVE  Saved(store[k].public, OlderAge(store[k].age)) \in Records
    BY <2>1, OlderAgeType DEF IInv, TypeOK, Saved
  <2>. QED
    BY <2>1 DEF Tick
<1>5. UNCHANGED <<procVars, sessions, owner, batch, aged, shutdown, upstream, late>>
  BY DEF Tick
<1>6. \A k \in Keys : sessions[k] # None => sessions[k] \in Entries
  BY DEF IInv, TypeOK
<1>7. \A r \in Reqs : pc[r] \in {"wait"} \cup HoldsMutex => ent[r] \in Entries
  BY DEF IInv, ControlInv
<1>8. TypeOK'
  <2>1. TypeOK
    BY DEF IInv
  <2>2. UNCHANGED <<pc, key, spec, ent, sessions, owner, batch, aged, shutdown, upstream, late>>
    BY <1>5 DEF procVars
  <2>. QED
    BY <2>1, <2>2, <1>3, <1>4 DEF TypeOK
<1>9. ControlInv'
  BY <1>2, <1>5 DEF IInv, TypeOK, ControlInv
<1>10. MutexInv'
  BY <1>2, <1>5 DEF IInv, TypeOK, ControlInv, MutexInv, NoAbandonedMutex
<1>11. MapInv'
  BY <1>2, <1>5, <1>6 DEF IInv, MapInv
<1>12. EntryInv'
  <2>1. UNCHANGED <<pc, key, spec, ent, sessions, owner>>
    BY <1>5 DEF procVars
  <2>2. EntryInv
    BY DEF IInv
  <2>3. \A r \in Reqs : pc[r] \in {"wait", "recheck", "leased"} \cup Creating => ent[r] \in Entries
    BY <1>7 DEF HoldsMutex
  <2>4. OwnEntry' /\ AwaitedEntry'
    BY <1>2, <2>1, <2>2, <2>3 DEF EntryInv, OwnEntry, AwaitedEntry
  <2>5. LeasedOpen'
    BY <1>2, <2>1, <2>2, <2>3 DEF EntryInv, LeasedOpen, Leased
  <2>6. MappedOpen'
    BY <1>2, <1>6, <2>1, <2>2 DEF EntryInv, MappedOpen
  <2>. QED
    BY <2>4, <2>5, <2>6 DEF EntryInv
<1>13. CurrentInv'
  BY <1>2, <1>5 DEF IInv, TypeOK, ControlInv, MutexInv, NoAbandonedMutex, MapInv,
           EntryInv, OwnEntry, AwaitedEntry, LeasedOpen, MappedOpen, CurrentInv
<1>. QED
  BY <1>8, <1>9, <1>10, <1>11, <1>12, <1>13 DEF IInv

LEMMA RestartStep ==
  ASSUME IInv, Restart
  PROVE  IInv'
<1>1. TypeOK'
  BY BlankType DEF IInv, TypeOK, ControlInv, Restart
<1>2. ControlInv'
  BY DEF IInv, TypeOK, ControlInv, Restart
<1>3. MutexInv'
  BY DEF IInv, TypeOK, ControlInv, MutexInv, NoAbandonedMutex, Restart
<1>4. MapInv'
  BY DEF IInv, TypeOK, ControlInv, MutexInv, NoAbandonedMutex, MapInv, Restart
<1>5. EntryInv'
  BY DEF IInv, TypeOK, ControlInv, MutexInv, NoAbandonedMutex, MapInv,
           EntryInv, OwnEntry, AwaitedEntry, LeasedOpen, MappedOpen, CurrentInv, Restart
<1>6. CurrentInv'
  BY DEF IInv, TypeOK, ControlInv, MutexInv, NoAbandonedMutex, MapInv,
           EntryInv, OwnEntry, AwaitedEntry, LeasedOpen, MappedOpen, CurrentInv, Restart
<1>. QED
  BY <1>1, <1>2, <1>3, <1>4, <1>5, <1>6 DEF IInv

LEMMA LateCreateStep == ASSUME IInv, NEW k \in Keys, LateCreate(k) PROVE IInv'
  BY DEF IInv, TypeOK, ControlInv, MutexInv, NoAbandonedMutex, MapInv,
           EntryInv, OwnEntry, AwaitedEntry, LeasedOpen, MappedOpen, CurrentInv, EntryRecords, LateCreate

LEMMA UpstreamForgetsStep == ASSUME IInv, NEW k \in Keys, UpstreamForgets(k) PROVE IInv'
  BY DEF IInv, TypeOK, ControlInv, MutexInv, NoAbandonedMutex, MapInv,
           EntryInv, OwnEntry, AwaitedEntry, LeasedOpen, MappedOpen, CurrentInv, EntryRecords, UpstreamForgets

-----------------------------------------------------------------------------
LEMMA RequestStepInv == ASSUME IInv, NEW r \in Reqs, RequestStep(r) PROVE IInv'
<1>1. CASE AcquireStep(r)
  BY <1>1, RejectSpecStep, FoundEntryStep, GiveUpStep, LockEntryStep, LeaseExistingStep,
     RetryStaleStep, RejectCapacityStep, InsertStep, LoadStep, RemoveRecordStep,
     RemoveUpstreamStep, ResumeStep, ForgetRecordStep, CreateStep, SaveStep, CleanupStep
     DEF AcquireStep
<1>2. CASE LeaseStep(r)
  BY <1>2, ReleaseStep, DiscardStep DEF LeaseStep
<1>3. CASE EphemeralStep(r)
  BY <1>3, EphemeralStepStep
<1>4. CASE DestroyStep(r)
  BY <1>4, DestroyRecordStep, DestroyUpstreamStep DEF DestroyStep
<1>. QED
  BY <1>1, <1>2, <1>3, <1>4 DEF RequestStep

LEMMA EnvironmentInv == ASSUME IInv, Environment PROVE IInv'
  BY TickStep, RestartStep, LateCreateStep, UpstreamForgetsStep DEF Environment

LEMMA NextIInv == IInv /\ [Next]_vars => IInv'
<1> SUFFICES ASSUME IInv, [Next]_vars PROVE IInv'
  OBVIOUS
<1>1. CASE UNCHANGED vars
  BY <1>1 DEF IInv, TypeOK, ControlInv, MutexInv, NoAbandonedMutex, MapInv,
           EntryInv, OwnEntry, AwaitedEntry, LeasedOpen, MappedOpen, CurrentInv, vars
<1>2. ASSUME NEW r \in Reqs,
             \/ \E k \in Keys, s \in Specs : Start(r, k, s)
             \/ StartEphemeral(r)
             \/ RequestStep(r)
      PROVE  IInv'
  BY <1>2, StartStep, StartEphemeralStep, RequestStepInv
<1>3. ASSUME NEW l \in Lookers, (\E k \in Keys : LookupStarts(l, k)) \/ LookupReturns(l)
      PROVE  IInv'
  BY <1>3, LookupStartsStep, LookupReturnsStep
<1>4. CASE SweepLooks \/ SweepStep
  BY <1>4, SweepLooksStep, SweepStart, SweepNextStep, SweepEndsStep, DestroyRecordStep, DestroyUpstreamStep
     DEF SweepStep, DestroyStep
<1>5. CASE DisconnectStarts \/ CloseStarts \/ CloserStep
  BY <1>5, EmptyMapStep, SkipEntryStep, LockForCloseStep, DisconnectStep, CloseEndsStep,
     DestroyRecordStep, DestroyUpstreamStep
     DEF DisconnectStarts, CloseStarts, CloserStep, DestroyStep
<1>. QED
  BY <1>1, <1>2, <1>3, <1>4, <1>5, EnvironmentInv DEF Next

\* Every reachable state satisfies the inductive invariant.
THEOREM IInvariance == Spec => []IInv
  BY InitIInv, NextIInv, PTL DEF Spec

-----------------------------------------------------------------------------
(* What the invariant says of the leases, the mutexes and the map.         *)

\* Type correctness of the manager and of its environment.
THEOREM TypeCorrect == Spec => []TypeOK
<1>1. IInv => TypeOK
  BY DEF IInv
<1>. QED
  BY <1>1, IInvariance, PTL

\* A leased session is open, locked by its request and made for exactly the key
\* and the specification the request asked for (manager.go:130-142).
THEOREM LeasesAreUsable == Spec => []LeaseIsUsable
<1>1. IInv => LeaseIsUsable
  BY DEF IInv, MutexInv, EntryInv, OwnEntry, LeasedOpen, LeaseIsUsable
<1>. QED
  BY <1>1, IInvariance, PTL

\* Until the shutdown a leased entry is the one its key maps to
\* (manager.go:130-142, 165-173, 424-434).
THEOREM LeasesAreCurrent == Spec => []LeaseIsCurrent
<1>1. IInv => LeaseIsCurrent
  BY DEF IInv, CurrentInv, LeaseIsCurrent
<1>. QED
  BY <1>1, IInvariance, PTL

\* Whoever holds an entry's mutex is at a step that still releases it
\* (manager.go:159-256, 399-434).
THEOREM MutexesAreAccountedFor == Spec => []NoAbandonedMutex
<1>1. IInv => NoAbandonedMutex
  BY DEF IInv, MutexInv
<1>. QED
  BY <1>1, IInvariance, PTL

\* A mapped entry nobody holds has an open session of its own key
\* (manager.go:165-173, 250-256).
THEOREM FreeEntriesAreOpen == Spec => []FreeEntryIsOpen
<1>1. IInv => FreeEntryIsOpen
  BY DEF IInv, MapInv, EntryInv, MappedOpen, FreeEntryIsOpen
<1>. QED
  BY <1>1, IInvariance, PTL

-----------------------------------------------------------------------------
(* Where nothing is torn down while the gateway runs, a session that is    *)
(* open has its record and its upstream session: the discards, the sweep   *)
(* and CloseContext delete both by the key alone, whoever has begun a      *)
(* session under it since.                                                 *)

NothingTornDown == {"discard", "sweep", "close"} \cap Events = {}

\* Nobody tears an entry down, a session in the making is not open, and one
\* that is mapped and open has its record and its upstream session.
NoTeardownInv ==
  /\ \A r \in Reqs : pc[r] \notin TearingDown
  /\ pc[Janitor] = "idle" /\ pc[Closer] \notin TearingDown \cup {"closing"}
MakingInv == \A r \in Reqs : pc[r] \in Creating => heap[ent[r]].sess # "open"
OpenIsRecorded ==
  ~shutdown => \A k \in Keys : sessions[k] # None /\ heap[sessions[k]].sess = "open" =>
    store[k] # None /\ store[k].public = heap[sessions[k]].spec.public
OpenIsBacked ==
  ~shutdown =>
    /\ \A k \in Keys : sessions[k] # None /\ heap[sessions[k]].sess = "open" => k \in upstream
    /\ \A r \in Reqs : pc[r] = "save" => key[r] \in upstream
DurableInv == OpenIsRecorded /\ OpenIsBacked
RecordInv == NoTeardownInv /\ MakingInv /\ DurableInv

\* Steps that open no session, map none, and leave what the records say and the
\* upstream sessions.
Tame ==
  /\ shutdown => shutdown'
  /\ \A k \in Keys : /\ sessions'[k] \in {sessions[k], None}
                     /\ store[k] # None => store'[k] # None /\ store'[k].public = store[k].public
  /\ \A e \in Entries : heap'[e].sess = "open" =>
       heap[e].sess = "open" /\ heap'[e].spec = heap[e].spec
  /\ \A r \in Reqs : pc'[r] \in Creating => pc[r] \in Creating /\ ent'[r] = ent[r]
  /\ upstream \subseteq upstream'
  /\ \A r \in Reqs : pc'[r] = "save" =>
       (pc[r] = "save" /\ key'[r] = key[r]) \/ key'[r] \in upstream'

LEMMA TameStep ==
  ASSUME IInv, RecordInv, Tame, NoTeardownInv'
  PROVE  RecordInv'
<1>1. MakingInv'
  <2> SUFFICES ASSUME NEW r \in Reqs, pc'[r] \in Creating PROVE heap'[ent'[r]].sess # "open"
    BY DEF MakingInv
  <2>1. pc[r] \in Creating /\ ent'[r] = ent[r]
    BY DEF Tame
  <2>2. ent[r] \in Entries
    BY <2>1 DEF IInv, ControlInv
  <2> QED
    BY <2>1, <2>2 DEF Tame, RecordInv, MakingInv
<1>2. OpenIsRecorded'
  <2> SUFFICES ASSUME ~shutdown', NEW k \in Keys, sessions'[k] # None,
                      heap'[sessions'[k]].sess = "open"
               PROVE  store'[k] # None /\ store'[k].public = heap'[sessions'[k]].spec.public
    BY DEF OpenIsRecorded
  <2>1. ~shutdown /\ sessions'[k] = sessions[k] /\ sessions[k] \in Entries
    BY DEF Tame, IInv, TypeOK
  <2>2. heap[sessions[k]].sess = "open" /\ heap'[sessions[k]].spec = heap[sessions[k]].spec
    BY <2>1 DEF Tame
  <2> QED
    BY <2>1, <2>2 DEF Tame, RecordInv, DurableInv, OpenIsRecorded
<1>3. OpenIsBacked'
  <2>1. ASSUME ~shutdown', NEW k \in Keys, sessions'[k] # None, heap'[sessions'[k]].sess = "open"
        PROVE  k \in upstream'
    <3>1. ~shutdown /\ sessions'[k] = sessions[k] /\ sessions[k] \in Entries
      BY <2>1 DEF Tame, IInv, TypeOK
    <3> QED
      BY <2>1, <3>1 DEF Tame, RecordInv, DurableInv, OpenIsBacked
  <2>2. ASSUME ~shutdown', NEW r \in Reqs, pc'[r] = "save" PROVE key'[r] \in upstream'
    BY <2>2 DEF Tame, RecordInv, DurableInv, OpenIsBacked
  <2> QED
    BY <2>1, <2>2 DEF OpenIsBacked
<1> QED
  BY <1>1, <1>2, <1>3 DEF RecordInv, DurableInv

\* What is left of an entry is open only if it was.
LEMMA LeftSess ==
  ASSUME NEW e, NEW v \in EntryRecords
  PROVE  Left(e, v).sess = "open" => v.sess = "open" /\ Left(e, v) = v
BY DEF Left, Vacant, Entry

LEMMA SetLeftTame ==
  ASSUME IInv, NEW e \in Entries, NEW v \in EntryRecords, SetLeft(e, v),
         v.sess = "open" => heap[e].sess = "open", v.spec = heap[e].spec
  PROVE  \A f \in Entries : heap'[f].sess = "open" =>
           heap[f].sess = "open" /\ heap'[f].spec = heap[f].spec
BY LeftSess DEF SetLeft, IInv, TypeOK

\* The steps of Acquire that neither open a session nor delete anything.
LEMMA AcquireRecord ==
  ASSUME IInv, RecordInv, NEW r \in Reqs,
         RejectSpec(r) \/ FoundEntry(r) \/ GiveUp(r) \/ LockEntry(r) \/ LeaseExisting(r)
           \/ RetryStale(r) \/ RejectCapacity(r) \/ Load(r) \/ Resume(r) \/ Create(r)
           \/ Cleanup(r)
  PROVE  RecordInv'
<1>1. NoTeardownInv'
  BY DEF RecordInv, NoTeardownInv, IInv, TypeOK, RejectSpec, FoundEntry, GiveUp, LockEntry,
         LeaseExisting, RetryStale, RejectCapacity, Load, Resume, Create, Cleanup
<1>2. CASE RejectSpec(r) \/ FoundEntry(r) \/ GiveUp(r) \/ LockEntry(r) \/ RejectCapacity(r)
             \/ Load(r) \/ Resume(r) \/ Create(r)
  <2>1. Tame
    BY <1>2 DEF Tame, IInv, TypeOK, RejectSpec, FoundEntry, GiveUp, LockEntry, RejectCapacity,
           Load, Resume, Create
  <2> QED
    BY <1>1, <2>1, TameStep
<1>3. CASE LeaseExisting(r)
  <2>1. ent[r] \in Entries /\ heap[ent[r]] \in EntryRecords
    BY <1>3 DEF IInv, TypeOK, ControlInv, LeaseExisting
  <2>2. Touched(heap[ent[r]]).sess = heap[ent[r]].sess
        /\ Touched(heap[ent[r]]).spec = heap[ent[r]].spec
    BY <2>1, UpdateSess, UpdateType
  <2>3. Tame
    BY <1>3, <2>1, <2>2 DEF Tame, IInv, TypeOK, LeaseExisting
  <2> QED
    BY <1>1, <2>3, TameStep
<1>4. CASE RetryStale(r) \/ Cleanup(r)
  <2>1. ent[r] \in Entries /\ heap[ent[r]] \in EntryRecords
    BY <1>4 DEF IInv, TypeOK, ControlInv, RetryStale, Cleanup
  <2>2. PICK v \in EntryRecords : SetLeft(ent[r], v) /\ v.sess = heap[ent[r]].sess
                                  /\ v.spec = heap[ent[r]].spec
    BY <1>4, <2>1, UpdateSess, UpdateType DEF RetryStale, Cleanup
  <2>3. \A f \in Entries : heap'[f].sess = "open" =>
           heap[f].sess = "open" /\ heap'[f].spec = heap[f].spec
    BY <2>1, <2>2, SetLeftTame
  <2>4. Tame
    BY <1>4, <2>3 DEF Tame, IInv, TypeOK, RetryStale, Cleanup, Unmap
  <2> QED
    BY <1>1, <2>4, TameStep
<1> QED
  BY <1>2, <1>3, <1>4

\* A new entry is not open, and no other is at its address.
LEMMA InsertRecord ==
  ASSUME IInv, RecordInv, NEW r \in Reqs, Insert(r)
  PROVE  RecordInv'
<1>1. PICK e \in Entries :
        /\ Unreferenced(e) /\ ent' = [ent EXCEPT ![r] = e]
        /\ heap' = [heap EXCEPT ![e] = NewEntry(key[r], spec[r])]
        /\ sessions' = [sessions EXCEPT ![key[r]] = e]
  BY DEF Insert
<1>2. key[r] \in Keys /\ spec[r] \in Specs
  BY DEF IInv, ControlInv, Insert
<1>3. heap'[e].sess = "none" /\ \A f \in Entries : f # e => heap'[f] = heap[f]
  BY <1>1, <1>2, NewEntryType DEF IInv, TypeOK
<1>4. NoTeardownInv'
  BY DEF RecordInv, NoTeardownInv, IInv, TypeOK, Insert
<1>5. MakingInv'
  <2> SUFFICES ASSUME NEW q \in Reqs, pc'[q] \in Creating PROVE heap'[ent'[q]].sess # "open"
    BY DEF MakingInv
  <2>1. CASE q = r
    BY <1>1, <1>3, <2>1 DEF IInv, TypeOK
  <2>2. CASE q # r
    <3>1. pc[q] \in Creating /\ ent'[q] = ent[q] /\ ent[q] \in Entries /\ ent[q] # e
      BY <1>1, <2>2 DEF Insert, IInv, TypeOK, ControlInv, Unreferenced
    <3> QED
      BY <1>3, <3>1 DEF RecordInv, MakingInv
  <2> QED
    BY <2>1, <2>2
<1>6. OpenIsRecorded'
  <2> SUFFICES ASSUME ~shutdown', NEW k \in Keys, sessions'[k] # None,
                      heap'[sessions'[k]].sess = "open"
               PROVE  store'[k] # None /\ store'[k].public = heap'[sessions'[k]].spec.public
    BY DEF OpenIsRecorded
  <2>1. k # key[r] /\ sessions'[k] = sessions[k] /\ sessions[k] \in Entries \ {e}
    BY <1>1, <1>2, <1>3 DEF IInv, TypeOK, Unreferenced
  <2> QED
    BY <1>3, <2>1 DEF RecordInv, DurableInv, OpenIsRecorded, Insert
<1>7. OpenIsBacked'
  <2>1. ASSUME ~shutdown', NEW k \in Keys, sessions'[k] # None, heap'[sessions'[k]].sess = "open"
        PROVE  k \in upstream'
    <3>1. k # key[r] /\ sessions'[k] = sessions[k] /\ sessions[k] \in Entries \ {e}
      BY <1>1, <1>2, <1>3, <2>1 DEF IInv, TypeOK, Unreferenced
    <3> QED
      BY <1>3, <2>1, <3>1 DEF RecordInv, DurableInv, OpenIsBacked, Insert
  <2>2. ASSUME ~shutdown', NEW q \in Reqs, pc'[q] = "save" PROVE key'[q] \in upstream'
    BY <2>2 DEF RecordInv, DurableInv, OpenIsBacked, Insert, IInv, TypeOK
  <2> QED
    BY <2>1, <2>2 DEF OpenIsBacked
<1> QED
  BY <1>4, <1>5, <1>6, <1>7 DEF RecordInv, DurableInv

\* Until the shutdown, one request at a time makes or uses the session of a key.
LEMMA OneMaker ==
  ASSUME IInv, ~shutdown, NEW q \in Reqs, NEW r \in Reqs, q # r,
         pc[q] \in Creating \cup {"leased"}, pc[r] \in Creating \cup {"leased"}
  PROVE  key[q] # key[r]
BY DEF IInv, CurrentInv, MutexInv, ControlInv

\* Until the shutdown, what the maker of a session deletes is its own, and its
\* session is not open.
LEMMA DropRecord ==
  ASSUME IInv, RecordInv, NEW r \in Reqs, RemoveRecord(r) \/ ForgetRecord(r) \/ RemoveUpstream(r)
  PROVE  RecordInv'
<1>1. NoTeardownInv' /\ MakingInv'
  BY DEF RecordInv, NoTeardownInv, MakingInv, IInv, TypeOK, RemoveRecord, ForgetRecord,
         RemoveUpstream, StoreDelete, UpstreamDelete
<1>2. /\ \A k \in Keys : k # key[r] => store'[k] = store[k] /\ (k \in upstream => k \in upstream')
      /\ UNCHANGED <<key, sessions, heap, shutdown>> /\ pc[r] \in Creating /\ pc[r] # "save"
  BY DEF RemoveRecord, ForgetRecord, RemoveUpstream, StoreDelete, UpstreamDelete, IInv, TypeOK
<1>3. ASSUME ~shutdown, NEW k \in Keys, sessions[k] # None, heap[sessions[k]].sess = "open"
      PROVE  k # key[r]
  BY <1>2, <1>3 DEF RecordInv, MakingInv, IInv, CurrentInv
<1>4. OpenIsRecorded'
  BY <1>2, <1>3 DEF RecordInv, DurableInv, OpenIsRecorded
<1>5. ASSUME ~shutdown, NEW q \in Reqs, pc'[q] = "save" PROVE key[q] \in upstream'
  <2>1. pc[q] = "save" /\ q # r
    BY <1>5 DEF RemoveRecord, ForgetRecord, RemoveUpstream, StoreDelete, UpstreamDelete, IInv, TypeOK
  <2>2. key[q] \in Keys /\ key[q] \in upstream
    BY <1>5, <2>1 DEF RecordInv, DurableInv, OpenIsBacked, IInv, ControlInv
  <2>3. key[q] # key[r]
    BY <1>2, <1>5, <2>1, OneMaker
  <2> QED
    BY <1>2, <2>2, <2>3
<1>6. OpenIsBacked'
  BY <1>2, <1>3, <1>5 DEF RecordInv, DurableInv, OpenIsBacked
<1> QED
  BY <1>1, <1>4, <1>6 DEF RecordInv, DurableInv

\* A saved record is that of the session it is saved for.
LEMMA SavedRecord ==
  ASSUME IInv, RecordInv, NEW r \in Reqs, Save(r) \/ Release(r)
  PROVE  RecordInv'
<1> DEFINE e == ent[r]
<1>0. e \in Entries /\ heap[e] \in EntryRecords /\ key[r] \in Keys /\ spec[r] \in Specs
      /\ heap[e].spec = spec[r] /\ heap[e].key = key[r]
  BY DEF IInv, TypeOK, ControlInv, EntryInv, OwnEntry, Save, Release
<1>1. NoTeardownInv'
  BY DEF RecordInv, NoTeardownInv, IInv, TypeOK, Save, Release
<1>2. \A f \in Entries : f # e => heap'[f] = heap[f]
  BY <1>0 DEF Save, Release, SetLeft, IInv, TypeOK
<1>3. heap'[e].sess = "open" => heap'[e].spec = spec[r]
  <2>1. CASE Save(r)
    <3>1. heap'[e] \in {Opened(heap[e]), Spoiled(heap[e])}
      BY <1>0, <2>1 DEF Save, IInv, TypeOK
    <3>2. Opened(heap[e]).spec = heap[e].spec /\ Spoiled(heap[e]).spec = heap[e].spec
      BY <1>0, UpdateType
    <3> QED
      BY <1>0, <3>1, <3>2
  <2>2. CASE Release(r)
    <3>1. Touched(heap[e]) \in EntryRecords /\ Touched(heap[e]).spec = heap[e].spec
      BY <1>0, UpdateType
    <3> QED
      BY <1>0, <2>2, <3>1, LeftSess DEF Release, SetLeft, IInv, TypeOK
  <2> QED
    BY <2>1, <2>2
<1>4. MakingInv'
  <2> SUFFICES ASSUME NEW q \in Reqs, pc'[q] \in Creating PROVE heap'[ent'[q]].sess # "open"
    BY DEF MakingInv
  <2>1. CASE q = r
    <3>1. heap'[e] = Spoiled(heap[e]) /\ ent'[r] = e
      BY <1>0, <2>1 DEF Save, Release, IInv, TypeOK
    <3> QED
      BY <1>0, <2>1, <3>1, UpdateSess
  <2>2. CASE q # r
    <3>1. pc[q] \in Creating /\ ent'[q] = ent[q]
      BY <2>2 DEF Save, Release, IInv, TypeOK
    <3>2. ent[q] \in Entries /\ ent[q] # e
      BY <2>2, <3>1 DEF Save, Release, IInv, ControlInv, MutexInv
    <3> QED
      BY <1>2, <3>1, <3>2 DEF RecordInv, MakingInv
  <2> QED
    BY <2>1, <2>2
<1>5. OpenIsRecorded'
  <2> SUFFICES ASSUME ~shutdown, NEW k \in Keys, sessions[k] # None,
                      heap'[sessions[k]].sess = "open"
               PROVE  store'[k] # None /\ store'[k].public = heap'[sessions[k]].spec.public
    BY DEF OpenIsRecorded, Save, Release
  <2>0. sessions[k] \in Entries /\ heap[sessions[k]].key = k /\ sessions[key[r]] = e
    BY DEF IInv, TypeOK, MapInv, CurrentInv, Save, Release
  <2>1. CASE k = key[r]
    <3>1. CASE Release(r) /\ UNCHANGED store
      BY <1>0, <1>3, <2>0, <2>1, <3>1
         DEF RecordInv, DurableInv, OpenIsRecorded, Release, IInv, EntryInv, LeasedOpen
    <3>2. CASE Save(r) /\ heap' = [heap EXCEPT ![e] = Spoiled(@)]
      BY <1>0, <2>0, <2>1, <3>2, UpdateSess DEF IInv, TypeOK
    <3>3. CASE store' = [store EXCEPT ![k] = Saved(spec[r].public, 0)]
      <4>1. Saved(spec[r].public, 0) \in Records
        BY <1>0 DEF Saved
      <4> QED
        BY <1>0, <1>3, <2>0, <2>1, <3>3, <4>1 DEF Saved, IInv, TypeOK
    <3> QED
      BY <1>0, <2>1, <3>1, <3>2, <3>3 DEF Save, Release
  <2>2. CASE k # key[r]
    <3>1. sessions[k] # e /\ store'[k] = store[k]
      BY <1>0, <2>0, <2>2 DEF Save, Release, IInv, TypeOK
    <3> QED
      BY <1>2, <2>0, <3>1 DEF RecordInv, DurableInv, OpenIsRecorded
  <2> QED
    BY <2>1, <2>2
<1>6. OpenIsBacked'
  <2>1. ASSUME ~shutdown, NEW k \in Keys, sessions[k] # None, heap'[sessions[k]].sess = "open"
        PROVE  k \in upstream
    <3>1. CASE sessions[k] # e
      BY <1>2, <2>1, <3>1 DEF RecordInv, DurableInv, OpenIsBacked, IInv, TypeOK
    <3>2. CASE sessions[k] = e
      <4>1. k = key[r]
        BY <1>0, <2>1, <3>2 DEF IInv, MapInv
      <4>2. CASE Save(r)
        BY <2>1, <4>1, <4>2 DEF Save, RecordInv, DurableInv, OpenIsBacked
      <4>3. CASE Release(r)
        BY <2>1, <3>2, <4>3 DEF Release, RecordInv, DurableInv, OpenIsBacked, IInv, EntryInv,
              LeasedOpen
      <4> QED
        BY <4>2, <4>3
    <3> QED
      BY <3>1, <3>2
  <2>2. ASSUME ~shutdown, NEW q \in Reqs, pc'[q] = "save" PROVE key'[q] \in upstream
    BY <2>2 DEF Save, Release, RecordInv, DurableInv, OpenIsBacked, IInv, TypeOK
  <2>3. UNCHANGED <<sessions, shutdown, upstream>>
    BY DEF Save, Release
  <2> QED
    BY <2>1, <2>2, <2>3 DEF OpenIsBacked
<1> QED
  BY <1>1, <1>4, <1>5, <1>6 DEF RecordInv, DurableInv

\* A preserving shutdown, and the passing of time.
LEMMA OtherRecord ==
  ASSUME IInv, RecordInv, NothingTornDown,
         \/ \E r \in Reqs : (\E k \in Keys, s \in Specs : Start(r, k, s))
                              \/ StartEphemeral(r) \/ EphemeralStep(r) \/ Discard(r)
         \/ \E p \in Reqs \cup {Janitor, Closer} : DestroyStep(p)
         \/ \E l \in Lookers : (\E k \in Keys : LookupStarts(l, k)) \/ LookupReturns(l)
         \/ SweepLooks \/ SweepStep \/ DisconnectStarts \/ CloseStarts \/ CloserStep \/ Environment
  PROVE  RecordInv'
<1>1. ASSUME NEW p \in Reqs \cup {Janitor, Closer} PROVE ~DestroyStep(p)
  <2>1. pc[p] \notin TearingDown
    BY DEF RecordInv, NoTeardownInv
  <2> QED
    BY <2>1 DEF DestroyStep, DestroyRecord, DestroyUpstream
<1>2. ~SweepLooks /\ ~CloseStarts /\ ~SweepStep
  BY <1>1 DEF NothingTornDown, SweepLooks, CloseStarts, EmptyMap, SweepStep, Sweep, SweepNext, SweepEnds,
         RecordInv, NoTeardownInv
<1>3. CASE \E r \in Reqs : (\E k \in Keys, s \in Specs : Start(r, k, s))
             \/ StartEphemeral(r) \/ EphemeralStep(r) \/ Discard(r)
  <2>1. NoTeardownInv'
    BY <1>3 DEF RecordInv, NoTeardownInv, IInv, TypeOK, Start, StartEphemeral, EphemeralStep,
          CreateEphemeral, EndEphemeral, Discard, NothingTornDown
  <2>2. Tame
    BY <1>3 DEF Tame, IInv, TypeOK, Start, StartEphemeral, EphemeralStep, CreateEphemeral,
          EndEphemeral, Discard, NothingTornDown
  <2> QED
    BY <2>1, <2>2, TameStep
<1>4. CASE \E l \in Lookers : (\E k \in Keys : LookupStarts(l, k)) \/ LookupReturns(l)
  <2>1. NoTeardownInv'
    BY <1>4 DEF RecordInv, NoTeardownInv, IInv, TypeOK, LookupStarts, LookupReturns
  <2>2. Tame
    BY <1>4 DEF Tame, IInv, TypeOK, LookupStarts, LookupReturns
  <2> QED
    BY <2>1, <2>2, TameStep
<1>5. CASE DisconnectStarts
  BY <1>5 DEF DisconnectStarts, EmptyMap, RecordInv, NoTeardownInv, MakingInv, DurableInv,
        OpenIsRecorded, OpenIsBacked, IInv, TypeOK
<1>6. CASE CloserStep
  <2>1. NoTeardownInv'
    BY <1>1, <1>6 DEF RecordInv, NoTeardownInv, IInv, TypeOK, CloserStep, SkipEntry, LockForClose,
          Disconnect, CloseEnds
  <2>2. Tame
    BY <1>1, <1>6, BlankType DEF Tame, IInv, TypeOK, ControlInv, CloserStep, SkipEntry, LockForClose,
          Disconnect, CloseEnds
  <2> QED
    BY <2>1, <2>2, TameStep
<1>7. CASE Environment
  <2>1. CASE Tick
    <3>1. NoTeardownInv'
      BY <2>1 DEF RecordInv, NoTeardownInv, Tick
    <3>2. \A e \in Entries : heap'[e].sess = heap[e].sess /\ heap'[e].spec = heap[e].spec
      BY <2>1, UpdateSess, UpdateType DEF Tick, IInv, TypeOK
    <3>3. \A k \in Keys : store[k] # None =>
            store'[k] # None /\ store'[k].public = store[k].public
      <4> SUFFICES ASSUME NEW k \in Keys, store[k] # None
                   PROVE  store'[k] # None /\ store'[k].public = store[k].public
        OBVIOUS
      <4>1. store[k] \in Records /\ OlderAge(store[k].age) \in 0..TTL
        BY OlderAgeType DEF IInv, TypeOK
      <4>2. Saved(store[k].public, OlderAge(store[k].age)) \in Records
        BY <4>1 DEF Saved
      <4> QED
        BY <2>1, <4>2 DEF Tick, Saved
    <3>4. Tame
      BY <2>1, <3>2, <3>3 DEF Tame, Tick
    <3> QED
      BY <3>1, <3>4, TameStep
  <2>2. CASE Restart
    BY <2>2 DEF Restart, RecordInv, NoTeardownInv, MakingInv, DurableInv, OpenIsRecorded,
          OpenIsBacked
  <2>3. ASSUME NEW k \in Keys, LateCreate(k) PROVE RecordInv'
    <3>1. Tame
      BY <2>3 DEF Tame, IInv, TypeOK, LateCreate
    <3> QED
      BY <2>3, <3>1, TameStep DEF RecordInv, NoTeardownInv, LateCreate
  <2>4. ASSUME NEW k \in Keys, UpstreamForgets(k) PROVE RecordInv'
    <3>1. NoTeardownInv' /\ MakingInv' /\ OpenIsRecorded'
      BY <2>4 DEF UpstreamForgets, RecordInv, NoTeardownInv, MakingInv, DurableInv, OpenIsRecorded
    <3>2. ASSUME NEW j \in Keys, sessions[j] # None PROVE j # k
      <4>1. sessions[j] \in Entries
        BY <3>2 DEF IInv, TypeOK
      <4>2. heap[sessions[j]].key = j
        BY <3>2 DEF IInv, MapInv
      <4> QED
        BY <2>4, <4>1, <4>2 DEF UpstreamForgets
    <3>3. ASSUME NEW r \in Reqs, pc[r] = "save" PROVE key[r] # k
      <4>1. ent[r] \in Entries
        BY <3>3 DEF IInv, ControlInv
      <4>2. heap[ent[r]].key = key[r]
        BY <3>3 DEF IInv, EntryInv, OwnEntry
      <4> QED
        BY <2>4, <4>1, <4>2 DEF UpstreamForgets
    <3>4. OpenIsBacked'
      BY <2>4, <3>2, <3>3 DEF UpstreamForgets, RecordInv, DurableInv, OpenIsBacked
    <3> QED
      BY <3>1, <3>4 DEF RecordInv, DurableInv
  <2> QED
    BY <1>7, <2>1, <2>2, <2>3, <2>4 DEF Environment
<1> QED
  BY <1>1, <1>2, <1>3, <1>4, <1>5, <1>6, <1>7

LEMMA NextRecord == NothingTornDown /\ IInv /\ RecordInv /\ [Next]_vars => RecordInv'
<1> SUFFICES ASSUME NothingTornDown, IInv, RecordInv, [Next]_vars PROVE RecordInv'
  OBVIOUS
<1>1. ASSUME NEW r \in Reqs, RequestStep(r) PROVE RecordInv'
  BY <1>1, AcquireRecord, InsertRecord, DropRecord, SavedRecord, OtherRecord
     DEF RequestStep, AcquireStep, LeaseStep
<1>2. CASE UNCHANGED vars
  BY <1>2 DEF vars, RecordInv, NoTeardownInv, MakingInv, DurableInv, OpenIsRecorded, OpenIsBacked
<1> QED
  BY <1>1, <1>2, OtherRecord DEF Next

LEMMA InitRecord == Init => RecordInv
  BY DEF Init, RecordInv, NoTeardownInv, MakingInv, DurableInv, OpenIsRecorded, OpenIsBacked

LEMMA LeasedIsDurable ==
  ASSUME IInv, RecordInv
  PROVE  LeaseIsRecorded /\ LeaseIsBacked
<1>1. ASSUME ~shutdown, NEW r \in Reqs, Leased(r)
      PROVE  /\ sessions[key[r]] = ent[r] /\ ent[r] # None /\ key[r] \in Keys
             /\ heap[ent[r]].sess = "open" /\ heap[ent[r]].spec = spec[r]
  BY <1>1 DEF IInv, TypeOK, ControlInv, CurrentInv, EntryInv, OwnEntry, LeasedOpen
<1>2. LeaseIsRecorded
  BY <1>1 DEF RecordInv, DurableInv, OpenIsRecorded, LeaseIsRecorded
<1>3. LeaseIsBacked
  BY <1>1 DEF RecordInv, DurableInv, OpenIsBacked, LeaseIsBacked
<1> QED
  BY <1>2, <1>3

\* Where nothing is torn down while the gateway runs, a leased key has a record
\* of its request's specification until the shutdown, across crashes, failing
\* stores and late calls (manager.go:177-256, 303-345).
THEOREM LeasesAreRecorded == ASSUME NothingTornDown PROVE Spec => []LeaseIsRecorded
<1>1. IInv /\ RecordInv /\ [Next]_vars => RecordInv'
  BY NextRecord
<1>2. IInv /\ RecordInv => LeaseIsRecorded
  BY LeasedIsDurable
<1> QED
  BY <1>1, <1>2, InitRecord, IInvariance, PTL DEF Spec

\* Under the same condition its upstream session is not deleted, and not
\* forgotten while an entry speaks of it (manager.go:177-256).
THEOREM LeasesAreBacked == ASSUME NothingTornDown PROVE Spec => []LeaseIsBacked
<1>1. IInv /\ RecordInv /\ [Next]_vars => RecordInv'
  BY NextRecord
<1>2. IInv /\ RecordInv => LeaseIsBacked
  BY LeasedIsDurable
<1> QED
  BY <1>1, <1>2, InitRecord, IInvariance, PTL DEF Spec

=============================================================================
