--------------------------- MODULE SessionManager ---------------------------
(***************************************************************************)
(* The persistent-session manager of the gateway                           *)
(* (src/internal/session/manager.go): a map from scoped session keys to    *)
(* entries, each guarded by its own mutex, over a durable record store     *)
(* and the upstream sessions of the Copilot CLI.                           *)
(*                                                                         *)
(* A step is one critical section of Manager.mu (two for the janitor's, in *)
(* which the holder of an entry may interfere), one operation on an entry's *)
(* mutex, one call of the store or one call of the upstream runtime.  An   *)
(* unlock that ends an operation is part of the step before it: it only    *)
(* enables others, so nothing can be observed in between.                  *)
(***************************************************************************)
EXTENDS Integers, FiniteSets

CONSTANTS
  Reqs,             \* request handlers; each runs one request after another
  Lookers,          \* handlers of /copilot responses, which only look keys up
  Janitor, Closer,  \* the expiry goroutine and the shutdown sequence
  Keys,             \* scoped session keys, "<namespace>:<session id>"
  Namespace,        \* the part of a key before the colon, as a function
  Publics, Secrets, \* the persisted part of a Spec and its secret fingerprint
  Entries,          \* addresses of managedSession values
  MaxActive,        \* Limits.MaxActiveSessions, 0 for no limit
  MaxPerNamespace,  \* Limits.MaxActivePerNamespace, 0 for no limit
  TTL,              \* session lifetime in ticks, 0 for no expiry
  Events,           \* the optional events of the environment a run admits
  None

AllEvents == {"ephemeral", "discard", "abandon", "sweep", "disconnect", "close",
              "crash", "forget"}

Specs == [public : Publics, secret : Secrets]
Records == [public : Publics, age : 0..TTL]
EntryRecords == [key : Keys \cup {None}, spec : Specs \cup {None},
                 sess : {"none", "open", "closed"}, ready : BOOLEAN, age : 0..TTL]
Procs == Reqs \cup Lookers \cup {Janitor, Closer}

ASSUME ConstantsAssumption ==
  /\ MaxActive \in Nat /\ MaxPerNamespace \in Nat /\ TTL \in Nat
  /\ Entries \subseteq Nat
  /\ Events \subseteq AllEvents
  /\ Reqs \cap Lookers = {} /\ Janitor # Closer
  /\ {Janitor, Closer} \cap (Reqs \cup Lookers) = {}
  /\ None \notin Keys \cup Entries \cup Specs \cup Records \cup Procs

VARIABLES
  pc, key, spec, ent, \* per goroutine: control point, arguments, entry pointer
  sessions,  \* Manager.sessions
  heap,      \* the managedSession at each address
  owner,     \* the holder of each entry's mutex
  batch,     \* entries taken out of the map and still to be torn down
  aged,      \* entries the janitor, which holds Manager.mu, has read as expired
  shutdown,  \* closeContext has emptied the map
  store,     \* the durable record of each key
  upstream,  \* keys whose upstream session exists (its id is the key)
  late       \* keys with a create call still running after its caller gave up

procVars == <<pc, key, spec, ent>>
memVars  == <<sessions, heap, owner, batch, aged, shutdown>>
extVars  == <<store, upstream, late>>
vars     == <<procVars, memVars, extVars>>

-----------------------------------------------------------------------------
(* Control points.                                                         *)

\* An Acquire that has inserted its entry and holds the entry's mutex.
Creating == {"load", "dropMismatched", "dropExpired", "purgeMismatched",
             "purgeExpired", "resume", "forget", "create", "save", "cleanup"}
TearingDown == {"destroy", "purge"}
HoldsMutex == Creating \cup TearingDown \cup {"recheck", "leased", "disconnect"}
Acquiring == Creating \cup {"lookup", "wait", "recheck"}
ReqPoints == Acquiring \cup TearingDown
               \cup {"idle", "leased", "ephemeralCreate", "ephemeralLeased"}

-----------------------------------------------------------------------------
(* The managed sessions.                                                   *)

\* A managedSession.  Ages count the ticks since the last touch and saturate
\* at TTL, so that the zero time of a new entry is age TTL.
Entry(k, s, sess, ready, age) ==
  [key |-> k, spec |-> s, sess |-> sess, ready |-> ready, age |-> age]

\* An address that holds no live entry.
Vacant(ready) == Entry(None, None, "none", ready, TTL)
Blank == Vacant(TRUE)
NewEntry(k, s) == Entry(k, s, "none", FALSE, TTL)

Ready(v)   == Entry(v.key, v.spec, v.sess, TRUE, v.age)
Touched(v) == Entry(v.key, v.spec, v.sess, v.ready, 0)
Opened(v)  == Entry(v.key, v.spec, "open", TRUE, 0)
Spoiled(v) == Entry(v.key, v.spec, "closed", v.ready, 0)
Closed(v)  == Entry(v.key, v.spec, IF v.sess = "open" THEN "closed" ELSE v.sess,
                    v.ready, v.age)

\* No pointer to e is left: the allocator may hand its address out again.
Unreferenced(e) == /\ \A k \in Keys : sessions[k] # e
                   /\ \A p \in Procs : ent[p] # e
                   /\ e \notin batch[Janitor] \cup batch[Closer]

\* A StoredSession: specForStorage leaves out the secret fingerprint.
Saved(public, age) == [public |-> public, age |-> age]

Expired(age) == TTL > 0 /\ age >= TTL
OlderAge(age) == IF age < TTL THEN age + 1 ELSE age
Older(v) == Entry(v.key, v.spec, v.sess, v.ready, OlderAge(v.age))

MappedKeys == {k \in Keys : sessions[k] # None}
Current(r) == sessions[key[r]] = ent[r]

\* Faulty: a limit already reached still admits one more.
HasCapacityOffByOne(k) ==
  /\ MaxActive > 0 => Cardinality(MappedKeys) <= MaxActive
  /\ MaxPerNamespace > 0 =>
       Cardinality({j \in MappedKeys : Namespace[j] = Namespace[k]}) <= MaxPerNamespace

\* validateCapacityLocked
HasCapacity(k) ==
  /\ MaxActive > 0 => Cardinality(MappedKeys) < MaxActive
  /\ MaxPerNamespace > 0 =>
       Cardinality({j \in MappedKeys : Namespace[j] = Namespace[k]}) < MaxPerNamespace

\* Only the janitor does something else while it holds Manager.mu: between its
\* reading of an entry's age and its TryLock the holder may let go of the entry.
MuFree == pc[Janitor] # "looking"

Goto(p, point) == pc' = [pc EXCEPT ![p] = point]

\* The goroutine returns from the operation and drops its locals.
Finish(r) == /\ Goto(r, "idle")
             /\ key'  = [key EXCEPT ![r] = None]
             /\ spec' = [spec EXCEPT ![r] = None]
             /\ ent'  = [ent EXCEPT ![r] = None]

Unlock(e) == owner' = [owner EXCEPT ![e] = None]

\* What is left of entry e once its mutex is free: of an entry that is neither
\* mapped nor awaited by the closer, no field but ready is read again.
Left(e, value) ==
  IF e \in batch'[Closer] \/ \E k \in Keys : sessions'[k] = e
  THEN value ELSE Vacant(value.ready)
SetLeft(e, value) == heap' = [heap EXCEPT ![e] = Left(e, value)]

Unmap(r) == sessions' = IF Current(r) THEN [sessions EXCEPT ![key[r]] = None] ELSE sessions

-----------------------------------------------------------------------------
Init ==
  /\ pc = [p \in Procs |-> "idle"]
  /\ key = [r \in Reqs |-> None]
  /\ spec = [r \in Reqs |-> None]
  /\ ent = [p \in Procs |-> None]
  /\ sessions = [k \in Keys |-> None]
  /\ heap = [e \in Entries |-> Blank]
  /\ owner = [e \in Entries |-> None]
  /\ batch = [p \in {Janitor, Closer} |-> {}]
  /\ aged = {}
  /\ shutdown = FALSE
  /\ store = [k \in Keys |-> None]
  /\ upstream = {}
  /\ late = {}

-----------------------------------------------------------------------------
(* Acquire                                                                 *)

\* A request with a session key enters Acquire.  The HTTP server has stopped
\* accepting requests before closeContext runs.
Start(r, k, s) ==
  /\ pc[r] = "idle" /\ ~shutdown
  /\ Goto(r, "lookup")
  /\ key'  = [key EXCEPT ![r] = k]
  /\ spec' = [spec EXCEPT ![r] = s]
  /\ UNCHANGED <<ent, memVars, extVars>>

\* A request without a key gets an ephemeral session, in no map and no store.
StartEphemeral(r) ==
  /\ "ephemeral" \in Events
  /\ pc[r] = "idle" /\ ~shutdown
  /\ Goto(r, "ephemeralCreate")
  /\ UNCHANGED <<key, spec, ent, memVars, extVars>>

\* The factory answers, or fails, or the request's context ends first.
CreateEphemeral(r) ==
  /\ pc[r] = "ephemeralCreate"
  /\ \E point \in {"ephemeralLeased", "idle"} : Goto(r, point)
  /\ UNCHANGED <<key, spec, ent, memVars, extVars>>

\* Release and Discard of an ephemeral lease both close the session.
EndEphemeral(r) ==
  /\ pc[r] = "ephemeralLeased"
  /\ Goto(r, "idle")
  /\ UNCHANGED <<key, spec, ent, memVars, extVars>>

\* The key is mapped to an entry of another specification.
RejectSpec(r) ==
  /\ pc[r] = "lookup"
  /\ MuFree
  /\ sessions[key[r]] # None
  /\ heap[sessions[key[r]]].spec # spec[r]
  /\ Finish(r)
  /\ UNCHANGED <<memVars, extVars>>

\* Faulty: an entry that is ready is used without its mutex.
FoundEntryReady(r) ==
  /\ pc[r] = "lookup"
  /\ MuFree
  /\ sessions[key[r]] # None
  /\ heap[sessions[key[r]]].spec = spec[r]
  /\ Goto(r, IF heap[sessions[key[r]]].ready THEN "recheck" ELSE "wait")
  /\ ent' = [ent EXCEPT ![r] = sessions[key[r]]]
  /\ UNCHANGED <<key, spec, memVars, extVars>>

\* The key is mapped to an entry of this specification: wait for its mutex.
FoundEntry(r) ==
  /\ pc[r] = "lookup"
  /\ MuFree
  /\ sessions[key[r]] # None
  /\ heap[sessions[key[r]]].spec = spec[r]
  /\ Goto(r, "wait")
  /\ ent' = [ent EXCEPT ![r] = sessions[key[r]]]
  /\ UNCHANGED <<key, spec, memVars, extVars>>

\* lockManagedSession returns the context's error.
GiveUp(r) ==
  /\ pc[r] = "wait"
  /\ Finish(r)
  /\ UNCHANGED <<memVars, extVars>>

\* TryLock succeeds.
LockEntry(r) ==
  /\ pc[r] = "wait"
  /\ owner[ent[r]] = None
  /\ owner' = [owner EXCEPT ![ent[r]] = r]
  /\ Goto(r, "recheck")
  /\ UNCHANGED <<key, spec, ent, sessions, heap, batch, aged, shutdown, extVars>>

\* Faulty: the map is not read again after the wait.
LeaseExistingUnchecked(r) ==
  /\ pc[r] = "recheck"
  /\ heap' = [heap EXCEPT ![ent[r]] = Touched(@)]
  /\ Goto(r, "leased")
  /\ UNCHANGED <<key, spec, ent, sessions, owner, batch, aged, shutdown, extVars>>

\* The entry is still the one mapped: lease it.
LeaseExisting(r) ==
  /\ pc[r] = "recheck"
  /\ MuFree
  /\ Current(r)
  /\ heap' = [heap EXCEPT ![ent[r]] = Touched(@)]
  /\ Goto(r, "leased")
  /\ UNCHANGED <<key, spec, ent, sessions, owner, batch, aged, shutdown, extVars>>

\* Faulty: the stale entry stays locked.
RetryStaleLocked(r) ==
  /\ pc[r] = "recheck"
  /\ MuFree
  /\ ~Current(r)
  /\ Goto(r, "lookup")
  /\ ent' = [ent EXCEPT ![r] = None]
  /\ UNCHANGED <<key, spec, memVars, extVars>>

\* The entry was replaced or removed while this request waited: start over.
RetryStale(r) ==
  /\ pc[r] = "recheck"
  /\ MuFree
  /\ ~Current(r)
  /\ Unlock(ent[r])
  /\ Goto(r, "lookup")
  /\ ent' = [ent EXCEPT ![r] = None]
  /\ UNCHANGED <<key, spec, sessions, batch, aged, shutdown, extVars>>
  /\ SetLeft(ent[r], heap[ent[r]])

RejectCapacity(r) ==
  /\ pc[r] = "lookup"
  /\ MuFree
  /\ sessions[key[r]] = None
  /\ ~HasCapacity(key[r])
  /\ Finish(r)
  /\ UNCHANGED <<memVars, extVars>>

\* A locked, not yet ready entry is published before its session exists.
Insert(r) ==
  /\ pc[r] = "lookup"
  /\ MuFree
  /\ sessions[key[r]] = None
  /\ HasCapacity(key[r])
  /\ \E e \in Entries :
       /\ Unreferenced(e)
       /\ \A f \in Entries : Unreferenced(f) => e <= f
       /\ ent' = [ent EXCEPT ![r] = e]
       /\ heap' = [heap EXCEPT ![e] = NewEntry(key[r], spec[r])]
       /\ owner' = [owner EXCEPT ![e] = r]
       /\ sessions' = [sessions EXCEPT ![key[r]] = e]
  /\ Goto(r, "load")
  /\ UNCHANGED <<key, spec, batch, aged, shutdown, extVars>>

\* store.Load, and what Acquire concludes from the record.
Load(r) ==
  LET k == key[r]
      rec == store[k]
      fresh == rec # None /\ rec.public = spec[r].public /\ ~Expired(rec.age)
  IN
  /\ pc[r] = "load"
  /\ \/ Goto(r, "cleanup")                         \* the store fails
     \/ rec = None /\ Goto(r, "create")
     \/ rec # None /\ rec.public # spec[r].public /\ Goto(r, "dropMismatched")
     \/ /\ rec # None /\ rec.public = spec[r].public /\ Expired(rec.age)
        /\ Goto(r, "dropExpired")
     \/ fresh /\ Goto(r, "resume")
  /\ UNCHANGED <<key, spec, ent, memVars, extVars>>

\* store.Delete(k), which may fail and then changes nothing.
StoreDelete(k, done, failed) ==
  \/ done /\ store' = [store EXCEPT ![k] = None]
  \/ failed /\ UNCHANGED store

\* deleteByID.  A session already gone counts as deleted; a call that reports
\* an error may have deleted the session all the same.
UpstreamDelete(k, done, failed) ==
  \/ done /\ upstream' = upstream \ {k}
  \/ failed /\ upstream' \in {upstream, upstream \ {k}}

\* removeStoredSession, first half: the record.
RemoveRecord(r) ==
  /\ pc[r] \in {"dropMismatched", "dropExpired"}
  /\ StoreDelete(key[r],
       Goto(r, IF pc[r] = "dropExpired" THEN "purgeExpired" ELSE "purgeMismatched"),
       Goto(r, "cleanup"))
  /\ UNCHANGED <<key, spec, ent, memVars, upstream, late>>

\* removeStoredSession, second half: the upstream session.
RemoveUpstream(r) ==
  /\ pc[r] \in {"purgeMismatched", "purgeExpired"}
  /\ UpstreamDelete(key[r],
       Goto(r, IF pc[r] = "purgeExpired" THEN "create" ELSE "cleanup"),
       Goto(r, "cleanup"))
  /\ UNCHANGED <<key, spec, ent, memVars, store, late>>

\* Faulty: a missing upstream session is taken for a resumed one.
ResumeUnchecked(r) ==
  /\ pc[r] = "resume"
  /\ Goto(r, "save") \/ Goto(r, "cleanup")
  /\ UNCHANGED <<key, spec, ent, memVars, extVars>>

\* The resume call: it succeeds, finds no such session, or fails otherwise
\* (the end of the request's context included).
Resume(r) ==
  /\ pc[r] = "resume"
  /\ \/ key[r] \in upstream /\ Goto(r, "save")
     \/ key[r] \notin upstream /\ Goto(r, "forget")
     \/ Goto(r, "cleanup")
  /\ UNCHANGED <<key, spec, ent, memVars, extVars>>

\* Faulty: the resume is tried again.
ForgetRecordAndRetry(r) ==
  /\ pc[r] = "forget"
  /\ StoreDelete(key[r], Goto(r, "resume"), Goto(r, "cleanup"))
  /\ UNCHANGED <<key, spec, ent, memVars, upstream, late>>

\* The record pointed to no session: delete it and create one.
ForgetRecord(r) ==
  /\ pc[r] = "forget"
  /\ StoreDelete(key[r], Goto(r, "create"), Goto(r, "cleanup"))
  /\ UNCHANGED <<key, spec, ent, memVars, upstream, late>>

\* The factory answers; or fails, with or without the session created; or
\* the context ends first and the call goes on without its caller.
Create(r) ==
  /\ pc[r] = "create"
  /\ \/ /\ upstream' = upstream \cup {key[r]}
        /\ Goto(r, "save")
        /\ UNCHANGED late
     \/ /\ upstream' \in {upstream, upstream \cup {key[r]}}
        /\ Goto(r, "cleanup")
        /\ UNCHANGED late
     \/ /\ "abandon" \in Events
        /\ late' = late \cup {key[r]}
        /\ Goto(r, "cleanup")
        /\ UNCHANGED upstream
  /\ UNCHANGED <<key, spec, ent, memVars, store>>

\* An abandoned create call takes effect upstream, or ends.  The goroutine
\* that waits for it only closes the handle.  A further abandoned call for a
\* key already in late is absorbed: the effect may come any number of times.
LateCreate(k) ==
  /\ k \in late
  /\ \/ upstream' = upstream \cup {k} /\ UNCHANGED late
     \/ late' = late \ {k} /\ UNCHANGED upstream
  /\ UNCHANGED <<procVars, memVars, store>>

\* Faulty: the entry is leased although its record could not be saved.
SaveIgnoringErrors(r) ==
  /\ pc[r] = "save"
  /\ \/ store' = [store EXCEPT ![key[r]] = Saved(spec[r].public, 0)]
     \/ UNCHANGED store
  /\ heap' = [heap EXCEPT ![ent[r]] = Opened(@)]
  /\ Goto(r, "leased")
  /\ UNCHANGED <<key, spec, ent, sessions, owner, batch, aged, shutdown, upstream, late>>

\* The fields of the entry are set and its record is saved.  If the save
\* succeeds the entry is ready and leased; if not the session is closed.
Save(r) ==
  /\ pc[r] = "save"
  /\ \/ /\ store' = [store EXCEPT ![key[r]] = Saved(spec[r].public, 0)]
        /\ heap' = [heap EXCEPT ![ent[r]] = Opened(@)]
        /\ Goto(r, "leased")
     \/ /\ heap' = [heap EXCEPT ![ent[r]] = Spoiled(@)]
        /\ Goto(r, "cleanup")
        /\ UNCHANGED store
  /\ UNCHANGED <<key, spec, ent, sessions, owner, batch, aged, shutdown, upstream, late>>

\* Faulty: the entry is unlocked while still mapped.
CleanupStillMapped(r) ==
  /\ pc[r] = "cleanup"
  /\ Unlock(ent[r])
  /\ Finish(r)
  /\ UNCHANGED <<sessions, batch, aged, shutdown, extVars>>
  /\ SetLeft(ent[r], Ready(heap[ent[r]]))

\* Faulty: the entry is never marked ready.
CleanupNotReady(r) ==
  /\ pc[r] = "cleanup"
  /\ MuFree
  /\ Unmap(r)
  /\ Unlock(ent[r])
  /\ Finish(r)
  /\ UNCHANGED <<batch, aged, shutdown, extVars>>
  /\ SetLeft(ent[r], heap[ent[r]])

\* cleanupEntry and the deferred markReady: the half-made entry leaves the
\* map, unless it no longer is the one mapped, and Acquire fails.
Cleanup(r) ==
  /\ pc[r] = "cleanup"
  /\ MuFree
  /\ Unmap(r)
  /\ Unlock(ent[r])
  /\ Finish(r)
  /\ UNCHANGED <<batch, aged, shutdown, extVars>>
  /\ SetLeft(ent[r], Ready(heap[ent[r]]))

-----------------------------------------------------------------------------
(* The end of a lease.  Its sync.Once admits one of the two.               *)

\* Release: touch, save the record again (or fail to), unlock.
Release(r) ==
  /\ pc[r] = "leased"
  /\ \/ store' = [store EXCEPT ![key[r]] =
                    Saved(heap[ent[r]].spec.public, 0)]
     \/ UNCHANGED store
  /\ Unlock(ent[r])
  /\ Finish(r)
  /\ UNCHANGED <<sessions, batch, aged, shutdown, upstream, late>>
  /\ SetLeft(ent[r], Touched(heap[ent[r]]))

\* Discard: unmap the entry, then destroy it.
Discard(r) ==
  /\ "discard" \in Events
  /\ pc[r] = "leased"
  /\ MuFree
  /\ Unmap(r)
  /\ Goto(r, "destroy")
  /\ UNCHANGED <<key, spec, ent, heap, owner, batch, aged, shutdown, extVars>>

-----------------------------------------------------------------------------
(* destroyPersistentSession, by whoever holds the entry's mutex.           *)

\* Where a goroutine goes on after it has torn an entry down.
Resumes(p) == IF p \in Reqs THEN Finish(p)
              ELSE /\ Goto(p, IF p = Janitor THEN "sweeping" ELSE "closing")
                   /\ ent' = [ent EXCEPT ![p] = None]
                   /\ UNCHANGED <<key, spec>>

\* The session is closed and the record deleted; an error is kept and the
\* teardown goes on.
DestroyRecord(p) ==
  /\ pc[p] = "destroy"
  /\ StoreDelete(heap[ent[p]].key, TRUE, TRUE)
  /\ heap' = [heap EXCEPT ![ent[p]] = Closed(@)]
  /\ Goto(p, "purge")
  /\ UNCHANGED <<key, spec, ent, sessions, owner, batch, aged, shutdown, upstream, late>>

\* The upstream session is deleted, if the entry ever had one, and the mutex
\* is released.
DestroyUpstream(p) ==
  LET e == ent[p] IN
  /\ pc[p] = "purge"
  /\ IF heap[e].sess = "none" THEN UNCHANGED upstream
                              ELSE UpstreamDelete(heap[e].key, TRUE, TRUE)
  /\ Unlock(e)
  /\ batch' = [b \in {Janitor, Closer} |-> IF b = p THEN batch[b] \ {e} ELSE batch[b]]
  /\ Resumes(p)
  /\ UNCHANGED <<sessions, aged, shutdown, store, late>>
  /\ SetLeft(e, heap[e])

-----------------------------------------------------------------------------
(* CleanupExpired                                                          *)

\* Under the manager's mutex, the age of each entry is read ...
SweepLooks ==
  /\ "sweep" \in Events
  /\ pc[Janitor] = "idle"
  /\ aged' = {e \in Entries : Expired(heap[e].age) /\ \E k \in Keys : sessions[k] = e}
  /\ aged' # {}
  /\ Goto(Janitor, "looking")
  /\ UNCHANGED <<key, spec, ent, sessions, heap, owner, batch, shutdown, extVars>>

\* Faulty: expired entries are taken although someone holds them.
StaleOrLocked == {e \in aged : \E k \in Keys : sessions[k] = e}

\* The expired entries, all of them still mapped, whose mutex is free.
Stale == {e \in aged : owner[e] = None /\ \E k \in Keys : sessions[k] = e}

\* ... and the stale ones are locked and unmapped.
Sweep ==
  /\ pc[Janitor] = "looking"
  /\ owner' = [e \in Entries |-> IF e \in Stale THEN Janitor ELSE owner[e]]
  /\ sessions' = [k \in Keys |-> IF sessions[k] \in Stale THEN None ELSE sessions[k]]
  /\ batch' = [batch EXCEPT ![Janitor] = Stale]
  /\ aged' = {}
  /\ Goto(Janitor, "sweeping")
  /\ UNCHANGED <<key, spec, ent, heap, shutdown, extVars>>

\* Destroy the next one of them.
SweepNext ==
  /\ pc[Janitor] = "sweeping"
  /\ \E e \in batch[Janitor] : /\ ent' = [ent EXCEPT ![Janitor] = e]
                               /\ Goto(Janitor, "destroy")
  /\ UNCHANGED <<key, spec, memVars, extVars>>

\* Faulty: the first error ends the loop with entries still locked.
SweepEndsEarly ==
  /\ pc[Janitor] = "sweeping"
  /\ batch' = [batch EXCEPT ![Janitor] = {}]
  /\ Goto(Janitor, "idle")
  /\ UNCHANGED <<key, spec, ent, sessions, heap, owner, aged, shutdown, extVars>>

SweepEnds ==
  /\ pc[Janitor] = "sweeping"
  /\ batch[Janitor] = {}
  /\ Goto(Janitor, "idle")
  /\ UNCHANGED <<key, spec, ent, memVars, extVars>>

-----------------------------------------------------------------------------
(* closeContext: DisconnectContext preserves records and upstream sessions, *)
(* CloseContext destroys them.                                             *)

\* Every entry leaves the map, its mutex held by anyone or no one.
EmptyMap(event, point) ==
  /\ event \in Events
  /\ pc[Closer] = "idle"
  /\ MuFree
  /\ Goto(Closer, point)
  /\ batch' = [batch EXCEPT ![Closer] = {sessions[k] : k \in MappedKeys}]
  /\ sessions' = [k \in Keys |-> None]
  /\ shutdown' = TRUE
  /\ UNCHANGED <<key, spec, ent, heap, owner, aged, extVars>>

DisconnectStarts == EmptyMap("disconnect", "disconnecting")
CloseStarts == EmptyMap("close", "closing")

\* Faulty: the closer locks each entry without a deadline.
SkipEntryNever(e) == e \in {} /\ UNCHANGED vars

\* The closer's context ends before it has this entry's mutex.
SkipEntry(e) ==
  /\ pc[Closer] \in {"disconnecting", "closing"}
  /\ e \in batch[Closer]
  /\ batch' = [batch EXCEPT ![Closer] = @ \ {e}]
  /\ heap' = [heap EXCEPT ![e] = IF owner[e] = None THEN Blank ELSE @]
  /\ UNCHANGED <<procVars, sessions, owner, aged, shutdown, extVars>>

LockForClose(e) ==
  /\ pc[Closer] \in {"disconnecting", "closing"}
  /\ e \in batch[Closer]
  /\ owner[e] = None
  /\ owner' = [owner EXCEPT ![e] = Closer]
  /\ ent' = [ent EXCEPT ![Closer] = e]
  /\ Goto(Closer, IF pc[Closer] = "closing" THEN "destroy" ELSE "disconnect")
  /\ UNCHANGED <<key, spec, sessions, heap, batch, aged, shutdown, extVars>>

\* disconnectPersistentSession closes the handle only.
Disconnect ==
  LET e == ent[Closer] IN
  /\ pc[Closer] = "disconnect"
  /\ Unlock(e)
  /\ batch' = [batch EXCEPT ![Closer] = @ \ {e}]
  /\ heap' = [heap EXCEPT ![e] = Blank]
  /\ ent' = [ent EXCEPT ![Closer] = None]
  /\ Goto(Closer, "disconnecting")
  /\ UNCHANGED <<key, spec, sessions, aged, shutdown, extVars>>

CloseEnds ==
  /\ pc[Closer] \in {"disconnecting", "closing"}
  /\ batch[Closer] = {}
  /\ Goto(Closer, "closed")
  /\ UNCHANGED <<key, spec, ent, memVars, extVars>>

-----------------------------------------------------------------------------
(* Lookup, and TouchActivity, which waits in the same way.                 *)

LookupStarts(l, k) ==
  /\ pc[l] = "idle"
  /\ MuFree
  /\ sessions[k] # None
  /\ ent' = [ent EXCEPT ![l] = sessions[k]]
  /\ Goto(l, "await")
  /\ UNCHANGED <<key, spec, memVars, extVars>>

LookupReturns(l) ==
  /\ pc[l] = "await"
  /\ heap[ent[l]].ready
  /\ ent' = [ent EXCEPT ![l] = None]
  /\ Goto(l, "idle")
  /\ UNCHANGED <<key, spec, memVars, extVars>>

-----------------------------------------------------------------------------
(* The environment.                                                        *)

\* Time passes for every entry and every record.
Tick ==
  /\ heap' = [e \in Entries |-> Older(heap[e])]
  /\ store' = [k \in Keys |-> IF store[k] = None THEN None
                              ELSE Saved(store[k].public, OlderAge(store[k].age))]
  /\ <<heap, store>>' # <<heap, store>>
  /\ UNCHANGED <<procVars, sessions, owner, batch, aged, shutdown, upstream, late>>

\* The process dies, or exits after the shutdown, and starts again: what is
\* durable stays.
Restart ==
  /\ "crash" \in Events \/ pc[Closer] = "closed"
  /\ pc' = [p \in Procs |-> "idle"]
  /\ key' = [r \in Reqs |-> None]
  /\ spec' = [r \in Reqs |-> None]
  /\ ent' = [p \in Procs |-> None]
  /\ sessions' = [k \in Keys |-> None]
  /\ heap' = [e \in Entries |-> Blank]
  /\ owner' = [e \in Entries |-> None]
  /\ batch' = [p \in {Janitor, Closer} |-> {}]
  /\ aged' = {}
  /\ shutdown' = FALSE
  /\ UNCHANGED extVars

\* The Copilot CLI drops a session no gateway entry is connected to.
UpstreamForgets(k) ==
  /\ "forget" \in Events
  /\ k \in upstream
  /\ \A e \in Entries : heap[e].key # k
  /\ upstream' = upstream \ {k}
  /\ UNCHANGED <<procVars, memVars, store, late>>

-----------------------------------------------------------------------------
AcquireStep(r) ==
  \/ RejectSpec(r) \/ FoundEntry(r) \/ GiveUp(r) \/ LockEntry(r)
  \/ LeaseExisting(r) \/ RetryStale(r) \/ RejectCapacity(r) \/ Insert(r)
  \/ Load(r) \/ RemoveRecord(r) \/ RemoveUpstream(r) \/ Resume(r)
  \/ ForgetRecord(r) \/ Create(r) \/ Save(r) \/ Cleanup(r)

LeaseStep(r) == Release(r) \/ Discard(r)

EphemeralStep(r) == CreateEphemeral(r) \/ EndEphemeral(r)

DestroyStep(p) == DestroyRecord(p) \/ DestroyUpstream(p)

RequestStep(r) == \/ AcquireStep(r) \/ LeaseStep(r)
                  \/ EphemeralStep(r) \/ DestroyStep(r)

SweepStep == Sweep \/ SweepNext \/ SweepEnds \/ DestroyStep(Janitor)

CloserStep == \/ \E e \in Entries : SkipEntry(e) \/ LockForClose(e)
              \/ Disconnect \/ CloseEnds \/ DestroyStep(Closer)

Environment == \/ Tick \/ Restart
               \/ \E k \in Keys : LateCreate(k) \/ UpstreamForgets(k)

Next ==
  \/ \E r \in Reqs : \/ \E k \in Keys, s \in Specs : Start(r, k, s)
                     \/ StartEphemeral(r)
                     \/ RequestStep(r)
  \/ \E l \in Lookers : \/ \E k \in Keys : LookupStarts(l, k)
                        \/ LookupReturns(l)
  \/ SweepLooks \/ SweepStep
  \/ DisconnectStarts \/ CloseStarts \/ CloserStep
  \/ Environment

Spec == Init /\ [][Next]_vars

\* A goroutine that has begun an operation keeps running: the store and the
\* CLI answer each call, by a failure if need be.  Strong fairness, since Go's
\* mutexes do not starve a goroutine that waits for Manager.mu.  The request's
\* deadline also makes GiveUp strongly fair: once it has passed, the next
\* attempt to lock an entry returns, however often the map has changed before.
\* Nothing makes a handler end its lease, a client send requests, time pass,
\* or the process stop.
Fairness ==
  /\ \A r \in Reqs : /\ SF_vars(AcquireStep(r) \/ CreateEphemeral(r) \/ DestroyStep(r))
                     /\ SF_vars(GiveUp(r))
  /\ \A l \in Lookers : WF_vars(LookupReturns(l))
  /\ WF_vars(SweepStep)
  /\ WF_vars(CloserStep)

FairSpec == Spec /\ Fairness

-----------------------------------------------------------------------------
(* Safety                                                                  *)

\* The type invariant of the manager's state and of its environment.
TypeOK ==
  /\ pc \in [Procs -> ReqPoints \cup {"await", "looking", "sweeping", "disconnecting",
                                      "closing", "disconnect", "closed"}]
  /\ key \in [Reqs -> Keys \cup {None}]
  /\ spec \in [Reqs -> Specs \cup {None}]
  /\ ent \in [Procs -> Entries \cup {None}]
  /\ sessions \in [Keys -> Entries \cup {None}]
  /\ heap \in [Entries -> EntryRecords]
  /\ owner \in [Entries -> Procs \cup {None}]
  /\ batch \in [{Janitor, Closer} -> SUBSET Entries]
  /\ aged \subseteq Entries
  /\ shutdown \in BOOLEAN
  /\ store \in [Keys -> Records \cup {None}]
  /\ upstream \subseteq Keys
  /\ late \subseteq Keys

Leased(r) == pc[r] = "leased"

\* A request that was handed a lease holds the entry's mutex, and the session
\* behind it exists, is open, and was made for exactly the key and the
\* specification (secret part included) the request asked for: a waiter is
\* never handed a session whose creation failed or that was torn down while
\* it waited (manager.go:130-142, 165-173).
LeaseIsUsable ==
  \A r \in Reqs : Leased(r) =>
    /\ owner[ent[r]] = r
    /\ heap[ent[r]].sess = "open"
    /\ heap[ent[r]].key = key[r]
    /\ heap[ent[r]].spec = spec[r]

\* Until the shutdown, a leased entry is the one its key maps to, so that
\* Lookup and the activity hooks reach the request that is running and no two
\* requests use one key at a time.
LeaseIsCurrent ==
  ~shutdown => \A r \in Reqs : Leased(r) => Current(r)

\* The manager implements the abstract leases of SessionLease: a request that
\* is granted a key has it to itself until the shutdown empties the map.
Lease == INSTANCE SessionLease
           WITH lease <- [r \in Reqs |-> IF Leased(r) THEN key[r] ELSE None],
                draining <- shutdown
LeaseSpec == Lease!Spec

\* A mutex is held only by a goroutine that is at a step which still releases
\* it: no error path returns with the entry locked (manager.go:177-253).
NoAbandonedMutex ==
  \A e \in Entries : owner[e] # None =>
    \/ owner[e] = Janitor /\ e \in batch[Janitor]
    \/ pc[owner[e]] \in HoldsMutex /\ ent[owner[e]] = e

\* A mapped entry nobody holds has an open session: what the next request
\* finds is never half-made or half-destroyed.
FreeEntryIsOpen ==
  \A k \in Keys : sessions[k] # None /\ owner[sessions[k]] = None =>
    heap[sessions[k]].sess = "open" /\ heap[sessions[k]].key = k

\* The limits count every mapped entry, those still being made included, and
\* are never exceeded however the requests interleave (manager.go:145-157).
CapacityRespected ==
  /\ MaxActive > 0 => Cardinality(MappedKeys) <= MaxActive
  /\ MaxPerNamespace > 0 =>
       \A k \in MappedKeys :
         Cardinality({j \in MappedKeys : Namespace[j] = Namespace[k]}) <= MaxPerNamespace

\* While a request leases a key before the shutdown, the key has a record of
\* its specification, so that a crash at any moment can resume the session.
LeaseIsRecorded ==
  ~shutdown => \A r \in Reqs : Leased(r) =>
    store[key[r]] # None /\ store[key[r]].public = spec[r].public

\* While a request leases a key before the shutdown, its upstream session is
\* not deleted.
LeaseIsBacked ==
  ~shutdown => \A r \in Reqs : Leased(r) => key[r] \in upstream

-----------------------------------------------------------------------------
(* The inductive invariant behind the safety properties.                   *)

\* Which control points a goroutine reaches, and with which locals.
ControlInv ==
  /\ \A r \in Reqs :
       /\ pc[r] \in ReqPoints
       /\ pc[r] \notin {"idle", "ephemeralCreate", "ephemeralLeased"} =>
            key[r] \in Keys /\ spec[r] \in Specs
       /\ pc[r] \in {"wait"} \cup HoldsMutex => ent[r] \in Entries
  /\ \A l \in Lookers : /\ pc[l] \in {"idle", "await"}
                         /\ pc[l] = "await" => ent[l] \in Entries
  /\ pc[Janitor] \in {"idle", "looking", "sweeping"} \cup TearingDown
  /\ pc[Janitor] \in {"idle", "looking"} => batch[Janitor] = {}
  /\ pc[Janitor] \in TearingDown => ent[Janitor] \in batch[Janitor]
  /\ pc[Closer] \in {"idle", "disconnecting", "closing", "disconnect", "closed"}
                      \cup TearingDown
  /\ pc[Closer] = "idle" => ~shutdown
  /\ pc[Closer] \in TearingDown \cup {"disconnect"} => ent[Closer] \in batch[Closer]

\* The goroutines that hold a mutex, and what holding it means.
MutexInv ==
  /\ \A r \in Reqs : pc[r] \in HoldsMutex => owner[ent[r]] = r
  /\ pc[Closer] \in TearingDown \cup {"disconnect"} => owner[ent[Closer]] = Closer
  /\ \A e \in batch[Janitor] : owner[e] = Janitor
  /\ NoAbandonedMutex

\* What the map says of an entry, and which entries have left it.
MapInv ==
  /\ \A k \in Keys : sessions[k] # None => heap[sessions[k]].key = k
  /\ \A k \in Keys : sessions[k] \notin batch[Janitor] \cup batch[Closer]
  /\ \A r \in Reqs, k \in Keys : pc[r] \in TearingDown => sessions[k] # ent[r]

\* An entry matches the request that made it or leases it, and, if it is not
\* vacant, the request that waits for it.
OwnEntry ==
  \A r \in Reqs : pc[r] \in Creating \cup {"leased"} =>
    heap[ent[r]].key = key[r] /\ heap[ent[r]].spec = spec[r]
AwaitedEntry ==
  \A r \in Reqs : pc[r] \in {"wait", "recheck"} /\ heap[ent[r]].key # None =>
    heap[ent[r]].key = key[r] /\ heap[ent[r]].spec = spec[r]

\* The session of a leased entry is open, and so is that of a mapped one
\* unless its maker still holds it.
LeasedOpen == \A r \in Reqs : Leased(r) => heap[ent[r]].sess = "open"
MappedOpen ==
  \A k \in Keys : sessions[k] # None /\ heap[sessions[k]].sess # "open" =>
    owner[sessions[k]] \in Reqs /\ pc[owner[sessions[k]]] \in Creating

EntryInv == OwnEntry /\ AwaitedEntry /\ LeasedOpen /\ MappedOpen

\* Until the shutdown, an entry in the making or in use is mapped.
CurrentInv ==
  ~shutdown => \A r \in Reqs : pc[r] \in Creating \cup {"leased"} => Current(r)

IInv == TypeOK /\ ControlInv /\ MutexInv /\ MapInv /\ EntryInv /\ CurrentInv

-----------------------------------------------------------------------------
(* Liveness                                                                *)

\* Every Acquire returns, with a lease or an error.
AcquireReturns == \A r \in Reqs : pc[r] \in Acquiring ~> pc[r] \in {"idle", "leased"}

\* Lookup waits for an entry to be ready without a context, and still returns:
\* every path that inserts an entry marks it ready.
LookupsReturn == \A l \in Lookers : pc[l] = "await" ~> pc[l] = "idle"

\* A shutdown comes to its end even if the handlers that hold the entries
\* never let go of them.
ShutdownEnds == shutdown ~> pc[Closer] = "closed" \/ ~shutdown

=============================================================================
