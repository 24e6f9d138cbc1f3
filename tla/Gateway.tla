------------------------------ MODULE Gateway ------------------------------
(***************************************************************************)
(* The request handlers of the gateway (src/internal/httpapi/server.go,    *)
(* interactive.go) for requests with a session id: each acquires its       *)
(* session, prepares and sends a turn, and releases or discards the        *)
(* session; continuations answer a stream's pending requests and keep it   *)
(* alive; a signal ends the process (src/cmd/copilot-sdkapi/main.go).      *)
(*                                                                         *)
(* Of the session manager (src/internal/session/manager.go) an acquisition *)
(* and a release are one step each, under the entry's mutex.  A discard    *)
(* and the sweep unmap a session before they delete its record and what    *)
(* the CLI has of it, and the next request may come in between.            *)
(* SessionManager has the other steps.  A turn is one call of Send, whose  *)
(* steps SendTurn and InteractiveBridge have.                              *)
(***************************************************************************)
EXTENDS Integers

CONSTANTS
  Reqs,   \* handlers of chat completions and messages
  Conts,  \* handlers of continuations
  Keys,   \* scoped session keys
  Idle,   \* StreamIdleTimeout in ticks, 0 for no idle timer
  Events, \* what may happen besides
  None

AllEvents == {"expire", "attachments", "deleteFails", "late", "forget", "crash"}

ASSUME GatewayAssumption ==
  /\ Idle \in Nat /\ Events \subseteq AllEvents /\ None \notin Reqs \cup Keys

VARIABLES
  pc, key, streaming,  \* per request: control point and arguments
  created,   \* Lease.Created
  failed,    \* the handler's discarded flag
  over,      \* the request's context is over, for whatever cause
  clock,     \* per stream: age of lastActivity, time left on the timer, touchCh
  asking,    \* requests whose turn waits for an answer
  lease, draining,  \* see SessionLease
  mapped,    \* keys with an entry in Manager.sessions
  record,    \* keys with a durable record
  upstream,  \* what the CLI has of each key: no session, an empty one, whole
             \* turns, another one begun, or a turn that is missing or not whole
  hook,      \* the request whose touch is the entry's activity hook
  cont,      \* per continuation: control point, key, whether its session is live
  janitor,   \* what CleanupExpired has unmapped: keys left, and the one in hand
  signalled, \* the signal context is done
  tainted    \* (history) keys whose session may lack a turn for a known reason

Manager == INSTANCE SessionLease

argVars  == <<key, streaming, created>>
keyVars  == <<mapped, record, upstream, tainted>>
procVars == <<draining, signalled, janitor>>
vars == <<pc, argVars, failed, over, clock, asking, lease, procVars, keyVars, hook, cont>>

Holding == {"prepare", "hook", "head", "turn", "tail", "clear", "end"}
\* The session is unmapped, and not yet deleted.
Teardown == {"destroy", "purge"}
Points == Holding \cup Teardown \cup {"idle", "acquire"}
Clocks == [age : 0..Idle, timer : 0..Idle, touched : BOOLEAN]
NewClock == [age |-> 0, timer |-> Idle, touched |-> FALSE]
ContRecords == [at : {"idle", "resolve", "touch"}, key : Keys \cup {None}, live : BOOLEAN]
NoCont == [at |-> "idle", key |-> None, live |-> FALSE]
Resting == [left |-> {}, at |-> None]

Init ==
  /\ pc = [r \in Reqs |-> "idle"] /\ key = [r \in Reqs |-> None]
  /\ streaming = [r \in Reqs |-> FALSE] /\ created = [r \in Reqs |-> FALSE]
  /\ failed = [r \in Reqs |-> FALSE] /\ over = [r \in Reqs |-> FALSE]
  /\ clock = [r \in Reqs |-> NewClock] /\ asking = {}
  /\ Manager!Init
  /\ mapped = {} /\ record = {} /\ upstream = [k \in Keys |-> "none"]
  /\ hook = [k \in Keys |-> None]
  /\ cont = [c \in Conts |-> NoCont] /\ janitor = Resting /\ signalled = FALSE
  /\ tainted = {}

Goto(r, p) == pc' = [pc EXCEPT ![r] = p]
Active(r) == pc[r] # "idle"
Free(k) == \A r \in Reqs : lease[r] # k

\* No request, or one that has given its session up: what may be left of it are
\* the deletions.
GivenUp(r) == pc[r] \in {"idle"} \cup Teardown

\* Someone deletes the session that k had, and not the one it may have by now.
Discarded(k) == \E r \in Reqs : pc[r] \in Teardown /\ key[r] = k
TornDown(k) == Discarded(k) \/ k \in janitor.left \/ k = janitor.at

-----------------------------------------------------------------------------
(* The idle timer of a stream: newIdleContext.                             *)

Timed(r) == Idle > 0 /\ streaming[r] /\ Active(r) /\ ~over[r]

Touched(r) == [clock EXCEPT ![r].age = 0, ![r].touched = ~over[r]]

\* Contexts are over.  The goroutines of their timers return, and nobody looks
\* at their timers and channels any more.
ContextOver(R) ==
  /\ over' = [r \in Reqs |-> over[r] \/ r \in R]
  /\ clock' = [r \in Reqs |-> IF r \in R THEN [NewClock EXCEPT !.age = clock[r].age] ELSE clock[r]]

\* Faulty: the signal stays in the channel.
TimerTouchedKeeps(r) ==
  /\ Timed(r) /\ clock[r].touched
  /\ clock' = [clock EXCEPT ![r].timer = IF clock[r].age < Idle THEN Idle - clock[r].age ELSE Idle]
  /\ UNCHANGED over

\* The goroutine receives from touchCh: the timer runs for what is left since
\* the last activity, or anew if that is over.
TimerTouched(r) ==
  /\ Timed(r) /\ clock[r].touched
  /\ clock' = [clock EXCEPT ![r].touched = FALSE,
                 ![r].timer = IF clock[r].age < Idle THEN Idle - clock[r].age ELSE Idle]
  /\ UNCHANGED over

TimerFires(r) ==
  /\ Timed(r) /\ clock[r].timer = 0
  /\ IF clock[r].age < Idle
     THEN clock' = [clock EXCEPT ![r].timer = Idle - clock[r].age] /\ UNCHANGED over
     ELSE ContextOver({r})

TimerStep(r) ==
  /\ TimerTouched(r) \/ TimerFires(r)
  /\ UNCHANGED <<pc, argVars, failed, asking, lease, procVars, keyVars, hook, cont>>

Tick ==
  /\ \E r \in Reqs : Timed(r) /\ (clock[r].timer > 0 \/ clock[r].age < Idle)
  /\ clock' = [r \in Reqs |->
       IF Timed(r)
       THEN [clock[r] EXCEPT !.age = IF @ < Idle THEN @ + 1 ELSE @,
                             !.timer = IF @ > 0 THEN @ - 1 ELSE @]
       ELSE clock[r]]
  /\ UNCHANGED <<pc, argVars, failed, over, asking, lease, procVars, keyVars, hook, cont>>

\* The client leaves, or the request's deadline passes.
ContextEnds(r) ==
  /\ ~GivenUp(r) /\ ~over[r]
  /\ ContextOver({r})
  /\ UNCHANGED <<pc, argVars, failed, asking, lease, procVars, keyVars, hook, cont>>

-----------------------------------------------------------------------------
(* A request: up to the lease.                                             *)

\* A new request.  Its context comes from the signal context.
Begin(r, k, s) ==
  /\ pc[r] = "idle" /\ ~draining
  /\ Goto(r, "acquire")
  /\ key' = [key EXCEPT ![r] = k]
  /\ streaming' = [streaming EXCEPT ![r] = s]
  /\ over' = [over EXCEPT ![r] = signalled]
  /\ UNCHANGED <<created, failed, clock, asking, lease, procVars, keyVars, hook, cont>>

\* Nobody looks at the handler's variables, its context and its timer any more.
Reset(r) ==
  /\ streaming' = [streaming EXCEPT ![r] = FALSE]
  /\ created' = [created EXCEPT ![r] = FALSE]
  /\ failed' = [failed EXCEPT ![r] = FALSE]
  /\ over' = [over EXCEPT ![r] = FALSE]
  /\ clock' = [clock EXCEPT ![r] = NewClock]

\* The handler returns.
Return(r) == Goto(r, "idle") /\ key' = [key EXCEPT ![r] = None] /\ Reset(r)

\* Acquire finds the session in memory or resumes it from its record ...
CanContinue(k) == k \in mapped \/ (k \in record /\ upstream[k] # "none")
\* ... or makes it, for want of a record or of the session, or because the
\* record has expired.
CanCreate(k) ==
  k \notin mapped /\ (k \in record => upstream[k] = "none" \/ "expire" \in Events)

Acquire(r) ==
  LET k == key[r] IN
  /\ pc[r] = "acquire" /\ ~draining
  /\ Manager!Grant(r, k)
  /\ \/ /\ CanContinue(k)
        /\ tainted' = IF TornDown(k) THEN tainted \cup {k} ELSE tainted
        /\ UNCHANGED <<created, record, upstream>>
     \/ /\ CanCreate(k)
        /\ created' = [created EXCEPT ![r] = TRUE]
        /\ record' = record \cup {k}
        /\ upstream' = [upstream EXCEPT ![k] = "empty"]
        /\ tainted' = IF TornDown(k) THEN tainted \cup {k} ELSE tainted \ {k}
  /\ mapped' = mapped \cup {k}
  /\ hook' = IF k \in mapped THEN hook ELSE [hook EXCEPT ![k] = None]
  /\ Goto(r, "prepare")
  /\ UNCHANGED <<key, streaming, failed, over, clock, asking, signalled, janitor, cont>>

\* Faulty: the wait for the entry's mutex does not end with the context.
AcquireFailsOnceFree(r) ==
  LET k == key[r] IN
  /\ pc[r] = "acquire" /\ Free(k)
  /\ Return(r)
  /\ UNCHANGED <<asking, lease, procVars, keyVars, hook, cont>>

\* A check fails, or Acquire does: at a limit, on a specification, in the
\* store, upstream or at the end of the context.  By then it may have removed
\* the record, for another specification or its age, and the session, or made
\* one that is not recorded.
AcquireFails(r) ==
  LET k == key[r] IN
  /\ pc[r] = "acquire"
  /\ Return(r)
  /\ \/ UNCHANGED <<record, upstream>>
     \/ /\ k \notin mapped /\ Free(k) /\ ~draining
        /\ record' = record \ {k}
        /\ \E u \in {"none", upstream[k]} \cup (IF CanCreate(k) THEN {"empty"} ELSE {}) :
             upstream' = [upstream EXCEPT ![k] = u]
  /\ UNCHANGED <<asking, lease, procVars, mapped, hook, cont, tainted>>

-----------------------------------------------------------------------------
(* A request: from the lease to its end.                                   *)

\* Faulty: this exit forgets the lease.
PrepareFailsLeaky(r) ==
  /\ "attachments" \in Events
  /\ pc[r] = "prepare"
  /\ Return(r)
  /\ UNCHANGED <<asking, lease, procVars, keyVars, hook, cont>>

\* The attachments cannot be had: the lease is released at once.
PrepareFails(r) ==
  /\ "attachments" \in Events
  /\ pc[r] = "prepare"
  /\ record' = record \cup {key[r]}
  /\ tainted' = IF created[r] THEN tainted \cup {key[r]} ELSE tainted
  /\ Manager!End(r)
  /\ Return(r)
  /\ UNCHANGED <<asking, signalled, janitor, mapped, upstream, hook, cont>>

\* The turn begins, on what the CLI has: all turns before it, if the session
\* had them or the whole conversation is sent to a new one.
Sends(r) == upstream' = [upstream EXCEPT ![key[r]] =
  IF @ = "none" THEN "none"
  ELSE IF @ = "whole" \/ (@ = "empty" /\ created[r]) THEN "open" ELSE "broken"]

\* A request that is not a stream goes on to Send.
Prepare(r) ==
  /\ pc[r] = "prepare"
  /\ IF streaming[r]
     THEN Goto(r, "hook") /\ UNCHANGED upstream
     ELSE Goto(r, "turn") /\ Sends(r)
  /\ UNCHANGED <<argVars, failed, over, clock, asking, lease, procVars, mapped, record, hook, cont, tainted>>

SetActivityHook(r) ==
  /\ pc[r] = "hook"
  /\ hook' = IF key[r] \in mapped THEN [hook EXCEPT ![key[r]] = r] ELSE hook
  /\ Goto(r, "head")
  /\ UNCHANGED <<argVars, failed, over, clock, asking, lease, procVars, keyVars, cont>>

\* The handler returns, with its failure, if any: a stream clears its hook
\* before the lease ends.
Ends(r, bad) ==
  /\ Goto(r, IF streaming[r] THEN "clear" ELSE "end")
  /\ failed' = [failed EXCEPT ![r] = bad]

\* The head of the stream is written; Send begins with a touch.
Head(r) ==
  /\ pc[r] = "head"
  /\ Goto(r, "turn") /\ Sends(r)
  /\ clock' = Touched(r)
  /\ UNCHANGED <<argVars, failed, over, asking, lease, procVars, mapped, record, hook, cont, tainted>>

HeadFails(r) ==
  /\ pc[r] = "head"
  /\ Ends(r, TRUE)
  /\ UNCHANGED <<argVars, over, clock, asking, lease, procVars, keyVars, hook, cont>>

\* Send passes an event on: a stream is touched, and may be asked something.
Event(r) ==
  /\ pc[r] = "turn" /\ streaming[r]
  /\ clock' = Touched(r)
  /\ \E A \in {asking, asking \cup {r}} : asking' = A
  /\ UNCHANGED <<pc, argVars, failed, over, lease, procVars, keyVars, hook, cont>>

\* A session that was deleted in the turn is gone, or has the rest of it.
TurnSucceeds(r) ==
  /\ pc[r] = "turn"
  /\ \E u \in IF upstream[key[r]] = "open" THEN {"whole"} ELSE {upstream[key[r]], "broken"} :
       upstream' = [upstream EXCEPT ![key[r]] = u]
  /\ asking' = asking \ {r}
  /\ Goto(r, IF streaming[r] THEN "tail" ELSE "end")
  /\ UNCHANGED <<argVars, failed, over, clock, lease, procVars, mapped, record, hook, cont, tainted>>

\* Faulty: the end of the context is not taken for a failure.
TurnFailsUnlessOver(r) ==
  /\ pc[r] = "turn"
  /\ asking' = asking \ {r}
  /\ Ends(r, ~over[r])
  /\ UNCHANGED <<argVars, over, clock, lease, procVars, keyVars, hook, cont>>

\* Send fails, be it with the context, the session or a write to the client.
TurnFails(r) ==
  /\ pc[r] = "turn"
  /\ asking' = asking \ {r}
  /\ Ends(r, TRUE)
  /\ UNCHANGED <<argVars, over, clock, lease, procVars, keyVars, hook, cont>>

\* The rest of the stream is written, or cannot be.
Tail(r) ==
  /\ pc[r] = "tail"
  /\ \E bad \in BOOLEAN : Ends(r, bad)
  /\ UNCHANGED <<argVars, over, clock, asking, lease, procVars, keyVars, hook, cont>>

\* Faulty: the hook stays.
ClearActivityNot(r) ==
  /\ pc[r] = "clear"
  /\ Goto(r, "end")
  /\ UNCHANGED <<argVars, failed, over, clock, asking, lease, procVars, keyVars, hook, cont>>

ClearActivity(r) ==
  /\ pc[r] = "clear"
  /\ hook' = [hook EXCEPT ![key[r]] = None]
  /\ Goto(r, "end")
  /\ UNCHANGED <<argVars, failed, over, clock, asking, lease, procVars, keyVars, cont>>

\* Continuations that have looked k up keep a session nobody uses any more.
Orphaned(k) == [c \in Conts |->
  IF cont[c].key = k THEN [cont[c] EXCEPT !.live = FALSE] ELSE cont[c]]

Release(r) ==
  /\ pc[r] = "end" /\ ~failed[r]
  /\ record' = record \cup {key[r]}
  /\ Manager!End(r)
  /\ Return(r)
  /\ UNCHANGED <<asking, signalled, janitor, mapped, upstream, hook, cont, tainted>>

\* The session leaves the map: from then on the next request gets an entry of
\* its own.
Discard(r) ==
  /\ pc[r] = "end" /\ failed[r]
  /\ Manager!End(r)
  /\ mapped' = mapped \ {key[r]}
  /\ cont' = Orphaned(key[r])
  /\ Goto(r, "destroy") /\ Reset(r)
  /\ UNCHANGED <<key, asking, signalled, janitor, record, upstream, tainted, hook>>

RecordDeleted(k) == \/ record' = record \ {k}
                    \/ "deleteFails" \in Events /\ UNCHANGED record

UpstreamDeleted(k) == \/ upstream' = [upstream EXCEPT ![k] = "none"]
                      \/ "deleteFails" \in Events /\ UNCHANGED upstream

\* The session is closed and the record of its key deleted.
DestroyRecord(r) ==
  /\ pc[r] = "destroy"
  /\ RecordDeleted(key[r])
  /\ Goto(r, "purge")
  /\ UNCHANGED <<argVars, failed, over, clock, asking, lease, procVars, mapped, upstream, tainted, hook, cont>>

\* The CLI's session of that id is deleted.
DestroyUpstream(r) ==
  LET k == key[r] IN
  /\ pc[r] = "purge"
  /\ UpstreamDeleted(k)
  /\ tainted' = IF k \in record /\ upstream'[k] \notin {"none", "whole"}
                THEN tainted \cup {k} ELSE tainted
  /\ Return(r)
  /\ UNCHANGED <<asking, lease, procVars, mapped, record, hook, cont>>

-----------------------------------------------------------------------------
(* The other users of sessions.                                            *)

\* The janitor unmaps sessions nobody uses ...
Expire(B) ==
  /\ "expire" \in Events
  /\ janitor = Resting /\ B # {} /\ B \subseteq mapped /\ \A k \in B : Free(k)
  /\ mapped' = mapped \ B
  /\ janitor' = [Resting EXCEPT !.left = B]
  /\ cont' = [c \in Conts |->
       IF cont[c].key \in B THEN [cont[c] EXCEPT !.live = FALSE] ELSE cont[c]]
  /\ UNCHANGED <<pc, argVars, failed, over, clock, asking, lease, draining, signalled,
                 record, upstream, tainted, hook>>

\* ... and then destroys them one after the other.
SweepRecord(k) ==
  /\ k \in janitor.left /\ janitor.at = None
  /\ RecordDeleted(k)
  /\ janitor' = [left |-> janitor.left \ {k}, at |-> k]
  /\ UNCHANGED <<pc, argVars, failed, over, clock, asking, lease, draining, signalled,
                 mapped, upstream, tainted, hook, cont>>

SweepUpstream(k) ==
  /\ k = janitor.at
  /\ UpstreamDeleted(k)
  /\ janitor' = [janitor EXCEPT !.at = None]
  /\ UNCHANGED <<pc, argVars, failed, over, clock, asking, lease, draining, signalled,
                 mapped, record, tainted, hook, cont>>

\* A creation takes effect whose request was given up.  Any request may have
\* been, so one may be under way at any time; of a session that is there the
\* CLI does not make another.
LateCreate(k) ==
  /\ "late" \in Events
  /\ upstream[k] = "none"
  /\ upstream' = [upstream EXCEPT ![k] = "empty"]
  /\ tainted' = IF k \in record THEN tainted \cup {k} ELSE tainted
  /\ UNCHANGED <<pc, argVars, failed, over, clock, asking, lease, procVars,
                 mapped, record, hook, cont>>

\* The CLI drops a session no entry is connected to.
UpstreamForgets(k) ==
  /\ "forget" \in Events
  /\ k \notin mapped /\ Free(k) /\ ~TornDown(k)
  /\ upstream' = [upstream EXCEPT ![k] = "none"]
  /\ UNCHANGED <<pc, argVars, failed, over, clock, asking, lease, procVars,
                 mapped, record, tainted, hook, cont>>

ContStep(c, v) == cont' = [cont EXCEPT ![c] = v]

\* A continuation looks its session up.
Lookup(c, k) ==
  /\ cont[c].at = "idle" /\ k \in mapped
  /\ ContStep(c, [at |-> "resolve", key |-> k, live |-> TRUE])
  /\ UNCHANGED <<pc, argVars, failed, over, clock, asking, lease, procVars, keyVars, hook>>

\* It answers what the session's turn has asked ...
Resolve(c) ==
  /\ cont[c].at = "resolve" /\ cont[c].live
  /\ \E r \in asking : lease[r] = cont[c].key /\ asking' = asking \ {r}
  /\ ContStep(c, [cont[c] EXCEPT !.at = "touch", !.live = FALSE])
  /\ UNCHANGED <<pc, argVars, failed, over, clock, lease, procVars, keyVars, hook>>

\* ... or is told that nothing is pending, as it is if it cannot be read.
NotPending(c) ==
  /\ cont[c].at = "resolve"
  /\ ContStep(c, NoCont)
  /\ UNCHANGED <<pc, argVars, failed, over, clock, asking, lease, procVars, keyVars, hook>>

\* TouchActivity runs the hook of the entry the key has by now.
TouchActivity(c) ==
  LET k == cont[c].key IN
  /\ cont[c].at = "touch"
  /\ clock' = IF k \in mapped /\ hook[k] # None THEN Touched(hook[k]) ELSE clock
  /\ ContStep(c, NoCont)
  /\ UNCHANGED <<pc, argVars, failed, over, asking, lease, procVars, keyVars, hook>>

-----------------------------------------------------------------------------
(* The process.                                                            *)

\* SIGINT or SIGTERM: every request's context ends with the signal context.
Signal ==
  /\ ~signalled
  /\ signalled' = TRUE
  /\ ContextOver({r \in Reqs : ~GivenUp(r) /\ ~over[r]})
  /\ UNCHANGED <<pc, argVars, failed, asking, lease, draining, janitor, keyVars, hook, cont>>

\* Shutdown of the HTTP server is over, with or without its requests;
\* DisconnectContext empties the map.
Drain ==
  /\ signalled
  /\ Manager!Drain
  /\ mapped' = {}
  /\ UNCHANGED <<pc, argVars, failed, over, clock, asking, signalled, janitor, record, upstream, tainted, hook, cont>>

\* The next process has the records and the CLI's sessions.
NewProcess ==
  /\ pc' = [r \in Reqs |-> "idle"] /\ key' = [r \in Reqs |-> None]
  /\ streaming' = [r \in Reqs |-> FALSE] /\ created' = [r \in Reqs |-> FALSE]
  /\ failed' = [r \in Reqs |-> FALSE] /\ over' = [r \in Reqs |-> FALSE]
  /\ clock' = [r \in Reqs |-> NewClock] /\ asking' = {}
  /\ Manager!Restart
  /\ mapped' = {} /\ hook' = [k \in Keys |-> None]
  /\ cont' = [c \in Conts |-> NoCont] /\ janitor' = Resting /\ signalled' = FALSE
  /\ UNCHANGED <<record, upstream>>

\* The process ends when its requests have, be the janitor done or not, or
\* whenever it crashes.
Exit == draining /\ (\A r \in Reqs : ~Active(r)) /\ NewProcess /\ UNCHANGED tainted

Crash ==
  /\ "crash" \in Events
  /\ NewProcess
  /\ tainted' = tainted \cup {k \in Keys :
                (~Free(k) \/ Discarded(k)) /\ upstream[k] # "whole"}

-----------------------------------------------------------------------------
HandlerStep(r) == \/ PrepareFails(r) \/ Prepare(r) \/ SetActivityHook(r)
                  \/ Head(r) \/ HeadFails(r) \/ Tail(r) \/ ClearActivity(r)
                  \/ Release(r) \/ Discard(r)

DestroyStep(r) == DestroyRecord(r) \/ DestroyUpstream(r)

TurnStep(r) == Event(r) \/ TurnSucceeds(r) \/ TurnFails(r)

ReqStep(r) ==
  \/ \E k \in Keys, s \in BOOLEAN : Begin(r, k, s)
  \/ Acquire(r) \/ AcquireFails(r) \/ HandlerStep(r) \/ TurnStep(r) \/ DestroyStep(r)
  \/ TimerStep(r) \/ ContextEnds(r)

Next == \/ \E r \in Reqs : ReqStep(r)
        \/ \E c \in Conts : (\E k \in Keys : Lookup(c, k))
                              \/ Resolve(c) \/ NotPending(c) \/ TouchActivity(c)
        \/ \E B \in SUBSET Keys : Expire(B)
        \/ \E k \in Keys : \/ SweepRecord(k) \/ SweepUpstream(k)
                           \/ LateCreate(k) \/ UpstreamForgets(k)
        \/ Tick \/ Signal \/ Drain \/ Exit \/ Crash

Spec == Init /\ [][Next]_vars

\* Time passes, goroutines run on, and Acquire and Send return once the
\* context is over (the session that Acquire closes without it, when it could
\* not save the record, is taken to close).  No request has to get its session,
\* no turn to end, and no deletion, which has no context, to be answered.
FairSpec ==
  /\ Spec /\ WF_vars(Tick)
  /\ \A r \in Reqs :
       /\ WF_vars(TimerStep(r))
       /\ WF_vars(HandlerStep(r) \/ (over[r] /\ (AcquireFails(r) \/ TurnFails(r))))

-----------------------------------------------------------------------------
TypeOK ==
  /\ pc \in [Reqs -> Points] /\ key \in [Reqs -> Keys \cup {None}]
  /\ streaming \in [Reqs -> BOOLEAN] /\ created \in [Reqs -> BOOLEAN]
  /\ failed \in [Reqs -> BOOLEAN]
  /\ over \in [Reqs -> BOOLEAN]
  /\ clock \in [Reqs -> Clocks]
  /\ asking \subseteq Reqs
  /\ lease \in [Reqs -> Keys \cup {None}] /\ draining \in BOOLEAN
  /\ mapped \subseteq Keys /\ record \subseteq Keys
  /\ upstream \in [Keys -> {"none", "empty", "whole", "open", "broken"}]
  /\ hook \in [Keys -> Reqs \cup {None}]
  /\ cont \in [Conts -> ContRecords]
  /\ janitor \in [left : SUBSET Keys, at : Keys \cup {None}]
  /\ signalled \in BOOLEAN /\ tainted \subseteq Keys

\* A request that found its session there sends only its last message
\* (server.go:485): the session must then have every turn before it, whichever
\* process made it and whichever exits the requests before it took.
ReusedSessionIsWhole ==
  \A r \in Reqs :
    pc[r] \in {"prepare", "hook", "head"} /\ ~created[r] => upstream[key[r]] = "whole"

\* It has, unless one of these is the reason: a new session was released
\* before its first turn (server.go:494-518); a request came to the session, or
\* made it anew, while a discard or the sweep that had unmapped it was still
\* deleting (manager.go:299-310, 425-431); a discard could delete neither the
\* record nor the session; the process died while a request had the session
\* or discarded it; a creation that was given up took effect when a record was
\* left of the session before.  No other failure, cancellation, expiry,
\* shutdown or restart, in whatever order, costs a turn.
LossesAreKnown ==
  \A r \in Reqs : pc[r] \in {"prepare", "hook", "head"} /\ ~created[r]
                    => upstream[key[r]] = "whole" \/ key[r] \in tainted

\* The hook a continuation runs is the touch of the stream that has the
\* session, for all of its turn, and of no other: hooks are set and cleared by
\* key and by whoever is there (manager.go:529-561, server.go:237, 361).
HooksFollowLeases ==
  \A k \in Keys :
    /\ hook[k] # None => lease[hook[k]] = k /\ streaming[hook[k]]
    /\ \A r \in Reqs : ~draining /\ pc[r] = "turn" /\ streaming[r] /\ lease[r] = k => hook[k] = r

\* A stream in which nothing has happened for the idle time gives its session
\* up, unless something happens after all: activity that comes in whatever
\* moment of the timer only postpones it (server.go:1936-1965).
SilentStreamsEnd ==
  \A r \in Reqs : Idle > 0 /\ streaming[r] /\ clock[r].age = Idle
                    ~> GivenUp(r) \/ clock[r].age = 0

\* A request whose context is over gives its session up, wherever it is, to the
\* requests that come then: its turn, its wait for the session and its wait for
\* an answer end, and nothing that a discard does with the CLI, without the
\* context, comes before the unmapping (manager.go:424-431).
StoppedRequestsEnd == \A r \in Reqs : over[r] ~> GivenUp(r)

-----------------------------------------------------------------------------
(* The inductive invariant of LossesAreKnown and HooksFollowLeases.        *)

ReqInv(r) ==
  /\ pc[r] \in Holding <=> lease[r] # None
  /\ lease[r] \in {None, key[r]}
  /\ pc[r] = "idle" <=> key[r] = None
  /\ pc[r] \in {"idle", "acquire"} => ~created[r]
  /\ pc[r] \in {"hook", "head", "tail", "clear"} => streaming[r]
  /\ lease[r] # None /\ ~draining => lease[r] \in mapped

Exclusive == \A r, q \in Reqs : lease[r] # None /\ lease[r] = lease[q] => r = q

\* What a request knows of the session it holds, at each control point.
SessionInv(r) ==
  lease[r] # None /\ lease[r] \notin tainted =>
    /\ pc[r] \in {"prepare", "hook", "head"} =>
         upstream[lease[r]] = IF created[r] THEN "empty" ELSE "whole"
    /\ pc[r] = "turn" => upstream[lease[r]] = "open"
    /\ pc[r] = "tail" => upstream[lease[r]] = "whole"
    /\ pc[r] \in {"clear", "end"} /\ ~failed[r] => upstream[lease[r]] = "whole"

\* What the next request finds.
FreeInv == \A k \in Keys :
  Free(k) /\ CanContinue(k) => upstream[k] = "whole" \/ k \in tainted \/ Discarded(k)

\* Whoever came while the session was being torn down is marked.
TearInv == \A k \in Keys :
  TornDown(k) /\ (k \in mapped \/ ~Free(k)) => k \in tainted

HookInv ==
  /\ \A k \in Keys : hook[k] # None =>
       /\ lease[hook[k]] = k /\ streaming[hook[k]]
       /\ pc[hook[k]] \in {"head", "turn", "tail", "clear"}
  /\ \A r \in Reqs : ~draining /\ streaming[r] /\ pc[r] \in {"head", "turn", "tail"}
                       => hook[lease[r]] = r

IInv == /\ TypeOK /\ (\A r \in Reqs : ReqInv(r)) /\ Exclusive
        /\ (\A r \in Reqs : SessionInv(r)) /\ FreeInv /\ TearInv /\ HookInv
=============================================================================
