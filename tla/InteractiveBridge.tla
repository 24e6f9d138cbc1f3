------------------------- MODULE InteractiveBridge -------------------------
(***************************************************************************)
(* The bridge between the callbacks of one Copilot session and the         *)
(* /copilot/respond endpoint (src/internal/runtime/copilot.go): the CLI    *)
(* issues tool, user-input and permission requests during a Send; each     *)
(* reaches the gateway twice, as an event that names the request and as a  *)
(* handler invocation that, but for tools, does not.  A handler polls for  *)
(* a registered request, then waits on that request's one-slot channel for *)
(* what a client posts, or for the end of the Send.                        *)
(*                                                                         *)
(* A request and its handler invocation have the same name here, which     *)
(* lets the properties say whose answer a handler returned; the code       *)
(* cannot see that name.                                                   *)
(***************************************************************************)
EXTENDS Integers, FiniteSets

CONSTANTS
  Ids,       \* the requests the CLI issues
  Kind,      \* "tool", "user_input" or "permission", for each request
  Call,      \* the tool call a request belongs to, or None
  Clients,   \* callers of the respond endpoint; a caller's name is its answer
  MaxTurns,  \* how many times Send is called on the session
  Events,    \* what the CLI does beyond issuing one request of a kind at a time
  Error,     \* an error in the place of an answer
  None

Kinds == {"tool", "user_input", "permission"}
Turns == 1..MaxTurns
Background == 0  \* context.Background(), what currentContext returns between Sends

\* "concurrent": it issues requests of a kind while others are outstanding
\* "late": an event reaches the gateway later than 5 s after the invocation
\* "orphan": it completes a request whose handler has not returned
AllEvents == {"concurrent", "late", "orphan"}

ASSUME ConstantsAssumption ==
  /\ MaxTurns \in Nat
  /\ Kind \in [Ids -> Kinds]
  /\ DOMAIN Call = Ids
  /\ \A x \in Ids : Kind[x] = "tool" =>
       Call[x] # None /\ \A y \in Ids : Kind[y] = "tool" /\ Call[y] = Call[x] => x = y
  /\ Events \subseteq AllEvents
  /\ Error # None /\ {Error, None} \cap (Ids \cup Clients) = {}

VARIABLES
  turn,      \* the number of the current or latest Send
  phase,     \* where it is
  failed,    \* it ends with an error, so that the session will be discarded
  active,    \* activeCtx: the turn whose context handlers pick up, or Background
  done,      \* the turns whose context is done
  issued,    \* the turn in which the CLI issued each request, 0 for not yet
  announced, \* the requests whose event has been handled
  pending,   \* the keys of pendingByRequest
  place,     \* a request's place in userInputQueue or permissionQueue, 0 for none
  calls,     \* toolCallToRequest, as the set of requests it leads to
  channel,   \* what each request's responseCh holds
  rejected,  \* the requests refused as concurrent
  handler,   \* per invocation: "none", "polling", "looking", "waiting" or "returned"
  ctx, got,  \* the context it polls with, the request it waits for
  posting    \* per client: the request it has found and not yet answered

sendVars    == <<turn, phase, failed, active, done>>
requestVars == <<issued, announced, rejected>>
bridgeVars  == <<pending, place, calls>>
handlerVars == <<handler, ctx, got>>
vars == <<sendVars, requestVars, bridgeVars, channel, handlerVars, posting>>

Init ==
  /\ turn = 0 /\ phase = "none" /\ failed = FALSE /\ active = Background /\ done = {}
  /\ issued = [x \in Ids |-> 0] /\ announced = {} /\ rejected = {}
  /\ pending = {} /\ place = [x \in Ids |-> 0] /\ calls = {}
  /\ channel = [x \in Ids |-> None]
  /\ handler = [x \in Ids |-> "none"] /\ ctx = [x \in Ids |-> Background]
  /\ got = [x \in Ids |-> None]
  /\ posting = [c \in Clients |-> None]

OfKind(k) == {x \in Ids : Kind[x] = k}
Queued == {x \in Ids : place[x] # 0}

-----------------------------------------------------------------------------
(* Send, as far as the bridge sees it.                                     *)

\* setActiveContext, then the subscription to the session's events.
SendStarts ==
  /\ phase = "none" /\ turn < MaxTurns
  /\ turn' = turn + 1
  /\ phase' = "subscribed"
  /\ active' = turn + 1
  /\ UNCHANGED <<failed, done, requestVars, bridgeVars, channel, handlerVars, posting>>

\* The deadline, the idle timer, the client or a session error ends sendCtx.
ContextEnds ==
  /\ phase = "subscribed" /\ turn \notin done
  /\ done' = done \cup {turn}
  /\ UNCHANGED <<turn, phase, failed, active, requestVars, bridgeVars, channel,
                 handlerVars, posting>>

\* Send is about to return: its first deferred call unsubscribes.
Unsubscribe == /\ phase = "subscribed"
               /\ phase' = "unsubscribed"
               /\ UNCHANGED <<turn, active, done, requestVars, bridgeVars, channel,
                              handlerVars, posting>>

\* The CLI reports the session idle, with no request outstanding.  Send may
\* take notice of that although its context is done as well.
SendSucceeds ==
  /\ \A x \in Ids : issued[x] = turn => handler[x] = "returned"
  /\ UNCHANGED failed
  /\ Unsubscribe

\* The prompt could not be handed to the CLI.
SendFails == failed' = TRUE /\ Unsubscribe

SendCancelled == turn \in done /\ failed' = TRUE /\ Unsubscribe

\* Faulty: the queues survive the Send.
CancelAllKeepingQueues ==
  /\ phase = "unsubscribed"
  /\ phase' = "cancelled"
  /\ channel' = [x \in Ids |-> IF x \in pending /\ channel[x] = None THEN Error ELSE channel[x]]
  /\ pending' = {} /\ calls' = {}
  /\ UNCHANGED <<turn, failed, active, done, place, requestVars, handlerVars, posting>>

\* Faulty: the error takes the place of an answer that was accepted.
CancelAllOverwriting ==
  /\ phase = "unsubscribed"
  /\ phase' = "cancelled"
  /\ channel' = [x \in Ids |-> IF x \in pending THEN Error ELSE channel[x]]
  /\ pending' = {} /\ place' = [x \in Ids |-> 0] /\ calls' = {}
  /\ UNCHANGED <<turn, failed, active, done, requestVars, handlerVars, posting>>

\* Faulty: the requests are dropped without an error for their handlers.
CancelAllSilently ==
  /\ phase = "unsubscribed"
  /\ phase' = "cancelled"
  /\ pending' = {} /\ place' = [x \in Ids |-> 0] /\ calls' = {}
  /\ UNCHANGED <<turn, failed, active, done, requestVars, channel, handlerVars, posting>>

\* cancelAll: each pending request that has no answer yet gets an error, and
\* the bridge forgets them all.
CancelAll ==
  /\ phase = "unsubscribed"
  /\ phase' = "cancelled"
  /\ channel' = [x \in Ids |-> IF x \in pending /\ channel[x] = None THEN Error ELSE channel[x]]
  /\ pending' = {} /\ place' = [x \in Ids |-> 0] /\ calls' = {}
  /\ UNCHANGED <<turn, failed, active, done, requestVars, handlerVars, posting>>

ClearActiveContext ==
  /\ phase = "cancelled"
  /\ phase' = "cleared"
  /\ active' = Background
  /\ UNCHANGED <<turn, failed, done, requestVars, bridgeVars, channel, handlerVars, posting>>

\* The last deferred call, cancelSend; a session whose Send failed is discarded.
SendReturns ==
  /\ phase = "cleared"
  /\ done' = done \cup {turn}
  /\ phase' = IF failed THEN "discarded" ELSE "none"
  /\ UNCHANGED <<turn, failed, active, requestVars, bridgeVars, channel, handlerVars, posting>>

-----------------------------------------------------------------------------
(* The CLI: external, seen through the events and the invocations.         *)

\* The CLI needs an answer.  It issues a tool request after the permission
\* for the same call has completed.
Issue(x) ==
  /\ phase = "subscribed" /\ issued[x] = 0
  /\ "concurrent" \in Events \/ \A y \in OfKind(Kind[x]) : issued[y] # 0 =>
                                   handler[y] = "returned" /\ y \notin pending
  /\ \A y \in Ids \ {x} : Call[x] # None /\ Call[y] = Call[x] /\ issued[y] # 0 =>
                           Kind[x] = "tool" /\ y \in announced \ pending
  /\ issued' = [issued EXCEPT ![x] = turn]
  /\ UNCHANGED <<sendVars, announced, rejected, bridgeVars, channel, handlerVars, posting>>

\* Appending a request to the queue of its kind: the events that have been
\* handled before number the places of all queues.
Enqueue(x) == place' = [place EXCEPT ![x] = 1 + Cardinality(announced)]

\* Removing a request from the queue it may be in.
Dequeue(x) == place' = [place EXCEPT ![x] = 0]

\* Faulty: a second request of a kind is served like the first.
RegisterUnchecked(x) ==
  /\ phase = "subscribed" /\ issued[x] = turn /\ x \notin announced
  /\ announced' = announced \cup {x}
  /\ pending' = pending \cup {x}
  /\ IF Kind[x] = "tool" THEN calls' = calls \cup {x} /\ UNCHANGED place
                         ELSE Enqueue(x) /\ UNCHANGED calls
  /\ UNCHANGED <<sendVars, issued, rejected, channel, handlerVars, posting>>

\* The event that announces a request, handled by registerExternalToolRequest,
\* registerUserInputRequest or registerPermissionRequest.  (Repeated while the
\* request is pending, the event would change nothing modelled here.)
Register(x) ==
  LET concurrent == Kind[x] # "tool" /\ \E y \in pending : Kind[y] = Kind[x] IN
  /\ phase = "subscribed" /\ issued[x] = turn /\ x \notin announced
  /\ announced' = announced \cup {x}
  /\ pending' = pending \cup {x}
  /\ IF Kind[x] = "tool" THEN calls' = calls \cup {x} /\ UNCHANGED place
                         ELSE Enqueue(x) /\ UNCHANGED calls
  /\ rejected' = IF concurrent THEN rejected \cup {x} ELSE rejected
  /\ channel' = IF concurrent THEN [channel EXCEPT ![x] = Error] ELSE channel
  /\ UNCHANGED <<sendVars, issued, handlerVars, posting>>

\* Faulty: a completed request stays in its queue.
ForgetRequestKeepingQueue(x) ==
  /\ phase = "subscribed" /\ x \in pending
  /\ handler[x] = "returned" \/ "orphan" \in Events
  /\ pending' = pending \ {x}
  /\ calls' = {y \in calls : Call[y] # Call[x]}
  /\ UNCHANGED <<sendVars, requestVars, place, channel, handlerVars, posting>>

\* The event that completes a request: forgetRequest.
ForgetRequest(x) ==
  /\ phase = "subscribed" /\ x \in pending
  /\ handler[x] = "returned" \/ "orphan" \in Events
  /\ pending' = pending \ {x}
  /\ calls' = IF Call[x] = None THEN calls ELSE {y \in calls : Call[y] # Call[x]}
  /\ Dequeue(x)
  /\ UNCHANGED <<sendVars, requestVars, channel, handlerVars, posting>>

\* The CLI invokes a handler, which picks up the active context.
Invoke(x) ==
  /\ issued[x] # 0 /\ handler[x] = "none"
  /\ handler' = [handler EXCEPT ![x] = "polling"]
  /\ ctx' = [ctx EXCEPT ![x] = active]
  /\ UNCHANGED <<sendVars, requestVars, bridgeVars, channel, got, posting>>

-----------------------------------------------------------------------------
(* The handlers: handleUserInput, handlePermission and awaitToolResult.    *)

\* Faulty: every handler takes whatever is pending.
FoundAnything(h) == pending

\* What a polling handler finds: a tool handler the request of its call, any
\* other the head of the queue of its kind.
Found(h) ==
  IF Kind[h] = "tool"
  THEN {y \in calls \cap pending : Call[y] = Call[h]}
  ELSE {y \in Queued : /\ Kind[y] = Kind[h]
                       /\ \A z \in Queued : Kind[z] = Kind[h] => place[y] <= place[z]}

Returns(h) == /\ handler' = [handler EXCEPT ![h] = "returned"]
              /\ ctx' = [ctx EXCEPT ![h] = Background]
              /\ got' = [got EXCEPT ![h] = None]

\* The top of the polling loop: the context is checked before the look, which
\* takes the bridge's mutex.
CheckContext(h) ==
  /\ handler[h] = "polling" /\ ctx[h] \notin done
  /\ handler' = [handler EXCEPT ![h] = "looking"]
  /\ UNCHANGED <<sendVars, requestVars, bridgeVars, channel, ctx, got, posting>>

PollCancelled(h) ==
  /\ handler[h] = "polling" /\ ctx[h] \in done
  /\ Returns(h)
  /\ UNCHANGED <<sendVars, requestVars, bridgeVars, channel, posting>>

\* The look finds a request; a queued one that is not pending any more is
\* skipped.
Look(h) ==
  /\ handler[h] = "looking"
  /\ \E x \in Found(h) :
       /\ Dequeue(x)
       /\ handler' = [handler EXCEPT ![h] = IF x \in pending THEN "waiting" ELSE "polling"]
       /\ got' = [got EXCEPT ![h] = IF x \in pending THEN x ELSE None]
  /\ UNCHANGED <<sendVars, requestVars, pending, calls, channel, ctx, posting>>

\* Nothing is found; after 5 s of that the handler gives up.
LookAgain(h) ==
  /\ handler[h] = "looking" /\ Found(h) = {}
  /\ handler' = [handler EXCEPT ![h] = "polling"]
  /\ UNCHANGED <<sendVars, requestVars, bridgeVars, channel, ctx, got, posting>>

PollTimesOut(h) ==
  /\ handler[h] = "looking" /\ Found(h) = {}
  /\ "late" \in Events \/ ~(phase = "subscribed" /\ issued[h] = turn /\ h \notin announced)
  /\ Returns(h)
  /\ UNCHANGED <<sendVars, requestVars, bridgeVars, channel, posting>>

\* <-pending.responseCh, which no context interrupts.
Receive(h) ==
  /\ handler[h] = "waiting" /\ channel[got[h]] # None
  /\ Returns(h)
  /\ channel' = [channel EXCEPT ![got[h]] = None]
  /\ UNCHANGED <<sendVars, requestVars, bridgeVars, posting>>

-----------------------------------------------------------------------------
(* resolve: the map is read under the mutex, the channel sent to without.  *)

ResolveFinds(c, x) ==
  /\ posting[c] = None /\ x \in pending
  /\ posting' = [posting EXCEPT ![c] = x]
  /\ UNCHANGED <<sendVars, requestVars, bridgeVars, channel, handlerVars>>

\* The answer is accepted if the slot is free; otherwise the client is told
\* that the request is already resolved.
ResolveSends(c) ==
  /\ posting[c] # None
  /\ posting' = [posting EXCEPT ![c] = None]
  /\ channel' = [channel EXCEPT ![posting[c]] = IF @ = None THEN c ELSE @]
  /\ UNCHANGED <<sendVars, requestVars, bridgeVars, handlerVars>>

-----------------------------------------------------------------------------
SendEnds == SendCancelled \/ CancelAll \/ ClearActiveContext \/ SendReturns

HandlerStep(h) == \/ CheckContext(h) \/ PollCancelled(h) \/ Look(h) \/ LookAgain(h)
                  \/ PollTimesOut(h) \/ Receive(h)

Next ==
  \/ SendStarts \/ ContextEnds \/ SendSucceeds \/ SendFails \/ SendEnds
  \/ \E x \in Ids : Issue(x) \/ Register(x) \/ ForgetRequest(x) \/ Invoke(x)
  \/ \E h \in Ids : HandlerStep(h)
  \/ \E c \in Clients : (\E x \in Ids : ResolveFinds(c, x)) \/ ResolveSends(c)

Spec == Init /\ [][Next]_vars

\* The goroutines of the gateway run on, every request has a deadline, and a
\* handler does not look in vain for ever.  Nothing makes the CLI send its
\* events or become idle, or a client answer.
Fairness == /\ WF_vars(ContextEnds) /\ WF_vars(SendEnds)
            /\ \A h \in Ids : WF_vars(HandlerStep(h)) /\ SF_vars(PollTimesOut(h))

FairSpec == Spec /\ Fairness

-----------------------------------------------------------------------------
TypeOK ==
  /\ turn \in 0..MaxTurns
  /\ phase \in {"none", "subscribed", "unsubscribed", "cancelled", "cleared", "discarded"}
  /\ failed \in BOOLEAN /\ active \in Turns \cup {Background} /\ done \subseteq Turns
  /\ issued \in [Ids -> 0..MaxTurns] /\ announced \subseteq Ids /\ rejected \subseteq Ids
  /\ pending \subseteq Ids /\ place \in [Ids -> Nat] /\ calls \subseteq Ids
  /\ channel \in [Ids -> Clients \cup {Error, None}]
  /\ handler \in [Ids -> {"none", "polling", "looking", "waiting", "returned"}]
  /\ ctx \in [Ids -> Turns \cup {Background}] /\ got \in [Ids -> Ids \cup {None}]
  /\ posting \in [Clients -> Ids \cup {None}]

\* A handler never returns the answer a client gave to another request: "avoid
\* FIFO mismatch" (README.md:74).
AnswersReachTheirRequest ==
  [][\A h \in Ids : Receive(h) /\ channel[got[h]] \in Clients => got[h] = h]_vars

\* Of the outstanding user-input requests, and of the permission requests, at
\* most one is not refused, however requests and completions interleave.
OneServedPerKind ==
  \A x, y \in pending \ rejected : Kind[x] = Kind[y] /\ Kind[x] # "tool" => x = y

\* What is outstanding, queued or mapped belongs to the Send that runs: a
\* Send never starts with the leftovers of another, which it would refuse its
\* own requests for.
PendingIsOfThisSend ==
  \A x \in pending \cup Queued \cup calls :
    issued[x] = turn /\ phase \in {"subscribed", "unsubscribed"}

\* Every queue entry and every tool call leads to a pending request, and every
\* pending tool request is found by its call.
QueuesLeadToPending ==
  /\ Queued \cup calls \subseteq pending
  /\ OfKind("tool") \cap pending \subseteq calls

\* An answer a client was told is accepted stays in its channel until a
\* handler takes it: neither a second answer nor the end of the Send, which
\* run without the bridge's mutex or for every request at once, replaces it.
AcceptedAnswersStay ==
  [][\A x \in Ids : channel[x] \in Clients =>
       \/ channel'[x] = channel[x]
       \/ \E h \in Ids : got[h] = x /\ handler[h] = "waiting" /\ handler'[h] = "returned"]_vars

\* The CLI asks one thing of a kind at a time, waits until the event of the last
\* one was handled, and completes no request whose handler still waits.
Settled(x) == handler[x] = "returned" /\ x \in announced \ pending
Orderly ==
  /\ \A x, y \in Ids : Kind[x] = Kind[y] /\ issued[x] # 0 /\ issued[y] # 0 /\ x # y
                         => Settled(x) \/ Settled(y)
  /\ \A x \in announced \ pending : phase = "subscribed" /\ issued[x] = turn
                                     => handler[x] = "returned"

\* To such a CLI no handler returns the answer to another request, late events
\* and cancelled Sends included.
OrderlyAnswersMatch == []Orderly => [](\A h \in Ids : got[h] \in {None, h})

\* Nor does a handler block for good: its request is answered or refused, or the
\* end of the Send or the time-out releases it.
HandlersReturn ==
  []Orderly => \A h \in Ids : handler[h] \in {"polling", "looking", "waiting"} ~> handler[h] = "returned"
=============================================================================
