------------------------------ MODULE SendTurn ------------------------------
(***************************************************************************)
(* One call of Send (src/internal/runtime/copilot.go:357-722): the         *)
(* goroutine that called it, the one that hands the prompt to the CLI, and *)
(* the callback that collects the session's events, one at a time, until   *)
(* the session is idle.  The three meet in two select statements, which    *)
(* choose at random among what is ready, or park until something is.       *)
(***************************************************************************)
EXTENDS Integers, Sequences

CONSTANT MaxEvents  \* how many events the session delivers

ASSUME MaxEventsAssumption == MaxEvents \in Nat

\* "delta" and "message" carry text, "reasoning" a piece of reasoning; "notice" is
\* any other event that is passed on as a runtime event; "completed" ends an
\* interactive request.
Kinds == {"delta", "message", "reasoning", "notice", "completed", "error", "idle"}
Runtime == {"reasoning", "notice"}
Causes == {"context", "handler", "session"}

VARIABLES
  pc,        \* the caller: "sending" and "waiting" are its two selects, and
             \* "leaving" when its result stands but it is still subscribed
  ready,     \* the cases of the selects that can be taken
  failure,   \* the error in errCh, if "error" is ready
  result,    \* what Send returns
  rpc,       \* session.Send: "calling" or "returned"
  cause,     \* context.Cause(sendCtx), or "none"
  callback,  \* where the event callback is; "none" between events
  log,       \* the events delivered so far
  contentBuf, finalText, runtimeEvents, \* what they left: places in log
  firstErr,  \* the event whose handler failed first, 0 for none
  refused    \* (history) all events whose handler failed

callerVars  == <<pc, ready, failure, result>>
contentVars == <<log, contentBuf, finalText, runtimeEvents>>
errorVars   == <<firstErr, refused>>
vars == <<callerVars, rpc, cause, callback, contentVars, errorVars>>

Pending == [outcome |-> "none", text |-> {}, events |-> {}]
Failed(why) == [outcome |-> why, text |-> {}, events |-> {}]

Init ==
  /\ pc = "sending" /\ ready = {} /\ failure = "none" /\ result = Pending
  /\ rpc = "calling" /\ cause = "none" /\ callback = "none"
  /\ log = <<>> /\ contentBuf = {} /\ finalText = 0 /\ runtimeEvents = {}
  /\ firstErr = 0 /\ refused = {}

-----------------------------------------------------------------------------
(* The channels.                                                           *)

SendCases == {"sent", "sendFailed", "done"}
WaitCases == {"error", "idle", "done"}

Parked == {"sendingParked", "waitingParked"}
Settled == {"leaving", "returned"}
Cases == CASE pc \in {"sending", "sendingParked"} -> SendCases
           [] pc \in {"waiting", "waitingParked"} -> WaitCases
           [] OTHER -> {}

\* The caller takes case c of the select it is at.
Take(c, why) ==
  CASE c = "sent" -> pc' = "waiting" /\ UNCHANGED result
    [] c = "idle" -> pc' = "collecting" /\ UNCHANGED result
    [] OTHER -> pc' = "leaving" /\ result' = Failed(why)

\* A parked caller takes the first case that becomes ready; otherwise the
\* channel, which has room for one, keeps it.
Signal(c, why) ==
  IF pc \in Parked /\ c \in Cases
  THEN Take(c, why) /\ UNCHANGED ready
  ELSE ready' = ready \cup {c} /\ UNCHANGED <<pc, result>>

\* cancelSend: the first cause is kept.
Cancel(why) ==
  IF cause = "none"
  THEN cause' = why /\ Signal("done", why)
  ELSE UNCHANGED <<cause, pc, ready, result>>

\* A full errCh drops the error.
SendError(why) ==
  IF "error" \in ready
  THEN UNCHANGED callerVars
  ELSE failure' = why /\ Signal("error", why)

-----------------------------------------------------------------------------
(* The caller.                                                             *)

Park ==
  /\ pc \in {"sending", "waiting"} /\ Cases \cap ready = {}
  /\ pc' = IF pc = "sending" THEN "sendingParked" ELSE "waitingParked"
  /\ UNCHANGED <<ready, failure, result, rpc, cause, callback, contentVars, errorVars>>

Choose(c) ==
  /\ pc \in {"sending", "waiting"} /\ c \in Cases \cap ready
  /\ Take(c, CASE c = "error" -> failure [] c = "done" -> cause [] OTHER -> "rpc")
  /\ ready' = ready \ ({c} \ {"done"})
  /\ UNCHANGED <<failure, rpc, cause, callback, contentVars, errorVars>>

\* The result, under stateMu, which the callback may be waiting for.
Collect ==
  /\ pc = "collecting"
  /\ pc' = "leaving"
  /\ result' = IF firstErr # 0 THEN Failed("handler")
               ELSE [outcome |-> "ok",
                     text |-> IF finalText # 0 THEN {finalText} ELSE contentBuf,
                     events |-> runtimeEvents]
  /\ UNCHANGED <<ready, failure, rpc, cause, callback, contentVars, errorVars>>

\* The deferred call: until then an event is handled that no result tells of.
\* The other deferred calls follow (see InteractiveBridge).
Unsubscribe ==
  /\ pc = "leaving"
  /\ pc' = "returned"
  /\ UNCHANGED <<ready, failure, result, rpc, cause, callback, contentVars, errorVars>>

CallerStep == \/ Park \/ (\E c \in SendCases \cup WaitCases : Choose(c))
              \/ Collect \/ Unsubscribe

\* The goroutine that hands the prompt to the CLI.
RpcReturns ==
  /\ rpc = "calling"
  /\ rpc' = "returned"
  /\ \E c \in {"sent", "sendFailed"} : Signal(c, "rpc")
  /\ UNCHANGED <<failure, cause, callback, contentVars, errorVars>>

\* The request's deadline, the idle timer or the client.
ContextEnds ==
  /\ pc # "returned"
  /\ cause = "none"
  /\ Cancel("context")
  /\ UNCHANGED <<failure, rpc, callback, contentVars, errorVars>>

-----------------------------------------------------------------------------
(* The callback.                                                           *)

\* What an event adds to what the turn collects.
CollectEvent(k) ==
  LET n == Len(log) + 1 IN
  /\ contentBuf' = IF k = "delta" THEN contentBuf \cup {n} ELSE contentBuf
  /\ finalText' = IF k = "message" THEN n ELSE finalText
  /\ runtimeEvents' = IF k \in Runtime THEN runtimeEvents \cup {n} ELSE runtimeEvents

\* Faulty: the callback stays subscribed.
DeliverUnsubscribed(k) ==
  /\ callback = "none" /\ Len(log) < MaxEvents
  /\ k # "idle"
  /\ log' = Append(log, k)
  /\ CollectEvent(k)
  /\ callback' = IF k = "completed" THEN "check" ELSE "dispatch"
  /\ UNCHANGED <<callerVars, rpc, cause, errorVars>>

\* The session delivers an event, until Send has unsubscribed: also when its result
\* is made already.
Deliver(k) ==
  /\ callback = "none" /\ pc # "returned" /\ Len(log) < MaxEvents
  /\ k # "idle"
  /\ log' = Append(log, k)
  /\ CollectEvent(k)
  /\ callback' = IF k = "completed" THEN "check" ELSE "dispatch"
  /\ UNCHANGED <<callerVars, rpc, cause, errorVars>>

\* Faulty: idleCh has no room, so the signal is lost unless the caller waits.
DeliverIdleUnbuffered ==
  /\ callback = "none" /\ pc # "returned" /\ Len(log) < MaxEvents
  /\ log' = Append(log, "idle")
  /\ IF pc = "waitingParked" THEN Signal("idle", "none") ELSE UNCHANGED <<pc, ready, result>>
  /\ callback' = "check"
  /\ UNCHANGED <<failure, rpc, cause, contentBuf, finalText, runtimeEvents, errorVars>>

DeliverIdle ==
  /\ callback = "none" /\ pc # "returned" /\ Len(log) < MaxEvents
  /\ log' = Append(log, "idle")
  /\ Signal("idle", "none")
  /\ callback' = "check"
  /\ UNCHANGED <<failure, rpc, cause, contentBuf, finalText, runtimeEvents, errorVars>>

\* After dispatch, a session error goes on to cancel the context.
AfterDispatch == IF log[Len(log)] = "error" THEN "cancelBySession" ELSE "check"

\* dispatch: the handler, if there is one, takes the event.
Accept ==
  /\ callback = "dispatch"
  /\ callback' = AfterDispatch
  /\ UNCHANGED <<callerVars, rpc, cause, contentVars, errorVars>>

\* Faulty: the handler's error only cancels the context.
RefuseUnrecorded ==
  /\ callback = "dispatch"
  /\ refused' = refused \cup {Len(log)}
  /\ callback' = "cancelByHandler"
  /\ UNCHANGED <<callerVars, rpc, cause, contentVars, firstErr>>

\* The handler returns an error, which setError keeps if it is the first.
Refuse ==
  /\ callback = "dispatch"
  /\ refused' = refused \cup {Len(log)}
  /\ firstErr' = IF firstErr = 0 THEN Len(log) ELSE firstErr
  /\ callback' = "cancelByHandler"
  /\ UNCHANGED <<callerVars, rpc, cause, contentVars>>

CancelByHandler ==
  /\ callback = "cancelByHandler"
  /\ Cancel("handler")
  /\ callback' = AfterDispatch
  /\ UNCHANGED <<failure, rpc, contentVars, errorVars>>

\* Faulty: a session error is left to errCh alone.
CancelBySessionNot ==
  /\ callback = "cancelBySession"
  /\ callback' = "report"
  /\ UNCHANGED <<callerVars, rpc, cause, contentVars, errorVars>>

CancelBySession ==
  /\ callback = "cancelBySession"
  /\ Cancel("session")
  /\ callback' = "report"
  /\ UNCHANGED <<failure, rpc, contentVars, errorVars>>

Report ==
  /\ callback = "report"
  /\ SendError("session")
  /\ callback' = "check"
  /\ UNCHANGED <<rpc, cause, contentVars, errorVars>>

\* The last lines of the callback: whatever has cancelled the context is
\* reported as an error.
CheckCause ==
  /\ callback = "check"
  /\ IF cause = "none" THEN UNCHANGED callerVars ELSE SendError(cause)
  /\ callback' = "none"
  /\ UNCHANGED <<rpc, cause, contentVars, errorVars>>

CallbackStep == \/ Accept \/ Refuse \/ CancelByHandler \/ CancelBySession
                \/ Report \/ CheckCause

-----------------------------------------------------------------------------
Next == \/ CallerStep \/ RpcReturns \/ ContextEnds \/ CallbackStep
        \/ (\E k \in Kinds : Deliver(k)) \/ DeliverIdle

Spec == Init /\ [][Next]_vars

-----------------------------------------------------------------------------
TypeOK ==
  /\ pc \in {"sending", "waiting", "collecting"} \cup Parked \cup Settled
  /\ ready \subseteq SendCases \cup WaitCases
  /\ failure \in Causes \cup {"none"} /\ cause \in Causes \cup {"none"}
  /\ result.outcome \in Causes \cup {"none", "rpc", "ok"}
  /\ result.text \subseteq 1..Len(log) /\ result.events \subseteq 1..Len(log)
  /\ rpc \in {"calling", "returned"}
  /\ callback \in {"none", "dispatch", "cancelByHandler", "cancelBySession", "report", "check"}
  /\ log \in Seq(Kinds)
  /\ contentBuf \subseteq 1..Len(log) /\ runtimeEvents \subseteq 1..Len(log)
  /\ finalText \in 0..Len(log) /\ firstErr \in 0..Len(log)
  /\ refused \subseteq 1..Len(log)

\* The places of the events of kind k among the first n, and the last of them.
Places(k, n) == {i \in 1..n : log[i] = k}
RuntimePlaces(n) == Places("reasoning", n) \cup Places("notice", n)
Latest(P) == {i \in P : \A j \in P : j <= i}
TextOf(n) == IF Places("message", n) # {} THEN Latest(Places("message", n))
                                           ELSE Places("delta", n)

\* A turn that succeeds has the text and the runtime events of all that was
\* delivered until the session was idle, and the handler took all of that:
\* no select lets it succeed without an event, or with one refused, and none that
\* comes while it leaves takes anything from its result (copilot.go:395-402,
\* 626-630, 647, 691-722).
SuccessIsWhole ==
  result.outcome = "ok" =>
    \E i, n \in 1..Len(log) :
      /\ log[i] = "idle" /\ i <= n
      /\ result.text = TextOf(n) /\ result.events = RuntimePlaces(n)
      /\ refused \cap 1..i = {}

\* The inductive invariant of SuccessIsWhole.
IInv ==
  /\ TypeOK
  /\ contentBuf = Places("delta", Len(log))
  /\ runtimeEvents = RuntimePlaces(Len(log))
  /\ IF finalText = 0 THEN Places("message", Len(log)) = {}
                      ELSE {finalText} = Latest(Places("message", Len(log)))
  /\ "idle" \in ready \/ pc = "collecting" => Places("idle", Len(log)) # {}
  /\ callback = "dispatch" => log # <<>> /\ log[Len(log)] # "idle"
  /\ firstErr = 0 => refused = {}
  /\ result.outcome # "none" => pc \in Settled
  /\ SuccessIsWhole
=============================================================================
