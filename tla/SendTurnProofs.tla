--------------------------- MODULE SendTurnProofs ---------------------------
(***************************************************************************)
(* A turn that succeeds is whole, and one that is to end is woken up,      *)
(* however many events are delivered and in whatever order the two         *)
(* goroutines, the callback and the context run.                           *)
(***************************************************************************)
EXTENDS Stream, TLAPS

\* Of the places of k, an event more adds its own if it is of kind k.
LEMMA PlacesAppend ==
  ASSUME log \in Seq(Kinds), NEW e \in Kinds, log' = Append(log, e), NEW k
  PROVE  /\ Len(log)' = Len(log) + 1 /\ Len(log) \in Nat
         /\ Places(k, Len(log))' = IF e = k THEN Places(k, Len(log)) \cup {Len(log) + 1}
                                            ELSE Places(k, Len(log))
<1>1. Len(log') = Len(log) + 1 /\ Len(log) \in Nat
  OBVIOUS
<1>2. \A i \in 1..Len(log) : log'[i] = log[i]
  OBVIOUS
<1>3. log'[Len(log) + 1] = e
  OBVIOUS
<1>4. 1..Len(log') = 1..Len(log) \cup {Len(log) + 1} /\ Len(log) + 1 \notin 1..Len(log)
  BY <1>1
<1>5. Places(k, Len(log))' = {i \in 1..Len(log') : log'[i] = k}
  BY DEF Places
<1>. QED
  BY <1>1, <1>2, <1>3, <1>4, <1>5 DEF Places

LEMMA InitIInv == Init => IInv
<1> SUFFICES ASSUME Init PROVE IInv
  OBVIOUS
<1>1. Len(log) = 0
  BY DEF Init
<1>2. TypeOK
  BY <1>1 DEF Init, TypeOK, Pending
<1>3. \A k : Places(k, Len(log)) = {}
  BY <1>1 DEF Places
<1>. QED
  BY <1>2, <1>3 DEF Init, IInv, SuccessIsWhole, Pending, RuntimePlaces

\* What a step that delivers nothing has to show, if it leaves what the
\* callback has collected and recorded alone.
LEMMA QuietStep ==
  ASSUME IInv, UNCHANGED <<contentVars, errorVars>>, TypeOK',
         callback' = "dispatch" => callback = "dispatch",
         ("idle" \in ready')  => "idle" \in ready,
         pc' = "collecting" => "idle" \in ready \/ pc = "collecting",
         result'.outcome # "none" => pc' \in Settled,
         result'.outcome = "ok" => result' = result
  PROVE  IInv'
<1> USE DEF contentVars, errorVars
<1>1. \A k, n : Places(k, n)' = Places(k, n)
  BY DEF Places
<1>2. SuccessIsWhole'
  BY <1>1 DEF IInv, SuccessIsWhole, TextOf, RuntimePlaces
<1>. QED
  BY <1>1, <1>2 DEF IInv, RuntimePlaces

\* The channels never make a result of their own but a failure.
LEMMA SignalFails ==
  ASSUME TypeOK, NEW c \in (SendCases \cup WaitCases) \ {"idle"},
         NEW why \in Causes \cup {"rpc"}, Signal(c, why),
         result.outcome # "none" => pc \in Settled
  PROVE  /\ pc' \in {"sending", "waiting", "collecting"} \cup Parked \cup Settled
         /\ ready' \subseteq SendCases \cup WaitCases
         /\ ("idle" \in ready') => "idle" \in ready
         /\ pc' = "collecting" => pc = "collecting"
         /\ \/ result' = result \/ result' = Failed(why)
         /\ result'.outcome # "none" => pc' \in Settled
  BY DEF TypeOK, Signal, Take, Failed, SendCases, WaitCases, Causes, Parked, Cases, Settled

LEMMA CallerSteps ==
  ASSUME IInv, CallerStep
  PROVE  IInv'
<1>1. CASE Park
  <2>1. TypeOK'
    BY <1>1 DEF IInv, TypeOK, Park, contentVars, errorVars, Parked
  <2>. QED
    BY <1>1, <2>1, QuietStep DEF IInv, Park, Settled
<1>2. ASSUME NEW c \in SendCases \cup WaitCases, Choose(c)
      PROVE  IInv'
  <2>1. \/ c = "sent" /\ pc' = "waiting" /\ UNCHANGED result
        \/ c = "idle" /\ pc' = "collecting" /\ UNCHANGED result
        \/ \E why \in Causes \cup {"none", "rpc"} : pc' = "leaving" /\ result' = Failed(why)
    BY <1>2 DEF IInv, TypeOK, Choose, Take, Causes, SendCases, WaitCases
  <2>2. TypeOK'
    BY <1>2, <2>1 DEF IInv, TypeOK, Choose, contentVars, errorVars, Failed, Settled
  <2>3. c \in ready /\ ready' \subseteq ready
        /\ UNCHANGED <<contentVars, errorVars, callback>>
        /\ pc \in {"sending", "waiting"}
    BY <1>2 DEF Choose
  <2>. QED
    BY <2>1, <2>2, <2>3, QuietStep DEF IInv, Failed, Causes, Settled
<1>3. CASE Collect
  <2>1. TypeOK'
    BY <1>3 DEF IInv, TypeOK, Collect, contentVars, errorVars, Failed, Causes, Settled
  <2>2. PICK i \in 1..Len(log) : log[i] = "idle"
    BY <1>3 DEF IInv, Collect, Places
  <2>3. \A k, n : Places(k, n)' = Places(k, n)
    BY <1>3 DEF Collect, contentVars, Places
  <2>4. CASE firstErr # 0
    <3>1. result'.outcome = "handler"
      BY <1>3, <2>4 DEF Collect, Failed
    <3>. QED
      BY <1>3, <2>1, <2>3, <3>1
         DEF IInv, Collect, contentVars, errorVars, SuccessIsWhole, RuntimePlaces, Settled
  <2>5. CASE firstErr = 0
    <3>1. refused = {} /\ Len(log) \in 1..Len(log)
      BY <2>2, <2>5 DEF IInv, TypeOK
    <3>2. result'.text = TextOf(Len(log))
      BY <1>3, <2>5 DEF IInv, Collect, TextOf, Latest
    <3>3. result'.events = RuntimePlaces(Len(log))
      BY <1>3, <2>5 DEF IInv, Collect
    <3>4. TextOf(Len(log))' = TextOf(Len(log))
      BY <1>3, <2>3 DEF TextOf, Collect, contentVars
    <3>5. SuccessIsWhole'
      BY <1>3, <2>2, <2>3, <3>1, <3>2, <3>3, <3>4
         DEF SuccessIsWhole, Collect, contentVars, errorVars, RuntimePlaces
    <3>. QED
      BY <1>3, <2>1, <2>3, <3>5 DEF IInv, Collect, contentVars, errorVars, RuntimePlaces, Settled
  <2>. QED
    BY <2>4, <2>5
<1>4. CASE Unsubscribe
  <2>1. TypeOK'
    BY <1>4 DEF IInv, TypeOK, Unsubscribe, contentVars, errorVars, Settled
  <2>. QED
    BY <1>4, <2>1, QuietStep DEF IInv, Unsubscribe, Settled
<1>. QED
  BY <1>1, <1>2, <1>3, <1>4 DEF CallerStep

LEMMA RpcAndContextSteps ==
  ASSUME IInv, RpcReturns \/ ContextEnds
  PROVE  IInv'
<1>1. /\ UNCHANGED <<contentVars, errorVars, callback, failure>>
      /\ rpc' \in {"calling", "returned"} /\ cause' \in Causes \cup {"none"}
      /\ \E c \in (SendCases \cup WaitCases) \ {"idle"}, why \in Causes \cup {"rpc"} :
           Signal(c, why)
  BY DEF IInv, TypeOK, RpcReturns, ContextEnds, Cancel, SendCases, WaitCases, Causes
<1>2. PICK c \in (SendCases \cup WaitCases) \ {"idle"}, why \in Causes \cup {"rpc"} :
        Signal(c, why)
  BY <1>1
<1>3. /\ pc' \in {"sending", "waiting", "collecting"} \cup Parked \cup Settled
      /\ ready' \subseteq SendCases \cup WaitCases
      /\ ("idle" \in ready') => "idle" \in ready
      /\ pc' = "collecting" => pc = "collecting"
      /\ result' = result \/ result' = Failed(why)
      /\ result'.outcome # "none" => pc' \in Settled
  BY <1>2, SignalFails DEF IInv
<1>4. TypeOK'
  BY <1>1, <1>3 DEF IInv, TypeOK, contentVars, errorVars, Failed, Causes
<1>. QED
  BY <1>1, <1>3, <1>4, QuietStep DEF Failed, Causes

\* The steps of the callback that may signal: two that cancel the context,
\* and two that report an error.
LEMMA SignallingSteps ==
  ASSUME IInv, CancelByHandler \/ CancelBySession \/ Report \/ CheckCause
  PROVE  IInv'
<1>1. /\ UNCHANGED <<contentVars, errorVars, rpc>>
      /\ failure' \in Causes \cup {"none"} /\ cause' \in Causes \cup {"none"}
      /\ callback' \in {"none", "cancelBySession", "report", "check"}
      /\ \/ UNCHANGED <<pc, ready, result>>
         \/ \E c \in {"done", "error"}, why \in Causes : Signal(c, why)
  BY DEF IInv, TypeOK, CancelByHandler, CancelBySession, Report, CheckCause, Cancel,
         SendError, AfterDispatch, callerVars, Causes
<1>2. CASE UNCHANGED <<pc, ready, result>>
  <2>1. TypeOK'
    BY <1>1, <1>2 DEF IInv, TypeOK, contentVars, errorVars
  <2>. QED
    BY <1>1, <1>2, <2>1, QuietStep DEF IInv
<1>3. ASSUME NEW c \in {"done", "error"}, NEW why \in Causes, Signal(c, why)
      PROVE  IInv'
  <2>1. c \in (SendCases \cup WaitCases) \ {"idle"} /\ why \in Causes \cup {"rpc"}
    BY DEF SendCases, WaitCases
  <2>2. /\ pc' \in {"sending", "waiting", "collecting"} \cup Parked \cup Settled
        /\ ready' \subseteq SendCases \cup WaitCases
        /\ ("idle" \in ready') => "idle" \in ready
        /\ pc' = "collecting" => pc = "collecting"
        /\ result' = result \/ result' = Failed(why)
        /\ result'.outcome # "none" => pc' \in Settled
    BY <1>3, <2>1, SignalFails DEF IInv
  <2>3. TypeOK'
    BY <1>1, <2>2 DEF IInv, TypeOK, contentVars, errorVars, Failed, Causes
  <2>. QED
    BY <1>1, <2>2, <2>3, QuietStep DEF Failed, Causes
<1>. QED
  BY <1>1, <1>2, <1>3

LEMMA AcceptStep ==
  ASSUME IInv, Accept
  PROVE  IInv'
<1>1. TypeOK'
  BY DEF IInv, TypeOK, Accept, AfterDispatch, callerVars, contentVars, errorVars
<1>. QED
  BY <1>1, QuietStep DEF IInv, Accept, callerVars

\* A refused event comes after the idle one if the turn has succeeded: the
\* idle event is not dispatched.
LEMMA RefuseStep ==
  ASSUME IInv, Refuse
  PROVE  IInv'
<1>1. Len(log) \in Nat /\ Len(log) # 0 /\ log[Len(log)] # "idle"
  BY DEF IInv, TypeOK, Refuse
<1>2. TypeOK'
  <2>1. Len(log) \in 1..Len(log)
    BY <1>1
  <2>2. /\ UNCHANGED <<pc, ready, failure, result, rpc, cause, log, contentBuf, finalText, runtimeEvents>>
        /\ firstErr' \in {firstErr, Len(log)} /\ refused' = refused \cup {Len(log)}
        /\ callback' = "cancelByHandler"
    BY DEF Refuse, callerVars, contentVars
  <2>3. firstErr' \in 0..Len(log) /\ refused' \subseteq 1..Len(log) /\ Len(log') = Len(log)
    <3>1. firstErr \in 0..Len(log) /\ refused \subseteq 1..Len(log)
      BY DEF IInv, TypeOK
    <3>2. firstErr' \in 0..Len(log)
      BY <1>1, <2>2, <3>1
    <3>3. refused' \subseteq 1..Len(log)
      BY <2>1, <2>2, <3>1
    <3>. QED
      BY <2>2, <3>2, <3>3
  <2>. QED
    BY <2>2, <2>3 DEF IInv, TypeOK
<1>3. \A k, n : Places(k, n)' = Places(k, n)
  BY DEF Refuse, contentVars, Places
<1>4. SuccessIsWhole'
  <2> SUFFICES ASSUME result'.outcome = "ok"
               PROVE  \E i, n \in 1..Len(log)' :
                        /\ log'[i] = "idle" /\ i <= n
                        /\ result'.text = TextOf(n)' /\ result'.events = RuntimePlaces(n)'
                        /\ refused' \cap 1..i = {}
    BY DEF SuccessIsWhole
  <2>1. UNCHANGED <<log, result>> /\ refused' = refused \cup {Len(log)}
    BY DEF Refuse, callerVars, contentVars
  <2>2. PICK i, n \in 1..Len(log) :
          /\ log[i] = "idle" /\ i <= n
          /\ result.text = TextOf(n) /\ result.events = RuntimePlaces(n)
          /\ refused \cap 1..i = {}
    BY <2>1 DEF IInv, SuccessIsWhole
  <2>3. i < Len(log)
    BY <1>1, <2>2
  <2>4. refused' \cap 1..i = {}
    BY <1>1, <2>1, <2>2, <2>3
  <2>5. TextOf(n)' = TextOf(n)
    BY <1>3 DEF TextOf
  <2>6. RuntimePlaces(n)' = RuntimePlaces(n)
    BY <1>3 DEF RuntimePlaces
  <2>. QED
    BY <2>1, <2>2, <2>4, <2>5, <2>6
<1>5. firstErr' # 0
  BY <1>1 DEF Refuse
<1>. QED
  BY <1>2, <1>3, <1>4, <1>5 DEF IInv, Refuse, callerVars, contentVars, RuntimePlaces

\* An event that comes while Send leaves takes nothing from its result: what was
\* delivered by then stays where it is.
LEMMA LeavingStaysWhole ==
  ASSUME IInv, NEW e \in Kinds, log' = Append(log, e), UNCHANGED <<result, refused>>
  PROVE  SuccessIsWhole'
<1>1. Len(log) \in Nat /\ Len(log') = Len(log) + 1 /\ \A l \in 1..Len(log) : log'[l] = log[l]
  BY DEF IInv, TypeOK
<1>2. ASSUME NEW k, NEW n \in 1..Len(log) PROVE Places(k, n)' = Places(k, n)
  <2>1. \A l \in 1..n : log'[l] = log[l]
    BY <1>1
  <2>. QED
    BY <2>1 DEF Places
<1> SUFFICES ASSUME result.outcome = "ok"
             PROVE  \E i, n \in 1..Len(log)' :
                      /\ log'[i] = "idle" /\ i <= n
                      /\ result.text = TextOf(n)' /\ result.events = RuntimePlaces(n)'
                      /\ refused \cap 1..i = {}
  BY DEF SuccessIsWhole
<1>3. PICK i, n \in 1..Len(log) :
        /\ log[i] = "idle" /\ i <= n
        /\ result.text = TextOf(n) /\ result.events = RuntimePlaces(n)
        /\ refused \cap 1..i = {}
  BY DEF IInv, SuccessIsWhole
<1>4. i \in 1..Len(log)' /\ n \in 1..Len(log)' /\ log'[i] = "idle"
  BY <1>1, <1>3
<1>5. TextOf(n)' = TextOf(n)
  BY <1>2 DEF TextOf
<1>6. RuntimePlaces(n)' = RuntimePlaces(n)
  BY <1>2 DEF RuntimePlaces
<1>. QED
  BY <1>3, <1>4, <1>5, <1>6

LEMMA DeliverStep ==
  ASSUME IInv, NEW k \in Kinds, Deliver(k)
  PROVE  IInv'
<1>1. log \in Seq(Kinds) /\ log' = Append(log, k) /\ k # "idle"
  BY DEF IInv, TypeOK, Deliver
<1> DEFINE n == Len(log) + 1
<1>2. /\ Len(log)' = n /\ Len(log) \in Nat /\ n \notin 1..Len(log)
      /\ \A j : Places(j, Len(log))' = IF k = j THEN Places(j, Len(log)) \cup {n}
                                                ELSE Places(j, Len(log))
  <2>1. Len(log)' = n /\ Len(log) \in Nat
    BY <1>1, PlacesAppend
  <2>2. ASSUME NEW j
        PROVE  Places(j, Len(log))' = IF k = j THEN Places(j, Len(log)) \cup {n}
                                               ELSE Places(j, Len(log))
    BY <1>1, PlacesAppend
  <2>3. n \notin 1..Len(log)
    BY <2>1
  <2> HIDE DEF n
  <2>. QED
    BY <2>1, <2>2, <2>3
<1>3. /\ contentBuf' = IF k = "delta" THEN contentBuf \cup {n} ELSE contentBuf
      /\ finalText' = IF k = "message" THEN n ELSE finalText
      /\ runtimeEvents' = IF k \in Runtime THEN runtimeEvents \cup {n} ELSE runtimeEvents
      /\ callback' \in {"check", "dispatch"}
      /\ UNCHANGED <<pc, ready, failure, result, rpc, cause, firstErr, refused>>
  BY DEF Deliver, CollectEvent, callerVars, errorVars
<1>4. SuccessIsWhole'
  BY <1>1, <1>3, LeavingStaysWhole
<1>5. TypeOK'
  BY <1>1, <1>2, <1>3 DEF IInv, TypeOK
<1>6. IF finalText' = 0 THEN Places("message", Len(log))' = {}
                        ELSE {finalText'} = Latest(Places("message", Len(log)))'
  <2>1. CASE k = "message"
    <3>1. \A j \in Places("message", Len(log)) : j < n
      BY <1>2 DEF Places
    <3>2. Latest(Places("message", Len(log)) \cup {n}) = {n}
      BY <1>2, <3>1 DEF Latest, Places
    <3>3. Places("message", Len(log))' = Places("message", Len(log)) \cup {n}
      BY <1>2, <2>1
    <3>4. Latest(Places("message", Len(log)))' = {n}
      BY <3>2, <3>3 DEF Latest
    <3>. QED
      BY <1>2, <1>3, <2>1, <3>4
  <2>2. CASE k # "message"
    BY <1>2, <1>3, <2>2 DEF IInv, Latest
  <2>. QED
    BY <2>1, <2>2
<1>7. log' # <<>> /\ log'[Len(log)'] # "idle"
  BY <1>1, <1>2
<1>8. contentBuf' = Places("delta", Len(log))' /\ runtimeEvents' = RuntimePlaces(Len(log))'
  <2>1. contentBuf = Places("delta", Len(log)) /\ runtimeEvents = RuntimePlaces(Len(log))
    BY DEF IInv
  <2>2. RuntimePlaces(Len(log))' = Places("reasoning", Len(log))' \cup Places("notice", Len(log))'
    BY DEF RuntimePlaces
  <2>3. Places("delta", Len(log))' = IF k = "delta" THEN Places("delta", Len(log)) \cup {n}
                                                   ELSE Places("delta", Len(log))
    BY <1>2
  <2>4. /\ Places("reasoning", Len(log))' = IF k = "reasoning" THEN Places("reasoning", Len(log)) \cup {n}
                                                              ELSE Places("reasoning", Len(log))
        /\ Places("notice", Len(log))' = IF k = "notice" THEN Places("notice", Len(log)) \cup {n}
                                                        ELSE Places("notice", Len(log))
    BY <1>2
  <2> HIDE DEF n
  <2>5. contentBuf' = Places("delta", Len(log))'
    BY <1>3, <2>1, <2>3
  <2>6. runtimeEvents' = RuntimePlaces(Len(log))'
    BY <1>3, <2>1, <2>2, <2>4 DEF RuntimePlaces, Runtime
  <2>. QED
    BY <2>5, <2>6
<1>9. ("idle" \in ready \/ pc = "collecting") => Places("idle", Len(log))' # {}
  BY <1>1, <1>2 DEF IInv
<1>. QED
  BY <1>3, <1>4, <1>5, <1>6, <1>7, <1>8, <1>9 DEF IInv

LEMMA DeliverIdleStep ==
  ASSUME IInv, DeliverIdle
  PROVE  IInv'
<1>1. log \in Seq(Kinds) /\ log' = Append(log, "idle") /\ "idle" \in Kinds
  BY DEF IInv, TypeOK, DeliverIdle, Kinds
<1>2. /\ Len(log)' = Len(log) + 1 /\ Len(log) \in Nat
      /\ \A j : Places(j, Len(log))' = IF "idle" = j THEN Places(j, Len(log)) \cup {Len(log) + 1}
                                                     ELSE Places(j, Len(log))
  BY <1>1, PlacesAppend
<1>3. /\ pc' \in {"sending", "waiting", "collecting"} \cup Parked \cup Settled
      /\ ready' \subseteq SendCases \cup WaitCases
      /\ UNCHANGED <<result, failure, rpc, cause, contentBuf, finalText, runtimeEvents,
                     firstErr, refused>>
      /\ callback' = "check"
      /\ result.outcome # "none" => pc' \in Settled
  BY DEF IInv, TypeOK, DeliverIdle, Signal, Take, WaitCases, errorVars, Parked, Settled
<1>4. SuccessIsWhole'
  BY <1>1, <1>3, LeavingStaysWhole
<1>5. TypeOK'
  BY <1>1, <1>2, <1>3 DEF IInv, TypeOK
<1>6. Places("idle", Len(log))' # {}
  BY <1>2
<1>7. Latest(Places("message", Len(log)))' = Latest(Places("message", Len(log)))
  BY <1>2 DEF Latest
<1>8. /\ Places("delta", Len(log))' = Places("delta", Len(log))
      /\ Places("message", Len(log))' = Places("message", Len(log))
      /\ RuntimePlaces(Len(log))' = RuntimePlaces(Len(log))
  <2>1. \A j : j # "idle" => Places(j, Len(log))' = Places(j, Len(log))
    BY <1>2
  <2>2. RuntimePlaces(Len(log))' = Places("reasoning", Len(log))' \cup Places("notice", Len(log))'
    BY DEF RuntimePlaces
  <2>3. /\ Places("delta", Len(log))' = Places("delta", Len(log))
        /\ Places("message", Len(log))' = Places("message", Len(log))
        /\ Places("reasoning", Len(log))' = Places("reasoning", Len(log))
        /\ Places("notice", Len(log))' = Places("notice", Len(log))
    BY <2>1
  <2>. QED
    BY <2>2, <2>3 DEF RuntimePlaces
<1>. QED
  BY <1>3, <1>4, <1>5, <1>6, <1>7, <1>8 DEF IInv

LEMMA NextIInv == IInv /\ [Next]_vars => IInv'
<1> SUFFICES ASSUME IInv, [Next]_vars PROVE IInv'
  OBVIOUS
<1>1. CASE UNCHANGED vars
  <2>1. TypeOK'
    BY <1>1 DEF IInv, TypeOK, vars, callerVars, contentVars, errorVars
  <2>. QED
    BY <1>1, <2>1, QuietStep DEF IInv, vars, callerVars
<1>. QED
  BY <1>1, CallerSteps, RpcAndContextSteps, SignallingSteps, AcceptStep, RefuseStep,
     DeliverStep, DeliverIdleStep DEF Next, CallbackStep

\* The invariant: what the callback has collected is what the log contains,
\* and an idle signal implies an idle event (copilot.go:395-402, 626-645).
THEOREM IInvariance == Spec => []IInv
  BY InitIInv, NextIInv, PTL DEF Spec

\* A successful turn is whole: its text and runtime events are all that came
\* before the session was idle, and the handler refused none of it.
THEOREM TurnsAreWhole == Spec => []SuccessIsWhole
<1>1. IInv => SuccessIsWhole
  BY DEF IInv
<1>. QED
  BY <1>1, IInvariance, PTL
-----------------------------------------------------------------------------
(* What may end a Send reaches it.                                         *)

Seen(k) == Places(k, Len(log)) # {}

\* Each channel keeps its signal until the caller takes it, so that the caller is
\* never parked at a select one of whose cases is ready, nor where none of them can
\* become ready any more.
SignalsAreKept ==
  /\ pc \in Parked => Cases \cap ready = {}
  /\ cause # "none" => "done" \in ready \/ pc \in Settled
  /\ Seen("idle") => "idle" \in ready \/ pc \in {"collecting"} \cup Settled
  /\ rpc = "returned" /\ pc \in {"sending", "sendingParked"} => {"sent", "sendFailed"} \cap ready # {}

\* The callback cancels the context for every event that fails.
FailuresCancel ==
  /\ refused # {} /\ cause = "none" => callback = "cancelByHandler"
  /\ Seen("error") /\ cause = "none" =>
       \/ callback \in {"cancelByHandler", "cancelBySession"}
       \/ callback = "dispatch" /\ log[Len(log)] = "error"

\* A Send that is parked has nothing to wake up for: the context goes on, no
\* event failed but the one the callback is at, and the call or the session
\* that its select waits for is not over.
NothingToWakeFor ==
  pc \in Parked =>
    /\ cause = "none"
    /\ refused # {} => callback = "cancelByHandler"
    /\ Seen("error") => callback \in {"dispatch", "cancelByHandler", "cancelBySession"}
    /\ IF pc = "sendingParked" THEN rpc = "calling" ELSE ~Seen("idle")

LEMMA SignalKeeps ==
  ASSUME TypeOK, SignalsAreKept, NEW c \in SendCases \cup WaitCases, NEW why, Signal(c, why)
  PROVE  /\ pc' \in Parked => Cases' \cap ready' = {}
         /\ "done" \in ready \/ pc \in Settled \/ c = "done" => "done" \in ready' \/ pc' \in Settled
         /\ "idle" \in ready \/ pc \in {"collecting"} \cup Settled \/ c = "idle"
              => "idle" \in ready' \/ pc' \in {"collecting"} \cup Settled
         /\ pc' \in {"sending", "sendingParked"} =>
              pc \in {"sending", "sendingParked"} /\ ready' = ready \cup {c}
<1>1. CASE pc \in Parked /\ c \in Cases
  <2>1. ready' = ready /\ pc' \in {"waiting", "collecting", "leaving"}
    BY <1>1 DEF Signal, Take
  <2>2. c = "done" => pc' = "leaving"
    BY <1>1 DEF Signal, Take
  <2>3. c = "idle" => pc' = "collecting"
    BY <1>1 DEF Signal, Take
  <2>4. "done" \notin ready
    BY <1>1 DEF SignalsAreKept, Cases, Parked, SendCases, WaitCases
  <2>5. pc \notin {"collecting"} \cup Settled
    BY <1>1 DEF Parked, Settled
  <2>. QED
    BY <1>1, <2>1, <2>2, <2>3, <2>4, <2>5 DEF Parked, Settled
<1>2. CASE ~(pc \in Parked /\ c \in Cases)
  <2>1. ready' = ready \cup {c} /\ pc' = pc
    BY <1>2 DEF Signal
  <2>2. Cases' = Cases
    BY <2>1 DEF Cases
  <2>. QED
    BY <1>2, <2>1, <2>2 DEF SignalsAreKept
<1>. QED
  BY <1>1, <1>2

\* A signal preserves what is kept, if it is the one that what happens calls for.
LEMMA SignalStep ==
  ASSUME TypeOK, SignalsAreKept, NEW c \in SendCases \cup WaitCases, NEW why, Signal(c, why),
         cause' # "none" => cause # "none" \/ c = "done",
         Seen("idle")' => Seen("idle") \/ c = "idle",
         rpc' = "returned" => rpc = "returned" \/ c \in {"sent", "sendFailed"}
  PROVE  SignalsAreKept'
  BY SignalKeeps DEF SignalsAreKept

\* And so does a step that signals nothing and lets nothing happen.
LEMMA SilenceKeeps ==
  ASSUME SignalsAreKept, UNCHANGED <<pc, ready>>, cause' = cause, rpc' = rpc,
         Seen("idle")' => Seen("idle")
  PROVE  SignalsAreKept'
<1>1. Cases' = Cases
  BY DEF Cases
<1>. QED
  BY <1>1 DEF SignalsAreKept

LEMMA CallerKeeps ==
  ASSUME TypeOK, SignalsAreKept, CallerStep
  PROVE  SignalsAreKept'
<1>0. Seen("idle")' = Seen("idle") /\ cause' = cause /\ rpc' = rpc
  BY DEF CallerStep, Park, Choose, Collect, Unsubscribe, contentVars, Seen, Places
<1>1. CASE Park
  <2>1. Cases' = Cases
    BY <1>1 DEF Park, Cases
  <2>. QED
    BY <1>0, <1>1, <2>1 DEF Park, Parked, SignalsAreKept, Settled
<1>2. ASSUME NEW c \in SendCases \cup WaitCases, Choose(c) PROVE SignalsAreKept'
  <2>1. /\ pc \in {"sending", "waiting"} /\ c \in Cases
        /\ ready' = ready \ ({c} \ {"done"})
        /\ pc' = IF c = "sent" THEN "waiting" ELSE IF c = "idle" THEN "collecting" ELSE "leaving"
    BY <1>2 DEF Choose, Take
  <2>2. pc' \notin Parked \cup {"sending"}
    BY <2>1 DEF Parked
  <2>3. "done" \in ready => "done" \in ready'
    BY <2>1
  <2>4. "idle" \in ready => "idle" \in ready' \/ pc' = "collecting"
    BY <2>1
  <2>. QED
    BY <1>0, <2>1, <2>2, <2>3, <2>4 DEF Parked, SignalsAreKept, Settled
<1>3. CASE Collect \/ Unsubscribe
  BY <1>0, <1>3 DEF Collect, Unsubscribe, Parked, SignalsAreKept, Settled
<1>. QED
  BY <1>1, <1>2, <1>3 DEF CallerStep

LEMMA NextKeeps ==
  ASSUME IInv, SignalsAreKept, [Next]_vars
  PROVE  SignalsAreKept'
<1>0. TypeOK /\ {"sent", "sendFailed", "done", "idle", "error"} \subseteq SendCases \cup WaitCases
  BY DEF IInv, SendCases, WaitCases
<1>1. CASE CallerStep
  BY <1>0, <1>1, CallerKeeps
<1>2. CASE RpcReturns
  <2>1. PICK c \in {"sent", "sendFailed"} : Signal(c, "rpc")
    BY <1>2 DEF RpcReturns
  <2>2. Seen("idle")' = Seen("idle") /\ cause' = cause
    BY <1>2 DEF RpcReturns, contentVars, Seen, Places
  <2>. QED
    BY <1>0, <2>1, <2>2, SignalStep
<1>3. ASSUME NEW why \in Causes, Cancel(why), UNCHANGED <<rpc, contentVars>>
      PROVE  SignalsAreKept'
  <2>1. Seen("idle")' = Seen("idle") /\ rpc' = rpc
    BY <1>3 DEF contentVars, Seen, Places
  <2>2. CASE cause = "none"
    BY <1>0, <1>3, <2>1, <2>2, SignalStep DEF Cancel
  <2>3. CASE cause # "none"
    BY <1>3, <2>1, <2>3, SilenceKeeps DEF Cancel
  <2>. QED
    BY <2>2, <2>3
<1>4. ASSUME NEW why \in Causes, SendError(why), UNCHANGED <<rpc, cause, contentVars>>
      PROVE  SignalsAreKept'
  <2>1. Seen("idle")' = Seen("idle") /\ rpc' = rpc /\ cause' = cause
    BY <1>4 DEF contentVars, Seen, Places
  <2>2. CASE "error" \in ready
    BY <1>4, <2>1, <2>2, SilenceKeeps DEF SendError, callerVars
  <2>3. CASE "error" \notin ready
    BY <1>0, <1>4, <2>1, <2>3, SignalStep DEF SendError
  <2>. QED
    BY <2>2, <2>3
<1>5. CASE DeliverIdle
  <2>1. Signal("idle", "none") /\ cause' = cause /\ rpc' = rpc
    BY <1>5 DEF DeliverIdle
  <2>. QED
    BY <1>0, <2>1, SignalStep
<1>6. CASE UNCHANGED <<pc, ready, cause, rpc>> /\ (Seen("idle")' => Seen("idle"))
  BY <1>6, SilenceKeeps
<1>7. CASE ContextEnds \/ CancelByHandler \/ CancelBySession
  BY <1>3, <1>7 DEF ContextEnds, CancelByHandler, CancelBySession, Causes
<1>8. CASE Report \/ CheckCause
  <2>1. CASE UNCHANGED <<callerVars, cause, rpc, contentVars>>
    BY <1>6, <2>1 DEF callerVars, contentVars, Seen, Places
  <2>2. CASE ~UNCHANGED <<callerVars, cause, rpc, contentVars>>
    <3>1. /\ UNCHANGED <<rpc, cause, contentVars>>
          /\ \E why \in Causes : SendError(why)
      BY <1>0, <1>8, <2>2 DEF Report, CheckCause, Causes, TypeOK
    <3>. QED
      BY <1>4, <3>1
  <2>. QED
    BY <2>1, <2>2
<1>9. ASSUME NEW k \in Kinds, Deliver(k) PROVE SignalsAreKept'
  <2>1. k # "idle" /\ log' = Append(log, k) /\ UNCHANGED <<pc, ready, cause, rpc>>
    BY <1>9 DEF Deliver, callerVars
  <2>2. Seen("idle")' => Seen("idle")
    BY <1>0, <2>1, PlacesAppend DEF TypeOK, Seen
  <2>. QED
    BY <1>6, <2>1, <2>2
<1>10. CASE Accept \/ Refuse \/ UNCHANGED vars
  BY <1>6, <1>10 DEF Accept, Refuse, vars, callerVars, contentVars, Seen, Places
<1>. QED
  BY <1>1, <1>2, <1>5, <1>7, <1>8, <1>9, <1>10 DEF Next, CallbackStep

LEMMA NextCancels ==
  ASSUME IInv, FailuresCancel, [Next]_vars
  PROVE  FailuresCancel'
<1>1. CASE UNCHANGED <<refused, log, callback>> /\ (cause' = "none" => cause = "none")
  BY <1>1 DEF FailuresCancel, Seen, Places
<1>2. CASE CallerStep \/ RpcReturns \/ ContextEnds
  <2>1. UNCHANGED <<refused, log, callback>>
    BY <1>2 DEF CallerStep, Park, Choose, Collect, Unsubscribe, RpcReturns, ContextEnds,
                contentVars, errorVars
  <2>2. cause' = "none" => cause = "none"
    BY <1>2 DEF CallerStep, Park, Choose, Collect, Unsubscribe, RpcReturns, ContextEnds
  <2>. QED
    BY <1>1, <2>1, <2>2
<1>3. CASE CancelByHandler \/ CancelBySession
  <2>1. cause' # "none"
    BY <1>3 DEF CancelByHandler, CancelBySession, Cancel
  <2>. QED
    BY <2>1 DEF FailuresCancel
<1>4. CASE Report \/ CheckCause
  <2>1. callback \in {"report", "check"} /\ UNCHANGED <<refused, log, cause>>
    BY <1>4 DEF Report, CheckCause, contentVars, errorVars
  <2>. QED
    BY <2>1 DEF FailuresCancel, Seen, Places
<1>5. CASE Accept
  <2>1. /\ callback = "dispatch" /\ UNCHANGED <<refused, log, cause>>
        /\ log[Len(log)] = "error" => callback' = "cancelBySession"
    BY <1>5 DEF Accept, AfterDispatch, contentVars, errorVars
  <2>. QED
    BY <2>1 DEF FailuresCancel, Seen, Places
<1>6. CASE Refuse
  <2>1. callback' = "cancelByHandler"
    BY <1>6 DEF Refuse
  <2>. QED
    BY <2>1 DEF FailuresCancel
<1>7. ASSUME NEW k \in Kinds, callback = "none", log' = Append(log, k), UNCHANGED <<refused, cause>>,
             k = "error" => callback' = "dispatch"
      PROVE  FailuresCancel'
  <2>1. log \in Seq(Kinds)
    BY DEF IInv, TypeOK
  <2>2. Seen("error")' => Seen("error") \/ k = "error"
    BY <1>7, <2>1, PlacesAppend DEF Seen
  <2>3. log'[Len(log')] = k
    BY <1>7, <2>1
  <2>. QED
    BY <1>7, <2>2, <2>3 DEF FailuresCancel
<1>8. CASE DeliverIdle
  <2>1. "idle" \in Kinds /\ callback = "none" /\ log' = Append(log, "idle")
        /\ UNCHANGED <<refused, cause>>
    BY <1>8 DEF DeliverIdle, Kinds, errorVars
  <2>. QED
    BY <1>7, <2>1
<1>9. ASSUME NEW k \in Kinds, Deliver(k) PROVE FailuresCancel'
  <2>1. /\ callback = "none" /\ log' = Append(log, k) /\ UNCHANGED <<refused, cause>>
        /\ k = "error" => callback' = "dispatch"
    BY <1>9 DEF Deliver, errorVars
  <2>. QED
    BY <1>7, <2>1
<1>10. CASE UNCHANGED vars
  BY <1>1, <1>10 DEF vars, contentVars, errorVars
<1>. QED
  BY <1>2, <1>3, <1>4, <1>5, <1>6, <1>8, <1>9, <1>10 DEF Next, CallbackStep

\* No wake-up is lost: a caller that sleeps in a select has not missed the end of
\* its context, a failed event, the idle event or the return of the call that hands
\* over the prompt, whenever they came (copilot.go:395-407, 618-645, 678-701).
THEOREM NoWakeUpIsLost == Spec => []NothingToWakeFor
<1>1. Init => SignalsAreKept /\ FailuresCancel
  <2> SUFFICES ASSUME Init PROVE SignalsAreKept /\ FailuresCancel
    OBVIOUS
  <2>1. Len(log) = 0
    BY DEF Init
  <2>2. ~Seen("idle") /\ ~Seen("error")
    BY <2>1 DEF Seen, Places
  <2>. QED
    BY <2>2 DEF Init, SignalsAreKept, FailuresCancel, Parked
<1>2. IInv /\ SignalsAreKept /\ [Next]_vars => SignalsAreKept'
  BY NextKeeps
<1>3. IInv /\ FailuresCancel /\ [Next]_vars => FailuresCancel'
  BY NextCancels
<1>4. SignalsAreKept /\ FailuresCancel /\ (rpc \in {"calling", "returned"}) => NothingToWakeFor
  BY DEF SignalsAreKept, FailuresCancel, NothingToWakeFor, Parked, Cases, SendCases, WaitCases, Settled
<1>5. IInv => rpc \in {"calling", "returned"}
  BY DEF IInv, TypeOK
<1>. QED
  BY <1>1, <1>2, <1>3, <1>4, <1>5, IInvariance, PTL DEF Spec

-----------------------------------------------------------------------------
(* Streams: a Send whose handler writes to the response.                   *)

\* A step of a stream is a step of its Send, or none of it.
LEMMA StreamStep == [StreamNext]_allVars => [Next]_vars
<1> SUFFICES ASSUME [StreamNext]_allVars PROVE [Next]_vars
  OBVIOUS
<1>1. CASE HandlerStep
  BY <1>1 DEF HandlerStep, Written, WriteFails, CallSend, SendReturns
<1>2. CASE HandleEvent
  BY <1>2 DEF HandleEvent, Next, CallbackStep
<1>. QED
  BY <1>1, <1>2 DEF StreamNext, CallbackGoesOn, InSend, Next, CallbackStep, allVars

\* A stream is a Send: for all that its handler adds, the callback, the runtime
\* and the caller of Send take the steps of any other (copilot.go:357-478,
\* server.go:172-280).
THEOREM StreamsAreSends == StreamSpec => Spec
<1>1. StreamInit => Init
  BY DEF StreamInit
<1>. QED
  BY <1>1, StreamStep, PTL DEF StreamSpec, Spec

\* So what is true of every Send is true of those that are streamed.
LEMMA StreamedIInv == StreamSpec => []IInv
<1>1. StreamInit => IInv
  BY InitIInv DEF StreamInit
<1>2. IInv /\ [Next]_vars => IInv'
  BY NextIInv
<1>. QED
  BY <1>1, <1>2, StreamStep, PTL DEF StreamSpec

LEMMA InitStreamInv == StreamInit => StreamInv
<1> SUFFICES ASSUME StreamInit PROVE StreamInv
  OBVIOUS
<1>1. Len(log) = 0 /\ Len(out) = 0 /\ result.outcome = "none"
  BY DEF StreamInit, Init, Pending
<1>2. todo \in Seq(OwnFrames) /\ \A j \in 1..Len(todo) : todo[j] \notin Endings
  <2>1. /\ "role" \in OwnFrames \ Endings
        /\ {"message_start", "content_block_start"} \subseteq OwnFrames \ Endings
    BY DEF OwnFrames, Endings
  <2>2. CASE options.openai
    <3>1. todo = <<"role">>
      BY <2>2 DEF StreamInit, HeadFrames
    <3>. QED
      BY <2>1, <3>1
  <2>3. CASE ~options.openai
    <3>1. todo = <<"message_start", "content_block_start">>
      BY <2>3 DEF StreamInit, HeadFrames
    <3>. QED
      BY <2>1, <3>1
  <2>. QED
    BY <2>2, <2>3
<1>3. StreamTypes
  BY <1>2 DEF StreamInit, StreamTypes
<1>4. EventFramesInv
  BY <1>1 DEF EventFramesInv, Places
<1>5. StageInv
  BY <1>1, <1>2 DEF StreamInit, StageInv
<1>. QED
  BY <1>1, <1>3, <1>4, <1>5
     DEF StreamInv, StreamInit, StreamIsWhole, LateFramesAreOfOneEvent

\* Once Send has returned, its result and what it was made of stay.
LEMMA ReturnedStays ==
  ASSUME IInv, pc = "returned", [Next]_vars
  PROVE  pc' = "returned" /\ UNCHANGED <<result, contentVars>>
<1>1. \A c, why : Signal(c, why) => UNCHANGED <<pc, result>>
  BY DEF Signal, Parked
<1>2. \A why : Cancel(why) => UNCHANGED <<pc, result>>
  BY <1>1 DEF Cancel
<1>3. \A why : SendError(why) => UNCHANGED <<pc, result>>
  BY <1>1 DEF SendError, callerVars
<1>4. ~CallerStep
  BY DEF CallerStep, Park, Choose, Collect, Unsubscribe
<1>. QED
  BY <1>1, <1>2, <1>3, <1>4
     DEF Next, RpcReturns, ContextEnds, CallbackStep, Accept, Refuse, CancelByHandler,
         CancelBySession, Report, CheckCause, Deliver, DeliverIdle, callerVars, vars

LEMMA OutAppend ==
  ASSUME StreamTypes, NEW f \in [what : FrameNames, event : Nat], out' = Append(out, f)
  PROVE  /\ out' \in Seq([what : FrameNames, event : Nat])
         /\ Len(out) \in Nat /\ Len(out') = Len(out) + 1 /\ out'[Len(out) + 1] = f
         /\ \A j \in 1..Len(out) : out'[j] = out[j]
  BY DEF StreamTypes

\* Frames that end nothing leave what a stream has shown before its end.
LEMMA WholeStays ==
  ASSUME StreamTypes, StreamIsWhole, UNCHANGED <<log, result>>,
         stage' = "tail" => stage = "tail", errorType' = "none" => errorType = "none",
         \/ out' = out
         \/ \E f \in [what : FrameNames, event : Nat] :
              out' = Append(out, f) /\ (f.what \in Endings => \E l \in 1..Len(out) : out[l].what \in Endings)
  PROVE  StreamIsWhole'
<1>1. \A k, n : Places(k, n)' = Places(k, n)
  BY DEF Places
<1>2. CASE out' = out
  <2>1. \A j : EndsAt(j)' = EndsAt(j) /\ ShownBefore(j)' = ShownBefore(j)
    BY <1>2 DEF EndsAt, ShownBefore
  <2>. QED
    BY <1>1, <1>2, <2>1 DEF StreamIsWhole
<1>3. ASSUME NEW f \in [what : FrameNames, event : Nat], out' = Append(out, f),
             f.what \in Endings => \E l \in 1..Len(out) : out[l].what \in Endings
      PROVE  StreamIsWhole'
  <2> SUFFICES ASSUME stage' = "tail", errorType' = "none", NEW j \in 1..Len(out'), EndsAt(j)'
               PROVE  /\ \E i \in 1..Len(log) :
                           /\ log[i] = "idle" /\ Places("delta", i) \subseteq ShownBefore(j)'
                           /\ \/ Places("delta", i) \subseteq result.text
                              \/ result.text \subseteq Places("message", Len(log))
                      /\ ShownBefore(j)' \subseteq Places("delta", Len(log))
                      /\ \A l, m \in 1..j : /\ l < m /\ out'[l].event # 0 /\ out'[m].event # 0
                                            => out'[l].event < out'[m].event
    BY <1>1 DEF StreamIsWhole
  <2>1. /\ Len(out) \in Nat /\ Len(out') = Len(out) + 1 /\ out'[Len(out) + 1] = f
        /\ \A l \in 1..Len(out) : out'[l] = out[l]
    BY <1>3, OutAppend
  <2>2. j # Len(out) + 1
    <3> SUFFICES ASSUME j = Len(out) + 1 PROVE FALSE
      OBVIOUS
    <3>1. f.what \in Endings
      BY <2>1 DEF EndsAt
    <3>2. PICK l \in 1..Len(out) : out[l].what \in Endings
      BY <1>3, <3>1
    <3>3. out'[l].what \in Endings /\ l \in 1..j-1
      BY <2>1, <3>2
    <3>. QED
      BY <3>3 DEF EndsAt
  <2>3. j \in 1..Len(out) /\ \A l \in 1..j : l \in 1..Len(out) /\ out'[l] = out[l]
    BY <2>1, <2>2
  <2>4. EndsAt(j) /\ ShownBefore(j)' = ShownBefore(j)
    <3>1. \A l \in 1..j-1 : l \in 1..j
      BY <2>3
    <3>2. EndsAt(j)
      BY <2>3, <3>1 DEF EndsAt
    <3>3. ShownBefore(j)' = ShownBefore(j)
      BY <2>3 DEF ShownBefore
    <3>. QED
      BY <3>2, <3>3
  <2>. QED
    BY <2>3, <2>4 DEF StreamIsWhole
<1>. QED
  BY <1>2, <1>3

\* Steps of Send that neither deliver nor dispatch an event.
LEMMA QuietStreamStep ==
  ASSUME IInv, StreamInv, [Next]_vars, UNCHANGED streamVars, UNCHANGED <<log, refused>>,
         (callback' = "dispatch") <=> (callback = "dispatch")
  PROVE  StreamInv'
<1> USE DEF streamVars
<1>2. stage = "tail" => pc' = "returned" /\ result' = result
  BY ReturnedStays DEF StreamInv, StageInv
<1>3. \A k, n : Places(k, n)' = Places(k, n)
  BY DEF Places
<1>4. StreamTypes' /\ StageInv'
  BY <1>2 DEF StreamInv, StreamTypes, StageInv
<1>5. EventFramesInv'
  BY <1>3 DEF StreamInv, EventFramesInv
<1>6. StreamIsWhole'
  <2>1. CASE stage = "tail"
    BY <1>2, <2>1, WholeStays DEF StreamInv
  <2>2. CASE stage # "tail"
    BY <2>2 DEF StreamIsWhole
  <2>. QED
    BY <2>1, <2>2
<1>7. LateFramesAreOfOneEvent'
  BY DEF StreamInv, LateFramesAreOfOneEvent
<1>. QED
  BY <1>4, <1>5, <1>6, <1>7 DEF StreamInv

\* An event is delivered before Send has returned, so nothing ends the stream yet.
LEMMA DeliverStreamStep ==
  ASSUME IInv, StreamInv, UNCHANGED streamVars, NEW k \in Kinds,
         (k # "idle" /\ Deliver(k)) \/ (k = "idle" /\ DeliverIdle)
  PROVE  StreamInv'
<1> USE DEF streamVars
<1>1. /\ log \in Seq(Kinds) /\ log' = Append(log, k) /\ refused' = refused
      /\ callback = "none" /\ pc # "returned"
      /\ k = "delta" => callback' = "dispatch"
  BY DEF IInv, TypeOK, Deliver, DeliverIdle, errorVars
<1>2. stage # "tail"
  BY <1>1 DEF StreamInv, StageInv
<1>4. StreamTypes' /\ StageInv' /\ StreamIsWhole' /\ LateFramesAreOfOneEvent'
  BY <1>2 DEF StreamInv, StreamTypes, StageInv, StreamIsWhole, LateFramesAreOfOneEvent
<1>5. EventFramesInv'
  <2>1. /\ Len(log)' = Len(log) + 1 /\ Len(log) \in Nat
        /\ Places("delta", Len(log))' = IF k = "delta" THEN Places("delta", Len(log)) \cup {Len(log) + 1}
                                                       ELSE Places("delta", Len(log))
    BY <1>1, PlacesAppend
  <2>2. \A j \in 1..Len(out) : /\ out[j].event \in 0..Len(log)
                               /\ out[j].what = "delta" => out[j].event \in Places("delta", Len(log))
    BY DEF StreamInv, EventFramesInv
  <2>3. \A j \in 1..Len(out) : /\ out[j].event \in 0..Len(log)' /\ out[j].event # Len(log)'
                               /\ out[j].what = "delta" => out[j].event \in Places("delta", Len(log))'
    BY <2>1, <2>2
  <2>4. \A n \in Places("delta", Len(log)) \ refused : \E j \in 1..Len(out) : out[j] = Frame("delta", n)
    BY <1>1 DEF StreamInv, EventFramesInv
  <2>5. \A n \in Places("delta", Len(log))' \ refused' :
          \/ callback' = "dispatch" /\ n = Len(log)'
          \/ \E j \in 1..Len(out) : out[j] = Frame("delta", n)
    BY <1>1, <2>1, <2>4
  <2>. QED
    BY <2>3, <2>5 DEF StreamInv, EventFramesInv, Frame
<1>. QED
  BY <1>4, <1>5 DEF StreamInv

\* An event has at most one frame.
LEMMA EventFramesOne ==
  ASSUME NEW k \in Kinds
  PROVE  /\ EventFrames(k) \in {<<>>, <<"delta">>, <<"x_copilot">>}
         /\ (EventFrames(k) = <<"delta">>) <=> (k = "delta")
<1>1. CASE k = "delta"
  <2>1. EventFrames(k) = <<"delta">> \o <<>> \o <<>>
    BY <1>1 DEF EventFrames, PassesOn, HasRuntime, Runtime
  <2>2. EventFrames(k) = <<"delta">>
    BY <2>1
  <2>. QED
    BY <1>1, <2>2
<1>2. CASE k # "delta"
  <2>1. EventFrames(k) = <<>> \o <<>> \o (IF PassesOn(k) THEN <<"x_copilot">> ELSE <<>>)
    BY <1>2 DEF EventFrames, HasDelta
  <2>2. CASE PassesOn(k)
    <3>1. EventFrames(k) = <<"x_copilot">>
      BY <2>1, <2>2
    <3>2. <<"x_copilot">> # <<"delta">>
      OBVIOUS
    <3>. QED
      BY <1>2, <3>1, <3>2
  <2>3. CASE ~PassesOn(k)
    <3>1. EventFrames(k) = <<>>
      BY <2>1, <2>3
    <3>2. <<>> # <<"delta">>
      OBVIOUS
    <3>. QED
      BY <1>2, <3>1, <3>2
  <2>. QED
    BY <2>2, <2>3
<1>. QED
  BY <1>1, <1>2

LEMMA ConcatShort ==
  ASSUME NEW S, NEW s \in Seq(S)
  PROVE  /\ s \o <<>> = s
         /\ \A e \in S : s \o <<e>> = Append(s, e)
  OBVIOUS

\* What comes of an event: its handler fails, or has nothing to write, or writes.
LEMMA EventOutcome ==
  ASSUME IInv, StreamTypes, HandleEvent
  PROVE  \/ Refuse /\ out' = out
         \/ Accept /\ out' = out /\ log[Len(log)] # "delta"
         \/ /\ Accept
            /\ \E w \in {"delta", "x_copilot"} :
                 /\ out' = Append(out, Frame(w, Len(log)))
                 /\ (w = "delta") <=> (log[Len(log)] = "delta")
<1> DEFINE n == Len(log)
           frames == EventFrames(log[n])
<1>1. log[n] \in Kinds /\ n \in Nat
  BY DEF IInv, TypeOK, HandleEvent
<1>2. frames \in {<<>>, <<"delta">>, <<"x_copilot">>} /\ ((frames = <<"delta">>) <=> (log[n] = "delta"))
  BY <1>1, EventFramesOne
<1>3. PICK written \in 0..Len(frames) :
        /\ out' = out \o [j \in 1..written |-> Frame(frames[j], n)]
        /\ IF written = Len(frames) THEN Accept ELSE Refuse
  BY DEF HandleEvent
<1>4. Len(frames) \in {0, 1} /\ written \in {0, 1}
  BY <1>2
<1>5. CASE written = 0
  <2>1. [j \in 1..written |-> Frame(frames[j], n)] = <<>>
    BY <1>5
  <2>2. out' = out
    <3>1. out' = out \o <<>>
      BY <1>3, <2>1
    <3>. QED
      BY <3>1, ConcatShort DEF StreamTypes
  <2>3. CASE Accept
    <3>1. Len(frames) = 0 \/ Refuse
      BY <1>3, <1>5
    <3>2. ~(Accept /\ Refuse)
      BY DEF Accept, Refuse, AfterDispatch
    <3>. QED
      BY <1>2, <2>2, <2>3, <3>1, <3>2
  <2>. QED
    BY <1>3, <2>2, <2>3
<1>6. CASE written = 1
  <2>1. Len(frames) = 1 /\ Accept
    BY <1>3, <1>4, <1>6
  <2>2. PICK w \in {"delta", "x_copilot"} : frames = <<w>>
    BY <1>2, <2>1
  <2>3. [j \in 1..written |-> Frame(frames[j], n)] = <<Frame(w, n)>>
    BY <1>6, <2>2
  <2>4. out' = Append(out, Frame(w, n))
    <3>1. out' = out \o <<Frame(w, n)>>
      BY <1>3, <2>3
    <3>2. Frame(w, n) \in [what : FrameNames, event : Nat]
      BY <1>1 DEF Frame, FrameNames
    <3>. QED
      BY <3>1, <3>2, ConcatShort DEF StreamTypes
  <2>5. (w = "delta") <=> (log[n] = "delta")
    BY <1>2, <2>2
  <2>. QED
    BY <2>1, <2>4, <2>5
<1>. QED
  BY <1>4, <1>5, <1>6

LEMMA HandleEventStep ==
  ASSUME IInv, StreamInv, HandleEvent
  PROVE  StreamInv'
<1> DEFINE n == Len(log)
<1>1. /\ UNCHANGED <<options, stage, todo, errorType, log, result, pc>>
      /\ callback = "dispatch" /\ callback' # "dispatch" /\ n \in Nat /\ n # 0
  <2>1. Accept \/ Refuse
    BY DEF HandleEvent
  <2>2. callback' # "dispatch" /\ UNCHANGED <<log, result, pc>>
    BY <2>1 DEF Accept, Refuse, AfterDispatch, callerVars, contentVars
  <2>. QED
    BY <2>2 DEF HandleEvent, IInv, TypeOK
<1>2. \A k, m : Places(k, m)' = Places(k, m)
  BY <1>1 DEF Places
<1>3. /\ \A j \in 1..Len(out) : /\ out[j].event \in 0..n /\ out[j].event # n
                                /\ out[j].what = "delta" => out[j].event \in Places("delta", n)
      /\ \A j, l \in 1..Len(out) :
           j < l /\ out[j].event # 0 /\ out[l].event # 0 => out[j].event < out[l].event
      /\ \A m \in Places("delta", n) \ refused :
           m = n \/ \E j \in 1..Len(out) : out[j] = Frame("delta", m)
  BY <1>1 DEF StreamInv, EventFramesInv
<1>4. StageInv => \A j \in 1..Len(out) : stage # "tail" => out[j].what \notin Endings
  BY DEF StageInv
<1>6. CASE out' = out /\ refused' = refused \cup {n}
  <2>1. EventFramesInv'
    BY <1>1, <1>2, <1>3, <1>6 DEF EventFramesInv, Frame
  <2>2. StreamIsWhole'
    BY <1>1, <1>6, WholeStays DEF StreamInv
  <2>3. StreamTypes' /\ StageInv' /\ LateFramesAreOfOneEvent'
    BY <1>1, <1>6 DEF StreamInv, StreamTypes, StageInv, LateFramesAreOfOneEvent
  <2>. QED
    BY <2>1, <2>2, <2>3 DEF StreamInv
<1>7. CASE out' = out /\ refused' = refused /\ log[n] # "delta"
  <2>0. n \notin Places("delta", n)
    BY <1>7 DEF Places
  <2>1. EventFramesInv'
    BY <1>1, <1>2, <1>3, <1>7, <2>0 DEF EventFramesInv, Frame
  <2>2. StreamIsWhole'
    BY <1>1, <1>7, WholeStays DEF StreamInv
  <2>3. StreamTypes' /\ StageInv' /\ LateFramesAreOfOneEvent'
    BY <1>1, <1>7 DEF StreamInv, StreamTypes, StageInv, LateFramesAreOfOneEvent
  <2>. QED
    BY <2>1, <2>2, <2>3 DEF StreamInv
<1>8. ASSUME NEW w \in {"delta", "x_copilot"}, out' = Append(out, Frame(w, n)),
             refused' = refused, (w = "delta") <=> (log[n] = "delta")
      PROVE  StreamInv'
  <2>1. Frame(w, n) \in [what : FrameNames, event : Nat]
        /\ Frame(w, n).what = w /\ Frame(w, n).event = n /\ w \notin Endings
    BY <1>1 DEF Frame, FrameNames, Endings
  <2>2. /\ out' \in Seq([what : FrameNames, event : Nat])
        /\ Len(out) \in Nat /\ Len(out') = Len(out) + 1 /\ out'[Len(out) + 1] = Frame(w, n)
        /\ \A j \in 1..Len(out) : out'[j] = out[j]
    BY <1>8, <2>1, OutAppend DEF StreamInv
  <2>3. (w = "delta") <=> (n \in Places("delta", n))
    BY <1>1, <1>8 DEF Places
  <2>4. \A j \in 1..Len(out') : /\ out'[j].event \in 0..n
                                /\ out'[j].what = "delta" => out'[j].event \in Places("delta", n)
    <3> SUFFICES ASSUME NEW j \in 1..Len(out')
                 PROVE  /\ out'[j].event \in 0..n
                        /\ out'[j].what = "delta" => out'[j].event \in Places("delta", n)
      OBVIOUS
    <3>1. CASE j = Len(out) + 1
      BY <1>1, <2>1, <2>2, <2>3, <3>1
    <3>2. CASE j \in 1..Len(out)
      BY <1>3, <2>2, <3>2
    <3>. QED
      BY <2>2, <3>1, <3>2
  <2>5. \A j, l \in 1..Len(out') :
          j < l /\ out'[j].event # 0 /\ out'[l].event # 0 => out'[j].event < out'[l].event
    <3> SUFFICES ASSUME NEW j \in 1..Len(out'), NEW l \in 1..Len(out'), j < l,
                        out'[j].event # 0, out'[l].event # 0
                 PROVE  out'[j].event < out'[l].event
      OBVIOUS
    <3>1. j \in 1..Len(out)
      BY <2>2
    <3>2. CASE l = Len(out) + 1
      BY <1>1, <1>3, <2>1, <2>2, <3>1, <3>2
    <3>3. CASE l \in 1..Len(out)
      BY <1>3, <2>2, <3>1, <3>3
    <3>. QED
      BY <2>2, <3>2, <3>3
  <2>6. \A m \in Places("delta", n) \ refused' : \E j \in 1..Len(out') : out'[j] = Frame("delta", m)
    <3> SUFFICES ASSUME NEW m \in Places("delta", n) \ refused
                 PROVE  \E j \in 1..Len(out') : out'[j] = Frame("delta", m)
      BY <1>8
    <3>1. CASE m = n
      BY <2>2, <2>3, <3>1
    <3>2. CASE m # n
      <4>1. PICK j \in 1..Len(out) : out[j] = Frame("delta", m)
        BY <1>3, <3>2
      <4>. QED
        BY <2>2, <4>1
    <3>. QED
      BY <3>1, <3>2
  <2>7. EventFramesInv'
    BY <1>1, <1>2, <2>4, <2>5, <2>6 DEF EventFramesInv, Frame
  <2>8. StreamIsWhole'
    BY <1>1, <1>8, <2>1, WholeStays DEF StreamInv
  <2>9. StageInv'
    <3>1. stage # "tail" => \A j \in 1..Len(out') : out'[j].what \notin Endings
      BY <1>4, <2>1, <2>2 DEF StreamInv
    <3>. QED
      BY <1>1, <3>1 DEF StreamInv, StageInv
  <2>10. LateFramesAreOfOneEvent'
    <3> SUFFICES ASSUME NEW j \in 1..Len(out'), NEW l \in 1..Len(out'), j < l,
                        out'[j].what \in Endings, out'[l].event # 0
                 PROVE  out'[l].event = n
      BY <1>1 DEF LateFramesAreOfOneEvent
    <3>1. j \in 1..Len(out)
      BY <2>2
    <3>2. CASE l = Len(out) + 1
      BY <2>1, <2>2, <3>2
    <3>3. CASE l \in 1..Len(out)
      BY <2>2, <3>1, <3>3 DEF StreamInv, LateFramesAreOfOneEvent
    <3>. QED
      BY <2>2, <3>2, <3>3
  <2>. QED
    BY <1>1, <2>2, <2>7, <2>8, <2>9, <2>10 DEF StreamInv, StreamTypes
<1>. QED
  <2>1. Refuse => refused' = refused \cup {n}
    BY DEF Refuse
  <2>2. Accept => refused' = refused
    BY DEF Accept, errorVars
  <2>. QED
    BY <1>6, <1>7, <1>8, <2>1, <2>2, EventOutcome DEF StreamInv

\* What has been written when Send has succeeded: each delta up to the idle event,
\* which the result has as well unless it is a whole message.
LEMMA AllIsShown ==
  ASSUME IInv, StreamInv, result.outcome = "ok"
  PROVE  /\ \E i \in 1..Len(log) :
              /\ log[i] = "idle" /\ Places("delta", i) \subseteq ShownBefore(Len(out))
              /\ \/ Places("delta", i) \subseteq result.text
                 \/ result.text \subseteq Places("message", Len(log))
         /\ ShownBefore(Len(out)) \subseteq Places("delta", Len(log))
<1>1. Len(log) \in Nat /\ Len(out) \in Nat
  BY DEF IInv, TypeOK, StreamInv, StreamTypes
<1>2. PICK i, n \in 1..Len(log) :
        log[i] = "idle" /\ i <= n /\ result.text = TextOf(n) /\ refused \cap 1..i = {}
  BY DEF IInv, SuccessIsWhole
<1>3. ASSUME NEW d \in Places("delta", i)
      PROVE  d \in ShownBefore(Len(out))
  <2>1. d \in 1..i /\ log[d] = "delta"
    BY <1>3 DEF Places
  <2>2. d # i /\ d \notin refused
    BY <1>2, <2>1
  <2>3. d \in Places("delta", Len(log)) /\ d # Len(log)
    BY <1>1, <2>1, <2>2 DEF Places
  <2>4. PICK j \in 1..Len(out) : out[j] = Frame("delta", d)
    BY <2>2, <2>3 DEF StreamInv, EventFramesInv
  <2>5. out[j].what = "delta" /\ out[j].event = d
    BY <2>4 DEF Frame
  <2>. QED
    BY <2>5 DEF ShownBefore
<1>4. ShownBefore(Len(out)) \subseteq Places("delta", Len(log))
  BY DEF ShownBefore, StreamInv, EventFramesInv
<1>5. \/ Places("delta", i) \subseteq result.text
      \/ result.text \subseteq Places("message", Len(log))
  <2>1. CASE Places("message", n) = {}
    <3>1. result.text = Places("delta", n)
      BY <1>2, <2>1 DEF TextOf
    <3>. QED
      BY <1>1, <1>2, <3>1 DEF Places
  <2>2. CASE Places("message", n) # {}
    <3>1. result.text \subseteq Places("message", n)
      BY <1>2, <2>2 DEF TextOf, Latest
    <3>2. Places("message", n) \subseteq Places("message", Len(log))
      BY <1>1, <1>2 DEF Places
    <3>. QED
      BY <3>1, <3>2
  <2>. QED
    BY <2>1, <2>2
<1>. QED
  BY <1>2, <1>3, <1>4, <1>5

\* A frame of the handler's own: the first that ends a good stream comes when
\* all is shown.
LEMMA WrittenStep ==
  ASSUME IInv, StreamInv, Written
  PROVE  StreamInv'
<1> DEFINE f == Frame(Head(todo), 0)
<1>1. /\ UNCHANGED <<options, stage, errorType, log, result, pc, callback, refused, contentBuf, finalText>>
      /\ out' = Append(out, f) /\ todo' = Tail(todo) /\ todo # <<>>
  BY DEF Written, vars, callerVars, contentVars, errorVars
<1>2. todo \in Seq(OwnFrames) /\ Head(todo) \in OwnFrames
  BY <1>1 DEF StreamInv, StreamTypes
<1>3. /\ Len(todo) \in Nat /\ Len(todo) # 0 /\ Head(todo) = todo[1] /\ Tail(todo) \in Seq(OwnFrames)
      /\ \A j \in 1..Len(Tail(todo)) : j + 1 \in 1..Len(todo) /\ Tail(todo)[j] = todo[j + 1]
  BY <1>1, <1>2
<1>4. /\ f \in [what : FrameNames, event : Nat] /\ f.what = Head(todo) /\ f.event = 0
      /\ f.what # "delta"
  BY <1>2 DEF Frame, FrameNames, OwnFrames, Endings
<1> HIDE DEF f
<1>5. /\ out' \in Seq([what : FrameNames, event : Nat])
      /\ Len(out) \in Nat /\ Len(out') = Len(out) + 1 /\ out'[Len(out) + 1] = f
      /\ \A j \in 1..Len(out) : out'[j] = out[j]
  BY <1>1, <1>4, OutAppend DEF StreamInv
<1>6. \A k, m : Places(k, m)' = Places(k, m)
  BY <1>1 DEF Places
<1>7. StreamTypes'
  BY <1>1, <1>3, <1>5 DEF StreamInv, StreamTypes
<1>8. EventFramesInv'
  <2>1. \A j \in 1..Len(out') : j \in 1..Len(out) \/ (j = Len(out) + 1 /\ out'[j] = f)
    BY <1>5
  <2>2. Len(log) \in Nat /\ (callback = "dispatch" => Len(log) # 0)
    BY DEF IInv, TypeOK
  <2>3. \A j \in 1..Len(out') :
          /\ out'[j].event \in 0..Len(log)
          /\ callback = "dispatch" => out'[j].event # Len(log)
          /\ out'[j].what = "delta" => out'[j].event \in Places("delta", Len(log))
    BY <1>4, <1>5, <2>1, <2>2 DEF StreamInv, EventFramesInv
  <2>4. ASSUME NEW j \in 1..Len(out'), NEW l \in 1..Len(out'), j < l,
               out'[j].event # 0, out'[l].event # 0
        PROVE  out'[j].event < out'[l].event
    <3>1. j \in 1..Len(out) /\ l \in 1..Len(out)
      BY <1>4, <2>1, <2>4
    <3>2. out'[j] = out[j] /\ out'[l] = out[l]
      BY <1>5, <3>1
    <3>. QED
      BY <2>4, <3>1, <3>2 DEF StreamInv, EventFramesInv
  <2>5. \A m \in Places("delta", Len(log)) \ refused :
          \/ callback = "dispatch" /\ m = Len(log)
          \/ \E j \in 1..Len(out') : out'[j] = Frame("delta", m)
    <3> SUFFICES ASSUME NEW m \in Places("delta", Len(log)) \ refused,
                        ~(callback = "dispatch" /\ m = Len(log))
                 PROVE  \E j \in 1..Len(out') : out'[j] = Frame("delta", m)
      OBVIOUS
    <3>1. PICK j \in 1..Len(out) : out[j] = Frame("delta", m)
      BY DEF StreamInv, EventFramesInv
    <3>. QED
      BY <1>5, <3>1
  <2>. QED
    BY <1>1, <1>6, <2>3, <2>4, <2>5 DEF EventFramesInv, Frame
<1>9. StageInv'
  <2>1. CASE stage = "head"
    <3>1. \A j \in 1..Len(todo) : todo[j] \notin Endings
      BY <2>1 DEF StreamInv, StageInv
    <3>2. f.what \notin Endings /\ \A j \in 1..Len(todo') : todo'[j] \notin Endings
      BY <1>1, <1>3, <1>4, <3>1
    <3>3. \A j \in 1..Len(out) : out[j].what \notin Endings
      BY <2>1 DEF StreamInv, StageInv
    <3>4. \A j \in 1..Len(out') : out'[j].what \notin Endings
      BY <1>5, <3>2, <3>3
    <3>. QED
      BY <1>1, <2>1, <3>2, <3>4 DEF StageInv
  <2>2. CASE stage = "tail"
    BY <1>1, <2>2 DEF StreamInv, StageInv
  <2>. QED
    BY <1>1, <2>1, <2>2 DEF StreamInv, StageInv, StreamTypes
<1>10. StreamIsWhole'
  <2>1. CASE f.what \in Endings => \E l \in 1..Len(out) : out[l].what \in Endings
    BY <1>1, <1>4, <2>1, WholeStays DEF StreamInv
  <2>2. CASE f.what \in Endings /\ \A l \in 1..Len(out) : out[l].what \notin Endings
    <3> SUFFICES ASSUME stage = "tail", errorType = "none", NEW j \in 1..Len(out'), EndsAt(j)'
                 PROVE  /\ \E i \in 1..Len(log) :
                             /\ log[i] = "idle" /\ Places("delta", i) \subseteq ShownBefore(j)'
                             /\ \/ Places("delta", i) \subseteq result.text
                                \/ result.text \subseteq Places("message", Len(log))
                        /\ ShownBefore(j)' \subseteq Places("delta", Len(log))
                        /\ \A l, m \in 1..j : /\ l < m /\ out'[l].event # 0 /\ out'[m].event # 0
                                              => out'[l].event < out'[m].event
      BY <1>1, <1>6 DEF StreamIsWhole
    <3>1. j = Len(out) + 1
      BY <1>5, <2>2 DEF EndsAt
    <3>2. ShownBefore(j)' = ShownBefore(Len(out))
      <4>1. \A l \in 1..j : l \in 1..Len(out) \/ (l = j /\ out'[l] = f)
        BY <1>5, <3>1
      <4>2. {l \in 1..j : out'[l].what = "delta"} = {l \in 1..Len(out) : out[l].what = "delta"}
        BY <1>4, <1>5, <3>1, <4>1
      <4>. QED
        BY <1>5, <4>2 DEF ShownBefore
    <3>3. result.outcome = "ok"
      BY DEF StreamInv, StageInv
    <3>4. \A l, m \in 1..j : /\ l < m /\ out'[l].event # 0 /\ out'[m].event # 0
                             => out'[l].event < out'[m].event
      BY <1>8, <1>5, <3>1 DEF EventFramesInv
    <3>. QED
      BY <3>2, <3>3, <3>4, AllIsShown
  <2>. QED
    BY <2>1, <2>2
<1>11. LateFramesAreOfOneEvent'
  <2> SUFFICES ASSUME NEW j \in 1..Len(out'), NEW l \in 1..Len(out'), j < l,
                      out'[j].what \in Endings, out'[l].event # 0
               PROVE  out'[l].event = Len(log)
    BY <1>1 DEF LateFramesAreOfOneEvent
  <2>1. l \in 1..Len(out) /\ j \in 1..Len(out)
    BY <1>4, <1>5
  <2>. QED
    BY <1>5, <2>1 DEF StreamInv, LateFramesAreOfOneEvent
<1>. QED
  BY <1>7, <1>8, <1>9, <1>10, <1>11 DEF StreamInv

\* The other steps of the handler write nothing.
LEMMA SilentStep ==
  ASSUME IInv, StreamInv, WriteFails \/ CallSend \/ SendReturns
  PROVE  StreamInv'
<1>1. UNCHANGED <<options, out, log, result, pc, callback, refused, contentBuf, finalText>>
  BY DEF WriteFails, CallSend, SendReturns, vars, callerVars, contentVars, errorVars
<1>2. \A k, m : Places(k, m)' = Places(k, m)
  BY <1>1 DEF Places
<1>3. EventFramesInv' /\ LateFramesAreOfOneEvent'
  BY <1>1, <1>2 DEF StreamInv, EventFramesInv, Frame, LateFramesAreOfOneEvent
<1>4. todo # <<>> => /\ Tail(todo) \in Seq(OwnFrames)
                     /\ \A j \in 1..Len(Tail(todo)) : j + 1 \in 1..Len(todo) /\ Tail(todo)[j] = todo[j + 1]
  BY DEF StreamInv, StreamTypes
<1>5. <<>> \in Seq(OwnFrames) /\ Len(<<>>) = 0
  OBVIOUS
<1>6. CASE WriteFails
  <2>1. /\ stage' = stage /\ (errorType' = "none" => errorType = "none")
        /\ todo # <<>> /\ (todo' = Tail(todo) \/ todo' = <<>>)
    BY <1>6 DEF WriteFails
  <2>2. todo' \in Seq(OwnFrames) /\ stage # "turn"
    BY <1>4, <1>5, <2>1 DEF StreamInv, StageInv
  <2>3. stage = "head" => \A j \in 1..Len(todo') : todo'[j] \notin Endings
    BY <1>4, <1>5, <2>1 DEF StreamInv, StageInv
  <2>4. StreamTypes' /\ StageInv'
    BY <1>1, <2>1, <2>2, <2>3 DEF StreamInv, StreamTypes, StageInv
  <2>5. StreamIsWhole'
    BY <1>1, <2>1, WholeStays DEF StreamInv
  <2>. QED
    BY <1>3, <2>4, <2>5 DEF StreamInv
<1>7. CASE CallSend
  <2>1. StreamTypes' /\ StageInv' /\ StreamIsWhole'
    BY <1>1, <1>7 DEF CallSend, StreamInv, StreamTypes, StageInv, StreamIsWhole
  <2>. QED
    BY <1>3, <2>1 DEF StreamInv
<1>8. CASE SendReturns
  <2>1. /\ stage = "turn" /\ stage' = "tail" /\ pc = "returned"
        /\ todo' \in {GoodEnd(options), BadEnd(options)}
        /\ errorType' = "none" => result.outcome = "ok"
    BY <1>8 DEF SendReturns
  <2>2. GoodEnd(options) \in Seq(OwnFrames)
    <3>1. Endings \subseteq OwnFrames
      BY DEF OwnFrames
    <3>3. GoodEnd(options) \in {<<"finish", "done">>, <<"finish", "usage", "done">>,
                                <<"content_block_stop", "message_delta", "message_stop">>}
      BY DEF GoodEnd
    <3>4. \A a, b, c \in OwnFrames : <<a, b>> \in Seq(OwnFrames) /\ <<a, b, c>> \in Seq(OwnFrames)
      OBVIOUS
    <3>. QED
      BY <3>1, <3>3, <3>4 DEF Endings
  <2>3. BadEnd(options) \in Seq(OwnFrames)
    <3>1. \A a, b, c \in OwnFrames : <<a, b>> \in Seq(OwnFrames) /\ <<a, b, c>> \in Seq(OwnFrames)
      OBVIOUS
    <3>. QED
      BY <3>1 DEF BadEnd, OwnFrames, Endings
  <2>4. \A j \in 1..Len(out) : out[j].what \notin Endings
    BY <2>1 DEF StreamInv, StageInv
  <2>5. StreamIsWhole'
    BY <1>1, <2>4 DEF StreamIsWhole, EndsAt
  <2>6. StreamTypes' /\ StageInv'
    BY <1>1, <2>1, <2>2, <2>3 DEF StreamInv, StreamTypes, StageInv
  <2>. QED
    BY <1>3, <2>5, <2>6 DEF StreamInv
<1>. QED
  BY <1>6, <1>7, <1>8

LEMMA NextStreamInv == IInv /\ StreamInv /\ [StreamNext]_allVars => StreamInv'
<1> SUFFICES ASSUME IInv, StreamInv, [StreamNext]_allVars PROVE StreamInv'
  OBVIOUS
<1>1. [Next]_vars
  BY StreamStep
<1>2. CASE HandlerStep
  BY <1>2, WrittenStep, SilentStep DEF HandlerStep
<1>3. CASE HandleEvent
  BY <1>3, HandleEventStep
<1>4. CASE InSend(CallerStep) \/ InSend(RpcReturns) \/ InSend(ContextEnds)
  <2>1. UNCHANGED streamVars /\ UNCHANGED <<log, refused, callback>>
    BY <1>4 DEF InSend, CallerStep, Park, Choose, Collect, Unsubscribe, RpcReturns,
                ContextEnds, contentVars, errorVars
  <2>. QED
    BY <1>1, <2>1, QuietStreamStep
<1>5. CASE InSend(CancelByHandler) \/ InSend(CancelBySession) \/ InSend(Report) \/ InSend(CheckCause)
  <2>1. UNCHANGED streamVars /\ UNCHANGED <<log, refused>>
        /\ callback # "dispatch" /\ callback' # "dispatch"
    BY <1>5 DEF InSend, CancelByHandler, CancelBySession, Report, CheckCause, AfterDispatch,
                contentVars, errorVars
  <2>. QED
    BY <1>1, <2>1, QuietStreamStep
<1>6. ASSUME NEW k \in Kinds, InSend(Deliver(k))
      PROVE  StreamInv'
  <2>1. UNCHANGED streamVars /\ Deliver(k) /\ k # "idle"
    BY <1>6 DEF InSend, Deliver
  <2>2. (k # "idle" /\ Deliver(k)) \/ (k = "idle" /\ DeliverIdle)
    BY <2>1
  <2>. QED
    BY <2>1, <2>2, DeliverStreamStep
<1>7. CASE InSend(DeliverIdle)
  <2>1. UNCHANGED streamVars /\ DeliverIdle
    BY <1>7 DEF InSend
  <2>2. PICK k \in Kinds : k = "idle"
    BY DEF Kinds
  <2>3. (k # "idle" /\ Deliver(k)) \/ (k = "idle" /\ DeliverIdle)
    BY <2>1, <2>2
  <2>. QED
    BY <2>1, <2>3, DeliverStreamStep
<1>8. CASE UNCHANGED allVars
  <2>1. UNCHANGED streamVars /\ UNCHANGED <<log, refused, callback>>
    BY <1>8 DEF allVars, vars, contentVars, errorVars
  <2>. QED
    BY <1>1, <2>1, QuietStreamStep
<1>. QED
  BY <1>2, <1>3, <1>4, <1>5, <1>6, <1>7, <1>8 DEF StreamNext, CallbackGoesOn

LEMMA StreamInvariance == StreamSpec => []StreamInv
  BY InitStreamInv, NextStreamInv, StreamedIInv, PTL DEF StreamSpec

\* A stream that ends well has shown each delta up to the idle event, in order and
\* once, and its result has them too; they part over later deltas only, which Send
\* still hands on while it leaves (server.go:561-608; copilot.go:647, 703-722).
THEOREM StreamsAreWhole == StreamSpec => []StreamIsWhole
<1>1. StreamInv => StreamIsWhole
  BY DEF StreamInv
<1>. QED
  BY <1>1, StreamInvariance, PTL

\* Whatever follows the end of a stream belongs to the one event that was being
\* handled when Send returned (copilot.go:647).
THEOREM LateFramesAreFew == StreamSpec => []LateFramesAreOfOneEvent
<1>1. StreamInv => LateFramesAreOfOneEvent
  BY DEF StreamInv
<1>. QED
  BY <1>1, StreamInvariance, PTL
=============================================================================
