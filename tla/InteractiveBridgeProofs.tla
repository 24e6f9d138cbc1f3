---------------------- MODULE InteractiveBridgeProofs ----------------------
(***************************************************************************)
(* Proofs about InteractiveBridge, for any number of requests, clients and *)
(* Sends, and whatever the CLI does: the map, the queues and the index of  *)
(* tool calls agree, one request of a kind is served at a time, nothing is *)
(* left to the next Send, and an accepted answer stays.                    *)
(***************************************************************************)
EXTENDS InteractiveBridge, FiniteSetTheorems, TLAPS

\* The CLI issues requests and the gateway hears of them while a Send runs.
AnnouncedInv ==
  /\ phase # "none" => turn > 0
  /\ IsFiniteSet(announced) /\ pending \subseteq announced
  /\ \A x \in announced : issued[x] # 0
  /\ \A x \in Ids : channel[x] # None => x \in announced
  /\ \A c \in Clients : posting[c] # None => posting[c] \in announced

CallsInv == calls \subseteq OfKind("tool")

\* Of two requests for one call, one is the tool request, issued when the
\* permission was settled.
After(x, y) == Kind[x] = "tool" /\ y \in announced \ pending
PairInv ==
  \A x, y \in Ids : x # y /\ Call[x] # None /\ Call[x] = Call[y] /\ issued[x] # 0 /\ issued[y] # 0
    => After(x, y) \/ After(y, x)

\* The inductive invariant.
IInv == /\ TypeOK /\ AnnouncedInv /\ CallsInv /\ PairInv
        /\ QueuesLeadToPending /\ OneServedPerKind /\ PendingIsOfThisSend

-----------------------------------------------------------------------------
\* The parts of the invariant that speak of outstanding requests alone.
Outstanding == CallsInv /\ PairInv /\ QueuesLeadToPending /\ OneServedPerKind

LEMMA OutstandingUnchanged ==
  ASSUME Outstanding, UNCHANGED <<requestVars, bridgeVars>>
  PROVE  Outstanding'
BY DEF Outstanding, CallsInv, PairInv, After, QueuesLeadToPending, OneServedPerKind, Queued,
       requestVars, bridgeVars, OfKind

LEMMA InitIInv == Init => IInv
<1> SUFFICES ASSUME Init PROVE IInv
  OBVIOUS
<1>0. MaxTurns \in Nat
  BY ConstantsAssumption DEF ConstantsAssumption
<1>1. TypeOK
  <2>1. turn \in 0..MaxTurns /\ issued \in [Ids -> 0..MaxTurns] /\ place \in [Ids -> Nat]
    BY <1>0 DEF Init
  <2>2. /\ channel \in [Ids -> Clients \cup {Error, None}]
        /\ handler \in [Ids -> {"none", "polling", "looking", "waiting", "returned"}]
        /\ ctx \in [Ids -> Turns \cup {Background}] /\ got \in [Ids -> Ids \cup {None}]
        /\ posting \in [Clients -> Ids \cup {None}]
    BY DEF Init
  <2> QED
    BY <2>1, <2>2 DEF Init, TypeOK
<1>2. AnnouncedInv
  BY FS_EmptySet DEF Init, AnnouncedInv
<1>3. CallsInv /\ PairInv /\ QueuesLeadToPending /\ OneServedPerKind /\ PendingIsOfThisSend
  BY DEF Init, CallsInv, PairInv, QueuesLeadToPending, OneServedPerKind, PendingIsOfThisSend,
         Queued, OfKind
<1> QED
  BY <1>1, <1>2, <1>3 DEF IInv

LEMMA SendIInv ==
  ASSUME IInv, SendStarts \/ ContextEnds \/ SendSucceeds \/ SendFails \/ SendCancelled
                 \/ ClearActiveContext \/ SendReturns
  PROVE  IInv'
<1> USE DEF SendStarts, ContextEnds, SendSucceeds, SendFails, SendCancelled,
            ClearActiveContext, SendReturns, Unsubscribe
<1>0. MaxTurns \in Nat
  BY ConstantsAssumption DEF ConstantsAssumption
<1>1. TypeOK'
  <2>1. turn' \in 0..MaxTurns /\ active' \in Turns \cup {Background}
    BY <1>0 DEF IInv, TypeOK, Background, Turns
  <2>2. done' \subseteq Turns
    <3>1. done' = done \/ (done' = done \cup {turn} /\ phase # "none")
      OBVIOUS
    <3>2. phase # "none" => turn \in Turns
      BY <1>0 DEF IInv, TypeOK, AnnouncedInv, Turns
    <3> QED
      BY <3>1, <3>2 DEF IInv, TypeOK
  <2>3. /\ phase' \in {"none", "subscribed", "unsubscribed", "cancelled", "cleared", "discarded"}
        /\ failed' \in BOOLEAN
    BY DEF IInv, TypeOK
  <2>4. UNCHANGED <<requestVars, bridgeVars, channel, handlerVars, posting>>
    OBVIOUS
  <2> QED
    BY <2>1, <2>2, <2>3, <2>4 DEF IInv, TypeOK, requestVars, bridgeVars, handlerVars
<1>2. AnnouncedInv'
  BY ConstantsAssumption DEF ConstantsAssumption, IInv, TypeOK, AnnouncedInv, requestVars, bridgeVars
<1>3. Outstanding'
  BY OutstandingUnchanged DEF IInv, Outstanding
<1>4. PendingIsOfThisSend'
  BY DEF IInv, PendingIsOfThisSend, Queued, requestVars, bridgeVars
<1> QED
  BY <1>1, <1>2, <1>3, <1>4 DEF IInv, Outstanding

LEMMA CancelAllIInv ==
  ASSUME IInv, CancelAll
  PROVE  IInv'
<1>1. TypeOK'
  BY DEF CancelAll, IInv, TypeOK, requestVars, handlerVars
<1>2. AnnouncedInv'
  BY DEF CancelAll, IInv, TypeOK, AnnouncedInv, requestVars
<1>3. CallsInv' /\ QueuesLeadToPending' /\ OneServedPerKind' /\ PendingIsOfThisSend'
  BY DEF CancelAll, CallsInv, QueuesLeadToPending, OneServedPerKind, PendingIsOfThisSend, Queued
<1>4. PairInv'
  BY DEF CancelAll, IInv, PairInv, After, requestVars
<1> QED
  BY <1>1, <1>2, <1>3, <1>4 DEF IInv

LEMMA IssueIInv ==
  ASSUME IInv, NEW x \in Ids, Issue(x)
  PROVE  IInv'
<1>1. TypeOK'
  BY DEF Issue, IInv, TypeOK, sendVars, bridgeVars, handlerVars
<1>2. AnnouncedInv'
  BY DEF Issue, IInv, TypeOK, AnnouncedInv, sendVars, bridgeVars
<1>3. CallsInv' /\ QueuesLeadToPending' /\ OneServedPerKind'
  BY DEF Issue, IInv, CallsInv, QueuesLeadToPending, OneServedPerKind, Queued, OfKind, bridgeVars
<1>4. PendingIsOfThisSend'
  <2> SUFFICES ASSUME NEW y \in pending \cup Queued \cup calls PROVE issued'[y] = turn
    BY DEF Issue, IInv, PendingIsOfThisSend, Queued, bridgeVars, sendVars
  <2>1. y \in Ids /\ issued[y] = turn
    BY DEF IInv, TypeOK, PendingIsOfThisSend, Queued
  <2> QED
    BY <2>1 DEF Issue, IInv, TypeOK
<1>5. PairInv'
  <2> SUFFICES ASSUME NEW y \in Ids, NEW z \in Ids, y # z, Call[y] # None, Call[y] = Call[z],
                      issued'[y] # 0, issued'[z] # 0
               PROVE  After(y, z) \/ After(z, y)
    BY DEF PairInv, After, Issue, bridgeVars
  <2>1. CASE x \notin {y, z}
    BY <2>1 DEF Issue, IInv, TypeOK, PairInv
  <2>2. CASE x = y
    <3>1. issued[z] # 0
      BY <2>2 DEF Issue, IInv, TypeOK
    <3> QED
      BY <2>2, <3>1 DEF Issue, After
  <2>3. CASE x = z
    <3>1. issued[y] # 0
      BY <2>3 DEF Issue, IInv, TypeOK
    <3> QED
      BY <2>3, <3>1 DEF Issue, After
  <2> QED
    BY <2>1, <2>2, <2>3
<1> QED
  BY <1>1, <1>2, <1>3, <1>4, <1>5 DEF IInv

LEMMA RegisterIInv ==
  ASSUME IInv, NEW x \in Ids, Register(x)
  PROVE  IInv'
<1> DEFINE concurrent == Kind[x] # "tool" /\ \E y \in pending : Kind[y] = Kind[x]
<1>1. /\ phase = "subscribed" /\ issued[x] = turn /\ x \notin announced
      /\ announced' = announced \cup {x} /\ pending' = pending \cup {x}
      /\ UNCHANGED <<sendVars, issued, handlerVars, posting>>
  BY DEF Register
<1>2. /\ place' = IF Kind[x] = "tool" THEN place ELSE [place EXCEPT ![x] = 1 + Cardinality(announced)]
      /\ calls' = IF Kind[x] = "tool" THEN calls \cup {x} ELSE calls
  BY DEF Register, Enqueue
<1>3. /\ rejected' = IF concurrent THEN rejected \cup {x} ELSE rejected
      /\ channel' = IF concurrent THEN [channel EXCEPT ![x] = Error] ELSE channel
  BY DEF Register
<1> HIDE DEF concurrent
<1>4. Cardinality(announced) \in Nat
  BY FS_CardinalityType DEF IInv, AnnouncedInv
<1>5. turn # 0
  BY <1>1 DEF IInv, TypeOK, AnnouncedInv
<1>6. TypeOK'
  BY <1>1, <1>2, <1>3, <1>4 DEF IInv, TypeOK, sendVars, handlerVars
<1>7. AnnouncedInv'
  <2>1. IsFiniteSet(announced')
    BY <1>1, FS_AddElement DEF IInv, AnnouncedInv
  <2> QED
    BY <1>1, <1>3, <1>5, <2>1 DEF IInv, TypeOK, AnnouncedInv, sendVars
<1>8. CallsInv'
  BY <1>2 DEF IInv, CallsInv, OfKind
<1>9. PairInv'
  BY <1>1 DEF IInv, PairInv, After
<1>10. QueuesLeadToPending'
  BY <1>1, <1>2 DEF IInv, TypeOK, QueuesLeadToPending, Queued, OfKind
<1>11. OneServedPerKind'
  BY <1>1, <1>3 DEF IInv, OneServedPerKind, concurrent
<1>12. PendingIsOfThisSend'
  BY <1>1, <1>2, <1>10 DEF IInv, PendingIsOfThisSend, QueuesLeadToPending, sendVars
<1> QED
  BY <1>6, <1>7, <1>8, <1>9, <1>10, <1>11, <1>12 DEF IInv

LEMMA ForgetRequestIInv ==
  ASSUME IInv, NEW x \in Ids, ForgetRequest(x)
  PROVE  IInv'
<1>1. /\ phase = "subscribed" /\ x \in pending /\ pending' = pending \ {x}
      /\ calls' = IF Call[x] = None THEN calls ELSE {y \in calls : Call[y] # Call[x]}
      /\ place' = [place EXCEPT ![x] = 0]
      /\ UNCHANGED <<sendVars, requestVars, channel, handlerVars, posting>>
  BY DEF ForgetRequest, Dequeue
<1>2. TypeOK'
  BY <1>1 DEF IInv, TypeOK, sendVars, requestVars, handlerVars
<1>3. AnnouncedInv'
  BY <1>1 DEF IInv, AnnouncedInv, sendVars, requestVars
<1>4. CallsInv' /\ PairInv' /\ OneServedPerKind'
  BY <1>1 DEF IInv, CallsInv, PairInv, After, OneServedPerKind, requestVars
<1>5. \A y \in pending \ {x} : Call[y] # Call[x] \/ Call[x] = None
  <2> SUFFICES ASSUME NEW y \in pending, y # x, Call[y] = Call[x], Call[x] # None PROVE FALSE
    OBVIOUS
  <2>1. issued[x] # 0 /\ issued[y] # 0 /\ y \in Ids
    BY <1>1 DEF IInv, TypeOK, AnnouncedInv
  <2> QED
    BY <1>1, <2>1 DEF IInv, PairInv, After
<1>6. x \in calls => Call[x] # None
  BY ConstantsAssumption DEF ConstantsAssumption, IInv, CallsInv, OfKind
<1>7. QueuesLeadToPending'
  <2>1. Queued' = Queued \ {x}
    BY <1>1 DEF IInv, TypeOK, Queued
  <2>2. calls' \subseteq calls \ {x}
    BY <1>1, <1>6
  <2>3. calls \ {x} \subseteq calls'
    BY <1>1, <1>5 DEF IInv, QueuesLeadToPending
  <2> QED
    BY <1>1, <2>1, <2>2, <2>3 DEF IInv, QueuesLeadToPending, OfKind
<1>8. PendingIsOfThisSend'
  BY <1>1, <1>7 DEF IInv, PendingIsOfThisSend, QueuesLeadToPending, sendVars, requestVars
<1> QED
  BY <1>2, <1>3, <1>4, <1>7, <1>8 DEF IInv

LEMMA LookIInv ==
  ASSUME IInv, NEW h \in Ids, Look(h)
  PROVE  IInv'
<1>1. PICK x \in Found(h) :
        /\ place' = [place EXCEPT ![x] = 0]
        /\ handler' = [handler EXCEPT ![h] = IF x \in pending THEN "waiting" ELSE "polling"]
        /\ got' = [got EXCEPT ![h] = IF x \in pending THEN x ELSE None]
  BY DEF Look, Dequeue
<1>2. UNCHANGED <<sendVars, requestVars, pending, calls, channel, ctx, posting>>
  BY DEF Look
<1>3. x \in Ids
  BY <1>1 DEF Found, Queued, IInv, TypeOK
<1>4. TypeOK'
  BY <1>1, <1>2, <1>3 DEF IInv, TypeOK, sendVars, requestVars
<1>5. AnnouncedInv'
  BY <1>2 DEF IInv, AnnouncedInv, sendVars, requestVars
<1>6. CallsInv' /\ PairInv' /\ OneServedPerKind'
  BY <1>2 DEF IInv, CallsInv, PairInv, After, OneServedPerKind, requestVars
<1>7. Queued' \subseteq Queued
  BY <1>1, <1>3 DEF IInv, TypeOK, Queued
<1>8. QueuesLeadToPending' /\ PendingIsOfThisSend'
  BY <1>2, <1>7 DEF IInv, QueuesLeadToPending, PendingIsOfThisSend, OfKind, sendVars, requestVars
<1> QED
  BY <1>4, <1>5, <1>6, <1>8 DEF IInv

\* The other steps of handlers and clients leave the bridge as it is.
LEMMA QuietIInv ==
  ASSUME IInv, UNCHANGED <<sendVars, requestVars, bridgeVars>>, TypeOK',
         \A x \in Ids : channel'[x] # None => x \in announced,
         \A c \in Clients : posting'[c] # None => posting'[c] \in announced
  PROVE  IInv'
<1>1. AnnouncedInv'
  BY DEF IInv, AnnouncedInv, sendVars, requestVars, bridgeVars
<1>2. Outstanding'
  BY OutstandingUnchanged DEF IInv, Outstanding
<1>3. PendingIsOfThisSend'
  BY DEF IInv, PendingIsOfThisSend, Queued, sendVars, requestVars, bridgeVars
<1> QED
  BY <1>1, <1>2, <1>3 DEF IInv, Outstanding

LEMMA HandlerIInv ==
  ASSUME IInv, NEW h \in Ids,
         Invoke(h) \/ CheckContext(h) \/ PollCancelled(h) \/ LookAgain(h) \/ PollTimesOut(h) \/ Receive(h)
  PROVE  IInv'
<1> USE DEF Invoke, CheckContext, PollCancelled, LookAgain, PollTimesOut, Receive, Returns
<1>1. UNCHANGED <<sendVars, requestVars, bridgeVars, posting>>
  OBVIOUS
<1>2. TypeOK'
  <2>1. handler' \in [Ids -> {"none", "polling", "looking", "waiting", "returned"}]
    BY DEF IInv, TypeOK
  <2>2. ctx' \in [Ids -> Turns \cup {Background}] /\ got' \in [Ids -> Ids \cup {None}]
    BY DEF IInv, TypeOK, Turns, Background
  <2>3. channel' \in [Ids -> Clients \cup {Error, None}]
    BY DEF IInv, TypeOK
  <2> QED
    BY <1>1, <2>1, <2>2, <2>3 DEF IInv, TypeOK, sendVars, requestVars, bridgeVars, Turns
<1>3. \A x \in Ids : channel'[x] # None => channel[x] # None
  BY DEF IInv, TypeOK
<1> QED
  BY <1>1, <1>2, <1>3, QuietIInv DEF IInv, AnnouncedInv

LEMMA ResolveIInv ==
  ASSUME IInv, NEW c \in Clients, (\E x \in Ids : ResolveFinds(c, x)) \/ ResolveSends(c)
  PROVE  IInv'
<1> USE DEF ResolveFinds, ResolveSends
<1>1. UNCHANGED <<sendVars, requestVars, bridgeVars, handlerVars>>
  OBVIOUS
<1>2. TypeOK'
  BY DEF IInv, TypeOK, sendVars, requestVars, bridgeVars, handlerVars
<1>3. \A x \in Ids : channel'[x] # None => x \in announced
  BY DEF IInv, TypeOK, AnnouncedInv
<1>4. \A d \in Clients : posting'[d] # None => posting'[d] \in announced
  BY DEF IInv, TypeOK, AnnouncedInv
<1> QED
  BY <1>1, <1>2, <1>3, <1>4, QuietIInv

LEMMA NextIInv == IInv /\ [Next]_vars => IInv'
<1> SUFFICES ASSUME IInv, [Next]_vars PROVE IInv'
  OBVIOUS
<1>1. CASE SendStarts \/ ContextEnds \/ SendSucceeds \/ SendFails \/ SendCancelled
             \/ ClearActiveContext \/ SendReturns
  BY <1>1, SendIInv
<1>2. CASE CancelAll
  BY <1>2, CancelAllIInv
<1>3. CASE \E x \in Ids : Issue(x) \/ Register(x) \/ ForgetRequest(x)
  BY <1>3, IssueIInv, RegisterIInv, ForgetRequestIInv
<1>4. CASE \E h \in Ids : Look(h)
  BY <1>4, LookIInv
<1>5. CASE \E h \in Ids : Invoke(h) \/ CheckContext(h) \/ PollCancelled(h) \/ LookAgain(h)
                            \/ PollTimesOut(h) \/ Receive(h)
  BY <1>5, HandlerIInv
<1>6. CASE \E c \in Clients : (\E x \in Ids : ResolveFinds(c, x)) \/ ResolveSends(c)
  BY <1>6, ResolveIInv
<1>7. CASE UNCHANGED vars
  <2>1. UNCHANGED <<sendVars, requestVars, bridgeVars, channel, posting>>
    BY <1>7 DEF vars
  <2>2. TypeOK'
    BY <1>7 DEF vars, IInv, TypeOK, sendVars, requestVars, bridgeVars, handlerVars
  <2> QED
    BY <2>1, <2>2, QuietIInv DEF IInv, AnnouncedInv
<1> QED
  BY <1>1, <1>2, <1>3, <1>4, <1>5, <1>6, <1>7 DEF Next, SendEnds, HandlerStep

-----------------------------------------------------------------------------
\* The map, the queues and the index of calls, and what the CLI has issued,
\* agree as IInv says, whatever the CLI does.
THEOREM Invariance == Spec => []IInv
<1>1. Init => IInv
  BY InitIInv
<1>2. IInv /\ [Next]_vars => IInv'
  BY NextIInv
<1> QED
  BY <1>1, <1>2, PTL DEF Spec

\* The state of the bridge keeps its types.
THEOREM TypeCorrect == Spec => []TypeOK
<1>1. IInv => TypeOK
  BY DEF IInv
<1> QED
  BY <1>1, Invariance, PTL

\* Every queue entry and tool call leads to a pending request, and every
\* pending tool request has its call (copilot.go:1067-1208).
THEOREM QueuesLead == Spec => []QueuesLeadToPending
<1>1. IInv => QueuesLeadToPending
  BY DEF IInv
<1> QED
  BY <1>1, Invariance, PTL

\* At most one user-input and one permission request is outstanding and not
\* refused (copilot.go:1104-1151).
THEOREM OneIsServed == Spec => []OneServedPerKind
<1>1. IInv => OneServedPerKind
  BY DEF IInv
<1> QED
  BY <1>1, Invariance, PTL

\* No Send starts with what another has left (copilot.go:357-375, 1210-1226).
THEOREM NothingIsLeftOver == Spec => []PendingIsOfThisSend
<1>1. IInv => PendingIsOfThisSend
  BY DEF IInv
<1> QED
  BY <1>1, Invariance, PTL

\* What a client was told is accepted stays until a handler takes it
\* (copilot.go:1164-1173, 1210-1226).
THEOREM AnswersStay == Spec => AcceptedAnswersStay
<1> DEFINE Stays(x) ==
      channel[x] \in Clients =>
        \/ channel'[x] = channel[x]
        \/ \E h \in Ids : got[h] = x /\ handler[h] = "waiting" /\ handler'[h] = "returned"
<1>1. ASSUME IInv, [Next]_vars, NEW x \in Ids PROVE Stays(x)
  <2>0. channel[x] \in Clients => channel[x] \notin {None, Error}
    BY ConstantsAssumption DEF ConstantsAssumption
  <2>1. CASE UNCHANGED channel
    BY <2>1
  <2>2. CASE CancelAll
    BY <2>0, <2>2 DEF CancelAll, IInv, TypeOK
  <2>3. CASE \E y \in Ids : Register(y)
    <3>1. PICK y \in Ids : Register(y)
      BY <2>3
    <3>2. y \notin announced /\ (channel' = channel \/ channel' = [channel EXCEPT ![y] = Error])
      BY <3>1 DEF Register
    <3>3. channel[y] = None
      BY <1>1, <3>2 DEF IInv, AnnouncedInv
    <3> QED
      BY <1>1, <2>0, <3>2, <3>3 DEF IInv, TypeOK
  <2>4. CASE \E h \in Ids : Receive(h)
    <3>1. PICK h \in Ids : /\ handler[h] = "waiting" /\ handler' = [handler EXCEPT ![h] = "returned"]
                           /\ channel' = [channel EXCEPT ![got[h]] = None]
      BY <2>4 DEF Receive, Returns
    <3>2. handler'[h] = "returned" /\ (x # got[h] => channel'[x] = channel[x])
      BY <1>1, <3>1 DEF IInv, TypeOK
    <3> QED
      BY <3>1, <3>2
  <2>5. CASE \E c \in Clients : ResolveSends(c)
    BY <2>0, <2>5 DEF ResolveSends, IInv, TypeOK
  <2> QED
    BY <1>1, <2>1, <2>2, <2>3, <2>4, <2>5
    DEF Next, SendEnds, HandlerStep, SendStarts, ContextEnds, SendSucceeds, SendFails, SendCancelled,
        Unsubscribe, ClearActiveContext, SendReturns, Issue, ForgetRequest, Invoke, CheckContext,
        PollCancelled, Look, LookAgain, PollTimesOut, ResolveFinds, vars
<1>2. IInv /\ [Next]_vars => [\A x \in Ids : Stays(x)]_vars
  BY <1>1
<1> QED
  BY <1>2, Invariance, PTL DEF Spec, AcceptedAnswersStay

-----------------------------------------------------------------------------
(* The handlers of a CLI that asks one thing of a kind at a time.          *)

\* Only a request that was issued has a handler.
Invoked == \A h \in Ids : handler[h] # "none" => issued[h] # 0

LEMMA InvokedStep ==
  ASSUME IInv, Invoked, [Next]_vars
  PROVE  Invoked'
<1>1. CASE UNCHANGED <<issued, handler>>
  BY <1>1 DEF Invoked
<1>2. CASE \E x \in Ids : Issue(x)
  <2>1. PICK x \in Ids : issued' = [issued EXCEPT ![x] = turn] /\ issued[x] = 0 /\ UNCHANGED handler
    BY <1>2 DEF Issue, handlerVars
  <2> QED
    BY <2>1 DEF IInv, TypeOK, Invoked
<1>3. CASE \E x \in Ids : Invoke(x)
  BY <1>3 DEF Invoke, requestVars, IInv, TypeOK, Invoked
<1>4. CASE \E h \in Ids : HandlerStep(h)
  <2>1. PICK h \in Ids : HandlerStep(h)
    BY <1>4
  <2>2. handler[h] # "none" /\ UNCHANGED issued
    BY <2>1 DEF HandlerStep, CheckContext, PollCancelled, Look, LookAgain, PollTimesOut, Receive,
                requestVars
  <2>3. \A x \in Ids : x # h => handler'[x] = handler[x]
    BY <2>1 DEF HandlerStep, CheckContext, PollCancelled, Look, LookAgain, PollTimesOut, Receive,
                Returns, IInv, TypeOK
  <2> QED
    BY <2>2, <2>3 DEF Invoked
<1> QED
  BY <1>1, <1>2, <1>3, <1>4
  DEF Next, SendEnds, SendStarts, ContextEnds, SendSucceeds, SendFails, SendCancelled, Unsubscribe,
      CancelAll, ClearActiveContext, SendReturns, Register, ForgetRequest, ResolveFinds, ResolveSends,
      requestVars, handlerVars, vars

\* What a handler finds is the request it was invoked for: a tool handler by
\* its call, any other because no second request of its kind is outstanding.
LEMMA FoundIsOwn ==
  ASSUME IInv, Invoked, Orderly, NEW h \in Ids, handler[h] = "looking",
         NEW x \in Found(h), x \in pending
  PROVE  x = h
<1>1. x \in Ids /\ issued[x] # 0 /\ issued[h] # 0
  BY DEF IInv, TypeOK, AnnouncedInv, Invoked
<1>2. CASE Kind[h] = "tool"
  <2>1. Kind[x] = "tool" /\ Call[x] = Call[h]
    BY <1>2 DEF Found, IInv, CallsInv, OfKind
  <2> QED
    BY <1>1, <1>2, <2>1, ConstantsAssumption DEF ConstantsAssumption
<1>3. CASE Kind[h] # "tool"
  <2>1. Kind[x] = Kind[h]
    BY <1>3 DEF Found
  <2>2. ~Settled(x) /\ ~Settled(h)
    BY DEF Settled
  <2> QED
    BY <1>1, <2>1, <2>2 DEF Orderly
<1> QED
  BY <1>2, <1>3

OwnRequest == \A h \in Ids : got[h] \in {None, h}

LEMMA OwnRequestStep ==
  ASSUME IInv, Invoked, Orderly, OwnRequest, [Next]_vars
  PROVE  OwnRequest'
<1>1. CASE UNCHANGED got
  BY <1>1 DEF OwnRequest
<1>2. CASE \E h \in Ids : PollCancelled(h) \/ PollTimesOut(h) \/ Receive(h)
  BY <1>2 DEF PollCancelled, PollTimesOut, Receive, Returns, IInv, TypeOK, OwnRequest
<1>3. CASE \E h \in Ids : Look(h)
  <2>1. PICK h \in Ids : Look(h)
    BY <1>3
  <2>2. PICK x \in Found(h) : got' = [got EXCEPT ![h] = IF x \in pending THEN x ELSE None]
    BY <2>1 DEF Look
  <2>3. x \in pending => x = h
    BY <2>1, FoundIsOwn DEF Look
  <2> QED
    BY <2>2, <2>3 DEF IInv, TypeOK, OwnRequest
<1> QED
  BY <1>1, <1>2, <1>3
  DEF Next, SendEnds, SendStarts, ContextEnds, SendSucceeds, SendFails, SendCancelled, Unsubscribe,
      CancelAll, ClearActiveContext, SendReturns, Issue, Register, ForgetRequest, Invoke, HandlerStep,
      CheckContext, LookAgain, ResolveFinds, ResolveSends, handlerVars, vars

\* To a CLI that asks one thing of a kind at a time no handler returns the
\* answer to another request, whatever becomes of the Sends (README.md:74,
\* copilot.go:377-478, 1067-1208).
THEOREM OrderlyMatch == Spec => OrderlyAnswersMatch
<1>1. Init => Invoked /\ OwnRequest
  BY DEF Init, Invoked, OwnRequest
<1>2. IInv /\ Invoked /\ [Next]_vars => Invoked'
  BY InvokedStep
<1>3. IInv /\ Invoked /\ Orderly /\ OwnRequest /\ [Next]_vars => OwnRequest'
  BY OwnRequestStep
<1> QED
  BY <1>1, <1>2, <1>3, Invariance, PTL DEF Spec, OrderlyAnswersMatch, OwnRequest

\* The safety half of HandlersReturn: the request that a handler waits for, on a
\* channel that no context interrupts, is one a client can still answer and the end
\* of the Send still refuses, or its answer is there.
WaitersAreReached ==
  \A h \in Ids : handler[h] = "waiting" =>
    got[h] = h /\ (h \in pending \/ channel[h] # None)

LEMMA WaitersStep ==
  ASSUME IInv, Orderly, Orderly', OwnRequest, OwnRequest', WaitersAreReached, [Next]_vars
  PROVE  WaitersAreReached'
<1>0. Error # None /\ None \notin Clients
  BY ConstantsAssumption DEF ConstantsAssumption
<1>1. CASE UNCHANGED <<pending, channel, handler, got>>
  BY <1>1 DEF WaitersAreReached
<1>2. CASE CancelAll
  BY <1>0, <1>2 DEF CancelAll, IInv, TypeOK, handlerVars, WaitersAreReached
<1>3. CASE \E x \in Ids : Register(x)
  BY <1>0, <1>3 DEF Register, IInv, TypeOK, handlerVars, WaitersAreReached
<1>4. CASE \E x \in Ids : ForgetRequest(x)
  <2>1. PICK x \in Ids : /\ phase = "subscribed" /\ x \in pending /\ pending' = pending \ {x}
                         /\ UNCHANGED <<phase, turn, issued, announced, handler, got, channel>>
    BY <1>4 DEF ForgetRequest, sendVars, requestVars, handlerVars
  <2>2. issued[x] = turn /\ x \in announced
    BY <2>1 DEF IInv, AnnouncedInv, PendingIsOfThisSend
  <2>3. handler'[x] = "returned"
    BY <2>1, <2>2 DEF Orderly
  <2> QED
    BY <2>1, <2>3 DEF WaitersAreReached
<1>5. CASE \E h \in Ids : Invoke(h) \/ CheckContext(h) \/ LookAgain(h) \/ PollCancelled(h) \/ PollTimesOut(h)
  BY <1>5 DEF Invoke, CheckContext, LookAgain, PollCancelled, PollTimesOut, Returns, bridgeVars, IInv,
              TypeOK, WaitersAreReached
<1>6. CASE \E h \in Ids : Look(h)
  <2>1. PICK h \in Ids : Look(h)
    BY <1>6
  <2>2. PICK x \in Found(h) :
          /\ handler' = [handler EXCEPT ![h] = IF x \in pending THEN "waiting" ELSE "polling"]
          /\ got' = [got EXCEPT ![h] = IF x \in pending THEN x ELSE None]
    BY <2>1 DEF Look
  <2>3. UNCHANGED <<pending, channel>>
    BY <2>1 DEF Look
  <2>4. x \in Ids /\ (x \in pending => got'[h] = x /\ x # None)
    BY <2>1, <2>2, ConstantsAssumption DEF ConstantsAssumption, IInv, TypeOK, Found, Queued
  <2>5. x \in pending => x = h
    BY <2>4 DEF OwnRequest
  <2> QED
    BY <2>2, <2>3, <2>4, <2>5 DEF IInv, TypeOK, WaitersAreReached
<1>7. CASE \E h \in Ids : Receive(h)
  <2>1. PICK h \in Ids : /\ handler[h] = "waiting" /\ UNCHANGED pending
                         /\ handler' = [handler EXCEPT ![h] = "returned"]
                         /\ got' = [got EXCEPT ![h] = None]
                         /\ channel' = [channel EXCEPT ![got[h]] = None]
    BY <1>7 DEF Receive, Returns, bridgeVars
  <2>2. got[h] = h
    BY <2>1 DEF WaitersAreReached
  <2> QED
    BY <2>1, <2>2 DEF IInv, TypeOK, WaitersAreReached
<1>8. CASE \E c \in Clients : ResolveSends(c)
  BY <1>0, <1>8 DEF ResolveSends, IInv, TypeOK, handlerVars, bridgeVars, WaitersAreReached
<1> QED
  BY <1>1, <1>2, <1>3, <1>4, <1>5, <1>6, <1>7, <1>8
  DEF Next, SendEnds, SendStarts, ContextEnds, SendSucceeds, SendFails, SendCancelled, Unsubscribe,
      ClearActiveContext, SendReturns, Issue, HandlerStep, ResolveFinds, bridgeVars, handlerVars, vars

\* With a CLI that asks one thing of a kind at a time, and completes no request
\* whose handler waits, no handler waits for what nobody can answer any more
\* (copilot.go:747-760, 1013-1065, 1175-1226).
THEOREM NobodyWaitsInVain == Spec /\ []Orderly => []WaitersAreReached
<1>1. Init => Invoked /\ OwnRequest /\ WaitersAreReached
  BY DEF Init, Invoked, OwnRequest, WaitersAreReached
<1>2. IInv /\ Invoked /\ [Next]_vars => Invoked'
  BY InvokedStep
<1>3. IInv /\ Invoked /\ Orderly /\ OwnRequest /\ [Next]_vars => OwnRequest'
  BY OwnRequestStep
<1>4. IInv /\ Orderly /\ Orderly' /\ OwnRequest /\ OwnRequest' /\ WaitersAreReached /\ [Next]_vars
        => WaitersAreReached'
  BY WaitersStep
<1> QED
  BY <1>1, <1>2, <1>3, <1>4, Invariance, PTL DEF Spec

-----------------------------------------------------------------------------
(* The handlers of any CLI.                                                *)

\* What a handler can get in the place of its own request: another one of its
\* kind, which no other handler has, and never if it executes a tool.
MixUps ==
  /\ \A h \in Ids : got[h] # None => /\ got[h] \in announced /\ Kind[got[h]] = Kind[h]
                                     /\ IF Kind[h] = "tool" THEN got[h] = h ELSE place[got[h]] = 0
  /\ \A g, h \in Ids : got[g] # None /\ got[g] = got[h] => g = h

LEMMA FoundIsOfKind ==
  ASSUME IInv, NEW h \in Ids, NEW x \in Found(h)
  PROVE  /\ x \in announced /\ Kind[x] = Kind[h]
         /\ IF Kind[h] = "tool" THEN x = h ELSE place[x] # 0
<1>1. x \in Ids /\ x \in announced
  BY DEF Found, IInv, TypeOK, AnnouncedInv, QueuesLeadToPending
<1>2. CASE Kind[h] = "tool"
  <2>1. Kind[x] = "tool" /\ Call[x] = Call[h]
    BY <1>2 DEF Found, IInv, CallsInv, OfKind
  <2> QED
    BY <1>1, <1>2, <2>1, ConstantsAssumption DEF ConstantsAssumption
<1>3. CASE Kind[h] # "tool"
  BY <1>1, <1>3 DEF Found, Queued
<1> QED
  BY <1>2, <1>3

LEMMA MixUpsStep ==
  ASSUME IInv, MixUps, [Next]_vars
  PROVE  MixUps'
<1>1. CASE UNCHANGED <<announced, place, got>>
  BY <1>1 DEF MixUps
<1>2. CASE UNCHANGED <<announced, got>> /\ \A x \in Ids : place'[x] \in {place[x], 0}
  BY <1>2 DEF IInv, TypeOK, MixUps
<1>3. CASE \E x \in Ids : Register(x)
  <2>1. PICK x \in Ids : /\ x \notin announced /\ announced' = announced \cup {x} /\ UNCHANGED got
                         /\ \A y \in Ids : y # x => place'[y] = place[y]
    BY <1>3 DEF Register, Enqueue, handlerVars, IInv, TypeOK
  <2> QED
    BY <2>1 DEF IInv, TypeOK, MixUps
<1>4. CASE \E h \in Ids : PollCancelled(h) \/ PollTimesOut(h) \/ Receive(h)
  <2>1. PICK h \in Ids : got' = [got EXCEPT ![h] = None] /\ UNCHANGED <<announced, place>>
    BY <1>4 DEF PollCancelled, PollTimesOut, Receive, Returns, requestVars, bridgeVars
  <2> QED
    BY <2>1 DEF IInv, TypeOK, MixUps
<1>5. CASE \E h \in Ids : Look(h)
  <2>0. PICK h \in Ids : Look(h)
    BY <1>5
  <2>1. PICK x \in Found(h) :
          /\ place' = [place EXCEPT ![x] = 0] /\ UNCHANGED announced
          /\ got' = [got EXCEPT ![h] = IF x \in pending THEN x ELSE None]
    BY <2>0 DEF Look, Dequeue, requestVars
  <2>2. /\ x \in announced /\ Kind[x] = Kind[h] /\ x \in Ids
        /\ IF Kind[h] = "tool" THEN x = h ELSE place[x] # 0
    BY FoundIsOfKind DEF IInv, TypeOK
  <2>3. \A g \in Ids : g # h => got[g] # x
    BY <2>2, ConstantsAssumption DEF ConstantsAssumption, MixUps
  <2>4. place'[x] = 0 /\ \A y \in Ids : place[y] = 0 => place'[y] = 0
    BY <2>1, <2>2 DEF IInv, TypeOK
  <2>5. \A g \in Ids : got'[g] = IF g # h THEN got[g] ELSE IF x \in pending THEN x ELSE None
    BY <2>1 DEF IInv, TypeOK
  <2>6. \A g \in Ids : got[g] \in Ids \cup {None}
    BY DEF IInv, TypeOK
  <2> QED
    BY <2>1, <2>2, <2>3, <2>4, <2>5, <2>6 DEF MixUps
<1> QED
  BY <1>1, <1>2, <1>3, <1>4, <1>5
  DEF Next, SendEnds, SendStarts, ContextEnds, SendSucceeds, SendFails, SendCancelled, Unsubscribe,
      CancelAll, ClearActiveContext, SendReturns, Issue, ForgetRequest, Dequeue, Invoke, HandlerStep,
      CheckContext, LookAgain, ResolveFinds, ResolveSends, requestVars, bridgeVars, handlerVars, vars,
      IInv, TypeOK

\* Whatever the CLI does, no two handlers wait for the same answer, a tool's
\* result is that of its own call, and what a handler gets in the place of its own
\* request is another one of its kind (copilot.go:1228-1290).
THEOREM MixUpsAreLimited == Spec => []MixUps
<1>1. Init => MixUps
  BY DEF Init, MixUps
<1> QED
  BY <1>1, MixUpsStep, Invariance, PTL DEF Spec
=============================================================================
