--------------------------- MODULE GatewayProofs ---------------------------
(***************************************************************************)
(* What the request handlers guarantee of the sessions they share, for any *)
(* number of requests, continuations and keys, whatever fails and whenever *)
(* the process dies or is told to stop.                                    *)
(***************************************************************************)
EXTENDS Gateway, TLAPS

LEMMA ClockType ==
  /\ NewClock \in Clocks
  /\ \A v \in Clocks : /\ \A b \in BOOLEAN : [v EXCEPT !.age = 0, !.touched = b] \in Clocks
                       /\ \A t \in 0..Idle : [v EXCEPT !.timer = t] \in Clocks
                       /\ \A t \in 0..Idle : [v EXCEPT !.touched = FALSE, !.timer = t] \in Clocks
<1>1. 0 \in 0..Idle /\ Idle \in 0..Idle
  BY GatewayAssumption
<1>2. NewClock \in Clocks
  BY <1>1 DEF Clocks, NewClock
<1>3. ASSUME NEW v \in Clocks, NEW t \in 0..Idle, NEW b \in BOOLEAN
      PROVE  /\ [v EXCEPT !.age = 0, !.touched = b] \in Clocks
             /\ [v EXCEPT !.timer = t] \in Clocks
             /\ [v EXCEPT !.touched = FALSE, !.timer = t] \in Clocks
  <2>1. [v EXCEPT !.age = 0, !.touched = b] \in Clocks
    BY <1>1, <1>3 DEF Clocks
  <2>2. [v EXCEPT !.timer = t] \in Clocks
    BY <1>3 DEF Clocks
  <2>3. [v EXCEPT !.touched = FALSE, !.timer = t] \in Clocks
    BY <1>3 DEF Clocks
  <2>. QED  BY <2>1, <2>2, <2>3
<1>. QED  BY <1>1, <1>2, <1>3

LEMMA ContType ==
  /\ NoCont \in ContRecords
  /\ \A v \in ContRecords : /\ [v EXCEPT !.at = "touch", !.live = FALSE] \in ContRecords
                            /\ [v EXCEPT !.live = FALSE] \in ContRecords
  /\ \A k \in Keys : [at |-> "resolve", key |-> k, live |-> TRUE] \in ContRecords
  BY DEF ContRecords, NoCont

LEMMA InitIInv == Init => IInv
<1> SUFFICES ASSUME Init PROVE IInv
  OBVIOUS
<1>1. TypeOK
  BY ClockType, ContType DEF Init, TypeOK, Points, Resting, Manager!Init
<1>2. \A r \in Reqs : pc[r] = "idle" /\ key[r] = None /\ lease[r] = None /\ ~created[r]
  BY DEF Init, Manager!Init
<1>3. /\ \A r \in Reqs : ReqInv(r) /\ SessionInv(r)
      /\ Exclusive
  BY <1>2 DEF ReqInv, SessionInv, Exclusive, Holding
<1>4. FreeInv /\ TearInv
  BY <1>2, GatewayAssumption DEF Init, FreeInv, TearInv, Free, CanContinue
<1>5. HookInv
  BY <1>2 DEF Init, HookInv
<1>. QED  BY <1>1, <1>3, <1>4, <1>5 DEF IInv

\* The parts of the invariant besides the types speak of these alone.
safetyVars == <<pc, key, streaming, created, failed, lease, draining, janitor, keyVars, hook>>

LEMMA QuietStep ==
  ASSUME IInv, UNCHANGED safetyVars, TypeOK' PROVE IInv'
  BY DEF IInv, safetyVars, keyVars, ReqInv, Exclusive, SessionInv, FreeInv, TearInv, HookInv, Free,
         CanContinue, TornDown, Discarded

LEMMA TouchedType ==
  ASSUME TypeOK, NEW r \in Reqs
  PROVE  Touched(r) \in [Reqs -> Clocks]
<1>1. clock \in [Reqs -> Clocks] /\ (~over[r]) \in BOOLEAN
  BY DEF TypeOK
<1>2. Touched(r) = [clock EXCEPT ![r] = [clock[r] EXCEPT !.age = 0, !.touched = ~over[r]]]
  BY <1>1 DEF Touched, Clocks
<1>3. [clock[r] EXCEPT !.age = 0, !.touched = ~over[r]] \in Clocks
  BY <1>1, ClockType
<1>. QED  BY <1>1, <1>2, <1>3

LEMMA ContextOverType ==
  ASSUME TypeOK, NEW R \in SUBSET Reqs, ContextOver(R)
  PROVE  over' \in [Reqs -> BOOLEAN] /\ clock' \in [Reqs -> Clocks]
<1>1. clock \in [Reqs -> Clocks] /\ NewClock \in Clocks
  BY ClockType DEF TypeOK
<1>2. \A r \in Reqs : [NewClock EXCEPT !.age = clock[r].age] \in Clocks
  BY <1>1 DEF Clocks
<1>3. clock' \in [Reqs -> Clocks]
  BY <1>1, <1>2 DEF ContextOver
<1>. QED  BY <1>3 DEF ContextOver

LEMMA TimerSteps ==
  ASSUME IInv, NEW r \in Reqs, TimerStep(r) PROVE IInv'
<1>1. TypeOK'
  <2>1. clock \in [Reqs -> Clocks] /\ clock[r].age \in 0..Idle /\ Idle \in Nat
    BY GatewayAssumption DEF IInv, TypeOK, Clocks
  <2>2. PICK t \in 0..Idle :
          t = IF clock[r].age < Idle THEN Idle - clock[r].age ELSE Idle
    BY <2>1
  <2>3. CASE TimerTouched(r)
    <3>1. clock' = [clock EXCEPT ![r] = [clock[r] EXCEPT !.touched = FALSE, !.timer = t]]
      BY <2>1, <2>2, <2>3 DEF TimerTouched, Clocks
    <3>2. clock' \in [Reqs -> Clocks]
      BY <2>1, <3>1, ClockType
    <3>. QED
      BY <2>3, <3>2 DEF IInv, TypeOK, TimerStep, TimerTouched, argVars, procVars, keyVars
  <2>4. CASE TimerFires(r)
    <3>1. clock[r].age < Idle => clock' = [clock EXCEPT ![r] = [clock[r] EXCEPT !.timer = t]]
      BY <2>1, <2>2, <2>4 DEF TimerFires, Clocks
    <3>2. clock' \in [Reqs -> Clocks]
      <4>1. CASE clock[r].age < Idle
        <5>1. [clock[r] EXCEPT !.timer = t] \in Clocks
          BY <2>1, ClockType
        <5>. QED  BY <2>1, <3>1, <4>1, <5>1
      <4>2. CASE ~(clock[r].age < Idle)
        BY <2>4, <4>2, ContextOverType DEF IInv, TimerFires
      <4>. QED  BY <4>1, <4>2
    <3>3. over' \in [Reqs -> BOOLEAN]
      BY <2>4, ContextOverType DEF IInv, TypeOK, TimerFires
    <3>. QED
      BY <3>2, <3>3 DEF IInv, TypeOK, TimerStep, argVars, procVars, keyVars
  <2>. QED  BY <2>3, <2>4 DEF TimerStep
<1>. QED
  BY <1>1, QuietStep DEF TimerStep, safetyVars, argVars, procVars, keyVars

LEMMA TickStep ==
  ASSUME IInv, Tick PROVE IInv'
<1>1. TypeOK'
  <2>1. clock \in [Reqs -> Clocks] /\ Idle \in Nat
    BY GatewayAssumption DEF IInv, TypeOK
  <2>2. ASSUME NEW v \in Clocks
        PROVE  [v EXCEPT !.age = IF @ < Idle THEN @ + 1 ELSE @,
                         !.timer = IF @ > 0 THEN @ - 1 ELSE @] \in Clocks
    <3>1. v.age \in 0..Idle /\ v.timer \in 0..Idle
      BY DEF Clocks
    <3>2. /\ (IF v.age < Idle THEN v.age + 1 ELSE v.age) \in 0..Idle
          /\ (IF v.timer > 0 THEN v.timer - 1 ELSE v.timer) \in 0..Idle
      BY <2>1, <3>1
    <3>. QED  BY <3>2 DEF Clocks
  <2>3. clock' \in [Reqs -> Clocks]
    BY <2>1, <2>2 DEF Tick
  <2>. QED
    BY <2>3 DEF IInv, TypeOK, Tick, argVars, procVars, keyVars
<1>. QED
  BY <1>1, QuietStep DEF Tick, safetyVars, argVars, procVars, keyVars

LEMMA ContextStep ==
  ASSUME IInv, NEW r \in Reqs, ContextEnds(r) PROVE IInv'
<1>1. TypeOK'
  BY ContextOverType DEF IInv, TypeOK, ContextEnds, argVars, procVars, keyVars
<1>. QED
  BY <1>1, QuietStep DEF ContextEnds, safetyVars, argVars, procVars, keyVars

LEMMA EventStep ==
  ASSUME IInv, NEW r \in Reqs, Event(r) PROVE IInv'
<1>1. TypeOK'
  BY TouchedType DEF IInv, TypeOK, Event, argVars, procVars, keyVars
<1>. QED
  BY <1>1, QuietStep DEF Event, safetyVars, argVars, procVars, keyVars

LEMMA ContinuationSteps ==
  ASSUME IInv, NEW c \in Conts,
         (\E k \in Keys : Lookup(c, k)) \/ Resolve(c) \/ NotPending(c) \/ TouchActivity(c)
  PROVE  IInv'
<1> USE DEF argVars, procVars, keyVars
<1>1. UNCHANGED safetyVars
  BY DEF Lookup, Resolve, NotPending, TouchActivity, safetyVars
<1>2. CASE \E k \in Keys : Lookup(c, k)
  <2>4. PICK k \in Keys : cont' = [cont EXCEPT ![c] = [at |-> "resolve", key |-> k, live |-> TRUE]]
    BY <1>2 DEF Lookup, ContStep
  <2>2. cont' \in [Conts -> ContRecords]
    BY <2>4, ContType DEF IInv, TypeOK
  <2>3. UNCHANGED <<over, clock, asking, signalled>>
    BY <1>2 DEF Lookup
  <2>1. TypeOK'
    BY <1>1, <2>2, <2>3 DEF IInv, TypeOK, safetyVars
  <2>. QED  BY <1>1, <2>1, QuietStep
<1>3. CASE Resolve(c)
  <2>1. cont' = [cont EXCEPT ![c] = [cont[c] EXCEPT !.at = "touch", !.live = FALSE]]
        /\ asking' \subseteq asking
    BY <1>3 DEF Resolve, ContStep
  <2>2. cont' \in [Conts -> ContRecords]
    BY <2>1, ContType DEF IInv, TypeOK
  <2>3. TypeOK'
    BY <1>3, <2>1, <2>2 DEF IInv, TypeOK, Resolve
  <2>. QED  BY <1>1, <2>3, QuietStep
<1>5. CASE NotPending(c)
  <2>1. TypeOK'
    BY <1>5, ContType DEF IInv, TypeOK, NotPending, ContStep
  <2>. QED  BY <1>1, <2>1, QuietStep
<1>4. CASE TouchActivity(c)
  <2>1. clock' \in [Reqs -> Clocks]
    BY <1>4, TouchedType DEF IInv, TypeOK, TouchActivity
  <2>2. TypeOK'
    BY <1>4, <2>1, ContType DEF IInv, TypeOK, TouchActivity, ContStep
  <2>. QED  BY <1>1, <2>2, QuietStep
<1>. QED  BY <1>2, <1>3, <1>4, <1>5

LEMMA SignalStep ==
  ASSUME IInv, Signal PROVE IInv'
<1>1. TypeOK'
  BY ContextOverType DEF IInv, TypeOK, Signal, argVars, procVars, keyVars
<1>. QED
  BY <1>1, QuietStep DEF Signal, safetyVars, argVars, procVars, keyVars

-----------------------------------------------------------------------------
(* Steps of a handler that keep its lease.                                 *)

\* What a handler that moves on within its lease has to show.
LEMMA HolderStep ==
  ASSUME IInv, NEW r \in Reqs, lease[r] # None, TypeOK',
         UNCHANGED <<key, streaming, created, lease, draining, janitor, mapped, record, tainted>>,
         \A q \in Reqs \ {r} : pc'[q] = pc[q] /\ failed'[q] = failed[q],
         \A k \in Keys \ {lease[r]} : upstream'[k] = upstream[k],
         pc'[r] \in Holding, pc'[r] \in {"hook", "head", "tail", "clear"} => streaming[r],
         SessionInv(r)', HookInv'
  PROVE  IInv'
<1>1. \A q \in Reqs : ReqInv(q)'
  BY DEF IInv, TypeOK, ReqInv, Holding
<1>2. Exclusive'
  BY DEF IInv, Exclusive
<1>3. ASSUME NEW q \in Reqs \ {r} PROVE SessionInv(q)'
  <2>1. lease[q] # None => lease[q] \in Keys \ {lease[r]}
    BY DEF IInv, TypeOK, Exclusive
  <2>. QED  BY <2>1 DEF IInv, SessionInv
<1>5. \A k \in Keys : Discarded(k)' <=> Discarded(k)
  BY DEF IInv, TypeOK, ReqInv, Discarded, Holding, Teardown
<1>4. FreeInv'
  <2>1. \A k \in Keys : Free(k) => k # lease[r]
    BY DEF Free
  <2>2. \A k \in Keys : Discarded(k)' <=> Discarded(k)
    BY <1>5
  <2>. QED  BY <2>1, <2>2 DEF IInv, FreeInv, Free, CanContinue
<1>6. TearInv'
  BY <1>5 DEF IInv, TearInv, TornDown, Free
<1>. QED  BY <1>1, <1>2, <1>3, <1>4, <1>6 DEF IInv

\* The key of a request that has a lease.
LEMMA HeldKey ==
  ASSUME IInv, NEW r \in Reqs, pc[r] \in Holding
  PROVE  lease[r] # None /\ lease[r] = key[r] /\ key[r] \in Keys
  BY DEF IInv, TypeOK, ReqInv

\* The hooks, when a handler moves on within its lease and leaves them alone.
LEMMA HookFrame ==
  ASSUME IInv, NEW r \in Reqs, UNCHANGED <<streaming, lease, hook>>,
         \A q \in Reqs \ {r} : pc'[q] = pc[q],
         draining => draining',
         pc[r] \in {"head", "turn", "tail", "clear"} /\ streaming[r]
           => pc'[r] \in {"head", "turn", "tail", "clear"},
         pc'[r] \in {"head", "turn", "tail"} /\ streaming[r]
           => pc[r] \in {"head", "turn", "tail"}
  PROVE  HookInv'
  BY DEF IInv, TypeOK, HookInv

LEMMA PrepareStep ==
  ASSUME IInv, NEW r \in Reqs, Prepare(r) PROVE IInv'
<1> USE DEF argVars, procVars, keyVars
<1>1. lease[r] # None /\ lease[r] = key[r] /\ key[r] \in Keys
  BY HeldKey DEF Prepare, Holding
<1>2. TypeOK'
  BY <1>1 DEF IInv, TypeOK, Prepare, Goto, Sends, Points, Holding
<1>3. SessionInv(r)'
  BY <1>1 DEF IInv, TypeOK, Prepare, Goto, Sends, SessionInv
<1>4. HookInv'
  BY HookFrame DEF IInv, TypeOK, Prepare, Goto
<1>. QED
  BY <1>1, <1>2, <1>3, <1>4, HolderStep DEF IInv, TypeOK, Prepare, Goto, Sends, Holding

LEMMA SetActivityHookStep ==
  ASSUME IInv, NEW r \in Reqs, SetActivityHook(r) PROVE IInv'
<1> USE DEF argVars, procVars, keyVars
<1>1. lease[r] # None /\ lease[r] = key[r] /\ key[r] \in Keys
  BY HeldKey DEF SetActivityHook, Holding
<1>2. TypeOK'
  BY <1>1 DEF IInv, TypeOK, SetActivityHook, Goto, Points, Holding
<1>3. SessionInv(r)'
  BY <1>1 DEF IInv, TypeOK, SetActivityHook, Goto, SessionInv
<1>4. streaming[r] /\ (~draining => key[r] \in mapped)
  BY <1>1 DEF IInv, ReqInv, SetActivityHook
<1>5. HookInv'
  BY <1>1, <1>4 DEF IInv, TypeOK, Exclusive, SetActivityHook, Goto, HookInv
<1>. QED
  BY <1>1, <1>2, <1>3, <1>4, <1>5, HolderStep DEF IInv, TypeOK, SetActivityHook, Goto, Holding

LEMMA HeadSteps ==
  ASSUME IInv, NEW r \in Reqs, Head(r) \/ HeadFails(r) PROVE IInv'
<1> USE DEF argVars, procVars, keyVars
<1>1. lease[r] # None /\ lease[r] = key[r] /\ key[r] \in Keys /\ streaming[r]
  BY HeldKey DEF Head, HeadFails, Holding, IInv, ReqInv
<1>2. CASE Head(r)
  <2>1. TypeOK'
    BY <1>1, <1>2, TouchedType DEF IInv, TypeOK, Head, Goto, Sends, Points, Holding
  <2>2. SessionInv(r)'
    BY <1>1, <1>2 DEF IInv, TypeOK, Head, Goto, Sends, SessionInv
  <2>3. HookInv'
    BY <1>2, HookFrame DEF IInv, TypeOK, Head, Goto
  <2>. QED
    BY <1>1, <1>2, <2>1, <2>2, <2>3, HolderStep DEF IInv, TypeOK, Head, Goto, Sends, Holding
<1>3. CASE HeadFails(r)
  <2>1. TypeOK'
    BY <1>1, <1>3 DEF IInv, TypeOK, HeadFails, Ends, Goto, Points, Holding
  <2>2. SessionInv(r)'
    BY <1>1, <1>3 DEF IInv, TypeOK, HeadFails, Ends, Goto, SessionInv
  <2>3. HookInv'
    BY <1>1, <1>3, HookFrame DEF IInv, TypeOK, HeadFails, Ends, Goto
  <2>. QED
    BY <1>1, <1>3, <2>1, <2>2, <2>3, HolderStep DEF IInv, TypeOK, HeadFails, Ends, Goto, Holding
<1>. QED  BY <1>2, <1>3

LEMMA TurnSteps ==
  ASSUME IInv, NEW r \in Reqs, TurnSucceeds(r) \/ TurnFails(r) PROVE IInv'
<1> USE DEF argVars, procVars, keyVars
<1>1. lease[r] # None /\ lease[r] = key[r] /\ key[r] \in Keys
  BY HeldKey DEF TurnSucceeds, TurnFails, Holding
<1>2. CASE TurnSucceeds(r)
  <2>1. TypeOK'
    BY <1>1, <1>2 DEF IInv, TypeOK, TurnSucceeds, Goto, Points, Holding
  <2>2. SessionInv(r)'
    BY <1>1, <1>2 DEF IInv, TypeOK, TurnSucceeds, Goto, SessionInv
  <2>3. HookInv'
    BY <1>2, HookFrame DEF IInv, TypeOK, TurnSucceeds, Goto
  <2>. QED
    BY <1>1, <1>2, <2>1, <2>2, <2>3, HolderStep DEF IInv, TypeOK, TurnSucceeds, Goto, Holding
<1>3. CASE TurnFails(r)
  <2>1. TypeOK'
    BY <1>1, <1>3 DEF IInv, TypeOK, TurnFails, Ends, Goto, Points, Holding
  <2>2. SessionInv(r)'
    BY <1>1, <1>3 DEF IInv, TypeOK, TurnFails, Ends, Goto, SessionInv
  <2>3. HookInv'
    BY <1>1, <1>3, HookFrame DEF IInv, TypeOK, TurnFails, Ends, Goto
  <2>. QED
    BY <1>1, <1>3, <2>1, <2>2, <2>3, HolderStep DEF IInv, TypeOK, TurnFails, Ends, Goto, Holding
<1>. QED  BY <1>2, <1>3

LEMMA TailStep ==
  ASSUME IInv, NEW r \in Reqs, Tail(r) PROVE IInv'
<1> USE DEF argVars, procVars, keyVars
<1>1. lease[r] # None /\ lease[r] = key[r] /\ key[r] \in Keys /\ streaming[r]
  BY HeldKey DEF Tail, Holding, IInv, ReqInv
<1>2. PICK bad \in BOOLEAN : Ends(r, bad)
  BY DEF Tail
<1>3. TypeOK'
  BY <1>1, <1>2 DEF IInv, TypeOK, Tail, Ends, Goto, Points, Holding
<1>4. SessionInv(r)'
  BY <1>1, <1>2 DEF IInv, TypeOK, Tail, Ends, Goto, SessionInv
<1>5. HookInv'
  BY <1>1, <1>2, HookFrame DEF IInv, TypeOK, Tail, Ends, Goto
<1>. QED
  BY <1>1, <1>2, <1>3, <1>4, <1>5, HolderStep DEF IInv, TypeOK, Tail, Ends, Goto, Holding

LEMMA ClearActivityStep ==
  ASSUME IInv, NEW r \in Reqs, ClearActivity(r) PROVE IInv'
<1> USE DEF argVars, procVars, keyVars
<1>1. lease[r] # None /\ lease[r] = key[r] /\ key[r] \in Keys
  BY HeldKey DEF ClearActivity, Holding
<1>2. TypeOK'
  BY <1>1 DEF IInv, TypeOK, ClearActivity, Goto, Points, Holding
<1>3. SessionInv(r)'
  BY <1>1 DEF IInv, TypeOK, ClearActivity, Goto, SessionInv
<1>4. \A q \in Reqs \ {r} : lease[q] # lease[r]
  BY <1>1 DEF IInv, TypeOK, Exclusive
<1>5. HookInv'
  BY <1>1, <1>4 DEF IInv, TypeOK, ClearActivity, Goto, HookInv
<1>. QED
  BY <1>1, <1>2, <1>3, <1>5, HolderStep DEF IInv, TypeOK, ClearActivity, Goto, Holding

-----------------------------------------------------------------------------
(* Steps of a request without a lease.                                     *)

LEMMA BeginStep ==
  ASSUME IInv, NEW r \in Reqs, NEW k \in Keys, NEW s \in BOOLEAN, Begin(r, k, s) PROVE IInv'
<1> USE DEF argVars, procVars, keyVars
<1>1. TypeOK'
  BY DEF IInv, TypeOK, Begin, Goto, Points
<1>2. lease[r] = None
  BY DEF IInv, ReqInv, Begin, Holding
<1>3. \A q \in Reqs : ReqInv(q)'
  BY <1>2, GatewayAssumption DEF IInv, TypeOK, ReqInv, Begin, Goto, Holding
<1>4. Exclusive' /\ \A q \in Reqs : SessionInv(q)'
  BY <1>2 DEF IInv, TypeOK, Exclusive, SessionInv, Begin, Goto
<1>7. \A j \in Keys : Discarded(j)' <=> Discarded(j)
  BY DEF IInv, TypeOK, Begin, Goto, Discarded, Teardown
<1>5. FreeInv' /\ TearInv'
  BY <1>7 DEF IInv, FreeInv, TearInv, TornDown, Free, CanContinue, Begin
<1>6. HookInv'
  BY <1>2, GatewayAssumption DEF IInv, TypeOK, HookInv, Begin, Goto
<1>. QED  BY <1>1, <1>3, <1>4, <1>5, <1>6 DEF IInv

\* The types of what a handler resets.
LEMMA ResetType ==
  ASSUME TypeOK, NEW r \in Reqs, Reset(r)
  PROVE  /\ streaming' \in [Reqs -> BOOLEAN] /\ created' \in [Reqs -> BOOLEAN]
         /\ failed' \in [Reqs -> BOOLEAN] /\ over' \in [Reqs -> BOOLEAN]
         /\ clock' \in [Reqs -> Clocks]
  BY ClockType DEF TypeOK, Reset

LEMMA ReturnType ==
  ASSUME TypeOK, NEW r \in Reqs, Return(r)
  PROVE  /\ pc' \in [Reqs -> Points] /\ key' \in [Reqs -> Keys \cup {None}]
         /\ streaming' \in [Reqs -> BOOLEAN] /\ created' \in [Reqs -> BOOLEAN]
         /\ failed' \in [Reqs -> BOOLEAN] /\ over' \in [Reqs -> BOOLEAN]
         /\ clock' \in [Reqs -> Clocks]
  BY ResetType DEF TypeOK, Return, Goto, Points

\* What a request that leaves its lease, or never had one, does not disturb: the
\* other requests, and the sessions at other keys.
LEMMA LeavingStep ==
  ASSUME IInv, NEW r \in Reqs, NEW k0 \in Keys, key[r] = k0, Reset(r), TypeOK',
         lease' = [lease EXCEPT ![r] = None],
         \A q \in Reqs \ {r} : pc'[q] = pc[q] /\ key'[q] = key[q],
         \/ pc'[r] = "idle" /\ key'[r] = None
         \/ pc'[r] \in Teardown /\ key'[r] = k0,
         pc[r] \notin {"head", "turn", "tail", "clear"},
         UNCHANGED <<draining, janitor, hook>>,
         \A k \in Keys \ {k0} : /\ k \in mapped' <=> k \in mapped
                                /\ k \in record' <=> k \in record
                                /\ k \in tainted' <=> k \in tainted
                                /\ upstream'[k] = upstream[k],
         \/ lease[r] # None \/ Free(k0)
         \/ UNCHANGED mapped /\ (k0 \in tainted => k0 \in tainted')
            /\ (upstream'[k0] = upstream[k0] \/ k0 \in tainted),
         Free(k0)' /\ CanContinue(k0)'
           => upstream'[k0] = "whole" \/ k0 \in tainted' \/ Discarded(k0)',
         TornDown(k0)' /\ (k0 \in mapped' \/ ~Free(k0)') => k0 \in tainted'
  PROVE  IInv'
<1>1. \A q \in Reqs \ {r} : /\ pc'[q] = pc[q] /\ key'[q] = key[q] /\ streaming'[q] = streaming[q]
                            /\ created'[q] = created[q] /\ failed'[q] = failed[q]
                            /\ lease'[q] = lease[q]
  BY DEF IInv, TypeOK, Reset
<1>2. /\ pc'[r] \in {"idle"} \cup Teardown /\ lease'[r] = None /\ ~created'[r]
      /\ pc'[r] = "idle" <=> key'[r] = None
  BY GatewayAssumption DEF IInv, TypeOK, Reset, Teardown
<1>3. lease[r] \in {None, k0}
  BY DEF IInv, TypeOK, ReqInv
<1>4. \A q \in Reqs \ {r} : lease[q] # None =>
        lease[q] \in Keys /\ (lease[r] # None \/ Free(k0) => lease[q] # k0)
  BY <1>3 DEF IInv, TypeOK, Exclusive, Free
<1>5. ASSUME NEW q \in Reqs \ {r}, lease[q] # None
      PROVE  /\ lease[q] \in mapped' <=> lease[q] \in mapped
             /\ lease[q] \in tainted => lease[q] \in tainted'
             /\ upstream'[lease[q]] = upstream[lease[q]] \/ lease[q] \in tainted
  BY <1>4, <1>5
<1>6. \A q \in Reqs : ReqInv(q)'
  BY <1>1, <1>2, <1>5 DEF IInv, ReqInv, Holding, Teardown
<1>7. Exclusive'
  BY <1>1, <1>2 DEF IInv, Exclusive
<1>8. \A q \in Reqs : SessionInv(q)'
  BY <1>1, <1>2, <1>5 DEF IInv, SessionInv
<1>9. ASSUME NEW k \in Keys \ {k0}
      PROVE  /\ Free(k)' <=> Free(k)
             /\ CanContinue(k)' <=> CanContinue(k)
             /\ Discarded(k)' <=> Discarded(k)
             /\ TornDown(k)' <=> TornDown(k)
  <2>1. Free(k)' <=> Free(k)
    BY <1>1, <1>2, <1>3, <1>9, GatewayAssumption DEF Free
  <2>2. Discarded(k)' <=> Discarded(k)
    BY <1>1, <1>2, <1>9, GatewayAssumption DEF Discarded
  <2>. QED  BY <1>9, <2>1, <2>2 DEF CanContinue, TornDown
<1>10. FreeInv'
  BY <1>9 DEF IInv, FreeInv
<1>11. TearInv'
  BY <1>9 DEF IInv, TearInv
<1>12. HookInv'
  <2>1. \A k \in Keys : hook[k] # None => hook[k] # r /\ hook[k] \in Reqs
    BY DEF IInv, TypeOK, HookInv
  <2>. QED  BY <1>1, <1>2, <2>1 DEF IInv, HookInv, Teardown
<1>. QED  BY <1>6, <1>7, <1>8, <1>10, <1>11, <1>12 DEF IInv

\* Whoever has a lease at a key is why the key is not free.
LEMMA HeldNotFree ==
  ASSUME IInv, NEW r \in Reqs, NEW k \in Keys, lease[r] = k
  PROVE  ~Free(k) /\ (TornDown(k) => k \in tainted)
  BY DEF IInv, TearInv, Free

\* The teardowns of a key, when no one begins or ends one.
LEMMA SameTeardowns ==
  ASSUME TypeOK, NEW r \in Reqs, UNCHANGED janitor,
         pc[r] \notin Teardown, pc'[r] \notin Teardown,
         \A q \in Reqs \ {r} : pc'[q] = pc[q] /\ key'[q] = key[q]
  PROVE  \A k \in Keys : /\ Discarded(k)' <=> Discarded(k)
                         /\ TornDown(k)' <=> TornDown(k)
  BY DEF Discarded, TornDown

LEMMA AcquireFailsStep ==
  ASSUME IInv, NEW r \in Reqs, AcquireFails(r) PROVE IInv'
<1> USE DEF keyVars, procVars
<1>1. PICK k \in Keys : k = key[r]
  BY DEF IInv, TypeOK, ReqInv, AcquireFails
<1>2. TypeOK'
  BY <1>1, ReturnType DEF IInv, TypeOK, AcquireFails
<1>3. lease[r] = None /\ lease' = [lease EXCEPT ![r] = None] /\ UNCHANGED lease
  BY DEF IInv, TypeOK, ReqInv, AcquireFails, Holding
<1>4. \/ UNCHANGED keyVars
      \/ k \notin mapped /\ Free(k) /\ ~CanContinue(k)'
  BY <1>1 DEF AcquireFails, CanCreate, CanContinue
<1>5. \A j \in Keys \ {k} : /\ j \in mapped' <=> j \in mapped
                            /\ j \in record' <=> j \in record
                            /\ j \in tainted' <=> j \in tainted
                            /\ upstream'[j] = upstream[j]
  BY <1>1 DEF AcquireFails, IInv, TypeOK
<1>6. /\ pc' = [pc EXCEPT ![r] = "idle"] /\ key' = [key EXCEPT ![r] = None]
      /\ Reset(r) /\ pc[r] = "acquire"
      /\ UNCHANGED <<draining, janitor, hook, mapped, tainted>>
  BY DEF AcquireFails, Return, Goto
<1>7. \A j \in Keys : /\ Discarded(j)' <=> Discarded(j)
                      /\ TornDown(j)' <=> TornDown(j)
  BY <1>6, SameTeardowns DEF IInv, TypeOK, Teardown
<1>8. Free(k)' <=> Free(k)
  BY <1>3 DEF Free
<1>9. Free(k)' /\ CanContinue(k)' => upstream'[k] = "whole" \/ k \in tainted' \/ Discarded(k)'
  BY <1>4, <1>7, <1>8 DEF IInv, FreeInv, CanContinue
<1>10. TornDown(k)' /\ (k \in mapped' \/ ~Free(k)') => k \in tainted'
  BY <1>6, <1>7, <1>8 DEF IInv, TearInv
<1>11. pc'[r] = "idle" /\ key'[r] = None /\ \A q \in Reqs \ {r} : pc'[q] = pc[q] /\ key'[q] = key[q]
  BY <1>6 DEF IInv, TypeOK
<1>. QED
  BY <1>1, <1>2, <1>3, <1>4, <1>5, <1>6, <1>9, <1>10, <1>11, LeavingStep

\* The two ways to give a session back to the map.
LEMMA ReleaseSteps ==
  ASSUME IInv, NEW r \in Reqs, PrepareFails(r) \/ Release(r) PROVE IInv'
<1> USE DEF keyVars, procVars, Manager!End
<1>1. PICK k \in Keys : k = key[r] /\ lease[r] = k
  BY HeldKey DEF PrepareFails, Release, Holding
<1>2. TypeOK'
  BY <1>1, ReturnType DEF IInv, TypeOK, PrepareFails, Release
<1>3. lease[r] # None /\ lease' = [lease EXCEPT ![r] = None]
  BY DEF PrepareFails, Release
<1>4. upstream'[k] = "whole" \/ k \in tainted'
  BY <1>1, <1>3 DEF IInv, SessionInv, PrepareFails, Release
<1>5. /\ tainted \subseteq tainted' /\ UNCHANGED <<draining, janitor, hook, mapped, upstream>>
      /\ pc[r] \in {"prepare", "end"} /\ Reset(r)
      /\ pc' = [pc EXCEPT ![r] = "idle"] /\ key' = [key EXCEPT ![r] = None]
      /\ \A j \in Keys \ {k} : /\ j \in record' <=> j \in record
                               /\ j \in tainted' <=> j \in tainted
  BY <1>1 DEF PrepareFails, Release, Return, Goto
<1>6. TornDown(k)' => k \in tainted'
  <2>1. TornDown(k)' <=> TornDown(k)
    BY <1>5, SameTeardowns DEF IInv, TypeOK, Teardown
  <2>. QED  BY <1>1, <1>5, <2>1, HeldNotFree
<1>7. pc'[r] = "idle" /\ key'[r] = None /\ \A q \in Reqs \ {r} : pc'[q] = pc[q] /\ key'[q] = key[q]
  BY <1>5 DEF IInv, TypeOK
<1>. QED
  BY <1>1, <1>2, <1>3, <1>4, <1>5, <1>6, <1>7, LeavingStep

LEMMA DiscardStep ==
  ASSUME IInv, NEW r \in Reqs, Discard(r) PROVE IInv'
<1> USE DEF keyVars, procVars, Manager!End
<1>1. PICK k \in Keys : k = key[r] /\ lease[r] = k
  BY HeldKey DEF Discard, Holding
<1>2. /\ lease[r] # None /\ lease' = [lease EXCEPT ![r] = None]
      /\ pc' = [pc EXCEPT ![r] = "destroy"] /\ pc[r] = "end" /\ Reset(r)
      /\ mapped' = mapped \ {k}
      /\ UNCHANGED <<key, draining, janitor, hook, record, upstream, tainted>>
  BY <1>1 DEF Discard, Goto
<1>3. cont' \in [Conts -> ContRecords]
  BY ContType DEF Discard, Orphaned, IInv, TypeOK
<1>4. TypeOK'
  BY <1>2, <1>3, ResetType DEF IInv, TypeOK, Discard, Points, Teardown
<1>5. pc'[r] = "destroy" /\ key'[r] = k /\ \A q \in Reqs \ {r} : pc'[q] = pc[q] /\ key'[q] = key[q]
  BY <1>1, <1>2 DEF IInv, TypeOK
<1>6. Discarded(k)'
  BY <1>5 DEF Discarded, Teardown
<1>7. Free(k)'
  BY <1>1, <1>2, GatewayAssumption DEF IInv, TypeOK, Exclusive, Free
<1>8. k \notin mapped' /\ \A j \in Keys \ {k} : j \in mapped' <=> j \in mapped
  BY <1>2
<1>. QED
  BY <1>1, <1>2, <1>4, <1>5, <1>6, <1>7, <1>8, LeavingStep DEF Teardown

\* A discard goes on, when others may have come to the session.
LEMMA DestroySteps ==
  ASSUME IInv, NEW r \in Reqs, DestroyStep(r) PROVE IInv'
<1> USE DEF keyVars, procVars
<1>1. pc[r] \in Teardown /\ lease[r] = None /\ UNCHANGED lease
      /\ UNCHANGED <<draining, janitor, hook, mapped>>
  BY DEF IInv, ReqInv, DestroyStep, DestroyRecord, DestroyUpstream, Holding, Teardown
<1>2. PICK k \in Keys : k = key[r]
  BY <1>1 DEF IInv, TypeOK, ReqInv, Teardown
<1>3. lease' = [lease EXCEPT ![r] = None] /\ (Free(k)' <=> Free(k))
  BY <1>1 DEF IInv, TypeOK, Free
<1>4. TornDown(k) /\ Discarded(k)
  BY <1>1, <1>2 DEF TornDown, Discarded
<1>5. k \in mapped \/ ~Free(k) => k \in tainted
  BY <1>4 DEF IInv, TearInv
<1>6. CASE DestroyRecord(r)
  <2>1. /\ pc' = [pc EXCEPT ![r] = "purge"] /\ record' \subseteq record
        /\ \A j \in Keys \ {k} : j \in record' <=> j \in record
        /\ UNCHANGED <<key, streaming, created, failed, over, clock, asking, signalled, cont, upstream, tainted>>
    BY <1>2, <1>6 DEF DestroyRecord, RecordDeleted, Goto, argVars
  <2>2. TypeOK'
    BY <1>1, <2>1 DEF IInv, TypeOK, Points, Teardown
  <2>3. \A j \in Keys : /\ Discarded(j)' <=> Discarded(j)
                        /\ TornDown(j)' <=> TornDown(j)
    BY <1>1, <2>1 DEF IInv, TypeOK, Discarded, TornDown, Teardown
  <2>4. \A q \in Reqs : ReqInv(q)'
    BY <1>1, <2>1 DEF IInv, TypeOK, ReqInv, Holding, Teardown
  <2>5. \A q \in Reqs : SessionInv(q)'
    BY <1>1, <2>1 DEF IInv, TypeOK, SessionInv
  <2>6. \A j \in Keys : CanContinue(j)' => CanContinue(j)
    BY <1>1, <2>1 DEF CanContinue
  <2>7. FreeInv' /\ TearInv'
    BY <1>1, <2>1, <2>3, <2>6 DEF IInv, FreeInv, TearInv, Free
  <2>8. Exclusive' /\ HookInv'
    BY <1>1, <2>1 DEF IInv, TypeOK, Exclusive, HookInv, Teardown
  <2>. QED  BY <2>2, <2>4, <2>5, <2>7, <2>8 DEF IInv
<1>7. CASE DestroyUpstream(r)
  <2>1. /\ Return(r) /\ UNCHANGED <<record, asking, signalled, cont>>
        /\ tainted' = IF k \in record /\ upstream'[k] \notin {"none", "whole"}
                      THEN tainted \cup {k} ELSE tainted
        /\ upstream' = [upstream EXCEPT ![k] = "none"] \/ UNCHANGED upstream
    BY <1>2, <1>7 DEF DestroyUpstream, UpstreamDeleted
  <2>2. TypeOK'
    BY <1>1, <2>1, ReturnType DEF IInv, TypeOK
  <2>3. /\ pc' = [pc EXCEPT ![r] = "idle"] /\ key' = [key EXCEPT ![r] = None] /\ Reset(r)
        /\ tainted \subseteq tainted'
    BY <2>1 DEF Return, Goto
  <2>4. pc'[r] = "idle" /\ key'[r] = None /\ \A q \in Reqs \ {r} : pc'[q] = pc[q] /\ key'[q] = key[q]
    BY <2>3 DEF IInv, TypeOK
  <2>5. Free(k)' /\ CanContinue(k)' => upstream'[k] = "whole" \/ k \in tainted'
    BY <1>1, <1>5, <2>1 DEF CanContinue
  <2>6. k \in mapped' \/ ~Free(k)' => k \in tainted'
    BY <1>1, <1>3, <1>5, <2>3
  <2>7. \A j \in Keys \ {k} : /\ j \in mapped' <=> j \in mapped
                              /\ j \in record' <=> j \in record
                              /\ j \in tainted' <=> j \in tainted
                              /\ upstream'[j] = upstream[j]
    BY <1>1, <2>1 DEF IInv, TypeOK
  <2>. QED
    BY <1>1, <1>2, <1>3, <1>5, <2>2, <2>3, <2>4, <2>5, <2>6, <2>7, LeavingStep DEF Teardown
<1>. QED  BY <1>6, <1>7 DEF DestroyStep

LEMMA AcquireStep ==
  ASSUME IInv, NEW r \in Reqs, Acquire(r) PROVE IInv'
<1> USE DEF keyVars, procVars, Manager!Grant
<1>1. PICK k \in Keys : k = key[r]
  BY DEF IInv, TypeOK, ReqInv, Acquire
<1>2. /\ Free(k) /\ lease[r] = None /\ lease' = [lease EXCEPT ![r] = k]
      /\ pc[r] = "acquire" /\ pc' = [pc EXCEPT ![r] = "prepare"] /\ ~draining /\ UNCHANGED draining
      /\ mapped' = mapped \cup {k} /\ UNCHANGED <<key, streaming, failed>>
      /\ hook' = hook \/ hook' = [hook EXCEPT ![k] = None]
  BY <1>1 DEF Acquire, Goto, Free
<1>3. /\ \A j \in Keys \ {k} : /\ j \in record' <=> j \in record
                               /\ j \in tainted' <=> j \in tainted
                               /\ upstream'[j] = upstream[j]
      /\ created' \in [Reqs -> BOOLEAN] /\ \A q \in Reqs \ {r} : created'[q] = created[q]
      /\ k \in tainted' \/ upstream'[k] = IF created'[r] THEN "empty" ELSE "whole"
  <2>1. CASE /\ CanContinue(k) /\ UNCHANGED <<created, record, upstream>>
             /\ tainted' = IF TornDown(k) THEN tainted \cup {k} ELSE tainted
    <3>1. ~created[r]
      BY <1>2 DEF IInv, ReqInv
    <3>2. upstream[k] = "whole" \/ k \in tainted \/ TornDown(k)
      BY <1>2, <2>1 DEF IInv, FreeInv, TornDown
    <3>. QED  BY <1>2, <2>1, <3>1, <3>2 DEF IInv, TypeOK
  <2>2. CASE /\ created' = [created EXCEPT ![r] = TRUE]
             /\ record' = record \cup {k}
             /\ upstream' = [upstream EXCEPT ![k] = "empty"]
             /\ tainted' = IF TornDown(k) THEN tainted \cup {k} ELSE tainted \ {k}
    BY <2>2 DEF IInv, TypeOK
  <2>. QED  BY <1>1, <2>1, <2>2 DEF Acquire
<1>4. TypeOK'
  <2>1. /\ record' \subseteq Keys /\ tainted' \subseteq Keys
        /\ upstream' \in [Keys -> {"none", "empty", "whole", "open", "broken"}]
    BY <1>1 DEF IInv, TypeOK, Acquire
  <2>2. /\ pc' \in [Reqs -> Points] /\ lease' \in [Reqs -> Keys \cup {None}]
        /\ mapped' \subseteq Keys /\ hook' \in [Keys -> Reqs \cup {None}]
    BY <1>2 DEF IInv, TypeOK, Points, Holding
  <2>3. UNCHANGED <<key, streaming, failed, over, clock, asking, draining, janitor, signalled, cont>>
    BY DEF Acquire
  <2>. QED  BY <1>3, <2>1, <2>2, <2>3 DEF IInv, TypeOK
<1>5. \A q \in Reqs \ {r} : lease'[q] = lease[q] /\ pc'[q] = pc[q] /\ lease[q] # k
  BY <1>2 DEF IInv, TypeOK, Free
<1>6. lease'[r] = k /\ pc'[r] = "prepare"
  BY <1>2 DEF IInv, TypeOK
<1>7. \A q \in Reqs : ReqInv(q)'
  BY <1>1, <1>2, <1>3, <1>5, <1>6, GatewayAssumption DEF IInv, ReqInv, Holding
<1>8. Exclusive'
  BY <1>5, <1>6 DEF IInv, Exclusive
<1>9. \A q \in Reqs \ {r} : lease[q] # None => lease[q] \in Keys \ {k}
  BY <1>5 DEF IInv, TypeOK
<1>10. \A q \in Reqs : SessionInv(q)'
  BY <1>2, <1>3, <1>5, <1>6, <1>9 DEF IInv, SessionInv
<1>13. \A j \in Keys : /\ Discarded(j)' <=> Discarded(j)
                       /\ TornDown(j)' <=> TornDown(j)
  BY <1>2, <1>4, <1>5, <1>6, SameTeardowns DEF IInv, Teardown, Acquire, procVars
<1>11. ASSUME NEW j \in Keys, Free(j)', CanContinue(j)'
       PROVE  upstream'[j] = "whole" \/ j \in tainted' \/ Discarded(j)'
  <2>1. j # k
    BY <1>6, <1>11 DEF Free
  <2>2. Free(j) /\ CanContinue(j)
    BY <1>2, <1>3, <1>5, <1>11, <2>1, GatewayAssumption DEF Free, CanContinue
  <2>. QED  BY <1>3, <1>13, <2>1, <2>2 DEF IInv, FreeInv
<1>14. TearInv'
  <2>1. TornDown(k) => k \in tainted'
    BY <1>1 DEF Acquire
  <2>2. ASSUME NEW j \in Keys, j # k, TornDown(j), j \in mapped' \/ ~Free(j)'
        PROVE  j \in tainted'
    <3>1. j \in mapped \/ ~Free(j)
      BY <1>2, <1>5, <1>6, <2>2 DEF Free
    <3>. QED  BY <1>3, <2>2, <3>1 DEF IInv, TearInv
  <2>3. ASSUME NEW j \in Keys, TornDown(j)', j \in mapped' \/ ~Free(j)'
        PROVE  j \in tainted'
    <3>1. TornDown(j)
      BY <1>13, <2>3
    <3>. QED  BY <2>1, <2>2, <2>3, <3>1
  <2>. QED  BY <2>3 DEF TearInv
<1>12. HookInv'
  <2>1. hook[k] = None
    BY <1>2 DEF IInv, TypeOK, HookInv, Free
  <2>2. hook' = hook
    BY <1>2, <2>1 DEF IInv, TypeOK
  <2>3. \A j \in Keys : hook[j] # None => hook[j] \in Reqs /\ hook[j] # r
    BY <1>2 DEF IInv, TypeOK, HookInv
  <2>. QED  BY <1>2, <1>5, <1>6, <2>2, <2>3 DEF IInv, HookInv
<1>. QED  BY <1>4, <1>7, <1>8, <1>10, <1>11, <1>12, <1>14 DEF IInv, FreeInv

-----------------------------------------------------------------------------
(* The janitor and the process.                                            *)

\* Nobody has a lease on what the janitor unmaps.
LEMMA ExpireStep ==
  ASSUME IInv, NEW B \in SUBSET Keys, Expire(B) PROVE IInv'
<1> USE DEF argVars, procVars
<1>1. /\ mapped' = mapped \ B /\ janitor = Resting /\ janitor' = [left |-> B, at |-> None]
      /\ UNCHANGED <<pc, key, streaming, created, failed, lease, draining, record, upstream, tainted, hook>>
  BY DEF Expire, Resting
<1>2. \A k \in B : Free(k)
  BY DEF Expire
<1>3. cont' \in [Conts -> ContRecords]
  BY ContType DEF Expire, IInv, TypeOK
<1>4. TypeOK'
  BY <1>1, <1>3 DEF IInv, TypeOK, Expire
<1>5. \A q \in Reqs : lease[q] # None => lease[q] \in Keys \ B
  BY <1>2 DEF IInv, TypeOK, Free
<1>6. \A q \in Reqs : ReqInv(q)' /\ SessionInv(q)'
  BY <1>1, <1>5 DEF IInv, ReqInv, SessionInv
<1>7. Exclusive' /\ HookInv'
  BY <1>1 DEF IInv, Exclusive, HookInv
<1>8. FreeInv'
  BY <1>1 DEF IInv, FreeInv, Free, CanContinue, Discarded
<1>9. ASSUME NEW k \in Keys, TornDown(k)', k \in mapped' \/ ~Free(k)'
      PROVE  k \in tainted'
  <2>1. k \notin B /\ (k \in mapped \/ ~Free(k))
    BY <1>1, <1>2, <1>9 DEF Free
  <2>2. TornDown(k)
    BY <1>1, <1>9, <2>1, GatewayAssumption DEF TornDown, Discarded
  <2>. QED  BY <1>1, <2>1, <2>2 DEF IInv, TearInv
<1>. QED  BY <1>4, <1>6, <1>7, <1>8, <1>9 DEF IInv, TearInv

\* A record or a session goes, or comes, while the requests stand still.
LEMMA BackgroundStep ==
  ASSUME IInv, NEW k \in Keys, TypeOK',
         UNCHANGED <<pc, key, streaming, created, failed, lease, draining, mapped, hook>>,
         \A j \in Keys : TornDown(j)' => TornDown(j),
         tainted \subseteq tainted', record' \subseteq record,
         \A j \in Keys \ {k} : j \in tainted' <=> j \in tainted,
         \A j \in Keys \ {k} : upstream'[j] = upstream[j],
         \/ upstream'[k] = upstream[k]
         \/ TornDown(k)
         \/ k \notin mapped /\ Free(k)
         \/ upstream[k] = "none",
         CanContinue(k)' => \/ CanContinue(k) /\ upstream'[k] = upstream[k]
                            \/ k \in mapped /\ (TornDown(k) \/ upstream[k] = "none")
                            \/ k \in tainted'
  PROVE  IInv'
<1>1. \A q \in Reqs : ReqInv(q)'
  BY DEF IInv, ReqInv
<1>2. Exclusive' /\ HookInv'
  BY DEF IInv, Exclusive, HookInv
<1>3. ASSUME NEW q \in Reqs PROVE SessionInv(q)'
  <2>1. CASE lease[q] = k /\ upstream'[k] # upstream[k]
    <3>1. ~Free(k)
      BY <2>1 DEF Free
    <3>2. CASE TornDown(k)
      <4>1. k \in tainted
        BY <3>1, <3>2 DEF IInv, TearInv
      <4>. QED  BY <2>1, <4>1 DEF SessionInv
    <3>3. CASE upstream[k] = "none"
      BY <2>1, <3>3 DEF IInv, SessionInv
    <3>. QED  BY <2>1, <3>1, <3>2, <3>3
  <2>2. CASE lease[q] # k \/ upstream'[k] = upstream[k]
    <3>1. lease[q] # None => lease[q] \in Keys /\ upstream'[lease[q]] = upstream[lease[q]]
      BY <2>2 DEF IInv, TypeOK
    <3>. QED  BY <3>1 DEF IInv, SessionInv
  <2>. QED  BY <2>1, <2>2
<1>4. FreeInv'
  <2>1. \A j \in Keys : (Free(j)' <=> Free(j)) /\ (Discarded(j)' <=> Discarded(j))
    BY DEF Free, Discarded
  <2>2. ASSUME NEW j \in Keys, Free(j), CanContinue(j)'
        PROVE  upstream'[j] = "whole" \/ j \in tainted' \/ Discarded(j)
    <3>1. CASE j # k
      <4>1. CanContinue(j)
        BY <2>2, <3>1 DEF CanContinue
      <4>. QED  BY <2>2, <3>1, <4>1 DEF IInv, FreeInv
    <3>2. CASE j = k
      <4>1. CASE k \in mapped /\ TornDown(k)
        BY <3>2, <4>1 DEF IInv, TearInv
      <4>2. CASE k \in mapped /\ upstream[k] = "none"
        BY <2>2, <3>2, <4>2 DEF IInv, FreeInv, CanContinue
      <4>3. CASE CanContinue(k) /\ upstream'[k] = upstream[k]
        BY <2>2, <3>2, <4>3 DEF IInv, FreeInv
      <4>. QED  BY <2>2, <3>2, <4>1, <4>2, <4>3
    <3>. QED  BY <3>1, <3>2
  <2>. QED  BY <2>1, <2>2 DEF FreeInv
<1>5. TearInv'
  BY DEF IInv, TearInv, Free
<1>. QED  BY <1>1, <1>2, <1>3, <1>4, <1>5 DEF IInv

LEMMA BackgroundSteps ==
  ASSUME IInv, NEW k \in Keys,
         SweepRecord(k) \/ SweepUpstream(k) \/ LateCreate(k) \/ UpstreamForgets(k)
  PROVE  IInv'
<1> USE DEF argVars, procVars, keyVars
<1>1. UNCHANGED <<pc, key, streaming, created, failed, lease, draining, mapped, hook>>
  BY DEF SweepRecord, SweepUpstream, LateCreate, UpstreamForgets
<1>2. /\ janitor.left \subseteq Keys /\ janitor.at \in Keys \cup {None}
      /\ upstream \in [Keys -> {"none", "empty", "whole", "open", "broken"}]
  BY DEF IInv, TypeOK
<1>3. CASE SweepRecord(k)
  <2>1. /\ janitor' = [left |-> janitor.left \ {k}, at |-> k] /\ k \in janitor.left
        /\ UNCHANGED <<upstream, tainted>> /\ record' \subseteq record
    BY <1>3 DEF SweepRecord, RecordDeleted
  <2>2. TypeOK'
    BY <1>2, <1>3, <2>1 DEF IInv, TypeOK, SweepRecord
  <2>3. \A j \in Keys : TornDown(j)' => TornDown(j)
    BY <1>1, <2>1 DEF TornDown, Discarded
  <2>4. CanContinue(k)' => CanContinue(k)
    BY <1>1, <2>1 DEF CanContinue
  <2>. QED  BY <1>1, <2>1, <2>2, <2>3, <2>4, BackgroundStep
<1>4. CASE SweepUpstream(k)
  <2>1. /\ janitor' = [janitor EXCEPT !.at = None] /\ k = janitor.at
        /\ UNCHANGED <<record, tainted>>
        /\ upstream' = [upstream EXCEPT ![k] = "none"] \/ UNCHANGED upstream
    BY <1>4 DEF SweepUpstream, UpstreamDeleted
  <2>2. TypeOK'
    BY <1>2, <1>4, <2>1 DEF IInv, TypeOK, SweepUpstream
  <2>3. \A j \in Keys : TornDown(j)' => TornDown(j)
    BY <1>1, <1>2, <2>1, <2>2, GatewayAssumption DEF TypeOK, TornDown, Discarded
  <2>4. TornDown(k)
    BY <2>1 DEF TornDown
  <2>5. CanContinue(k)' => (CanContinue(k) /\ upstream'[k] = upstream[k]) \/ k \in mapped
    BY <1>1, <1>2, <2>1 DEF CanContinue
  <2>6. \A j \in Keys \ {k} : upstream'[j] = upstream[j]
    BY <1>2, <2>1
  <2>. QED  BY <1>1, <2>1, <2>2, <2>3, <2>4, <2>5, <2>6, BackgroundStep
<1>5. CASE LateCreate(k) \/ UpstreamForgets(k)
  <2>1. /\ UNCHANGED <<janitor, record>> /\ tainted \subseteq tainted'
        /\ \A j \in Keys \ {k} : (j \in tainted' <=> j \in tainted) /\ upstream'[j] = upstream[j]
        /\ \/ upstream[k] = "none" /\ (k \in record => k \in tainted')
           \/ k \notin mapped /\ Free(k) /\ upstream'[k] = "none"
    BY <1>2, <1>5 DEF LateCreate, UpstreamForgets
  <2>2. TypeOK'
    BY <1>2, <1>5 DEF IInv, TypeOK, LateCreate, UpstreamForgets
  <2>3. \A j \in Keys : TornDown(j)' => TornDown(j)
    BY <1>1, <2>1 DEF TornDown, Discarded
  <2>4. CanContinue(k)' => k \in tainted' \/ (k \in mapped /\ upstream[k] = "none")
    BY <1>1, <2>1 DEF CanContinue
  <2>. QED  BY <1>1, <2>1, <2>2, <2>3, <2>4, BackgroundStep
<1>. QED  BY <1>3, <1>4, <1>5

LEMMA DrainStep ==
  ASSUME IInv, Drain PROVE IInv'
<1> USE DEF argVars, procVars, Manager!Drain
<1>1. TypeOK'
  BY DEF IInv, TypeOK, Drain
<1>2. \A q \in Reqs : ReqInv(q)' /\ SessionInv(q)'
  BY DEF IInv, ReqInv, SessionInv, Drain
<1>3. Exclusive' /\ HookInv'
  BY DEF IInv, Exclusive, HookInv, Drain
<1>4. FreeInv' /\ TearInv'
  BY DEF IInv, FreeInv, TearInv, TornDown, Discarded, Free, CanContinue, Drain
<1>. QED  BY <1>1, <1>2, <1>3, <1>4 DEF IInv

\* A new process finds of each key a whole session, nothing, or a taint.
LEMMA ProcessSteps ==
  ASSUME IInv, Exit \/ Crash PROVE IInv'
<1>1. NewProcess
  BY DEF Exit, Crash
<1>2. /\ tainted' \subseteq Keys /\ tainted \subseteq tainted'
      /\ \A k \in Keys : \/ Free(k) /\ ~Discarded(k)
                         \/ upstream[k] = "whole" \/ k \in tainted'
  <2>1. CASE Exit
    <3>1. \A k \in Keys : Free(k) /\ ~Discarded(k)
      BY <2>1, GatewayAssumption
      DEF Exit, Active, IInv, ReqInv, Free, Holding, Discarded, Teardown
    <3>. QED  BY <2>1, <3>1 DEF Exit, IInv, TypeOK
  <2>2. CASE Crash
    BY <2>2 DEF Crash, IInv, TypeOK
  <2>. QED  BY <2>1, <2>2
<1>3. TypeOK'
  BY <1>1, <1>2, ClockType, ContType DEF IInv, TypeOK, NewProcess, Points, Resting, Manager!Restart
<1>4. \A r \in Reqs : pc'[r] = "idle" /\ key'[r] = None /\ lease'[r] = None /\ ~created'[r]
  BY <1>1 DEF NewProcess, Manager!Restart
<1>5. /\ \A r \in Reqs : ReqInv(r)' /\ SessionInv(r)'
      /\ Exclusive'
  BY <1>4 DEF ReqInv, SessionInv, Exclusive, Holding
<1>6. HookInv'
  BY <1>1, <1>4 DEF NewProcess, HookInv
<1>7. FreeInv'
  <2>1. \A k \in Keys : CanContinue(k)' => CanContinue(k)
    BY <1>1 DEF CanContinue, NewProcess
  <2>. QED  BY <1>1, <1>2, <2>1 DEF IInv, FreeInv, NewProcess
<1>8. TearInv'
  <2>1. \A k \in Keys : k \notin mapped' /\ Free(k)'
    BY <1>1, <1>4, GatewayAssumption DEF NewProcess, Free
  <2>. QED  BY <2>1 DEF TearInv
<1>. QED  BY <1>3, <1>5, <1>6, <1>7, <1>8 DEF IInv

-----------------------------------------------------------------------------
LEMMA ReqSteps ==
  ASSUME IInv, NEW r \in Reqs, ReqStep(r) PROVE IInv'
<1>1. CASE \E k \in Keys, s \in BOOLEAN : Begin(r, k, s)
  BY <1>1, BeginStep
<1>2. CASE Acquire(r) \/ AcquireFails(r)
  BY <1>2, AcquireStep, AcquireFailsStep
<1>3. CASE HandlerStep(r)
  BY <1>3, PrepareStep, SetActivityHookStep, HeadSteps, TailStep,
     ClearActivityStep, ReleaseSteps, DiscardStep DEF HandlerStep
<1>6. CASE DestroyStep(r)
  BY <1>6, DestroySteps
<1>4. CASE TurnStep(r)
  BY <1>4, EventStep, TurnSteps DEF TurnStep
<1>5. CASE TimerStep(r) \/ ContextEnds(r)
  BY <1>5, TimerSteps, ContextStep
<1>. QED  BY <1>1, <1>2, <1>3, <1>4, <1>5, <1>6 DEF ReqStep

\* The inductive invariant of the handlers: what a request knows of the
\* session it holds, what the next one finds of it, and whose hook it has
\* (server.go:172-538, manager.go:529-561).
THEOREM IInvariance == Spec => []IInv
<1>1. ASSUME IInv, [Next]_vars PROVE IInv'
  <2>1. ASSUME NEW r \in Reqs, ReqStep(r) PROVE IInv'
    BY <1>1, <2>1, ReqSteps
  <2>2. ASSUME NEW c \in Conts,
               (\E k \in Keys : Lookup(c, k)) \/ Resolve(c) \/ NotPending(c) \/ TouchActivity(c)
        PROVE  IInv'
    BY <1>1, <2>2, ContinuationSteps
  <2>3. CASE \/ \E B \in SUBSET Keys : Expire(B)
             \/ \E k \in Keys : \/ SweepRecord(k) \/ SweepUpstream(k)
                                \/ LateCreate(k) \/ UpstreamForgets(k)
    BY <1>1, <2>3, ExpireStep, BackgroundSteps
  <2>4. CASE Tick \/ Signal \/ Drain \/ Exit \/ Crash
    BY <1>1, <2>4, TickStep, SignalStep, DrainStep, ProcessSteps
  <2>5. CASE UNCHANGED vars
    <3>1. TypeOK'
      BY <1>1, <2>5 DEF IInv, TypeOK, vars, argVars, procVars, keyVars
    <3>. QED
      BY <1>1, <2>5, <3>1, QuietStep DEF vars, safetyVars, argVars, procVars, keyVars
  <2>. QED  BY <1>1, <2>1, <2>2, <2>3, <2>4, <2>5 DEF Next
<1>. QED  BY <1>1, InitIInv, PTL DEF Spec

\* A reused session lacks a turn only for one of the reasons that LossesAreKnown
\* names, whatever requests, the sweep, the CLI and the process do in between
\* the steps of a discard (server.go:485-519, 231-247, manager.go:424-434).
THEOREM OnlyKnownLosses == Spec => []LossesAreKnown
<1>1. IInv => LossesAreKnown
  <2> SUFFICES ASSUME IInv, NEW r \in Reqs, pc[r] \in {"prepare", "hook", "head"}, ~created[r]
               PROVE  upstream[key[r]] = "whole" \/ key[r] \in tainted
    BY DEF LossesAreKnown
  <2>1. lease[r] # None /\ lease[r] = key[r]
    BY HeldKey DEF Holding
  <2>. QED  BY <2>1 DEF IInv, SessionInv
<1>. QED  BY <1>1, IInvariance, PTL

\* A continuation's touch reaches the stream that has the session, and no
\* other (manager.go:529-561, server.go:237, 361).
THEOREM HooksAreRight == Spec => []HooksFollowLeases
<1>1. IInv => HooksFollowLeases
  BY DEF IInv, TypeOK, HookInv, HooksFollowLeases
<1>. QED  BY <1>1, IInvariance, PTL

-----------------------------------------------------------------------------
(* The use of the session manager.                                         *)

LEMMA ReqStepLeases ==
  ASSUME IInv, NEW r \in Reqs, ReqStep(r) PROVE [Manager!Next]_Manager!vars
<1>1. CASE UNCHANGED <<lease, draining>>
  BY <1>1 DEF Manager!vars
<1>2. CASE Acquire(r)
  <2>1. key[r] \in Keys
    BY <1>2 DEF Acquire, IInv, TypeOK, ReqInv
  <2>. QED  BY <1>2, <2>1 DEF Acquire, Manager!Next
<1>3. CASE PrepareFails(r) \/ Release(r) \/ Discard(r)
  BY <1>3 DEF PrepareFails, Release, Discard, Manager!Next
<1>. QED
  BY <1>1, <1>2, <1>3
  DEF ReqStep, Begin, AcquireFails, HandlerStep, Prepare, SetActivityHook, Head, HeadFails, Tail,
      ClearActivity, TurnStep, Event, TurnSucceeds, TurnFails, TimerStep, ContextEnds, procVars,
      DestroyStep, DestroyRecord, DestroyUpstream

\* The handlers, the janitor and the process use the session manager only as it
\* can be used: each lease is granted once, for a key nobody has, and ended once,
\* by whoever has it, before the process ends or in its crash (server.go:231-247,
\* 485-538, main.go:85-98).
THEOREM LeasesAsPromised == Spec => Manager!Spec
<1>1. Init => Manager!Init
  BY DEF Init
<1>2. ASSUME IInv, [Next]_vars PROVE [Manager!Next]_Manager!vars
  <2>1. ASSUME NEW r \in Reqs, ReqStep(r) PROVE [Manager!Next]_Manager!vars
    BY <1>2, <2>1, ReqStepLeases
  <2>2. CASE Drain
    BY <2>2 DEF Drain, Manager!Next
  <2>3. CASE Exit \/ Crash
    BY <2>3 DEF Exit, Crash, NewProcess, Manager!Next
  <2>4. CASE UNCHANGED <<lease, draining>>
    BY <2>4 DEF Manager!vars
  <2>. QED
    BY <1>2, <2>1, <2>2, <2>3, <2>4
    DEF Next, Lookup, Resolve, NotPending, TouchActivity, Expire, SweepRecord, SweepUpstream,
        LateCreate, UpstreamForgets, Tick, Signal, procVars, vars
<1>. QED  BY <1>1, <1>2, IInvariance, PTL DEF Manager!Spec, Spec
=============================================================================
