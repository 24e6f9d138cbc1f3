------------------------------- MODULE Stream -------------------------------
(***************************************************************************)
(* A turn that is streamed (src/internal/httpapi/server.go:540-729): the   *)
(* HTTP handler writes the head of the stream, calls Send, and writes what *)
(* ends it.  In between, and beyond it if Send returns while an event is   *)
(* being handled, the session's callback writes the events to the same     *)
(* response, with no lock between the two.                                 *)
(***************************************************************************)
EXTENDS SendTurn

CONSTANT Options  \* the ways to stream that requests ask for

ASSUME OptionsAssumption ==
  Options \subseteq [openai : BOOLEAN, includeReasoning : BOOLEAN,
                     includeRuntimeEvents : BOOLEAN, includeUsageInStream : BOOLEAN]

VARIABLES
  options,   \* those of this request: the protocol, and part of prepared
  stage,     \* the handler: before Send, in it, or after it
  todo,      \* the frames it still has to write
  out,       \* what has been written: frames, and the events they are of
  errorType  \* why the stream has not ended well, or "none"

streamVars == <<options, stage, todo, out, errorType>>
allVars == <<vars, streamVars>>

Frame(what, n) == [what |-> what, event |-> n]

\* The frames before the first event, and those that end the stream.
HeadFrames(o) == IF o.openai THEN <<"role">> ELSE <<"message_start", "content_block_start">>

GoodEnd(o) ==
  CASE ~o.openai -> <<"content_block_stop", "message_delta", "message_stop">>
    [] o.openai /\ o.includeUsageInStream -> <<"finish", "usage", "done">>
    [] OTHER -> <<"finish", "done">>

BadEnd(o) == IF o.openai THEN <<"error", "done">>
                         ELSE <<"error", "content_block_stop", "message_stop">>

Endings == {"finish", "usage", "done", "error", "content_block_stop", "message_delta",
            "message_stop"}
OwnFrames == Endings \cup {"role", "message_start", "content_block_start"}
FrameNames == OwnFrames \cup {"delta", "reasoning", "x_copilot"}

StreamInit ==
  /\ Init
  /\ options \in Options
  /\ stage = "head" /\ todo = HeadFrames(options)
  /\ out = <<>> /\ errorType = "none"

-----------------------------------------------------------------------------
(* The events.                                                             *)

\* What dispatch is given with an event: text of its own, or a runtime event.
HasDelta(k) == k = "delta"
HasRuntime(k) == k \in Runtime

\* streamRuntimeEvent
PassesOn(k) ==
  /\ HasRuntime(k)
  /\ options.includeRuntimeEvents \/ (k = "reasoning" /\ options.includeReasoning)

\* The frames that the handler of a stream writes for an event of kind k.
EventFrames(k) ==
     (IF k = "delta" THEN <<"delta">> ELSE <<>>)
  \o (IF k = "reasoning" /\ options.openai /\ HasDelta(k) THEN <<"reasoning">> ELSE <<>>)
  \o (IF PassesOn(k) THEN <<"x_copilot">> ELSE <<>>)

\* Faulty: nobody is told of a frame that could not be written.
HandleEventSilently ==
  LET n == Len(log)
      frames == EventFrames(log[n])
  IN /\ callback = "dispatch"
     /\ \E written \in 0..Len(frames) :
          /\ out' = out \o [j \in 1..written |-> Frame(frames[j], n)]
          /\ Accept
     /\ UNCHANGED <<options, stage, todo, errorType>>

\* The handler writes them in turn; the first that fails makes it fail.
HandleEvent ==
  LET n == Len(log)
      frames == EventFrames(log[n])
  IN /\ callback = "dispatch"
     /\ \E written \in 0..Len(frames) :
          /\ out' = out \o [j \in 1..written |-> Frame(frames[j], n)]
          /\ IF written = Len(frames) THEN Accept ELSE Refuse
     /\ UNCHANGED <<options, stage, todo, errorType>>

-----------------------------------------------------------------------------
(* The handler's own frames.                                               *)

Written ==
  /\ todo # <<>>
  /\ out' = Append(out, Frame(Head(todo), 0))
  /\ todo' = Tail(todo)
  /\ UNCHANGED <<vars, options, stage, errorType>>

\* After an error, and of OpenAI's last frame, a failure is ignored.
Forgiven == stage = "tail" /\ (errorType # "none" \/ Head(todo) = "done")

WriteFails ==
  /\ todo # <<>>
  /\ IF Forgiven THEN todo' = Tail(todo) /\ UNCHANGED errorType
                 ELSE todo' = <<>> /\ errorType' = "stream_write_error"
  /\ UNCHANGED <<vars, options, stage, out>>

CallSend ==
  /\ stage = "head" /\ todo = <<>> /\ errorType = "none"
  /\ stage' = "turn"
  /\ UNCHANGED <<vars, options, todo, out, errorType>>

SendReturns ==
  /\ stage = "turn" /\ pc = "returned"
  /\ stage' = "tail"
  /\ IF result.outcome = "ok"
     THEN todo' = GoodEnd(options) /\ UNCHANGED errorType
     ELSE todo' = BadEnd(options) /\ errorType' = "send_error"
  /\ UNCHANGED <<vars, options, out>>

HandlerStep == Written \/ WriteFails \/ CallSend \/ SendReturns

-----------------------------------------------------------------------------
InSend(A) == stage # "head" /\ A /\ UNCHANGED streamVars

CallbackGoesOn == \/ HandleEvent
                  \/ InSend(CancelByHandler) \/ InSend(CancelBySession)
                  \/ InSend(Report) \/ InSend(CheckCause)

StreamNext ==
  \/ HandlerStep \/ InSend(CallerStep) \/ CallbackGoesOn
  \/ InSend(RpcReturns) \/ InSend(ContextEnds)
  \/ (\E k \in Kinds : InSend(Deliver(k))) \/ InSend(DeliverIdle)

StreamSpec == StreamInit /\ [][StreamNext]_allVars

\* The goroutines of the gateway run on, as each write has a deadline unless the
\* timeouts are configured away.  Nothing makes the CLI answer or send events, or
\* the context end.
StreamFairSpec ==
  StreamSpec /\ WF_allVars(HandlerStep) /\ WF_allVars(InSend(CallerStep))
             /\ WF_allVars(CallbackGoesOn)

-----------------------------------------------------------------------------
Over == todo = <<>> /\ (stage = "tail" \/ errorType # "none")

\* The first frame that ends the stream, and the deltas a client finds before it.
EndsAt(j) == out[j].what \in Endings /\ \A l \in 1..j-1 : out[l].what \notin Endings
ShownBefore(j) == {out[l].event : l \in {l \in 1..j : out[l].what = "delta"}}

\* A stream that is reported to have ended well shows its client, before the frame
\* that ends it, each delta up to the idle event, in their order and once; and so
\* does the result of the turn, unless it is a whole message.  Stream and result
\* part over later deltas only: one that comes while Send leaves is shown though
\* the result lacks it (server.go:561-608; copilot.go:647, 703-722).
StreamIsWhole ==
  stage = "tail" /\ errorType = "none" =>
    \A j \in 1..Len(out) : EndsAt(j) =>
      /\ \E i \in 1..Len(log) :
           /\ log[i] = "idle" /\ Places("delta", i) \subseteq ShownBefore(j)
           /\ \/ Places("delta", i) \subseteq result.text
              \/ result.text \subseteq Places("message", Len(log))
      /\ ShownBefore(j) \subseteq Places("delta", Len(log))
      /\ \A l, m \in 1..j : /\ l < m /\ out[l].event # 0 /\ out[m].event # 0
                            => out[l].event < out[m].event

\* Send does not wait for the event that is being handled when it returns.  Its
\* frame may follow those that end the stream, even the last; but no frame of
\* any other event does (copilot.go:647).
LateFramesAreOfOneEvent ==
  \A j, l \in 1..Len(out) :
    j < l /\ out[j].what \in Endings /\ out[l].event # 0 => out[l].event = Len(log)

\* A write that fails and a session error end the stream, and with it the request,
\* though the CLI may never answer the call that handed it the prompt
\* (copilot.go:395-402, 618-625, 678-701).
FailureEndsStream == refused # {} \/ Places("error", Len(log)) # {} ~> Over

\* So does the idle event, whether it comes before the caller waits for it or
\* after, once that call has returned.
IdleEndsStream == Places("idle", Len(log)) # {} /\ rpc = "returned" ~> Over

\* "Streamed responses also mirror reasoning_delta to the standard
\* delta.reasoning" (README.md:70).
ReasoningIsMirrored ==
  Over /\ options.openai /\ errorType = "none" =>
    \A n \in Places("reasoning", Len(log)) :
      (\E i \in n..Len(log) : log[i] = "idle") =>
        \E j \in 1..Len(out) : out[j] = Frame("reasoning", n)

\* The inductive invariant of the two properties that hold, over IInv: the frames
\* are those of the events that have been handled, in their order, and the handler
\* of the stream ends it after Send has returned.
StreamTypes ==
  /\ options \in Options
  /\ stage \in {"head", "turn", "tail"}
  /\ todo \in Seq(OwnFrames) /\ out \in Seq([what : FrameNames, event : Nat])

EventFramesInv ==
  /\ \A j \in 1..Len(out) :
       /\ out[j].event \in 0..Len(log)
       /\ callback = "dispatch" => out[j].event # Len(log)
       /\ out[j].what = "delta" => out[j].event \in Places("delta", Len(log))
  /\ \A j, l \in 1..Len(out) :
       j < l /\ out[j].event # 0 /\ out[l].event # 0 => out[j].event < out[l].event
  /\ \A n \in Places("delta", Len(log)) \ refused :
       \/ callback = "dispatch" /\ n = Len(log)
       \/ \E j \in 1..Len(out) : out[j] = Frame("delta", n)

StageInv ==
  /\ stage = "head" => \A j \in 1..Len(todo) : todo[j] \notin Endings
  /\ stage = "turn" => todo = <<>>
  /\ stage # "tail" => \A j \in 1..Len(out) : out[j].what \notin Endings
  /\ stage = "tail" => pc = "returned" /\ (errorType = "none" => result.outcome = "ok")

StreamInv ==
  StreamTypes /\ EventFramesInv /\ StageInv /\ StreamIsWhole /\ LateFramesAreOfOneEvent
=============================================================================
