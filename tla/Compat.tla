------------------------------- MODULE Compat -------------------------------
(***************************************************************************)
(* The protocol adapters (src/internal/compat): which bodies of the two    *)
(* protocols are accepted, and the one ConversationRequest an accepted one *)
(* becomes.                                                                *)
(*                                                                         *)
(* A body is a record, decoded and with its names trimmed and in lower     *)
(* case.  A text is "" or a name for something that is not blank; the text *)
(* of a message stands for all that is rendered into its turn.  A body's   *)
(* "controls" are what it sets, to a value that asks for something, of the *)
(* fields an adapter may refuse; what an adapter ignores is left out.      *)
(***************************************************************************)
EXTENDS Naturals, Sequences

CONSTANT None

\* OpenAI's unsupported features, and Claude's fields that are not known.
OpenAIUnsupported == {"n", "audio", "structured_outputs", "adaptive_thinking",
                      "thinking_budget", "reasoning.max_tokens", "reasoning.exclude",
                      "strict_schema", "server_tool"}
ClaudeUnsupported == {"max_tokens", "unknown_field", "server_tool"}

Last(s) == s[Len(s)]
Elements(s) == {s[i] : i \in DOMAIN s}
IsSequence(s) == s \in Seq(Elements(s))

\* The elements of s that are wanted, in their order.
Kept(s, wanted) ==
  LET kept[n \in 0..Len(s)] ==
        IF n = 0 THEN <<>>
        ELSE IF s[n] \in wanted THEN Append(kept[n - 1], s[n]) ELSE kept[n - 1]
  IN  kept[Len(s)]

NonEmpty(texts) == Kept(texts, Elements(texts) \ {""})

-----------------------------------------------------------------------------
(* Turns: common.go.                                                       *)

\* An inline image is one of four formats, and what it says it is.
ImageOK(image) ==
  image.url \/ (image.type \in {"png", "jpeg", "gif", "webp"} /\ image.genuine)

ContentOK(message) == \A i \in DOMAIN message.images : ImageOK(message.images[i])

\* LatestUserPrompt and LatestUserTurn succeed.
EndsWithUser(turns) == turns # <<>> /\ Last(turns).role = "user"

AttachmentPlacementOK(turns, allowHistorical) ==
  turns # <<>> =>
    /\ allowHistorical \/ \A i \in 1..Len(turns) - 1 : turns[i].images = <<>>
    /\ Last(turns).role = "user" \/ Last(turns).images = <<>>

\* A prompt is the sequence of the texts in it.
BuildPrompt(turns) == [i \in DOMAIN turns |-> turns[i].text]
LatestUserPrompt(turns) == <<Last(turns).text>>

TurnsOK(turns) == EndsWithUser(turns) /\ AttachmentPlacementOK(turns, TRUE)

-----------------------------------------------------------------------------
(* Chat completions: openai.go.                                            *)

Named(tools, name) == Kept(tools, {t \in Elements(tools) : t.name = name})

\* "auto" is any tool_choice or function_call that restricts nothing; only
\* then is the second looked at.  Otherwise "none", "malformed" or a name.
ToolDirective(body) ==
  IF body.tool_choice # "auto" THEN body.tool_choice ELSE body.function_call

\* Faulty: "none" leaves the standard tools where they are.
StandardToolsDespiteNone(body) ==
  IF ToolDirective(body) \in {"auto", "none"} THEN body.tools
  ELSE Named(body.tools, ToolDirective(body))

StandardTools(body) ==
  CASE ToolDirective(body) = "auto" -> body.tools
    [] ToolDirective(body) = "none" -> <<>>
    [] OTHER -> Named(body.tools, ToolDirective(body))

\* A required tool is a standard one, or the extension's if there is none.
ToolsOK(body) ==
  /\ ToolDirective(body) # "malformed"
  /\ ToolDirective(body) \notin {"auto", "none"} =>
       Named(IF body.tools = <<>> THEN body.x.tools ELSE body.tools, ToolDirective(body)) # <<>>
  /\ "parallel_tool_calls" \in body.controls => StandardTools(body) = <<>>

\* reasoning.enabled is "unset", "yes" or "no".
ReasoningOK(body) ==
  body.reasoning.enabled = "no" => body.effort = "" /\ body.reasoning.effort = ""

ReasoningEffort(body) ==
  IF body.effort # "" THEN body.effort
  ELSE IF body.reasoning.enabled = "yes" /\ body.reasoning.effort = "" THEN "medium"
  ELSE body.reasoning.effort

IsSystem(message) == message.role \in {"system", "developer"}

OpenAITurns(body) ==
  IF body.messages = <<>>
  THEN <<[role |-> "user", text |-> body.prompt, images |-> <<>>]>>
  ELSE Kept(body.messages, {m \in Elements(body.messages) : ~IsSystem(m)})

\* Faulty: only messages of the role "system" make the system prompt.
OpenAISystemStrict(body) ==
  BuildPrompt(Kept(body.messages, {m \in Elements(body.messages) : m.role = "system" /\ m.text # ""}))
    \o NonEmpty(<<body.format>>)

\* The system prompt, as the texts in it; the last is response_format's.
OpenAISystem(body) ==
  BuildPrompt(Kept(body.messages, {m \in Elements(body.messages) : IsSystem(m) /\ m.text # ""}))
    \o NonEmpty(<<body.format>>)

OpenAIOK(body) ==
  /\ body.controls \cap OpenAIUnsupported = {}
  /\ ReasoningOK(body) /\ ToolsOK(body)
  /\ body.messages = <<>> => body.prompt # ""
  /\ \A m \in Elements(body.messages) :
       /\ m.role \in {"system", "developer", "user", "assistant", "tool"}
       /\ ContentOK(m) /\ (IsSystem(m) => m.images = <<>>)
  /\ TurnsOK(OpenAITurns(body))

\* model, or else the first of models.
EffectiveModel(body) ==
  Head(NonEmpty(<<body.model>> \o body.models) \o <<"">>)

ParseOpenAI(body) ==
  [model |-> EffectiveModel(body), system |-> OpenAISystem(body), effort |-> ReasoningEffort(body),
   stream |-> body.stream, turns |-> OpenAITurns(body),
   x |-> [body.x EXCEPT !.tools = StandardTools(body) \o @]]

-----------------------------------------------------------------------------
(* Messages: claude.go.                                                    *)

ClaudeOK(body) ==
  /\ body.controls \cap ClaudeUnsupported = {}
  /\ body.system.images = <<>>
  /\ \A m \in Elements(body.messages) : m.role \in {"user", "assistant"} /\ ContentOK(m)
  /\ TurnsOK(body.messages)

ParseClaude(body) ==
  [model |-> body.model,
   system |-> NonEmpty(<<body.system.text>>),
   effort |-> body.effort, stream |-> body.stream, turns |-> body.messages,
   x |-> [body.x EXCEPT !.tools = body.tools \o @]]

ParseOK(body) == IF body.api = "openai" THEN OpenAIOK(body) ELSE ClaudeOK(body)
Parse(body) == IF body.api = "openai" THEN ParseOpenAI(body) ELSE ParseClaude(body)
=============================================================================
