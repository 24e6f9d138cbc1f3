----------------------------- MODULE Admission ------------------------------
(***************************************************************************)
(* What the gateway makes of a ConversationRequest before it touches a     *)
(* session (src/internal/httpapi/server.go), under the settings of the     *)
(* process (src/internal/config/config.go): whether it is admitted, the    *)
(* specification it asks of the session, and what the session is           *)
(* configured with if it is made for the request                           *)
(* (src/internal/runtime/copilot.go).                                      *)
(*                                                                         *)
(* A check that fails ends the request, and which one does makes no        *)
(* difference but in the wording of the answer: the checks are conjuncts.  *)
(***************************************************************************)
EXTENDS Compat

CONSTANT Models  \* what ListModels returns, by model

\* The modes of permission of the settings, from strict to lax.
Modes == {"deny", "bridge", "allow"}

-----------------------------------------------------------------------------
(* Settings: config.Load.  "malformed" says that one of the variables that *)
(* must be a number, a duration, a Boolean or JSON is not.                 *)

\* Faulty: nobody looks for the default agent among the agents.
AgentsOKButDefault(env) ==
  \A i \in DOMAIN env.agents :
    /\ env.agents[i].name # "" /\ env.agents[i].prompt # ""
    /\ \A j \in DOMAIN env.agents : env.agents[i].name = env.agents[j].name => i = j

AgentsOK(env) ==
  /\ \A i \in DOMAIN env.agents :
       /\ env.agents[i].name # "" /\ env.agents[i].prompt # ""
       /\ \A j \in DOMAIN env.agents : env.agents[i].name = env.agents[j].name => i = j
  /\ env.agent # "" => \E a \in Elements(env.agents) : a.name = env.agent

KeysOK(env) == \A k \in Elements(env.keys) : k.label # "" /\ k.secret # ""

LoadOK(env) ==
  /\ ~env.malformed /\ env.permission \in Modes \cup {""}
  /\ AgentsOK(env) /\ KeysOK(env)

Load(env) ==
  [model |-> IF env.model = "" THEN "default" ELSE env.model,
   permission |-> IF env.permission = "" THEN "deny" ELSE env.permission,
   agents |-> {a.name : a \in Elements(env.agents)}, agent |-> env.agent,
   private |-> env.private,
   secrets |-> IF env.keys = <<>> THEN {"test-key"} ELSE {k.secret : k \in Elements(env.keys)}]

-----------------------------------------------------------------------------
(* What a request asks for, under the settings.                            *)

Rank(mode) == IF mode = "allow" THEN 2 ELSE IF mode = "bridge" THEN 1 ELSE 0

\* Faulty: what the request asks for is what it gets.
PermissionAsAsked(cfg, c) ==
  c.x.permission \in Modes \cup {"", "inherit"}

PermissionOK(cfg, c) ==
  /\ c.x.permission \in Modes \cup {"", "inherit"}
  /\ c.x.permission \in Modes => Rank(c.x.permission) <= Rank(cfg.permission)

EffectivePermission(cfg, c) ==
  IF c.x.permission \in Modes THEN c.x.permission ELSE cfg.permission

EffectiveMode(c) == IF c.x.mode = "" THEN "append" ELSE c.x.mode
EffectiveAgent(cfg, c) == IF c.x.agent # "" THEN c.x.agent ELSE cfg.agent
ResolveModel(cfg, c) == IF c.model # "" THEN c.model ELSE cfg.model

\* Faulty: the mode of permission counts only if the request names it.
RequiresContinuationIfNamed(cfg, c) ==
  c.x.interactive \/ c.x.tools # <<>> \/ c.x.permission = "bridge"

\* The session may ask the client for something in the middle of a turn.
RequiresContinuation(cfg, c) ==
  c.x.interactive \/ c.x.tools # <<>> \/ EffectivePermission(cfg, c) = "bridge"

-----------------------------------------------------------------------------
(* Providers: toRuntimeProvider, validateProviderBaseURL.                  *)

ProviderType(p) == IF p.type = "" THEN "openai" ELSE p.type
WireAPI(p) == IF ProviderType(p) # "anthropic" /\ p.wire = "" THEN "completions" ELSE p.wire

Trusted == [openai |-> {"api.openai.com"}, anthropic |-> {"api.anthropic.com"},
            azure |-> {"gateway.openai.azure.com"}]

\* A host is a name, or "public" or "private" for the two kinds of address.
ProviderOK(cfg, p) ==
  /\ p.host # "" /\ ProviderType(p) \in {"openai", "azure", "anthropic"}
  /\ cfg.private \/ p.host \in {"public"} \cup Trusted[ProviderType(p)]
  /\ WireAPI(p) \in IF ProviderType(p) = "anthropic" THEN {""} ELSE {"completions", "responses"}
  /\ p.version # "" => ProviderType(p) = "azure"

\* The two fingerprints.
PublicPart(p) == [type |-> ProviderType(p), wire |-> WireAPI(p), host |-> p.host, version |-> p.version]
SecretPart(p) == [key |-> p.key, token |-> p.token]

-----------------------------------------------------------------------------
(* validateConversationFeatures.                                           *)

Images(turns) == Last(turns).images

\* A limit of 0 and an empty set of types limit nothing.
SizeOK(model, image) ==
  LET vision == model.limits IN vision.size > 0 => image.size <= vision.size
TypeAllowed(model, image) ==
  LET vision == model.limits IN vision.types # {} => image.type \in vision.types

ImagesFit(model, shown) ==
  model.limits # None =>
    \A image \in Elements(shown) : TypeAllowed(model, image) /\ SizeOK(model, image)

\* Types and sizes wait until all images are there.
VisionOK(model, shown) ==
  /\ model.vision
  /\ model.limits # None =>
       /\ model.limits.images > 0 => Len(shown) <= model.limits.images
       /\ (\A image \in Elements(shown) : ~image.url) => ImagesFit(model, shown)

EffortOK(model, effort) ==
  model.effort /\ (model.efforts # {} => effort \in model.efforts)

\* The model is asked for its capabilities.
NeedsModel(c) ==
  (c.effort # "" \/ \E t \in Elements(c.turns) : t.images # <<>>) /\ c.x.provider = None

CapabilitiesOK(cfg, c) ==
  LET id == ResolveModel(cfg, c) IN
  /\ id \in DOMAIN Models
  /\ c.effort # "" => EffortOK(Models[id], c.effort)
  /\ Images(c.turns) # <<>> => VisionOK(Models[id], Images(c.turns))

FeaturesOK(cfg, c) ==
  /\ EffectiveMode(c) \in {"append", "replace", "customize"}
  /\ EffectiveMode(c) = "replace" => c.system # <<>>
  /\ EffectiveMode(c) = "customize" => c.x.sections # {}
  /\ c.x.agent # "" => c.x.agent \in cfg.agents
  /\ RequiresContinuation(cfg, c) => c.stream
  /\ \A t \in Elements(c.x.tools) : t.name # "" /\ t.object
  /\ AttachmentPlacementOK(c.turns, FALSE)
  /\ NeedsModel(c) => CapabilitiesOK(cfg, c)

\* prepareConversation, up to Acquire; id is the request's session id.
Admitted(cfg, c, id) ==
  /\ PermissionOK(cfg, c)
  /\ RequiresContinuation(cfg, c) => id # ""
  /\ FeaturesOK(cfg, c)
  /\ c.x.provider # None => ProviderOK(cfg, c.x.provider)

-----------------------------------------------------------------------------
(* Specifications, and what sessions are made with.                        *)

\* Tools are compared without regard to their order.
Bag(s) == [e \in Elements(s) |-> Len(SelectSeq(s, LAMBDA d : d = e))]

\* Faulty: the provider's credentials are not part of the specification.
SpecWithoutSecret(cfg, c) ==
  [model |-> ResolveModel(cfg, c), system |-> c.system, mode |-> EffectiveMode(c),
   effort |-> c.effort, agent |-> EffectiveAgent(cfg, c), interactive |-> c.x.interactive,
   tools |-> Bag(c.x.tools), permission |-> EffectivePermission(cfg, c),
   provider |-> IF c.x.provider = None THEN None ELSE PublicPart(c.x.provider), secret |-> None]

\* session.Spec
Spec(cfg, c) ==
  [model |-> ResolveModel(cfg, c), system |-> c.system, mode |-> EffectiveMode(c),
   effort |-> c.effort, agent |-> EffectiveAgent(cfg, c), interactive |-> c.x.interactive,
   tools |-> Bag(c.x.tools), permission |-> EffectivePermission(cfg, c),
   provider |-> IF c.x.provider = None THEN None ELSE PublicPart(c.x.provider),
   secret |-> IF c.x.provider = None THEN None ELSE SecretPart(c.x.provider)]

\* Faulty: what may be permitted is not stored.
SpecForStorageUnpermitted(s) == [s EXCEPT !.secret = None, !.permission = "deny"]

SpecForStorage(s) == [s EXCEPT !.secret = None]

SystemMessage(mode, system) ==
  IF mode = "customize" \/ system # <<>> THEN [mode |-> mode, content |-> system] ELSE None

\* NewSession and ResumeSession: the session's configuration is that of the
\* request, whether the CLI makes the session or has it.
Config(cfg, c) ==
  [model |-> ResolveModel(cfg, c), effort |-> c.effort,
   message |-> SystemMessage(EffectiveMode(c), c.system),
   sections |-> IF EffectiveMode(c) = "customize" THEN c.x.sections ELSE {},
   agent |-> EffectiveAgent(cfg, c), asksUser |-> c.x.interactive, tools |-> Bag(c.x.tools),
   permissionHandler |-> EffectivePermission(cfg, c),
   provider |-> IF c.x.provider = None THEN None ELSE PublicPart(c.x.provider),
   secret |-> IF c.x.provider = None THEN None ELSE SecretPart(c.x.provider)]
=============================================================================
