----------------------------- MODULE MCRequests -----------------------------
(* An instance of Requests for TLC: bodies that differ from a plain one in  *)
(* what the checks, the specification and the message look at.              *)
EXTENDS Requests

NoImages == <<>>
Png == [url |-> FALSE, type |-> "png", genuine |-> TRUE, size |-> 1]
Linked == [url |-> TRUE, type |-> "", genuine |-> FALSE, size |-> 0]
User(text) == [role |-> "user", text |-> text, images |-> NoImages]
Showing(image) == [User("look") EXCEPT !.images = <<image>>]

Tool(name) == [name |-> name, object |-> TRUE]
Azure == [type |-> "azure", wire |-> "", host |-> "gateway.openai.azure.com", version |-> "v1",
          key |-> "old", token |-> ""]

NoExtension == [agent |-> "", mode |-> "", sections |-> {}, interactive |-> FALSE,
                permission |-> "", tools |-> <<>>, attachments |-> 0, provider |-> None]
Chat == [api |-> "openai", controls |-> {}, effort |-> "", tool_choice |-> "auto",
         reasoning |-> [enabled |-> "unset", effort |-> ""], function_call |-> "auto",
         tools |-> <<>>, messages |-> <<User("hello")>>, prompt |-> "", format |-> "",
         stream |-> TRUE, model |-> "", models |-> <<>>, x |-> NoExtension]
Claude == [api |-> "claude", controls |-> {}, system |-> [text |-> "", images |-> NoImages],
           messages |-> <<User("hello")>>, tools |-> <<>>, effort |-> "", stream |-> TRUE,
           model |-> "", x |-> NoExtension]
With(x) == [Chat EXCEPT !.x = x]

\* Histories, with what becomes the system message.
Says(role, text) == [role |-> role, text |-> text, images |-> NoImages]
Histories == {
  [Chat EXCEPT !.messages = <<Says("developer", "rules"), User("hi"), Says("assistant", "yes"), User("so")>>],
  [Chat EXCEPT !.messages = <<Says("system", "rules"), User("hi")>>, !.format = "json"],
  [Chat EXCEPT !.messages = <<>>, !.prompt = "hello", !.stream = FALSE],
  [Chat EXCEPT !.messages = <<>>],
  [Chat EXCEPT !.messages = <<User("hi"), Says("assistant", "yes")>>],
  [Claude EXCEPT !.messages = <<User("hi"), Says("assistant", "yes"), User("so")>>],
  [Claude EXCEPT !.system.text = "rules"],
  [Claude EXCEPT !.controls = {"max_tokens"}]}

\* Standard tools, and what is said of their choice.
Tools == {
  [Chat EXCEPT !.tools = <<Tool("a"), Tool("b")>>, !.x.tools = <<Tool("c")>>,
               !.tool_choice = c, !.function_call = f]
    : c \in {"auto", "none", "a", "c"}, f \in {"auto", "b"}}
  \cup {[Chat EXCEPT !.tools = <<Tool("b"), Tool("a")>>, !.x.tools = <<Tool("c")>>],
        [Chat EXCEPT !.tools = <<Tool("a")>>, !.tool_choice = "none",
                     !.controls = {"parallel_tool_calls"}],
        [Chat EXCEPT !.tools = <<Tool("a")>>, !.tool_choice = "none", !.stream = FALSE],
        [Chat EXCEPT !.tools = <<Tool("a")>>, !.stream = FALSE],
        [Chat EXCEPT !.x.tools = <<Tool("c")>>, !.tool_choice = "c"],
        [Claude EXCEPT !.tools = <<Tool("a")>>, !.x.tools = <<Tool("c")>>]}

\* Images and the model's capabilities.
Efforts == {[Chat EXCEPT !.effort = "high", !.model = m] : m \in {"", "sharp", "blind"}}
  \cup {[Chat EXCEPT !.reasoning = [enabled |-> e, effort |-> ""], !.model = "sharp"] : e \in {"yes", "no"}}
  \cup {[Chat EXCEPT !.models = <<"", "sharp">>]}
Pictured == {[Chat EXCEPT !.messages = <<Showing(image)>>, !.model = m]
              : image \in {Png, Linked, [Png EXCEPT !.size = 2], [Png EXCEPT !.type = "gif"]},
                m \in {"sharp", "blind", "other"}}
  \cup {[Chat EXCEPT !.messages = <<[User("see") EXCEPT !.images = <<Png, Linked>>]>>, !.model = "sharp"],
        [Chat EXCEPT !.messages = <<Showing(Linked), User("hi")>>, !.model = "sharp"],
        [Chat EXCEPT !.messages = <<Showing(Linked)>>, !.x.provider = Azure],
        [Chat EXCEPT !.messages = <<Showing(Png), Says("system", "rules")>>, !.model = "sharp"],
        [Claude EXCEPT !.messages = <<User("hi"), Showing(Png)>>, !.model = "sharp"]}

\* The extension.
Extended ==
  {With([NoExtension EXCEPT !.permission = p]) : p \in Modes \cup {"inherit", "typo"}}
  \cup {[Chat EXCEPT !.stream = FALSE, !.x.permission = p] : p \in {"", "bridge", "deny"}}
  \cup {With([NoExtension EXCEPT !.agent = a]) : a \in {"scout", "clerk", "ghost"}}
  \cup {With([NoExtension EXCEPT !.interactive = TRUE]), With([NoExtension EXCEPT !.mode = "replace"]),
        With([NoExtension EXCEPT !.mode = "customize"])}
  \cup {With([NoExtension EXCEPT !.mode = "customize", !.sections = s]) : s \in {{"tone"}, {"safety"}}}
  \cup {With([NoExtension EXCEPT !.attachments = n]) : n \in {1, 2}}
  \cup {With([NoExtension EXCEPT !.provider = p])
          : p \in {Azure, [Azure EXCEPT !.key = "new"], [Azure EXCEPT !.type = "anthropic"],
                   [Azure EXCEPT !.host = "private"]}}

MCBodies == {Chat, Claude} \cup Histories \cup Tools \cup Efforts \cup Pictured \cup Extended

\* What the process may be started with.
Plain == [malformed |-> FALSE, permission |-> "", agents |-> <<>>, agent |-> "", private |-> FALSE,
          model |-> "", keys |-> <<>>]
Agent(name) == [name |-> name, prompt |-> "prompt"]
Staffed == [Plain EXCEPT !.permission = "bridge", !.agents = <<Agent("scout"), Agent("clerk")>>,
                         !.agent = "scout"]
MCEnvironments ==
  {Plain, Staffed, [Plain EXCEPT !.agent = "scout"], [Plain EXCEPT !.permission = "allow", !.private = TRUE, !.model = "sharp"],
   [Staffed EXCEPT !.agents = <<Agent("clerk")>>],
   [Plain EXCEPT !.keys = <<[label |-> "team", secret |-> "other-key"]>>],
   [Plain EXCEPT !.malformed = TRUE]}

Capable == [effort |-> TRUE, efforts |-> {"medium", "high"}, vision |-> TRUE,
            limits |-> [images |-> 1, types |-> {"png"}, size |-> 1]]
MCModels == [m \in {"default", "sharp", "blind"} |->
               IF m = "sharp" THEN Capable
               ELSE IF m = "blind" THEN [Capable EXCEPT !.vision = FALSE, !.efforts = {}]
               ELSE [Capable EXCEPT !.effort = FALSE, !.limits = None]]

MCFetched == {[type |-> "png", size |-> 1], [type |-> "png", size |-> 2], [type |-> "gif", size |-> 1]}
=============================================================================
