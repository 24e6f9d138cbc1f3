------------------------------ MODULE Requests ------------------------------
(***************************************************************************)
(* A request from its body to its turn, through restarts of the process    *)
(* with other settings: what it is given of a session that an earlier      *)
(* request made, or an earlier process.                                    *)
(*                                                                         *)
(* One request is in work at a time, for what happens to it depends on     *)
(* others only through the sessions they leave, and a session is one       *)
(* request's at a time (SessionManager).  What else may end a session --   *)
(* expiry, a DELETE, a request that failed -- is Destroy.                  *)
(***************************************************************************)
EXTENDS Admission

CONSTANTS
  Environments,  \* environments the process is started in
  Bodies,        \* bodies of requests
  Tokens, Ids,   \* API keys and session ids clients present; "" is no id
  Fetched,       \* what may be found at the URL of an image
  Dirs           \* the names of temporary directories

VARIABLES
  settings,       \* the settings of the running process, or None
  sessions,  \* Manager.sessions: by key, None or specification and configuration
  record,    \* the durable record's specification, by key, or None
  upstream,  \* what the CLI was last told to configure the session with, or None
  pc, posted, key,  \* the request's control point and arguments
  held,      \* its session, with Lease.Created
  images,    \* the images of its turn, materialized
  files,     \* how many of x_copilot.attachments are written
  dir,       \* the temporary directory the request has for them, or None
  dirs,      \* the directories on disk
  stray      \* (history) those of requests in work when a process stopped, and
             \* those the system would not remove

storeVars   == <<sessions, record, upstream>>
fileVars    == <<files, dir, dirs, stray>>
requestVars == <<pc, posted, key, held, images, fileVars>>
vars == <<settings, storeVars, requestVars>>

Keys == Tokens \X (Ids \ {""})
Settings == {Load(env) : env \in {e \in Environments : LoadOK(e)}}
Accepted == {b \in Bodies : ParseOK(b)}
Specs   == {Spec(s, Parse(b)) : s \in Settings, b \in Accepted}
Configs == {Config(s, Parse(b)) : s \in Settings, b \in Accepted}
Stored  == {SpecForStorage(s) : s \in Specs}
Sessions == [spec : Specs, config : Configs]
Pictures == [type : STRING, size : Nat]

Conversation == Parse(posted)
Wanted == Spec(settings, Conversation)
WantedImages == Images(Conversation.turns)
Persistent == key \in Keys

\* What the provers need to know of the inputs.
ASSUME RequestsAssumption ==
  /\ None \notin Sessions \cup Stored \cup Dirs /\ Fetched \subseteq Pictures
  /\ \A b \in Accepted :
       /\ Images(Parse(b).turns) \in Seq([url : BOOLEAN, type : STRING, genuine : BOOLEAN, size : Nat])
       /\ IsSequence(b.messages) /\ IsSequence(b.tools) /\ IsSequence(b.x.tools)
       /\ "tools" \in DOMAIN b.x
       /\ b.x.provider # None => PublicPart(b.x.provider) # None
       /\ [mode |-> EffectiveMode(Parse(b)), content |-> Parse(b).system] # None

Init ==
  /\ settings = None /\ sessions = [k \in Keys |-> None]
  /\ record = [k \in Keys |-> None] /\ upstream = [k \in Keys |-> None]
  /\ pc = "idle" /\ posted = None /\ key = None /\ held = None
  /\ images = <<>> /\ files = 0 /\ dir = None /\ dirs = {} /\ stray = {}

-----------------------------------------------------------------------------
(* The process and the CLI's sessions.                                     *)

\* Nothing of the request is left in memory.
Ends ==
  /\ pc' = "idle" /\ posted' = None /\ key' = None /\ held' = None
  /\ images' = <<>> /\ files' = 0 /\ dir' = None

\* What becomes of its directory, if it has one.
Removed == dirs' = dirs \ {dir} /\ UNCHANGED stray
LeftBehind == stray' = stray \cup ({dir} \ {None}) /\ UNCHANGED dirs

\* The handler returns: the deferred cleanup runs, and its error is ignored.
Done == Ends /\ (Removed \/ LeftBehind)

Start(env) ==
  /\ settings = None /\ LoadOK(env)
  /\ settings' = Load(env)
  /\ UNCHANGED <<storeVars, requestVars>>

\* Shutdown, or a crash: no deferred call runs.
Stop ==
  /\ settings # None
  /\ settings' = None /\ sessions' = [k \in Keys |-> None] /\ Ends /\ LeftBehind
  /\ UNCHANGED <<record, upstream>>

\* destroyPersistentSession: each of the two deletions may fail.
DestroyPersistent(k) ==
  /\ sessions' = [sessions EXCEPT ![k] = None]
  /\ record' \in {record, [record EXCEPT ![k] = None]}
  /\ upstream' \in {upstream, [upstream EXCEPT ![k] = None]}

Destroy(k) ==
  /\ sessions[k] # None /\ (pc \in {"idle", "received"} \/ k # key)
  /\ DestroyPersistent(k)
  /\ UNCHANGED <<settings, requestVars>>

\* The CLI forgets a session.
Forget(k) ==
  /\ upstream[k] # None
  /\ upstream' = [upstream EXCEPT ![k] = None]
  /\ UNCHANGED <<settings, sessions, record, requestVars>>

-----------------------------------------------------------------------------
(* Admission.                                                              *)

\* Authenticated, decoded, and with a session id that is in order.
Receive(b, token, id) ==
  /\ settings # None /\ pc = "idle" /\ token \in settings.secrets
  /\ pc' = "received" /\ posted' = b /\ key' = <<token, id>>
  /\ UNCHANGED <<settings, storeVars, held, images, fileVars>>

Granted == Admitted(settings, Conversation, key[2])

\* A check fails, or ListModels does.
Refuse ==
  /\ pc = "received" /\ (~Granted \/ NeedsModel(Conversation))
  /\ Done
  /\ UNCHANGED <<settings, storeVars>>

-----------------------------------------------------------------------------
(* Acquire.                                                                *)

Hold(config, created) ==
  /\ held' = [spec |-> Wanted, config |-> config, created |-> created]
  /\ pc' = "held"
  /\ UNCHANGED <<settings, posted, key, images, fileVars>>

AcquireEphemeral ==
  /\ pc = "received" /\ Granted /\ ~Persistent
  /\ Hold(Config(settings, Conversation), TRUE)
  /\ UNCHANGED storeVars

\* What Acquire does when the key has no entry, and then if the key has a
\* record that is as the request wants it.
Missing == pc = "received" /\ Granted /\ Persistent /\ sessions[key] = None
Matches == record[key] = SpecForStorage(Wanted)

Reuse ==
  /\ pc = "received" /\ Granted /\ Persistent
  /\ sessions[key] # None /\ sessions[key].spec = Wanted
  /\ Hold(sessions[key].config, FALSE)
  /\ UNCHANGED storeVars

ConflictMapped ==
  /\ pc = "received" /\ Granted /\ Persistent
  /\ sessions[key] # None /\ sessions[key].spec # Wanted
  /\ Done
  /\ UNCHANGED <<settings, storeVars>>

\* removeStoredSession stops at the first deletion that fails.
RemoveStored ==
  \/ UNCHANGED <<record, upstream>>
  \/ record' = [record EXCEPT ![key] = None] /\ UNCHANGED upstream
  \/ /\ record' = [record EXCEPT ![key] = None]
     /\ upstream' = [upstream EXCEPT ![key] = None]

ConflictStored ==
  /\ Missing /\ record[key] # None /\ ~Matches
  /\ RemoveStored /\ Done
  /\ UNCHANGED <<settings, sessions>>

\* Faulty: the store is given the secrets too.
EnterWithSecrets(config) ==
  /\ sessions' = [sessions EXCEPT ![key] = [spec |-> Wanted, config |-> config]]
  /\ record' = [record EXCEPT ![key] = Wanted]
  /\ upstream' = [upstream EXCEPT ![key] = config]

\* A session with this configuration enters the table and the store.
Enter(config) ==
  /\ sessions' = [sessions EXCEPT ![key] = [spec |-> Wanted, config |-> config]]
  /\ record' = [record EXCEPT ![key] = SpecForStorage(Wanted)]
  /\ upstream' = [upstream EXCEPT ![key] = config]

Resume ==
  /\ Missing /\ Matches /\ upstream[key] # None
  /\ Enter(Config(settings, Conversation)) /\ Hold(Config(settings, Conversation), FALSE)

\* There is no record, or it has expired, or the CLI does not know the session.
Create ==
  /\ Missing /\ (record[key] # None => Matches)
  /\ Enter(Config(settings, Conversation)) /\ Hold(Config(settings, Conversation), TRUE)

\* The store or the CLI fails: before anything is done, while an expired
\* record is removed or after it, or when the session made is to be recorded.
AcquireFails ==
  /\ pc = "received" /\ Granted /\ Done
  /\ UNCHANGED <<settings, sessions>>
  /\ \/ UNCHANGED <<record, upstream>>
     \/ Missing /\ (record[key] # None => Matches) /\ RemoveStored
     \/ /\ Missing /\ (record[key] # None => Matches)
        /\ \/ record' = [record EXCEPT ![key] = None]
           \/ upstream[key] # None /\ UNCHANGED record
        /\ upstream' = [upstream EXCEPT ![key] = Config(settings, Conversation)]

-----------------------------------------------------------------------------
(* The message: prepareConversation after Acquire.  Whatever fails here    *)
(* leaves the session to the next request.                                 *)

FetchImages ==
  /\ pc = "held"
  /\ \E found \in [{i \in DOMAIN WantedImages : WantedImages[i].url} -> Fetched] :
       images' = [i \in DOMAIN WantedImages |->
                    IF WantedImages[i].url THEN found[i]
                    ELSE [type |-> WantedImages[i].type, size |-> WantedImages[i].size]]
  /\ pc' = "images"
  /\ UNCHANGED <<settings, storeVars, posted, key, held, fileVars>>

FetchFails ==
  /\ pc = "held" /\ \E i \in DOMAIN WantedImages : WantedImages[i].url
  /\ Done
  /\ UNCHANGED <<settings, storeVars>>

\* materializeCopilotAttachments
MakeDir ==
  /\ pc = "images"
  /\ IF Conversation.x.attachments = 0 THEN UNCHANGED <<dir, dirs>>
     ELSE \E d \in Dirs \ dirs : dir' = d /\ dirs' = dirs \cup {d}
  /\ pc' = "files"
  /\ UNCHANGED <<settings, storeVars, posted, key, held, images, files, stray>>

\* There is no directory to be had.
MakeDirFails ==
  /\ pc = "images" /\ Conversation.x.attachments > 0
  /\ Done
  /\ UNCHANGED <<settings, storeVars>>

WriteFile ==
  /\ pc = "files" /\ files < Conversation.x.attachments
  /\ files' = files + 1
  /\ UNCHANGED <<settings, storeVars, pc, posted, key, held, images, dir, dirs, stray>>

\* Faulty: the error path forgets the directory.
WriteFailsUntidily ==
  /\ pc = "files" /\ files < Conversation.x.attachments
  /\ Ends
  /\ UNCHANGED <<settings, storeVars, dirs, stray>>

\* An attachment is malformed or empty, cannot be fetched or not written.
WriteFails ==
  /\ pc = "files" /\ files < Conversation.x.attachments
  /\ Done
  /\ UNCHANGED <<settings, storeVars>>

ImagesChecked == images # <<>> /\ Conversation.x.provider = None

\* Faulty: the images that were fetched are not looked at again.
InlineImagesOK ==
  ImagesChecked /\ (\A i \in DOMAIN images : ~WantedImages[i].url) =>
    /\ held.spec.model \in DOMAIN Models
    /\ ImagesFit(Models[held.spec.model], images)

\* validateMaterializedImageAttachments
MaterializedImagesOK ==
  ImagesChecked => /\ held.spec.model \in DOMAIN Models
                   /\ ImagesFit(Models[held.spec.model], images)

CheckImages ==
  /\ pc = "files" /\ files = Conversation.x.attachments /\ MaterializedImagesOK
  /\ pc' = "sending"
  /\ UNCHANGED <<settings, storeVars, posted, key, held, images, fileVars>>

CheckFails ==
  /\ pc = "files" /\ files = Conversation.x.attachments
  /\ ImagesChecked  \* a check fails, or ListModels does
  /\ Done
  /\ UNCHANGED <<settings, storeVars>>

-----------------------------------------------------------------------------
(* The turn, and the deferred cleanup after it.                            *)

\* Release saves the record again, which may fail.
Succeed ==
  /\ pc = "sending" /\ (Persistent => upstream[key] # None) /\ Done
  /\ \/ UNCHANGED record
     \/ Persistent /\ record' = [record EXCEPT ![key] = SpecForStorage(held.spec)]
  /\ UNCHANGED <<settings, sessions, upstream>>

\* Discard.
Fail ==
  /\ pc = "sending" /\ Done
  /\ IF Persistent THEN DestroyPersistent(key) ELSE UNCHANGED storeVars
  /\ UNCHANGED settings

Acquire == AcquireEphemeral \/ Reuse \/ ConflictMapped \/ ConflictStored
             \/ Resume \/ Create \/ AcquireFails
Prepare == FetchImages \/ FetchFails \/ MakeDir \/ MakeDirFails
             \/ WriteFile \/ WriteFails \/ CheckImages \/ CheckFails

Next ==
  \/ \E env \in Environments : Start(env)
  \/ Stop
  \/ \E k \in Keys : Destroy(k) \/ Forget(k)
  \/ \E b \in Accepted, token \in Tokens, id \in Ids : Receive(b, token, id)
  \/ Refuse \/ Acquire \/ Prepare \/ Succeed \/ Fail

RequestSpec == Init /\ [][Next]_vars

-----------------------------------------------------------------------------
(* Properties.                                                             *)

TypeOK ==
  /\ settings \in Settings \cup {None}
  /\ sessions \in [Keys -> Sessions \cup {None}]
  /\ record \in [Keys -> Stored \cup {None}]
  /\ upstream \in [Keys -> Configs \cup {None}]
  /\ pc \in {"idle", "received", "held", "images", "files", "sending"}
  /\ IF pc = "idle" THEN posted = None /\ key = None
     ELSE settings # None /\ posted \in Accepted /\ key \in Tokens \X Ids
  /\ IF pc \in {"idle", "received"} THEN held = None
     ELSE held \in [spec : Specs, config : Configs, created : BOOLEAN]
  /\ images \in Seq(Pictures) /\ files \in Nat
  /\ dir \in Dirs \cup {None} /\ dirs \subseteq Dirs /\ stray \subseteq Dirs

\* What a session is configured with, but for the overrides of the sections of
\* the system message, which no specification has: a session is reused however
\* they differ (server.go:438-450).
Fields == {"model", "effort", "message", "agent", "asksUser", "tools",
           "permissionHandler", "provider", "secret"}
Same(a, b, fields) == \A f \in fields : a[f] = b[f]

\* A turn runs in a session that is configured with what its own request asks
\* for under the present settings, whichever request or process made it.
SessionIsAsAsked == pc = "sending" => Same(held.config, Config(settings, Conversation), Fields)

\* A conversation that is continued, by the process that began it or by a
\* later one with other settings, is continued with what it was begun with,
\* save for the provider's credentials.
ContinuedAsBegun ==
  [][held = None /\ held' # None /\ ~held'.created /\ upstream[key] # None
       => Same(held'.config, upstream[key], Fields \ {"secret"})]_vars

\* No session in the table or in use permits more than the settings of the
\* process that runs, however lax those of the process that made it were.
PermissionWithinSettings ==
  /\ \A k \in Keys : sessions[k] # None =>
       settings # None /\ Rank(sessions[k].config.permissionHandler) <= Rank(settings.permission)
  /\ held # None => Rank(held.config.permissionHandler) <= Rank(settings.permission)

\* A session that may ask its client for something in the middle of a turn
\* runs only for a client that can hear the question, on a stream, and answer
\* it, under a session id.
AskersCanBeAnswered ==
  /\ held # None
  /\ held.config.asksUser \/ DOMAIN held.config.tools # {}
       \/ held.config.permissionHandler = "bridge"
  => Conversation.stream /\ Persistent

\* No session runs an agent that the running process has not defined.
AgentsAreKnown ==
  /\ \A k \in Keys : sessions[k] # None => sessions[k].config.agent \in settings.agents \cup {""}
  /\ held # None => held.config.agent \in settings.agents \cup {""}

Prompt == IF Persistent /\ ~held.created THEN LatestUserPrompt(Conversation.turns)
          ELSE BuildPrompt(Conversation.turns)
Told == Elements(Prompt) \cup
          IF held.config.message = None THEN {} ELSE Elements(held.config.message.content)
Texts == {m.text : m \in Elements(posted.messages)} \cup
           IF posted.api = "openai"
           THEN {posted.format} \cup IF posted.messages = <<>> THEN {posted.prompt} ELSE {}
           ELSE {posted.system.text}

\* A session that is new hears every text of the request's history, as prompt
\* or as system message, and an old one what is new; the images of the request
\* are all sent, and are those of its last message that is no system message.
NothingIsLost ==
  pc = "sending" =>
    /\ held.created => Texts \ {""} \subseteq Told
    /\ Last(Conversation.turns).text \in Told
    /\ \A i \in DOMAIN posted.messages : LET shown == posted.messages[i].images IN
         shown # <<>> => /\ \A j \in i + 1..Len(posted.messages) : IsSystem(posted.messages[j])
                         /\ Len(images) = Len(shown)

\* The images of a turn, fetched ones too, are what the session's model takes,
\* unless the provider is the client's own.
ImagesFitModel ==
  pc = "sending" /\ images # <<>> /\ held.config.provider = None =>
    LET model == Models[held.config.model] IN
    /\ model.vision /\ ImagesFit(model, images)
    /\ model.limits # None /\ model.limits.images > 0 => Len(images) <= model.limits.images

\* The temporary directory of a request is there with all its files when the turn
\* runs.  A directory that is not that of the request in work was left by a
\* process that stopped in the middle of one, or the system would not remove it:
\* no way a request can end leaves another behind.  Nobody removes those either
\* (server.go:227-230, 500-520, 1492-1518).
FilesFollowTheTurn ==
  /\ pc = "sending" => files = Conversation.x.attachments /\ (files > 0 => dir \in dirs)
  /\ dirs \ {dir} = stray

\* The session of a chat completion offers the tools the request has under
\* x_copilot, all of them, and of the standard ones what tool_choice allows:
\* none, the one that it names, or all.
ToolChoiceIsHonoured ==
  pc = "sending" /\ posted.api = "openai" =>
    LET offered  == DOMAIN held.config.tools
        choice   == ToolDirective(posted)
        standard == offered \ Elements(posted.x.tools)
    IN /\ Elements(posted.x.tools) \subseteq offered
       /\ choice = "none" => standard = {}
       /\ choice = "auto" => standard = Elements(posted.tools) \ Elements(posted.x.tools)
       /\ choice \notin {"none", "auto"} =>
            /\ \E t \in offered : t.name = choice
            /\ \A t \in standard : t.name = choice
=============================================================================
