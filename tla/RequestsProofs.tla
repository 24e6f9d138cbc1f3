--------------------------- MODULE RequestsProofs ---------------------------
(***************************************************************************)
(* Proofs about Requests: a session is what the request that uses it asks  *)
(* for, for every set of environments, bodies, models, keys and ids.       *)
(***************************************************************************)
EXTENDS Requests, FiniteSetTheorems, TLAPS

\* A configuration is what a specification says, the credentials apart.
AgreesButSecret(spec, config) ==
  /\ config.model = spec.model /\ config.effort = spec.effort
  /\ config.message = SystemMessage(spec.mode, spec.system)
  /\ config.agent = spec.agent /\ config.asksUser = spec.interactive
  /\ config.tools = spec.tools /\ config.permissionHandler = spec.permission
  /\ config.provider = spec.provider

Agrees(spec, config) == AgreesButSecret(spec, config) /\ config.secret = spec.secret

\* The process that runs may have made it.
Fits(config) ==
  /\ Rank(config.permissionHandler) <= Rank(settings.permission)
  /\ config.agent \in settings.agents \cup {""}

FilesInv ==
  /\ pc \in {"idle", "received", "held", "images"} => files = 0 /\ dir = None
  /\ pc \in {"files", "sending"} /\ Conversation.x.attachments # 0 => dir # None
  /\ pc = "sending" => files = Conversation.x.attachments
  /\ dir # None => dir \in dirs
  /\ dirs \ {dir} = stray

HeldInv ==
  pc \notin {"idle", "received"} =>
    /\ Granted /\ held.spec = Wanted
    /\ Agrees(held.spec, held.config) /\ Fits(held.config)
    /\ Persistent => sessions[key] # None /\ sessions[key].spec = held.spec

TableInv ==
  \A k \in Keys : sessions[k] # None =>
    /\ settings # None
    /\ Agrees(sessions[k].spec, sessions[k].config) /\ Fits(sessions[k].config)
    /\ upstream[k] # None => AgreesButSecret(sessions[k].spec, upstream[k])

RecordInv ==
  \A k \in Keys : record[k] # None /\ upstream[k] # None =>
    AgreesButSecret(record[k], upstream[k])

\* The inductive invariant.
IInv == TypeOK /\ FilesInv /\ HeldInv /\ TableInv /\ RecordInv

-----------------------------------------------------------------------------
(* Sequences.  Induction over their length is a search for the least        *)
(* length that fails.                                                      *)

\* The least-number principle, from the finite subsets of an interval.
LEMMA LeastNumber ==
  ASSUME NEW numbers, numbers \subseteq Nat, numbers # {}
  PROVE  \E m \in numbers : \A n \in numbers : m <= n
<1>1. PICK t \in numbers : TRUE
  OBVIOUS
<1> DEFINE intervals == {1..n : n \in numbers \cap 0..t}
           Less == StrictSubsetOrdering(1..t)
<1>2. IsWellFoundedOn(Less, SUBSET (1..t))
  <2>1. IsFiniteSet(1..t)
    BY FS_Interval
  <2> QED
    BY <2>1, FS_StrictSubsetOrderingWellFounded, FS_FiniteSubsetsOfFinite
<1>3. intervals \subseteq SUBSET (1..t) /\ intervals # {}
  <2>1. 1..t \in intervals
    OBVIOUS
  <2> QED
    BY <2>1
<1>4. PICK least \in intervals : \A other \in intervals : <<other, least>> \notin Less
  <2> HIDE DEF intervals, Less
  <2> QED
    BY <1>2, <1>3, WFMin
<1>5. PICK m \in numbers \cap 0..t : least = 1..m
  OBVIOUS
<1>6. ASSUME NEW n \in numbers PROVE m <= n
  <2> SUFFICES ASSUME n < m PROVE FALSE
    BY <1>1, <1>5
  <2>1. n \in Nat /\ n \in 0..t /\ m \in Nat /\ t \in Nat
    BY <1>1, <1>5
  <2>2. 1..n \in intervals
    BY <2>1
  <2>3. 1..n \subseteq 1..m /\ m \in 1..m /\ m \notin 1..n
    BY <2>1
  <2>4. <<1..n, 1..m>> \in Less
    BY <1>3, <1>5, <2>2, <2>3 DEF StrictSubsetOrdering
  <2> QED
    BY <1>4, <1>5, <2>2, <2>4
<1> QED
  BY <1>5, <1>6

\* The function Kept computes with.
Filters(kept, s, wanted, len) ==
  kept = [n \in 0..len |-> IF n = 0 THEN <<>>
                           ELSE IF s[n] \in wanted THEN Append(kept[n - 1], s[n]) ELSE kept[n - 1]]

\* There is one, or else a least length for which there is none.
LEMMA FilterExists ==
  ASSUME NEW s, NEW wanted, NEW len \in Nat
  PROVE  \E kept : Filters(kept, s, wanted, len)
<1> DEFINE without == {n \in Nat : ~\E kept : Filters(kept, s, wanted, n)}
<1> SUFFICES ASSUME without # {} PROVE FALSE
  OBVIOUS
<1>1. PICK m \in without : \A n \in without : m <= n
  <2> HIDE DEF without
  <2>1. without \subseteq Nat
    BY DEF without
  <2> QED
    BY <2>1, LeastNumber
<1>2. Filters([n \in 0..0 |-> <<>>], s, wanted, 0)
  BY DEF Filters
<1>3. m # 0
  BY <1>2
<1>4. m - 1 \in Nat /\ m - 1 \notin without
  BY <1>1, <1>3
<1>5. PICK kept : Filters(kept, s, wanted, m - 1)
  BY <1>4
<1> DEFINE step == IF s[m] \in wanted THEN Append(kept[m - 1], s[m]) ELSE kept[m - 1]
           longer == [n \in 0..m |-> IF n = m THEN step ELSE kept[n]]
<1>6. \A n \in 0..m - 1 : kept[n] = IF n = 0 THEN <<>>
                           ELSE IF s[n] \in wanted THEN Append(kept[n - 1], s[n]) ELSE kept[n - 1]
  BY <1>5 DEF Filters
<1> HIDE DEF step
<1>7. \A n \in 0..m - 1 : longer[n] = kept[n]
  BY <1>1, <1>3
<1>8. longer[m] = step
  BY <1>1
<1>9. ASSUME NEW n \in 0..m
      PROVE  longer[n] = IF n = 0 THEN <<>>
                           ELSE IF s[n] \in wanted THEN Append(longer[n - 1], s[n]) ELSE longer[n - 1]
  <2>1. CASE n = m
    <3>1. longer[m - 1] = kept[m - 1]
      BY <1>3, <1>4, <1>7
    <3> QED
      BY <2>1, <1>3, <1>8, <3>1 DEF step
  <2>2. CASE n = 0
    BY <2>2, <1>3, <1>4, <1>6, <1>7
  <2>3. CASE n # m /\ n # 0
    <3>1. n \in 0..m - 1 /\ n - 1 \in 0..m - 1
      BY <2>3, <1>1
    <3> QED
      BY <3>1, <2>3, <1>6, <1>7
  <2> QED
    BY <2>1, <2>2, <2>3
<1>10. Filters(longer, s, wanted, m)
  <2>1. longer = [n \in 0..m |-> longer[n]]
    OBVIOUS
  <2> HIDE DEF longer
  <2> QED
    BY <1>9, <2>1 DEF Filters
<1> QED
  BY <1>10

LEMMA KeptFilters ==
  ASSUME NEW S, NEW s \in Seq(S), NEW wanted
  PROVE  \E kept : Filters(kept, s, wanted, Len(s)) /\ Kept(s, wanted) = kept[Len(s)]
<1> DEFINE kept == CHOOSE kept : Filters(kept, s, wanted, Len(s))
<1>1. Len(s) \in Nat
  OBVIOUS
<1>2. Filters(kept, s, wanted, Len(s))
  BY <1>1, FilterExists
<1>3. Kept(s, wanted) = kept[Len(s)]
  BY DEF Kept, Filters
<1> QED
  BY <1>2, <1>3

\* What has been kept when n elements have been looked at.
KeptUpTo(n, kept, s, wanted) ==
  /\ kept[n] \in Seq(Elements(s) \cap wanted)
  /\ \A i \in 1..n : s[i] \in wanted =>
       \E j \in 1..Len(kept[n]) :
         kept[n][j] = s[i] /\ (j = Len(kept[n]) => \A k \in i + 1..n : s[k] \notin wanted)

LEMMA KeptStep ==
  ASSUME NEW s, IsSequence(s), NEW wanted, NEW kept, Filters(kept, s, wanted, Len(s)),
         NEW n \in 1..Len(s), KeptUpTo(n - 1, kept, s, wanted)
  PROVE  KeptUpTo(n, kept, s, wanted)
<1> USE DEF IsSequence
<1>1. n - 1 \in 0..Len(s) /\ n \in 0..Len(s) /\ n # 0 /\ n \in Nat /\ s[n] \in Elements(s)
  OBVIOUS
<1>2. kept[n] = IF s[n] \in wanted THEN Append(kept[n - 1], s[n]) ELSE kept[n - 1]
  BY <1>1 DEF Filters
<1>3. kept[n - 1] \in Seq(Elements(s) \cap wanted) /\ Len(kept[n - 1]) \in Nat
  BY DEF KeptUpTo
<1>4. CASE s[n] \notin wanted
  <2>1. \A k \in 1..n : k = n \/ k \in 1..n - 1
    BY <1>1
  <2> QED
    BY <1>1, <1>2, <1>4, <2>1 DEF KeptUpTo
<1>5. CASE s[n] \in wanted
  <2>1. /\ kept[n] \in Seq(Elements(s) \cap wanted)
        /\ Len(kept[n]) = Len(kept[n - 1]) + 1 /\ kept[n][Len(kept[n])] = s[n]
        /\ \A j \in 1..Len(kept[n - 1]) : kept[n][j] = kept[n - 1][j]
    BY <1>1, <1>2, <1>3, <1>5
  <2>2. ASSUME NEW i \in 1..n, s[i] \in wanted
        PROVE  \E j \in 1..Len(kept[n]) : kept[n][j] = s[i]
                   /\ (j = Len(kept[n]) => \A k \in i + 1..n : s[k] \notin wanted)
    <3>1. CASE i = n
      BY <1>1, <1>3, <2>1, <3>1
    <3>2. CASE i # n
      <4>1. PICK j \in 1..Len(kept[n - 1]) : kept[n - 1][j] = s[i]
        BY <1>1, <2>2, <3>2 DEF KeptUpTo
      <4>2. j \in 1..Len(kept[n]) /\ j # Len(kept[n])
        BY <1>3, <2>1
      <4> QED
        BY <2>1, <4>1, <4>2
    <3> QED
      BY <3>1, <3>2
  <2> QED
    BY <2>1, <2>2 DEF KeptUpTo
<1> QED
  BY <1>4, <1>5

\* What Kept returns: the wanted elements, and at the end one that no wanted
\* element follows.
LEMMA KeptFacts ==
  ASSUME NEW s, IsSequence(s), NEW wanted
  PROVE  /\ Kept(s, wanted) \in Seq(Elements(s) \cap wanted)
         /\ Elements(Kept(s, wanted)) = Elements(s) \cap wanted
         /\ \A i \in 1..Len(s) : s[i] \in wanted =>
              \E j \in 1..Len(Kept(s, wanted)) :
                /\ Kept(s, wanted)[j] = s[i]
                /\ j = Len(Kept(s, wanted)) => \A k \in i + 1..Len(s) : s[k] \notin wanted
<1> USE DEF IsSequence
<1>1. PICK kept : Filters(kept, s, wanted, Len(s)) /\ Kept(s, wanted) = kept[Len(s)]
  BY KeptFilters
<1> DEFINE without == {n \in 0..Len(s) : ~KeptUpTo(n, kept, s, wanted)}
<1>2. without = {}
  <2> SUFFICES ASSUME without # {} PROVE FALSE
    OBVIOUS
  <2>1. PICK n \in without : \A m \in without : n <= m
    <3> HIDE DEF without
    <3>1. without \subseteq Nat
      BY DEF without
    <3> QED
      BY <3>1, LeastNumber
  <2>2. kept[0] = <<>>
    BY <1>1 DEF Filters
  <2>3. KeptUpTo(0, kept, s, wanted)
    BY <2>2 DEF KeptUpTo
  <2>4. n - 1 \in 0..Len(s) /\ n - 1 \notin without /\ n \in 1..Len(s)
    BY <2>1, <2>3
  <2> QED
    BY <1>1, <2>4, KeptStep
<1>3. KeptUpTo(Len(s), kept, s, wanted)
  BY <1>2
<1>4. /\ Kept(s, wanted) \in Seq(Elements(s) \cap wanted)
      /\ \A i \in 1..Len(s) : s[i] \in wanted =>
              \E j \in 1..Len(Kept(s, wanted)) :
                /\ Kept(s, wanted)[j] = s[i]
                /\ j = Len(Kept(s, wanted)) => \A k \in i + 1..Len(s) : s[k] \notin wanted
  BY <1>1, <1>3 DEF KeptUpTo
<1>5. Elements(Kept(s, wanted)) = Elements(s) \cap wanted
  <2>1. \A i \in DOMAIN Kept(s, wanted) : Kept(s, wanted)[i] \in Elements(s) \cap wanted
    BY <1>4
  <2>2. ASSUME NEW e \in Elements(s) \cap wanted PROVE e \in Elements(Kept(s, wanted))
    <3>1. PICK i \in 1..Len(s) : e = s[i]
      BY DEF Elements
    <3>2. DOMAIN Kept(s, wanted) = 1..Len(Kept(s, wanted))
      BY <1>4
    <3> QED
      BY <1>4, <3>1, <3>2 DEF Elements
  <2> QED
    BY <2>1, <2>2 DEF Elements
<1> QED
  BY <1>4, <1>5

LEMMA ConcatElements ==
  ASSUME NEW s, IsSequence(s), NEW t, IsSequence(t)
  PROVE  Elements(s \o t) = Elements(s) \cup Elements(t)
<1> USE DEF IsSequence
<1> DEFINE S == Elements(s) \cup Elements(t)
<1>1. s \in Seq(S) /\ t \in Seq(S)
  OBVIOUS
<1> HIDE DEF S
<1>2. /\ s \o t \in Seq(S) /\ Len(s \o t) = Len(s) + Len(t)
      /\ \A i \in 1..Len(s) : (s \o t)[i] = s[i]
      /\ \A i \in 1..Len(t) : (s \o t)[Len(s) + i] = t[i]
  BY <1>1
<1>3. Elements(s \o t) \subseteq Elements(s) \cup Elements(t)
  <2> SUFFICES ASSUME NEW i \in 1..Len(s) + Len(t) PROVE (s \o t)[i] \in Elements(s) \cup Elements(t)
    BY <1>2 DEF Elements
  <2>1. CASE i <= Len(s)
    BY <1>2, <2>1 DEF Elements
  <2>2. CASE i > Len(s)
    <3>1. i - Len(s) \in 1..Len(t) /\ i = Len(s) + (i - Len(s))
      BY <2>2
    <3> QED
      BY <1>2, <3>1 DEF Elements
  <2> QED
    BY <2>1, <2>2
<1>4. DOMAIN (s \o t) = 1..Len(s) + Len(t)
  BY <1>2
<1>5. \A i \in DOMAIN s : s[i] \in Elements(s \o t)
  BY <1>2, <1>4 DEF Elements
<1>6. \A i \in DOMAIN t : t[i] \in Elements(s \o t)
  <2> SUFFICES ASSUME NEW i \in 1..Len(t) PROVE t[i] \in Elements(s \o t)
    OBVIOUS
  <2>1. Len(s) + i \in DOMAIN (s \o t)
    BY <1>4
  <2> QED
    BY <1>2, <2>1 DEF Elements
<1> QED
  BY <1>3, <1>5, <1>6 DEF Elements

-----------------------------------------------------------------------------
(* What the adapters make of an accepted body.                             *)

LEMMA KeptIsSequence ==
  ASSUME NEW s, IsSequence(s), NEW wanted
  PROVE  IsSequence(Kept(s, wanted))
BY KeptFacts DEF IsSequence

\* A filter by a condition on the elements.
LEMMA KeptSubset ==
  ASSUME NEW s, IsSequence(s), NEW wanted, wanted \subseteq Elements(s)
  PROVE  IsSequence(Kept(s, wanted)) /\ Elements(Kept(s, wanted)) = wanted
<1>1. Elements(Kept(s, wanted)) = Elements(s) \cap wanted
  BY KeptFacts
<1> QED
  BY <1>1, KeptIsSequence

LEMMA NamedFacts ==
  ASSUME NEW tools, IsSequence(tools), NEW name
  PROVE  /\ IsSequence(Named(tools, name))
         /\ Elements(Named(tools, name)) = {t \in Elements(tools) : t.name = name}
<1> DEFINE wanted == {t \in Elements(tools) : t.name = name}
<1>1. wanted \subseteq Elements(tools) /\ Named(tools, name) = Kept(tools, wanted)
  BY DEF Named
<1> HIDE DEF wanted
<1>2. IsSequence(Named(tools, name)) /\ Elements(Named(tools, name)) = wanted
  BY <1>1, KeptSubset
<1> QED
  BY <1>2 DEF wanted

LEMMA PromptFacts ==
  ASSUME NEW turns, IsSequence(turns)
  PROVE  /\ IsSequence(BuildPrompt(turns))
         /\ Elements(BuildPrompt(turns)) = {t.text : t \in Elements(turns)}
<1>1. DOMAIN turns = 1..Len(turns) /\ Len(turns) \in Nat
  BY DEF IsSequence
<1>2. BuildPrompt(turns) \in [1..Len(turns) -> Elements(BuildPrompt(turns))]
  BY <1>1 DEF BuildPrompt, Elements
<1>3. IsSequence(BuildPrompt(turns))
  BY <1>1, <1>2 DEF IsSequence
<1>4. Elements(BuildPrompt(turns)) = {t.text : t \in Elements(turns)}
  BY DEF BuildPrompt, Elements
<1> QED
  BY <1>3, <1>4

LEMMA NonEmptyFacts ==
  ASSUME NEW text
  PROVE  /\ IsSequence(NonEmpty(<<text>>))
         /\ Elements(NonEmpty(<<text>>)) = {text} \ {""}
<1> DEFINE one    == <<text>>
           wanted == {text} \ {""}
<1>1. Elements(one) = {text}
  BY DEF Elements
<1>2. IsSequence(one)
  BY <1>1 DEF IsSequence
<1>3. wanted \subseteq Elements(one) /\ NonEmpty(one) = Kept(one, wanted)
  BY <1>1 DEF NonEmpty
<1> HIDE DEF one, wanted
<1>4. IsSequence(NonEmpty(one)) /\ Elements(NonEmpty(one)) = wanted
  BY <1>2, <1>3, KeptSubset
<1> QED
  BY <1>4 DEF one, wanted

\* Its turns, of which there is one at least.
LEMMA TurnsFacts ==
  ASSUME NEW b \in Accepted
  PROVE  /\ IsSequence(Parse(b).turns) /\ Parse(b).turns # <<>>
         /\ Last(Parse(b).turns) \in Elements(Parse(b).turns)
<1>1. IsSequence(Parse(b).turns)
  <2>1. CASE b.api # "openai"
    BY <2>1, RequestsAssumption DEF Parse, ParseClaude
  <2>2. CASE b.api = "openai" /\ b.messages = <<>>
    <3>1. Parse(b).turns = <<[role |-> "user", text |-> b.prompt, images |-> <<>>]>>
      BY <2>2 DEF Parse, ParseOpenAI, OpenAITurns
    <3> QED
      BY <3>1 DEF IsSequence, Elements
  <2>3. CASE b.api = "openai" /\ b.messages # <<>>
    BY <2>3, RequestsAssumption, KeptIsSequence DEF Parse, ParseOpenAI, OpenAITurns
  <2> QED
    BY <2>1, <2>2, <2>3
<1>2. Parse(b).turns # <<>>
  BY DEF Accepted, ParseOK, Parse, OpenAIOK, ClaudeOK, ParseOpenAI, ParseClaude, TurnsOK, EndsWithUser
<1>3. Len(Parse(b).turns) \in DOMAIN Parse(b).turns
  BY <1>1, <1>2 DEF IsSequence
<1> QED
  BY <1>1, <1>2, <1>3 DEF Last, Elements

\* The texts it has, the empty ones apart, are in its turns or its system message.
LEMMA TextsFacts ==
  ASSUME NEW b \in Accepted
  PROVE  LET said == {t.text : t \in Elements(Parse(b).turns)} \cup Elements(Parse(b).system) \cup {""}
         IN  /\ \A m \in Elements(b.messages) : m.text \in said
             /\ b.api # "openai" => b.system.text \in said
             /\ b.api = "openai" => b.format \in said
             /\ b.api = "openai" /\ b.messages = <<>> => b.prompt \in said
<1>1. CASE b.api # "openai"
  <2>1. Parse(b).turns = b.messages /\ Parse(b).system = NonEmpty(<<b.system.text>>)
    BY <1>1 DEF Parse, ParseClaude
  <2>2. Elements(Parse(b).system) = {b.system.text} \ {""}
    BY <2>1, NonEmptyFacts
  <2> QED
    BY <1>1, <2>1, <2>2
<1>2. CASE b.api = "openai"
  <2> DEFINE ruling == {m \in Elements(b.messages) : IsSystem(m) /\ m.text # ""}
             rules  == Kept(b.messages, ruling)
             format == NonEmpty(<<b.format>>)
  <2>1. Parse(b).turns = OpenAITurns(b) /\ Parse(b).system = BuildPrompt(rules) \o format
    BY <1>2 DEF Parse, ParseOpenAI, OpenAISystem
  <2>2. IsSequence(rules) /\ Elements(rules) = ruling
    <3>1. IsSequence(b.messages) /\ ruling \subseteq Elements(b.messages)
      BY RequestsAssumption
    <3> HIDE DEF ruling
    <3> QED
      BY <3>1, KeptSubset
  <2>3. Elements(Parse(b).system) = {m.text : m \in ruling} \cup ({b.format} \ {""})
    <3> HIDE DEF rules, ruling, format
    <3>1. IsSequence(BuildPrompt(rules)) /\ Elements(BuildPrompt(rules)) = {m.text : m \in ruling}
      BY <2>2, PromptFacts
    <3>2. IsSequence(format) /\ Elements(format) = {b.format} \ {""}
      BY NonEmptyFacts DEF format
    <3> QED
      BY <2>1, <3>1, <3>2, ConcatElements
  <2>4. CASE b.messages = <<>>
    <3>1. Elements(b.messages) = {}
      BY <2>4 DEF Elements
    <3>2. Parse(b).turns = <<[role |-> "user", text |-> b.prompt, images |-> <<>>]>>
      BY <2>1, <2>4 DEF OpenAITurns
    <3>3. [role |-> "user", text |-> b.prompt, images |-> <<>>] \in Elements(Parse(b).turns)
      BY <3>2 DEF Elements
    <3>4. b.prompt \in {t.text : t \in Elements(Parse(b).turns)}
      BY <3>3
    <3> QED
      BY <1>2, <2>3, <3>1, <3>4
  <2>5. CASE b.messages # <<>>
    <3> DEFINE others == {m \in Elements(b.messages) : ~IsSystem(m)}
    <3>1. others \subseteq Elements(b.messages) /\ Parse(b).turns = Kept(b.messages, others)
      BY <2>1, <2>5 DEF OpenAITurns
    <3>2. IsSequence(b.messages)
      BY RequestsAssumption
    <3> HIDE DEF others
    <3>3. Elements(Parse(b).turns) = others
      BY <3>1, <3>2, KeptSubset
    <3> USE DEF others
    <3> QED
      BY <1>2, <2>3, <2>5, <3>3
  <2> QED
    BY <2>4, <2>5
<1> QED
  BY <1>1, <1>2

\* When only its last turn may have images, no message with images is followed
\* by one that is a turn.
LEMMA PlacementFacts ==
  ASSUME NEW b \in Accepted, AttachmentPlacementOK(Parse(b).turns, FALSE),
         NEW i \in DOMAIN b.messages, b.messages[i].images # <<>>
  PROVE  /\ b.messages[i] = Last(Parse(b).turns)
         /\ \A j \in i + 1..Len(b.messages) : IsSystem(b.messages[j])
<1> DEFINE turns == Parse(b).turns
<1>1. IsSequence(turns) /\ turns # <<>> /\ DOMAIN turns = 1..Len(turns) /\ Len(turns) \in Nat
  BY TurnsFacts DEF IsSequence
<1>2. \A j \in 1..Len(turns) : turns[j].images # <<>> => j = Len(turns)
  BY <1>1 DEF AttachmentPlacementOK
<1>3. IsSequence(b.messages) /\ DOMAIN b.messages = 1..Len(b.messages) /\ Len(b.messages) \in Nat
  BY RequestsAssumption DEF IsSequence
<1>4. CASE b.api # "openai"
  BY <1>2, <1>3, <1>4 DEF Parse, ParseClaude, Last
<1>5. CASE b.api = "openai"
  <2> DEFINE wanted == {m \in Elements(b.messages) : ~IsSystem(m)}
  <2>1. \A j \in DOMAIN b.messages : b.messages[j] \in Elements(b.messages)
    BY DEF Elements
  <2>2. b.messages[i] \in wanted
    BY <1>5, <2>1 DEF Accepted, ParseOK, OpenAIOK
  <2>3. b.messages # <<>>
    BY <1>3
  <2>4. turns = Kept(b.messages, wanted)
    BY <1>5, <2>3 DEF Parse, ParseOpenAI, OpenAITurns
  <2> HIDE DEF turns, wanted
  <2>5. PICK j \in 1..Len(turns) :
          /\ turns[j] = b.messages[i]
          /\ j = Len(turns) => \A k \in i + 1..Len(b.messages) : b.messages[k] \notin wanted
    BY <1>3, <2>2, <2>4, KeptFacts
  <2>6. j = Len(turns)
    BY <1>2, <2>5
  <2>7. \A k \in i + 1..Len(b.messages) : b.messages[k] \in Elements(b.messages) \ wanted
    BY <1>3, <2>1, <2>5, <2>6
  <2> QED
    BY <2>5, <2>6, <2>7 DEF turns, wanted, Last
<1> QED
  BY <1>4, <1>5

\* The standard tools that tool_choice leaves, and the extension's.
LEMMA ToolsFacts ==
  ASSUME NEW b \in Accepted, b.api = "openai"
  PROVE  LET choice == ToolDirective(b) IN
         /\ Elements(Parse(b).x.tools) = Elements(StandardTools(b)) \cup Elements(b.x.tools)
         /\ choice = "none" => Elements(StandardTools(b)) = {}
         /\ choice = "auto" => Elements(StandardTools(b)) = Elements(b.tools)
         /\ choice \notin {"none", "auto"} =>
              /\ Elements(StandardTools(b)) = {t \in Elements(b.tools) : t.name = choice}
              /\ \E t \in Elements(StandardTools(b)) \cup Elements(b.x.tools) : t.name = choice
<1> DEFINE choice == ToolDirective(b)
<1>1. IsSequence(b.tools) /\ IsSequence(b.x.tools) /\ "tools" \in DOMAIN b.x
  BY RequestsAssumption
<1>2. /\ IsSequence(Named(b.tools, choice))
      /\ Elements(Named(b.tools, choice)) = {t \in Elements(b.tools) : t.name = choice}
  BY <1>1, NamedFacts
<1>3. choice = "none" => StandardTools(b) = <<>> /\ IsSequence(StandardTools(b))
                           /\ Elements(StandardTools(b)) = {}
  BY DEF StandardTools, IsSequence, Elements
<1>4. choice = "auto" => StandardTools(b) = b.tools
  BY DEF StandardTools
<1>5. choice \notin {"none", "auto"} => StandardTools(b) = Named(b.tools, choice)
  BY DEF StandardTools
<1>6. IsSequence(StandardTools(b))
  BY <1>1, <1>2, <1>3, <1>4, <1>5
<1>7. Parse(b).x.tools = StandardTools(b) \o b.x.tools
  BY <1>1 DEF Parse, ParseOpenAI
<1>8. Elements(Parse(b).x.tools) = Elements(StandardTools(b)) \cup Elements(b.x.tools)
  BY <1>1, <1>6, <1>7, ConcatElements
<1>9. ASSUME choice \notin {"none", "auto"}
      PROVE  \E t \in Elements(StandardTools(b)) \cup Elements(b.x.tools) : t.name = choice
  <2> DEFINE among == IF b.tools = <<>> THEN b.x.tools ELSE b.tools
  <2>1. Named(among, choice) # <<>>
    BY <1>9 DEF Accepted, ParseOK, OpenAIOK, ToolsOK
  <2>2. IsSequence(among)
    BY <1>1
  <2> HIDE DEF among
  <2>3. /\ IsSequence(Named(among, choice))
        /\ Elements(Named(among, choice)) = {t \in Elements(among) : t.name = choice}
    BY <2>2, NamedFacts
  <2>4. 1 \in DOMAIN Named(among, choice)
    BY <2>1, <2>3 DEF IsSequence
  <2>5. \E t \in Elements(among) : t.name = choice
    BY <2>3, <2>4 DEF Elements
  <2> QED
    BY <1>2, <1>5, <1>9, <2>5 DEF among
<1> QED
  BY <1>2, <1>3, <1>4, <1>5, <1>8, <1>9

-----------------------------------------------------------------------------
(* Specifications and configurations.                                      *)

LEMMA ConfigAgrees == \A s, c : Agrees(Spec(s, c), Config(s, c))
BY DEF Agrees, AgreesButSecret, Spec, Config

LEMMA StoredAgrees ==
  ASSUME NEW spec \in Specs, NEW config
  PROVE  AgreesButSecret(SpecForStorage(spec), config) <=> AgreesButSecret(spec, config)
<1>1. PICK s \in Settings, b \in Accepted : spec = Spec(s, Parse(b))
  BY DEF Specs
<1>2. /\ SpecForStorage(spec).model = spec.model /\ SpecForStorage(spec).effort = spec.effort
      /\ SpecForStorage(spec).mode = spec.mode /\ SpecForStorage(spec).system = spec.system
      /\ SpecForStorage(spec).agent = spec.agent
      /\ SpecForStorage(spec).interactive = spec.interactive
      /\ SpecForStorage(spec).tools = spec.tools
      /\ SpecForStorage(spec).permission = spec.permission
      /\ SpecForStorage(spec).provider = spec.provider
  BY <1>1 DEF SpecForStorage, Spec
<1> QED
  BY <1>2 DEF AgreesButSecret

LEMMA AgreeingAreSameButSecret ==
  ASSUME NEW spec, NEW a, NEW b, AgreesButSecret(spec, a), AgreesButSecret(spec, b)
  PROVE  Same(a, b, Fields \ {"secret"})
BY DEF AgreesButSecret, Same, Fields

LEMMA AgreeingAreSame ==
  ASSUME NEW spec, NEW a, NEW b, Agrees(spec, a), Agrees(spec, b)
  PROVE  Same(a, b, Fields)
BY DEF Agrees, AgreesButSecret, Same, Fields

\* What a request is granted is within the settings.
LEMMA GrantedFits ==
  ASSUME NEW s \in Settings, NEW c, NEW id, Admitted(s, c, id)
  PROVE  /\ Rank(EffectivePermission(s, c)) <= Rank(s.permission)
         /\ EffectiveAgent(s, c) \in s.agents \cup {""}
<1>1. PICK env \in Environments : LoadOK(env) /\ s = Load(env)
  BY DEF Settings
<1>2. s.agent \in s.agents \cup {""}
  BY <1>1 DEF Load, LoadOK, AgentsOK
<1>3. EffectiveAgent(s, c) \in s.agents \cup {""}
  BY <1>2 DEF Admitted, FeaturesOK, EffectiveAgent
<1>4. Rank(EffectivePermission(s, c)) <= Rank(s.permission)
  <2>1. CASE c.x.permission \in Modes
    BY <2>1 DEF Admitted, PermissionOK, EffectivePermission
  <2>2. CASE c.x.permission \notin Modes
    <3>1. EffectivePermission(s, c) = s.permission
      BY <2>2 DEF EffectivePermission
    <3>2. Rank(s.permission) \in Nat
      BY DEF Rank
    <3> QED
      BY <3>1, <3>2
  <2> QED
    BY <2>1, <2>2
<1> QED
  BY <1>3, <1>4

-----------------------------------------------------------------------------
(* Initially, and the steps that end a request or do not touch one.        *)

LEMMA EmptyPictures == <<>> \in Seq(Pictures)
OBVIOUS

LEMMA InitIInv == Init => IInv
<1> SUFFICES ASSUME Init PROVE IInv
  OBVIOUS
<1>1. TypeOK
  BY EmptyPictures DEF Init, TypeOK
<1>2. FilesInv /\ HeldInv /\ TableInv /\ RecordInv
  BY DEF Init, FilesInv, HeldInv, TableInv, RecordInv
<1> QED
  BY <1>1, <1>2 DEF IInv

\* The idle request has every invariant of requests.
LEMMA DoneInv ==
  ASSUME TypeOK, FilesInv, Done
  PROVE  /\ FilesInv' /\ HeldInv'
         /\ pc' = "idle" /\ posted' = None /\ key' = None /\ held' = None
         /\ images' \in Seq(Pictures) /\ files' \in Nat
         /\ dir' = None /\ dirs' \subseteq Dirs /\ stray' \subseteq Dirs
<1>1. /\ pc' = "idle" /\ posted' = None /\ key' = None /\ held' = None
      /\ images' = <<>> /\ files' = 0 /\ dir' = None
  BY DEF Done, Ends
<1>2. /\ dir \in Dirs \cup {None} /\ dirs \subseteq Dirs /\ stray \subseteq Dirs
      /\ dirs \ {dir} = stray /\ None \notin Dirs /\ (dir # None => dir \in dirs)
  BY RequestsAssumption DEF TypeOK, FilesInv
<1>3. /\ dirs' \subseteq Dirs /\ stray' \subseteq Dirs
      /\ dirs' \ {None} = stray'
  <2>1. CASE Removed
    BY <1>2, <2>1 DEF Removed
  <2>2. CASE LeftBehind
    BY <1>2, <2>2 DEF LeftBehind
  <2> QED
    BY <2>1, <2>2 DEF Done
<1>4. FilesInv' /\ HeldInv'
  BY <1>1, <1>3 DEF FilesInv, HeldInv
<1> QED
  BY <1>1, <1>3, <1>4, EmptyPictures

LEMMA TypeDone ==
  ASSUME TypeOK, FilesInv, Done, settings' \in Settings \cup {None},
         sessions' \in [Keys -> Sessions \cup {None}],
         record' \in [Keys -> Stored \cup {None}],
         upstream' \in [Keys -> Configs \cup {None}]
  PROVE  TypeOK'
BY DoneInv DEF TypeOK
\* Entries that are as they were or gone.
Shrinks == \A k \in Keys : /\ sessions'[k] \in {sessions[k], None}
                           /\ record'[k] \in {record[k], None}
                           /\ upstream'[k] \in {upstream[k], None}

LEMMA ShrinkInv ==
  ASSUME TableInv, RecordInv, Shrinks, UNCHANGED settings
  PROVE  TableInv' /\ RecordInv'
BY DEF TableInv, RecordInv, Shrinks, Fits

LEMMA StoresKept ==
  ASSUME TableInv, RecordInv, UNCHANGED <<settings, storeVars>>
  PROVE  TableInv' /\ RecordInv'
BY DEF TableInv, RecordInv, Fits, storeVars

\* A request ends and leaves the sessions as they are.
LEMMA EndInv ==
  ASSUME IInv, Done, UNCHANGED <<settings, storeVars>>
  PROVE  IInv'
<1>1. TypeOK'
  BY TypeDone DEF IInv, TypeOK, storeVars
<1> QED
  BY <1>1, DoneInv, StoresKept DEF IInv

\* A request goes on, and its session and the others stay as they are.
LEMMA HeldKept ==
  ASSUME HeldInv, UNCHANGED <<settings, sessions, posted, key, held>>, pc \notin {"idle", "received"}
  PROVE  HeldInv'
BY DEF HeldInv, Granted, Wanted, Conversation, Fits, Persistent

LEMMA DestroyTypes ==
  ASSUME TypeOK, NEW k \in Keys, DestroyPersistent(k)
  PROVE  /\ sessions' \in [Keys -> Sessions \cup {None}]
         /\ record' \in [Keys -> Stored \cup {None}]
         /\ upstream' \in [Keys -> Configs \cup {None}]
         /\ Shrinks
BY DEF TypeOK, DestroyPersistent, Shrinks

LEMMA RemoveTypes ==
  ASSUME TypeOK, RemoveStored, key \in Keys, UNCHANGED sessions
  PROVE  /\ record' \in [Keys -> Stored \cup {None}]
         /\ upstream' \in [Keys -> Configs \cup {None}]
         /\ Shrinks
BY DEF TypeOK, RemoveStored, Shrinks

LEMMA StartInv ==
  ASSUME IInv, NEW env \in Environments, Start(env)
  PROVE  IInv'
<1>1. settings' \in Settings
  BY DEF Start, Settings
<1>2. pc = "idle" /\ \A k \in Keys : sessions[k] = None
  BY DEF IInv, TypeOK, TableInv, Start
<1>3. TypeOK'
  BY <1>1, <1>2 DEF IInv, TypeOK, Start, storeVars, requestVars, fileVars
<1>4. FilesInv' /\ HeldInv'
  BY <1>2 DEF IInv, FilesInv, HeldInv, Start, requestVars, fileVars, Conversation
<1>5. TableInv' /\ RecordInv'
  BY <1>2 DEF IInv, TableInv, RecordInv, Start, storeVars
<1> QED
  BY <1>3, <1>4, <1>5 DEF IInv

LEMMA StopInv ==
  ASSUME IInv, Stop
  PROVE  IInv'
<1>1. Done
  BY DEF Stop, Done
<1>2. TypeOK'
  BY <1>1, TypeDone DEF IInv, TypeOK, Stop
<1>3. TableInv' /\ RecordInv'
  BY DEF IInv, RecordInv, TableInv, Stop
<1> QED
  BY <1>1, <1>2, <1>3, DoneInv DEF IInv

LEMMA DestroyInv ==
  ASSUME IInv, NEW k \in Keys, Destroy(k)
  PROVE  IInv'
<1>1. TypeOK'
  BY DestroyTypes DEF IInv, TypeOK, Destroy, requestVars, fileVars
<1>2. FilesInv' /\ HeldInv'
  BY DEF IInv, FilesInv, HeldInv, Destroy, DestroyPersistent, TypeOK, requestVars, fileVars, Conversation,
         Granted, Wanted, Fits, Persistent
<1>3. TableInv' /\ RecordInv'
  BY DestroyTypes, ShrinkInv DEF IInv, Destroy
<1> QED
  BY <1>1, <1>2, <1>3 DEF IInv

LEMMA ForgetInv ==
  ASSUME IInv, NEW k \in Keys, Forget(k)
  PROVE  IInv'
<1>1. TypeOK'
  BY DEF IInv, TypeOK, Forget, requestVars, fileVars
<1>2. FilesInv' /\ HeldInv'
  BY DEF IInv, FilesInv, HeldInv, Forget, requestVars, fileVars, Conversation, Granted, Wanted, Fits,
         Persistent
<1>3. Shrinks /\ UNCHANGED settings
  BY DEF IInv, TypeOK, Shrinks, Forget
<1>4. TableInv' /\ RecordInv'
  BY <1>3, ShrinkInv DEF IInv
<1> QED
  BY <1>1, <1>2, <1>4 DEF IInv

LEMMA ReceiveInv ==
  ASSUME IInv, NEW b \in Accepted, NEW token \in Tokens, NEW id \in Ids, Receive(b, token, id)
  PROVE  IInv'
<1>1. TypeOK'
  BY DEF IInv, TypeOK, Receive, storeVars, fileVars
<1>2. FilesInv' /\ HeldInv'
  BY DEF IInv, FilesInv, HeldInv, Receive, fileVars
<1>3. TableInv' /\ RecordInv'
  BY StoresKept DEF IInv, Receive
<1> QED
  BY <1>1, <1>2, <1>3 DEF IInv
-----------------------------------------------------------------------------
(* Acquire.                                                                *)

\* What a request that is admitted asks for.
LEMMA WantedFacts ==
  ASSUME IInv, pc = "received", Granted
  PROVE  /\ settings \in Settings /\ posted \in Accepted
         /\ Wanted \in Specs /\ Config(settings, Conversation) \in Configs
         /\ SpecForStorage(Wanted) \in Stored
         /\ Agrees(Wanted, Config(settings, Conversation))
         /\ Fits(Config(settings, Conversation))
         /\ key \in Tokens \X Ids
<1>1. settings \in Settings /\ posted \in Accepted /\ key \in Tokens \X Ids
  BY DEF IInv, TypeOK
<1>2. Wanted \in Specs /\ Config(settings, Conversation) \in Configs
  BY <1>1 DEF Wanted, Conversation, Specs, Configs
<1>3. Fits(Config(settings, Conversation))
  BY <1>1, GrantedFits DEF Fits, Config, Granted
<1> QED
  BY <1>1, <1>2, <1>3, ConfigAgrees DEF Stored, Wanted

\* The request has a session, with a configuration that is right.
LEMMA HoldInv ==
  ASSUME IInv, pc = "received", Granted, NEW config \in Configs, NEW created \in BOOLEAN,
         Hold(config, created), Agrees(Wanted, config), Fits(config),
         sessions' \in [Keys -> Sessions \cup {None}],
         record' \in [Keys -> Stored \cup {None}],
         upstream' \in [Keys -> Configs \cup {None}],
         Persistent => sessions'[key] # None /\ sessions'[key].spec = Wanted
  PROVE  TypeOK' /\ FilesInv' /\ HeldInv'
<1>1. held' = [spec |-> Wanted, config |-> config, created |-> created] /\ Wanted \in Specs
  BY WantedFacts DEF Hold
<1>2. TypeOK'
  BY <1>1, WantedFacts DEF IInv, TypeOK, Hold, fileVars
<1>3. FilesInv'
  BY DEF IInv, FilesInv, Hold, fileVars
<1>4. HeldInv'
  <2>1. UNCHANGED <<settings, posted, key>>
    BY DEF Hold
  <2>2. Wanted' = Wanted /\ Granted' /\ (Fits(config))' /\ Persistent' = Persistent
    BY <2>1 DEF Granted, Wanted, Conversation, Fits, Persistent
  <2>3. held'.spec = Wanted /\ held'.config = config
    BY <1>1
  <2> QED
    BY <2>1, <2>2, <2>3 DEF HeldInv, Fits
<1> QED
  BY <1>2, <1>3, <1>4

LEMMA EphemeralInv ==
  ASSUME IInv, AcquireEphemeral
  PROVE  IInv'
<1>1. TypeOK' /\ FilesInv' /\ HeldInv'
  BY HoldInv, WantedFacts DEF AcquireEphemeral, storeVars, IInv, TypeOK
<1>2. TableInv' /\ RecordInv'
  BY StoresKept DEF AcquireEphemeral, Hold, IInv
<1> QED
  BY <1>1, <1>2 DEF IInv

LEMMA ReuseInv ==
  ASSUME IInv, Reuse
  PROVE  IInv'
<1>1. /\ sessions[key].config \in Configs
      /\ Agrees(Wanted, sessions[key].config) /\ Fits(sessions[key].config)
  BY DEF Reuse, IInv, TableInv, TypeOK, Sessions, Persistent
<1>2. TypeOK' /\ FilesInv' /\ HeldInv'
  BY <1>1, HoldInv DEF Reuse, storeVars, IInv, TypeOK
<1>3. TableInv' /\ RecordInv'
  BY StoresKept DEF Reuse, Hold, IInv
<1> QED
  BY <1>2, <1>3 DEF IInv

\* The session that is entered agrees with its specification, its record and
\* what the CLI is told.
LEMMA EnterInv ==
  ASSUME IInv, Missing, Enter(Config(settings, Conversation)), UNCHANGED settings
  PROVE  /\ sessions' \in [Keys -> Sessions \cup {None}]
         /\ record' \in [Keys -> Stored \cup {None}]
         /\ upstream' \in [Keys -> Configs \cup {None}]
         /\ sessions'[key] # None /\ sessions'[key].spec = Wanted
         /\ TableInv' /\ RecordInv'
<1> DEFINE config == Config(settings, Conversation)
<1>1. /\ settings \in Settings /\ Wanted \in Specs /\ config \in Configs
      /\ SpecForStorage(Wanted) \in Stored /\ Agrees(Wanted, config) /\ Fits(config)
  BY WantedFacts DEF Missing
<1>2. AgreesButSecret(Wanted, config) /\ AgreesButSecret(SpecForStorage(Wanted), config)
  BY <1>1, StoredAgrees DEF Agrees
<1>3. settings # None
  BY DEF Missing, IInv, TypeOK
<1> HIDE DEF config
<1>4. /\ sessions' = [sessions EXCEPT ![key] = [spec |-> Wanted, config |-> config]]
      /\ record' = [record EXCEPT ![key] = SpecForStorage(Wanted)]
      /\ upstream' = [upstream EXCEPT ![key] = config]
  BY DEF Enter, config
<1>5. [spec |-> Wanted, config |-> config] \in Sessions
  BY <1>1 DEF Sessions
<1>6. /\ sessions \in [Keys -> Sessions \cup {None}]
      /\ record \in [Keys -> Stored \cup {None}]
      /\ upstream \in [Keys -> Configs \cup {None}]
      /\ key \in Keys
  BY DEF IInv, TypeOK, Missing, Persistent
<1>7. /\ sessions' \in [Keys -> Sessions \cup {None}]
      /\ record' \in [Keys -> Stored \cup {None}]
      /\ upstream' \in [Keys -> Configs \cup {None}]
  BY <1>1, <1>4, <1>5, <1>6
<1>10. sessions'[key] # None /\ sessions'[key].spec = Wanted
  BY <1>4, <1>5, <1>6, RequestsAssumption
<1>8. TableInv'
  BY <1>1, <1>2, <1>3, <1>4, <1>6 DEF IInv, TableInv, Fits
<1>9. RecordInv'
  BY <1>2, <1>4, <1>6 DEF IInv, RecordInv
<1> QED
  BY <1>7, <1>8, <1>9, <1>10

LEMMA ResumeOrCreateInv ==
  ASSUME IInv, Resume \/ Create
  PROVE  IInv'
<1> DEFINE config == Config(settings, Conversation)
<1>1. PICK created \in BOOLEAN : Hold(config, created)
  BY DEF Resume, Create
<1>2. Missing /\ Enter(config) /\ UNCHANGED settings /\ pc = "received" /\ Granted
  BY DEF Resume, Create, Missing, Hold
<1>3. TypeOK' /\ FilesInv' /\ HeldInv'
  BY <1>1, <1>2, EnterInv, HoldInv, WantedFacts
<1> QED
  BY <1>2, <1>3, EnterInv DEF IInv

LEMMA ConflictStoredInv ==
  ASSUME IInv, ConflictStored
  PROVE  IInv'
<1>1. key \in Keys /\ UNCHANGED sessions /\ UNCHANGED settings /\ RemoveStored /\ Done
  BY DEF ConflictStored, Missing, Persistent
<1>2. TypeOK'
  BY <1>1, RemoveTypes, TypeDone DEF IInv, TypeOK
<1>3. TableInv' /\ RecordInv'
  BY <1>1, RemoveTypes, ShrinkInv DEF IInv
<1> QED
  BY <1>1, <1>2, <1>3, DoneInv DEF IInv

LEMMA AcquireFailsInv ==
  ASSUME IInv, AcquireFails
  PROVE  IInv'
<1> DEFINE config == Config(settings, Conversation)
<1>1. CASE UNCHANGED <<record, upstream>>
  BY <1>1, EndInv DEF AcquireFails, storeVars
<1>2. CASE Missing /\ RemoveStored
  <2>1. key \in Keys /\ UNCHANGED sessions /\ UNCHANGED settings /\ Done
    BY <1>2 DEF AcquireFails, Missing, Persistent
  <2>2. TypeOK'
    BY <1>2, <2>1, RemoveTypes, TypeDone DEF IInv, TypeOK
  <2>3. TableInv' /\ RecordInv'
    BY <1>2, <2>1, RemoveTypes, ShrinkInv DEF IInv
  <2> QED
    BY <2>1, <2>2, <2>3, DoneInv DEF IInv
<1>3. CASE /\ Missing /\ (record[key] # None => Matches)
           /\ \/ record' = [record EXCEPT ![key] = None]
              \/ upstream[key] # None /\ UNCHANGED record
           /\ upstream' = [upstream EXCEPT ![key] = Config(settings, Conversation)]
  <2>1. /\ key \in Keys /\ sessions[key] = None /\ pc = "received" /\ Granted
        /\ UNCHANGED sessions /\ UNCHANGED settings /\ Done
    BY <1>3 DEF AcquireFails, Missing, Persistent
  <2>2. /\ Wanted \in Specs /\ config \in Configs /\ Agrees(Wanted, config)
    BY <2>1, WantedFacts
  <2>3. AgreesButSecret(SpecForStorage(Wanted), config)
    BY <2>2, StoredAgrees DEF Agrees
  <2> HIDE DEF config
  <2>4. upstream' = [upstream EXCEPT ![key] = config]
    BY <1>3 DEF config
  <2>5. TypeOK'
    BY <1>3, <2>1, <2>2, <2>4, TypeDone DEF IInv, TypeOK
  <2>6. TableInv'
    BY <2>1, <2>4 DEF IInv, TypeOK, TableInv, Fits
  <2>7. RecordInv'
    BY <1>3, <2>1, <2>3, <2>4 DEF IInv, TypeOK, RecordInv, Matches
  <2> QED
    BY <2>1, <2>5, <2>6, <2>7, DoneInv DEF IInv
<1> QED
  BY <1>1, <1>2, <1>3 DEF AcquireFails

-----------------------------------------------------------------------------
(* The message and the turn.                                               *)

LEMMA FetchInv ==
  ASSUME IInv, FetchImages
  PROVE  IInv'
<1> DEFINE Shown == [url : BOOLEAN, type : STRING, genuine : BOOLEAN, size : Nat]
<1>1. WantedImages \in Seq(Shown)
  BY RequestsAssumption DEF IInv, TypeOK, FetchImages, WantedImages, Conversation
<1>2. images' \in Seq(Pictures)
  <2>1. PICK found \in [{i \in DOMAIN WantedImages : WantedImages[i].url} -> Fetched] :
          images' = [i \in DOMAIN WantedImages |->
                       IF WantedImages[i].url THEN found[i]
                       ELSE [type |-> WantedImages[i].type, size |-> WantedImages[i].size]]
    BY DEF FetchImages
  <2>2. DOMAIN WantedImages = 1..Len(WantedImages) /\ Len(WantedImages) \in Nat
    BY <1>1
  <2>3. ASSUME NEW i \in DOMAIN WantedImages
        PROVE  (IF WantedImages[i].url THEN found[i]
                ELSE [type |-> WantedImages[i].type, size |-> WantedImages[i].size]) \in Pictures
    <3>1. WantedImages[i] \in Shown
      <4> HIDE DEF Shown
      <4> QED
        BY <1>1, <2>2
    <3>2. WantedImages[i].url => found[i] \in Pictures
      BY RequestsAssumption
    <3>3. [type |-> WantedImages[i].type, size |-> WantedImages[i].size] \in Pictures
      BY <3>1 DEF Pictures
    <3> QED
      BY <3>2, <3>3
  <2>4. images' \in [1..Len(WantedImages) -> Pictures]
    BY <2>1, <2>2, <2>3
  <2> QED
    BY <2>2, <2>4
<1>3. TypeOK'
  BY <1>2 DEF IInv, TypeOK, FetchImages, storeVars, fileVars
<1>4. FilesInv'
  BY DEF IInv, FilesInv, FetchImages, fileVars
<1>5. HeldInv'
  BY HeldKept DEF IInv, FetchImages, storeVars
<1>6. TableInv' /\ RecordInv'
  BY StoresKept DEF IInv, FetchImages
<1> QED
  BY <1>3, <1>4, <1>5, <1>6 DEF IInv

LEMMA MakeDirInv ==
  ASSUME IInv, MakeDir
  PROVE  IInv'
<1>1. TypeOK'
  BY DEF IInv, TypeOK, MakeDir, storeVars
<1>2. FilesInv'
  <2>1. /\ pc = "images" /\ pc' = "files" /\ posted' = posted /\ files' = files /\ stray' = stray
    BY DEF MakeDir
  <2>2. dir = None /\ dirs \subseteq Dirs /\ dirs \ {dir} = stray /\ None \notin Dirs
    BY <2>1, RequestsAssumption DEF IInv, TypeOK, FilesInv
  <2>3. CASE Conversation.x.attachments = 0
    <3>1. dir' = dir /\ dirs' = dirs
      BY <2>3 DEF MakeDir
    <3> QED
      BY <2>1, <2>2, <2>3, <3>1 DEF FilesInv, Conversation
  <2>4. CASE Conversation.x.attachments # 0
    <3>1. PICK d \in Dirs \ dirs : dir' = d /\ dirs' = dirs \cup {d}
      BY <2>4 DEF MakeDir
    <3> QED
      BY <2>1, <2>2, <2>4, <3>1 DEF FilesInv
  <2> QED
    BY <2>3, <2>4
<1>3. HeldInv'
  BY HeldKept DEF IInv, MakeDir, storeVars
<1>4. TableInv' /\ RecordInv'
  BY StoresKept DEF IInv, MakeDir
<1> QED
  BY <1>1, <1>2, <1>3, <1>4 DEF IInv

LEMMA WriteFileInv ==
  ASSUME IInv, WriteFile
  PROVE  IInv'
<1>1. TypeOK'
  BY DEF IInv, TypeOK, WriteFile, storeVars
<1>2. FilesInv'
  BY DEF IInv, FilesInv, WriteFile, Conversation
<1>3. HeldInv'
  BY HeldKept DEF IInv, WriteFile, storeVars
<1>4. TableInv' /\ RecordInv'
  BY StoresKept DEF IInv, WriteFile
<1> QED
  BY <1>1, <1>2, <1>3, <1>4 DEF IInv

LEMMA CheckImagesInv ==
  ASSUME IInv, CheckImages
  PROVE  IInv'
<1>1. TypeOK'
  BY DEF IInv, TypeOK, CheckImages, storeVars, fileVars
<1>2. FilesInv'
  BY DEF IInv, FilesInv, CheckImages, fileVars, Conversation
<1>3. HeldInv'
  BY HeldKept DEF IInv, CheckImages, storeVars
<1>4. TableInv' /\ RecordInv'
  BY StoresKept DEF IInv, CheckImages
<1> QED
  BY <1>1, <1>2, <1>3, <1>4 DEF IInv

LEMMA SucceedInv ==
  ASSUME IInv, Succeed
  PROVE  IInv'
<1>1. CASE UNCHANGED record
  BY <1>1, EndInv DEF Succeed, storeVars
<1>2. CASE Persistent /\ record' = [record EXCEPT ![key] = SpecForStorage(held.spec)]
  <2>1. /\ held.spec \in Specs /\ key \in Keys /\ Done /\ UNCHANGED <<settings, sessions, upstream>>
    BY <1>2 DEF Succeed, IInv, TypeOK, Persistent
  <2>2. SpecForStorage(held.spec) \in Stored
    BY <2>1 DEF Stored
  <2>3. TypeOK'
    BY <1>2, <2>1, <2>2, TypeDone DEF IInv, TypeOK
  <2>4. TableInv'
    BY <2>1 DEF IInv, TableInv, Fits
  <2>5. upstream[key] # None => AgreesButSecret(SpecForStorage(held.spec), upstream[key])
    BY <1>2, <2>1, StoredAgrees DEF IInv, HeldInv, TableInv, Succeed
  <2>6. RecordInv'
    BY <1>2, <2>1, <2>5 DEF IInv, RecordInv, TypeOK
  <2> QED
    BY <2>1, <2>3, <2>4, <2>6, DoneInv DEF IInv
<1> QED
  BY <1>1, <1>2 DEF Succeed
LEMMA FailInv ==
  ASSUME IInv, Fail
  PROVE  IInv'
<1>1. CASE ~Persistent
  BY <1>1, EndInv DEF Fail
<1>2. CASE Persistent
  <2>1. key \in Keys /\ DestroyPersistent(key) /\ Done /\ UNCHANGED settings
    BY <1>2 DEF Fail, Persistent
  <2>2. TypeOK'
    BY <2>1, DestroyTypes, TypeDone DEF IInv, TypeOK
  <2>3. TableInv' /\ RecordInv'
    BY <2>1, DestroyTypes, ShrinkInv DEF IInv
  <2> QED
    BY <2>1, <2>2, <2>3, DoneInv DEF IInv
<1> QED
  BY <1>1, <1>2

LEMMA NextIInv == IInv /\ [Next]_vars => IInv'
<1> SUFFICES ASSUME IInv, [Next]_vars PROVE IInv'
  OBVIOUS
<1>1. CASE \E env \in Environments : Start(env)
  BY <1>1, StartInv
<1>2. CASE Stop
  BY <1>2, StopInv
<1>3. CASE \E k \in Keys : Destroy(k) \/ Forget(k)
  BY <1>3, DestroyInv, ForgetInv
<1>4. CASE \E b \in Accepted, token \in Tokens, id \in Ids : Receive(b, token, id)
  BY <1>4, ReceiveInv
<1>5. CASE Refuse \/ ConflictMapped \/ FetchFails \/ MakeDirFails \/ WriteFails \/ CheckFails
  BY <1>5, EndInv DEF Refuse, ConflictMapped, FetchFails, MakeDirFails, WriteFails, CheckFails
<1>6. CASE AcquireEphemeral \/ Reuse \/ ConflictStored \/ Resume \/ Create \/ AcquireFails
  BY <1>6, EphemeralInv, ReuseInv, ConflictStoredInv, ResumeOrCreateInv, AcquireFailsInv
<1>7. CASE FetchImages \/ MakeDir \/ WriteFile \/ CheckImages
  BY <1>7, FetchInv, MakeDirInv, WriteFileInv, CheckImagesInv
<1>8. CASE Succeed \/ Fail
  BY <1>8, SucceedInv, FailInv
<1>9. CASE UNCHANGED vars
  <2>1. UNCHANGED <<settings, storeVars, requestVars>>
    BY <1>9 DEF vars
  <2>2. TypeOK' /\ FilesInv' /\ HeldInv'
    BY <2>1 DEF IInv, TypeOK, FilesInv, HeldInv, storeVars, requestVars, fileVars, Conversation,
                Granted, Wanted, Fits, Persistent
  <2> QED
    BY <2>1, <2>2, StoresKept DEF IInv
<1> QED
  BY <1>1, <1>2, <1>3, <1>4, <1>5, <1>6, <1>7, <1>8, <1>9 DEF Next, Acquire, Prepare

\* The inductive invariant, of which the theorems below are consequences.
THEOREM Invariance == RequestSpec => []IInv
<1> QED
  BY InitIInv, NextIInv, PTL DEF RequestSpec

-----------------------------------------------------------------------------
(* The properties.                                                         *)

\* The types of the variables: what is stored holds no secrets, and what is
\* held was derived from a body that was accepted (session/manager.go,
\* httpapi/server.go).
THEOREM TypeCorrect == RequestSpec => []TypeOK
<1>1. IInv => TypeOK
  BY DEF IInv
<1> QED
  BY <1>1, Invariance, PTL

\* A turn runs in a session that is as its own request asks
\* (server.go:438-482, session/manager.go:116-146).
THEOREM AsAsked == RequestSpec => []SessionIsAsAsked
<1>1. IInv => SessionIsAsAsked
  BY ConfigAgrees, AgreeingAreSame DEF IInv, HeldInv, SessionIsAsAsked, Wanted
<1> QED
  BY <1>1, Invariance, PTL

\* No session permits more than the settings of the process that runs
\* (server.go:1242-1268, config.go:259-270).
THEOREM WithinSettings == RequestSpec => []PermissionWithinSettings
<1>1. IInv => PermissionWithinSettings
  BY DEF IInv, TypeOK, HeldInv, TableInv, Fits, PermissionWithinSettings
<1> QED
  BY <1>1, Invariance, PTL

\* No session runs an agent the running process has not defined
\* (server.go:1195-1240, config.go:365-393).
THEOREM KnownAgents == RequestSpec => []AgentsAreKnown
<1>1. IInv => AgentsAreKnown
  BY DEF IInv, TypeOK, HeldInv, TableInv, Fits, AgentsAreKnown
<1> QED
  BY <1>1, Invariance, PTL

\* A session that may ask has a client that can answer (server.go:420-423,
\* 1075-1077).
THEOREM AnswerableAskers == RequestSpec => []AskersCanBeAnswered
<1>1. ASSUME IInv PROVE AskersCanBeAnswered
  <2> SUFFICES ASSUME held # None,
                      \/ held.config.asksUser \/ DOMAIN held.config.tools # {}
                      \/ held.config.permissionHandler = "bridge"
               PROVE  Conversation.stream /\ Persistent
    BY DEF AskersCanBeAnswered
  <2>1. Granted /\ key \in Tokens \X Ids /\ Agrees(Wanted, held.config)
    BY <1>1 DEF IInv, TypeOK, HeldInv
  <2>2. /\ held.config.asksUser = Conversation.x.interactive
        /\ held.config.tools = Bag(Conversation.x.tools)
        /\ held.config.permissionHandler = EffectivePermission(settings, Conversation)
    BY <2>1 DEF Agrees, AgreesButSecret, Wanted, Spec
  <2>3. Conversation.x.tools = <<>> => DOMAIN held.config.tools = {}
    BY <2>2 DEF Bag, Elements
  <2>4. RequiresContinuation(settings, Conversation)
    BY <2>2, <2>3 DEF RequiresContinuation
  <2> QED
    BY <2>1, <2>4 DEF Granted, Admitted, FeaturesOK, Persistent, Keys
<1> QED
  BY <1>1, Invariance, PTL

\* The directory of a request's files is there for the turn, complete; and every
\* other is one that a stopped process left or the system would not remove
\* (server.go:227-230, 500-520, 1492-1518).
THEOREM FilesFollow == RequestSpec => []FilesFollowTheTurn
<1>1. IInv => FilesFollowTheTurn
  BY DEF IInv, FilesInv, FilesFollowTheTurn
<1> QED
  BY <1>1, Invariance, PTL

\* A conversation is continued with what it was begun with, also by a later
\* process with other settings (session/manager.go:150-196).
THEOREM AsBegun == RequestSpec => ContinuedAsBegun
<1>1. ASSUME IInv, [Next]_vars, held = None, held' # None, ~held'.created, upstream[key] # None
      PROVE  Same(held'.config, upstream[key], Fields \ {"secret"})
  <2>1. CASE Reuse
    <3>1. /\ sessions[key] # None /\ sessions[key].spec = Wanted /\ key \in Keys
          /\ held'.config = sessions[key].config
      BY <2>1 DEF Reuse, Hold, Persistent
    <3>2. AgreesButSecret(Wanted, sessions[key].config) /\ AgreesButSecret(Wanted, upstream[key])
      BY <1>1, <3>1 DEF IInv, TableInv, Agrees
    <3> QED
      BY <3>1, <3>2, AgreeingAreSameButSecret
  <2>2. CASE Resume
    <3>1. /\ pc = "received" /\ Granted /\ key \in Keys /\ Matches
          /\ held'.config = Config(settings, Conversation)
      BY <2>2 DEF Resume, Missing, Hold, Persistent
    <3>2. /\ Wanted \in Specs /\ SpecForStorage(Wanted) \in Stored
          /\ AgreesButSecret(Wanted, held'.config)
      BY <1>1, <3>1, WantedFacts DEF Agrees
    <3>3. AgreesButSecret(SpecForStorage(Wanted), upstream[key])
      BY <1>1, <3>1, <3>2, RequestsAssumption DEF IInv, RecordInv, Matches
    <3>4. AgreesButSecret(Wanted, upstream[key])
      BY <3>2, <3>3, StoredAgrees
    <3> QED
      BY <3>2, <3>4, AgreeingAreSameButSecret
  <2>3. CASE ~(Reuse \/ Resume)
    <3>1. ~Done /\ ~Stop
      BY <1>1 DEF Done, Ends, Stop
    <3>2. held' = held \/ held'.created = TRUE
      BY <1>1, <2>3, <3>1 DEF Next, Acquire, Prepare, Start, Destroy, Forget, Receive,
         Refuse, AcquireEphemeral, ConflictMapped, ConflictStored, Create, AcquireFails, Hold,
         FetchImages, FetchFails, MakeDir, MakeDirFails, WriteFile, WriteFails, CheckImages,
         CheckFails, Succeed, Fail, vars, requestVars
    <3> QED
      BY <1>1, <3>2
  <2> QED
    BY <2>1, <2>2, <2>3
<1> QED
  BY <1>1, Invariance, PTL DEF RequestSpec, ContinuedAsBegun

-----------------------------------------------------------------------------
(* The images of the turn.                                                 *)

\* A second inductive invariant, on top of IInv: the images are those of the
\* request, one for one, and a turn has none that nobody has looked at.
ImagesInv ==
  /\ pc \in {"images", "files", "sending"} => DOMAIN images = DOMAIN WantedImages
  /\ pc = "sending" => MaterializedImagesOK

LEMMA ImagesKept ==
  ASSUME ImagesInv, UNCHANGED <<pc, posted, held, images>>
  PROVE  ImagesInv'
BY DEF ImagesInv, WantedImages, Conversation, MaterializedImagesOK, ImagesChecked

LEMMA NextImagesInv ==
  ASSUME IInv, ImagesInv, [Next]_vars
  PROVE  ImagesInv'
<1>1. CASE Done \/ Stop
  BY <1>1 DEF Done, Ends, Stop, ImagesInv
<1>2. CASE UNCHANGED requestVars
  BY <1>2, ImagesKept DEF requestVars
<1>3. CASE \E b \in Accepted, token \in Tokens, id \in Ids : Receive(b, token, id)
  BY <1>3 DEF Receive, ImagesInv
<1>4. CASE AcquireEphemeral \/ Reuse \/ Resume \/ Create
  BY <1>4 DEF AcquireEphemeral, Reuse, Resume, Create, Hold, ImagesInv
<1>5. CASE FetchImages
  BY <1>5 DEF FetchImages, ImagesInv, WantedImages, Conversation
<1>6. CASE MakeDir
  BY <1>6 DEF MakeDir, ImagesInv, WantedImages, Conversation
<1>7. CASE WriteFile
  BY <1>7, ImagesKept DEF WriteFile
<1>8. CASE CheckImages
  BY <1>8 DEF CheckImages, ImagesInv, WantedImages, Conversation, MaterializedImagesOK, ImagesChecked
<1> QED
  BY <1>1, <1>2, <1>3, <1>4, <1>5, <1>6, <1>7, <1>8
  DEF Next, Acquire, Prepare, Start, Destroy, Forget, Refuse, ConflictMapped, ConflictStored,
      AcquireFails, FetchFails, MakeDirFails, WriteFails, CheckFails, Succeed, Fail, vars

\* The images of a turn are those of the request, and have been looked at.
THEOREM ImagesAreTheRequests == RequestSpec => []ImagesInv
<1>1. Init => ImagesInv
  BY DEF Init, ImagesInv
<1> QED
  BY <1>1, NextImagesInv, Invariance, PTL DEF RequestSpec

\* The images of a turn are what the session's model takes (server.go:1092-1193,
\* 1340-1400).
THEOREM ImagesFitTheModel == RequestSpec => []ImagesFitModel
<1>1. ASSUME IInv, ImagesInv, pc = "sending", images # <<>>, held.config.provider = None
      PROVE  LET model == Models[held.config.model] IN
             /\ model.vision /\ ImagesFit(model, images)
             /\ model.limits # None /\ model.limits.images > 0 => Len(images) <= model.limits.images
  <2>1. /\ settings \in Settings /\ posted \in Accepted /\ Granted
        /\ held.spec = Wanted /\ Agrees(held.spec, held.config)
    BY <1>1 DEF IInv, TypeOK, HeldInv
  <2>2. held.config.model = Wanted.model /\ held.config.provider = Wanted.provider
    BY <2>1 DEF Agrees, AgreesButSecret
  <2>3. Wanted.model = ResolveModel(settings, Conversation)
    BY DEF Wanted, Spec
  <2>4. Wanted.provider = None => Conversation.x.provider = None
    <3>1. Conversation.x.provider = posted.x.provider
      BY DEF Conversation, Parse, ParseOpenAI, ParseClaude
    <3> QED
      BY <2>1, <3>1, RequestsAssumption DEF Wanted, Spec
  <2>5. Conversation.x.provider = None
    BY <1>1, <2>2, <2>4
  <2>6. MaterializedImagesOK /\ ImagesChecked
    BY <1>1, <2>5 DEF ImagesInv, ImagesChecked
  <2>7. ImagesFit(Models[held.config.model], images)
    BY <2>1, <2>2, <2>6 DEF MaterializedImagesOK
  <2>8. DOMAIN images = DOMAIN WantedImages /\ Len(images) = Len(WantedImages) /\ WantedImages # <<>>
    BY <1>1, <2>1, RequestsAssumption DEF ImagesInv, IInv, TypeOK, WantedImages, Conversation
  <2>9. NeedsModel(Conversation)
    <3>1. Last(Conversation.turns) \in Elements(Conversation.turns)
      BY <2>1, TurnsFacts DEF Conversation
    <3> QED
      BY <2>5, <2>8, <3>1 DEF NeedsModel, WantedImages, Images
  <2>10. VisionOK(Models[held.config.model], WantedImages)
    BY <2>1, <2>2, <2>3, <2>8, <2>9 DEF Granted, Admitted, FeaturesOK, CapabilitiesOK, WantedImages
  <2> QED
    BY <2>7, <2>8, <2>10 DEF VisionOK
<1>2. IInv /\ ImagesInv => ImagesFitModel
  BY <1>1 DEF ImagesFitModel
<1> QED
  BY <1>2, Invariance, ImagesAreTheRequests, PTL

-----------------------------------------------------------------------------
(* What the session is told and offered.                                   *)

\* What the invariants say of a turn's session.
LEMMA TurnFacts ==
  ASSUME IInv, pc = "sending"
  PROVE  /\ posted \in Accepted /\ Conversation = Parse(posted) /\ Granted
         /\ held.config.message = SystemMessage(EffectiveMode(Conversation), Conversation.system)
         /\ held.config.tools = Bag(Conversation.x.tools)
<1>1. posted \in Accepted /\ Granted /\ held.spec = Wanted /\ AgreesButSecret(held.spec, held.config)
  BY DEF IInv, TypeOK, HeldInv, Agrees
<1> QED
  BY <1>1 DEF AgreesButSecret, Wanted, Spec, Conversation

LEMMA ToldFacts ==
  ASSUME IInv, pc = "sending"
  PROVE  /\ Elements(Conversation.system) \subseteq Told
         /\ Last(Conversation.turns).text \in Told
         /\ held.created => \A t \in Elements(Conversation.turns) : t.text \in Told
<1>1. /\ IsSequence(Conversation.turns) /\ Last(Conversation.turns) \in Elements(Conversation.turns)
  BY TurnFacts, TurnsFacts
<1>2. Elements(BuildPrompt(Conversation.turns)) = {t.text : t \in Elements(Conversation.turns)}
  BY <1>1, PromptFacts
<1>3. Elements(LatestUserPrompt(Conversation.turns)) = {Last(Conversation.turns).text}
  BY DEF LatestUserPrompt, Elements
<1>4. Elements(Prompt) \subseteq Told
  BY DEF Told
<1>5. Last(Conversation.turns).text \in Elements(Prompt)
  BY <1>1, <1>2, <1>3 DEF Prompt
<1>6. held.created => \A t \in Elements(Conversation.turns) : t.text \in Elements(Prompt)
  BY <1>2 DEF Prompt
<1>7. Elements(Conversation.system) \subseteq Told
  <2>1. CASE Conversation.system = <<>>
    BY <2>1 DEF Elements
  <2>2. CASE Conversation.system # <<>>
    <3>1. held.config.message = [mode |-> EffectiveMode(Conversation), content |-> Conversation.system]
      BY <2>2, TurnFacts DEF SystemMessage
    <3>2. [mode |-> EffectiveMode(Conversation), content |-> Conversation.system] # None
      BY TurnFacts, RequestsAssumption
    <3>3. held.config.message # None /\ held.config.message.content = Conversation.system
      BY <3>1, <3>2
    <3> QED
      BY <3>3 DEF Told
  <2> QED
    BY <2>1, <2>2
<1> QED
  BY <1>4, <1>5, <1>6, <1>7

\* A new session hears every text of its request and an old one what is new,
\* and the images of the last message that is no system message are all sent
\* (openai.go:250-284, claude.go:88-128, server.go:474-505).
THEOREM HistoryIsKept == RequestSpec => []NothingIsLost
<1>1. ASSUME IInv, ImagesInv, pc = "sending" PROVE NothingIsLost
  <2>1. /\ posted \in Accepted /\ Conversation = Parse(posted) /\ Granted
    BY <1>1, TurnFacts
  <2>2. ASSUME held.created PROVE Texts \ {""} \subseteq Told
    <3> DEFINE said == {t.text : t \in Elements(Parse(posted).turns)}
                         \cup Elements(Parse(posted).system) \cup {""}
    <3>1. said \subseteq Told \cup {""}
      BY <1>1, <2>1, <2>2, ToldFacts
    <3>2. /\ \A m \in Elements(posted.messages) : m.text \in said
          /\ posted.api # "openai" => posted.system.text \in said
          /\ posted.api = "openai" => posted.format \in said
          /\ posted.api = "openai" /\ posted.messages = <<>> => posted.prompt \in said
      BY <2>1, TextsFacts
    <3> HIDE DEF said
    <3>3. Texts \subseteq said
      BY <3>2 DEF Texts
    <3> QED
      BY <3>1, <3>3
  <2>3. Last(Conversation.turns).text \in Told
    BY <1>1, ToldFacts
  <2>4. ASSUME NEW i \in DOMAIN posted.messages, posted.messages[i].images # <<>>
        PROVE  /\ \A j \in i + 1..Len(posted.messages) : IsSystem(posted.messages[j])
               /\ Len(images) = Len(posted.messages[i].images)
    <3>1. AttachmentPlacementOK(Parse(posted).turns, FALSE)
      BY <2>1 DEF Granted, Admitted, FeaturesOK
    <3>2. /\ posted.messages[i] = Last(Parse(posted).turns)
          /\ \A j \in i + 1..Len(posted.messages) : IsSystem(posted.messages[j])
      BY <2>1, <2>4, <3>1, PlacementFacts
    <3>3. DOMAIN images = DOMAIN WantedImages /\ Len(images) = Len(WantedImages)
      BY <1>1, <2>1, RequestsAssumption DEF ImagesInv, IInv, TypeOK, WantedImages
    <3> QED
      BY <2>1, <3>2, <3>3 DEF WantedImages, Images
  <2> QED
    BY <2>2, <2>3, <2>4 DEF NothingIsLost
<1>2. IInv /\ ImagesInv => NothingIsLost
  BY <1>1 DEF NothingIsLost
<1> QED
  BY <1>2, Invariance, ImagesAreTheRequests, PTL

\* The session offers the extension's tools and of the standard ones what
\* tool_choice allows (openai.go:208-242, 386-467).
THEOREM ToolChoiceHonoured == RequestSpec => []ToolChoiceIsHonoured
<1>1. ASSUME IInv, pc = "sending", posted.api = "openai"
      PROVE  LET offered  == DOMAIN held.config.tools
                 choice   == ToolDirective(posted)
                 standard == offered \ Elements(posted.x.tools)
             IN /\ Elements(posted.x.tools) \subseteq offered
                /\ choice = "none" => standard = {}
                /\ choice = "auto" => standard = Elements(posted.tools) \ Elements(posted.x.tools)
                /\ choice \notin {"none", "auto"} =>
                     /\ \E t \in offered : t.name = choice
                     /\ \A t \in standard : t.name = choice
  <2>1. posted \in Accepted /\ held.config.tools = Bag(Parse(posted).x.tools)
    BY <1>1, TurnFacts
  <2>2. DOMAIN held.config.tools = Elements(StandardTools(posted)) \cup Elements(posted.x.tools)
    BY <1>1, <2>1, ToolsFacts DEF Bag
  <2> QED
    BY <1>1, <2>1, <2>2, ToolsFacts
<1>2. IInv => ToolChoiceIsHonoured
  BY <1>1 DEF ToolChoiceIsHonoured
<1> QED
  BY <1>2, Invariance, PTL
=============================================================================
