----------------------------- MODULE ProviderWiring -----------------------------
(***************************************************************************)
(* How the kernel wires up the providers of language models: which are     *)
(* registered and what their lists of models are taken to be               *)
(* (internal/kernel/providers.go, internal/provider/registry.go), what the *)
(* name of a model is resolved to, the order in which the failover wrapper *)
(* asks them (internal/kernel/app.go), and what each makes of a request    *)
(* for a model it may not have: every provider is asked for the model that *)
(* was resolved, under the same name.                                      *)
(*                                                                         *)
(* The vendors change between two steps: they are reached or not, release  *)
(* models and withdraw them.  The breakers and the interleavings of        *)
(* several requests are in FailoverProvider: here a request is one step.   *)
(***************************************************************************)
EXTENDS Integers, Sequences, FiniteSets, SequencesExt

CONSTANTS
  Models,           \* the names of models
  Curated,          \* those in the lists that are part of the program
  Prefixed,         \* those that begin as a vendor's names do
  Configurations,   \* the sets of providers to try
  MaxChanges        \* bound: changes at the vendors

ASSUME WiringConfig ==
  /\ Curated \subseteq Prefixed /\ Prefixed \subseteq Models
  /\ MaxChanges \in Nat

\* The order of RegisterProviders, with Plano behind all of them.
RegistrationOrder ==
  <<"openai", "azure-openai", "anthropic", "bedrock", "ollama", "vllm", "lmstudio", "groq",
    "mistral", "together", "openrouter", "nvidia", "cohere", "huggingface", "deepseek",
    "perplexity", "xai", "vertex", "plano">>

\* The order ResolveModel searches them in.
ByName ==
  <<"anthropic", "azure-openai", "bedrock", "cohere", "deepseek", "groq", "huggingface",
    "lmstudio", "mistral", "nvidia", "ollama", "openai", "openrouter", "perplexity", "plano",
    "together", "vertex", "vllm", "xai">>

ProviderNames == ToSet(RegistrationOrder)

ASSUME WiringNames ==
  ToSet(ByName) = ProviderNames /\ \A c \in Configurations : c \subseteq ProviderNames

First(order, S) == order[SelectInSeq(order, LAMBDA p : p \in S)]

\* Providers of OpenAI's protocol at an address of the user's, and without a list that
\* is part of the program.
AtUsersAddress == {"vllm", "lmstudio", "huggingface"}

Compatible == AtUsersAddress \union
  {"groq", "mistral", "together", "openrouter", "nvidia", "cohere", "deepseek", "perplexity",
   "xai"}

VARIABLES
  stage,        \* of the program: "off", "registering", "running" or "ended"
  configured,   \* the providers with settings
  wanted,       \* routing.default: [from, model], "any" for what it leaves open
  addressed,    \* the user's addresses are on this machine: "local" or "remote"
  hopeful,      \* Plano's fallback_provider, or "none"
  upVendors,    \* the vendors that can be reached
  offers,       \* the models each has
  everOffered,  \* history: the models each has ever had
  changes,
  awaiting,     \* configured providers that are not registered yet
  registered,
  lists,        \* the catalog: the models listed at registration
  bareVertex,   \* Vertex is registered without credentials
  fallbackOf,   \* the fallback Plano was given, or "none"
  chosen,       \* the provider and the model of the turns
  primaries,    \* the providers in the order they are asked in
  lastReply     \* of the last request, if the vendors have not changed since

settingVars == <<configured, wanted, addressed, hopeful>>

vendorVars == <<upVendors, offers, everOffered, changes>>

registryVars == <<awaiting, registered, lists, bareVertex, fallbackOf>>

wiringVars == <<stage, settingVars, vendorVars, registryVars, chosen, primaries, lastReply>>

Nobody == [from |-> "none", model |-> "none"]

NotAsked == [end |-> "none", asked |-> {}, streamed |-> FALSE, spurnedBy |-> {}]

WiringInit ==
  /\ stage = "off"
  /\ configured = {} /\ wanted = Nobody
  /\ addressed = "local" /\ hopeful = "none"
  /\ upVendors = ProviderNames
  /\ offers = [p \in ProviderNames |-> Curated]
  /\ everOffered = offers
  /\ changes = 0
  /\ awaiting = {} /\ registered = {}
  /\ lists = [p \in ProviderNames |-> {}]
  /\ bareVertex = FALSE /\ fallbackOf = "none"
  /\ chosen = Nobody /\ primaries = <<>>
  /\ lastReply = NotAsked

-----------------------------------------------------------------------------
(* The providers: what ListModels returns, {} also for an error, and the models *)
(* ValidateModel lets pass                                                      *)

Fetched(p) == IF p \in upVendors THEN offers[p] ELSE {}

\* Asked of the vendor each time.
OpenAIKnows(p) == [list |-> Fetched(p), valid |-> Fetched(p)]

OllamaKnows == [list |-> Fetched("ollama"), valid |-> Fetched("ollama")]

AnthropicKnows == [list |-> Curated, valid |-> Curated]

VertexKnows == [list |-> Curated, valid |-> Curated]

\* A name with a usual prefix is let through.
BedrockKnows == [list |-> Curated, valid |-> Prefixed]

\* The vendor's list and the program's; any name is let through, except by a server
\* elsewhere that has only a list of its own and does not give it.
CompatibleKnows(p) ==
  IF p \in AtUsersAddress
  THEN [list  |-> Fetched(p),
        valid |-> IF addressed = "remote" /\ p # "huggingface" /\ p \notin upVendors THEN {}
                  ELSE Models]
  ELSE [list |-> Fetched(p) \union Curated, valid |-> Models]

Knows(p) ==
  CASE p \in {"openai", "azure-openai"} -> OpenAIKnows(p)
    [] p = "anthropic"                  -> AnthropicKnows
    [] p = "bedrock"                    -> BedrockKnows
    [] p = "ollama"                     -> OllamaKnows
    [] p = "vertex"                     -> VertexKnows
    [] p \in Compatible                 -> CompatibleKnows(p)

\* Plano's list is that of its preferences; it vouches for any name while it is up,
\* its fallback while it is not.
PlanoKnows ==
  [list  |-> Fetched("plano") \union Curated,
   valid |-> IF "plano" \in upVendors THEN Models
             ELSE IF fallbackOf # "none" THEN Knows(fallbackOf).valid ELSE {}]

KnownTo(p) == IF p = "plano" THEN PlanoKnows ELSE Knows(p)

-----------------------------------------------------------------------------
(* What each makes of a request.  A turn streams its requests; drafts of mails, *)
(* images and the upkeep of the memory do not.                                 *)

\* The vendors may take a request for good or not: the key counts no longer, the account
\* may not use the model, the form of the request is not theirs (400, 401, 403).
ModelRequests == [model : {chosen.model}, streamed : BOOLEAN, spurnedBy : SUBSET configured]

\* So is a model refused that the vendor does not have; one that is not reached, or is
\* too busy, fails for now.
VendorReplies(p, r) ==
  IF p \notin upVendors THEN "fails"
  ELSE IF r.model \in offers[p] /\ p \notin r.spurnedBy THEN "answer" ELSE "refused"

\* Every error of AWS counts as one for now.
BedrockReplies(r) ==
  IF VendorReplies("bedrock", r) = "answer" THEN "answer" ELSE "fails"

\* The status of the response is not looked at: an error decodes to an empty reply.
OllamaReplies(r) ==
  IF VendorReplies("ollama", r) = "refused" THEN "empty" ELSE VendorReplies("ollama", r)

\* Vertex does not stream; no error of its is one for now, and there is no token without
\* credentials.
VertexReplies(r) ==
  IF r.streamed THEN "refused"
  ELSE IF bareVertex THEN "panic"
  ELSE IF VendorReplies("vertex", r) = "answer" THEN "answer" ELSE "refused"

RepliesAlone(p, r) ==
  CASE p = "bedrock" -> BedrockReplies(r)
    [] p = "ollama"  -> OllamaReplies(r)
    [] p = "vertex"  -> VertexReplies(r)
    [] OTHER         -> VendorReplies(p, r)

\* Plano passes a request it cannot serve to its fallback.
PlanoReplies(r) ==
  IF VendorReplies("plano", r) = "answer" \/ fallbackOf = "none" THEN VendorReplies("plano", r)
  ELSE RepliesAlone(fallbackOf, r)

ProviderReplies(p, r) == IF p = "plano" THEN PlanoReplies(r) ELSE RepliesAlone(p, r)

-----------------------------------------------------------------------------
(* The kernel *)

Wishes == [from : {"any"} \union ProviderNames, model : {"any"} \union Models]

\* A program is started with its settings: a name, a name with its provider, or nothing.
StartWiring ==
  /\ stage = "off" /\ stage' = "registering"
  /\ \E c \in Configurations, w \in Wishes, f \in {"none"} \union ProviderNames :
       /\ w.model = "any" => w.from = "any"
       /\ w.from \in c \union {"any"}
       /\ f \in c \union {"none"} /\ ("plano" \notin c => f = "none")
       /\ configured' = c /\ wanted' = w /\ hopeful' = f
       /\ addressed' \in (IF c \cap AtUsersAddress = {} THEN {"local"} ELSE {"local", "remote"})
       /\ awaiting' = c
  /\ UNCHANGED <<vendorVars, registered, lists, bareVertex, fallbackOf, chosen,
                 primaries, lastReply>>

\* Broken: a provider whose models cannot be listed is left out.
RegisterListed(p) ==
  /\ registered' = IF KnownTo(p).list = {} THEN registered ELSE registered \union {p}
  /\ lists' = [lists EXCEPT ![p] = KnownTo(p).list]

\* Registry.Register: the provider is kept when its models cannot be listed.
Register(p) ==
  /\ registered' = registered \union {p}
  /\ lists' = [lists EXCEPT ![p] = KnownTo(p).list]

\* The next of RegisterProviders.  Bedrock and Vertex are left out if their settings do
\* not load, Vertex is kept without credentials; Plano's fallback is one of those that
\* are registered by then.
RegisterNext ==
  /\ stage = "registering" /\ awaiting # {}
  /\ LET p == First(RegistrationOrder, awaiting) IN
       /\ awaiting' = awaiting \ {p}
       /\ \/ /\ Register(p)
             /\ bareVertex' \in (IF p = "vertex" THEN BOOLEAN ELSE {bareVertex})
          \/ /\ p \in {"bedrock", "vertex"}
             /\ UNCHANGED <<registered, lists, bareVertex>>
       /\ fallbackOf' = IF p = "plano" /\ hopeful \in registered THEN hopeful ELSE fallbackOf
  /\ UNCHANGED <<stage, settingVars, vendorVars, chosen, primaries, lastReply>>

\* Without a wish it is the first model of any provider that lists one now.
WishedFor ==
  IF wanted.model # "any" THEN {wanted}
  ELSE UNION {[from : {p}, model : KnownTo(p).list] : p \in registered}

\* ResolveModel: a name with its provider is looked up in the catalog and, if it is not
\* there, put to the provider; a bare name is looked up in the catalog only.
Resolved(w) ==
  IF w.from # "any"
  THEN IF w.from \in registered /\ w.model \in lists[w.from] \union KnownTo(w.from).valid
       THEN w ELSE Nobody
  ELSE LET listing == {p \in registered : w.model \in lists[p]} IN
       IF listing = {} THEN Nobody ELSE [from |-> First(ByName, listing), model |-> w.model]

\* The resolved provider is asked first, then all others in the order of a Go map.
WireUp ==
  /\ stage = "registering" /\ awaiting = {}
  /\ \/ \E w \in WishedFor :
          /\ Resolved(w) # Nobody
          /\ chosen' = Resolved(w)
          /\ \E others \in SetToSeqs(registered \ {Resolved(w).from}) :
               primaries' = <<Resolved(w).from>> \o others
          /\ stage' = "running"
     \/ /\ WishedFor = {} \/ \E w \in WishedFor : Resolved(w) = Nobody
        /\ stage' = "ended"
        /\ UNCHANGED <<chosen, primaries>>
  /\ UNCHANGED <<settingVars, vendorVars, registryVars, lastReply>>

\* The first provider that does not fail for now has the last word; behind all of them
\* is the local model, if there is one: it cannot stream, and may fail.
LastWord(r) == SelectInSeq(primaries, LAMBDA p : ProviderReplies(p, r) # "fails")

AskProviders == \E r \in ModelRequests, local \in BOOLEAN :
  /\ stage = "running"
  /\ LET n == LastWord(r) IN
     lastReply' =
       [end |-> IF n # 0 THEN ProviderReplies(primaries[n], r)
                ELSE IF local /\ ~r.streamed THEN "answer" ELSE "fails",
        asked |-> ToSet(IF n # 0 THEN SubSeq(primaries, 1, n) ELSE primaries),
        streamed |-> r.streamed, spurnedBy |-> r.spurnedBy]
  /\ UNCHANGED <<stage, settingVars, vendorVars, registryVars, chosen, primaries>>

-----------------------------------------------------------------------------
(* The vendors *)

\* A request is judged by what the vendors had when it was made.
VendorChanges == \E p \in configured :
  /\ stage \in {"registering", "running"} /\ changes < MaxChanges
  /\ changes' = changes + 1
  /\ \/ \* It goes down, or comes back.
        /\ upVendors' = IF p \in upVendors THEN upVendors \ {p} ELSE upVendors \union {p}
        /\ UNCHANGED <<offers, everOffered>>
     \/ \* A new model, or an old one withdrawn.
        \E m \in Prefixed :
          /\ offers' = [offers EXCEPT ![p] = IF m \in @ THEN @ \ {m} ELSE @ \union {m}]
          /\ everOffered' = [everOffered EXCEPT ![p] = @ \union {m}]
          /\ UNCHANGED upVendors
  /\ lastReply' = NotAsked
  /\ UNCHANGED <<stage, settingVars, registryVars, chosen, primaries>>

WiringNext == StartWiring \/ RegisterNext \/ WireUp \/ AskProviders \/ VendorChanges

-----------------------------------------------------------------------------
(* Properties *)

WiringTypeOK ==
  /\ stage \in {"off", "registering", "running", "ended"}
  /\ configured \in Configurations \union {{}}
  /\ wanted \in Wishes \union {Nobody} /\ chosen \in Wishes \union {Nobody}
  /\ addressed \in {"local", "remote"} /\ bareVertex \in BOOLEAN
  /\ {hopeful, fallbackOf} \subseteq ProviderNames \union {"none"}
  /\ upVendors \subseteq ProviderNames
  /\ DOMAIN offers = ProviderNames /\ DOMAIN lists = ProviderNames
  /\ \A p \in ProviderNames :
       /\ offers[p] \subseteq everOffered[p] /\ everOffered[p] \subseteq Models
       /\ lists[p] \subseteq Models
  /\ awaiting \subseteq configured /\ registered \subseteq configured
  /\ ToSet(primaries) \subseteq registered /\ Len(primaries) <= Cardinality(registered)
  /\ lastReply.end \in {"none", "answer", "empty", "refused", "fails", "panic"}
  /\ lastReply.asked \subseteq registered /\ lastReply.spurnedBy \subseteq configured
  /\ changes \in 0..MaxChanges

\* "Create a minimal ModelInfo AFTER validating with the provider": a program runs with a
\* name its provider's vendor never had only if the provider is one that lets names
\* through (a name with a vendor's prefix at Bedrock, any name at Plano and the
\* compatible ones), however the vendors changed while it started.
NamesAreVouchedFor == stage = "running" /\ chosen.model \notin everOffered[chosen.from] =>
  \/ chosen.from \in Compatible \union {"plano"}
  \/ chosen.from = "bedrock" /\ chosen.model \in Prefixed

\* A provider that ends the last request without an answer: it is reached, but has not the
\* model or takes the request for good for none of its own; Vertex for any reason, if the
\* request is a turn's or there are no credentials above all.
EndsIt(p) ==
  \/ p \in upVendors /\ (chosen.model \notin offers[p] \/ p \in lastReply.spurnedBy)
  \/ p = "vertex" /\ (lastReply.streamed \/ bareVertex \/ p \notin upVendors)

\* "This allows connecting to unreachable local providers without blocking startup": a
\* request ends without an answer only if the provider of the model was not reached or
\* ended it, and every provider that was registered failed for now, one that was down
\* when the program started included, or one that was asked ended it; a provider that is
\* reached, has the model and takes the request is never passed over.
RequestsAreServed == lastReply.end \notin {"none", "answer"} =>
  /\ chosen.from \notin upVendors \/ EndsIt(chosen.from)
  /\ IF lastReply.end = "fails"
     THEN lastReply.asked = configured \ ({"bedrock", "vertex"} \ registered)
     ELSE \E p \in lastReply.asked
                  \union (IF "plano" \in lastReply.asked THEN {fallbackOf} \ {"none"} ELSE {}) :
            EndsIt(p)

WiringHolds == NamesAreVouchedFor /\ RequestsAreServed
=============================================================================
