---------------------------- MODULE ModelRegistry ----------------------------
(***************************************************************************)
(* The registry of models: the built-in ones and those extensions register *)
(* for a provider, kept in one flat map keyed by "provider:id".            *)
(*                                                                         *)
(* A name is the sequence of its parts between colons, so that the key is  *)
(* the concatenation; the fields a model is only described by (its name,   *)
(* cost, context window, ...) and its merged headers are one value, about. *)
(***************************************************************************)
EXTENDS Integers, Sequences, FiniteSetsExt

CONSTANTS
  Providers,   \* provider names
  Ids,         \* model ids
  Abouts,      \* what describes a model
  Apis,        \* API types
  Urls,        \* base URLs
  ApiKeys,     \* credentials, and names of environment variables
  Names,       \* what can name a variable: capital letters and underscores, no digit
  Configs,     \* the configurations extensions register
  BuiltIn,     \* the models pi-ai knows: a map from keys to models
  Env,         \* the environment variables that are set and not empty: a map to credentials
  Storage,     \* AuthStorage: a credential for each provider, or None
  DefaultApi,  \* "anthropic-messages"
  EmptyUrl,    \* ""
  MaxCalls,    \* bound: registrations of a provider before it is unregistered
  None         \* a field that is undefined

KeyOf(p, i) == p \o i

Model == [id : Ids, about : Abouts, api : Apis, provider : Providers, baseUrl : Urls]

ModelConfig == [id : Ids, about : Abouts, api : Apis \cup {None}]

Config == [models : Seq(ModelConfig) \cup {None}, baseUrl : Urls \cup {None},
           apiKey : ApiKeys \cup {None}, api : Apis \cup {None}]

\* An empty base URL overrides nothing, and an empty key is no key: such a configuration is one
\* without the field.
ASSUME RegistryAssumption ==
  /\ Configs \subseteq Config
  /\ EmptyUrl \in Urls /\ DefaultApi \in Apis
  /\ \A c \in Configs : c.baseUrl # EmptyUrl
  /\ None \notin Model \cup Urls \cup Apis \cup ApiKeys \cup Seq(ModelConfig) \cup Config

\* No two names make the same key.  The code does not enforce it: a provider whose name holds a
\* colon can share a key with another one.
ASSUME KeysDistinct ==
  \A p, q \in Providers, i, j \in Ids : KeyOf(p, i) = KeyOf(q, j) => p = q /\ i = j

\* Every model of a map is kept under the key of its own provider and id.
KeptByKey(map) ==
  \A k \in DOMAIN map : map[k] \in Model /\ k = KeyOf(map[k].provider, map[k].id)

ASSUME BuiltInAssumption == KeptByKey(BuiltIn)

VARIABLES
  models,       \* _models: a map from keys to models
  registered,   \* _registeredProviders: a provider's configuration, or None
  calls         \* history: the configurations a provider was registered with since it was not

vars == <<models, registered, calls>>
-----------------------------------------------------------------------------
Init ==
  /\ models = BuiltIn
  /\ registered = [p \in Providers |-> None]
  /\ calls = [p \in Providers |-> <<>>]

\* What `map' holds of the providers other than p, and of p.
Without(map, p) == [k \in {l \in DOMAIN map : map[l].provider # p} |-> map[k]]
Of(map, p) == [k \in {l \in DOMAIN map : map[l].provider = p} |-> map[k]]

\* The entries of f set in g (TLC's @@, which the provers do not know).
SetIn(f, g) ==
  [k \in DOMAIN f \cup DOMAIN g |-> IF k \in DOMAIN f THEN f[k] ELSE g[k]]

Or(a, b) == IF a = None THEN b ELSE a

CreateModel(p, m, c) ==
  [id |-> m.id, about |-> m.about, api |-> Or(m.api, Or(c.api, DefaultApi)),
   provider |-> p, baseUrl |-> Or(c.baseUrl, EmptyUrl)]

\* The models a configuration lists; of two with the same id the later one is set last.
Listed(p, c) ==
  [k \in {KeyOf(p, c.models[n].id) : n \in DOMAIN c.models} |->
     CreateModel(p, c.models[Max({n \in DOMAIN c.models : KeyOf(p, c.models[n].id) = k})], c)]

\* Mutant: the models the provider had stay.
RegisterProviderKeepsModels(p, c) ==
  /\ Len(calls[p]) < MaxCalls
  /\ registered' = [registered EXCEPT ![p] = c]
  /\ calls' = [calls EXCEPT ![p] = Append(@, c)]
  /\ models' = IF c.models # None THEN SetIn(Listed(p, c), models)
               ELSE IF c.baseUrl = None THEN models
               ELSE [k \in DOMAIN models |-> IF models[k].provider = p
                                             THEN [models[k] EXCEPT !.baseUrl = c.baseUrl]
                                             ELSE models[k]]

RegisterProvider(p, c) ==
  /\ Len(calls[p]) < MaxCalls
  /\ registered' = [registered EXCEPT ![p] = c]
  /\ calls' = [calls EXCEPT ![p] = Append(@, c)]
  /\ \/ /\ c.models # None
        /\ models' = SetIn(Listed(p, c), Without(models, p))
     \/ /\ c.models = None /\ c.baseUrl # None
        /\ models' = [k \in DOMAIN models |-> IF models[k].provider = p
                                              THEN [models[k] EXCEPT !.baseUrl = c.baseUrl]
                                              ELSE models[k]]
     \/ /\ c.models = None /\ c.baseUrl = None
        /\ UNCHANGED models

\* Mutant: the configuration of the provider stays.
UnregisterProviderKeepsConfig(p) ==
  /\ registered[p] # None
  /\ calls' = [calls EXCEPT ![p] = <<>>]
  /\ models' = SetIn(Of(BuiltIn, p), Without(models, p))
  /\ UNCHANGED registered

UnregisterProvider(p) ==
  /\ registered[p] # None
  /\ registered' = [registered EXCEPT ![p] = None]
  /\ calls' = [calls EXCEPT ![p] = <<>>]
  /\ models' = SetIn(Of(BuiltIn, p), Without(models, p))

Next == \E p \in Providers : \/ \E c \in Configs : RegisterProvider(p, c)
                             \/ UnregisterProvider(p)

Spec == Init /\ [][Next]_vars
-----------------------------------------------------------------------------
Lookup(map, k) == IF k \in DOMAIN map THEN map[k] ELSE None

Find(p, i) == Lookup(models, KeyOf(p, i))

\* The value of an environment variable, if the key looks like a name and the variable is set.
Resolve(key) == IF key \in Names /\ key \in DOMAIN Env THEN Env[key] ELSE key

\* getApiKey: the configuration's own key; with no configuration, or one without a key, what
\* AuthStorage has.
GetApiKey(p) ==
  IF registered[p] # None /\ registered[p].apiKey # None THEN Resolve(registered[p].apiKey)
                                                         ELSE Storage[p]
-----------------------------------------------------------------------------
(***************************************************************************)
(* Properties                                                              *)
(***************************************************************************)

\* The state is well-formed: every model is kept under its own provider and id (this is what makes
\* `model.provider === name' select a provider's models), and history agrees with the state.
TypeOK ==
  /\ KeptByKey(models)
  /\ registered \in [Providers -> Configs \cup {None}]
  /\ calls \in [Providers -> Seq(Configs)]

\* The greatest element of a set of positive numbers, or 0.
Latest(S) == IF S = {} THEN 0 ELSE Max(S)

LastListing(log) == Latest({j \in DOMAIN log : log[j].models # None})

LastUrl(log) == Latest({j \in DOMAIN log : log[j].baseUrl # None})

\* What a provider offers under an id by the last list of models in its log, or built in if there is
\* none.
Offered(p, i, log) ==
  IF LastListing(log) = 0 THEN Lookup(Of(BuiltIn, p), KeyOf(p, i))
                          ELSE Lookup(Listed(p, log[LastListing(log)]), KeyOf(p, i))

Promised(p, i, log) ==
  IF Offered(p, i, log) # None /\ LastUrl(log) > LastListing(log)
  THEN [Offered(p, i, log) EXCEPT !.baseUrl = log[LastUrl(log)].baseUrl]
  ELSE Offered(p, i, log)

\* The registry answers as its calls promise: a provider has the models of its last list, or the
\* built-in ones if it gave no list since it was last unregistered, with the base URL given after
\* that if one was.  No call for another provider shows.
LookupExplained ==
  \A p \in Providers, i \in Ids : Find(p, i) = Promised(p, i, calls[p])

\* The credential is that of the last registration alone, and AuthStorage's if it has none or the
\* provider is not registered: registering again with only a base URL drops the key of the
\* registration whose models stay, and unregistering leaves no key behind.
KeyExplained ==
  \A p \in Providers :
    LET n == Len(calls[p])
    IN  GetApiKey(p) = IF n = 0 \/ calls[p][n].apiKey = None THEN Storage[p]
                                                            ELSE Resolve(calls[p][n].apiKey)
=============================================================================
