------------------------- MODULE ModelRegistryProofs -------------------------
(***************************************************************************)
(* Proofs about ModelRegistry, for any providers, configurations and       *)
(* built-in models: the map is kept by key, it holds what the calls        *)
(* promise, and credentials follow the last registration.                  *)
(***************************************************************************)
EXTENDS ModelRegistry, NatLemmas

-----------------------------------------------------------------------------
(* Types *)

LEMMA SetInKept ==
  ASSUME NEW f, NEW g, KeptByKey(f), KeptByKey(g)
  PROVE  KeptByKey(SetIn(f, g))
BY DEF KeptByKey, SetIn

LEMMA CreateModelType ==
  ASSUME NEW p \in Providers, NEW c \in Config, NEW m \in ModelConfig
  PROVE  /\ CreateModel(p, m, c) \in Model
         /\ CreateModel(p, m, c).provider = p
         /\ CreateModel(p, m, c).id = m.id
<1>1. Or(m.api, Or(c.api, DefaultApi)) \in Apis
  BY RegistryAssumption DEF Or, ModelConfig, Config
<1>2. Or(c.baseUrl, EmptyUrl) \in Urls
  BY RegistryAssumption DEF Or, Config
<1>3. m.id \in Ids /\ m.about \in Abouts
  BY DEF ModelConfig
<1> QED
  BY <1>1, <1>2, <1>3 DEF CreateModel, Model

\* A list of models makes a map kept by key, of models of its provider.
LEMMA ListedKept ==
  ASSUME NEW p \in Providers, NEW c \in Configs, c.models # None
  PROVE  KeptByKey(Listed(p, c)) /\ \A k \in DOMAIN Listed(p, c) : Listed(p, c)[k].provider = p
<1> DEFINE At(k) == {n \in DOMAIN c.models : KeyOf(p, c.models[n].id) = k}
<1>1. c \in Config /\ c.models \in Seq(ModelConfig)
  BY RegistryAssumption DEF Config
<1>2. DOMAIN c.models = 1 .. Len(c.models) /\ Len(c.models) \in Nat
  BY <1>1
<1> SUFFICES ASSUME NEW k \in DOMAIN Listed(p, c)
             PROVE  /\ Listed(p, c)[k] \in Model /\ Listed(p, c)[k].provider = p
                    /\ k = KeyOf(p, Listed(p, c)[k].id)
  BY DEF KeptByKey
<1>3. k \in {KeyOf(p, c.models[n].id) : n \in DOMAIN c.models}
  BY DEF Listed
<1>4. At(k) # {} /\ At(k) \in SUBSET (1 .. Len(c.models))
  BY <1>2, <1>3
<1>5. Max(At(k)) \in At(k)
  BY <1>2, <1>4, MaxExists
<1> DEFINE m == c.models[Max(At(k))]
<1>6. m \in ModelConfig /\ KeyOf(p, m.id) = k
  <2>1. \A n \in DOMAIN c.models : c.models[n] \in ModelConfig
    BY <1>1
  <2>2. Max(At(k)) \in DOMAIN c.models /\ KeyOf(p, c.models[Max(At(k))].id) = k
    BY <1>5
  <2> QED
    BY <2>1, <2>2
<1>7. Listed(p, c)[k] = CreateModel(p, m, c)
  BY <1>3 DEF Listed
<1> QED
  BY <1>1, <1>6, <1>7, CreateModelType

LEMMA RegisterTypes ==
  ASSUME TypeOK, NEW p \in Providers, NEW c \in Configs, RegisterProvider(p, c)
  PROVE  TypeOK'
<1>1. registered' \in [Providers -> Configs \cup {None}] /\ calls' \in [Providers -> Seq(Configs)]
  BY DEF TypeOK, RegisterProvider
<1>2. CASE c.models # None
  <2>1. models' = SetIn(Listed(p, c), Without(models, p))
    BY <1>2 DEF RegisterProvider
  <2>2. KeptByKey(Without(models, p))
    BY DEF TypeOK, KeptByKey, Without
  <2>3. KeptByKey(models')
    BY <1>2, <2>1, <2>2, ListedKept, SetInKept
  <2> QED
    BY <1>1, <2>3 DEF TypeOK
<1>3. CASE c.models = None /\ c.baseUrl # None
  <2>1. c.baseUrl \in Urls
    BY <1>3, RegistryAssumption DEF Config
  <2>2. models' = [k \in DOMAIN models |-> IF models[k].provider = p
                                           THEN [models[k] EXCEPT !.baseUrl = c.baseUrl]
                                           ELSE models[k]]
    BY <1>3 DEF RegisterProvider
  <2>3. ASSUME NEW m \in Model
        PROVE  /\ [m EXCEPT !.baseUrl = c.baseUrl] \in Model
               /\ [m EXCEPT !.baseUrl = c.baseUrl].provider = m.provider
               /\ [m EXCEPT !.baseUrl = c.baseUrl].id = m.id
    BY <2>1 DEF Model
  <2>4. KeptByKey(models')
    BY <2>2, <2>3 DEF TypeOK, KeptByKey
  <2> QED
    BY <1>1, <2>4 DEF TypeOK
<1>4. CASE c.models = None /\ c.baseUrl = None
  BY <1>1, <1>4 DEF TypeOK, RegisterProvider, KeptByKey
<1> QED
  BY <1>2, <1>3, <1>4

LEMMA UnregisterTypes ==
  ASSUME TypeOK, NEW p \in Providers, UnregisterProvider(p)
  PROVE  TypeOK'
<1>1. registered' \in [Providers -> Configs \cup {None}]
  BY DEF TypeOK, UnregisterProvider
<1>2. calls' \in [Providers -> Seq(Configs)]
  <2>1. <<>> \in Seq(Configs)
    OBVIOUS
  <2> QED
    BY <2>1 DEF TypeOK, UnregisterProvider
<1>3. KeptByKey(models')
  <2>1. KeptByKey(Without(models, p)) /\ KeptByKey(Of(BuiltIn, p))
    BY BuiltInAssumption DEF TypeOK, KeptByKey, Without, Of
  <2>2. models' = SetIn(Of(BuiltIn, p), Without(models, p))
    BY DEF UnregisterProvider
  <2> QED
    BY <2>1, <2>2, SetInKept
<1> QED
  BY <1>1, <1>2, <1>3 DEF TypeOK

LEMMA InitTypes == Init => TypeOK
<1>1. <<>> \in Seq(Configs)
  OBVIOUS
<1> QED
  BY <1>1, BuiltInAssumption DEF Init, TypeOK, KeptByKey

\* The registry is well-formed: every model is under the key of its own provider and id.
THEOREM TypesHold == Spec => []TypeOK
<1>1. TypeOK /\ [Next]_vars => TypeOK'
  <2>1. CASE UNCHANGED vars
    BY <2>1 DEF TypeOK, KeptByKey, vars
  <2> QED
    BY <2>1, RegisterTypes, UnregisterTypes DEF Next
<1> QED
  BY <1>1, InitTypes, PTL DEF Spec
-----------------------------------------------------------------------------
(* What the maps hold *)

\* A model found under the key of a provider and an id is of that provider and id.
LEMMA KeyTells ==
  ASSUME NEW map, KeptByKey(map), NEW p \in Providers, NEW i \in Ids, KeyOf(p, i) \in DOMAIN map
  PROVE  map[KeyOf(p, i)] \in Model /\ map[KeyOf(p, i)].provider = p
<1>1. /\ map[KeyOf(p, i)] \in Model
      /\ KeyOf(p, i) = KeyOf(map[KeyOf(p, i)].provider, map[KeyOf(p, i)].id)
  BY DEF KeptByKey
<1>2. map[KeyOf(p, i)].provider \in Providers /\ map[KeyOf(p, i)].id \in Ids
  BY <1>1 DEF Model
<1> QED
  BY <1>1, <1>2, KeysDistinct

\* Models of p set in what a map holds of the other providers: p has those, the others what they had.
LEMMA SetInTells ==
  ASSUME NEW map, KeptByKey(map), NEW p \in Providers,
         NEW f, KeptByKey(f), \A k \in DOMAIN f : f[k].provider = p,
         NEW q \in Providers, NEW i \in Ids
  PROVE  Lookup(SetIn(f, Without(map, p)), KeyOf(q, i))
           = IF q = p THEN Lookup(f, KeyOf(q, i)) ELSE Lookup(map, KeyOf(q, i))
<1> DEFINE k == KeyOf(q, i)
           rest == Without(map, p)
<1>1. DOMAIN rest = {l \in DOMAIN map : map[l].provider # p} /\ \A l \in DOMAIN rest : rest[l] = map[l]
  BY DEF Without
<1>2. k \in DOMAIN map => map[k].provider = q
  BY KeyTells
<1>3. k \in DOMAIN f => q = p
  BY KeyTells
<1>4. Lookup(SetIn(f, rest), k) = IF k \in DOMAIN f THEN f[k]
                                  ELSE IF k \in DOMAIN rest THEN rest[k] ELSE None
  BY DEF Lookup, SetIn
<1> HIDE DEF k, rest
<1>5. Lookup(SetIn(f, rest), k) = IF q = p THEN Lookup(f, k) ELSE Lookup(map, k)
  BY <1>1, <1>2, <1>3, <1>4 DEF Lookup
<1> QED
  BY <1>5 DEF k, rest

-----------------------------------------------------------------------------
(* The log of calls *)

LEMMA LatestBounds ==
  ASSUME NEW n \in Nat, NEW S \in SUBSET (1 .. n)
  PROVE  Latest(S) \in 0 .. n /\ (Latest(S) # 0 => Latest(S) \in S)
<1>1. CASE S = {}
  BY <1>1 DEF Latest
<1>2. CASE S # {}
  <2>1. Max(S) \in S
    BY <1>2, MaxExists
  <2>2. Max(S) \in 1 .. n
    BY <2>1
  <2>3. Latest(S) = Max(S)
    BY <1>2 DEF Latest
  <2> QED
    BY <2>1, <2>2, <2>3
<1> QED
  BY <1>1, <1>2

\* A call that lists models is the last to do so, one that does not leaves the last; base URLs alike.
LEMMA LatestOfAppend ==
  ASSUME NEW log \in Seq(Configs), NEW c \in Configs
  PROVE  /\ LastListing(log) \in 0 .. Len(log) /\ LastUrl(log) \in 0 .. Len(log)
         /\ LastListing(Append(log, c)) = IF c.models # None THEN Len(log) + 1 ELSE LastListing(log)
         /\ LastUrl(Append(log, c)) = IF c.baseUrl # None THEN Len(log) + 1 ELSE LastUrl(log)
<1> DEFINE n == Len(log)
           new == Append(log, c)
           L == {j \in DOMAIN log : log[j].models # None}
           U == {j \in DOMAIN log : log[j].baseUrl # None}
           L2 == {j \in DOMAIN new : new[j].models # None}
           U2 == {j \in DOMAIN new : new[j].baseUrl # None}
<1>1. /\ n \in Nat /\ DOMAIN log = 1 .. n /\ DOMAIN new = 1 .. (n + 1)
      /\ new[n + 1] = c /\ \A j \in 1 .. n : new[j] = log[j]
  OBVIOUS
<1>2. L \in SUBSET (1 .. n) /\ U \in SUBSET (1 .. n)
  BY <1>1
<1>3. L2 = (IF c.models # None THEN L \cup {n + 1} ELSE L)
      /\ U2 = (IF c.baseUrl # None THEN U \cup {n + 1} ELSE U)
  BY <1>1
<1>4. ASSUME NEW S \in SUBSET (1 .. n) PROVE Latest(S \cup {n + 1}) = n + 1
  <2>1. n + 1 \in Nat /\ S \cup {n + 1} \in SUBSET (1 .. (n + 1))
    <3> HIDE DEF n
    <3>1. n \in Nat
      BY <1>1
    <3>2. \A x \in S : x \in 1 .. (n + 1)
      BY <3>1
    <3> QED
      BY <3>1, <3>2
  <2>2. Max(S \cup {n + 1}) = n + 1
    BY <2>1, MaxIsBound
  <2> QED
    BY <2>2 DEF Latest
<1>5. LastListing(log) = Latest(L) /\ LastUrl(log) = Latest(U)
      /\ LastListing(new) = Latest(L2) /\ LastUrl(new) = Latest(U2)
  BY DEF LastListing, LastUrl
<1>6. Latest(L) \in 0 .. n /\ Latest(U) \in 0 .. n
  BY <1>1, <1>2, LatestBounds
<1>7. Latest(L \cup {n + 1}) = n + 1 /\ Latest(U \cup {n + 1}) = n + 1
  BY <1>2, <1>4
<1> HIDE DEF n, new, L, U, L2, U2
<1>8. /\ LastListing(log) \in 0 .. n /\ LastUrl(log) \in 0 .. n
      /\ LastListing(new) = IF c.models # None THEN n + 1 ELSE LastListing(log)
      /\ LastUrl(new) = IF c.baseUrl # None THEN n + 1 ELSE LastUrl(log)
  BY <1>3, <1>5, <1>6, <1>7
<1> QED
  BY <1>8 DEF n, new

-----------------------------------------------------------------------------
(* Lookups *)

LEMMA LookupType ==
  ASSUME NEW map, KeptByKey(map), NEW k
  PROVE  /\ Lookup(map, k) \in Model \cup {None}
         /\ Lookup(map, k) # None <=> k \in DOMAIN map
BY RegistryAssumption DEF Lookup, KeptByKey

LEMMA OfferedType ==
  ASSUME NEW p \in Providers, NEW i \in Ids, NEW log \in Seq(Configs)
  PROVE  Offered(p, i, log) \in Model \cup {None}
<1>1. KeptByKey(Of(BuiltIn, p))
  BY BuiltInAssumption DEF KeptByKey, Of
<1>2. ASSUME LastListing(log) # 0
      PROVE  KeptByKey(Listed(p, log[LastListing(log)]))
  <2> DEFINE L == {j \in DOMAIN log : log[j].models # None}
  <2>1. L \in SUBSET (1 .. Len(log)) /\ Len(log) \in Nat
    OBVIOUS
  <2>2. LastListing(log) \in L
    BY <1>2, <2>1, LatestBounds DEF LastListing
  <2>3. log[LastListing(log)] \in Configs /\ log[LastListing(log)].models # None
    BY <2>2
  <2> QED
    BY <2>3, ListedKept
<1> QED
  BY <1>1, <1>2, LookupType DEF Offered

\* A call that lists no models leaves what is offered.
LEMMA OfferedStays ==
  ASSUME NEW p \in Providers, NEW i \in Ids, NEW log \in Seq(Configs), NEW c \in Configs,
         c.models = None
  PROVE  Offered(p, i, Append(log, c)) = Offered(p, i, log)
<1>1. LastListing(Append(log, c)) = LastListing(log) /\ LastListing(log) \in 0 .. Len(log)
  BY LatestOfAppend
<1>2. LastListing(log) # 0 => Append(log, c)[LastListing(log)] = log[LastListing(log)]
  BY <1>1
<1> QED
  BY <1>1, <1>2 DEF Offered

LEMMA RegisterLookup ==
  ASSUME TypeOK, LookupExplained, NEW p \in Providers, NEW c \in Configs, RegisterProvider(p, c)
  PROVE  LookupExplained'
<1> DEFINE log == calls[p]
           new == Append(log, c)
<1>1. KeptByKey(models) /\ calls \in [Providers -> Seq(Configs)] /\ log \in Seq(Configs)
  BY DEF TypeOK
<1>2. calls' = [calls EXCEPT ![p] = new]
  BY DEF RegisterProvider
<1>3. /\ LastListing(log) \in 0 .. Len(log) /\ LastUrl(log) \in 0 .. Len(log) /\ Len(log) \in Nat
      /\ LastListing(new) = IF c.models # None THEN Len(log) + 1 ELSE LastListing(log)
      /\ LastUrl(new) = IF c.baseUrl # None THEN Len(log) + 1 ELSE LastUrl(log)
  BY <1>1, LatestOfAppend
<1>4. new[Len(log) + 1] = c /\ \A j \in 1 .. Len(log) : new[j] = log[j]
  BY <1>1
<1> SUFFICES ASSUME NEW q \in Providers, NEW i \in Ids
             PROVE  Lookup(models', KeyOf(q, i)) = Promised(q, i, calls'[q])
  BY DEF LookupExplained, Find
<1> DEFINE k == KeyOf(q, i)
<1>5. Lookup(models, k) = Promised(q, i, calls[q])
  BY DEF LookupExplained, Find
<1>6. k \in DOMAIN models => models[k] \in Model /\ models[k].provider = q
  BY <1>1, KeyTells
<1>7. calls'[p] = new /\ (q # p => calls'[q] = calls[q])
  BY <1>1, <1>2
<1> HIDE DEF log, new, k
<1>8. CASE c.models # None
  <2>1. models' = SetIn(Listed(p, c), Without(models, p))
    BY <1>8 DEF RegisterProvider
  <2>2. Lookup(models', k) = IF q = p THEN Lookup(Listed(p, c), k) ELSE Lookup(models, k)
    BY <1>1, <1>8, <2>1, ListedKept, SetInTells DEF k
  <2>3. CASE q # p
    BY <1>5, <1>7, <2>2, <2>3 DEF k
  <2>4. CASE q = p
    <3>1. LastListing(new) = Len(log) + 1 /\ LastListing(new) # 0 /\ ~(LastUrl(new) > LastListing(new))
      BY <1>3, <1>8
    <3>2. Offered(p, i, new) = Lookup(Listed(p, c), KeyOf(p, i))
      BY <1>4, <3>1 DEF Offered
    <3> QED
      BY <1>7, <2>2, <2>4, <3>1, <3>2 DEF Promised, k
  <2> QED
    BY <2>3, <2>4
<1>9. CASE c.models = None /\ c.baseUrl # None
  <2>1. models' = [l \in DOMAIN models |-> IF models[l].provider = p
                                           THEN [models[l] EXCEPT !.baseUrl = c.baseUrl]
                                           ELSE models[l]]
    BY <1>9 DEF RegisterProvider
  <2>2. CASE q # p
    <3>1. Lookup(models', k) = Lookup(models, k)
      BY <1>6, <2>1, <2>2 DEF Lookup
    <3> QED
      BY <1>5, <1>7, <2>2, <3>1 DEF k
  <2>3. CASE q = p
    <3> DEFINE o == Offered(p, i, log)
    <3>1. o \in Model \cup {None} /\ Offered(p, i, new) = o
      BY <1>1, <1>9, OfferedType, OfferedStays DEF new
    <3>2. LastUrl(new) = Len(log) + 1 /\ LastUrl(new) > LastListing(new)
      BY <1>3, <1>9
    <3>3. Promised(p, i, new) = IF o # None THEN [o EXCEPT !.baseUrl = c.baseUrl] ELSE o
      BY <1>4, <3>1, <3>2 DEF Promised
    <3>4. Lookup(models', k) = IF k \in DOMAIN models THEN [models[k] EXCEPT !.baseUrl = c.baseUrl]
                                                     ELSE None
      BY <1>6, <2>1, <2>3 DEF Lookup
    <3>5. Lookup(models, k) = IF o # None /\ LastUrl(log) > LastListing(log)
                              THEN [o EXCEPT !.baseUrl = log[LastUrl(log)].baseUrl]
                              ELSE o
      BY <1>5, <2>3 DEF Promised, log
    <3>6. ASSUME o # None, LastUrl(log) > LastListing(log)
          PROVE  log[LastUrl(log)].baseUrl \in Urls
      <4>1. LastUrl(log) # 0
        BY <1>3, <3>6
      <4> DEFINE U == {j \in DOMAIN log : log[j].baseUrl # None}
      <4>2. U \in SUBSET (1 .. Len(log))
        BY <1>1
      <4>3. LastUrl(log) \in U
        BY <1>3, <4>1, <4>2, LatestBounds DEF LastUrl
      <4>4. log[LastUrl(log)] \in Configs /\ log[LastUrl(log)].baseUrl # None
        BY <1>1, <4>3
      <4> QED
        BY <4>4, RegistryAssumption DEF Config
    <3>7. k \in DOMAIN models <=> Lookup(models, k) # None
      BY <1>1, LookupType
    <3>8. k \in DOMAIN models => models[k] = Lookup(models, k)
      BY DEF Lookup
    <3> HIDE DEF o
    <3>9. CASE o = None
      BY <1>7, <2>3, <3>3, <3>4, <3>5, <3>7, <3>9 DEF k
    <3>10. CASE o # None /\ ~(LastUrl(log) > LastListing(log))
      BY <1>7, <2>3, <3>3, <3>4, <3>5, <3>7, <3>8, <3>10 DEF k
    <3>11. CASE o # None /\ LastUrl(log) > LastListing(log)
      <4> DEFINE u == log[LastUrl(log)].baseUrl
      <4>1. o \in Model /\ u \in Urls
        BY <3>1, <3>6, <3>11
      <4>2. Lookup(models, k) = [o EXCEPT !.baseUrl = u]
        BY <3>5, <3>11
      <4> HIDE DEF u
      <4>3. [o EXCEPT !.baseUrl = u] \in Model
        BY <4>1 DEF Model
      <4>4. k \in DOMAIN models /\ models[k] = [o EXCEPT !.baseUrl = u]
        BY <3>7, <3>8, <4>2, <4>3, RegistryAssumption
      <4>5. [[o EXCEPT !.baseUrl = u] EXCEPT !.baseUrl = c.baseUrl] = [o EXCEPT !.baseUrl = c.baseUrl]
        BY <4>1 DEF Model
      <4> QED
        BY <1>7, <2>3, <3>3, <3>4, <3>11, <4>4, <4>5 DEF k
    <3> QED
      BY <3>9, <3>10, <3>11
  <2> QED
    BY <2>2, <2>3
<1>10. CASE c.models = None /\ c.baseUrl = None
  <2>1. models' = models
    BY <1>10 DEF RegisterProvider
  <2>2. CASE q # p
    BY <1>5, <1>7, <2>1, <2>2 DEF k
  <2>3. CASE q = p
    <3>1. Offered(p, i, new) = Offered(p, i, log)
      BY <1>1, <1>10, OfferedStays DEF new
    <3>2. LastListing(new) = LastListing(log) /\ LastUrl(new) = LastUrl(log)
      BY <1>3, <1>10
    <3>3. LastUrl(log) > LastListing(log) => new[LastUrl(log)] = log[LastUrl(log)]
      BY <1>3, <1>4
    <3>4. Promised(p, i, new) = Promised(p, i, log)
      BY <3>1, <3>2, <3>3 DEF Promised
    <3> QED
      BY <1>5, <1>7, <2>1, <2>3, <3>4 DEF k, log
  <2> QED
    BY <2>2, <2>3
<1> QED
  BY <1>8, <1>9, <1>10

LEMMA EmptyLog == LastListing(<<>>) = 0 /\ LastUrl(<<>>) = 0
<1>1. \A S : S = {} => Latest(S) = 0
  BY DEF Latest
<1> QED
  BY <1>1 DEF LastListing, LastUrl

LEMMA PromisedBuiltIn ==
  ASSUME NEW p \in Providers, NEW i \in Ids
  PROVE  Promised(p, i, <<>>) = Lookup(Of(BuiltIn, p), KeyOf(p, i))
BY EmptyLog DEF Promised, Offered

LEMMA UnregisterLookup ==
  ASSUME TypeOK, LookupExplained, NEW p \in Providers, UnregisterProvider(p)
  PROVE  LookupExplained'
<1>1. KeptByKey(models) /\ calls \in [Providers -> Seq(Configs)]
  BY DEF TypeOK
<1>2. KeptByKey(Of(BuiltIn, p)) /\ \A k \in DOMAIN Of(BuiltIn, p) : Of(BuiltIn, p)[k].provider = p
  BY BuiltInAssumption DEF KeptByKey, Of
<1>3. models' = SetIn(Of(BuiltIn, p), Without(models, p)) /\ calls' = [calls EXCEPT ![p] = <<>>]
  BY DEF UnregisterProvider
<1> SUFFICES ASSUME NEW q \in Providers, NEW i \in Ids
             PROVE  Lookup(models', KeyOf(q, i)) = Promised(q, i, calls'[q])
  BY DEF LookupExplained, Find
<1>4. Lookup(models', KeyOf(q, i))
        = IF q = p THEN Lookup(Of(BuiltIn, p), KeyOf(q, i)) ELSE Lookup(models, KeyOf(q, i))
  BY <1>1, <1>2, <1>3, SetInTells
<1>5. CASE q = p
  BY <1>1, <1>3, <1>4, <1>5, PromisedBuiltIn
<1>6. CASE q # p
  BY <1>1, <1>3, <1>4, <1>6 DEF LookupExplained, Find
<1> QED
  BY <1>5, <1>6

LEMMA InitLookup == Init => LookupExplained
<1> SUFFICES ASSUME Init, NEW p \in Providers, NEW i \in Ids
             PROVE  Lookup(BuiltIn, KeyOf(p, i)) = Lookup(Of(BuiltIn, p), KeyOf(p, i))
  BY PromisedBuiltIn DEF Init, LookupExplained, Find
<1>1. KeyOf(p, i) \in DOMAIN BuiltIn => BuiltIn[KeyOf(p, i)].provider = p
  BY KeyTells, BuiltInAssumption
<1> QED
  BY <1>1 DEF Lookup, Of

\* The registry answers as its calls promise, for every provider: the last list of models given, or
\* the built-in ones, with the base URL given last after it.
THEOREM LookupsExplained == Spec => []LookupExplained
<1>1. TypeOK /\ LookupExplained /\ [Next]_vars => LookupExplained'
  <2>1. CASE UNCHANGED vars
    BY <2>1 DEF LookupExplained, Find, Lookup, vars
  <2> QED
    BY <2>1, RegisterLookup, UnregisterLookup DEF Next
<1> QED
  BY <1>1, InitLookup, TypesHold, PTL DEF Spec

-----------------------------------------------------------------------------
(* Credentials *)

\* The configuration kept of a provider is that of the last call of its log.
LastKept ==
  \A p \in Providers :
    LET n == Len(calls[p])
    IN  IF n = 0 THEN registered[p] = None
                 ELSE registered[p] = calls[p][n] /\ calls[p][n] # None

\* A credential is that of a provider's last registration, and AuthStorage's without one.
THEOREM KeysExplained == Spec => []KeyExplained
<1>1. Init => LastKept
  BY DEF Init, LastKept
<1>2. TypeOK /\ LastKept /\ [Next]_vars => LastKept'
  <2> SUFFICES ASSUME TypeOK, LastKept, [Next]_vars PROVE LastKept'
    OBVIOUS
  <2>1. CASE UNCHANGED vars
    BY <2>1 DEF LastKept, vars
  <2>2. ASSUME NEW p \in Providers, NEW c \in Configs, RegisterProvider(p, c)
        PROVE  LastKept'
    <3>1. registered' = [registered EXCEPT ![p] = c] /\ calls' = [calls EXCEPT ![p] = Append(@, c)]
      BY <2>2 DEF RegisterProvider
    <3>2. calls[p] \in Seq(Configs) /\ c # None
      BY RegistryAssumption DEF TypeOK
    <3>3. Len(Append(calls[p], c)) # 0 /\ Append(calls[p], c)[Len(Append(calls[p], c))] = c
      BY <3>2
    <3> QED
      BY <3>1, <3>2, <3>3 DEF LastKept, TypeOK
  <2>3. ASSUME NEW p \in Providers, UnregisterProvider(p)
        PROVE  LastKept'
    BY <2>3 DEF UnregisterProvider, LastKept, TypeOK
  <2> QED
    BY <2>1, <2>2, <2>3 DEF Next
<1>3. LastKept => KeyExplained
  BY DEF LastKept, KeyExplained, GetApiKey
<1> QED
  BY <1>1, <1>2, <1>3, TypesHold, PTL DEF Spec
=============================================================================
