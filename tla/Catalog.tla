-------------------------------- MODULE Catalog --------------------------------
(***************************************************************************)
(* The catalog of providers, their models, virtual models and their        *)
(* members, and keys: the tables of schema.sql as the handlers of          *)
(* admin/api.ts write them through storage/repos, what a start of the CLI  *)
(* adds to them from the configuration, and the indexes dispatch routes    *)
(* by, which are built once at the start.                                  *)
(*                                                                         *)
(* A request that a handler or a constraint of the schema refuses changes  *)
(* nothing and is no step, but for the sync of models, which is refused    *)
(* half-way.  Prices, the switches 'enabled' and the data of models and    *)
(* members that nothing routes by are left out.                            *)
(***************************************************************************)
EXTENDS Sequences, FiniteSets, Functions

CONSTANTS ProviderIds, ProviderNames, Protocols, Urls, ApiKeys,
          ModelIds, ModelNames, VirtualIds, VirtualNames, KeyIds,
          ModelId,         \* the id of a model: of its provider's id and its name
          SeedProviders,   \* the configured providers, in order: [id, row]
          SeedVirtuals,    \* the configured virtual models, in order: [id, name]
          NewProviders,    \* the rows a creation may carry
          Patches,         \* what an update of a provider may carry
          Syncs,           \* the lists of names a sync may carry
          HasMasterKey,    \* whether keys can be encrypted
          MaxWrites,       \* bound: the writes of the admin API
          MaxCalls         \* bound: the calls under way

(* What stands for no text, as a name, a URL or a key. *)
Blank == ""

Fields == {"name", "protocol", "url", "key"}

(* What a column may hold; without a master key no key is stored. *)
Column == [name |-> ProviderNames, protocol |-> Protocols, url |-> Urls,
           key |-> ApiKeys \cup {Blank}]

Provider == [name: ProviderNames, protocol: Protocols, url: Urls, key: ApiKeys \cup {Blank}]

Model == [provider: ProviderIds, name: ModelNames]

(* An entry of the UpstreamModelIndex. *)
Offer == [provider: ProviderIds, protocol: Protocols, name: ModelNames]

(* A request of dispatch, or of the GLM page, that waits for its answer.   *)
Call == [provider: ProviderIds, protocol: Protocols \cup {Blank}, url: Urls, key: ApiKeys \cup {Blank}]

ASSUME CatalogConfig ==
    /\ Blank \notin ProviderNames \cup Urls \cup Protocols
    /\ ModelId \in [ProviderIds \X ModelNames -> ModelIds]
    /\ SeedProviders \in Seq([id: ProviderIds, row: Provider])
    /\ SeedVirtuals \in Seq([id: VirtualIds, name: VirtualNames])
    /\ NewProviders \subseteq Provider
    /\ Syncs \subseteq Seq(ModelNames)
    /\ \A b \in Patches : /\ DOMAIN b \subseteq Fields
                          /\ "key" \in DOMAIN b => b["key"] \in Column["key"]
    /\ HasMasterKey \in BOOLEAN
    /\ MaxWrites \in Nat /\ MaxCalls \in Nat

VARIABLES providers, \* id -> row
          models,    \* id -> row
          virtuals,  \* id -> name
          members,   \* pairs of a virtual model and a model
          keys,      \* ids
          counters,  \* the keys that have budget counters
          phase,     \* of the process: "down", "seeding", "serving"
          seeded,    \* how many of the configured entries were looked at
          offers,    \* the UpstreamModelIndex: id of a model -> entry
          groups,    \* the VirtualModelIndex: name -> ids of models
          edited,    \* providers written to since the indexes were built (auxiliary)
          calls,     \* under way
          writes     \* of the admin API (bounded)

tables == <<providers, models, virtuals, members, keys, counters>>
process == <<phase, seeded, offers, groups>>
catalogVars == <<tables, process, edited, calls, writes>>

Partial(D, R) == UNION {[S -> R] : S \in SUBSET D}

CatalogTypeOK ==
    /\ providers \in Partial(ProviderIds, Provider)
    /\ models \in Partial(ModelIds, Model)
    /\ virtuals \in Partial(VirtualIds, VirtualNames)
    /\ members \subseteq VirtualIds \X ModelIds
    /\ keys \subseteq KeyIds /\ counters \subseteq KeyIds
    /\ phase \in {"down", "seeding", "serving"}
    /\ seeded \in 0..(Len(SeedProviders) + Len(SeedVirtuals))
    /\ offers \in Partial(ModelIds, Offer)
    /\ groups \in Partial(VirtualNames, SUBSET ModelIds)
    /\ edited \subseteq ProviderIds
    /\ calls \subseteq Call
    /\ writes \in 0..MaxWrites

Nothing == [x \in {} |-> Blank]

CatalogInit ==
    /\ providers = Nothing /\ models = Nothing /\ virtuals = Nothing
    /\ members = {} /\ keys = {} /\ counters = {}
    /\ phase = "down" /\ seeded = 0 /\ offers = Nothing /\ groups = Nothing
    /\ edited = {} /\ calls = {} /\ writes = 0

-----------------------------------------------------------------------------
With(f, x, v)    == [y \in DOMAIN f \cup {x} |-> IF y = x THEN v ELSE f[y]]
Without(f, S)    == [y \in DOMAIN f \ S |-> f[y]]
Updated(row, u)  == [x \in DOMAIN row |-> IF x \in DOMAIN u THEN u[x] ELSE row[x]]

(* The id a model gets; the formula may give two models the same. *)
IdOf(p, name) == ModelId[<<p, name>>]

ModelsOf(p) == {m \in DOMAIN models : models[m].provider = p}

(* A write of the admin API. *)
Writes == /\ phase = "serving" /\ writes < MaxWrites
          /\ writes' = writes + 1
          /\ UNCHANGED <<process, calls>>

Edits(p) == edited' = edited \cup {p}

(* Models are deleted and, by the cascade, their memberships.              *)
DeleteModels(S) == /\ models' = Without(models, S)
                   /\ members' = {x \in members : x[2] \notin S}

-----------------------------------------------------------------------------
(* The id has four hexadecimal digits drawn at random and may be taken. *)
CreateProvider(p, row) ==
    /\ Writes
    /\ p \notin DOMAIN providers
    /\ providers' = With(providers, p, IF HasMasterKey THEN row ELSE [row EXCEPT !.key = Blank])
    /\ Edits(p)
    /\ UNCHANGED <<models, virtuals, members, keys, counters>>

(* mutant: the models go with the provider, and nothing goes with them *)
DeleteProvider_OneLevel(p) ==
    /\ Writes
    /\ p \in DOMAIN providers
    /\ providers' = Without(providers, {p})
    /\ models' = Without(models, ModelsOf(p))
    /\ Edits(p)
    /\ UNCHANGED <<virtuals, members, keys, counters>>

(* The cascade goes on to the members. *)
DeleteProvider(p) ==
    /\ Writes
    /\ p \in DOMAIN providers
    /\ providers' = Without(providers, {p})
    /\ DeleteModels(ModelsOf(p))
    /\ Edits(p)
    /\ UNCHANGED <<virtuals, keys, counters>>

(* The fields an update changes: a key only if it can be encrypted, and    *)
(* the update is refused for any of the others that is not valid.          *)
Applied(b) == [f \in {x \in DOMAIN b : x = "key" => HasMasterKey /\ b[x] # Blank} |-> b[f]]
Valid(b) == \A f \in DOMAIN b \ {"key"} : b[f] \in Column[f]

UpdateProvider(p, b) ==
    /\ Writes
    /\ p \in DOMAIN providers
    /\ Valid(b) /\ DOMAIN Applied(b) # {}
    /\ providers' = With(providers, p, Updated(providers[p], Applied(b)))
    /\ Edits(p)
    /\ UNCHANGED <<models, virtuals, members, keys, counters>>

(* The rows of a sync: they fit if their provider exists and no id is      *)
(* there twice or taken by another provider.                               *)
Fits(p, names) ==
    /\ p \in DOMAIN providers
    /\ \A i, j \in DOMAIN names : IdOf(p, names[i]) = IdOf(p, names[j]) => i = j
    /\ \A i \in DOMAIN names : IdOf(p, names[i]) \notin DOMAIN models \ ModelsOf(p)

(* mutant: what was deleted is not brought back *)
SyncRefused_NotUndone(p) == DeleteModels(ModelsOf(p)) /\ UNCHANGED edited

(* The transaction is rolled back. *)
SyncRefused(p) == UNCHANGED <<models, members, edited>>

(* replaceForProvider deletes the provider's models, and their members     *)
(* with them, and inserts the rows.                                        *)
SyncModels(p, names) ==
    LET ids  == {IdOf(p, names[i]) : i \in DOMAIN names}
        kept == Without(models, ModelsOf(p))
    IN  /\ Writes
        /\ names # <<>>
        /\ \/ /\ Fits(p, names)
              /\ models' = [m \in DOMAIN kept \cup ids |->
                              IF m \in ids
                              THEN [provider |-> p,
                                    name |-> names[CHOOSE i \in DOMAIN names :
                                                      IdOf(p, names[i]) = m]]
                              ELSE kept[m]]
              /\ members' = {x \in members : x[2] \notin ModelsOf(p)}
              /\ Edits(p)
           \/ ~Fits(p, names) /\ SyncRefused(p)
        /\ UNCHANGED <<providers, virtuals, keys, counters>>

CreateProviderModel(p, name) ==
    /\ Writes
    /\ p \in DOMAIN providers /\ IdOf(p, name) \notin DOMAIN models
    /\ models' = With(models, IdOf(p, name), [provider |-> p, name |-> name])
    /\ Edits(p)
    /\ UNCHANGED <<providers, virtuals, members, keys, counters>>

(* The model is looked up by its provider and its name. *)
DeleteProviderModel(p, name) ==
    LET found == {m \in ModelsOf(p) : models[m].name = name}
    IN  /\ Writes
        /\ found # {}
        /\ DeleteModels(found)
        /\ Edits(p)
        /\ UNCHANGED <<providers, virtuals, keys, counters>>

-----------------------------------------------------------------------------
CreateVirtualModel(v, name) ==
    /\ Writes
    /\ v \notin DOMAIN virtuals /\ name \notin Range(virtuals)
    /\ virtuals' = With(virtuals, v, name)
    /\ UNCHANGED <<providers, models, members, keys, counters, edited>>

DeleteVirtualModel(v) ==
    /\ Writes
    /\ v \in DOMAIN virtuals
    /\ virtuals' = Without(virtuals, {v})
    /\ members' = {x \in members : x[1] # v}
    /\ UNCHANGED <<providers, models, keys, counters, edited>>

(* Nothing is checked but by the foreign keys and the primary key. *)
AddVirtualModelMember(v, m) ==
    /\ Writes
    /\ v \in DOMAIN virtuals /\ m \in DOMAIN models /\ <<v, m>> \notin members
    /\ members' = members \cup {<<v, m>>}
    /\ UNCHANGED <<providers, models, virtuals, keys, counters, edited>>

RemoveVirtualModelMember(v, m) ==
    /\ Writes
    /\ <<v, m>> \in members
    /\ members' = members \ {<<v, m>>}
    /\ UNCHANGED <<providers, models, virtuals, keys, counters, edited>>

CreateKey(k) ==
    /\ Writes
    /\ k \notin keys
    /\ keys' = keys \cup {k}
    /\ UNCHANGED <<providers, models, virtuals, members, counters, edited>>

(* A key's counters go with it. *)
DeleteKey(k) ==
    /\ Writes
    /\ k \in keys
    /\ keys' = keys \ {k} /\ counters' = counters \ {k}
    /\ UNCHANGED <<providers, models, virtuals, members, edited>>

(* BudgetRepo.increment, which the schema refuses for a key that is gone,  *)
(* though its request may still be under way.                              *)
Charge(k) ==
    /\ phase = "serving" /\ k \in keys
    /\ counters' = counters \cup {k}
    /\ UNCHANGED <<providers, models, virtuals, members, keys, process, edited, calls, writes>>

-----------------------------------------------------------------------------
(* The process starts; each entry of the configuration is inserted by a    *)
(* statement of its own, unless its name is there, or fails if its id is,  *)
(* which is logged or not even that.                                       *)
Start == /\ phase = "down"
         /\ phase' = "seeding" /\ seeded' = 0
         /\ UNCHANGED <<tables, offers, groups, edited, calls, writes>>

SeedProvider ==
    /\ phase = "seeding" /\ seeded < Len(SeedProviders)
    /\ LET s     == SeedProviders[seeded + 1]
           there == \E p \in DOMAIN providers : providers[p].name = s.row.name
       IN  providers' = IF there \/ s.id \in DOMAIN providers THEN providers
                        ELSE With(providers, s.id, s.row)
    /\ seeded' = seeded + 1
    /\ UNCHANGED <<models, virtuals, members, keys, counters, phase, offers, groups,
                   edited, calls, writes>>

SeedVirtualModel ==
    /\ phase = "seeding"
    /\ seeded >= Len(SeedProviders) /\ seeded < Len(SeedProviders) + Len(SeedVirtuals)
    /\ LET s == SeedVirtuals[seeded - Len(SeedProviders) + 1]
       IN  virtuals' = IF s.name \in Range(virtuals) \/ s.id \in DOMAIN virtuals THEN virtuals
                       ELSE With(virtuals, s.id, s.name)
    /\ seeded' = seeded + 1
    /\ UNCHANGED <<providers, models, members, keys, counters, phase, offers, groups,
                   edited, calls, writes>>

OfferOf(m) == [provider |-> models[m].provider, name |-> models[m].name,
               protocol |-> providers[models[m].provider].protocol]

(* createPipeline reads the tables, once. *)
Serve ==
    /\ phase = "seeding" /\ seeded = Len(SeedProviders) + Len(SeedVirtuals)
    /\ phase' = "serving"
    /\ offers' = [m \in DOMAIN models |-> OfferOf(m)]
    /\ groups' = [n \in Range(virtuals) |->
                    {m \in ModelIds : \E v \in DOMAIN virtuals :
                                         virtuals[v] = n /\ <<v, m>> \in members}]
    /\ edited' = {}
    /\ UNCHANGED <<tables, seeded, calls, writes>>

(* The process ends at any time, and with it what it had in memory. *)
Exit == /\ phase # "down"
        /\ phase' = "down" /\ seeded' = 0
        /\ offers' = Nothing /\ groups' = Nothing
        /\ calls' = {} /\ edited' = {}
        /\ UNCHANGED <<tables, writes>>

-----------------------------------------------------------------------------
(* A request goes out and is waited for. *)
Calls(c) == /\ phase = "serving"
            /\ c \notin calls /\ Cardinality(calls) < MaxCalls
            /\ calls' = calls \cup {c}
            /\ UNCHANGED <<tables, process, edited, writes>>

(* dispatch routes by the indexes and speaks the protocol they have; URL   *)
(* and key are those of the row, if there is one (else 500).               *)
Dispatch(n, m) ==
    /\ n \in DOMAIN groups /\ m \in groups[n] \cap DOMAIN offers
    /\ offers[m].provider \in DOMAIN providers
    /\ LET p == offers[m].provider
       IN  Calls([provider |-> p, protocol |-> offers[m].protocol,
                  url |-> providers[p].url, key |-> providers[p].key])

(* handleGlmSubscription asks an endpoint of its own, in no protocol, if   *)
(* there is a key and it can be decrypted.                                 *)
QuerySubscription(p) ==
    /\ HasMasterKey
    /\ p \in DOMAIN providers /\ providers[p].key # Blank
    /\ Calls([provider |-> p, protocol |-> Blank,
              url |-> providers[p].url, key |-> providers[p].key])

CallEnds(c) == /\ c \in calls
               /\ calls' = calls \ {c}
               /\ UNCHANGED <<tables, process, edited, writes>>

-----------------------------------------------------------------------------
ProviderWrites(p) ==
    \/ \E row \in NewProviders : CreateProvider(p, row)
    \/ DeleteProvider(p)
    \/ \E b \in Patches : UpdateProvider(p, b)
    \/ \E names \in Syncs : SyncModels(p, names)
    \/ \E name \in ModelNames : CreateProviderModel(p, name) \/ DeleteProviderModel(p, name)

VirtualModelWrites(v) ==
    \/ \E name \in VirtualNames : CreateVirtualModel(v, name)
    \/ DeleteVirtualModel(v)
    \/ \E m \in ModelIds : AddVirtualModelMember(v, m) \/ RemoveVirtualModelMember(v, m)

KeyWrites(k) == CreateKey(k) \/ DeleteKey(k) \/ Charge(k)

CatalogNext ==
    \/ \E p \in ProviderIds : ProviderWrites(p)
    \/ \E v \in VirtualIds : VirtualModelWrites(v)
    \/ \E k \in KeyIds : KeyWrites(k)
    \/ Start \/ SeedProvider \/ SeedVirtualModel \/ Serve \/ Exit
    \/ \E n \in VirtualNames, m \in ModelIds : Dispatch(n, m)
    \/ \E p \in ProviderIds : QuerySubscription(p)
    \/ \E c \in calls : CallEnds(c)

CatalogSpec == CatalogInit /\ [][CatalogNext]_catalogVars

-----------------------------------------------------------------------------
(* A model belongs to a provider and has the id made of both names. *)
ModelsBelong ==
    \A m \in DOMAIN models : /\ models[m].provider \in DOMAIN providers
                             /\ m = IdOf(models[m].provider, models[m].name)

MembersBelong == members \subseteq (DOMAIN virtuals) \X (DOMAIN models)

CountersBelong == counters \subseteq keys

NamesDiffer == \A v, w \in DOMAIN virtuals : virtuals[v] = virtuals[w] => v = w

(* Whatever the order of creations, updates, syncs, deletions and restarts, *)
(* a refused sync included, no row refers to a row that is gone: a model    *)
(* has its provider, a member its virtual model and its model, a counter    *)
(* its key; and no model is stored under an id that is not its own, nor two *)
(* virtual models under one name.                                           *)
CatalogIsConsistent ==
    CatalogTypeOK /\ ModelsBelong /\ MembersBelong /\ CountersBelong /\ NamesDiffer

(* The indexes and the calls under way agree with the tables on every       *)
(* provider that no write since the start was about: only for the others,   *)
(* until the process is restarted, may dispatch route to a model that is    *)
(* gone, miss one that is there, or speak a protocol, ask an address or     *)
(* show a key that is no longer the provider's.                             *)
RoutedAsStored ==
    /\ phase = "serving" =>
          \A p \in ProviderIds \ edited :
             {m \in DOMAIN offers : offers[m].provider = p} = ModelsOf(p)
    /\ \A m \in DOMAIN offers :
          offers[m].provider \notin edited => m \in DOMAIN models /\ offers[m] = OfferOf(m)
    /\ \A c \in calls : c.provider \notin edited =>
          /\ c.provider \in DOMAIN providers
          /\ c.url = providers[c.provider].url /\ c.key = providers[c.provider].key
          /\ c.protocol \in {Blank, providers[c.provider].protocol}
=============================================================================
