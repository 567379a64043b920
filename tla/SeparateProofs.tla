---------------------------- MODULE SeparateProofs ----------------------------
(***************************************************************************)
(* Proofs about the three components that share no state with the others   *)
(* nor with each other: Catalog, Prompts and McpClient.  MCSeparate checks *)
(* small instances of the same three.                                      *)
(***************************************************************************)
EXTENDS Catalog, Prompts, McpClient, SequenceTheorems, WellFoundedInduction, TLAPS

-----------------------------------------------------------------------------
(***************************************************************************)
(* Proofs about Catalog, for every set of ids, names and configured        *)
(* entries: the tables are consistent whatever is written in whatever      *)
(* order, and the routing indexes agree with the rows nobody wrote to.     *)
(*                                                                         *)
(* CatalogIsConsistent is inductive as it stands.  RoutedAsStored needs    *)
(* Idle besides: a process that does not serve has no indexes and no call  *)
(* under way, so that those a start builds are all there are.              *)
(***************************************************************************)

(* Partial functions: what writing and dropping rows does to a table. *)

LEMMA ElementType == ASSUME NEW R, NEW q \in Seq(R), NEW i \in 1..Len(q) PROVE q[i] \in R
OBVIOUS

LEMMA PartialIs ==
    ASSUME NEW D, NEW R, NEW f
    PROVE  f \in Partial(D, R) <=> DOMAIN f \subseteq D /\ f \in [DOMAIN f -> R]
BY DEF Partial

LEMMA WithType ==
    ASSUME NEW D, NEW R, NEW f \in Partial(D, R), NEW x \in D, NEW v \in R
    PROVE  /\ With(f, x, v) \in Partial(D, R)
           /\ DOMAIN With(f, x, v) = DOMAIN f \cup {x}
           /\ With(f, x, v)[x] = v
           /\ \A y \in DOMAIN f \ {x} : With(f, x, v)[y] = f[y]
<1> DEFINE g == With(f, x, v)
<1>1. DOMAIN f \subseteq D /\ \A y \in DOMAIN f : f[y] \in R
  BY PartialIs
<1>2. DOMAIN g = DOMAIN f \cup {x} /\ g \in [DOMAIN g -> R]
  BY <1>1 DEF With
<1>3. g \in Partial(D, R)
  BY <1>1, <1>2, PartialIs
<1> QED
  BY <1>2, <1>3 DEF With

LEMMA WithoutType ==
    ASSUME NEW D, NEW R, NEW f \in Partial(D, R), NEW S
    PROVE  /\ Without(f, S) \in Partial(D, R)
           /\ DOMAIN Without(f, S) = DOMAIN f \ S
           /\ \A y \in DOMAIN f \ S : Without(f, S)[y] = f[y]
<1> DEFINE g == Without(f, S)
<1>1. DOMAIN f \subseteq D /\ \A y \in DOMAIN f : f[y] \in R
  BY PartialIs
<1>2. DOMAIN g = DOMAIN f \ S /\ g \in [DOMAIN g -> R]
  BY <1>1 DEF Without
<1>3. g \in Partial(D, R)
  BY <1>1, <1>2, PartialIs
<1> QED
  BY <1>2, <1>3 DEF Without

LEMMA NothingType == ASSUME NEW D, NEW R PROVE Nothing \in Partial(D, R) /\ DOMAIN Nothing = {}
BY DEF Partial, Nothing

(* An update that is valid leaves a row with columns of the right kinds. *)
LEMMA UpdatedType ==
    ASSUME NEW row \in Provider, NEW b \in Patches, Valid(b)
    PROVE  Updated(row, Applied(b)) \in Provider
<1> DEFINE u == Applied(b)
           r == Updated(row, u)
<1>1. \A f \in DOMAIN u : f \in Fields /\ u[f] \in Column[f]
  BY CatalogConfig DEF Applied, Valid
<1>2. DOMAIN row = Fields /\ \A f \in Fields : row[f] \in Column[f]
  BY DEF Provider, Column, Fields
<1>3. DOMAIN r = Fields /\ \A f \in Fields : r[f] \in Column[f]
  BY <1>1, <1>2 DEF Updated
<1>4. r = [name |-> r["name"], protocol |-> r["protocol"], url |-> r["url"], key |-> r["key"]]
  BY <1>3, <1>2 DEF Updated, Fields
<1> QED
  BY <1>3, <1>4 DEF Provider, Column, Fields

LEMMA DeleteModelsType ==
    ASSUME CatalogTypeOK, NEW S, DeleteModels(S)
    PROVE  /\ models' \in Partial(ModelIds, Model) /\ DOMAIN models' = DOMAIN models \ S
           /\ \A m \in DOMAIN models' : models'[m] = models[m]
           /\ members' \subseteq VirtualIds \X ModelIds
<1>1. models \in Partial(ModelIds, Model) /\ models' = Without(models, S)
  BY DEF CatalogTypeOK, DeleteModels
<1>2. members \subseteq VirtualIds \X ModelIds /\ members' \subseteq members
  BY DEF CatalogTypeOK, DeleteModels
<1> QED
  BY <1>1, <1>2, WithoutType

LEMMA IdType ==
    ASSUME NEW p \in ProviderIds, NEW name \in ModelNames
    PROVE  IdOf(p, name) \in ModelIds
<1>1. <<p, name>> \in ProviderIds \X ModelNames
  OBVIOUS
<1> QED
  BY <1>1, CatalogConfig DEF IdOf

(* A sync replaces the models of its provider and no other's, or nothing. *)
LEMMA SyncedType ==
    ASSUME CatalogTypeOK, NEW p \in ProviderIds, NEW names \in Syncs, SyncModels(p, names)
    PROVE  /\ models' \in Partial(ModelIds, Model)
           /\ members' \subseteq VirtualIds \X ModelIds
           /\ \/ /\ Fits(p, names)
                 /\ \A m \in DOMAIN models' :
                       \/ m \notin ModelsOf(p) /\ m \in DOMAIN models /\ models'[m] = models[m]
                       \/ models'[m].provider = p /\ m = IdOf(p, models'[m].name)
                 /\ DOMAIN models \ ModelsOf(p) \subseteq DOMAIN models'
                 /\ \A m \in DOMAIN models \ ModelsOf(p) : models'[m] = models[m]
                 /\ members' = {x \in members : x[2] \notin ModelsOf(p)}
                 /\ edited' = edited \cup {p}
              \/ UNCHANGED <<models, members, edited>>
<1>0. models \in Partial(ModelIds, Model) /\ members \subseteq VirtualIds \X ModelIds
  BY DEF CatalogTypeOK
<1>1. CASE ~Fits(p, names)
  BY <1>0, <1>1 DEF SyncModels, SyncRefused
<1>2. CASE Fits(p, names)
  <2> DEFINE ids  == {IdOf(p, names[i]) : i \in DOMAIN names}
             kept == Without(models, ModelsOf(p))
             at(m) == CHOOSE i \in DOMAIN names : IdOf(p, names[i]) = m
             row(m) == [provider |-> p, name |-> names[at(m)]]
             new == [m \in DOMAIN kept \cup ids |-> IF m \in ids THEN row(m) ELSE kept[m]]
  <2>1. /\ models' = new /\ edited' = edited \cup {p}
        /\ members' = {x \in members : x[2] \notin ModelsOf(p)}
    BY <1>2 DEF SyncModels, Edits
  <2>2. names \in Seq(ModelNames)
    BY CatalogConfig
  <2>3. ids \subseteq ModelIds
    BY <2>2, IdType
  <2>4. \A m \in ids : row(m) \in Model /\ row(m).provider = p /\ m = IdOf(p, row(m).name)
    <3> TAKE m \in ids
    <3>1. at(m) \in DOMAIN names /\ IdOf(p, names[at(m)]) = m
      OBVIOUS
    <3>2. names[at(m)] \in ModelNames
      BY <2>2, <3>1
    <3> HIDE DEF at
    <3> QED
      BY <3>1, <3>2 DEF Model
  <2>5. /\ kept \in Partial(ModelIds, Model) /\ DOMAIN kept = DOMAIN models \ ModelsOf(p)
        /\ \A m \in DOMAIN kept : kept[m] = models[m]
    BY <1>0, WithoutType
  <2>6. DOMAIN kept \subseteq ModelIds /\ \A m \in DOMAIN kept : kept[m] \in Model
    BY <2>5, PartialIs
  <2>7. \A m \in DOMAIN kept : m \notin ids
    BY <1>2, <2>5 DEF Fits
  <2> HIDE DEF ids, kept, row
  <2>8. /\ DOMAIN new = DOMAIN kept \cup ids
        /\ \A m \in ids : new[m] = row(m)
        /\ \A m \in DOMAIN kept : new[m] = kept[m]
    BY <2>7
  <2>9. new \in [DOMAIN new -> Model] /\ DOMAIN new \subseteq ModelIds
    BY <2>3, <2>4, <2>6, <2>8
  <2> HIDE DEF new
  <2>10. new \in Partial(ModelIds, Model)
    BY <2>9, PartialIs
  <2> QED
    BY <1>0, <1>2, <2>1, <2>4, <2>5, <2>8, <2>10
<1> QED
  BY <1>1, <1>2

-----------------------------------------------------------------------------
(* The program starts on empty tables of the right types. *)
LEMMA InitType == CatalogInit => CatalogTypeOK
<1> SUFFICES ASSUME CatalogInit PROVE CatalogTypeOK
  OBVIOUS
<1>1. Len(SeedProviders) \in Nat /\ Len(SeedVirtuals) \in Nat /\ MaxWrites \in Nat
  BY CatalogConfig
<1> QED
  BY <1>1, NothingType DEF CatalogInit, CatalogTypeOK

LEMMA ProviderWritesType ==
    ASSUME CatalogTypeOK, NEW p \in ProviderIds, ProviderWrites(p)
    PROVE  CatalogTypeOK'
<1> USE DEF CatalogTypeOK
<1>0. Writes /\ providers \in Partial(ProviderIds, Provider) /\ models \in Partial(ModelIds, Model)
  BY DEF ProviderWrites, CreateProvider, DeleteProvider, UpdateProvider, SyncModels,
         CreateProviderModel, DeleteProviderModel
<1>1. /\ UNCHANGED process /\ UNCHANGED calls /\ writes' \in 0..MaxWrites
  BY <1>0, CatalogConfig DEF Writes
<1>2. ASSUME NEW row \in NewProviders, CreateProvider(p, row) PROVE CatalogTypeOK'
  <2> DEFINE r == IF HasMasterKey THEN row ELSE [row EXCEPT !.key = Blank]
  <2>1. row \in Provider
    BY CatalogConfig
  <2>2. r \in Provider
    BY <2>1 DEF Provider
  <2> HIDE DEF r
  <2>3. providers' = With(providers, p, r)
    BY <1>2 DEF CreateProvider, r
  <2>4. providers' \in Partial(ProviderIds, Provider)
    BY <1>0, <2>2, <2>3, WithType
  <2> QED
    BY <1>1, <1>2, <2>4 DEF CreateProvider, Edits, process
<1>3. ASSUME DeleteProvider(p) PROVE CatalogTypeOK'
  <2>1. providers' \in Partial(ProviderIds, Provider)
    BY <1>0, <1>3, WithoutType DEF DeleteProvider
  <2>2. models' \in Partial(ModelIds, Model) /\ members' \subseteq VirtualIds \X ModelIds
    BY <1>3, DeleteModelsType DEF DeleteProvider
  <2> QED
    BY <1>1, <1>3, <2>1, <2>2 DEF DeleteProvider, Edits, process
<1>4. ASSUME NEW b \in Patches, UpdateProvider(p, b) PROVE CatalogTypeOK'
  <2> DEFINE r == Updated(providers[p], Applied(b))
  <2>1. providers[p] \in Provider
    BY <1>0, <1>4, PartialIs DEF UpdateProvider
  <2>2. r \in Provider
    BY <1>4, <2>1, UpdatedType DEF UpdateProvider
  <2>3. providers' = With(providers, p, r)
    BY <1>4 DEF UpdateProvider
  <2> HIDE DEF r
  <2>4. providers' \in Partial(ProviderIds, Provider)
    BY <1>0, <2>2, <2>3, WithType
  <2> QED
    BY <1>1, <1>4, <2>4 DEF UpdateProvider, Edits, process
<1>5. ASSUME NEW names \in Syncs, SyncModels(p, names) PROVE CatalogTypeOK'
  <2>1. models' \in Partial(ModelIds, Model) /\ members' \subseteq VirtualIds \X ModelIds
    BY <1>5, SyncedType
  <2>2. edited' \subseteq ProviderIds
    BY <1>5, SyncedType
  <2> QED
    BY <1>1, <1>5, <2>1, <2>2 DEF SyncModels, process
<1>6. ASSUME NEW name \in ModelNames, CreateProviderModel(p, name) PROVE CatalogTypeOK'
  <2>1. [provider |-> p, name |-> name] \in Model
    BY DEF Model
  <2>2. models' = With(models, IdOf(p, name), [provider |-> p, name |-> name])
    BY <1>6 DEF CreateProviderModel
  <2>3. models' \in Partial(ModelIds, Model)
    BY <1>0, <2>1, <2>2, IdType, WithType
  <2> QED
    BY <1>1, <1>6, <2>3 DEF CreateProviderModel, Edits, process
<1>7. ASSUME NEW name \in ModelNames, DeleteProviderModel(p, name) PROVE CatalogTypeOK'
  <2>1. models' \in Partial(ModelIds, Model) /\ members' \subseteq VirtualIds \X ModelIds
    BY <1>7, DeleteModelsType DEF DeleteProviderModel
  <2> QED
    BY <1>1, <1>7, <2>1 DEF DeleteProviderModel, Edits, process
<1> QED
  BY <1>2, <1>3, <1>4, <1>5, <1>6, <1>7 DEF ProviderWrites

LEMMA OtherWritesType ==
    ASSUME CatalogTypeOK,
           \/ \E v \in VirtualIds : VirtualModelWrites(v)
           \/ \E k \in KeyIds : KeyWrites(k)
    PROVE  CatalogTypeOK'
<1> USE DEF CatalogTypeOK
<1>0. virtuals \in Partial(VirtualIds, VirtualNames)
  OBVIOUS
<1>1. ASSUME Writes PROVE UNCHANGED process /\ UNCHANGED calls /\ writes' \in 0..MaxWrites
  BY <1>1, CatalogConfig DEF Writes
<1>2. ASSUME NEW v \in VirtualIds, NEW name \in VirtualNames, CreateVirtualModel(v, name)
      PROVE  CatalogTypeOK'
  <2>1. virtuals' \in Partial(VirtualIds, VirtualNames)
    BY <1>0, <1>2, WithType DEF CreateVirtualModel
  <2> QED
    BY <1>1, <1>2, <2>1 DEF CreateVirtualModel, process
<1>3. ASSUME NEW v \in VirtualIds, DeleteVirtualModel(v) PROVE CatalogTypeOK'
  <2>1. virtuals' \in Partial(VirtualIds, VirtualNames)
    BY <1>0, <1>3, WithoutType DEF DeleteVirtualModel
  <2> QED
    BY <1>1, <1>3, <2>1 DEF DeleteVirtualModel, process
<1>4. ASSUME NEW v \in VirtualIds, NEW m \in ModelIds,
             AddVirtualModelMember(v, m) \/ RemoveVirtualModelMember(v, m)
      PROVE  CatalogTypeOK'
  BY <1>1, <1>4 DEF AddVirtualModelMember, RemoveVirtualModelMember, process
<1>5. ASSUME NEW k \in KeyIds, CreateKey(k) \/ DeleteKey(k) PROVE CatalogTypeOK'
  BY <1>1, <1>5 DEF CreateKey, DeleteKey, process
<1>6. ASSUME NEW k \in KeyIds, Charge(k) PROVE CatalogTypeOK'
  BY <1>6 DEF Charge, process
<1> QED
  BY <1>2, <1>3, <1>4, <1>5, <1>6 DEF VirtualModelWrites, KeyWrites

LEMMA OfferType ==
    ASSUME CatalogTypeOK, ModelsBelong, NEW m \in DOMAIN models
    PROVE  OfferOf(m) \in Offer /\ m \in ModelIds
<1>1. models \in Partial(ModelIds, Model) /\ providers \in Partial(ProviderIds, Provider)
  BY DEF CatalogTypeOK
<1>2. m \in ModelIds /\ models[m] \in Model /\ models[m].provider \in DOMAIN providers
  BY <1>1, PartialIs DEF ModelsBelong
<1>3. providers[models[m].provider] \in Provider
  BY <1>1, <1>2, PartialIs
<1> QED
  BY <1>2, <1>3 DEF OfferOf, Offer, Model, Provider

LEMMA ServedType ==
    ASSUME CatalogTypeOK, ModelsBelong, Serve
    PROVE  offers' \in Partial(ModelIds, Offer) /\ groups' \in Partial(VirtualNames, SUBSET ModelIds)
<1>1. offers' = [m \in DOMAIN models |-> OfferOf(m)]
  BY DEF Serve
<1>2. offers' \in [DOMAIN models -> Offer] /\ DOMAIN models \subseteq ModelIds
  BY <1>1, OfferType
<1>3. offers' \in Partial(ModelIds, Offer)
  BY <1>2, PartialIs
<1>4. DOMAIN groups' = Range(virtuals) /\ groups' \in [DOMAIN groups' -> SUBSET ModelIds]
  BY DEF Serve
<1>5. virtuals \in Partial(VirtualIds, VirtualNames)
  BY DEF CatalogTypeOK
<1>6. Range(virtuals) \subseteq VirtualNames
  BY <1>5, PartialIs DEF Range
<1>7. groups' \in Partial(VirtualNames, SUBSET ModelIds)
  BY <1>4, <1>6, PartialIs
<1> QED
  BY <1>3, <1>7

LEMMA ProcessType ==
    ASSUME CatalogTypeOK, ModelsBelong, Start \/ SeedProvider \/ SeedVirtualModel \/ Serve \/ Exit
    PROVE  CatalogTypeOK'
<1> USE DEF CatalogTypeOK
<1>0. /\ Len(SeedProviders) \in Nat /\ Len(SeedVirtuals) \in Nat
      /\ providers \in Partial(ProviderIds, Provider) /\ virtuals \in Partial(VirtualIds, VirtualNames)
  BY CatalogConfig
<1>1. ASSUME Start PROVE CatalogTypeOK'
  BY <1>0, <1>1 DEF Start, tables
<1>2. ASSUME SeedProvider PROVE CatalogTypeOK'
  <2> DEFINE s == SeedProviders[seeded + 1]
  <2>1. seeded + 1 \in 1..Len(SeedProviders)
    BY <1>0, <1>2 DEF SeedProvider
  <2>2. s \in [id: ProviderIds, row: Provider]
    <3>1. SeedProviders \in Seq([id: ProviderIds, row: Provider])
      BY CatalogConfig
    <3> QED
      BY <2>1, <3>1, ElementType
  <2>3. providers' = providers \/ providers' = With(providers, s.id, s.row)
    BY <1>2 DEF SeedProvider
  <2> HIDE DEF s
  <2>4. providers' \in Partial(ProviderIds, Provider)
    <3>1. s.id \in ProviderIds /\ s.row \in Provider
      BY <2>2
    <3>2. With(providers, s.id, s.row) \in Partial(ProviderIds, Provider)
      BY <1>0, <3>1, WithType
    <3> QED
      BY <1>0, <2>3, <3>2
  <2>5. seeded' \in 0..(Len(SeedProviders) + Len(SeedVirtuals))
    BY <1>0, <1>2, <2>1 DEF SeedProvider
  <2> QED
    BY <1>2, <2>4, <2>5 DEF SeedProvider
<1>3. ASSUME SeedVirtualModel PROVE CatalogTypeOK'
  <2> DEFINE s == SeedVirtuals[seeded - Len(SeedProviders) + 1]
  <2>1. seeded - Len(SeedProviders) + 1 \in 1..Len(SeedVirtuals)
    BY <1>0, <1>3 DEF SeedVirtualModel
  <2>2. s \in [id: VirtualIds, name: VirtualNames]
    <3>1. SeedVirtuals \in Seq([id: VirtualIds, name: VirtualNames])
      BY CatalogConfig
    <3> QED
      BY <2>1, <3>1, ElementType
  <2>3. virtuals' = virtuals \/ virtuals' = With(virtuals, s.id, s.name)
    BY <1>3 DEF SeedVirtualModel
  <2> HIDE DEF s
  <2>4. virtuals' \in Partial(VirtualIds, VirtualNames)
    <3>1. s.id \in VirtualIds /\ s.name \in VirtualNames
      BY <2>2
    <3>2. With(virtuals, s.id, s.name) \in Partial(VirtualIds, VirtualNames)
      BY <1>0, <3>1, WithType
    <3> QED
      BY <1>0, <2>3, <3>2
  <2>5. seeded' \in 0..(Len(SeedProviders) + Len(SeedVirtuals))
    BY <1>0, <1>3, <2>1 DEF SeedVirtualModel
  <2> QED
    BY <1>3, <2>4, <2>5 DEF SeedVirtualModel
<1>4. ASSUME Serve PROVE CatalogTypeOK'
  BY <1>4, ServedType DEF Serve, tables
<1>5. ASSUME Exit PROVE CatalogTypeOK'
  BY <1>0, <1>5, NothingType DEF Exit, tables
<1> QED
  BY <1>1, <1>2, <1>3, <1>4, <1>5

(* What a call carries is what the provider's row has, but for a protocol  *)
(* dispatch has from the index.                                            *)
LEMMA CallsType ==
    ASSUME CatalogTypeOK,
           \/ \E n \in VirtualNames, m \in ModelIds : Dispatch(n, m)
           \/ \E p \in ProviderIds : QuerySubscription(p)
           \/ \E c \in calls : CallEnds(c)
    PROVE  CatalogTypeOK' /\ UNCHANGED <<tables, process, edited, writes>>
<1>0. /\ providers \in Partial(ProviderIds, Provider) /\ offers \in Partial(ModelIds, Offer)
      /\ calls \subseteq Call
  BY DEF CatalogTypeOK
<1>1. ASSUME NEW n \in VirtualNames, NEW m \in ModelIds, Dispatch(n, m)
      PROVE  calls' \subseteq Call /\ UNCHANGED <<tables, process, edited, writes>>
  <2> DEFINE p == offers[m].provider
  <2>1. offers[m] \in Offer /\ p \in DOMAIN providers
    BY <1>0, <1>1, PartialIs DEF Dispatch
  <2>2. providers[p] \in Provider
    BY <1>0, <2>1, PartialIs
  <2>3. [provider |-> p, protocol |-> offers[m].protocol,
         url |-> providers[p].url, key |-> providers[p].key] \in Call
    BY <2>1, <2>2 DEF Offer, Provider, Call
  <2> QED
    BY <1>0, <1>1, <2>3 DEF Dispatch, Calls
<1>2. ASSUME NEW p \in ProviderIds, QuerySubscription(p)
      PROVE  calls' \subseteq Call /\ UNCHANGED <<tables, process, edited, writes>>
  <2>1. providers[p] \in Provider
    BY <1>0, <1>2, PartialIs DEF QuerySubscription
  <2>2. [provider |-> p, protocol |-> Blank,
         url |-> providers[p].url, key |-> providers[p].key] \in Call
    BY <2>1 DEF Provider, Call
  <2> QED
    BY <1>0, <1>2, <2>2 DEF QuerySubscription, Calls
<1>3. ASSUME NEW c \in calls, CallEnds(c)
      PROVE  calls' \subseteq Call /\ UNCHANGED <<tables, process, edited, writes>>
  BY <1>0, <1>3 DEF CallEnds
<1>4. calls' \subseteq Call /\ UNCHANGED <<tables, process, edited, writes>>
  BY <1>1, <1>2, <1>3
<1> QED
  BY <1>4 DEF CatalogTypeOK, tables, process

-----------------------------------------------------------------------------
(* A write about provider p: what belongs to the others stays as it was.   *)
TouchesOnly(p) ==
    /\ edited' = edited \cup {p}
    /\ \A q \in DOMAIN providers \ {p} : q \in DOMAIN providers' /\ providers'[q] = providers[q]
    /\ \A m \in DOMAIN models \ ModelsOf(p) : m \in DOMAIN models' /\ models'[m] = models[m]
    /\ \A m \in DOMAIN models' : \/ m \in DOMAIN models \ ModelsOf(p)
                                 \/ models'[m].provider = p

LEMMA DeletedModels ==
    ASSUME CatalogIsConsistent, NEW S, DeleteModels(S), UNCHANGED virtuals
    PROVE  MembersBelong' /\ \A m \in DOMAIN models' : m = IdOf(models'[m].provider, models'[m].name)
<1>1. /\ DOMAIN models' = DOMAIN models \ S
      /\ \A m \in DOMAIN models' : models'[m] = models[m]
  BY DeleteModelsType DEF CatalogIsConsistent
<1>2. members' = {x \in members : x[2] \notin S}
  BY DEF DeleteModels
<1>3. MembersBelong'
  BY <1>1, <1>2 DEF MembersBelong, CatalogIsConsistent
<1> QED
  BY <1>1, <1>3 DEF ModelsBelong, CatalogIsConsistent

LEMMA ProviderWritesConsistent ==
    ASSUME CatalogIsConsistent, NEW p \in ProviderIds, ProviderWrites(p)
    PROVE  /\ CatalogIsConsistent'
           /\ UNCHANGED process /\ UNCHANGED calls
           /\ TouchesOnly(p) \/ UNCHANGED <<providers, models, edited>>
<1> DEFINE Goal == /\ ModelsBelong' /\ MembersBelong' /\ UNCHANGED <<virtuals, keys, counters>>
                   /\ TouchesOnly(p) \/ UNCHANGED <<providers, models, edited>>
<1>0. /\ CatalogTypeOK /\ ModelsBelong /\ MembersBelong
      /\ providers \in Partial(ProviderIds, Provider) /\ models \in Partial(ModelIds, Model)
  BY DEF CatalogIsConsistent, CatalogTypeOK
<1>1. ASSUME NEW row \in NewProviders, CreateProvider(p, row) PROVE Goal
  <2> DEFINE r == IF HasMasterKey THEN row ELSE [row EXCEPT !.key = Blank]
  <2>1. row \in Provider
    BY CatalogConfig
  <2>2. r \in Provider
    BY <2>1 DEF Provider
  <2> HIDE DEF r
  <2>3. providers' = With(providers, p, r) /\ p \notin DOMAIN providers
    BY <1>1 DEF CreateProvider, r
  <2>4. /\ DOMAIN providers' = DOMAIN providers \cup {p}
        /\ \A q \in DOMAIN providers \ {p} : providers'[q] = providers[q]
    BY <2>3 DEF With
  <2> QED
    BY <1>0, <1>1, <2>3, <2>4
    DEF CreateProvider, Edits, ModelsBelong, MembersBelong, TouchesOnly, ModelsOf
<1>2. ASSUME DeleteProvider(p) PROVE Goal
  <2>1. /\ DOMAIN providers' = DOMAIN providers \ {p}
        /\ \A q \in DOMAIN providers' : providers'[q] = providers[q]
    <3>1. providers' = Without(providers, {p})
      BY <1>2 DEF DeleteProvider
    <3> QED
      BY <3>1 DEF Without
  <2>2. DeleteModels(ModelsOf(p)) /\ UNCHANGED <<virtuals, keys, counters>>
        /\ edited' = edited \cup {p}
    BY <1>2 DEF DeleteProvider, Edits
  <2>3. /\ DOMAIN models' = DOMAIN models \ ModelsOf(p)
        /\ \A m \in DOMAIN models' : models'[m] = models[m]
    BY <1>0, <2>2, DeleteModelsType
  <2>4. MembersBelong'
    BY <2>2, DeletedModels
  <2>5. ModelsBelong'
    BY <1>0, <2>1, <2>3 DEF ModelsBelong, ModelsOf
  <2> QED
    BY <2>1, <2>2, <2>3, <2>4, <2>5 DEF TouchesOnly
<1>3. ASSUME NEW b \in Patches, UpdateProvider(p, b) PROVE Goal
  <2> DEFINE r == Updated(providers[p], Applied(b))
  <2>1. providers[p] \in Provider /\ p \in DOMAIN providers
    BY <1>0, <1>3, PartialIs DEF UpdateProvider
  <2>2. r \in Provider
    BY <1>3, <2>1, UpdatedType DEF UpdateProvider
  <2>3. providers' = With(providers, p, r)
    BY <1>3 DEF UpdateProvider
  <2> HIDE DEF r
  <2>4. /\ DOMAIN providers' = DOMAIN providers
        /\ \A q \in DOMAIN providers \ {p} : providers'[q] = providers[q]
    BY <2>1, <2>3 DEF With
  <2> QED
    BY <1>0, <1>3, <2>4
    DEF UpdateProvider, Edits, ModelsBelong, MembersBelong, TouchesOnly, ModelsOf
<1>4. ASSUME NEW names \in Syncs, SyncModels(p, names) PROVE Goal
  <2>1. UNCHANGED <<providers, virtuals, keys, counters>>
    BY <1>4 DEF SyncModels
  <2>2. CASE UNCHANGED <<models, members, edited>>
    BY <1>0, <2>1, <2>2 DEF ModelsBelong, MembersBelong
  <2>3. CASE /\ Fits(p, names)
             /\ \A m \in DOMAIN models' :
                   \/ m \notin ModelsOf(p) /\ m \in DOMAIN models /\ models'[m] = models[m]
                   \/ models'[m].provider = p /\ m = IdOf(p, models'[m].name)
             /\ DOMAIN models \ ModelsOf(p) \subseteq DOMAIN models'
             /\ \A m \in DOMAIN models \ ModelsOf(p) : models'[m] = models[m]
             /\ members' = {x \in members : x[2] \notin ModelsOf(p)}
             /\ edited' = edited \cup {p}
    <3>1. ModelsBelong'
      BY <1>0, <2>1, <2>3 DEF ModelsBelong, Fits
    <3>2. MembersBelong'
      BY <1>0, <2>1, <2>3 DEF MembersBelong
    <3>3. TouchesOnly(p)
      BY <2>1, <2>3 DEF TouchesOnly
    <3> QED
      BY <2>1, <3>1, <3>2, <3>3
  <2> QED
    BY <1>0, <1>4, <2>2, <2>3, SyncedType
<1>5. ASSUME NEW name \in ModelNames, CreateProviderModel(p, name) PROVE Goal
  <2> DEFINE r == [provider |-> p, name |-> name]
             i == IdOf(p, name)
  <2>1. r \in Model /\ i \in ModelIds /\ r.provider = p /\ r.name = name
    BY IdType DEF Model
  <2>2. models' = With(models, i, r) /\ p \in DOMAIN providers /\ i \notin DOMAIN models
    BY <1>5 DEF CreateProviderModel
  <2>3. i = IdOf(r.provider, r.name)
    BY <2>1
  <2> HIDE DEF r, i
  <2>4. /\ DOMAIN models' = DOMAIN models \cup {i} /\ models'[i] = r
        /\ \A m \in DOMAIN models \ {i} : models'[m] = models[m]
    BY <2>2 DEF With
  <2>5. UNCHANGED <<providers, virtuals, members, keys, counters>> /\ edited' = edited \cup {p}
    BY <1>5 DEF CreateProviderModel, Edits
  <2>6. ModelsBelong'
    BY <1>0, <2>1, <2>2, <2>3, <2>4, <2>5 DEF ModelsBelong
  <2>7. MembersBelong'
    BY <1>0, <2>4, <2>5 DEF MembersBelong
  <2>8. TouchesOnly(p)
    BY <2>1, <2>2, <2>4, <2>5 DEF TouchesOnly, ModelsOf
  <2> QED
    BY <2>5, <2>6, <2>7, <2>8
<1>6. ASSUME NEW name \in ModelNames, DeleteProviderModel(p, name) PROVE Goal
  <2>1. PICK found : /\ found \subseteq ModelsOf(p) /\ DeleteModels(found)
                     /\ UNCHANGED <<providers, virtuals, keys, counters>>
                     /\ edited' = edited \cup {p}
    BY <1>6 DEF DeleteProviderModel, Edits
  <2>2. /\ DOMAIN models' = DOMAIN models \ found
        /\ \A m \in DOMAIN models' : models'[m] = models[m]
    BY <1>0, <2>1, DeleteModelsType
  <2>3. MembersBelong'
    BY <2>1, DeletedModels
  <2>4. ModelsBelong'
    BY <1>0, <2>1, <2>2 DEF ModelsBelong
  <2>5. TouchesOnly(p)
    BY <2>1, <2>2 DEF TouchesOnly, ModelsOf
  <2> QED
    BY <2>1, <2>3, <2>4, <2>5
<1>7. Goal
  BY <1>1, <1>2, <1>3, <1>4, <1>5, <1>6 DEF ProviderWrites
<1>8. Writes
  BY DEF ProviderWrites, CreateProvider, DeleteProvider, UpdateProvider, SyncModels,
         CreateProviderModel, DeleteProviderModel
<1>9. CatalogTypeOK'
  BY <1>0, ProviderWritesType
<1> QED
  BY <1>7, <1>8, <1>9 DEF CatalogIsConsistent, CountersBelong, NamesDiffer, Writes

LEMMA OtherWritesConsistent ==
    ASSUME CatalogIsConsistent,
           \/ \E v \in VirtualIds : VirtualModelWrites(v)
           \/ \E k \in KeyIds : KeyWrites(k)
    PROVE  /\ CatalogIsConsistent'
           /\ UNCHANGED <<providers, models, edited>> /\ UNCHANGED process /\ UNCHANGED calls
<1> DEFINE Goal == /\ MembersBelong' /\ CountersBelong' /\ NamesDiffer'
                   /\ UNCHANGED <<providers, models, edited>>
                   /\ UNCHANGED process /\ UNCHANGED calls
<1>0. /\ CatalogTypeOK /\ ModelsBelong /\ MembersBelong /\ CountersBelong /\ NamesDiffer
  BY DEF CatalogIsConsistent
<1>1. ASSUME NEW v \in VirtualIds, NEW name \in VirtualNames, CreateVirtualModel(v, name)
      PROVE  Goal
  <2>1. virtuals' = With(virtuals, v, name) /\ v \notin DOMAIN virtuals /\ name \notin Range(virtuals)
    BY <1>1 DEF CreateVirtualModel
  <2>2. /\ DOMAIN virtuals' = DOMAIN virtuals \cup {v} /\ virtuals'[v] = name
        /\ \A w \in DOMAIN virtuals : virtuals'[w] = virtuals[w] /\ virtuals[w] # name
    BY <2>1 DEF With, Range
  <2>3. NamesDiffer'
    BY <1>0, <2>2 DEF NamesDiffer
  <2> QED
    BY <1>0, <1>1, <2>2, <2>3 DEF CreateVirtualModel, Writes, MembersBelong, CountersBelong
<1>2. ASSUME NEW v \in VirtualIds, DeleteVirtualModel(v) PROVE Goal
  <2>1. virtuals' = Without(virtuals, {v}) /\ members' = {x \in members : x[1] # v}
    BY <1>2 DEF DeleteVirtualModel
  <2>2. /\ DOMAIN virtuals' = DOMAIN virtuals \ {v}
        /\ \A w \in DOMAIN virtuals' : virtuals'[w] = virtuals[w]
    BY <2>1 DEF Without
  <2>3. NamesDiffer'
    BY <1>0, <2>2 DEF NamesDiffer
  <2>4. UNCHANGED <<providers, models, keys, counters, edited>>
        /\ UNCHANGED process /\ UNCHANGED calls
    BY <1>2 DEF DeleteVirtualModel, Writes
  <2>5. MembersBelong'
    BY <1>0, <2>1, <2>2, <2>4 DEF MembersBelong
  <2> QED
    BY <1>0, <2>3, <2>4, <2>5 DEF CountersBelong
<1>3. ASSUME NEW v \in VirtualIds, NEW m \in ModelIds,
             AddVirtualModelMember(v, m) \/ RemoveVirtualModelMember(v, m)
      PROVE  Goal
  BY <1>0, <1>3 DEF AddVirtualModelMember, RemoveVirtualModelMember, Writes, MembersBelong,
                    CountersBelong, NamesDiffer
<1>4. ASSUME NEW k \in KeyIds, KeyWrites(k) PROVE Goal
  BY <1>0, <1>4 DEF KeyWrites, CreateKey, DeleteKey, Charge, Writes, MembersBelong,
                    CountersBelong, NamesDiffer
<1>5. Goal
  BY <1>1, <1>2, <1>3, <1>4 DEF VirtualModelWrites
<1>6. CatalogTypeOK'
  BY <1>0, OtherWritesType
<1> QED
  BY <1>0, <1>5, <1>6 DEF CatalogIsConsistent, ModelsBelong

LEMMA ProcessConsistent ==
    ASSUME CatalogIsConsistent, Start \/ SeedProvider \/ SeedVirtualModel \/ Serve \/ Exit
    PROVE  CatalogIsConsistent'
<1>0. /\ CatalogTypeOK /\ ModelsBelong /\ MembersBelong /\ CountersBelong /\ NamesDiffer
  BY DEF CatalogIsConsistent
<1>1. CatalogTypeOK'
  BY <1>0, ProcessType
<1>2. CASE Start \/ Serve \/ Exit
  <2>1. UNCHANGED tables
    BY <1>2 DEF Start, Serve, Exit
  <2> QED
    BY <1>0, <1>1, <2>1 DEF tables, CatalogIsConsistent, ModelsBelong, MembersBelong,
                            CountersBelong, NamesDiffer
<1>3. CASE SeedProvider
  <2>1. PICK p, r : \/ providers' = providers
                    \/ p \notin DOMAIN providers /\ providers' = With(providers, p, r)
    BY <1>3 DEF SeedProvider
  <2>2. /\ DOMAIN providers \subseteq DOMAIN providers'
        /\ UNCHANGED <<models, virtuals, members, keys, counters>>
    BY <1>3, <2>1 DEF SeedProvider, With
  <2> QED
    BY <1>0, <1>1, <2>2 DEF CatalogIsConsistent, ModelsBelong, MembersBelong,
                            CountersBelong, NamesDiffer
<1>4. CASE SeedVirtualModel
  <2>1. PICK v, name : \/ virtuals' = virtuals
                       \/ /\ v \notin DOMAIN virtuals /\ name \notin Range(virtuals)
                          /\ virtuals' = With(virtuals, v, name)
    BY <1>4 DEF SeedVirtualModel
  <2>2. UNCHANGED <<providers, models, members, keys, counters>>
    BY <1>4 DEF SeedVirtualModel
  <2>3. CASE virtuals' = virtuals
    BY <1>0, <1>1, <2>2, <2>3 DEF CatalogIsConsistent, ModelsBelong, MembersBelong,
                                  CountersBelong, NamesDiffer
  <2>4. CASE /\ v \notin DOMAIN virtuals /\ name \notin Range(virtuals)
             /\ virtuals' = With(virtuals, v, name)
    <3>1. /\ DOMAIN virtuals' = DOMAIN virtuals \cup {v} /\ virtuals'[v] = name
          /\ \A w \in DOMAIN virtuals : virtuals'[w] = virtuals[w] /\ virtuals[w] # name
      BY <2>4 DEF With, Range
    <3>2. NamesDiffer'
      BY <1>0, <3>1 DEF NamesDiffer
    <3> QED
      BY <1>0, <1>1, <2>2, <3>1, <3>2 DEF CatalogIsConsistent, ModelsBelong, MembersBelong,
                                          CountersBelong
  <2> QED
    BY <2>1, <2>3, <2>4
<1> QED
  BY <1>2, <1>3, <1>4

LEMMA CallsConsistent ==
    ASSUME CatalogIsConsistent,
           \/ \E n \in VirtualNames, m \in ModelIds : Dispatch(n, m)
           \/ \E p \in ProviderIds : QuerySubscription(p)
           \/ \E c \in calls : CallEnds(c)
    PROVE  CatalogIsConsistent'
<1>1. CatalogTypeOK' /\ UNCHANGED <<tables, process, edited, writes>>
  BY CallsType DEF CatalogIsConsistent
<1> QED
  BY <1>1 DEF tables, CatalogIsConsistent, ModelsBelong, MembersBelong, CountersBelong,
              NamesDiffer

LEMMA StepConsistent ==
    ASSUME CatalogIsConsistent, [CatalogNext]_catalogVars
    PROVE  CatalogIsConsistent'
<1>1. CASE UNCHANGED catalogVars
  BY <1>1 DEF catalogVars, tables, process, CatalogIsConsistent, CatalogTypeOK, ModelsBelong,
              MembersBelong, CountersBelong, NamesDiffer
<1>2. CASE CatalogNext
  BY <1>2, ProviderWritesConsistent, OtherWritesConsistent, ProcessConsistent, CallsConsistent
     DEF CatalogNext
<1> QED
  BY <1>1, <1>2

(* No row of the tables ever refers to a row that is gone, a model is never *)
(* under the id of another name and two virtual models never have the same *)
(* name, whatever the admin API writes, the CLI seeds and the schema        *)
(* cascades, in whatever order and across restarts.                         *)
THEOREM CatalogConsistent == CatalogSpec => []CatalogIsConsistent
<1>1. CatalogInit => CatalogIsConsistent
  <2> SUFFICES ASSUME CatalogInit PROVE CatalogIsConsistent
    OBVIOUS
  <2>1. DOMAIN Nothing = {}
    BY DEF Nothing
  <2>2. ModelsBelong /\ MembersBelong /\ CountersBelong /\ NamesDiffer
    BY <2>1 DEF CatalogInit, ModelsBelong, MembersBelong, CountersBelong, NamesDiffer
  <2> QED
    BY <2>2, InitType DEF CatalogIsConsistent
<1>2. CatalogIsConsistent /\ [CatalogNext]_catalogVars => CatalogIsConsistent'
  BY StepConsistent
<1> QED
  BY <1>1, <1>2, PTL DEF CatalogSpec

-----------------------------------------------------------------------------
(* Only a process that serves has indexes and calls under way. *)
Idle == phase # "serving" => calls = {} /\ DOMAIN offers = {}

RoutingInv == CatalogIsConsistent /\ RoutedAsStored /\ Idle

LEMMA ProviderWritesRouted ==
    ASSUME RoutingInv, NEW p \in ProviderIds, ProviderWrites(p)
    PROVE  RoutedAsStored' /\ Idle'
<1>0. CatalogTypeOK /\ ModelsBelong /\ RoutedAsStored /\ Idle
  BY DEF RoutingInv, CatalogIsConsistent
<1>1. /\ UNCHANGED process /\ UNCHANGED calls
      /\ TouchesOnly(p) \/ UNCHANGED <<providers, models, edited>>
  BY ProviderWritesConsistent DEF RoutingInv
<1>2. Idle'
  BY <1>0, <1>1 DEF Idle, process
<1>3. CASE UNCHANGED <<providers, models, edited>>
  BY <1>0, <1>1, <1>2, <1>3 DEF RoutedAsStored, process, ModelsOf, OfferOf
<1>4. CASE TouchesOnly(p)
  <2>1. \A q \in ProviderIds \ edited' : q \notin edited /\ ModelsOf(q)' = ModelsOf(q)
    BY <1>4 DEF TouchesOnly, ModelsOf
  <2>2. ASSUME NEW m \in DOMAIN models, models[m].provider # p
        PROVE  m \in DOMAIN models' /\ OfferOf(m)' = OfferOf(m)
    BY <1>0, <1>4, <2>2 DEF TouchesOnly, ModelsOf, OfferOf, ModelsBelong
  <2>3. phase' = "serving" =>
          \A q \in ProviderIds \ edited' :
             {m \in DOMAIN offers' : offers'[m].provider = q} = ModelsOf(q)'
    BY <1>0, <1>1, <2>1 DEF RoutedAsStored, process
  <2>4. \A m \in DOMAIN offers' : offers'[m].provider \notin edited' =>
          m \in DOMAIN models' /\ offers'[m] = OfferOf(m)'
    <3> SUFFICES ASSUME NEW m \in DOMAIN offers, offers[m].provider \notin edited \cup {p}
                 PROVE  m \in DOMAIN models' /\ offers[m] = OfferOf(m)'
      BY <1>1, <1>4 DEF TouchesOnly, process
    <3>1. m \in DOMAIN models /\ offers[m] = OfferOf(m)
      BY <1>0 DEF RoutedAsStored
    <3>2. models[m].provider # p
      BY <3>1 DEF OfferOf
    <3> QED
      BY <2>2, <3>1, <3>2
  <2>5. \A c \in calls' : c.provider \notin edited' =>
          /\ c.provider \in DOMAIN providers'
          /\ c.url = providers'[c.provider].url /\ c.key = providers'[c.provider].key
          /\ c.protocol \in {Blank, providers'[c.provider].protocol}
    BY <1>0, <1>1, <1>4 DEF TouchesOnly, RoutedAsStored
  <2> QED
    BY <1>2, <2>3, <2>4, <2>5 DEF RoutedAsStored
<1> QED
  BY <1>1, <1>3, <1>4

LEMMA ProcessRouted ==
    ASSUME RoutingInv, Start \/ SeedProvider \/ SeedVirtualModel \/ Serve \/ Exit
    PROVE  RoutedAsStored' /\ Idle'
<1>0. CatalogTypeOK /\ ModelsBelong /\ Idle
  BY DEF RoutingInv, CatalogIsConsistent
<1>1. CASE Start \/ SeedProvider \/ SeedVirtualModel \/ Exit
  <2>1. phase' # "serving" /\ calls' = {} /\ DOMAIN offers' = {}
    BY <1>0, <1>1 DEF Idle, Start, SeedProvider, SeedVirtualModel, Exit, Nothing
  <2> QED
    BY <2>1 DEF RoutedAsStored, Idle
<1>2. CASE Serve
  <2>1. /\ phase' = "serving" /\ calls' = {} /\ edited' = {} /\ UNCHANGED <<models, providers>>
        /\ offers' = [m \in DOMAIN models |-> OfferOf(m)]
    BY <1>0, <1>2 DEF Idle, Serve, tables
  <2>2. \A m : OfferOf(m)' = OfferOf(m)
    BY <2>1 DEF OfferOf
  <2>3. \A m \in DOMAIN models : OfferOf(m).provider = models[m].provider
    BY DEF OfferOf
  <2>4. \A m \in DOMAIN offers' : m \in DOMAIN models' /\ offers'[m] = OfferOf(m)'
    BY <2>1, <2>2
  <2>5. \A p \in ProviderIds : {m \in DOMAIN offers' : offers'[m].provider = p} = ModelsOf(p)'
    BY <2>1, <2>3 DEF ModelsOf
  <2> QED
    BY <2>1, <2>4, <2>5 DEF RoutedAsStored, Idle
<1> QED
  BY <1>1, <1>2

LEMMA CallsRouted ==
    ASSUME RoutingInv,
           \/ \E n \in VirtualNames, m \in ModelIds : Dispatch(n, m)
           \/ \E p \in ProviderIds : QuerySubscription(p)
           \/ \E c \in calls : CallEnds(c)
    PROVE  RoutedAsStored' /\ Idle'
<1> DEFINE Right(c) == c.provider \notin edited =>
                          /\ c.provider \in DOMAIN providers
                          /\ c.url = providers[c.provider].url
                          /\ c.key = providers[c.provider].key
                          /\ c.protocol \in {Blank, providers[c.provider].protocol}
<1>0. CatalogTypeOK /\ ModelsBelong /\ RoutedAsStored /\ Idle
  BY DEF RoutingInv, CatalogIsConsistent
<1>1. UNCHANGED <<tables, process, edited, writes>>
  BY <1>0, CallsType
<1>2. \A c \in calls : Right(c)
  BY <1>0 DEF RoutedAsStored
<1>3. ASSUME NEW n \in VirtualNames, NEW m \in ModelIds, Dispatch(n, m)
      PROVE  phase = "serving" /\ \A c \in calls' : Right(c)
  <2> DEFINE p == offers[m].provider
             c == [provider |-> p, protocol |-> offers[m].protocol,
                   url |-> providers[p].url, key |-> providers[p].key]
  <2>1. m \in DOMAIN offers /\ p \in DOMAIN providers /\ calls' = calls \cup {c} /\ phase = "serving"
    BY <1>3 DEF Dispatch, Calls
  <2>2. p \notin edited => offers[m].protocol = providers[p].protocol
    <3> SUFFICES ASSUME p \notin edited PROVE offers[m].protocol = providers[p].protocol
      OBVIOUS
    <3>1. offers[m] = OfferOf(m)
      BY <1>0, <2>1 DEF RoutedAsStored
    <3> QED
      BY <3>1 DEF OfferOf
  <2>3. Right(c)
    BY <2>1, <2>2
  <2> QED
    BY <1>2, <2>1, <2>3
<1>4. ASSUME NEW p \in ProviderIds, QuerySubscription(p)
      PROVE  phase = "serving" /\ \A c \in calls' : Right(c)
  <2> DEFINE c == [provider |-> p, protocol |-> Blank,
                   url |-> providers[p].url, key |-> providers[p].key]
  <2>1. p \in DOMAIN providers /\ calls' = calls \cup {c} /\ phase = "serving"
    BY <1>4 DEF QuerySubscription, Calls
  <2>2. Right(c)
    BY <2>1
  <2> QED
    BY <1>2, <2>1, <2>2
<1>5. ASSUME NEW c \in calls, CallEnds(c)
      PROVE  phase = "serving" /\ \A d \in calls' : Right(d)
  BY <1>0, <1>2, <1>5 DEF CallEnds, Idle
<1>6. phase = "serving" /\ \A c \in calls' : Right(c)
  BY <1>3, <1>4, <1>5
<1>7. UNCHANGED <<providers, models, phase, offers, edited>>
  BY <1>1 DEF tables, process
<1>8. Idle'
  BY <1>6, <1>7 DEF Idle
<1> QED
  BY <1>0, <1>6, <1>7, <1>8 DEF RoutedAsStored, ModelsOf, OfferOf

(* Until a write about a provider, whatever else is written, started or     *)
(* answered meanwhile, the routing indexes and the calls under way agree    *)
(* with that provider's rows; and so they do again after a restart.         *)
THEOREM RoutedAsStoredHolds == CatalogSpec => []RoutedAsStored
<1>1. CatalogInit => RoutedAsStored /\ Idle
  <2> SUFFICES ASSUME CatalogInit PROVE RoutedAsStored /\ Idle
    OBVIOUS
  <2>1. phase # "serving" /\ calls = {} /\ DOMAIN offers = {}
    BY DEF CatalogInit, Nothing
  <2> QED
    BY <2>1 DEF RoutedAsStored, Idle
<1>2. ASSUME CatalogIsConsistent, RoutedAsStored /\ Idle, [CatalogNext]_catalogVars
      PROVE  RoutedAsStored' /\ Idle'
  <2>0. RoutingInv
    BY <1>2 DEF RoutingInv
  <2>1. CASE UNCHANGED catalogVars
    BY <1>2, <2>1 DEF catalogVars, tables, process, RoutedAsStored, Idle, ModelsOf, OfferOf
  <2>2. CASE \/ \E v \in VirtualIds : VirtualModelWrites(v)
             \/ \E k \in KeyIds : KeyWrites(k)
    <3>1. UNCHANGED <<providers, models, edited>> /\ UNCHANGED process /\ UNCHANGED calls
      BY <1>2, <2>2, OtherWritesConsistent
    <3> QED
      BY <1>2, <3>1 DEF process, RoutedAsStored, Idle, ModelsOf, OfferOf
  <2> QED
    BY <1>2, <2>0, <2>1, <2>2, ProviderWritesRouted, ProcessRouted, CallsRouted DEF CatalogNext
<1> QED
  BY <1>1, <1>2, CatalogConsistent, PTL DEF CatalogSpec

-----------------------------------------------------------------------------
(***************************************************************************)
(* Proofs about Prompts, for every set of ids, names, versions and bodies. *)
(* LatestIsPublished is inductive as it stands: a row keeps its name and   *)
(* its mark when it is saved over, and only Publish sets a mark.           *)
(***************************************************************************)

Rows == UNION {[S -> Template] : S \in SUBSET TemplateIds}

LEMMA RowsAre ==
    ASSUME NEW f
    PROVE  f \in Rows <=> DOMAIN f \subseteq TemplateIds /\ f \in [DOMAIN f -> Template]
BY DEF Rows

(* What getLatest serves is not changed by what is saved. *)
LEMMA SaveKeeps ==
    ASSUME LatestIsPublished,
           NEW t \in TemplateIds, NEW name \in TemplateNames,
           NEW version \in Versions, NEW body \in Bodies, Save(t, name, version, body)
    PROVE  LatestIsPublished'
<1>1. /\ templates \in Rows
      /\ published \in [TemplateNames -> TemplateIds \cup {NoTemplate}]
      /\ \A n \in TemplateNames : Latest(n) = {published[n]} \ {NoTemplate}
  BY DEF LatestIsPublished, PromptTypeOK, Rows
<1>2. \A u \in DOMAIN templates : u \in TemplateIds /\ templates[u] \in Template
  BY <1>1, RowsAre
<1>3. PICK row \in Template :
        /\ templates' = Put(t, row)
        /\ \/ /\ t \in DOMAIN templates
              /\ row.name = templates[t].name /\ row.isLatest = templates[t].isLatest
           \/ t \notin DOMAIN templates /\ row.isLatest = FALSE
  <2>1. CASE t \in DOMAIN templates
    <3> DEFINE r == [templates[t] EXCEPT !.body = body]
    <3>1. r \in Template /\ r.name = templates[t].name /\ r.isLatest = templates[t].isLatest
      BY <1>2, <2>1 DEF Template
    <3>2. templates' = Put(t, r)
      BY <2>1 DEF Save, Rewritten
    <3> QED
      BY <2>1, <3>1, <3>2
  <2>2. CASE t \notin DOMAIN templates
    <3> DEFINE r == [name |-> name, version |-> version, body |-> body, isLatest |-> FALSE]
    <3>1. r \in Template /\ r.isLatest = FALSE
      BY DEF Template
    <3>2. templates' = Put(t, r)
      BY <2>2 DEF Save
    <3> QED
      BY <2>2, <3>1, <3>2
  <2> QED
    BY <2>1, <2>2
<1>4. /\ DOMAIN templates' = DOMAIN templates \cup {t} /\ templates'[t] = row
      /\ \A u \in DOMAIN templates \ {t} : templates'[u] = templates[u]
  BY <1>3 DEF Put
<1>5. templates' \in Rows
  <2>1. templates' = [u \in DOMAIN templates \cup {t} |-> IF u = t THEN row ELSE templates[u]]
    BY <1>3 DEF Put
  <2>2. templates' \in [DOMAIN templates \cup {t} -> Template]
    BY <1>2, <2>1
  <2> QED
    BY <1>2, <2>2 DEF Rows
<1>6. \A n \in TemplateNames : Latest(n)' = Latest(n)
  BY <1>3, <1>4 DEF Latest
<1>7. published' = published
  BY DEF Save
<1> QED
  BY <1>1, <1>5, <1>6, <1>7 DEF LatestIsPublished, PromptTypeOK, Rows

(* The version that is published is the only one marked under its name. *)
LEMMA PublishMoves ==
    ASSUME LatestIsPublished, NEW t \in TemplateIds, Publish(t)
    PROVE  LatestIsPublished'
<1>0. PICK name : name = templates[t].name
  OBVIOUS
<1>1. /\ templates \in Rows /\ t \in DOMAIN templates
      /\ published \in [TemplateNames -> TemplateIds \cup {NoTemplate}]
      /\ \A n \in TemplateNames : Latest(n) = {published[n]} \ {NoTemplate}
  BY DEF LatestIsPublished, PromptTypeOK, Publish, Rows
<1>2. \A u \in DOMAIN templates : u \in TemplateIds /\ templates[u] \in Template
  BY <1>1, RowsAre
<1>3. templates' = [u \in DOMAIN templates |->
                      IF templates[u].name = name
                      THEN [templates[u] EXCEPT !.isLatest = (u = t)] ELSE templates[u]]
  BY <1>0 DEF Publish
<1>4. published' = [published EXCEPT ![name] = t] /\ name \in TemplateNames
  BY <1>0, <1>1, <1>2 DEF Publish, Template
<1>5. /\ DOMAIN templates' = DOMAIN templates
      /\ \A u \in DOMAIN templates :
            /\ templates'[u] \in Template /\ templates'[u].name = templates[u].name
            /\ templates'[u].isLatest = IF templates[u].name = name THEN u = t
                                        ELSE templates[u].isLatest
  BY <1>2, <1>3 DEF Template
<1>6. templates' \in Rows
  <2>1. templates' \in [DOMAIN templates -> Template]
    BY <1>3, <1>5
  <2> QED
    BY <1>2, <2>1 DEF Rows
<1>7. Latest(name)' = {t}
  <2>1. Latest(name)' = {u \in DOMAIN templates : templates[u].name = name /\ u = t}
    BY <1>5 DEF Latest
  <2>2. t \in DOMAIN templates /\ templates[t].name = name
    BY <1>0, <1>1
  <2> QED
    BY <2>1, <2>2
<1>8. \A n \in TemplateNames \ {name} : Latest(n)' = Latest(n)
  BY <1>5 DEF Latest
<1>9. ASSUME NEW n \in TemplateNames
      PROVE  Latest(n)' = {published'[n]} \ {NoTemplate}
  <2>1. CASE n = name
    <3>1. published'[n] = t /\ t # NoTemplate
      BY <1>1, <1>4, <2>1, PromptsConfig
    <3> QED
      BY <1>7, <2>1, <3>1
  <2>2. CASE n # name
    <3>1. published'[n] = published[n]
      BY <1>1, <1>4, <2>2
    <3> QED
      BY <1>1, <1>8, <2>2, <3>1
  <2> QED
    BY <2>1, <2>2
<1>10. published' \in [TemplateNames -> TemplateIds \cup {NoTemplate}]
  BY <1>1, <1>4
<1> QED
  BY <1>6, <1>9, <1>10 DEF LatestIsPublished, PromptTypeOK, Rows

(* A version that is deleted leaves its name without a version to serve, if *)
(* it was the one, and no other name.                                       *)
LEMMA DeleteForgets ==
    ASSUME LatestIsPublished, NEW t \in TemplateIds, Delete(t)
    PROVE  LatestIsPublished'
<1>1. /\ templates \in Rows
      /\ published \in [TemplateNames -> TemplateIds \cup {NoTemplate}]
      /\ \A n \in TemplateNames : Latest(n) = {published[n]} \ {NoTemplate}
  BY DEF LatestIsPublished, PromptTypeOK, Rows
<1>2. \A u \in DOMAIN templates : u \in TemplateIds /\ templates[u] \in Template
  BY <1>1, RowsAre
<1>3. templates' = [u \in DOMAIN templates \ {t} |-> templates[u]]
  BY DEF Delete
<1>4. published' = [n \in TemplateNames |->
                      IF published[n] = t THEN NoTemplate ELSE published[n]]
  BY DEF Delete
<1>5. templates' \in Rows
  <2>1. templates' \in [DOMAIN templates \ {t} -> Template]
    BY <1>2, <1>3
  <2> QED
    BY <1>2, <2>1 DEF Rows
<1>6. \A n \in TemplateNames : Latest(n)' = Latest(n) \ {t}
  BY <1>3 DEF Latest
<1>7. \A n \in TemplateNames : Latest(n)' = {published'[n]} \ {NoTemplate}
  BY <1>1, <1>4, <1>6
<1>8. published' \in [TemplateNames -> TemplateIds \cup {NoTemplate}]
  BY <1>1, <1>4
<1> QED
  BY <1>5, <1>7, <1>8 DEF LatestIsPublished, PromptTypeOK, Rows

(* However versions are saved, published and deleted, getLatest serves the *)
(* version that was published last under the name, until that very version *)
(* is deleted.                                                             *)
THEOREM LatestIsPublishedHolds == PromptSpec => []LatestIsPublished
<1>1. PromptInit => LatestIsPublished
  <2> SUFFICES ASSUME PromptInit PROVE LatestIsPublished
    OBVIOUS
  <2>1. DOMAIN templates = {} /\ templates \in [{} -> Template]
    BY DEF PromptInit
  <2>2. templates \in Rows
    BY <2>1 DEF Rows
  <2> QED
    BY <2>1, <2>2 DEF PromptInit, LatestIsPublished, PromptTypeOK, Latest, Rows
<1>2. LatestIsPublished /\ [PromptNext]_promptVars => LatestIsPublished'
  <2> SUFFICES ASSUME LatestIsPublished, [PromptNext]_promptVars PROVE LatestIsPublished'
    OBVIOUS
  <2>1. CASE UNCHANGED promptVars
    BY <2>1 DEF promptVars, LatestIsPublished, PromptTypeOK, Latest
  <2>2. CASE PromptNext
    BY <2>2, SaveKeeps, PublishMoves, DeleteForgets DEF PromptNext
  <2> QED
    BY <2>1, <2>2
<1> QED
  BY <1>1, <1>2, PTL DEF PromptSpec

-----------------------------------------------------------------------------
(***************************************************************************)
(* Proofs about McpClient, for any number of children and requests: a      *)
(* request that is answered got its own answer.                            *)
(*                                                                         *)
(* The inductive invariant says why: the ids are counted up and never      *)
(* used again, not even when a new child is started, so that a number      *)
(* names one request in the table of those that wait, in what a child      *)
(* read, in what it wrote and in what was read of it.                      *)
(***************************************************************************)

OwnMessage == {m \in Message : m.id = m.request}
OwnHalf == {h \in Half : h.id = h.request}

(* Ids count the requests, a number that waits is its request's, whatever   *)
(* a child read or wrote bears one number, and who is answered has its own. *)
IInv ==
    /\ nextId = Len(requests) + 1 /\ Len(requests) <= MaxRequests
    /\ requests \in Seq(Request)
    /\ \A r \in DOMAIN requests : requests[r].state = "answered" => requests[r].got = r
    /\ \A i \in DOMAIN pending : i \in DOMAIN requests /\ pending[i] = i
    /\ proc \in Children \cup {NoChild} /\ child \in [Children -> Status]
    /\ stopping \subseteq Children
    /\ inbox \in [Children -> SUBSET OwnMessage]
    /\ pipe \in [Children -> Seq(OwnHalf)] /\ buffer \in Seq(OwnHalf)

-----------------------------------------------------------------------------
LEMMA SeqWider ==
    ASSUME NEW R, NEW S, R \subseteq S, NEW q \in Seq(R)
    PROVE  q \in Seq(S)
OBVIOUS

(* A sequence whose elements are replaced, one by one. *)
LEMMA SeqMapped ==
    ASSUME NEW R, NEW S, NEW q \in Seq(R), NEW g,
           g = [i \in DOMAIN q |-> g[i]], \A i \in DOMAIN q : g[i] \in S
    PROVE  g \in Seq(S) /\ Len(g) = Len(q) /\ DOMAIN g = DOMAIN q
<1>1. Len(q) \in Nat /\ DOMAIN q = 1..Len(q)
  OBVIOUS
<1>2. g \in [1..Len(q) -> S]
  BY <1>1
<1>3. g \in Seq(S)
  BY <1>1, <1>2
<1> QED
  BY <1>1, <1>2, <1>3

LEMMA SeqConcat ==
    ASSUME NEW R, NEW q \in Seq(R), NEW s \in Seq(R)
    PROVE  q \o s \in Seq(R)
BY ConcatProperties

LEMMA SeqPart ==
    ASSUME NEW R, NEW q \in Seq(R), NEW m \in Nat \ {0}, NEW n \in 0..Len(q)
    PROVE  SubSeq(q, m, n) \in Seq(R)
<1>1. \A i \in m..n : q[i] \in R
  OBVIOUS
<1> QED
  BY <1>1, SubSeqProperties

(* A nonempty set of numbers with a bound has a greatest element. *)
LEMMA Greatest ==
    ASSUME NEW b \in Nat, NEW S, S \subseteq 0..b, S # {}
    PROVE  \E n \in S : \A i \in S : i <= n
<1> DEFINE T == {b - i : i \in S}
<1>0. \A i \in S : i \in Nat /\ b - i \in Nat
  OBVIOUS
<1>1. T \subseteq Nat /\ T # {}
  <2>1. T \subseteq Nat
    BY <1>0
  <2>2. PICK i \in S : TRUE
    OBVIOUS
  <2>3. b - i \in T
    BY <2>2
  <2> QED
    BY <2>1, <2>3
<1>2. PICK x \in T : \A y \in T : ~ (<<y, x>> \in OpToRel(<, Nat))
  BY <1>1, NatLessThanWellFounded, WFMin
<1>3. \A y \in T : ~ (y < x)
  BY <1>1, <1>2 DEF OpToRel
<1>4. PICK n \in S : x = b - n
  BY <1>2
<1>5. \A i \in S : b - i \in T
  OBVIOUS
<1>6. \A i \in S : i <= n
  <2> SUFFICES ASSUME NEW i \in S PROVE i <= n
    OBVIOUS
  <2>1. ~ (b - i < b - n)
    BY <1>3, <1>4, <1>5
  <2> QED
    BY <1>0, <1>4, <2>1
<1> QED
  BY <1>4, <1>6

(* What is kept for the next piece is an end of what was read. *)
LEMMA RestType ==
    ASSUME NEW R, NEW q \in Seq(R)
    PROVE  Rest(q) \in Seq(R)
<1> DEFINE S == Ends(q) \cup {0}
           n == CHOOSE n \in Ends(q) \cup {0} : \A i \in Ends(q) : i <= n
<1>1. Len(q) \in Nat /\ Ends(q) \subseteq 1..Len(q)
  BY DEF Ends
<1>2. S \subseteq 0..Len(q) /\ S # {}
  BY <1>1
<1>3. \E k \in S : \A i \in S : i <= k
  BY <1>1, <1>2, Greatest
<1>4. n \in S
  BY <1>3
<1> HIDE DEF n, S
<1>5. n + 1 \in Nat \ {0} /\ Len(q) \in 0..Len(q)
  BY <1>1, <1>2, <1>4
<1>6. SubSeq(q, n + 1, Len(q)) \in Seq(R)
  BY <1>5, SeqPart
<1> QED
  BY <1>6 DEF Rest, n

LEMMA WholeIsOwn ==
    ASSUME NEW q \in Seq(OwnHalf), NEW h \in Whole(q)
    PROVE  h.id = h.request
<1>1. PICK j \in DOMAIN q : h = q[j]
  BY DEF Whole, Ends
<1>2. q[j] \in OwnHalf
  OBVIOUS
<1> QED
  BY <1>1, <1>2 DEF OwnHalf

-----------------------------------------------------------------------------
(* What every step relies on. *)
LEMMA Known ==
    ASSUME IInv
    PROVE  /\ nextId = Len(requests) + 1 /\ Len(requests) \in Nat
           /\ Len(requests) <= MaxRequests /\ MaxRequests \in Nat
           /\ DOMAIN requests = 1..Len(requests) /\ requests \in Seq(Request)
           /\ \A r \in DOMAIN requests : /\ r \in Requests /\ requests[r] \in Request
                                         /\ requests[r].state = "answered" => requests[r].got = r
           /\ \A i \in DOMAIN pending : i \in DOMAIN requests /\ pending[i] = i
           /\ proc \in Children \cup {NoChild} /\ child \in [Children -> Status]
           /\ stopping \subseteq Children
           /\ inbox \in [Children -> SUBSET OwnMessage] /\ pipe \in [Children -> Seq(OwnHalf)]
           /\ buffer \in Seq(OwnHalf)
<1>1. requests \in Seq(Request) /\ Len(requests) <= MaxRequests /\ MaxRequests \in Nat
  BY McpConfig DEF IInv
<1>2. DOMAIN requests = 1..Len(requests) /\ Len(requests) \in Nat
  BY <1>1
<1>3. \A r \in DOMAIN requests : r \in Requests /\ requests[r] \in Request
  BY <1>1, <1>2 DEF Requests
<1> QED
  BY <1>1, <1>2, <1>3 DEF IInv

(* The invariant is stronger than what it is for. *)
LEMMA Enough == IInv => AnswersAreTheirOwn
<1> SUFFICES ASSUME IInv PROVE AnswersAreTheirOwn
  OBVIOUS
<1>1. OwnHalf \subseteq Half /\ OwnMessage \subseteq Message
  BY DEF OwnHalf, OwnMessage
<1>2. buffer \in Seq(Half) /\ \A c \in Children : pipe[c] \in Seq(Half)
  BY <1>1, Known, SeqWider
<1>3. pipe \in [Children -> Seq(Half)]
  BY <1>2, Known
<1>4. inbox \in [Children -> SUBSET Message]
  BY <1>1, Known
<1>5. McpTypeOK
  BY <1>2, <1>3, <1>4, Known DEF McpTypeOK
<1> QED
  BY <1>5, Known DEF AnswersAreTheirOwn

(* A failed request is not an answered one. *)
LEMMA FailAllKeeps ==
    ASSUME IInv, FailAll
    PROVE  /\ requests' \in Seq(Request) /\ Len(requests') = Len(requests)
           /\ \A r \in DOMAIN requests' :
                 requests'[r].state = "answered" => requests'[r].got = r
           /\ DOMAIN pending' = {}
<1>1. requests' = [r \in DOMAIN requests |->
                     IF \E i \in DOMAIN pending : pending[i] = r
                     THEN [requests[r] EXCEPT !.state = "failed"] ELSE requests[r]]
  BY DEF FailAll
<1>2. ASSUME NEW r \in DOMAIN requests
      PROVE  /\ requests'[r] \in Request
             /\ requests'[r].state = "answered" => requests'[r].got = r
  <2>1. requests[r] \in Request /\ (requests[r].state = "answered" => requests[r].got = r)
    BY Known
  <2>2. [requests[r] EXCEPT !.state = "failed"] \in Request
        /\ [requests[r] EXCEPT !.state = "failed"].state = "failed"
    BY <2>1 DEF Request
  <2> QED
    BY <1>1, <2>1, <2>2
<1>3. requests' = [r \in DOMAIN requests |-> requests'[r]]
  BY <1>1
<1>4. /\ requests' \in Seq(Request) /\ Len(requests') = Len(requests)
      /\ DOMAIN requests' = DOMAIN requests
  BY <1>2, <1>3, Known, SeqMapped
<1>5. DOMAIN pending' = {}
  BY DEF FailAll
<1> QED
  BY <1>2, <1>4, <1>5

-----------------------------------------------------------------------------
LEMMA StartKeeps ==
    ASSUME IInv, NEW c \in Children, NEW outcome, StartChild(c, outcome)
    PROVE  IInv'
<1>1. /\ child' = [child EXCEPT ![c] = outcome] /\ proc' = c /\ nextId' = nextId
      /\ UNCHANGED <<pending, inbox, pipe, buffer, requests, stopping>>
      /\ outcome \in Status
  BY DEF StartChild, IdAfterStart, Status
<1>2. child' \in [Children -> Status]
  BY <1>1, Known
<1> QED
  BY <1>1, <1>2, Known DEF IInv

LEMMA RequestKeeps ==
    ASSUME IInv, MakeRequest
    PROVE  IInv'
<1> DEFINE r == Len(requests) + 1
           new == [child |-> proc, state |-> "waiting", got |-> NoRequest]
           message == [id |-> nextId, request |-> r]
<1>0. /\ nextId = r /\ r \in Nat \ {0} /\ r <= MaxRequests /\ proc \in Children
      /\ DOMAIN requests = 1..Len(requests) /\ requests \in Seq(Request)
  BY Known DEF MakeRequest
<1>1. /\ nextId' = r + 1
      /\ requests' = Append(requests, new)
      /\ UNCHANGED <<proc, child, pipe, buffer, stopping>>
  BY <1>0 DEF MakeRequest
<1>2. new \in Request /\ new.state = "waiting"
  BY <1>0 DEF Request
<1> HIDE DEF new
<1>3. /\ requests' \in Seq(Request) /\ Len(requests') = r /\ DOMAIN requests' = 1..r
      /\ requests'[r] = new /\ \A i \in 1..Len(requests) : requests'[i] = requests[i]
  BY <1>0, <1>1, <1>2
<1>4. \A i \in DOMAIN requests' :
        requests'[i].state = "answered" => requests'[i].got = i
  <2> SUFFICES ASSUME NEW i \in 1..r, requests'[i].state = "answered"
               PROVE  requests'[i].got = i
    BY <1>3
  <2>1. i \in 1..Len(requests)
    BY <1>0, <1>2, <1>3
  <2> QED
    BY <1>0, <1>3, <2>1, Known
<1>5. \A i \in DOMAIN pending' : i \in DOMAIN requests' /\ pending'[i] = i
  <2>1. pending' = [i \in DOMAIN pending \cup {r} |-> IF i = r THEN r ELSE pending[i]]
    BY <1>0 DEF MakeRequest
  <2>2. \A i \in DOMAIN pending : i \in 1..Len(requests) /\ pending[i] = i
    BY <1>0, Known
  <2> QED
    BY <1>0, <1>3, <2>1, <2>2
<1>6. inbox' \in [Children -> SUBSET OwnMessage]
  <2>1. message \in OwnMessage
    BY <1>0 DEF OwnMessage, Message, Requests
  <2>2. \/ inbox' = inbox
        \/ inbox' = [inbox EXCEPT ![proc] = @ \cup {message}]
    BY DEF MakeRequest
  <2> HIDE DEF message
  <2>3. inbox \in [Children -> SUBSET OwnMessage]
    BY Known
  <2> QED
    BY <1>0, <2>1, <2>2, <2>3
<1>7. nextId' = Len(requests') + 1 /\ Len(requests') <= MaxRequests
  BY <1>0, <1>1, <1>3
<1> QED
  BY <1>1, <1>3, <1>4, <1>5, <1>6, <1>7, Known DEF IInv

LEMMA FailuresKeep ==
    ASSUME IInv, NEW c \in Children, Stopped(c) \/ ReportExit(c) \/ ReportError(c)
    PROVE  IInv'
<1>1. /\ requests' \in Seq(Request) /\ Len(requests') = Len(requests)
      /\ \A r \in DOMAIN requests' : requests'[r].state = "answered" => requests'[r].got = r
      /\ DOMAIN pending' = {}
  BY FailAllKeeps DEF Stopped, ReportExit, ReportError
<1>2. UNCHANGED <<nextId, inbox, pipe, buffer>>
  BY DEF Stopped, ReportExit, ReportError
<1>3. /\ proc' \in Children \cup {NoChild} /\ child' \in [Children -> Status]
      /\ stopping' \subseteq Children
  BY Known DEF Stopped, ReportExit, ReportError, Status
<1> QED
  BY <1>1, <1>2, <1>3, Known DEF IInv

LEMMA ChildKeeps ==
    ASSUME IInv, NEW c \in Children,
           \/ \E m \in inbox[c] : ChildAnswers(c, m)
           \/ \E cut \in 0..1 : ChildExits(c, cut)
    PROVE  IInv'
<1>0. inbox \in [Children -> SUBSET OwnMessage] /\ pipe \in [Children -> Seq(OwnHalf)]
  BY Known
<1>1. ASSUME NEW m \in inbox[c], ChildAnswers(c, m) PROVE IInv'
  <2> DEFINE q == <<[id |-> m.id, request |-> m.request, last |-> FALSE],
                    [id |-> m.id, request |-> m.request, last |-> TRUE]>>
  <2>1. m \in OwnMessage
    BY <1>0
  <2>2. q \in Seq(OwnHalf)
    <3>1. /\ [id |-> m.id, request |-> m.request, last |-> FALSE] \in OwnHalf
          /\ [id |-> m.id, request |-> m.request, last |-> TRUE] \in OwnHalf
      BY <2>1 DEF OwnMessage, Message, OwnHalf, Half
    <3> QED
      BY <3>1
  <2>3. /\ pipe' = [pipe EXCEPT ![c] = pipe[c] \o q]
        /\ inbox' = [inbox EXCEPT ![c] = @ \ {m}]
        /\ UNCHANGED <<proc, child, nextId, pending, buffer, requests, stopping>>
    BY <1>1 DEF ChildAnswers
  <2> HIDE DEF q
  <2>4. pipe[c] \o q \in Seq(OwnHalf)
    BY <1>0, <2>2, SeqConcat
  <2>5. pipe' \in [Children -> Seq(OwnHalf)] /\ inbox' \in [Children -> SUBSET OwnMessage]
    BY <1>0, <2>3, <2>4
  <2> QED
    BY <2>3, <2>5, Known DEF IInv
<1>2. ASSUME NEW cut \in 0..1, ChildExits(c, cut) PROVE IInv'
  <2>1. /\ pipe' = [pipe EXCEPT ![c] = SubSeq(pipe[c], 1, Len(pipe[c]) - cut)]
        /\ inbox' = [inbox EXCEPT ![c] = {}] /\ child' = [child EXCEPT ![c] = "gone"]
        /\ UNCHANGED <<proc, nextId, pending, buffer, requests, stopping>>
        /\ cut <= Len(pipe[c])
    BY <1>2 DEF ChildExits
  <2>2. pipe[c] \in Seq(OwnHalf)
    BY <1>0
  <2>3. Len(pipe[c]) - cut \in 0..Len(pipe[c])
    BY <2>1, <2>2
  <2>4. SubSeq(pipe[c], 1, Len(pipe[c]) - cut) \in Seq(OwnHalf)
    BY <2>2, <2>3, SeqPart
  <2>5. pipe' \in [Children -> Seq(OwnHalf)] /\ inbox' \in [Children -> SUBSET OwnMessage]
    BY <1>0, <2>1, <2>4
  <2>6. child' \in [Children -> Status]
    BY <2>1, Known DEF Status
  <2> QED
    BY <2>1, <2>5, <2>6, Known DEF IInv
<1> QED
  BY <1>1, <1>2

LEMMA StdoutKeeps ==
    ASSUME IInv, NEW c \in Children, NEW n \in 1..Len(pipe[c]), OnStdout(c, n)
    PROVE  IInv'
<1> DEFINE text  == buffer \o SubSeq(pipe[c], 1, n)
           heard == {h \in Whole(text) : h.id \in DOMAIN pending}
           answered(r) == [requests[r] EXCEPT
                             !.state = "answered",
                             !.got = (CHOOSE h \in heard : pending[h.id] = r).request]
<1>0. /\ pipe[c] \in Seq(OwnHalf) /\ buffer \in Seq(OwnHalf)
      /\ pipe \in [Children -> Seq(OwnHalf)]
  BY Known
<1>1. /\ pipe' = [pipe EXCEPT ![c] = SubSeq(pipe[c], n + 1, Len(pipe[c]))]
      /\ buffer' = Rest(text)
      /\ pending' = [i \in DOMAIN pending \ {h.id : h \in heard} |-> pending[i]]
      /\ requests' = [r \in DOMAIN requests |->
                        IF \E h \in heard : pending[h.id] = r THEN answered(r) ELSE requests[r]]
      /\ UNCHANGED <<proc, child, nextId, inbox, stopping>>
  BY DEF OnStdout
<1>2. /\ SubSeq(pipe[c], 1, n) \in Seq(OwnHalf)
      /\ SubSeq(pipe[c], n + 1, Len(pipe[c])) \in Seq(OwnHalf)
  <2>1. n \in 0..Len(pipe[c]) /\ n + 1 \in Nat \ {0} /\ Len(pipe[c]) \in 0..Len(pipe[c])
    BY <1>0
  <2> QED
    BY <1>0, <2>1, SeqPart
<1>3. text \in Seq(OwnHalf)
  BY <1>0, <1>2, SeqConcat
<1>4. pipe' \in [Children -> Seq(OwnHalf)] /\ buffer' \in Seq(OwnHalf)
  BY <1>0, <1>1, <1>2, <1>3, RestType
<1>5. \A h \in heard : h.request = h.id /\ pending[h.id] = h.id
  BY <1>3, WholeIsOwn, Known
<1> HIDE DEF text, heard
<1>6. ASSUME NEW r \in DOMAIN requests, \E h \in heard : pending[h.id] = r
      PROVE  answered(r) \in Request /\ answered(r).got = r
  <2> DEFINE h == CHOOSE h \in heard : pending[h.id] = r
  <2>1. h \in heard /\ pending[h.id] = r
    BY <1>6
  <2> HIDE DEF h
  <2>2. h.request = r
    BY <1>5, <2>1
  <2>3. requests[r] \in Request /\ r \in Requests
    BY Known
  <2>4. answered(r) = [requests[r] EXCEPT !.state = "answered", !.got = r]
    BY <2>2 DEF h
  <2> HIDE DEF answered
  <2>5. PICK a : a = answered(r)
    OBVIOUS
  <2>6. a = [requests[r] EXCEPT !.state = "answered", !.got = r]
    BY <2>4, <2>5
  <2>7. a \in Request /\ a.got = r
    BY <2>3, <2>6 DEF Request
  <2> QED
    BY <2>5, <2>7
<1> HIDE DEF answered
<1>7. \A r \in DOMAIN requests : /\ requests'[r] \in Request
                                 /\ requests'[r].state = "answered" => requests'[r].got = r
  BY <1>1, <1>6, Known
<1>8. requests' = [r \in DOMAIN requests |-> requests'[r]]
  BY <1>1
<1>9. /\ requests' \in Seq(Request) /\ Len(requests') = Len(requests)
      /\ DOMAIN requests' = DOMAIN requests
  BY <1>7, <1>8, Known, SeqMapped
<1>10. \A i \in DOMAIN pending' : i \in DOMAIN requests' /\ pending'[i] = i
  BY <1>1, <1>9, Known
<1> QED
  BY <1>1, <1>4, <1>7, <1>9, <1>10, Known DEF IInv

-----------------------------------------------------------------------------
(* However the answers of the children are cut, swapped, delayed past the  *)
(* end of their child or mixed into the output of the next one, request()  *)
(* never resolves with the answer to another request.                      *)
THEOREM AnswersAreTheirOwnHolds == McpSpec => []AnswersAreTheirOwn
<1>1. McpInit => IInv
  <2> SUFFICES ASSUME McpInit PROVE IInv
    OBVIOUS
  <2>1. /\ requests = <<>> /\ Len(requests) = 0 /\ DOMAIN requests = {}
        /\ requests \in Seq(Request) /\ DOMAIN pending = {} /\ buffer \in Seq(OwnHalf)
        /\ nextId = 1 /\ proc = NoChild /\ stopping = {}
    BY DEF McpInit
  <2>2. /\ child \in [Children -> Status] /\ inbox \in [Children -> SUBSET OwnMessage]
        /\ pipe \in [Children -> Seq(OwnHalf)]
    BY DEF McpInit, Status
  <2> QED
    BY <2>1, <2>2, McpConfig DEF IInv
<1>2. IInv /\ [McpNext]_mcpVars => IInv'
  <2> SUFFICES ASSUME IInv, [McpNext]_mcpVars PROVE IInv'
    OBVIOUS
  <2>1. CASE UNCHANGED mcpVars
    BY <2>1, Known DEF mcpVars, IInv
  <2>2. CASE Stop
    <3>1. /\ proc' = NoChild /\ stopping' \subseteq Children
          /\ UNCHANGED <<child, nextId, pending, inbox, pipe, buffer, requests>>
      BY <2>2, Known DEF Stop
    <3> QED
      BY <3>1, Known DEF IInv
  <2>3. CASE MakeRequest
    BY <2>3, RequestKeeps
  <2>4. CASE \E c \in Children :
               \/ \E outcome \in {"running", "failed"} : StartChild(c, outcome)
               \/ \E m \in inbox[c] : ChildAnswers(c, m)
               \/ \E cut \in 0..1 : ChildExits(c, cut)
               \/ \E n \in 1..Len(pipe[c]) : OnStdout(c, n)
               \/ Stopped(c)
               \/ ReportExit(c)
               \/ ReportError(c)
    BY <2>4, StartKeeps, ChildKeeps, StdoutKeeps, FailuresKeep
  <2> QED
    BY <2>1, <2>2, <2>3, <2>4 DEF McpNext
<1> QED
  BY <1>1, <1>2, Enough, PTL DEF McpSpec
=============================================================================
