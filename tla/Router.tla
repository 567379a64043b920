-------------------------------- MODULE Router --------------------------------
(***************************************************************************)
(* router/strategies.ts with the counter the dispatch pipeline keeps: which *)
(* upstream model serves a request for a virtual model.  A request is       *)
(* routed without an await, so it is one step.                             *)
(***************************************************************************)
EXTENDS Availability, Arrays, FiniteSetsExt, Functions

CONSTANTS VirtualModels,  \* their names
          Catalog,        \* the virtual models as the database has them
          MaxCounter      \* bound: requests a virtual model counts

Nobody == "nobody"  \* null

Strategy == {"RoundRobin", "WeightedRandom", "Failover", "LowestLatency"}

Member == [model: Models, weight: Int, enabled: BOOLEAN]

(* Members come in the order of their priority, each model once (the       *)
(* table's primary key); a fallback may name what does not exist.          *)
ASSUME CatalogConfig ==
    /\ DOMAIN Catalog = VirtualModels
    /\ \A v \in VirtualModels :
          /\ DOMAIN Catalog[v] = {"strategy", "members", "fallbackChain"}
          /\ Catalog[v].strategy \in Strategy
          /\ Catalog[v].members \in Seq(Member)
          /\ \A i, j \in DOMAIN Catalog[v].members :
                Catalog[v].members[i].model = Catalog[v].members[j].model => i = j
          /\ Catalog[v].fallbackChain \in Seq(STRING)
    /\ Nobody \notin Models
    /\ MaxCounter \in Nat

VARIABLES counter,   \* the pipeline's state.nextCounter, 0 when absent
          rotation   \* auxiliary: the round robin's latest row of turns

routerVars == <<counter, rotation>>
vars == <<entries, streak, heard, counter, rotation>>

(* Whom the turns went to while the candidates stayed the same. *)
Rotation == [among: Seq(Models), turns: [Models -> Nat]]
NoTurns == [m \in Models |-> 0]

TypeOK == /\ AvailabilityTypeOK
          /\ counter \in [VirtualModels -> Nat]
          /\ rotation \in [VirtualModels -> Rotation]

Init == /\ AvailabilityInit
        /\ counter = [v \in VirtualModels |-> 0]
        /\ rotation = [v \in VirtualModels |-> [among |-> <<>>, turns |-> NoTurns]]

-----------------------------------------------------------------------------
(* fromRow: the models of the enabled members. *)
Members == [v \in VirtualModels |->
    Mapped(LAMBDA m : m.model, Filter(Catalog[v].members, LAMBDA m : m.enabled))]

(* filterRoutable: those not known to be down.  Every member's model is in *)
(* the upstream index, under one provider, so nothing is left for the      *)
(* deduplication to drop.                                                  *)
Candidates(v) == Filter(Members[v], IsRoutable)

WeightFor(v, m) ==
    Max({0} \cup {Catalog[v].members[i].weight :
                  i \in {j \in DOMAIN Catalog[v].members : Catalog[v].members[j].model = m}})

(* mutant: the index runs from 0 to n *)
RoundRobin_OffByOne(cs, count) ==
    IF count % (Len(cs) + 1) = 0 THEN Nobody ELSE cs[count % (Len(cs) + 1)]

(* candidates[(counter - 1) % n]: a remainder takes the sign of the        *)
(* dividend, so that the very first count points before the array unless   *)
(* n = 1.                                                                  *)
RoundRobin(cs, count) ==
    IF count = 0 /\ Len(cs) > 1 THEN Nobody ELSE cs[((count - 1) % Len(cs)) + 1]

(* Whoever the draw may hit; with no weight at all, the first. *)
WeightedRandom(v, cs) ==
    LET weighty == {m \in Range(cs) : WeightFor(v, m) > 0}
    IN  IF weighty = {} THEN {cs[1]} ELSE weighty

(* The first of the fastest; nobody while no latency is known. *)
LowestLatency(cs) ==
    LET p50(i) == entries[cs[i]].latencyMsP50
        timed  == {i \in DOMAIN cs : Known(cs[i]) /\ p50(i) # NoLatency}
        best   == {i \in timed : \A j \in timed : p50(i) <= p50(j)}
    IN  IF timed = {} THEN Nobody ELSE cs[Min(best)]

(* tryOne: the possible picks of v when its counter stands at count.       *)
Picks(v, count) ==
    LET cs == Candidates(v)
    IN  IF cs = <<>> THEN {Nobody}
        ELSE CASE Catalog[v].strategy = "RoundRobin"     -> {RoundRobin(cs, count)}
               [] Catalog[v].strategy = "WeightedRandom" -> WeightedRandom(v, cs)
               [] Catalog[v].strategy = "Failover"       -> {cs[1]}
               [] Catalog[v].strategy = "LowestLatency"  -> {LowestLatency(cs)}

-----------------------------------------------------------------------------
(* The virtual models a request for v tries, in order: v and its fallbacks *)
(* (not theirs), unknown names left out.                                   *)
Chain == [v \in VirtualModels |->
    <<v>> \o Filter(Catalog[v].fallbackChain, LAMBDA w : w \in VirtualModels)]

(* Whether trying w takes a turn of its counter. *)
TakesTurn(w) == Catalog[w].strategy = "RoundRobin" /\ Candidates(w) # <<>>

(* mutant: the counter moves once per chain, whoever was tried in it *)
TurnsOf_FirstOnly(v, w, n) ==
    IF TakesTurn(w) /\ n > 0 /\ Chain[v][1] = w THEN 1 ELSE 0

(* The turns of w among the first n of v's chain, which may hold it twice. *)
TurnsOf(v, w, n) ==
    IF TakesTurn(w) THEN Cardinality({i \in 1..n : Chain[v][i] = w}) ELSE 0

CountAt(v, i) == counter[Chain[v][i]] + TurnsOf(v, Chain[v][i], i - 1)

Misses(v, i) == Nobody \in Picks(Chain[v][i], CountAt(v, i))

(* The rotation of w after one more turn, which went to m. *)
Turned(w, m) ==
    LET old == IF rotation[w].among = Candidates(w) THEN rotation[w].turns ELSE NoTurns
    IN  [among |-> Candidates(w), turns |-> [old EXCEPT ![m] = @ + 1]]

(* Every visit of the first n counts, and the last one may pick somebody.  *)
Visit(v, n, m) ==
    /\ counter' = [w \in VirtualModels |-> counter[w] + TurnsOf(v, w, n)]
    /\ \A w \in VirtualModels : counter'[w] <= MaxCounter
    /\ rotation' = [w \in VirtualModels |->
                      IF m # Nobody /\ Chain[v][n] = w /\ TakesTurn(w)
                      THEN Turned(w, m) ELSE rotation[w]]
    /\ UNCHANGED availabilityVars

(* What route() may answer: the model, and where in the chain it is found. *)
Decisions(v) ==
    UNION {{[at |-> n, model |-> m] : m \in Picks(Chain[v][n], CountAt(v, n)) \ {Nobody}} :
           n \in {k \in DOMAIN Chain[v] : \A i \in 1..(k - 1) : Misses(v, i)}}

Route(v) == \E d \in Decisions(v) : Visit(v, d.at, d.model)

(* RoutingError chain_exhausted: the client gets a 502. *)
Exhausted(v) == Decisions(v) = {} /\ Visit(v, Len(Chain[v]), Nobody)

(* The process starts again. *)
Restart == /\ entries' = [m \in Models |-> FromRow(m)]
           /\ streak' = [m \in Models |-> RowStreak(m)]
           /\ heard' = [m \in Models |-> RowLatencies(m)]
           /\ counter' = [v \in VirtualModels |-> 0]
           /\ rotation' = [v \in VirtualModels |-> [among |-> <<>>, turns |-> NoTurns]]

Next == \/ \E v \in VirtualModels : Route(v) \/ Exhausted(v)
        \/ \E m \in Fed : (Outcome(m) \/ Administer(m)) /\ UNCHANGED routerVars
        \/ Restart

Spec == Init /\ [][Next]_vars

-----------------------------------------------------------------------------
(* However the candidates change and whichever chains run through it, a    *)
(* round robin serves the candidates it has in turn: no two of them are    *)
(* ever more than one turn apart while they stay the same.                 *)
RoundRobinIsFair ==
    \A v \in VirtualModels :
        \A a, b \in Range(rotation[v].among) :
            rotation[v].turns[a] <= rotation[v].turns[b] + 1

(* No request is sent to a model known to be down, at whatever depth of    *)
(* the chain it is found (design.md, property 5); and a virtual model with *)
(* a routable member is passed over in two cases only: the very first turn *)
(* of a round robin in this process, and the lowest latency while no       *)
(* latency was reported of any routable member.                            *)
RoutingIsExplained ==
    \A v \in VirtualModels :
        /\ \A d \in Decisions(v) :
              entries[d.model] # Absent => entries[d.model].status # "unavailable"
        /\ \A i \in DOMAIN Chain[v] :
              LET w == Chain[v][i]
              IN  Misses(v, i) /\ Candidates(w) # <<>> =>
                    \/ Catalog[w].strategy = "RoundRobin" /\ counter[w] = 0
                    \/ /\ Catalog[w].strategy = "LowestLatency"
                       /\ \A m \in Range(Candidates(w)) : heard[m] = {}

(* strategies.ts:46-50: a chosen candidate that is unavailable gives way   *)
(* to the next member, and the fallback chain advances only when the       *)
(* entire primary virtual model is exhausted.                              *)
PrimaryServesIfItCan ==
    \A v \in VirtualModels : Candidates(v) # <<>> =>
        Decisions(v) # {} /\ \A d \in Decisions(v) : d.at = 1
=============================================================================
