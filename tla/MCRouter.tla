------------------------------- MODULE MCRouter -------------------------------
(* A small instance of Router for TLC: a round robin that is also its own  *)
(* last resort, a lowest latency and a weighted draw with a member without *)
(* weight, over a model that starts up, one that starts down and one that  *)
(* the cache does not hold.                                                *)
EXTENDS Router, TLC

CONSTANTS a, b, d

MCRow(status, failures) ==
    [Fresh EXCEPT !.status = status, !.consecutiveFailures = failures]

MCRows == a :> MCRow("available", 0) @@ b :> MCRow("unavailable", 1) @@ d :> Disabled

MCLatencies == a :> {1, 6} @@ b :> {4} @@ d :> {}

MCMember(m, w) == [model |-> m, weight |-> w, enabled |-> TRUE]

MCCatalog ==
    [rr |-> [strategy |-> "RoundRobin",
             members |-> <<MCMember(a, 1), MCMember(b, 1), MCMember(d, 1)>>,
             fallbackChain |-> <<"gone", "ll", "rr">>],
     ll |-> [strategy |-> "LowestLatency",
             members |-> <<MCMember(a, 1), MCMember(b, 1)>>,
             fallbackChain |-> <<"wr">>],
     wr |-> [strategy |-> "WeightedRandom",
             members |-> <<MCMember(a, 0), MCMember(b, 2)>>,
             fallbackChain |-> <<"fo">>],
     fo |-> [strategy |-> "Failover",
             members |-> <<[MCMember(a, 1) EXCEPT !.enabled = FALSE], MCMember(b, 1)>>,
             fallbackChain |-> <<>>]]

MCNames == {"rr", "ll", "wr", "fo"}
=============================================================================
