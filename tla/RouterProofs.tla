---------------------------- MODULE RouterProofs ----------------------------
(***************************************************************************)
(* What TLAPS proves of Router and of Availability, for every catalog,     *)
(* every set of models and every bound.                                    *)
(***************************************************************************)
EXTENDS Router, ArrayProofs, FiniteSetTheorems

(* An entry e agrees with the outcomes in a row and the latencies that were *)
(* reported of m; a model the cache does not hold has none of either.      *)
Reported(m, e, run, told) ==
    /\ e \in Entry \cup {Absent}
    /\ run \in Int
    /\ told \in SUBSET Nat
    /\ e = Absent => run = 0 /\ told = {}
    /\ e # Absent =>
          /\ run = e.consecutiveSuccesses - e.consecutiveFailures
          /\ e.consecutiveSuccesses = 0 \/ e.consecutiveFailures = 0
          /\ e.status # "unavailable" => \/ -run < FailureThreshold
                                         \/ Rows[m] # Disabled /\ run = RowStreak(m)
          /\ (e.latencyMsP50 = NoLatency) = (told = {})
          /\ told # {} => /\ \E l \in told : l <= e.latencyMsP50
                          /\ \E l \in told : e.latencyMsP50 <= l

(* The step from e to f, after which the streak is run, is a move that was *)
(* earned.                                                                 *)
Earned(m, e, f, run) ==
    e # Absent /\ f # Absent /\ f # FromRow(m) =>
        /\ f.status = "unavailable" /\ e.status # f.status => -run >= FailureThreshold
        /\ e.status = "unavailable" /\ e.status # f.status => f.status = "available" /\ run >= 2

(* The entry after a success, as recordSuccess leaves it. *)
Succeeded(e, p50) ==
    Promoted([e EXCEPT !.consecutiveSuccesses = @ + 1,
                       !.consecutiveFailures = 0, !.latencyMsP50 = p50])

ReportsInv == /\ AvailabilityTypeOK
              /\ \A m \in Models : Reported(m, entries[m], streak[m], heard[m])

-----------------------------------------------------------------------------
LEMMA FreshReported == ASSUME NEW m \in Models PROVE Fresh \in Entry /\ Reported(m, Fresh, 0, {})
<1>1. Fresh \in Entry /\ Fresh # Absent
  BY AvailabilityConfig DEF Fresh, Entry, Status
<1> QED
  BY <1>1, AvailabilityConfig DEF Reported, Fresh

LEMMA RowReported ==
    ASSUME NEW m \in Models
    PROVE  Reported(m, FromRow(m), RowStreak(m), RowLatencies(m))
<1>1. CASE Rows[m] = Disabled
  BY <1>1 DEF Reported, FromRow, RowStreak, RowLatencies
<1>2. CASE Rows[m] # Disabled
  <2>1. PICK e \in Entry : e = Rows[m]
    BY <1>2, AvailabilityConfig
  <2>2. /\ e.consecutiveFailures \in Nat /\ e.consecutiveSuccesses \in Nat
        /\ e.latencyMsP50 \in Nat \cup {NoLatency}
        /\ e.consecutiveFailures = 0 \/ e.consecutiveSuccesses = 0
        /\ e # Absent
    BY <1>2, <2>1, AvailabilityConfig DEF Entry
  <2>3. /\ FromRow(m) = e
        /\ RowStreak(m) = e.consecutiveSuccesses - e.consecutiveFailures
        /\ RowLatencies(m) = IF e.latencyMsP50 = NoLatency THEN {} ELSE {e.latencyMsP50}
    BY <1>2, <2>1 DEF FromRow, RowStreak, RowLatencies
  <2>4. RowLatencies(m) \in SUBSET Nat /\ RowStreak(m) \in Int
    BY <2>2, <2>3
  <2>5. (e.latencyMsP50 = NoLatency) = (RowLatencies(m) = {})
    BY <2>2, <2>3
  <2>6. RowLatencies(m) # {} => /\ \E l \in RowLatencies(m) : l <= e.latencyMsP50
                                /\ \E l \in RowLatencies(m) : e.latencyMsP50 <= l
    BY <2>2, <2>3
  <2> QED
    BY <1>2, <2>2, <2>3, <2>4, <2>5, <2>6 DEF Reported
<1> QED
  BY <1>1, <1>2

LEMMA EnsuredReported ==
    ASSUME ReportsInv, NEW m \in Models
    PROVE  Ensured(m) \in Entry /\ Reported(m, Ensured(m), streak[m], heard[m])
<1>1. CASE Known(m)
  BY <1>1 DEF ReportsInv, Reported, Ensured, Known
<1>2. CASE ~Known(m)
  <2>1. streak[m] = 0 /\ heard[m] = {} /\ Ensured(m) = Fresh
    BY <1>2 DEF ReportsInv, Reported, Ensured, Known
  <2> QED
    BY <2>1, FreshReported
<1> QED
  BY <1>1, <1>2

(* The blend lies between what it blends. *)
LEMMA BlendBetween ==
    ASSUME NEW p50 \in Nat, NEW latency \in Nat, NEW q \in Blend(p50, latency)
    PROVE  /\ q \in Nat
           /\ p50 <= q \/ latency <= q
           /\ q <= p50 \/ q <= latency
<1>1. PICK t \in Nat : t = 7 * p50 + 3 * latency
  OBVIOUS
<1>2. \/ q = t \div 10 /\ t % 10 = 5
      \/ q = t \div 10 + 1 /\ t % 10 = 5
      \/ q = (t + 5) \div 10 /\ t % 10 # 5
  BY <1>1 DEF Blend
<1> QED
  BY <1>1, <1>2

(* A success counts for one more, and its latency is blended in. *)
LEMMA SuccessReported ==
    ASSUME NEW m \in Models, NEW e \in Entry, NEW run, NEW told, Reported(m, e, run, told),
           NEW latency \in Nat \cup {NoLatency}, NEW p50 \in NewP50s(e, latency),
           NEW f, f = Succeeded(e, p50),
           NEW run2, run2 = IF run > 0 THEN run + 1 ELSE 1
    PROVE  /\ f \in Entry
           /\ Reported(m, f, run2, told \cup ({latency} \ {NoLatency}))
           /\ Earned(m, e, f, run2)
<1> DEFINE told2 == told \cup ({latency} \ {NoLatency})
<1>0. e # Absent /\ NoLatency \notin Nat /\ FailureThreshold \in Nat \ {0} /\ Absent \notin Entry
  BY AvailabilityConfig
<1>1. /\ e.status \in Status /\ e.consecutiveSuccesses \in Nat /\ e.consecutiveFailures \in Nat
      /\ e.recentSuccessRate \in 0..10 /\ e.latencyMsP50 \in Nat \cup {NoLatency}
  BY DEF Entry
<1>2. /\ run = e.consecutiveSuccesses - e.consecutiveFailures /\ run \in Int
      /\ e.consecutiveSuccesses = 0 \/ e.consecutiveFailures = 0
      /\ told \in SUBSET Nat
      /\ (e.latencyMsP50 = NoLatency) = (told = {})
      /\ told # {} => /\ \E l \in told : l <= e.latencyMsP50
                      /\ \E l \in told : e.latencyMsP50 <= l
  BY <1>0 DEF Reported
<1>3. PICK g : g = [e EXCEPT !.consecutiveSuccesses = @ + 1,
                             !.consecutiveFailures = 0, !.latencyMsP50 = p50]
  OBVIOUS
<1>4. /\ p50 \in Nat \cup {NoLatency}
      /\ told2 \in SUBSET Nat
      /\ (p50 = NoLatency) = (told2 = {})
      /\ told2 # {} => /\ \E l \in told2 : l <= p50
                       /\ \E l \in told2 : p50 <= l
  <2>1. CASE latency = NoLatency
    BY <1>0, <1>1, <1>2, <2>1 DEF NewP50s
  <2>2. CASE latency \in Nat /\ e.latencyMsP50 = NoLatency
    BY <1>0, <1>1, <1>2, <2>2 DEF NewP50s
  <2>3. CASE latency \in Nat /\ e.latencyMsP50 # NoLatency
    <3>1. p50 \in Blend(e.latencyMsP50, latency) /\ e.latencyMsP50 \in Nat
      BY <1>0, <1>1, <2>3 DEF NewP50s
    <3>2. PICK old \in Nat : old = e.latencyMsP50
      BY <3>1
    <3>3. p50 \in Nat /\ (old <= p50 \/ latency <= p50) /\ (p50 <= old \/ p50 <= latency)
      BY <2>3, <3>1, <3>2, BlendBetween
    <3>4. PICK low \in told, high \in told : low <= old /\ old <= high
      BY <1>0, <1>2, <3>2
    <3>5. told2 = told \cup {latency} /\ low \in Nat /\ high \in Nat
      BY <1>0, <1>2, <2>3
    <3>6. low <= p50 \/ latency <= p50
      BY <2>3, <3>3, <3>4, <3>5
    <3>7. p50 <= high \/ p50 <= latency
      BY <2>3, <3>3, <3>4, <3>5
    <3> QED
      BY <1>0, <1>2, <2>3, <3>3, <3>4, <3>5, <3>6, <3>7
  <2> QED
    BY <2>1, <2>2, <2>3
<1>5. /\ g \in Entry /\ g.status = e.status
      /\ g.consecutiveSuccesses = e.consecutiveSuccesses + 1 /\ g.consecutiveFailures = 0
      /\ g.latencyMsP50 = p50
  <2>1. g.status = e.status /\ g.latencyMsP50 = p50 /\ g.consecutiveFailures = 0
    BY <1>3, Z3 DEF Entry
  <2>2. g.consecutiveSuccesses = e.consecutiveSuccesses + 1
    BY <1>3, Z3 DEF Entry
  <2>3. PICK n \in Nat, k \in Nat : n = e.consecutiveSuccesses + 1 /\ k = 0
    BY <1>1
  <2>4. g = [e EXCEPT !.consecutiveSuccesses = n, !.consecutiveFailures = k,
                      !.latencyMsP50 = p50]
    BY <1>3, <2>3
  <2>5. g \in Entry
    BY <1>4, <2>4 DEF Entry
  <2> QED
    BY <2>1, <2>2, <2>5
<1>6. /\ f \in Entry
      /\ f.consecutiveSuccesses = e.consecutiveSuccesses + 1 /\ f.consecutiveFailures = 0
      /\ f.latencyMsP50 = p50
      /\ f.status # e.status =>
            f.status = "available" /\ (e.status = "unavailable" => f.consecutiveSuccesses >= 2)
  <2>1. f = Promoted(g)
    BY <1>3 DEF Succeeded
  <2> QED
    BY <1>5, <2>1 DEF Promoted, Entry, Status
<1>7. run2 = f.consecutiveSuccesses - f.consecutiveFailures /\ run2 \in Nat
  BY <1>1, <1>2, <1>6
<1>8. Reported(m, f, run2, told2)
  <2> HIDE DEF told2
  <2>1. -run2 < FailureThreshold
    BY <1>0, <1>7
  <2> QED
    BY <1>0, <1>4, <1>6, <1>7, <2>1 DEF Reported
<1>9. Earned(m, e, f, run2)
  BY <1>1, <1>6, <1>7 DEF Earned, Status
<1> QED
  BY <1>6, <1>8, <1>9

(* A failure takes a model down once it is the FailureThreshold-th in a row. *)
LEMMA FailureReported ==
    ASSUME NEW m \in Models, NEW e \in Entry, NEW run, NEW told, Reported(m, e, run, told),
           NEW f, f = Demoted([e EXCEPT !.consecutiveFailures = @ + 1,
                                        !.consecutiveSuccesses = 0]),
           NEW run2, run2 = IF run < 0 THEN run - 1 ELSE -1
    PROVE  f \in Entry /\ Reported(m, f, run2, told) /\ Earned(m, e, f, run2)
<1>0. e # Absent /\ FailureThreshold \in Nat \ {0} /\ Absent \notin Entry
  BY AvailabilityConfig
<1>1. /\ e.status \in Status /\ e.consecutiveSuccesses \in Nat /\ e.consecutiveFailures \in Nat
      /\ e.recentSuccessRate \in 0..10 /\ e.latencyMsP50 \in Nat \cup {NoLatency}
  BY DEF Entry
<1>2. /\ run = e.consecutiveSuccesses - e.consecutiveFailures /\ run \in Int
      /\ e.consecutiveSuccesses = 0 \/ e.consecutiveFailures = 0
      /\ told \in SUBSET Nat
      /\ (e.latencyMsP50 = NoLatency) = (told = {})
      /\ told # {} => /\ \E l \in told : l <= e.latencyMsP50
                      /\ \E l \in told : e.latencyMsP50 <= l
  BY <1>0 DEF Reported
<1>3. PICK g : g = [e EXCEPT !.consecutiveFailures = @ + 1, !.consecutiveSuccesses = 0]
  OBVIOUS
<1>5. /\ g \in Entry /\ g.status = e.status
      /\ g.consecutiveFailures = e.consecutiveFailures + 1 /\ g.consecutiveSuccesses = 0
      /\ g.latencyMsP50 = e.latencyMsP50
  <2>1. g.status = e.status /\ g.latencyMsP50 = e.latencyMsP50 /\ g.consecutiveSuccesses = 0
    BY <1>3, Z3 DEF Entry
  <2>2. g.consecutiveFailures = e.consecutiveFailures + 1
    BY <1>3, Z3 DEF Entry
  <2>3. PICK n \in Nat, k \in Nat : n = e.consecutiveFailures + 1 /\ k = 0
    BY <1>1
  <2>4. g = [e EXCEPT !.consecutiveFailures = n, !.consecutiveSuccesses = k]
    BY <1>3, <2>3
  <2>5. g \in Entry
    BY <2>4 DEF Entry
  <2> QED
    BY <2>1, <2>2, <2>5
<1>6. /\ f \in Entry
      /\ f.consecutiveFailures = e.consecutiveFailures + 1 /\ f.consecutiveSuccesses = 0
      /\ f.latencyMsP50 = e.latencyMsP50
      /\ f.status # "unavailable" => f.consecutiveFailures < FailureThreshold
      /\ f.status # e.status => \/ f.status = "degraded" /\ e.status = "available"
                                \/ f.consecutiveFailures >= FailureThreshold
      /\ e.status = "unavailable" => f.status = "unavailable"
  <2>1. f = Demoted(g)
    BY <1>3
  <2> QED
    BY <1>0, <1>5, <2>1 DEF Demoted, Entry, Status
<1>7. run2 = f.consecutiveSuccesses - f.consecutiveFailures /\ run2 \in Int
  BY <1>1, <1>2, <1>6
<1> QED
  BY <1>0, <1>1, <1>2, <1>6, <1>7 DEF Reported, Earned, Status

(* A success rate moves a model between available and degraded only. *)
LEMMA RateReported ==
    ASSUME NEW m \in Models, NEW e \in Entry, NEW run, NEW told, Reported(m, e, run, told),
           NEW rate \in Rates, NEW f, f = Rated(e, rate)
    PROVE  f \in Entry /\ Reported(m, f, run, told) /\ Earned(m, e, f, run)
<1>0. e # Absent /\ Absent \notin Entry /\ rate \in 0..10
  BY AvailabilityConfig
<1>1. /\ e.status \in Status /\ e.consecutiveSuccesses \in Nat /\ e.consecutiveFailures \in Nat
      /\ e.latencyMsP50 \in Nat \cup {NoLatency}
  BY DEF Entry
<1>2. PICK g : g = [e EXCEPT !.recentSuccessRate = rate]
  OBVIOUS
<1>3. /\ g \in Entry /\ g.status = e.status
      /\ g.consecutiveSuccesses = e.consecutiveSuccesses
      /\ g.consecutiveFailures = e.consecutiveFailures /\ g.latencyMsP50 = e.latencyMsP50
  BY <1>0, <1>2 DEF Entry
<1>4. /\ f \in Entry
      /\ f.consecutiveSuccesses = e.consecutiveSuccesses
      /\ f.consecutiveFailures = e.consecutiveFailures /\ f.latencyMsP50 = e.latencyMsP50
      /\ e.status = "unavailable" <=> f.status = "unavailable"
  <2>1. CASE g.status = "available" /\ rate < 8
    BY <1>2, <1>3, <2>1 DEF Rated, Entry, Status
  <2>2. CASE g.status = "degraded" /\ rate >= 8
    BY <1>2, <1>3, <2>2 DEF Rated, Entry, Status
  <2>3. CASE ~ (g.status = "available" /\ rate < 8) /\ ~ (g.status = "degraded" /\ rate >= 8)
    BY <1>2, <1>3, <2>3 DEF Rated
  <2> QED
    BY <2>1, <2>2, <2>3
<1> QED
  BY <1>0, <1>1, <1>4 DEF Reported, Earned

-----------------------------------------------------------------------------
(* A step that makes m's entry e says of m what was reported. *)
LEMMA BecomesKeeps ==
    ASSUME ReportsInv, NEW m \in Models, NEW e, NEW run, NEW told,
           Reported(m, e, run, told), Becomes(m, e, run, told)
    PROVE  /\ ReportsInv'
           /\ entries'[m] = e /\ streak'[m] = run
           /\ \A k \in Models \ {m} : entries'[k] = entries[k]
<1>1. e \in Entry \cup {Absent} /\ run \in Int /\ told \in SUBSET Nat
  BY DEF Reported
<1>2. /\ entries' = [entries EXCEPT ![m] = e]
      /\ streak' = [streak EXCEPT ![m] = run]
      /\ heard' = [heard EXCEPT ![m] = told]
  BY DEF Becomes
<1>3. AvailabilityTypeOK'
  BY <1>1, <1>2 DEF ReportsInv, AvailabilityTypeOK
<1>4. (entries')[m] = e /\ (streak')[m] = run /\ (heard')[m] = told
  BY <1>2 DEF ReportsInv, AvailabilityTypeOK
<1>5. \A k \in Models \ {m} :
         (entries')[k] = entries[k] /\ (streak')[k] = streak[k] /\ (heard')[k] = heard[k]
  BY <1>2 DEF ReportsInv, AvailabilityTypeOK
<1>6. ASSUME NEW k \in Models PROVE Reported(k, (entries')[k], (streak')[k], (heard')[k])
  <2>1. CASE k = m
    BY <1>4, <2>1, Zenon
  <2>2. CASE k # m
    BY <1>5, <2>2, Zenon DEF ReportsInv
  <2> QED
    BY <2>1, <2>2
<1> QED
  BY <1>3, <1>4, <1>5, <1>6 DEF ReportsInv

(* What the cache is told by a handler or by the admin API. *)
LEMMA FedKeeps ==
    ASSUME ReportsInv, NEW m \in Models, Outcome(m) \/ Administer(m)
    PROVE  /\ ReportsInv'
           /\ \A k \in Models : Earned(k, entries[k], (entries')[k], (streak')[k])
<1> DEFINE Good == /\ ReportsInv'
                   /\ \A k \in Models : Earned(k, entries[k], (entries')[k], (streak')[k])
<1>0. /\ Ensured(m) \in Entry /\ Reported(m, Ensured(m), streak[m], heard[m])
      /\ Known(m) => Ensured(m) = entries[m]
  BY EnsuredReported DEF Ensured
<1>1. ASSUME NEW e, NEW run, NEW told, Reported(m, e, run, told), Becomes(m, e, run, told),
             Known(m) => Earned(m, entries[m], e, run)
      PROVE  Good
  <2>1. /\ ReportsInv' /\ (entries')[m] = e /\ (streak')[m] = run
        /\ \A k \in Models \ {m} : (entries')[k] = entries[k]
    BY <1>1, BecomesKeeps
  <2>2. \A k \in Models \ {m} : Earned(k, entries[k], (entries')[k], (streak')[k])
    BY <2>1 DEF Earned
  <2>3. Earned(m, entries[m], (entries')[m], (streak')[m])
    BY <1>1, <2>1 DEF Earned, Known
  <2> QED
    BY <2>1, <2>2, <2>3
<1> HIDE DEF Good
<1>2. ASSUME NEW latency \in Latencies[m] \cup {NoLatency}, RecordSuccess(m, latency) PROVE Good
  <2>1. latency \in Nat \cup {NoLatency}
    BY AvailabilityConfig
  <2>2. PICK p50 \in NewP50s(Ensured(m), latency) :
           Becomes(m, Promoted([Ensured(m) EXCEPT !.consecutiveSuccesses = @ + 1,
                                                  !.consecutiveFailures = 0,
                                                  !.latencyMsP50 = p50]),
                   IF streak[m] > 0 THEN streak[m] + 1 ELSE 1,
                   heard[m] \cup ({latency} \ {NoLatency}))
    BY <1>2, Zenon DEF RecordSuccess
  <2>3. PICK f : f = Promoted([Ensured(m) EXCEPT !.consecutiveSuccesses = @ + 1,
                                                 !.consecutiveFailures = 0,
                                                 !.latencyMsP50 = p50])
    OBVIOUS
  <2>4. PICK run : run = IF streak[m] > 0 THEN streak[m] + 1 ELSE 1
    OBVIOUS
  <2>5. PICK told : told = heard[m] \cup ({latency} \ {NoLatency})
    OBVIOUS
  <2>6. Becomes(m, f, run, told)
    BY <2>2, <2>3, <2>4, <2>5, Zenon
  <2>7. Reported(m, f, run, told) /\ Earned(m, Ensured(m), f, run)
    <3>1. PICK e, old, before : /\ e = Ensured(m) /\ e \in Entry
                                /\ old = streak[m] /\ before = heard[m]
      BY <1>0
    <3>2. e \in Entry
      BY <3>1
    <3>3. Reported(m, e, old, before) /\ p50 \in NewP50s(e, latency)
      BY <1>0, <3>1, Zenon
    <3>4. f = Succeeded(e, p50)
      BY <2>3, <3>1, Zenon DEF Succeeded
    <3>5. run = IF old > 0 THEN old + 1 ELSE 1
      BY <2>4, <3>1, Zenon
    <3>6. Reported(m, f, run, before \cup ({latency} \ {NoLatency})) /\ Earned(m, e, f, run)
      BY <2>1, <3>3, <3>4, <3>5, <3>2, SuccessReported
    <3> QED
      BY <2>5, <3>1, <3>6, Zenon
  <2> QED
    BY <1>0, <1>1, <2>6, <2>7
<1>3. ASSUME RecordFailure(m) PROVE Good
  <2>1. PICK f : f = Demoted([Ensured(m) EXCEPT !.consecutiveFailures = @ + 1,
                                                !.consecutiveSuccesses = 0])
    OBVIOUS
  <2>2. PICK run : run = IF streak[m] < 0 THEN streak[m] - 1 ELSE -1
    OBVIOUS
  <2>3. Becomes(m, f, run, heard[m])
    BY <1>3, <2>1, <2>2, Zenon DEF RecordFailure
  <2>4. Reported(m, f, run, heard[m]) /\ Earned(m, Ensured(m), f, run)
    <3>1. PICK e, old, before : /\ e = Ensured(m) /\ e \in Entry
                                /\ old = streak[m] /\ before = heard[m]
      BY <1>0
    <3>2. e \in Entry
      BY <3>1
    <3>3. Reported(m, e, old, before)
      BY <1>0, <3>1, Zenon
    <3>4. f = Demoted([e EXCEPT !.consecutiveFailures = @ + 1, !.consecutiveSuccesses = 0])
      BY <2>1, <3>1, Zenon
    <3>5. run = IF old < 0 THEN old - 1 ELSE -1
      BY <2>2, <3>1, Zenon
    <3>6. Reported(m, f, run, before) /\ Earned(m, e, f, run)
      BY <3>3, <3>4, <3>5, <3>2, FailureReported
    <3> QED
      BY <3>1, <3>6, Zenon
  <2> QED
    BY <1>0, <1>1, <2>3, <2>4
<1>4. ASSUME NEW rate \in Rates, UpdateSuccessRate(m, rate) PROVE Good
  <2>1. PICK f : f = Rated(Ensured(m), rate)
    OBVIOUS
  <2>2. Becomes(m, f, streak[m], heard[m])
    BY <1>4, <2>1 DEF UpdateSuccessRate
  <2>3. Reported(m, f, streak[m], heard[m]) /\ Earned(m, Ensured(m), f, streak[m])
    BY <1>0, <2>1, RateReported
  <2> QED
    BY <1>0, <1>1, <2>2, <2>3
<1>5. ASSUME Add(m) PROVE Good
  <2>1. PICK none, e : none = 0 /\ e = Fresh
    OBVIOUS
  <2>2. Becomes(m, e, none, {}) /\ ~Known(m)
    BY <1>5, <2>1, Zenon DEF Add
  <2>3. Reported(m, e, none, {})
    BY <2>1, FreshReported
  <2> QED
    BY <1>1, <2>2, <2>3
<1>6. ASSUME Forget(m) PROVE Good
  <2>1. PICK none, e : none = 0 /\ e = Absent
    OBVIOUS
  <2>2. Becomes(m, e, none, {})
    BY <1>6, <2>1, Zenon DEF Forget
  <2>3. Reported(m, e, none, {})
    BY <2>1 DEF Reported
  <2>4. Earned(m, entries[m], e, none)
    BY <2>1 DEF Earned
  <2> QED
    BY <1>1, <2>2, <2>3, <2>4
<1>7. ASSUME Reload(m) PROVE Good
  <2>1. Becomes(m, FromRow(m), RowStreak(m), RowLatencies(m))
    BY <1>7 DEF Reload
  <2>2. Earned(m, entries[m], FromRow(m), RowStreak(m))
    BY DEF Earned
  <2> QED
    BY <1>1, <2>1, <2>2, RowReported
<1>8. Good
  BY <1>2, <1>3, <1>4, <1>5, <1>6, <1>7 DEF Outcome, Administer
<1> QED
  BY <1>8 DEF Good

-----------------------------------------------------------------------------
LEMMA FinitePlaces ==
    ASSUME NEW b \in Nat, NEW J \in SUBSET (1..b)
    PROVE  IsFiniteSet(J) /\ Cardinality(J) \in Nat
<1>1. PICK one \in Int : one = 1
  OBVIOUS
<1>2. IsFiniteSet(one..b)
  BY FS_Interval
<1>3. IsFiniteSet(J)
  BY <1>1, <1>2, FS_Subset
<1> QED
  BY <1>3, FS_CardinalityType

(* What a filter keeps of an array without repetition has none, and fits.  *)
LEMMA KeptDiffer ==
    ASSUME NEW S, NEW s \in Seq(S), NEW P \in SUBSET DOMAIN s,
           \A i, j \in DOMAIN s : s[i] = s[j] => i = j
    PROVE  /\ Kept(s, P) \in Seq(S)
           /\ \A i, j \in DOMAIN Kept(s, P) : Kept(s, P)[i] = Kept(s, P)[j] => i = j
           /\ \A i \in DOMAIN Kept(s, P) : \E k \in P : Kept(s, P)[i] = s[k]
<1>1. PICK q \in Seq(S) : q = Kept(s, P) /\ FromPlaces(q, s, P)
  BY KeptIs
<1>2. PICK f \in [DOMAIN q -> P] : /\ \A i, j \in DOMAIN q : f[i] = f[j] => i = j
                                   /\ \A i \in DOMAIN q : q[i] = s[f[i]]
  BY <1>1 DEF FromPlaces
<1>3. \A i, j \in DOMAIN q : q[i] = q[j] => i = j
  <2> SUFFICES ASSUME NEW i \in DOMAIN q, NEW j \in DOMAIN q, q[i] = q[j] PROVE i = j
    OBVIOUS
  <2>1. f[i] \in DOMAIN s /\ f[j] \in DOMAIN s /\ s[f[i]] = s[f[j]]
    BY <1>2
  <2> QED
    BY <1>2, <2>1
<1>4. \A i \in DOMAIN q : \E k \in P : q[i] = s[k]
  BY <1>2
<1> QED
  BY <1>1, <1>3, <1>4

LEMMA MembersAre ==
    ASSUME NEW v \in VirtualModels
    PROVE  /\ Members[v] \in Seq(Models)
           /\ \A i, j \in DOMAIN Members[v] : Members[v][i] = Members[v][j] => i = j
<1>1. PICK rows \in Seq(Member) :
         /\ rows = Catalog[v].members
         /\ \A i, j \in DOMAIN rows : rows[i].model = rows[j].model => i = j
  BY CatalogConfig
<1>2. PICK enabled \in SUBSET DOMAIN rows : enabled = {i \in DOMAIN rows : rows[i].enabled}
  OBVIOUS
<1>3. PICK q \in Seq(Member) : q = Kept(rows, enabled) /\ FromPlaces(q, rows, enabled)
  BY KeptIs
<1>4. Members[v] = [i \in DOMAIN q |-> q[i].model]
  BY <1>1, <1>2, <1>3 DEF Members, Filter, Mapped
<1>5. PICK f \in [DOMAIN q -> enabled] : /\ \A i, j \in DOMAIN q : f[i] = f[j] => i = j
                                         /\ \A i \in DOMAIN q : q[i] = rows[f[i]]
  BY <1>3 DEF FromPlaces
<1>6. \A i \in DOMAIN q : q[i].model \in Models
  <2> SUFFICES ASSUME NEW i \in DOMAIN q PROVE q[i].model \in Models
    OBVIOUS
  <2>1. q[i] \in Member
    BY <1>3
  <2> QED
    BY <2>1 DEF Member
<1>7. \A i, j \in DOMAIN q : q[i].model = q[j].model => i = j
  <2> SUFFICES ASSUME NEW i \in DOMAIN q, NEW j \in DOMAIN q, q[i].model = q[j].model
               PROVE  i = j
    OBVIOUS
  <2>1. f[i] \in DOMAIN rows /\ f[j] \in DOMAIN rows /\ rows[f[i]].model = rows[f[j]].model
    BY <1>5
  <2> QED
    BY <1>1, <1>5, <2>1
<1> QED
  BY <1>3, <1>4, <1>6, <1>7

LEMMA CandidatesAre ==
    ASSUME NEW v \in VirtualModels
    PROVE  /\ Candidates(v) \in Seq(Models)
           /\ \A i, j \in DOMAIN Candidates(v) : Candidates(v)[i] = Candidates(v)[j] => i = j
           /\ \A i \in DOMAIN Candidates(v) : IsRoutable(Candidates(v)[i])
<1>1. PICK ms \in Seq(Models) :
         ms = Members[v] /\ \A i, j \in DOMAIN ms : ms[i] = ms[j] => i = j
  BY MembersAre
<1>2. PICK routable \in SUBSET DOMAIN ms :
         /\ routable = {i \in DOMAIN ms : IsRoutable(ms[i])}
         /\ \A i \in routable : IsRoutable(ms[i])
  <2>1. PICK routable : routable = {i \in DOMAIN ms : IsRoutable(ms[i])}
    OBVIOUS
  <2>2. \A i \in routable : i \in DOMAIN ms /\ IsRoutable(ms[i])
    BY <2>1, Zenon
  <2>3. routable \in SUBSET DOMAIN ms
    BY <2>2
  <2> QED
    BY <2>1, <2>2, <2>3, Zenon
<1>3. Candidates(v) = Kept(ms, routable)
  BY <1>1, <1>2 DEF Candidates, Filter
<1>4. /\ Kept(ms, routable) \in Seq(Models)
      /\ \A i, j \in DOMAIN Kept(ms, routable) :
            Kept(ms, routable)[i] = Kept(ms, routable)[j] => i = j
      /\ \A i \in DOMAIN Kept(ms, routable) : \E k \in routable : Kept(ms, routable)[i] = ms[k]
  BY <1>1, KeptDiffer
<1>5. \A i \in DOMAIN Kept(ms, routable) : IsRoutable(Kept(ms, routable)[i])
  <2> SUFFICES ASSUME NEW i \in DOMAIN Kept(ms, routable)
               PROVE  IsRoutable(Kept(ms, routable)[i])
    OBVIOUS
  <2>1. PICK k \in routable : Kept(ms, routable)[i] = ms[k]
    BY <1>4
  <2> QED
    BY <1>2, <2>1, Zenon
<1> QED
  BY <1>3, <1>4, <1>5

LEMMA ChainIs ==
    ASSUME NEW v \in VirtualModels
    PROVE  Chain[v] \in Seq(VirtualModels) /\ Len(Chain[v]) \in Nat \ {0}
<1>1. PICK names \in Seq(STRING) : names = Catalog[v].fallbackChain
  BY CatalogConfig
<1>2. PICK known \in SUBSET DOMAIN names :
         known = {i \in DOMAIN names : names[i] \in VirtualModels}
  OBVIOUS
<1>3. PICK s \in Seq(STRING) : s = Kept(names, known) /\ FromPlaces(s, names, known)
  BY KeptIs
<1>4. Chain[v] = <<v>> \o s
  BY <1>1, <1>2, <1>3 DEF Chain, Filter
<1>5. \A i \in DOMAIN s : s[i] \in VirtualModels
  BY <1>2, <1>3 DEF FromPlaces
<1>6. s \in Seq(VirtualModels)
  <2>1. DOMAIN s = 1..Len(s) /\ Len(s) \in Nat /\ s = [i \in 1..Len(s) |-> s[i]]
    BY <1>3
  <2>2. \A i \in 1..Len(s) : s[i] \in VirtualModels
    BY <1>5, <2>1
  <2> QED
    BY <2>1, <2>2, SeqDef
<1>7. <<v>> \in Seq(VirtualModels) /\ Len(<<v>>) = 1
  OBVIOUS
<1> QED
  BY <1>4, <1>6, <1>7

-----------------------------------------------------------------------------
(* Remainders, which the provers know only by their defining equation. *)
LEMMA DivMod ==
    ASSUME NEW a \in Int, NEW n \in Nat \ {0}
    PROVE  /\ a \div n \in Int /\ a % n \in 0..(n - 1)
           /\ a = (n * (a \div n)) + (a % n)
OBVIOUS

LEMMA AtLeastOnce == ASSUME NEW n \in Nat \ {0}, NEW k \in Nat \ {0} PROVE n * k >= n
OBVIOUS

LEMMA ModUnique ==
    ASSUME NEW n \in Nat \ {0}, NEW p \in Int, NEW q \in Int,
           NEW r \in 0..(n - 1), NEW s \in 0..(n - 1), n * p + r = n * q + s
    PROVE  r = s
<1>1. n * (p - q) = s - r /\ n * (q - p) = r - s
  OBVIOUS
<1>2. ~ (p - q >= 1)
  <2> SUFFICES ASSUME p - q >= 1 PROVE FALSE
    OBVIOUS
  <2>1. PICK k \in Nat \ {0} : k = p - q
    OBVIOUS
  <2> QED
    BY <1>1, <2>1, AtLeastOnce
<1>3. ~ (q - p >= 1)
  <2> SUFFICES ASSUME q - p >= 1 PROVE FALSE
    OBVIOUS
  <2>1. PICK k \in Nat \ {0} : k = q - p
    OBVIOUS
  <2> QED
    BY <1>1, <2>1, AtLeastOnce
<1>4. p = q
  BY <1>2, <1>3
<1> QED
  BY <1>4

(* The place whose turn it is among n when the counter stands at count. *)
Place(count, n) == ((count - 1) % n) + 1

LEMMA PlaceMoves ==
    ASSUME NEW count \in Nat, NEW n \in Nat \ {0}
    PROVE  /\ Place(count, n) \in 1..n
           /\ Place(count + 1, n) = IF Place(count, n) = n THEN 1 ELSE Place(count, n) + 1
<1>1. PICK q \in Int, r \in 0..(n - 1) :
         q = (count - 1) \div n /\ r = (count - 1) % n /\ count - 1 = n * q + r
  BY DivMod
<1>2. PICK p \in Int, s \in 0..(n - 1) :
         p = count \div n /\ s = count % n /\ count = n * p + s
  BY DivMod
<1>3. PICK t, k : /\ t = IF r + 1 = n THEN 0 ELSE r + 1
                  /\ k = IF r + 1 = n THEN q + 1 ELSE q
  OBVIOUS
<1>4. t \in 0..(n - 1) /\ k \in Int
  BY <1>3
<1>5. n * p + s = n * k + t
  <2>1. CASE r + 1 = n
    BY <1>1, <1>2, <1>3, <2>1
  <2>2. CASE r + 1 # n
    BY <1>1, <1>2, <1>3, <2>2
  <2> QED
    BY <2>1, <2>2
<1>6. s = t
  BY <1>5, <1>4, ModUnique
<1>7. Place(count, n) = r + 1
  BY <1>1 DEF Place
<1>8. Place(count + 1, n) = s + 1
  BY <1>2 DEF Place
<1> QED
  BY <1>3, <1>6, <1>7, <1>8

(* From the place whose turn it is round to the one served last the turns  *)
(* never decrease, and no two places are more than one turn apart.         *)
Even(cs, turns, next) ==
    \A i, j \in DOMAIN cs :
        /\ turns[cs[i]] <= turns[cs[j]] + 1
        /\ (i <= j /\ (j < next \/ next <= i)) \/ (next <= i /\ j < next)
              => turns[cs[i]] <= turns[cs[j]]

LEMMA NoTurnsEven ==
    ASSUME NEW cs \in Seq(Models), NEW next
    PROVE  NoTurns \in [Models -> Nat] /\ Even(cs, NoTurns, next)
<1>1. \A i \in DOMAIN cs : NoTurns[cs[i]] = 0
  BY DEF NoTurns
<1> QED
  BY <1>1 DEF Even, NoTurns

LEMMA TurnKeepsEven ==
    ASSUME NEW cs \in Seq(Models), \A i, j \in DOMAIN cs : cs[i] = cs[j] => i = j,
           NEW turns \in [Models -> Nat], NEW p \in DOMAIN cs, Even(cs, turns, p),
           NEW q, q = IF p = Len(cs) THEN 1 ELSE p + 1,
           NEW after, after = [turns EXCEPT ![cs[p]] = @ + 1]
    PROVE  after \in [Models -> Nat] /\ Even(cs, after, q)
<1>1. cs[p] \in Models /\ after \in [Models -> Nat]
  OBVIOUS
<1>2. /\ after[cs[p]] = turns[cs[p]] + 1
      /\ \A i \in DOMAIN cs \ {p} : after[cs[i]] = turns[cs[i]]
  OBVIOUS
<1>3. \A i \in DOMAIN cs : /\ turns[cs[p]] <= turns[cs[i]]
                           /\ turns[cs[i]] <= turns[cs[p]] + 1
                           /\ turns[cs[i]] \in Nat
  <2> SUFFICES ASSUME NEW i \in DOMAIN cs
               PROVE  /\ turns[cs[p]] <= turns[cs[i]]
                      /\ turns[cs[i]] <= turns[cs[p]] + 1
                      /\ turns[cs[i]] \in Nat
    OBVIOUS
  <2>1. (p <= i /\ p <= p) \/ (p <= p /\ i < p)
    OBVIOUS
  <2>2. turns[cs[p]] <= turns[cs[i]]
    BY <2>1 DEF Even
  <2>3. turns[cs[i]] <= turns[cs[p]] + 1
    BY DEF Even
  <2> QED
    BY <2>2, <2>3
<1>4. DOMAIN cs = 1..Len(cs) /\ Len(cs) \in Nat
  OBVIOUS
<1>5. ASSUME NEW i \in DOMAIN cs, NEW j \in DOMAIN cs
      PROVE  after[cs[i]] <= after[cs[j]] + 1
  <2>1. turns[cs[i]] <= turns[cs[j]] + 1 /\ turns[cs[i]] \in Nat /\ turns[cs[j]] \in Nat
    BY <1>3 DEF Even
  <2>2. turns[cs[p]] \in Nat /\ turns[cs[p]] <= turns[cs[j]]
    BY <1>3
  <2>3. CASE i = p
    BY <1>2, <2>1, <2>2, <2>3
  <2>4. CASE i # p
    BY <1>2, <2>1, <2>2, <2>4
  <2> QED
    BY <2>3, <2>4
<1>6. ASSUME NEW i \in DOMAIN cs, NEW j \in DOMAIN cs,
             (i <= j /\ (j < q \/ q <= i)) \/ (q <= i /\ j < q)
      PROVE  after[cs[i]] <= after[cs[j]]
  <2>1. CASE j = p
    BY <1>2, <1>3, <2>1
  <2>2. CASE i = p /\ j # p
    BY <1>4, <1>6, <2>2
  <2>3. CASE i # p /\ j # p
    <3>1. (i <= j /\ (j < p \/ p <= i)) \/ (p <= i /\ j < p)
      BY <1>4, <1>6, <2>3
    <3> QED
      BY <1>2, <2>3, <3>1 DEF Even
  <2> QED
    BY <2>1, <2>2, <2>3
<1> QED
  BY <1>1, <1>5, <1>6 DEF Even

-----------------------------------------------------------------------------
(* The rotation r of a virtual model whose counter stands at count. *)
InTurn(r, count) ==
    /\ \A i, j \in DOMAIN r.among : r.among[i] = r.among[j] => i = j
    /\ count = 0 => r.turns = NoTurns
    /\ r.among # <<>> => Even(r.among, r.turns, Place(count, Len(r.among)))

RoundInv == /\ counter \in [VirtualModels -> Nat]
            /\ rotation \in [VirtualModels -> Rotation]
            /\ \A v \in VirtualModels : InTurn(rotation[v], counter[v])

IInv == ReportsInv /\ RoundInv

LEMMA TurnsOfIs ==
    ASSUME NEW v \in VirtualModels, NEW w \in VirtualModels, NEW n \in 1..Len(Chain[v])
    PROVE  /\ TurnsOf(v, w, n) \in Nat /\ TurnsOf(v, w, n - 1) \in Nat
           /\ TurnsOf(v, w, n) > 0 =>
                 TakesTurn(w) /\ \E i \in 1..n : Chain[v][i] = w
           /\ TurnsOf(v, w, n - 1) > 0 =>
                 TakesTurn(w) /\ \E i \in 1..(n - 1) : Chain[v][i] = w
           /\ TakesTurn(w) /\ Chain[v][n] = w =>
                 TurnsOf(v, w, n) = TurnsOf(v, w, n - 1) + 1
<1> DEFINE now == {i \in 1..n : Chain[v][i] = w}
           before == {i \in 1..(n - 1) : Chain[v][i] = w}
<1>0. n \in Nat \ {0} /\ n - 1 \in Nat
  BY ChainIs
<1>1. IsFiniteSet(now) /\ Cardinality(now) \in Nat
  BY <1>0, FinitePlaces
<1>2. IsFiniteSet(before) /\ Cardinality(before) \in Nat
  BY <1>0, FinitePlaces
<1>3. /\ Cardinality(now) > 0 => \E i \in 1..n : Chain[v][i] = w
      /\ Cardinality(before) > 0 => \E i \in 1..(n - 1) : Chain[v][i] = w
  <2>1. /\ now = {} => Cardinality(now) = 0
        /\ before = {} => Cardinality(before) = 0
    BY FS_EmptySet, Zenon
  <2> QED
    BY <1>1, <1>2, <2>1
<1>4. ASSUME Chain[v][n] = w PROVE Cardinality(now) = Cardinality(before) + 1
  <2>1. now = before \cup {n} /\ n \notin before
    BY <1>0, <1>4
  <2> QED
    BY <1>2, <2>1, FS_AddElement
<1>5. /\ TurnsOf(v, w, n) = IF TakesTurn(w) THEN Cardinality(now) ELSE 0
      /\ TurnsOf(v, w, n - 1) = IF TakesTurn(w) THEN Cardinality(before) ELSE 0
  BY DEF TurnsOf
<1> HIDE DEF now, before
<1>6. CASE TakesTurn(w)
  BY <1>1, <1>2, <1>3, <1>4, <1>5, <1>6
<1>7. CASE ~TakesTurn(w)
  BY <1>5, <1>7
<1> QED
  BY <1>6, <1>7

(* Nobody among the picks of a round robin that has candidates: its first  *)
(* turn, at one of several candidates.                                     *)
LEMMA RoundRobinPicks ==
    ASSUME NEW w \in VirtualModels, NEW count \in Nat, TakesTurn(w), NEW m \in Picks(w, count)
    PROVE  /\ m = Nobody => count = 0
           /\ m # Nobody => m = Candidates(w)[Place(count, Len(Candidates(w)))]
<1>1. Candidates(w) \in Seq(Models) /\ Candidates(w) # <<>>
  BY CandidatesAre DEF TakesTurn
<1>2. PICK cs : cs = Candidates(w)
  OBVIOUS
<1>3. Len(cs) \in Nat \ {0} /\ Place(count, Len(cs)) \in DOMAIN cs
  <2>1. Len(cs) \in Nat \ {0} /\ DOMAIN cs = 1..Len(cs)
    BY <1>1, <1>2
  <2> QED
    BY <2>1, PlaceMoves
<1>4. m = RoundRobin(cs, count)
  BY <1>1, <1>2 DEF Picks, TakesTurn
<1>5. m = IF count = 0 /\ Len(cs) > 1 THEN Nobody ELSE cs[Place(count, Len(cs))]
  BY <1>4 DEF RoundRobin, Place
<1>6. cs[Place(count, Len(cs))] \in Models
  BY <1>1, <1>2, <1>3
<1> QED
  BY <1>2, <1>5, <1>6, CatalogConfig

(* One visit: the turns that were missed on the way are first ones. *)
LEMMA VisitKeeps ==
    ASSUME IInv, NEW v \in VirtualModels, NEW n \in 1..Len(Chain[v]), NEW m,
           \A i \in 1..(n - 1) : Misses(v, i),
           m \in Picks(Chain[v][n], CountAt(v, n)),
           Visit(v, n, m)
    PROVE  RoundInv'
<1>0. n \in Nat \ {0} /\ Chain[v] \in Seq(VirtualModels) /\ Chain[v][n] \in VirtualModels
  BY ChainIs
<1>1. /\ counter \in [VirtualModels -> Nat]
      /\ rotation \in [VirtualModels -> Rotation]
      /\ \A w \in VirtualModels : InTurn(rotation[w], counter[w])
  BY DEF IInv, RoundInv
<1>2. /\ counter' = [w \in VirtualModels |-> counter[w] + TurnsOf(v, w, n)]
      /\ rotation' = [w \in VirtualModels |->
                        IF m # Nobody /\ Chain[v][n] = w /\ TakesTurn(w)
                        THEN Turned(w, m) ELSE rotation[w]]
  BY DEF Visit
<1>3. ASSUME NEW w \in VirtualModels, NEW i \in 1..(n - 1), Chain[v][i] = w, TakesTurn(w)
      PROVE  counter[w] = 0
  <2>1. i \in 1..Len(Chain[v]) /\ counter[w] \in Nat /\ i \in Nat
    BY <1>0, <1>1
  <2>2. TurnsOf(v, w, i - 1) \in Nat
    BY <2>1, TurnsOfIs
  <2>3. CountAt(v, i) = counter[w] + TurnsOf(v, w, i - 1)
    BY <1>3 DEF CountAt
  <2>4. Nobody \in Picks(w, CountAt(v, i))
    BY <1>3 DEF Misses
  <2>5. CountAt(v, i) = 0
    <3>1. PICK count, who : count \in Nat /\ count = CountAt(v, i) /\ who = Nobody
      BY <2>1, <2>2, <2>3
    <3>2. who \in Picks(w, count)
      BY <2>4, <3>1
    <3> QED
      BY <1>3, <3>1, <3>2, RoundRobinPicks
  <2> QED
    BY <2>1, <2>2, <2>3, <2>5
<1>4. ASSUME NEW w \in VirtualModels
      PROVE  /\ (counter')[w] \in Nat /\ (rotation')[w] \in Rotation
             /\ InTurn((rotation')[w], (counter')[w])
  <2>0. /\ TurnsOf(v, w, n) \in Nat /\ TurnsOf(v, w, n - 1) \in Nat
        /\ TurnsOf(v, w, n) > 0 => TakesTurn(w) /\ \E i \in 1..n : Chain[v][i] = w
        /\ TurnsOf(v, w, n - 1) > 0 => TakesTurn(w) /\ \E i \in 1..(n - 1) : Chain[v][i] = w
        /\ TakesTurn(w) /\ Chain[v][n] = w => TurnsOf(v, w, n) = TurnsOf(v, w, n - 1) + 1
    BY TurnsOfIs
  <2>1. /\ (counter')[w] = counter[w] + TurnsOf(v, w, n) /\ counter[w] \in Nat
        /\ rotation[w] \in Rotation /\ InTurn(rotation[w], counter[w])
    BY <1>1, <1>2
  <2>2. TurnsOf(v, w, n - 1) > 0 => counter[w] = 0
    BY <1>3, <2>0
  <2>3. CASE TurnsOf(v, w, n) = 0
    <3>1. (counter')[w] = counter[w]
      BY <2>1, <2>3
    <3>2. ~ (Chain[v][n] = w /\ TakesTurn(w))
      BY <2>0, <2>3
    <3>3. (rotation')[w] = rotation[w]
      BY <1>2, <3>2
    <3> QED
      BY <2>1, <3>1, <3>3, Zenon
  <2>4. CASE TurnsOf(v, w, n) > 0 /\ m # Nobody /\ Chain[v][n] = w
    <3>0. TakesTurn(w)
      BY <2>0, <2>4
    <3>1. PICK cs \in Seq(Models) : /\ cs = Candidates(w) /\ cs # <<>>
                                    /\ \A i, j \in DOMAIN cs : cs[i] = cs[j] => i = j
      BY <3>0, CandidatesAre DEF TakesTurn
    <3>2. PICK count \in Nat : count = CountAt(v, n)
      BY <2>0, <2>1, <2>4 DEF CountAt
    <3>3. (counter')[w] = count + 1 /\ count = counter[w] + TurnsOf(v, w, n - 1)
      <4>1. count = counter[w] + TurnsOf(v, w, n - 1)
        BY <2>4, <3>2 DEF CountAt
      <4>2. TurnsOf(v, w, n) = TurnsOf(v, w, n - 1) + 1
        BY <2>0, <2>4, <3>0
      <4> QED
        BY <2>0, <2>1, <4>1, <4>2
    <3>4. PICK p : p = Place(count, Len(cs))
      OBVIOUS
    <3>5. Len(cs) \in Nat \ {0} /\ DOMAIN cs = 1..Len(cs)
      BY <3>1
    <3>6. p \in DOMAIN cs /\ Place(count + 1, Len(cs)) = IF p = Len(cs) THEN 1 ELSE p + 1
      BY <3>4, <3>5, PlaceMoves
    <3>7. m = cs[p]
      BY <2>4, <3>0, <3>1, <3>2, <3>4, RoundRobinPicks
    <3>8. PICK old : old = IF rotation[w].among = cs THEN rotation[w].turns ELSE NoTurns
      OBVIOUS
    <3>9. old \in [Models -> Nat] /\ Even(cs, old, p)
      <4>1. CASE old = NoTurns
        BY <4>1, NoTurnsEven
      <4>2. CASE old # NoTurns
        <5>1. rotation[w].among = cs /\ old = rotation[w].turns
          BY <3>8, <4>2
        <5>2. counter[w] # 0
          BY <2>1, <4>2, <5>1 DEF InTurn
        <5>3. count = counter[w]
          BY <2>0, <2>1, <2>2, <3>3, <5>2
        <5> QED
          BY <2>1, <3>1, <3>4, <5>1, <5>3 DEF InTurn, Rotation
      <4> QED
        BY <4>1, <4>2
    <3>10. PICK after : after = [old EXCEPT ![cs[p]] = @ + 1]
      OBVIOUS
    <3>11. after \in [Models -> Nat] /\ Even(cs, after, Place(count + 1, Len(cs)))
      BY <3>1, <3>6, <3>9, <3>10, TurnKeepsEven
    <3>12. (rotation')[w] = [among |-> cs, turns |-> after]
      <4>1. (rotation')[w] = Turned(w, m)
        BY <1>2, <2>4, <3>0
      <4> QED
        BY <3>1, <3>7, <3>8, <3>10, <4>1 DEF Turned
    <3>13. count + 1 # 0
      OBVIOUS
    <3> QED
      BY <3>1, <3>3, <3>11, <3>12, <3>13 DEF InTurn, Rotation
  <2>5. CASE TurnsOf(v, w, n) > 0 /\ ~ (m # Nobody /\ Chain[v][n] = w)
    <3>1. (rotation')[w] = rotation[w]
      BY <1>2, <2>5
    <3>2. PICK i \in 1..n : Chain[v][i] = w /\ TakesTurn(w)
      BY <2>0, <2>5
    <3>3. counter[w] = 0
      <4>1. CASE i \in 1..(n - 1)
        BY <1>3, <3>2, <4>1
      <4>2. CASE i \notin 1..(n - 1)
        <5>1. i = n /\ m = Nobody /\ Chain[v][n] = w
          BY <1>0, <2>5, <3>2, <4>2
        <5>2. PICK count \in Nat : count = CountAt(v, n) /\ count = counter[w] + TurnsOf(v, w, n - 1)
          BY <2>0, <2>1, <5>1 DEF CountAt
        <5>3. count = 0
          BY <3>2, <5>1, <5>2, RoundRobinPicks
        <5> QED
          BY <2>0, <2>1, <5>2, <5>3
      <4> QED
        BY <4>1, <4>2
    <3>4. PICK r \in Rotation, c \in Nat : r = rotation[w] /\ c = (counter')[w]
      BY <2>0, <2>1
    <3>5. r.turns = NoTurns /\ \A j, k \in DOMAIN r.among : r.among[j] = r.among[k] => j = k
      BY <2>1, <3>3, <3>4 DEF InTurn
    <3>6. r.among \in Seq(Models)
      BY <3>4 DEF Rotation
    <3>7. \A next : Even(r.among, r.turns, next)
      BY <3>5, <3>6, NoTurnsEven
    <3>8. InTurn(r, c)
      BY <3>5, <3>7 DEF InTurn
    <3> QED
      BY <3>1, <3>4, <3>8
  <2> QED
    BY <2>0, <2>3, <2>4, <2>5
<1> QED
  BY <1>2, <1>4 DEF RoundInv

-----------------------------------------------------------------------------
(* The lowest latency finds somebody unless it knows no latency at all. *)
LEMMA LowestLatencyPick ==
    ASSUME IInv, NEW cs \in Seq(Models)
    PROVE  \/ LowestLatency(cs) \in Range(cs)
           \/ LowestLatency(cs) = Nobody /\ \A m \in Range(cs) : heard[m] = {}
<1> DEFINE p50(i) == entries[cs[i]].latencyMsP50
           timed == {i \in DOMAIN cs : Known(cs[i]) /\ p50(i) # NoLatency}
           best == {i \in timed : \A j \in timed : p50(i) <= p50(j)}
<1>1. ASSUME NEW i \in DOMAIN cs
      PROVE  /\ Known(cs[i]) => p50(i) \in Nat \cup {NoLatency}
             /\ Known(cs[i]) => (p50(i) = NoLatency) = (heard[cs[i]] = {})
             /\ ~Known(cs[i]) => heard[cs[i]] = {}
  <2>1. cs[i] \in Models
    OBVIOUS
  <2>2. Reported(cs[i], entries[cs[i]], streak[cs[i]], heard[cs[i]])
    BY <2>1 DEF IInv, ReportsInv
  <2> QED
    BY <2>2 DEF Reported, Known, Entry
<1>2. CASE timed = {}
  <2>1. LowestLatency(cs) = Nobody
    BY <1>2 DEF LowestLatency
  <2>2. ASSUME NEW i \in DOMAIN cs PROVE heard[cs[i]] = {}
    BY <1>1, <1>2
  <2> QED
    BY <2>1, <2>2 DEF Range
<1>3. CASE timed # {}
  <2>1. \A i \in timed : p50(i) \in Nat
    BY <1>1
  <2>2. \E i \in timed : \A j \in timed : p50(i) <= p50(j)
    <3> DEFINE latencies == {p50(i) : i \in timed}
    <3>1. latencies \subseteq Nat /\ latencies # {}
      BY <1>3, <2>1
    <3>2. PICK l \in latencies : \A k \in latencies : l <= k
      BY <3>1, Least
    <3> QED
      BY <3>2
  <2>3. best # {} /\ best \subseteq DOMAIN cs /\ best \subseteq Nat
    BY <2>2
  <2>4. LowestLatency(cs) = cs[Min(best)]
    BY <1>3 DEF LowestLatency
  <2> HIDE DEF best
  <2>5. Min(best) \in best
    BY <2>3, Least DEF Min
  <2> QED
    BY <2>3, <2>4, <2>5 DEF Range
<1> QED
  BY <1>2, <1>3

(* A pick is a candidate, or nobody for one of three reasons. *)
LEMMA PicksAre ==
    ASSUME IInv, NEW w \in VirtualModels, NEW count \in Nat
    PROVE  /\ Picks(w, count) # {}
           /\ \A m \in Picks(w, count) :
                 \/ m \in Range(Candidates(w)) /\ m # Nobody
                 \/ m = Nobody /\ Candidates(w) = <<>>
                 \/ m = Nobody /\ Catalog[w].strategy = "RoundRobin" /\ count = 0
                 \/ /\ m = Nobody /\ Catalog[w].strategy = "LowestLatency"
                    /\ \A k \in Range(Candidates(w)) : heard[k] = {}
<1>1. PICK cs \in Seq(Models) : cs = Candidates(w)
  BY CandidatesAre
<1>2. \A m \in Range(cs) : m # Nobody
  BY CatalogConfig DEF Range
<1>3. CASE cs = <<>>
  BY <1>1, <1>3 DEF Picks
<1>4. CASE cs # <<>> /\ Catalog[w].strategy = "RoundRobin"
  <2>1. Picks(w, count) = {RoundRobin(cs, count)} /\ TakesTurn(w)
    BY <1>1, <1>4 DEF Picks, TakesTurn
  <2>2. PICK m : m = RoundRobin(cs, count)
    OBVIOUS
  <2>3. Len(cs) \in Nat \ {0} /\ DOMAIN cs = 1..Len(cs)
    BY <1>4
  <2>4. Place(count, Len(cs)) \in DOMAIN cs
    BY <2>3, PlaceMoves
  <2>5. /\ m = Nobody => count = 0
        /\ m # Nobody => m = cs[Place(count, Len(cs))]
    BY <1>1, <2>1, <2>2, RoundRobinPicks
  <2> QED
    BY <1>1, <1>2, <1>4, <2>1, <2>2, <2>4, <2>5 DEF Range
<1>5. CASE cs # <<>> /\ Catalog[w].strategy = "WeightedRandom"
  <2>1. Picks(w, count) = WeightedRandom(w, cs)
    BY <1>1, <1>5 DEF Picks
  <2>2. cs[1] \in Range(cs)
    BY <1>5 DEF Range
  <2>3. WeightedRandom(w, cs) # {} /\ WeightedRandom(w, cs) \subseteq Range(cs)
    BY <2>2 DEF WeightedRandom
  <2> QED
    BY <1>1, <1>2, <2>1, <2>3
<1>6. CASE cs # <<>> /\ Catalog[w].strategy = "Failover"
  <2>1. Picks(w, count) = {cs[1]} /\ cs[1] \in Range(cs)
    BY <1>1, <1>6 DEF Picks, Range
  <2> QED
    BY <1>1, <1>2, <2>1
<1>7. CASE cs # <<>> /\ Catalog[w].strategy = "LowestLatency"
  <2>1. Picks(w, count) = {LowestLatency(cs)}
    BY <1>1, <1>7 DEF Picks
  <2>2. \/ LowestLatency(cs) \in Range(cs)
        \/ LowestLatency(cs) = Nobody /\ \A k \in Range(cs) : heard[k] = {}
    BY LowestLatencyPick
  <2> QED
    BY <1>1, <1>2, <1>7, <2>1, <2>2
<1> QED
  BY <1>3, <1>4, <1>5, <1>6, <1>7, CatalogConfig DEF Strategy

LEMMA CountAtType ==
    ASSUME IInv, NEW v \in VirtualModels, NEW i \in DOMAIN Chain[v]
    PROVE  /\ Chain[v][i] \in VirtualModels
           /\ CountAt(v, i) \in Nat
           /\ CountAt(v, i) = 0 => counter[Chain[v][i]] = 0
<1>1. i \in 1..Len(Chain[v]) /\ Chain[v][i] \in VirtualModels
  BY ChainIs
<1>2. TurnsOf(v, Chain[v][i], i - 1) \in Nat /\ counter[Chain[v][i]] \in Nat
  BY <1>1, TurnsOfIs DEF IInv, RoundInv
<1> QED
  BY <1>1, <1>2 DEF CountAt

LEMMA DecisionIs ==
    ASSUME NEW v \in VirtualModels, NEW d \in Decisions(v)
    PROVE  \E n \in DOMAIN Chain[v] :
              /\ \A i \in 1..(n - 1) : Misses(v, i)
              /\ \E m \in Picks(Chain[v][n], CountAt(v, n)) :
                    m # Nobody /\ d = [at |-> n, model |-> m]
BY DEF Decisions

(* A request that finds nobody missed everybody. *)
LEMMA ExhaustedMissesAll ==
    ASSUME IInv, NEW v \in VirtualModels, Decisions(v) = {}
    PROVE  \A i \in 1..Len(Chain[v]) : Misses(v, i)
<1> DEFINE found == {i \in 1..Len(Chain[v]) : ~Misses(v, i)}
<1>1. DOMAIN Chain[v] = 1..Len(Chain[v]) /\ Len(Chain[v]) \in Nat
  BY ChainIs
<1>2. ASSUME found # {} PROVE FALSE
  <2>0. found \subseteq Nat
    BY <1>1
  <2>1. PICK n \in found : \A i \in found : n <= i
    BY <1>2, <2>0, Least
  <2>2. n \in DOMAIN Chain[v] /\ \A i \in 1..(n - 1) : Misses(v, i)
    BY <1>1, <2>1
  <2>3. Picks(Chain[v][n], CountAt(v, n)) # {}
    BY <2>2, CountAtType, PicksAre
  <2>4. PICK m \in Picks(Chain[v][n], CountAt(v, n)) : m # Nobody
    BY <2>1, <2>3 DEF Misses
  <2>5. [at |-> n, model |-> m] \in Decisions(v)
    BY <2>2, <2>4 DEF Decisions
  <2> QED
    BY <2>5
<1> QED
  BY <1>2

LEMMA RequestKeeps ==
    ASSUME IInv, NEW v \in VirtualModels, Route(v) \/ Exhausted(v)
    PROVE  IInv' /\ UNCHANGED availabilityVars
<1>1. ASSUME NEW n, NEW m, Visit(v, n, m) PROVE UNCHANGED availabilityVars
  BY <1>1 DEF Visit
<1>2. ASSUME UNCHANGED availabilityVars PROVE ReportsInv'
  <2>1. entries' = entries /\ streak' = streak /\ heard' = heard
    BY <1>2 DEF availabilityVars
  <2> QED
    BY <2>1 DEF IInv, ReportsInv, AvailabilityTypeOK
<1>3. CASE Route(v)
  <2>1. PICK d \in Decisions(v) : Visit(v, d.at, d.model)
    BY <1>3 DEF Route
  <2>2. PICK n \in DOMAIN Chain[v] :
           /\ \A i \in 1..(n - 1) : Misses(v, i)
           /\ \E m \in Picks(Chain[v][n], CountAt(v, n)) : d = [at |-> n, model |-> m]
    BY DecisionIs
  <2>7. PICK m \in Picks(Chain[v][n], CountAt(v, n)) : d = [at |-> n, model |-> m]
    BY <2>2
  <2>3. Visit(v, n, m) /\ n \in 1..Len(Chain[v])
    BY <2>1, <2>7, ChainIs
  <2>4. RoundInv'
    BY <2>2, <2>3, VisitKeeps
  <2> QED
    BY <1>1, <1>2, <2>3, <2>4 DEF IInv
<1>4. CASE Exhausted(v)
  <2>1. PICK n, m : n = Len(Chain[v]) /\ m = Nobody
    OBVIOUS
  <2>2. Visit(v, n, m) /\ Decisions(v) = {}
    BY <1>4, <2>1 DEF Exhausted
  <2>3. \A i \in 1..Len(Chain[v]) : Misses(v, i)
    BY <2>2, ExhaustedMissesAll
  <2>4. n \in 1..Len(Chain[v]) /\ n \in Nat
    BY <2>1, ChainIs
  <2>5. m \in Picks(Chain[v][n], CountAt(v, n)) /\ \A i \in 1..(n - 1) : Misses(v, i)
    BY <2>1, <2>3, <2>4 DEF Misses
  <2>6. RoundInv'
    BY <2>2, <2>4, <2>5, VisitKeeps
  <2> QED
    BY <1>1, <1>2, <2>2, <2>6 DEF IInv
<1> QED
  BY <1>3, <1>4

-----------------------------------------------------------------------------
LEMMA StartKeeps ==
    /\ Init => IInv
    /\ Restart => IInv'
<1> DEFINE rows == [m \in Models |-> FromRow(m)]
           runs == [m \in Models |-> RowStreak(m)]
           told == [m \in Models |-> RowLatencies(m)]
           counts == [v \in VirtualModels |-> 0]
           still == [v \in VirtualModels |-> [among |-> <<>>, turns |-> NoTurns]]
<1>1. ASSUME NEW m \in Models
      PROVE  /\ FromRow(m) \in Entry \cup {Absent} /\ RowStreak(m) \in Int
             /\ RowLatencies(m) \in SUBSET Nat
             /\ Reported(m, FromRow(m), RowStreak(m), RowLatencies(m))
  BY RowReported DEF Reported
<1>2. /\ rows \in [Models -> Entry \cup {Absent}] /\ runs \in [Models -> Int]
      /\ told \in [Models -> SUBSET Nat]
      /\ \A m \in Models : Reported(m, rows[m], runs[m], told[m])
  BY <1>1
<1>3. PICK still1 : still1 = [among |-> <<>>, turns |-> NoTurns]
  OBVIOUS
<1>4. still1 \in Rotation /\ \A none \in Nat : InTurn(still1, none)
  <2>1. still1.among = <<>> /\ still1.turns = NoTurns /\ <<>> \in Seq(Models)
    BY <1>3
  <2>2. NoTurns \in [Models -> Nat]
    BY DEF NoTurns
  <2> QED
    BY <1>3, <2>1, <2>2 DEF Rotation, InTurn
<1>5. /\ counts \in [VirtualModels -> Nat] /\ still \in [VirtualModels -> Rotation]
      /\ \A v \in VirtualModels : InTurn(still[v], counts[v])
  BY <1>3, <1>4
<1>6. Init => IInv
  <2> SUFFICES ASSUME Init PROVE IInv
    OBVIOUS
  <2>1. /\ entries = rows /\ streak = runs /\ heard = told
        /\ counter = counts /\ rotation = still
    BY DEF Init, AvailabilityInit
  <2> HIDE DEF rows, runs, told, counts, still
  <2> QED
    BY <1>2, <1>5, <2>1 DEF IInv, ReportsInv, RoundInv, AvailabilityTypeOK
<1>7. Restart => IInv'
  <2> SUFFICES ASSUME Restart PROVE IInv'
    OBVIOUS
  <2>1. /\ entries' = rows /\ streak' = runs /\ heard' = told
        /\ counter' = counts /\ rotation' = still
    BY DEF Restart
  <2> HIDE DEF rows, runs, told, counts, still
  <2> QED
    BY <1>2, <1>5, <2>1 DEF IInv, ReportsInv, RoundInv, AvailabilityTypeOK
<1> QED
  BY <1>6, <1>7

LEMMA StepKeeps == IInv /\ [Next]_vars => IInv'
<1> SUFFICES ASSUME IInv, [Next]_vars PROVE IInv'
  OBVIOUS
<1>1. ASSUME NEW v \in VirtualModels, Route(v) \/ Exhausted(v) PROVE IInv'
  BY <1>1, RequestKeeps
<1>2. ASSUME NEW m \in Fed, Outcome(m) \/ Administer(m), UNCHANGED routerVars PROVE IInv'
  <2>1. ReportsInv'
    BY <1>2, FedKeeps, AvailabilityConfig DEF IInv
  <2>2. counter' = counter /\ rotation' = rotation
    BY <1>2 DEF routerVars
  <2> QED
    BY <2>1, <2>2 DEF IInv, RoundInv
<1>3. CASE UNCHANGED vars
  <2>1. /\ entries' = entries /\ streak' = streak /\ heard' = heard
        /\ counter' = counter /\ rotation' = rotation
    BY <1>3 DEF vars
  <2> QED
    BY <2>1 DEF IInv, ReportsInv, RoundInv, AvailabilityTypeOK
<1> QED
  BY <1>1, <1>2, <1>3, StartKeeps DEF Next

(* The invariant is stronger than what it is for. *)
LEMMA Enough == IInv => TypeOK /\ EntriesMatchReports /\ RoundRobinIsFair /\ RoutingIsExplained
<1> SUFFICES ASSUME IInv
             PROVE  TypeOK /\ EntriesMatchReports /\ RoundRobinIsFair /\ RoutingIsExplained
  OBVIOUS
<1>1. TypeOK
  BY DEF IInv, ReportsInv, RoundInv, TypeOK
<1>2. EntriesMatchReports
  <2> SUFFICES ASSUME NEW m \in Models, Known(m)
      PROVE /\ IsRoutable(m) => \/ -streak[m] < FailureThreshold
                                \/ Rows[m] # Disabled /\ streak[m] = RowStreak(m)
            /\ (entries[m].latencyMsP50 = NoLatency) = (heard[m] = {})
            /\ heard[m] # {} =>
                  /\ \E l \in heard[m] : l <= entries[m].latencyMsP50
                  /\ \E l \in heard[m] : entries[m].latencyMsP50 <= l
    BY DEF EntriesMatchReports
  <2>1. Reported(m, entries[m], streak[m], heard[m])
    BY DEF IInv, ReportsInv
  <2> QED
    BY <2>1 DEF Reported, Known, IsRoutable
<1>3. RoundRobinIsFair
  <2> SUFFICES ASSUME NEW v \in VirtualModels,
                      NEW i \in DOMAIN rotation[v].among, NEW j \in DOMAIN rotation[v].among
      PROVE rotation[v].turns[rotation[v].among[i]] <= rotation[v].turns[rotation[v].among[j]] + 1
    BY DEF RoundRobinIsFair, Range
  <2>1. InTurn(rotation[v], counter[v]) /\ rotation[v] \in Rotation
    BY DEF IInv, RoundInv
  <2>2. rotation[v].among # <<>>
    OBVIOUS
  <2> QED
    BY <2>1, <2>2 DEF InTurn, Even
<1>4. RoutingIsExplained
  <2>1. ASSUME NEW v \in VirtualModels, NEW d \in Decisions(v), entries[d.model] # Absent
        PROVE  entries[d.model].status # "unavailable"
    <3>1. PICK n \in DOMAIN Chain[v] : \E m \in Picks(Chain[v][n], CountAt(v, n)) :
                                           m # Nobody /\ d = [at |-> n, model |-> m]
      BY DecisionIs
    <3>2. PICK m \in Picks(Chain[v][n], CountAt(v, n)) : m # Nobody /\ d.model = m
      BY <3>1
    <3>3. PICK w \in VirtualModels, count \in Nat : w = Chain[v][n] /\ count = CountAt(v, n)
      BY CountAtType
    <3>4. m \in Range(Candidates(w))
      BY <3>2, <3>3, PicksAre
    <3>5. IsRoutable(m)
      BY <3>4, CandidatesAre DEF Range
    <3> QED
      BY <2>1, <3>2, <3>5 DEF IsRoutable, Known
  <2>2. ASSUME NEW v \in VirtualModels, NEW i \in DOMAIN Chain[v],
               NEW w, w = Chain[v][i], Misses(v, i), Candidates(w) # <<>>
        PROVE  \/ Catalog[w].strategy = "RoundRobin" /\ counter[w] = 0
               \/ /\ Catalog[w].strategy = "LowestLatency"
                  /\ \A m \in Range(Candidates(w)) : heard[m] = {}
    <3>1. PICK count, m : /\ count \in Nat /\ count = CountAt(v, i)
                          /\ w \in VirtualModels /\ m = Nobody
                          /\ count = 0 => counter[w] = 0
      BY <2>2, CountAtType
    <3>2. m \in Picks(w, count)
      BY <2>2, <3>1 DEF Misses
    <3>3. \/ m \in Range(Candidates(w)) /\ m # Nobody
          \/ m = Nobody /\ Candidates(w) = <<>>
          \/ m = Nobody /\ Catalog[w].strategy = "RoundRobin" /\ count = 0
          \/ /\ m = Nobody /\ Catalog[w].strategy = "LowestLatency"
             /\ \A k \in Range(Candidates(w)) : heard[k] = {}
      BY <3>1, <3>2, PicksAre
    <3> QED
      BY <2>2, <3>1, <3>3
  <2> QED
    BY <2>1, <2>2 DEF RoutingIsExplained
<1> QED
  BY <1>1, <1>2, <1>3, <1>4

-----------------------------------------------------------------------------
LEMMA Invariance == Spec => []IInv
<1>1. Init => IInv
  BY StartKeeps
<1> QED
  BY <1>1, StepKeeps, PTL DEF Spec

(* The cache, the counters and the rotations stay what they are declared   *)
(* to be: an entry is an entry after any mix of outcomes and admin changes. *)
THEOREM TypeCorrect == Spec => []TypeOK
  BY Invariance, Enough, PTL

(* What the cache says of a model is what was reported of it: a streak of  *)
(* failures takes it out of the rotation, whatever rates come in between,  *)
(* and its running latency stays between the latencies it was made from.   *)
THEOREM ReportsMatched == Spec => []EntriesMatchReports
  BY Invariance, Enough, PTL

(* No two candidates of a round robin are more than one turn apart while   *)
(* the candidates stay the same, for any catalog and any number of them.   *)
THEOREM RoundRobinFair == Spec => []RoundRobinIsFair
  BY Invariance, Enough, PTL

(* No request goes to a model known to be down, and a virtual model with a *)
(* routable member is passed over in the two cases only.                   *)
THEOREM RoutingExplained == Spec => []RoutingIsExplained
  BY Invariance, Enough, PTL

(* A model goes down only after FailureThreshold failures in a row and     *)
(* comes back only after two successes in a row.                           *)
THEOREM MovesEarned == Spec => MovesAreEarned
<1> DEFINE Move == \A m \in Models :
          entries[m] # Absent /\ entries'[m] # Absent /\ entries'[m] # FromRow(m) =>
            LET old == entries[m].status
                new == entries'[m].status
            IN  /\ new = "unavailable" /\ old # new => -streak'[m] >= FailureThreshold
                /\ old = "unavailable" /\ old # new => new = "available" /\ streak'[m] >= 2
<1>1. IInv /\ [Next]_vars => [Move]_availabilityVars
  <2> SUFFICES ASSUME IInv, [Next]_vars PROVE Move \/ UNCHANGED availabilityVars
    OBVIOUS
  <2>1. ASSUME NEW v \in VirtualModels, Route(v) \/ Exhausted(v)
        PROVE  UNCHANGED availabilityVars
    BY <2>1, RequestKeeps
  <2>2. ASSUME NEW m \in Fed, Outcome(m) \/ Administer(m) PROVE Move
    <3>1. \A k \in Models : Earned(k, entries[k], (entries')[k], (streak')[k])
      BY <2>2, FedKeeps, AvailabilityConfig DEF IInv
    <3> QED
      BY <3>1 DEF Earned
  <2>3. CASE Restart
    <3>1. entries' = [m \in Models |-> FromRow(m)]
      BY <2>3 DEF Restart
    <3>2. \A m \in Models : (entries')[m] = FromRow(m)
      BY <3>1
    <3> QED
      BY <3>2
  <2>4. CASE UNCHANGED vars
    BY <2>4 DEF vars, availabilityVars
  <2> QED
    BY <2>1, <2>2, <2>3, <2>4 DEF Next
<1> QED
  BY <1>1, Invariance, PTL DEF Spec, MovesAreEarned

=============================================================================
