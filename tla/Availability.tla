----------------------------- MODULE Availability -----------------------------
(***************************************************************************)
(* storage/indexes.ts, AvailabilityCache: what the gateway believes about  *)
(* each upstream model, built from the database at boot and then fed with  *)
(* outcomes.  Nothing in the repository writes the rows back, so a restart *)
(* forgets what was learned.                                               *)
(***************************************************************************)
EXTENDS Integers

CONSTANTS Models,            \* provider_models.id
          Rows,              \* what the database holds: a row, or Disabled
          Disabled,
          Absent,            \* a model the cache does not hold
          NoLatency,         \* null
          Latencies,         \* latencies that may be reported of each, in ms
          Rates,             \* success rates that may be reported, in tenths
          FailureThreshold,  \* failures in a row that demote a model
          Fed,               \* bound: the models that the cache is told of
          MaxStreak          \* bound: outcomes of one kind in a row

Status == {"available", "degraded", "unavailable"}

(* unavailableSince and the 95th percentile are written and never read.    *)
Entry == [status: Status, consecutiveFailures: Nat, consecutiveSuccesses: Nat,
          recentSuccessRate: 0..10, latencyMsP50: Nat \cup {NoLatency}]

Fresh == [status |-> "available", consecutiveFailures |-> 0,
          consecutiveSuccesses |-> 0, recentSuccessRate |-> 10,
          latencyMsP50 |-> NoLatency]

(* The rate is not stored, and the writers of the rows let one streak end  *)
(* the other.                                                              *)
ASSUME AvailabilityConfig ==
    /\ Disabled \notin Entry /\ Absent \notin Entry
    /\ NoLatency \notin Nat
    /\ Rows \in [Models -> Entry \cup {Disabled}]
    /\ \A m \in Models : Rows[m] # Disabled =>
          /\ Rows[m].recentSuccessRate = 10
          /\ Rows[m].consecutiveFailures = 0 \/ Rows[m].consecutiveSuccesses = 0
    /\ Latencies \in [Models -> SUBSET Nat]
    /\ Rates \subseteq 0..10
    /\ FailureThreshold \in Nat \ {0}
    /\ Fed \subseteq Models
    /\ MaxStreak \in Nat

VARIABLES entries,  \* the cache
          streak,   \* auxiliary: outcomes in a row, failures below zero
          heard     \* auxiliary: latencies the current p50 was made from

availabilityVars == <<entries, streak, heard>>

AvailabilityTypeOK ==
    /\ entries \in [Models -> Entry \cup {Absent}]
    /\ streak \in [Models -> Int]
    /\ heard \in [Models -> SUBSET Nat]

-----------------------------------------------------------------------------
Known(m) == entries[m] # Absent

(* A model that was disabled at boot is not in the cache and is routable. *)
IsRoutable(m) == Known(m) => entries[m].status # "unavailable"

(* ensure() *)
Ensured(m) == IF Known(m) THEN entries[m] ELSE Fresh

(* fromRepositories: every enabled model. *)
FromRow(m) == IF Rows[m] = Disabled THEN Absent ELSE Rows[m]

RowStreak(m) == IF Rows[m] = Disabled THEN 0
                ELSE Rows[m].consecutiveSuccesses - Rows[m].consecutiveFailures

RowLatencies(m) == IF Rows[m] = Disabled \/ Rows[m].latencyMsP50 = NoLatency
                   THEN {} ELSE {Rows[m].latencyMsP50}

(* 0.7 * p50 + 0.3 * latency, rounded.  The two products are floating-point *)
(* numbers, so exactly half-way it may go either way.                      *)
Blend(p50, latency) ==
    LET tenths == 7 * p50 + 3 * latency
    IN  IF tenths % 10 = 5 THEN {tenths \div 10, tenths \div 10 + 1}
                           ELSE {(tenths + 5) \div 10}

NewP50s(e, latency) ==
    IF latency = NoLatency THEN {e.latencyMsP50}
    ELSE IF e.latencyMsP50 = NoLatency THEN {latency}
    ELSE Blend(e.latencyMsP50, latency)

(* mutant: one success is enough *)
Promoted_AtOnce(e) ==
    IF e.status = "unavailable" \/ e.recentSuccessRate >= 8
    THEN [e EXCEPT !.status = "available"]
    ELSE e

(* recordSuccess, once the streaks are counted. *)
Promoted(e) ==
    IF \/ e.status = "unavailable" /\ e.consecutiveSuccesses >= 2
       \/ e.status = "degraded" /\ e.recentSuccessRate >= 8
    THEN [e EXCEPT !.status = "available"]
    ELSE e

(* mutant: only an available model can go down *)
Demoted_OnlyAvailable(e) ==
    IF e.status = "available" /\ e.consecutiveFailures >= FailureThreshold
    THEN [e EXCEPT !.status = "unavailable"]
    ELSE IF e.status = "available" /\ e.recentSuccessRate < 8
    THEN [e EXCEPT !.status = "degraded"]
    ELSE e

(* recordFailure, once the streaks are counted. *)
Demoted(e) ==
    IF e.status # "unavailable" /\ e.consecutiveFailures >= FailureThreshold
    THEN [e EXCEPT !.status = "unavailable"]
    ELSE IF e.status = "available" /\ e.recentSuccessRate < 8
    THEN [e EXCEPT !.status = "degraded"]
    ELSE e

(* mutant: the rate is stored as a percentage *)
Rated_Percent(e, rate) == [e EXCEPT !.recentSuccessRate = 10 * rate]

(* updateSuccessRate: the second test sees what the first one did. *)
Rated(e, rate) ==
    LET r == [e EXCEPT !.recentSuccessRate = rate]
    IN  CASE r.status = "available" /\ rate < 8 -> [r EXCEPT !.status = "degraded"]
          [] r.status = "degraded" /\ rate >= 8 -> [r EXCEPT !.status = "available"]
          [] OTHER -> r

-----------------------------------------------------------------------------
AvailabilityInit ==
    /\ entries = [m \in Models |-> FromRow(m)]
    /\ streak = [m \in Models |-> RowStreak(m)]
    /\ heard = [m \in Models |-> RowLatencies(m)]

Becomes(m, e, run, latencies) == /\ entries' = [entries EXCEPT ![m] = e]
                                 /\ streak' = [streak EXCEPT ![m] = run]
                                 /\ heard' = [heard EXCEPT ![m] = latencies]

RecordSuccess(m, latency) ==
    /\ streak[m] < MaxStreak
    /\ \E p50 \in NewP50s(Ensured(m), latency) :
          Becomes(m, Promoted([Ensured(m) EXCEPT !.consecutiveSuccesses = @ + 1,
                                                 !.consecutiveFailures = 0,
                                                 !.latencyMsP50 = p50]),
                  IF streak[m] > 0 THEN streak[m] + 1 ELSE 1,
                  heard[m] \cup ({latency} \ {NoLatency}))

RecordFailure(m) ==
    /\ -streak[m] < MaxStreak
    /\ Becomes(m, Demoted([Ensured(m) EXCEPT !.consecutiveFailures = @ + 1,
                                             !.consecutiveSuccesses = 0]),
               IF streak[m] < 0 THEN streak[m] - 1 ELSE -1, heard[m])

UpdateSuccessRate(m, rate) == Becomes(m, Rated(Ensured(m), rate), streak[m], heard[m])

Add(m) == ~Known(m) /\ Becomes(m, Fresh, 0, {})

Forget(m) == Known(m) /\ Becomes(m, Absent, 0, {})

(* set(), with the row as it is read again. *)
Reload(m) == Rows[m] # Disabled
             /\ Becomes(m, FromRow(m), RowStreak(m), RowLatencies(m))

Outcome(m) ==
    \/ \E latency \in Latencies[m] \cup {NoLatency} : RecordSuccess(m, latency)
    \/ RecordFailure(m)
    \/ \E rate \in Rates : UpdateSuccessRate(m, rate)

Administer(m) == Add(m) \/ Forget(m) \/ Reload(m)

-----------------------------------------------------------------------------
(* What the cache says of a model is what was reported of it: one that can *)
(* be routed to has not just failed FailureThreshold times in a row, unless *)
(* its row says so and nothing was recorded since, so that a low success   *)
(* rate in between hides no streak; and its running latency stays between  *)
(* the least and the greatest latency it was made from, roundings included. *)
EntriesMatchReports ==
    \A m \in Models : Known(m) =>
        /\ IsRoutable(m) => \/ -streak[m] < FailureThreshold
                            \/ Rows[m] # Disabled /\ streak[m] = RowStreak(m)
        /\ (entries[m].latencyMsP50 = NoLatency) = (heard[m] = {})
        /\ heard[m] # {} =>
              /\ \E l \in heard[m] : l <= entries[m].latencyMsP50
              /\ \E l \in heard[m] : entries[m].latencyMsP50 <= l

(* Between two reloads a model leaves the rotation only after              *)
(* FailureThreshold failures in a row, comes back only after two successes *)
(* in a row, and a rate alone moves it neither out nor back in.            *)
MovesAreEarned ==
    [][\A m \in Models :
          entries[m] # Absent /\ entries'[m] # Absent /\ entries'[m] # FromRow(m) =>
            LET old == entries[m].status
                new == entries'[m].status
            IN  /\ new = "unavailable" /\ old # new => -streak'[m] >= FailureThreshold
                /\ old = "unavailable" /\ old # new => new = "available" /\ streak'[m] >= 2
      ]_availabilityVars
=============================================================================
