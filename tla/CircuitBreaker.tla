---------------------------- MODULE CircuitBreaker ----------------------------
(***************************************************************************)
(* connector/circuit-breaker.ts: the statistics the breaker keeps for one  *)
(* vendor, and its methods.  A vendor the map does not hold behaves as one *)
(* whose statistics are Fresh, so absence is not a state of its own.       *)
(* Timestamps are Date.now() in ticks, assumed not to run backwards.       *)
(***************************************************************************)
EXTENDS Integers, Sequences, FiniteSets

CONSTANTS FailureThreshold,          \* failures that trip the breaker
          WindowMs,                  \* how long a failure counts
          OpenCooldownMs,            \* how long the breaker stays open
          HalfOpenSuccessThreshold   \* successes that close it again

ASSUME BreakerConfig ==
    /\ FailureThreshold \in Nat \ {0}
    /\ WindowMs \in Nat
    /\ OpenCooldownMs \in Nat \ {0}
    /\ HalfOpenSuccessThreshold \in Nat \ {0}

VARIABLES now,      \* Date.now()
          circuit,  \* the CircuitStats of the vendor
          streak,   \* auxiliary: when the last failures since the last success
                    \* were recorded, FailureThreshold of them at most
          records,  \* auxiliary: how many outcomes were recorded
          oddResets \* auxiliary: whether there was an odd number of resets

CircuitState == {"closed", "open", "half-open"}

CircuitStats == [state: CircuitState, recentFailures: Seq(Nat),
                 recentSuccesses: Nat, openedAt: Nat]

Fresh == [state |-> "closed", recentFailures |-> <<>>,
          recentSuccesses |-> 0, openedAt |-> 0]

-----------------------------------------------------------------------------
(* The cooldown is only noticed when somebody looks: every method starts   *)
(* with maybeTransition.                                                   *)
MaybeTransition(s, t) ==
    IF s.state = "open" /\ t - s.openedAt >= OpenCooldownMs
    THEN [s EXCEPT !.state = "half-open", !.recentSuccesses = 0]
    ELSE s

(* The failures still inside the window.  Timestamps are appended in       *)
(* order, so what the filter drops is a prefix.                            *)
InWindow(failures, t) ==
    LET expired == {i \in 1..Len(failures) : t - failures[i] > WindowMs}
    IN  SubSeq(failures, Cardinality(expired) + 1, Len(failures))

(* mutant: the success that closes the breaker keeps the old failures *)
Closed_KeepsFailures(s) == [s EXCEPT !.state = "closed", !.recentSuccesses = 0]

(* A trial succeeded. *)
Closed(s) == [s EXCEPT !.state = "closed", !.recentFailures = <<>>,
                       !.recentSuccesses = 0]

(* mutant: a success while closed does not interrupt a row of failures *)
Interrupted_KeepsFailures(s) == s

Interrupted(s) == [s EXCEPT !.recentFailures = <<>>]

(* mutant: a late success counts towards closing a breaker that is open *)
AfterSuccess_WhileOpen(s, t) ==
    LET m == MaybeTransition(s, t)
    IN  CASE m.state # "closed" ->
               IF m.recentSuccesses + 1 >= HalfOpenSuccessThreshold
               THEN Closed(m)
               ELSE [m EXCEPT !.recentSuccesses = @ + 1]
          [] m.state = "closed" -> Interrupted(m)

AfterSuccess(s, t) ==
    LET m == MaybeTransition(s, t)
    IN  CASE m.state = "half-open" ->
               IF m.recentSuccesses + 1 >= HalfOpenSuccessThreshold
               THEN Closed(m)
               ELSE [m EXCEPT !.recentSuccesses = @ + 1]
          [] m.state = "closed" -> Interrupted(m)
          [] m.state = "open"   -> m

AfterFailure(s, t) ==
    LET m      == MaybeTransition(s, t)
        recent == Append(InWindow(m.recentFailures, t), t)
    IN  CASE m.state = "half-open" ->
               [m EXCEPT !.state = "open", !.openedAt = t, !.recentSuccesses = 0]
          [] m.state = "closed" ->
               IF Len(recent) >= FailureThreshold
               THEN [m EXCEPT !.state = "open", !.openedAt = t,
                              !.recentFailures = recent]
               ELSE [m EXCEPT !.recentFailures = recent]
          [] m.state = "open" -> m

(* What stateOf answers, and allow's test. *)
StateOf(s, t) == MaybeTransition(s, t).state

(* mutant: an opening is forgotten after one tick *)
Allowed_AfterOneTick(s, t) == StateOf(s, t) # "open" \/ t > s.openedAt

Allowed(s, t) == StateOf(s, t) # "open"

-----------------------------------------------------------------------------
(* The methods as steps, on the statistics and the auxiliary streak.       *)

Newest(s, n) == IF Len(s) <= n THEN s ELSE SubSeq(s, Len(s) - n + 1, Len(s))

(* allow and stateOf both store what maybeTransition made of the state. *)
Look == /\ circuit' = MaybeTransition(circuit, now)
        /\ UNCHANGED <<streak, records, oddResets>>

RecordSuccess == /\ circuit' = AfterSuccess(circuit, now)
                 /\ streak' = <<>>
                 /\ records' = records + 1
                 /\ UNCHANGED oddResets

RecordFailure == /\ circuit' = AfterFailure(circuit, now)
                 /\ streak' = Newest(Append(streak, now), FailureThreshold)
                 /\ records' = records + 1
                 /\ UNCHANGED oddResets

ResetStats == /\ circuit' = Fresh /\ streak' = <<>>
              /\ oddResets' = ~oddResets
              /\ UNCHANGED records

Untouched == UNCHANGED <<circuit, streak, records, oddResets>>

-----------------------------------------------------------------------------
(* The breaker on its own: any caller, any order of calls.                 *)
breakerVars == <<now, circuit, streak, records, oddResets>>

BreakerInit == /\ now = 0 /\ circuit = Fresh
               /\ streak = <<>> /\ records = 0 /\ oddResets = FALSE

BreakerNext ==
    \/ UNCHANGED now /\ (Look \/ RecordSuccess \/ RecordFailure \/ ResetStats)
    \/ now' = now + 1 /\ Untouched

BreakerSpec == BreakerInit /\ [][BreakerNext]_breakerVars

BreakerTypeOK == /\ now \in Nat
                 /\ circuit \in CircuitStats
                 /\ streak \in Seq(Nat)
                 /\ records \in Nat
                 /\ oddResets \in BOOLEAN

(* The promise, under the mapping that reads the state through             *)
(* maybeTransition as every caller does; the resets are the same on both   *)
(* sides, so that no success, failure or look can pass for one.            *)
Contract == INSTANCE BreakerContract WITH
    OpenCooldown <- OpenCooldownMs,
    mode  <- StateOf(circuit, now),
    until <- IF StateOf(circuit, now) = "open"
             THEN circuit.openedAt + OpenCooldownMs ELSE 0,
    wins  <- MaybeTransition(circuit, now).recentSuccesses

ContractSpec == Contract!Spec
=============================================================================
