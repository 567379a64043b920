--------------------------- MODULE BreakerContract ---------------------------
(***************************************************************************)
(* What a circuit breaker promises its callers, with an eager timer: the   *)
(* breaker itself leaves "open" at the instant its cooldown has elapsed.   *)
(* CircuitBreaker.tla, which leaves "open" lazily, at the next call that   *)
(* happens to look, is shown to implement it.                              *)
(***************************************************************************)
EXTENDS Naturals

CONSTANTS OpenCooldown,              \* how long an opening lasts
          HalfOpenSuccessThreshold   \* successes that end a trial

VARIABLES now,    \* the time
          mode,   \* what a caller is told: "closed", "open" or "half-open"
          until,  \* while open, when the trial begins; otherwise 0
          wins,   \* successes of the current trial
          oddResets  \* whether the operator has reset it an odd number of times:
                     \* changes with every reset and with nothing else

vars == <<now, mode, until, wins, oddResets>>

Init == /\ now = 0
        /\ mode = "closed"
        /\ until = 0
        /\ wins = 0
        /\ oddResets = FALSE

(* A closed breaker trips, or a trial fails: a full cooldown starts now. *)
Open == /\ mode \in {"closed", "half-open"}
        /\ mode' = "open"
        /\ until' = now + OpenCooldown
        /\ wins' = 0
        /\ UNCHANGED <<now, oddResets>>

TrialSuccess == /\ mode = "half-open"
                /\ wins + 1 < HalfOpenSuccessThreshold
                /\ wins' = wins + 1
                /\ UNCHANGED <<now, mode, until, oddResets>>

(* Only a trial with enough successes closes the breaker: no success that  *)
(* comes while it is open, and none before the last one the trial needs... *)
Close == /\ mode = "half-open"
         /\ wins + 1 >= HalfOpenSuccessThreshold
         /\ mode' = "closed"
         /\ wins' = 0
         /\ UNCHANGED <<now, until, oddResets>>

(* ... or an operator, at any time, which oddResets tells apart from it.   *)
Reset == /\ oddResets' = ~oddResets
         /\ mode' = "closed"
         /\ until' = 0
         /\ wins' = 0
         /\ UNCHANGED now

Tick == /\ now' = now + 1
        /\ IF mode = "open" /\ now' >= until
           THEN mode' = "half-open" /\ until' = 0
           ELSE UNCHANGED <<mode, until>>
        /\ UNCHANGED <<wins, oddResets>>

Next == Open \/ TrialSuccess \/ Close \/ Reset \/ Tick

Spec == Init /\ [][Next]_vars
=============================================================================
