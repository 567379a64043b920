------------------------------ MODULE RateLimit ------------------------------
(***************************************************************************)
(* auth/rate-limit.ts: per key a window that counts requests and one that  *)
(* counts tokens, both of the current minute.  A window the maps do not    *)
(* hold, and one of an earlier minute, count from zero when next touched.  *)
(* Date.now() is assumed not to run backwards.                             *)
(***************************************************************************)
EXTENDS Integers

CONSTANTS Keys,
          Limits,    \* per key: rpm_limit and tpm_limit
          NoLimit,   \* null
          Tokens,    \* what every request is estimated at
          WindowMs,  \* a minute
          SecondMs   \* the unit of Retry-After

ASSUME RateLimitConfig ==
    /\ NoLimit \notin Nat
    /\ Limits \in [Keys -> [rpm: Nat \cup {NoLimit}, tpm: Nat \cup {NoLimit}]]
    /\ Tokens \in Nat \ {0}
    /\ WindowMs \in Nat \ {0} /\ SecondMs \in Nat \ {0}

VARIABLES now,  \* Date.now()
          rpm,  \* requests counted, per key
          tpm   \* tokens counted, per key

limiterVars == <<rpm, tpm>>

MinuteKey(t) == t \div WindowMs

Window == [minuteKey: Nat \cup {-1}, used: Nat]

NoWindows == [k \in Keys |-> [minuteKey |-> -1, used |-> 0]]

LimiterTypeOK == now \in Nat /\ rpm \in [Keys -> Window] /\ tpm \in [Keys -> Window]

LimiterInit == now = 0 /\ rpm = NoWindows /\ tpm = NoWindows

(* getOrCreate *)
Current(w) == IF w.minuteKey = MinuteKey(now) THEN w
              ELSE [minuteKey |-> MinuteKey(now), used |-> 0]

(* mutant: a window that is exactly full lets one more through *)
Exceeds_Full(w, amount, limit) == limit # NoLimit /\ Current(w).used > limit

Exceeds(w, amount, limit) == limit # NoLimit /\ Current(w).used + amount > limit

RpmExceeded(k) == Exceeds(rpm[k], 1, Limits[k].rpm)
TpmExceeded(k) == Exceeds(tpm[k], Tokens, Limits[k].tpm)

Limited(k) == RpmExceeded(k) \/ TpmExceeded(k)

(* The windows of a dimension after one of them was looked up and counted. *)
Touched(ws, k, amount, limit) ==
    IF limit = NoLimit THEN ws
    ELSE [ws EXCEPT ![k] = [Current(ws[k]) EXCEPT !.used = @ + amount]]

(* check() that lets a request through: both dimensions are consumed.      *)
Reserve(k) == /\ ~Limited(k)
              /\ rpm' = Touched(rpm, k, 1, Limits[k].rpm)
              /\ tpm' = Touched(tpm, k, Tokens, Limits[k].tpm)

(* mutant: the request is counted before the tokens are looked at *)
TurnAway_CountsRequest(k) ==
    /\ Limited(k)
    /\ rpm' = Touched(rpm, k, IF RpmExceeded(k) THEN 0 ELSE 1, Limits[k].rpm)
    /\ tpm' = IF RpmExceeded(k) THEN tpm ELSE Touched(tpm, k, 0, Limits[k].tpm)

(* check() that does not: nothing is consumed, windows are rolled forward. *)
TurnAway(k) == /\ Limited(k)
               /\ rpm' = Touched(rpm, k, 0, Limits[k].rpm)
               /\ tpm' = IF RpmExceeded(k) THEN tpm ELSE Touched(tpm, k, 0, Limits[k].tpm)

(* Seconds until the window ends, rounded up. *)
RetryAfter(t) ==
    LET left == (MinuteKey(t) + 1) * WindowMs - t
    IN  (left + SecondMs - 1) \div SecondMs
=============================================================================
