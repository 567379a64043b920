------------------------------ MODULE Connector ------------------------------
(***************************************************************************)
(* connector/http-connector.ts: concurrent calls to one vendor, sharing its *)
(* circuit breaker and its token bucket.  Node runs one piece of code at a  *)
(* time, so every action is what happens from one await to the next.        *)
(*                                                                         *)
(*   idle -> (limit ->)* granted -> fetch (-> sleep -> fetch)* -> done      *)
(*   a stream: ... granted -> fetch -> body | errtext -> done               *)
(***************************************************************************)
EXTENDS CircuitBreaker, TokenBucket, FiniteSetsExt

CONSTANTS Calls,         \* the calls that are made, each once
          OptionSets,    \* for each call, the options it may be made with
          MaxAttempts,   \* attempts of a call, the first included
          ExpDelay,      \* baseDelayMs * multiplier^(attempt-1), per attempt
          MaxDelayMs,    \* cap on the delay
          JitterMs,      \* random addition to the delay
          RetryAfters,   \* Retry-After values an upstream may send; 0: none
          TimeoutMs,     \* timeout of one attempt
          Horizon        \* bound: no call starts later than this

Option == {"stream", "bypassCircuit", "disableRetry", "signal"}

ASSUME ConnectorConfig ==
    /\ IsFiniteSet(Calls)
    /\ OptionSets \in [Calls -> SUBSET SUBSET Option]
    /\ MaxAttempts \in Nat \ {0}
    /\ ExpDelay \in [1..MaxAttempts -> Nat]
    /\ MaxDelayMs \in Nat /\ JitterMs \in Nat
    /\ RetryAfters \subseteq Nat /\ 0 \in RetryAfters
    /\ TimeoutMs \in Nat \ {0}
    /\ Horizon \in Nat

VARIABLE call   \* the state of each call

vars == <<now, circuit, streak, records, oddResets, bucket, spent, call>>

Phase == {"idle", "limit", "granted", "fetch", "sleep", "body", "errtext", "done"}

Result == {"none", "success", "parse_error", "http_error", "network_error",
           "circuit_open", "aborted", "streamed", "thrown"}

CallState == [phase: Phase,
              opts: SUBSET Option,
              attempt: 0..MaxAttempts,  \* the attempt under way, or the last one
              due: Nat,                 \* when the pending timer fires
              aborted: BOOLEAN,         \* the caller's signal has fired
              admittedAt: Nat,          \* auxiliary: when the breaker let it in
              result: Result]

TypeOK == /\ BreakerTypeOK
          /\ BucketTypeOK
          /\ call \in [Calls -> CallState]

Init == /\ BreakerInit
        /\ BucketInit
        /\ call = [c \in Calls |->
                     [phase |-> "idle", opts |-> {}, attempt |-> 0, due |-> 0,
                      aborted |-> FALSE, admittedAt |-> 0, result |-> "none"]]

-----------------------------------------------------------------------------
Is(c, option) == option \in call[c].opts

(* Leaves a timed phase: its timer is cleared. *)
Goto(c, phase) == call' = [call EXCEPT ![c].phase = phase, ![c].due = 0]

End(c, result) == call' = [call EXCEPT ![c] =
    [@ EXCEPT !.phase = "done", !.result = result, !.due = 0,
              !.aborted = FALSE, !.admittedAt = 0]]

(* Starts the attempt numbered n, with its timeout. *)
Attempt(c, n) == call' = [call EXCEPT ![c].phase = "fetch", ![c].attempt = n,
                                      ![c].due = now + TimeoutMs]

(* computeBackoff: a Retry-After is capped after the jitter is added, the  *)
(* exponential delay before.                                               *)
Backoff(n, retryAfter, jitter) ==
    IF retryAfter > 0 THEN Least(retryAfter + jitter, MaxDelayMs)
                      ELSE Least(ExpDelay[n], MaxDelayMs) + jitter

NoTime == UNCHANGED now
NoToken == UNCHANGED <<bucket, spent>>
NoVerdict == Untouched

-----------------------------------------------------------------------------
(* call() or stream() up to its first await: the breaker is asked once,    *)
(* then the bucket.  A signal may have fired before the call is made.      *)
Refuse(c, o) ==
    /\ call[c].phase = "idle" /\ now <= Horizon
    /\ "bypassCircuit" \notin o
    /\ ~Allowed(circuit, now)
    /\ Look
    /\ call' = [call EXCEPT ![c].phase = "done", ![c].opts = o,
                            ![c].result = "circuit_open"]
    /\ NoTime /\ NoToken

Admit(c, o, gone) ==
    /\ call[c].phase = "idle" /\ now <= Horizon
    /\ gone => "signal" \in o
    /\ IF "bypassCircuit" \in o THEN Untouched ELSE Allowed(circuit, now) /\ Look
    /\ \/ Take(now) /\ call' = [call EXCEPT ![c] =
             [@ EXCEPT !.phase = "granted", !.opts = o, !.aborted = gone,
                       !.admittedAt = now]]
       \/ MustWait(now) /\ call' = [call EXCEPT ![c] =
             [@ EXCEPT !.phase = "limit", !.opts = o, !.aborted = gone,
                       !.admittedAt = now, !.due = now + WaitMs(now)]]
    /\ NoTime

(* mutant: a waiter that finds the bucket empty again is not woken any more *)
BucketTimer_Once(c) ==
    /\ call[c].phase = "limit" /\ now >= call[c].due
    /\ Take(now) /\ Goto(c, "granted")
    /\ NoTime /\ NoVerdict

(* The timer of take() fires and reserve() is tried again.  Whoever wakes  *)
(* first gets the token: nothing keeps the waiters in order.               *)
BucketTimer(c) ==
    /\ call[c].phase = "limit" /\ now >= call[c].due
    /\ \/ Take(now) /\ Goto(c, "granted")
       \/ MustWait(now) /\ call' = [call EXCEPT ![c].due = now + WaitMs(now)]
    /\ NoTime /\ NoVerdict

(* The continuation after the await: no second look at the breaker. *)
FirstAttempt(c) ==
    /\ call[c].phase = "granted"
    /\ Attempt(c, 1)
    /\ NoTime /\ NoToken /\ NoVerdict

-----------------------------------------------------------------------------
(* How an attempt of call() ends.  An aborted attempt ends in one way.     *)
Answered(c) == call[c].phase = "fetch" /\ ~Is(c, "stream") /\ ~call[c].aborted

CallSucceeds(c) ==
    /\ Answered(c)
    /\ RecordSuccess /\ End(c, "success")
    /\ NoTime /\ NoToken

(* mutant: a body that does not parse leaves the breaker out *)
CallUnparsable_Unrecorded(c) ==
    /\ Answered(c)
    /\ NoVerdict /\ End(c, "parse_error")
    /\ NoTime /\ NoToken

CallUnparsable(c) ==
    /\ Answered(c)
    /\ RecordFailure /\ End(c, "parse_error")
    /\ NoTime /\ NoToken

(* A status that is not retryable counts for the vendor. *)
CallRejected(c) ==
    /\ Answered(c)
    /\ RecordSuccess /\ End(c, "http_error")
    /\ NoTime /\ NoToken

(* mutant: one attempt too many *)
LastAttempt_OffByOne(c) == call[c].attempt > MaxAttempts \/ Is(c, "disableRetry")

LastAttempt(c) == call[c].attempt = MaxAttempts \/ Is(c, "disableRetry")

(* A retryable status, a timeout, a network error or the caller's own      *)
(* abort: they are all treated alike.                                      *)
AttemptFails(c, result, retryAfter, jitter) ==
    /\ call[c].phase = "fetch" /\ ~Is(c, "stream")
    /\ result = "http_error" => ~call[c].aborted
    /\ result = "network_error" => retryAfter = 0
    /\ RecordFailure
    /\ IF LastAttempt(c)
       THEN End(c, result)
       ELSE call' = [call EXCEPT ![c].phase = "sleep",
                       ![c].due = now + Backoff(call[c].attempt, retryAfter, jitter)]
    /\ NoTime /\ NoToken

(* The backoff is over: the next attempt asks neither breaker nor bucket.  *)
Wake(c) ==
    /\ call[c].phase = "sleep" /\ now >= call[c].due
    /\ Attempt(c, call[c].attempt + 1)
    /\ NoTime /\ NoToken /\ NoVerdict

-----------------------------------------------------------------------------
(* stream(): judged by its headers alone. *)
StreamOpens(c) ==
    /\ call[c].phase = "fetch" /\ Is(c, "stream") /\ ~call[c].aborted
    /\ RecordSuccess /\ Goto(c, "body")
    /\ NoTime /\ NoToken

(* A bad status clears the timer and awaits the error text. *)
StreamRefused(c) ==
    /\ call[c].phase = "fetch" /\ Is(c, "stream") /\ ~call[c].aborted
    /\ Goto(c, "errtext")
    /\ NoTime /\ NoToken /\ NoVerdict

StreamErrorText(c) ==
    /\ call[c].phase = "errtext" /\ ~call[c].aborted
    /\ RecordFailure /\ End(c, "http_error")
    /\ NoTime /\ NoToken

(* The fetch or the error text throws: nothing is recorded. *)
StreamThrows(c) ==
    /\ call[c].phase \in {"fetch", "errtext"} /\ Is(c, "stream")
    /\ End(c, "thrown")
    /\ NoTime /\ NoToken /\ NoVerdict

(* The body ends, breaks, times out, or its reader goes away. *)
StreamEnds(c) ==
    /\ call[c].phase = "body"
    /\ End(c, "streamed")
    /\ NoTime /\ NoToken /\ NoVerdict

-----------------------------------------------------------------------------
(* The caller's signal fires.  It ends a wait whose listener saw it; a     *)
(* fetch notices it (AttemptFails, StreamThrows); a wait that began after  *)
(* it does not.                                                            *)
Abort(c) ==
    /\ Is(c, "signal") /\ ~call[c].aborted
    /\ \/ call[c].phase = "limit" /\ End(c, "thrown")
       \/ call[c].phase = "sleep" /\ End(c, "aborted")
       \/ /\ call[c].phase \in {"granted", "fetch", "body", "errtext"}
          /\ call' = [call EXCEPT ![c].aborted = TRUE]
    /\ NoTime /\ NoToken /\ NoVerdict

(* resetCircuit() and getCircuitState(). *)
ResetCircuit == ResetStats /\ NoTime /\ NoToken /\ UNCHANGED call
Query == Look /\ NoTime /\ NoToken /\ UNCHANGED call

(* Timers fire when they are due: time does not pass one that has not. *)
Overdue(c) == \/ call[c].phase = "granted"
              \/ call[c].phase \in {"limit", "fetch", "sleep"} /\ now >= call[c].due

Running(c) == call[c].phase \in {"limit", "granted", "fetch", "sleep"}

Tick == /\ now < Horizon \/ \E c \in Calls : Running(c)
        /\ \A c \in Calls : ~Overdue(c)
        /\ now' = now + 1
        /\ NoToken /\ NoVerdict /\ UNCHANGED call

FetchEnds(c) ==
    \/ CallSucceeds(c) \/ CallUnparsable(c) \/ CallRejected(c)
    \/ \E result \in {"http_error", "network_error"}, r \in RetryAfters,
          j \in 0..JitterMs : AttemptFails(c, result, r, j)
    \/ StreamOpens(c) \/ StreamRefused(c) \/ StreamThrows(c)

Proceed(c) == BucketTimer(c) \/ FirstAttempt(c) \/ Wake(c) \/ FetchEnds(c)

Next == \/ \E c \in Calls : \E o \in OptionSets[c] :
              Refuse(c, o) \/ \E gone \in BOOLEAN : Admit(c, o, gone)
        \/ \E c \in Calls : \/ Proceed(c)
                            \/ StreamErrorText(c) \/ StreamEnds(c) \/ Abort(c)
        \/ ResetCircuit \/ Query \/ Tick

(* Time passes, and timers that are due are run, in any order; an attempt  *)
(* is ended by its timeout at the latest.  Nothing is assumed of the       *)
(* upstream, the reader of a stream or the callers.                        *)
Fairness == WF_vars(Tick \/ \E c \in Calls : Overdue(c) /\ Proceed(c))

Spec == Init /\ [][Next]_vars

FairSpec == Spec /\ Fairness

-----------------------------------------------------------------------------
(* Safety *)

(* While the breaker tells callers "open", nobody who had asked it is      *)
(* under way except those let in before it opened: allow() is asked before *)
(* an await and the answer used after it, so calls let in earlier do run   *)
(* on, retries included, but no new call joins them.                       *)
OpenAdmitsNobody ==
    StateOf(circuit, now) = "open" =>
        \A c \in Calls : Running(c) /\ ~Is(c, "bypassCircuit")
                           => call[c].admittedAt <= circuit.openedAt

(* A closed breaker is always short of its threshold, whatever openings,   *)
(* trials and resets came before (a failed trial leaves the old failures   *)
(* in place, and the success that closes the breaker must drop them).      *)
ClosedIsBelowThreshold ==
    StateOf(circuit, now) = "closed" =>
        Len(circuit.recentFailures) < FailureThreshold

(* The breaker trips from closed only on FailureThreshold failures inside  *)
(* the window with no success of any call recorded among them.             *)
TripIsEarned ==
    [][(StateOf(circuit, now) = "closed" /\ StateOf(circuit', now') = "open")
         => /\ Len(streak') = FailureThreshold
            /\ \A i \in 1..Len(streak') : now - streak'[i] <= WindowMs]_vars

(* How many outcomes a call has owed the breaker so far: one per finished  *)
(* attempt of call(), and one per stream whose upstream answered.          *)
Owed(c) ==
    IF Is(c, "stream")
    THEN IF \/ call[c].phase = "body"
            \/ call[c].result \in {"streamed", "http_error"} THEN 1 ELSE 0
    ELSE IF call[c].phase = "fetch" THEN call[c].attempt - 1 ELSE call[c].attempt

(* Every outcome is recorded exactly once, however calls, retries, aborts  *)
(* and resets interleave; an attempt is never lost or counted twice.       *)
EveryOutcomeRecordedOnce == records = MapThenSumSet(Owed, Calls)

(* The bucket never gives out more than its capacity plus what has been    *)
(* refilled since it was made, over any run of waits and retried reserves. *)
BurstBound == spent <= Capacity + RefillRate * now

(* token-bucket.ts:1-3 says the bucket is there "to avoid bursting beyond  *)
(* what the upstream allows": the requests sent stay within its rate.      *)
VendorRateRespected ==
    TokenUnit * MapThenSumSet(LAMBDA c : call[c].attempt, Calls)
        <= Capacity + RefillRate * now

(* Liveness: no call is left waiting for ever, for a token, for its turn,  *)
(* for a backoff or for an upstream that is silent: the connector comes to *)
(* rest again and again, every call ended or handed over to a stream whose *)
(* pace is not the connector's.                                            *)
CallsSettle == []<>(\A c \in Calls : ~Running(c))
=============================================================================
