--------------------------- MODULE ConnectorProofs ---------------------------
(***************************************************************************)
(* Proofs about Connector, for every set of calls, every configuration and *)
(* every horizon.                                                          *)
(***************************************************************************)
EXTENDS Connector, FiniteSetTheorems, TLAPS

-----------------------------------------------------------------------------
(* What the operators of the breaker return. *)

LEMMA InWindowType ==
    ASSUME NEW f \in Seq(Nat), NEW t \in Nat
    PROVE  InWindow(f, t) \in Seq(Nat)
<1> DEFINE expired == {i \in 1..Len(f) : t - f[i] > WindowMs}
<1>1. Len(f) \in Nat
  OBVIOUS
<1>2. IsFiniteSet(1..Len(f)) /\ Cardinality(1..Len(f)) = Len(f)
  <2>1. 1 \in Int /\ Len(f) \in Int
    BY <1>1
  <2>2. /\ IsFiniteSet(1..Len(f))
        /\ Cardinality(1..Len(f)) = IF 1 > Len(f) THEN 0 ELSE Len(f) - 1 + 1
    BY <2>1, FS_Interval, Zenon
  <2> QED BY <1>1, <2>2
<1>3. Cardinality(expired) \in Nat /\ Cardinality(expired) <= Len(f)
  <2>1. expired \in SUBSET (1..Len(f))
    OBVIOUS
  <2>2. IsFiniteSet(expired) /\ Cardinality(expired) <= Cardinality(1..Len(f))
    BY <1>2, <2>1, FS_Subset
  <2> QED BY <1>2, <2>2, FS_CardinalityType
<1> HIDE DEF expired
<1>4. SubSeq(f, Cardinality(expired) + 1, Len(f)) \in Seq(Nat)
  BY <1>1, <1>3
<1> QED BY <1>4 DEF InWindow, expired

LEMMA MaybeTransitionType ==
    ASSUME NEW s \in CircuitStats, NEW t \in Nat
    PROVE  MaybeTransition(s, t) \in CircuitStats
BY BreakerConfig DEF MaybeTransition, CircuitStats, CircuitState

LEMMA AfterSuccessType ==
    ASSUME NEW s \in CircuitStats, NEW t \in Nat
    PROVE  AfterSuccess(s, t) \in CircuitStats
<1> DEFINE m == MaybeTransition(s, t)
<1>1. m \in CircuitStats
  BY MaybeTransitionType
<1> HIDE DEF m
<1>2. <<>> \in Seq(Nat)
  OBVIOUS
<1>3. Closed(m) \in CircuitStats /\ Interrupted(m) \in CircuitStats
  BY <1>1, <1>2 DEF CircuitStats, CircuitState, Closed, Interrupted
<1>4. [m EXCEPT !.recentSuccesses = @ + 1] \in CircuitStats
  <2>1. m.recentSuccesses + 1 \in Nat
    BY <1>1 DEF CircuitStats
  <2> QED BY <1>1, <2>1 DEF CircuitStats
<1>5. m.state \in CircuitState
  BY <1>1 DEF CircuitStats
<1> QED BY <1>1, <1>3, <1>4, <1>5 DEF AfterSuccess, m, CircuitState

LEMMA AfterFailureType ==
    ASSUME NEW s \in CircuitStats, NEW t \in Nat
    PROVE  AfterFailure(s, t) \in CircuitStats
<1> DEFINE m == MaybeTransition(s, t)
           recent == Append(InWindow(m.recentFailures, t), t)
<1>1. m \in CircuitStats
  BY MaybeTransitionType
<1>2. recent \in Seq(Nat)
  <2>1. m.recentFailures \in Seq(Nat)
    BY <1>1 DEF CircuitStats
  <2> QED BY <2>1, InWindowType
<1>3. m.state \in CircuitState
  BY <1>1 DEF CircuitStats
<1> HIDE DEF m, recent
<1>4. /\ [m EXCEPT !.state = "open", !.openedAt = t, !.recentSuccesses = 0] \in CircuitStats
      /\ [m EXCEPT !.state = "open", !.openedAt = t, !.recentFailures = recent] \in CircuitStats
      /\ [m EXCEPT !.recentFailures = recent] \in CircuitStats
  BY <1>1, <1>2 DEF CircuitStats, CircuitState
<1> QED BY <1>1, <1>3, <1>4 DEF AfterFailure, m, recent, CircuitState

LEMMA NewestType ==
    ASSUME NEW s \in Seq(Nat), NEW n \in Nat
    PROVE  Newest(s, n) \in Seq(Nat)
<1>1. CASE Len(s) <= n
  BY <1>1 DEF Newest
<1>2. CASE Len(s) > n
  <2>1. SubSeq(s, Len(s) - n + 1, Len(s)) \in Seq(Nat)
    BY <1>2
  <2> QED BY <1>2, <2>1 DEF Newest
<1> QED BY <1>1, <1>2

-----------------------------------------------------------------------------
(* What the operators of the bucket return. *)

LEMMA RefillType ==
    ASSUME NEW b \in Bucket, NEW t \in Nat
    PROVE  /\ Refill(b, t) \in Bucket
           /\ Refill(b, t).lastRefillMs <= t \/ Refill(b, t) = b
<1>1. CASE t <= b.lastRefillMs
  BY <1>1 DEF Refill
<1>2. CASE ~(t <= b.lastRefillMs)
  <2> DEFINE filled == b.tokens + (t - b.lastRefillMs) * RefillRate
  <2>1. b.tokens \in 0..Capacity /\ b.lastRefillMs \in Nat
    BY DEF Bucket
  <2>2. t - b.lastRefillMs \in Nat /\ RefillRate \in Nat
    BY <1>2, <2>1, BucketConfig
  <2>3. filled \in Nat
    BY <2>1, <2>2, BucketConfig
  <2> HIDE DEF filled
  <2>4. Least(Capacity, filled) \in 0..Capacity
    BY <2>3, BucketConfig DEF Least
  <2>5. Refill(b, t) = [tokens |-> Least(Capacity, filled), lastRefillMs |-> t]
    BY <1>2 DEF Refill, filled
  <2> QED BY <2>4, <2>5 DEF Bucket
<1> QED BY <1>1, <1>2

LEMMA TakeType ==
    ASSUME BucketTypeOK, NEW t \in Nat, Take(t)
    PROVE  BucketTypeOK'
<1>1. Refill(bucket, t) \in Bucket
  BY RefillType DEF BucketTypeOK
<1>2. Refill(bucket, t).tokens - TokenUnit \in 0..Capacity
  BY <1>1, BucketConfig DEF Take, Bucket
<1>3. bucket' \in Bucket
  BY <1>1, <1>2 DEF Take, Bucket
<1>4. spent' \in Nat
  BY BucketConfig DEF Take, BucketTypeOK
<1> QED BY <1>3, <1>4 DEF BucketTypeOK

LEMMA MustWaitType ==
    ASSUME BucketTypeOK, NEW t \in Nat, MustWait(t)
    PROVE  BucketTypeOK' /\ WaitMs(t) \in Nat
<1>1. Refill(bucket, t) \in Bucket
  BY RefillType DEF BucketTypeOK
<1>2. BucketTypeOK'
  BY <1>1 DEF MustWait, BucketTypeOK
<1>3. WaitMs(t) \in Nat
  <2> DEFINE deficit == TokenUnit - Refill(bucket, t).tokens
  <2>1. deficit \in Nat
    BY <1>1, BucketConfig DEF MustWait, Bucket
  <2> HIDE DEF deficit
  <2>2. (deficit + RefillRate - 1) \div RefillRate \in Nat
    BY <2>1, BucketConfig
  <2> QED BY <2>2 DEF WaitMs, deficit
<1> QED BY <1>2, <1>3

LEMMA BackoffType ==
    ASSUME NEW n \in 1..MaxAttempts, NEW r \in Nat, NEW j \in Nat
    PROVE  Backoff(n, r, j) \in Nat
<1>1. ExpDelay[n] \in Nat /\ MaxDelayMs \in Nat
  BY ConnectorConfig
<1> QED BY <1>1 DEF Backoff, Least

-----------------------------------------------------------------------------
(* Type correctness. *)

(* The breaker's methods keep the types of its statistics. *)
LEMMA BreakerMethodsType ==
    ASSUME BreakerTypeOK, UNCHANGED now,
           Look \/ RecordSuccess \/ RecordFailure \/ ResetStats \/ Untouched
    PROVE  BreakerTypeOK'
<1>1. now' \in Nat
  BY DEF BreakerTypeOK
<1>2. CASE Look
  BY <1>1, <1>2, MaybeTransitionType DEF Look, BreakerTypeOK
<1>3. CASE RecordSuccess
  BY <1>1, <1>3, AfterSuccessType DEF RecordSuccess, BreakerTypeOK
<1>4. CASE RecordFailure
  <2>1. Append(streak, now) \in Seq(Nat)
    BY DEF BreakerTypeOK
  <2>2. streak' \in Seq(Nat)
    BY <1>4, <2>1, NewestType, BreakerConfig DEF RecordFailure
  <2> QED BY <1>1, <1>4, <2>2, AfterFailureType DEF RecordFailure, BreakerTypeOK
<1>5. CASE ResetStats
  <2>1. Fresh \in CircuitStats
    BY DEF Fresh, CircuitStats, CircuitState
  <2> QED BY <1>1, <1>5, <2>1 DEF ResetStats, BreakerTypeOK
<1>6. CASE Untouched
  BY <1>1, <1>6 DEF Untouched, BreakerTypeOK
<1> QED BY <1>2, <1>3, <1>4, <1>5, <1>6

(* TypeOK is not inductive: that a backoff leads to one of the attempts    *)
(* there are, and that a delay exists for it, needs the count of attempts  *)
(* to agree with the phase.                                                *)
CountedCall ==
    {r \in CallState : /\ r.phase = "fetch" => r.attempt \in 1..MaxAttempts
                       /\ r.phase = "sleep" => r.attempt \in 1..(MaxAttempts - 1)}

TypeInv == BreakerTypeOK /\ BucketTypeOK /\ call \in [Calls -> CountedCall]

(* What a step may write into the state of one call. *)
LEMMA CallUpdates ==
    ASSUME TypeInv, NEW c \in Calls
    PROVE  /\ \A p \in Phase \ {"fetch", "sleep"} :
                 Goto(c, p) => call' \in [Calls -> CountedCall]
           /\ \A r \in Result : End(c, r) => call' \in [Calls -> CountedCall]
           /\ \A n \in 1..MaxAttempts :
                 Attempt(c, n) => call' \in [Calls -> CountedCall]
<1>1. call \in [Calls -> CountedCall] /\ call[c] \in CallState
  BY DEF TypeInv, CountedCall
<1>2. ASSUME NEW p \in Phase \ {"fetch", "sleep"}, Goto(c, p)
      PROVE  call' \in [Calls -> CountedCall]
  <2>1. [call[c] EXCEPT !.phase = p, !.due = 0] \in CountedCall
    BY <1>1 DEF CallState, CountedCall
  <2> QED BY <1>1, <1>2, <2>1 DEF Goto
<1>3. ASSUME NEW r \in Result, End(c, r) PROVE call' \in [Calls -> CountedCall]
  <2>1. [call[c] EXCEPT !.phase = "done", !.result = r, !.due = 0,
                        !.aborted = FALSE, !.admittedAt = 0] \in CountedCall
    BY <1>1 DEF CallState, CountedCall, Phase
  <2> QED BY <1>1, <1>3, <2>1 DEF End
<1>4. ASSUME NEW n \in 1..MaxAttempts, Attempt(c, n)
      PROVE  call' \in [Calls -> CountedCall]
  <2>1. now + TimeoutMs \in Nat
    BY ConnectorConfig DEF TypeInv, BreakerTypeOK
  <2>2. n \in 0..MaxAttempts
    BY ConnectorConfig
  <2>3. [call[c] EXCEPT !.phase = "fetch", !.attempt = n, !.due = now + TimeoutMs]
          \in CountedCall
    BY <1>1, <2>1, <2>2 DEF CallState, CountedCall, Phase
  <2> QED BY <1>1, <1>4, <2>3 DEF Attempt
<1> QED BY <1>2, <1>3, <1>4

LEMMA TypeInit == Init => TypeInv
<1> SUFFICES ASSUME Init PROVE TypeInv
  OBVIOUS
<1>1. BreakerTypeOK
  <2>1. oddResets \in BOOLEAN
    BY Zenon DEF Init, BreakerInit
  <2>2. now \in Nat /\ circuit \in CircuitStats /\ streak \in Seq(Nat) /\ records \in Nat
    BY DEF Init, BreakerInit, Fresh, CircuitStats, CircuitState
  <2> QED BY <2>1, <2>2 DEF BreakerTypeOK
<1>2. BucketTypeOK
  BY BucketConfig DEF Init, BucketInit, BucketTypeOK, Bucket
<1>3. call \in [Calls -> CountedCall]
  BY ConnectorConfig DEF Init, CallState, CountedCall, Phase, Result
<1> QED BY <1>1, <1>2, <1>3 DEF TypeInv

LEMMA TypeStep == TypeInv /\ [Next]_vars => TypeInv'
<1> SUFFICES ASSUME TypeInv, [Next]_vars PROVE TypeInv'
  OBVIOUS
<1> USE DEF NoTime, NoToken, NoVerdict
<1>0. /\ BreakerTypeOK /\ BucketTypeOK /\ now \in Nat
      /\ call \in [Calls -> CountedCall]
      /\ \A c \in Calls : call[c] \in CallState
      /\ UNCHANGED <<bucket, spent>> => BucketTypeOK'
      /\ UNCHANGED call => call' \in [Calls -> CountedCall]
  BY DEF TypeInv, CountedCall, BreakerTypeOK, BucketTypeOK
<1>1. ASSUME NEW c \in Calls, NEW o \in OptionSets[c], Refuse(c, o) PROVE TypeInv'
  <2>1. BreakerTypeOK' /\ BucketTypeOK'
    BY <1>0, <1>1, BreakerMethodsType DEF Refuse
  <2>2. o \in SUBSET Option
    BY ConnectorConfig
  <2>3. [call[c] EXCEPT !.phase = "done", !.opts = o, !.result = "circuit_open"]
          \in CountedCall
    BY <1>0, <2>2 DEF CallState, CountedCall, Phase, Result
  <2> QED BY <1>0, <1>1, <2>1, <2>3 DEF Refuse, TypeInv
<1>2. ASSUME NEW c \in Calls, NEW o \in OptionSets[c], NEW gone \in BOOLEAN,
             Admit(c, o, gone)
      PROVE  TypeInv'
  <2>1. BreakerTypeOK'
    BY <1>0, <1>2, BreakerMethodsType DEF Admit
  <2>2. BucketTypeOK' /\ (MustWait(now) => now + WaitMs(now) \in Nat)
    BY <1>0, <1>2, TakeType, MustWaitType DEF Admit
  <2>3. o \in SUBSET Option
    BY ConnectorConfig
  <2>4. [call[c] EXCEPT !.phase = "granted", !.opts = o, !.aborted = gone,
                        !.admittedAt = now] \in CountedCall
    BY <1>0, <2>3 DEF CallState, CountedCall, Phase
  <2>5. MustWait(now) =>
          [call[c] EXCEPT !.phase = "limit", !.opts = o, !.aborted = gone,
                          !.admittedAt = now, !.due = now + WaitMs(now)] \in CountedCall
    BY <1>0, <2>2, <2>3 DEF CallState, CountedCall, Phase
  <2>6. call' \in [Calls -> CountedCall]
    BY <1>0, <1>2, <2>4, <2>5 DEF Admit
  <2> QED BY <2>1, <2>2, <2>6 DEF TypeInv
<1>3. ASSUME NEW c \in Calls, BucketTimer(c) PROVE TypeInv'
  <2>1. BreakerTypeOK'
    BY <1>0, <1>3, BreakerMethodsType DEF BucketTimer
  <2>2. BucketTypeOK' /\ (MustWait(now) => now + WaitMs(now) \in Nat)
    BY <1>0, <1>3, TakeType, MustWaitType DEF BucketTimer
  <2>3. CASE Take(now) /\ Goto(c, "granted")
    BY <2>1, <2>2, <2>3, CallUpdates DEF TypeInv, Phase
  <2>4. CASE MustWait(now) /\ call' = [call EXCEPT ![c].due = now + WaitMs(now)]
    <3>1. [call[c] EXCEPT !.due = now + WaitMs(now)] \in CountedCall
      BY <1>0, <2>2, <2>4 DEF CallState, CountedCall
    <3> QED BY <1>0, <2>1, <2>2, <2>4, <3>1 DEF TypeInv
  <2> QED BY <1>3, <2>3, <2>4 DEF BucketTimer
<1>4. ASSUME NEW c \in Calls, FirstAttempt(c) PROVE TypeInv'
  <2>1. BreakerTypeOK' /\ BucketTypeOK'
    BY <1>0, <1>4, BreakerMethodsType DEF FirstAttempt
  <2>2. call' \in [Calls -> CountedCall]
    BY <1>4, CallUpdates, ConnectorConfig DEF FirstAttempt
  <2> QED BY <2>1, <2>2 DEF TypeInv
<1>5. ASSUME NEW c \in Calls, Wake(c) PROVE TypeInv'
  <2>1. BreakerTypeOK' /\ BucketTypeOK'
    BY <1>0, <1>5, BreakerMethodsType DEF Wake
  <2>2. call[c].attempt + 1 \in 1..MaxAttempts
    BY <1>0, <1>5, ConnectorConfig DEF Wake, CountedCall
  <2>3. call' \in [Calls -> CountedCall]
    BY <1>5, <2>2, CallUpdates DEF Wake
  <2> QED BY <2>1, <2>3 DEF TypeInv
<1>6. ASSUME NEW c \in Calls,
             CallSucceeds(c) \/ CallUnparsable(c) \/ CallRejected(c)
      PROVE  TypeInv'
  <2>1. BreakerTypeOK' /\ BucketTypeOK'
    BY <1>0, <1>6, BreakerMethodsType DEF CallSucceeds, CallUnparsable, CallRejected
  <2>2. call' \in [Calls -> CountedCall]
    BY <1>6, CallUpdates DEF CallSucceeds, CallUnparsable, CallRejected, Result
  <2> QED BY <2>1, <2>2 DEF TypeInv
<1>7. ASSUME NEW c \in Calls, NEW res \in {"http_error", "network_error"},
             NEW r \in RetryAfters, NEW j \in 0..JitterMs, AttemptFails(c, res, r, j)
      PROVE  TypeInv'
  <2>1. BreakerTypeOK' /\ BucketTypeOK'
    BY <1>0, <1>7, BreakerMethodsType DEF AttemptFails
  <2>2. CASE LastAttempt(c)
    <3>1. End(c, res)
      BY <1>7, <2>2 DEF AttemptFails
    <3> QED BY <2>1, <3>1, CallUpdates DEF TypeInv, Result
  <2>3. CASE ~LastAttempt(c)
    <3> DEFINE delay == Backoff(call[c].attempt, r, j)
    <3>1. call[c].attempt \in 1..(MaxAttempts - 1)
      BY <1>0, <1>7, <2>3, ConnectorConfig DEF AttemptFails, CountedCall, LastAttempt
    <3>2. now + delay \in Nat
      <4>1. call[c].attempt \in 1..MaxAttempts
        BY <3>1, ConnectorConfig
      <4>2. r \in Nat /\ j \in Nat
        BY ConnectorConfig
      <4>3. delay \in Nat
        BY <4>1, <4>2, BackoffType
      <4> QED BY <1>0, <4>3
    <3>3. call' = [call EXCEPT ![c].phase = "sleep", ![c].due = now + delay]
      BY <1>7, <2>3 DEF AttemptFails
    <3> HIDE DEF delay
    <3>4. [call[c] EXCEPT !.phase = "sleep", !.due = now + delay] \in CountedCall
      BY <1>0, <3>1, <3>2 DEF CallState, CountedCall, Phase
    <3> QED BY <1>0, <2>1, <3>3, <3>4 DEF TypeInv
  <2> QED BY <2>2, <2>3
<1>8. ASSUME NEW c \in Calls,
             StreamOpens(c) \/ StreamRefused(c) \/ StreamErrorText(c)
               \/ StreamThrows(c) \/ StreamEnds(c)
      PROVE  TypeInv'
  <2> USE DEF StreamOpens, StreamRefused, StreamErrorText, StreamThrows, StreamEnds
  <2>1. BreakerTypeOK' /\ BucketTypeOK'
    BY <1>0, <1>8, BreakerMethodsType
  <2>2. call' \in [Calls -> CountedCall]
    BY <1>8, CallUpdates DEF Phase, Result
  <2> QED BY <2>1, <2>2 DEF TypeInv
<1>9. ASSUME NEW c \in Calls, Abort(c) PROVE TypeInv'
  <2>1. BreakerTypeOK' /\ BucketTypeOK'
    BY <1>0, <1>9, BreakerMethodsType DEF Abort
  <2>2. [call[c] EXCEPT !.aborted = TRUE] \in CountedCall
    BY <1>0 DEF CallState, CountedCall
  <2>3. call' \in [Calls -> CountedCall]
    BY <1>0, <1>9, <2>2, CallUpdates DEF Abort, Result
  <2> QED BY <2>1, <2>3 DEF TypeInv
<1>10. CASE ResetCircuit \/ Query
  <2>1. BreakerTypeOK' /\ BucketTypeOK'
    BY <1>0, <1>10, BreakerMethodsType DEF ResetCircuit, Query
  <2> QED BY <1>0, <1>10, <2>1 DEF ResetCircuit, Query, TypeInv
<1>11. CASE Tick
  BY <1>0, <1>11 DEF Tick, TypeInv, BreakerTypeOK, Untouched
<1>12. CASE UNCHANGED vars
  BY <1>0, <1>12 DEF vars, TypeInv, BreakerTypeOK
<1> QED
  BY <1>1, <1>2, <1>3, <1>4, <1>5, <1>6, <1>7, <1>8, <1>9, <1>10, <1>11, <1>12
  DEF Next, Proceed, FetchEnds

LEMMA TypeInvariance == Spec => []TypeInv
BY TypeInit, TypeStep, PTL DEF Spec

(* Every variable keeps its type, the arithmetic of waits and delays       *)
(* included, and no call is ever at an attempt beyond MaxAttempts.         *)
THEOREM TypeCorrect == Spec => []TypeOK
<1>1. TypeInv => TypeOK
  BY DEF TypeInv, TypeOK, CountedCall
<1> QED BY <1>1, TypeInvariance, PTL

-----------------------------------------------------------------------------
(* The bucket. *)

(* BurstBound is inductive together with what is left in the bucket, up to *)
(* the last refill instead of the present.                                 *)
BucketInv == /\ bucket.lastRefillMs <= now
             /\ spent + bucket.tokens <= Capacity + RefillRate * bucket.lastRefillMs

LEMMA RefillBound ==
    ASSUME NEW b \in Bucket, NEW t \in Nat, NEW s \in Nat,
           s + b.tokens <= Capacity + RefillRate * b.lastRefillMs,
           b.lastRefillMs <= t
    PROVE  /\ Refill(b, t).lastRefillMs <= t
           /\ s + Refill(b, t).tokens <= Capacity + RefillRate * Refill(b, t).lastRefillMs
<1>1. CASE t <= b.lastRefillMs
  BY <1>1 DEF Refill
<1>2. CASE ~(t <= b.lastRefillMs)
  <2> DEFINE gain == (t - b.lastRefillMs) * RefillRate
  <2>1. /\ b.tokens \in Nat /\ b.lastRefillMs \in Nat
        /\ RefillRate \in Nat /\ Capacity \in Nat
    BY BucketConfig DEF Bucket
  <2>2. gain \in Int /\ RefillRate * b.lastRefillMs + gain = RefillRate * t
    BY <2>1
  <2>3. Refill(b, t) = [tokens |-> Least(Capacity, b.tokens + gain), lastRefillMs |-> t]
    BY <1>2 DEF Refill
  <2>4. RefillRate * b.lastRefillMs \in Int /\ RefillRate * t \in Int
    BY <2>1
  <2> HIDE DEF gain
  <2>5. Least(Capacity, b.tokens + gain) <= b.tokens + gain
    BY <2>1, <2>2 DEF Least
  <2>6. Least(Capacity, b.tokens + gain) \in Int
    BY <2>1, <2>2 DEF Least
  <2>7. s + Least(Capacity, b.tokens + gain) <= Capacity + RefillRate * t
    BY <2>1, <2>2, <2>4, <2>5, <2>6
  <2> QED BY <2>3, <2>7
<1> QED BY <1>1, <1>2

LEMMA BucketInvStep == TypeInv /\ BucketInv /\ [Next]_vars => BucketInv'
<1> SUFFICES ASSUME TypeInv, BucketInv, [Next]_vars PROVE BucketInv'
  OBVIOUS
<1>1. bucket \in Bucket /\ spent \in Nat /\ now \in Nat
  BY DEF TypeInv, BucketTypeOK, BreakerTypeOK
<1>2. ASSUME UNCHANGED now, Take(now) \/ MustWait(now) PROVE BucketInv'
  <2> DEFINE b == Refill(bucket, now)
  <2>1. b \in Bucket
    BY <1>1, RefillType
  <2>2. /\ b.lastRefillMs <= now
        /\ spent + b.tokens <= Capacity + RefillRate * b.lastRefillMs
    BY <1>1, RefillBound DEF BucketInv
  <2>3. CASE Take(now)
    <3>1. /\ bucket'.tokens = b.tokens - TokenUnit
          /\ bucket'.lastRefillMs = b.lastRefillMs
          /\ spent' = spent + TokenUnit
      BY <2>1, <2>3 DEF Take, Bucket
    <3>2. spent' + bucket'.tokens = spent + b.tokens
      BY <1>1, <2>1, <3>1, BucketConfig DEF Bucket
    <3> HIDE DEF b
    <3> QED BY <1>2, <2>2, <3>1, <3>2 DEF BucketInv
  <2>4. CASE MustWait(now)
    BY <1>2, <2>2, <2>4 DEF MustWait, BucketInv
  <2> QED BY <1>2, <2>3, <2>4
<1>3. ASSUME UNCHANGED <<now, bucket, spent>> PROVE BucketInv'
  BY <1>3 DEF BucketInv
<1>4. CASE Tick
  BY <1>1, <1>4 DEF Tick, NoToken, BucketInv, Bucket
<1>5. CASE Next /\ ~Tick
  <2>1. \/ UNCHANGED now /\ (Take(now) \/ MustWait(now))
        \/ UNCHANGED <<now, bucket, spent>>
    BY <1>5 DEF Next, Proceed, FetchEnds, Refuse, Admit, BucketTimer, FirstAttempt,
       CallSucceeds, CallUnparsable, CallRejected, AttemptFails, Wake, StreamOpens,
       StreamRefused, StreamErrorText, StreamThrows, StreamEnds, Abort,
       ResetCircuit, Query, NoTime, NoToken
  <2> QED BY <1>2, <1>3, <2>1
<1>6. CASE UNCHANGED vars
  BY <1>3, <1>6 DEF vars
<1> QED BY <1>4, <1>5, <1>6

(* The vendor's bucket never gives out more tokens than its capacity and   *)
(* what was refilled, whichever calls wait, wake in any order or give up.  *)
THEOREM BurstBounded == Spec => []BurstBound
<1>1. Init => BucketInv
  BY BucketConfig DEF Init, BreakerInit, BucketInit, BucketInv
<1>2. TypeInv /\ BucketInv => BurstBound
  <2> SUFFICES ASSUME TypeInv, BucketInv PROVE BurstBound
    OBVIOUS
  <2>1. /\ bucket.tokens \in Nat /\ bucket.lastRefillMs \in Nat
        /\ spent \in Nat /\ now \in Nat
        /\ RefillRate \in Nat /\ Capacity \in Nat
    BY BucketConfig DEF TypeInv, BucketTypeOK, BreakerTypeOK, Bucket
  <2>2. RefillRate * bucket.lastRefillMs <= RefillRate * now
    BY <2>1 DEF BucketInv
  <2>3. RefillRate * bucket.lastRefillMs \in Nat /\ RefillRate * now \in Nat
    BY <2>1
  <2> QED BY <2>1, <2>2, <2>3 DEF BucketInv, BurstBound
<1> QED BY <1>1, <1>2, BucketInvStep, TypeInvariance, PTL DEF Spec

-----------------------------------------------------------------------------
(* The breaker. *)

(* Whatever the connector does is a method of the breaker or leaves it be. *)
LEMMA StepsUseMethods == [Next]_vars => [BreakerNext]_breakerVars
<1> SUFFICES ASSUME [Next]_vars PROVE [BreakerNext]_breakerVars
  OBVIOUS
<1>1. CASE Next
  <2>1. \/ UNCHANGED now /\ (Look \/ RecordSuccess \/ RecordFailure \/ ResetStats)
        \/ UNCHANGED now /\ Untouched
        \/ now' = now + 1 /\ Untouched
    BY <1>1
    DEF Next, Proceed, FetchEnds, Refuse, Admit, BucketTimer, FirstAttempt,
        CallSucceeds, CallUnparsable, CallRejected, AttemptFails, Wake, StreamOpens,
        StreamRefused, StreamErrorText, StreamThrows, StreamEnds, Abort,
        ResetCircuit, Query, Tick, NoTime, NoVerdict
  <2> QED BY <2>1 DEF BreakerNext, breakerVars, Untouched
<1>2. CASE UNCHANGED vars
  BY <1>2 DEF vars, breakerVars
<1> QED BY <1>1, <1>2

(* An opening cannot lie in the future. *)
OpenedInThePast == circuit.openedAt <= now

(* What a method can make of the answer "open": it was given already, for  *)
(* the same opening, or the breaker opened at this instant.                *)
LEMMA OpenAfterMethod ==
    ASSUME BreakerTypeOK, OpenedInThePast, [BreakerNext]_breakerVars
    PROVE  /\ OpenedInThePast'
           /\ StateOf(circuit, now)' = "open" =>
                 \/ StateOf(circuit, now) = "open" /\ UNCHANGED <<circuit>>
                 \/ circuit'.openedAt = now' /\ UNCHANGED now
<1> USE BreakerConfig
    DEF BreakerTypeOK, OpenedInThePast, StateOf, MaybeTransition, CircuitStats,
        CircuitState
<1>1. CASE Look /\ UNCHANGED now
  BY <1>1 DEF Look
<1>2. CASE RecordSuccess /\ UNCHANGED now
  BY <1>2 DEF RecordSuccess, AfterSuccess, Closed, Interrupted
<1>3. CASE RecordFailure /\ UNCHANGED now
  <2>1. InWindow(MaybeTransition(circuit, now).recentFailures, now) \in Seq(Nat)
    BY InWindowType, MaybeTransitionType
  <2> QED BY <1>3, <2>1 DEF RecordFailure, AfterFailure
<1>4. CASE ResetStats /\ UNCHANGED now
  BY <1>4 DEF ResetStats, Fresh
<1>5. CASE now' = now + 1 /\ Untouched
  BY <1>5 DEF Untouched
<1>6. CASE UNCHANGED breakerVars
  BY <1>6 DEF breakerVars
<1> QED BY <1>1, <1>2, <1>3, <1>4, <1>5, <1>6 DEF BreakerNext

LEMMA ClosedStep ==
    ASSUME BreakerTypeOK, ClosedIsBelowThreshold, [BreakerNext]_breakerVars
    PROVE  ClosedIsBelowThreshold'
<1> USE BreakerConfig
    DEF BreakerTypeOK, ClosedIsBelowThreshold, StateOf, MaybeTransition,
        CircuitStats, CircuitState
<1>1. CASE Look /\ UNCHANGED now
  BY <1>1 DEF Look
<1>2. CASE RecordSuccess /\ UNCHANGED now
  BY <1>2 DEF RecordSuccess, AfterSuccess, Closed, Interrupted
<1>3. CASE RecordFailure /\ UNCHANGED now
  <2>1. InWindow(MaybeTransition(circuit, now).recentFailures, now) \in Seq(Nat)
    BY InWindowType, MaybeTransitionType
  <2> QED BY <1>3, <2>1 DEF RecordFailure, AfterFailure
<1>4. CASE ResetStats /\ UNCHANGED now
  BY <1>4 DEF ResetStats, Fresh
<1>5. CASE now' = now + 1 /\ Untouched
  BY <1>5 DEF Untouched
<1>6. CASE UNCHANGED breakerVars
  BY <1>6 DEF breakerVars
<1> QED BY <1>1, <1>2, <1>3, <1>4, <1>5, <1>6 DEF BreakerNext

(* A closed breaker is short of its threshold in every reachable state.    *)
THEOREM ClosedBelowThreshold == Spec => []ClosedIsBelowThreshold
<1>1. Init => ClosedIsBelowThreshold
  BY BreakerConfig
  DEF Init, BreakerInit, Fresh, ClosedIsBelowThreshold, StateOf, MaybeTransition
<1>2. TypeInv /\ ClosedIsBelowThreshold /\ [Next]_vars => ClosedIsBelowThreshold'
  BY StepsUseMethods, ClosedStep DEF TypeInv
<1> QED BY <1>1, <1>2, TypeInvariance, PTL DEF Spec

(* OpenAdmitsNobody, made inductive: nobody was let in in the future, and  *)
(* no opening is in the future either.                                     *)
AdmissionInv ==
    /\ OpenedInThePast
    /\ \A c \in Calls : call[c].admittedAt <= now
    /\ OpenAdmitsNobody

LEMMA AdmissionStep == TypeInv /\ AdmissionInv /\ [Next]_vars => AdmissionInv'
<1> SUFFICES ASSUME TypeInv, AdmissionInv, [Next]_vars PROVE AdmissionInv'
  OBVIOUS
<1>1. /\ BreakerTypeOK /\ now \in Nat /\ now' \in Nat /\ now <= now'
      /\ \A c \in Calls : call[c] \in CallState
      /\ call \in [Calls -> CountedCall]
  BY StepsUseMethods
  DEF TypeInv, CountedCall, BreakerTypeOK, BreakerNext, breakerVars
<1>2. /\ OpenedInThePast'
      /\ StateOf(circuit, now)' = "open" =>
             \/ StateOf(circuit, now) = "open" /\ UNCHANGED <<circuit>>
             \/ circuit'.openedAt = now' /\ UNCHANGED now
  BY <1>1, StepsUseMethods, OpenAfterMethod DEF AdmissionInv
(* Most steps let nobody in. *)
<1>3. ASSUME \A c \in Calls :
               /\ \/ call'[c].admittedAt = call[c].admittedAt
                  \/ call'[c].admittedAt = 0
               /\ Running(c)' => /\ Running(c)
                                 /\ call'[c].admittedAt = call[c].admittedAt
                                 /\ call'[c].opts = call[c].opts
      PROVE  AdmissionInv'
  <2>1. \A c \in Calls : call'[c].admittedAt <= now'
    BY <1>1, <1>3 DEF AdmissionInv, CallState
  <2>2. ASSUME NEW c \in Calls, StateOf(circuit, now)' = "open",
               Running(c)', ~Is(c, "bypassCircuit")'
        PROVE  call'[c].admittedAt <= circuit'.openedAt
    <3>1. ~Is(c, "bypassCircuit") /\ Running(c)
      BY <1>3, <2>2 DEF Is
    <3>2. CASE StateOf(circuit, now) = "open" /\ UNCHANGED <<circuit>>
      BY <1>3, <2>2, <3>1, <3>2 DEF AdmissionInv, OpenAdmitsNobody
    <3>3. CASE circuit'.openedAt = now'
      BY <2>1, <3>3
    <3> QED BY <1>2, <2>2, <3>2, <3>3
  <2> QED BY <1>2, <2>1, <2>2 DEF AdmissionInv, OpenAdmitsNobody
<1>4. ASSUME NEW c \in Calls, NEW o \in OptionSets[c], NEW gone \in BOOLEAN,
             Admit(c, o, gone)
      PROVE  AdmissionInv'
  <2>1. UNCHANGED now
    BY <1>4 DEF Admit, NoTime
  <2>2. /\ call'[c].admittedAt = now /\ call'[c].opts = o
        /\ \A d \in Calls \ {c} : call'[d] = call[d]
    <3>1. call[c] \in CallState /\ call \in [Calls -> CountedCall]
      BY <1>1
    <3>2. CASE call' = [call EXCEPT ![c] =
                 [@ EXCEPT !.phase = "granted", !.opts = o, !.aborted = gone,
                           !.admittedAt = now]]
      BY <3>1, <3>2 DEF CallState
    <3>3. CASE call' = [call EXCEPT ![c] =
                 [@ EXCEPT !.phase = "limit", !.opts = o, !.aborted = gone,
                           !.admittedAt = now, !.due = now + WaitMs(now)]]
      BY <3>1, <3>3 DEF CallState
    <3> QED BY <1>4, <3>2, <3>3 DEF Admit
  <2>3. \A d \in Calls : call'[d].admittedAt <= now'
    BY <1>1, <2>1, <2>2 DEF AdmissionInv
  <2>4. ASSUME NEW d \in Calls, StateOf(circuit, now)' = "open",
               Running(d)', ~Is(d, "bypassCircuit")'
        PROVE  call'[d].admittedAt <= circuit'.openedAt
    <3>1. CASE circuit'.openedAt = now'
      BY <2>3, <3>1
    <3>2. CASE StateOf(circuit, now) = "open" /\ UNCHANGED <<circuit>>
      <4>1. "bypassCircuit" \in o
        BY <1>4, <3>2 DEF Admit, Allowed
      <4>2. d # c
        BY <2>2, <2>4, <4>1 DEF Is
      <4>3. Running(d) /\ ~Is(d, "bypassCircuit") /\ call'[d] = call[d]
        BY <2>2, <2>4, <4>2 DEF Running, Is
      <4> QED BY <3>2, <4>3 DEF AdmissionInv, OpenAdmitsNobody
    <3> QED BY <1>2, <2>4, <3>1, <3>2
  <2> QED BY <1>2, <2>3, <2>4 DEF AdmissionInv, OpenAdmitsNobody
(* A step of one call that is under way, or that ends it. *)
<1>5. ASSUME NEW c \in Calls
      PROVE  /\ \A r \in Result : End(c, r) => AdmissionInv'
             /\ \A q \in Phase \ {"idle", "done"} :
                   Running(c) /\ Goto(c, q) => AdmissionInv'
             /\ \A n \in 1..MaxAttempts : Running(c) /\ Attempt(c, n) => AdmissionInv'
  <2>1. call[c] \in CallState /\ call \in [Calls -> CountedCall]
    BY <1>1
  <2>2. ASSUME NEW r \in Result, End(c, r) PROVE AdmissionInv'
    <3>1. /\ call'[c].phase = "done" /\ call'[c].admittedAt = 0
          /\ \A d \in Calls \ {c} : call'[d] = call[d]
      BY <2>1, <2>2 DEF End, CallState
    <3> QED BY <1>3, <3>1 DEF Running
  <2>3. ASSUME NEW q \in Phase \ {"idle", "done"}, Running(c), Goto(c, q)
        PROVE  AdmissionInv'
    <3>1. /\ call'[c].admittedAt = call[c].admittedAt /\ call'[c].opts = call[c].opts
          /\ \A d \in Calls \ {c} : call'[d] = call[d]
      BY <2>1, <2>3 DEF Goto, CallState
    <3> QED BY <1>3, <2>3, <3>1 DEF Running
  <2>4. ASSUME NEW n \in 1..MaxAttempts, Running(c), Attempt(c, n)
        PROVE  AdmissionInv'
    <3>1. /\ call'[c].admittedAt = call[c].admittedAt /\ call'[c].opts = call[c].opts
          /\ \A d \in Calls \ {c} : call'[d] = call[d]
      BY <2>1, <2>4 DEF Attempt, CallState
    <3> QED BY <1>3, <2>4, <3>1 DEF Running
  <2> QED BY <2>2, <2>3, <2>4
<1>6. ASSUME NEW c \in Calls, NEW o \in OptionSets[c], Refuse(c, o)
      PROVE  AdmissionInv'
  <2>1. /\ call'[c].phase = "done" /\ call'[c].admittedAt = call[c].admittedAt
        /\ \A d \in Calls \ {c} : call'[d] = call[d]
    BY <1>1, <1>6 DEF Refuse, CallState
  <2> QED BY <1>3, <2>1 DEF Running
<1>7. ASSUME NEW c \in Calls, BucketTimer(c) PROVE AdmissionInv'
  <2>1. CASE Goto(c, "granted")
    BY <1>5, <1>7, <2>1 DEF BucketTimer, Running, Phase
  <2>2. CASE call' = [call EXCEPT ![c].due = now + WaitMs(now)]
    <3>1. /\ call'[c].phase = call[c].phase
          /\ call'[c].admittedAt = call[c].admittedAt /\ call'[c].opts = call[c].opts
          /\ \A d \in Calls \ {c} : call'[d] = call[d]
      BY <1>1, <2>2 DEF CallState
    <3> QED BY <1>3, <3>1 DEF Running
  <2> QED BY <1>7, <2>1, <2>2 DEF BucketTimer
<1>8. ASSUME NEW c \in Calls, FirstAttempt(c) PROVE AdmissionInv'
  BY <1>5, <1>8, ConnectorConfig DEF FirstAttempt, Running
<1>9. ASSUME NEW c \in Calls, Wake(c) PROVE AdmissionInv'
  <2>1. call[c].attempt + 1 \in 1..MaxAttempts
    BY <1>1, <1>9, ConnectorConfig DEF Wake, CountedCall
  <2> QED BY <1>5, <1>9, <2>1 DEF Wake, Running
<1>10. ASSUME NEW c \in Calls,
             \/ CallSucceeds(c) \/ CallUnparsable(c) \/ CallRejected(c)
             \/ StreamErrorText(c) \/ StreamThrows(c) \/ StreamEnds(c)
      PROVE  AdmissionInv'
  BY <1>5, <1>10
  DEF CallSucceeds, CallUnparsable, CallRejected, StreamErrorText, StreamThrows,
      StreamEnds, Result
<1>11. ASSUME NEW c \in Calls, StreamOpens(c) \/ StreamRefused(c)
      PROVE  AdmissionInv'
  BY <1>5, <1>11 DEF StreamOpens, StreamRefused, Running, Phase
<1>12. ASSUME NEW c \in Calls, NEW res \in {"http_error", "network_error"},
             NEW r \in RetryAfters, NEW j \in 0..JitterMs, AttemptFails(c, res, r, j)
      PROVE  AdmissionInv'
  <2>1. CASE End(c, res)
    BY <1>5, <2>1 DEF Result
  <2>2. CASE call' = [call EXCEPT ![c].phase = "sleep",
                 ![c].due = now + Backoff(call[c].attempt, r, j)]
    <3>1. /\ call'[c].admittedAt = call[c].admittedAt /\ call'[c].opts = call[c].opts
          /\ \A d \in Calls \ {c} : call'[d] = call[d]
      BY <1>1, <2>2 DEF CallState
    <3>2. Running(c)
      BY <1>12 DEF AttemptFails, Running
    <3> QED BY <1>3, <3>1, <3>2 DEF Running
  <2> QED BY <1>12, <2>1, <2>2 DEF AttemptFails
<1>13. ASSUME NEW c \in Calls, Abort(c) PROVE AdmissionInv'
  <2>1. CASE End(c, "thrown") \/ End(c, "aborted")
    BY <1>5, <2>1 DEF Result
  <2>2. CASE call' = [call EXCEPT ![c].aborted = TRUE]
    <3>1. /\ call'[c].phase = call[c].phase
          /\ call'[c].admittedAt = call[c].admittedAt /\ call'[c].opts = call[c].opts
          /\ \A d \in Calls \ {c} : call'[d] = call[d]
      BY <1>1, <2>2 DEF CallState
    <3> QED BY <1>3, <3>1 DEF Running
  <2> QED BY <1>13, <2>1, <2>2 DEF Abort
<1>14. CASE ResetCircuit \/ Query \/ Tick \/ UNCHANGED vars
  <2>1. UNCHANGED call
    BY <1>14 DEF ResetCircuit, Query, Tick, vars
  <2> QED BY <1>3, <2>1 DEF Running
<1> QED
  BY <1>4, <1>6, <1>7, <1>8, <1>9, <1>10, <1>11, <1>12, <1>13, <1>14
  DEF Next, Proceed, FetchEnds

(* While the breaker is open, the only calls under way that had asked it   *)
(* are those let in before it opened.                                      *)
THEOREM OpenAdmitsNoOne == Spec => []OpenAdmitsNobody
<1>1. Init => AdmissionInv
  BY BreakerConfig
  DEF Init, BreakerInit, Fresh, AdmissionInv, OpenedInThePast, OpenAdmitsNobody,
      StateOf, MaybeTransition
<1>2. AdmissionInv => OpenAdmitsNobody
  BY DEF AdmissionInv
<1> QED BY <1>1, <1>2, AdmissionStep, TypeInvariance, PTL DEF Spec

-----------------------------------------------------------------------------
(* The refinement. *)

(* Only a trial has successes to count. *)
CountsTrials == circuit.state # "half-open" => circuit.recentSuccesses = 0

LEMMA TrialsStep ==
    ASSUME BreakerTypeOK, CountsTrials, [BreakerNext]_breakerVars
    PROVE  CountsTrials'
<1> USE BreakerConfig
    DEF BreakerTypeOK, CountsTrials, MaybeTransition, CircuitStats, CircuitState
<1>1. CASE Look
  BY <1>1 DEF Look
<1>2. CASE RecordSuccess
  BY <1>2 DEF RecordSuccess, AfterSuccess, Closed, Interrupted
<1>3. CASE RecordFailure
  BY <1>3 DEF RecordFailure, AfterFailure
<1>4. CASE ResetStats
  BY <1>4 DEF ResetStats, Fresh
<1>5. CASE UNCHANGED circuit
  BY <1>5
<1> QED
  BY <1>1, <1>2, <1>3, <1>4, <1>5 DEF BreakerNext, breakerVars, Untouched

(* What every method makes of the state a caller sees: nothing, a trip or  *)
(* a failed trial, a success of a trial, or a reset.                       *)
LEMMA MethodImplements ==
    ASSUME BreakerTypeOK, OpenedInThePast, CountsTrials, [BreakerNext]_breakerVars
    PROVE  [Contract!Next]_(Contract!vars)
<1> USE BreakerConfig
    DEF BreakerTypeOK, OpenedInThePast, CountsTrials, StateOf, MaybeTransition,
        CircuitStats, CircuitState, Contract!vars
<1>1. CASE Look /\ UNCHANGED now
  BY <1>1 DEF Look
<1>2. CASE RecordSuccess /\ UNCHANGED now
  <2>1. CASE StateOf(circuit, now) = "half-open"
    BY <1>2, <2>1
    DEF RecordSuccess, AfterSuccess, Closed, Contract!Next, Contract!TrialSuccess,
        Contract!Close
  <2>2. CASE StateOf(circuit, now) # "half-open"
    BY <1>2, <2>2 DEF RecordSuccess, AfterSuccess, Interrupted
  <2> QED BY <2>1, <2>2
<1>3. CASE RecordFailure /\ UNCHANGED now
  <2>1. InWindow(MaybeTransition(circuit, now).recentFailures, now) \in Seq(Nat)
    BY InWindowType, MaybeTransitionType
  <2>2. CASE StateOf(circuit, now) = "half-open"
    BY <1>3, <2>2 DEF RecordFailure, AfterFailure, Contract!Next, Contract!Open
  <2>3. CASE StateOf(circuit, now) = "closed"
    BY <1>3, <2>1, <2>3 DEF RecordFailure, AfterFailure, Contract!Next, Contract!Open
  <2>4. CASE StateOf(circuit, now) = "open"
    BY <1>3, <2>4 DEF RecordFailure, AfterFailure
  <2> QED BY <2>2, <2>3, <2>4
<1>4. CASE ResetStats /\ UNCHANGED now
  BY <1>4 DEF ResetStats, Fresh, Contract!Next, Contract!Reset
<1>5. CASE now' = now + 1 /\ Untouched
  BY <1>5 DEF Untouched, Contract!Next, Contract!Tick
<1>6. CASE UNCHANGED breakerVars
  BY <1>6 DEF breakerVars
<1> QED BY <1>1, <1>2, <1>3, <1>4, <1>5, <1>6 DEF BreakerNext

(* The breaker that only moves when somebody looks keeps, for every number *)
(* of concurrent calls, the promise of one with a timer of its own: full   *)
(* cooldowns, and closed by the last success a trial needs or an operator,  *)
(* never by a success that comes late or by somebody who looks.            *)
THEOREM ImplementsContract == Spec => ContractSpec
<1>1. Init => Contract!Init /\ OpenedInThePast /\ CountsTrials
  BY BreakerConfig
  DEF Init, BreakerInit, Fresh, OpenedInThePast, CountsTrials, Contract!Init, StateOf,
      MaybeTransition
<1>2. TypeInv /\ OpenedInThePast /\ CountsTrials /\ [Next]_vars
        => OpenedInThePast' /\ CountsTrials' /\ [Contract!Next]_(Contract!vars)
  BY StepsUseMethods, OpenAfterMethod, TrialsStep, MethodImplements DEF TypeInv
<1> QED BY <1>1, <1>2, TypeInvariance, PTL DEF Spec, ContractSpec, Contract!Spec
-----------------------------------------------------------------------------
(* Sums over a set of calls.                                               *)

(* The library's induction cannot be given a predicate, so that an induction *)
(* is an argument about the least number for which something fails.        *)
LEMMA LeastNumber ==
    ASSUME NEW S, S \subseteq Nat, S # {}
    PROVE  \E n \in S : \A k \in S : n <= k
<1>1. PICK n \in S : \A k \in S : ~ (<<k, n>> \in OpToRel(<, Nat))
  BY NatLessThanWellFounded, WFMin
<1>2. \A k \in S : ~ (k < n)
  BY <1>1 DEF OpToRel
<1> QED
  BY <1>2

(* The recursion of MapThenSumSet: the function that gives every set of S   *)
(* the sum of f over it.                                                   *)
Pick(s) == CHOOSE x \in s : TRUE

SumOver(f, s, sum) == IF s = {} THEN 0 ELSE f[Pick(s)] + sum[s \ {Pick(s)}]

Adds(f, S, sum) == sum = [s \in SUBSET S |-> SumOver(f, s, sum)]

LEMMA PickIs ==
    ASSUME NEW S, IsFiniteSet(S), NEW s \in SUBSET S
    PROVE  /\ IsFiniteSet(s) /\ Cardinality(s) \in Nat
           /\ s # {} => /\ Pick(s) \in s /\ s \ {Pick(s)} \in SUBSET S
                        /\ Cardinality(s \ {Pick(s)}) = Cardinality(s) - 1
                        /\ Cardinality(s) - 1 \in Nat
<1>1. IsFiniteSet(s) /\ Cardinality(s) \in Nat
  BY FS_Subset, FS_CardinalityType
<1>2. ASSUME s # {} PROVE Pick(s) \in s
  BY <1>2 DEF Pick
<1>3. ASSUME s # {}
      PROVE  Cardinality(s \ {Pick(s)}) = Cardinality(s) - 1 /\ Cardinality(s) - 1 \in Nat
  <2>1. PICK x : x = Pick(s) /\ x \in s
    BY <1>2, <1>3
  <2>2. IsFiniteSet(s \ {x}) /\ Cardinality(s \ {x}) = Cardinality(s) - 1
    BY <1>1, <2>1, FS_RemoveElement
  <2>3. Cardinality(s \ {x}) \in Nat
    BY <2>2, FS_CardinalityType
  <2> QED
    BY <2>1, <2>2, <2>3
<1> QED
  BY <1>1, <1>2, <1>3

LEMMA SumExists ==
    ASSUME NEW S, IsFiniteSet(S), NEW f \in [S -> Nat]
    PROVE  \E sum \in [SUBSET S -> Nat] : Adds(f, S, sum)
<1> DEFINE UpTo(n, sum) == \A s \in SUBSET S :
                              Cardinality(s) <= n => sum[s] = SumOver(f, s, sum)
           Bad == {n \in Nat : ~ \E sum \in [SUBSET S -> Nat] : UpTo(n, sum)}
<1>1. \A s \in SUBSET S :
         /\ Cardinality(s) \in Nat
         /\ s # {} => /\ Pick(s) \in S /\ s \ {Pick(s)} \in SUBSET S
                      /\ Cardinality(s \ {Pick(s)}) = Cardinality(s) - 1
  BY PickIs
<1>2. ASSUME Bad # {} PROVE FALSE
  <2>1. PICK n \in Bad : \A k \in Bad : n <= k
    BY <1>2, LeastNumber
  <2>2. n \in Nat /\ ~ \E sum \in [SUBSET S -> Nat] : UpTo(n, sum)
    BY <2>1
  <2>3. CASE n = 0
    <3>1. PICK sum : sum = [s \in SUBSET S |-> 0]
      OBVIOUS
    <3>2. sum \in [SUBSET S -> Nat]
      BY <3>1
    <3>3. ASSUME NEW s \in SUBSET S, Cardinality(s) <= n
          PROVE  sum[s] = SumOver(f, s, sum)
      <4>1. ASSUME s # {} PROVE FALSE
        <5>1. Cardinality(s) \in Nat /\ Cardinality(s) <= 0
          BY <1>1, <2>3, <3>3
        <5>2. Cardinality(s) - 1 \in Nat
          BY <4>1, PickIs
        <5> QED
          BY <5>1, <5>2
      <4> QED
        BY <3>1, <4>1 DEF SumOver
    <3> QED
      BY <2>2, <3>2, <3>3
  <2>4. CASE n # 0
    <3>0. n - 1 \in Nat /\ ~ (n <= n - 1)
      BY <2>2, <2>4
    <3>1. n - 1 \in Nat /\ n - 1 \notin Bad
      BY <2>1, <3>0
    <3>2. PICK less \in [SUBSET S -> Nat] : UpTo(n - 1, less)
      BY <3>1
    <3>3. PICK sum : sum = [s \in SUBSET S |-> SumOver(f, s, less)]
      OBVIOUS
    <3>4. ASSUME NEW s \in SUBSET S PROVE SumOver(f, s, less) \in Nat
      <4>1. CASE s = {}
        BY <4>1 DEF SumOver
      <4>2. CASE s # {}
        <5>1. f[Pick(s)] \in Nat /\ less[s \ {Pick(s)}] \in Nat
          BY <1>1, <4>2
        <5> QED
          BY <4>2, <5>1 DEF SumOver
      <4> QED
        BY <4>1, <4>2
    <3>5. sum \in [SUBSET S -> Nat]
      BY <3>3, <3>4
    <3>6. ASSUME NEW s \in SUBSET S, Cardinality(s) <= n - 1 PROVE sum[s] = less[s]
      BY <3>2, <3>3, <3>6
    <3>7. ASSUME NEW s \in SUBSET S, Cardinality(s) <= n PROVE sum[s] = SumOver(f, s, sum)
      <4>1. CASE s = {}
        BY <3>3, <4>1 DEF SumOver
      <4>2. CASE s # {}
        <5>1. sum[s \ {Pick(s)}] = less[s \ {Pick(s)}]
          BY <1>1, <2>2, <3>6, <3>7, <4>2
        <5> QED
          BY <3>3, <4>2, <5>1 DEF SumOver
      <4> QED
        BY <4>1, <4>2
    <3> QED
      BY <2>2, <3>5, <3>7
  <2> QED
    BY <2>3, <2>4
<1>3. Cardinality(S) \in Nat /\ Cardinality(S) \notin Bad
  BY <1>1, <1>2
<1>4. PICK sum \in [SUBSET S -> Nat] : UpTo(Cardinality(S), sum)
  BY <1>3
<1>5. ASSUME NEW s \in SUBSET S PROVE sum[s] = SumOver(f, s, sum)
  <2>1. Cardinality(s) <= Cardinality(S)
    BY FS_Subset
  <2> QED
    BY <1>4, <2>1
<1>6. sum = [s \in SUBSET S |-> SumOver(f, s, sum)]
  BY <1>5
<1> QED
  BY <1>6 DEF Adds

(* When one summand changes, the sum changes by as much. *)
LEMMA SumChanges ==
    ASSUME NEW S, IsFiniteSet(S), NEW f \in [S -> Nat], NEW g \in [S -> Nat],
           NEW x \in S, \A y \in S \ {x} : g[y] = f[y],
           NEW a, Adds(f, S, a), NEW b, Adds(g, S, b)
    PROVE  a[S] \in Nat /\ b[S] \in Nat /\ b[S] - a[S] = g[x] - f[x]
<1> DEFINE Fits(s) == /\ a[s] \in Nat /\ b[s] \in Nat
                      /\ b[s] - a[s] = IF x \in s THEN g[x] - f[x] ELSE 0
           Bad == {n \in Nat : \E s \in SUBSET S : Cardinality(s) = n /\ ~Fits(s)}
<1>1. ASSUME NEW s \in SUBSET S
      PROVE  a[s] = SumOver(f, s, a) /\ b[s] = SumOver(g, s, b)
  BY DEF Adds
<1>2. ASSUME Bad # {} PROVE FALSE
  <2>1. PICK n \in Bad : \A k \in Bad : n <= k
    BY <1>2, LeastNumber
  <2>2. PICK s \in SUBSET S : Cardinality(s) = n /\ ~Fits(s)
    BY <2>1
  <2>3. n \in Nat
    BY <2>1
  <2>4. CASE s = {}
    <3>1. a[s] = 0 /\ b[s] = 0
      BY <1>1, <2>4 DEF SumOver
    <3> QED
      BY <2>2, <2>4, <3>1
  <2>5. CASE s # {}
    <3>1. PICK y, r : y = Pick(s) /\ r = s \ {y}
      OBVIOUS
    <3>2. y \in s /\ r \in SUBSET S /\ Cardinality(r) = n - 1 /\ n - 1 \in Nat
      BY <2>2, <2>5, <3>1, PickIs
    <3>3. Fits(r)
      <4>1. n - 1 \notin Bad
        BY <2>1, <2>3, <3>2
      <4> QED
        BY <3>2, <4>1
    <3>4. a[s] = f[y] + a[r] /\ b[s] = g[y] + b[r]
      BY <1>1, <2>5, <3>1 DEF SumOver
    <3>5. f[y] \in Nat /\ g[y] \in Nat /\ f[x] \in Nat /\ g[x] \in Nat
      BY <3>2
    <3>6. CASE y = x
      <4>1. x \notin r /\ x \in s
        BY <3>1, <3>2, <3>6
      <4> QED
        BY <2>2, <3>3, <3>4, <3>5, <3>6, <4>1
    <3>7. CASE y # x
      <4>1. (x \in r) = (x \in s) /\ f[y] = g[y]
        BY <3>1, <3>2, <3>7
      <4> QED
        BY <2>2, <3>3, <3>4, <3>5, <4>1
    <3> QED
      BY <3>6, <3>7
  <2> QED
    BY <2>4, <2>5
<1>3. Fits(S)
  BY <1>2, PickIs
<1> QED
  BY <1>3

(* If no summand is there, neither is a sum. *)
LEMMA SumOfZeros ==
    ASSUME NEW S, IsFiniteSet(S), NEW f, f = [x \in S |-> 0], NEW a, Adds(f, S, a)
    PROVE  a[S] = 0
<1> DEFINE Bad == {n \in Nat : \E s \in SUBSET S : Cardinality(s) = n /\ a[s] # 0}
<1>1. ASSUME NEW s \in SUBSET S PROVE a[s] = SumOver(f, s, a)
  BY DEF Adds
<1>2. ASSUME Bad # {} PROVE FALSE
  <2>1. PICK n \in Bad : \A k \in Bad : n <= k
    BY <1>2, LeastNumber
  <2>2. PICK s \in SUBSET S : Cardinality(s) = n /\ a[s] # 0
    BY <2>1
  <2>3. s # {}
    BY <1>1, <2>2 DEF SumOver
  <2>4. PICK y, r : y = Pick(s) /\ r = s \ {y}
    OBVIOUS
  <2>5. y \in s /\ r \in SUBSET S /\ Cardinality(r) = n - 1 /\ n - 1 \in Nat
    BY <2>2, <2>3, <2>4, PickIs
  <2>6. n - 1 \notin Bad
    BY <2>1, <2>5
  <2>7. a[r] = 0
    BY <2>5, <2>6
  <2>8. a[s] = f[y] + a[r]
    BY <1>1, <2>3, <2>4 DEF SumOver
  <2> QED
    BY <2>2, <2>5, <2>7, <2>8
<1> QED
  BY <1>2, PickIs

-----------------------------------------------------------------------------
(* The outcomes recorded. *)

(* What Owed makes of the state of a call. *)
OwedOf(r) ==
    IF "stream" \in r.opts
    THEN IF r.phase = "body" \/ r.result \in {"streamed", "http_error"} THEN 1 ELSE 0
    ELSE IF r.phase = "fetch" THEN r.attempt - 1 ELSE r.attempt

(* What Owed takes for granted: a call has no result before it is done, no *)
(* attempt before its first fetch, and the phases of a stream or of a      *)
(* plain call, as its options say.                                         *)
Tallied(r) ==
    /\ r.phase # "done" => r.result = "none"
    /\ r.phase \in {"idle", "limit", "granted"} => r.attempt = 0
    /\ r.phase = "idle" => r.opts = {}
    /\ r.phase = "sleep" => "stream" \notin r.opts
    /\ r.phase \in {"body", "errtext"} => "stream" \in r.opts

TallyInv == \A c \in Calls : Tallied(call[c])

(* A step of one call, by which n outcomes are owed and recorded. *)
Counts(c, n) == /\ records' = records + n
                /\ Tallied((call')[c])
                /\ OwedOf((call')[c]) = OwedOf(call[c]) + n
                /\ \A d \in Calls \ {c} : (call')[d] = call[d]

(* Every step records what it makes a call owe.                            *)
LEMMA StepCounts ==
    ASSUME TypeInv, TallyInv, [Next]_vars
    PROVE  \/ UNCHANGED <<call, records>>
           \/ \E c \in Calls, n \in {0, 1} : Counts(c, n)
<1> USE DEF NoTime, NoToken, NoVerdict, Untouched
<1>1. /\ call \in [Calls -> CountedCall] /\ records \in Nat
      /\ \A c \in Calls : call[c] \in CallState /\ Tallied(call[c])
      /\ \A c \in Calls : call[c].attempt \in Nat
  BY ConnectorConfig DEF TypeInv, TallyInv, CountedCall, BreakerTypeOK, CallState
<1>2. ASSUME NEW c \in Calls, NEW o \in OptionSets[c], Refuse(c, o)
      PROVE  Counts(c, 0)
  <2>1. records' = records
    BY <1>2 DEF Refuse, Look
  <2> QED
    BY <1>1, <1>2, <2>1 DEF Refuse, Counts, CallState, OwedOf, Tallied
<1>3. ASSUME NEW c \in Calls, NEW o \in OptionSets[c], NEW gone \in BOOLEAN,
             Admit(c, o, gone)
      PROVE  Counts(c, 0)
  <2>1. records' = records /\ call[c].phase = "idle"
    BY <1>3 DEF Admit, Look
  <2>2. CASE call' = [call EXCEPT ![c] =
               [@ EXCEPT !.phase = "granted", !.opts = o, !.aborted = gone,
                         !.admittedAt = now]]
    BY <1>1, <2>1, <2>2 DEF Counts, CallState, OwedOf, Tallied
  <2>3. CASE call' = [call EXCEPT ![c] =
               [@ EXCEPT !.phase = "limit", !.opts = o, !.aborted = gone,
                         !.admittedAt = now, !.due = now + WaitMs(now)]]
    BY <1>1, <2>1, <2>3 DEF Counts, CallState, OwedOf, Tallied
  <2> QED
    BY <1>3, <2>2, <2>3 DEF Admit
<1>4. ASSUME NEW c \in Calls, BucketTimer(c) PROVE Counts(c, 0)
  <2>1. records' = records /\ call[c].phase = "limit"
    BY <1>4 DEF BucketTimer
  <2>2. CASE Goto(c, "granted")
    BY <1>1, <2>1, <2>2 DEF Goto, Counts, CallState, OwedOf, Tallied
  <2>3. CASE call' = [call EXCEPT ![c].due = now + WaitMs(now)]
    BY <1>1, <2>1, <2>3 DEF Counts, CallState, OwedOf, Tallied
  <2> QED
    BY <1>4, <2>2, <2>3 DEF BucketTimer
<1>5. ASSUME NEW c \in Calls, FirstAttempt(c) PROVE Counts(c, 0)
  BY <1>1, <1>5 DEF FirstAttempt, Attempt, Counts, CallState, OwedOf, Tallied
<1>6. ASSUME NEW c \in Calls, Wake(c) PROVE Counts(c, 0)
  BY <1>1, <1>6 DEF Wake, Attempt, Counts, CallState, OwedOf, Tallied
<1>7. ASSUME NEW c \in Calls,
             CallSucceeds(c) \/ CallUnparsable(c) \/ CallRejected(c)
      PROVE  Counts(c, 1)
  <2>1. /\ records' = records + 1 /\ call[c].phase = "fetch" /\ ~Is(c, "stream")
        /\ \E r \in Result : End(c, r)
    BY <1>7
    DEF CallSucceeds, CallUnparsable, CallRejected, Answered, RecordSuccess,
        RecordFailure, Result
  <2>2. PICK r \in Result : End(c, r)
    BY <2>1
  <2> QED
    <3>1. /\ (call')[c].phase = "done" /\ (call')[c].opts = call[c].opts
          /\ (call')[c].attempt = call[c].attempt
          /\ \A d \in Calls \ {c} : (call')[d] = call[d]
      BY <1>1, <2>2 DEF End, CallState
    <3>2. OwedOf((call')[c]) = call[c].attempt /\ OwedOf(call[c]) = call[c].attempt - 1
      BY <2>1, <3>1, Z3 DEF OwedOf, Is
    <3>3. Tallied((call')[c])
      BY <3>1 DEF Tallied
    <3> QED
      BY <1>1, <2>1, <3>1, <3>2, <3>3 DEF Counts
<1>8. ASSUME NEW c \in Calls, NEW res \in {"http_error", "network_error"},
             NEW r \in RetryAfters, NEW j \in 0..JitterMs, AttemptFails(c, res, r, j)
      PROVE  Counts(c, 1)
  <2>1. records' = records + 1 /\ call[c].phase = "fetch" /\ ~Is(c, "stream")
    BY <1>8 DEF AttemptFails, RecordFailure
  <2>2. CASE End(c, res)
    <3>1. /\ (call')[c].phase = "done" /\ (call')[c].opts = call[c].opts
          /\ (call')[c].attempt = call[c].attempt
          /\ \A d \in Calls \ {c} : (call')[d] = call[d]
      BY <1>1, <2>2 DEF End, CallState
    <3>2. OwedOf((call')[c]) = call[c].attempt /\ OwedOf(call[c]) = call[c].attempt - 1
      BY <2>1, <3>1, Z3 DEF OwedOf, Is
    <3>3. Tallied((call')[c])
      BY <3>1 DEF Tallied
    <3> QED
      BY <1>1, <2>1, <3>1, <3>2, <3>3 DEF Counts
  <2>3. CASE call' = [call EXCEPT ![c].phase = "sleep",
                 ![c].due = now + Backoff(call[c].attempt, r, j)]
    BY <1>1, <2>1, <2>3 DEF Is, Counts, CallState, OwedOf, Tallied
  <2> QED
    BY <1>8, <2>2, <2>3 DEF AttemptFails
<1>9. ASSUME NEW c \in Calls, StreamOpens(c) PROVE Counts(c, 1)
  BY <1>1, <1>9
  DEF StreamOpens, RecordSuccess, Goto, Is, Counts, CallState, OwedOf, Tallied
<1>10. ASSUME NEW c \in Calls, StreamRefused(c) PROVE Counts(c, 0)
  BY <1>1, <1>10 DEF StreamRefused, Goto, Is, Counts, CallState, OwedOf, Tallied
<1>11. ASSUME NEW c \in Calls, StreamErrorText(c) PROVE Counts(c, 1)
  BY <1>1, <1>11
  DEF StreamErrorText, RecordFailure, End, Counts, CallState, OwedOf, Tallied
<1>12. ASSUME NEW c \in Calls, StreamThrows(c) PROVE Counts(c, 0)
  BY <1>1, <1>12 DEF StreamThrows, End, Is, Counts, CallState, OwedOf, Tallied
<1>13. ASSUME NEW c \in Calls, StreamEnds(c) PROVE Counts(c, 0)
  BY <1>1, <1>13 DEF StreamEnds, End, Counts, CallState, OwedOf, Tallied
<1>14. ASSUME NEW c \in Calls, Abort(c) PROVE Counts(c, 0)
  <2>1. records' = records
    BY <1>14 DEF Abort
  <2>2. CASE call[c].phase = "limit" /\ End(c, "thrown")
    BY <1>1, <2>1, <2>2 DEF End, Counts, CallState, OwedOf, Tallied
  <2>3. CASE call[c].phase = "sleep" /\ End(c, "aborted")
    BY <1>1, <2>1, <2>3 DEF End, Counts, CallState, OwedOf, Tallied
  <2>4. CASE call' = [call EXCEPT ![c].aborted = TRUE]
    BY <1>1, <2>1, <2>4 DEF Counts, CallState, OwedOf, Tallied
  <2> QED
    BY <1>14, <2>2, <2>3, <2>4 DEF Abort
<1>15. CASE ResetCircuit \/ Query \/ Tick \/ UNCHANGED vars
  BY <1>15 DEF ResetCircuit, ResetStats, Query, Look, Tick, vars
<1> QED
  BY <1>2, <1>3, <1>4, <1>5, <1>6, <1>7, <1>8, <1>9, <1>10, <1>11, <1>12, <1>13,
     <1>14, <1>15
  DEF Next, Proceed, FetchEnds

(* The sum in EveryOutcomeRecordedOnce is one of those the lemmas are about. *)
SumOfOwed == \A f : f = [c \in Calls |-> Owed(c)] /\ (\E s : Adds(f, Calls, s)) =>
                 \E s : Adds(f, Calls, s) /\ MapThenSumSet(Owed, Calls) = s[Calls]

LEMMA OwedIsSummed == SumOfOwed
<1> SUFFICES ASSUME NEW f, f = [c \in Calls |-> Owed(c)], \E s : Adds(f, Calls, s)
             PROVE  \E s : Adds(f, Calls, s) /\ MapThenSumSet(Owed, Calls) = s[Calls]
  BY DEF SumOfOwed
<1>1. PICK s : Adds(f, Calls, s)
  OBVIOUS
<1>2. ASSUME NEW g
      PROVE  [t \in SUBSET Calls |-> SumOver(f, t, g)]
               = [t \in SUBSET Calls |->
                    IF t = {} THEN 0 ELSE Owed(Pick(t)) + g[t \ {Pick(t)}]]
  BY DEF Pick, SumOver
<1>3. s = [t \in SUBSET Calls |-> IF t = {} THEN 0 ELSE Owed(Pick(t)) + s[t \ {Pick(t)}]]
  BY <1>1, <1>2 DEF Adds
<1>4. PICK k : k = CHOOSE g : g = [t \in SUBSET Calls |->
                      IF t = {} THEN 0 ELSE Owed(Pick(t)) + g[t \ {Pick(t)}]]
  OBVIOUS
<1>5. k = [t \in SUBSET Calls |-> IF t = {} THEN 0 ELSE Owed(Pick(t)) + k[t \ {Pick(t)}]]
  BY <1>3, <1>4, Zenon
<1>6. Adds(f, Calls, k)
  BY <1>2, <1>5, Zenon DEF Adds
<1>7. MapThenSumSet(Owed, Calls) = k[Calls]
  BY <1>4, Zenon DEF MapThenSumSet, MapThenFoldSet, Pick
<1> QED
  BY <1>6, <1>7

LEMMA OwedIsSummedNext == SumOfOwed'
BY OwedIsSummed, PTL

LEMMA OwedType == ASSUME NEW r \in CountedCall PROVE OwedOf(r) \in Nat
BY ConnectorConfig DEF CountedCall, CallState, OwedOf

LEMMA OwedChanges ==
    ASSUME TypeInv, TypeInv', TallyInv, EveryOutcomeRecordedOnce, [Next]_vars
    PROVE  TallyInv' /\ EveryOutcomeRecordedOnce'
<1>1. PICK f : f = [c \in Calls |-> Owed(c)]
  OBVIOUS
<1>2. PICK g : g = [c \in Calls |-> Owed(c)']
  OBVIOUS
<1>3. ASSUME NEW c \in Calls
      PROVE  f[c] = OwedOf(call[c]) /\ g[c] = OwedOf((call')[c])
  BY <1>1, <1>2 DEF Owed, OwedOf, Is
<1>4. f \in [Calls -> Nat] /\ g \in [Calls -> Nat]
  <2>1. ASSUME NEW c \in Calls PROVE f[c] \in Nat /\ g[c] \in Nat
    BY <1>3, OwedType DEF TypeInv
  <2> QED
    BY <1>1, <1>2, <2>1
<1>5. IsFiniteSet(Calls) /\ records \in Nat
  BY ConnectorConfig DEF TypeInv, BreakerTypeOK
<1>6. (\E s : Adds(f, Calls, s)) /\ (\E t : Adds(g, Calls, t))
  BY <1>4, <1>5, SumExists
<1>7. PICK s : Adds(f, Calls, s) /\ records = s[Calls]
  BY <1>1, <1>6, OwedIsSummed DEF SumOfOwed, EveryOutcomeRecordedOnce
<1>8. PICK t : Adds(g, Calls, t) /\ MapThenSumSet(Owed, Calls)' = t[Calls]
  BY <1>2, <1>6, OwedIsSummedNext DEF SumOfOwed
<1>9. CASE UNCHANGED <<call, records>>
  <2>1. TallyInv'
    BY <1>9 DEF TallyInv
  <2>2. \A c \in Calls : g[c] = f[c]
    BY <1>3, <1>9
  <2>3. s[Calls] = t[Calls]
    <3>1. CASE Calls = {}
      BY <1>7, <1>8, <3>1 DEF Adds, SumOver
    <3>2. ASSUME NEW c \in Calls PROVE s[Calls] = t[Calls]
      <4>1. f[c] \in Nat /\ g[c] = f[c]
        BY <1>4, <2>2
      <4>2. s[Calls] \in Nat /\ t[Calls] \in Nat /\ t[Calls] - s[Calls] = g[c] - f[c]
        BY <1>4, <1>5, <1>7, <1>8, <2>2, SumChanges
      <4> QED
        BY <4>1, <4>2
    <3> QED
      BY <3>1, <3>2
  <2> QED
    BY <1>7, <1>8, <1>9, <2>1, <2>3 DEF EveryOutcomeRecordedOnce
<1>10. ASSUME NEW c \in Calls, NEW n \in {0, 1}, Counts(c, n)
       PROVE  TallyInv' /\ EveryOutcomeRecordedOnce'
  <2>1. TallyInv'
    BY <1>10 DEF Counts, TallyInv
  <2>2. \A d \in Calls \ {c} : g[d] = f[d]
    BY <1>3, <1>10 DEF Counts
  <2>3. s[Calls] \in Nat /\ t[Calls] \in Nat /\ t[Calls] - s[Calls] = g[c] - f[c]
    BY <1>4, <1>5, <1>7, <1>8, <2>2, SumChanges
  <2>4. g[c] = f[c] + n /\ f[c] \in Nat /\ g[c] \in Nat
    BY <1>3, <1>4, <1>10 DEF Counts
  <2>5. t[Calls] = s[Calls] + n
    BY <2>3, <2>4
  <2>6. records' = t[Calls]
    BY <1>7, <1>10, <2>5 DEF Counts
  <2> QED
    BY <1>8, <2>1, <2>6 DEF EveryOutcomeRecordedOnce
<1> QED
  BY <1>9, <1>10, StepCounts

LEMMA NothingOwed == Init => TallyInv /\ EveryOutcomeRecordedOnce
<1> SUFFICES ASSUME Init PROVE TallyInv /\ EveryOutcomeRecordedOnce
  OBVIOUS
<1>1. TallyInv
  BY DEF Init, TallyInv, Tallied
<1>2. PICK f : f = [c \in Calls |-> 0]
  OBVIOUS
<1>3. f = [c \in Calls |-> Owed(c)]
  BY <1>2 DEF Init, Owed, Is
<1>4. IsFiniteSet(Calls) /\ f \in [Calls -> Nat]
  BY <1>2, ConnectorConfig
<1>5. PICK s : Adds(f, Calls, s) /\ MapThenSumSet(Owed, Calls) = s[Calls]
  BY <1>3, <1>4, SumExists, OwedIsSummed DEF SumOfOwed
<1>6. s[Calls] = 0
  BY <1>2, <1>4, <1>5, SumOfZeros
<1> QED
  BY <1>1, <1>5, <1>6 DEF Init, BreakerInit, EveryOutcomeRecordedOnce

(* call() and stream() record every outcome with the breaker exactly once: *)
(* one per finished attempt of a plain call, one per stream that was       *)
(* answered, however many calls interleave, retry, abort or throw.         *)
THEOREM OutcomesRecorded == Spec => []EveryOutcomeRecordedOnce
<1>1. TypeInv /\ TallyInv /\ EveryOutcomeRecordedOnce /\ TypeInv' /\ [Next]_vars
        => TallyInv' /\ EveryOutcomeRecordedOnce'
  BY OwedChanges
<1> QED
  BY <1>1, NothingOwed, TypeInvariance, PTL DEF Spec

-----------------------------------------------------------------------------
(* What trips the breaker. *)

(* Times in the order they were noted, none in the future. *)
Noted(f, t) == \A i \in 1..Len(f) : /\ f[i] <= t
                                    /\ \A j \in i..Len(f) : f[i] <= f[j]

EndOf(f, s) == /\ Len(f) <= Len(s)
               /\ \A i \in 1..Len(f) : f[i] = s[Len(s) - Len(f) + i]

(* The failures the breaker remembers are the last ones since the last     *)
(* success, as long as it is closed: a failed trial is not among them.     *)
StreakInv == /\ Noted(circuit.recentFailures, now)
             /\ circuit.state = "closed" => EndOf(circuit.recentFailures, streak)

(* The prefix that InWindow drops is what is out of the window.            *)
LEMMA InWindowIs ==
    ASSUME NEW f \in Seq(Nat), NEW t \in Nat, Noted(f, t)
    PROVE  /\ EndOf(InWindow(f, t), f) /\ Noted(InWindow(f, t), t)
           /\ \A i \in 1..Len(InWindow(f, t)) : t - InWindow(f, t)[i] <= WindowMs
<1> DEFINE expired == {i \in 1..Len(f) : t - f[i] > WindowMs}
           n == Cardinality(expired)
<1>1. Len(f) \in Nat /\ \A i \in 1..Len(f) : f[i] \in Nat
  OBVIOUS
<1>2. \A m \in 0..Len(f) : IsFiniteSet(1..m) /\ Cardinality(1..m) = m
  <2>1. ASSUME NEW m \in 0..Len(f) PROVE IsFiniteSet(1..m) /\ Cardinality(1..m) = m
    <3>1. PICK one \in Int : one = 1
      OBVIOUS
    <3>2. m \in Int
      OBVIOUS
    <3>3. IsFiniteSet(one..m) /\ Cardinality(one..m) = IF one > m THEN 0 ELSE m - one + 1
      BY <3>2, FS_Interval
    <3> QED
      BY <3>1, <3>3
  <2> QED
    BY <2>1
<1>3. Len(f) \in 0..Len(f)
  BY <1>1
<1>4. IsFiniteSet(expired) /\ n \in 0..Len(f)
  <2>1. expired \in SUBSET (1..Len(f))
    OBVIOUS
  <2>2. IsFiniteSet(1..Len(f)) /\ Cardinality(1..Len(f)) = Len(f)
    BY <1>2, <1>3
  <2>3. IsFiniteSet(expired) /\ n <= Cardinality(1..Len(f))
    BY <2>1, <2>2, FS_Subset
  <2> QED
    BY <1>1, <2>2, <2>3, FS_CardinalityType
<1>5. ASSUME NEW j \in 1..Len(f), j > n PROVE t - f[j] <= WindowMs
  <2>1. SUFFICES ASSUME t - f[j] > WindowMs PROVE FALSE
    BY <1>1, BreakerConfig
  <2>2. 1..j \in SUBSET expired
    <3>1. ASSUME NEW i \in 1..j PROVE i \in 1..Len(f) /\ f[i] <= f[j]
      BY <1>1 DEF Noted
    <3>2. ASSUME NEW i \in 1..j PROVE t - f[i] > WindowMs
      BY <1>1, <2>1, <3>1, BreakerConfig
    <3> QED
      BY <3>1, <3>2
  <2>3. j \in 0..Len(f)
    BY <1>1
  <2>4. Cardinality(1..j) <= n
    BY <1>4, <2>2, FS_Subset
  <2> QED
    BY <1>2, <1>4, <1>5, <2>3, <2>4
<1>6. InWindow(f, t) = SubSeq(f, n + 1, Len(f))
  BY DEF InWindow
<1> HIDE DEF expired, n
<1>7. PICK g : g = SubSeq(f, n + 1, Len(f))
  OBVIOUS
<1>8. /\ Len(g) = Len(f) - n
      /\ \A i \in 1..Len(g) : g[i] = f[n + i] /\ n + i \in 1..Len(f) /\ n + i > n
  BY <1>1, <1>4, <1>7
<1>9. EndOf(g, f)
  BY <1>1, <1>4, <1>8 DEF EndOf
<1>10. Noted(g, t)
  <2>1. ASSUME NEW i \in 1..Len(g), NEW j \in i..Len(g) PROVE g[i] <= t /\ g[i] <= g[j]
    <3>1. j \in 1..Len(g)
      BY <1>1, <1>4, <1>8
    <3>2. g[i] = f[n + i] /\ g[j] = f[n + j]
      BY <1>8, <3>1
    <3>3. n + i \in 1..Len(f) /\ n + j \in (n + i)..Len(f)
      BY <1>1, <1>4, <1>8, <3>1
    <3> QED
      BY <3>2, <3>3 DEF Noted
  <2>2. ASSUME NEW i \in 1..Len(g) PROVE i \in i..Len(g)
    BY <1>1, <1>4, <1>8
  <2> QED
    BY <2>1, <2>2 DEF Noted
<1>11. \A i \in 1..Len(g) : t - g[i] <= WindowMs
  BY <1>5, <1>8
<1> QED
  BY <1>6, <1>7, <1>9, <1>10, <1>11

LEMMA EndOfEnd ==
    ASSUME NEW f \in Seq(Nat), NEW g \in Seq(Nat), NEW s \in Seq(Nat),
           EndOf(g, f), EndOf(f, s)
    PROVE  EndOf(g, s)
<1>1. Len(f) \in Nat /\ Len(g) \in Nat /\ Len(s) \in Nat /\ Len(g) <= Len(f) /\ Len(f) <= Len(s)
  BY DEF EndOf
<1>2. ASSUME NEW i \in 1..Len(g) PROVE g[i] = s[Len(s) - Len(g) + i]
  <2>0. Len(f) - Len(g) + i \in 1..Len(f)
    BY <1>1
  <2>1. g[i] = f[Len(f) - Len(g) + i]
    BY DEF EndOf
  <2>2. f[Len(f) - Len(g) + i] = s[Len(s) - Len(f) + (Len(f) - Len(g) + i)]
    BY <2>0 DEF EndOf
  <2>3. Len(s) - Len(f) + (Len(f) - Len(g) + i) = Len(s) - Len(g) + i
    BY <1>1
  <2> QED
    BY <2>1, <2>2, <2>3
<1> QED
  BY <1>1, <1>2 DEF EndOf

LEMMA AppendKeeps ==
    ASSUME NEW f \in Seq(Nat), NEW s \in Seq(Nat), NEW t \in Nat
    PROVE  /\ EndOf(f, s) => EndOf(Append(f, t), Append(s, t))
           /\ Noted(f, t) => Noted(Append(f, t), t)
<1>1. /\ Len(f) \in Nat /\ Len(s) \in Nat
      /\ \A i \in 1..Len(f) : f[i] \in Nat
  OBVIOUS
<1>2. PICK g : g = Append(f, t)
  OBVIOUS
<1>3. PICK r : r = Append(s, t)
  OBVIOUS
<1>4. /\ Len(g) = Len(f) + 1 /\ g[Len(f) + 1] = t /\ \A i \in 1..Len(f) : g[i] = f[i]
      /\ Len(r) = Len(s) + 1 /\ r[Len(s) + 1] = t /\ \A i \in 1..Len(s) : r[i] = s[i]
  BY <1>2, <1>3
<1>5. ASSUME EndOf(f, s) PROVE EndOf(g, r)
  <2>1. Len(f) <= Len(s)
    BY <1>5 DEF EndOf
  <2>2. ASSUME NEW i \in 1..Len(g) PROVE g[i] = r[Len(r) - Len(g) + i]
    <3>1. CASE i = Len(f) + 1
      <4>1. Len(r) - Len(g) + i = Len(s) + 1
        BY <1>1, <1>4, <3>1
      <4> QED
        BY <1>4, <3>1, <4>1
    <3>2. CASE i # Len(f) + 1
      <4>1. i \in 1..Len(f)
        BY <1>1, <1>4, <3>2
      <4>2. /\ Len(r) - Len(g) + i = Len(s) - Len(f) + i
            /\ Len(s) - Len(f) + i \in 1..Len(s)
        BY <1>1, <1>4, <2>1, <4>1
      <4>3. g[i] = f[i] /\ f[i] = s[Len(s) - Len(f) + i]
        BY <1>4, <1>5, <4>1 DEF EndOf
      <4> QED
        BY <1>4, <4>2, <4>3
    <3> QED
      BY <3>1, <3>2
  <2> QED
    BY <1>1, <1>4, <2>1, <2>2 DEF EndOf
<1>6. ASSUME Noted(f, t) PROVE Noted(g, t)
  <2>1. ASSUME NEW i \in 1..Len(g), NEW j \in i..Len(g) PROVE g[i] <= t /\ g[i] <= g[j]
    <3>1. j \in 1..Len(g)
      BY <1>1, <1>4
    <3>2. CASE i = Len(f) + 1
      BY <1>1, <1>4, <3>1, <3>2
    <3>3. CASE i # Len(f) + 1
      <4>1. i \in 1..Len(f) /\ g[i] = f[i] /\ f[i] <= t
        BY <1>1, <1>4, <1>6, <3>3 DEF Noted
      <4>2. CASE j = Len(f) + 1
        BY <1>4, <4>1, <4>2
      <4>3. CASE j # Len(f) + 1
        <5>1. j \in i..Len(f) /\ j \in 1..Len(f)
          BY <1>1, <1>4, <3>1, <4>3
        <5> QED
          BY <1>4, <1>6, <4>1, <5>1 DEF Noted
      <4> QED
        BY <4>2, <4>3
    <3> QED
      BY <3>2, <3>3
  <2>2. ASSUME NEW i \in 1..Len(g) PROVE i \in i..Len(g)
    BY <1>1, <1>4
  <2> QED
    BY <2>1, <2>2 DEF Noted
<1> QED
  BY <1>2, <1>3, <1>5, <1>6

LEMMA NewestIs ==
    ASSUME NEW f \in Seq(Nat), NEW s \in Seq(Nat), NEW n \in Nat, EndOf(f, s)
    PROVE  /\ Len(f) <= n => EndOf(f, Newest(s, n))
           /\ n <= Len(f) => Len(Newest(s, n)) = n /\ EndOf(Newest(s, n), f)
<1>1. Len(f) \in Nat /\ Len(s) \in Nat /\ Len(f) <= Len(s)
  BY DEF EndOf
<1>2. CASE Len(s) <= n
  <2>1. Newest(s, n) = s
    BY <1>2 DEF Newest
  <2>2. ASSUME n <= Len(f) PROVE Len(s) = n /\ EndOf(s, f)
    <3>1. Len(s) = n /\ Len(f) = n
      BY <1>1, <1>2, <2>2
    <3>2. \A i \in 1..n : f[i] = s[Len(s) - Len(f) + i] /\ Len(s) - Len(f) + i = i
      BY <3>1 DEF EndOf
    <3> QED
      BY <3>1, <3>2 DEF EndOf
  <2> QED
    BY <2>1, <2>2
<1>3. CASE n < Len(s)
  <2>1. PICK r : r = SubSeq(s, Len(s) - n + 1, Len(s))
    OBVIOUS
  <2>2. Newest(s, n) = r
    BY <1>1, <1>3, <2>1 DEF Newest
  <2>3. Len(r) = n /\ \A i \in 1..n : r[i] = s[Len(s) - n + i]
    BY <1>1, <1>3, <2>1
  <2>4. ASSUME Len(f) <= n PROVE EndOf(f, r)
    <3>1. ASSUME NEW i \in 1..Len(f) PROVE f[i] = r[Len(r) - Len(f) + i]
      <4>1. n - Len(f) + i \in 1..n /\ Len(s) - n + (n - Len(f) + i) = Len(s) - Len(f) + i
        BY <1>1, <2>4
      <4>2. r[n - Len(f) + i] = s[Len(s) - n + (n - Len(f) + i)]
        BY <2>3, <4>1
      <4>3. f[i] = s[Len(s) - Len(f) + i]
        BY DEF EndOf
      <4> QED
        BY <2>3, <4>1, <4>2, <4>3
    <3> QED
      BY <2>3, <2>4, <3>1 DEF EndOf
  <2>5. ASSUME n <= Len(f) PROVE EndOf(r, f)
    <3>1. ASSUME NEW i \in 1..Len(r) PROVE r[i] = f[Len(f) - Len(r) + i]
      <4>1. Len(f) - n + i \in 1..Len(f) /\ Len(s) - Len(f) + (Len(f) - n + i) = Len(s) - n + i
        BY <1>1, <2>3, <2>5
      <4>2. f[Len(f) - n + i] = s[Len(s) - Len(f) + (Len(f) - n + i)]
        BY <4>1 DEF EndOf
      <4> QED
        BY <2>3, <4>1, <4>2
    <3> QED
      BY <2>3, <2>5, <3>1 DEF EndOf
  <2> QED
    BY <2>2, <2>3, <2>4, <2>5
<1> QED
  BY <1>1, <1>2, <1>3

Earned == (StateOf(circuit, now) = "closed" /\ StateOf(circuit', now') = "open")
             => /\ Len(streak') = FailureThreshold
                /\ \A i \in 1..Len(streak') : now - (streak')[i] <= WindowMs

(* The failure that trips the breaker is the last of enough failures, all  *)
(* within the window; any other failure of a closed breaker is the last of *)
(* those it remembers.                                                     *)
LEMMA FailureEarns ==
    ASSUME BreakerTypeOK, StreakInv, RecordFailure, UNCHANGED now
    PROVE  StreakInv' /\ Earned
<1> DEFINE r == circuit.recentFailures
           f == InWindow(r, now)
           recent == Append(f, now)
           m == MaybeTransition(circuit, now)
<1>1. /\ circuit \in CircuitStats /\ now \in Nat /\ streak \in Seq(Nat)
      /\ r \in Seq(Nat) /\ Noted(r, now)
      /\ FailureThreshold \in Nat /\ WindowMs \in Nat
  BY BreakerConfig DEF BreakerTypeOK, StreakInv, CircuitStats
<1>2. /\ m \in CircuitStats /\ m.recentFailures = r
      /\ m.state # "half-open" => m = circuit
      /\ m.state = "closed" <=> circuit.state = "closed"
  BY <1>1 DEF MaybeTransition, CircuitStats, CircuitState
<1>3. f \in Seq(Nat) /\ EndOf(f, r) /\ Noted(f, now)
      /\ \A i \in 1..Len(f) : now - f[i] <= WindowMs
  BY <1>1, InWindowType, InWindowIs
<1>4. recent \in Seq(Nat) /\ Noted(recent, now)
      /\ \A i \in 1..Len(recent) : now - recent[i] <= WindowMs
  <2>1. recent \in Seq(Nat) /\ Noted(recent, now)
    BY <1>1, <1>3, AppendKeeps
  <2>2. ASSUME NEW i \in 1..Len(recent) PROVE now - recent[i] <= WindowMs
    BY <1>1, <1>3
  <2> QED
    BY <2>1, <2>2
<1>5. m.state \in CircuitState /\ StateOf(circuit, now) = m.state
  BY <1>2 DEF CircuitStats, StateOf
<1>6. circuit' = AfterFailure(circuit, now) /\ now' = now
      /\ streak' = Newest(Append(streak, now), FailureThreshold)
  BY DEF RecordFailure
<1>7. AfterFailure(circuit, now) =
        CASE m.state = "half-open" ->
               [m EXCEPT !.state = "open", !.openedAt = now, !.recentSuccesses = 0]
          [] m.state = "closed" ->
               IF Len(recent) >= FailureThreshold
               THEN [m EXCEPT !.state = "open", !.openedAt = now, !.recentFailures = recent]
               ELSE [m EXCEPT !.recentFailures = recent]
          [] m.state = "open" -> m
  BY <1>2 DEF AfterFailure
<1>8. CASE m.state = "half-open"
  <2>1. (circuit').recentFailures = r /\ (circuit').state = "open"
    <3>1. circuit' = [m EXCEPT !.state = "open", !.openedAt = now, !.recentSuccesses = 0]
      BY <1>6, <1>7, <1>8
    <3> QED
      BY <1>2, <3>1 DEF CircuitStats
  <2> QED
    BY <1>1, <1>5, <1>6, <1>8, <2>1 DEF StreakInv, Earned
<1>9. CASE m.state = "open"
  <2>1. circuit' = circuit /\ circuit.state = "open"
    BY <1>2, <1>6, <1>7, <1>9
  <2> QED
    BY <1>1, <1>5, <1>6, <1>9, <2>1 DEF StreakInv, Earned
<1>10. CASE m.state = "closed"
  <2>1. circuit.state = "closed" /\ EndOf(r, streak)
    BY <1>2, <1>10 DEF StreakInv
  <2>2. EndOf(f, streak)
    BY <1>1, <1>3, <2>1, EndOfEnd
  <2>3. EndOf(recent, Append(streak, now)) /\ Append(streak, now) \in Seq(Nat)
    BY <1>1, <1>3, <2>2, AppendKeeps
  <2>4. /\ Len(recent) <= FailureThreshold => EndOf(recent, streak')
        /\ FailureThreshold <= Len(recent)
             => Len(streak') = FailureThreshold /\ EndOf(streak', recent)
    BY <1>1, <1>4, <1>6, <2>3, NewestIs
  <2>5. /\ (circuit').recentFailures = recent
        /\ (circuit').state = "closed" => ~(Len(recent) >= FailureThreshold)
        /\ (circuit').state = "open" => Len(recent) >= FailureThreshold
    <3>1. circuit' = IF Len(recent) >= FailureThreshold
                     THEN [m EXCEPT !.state = "open", !.openedAt = now, !.recentFailures = recent]
                     ELSE [m EXCEPT !.recentFailures = recent]
      BY <1>6, <1>7, <1>10
    <3> HIDE DEF recent, m
    <3> QED
      BY <1>2, <1>10, <3>1 DEF CircuitStats
  <2> HIDE DEF recent, f, m, r
  <2>6. Len(recent) \in Nat
    BY <1>4
  <2>7. StreakInv'
    BY <1>1, <1>4, <1>6, <2>4, <2>5, <2>6 DEF StreakInv
  <2>8. ASSUME StateOf(circuit', now') = "open"
        PROVE  /\ Len(streak') = FailureThreshold
               /\ \A i \in 1..Len(streak') : now - (streak')[i] <= WindowMs
    <3>1. (circuit').state = "open"
      BY <2>8 DEF StateOf, MaybeTransition
    <3>2. Len(streak') = FailureThreshold /\ EndOf(streak', recent)
      BY <2>4, <2>5, <3>1
    <3>3. ASSUME NEW i \in 1..Len(streak') PROVE now - (streak')[i] <= WindowMs
      <4>1. PICK j : j = Len(recent) - Len(streak') + i
        OBVIOUS
      <4>2. (streak')[i] = recent[j] /\ Len(streak') <= Len(recent)
        BY <3>2, <4>1 DEF EndOf
      <4>3. j \in 1..Len(recent)
        BY <1>1, <2>6, <3>2, <4>1, <4>2
      <4> QED
        BY <1>4, <4>2, <4>3
    <3> QED
      BY <3>2, <3>3
  <2> QED
    BY <2>7, <2>8 DEF Earned
<1> QED
  BY <1>5, <1>8, <1>9, <1>10 DEF CircuitState

LEMMA StreakStep ==
    ASSUME BreakerTypeOK, StreakInv, [BreakerNext]_breakerVars
    PROVE  StreakInv' /\ Earned
<1>1. /\ circuit \in CircuitStats /\ now \in Nat /\ circuit.recentFailures \in Seq(Nat)
      /\ Noted(circuit.recentFailures, now)
      /\ EndOf(<<>>, streak) /\ EndOf(<<>>, <<>>) /\ Noted(<<>>, now)
  BY DEF BreakerTypeOK, StreakInv, CircuitStats, EndOf, Noted
<1> USE DEF StreakInv, Earned, StateOf, MaybeTransition, CircuitStats, CircuitState
<1>2. CASE Look /\ UNCHANGED now
  BY <1>1, <1>2, BreakerConfig DEF Look
<1>3. CASE RecordSuccess /\ UNCHANGED now
  BY <1>1, <1>3, BreakerConfig DEF RecordSuccess, AfterSuccess, Closed, Interrupted
<1>4. CASE RecordFailure /\ UNCHANGED now
  BY <1>4, FailureEarns
<1>5. CASE ResetStats /\ UNCHANGED now
  BY <1>1, <1>5 DEF ResetStats, Fresh
<1>6. CASE now' = now + 1 /\ Untouched
  <2>1. Noted(circuit.recentFailures, now + 1)
    BY <1>1 DEF Noted
  <2> QED
    BY <1>1, <1>6, <2>1 DEF Untouched
<1>7. CASE UNCHANGED breakerVars
  BY <1>1, <1>7 DEF breakerVars
<1> QED
  BY <1>2, <1>3, <1>4, <1>5, <1>6, <1>7 DEF BreakerNext

(* The breaker trips from closed only on FailureThreshold failures within  *)
(* the window and no success among them, whichever calls they were of.     *)
THEOREM TripsAreEarned == Spec => TripIsEarned
<1>1. Init => StreakInv
  BY DEF Init, BreakerInit, Fresh, StreakInv, Noted, EndOf
<1>2. TypeInv /\ StreakInv /\ [Next]_vars => StreakInv' /\ Earned
  BY StepsUseMethods, StreakStep DEF TypeInv
<1>3. TypeInv /\ StreakInv /\ [Next]_vars
        => [(StateOf(circuit, now) = "closed" /\ StateOf(circuit', now') = "open")
              => /\ Len(streak') = FailureThreshold
                 /\ \A i \in 1..Len(streak') : now - streak'[i] <= WindowMs]_vars
  BY <1>2 DEF Earned
<1> QED
  BY <1>1, <1>2, <1>3, TypeInvariance, PTL DEF Spec, TripIsEarned

=============================================================================
