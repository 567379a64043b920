----------------------------- MODULE TokenBucket -----------------------------
(***************************************************************************)
(* connector/token-bucket.ts: the bucket that limits the calls made to one *)
(* vendor.  The code keeps fractional tokens; here one token is TokenUnit  *)
(* units and every tick adds RefillRate of them, so that (with TokenUnit = *)
(* 1000 and ticks of one millisecond) the arithmetic of the code is exact. *)
(***************************************************************************)
EXTENDS Integers

CONSTANTS TokenUnit,   \* units that make one token
          RefillRate,  \* units added per tick: refillPerSecond
          Capacity     \* the largest number of units the bucket holds

ASSUME BucketConfig ==
    /\ TokenUnit \in Nat \ {0}
    /\ RefillRate \in Nat \ {0}
    /\ Capacity \in Nat

VARIABLES bucket,  \* what is left of it
          spent    \* auxiliary: units taken out of it so far

Bucket == [tokens: 0..Capacity, lastRefillMs: Nat]

Least(a, b) == IF a <= b THEN a ELSE b

(* mutant: the time of the refill is not remembered *)
Refill_ForgetsTime(b, t) ==
    IF t <= b.lastRefillMs THEN b
    ELSE [b EXCEPT !.tokens = Least(Capacity, @ + (t - b.lastRefillMs) * RefillRate)]

Refill(b, t) ==
    IF t <= b.lastRefillMs THEN b
    ELSE [tokens |-> Least(Capacity, b.tokens + (t - b.lastRefillMs) * RefillRate),
          lastRefillMs |-> t]

-----------------------------------------------------------------------------
BucketInit == /\ bucket = [tokens |-> Capacity, lastRefillMs |-> 0]
              /\ spent = 0

(* reserve() at time t when it returns 0: a whole token is there. *)
Take(t) == /\ Refill(bucket, t).tokens >= TokenUnit
           /\ bucket' = [Refill(bucket, t) EXCEPT !.tokens = @ - TokenUnit]
           /\ spent' = spent + TokenUnit

(* reserve() when it returns how long to wait. *)
MustWait(t) == /\ Refill(bucket, t).tokens < TokenUnit
               /\ bucket' = Refill(bucket, t)
               /\ UNCHANGED spent

(* That answer: the deficit at the refill rate, rounded up. *)
WaitMs(t) == LET deficit == TokenUnit - Refill(bucket, t).tokens
             IN  (deficit + RefillRate - 1) \div RefillRate

BucketTypeOK == bucket \in Bucket /\ spent \in Nat
=============================================================================
