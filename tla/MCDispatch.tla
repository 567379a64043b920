------------------------------ MODULE MCDispatch ------------------------------
(* A small instance of Dispatch for TLC: a key limited in requests and one *)
(* limited in tokens below its limit of requests, two protocols that share *)
(* a fingerprint, a stream and a second fingerprint.                       *)
EXTENDS Dispatch, TLC

CONSTANTS r1, r2, r3, k1, k2

MCKeys == {k1, k2}
MCRequests == {r1, r2, r3}
MCLimits == k1 :> [rpm |-> 1, tpm |-> NoLimit] @@ k2 :> [rpm |-> 2, tpm |-> 3]

MCWant(k, f, p, s) == [key |-> k, fingerprint |-> f, protocol |-> p, stream |-> s]

MCWants == r1 :> {MCWant(k1, "f", "chat", FALSE)}
           @@ r2 :> {MCWant(k1, "f", "chat", TRUE), MCWant(k2, "f", "messages", FALSE)}
           @@ r3 :> {MCWant(k1, "f", "chat", FALSE), MCWant(k2, "g", "chat", FALSE)}

(* A client that waits as long as Retry-After says finds the next minute,  *)
(* and has not waited a second too many.                                   *)
ASSUME RetryAfterIsEnough ==
    \A t \in 0..20 :
        LET back == t + RetryAfter(t) * SecondMs
        IN  /\ MinuteKey(back) > MinuteKey(t)
            /\ MinuteKey(back - SecondMs) = MinuteKey(t) \/ back - SecondMs < t
=============================================================================
