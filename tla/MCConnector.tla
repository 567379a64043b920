----------------------------- MODULE MCConnector -----------------------------
(* Small instances of Connector for TLC.  A token is two units and a tick  *)
(* adds one, so fractions of a token and rounded-up waits both occur.      *)
EXTENDS Connector, TLC

CONSTANTS c1, c2, c3

(* One call or probe that is not retried, one that is retried and may be    *)
(* aborted, one stream.                                                     *)
MCOptions == c1 :> {{"disableRetry"}, {"bypassCircuit", "disableRetry"}}
             @@ c2 :> {{"signal"}} @@ c3 :> {{"stream"}}
MCExpDelay == [n \in 1..MaxAttempts |-> 2 ^ (n - 1)]

(* InWindow against the filter it stands for, on every ordered sequence.   *)
ASSUME InWindowIsTheFilter ==
    \A n \in 0..3, t \in 0..5 :
        \A f \in [1..n -> 0..t] :
            (\A i \in 1..(n - 1) : f[i] <= f[i + 1])
              => InWindow(f, t) = SelectSeq(f, LAMBDA at : t - at <= WindowMs)

=============================================================================
