----------------------------- MODULE MCLifecycle -----------------------------
(* A small instance of Lifecycle for TLC: the deadline falls between two   *)
(* looks of the drain loop, and one request may come over a connection     *)
(* that outlives the listener.                                             *)
EXTENDS Lifecycle

CONSTANTS r1, r2, r3

MCRequests == {r1, r2, r3}
MCKeptAlive == {r3}
=============================================================================
