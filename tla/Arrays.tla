-------------------------------- MODULE Arrays --------------------------------
(***************************************************************************)
(* What the source does with arrays: Array.prototype.map and filter.       *)
(* SelectSeq would do as well, but its definition is not open to proofs.   *)
(***************************************************************************)
EXTENDS Naturals, Sequences

Mapped(Op(_), s) == [i \in DOMAIN s |-> Op(s[i])]

(* What stands at the places, in their order. *)
Kept(s, places) ==
    LET kept[n \in 0..Len(s)] ==
          IF n = 0 THEN <<>>
          ELSE IF n \in places THEN Append(kept[n - 1], s[n]) ELSE kept[n - 1]
    IN  kept[Len(s)]

Filter(s, Test(_)) == Kept(s, {i \in DOMAIN s : Test(s[i])})
=============================================================================
