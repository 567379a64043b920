------------------------------- MODULE MCBudget -------------------------------
(* A small instance of BudgetTracker for TLC: caps that one, two and three *)
(* commits cross, a warning threshold between two amounts, and a midnight  *)
(* that ends a month as well as one that does not.                         *)
EXTENDS BudgetTracker, TLC

CONSTANTS r1, r2, r3

MCBudget == "day" :> 3 @@ "month" :> 4 @@ "total" :> 5
MCUnlimited == -1
MCRequests == {r1, r2, r3}
Symmetry == Permutations(MCRequests)
=============================================================================
