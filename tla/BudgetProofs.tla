----------------------------- MODULE BudgetProofs -----------------------------
(***************************************************************************)
(* Proofs about BudgetTracker, for every set of requests, estimates, costs *)
(* and modes, every cap, length of the month, number of days and choice of *)
(* resets.  First what each step of commit() does to one table and memory  *)
(* (a world), then the invariant: rows and warnings agree (StoreOk), the   *)
(* memory knows of every warning and reads no less than the rows (SnapOk). *)
(* Neither would last without the other: a commit decides by its memory    *)
(* whether to warn, and loads its memory from the rows.                    *)
(***************************************************************************)
EXTENDS BudgetTracker, FiniteSetTheorems, TLAPS

(* What commit() works on: any contents of table and memory. *)
Rows == [PeriodKeys -> Counter]
Snapshots == {s \in [Periods -> PeriodState] : \A p \in Periods : s[p].key[1] = p}
Warnings == [PeriodKeys -> Nat]

IsWorld(w) ==
    /\ w = [rows |-> w.rows, snapshot |-> w.snapshot, warnings |-> w.warnings]
    /\ w.rows \in Rows /\ w.snapshot \in Snapshots /\ w.warnings \in Warnings

(* Whether a period has warned, as applyOne sees it. *)
Warned(w, p, k) == IF w.snapshot[p].key = k THEN w.snapshot[p].warned ELSE w.rows[k].warned

-----------------------------------------------------------------------------
(* The key of a period names it. *)
LEMMA KeyFacts ==
    ASSUME NEW p \in Periods, NEW d \in 0..LastDay
    PROVE  KeyAt(p, d) \in PeriodKeys /\ KeyAt(p, d)[1] = p
BY DEF Periods, PeriodKeys, KeyAt

(* loadPeriod returns what the row holds. *)
LEMMA LoadType ==
    ASSUME NEW p \in Periods, NEW k \in PeriodKeys, NEW R \in Rows
    PROVE  /\ Load(k, R) \in PeriodState
           /\ Load(k, R).key = k /\ Load(k, R).spent = R[k].spent /\ Load(k, R).warned = R[k].warned
BY DEF Load, Rows, PeriodState, Counter

(* A world one of whose snapshot's periods, and one of whose rows, changed. *)
LEMMA RekeyIs ==
    ASSUME NEW w, IsWorld(w), NEW p \in Periods, NEW k \in PeriodKeys, k[1] = p
    PROVE  LET v == Rekey(w, p, k)
           IN  /\ IsWorld(v)
               /\ v.rows = w.rows /\ v.warnings = w.warnings
               /\ \A q \in Periods \ {p} : v.snapshot[q] = w.snapshot[q]
               /\ v.snapshot[p].key = k
               /\ v.snapshot[p].warned = Warned(w, p, k)
               /\ v.snapshot[p].spent = IF w.snapshot[p].key = k THEN w.snapshot[p].spent
                                        ELSE w.rows[k].spent
<1> DEFINE s == [w.snapshot EXCEPT ![p] = Load(k, w.rows)]
           v == [rows |-> w.rows, snapshot |-> s, warnings |-> w.warnings]
<1>0. w.rows \in Rows /\ w.snapshot \in Snapshots /\ w.warnings \in Warnings
      /\ w = [rows |-> w.rows, snapshot |-> w.snapshot, warnings |-> w.warnings]
  BY DEF IsWorld
<1>1. CASE w.snapshot[p].key = k
  BY <1>1 DEF Rekey, Warned
<1>2. CASE w.snapshot[p].key # k
  <2>1. Rekey(w, p, k) = [w EXCEPT !.snapshot[p] = Load(k, w.rows)]
    BY <1>2 DEF Rekey
  <2>2. Rekey(w, p, k) = v
    BY <1>0, <2>1
  <2>3. /\ s \in Snapshots /\ s[p] = Load(k, w.rows)
        /\ \A q \in Periods \ {p} : s[q] = w.snapshot[q]
    <3>1. Load(k, w.rows) \in PeriodState /\ Load(k, w.rows).key = k
      BY <1>0, LoadType
    <3> QED
      BY <1>0, <3>1 DEF Snapshots
  <2>4. v.rows = w.rows /\ v.snapshot = s /\ v.warnings = w.warnings
    OBVIOUS
  <2> HIDE DEF s, v
  <2>5. IsWorld(v)
    BY <1>0, <2>3, <2>4 DEF IsWorld, v
  <2>6. s[p].key = k /\ s[p].spent = w.rows[k].spent /\ s[p].warned = w.rows[k].warned
    BY <1>0, <2>3, LoadType
  <2> QED
    BY <1>2, <2>2, <2>3, <2>4, <2>5, <2>6 DEF Warned
<1> QED
  BY <1>1, <1>2

(* A world in which period p, with key k, has the amount t, and its        *)
(* warning is marked in memory (a), in the row (b) and written n times.    *)
Altered(w, p, k, t, a, b, n) ==
    [rows |-> [w.rows EXCEPT ![k] = [spent |-> t, warned |-> b]],
     snapshot |-> [w.snapshot EXCEPT ![p] = [key |-> k, spent |-> t, warned |-> a]],
     warnings |-> [w.warnings EXCEPT ![k] = n]]

(* What it holds, there and elsewhere. *)
LEMMA AlteredIs ==
    ASSUME NEW w, IsWorld(w), NEW p \in Periods, NEW k \in PeriodKeys,
           NEW t, NEW a, NEW b, NEW n
    PROVE  LET v == Altered(w, p, k, t, a, b, n) IN
           /\ \A j \in PeriodKeys \ {k} : v.rows[j] = w.rows[j] /\ v.warnings[j] = w.warnings[j]
           /\ \A q \in Periods \ {p} : v.snapshot[q] = w.snapshot[q]
           /\ v.snapshot[p].key = k /\ v.snapshot[p].spent = t /\ v.snapshot[p].warned = a
           /\ v.rows[k].spent = t /\ v.rows[k].warned = b /\ v.warnings[k] = n
<1> DEFINE v == Altered(w, p, k, t, a, b, n)
<1>0. w.rows \in Rows /\ w.snapshot \in Snapshots /\ w.warnings \in Warnings
  BY DEF IsWorld
<1>1. /\ v.rows = [w.rows EXCEPT ![k] = [spent |-> t, warned |-> b]]
      /\ v.snapshot = [w.snapshot EXCEPT ![p] = [key |-> k, spent |-> t, warned |-> a]]
      /\ v.warnings = [w.warnings EXCEPT ![k] = n]
  BY DEF Altered
<1> HIDE DEF v
<1>2. v.rows[k] = [spent |-> t, warned |-> b]
      /\ \A j \in PeriodKeys \ {k} : v.rows[j] = w.rows[j]
  BY <1>0, <1>1 DEF Rows
<1>3. v.snapshot[p] = [key |-> k, spent |-> t, warned |-> a]
      /\ \A q \in Periods \ {p} : v.snapshot[q] = w.snapshot[q]
  BY <1>0, <1>1 DEF Snapshots
<1>4. v.warnings[k] = n
      /\ \A j \in PeriodKeys \ {k} : v.warnings[j] = w.warnings[j]
  BY <1>0, <1>1 DEF Warnings
<1> QED
  BY <1>1, <1>2, <1>3, <1>4 DEF v

(* ... and it is a world again. *)
LEMMA AlteredType ==
    ASSUME NEW w, IsWorld(w), NEW p \in Periods, NEW k \in PeriodKeys, k[1] = p,
           NEW t \in Nat, NEW a \in BOOLEAN, NEW b \in BOOLEAN, NEW n \in Nat
    PROVE  IsWorld(Altered(w, p, k, t, a, b, n))
<1> DEFINE v == Altered(w, p, k, t, a, b, n)
<1>0. w.rows \in Rows /\ w.snapshot \in Snapshots /\ w.warnings \in Warnings
  BY DEF IsWorld
<1>1. /\ v.rows = [w.rows EXCEPT ![k] = [spent |-> t, warned |-> b]]
      /\ v.snapshot = [w.snapshot EXCEPT ![p] = [key |-> k, spent |-> t, warned |-> a]]
      /\ v.warnings = [w.warnings EXCEPT ![k] = n]
      /\ v = [rows |-> v.rows, snapshot |-> v.snapshot, warnings |-> v.warnings]
  BY DEF Altered
<1> HIDE DEF v
<1>2. v.rows \in Rows
  BY <1>0, <1>1 DEF Rows, Counter
<1>3. v.snapshot \in Snapshots
  BY <1>0, <1>1 DEF Snapshots, PeriodState
<1>4. v.warnings \in Warnings
  BY <1>0, <1>1 DEF Warnings
<1>5. IsWorld(v)
  BY <1>1, <1>2, <1>3, <1>4 DEF IsWorld
<1> QED
  BY <1>5 DEF v

(* The types of the parts of a world. *)
LEMMA WorldType ==
    ASSUME NEW w, IsWorld(w), NEW p \in Periods, NEW k \in PeriodKeys
    PROVE  /\ w.rows[k].spent \in Nat /\ w.rows[k].warned \in BOOLEAN
           /\ w.snapshot[p].spent \in Nat /\ w.snapshot[p].warned \in BOOLEAN
           /\ w.snapshot[p].key \in PeriodKeys /\ w.snapshot[p].key[1] = p
           /\ w.warnings[k] \in Nat
           /\ w.rows[k] = [spent |-> w.rows[k].spent, warned |-> w.rows[k].warned]
           /\ Warned(w, p, k) \in BOOLEAN
BY DEF IsWorld, Rows, Snapshots, Warnings, Counter, PeriodState, Warned

(* How commit() writes into table and memory, one at a time. *)
LEMMA WriteAmount ==
    ASSUME NEW R, NEW S, NEW W, NEW i, NEW x,
           NEW w, w = [rows |-> R, snapshot |-> S, warnings |-> W]
    PROVE  [w EXCEPT !.rows[i].spent = x] = [rows |-> [R EXCEPT ![i].spent = x], snapshot |-> S, warnings |-> W]
<1>1. [w EXCEPT !.rows[i].spent = x] = [w EXCEPT !.rows = [w.rows EXCEPT ![i].spent = x]]
  OBVIOUS
<1>2. w.rows = R
  OBVIOUS
<1>3. ASSUME NEW y PROVE [w EXCEPT !.rows = y] = [rows |-> y, snapshot |-> S, warnings |-> W]
  OBVIOUS
<1> QED
  BY <1>1, <1>2, <1>3

LEMMA WriteMark ==
    ASSUME NEW R, NEW S, NEW W, NEW i, NEW x,
           NEW w, w = [rows |-> R, snapshot |-> S, warnings |-> W]
    PROVE  [w EXCEPT !.rows[i].warned = x] = [rows |-> [R EXCEPT ![i].warned = x], snapshot |-> S, warnings |-> W]
<1>1. [w EXCEPT !.rows[i].warned = x] = [w EXCEPT !.rows = [w.rows EXCEPT ![i].warned = x]]
  OBVIOUS
<1>2. w.rows = R
  OBVIOUS
<1>3. ASSUME NEW y PROVE [w EXCEPT !.rows = y] = [rows |-> y, snapshot |-> S, warnings |-> W]
  OBVIOUS
<1> QED
  BY <1>1, <1>2, <1>3

LEMMA SetAmount ==
    ASSUME NEW R, NEW S, NEW W, NEW i, NEW x,
           NEW w, w = [rows |-> R, snapshot |-> S, warnings |-> W]
    PROVE  [w EXCEPT !.snapshot[i].spent = x] = [rows |-> R, snapshot |-> [S EXCEPT ![i].spent = x], warnings |-> W]
<1>1. [w EXCEPT !.snapshot[i].spent = x] = [w EXCEPT !.snapshot = [w.snapshot EXCEPT ![i].spent = x]]
  OBVIOUS
<1>2. w.snapshot = S
  OBVIOUS
<1>3. ASSUME NEW y PROVE [w EXCEPT !.snapshot = y] = [rows |-> R, snapshot |-> y, warnings |-> W]
  OBVIOUS
<1> QED
  BY <1>1, <1>2, <1>3

LEMMA SetMark ==
    ASSUME NEW R, NEW S, NEW W, NEW i, NEW x,
           NEW w, w = [rows |-> R, snapshot |-> S, warnings |-> W]
    PROVE  [w EXCEPT !.snapshot[i].warned = x] = [rows |-> R, snapshot |-> [S EXCEPT ![i].warned = x], warnings |-> W]
<1>1. [w EXCEPT !.snapshot[i].warned = x] = [w EXCEPT !.snapshot = [w.snapshot EXCEPT ![i].warned = x]]
  OBVIOUS
<1>2. w.snapshot = S
  OBVIOUS
<1>3. ASSUME NEW y PROVE [w EXCEPT !.snapshot = y] = [rows |-> R, snapshot |-> y, warnings |-> W]
  OBVIOUS
<1> QED
  BY <1>1, <1>2, <1>3

LEMMA WriteEvent ==
    ASSUME NEW R, NEW S, NEW W, NEW i, NEW x,
           NEW w, w = [rows |-> R, snapshot |-> S, warnings |-> W]
    PROVE  [w EXCEPT !.warnings[i] = x] = [rows |-> R, snapshot |-> S, warnings |-> [W EXCEPT ![i] = x]]
<1>1. [w EXCEPT !.warnings[i] = x] = [w EXCEPT !.warnings = [w.warnings EXCEPT ![i] = x]]
  OBVIOUS
<1>2. w.warnings = W
  OBVIOUS
<1>3. ASSUME NEW y PROVE [w EXCEPT !.warnings = y] = [rows |-> R, snapshot |-> S, warnings |-> y]
  OBVIOUS
<1> QED
  BY <1>1, <1>2, <1>3

(* The increment, after the snapshot was brought to the key. *)
LEMMA IncrementIs ==
    ASSUME NEW w, IsWorld(w), NEW p \in Periods, NEW k \in PeriodKeys, k[1] = p,
           NEW cost \in Nat
    PROVE  Increment(Rekey(w, p, k), p, k, cost) =
             Altered(w, p, k, w.rows[k].spent + cost, Warned(w, p, k), w.rows[k].warned,
                     w.warnings[k])
<1> DEFINE u == Rekey(w, p, k)
           t == w.rows[k].spent + cost
<1>1. /\ IsWorld(u) /\ u.rows = w.rows /\ u.warnings = w.warnings
      /\ \A q \in Periods \ {p} : u.snapshot[q] = w.snapshot[q]
      /\ u.snapshot[p].key = k /\ u.snapshot[p].warned = Warned(w, p, k)
  BY RekeyIs
<1> HIDE DEF u
<1>2. Increment(u, p, k, cost) =
        [rows |-> [w.rows EXCEPT ![k].spent = t], snapshot |-> [u.snapshot EXCEPT ![p].spent = t],
         warnings |-> w.warnings]
  <2>1. u = [rows |-> w.rows, snapshot |-> u.snapshot, warnings |-> w.warnings]
    BY <1>1 DEF IsWorld
  <2>2. Increment(u, p, k, cost) = [u EXCEPT !.rows[k].spent = t, !.snapshot[p].spent = t]
    BY <1>1 DEF Increment
  <2>3. [u EXCEPT !.rows[k].spent = t, !.snapshot[p].spent = t]
          = [[u EXCEPT !.rows[k].spent = t] EXCEPT !.snapshot[p].spent = t]
    OBVIOUS
  <2>4. [u EXCEPT !.rows[k].spent = t] =
          [rows |-> [w.rows EXCEPT ![k].spent = t], snapshot |-> u.snapshot, warnings |-> w.warnings]
    BY <2>1, WriteAmount
  <2> QED
    BY <2>2, <2>3, <2>4, SetAmount
<1>3. [w.rows EXCEPT ![k].spent = t] = [w.rows EXCEPT ![k] = [spent |-> t, warned |-> w.rows[k].warned]]
  BY DEF IsWorld, Rows, Counter
<1>4. [u.snapshot EXCEPT ![p].spent = t] =
        [w.snapshot EXCEPT ![p] = [key |-> k, spent |-> t, warned |-> Warned(w, p, k)]]
  <2>1. u.snapshot \in [Periods -> PeriodState] /\ w.snapshot \in [Periods -> PeriodState]
    BY <1>1 DEF IsWorld, Snapshots
  <2>2. [u.snapshot[p] EXCEPT !.spent = t] =
          [key |-> k, spent |-> t, warned |-> Warned(w, p, k)]
    BY <1>1, <2>1 DEF PeriodState
  <2> QED
    BY <1>1, <2>1, <2>2
<1>5. w.warnings = [w.warnings EXCEPT ![k] = w.warnings[k]]
  BY DEF IsWorld, Warnings
<1> QED
  BY <1>2, <1>3, <1>4, <1>5 DEF Altered, u

(* What applyOne does to period p. *)
Total(w, k, cost) == w.rows[k].spent + cost

Warns(w, p, k, cost) == /\ Budget[p] # Unlimited
                        /\ ~Warned(w, p, k)
                        /\ 10 * Total(w, k, cost) >= 8 * Budget[p]

(* As WorldType, for the amounts and marks of applyOne. *)
LEMMA PartsType ==
    ASSUME NEW w, IsWorld(w), NEW p \in Periods, NEW k \in PeriodKeys, NEW cost \in Nat
    PROVE  /\ Total(w, k, cost) \in Nat /\ w.rows[k].warned \in BOOLEAN
           /\ w.warnings[k] \in Nat /\ w.warnings[k] + 1 \in Nat
           /\ Warned(w, p, k) \in BOOLEAN
<1>1. w.rows[k].spent \in Nat /\ w.warnings[k] \in Nat
  BY WorldType, Zenon
<1>2. Total(w, k, cost) \in Nat /\ w.warnings[k] + 1 \in Nat
  BY <1>1 DEF Total
<1> QED
  BY <1>1, <1>2, WorldType, Zenon

(* Marking an entry that was just written is writing it marked. *)
LEMMA MarkOne ==
    ASSUME NEW f, NEW k \in DOMAIN f, NEW r, NEW m, NEW x, [r EXCEPT !.warned = x] = m
    PROVE  [[f EXCEPT ![k] = r] EXCEPT ![k].warned = x] = [f EXCEPT ![k] = m]
<1> DEFINE g == [f EXCEPT ![k] = r]
           h == [f EXCEPT ![k] = m]
<1>1. g[k] = r /\ DOMAIN g = DOMAIN f
  OBVIOUS
<1>2. [g EXCEPT ![k].warned = x] = [g EXCEPT ![k] = [g[k] EXCEPT !.warned = x]]
  OBVIOUS
<1>3. [g EXCEPT ![k].warned = x] = [g EXCEPT ![k] = m]
  BY <1>1, <1>2
<1>4. [g EXCEPT ![k] = m] = h
  OBVIOUS
<1> QED
  BY <1>3, <1>4

LEMMA MarkRow ==
    ASSUME NEW f, NEW k \in DOMAIN f, NEW t, NEW b, NEW x
    PROVE  [[f EXCEPT ![k] = [spent |-> t, warned |-> b]] EXCEPT ![k].warned = x]
             = [f EXCEPT ![k] = [spent |-> t, warned |-> x]]
<1>1. PICK r : r = [spent |-> t, warned |-> b]
  OBVIOUS
<1>2. PICK m : m = [spent |-> t, warned |-> x]
  OBVIOUS
<1>3. [r EXCEPT !.warned = x] = m
  BY <1>1, <1>2, Z3
<1>4. [[f EXCEPT ![k] = r] EXCEPT ![k].warned = x] = [f EXCEPT ![k] = m]
  BY <1>3, MarkOne, Zenon
<1> QED
  BY <1>1, <1>2, <1>4, Zenon

LEMMA MarkPeriod ==
    ASSUME NEW f, NEW p \in DOMAIN f, NEW k, NEW t, NEW a, NEW x
    PROVE  [[f EXCEPT ![p] = [key |-> k, spent |-> t, warned |-> a]] EXCEPT ![p].warned = x]
             = [f EXCEPT ![p] = [key |-> k, spent |-> t, warned |-> x]]
<1>1. PICK r : r = [key |-> k, spent |-> t, warned |-> a]
  OBVIOUS
<1>2. PICK m : m = [key |-> k, spent |-> t, warned |-> x]
  OBVIOUS
<1>3. [r EXCEPT !.warned = x] = m
  BY <1>1, <1>2, Z3
<1>4. [[f EXCEPT ![p] = r] EXCEPT ![p].warned = x] = [f EXCEPT ![p] = m]
  BY <1>3, MarkOne, Zenon
<1> QED
  BY <1>1, <1>2, <1>4, Zenon

(* The threshold is looked at with the amount of the row. *)
LEMMA DueIs ==
    ASSUME NEW w, IsWorld(w), NEW p \in Periods, NEW k \in PeriodKeys, k[1] = p,
           NEW cost \in Nat
    PROVE  Due(Increment(Rekey(w, p, k), p, k, cost), p) <=> Warns(w, p, k, cost)
<1> DEFINE v == Increment(Rekey(w, p, k), p, k, cost)
<1>1. v = Altered(w, p, k, Total(w, k, cost), Warned(w, p, k), w.rows[k].warned, w.warnings[k])
  BY IncrementIs DEF Total
<1> HIDE DEF v
<1>2. v.snapshot[p].spent = Total(w, k, cost) /\ v.snapshot[p].warned = Warned(w, p, k)
  BY <1>1, AlteredIs
<1>3. Due(v, p) <=> Warns(w, p, k, cost)
  BY <1>2, Zenon DEF Due, Warns
<1> QED
  BY <1>3 DEF v

(* Marking memory or row, or writing an event, changes just that. *)
LEMMA MarkedIs ==
    ASSUME NEW w, IsWorld(w), NEW p \in Periods, NEW k \in PeriodKeys,
           NEW t, NEW a, NEW b, NEW n, NEW x, NEW m
    PROVE  /\ [Altered(w, p, k, t, a, b, n) EXCEPT !.snapshot[p].warned = x] = Altered(w, p, k, t, x, b, n)
           /\ [Altered(w, p, k, t, a, b, n) EXCEPT !.rows[k].warned = x] = Altered(w, p, k, t, a, x, n)
           /\ [Altered(w, p, k, t, a, b, n) EXCEPT !.warnings[k] = m] = Altered(w, p, k, t, a, b, m)
           /\ Altered(w, p, k, t, a, b, n).warnings[k] = n
<1> DEFINE v == Altered(w, p, k, t, a, b, n)
           R == [w.rows EXCEPT ![k] = [spent |-> t, warned |-> b]]
           S == [w.snapshot EXCEPT ![p] = [key |-> k, spent |-> t, warned |-> a]]
           W == [w.warnings EXCEPT ![k] = n]
<1>0. k \in DOMAIN w.rows /\ p \in DOMAIN w.snapshot /\ k \in DOMAIN w.warnings
  BY DEF IsWorld, Rows, Snapshots, Warnings
<1>4. v = [rows |-> R, snapshot |-> S, warnings |-> W]
  BY DEF Altered
<1>5. [R EXCEPT ![k].warned = x] = [w.rows EXCEPT ![k] = [spent |-> t, warned |-> x]]
  BY <1>0, MarkRow
<1>6. [S EXCEPT ![p].warned = x] = [w.snapshot EXCEPT ![p] = [key |-> k, spent |-> t, warned |-> x]]
  BY <1>0, MarkPeriod
<1>7. [W EXCEPT ![k] = m] = [w.warnings EXCEPT ![k] = m] /\ W[k] = n
  BY <1>0
<1>11. Altered(w, p, k, t, x, b, n) =
         [rows |-> R, snapshot |-> [w.snapshot EXCEPT ![p] = [key |-> k, spent |-> t, warned |-> x]],
          warnings |-> W]
  BY DEF Altered
<1>12. Altered(w, p, k, t, a, x, n) =
         [rows |-> [w.rows EXCEPT ![k] = [spent |-> t, warned |-> x]], snapshot |-> S, warnings |-> W]
  BY DEF Altered
<1>13. Altered(w, p, k, t, a, b, m) =
         [rows |-> R, snapshot |-> S, warnings |-> [w.warnings EXCEPT ![k] = m]]
  BY DEF Altered
<1> HIDE DEF v, R, S, W
<1>8. [v EXCEPT !.snapshot[p].warned = x] = [rows |-> R, snapshot |-> [S EXCEPT ![p].warned = x], warnings |-> W]
  BY <1>4, SetMark
<1>9. [v EXCEPT !.rows[k].warned = x] = [rows |-> [R EXCEPT ![k].warned = x], snapshot |-> S, warnings |-> W]
  BY <1>4, WriteMark
<1>10. [v EXCEPT !.warnings[k] = m] = [rows |-> R, snapshot |-> S, warnings |-> [W EXCEPT ![k] = m]]
  BY <1>4, WriteEvent
<1>14. [v EXCEPT !.snapshot[p].warned = x] = Altered(w, p, k, t, x, b, n)
  BY <1>6, <1>8, <1>11, Zenon
<1>15. [v EXCEPT !.rows[k].warned = x] = Altered(w, p, k, t, a, x, n)
  BY <1>5, <1>9, <1>12, Zenon
<1>16. [v EXCEPT !.warnings[k] = m] = Altered(w, p, k, t, a, b, m)
  BY <1>7, <1>10, <1>13, Zenon
<1>17. v.warnings[k] = n
  BY <1>4, <1>7
<1> QED
  BY <1>14, <1>15, <1>16, <1>17, Zenon DEF v

(* Warn, for any mark. *)
WarnAs(v, p, k, x) == [[[v EXCEPT !.snapshot[p].warned = x] EXCEPT !.rows[k].warned = x]
                         EXCEPT !.warnings[k] = v.warnings[k] + 1]

(* All three at once ... *)
LEMMA WarnIs ==
    ASSUME NEW w, IsWorld(w), NEW p \in Periods, NEW k \in PeriodKeys,
           NEW t, NEW a, NEW b, NEW n, NEW x
    PROVE  WarnAs(Altered(w, p, k, t, a, b, n), p, k, x) = Altered(w, p, k, t, x, x, n + 1)
<1> DEFINE v == Altered(w, p, k, t, a, b, n)
<1>0. /\ [v EXCEPT !.snapshot[p].warned = x] = Altered(w, p, k, t, x, b, n)
      /\ [Altered(w, p, k, t, x, b, n) EXCEPT !.rows[k].warned = x] = Altered(w, p, k, t, x, x, n)
      /\ [Altered(w, p, k, t, x, x, n) EXCEPT !.warnings[k] = n + 1] = Altered(w, p, k, t, x, x, n + 1)
      /\ v.warnings[k] = n
  BY MarkedIs
<1> HIDE DEF v
<1>1. WarnAs(v, p, k, x) = Altered(w, p, k, t, x, x, n + 1)
  BY <1>0, Zenon DEF WarnAs
<1> QED
  BY <1>1, Zenon DEF v

(* ... as Warn does it. *)
LEMMA WarnIsWarnAs ==
    ASSUME NEW v, NEW p, NEW k
    PROVE  Warn(v, p, k) = WarnAs(v, p, k, TRUE)
BY DEF Warn, WarnAs

(* applyOne, completed. *)
LEMMA ApplyOneIs ==
    ASSUME NEW w, IsWorld(w), NEW p \in Periods, NEW k \in PeriodKeys, k[1] = p,
           NEW cost \in Nat
    PROVE  ApplyOne(w, p, k, cost) =
             IF Warns(w, p, k, cost)
             THEN Altered(w, p, k, Total(w, k, cost), TRUE, TRUE, w.warnings[k] + 1)
             ELSE Altered(w, p, k, Total(w, k, cost), Warned(w, p, k), w.rows[k].warned,
                          w.warnings[k])
<1> DEFINE v == Increment(Rekey(w, p, k), p, k, cost)
<1>2. v = Altered(w, p, k, Total(w, k, cost), Warned(w, p, k), w.rows[k].warned, w.warnings[k])
  BY IncrementIs DEF Total
<1>3. Due(v, p) <=> Warns(w, p, k, cost)
  BY DueIs
<1>4. ApplyOne(w, p, k, cost) = IF Due(v, p) THEN Warn(v, p, k) ELSE v
  BY DEF ApplyOne
<1> HIDE DEF v
<1>5. PICK x : x = TRUE
  OBVIOUS
<1>6. WarnAs(v, p, k, x) = Altered(w, p, k, Total(w, k, cost), x, x, w.warnings[k] + 1)
  BY <1>2, WarnIs
<1>7. Warn(v, p, k) = WarnAs(v, p, k, x)
  BY <1>5, WarnIsWarnAs, Zenon
<1> QED
  BY <1>2, <1>3, <1>4, <1>5, <1>6, <1>7, Zenon

(* applyOne, up to the statement that fails. *)
LEMMA ApplyPartIs ==
    ASSUME NEW w, IsWorld(w), NEW p \in Periods, NEW k \in PeriodKeys, k[1] = p,
           NEW cost \in Nat
    PROVE  /\ ApplyPart(w, p, k, cost, "increment") = Rekey(w, p, k)
           /\ ApplyPart(w, p, k, cost, "markWarned") =
                Altered(w, p, k, Total(w, k, cost), TRUE, w.rows[k].warned, w.warnings[k])
           /\ ApplyPart(w, p, k, cost, "event") =
                Altered(w, p, k, Total(w, k, cost), TRUE, TRUE, w.warnings[k])
<1> DEFINE v == Increment(Rekey(w, p, k), p, k, cost)
<1>2. v = Altered(w, p, k, Total(w, k, cost), Warned(w, p, k), w.rows[k].warned, w.warnings[k])
  BY IncrementIs DEF Total
<1>3. /\ ApplyPart(w, p, k, cost, "increment") = Rekey(w, p, k)
      /\ ApplyPart(w, p, k, cost, "markWarned") = [v EXCEPT !.snapshot[p].warned = TRUE]
      /\ ApplyPart(w, p, k, cost, "event") =
           [[v EXCEPT !.snapshot[p].warned = TRUE] EXCEPT !.rows[k].warned = TRUE]
  BY DEF ApplyPart
<1> HIDE DEF v
<1>4. PICK x : x = TRUE
  OBVIOUS
<1>5. PICK u : u = [v EXCEPT !.snapshot[p].warned = x]
  OBVIOUS
<1>6. u = Altered(w, p, k, Total(w, k, cost), x, w.rows[k].warned, w.warnings[k])
  BY <1>2, <1>5, MarkedIs
<1>7. [u EXCEPT !.rows[k].warned = x] = Altered(w, p, k, Total(w, k, cost), x, x, w.warnings[k])
  BY <1>6, MarkedIs
<1> QED
  BY <1>3, <1>4, <1>5, <1>6, <1>7, Zenon

-----------------------------------------------------------------------------
(* World v differs from w in period p and in its key k alone, and the      *)
(* amounts of the two agree there.                                         *)
Differs(v, w, p, k) ==
    /\ IsWorld(v)
    /\ \A j \in PeriodKeys \ {k} : v.rows[j] = w.rows[j] /\ v.warnings[j] = w.warnings[j]
    /\ \A q \in Periods \ {p} : v.snapshot[q] = w.snapshot[q]
    /\ v.snapshot[p].key = k /\ v.snapshot[p].spent = v.rows[k].spent

(* An altered world differs there alone. *)
LEMMA AlteredDiffers ==
    ASSUME NEW w, IsWorld(w), NEW p \in Periods, NEW k \in PeriodKeys, k[1] = p,
           NEW t \in Nat, NEW a \in BOOLEAN, NEW b \in BOOLEAN, NEW n \in Nat
    PROVE  Differs(Altered(w, p, k, t, a, b, n), w, p, k)
<1> DEFINE v == Altered(w, p, k, t, a, b, n)
<1>1. IsWorld(v)
  BY AlteredType
<1>2. /\ \A j \in PeriodKeys \ {k} : v.rows[j] = w.rows[j] /\ v.warnings[j] = w.warnings[j]
      /\ \A q \in Periods \ {p} : v.snapshot[q] = w.snapshot[q]
      /\ v.snapshot[p].key = k /\ v.snapshot[p].spent = t /\ v.rows[k].spent = t
  BY AlteredIs
<1> QED
  BY <1>1, <1>2, Zenon DEF Differs

(* applyOne in those terms ... *)
LEMMA ApplyOneFacts ==
    ASSUME NEW w, IsWorld(w), NEW p \in Periods, NEW k \in PeriodKeys, k[1] = p,
           NEW cost \in Nat
    PROVE  LET v == ApplyOne(w, p, k, cost)
           IN  /\ Differs(v, w, p, k)
               /\ v.rows[k].spent = Total(w, k, cost)
               /\ Warns(w, p, k, cost) => /\ v.snapshot[p].warned /\ v.rows[k].warned
                                          /\ v.warnings[k] = w.warnings[k] + 1
               /\ ~Warns(w, p, k, cost) => /\ v.snapshot[p].warned = Warned(w, p, k)
                                           /\ v.rows[k].warned = w.rows[k].warned
                                           /\ v.warnings[k] = w.warnings[k]
<1> DEFINE v == ApplyOne(w, p, k, cost)
<1>0. Total(w, k, cost) \in Nat /\ w.rows[k].warned \in BOOLEAN
      /\ w.warnings[k] \in Nat /\ w.warnings[k] + 1 \in Nat /\ Warned(w, p, k) \in BOOLEAN
  BY PartsType, Zenon
<1>1. CASE Warns(w, p, k, cost)
  <2>1. PICK x : x = TRUE
    OBVIOUS
  <2>2. v = Altered(w, p, k, Total(w, k, cost), x, x, w.warnings[k] + 1)
    BY <1>1, <2>1, ApplyOneIs, Zenon
  <2> HIDE DEF v
  <2>3. /\ v.rows[k].spent = Total(w, k, cost)
        /\ v.snapshot[p].warned = x /\ v.rows[k].warned = x
        /\ v.warnings[k] = w.warnings[k] + 1
    BY <2>2, AlteredIs
  <2>4. x \in BOOLEAN
    BY <2>1, Zenon
  <2>5. Differs(v, w, p, k)
    BY <1>0, <2>2, <2>4, AlteredDiffers, Zenon
  <2>6. v.snapshot[p].warned /\ v.rows[k].warned
    BY <2>1, <2>3, Zenon
  <2> QED
    BY <1>1, <2>3, <2>5, <2>6, Zenon DEF v
<1>2. CASE ~Warns(w, p, k, cost)
  <2>2. v = Altered(w, p, k, Total(w, k, cost), Warned(w, p, k), w.rows[k].warned, w.warnings[k])
    BY <1>2, ApplyOneIs, Zenon
  <2> HIDE DEF v
  <2>3. /\ v.rows[k].spent = Total(w, k, cost)
        /\ v.snapshot[p].warned = Warned(w, p, k) /\ v.rows[k].warned = w.rows[k].warned
        /\ v.warnings[k] = w.warnings[k]
    BY <2>2, AlteredIs
  <2>4. Differs(v, w, p, k)
    BY <1>0, <2>2, AlteredDiffers, Zenon
  <2> QED
    BY <1>2, <2>3, <2>4, Zenon DEF v
<1> QED
  BY <1>1, <1>2, Zenon

(* ... and the two failures that come after the increment. *)
LEMMA ApplyPartFacts ==
    ASSUME NEW w, IsWorld(w), NEW p \in Periods, NEW k \in PeriodKeys, k[1] = p,
           NEW cost \in Nat, NEW s \in {"markWarned", "event"}
    PROVE  LET v == ApplyPart(w, p, k, cost, s)
           IN  /\ Differs(v, w, p, k)
               /\ v.rows[k].spent = Total(w, k, cost)
               /\ v.snapshot[p].warned
               /\ v.warnings[k] = w.warnings[k]
               /\ w.rows[k].warned => v.rows[k].warned
<1> DEFINE v == ApplyPart(w, p, k, cost, s)
<1>0. Total(w, k, cost) \in Nat /\ w.rows[k].warned \in BOOLEAN /\ w.warnings[k] \in Nat
  BY PartsType, Zenon
<1>1. PICK x : x = TRUE
  OBVIOUS
<1>2. x \in BOOLEAN
  BY <1>1, Zenon
<1>3. PICK b \in BOOLEAN : /\ v = Altered(w, p, k, Total(w, k, cost), x, b, w.warnings[k])
                           /\ w.rows[k].warned => b
  <2>1. CASE s = "markWarned"
    <3>1. v = Altered(w, p, k, Total(w, k, cost), x, w.rows[k].warned, w.warnings[k])
      BY <1>1, <2>1, ApplyPartIs, Zenon
    <3> QED
      BY <1>0, <3>1, Zenon
  <2>2. CASE s = "event"
    <3>1. v = Altered(w, p, k, Total(w, k, cost), x, TRUE, w.warnings[k])
      BY <1>1, <2>2, ApplyPartIs, Zenon
    <3> QED
      BY <3>1, Zenon
  <2> QED
    BY <2>1, <2>2, Zenon
<1> HIDE DEF v
<1>4. /\ v.rows[k].spent = Total(w, k, cost)
      /\ v.snapshot[p].warned = x /\ v.rows[k].warned = b
      /\ v.warnings[k] = w.warnings[k]
  <2>1. PICK c : c = b
    OBVIOUS
  <2>2. v = Altered(w, p, k, Total(w, k, cost), x, c, w.warnings[k])
    BY <1>3, <2>1, Zenon
  <2>3. /\ v.rows[k].spent = Total(w, k, cost)
        /\ v.snapshot[p].warned = x /\ v.rows[k].warned = c
        /\ v.warnings[k] = w.warnings[k]
    BY <2>2, AlteredIs
  <2> QED
    BY <2>1, <2>3, Zenon
<1>5. Differs(v, w, p, k)
  BY <1>0, <1>2, <1>3, AlteredDiffers, Zenon
<1> QED
  BY <1>1, <1>3, <1>4, <1>5, Zenon DEF v

-----------------------------------------------------------------------------
(* What holds of the warnings: each has left its mark in the row; and a    *)
(* key whose warnings are not accounted as lost (U, F: unheard, forgiven)  *)
(* is marked, or at its threshold, only if it has had its warning.         *)
AtThreshold(p, t) == Budget[p] # Unlimited /\ 10 * t >= 8 * Budget[p] /\ t > 0

RowOf(k, r, n, U, F) ==
    /\ n <= 1
    /\ n = 1 => r.warned
    /\ k[1] \notin F /\ k \notin U =>
          /\ r.warned => n = 1
          /\ AtThreshold(k[1], r.spent) => n = 1

StoreOk(R, W, U, F) == \A k \in PeriodKeys : RowOf(k, R[k], W[k], U, F)

(* ... and of the memory: it knows of every warning, of no other, and      *)
(* reads at least what the rows hold.                                      *)
MemoryOf(p, P, r, n, U, F) ==
    /\ n = 1 => P.warned
    /\ p \notin F => P.spent >= r.spent
    /\ p \notin F /\ P.key \notin U => (P.warned => n = 1)

SnapOk(S, R, W, U, F) ==
    \A p \in Periods : MemoryOf(p, S[p], R[S[p].key], W[S[p].key], U, F)

SafeWorld(w, U, F) ==
    StoreOk(w.rows, w.warnings, U, F) /\ SnapOk(w.snapshot, w.rows, w.warnings, U, F)

(* Memory loaded from a row knows what the row knows. *)
LEMMA LoadedIsSafe ==
    ASSUME NEW R \in Rows, NEW W \in Warnings, NEW U, NEW F, StoreOk(R, W, U, F),
           NEW p \in Periods, NEW k \in PeriodKeys, k[1] = p
    PROVE  MemoryOf(p, Load(k, R), R[k], W[k], U, F)
<1> DEFINE P == Load(k, R)
<1>1. P.key = k /\ P.spent = R[k].spent /\ P.warned = R[k].warned
  BY LoadType
<1>2. R[k].spent \in Nat
  BY DEF Rows, Counter
<1> HIDE DEF P
<1>3. P.spent >= R[k].spent
  BY <1>1, <1>2
<1>4. RowOf(k, R[k], W[k], U, F)
  BY Zenon DEF StoreOk
<1>6. MemoryOf(p, P, R[k], W[k], U, F)
  BY <1>1, <1>3, <1>4, Zenon DEF MemoryOf, RowOf
<1> QED
  BY <1>6 DEF P

(* Bringing the snapshot to another key loses no warning. *)
LEMMA RekeyIsSafe ==
    ASSUME NEW w, IsWorld(w), NEW U, NEW F, SafeWorld(w, U, F),
           NEW p \in Periods, NEW k \in PeriodKeys, k[1] = p
    PROVE  SafeWorld(Rekey(w, p, k), U, F)
<1>1. CASE w.snapshot[p].key = k
  BY <1>1 DEF Rekey
<1>2. CASE w.snapshot[p].key # k
  <2> DEFINE v == Rekey(w, p, k)
  <2>1. v = [w EXCEPT !.snapshot[p] = Load(k, w.rows)]
    BY <1>2 DEF Rekey
  <2>2. /\ IsWorld(v) /\ v.rows = w.rows /\ v.warnings = w.warnings
        /\ \A q \in Periods \ {p} : v.snapshot[q] = w.snapshot[q]
    BY RekeyIs
  <2>3. v.snapshot[p] = Load(k, w.rows)
    BY <2>1 DEF IsWorld, Snapshots
  <2> HIDE DEF v
  <2>4. v.snapshot[p].key = k
    BY <2>3, LoadType DEF IsWorld
  <2>5. MemoryOf(p, v.snapshot[p], v.rows[k], v.warnings[k], U, F)
    BY <2>2, <2>3, LoadedIsSafe DEF SafeWorld, IsWorld
  <2>6. SnapOk(v.snapshot, v.rows, v.warnings, U, F)
    <3>1. SUFFICES ASSUME NEW q \in Periods
                   PROVE  MemoryOf(q, v.snapshot[q], v.rows[v.snapshot[q].key],
                                   v.warnings[v.snapshot[q].key], U, F)
      BY Zenon DEF SnapOk
    <3>2. CASE q = p
      BY <2>4, <2>5, <3>2, Zenon
    <3>3. CASE q # p
      <4>1. v.snapshot[q] = w.snapshot[q]
        BY <2>2, <3>3
      <4>2. MemoryOf(q, w.snapshot[q], w.rows[w.snapshot[q].key], w.warnings[w.snapshot[q].key], U, F)
        BY Zenon DEF SafeWorld, SnapOk
      <4> QED
        BY <2>2, <4>1, <4>2, Zenon
    <3> QED
      BY <3>2, <3>3
  <2>7. StoreOk(v.rows, v.warnings, U, F)
    BY <2>2, Zenon DEF SafeWorld
  <2> QED
    BY <2>6, <2>7, Zenon DEF SafeWorld, v
<1> QED
  BY <1>1, <1>2

(* A step at one period and key keeps the world safe if it does so there.  *)
LEMMA StepIsSafe ==
    ASSUME NEW w, IsWorld(w), NEW U, NEW U2, NEW F, SafeWorld(w, U, F), U \subseteq U2,
           NEW p \in Periods, NEW k \in PeriodKeys, k[1] = p,
           NEW v, Differs(v, w, p, k),
           v.warnings[k] <= 1,
           v.warnings[k] = 1 => v.rows[k].warned /\ v.snapshot[p].warned,
           p \notin F /\ k \notin U2 =>
               /\ v.rows[k].warned => v.warnings[k] = 1
               /\ v.snapshot[p].warned => v.warnings[k] = 1
               /\ AtThreshold(p, v.rows[k].spent) => v.warnings[k] = 1
    PROVE  SafeWorld(v, U2, F)
<1>0. /\ IsWorld(v)
      /\ \A j \in PeriodKeys \ {k} : v.rows[j] = w.rows[j] /\ v.warnings[j] = w.warnings[j]
      /\ \A q \in Periods \ {p} : v.snapshot[q] = w.snapshot[q]
      /\ v.snapshot[p].key = k /\ v.snapshot[p].spent = v.rows[k].spent
  BY Zenon DEF Differs
<1>1. StoreOk(v.rows, v.warnings, U2, F)
  <2>1. SUFFICES ASSUME NEW j \in PeriodKeys
                 PROVE  RowOf(j, v.rows[j], v.warnings[j], U2, F)
    BY Zenon DEF StoreOk
  <2>2. CASE j = k
    BY <2>2, Zenon DEF RowOf
  <2>3. CASE j # k
    <3>1. v.rows[j] = w.rows[j] /\ v.warnings[j] = w.warnings[j]
      BY <1>0, <2>3
    <3>2. RowOf(j, w.rows[j], w.warnings[j], U, F)
      BY Zenon DEF SafeWorld, StoreOk
    <3> QED
      BY <3>1, <3>2, Zenon DEF RowOf
  <2> QED
    BY <2>2, <2>3
<1>2. SnapOk(v.snapshot, v.rows, v.warnings, U2, F)
  <2>1. SUFFICES ASSUME NEW q \in Periods
                 PROVE  MemoryOf(q, v.snapshot[q], v.rows[v.snapshot[q].key],
                                 v.warnings[v.snapshot[q].key], U2, F)
    BY Zenon DEF SnapOk
  <2>2. CASE q = p
    <3>1. v.rows[k].spent \in Nat
      BY <1>0, WorldType, Zenon
    <3>2. v.snapshot[p].spent >= v.rows[k].spent
      BY <1>0, <3>1
    <3> QED
      BY <1>0, <2>2, <3>2, Zenon DEF MemoryOf
  <2>3. CASE q # p
    <3>1. v.snapshot[q] = w.snapshot[q]
      BY <1>0, <2>3
    <3>2. w.snapshot[q].key \in PeriodKeys /\ w.snapshot[q].key # k
      BY <2>3 DEF IsWorld, Snapshots, PeriodState
    <3>3. /\ v.rows[w.snapshot[q].key] = w.rows[w.snapshot[q].key]
          /\ v.warnings[w.snapshot[q].key] = w.warnings[w.snapshot[q].key]
      BY <1>0, <3>2
    <3>4. MemoryOf(q, w.snapshot[q], w.rows[w.snapshot[q].key], w.warnings[w.snapshot[q].key], U, F)
      BY Zenon DEF SafeWorld, SnapOk
    <3>5. MemoryOf(q, w.snapshot[q], w.rows[w.snapshot[q].key], w.warnings[w.snapshot[q].key], U2, F)
      BY <3>4, Zenon DEF MemoryOf
    <3> QED
      BY <3>1, <3>3, <3>5, Zenon
  <2> QED
    BY <2>2, <2>3
<1> QED
  BY <1>1, <1>2, Zenon DEF SafeWorld

(* What applyOne takes for a warning is one. *)
LEMMA WarnedIsTrue ==
    ASSUME NEW w, IsWorld(w), NEW U, NEW F, SafeWorld(w, U, F),
           NEW p \in Periods, NEW k \in PeriodKeys, k[1] = p
    PROVE  /\ w.warnings[k] <= 1
           /\ w.warnings[k] = 1 => w.rows[k].warned /\ Warned(w, p, k)
           /\ p \notin F /\ k \notin U =>
                 /\ w.rows[k].warned => w.warnings[k] = 1
                 /\ Warned(w, p, k) => w.warnings[k] = 1
<1>1. RowOf(k, w.rows[k], w.warnings[k], U, F)
  BY Zenon DEF SafeWorld, StoreOk
<1>2. MemoryOf(p, w.snapshot[p], w.rows[w.snapshot[p].key], w.warnings[w.snapshot[p].key], U, F)
  BY Zenon DEF SafeWorld, SnapOk
<1>3. CASE w.snapshot[p].key = k
  <2>1. Warned(w, p, k) <=> w.snapshot[p].warned
    BY <1>3, Zenon DEF Warned
  <2>2. MemoryOf(p, w.snapshot[p], w.rows[k], w.warnings[k], U, F)
    BY <1>2, <1>3, Zenon
  <2> QED
    BY <1>1, <1>3, <2>1, <2>2, Zenon DEF RowOf, MemoryOf
<1>4. CASE w.snapshot[p].key # k
  <2>1. Warned(w, p, k) <=> w.rows[k].warned
    BY <1>4, Zenon DEF Warned
  <2> QED
    BY <1>1, <2>1, Zenon DEF RowOf
<1> QED
  BY <1>3, <1>4, Zenon

(* applyOne warns when it must and never twice. *)
LEMMA ApplyOneIsSafe ==
    ASSUME NEW w, IsWorld(w), NEW U, NEW F, SafeWorld(w, U, F),
           NEW p \in Periods, NEW k \in PeriodKeys, k[1] = p, NEW cost \in Nat
    PROVE  SafeWorld(ApplyOne(w, p, k, cost), U, F)
<1> DEFINE v == ApplyOne(w, p, k, cost)
<1>1. /\ w.warnings[k] <= 1
      /\ w.warnings[k] = 1 => w.rows[k].warned /\ Warned(w, p, k)
      /\ p \notin F /\ k \notin U =>
            /\ w.rows[k].warned => w.warnings[k] = 1
            /\ Warned(w, p, k) => w.warnings[k] = 1
  BY WarnedIsTrue
<1>2. /\ Differs(v, w, p, k)
      /\ v.rows[k].spent = Total(w, k, cost)
      /\ Warns(w, p, k, cost) => /\ v.snapshot[p].warned /\ v.rows[k].warned
                                 /\ v.warnings[k] = w.warnings[k] + 1
      /\ ~Warns(w, p, k, cost) => /\ v.snapshot[p].warned = Warned(w, p, k)
                                  /\ v.rows[k].warned = w.rows[k].warned
                                  /\ v.warnings[k] = w.warnings[k]
  BY ApplyOneFacts
<1>3. w.warnings[k] \in Nat
  BY WorldType, Zenon
<1> HIDE DEF v
<1>4. CASE Warns(w, p, k, cost)
  <2>1. w.warnings[k] # 1
    BY <1>1, <1>4, Zenon DEF Warns
  <2>2. v.warnings[k] = 1
    BY <1>1, <1>2, <1>3, <1>4, <2>1
  <2>3. v.warnings[k] <= 1
    BY <2>2
  <2>4. SafeWorld(v, U, F)
    BY <1>2, <1>4, <2>2, <2>3, StepIsSafe, Zenon
  <2> QED
    BY <2>4 DEF v
<1>5. CASE ~Warns(w, p, k, cost)
  <2>1. /\ v.snapshot[p].warned <=> Warned(w, p, k)
        /\ v.rows[k].warned <=> w.rows[k].warned
        /\ v.warnings[k] = w.warnings[k]
    BY <1>2, <1>5, Zenon
  <2>2. AtThreshold(p, v.rows[k].spent) => Warned(w, p, k)
    BY <1>2, <1>5, Zenon DEF AtThreshold, Warns
  <2>3. /\ v.warnings[k] <= 1
        /\ v.warnings[k] = 1 => v.rows[k].warned /\ v.snapshot[p].warned
    BY <1>1, <2>1, Zenon
  <2>4. p \notin F /\ k \notin U =>
          /\ v.rows[k].warned => v.warnings[k] = 1
          /\ v.snapshot[p].warned => v.warnings[k] = 1
          /\ AtThreshold(p, v.rows[k].spent) => v.warnings[k] = 1
    BY <1>1, <2>1, <2>2, Zenon
  <2>5. SafeWorld(v, U, F)
    BY <1>2, <2>3, <2>4, StepIsSafe, Zenon
  <2> QED
    BY <2>5 DEF v
<1> QED
  BY <1>4, <1>5

(* A warning that failed half-way is unheard, but nothing else. *)
LEMMA ApplyPartIsSafe ==
    ASSUME NEW w, IsWorld(w), NEW U, NEW F, SafeWorld(w, U, F),
           NEW p \in Periods, NEW k \in PeriodKeys, k[1] = p, NEW cost \in Nat,
           NEW s \in {"markWarned", "event"}
    PROVE  SafeWorld(ApplyPart(w, p, k, cost, s), U \cup {k}, F)
<1> DEFINE v == ApplyPart(w, p, k, cost, s)
<1>1. w.warnings[k] <= 1 /\ (w.warnings[k] = 1 => w.rows[k].warned)
  BY WarnedIsTrue
<1>2. /\ Differs(v, w, p, k) /\ v.snapshot[p].warned
      /\ v.warnings[k] = w.warnings[k]
      /\ w.rows[k].warned => v.rows[k].warned
  BY ApplyPartFacts
<1> HIDE DEF v
<1>3. v.warnings[k] <= 1 /\ (v.warnings[k] = 1 => v.rows[k].warned /\ v.snapshot[p].warned)
  BY <1>1, <1>2, Zenon
<1>4. U \subseteq U \cup {k} /\ k \in U \cup {k}
  OBVIOUS
<1>5. SafeWorld(v, U \cup {k}, F)
  BY <1>2, <1>3, <1>4, StepIsSafe, Zenon
<1> QED
  BY <1>5 DEF v

-----------------------------------------------------------------------------
(* What the first n periods of a commit leave behind, from world w.        *)
Amounts(w, n, d, cost, v) ==
    \A j \in PeriodKeys :
        v.rows[j].spent = IF \E i \in 1..n : j = KeyAt(Order[i], d)
                          THEN w.rows[j].spent + cost ELSE w.rows[j].spent

Charged(w, n, d, cost, v, U, F) ==
    IsWorld(v) /\ SafeWorld(v, U, F) /\ Amounts(w, n, d, cost, v)

(* The three periods, each once. *)
LEMMA OrderFacts ==
    /\ \A i \in 1..3 : Order[i] \in Periods
    /\ \A i, j \in 1..3 : i # j => Order[i] # Order[j]
    /\ \A p \in Periods : \E i \in 1..3 : p = Order[i]
BY DEF Order, Periods

(* The amounts after one period more. *)
LEMMA AmountsStep ==
    ASSUME NEW w, NEW d \in 0..LastDay, NEW cost \in Nat, NEW n \in 0..2,
           NEW v, Amounts(w, n, d, cost, v),
           NEW m \in 1..3, m = n + 1, NEW p \in Periods, p = Order[m],
           NEW k \in PeriodKeys, k = KeyAt(p, d), k[1] = p,
           NEW u, Differs(u, v, p, k), u.rows[k].spent = Total(v, k, cost)
    PROVE  Amounts(w, m, d, cost, u)
<1>1. ASSUME NEW j \in PeriodKeys
      PROVE  u.rows[j].spent = IF \E i \in 1..m : j = KeyAt(Order[i], d)
                               THEN w.rows[j].spent + cost ELSE w.rows[j].spent
  <2>1. v.rows[j].spent = IF \E i \in 1..n : j = KeyAt(Order[i], d)
                          THEN w.rows[j].spent + cost ELSE w.rows[j].spent
    BY Zenon DEF Amounts
  <2>2. CASE j = k
    <3>1. ASSUME NEW i \in 1..n PROVE j # KeyAt(Order[i], d)
      <4>1. PICK q \in Periods : q = Order[i] /\ q # p
        BY OrderFacts
      <4>2. KeyAt(q, d)[1] = q
        BY KeyFacts
      <4> QED
        BY <2>2, <4>1, <4>2
    <3>2. j = KeyAt(Order[m], d) /\ m \in 1..m
      BY <2>2
    <3>3. v.rows[k].spent = w.rows[k].spent
      BY <2>1, <2>2, <3>1, Zenon
    <3>4. u.rows[j].spent = w.rows[j].spent + cost
      BY <2>2, <3>3, Zenon DEF Total
    <3> QED
      BY <3>2, <3>4, Zenon
  <2>3. CASE j # k
    <3>1. u.rows[j] = v.rows[j]
      BY <2>3 DEF Differs
    <3>2. (\E i \in 1..m : j = KeyAt(Order[i], d)) <=> (\E i \in 1..n : j = KeyAt(Order[i], d))
      <4>1. \A i \in 1..m : i \in 1..n \/ i = m
        OBVIOUS
      <4>2. \A i \in 1..n : i \in 1..m
        OBVIOUS
      <4>3. j # KeyAt(Order[m], d)
        BY <2>3, Zenon
      <4> QED
        BY <4>1, <4>2, <4>3, Zenon
    <3> QED
      BY <2>1, <3>1, <3>2, Zenon
  <2> QED
    BY <2>2, <2>3
<1> QED
  BY <1>1, Zenon DEF Amounts

(* One period more of a commit. *)
LEMMA ApplyStep ==
    ASSUME NEW w, NEW U, NEW F, NEW d \in 0..LastDay, NEW cost \in Nat, NEW n \in 0..2,
           NEW v, Charged(w, n, d, cost, v, U, F)
    PROVE  Charged(w, n + 1, d, cost,
                   ApplyOne(v, Order[n + 1], KeyAt(Order[n + 1], d), cost), U, F)
<1>1. PICK m \in 1..3 : m = n + 1
  OBVIOUS
<1>2. PICK p \in Periods : p = Order[m]
  BY OrderFacts
<1>3. PICK k \in PeriodKeys : k = KeyAt(p, d) /\ k[1] = p
  BY KeyFacts
<1> DEFINE u == ApplyOne(v, p, k, cost)
<1>4. IsWorld(v) /\ SafeWorld(v, U, F) /\ Amounts(w, n, d, cost, v)
  BY Zenon DEF Charged
<1>5. SafeWorld(u, U, F)
  BY <1>3, <1>4, ApplyOneIsSafe, Zenon
<1>6. Differs(u, v, p, k) /\ u.rows[k].spent = Total(v, k, cost)
  BY <1>3, <1>4, ApplyOneFacts, Zenon
<1> HIDE DEF u
<1>7. Amounts(w, m, d, cost, u)
  BY <1>1, <1>2, <1>3, <1>4, <1>6, AmountsStep, Zenon
<1>8. IsWorld(u)
  BY <1>6, Zenon DEF Differs
<1>9. Charged(w, m, d, cost, u, U, F)
  BY <1>5, <1>7, <1>8, Zenon DEF Charged
<1> QED
  BY <1>1, <1>2, <1>3, <1>9, Zenon DEF u

(* The first n periods of a commit. *)
LEMMA ApplyIs ==
    ASSUME NEW w, IsWorld(w), NEW U, NEW F, SafeWorld(w, U, F),
           NEW d \in 0..LastDay, NEW cost \in Nat, NEW n \in 0..3
    PROVE  Charged(w, n, d, cost, Apply(w, n, d, cost), U, F)
<1> DEFINE One(v, i) == ApplyOne(v, Order[i], KeyAt(Order[i], d), cost)
           Good(i, v) == Charged(w, i, d, cost, v, U, F)
<1>0. Good(0, w)
  <2>1. \A i \in 1..0 : FALSE
    OBVIOUS
  <2> QED
    BY <2>1, Zenon DEF Charged, Amounts
<1>1. Good(1, One(w, 1))
  BY <1>0, ApplyStep
<1>2. Good(2, One(One(w, 1), 2))
  BY <1>1, ApplyStep
<1>3. Good(3, One(One(One(w, 1), 2), 3))
  BY <1>2, ApplyStep
<1>4. Order[1] = "day" /\ Order[2] = "month" /\ Order[3] = "total"
  BY DEF Order
<1> HIDE DEF Good
<1>5. /\ n = 0 => Apply(w, n, d, cost) = w
      /\ n = 1 => Apply(w, n, d, cost) = One(w, 1)
      /\ n = 2 => Apply(w, n, d, cost) = One(One(w, 1), 2)
      /\ n = 3 => Apply(w, n, d, cost) = One(One(One(w, 1), 2), 3)
  BY <1>4 DEF Apply
<1>6. n = 0 \/ n = 1 \/ n = 2 \/ n = 3
  OBVIOUS
<1> HIDE DEF One
<1>7. Good(n, Apply(w, n, d, cost))
  BY <1>0, <1>1, <1>2, <1>3, <1>5, <1>6, Zenon
<1> QED
  BY <1>7 DEF Good

(* A commit that fails in its period number n. *)
LEMMA PartIs ==
    ASSUME NEW w, NEW U, NEW F, NEW d \in 0..LastDay, NEW cost \in Nat, NEW n \in 1..3,
           NEW s \in {"increment", "markWarned", "event"},
           NEW v, Charged(w, n - 1, d, cost, v, U, F)
    PROVE  LET p == Order[n]
               k == KeyAt(p, d)
               u == ApplyPart(v, p, k, cost, s)
           IN  /\ IsWorld(u)
               /\ SafeWorld(u, IF s = "increment" THEN U ELSE U \cup {k}, F)
               /\ Amounts(w, IF s = "increment" THEN n - 1 ELSE n, d, cost, u)
<1>1. PICK p \in Periods : p = Order[n]
  BY OrderFacts
<1>2. PICK k \in PeriodKeys : k = KeyAt(p, d) /\ k[1] = p
  BY KeyFacts
<1> DEFINE u == ApplyPart(v, p, k, cost, s)
<1>3. IsWorld(v) /\ SafeWorld(v, U, F) /\ Amounts(w, n - 1, d, cost, v)
  BY Zenon DEF Charged
<1>4. CASE s = "increment"
  <2>1. u = Rekey(v, p, k)
    BY <1>2, <1>3, <1>4, ApplyPartIs, Zenon
  <2>2. IsWorld(Rekey(v, p, k)) /\ Rekey(v, p, k).rows = v.rows
    BY <1>2, <1>3, RekeyIs, Zenon
  <2>3. SafeWorld(u, U, F)
    BY <1>2, <1>3, <2>1, RekeyIsSafe, Zenon
  <2> HIDE DEF u
  <2>4. Amounts(w, n - 1, d, cost, u)
    BY <1>3, <2>1, <2>2, Zenon DEF Amounts
  <2> QED
    BY <1>1, <1>2, <1>4, <2>1, <2>2, <2>3, <2>4, Zenon DEF u
<1>5. CASE s # "increment"
  <2>1. s \in {"markWarned", "event"}
    BY <1>5
  <2>2. SafeWorld(u, U \cup {k}, F)
    BY <1>2, <1>3, <2>1, ApplyPartIsSafe, Zenon
  <2>3. Differs(u, v, p, k) /\ u.rows[k].spent = Total(v, k, cost)
    BY <1>2, <1>3, <2>1, ApplyPartFacts
  <2> HIDE DEF u
  <2>4. IsWorld(u)
    BY <2>3, Zenon DEF Differs
  <2>5. PICK m \in 0..2 : m = n - 1 /\ n = m + 1
    OBVIOUS
  <2>6. Amounts(w, m, d, cost, v)
    BY <1>3, <2>5, Zenon
  <2>7. Amounts(w, n, d, cost, u)
    BY <1>1, <1>2, <2>3, <2>5, <2>6, AmountsStep, Zenon
  <2> QED
    BY <1>1, <1>2, <1>5, <2>2, <2>4, <2>7, Zenon DEF u
<1> QED
  BY <1>4, <1>5, Zenon

-----------------------------------------------------------------------------
(* The inductive invariant. *)
SafeState ==
    /\ StoreOk(rows, warnings, unheard, forgiven)
    /\ snapshot # NoSnapshot => SnapOk(snapshot, rows, warnings, unheard, forgiven)

IInv == TypeOK /\ SafeState /\ RowsAccountForSpending

(* What the configuration says of the constants. *)
LEMMA Config ==
    /\ Costs \subseteq Nat /\ LastDay \in Nat /\ IsFiniteSet(Requests)
    /\ 0 \in 0..LastDay
BY BudgetConfig

(* What a request works with, on any day: the table, and the memory as     *)
(* snapshotFor returns it.                                                 *)
LEMMA SnapshotIs ==
    ASSUME TypeOK, SafeState, NEW d \in 0..LastDay
    PROVE  /\ SnapshotFor(d) \in Snapshots
           /\ SnapOk(SnapshotFor(d), rows, warnings, unheard, forgiven)
<1>1. rows \in Rows /\ warnings \in Warnings
  BY DEF TypeOK, Rows, Warnings
<1>2. CASE snapshot # NoSnapshot /\ SnapshotFor(d) = snapshot
  BY <1>2, Zenon DEF TypeOK, SafeState, Snapshots
<1>3. CASE SnapshotFor(d) = [p \in Periods |-> Load(KeyAt(p, d), rows)]
  <2> DEFINE S == [p \in Periods |-> Load(KeyAt(p, d), rows)]
  <2>1. ASSUME NEW p \in Periods
        PROVE  /\ S[p] \in PeriodState /\ S[p].key[1] = p
               /\ MemoryOf(p, S[p], rows[S[p].key], warnings[S[p].key], unheard, forgiven)
    <3>1. PICK k \in PeriodKeys : k = KeyAt(p, d) /\ k[1] = p
      BY KeyFacts
    <3>2. S[p] = Load(k, rows)
      BY <3>1
    <3>3. S[p] \in PeriodState /\ S[p].key = k
      BY <1>1, <3>2, LoadType
    <3>4. MemoryOf(p, Load(k, rows), rows[k], warnings[k], unheard, forgiven)
      BY <1>1, <3>1, LoadedIsSafe DEF SafeState
    <3> HIDE DEF S
    <3> QED
      BY <3>1, <3>2, <3>3, <3>4, Zenon
  <2>2. S \in [Periods -> PeriodState]
    BY <2>1
  <2> HIDE DEF S
  <2>3. S \in Snapshots /\ SnapOk(S, rows, warnings, unheard, forgiven)
    BY <2>1, <2>2, Zenon DEF Snapshots, SnapOk
  <2> QED
    BY <1>3, <2>3, Zenon DEF S
<1> QED
  BY <1>2, <1>3, Zenon DEF SnapshotFor

(* Table and memory as a world. *)
LEMMA WorldIs ==
    ASSUME TypeOK, SafeState, NEW d \in 0..LastDay
    PROVE  /\ IsWorld(World(d)) /\ SafeWorld(World(d), unheard, forgiven)
           /\ World(d).rows = rows
<1>1. /\ World(d).rows = rows /\ World(d).snapshot = SnapshotFor(d)
      /\ World(d).warnings = warnings
      /\ World(d) = [rows |-> World(d).rows, snapshot |-> World(d).snapshot, warnings |-> World(d).warnings]
  BY DEF World
<1>2. rows \in Rows /\ warnings \in Warnings
  BY DEF TypeOK, Rows, Warnings
<1>3. SnapshotFor(d) \in Snapshots /\ SnapOk(SnapshotFor(d), rows, warnings, unheard, forgiven)
  BY SnapshotIs
<1>4. IsWorld(World(d))
  BY <1>1, <1>2, <1>3, Zenon DEF IsWorld
<1>5. SafeWorld(World(d), unheard, forgiven)
  BY <1>1, <1>3, Zenon DEF SafeWorld, SafeState
<1> QED
  BY <1>1, <1>4, <1>5

(* Rows never hold more than was paid, and exactly that if not torn.       *)
Accounted(R, P, T) ==
    \A k \in PeriodKeys : /\ R[k].spent <= P[k]
                          /\ k \notin T => R[k].spent = P[k]

(* The ledger once a commit of day d has been charged, and the keys it     *)
(* missed if it came no further than its first m periods.                  *)
Paid(P, d, cost) ==
    [j \in PeriodKeys |->
        IF \E p \in Periods : j = KeyAt(p, d) THEN P[j] + cost ELSE P[j]]

Torn(T, d, m) == T \cup {KeyAt(Order[i], d) : i \in (m + 1)..3}

(* The ledger and the rows after it. *)
LEMMA CommitAccounts ==
    ASSUME NEW w, IsWorld(w), NEW P \in [PeriodKeys -> Nat], NEW T, Accounted(w.rows, P, T),
           NEW d \in 0..LastDay, NEW cost \in Nat, NEW m \in 0..3,
           NEW v, Amounts(w, m, d, cost, v)
    PROVE  /\ Paid(P, d, cost) \in [PeriodKeys -> Nat]
           /\ Accounted(v.rows, Paid(P, d, cost), Torn(T, d, m))
<1> DEFINE P2 == Paid(P, d, cost)
           T2 == Torn(T, d, m)
<1>0. /\ P2 = [j \in PeriodKeys |->
                  IF \E p \in Periods : j = KeyAt(p, d) THEN P[j] + cost ELSE P[j]]
      /\ T2 = T \cup {KeyAt(Order[i], d) : i \in (m + 1)..3}
  BY Zenon DEF Paid, Torn
<1> HIDE DEF P2, T2
<1>1. P2 \in [PeriodKeys -> Nat]
  BY <1>0
<1>2. ASSUME NEW j \in PeriodKeys
      PROVE  v.rows[j].spent <= P2[j] /\ (j \notin T2 => v.rows[j].spent = P2[j])
  <2> DEFINE a == w.rows[j].spent
             b == P[j]
             x == v.rows[j].spent
             y == P2[j]
  <2>1. a \in Nat /\ b \in Nat /\ a <= b /\ (j \notin T => a = b)
    <3>1. a \in Nat
      BY DEF IsWorld, Rows, Counter
    <3>2. a <= b /\ (j \notin T => a = b)
      BY Zenon DEF Accounted
    <3> QED
      BY <3>1, <3>2
  <2>2. x = IF \E i \in 1..m : j = KeyAt(Order[i], d) THEN a + cost ELSE a
    BY Zenon DEF Amounts
  <2>3. y = IF \E p \in Periods : j = KeyAt(p, d) THEN b + cost ELSE b
    BY <1>0
  <2> HIDE DEF a, b, x, y
  <2>4. CASE \E i \in 1..m : j = KeyAt(Order[i], d)
    <3>1. \E p \in Periods : j = KeyAt(p, d)
      BY <2>4, OrderFacts
    <3>2. x = a + cost /\ y = b + cost
      BY <2>2, <2>3, <2>4, <3>1, Zenon
    <3>3. j \notin T2 => j \notin T
      BY <1>0
    <3>4. x <= y /\ (j \notin T2 => x = y)
      BY <2>1, <3>2, <3>3
    <3> QED
      BY <3>4 DEF x, y
  <2>5. CASE ~ \E i \in 1..m : j = KeyAt(Order[i], d)
    <3>1. x = a
      BY <2>2, <2>5, Zenon
    <3>2. y = b + cost \/ y = b
      BY <2>3, Zenon
    <3>3. ASSUME NEW p \in Periods, j = KeyAt(p, d) PROVE j \in T2
      <4>1. PICK i \in 1..3 : p = Order[i]
        BY OrderFacts
      <4>2. i \notin 1..m
        BY <2>5, <3>3, <4>1, Zenon
      <4>3. i \in (m + 1)..3
        BY <4>2
      <4> QED
        BY <1>0, <3>3, <4>1, <4>3, Zenon
    <3>4. j \notin T2 => y = b
      BY <2>3, <3>3, Zenon
    <3>5. j \notin T2 => j \notin T
      BY <1>0
    <3>6. x <= y /\ (j \notin T2 => x = y)
      BY <2>1, <3>1, <3>2, <3>4, <3>5
    <3> QED
      BY <3>6 DEF x, y
  <2> QED
    BY <2>4, <2>5
<1> QED
  BY <1>1, <1>2, Zenon DEF Accounted, P2, T2

-----------------------------------------------------------------------------
(* The parts of a step's type correctness that most steps share.           *)
LEMMA PeakType ==
    ASSUME TypeOK, InFlight' \subseteq Requests,
           \/ Waive
           \/ UNCHANGED <<waived, peak>>
           \/ UNCHANGED waived /\ NotePeak
    PROVE  waived' \in BOOLEAN /\ peak' \in 0..Cardinality(Requests)
<1>1. waived \in BOOLEAN /\ peak \in 0..Cardinality(Requests)
  BY DEF TypeOK
<1>2. Cardinality(Requests) \in Nat
  BY Config, FS_CardinalityType
<1>3. CASE Waive
  BY <1>2, <1>3 DEF Waive
<1>4. CASE UNCHANGED <<waived, peak>>
  BY <1>1, <1>4
<1>5. CASE UNCHANGED waived /\ NotePeak
  <2>1. Cardinality(InFlight') \in Nat /\ Cardinality(InFlight') <= Cardinality(Requests)
    BY Config, FS_Subset, FS_CardinalityType
  <2>2. peak' = peak \/ peak' = Cardinality(InFlight')
    BY <1>5 DEF NotePeak
  <2>3. peak' \in 0..Cardinality(Requests)
    BY <1>1, <1>2, <2>1, <2>2
  <2> QED
    BY <1>1, <1>5, <2>3
<1> QED
  BY <1>3, <1>4, <1>5

RequestTable == [Requests -> [phase: {"idle", "flight", "done"}, covered: Nat]]

(* A request that ends is in the table of requests. *)
LEMMA FinishedType ==
    ASSUME TypeOK, NEW r \in Requests, Finished(r)
    PROVE  request' \in RequestTable
BY DEF TypeOK, Finished, Ended, RequestTable

(* commit() leaves a world, and that becomes table and memory.             *)
LEMMA BecomesIs ==
    ASSUME NEW v, Becomes(v), IsWorld(v), SafeWorld(v, unheard', forgiven')
    PROVE  /\ rows' \in [PeriodKeys -> Counter]
           /\ snapshot' \in [Periods -> PeriodState]
           /\ \A p \in Periods : (snapshot')[p].key[1] = p
           /\ warnings' \in [PeriodKeys -> Nat]
           /\ SafeState'
<1>1. rows' = v.rows /\ snapshot' = v.snapshot /\ warnings' = v.warnings
  BY DEF Becomes
<1>2. v.rows \in Rows /\ v.snapshot \in Snapshots /\ v.warnings \in Warnings
  BY DEF IsWorld
<1>3. SafeState'
  BY <1>1, Zenon DEF SafeState, SafeWorld
<1> QED
  BY <1>1, <1>2, <1>3 DEF Rows, Snapshots, Warnings

(* The ghosts of a charge keep their types. *)
LEMMA ChargeIs ==
    ASSUME TypeOK, NEW r \in Requests, NEW cost, Finished(r), Charge(r, cost)
    PROVE  waived' \in BOOLEAN /\ peak' \in 0..Cardinality(Requests)
<1>1. InFlight' \subseteq Requests
  BY DEF InFlight
<1>2. Waive \/ UNCHANGED <<waived, peak>>
  BY DEF Charge
<1> QED
  BY <1>1, <1>2, PeakType

(* check() *)
LEMMA CheckKeeps ==
    ASSUME IInv, NEW r \in Requests, NEW estimate \in Estimates, NEW mode \in Modes,
           Check(r, estimate, mode)
    PROVE  IInv'
<1>1. TypeOK /\ SafeState /\ RowsAccountForSpending /\ today \in 0..LastDay
  BY DEF IInv, TypeOK
<1>2. /\ snapshot' = SnapshotFor(today)
      /\ UNCHANGED <<today, rows, warnings, paid, torn, unheard, forgiven>>
  BY DEF Check, store
<1>3. SnapshotFor(today) \in Snapshots
      /\ SnapOk(SnapshotFor(today), rows, warnings, unheard, forgiven)
  BY <1>1, SnapshotIs
<1>4. request' \in RequestTable
  <2>1. estimate \in Nat
    BY BudgetConfig
  <2> QED
    BY <1>1, <2>1 DEF Check, TypeOK, Ended, RequestTable
<1>5. waived' \in BOOLEAN /\ peak' \in 0..Cardinality(Requests)
  <2>1. InFlight' \subseteq Requests
    BY DEF InFlight
  <2>2. Waive \/ (UNCHANGED waived /\ NotePeak)
    BY Zenon DEF Check
  <2> QED
    BY <1>1, <2>1, <2>2, PeakType
<1>6. TypeOK'
  BY <1>1, <1>2, <1>3, <1>4, <1>5 DEF TypeOK, RequestTable, Snapshots
<1>7. SafeState'
  BY <1>1, <1>2, <1>3, Zenon DEF SafeState
<1>8. RowsAccountForSpending'
  BY <1>1, <1>2 DEF RowsAccountForSpending
<1> QED
  BY <1>6, <1>7, <1>8 DEF IInv

(* commit() *)
LEMMA CommitKeeps ==
    ASSUME IInv, NEW r \in Requests, NEW cost \in Costs, Commit(r, cost)
    PROVE  IInv'
<1>1. TypeOK /\ SafeState /\ RowsAccountForSpending /\ today \in 0..LastDay
  BY DEF IInv, TypeOK
<1>2. PICK d \in 0..LastDay : d = today'
  BY <1>1, Config DEF Commit, Midnight
<1>3. cost \in Nat
  BY Config
<1>4. UNCHANGED <<torn, unheard, forgiven>> /\ Finished(r) /\ Charge(r, cost)
  BY DEF Commit
<1>5. request' \in RequestTable /\ waived' \in BOOLEAN /\ peak' \in 0..Cardinality(Requests)
  BY <1>1, <1>4, FinishedType, ChargeIs
<1>6. paid \in [PeriodKeys -> Nat] /\ torn \subseteq PeriodKeys /\ unheard \subseteq PeriodKeys
      /\ forgiven \subseteq Periods
  BY <1>1 DEF TypeOK
<1>7. paid' = [k \in PeriodKeys |->
                 IF \E p \in Periods : k = KeyAt(p, today) THEN paid[k] + cost ELSE paid[k]]
  BY DEF Commit
<1>8. CASE cost <= 0
  <2>1. snapshot' = SnapshotFor(today) /\ UNCHANGED <<rows, warnings>>
    BY <1>8 DEF Commit, store
  <2>2. SnapshotFor(today) \in Snapshots
        /\ SnapOk(SnapshotFor(today), rows, warnings, unheard, forgiven)
    BY <1>1, SnapshotIs
  <2>3. paid' = paid
    BY <1>3, <1>6, <1>7, <1>8
  <2>4. TypeOK'
    BY <1>1, <1>2, <1>4, <1>5, <1>6, <2>1, <2>2, <2>3 DEF TypeOK, RequestTable, Snapshots
  <2>5. SafeState'
    BY <1>1, <1>4, <2>1, <2>2, Zenon DEF SafeState
  <2>6. RowsAccountForSpending'
    BY <1>1, <1>4, <2>1, <2>3 DEF RowsAccountForSpending
  <2> QED
    BY <2>4, <2>5, <2>6 DEF IInv
<1>9. CASE ~(cost <= 0)
  <2> DEFINE w == World(d)
             v == Apply(w, 3, today, cost)
  <2>1. Becomes(v)
    BY <1>2, <1>9, Zenon DEF Commit
  <2>2. IsWorld(w) /\ SafeWorld(w, unheard, forgiven) /\ w.rows = rows
    BY <1>1, WorldIs
  <2>3. Charged(w, 3, today, cost, v, unheard, forgiven)
    BY <1>1, <1>3, <2>2, ApplyIs
  <2> HIDE DEF v, w
  <2>4. IsWorld(v) /\ SafeWorld(v, unheard, forgiven) /\ Amounts(w, 3, today, cost, v)
    BY <2>3, Zenon DEF Charged
  <2>5. SafeWorld(v, unheard', forgiven')
    BY <1>4, <2>4, Zenon
  <2>6. /\ rows' \in [PeriodKeys -> Counter]
        /\ snapshot' \in [Periods -> PeriodState]
        /\ \A p \in Periods : (snapshot')[p].key[1] = p
        /\ warnings' \in [PeriodKeys -> Nat]
        /\ SafeState'
    BY <2>1, <2>4, <2>5, BecomesIs
  <2>7. Accounted(w.rows, paid, torn)
    BY <1>1, <2>2, Zenon DEF Accounted, RowsAccountForSpending
  <2>8. PICK m \in 0..3 : m = 3
    OBVIOUS
  <2>9. paid' \in [PeriodKeys -> Nat] /\ Accounted(v.rows, paid', torn')
    <3>1. torn' = Torn(torn, today, m)
      BY <1>4, <2>8 DEF Torn
    <3>2. paid' = Paid(paid, today, cost)
      BY <1>7, Zenon DEF Paid
    <3>3. Amounts(w, m, today, cost, v)
      BY <2>4, <2>8, Zenon
    <3>4. /\ Paid(paid, today, cost) \in [PeriodKeys -> Nat]
          /\ Accounted(v.rows, Paid(paid, today, cost), Torn(torn, today, m))
      BY <1>1, <1>3, <1>6, <2>2, <2>7, <3>3, CommitAccounts
    <3> QED
      BY <3>1, <3>2, <3>4, Zenon
  <2>10. rows' = v.rows
    BY <2>1 DEF Becomes
  <2>11. RowsAccountForSpending'
    BY <2>9, <2>10, Zenon DEF Accounted, RowsAccountForSpending
  <2>12. TypeOK'
    BY <1>2, <1>4, <1>5, <1>6, <2>6, <2>9 DEF TypeOK, RequestTable
  <2> QED
    BY <2>6, <2>11, <2>12 DEF IInv
<1> QED
  BY <1>8, <1>9

(* commit() that fails at a statement *)
LEMMA CommitFailsKeeps ==
    ASSUME IInv, NEW r \in Requests, NEW cost \in Costs, NEW n \in 1..3,
           NEW s \in {"increment", "markWarned", "event"}, CommitFails(r, cost, n, s)
    PROVE  IInv'
<1>1. TypeOK /\ SafeState /\ RowsAccountForSpending /\ today \in 0..LastDay
  BY DEF IInv, TypeOK
<1>2. cost \in Nat
  BY Config
<1>3. UNCHANGED <<today, forgiven>> /\ Finished(r) /\ Charge(r, cost)
  BY DEF CommitFails
<1>4. request' \in RequestTable /\ waived' \in BOOLEAN /\ peak' \in 0..Cardinality(Requests)
  BY <1>1, <1>3, FinishedType, ChargeIs
<1>5. paid \in [PeriodKeys -> Nat] /\ torn \subseteq PeriodKeys /\ unheard \subseteq PeriodKeys
      /\ forgiven \subseteq Periods
  BY <1>1 DEF TypeOK
<1> DEFINE w == World(today)
           before == Apply(w, n - 1, today, cost)
           p == Order[n]
           k == KeyAt(p, today)
           v == ApplyPart(before, p, k, cost, s)
           m == IF s = "increment" THEN n - 1 ELSE n
           U == IF s = "increment" THEN unheard ELSE unheard \cup {k}
<1>6. IsWorld(w) /\ SafeWorld(w, unheard, forgiven) /\ w.rows = rows
  BY <1>1, WorldIs
<1>7. IsWorld(v) /\ SafeWorld(v, U, forgiven) /\ Amounts(w, m, today, cost, v)
  <2>1. PICK i \in 0..3 : i = n - 1
    OBVIOUS
  <2> HIDE DEF w
  <2>2. Charged(w, i, today, cost, Apply(w, i, today, cost), unheard, forgiven)
    BY <1>1, <1>2, <1>6, ApplyIs
  <2>3. Charged(w, n - 1, today, cost, before, unheard, forgiven)
    BY <2>1, <2>2, Zenon
  <2> HIDE DEF before
  <2> QED
    BY <1>1, <1>2, <2>3, PartIs
<1>8. Becomes(v)
  BY Zenon DEF CommitFails
<1>9. k \in PeriodKeys
  BY <1>1, OrderFacts, KeyFacts
<1>10. unheard' = U /\ U \subseteq PeriodKeys
  BY <1>5, <1>9 DEF CommitFails
<1>11. m \in 0..3 /\ torn' = Torn(torn, today, m)
  <2>1. torn' = torn \cup {KeyAt(Order[i], today) :
                           i \in (IF s = "increment" THEN n ELSE n + 1)..3}
    BY Zenon DEF CommitFails
  <2>2. CASE s = "increment"
    BY <2>1, <2>2 DEF Torn
  <2>3. CASE s # "increment"
    BY <2>1, <2>3 DEF Torn
  <2> QED
    BY <2>2, <2>3
<1>12. paid' = Paid(paid, today, cost)
  BY Zenon DEF CommitFails, Paid
<1>13. torn' \subseteq PeriodKeys
  <2>1. ASSUME NEW i \in (m + 1)..3 PROVE KeyAt(Order[i], today) \in PeriodKeys
    <3>1. i \in 1..3
      BY <1>11
    <3> QED
      BY <1>1, <3>1, OrderFacts, KeyFacts
  <2> HIDE DEF m
  <2> QED
    BY <1>5, <1>11, <2>1 DEF Torn
<1> HIDE DEF v, w, m, U
<1>14. SafeWorld(v, unheard', forgiven')
  BY <1>3, <1>7, <1>10, Zenon
<1>15. /\ rows' \in [PeriodKeys -> Counter]
       /\ snapshot' \in [Periods -> PeriodState]
       /\ \A q \in Periods : (snapshot')[q].key[1] = q
       /\ warnings' \in [PeriodKeys -> Nat]
       /\ SafeState'
  BY <1>7, <1>8, <1>14, BecomesIs
<1>16. paid' \in [PeriodKeys -> Nat] /\ Accounted(v.rows, paid', torn')
  <2>1. Accounted(w.rows, paid, torn)
    BY <1>1, <1>6, Zenon DEF Accounted, RowsAccountForSpending
  <2>2. /\ Paid(paid, today, cost) \in [PeriodKeys -> Nat]
        /\ Accounted(v.rows, Paid(paid, today, cost), Torn(torn, today, m))
    BY <1>1, <1>2, <1>5, <1>6, <1>7, <1>11, <2>1, CommitAccounts
  <2> QED
    BY <1>11, <1>12, <2>2, Zenon
<1>17. RowsAccountForSpending'
  <2>1. rows' = v.rows
    BY <1>8 DEF Becomes
  <2> QED
    BY <1>16, <2>1, Zenon DEF Accounted, RowsAccountForSpending
<1>18. TypeOK'
  BY <1>1, <1>3, <1>4, <1>5, <1>10, <1>13, <1>15, <1>16 DEF TypeOK, RequestTable
<1> QED
  BY <1>15, <1>17, <1>18 DEF IInv

(* BudgetTracker.reset *)
LEMMA TrackerResetKeeps ==
    ASSUME IInv, NEW p \in Periods, TrackerReset(p)
    PROVE  IInv'
<1>1. TypeOK /\ SafeState /\ RowsAccountForSpending
  BY DEF IInv
<1>2. /\ snapshot # NoSnapshot
      /\ snapshot' = [snapshot EXCEPT ![p].spent = 0, ![p].warned = FALSE]
      /\ warnings' = [warnings EXCEPT ![snapshot[p].key] = 0]
      /\ forgiven' = forgiven \cup {p}
      /\ UNCHANGED <<today, rows, request, paid, torn, unheard>>
      /\ Waive
  BY DEF TrackerReset
<1>3. snapshot \in [Periods -> PeriodState] /\ \A q \in Periods : snapshot[q].key[1] = q
  BY <1>1, <1>2, Zenon DEF TypeOK
<1> DEFINE k == snapshot[p].key
<1>4. k \in PeriodKeys /\ k[1] = p
  BY <1>3 DEF PeriodState
<1>5. /\ snapshot' \in [Periods -> PeriodState]
      /\ \A q \in Periods \ {p} : (snapshot')[q] = snapshot[q]
      /\ (snapshot')[p].key = k
  <2>1. [snapshot EXCEPT ![p].spent = 0, ![p].warned = FALSE]
          = [snapshot EXCEPT ![p] = [[snapshot[p] EXCEPT !.spent = 0] EXCEPT !.warned = FALSE]]
    BY <1>3
  <2>2. PICK P : P = [[snapshot[p] EXCEPT !.spent = 0] EXCEPT !.warned = FALSE]
    OBVIOUS
  <2>3. P \in PeriodState /\ P.key = k
    BY <1>3, <2>2 DEF PeriodState
  <2>4. snapshot' = [snapshot EXCEPT ![p] = P]
    BY <1>2, <2>1, <2>2, Zenon
  <2> QED
    BY <1>3, <2>3, <2>4
<1>6. /\ warnings' \in [PeriodKeys -> Nat]
      /\ (warnings')[k] = 0
      /\ \A j \in PeriodKeys \ {k} : (warnings')[j] = warnings[j]
  BY <1>1, <1>2, <1>4 DEF TypeOK
<1> HIDE DEF k
<1>7. TypeOK'
  <2>1. waived' \in BOOLEAN /\ peak' \in 0..Cardinality(Requests)
    <3>1. InFlight' \subseteq Requests
      BY DEF InFlight
    <3> QED
      BY <1>1, <1>2, <3>1, PeakType
  <2>2. \A q \in Periods : (snapshot')[q].key[1] = q
    BY <1>3, <1>4, <1>5
  <2> QED
    BY <1>1, <1>2, <1>5, <1>6, <2>1, <2>2 DEF TypeOK
<1>8. SafeState'
  <2>1. ASSUME NEW j \in PeriodKeys
        PROVE  RowOf(j, (rows')[j], (warnings')[j], unheard', forgiven')
    <3>1. RowOf(j, rows[j], warnings[j], unheard, forgiven)
      BY <1>1, Zenon DEF SafeState, StoreOk
    <3>2. CASE j = k
      <4>1. j[1] \in forgiven'
        BY <1>2, <1>4, <3>2
      <4>2. (warnings')[j] <= 1 /\ (warnings')[j] # 1
        BY <1>6, <3>2
      <4> QED
        BY <4>1, <4>2, Zenon DEF RowOf
    <3>3. CASE j # k
      <4>1. (warnings')[j] = warnings[j] /\ rows' = rows /\ unheard' = unheard
        BY <1>2, <1>6, <3>3
      <4>2. j[1] \notin forgiven' => j[1] \notin forgiven
        BY <1>2
      <4> QED
        BY <3>1, <4>1, <4>2, Zenon DEF RowOf
    <3> QED
      BY <3>2, <3>3
  <2>2. ASSUME NEW q \in Periods
        PROVE  MemoryOf(q, (snapshot')[q], (rows')[(snapshot')[q].key],
                        (warnings')[(snapshot')[q].key], unheard', forgiven')
    <3>1. CASE q = p
      <4>1. q \in forgiven' /\ (warnings')[(snapshot')[q].key] # 1
        BY <1>2, <1>5, <1>6, <3>1
      <4> QED
        BY <4>1, Zenon DEF MemoryOf
    <3>2. CASE q # p
      <4>1. MemoryOf(q, snapshot[q], rows[snapshot[q].key], warnings[snapshot[q].key],
                     unheard, forgiven)
        BY <1>1, <1>2, Zenon DEF SafeState, SnapOk
      <4>2. (snapshot')[q] = snapshot[q]
        BY <1>5, <3>2
      <4>3. snapshot[q].key \in PeriodKeys \ {k}
        BY <1>3, <1>4, <3>2 DEF PeriodState
      <4>4. (warnings')[snapshot[q].key] = warnings[snapshot[q].key]
        BY <1>6, <4>3
      <4>5. rows' = rows /\ unheard' = unheard /\ (q \notin forgiven' => q \notin forgiven)
        BY <1>2
      <4> QED
        BY <4>1, <4>2, <4>4, <4>5, Zenon DEF MemoryOf
    <3> QED
      BY <3>1, <3>2
  <2> QED
    BY <2>1, <2>2, Zenon DEF SafeState, StoreOk, SnapOk
<1>9. RowsAccountForSpending'
  BY <1>1, <1>2 DEF RowsAccountForSpending
<1> QED
  BY <1>7, <1>8, <1>9 DEF IInv

(* handleResetBudget *)
LEMMA AdminResetKeeps ==
    ASSUME IInv, AdminReset
    PROVE  IInv'
<1>1. TypeOK /\ SafeState /\ RowsAccountForSpending /\ today \in 0..LastDay
  BY DEF IInv, TypeOK
<1> DEFINE K == {KeyAt(p, today) : p \in {"day", "month"}}
<1>2. /\ rows' = [k \in PeriodKeys |-> IF k \in K THEN [spent |-> 0, warned |-> FALSE] ELSE rows[k]]
      /\ warnings' = [k \in PeriodKeys |-> IF k \in K THEN 0 ELSE warnings[k]]
      /\ paid' = [k \in PeriodKeys |-> IF k \in K THEN 0 ELSE paid[k]]
      /\ torn' = torn \ K
      /\ unheard' = IF snapshot = NoSnapshot THEN unheard \ K ELSE unheard \cup K
      /\ UNCHANGED <<today, snapshot, request, forgiven, waived, peak>>
  BY DEF AdminReset
<1>3. K \subseteq PeriodKeys
  <2>1. ASSUME NEW p \in {"day", "month"} PROVE KeyAt(p, today) \in PeriodKeys
    <3>1. p \in Periods
      BY DEF Periods
    <3> QED
      BY <1>1, <3>1, KeyFacts
  <2> QED
    BY <2>1
<1> HIDE DEF K
<1>4. ASSUME NEW j \in PeriodKeys
      PROVE  /\ j \in K =>
                   /\ (rows')[j].spent = 0 /\ ~(rows')[j].warned
                   /\ (warnings')[j] = 0 /\ (paid')[j] = 0
             /\ j \notin K =>
                   /\ (rows')[j] = rows[j] /\ (warnings')[j] = warnings[j]
                   /\ (paid')[j] = paid[j]
             /\ (rows')[j] \in Counter /\ (warnings')[j] \in Nat /\ (paid')[j] \in Nat
  BY <1>1, <1>2 DEF TypeOK, Counter
<1>5. TypeOK'
  <2>1. /\ rows' \in [PeriodKeys -> Counter] /\ warnings' \in [PeriodKeys -> Nat]
        /\ paid' \in [PeriodKeys -> Nat]
    BY <1>2, <1>4
  <2> QED
    BY <1>1, <1>2, <1>3, <2>1 DEF TypeOK
<1>6. SafeState'
  <2>1. ASSUME NEW j \in PeriodKeys
        PROVE  RowOf(j, (rows')[j], (warnings')[j], unheard', forgiven')
    <3>1. RowOf(j, rows[j], warnings[j], unheard, forgiven)
      BY <1>1, Zenon DEF SafeState, StoreOk
    <3>2. CASE j \in K
      <4>1. (warnings')[j] <= 1 /\ (warnings')[j] # 1
        BY <1>4, <3>2
      <4>2. ~(rows')[j].warned /\ ~((rows')[j].spent > 0)
        BY <1>4, <3>2
      <4> QED
        BY <4>1, <4>2, Zenon DEF RowOf, AtThreshold
    <3>3. CASE j \notin K
      <4>1. (rows')[j] = rows[j] /\ (warnings')[j] = warnings[j]
        BY <1>4, <3>3
      <4>2. forgiven' = forgiven /\ (j \notin unheard' => j \notin unheard)
        BY <1>2, <3>3
      <4> QED
        BY <3>1, <4>1, <4>2, Zenon DEF RowOf
    <3> QED
      BY <3>2, <3>3
  <2>2. ASSUME snapshot # NoSnapshot, NEW q \in Periods
        PROVE  MemoryOf(q, snapshot[q], (rows')[snapshot[q].key],
                        (warnings')[snapshot[q].key], unheard', forgiven')
    <3> DEFINE j == snapshot[q].key
    <3>1. snapshot[q] \in PeriodState
      BY <1>1, <2>2, Zenon DEF TypeOK
    <3>2. j \in PeriodKeys /\ snapshot[q].spent \in Nat
      BY <3>1 DEF PeriodState
    <3>3. MemoryOf(q, snapshot[q], rows[j], warnings[j], unheard, forgiven)
      BY <1>1, <2>2, Zenon DEF SafeState, SnapOk
    <3>4. forgiven' = forgiven /\ unheard' = unheard \cup K
      BY <1>2, <2>2
    <3>5. CASE j \in K
      <4>1. (warnings')[j] # 1 /\ snapshot[q].spent >= (rows')[j].spent
        BY <1>4, <3>2, <3>5
      <4>2. j \in unheard'
        BY <3>4, <3>5
      <4> QED
        BY <4>1, <4>2, Zenon DEF MemoryOf
    <3>6. CASE j \notin K
      <4>1. (rows')[j] = rows[j] /\ (warnings')[j] = warnings[j]
        BY <1>4, <3>2, <3>6
      <4>2. j \notin unheard' => j \notin unheard
        BY <3>4
      <4> QED
        BY <3>3, <3>4, <4>1, <4>2, Zenon DEF MemoryOf
    <3> QED
      BY <3>5, <3>6
  <2>3. snapshot' = snapshot
    BY <1>2
  <2> QED
    BY <2>1, <2>2, <2>3, Zenon DEF SafeState, StoreOk, SnapOk
<1>7. RowsAccountForSpending'
  <2>1. ASSUME NEW j \in PeriodKeys
        PROVE  /\ (rows')[j].spent <= (paid')[j]
               /\ j \notin torn' => (rows')[j].spent = (paid')[j]
    <3>1. CASE j \in K
      BY <1>4, <3>1
    <3>2. CASE j \notin K
      <4>1. (rows')[j] = rows[j] /\ (paid')[j] = paid[j] /\ (j \notin torn' => j \notin torn)
        BY <1>2, <1>4, <3>2
      <4>2. rows[j].spent <= paid[j] /\ (j \notin torn => rows[j].spent = paid[j])
        BY <1>1 DEF RowsAccountForSpending
      <4> QED
        BY <4>1, <4>2
    <3> QED
      BY <3>1, <3>2
  <2> QED
    BY <2>1, Zenon DEF RowsAccountForSpending
<1> QED
  BY <1>5, <1>6, <1>7 DEF IInv

(* A step that leaves the table and what is known of it alone.             *)
LEMMA StoreKept ==
    ASSUME IInv, UNCHANGED <<store, ghosts>>, today' \in 0..LastDay, request' \in RequestTable,
           snapshot' = snapshot \/ snapshot' = NoSnapshot
    PROVE  IInv'
<1>1. TypeOK /\ SafeState /\ RowsAccountForSpending
  BY DEF IInv
<1>2. UNCHANGED <<rows, warnings, paid, torn, unheard, forgiven, waived, peak>>
  BY DEF store, ghosts
<1>3. TypeOK'
  BY <1>1, <1>2 DEF TypeOK, RequestTable
<1>4. SafeState'
  BY <1>1, <1>2, Zenon DEF SafeState
<1>5. RowsAccountForSpending'
  BY <1>1, <1>2 DEF RowsAccountForSpending
<1> QED
  BY <1>3, <1>4, <1>5 DEF IInv

(* The invariant holds at the start ... *)
LEMMA InitIsSafe == Init => IInv
<1> SUFFICES ASSUME Init PROVE IInv
  OBVIOUS
<1>1. 0 <= Cardinality(Requests) /\ Cardinality(Requests) \in Nat
  BY Config, FS_CardinalityType
<1>2. TypeOK
  <2>1. /\ rows \in [PeriodKeys -> Counter]
        /\ warnings \in [PeriodKeys -> Nat] /\ paid \in [PeriodKeys -> Nat]
    BY DEF Init, Counter
  <2>2. request \in [Requests -> [phase: {"idle", "flight", "done"}, covered: Nat]]
    BY DEF Init
  <2>3. /\ torn \subseteq PeriodKeys /\ unheard \subseteq PeriodKeys
        /\ forgiven \subseteq Periods /\ waived \in BOOLEAN
    BY DEF Init
  <2>4. today \in 0..LastDay /\ peak \in 0..Cardinality(Requests) /\ snapshot = NoSnapshot
    BY <1>1, Config DEF Init
  <2> QED
    BY <2>1, <2>2, <2>3, <2>4, Zenon DEF TypeOK
<1>3. ASSUME NEW k \in PeriodKeys
      PROVE  rows[k].spent = 0 /\ ~rows[k].warned /\ warnings[k] = 0 /\ paid[k] = 0
  BY DEF Init
<1>4. ASSUME NEW k \in PeriodKeys PROVE RowOf(k, rows[k], warnings[k], unheard, forgiven)
  <2>1. warnings[k] <= 1 /\ warnings[k] # 1 /\ ~(rows[k].spent > 0)
    BY <1>3
  <2> QED
    BY <1>3, <2>1, Zenon DEF RowOf, AtThreshold
<1>5. SafeState
  <2>1. snapshot = NoSnapshot
    BY DEF Init
  <2> QED
    BY <1>4, <2>1, Zenon DEF SafeState, StoreOk
<1>6. RowsAccountForSpending
  BY <1>3 DEF RowsAccountForSpending
<1> QED
  BY <1>2, <1>5, <1>6 DEF IInv

(* ... and after every step ... *)
LEMMA NextIsSafe == IInv /\ [Next]_vars => IInv'
<1> SUFFICES ASSUME IInv, [Next]_vars PROVE IInv'
  OBVIOUS
<1>1. TypeOK /\ today \in 0..LastDay /\ request \in RequestTable
  BY DEF IInv, TypeOK, RequestTable
<1>2. CASE \E r \in Requests, e \in Estimates, m \in Modes : Check(r, e, m)
  BY <1>2, CheckKeeps
<1>3. CASE \E r \in Requests, cost \in Costs : Commit(r, cost)
  BY <1>3, CommitKeeps
<1>4. CASE \E r \in Requests, cost \in Costs, n \in 1..3,
              s \in {"increment", "markWarned", "event"} : CommitFails(r, cost, n, s)
  BY <1>4, CommitFailsKeeps
<1>5. CASE \E r \in Requests : GiveUp(r)
  <2>1. PICK r \in Requests : GiveUp(r)
    BY <1>5
  <2>2. Finished(r) /\ UNCHANGED <<today, store, snapshot, ghosts>>
    BY <2>1 DEF GiveUp
  <2>3. request' \in RequestTable
    BY <1>1, <2>2, FinishedType
  <2> QED
    BY <1>1, <2>2, <2>3, StoreKept
<1>6. CASE \E p \in Periods : TrackerReset(p)
  BY <1>6, TrackerResetKeeps
<1>7. CASE AdminReset
  BY <1>7, AdminResetKeeps
<1>8. CASE Restart
  <2>1. snapshot' = NoSnapshot /\ UNCHANGED <<today, store, ghosts>>
    BY <1>8 DEF Restart
  <2>2. request' \in RequestTable
    BY <1>1, <1>8 DEF Restart, RequestTable, Ended
  <2> QED
    BY <1>1, <2>1, <2>2, StoreKept
<1>9. CASE NextDay
  <2>1. UNCHANGED <<store, snapshot, request, ghosts>> /\ today' \in 0..LastDay
    BY <1>1, <1>9, Config DEF NextDay, Midnight
  <2> QED
    BY <1>1, <2>1, StoreKept
<1>10. CASE UNCHANGED vars
  BY <1>1, <1>10, StoreKept DEF vars, store, ghosts
<1> QED
  BY <1>2, <1>3, <1>4, <1>5, <1>6, <1>7, <1>8, <1>9, <1>10, Zenon DEF Next

(* ... so always. *)
LEMMA Invariance == Spec => []IInv
<1> QED
  BY InitIsSafe, NextIsSafe, PTL DEF Spec

-----------------------------------------------------------------------------
(* Every variable keeps its type: what table and memory hold are counters  *)
(* of the periods they are kept for.                                       *)
THEOREM TypeCorrect == Spec => []TypeOK
<1>1. IInv => TypeOK
  BY DEF IInv
<1> QED
  BY <1>1, Invariance, PTL

(* budget.ts increment: a row holds what was committed to its period, and  *)
(* never more, whatever failed half-way, restarted or was reset.           *)
THEOREM RowsAccountHolds == Spec => []RowsAccountForSpending
<1>1. IInv => RowsAccountForSpending
  BY DEF IInv
<1> QED
  BY <1>1, Invariance, PTL

(* tracker.ts snapshotFor: what a check reads is at least what the row     *)
(* holds, unless the tracker's own reset made it forget.                   *)
THEOREM SnapshotCovers == Spec => []SnapshotCoversRow
<1>1. IInv => SnapshotCoversRow
  BY Zenon DEF IInv, SafeState, SnapOk, MemoryOf, SnapshotCoversRow
<1> QED
  BY <1>1, Invariance, PTL

(* tracker.ts applyOne: no period warns twice between two resets.          *)
THEOREM WarnsOnce == Spec => []OneWarningPerPeriod
<1>1. IInv => OneWarningPerPeriod
  BY Zenon DEF IInv, SafeState, StoreOk, RowOf, OneWarningPerPeriod
<1> QED
  BY <1>1, Invariance, PTL

(* tracker.ts applyOne: a period that reached 80% of its cap has warned,   *)
(* unless a statement failed on the way or a reset forgot it.              *)
THEOREM ThresholdHeard == Spec => []ThresholdIsHeard
<1>1. IInv => ThresholdIsHeard
  <2> SUFFICES ASSUME IInv, NEW p \in Periods \ forgiven, Budget[p] # Unlimited,
                      NEW d \in 0..LastDay,
                      10 * rows[KeyAt(p, d)].spent >= 8 * Budget[p],
                      rows[KeyAt(p, d)].spent > 0, KeyAt(p, d) \notin unheard
               PROVE  warnings[KeyAt(p, d)] = 1
    BY Zenon DEF ThresholdIsHeard
  <2>1. PICK k \in PeriodKeys : k = KeyAt(p, d) /\ k[1] = p
    BY KeyFacts
  <2>2. RowOf(k, rows[k], warnings[k], unheard, forgiven)
    BY Zenon DEF IInv, SafeState, StoreOk
  <2>3. AtThreshold(k[1], rows[k].spent)
    BY <2>1, Zenon DEF AtThreshold
  <2>4. k[1] \notin forgiven /\ k \notin unheard
    BY <2>1
  <2> QED
    BY <2>1, <2>2, <2>3, <2>4, Zenon DEF RowOf
<1> QED
  BY <1>1, Invariance, PTL

-----------------------------------------------------------------------------
(* How far the total can be exceeded.  A check sees what it covers and the *)
(* row within the cap; whoever was let in beside it costs Dearest at most. *)
(* So among those under way there is one whose check still accounts for    *)
(* the row: what it covers and all the others at their dearest come to no  *)
(* more than the cap and the peak allow.                                   *)
HasDearest == \E c \in Costs : \A d \in Costs : d <= c

Times(n) == n * Dearest

Lesser(e) == IF e <= Dearest THEN e ELSE Dearest

Allowance(n) == Budget["total"] + Times(n - 1)

(* I: those under way; q: the table of requests; t: the total; n: the peak *)
Within(I, q, t, n) ==
    /\ Cardinality(I) <= n
    /\ I = {} /\ n > 0 => t <= Allowance(n)
    /\ I # {} => \E r \in I :
          t + Lesser(q[r].covered) + Times(Cardinality(I) - 1) <= Allowance(n)

LEMMA DearestIs ==
    ASSUME HasDearest
    PROVE  Dearest \in Nat /\ \A c \in Costs : c <= Dearest
<1>1. Dearest \in Costs /\ \A c \in Costs : c <= Dearest
  BY DEF HasDearest, Dearest
<1> QED
  BY <1>1, Config

LEMMA TimesIs ==
    ASSUME HasDearest, NEW n \in Nat
    PROVE  /\ Times(n) \in Nat /\ Times(0) = 0
           /\ Times(n + 1) = Times(n) + Dearest
           /\ \A m \in Nat : m <= n => Times(m) <= Times(n)
<1>1. PICK d \in Nat : d = Dearest
  BY DearestIs
<1>2. n * d \in Nat /\ 0 * d = 0 /\ (n + 1) * d = n * d + d
  OBVIOUS
<1>3. ASSUME NEW m \in Nat, m <= n PROVE m * d <= n * d
  <2>1. PICK k \in Nat : k = n - m
    BY <1>3
  <2>2. n = m + k
    BY <1>3, <2>1
  <2>3. (m + k) * d = m * d + k * d /\ k * d \in Nat /\ m * d \in Nat
    OBVIOUS
  <2> QED
    BY <2>2, <2>3
<1> QED
  BY <1>1, <1>2, <1>3 DEF Times

LEMMA AllowanceIs ==
    ASSUME HasDearest, Budget["total"] \in Nat, NEW n \in Nat, n > 0
    PROVE  Allowance(n) \in Nat
<1>1. PICK m \in Nat : m = n - 1
  OBVIOUS
<1>2. Times(m) \in Nat
  BY TimesIs
<1> QED
  BY <1>1, <1>2 DEF Allowance

(* One more is let in, with a check that the total can take. *)
LEMMA OneJoins ==
    ASSUME HasDearest, Budget["total"] \in Nat, NEW I, IsFiniteSet(I), NEW r, r \notin I,
           NEW q, NEW n \in Nat, NEW t \in Nat, NEW e \in Nat, q[r].covered = e,
           t + e <= Budget["total"],
           NEW m, m = IF Cardinality(I \cup {r}) <= n THEN n ELSE Cardinality(I \cup {r})
    PROVE  Within(I \cup {r}, q, t, m)
<1>1. PICK f \in Nat : f = Cardinality(I)
  BY FS_CardinalityType
<1>2. Cardinality(I \cup {r}) = f + 1
  BY <1>1, FS_AddElement
<1>3. m \in Nat /\ f + 1 <= m /\ m - 1 \in Nat /\ f <= m - 1
  BY <1>2
<1>4. Times(f) \in Nat /\ Times(m - 1) \in Nat /\ Times(f) <= Times(m - 1)
  BY <1>3, TimesIs
<1>5. Lesser(e) \in Nat /\ Lesser(e) <= e
  BY DearestIs DEF Lesser
<1>6. Cardinality(I \cup {r}) - 1 = f
  BY <1>2
<1>7. t + Lesser(q[r].covered) + Times(f) <= Allowance(m)
  BY <1>4, <1>5 DEF Allowance
<1> QED
  BY <1>2, <1>3, <1>6, <1>7 DEF Within

(* One of them ends and costs no more than it covers, or nothing. *)
LEMMA OneLeaves ==
    ASSUME HasDearest, Budget["total"] \in Nat, NEW I, IsFiniteSet(I), NEW r \in I,
           NEW q, NEW n \in Nat, NEW t \in Nat, Within(I, q, t, n),
           \A s \in I : q[s].covered \in Nat,
           NEW p, \A s \in I \ {r} : p[s] = q[s],
           NEW c \in Nat, c <= q[r].covered, c <= Dearest
    PROVE  Within(I \ {r}, p, t + c, n)
<1>1. PICK f \in Nat : f = Cardinality(I) - 1 /\ Cardinality(I \ {r}) = f /\ f + 1 <= n
  <2>1. Cardinality(I \ {r}) = Cardinality(I) - 1 /\ IsFiniteSet(I \ {r})
    BY FS_RemoveElement
  <2>2. Cardinality(I \ {r}) \in Nat /\ Cardinality(I) \in Nat
    BY <2>1, FS_CardinalityType
  <2> QED
    BY <2>1, <2>2 DEF Within
<1>2. Dearest \in Nat /\ \A e \in Nat : Lesser(e) \in Nat /\ Lesser(e) <= Dearest
  BY DearestIs DEF Lesser
<1>3. PICK u \in I : t + Lesser(q[u].covered) + Times(f) <= Allowance(n)
  BY <1>1 DEF Within
<1>4. Allowance(n) \in Nat
  BY <1>1, AllowanceIs
<1>5. Times(f) \in Nat
  BY <1>1, TimesIs
<1>6. CASE I \ {r} = {}
  <2>1. u = r /\ c <= Lesser(q[u].covered)
    BY <1>6 DEF Lesser
  <2>2. t + c <= Allowance(n)
    BY <1>2, <1>3, <1>4, <1>5, <2>1
  <2> QED
    BY <1>1, <1>6, <2>2 DEF Within
<1>7. CASE I \ {r} # {}
  <2>1. PICK k \in Nat : f = k + 1
    <3>1. f # 0
      <4>1. IsFiniteSet(I \ {r})
        BY FS_RemoveElement
      <4> QED
        BY <1>1, <1>7, <4>1, FS_EmptySet
    <3>2. f - 1 \in Nat /\ f = (f - 1) + 1
      BY <3>1
    <3> QED
      BY <3>2
  <2>2. Times(f) = Times(k) + Dearest /\ Times(k) \in Nat
    BY <2>1, TimesIs
  <2>3. PICK x \in I \ {r} : /\ u # r => x = u
                             /\ p[x] = q[x]
    BY <1>7
  <2>4. t + c + Lesser(q[x].covered) + Times(k) <= Allowance(n)
    <3>1. CASE u # r
      BY <1>2, <1>3, <1>4, <2>2, <2>3, <3>1
    <3>2. CASE u = r
      <4>1. c <= Lesser(q[u].covered)
        BY <3>2 DEF Lesser
      <4> QED
        BY <1>2, <1>3, <1>4, <2>2, <2>3, <3>2, <4>1
    <3> QED
      BY <3>1, <3>2
  <2>5. Cardinality(I \ {r}) - 1 = k
    BY <1>1, <2>1
  <2>6. t + c + Lesser(p[x].covered) + Times(Cardinality(I \ {r}) - 1) <= Allowance(n)
    BY <2>3, <2>4, <2>5
  <2>7. Cardinality(I \ {r}) <= n
    BY <1>1
  <2> QED
    BY <1>7, <2>3, <2>6, <2>7, Zenon DEF Within
<1> QED
  BY <1>6, <1>7

(* Nobody is under way any more. *)
LEMMA AllLeave ==
    ASSUME HasDearest, Budget["total"] \in Nat, NEW I, IsFiniteSet(I), NEW q, NEW n \in Nat,
           NEW t \in Nat, Within(I, q, t, n), \A s \in I : q[s].covered \in Nat, NEW p
    PROVE  Within({}, p, t, n)
<1>1. Cardinality({}) = 0
  BY FS_EmptySet
<1>2. ASSUME n > 0, I # {} PROVE t <= Allowance(n)
  <2>1. PICK r \in I : t + Lesser(q[r].covered) + Times(Cardinality(I) - 1) <= Allowance(n)
    BY <1>2 DEF Within
  <2>2. Cardinality(I) - 1 \in Nat
    <3>1. Cardinality(I \ {r}) = Cardinality(I) - 1 /\ IsFiniteSet(I \ {r})
      BY FS_RemoveElement
    <3> QED
      BY <3>1, FS_CardinalityType
  <2>3. Times(Cardinality(I) - 1) \in Nat
    BY <2>2, TimesIs
  <2>4. Lesser(q[r].covered) \in Nat /\ Allowance(n) \in Nat
    BY <1>2, DearestIs, AllowanceIs DEF Lesser
  <2> QED
    BY <2>1, <2>3, <2>4
<1> QED
  BY <1>1, <1>2 DEF Within

(* While nobody was let in unseen: the tracker has forgotten nothing, and  *)
(* the total is within what those under way may make of it.                *)
TotalKey == KeyAt("total", 0)

OverInv ==
    ~waived => /\ forgiven = {}
               /\ HasDearest /\ Budget["total"] # Unlimited
                    => Within(InFlight, request, rows[TotalKey].spent, peak)

LEMMA TotalKeyIs ==
    /\ TotalKey \in PeriodKeys /\ "total" \in Periods
    /\ \A d \in 0..LastDay : KeyAt("total", d) = TotalKey
BY Config, KeyFacts DEF TotalKey, KeyAt, Periods

LEMMA OverTypes ==
    ASSUME TypeOK
    PROVE  /\ IsFiniteSet(InFlight) /\ InFlight \subseteq Requests
           /\ peak \in Nat /\ rows[TotalKey].spent \in Nat /\ today \in 0..LastDay
           /\ \A r \in Requests : request[r].covered \in Nat
           /\ request \in RequestTable
           /\ Budget["total"] # Unlimited => Budget["total"] \in Nat
<1>1. IsFiniteSet(InFlight) /\ InFlight \subseteq Requests
  BY Config, FS_Subset DEF InFlight
<1>2. peak \in Nat /\ Cardinality(Requests) \in Nat
  BY Config, FS_CardinalityType DEF TypeOK
<1>3. rows[TotalKey].spent \in Nat
  BY TotalKeyIs DEF TypeOK, Counter
<1>4. Budget["total"] # Unlimited => Budget["total"] \in Nat
  BY BudgetConfig, TotalKeyIs
<1> QED
  BY <1>1, <1>2, <1>3, <1>4 DEF TypeOK, RequestTable

(* A request that ends leaves the others as they are. *)
LEMMA FinishedLeaves ==
    ASSUME TypeOK, NEW r \in InFlight, Finished(r)
    PROVE  /\ InFlight' = InFlight \ {r}
           /\ \A s \in InFlight \ {r} : (request')[s] = request[s]
BY DEF TypeOK, Finished, Ended, InFlight

(* What a commit, finished or not, makes of the total: it counts the cost, *)
(* or stops before it does.                                                *)
LEMMA CommitCounts ==
    ASSUME IInv, NEW r \in Requests, NEW cost \in Costs, Commit(r, cost)
    PROVE  (rows')[TotalKey].spent \in
             {rows[TotalKey].spent, rows[TotalKey].spent + cost}
<1>1. TypeOK /\ SafeState /\ today \in 0..LastDay /\ cost \in Nat
  BY Config DEF IInv, TypeOK
<1>2. PICK d \in 0..LastDay : d = today'
  BY <1>1, Config DEF Commit, Midnight
<1>3. CASE cost <= 0
  BY <1>3 DEF Commit, store
<1>4. CASE ~(cost <= 0)
  <2> DEFINE w == World(d)
             v == Apply(w, 3, today, cost)
  <2>1. Becomes(v)
    BY <1>2, <1>4, Zenon DEF Commit
  <2>2. IsWorld(w) /\ SafeWorld(w, unheard, forgiven) /\ w.rows = rows
    BY <1>1, WorldIs
  <2>3. Charged(w, 3, today, cost, v, unheard, forgiven)
    BY <1>1, <2>2, ApplyIs
  <2> HIDE DEF v, w
  <2>4. v.rows[TotalKey].spent \in {w.rows[TotalKey].spent, w.rows[TotalKey].spent + cost}
    BY <2>3, TotalKeyIs, Zenon DEF Charged, Amounts
  <2> QED
    BY <2>1, <2>2, <2>4, Zenon DEF Becomes
<1> QED
  BY <1>3, <1>4

LEMMA FailureCounts ==
    ASSUME IInv, NEW r \in Requests, NEW cost \in Costs, NEW n \in 1..3,
           NEW s \in {"increment", "markWarned", "event"}, CommitFails(r, cost, n, s)
    PROVE  (rows')[TotalKey].spent \in
             {rows[TotalKey].spent, rows[TotalKey].spent + cost}
<1>1. TypeOK /\ SafeState /\ today \in 0..LastDay /\ cost \in Nat
  BY Config DEF IInv, TypeOK
<1> DEFINE w == World(today)
           before == Apply(w, n - 1, today, cost)
           p == Order[n]
           k == KeyAt(p, today)
           v == ApplyPart(before, p, k, cost, s)
           m == IF s = "increment" THEN n - 1 ELSE n
<1>2. IsWorld(w) /\ SafeWorld(w, unheard, forgiven) /\ w.rows = rows
  BY <1>1, WorldIs
<1>3. Amounts(w, m, today, cost, v)
  <2>1. PICK i \in 0..3 : i = n - 1
    OBVIOUS
  <2> HIDE DEF w
  <2>2. Charged(w, i, today, cost, Apply(w, i, today, cost), unheard, forgiven)
    BY <1>1, <1>2, ApplyIs
  <2>3. Charged(w, n - 1, today, cost, before, unheard, forgiven)
    BY <2>1, <2>2, Zenon
  <2> HIDE DEF before
  <2> QED
    BY <1>1, <2>3, PartIs
<1>4. Becomes(v)
  BY Zenon DEF CommitFails
<1> HIDE DEF v, w, m
<1>5. v.rows[TotalKey].spent \in {w.rows[TotalKey].spent, w.rows[TotalKey].spent + cost}
  BY <1>3, TotalKeyIs, Zenon DEF Amounts
<1> QED
  BY <1>2, <1>4, <1>5, Zenon DEF Becomes

(* A commit that no longer waives costs what it covers at most. *)
LEMMA ChargeKeeps ==
    ASSUME IInv, OverInv, NEW r \in Requests, request[r].phase = "flight",
           NEW cost \in Costs, Charge(r, cost), Finished(r), UNCHANGED forgiven,
           (rows')[TotalKey].spent \in
             {rows[TotalKey].spent, rows[TotalKey].spent + cost}
    PROVE  OverInv'
<1> SUFFICES ASSUME ~waived' PROVE OverInv'
  BY DEF OverInv
<1>1. TypeOK /\ r \in InFlight /\ cost \in Nat
  BY Config DEF IInv, InFlight
<1>2. /\ ~(cost > request[r].covered) /\ UNCHANGED <<waived, peak>>
  BY DEF Charge, Waive
<1>3. forgiven' = {}
  BY <1>2 DEF OverInv
<1>4. ASSUME HasDearest, Budget["total"] # Unlimited
      PROVE  Within(InFlight', request', (rows')[TotalKey].spent, peak')
  <2>1. PICK t \in Nat : t = rows[TotalKey].spent
    BY <1>1, OverTypes
  <2>2. PICK c \in Nat : /\ c = 0 \/ c = cost
                         /\ (rows')[TotalKey].spent = t + c
    <3>1. CASE (rows')[TotalKey].spent = rows[TotalKey].spent
      <4>1. PICK c \in Nat : c = 0
        OBVIOUS
      <4> QED
        BY <2>1, <3>1, <4>1
    <3>2. CASE (rows')[TotalKey].spent = rows[TotalKey].spent + cost
      BY <1>1, <2>1, <3>2
    <3> QED
      BY <3>1, <3>2
  <2>3. c <= request[r].covered /\ c <= Dearest
    <3>1. request[r].covered \in Nat
      BY <1>1, OverTypes
    <3>2. Dearest \in Nat /\ cost <= Dearest
      BY <1>4, DearestIs
    <3> QED
      BY <1>1, <1>2, <2>2, <3>1, <3>2
  <2>4. Within(InFlight, request, t, peak)
    BY <1>2, <1>4, <2>1 DEF OverInv
  <2>5. /\ IsFiniteSet(InFlight) /\ peak \in Nat /\ Budget["total"] \in Nat
        /\ \A s \in InFlight : request[s].covered \in Nat
    BY <1>1, <1>4, OverTypes
  <2>6. \A s \in InFlight \ {r} : (request')[s] = request[s]
    BY <1>1, FinishedLeaves
  <2>7. Within(InFlight \ {r}, request', t + c, peak)
    BY <1>1, <1>4, <2>3, <2>4, <2>5, <2>6, OneLeaves
  <2> QED
    BY <1>1, <1>2, <2>2, <2>7, FinishedLeaves
<1> QED
  BY <1>3, <1>4 DEF OverInv

(* Giving up costs nothing. *)
LEMMA GiveUpKeeps ==
    ASSUME IInv, OverInv, NEW r \in Requests, GiveUp(r)
    PROVE  OverInv'
<1>1. TypeOK /\ r \in InFlight /\ Finished(r)
      /\ UNCHANGED <<rows, forgiven, waived, peak>>
  BY DEF IInv, InFlight, GiveUp, store, ghosts
<1>2. ASSUME ~waived, HasDearest, Budget["total"] # Unlimited
      PROVE  Within(InFlight', request', rows[TotalKey].spent, peak)
  <2>1. PICK t \in Nat : t = rows[TotalKey].spent
    BY <1>1, OverTypes
  <2>2. PICK c \in Nat : c = 0
    OBVIOUS
  <2>3. c <= request[r].covered /\ c <= Dearest
    BY <1>1, <1>2, <2>2, OverTypes, DearestIs
  <2>4. Within(InFlight, request, t, peak)
    BY <1>2, <2>1 DEF OverInv
  <2>5. /\ IsFiniteSet(InFlight) /\ peak \in Nat /\ Budget["total"] \in Nat
        /\ \A s \in InFlight : request[s].covered \in Nat
    BY <1>1, <1>2, OverTypes
  <2>6. \A s \in InFlight \ {r} : (request')[s] = request[s]
    BY <1>1, FinishedLeaves
  <2>7. Within(InFlight \ {r}, request', t + c, peak)
    BY <1>1, <1>2, <2>3, <2>4, <2>5, <2>6, OneLeaves
  <2>8. t + c = t
    BY <2>2
  <2> QED
    BY <1>1, <2>1, <2>7, <2>8, FinishedLeaves
<1> QED
  BY <1>1, <1>2 DEF OverInv

(* check() with its memory, which reads the row at least. *)
LEMMA CheckKeepsTotal ==
    ASSUME IInv, OverInv, NEW r \in Requests, NEW e \in Estimates, NEW mode \in Modes,
           Check(r, e, mode)
    PROVE  OverInv'
<1> SUFFICES ASSUME ~waived' PROVE OverInv'
  BY DEF OverInv
<1> DEFINE unseen == e <= 0 \/ mode = "soft"
<1>1. /\ TypeOK /\ SafeState /\ today \in 0..LastDay /\ e \in Nat
      /\ request \in RequestTable /\ request[r].phase = "idle"
      /\ UNCHANGED <<rows, forgiven>> /\ snapshot' = SnapshotFor(today)
  BY BudgetConfig DEF IInv, TypeOK, RequestTable, Check, store
<1>2. ~unseen /\ UNCHANGED waived /\ NotePeak
  BY DEF Check, Waive
<1>3. request' = [request EXCEPT ![r] =
         IF Affords(snapshot', e) THEN [phase |-> "flight", covered |-> e] ELSE Ended]
  BY <1>2 DEF Check
<1>4. forgiven' = {} /\ forgiven = {}
  BY <1>1, <1>2 DEF OverInv
<1>5. ASSUME HasDearest, Budget["total"] # Unlimited
      PROVE  Within(InFlight', request', rows[TotalKey].spent, peak')
  <2>1. PICK t \in Nat : t = rows[TotalKey].spent
    BY <1>1, OverTypes
  <2>2. Within(InFlight, request, t, peak)
    BY <1>2, <1>5, <2>1 DEF OverInv
  <2>3. /\ IsFiniteSet(InFlight) /\ peak \in Nat /\ Budget["total"] \in Nat
        /\ r \notin InFlight /\ InFlight \subseteq Requests
    BY <1>1, <1>5, OverTypes DEF InFlight
  <2>4. peak' = IF Cardinality(InFlight') <= peak THEN peak ELSE Cardinality(InFlight')
    BY <1>2 DEF NotePeak
  <2>5. CASE Affords(snapshot', e)
    <3>1. (request')[r].covered = e
      BY <1>1, <1>3, <2>5 DEF RequestTable
    <3>2. InFlight' = InFlight \cup {r}
      BY <1>1, <1>3, <2>5 DEF RequestTable, InFlight
    <3>3. t + e <= Budget["total"]
      <4>1. PICK S \in Snapshots : /\ S = snapshot'
                                   /\ SnapOk(S, rows, warnings, unheard, forgiven)
        BY <1>1, SnapshotIs
      <4>2. S["total"].key = TotalKey /\ S["total"].spent \in Nat
        <5>1. S["total"] \in PeriodState /\ S["total"].key[1] = "total"
          BY <4>1, TotalKeyIs DEF Snapshots
        <5>2. S["total"].key \in PeriodKeys /\ S["total"].spent \in Nat
          BY <5>1 DEF PeriodState
        <5>3. \A k \in PeriodKeys : k[1] = "total" => k = TotalKey
          BY DEF PeriodKeys, KeyAt, Periods, TotalKey
        <5> QED
          BY <5>1, <5>2, <5>3
      <4>3. S["total"].spent >= t
        BY <1>4, <2>1, <4>1, <4>2, TotalKeyIs, Zenon DEF SnapOk, MemoryOf
      <4>4. S["total"].spent + e <= Budget["total"]
        BY <1>5, <2>5, <4>1, TotalKeyIs DEF Affords
      <4> QED
        BY <1>1, <2>3, <4>2, <4>3, <4>4
    <3>4. PICK m : m = IF Cardinality(InFlight \cup {r}) <= peak THEN peak
                       ELSE Cardinality(InFlight \cup {r})
      OBVIOUS
    <3>5. Within(InFlight \cup {r}, request', t, m)
      BY <1>1, <1>5, <2>3, <3>1, <3>3, <3>4, OneJoins
    <3>6. peak' = m
      BY <2>4, <3>2, <3>4
    <3> QED
      BY <2>1, <3>2, <3>5, <3>6
  <2>6. CASE ~Affords(snapshot', e)
    <3>1. InFlight' = InFlight /\ \A s \in InFlight : (request')[s] = request[s]
      BY <1>1, <1>3, <2>6 DEF RequestTable, InFlight, Ended
    <3>2. peak' = peak
      BY <2>2, <2>4, <3>1 DEF Within
    <3>3. Within(InFlight, request', t, peak)
      BY <2>2, <3>1, Zenon DEF Within
    <3> QED
      BY <2>1, <3>1, <3>2, <3>3
  <2> QED
    BY <2>5, <2>6
<1> QED
  BY <1>1, <1>4, <1>5 DEF OverInv

(* The administrator resets no total. *)
LEMMA AdminResetKeepsTotal ==
    ASSUME IInv, OverInv, AdminReset
    PROVE  OverInv'
<1>1. UNCHANGED <<request, forgiven, waived, peak>>
  BY DEF AdminReset
<1>2. (rows')[TotalKey] = rows[TotalKey]
  <2>1. \A p \in {"day", "month"} : KeyAt(p, today) # TotalKey
    BY DEF KeyAt, TotalKey
  <2> QED
    BY <2>1, TotalKeyIs DEF AdminReset
<1>3. InFlight' = InFlight
  BY <1>1 DEF InFlight
<1> QED
  BY <1>1, <1>2, <1>3 DEF OverInv

LEMMA RestartKeepsTotal ==
    ASSUME IInv, OverInv, Restart
    PROVE  OverInv'
<1>1. TypeOK /\ UNCHANGED <<rows, forgiven, waived, peak>>
  BY DEF IInv, Restart, store, ghosts
<1>2. InFlight' = {}
  BY <1>1 DEF Restart, InFlight, Ended, TypeOK
<1>3. ASSUME ~waived, HasDearest, Budget["total"] # Unlimited
      PROVE  Within({}, request', rows[TotalKey].spent, peak)
  <2>1. PICK t \in Nat : t = rows[TotalKey].spent
    BY <1>1, OverTypes
  <2>2. Within(InFlight, request, t, peak)
    BY <1>3, <2>1 DEF OverInv
  <2>3. /\ IsFiniteSet(InFlight) /\ peak \in Nat /\ Budget["total"] \in Nat
        /\ \A s \in InFlight : request[s].covered \in Nat
    BY <1>1, <1>3, OverTypes
  <2>4. Within({}, request', t, peak)
    BY <1>3, <2>2, <2>3, AllLeave
  <2> QED
    BY <2>1, <2>4
<1> QED
  BY <1>1, <1>2, <1>3 DEF OverInv

LEMMA OverStep == IInv /\ OverInv /\ [Next]_vars => OverInv'
<1> SUFFICES ASSUME IInv, OverInv, [Next]_vars PROVE OverInv'
  OBVIOUS
<1>1. CASE \E r \in Requests, e \in Estimates, m \in Modes : Check(r, e, m)
  BY <1>1, CheckKeepsTotal
<1>2. ASSUME NEW r \in Requests, NEW cost \in Costs, Commit(r, cost) PROVE OverInv'
  <2>1. request[r].phase = "flight" /\ Charge(r, cost) /\ Finished(r) /\ UNCHANGED forgiven
    BY <1>2 DEF Commit
  <2> QED
    BY <1>2, <2>1, CommitCounts, ChargeKeeps
<1>3. ASSUME NEW r \in Requests, NEW cost \in Costs, NEW n \in 1..3,
             NEW s \in {"increment", "markWarned", "event"}, CommitFails(r, cost, n, s)
      PROVE  OverInv'
  <2>1. request[r].phase = "flight" /\ Charge(r, cost) /\ Finished(r) /\ UNCHANGED forgiven
    BY <1>3 DEF CommitFails
  <2> QED
    BY <1>3, <2>1, FailureCounts, ChargeKeeps
<1>4. CASE \E r \in Requests : GiveUp(r)
  BY <1>4, GiveUpKeeps
<1>5. CASE \E p \in Periods : TrackerReset(p)
  BY <1>5 DEF TrackerReset, Waive, OverInv
<1>6. CASE AdminReset
  BY <1>6, AdminResetKeepsTotal
<1>7. CASE Restart
  BY <1>7, RestartKeepsTotal
<1>8. CASE UNCHANGED <<store, request, ghosts>>
  BY <1>8 DEF store, ghosts, OverInv, InFlight
<1>9. NextDay \/ UNCHANGED vars => UNCHANGED <<store, request, ghosts>>
  BY DEF NextDay, vars, store, ghosts
<1> QED
  BY <1>1, <1>2, <1>3, <1>4, <1>5, <1>6, <1>7, <1>8, <1>9, Zenon DEF Next

(* tracker.ts check and commit: with a dearest cost, requests that were    *)
(* all checked overrun the total by one such cost for each of the others   *)
(* ever under way with them, and a request on its own by nothing.          *)
THEOREM OvershootBounded == HasDearest /\ Spec => []OvershootIsBounded
<1>1. Init => OverInv
  <2> SUFFICES ASSUME Init PROVE OverInv
    OBVIOUS
  <2>1. InFlight = {} /\ peak = 0 /\ forgiven = {} /\ Cardinality({}) = 0
    BY FS_EmptySet DEF Init, InFlight
  <2> QED
    BY <2>1 DEF OverInv, Within
<1>2. IInv /\ OverInv /\ HasDearest => OvershootIsBounded
  <2> SUFFICES ASSUME IInv, OverInv, HasDearest, Budget["total"] # Unlimited, ~waived,
                      peak > 0
               PROVE  rows[TotalKey].spent <= Budget["total"] + (peak - 1) * Dearest
    BY DEF OvershootIsBounded, TotalKey
  <2>1. PICK t \in Nat : t = rows[TotalKey].spent
    BY OverTypes DEF IInv
  <2>2. /\ IsFiniteSet(InFlight) /\ peak \in Nat /\ Budget["total"] \in Nat
        /\ \A s \in InFlight : request[s].covered \in Nat
    BY OverTypes DEF IInv
  <2>3. Within(InFlight, request, t, peak)
    BY <2>1 DEF OverInv
  <2>4. Within({}, request, t, peak)
    BY <2>2, <2>3, AllLeave
  <2> QED
    BY <2>1, <2>4 DEF Within, Allowance, Times
<1>3. HasDearest => [](HasDearest)
  OBVIOUS
<1> QED
  BY <1>1, <1>2, <1>3, OverStep, Invariance, PTL DEF Spec

=============================================================================
