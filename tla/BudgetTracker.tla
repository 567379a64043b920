---------------------------- MODULE BudgetTracker ----------------------------
(***************************************************************************)
(* budget/tracker.ts over storage/repos/budget.ts, for one key (keys share *)
(* nothing): a snapshot of three counters in memory, their rows in SQLite, *)
(* and the requests that check before their upstream call and commit after *)
(* it.  Every call of the tracker is synchronous, and every SQL statement  *)
(* of it commits by itself, so a statement that fails, or the process that *)
(* dies, leaves what was done before it.                                   *)
(***************************************************************************)
EXTENDS Integers, FiniteSets

CONSTANTS Requests,      \* requests made with the key, each once
          Estimates,     \* costs a request may be checked for
          Costs,         \* what it may turn out to cost
          Modes,         \* budget modes a check may be made with
          Budget,        \* per period: the cap, or Unlimited
          Unlimited,
          DaysPerMonth,
          LastDay,       \* bound: days that are considered
          Resets         \* which resets are called: "admin", "tracker"

Periods == {"day", "month", "total"}

ASSUME BudgetConfig ==
    /\ IsFiniteSet(Requests)
    /\ Estimates \subseteq Nat /\ Costs \subseteq Nat
    /\ Modes \subseteq {"hard", "soft"}
    /\ Unlimited \notin Nat
    /\ Budget \in [Periods -> Nat \cup {Unlimited}]
    /\ DaysPerMonth \in Nat \ {0}
    /\ LastDay \in Nat
    /\ Resets \subseteq {"admin", "tracker"}

VARIABLES today,     \* the UTC day of Date.now()
          rows,      \* budget_counters: amount and warning of each period key
          snapshot,  \* the tracker's cache entry, or NoSnapshot
          warnings,  \* budget_warning events per period key since its reset
          request,   \* the state of each request
          paid,      \* auxiliary: what was committed per key since its reset
          torn,      \* auxiliary: keys some commit failed to count in
          unheard,   \* auxiliary: keys whose warning failed or was held back
          forgiven,  \* auxiliary: periods once reset in memory only
          waived,    \* auxiliary: somebody was let in without a true check
          peak       \* auxiliary: most requests ever under way at once

store == <<rows, warnings>>
ghosts == <<paid, torn, unheard, forgiven, waived, peak>>
vars == <<today, rows, snapshot, warnings, request, ghosts>>

(* dayKey, monthKey and 'all': the key of a period at day d.               *)
KeyAt(p, d) == CASE p = "day"   -> <<p, d>>
                 [] p = "month" -> <<p, d \div DaysPerMonth>>
                 [] p = "total" -> <<p, 0>>

PeriodKeys == {KeyAt(p, d) : p \in Periods, d \in 0..LastDay}

NoSnapshot == [kind |-> "none"]
Counter == [spent: Nat, warned: BOOLEAN]
PeriodState == [key: PeriodKeys, spent: Nat, warned: BOOLEAN]

InFlight == {r \in Requests : request[r].phase = "flight"}

TypeOK == /\ today \in 0..LastDay
          /\ rows \in [PeriodKeys -> Counter]
          /\ \/ snapshot = NoSnapshot
             \/ /\ snapshot \in [Periods -> PeriodState]
                /\ \A p \in Periods : snapshot[p].key[1] = p
          /\ warnings \in [PeriodKeys -> Nat]
          /\ request \in [Requests -> [phase: {"idle", "flight", "done"},
                                       covered: Nat]]
          /\ paid \in [PeriodKeys -> Nat]
          /\ torn \subseteq PeriodKeys /\ unheard \subseteq PeriodKeys
          /\ forgiven \subseteq Periods
          /\ waived \in BOOLEAN
          /\ peak \in 0..Cardinality(Requests)

(* A row that does not exist reads as one with nothing spent. *)
Init == /\ today = 0
        /\ rows = [k \in PeriodKeys |-> [spent |-> 0, warned |-> FALSE]]
        /\ snapshot = NoSnapshot
        /\ warnings = [k \in PeriodKeys |-> 0]
        /\ request = [r \in Requests |-> [phase |-> "idle", covered |-> 0]]
        /\ paid = [k \in PeriodKeys |-> 0]
        /\ torn = {} /\ unheard = {} /\ forgiven = {}
        /\ waived = FALSE
        /\ peak = 0

-----------------------------------------------------------------------------
(* loadPeriod *)
Load(k, table) == [key |-> k, spent |-> table[k].spent, warned |-> table[k].warned]

(* mutant: the month is loaded under the key of the day *)
SnapshotFor_DayTwice(d) ==
    [p \in Periods |-> Load(KeyAt(IF p = "month" THEN "day" ELSE p, d), rows)]

(* snapshotFor at day d: the cache entry while its day and month are right *)
SnapshotFor(d) ==
    IF /\ snapshot # NoSnapshot
       /\ snapshot["day"].key = KeyAt("day", d)
       /\ snapshot["month"].key = KeyAt("month", d)
    THEN snapshot
    ELSE [p \in Periods |-> Load(KeyAt(p, d), rows)]

(* mutant: the total is not looked at *)
Affords_NoTotal(s, cost) ==
    \A p \in {"day", "month"} : Budget[p] # Unlimited => s[p].spent + cost <= Budget[p]

Affords(s, cost) ==
    \A p \in Periods : Budget[p] # Unlimited => s[p].spent + cost <= Budget[p]

(* The two ghosts of OvershootIsBounded: the peak is of no use once waived. *)
Waive == waived' = TRUE /\ peak' = 0

NotePeak == peak' = IF waived \/ Cardinality(InFlight') <= peak
                    THEN peak ELSE Cardinality(InFlight')

Charge(r, cost) == IF cost > request[r].covered THEN Waive ELSE UNCHANGED <<waived, peak>>

Ended == [phase |-> "done", covered |-> 0]

(* check() before the upstream call.  A cost that is not positive, or soft *)
(* mode, is let in unseen.                                                 *)
Check(r, estimate, mode) ==
    /\ request[r].phase = "idle"
    /\ snapshot' = SnapshotFor(today)
    /\ LET unseen == estimate <= 0 \/ mode = "soft"
           ok     == unseen \/ Affords(snapshot', estimate)
       IN  /\ request' = [request EXCEPT ![r] =
                 IF ok THEN [phase |-> "flight", covered |-> IF unseen THEN 0 ELSE estimate]
                       ELSE Ended]
           /\ IF unseen THEN Waive ELSE UNCHANGED waived /\ NotePeak
    /\ UNCHANGED <<today, store, paid, torn, unheard, forgiven>>

-----------------------------------------------------------------------------
(* commit() works on what is in the database and in memory:               *)
(*   [rows, snapshot, warnings]                                           *)
(* and either completes or fails at a statement.                          *)

(* mutant: the warning is only remembered in memory *)
Warn_Unsaved(w, p, k) ==
    [w EXCEPT !.snapshot[p].warned = TRUE, !.warnings[k] = @ + 1]

Warn(w, p, k) ==
    [w EXCEPT !.snapshot[p].warned = TRUE, !.rows[k].warned = TRUE,
              !.warnings[k] = @ + 1]

(* mutant: exactly 80% is not enough *)
Due_Above(w, p) == /\ Budget[p] # Unlimited
                   /\ ~w.snapshot[p].warned
                   /\ 10 * w.snapshot[p].spent > 8 * Budget[p]

Due(w, p) == /\ Budget[p] # Unlimited
             /\ ~w.snapshot[p].warned
             /\ 10 * w.snapshot[p].spent >= 8 * Budget[p]

(* mutant: the snapshot in memory keeps the old amount *)
Increment_RowOnly(w, p, k, cost) == [w EXCEPT !.rows[k].spent = @ + cost]

(* mutant: the new amount is computed from the snapshot *)
Increment_FromSnapshot(w, p, k, cost) ==
    LET total == w.snapshot[p].spent + cost
    IN  [w EXCEPT !.rows[k].spent = total, !.snapshot[p].spent = total]

(* The row is the truth, the snapshot takes its new amount from it. *)
Increment(w, p, k, cost) ==
    LET total == w.rows[k].spent + cost
    IN  [w EXCEPT !.rows[k].spent = total, !.snapshot[p].spent = total]

(* The snapshot may be of another day than the one commit() started in.    *)
Rekey(w, p, k) ==
    IF w.snapshot[p].key = k THEN w
    ELSE [w EXCEPT !.snapshot[p] = Load(k, w.rows)]

(* applyOne *)
ApplyOne(w, p, k, cost) ==
    LET counted == Increment(Rekey(w, p, k), p, k, cost)
    IN  IF Due(counted, p) THEN Warn(counted, p, k) ELSE counted

(* applyOne up to the statement that fails. *)
ApplyPart(w, p, k, cost, statement) ==
    LET counted == Increment(Rekey(w, p, k), p, k, cost)
        marked  == [counted EXCEPT !.snapshot[p].warned = TRUE]
    IN  CASE statement = "increment" -> Rekey(w, p, k)
          [] statement = "markWarned" -> marked
          [] statement = "event" -> [marked EXCEPT !.rows[k].warned = TRUE]

(* The first n periods of a commit that began on day d. *)
Apply(w, n, d, cost) ==
    LET One(v, p) == ApplyOne(v, p, KeyAt(p, d), cost)
    IN  CASE n = 0 -> w
          [] n = 1 -> One(w, "day")
          [] n = 2 -> One(One(w, "day"), "month")
          [] n = 3 -> One(One(One(w, "day"), "month"), "total")

Order == <<"day", "month", "total">>

World(d) == [rows |-> rows, snapshot |-> SnapshotFor(d), warnings |-> warnings]

Becomes(w) == rows' = w.rows /\ snapshot' = w.snapshot /\ warnings' = w.warnings

Finished(r) == request' = [request EXCEPT ![r] = Ended]

(* A commit reads the clock twice: it charges the day it began in, and     *)
(* midnight may pass before it looks up its snapshot.                      *)
Midnight == today < LastDay /\ today' = today + 1

(* commit() of what the upstream call cost. *)
Commit(r, cost) ==
    /\ request[r].phase = "flight"
    /\ \/ UNCHANGED today
       \/ cost > 0 /\ Midnight
    /\ IF cost <= 0
       THEN snapshot' = SnapshotFor(today) /\ UNCHANGED store
       ELSE Becomes(Apply(World(today'), 3, today, cost))
    /\ Finished(r)
    /\ paid' = [k \in PeriodKeys |->
                  IF \E p \in Periods : k = KeyAt(p, today) THEN paid[k] + cost
                                                             ELSE paid[k]]
    /\ Charge(r, cost)
    /\ UNCHANGED <<torn, unheard, forgiven>>

(* commit() that fails at a statement of its period number n: the request  *)
(* ends with an error, nothing is undone.                                  *)
CommitFails(r, cost, n, statement) ==
    LET p == Order[n]
        k == KeyAt(p, today)
        before == Apply(World(today), n - 1, today, cost)
    IN  /\ request[r].phase = "flight" /\ cost > 0
        /\ statement # "increment"
             => Due(Increment(Rekey(before, p, k), p, k, cost), p)
        /\ Becomes(ApplyPart(before, p, k, cost, statement))
        /\ torn' = torn \cup {KeyAt(Order[i], today) :
                              i \in (IF statement = "increment" THEN n ELSE n + 1)..3}
        /\ unheard' = IF statement = "increment" THEN unheard ELSE unheard \cup {k}
        /\ paid' = [j \in PeriodKeys |->
                      IF \E q \in Periods : j = KeyAt(q, today) THEN paid[j] + cost
                                                                 ELSE paid[j]]
        /\ Charge(r, cost)
        /\ Finished(r)
        /\ UNCHANGED <<today, forgiven>>

(* The upstream call failed: nothing is charged. *)
GiveUp(r) == /\ request[r].phase = "flight"
             /\ Finished(r)
             /\ UNCHANGED <<today, store, snapshot, ghosts>>

-----------------------------------------------------------------------------
(* BudgetTracker.reset: the snapshot alone, whatever key it is asked for.  *)
TrackerReset(p) ==
    /\ "tracker" \in Resets
    /\ snapshot # NoSnapshot
    /\ snapshot' = [snapshot EXCEPT ![p].spent = 0, ![p].warned = FALSE]
    /\ warnings' = [warnings EXCEPT ![snapshot[p].key] = 0]
    /\ forgiven' = forgiven \cup {p}
    /\ Waive
    /\ UNCHANGED <<today, rows, request, paid, torn, unheard>>

(* handleResetBudget: the rows alone, and of the total a row with another  *)
(* key than the tracker's, which is never there.                           *)
AdminReset ==
    LET cleared == {KeyAt(p, today) : p \in {"day", "month"}}
        Zero(f, zero) == [k \in PeriodKeys |-> IF k \in cleared THEN zero ELSE f[k]]
    IN  /\ "admin" \in Resets
        /\ rows' = Zero(rows, [spent |-> 0, warned |-> FALSE])
        /\ warnings' = Zero(warnings, 0)
        /\ paid' = Zero(paid, 0)
        /\ torn' = torn \ cleared
        /\ unheard' = IF snapshot = NoSnapshot THEN unheard \ cleared
                                               ELSE unheard \cup cleared
        /\ UNCHANGED <<today, snapshot, request, forgiven, waived, peak>>

(* The process starts again: its memory and its requests are gone. *)
Restart == /\ snapshot' = NoSnapshot
           /\ request' = [r \in Requests |->
                            IF r \in InFlight THEN Ended ELSE request[r]]
           /\ UNCHANGED <<today, store, ghosts>>

NextDay == Midnight /\ UNCHANGED <<store, snapshot, request, ghosts>>

Next == \/ \E r \in Requests :
              \/ \E e \in Estimates, m \in Modes : Check(r, e, m)
              \/ \E cost \in Costs :
                    \/ Commit(r, cost)
                    \/ \E n \in 1..3, s \in {"increment", "markWarned", "event"} :
                          CommitFails(r, cost, n, s)
              \/ GiveUp(r)
        \/ \E p \in Periods : TrackerReset(p)
        \/ AdminReset \/ Restart \/ NextDay

Spec == Init /\ [][Next]_vars

-----------------------------------------------------------------------------
(* Safety *)

(* design.md, property 16, as far as the tracker can keep it: every row    *)
(* holds exactly what was committed to its period, across midnights,       *)
(* restarts and resets; a commit that failed half-way can only be missing, *)
(* never counted twice.                                                    *)
RowsAccountForSpending ==
    \A k \in PeriodKeys : /\ rows[k].spent <= paid[k]
                          /\ k \notin torn => rows[k].spent = paid[k]

(* A check never reads less than what the row of the period holds: the     *)
(* snapshot may be stale after an admin reset, but only on the safe side.  *)
SnapshotCoversRow ==
    snapshot # NoSnapshot =>
        \A p \in Periods \ forgiven : snapshot[p].spent >= rows[snapshot[p].key].spent

(* requirements.md 5.7: a period warns once, however many requests cross   *)
(* the threshold, in whatever order, over restarts and midnights.          *)
OneWarningPerPeriod == \A k \in PeriodKeys : warnings[k] <= 1

(* ... and it does warn: a row at 80% of its cap has had its warning,      *)
(* unless a statement failed or the row was reset under the snapshot.      *)
ThresholdIsHeard ==
    \A p \in Periods \ forgiven : Budget[p] # Unlimited =>
        \A d \in 0..LastDay :
            LET k == KeyAt(p, d)
            IN  10 * rows[k].spent >= 8 * Budget[p] /\ rows[k].spent > 0 /\ k \notin unheard
                  => warnings[k] = 1

(* Requests are checked before they are charged, so the total can be       *)
(* exceeded, but only by the others that were under way at the same time:  *)
(* with one request at a time it is kept exactly.                          *)
Dearest == CHOOSE c \in Costs : \A d \in Costs : d <= c

OvershootIsBounded ==
    Budget["total"] # Unlimited /\ ~waived /\ peak > 0 =>
        rows[KeyAt("total", 0)].spent <= Budget["total"] + (peak - 1) * Dearest

(* tracker.ts:6: the snapshot "mirrors the SQLite row". *)
SnapshotMirrorsRow ==
    snapshot # NoSnapshot =>
        \A p \in Periods : snapshot[p].spent = rows[snapshot[p].key].spent
=============================================================================
