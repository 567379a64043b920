---------------------------- MODULE DispatchProofs ----------------------------
(***************************************************************************)
(* Proofs about Dispatch: types, the quota of every key, and the cache.    *)
(* The quota is shown per window.  WindowInv relates one window to what it *)
(* counts without any variable, so that the same lemmas serve requests and *)
(* tokens.                                                                 *)
(***************************************************************************)
EXTENDS Dispatch, FiniteSetTheorems, TLAPS

(* A window w in minute t counts `unit` for each request let through.      *)
WindowInv(w, passed, t, unit, limit) ==
    limit # NoLimit =>
        /\ w.minuteKey <= t
        /\ w.minuteKey # -1 => w.used = unit * passed[w.minuteKey]
        /\ \A m \in Nat : m > w.minuteKey => passed[m] = 0
        /\ \A m \in Nat : unit * passed[m] <= limit

Rolled(w, t) == IF w.minuteKey = t THEN w ELSE [minuteKey |-> t, used |-> 0]

Nobody == [m \in Nat |-> 0]

LEMMA FreshWindow ==
    ASSUME NEW t \in Nat, NEW unit \in Nat, NEW limit \in Nat \cup {NoLimit}
    PROVE  WindowInv([minuteKey |-> -1, used |-> 0], Nobody, t, unit, limit)
  BY DEF WindowInv, Nobody

LEMMA WindowAges ==
    ASSUME NEW w \in Window, NEW passed \in [Nat -> Nat], NEW t \in Nat, NEW u \in Nat,
           NEW unit \in Nat, NEW limit \in Nat \cup {NoLimit}, t <= u,
           WindowInv(w, passed, t, unit, limit)
    PROVE  WindowInv(w, passed, u, unit, limit)
  BY DEF WindowInv, Window

(* Rolling a window forward loses nothing that is still counted.           *)
LEMMA WindowRolls ==
    ASSUME NEW w \in Window, NEW passed \in [Nat -> Nat], NEW t \in Nat,
           NEW unit \in Nat, NEW limit \in Nat \cup {NoLimit},
           WindowInv(w, passed, t, unit, limit)
    PROVE  /\ Rolled(w, t) \in Window /\ Rolled(w, t).minuteKey = t
           /\ WindowInv(Rolled(w, t), passed, t, unit, limit)
           /\ limit # NoLimit => Rolled(w, t).used = unit * passed[t]
  <1>1. CASE w.minuteKey = t
    BY <1>1 DEF WindowInv, Window, Rolled
  <1>2. CASE w.minuteKey # t
    <2>1. w.minuteKey \in Int
      BY DEF Window
    <2>5. limit # NoLimit => w.minuteKey <= t
      BY Zenon DEF WindowInv
    <2>3. limit # NoLimit => w.minuteKey < t
      BY <1>2, <2>1, <2>5
    <2>4. limit # NoLimit => passed[t] = 0
      BY <2>1, <2>3 DEF WindowInv
    <2>2. unit * 0 = 0
      OBVIOUS
    <2> QED
      BY <1>2, <2>1, <2>4, <2>2 DEF WindowInv, Window, Rolled
  <1> QED
    BY <1>1, <1>2

LEMMA WindowReads ==
    ASSUME NEW w \in Window, NEW passed \in [Nat -> Nat], NEW t \in Nat,
           NEW unit \in Nat, NEW limit \in Nat \cup {NoLimit}, limit # NoLimit,
           WindowInv(w, passed, t, unit, limit)
    PROVE  Rolled(w, t).used = unit * passed[t]
  <1>1. CASE w.minuteKey = t
    BY <1>1 DEF WindowInv, Rolled
  <1>2. CASE w.minuteKey # t
    <2>1. w.minuteKey \in Int /\ w.minuteKey <= t
      BY DEF WindowInv, Window
    <2>2. passed[t] = 0
      <3>1. t > w.minuteKey
        BY <1>2, <2>1
      <3> QED
        BY <3>1, Zenon DEF WindowInv
    <2>3. unit * passed[t] = 0
      BY <2>2
    <2> QED
      BY <1>2, <2>3 DEF Rolled
  <1> QED
    BY <1>1, <1>2

(* One more is counted in the window of the minute, if there is room.      *)
LEMMA WindowCounts ==
    ASSUME NEW w \in Window, NEW passed \in [Nat -> Nat], NEW t \in Nat,
           NEW unit \in Nat, NEW limit \in Nat \cup {NoLimit},
           w.minuteKey = t, WindowInv(w, passed, t, unit, limit),
           limit # NoLimit => w.used = unit * passed[t] /\ w.used + unit <= limit
    PROVE  WindowInv([w EXCEPT !.used = @ + unit],
                     [passed EXCEPT ![t] = @ + 1], t, unit, limit)
  <1>1. unit * (passed[t] + 1) = unit * passed[t] + unit
    OBVIOUS
  <1> QED
    BY <1>1 DEF WindowInv, Window

(* A minute follows a minute.                                              *)
LEMMA Minutes ==
    ASSUME NEW t \in Nat
    PROVE  MinuteKey(t) \in Nat /\ MinuteKey(t) <= MinuteKey(t + 1)
  <1>1. WindowMs \in Nat \ {0}
    BY RateLimitConfig
  <1> QED
    BY <1>1 DEF MinuteKey
-----------------------------------------------------------------------------
(* How many requests of a key passed the gates, minute by minute.          *)
PassedBy(k) == [m \in Nat |-> Cardinality(Passed(k, m))]

(* The inductive invariant.  Besides the windows it says that a request    *)
(* passes the gates in its first step only, so that nobody is counted      *)
(* twice, and where each entry of the cache comes from.                    *)
QuotaInv ==
    \A k \in Keys :
        /\ WindowInv(rpm[k], PassedBy(k), MinuteKey(now), 1, Limits[k].rpm)
        /\ WindowInv(tpm[k], PassedBy(k), MinuteKey(now), Tokens, Limits[k].tpm)

Unarrived == \A r \in Requests : request[r].phase = "none" => request[r].admittedIn = Unset

Origin(f, s) ==
    /\ request[s].phase = "over" /\ request[s].answeredAt # Unset
    /\ exact[f].expiresAt = request[s].answeredAt + TtlMs
    /\ request[s].want.fingerprint = f
    /\ request[s].want.protocol = exact[f].protocol
    /\ ~request[s].want.stream

CacheInv == \A f \in Fingerprints : exact[f] # NoEntry => Origin(f, exact[f].response)

IInv == TypeOK /\ Unarrived /\ QuotaInv /\ CacheInv

LEMMA PassedFinite ==
    ASSUME TypeOK, NEW k \in Keys
    PROVE  /\ \A m \in Nat : IsFiniteSet(Passed(k, m))
           /\ PassedBy(k) \in [Nat -> Nat]
  <1>1. ASSUME NEW m \in Nat
        PROVE  IsFiniteSet(Passed(k, m)) /\ Cardinality(Passed(k, m)) \in Nat
    <2>1. Passed(k, m) \subseteq Requests
      BY DEF Passed
    <2> QED
      BY <2>1, DispatchConfig, FS_Subset, FS_CardinalityType
  <1> QED
    BY <1>1 DEF PassedBy

LEMMA LimitTypes ==
    ASSUME NEW k \in Keys
    PROVE  /\ Limits[k].rpm \in Nat \cup {NoLimit} /\ Limits[k].tpm \in Nat \cup {NoLimit}
           /\ Tokens \in Nat /\ 1 \in Nat
  BY RateLimitConfig

(* A step that lets nobody in leaves the counts as they are.               *)
LEMMA NobodyPasses ==
    ASSUME \A q \in Requests : /\ request'[q].want = request[q].want
                               /\ request'[q].admittedIn = request[q].admittedIn,
           NEW k \in Keys
    PROVE  PassedBy(k)' = PassedBy(k)
  <1>1. \A m \in Nat : Passed(k, m)' = Passed(k, m)
    BY DEF Passed
  <1> QED
    BY <1>1 DEF PassedBy

LEMMA QuotaStays ==
    ASSUME QuotaInv, UNCHANGED <<now, limiterVars>>,
           \A q \in Requests : /\ request'[q].want = request[q].want
                               /\ request'[q].admittedIn = request[q].admittedIn
    PROVE  QuotaInv'
  <1>1. \A k \in Keys : PassedBy(k)' = PassedBy(k)
    BY NobodyPasses
  <1> QED
    BY <1>1 DEF QuotaInv, limiterVars, WindowInv, MinuteKey

(* A step that lets request r of key j in, in minute t.                    *)
LEMMA OnePasses ==
    ASSUME TypeOK, NEW r \in Requests, NEW j \in Keys, NEW t \in Nat,
           request[r].want.key = j, request[r].admittedIn = Unset,
           request'[r].want = request[r].want, request'[r].admittedIn = t,
           \A q \in Requests \ {r} : request'[q] = request[q]
    PROVE  /\ PassedBy(j)' = [PassedBy(j) EXCEPT ![t] = @ + 1]
           /\ \A k \in Keys \ {j} : PassedBy(k)' = PassedBy(k)
  <1>1. \A m \in Nat \ {t} : Passed(j, m)' = Passed(j, m)
    BY DEF Passed, Unset
  <1>2. Passed(j, t)' = Passed(j, t) \cup {r} /\ r \notin Passed(j, t)
    <2>1. r \notin Passed(j, t)
      BY DEF Passed, Unset
    <2>2. r \in Passed(j, t)'
      BY DEF Passed
    <2>3. \A q \in Requests \ {r} : q \in Passed(j, t)' <=> q \in Passed(j, t)
      BY DEF Passed
    <2>4. Passed(j, t) \subseteq Requests /\ Passed(j, t)' \subseteq Requests
      BY DEF Passed
    <2> QED
      BY <2>1, <2>2, <2>3, <2>4
  <1>3. Cardinality(Passed(j, t)') = Cardinality(Passed(j, t)) + 1
    BY <1>2, PassedFinite, FS_AddElement
  <1>4. ASSUME NEW k \in Keys \ {j}, NEW m \in Nat
        PROVE  Passed(k, m)' = Passed(k, m)
    BY DEF Passed
  <1>5. PassedBy(j)' = [PassedBy(j) EXCEPT ![t] = @ + 1]
    <2>1. \A m \in Nat \ {t} : Cardinality(Passed(j, m)') = Cardinality(Passed(j, m))
      BY <1>1
    <2> QED
      BY <1>3, <2>1 DEF PassedBy
  <1>6. \A k \in Keys \ {j} : PassedBy(k)' = PassedBy(k)
    BY <1>4 DEF PassedBy
  <1> QED
    BY <1>5, <1>6

-----------------------------------------------------------------------------
(* What getOrCreate and the consumption do to the windows of a dimension.  *)
LEMMA TouchedWindows ==
    ASSUME NEW ws \in [Keys -> Window], NEW j \in Keys, NEW amount \in Nat,
           NEW limit, MinuteKey(now) \in Nat
    PROVE  /\ Touched(ws, j, amount, limit) \in [Keys -> Window]
           /\ limit # NoLimit =>
                 Touched(ws, j, amount, limit)[j] =
                     [Rolled(ws[j], MinuteKey(now)) EXCEPT !.used = @ + amount]
  <1>1. Current(ws[j]) = Rolled(ws[j], MinuteKey(now))
    BY DEF Current, Rolled
  <1>2. Current(ws[j]) \in Window
    BY DEF Current, Window
  <1>3. [Current(ws[j]) EXCEPT !.used = @ + amount] \in Window
    BY <1>2 DEF Window
  <1> QED
    BY <1>1, <1>3 DEF Touched

LEMMA LookedUp ==
    ASSUME NEW ws \in [Keys -> Window], NEW j \in Keys, NEW limit,
           MinuteKey(now) \in Nat, limit # NoLimit
    PROVE  Touched(ws, j, 0, limit)[j] = Rolled(ws[j], MinuteKey(now))
  <1>1. Current(ws[j]) \in Window /\ Current(ws[j]) = Rolled(ws[j], MinuteKey(now))
    BY DEF Current, Rolled, Window
  <1>2. [Current(ws[j]) EXCEPT !.used = @ + 0] = Current(ws[j])
    BY <1>1 DEF Window
  <1> QED
    BY <1>1, <1>2 DEF Touched

(* check() that turns a request away. *)
LEMMA QuotaOfTurnAway ==
    ASSUME TypeOK, QuotaInv, NEW j \in Keys, TurnAway(j), UNCHANGED now,
           \A q \in Requests : /\ request'[q].want = request[q].want
                               /\ request'[q].admittedIn = request[q].admittedIn
    PROVE  QuotaInv' /\ rpm' \in [Keys -> Window] /\ tpm' \in [Keys -> Window]
  <1> PICK t \in Nat : t = MinuteKey(now)
    BY Minutes DEF TypeOK, LimiterTypeOK
  <1>1. MinuteKey(now)' = t
    BY DEF MinuteKey
  <1>2. rpm \in [Keys -> Window] /\ tpm \in [Keys -> Window]
    BY DEF TypeOK, LimiterTypeOK
  <1>3. \A k \in Keys : PassedBy(k)' = PassedBy(k)
    BY NobodyPasses
  <1>4. ASSUME NEW ws \in [Keys -> Window], NEW unit \in Nat,
               NEW limit \in Nat \cup {NoLimit},
               WindowInv(ws[j], PassedBy(j), t, unit, limit)
        PROVE  WindowInv(Touched(ws, j, 0, limit)[j], PassedBy(j), t, unit, limit)
    <2>1. CASE limit = NoLimit
      BY <2>1 DEF WindowInv
    <2>2. CASE limit # NoLimit
      <3>1. Rolled(ws[j], t) \in Window
            /\ WindowInv(Rolled(ws[j], t), PassedBy(j), t, unit, limit)
        BY <1>4, WindowRolls, PassedFinite
      <3>2. Touched(ws, j, 0, limit)[j] = Rolled(ws[j], t)
        BY <2>2, LookedUp
      <3> QED
        BY <3>1, <3>2
    <2> QED
      BY <2>1, <2>2
  <1>5. ASSUME NEW k \in Keys
        PROVE  /\ WindowInv(rpm'[k], PassedBy(k), t, 1, Limits[k].rpm)
               /\ WindowInv(tpm'[k], PassedBy(k), t, Tokens, Limits[k].tpm)
    <2>1. /\ WindowInv(rpm[k], PassedBy(k), t, 1, Limits[k].rpm)
          /\ WindowInv(tpm[k], PassedBy(k), t, Tokens, Limits[k].tpm)
      BY DEF QuotaInv
    <2>2. rpm' = Touched(rpm, j, 0, Limits[j].rpm)
          /\ (tpm' = tpm \/ tpm' = Touched(tpm, j, 0, Limits[j].tpm))
      BY DEF TurnAway
    <2>3. CASE k = j
      <3>1. /\ WindowInv(Touched(rpm, j, 0, Limits[j].rpm)[j], PassedBy(j), t, 1, Limits[j].rpm)
            /\ WindowInv(Touched(tpm, j, 0, Limits[j].tpm)[j], PassedBy(j), t, Tokens, Limits[j].tpm)
        BY <2>1, <2>3, <1>2, <1>4, LimitTypes
      <3> QED
        BY <2>1, <2>2, <2>3, <3>1
    <2>4. CASE k # j
      <3>1. /\ Touched(rpm, j, 0, Limits[j].rpm)[k] = rpm[k]
            /\ Touched(tpm, j, 0, Limits[j].tpm)[k] = tpm[k]
        BY <2>4, <1>2 DEF Touched
      <3> QED
        BY <2>1, <2>2, <3>1
    <2> QED
      BY <2>3, <2>4
  <1>6. QuotaInv'
    BY <1>1, <1>3, <1>5 DEF QuotaInv
  <1> QED
    BY <1>2, <1>6, TouchedWindows DEF TurnAway

(* check() that lets one through. *)
LEMMA QuotaOfReserve ==
    ASSUME TypeOK, QuotaInv, NEW r \in Requests, Reserve(request[r].want.key),
           UNCHANGED now, request[r].admittedIn = Unset,
           request'[r].want = request[r].want,
           request'[r].admittedIn = MinuteKey(now),
           \A q \in Requests \ {r} : request'[q] = request[q]
    PROVE  QuotaInv' /\ rpm' \in [Keys -> Window] /\ tpm' \in [Keys -> Window]
  <1> PICK t \in Nat : t = MinuteKey(now)
    BY Minutes DEF TypeOK, LimiterTypeOK
  <1> PICK j \in Keys : j = request[r].want.key
    BY DEF TypeOK, RequestState, Want
  <1>1. MinuteKey(now)' = t
    BY DEF MinuteKey
  <1>2. rpm \in [Keys -> Window] /\ tpm \in [Keys -> Window]
    BY DEF TypeOK, LimiterTypeOK
  <1>3. /\ PassedBy(j)' = [PassedBy(j) EXCEPT ![t] = @ + 1]
        /\ \A k \in Keys \ {j} : PassedBy(k)' = PassedBy(k)
    BY OnePasses
  <1>4. ASSUME NEW ws \in [Keys -> Window], NEW unit \in Nat,
               NEW limit \in Nat \cup {NoLimit},
               WindowInv(ws[j], PassedBy(j), t, unit, limit),
               ~Exceeds(ws[j], unit, limit)
        PROVE  WindowInv(Touched(ws, j, unit, limit)[j],
                         [PassedBy(j) EXCEPT ![t] = @ + 1], t, unit, limit)
    <2>1. CASE limit = NoLimit
      BY <2>1 DEF WindowInv
    <2>2. CASE limit # NoLimit
      <3>1. /\ Rolled(ws[j], t) \in Window /\ Rolled(ws[j], t).minuteKey = t
            /\ WindowInv(Rolled(ws[j], t), PassedBy(j), t, unit, limit)
            /\ limit # NoLimit => Rolled(ws[j], t).used = unit * PassedBy(j)[t]
        <4>1. ws[j] \in Window /\ PassedBy(j) \in [Nat -> Nat]
          BY PassedFinite
        <4> QED
          BY <1>4, <4>1, WindowRolls
      <3>2. Rolled(ws[j], t).used + unit <= limit
        <4>1. ~(Current(ws[j]).used + unit > limit)
          BY <1>4, <2>2 DEF Exceeds
        <4>2. Current(ws[j]) = Rolled(ws[j], t)
          BY DEF Current, Rolled
        <4>3. Rolled(ws[j], t).used \in Nat
          BY <3>1 DEF Window
        <4> QED
          BY <2>2, <4>1, <4>2, <4>3
      <3>3. Touched(ws, j, unit, limit)[j] = [Rolled(ws[j], t) EXCEPT !.used = @ + unit]
        BY <2>2, TouchedWindows
      <3>4. WindowInv([Rolled(ws[j], t) EXCEPT !.used = @ + unit],
                      [PassedBy(j) EXCEPT ![t] = @ + 1], t, unit, limit)
        BY <3>1, <3>2, WindowCounts, PassedFinite
      <3> QED
        BY <3>3, <3>4
    <2> QED
      BY <2>1, <2>2
  <1>5. /\ rpm' = Touched(rpm, j, 1, Limits[j].rpm)
        /\ tpm' = Touched(tpm, j, Tokens, Limits[j].tpm)
        /\ ~Exceeds(rpm[j], 1, Limits[j].rpm)
        /\ ~Exceeds(tpm[j], Tokens, Limits[j].tpm)
    BY DEF Reserve, Limited, RpmExceeded, TpmExceeded
  <1>6. ASSUME NEW k \in Keys
        PROVE  /\ WindowInv(rpm'[k], PassedBy(k)', t, 1, Limits[k].rpm)
               /\ WindowInv(tpm'[k], PassedBy(k)', t, Tokens, Limits[k].tpm)
    <2>1. /\ WindowInv(rpm[k], PassedBy(k), t, 1, Limits[k].rpm)
          /\ WindowInv(tpm[k], PassedBy(k), t, Tokens, Limits[k].tpm)
      BY DEF QuotaInv
    <2>2. CASE k = j
      <3>1. WindowInv(Touched(rpm, j, 1, Limits[j].rpm)[j],
                      [PassedBy(j) EXCEPT ![t] = @ + 1], t, 1, Limits[j].rpm)
        BY <2>1, <2>2, <1>2, <1>4, <1>5, LimitTypes
      <3>2. WindowInv(Touched(tpm, j, Tokens, Limits[j].tpm)[j],
                      [PassedBy(j) EXCEPT ![t] = @ + 1], t, Tokens, Limits[j].tpm)
        BY <2>1, <2>2, <1>2, <1>4, <1>5, LimitTypes
      <3> QED
        BY <2>2, <1>3, <1>5, <3>1, <3>2
    <2>3. CASE k # j
      <3>1. /\ Touched(rpm, j, 1, Limits[j].rpm)[k] = rpm[k]
            /\ Touched(tpm, j, Tokens, Limits[j].tpm)[k] = tpm[k]
        BY <2>3, <1>2 DEF Touched
      <3>2. PassedBy(k)' = PassedBy(k)
        BY <2>3, <1>3
      <3> QED
        BY <2>1, <1>5, <3>1, <3>2
    <2> QED
      BY <2>2, <2>3
  <1>7. QuotaInv'
    BY <1>1, <1>6 DEF QuotaInv
  <1> QED
    BY <1>2, <1>5, <1>7, TouchedWindows, LimitTypes

-----------------------------------------------------------------------------
(* The cache keeps its origins as long as no answer is stored.             *)
LEMMA OriginsStay ==
    ASSUME TypeOK, CacheInv,
           \A f \in Fingerprints : exact'[f] \in {exact[f], NoEntry},
           \A s \in Requests : request[s].phase = "over" =>
               /\ request'[s].phase = "over"
               /\ request'[s].want = request[s].want
               /\ request'[s].answeredAt = request[s].answeredAt
    PROVE  CacheInv'
  <1> SUFFICES ASSUME NEW f \in Fingerprints, exact'[f] # NoEntry
               PROVE  Origin(f, exact[f].response)' /\ exact'[f] = exact[f]
    BY DEF CacheInv
  <1>1. exact'[f] = exact[f] /\ Origin(f, exact[f].response)
    BY DEF CacheInv
  <1>2. exact[f].response \in Requests
    BY <1>1, DispatchConfig DEF TypeOK, CacheTypeOK, Entry
  <1> QED
    BY <1>1, <1>2 DEF Origin

LEMMA Replies ==
    /\ \A status \in Status : Written(status) \in Reply
    /\ \A reply \in Reply, n \in Nat : WithRetryAfter(reply, n) \in Reply
  BY DEF Written, WithRetryAfter, Reply, Status

LEMMA Seconds ==
    ASSUME NEW t \in Nat
    PROVE  RetryAfter(t) \in Nat
  <1>1. WindowMs \in Nat \ {0} /\ SecondMs \in Nat \ {0}
    BY RateLimitConfig
  <1> DEFINE left == (MinuteKey(t) + 1) * WindowMs - t
  <1>2. left \in Int /\ left >= 0
    BY <1>1 DEF MinuteKey
  <1> HIDE DEF left
  <1>3. (left + SecondMs - 1) \div SecondMs \in Nat
    BY <1>1, <1>2
  <1> QED
    BY <1>3 DEF RetryAfter, left

(* A step that answers a request without letting it in.                    *)
LEMMA AnswerKeeps ==
    ASSUME IInv, NEW r \in Requests, NEW reply \in Reply,
           request[r].phase # "over", Answer(r, reply), UNCHANGED <<now, exact>>,
           \/ UNCHANGED limiterVars
           \/ TurnAway(request[r].want.key)
    PROVE  IInv'
  <1>1. /\ TypeOK /\ Unarrived /\ QuotaInv /\ CacheInv
        /\ request \in [Requests -> RequestState]
    BY DEF IInv, TypeOK
  <1>2. request' \in [Requests -> RequestState]
    <2>1. [request[r] EXCEPT !.phase = "over", !.reply = reply] \in RequestState
      BY <1>1 DEF RequestState
    <2> QED
      BY <1>1, <2>1 DEF Answer
  <1>3. \A q \in Requests : /\ request'[q].want = request[q].want
                            /\ request'[q].admittedIn = request[q].admittedIn
                            /\ request'[q].answeredAt = request[q].answeredAt
                            /\ request[q].phase = "over" => request'[q].phase = "over"
                            /\ request'[q].phase = "none" => request[q].phase = "none"
    BY <1>1 DEF Answer, RequestState
  <1>4. Unarrived' /\ CacheInv'
    BY <1>1, <1>3, OriginsStay DEF Unarrived
  <1>5. QuotaInv' /\ LimiterTypeOK'
    <2>1. CASE UNCHANGED limiterVars
      BY <2>1, <1>1, <1>3, QuotaStays DEF TypeOK, LimiterTypeOK, limiterVars
    <2>2. CASE TurnAway(request[r].want.key)
      <3> PICK j \in Keys : j = request[r].want.key
        BY <1>1 DEF RequestState, Want
      <3>1. QuotaInv' /\ rpm' \in [Keys -> Window] /\ tpm' \in [Keys -> Window]
        BY <2>2, <1>1, <1>3, QuotaOfTurnAway
      <3> QED
        BY <3>1, <1>1 DEF TypeOK, LimiterTypeOK
    <2> QED
      BY <2>1, <2>2
  <1> QED
    BY <1>1, <1>2, <1>4, <1>5 DEF IInv, TypeOK, CacheTypeOK

(* A step that lets a request in, whatever is done with it at once.        *)
LEMMA AdmissionKeeps ==
    ASSUME IInv, NEW r \in Requests, Admitted(r), UNCHANGED exact,
           NEW phase \in {"upstream", "over"}, NEW reply \in Reply,
           request' = [request EXCEPT ![r].phase = phase, ![r].reply = reply,
                                      ![r].admittedIn = MinuteKey(now)]
    PROVE  IInv'
  <1>1. /\ TypeOK /\ Unarrived /\ QuotaInv /\ CacheInv
        /\ request \in [Requests -> RequestState]
    BY DEF IInv, TypeOK
  <1>2. /\ request[r].phase = "none" /\ UNCHANGED now
        /\ Reserve(request[r].want.key) /\ request[r].admittedIn = Unset
    BY <1>1 DEF Admitted, Arrives, Unarrived
  <1>3. MinuteKey(now) \in Nat
    BY <1>1, Minutes DEF TypeOK, LimiterTypeOK
  <1>4. request' \in [Requests -> RequestState]
    <2>1. [request[r] EXCEPT !.phase = phase, !.reply = reply,
                             !.admittedIn = MinuteKey(now)] \in RequestState
      BY <1>1, <1>3 DEF RequestState
    <2> QED
      BY <1>1, <2>1
  <1>5. /\ request'[r].want = request[r].want
        /\ request'[r].admittedIn = MinuteKey(now) /\ request'[r].phase = phase
        /\ \A q \in Requests \ {r} : request'[q] = request[q]
    BY <1>1 DEF RequestState
  <1>6. QuotaInv' /\ rpm' \in [Keys -> Window] /\ tpm' \in [Keys -> Window]
    BY <1>1, <1>2, <1>5, QuotaOfReserve
  <1>7. Unarrived'
    BY <1>1, <1>5 DEF Unarrived
  <1>8. CacheInv'
    BY <1>1, <1>2, <1>5, OriginsStay
  <1> QED
    BY <1>1, <1>2, <1>4, <1>6, <1>7, <1>8
       DEF IInv, TypeOK, LimiterTypeOK, CacheTypeOK

(* A call that succeeds. *)
LEMMA SuccessKeeps ==
    ASSUME IInv, NEW r \in Requests, Succeeds(r)
    PROVE  IInv'
  <1>1. /\ TypeOK /\ Unarrived /\ QuotaInv /\ CacheInv
        /\ request \in [Requests -> RequestState] /\ now \in Nat
    BY DEF IInv, TypeOK, LimiterTypeOK
  <1>2. request[r].phase = "upstream" /\ UNCHANGED <<now, limiterVars>>
    BY DEF Succeeds
  <1> PICK reply \in Reply :
             request' = [request EXCEPT ![r].phase = "over", ![r].answeredAt = now,
                                        ![r].reply = reply]
    BY Replies DEF Succeeds, Status
  <1>3. request' \in [Requests -> RequestState]
    <2>1. [request[r] EXCEPT !.phase = "over", !.answeredAt = now, !.reply = reply]
             \in RequestState
      BY <1>1 DEF RequestState
    <2> QED
      BY <1>1, <2>1
  <1>4. /\ request'[r].phase = "over" /\ request'[r].answeredAt = now
        /\ request'[r].want = request[r].want
        /\ request'[r].admittedIn = request[r].admittedIn
        /\ \A q \in Requests \ {r} : request'[q] = request[q]
    BY <1>1 DEF RequestState
  <1>5. Unarrived'
    BY <1>1, <1>4 DEF Unarrived
  <1>6. QuotaInv'
    BY <1>1, <1>2, <1>4, QuotaStays
  <1>7. CASE UNCHANGED exact
    <2>1. CacheInv'
      BY <1>1, <1>2, <1>4, <1>7, OriginsStay
    <2> QED
      BY <1>1, <1>2, <1>3, <1>5, <1>6, <1>7, <2>1
         DEF IInv, TypeOK, LimiterTypeOK, CacheTypeOK, limiterVars
  <1>8. ASSUME ~request[r].want.stream,
               Put(request[r].want.fingerprint, request[r].want.protocol, r, now)
        PROVE  IInv'
    <2> PICK f \in Fingerprints, p \in Protocols :
               f = request[r].want.fingerprint /\ p = request[r].want.protocol
      BY <1>1 DEF RequestState, Want
    <2> PICK e \in Nat : e = now + TtlMs
      BY <1>1, CacheConfig
    <2>1. exact' = [exact EXCEPT ![f] = [protocol |-> p, response |-> r, expiresAt |-> e]]
      BY <1>8 DEF Put
    <2>2. [protocol |-> p, response |-> r, expiresAt |-> e] \in Entry
      BY DispatchConfig DEF Entry
    <2>3. exact \in [Fingerprints -> Entry \cup {NoEntry}]
      BY <1>1 DEF TypeOK, CacheTypeOK
    <2>4. exact' \in [Fingerprints -> Entry \cup {NoEntry}]
      BY <2>1, <2>2, <2>3
    <2>5. Origin(f, r)' /\ exact'[f].response = r
      BY <1>1, <1>4, <1>8, <2>1, <2>3 DEF Origin, Unset
    <2>6. ASSUME NEW g \in Fingerprints \ {f}, exact'[g] # NoEntry
          PROVE  Origin(g, exact[g].response)' /\ exact'[g] = exact[g]
      <3>1. exact'[g] = exact[g] /\ Origin(g, exact[g].response)
        BY <1>1, <2>1, <2>3, <2>6 DEF CacheInv
      <3>2. exact[g].response \in Requests
        BY <2>3, <2>6, <3>1, DispatchConfig DEF Entry
      <3>3. exact[g].response # r
        BY <1>2, <3>1 DEF Origin
      <3> QED
        BY <1>4, <3>1, <3>2, <3>3 DEF Origin
    <2>7. CacheInv'
      BY <2>5, <2>6 DEF CacheInv
    <2> QED
      BY <1>1, <1>2, <1>3, <1>5, <1>6, <2>4, <2>7
         DEF IInv, TypeOK, LimiterTypeOK, CacheTypeOK, limiterVars
  <1> QED
    BY <1>7, <1>8 DEF Succeeds, Store

(* The process starts again: nobody is counted, and nothing is.            *)
LEMMA NobodyCounted ==
    ASSUME NEW k \in Keys, \A q \in Requests : request[q].admittedIn = Unset
    PROVE  PassedBy(k) = Nobody
  <1>1. \A m \in Nat : Passed(k, m) = {}
    BY DEF Passed, Unset
  <1> QED
    BY <1>1, FS_EmptySet DEF PassedBy, Nobody

LEMMA FreshQuota ==
    ASSUME rpm = NoWindows, tpm = NoWindows, now \in Nat,
           \A q \in Requests : request[q].admittedIn = Unset
    PROVE  QuotaInv /\ rpm \in [Keys -> Window] /\ tpm \in [Keys -> Window]
  <1>1. MinuteKey(now) \in Nat
    BY Minutes
  <1>2. ASSUME NEW k \in Keys
        PROVE  /\ WindowInv(rpm[k], PassedBy(k), MinuteKey(now), 1, Limits[k].rpm)
               /\ WindowInv(tpm[k], PassedBy(k), MinuteKey(now), Tokens, Limits[k].tpm)
    <2>1. PassedBy(k) = Nobody
      BY NobodyCounted
    <2>2. rpm[k] = [minuteKey |-> -1, used |-> 0] /\ tpm[k] = [minuteKey |-> -1, used |-> 0]
      BY DEF NoWindows
    <2> QED
      BY <1>1, <2>1, <2>2, FreshWindow, LimitTypes
  <1> QED
    BY <1>2 DEF QuotaInv, NoWindows, Window

LEMMA RestartKeeps ==
    ASSUME IInv, Restart
    PROVE  IInv'
  <1>1. /\ TypeOK /\ Unarrived /\ CacheInv
        /\ request \in [Requests -> RequestState] /\ now \in Nat
    BY DEF IInv, TypeOK, LimiterTypeOK
  <1>2. request' \in [Requests -> RequestState]
    <2>1. \A q \in Requests :
             [request[q] EXCEPT !.phase = "over", !.admittedIn = Unset] \in RequestState
      BY <1>1 DEF RequestState
    <2> QED
      BY <1>1, <2>1 DEF Restart
  <1>3. \A q \in Requests : /\ request'[q].admittedIn = Unset
                            /\ request'[q].want = request[q].want
                            /\ request'[q].answeredAt = request[q].answeredAt
                            /\ request[q].phase = "over" => request'[q].phase = "over"
    BY <1>1 DEF Restart, RequestState, Unarrived
  <1>4. Unarrived'
    BY <1>3 DEF Unarrived
  <1>5. QuotaInv' /\ rpm' \in [Keys -> Window] /\ tpm' \in [Keys -> Window]
    <2>1. rpm' = NoWindows /\ tpm' = NoWindows /\ now' \in Nat
          /\ \A q \in Requests : request'[q].admittedIn = Unset
      BY <1>1, <1>3 DEF Restart
    <2>2. (rpm = NoWindows /\ tpm = NoWindows /\ now \in Nat
            /\ (\A q \in Requests : request[q].admittedIn = Unset)
           => QuotaInv /\ rpm \in [Keys -> Window] /\ tpm \in [Keys -> Window])'
      BY FreshQuota, PTL
    <2>3. NoWindows' = NoWindows /\ Unset' = Unset
      BY DEF NoWindows, Unset
    <2> QED
      BY <2>1, <2>2, <2>3
  <1>6. CacheInv'
    BY <1>1, <1>3, OriginsStay DEF Restart
  <1> QED
    BY <1>1, <1>2, <1>4, <1>5, <1>6 DEF IInv, TypeOK, LimiterTypeOK, CacheTypeOK, Restart

LEMMA TickKeeps ==
    ASSUME IInv, Tick
    PROVE  IInv'
  <1>1. /\ TypeOK /\ Unarrived /\ QuotaInv /\ CacheInv
        /\ now \in Nat /\ now' = now + 1 /\ UNCHANGED <<rpm, tpm, exact, request>>
    BY DEF IInv, TypeOK, LimiterTypeOK, Tick, limiterVars
  <1> PICK t \in Nat, u \in Nat : t = MinuteKey(now) /\ u = MinuteKey(now') /\ t <= u
    BY <1>1, Minutes
  <1>2. MinuteKey(now)' = u
    BY DEF MinuteKey
  <1>3. ASSUME NEW k \in Keys
        PROVE  /\ WindowInv(rpm[k], PassedBy(k), u, 1, Limits[k].rpm)
               /\ WindowInv(tpm[k], PassedBy(k), u, Tokens, Limits[k].tpm)
    <2>1. /\ WindowInv(rpm[k], PassedBy(k), t, 1, Limits[k].rpm)
          /\ WindowInv(tpm[k], PassedBy(k), t, Tokens, Limits[k].tpm)
      BY <1>1 DEF QuotaInv
    <2>2. rpm[k] \in Window /\ tpm[k] \in Window /\ PassedBy(k) \in [Nat -> Nat]
      BY <1>1, PassedFinite DEF TypeOK, LimiterTypeOK
    <2> QED
      BY <2>1, <2>2, WindowAges, LimitTypes
  <1>4. \A k \in Keys : PassedBy(k)' = PassedBy(k)
    BY <1>1, NobodyPasses
  <1>5. QuotaInv'
    BY <1>1, <1>2, <1>3, <1>4 DEF QuotaInv
  <1>6. Unarrived' /\ CacheInv'
    BY <1>1 DEF Unarrived, CacheInv, Origin
  <1> QED
    BY <1>1, <1>5, <1>6 DEF IInv, TypeOK, LimiterTypeOK, CacheTypeOK

(* What is only removed from the cache disturbs nothing.                   *)
LEMMA ForgettingKeeps ==
    ASSUME IInv, ClearCache \/ Sweep
    PROVE  IInv'
  <1>1. /\ TypeOK /\ Unarrived /\ QuotaInv /\ CacheInv
        /\ exact \in [Fingerprints -> Entry \cup {NoEntry}]
    BY DEF IInv, TypeOK, CacheTypeOK
  <1>2. UNCHANGED <<now, limiterVars, request>>
    BY DEF ClearCache, Sweep
  <1>3. /\ \A f \in Fingerprints : exact'[f] \in {exact[f], NoEntry}
        /\ exact' \in [Fingerprints -> Entry \cup {NoEntry}]
    BY <1>1 DEF ClearCache, Sweep, Clear, Prune, Empty
  <1>4. CacheInv'
    BY <1>1, <1>2, <1>3, OriginsStay
  <1>5. QuotaInv'
    BY <1>1, <1>2, QuotaStays
  <1> QED
    BY <1>1, <1>2, <1>3, <1>4, <1>5
       DEF IInv, TypeOK, LimiterTypeOK, CacheTypeOK, limiterVars, Unarrived

LEMMA InitHolds == Init => IInv
  <1> SUFFICES ASSUME Init
               PROVE  IInv
    OBVIOUS
  <1>1. PICK want \in [Requests -> Want] :
               request = [r \in Requests |->
                    [phase |-> "none", want |-> want[r], reply |-> NoReply,
                     admittedIn |-> Unset, answeredAt |-> Unset]]
    BY DEF Init
  <1>2. request \in [Requests -> RequestState] /\ Unarrived
    BY <1>1 DEF RequestState, NoReply, Reply, Status, Unarrived
  <1>3. QuotaInv /\ rpm \in [Keys -> Window] /\ tpm \in [Keys -> Window] /\ now \in Nat
    BY <1>1, FreshQuota DEF Init, LimiterInit
  <1>4. CacheInv /\ CacheTypeOK
    BY DEF Init, Empty, CacheInv, CacheTypeOK
  <1> QED
    BY <1>2, <1>3, <1>4 DEF IInv, TypeOK, LimiterTypeOK

(* One step per action of Next. *)
LEMMA StepHolds == IInv /\ [Next]_vars => IInv'
  <1> SUFFICES ASSUME IInv, [Next]_vars
               PROVE  IInv'
    OBVIOUS
  <1>0. request \in [Requests -> RequestState] /\ now \in Nat
    BY DEF IInv, TypeOK, LimiterTypeOK
  <1>1. ASSUME NEW r \in Requests, Refused(r)
        PROVE  IInv'
    BY <1>1, AnswerKeeps, Replies DEF Refused, Arrives, Status
  <1>2. ASSUME NEW r \in Requests, TooMany(r)
        PROVE  IInv'
    <2>1. WithRetryAfter(Written("limited"), RetryAfter(now)) \in Reply
      BY <1>0, Seconds, Replies DEF Status
    <2> QED
      BY <1>2, <2>1, AnswerKeeps DEF TooMany, Arrives
  <1>3. ASSUME NEW r \in Requests, Malformed(r) \/ Unroutable(r)
        PROVE  IInv'
    BY <1>3, AdmissionKeeps, Replies
       DEF Malformed, Unroutable, AnswerAdmitted, Status
  <1>4. ASSUME NEW r \in Requests, CacheHit(r)
        PROVE  IInv'
    <2> PICK status \in {"hit", "unserialized"} : AnswerAdmitted(r, Written(status))
      BY <1>4 DEF CacheHit
    <2> QED
      BY <1>4, AdmissionKeeps, Replies DEF CacheHit, AnswerAdmitted, Status
  <1>5. ASSUME NEW r \in Requests, CallsUpstream(r)
        PROVE  IInv'
    <2>1. request[r].reply \in Reply
      BY <1>0 DEF RequestState
    <2>2. request' = [request EXCEPT ![r].phase = "upstream",
                                     ![r].reply = request[r].reply,
                                     ![r].admittedIn = MinuteKey(now)]
      BY <1>0, <1>5 DEF CallsUpstream, RequestState
    <2> QED
      BY <1>5, <2>1, <2>2, AdmissionKeeps DEF CallsUpstream
  <1>6. ASSUME NEW r \in Requests, Succeeds(r)
        PROVE  IInv'
    BY <1>6, SuccessKeeps
  <1>7. ASSUME NEW r \in Requests, Fails(r)
        PROVE  IInv'
    BY <1>7, AnswerKeeps, Replies DEF Fails, Status
  <1>8. CASE ClearCache \/ Sweep
    BY <1>8, ForgettingKeeps
  <1>9. CASE Restart
    BY <1>9, RestartKeeps
  <1>10. CASE Tick
    BY <1>10, TickKeeps
  <1>11. CASE UNCHANGED vars
    <2>1. QuotaInv'
      BY <1>11, QuotaStays DEF IInv, vars, limiterVars
    <2> QED
      BY <1>11, <2>1 DEF IInv, vars, TypeOK, LimiterTypeOK, CacheTypeOK,
                         Unarrived, CacheInv, Origin
  <1> QED
    BY <1>1, <1>2, <1>3, <1>4, <1>5, <1>6, <1>7, <1>8, <1>9, <1>10, <1>11 DEF Next

(* Everything above, of every reachable state.                             *)
THEOREM Invariance == Spec => []IInv
  BY InitHolds, StepHolds, PTL DEF Spec

-----------------------------------------------------------------------------
(* Every variable has its type: windows never count below zero, and what   *)
(* is cached is the answer to a request.                                   *)
THEOREM TypeCorrect == Spec => []TypeOK
  <1>1. IInv => TypeOK
    BY DEF IInv
  <1> QED
    BY <1>1, Invariance, PTL

(* check() counts exactly those it lets through, in both dimensions, for   *)
(* any keys, limits, and number of requests, and across restarts.          *)
THEOREM QuotaExact == Spec => []QuotaIsExact
  <1>1. IInv => QuotaIsExact
    <2> SUFFICES ASSUME IInv, NEW k \in Keys
                 PROVE  LET n == Cardinality(Passed(k, MinuteKey(now)))
                        IN  /\ Limits[k].rpm # NoLimit => Current(rpm[k]).used = n
                            /\ Limits[k].tpm # NoLimit => Current(tpm[k]).used = Tokens * n
      BY DEF QuotaIsExact
    <2> PICK t \in Nat : t = MinuteKey(now)
      BY Minutes DEF IInv, TypeOK, LimiterTypeOK
    <2>1. rpm[k] \in Window /\ tpm[k] \in Window /\ PassedBy(k) \in [Nat -> Nat]
      BY PassedFinite DEF IInv, TypeOK, LimiterTypeOK
    <2>2. Current(rpm[k]) = Rolled(rpm[k], t) /\ Current(tpm[k]) = Rolled(tpm[k], t)
      BY DEF Current, Rolled
    <2>3. /\ Limits[k].rpm # NoLimit => Rolled(rpm[k], t).used = 1 * PassedBy(k)[t]
          /\ Limits[k].tpm # NoLimit => Rolled(tpm[k], t).used = Tokens * PassedBy(k)[t]
      <3>1. /\ WindowInv(rpm[k], PassedBy(k), t, 1, Limits[k].rpm)
            /\ WindowInv(tpm[k], PassedBy(k), t, Tokens, Limits[k].tpm)
        BY DEF IInv, QuotaInv
      <3>2. ASSUME NEW w \in Window, NEW unit \in Nat, NEW limit \in Nat \cup {NoLimit},
                   limit # NoLimit, WindowInv(w, PassedBy(k), t, unit, limit)
            PROVE  Rolled(w, t).used = unit * PassedBy(k)[t]
        BY <2>1, <3>2, WindowReads
      <3>3. Limits[k].rpm # NoLimit => Rolled(rpm[k], t).used = 1 * PassedBy(k)[t]
        BY <2>1, <3>1, <3>2, LimitTypes
      <3>4. Limits[k].tpm # NoLimit => Rolled(tpm[k], t).used = Tokens * PassedBy(k)[t]
        BY <2>1, <3>1, <3>2, LimitTypes
      <3> QED
        BY <3>3, <3>4
    <2>4. PassedBy(k)[t] = Cardinality(Passed(k, MinuteKey(now)))
      BY DEF PassedBy
    <2> QED
      BY <2>1, <2>2, <2>3, <2>4
  <1> QED
    BY <1>1, Invariance, PTL

(* In no minute does a key get more through than its limits.               *)
THEOREM QuotaKept == Spec => []QuotaIsKept
  <1>1. IInv => QuotaIsKept
    <2> SUFFICES ASSUME IInv, NEW k \in Keys, NEW m \in 0..MinuteKey(Horizon)
                 PROVE  LET n == Cardinality(Passed(k, m))
                        IN  /\ Limits[k].rpm # NoLimit => n <= Limits[k].rpm
                            /\ Limits[k].tpm # NoLimit => Tokens * n <= Limits[k].tpm
      BY DEF QuotaIsKept
    <2>1. m \in Nat
      OBVIOUS
    <2>2. PassedBy(k)[m] = Cardinality(Passed(k, m)) /\ PassedBy(k)[m] \in Nat
      BY <2>1, PassedFinite DEF PassedBy, IInv
    <2>3. /\ WindowInv(rpm[k], PassedBy(k), MinuteKey(now), 1, Limits[k].rpm)
          /\ WindowInv(tpm[k], PassedBy(k), MinuteKey(now), Tokens, Limits[k].tpm)
      BY DEF IInv, QuotaInv
    <2>4. /\ Limits[k].rpm # NoLimit => 1 * PassedBy(k)[m] <= Limits[k].rpm
          /\ Limits[k].tpm # NoLimit => Tokens * PassedBy(k)[m] <= Limits[k].tpm
      BY <2>1, <2>3 DEF WindowInv
    <2> QED
      BY <2>2, <2>4
  <1> QED
    BY <1>1, Invariance, PTL

(* Whatever lookup() finds was answered to that question, in that          *)
(* protocol, within the lifetime, and not to a stream.                     *)
THEOREM HitsGenuine == Spec => []HitsAreGenuine
  <1>1. IInv => HitsAreGenuine
    <2> SUFFICES ASSUME IInv, NEW w \in Want, Cached(w)
                 PROVE  LET s == exact[w.fingerprint].response
                        IN  /\ request[s].answeredAt # Unset
                            /\ now - request[s].answeredAt < TtlMs
                            /\ request[s].want.fingerprint = w.fingerprint
                            /\ request[s].want.protocol = w.protocol
                            /\ ~request[s].want.stream
      BY DEF HitsAreGenuine
    <2> PICK f \in Fingerprints : f = w.fingerprint
      BY DEF Want
    <2>1. exact[f] # NoEntry /\ exact[f].expiresAt > now /\ exact[f].protocol = w.protocol
      BY DEF Cached, Hits, Live
    <2> PICK s \in Requests : s = exact[f].response
      BY <2>1, DispatchConfig DEF IInv, TypeOK, CacheTypeOK, Entry
    <2>2. Origin(f, s)
      BY <2>1 DEF IInv, CacheInv
    <2>3. request[s].answeredAt \in Nat /\ now \in Nat /\ TtlMs \in Nat
      BY <2>2, CacheConfig DEF Origin, IInv, TypeOK, LimiterTypeOK, RequestState
    <2>4. now - request[s].answeredAt < TtlMs
      BY <2>1, <2>2, <2>3 DEF Origin
    <2> QED
      BY <2>1, <2>2, <2>4 DEF Origin
  <1> QED
    BY <1>1, Invariance, PTL
=============================================================================
