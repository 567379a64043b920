----------------------------- MODULE ArrayProofs -----------------------------
(***************************************************************************)
(* Induction for proofs about arrays.  The library's theorems of induction *)
(* cannot be given a predicate; a set they can be given.  What holds of    *)
(* the empty sequence, and of every sequence one longer than one of which  *)
(* it holds, holds of all of them (Grows).  So for each fold one law is    *)
(* shown, what one more element does to it, and then used by induction.    *)
(* Then what is joined piece by piece (Joins), and what becomes of it when *)
(* a sequence is cut (JoinsCut).                                           *)
(***************************************************************************)
EXTENDS Arrays, SequencesExt, FiniteSetsExt, NaturalsInduction, WellFoundedInduction, SequenceTheorems, TLAPS

LEMMA Least ==
    ASSUME NEW S, S \subseteq Nat, S # {}
    PROVE  \E n \in S : \A k \in S : n <= k
<1>1. PICK n \in S : \A k \in S : ~ (<<k, n>> \in OpToRel(<, Nat))
  BY NatLessThanWellFounded, WFMin
<1>2. \A k \in S : ~ (k < n)
  BY <1>1 DEF OpToRel
<1> QED
  BY <1>2

LEMMA Greatest ==
    ASSUME NEW b \in Nat, NEW S, S \subseteq 0..b, S # {}
    PROVE  \E n \in S : \A k \in S : k <= n
<1> DEFINE T == {b - k : k \in S}
<1>0. \A k \in S : k \in Nat /\ b - k \in Nat /\ b - k \in T
  OBVIOUS
<1>1. T \subseteq Nat /\ T # {}
  BY <1>0
<1>2. PICK x \in T : \A y \in T : x <= y
  BY <1>1, Least
<1>3. PICK n \in S : x = b - n
  BY <1>2
<1>4. ASSUME NEW k \in S PROVE k <= n
  <2>1. b - n <= b - k
    BY <1>0, <1>2, <1>3
  <2> QED
    BY <1>0, <2>1
<1> QED
  BY <1>4

(* From 0 up to n. *)
LEMMA Climbs ==
    ASSUME NEW n \in Nat, NEW S, 0 \in S, \A i \in 1..n : i - 1 \in S => i \in S
    PROVE  \A i \in 0..n : i \in S
<1> DEFINE Bad == {i \in 0..n : i \notin S}
<1>1. ASSUME Bad # {} PROVE FALSE
  <2>1. Bad \subseteq Nat
    OBVIOUS
  <2>2. PICK m \in Bad : \A k \in Bad : m <= k
    BY <1>1, <2>1, Least
  <2>3. m \in 1..n /\ m - 1 \in 0..n /\ ~ (m <= m - 1)
    BY <2>2
  <2> QED
    BY <2>2, <2>3
<1> QED
  BY <1>1

(* Every sequence is reached from the empty one. *)
LEMMA Grows ==
    ASSUME NEW R, NEW V, <<>> \in V,
           \A s \in Seq(R), x \in R : s \in V => Append(s, x) \in V
    PROVE  \A s \in Seq(R) : s \in V
<1> SUFFICES ASSUME NEW s \in Seq(R) PROVE s \in V
  OBVIOUS
<1> DEFINE T == {i \in 0..Len(s) : SubSeq(s, 1, i) \in V}
<1>1. Len(s) \in Nat
  OBVIOUS
<1>2. 0 \in T
  <2>1. SubSeq(s, 1, 0) = <<>>
    BY <1>1
  <2>2. SubSeq(s, 1, 0) \in V
    BY <2>1
  <2> QED
    BY <1>1, <2>2
<1>3. \A i \in 1..Len(s) : i - 1 \in T => i \in T
  <2> SUFFICES ASSUME NEW i \in 1..Len(s), i - 1 \in T PROVE i \in T
    OBVIOUS
  <2>1. SubSeq(s, 1, i) = Append(SubSeq(s, 1, i - 1), s[i])
    BY <1>1
  <2>2. SubSeq(s, 1, i - 1) \in Seq(R) /\ s[i] \in R
    BY <1>1
  <2>3. SubSeq(s, 1, i) \in V
    BY <2>1, <2>2
  <2> QED
    BY <1>1, <2>3
<1>4. \A i \in 0..Len(s) : i \in T
  <2> HIDE DEF T
  <2> QED
    BY <1>1, <1>2, <1>3, Climbs
<1>5. SubSeq(s, 1, Len(s)) = s
  BY <1>1
<1>6. Len(s) \in T
  BY <1>1, <1>4
<1> QED
  BY <1>5, <1>6

-----------------------------------------------------------------------------
(* Folds: v is what n steps make of a. *)
Folds(A, a, n, step, v) ==
    \E f \in [0..n -> A] : /\ f[0] = a
                           /\ \A i \in 1..n : f[i] = step[i][f[i - 1]]
                           /\ v = f[n]

LEMMA MaxIs ==
    ASSUME NEW n \in Nat, NEW s \in SUBSET (1..n), s # {}
    PROVE  Max(s) \in s /\ \A k \in s : k <= Max(s)
<1>0. s \subseteq 0..n
  OBVIOUS
<1>1. \E m \in s : \A k \in s : k <= m
  BY <1>0, Greatest
<1>2. \E m \in s : \A k \in s : m >= k
  BY <1>1
<1> QED
  BY <1>2 DEF Max

(* The function by which the library folds over a set of places. *)
OverSets(n, a, step, it) ==
    it = [s \in SUBSET (1..n) |->
            IF s = {} THEN a ELSE step[Max(s)][it[s \ {Max(s)}]]]

LEMMA OverSetsExists ==
    ASSUME NEW A, NEW a \in A, NEW n \in Nat, NEW step \in [1..n -> [A -> A]]
    PROVE  \E it \in [SUBSET (1..n) -> A] : OverSets(n, a, step, it)
<1> DEFINE T == {m \in 0..n : \E it \in [SUBSET (1..m) -> A] : OverSets(m, a, step, it)}
<1>1. 0 \in T
  <2>1. PICK it : it = [s \in SUBSET (1..0) |-> a]
    OBVIOUS
  <2>2. \A s \in SUBSET (1..0) : s = {}
    OBVIOUS
  <2> QED
    BY <2>1, <2>2 DEF OverSets
<1>2. \A m \in 1..n : m - 1 \in T => m \in T
  <2> SUFFICES ASSUME NEW m \in 1..n, m - 1 \in T PROVE m \in T
    OBVIOUS
  <2>0. m \in Nat
    OBVIOUS
  <2>1. PICK it \in [SUBSET (1..(m - 1)) -> A] : OverSets(m - 1, a, step, it)
    OBVIOUS
  <2>2. PICK at : at = [s \in SUBSET (1..m) |-> IF m \in s THEN step[m][it[s \ {m}]] ELSE it[s]]
    OBVIOUS
  <2>3. ASSUME NEW s \in SUBSET (1..m)
        PROVE  /\ m \notin s => s \in SUBSET (1..(m - 1))
               /\ s \ {m} \in SUBSET (1..(m - 1))
    OBVIOUS
  <2>4. at \in [SUBSET (1..m) -> A]
    BY <2>2, <2>3
  <2>5. ASSUME NEW s \in SUBSET (1..m)
        PROVE  at[s] = IF s = {} THEN a ELSE step[Max(s)][at[s \ {Max(s)}]]
    <3>1. CASE m \in s
      <4>1. Max(s) = m
        <5>1. Max(s) \in s /\ m <= Max(s)
          BY <2>0, <3>1, MaxIs
        <5>2. Max(s) \in 1..m /\ m \in Nat
          BY <2>0, <5>1
        <5> QED
          BY <5>1, <5>2
      <4>2. at[s \ {m}] = it[s \ {m}]
        BY <2>2
      <4> QED
        BY <2>2, <3>1, <4>1, <4>2
    <3>2. CASE m \notin s /\ s # {}
      <4>1. Max(s) \in s
        BY <2>0, <3>2, MaxIs
      <4>2. s \in SUBSET (1..(m - 1)) /\ m \notin s \ {Max(s)}
            /\ s \ {Max(s)} \in SUBSET (1..m)
        BY <2>3, <3>2
      <4>3. it[s] = step[Max(s)][it[s \ {Max(s)}]]
        BY <2>1, <3>2, <4>2 DEF OverSets
      <4> QED
        BY <2>2, <3>2, <4>2, <4>3
    <3>3. CASE s = {}
      <4>1. it[{}] = a
        BY <2>1 DEF OverSets
      <4> QED
        BY <2>2, <3>3, <4>1
    <3> QED
      BY <3>1, <3>2, <3>3
  <2>6. OverSets(m, a, step, at)
    BY <2>4, <2>5 DEF OverSets
  <2> QED
    BY <2>4, <2>6
<1>3. \A m \in 0..n : m \in T
  <2> HIDE DEF T
  <2> QED
    BY <1>1, <1>2, Climbs
<1>4. n \in 0..n
  OBVIOUS
<1>5. n \in T
  BY <1>3, <1>4, Zenon
<1> QED
  BY <1>5

(* What a fold over the places 1..n comes to, one place after the other. *)
LEMMA OverSetsFolds ==
    ASSUME NEW A, NEW a \in A, NEW n \in Nat, NEW step \in [1..n -> [A -> A]], NEW it,
           it[{}] = a,
           \A s \in SUBSET (1..n) : s # {} /\ it[s \ {Max(s)}] \in A
                => it[s] = step[Max(s)][it[s \ {Max(s)}]]
    PROVE  Folds(A, a, n, step, it[1..n])
<1> DEFINE T == {i \in 0..n : it[1..i] \in A}
<1>1. ASSUME NEW i \in 1..n
      PROVE  1..i \in SUBSET (1..n) /\ 1..i # {} /\ Max(1..i) = i /\ (1..i) \ {Max(1..i)} = 1..(i - 1)
  <2>0. i \in Nat /\ i \in 1..i
    OBVIOUS
  <2>1. 1..i \in SUBSET (1..n) /\ 1..i # {}
    <3>1. \A k \in 1..i : k \in 1..n
      OBVIOUS
    <3> QED
      BY <2>0, <3>1
  <2>2. Max(1..i) \in 1..i /\ \A k \in 1..i : k <= Max(1..i)
    BY <2>1, MaxIs
  <2>3. Max(1..i) = i
    BY <2>2
  <2> QED
    BY <2>1, <2>3
<1>2. 1..0 = {} /\ 0 \in T
  BY 1..0 = {}
<1>3. \A i \in 1..n : i - 1 \in T => it[1..i] = step[i][it[1..(i - 1)]] /\ i \in T
  <2> SUFFICES ASSUME NEW i \in 1..n, i - 1 \in T
               PROVE  it[1..i] = step[i][it[1..(i - 1)]] /\ i \in T
    OBVIOUS
  <2>1. it[1..(i - 1)] \in A
    OBVIOUS
  <2>2. it[1..i] = step[i][it[1..(i - 1)]]
    BY <1>1, <2>1
  <2> QED
    BY <2>1, <2>2
<1>4. \A i \in 0..n : i \in T
  <2> HIDE DEF T
  <2> QED
    BY <1>2, <1>3, Climbs
<1>5. PICK f : f = [i \in 0..n |-> it[1..i]]
  OBVIOUS
<1>6. f \in [0..n -> A] /\ f[0] = a /\ f[n] = it[1..n]
  BY <1>2, <1>4, <1>5
<1>7. \A i \in 1..n : f[i] = step[i][f[i - 1]]
  BY <1>3, <1>4, <1>5
<1> QED
  BY <1>6, <1>7 DEF Folds

LEMMA FoldsExist ==
    ASSUME NEW A, NEW a \in A, NEW n \in Nat, NEW step \in [1..n -> [A -> A]]
    PROVE  \E f \in [0..n -> A] : f[0] = a /\ \A i \in 1..n : f[i] = step[i][f[i - 1]]
<1>1. PICK it \in [SUBSET (1..n) -> A] : OverSets(n, a, step, it)
  BY OverSetsExists
<1>2. it[{}] = a /\ \A s \in SUBSET (1..n) : s # {} => it[s] = step[Max(s)][it[s \ {Max(s)}]]
  BY <1>1 DEF OverSets
<1>3. Folds(A, a, n, step, it[1..n])
  BY <1>2, OverSetsFolds
<1> QED
  BY <1>3 DEF Folds

(* One more step. *)
OneMore(A, n, step, more) == /\ step \in [1..n -> [A -> A]]
                             /\ more \in [1..(n + 1) -> [A -> A]]
                             /\ \A i \in 1..n : more[i] = step[i]

LEMMA FoldsOn ==
    ASSUME NEW A, NEW a \in A, NEW n \in Nat, NEW m, m = n + 1,
           NEW step, NEW more, OneMore(A, n, step, more), NEW v, Folds(A, a, n, step, v), NEW w, Folds(A, a, m, more, w)
    PROVE  v \in A /\ w = more[m][v]
<1>0. /\ step \in [1..n -> [A -> A]] /\ more \in [1..m -> [A -> A]]
      /\ \A i \in 1..n : more[i] = step[i]
  BY DEF OneMore
<1>1. PICK f \in [0..n -> A] : f[0] = a /\ v = f[n] /\ \A i \in 1..n : f[i] = step[i][f[i - 1]]
  BY DEF Folds
<1>2. PICK g \in [0..m -> A] : g[0] = a /\ w = g[m] /\ \A i \in 1..m : g[i] = more[i][g[i - 1]]
  BY DEF Folds
<1> DEFINE T == {i \in 0..n : f[i] = g[i]}
<1>3. 0 \in T
  BY <1>1, <1>2
<1>4. \A i \in 1..n : i - 1 \in T => i \in T
  BY <1>0, <1>1, <1>2
<1>5. \A i \in 0..n : i \in T
  <2> HIDE DEF T
  <2> QED
    BY <1>3, <1>4, Climbs
<1>6. f[n] = g[n] /\ g[m] = more[m][g[m - 1]] /\ m - 1 = n
  BY <1>2, <1>5
<1> QED
  BY <1>1, <1>2, <1>6
-----------------------------------------------------------------------------
(* Filters. *)
KeptSteps(S, s, places) ==
    [i \in 1..Len(s) |-> [kept \in Seq(S) |->
                            IF i \in places THEN Append(kept, s[i]) ELSE kept]]

LEMMA KeptFolds ==
    ASSUME NEW S, NEW s \in Seq(S), NEW P
    PROVE  Folds(Seq(S), <<>>, Len(s), KeptSteps(S, s, P), Kept(s, P))
<1> DEFINE Body(g, i) == IF i = 0 THEN <<>>
                         ELSE IF i \in P THEN Append(g[i - 1], s[i]) ELSE g[i - 1]
           Fold(g) == g = [i \in 0..Len(s) |-> Body(g, i)]
<1>1. PICK n, A, step : n = Len(s) /\ A = Seq(S) /\ step = KeptSteps(S, s, P)
  OBVIOUS
<1>2. n \in Nat /\ <<>> \in A /\ step \in [1..n -> [A -> A]]
  <2>1. \A i \in 1..n : s[i] \in S
    BY <1>1
  <2> QED
    BY <1>1, <2>1 DEF KeptSteps
<1>3. PICK f \in [0..n -> A] : f[0] = <<>> /\ \A i \in 1..n : f[i] = step[i][f[i - 1]]
  <2>1. PICK a \in A : a = <<>>
    BY <1>2
  <2>2. n \in Nat /\ step \in [1..n -> [A -> A]]
    BY <1>2
  <2>3. \E f \in [0..n -> A] : f[0] = a /\ \A i \in 1..n : f[i] = step[i][f[i - 1]]
    BY <2>2, FoldsExist, SMT
  <2> QED
    BY <2>1, <2>3
<1>4. \A i \in 1..n : f[i] = IF i \in P THEN Append(f[i - 1], s[i]) ELSE f[i - 1]
  <2> SUFFICES ASSUME NEW i \in 1..n
               PROVE  f[i] = IF i \in P THEN Append(f[i - 1], s[i]) ELSE f[i - 1]
    OBVIOUS
  <2>1. f[i - 1] \in A
    BY <1>2, <1>3
  <2>2. step[i] = [kept \in A |-> IF i \in P THEN Append(kept, s[i]) ELSE kept]
    BY <1>1 DEF KeptSteps
  <2> QED
    BY <1>3, <2>1, <2>2
<1>5. Fold(f)
  <2>1. \A i \in 0..n : f[i] = Body(f, i)
    <3> SUFFICES ASSUME NEW i \in 0..n PROVE f[i] = Body(f, i)
      OBVIOUS
    <3>1. CASE i = 0
      BY <1>3, <3>1
    <3>2. CASE i # 0
      <4>1. i \in 1..n
        BY <1>2, <3>2
      <4> QED
        BY <1>4, <3>2, <4>1
    <3> QED
      BY <3>1, <3>2
  <2> QED
    BY <1>1, <1>3, <2>1
<1>6. PICK g : g = CHOOSE h : Fold(h)
  OBVIOUS
<1>7. Kept(s, P) = g[n]
  BY <1>1, <1>6 DEF Kept
<1>8. Fold(g)
  BY <1>5, <1>6
<1> DEFINE T == {i \in 0..n : g[i] = f[i]}
<1>9. 0 \in T
  BY <1>1, <1>2, <1>3, <1>8
<1>10. \A i \in 1..n : i - 1 \in T => i \in T
  <2> SUFFICES ASSUME NEW i \in 1..n, i - 1 \in T PROVE i \in T
    OBVIOUS
  <2>1. i \in 0..n /\ i # 0
    BY <1>2
  <2>2. g[i] = IF i \in P THEN Append(g[i - 1], s[i]) ELSE g[i - 1]
    BY <1>1, <1>8, <2>1
  <2> QED
    BY <1>4, <2>1, <2>2
<1>11. \A i \in 0..n : i \in T
  <2> HIDE DEF T
  <2> QED
    BY <1>2, <1>9, <1>10, Climbs
<1>12. Kept(s, P) = f[n]
  BY <1>2, <1>7, <1>11
<1> QED
  BY <1>1, <1>3, <1>12 DEF Folds

LEMMA KeptNone == ASSUME NEW P PROVE Kept(<<>>, P) = <<>>
<1>1. PICK S, s : S = {} /\ s = <<>>
  OBVIOUS
<1>2. s \in Seq(S) /\ Len(s) = 0
  BY <1>1
<1>3. Folds(Seq(S), <<>>, Len(s), KeptSteps(S, s, P), Kept(s, P))
  BY <1>2, KeptFolds
<1> QED
  BY <1>1, <1>2, <1>3 DEF Folds

(* Whether the last element is kept depends on its place. *)
LEMMA KeptOn ==
    ASSUME NEW S, NEW s \in Seq(S), NEW x \in S, NEW P
    PROVE  /\ Kept(s, P) \in Seq(S)
           /\ Kept(Append(s, x), P) = IF Len(s) + 1 \in P THEN Append(Kept(s, P), x)
                                                        ELSE Kept(s, P)
<1>1. PICK t, n, m : t = Append(s, x) /\ n = Len(s) /\ m = Len(t)
  OBVIOUS
<1>2. t \in Seq(S) /\ n \in Nat /\ m = n + 1 /\ t[m] = x /\ \A i \in 1..n : t[i] = s[i] /\ i \in 1..m
  BY <1>1
<1>3. PICK A, a : A = Seq(S) /\ a = <<>>
  OBVIOUS
<1>4. PICK step, more, v, w :
         step = KeptSteps(S, s, P) /\ more = KeptSteps(S, t, P) /\ v = Kept(s, P) /\ w = Kept(t, P)
  OBVIOUS
<1>5. a \in A /\ step \in [1..n -> [A -> A]] /\ more \in [1..m -> [A -> A]]
      /\ \A i \in 1..n : more[i] = step[i]
  <2>1. \A i \in 1..n : s[i] \in S
    BY <1>1
  <2>2. \A i \in 1..m : t[i] \in S
    BY <1>1, <1>2
  <2> QED
    BY <1>1, <1>2, <1>3, <1>4, <2>1, <2>2 DEF KeptSteps
<1>6. Folds(A, a, n, step, v) /\ Folds(A, a, m, more, w)
  BY <1>1, <1>2, <1>3, <1>4, KeptFolds
<1>7. v \in A /\ w = more[m][v]
  <2>1. n \in Nat /\ m = n + 1
    BY <1>2
  <2>2. OneMore(A, n, step, more)
    BY <1>5, <2>1 DEF OneMore
  <2> QED
    BY <1>5, <1>6, <2>1, <2>2, FoldsOn
<1>8. m \in 1..m
  BY <1>2
<1>9. w = IF m \in P THEN Append(v, t[m]) ELSE v
  BY <1>1, <1>3, <1>4, <1>7, <1>8 DEF KeptSteps
<1> QED
  BY <1>1, <1>2, <1>3, <1>4, <1>7, <1>9

(* The elements of q are those of s at different ones of the places. *)
FromPlaces(q, s, places) ==
    \E f \in [DOMAIN q -> places] : /\ \A i, j \in DOMAIN q : f[i] = f[j] => i = j
                                    /\ \A i \in DOMAIN q : q[i] = s[f[i]]

(* What a filter keeps are elements of the array, from different places. *)
LEMMA KeptIs ==
    ASSUME NEW S, NEW s \in Seq(S), NEW P \in SUBSET DOMAIN s
    PROVE  Kept(s, P) \in Seq(S) /\ FromPlaces(Kept(s, P), s, P)
<1> DEFINE V == {r \in Seq(S) : /\ Kept(r, P) \in Seq(S)
                               /\ FromPlaces(Kept(r, P), r, P \cap DOMAIN r)}
<1>1. <<>> \in V
  <2>1. Kept(<<>>, P) = <<>> /\ <<>> \in Seq(S)
    BY KeptNone
  <2>2. [i \in {} |-> 0] \in [DOMAIN <<>> -> P \cap DOMAIN <<>>]
    OBVIOUS
  <2>3. FromPlaces(<<>>, <<>>, P \cap DOMAIN <<>>)
    BY <2>2 DEF FromPlaces
  <2> QED
    BY <2>1, <2>3
<1>2. \A r \in Seq(S), x \in S : r \in V => Append(r, x) \in V
  <2> SUFFICES ASSUME NEW r \in Seq(S), NEW x \in S, r \in V PROVE Append(r, x) \in V
    OBVIOUS
  <2>1. PICK t, q, k : t = Append(r, x) /\ q = Kept(r, P) /\ k = Kept(t, P)
    OBVIOUS
  <2>2. PICK n \in Nat : n = Len(r)
    OBVIOUS
  <2>3. /\ t \in Seq(S) /\ DOMAIN t = 1..(n + 1) /\ t[n + 1] = x /\ DOMAIN r = 1..n
        /\ \A i \in 1..n : t[i] = r[i]
    BY <2>1, <2>2
  <2>4. q \in Seq(S) /\ k = IF n + 1 \in P THEN Append(q, x) ELSE q
    BY <2>1, <2>2, KeptOn
  <2>5. PICK f \in [DOMAIN q -> P \cap DOMAIN r] :
            /\ \A i, j \in DOMAIN q : f[i] = f[j] => i = j
            /\ \A i \in DOMAIN q : q[i] = r[f[i]]
    BY <2>1 DEF FromPlaces
  <2>6. CASE n + 1 \notin P
    <3>1. f \in [DOMAIN k -> P \cap DOMAIN t] /\ k = q
      BY <2>2, <2>3, <2>4, <2>5, <2>6
    <3>2. \A i \in DOMAIN k : k[i] = t[f[i]]
      BY <2>3, <2>5, <3>1
    <3>3. FromPlaces(k, t, P \cap DOMAIN t)
      BY <2>5, <3>1, <3>2 DEF FromPlaces
    <3> QED
      BY <2>1, <2>3, <2>4, <3>1, <3>3
  <2>7. CASE n + 1 \in P
    <3>1. PICK l \in Nat : l = Len(q)
      BY <2>4
    <3>2. /\ k \in Seq(S) /\ DOMAIN q = 1..l /\ DOMAIN k = 1..(l + 1) /\ k[l + 1] = x
          /\ \A i \in 1..l : k[i] = q[i]
      BY <2>4, <2>7, <3>1
    <3>3. PICK g : g = [i \in 1..(l + 1) |-> IF i = l + 1 THEN n + 1 ELSE f[i]]
      OBVIOUS
    <3>4. \A i \in 1..(l + 1) : i # l + 1 => i \in 1..l
      OBVIOUS
    <3>5. g \in [DOMAIN k -> P \cap DOMAIN t]
      BY <2>2, <2>3, <2>5, <2>7, <3>2, <3>3, <3>4
    <3>6. \A i, j \in DOMAIN k : g[i] = g[j] => i = j
      <4>1. \A i \in 1..l : f[i] \in 1..n /\ f[i] # n + 1
        BY <2>2, <2>3, <2>5, <3>2
      <4> QED
        BY <2>5, <3>2, <3>3, <3>4, <4>1
    <3>7. \A i \in DOMAIN k : k[i] = t[g[i]]
      BY <2>3, <2>5, <3>2, <3>3, <3>4
    <3>8. FromPlaces(k, t, P \cap DOMAIN t)
      BY <3>5, <3>6, <3>7 DEF FromPlaces
    <3> QED
      BY <2>1, <2>3, <3>2, <3>8
  <2> QED
    BY <2>6, <2>7
<1>3. s \in V
  <2> HIDE DEF V
  <2> QED
    BY <1>1, <1>2, Grows
<1>4. P \cap DOMAIN s = P
  OBVIOUS
<1> QED
  BY <1>3, <1>4

(* Only places that there are make a difference. *)
LEMMA KeptCut ==
    ASSUME NEW S, NEW s \in Seq(S), NEW P \in SUBSET Nat, NEW Q \in SUBSET Nat,
           P \cap 1..Len(s) = Q \cap 1..Len(s)
    PROVE  Kept(s, P) = Kept(s, Q)
<1> DEFINE V == {r \in Seq(S) : \A X, Y \in SUBSET Nat :
                    X \cap 1..Len(r) = Y \cap 1..Len(r) => Kept(r, X) = Kept(r, Y)}
<1>1. <<>> \in V
  BY KeptNone
<1>2. \A r \in Seq(S), x \in S : r \in V => Append(r, x) \in V
  <2> SUFFICES ASSUME NEW r \in Seq(S), NEW x \in S, r \in V PROVE Append(r, x) \in V
    OBVIOUS
  <2>1. PICK t : t = Append(r, x)
    OBVIOUS
  <2>2. Len(r) \in Nat /\ Len(t) = Len(r) + 1 /\ t \in Seq(S)
    BY <2>1
  <2>3. ASSUME NEW X \in SUBSET Nat, NEW Y \in SUBSET Nat,
               X \cap 1..Len(t) = Y \cap 1..Len(t)
        PROVE  Kept(t, X) = Kept(t, Y)
    <3>1. Len(r) + 1 \in X <=> Len(r) + 1 \in Y
      <4>1. Len(r) + 1 \in 1..Len(t)
        BY <2>2
      <4> QED
        BY <2>3, <4>1
    <3>2. X \cap 1..Len(r) = Y \cap 1..Len(r)
      <4>1. \A i \in 1..Len(r) : i \in 1..Len(t)
        BY <2>2
      <4> QED
        BY <2>3, <4>1
    <3>3. Kept(r, X) = Kept(r, Y)
      BY <3>2
    <3>4. /\ Kept(Append(r, x), X) = IF Len(r) + 1 \in X THEN Append(Kept(r, X), x) ELSE Kept(r, X)
          /\ Kept(Append(r, x), Y) = IF Len(r) + 1 \in Y THEN Append(Kept(r, Y), x) ELSE Kept(r, Y)
      BY KeptOn
    <3> QED
      BY <2>1, <3>1, <3>3, <3>4
  <2> QED
    BY <2>1, <2>2, <2>3
<1>3. s \in V
  <2> HIDE DEF V
  <2> QED
    BY <1>1, <1>2, Grows
<1> QED
  BY <1>3

-----------------------------------------------------------------------------
(* Array.prototype.map by a function from D to E. *)
Maps(f, D, E) == f \in [D -> E]
Through(f, s) == [i \in DOMAIN s |-> f[s[i]]]

LEMMA ThroughIs ==
    ASSUME NEW D, NEW E, NEW f, Maps(f, D, E), NEW s \in Seq(D)
    PROVE  /\ Through(f, s) \in Seq(E) /\ Len(Through(f, s)) = Len(s)
           /\ \A i \in 1..Len(s) : Through(f, s)[i] = f[s[i]]
<1>1. Len(s) \in Nat /\ DOMAIN s = 1..Len(s) /\ \A i \in 1..Len(s) : s[i] \in D
  OBVIOUS
<1>2. \A i \in 1..Len(s) : f[s[i]] \in E
  BY <1>1 DEF Maps
<1>3. Through(f, s) = [i \in 1..Len(s) |-> f[s[i]]]
  BY <1>1 DEF Through
<1> QED
  BY <1>1, <1>2, <1>3

LEMMA ThroughOn ==
    ASSUME NEW D, NEW E, NEW f, Maps(f, D, E), NEW s \in Seq(D), NEW x \in D
    PROVE  /\ Through(f, s) \in Seq(E)
           /\ Through(f, Append(s, x)) = Append(Through(f, s), f[x])
<1>1. PICK n \in Nat : n = Len(s)
  OBVIOUS
<1>2. PICK t \in Seq(D) : t = Append(s, x)
  BY AppendProperties
<1>3. Len(t) = n + 1 /\ t[n + 1] = x /\ \A i \in 1..n : t[i] = s[i]
  BY <1>1, <1>2
<1>4. PICK a \in Seq(E) : a = Through(f, s) /\ Len(a) = n /\ \A i \in 1..n : a[i] = f[s[i]]
  BY <1>1, ThroughIs
<1>5. PICK b \in Seq(E) : b = Through(f, t) /\ Len(b) = n + 1 /\ \A i \in 1..(n + 1) : b[i] = f[t[i]]
  <2>1. /\ Through(f, t) \in Seq(E) /\ Len(Through(f, t)) = Len(t)
        /\ \A i \in 1..Len(t) : Through(f, t)[i] = f[t[i]]
    BY ThroughIs
  <2> QED
    BY <1>3, <2>1
<1>6. PICK y \in E : y = f[x]
  BY DEF Maps
<1>7. PICK c \in Seq(E) : c = Append(a, y) /\ Len(c) = n + 1 /\ c[n + 1] = y /\ \A i \in 1..n : c[i] = a[i]
  <2>1. /\ Append(a, y) \in Seq(E) /\ Len(Append(a, y)) = n + 1 /\ Append(a, y)[n + 1] = y
        /\ \A i \in 1..n : Append(a, y)[i] = a[i]
    BY <1>4, AppendProperties
  <2> QED
    BY <2>1
<1>8. \A i \in 1..(n + 1) : i = n + 1 \/ i \in 1..n
  OBVIOUS
<1>9. ASSUME NEW i \in 1..(n + 1) PROVE b[i] = c[i]
  <2>1. b[i] = f[t[i]]
    BY <1>5
  <2>2. CASE i = n + 1
    BY <1>3, <1>6, <1>7, <2>1, <2>2
  <2>3. CASE i \in 1..n
    <3>1. t[i] = s[i] /\ c[i] = a[i] /\ a[i] = f[s[i]]
      BY <1>3, <1>4, <1>7, <2>3
    <3> QED
      BY <2>1, <3>1
  <2> QED
    BY <1>8, <2>2, <2>3
<1>10. b = c
  BY <1>5, <1>7, <1>9, SeqEqual
<1> QED
  BY <1>2, <1>4, <1>5, <1>6, <1>7, <1>10

LEMMA ThroughJoined ==
    ASSUME NEW D, NEW E, NEW f, Maps(f, D, E), NEW s \in Seq(D), NEW t \in Seq(D)
    PROVE  Through(f, s \o t) = Through(f, s) \o Through(f, t)
<1>1. PICK n \in Nat, m \in Nat : n = Len(s) /\ m = Len(t)
  OBVIOUS
<1>2. PICK u \in Seq(D) : u = s \o t
  BY ConcatProperties
<1>3. Len(u) = n + m /\ \A i \in 1..(n + m) : u[i] = IF i <= n THEN s[i] ELSE t[i - n]
  BY <1>1, <1>2, ConcatProperties
<1>4. PICK a \in Seq(E) : a = Through(f, s) /\ Len(a) = n /\ \A i \in 1..n : a[i] = f[s[i]]
  BY <1>1, ThroughIs
<1>5. PICK b \in Seq(E) : b = Through(f, t) /\ Len(b) = m /\ \A i \in 1..m : b[i] = f[t[i]]
  BY <1>1, ThroughIs
<1>6. PICK c \in Seq(E) : c = Through(f, u) /\ Len(c) = n + m /\ \A i \in 1..(n + m) : c[i] = f[u[i]]
  <2>1. /\ Through(f, u) \in Seq(E) /\ Len(Through(f, u)) = Len(u)
        /\ \A i \in 1..Len(u) : Through(f, u)[i] = f[u[i]]
    BY ThroughIs
  <2> QED
    BY <1>3, <2>1
<1>7. PICK d \in Seq(E) : d = a \o b /\ Len(d) = n + m
                         /\ \A i \in 1..(n + m) : d[i] = IF i <= n THEN a[i] ELSE b[i - n]
  <2>1. /\ a \o b \in Seq(E) /\ Len(a \o b) = Len(a) + Len(b)
        /\ \A i \in 1..(Len(a) + Len(b)) :
              (a \o b)[i] = IF i <= Len(a) THEN a[i] ELSE b[i - Len(a)]
    BY ConcatProperties
  <2>2. PICK d \in Seq(E) : d = a \o b
    BY <2>1
  <2>3. Len(a) = n /\ Len(b) = m
    BY <1>4, <1>5
  <2>4. /\ Len(d) = n + m
        /\ \A i \in 1..(n + m) : d[i] = IF i <= n THEN a[i] ELSE b[i - n]
    BY <2>1, <2>2, <2>3
  <2> QED
    BY <2>2, <2>4
<1>8. \A i \in 1..(n + m) : (i <= n /\ i \in 1..n) \/ (~(i <= n) /\ i - n \in 1..m)
  OBVIOUS
<1>9. ASSUME NEW i \in 1..(n + m) PROVE c[i] = d[i]
  <2>1. CASE i <= n
    <3>1. c[i] = f[s[i]] /\ d[i] = a[i]
      BY <1>3, <1>6, <1>7, <2>1
    <3>2. i \in 1..n
      BY <2>1
    <3> QED
      BY <1>4, <3>1, <3>2
  <2>2. CASE ~(i <= n)
    <3>1. PICK j \in 1..m : j = i - n
      BY <1>8, <2>2
    <3>2. c[i] = f[t[j]] /\ d[i] = b[j]
      BY <1>3, <1>6, <1>7, <2>2, <3>1
    <3> QED
      BY <1>5, <3>2
  <2> QED
    BY <2>1, <2>2
<1>10. c = d
  BY <1>6, <1>7, <1>9, SeqEqual
<1> QED
  BY <1>2, <1>4, <1>5, <1>6, <1>7, <1>10

-----------------------------------------------------------------------------
(* Filter by what the elements are: those in Q. *)
Only(s, Q) == Kept(s, {i \in DOMAIN s : s[i] \in Q})

LEMMA OnlyNone == ASSUME NEW Q PROVE Only(<<>>, Q) = <<>>
BY KeptNone DEF Only

LEMMA OnlyOn ==
    ASSUME NEW S, NEW s \in Seq(S), NEW x \in S, NEW Q
    PROVE  /\ Only(s, Q) \in Seq(S)
           /\ Only(Append(s, x), Q) = IF x \in Q THEN Append(Only(s, Q), x) ELSE Only(s, Q)
<1>1. PICK t, n, P, R : /\ t = Append(s, x) /\ n = Len(s)
                        /\ P = {i \in DOMAIN s : s[i] \in Q}
                        /\ R = {i \in DOMAIN t : t[i] \in Q}
  OBVIOUS
<1>2. n \in Nat /\ DOMAIN s = 1..n /\ DOMAIN t = 1..(n + 1) /\ t[n + 1] = x
      /\ \A i \in 1..n : t[i] = s[i]
  BY <1>1
<1>3. P \in SUBSET Nat /\ R \in SUBSET Nat /\ P \cap 1..n = R \cap 1..n
  BY <1>1, <1>2
<1>4. n + 1 \in R <=> x \in Q
  BY <1>1, <1>2
<1>5. Kept(s, P) = Kept(s, R)
  BY <1>1, <1>3, KeptCut
<1>6. /\ Kept(s, P) \in Seq(S)
      /\ Kept(Append(s, x), R) = IF Len(s) + 1 \in R THEN Append(Kept(s, R), x) ELSE Kept(s, R)
  BY KeptOn
<1>7. Only(s, Q) = Kept(s, P) /\ Only(t, Q) = Kept(t, R)
  BY <1>1 DEF Only
<1> QED
  BY <1>1, <1>4, <1>5, <1>6, <1>7

LEMMA OnlyType == ASSUME NEW S, NEW s \in Seq(S), NEW Q PROVE Only(s, Q) \in Seq(S \cap Q)
<1> DEFINE V == {r \in Seq(S) : Only(r, Q) \in Seq(S \cap Q)}
<1>1. <<>> \in V
  <2>1. Only(<<>>, Q) = <<>>
    BY OnlyNone
  <2>2. <<>> \in Seq(S) /\ <<>> \in Seq(S \cap Q)
    BY EmptySeq
  <2> QED
    BY <2>1, <2>2
<1>2. ASSUME NEW r \in Seq(S), NEW x \in S, r \in V PROVE Append(r, x) \in V
  <2>1. Only(Append(r, x), Q) = IF x \in Q THEN Append(Only(r, Q), x) ELSE Only(r, Q)
    BY OnlyOn
  <2>2. PICK q \in Seq(S \cap Q) : q = Only(r, Q)
    BY <1>2
  <2>3. x \in Q => Append(q, x) \in Seq(S \cap Q)
    BY AppendProperties
  <2>4. Only(Append(r, x), Q) \in Seq(S \cap Q)
    BY <2>1, <2>2, <2>3
  <2>5. Append(r, x) \in Seq(S)
    BY AppendProperties
  <2> QED
    BY <2>4, <2>5
<1> HIDE DEF V
<1>3. \A r \in Seq(S) : r \in V
  BY <1>1, <1>2, Grows
<1> QED
  BY <1>3 DEF V

LEMMA OnlySub == ASSUME NEW S, NEW s \in Seq(S), NEW Q PROVE Only(s, Q) \in Seq(S)
<1>1. Only(s, Q) \in Seq(S \cap Q)
  BY OnlyType
<1>2. S \cap Q \subseteq S
  OBVIOUS
<1> QED
  BY <1>1, <1>2, SeqMonotonic

OnlyThen(q, t, x, Q) == Only(t, Q) = IF x \in Q THEN Append(q, x) ELSE q

LEMMA OnlyNext ==
    ASSUME NEW S, NEW s \in Seq(S), NEW x \in S, NEW Q
    PROVE  \E q \in Seq(S), t \in Seq(S) :
              q = Only(s, Q) /\ t = Append(s, x) /\ OnlyThen(q, t, x, Q)
<1>1. PICK q \in Seq(S) : q = Only(s, Q)
  BY OnlySub
<1>2. PICK t \in Seq(S) : t = Append(s, x)
  BY AppendProperties
<1>3. Only(Append(s, x), Q) = IF x \in Q THEN Append(Only(s, Q), x) ELSE Only(s, Q)
  BY OnlyOn
<1> QED
  BY <1>1, <1>2, <1>3 DEF OnlyThen

LEMMA OneIn == ASSUME NEW S, NEW x \in S PROVE <<x>> \in Seq(S) /\ \A i \in DOMAIN <<x>> : <<x>>[i] = x
OBVIOUS

-----------------------------------------------------------------------------
(* Sequences that are joined.                                               *)

(* What can be joined, with <<>> in front of it. *)
Joinable(A) == /\ <<>> \in A
               /\ \A q, r \in A : q \o r \in A
               /\ \A q \in A : <<>> \o q = q

LEMMA SeqJoinable == ASSUME NEW S PROVE Joinable(Seq(S))
BY ConcatEmptySeq DEF Joinable

(* FlattenSeq, by its last element. *)
FlatSteps(A, ss) == [i \in 1..Len(ss) |-> [q \in A |-> q \o ss[i]]]

LEMMA FlattenFolds ==
    ASSUME NEW A, Joinable(A), NEW ss \in Seq(A)
    PROVE  Folds(A, <<>>, Len(ss), FlatSteps(A, ss), FlattenSeq(ss))
<1> DEFINE Value(g, i) == IF i = 1 THEN ss[i] ELSE g[i - 1] \o ss[i]
           Fold(g) == g = [i \in 1..Len(ss) |-> Value(g, i)]
<1>1. PICK n, step : n = Len(ss) /\ step = FlatSteps(A, ss)
  OBVIOUS
<1>2. n \in Nat /\ <<>> \in A /\ step \in [1..n -> [A -> A]]
  <2>1. \A i \in 1..n : ss[i] \in A
    BY <1>1
  <2> QED
    BY <1>1, <2>1 DEF FlatSteps, Joinable
<1>3. PICK f \in [0..n -> A] : f[0] = <<>> /\ \A i \in 1..n : f[i] = step[i][f[i - 1]]
  <2>1. PICK a \in A : a = <<>>
    BY <1>2
  <2>2. n \in Nat /\ step \in [1..n -> [A -> A]]
    BY <1>2
  <2>3. \E f \in [0..n -> A] : f[0] = a /\ \A i \in 1..n : f[i] = step[i][f[i - 1]]
    BY <2>2, FoldsExist, SMT
  <2> QED
    BY <2>1, <2>3
<1>4. \A i \in 1..n : f[i] = f[i - 1] \o ss[i]
  <2> SUFFICES ASSUME NEW i \in 1..n PROVE f[i] = f[i - 1] \o ss[i]
    OBVIOUS
  <2>1. f[i - 1] \in A
    BY <1>2, <1>3
  <2>2. step[i] = [q \in A |-> q \o ss[i]]
    BY <1>1 DEF FlatSteps
  <2> QED
    BY <1>3, <2>1, <2>2
<1>5. n = 0 => FlattenSeq(ss) = <<>>
  <2>1. Len(ss) = 0 => ss = <<>>
    BY EmptySeq
  <2> QED
    BY <1>1, <2>1 DEF FlattenSeq
<1>6. CASE n = 0
  BY <1>1, <1>3, <1>5, <1>6 DEF Folds
<1>7. CASE n # 0
  <2>1. PICK h : h = [i \in 1..n |-> f[i]]
    OBVIOUS
  <2>2. Fold(h)
    <3>1. \A i \in 1..n : h[i] = Value(h, i)
      <4> SUFFICES ASSUME NEW i \in 1..n PROVE h[i] = Value(h, i)
        OBVIOUS
      <4>1. CASE i = 1
        <5>1. f[1] = ss[1]
          <6>1. ss[1] \in A
            BY <1>1, <4>1
          <6>2. f[1] = f[0] \o ss[1]
            <7>1. 1 \in 1..n /\ 1 - 1 = 0
              BY <4>1
            <7> QED
              BY <1>4, <7>1
          <6> QED
            BY <1>3, <6>1, <6>2 DEF Joinable
        <5> QED
          BY <2>1, <4>1, <5>1
      <4>2. CASE i # 1
        <5>1. i - 1 \in 1..n
          BY <1>2, <4>2
        <5> QED
          BY <1>4, <2>1, <4>2, <5>1
      <4> QED
        BY <4>1, <4>2
    <3> QED
      BY <1>1, <2>1, <3>1
  <2>3. PICK g : g = CHOOSE e : Fold(e)
    OBVIOUS
  <2>4. FlattenSeq(ss) = g[n]
    BY <1>1, <1>7, <2>3 DEF FlattenSeq
  <2>5. Fold(g)
    BY <2>2, <2>3
  <2> DEFINE T == {i \in 0..n : i # 0 => g[i] = f[i]}
  <2>6. 0 \in T
    BY <1>2
  <2>7. \A i \in 1..n : i - 1 \in T => i \in T
    <3> SUFFICES ASSUME NEW i \in 1..n, i - 1 \in T PROVE i \in T
      OBVIOUS
    <3>1. g[i] = Value(g, i) /\ h[i] = Value(h, i)
      BY <1>1, <2>2, <2>5
    <3>2. CASE i = 1
      <4>1. g[i] = h[i]
        BY <3>1, <3>2
      <4> QED
        BY <2>1, <4>1
    <3>3. CASE i # 1
      <4>1. i - 1 \in 1..n /\ i - 1 # 0
        BY <1>2, <3>3
      <4>2. g[i - 1] = h[i - 1]
        BY <2>1, <4>1
      <4>3. g[i] = h[i]
        BY <3>1, <3>3, <4>2
      <4> QED
        BY <2>1, <4>3
    <3> QED
      BY <3>2, <3>3
  <2>8. \A i \in 0..n : i \in T
    <3> HIDE DEF T
    <3> QED
      BY <1>2, <2>6, <2>7, Climbs
  <2>9. FlattenSeq(ss) = f[n]
    BY <1>2, <1>7, <2>4, <2>8
  <2> QED
    BY <1>1, <1>3, <2>9 DEF Folds
<1> QED
  BY <1>6, <1>7

LEMMA FlattenOn ==
    ASSUME NEW A, Joinable(A), NEW ss \in Seq(A), NEW s \in A
    PROVE  /\ FlattenSeq(ss) \in A
           /\ FlattenSeq(Append(ss, s)) = FlattenSeq(ss) \o s
<1>1. PICK t, n, m : t = Append(ss, s) /\ n = Len(ss) /\ m = Len(t)
  OBVIOUS
<1>2. t \in Seq(A) /\ n \in Nat /\ m = n + 1 /\ t[m] = s /\ \A i \in 1..n : t[i] = ss[i] /\ i \in 1..m
  BY <1>1
<1>3. PICK a : a = <<>>
  OBVIOUS
<1>4. PICK step, more, v, w :
         step = FlatSteps(A, ss) /\ more = FlatSteps(A, t) /\ v = FlattenSeq(ss) /\ w = FlattenSeq(t)
  OBVIOUS
<1>5. a \in A /\ step \in [1..n -> [A -> A]] /\ more \in [1..m -> [A -> A]]
      /\ \A i \in 1..n : more[i] = step[i]
  <2>1. \A i \in 1..n : ss[i] \in A
    BY <1>1, <1>3
  <2>2. \A i \in 1..m : t[i] \in A
    BY <1>1, <1>2, <1>3
  <2> QED
    BY <1>1, <1>2, <1>3, <1>4, <2>1, <2>2 DEF FlatSteps, Joinable
<1>6. Folds(A, a, n, step, v) /\ Folds(A, a, m, more, w)
  BY <1>1, <1>2, <1>3, <1>4, FlattenFolds
<1>7. v \in A /\ w = more[m][v]
  <2>1. n \in Nat /\ m = n + 1
    BY <1>2
  <2>2. OneMore(A, n, step, more)
    BY <1>5, <2>1 DEF OneMore
  <2> QED
    BY <1>5, <1>6, <2>1, <2>2, FoldsOn
<1>8. m \in 1..m
  BY <1>2
<1>9. w = v \o t[m]
  BY <1>1, <1>3, <1>4, <1>7, <1>8 DEF FlatSteps
<1> QED
  BY <1>1, <1>2, <1>3, <1>4, <1>7, <1>9
LEMMA FlattenType == ASSUME NEW A, Joinable(A), NEW ss \in Seq(A) PROVE FlattenSeq(ss) \in A
<1>1. PICK a \in A : a = <<>>
  BY DEF Joinable
<1> QED
  BY <1>1, FlattenOn

Flattens(A, f, raws, raw) ==
    /\ FlattenSeq(Through(f, raws)) \in A
    /\ FlattenSeq(Through(f, Append(raws, raw))) = FlattenSeq(Through(f, raws)) \o f[raw]
    /\ FlattenSeq(Through(f, <<raw>>)) = f[raw]

LEMMA FlattenThrough ==
    ASSUME NEW R, NEW A, Joinable(A), NEW f, Maps(f, R, A), NEW raws \in Seq(R), NEW raw \in R
    PROVE  Flattens(A, f, raws, raw)
<1>1. PICK all \in Seq(R), one \in Seq(R), none \in Seq(R) :
         all = Append(raws, raw) /\ one = Append(none, raw) /\ none = <<>>
  <2>1. Append(raws, raw) \in Seq(R) /\ Append(<<>>, raw) \in Seq(R) /\ <<>> \in Seq(R)
    OBVIOUS
  <2> QED
    BY <2>1
<1>2. PICK p, o, n : p = Through(f, raws) /\ o = Through(f, one) /\ n = Through(f, none)
  OBVIOUS
<1>3. p \in Seq(A) /\ Through(f, all) = Append(p, f[raw])
  BY <1>1, <1>2, ThroughOn
<1>4. n \in Seq(A) /\ o = Append(n, f[raw])
  <2>1. Through(f, none) \in Seq(A) /\ Through(f, Append(none, raw)) = Append(Through(f, none), f[raw])
    BY ThroughOn
  <2> QED
    BY <1>1, <1>2, <2>1
<1>5. PICK e \in A : e = f[raw]
  BY DEF Maps
<1>6. FlattenSeq(p) \in A /\ FlattenSeq(Append(p, e)) = FlattenSeq(p) \o e
  BY <1>3, FlattenOn
<1>7. FlattenSeq(Append(n, e)) = FlattenSeq(n) \o e
  BY <1>4, FlattenOn
<1>8. FlattenSeq(n) = <<>>
  BY <1>1, <1>2 DEF Through, FlattenSeq
<1>9. FlattenSeq(o) = e
  BY <1>4, <1>5, <1>7, <1>8 DEF Joinable
<1>10. one = <<raw>>
  BY <1>1
<1> QED
  BY <1>1, <1>2, <1>3, <1>5, <1>6, <1>9, <1>10 DEF Flattens

Regroup(x, y, z) == (x \o y) \o z = x \o (y \o z)

LEMMA JoinedTwice ==
    ASSUME NEW S, NEW x \in Seq(S), NEW y \in Seq(S), NEW z \in Seq(S) PROVE Regroup(x, y, z)
BY ConcatAssociative DEF Regroup

(* f makes several of one, g one of each. *)
Chained(R, D, E, f, g) == Maps(f, R, Seq(D)) /\ Maps(g, D, E)

LEMMA YieldsOn ==
    ASSUME NEW R, NEW D, NEW E, NEW f, NEW g, Chained(R, D, E, f, g),
           NEW raws \in Seq(R), NEW raw \in R
    PROVE  Through(g, FlattenSeq(Through(f, Append(raws, raw))))
              = Through(g, FlattenSeq(Through(f, raws))) \o Through(g, FlattenSeq(Through(f, <<raw>>)))
<1>1. PICK A : A = Seq(D)
  OBVIOUS
<1>2. Maps(f, R, A) /\ Joinable(A)
  BY <1>1, SeqJoinable DEF Chained
<1>3. PICK q, r : q = FlattenSeq(Through(f, raws)) /\ r = f[raw]
  OBVIOUS
<1>4. /\ FlattenSeq(Through(f, raws)) \in A
      /\ FlattenSeq(Through(f, Append(raws, raw))) = FlattenSeq(Through(f, raws)) \o f[raw]
      /\ FlattenSeq(Through(f, <<raw>>)) = f[raw]
  <2>1. Flattens(A, f, raws, raw)
    BY <1>2, FlattenThrough
  <2> QED
    BY <2>1 DEF Flattens
<1>5. f[raw] \in A
  BY <1>2 DEF Maps
<1>6. q \in Seq(D) /\ r \in Seq(D)
  BY <1>1, <1>3, <1>4, <1>5
<1>7. Through(g, q \o r) = Through(g, q) \o Through(g, r)
  BY <1>6, ThroughJoined DEF Chained
<1> QED
  BY <1>3, <1>4, <1>7

-----------------------------------------------------------------------------
(* s stands in b from i on. *)
StandsAt(s, b, i) == /\ i \in 1..Len(b) /\ i + Len(s) - 1 <= Len(b)
                     /\ \A k \in 1..Len(s) : s[k] = b[i + k - 1]

LEMMA PrefixIs ==
    ASSUME NEW S, NEW s \in Seq(S), NEW b \in Seq(S), NEW i \in 1..Len(b)
    PROVE  IsPrefix(s, SubSeq(b, i, Len(b))) <=> StandsAt(s, b, i)
<1>1. PICK n \in Nat, m \in Nat : n = Len(b) /\ m = Len(s)
  OBVIOUS
<1>2. PICK r \in Seq(S) : r = SubSeq(b, i, Len(b)) /\ Len(r) = n - i + 1
                          /\ \A k \in 1..(n - i + 1) : r[k] = b[i + k - 1]
  <2>2. SubSeq(b, i, n) \in Seq(S)
    BY <1>1
  <2>3. Len(SubSeq(b, i, n)) = n - i + 1
    BY <1>1
  <2>4. \A k \in 1..(n - i + 1) : SubSeq(b, i, n)[k] = b[i + k - 1]
    BY <1>1
  <2> QED
    BY <1>1, <2>2, <2>3, <2>4
<1>3. m <= Len(r) <=> i + m - 1 <= n
  BY <1>1, <1>2
<1>4. ASSUME m <= Len(r)
      PROVE  SubSeq(s, 1, m) = SubSeq(r, 1, m) <=> \A k \in 1..m : s[k] = b[i + k - 1]
  <2>1. SubSeq(s, 1, m) = s
    BY <1>1
  <2>2. PICK q \in Seq(S) : q = SubSeq(r, 1, m) /\ Len(q) = m /\ \A k \in 1..m : q[k] = r[k]
    <3>1. SubSeq(r, 1, m) \in Seq(S) /\ Len(SubSeq(r, 1, m)) = m
      BY <1>2, <1>4
    <3>2. \A k \in 1..m : SubSeq(r, 1, m)[k] = r[k]
      BY <1>2, <1>4
    <3> QED
      BY <3>1, <3>2
  <2>3. \A k \in 1..m : k \in 1..(n - i + 1)
    BY <1>2, <1>4
  <2>4. \A k \in 1..m : q[k] = b[i + k - 1]
    BY <1>2, <2>2, <2>3
  <2>5. s = q <=> \A k \in 1..m : s[k] = q[k]
    BY <1>1, <2>2, SeqEqual
  <2> QED
    BY <2>1, <2>2, <2>4, <2>5
<1>5. IsPrefix(s, r) <=> m <= Len(r) /\ SubSeq(s, 1, m) = SubSeq(r, 1, m)
  BY <1>1 DEF IsPrefix
<1> QED
  BY <1>1, <1>2, <1>3, <1>4, <1>5 DEF StandsAt

LEMMA MinIs ==
    ASSUME NEW s, s \subseteq Nat, s # {}
    PROVE  Min(s) \in s /\ \A k \in s : Min(s) <= k
<1>1. \E m \in s : \A k \in s : m <= k
  BY Least
<1> QED
  BY <1>1 DEF Min

(* A sequence that is not empty, before its last element and at it. *)
LEMMA FrontLast ==
    ASSUME NEW S, NEW s \in Seq(S), s # <<>>
    PROVE  \E f \in Seq(S), l \in S : s = Append(f, l) /\ Last(s) = l /\ Len(s) = Len(f) + 1
<1>1. PICK n \in Nat : n = Len(s)
  OBVIOUS
<1>2. n # 0
  BY <1>1, EmptySeq
<1>3. PICK f \in Seq(S) : Len(f) = n - 1 /\ \A i \in 1..(n - 1) : f[i] = s[i]
  <2>1. n - 1 \in Nat /\ \A i \in 1..(n - 1) : i \in 1..n
    BY <1>2
  <2>2. PICK f : f = [i \in 1..(n - 1) |-> s[i]]
    OBVIOUS
  <2>3. f \in Seq(S) /\ Len(f) = n - 1
    BY <1>1, <2>1, <2>2
  <2> QED
    BY <2>2, <2>3
<1>4. PICK l \in S : l = s[n]
  <2>1. n \in 1..Len(s)
    BY <1>1, <1>2
  <2> QED
    BY <2>1, ElementOfSeq
<1>5. PICK t \in Seq(S) : /\ t = Append(f, l) /\ Len(t) = n /\ t[n] = l
                          /\ \A i \in 1..(n - 1) : t[i] = f[i]
  <2>1. /\ Append(f, l) \in Seq(S) /\ Len(Append(f, l)) = Len(f) + 1
        /\ \A i \in 1..Len(f) : Append(f, l)[i] = f[i]
        /\ Append(f, l)[Len(f) + 1] = l
    BY AppendProperties
  <2>2. Len(f) = n - 1 /\ Len(f) + 1 = n
    BY <1>3
  <2> QED
    BY <2>1, <2>2
<1>6. ASSUME NEW i \in 1..n PROVE s[i] = t[i]
  <2>1. CASE i = n
    BY <1>4, <1>5, <2>1
  <2>2. CASE i # n
    <3>1. i \in 1..(n - 1)
      BY <2>2
    <3> QED
      BY <1>3, <1>5, <3>1
  <2> QED
    BY <2>1, <2>2
<1>7. s = t
  BY <1>1, <1>5, <1>6, SeqEqual
<1>8. n = Len(f) + 1
  BY <1>2, <1>3
<1> QED
  BY <1>1, <1>4, <1>5, <1>7, <1>8 DEF Last

LEMMA ChangeLast ==
    ASSUME NEW S, NEW f \in Seq(S), NEW l \in S, NEW k \in S
    PROVE  [Append(f, l) EXCEPT ![Len(f) + 1] = k] = Append(f, k)
<1>1. PICK n \in Nat : n = Len(f)
  OBVIOUS
<1>2. PICK s \in Seq(S) : /\ s = Append(f, l) /\ Len(s) = n + 1
                          /\ \A i \in 1..n : s[i] = f[i]
  <2>1. /\ Append(f, l) \in Seq(S) /\ Len(Append(f, l)) = Len(f) + 1
        /\ \A i \in 1..Len(f) : Append(f, l)[i] = f[i]
    BY AppendProperties
  <2> QED
    BY <1>1, <2>1
<1>3. PICK t \in Seq(S) : /\ t = Append(f, k) /\ Len(t) = n + 1 /\ t[n + 1] = k
                          /\ \A i \in 1..n : t[i] = f[i]
  <2>1. /\ Append(f, k) \in Seq(S) /\ Len(Append(f, k)) = Len(f) + 1
        /\ \A i \in 1..Len(f) : Append(f, k)[i] = f[i]
        /\ Append(f, k)[Len(f) + 1] = k
    BY AppendProperties
  <2> QED
    BY <1>1, <2>1
<1>4. PICK u \in Seq(S) : /\ u = [s EXCEPT ![n + 1] = k] /\ Len(u) = n + 1
                          /\ \A i \in 1..(n + 1) : u[i] = IF i = n + 1 THEN k ELSE s[i]
  <2>1. PICK m : m = n + 1
    OBVIOUS
  <2>2. m \in 1..Len(s)
    BY <1>2, <2>1
  <2>3. /\ [s EXCEPT ![m] = k] \in Seq(S) /\ Len([s EXCEPT ![m] = k]) = Len(s)
        /\ \A i \in 1..Len(s) : [s EXCEPT ![m] = k][i] = IF i = m THEN k ELSE s[i]
    BY <2>2, ExceptSeq
  <2>4. PICK u : u = [s EXCEPT ![m] = k]
    OBVIOUS
  <2>5. Len(s) = m
    BY <1>2, <2>1
  <2>6. u \in Seq(S) /\ Len(u) = m /\ \A i \in 1..m : u[i] = IF i = m THEN k ELSE s[i]
    BY <2>3, <2>4, <2>5
  <2> QED
    BY <2>1, <2>4, <2>6
<1>5. ASSUME NEW i \in 1..(n + 1) PROVE u[i] = t[i]
  <2>1. i = n + 1 \/ i \in 1..n
    OBVIOUS
  <2> QED
    BY <1>2, <1>3, <1>4, <2>1
<1>6. u = t
  BY <1>3, <1>4, <1>5, SeqEqual
<1> QED
  BY <1>1, <1>2, <1>3, <1>4, <1>6

-----------------------------------------------------------------------------
(* What is joined piece by piece: H makes of a sequence what g makes of    *)
(* its elements, joined.                                                   *)
Strings(A) == /\ Joinable(A)
              /\ \A q \in A : q \o <<>> = q
              /\ \A q, r, t \in A : (q \o r) \o t = q \o (r \o t)

Joins(S, A, H, g) ==
    /\ Strings(A) /\ g \in [S -> A] /\ H \in [Seq(S) -> A]
    /\ H[<<>>] = <<>>
    /\ \A s \in Seq(S), x \in S : H[Append(s, x)] = H[s] \o g[x]

LEMMA SeqStrings == ASSUME NEW S PROVE Strings(Seq(S))
<1>1. \A q \in Seq(S) : q \o <<>> = q
  BY ConcatEmptySeq
<1>2. \A q, r, t \in Seq(S) : (q \o r) \o t = q \o (r \o t)
  BY ConcatAssociative
<1> QED
  BY <1>1, <1>2, SeqJoinable DEF Strings

LEMMA JoinsSame ==
    ASSUME NEW S, NEW A, NEW H, NEW K, NEW g, Joins(S, A, H, g), Joins(S, A, K, g)
    PROVE  \A s \in Seq(S) : H[s] = K[s]
<1> DEFINE V == {s \in Seq(S) : H[s] = K[s]}
<1>1. <<>> \in V
  BY EmptySeq DEF Joins
<1>2. ASSUME NEW s \in Seq(S), NEW x \in S, s \in V PROVE Append(s, x) \in V
  <2>1. Append(s, x) \in Seq(S)
    BY AppendProperties
  <2>2. H[Append(s, x)] = H[s] \o g[x] /\ K[Append(s, x)] = K[s] \o g[x]
    BY DEF Joins
  <2> QED
    BY <1>2, <2>1, <2>2
<1> HIDE DEF V
<1>3. \A s \in Seq(S) : s \in V
  BY <1>1, <1>2, Grows
<1> QED
  BY <1>3 DEF V

Adds(H, s, t) == H[s \o t] = H[s] \o H[t]

LEMMA JoinsJoined ==
    ASSUME NEW S, NEW A, NEW H, NEW g, Joins(S, A, H, g), NEW s \in Seq(S)
    PROVE  \A t \in Seq(S) : Adds(H, s, t)
<1> DEFINE V == {t \in Seq(S) : H[s \o t] = H[s] \o H[t]}
<1>0. \A t \in Seq(S) : H[t] \in A
  BY DEF Joins
<1>1. <<>> \in V
  <2>1. s \o <<>> = s /\ <<>> \in Seq(S)
    BY ConcatEmptySeq, EmptySeq
  <2>2. H[s] \o <<>> = H[s] /\ H[<<>>] = <<>>
    BY <1>0 DEF Joins, Strings
  <2> QED
    BY <2>1, <2>2
<1>2. ASSUME NEW t \in Seq(S), NEW x \in S, t \in V PROVE Append(t, x) \in V
  <2>1. PICK u \in Seq(S) : u = Append(t, x)
    BY AppendProperties
  <2>2. PICK v \in Seq(S) : v = s \o t
    BY ConcatProperties
  <2>3. s \o u = Append(v, x)
    BY <2>1, <2>2
  <2>4. H[Append(v, x)] = H[v] \o g[x] /\ H[u] = H[t] \o g[x]
    BY <2>1 DEF Joins
  <2>5. PICK a \in A, b \in A, c \in A : a = H[s] /\ b = H[t] /\ c = g[x]
    BY <1>0 DEF Joins
  <2>6. (a \o b) \o c = a \o (b \o c)
    BY DEF Joins, Strings
  <2>7. H[v] = a \o b
    BY <1>2, <2>2, <2>5
  <2>8. H[s \o u] = H[s] \o H[u]
    BY <2>3, <2>4, <2>5, <2>6, <2>7
  <2> QED
    BY <2>1, <2>8
<1> HIDE DEF V
<1>3. \A t \in Seq(S) : t \in V
  BY <1>1, <1>2, Grows
<1> QED
  BY <1>3 DEF V, Adds

(* H of the elements in Q only. *)
AmongBy(S, H, Q)  == [s \in Seq(S) |-> H[Only(s, Q)]]
AmongOne(S, g, Q) == [x \in S |-> IF x \in Q THEN g[x] ELSE <<>>]

LEMMA AmongJoins ==
    ASSUME NEW S, NEW A, NEW H, NEW g, NEW Q, Joins(S, A, H, g)
    PROVE  Joins(S, A, AmongBy(S, H, Q), AmongOne(S, g, Q))
<1>1. PICK K, k : K = AmongBy(S, H, Q) /\ k = AmongOne(S, g, Q)
  OBVIOUS
<1>2. K \in [Seq(S) -> A]
  BY <1>1, OnlySub DEF AmongBy, Joins
<1>3. k \in [S -> A]
  BY <1>1 DEF AmongOne, Joins, Strings, Joinable
<1>4. K[<<>>] = <<>>
  BY <1>1, EmptySeq, OnlyNone DEF AmongBy, Joins
<1>5. ASSUME NEW s \in Seq(S), NEW x \in S PROVE K[Append(s, x)] = K[s] \o k[x]
  <2>0. PICK q \in Seq(S), t \in Seq(S) : q = Only(s, Q) /\ t = Append(s, x) /\ OnlyThen(q, t, x, Q)
    BY OnlyNext
  <2>1. q = Only(s, Q) /\ t = Append(s, x)
    BY <2>0
  <2>2. Only(t, Q) = IF x \in Q THEN Append(q, x) ELSE q
    BY <2>0 DEF OnlyThen
  <2>3. K[s] = H[q] /\ K[t] = H[Only(t, Q)] /\ H[q] \in A
    BY <1>1, <2>1 DEF AmongBy, Joins
  <2>4. H[Append(q, x)] = H[q] \o g[x]
    BY DEF Joins
  <2>5. H[q] \o <<>> = H[q]
    BY <2>3 DEF Joins, Strings
  <2>6. k[x] = IF x \in Q THEN g[x] ELSE <<>>
    BY <1>1 DEF AmongOne
  <2> QED
    BY <2>1, <2>2, <2>3, <2>4, <2>5, <2>6
<1> QED
  BY <1>1, <1>2, <1>3, <1>4, <1>5 DEF Joins

(* What H makes of the elements in Q is what K makes of all, if K makes    *)
(* nothing of the others.                                                  *)
LEMMA OnlyLike ==
    ASSUME NEW S, NEW A, NEW H, NEW g, NEW K, NEW k, NEW Q,
           Joins(S, A, H, g), Joins(S, A, K, k),
           \A x \in S : k[x] = IF x \in Q THEN g[x] ELSE <<>>
    PROVE  \A s \in Seq(S) : H[Only(s, Q)] = K[s]
<1>1. PICK L, l : L = AmongBy(S, H, Q) /\ l = AmongOne(S, g, Q)
  OBVIOUS
<1>2. Joins(S, A, L, l)
  BY <1>1, AmongJoins
<1>3. l = k
  BY <1>1 DEF AmongOne, Joins
<1>4. \A s \in Seq(S) : L[s] = K[s]
  BY <1>2, <1>3, JoinsSame
<1> QED
  BY <1>1, <1>4 DEF AmongBy

(* What H makes of what f makes of each is what K makes. *)
LEMMA ThroughLike ==
    ASSUME NEW D, NEW S, NEW A, NEW f, NEW H, NEW g, NEW K, NEW k,
           Maps(f, D, S), Joins(S, A, H, g), Joins(D, A, K, k), \A x \in D : k[x] = g[f[x]]
    PROVE  \A s \in Seq(D) : H[Through(f, s)] = K[s]
<1> DEFINE V == {s \in Seq(D) : H[Through(f, s)] = K[s]}
<1>1. <<>> \in V
  <2>1. Through(f, <<>>) = <<>>
    BY DEF Through
  <2> QED
    BY <2>1, EmptySeq DEF Joins
<1>2. ASSUME NEW s \in Seq(D), NEW x \in D, s \in V PROVE Append(s, x) \in V
  <2>1. PICK t \in Seq(D) : t = Append(s, x)
    BY AppendProperties
  <2>2. Through(f, s) \in Seq(S) /\ Through(f, Append(s, x)) = Append(Through(f, s), f[x])
    BY ThroughOn
  <2>3. PICK q \in Seq(S) : q = Through(f, s)
    BY <2>2
  <2>4. PICK y \in S : y = f[x]
    BY DEF Maps
  <2>5. H[Append(q, y)] = H[q] \o g[y] /\ K[Append(s, x)] = K[s] \o k[x]
    BY DEF Joins
  <2>6. k[x] = g[y]
    BY <2>4
  <2> QED
    BY <1>2, <2>1, <2>2, <2>3, <2>4, <2>5, <2>6
<1> HIDE DEF V
<1>3. \A s \in Seq(D) : s \in V
  BY <1>1, <1>2, Grows
<1> QED
  BY <1>3 DEF V

(* f makes one of each. *)
Each(f, D) == [s \in Seq(D) |-> Through(f, s)]
LEMMA EachJoins ==
    ASSUME NEW D, NEW E, NEW f, Maps(f, D, E)
    PROVE  Joins(D, Seq(E), Each(f, D), [x \in D |-> <<f[x]>>])
<1>1. PICK H, g, A : H = Each(f, D) /\ g = [x \in D |-> <<f[x]>>] /\ A = Seq(E)
  OBVIOUS
<1>2. Strings(A)
  BY <1>1, SeqStrings
<1>3. H \in [Seq(D) -> A]
  BY <1>1, ThroughIs DEF Each
<1>4. g \in [D -> A]
  <2>1. \A x \in D : <<f[x]>> \in Seq(E)
    BY DEF Maps
  <2> QED
    BY <1>1, <2>1
<1>5. H[<<>>] = <<>>
  BY <1>1, EmptySeq DEF Each, Through
<1>6. ASSUME NEW s \in Seq(D), NEW x \in D PROVE H[Append(s, x)] = H[s] \o g[x]
  <2>1. PICK t \in Seq(D) : t = Append(s, x)
    BY AppendProperties
  <2>2. Through(f, s) \in Seq(E) /\ Through(f, Append(s, x)) = Append(Through(f, s), f[x])
    BY ThroughOn
  <2>3. PICK q \in Seq(E), y \in E : q = Through(f, s) /\ y = f[x]
    BY <2>2 DEF Maps
  <2>4. Append(q, y) = q \o <<y>>
    OBVIOUS
  <2> QED
    BY <1>1, <2>1, <2>2, <2>3, <2>4 DEF Each
<1> QED
  BY <1>1, <1>2, <1>3, <1>4, <1>5, <1>6 DEF Joins

(* f makes several of each, and all are joined. *)
AllOf(f, D) == [s \in Seq(D) |-> FlattenSeq(Through(f, s))]
LEMMA AllJoins ==
    ASSUME NEW D, NEW A, NEW f, Maps(f, D, A), Strings(A)
    PROVE  Joins(D, A, AllOf(f, D), f)
<1>1. PICK H : H = AllOf(f, D)
  OBVIOUS
<1>2. Joinable(A) /\ f \in [D -> A]
  BY DEF Strings, Maps
<1>3. ASSUME NEW s \in Seq(D) PROVE FlattenSeq(Through(f, s)) \in A
  <2>1. PICK p \in Seq(A) : p = Through(f, s)
    BY ThroughIs
  <2> QED
    BY <1>2, <2>1, FlattenType
<1>4. H \in [Seq(D) -> A]
  BY <1>1, <1>3 DEF AllOf
<1>5. H[<<>>] = <<>>
  BY <1>1, EmptySeq DEF AllOf, Through, FlattenSeq
<1>6. ASSUME NEW s \in Seq(D), NEW x \in D PROVE H[Append(s, x)] = H[s] \o f[x]
  <2>1. PICK t \in Seq(D) : t = Append(s, x)
    BY AppendProperties
  <2>2. Flattens(A, f, s, x)
    BY <1>2, FlattenThrough
  <2> QED
    BY <1>1, <2>1, <2>2 DEF AllOf, Flattens
<1> QED
  BY <1>1, <1>2, <1>4, <1>5, <1>6 DEF Joins

(* What H makes of all that f makes of each is what K makes. *)
LEMMA AllLike ==
    ASSUME NEW D, NEW S, NEW A, NEW f, NEW H, NEW g, NEW K, NEW k,
           Maps(f, D, Seq(S)), Joins(S, A, H, g), Joins(D, A, K, k), \A x \in D : k[x] = H[f[x]]
    PROVE  \A s \in Seq(D) : H[FlattenSeq(Through(f, s))] = K[s]
<1> DEFINE V == {s \in Seq(D) : H[FlattenSeq(Through(f, s))] = K[s]}
<1>1. <<>> \in V
  <2>1. FlattenSeq(Through(f, <<>>)) = <<>>
    BY DEF Through, FlattenSeq
  <2> QED
    BY <2>1, EmptySeq DEF Joins
<1>2. ASSUME NEW s \in Seq(D), NEW x \in D, s \in V PROVE Append(s, x) \in V
  <2>1. PICK t \in Seq(D) : t = Append(s, x)
    BY AppendProperties
  <2>2. PICK B : B = Seq(S)
    OBVIOUS
  <2>3. Joinable(B) /\ Maps(f, D, B)
    BY <2>2, SeqJoinable
  <2>4. Flattens(B, f, s, x)
    BY <2>3, FlattenThrough
  <2>5. PICK q \in B : q = FlattenSeq(Through(f, s))
    BY <2>4 DEF Flattens
  <2>6. PICK y \in B : y = f[x]
    BY <2>3 DEF Maps
  <2>7. FlattenSeq(Through(f, t)) = q \o y
    BY <2>1, <2>4, <2>5, <2>6 DEF Flattens
  <2>8. Adds(H, q, y)
    BY <2>2, JoinsJoined
  <2>9. K[t] = K[s] \o k[x]
    BY <2>1 DEF Joins
  <2>10. H[FlattenSeq(Through(f, t))] = K[t]
    BY <1>2, <2>5, <2>6, <2>7, <2>8, <2>9 DEF Adds
  <2> QED
    BY <2>1, <2>10
<1> HIDE DEF V
<1>3. \A s \in Seq(D) : s \in V
  BY <1>1, <1>2, Grows
<1> QED
  BY <1>3 DEF V

(* What f makes of the elements in Q, joined.                              *)
LEMMA SumJoins ==
    ASSUME NEW S, NEW A, NEW f, NEW Q, Maps(f, S, A), Strings(A)
    PROVE  Joins(S, A, AmongBy(S, AllOf(f, S), Q), AmongOne(S, f, Q))
<1>1. PICK H : H = AllOf(f, S)
  OBVIOUS
<1>2. Joins(S, A, H, f)
  BY <1>1, AllJoins
<1>3. Joins(S, A, AmongBy(S, H, Q), AmongOne(S, f, Q))
  BY <1>2, AmongJoins
<1> QED
  BY <1>1, <1>3

LEMMA SumIs ==
    ASSUME NEW S, NEW f, NEW Q, NEW s \in Seq(S)
    PROVE  AmongBy(S, AllOf(f, S), Q)[s] = FlattenSeq(Through(f, Only(s, Q)))
<1>1. Only(s, Q) \in Seq(S)
  BY OnlySub
<1> QED
  BY <1>1 DEF AmongBy, AllOf

-----------------------------------------------------------------------------
(* A sequence that is cut at an element. *)
Cut(S, s, a, x, b) == /\ a \in Seq(S) /\ x \in S /\ b \in Seq(S) /\ s = Append(a, x) \o b

Laid(s, a, x, b) ==
    /\ Len(s) = Len(a) + 1 + Len(b)
    /\ Len(a) + 1 \in 1..Len(s) /\ s[Len(a) + 1] = x
    /\ \A i \in 1..Len(a) : s[i] = a[i]
    /\ \A i \in (Len(a) + 2)..Len(s) : s[i] = b[i - Len(a) - 1]

LEMMA CutIs ==
    ASSUME NEW S, NEW s, NEW a, NEW x, NEW b, Cut(S, s, a, x, b)
    PROVE  s \in Seq(S) /\ Laid(s, a, x, b)
<1>0. PICK f \in Seq(S) : f = Append(a, x)
  BY AppendProperties DEF Cut
<1>1. PICK m \in Nat, n \in Nat : m = Len(a) /\ n = Len(b)
  BY DEF Cut
<1>2. /\ Len(f) = m + 1 /\ f[m + 1] = x
      /\ \A i \in 1..m : f[i] = a[i]
  BY <1>0, <1>1 DEF Cut
<1>3. /\ f \o b \in Seq(S) /\ Len(f \o b) = m + 1 + n
      /\ \A i \in 1..(m + 1 + n) : (f \o b)[i] = IF i <= m + 1 THEN f[i] ELSE b[i - (m + 1)]
  <2>1. b \in Seq(S)
    BY DEF Cut
  <2>2. /\ f \o b \in Seq(S) /\ Len(f \o b) = Len(f) + Len(b)
        /\ \A i \in 1..Len(f) + Len(b) : (f \o b)[i] = IF i <= Len(f) THEN f[i] ELSE b[i - Len(f)]
    BY <2>1, ConcatProperties
  <2> QED
    BY <1>1, <1>2, <2>2
<1>4. s = f \o b
  BY <1>0 DEF Cut
<1> QED
  BY <1>1, <1>2, <1>3, <1>4 DEF Laid

LEMMA CutAt ==
    ASSUME NEW S, NEW s \in Seq(S), NEW i \in 1..Len(s)
    PROVE  /\ Cut(S, s, SubSeq(s, 1, i - 1), s[i], SubSeq(s, i + 1, Len(s)))
           /\ Len(SubSeq(s, 1, i - 1)) = i - 1
           /\ \A j \in 1..(i - 1) : SubSeq(s, 1, i - 1)[j] = s[j]
<1>1. PICK n \in Nat, k \in Nat : n = Len(s) /\ k = i - 1 /\ k + 1 = i
  OBVIOUS
<1>2. PICK a \in Seq(S) : /\ a = SubSeq(s, 1, i - 1) /\ Len(a) = k
                          /\ \A j \in 1..k : a[j] = s[j]
  <2>1. \A j \in 1..k : s[j] \in S
    BY <1>1
  <2>2. SubSeq(s, 1, k) \in Seq(S) /\ Len(SubSeq(s, 1, k)) = k
        /\ \A j \in 1..k : SubSeq(s, 1, k)[j] = s[j]
    BY <1>1, <2>1, SubSeqProperties
  <2> QED
    BY <1>1, <2>2
<1>3. PICK b \in Seq(S) : /\ b = SubSeq(s, i + 1, Len(s)) /\ Len(b) = n - i
                          /\ \A j \in 1..(n - i) : b[j] = s[i + j]
  <2>1. \A j \in (i + 1)..n : s[j] \in S
    BY <1>1
  <2>2. SubSeq(s, i + 1, n) \in Seq(S) /\ Len(SubSeq(s, i + 1, n)) = n - i
        /\ \A j \in 1..(n - (i + 1) + 1) : SubSeq(s, i + 1, n)[j] = s[(i + 1) + j - 1]
    BY <1>1, <2>1, SubSeqProperties
  <2>3. \A j \in 1..(n - i) : SubSeq(s, i + 1, n)[j] = s[i + j]
    BY <1>1, <2>2
  <2> QED
    BY <1>1, <2>2, <2>3
<1>4. PICK x \in S : x = s[i]
  BY <1>1
<1>5. PICK t : t = Append(a, x) \o b /\ Cut(S, t, a, x, b)
  BY DEF Cut
<1>6. t = s
  <2>1. t \in Seq(S) /\ Len(t) = n /\ t[i] = x /\ (\A j \in 1..k : t[j] = a[j])
        /\ (\A j \in (i + 1)..n : t[j] = b[j - i])
    <3>0. t \in Seq(S) /\ Laid(t, a, x, b)
      BY <1>5, CutIs
    <3>1. /\ t \in Seq(S) /\ Len(t) = k + 1 + (n - i) /\ t[k + 1] = x
          /\ (\A j \in 1..k : t[j] = a[j])
          /\ (\A j \in (k + 2)..Len(t) : t[j] = b[j - k - 1])
      BY <1>2, <1>3, <3>0 DEF Laid
    <3>2. Len(t) = n /\ k + 2 = i + 1
      BY <1>1, <3>1
    <3>3. \A j \in (i + 1)..n : j - k - 1 = j - i
      BY <1>1
    <3> QED
      BY <1>1, <3>1, <3>2, <3>3
  <2>2. \A j \in 1..n : t[j] = s[j]
    <3>1. \A j \in 1..k : t[j] = s[j]
      BY <1>2, <2>1
    <3>2. ASSUME NEW j \in (i + 1)..n PROVE t[j] = s[j]
      <4>1. j - i \in 1..(n - i) /\ i + (j - i) = j
        BY <1>1
      <4> QED
        BY <1>3, <2>1, <4>1
    <3>3. \A j \in 1..n : j \in 1..k \/ j = i \/ j \in (i + 1)..n
      BY <1>1
    <3> QED
      BY <1>4, <2>1, <3>1, <3>2, <3>3
  <2> QED
    BY <1>1, <2>1, <2>2, SeqEqual
<1> QED
  BY <1>1, <1>2, <1>3, <1>4, <1>5, <1>6

LEMMA CutSame ==
    ASSUME NEW S, NEW s, NEW a, NEW x, NEW b, Cut(S, s, a, x, b), NEW y \in S
    PROVE  Cut(S, [s EXCEPT ![Len(a) + 1] = y], a, y, b)
<1>1. PICK m \in Nat, l \in Nat : m = Len(a) /\ l = Len(b)
  BY DEF Cut
<1>2. PICK n \in Nat : n = m + 1 + l
  BY <1>1
<1>3. /\ s \in Seq(S) /\ Len(s) = n /\ m + 1 \in 1..n
      /\ (\A i \in 1..m : s[i] = a[i]) /\ (\A i \in (m + 2)..n : s[i] = b[i - m - 1])
  <2>1. s \in Seq(S) /\ Laid(s, a, x, b)
    BY CutIs
  <2> QED
    BY <1>1, <1>2, <2>1 DEF Laid
<1>4. PICK r : r = [s EXCEPT ![m + 1] = y]
  OBVIOUS
<1>5. r \in Seq(S) /\ Len(r) = n /\ r[m + 1] = y /\ \A i \in 1..n : i # m + 1 => r[i] = s[i]
  BY <1>3, <1>4
<1>6. PICK t : t = Append(a, y) \o b /\ Cut(S, t, a, y, b)
  BY DEF Cut
<1>7. /\ t \in Seq(S) /\ Len(t) = n /\ t[m + 1] = y
      /\ (\A i \in 1..m : t[i] = a[i]) /\ (\A i \in (m + 2)..n : t[i] = b[i - m - 1])
  <2>1. t \in Seq(S) /\ Laid(t, a, y, b)
    BY <1>6, CutIs
  <2> QED
    BY <1>1, <1>2, <2>1 DEF Laid
<1>8. \A i \in 1..n : r[i] = t[i]
  <2>1. \A i \in 1..m : r[i] = t[i]
    BY <1>2, <1>3, <1>5, <1>7
  <2>2. \A i \in (m + 2)..n : r[i] = t[i]
    BY <1>2, <1>3, <1>5, <1>7
  <2>3. \A i \in 1..n : i \in 1..m \/ i = m + 1 \/ i \in (m + 2)..n
    BY <1>2
  <2> QED
    BY <1>5, <1>7, <2>1, <2>2, <2>3
<1>9. r = t
  BY <1>5, <1>7, <1>8, SeqEqual
<1> QED
  BY <1>1, <1>4, <1>6, <1>9

(* The first element in Q. *)
FirstIn(s, Q) == LET I == {i \in 1..Len(s) : s[i] \in Q} IN IF I # {} THEN Min(I) ELSE 0

CutFirst(S, s, Q, a, x, b) == /\ Cut(S, s, a, x, b) /\ a \in Seq(S \ Q) /\ x \in Q
                              /\ Len(a) + 1 = FirstIn(s, Q)

LEMMA FirstCuts ==
    ASSUME NEW S, NEW s \in Seq(S), NEW Q
    PROVE  \/ FirstIn(s, Q) = 0 /\ s \in Seq(S \ Q)
           \/ /\ FirstIn(s, Q) \in 1..Len(s) /\ \E a, x, b : CutFirst(S, s, Q, a, x, b)
<1>1. PICK n \in Nat : n = Len(s)
  OBVIOUS
<1>2. PICK I : I = {i \in 1..n : s[i] \in Q}
  OBVIOUS
<1>3. FirstIn(s, Q) = IF I # {} THEN Min(I) ELSE 0
  BY <1>1, <1>2 DEF FirstIn
<1>4. CASE I = {}
  <2>1. \A i \in 1..n : s[i] \in S \ Q
    BY <1>1, <1>2, <1>4
  <2>2. s \in Seq(S \ Q)
    BY <1>1, <2>1
  <2> QED
    BY <1>3, <1>4, <2>2
<1>5. CASE I # {}
  <2>1. I \subseteq Nat
    BY <1>2
  <2>2. Min(I) \in I /\ \A k \in I : Min(I) <= k
    BY <1>5, <2>1, MinIs
  <2>3. PICK i \in 1..n : i = Min(I) /\ s[i] \in Q /\ \A j \in 1..n : j < i => s[j] \notin Q
    <3>1. PICK i : i = Min(I)
      OBVIOUS
    <3>2. i \in 1..n /\ s[i] \in Q
      BY <1>2, <2>2, <3>1
    <3>3. \A j \in 1..n : j < i => s[j] \notin Q
      BY <1>2, <2>2, <3>1, <3>2
    <3> QED
      BY <3>1, <3>2, <3>3
  <2>4. PICK a, x, b : a = SubSeq(s, 1, i - 1) /\ x = s[i] /\ b = SubSeq(s, i + 1, Len(s))
    OBVIOUS
  <2>5. Cut(S, s, a, x, b) /\ Len(a) = i - 1 /\ \A j \in 1..(i - 1) : a[j] = s[j]
    BY <1>1, <2>3, <2>4, CutAt
  <2>6. a \in Seq(S \ Q)
    <3>1. a \in Seq(S)
      BY <2>5 DEF Cut
    <3>2. \A j \in 1..(i - 1) : a[j] \in S \ Q
      BY <1>1, <2>3, <2>5
    <3> QED
      BY <2>5, <3>1, <3>2
  <2>7. Len(a) + 1 = i
    BY <2>3, <2>5
  <2> QED
    BY <1>1, <1>3, <1>5, <2>3, <2>4, <2>5, <2>6, <2>7 DEF CutFirst
<1> QED
  BY <1>4, <1>5

LEMMA FirstAt ==
    ASSUME NEW S, NEW s, NEW a, NEW x, NEW b, NEW Q, Cut(S, s, a, x, b), a \in Seq(S \ Q), x \in Q
    PROVE  FirstIn(s, Q) = Len(a) + 1
<1>1. PICK m \in Nat, n \in Nat : m = Len(a) /\ n = Len(s)
  BY CutIs DEF Cut
<1>2. m + 1 \in 1..n /\ s[m + 1] \in Q /\ \A i \in 1..m : s[i] \notin Q
  <2>1. Laid(s, a, x, b)
    BY CutIs
  <2>2. \A i \in 1..m : a[i] \notin Q
    BY <1>1
  <2> QED
    BY <1>1, <2>1, <2>2 DEF Laid
<1>3. PICK I : I = {i \in 1..n : s[i] \in Q}
  OBVIOUS
<1>4. Min(I) \in I /\ \A k \in I : Min(I) <= k
  <2>1. I \subseteq Nat /\ I # {}
    BY <1>2, <1>3
  <2> QED
    BY <2>1, MinIs
<1>5. Min(I) = m + 1
  <2>1. m + 1 \in I
    BY <1>2, <1>3
  <2>2. Min(I) \in 1..n /\ Min(I) <= m + 1 /\ Min(I) \notin 1..m
    BY <1>2, <1>3, <1>4, <2>1
  <2> QED
    BY <2>2
<1> QED
  BY <1>1, <1>3, <1>4, <1>5 DEF FirstIn

(* Picking is joined, too. *)
LEMMA OnlyJoined ==
    ASSUME NEW S, NEW s \in Seq(S), NEW t \in Seq(S), NEW Q
    PROVE  Only(s \o t, Q) = Only(s, Q) \o Only(t, Q)
<1>1. PICK f, A, H, h, K, k : /\ f = [x \in S |-> x] /\ A = Seq(S)
                              /\ H = Each(f, S) /\ h = [x \in S |-> <<f[x]>>]
                              /\ K = AmongBy(S, H, Q) /\ k = AmongOne(S, h, Q)
  OBVIOUS
<1>2. Maps(f, S, S)
  BY <1>1 DEF Maps
<1>3. Joins(S, A, H, h)
  BY <1>1, <1>2, EachJoins
<1>4. Joins(S, A, K, k)
  BY <1>1, <1>3, AmongJoins
<1>5. ASSUME NEW r \in Seq(S) PROVE K[r] = Only(r, Q)
  <2>1. PICK q \in Seq(S) : q = Only(r, Q)
    BY OnlySub
  <2>2. Through(f, q) = q
    BY <1>1 DEF Through
  <2> QED
    BY <1>1, <2>1, <2>2 DEF AmongBy, Each
<1>6. Adds(K, s, t)
  BY <1>4, JoinsJoined
<1>7. s \o t \in Seq(S)
  BY ConcatProperties
<1> QED
  BY <1>5, <1>6, <1>7 DEF Adds

LEMMA OnlyCut ==
    ASSUME NEW S, NEW s, NEW a, NEW x, NEW b, NEW Q, Cut(S, s, a, x, b), x \in Q
    PROVE  Cut(S, Only(s, Q), Only(a, Q), x, Only(b, Q))
<1>1. PICK f \in Seq(S) : f = Append(a, x)
  BY AppendProperties DEF Cut
<1>2. a \in Seq(S) /\ x \in S /\ b \in Seq(S) /\ s = f \o b
  BY <1>1 DEF Cut
<1>3. Only(f, Q) = Append(Only(a, Q), x)
  BY <1>1, <1>2, OnlyOn
<1>4. Only(a, Q) \in Seq(S) /\ Only(b, Q) \in Seq(S)
  BY <1>2, OnlySub
<1>5. Only(s, Q) = Only(f, Q) \o Only(b, Q)
  BY <1>2, OnlyJoined
<1> QED
  BY <1>2, <1>3, <1>4, <1>5 DEF Cut

(* What H makes of a sequence that is cut. *)
InPieces(A, H, g, s, a, x, b) ==
    H[s] = H[a] \o (g[x] \o H[b]) /\ H[a] \in A /\ g[x] \in A /\ H[b] \in A

LEMMA JoinsCut ==
    ASSUME NEW S, NEW A, NEW H, NEW g, Joins(S, A, H, g),
           NEW s, NEW a, NEW x, NEW b, Cut(S, s, a, x, b)
    PROVE  InPieces(A, H, g, s, a, x, b)
<1>1. PICK f \in Seq(S) : f = Append(a, x)
  BY AppendProperties DEF Cut
<1>2. a \in Seq(S) /\ x \in S /\ b \in Seq(S) /\ s = f \o b
  BY <1>1 DEF Cut
<1>3. H[f] = H[a] \o g[x]
  BY <1>1, <1>2 DEF Joins
<1>4. Adds(H, f, b)
  BY <1>2, JoinsJoined
<1>5. PICK p \in A, q \in A, r \in A : p = H[a] /\ q = g[x] /\ r = H[b]
  BY <1>2 DEF Joins
<1>6. (p \o q) \o r = p \o (q \o r)
  BY DEF Joins, Strings
<1> QED
  BY <1>2, <1>3, <1>4, <1>5, <1>6 DEF Adds, InPieces
=============================================================================
