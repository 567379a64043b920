---------------------------- MODULE ExchangeProofs ----------------------------
(***************************************************************************)
(* Proofs about Exchange: that where the chunks of a stream end makes no   *)
(* difference (ChunkingInvisible), that an answer from the cache is the    *)
(* answer to the question that was asked (CacheAnswers), that the text and *)
(* the calls of an answer reach the client (AnswerKept), that the texts of *)
(* a stream reach it once and in order (StreamKept), that what a client     *)
(* says reaches the upstream (RequestKept), that the tools, calls and      *)
(* results of the conversation do (ToolTrafficKept), and that every        *)
(* variable keeps its type (TypeCorrect).                                  *)
(***************************************************************************)
EXTENDS Exchange, ArrayProofs

-----------------------------------------------------------------------------
(* The lines with data of an event. *)
Data(raw) == Filter(raw, LAMBDA t : t.kind = "data")
Named(raw) == \E i \in DOMAIN raw : raw[i].kind \in {"data", "event"}

LEMMA DataNone == Data(<<>>) = <<>> /\ ~Named(<<>>)
BY KeptNone DEF Data, Named, Filter

LEMMA DataOn ==
    ASSUME NEW S, NEW raw \in Seq(S), NEW t \in S
    PROVE  /\ Data(raw) \in Seq(S)
           /\ Data(Append(raw, t)) = IF t.kind = "data" THEN Append(Data(raw), t) ELSE Data(raw)
           /\ Named(Append(raw, t)) <=> Named(raw) \/ t.kind \in {"data", "event"}
<1>1. PICK u, n, P, Q : /\ u = Append(raw, t) /\ n = Len(raw)
                        /\ P = {i \in DOMAIN raw : raw[i].kind = "data"}
                        /\ Q = {i \in DOMAIN u : u[i].kind = "data"}
  OBVIOUS
<1>2. n \in Nat /\ DOMAIN raw = 1..n /\ DOMAIN u = 1..(n + 1) /\ u[n + 1] = t
      /\ \A i \in 1..n : u[i] = raw[i]
  BY <1>1
<1>3. P \in SUBSET Nat /\ Q \in SUBSET Nat /\ P \cap 1..n = Q \cap 1..n
  BY <1>1, <1>2
<1>4. n + 1 \in Q <=> t.kind = "data"
  BY <1>1, <1>2
<1>5. Kept(raw, P) = Kept(raw, Q)
  BY <1>1, <1>3, KeptCut
<1>6. /\ Kept(raw, P) \in Seq(S)
      /\ Kept(Append(raw, t), Q) = IF Len(raw) + 1 \in Q THEN Append(Kept(raw, Q), t) ELSE Kept(raw, Q)
  BY KeptOn
<1>7. Data(raw) = Kept(raw, P) /\ Data(u) = Kept(u, Q)
  BY <1>1 DEF Data, Filter
<1>8. Named(u) <=> Named(raw) \/ t.kind \in {"data", "event"}
  <2>1. \A i \in 1..(n + 1) : i = n + 1 \/ i \in 1..n
    BY <1>2
  <2>2. n + 1 \in 1..(n + 1) /\ \A i \in 1..n : i \in 1..(n + 1)
    BY <1>2
  <2> QED
    BY <1>2, <2>1, <2>2 DEF Named
<1> QED
  BY <1>1, <1>4, <1>5, <1>6, <1>7, <1>8

(* Two pieces of a text in which the same event is found. *)
Alike(a, b) == Data(a) = Data(b) /\ (Named(a) <=> Named(b))

LEMMA AlikeParsed == ASSUME NEW a, NEW b, Alike(a, b) PROVE ParseOneEvent(a) = ParseOneEvent(b)
BY DEF ParseOneEvent, Alike, Data, Named, Filter

LEMMA AlikeOn ==
    ASSUME NEW S, NEW a \in Seq(S), NEW b \in Seq(S), Alike(a, b), NEW t \in S
    PROVE  /\ Alike(Append(a, t), Append(b, t))
           /\ t.kind \notin {"data", "event"} => Alike(a, Append(b, t))
<1>1. PICK x, y : x = Append(a, t) /\ y = Append(b, t)
  OBVIOUS
<1>2. /\ Data(x) = IF t.kind = "data" THEN Append(Data(a), t) ELSE Data(a)
      /\ Named(x) <=> Named(a) \/ t.kind \in {"data", "event"}
  BY <1>1, DataOn
<1>3. /\ Data(y) = IF t.kind = "data" THEN Append(Data(b), t) ELSE Data(b)
      /\ Named(y) <=> Named(b) \/ t.kind \in {"data", "event"}
  BY <1>1, DataOn
<1>4. Data(a) = Data(b) /\ (Named(a) <=> Named(b))
  BY DEF Alike
<1> QED
  BY <1>1, <1>2, <1>3, <1>4 DEF Alike

-----------------------------------------------------------------------------
Raw == Seq(Token)

(* What stream() yields for one more event comes after the rest. *)
Datas == {Mapped(LAMBDA t : t.payload, Data(raw)) : raw \in Seq(Token)}

LEMMA ParsedType == ASSUME NEW raw \in Seq(Token) PROVE ParseOneEvent(raw) \in Seq(Datas)
<1>1. PICK d \in Datas : d = Mapped(LAMBDA t : t.payload, Data(raw))
  BY DEF Datas
<1>2. ParseOneEvent(raw) = IF Named(raw) THEN <<d>> ELSE <<>>
  BY <1>1 DEF ParseOneEvent, Named, Data
<1> QED
  BY <1>2

(* What MapEvent can make of them. *)
Heard(u) == {MapEvent(u, d) : d \in Datas}

ParseEach == [r \in Seq(Token) |-> ParseOneEvent(r)]
MapEach(u) == [d \in Datas |-> MapEvent(u, d)]

LEMMA YieldedIs ==
    ASSUME NEW u, NEW raws \in Seq(Raw)
    PROVE  /\ Through(ParseEach, raws) \in Seq(Seq(Datas))
           /\ FlattenSeq(Through(ParseEach, raws)) \in Seq(Datas)
           /\ Yielded(u, raws) = Through(MapEach(u), FlattenSeq(Through(ParseEach, raws)))
           /\ Yielded(u, raws) \in Seq(Heard(u))
<1>1. PICK R, A, f, g, E : /\ R = Raw /\ A = Seq(Datas) /\ f = ParseEach
                           /\ g = MapEach(u) /\ E = Heard(u)
  OBVIOUS
<1>2. f \in [R -> A] /\ g \in [Datas -> E]
  BY <1>1, ParsedType DEF ParseEach, MapEach, Heard, Raw
<1>3. raws \in Seq(R)
  BY <1>1
<1>4. PICK p : p = Through(f, raws)
  OBVIOUS
<1>5. \A i \in DOMAIN raws : raws[i] \in R
  BY <1>3
<1>6. p \in Seq(A)
  <2>1. Len(raws) \in Nat /\ DOMAIN raws = 1..Len(raws)
    BY <1>3
  <2> QED
    BY <1>2, <1>4, <1>5, <2>1 DEF Through
<1>7. p = Mapped(ParseOneEvent, raws)
  BY <1>1, <1>4, <1>5 DEF Mapped, Through, ParseEach, Raw
<1>8. Joinable(A)
  BY <1>1, SeqJoinable
<1>9. PICK q : q = FlattenSeq(p)
  OBVIOUS
<1>10. q \in A
  <2>1. <<>> \in A
    BY <1>1
  <2> QED
    BY <1>6, <1>8, <1>9, <2>1, FlattenOn
<1>11. \A i \in DOMAIN q : q[i] \in Datas
  BY <1>1, <1>10
<1>12. Yielded(u, raws) = Through(g, q)
  BY <1>1, <1>7, <1>9, <1>11 DEF Yielded, Mapped, Through, MapEach
<1>13. Through(g, q) \in Seq(E)
  <2>1. Len(q) \in Nat /\ DOMAIN q = 1..Len(q)
    BY <1>1, <1>10
  <2> QED
    BY <1>2, <1>11, <2>1 DEF Through
<1> QED
  BY <1>1, <1>4, <1>6, <1>9, <1>10, <1>12, <1>13

LEMMA YieldedNone == ASSUME NEW u PROVE Yielded(u, <<>>) = <<>>
BY DEF Yielded, Mapped, FlattenSeq

LEMMA YieldedOn ==
    ASSUME NEW u, NEW raws \in Seq(Raw), NEW raw \in Raw
    PROVE  Yielded(u, Append(raws, raw)) = Yielded(u, raws) \o Yielded(u, <<raw>>)
<1>1. Maps(ParseEach, Raw, Seq(Datas)) /\ Maps(MapEach(u), Datas, Heard(u))
  BY ParsedType DEF ParseEach, MapEach, Heard, Maps, Raw
<1>2. Through(MapEach(u), FlattenSeq(Through(ParseEach, Append(raws, raw))))
         = Through(MapEach(u), FlattenSeq(Through(ParseEach, raws)))
           \o Through(MapEach(u), FlattenSeq(Through(ParseEach, <<raw>>)))
  <2>1. PICK R, D, E, f, g : R = Raw /\ D = Datas /\ E = Heard(u) /\ f = ParseEach /\ g = MapEach(u)
    OBVIOUS
  <2>2. Chained(R, D, E, f, g) /\ raws \in Seq(R) /\ raw \in R
    BY <1>1, <2>1 DEF Chained
  <2>3. Through(g, FlattenSeq(Through(f, Append(raws, raw))))
           = Through(g, FlattenSeq(Through(f, raws))) \o Through(g, FlattenSeq(Through(f, <<raw>>)))
    BY <2>2, YieldsOn
  <2> QED
    BY <2>1, <2>3
<1>3. Append(raws, raw) \in Seq(Raw) /\ <<raw>> \in Seq(Raw)
  BY AppendProperties
<1>4. /\ Yielded(u, Append(raws, raw)) = Through(MapEach(u), FlattenSeq(Through(ParseEach, Append(raws, raw))))
      /\ Yielded(u, raws) = Through(MapEach(u), FlattenSeq(Through(ParseEach, raws)))
      /\ Yielded(u, <<raw>>) = Through(MapEach(u), FlattenSeq(Through(ParseEach, <<raw>>)))
  BY <1>3, YieldedIs
<1> QED
  BY <1>2, <1>4

-----------------------------------------------------------------------------
(* What the standard's reader has read so far. *)
Sofar == [raws: Seq(Raw), lines: Raw, empty: BOOLEAN]

AtStart == [raws |-> <<>>, lines |-> <<>>, empty |-> FALSE]

LEMMA KindsAre ==
    ASSUME NEW t \in Token
    PROVE  \/ t = LF /\ t.kind = "LF"
           \/ t = CR /\ t.kind = "CR"
           \/ t # LF /\ t # CR /\ t.kind \in {"data", "event", "comment"}
BY DEF Token, LF, CR, Line

LEMMA ReadType ==
    ASSUME NEW acc \in Sofar, NEW t \in Token
    PROVE  ReadToken(acc, t) \in Sofar
<1>1. acc.raws \in Seq(Raw) /\ acc.lines \in Raw /\ acc.empty \in BOOLEAN
  BY DEF Sofar
<1>2. acc = [raws |-> acc.raws, lines |-> acc.lines, empty |-> acc.empty]
  BY DEF Sofar
<1>3. Append(acc.raws, acc.lines) \in Seq(Raw)
  BY <1>1
<1>4. <<>> \in Raw /\ Append(acc.lines, t) \in Raw
  BY <1>1 DEF Raw
<1>5. CASE t.kind = "CR"
  BY <1>5 DEF ReadToken
<1>6. CASE t.kind = "LF" /\ acc.empty
  <2>1. ReadToken(acc, t) = [raws |-> Append(acc.raws, acc.lines), lines |-> <<>>, empty |-> TRUE]
    BY <1>6 DEF ReadToken
  <2> QED
    BY <1>3, <1>4, <2>1 DEF Sofar
<1>7. CASE t.kind = "LF" /\ ~acc.empty
  <2>1. ReadToken(acc, t) = [raws |-> acc.raws, lines |-> acc.lines, empty |-> TRUE]
    BY <1>2, <1>7 DEF ReadToken
  <2> QED
    BY <1>1, <2>1 DEF Sofar
<1>8. CASE t.kind \notin {"CR", "LF"}
  <2>1. ReadToken(acc, t) = [raws |-> acc.raws, lines |-> Append(acc.lines, t), empty |-> FALSE]
    BY <1>2, <1>8 DEF ReadToken
  <2> QED
    BY <1>1, <1>4, <2>1 DEF Sofar
<1> QED
  BY <1>1, <1>5, <1>6, <1>7, <1>8

ReadSteps(tokens) == [i \in 1..Len(tokens) |-> [acc \in Sofar |-> ReadToken(acc, tokens[i])]]

LEMMA ReadStepsType ==
    ASSUME NEW tokens \in Raw
    PROVE  ReadSteps(tokens) \in [1..Len(tokens) -> [Sofar -> Sofar]]
<1>1. \A i \in 1..Len(tokens) : tokens[i] \in Token
  BY DEF Raw
<1> QED
  BY <1>1, ReadType DEF ReadSteps

LEMMA AtStartType == AtStart \in Sofar
BY DEF AtStart, Sofar, Raw

LEMMA ReferenceFolds ==
    ASSUME NEW tokens \in Raw
    PROVE  Folds(Sofar, AtStart, Len(tokens), ReadSteps(tokens), Reference(tokens))
<1> DEFINE Value(g, i) == IF i = 0 THEN [raws |-> <<>>, lines |-> <<>>, empty |-> FALSE]
                         ELSE ReadToken(g[i - 1], tokens[i])
           Fold(g) == g = [i \in 0..Len(tokens) |-> Value(g, i)]
<1>1. PICK n, a, A, step : n = Len(tokens) /\ a = AtStart /\ A = Sofar /\ step = ReadSteps(tokens)
  OBVIOUS
<1>2. n \in Nat /\ a \in A /\ step \in [1..n -> [A -> A]]
  <2>1. Len(tokens) \in Nat
    BY DEF Raw
  <2> QED
    BY <1>1, <2>1, ReadStepsType, AtStartType
<1>3. PICK f \in [0..n -> A] : f[0] = a /\ \A i \in 1..n : f[i] = step[i][f[i - 1]]
  BY <1>2, FoldsExist
<1>4. \A i \in 1..n : f[i] = ReadToken(f[i - 1], tokens[i])
  <2> SUFFICES ASSUME NEW i \in 1..n PROVE f[i] = ReadToken(f[i - 1], tokens[i])
    OBVIOUS
  <2>1. f[i - 1] \in A
    BY <1>2, <1>3
  <2>2. step[i] = [acc \in A |-> ReadToken(acc, tokens[i])]
    BY <1>1 DEF ReadSteps
  <2> QED
    BY <1>3, <2>1, <2>2
<1>5. Fold(f)
  <2>1. \A i \in 0..n : f[i] = Value(f, i)
    <3> SUFFICES ASSUME NEW i \in 0..n PROVE f[i] = Value(f, i)
      OBVIOUS
    <3>1. CASE i = 0
      BY <1>1, <1>3, <3>1 DEF AtStart
    <3>2. CASE i # 0
      <4>1. i \in 1..n
        BY <1>2, <3>2
      <4> QED
        BY <1>4, <3>2, <4>1
    <3> QED
      BY <3>1, <3>2
  <2> QED
    BY <1>1, <1>3, <2>1
<1>6. PICK g : g = CHOOSE h : Fold(h)
  OBVIOUS
<1>7. Reference(tokens) = g[n]
  BY <1>1, <1>6 DEF Reference
<1>8. Fold(g)
  BY <1>5, <1>6
<1> DEFINE T == {i \in 0..n : g[i] = f[i]}
<1>9. 0 \in T
  BY <1>1, <1>2, <1>3, <1>8 DEF AtStart
<1>10. \A i \in 1..n : i - 1 \in T => i \in T
  <2> SUFFICES ASSUME NEW i \in 1..n, i - 1 \in T PROVE i \in T
    OBVIOUS
  <2>1. i \in 0..n /\ i # 0
    BY <1>2
  <2>2. g[i] = ReadToken(g[i - 1], tokens[i])
    BY <1>1, <1>8, <2>1
  <2> QED
    BY <1>4, <2>1, <2>2
<1>11. \A i \in 0..n : i \in T
  <2> HIDE DEF T
  <2> QED
    BY <1>2, <1>9, <1>10, Climbs
<1>12. Reference(tokens) = f[n]
  BY <1>2, <1>7, <1>11
<1> QED
  BY <1>1, <1>3, <1>12 DEF Folds

LEMMA ReferenceNone == Reference(<<>>) = AtStart
<1>1. PICK s : s = <<>>
  OBVIOUS
<1>2. s \in Raw /\ Len(s) = 0
  BY <1>1 DEF Raw
<1>3. Folds(Sofar, AtStart, Len(s), ReadSteps(s), Reference(s))
  BY <1>2, ReferenceFolds
<1> QED
  BY <1>1, <1>2, <1>3 DEF Folds

LEMMA ReferenceOn ==
    ASSUME NEW tokens \in Raw, NEW t \in Token
    PROVE  /\ Reference(tokens) \in Sofar
           /\ Reference(Append(tokens, t)) = ReadToken(Reference(tokens), t)
<1>1. PICK u, n, m : u = Append(tokens, t) /\ n = Len(tokens) /\ m = Len(u)
  OBVIOUS
<1>2. u \in Raw /\ n \in Nat /\ m = n + 1 /\ u[m] = t /\ \A i \in 1..n : u[i] = tokens[i] /\ i \in 1..m
  BY <1>1 DEF Raw
<1>3. PICK A, a, step, more, v, w :
         /\ A = Sofar /\ a = AtStart /\ step = ReadSteps(tokens) /\ more = ReadSteps(u)
         /\ v = Reference(tokens) /\ w = Reference(u)
  OBVIOUS
<1>4. a \in A /\ step \in [1..n -> [A -> A]] /\ more \in [1..m -> [A -> A]]
  BY <1>1, <1>2, <1>3, ReadStepsType, AtStartType
<1>5. \A i \in 1..n : more[i] = step[i]
  BY <1>1, <1>2, <1>3 DEF ReadSteps
<1>6. Folds(A, a, n, step, v) /\ Folds(A, a, m, more, w)
  BY <1>1, <1>2, <1>3, ReferenceFolds
<1>7. v \in A /\ w = more[m][v]
  <2>1. n \in Nat /\ m = n + 1
    BY <1>2
  <2>2. OneMore(A, n, step, more)
    BY <1>4, <1>5, <2>1 DEF OneMore
  <2> QED
    BY <1>4, <1>6, <2>1, <2>2, FoldsOn
<1>8. m \in 1..m
  BY <1>2
<1>9. w = ReadToken(v, u[m])
  BY <1>1, <1>3, <1>7, <1>8 DEF ReadSteps
<1> QED
  BY <1>1, <1>2, <1>3, <1>7, <1>9

-----------------------------------------------------------------------------
(* indexOf *)
LEMMA IndexIs ==
    ASSUME NEW b \in Raw, NEW s \in Raw
    PROVE  \/ IndexOf(b, s) = 0 /\ \A j \in 1..Len(b) : ~StandsAt(s, b, j)
           \/ /\ IndexOf(b, s) \in 1..Len(b) /\ StandsAt(s, b, IndexOf(b, s))
              /\ \A j \in 1..Len(b) : j < IndexOf(b, s) => ~StandsAt(s, b, j)
<1>1. PICK n \in Nat : n = Len(b)
  BY DEF Raw
<1>2. DOMAIN b = 1..n /\ b \in Seq(Token) /\ s \in Seq(Token)
  BY <1>1 DEF Raw
<1>3. PICK rests : rests = [i \in DOMAIN b |-> SubSeq(b, i, Len(b))]
  OBVIOUS
<1>4. Len(rests) = n
  BY <1>1, <1>2, <1>3
<1>5. PICK I : I = {i \in 1..n : IsPrefix(s, rests[i])}
  OBVIOUS
<1>6. IndexOf(b, s) = IF I # {} THEN Min(I) ELSE 0
  BY <1>1, <1>3, <1>4, <1>5 DEF IndexOf, SelectInSeq
<1>7. I = {i \in 1..n : StandsAt(s, b, i)}
  <2>1. ASSUME NEW i \in 1..n PROVE IsPrefix(s, rests[i]) <=> StandsAt(s, b, i)
    <3>1. rests[i] = SubSeq(b, i, Len(b))
      BY <1>2, <1>3
    <3>2. i \in 1..Len(b)
      BY <1>1
    <3>3. IsPrefix(s, SubSeq(b, i, Len(b))) <=> StandsAt(s, b, i)
      BY <1>2, <3>2, PrefixIs
    <3> QED
      BY <3>1, <3>3
  <2> QED
    BY <1>5, <2>1
<1>8. CASE I = {}
  BY <1>1, <1>6, <1>7, <1>8
<1>9. CASE I # {}
  <2>1. I \subseteq Nat
    BY <1>7
  <2>2. Min(I) \in I /\ \A k \in I : Min(I) <= k
    BY <1>9, <2>1, MinIs
  <2>3. Min(I) \in 1..n /\ StandsAt(s, b, Min(I))
    BY <1>7, <2>2
  <2>4. \A j \in 1..n : j < Min(I) => ~StandsAt(s, b, j)
    BY <1>7, <2>2, <2>3
  <2> QED
    BY <1>1, <1>6, <1>9, <2>3, <2>4
<1> QED
  BY <1>8, <1>9

(* An empty line ends at j + 1, or at j + 3. *)
LFAt(b, j) == j \in 1..Len(b) /\ j + 1 <= Len(b) /\ b[j] = LF /\ b[j + 1] = LF
CRLFAt(b, j) == /\ j \in 1..Len(b) /\ j + 3 <= Len(b)
                /\ b[j] = CR /\ b[j + 1] = LF /\ b[j + 2] = CR /\ b[j + 3] = LF

LEMMA BlanksAre ==
    ASSUME NEW b \in Raw, NEW j \in 1..Len(b)
    PROVE  /\ StandsAt(BlankLF, b, j) <=> LFAt(b, j)
           /\ StandsAt(BlankCRLF, b, j) <=> CRLFAt(b, j)
<1>0. Len(b) \in Nat
  BY DEF Raw
<1>1. Len(BlankLF) = 2 /\ BlankLF[1] = LF /\ BlankLF[2] = LF
  BY DEF BlankLF
<1>2. /\ Len(BlankCRLF) = 4 /\ BlankCRLF[1] = CR /\ BlankCRLF[2] = LF
      /\ BlankCRLF[3] = CR /\ BlankCRLF[4] = LF
  BY DEF BlankCRLF
<1>3. 1..2 = {1, 2} /\ 1..4 = {1, 2, 3, 4}
  OBVIOUS
<1>4. j + 1 - 1 = j /\ j + 2 - 1 = j + 1 /\ j + 3 - 1 = j + 2 /\ j + 4 - 1 = j + 3
  OBVIOUS
<1>5. StandsAt(BlankLF, b, j) <=> LFAt(b, j)
  BY <1>1, <1>3, <1>4 DEF StandsAt, LFAt
<1>6. StandsAt(BlankCRLF, b, j) <=> CRLFAt(b, j)
  BY <1>2, <1>3, <1>4 DEF StandsAt, CRLFAt
<1> QED
  BY <1>5, <1>6

LEMMA YieldedOne ==
    ASSUME NEW u, NEW raw \in Raw
    PROVE  Yielded(u, <<raw>>) = Through(MapEach(u), ParseOneEvent(raw))
<1>1. PICK R, A, f : R = Raw /\ A = Seq(Datas) /\ f = ParseEach
  OBVIOUS
<1>2. Maps(f, R, A) /\ Joinable(A)
  BY <1>1, ParsedType, SeqJoinable DEF ParseEach, Maps, Raw
<1>3. raw \in R
  BY <1>1
<1>4. FlattenSeq(Through(f, <<raw>>)) = f[raw]
  <2>0. <<>> \in Seq(R)
    OBVIOUS
  <2>1. PICK none \in Seq(R) : none = <<>>
    BY <2>0, Zenon
  <2>2. Flattens(A, f, none, raw)
    BY <1>2, <1>3, FlattenThrough
  <2> QED
    BY <2>2 DEF Flattens
<1>5. f[raw] = ParseOneEvent(raw)
  BY <1>1 DEF ParseEach, Raw
<1>6. <<raw>> \in Seq(Raw)
  OBVIOUS
<1>7. Yielded(u, <<raw>>) = Through(MapEach(u), FlattenSeq(Through(ParseEach, <<raw>>)))
  BY <1>6, YieldedIs
<1> QED
  BY <1>1, <1>4, <1>5, <1>7

LEMMA YieldedSame ==
    ASSUME NEW u, NEW a \in Raw, NEW b \in Raw, Alike(a, b)
    PROVE  Yielded(u, <<a>>) = Yielded(u, <<b>>)
BY YieldedOne, AlikeParsed

(* An event without anything yields nothing. *)
LEMMA YieldedSilent ==
    ASSUME NEW u, NEW raws \in Seq(Raw)
    PROVE  Yielded(u, Append(raws, <<>>)) = Yielded(u, raws)
<1>1. <<>> \in Raw
  BY DEF Raw
<1>2. ParseOneEvent(<<>>) = <<>>
  BY DataNone DEF ParseOneEvent, Named
<1>3. Yielded(u, <<<<>>>>) = <<>>
  <2>1. Yielded(u, <<<<>>>>) = Through(MapEach(u), ParseOneEvent(<<>>))
    BY <1>1, YieldedOne
  <2> QED
    BY <1>2, <2>1 DEF Through
<1>4. Yielded(u, Append(raws, <<>>)) = Yielded(u, raws) \o Yielded(u, <<<<>>>>)
  BY <1>1, YieldedOn
<1>5. Yielded(u, raws) \in Seq(Heard(u))
  BY YieldedIs
<1> QED
  BY <1>3, <1>4, <1>5, ConcatEmptySeq

-----------------------------------------------------------------------------
(* No event ends among the tokens after k, up to m. *)
Quiet(T, k, m) ==
    \A j \in (k + 1)..m :
       /\ ~ (j + 1 <= m /\ T[j] = LF /\ T[j + 1] = LF)
       /\ ~ (j + 3 <= m /\ T[j] = CR /\ T[j + 1] = LF /\ T[j + 2] = CR /\ T[j + 3] = LF)

(* An event ends with two line feeds after p, or with two CRs and theirs. *)
EndsLF(T, p, m) == p + 1 <= m /\ T[p] = LF /\ T[p + 1] = LF
EndsCRLF(T, p, m) == p + 3 <= m /\ T[p] = CR /\ T[p + 1] = LF /\ T[p + 2] = CR /\ T[p + 3] = LF

LEMMA PartIs ==
    ASSUME NEW T \in Raw, NEW m \in 0..Len(T), NEW k \in 0..m
    PROVE  /\ SubSeq(T, k + 1, m) \in Raw /\ Len(SubSeq(T, k + 1, m)) = m - k
           /\ \A j \in 1..(m - k) : SubSeq(T, k + 1, m)[j] = T[k + j]
<1>1. Len(T) \in Nat /\ T \in Seq(Token)
  BY DEF Raw
<1>2. SubSeq(T, k + 1, m) \in Seq(Token)
  BY <1>1
<1>3. Len(SubSeq(T, k + 1, m)) = m - k
  BY <1>1
<1>4. \A j \in 1..(m - k) : SubSeq(T, k + 1, m)[j] = T[k + j]
  BY <1>1
<1> QED
  BY <1>2, <1>3, <1>4 DEF Raw

LEMMA PartOn ==
    ASSUME NEW T \in Raw, NEW m \in 0..Len(T), NEW k \in 0..m, m + 1 <= Len(T)
    PROVE  SubSeq(T, k + 1, m + 1) = Append(SubSeq(T, k + 1, m), T[m + 1]) /\ T[m + 1] \in Token
<1>1. Len(T) \in Nat /\ T \in Seq(Token)
  BY DEF Raw
<1> QED
  BY <1>1

(* One kind of line end does not stand among the other. *)
LEMMA OneKind ==
    ASSUME NEW T \in Raw, OneLineEnd(T), NEW j \in 1..Len(T), NEW p \in 1..Len(T),
           T[j] = CR, p + 1 <= Len(T), T[p] = LF, T[p + 1] = LF
    PROVE  FALSE
<1>0. Len(T) \in Nat /\ DOMAIN T = 1..Len(T) /\ LF # CR
  BY DEF Raw, LF, CR
<1>1. \A i \in DOMAIN T : T[i] = LF <=> i > 1 /\ T[i - 1] = CR
  BY <1>0 DEF OneLineEnd
<1>2. p + 1 \in DOMAIN T /\ p + 1 - 1 = p
  BY <1>0
<1>3. T[p] = CR
  BY <1>1, <1>2
<1> QED
  BY <1>0, <1>3

(* What Boundary finds in a buffer that holds the tokens after k. *)
LEMMA BoundaryIs ==
    ASSUME NEW T \in Raw, OneLineEnd(T), NEW m \in 0..Len(T), NEW k \in 0..m,
           NEW b, b = SubSeq(T, k + 1, m)
    PROVE  /\ Boundary(b) \in 0..(m - k)
           /\ Boundary(b) = 0 => Quiet(T, k, m)
           /\ Boundary(b) # 0 =>
                 LET p == k + Boundary(b)
                 IN  \/ EndsLF(T, p, m) /\ Quiet(T, k, p) /\ b[Boundary(b)] = LF
                     \/ EndsCRLF(T, p, m) /\ Quiet(T, k, p + 2) /\ b[Boundary(b)] = CR
<1>0. Len(T) \in Nat /\ m \in Nat /\ k \in Nat
  BY DEF Raw
<1>1. b \in Raw /\ Len(b) = m - k /\ \A j \in 1..(m - k) : b[j] = T[k + j]
  BY PartIs
<1>2. BlankLF \in Raw /\ BlankCRLF \in Raw
  <2>1. LF \in Token /\ CR \in Token
    BY DEF Token
  <2> QED
    BY <2>1 DEF BlankLF, BlankCRLF, Raw
<1>3. ASSUME NEW j \in 1..(m - k)
      PROVE  /\ LFAt(b, j) <=> EndsLF(T, k + j, m)
             /\ CRLFAt(b, j) <=> EndsCRLF(T, k + j, m)
  <2>1. j + 1 <= m - k => b[j + 1] = T[k + j + 1]
    BY <1>1
  <2>2. j + 3 <= m - k => b[j + 1] = T[k + j + 1] /\ b[j + 2] = T[k + j + 2] /\ b[j + 3] = T[k + j + 3]
    BY <1>1
  <2> QED
    BY <1>1, <2>1, <2>2 DEF LFAt, CRLFAt, EndsLF, EndsCRLF
<1>4. PICK x, y : x = IndexOf(b, BlankLF) /\ y = IndexOf(b, BlankCRLF)
  OBVIOUS
<1>5. \/ x = 0 /\ \A j \in 1..(m - k) : ~EndsLF(T, k + j, m)
      \/ /\ x # 0 /\ x \in 1..(m - k) /\ EndsLF(T, k + x, m)
         /\ \A j \in 1..(m - k) : j < x => ~EndsLF(T, k + j, m)
  <2>1. \/ x = 0 /\ \A j \in 1..(m - k) : ~LFAt(b, j)
        \/ /\ x # 0 /\ x \in 1..(m - k) /\ LFAt(b, x)
           /\ \A j \in 1..(m - k) : j < x => ~LFAt(b, j)
    <3>1. \/ x = 0 /\ \A j \in 1..Len(b) : ~StandsAt(BlankLF, b, j)
          \/ /\ x \in 1..Len(b) /\ StandsAt(BlankLF, b, x)
             /\ \A j \in 1..Len(b) : j < x => ~StandsAt(BlankLF, b, j)
      BY <1>1, <1>2, <1>4, IndexIs
    <3>2. \A j \in 1..Len(b) : StandsAt(BlankLF, b, j) <=> LFAt(b, j)
      BY <1>1, BlanksAre
    <3>3. x \in 1..Len(b) => x # 0
      BY <1>0, <1>1
    <3> QED
      BY <1>1, <3>1, <3>2, <3>3
  <2> QED
    BY <1>3, <2>1
<1>6. \/ y = 0 /\ \A j \in 1..(m - k) : ~EndsCRLF(T, k + j, m)
      \/ /\ y # 0 /\ y \in 1..(m - k) /\ EndsCRLF(T, k + y, m)
         /\ \A j \in 1..(m - k) : j < y => ~EndsCRLF(T, k + j, m)
  <2>1. \/ y = 0 /\ \A j \in 1..(m - k) : ~CRLFAt(b, j)
        \/ /\ y # 0 /\ y \in 1..(m - k) /\ CRLFAt(b, y)
           /\ \A j \in 1..(m - k) : j < y => ~CRLFAt(b, j)
    <3>1. \/ y = 0 /\ \A j \in 1..Len(b) : ~StandsAt(BlankCRLF, b, j)
          \/ /\ y \in 1..Len(b) /\ StandsAt(BlankCRLF, b, y)
             /\ \A j \in 1..Len(b) : j < y => ~StandsAt(BlankCRLF, b, j)
      BY <1>1, <1>2, <1>4, IndexIs
    <3>2. \A j \in 1..Len(b) : StandsAt(BlankCRLF, b, j) <=> CRLFAt(b, j)
      BY <1>1, BlanksAre
    <3>3. y \in 1..Len(b) => y # 0
      BY <1>0, <1>1
    <3> QED
      BY <1>1, <3>1, <3>2, <3>3
  <2> QED
    BY <1>3, <2>1
<1>7. Boundary(b) = IF x > 0 THEN x ELSE y
  BY <1>4 DEF Boundary
<1>8. CASE x # 0
  <2>1. PICK p \in 1..Len(T) : p = k + x
    BY <1>0, <1>5, <1>8
  <2>2. EndsLF(T, p, m) /\ Boundary(b) = x /\ b[x] = LF
    <3>1. EndsLF(T, p, m) /\ b[x] = T[p] /\ x > 0
      BY <1>0, <1>1, <1>5, <1>8, <2>1
    <3>2. T[p] = LF
      BY <3>1 DEF EndsLF
    <3>3. Boundary(b) = x
      BY <1>7, <3>1
    <3> QED
      BY <3>1, <3>2, <3>3
  <2>3. ASSUME NEW j \in (k + 1)..p PROVE ~(j + 1 <= p /\ T[j] = LF /\ T[j + 1] = LF)
    <3>1. ASSUME j + 1 <= p PROVE ~EndsLF(T, j, m)
      <4>1. PICK i \in Int : i = j - k
        BY <1>0
      <4>2. i \in 1..(m - k) /\ i < x /\ k + i = j
        BY <1>0, <1>5, <1>8, <2>1, <3>1, <4>1
      <4>3. ~EndsLF(T, k + i, m)
        BY <1>5, <1>8, <4>2
      <4> QED
        BY <4>2, <4>3
    <3>2. p + 1 <= m
      BY <2>2 DEF EndsLF
    <3> QED
      BY <3>1, <3>2 DEF EndsLF
  <2>4. \A j \in (k + 1)..p : T[j] # CR
    <3> SUFFICES ASSUME NEW j \in (k + 1)..p, T[j] = CR PROVE FALSE
      OBVIOUS
    <3>1. j \in 1..Len(T) /\ p + 1 <= Len(T) /\ T[p] = LF /\ T[p + 1] = LF
      BY <1>0, <2>1, <2>2 DEF EndsLF
    <3> QED
      BY <3>1, OneKind
  <2>5. Quiet(T, k, p)
    BY <2>3, <2>4 DEF Quiet
  <2> QED
    BY <1>5, <1>8, <2>1, <2>2, <2>5
<1>9. CASE x = 0 /\ y # 0
  <2>1. PICK p \in 1..Len(T) : p = k + y
    BY <1>0, <1>6, <1>9
  <2>2. EndsCRLF(T, p, m) /\ Boundary(b) = y /\ b[y] = CR
    <3>1. EndsCRLF(T, p, m) /\ b[y] = T[p]
      BY <1>1, <1>6, <1>9, <2>1
    <3>2. T[p] = CR
      BY <3>1 DEF EndsCRLF
    <3>3. Boundary(b) = y
      BY <1>7, <1>9
    <3> QED
      BY <3>1, <3>2, <3>3
  <2>3. p + 3 <= m
    BY <2>2 DEF EndsCRLF
  <2>4. ASSUME NEW j \in (k + 1)..(p + 2) PROVE ~(j + 1 <= p + 2 /\ T[j] = LF /\ T[j + 1] = LF)
    <3>1. PICK i \in 1..(m - k) : k + i = j
      <4>1. j - k \in 1..(m - k) /\ k + (j - k) = j
        BY <1>0, <2>1, <2>3
      <4> QED
        BY <4>1
    <3>2. ~EndsLF(T, k + i, m)
      <4>1. \A l \in 1..(m - k) : ~EndsLF(T, k + l, m)
        BY <1>0, <1>5, <1>9
      <4> QED
        BY <4>1
    <3> QED
      BY <2>3, <3>1, <3>2 DEF EndsLF
  <2>5. ASSUME NEW j \in (k + 1)..(p + 2), j + 3 <= p + 2
        PROVE ~(T[j] = CR /\ T[j + 1] = LF /\ T[j + 2] = CR /\ T[j + 3] = LF)
    <3>1. PICK i \in Int : i = j - k
      BY <1>0
    <3>0. k \in Nat /\ m \in Nat /\ y \in Nat /\ p \in Nat /\ j \in Nat
      BY <1>0, <1>6, <1>9, <2>1
    <3>2. i \in 1..(m - k) /\ i < y /\ k + i = j
      BY ONLY <2>1, <2>3, <2>5, <3>0, <3>1, p = k + y, j \in (k + 1)..(p + 2)
    <3>3. ~EndsCRLF(T, k + i, m)
      BY <1>6, <1>9, <3>2
    <3> QED
      <4>1. ~EndsCRLF(T, j, m)
        BY <3>2, <3>3
      <4>2. j + 3 <= m
        BY <1>0, <2>1, <2>3, <2>5
      <4> QED
        BY <4>1, <4>2 DEF EndsCRLF
  <2>6. Quiet(T, k, p + 2)
    BY <2>4, <2>5 DEF Quiet
  <2>7. y \in 0..(m - k) /\ y # 0
    BY <1>0, <1>6, <1>9
  <2>8. EndsCRLF(T, k + y, m) /\ Quiet(T, k, (k + y) + 2) /\ b[y] = CR
    BY <2>1, <2>2, <2>6
  <2>9. Boundary(b) = y
    BY <2>2
  <2> QED
    BY <2>7, <2>8, <2>9
<1>10. CASE x = 0 /\ y = 0
  <2>1. Boundary(b) = 0
    BY <1>7, <1>10
  <2>2. ASSUME NEW j \in (k + 1)..m PROVE ~EndsLF(T, j, m) /\ ~EndsCRLF(T, j, m)
    <3>1. PICK i \in 1..(m - k) : k + i = j
      <4>1. j - k \in 1..(m - k) /\ k + (j - k) = j
        BY <1>0
      <4> QED
        BY <4>1
    <3>2. ~EndsLF(T, k + i, m) /\ ~EndsCRLF(T, k + i, m)
      <4>1. \A l \in 1..(m - k) : ~EndsLF(T, k + l, m)
        BY <1>0, <1>5, <1>10
      <4>2. \A l \in 1..(m - k) : ~EndsCRLF(T, k + l, m)
        BY <1>0, <1>6, <1>10
      <4> QED
        BY <4>1, <4>2
    <3> QED
      BY <3>1, <3>2
  <2>3. Quiet(T, k, m)
    BY <2>2 DEF Quiet, EndsLF, EndsCRLF
  <2> QED
    BY <2>1, <2>3
<1> QED
  BY <1>8, <1>9, <1>10

-----------------------------------------------------------------------------
(* What the reader has read of the first m tokens; whether an event ended  *)
(* with the k-th; whether the tokens from there to m end a line.           *)
Upto(T, m) == Reference(SubSeq(T, 1, m))

Reset(T, k) == Upto(T, k).lines = <<>> /\ (k = 0 \/ T[k] = LF)

LineOver(T, k, m) == \/ m > k /\ T[m] = LF
                     \/ m > k + 1 /\ T[m] = CR /\ T[m - 1] = LF

(* From k to m the reader has heard of nothing that yields an event, and    *)
(* the lines it holds are the ones between.                                *)
Scan(u, T, k, m) ==
    /\ Yielded(u, Upto(T, m).raws) = Yielded(u, Upto(T, k).raws)
    /\ Alike(Upto(T, m).lines, SubSeq(T, k + 1, m))
    /\ Upto(T, m).empty => Upto(T, m).lines = <<>> \/ LineOver(T, k, m)
    /\ LineOver(T, k, m) => Upto(T, m).empty

LEMMA UptoOn ==
    ASSUME NEW T \in Raw, NEW m \in 0..Len(T)
    PROVE  /\ Upto(T, m) \in Sofar
           /\ m + 1 <= Len(T) => /\ T[m + 1] \in Token
                                 /\ Upto(T, m + 1) = ReadToken(Upto(T, m), T[m + 1])
<1>1. PICK k \in 0..m : k = 0
  BY DEF Raw
<1>2. PICK s \in Raw : s = SubSeq(T, k + 1, m)
  BY PartIs
<1>3. Upto(T, m) = Reference(s)
  BY <1>1, <1>2 DEF Upto
<1>4. CASE m + 1 <= Len(T)
  <2>1. SubSeq(T, k + 1, m + 1) = Append(SubSeq(T, k + 1, m), T[m + 1]) /\ T[m + 1] \in Token
    BY <1>4, PartOn
  <2>2. PICK t \in Token : t = T[m + 1]
    BY <2>1
  <2>3. Reference(s) \in Sofar /\ Reference(Append(s, t)) = ReadToken(Reference(s), t)
    BY ReferenceOn
  <2>4. Upto(T, m + 1) = Reference(Append(s, t))
    <3>1. k + 1 = 1
      BY <1>1
    <3>2. SubSeq(T, 1, m + 1) = Append(s, t)
      BY <1>2, <2>1, <2>2, <3>1
    <3> QED
      BY <3>2 DEF Upto
  <2> QED
    BY <1>3, <2>2, <2>3, <2>4
<1>5. Upto(T, m) \in Sofar
  <2>1. PICK t \in Token : t = LF
    BY DEF Token
  <2>2. Reference(s) \in Sofar /\ Reference(Append(s, t)) = ReadToken(Reference(s), t)
    BY ReferenceOn
  <2> QED
    BY <1>3, <2>2
<1> QED
  BY <1>4, <1>5

(* A second line end after one, where no event ends, is the one of an       *)
(* event without lines.                                                    *)
LEMMA NoBlank ==
    ASSUME NEW T \in Raw, OneLineEnd(T), NEW m \in 0..Len(T), NEW k \in 0..m,
           m + 1 <= Len(T), Quiet(T, k, m + 1), Reset(T, k), LineOver(T, k, m)
    PROVE  T[m + 1] # LF /\ (T[m + 1] = CR => m > k /\ T[m] = LF)
<1>0. Len(T) \in Nat /\ m \in Nat /\ k \in Nat /\ DOMAIN T = 1..Len(T) /\ LF # CR
  BY DEF Raw, LF, CR
<1>1. CASE m > k /\ T[m] = LF
  <2>1. m \in (k + 1)..(m + 1) /\ m + 1 <= m + 1
    BY <1>0, <1>1
  <2>2. ~(T[m] = LF /\ T[m + 1] = LF)
    BY <2>1 DEF Quiet
  <2> QED
    BY <1>1, <2>2
<1>2. CASE m > k + 1 /\ T[m] = CR /\ T[m - 1] = LF
  <2>1. m \in DOMAIN T /\ m - 1 \in DOMAIN T /\ m + 1 \in DOMAIN T
    BY <1>0, <1>2
  <2>2. \A i \in DOMAIN T : T[i] = LF <=> i > 1 /\ T[i - 1] = CR
    BY <1>2, <2>1 DEF OneLineEnd
  <2>3. m + 1 - 1 = m /\ m + 1 > 1 /\ m - 1 - 1 = m - 2
    BY <1>0, <1>2
  <2>4. T[m + 1] = LF
    BY <1>2, <2>1, <2>2, <2>3
  <2>5. m - 1 > 1 /\ T[m - 2] = CR
    BY <1>2, <2>1, <2>2, <2>3
  <2>6. CASE m - 2 = k
    <3>1. k # 0 /\ T[k] = CR
      BY <1>0, <2>5, <2>6
    <3> QED
      BY <1>0, <3>1 DEF Reset
  <2>7. CASE m - 2 # k
    <3>1. m - 2 \in (k + 1)..(m + 1) /\ m - 2 + 3 <= m + 1
      BY <1>0, <1>2, <2>7
    <3>2. m - 2 + 1 = m - 1 /\ m - 2 + 2 = m /\ m - 2 + 3 = m + 1
      BY <1>0
    <3>3. ~(T[m - 2] = CR /\ T[m - 2 + 1] = LF /\ T[m - 2 + 2] = CR /\ T[m - 2 + 3] = LF)
      BY <3>1 DEF Quiet
    <3> QED
      BY <1>2, <2>4, <2>5, <3>2, <3>3
  <2> QED
    BY <2>6, <2>7
<1> QED
  BY <1>1, <1>2 DEF LineOver

LEMMA ScanOn ==
    ASSUME NEW u, NEW T \in Raw, OneLineEnd(T), NEW m \in 0..Len(T), NEW k \in 0..m,
           m + 1 <= Len(T), Quiet(T, k, m + 1), Reset(T, k), Scan(u, T, k, m)
    PROVE  Scan(u, T, k, m + 1)
<1>0. m \in Nat /\ k \in Nat /\ m + 1 > k /\ m + 1 - 1 = m /\ (m + 1 > k + 1 <=> m > k)
  BY DEF Raw
<1>01. PICK r \in Sofar, t \in Token : /\ r = Upto(T, m) /\ t = T[m + 1]
                                       /\ Upto(T, m + 1) = ReadToken(r, t)
  BY UptoOn
<1>02. PICK q : q = Upto(T, m + 1)
  OBVIOUS
<1>1. r = Upto(T, m) /\ t = T[m + 1] /\ q = Upto(T, m + 1) /\ q = ReadToken(r, t)
  BY <1>01, <1>02
<1>2. r.raws \in Seq(Raw) /\ r.lines \in Raw /\ r.empty \in BOOLEAN
  BY DEF Sofar
<1>3. PICK b \in Raw : b = SubSeq(T, k + 1, m) /\ SubSeq(T, k + 1, m + 1) = Append(b, t)
  BY <1>1, PartIs, PartOn
<1>4. /\ Yielded(u, r.raws) = Yielded(u, Upto(T, k).raws)
      /\ Alike(r.lines, b)
      /\ r.empty => r.lines = <<>> \/ LineOver(T, k, m)
      /\ LineOver(T, k, m) => r.empty
  BY <1>1, <1>3 DEF Scan
<1>5. t.kind \notin {"data", "event"} => Alike(r.lines, Append(b, t))
  <2>1. r.lines \in Seq(Token) /\ b \in Seq(Token)
    BY <1>2 DEF Raw
  <2> QED
    BY <1>4, <2>1, AlikeOn
<1>6. LineOver(T, k, m + 1) <=> t = LF \/ (t = CR /\ m > k /\ T[m] = LF)
  BY <1>0, <1>1 DEF LineOver
<1>7. LineOver(T, k, m) => t # LF /\ (t = CR => m > k /\ T[m] = LF)
  BY <1>1, NoBlank
<1>8. (m > k /\ T[m] = LF) => LineOver(T, k, m)
  BY DEF LineOver
<1>9. CASE t = LF
  <2>1. t.kind = "LF"
    BY <1>9 DEF LF
  <2>2. CASE r.empty
    <3>1. r.lines = <<>>
      BY <1>4, <1>7, <1>9, <2>2
    <3>2. q = [raws |-> Append(r.raws, <<>>), lines |-> <<>>, empty |-> TRUE]
      BY <1>1, <2>1, <2>2, <3>1 DEF ReadToken
    <3>3. q.raws = Append(r.raws, <<>>) /\ q.lines = r.lines /\ q.empty
      BY <3>1, <3>2
    <3>4. Yielded(u, q.raws) = Yielded(u, r.raws)
      BY <1>2, <3>3, YieldedSilent
    <3> QED
      BY <1>1, <1>3, <1>4, <1>5, <1>6, <1>9, <2>1, <3>3, <3>4 DEF Scan
  <2>3. CASE ~r.empty
    <3>1. q = [r EXCEPT !.empty = TRUE]
      BY <1>1, <2>1, <2>3 DEF ReadToken
    <3>2. q.raws = r.raws /\ q.lines = r.lines /\ q.empty
      BY <3>1 DEF Sofar
    <3> QED
      BY <1>1, <1>3, <1>4, <1>5, <1>6, <1>9, <2>1, <3>2 DEF Scan
  <2> QED
    BY <1>2, <2>2, <2>3
<1>10. CASE t = CR
  <2>1. t.kind = "CR"
    BY <1>10 DEF CR
  <2>2. q = r
    BY <1>1, <2>1 DEF ReadToken
  <2>3. LF # CR
    BY DEF LF, CR
  <2>4. LineOver(T, k, m + 1) <=> LineOver(T, k, m)
    BY <1>6, <1>7, <1>8, <1>10, <2>3
  <2> QED
    BY <1>1, <1>3, <1>4, <1>5, <2>1, <2>2, <2>4 DEF Scan
<1>11. CASE t # LF /\ t # CR
  <2>1. t.kind \in {"data", "event", "comment"}
    BY <1>11, KindsAre
  <2>2. q = [r EXCEPT !.lines = Append(r.lines, t), !.empty = FALSE]
    BY <1>1, <2>1 DEF ReadToken
  <2>3. q.raws = r.raws /\ q.lines = Append(r.lines, t) /\ ~q.empty
    BY <2>2 DEF Sofar
  <2>4. Alike(Append(r.lines, t), Append(b, t))
    <3>1. r.lines \in Seq(Token) /\ b \in Seq(Token)
      BY <1>2 DEF Raw
    <3> QED
      BY <1>4, <3>1, AlikeOn
  <2> QED
    BY <1>1, <1>3, <1>4, <1>6, <1>11, <2>3, <2>4 DEF Scan
<1> QED
  BY <1>9, <1>10, <1>11

LEMMA ScanAll ==
    ASSUME NEW u, NEW T \in Raw, OneLineEnd(T), NEW m \in 0..Len(T), NEW k \in 0..m,
           Quiet(T, k, m), Reset(T, k)
    PROVE  Scan(u, T, k, m)
<1>0. Len(T) \in Nat /\ m \in Nat /\ k \in Nat
  BY DEF Raw
<1>1. PICK n \in Nat : n = m - k
  BY <1>0
<1> DEFINE S == {d \in 0..n : Scan(u, T, k, k + d)}
<1>2. Scan(u, T, k, k)
  <2>1. SubSeq(T, k + 1, k) = <<>>
    BY <1>0
  <2>2. ~LineOver(T, k, k)
    BY <1>0 DEF LineOver
  <2>3. Alike(<<>>, <<>>)
    BY DEF Alike
  <2> QED
    BY <2>1, <2>2, <2>3 DEF Scan, Reset
<1>3. 0 \in S
  <2>1. k + 0 = k
    BY <1>0
  <2> QED
    BY <1>1, <1>2, <2>1
<1>4. \A d \in 1..n : d - 1 \in S => d \in S
  <2> SUFFICES ASSUME NEW d \in 1..n, d - 1 \in S PROVE d \in S
    OBVIOUS
  <2>1. PICK l \in 0..Len(T) : l = k + (d - 1)
    BY <1>0, <1>1
  <2>2. k \in 0..l /\ l + 1 = k + d /\ l + 1 <= Len(T) /\ l + 1 <= m
    BY <1>0, <1>1, <2>1
  <2>3. Scan(u, T, k, l)
    BY <2>1
  <2>4. Quiet(T, k, l + 1)
    <3>1. ASSUME NEW j \in (k + 1)..(l + 1) PROVE j \in (k + 1)..m
      BY <1>0, <2>1, <2>2
    <3> QED
      BY <1>0, <2>1, <2>2, <3>1 DEF Quiet
  <2>5. Scan(u, T, k, l + 1)
    BY <2>2, <2>3, <2>4, ScanOn
  <2> QED
    BY <2>2, <2>5
<1>5. \A d \in 0..n : d \in S
  <2> HIDE DEF S
  <2> QED
    BY <1>1, <1>3, <1>4, Climbs
<1>6. n \in S /\ k + n = m
  BY <1>0, <1>1, <1>5
<1> QED
  BY <1>6

(* An event ends with the e-th token. *)
LEMMA EventOver ==
    ASSUME NEW u, NEW T \in Raw, OneLineEnd(T), NEW e \in 1..Len(T), NEW k \in 0..(e - 1),
           Quiet(T, k, e - 1), Reset(T, k), LineOver(T, k, e - 1), T[e] = LF
    PROVE  /\ Reset(T, e)
           /\ Yielded(u, Upto(T, e).raws)
                 = Yielded(u, Upto(T, k).raws) \o Yielded(u, <<SubSeq(T, k + 1, e - 1)>>)
<1>0. Len(T) \in Nat
  BY DEF Raw
<1>1. PICK m \in 0..Len(T) : m = e - 1 /\ m + 1 = e /\ k \in 0..m
  BY <1>0
<1>2. Scan(u, T, k, m)
  BY <1>1, ScanAll
<1>3. PICK r \in Sofar : r = Upto(T, m) /\ Upto(T, e) = ReadToken(r, T[e])
  <2>1. Upto(T, m) \in Sofar /\ Upto(T, m + 1) = ReadToken(Upto(T, m), T[m + 1])
    BY <1>1, UptoOn
  <2> QED
    BY <1>1, <2>1
<1>4. r.raws \in Seq(Raw) /\ r.lines \in Raw /\ r.empty
  BY <1>1, <1>2, <1>3 DEF Sofar, Scan
<1>5. PICK b \in Raw : b = SubSeq(T, k + 1, e - 1) /\ Alike(r.lines, b)
  BY <1>1, <1>2, <1>3, PartIs DEF Scan
<1>6. Upto(T, e) = [raws |-> Append(r.raws, r.lines), lines |-> <<>>, empty |-> TRUE]
  <2>1. T[e].kind = "LF"
    BY DEF LF
  <2> QED
    BY <1>3, <1>4, <2>1 DEF ReadToken
<1>7. Reset(T, e)
  BY <1>6 DEF Reset
<1>8. Yielded(u, Append(r.raws, r.lines)) = Yielded(u, r.raws) \o Yielded(u, <<r.lines>>)
  BY <1>4, YieldedOn
<1>9. Yielded(u, <<r.lines>>) = Yielded(u, <<b>>)
  BY <1>4, <1>5, YieldedSame
<1>10. Yielded(u, r.raws) = Yielded(u, Upto(T, k).raws)
  BY <1>2, <1>3 DEF Scan
<1>11. Upto(T, e).raws = Append(r.raws, r.lines)
  BY <1>6
<1> QED
  BY <1>5, <1>7, <1>8, <1>9, <1>10, <1>11

LEMMA PartOfPart ==
    ASSUME NEW T \in Raw, NEW m \in 0..Len(T), NEW k \in 0..m,
           NEW i \in 1..(m - k + 1), NEW j \in (i - 1)..(m - k)
    PROVE  SubSeq(SubSeq(T, k + 1, m), i, j) = SubSeq(T, k + i, k + j)
<1>0. Len(T) \in Nat /\ m \in Nat /\ k \in Nat /\ T \in Seq(Token)
  BY DEF Raw
<1>1. PICK b \in Seq(Token) : b = SubSeq(T, k + 1, m) /\ Len(b) = m - k
                              /\ \A l \in 1..(m - k) : b[l] = T[k + l]
  BY PartIs DEF Raw
<1>2. PICK n \in Nat : n = j - i + 1
  BY <1>0
<1>3. PICK c \in Seq(Token) : c = SubSeq(b, i, j) /\ Len(c) = n /\ \A l \in 1..n : c[l] = b[i + l - 1]
  <2>1. SubSeq(b, i, j) \in Seq(Token)
    BY <1>0, <1>1
  <2>2. Len(SubSeq(b, i, j)) = n
    BY <1>0, <1>1, <1>2
  <2>3. \A l \in 1..n : SubSeq(b, i, j)[l] = b[i + l - 1]
    BY <1>0, <1>1, <1>2
  <2> QED
    BY <2>1, <2>2, <2>3
<1>4. PICK d \in Seq(Token) : d = SubSeq(T, k + i, k + j) /\ Len(d) = n
                              /\ \A l \in 1..n : d[l] = T[k + i + l - 1]
  <2>1. SubSeq(T, k + i, k + j) \in Seq(Token)
    BY <1>0
  <2>2. Len(SubSeq(T, k + i, k + j)) = n
    BY <1>0, <1>2
  <2>3. \A l \in 1..n : SubSeq(T, k + i, k + j)[l] = T[k + i + l - 1]
    BY <1>0, <1>2
  <2> QED
    BY <2>1, <2>2, <2>3
<1>5. ASSUME NEW l \in 1..n PROVE c[l] = d[l]
  <2>1. i + l - 1 \in 1..(m - k) /\ k + (i + l - 1) = k + i + l - 1
    BY <1>0, <1>2
  <2> QED
    BY <1>1, <1>3, <1>4, <2>1
<1>6. c = d
  BY <1>3, <1>4, <1>5, SeqEqual
<1> QED
  BY <1>1, <1>3, <1>4, <1>6

-----------------------------------------------------------------------------
(* SSEDecoder.push has got as far as the k-th of m tokens: h was yielded    *)
(* before, and what it decoded since is what the reader read.              *)
Decoder == [raws: Seq(Raw), rest: Raw]

At(u, T, h, m, k, d) ==
    /\ d.rest = SubSeq(T, k + 1, m) /\ Reset(T, k)
    /\ Yielded(u, Upto(T, k).raws) = h \o Yielded(u, d.raws)

LEMMA TurnAlong ==
    ASSUME NEW u, NEW T \in Raw, OneLineEnd(T), NEW m \in 0..Len(T), NEW k \in 0..m,
           NEW h \in Seq(Heard(u)), NEW d \in Decoder, At(u, T, h, m, k, d), Boundary(d.rest) # 0
    PROVE  Turn(d) \in Decoder /\ \E e \in (k + 1)..m : At(u, T, h, m, e, Turn(d))
<1>0. Len(T) \in Nat /\ m \in Nat /\ k \in Nat /\ LF # CR
  BY DEF Raw, LF, CR
<1>1. d.raws \in Seq(Raw) /\ d.rest \in Raw
  BY DEF Decoder
<1>2. PICK b \in Raw, i \in 1..(m - k), p \in 1..Len(T) :
         /\ b = d.rest /\ b = SubSeq(T, k + 1, m) /\ i = Boundary(b) /\ p = k + i
         /\ \/ EndsLF(T, p, m) /\ Quiet(T, k, p) /\ b[i] = LF
            \/ EndsCRLF(T, p, m) /\ Quiet(T, k, p + 2) /\ b[i] = CR
  <2>1. PICK b \in Raw : b = d.rest /\ b = SubSeq(T, k + 1, m)
    BY <1>1 DEF At
  <2>2. /\ Boundary(b) \in 0..(m - k)
        /\ Boundary(b) # 0 =>
                 LET p == k + Boundary(b)
                 IN  \/ EndsLF(T, p, m) /\ Quiet(T, k, p) /\ b[Boundary(b)] = LF
                     \/ EndsCRLF(T, p, m) /\ Quiet(T, k, p + 2) /\ b[Boundary(b)] = CR
    BY <2>1, BoundaryIs
  <2>3. Boundary(b) \in 1..(m - k) /\ k + Boundary(b) \in 1..Len(T)
    BY <1>0, <2>1, <2>2
  <2> QED
    BY <2>1, <2>2, <2>3
<1>12. i \in Nat /\ p \in Nat /\ i >= 1 /\ p = k + i /\ p > k /\ p <= Len(T)
  <2>1. p = k + i
    BY <1>2
  <2> QED
    BY <1>0, <2>1
<1>3. PICK raw \in Raw : raw = SubSeq(b, 1, i - 1) /\ raw = SubSeq(T, k + 1, p - 1)
  <2>1. SubSeq(SubSeq(T, k + 1, m), 1, i - 1) = SubSeq(T, k + 1, k + (i - 1))
    <3>1. 1 \in 1..(m - k + 1) /\ i - 1 \in (1 - 1)..(m - k)
      BY <1>0
    <3> QED
      BY <3>1, PartOfPart
  <2>2. k + (i - 1) = p - 1 /\ p - 1 \in 0..Len(T) /\ k \in 0..(p - 1)
    BY <1>0, <1>12
  <2>3. SubSeq(T, k + 1, p - 1) \in Raw
    BY <2>2, PartIs
  <2> QED
    BY <1>2, <2>1, <2>2, <2>3
<1>4. PICK n \in {2, 4} : n = IF b[i] = CR THEN 4 ELSE 2
  OBVIOUS
<1>5. PICK e \in (k + 1)..m : /\ e = p + n - 1 /\ i + n = e - k + 1
                              /\ Quiet(T, k, e - 1) /\ LineOver(T, k, e - 1) /\ T[e] = LF
                              /\ Alike(SubSeq(T, k + 1, e - 1), raw)
  <2>1. raw \in Seq(Token) /\ LF \in Token /\ CR \in Token
    BY DEF Raw, Token
  <2>2. LF.kind \notin {"data", "event"} /\ CR.kind \notin {"data", "event"}
    BY DEF LF, CR
  <2>3. Alike(raw, raw)
    BY DEF Alike
  <2>4. CASE EndsLF(T, p, m) /\ Quiet(T, k, p) /\ b[i] = LF
    <3>1. p + 1 <= m /\ T[p] = LF /\ T[p + 1] = LF
      BY <2>4 DEF EndsLF
    <3>2. n = 2
      BY <1>0, <1>4, <2>4
    <3>3. p + 1 \in (k + 1)..m /\ p + 1 = p + n - 1 /\ i + n = p + 1 - k + 1 /\ p + 1 - 1 = p /\ p > k
      BY <1>0, <1>12, <3>1, <3>2
    <3>4. SubSeq(T, k + 1, p) = Append(raw, LF)
      <4>1. PICK q \in 0..Len(T) : q = p - 1 /\ q + 1 = p /\ k \in 0..q /\ q + 1 <= Len(T)
        BY <1>0, <1>12
      <4>2. SubSeq(T, k + 1, q + 1) = Append(SubSeq(T, k + 1, q), T[q + 1])
        BY <4>1, PartOn
      <4> QED
        BY <1>3, <3>1, <4>1, <4>2
    <3>5. Alike(raw, Append(raw, LF))
      BY <2>1, <2>2, <2>3, AlikeOn
    <3>6. Alike(SubSeq(T, k + 1, p), raw)
      BY <3>4, <3>5 DEF Alike
    <3>7. LineOver(T, k, p)
      BY <3>1, <3>3 DEF LineOver
    <3> QED
      BY <2>4, <3>1, <3>3, <3>6, <3>7
  <2>5. CASE EndsCRLF(T, p, m) /\ Quiet(T, k, p + 2) /\ b[i] = CR
    <3>1. p + 3 <= m /\ T[p] = CR /\ T[p + 1] = LF /\ T[p + 2] = CR /\ T[p + 3] = LF
      BY <2>5 DEF EndsCRLF
    <3>2. n = 4
      BY <1>4, <2>5
    <3>3. /\ p + 3 \in (k + 1)..m /\ p + 3 = p + n - 1 /\ i + n = p + 3 - k + 1 /\ p + 3 - 1 = p + 2
          /\ p + 2 > k + 1 /\ p + 2 - 1 = p + 1
      BY <1>0, <1>12, <3>1, <3>2
    <3>4. SubSeq(T, k + 1, p) = Append(raw, CR)
      <4>1. PICK q \in 0..Len(T) : q = p - 1 /\ q + 1 = p /\ k \in 0..q /\ q + 1 <= Len(T)
        BY <1>0, <1>12
      <4>2. SubSeq(T, k + 1, q + 1) = Append(SubSeq(T, k + 1, q), T[q + 1])
        BY <4>1, PartOn
      <4> QED
        BY <1>3, <3>1, <4>1, <4>2
    <3>5. SubSeq(T, k + 1, p + 1) = Append(Append(raw, CR), LF)
      <4>1. p \in 0..Len(T) /\ k \in 0..p /\ p + 1 <= Len(T)
        BY <1>0, <1>12, <3>1
      <4>2. SubSeq(T, k + 1, p + 1) = Append(SubSeq(T, k + 1, p), T[p + 1])
        BY <4>1, PartOn
      <4> QED
        BY <3>1, <3>4, <4>2
    <3>6. SubSeq(T, k + 1, p + 2) = Append(Append(Append(raw, CR), LF), CR)
      <4>1. PICK q \in 0..Len(T) : q = p + 1 /\ q + 1 = p + 2 /\ k \in 0..q /\ q + 1 <= Len(T)
        BY <1>0, <1>12, <3>1
      <4>2. SubSeq(T, k + 1, q + 1) = Append(SubSeq(T, k + 1, q), T[q + 1])
        BY <4>1, PartOn
      <4> QED
        BY <3>1, <3>5, <4>1, <4>2
    <3>7. PICK x \in Seq(Token) : x = Append(raw, CR) /\ Alike(raw, x)
      <4>1. Append(raw, CR) \in Seq(Token)
        BY <2>1
      <4>2. Alike(raw, Append(raw, CR))
        BY <2>1, <2>2, <2>3, AlikeOn
      <4> QED
        BY <4>1, <4>2
    <3>8. PICK y \in Seq(Token) : y = Append(x, LF) /\ Alike(raw, y)
      <4>1. Append(x, LF) \in Seq(Token)
        BY <2>1
      <4>2. Alike(raw, Append(x, LF))
        BY <2>1, <2>2, <3>7, AlikeOn
      <4> QED
        BY <4>1, <4>2
    <3>9. Alike(raw, Append(y, CR))
      BY <2>1, <2>2, <3>8, AlikeOn
    <3>10. Alike(SubSeq(T, k + 1, p + 2), raw)
      BY <3>6, <3>7, <3>8, <3>9 DEF Alike
    <3>11. LineOver(T, k, p + 2)
      BY <3>1, <3>3 DEF LineOver
    <3> QED
      BY <2>5, <3>1, <3>3, <3>10, <3>11
  <2> QED
    BY <1>2, <2>4, <2>5
<1>6. Turn(d) = [raws |-> Append(d.raws, raw), rest |-> SubSeq(b, i + n, Len(b))]
  BY <1>2, <1>3, <1>4 DEF Turn
<1>7. PICK rest \in Raw : rest = SubSeq(b, i + n, Len(b)) /\ rest = SubSeq(T, e + 1, m)
  <2>1. Len(b) = m - k
    BY <1>2, PartIs
  <2>2. i + n \in 1..(m - k + 1) /\ m - k \in (i + n - 1)..(m - k)
    BY <1>0, <1>5
  <2>3. SubSeq(SubSeq(T, k + 1, m), i + n, m - k) = SubSeq(T, k + (i + n), k + (m - k))
    BY <2>2, PartOfPart
  <2>4. k + (i + n) = e + 1 /\ k + (m - k) = m /\ e \in 0..m
    BY <1>0, <1>5
  <2>5. SubSeq(T, e + 1, m) \in Raw
    BY <2>4, PartIs
  <2> QED
    BY <1>2, <2>1, <2>3, <2>4, <2>5
<1>8. Turn(d) \in Decoder
  BY <1>1, <1>6, <1>7 DEF Decoder
<1>9. /\ Reset(T, e)
      /\ Yielded(u, Upto(T, e).raws)
                 = Yielded(u, Upto(T, k).raws) \o Yielded(u, <<SubSeq(T, k + 1, e - 1)>>)
  <2>1. e \in 1..Len(T) /\ k \in 0..(e - 1) /\ Reset(T, k)
    BY <1>0 DEF At
  <2> QED
    BY <1>5, <2>1, EventOver
<1>10. Yielded(u, <<SubSeq(T, k + 1, e - 1)>>) = Yielded(u, <<raw>>)
  <2>1. e - 1 \in 0..Len(T) /\ k \in 0..(e - 1)
    BY <1>0
  <2>2. SubSeq(T, k + 1, e - 1) \in Raw
    BY <2>1, PartIs
  <2> QED
    BY <1>5, <2>2, YieldedSame
<1>11. Yielded(u, Append(d.raws, raw)) = Yielded(u, d.raws) \o Yielded(u, <<raw>>)
  BY <1>1, YieldedOn
<1>13. Yielded(u, Upto(T, e).raws) = h \o Yielded(u, Append(d.raws, raw))
  <2>0. PICK S : S = Heard(u)
    OBVIOUS
  <2>1. PICK x \in Seq(S), y \in Seq(S), z \in Seq(S) :
           x = h /\ y = Yielded(u, d.raws) /\ z = Yielded(u, <<raw>>)
    <3>1. <<raw>> \in Seq(Raw)
      OBVIOUS
    <3>2. Yielded(u, d.raws) \in Seq(Heard(u)) /\ Yielded(u, <<raw>>) \in Seq(Heard(u))
      BY <1>1, <3>1, YieldedIs
    <3> QED
      BY <2>0, <3>2
  <2>2. Yielded(u, Upto(T, e).raws) = (x \o y) \o z
    BY <1>9, <1>10, <2>1 DEF At
  <2>3. Regroup(x, y, z)
    BY JoinedTwice
  <2> QED
    BY <1>11, <2>1, <2>2, <2>3 DEF Regroup
<1>14. At(u, T, h, m, e, Turn(d))
  <2>1. Turn(d).raws = Append(d.raws, raw) /\ Turn(d).rest = SubSeq(T, e + 1, m)
    <3>1. PICK x, y : x = Append(d.raws, raw) /\ y = SubSeq(T, e + 1, m)
      OBVIOUS
    <3>2. Turn(d) = [raws |-> x, rest |-> y]
      BY <1>6, <1>7, <3>1
    <3>3. Turn(d).raws = x /\ Turn(d).rest = y
      BY <3>2
    <3> QED
      BY <3>1, <3>3
  <2> QED
    BY <1>9, <1>13, <2>1 DEF At
<1> QED
  BY <1>8, <1>14

LEMMA BoundaryType == ASSUME NEW b \in Raw PROVE Boundary(b) \in 0..Len(b)
<1>1. BlankLF \in Raw /\ BlankCRLF \in Raw
  <2>1. LF \in Token /\ CR \in Token
    BY DEF Token
  <2> QED
    BY <2>1 DEF BlankLF, BlankCRLF, Raw
<1>2. Len(b) \in Nat
  BY DEF Raw
<1>3. IndexOf(b, BlankLF) = 0 \/ IndexOf(b, BlankLF) \in 1..Len(b)
  BY <1>1, IndexIs
<1>4. IndexOf(b, BlankCRLF) = 0 \/ IndexOf(b, BlankCRLF) \in 1..Len(b)
  BY <1>1, IndexIs
<1> QED
  BY <1>2, <1>3, <1>4 DEF Boundary

LEMMA TurnType == ASSUME NEW d \in Decoder PROVE Turn(d) \in Decoder
<1>1. d.raws \in Seq(Raw) /\ d.rest \in Raw
  BY DEF Decoder
<1>2. PICK b \in Raw : b = d.rest
  BY <1>1
<1>3. PICK i \in 0..Len(b) : i = Boundary(b)
  BY BoundaryType
<1>4. CASE i = 0
  BY <1>2, <1>3, <1>4 DEF Turn
<1>5. CASE i # 0
  <2>1. PICK n \in {2, 4} : n = IF b[i] = CR THEN 4 ELSE 2
    OBVIOUS
  <2>2. Len(b) \in Nat /\ b \in Seq(Token)
    BY DEF Raw
  <2>3. PICK raw \in Raw, rest \in Raw : raw = SubSeq(b, 1, i - 1) /\ rest = SubSeq(b, i + n, Len(b))
    <3>1. SubSeq(b, 1, i - 1) \in Seq(Token)
      BY <1>5, <2>2
    <3>2. SubSeq(b, i + n, Len(b)) \in Seq(Token)
      BY <1>5, <2>2
    <3> QED
      BY <3>1, <3>2 DEF Raw
  <2>4. Turn(d) = [raws |-> Append(d.raws, raw), rest |-> rest]
    BY <1>2, <1>3, <1>5, <2>1, <2>3 DEF Turn
  <2> QED
    BY <1>1, <2>4 DEF Decoder
<1> QED
  BY <1>4, <1>5

(* Decoded takes as many turns as there are tokens. *)
LEMMA DecodedTurns ==
    ASSUME NEW b \in Raw
    PROVE  \E f \in [0..Len(b) -> Decoder] : /\ f[0] = [raws |-> <<>>, rest |-> b]
                                             /\ \A i \in 1..Len(b) : f[i] = Turn(f[i - 1])
                                             /\ Decoded(b) = f[Len(b)]
<1> DEFINE Value(g, i) == IF i = 0 THEN [raws |-> <<>>, rest |-> b] ELSE Turn(g[i - 1])
           Fold(g) == g = [i \in 0..Len(b) |-> Value(g, i)]
<1>1. PICK n, a, A, step : /\ n = Len(b) /\ a = [raws |-> <<>>, rest |-> b] /\ A = Decoder
                           /\ step = [i \in 1..n |-> [d \in A |-> Turn(d)]]
  OBVIOUS
<1>2. n \in Nat /\ a \in A /\ step \in [1..n -> [A -> A]]
  <2>1. Len(b) \in Nat
    BY DEF Raw
  <2>2. a \in A
    BY <1>1 DEF Decoder
  <2> QED
    BY <1>1, <2>1, <2>2, TurnType
<1>3. PICK f \in [0..n -> A] : f[0] = a /\ \A i \in 1..n : f[i] = step[i][f[i - 1]]
  BY <1>2, FoldsExist
<1>4. \A i \in 1..n : f[i] = Turn(f[i - 1])
  <2> SUFFICES ASSUME NEW i \in 1..n PROVE f[i] = Turn(f[i - 1])
    OBVIOUS
  <2>1. f[i - 1] \in A
    BY <1>2, <1>3
  <2>2. step[i] = [d \in A |-> Turn(d)]
    BY <1>1
  <2> QED
    BY <1>3, <2>1, <2>2
<1>5. Fold(f)
  <2>1. \A i \in 0..n : f[i] = Value(f, i)
    <3> SUFFICES ASSUME NEW i \in 0..n PROVE f[i] = Value(f, i)
      OBVIOUS
    <3>1. CASE i = 0
      BY <1>1, <1>3, <3>1
    <3>2. CASE i # 0
      <4>1. i \in 1..n
        BY <1>2, <3>2
      <4> QED
        BY <1>4, <3>2, <4>1
    <3> QED
      BY <3>1, <3>2
  <2> QED
    BY <1>1, <1>3, <2>1
<1>6. PICK g : g = CHOOSE h : Fold(h)
  OBVIOUS
<1>7. Decoded(b) = g[n]
  BY <1>1, <1>6 DEF Decoded
<1>8. Fold(g)
  BY <1>5, <1>6
<1> DEFINE S == {i \in 0..n : g[i] = f[i]}
<1>9. 0 \in S
  BY <1>1, <1>2, <1>3, <1>8
<1>10. \A i \in 1..n : i - 1 \in S => i \in S
  <2> SUFFICES ASSUME NEW i \in 1..n, i - 1 \in S PROVE i \in S
    OBVIOUS
  <2>1. i \in 0..n /\ i # 0
    BY <1>2
  <2>2. g[i] = Turn(g[i - 1])
    BY <1>1, <1>8, <2>1
  <2> QED
    BY <1>4, <2>1, <2>2
<1>11. \A i \in 0..n : i \in S
  <2> HIDE DEF S
  <2> QED
    BY <1>2, <1>9, <1>10, Climbs
<1>12. Decoded(b) = f[n]
  BY <1>2, <1>7, <1>11
<1> QED
  BY <1>1, <1>3, <1>4, <1>12

LEMMA DecodedType == ASSUME NEW b \in Raw PROVE Decoded(b) \in Decoder
<1>1. PICK n \in Nat : n = Len(b)
  BY DEF Raw
<1>2. PICK f \in [0..n -> Decoder] : Decoded(b) = f[n]
  <2>1. \E f \in [0..Len(b) -> Decoder] : /\ f[0] = [raws |-> <<>>, rest |-> b]
                                          /\ \A i \in 1..Len(b) : f[i] = Turn(f[i - 1])
                                          /\ Decoded(b) = f[Len(b)]
    BY DecodedTurns
  <2> QED
    BY <1>1, <2>1
<1> QED
  BY <1>1, <1>2

LEMMA DecodedAlong ==
    ASSUME NEW u, NEW T \in Raw, OneLineEnd(T), NEW m \in 0..Len(T), NEW k \in 0..m,
           NEW h \in Seq(Heard(u)), NEW b \in Raw, At(u, T, h, m, k, [raws |-> <<>>, rest |-> b])
    PROVE  /\ Decoded(b) \in Decoder
           /\ \E e \in k..m : At(u, T, h, m, e, Decoded(b)) /\ Quiet(T, e, m)
<1>0. Len(T) \in Nat /\ m \in Nat /\ k \in Nat
  BY DEF Raw
<1>1. b = SubSeq(T, k + 1, m)
  BY DEF At
<1>2. PICK n \in Nat : n = Len(b) /\ n = m - k
  BY <1>0, <1>1, PartIs
<1>3. PICK f \in [0..n -> Decoder] : /\ f[0] = [raws |-> <<>>, rest |-> b]
                                     /\ \A i \in 1..n : f[i] = Turn(f[i - 1])
                                     /\ Decoded(b) = f[n]
  <2>1. \E f \in [0..Len(b) -> Decoder] : /\ f[0] = [raws |-> <<>>, rest |-> b]
                                          /\ \A i \in 1..Len(b) : f[i] = Turn(f[i - 1])
                                          /\ Decoded(b) = f[Len(b)]
    BY DecodedTurns
  <2> QED
    BY <1>2, <2>1
(* Every turn gets at least one token further, or finds no event. *)
<1> DEFINE S == {i \in 0..n : \E e \in k..m : /\ At(u, T, h, m, e, f[i])
                                              /\ e - k >= i \/ Boundary(f[i].rest) = 0}
<1>4. 0 \in S
  <2>1. k \in k..m /\ k - k >= 0
    BY <1>0
  <2> QED
    BY <1>2, <1>3, <2>1
<1>5. \A i \in 1..n : i - 1 \in S => i \in S
  <2> SUFFICES ASSUME NEW i \in 1..n, i - 1 \in S PROVE i \in S
    OBVIOUS
  <2>1. PICK e \in k..m : /\ At(u, T, h, m, e, f[i - 1])
                          /\ e - k >= i - 1 \/ Boundary(f[i - 1].rest) = 0
    OBVIOUS
  <2>2. PICK d \in Decoder : d = f[i - 1] /\ f[i] = Turn(d)
    <3>1. i - 1 \in 0..n
      BY <1>2
    <3> QED
      BY <1>3, <3>1
  <2>3. CASE Boundary(d.rest) = 0
    <3>1. f[i] = d
      BY <2>2, <2>3 DEF Turn
    <3> QED
      BY <2>1, <2>2, <2>3, <3>1
  <2>4. CASE Boundary(d.rest) # 0
    <3>1. e \in 0..m /\ At(u, T, h, m, e, d)
      BY <1>0, <2>1, <2>2
    <3>2. \E l \in (e + 1)..m : At(u, T, h, m, l, Turn(d))
      BY <2>4, <3>1, TurnAlong
    <3>3. PICK l \in (e + 1)..m : At(u, T, h, m, l, f[i])
      BY <2>2, <3>2
    <3>4. l \in k..m /\ l - k >= i
      BY <1>0, <2>1, <2>2, <2>4, <3>3
    <3> QED
      BY <3>3, <3>4
  <2> QED
    BY <2>3, <2>4
<1>6. \A i \in 0..n : i \in S
  <2> HIDE DEF S
  <2> QED
    BY <1>4, <1>5, Climbs
<1>7. PICK e \in k..m : /\ At(u, T, h, m, e, f[n])
                        /\ e - k >= n \/ Boundary(f[n].rest) = 0
  BY <1>6
<1>8. Quiet(T, e, m)
  <2>1. e \in 0..m
    BY <1>0
  <2>2. PICK r : r = f[n].rest /\ r = SubSeq(T, e + 1, m)
    BY <1>7 DEF At
  <2>3. Boundary(r) \in 0..(m - e) /\ (Boundary(r) = 0 => Quiet(T, e, m))
    BY <2>1, <2>2, BoundaryIs
  <2>4. e - k >= n => m - e = 0
    BY <1>0, <1>2
  <2>5. Boundary(r) = 0
    BY <1>7, <2>2, <2>3, <2>4
  <2> QED
    BY <2>3, <2>5
<1> QED
  BY <1>3, <1>7, <1>8

(* Between two chunks the buffer is the text since the last event, which   *)
(* holds no end of another one, and what was heard is what the events      *)
(* before it yield.                                                        *)
Held(u, T, m, b, h) ==
    \E k \in 0..m : /\ b = SubSeq(T, k + 1, m) /\ Reset(T, k) /\ Quiet(T, k, m)
                    /\ h = Yielded(u, Upto(T, k).raws)

LEMMA HeldType ==
    ASSUME NEW u, NEW T \in Raw, NEW m \in 0..Len(T), NEW b, NEW h, Held(u, T, m, b, h)
    PROVE  b \in Raw /\ h \in Seq(Heard(u))
<1>0. Len(T) \in Nat /\ m \in Nat
  BY DEF Raw
<1>1. PICK k \in 0..m : b = SubSeq(T, k + 1, m) /\ h = Yielded(u, Upto(T, k).raws)
  BY DEF Held
<1>2. b \in Raw
  BY <1>1, PartIs
<1>3. PICK raws \in Seq(Raw) : raws = Upto(T, k).raws
  <2>1. k \in 0..Len(T)
    BY <1>0
  <2>2. Upto(T, k) \in Sofar
    BY <2>1, UptoOn
  <2> QED
    BY <2>2 DEF Sofar
<1>4. Yielded(u, raws) \in Seq(Heard(u))
  BY YieldedIs
<1> QED
  BY <1>1, <1>2, <1>3, <1>4

(* What was heard does not tell where the chunks ended. *)
LEMMA HeldIs ==
    ASSUME NEW u, NEW T \in Raw, OneLineEnd(T), NEW m \in 0..Len(T), NEW b, NEW h,
           Held(u, T, m, b, h)
    PROVE  /\ h = Yielded(u, Upto(T, m).raws)
           /\ Alike(Upto(T, m).lines, b)
<1>1. PICK k \in 0..m : /\ b = SubSeq(T, k + 1, m) /\ Reset(T, k) /\ Quiet(T, k, m)
                        /\ h = Yielded(u, Upto(T, k).raws)
  BY DEF Held
<1>2. Scan(u, T, k, m)
  BY <1>1, ScanAll
<1> QED
  BY <1>1, <1>2 DEF Scan

LEMMA HeldOpens ==
    ASSUME NEW u, NEW T \in Raw
    PROVE  Held(u, T, 0, <<>>, <<>>)
<1>1. PICK k \in 0..0 : k = 0
  OBVIOUS
<1>2. <<>> = SubSeq(T, k + 1, 0)
  <2>1. T \in Seq(Token) /\ 0 \in 0..Len(T)
    BY DEF Raw
  <2>2. SubSeq(T, k + 1, 0) \in Raw /\ Len(SubSeq(T, k + 1, 0)) = 0 - k
    BY <2>1, PartIs
  <2>3. PICK s \in Raw : s = SubSeq(T, k + 1, 0) /\ Len(s) = 0
    <3>1. PICK s : s = SubSeq(T, k + 1, 0)
      OBVIOUS
    <3>2. s \in Raw /\ Len(s) = 0
      BY <1>1, <2>2, <3>1
    <3> QED
      BY <3>1, <3>2
  <2>4. s = <<>>
    BY <2>3 DEF Raw
  <2> QED
    BY <2>3, <2>4
<1>3. Upto(T, k) = AtStart
  <2>1. SubSeq(T, 1, k) = <<>>
    <3>1. k + 1 = 1 /\ k = 0
      BY <1>1
    <3> QED
      BY <1>2, <3>1
  <2> QED
    BY <2>1, ReferenceNone DEF Upto
<1>4. Reset(T, k)
  BY <1>1, <1>3 DEF Reset, AtStart
<1>5. Quiet(T, k, 0)
  BY <1>1 DEF Quiet
<1>6. <<>> = Yielded(u, Upto(T, k).raws)
  <2>1. Upto(T, k).raws = <<>>
    BY <1>3 DEF AtStart
  <2> QED
    BY <2>1, YieldedNone
<1> QED
  BY <1>2, <1>4, <1>5, <1>6 DEF Held

LEMMA PartsJoined ==
    ASSUME NEW T \in Raw, NEW m \in 0..Len(T), NEW k \in 0..m, NEW l \in m..Len(T)
    PROVE  SubSeq(T, k + 1, m) \o SubSeq(T, m + 1, l) = SubSeq(T, k + 1, l)
<1>0. Len(T) \in Nat /\ m \in Nat /\ k \in Nat /\ l \in Nat /\ l \in 0..Len(T) /\ m \in 0..l /\ k \in 0..l
  BY DEF Raw
<1>1. PICK x \in Seq(Token) : /\ x = SubSeq(T, k + 1, m) /\ Len(x) = m - k
                              /\ \A j \in 1..(m - k) : x[j] = T[k + j]
  BY PartIs DEF Raw
<1>2. PICK y \in Seq(Token) : /\ y = SubSeq(T, m + 1, l) /\ Len(y) = l - m
                              /\ \A j \in 1..(l - m) : y[j] = T[m + j]
  BY <1>0, PartIs DEF Raw
<1>3. PICK z \in Seq(Token) : /\ z = SubSeq(T, k + 1, l) /\ Len(z) = l - k
                              /\ \A j \in 1..(l - k) : z[j] = T[k + j]
  BY <1>0, PartIs DEF Raw
<1>4. PICK w \in Seq(Token) : /\ w = x \o y /\ Len(w) = l - k
                              /\ \A j \in 1..(l - k) : w[j] = IF j <= m - k THEN x[j] ELSE y[j - (m - k)]
  <2>1. /\ x \o y \in Seq(Token) /\ Len(x \o y) = Len(x) + Len(y)
        /\ \A j \in 1..(Len(x) + Len(y)) : (x \o y)[j] = IF j <= Len(x) THEN x[j] ELSE y[j - Len(x)]
    BY ConcatProperties
  <2>2. Len(x) + Len(y) = l - k
    BY <1>0, <1>1, <1>2
  <2>3. PICK w : w = x \o y
    OBVIOUS
  <2>4. /\ w \in Seq(Token) /\ Len(w) = l - k
        /\ \A j \in 1..(l - k) : w[j] = IF j <= Len(x) THEN x[j] ELSE y[j - Len(x)]
    BY <2>1, <2>2, <2>3
  <2>5. Len(x) = m - k
    BY <1>1
  <2>6. \A j \in 1..(l - k) : w[j] = IF j <= m - k THEN x[j] ELSE y[j - (m - k)]
    BY <2>4, <2>5
  <2> QED
    BY <2>3, <2>4, <2>6
<1>5. \A j \in 1..(l - k) : w[j] = z[j]
  <2> SUFFICES ASSUME NEW j \in 1..(l - k) PROVE w[j] = z[j]
    OBVIOUS
  <2>1. z[j] = T[k + j]
    BY <1>3
  <2>2. CASE j <= m - k
    <3>1. j \in 1..(m - k)
      BY <1>0, <2>2
    <3> QED
      BY <1>1, <1>4, <2>1, <2>2, <3>1
  <2>3. CASE ~ (j <= m - k)
    <3>1. j - (m - k) \in 1..(l - m) /\ m + (j - (m - k)) = k + j
      BY <1>0, <2>3
    <3> QED
      BY <1>2, <1>4, <2>1, <2>3, <3>1
  <2> QED
    BY <2>2, <2>3
<1>6. w = z
  BY <1>3, <1>4, <1>5, SeqEqual
<1> QED
  BY <1>1, <1>2, <1>3, <1>4, <1>6

(* A chunk keeps it so. *)
LEMMA HeldOn ==
    ASSUME NEW u, NEW T \in Raw, OneLineEnd(T), NEW m \in 0..Len(T), NEW l \in m..Len(T),
           NEW b, NEW h, Held(u, T, m, b, h), NEW d, d = Decoded(b \o SubSeq(T, m + 1, l))
    PROVE  Held(u, T, l, d.rest, h \o Yielded(u, d.raws))
<1>0. Len(T) \in Nat /\ m \in Nat /\ l \in Nat /\ l \in 0..Len(T)
  BY DEF Raw
<1>1. PICK k \in 0..m : /\ b = SubSeq(T, k + 1, m) /\ Reset(T, k) /\ Quiet(T, k, m)
                        /\ h = Yielded(u, Upto(T, k).raws)
  BY DEF Held
<1>2. b \in Raw /\ h \in Seq(Heard(u))
  BY HeldType
<1>3. k \in 0..l /\ k \in Nat
  BY <1>0
<1>4. PICK c \in Raw : c = b \o SubSeq(T, m + 1, l) /\ c = SubSeq(T, k + 1, l)
  <2>1. SubSeq(T, k + 1, m) \o SubSeq(T, m + 1, l) = SubSeq(T, k + 1, l)
    BY PartsJoined
  <2>2. SubSeq(T, k + 1, l) \in Raw
    BY <1>0, <1>3, PartIs
  <2> QED
    BY <1>1, <2>1, <2>2
<1>5. At(u, T, h, l, k, [raws |-> <<>>, rest |-> c])
  <2>1. PICK s : s = [raws |-> <<>>, rest |-> c]
    OBVIOUS
  <2>2. s.raws = <<>> /\ s.rest = c
    BY <2>1
  <2>3. Yielded(u, Upto(T, k).raws) = h \o Yielded(u, s.raws)
    <3>1. Yielded(u, s.raws) = <<>>
      BY <2>2, YieldedNone
    <3>2. PICK S : S = Heard(u)
      OBVIOUS
    <3>3. h \in Seq(S)
      BY <1>2, <3>2
    <3>4. h \o <<>> = h
      BY <3>3, ConcatEmptySeq
    <3> QED
      BY <1>1, <3>1, <3>4
  <2>4. At(u, T, h, l, k, s)
    BY <1>1, <1>4, <2>2, <2>3 DEF At
  <2> QED
    BY <2>1, <2>4
<1>6. /\ Decoded(c) \in Decoder
      /\ \E e \in k..l : At(u, T, h, l, e, Decoded(c)) /\ Quiet(T, e, l)
  BY <1>0, <1>2, <1>3, <1>5, DecodedAlong
<1>7. d = Decoded(c)
  BY <1>4
<1>8. PICK e \in k..l : At(u, T, h, l, e, d) /\ Quiet(T, e, l)
  BY <1>6, <1>7
<1>9. e \in 0..l
  BY <1>0, <1>3
<1> QED
  BY <1>8, <1>9 DEF Held, At

(* At the end the buffer is as good as the lines of the last event. *)
LEMMA HeldEnds ==
    ASSUME NEW u, NEW T \in Raw, OneLineEnd(T), NEW m \in 0..Len(T), NEW b, NEW h,
           Held(u, T, m, b, h)
    PROVE  h \o Yielded(u, <<b>>) = Yielded(u, Append(Upto(T, m).raws, Upto(T, m).lines))
<1>1. b \in Raw
  BY HeldType
<1>2. h = Yielded(u, Upto(T, m).raws) /\ Alike(Upto(T, m).lines, b)
  BY HeldIs
<1>3. PICK raws \in Seq(Raw), lines \in Raw : raws = Upto(T, m).raws /\ lines = Upto(T, m).lines
  <2>1. Upto(T, m) \in Sofar
    BY UptoOn
  <2> QED
    BY <2>1 DEF Sofar
<1>4. Yielded(u, Append(raws, lines)) = Yielded(u, raws) \o Yielded(u, <<lines>>)
  BY YieldedOn
<1>5. Alike(lines, b)
  BY <1>2, <1>3
<1>6. Yielded(u, <<lines>>) = Yielded(u, <<b>>)
  BY <1>1, <1>5, YieldedSame
<1> QED
  BY <1>2, <1>3, <1>4, <1>6

(***************************************************************************)
(* The invariant.  That ChunkingIsInvisible holds does not tell what the   *)
(* next chunk yields: this depends on what the buffer holds, and that no   *)
(* event ends in it.                                                       *)
(***************************************************************************)
StreamInv ==
    /\ stream = <<>> => read = 0 /\ buffer = <<>> /\ heard = <<>> /\ closed = "open"
    /\ stream # <<>> => /\ stream[1] \in Streams
                        /\ read \in 0..Len(stream[1].tokens)
    /\ Reading => Held(stream[1].upstream, stream[1].tokens, read, buffer, heard)
    /\ ChunkingIsInvisible

LEMMA StreamsAre ==
    ASSUME NEW s \in Streams
    PROVE  s.tokens \in Raw /\ OneLineEnd(s.tokens) /\ Len(s.tokens) \in Nat
BY StreamsConfig DEF Stream, Raw

LEMMA StreamInvInit == Init => StreamInv
BY DEF Init, StreamInit, StreamInv, Reading, ChunkingIsInvisible

LEMMA StreamInvOpens == ASSUME StreamInv, StreamOpens PROVE StreamInv'
<1>1. PICK s \in Streams : stream' = <<s>>
  BY DEF StreamOpens
<1>2. /\ read = 0 /\ buffer = <<>> /\ heard = <<>> /\ closed = "open"
      /\ read' = read /\ buffer' = buffer /\ heard' = heard /\ closed' = closed
  BY DEF StreamOpens, StreamInv
<1>3. PICK u, T : u = s.upstream /\ T = s.tokens
  OBVIOUS
<1>4. T \in Raw /\ OneLineEnd(T) /\ 0 \in 0..Len(T)
  BY <1>3, StreamsAre
<1>5. Held(u, T, 0, <<>>, <<>>)
  BY <1>4, HeldOpens
<1>6. <<>> = Yielded(u, Upto(T, 0).raws)
  BY <1>4, <1>5, HeldIs
<1>7. stream' # <<>> /\ stream'[1] = s
  BY <1>1
<1>8. Reading' => Held(stream[1].upstream, stream[1].tokens, read, buffer, heard)'
  BY <1>2, <1>3, <1>5, <1>7
<1>9. ChunkingIsInvisible'
  BY <1>2, <1>3, <1>6, <1>7 DEF ChunkingIsInvisible, Upto
<1> QED
  BY <1>2, <1>3, <1>4, <1>7, <1>8, <1>9 DEF StreamInv

LEMMA StreamInvChunk ==
    ASSUME StreamInv, NEW n \in 1..ChunkLength, ChunkArrives(n)
    PROVE  StreamInv'
<1>1. /\ stream # <<>> /\ closed = "open" /\ stream' = stream /\ closed' = closed
      /\ read + n <= Len(stream[1].tokens) /\ read' = read + n
  BY DEF ChunkArrives, Reading
<1>2. PICK s \in Streams : s = stream[1] /\ s = stream'[1]
  BY <1>1 DEF StreamInv
<1>3. PICK u, T : u = s.upstream /\ T = s.tokens
  OBVIOUS
<1>4. T \in Raw /\ OneLineEnd(T) /\ Len(T) \in Nat
  BY <1>3, StreamsAre
<1>51. PICK m \in 0..Len(T) : m = read
  BY <1>1, <1>2, <1>3 DEF StreamInv
<1>52. PICK l \in m..Len(T) : l = read + n
  <2>1. read + n <= Len(T) /\ n \in Nat
    BY <1>1, <1>2, <1>3, StreamsConfig
  <2>2. m + n \in m..Len(T)
    BY <1>4, <1>51, <2>1
  <2> QED
    BY <1>51, <2>2
<1>5. m = read /\ l = read + n
  BY <1>51, <1>52
<1>6. PICK b, h : b = buffer /\ h = heard
  OBVIOUS
<1>7. Held(u, T, m, b, h)
  BY <1>1, <1>2, <1>3, <1>5, <1>6 DEF StreamInv, Reading
<1>8. PICK d : d = Decoded(b \o SubSeq(T, m + 1, l))
  OBVIOUS
<1>9. buffer' = d.rest /\ heard' = h \o Yielded(u, d.raws)
  BY <1>2, <1>3, <1>5, <1>6, <1>8 DEF ChunkArrives, Appended
<1>10. Held(u, T, l, d.rest, h \o Yielded(u, d.raws))
  BY <1>4, <1>7, <1>8, HeldOn
<1>11. l \in 0..Len(T)
  BY <1>4
<1>12. h \o Yielded(u, d.raws) = Yielded(u, Upto(T, l).raws)
  BY <1>4, <1>10, <1>11, HeldIs
<1>13. read' = l
  BY <1>1, <1>5
<1>14. Reading' => Held(stream[1].upstream, stream[1].tokens, read, buffer, heard)'
  BY <1>2, <1>3, <1>9, <1>10, <1>13
<1>15. ChunkingIsInvisible'
  BY <1>1, <1>2, <1>3, <1>9, <1>12, <1>13 DEF ChunkingIsInvisible, Upto
<1> QED
  BY <1>1, <1>2, <1>3, <1>11, <1>13, <1>14, <1>15 DEF StreamInv

LEMMA StreamInvEnds == ASSUME StreamInv, StreamEnds PROVE StreamInv'
<1>1. /\ stream # <<>> /\ closed = "open" /\ stream' = stream /\ closed' = "ended"
      /\ read' = read
  BY DEF StreamEnds, Reading
<1>2. PICK s \in Streams : s = stream[1] /\ s = stream'[1]
  BY <1>1 DEF StreamInv
<1>3. PICK u, T : u = s.upstream /\ T = s.tokens
  OBVIOUS
<1>4. T \in Raw /\ OneLineEnd(T)
  BY <1>3, StreamsAre
<1>5. PICK m \in 0..Len(T) : m = read /\ m = read'
  BY <1>1, <1>2, <1>3 DEF StreamInv
<1>6. PICK b, h : b = buffer /\ h = heard
  OBVIOUS
<1>7. Held(u, T, m, b, h)
  BY <1>1, <1>2, <1>3, <1>5, <1>6 DEF StreamInv, Reading
<1>8. heard' = h \o Yielded(u, <<b>>)
  BY <1>2, <1>3, <1>6 DEF StreamEnds
<1>9. h \o Yielded(u, <<b>>) = Yielded(u, Append(Upto(T, m).raws, Upto(T, m).lines))
  BY <1>4, <1>7, HeldEnds
<1>10. ChunkingIsInvisible'
  BY <1>1, <1>2, <1>3, <1>5, <1>8, <1>9 DEF ChunkingIsInvisible, Upto
<1> QED
  BY <1>1, <1>2, <1>3, <1>5, <1>10 DEF StreamInv, Reading

LEMMA StreamInvBreaks == ASSUME StreamInv, StreamBreaks PROVE StreamInv'
<1>1. /\ stream # <<>> /\ closed = "open" /\ closed' = "broken"
      /\ stream' = stream /\ read' = read /\ heard' = heard
  BY DEF StreamBreaks, Reading
<1> QED
  BY <1>1 DEF StreamInv, Reading, ChunkingIsInvisible

LEMMA StreamInvStays == ASSUME StreamInv, UNCHANGED streamVars PROVE StreamInv'
BY DEF StreamInv, streamVars, Reading, ChunkingIsInvisible

LEMMA StreamInvStep == ASSUME StreamInv, [Next]_vars PROVE StreamInv'
<1>1. CASE StreamOpens
  BY <1>1, StreamInvOpens
<1>2. CASE \E n \in 1..ChunkLength : ChunkArrives(n)
  BY <1>2, StreamInvChunk
<1>3. CASE StreamEnds
  BY <1>3, StreamInvEnds
<1>4. CASE StreamBreaks
  BY <1>4, StreamInvBreaks
<1>5. CASE ExchangeNext \/ UNCHANGED vars
  <2>1. UNCHANGED streamVars
    BY <1>5 DEF ExchangeNext, Refuse, AnswerFromCache, Accept, Arrives, Send, CallFails,
                CallSucceeds, vars
  <2> QED
    BY <2>1, StreamInvStays
<1> QED
  BY <1>1, <1>2, <1>3, <1>4, <1>5 DEF Next, StreamNext

(* Where the chunks of an upstream's stream end makes no difference to what *)
(* stream() yields, and at the end the event that was not finished is      *)
(* yielded too (SSEDecoder.push and end): for every text, whatever lines   *)
(* it has, that ends its lines in one way, and for all chunks.             *)
THEOREM ChunkingInvisible == Spec => []ChunkingIsInvisible
<1>1. StreamInv /\ [Next]_vars => StreamInv'
  BY StreamInvStep
<1>2. StreamInv => ChunkingIsInvisible
  BY DEF StreamInv
<1> QED
  BY StreamInvInit, <1>1, <1>2, PTL DEF Spec
-----------------------------------------------------------------------------
(* What parts say: their texts, joined. *)
Said(parts) == Joined(Texts(parts))

Spoken(S, A) == Strings(A) /\ \A p \in S : p.text \in A

TextIn(S) == {p \in S : IsText(p)}
TextOf(S) == [p \in S |-> p.text]
SaidBy(S) == [parts \in Seq(S) |-> Said(parts)]
SaidPart(p) == IF IsText(p) THEN p.text ELSE <<>>
SaidOne(S) == [p \in S |-> SaidPart(p)]

LEMMA TextsAre == ASSUME NEW S, NEW s \in Seq(S) PROVE Texts(s) = Only(s, TextIn(S))
<1>1. \A i \in DOMAIN s : s[i] \in S
  OBVIOUS
<1>2. {i \in DOMAIN s : IsText(s[i])} = {i \in DOMAIN s : s[i] \in TextIn(S)}
  BY <1>1 DEF TextIn
<1> QED
  BY <1>2 DEF Texts, Filter, Only

LEMMA JoinedIs ==
    ASSUME NEW S, NEW s \in Seq(S) PROVE Joined(s) = FlattenSeq(Through(TextOf(S), s))
<1>1. \A i \in DOMAIN s : s[i] \in S
  OBVIOUS
<1>2. Mapped(LAMBDA c : c.text, s) = Through(TextOf(S), s)
  BY <1>1 DEF Mapped, Through, TextOf
<1> QED
  BY <1>2 DEF Joined

LEMMA NothingSaid == Said(<<>>) = <<>>
<1>1. Texts(<<>>) = <<>>
  <2>1. Texts(<<>>) = Only(<<>>, TextIn({}))
    <3>1. <<>> \in Seq({})
      BY EmptySeq
    <3> QED
      BY <3>1, TextsAre
  <2> QED
    BY <2>1, OnlyNone
<1>2. Mapped(LAMBDA c : c.text, <<>>) = <<>>
  BY DEF Mapped
<1> QED
  BY <1>1, <1>2 DEF Said, Joined, FlattenSeq

LEMMA SaidJoins ==
    ASSUME NEW S, NEW A, Spoken(S, A) PROVE Joins(S, A, SaidBy(S), SaidOne(S))
<1>1. PICK f, T, H, K, k : /\ f = TextOf(S) /\ T = TextIn(S) /\ H = AllOf(f, S)
                           /\ K = AmongBy(S, H, T) /\ k = AmongOne(S, f, T)
  OBVIOUS
<1>2. Maps(f, S, A) /\ Strings(A)
  BY <1>1 DEF Maps, TextOf, Spoken
<1>3. Joins(S, A, H, f)
  BY <1>1, <1>2, AllJoins
<1>4. Joins(S, A, K, k)
  BY <1>1, <1>3, AmongJoins
<1>5. ASSUME NEW s \in Seq(S) PROVE K[s] = Said(s)
  <2>1. PICK q \in Seq(S) : q = Only(s, T)
    BY OnlySub
  <2>2. Texts(s) = q
    BY <1>1, <2>1, TextsAre
  <2>3. Joined(q) = FlattenSeq(Through(f, q))
    BY <1>1, JoinedIs
  <2> QED
    BY <1>1, <2>1, <2>2, <2>3 DEF AllOf, AmongBy, Said
<1>6. SaidBy(S) = K
  BY <1>1, <1>5 DEF SaidBy, AmongBy
<1>7. SaidOne(S) = k
  BY <1>1 DEF SaidOne, SaidPart, AmongOne, TextIn, TextOf
<1> QED
  BY <1>4, <1>6, <1>7

LEMMA SaidJoined ==
    ASSUME NEW S, NEW A, Spoken(S, A), NEW c \in Seq(S), NEW d \in Seq(S)
    PROVE  Said(c \o d) = Said(c) \o Said(d)
<1>1. PICK J, j : J = SaidBy(S) /\ j = SaidOne(S)
  OBVIOUS
<1>2. Joins(S, A, J, j)
  BY <1>1, SaidJoins
<1>3. Adds(J, c, d)
  BY <1>2, JoinsJoined
<1>4. c \o d \in Seq(S)
  BY ConcatProperties
<1>5. \A e \in Seq(S) : J[e] = Said(e)
  BY <1>1 DEF SaidBy
<1> QED
  BY <1>3, <1>4, <1>5 DEF Adds

-----------------------------------------------------------------------------
(* What the system and developer messages say. *)
SystemSays(messages) == FlattenSeq(SystemTexts(messages))

Spelled(M, S, A) == Spoken(S, A) /\ \A m \in M : m.content \in Seq(S)

SystemIn(M) == {m \in M : IsSystem(m)}
TurnIn(M)   == {m \in M : IsTurn(m)}
ContentOf(M) == [m \in M |-> m.content]
SystemBy(M) == [messages \in Seq(M) |-> SystemSays(messages)]
SystemPart(m) == IF IsSystem(m) THEN Said(m.content) ELSE <<>>
SystemOne(M) == [m \in M |-> SystemPart(m)]

LEMMA SystemsAre == ASSUME NEW M, NEW s \in Seq(M) PROVE Filter(s, IsSystem) = Only(s, SystemIn(M))
<1>1. \A i \in DOMAIN s : s[i] \in M
  OBVIOUS
<1>2. {i \in DOMAIN s : IsSystem(s[i])} = {i \in DOMAIN s : s[i] \in SystemIn(M)}
  BY <1>1 DEF SystemIn
<1> QED
  BY <1>2 DEF Filter, Only

LEMMA TurnsAre == ASSUME NEW M, NEW s \in Seq(M) PROVE Filter(s, IsTurn) = Only(s, TurnIn(M))
<1>1. \A i \in DOMAIN s : s[i] \in M
  OBVIOUS
<1>2. {i \in DOMAIN s : IsTurn(s[i])} = {i \in DOMAIN s : s[i] \in TurnIn(M)}
  BY <1>1 DEF TurnIn
<1> QED
  BY <1>2 DEF Filter, Only

LEMMA ContentsOn ==
    ASSUME NEW M, NEW S, \A m \in M : m.content \in Seq(S), NEW s \in Seq(M), NEW x \in M
    PROVE  Contents(s) \in Seq(S) /\ Contents(Append(s, x)) = Contents(s) \o x.content
<1>1. PICK f, C : f = ContentOf(M) /\ C = Seq(S)
  OBVIOUS
<1>2. Maps(f, M, C) /\ Joinable(C)
  BY <1>1, SeqJoinable DEF Maps, ContentOf
<1>3. ASSUME NEW r \in Seq(M) PROVE Contents(r) = FlattenSeq(Through(f, r))
  <2>1. \A i \in DOMAIN r : r[i] \in M
    OBVIOUS
  <2>2. Mapped(LAMBDA m : m.content, r) = Through(f, r)
    BY <1>1, <2>1 DEF Mapped, Through, ContentOf
  <2> QED
    BY <2>2 DEF Contents
<1>4. PICK t \in Seq(M) : t = Append(s, x)
  BY AppendProperties
<1>5. Flattens(C, f, s, x)
  BY <1>2, FlattenThrough
<1>6. Contents(s) = FlattenSeq(Through(f, s)) /\ Contents(t) = FlattenSeq(Through(f, t))
  BY <1>3
<1>7. f[x] = x.content
  BY <1>1 DEF ContentOf
<1> QED
  BY <1>1, <1>4, <1>5, <1>6, <1>7 DEF Flattens

LEMMA SystemJoins ==
    ASSUME NEW M, NEW S, NEW A, Spelled(M, S, A) PROVE Joins(M, A, SystemBy(M), SystemOne(M))
<1>1. PICK H, g, J, j, T : /\ H = SystemBy(M) /\ g = SystemOne(M) /\ T = SystemIn(M)
                           /\ J = SaidBy(S) /\ j = SaidOne(S)
  OBVIOUS
<1>2. Joins(S, A, J, j) /\ Strings(A)
  BY <1>1, SaidJoins DEF Spelled, Spoken
<1>3. \A m \in M : m.content \in Seq(S)
  BY DEF Spelled
<1>4. \A c \in Seq(S) : J[c] = Said(c) /\ J[c] \in A
  BY <1>1, <1>2 DEF SaidBy, Joins
<1>5. ASSUME NEW s \in Seq(M)
      PROVE  SystemSays(s) = Said(Contents(Only(s, T)))
  <2>1. Filter(s, IsSystem) = Only(s, T)
    BY <1>1, SystemsAre
  <2> QED
    BY <2>1 DEF SystemSays, SystemTexts, Said, Joined
<1>6. ASSUME NEW s \in Seq(M) PROVE Contents(s) \in Seq(S)
  <2>1. CASE M = {}
    <3>1. s = <<>>
      BY <2>1, EmptySeq
    <3>2. Contents(<<>>) = <<>>
      BY DEF Contents, Mapped, FlattenSeq
    <3> QED
      BY <3>1, <3>2, EmptySeq
  <2>2. CASE M # {}
    <3>1. PICK x \in M : TRUE
      BY <2>2
    <3> QED
      BY <1>3, ContentsOn
  <2> QED
    BY <2>1, <2>2
<1>7. \A s \in Seq(M) : Only(s, T) \in Seq(M) /\ SystemSays(s) \in A
  <2> SUFFICES ASSUME NEW s \in Seq(M) PROVE Only(s, T) \in Seq(M) /\ SystemSays(s) \in A
    OBVIOUS
  <2>1. PICK q \in Seq(M) : q = Only(s, T)
    BY OnlySub
  <2>2. Contents(q) \in Seq(S)
    BY <1>6
  <2>3. Said(Contents(q)) \in A
    BY <1>4, <2>2
  <2> QED
    BY <1>5, <2>1, <2>3
<1>8. H \in [Seq(M) -> A]
  BY <1>1, <1>7 DEF SystemBy
<1>9. g \in [M -> A]
  <2>1. \A m \in M : SystemPart(m) \in A
    BY <1>2, <1>3, <1>4 DEF SystemPart, Strings, Joinable
  <2> QED
    BY <1>1, <2>1 DEF SystemOne
<1>10. H[<<>>] = <<>>
  <2>1. <<>> \in Seq(M)
    BY EmptySeq
  <2>2. Only(<<>>, T) = <<>>
    BY OnlyNone
  <2>3. Contents(<<>>) = <<>>
    BY DEF Contents, Mapped, FlattenSeq
  <2>4. SystemSays(<<>>) = <<>>
    BY <1>5, <2>1, <2>2, <2>3, NothingSaid
  <2> QED
    BY <1>1, <2>1, <2>4 DEF SystemBy
<1>11. ASSUME NEW s \in Seq(M), NEW x \in M PROVE H[Append(s, x)] = H[s] \o g[x]
  <2>0. PICK q \in Seq(M), t \in Seq(M) : q = Only(s, T) /\ t = Append(s, x) /\ OnlyThen(q, t, x, T)
    BY OnlyNext
  <2>1. q = Only(s, T)
    BY <2>0
  <2>2. t = Append(s, x)
    BY <2>0
  <2>3. Only(t, T) = IF x \in T THEN Append(q, x) ELSE q
    BY <2>0 DEF OnlyThen
  <2>4. PICK c \in Seq(S) : c = Contents(q)
    BY <1>6
  <2>5. PICK d \in Seq(S) : d = x.content
    BY <1>3
  <2>6. H[s] = Said(c) /\ Said(c) \in A
    BY <1>1, <1>4, <1>5, <2>1, <2>4 DEF SystemBy
  <2>7. H[t] = Said(Contents(Only(t, T)))
    BY <1>1, <1>5 DEF SystemBy
  <2>8. CASE x \in T
    <3>1. Contents(Append(q, x)) = c \o d
      BY <1>3, <2>4, <2>5, ContentsOn
    <3>4. Said(c \o d) = Said(c) \o Said(d)
      BY SaidJoined DEF Spelled
    <3>5. g[x] = Said(d)
      BY <1>1, <2>5, <2>8 DEF SystemOne, SystemPart, SystemIn
    <3> QED
      BY <2>2, <2>3, <2>6, <2>7, <2>8, <3>1, <3>4, <3>5
  <2>9. CASE x \notin T
    <3>1. g[x] = <<>>
      BY <1>1, <2>9 DEF SystemOne, SystemPart, SystemIn
    <3>2. Said(c) \o <<>> = Said(c)
      BY <1>2, <2>6 DEF Strings
    <3> QED
      BY <2>2, <2>3, <2>4, <2>6, <2>7, <2>9, <3>1, <3>2
  <2> QED
    BY <2>8, <2>9
<1> QED
  BY <1>1, <1>2, <1>8, <1>9, <1>10, <1>11 DEF Joins

-----------------------------------------------------------------------------
(* What normalizing leaves of a message. *)
MeantIn(S) == {p \in S : ~IsText(p) \/ p.text # <<>>}

LEMMA MeantSaid ==
    ASSUME NEW S, NEW A, Spoken(S, A), NEW c \in Seq(S)
    PROVE  Said(Only(c, MeantIn(S))) = Said(c)
<1>1. PICK T, J, j : T = MeantIn(S) /\ J = SaidBy(S) /\ j = SaidOne(S)
  OBVIOUS
<1>2. Joins(S, A, J, j)
  BY <1>1, SaidJoins
<1>3. \A x \in S : j[x] = IF x \in T THEN j[x] ELSE <<>>
  BY <1>1 DEF MeantIn, SaidOne, SaidPart
<1>4. \A s \in Seq(S) : J[Only(s, T)] = J[s]
  BY <1>2, <1>3, OnlyLike
<1>5. Only(c, T) \in Seq(S)
  BY OnlySub
<1> QED
  BY <1>1, <1>4, <1>5 DEF SaidBy

(* A message of the IR; a role that only a Gemini client has would be      *)
(* passed on by the parsers that look for others.                          *)
Talk == [role: Roles \cup {"model"}, content: Seq(Part)]

Plain(m, k) == /\ k \in Talk /\ k.role = m.role
               /\ k.content = Only(m.content, MeantIn(Part))

LEMMA NormalIs == ASSUME NEW m \in Talk PROVE Plain(m, NormalizeMessage(m))
<1>1. PICK c \in Seq(Part) : c = m.content
  BY DEF Talk
<1>2. PICK d \in Seq(Part) : d = Only(c, MeantIn(Part))
  BY OnlySub
<1>3. Filter(c, LAMBDA p : ~IsText(p) \/ p.text # <<>>) = d
  <2>1. \A i \in DOMAIN c : c[i] \in Part
    OBVIOUS
  <2>2. {i \in DOMAIN c : ~IsText(c[i]) \/ c[i].text # <<>>} = {i \in DOMAIN c : c[i] \in MeantIn(Part)}
    BY <2>1 DEF MeantIn
  <2> QED
    BY <1>2, <2>2 DEF Filter, Only
<1>4. NormalizeMessage(m) = [m EXCEPT !.content = d]
  BY <1>1, <1>3 DEF NormalizeMessage
<1>5. [m EXCEPT !.content = d] \in Talk /\ [m EXCEPT !.content = d].role = m.role
      /\ [m EXCEPT !.content = d].content = d
  BY DEF Talk
<1> QED
  BY <1>1, <1>2, <1>4, <1>5 DEF Plain

LEMMA SpelledTalk == Spelled(Talk, Part, Text)
<1>1. Strings(Text)
  BY SeqStrings DEF Text
<1>2. \A p \in Part : p.text \in Text
  BY DEF Part
<1>3. \A m \in Talk : m.content \in Seq(Part)
  BY DEF Talk
<1> QED
  BY <1>1, <1>2, <1>3 DEF Spelled, Spoken

LEMMA NormalSaid ==
    ASSUME NEW m \in Talk, NEW k, Plain(m, k)
    PROVE  (IsTurn(k) <=> IsTurn(m)) /\ SystemPart(k) = SystemPart(m)
<1>1. PICK c \in Seq(Part) : c = m.content
  BY DEF Talk
<1>2. Said(Only(c, MeantIn(Part))) = Said(c)
  BY SpelledTalk, MeantSaid DEF Spelled
<1> QED
  BY <1>1, <1>2 DEF Plain, IsTurn, IsSystem, SystemPart

(* What a normalized message k adds to what has been merged. *)
Merged(out, k, all) ==
    /\ all \in Seq(Talk)
    /\ Filter(all, IsTurn) = IF IsTurn(k) THEN Append(Filter(out, IsTurn), k) ELSE Filter(out, IsTurn)
    /\ SystemSays(all) = SystemSays(out) \o SystemPart(k)

LEMMA Says ==
    ASSUME NEW s \in Seq(Talk), NEW x \in Talk
    PROVE  /\ SystemSays(s) \in Text /\ SystemPart(x) \in Text
           /\ SystemSays(Append(s, x)) = SystemSays(s) \o SystemPart(x)
           /\ Filter(Append(s, x), IsTurn) = IF IsTurn(x) THEN Append(Filter(s, IsTurn), x)
                                             ELSE Filter(s, IsTurn)
<1>1. PICK M, A, H, g, T : /\ M = Talk /\ A = Text /\ H = SystemBy(M) /\ g = SystemOne(M)
                           /\ T = TurnIn(M)
  OBVIOUS
<1>2. Joins(M, A, H, g)
  BY <1>1, SpelledTalk, SystemJoins
<1>3. PICK q \in Seq(M), t \in Seq(M) : q = Only(s, T) /\ t = Append(s, x) /\ OnlyThen(q, t, x, T)
  BY <1>1, OnlyNext
<1>4. \A r \in Seq(M) : H[r] = SystemSays(r)
  BY <1>1 DEF SystemBy
<1>5. g[x] = SystemPart(x)
  BY <1>1 DEF SystemOne
<1>6. H[s] \in A /\ g[x] \in A /\ H[t] = H[s] \o g[x]
  BY <1>1, <1>2, <1>3 DEF Joins
<1>7. Filter(s, IsTurn) = q /\ Filter(t, IsTurn) = Only(t, T)
  BY <1>1, <1>3, TurnsAre
<1>8. x \in T <=> IsTurn(x)
  BY <1>1 DEF TurnIn
<1> QED
  BY <1>1, <1>3, <1>4, <1>5, <1>6, <1>7, <1>8 DEF OnlyThen

LEMMA TextEnds == \A q \in Text : q \o <<>> = q
BY SpelledTalk DEF Spelled, Spoken, Strings

LEMMA MergeIs ==
    ASSUME NEW out \in Seq(Talk), NEW k \in Talk
    PROVE  Merged(out, k, Merge(out, k))
<1>1. CASE IsTurn(k)
  <2>1. Merge(out, k) = Append(out, k)
    BY <1>1 DEF Merge, IsTurn
  <2>2. Append(out, k) \in Seq(Talk)
    BY AppendProperties
  <2> QED
    BY <1>1, <2>1, <2>2, Says DEF Merged
<1>2. CASE ~IsTurn(k) /\ k.content = <<>>
  <2>1. Merge(out, k) = out
    BY <1>2 DEF Merge, IsTurn
  <2>2. SystemPart(k) = <<>>
    BY <1>2, NothingSaid DEF SystemPart
  <2>3. SystemSays(out) \in Text
    BY Says
  <2> QED
    BY <1>2, <2>1, <2>2, <2>3, TextEnds DEF Merged
<1>3. CASE ~IsTurn(k) /\ k.content # <<>> /\ out # <<>> /\ IsSystem(Last(out))
  <2>1. PICK f \in Seq(Talk), l \in Talk :
           out = Append(f, l) /\ Last(out) = l /\ Len(out) = Len(f) + 1
    BY <1>3, FrontLast
  <2>2. PICK c \in Seq(Part), d \in Seq(Part) : c = l.content /\ d = k.content
    BY DEF Talk
  <2>3. c \o d \in Seq(Part)
    BY ConcatProperties
  <2>4. PICK e \in Seq(Part) : e = c \o d
    BY <2>3
  <2>5. PICK j \in Talk : j = [l EXCEPT !.content = e] /\ j.role = l.role /\ j.content = e
    <3>1. PICK j : j = [l EXCEPT !.content = e]
      OBVIOUS
    <3>2. j \in Talk /\ j.role = l.role /\ j.content = e
      BY <3>1 DEF Talk
    <3> QED
      BY <3>1, <3>2
  <2>6. Merge(out, k) = Append(f, j)
    <3>1. Merge(out, k) = [out EXCEPT ![Len(out)].content = @ \o k.content]
      BY <1>3 DEF Merge, IsTurn
    <3>2. out[Len(out)] = l
      BY <2>1 DEF Last
    <3>3. Merge(out, k) = [out EXCEPT ![Len(out)] = j]
      BY <2>2, <2>4, <2>5, <3>1, <3>2
    <3>4. [Append(f, l) EXCEPT ![Len(f) + 1] = j] = Append(f, j)
      BY ChangeLast
    <3> QED
      BY <2>1, <3>3, <3>4
  <2>7. IsSystem(l) /\ IsSystem(j) /\ ~IsTurn(l) /\ ~IsTurn(j) /\ IsSystem(k)
    BY <1>3, <2>1, <2>5 DEF IsSystem, IsTurn
  <2>8. Said(e) = Said(c) \o Said(d)
    BY <2>4, SpelledTalk, SaidJoined DEF Spelled
  <2>9. SystemPart(l) = Said(c) /\ SystemPart(j) = Said(e) /\ SystemPart(k) = Said(d)
    BY <2>2, <2>5, <2>7 DEF SystemPart
  <2>10. /\ SystemSays(out) = SystemSays(f) \o SystemPart(l)
         /\ Filter(out, IsTurn) = Filter(f, IsTurn)
    BY <2>1, <2>7, Says
  <2>11. /\ SystemSays(Append(f, j)) = SystemSays(f) \o SystemPart(j)
         /\ Filter(Append(f, j), IsTurn) = Filter(f, IsTurn)
    BY <2>7, Says
  <2>12. PICK x \in Text, y \in Text, z \in Text :
            x = SystemSays(f) /\ y = SystemPart(l) /\ z = SystemPart(k)
    BY Says
  <2>13. Regroup(x, y, z)
    BY JoinedTwice DEF Text
  <2>14. Append(f, j) \in Seq(Talk)
    BY AppendProperties
  <2> QED
    BY <1>3, <2>6, <2>8, <2>9, <2>10, <2>11, <2>12, <2>13, <2>14 DEF Merged, Regroup
<1>4. CASE ~IsTurn(k) /\ k.content # <<>> /\ ~(out # <<>> /\ IsSystem(Last(out)))
  <2>1. PICK j : j = [k EXCEPT !.role = "system"]
    OBVIOUS
  <2>2. j \in Talk /\ j.role = "system" /\ j.content = k.content
    BY <2>1 DEF Talk, Roles
  <2>3. Merge(out, k) = Append(out, j)
    BY <1>4, <2>1 DEF Merge, IsTurn
  <2>4. ~IsTurn(j) /\ SystemPart(j) = SystemPart(k)
    BY <1>4, <2>2 DEF IsTurn, IsSystem, SystemPart
  <2>5. Append(out, j) \in Seq(Talk)
    BY <2>2, AppendProperties
  <2>6. /\ SystemSays(Append(out, j)) = SystemSays(out) \o SystemPart(j)
        /\ Filter(Append(out, j), IsTurn) = Filter(out, IsTurn)
    BY <2>2, <2>4, Says
  <2> QED
    BY <1>4, <2>3, <2>4, <2>5, <2>6 DEF Merged
<1> QED
  BY <1>1, <1>2, <1>3, <1>4

NormalSteps(s) ==
    [i \in 1..Len(s) |-> [out \in Seq(Talk) |-> Merge(out, NormalizeMessage(s[i]))]]

LEMMA NormalStepsType ==
    ASSUME NEW s \in Seq(Talk)
    PROVE  NormalSteps(s) \in [1..Len(s) -> [Seq(Talk) -> Seq(Talk)]]
<1>1. PICK A : A = Seq(Talk)
  OBVIOUS
<1>2. ASSUME NEW i \in 1..Len(s), NEW out \in A PROVE Merge(out, NormalizeMessage(s[i])) \in A
  <2>1. s[i] \in Talk
    OBVIOUS
  <2>2. NormalizeMessage(s[i]) \in Talk
    BY <2>1, NormalIs DEF Plain
  <2> QED
    BY <1>1, <2>2, MergeIs DEF Merged
<1> QED
  BY <1>1, <1>2 DEF NormalSteps

LEMMA NormalFolds ==
    ASSUME NEW s \in Seq(Talk)
    PROVE  Folds(Seq(Talk), <<>>, Len(s), NormalSteps(s), NormalizeMessages(s))
<1> DEFINE Value(g, i) == IF i = 0 THEN <<>> ELSE Merge(g[i - 1], NormalizeMessage(s[i]))
           Fold(g) == g = [i \in 0..Len(s) |-> Value(g, i)]
<1>1. PICK n, A, step : n = Len(s) /\ A = Seq(Talk) /\ step = NormalSteps(s)
  OBVIOUS
<1>2. n \in Nat /\ <<>> \in A /\ step \in [1..n -> [A -> A]]
  BY <1>1, EmptySeq, NormalStepsType
<1>3. PICK f \in [0..n -> A] : f[0] = <<>> /\ \A i \in 1..n : f[i] = step[i][f[i - 1]]
  <2>1. PICK a \in A : a = <<>>
    BY <1>2
  <2>2. n \in Nat /\ step \in [1..n -> [A -> A]]
    BY <1>2
  <2>3. \E f \in [0..n -> A] : f[0] = a /\ \A i \in 1..n : f[i] = step[i][f[i - 1]]
    BY <2>2, FoldsExist, SMT
  <2> QED
    BY <2>1, <2>3
<1>4. \A i \in 1..n : f[i] = Merge(f[i - 1], NormalizeMessage(s[i]))
  <2> SUFFICES ASSUME NEW i \in 1..n PROVE f[i] = Merge(f[i - 1], NormalizeMessage(s[i]))
    OBVIOUS
  <2>1. f[i - 1] \in A
    BY <1>2, <1>3
  <2>2. step[i] = [out \in A |-> Merge(out, NormalizeMessage(s[i]))]
    BY <1>1 DEF NormalSteps
  <2> QED
    BY <1>3, <2>1, <2>2
<1>5. Fold(f)
  <2>1. \A i \in 0..n : f[i] = Value(f, i)
    <3> SUFFICES ASSUME NEW i \in 0..n PROVE f[i] = Value(f, i)
      OBVIOUS
    <3>1. CASE i = 0
      BY <1>3, <3>1
    <3>2. CASE i # 0
      <4>1. i \in 1..n
        BY <1>2, <3>2
      <4> QED
        BY <1>4, <3>2, <4>1
    <3> QED
      BY <3>1, <3>2
  <2> QED
    BY <1>1, <1>3, <2>1
<1>6. PICK g : g = CHOOSE h : Fold(h)
  OBVIOUS
<1>7. NormalizeMessages(s) = g[n]
  BY <1>1, <1>6 DEF NormalizeMessages
<1>8. Fold(g)
  BY <1>5, <1>6
<1> DEFINE T == {i \in 0..n : g[i] = f[i]}
<1>9. 0 \in T
  BY <1>1, <1>2, <1>3, <1>8
<1>10. \A i \in 1..n : i - 1 \in T => i \in T
  <2> SUFFICES ASSUME NEW i \in 1..n, i - 1 \in T PROVE i \in T
    OBVIOUS
  <2>1. i \in 0..n /\ i # 0
    BY <1>2
  <2>2. g[i] = Merge(g[i - 1], NormalizeMessage(s[i]))
    BY <1>1, <1>8, <2>1
  <2> QED
    BY <1>4, <2>1, <2>2
<1>11. \A i \in 0..n : i \in T
  <2> HIDE DEF T
  <2> QED
    BY <1>2, <1>9, <1>10, Climbs
<1>12. NormalizeMessages(s) = f[n]
  BY <1>2, <1>7, <1>11
<1> QED
  BY <1>1, <1>3, <1>12 DEF Folds

LEMMA NormalNone == NormalizeMessages(<<>>) = <<>>
<1>1. PICK s : s = <<>>
  OBVIOUS
<1>2. s \in Seq(Talk) /\ Len(s) = 0
  BY <1>1, EmptySeq
<1>3. Folds(Seq(Talk), <<>>, Len(s), NormalSteps(s), NormalizeMessages(s))
  BY <1>2, NormalFolds
<1> QED
  BY <1>1, <1>2, <1>3 DEF Folds

NormalNext(s, x, t) ==
    /\ NormalizeMessages(s) \in Seq(Talk)
    /\ t = Append(s, x)
    /\ NormalizeMessages(t) = Merge(NormalizeMessages(s), NormalizeMessage(x))

LEMMA NormalOn ==
    ASSUME NEW s \in Seq(Talk), NEW x \in Talk
    PROVE  NormalNext(s, x, Append(s, x))
<1>1. PICK t, n, m : t = Append(s, x) /\ n = Len(s) /\ m = Len(t)
  OBVIOUS
<1>2. t \in Seq(Talk) /\ n \in Nat /\ m = n + 1 /\ t[m] = x
      /\ \A i \in 1..n : t[i] = s[i] /\ i \in 1..m
  BY <1>1
<1>3. PICK A, a : A = Seq(Talk) /\ a = <<>>
  OBVIOUS
<1>4. PICK step, more, v, w : /\ step = NormalSteps(s) /\ more = NormalSteps(t)
                              /\ v = NormalizeMessages(s) /\ w = NormalizeMessages(t)
  OBVIOUS
<1>5. a \in A /\ step \in [1..n -> [A -> A]] /\ more \in [1..m -> [A -> A]]
  BY <1>1, <1>2, <1>3, <1>4, EmptySeq, NormalStepsType
<1>6. \A i \in 1..n : more[i] = step[i]
  BY <1>1, <1>2, <1>4 DEF NormalSteps
<1>7. Folds(A, a, n, step, v) /\ Folds(A, a, m, more, w)
  BY <1>1, <1>2, <1>3, <1>4, NormalFolds
<1>8. v \in A /\ w = more[m][v]
  <2>1. n \in Nat /\ m = n + 1
    BY <1>2
  <2>2. OneMore(A, n, step, more)
    BY <1>5, <1>6, <2>1 DEF OneMore
  <2> QED
    BY <1>5, <1>7, <2>1, <2>2, FoldsOn
<1>9. m \in 1..m
  BY <1>2
<1>10. w = Merge(v, NormalizeMessage(t[m]))
  <2>1. more[m] = [out \in A |-> Merge(out, NormalizeMessage(t[m]))]
    BY <1>1, <1>3, <1>4, <1>9 DEF NormalSteps
  <2> QED
    BY <1>8, <2>1
<1> QED
  BY <1>1, <1>2, <1>3, <1>4, <1>8, <1>10 DEF NormalNext

NormalEach == [m \in Talk |-> NormalizeMessage(m)]

(* Normalizing keeps what the system says, and the turns one by one. *)
Normal(s, r) == /\ r \in Seq(Talk)
                /\ SystemSays(r) = SystemSays(s)
                /\ Filter(r, IsTurn) = Through(NormalEach, Filter(s, IsTurn))

LEMMA NormalKeeps == \A s \in Seq(Talk) : Normal(s, NormalizeMessages(s))
<1> DEFINE V == {s \in Seq(Talk) : Normal(s, NormalizeMessages(s))}
<1>0. Maps(NormalEach, Talk, Talk)
  <2>1. \A m \in Talk : NormalizeMessage(m) \in Talk
    BY NormalIs DEF Plain
  <2> QED
    BY <2>1 DEF Maps, NormalEach
<1>1. <<>> \in V
  <2>1. <<>> \in Seq(Talk)
    BY EmptySeq
  <2>2. Filter(<<>>, IsTurn) = <<>>
    BY <2>1, TurnsAre, OnlyNone
  <2>3. Through(NormalEach, <<>>) = <<>>
    BY DEF Through
  <2> QED
    BY <2>1, <2>2, <2>3, NormalNone DEF Normal
<1>2. ASSUME NEW s \in Seq(Talk), NEW x \in Talk, s \in V PROVE Append(s, x) \in V
  <2>1. PICK t \in Seq(Talk) : t = Append(s, x)
    BY AppendProperties
  <2>2. PICK out \in Seq(Talk), k \in Talk, all \in Seq(Talk) :
           /\ out = NormalizeMessages(s) /\ k = NormalizeMessage(x) /\ all = NormalizeMessages(t)
           /\ all = Merge(out, k)
    <3>1. NormalNext(s, x, t)
      BY <2>1, NormalOn
    <3>2. NormalizeMessage(x) \in Talk
      BY NormalIs DEF Plain
    <3>3. PICK out \in Seq(Talk), k \in Talk :
             out = NormalizeMessages(s) /\ k = NormalizeMessage(x)
      BY <3>1, <3>2 DEF NormalNext
    <3>4. Merge(out, k) \in Seq(Talk)
      BY MergeIs DEF Merged
    <3> QED
      BY <3>1, <3>3, <3>4 DEF NormalNext
  <2>3. Normal(s, out)
    BY <1>2, <2>2
  <2>4. Merged(out, k, all)
    BY <2>2, MergeIs
  <2>5. (IsTurn(k) <=> IsTurn(x)) /\ SystemPart(k) = SystemPart(x)
    BY <2>2, NormalIs, NormalSaid
  <2>6. SystemSays(all) = SystemSays(t)
    <3>1. SystemSays(Append(s, x)) = SystemSays(s) \o SystemPart(x)
      BY Says
    <3> QED
      BY <2>1, <2>3, <2>4, <2>5, <3>1 DEF Normal, Merged
  <2>7. Filter(all, IsTurn) = Through(NormalEach, Filter(t, IsTurn))
    <3>1. Filter(t, IsTurn) = IF IsTurn(x) THEN Append(Filter(s, IsTurn), x) ELSE Filter(s, IsTurn)
      BY <2>1, Says
    <3>2. PICK q \in Seq(Talk) : q = Filter(s, IsTurn)
      BY TurnsAre, OnlySub
    <3>3. Through(NormalEach, Append(q, x)) = Append(Through(NormalEach, q), NormalEach[x])
      BY <1>0, ThroughOn
    <3>4. NormalEach[x] = k
      BY <2>2 DEF NormalEach
    <3> QED
      BY <2>3, <2>4, <2>5, <3>1, <3>2, <3>3, <3>4 DEF Normal, Merged
  <2>8. Normal(t, all)
    BY <2>6, <2>7 DEF Normal
  <2> QED
    BY <2>1, <2>2, <2>8
<1> HIDE DEF V
<1>3. \A s \in Seq(Talk) : s \in V
  BY <1>1, <1>2, Grows
<1> QED
  BY <1>3 DEF V

(* Two requests of one fingerprint ask the same. *)
LEMMA FingerprintTells ==
    ASSUME NEW r, r.messages \in Seq(Talk), NEW s, s.messages \in Seq(Talk),
           Fingerprint(r) = Fingerprint(s)
    PROVE  Question(r) = Question(s) /\ r.model = s.model
<1>1. PICK a \in Seq(Talk), b \in Seq(Talk) : a = r.messages /\ b = s.messages
  OBVIOUS
<1>2. /\ NormalizeMessages(a) = NormalizeMessages(b)
      /\ r.model = s.model /\ r.options \ {"stop"} = s.options \ {"stop"}
      /\ r.tools = s.tools /\ r.toolChoice = s.toolChoice
  BY <1>1 DEF Fingerprint
<1>3. Normal(a, NormalizeMessages(a)) /\ Normal(b, NormalizeMessages(b))
  BY NormalKeeps
<1>4. ASSUME NEW c \in Seq(Talk)
      PROVE  Mapped(NormalizeMessage, Filter(c, IsTurn)) = Through(NormalEach, Filter(c, IsTurn))
  <2>1. PICK q \in Seq(Talk) : q = Filter(c, IsTurn)
    BY TurnsAre, OnlySub
  <2>2. \A i \in DOMAIN q : q[i] \in Talk
    OBVIOUS
  <2>3. Mapped(NormalizeMessage, q) = Through(NormalEach, q)
    BY <2>2 DEF Mapped, Through, NormalEach
  <2> QED
    BY <2>1, <2>3
<1>5. Mapped(NormalizeMessage, Filter(a, IsTurn)) = Mapped(NormalizeMessage, Filter(b, IsTurn))
  BY <1>2, <1>3, <1>4 DEF Normal
<1>6. SystemSays(a) = SystemSays(b)
  BY <1>2, <1>3 DEF Normal
<1> QED
  BY <1>1, <1>2, <1>5, <1>6 DEF Question, SystemSays

-----------------------------------------------------------------------------
(* What the parsers of the clients make of a body. *)
LEMMA PartsAre ==
    ASSUME NEW t \in Text, NEW id \in Ids, NEW n \in Tools \cup {NoTool}
    PROVE  TextPart(t) \in Part /\ ToolUse(id, n, t) \in Part /\ ToolResult(id, t) \in Part
BY MessagesConfig DEF TextPart, ToolUse, ToolResult, Part

LEMMA OneText == ASSUME NEW t \in Text PROVE <<TextPart(t)>> \in Seq(Part)
<1>1. NoId \in Ids /\ NoTool \in Tools \cup {NoTool}
  BY MessagesConfig
<1>2. PICK p \in Part : p = TextPart(t)
  BY <1>1, PartsAre
<1> QED
  BY <1>2

LEMMA ParsedText == ASSUME NEW t \in Text PROVE Parsed(t) \in Text
<1>1. <<>> \in Text
  BY EmptySeq DEF Text
<1> QED
  BY <1>1 DEF Parsed

LEMMA BodySpoken == Spoken(BodyPart, Text)
<1>1. Strings(Text)
  BY SeqStrings DEF Text
<1>2. \A p \in BodyPart : p.text \in Text
  BY DEF BodyPart
<1> QED
  BY <1>1, <1>2 DEF Spoken

LEMMA SaidText == ASSUME NEW s \in Seq(BodyPart) PROVE Joined(Texts(s)) \in Text
<1>1. PICK S, J, j : S = BodyPart /\ J = SaidBy(S) /\ j = SaidOne(S)
  OBVIOUS
<1>2. Joins(S, Text, J, j)
  BY <1>1, BodySpoken, SaidJoins
<1>3. J[s] \in Text
  BY <1>1, <1>2 DEF Joins
<1> QED
  BY <1>1, <1>3 DEF SaidBy, Said

LEMMA UsesAre == ASSUME NEW S, NEW s \in Seq(S)
                 PROVE  ToolUses(s) = Only(s, {p \in S : IsToolUse(p)}) /\ ToolUses(s) \in Seq(S)
<1>1. \A i \in DOMAIN s : s[i] \in S
  OBVIOUS
<1>2. {i \in DOMAIN s : IsToolUse(s[i])} = {i \in DOMAIN s : s[i] \in {p \in S : IsToolUse(p)}}
  BY <1>1
<1>3. ToolUses(s) = Only(s, {p \in S : IsToolUse(p)})
  BY <1>2 DEF ToolUses, Filter, Only
<1> QED
  BY <1>3, OnlySub

LEMMA ChatTalks == ASSUME NEW m \in BodyMessage PROVE FromIncomingMessage(m) \in Talk
<1>1. PICK parts \in Seq(BodyPart) : parts = m.parts
  BY DEF BodyMessage
<1>2. PICK t \in Text : t = Joined(Texts(parts))
  BY SaidText
<1>3. PICK said \in Seq(Part) : said = IF m.shape = "string" THEN <<TextPart(t)>> ELSE <<>>
  BY OneText, EmptySeq
<1>4. PICK f : f = [c \in BodyPart |-> ToolUse(c.id, c.name, Parsed(c.text))]
  OBVIOUS
<1>5. Maps(f, BodyPart, Part)
  <2>1. ASSUME NEW c \in BodyPart PROVE ToolUse(c.id, c.name, Parsed(c.text)) \in Part
    <3>1. c.id \in Ids /\ c.name \in Tools \cup {NoTool} /\ c.text \in Text
      BY DEF BodyPart
    <3>2. Parsed(c.text) \in Text
      BY <3>1, ParsedText
    <3> QED
      BY <3>1, <3>2, PartsAre
  <2> QED
    BY <1>4, <2>1 DEF Maps
<1>6. PICK calls \in Seq(Part) :
         calls = Mapped(LAMBDA c : ToolUse(c.id, c.name, Parsed(c.text)), ToolUses(parts))
  <2>1. PICK q \in Seq(BodyPart) : q = ToolUses(parts)
    BY UsesAre
  <2>2. \A i \in DOMAIN q : q[i] \in BodyPart
    OBVIOUS
  <2>3. Mapped(LAMBDA c : ToolUse(c.id, c.name, Parsed(c.text)), q) = Through(f, q)
    BY <1>4, <2>2 DEF Mapped, Through
  <2>4. Through(f, q) \in Seq(Part)
    BY <1>5, ThroughIs
  <2> QED
    BY <2>1, <2>3, <2>4
<1>7. PICK some \in Seq(Part) : some = Filter(said, LAMBDA c : c.text # <<>>)
  <2>1. \A i \in DOMAIN said : said[i] \in Part
    OBVIOUS
  <2>2. PICK Q : Q = {c \in Part : c.text # <<>>}
    OBVIOUS
  <2>3. {i \in DOMAIN said : said[i].text # <<>>} = {i \in DOMAIN said : said[i] \in Q}
    BY <2>1, <2>2
  <2>4. Filter(said, LAMBDA c : c.text # <<>>) = Only(said, Q)
    BY <2>3 DEF Filter, Only
  <2> QED
    BY <2>4, OnlySub
<1>8. m.id \in Ids /\ NoTool \in Tools \cup {NoTool} /\ m.role \in Roles \cup {"model"}
  BY DEF BodyMessage
<1>9. <<ToolResult(m.id, t)>> \in Seq(Part)
  <2>1. PICK p \in Part : p = ToolResult(m.id, t)
    BY <1>8, PartsAre
  <2> QED
    BY <2>1
<1>10. some \o calls \in Seq(Part)
  BY ConcatProperties
<1>11. PICK c \in Seq(Part) :
          c = CASE m.role = "tool" -> <<ToolResult(m.id, t)>>
                [] m.role = "assistant" -> some \o calls
                [] OTHER -> said
  BY <1>9, <1>10
<1>12. FromIncomingMessage(m) = [role |-> m.role, content |-> c]
  BY <1>1, <1>2, <1>3, <1>6, <1>7, <1>11 DEF FromIncomingMessage
<1> QED
  BY <1>8, <1>12 DEF Talk

LEMMA InputTalks == ASSUME NEW m \in BodyMessage PROVE FromInput(m) \in Talk
<1>1. PICK parts \in Seq(BodyPart) : parts = m.parts
  BY DEF BodyMessage
<1>2. PICK c \in Seq(Part) : c = <<TextPart(Joined(Texts(parts)))>>
  BY SaidText, OneText
<1>3. m.role \in Roles \cup {"model"}
  BY DEF BodyMessage
<1> QED
  BY <1>1, <1>2, <1>3 DEF FromInput, Talk

LEMMA AnthropicTalks == ASSUME NEW m \in BodyMessage PROVE FromAnthropicMessage(m) \in Talk
<1>1. PICK parts \in Seq(BodyPart) : parts = m.parts
  BY DEF BodyMessage
<1>2. PICK Q : Q = {c \in BodyPart : c.type # "image"}
  OBVIOUS
<1>3. Filter(parts, LAMBDA c : c.type # "image") = Only(parts, Q)
  <2>1. \A i \in DOMAIN parts : parts[i] \in BodyPart
    OBVIOUS
  <2>2. {i \in DOMAIN parts : parts[i].type # "image"} = {i \in DOMAIN parts : parts[i] \in Q}
    BY <1>2, <2>1
  <2> QED
    BY <2>2 DEF Filter, Only
<1>4. PICK c \in Seq(Part) : c = Only(parts, Q)
  <2>1. BodyPart \cap Q \subseteq Part
    BY <1>2 DEF BodyPart, Part
  <2> QED
    BY <2>1, OnlyType, SeqMonotonic
<1>5. m.role \in Roles \cup {"model"}
  BY DEF BodyMessage
<1> QED
  BY <1>1, <1>3, <1>4, <1>5 DEF FromAnthropicMessage, Talk

LEMMA GeminiTalks ==
    ASSUME NEW m \in BodyMessage, NEW n, Drawn[n] \in Ids PROVE FromGeminiContent(m, n) \in Talk
<1>1. PICK parts \in Seq(BodyPart) : parts = m.parts
  BY DEF BodyMessage
<1>2. PICK Q : Q = {c \in BodyPart : c.type \notin {"image", "thinking"}}
  OBVIOUS
<1>3. Filter(parts, LAMBDA c : c.type \notin {"image", "thinking"}) = Only(parts, Q)
  <2>1. \A i \in DOMAIN parts : parts[i] \in BodyPart
    OBVIOUS
  <2>2. {i \in DOMAIN parts : parts[i].type \notin {"image", "thinking"}}
           = {i \in DOMAIN parts : parts[i] \in Q}
    BY <1>2, <2>1
  <2> QED
    BY <2>2 DEF Filter, Only
<1>4. PICK q \in Seq(Q) : q = Only(parts, Q)
  <2>1. BodyPart \cap Q \subseteq Q
    OBVIOUS
  <2> QED
    BY <2>1, OnlyType, SeqMonotonic
<1> DEFINE From(c) == CASE IsToolUse(c)    -> ToolUse(Drawn[n], c.name, c.text)
                        [] IsToolResult(c) -> ToolResult(NoId, c.text)
                        [] OTHER           -> c
<1>5. ASSUME NEW c \in Q PROVE From(c) \in Part
  <2>1. c.name \in Tools \cup {NoTool} /\ c.text \in Text /\ NoId \in Ids
    BY <1>2, MessagesConfig DEF BodyPart
  <2>2. ToolUse(Drawn[n], c.name, c.text) \in Part /\ ToolResult(NoId, c.text) \in Part
    BY <2>1, PartsAre
  <2>3. ~IsToolUse(c) /\ ~IsToolResult(c) => c \in Part
    BY <1>2 DEF BodyPart, Part, IsToolUse, IsToolResult
  <2> QED
    BY <2>2, <2>3
<1> HIDE DEF From
<1>6. PICK f : f = [c \in Q |-> From(c)]
  OBVIOUS
<1>7. Maps(f, Q, Part)
  BY <1>5, <1>6 DEF Maps
<1>8. PICK c \in Seq(Part) : c = Mapped(From, q)
  <2>1. \A i \in DOMAIN q : q[i] \in Q
    OBVIOUS
  <2>2. Mapped(From, q) = Through(f, q)
    BY <1>6, <2>1 DEF Mapped, Through
  <2>3. Through(f, q) \in Seq(Part)
    BY <1>7, ThroughIs
  <2> QED
    BY <2>2, <2>3
<1>9. FromGeminiContent(m, n).role \in Roles /\ FromGeminiContent(m, n).content = Mapped(From, q)
  BY <1>1, <1>3, <1>4 DEF FromGeminiContent, From, Roles
<1> QED
  BY <1>8, <1>9 DEF FromGeminiContent, Talk

-----------------------------------------------------------------------------
(***************************************************************************)
(* The answers.  Every conversion of the parts of a choice keeps what they *)
(* say and whom they call.                                                 *)
(***************************************************************************)
CallOf(p) == <<p.name, Parsed(p.text)>>
Calls     == (Tools \cup {NoTool}) \X Text
Uses      == {p \in BodyPart : IsToolUse(p)}
CallIn    == [p \in BodyPart |-> CallOf(p)]
CalledBy  == [parts \in Seq(BodyPart) |-> Called(parts)]
CalledOne == [p \in BodyPart |-> IF p \in Uses THEN <<CallOf(p)>> ELSE <<>>]
SaidIn    == SaidBy(BodyPart)
SaidEach  == SaidOne(BodyPart)

LEMMA CallMaps == Maps(CallIn, BodyPart, Calls)
<1>1. ASSUME NEW p \in BodyPart PROVE CallOf(p) \in Calls
  <2>1. p.name \in Tools \cup {NoTool} /\ p.text \in Text
    BY DEF BodyPart
  <2>2. Parsed(p.text) \in Text
    BY <2>1, ParsedText
  <2> QED
    BY <2>1, <2>2 DEF CallOf, Calls
<1> QED
  BY <1>1 DEF CallIn, Maps

LEMMA CalledJoins == Joins(BodyPart, Seq(Calls), CalledBy, CalledOne)
<1>1. PICK S, A, T, H, h, K, k :
         /\ S = BodyPart /\ A = Seq(Calls) /\ T = Uses /\ H = Each(CallIn, S)
         /\ h = [p \in S |-> <<CallIn[p]>>] /\ K = AmongBy(S, H, T) /\ k = AmongOne(S, h, T)
  OBVIOUS
<1>2. Joins(S, A, H, h)
  BY <1>1, CallMaps, EachJoins
<1>3. Joins(S, A, K, k)
  BY <1>1, <1>2, AmongJoins
<1>4. ASSUME NEW s \in Seq(S) PROVE K[s] = Called(s)
  <2>1. PICK q \in Seq(S) : q = Only(s, T) /\ q = ToolUses(s)
    BY <1>1, UsesAre DEF Uses
  <2>2. \A i \in DOMAIN q : q[i] \in S
    OBVIOUS
  <2>3. Called(s) = Through(CallIn, q)
    BY <1>1, <2>1, <2>2 DEF Called, Mapped, Through, CallIn, CallOf
  <2> QED
    BY <1>1, <2>1, <2>3 DEF Each, AmongBy
<1>5. CalledBy = K
  BY <1>1, <1>4 DEF CalledBy, AmongBy
<1>6. CalledOne = k
  BY <1>1 DEF CalledOne, AmongOne, CallIn
<1> QED
  BY <1>1, <1>3, <1>5, <1>6

LEMMA SaidIsJoined == Joins(BodyPart, Text, SaidIn, SaidEach)
BY BodySpoken, SaidJoins DEF SaidIn, SaidEach

(* d says what c says, and calls whom c calls. *)
SaysAs(c, d) == /\ d \in Seq(BodyPart)
                /\ SaidIn[d] = SaidIn[c] /\ CalledBy[d] = CalledBy[c]

LEMMA SaysIs ==
    ASSUME NEW c \in Seq(BodyPart)
    PROVE  /\ SaidIn[c] = Said(c) /\ SaidIn[c] \in Text
           /\ CalledBy[c] = Called(c) /\ CalledBy[c] \in Seq(Calls)
<1>1. SaidIn[c] \in Text
  BY SaidIsJoined DEF Joins
<1>2. CalledBy[c] \in Seq(Calls)
  BY CalledJoins DEF Joins
<1> QED
  BY <1>1, <1>2 DEF SaidIn, SaidBy, CalledBy

LEMMA NothingSays == SaidIn[<<>>] = <<>> /\ CalledBy[<<>>] = <<>>
BY SaidIsJoined, CalledJoins DEF Joins

(* What is left out says nothing and calls nobody. *)
DropsNothing(Q) == \A p \in BodyPart : p \notin Q => ~IsToolUse(p) /\ (IsText(p) => p.text = <<>>)

LEMMA OnlySays ==
    ASSUME NEW Q, NEW c \in Seq(BodyPart), DropsNothing(Q)
    PROVE  SaysAs(c, Only(c, Q))
<1>1. \A p \in BodyPart : SaidEach[p] = IF p \in Q THEN SaidEach[p] ELSE <<>>
  BY DEF SaidEach, SaidOne, SaidPart, DropsNothing
<1>2. \A p \in BodyPart : CalledOne[p] = IF p \in Q THEN CalledOne[p] ELSE <<>>
  BY DEF CalledOne, Uses, DropsNothing
<1>3. \A s \in Seq(BodyPart) : SaidIn[Only(s, Q)] = SaidIn[s]
  BY <1>1, SaidIsJoined, OnlyLike
<1>4. \A s \in Seq(BodyPart) : CalledBy[Only(s, Q)] = CalledBy[s]
  BY <1>2, CalledJoins, OnlyLike
<1> QED
  BY <1>3, <1>4, OnlySub DEF SaysAs

(* What is changed of every part is neither its text nor its call. *)
LEMMA ThroughSays ==
    ASSUME NEW f, Maps(f, BodyPart, BodyPart), NEW c \in Seq(BodyPart),
           \A p \in BodyPart : SaidEach[f[p]] = SaidEach[p] /\ CalledOne[f[p]] = CalledOne[p]
    PROVE  SaysAs(c, Through(f, c))
<1>1. \A p \in BodyPart : SaidEach[p] = SaidEach[f[p]]
  OBVIOUS
<1>2. \A p \in BodyPart : CalledOne[p] = CalledOne[f[p]]
  OBVIOUS
<1>3. \A s \in Seq(BodyPart) : SaidIn[Through(f, s)] = SaidIn[s]
  BY <1>1, SaidIsJoined, ThroughLike
<1>4. \A s \in Seq(BodyPart) : CalledBy[Through(f, s)] = CalledBy[s]
  BY <1>2, CalledJoins, ThroughLike
<1> QED
  BY <1>3, <1>4, ThroughIs DEF SaysAs

(* K makes nothing of anything. *)
LEMMA SilentJoins ==
    ASSUME NEW S, NEW A, Strings(A)
    PROVE  Joins(S, A, [s \in Seq(S) |-> <<>>], [x \in S |-> <<>>])
<1>1. PICK K, k, e : K = [s \in Seq(S) |-> e] /\ k = [x \in S |-> e] /\ e = <<>>
  OBVIOUS
<1>2. e \in A /\ e \o e = e
  BY <1>1 DEF Strings, Joinable
<1>3. K \in [Seq(S) -> A] /\ k \in [S -> A]
  BY <1>1, <1>2
<1>4. K[<<>>] = e
  BY <1>1, EmptySeq
<1>5. ASSUME NEW s \in Seq(S), NEW x \in S PROVE K[Append(s, x)] = K[s] \o k[x]
  <2>1. Append(s, x) \in Seq(S)
    BY AppendProperties
  <2> QED
    BY <1>1, <1>2, <2>1
<1> QED
  BY <1>1, <1>3, <1>4, <1>5 DEF Joins

LEMMA UsesSay ==
    ASSUME NEW c \in Seq(BodyPart)
    PROVE  /\ ToolUses(c) \in Seq(BodyPart) /\ SaidIn[ToolUses(c)] = <<>>
           /\ CalledBy[ToolUses(c)] = CalledBy[c]
<1>1. ToolUses(c) \in Seq(BodyPart) /\ ToolUses(c) = Only(c, Uses)
  BY UsesAre DEF Uses
<1>2. PICK K, k : K = [s \in Seq(BodyPart) |-> <<>>] /\ k = [x \in BodyPart |-> <<>>]
  OBVIOUS
<1>3. Joins(BodyPart, Text, K, k)
  <2>1. Strings(Text)
    BY SaidIsJoined DEF Joins
  <2> QED
    BY <1>2, <2>1, SilentJoins
<1>4. \A p \in BodyPart : k[p] = IF p \in Uses THEN SaidEach[p] ELSE <<>>
  BY <1>2 DEF Uses, SaidEach, SaidOne, SaidPart, IsToolUse, IsText
<1>5. \A s \in Seq(BodyPart) : SaidIn[Only(s, Uses)] = K[s]
  BY <1>3, <1>4, SaidIsJoined, OnlyLike
<1>6. \A p \in BodyPart : CalledOne[p] = IF p \in Uses THEN CalledOne[p] ELSE <<>>
  BY DEF CalledOne
<1>7. \A s \in Seq(BodyPart) : CalledBy[Only(s, Uses)] = CalledBy[s]
  BY <1>6, CalledJoins, OnlyLike
<1> QED
  BY <1>1, <1>2, <1>5, <1>7

LEMMA TextsSay ==
    ASSUME NEW c \in Seq(BodyPart)
    PROVE  /\ Texts(c) \in Seq(BodyPart \cap TextIn(BodyPart)) /\ Texts(c) \in Seq(BodyPart)
           /\ SaidIn[Texts(c)] = SaidIn[c] /\ CalledBy[Texts(c)] = <<>>
<1>1. PICK T : T = TextIn(BodyPart)
  OBVIOUS
<1>2. Texts(c) = Only(c, T)
  BY <1>1, TextsAre
<1>3. Texts(c) \in Seq(BodyPart \cap T) /\ Texts(c) \in Seq(BodyPart)
  BY <1>2, OnlyType, OnlySub
<1>4. PICK K, k : K = [s \in Seq(BodyPart) |-> <<>>] /\ k = [x \in BodyPart |-> <<>>]
  OBVIOUS
<1>5. Joins(BodyPart, Seq(Calls), K, k)
  BY <1>4, SeqStrings, SilentJoins
<1>6. \A p \in BodyPart : k[p] = IF p \in T THEN CalledOne[p] ELSE <<>>
  BY <1>1, <1>4 DEF TextIn, CalledOne, Uses, IsToolUse, IsText
<1>7. \A s \in Seq(BodyPart) : CalledBy[Only(s, T)] = K[s]
  BY <1>5, <1>6, CalledJoins, OnlyLike
<1>8. \A p \in BodyPart : SaidEach[p] = IF p \in T THEN SaidEach[p] ELSE <<>>
  BY <1>1 DEF TextIn, SaidEach, SaidOne, SaidPart
<1>9. \A s \in Seq(BodyPart) : SaidIn[Only(s, T)] = SaidIn[s]
  BY <1>8, SaidIsJoined, OnlyLike
<1> QED
  BY <1>1, <1>2, <1>3, <1>4, <1>7, <1>9

LEMMA BothSay ==
    ASSUME NEW c \in Seq(BodyPart), NEW d \in Seq(BodyPart)
    PROVE  /\ c \o d \in Seq(BodyPart)
           /\ Adds(SaidIn, c, d) /\ Adds(CalledBy, c, d)
<1>1. Adds(SaidIn, c, d)
  BY SaidIsJoined, JoinsJoined
<1>2. Adds(CalledBy, c, d)
  BY CalledJoins, JoinsJoined
<1> QED
  BY <1>1, <1>2, ConcatProperties

LEMMA TextSays ==
    ASSUME NEW t \in Text
    PROVE  LET c == <<TextPart(t)>>
           IN  c \in Seq(BodyPart) /\ SaidIn[c] = t /\ CalledBy[c] = <<>>
<1>1. PICK p \in BodyPart : p = TextPart(t) /\ IsText(p) /\ ~IsToolUse(p) /\ p.text = t
  <2>1. TextPart(t) \in BodyPart
    BY MessagesConfig DEF TextPart, BodyPart
  <2>2. IsText(TextPart(t)) /\ ~IsToolUse(TextPart(t)) /\ TextPart(t).text = t
    BY DEF TextPart, IsText, IsToolUse
  <2> QED
    BY <2>1, <2>2
<1>2. PICK n \in Seq(BodyPart), c \in Seq(BodyPart) : n = <<>> /\ c = Append(n, p) /\ c = <<p>>
  <2>1. <<>> \in Seq(BodyPart) /\ <<p>> \in Seq(BodyPart) /\ Append(<<>>, p) = <<p>>
    OBVIOUS
  <2> QED
    BY <2>1
<1>3. SaidIn[c] = SaidIn[n] \o SaidEach[p] /\ CalledBy[c] = CalledBy[n] \o CalledOne[p]
  BY <1>2, SaidIsJoined, CalledJoins DEF Joins
<1>4. SaidEach[p] = t /\ CalledOne[p] = <<>>
  BY <1>1 DEF SaidEach, SaidOne, SaidPart, CalledOne, Uses
<1>5. <<>> \o t = t /\ <<>> \o <<>> = <<>>
  BY ConcatEmptySeq, EmptySeq DEF Text
<1> QED
  BY <1>1, <1>2, <1>3, <1>4, <1>5, NothingSays

LEMMA SaysTrans ==
    ASSUME NEW b, NEW c, NEW d, SaysAs(b, c), SaysAs(c, d) PROVE SaysAs(b, d)
BY DEF SaysAs

(* A text and calls that together say what c says. *)
LEMMA TogetherSay ==
    ASSUME NEW c \in Seq(BodyPart), NEW t \in Seq(BodyPart), NEW u \in Seq(BodyPart),
           SaidIn[t] = SaidIn[c], CalledBy[t] = <<>>, SaidIn[u] = <<>>, CalledBy[u] = CalledBy[c]
    PROVE  SaysAs(c, t \o u)
<1>1. t \o u \in Seq(BodyPart) /\ Adds(SaidIn, t, u) /\ Adds(CalledBy, t, u)
  BY BothSay
<1>2. SaidIn[c] \in Text /\ CalledBy[c] \in Seq(Calls)
  BY SaysIs
<1>3. SaidIn[c] \o <<>> = SaidIn[c]
  BY <1>2, TextEnds
<1>4. <<>> \o CalledBy[c] = CalledBy[c]
  BY <1>2, ConcatEmptySeq
<1> QED
  BY <1>1, <1>3, <1>4 DEF Adds, SaysAs

(* The arguments of the calls are parsed. *)
LEMMA ParsedTwice == ASSUME NEW t \in Text PROVE Parsed(Parsed(t)) = Parsed(t)
BY DEF Parsed, Contains

LEMMA OpenAISays ==
    ASSUME NEW c, c.parts \in Seq(BodyPart) PROVE SaysAs(c.parts, FromOpenAIAssistantMessage(c))
<1>1. PICK s \in Seq(BodyPart) : s = c.parts
  OBVIOUS
<1>2. PICK t, T : /\ t \in Seq(BodyPart) /\ t = Texts(s) /\ T = TextIn(BodyPart)
                  /\ t \in Seq(BodyPart \cap T) /\ SaidIn[t] = SaidIn[s] /\ CalledBy[t] = <<>>
  BY TextsSay
<1>3. PICK u \in Seq(BodyPart) : /\ u = ToolUses(s) /\ SaidIn[u] = <<>> /\ CalledBy[u] = CalledBy[s]
  BY UsesSay
<1>4. PICK Q : Q = {p \in BodyPart : ~IsText(p) \/ p.text # <<>>}
  OBVIOUS
<1>5. PICK v \in Seq(BodyPart) : v = Filter(t, LAMBDA p : p.text # <<>>) /\ SaysAs(t, v)
  <2>0. t \in Seq(BodyPart)
    BY <1>2
  <2>1. \A i \in DOMAIN t : t[i] \in BodyPart /\ IsText(t[i])
    <3>1. \A i \in DOMAIN t : t[i] \in BodyPart \cap T
      BY <1>2
    <3> QED
      BY <1>2, <3>1 DEF TextIn
  <2>2. {i \in DOMAIN t : t[i].text # <<>>} = {i \in DOMAIN t : t[i] \in Q}
    BY <1>4, <2>1
  <2>3. Filter(t, LAMBDA p : p.text # <<>>) = Only(t, Q)
    BY <2>2 DEF Filter, Only
  <2>4. DropsNothing(Q)
    BY <1>4 DEF IsToolUse, IsText, DropsNothing
  <2>5. SaysAs(t, Only(t, Q))
    BY <2>0, <2>4, OnlySays
  <2> QED
    BY <2>3, <2>5 DEF SaysAs
<1>6. PICK f : f = [p \in BodyPart |-> IF IsToolUse(p) THEN [p EXCEPT !.text = Parsed(@)] ELSE p]
  OBVIOUS
<1>7. Maps(f, BodyPart, BodyPart)
  <2>1. ASSUME NEW p \in BodyPart PROVE [p EXCEPT !.text = Parsed(@)] \in BodyPart
    <3>1. Parsed(p.text) \in Text
      BY ParsedText DEF BodyPart
    <3> QED
      BY <3>1 DEF BodyPart
  <2> QED
    BY <1>6, <2>1 DEF Maps
<1>8. \A p \in BodyPart : SaidEach[f[p]] = SaidEach[p] /\ CalledOne[f[p]] = CalledOne[p]
  <2> SUFFICES ASSUME NEW p \in BodyPart
               PROVE  SaidEach[f[p]] = SaidEach[p] /\ CalledOne[f[p]] = CalledOne[p]
    OBVIOUS
  <2>1. CASE IsToolUse(p)
    <3>1. PICK q \in BodyPart : q = f[p] /\ q = [p EXCEPT !.text = Parsed(@)]
      BY <1>6, <1>7, <2>1 DEF Maps
    <3>2. q.name = p.name /\ q.type = p.type /\ q.text = Parsed(p.text)
      BY <3>1 DEF BodyPart
    <3>3. Parsed(q.text) = Parsed(p.text)
      BY <3>2, ParsedTwice DEF BodyPart
    <3>4. IsToolUse(q) /\ ~IsText(q) /\ ~IsText(p)
      BY <2>1, <3>2 DEF IsToolUse, IsText
    <3> QED
      BY <2>1, <3>1, <3>2, <3>3, <3>4 DEF SaidEach, SaidOne, SaidPart, CalledOne, Uses, CallOf
  <2>2. CASE ~IsToolUse(p)
    BY <1>6, <2>2
  <2> QED
    BY <2>1, <2>2
<1>9. PICK w \in Seq(BodyPart) : w = Mapped(LAMBDA p : [p EXCEPT !.text = Parsed(@)], u) /\ SaysAs(u, w)
  <2>1. \A i \in DOMAIN u : u[i] \in BodyPart /\ IsToolUse(u[i])
    <3>1. u = Only(s, Uses)
      BY <1>3, UsesAre DEF Uses
    <3>2. u \in Seq(BodyPart \cap Uses)
      BY <3>1, OnlyType
    <3>3. \A i \in DOMAIN u : u[i] \in BodyPart \cap Uses
      BY <3>2
    <3> QED
      BY <3>3 DEF Uses
  <2>2. Mapped(LAMBDA p : [p EXCEPT !.text = Parsed(@)], u) = Through(f, u)
    BY <1>6, <2>1 DEF Mapped, Through
  <2>3. SaysAs(u, Through(f, u))
    BY <1>7, <1>8, ThroughSays
  <2> QED
    BY <2>2, <2>3 DEF SaysAs
<1>10. SaysAs(s, v \o w)
  BY <1>2, <1>3, <1>5, <1>9, TogetherSay DEF SaysAs
<1>11. FromOpenAIAssistantMessage(c) = v \o w
  BY <1>1, <1>2, <1>3, <1>5, <1>9 DEF FromOpenAIAssistantMessage
<1> QED
  BY <1>1, <1>10, <1>11

LEMMA GeminiSays ==
    ASSUME NEW c, NEW n, c.parts \in Seq(BodyPart), Drawn[n] \in Ids
    PROVE  SaysAs(c.parts, FromGeminiCandidate(c, n))
<1>1. PICK s \in Seq(BodyPart) : s = c.parts
  OBVIOUS
<1>2. PICK Q : Q = {p \in BodyPart : p.type \in {"text", "thinking", "tool_use"}}
  OBVIOUS
<1>3. PICK t \in Seq(BodyPart) :
         t = Filter(s, LAMBDA p : p.type \in {"text", "thinking", "tool_use"}) /\ SaysAs(s, t)
  <2>1. \A i \in DOMAIN s : s[i] \in BodyPart
    OBVIOUS
  <2>2. {i \in DOMAIN s : s[i].type \in {"text", "thinking", "tool_use"}} = {i \in DOMAIN s : s[i] \in Q}
    BY <1>2, <2>1
  <2>3. Filter(s, LAMBDA p : p.type \in {"text", "thinking", "tool_use"}) = Only(s, Q)
    BY <2>2 DEF Filter, Only
  <2>4. DropsNothing(Q)
    BY <1>2 DEF IsToolUse, IsText, DropsNothing
  <2>5. SaysAs(s, Only(s, Q))
    BY <2>4, OnlySays
  <2> QED
    BY <2>3, <2>5 DEF SaysAs
<1>4. PICK f : f = [p \in BodyPart |-> IF IsToolUse(p) THEN [p EXCEPT !.id = Drawn[n]] ELSE p]
  OBVIOUS
<1>5. ASSUME NEW p \in BodyPart
      PROVE  f[p] \in BodyPart /\ f[p].type = p.type /\ f[p].name = p.name /\ f[p].text = p.text
  BY <1>4, <1>5 DEF BodyPart
<1>6. Maps(f, BodyPart, BodyPart)
  BY <1>4, <1>5 DEF Maps
<1>7. \A p \in BodyPart : SaidEach[f[p]] = SaidEach[p] /\ CalledOne[f[p]] = CalledOne[p]
  BY <1>5 DEF SaidEach, SaidOne, SaidPart, CalledOne, Uses, CallOf, IsText, IsToolUse
<1>8. SaysAs(t, Through(f, t))
  BY <1>6, <1>7, ThroughSays
<1>9. \A i \in DOMAIN t : t[i] \in BodyPart
  OBVIOUS
<1>10. Mapped(LAMBDA p : IF IsToolUse(p) THEN [p EXCEPT !.id = Drawn[n]] ELSE p, t) = Through(f, t)
  BY <1>4, <1>9 DEF Mapped, Through
<1>11. FromGeminiCandidate(c, n) = Through(f, t)
  BY <1>1, <1>3, <1>10 DEF FromGeminiCandidate
<1> QED
  BY <1>1, <1>3, <1>8, <1>11, SaysTrans

(* What an upstream u is taken to have said: with Anthropic, no call       *)
(* without an id or a name.                                                *)
Addressed(u, p) == u = "Anthropic" /\ IsToolUse(p) => p.id # NoId /\ p.name # NoTool
Given(u, parts) == Filter(parts, LAMBDA p : Addressed(u, p))

LEMMA GivenSays ==
    ASSUME NEW u, NEW c \in Seq(BodyPart)
    PROVE  /\ Given(u, c) \in Seq(BodyPart) /\ SaidIn[Given(u, c)] = SaidIn[c]
           /\ Given(u, c) = Only(c, {p \in BodyPart : Addressed(u, p)})
           /\ u # "Anthropic" => CalledBy[Given(u, c)] = CalledBy[c]
<1>1. PICK Q : Q = {p \in BodyPart : Addressed(u, p)}
  OBVIOUS
<1>2. Given(u, c) = Only(c, Q)
  <2>1. \A i \in DOMAIN c : c[i] \in BodyPart
    OBVIOUS
  <2>2. {i \in DOMAIN c : Addressed(u, c[i])} = {i \in DOMAIN c : c[i] \in Q}
    BY <1>1, <2>1
  <2> QED
    BY <2>2 DEF Given, Filter, Only
<1>3. \A p \in BodyPart : SaidEach[p] = IF p \in Q THEN SaidEach[p] ELSE <<>>
  BY <1>1 DEF SaidEach, SaidOne, SaidPart, Addressed, IsText, IsToolUse
<1>4. \A s \in Seq(BodyPart) : SaidIn[Only(s, Q)] = SaidIn[s]
  BY <1>3, SaidIsJoined, OnlyLike
<1>5. CASE u = "Anthropic"
  BY <1>1, <1>2, <1>4, <1>5, OnlySub
<1>6. CASE u # "Anthropic"
  <2>1. DropsNothing(Q)
    BY <1>1, <1>6 DEF Addressed, DropsNothing
  <2>2. SaysAs(c, Only(c, Q))
    BY <2>1, OnlySays
  <2> QED
    BY <1>1, <1>2, <2>2 DEF SaysAs
<1> QED
  BY <1>5, <1>6

LEMMA AllGiven ==
    ASSUME NEW u, u # "Anthropic", NEW c \in Seq(BodyPart) PROVE SaysAs(Given(u, c), c)
BY GivenSays DEF SaysAs

LEMMA AnthropicSays ==
    ASSUME NEW c \in Seq(BodyPart) PROVE SaysAs(Given("Anthropic", c), Filter(c, KnownBlock))
<1>1. PICK Q, R : Q = {p \in BodyPart : KnownBlock(p)} /\ R = {p \in BodyPart : Addressed("Anthropic", p)}
  OBVIOUS
<1>2. Filter(c, KnownBlock) = Only(c, Q)
  <2>1. \A i \in DOMAIN c : c[i] \in BodyPart
    OBVIOUS
  <2>2. {i \in DOMAIN c : KnownBlock(c[i])} = {i \in DOMAIN c : c[i] \in Q}
    BY <1>1, <2>1
  <2> QED
    BY <2>2 DEF Filter, Only
<1>3. Given("Anthropic", c) = Only(c, R) /\ SaidIn[Given("Anthropic", c)] = SaidIn[c]
  BY <1>1, GivenSays
<1>4. \A p \in BodyPart : SaidEach[p] = IF p \in Q THEN SaidEach[p] ELSE <<>>
  BY <1>1 DEF SaidEach, SaidOne, SaidPart, KnownBlock, IsText
<1>5. \A s \in Seq(BodyPart) : SaidIn[Only(s, Q)] = SaidIn[s]
  BY <1>4, SaidIsJoined, OnlyLike
<1>6. PICK K, k : K = AmongBy(BodyPart, CalledBy, R) /\ k = AmongOne(BodyPart, CalledOne, R)
  OBVIOUS
<1>7. Joins(BodyPart, Seq(Calls), K, k)
  BY <1>6, CalledJoins, AmongJoins
<1>8. \A p \in BodyPart : k[p] = IF p \in Q THEN CalledOne[p] ELSE <<>>
  BY <1>1, <1>6 DEF AmongOne, CalledOne, Uses, KnownBlock, Addressed, IsToolUse
<1>9. \A s \in Seq(BodyPart) : CalledBy[Only(s, Q)] = K[s]
  BY <1>7, <1>8, CalledJoins, OnlyLike
<1>10. K[c] = CalledBy[Only(c, R)]
  BY <1>6 DEF AmongBy
<1> QED
  BY <1>2, <1>3, <1>5, <1>9, <1>10, OnlySub DEF SaysAs

(* The choices of a document, and what is made of them. *)
Offered == [parts: Seq(BodyPart), finish: STRING]
Chosen  == [content: Seq(BodyPart), finish: FinishReasons]

ParsedAs(u, c, r) == /\ r \in Chosen /\ SaysAs(Given(u, c.parts), r.content)
                     /\ r.finish = MapFinishReason(u, c.finish)

LEMMA ReasonsAre == ASSUME NEW u, NEW r PROVE MapFinishReason(u, r) \in FinishReasons
BY DEF MapFinishReason, MapOpenAIFinishReason, MapAnthropicStopReason, MapGeminiFinishReason,
       FinishReasons

AllParsed(u, cs, rs) == /\ rs \in Seq(Chosen) /\ Len(rs) = Len(cs)
                        /\ \A i \in 1..Len(cs) : ParsedAs(u, cs[i], rs[i])

(* From what is made of each to what is made of all. *)
LEMMA AllParsedIs ==
    ASSUME NEW u, NEW f, \A c \in Offered : ParsedAs(u, c, f[c]), f = [c \in Offered |-> f[c]],
           NEW cs \in Seq(Offered)
    PROVE  AllParsed(u, cs, Through(f, cs))
<1>1. Maps(f, Offered, Chosen)
  BY DEF Maps, ParsedAs
<1>2. /\ Through(f, cs) \in Seq(Chosen) /\ Len(Through(f, cs)) = Len(cs)
      /\ \A i \in 1..Len(cs) : Through(f, cs)[i] = f[cs[i]]
  BY <1>1, ThroughIs
<1>3. \A i \in 1..Len(cs) : cs[i] \in Offered
  OBVIOUS
<1> QED
  BY <1>2, <1>3 DEF AllParsed

LEMMA OpenAIParsed ==
    ASSUME NEW u, u \notin {"Anthropic", "Gemini"}, NEW c \in Offered
    PROVE  ParsedAs(u, c, Choice(FromOpenAIAssistantMessage(c), MapOpenAIFinishReason(c.finish)))
<1>1. PICK s, d : s \in Seq(BodyPart) /\ s = c.parts /\ d = FromOpenAIAssistantMessage(c)
  BY DEF Offered
<1>2. SaysAs(s, d)
  BY <1>1, OpenAISays
<1>3. SaysAs(Given(u, s), d)
  BY <1>1, <1>2, AllGiven, SaysTrans
<1>4. MapOpenAIFinishReason(c.finish) = MapFinishReason(u, c.finish)
  BY DEF MapFinishReason
<1> QED
  BY <1>1, <1>3, <1>4, ReasonsAre DEF ParsedAs, Choice, Chosen, SaysAs

LEMMA AnthropicParsed ==
    ASSUME NEW c \in Offered
    PROVE  ParsedAs("Anthropic", c, Choice(Filter(c.parts, KnownBlock), MapAnthropicStopReason(c.finish)))
<1>1. PICK s, d : s \in Seq(BodyPart) /\ s = c.parts /\ d = Filter(s, KnownBlock)
  BY DEF Offered
<1>2. SaysAs(Given("Anthropic", s), d)
  BY <1>1, AnthropicSays
<1>3. MapAnthropicStopReason(c.finish) = MapFinishReason("Anthropic", c.finish)
  BY DEF MapFinishReason
<1> QED
  BY <1>1, <1>2, <1>3, ReasonsAre DEF ParsedAs, Choice, Chosen, SaysAs

LEMMA GeminiParsed ==
    ASSUME NEW n, Drawn[n] \in Ids, NEW c \in Offered
    PROVE  ParsedAs("Gemini", c, Choice(FromGeminiCandidate(c, n), MapGeminiFinishReason(c.finish)))
<1>1. PICK s, d : s \in Seq(BodyPart) /\ s = c.parts /\ d = FromGeminiCandidate(c, n)
  BY DEF Offered
<1>2. SaysAs(s, d)
  BY <1>1, GeminiSays
<1>3. SaysAs(Given("Gemini", s), d)
  BY <1>1, <1>2, AllGiven, SaysTrans
<1>4. MapGeminiFinishReason(c.finish) = MapFinishReason("Gemini", c.finish)
  BY DEF MapFinishReason
<1> QED
  BY <1>1, <1>3, <1>4, ReasonsAre DEF ParsedAs, Choice, Chosen, SaysAs

(* What a document counts. *)
Counted(d, used) == /\ used \in Usage
                    /\ d.usage # <<>> => /\ used.prompt = d.usage[1].prompt
                                         /\ used.completion = d.usage[1].completion

LEMMA UsageIs ==
    ASSUME NEW d \in Document
    PROVE  /\ Counted(d, UsageOf(d))
           /\ Counted(d, [UsageOf(d) EXCEPT !.total = UsageOf(d).prompt + UsageOf(d).completion])
<1>1. PICK us \in Seq(Usage) : us = d.usage
  BY DEF Document
<1>2. us # <<>> => us[1] \in Usage
  OBVIOUS
<1>3. PICK v \in Usage : v = UsageOf(d) /\ (us # <<>> => v = us[1])
  <2>1. NoUsage \in Usage
    BY DEF NoUsage, Usage
  <2>2. UsageOf(d) \in Usage
    BY <1>1, <1>2, <2>1 DEF UsageOf
  <2>3. us # <<>> => UsageOf(d) = us[1]
    BY <1>1 DEF UsageOf
  <2> QED
    BY <2>2, <2>3
<1>4. v.prompt + v.completion \in Nat
  BY DEF Usage
<1>5. PICK w \in Usage : /\ w = [v EXCEPT !.total = v.prompt + v.completion]
                         /\ w.prompt = v.prompt /\ w.completion = v.completion
  <2>1. PICK w : w = [v EXCEPT !.total = v.prompt + v.completion]
    OBVIOUS
  <2>2. w \in Usage /\ w.prompt = v.prompt /\ w.completion = v.completion
    BY <1>4, <2>1 DEF Usage
  <2> QED
    BY <2>1, <2>2
<1> QED
  BY <1>1, <1>3, <1>5 DEF Counted

LEMMA ResponseIs ==
    ASSUME NEW u, NEW n, Drawn[n] \in Ids, NEW d \in Document
    PROVE  /\ AllParsed(u, d.choices, ParseResponse(u, d, n).choices)
           /\ Counted(d, ParseResponse(u, d, n).usage)
<1>1. PICK cs \in Seq(Offered) : cs = d.choices
  BY DEF Document, Offered
<1>2. \A i \in DOMAIN cs : cs[i] \in Offered
  OBVIOUS
<1>3. Counted(d, ParseResponse(u, d, n).usage)
  BY UsageIs DEF ParseResponse, ParseAnthropic, ParseGemini, ParseOpenAI
<1>4. CASE u = "Anthropic"
  <2>1. PICK f : f = [c \in Offered |-> Choice(Filter(c.parts, KnownBlock), MapAnthropicStopReason(c.finish))]
    OBVIOUS
  <2>2. AllParsed(u, cs, Through(f, cs))
    <3>1. \A c \in Offered : ParsedAs(u, c, f[c])
      BY <1>4, <2>1, AnthropicParsed
    <3> QED
      BY <2>1, <3>1, AllParsedIs
  <2>3. Mapped(LAMBDA c : Choice(Filter(c.parts, KnownBlock), MapAnthropicStopReason(c.finish)), cs)
           = Through(f, cs)
    BY <1>2, <2>1 DEF Mapped, Through
  <2> QED
    BY <1>1, <1>3, <1>4, <2>2, <2>3 DEF ParseResponse, ParseAnthropic
<1>5. CASE u = "Gemini"
  <2>1. PICK f : f = [c \in Offered |-> Choice(FromGeminiCandidate(c, n), MapGeminiFinishReason(c.finish))]
    OBVIOUS
  <2>2. AllParsed(u, cs, Through(f, cs))
    <3>1. \A c \in Offered : ParsedAs(u, c, f[c])
      BY <1>5, <2>1, GeminiParsed
    <3> QED
      BY <2>1, <3>1, AllParsedIs
  <2>3. Mapped(LAMBDA c : Choice(FromGeminiCandidate(c, n), MapGeminiFinishReason(c.finish)), cs)
           = Through(f, cs)
    BY <1>2, <2>1 DEF Mapped, Through
  <2> QED
    BY <1>1, <1>3, <1>5, <2>2, <2>3 DEF ParseResponse, ParseGemini
<1>6. CASE u \notin {"Anthropic", "Gemini"}
  <2>1. PICK f : f = [c \in Offered |-> Choice(FromOpenAIAssistantMessage(c), MapOpenAIFinishReason(c.finish))]
    OBVIOUS
  <2>2. AllParsed(u, cs, Through(f, cs))
    <3>1. \A c \in Offered : ParsedAs(u, c, f[c])
      BY <1>6, <2>1, OpenAIParsed
    <3> QED
      BY <2>1, <3>1, AllParsedIs
  <2>3. Mapped(LAMBDA c : Choice(FromOpenAIAssistantMessage(c), MapOpenAIFinishReason(c.finish)), cs)
           = Through(f, cs)
    BY <1>2, <2>1 DEF Mapped, Through
  <2> QED
    BY <1>1, <1>3, <1>6, <2>2, <2>3 DEF ParseResponse, ParseOpenAI
<1> QED
  BY <1>4, <1>5, <1>6

(* What the clients are told of a content. *)
LEMMA TextThenCallsSays == ASSUME NEW c \in Seq(BodyPart) PROVE SaysAs(c, TextThenCalls(c))
<1>1. PICK x \in Text : x = SaidIn[c] /\ x = Joined(Texts(c))
  BY SaysIs DEF Said
<1>2. PICK t \in Seq(BodyPart) : t = <<TextPart(x)>> /\ SaidIn[t] = x /\ CalledBy[t] = <<>>
  BY TextSays
<1>3. PICK v \in Seq(BodyPart) : v = ToolUses(c) /\ SaidIn[v] = <<>> /\ CalledBy[v] = CalledBy[c]
  BY UsesSay
<1>4. SaysAs(c, t \o v)
  BY <1>1, <1>2, <1>3, TogetherSay
<1> QED
  BY <1>1, <1>2, <1>3, <1>4 DEF TextThenCalls

LEMMA OutputItemSays ==
    ASSUME NEW r, r.content \in Seq(BodyPart) PROVE SaysAs(r.content, BuildOutputItem(r).parts)
<1>1. PICK c \in Seq(BodyPart) : c = r.content
  OBVIOUS
<1>2. PICK d \in Seq(BodyPart) : d = TextThenCalls(c) /\ SaysAs(c, d)
  BY TextThenCallsSays DEF SaysAs
<1>3. PICK Q : Q = {p \in BodyPart : ~IsText(p) \/ p.text # <<>>}
  OBVIOUS
<1>4. Filter(d, LAMBDA p : ~IsText(p) \/ p.text # <<>>) = Only(d, Q)
  <2>1. \A i \in DOMAIN d : d[i] \in BodyPart
    OBVIOUS
  <2>2. {i \in DOMAIN d : ~IsText(d[i]) \/ d[i].text # <<>>} = {i \in DOMAIN d : d[i] \in Q}
    BY <1>3, <2>1
  <2> QED
    BY <2>2 DEF Filter, Only
<1>5. DropsNothing(Q)
  BY <1>3 DEF IsToolUse, IsText, DropsNothing
<1>6. SaysAs(d, Only(d, Q))
  BY <1>5, OnlySays
<1>7. BuildOutputItem(r).parts = Only(d, Q)
  BY <1>1, <1>2, <1>4 DEF BuildOutputItem, Told
<1> QED
  BY <1>1, <1>2, <1>6, <1>7, SaysTrans

(* Texts and calls, and nothing else. *)
LEMMA SpokenSays ==
    ASSUME NEW c \in Seq(BodyPart)
    PROVE  SaysAs(c, Filter(c, LAMBDA p : IsText(p) \/ IsToolUse(p)))
<1>1. PICK Q : Q = {p \in BodyPart : IsText(p) \/ IsToolUse(p)}
  OBVIOUS
<1>2. Filter(c, LAMBDA p : IsText(p) \/ IsToolUse(p)) = Only(c, Q)
  <2>1. \A i \in DOMAIN c : c[i] \in BodyPart
    OBVIOUS
  <2>2. {i \in DOMAIN c : IsText(c[i]) \/ IsToolUse(c[i])} = {i \in DOMAIN c : c[i] \in Q}
    BY <1>1, <2>1
  <2> QED
    BY <2>2 DEF Filter, Only
<1>3. DropsNothing(Q)
  BY <1>1 DEF DropsNothing
<1> QED
  BY <1>2, <1>3, OnlySays

LEMMA GeminiPartsSay == ASSUME NEW c \in Seq(BodyPart) PROVE SaysAs(c, ToGeminiParts(c))
<1>1. PICK d \in Seq(BodyPart) : /\ d = Filter(c, LAMBDA p : IsText(p) \/ IsToolUse(p))
                                 /\ SaysAs(c, d)
  BY SpokenSays DEF SaysAs
<1>2. PICK f : f = [p \in BodyPart |-> [p EXCEPT !.id = NoId]]
  OBVIOUS
<1>3. ASSUME NEW p \in BodyPart
      PROVE  f[p] \in BodyPart /\ f[p].type = p.type /\ f[p].name = p.name /\ f[p].text = p.text
  BY <1>2, <1>3, MessagesConfig DEF BodyPart
<1>4. Maps(f, BodyPart, BodyPart)
  BY <1>2, <1>3 DEF Maps
<1>5. \A p \in BodyPart : SaidEach[f[p]] = SaidEach[p] /\ CalledOne[f[p]] = CalledOne[p]
  BY <1>3 DEF SaidEach, SaidOne, SaidPart, CalledOne, Uses, CallOf, IsText, IsToolUse
<1>6. SaysAs(d, Through(f, d))
  BY <1>4, <1>5, ThroughSays
<1>7. \A i \in DOMAIN d : d[i] \in BodyPart
  OBVIOUS
<1>8. ToGeminiParts(c) = Through(f, d)
  <2>1. Mapped(LAMBDA p : [p EXCEPT !.id = NoId], d) = Through(f, d)
    BY <1>2, <1>7 DEF Mapped, Through
  <2> QED
    BY <1>1, <2>1 DEF ToGeminiParts
<1> QED
  BY <1>1, <1>6, <1>8, SaysTrans

(* The words and calls of what is given to a client choice by choice. *)
GivenCalls(u, cs) == FlattenSeq([i \in DOMAIN cs |-> Called(Given(u, cs[i].parts))])

(* Each choice, as the client of u is to find it. *)
GivenAs(u, c, r) == /\ c \in Offered /\ r \in Chosen
                    /\ SaidIn[r.content] = Said(c.parts)
                    /\ CalledBy[r.content] = Called(Given(u, c.parts))
                    /\ r.finish = MapFinishReason(u, c.finish)

LEMMA GivenIs ==
    ASSUME NEW u, NEW cs \in Seq(Offered), NEW rs, AllParsed(u, cs, rs)
    PROVE  DOMAIN rs = DOMAIN cs /\ \A i \in DOMAIN cs : GivenAs(u, cs[i], rs[i])
<1>1. DOMAIN rs = 1..Len(cs) /\ DOMAIN cs = 1..Len(cs) /\ \A i \in DOMAIN cs : cs[i] \in Offered
  BY DEF AllParsed
<1>2. ASSUME NEW i \in DOMAIN cs
      PROVE  GivenAs(u, cs[i], rs[i])
  <2>1. ParsedAs(u, cs[i], rs[i])
    BY <1>1, <1>2 DEF AllParsed
  <2>2. PICK s \in Seq(BodyPart) : s = cs[i].parts
    BY <1>1, <1>2 DEF Offered
  <2>3. PICK g \in Seq(BodyPart) : g = Given(u, s) /\ SaidIn[g] = SaidIn[s]
    BY GivenSays
  <2>4. SaidIn[s] = Said(s) /\ CalledBy[g] = Called(g)
    BY SaysIs
  <2> QED
    BY <1>1, <1>2, <2>1, <2>2, <2>3, <2>4 DEF ParsedAs, SaysAs, GivenAs
<1>3. DOMAIN rs = DOMAIN cs
  BY <1>1
<1> QED
  BY <1>2, <1>3

LEMMA ToldAlike ==
    ASSUME NEW u, NEW cs \in Seq(Offered), NEW rs, AllParsed(u, cs, rs),
           NEW ts, DOMAIN ts = DOMAIN rs,
           \A i \in DOMAIN rs : SaysAs(rs[i].content, ts[i].parts)
    PROVE  WordsOf(ts) = WordsOf(cs) /\ CallsOf(ts) = GivenCalls(u, cs)
<1>1. /\ DOMAIN rs = DOMAIN cs
      /\ \A i \in DOMAIN cs : /\ SaidIn[rs[i].content] = Said(cs[i].parts)
                              /\ CalledBy[rs[i].content] = Called(Given(u, cs[i].parts))
  BY GivenIs DEF GivenAs
<1>2. ASSUME NEW i \in DOMAIN cs
      PROVE  /\ Joined(Texts(ts[i].parts)) = Joined(Texts(cs[i].parts))
             /\ Called(ts[i].parts) = Called(Given(u, cs[i].parts))
  <2>1. SaysAs(rs[i].content, ts[i].parts)
    BY <1>1, <1>2
  <2>2. PICK d \in Seq(BodyPart) : d = ts[i].parts
    BY <2>1 DEF SaysAs
  <2>3. SaidIn[d] = Said(d) /\ CalledBy[d] = Called(d)
    BY SaysIs
  <2> QED
    BY <1>1, <1>2, <2>1, <2>2, <2>3 DEF SaysAs, Said
<1>3. [i \in DOMAIN ts |-> Joined(Texts(ts[i].parts))] = [i \in DOMAIN cs |-> Joined(Texts(cs[i].parts))]
  BY <1>1, <1>2
<1>4. [i \in DOMAIN ts |-> Called(ts[i].parts)] = [i \in DOMAIN cs |-> Called(Given(u, cs[i].parts))]
  BY <1>1, <1>2
<1>5. WordsOf(ts) = WordsOf(cs)
  BY <1>3 DEF WordsOf, Mapped
<1>6. CallsOf(ts) = GivenCalls(u, cs)
  BY <1>4 DEF CallsOf, Mapped, GivenCalls
<1> QED
  BY <1>5, <1>6

(* For Messages the choices are one. *)
LEMMA ToldAtOnce ==
    ASSUME NEW u, NEW cs \in Seq(Offered), NEW rs, AllParsed(u, cs, rs),
           NEW t, SaysAs(FlattenSeq(Mapped(LAMBDA c : c.content, rs)), t.parts)
    PROVE  WordsOf(<<t>>) = WordsOf(cs) /\ CallsOf(<<t>>) = GivenCalls(u, cs)
<1>1. /\ rs \in Seq(Chosen) /\ DOMAIN rs = DOMAIN cs
      /\ \A i \in DOMAIN cs : /\ rs[i] \in Chosen
                              /\ SaidIn[rs[i].content] = Said(cs[i].parts)
                              /\ CalledBy[rs[i].content] = Called(Given(u, cs[i].parts))
  <2>1. rs \in Seq(Chosen)
    BY DEF AllParsed
  <2>2. DOMAIN rs = DOMAIN cs /\ \A i \in DOMAIN cs : GivenAs(u, cs[i], rs[i])
    BY GivenIs
  <2> QED
    BY <2>1, <2>2 DEF GivenAs
<1>2. PICK f, B : f = [r \in Chosen |-> r.content] /\ B = Seq(BodyPart)
  OBVIOUS
<1>3. Maps(f, Chosen, Seq(BodyPart)) /\ Maps(f, Chosen, B)
  BY <1>2 DEF Maps, Chosen
<1>4. Mapped(LAMBDA c : c.content, rs) = Through(f, rs)
  BY <1>1, <1>2 DEF Mapped, Through
<1>5. PICK w, c : /\ w = [r \in Chosen |-> SaidIn[r.content]]
                  /\ c = [r \in Chosen |-> CalledBy[r.content]]
  OBVIOUS
<1>6. Maps(w, Chosen, Text) /\ Maps(c, Chosen, Seq(Calls))
  <2>1. \A r \in Chosen : SaidIn[r.content] \in Text /\ CalledBy[r.content] \in Seq(Calls)
    BY SaysIs DEF Chosen
  <2> QED
    BY <1>5, <2>1 DEF Maps
<1>7. Joins(Chosen, Text, AllOf(w, Chosen), w) /\ Joins(Chosen, Seq(Calls), AllOf(c, Chosen), c)
  <2>1. Strings(Text) /\ Strings(Seq(Calls))
    BY SaidIsJoined, SeqStrings DEF Joins
  <2> QED
    BY <1>6, <2>1, AllJoins
<1>8. \A r \in Chosen : w[r] = SaidIn[f[r]] /\ c[r] = CalledBy[f[r]]
  BY <1>2, <1>5
<1>9. \A s \in Seq(Chosen) : SaidIn[FlattenSeq(Through(f, s))] = AllOf(w, Chosen)[s]
  BY <1>3, <1>7, <1>8, SaidIsJoined, AllLike
<1>10. \A s \in Seq(Chosen) : CalledBy[FlattenSeq(Through(f, s))] = AllOf(c, Chosen)[s]
  BY <1>3, <1>7, <1>8, CalledJoins, AllLike
<1>11. PICK d \in Seq(BodyPart) : d = t.parts
  BY DEF SaysAs
<1>12. SaidIn[d] = FlattenSeq(Through(w, rs)) /\ CalledBy[d] = FlattenSeq(Through(c, rs))
  BY <1>1, <1>4, <1>9, <1>10, <1>11 DEF SaysAs, AllOf
<1>13. Through(w, rs) = [i \in DOMAIN cs |-> Joined(Texts(cs[i].parts))]
  BY <1>1, <1>5 DEF Through, Said
<1>14. Through(c, rs) = [i \in DOMAIN cs |-> Called(Given(u, cs[i].parts))]
  BY <1>1, <1>5 DEF Through
<1>15. SaidIn[d] = WordsOf(cs) /\ CalledBy[d] = GivenCalls(u, cs)
  BY <1>12, <1>13, <1>14 DEF WordsOf, GivenCalls, Mapped
<1>16. WordsOf(<<t>>) = SaidIn[d] /\ CallsOf(<<t>>) = CalledBy[d]
  <2>1. SaidIn[d] = Joined(Texts(d)) /\ CalledBy[d] = Called(d)
    BY SaysIs DEF Said
  <2>2. [i \in DOMAIN <<t>> |-> Joined(Texts(<<t>>[i].parts))] = <<Joined(Texts(d))>>
    BY <1>11
  <2>3. [i \in DOMAIN <<t>> |-> Called(<<t>>[i].parts)] = <<Called(d)>>
    BY <1>11
  <2>4. \A q : FlattenSeq(<<q>>) = q
    BY DEF FlattenSeq
  <2> QED
    BY <2>1, <2>2, <2>3, <2>4 DEF WordsOf, CallsOf, Mapped
<1> QED
  BY <1>15, <1>16

(* What AnswerIsKept says of the choices cs and the usage of a document d, *)
(* and of what client is told of it.                                       *)
Endings(u, client, cs, ts) ==
    client # "OpenAI-Responses" /\ cs # <<>> =>
        LET why == MapFinishReason(u, cs[1].finish)
        IN  /\ why = "length" <=> ts[1].finish \in CutOff
            /\ why = "content_filter" <=> ts[1].finish \in Filtered

ToldOf(u, client, d, reply1) ==
    /\ WordsOf(reply1.choices) = WordsOf(d.choices)
    /\ CallsOf(reply1.choices) = GivenCalls(u, d.choices)
    /\ client # "Anthropic-Messages" => Len(reply1.choices) = Len(d.choices)
    /\ d.usage # <<>> => /\ reply1.usage.prompt = d.usage[1].prompt
                         /\ reply1.usage.completion = d.usage[1].completion
    /\ Endings(u, client, d.choices, reply1.choices)

LEMMA EndsAlike ==
    ASSUME NEW r \in FinishReasons
    PROVE  /\ r = "length" <=> ToOpenAIFinishReason(r) \in CutOff
           /\ r = "content_filter" <=> ToOpenAIFinishReason(r) \in Filtered
           /\ r = "length" <=> ToAnthropicStopReason(r) \in CutOff
           /\ r = "content_filter" <=> ToAnthropicStopReason(r) \in Filtered
           /\ r = "length" <=> ToGeminiFinishReason(r) \in CutOff
           /\ r = "content_filter" <=> ToGeminiFinishReason(r) \in Filtered
BY DEF FinishReasons, CutOff, Filtered, ToOpenAIFinishReason, ToAnthropicStopReason,
       ToGeminiFinishReason

LEMMA EachTold ==
    ASSUME NEW u, NEW client, client # "Anthropic-Messages", NEW d \in Document,
           NEW rs, AllParsed(u, d.choices, rs), NEW used, Counted(d, used),
           NEW ts, DOMAIN ts = DOMAIN rs, Len(ts) = Len(rs),
           \A i \in DOMAIN rs : SaysAs(rs[i].content, ts[i].parts),
           \/ client = "OpenAI-Responses"
           \/ \A i \in DOMAIN rs : ts[i].finish = ToOpenAIFinishReason(rs[i].finish)
           \/ \A i \in DOMAIN rs : ts[i].finish = ToGeminiFinishReason(rs[i].finish)
    PROVE  ToldOf(u, client, d, Reply(ts, used))
<1>1. PICK cs \in Seq(Offered) : cs = d.choices
  BY DEF Document, Offered
<1>2. WordsOf(ts) = WordsOf(cs) /\ CallsOf(ts) = GivenCalls(u, cs)
  BY <1>1, ToldAlike
<1>3. Len(ts) = Len(cs)
  BY <1>1 DEF AllParsed
<1>4. Endings(u, client, cs, ts)
  <2>1. SUFFICES ASSUME client # "OpenAI-Responses", cs # <<>>
                 PROVE  LET why == MapFinishReason(u, cs[1].finish)
                        IN  /\ why = "length" <=> ts[1].finish \in CutOff
                            /\ why = "content_filter" <=> ts[1].finish \in Filtered
    BY DEF Endings
  <2>2. 1 \in DOMAIN cs
    BY <2>1
  <2>3. PICK r \in FinishReasons : r = MapFinishReason(u, cs[1].finish)
    BY ReasonsAre
  <2>4. 1 \in DOMAIN rs /\ rs[1].finish = r
    BY <1>1, <2>2, <2>3, GivenIs DEF GivenAs
  <2>5. ts[1].finish = ToOpenAIFinishReason(r) \/ ts[1].finish = ToGeminiFinishReason(r)
    BY <2>1, <2>4
  <2> QED
    BY <2>3, <2>5, EndsAlike
<1>5. Reply(ts, used).choices = ts /\ Reply(ts, used).usage = used
  BY DEF Reply
<1> QED
  BY <1>1, <1>2, <1>3, <1>4, <1>5 DEF ToldOf, Counted

LEMMA AtOnceTold ==
    ASSUME NEW u, NEW client, client = "Anthropic-Messages", NEW d \in Document,
           NEW rs, AllParsed(u, d.choices, rs), NEW used, Counted(d, used),
           NEW t, SaysAs(FlattenSeq(Mapped(LAMBDA c : c.content, rs)), t.parts),
           t.finish = ToAnthropicStopReason(IF rs = <<>> THEN "stop" ELSE rs[1].finish)
    PROVE  ToldOf(u, client, d, Reply(<<t>>, [used EXCEPT !.total = 0]))
<1>1. PICK cs \in Seq(Offered) : cs = d.choices
  BY DEF Document, Offered
<1>2. WordsOf(<<t>>) = WordsOf(cs) /\ CallsOf(<<t>>) = GivenCalls(u, cs)
  BY <1>1, ToldAtOnce
<1>3. Endings(u, client, cs, <<t>>)
  <2>1. SUFFICES ASSUME cs # <<>>
                 PROVE  LET why == MapFinishReason(u, cs[1].finish)
                        IN  /\ why = "length" <=> <<t>>[1].finish \in CutOff
                            /\ why = "content_filter" <=> <<t>>[1].finish \in Filtered
    BY DEF Endings
  <2>2. 1 \in DOMAIN cs
    BY <2>1
  <2>3. PICK r \in FinishReasons : r = MapFinishReason(u, cs[1].finish)
    BY ReasonsAre
  <2>4. 1 \in DOMAIN rs /\ rs[1].finish = r
    BY <1>1, <2>2, <2>3, GivenIs DEF GivenAs
  <2>5. rs # <<>>
    BY <2>4
  <2>6. <<t>>[1].finish = ToAnthropicStopReason(r)
    BY <2>4, <2>5
  <2> QED
    BY <2>3, <2>6, EndsAlike
<1>4. PICK v : v = [used EXCEPT !.total = 0] /\ v.prompt = used.prompt /\ v.completion = used.completion
  <2>1. PICK v : v = [used EXCEPT !.total = 0]
    OBVIOUS
  <2>2. v.prompt = used.prompt /\ v.completion = used.completion
    BY <2>1 DEF Counted, Usage
  <2> QED
    BY <2>1, <2>2
<1>5. Reply(<<t>>, v).choices = <<t>> /\ Reply(<<t>>, v).usage = v
  BY DEF Reply
<1>6. d.usage # <<>> => v.prompt = d.usage[1].prompt /\ v.completion = d.usage[1].completion
  BY <1>4 DEF Counted
<1> QED
  BY <1>1, <1>2, <1>3, <1>4, <1>5, <1>6 DEF ToldOf

LEMMA SerializedTells ==
    ASSUME NEW u, NEW client, NEW d \in Document, NEW response,
           AllParsed(u, d.choices, response.choices), Counted(d, response.usage)
    PROVE  ToldOf(u, client, d, SerializeResponse(client, response))
<1>1. PICK rs, used : rs = response.choices /\ used = response.usage
  OBVIOUS
<1>2. rs \in Seq(Chosen)
  BY <1>1 DEF AllParsed
<1>3. \A i \in DOMAIN rs : rs[i].content \in Seq(BodyPart)
  <2>1. \A i \in DOMAIN rs : rs[i] \in Chosen
    BY <1>2
  <2>2. \A r \in Chosen : r.content \in Seq(BodyPart)
    BY DEF Chosen
  <2> QED
    BY <2>1, <2>2
<1>4. CASE client = "OpenAI-Chat"
  <2>1. PICK ts : ts = Mapped(LAMBDA c : Told(TextThenCalls(c.content), ToOpenAIFinishReason(c.finish)), rs)
    OBVIOUS
  <2>2. /\ DOMAIN ts = DOMAIN rs /\ Len(ts) = Len(rs)
        /\ \A i \in DOMAIN rs : /\ ts[i].parts = TextThenCalls(rs[i].content)
                                /\ ts[i].finish = ToOpenAIFinishReason(rs[i].finish)
    BY <1>2, <2>1 DEF Mapped, Told
  <2>3. \A i \in DOMAIN rs : SaysAs(rs[i].content, ts[i].parts)
    BY <1>3, <2>2, TextThenCallsSays
  <2>4. ToldOf(u, client, d, Reply(ts, used))
    BY <1>1, <1>4, <2>2, <2>3, EachTold
  <2> QED
    BY <1>1, <1>4, <2>1, <2>4 DEF SerializeResponse, SerializeChat
<1>5. CASE client = "OpenAI-Responses"
  <2>1. PICK ts : ts = Mapped(BuildOutputItem, rs)
    OBVIOUS
  <2>2. /\ DOMAIN ts = DOMAIN rs /\ Len(ts) = Len(rs)
        /\ \A i \in DOMAIN rs : ts[i] = BuildOutputItem(rs[i])
    BY <1>2, <2>1 DEF Mapped
  <2>3. \A i \in DOMAIN rs : SaysAs(rs[i].content, ts[i].parts)
    BY <1>3, <2>2, OutputItemSays
  <2>4. ToldOf(u, client, d, Reply(ts, used))
    BY <1>1, <1>5, <2>2, <2>3, EachTold
  <2> QED
    BY <1>1, <1>5, <2>1, <2>4 DEF SerializeResponse, SerializeResponses
<1>6. CASE client = "Anthropic-Messages"
  <2>1. PICK c : c = FlattenSeq(Mapped(LAMBDA r : r.content, rs))
    OBVIOUS
  <2>2. PICK t : t = Told(Filter(c, LAMBDA p : IsText(p) \/ IsToolUse(p)),
                          ToAnthropicStopReason(IF rs = <<>> THEN "stop" ELSE rs[1].finish))
    OBVIOUS
  <2>3. c \in Seq(BodyPart)
    <3>1. PICK f, B : f = [r \in Chosen |-> r.content] /\ B = Seq(BodyPart)
      OBVIOUS
    <3>2. Maps(f, Chosen, B) /\ Joinable(B)
      BY <3>1, SeqJoinable DEF Maps, Chosen
    <3>3. \A i \in DOMAIN rs : rs[i] \in Chosen
      BY <1>2
    <3>4. Mapped(LAMBDA r : r.content, rs) = Through(f, rs)
      BY <3>1, <3>3 DEF Mapped, Through
    <3>5. PICK ss \in Seq(B) : ss = Through(f, rs)
      BY <1>2, <3>2, ThroughIs
    <3>6. FlattenSeq(ss) \in B
      BY <3>2, FlattenType
    <3> QED
      BY <2>1, <3>1, <3>4, <3>5, <3>6
  <2>4. SaysAs(c, t.parts)
    BY <2>2, <2>3, SpokenSays DEF Told
  <2>5. t.finish = ToAnthropicStopReason(IF rs = <<>> THEN "stop" ELSE rs[1].finish)
    BY <2>2 DEF Told
  <2>6. ToldOf(u, client, d, Reply(<<t>>, [used EXCEPT !.total = 0]))
    BY <1>1, <1>6, <2>1, <2>4, <2>5, AtOnceTold
  <2> QED
    BY <1>1, <1>6, <2>1, <2>2, <2>6 DEF SerializeResponse, SerializeMessages
<1>7. CASE client \notin {"OpenAI-Chat", "OpenAI-Responses", "Anthropic-Messages"}
  <2>1. PICK ts : ts = Mapped(LAMBDA c : Told(ToGeminiParts(c.content), ToGeminiFinishReason(c.finish)), rs)
    OBVIOUS
  <2>2. /\ DOMAIN ts = DOMAIN rs /\ Len(ts) = Len(rs)
        /\ \A i \in DOMAIN rs : /\ ts[i].parts = ToGeminiParts(rs[i].content)
                                /\ ts[i].finish = ToGeminiFinishReason(rs[i].finish)
    BY <1>2, <2>1 DEF Mapped, Told
  <2>3. \A i \in DOMAIN rs : SaysAs(rs[i].content, ts[i].parts)
    BY <1>3, <2>2, GeminiPartsSay
  <2>4. ToldOf(u, client, d, Reply(ts, used))
    BY <1>1, <1>7, <2>2, <2>3, EachTold
  <2> QED
    BY <1>1, <1>7, <2>1, <2>4 DEF SerializeResponse, SerializeGenerate
<1> QED
  BY <1>4, <1>5, <1>6, <1>7

-----------------------------------------------------------------------------
(* Who is asked, and in which exchange; and what it brought.               *)
AnswerInv ==
    /\ upstream \in DOMAIN Documents /\ exchanges \in 0..MaxExchanges
    /\ phase \in {"accepted", "sent"} => exchanges \in 1..MaxExchanges
    /\ phase = "answered" =>
          /\ document[1] \in Document
          /\ ToldOf(upstream, asked[1].client, document[1], reply[1])

LEMMA AnsweredCalls ==
    ASSUME NEW cs \in Seq(Offered)
    PROVE  CallsOf(Mapped(Answered, cs)) = GivenCalls(upstream, cs)
<1>1. \A i \in DOMAIN cs : cs[i] \in Offered
  OBVIOUS
<1>2. ASSUME NEW i \in DOMAIN cs PROVE Answered(cs[i]).parts = Given(upstream, cs[i].parts)
  BY <1>1, <1>2 DEF Answered, Given, Addressed, Offered
<1>3. [i \in DOMAIN Mapped(Answered, cs) |-> Called(Mapped(Answered, cs)[i].parts)]
         = [i \in DOMAIN cs |-> Called(Given(upstream, cs[i].parts))]
  BY <1>2 DEF Mapped
<1> QED
  BY <1>3 DEF CallsOf, GivenCalls, Mapped

LEMMA AnswerInvKept == AnswerInv => AnswerIsKept
<1> SUFFICES ASSUME AnswerInv, phase = "answered" PROVE AnswerIsKept
  BY DEF AnswerIsKept
<1>1. PICK d \in Document : d = document[1]
  BY DEF AnswerInv
<1>2. ToldOf(upstream, asked[1].client, d, reply[1])
  BY <1>1 DEF AnswerInv
<1>3. CallsOf(Mapped(Answered, d.choices)) = GivenCalls(upstream, d.choices)
  <2>1. d.choices \in Seq(Offered)
    BY DEF Document, Offered
  <2> QED
    BY <2>1, AnsweredCalls
<1> QED
  BY <1>1, <1>2, <1>3 DEF AnswerIsKept, ToldOf, Endings

LEMMA AnswerInvInit == Init => AnswerInv
BY ExchangeConfig DEF Init, AnswerInv

LEMMA AnswerInvArrives ==
    ASSUME AnswerInv, NEW r \in Requests, Refuse(r) \/ AnswerFromCache(r) \/ Accept(r)
    PROVE  AnswerInv'
<1>1. Arrives(r) /\ phase' # "answered"
  BY DEF Refuse, AnswerFromCache, Accept
<1>2. exchanges' \in 1..MaxExchanges /\ exchanges' \in 0..MaxExchanges /\ upstream' = upstream
  BY <1>1, ExchangeConfig DEF Arrives, AnswerInv
<1> QED
  BY <1>1, <1>2 DEF AnswerInv

LEMMA AnswerInvAnswered ==
    ASSUME AnswerInv, NEW d \in Documents[upstream], CallSucceeds(d) PROVE AnswerInv'
<1>1. PICK r : r = ParseResponse(upstream, d, exchanges)
  OBVIOUS
<1>2. /\ phase = "sent" /\ phase' = "answered" /\ document' = <<d>>
      /\ reply' = <<SerializeResponse(asked[1].client, r)>>
      /\ upstream' = upstream /\ asked' = asked /\ exchanges' = exchanges
  BY <1>1 DEF CallSucceeds
<1>3. exchanges \in 1..MaxExchanges /\ Drawn[exchanges] \in Ids /\ d \in Document
  BY <1>2, ExchangeConfig DEF AnswerInv
<1>4. AllParsed(upstream, d.choices, r.choices) /\ Counted(d, r.usage)
  BY <1>1, <1>3, ResponseIs
<1>5. ToldOf(upstream, asked[1].client, d, SerializeResponse(asked[1].client, r))
  BY <1>3, <1>4, SerializedTells
<1>6. document'[1] = d /\ reply'[1] = SerializeResponse(asked[1].client, r)
  BY <1>2
<1>7. ToldOf(upstream', asked'[1].client, document'[1], reply'[1])
  BY <1>2, <1>5, <1>6
<1> QED
  BY <1>2, <1>3, <1>6, <1>7 DEF AnswerInv

LEMMA AnswerInvStep == ASSUME AnswerInv, [Next]_vars PROVE AnswerInv'
<1>1. CASE \E r \in Requests : Refuse(r) \/ AnswerFromCache(r) \/ Accept(r)
  BY <1>1, AnswerInvArrives
<1>2. CASE Send
  <2>1. phase = "accepted" /\ phase' = "sent" /\ exchanges' = exchanges /\ upstream' = upstream
    BY <1>2 DEF Send
  <2> QED
    BY <2>1 DEF AnswerInv
<1>3. CASE CallFails
  <2>1. phase' = "refused" /\ exchanges' = exchanges /\ upstream' = upstream
    BY <1>3 DEF CallFails
  <2> QED
    BY <2>1 DEF AnswerInv
<1>4. CASE \E d \in Documents[upstream] : CallSucceeds(d)
  BY <1>4, AnswerInvAnswered
<1>5. CASE UNCHANGED <<upstream, phase, exchanges, asked, ir, parsed, wire, document, reply,
                       hit, cache>>
  BY <1>5 DEF AnswerInv
<1> QED
  BY <1>1, <1>2, <1>3, <1>4, <1>5 DEF Next, ExchangeNext, vars

(* What an upstream answered is what the client is told: for every         *)
(* document, the words of each choice in their order, the calls with their *)
(* arguments, what was counted and why the answer ended (parseResponse of  *)
(* the adapters, serializeResponse of the clients).                        *)
THEOREM AnswerKept == Spec => []AnswerIsKept
<1>1. AnswerInv /\ [Next]_vars => AnswerInv'
  BY AnswerInvStep
<1> QED
  BY AnswerInvInit, AnswerInvKept, <1>1, PTL DEF Spec

-----------------------------------------------------------------------------
(* What a serializer sends for one event: at most one event, with the      *)
(* text; a Messages client gets it unless it is the first.                 *)
Sayings    == Seq(Text)
ToolDeltas == Seq(ToolDelta)

Brings(r) == IF r.out = <<>> THEN <<>> ELSE r.out[1].text

OneAtMost(out) == out = <<>> \/ \E c \in ClientEvent : out = <<c>>

Serializes(client, e, s, r) ==
    /\ r.state \in StreamState /\ OneAtMost(r.out)
    /\ client # "Anthropic-Messages" => Brings(r) = e.text
    /\ client = "Anthropic-Messages" /\ s.outputItemId =>
          Brings(r) = e.text /\ r.state.outputItemId
    /\ client = "Anthropic-Messages" /\ ~s.outputItemId =>
          Brings(r) = <<>> /\ (r.state.outputItemId <=> e.text # <<>>)
    /\ client = "OpenAI-Chat" => r.out # <<>> /\ r.out[1].tool = e.tool

(* The fields of an event of the client. *)
Shows(c, text, tool) == c \in ClientEvent /\ c.text = text /\ c.tool = tool

LEMMA EventIs ==
    ASSUME NEW e \in Event
    PROVE  /\ e.text \in Optional(Text) /\ e.thinking \in Optional(Text) /\ e.tool \in ToolDeltas
           /\ e.usage \in Optional(Usage) /\ e.finish \in Optional(FinishReasons)
BY DEF Event, ToolDeltas

LEMMA OptionalText ==
    ASSUME NEW t \in Optional(Text)
    PROVE  t \in Sayings /\ (t = <<>> \/ Len(t) = 1)
<1>1. PICK T : T = Text
  OBVIOUS
<1>2. t \in Seq(T) /\ Len(t) \in Nat /\ Len(t) <= 1
  BY <1>1 DEF Optional
<1>3. Len(t) = 0 => t = <<>>
  BY <1>2, EmptySeq
<1> QED
  BY <1>1, <1>2, <1>3 DEF Sayings

LEMMA OptionalIs ==
    ASSUME NEW S, NEW x \in S PROVE <<>> \in Optional(S) /\ <<x>> \in Optional(S)
<1>1. <<>> \in Seq(S) /\ <<x>> \in Seq(S) /\ Len(<<>>) <= 1 /\ Len(<<x>>) <= 1
  OBVIOUS
<1> QED
  BY <1>1 DEF Optional

LEMMA NoneIs == ASSUME NEW S PROVE <<>> \in Optional(S)
<1>1. <<>> \in Seq(S) /\ Len(<<>>) <= 1
  OBVIOUS
<1> QED
  BY <1>1 DEF Optional

LEMMA MappedIs ==
    ASSUME NEW S, NEW R, NEW f \in [S -> R], NEW q \in Optional(S)
    PROVE  Through(f, q) \in Optional(R)
<1>1. Len(q) \in Nat /\ DOMAIN q = 1..Len(q) /\ Len(q) <= 1 /\ \A i \in DOMAIN q : q[i] \in S
  BY DEF Optional
<1> QED
  BY <1>1 DEF Through, Optional

LEMMA SentIs ==
    ASSUME NEW s, NEW c, NEW text, NEW tool, Shows(c, text, tool)
    PROVE  OneAtMost(Sends(c, s).out) /\ Brings(Sends(c, s)) = text /\ Sends(c, s).state = s
           /\ Sends(c, s).out # <<>> /\ Sends(c, s).out[1].tool = tool
BY DEF Sends, OneAtMost, Brings, Shows

(* What a client event is made of. *)
Made(text, thinking, tool, finish, usage) ==
    /\ text \in Optional(Text) /\ thinking \in Optional(Text) /\ tool \in ToolDeltas
    /\ finish \in Optional(StopReasons) /\ usage \in Optional(Usage)

LEMMA ShowsIs ==
    ASSUME NEW b \in BOOLEAN, NEW text, NEW thinking, NEW tool, NEW finish, NEW usage,
           Made(text, thinking, tool, finish, usage)
    PROVE  Shows([start |-> b, text |-> text, thinking |-> thinking, tool |-> tool,
                  finish |-> finish, usage |-> usage], text, tool)
BY DEF Shows, Made, ClientEvent, ToolDeltas

LEMMA NothingIs ==
    ASSUME NEW s
    PROVE  OneAtMost(SendsNothing(s).out) /\ Brings(SendsNothing(s)) = <<>> /\ SendsNothing(s).state = s
BY DEF SendsNothing, OneAtMost, Brings

LEMMA ChatSerializes ==
    ASSUME NEW e \in Event, NEW s \in StreamState
    PROVE  Serializes("OpenAI-Chat", e, s, ToChatChunk(e, s))
<1>1. PICK f : f = Mapped(ToOpenAIFinishReason, e.finish)
  OBVIOUS
<1>2. f \in Optional(StopReasons)
  <2>1. PICK q \in Optional(FinishReasons) : q = e.finish
    BY EventIs
  <2>2. PICK g : g = [r \in FinishReasons |-> ToOpenAIFinishReason(r)]
    OBVIOUS
  <2>3. g \in [FinishReasons -> StopReasons]
    BY <2>2 DEF ToOpenAIFinishReason, FinishReasons, StopReasons
  <2>4. \A i \in DOMAIN q : q[i] \in FinishReasons
    BY DEF Optional
  <2>5. Mapped(ToOpenAIFinishReason, q) = Through(g, q)
    BY <2>2, <2>4 DEF Mapped, Through
  <2> QED
    BY <1>1, <2>1, <2>3, <2>5, MappedIs
<1>3. PICK c : c = [Silent EXCEPT !.text = e.text, !.tool = e.tool, !.usage = e.usage, !.finish = f]
  OBVIOUS
<1>4. Shows(c, e.text, e.tool)
  <2>1. Made(e.text, <<>>, e.tool, f, e.usage)
    BY <1>2, EventIs, NoneIs DEF Made
  <2>2. c = [start |-> FALSE, text |-> e.text, thinking |-> <<>>, tool |-> e.tool,
             finish |-> f, usage |-> e.usage]
    BY <1>3 DEF Silent
  <2> QED
    BY <2>1, <2>2, ShowsIs
<1>5. ToChatChunk(e, s) = Sends(c, s)
  BY <1>1, <1>3 DEF ToChatChunk
<1> QED
  BY <1>4, <1>5, SentIs DEF Serializes

LEMMA ResponsesSerializes ==
    ASSUME NEW e \in Event, NEW s \in StreamState
    PROVE  Serializes("OpenAI-Responses", e, s, ToResponsesEvent(e, s))
<1>0. \A n \in {<<>>} : Made(n, n, n, n, n)
  BY NoneIs, EmptySeq DEF Made, ToolDeltas
<1>1. CASE e.text # <<>>
  <2>1. PICK c : c = [Silent EXCEPT !.text = e.text]
    OBVIOUS
  <2>2. Shows(c, e.text, <<>>)
    <3>1. Made(e.text, <<>>, <<>>, <<>>, <<>>)
      BY <1>0, EventIs DEF Made
    <3>2. c = [start |-> FALSE, text |-> e.text, thinking |-> <<>>, tool |-> <<>>,
               finish |-> <<>>, usage |-> <<>>]
      BY <2>1 DEF Silent
    <3> QED
      BY <3>1, <3>2, ShowsIs
  <2>3. ToResponsesEvent(e, s) = Sends(c, s)
    BY <1>1, <2>1 DEF ToResponsesEvent
  <2> QED
    BY <2>2, <2>3, SentIs DEF Serializes
<1>2. CASE e.text = <<>> /\ e.tool # <<>>
  <2>1. PICK t \in ToolDelta : t = e.tool[1]
    <3>1. e.tool \in Seq(ToolDelta)
      BY EventIs DEF ToolDeltas
    <3> QED
      BY <1>2, <3>1
  <2>2. PICK d : d = <<[t EXCEPT !.name = <<>>]>>
    OBVIOUS
  <2>3. d \in ToolDeltas
    <3>1. <<>> \in Seq(Tools)
      OBVIOUS
    <3>2. [t EXCEPT !.name = <<>>] \in ToolDelta
      BY <3>1 DEF ToolDelta
    <3> QED
      BY <2>2, <3>2 DEF ToolDeltas
  <2>4. PICK c : c = [Silent EXCEPT !.tool = d]
    OBVIOUS
  <2>5. Shows(c, <<>>, d)
    <3>1. Made(<<>>, <<>>, d, <<>>, <<>>)
      BY <1>0, <2>3 DEF Made
    <3>2. c = [start |-> FALSE, text |-> <<>>, thinking |-> <<>>, tool |-> d,
               finish |-> <<>>, usage |-> <<>>]
      BY <2>4 DEF Silent
    <3> QED
      BY <3>1, <3>2, ShowsIs
  <2>6. PICK z : z = IF t.name # <<>> THEN [s EXCEPT !.toolUseId = <<t.id>>] ELSE s
    OBVIOUS
  <2>7. z \in StreamState
    <3>1. <<t.id>> \in Seq(Ids)
      BY <2>1 DEF ToolDelta
    <3> QED
      BY <2>6, <3>1 DEF StreamState
  <2>8. ToResponsesEvent(e, s) = Sends(c, z)
    BY <1>2, <2>1, <2>2, <2>4, <2>6 DEF ToResponsesEvent
  <2> QED
    BY <1>2, <2>5, <2>7, <2>8, SentIs DEF Serializes
<1>3. CASE e.text = <<>> /\ e.tool = <<>> /\ e.finish # <<>>
  <2>1. PICK c : c = [Silent EXCEPT !.finish = <<"completed">>, !.usage = e.usage]
    OBVIOUS
  <2>2. Shows(c, <<>>, <<>>)
    <3>1. <<"completed">> \in Optional(StopReasons)
      BY OptionalIs DEF StopReasons
    <3>2. Made(<<>>, <<>>, <<>>, <<"completed">>, e.usage)
      BY <1>0, <3>1, EventIs DEF Made
    <3>3. c = [start |-> FALSE, text |-> <<>>, thinking |-> <<>>, tool |-> <<>>,
               finish |-> <<"completed">>, usage |-> e.usage]
      BY <2>1 DEF Silent
    <3> QED
      BY <3>2, <3>3, ShowsIs
  <2>3. ToResponsesEvent(e, s) = Sends(c, s)
    BY <1>3, <2>1 DEF ToResponsesEvent
  <2> QED
    BY <1>3, <2>2, <2>3, SentIs DEF Serializes
<1>4. CASE e.text = <<>> /\ e.tool = <<>> /\ e.finish = <<>>
  <2>1. ToResponsesEvent(e, s) = SendsNothing(s)
    BY <1>4 DEF ToResponsesEvent
  <2> QED
    BY <1>4, <2>1, NothingIs DEF Serializes
<1> QED
  BY <1>1, <1>2, <1>3, <1>4

LEMMA GeminiSerializes ==
    ASSUME NEW client, client \notin {"OpenAI-Chat", "OpenAI-Responses", "Anthropic-Messages"},
           NEW e \in Event, NEW s \in StreamState
    PROVE  Serializes(client, e, s, ToGeminiChunk(e, s))
<1>1. CASE e.text \o e.thinking = <<>> /\ e.tool = <<>>
  <2>1. e.text = <<>>
    <3>1. PICK x \in Sayings, y \in Sayings : x = e.text /\ y = e.thinking
      BY EventIs, OptionalText
    <3>2. Len(x \o y) = Len(x) + Len(y) /\ Len(x) \in Nat /\ Len(y) \in Nat
      <4>1. PICK T : T = Text
        OBVIOUS
      <4>2. x \in Seq(T) /\ y \in Seq(T)
        BY <4>1 DEF Sayings
      <4> QED
        BY <4>2
    <3>3. Len(x) = 0
      BY <1>1, <3>1, <3>2
    <3> QED
      BY <3>1, <3>3, EmptySeq DEF Sayings
  <2>2. ToGeminiChunk(e, s) = SendsNothing(s)
    BY <1>1 DEF ToGeminiChunk
  <2> QED
    BY <2>1, <2>2, NothingIs DEF Serializes
<1>2. CASE ~(e.text \o e.thinking = <<>> /\ e.tool = <<>>)
  <2>1. PICK d : d = Mapped(LAMBDA t : [t EXCEPT !.id = NoId], e.tool)
    OBVIOUS
  <2>2. d \in ToolDeltas
    <3>1. PICK q \in Seq(ToolDelta) : q = e.tool
      BY EventIs DEF ToolDeltas
    <3>2. \A t \in ToolDelta : [t EXCEPT !.id = NoId] \in ToolDelta
      BY MessagesConfig DEF ToolDelta
    <3>3. PICK f : f = [t \in ToolDelta |-> [t EXCEPT !.id = NoId]]
      OBVIOUS
    <3>4. Maps(f, ToolDelta, ToolDelta)
      BY <3>2, <3>3 DEF Maps
    <3>5. \A i \in DOMAIN q : q[i] \in ToolDelta
      OBVIOUS
    <3>6. Mapped(LAMBDA t : [t EXCEPT !.id = NoId], q) = Through(f, q)
      BY <3>3, <3>5 DEF Mapped, Through
    <3>7. Through(f, q) \in Seq(ToolDelta)
      BY <3>4, ThroughIs
    <3> QED
      BY <2>1, <3>1, <3>6, <3>7 DEF ToolDeltas
  <2>3. PICK c : c = [Silent EXCEPT !.text = e.text, !.thinking = e.thinking, !.tool = d]
    OBVIOUS
  <2>4. Shows(c, e.text, d)
    <3>1. Made(e.text, e.thinking, d, <<>>, <<>>)
      BY <2>2, EventIs, NoneIs DEF Made
    <3>2. c = [start |-> FALSE, text |-> e.text, thinking |-> e.thinking, tool |-> d,
               finish |-> <<>>, usage |-> <<>>]
      BY <2>3 DEF Silent
    <3> QED
      BY <3>1, <3>2, ShowsIs
  <2>5. ToGeminiChunk(e, s) = Sends(c, s)
    BY <1>2, <2>1, <2>3 DEF ToGeminiChunk
  <2> QED
    BY <2>4, <2>5, SentIs DEF Serializes
<1> QED
  BY <1>1, <1>2

LEMMA AnthropicSerializes ==
    ASSUME NEW e \in Event, NEW s \in StreamState
    PROVE  Serializes("Anthropic-Messages", e, s, ToAnthropicEvent(e, s))
<1>0. \A n \in {<<>>} : Made(n, n, n, n, n)
  BY NoneIs, EmptySeq DEF Made, ToolDeltas
<1>01. Start = [start |-> TRUE, text |-> <<>>, thinking |-> <<>>, tool |-> <<>>,
                finish |-> <<>>, usage |-> <<>>]
  <2>1. PICK c : c = Start
    OBVIOUS
  <2>2. c = [start |-> TRUE, text |-> <<>>, thinking |-> <<>>, tool |-> <<>>,
             finish |-> <<>>, usage |-> <<>>]
    BY <2>1 DEF Start, Silent
  <2> QED
    BY <2>1, <2>2
<1>02. Shows(Start, <<>>, <<>>)
  BY <1>0, <1>01, ShowsIs
<1>1. CASE e.text # <<>>
  <2>1. ToAnthropicEvent(e, s) = ToAnthropicText(e, s)
    BY <1>1 DEF ToAnthropicEvent
  <2>2. CASE s.outputItemId
    <3>1. PICK c : c = [Silent EXCEPT !.text = e.text]
      OBVIOUS
    <3>2. Shows(c, e.text, <<>>)
      <4>1. Made(e.text, <<>>, <<>>, <<>>, <<>>)
        BY <1>0, EventIs DEF Made
      <4>2. c = [start |-> FALSE, text |-> e.text, thinking |-> <<>>, tool |-> <<>>,
                 finish |-> <<>>, usage |-> <<>>]
        BY <3>1 DEF Silent
      <4> QED
        BY <4>1, <4>2, ShowsIs
    <3>3. ToAnthropicEvent(e, s) = Sends(c, s)
      BY <2>1, <2>2, <3>1 DEF ToAnthropicText
    <3> QED
      BY <2>2, <3>2, <3>3, SentIs DEF Serializes
  <2>3. CASE ~s.outputItemId
    <3>1. PICK z : z = [s EXCEPT !.outputItemId = TRUE]
      OBVIOUS
    <3>2. z \in StreamState /\ z.outputItemId
      BY <3>1 DEF StreamState
    <3>3. ToAnthropicEvent(e, s) = Sends(Start, z)
      BY <2>1, <2>3, <3>1 DEF ToAnthropicText
    <3> QED
      BY <1>1, <1>02, <2>3, <3>2, <3>3, SentIs DEF Serializes
  <2> QED
    BY <2>2, <2>3
<1>2. ASSUME e.text = <<>>, NEW c, NEW z \in StreamState, NEW tool, Shows(c, <<>>, tool),
             z.outputItemId = s.outputItemId, ToAnthropicEvent(e, s) = Sends(c, z)
      PROVE  Serializes("Anthropic-Messages", e, s, ToAnthropicEvent(e, s))
  BY <1>2, SentIs DEF Serializes
<1>3. CASE e.text = <<>> /\ e.thinking # <<>>
  <2>1. ToAnthropicEvent(e, s) = ToAnthropicThinking(e, s)
    BY <1>3 DEF ToAnthropicEvent
  <2>2. CASE s.toolUseId \notin {<<>>, <<NoId>>}
    <3>1. PICK c : c = [Silent EXCEPT !.thinking = e.thinking]
      OBVIOUS
    <3>2. Shows(c, <<>>, <<>>)
      <4>1. Made(<<>>, e.thinking, <<>>, <<>>, <<>>)
        BY <1>0, EventIs DEF Made
      <4>2. c = [start |-> FALSE, text |-> <<>>, thinking |-> e.thinking, tool |-> <<>>,
                 finish |-> <<>>, usage |-> <<>>]
        BY <3>1 DEF Silent
      <4> QED
        BY <4>1, <4>2, ShowsIs
    <3>3. ToAnthropicEvent(e, s) = Sends(c, s)
      BY <2>1, <2>2, <3>1 DEF ToAnthropicThinking
    <3> QED
      BY <1>2, <1>3, <3>2, <3>3
  <2>3. CASE s.toolUseId \in {<<>>, <<NoId>>}
    <3>1. PICK z : z = [s EXCEPT !.toolUseId = <<ThinkingId>>]
      OBVIOUS
    <3>2. z \in StreamState /\ z.outputItemId = s.outputItemId
      <4>1. <<ThinkingId>> \in Seq(Ids)
        BY StreamsConfig
      <4> QED
        BY <3>1, <4>1 DEF StreamState
    <3>3. ToAnthropicEvent(e, s) = Sends(Start, z)
      BY <2>1, <2>3, <3>1 DEF ToAnthropicThinking
    <3> QED
      BY <1>02, <1>2, <1>3, <3>2, <3>3
  <2> QED
    BY <2>2, <2>3
<1>4. CASE e.text = <<>> /\ e.thinking = <<>> /\ e.tool # <<>>
  <2>1. ToAnthropicEvent(e, s) = ToAnthropicTool(e, s)
    BY <1>4 DEF ToAnthropicEvent
  <2>2. PICK t \in ToolDelta : t = e.tool[1]
    <3>1. e.tool \in Seq(ToolDelta)
      BY EventIs DEF ToolDeltas
    <3> QED
      BY <1>4, <3>1
  <2>3. <<>> \in Seq(Tools) /\ <<>> \in Seq(Text) /\ NoId \in Ids
    BY MessagesConfig, EmptySeq
  <2>4. CASE s.toolUseId = <<t.id>>
    <3>1. PICK d, c : d = <<[t EXCEPT !.id = NoId, !.name = <<>>]>> /\ c = [Silent EXCEPT !.tool = d]
      OBVIOUS
    <3>2. d \in ToolDeltas
      <4>1. [t EXCEPT !.id = NoId, !.name = <<>>] \in ToolDelta
        BY <2>3 DEF ToolDelta
      <4> QED
        BY <3>1, <4>1 DEF ToolDeltas
    <3>3. Shows(c, <<>>, d)
      <4>1. Made(<<>>, <<>>, d, <<>>, <<>>)
        BY <1>0, <3>2 DEF Made
      <4>2. c = [start |-> FALSE, text |-> <<>>, thinking |-> <<>>, tool |-> d,
                 finish |-> <<>>, usage |-> <<>>]
        BY <3>1 DEF Silent
      <4> QED
        BY <4>1, <4>2, ShowsIs
    <3>4. ToAnthropicEvent(e, s) = Sends(c, s)
      BY <2>1, <2>2, <2>4, <3>1 DEF ToAnthropicTool
    <3> QED
      BY <1>2, <1>4, <3>3, <3>4
  <2>5. CASE s.toolUseId # <<t.id>>
    <3>1. PICK d, c, z : /\ d = <<[t EXCEPT !.arguments = <<>>]>> /\ c = [Start EXCEPT !.tool = d]
                         /\ z = [s EXCEPT !.toolUseId = <<t.id>>]
      OBVIOUS
    <3>2. d \in ToolDeltas
      <4>1. [t EXCEPT !.arguments = <<>>] \in ToolDelta
        BY <2>3 DEF ToolDelta
      <4> QED
        BY <3>1, <4>1 DEF ToolDeltas
    <3>3. Shows(c, <<>>, d)
      <4>1. Made(<<>>, <<>>, d, <<>>, <<>>)
        BY <1>0, <3>2 DEF Made
      <4>2. c = [start |-> TRUE, text |-> <<>>, thinking |-> <<>>, tool |-> d,
                 finish |-> <<>>, usage |-> <<>>]
        BY <1>01, <3>1
      <4> QED
        BY <4>1, <4>2, ShowsIs
    <3>4. z \in StreamState /\ z.outputItemId = s.outputItemId
      <4>1. <<t.id>> \in Seq(Ids)
        BY DEF ToolDelta
      <4> QED
        BY <3>1, <4>1 DEF StreamState
    <3>5. ToAnthropicEvent(e, s) = Sends(c, z)
      BY <2>1, <2>2, <2>5, <3>1 DEF ToAnthropicTool
    <3> QED
      BY <1>2, <1>4, <3>3, <3>4, <3>5
  <2> QED
    BY <2>4, <2>5
<1>5. CASE e.text = <<>> /\ e.thinking = <<>> /\ e.tool = <<>> /\ e.finish # <<>>
  <2>1. PICK f : f = Mapped(ToAnthropicStopReason, e.finish)
    OBVIOUS
  <2>2. f \in Optional(StopReasons)
    <3>1. PICK q \in Optional(FinishReasons) : q = e.finish
      BY EventIs
    <3>2. PICK g : g = [r \in FinishReasons |-> ToAnthropicStopReason(r)]
      OBVIOUS
    <3>3. g \in [FinishReasons -> StopReasons]
      BY <3>2 DEF ToAnthropicStopReason, FinishReasons, StopReasons
    <3>4. \A i \in DOMAIN q : q[i] \in FinishReasons
      BY DEF Optional
    <3>5. Mapped(ToAnthropicStopReason, q) = Through(g, q)
      BY <3>2, <3>4 DEF Mapped, Through
    <3> QED
      BY <2>1, <3>1, <3>3, <3>5, MappedIs
  <2>3. PICK c : c = [Silent EXCEPT !.finish = f, !.usage = e.usage]
    OBVIOUS
  <2>4. Shows(c, <<>>, <<>>)
    <3>1. Made(<<>>, <<>>, <<>>, f, e.usage)
      BY <1>0, <2>2, EventIs DEF Made
    <3>2. c = [start |-> FALSE, text |-> <<>>, thinking |-> <<>>, tool |-> <<>>,
               finish |-> f, usage |-> e.usage]
      BY <2>3 DEF Silent
    <3> QED
      BY <3>1, <3>2, ShowsIs
  <2>5. ToAnthropicEvent(e, s) = Sends(c, s)
    BY <1>5, <2>1, <2>3 DEF ToAnthropicEvent
  <2> QED
    BY <1>2, <1>5, <2>4, <2>5
<1>6. CASE e.text = <<>> /\ e.thinking = <<>> /\ e.tool = <<>> /\ e.finish = <<>>
  <2>1. ToAnthropicEvent(e, s) = SendsNothing(s)
    BY <1>6 DEF ToAnthropicEvent
  <2>2. s.outputItemId \in BOOLEAN
    BY DEF StreamState
  <2> QED
    BY <1>6, <2>1, <2>2, NothingIs DEF Serializes
<1> QED
  BY <1>1, <1>3, <1>4, <1>5, <1>6

LEMMA EverySerializes ==
    ASSUME NEW client, NEW e \in Event, NEW s \in StreamState
    PROVE  Serializes(client, e, s, SerializeStreamEvent(client, e, s))
BY ChatSerializes, ResponsesSerializes, AnthropicSerializes, GeminiSerializes DEF SerializeStreamEvent

-----------------------------------------------------------------------------
(* The texts of several events, and their calls. *)
TextHeard == [e \in Event |-> e.text]
TextSent  == [c \in ClientEvent |-> c.text]
ToolHeard == [e \in Event |-> e.tool]
ToolSent  == [c \in ClientEvent |-> c.tool]

WordsHeard == AllOf(TextHeard, Event)
WordsSent  == AllOf(TextSent, ClientEvent)
CallsHeard == Each(ToolHeard, Event)
CallsSent  == Each(ToolSent, ClientEvent)

CallList == Seq(ToolDeltas)
CalledIn == [e \in Event |-> <<ToolHeard[e]>>]
CalledTo == [c \in ClientEvent |-> <<ToolSent[c]>>]

LEMMA StreamJoins ==
    /\ Joins(Event, Sayings, WordsHeard, TextHeard) /\ Joins(ClientEvent, Sayings, WordsSent, TextSent)
    /\ Joins(Event, CallList, CallsHeard, CalledIn) /\ Joins(ClientEvent, CallList, CallsSent, CalledTo)
<1>1. Strings(Sayings)
  BY SeqStrings DEF Sayings
<1>2. Maps(TextHeard, Event, Sayings) /\ Maps(ToolHeard, Event, ToolDeltas)
  BY EventIs, OptionalText DEF Maps, TextHeard, ToolHeard
<1>3. Maps(TextSent, ClientEvent, Sayings) /\ Maps(ToolSent, ClientEvent, ToolDeltas)
  <2>1. \A c \in ClientEvent : c.text \in Optional(Text) /\ c.tool \in ToolDeltas
    BY DEF ClientEvent, ToolDeltas
  <2> QED
    BY <2>1, OptionalText DEF Maps, TextSent, ToolSent
<1>4. Joins(Event, Sayings, WordsHeard, TextHeard) /\ Joins(ClientEvent, Sayings, WordsSent, TextSent)
  BY <1>1, <1>2, <1>3, AllJoins DEF WordsHeard, WordsSent
<1>5. Joins(Event, CallList, CallsHeard, CalledIn) /\ Joins(ClientEvent, CallList, CallsSent, CalledTo)
  BY <1>2, <1>3, EachJoins DEF CallsHeard, CallsSent, CalledIn, CalledTo, CallList
<1> QED
  BY <1>4, <1>5

(* What the events told a client, and how far its serializer is. *)
Serving == [told: Seq(ClientEvent), state: StreamState]

Reaches(client, spoken, received, opened) ==
    /\ received = IF client = "Anthropic-Messages" /\ spoken # <<>> THEN Tail(spoken) ELSE spoken
    /\ client = "Anthropic-Messages" => (opened <=> spoken # <<>>)

Tells(client, events, acc) ==
    /\ events \in Seq(Event) /\ acc \in Serving
    /\ Reaches(client, WordsHeard[events], WordsSent[acc.told], acc.state.outputItemId)
    /\ client = "OpenAI-Chat" => CallsSent[acc.told] = CallsHeard[events]

(* All but the first, of one more, or none. *)
LEMMA TailMore ==
    ASSUME NEW T, NEW s \in Seq(T), s # <<>>, NEW t \in Optional(T)
    PROVE  s \o t # <<>> /\ Tail(s \o t) = Tail(s) \o t
<1>1. t \in Seq(T) /\ Len(t) \in Nat /\ Len(t) <= 1
  BY DEF Optional
<1>2. Tail(s) \in Seq(T)
  BY HeadTailProperties
<1>3. CASE Len(t) = 0
  <2>1. t = <<>>
    BY <1>1, <1>3, EmptySeq
  <2>2. s \o <<>> = s /\ Tail(s) \o <<>> = Tail(s)
    BY <1>2, ConcatEmptySeq
  <2> QED
    BY <2>1, <2>2
<1>4. CASE Len(t) = 1
  <2>1. PICK x \in T : x = t[1]
    <3>1. 1 \in 1..Len(t)
      BY <1>4
    <3>2. t[1] \in T
      BY <1>1, <3>1
    <3> QED
      BY <3>2
  <2>2. t = <<x>>
    <3>1. <<x>> \in Seq(T) /\ Len(<<x>>) = 1 /\ \A i \in 1..1 : <<x>>[i] = t[i]
      BY <2>1
    <3> QED
      BY <1>1, <1>4, <3>1, SeqEqual
  <2>3. PICK all \in Seq(T) : all = Append(s, x) /\ all # <<>>
    BY AppendProperties
  <2>4. s \o <<x>> = all
    BY <2>3
  <2>5. Tail(all) = Append(Tail(s), x)
    BY <2>3, HeadTailAppend
  <2>6. PICK r \in Seq(T) : r = Tail(s)
    BY <1>2
  <2>7. r \o <<x>> = Append(r, x)
    OBVIOUS
  <2> QED
    BY <2>2, <2>3, <2>4, <2>5, <2>6, <2>7
<1> QED
  BY <1>1, <1>3, <1>4

LEMMA TailOfOne == ASSUME NEW T, NEW t \in Optional(T), t # <<>> PROVE Tail(t) = <<>>
<1>1. t \in Seq(T) /\ Len(t) \in Nat /\ Len(t) <= 1 /\ Len(t) # 0
  BY EmptySeq DEF Optional
<1>2. Tail(t) \in Seq(T) /\ Len(Tail(t)) = Len(t) - 1
  BY HeadTailProperties, <1>1
<1> QED
  BY <1>1, <1>2, EmptySeq

(* One text, or none, more. *)
LEMMA ReachesMore ==
    ASSUME NEW client, NEW spoken \in Sayings, NEW received \in Sayings, NEW opened \in BOOLEAN,
           Reaches(client, spoken, received, opened), NEW text \in Optional(Text), NEW more \in Sayings,
           NEW then \in BOOLEAN,
           client # "Anthropic-Messages" => more = text,
           client = "Anthropic-Messages" /\ opened => more = text /\ then,
           client = "Anthropic-Messages" /\ ~opened => more = <<>> /\ (then <=> text # <<>>)
    PROVE  Reaches(client, spoken \o text, received \o more, then)
<1>1. PICK T : T = Text
  OBVIOUS
<1>2. spoken \in Seq(T) /\ received \in Seq(T) /\ text \in Seq(T) /\ text \in Optional(T)
  BY <1>1, OptionalText DEF Sayings
<1>3. CASE client # "Anthropic-Messages"
  BY <1>3 DEF Reaches
<1>4. CASE client = "Anthropic-Messages" /\ spoken # <<>>
  <2>1. more = text /\ then /\ received = Tail(spoken)
    BY <1>4 DEF Reaches
  <2>2. spoken \o text # <<>> /\ Tail(spoken \o text) = Tail(spoken) \o text
    BY <1>2, <1>4, TailMore
  <2> QED
    BY <1>4, <2>1, <2>2 DEF Reaches
<1>5. CASE client = "Anthropic-Messages" /\ spoken = <<>>
  <2>1. ~opened /\ received = <<>> /\ more = <<>> /\ (then <=> text # <<>>)
    BY <1>5 DEF Reaches
  <2>2. spoken \o text = text /\ received \o more = <<>>
    BY <1>2, <1>5, <2>1, ConcatEmptySeq
  <2>3. text # <<>> => Tail(text) = <<>>
    BY <1>2, TailOfOne
  <2> QED
    BY <1>5, <2>1, <2>2, <2>3 DEF Reaches
<1> QED
  BY <1>3, <1>4, <1>5

(* What one event adds to what was sent. *)
LEMMA SentOn ==
    ASSUME NEW r, OneAtMost(r.out), NEW sent \in Seq(ClientEvent)
    PROVE  /\ sent \o r.out \in Seq(ClientEvent)
           /\ WordsSent[sent \o r.out] = WordsSent[sent] \o Brings(r)
           /\ Brings(r) \in Sayings
           /\ r.out # <<>> => /\ r.out[1].tool \in ToolDeltas
                              /\ CallsSent[sent \o r.out] = CallsSent[sent] \o <<r.out[1].tool>>
<1>1. CASE r.out = <<>>
  <2>1. sent \o r.out = sent
    BY <1>1, ConcatEmptySeq
  <2>2. WordsSent[sent] \o <<>> = WordsSent[sent]
    BY StreamJoins DEF Joins, Strings
  <2>3. Brings(r) = <<>> /\ Brings(r) \in Sayings
    BY <1>1, EmptySeq DEF Brings, Sayings
  <2> QED
    BY <1>1, <2>1, <2>2, <2>3
<1>2. CASE r.out # <<>>
  <2>1. PICK c \in ClientEvent : r.out = <<c>> /\ r.out[1] = c
    BY <1>2 DEF OneAtMost
  <2>2. PICK all \in Seq(ClientEvent) : all = Append(sent, c) /\ all = sent \o r.out
    <3>1. Append(sent, c) \in Seq(ClientEvent)
      BY AppendProperties
    <3>2. Append(sent, c) = sent \o <<c>>
      BY AppendIsConcat
    <3> QED
      BY <2>1, <3>1, <3>2
  <2>3. WordsSent[all] = WordsSent[sent] \o TextSent[c] /\ CallsSent[all] = CallsSent[sent] \o CalledTo[c]
    <3>1. \A q \in Seq(ClientEvent), x \in ClientEvent : WordsSent[Append(q, x)] = WordsSent[q] \o TextSent[x]
      BY StreamJoins DEF Joins
    <3>2. \A q \in Seq(ClientEvent), x \in ClientEvent : CallsSent[Append(q, x)] = CallsSent[q] \o CalledTo[x]
      BY StreamJoins DEF Joins
    <3> QED
      BY <2>2, <3>1, <3>2
  <2>4. TextSent[c] = c.text /\ TextSent[c] \in Sayings /\ CalledTo[c] = <<c.tool>> /\ c.tool \in ToolDeltas
    <3>1. TextSent[c] \in Sayings
      BY StreamJoins DEF Joins
    <3> QED
      BY <3>1 DEF TextSent, CalledTo, ToolSent, ClientEvent, ToolDeltas
  <2>5. Brings(r) = c.text
    BY <1>2, <2>1 DEF Brings
  <2> QED
    BY <2>1, <2>2, <2>3, <2>4, <2>5
<1> QED
  BY <1>1, <1>2

LEMMA PassedOnTells ==
    ASSUME NEW client, NEW events, NEW acc, Tells(client, events, acc), NEW e \in Event
    PROVE  Tells(client, Append(events, e), PassedOn(client, acc, e))
<1>1. PICK sent \in Seq(ClientEvent), s \in StreamState : sent = acc.told /\ s = acc.state
  BY DEF Tells, Serving
<1>2. PICK r : r = SerializeStreamEvent(client, e, s) /\ Serializes(client, e, s, r)
  BY EverySerializes
<1>3. PICK next : next = [told |-> sent \o r.out, state |-> r.state]
  OBVIOUS
<1>4. next = PassedOn(client, acc, e)
  BY <1>1, <1>2, <1>3 DEF PassedOn
<1>5. OneAtMost(r.out) /\ r.state \in StreamState
  BY <1>2 DEF Serializes
<1>6. /\ sent \o r.out \in Seq(ClientEvent)
      /\ WordsSent[sent \o r.out] = WordsSent[sent] \o Brings(r)
      /\ Brings(r) \in Sayings
      /\ r.out # <<>> => CallsSent[sent \o r.out] = CallsSent[sent] \o <<r.out[1].tool>>
  BY <1>5, SentOn
<1>7. next \in Serving /\ next.told = sent \o r.out /\ next.state = r.state
  BY <1>3, <1>5, <1>6 DEF Serving
<1>8. PICK all \in Seq(Event) : all = Append(events, e)
  BY AppendProperties DEF Tells
<1>9. /\ WordsHeard[all] = WordsHeard[events] \o e.text
      /\ CallsHeard[all] = CallsHeard[events] \o <<e.tool>>
  <2>1. WordsHeard[all] = WordsHeard[events] \o TextHeard[e] /\ CallsHeard[all] = CallsHeard[events] \o CalledIn[e]
    BY <1>8, StreamJoins DEF Joins, Tells
  <2> QED
    BY <2>1 DEF TextHeard, CalledIn, ToolHeard
<1>10. Reaches(client, WordsHeard[all], WordsSent[next.told], next.state.outputItemId)
  <2>1. PICK spoken \in Sayings, received \in Sayings :
           spoken = WordsHeard[events] /\ received = WordsSent[sent]
    BY StreamJoins DEF Joins, Tells
  <2>2. PICK opened \in BOOLEAN, then \in BOOLEAN : opened = s.outputItemId /\ then = r.state.outputItemId
    BY <1>5 DEF StreamState
  <2>3. PICK text \in Optional(Text), more \in Sayings : text = e.text /\ more = Brings(r)
    BY <1>6, EventIs
  <2>4. Reaches(client, spoken, received, opened)
    BY <1>1, <2>1, <2>2 DEF Tells
  <2>5. /\ client # "Anthropic-Messages" => more = text
        /\ client = "Anthropic-Messages" /\ opened => more = text /\ then
        /\ client = "Anthropic-Messages" /\ ~opened => more = <<>> /\ (then <=> text # <<>>)
    BY <1>2, <2>2, <2>3 DEF Serializes
  <2>6. Reaches(client, spoken \o text, received \o more, then)
    BY <2>4, <2>5, ReachesMore
  <2> QED
    BY <1>6, <1>7, <1>9, <2>1, <2>2, <2>3, <2>6
<1>11. ASSUME client = "OpenAI-Chat" PROVE CallsSent[next.told] = CallsHeard[all]
  <2>1. r.out # <<>> /\ r.out[1].tool = e.tool
    BY <1>2, <1>11 DEF Serializes
  <2>2. CallsSent[sent] = CallsHeard[events]
    BY <1>1, <1>11 DEF Tells
  <2> QED
    BY <1>6, <1>7, <1>9, <2>1, <2>2
<1> QED
  BY <1>4, <1>7, <1>8, <1>10, <1>11 DEF Tells

(* A serializer's turns: what is passed on of several events is passed on  *)
(* one by one.                                                             *)
LEMMA PassedOnType ==
    ASSUME NEW client, NEW acc \in Serving, NEW e \in Event
    PROVE  PassedOn(client, acc, e) \in Serving
<1>1. PICK sent \in Seq(ClientEvent), s \in StreamState : sent = acc.told /\ s = acc.state
  BY DEF Serving
<1>2. PICK r : r = SerializeStreamEvent(client, e, s) /\ OneAtMost(r.out) /\ r.state \in StreamState
  BY EverySerializes DEF Serializes
<1>3. sent \o r.out \in Seq(ClientEvent)
  BY <1>2, SentOn
<1>4. PassedOn(client, acc, e) = [told |-> sent \o r.out, state |-> r.state]
  BY <1>1, <1>2 DEF PassedOn
<1> QED
  BY <1>2, <1>3, <1>4 DEF Serving

Turns(client, acc, n, events, f) ==
    /\ f \in [0..n -> Serving] /\ f[0] = acc /\ Passed(client, acc, events) = f[n]
    /\ \A i \in 1..n : f[i] = PassedOn(client, f[i - 1], events[i])

AllEvents(n, events) == n = Len(events) /\ \A i \in 1..n : events[i] \in Event

(* Something that is folded, along the way. *)
FoldedAlong(A, a, n, step, f) ==
    f \in [0..n -> A] /\ f[0] = a /\ \A i \in 1..n : f[i] = step[i][f[i - 1]]

LEMMA FoldAlong ==
    ASSUME NEW A, NEW a \in A, NEW n \in Nat, NEW step \in [1..n -> [A -> A]]
    PROVE  \E f : FoldedAlong(A, a, n, step, f)
BY FoldsExist DEF FoldedAlong

LEMMA PassedTurns ==
    ASSUME NEW client, NEW acc \in Serving, NEW n \in Nat, NEW events, AllEvents(n, events)
    PROVE  \E f : Turns(client, acc, n, events, f)
<1> DEFINE Value(g, i) == IF i = 0 THEN acc ELSE PassedOn(client, g[i - 1], events[i])
           Fold(g) == g = [i \in 0..n |-> Value(g, i)]
<1>1. PICK A, b, step : A = Serving /\ b = acc /\ step = [i \in 1..n |-> [a \in A |-> PassedOn(client, a, events[i])]]
  OBVIOUS
<1>2. n \in Nat /\ b \in A /\ step \in [1..n -> [A -> A]]
  <2>1. \A i \in 1..n, a \in A : PassedOn(client, a, events[i]) \in A
    BY <1>1, PassedOnType DEF AllEvents
  <2> QED
    BY <1>1, <2>1
<1>3. PICK f \in [0..n -> A] : f[0] = b /\ \A i \in 1..n : f[i] = step[i][f[i - 1]]
  <2>1. \E f : FoldedAlong(A, b, n, step, f)
    BY <1>2, FoldAlong
  <2> QED
    BY <2>1 DEF FoldedAlong
<1>4. \A i \in 1..n : f[i] = PassedOn(client, f[i - 1], events[i])
  <2> SUFFICES ASSUME NEW i \in 1..n PROVE f[i] = PassedOn(client, f[i - 1], events[i])
    OBVIOUS
  <2>1. f[i - 1] \in A
    BY <1>2, <1>3
  <2>2. step[i] = [a \in A |-> PassedOn(client, a, events[i])]
    BY <1>1
  <2> QED
    BY <1>3, <2>1, <2>2 DEF Turns
<1>5. Fold(f)
  <2>1. \A i \in 0..n : f[i] = Value(f, i)
    <3> SUFFICES ASSUME NEW i \in 0..n PROVE f[i] = Value(f, i)
      OBVIOUS
    <3>1. CASE i = 0
      BY <1>1, <1>3, <3>1
    <3>2. CASE i # 0
      <4>1. i \in 1..n
        BY <1>2, <3>2
      <4> QED
        BY <1>4, <3>2, <4>1
    <3> QED
      BY <3>1, <3>2
  <2> QED
    BY <1>1, <1>3, <2>1
<1>6. PICK g : g = CHOOSE h : Fold(h)
  OBVIOUS
<1>7. Passed(client, acc, events) = g[n]
  BY <1>6 DEF Passed, AllEvents
<1>8. Fold(g)
  BY <1>5, <1>6
<1> DEFINE S == {i \in 0..n : g[i] = f[i]}
<1>9. 0 \in S
  BY <1>1, <1>2, <1>3, <1>8
<1>10. \A i \in 1..n : i - 1 \in S => i \in S
  <2> SUFFICES ASSUME NEW i \in 1..n, i - 1 \in S PROVE i \in S
    OBVIOUS
  <2>1. i \in 0..n /\ i # 0
    BY <1>2
  <2>2. g[i] = PassedOn(client, g[i - 1], events[i])
    BY <1>1, <1>8, <2>1
  <2> QED
    BY <1>4, <2>1, <2>2
<1>11. \A i \in 0..n : i \in S
  <2> HIDE DEF S
  <2> QED
    BY <1>2, <1>9, <1>10, Climbs
<1>12. Passed(client, acc, events) = f[n]
  BY <1>2, <1>7, <1>11
<1> QED
  BY <1>1, <1>3, <1>4, <1>12 DEF Turns

LEMMA PassedTells ==
    ASSUME NEW client, NEW events, NEW acc, Tells(client, events, acc), NEW more \in Seq(Event)
    PROVE  Tells(client, events \o more, Passed(client, acc, more))
<1>1. PICK n \in Nat : n = Len(more)
  OBVIOUS
<1>2. acc \in Serving /\ events \in Seq(Event)
  BY DEF Tells
<1>3. PICK f : Turns(client, acc, n, more, f)
  <2>1. AllEvents(n, more)
    BY <1>1 DEF AllEvents
  <2> QED
    BY <1>1, <1>2, <2>1, PassedTurns
<1> DEFINE S == {i \in 0..n : Tells(client, events \o SubSeq(more, 1, i), f[i])}
<1>4. 0 \in S
  <2>1. SubSeq(more, 1, 0) = <<>>
    BY SubSeqEmpty
  <2>2. events \o <<>> = events
    BY <1>2, ConcatEmptySeq
  <2> QED
    BY <1>3, <2>1, <2>2 DEF Turns
<1>5. \A i \in 1..n : i - 1 \in S => i \in S
  <2> SUFFICES ASSUME NEW i \in 1..n, i - 1 \in S PROVE i \in S
    OBVIOUS
  <2>1. PICK e \in Event : e = more[i]
    BY <1>1
  <2>2. PICK p \in Seq(Event) : p = SubSeq(more, 1, i - 1)
    <3>1. SubSeq(more, 1, i - 1) \in Seq(Event)
      BY <1>1, SubSeqProperties
    <3> QED
      BY <3>1
  <2>3. SubSeq(more, 1, i) = Append(p, e)
    BY <1>1, <2>1, <2>2
  <2>4. events \o Append(p, e) = Append(events \o p, e)
    BY <1>2
  <2>5. Tells(client, events \o p, f[i - 1])
    BY <2>2
  <2>6. Tells(client, Append(events \o p, e), PassedOn(client, f[i - 1], e))
    BY <2>5, PassedOnTells
  <2>7. f[i] = PassedOn(client, f[i - 1], e)
    BY <1>3, <2>1 DEF Turns
  <2>8. events \o SubSeq(more, 1, i) = Append(events \o p, e)
    BY <2>3, <2>4
  <2>9. i \in 0..n
    OBVIOUS
  <2> QED
    BY <2>6, <2>7, <2>8, <2>9
<1>6. \A i \in 0..n : i \in S
  <2> HIDE DEF S
  <2> QED
    BY <1>4, <1>5, Climbs
<1>7. n \in S
  BY <1>6
<1>8. SubSeq(more, 1, n) = more
  BY <1>1
<1> QED
  BY <1>3, <1>7, <1>8 DEF Turns

-----------------------------------------------------------------------------
(* What stream() yields is an event or none for each of the decoder's.     *)
LEMMA EventMade ==
    ASSUME NEW text \in Optional(Text), NEW thinking \in Optional(Text), NEW tool \in ToolDeltas,
           NEW finish \in Optional(FinishReasons), NEW usage \in Optional(Usage)
    PROVE  [text |-> text, thinking |-> thinking, tool |-> tool, finish |-> finish,
            usage |-> usage] \in Event
BY DEF Event, ToolDeltas

LEMMA PayloadIs ==
    ASSUME NEW p \in Payload
    PROVE  /\ p.text \in Optional(Text) /\ p.thinking \in Optional(Text) /\ p.tools \in ToolDeltas
           /\ p.finish \in Optional(STRING) /\ p.usage \in Optional(Usage)
BY DEF Payload, ToolDeltas

Reasons(u, q) == Mapped(LAMBDA r : MapFinishReason(u, r), q)

LEMMA FinishMapped ==
    ASSUME NEW u, NEW q \in Optional(STRING) PROVE Reasons(u, q) \in Optional(FinishReasons)
<1>1. PICK S, f : S = STRING /\ f = [r \in S |-> MapFinishReason(u, r)]
  OBVIOUS
<1>2. f \in [S -> FinishReasons] /\ q \in Optional(S)
  BY <1>1, ReasonsAre
<1>3. \A i \in DOMAIN q : q[i] \in S
  BY <1>2 DEF Optional
<1>4. Reasons(u, q) = Through(f, q)
  BY <1>1, <1>3 DEF Reasons, Mapped, Through
<1> QED
  BY <1>2, <1>4, MappedIs

LEMMA OpenAIChunkIs == ASSUME NEW p \in Payload PROVE FromOpenAIChunk(p) \in Seq(Event)
<1>1. PICK f \in Optional(FinishReasons) : f = Mapped(LAMBDA r : MapFinishReason("OpenAI", r), p.finish)
  <2>1. Reasons("OpenAI", p.finish) \in Optional(FinishReasons)
    BY PayloadIs, FinishMapped
  <2> QED
    BY <2>1 DEF Reasons
<1>2. PICK t : t = IF p.tools = <<>> THEN <<>> ELSE <<p.tools[1]>>
  OBVIOUS
<1>3. t \in ToolDeltas
  <2>1. PICK q \in Seq(ToolDelta) : q = p.tools
    BY PayloadIs DEF ToolDeltas
  <2>2. q # <<>> => q[1] \in ToolDelta
    OBVIOUS
  <2>3. q # <<>> => <<q[1]>> \in Seq(ToolDelta)
    BY <2>2
  <2> QED
    BY <1>2, <2>1, <2>3 DEF ToolDeltas
<1>4. PICK e \in Event : e = [text |-> p.text, thinking |-> <<>>, tool |-> t, finish |-> f, usage |-> p.usage]
  <2>1. <<>> \in Optional(Text)
    BY NoneIs
  <2> QED
    BY <1>3, <2>1, PayloadIs, EventMade
<1>5. CASE p.first
  <2>1. FromOpenAIChunk(p) = <<e>>
    <3>1. [text |-> p.text, thinking |-> <<>>, tool |-> t, usage |-> p.usage, finish |-> f] = e
      BY <1>4
    <3> QED
      BY <1>1, <1>2, <1>5, <3>1 DEF FromOpenAIChunk
  <2> QED
    BY <2>1
<1>6. CASE ~p.first
  BY <1>6 DEF FromOpenAIChunk
<1> QED
  BY <1>5, <1>6

LEMMA NoEventIs == NoEvent \in Event
<1>1. <<>> \in Optional(Text) /\ <<>> \in ToolDeltas /\ <<>> \in Optional(FinishReasons)
      /\ <<>> \in Optional(Usage)
  BY NoneIs, EmptySeq DEF ToolDeltas
<1> QED
  BY <1>1, EventMade DEF NoEvent

LEMMA GeminiChunkIs == ASSUME NEW p \in Payload PROVE FromGeminiChunk(p) \in Seq(Event)
<1>1. PICK f \in Optional(FinishReasons) : f = Mapped(LAMBDA r : MapFinishReason("Gemini", r), p.finish)
  <2>1. Reasons("Gemini", p.finish) \in Optional(FinishReasons)
    BY PayloadIs, FinishMapped
  <2> QED
    BY <2>1 DEF Reasons
<1>2. PICK e : e = [NoEvent EXCEPT !.text = p.text, !.thinking = p.thinking, !.finish = f]
  OBVIOUS
<1>3. e \in Event
  BY <1>2, NoEventIs, PayloadIs DEF Event
<1>4. CASE p.first
  <2>1. FromGeminiChunk(p) = <<e>>
    BY <1>1, <1>2, <1>4 DEF FromGeminiChunk
  <2> QED
    BY <1>3, <2>1
<1>5. CASE ~p.first
  BY <1>5 DEF FromGeminiChunk
<1> QED
  BY <1>4, <1>5

LEMMA AnthropicEventIs == ASSUME NEW p \in Payload PROVE FromAnthropicEvent(p) \in Seq(Event)
<1>1. PICK f \in Optional(FinishReasons) : f = Mapped(LAMBDA r : MapFinishReason("Anthropic", r), p.finish)
  <2>1. Reasons("Anthropic", p.finish) \in Optional(FinishReasons)
    BY PayloadIs, FinishMapped
  <2> QED
    BY <2>1 DEF Reasons
<1>2. PICK d : d = Mapped(LAMBDA t : [t EXCEPT !.arguments = <<>>], p.tools)
  OBVIOUS
<1>3. d \in ToolDeltas
  <2>1. PICK q \in Seq(ToolDelta) : q = p.tools
    BY PayloadIs DEF ToolDeltas
  <2>2. PICK g : g = [t \in ToolDelta |-> [t EXCEPT !.arguments = <<>>]]
    OBVIOUS
  <2>3. Maps(g, ToolDelta, ToolDelta)
    <3>1. <<>> \in Seq(Text)
      OBVIOUS
    <3> QED
      BY <2>2, <3>1 DEF Maps, ToolDelta
  <2>4. \A i \in DOMAIN q : q[i] \in ToolDelta
    OBVIOUS
  <2>5. Mapped(LAMBDA t : [t EXCEPT !.arguments = <<>>], q) = Through(g, q)
    BY <2>2, <2>4 DEF Mapped, Through
  <2>6. Through(g, q) \in Seq(ToolDelta)
    BY <2>3, ThroughIs
  <2> QED
    BY <1>2, <2>1, <2>5, <2>6 DEF ToolDeltas
<1>4. PICK a, b, c, e : /\ a = [NoEvent EXCEPT !.text = p.text, !.thinking = p.thinking]
                        /\ b = [NoEvent EXCEPT !.tool = d]
                        /\ c = [NoEvent EXCEPT !.usage = p.usage, !.finish = IF p.found THEN f ELSE <<>>]
                        /\ e = [NoEvent EXCEPT !.usage = p.usage]
  OBVIOUS
<1>5. a \in Event
  BY <1>4, NoEventIs, PayloadIs DEF Event
<1>6. b \in Event
  BY <1>3, <1>4, NoEventIs DEF Event, ToolDeltas
<1>7. c \in Event
  <2>1. PICK g \in Optional(FinishReasons) : g = IF p.found THEN f ELSE <<>>
    BY NoneIs
  <2> QED
    BY <1>4, <2>1, NoEventIs, PayloadIs DEF Event
<1>8. e \in Event
  BY <1>4, NoEventIs, PayloadIs DEF Event
<1>9. PICK z : z = FromAnthropicEvent(p)
  OBVIOUS
<1>10. z \in {<<a>>, <<b>>, <<c>>, <<e>>, <<NoEvent>>}
  BY <1>1, <1>2, <1>4, <1>9 DEF FromAnthropicEvent
<1> QED
  BY <1>5, <1>6, <1>7, <1>8, <1>9, <1>10, NoEventIs

LEMMA HeardIs == ASSUME NEW u PROVE Heard(u) \subseteq Seq(Event)
<1> SUFFICES ASSUME NEW d \in Datas PROVE MapEvent(u, d) \in Seq(Event)
  BY DEF Heard
<1>1. CASE Len(d) # 1 \/ d[1].type \in {"[DONE]", "text"}
  BY <1>1 DEF MapEvent
<1>2. CASE ~(Len(d) # 1 \/ d[1].type \in {"[DONE]", "text"})
  <2>1. PICK raw \in Seq(Token) : d = Mapped(LAMBDA t : t.payload, Data(raw))
    BY DEF Datas
  <2>2. PICK q : q = Data(raw)
    OBVIOUS
  <2>3. 1 \in DOMAIN q /\ d[1] = q[1].payload
    BY <1>2, <2>1, <2>2 DEF Mapped
  <2>4. d[1] \in Payload
    <3>1. PICK Q : Q = {t \in Token : t.kind = "data"}
      OBVIOUS
    <3>2. \A i \in DOMAIN raw : raw[i] \in Token
      OBVIOUS
    <3>3. {i \in DOMAIN raw : raw[i].kind = "data"} = {i \in DOMAIN raw : raw[i] \in Q}
      BY <3>1, <3>2
    <3>4. q = Only(raw, Q)
      BY <2>2, <3>3 DEF Data, Filter, Only
    <3>5. q \in Seq(Token \cap Q)
      BY <3>4, OnlyType
    <3>6. q[1] \in Token /\ q[1].kind = "data"
      <4>1. q[1] \in Token \cap Q
        BY <2>3, <3>5
      <4> QED
        BY <3>1, <4>1
    <3>7. q[1] \in Line
      BY <3>6 DEF Token, LF, CR
    <3> QED
      BY <2>3, <3>7 DEF Line
  <2>5. MapEvent(u, d) \in {FromAnthropicEvent(d[1]), FromGeminiChunk(d[1]), FromOpenAIChunk(d[1])}
    BY <1>2 DEF MapEvent
  <2> QED
    BY <2>4, <2>5, AnthropicEventIs, GeminiChunkIs, OpenAIChunkIs
<1> QED
  BY <1>1, <1>2

(* The events of what was yielded, joined. *)
Heads == Seq(Event)
AllHeard == AllOf([q \in Heads |-> q], Heads)

LEMMA AllHeardIs ==
    /\ \A s \in Seq(Heads) : AllHeard[s] = FlattenSeq(s) /\ FlattenSeq(s) \in Heads
    /\ \A s, t \in Seq(Heads) : s \o t \in Seq(Heads) /\ FlattenSeq(s \o t) = FlattenSeq(s) \o FlattenSeq(t)
<1>1. PICK f, H : f = [q \in Heads |-> q] /\ H = AllOf(f, Heads)
  OBVIOUS
<1>2. Joins(Heads, Heads, H, f)
  <2>1. Strings(Heads)
    BY SeqStrings DEF Heads
  <2>2. Maps(f, Heads, Heads)
    BY <1>1 DEF Maps
  <2> QED
    BY <1>1, <2>1, <2>2, AllJoins
<1>3. ASSUME NEW s \in Seq(Heads) PROVE H[s] = FlattenSeq(s) /\ FlattenSeq(s) \in Heads
  <2>1. Through(f, s) = s
    <3>1. \A i \in DOMAIN s : f[s[i]] = s[i]
      BY <1>1
    <3>2. Through(f, s) = [i \in DOMAIN s |-> s[i]]
      BY <3>1 DEF Through
    <3> QED
      BY <3>2
  <2>2. H[s] = FlattenSeq(s)
    BY <1>1, <2>1 DEF AllOf
  <2>3. H[s] \in Heads
    BY <1>2 DEF Joins
  <2> QED
    BY <2>2, <2>3
<1>4. ASSUME NEW s \in Seq(Heads), NEW t \in Seq(Heads)
      PROVE  s \o t \in Seq(Heads) /\ FlattenSeq(s \o t) = FlattenSeq(s) \o FlattenSeq(t)
  <2>1. PICK all \in Seq(Heads) : all = s \o t
    BY ConcatProperties
  <2>2. Adds(H, s, t)
    BY <1>2, JoinsJoined
  <2>3. H[all] = H[s] \o H[t]
    BY <2>1, <2>2 DEF Adds
  <2> QED
    BY <1>3, <2>1, <2>3
<1> QED
  BY <1>1, <1>3, <1>4 DEF AllHeard

LEMMA HeardHeads == ASSUME NEW u, NEW h \in Seq(Heard(u)) PROVE h \in Seq(Heads)
<1>1. PICK S, B : S = Heard(u) /\ B = Heads
  OBVIOUS
<1>2. S \subseteq B
  BY <1>1, HeardIs DEF Heads
<1>3. h \in Seq(B)
  BY <1>1, <1>2
<1> QED
  BY <1>1, <1>3

(***************************************************************************)
(* The invariant: what was told is what was heard, as far as the state of  *)
(* the serializer says.                                                    *)
(***************************************************************************)
TellsInv ==
    /\ stream = <<>> => told = <<>> /\ state = [outputItemId |-> FALSE, toolUseId |-> <<>>]
    /\ stream # <<>> =>
          Tells(stream[1].client, FlattenSeq(heard), [told |-> told, state |-> state])

LEMMA TellsInvInit == Init => TellsInv
BY DEF Init, StreamInit, TellsInv

LEMMA TellsNothing ==
    ASSUME NEW client
    PROVE  Tells(client, <<>>, [told |-> <<>>, state |-> [outputItemId |-> FALSE, toolUseId |-> <<>>]])
<1>1. PICK s, acc : /\ s = [outputItemId |-> FALSE, toolUseId |-> <<>>]
                    /\ acc = [told |-> <<>>, state |-> s]
  OBVIOUS
<1>2. s \in StreamState /\ ~s.outputItemId
  BY <1>1, EmptySeq DEF StreamState
<1>3. <<>> \in Seq(ClientEvent) /\ <<>> \in Seq(Event)
  OBVIOUS
<1>4. acc \in Serving /\ acc.told = <<>> /\ acc.state = s
  BY <1>1, <1>2, <1>3 DEF Serving
<1>5. /\ WordsHeard[<<>>] = <<>> /\ WordsSent[<<>>] = <<>>
      /\ CallsHeard[<<>>] = <<>> /\ CallsSent[<<>>] = <<>>
  BY StreamJoins DEF Joins
<1>6. Reaches(client, <<>>, <<>>, s.outputItemId)
  BY <1>2 DEF Reaches
<1>7. Tells(client, <<>>, acc)
  BY <1>3, <1>4, <1>5, <1>6 DEF Tells
<1> QED
  BY <1>1, <1>7

LEMMA TellsInvOpens == ASSUME StreamInv, TellsInv, StreamOpens PROVE TellsInv'
<1>1. PICK s \in Streams : stream' = <<s>>
  BY DEF StreamOpens
<1>2. /\ heard' = <<>> /\ told' = <<>>
      /\ state' = [outputItemId |-> FALSE, toolUseId |-> <<>>]
  BY DEF StreamOpens, StreamInv, TellsInv
<1>3. stream' # <<>> /\ stream'[1] = s
  BY <1>1
<1>4. FlattenSeq(heard') = <<>>
  BY <1>2 DEF FlattenSeq
<1>5. Tells(s.client, <<>>, [told |-> <<>>, state |-> [outputItemId |-> FALSE, toolUseId |-> <<>>]])
  BY TellsNothing
<1> QED
  BY <1>2, <1>3, <1>4, <1>5 DEF TellsInv

(* Some more was yielded, and passed on. *)
LEMMA TellsInvMore ==
    ASSUME NEW u, NEW c, NEW h \in Seq(Heard(u)), NEW more \in Seq(Heard(u)), NEW t, NEW s,
           Tells(c, FlattenSeq(h), [told |-> t, state |-> s]),
           NEW all, all = Passed(c, [told |-> t, state |-> s], FlattenSeq(more))
    PROVE  Tells(c, FlattenSeq(h \o more), [told |-> all.told, state |-> all.state])
<1>1. h \in Seq(Heads) /\ more \in Seq(Heads)
  BY HeardHeads
<1>2. FlattenSeq(more) \in Seq(Event) /\ FlattenSeq(h \o more) = FlattenSeq(h) \o FlattenSeq(more)
  BY <1>1, AllHeardIs DEF Heads
<1>3. PICK acc : acc = [told |-> t, state |-> s]
  OBVIOUS
<1>4. Tells(c, FlattenSeq(h) \o FlattenSeq(more), Passed(c, acc, FlattenSeq(more)))
  BY <1>2, <1>3, PassedTells
<1>5. all \in Serving
  BY <1>3, <1>4 DEF Tells
<1>6. [told |-> all.told, state |-> all.state] = all
  BY <1>5 DEF Serving
<1> QED
  BY <1>2, <1>3, <1>4, <1>6

LEMMA TellsInvChunk ==
    ASSUME StreamInv, TellsInv, NEW n \in 1..ChunkLength, ChunkArrives(n) PROVE TellsInv'
<1>1. stream # <<>> /\ stream' = stream /\ Reading
  BY DEF ChunkArrives, Reading
<1>2. PICK s \in Streams : s = stream[1] /\ s = stream'[1]
  BY <1>1 DEF StreamInv
<1>3. PICK u, T, c : u = s.upstream /\ T = s.tokens /\ c = s.client
  OBVIOUS
<1>4. T \in Raw /\ Len(T) \in Nat
  BY <1>3, StreamsAre
<1>5. PICK m \in 0..Len(T) : m = read
  BY <1>1, <1>2, <1>3 DEF StreamInv
<1>6. PICK b, h, t, z : b = buffer /\ h = heard /\ t = told /\ z = state
  OBVIOUS
<1>7. b \in Raw /\ h \in Seq(Heard(u))
  <2>1. Held(u, T, m, b, h)
    BY <1>1, <1>2, <1>3, <1>5, <1>6 DEF StreamInv
  <2> QED
    BY <1>4, <2>1, HeldType
<1>8. PICK k : k = SubSeq(T, m + 1, m + n)
  OBVIOUS
<1>9. k \in Raw
  <2>1. n \in Nat /\ m + n <= Len(T)
    BY <1>2, <1>3, <1>5, StreamsConfig DEF ChunkArrives
  <2>2. m + n \in 0..Len(T) /\ m \in 0..(m + n)
    BY <1>4, <2>1
  <2> QED
    BY <1>4, <1>8, <2>2, PartIs
<1>10. PICK d : d = Decoded(b \o k)
  OBVIOUS
<1>11. d.raws \in Seq(Raw)
  <2>1. b \o k \in Raw
    BY <1>7, <1>9, ConcatProperties DEF Raw
  <2>2. d \in Decoder
    BY <1>10, <2>1, DecodedType
  <2> QED
    BY <2>2 DEF Decoder
<1>12. PICK more \in Seq(Heard(u)) : more = Yielded(u, d.raws)
  BY <1>11, YieldedIs
<1>13. PICK all : all = Passed(c, [told |-> t, state |-> z], FlattenSeq(more))
  OBVIOUS
<1>14. heard' = h \o more /\ told' = all.told /\ state' = all.state
  BY <1>2, <1>3, <1>5, <1>6, <1>8, <1>10, <1>12, <1>13 DEF ChunkArrives, Appended, PassOn
<1>15. Tells(c, FlattenSeq(h), [told |-> t, state |-> z])
  BY <1>1, <1>2, <1>3, <1>6 DEF TellsInv
<1>16. Tells(c, FlattenSeq(h \o more), [told |-> all.told, state |-> all.state])
  BY <1>7, <1>13, <1>15, TellsInvMore
<1> QED
  BY <1>1, <1>2, <1>3, <1>14, <1>16 DEF TellsInv

LEMMA TellsInvEnds == ASSUME StreamInv, TellsInv, StreamEnds PROVE TellsInv'
<1>1. stream # <<>> /\ stream' = stream /\ Reading
  BY DEF StreamEnds, Reading
<1>2. PICK s \in Streams : s = stream[1] /\ s = stream'[1]
  BY <1>1 DEF StreamInv
<1>3. PICK u, T, c : u = s.upstream /\ T = s.tokens /\ c = s.client
  OBVIOUS
<1>4. T \in Raw
  BY <1>3, StreamsAre
<1>5. PICK m \in 0..Len(T) : m = read
  BY <1>1, <1>2, <1>3 DEF StreamInv
<1>6. PICK b, h, t, z : b = buffer /\ h = heard /\ t = told /\ z = state
  OBVIOUS
<1>7. b \in Raw /\ h \in Seq(Heard(u))
  <2>1. Held(u, T, m, b, h)
    BY <1>1, <1>2, <1>3, <1>5, <1>6 DEF StreamInv
  <2> QED
    BY <1>4, <2>1, HeldType
<1>8. PICK more \in Seq(Heard(u)) : more = Yielded(u, <<b>>)
  <2>1. PICK R : R = Raw
    OBVIOUS
  <2>2. <<b>> \in Seq(R)
    BY <1>7, <2>1
  <2> QED
    BY <2>1, <2>2, YieldedIs
<1>9. PICK all : all = Passed(c, [told |-> t, state |-> z], FlattenSeq(more))
  OBVIOUS
<1>10. heard' = h \o more /\ told' = all.told /\ state' = all.state
  BY <1>2, <1>3, <1>6, <1>8, <1>9 DEF StreamEnds, PassOn
<1>11. Tells(c, FlattenSeq(h), [told |-> t, state |-> z])
  BY <1>1, <1>2, <1>3, <1>6 DEF TellsInv
<1>12. Tells(c, FlattenSeq(h \o more), [told |-> all.told, state |-> all.state])
  BY <1>7, <1>9, <1>11, TellsInvMore
<1> QED
  BY <1>1, <1>2, <1>3, <1>10, <1>12 DEF TellsInv

LEMMA TellsInvStays ==
    ASSUME TellsInv, UNCHANGED <<stream, heard, told, state>> PROVE TellsInv'
BY DEF TellsInv

LEMMA TellsInvStep == ASSUME StreamInv, TellsInv, [Next]_vars PROVE TellsInv'
<1>1. CASE StreamOpens
  BY <1>1, TellsInvOpens
<1>2. CASE \E n \in 1..ChunkLength : ChunkArrives(n)
  BY <1>2, TellsInvChunk
<1>3. CASE StreamEnds
  BY <1>3, TellsInvEnds
<1>4. CASE StreamBreaks
  BY <1>4, TellsInvStays DEF StreamBreaks
<1>5. CASE ExchangeNext \/ UNCHANGED vars
  <2>1. UNCHANGED streamVars
    BY <1>5 DEF ExchangeNext, Refuse, AnswerFromCache, Accept, Arrives, Send, CallFails,
                CallSucceeds, vars
  <2> QED
    BY <2>1, TellsInvStays DEF streamVars
<1> QED
  BY <1>1, <1>2, <1>3, <1>4, <1>5 DEF Next, StreamNext

(* What is heard and told, in the words of the property. *)
LEMMA TellsKept ==
    ASSUME NEW client, NEW events, NEW acc, Tells(client, events, acc)
    PROVE  /\ FlattenSeq(Mapped(LAMBDA e : e.text, acc.told))
                 = LET spoken == FlattenSeq(Mapped(LAMBDA e : e.text, events))
                   IN  IF client = "Anthropic-Messages" /\ spoken # <<>> THEN Tail(spoken) ELSE spoken
           /\ client = "OpenAI-Chat" =>
                 /\ Mapped(LAMBDA e : e.tool, acc.told) = Mapped(LAMBDA e : e.tool, events)
                 /\ Len(acc.told) = Len(events)
<1>1. PICK sent \in Seq(ClientEvent) : sent = acc.told
  BY DEF Tells, Serving
<1>2. events \in Seq(Event)
  BY DEF Tells
<1>3. /\ \A i \in DOMAIN sent : sent[i] \in ClientEvent
      /\ \A i \in DOMAIN events : events[i] \in Event
  BY <1>2
<1>4. /\ Mapped(LAMBDA e : e.text, sent) = Through(TextSent, sent)
      /\ Mapped(LAMBDA e : e.tool, sent) = Through(ToolSent, sent)
  BY <1>3 DEF Mapped, Through, TextSent, ToolSent
<1>5. /\ Mapped(LAMBDA e : e.text, events) = Through(TextHeard, events)
      /\ Mapped(LAMBDA e : e.tool, events) = Through(ToolHeard, events)
  BY <1>3 DEF Mapped, Through, TextHeard, ToolHeard
<1>6. /\ WordsSent[sent] = FlattenSeq(Through(TextSent, sent)) /\ CallsSent[sent] = Through(ToolSent, sent)
      /\ WordsHeard[events] = FlattenSeq(Through(TextHeard, events)) /\ CallsHeard[events] = Through(ToolHeard, events)
  BY <1>2 DEF WordsSent, CallsSent, WordsHeard, CallsHeard, AllOf, Each
<1>7. Reaches(client, WordsHeard[events], WordsSent[sent], acc.state.outputItemId)
      /\ (client = "OpenAI-Chat" => CallsSent[sent] = CallsHeard[events])
  BY <1>1 DEF Tells
<1>8. client = "OpenAI-Chat" => Len(sent) = Len(events)
  <2>1. ASSUME client = "OpenAI-Chat" PROVE DOMAIN sent = DOMAIN events
    <3>1. Through(ToolSent, sent) = Through(ToolHeard, events)
      BY <1>6, <1>7, <2>1
    <3>2. DOMAIN Through(ToolSent, sent) = DOMAIN sent /\ DOMAIN Through(ToolHeard, events) = DOMAIN events
      BY DEF Through
    <3> QED
      BY <3>1, <3>2
  <2> QED
    BY <1>2, <2>1
<1> QED
  BY <1>1, <1>4, <1>5, <1>6, <1>7, <1>8 DEF Reaches

LEMMA TellsInvKept == TellsInv => StreamIsKept
<1> SUFFICES ASSUME TellsInv, stream # <<>> PROVE StreamIsKept
  BY DEF StreamIsKept
<1>1. PICK c, events, acc : /\ c = stream[1].client /\ events = FlattenSeq(heard)
                            /\ acc = [told |-> told, state |-> state] /\ acc.told = told
  <2>1. PICK acc : acc = [told |-> told, state |-> state]
    OBVIOUS
  <2>2. acc.told = told
    BY <2>1
  <2> QED
    BY <2>1, <2>2
<1>2. Tells(c, events, acc)
  BY <1>1 DEF TellsInv
<1>3. /\ FlattenSeq(Mapped(LAMBDA e : e.text, acc.told))
            = LET spoken == FlattenSeq(Mapped(LAMBDA e : e.text, events))
              IN  IF c = "Anthropic-Messages" /\ spoken # <<>> THEN Tail(spoken) ELSE spoken
      /\ c = "OpenAI-Chat" =>
            /\ Mapped(LAMBDA e : e.tool, acc.told) = Mapped(LAMBDA e : e.tool, events)
            /\ Len(acc.told) = Len(events)
  BY <1>2, TellsKept
<1> QED
  BY <1>1, <1>3 DEF StreamIsKept

(* The texts of a stream reach its client once and in order, whatever their *)
(* events carry and however the upstream's text was cut: for every stream,  *)
(* adapter and client, but for the first text of a Messages client; a Chat  *)
(* client is told of every call (parseStreamEvent, serializeStreamEvent).   *)
THEOREM StreamKept == Spec => []StreamIsKept
<1>1. StreamInv /\ TellsInv /\ [Next]_vars => StreamInv' /\ TellsInv'
  BY StreamInvStep, TellsInvStep
<1> QED
  BY StreamInvInit, TellsInvInit, TellsInvKept, <1>1, PTL DEF Spec

-----------------------------------------------------------------------------
(***************************************************************************)
(* The requests.  What the client said is what is said in the request of   *)
(* the IR, and that is what is said in the body for the upstream.          *)
(***************************************************************************)
(* What parts without a text say. *)
LEMMA NoTextSaid ==
    ASSUME NEW s \in Seq(BodyPart), \A i \in DOMAIN s : ~IsText(s[i])
    PROVE  Said(s) = <<>>
<1>1. PICK N, J, j, K, k : /\ N = {p \in BodyPart : ~IsText(p)}
                           /\ J = SaidBy(N) /\ j = SaidOne(N)
                           /\ K = [q \in Seq(N) |-> <<>>] /\ k = [x \in N |-> <<>>]
  OBVIOUS
<1>2. s \in Seq(N)
  <2>1. \A i \in DOMAIN s : s[i] \in N
    BY <1>1
  <2> QED
    BY <2>1
<1>3. Spoken(N, Text)
  BY <1>1, BodySpoken DEF Spoken
<1>4. Joins(N, Text, J, j)
  BY <1>1, <1>3, SaidJoins
<1>5. Joins(N, Text, K, k)
  BY <1>1, <1>3, SilentJoins DEF Spoken
<1>6. j = k
  BY <1>1 DEF SaidOne, SaidPart
<1>7. J[s] = K[s]
  BY <1>2, <1>4, <1>5, <1>6, JoinsSame
<1> QED
  BY <1>1, <1>2, <1>7 DEF SaidBy

LEMMA PartsHave == Seq(Part) \subseteq Seq(BodyPart)
<1>1. Part \subseteq BodyPart
  BY DEF Part, BodyPart
<1> QED
  BY <1>1, SeqMonotonic

(* A message of the IR as the parsers make it: a result is all there is in *)
(* a tool's.                                                               *)
OneResult(content) == \E id \in Ids, t \in Text : content = <<ToolResult(id, t)>>

Speech == {m \in Talk : m.role \in Roles /\ (m.role = "tool" => OneResult(m.content))}

TurnPart(m) == IF IsTurn(m) THEN Said(m.content) ELSE <<>>

(* What a client's message says, and to whom. *)
Heeded(client) ==
    {m \in BodyMessage : /\ m.role \in RolesOf(client)
                         /\ m.shape = "null" => Texts(m.parts) = <<>>}
Unread(client, m) == client = "OpenAI-Chat" /\ m.shape = "array" /\ m.role # "tool"
FromSystem(client) == {m \in Heeded(client) : IsSystem(m) /\ ~Unread(client, m)}
FromTurns(client)  == {m \in Heeded(client) : IsTurn(m) /\ m.role # "tool" /\ ~Unread(client, m)}

Among(m, Q) == IF m \in Q THEN Said(m.parts) ELSE <<>>

Conveyed(client, m, t) ==
    /\ t \in Speech
    /\ SystemPart(t) = Among(m, FromSystem(client)) /\ TurnPart(t) = Among(m, FromTurns(client))

(* A message that says the same in the same role, but as a tool nothing.   *)
LEMMA ConveyedIs ==
    ASSUME NEW client, NEW m \in Heeded(client), NEW t \in Talk, t.role \in Roles,
           IsSystem(t) <=> IsSystem(m), t.role = "tool" <=> m.role = "tool",
           t.role = "tool" => OneResult(t.content),
           Said(t.content) = IF m.role = "tool" \/ Unread(client, m) THEN <<>> ELSE Said(m.parts)
    PROVE  Conveyed(client, m, t)
<1>1. t \in Speech
  BY DEF Speech
<1>2. m.role = "tool" => ~IsSystem(m)
  BY DEF IsSystem
<1>3. SystemPart(t) = Among(m, FromSystem(client))
  BY <1>2 DEF SystemPart, Among, FromSystem
<1>4. TurnPart(t) = Among(m, FromTurns(client))
  BY <1>2 DEF TurnPart, Among, FromTurns, IsTurn
<1> QED
  BY <1>1, <1>3, <1>4 DEF Conveyed

LEMMA HeededIs ==
    ASSUME NEW client, NEW m \in Heeded(client)
    PROVE  /\ m \in BodyMessage /\ m.role \in RolesOf(client) /\ m.parts \in Seq(BodyPart)
           /\ Said(m.parts) \in Text /\ m.id \in Ids
           /\ m.shape = "null" => Said(m.parts) = <<>>
<1>1. m \in BodyMessage /\ m.role \in RolesOf(client) /\ m.parts \in Seq(BodyPart) /\ m.id \in Ids
  BY DEF Heeded, BodyMessage
<1>2. Said(m.parts) \in Text
  BY <1>1, SaidText DEF Said
<1>3. m.shape = "null" => Said(m.parts) = <<>>
  <2>1. Joined(<<>>) = <<>>
    BY DEF Joined, Mapped, FlattenSeq
  <2> QED
    BY <2>1 DEF Heeded, Said
<1> QED
  BY <1>1, <1>2, <1>3

LEMMA ResultSaid ==
    ASSUME NEW id \in Ids, NEW t \in Text
    PROVE  <<ToolResult(id, t)>> \in Seq(Part) /\ Said(<<ToolResult(id, t)>>) = <<>>
<1>1. PICK p \in Part : p = ToolResult(id, t) /\ ~IsText(p)
  <2>1. NoTool \in Tools \cup {NoTool}
    OBVIOUS
  <2>2. ToolResult(id, t) \in Part
    BY <2>1, PartsAre
  <2> QED
    BY <2>2 DEF ToolResult, IsText
<1>2. PICK c \in Seq(Part) : c = <<p>>
  BY OneIn
<1>3. c \in Seq(BodyPart)
  BY PartsHave
<1>4. \A i \in DOMAIN c : ~IsText(c[i])
  <2>1. \A i \in DOMAIN c : c[i] = p
    BY <1>2, OneIn
  <2> QED
    BY <1>1, <2>1
<1> QED
  BY <1>1, <1>2, <1>3, <1>4, NoTextSaid

LEMMA ChatCalls ==
    ASSUME NEW parts \in Seq(BodyPart)
    PROVE  Mapped(LAMBDA c : ToolUse(c.id, c.name, Parsed(c.text)), ToolUses(parts)) \in Seq(Part)
<1>1. PICK f : f = [c \in BodyPart |-> ToolUse(c.id, c.name, Parsed(c.text))]
  OBVIOUS
<1>2. Maps(f, BodyPart, Part)
  <2>1. ASSUME NEW c \in BodyPart PROVE ToolUse(c.id, c.name, Parsed(c.text)) \in Part
    <3>1. c.id \in Ids /\ c.name \in Tools \cup {NoTool} /\ c.text \in Text
      BY DEF BodyPart
    <3>2. Parsed(c.text) \in Text
      BY <3>1, ParsedText
    <3> QED
      BY <3>1, <3>2, PartsAre
  <2> QED
    BY <1>1, <2>1 DEF Maps
<1>3. PICK q \in Seq(BodyPart) : q = ToolUses(parts)
  BY UsesAre
<1>4. \A i \in DOMAIN q : q[i] \in BodyPart
  OBVIOUS
<1>5. Mapped(LAMBDA c : ToolUse(c.id, c.name, Parsed(c.text)), q) = Through(f, q)
  BY <1>1, <1>4 DEF Mapped, Through
<1> QED
  BY <1>2, <1>3, <1>5, ThroughIs

LEMMA ChatConveys ==
    ASSUME NEW m \in Heeded("OpenAI-Chat")
    PROVE  Conveyed("OpenAI-Chat", m, FromIncomingMessage(m))
<1>1. PICK client : client = "OpenAI-Chat"
  OBVIOUS
<1>2. /\ m \in BodyMessage /\ m.role \in Roles /\ m.parts \in Seq(BodyPart) /\ m.id \in Ids
      /\ m.shape = "null" => Said(m.parts) = <<>>
  BY HeededIs DEF RolesOf
<1>3. PICK t \in Text : t = Joined(Texts(m.parts)) /\ t = Said(m.parts)
  BY HeededIs DEF Said
<1>4. PICK r \in Talk : r = FromIncomingMessage(m) /\ r.role = m.role
  <2>1. FromIncomingMessage(m) \in Talk
    BY <1>2, ChatTalks
  <2>2. FromIncomingMessage(m).role = m.role
    BY DEF FromIncomingMessage
  <2> QED
    BY <2>1, <2>2
<1>5. PICK said \in Seq(Part) : said = IF m.shape = "string" THEN <<TextPart(t)>> ELSE <<>>
  BY OneText, EmptySeq
<1>6. m.role # "tool" => Said(said) = IF Unread(client, m) THEN <<>> ELSE t
  <2>1. CASE m.shape = "string"
    <3>1. SaidIn[<<TextPart(t)>>] = t /\ <<TextPart(t)>> \in Seq(BodyPart)
      BY TextSays
    <3>2. Said(<<TextPart(t)>>) = t
      BY <3>1 DEF SaidIn, SaidBy
    <3> QED
      BY <1>5, <2>1, <3>2 DEF Unread
  <2>2. CASE m.shape = "array"
    <3>1. said = <<>>
      BY <1>5, <2>2
    <3>2. m.role # "tool" => Unread(client, m)
      BY <1>1, <2>2 DEF Unread
    <3> QED
      BY <3>1, <3>2, NothingSaid
  <2>3. CASE m.shape = "null"
    <3>1. said = <<>> /\ t = <<>> /\ ~Unread(client, m)
      BY <1>2, <1>3, <1>5, <2>3 DEF Unread
    <3> QED
      BY <3>1, NothingSaid
  <2>4. m.shape \in {"string", "array", "null"}
    BY <1>2 DEF BodyMessage
  <2> QED
    BY <2>1, <2>2, <2>3, <2>4
<1>7. PICK some \in Seq(Part) : some = Filter(said, LAMBDA c : c.text # <<>>) /\ Said(some) = Said(said)
  <2>1. \A i \in DOMAIN said : IsText(said[i]) /\ said[i] \in Part
    <3>1. CASE m.shape = "string"
      <4>1. \A i \in DOMAIN said : said[i] = TextPart(t)
        BY <1>5, <3>1
      <4> QED
        BY <4>1 DEF TextPart, IsText
    <3>2. CASE m.shape # "string"
      BY <1>5, <3>2
    <3> QED
      BY <3>1, <3>2
  <2>2. {i \in DOMAIN said : said[i].text # <<>>} = {i \in DOMAIN said : said[i] \in MeantIn(Part)}
    BY <2>1 DEF MeantIn
  <2>3. Filter(said, LAMBDA c : c.text # <<>>) = Only(said, MeantIn(Part))
    BY <2>2 DEF Filter, Only
  <2>4. Said(Only(said, MeantIn(Part))) = Said(said)
    BY SpelledTalk, MeantSaid DEF Spelled
  <2> QED
    BY <2>3, <2>4, OnlySub
<1>8. PICK calls \in Seq(Part) :
         /\ calls = Mapped(LAMBDA c : ToolUse(c.id, c.name, Parsed(c.text)), ToolUses(m.parts))
         /\ Said(calls) = <<>>
  <2>1. PICK calls \in Seq(Part) :
           calls = Mapped(LAMBDA c : ToolUse(c.id, c.name, Parsed(c.text)), ToolUses(m.parts))
    BY <1>2, ChatCalls
  <2>2. \A i \in DOMAIN calls : ~IsText(calls[i])
    BY <2>1 DEF Mapped, ToolUse, IsText
  <2>3. Said(calls) = <<>>
    BY <2>2, PartsHave, NoTextSaid
  <2> QED
    BY <2>1, <2>3
<1>9. CASE m.role = "tool"
  <2>1. r.content = <<ToolResult(m.id, t)>>
    BY <1>3, <1>4, <1>9 DEF FromIncomingMessage
  <2>2. Said(r.content) = <<>>
    BY <1>2, <2>1, ResultSaid
  <2>3. OneResult(r.content)
    BY <1>2, <2>1 DEF OneResult
  <2> QED
    BY <1>1, <1>2, <1>4, <1>9, <2>2, <2>3, ConveyedIs DEF IsSystem
<1>10. CASE m.role = "assistant"
  <2>1. r.content = some \o calls
    BY <1>3, <1>4, <1>5, <1>7, <1>8, <1>10 DEF FromIncomingMessage
  <2>2. Said(some \o calls) = Said(some) \o Said(calls)
    BY SpelledTalk, SaidJoined DEF Spelled
  <2>3. Said(some) \in Text
    BY <1>3, <1>6, <1>7, <1>10, EmptySeq DEF Text
  <2>4. Said(r.content) = Said(said)
    BY <1>7, <1>8, <2>1, <2>2, <2>3, TextEnds
  <2> QED
    BY <1>1, <1>2, <1>3, <1>4, <1>6, <1>10, <2>4, ConveyedIs DEF IsSystem
<1>11. CASE m.role \notin {"tool", "assistant"}
  <2>1. r.content = said
    BY <1>3, <1>4, <1>5, <1>11 DEF FromIncomingMessage
  <2> QED
    BY <1>1, <1>2, <1>3, <1>4, <1>6, <1>11, <2>1, ConveyedIs DEF IsSystem
<1> QED
  BY <1>9, <1>10, <1>11

LEMMA InputConveys ==
    ASSUME NEW m \in Heeded("OpenAI-Responses")
    PROVE  Conveyed("OpenAI-Responses", m, FromInput(m))
<1>1. PICK client : client = "OpenAI-Responses"
  OBVIOUS
<1>2. m \in BodyMessage /\ m.role \in Roles \ {"tool"}
  BY HeededIs DEF RolesOf
<1>3. PICK t \in Text : t = Joined(Texts(m.parts)) /\ t = Said(m.parts)
  BY HeededIs DEF Said
<1>4. PICK r \in Talk : r = FromInput(m) /\ r.role = m.role /\ r.content = <<TextPart(t)>>
  <2>1. FromInput(m) \in Talk
    BY <1>2, InputTalks
  <2>2. FromInput(m).role = m.role /\ FromInput(m).content = <<TextPart(t)>>
    BY <1>3 DEF FromInput
  <2> QED
    BY <2>1, <2>2
<1>5. Said(<<TextPart(t)>>) = t
  <2>1. SaidIn[<<TextPart(t)>>] = t /\ <<TextPart(t)>> \in Seq(BodyPart)
    BY TextSays
  <2> QED
    BY <2>1 DEF SaidIn, SaidBy
<1>6. ~Unread(client, m)
  BY <1>1 DEF Unread
<1> QED
  BY <1>1, <1>2, <1>3, <1>4, <1>5, <1>6, ConveyedIs DEF IsSystem

LEMMA AnthropicConveys ==
    ASSUME NEW m \in Heeded("Anthropic-Messages")
    PROVE  Conveyed("Anthropic-Messages", m, FromAnthropicMessage(m))
<1>1. PICK client : client = "Anthropic-Messages"
  OBVIOUS
<1>2. m \in BodyMessage /\ m.role \in {"user", "assistant"} /\ m.parts \in Seq(BodyPart)
  BY HeededIs DEF RolesOf
<1>3. PICK c : c = Filter(m.parts, LAMBDA p : p.type # "image")
  OBVIOUS
<1>4. PICK r \in Talk : r = FromAnthropicMessage(m) /\ r.role = m.role /\ r.content = c
  <2>1. FromAnthropicMessage(m) \in Talk
    BY <1>2, AnthropicTalks
  <2>2. FromAnthropicMessage(m).role = m.role /\ FromAnthropicMessage(m).content = c
    BY <1>3 DEF FromAnthropicMessage
  <2> QED
    BY <2>1, <2>2
<1>5. Said(c) = Said(m.parts)
  <2>1. PICK s, Q : s \in Seq(BodyPart) /\ s = m.parts /\ Q = {p \in BodyPart : p.type # "image"}
    BY <1>2
  <2>2. \A i \in DOMAIN s : s[i] \in BodyPart
    BY <2>1
  <2>3. {i \in DOMAIN s : s[i].type # "image"} = {i \in DOMAIN s : s[i] \in Q}
    BY <2>1, <2>2
  <2>4. c = Only(s, Q)
    BY <1>3, <2>1, <2>3 DEF Filter, Only
  <2>5. DropsNothing(Q)
    BY <2>1 DEF DropsNothing, IsToolUse, IsText
  <2>6. SaysAs(s, c)
    BY <2>1, <2>4, <2>5, OnlySays
  <2> QED
    BY <2>1, <2>6 DEF SaysAs, SaidIn, SaidBy
<1>6. ~Unread(client, m)
  BY <1>1 DEF Unread
<1>7. r.role \in Roles /\ r.role # "tool" /\ m.role # "tool"
  BY <1>2, <1>4 DEF Roles
<1> QED
  BY <1>1, <1>4, <1>5, <1>6, <1>7, ConveyedIs DEF IsSystem

LEMMA GeminiConveys ==
    ASSUME NEW m \in Heeded("Gemini-GenerateContent"), NEW n, Drawn[n] \in Ids
    PROVE  Conveyed("Gemini-GenerateContent", m, FromGeminiContent(m, n))
<1>1. PICK client : client = "Gemini-GenerateContent"
  OBVIOUS
<1>2. m \in BodyMessage /\ m.role \in {"user", "model"} /\ m.parts \in Seq(BodyPart)
  BY HeededIs DEF RolesOf
<1> DEFINE From(c) == CASE IsToolUse(c)    -> ToolUse(Drawn[n], c.name, c.text)
                        [] IsToolResult(c) -> ToolResult(NoId, c.text)
                        [] OTHER           -> c
<1>3. PICK q : q = Filter(m.parts, LAMBDA p : p.type \notin {"image", "thinking"})
  OBVIOUS
<1>4. PICK r \in Talk : r = FromGeminiContent(m, n) /\ r.content = Mapped(From, q)
                        /\ r.role \in {"assistant", "user"}
  <2>1. FromGeminiContent(m, n) \in Talk
    BY <1>2, GeminiTalks
  <2>2. /\ FromGeminiContent(m, n).content = Mapped(From, q)
        /\ FromGeminiContent(m, n).role \in {"assistant", "user"}
    BY <1>3 DEF FromGeminiContent
  <2> QED
    BY <2>1, <2>2
<1>5. q \in Seq(BodyPart) /\ Said(q) = Said(m.parts)
  <2>1. PICK s, Q : s \in Seq(BodyPart) /\ s = m.parts /\ Q = {p \in BodyPart : p.type \notin {"image", "thinking"}}
    BY <1>2
  <2>2. \A i \in DOMAIN s : s[i] \in BodyPart
    BY <2>1
  <2>3. {i \in DOMAIN s : s[i].type \notin {"image", "thinking"}} = {i \in DOMAIN s : s[i] \in Q}
    BY <2>1, <2>2
  <2>4. q = Only(s, Q)
    BY <1>3, <2>1, <2>3 DEF Filter, Only
  <2>5. DropsNothing(Q)
    BY <2>1 DEF DropsNothing, IsToolUse, IsText
  <2>6. SaysAs(s, q)
    BY <2>1, <2>4, <2>5, OnlySays
  <2> QED
    BY <2>1, <2>6 DEF SaysAs, SaidIn, SaidBy
<1>6. ASSUME NEW p \in BodyPart PROVE From(p) \in BodyPart /\ SaidPart(From(p)) = SaidPart(p)
  <2>1. p.name \in Tools \cup {NoTool} /\ p.text \in Text /\ NoId \in Ids
    BY MessagesConfig DEF BodyPart
  <2>2. ToolUse(Drawn[n], p.name, p.text) \in Part /\ ToolResult(NoId, p.text) \in Part
    BY <2>1, PartsAre
  <2>3. Part \subseteq BodyPart
    BY DEF Part, BodyPart
  <2> QED
    BY <2>2, <2>3 DEF SaidPart, IsToolUse, IsToolResult, IsText, ToolUse, ToolResult
<1> HIDE DEF From
<1>7. Said(Mapped(From, q)) = Said(q)
  <2>1. PICK f, S, J, j : f = [p \in BodyPart |-> From(p)] /\ S = BodyPart /\ J = SaidIn /\ j = SaidEach
    OBVIOUS
  <2>2. Maps(f, S, S) /\ Joins(S, Text, J, j)
    BY <1>6, <2>1, SaidIsJoined DEF Maps
  <2>3. \A x \in S : j[x] = j[f[x]]
    BY <1>6, <2>1 DEF SaidEach, SaidOne
  <2>4. \A s \in Seq(S) : J[Through(f, s)] = J[s]
    BY <2>2, <2>3, ThroughLike
  <2>5. Mapped(From, q) = Through(f, q)
    <3>1. \A i \in DOMAIN q : q[i] \in BodyPart
      BY <1>5
    <3> QED
      BY <2>1, <3>1 DEF Mapped, Through
  <2>6. Through(f, q) \in Seq(S)
    BY <1>5, <2>1, <2>2, ThroughIs
  <2> QED
    BY <1>5, <2>1, <2>4, <2>5, <2>6 DEF SaidIn, SaidBy
<1>8. ~Unread(client, m)
  BY <1>1 DEF Unread
<1>9. /\ r.role \in Roles /\ r.role # "tool" /\ m.role # "tool"
      /\ ~IsSystem(r) /\ ~IsSystem(m)
  BY <1>2, <1>4 DEF Roles, IsSystem
<1> QED
  BY <1>1, <1>4, <1>5, <1>7, <1>8, <1>9, ConveyedIs

-----------------------------------------------------------------------------
(* What the messages of a body say, and those of the request of the IR.    *)
BodySays(client)   == [m \in Heeded(client) |-> Said(m.parts)]
HeardBy(client, Q) == AmongBy(Heeded(client), AllOf(BodySays(client), Heeded(client)), Q)

SpeechSays == [m \in Speech |-> Said(m.content)]
TurnsBy    == AmongBy(Speech, AllOf(SpeechSays, Speech), TurnIn(Speech))

LEMMA HeardJoins ==
    ASSUME NEW client, NEW Q
    PROVE  Joins(Heeded(client), Text, HeardBy(client, Q), [m \in Heeded(client) |-> Among(m, Q)])
<1>1. PICK S, f : S = Heeded(client) /\ f = BodySays(client)
  OBVIOUS
<1>2. Maps(f, S, Text)
  BY <1>1, HeededIs DEF Maps, BodySays
<1>3. Joins(S, Text, AmongBy(S, AllOf(f, S), Q), AmongOne(S, f, Q))
  BY <1>2, BodySpoken, SumJoins DEF Spoken
<1>4. AmongOne(S, f, Q) = [m \in S |-> Among(m, Q)]
  BY <1>1 DEF AmongOne, Among, BodySays
<1> QED
  BY <1>1, <1>3, <1>4 DEF HeardBy

LEMMA SpeechIs ==
    ASSUME NEW m \in Speech
    PROVE  /\ m \in Talk /\ m.role \in Roles /\ m.content \in Seq(Part) /\ m.content \in Seq(BodyPart)
           /\ Said(m.content) \in Text /\ (m.role = "tool" => Said(m.content) = <<>>)
           /\ TurnPart(m) \in Text /\ SystemPart(m) \in Text
<1>1. m \in Talk /\ m.role \in Roles /\ m.content \in Seq(Part) /\ (m.role = "tool" => Said(m.content) = <<>>)
  <2>1. m.role = "tool" => OneResult(m.content)
    BY DEF Speech
  <2>2. OneResult(m.content) => Said(m.content) = <<>>
    BY ResultSaid DEF OneResult
  <2> QED
    BY <2>1, <2>2 DEF Speech, Talk
<1>2. m.content \in Seq(BodyPart)
  BY <1>1, PartsHave
<1>3. Said(m.content) \in Text
  BY <1>2, SaidText DEF Said
<1>4. <<>> \in Text
  BY EmptySeq DEF Text
<1> QED
  BY <1>1, <1>2, <1>3, <1>4 DEF TurnPart, SystemPart

LEMMA TurnsJoin == Joins(Speech, Text, TurnsBy, [m \in Speech |-> TurnPart(m)])
<1>1. PICK S, f, Q : S = Speech /\ f = SpeechSays /\ Q = TurnIn(Speech)
  OBVIOUS
<1>2. Maps(f, S, Text)
  BY <1>1, SpeechIs DEF Maps, SpeechSays
<1>3. Joins(S, Text, AmongBy(S, AllOf(f, S), Q), AmongOne(S, f, Q))
  BY <1>2, BodySpoken, SumJoins DEF Spoken
<1>4. AmongOne(S, f, Q) = [m \in S |-> TurnPart(m)]
  BY <1>1 DEF AmongOne, TurnPart, TurnIn, SpeechSays
<1> QED
  BY <1>1, <1>3, <1>4 DEF TurnsBy

SystemsBy == SystemBy(Speech)

LEMMA SystemsJoin == Joins(Speech, Text, SystemsBy, [m \in Speech |-> SystemPart(m)])
<1>1. Spelled(Speech, Part, Text)
  BY SpelledTalk DEF Spelled, Speech
<1> QED
  BY <1>1, SystemJoins DEF SystemsBy, SystemOne

Delivers(client, s, t) ==
    /\ t \in Seq(Speech)
    /\ SystemsBy[t] = HeardBy(client, FromSystem(client))[s]
    /\ TurnsBy[t] = HeardBy(client, FromTurns(client))[s]

LEMMA AllConveyed ==
    ASSUME NEW client, NEW s \in Seq(Heeded(client)), NEW F, Maps(F, Heeded(client), Speech),
           \A m \in Heeded(client) : Conveyed(client, m, F[m])
    PROVE  Delivers(client, s, Through(F, s))
<1>1. PICK S, P, Q, H, h, K, k : /\ S = Heeded(client)
                              /\ P = FromSystem(client) /\ Q = FromTurns(client)
                              /\ H = HeardBy(client, P) /\ h = [m \in S |-> Among(m, P)]
                              /\ K = HeardBy(client, Q) /\ k = [m \in S |-> Among(m, Q)]
  OBVIOUS
<1>2. PICK g, j : g = [m \in Speech |-> SystemPart(m)] /\ j = [m \in Speech |-> TurnPart(m)]
  OBVIOUS
<1>3. Joins(S, Text, H, h) /\ Joins(S, Text, K, k)
  BY <1>1, HeardJoins
<1>4. Joins(Speech, Text, SystemsBy, g) /\ Joins(Speech, Text, TurnsBy, j)
  BY <1>2, SystemsJoin, TurnsJoin
<1>5. (\A m \in S : h[m] = g[F[m]]) /\ (\A m \in S : k[m] = j[F[m]])
  BY <1>1, <1>2 DEF Conveyed, Maps
<1>6. \A q \in Seq(S) : SystemsBy[Through(F, q)] = H[q]
  BY <1>1, <1>3, <1>4, <1>5, ThroughLike
<1>7. \A q \in Seq(S) : TurnsBy[Through(F, q)] = K[q]
  BY <1>1, <1>3, <1>4, <1>5, ThroughLike
<1>8. Through(F, s) \in Seq(Speech)
  BY ThroughIs
<1> QED
  BY <1>1, <1>6, <1>7, <1>8 DEF Delivers

LEMMA SystemSpeaks ==
    ASSUME NEW body, body.system \in Seq(Text)
    PROVE  /\ SystemMessage(body) \in Seq(Speech)
           /\ SystemsBy[SystemMessage(body)] = FlattenSeq(body.system)
           /\ TurnsBy[SystemMessage(body)] = <<>> /\ FlattenSeq(body.system) \in Text
<1>1. PICK t \in Text : t = FlattenSeq(body.system)
  <2>1. Joinable(Text)
    BY SpelledTalk DEF Spelled, Spoken, Strings
  <2> QED
    BY <2>1, FlattenType
<1>2. <<>> \in Seq(Speech) /\ SystemsBy[<<>>] = <<>> /\ TurnsBy[<<>>] = <<>>
  BY SystemsJoin, TurnsJoin, EmptySeq DEF Joins
<1>3. CASE t = <<>>
  BY <1>1, <1>2, <1>3 DEF SystemMessage
<1>4. CASE t # <<>>
  <2>1. PICK c \in Seq(Part) : c = <<TextPart(t)>> /\ Said(c) = t
    <3>1. SaidIn[<<TextPart(t)>>] = t /\ <<TextPart(t)>> \in Seq(BodyPart)
      BY TextSays
    <3> QED
      BY <3>1, OneText DEF SaidIn, SaidBy
  <2>2. PICK m \in Speech : m = [role |-> "system", content |-> c]
    BY DEF Speech, Talk, Roles
  <2>3. SystemPart(m) = t /\ TurnPart(m) = <<>>
    BY <2>1, <2>2 DEF SystemPart, TurnPart, IsTurn, IsSystem
  <2>4. PICK n \in Seq(Speech) : n = <<>>
    BY <1>2
  <2>5. SystemsBy[Append(n, m)] = SystemsBy[n] \o SystemPart(m) /\ TurnsBy[Append(n, m)] = TurnsBy[n] \o TurnPart(m)
    BY SystemsJoin, TurnsJoin DEF Joins
  <2>6. Append(n, m) = <<m>> /\ <<m>> \in Seq(Speech)
    BY <2>4, OneIn
  <2>7. SystemMessage(body) = <<m>>
    BY <1>1, <1>4, <2>1, <2>2 DEF SystemMessage
  <2>8. <<>> \o t = t /\ <<>> \o <<>> = <<>>
    BY ConcatEmptySeq, EmptySeq DEF Text
  <2> QED
    BY <1>1, <1>2, <2>3, <2>4, <2>5, <2>6, <2>7, <2>8
<1> QED
  BY <1>3, <1>4

(* What the client said, to whom. *)
SystemOf(client, body) ==
    FlattenSeq(body.system) \o HeardBy(client, FromSystem(client))[body.messages]
TurnsOf(client, body) == HeardBy(client, FromTurns(client))[body.messages]

SaysSame(client, body, messages) ==
    /\ messages \in Seq(Speech)
    /\ SystemsBy[messages] = SystemOf(client, body)
    /\ TurnsBy[messages] = TurnsOf(client, body)

LEMMA AfterSystem ==
    ASSUME NEW client, NEW body, body.system \in Seq(Text), body.messages \in Seq(Heeded(client)),
           NEW q, Delivers(client, body.messages, q)
    PROVE  SaysSame(client, body, SystemMessage(body) \o q)
<1>1. PICK y \in Seq(Speech), x \in Seq(Speech) : y = SystemMessage(body) /\ x = q
  BY SystemSpeaks DEF Delivers
<1>2. Adds(SystemsBy, y, x)
  BY SystemsJoin, JoinsJoined
<1>3. Adds(TurnsBy, y, x)
  BY TurnsJoin, JoinsJoined
<1>4. TurnsBy[x] \in Text
  BY TurnsJoin DEF Joins
<1>5. <<>> \o TurnsBy[x] = TurnsBy[x]
  BY <1>4, ConcatEmptySeq DEF Text
<1>6. SystemsBy[y] = FlattenSeq(body.system) /\ TurnsBy[y] = <<>>
  BY <1>1, SystemSpeaks
<1>7. y \o x \in Seq(Speech)
  BY ConcatProperties
<1> QED
  BY <1>1, <1>2, <1>3, <1>5, <1>6, <1>7 DEF SaysSame, Delivers, Adds, SystemOf, TurnsOf

LEMMA BodiesAre ==
    ASSUME NEW r \in Requests
    PROVE  /\ r.client \in ClientProtocols /\ r.body \in Body
           /\ r.body.system \in Seq(Text) /\ r.body.messages \in Seq(Heeded(r.client))
           /\ r.client = "OpenAI-Chat" => r.body.system = <<>>
<1>1. /\ r.client \in ClientProtocols /\ r.body \in Body /\ r.body \in BodyOf(r.client)
  BY ExchangeConfig DEF BodyOf
<1>2. r.body.system \in Seq(Text) /\ r.body.messages \in Seq(BodyMessage)
  BY <1>1 DEF Body
<1>3. \A i \in DOMAIN r.body.messages : r.body.messages[i] \in Heeded(r.client)
  <2>1. \A i \in DOMAIN r.body.messages : r.body.messages[i] \in BodyMessage
    BY <1>2
  <2> QED
    BY <1>1, <2>1 DEF BodyOf, Heeded
<1>4. r.body.messages \in Seq(Heeded(r.client))
  <2>1. PICK s, S : s \in Seq(BodyMessage) /\ s = r.body.messages /\ S = Heeded(r.client)
    BY <1>2
  <2>2. s \in Seq(S)
    BY <1>3, <2>1
  <2> QED
    BY <2>1, <2>2
<1> QED
  BY <1>1, <1>2, <1>4 DEF BodyOf

LEMMA ParsedSays ==
    ASSUME NEW r \in Requests, NEW n \in 1..MaxExchanges
    PROVE  SaysSame(r.client, r.body, ParseIncomingRequest(r.client, r.body, n).messages)
<1>1. PICK c, body, s : c = r.client /\ body = r.body /\ s = body.messages
  OBVIOUS
<1>2. /\ c \in ClientProtocols /\ body \in Body /\ body.system \in Seq(Text) /\ s \in Seq(Heeded(c))
      /\ c = "OpenAI-Chat" => body.system = <<>>
  BY <1>1, BodiesAre
<1>3. \A i \in DOMAIN s : s[i] \in Heeded(c)
  BY <1>2
<1>4. CASE c = "OpenAI-Chat"
  <2>1. PICK F : F = [m \in Heeded(c) |-> FromIncomingMessage(m)]
    OBVIOUS
  <2>2. Maps(F, Heeded(c), Speech) /\ \A m \in Heeded(c) : Conveyed(c, m, F[m])
    BY <1>4, <2>1, ChatConveys DEF Maps, Conveyed
  <2>3. Delivers(c, s, Through(F, s))
    BY <1>2, <2>2, AllConveyed
  <2>4. ParseIncomingRequest(c, body, n).messages = Through(F, s)
    <3>1. Mapped(FromIncomingMessage, s) = Through(F, s)
      BY <1>3, <2>1 DEF Mapped, Through
    <3> QED
      BY <1>1, <1>4, <3>1 DEF ParseIncomingRequest, ParseChat, Parse
  <2>5. SystemOf(c, body) = HeardBy(c, FromSystem(c))[s]
    <3>1. FlattenSeq(<<>>) = <<>>
      BY DEF FlattenSeq
    <3>2. HeardBy(c, FromSystem(c))[s] \in Text
      BY <1>2, HeardJoins DEF Joins
    <3>3. <<>> \o HeardBy(c, FromSystem(c))[s] = HeardBy(c, FromSystem(c))[s]
      BY <3>2, ConcatEmptySeq DEF Text
    <3> QED
      BY <1>1, <1>2, <1>4, <3>1, <3>3 DEF SystemOf
  <2> QED
    BY <1>1, <2>3, <2>4, <2>5 DEF SaysSame, Delivers, TurnsOf
<1>5. CASE c = "OpenAI-Responses"
  <2>1. PICK F : F = [m \in Heeded(c) |-> FromInput(m)]
    OBVIOUS
  <2>2. Maps(F, Heeded(c), Speech) /\ \A m \in Heeded(c) : Conveyed(c, m, F[m])
    BY <1>5, <2>1, InputConveys DEF Maps, Conveyed
  <2>3. Delivers(c, s, Through(F, s))
    BY <1>2, <2>2, AllConveyed
  <2>4. ParseIncomingRequest(c, body, n).messages = SystemMessage(body) \o Through(F, s)
    <3>1. Mapped(FromInput, s) = Through(F, s)
      BY <1>3, <2>1 DEF Mapped, Through
    <3> QED
      BY <1>1, <1>5, <3>1 DEF ParseIncomingRequest, ParseResponses, Parse
  <2> QED
    BY <1>1, <1>2, <2>3, <2>4, AfterSystem
<1>6. CASE c = "Anthropic-Messages"
  <2>1. PICK F : F = [m \in Heeded(c) |-> FromAnthropicMessage(m)]
    OBVIOUS
  <2>2. Maps(F, Heeded(c), Speech) /\ \A m \in Heeded(c) : Conveyed(c, m, F[m])
    BY <1>6, <2>1, AnthropicConveys DEF Maps, Conveyed
  <2>3. Delivers(c, s, Through(F, s))
    BY <1>2, <2>2, AllConveyed
  <2>4. ParseIncomingRequest(c, body, n).messages = SystemMessage(body) \o Through(F, s)
    <3>1. Mapped(FromAnthropicMessage, s) = Through(F, s)
      BY <1>3, <2>1 DEF Mapped, Through
    <3> QED
      BY <1>1, <1>6, <3>1 DEF ParseIncomingRequest, ParseMessages, Parse
  <2> QED
    BY <1>1, <1>2, <2>3, <2>4, AfterSystem
<1>7. CASE c = "Gemini-GenerateContent"
  <2>0. Drawn[n] \in Ids
    BY ExchangeConfig
  <2>1. PICK F : F = [m \in Heeded(c) |-> FromGeminiContent(m, n)]
    OBVIOUS
  <2>2. Maps(F, Heeded(c), Speech) /\ \A m \in Heeded(c) : Conveyed(c, m, F[m])
    BY <1>7, <2>0, <2>1, GeminiConveys DEF Maps, Conveyed
  <2>3. Delivers(c, s, Through(F, s))
    BY <1>2, <2>2, AllConveyed
  <2>4. ParseIncomingRequest(c, body, n).messages = SystemMessage(body) \o Through(F, s)
    <3>1. Mapped(LAMBDA m : FromGeminiContent(m, n), s) = Through(F, s)
      BY <1>3, <2>1 DEF Mapped, Through
    <3> QED
      BY <1>1, <1>7, <3>1 DEF ParseIncomingRequest, ParseGenerate, Parse
  <2> QED
    BY <1>1, <1>2, <2>3, <2>4, AfterSystem
<1> QED
  BY <1>2, <1>4, <1>5, <1>6, <1>7 DEF ClientProtocols

-----------------------------------------------------------------------------
(* Between two texts. *)
Halves(t, p, q) == /\ Len(p) \in 0..Len(t) /\ SubSeq(t, 1, Len(p)) = p
                   /\ SubSeq(t, Len(p) + 1, Len(t)) = q

LEMMA Between ==
    ASSUME NEW p \in Text, NEW q \in Text, NEW t, t = p \o q PROVE Halves(t, p, q)
<1>1. PICK m \in Nat, n \in Nat : m = Len(p) /\ n = Len(q) /\ p \in Seq(Words) /\ q \in Seq(Words)
  BY DEF Text
<1>2. /\ t \in Seq(Words) /\ Len(t) = m + n
      /\ \A i \in 1..(m + n) : t[i] = IF i <= m THEN p[i] ELSE q[i - m]
  BY <1>1, ConcatProperties
<1>3. SubSeq(t, 1, m) = p
  <2>1. \A i \in 1..m : t[i] \in Words
    BY <1>1, <1>2
  <2>2. SubSeq(t, 1, m) \in Seq(Words) /\ Len(SubSeq(t, 1, m)) = m
        /\ \A i \in 1..m : SubSeq(t, 1, m)[i] = t[i]
    BY <1>1, <2>1, SubSeqProperties
  <2>3. PICK r : r = SubSeq(t, 1, m)
    OBVIOUS
  <2>4. r \in Seq(Words) /\ Len(r) = Len(p) /\ \A i \in 1..Len(p) : r[i] = p[i]
    BY <1>1, <1>2, <2>2, <2>3
  <2>5. r = p
    BY <1>1, <2>4, SeqEqual
  <2> QED
    BY <2>3, <2>5
<1>4. SubSeq(t, m + 1, m + n) = q
  <2>1. \A i \in (m + 1)..(m + n) : t[i] \in Words
    BY <1>1, <1>2
  <2>2. SubSeq(t, m + 1, m + n) \in Seq(Words) /\ Len(SubSeq(t, m + 1, m + n)) = n
        /\ \A i \in 1..((m + n) - (m + 1) + 1) : SubSeq(t, m + 1, m + n)[i] = t[(m + 1) + i - 1]
    BY <1>1, <2>1, SubSeqProperties
  <2>3. PICK r : r = SubSeq(t, m + 1, m + n)
    OBVIOUS
  <2>4. ASSUME NEW i \in 1..n PROVE r[i] = q[i]
    <3>1. r[i] = t[m + i] /\ m + i \in 1..(m + n) /\ ~(m + i <= m) /\ (m + i) - m = i
      BY <1>1, <2>2, <2>3
    <3> QED
      BY <1>2, <3>1
  <2>5. r = q
    BY <1>1, <2>2, <2>3, <2>4, SeqEqual
  <2> QED
    BY <2>3, <2>5
<1>5. Len(p) = m /\ Len(t) = m + n /\ m \in 0..(m + n)
  BY <1>1, <1>2
<1> QED
  BY <1>3, <1>4, <1>5 DEF Halves

LEMMA TimesIs == ASSUME NEW t \in Text PROVE Times(t, 1) = t /\ Times(t, 2) = t \o t
<1>1. PICK A, n, o, w : /\ A = Text /\ n \in Seq(A) /\ o \in Seq(A) /\ w \in Seq(A)
                        /\ n = <<>> /\ o = Append(n, t) /\ w = Append(o, t)
  <2>1. <<>> \in Seq(Text)
    BY EmptySeq
  <2>2. Append(<<>>, t) \in Seq(Text)
    BY <2>1, AppendProperties
  <2>3. Append(Append(<<>>, t), t) \in Seq(Text)
    BY <2>2, AppendProperties
  <2> QED
    BY <2>1, <2>2, <2>3
<1>2. Joinable(A) /\ t \in A
  BY <1>1, SpelledTalk DEF Spelled, Spoken, Strings
<1>3. FlattenSeq(n) = <<>>
  BY <1>1 DEF FlattenSeq
<1>4. FlattenSeq(o) = <<>> \o t
  <2>1. FlattenSeq(Append(n, t)) = FlattenSeq(n) \o t
    BY <1>1, <1>2, FlattenOn
  <2> QED
    BY <1>1, <1>3, <2>1
<1>5. FlattenSeq(w) = FlattenSeq(o) \o t
  BY <1>1, <1>2, FlattenOn
<1>6. [i \in 1..1 |-> t] = o /\ [i \in 1..2 |-> t] = w
  BY <1>1
<1>7. <<>> \o t = t
  BY ConcatEmptySeq DEF Text
<1> QED
  BY <1>4, <1>5, <1>6, <1>7 DEF Times

-----------------------------------------------------------------------------
(* What the messages of a body for an upstream say. *)
WireSays  == [w \in WireMessage |-> Said(w.parts)]
WireBy(Q) == AmongBy(WireMessage, AllOf(WireSays, WireMessage), Q)

LEMMA WireIs ==
    ASSUME NEW w \in WireMessage
    PROVE  w.parts \in Seq(Part) /\ w.parts \in Seq(BodyPart) /\ Said(w.parts) \in Text
<1>1. w.parts \in Seq(Part)
  BY DEF WireMessage
<1>2. w.parts \in Seq(BodyPart)
  BY <1>1, PartsHave
<1>3. Said(w.parts) \in Text
  BY <1>2, SaidText DEF Said
<1> QED
  BY <1>1, <1>2, <1>3

LEMMA WireJoins ==
    ASSUME NEW Q PROVE Joins(WireMessage, Text, WireBy(Q), [w \in WireMessage |-> Among(w, Q)])
<1>1. PICK S, f : S = WireMessage /\ f = WireSays
  OBVIOUS
<1>2. Maps(f, S, Text)
  BY <1>1, WireIs DEF Maps, WireSays
<1>3. Joins(S, Text, AmongBy(S, AllOf(f, S), Q), AmongOne(S, f, Q))
  BY <1>2, BodySpoken, SumJoins DEF Spoken
<1>4. AmongOne(S, f, Q) = [w \in S |-> Among(w, Q)]
  BY <1>1 DEF AmongOne, Among, WireSays
<1> QED
  BY <1>1, <1>3, <1>4 DEF WireBy

LEMMA WireSaid ==
    ASSUME NEW s \in Seq(WireMessage), NEW Q
    PROVE  FlattenSeq(Mapped(LAMBDA m : Joined(Texts(m.parts)), Only(s, Q))) = WireBy(Q)[s]
<1>1. PICK q \in Seq(WireMessage) : q = Only(s, Q)
  BY OnlySub
<1>2. \A i \in DOMAIN q : q[i] \in WireMessage
  OBVIOUS
<1>3. Mapped(LAMBDA m : Joined(Texts(m.parts)), q) = Through(WireSays, q)
  BY <1>2 DEF Mapped, Through, WireSays, Said
<1>4. WireBy(Q)[s] = FlattenSeq(Through(WireSays, q))
  BY <1>1, SumIs DEF WireBy
<1> QED
  BY <1>1, <1>3, <1>4

(* A message for the upstream that says the same as one of the IR. *)
Carries(m, w) == /\ w \in WireMessage /\ (IsSystem(w) <=> IsSystem(m))
                 /\ Said(w.parts) = Said(m.content)

LEMMA ResultsAre ==
    ASSUME NEW s \in Seq(Part)
    PROVE  Results(s) \in Seq(Part) /\ Joined(Results(s)) \in Text /\ Said(Results(s)) = <<>>
<1>1. PICK Q : Q = {p \in Part : IsToolResult(p)}
  OBVIOUS
<1>2. Results(s) = Only(s, Q)
  <2>1. \A i \in DOMAIN s : s[i] \in Part
    OBVIOUS
  <2>2. {i \in DOMAIN s : IsToolResult(s[i])} = {i \in DOMAIN s : s[i] \in Q}
    BY <1>1, <2>1
  <2> QED
    BY <2>2 DEF Results, Filter, Only
<1>3. PICK q \in Seq(Part) : q = Results(s) /\ q \in Seq(Part \cap Q)
  BY <1>2, OnlySub, OnlyType
<1>4. Joined(q) \in Text
  <2>1. PICK f : f = TextOf(Part)
    OBVIOUS
  <2>2. Maps(f, Part, Text)
    BY <2>1 DEF Maps, TextOf, Part
  <2>3. Through(f, q) \in Seq(Text)
    BY <2>2, ThroughIs
  <2>4. Joinable(Text)
    BY SpelledTalk DEF Spelled, Spoken, Strings
  <2>5. FlattenSeq(Through(f, q)) \in Text
    BY <2>3, <2>4, FlattenType
  <2> QED
    BY <2>1, <2>5, JoinedIs
<1>5. Said(q) = <<>>
  <2>1. \A i \in DOMAIN q : q[i] \in Q
    BY <1>3
  <2>2. \A i \in DOMAIN q : ~IsText(q[i])
    BY <1>1, <2>1 DEF IsText, IsToolResult
  <2>3. q \in Seq(BodyPart)
    BY PartsHave
  <2> QED
    BY <2>2, <2>3, NoTextSaid
<1> QED
  BY <1>3, <1>4, <1>5

LEMMA OneSaid ==
    ASSUME NEW t \in Text PROVE <<TextPart(t)>> \in Seq(Part) /\ Said(<<TextPart(t)>>) = t
<1>1. SaidIn[<<TextPart(t)>>] = t /\ <<TextPart(t)>> \in Seq(BodyPart)
  BY TextSays
<1> QED
  BY <1>1, OneText DEF SaidIn, SaidBy

LEMMA UsesSaid ==
    ASSUME NEW s \in Seq(Part) PROVE ToolUses(s) \in Seq(Part) /\ Said(ToolUses(s)) = <<>>
<1>1. ToolUses(s) \in Seq(Part)
  BY UsesAre
<1>2. s \in Seq(BodyPart)
  BY PartsHave
<1>3. ToolUses(s) \in Seq(BodyPart) /\ SaidIn[ToolUses(s)] = <<>>
  BY <1>2, UsesSay
<1> QED
  BY <1>1, <1>3 DEF SaidIn, SaidBy

LEMMA TextsSaid ==
    ASSUME NEW s \in Seq(Part) PROVE Texts(s) \in Seq(Part) /\ Said(Texts(s)) = Said(s)
<1>1. Texts(s) \in Seq(Part)
  BY TextsAre, OnlySub
<1>2. s \in Seq(BodyPart)
  BY PartsHave
<1>3. Texts(s) \in Seq(BodyPart) /\ SaidIn[Texts(s)] = SaidIn[s]
  BY <1>2, TextsSay
<1> QED
  BY <1>1, <1>2, <1>3 DEF SaidIn, SaidBy

LEMMA OpenAICarries == ASSUME NEW m \in Speech PROVE Carries(m, ToOpenAIMessage(m))
<1>1. PICK c \in Seq(Part) : c = m.content /\ m.role \in Roles /\ (m.role = "tool" => Said(c) = <<>>)
  BY SpeechIs
<1>2. PICK t \in Text : t = Said(c) /\ t = Joined(Texts(c))
  BY <1>1, SpeechIs DEF Said
<1>3. PICK w : w = ToOpenAIMessage(m)
  OBVIOUS
<1>4. CASE m.role = "tool"
  <2>1. PICK id \in Ids : id = IF Results(c) = <<>> THEN NoId ELSE Results(c)[1].id
    <3>1. PICK q \in Seq(Part) : q = Results(c)
      BY ResultsAre
    <3>2. q # <<>> => q[1] \in Part
      OBVIOUS
    <3>3. (IF q = <<>> THEN NoId ELSE q[1].id) \in Ids
      BY <3>2, MessagesConfig DEF Part
    <3> QED
      BY <3>1, <3>3
  <2>2. PICK r \in Text : r = Joined(Results(c))
    BY ResultsAre
  <2>3. <<ToolResult(id, r)>> \in Seq(Part) /\ Said(<<ToolResult(id, r)>>) = <<>>
    BY ResultSaid
  <2>4. w = [role |-> "tool", id |-> id, parts |-> <<ToolResult(id, r)>>]
    BY <1>1, <1>3, <1>4, <2>1, <2>2 DEF ToOpenAIMessage
  <2>5. w \in WireMessage
    BY <2>3, <2>4 DEF WireMessage, Roles
  <2> QED
    BY <1>1, <1>3, <1>4, <2>3, <2>4, <2>5 DEF Carries, IsSystem
<1>5. CASE m.role = "assistant"
  <2>1. PICK text \in Seq(Part) : /\ text = IF Texts(c) = <<>> THEN <<>> ELSE <<TextPart(t)>>
                                  /\ Said(text) = t
    <3>1. CASE Texts(c) = <<>>
      <4>1. Joined(<<>>) = <<>>
        BY DEF Joined, Mapped, FlattenSeq
      <4>2. t = <<>>
        BY <1>2, <3>1, <4>1
      <4> QED
        BY <3>1, <4>2, NothingSaid, EmptySeq
    <3>2. CASE Texts(c) # <<>>
      BY <3>2, OneSaid
    <3> QED
      BY <3>1, <3>2
  <2>2. PICK calls \in Seq(Part) : calls = ToolUses(c) /\ Said(calls) = <<>>
    BY UsesSaid
  <2>3. text \o calls \in Seq(Part) /\ Said(text \o calls) = Said(text) \o Said(calls)
    BY SpelledTalk, SaidJoined, ConcatProperties DEF Spelled
  <2>4. Said(text \o calls) = t
    BY <2>1, <2>2, <2>3, TextEnds
  <2>5. w = [role |-> "assistant", id |-> NoId, parts |-> text \o calls]
    BY <1>1, <1>2, <1>3, <1>5, <2>1, <2>2 DEF ToOpenAIMessage
  <2>6. w \in WireMessage
    BY <2>3, <2>5, MessagesConfig DEF WireMessage, Roles
  <2> QED
    BY <1>1, <1>2, <1>3, <1>5, <2>4, <2>5, <2>6 DEF Carries, IsSystem
<1>6. CASE m.role \notin {"tool", "assistant"}
  <2>1. PICK p \in Seq(Part) : p = <<TextPart(t)>> /\ Said(p) = t
    BY OneSaid
  <2>2. w = [role |-> m.role, id |-> NoId, parts |-> p]
    BY <1>1, <1>2, <1>3, <1>6, <2>1 DEF ToOpenAIMessage
  <2>3. w \in WireMessage
    BY <1>1, <2>2, MessagesConfig DEF WireMessage
  <2> QED
    BY <1>1, <1>2, <1>3, <2>1, <2>2, <2>3 DEF Carries, IsSystem
<1> QED
  BY <1>4, <1>5, <1>6

LEMMA AnthropicCarries ==
    ASSUME NEW m \in Speech, IsTurn(m) PROVE Carries(m, ToAnthropicMessage(m))
<1>1. PICK c \in Seq(Part) : c = m.content /\ m.role \in Roles /\ (m.role = "tool" => Said(c) = <<>>)
  BY SpeechIs
<1>2. PICK p \in Seq(Part) : p = ToAnthropicMessage(m).parts /\ Said(p) = Said(c)
  <2>1. CASE m.role = "assistant"
    <3>1. PICK Q : Q = {x \in BodyPart : ~IsToolResult(x)}
      OBVIOUS
    <3>2. c \in Seq(BodyPart)
      BY PartsHave
    <3>3. Filter(c, LAMBDA x : ~IsToolResult(x)) = Only(c, Q)
      <4>1. \A i \in DOMAIN c : c[i] \in BodyPart
        BY <3>2
      <4>2. {i \in DOMAIN c : ~IsToolResult(c[i])} = {i \in DOMAIN c : c[i] \in Q}
        BY <3>1, <4>1
      <4> QED
        BY <4>2 DEF Filter, Only
    <3>4. DropsNothing(Q)
      BY <3>1 DEF DropsNothing, IsToolUse, IsText, IsToolResult
    <3>5. SaysAs(c, Only(c, Q))
      BY <3>2, <3>4, OnlySays
    <3>6. Said(Only(c, Q)) = Said(c)
      BY <3>2, <3>5 DEF SaysAs, SaidIn, SaidBy
    <3>7. Only(c, Q) \in Seq(Part)
      BY OnlySub
    <3> QED
      BY <1>1, <2>1, <3>3, <3>6, <3>7 DEF ToAnthropicMessage
  <2>2. CASE m.role = "tool"
    <3>1. Results(c) \in Seq(Part) /\ Said(Results(c)) = <<>>
      BY ResultsAre
    <3> QED
      BY <1>1, <2>2, <3>1 DEF ToAnthropicMessage
  <2>3. CASE m.role \notin {"assistant", "tool"}
    <3>1. Texts(c) \in Seq(Part) /\ Said(Texts(c)) = Said(c)
      BY TextsSaid
    <3> QED
      BY <1>1, <2>3, <3>1 DEF ToAnthropicMessage
  <2> QED
    BY <2>1, <2>2, <2>3
<1>3. PICK r, w : /\ r \in {"assistant", "user"} /\ w = ToAnthropicMessage(m)
                  /\ w = [role |-> r, id |-> NoId, parts |-> p]
  <2>1. PICK r : r = IF m.role = "assistant" THEN "assistant" ELSE "user"
    OBVIOUS
  <2>2. ToAnthropicMessage(m) = [role |-> r, id |-> NoId, parts |-> p]
    BY <1>2, <2>1 DEF ToAnthropicMessage
  <2> QED
    BY <2>1, <2>2
<1>4. w \in WireMessage
  BY <1>3, MessagesConfig DEF WireMessage, Roles
<1>5. ~IsSystem(w) /\ ~IsSystem(m)
  BY <1>3 DEF IsSystem, IsTurn
<1> QED
  BY <1>1, <1>2, <1>3, <1>4, <1>5 DEF Carries

LEMMA GeminiCarries ==
    ASSUME NEW m \in Speech, IsTurn(m) PROVE Carries(m, ToGeminiContent(m))
<1>1. PICK c \in Seq(Part) : c = m.content
  BY SpeechIs
<1> DEFINE To(x) == IF IsToolUse(x) THEN [x EXCEPT !.id = NoId] ELSE x
<1>2. PICK f, h : f = [x \in BodyPart |-> To(x)] /\ h = [x \in Part |-> To(x)]
  OBVIOUS
<1>3. Maps(f, BodyPart, BodyPart) /\ Maps(h, Part, Part)
  BY <1>2, MessagesConfig DEF Maps, BodyPart, Part
<1>4. PICK p : p = Mapped(To, c)
  OBVIOUS
<1>5. c \in Seq(BodyPart) /\ (\A i \in DOMAIN c : c[i] \in Part) /\ Part \subseteq BodyPart
  <2>1. Part \subseteq BodyPart
    BY DEF Part, BodyPart
  <2>2. c \in Seq(BodyPart)
    BY PartsHave
  <2> QED
    BY <2>1, <2>2
<1>6. p = Through(f, c) /\ p = Through(h, c)
  BY <1>2, <1>4, <1>5 DEF Mapped, Through
<1>7. p \in Seq(Part)
  BY <1>3, <1>6, ThroughIs
<1>8. \A x \in BodyPart : SaidEach[f[x]] = SaidEach[x] /\ CalledOne[f[x]] = CalledOne[x]
  <2>1. ASSUME NEW x \in BodyPart
        PROVE  SaidPart(To(x)) = SaidPart(x) /\ CallOf(To(x)) = CallOf(x) /\ (To(x) \in Uses <=> x \in Uses)
    BY MessagesConfig DEF BodyPart, SaidPart, IsText, IsToolUse, CallOf, Uses
  <2> QED
    BY <1>2, <1>3, <2>1 DEF SaidEach, SaidOne, CalledOne, Maps
<1>9. SaysAs(c, p)
  BY <1>3, <1>5, <1>6, <1>8, ThroughSays
<1>10. Said(p) = Said(c)
  BY <1>5, <1>9 DEF SaysAs, SaidIn, SaidBy
<1>11. PICK r, w : /\ r \in {"model", "user"} /\ w = ToGeminiContent(m)
                   /\ w = [role |-> r, id |-> NoId, parts |-> p]
  <2>1. PICK r : r = IF m.role = "assistant" THEN "model" ELSE "user"
    OBVIOUS
  <2>2. ToGeminiContent(m) = [role |-> r, id |-> NoId, parts |-> p]
    BY <1>1, <1>4, <2>1 DEF ToGeminiContent
  <2> QED
    BY <2>1, <2>2
<1>12. w \in WireMessage
  BY <1>7, <1>11, MessagesConfig DEF WireMessage, Roles
<1>13. ~IsSystem(w) /\ ~IsSystem(m)
  BY <1>11 DEF IsSystem, IsTurn
<1> QED
  BY <1>1, <1>10, <1>11, <1>12, <1>13 DEF Carries

-----------------------------------------------------------------------------
(* All that the messages of a request of the IR say. *)
SpeechBy == AllOf(SpeechSays, Speech)

LEMMA SpeechJoins == Joins(Speech, Text, SpeechBy, SpeechSays)
<1>1. PICK S, f : S = Speech /\ f = SpeechSays
  OBVIOUS
<1>2. Maps(f, S, Text)
  BY <1>1, SpeechIs DEF Maps, SpeechSays
<1>3. Joins(S, Text, AllOf(f, S), f)
  BY <1>2, AllJoins, BodySpoken DEF Spoken
<1> QED
  BY <1>1, <1>3 DEF SpeechBy

(* The messages for the upstream say the same as those of the IR. *)
Posted(s, ws) ==
    /\ ws \in Seq(WireMessage)
    /\ WireBy(SystemIn(WireMessage))[ws] = SystemsBy[s]
    /\ WireBy(TurnIn(WireMessage))[ws] = TurnsBy[s]
    /\ WireBy(WireMessage)[ws] = SpeechBy[s]

LEMMA AllCarried ==
    ASSUME NEW s \in Seq(Speech), NEW F, Maps(F, Speech, WireMessage), \A m \in Speech : Carries(m, F[m])
    PROVE  Posted(s, Through(F, s))
<1>1. PICK W, Q, P, H, h, K, k, L, l :
         /\ W = WireMessage /\ Q = SystemIn(W) /\ P = TurnIn(W)
         /\ H = WireBy(Q) /\ h = [w \in W |-> Among(w, Q)]
         /\ K = WireBy(P) /\ k = [w \in W |-> Among(w, P)]
         /\ L = WireBy(W) /\ l = [w \in W |-> Among(w, W)]
  OBVIOUS
<1>2. Joins(W, Text, H, h) /\ Joins(W, Text, K, k) /\ Joins(W, Text, L, l)
  BY <1>1, WireJoins
<1>3. PICK g, j : g = [m \in Speech |-> SystemPart(m)] /\ j = [m \in Speech |-> TurnPart(m)]
  OBVIOUS
<1>4. Joins(Speech, Text, SystemsBy, g) /\ Joins(Speech, Text, TurnsBy, j)
  BY <1>3, SystemsJoin, TurnsJoin
<1>5. ASSUME NEW m \in Speech
      PROVE  g[m] = h[F[m]] /\ j[m] = k[F[m]] /\ SpeechSays[m] = l[F[m]]
  <2>1. PICK w \in W : w = F[m] /\ (IsSystem(w) <=> IsSystem(m)) /\ Said(w.parts) = Said(m.content)
    BY <1>1 DEF Carries
  <2>2. w \in Q <=> IsSystem(m)
    BY <1>1, <2>1 DEF SystemIn
  <2>3. w \in P <=> ~IsSystem(m)
    BY <1>1, <2>1 DEF TurnIn, IsTurn
  <2> QED
    BY <1>1, <1>3, <2>1, <2>2, <2>3 DEF Among, SystemPart, TurnPart, IsTurn, SpeechSays
<1>6. \A q \in Seq(Speech) : H[Through(F, q)] = SystemsBy[q]
  BY <1>1, <1>2, <1>4, <1>5, ThroughLike
<1>7. \A q \in Seq(Speech) : K[Through(F, q)] = TurnsBy[q]
  BY <1>1, <1>2, <1>4, <1>5, ThroughLike
<1>8. \A q \in Seq(Speech) : L[Through(F, q)] = SpeechBy[q]
  <2>1. Joins(Speech, Text, SpeechBy, SpeechSays)
    BY SpeechJoins
  <2>2. \A m \in Speech : SpeechSays[m] = l[F[m]]
    BY <1>5
  <2>3. Maps(F, Speech, W) /\ Joins(W, Text, L, l)
    BY <1>1, <1>2
  <2> QED
    BY <2>1, <2>2, <2>3, ThroughLike
<1>9. Through(F, s) \in Seq(WireMessage)
  BY ThroughIs
<1> QED
  BY <1>1, <1>6, <1>7, <1>8, <1>9 DEF Posted

(* The turns among the messages. *)
TurnsIn(s, q) ==
    /\ q \in Seq(Speech) /\ (\A i \in DOMAIN q : IsTurn(q[i]))
    /\ SystemsBy[q] = <<>> /\ TurnsBy[q] = TurnsBy[s] /\ SpeechBy[q] = TurnsBy[s]

LEMMA TurnsAmong ==
    ASSUME NEW s \in Seq(Speech) PROVE TurnsIn(s, Only(s, TurnIn(Speech)))
<1>1. PICK S, T, H, h, K, k : /\ S = Speech /\ T = TurnIn(S)
                              /\ H = SystemsBy /\ h = [m \in S |-> SystemPart(m)]
                              /\ K = TurnsBy /\ k = [m \in S |-> TurnPart(m)]
  OBVIOUS
<1>2. Joins(S, Text, H, h) /\ Joins(S, Text, K, k)
  BY <1>1, SystemsJoin, TurnsJoin
<1>3. PICK N, n : N = [q \in Seq(S) |-> <<>>] /\ n = [m \in S |-> <<>>]
  OBVIOUS
<1>4. Joins(S, Text, N, n)
  BY <1>3, SilentJoins, BodySpoken DEF Spoken
<1>5. \A m \in S : n[m] = IF m \in T THEN h[m] ELSE <<>>
  BY <1>1, <1>3 DEF SystemPart, TurnIn, IsTurn
<1>6. \A m \in S : k[m] = IF m \in T THEN k[m] ELSE <<>>
  BY <1>1 DEF TurnPart, TurnIn
<1>7. \A q \in Seq(S) : H[Only(q, T)] = N[q]
  BY <1>2, <1>4, <1>5, OnlyLike
<1>8. \A q \in Seq(S) : K[Only(q, T)] = K[q]
  BY <1>2, <1>6, OnlyLike
<1>9. PICK q \in Seq(S) : q = Only(s, T) /\ q \in Seq(S \cap T)
  BY <1>1, OnlySub, OnlyType
<1>10. \A i \in DOMAIN q : IsTurn(q[i])
  <2>1. \A i \in DOMAIN q : q[i] \in T
    BY <1>9
  <2> QED
    BY <1>1, <2>1 DEF TurnIn
<1>11. SpeechBy[q] = TurnsBy[s]
  BY <1>1, <1>9 DEF TurnsBy, AmongBy, SpeechBy
<1> QED
  BY <1>1, <1>3, <1>7, <1>8, <1>9, <1>10, <1>11 DEF TurnsIn

LEMMA SystemTextsSay ==
    ASSUME NEW s \in Seq(Speech)
    PROVE  FlattenSeq(SystemTexts(s)) = SystemsBy[s] /\ SystemsBy[s] \in Text /\ TurnsBy[s] \in Text
<1>1. SystemsBy[s] = SystemSays(s)
  BY DEF SystemsBy, SystemBy
<1>2. SystemsBy[s] \in Text /\ TurnsBy[s] \in Text
  BY SystemsJoin, TurnsJoin DEF Joins
<1> QED
  BY <1>1, <1>2 DEF SystemSays

LEMMA OpenAIPosts ==
    ASSUME NEW s \in Seq(Speech) PROVE Posted(s, Mapped(ToOpenAIMessage, s))
<1>1. PICK F : F = [m \in Speech |-> ToOpenAIMessage(m)]
  OBVIOUS
<1>2. Maps(F, Speech, WireMessage) /\ \A m \in Speech : Carries(m, F[m])
  BY <1>1, OpenAICarries DEF Maps, Carries
<1>3. Posted(s, Through(F, s))
  BY <1>2, AllCarried
<1>4. Mapped(ToOpenAIMessage, s) = Through(F, s)
  <2>1. \A i \in DOMAIN s : s[i] \in Speech
    OBVIOUS
  <2> QED
    BY <1>1, <2>1 DEF Mapped, Through
<1> QED
  BY <1>3, <1>4

LEMMA AnthropicPosts ==
    ASSUME NEW s \in Seq(Speech), \A i \in DOMAIN s : IsTurn(s[i])
    PROVE  Posted(s, Mapped(ToAnthropicMessage, s))
<1>1. PICK F : F = [m \in Speech |-> IF IsTurn(m) THEN ToAnthropicMessage(m) ELSE ToOpenAIMessage(m)]
  OBVIOUS
<1>2. Maps(F, Speech, WireMessage) /\ \A m \in Speech : Carries(m, F[m])
  BY <1>1, OpenAICarries, AnthropicCarries DEF Maps, Carries
<1>3. Posted(s, Through(F, s))
  BY <1>2, AllCarried
<1>4. Mapped(ToAnthropicMessage, s) = Through(F, s)
  <2>1. \A i \in DOMAIN s : s[i] \in Speech
    OBVIOUS
  <2> QED
    BY <1>1, <2>1 DEF Mapped, Through
<1> QED
  BY <1>3, <1>4

LEMMA OnlySame ==
    ASSUME NEW S, NEW A, NEW H, NEW g, NEW N, Joins(S, A, H, g),
           \A x \in S : x \notin N => g[x] = <<>>
    PROVE  \A s \in Seq(S) : H[Only(s, N)] = H[s]
<1>1. PICK L, l : L = AmongBy(S, H, N) /\ l = AmongOne(S, g, N)
  OBVIOUS
<1>2. Joins(S, A, L, l)
  BY <1>1, AmongJoins
<1>3. l = g
  BY <1>1 DEF AmongOne, Joins
<1>4. \A s \in Seq(S) : L[s] = H[s]
  BY <1>2, <1>3, JoinsSame
<1> QED
  BY <1>1, <1>4 DEF AmongBy

Telling == {w \in WireMessage : w.parts # <<>>}

LEMMA EmptyUnheard ==
    ASSUME NEW N, N = Telling, NEW Q, NEW ws \in Seq(WireMessage)
    PROVE  WireBy(Q)[Only(ws, N)] = WireBy(Q)[ws]
<1>1. PICK W, H, h : W = WireMessage /\ H = WireBy(Q) /\ h = [w \in W |-> Among(w, Q)]
  OBVIOUS
<1>2. Joins(W, Text, H, h)
  BY <1>1, WireJoins
<1>3. \A w \in W : w \notin N => h[w] = <<>>
  BY <1>1, NothingSaid DEF Among, Telling
<1>4. \A q \in Seq(W) : H[Only(q, N)] = H[q]
  BY <1>2, <1>3, OnlySame
<1> QED
  BY <1>1, <1>4

LEMMA GeminiPosts ==
    ASSUME NEW s \in Seq(Speech), \A i \in DOMAIN s : IsTurn(s[i])
    PROVE  Posted(s, Filter(Mapped(ToGeminiContent, s), LAMBDA m : m.parts # <<>>))
<1>1. PICK F : F = [m \in Speech |-> IF IsTurn(m) THEN ToGeminiContent(m) ELSE ToOpenAIMessage(m)]
  OBVIOUS
<1>2. Maps(F, Speech, WireMessage) /\ \A m \in Speech : Carries(m, F[m])
  BY <1>1, OpenAICarries, GeminiCarries DEF Maps, Carries
<1>3. Posted(s, Through(F, s))
  BY <1>2, AllCarried
<1>4. PICK ws \in Seq(WireMessage) : ws = Mapped(ToGeminiContent, s) /\ Posted(s, ws)
  <2>1. \A i \in DOMAIN s : s[i] \in Speech
    OBVIOUS
  <2>2. Mapped(ToGeminiContent, s) = Through(F, s)
    BY <1>1, <2>1 DEF Mapped, Through
  <2> QED
    BY <1>3, <2>2 DEF Posted
<1>5. PICK N : N = Telling
  OBVIOUS
<1>6. Filter(ws, LAMBDA m : m.parts # <<>>) = Only(ws, N)
  <2>1. \A i \in DOMAIN ws : ws[i] \in WireMessage
    OBVIOUS
  <2>2. {i \in DOMAIN ws : ws[i].parts # <<>>} = {i \in DOMAIN ws : ws[i] \in N}
    BY <1>5, <2>1 DEF Telling
  <2> QED
    BY <2>2 DEF Filter, Only
<1>7. \A Q : WireBy(Q)[Only(ws, N)] = WireBy(Q)[ws]
  BY <1>5, EmptyUnheard
<1>8. Only(ws, N) \in Seq(WireMessage)
  BY OnlySub
<1> QED
  BY <1>4, <1>6, <1>7, <1>8 DEF Posted

(* The body for an upstream but Wenxin says what the request says. *)
SaysOn(s, body) ==
    /\ body.messages \in Seq(WireMessage)
    /\ FlattenSeq(body.system) \o WireBy(SystemIn(WireMessage))[body.messages] = SystemsBy[s]
    /\ WireBy(TurnIn(WireMessage))[body.messages] = TurnsBy[s]

LEMMA BodySaysOn ==
    ASSUME NEW u, u # "Wenxin", NEW r, r.messages \in Seq(Speech)
    PROVE  SaysOn(r.messages, BuildRequestBody(u, r))
<1>1. PICK s \in Seq(Speech) : s = r.messages
  OBVIOUS
<1>2. PICK q \in Seq(Speech) : q = Filter(s, IsTurn) /\ TurnsIn(s, q)
  <2>1. Filter(s, IsTurn) = Only(s, TurnIn(Speech))
    BY TurnsAre
  <2>2. TurnsIn(s, Only(s, TurnIn(Speech)))
    BY TurnsAmong
  <2> QED
    BY <2>1, <2>2 DEF TurnsIn
<1>3. SystemsBy[q] = <<>> /\ TurnsBy[q] = TurnsBy[s] /\ \A i \in DOMAIN q : IsTurn(q[i])
  BY <1>2 DEF TurnsIn
<1>4. FlattenSeq(SystemTexts(s)) = SystemsBy[s] /\ SystemsBy[s] \in Text
  BY SystemTextsSay
<1>5. SystemsBy[s] \o <<>> = SystemsBy[s]
  BY <1>4, TextEnds
<1>6. CASE u = "Anthropic"
  <2>0. PICK b : b = BuildAnthropic(r) /\ b = BuildRequestBody(u, r)
    BY <1>6 DEF BuildRequestBody
  <2>1. b.system = SystemTexts(s) /\ b.messages = Mapped(ToAnthropicMessage, q)
    BY <1>1, <1>2, <2>0 DEF BuildAnthropic
  <2>2. Posted(q, Mapped(ToAnthropicMessage, q))
    BY <1>3, AnthropicPosts
  <2> QED
    BY <1>1, <1>3, <1>4, <1>5, <2>0, <2>1, <2>2 DEF SaysOn, Posted
<1>7. CASE u = "Gemini"
  <2>0. PICK b : b = BuildGemini(r) /\ b = BuildRequestBody(u, r)
    BY <1>7 DEF BuildRequestBody
  <2>1. b.system = SystemTexts(s) /\ b.messages = Filter(Mapped(ToGeminiContent, q), LAMBDA m : m.parts # <<>>)
    BY <1>1, <1>2, <2>0 DEF BuildGemini
  <2>2. Posted(q, Filter(Mapped(ToGeminiContent, q), LAMBDA m : m.parts # <<>>))
    BY <1>3, GeminiPosts
  <2> QED
    BY <1>1, <1>3, <1>4, <1>5, <2>0, <2>1, <2>2 DEF SaysOn, Posted
<1>8. CASE u \notin {"Wenxin", "Anthropic", "Gemini"}
  <2>0. PICK b : b = BuildOpenAI(r) /\ b = BuildRequestBody(u, r)
    BY <1>8 DEF BuildRequestBody
  <2>1. b.system = <<>> /\ b.messages = Mapped(ToOpenAIMessage, s)
    BY <1>1, <1>2, <2>0 DEF BuildOpenAI
  <2>2. Posted(s, Mapped(ToOpenAIMessage, s))
    BY OpenAIPosts
  <2>3. FlattenSeq(<<>>) = <<>>
    BY DEF FlattenSeq
  <2>4. <<>> \o SystemsBy[s] = SystemsBy[s]
    BY <1>4, ConcatEmptySeq DEF Text
  <2> QED
    BY <1>1, <2>0, <2>1, <2>2, <2>3, <2>4 DEF SaysOn, Posted
<1> QED
  BY <1>6, <1>7, <1>8

-----------------------------------------------------------------------------
(* Wenxin: the system texts in a user's message. *)
LEMMA TextFirst ==
    ASSUME NEW c \in Seq(Part) PROVE SelectInSeq(c, IsText) = FirstIn(c, TextIn(Part))
<1>1. \A i \in 1..Len(c) : c[i] \in Part
  OBVIOUS
<1>2. {i \in 1..Len(c) : IsText(c[i])} = {i \in 1..Len(c) : c[i] \in TextIn(Part)}
  BY <1>1 DEF TextIn
<1> QED
  BY <1>2 DEF SelectInSeq, FirstIn

LEMMA PrefixedSays ==
    ASSUME NEW c \in Seq(Part), NEW t \in Text
    PROVE  Prefixed(c, t) \in Seq(Part) /\ Said(Prefixed(c, t)) = t \o Said(c)
<1>1. PICK T : T = TextIn(Part)
  OBVIOUS
<1>2. PICK i : i = FirstIn(c, T) /\ i = SelectInSeq(c, IsText)
  BY <1>1, TextFirst
<1>3. CASE i = 0
  <2>1. PICK p \in Seq(Part) : p = <<TextPart(t)>> /\ Said(p) = t
    BY OneSaid
  <2>2. p \o c \in Seq(Part)
    BY ConcatProperties
  <2>3. Said(p \o c) = Said(p) \o Said(c)
    BY SpelledTalk, SaidJoined DEF Spelled
  <2>4. Prefixed(c, t) = p \o c
    BY <1>2, <1>3, <2>1 DEF Prefixed
  <2> QED
    BY <2>1, <2>2, <2>3, <2>4
<1>4. CASE i # 0
  <2>1. PICK a, x, b : Cut(Part, c, a, x, b) /\ a \in Seq(Part \ T) /\ x \in T /\ Len(a) + 1 = i
    <3>1. \E a, x, b : CutFirst(Part, c, T, a, x, b)
      BY <1>2, <1>4, FirstCuts
    <3> QED
      BY <1>2, <3>1 DEF CutFirst
  <2>2. a \in Seq(Part) /\ x \in Part /\ b \in Seq(Part) /\ x.text \in Text /\ IsText(x)
    BY <1>1, <2>1 DEF Cut, Part, TextIn
  <2>3. PICK y \in Part : y = [x EXCEPT !.text = t \o @] /\ y.text = t \o x.text /\ IsText(y)
    <3>1. t \o x.text \in Text
      BY <2>2, ConcatProperties DEF Text
    <3>2. PICK y : y = [x EXCEPT !.text = t \o @]
      OBVIOUS
    <3>3. y \in Part /\ y.text = t \o x.text /\ y.type = x.type
      BY <2>2, <3>1, <3>2 DEF Part
    <3> QED
      BY <2>2, <3>2, <3>3 DEF IsText
  <2>4. c[i] = x /\ i \in DOMAIN c
    <3>1. c \in Seq(Part) /\ Laid(c, a, x, b)
      BY <2>1, CutIs
    <3> QED
      BY <2>1, <3>1 DEF Laid
  <2>5. Cut(Part, [c EXCEPT ![i] = y], a, y, b)
    BY <2>1, CutSame
  <2>6. Prefixed(c, t) = [c EXCEPT ![i] = y]
    BY <1>2, <1>4, <2>3, <2>4 DEF Prefixed
  <2>7. PICK d \in Seq(Part) : d = Prefixed(c, t) /\ Cut(Part, d, a, y, b)
    BY <2>5, <2>6, CutIs
  <2>8. PICK J, j : J = SaidBy(Part) /\ j = SaidOne(Part)
    OBVIOUS
  <2>9. Joins(Part, Text, J, j)
    BY <2>8, SpelledTalk, SaidJoins DEF Spelled
  <2>10. J[c] = J[a] \o (j[x] \o J[b]) /\ J[b] \in Text
    <3>1. InPieces(Text, J, j, c, a, x, b)
      BY <2>1, <2>9, JoinsCut
    <3> QED
      BY <3>1 DEF InPieces
  <2>11. J[d] = J[a] \o (j[y] \o J[b])
    <3>1. InPieces(Text, J, j, d, a, y, b)
      BY <2>7, <2>9, JoinsCut
    <3> QED
      BY <3>1 DEF InPieces
  <2>12. Said(a) = <<>>
    <3>1. \A k \in DOMAIN a : a[k] \in Part \ T
      BY <2>1
    <3>2. \A k \in DOMAIN a : ~IsText(a[k])
      BY <1>1, <3>1 DEF TextIn
    <3>3. a \in Seq(BodyPart)
      BY <2>2, PartsHave
    <3> QED
      BY <3>2, <3>3, NoTextSaid
  <2>13. J[c] = Said(c) /\ J[d] = Said(d) /\ J[a] = <<>>
    BY <2>2, <2>7, <2>8, <2>12 DEF SaidBy
  <2>14. j[x] = x.text /\ j[y] = t \o x.text
    BY <2>2, <2>3, <2>8 DEF SaidOne, SaidPart
  <2>15. PICK q \in Text, r \in Text : q = x.text /\ r = J[b]
    BY <2>2, <2>10
  <2>16. (t \o q) \o r = t \o (q \o r) /\ q \o r \in Text
    <3>1. Regroup(t, q, r)
      BY JoinedTwice DEF Text
    <3> QED
      BY <3>1, ConcatProperties DEF Regroup, Text
  <2>17. t \o (q \o r) \in Text
    BY <2>16, ConcatProperties DEF Text
  <2>18. <<>> \o (q \o r) = q \o r /\ <<>> \o (t \o (q \o r)) = t \o (q \o r)
    BY <2>16, <2>17, ConcatEmptySeq DEF Text
  <2> QED
    BY <2>7, <2>10, <2>11, <2>13, <2>14, <2>15, <2>16, <2>18
<1> QED
  BY <1>3, <1>4

(* Without a system text, all that is said is said in turns. *)
LEMMA NoSystem == \A s \in Seq(Speech) : SystemsBy[s] = <<>> => SpeechBy[s] = TurnsBy[s]
<1>1. PICK S, V : S = Speech /\ V = {s \in Seq(S) : SystemsBy[s] = <<>> => SpeechBy[s] = TurnsBy[s]}
  OBVIOUS
<1>2. PICK g, j : g = [m \in S |-> SystemPart(m)] /\ j = [m \in S |-> TurnPart(m)]
  OBVIOUS
<1>3. Joins(S, Text, SystemsBy, g) /\ Joins(S, Text, TurnsBy, j) /\ Joins(S, Text, SpeechBy, SpeechSays)
  BY <1>1, <1>2, SystemsJoin, TurnsJoin, SpeechJoins
<1>4. <<>> \in V
  BY <1>1, <1>3, EmptySeq DEF Joins
<1>5. ASSUME NEW s \in Seq(S), NEW x \in S, s \in V PROVE Append(s, x) \in V
  <2>1. PICK t \in Seq(S) : t = Append(s, x)
    BY AppendProperties
  <2>2. /\ SystemsBy[t] = SystemsBy[s] \o g[x] /\ TurnsBy[t] = TurnsBy[s] \o j[x]
        /\ SpeechBy[t] = SpeechBy[s] \o SpeechSays[x]
    BY <1>3, <2>1 DEF Joins
  <2>3. SystemsBy[s] \in Text /\ g[x] \in Text
    BY <1>3 DEF Joins
  <2>4. SUFFICES ASSUME SystemsBy[t] = <<>> PROVE SpeechBy[t] = TurnsBy[t]
    BY <1>1, <2>1
  <2>5. SystemsBy[s] = <<>> /\ g[x] = <<>>
    <3>1. PICK p \in Seq(Words), q \in Seq(Words) : p = SystemsBy[s] /\ q = g[x] /\ p \o q = <<>>
      BY <2>2, <2>3, <2>4 DEF Text
    <3>2. p = <<>> /\ q = <<>>
      BY <3>1, ConcatEqualIffEmpty
    <3> QED
      BY <3>1, <3>2
  <2>6. SpeechSays[x] = j[x]
    BY <1>1, <1>2, <2>5 DEF SpeechSays, TurnPart, SystemPart, IsTurn
  <2>7. SpeechBy[s] = TurnsBy[s]
    BY <1>1, <1>5, <2>5
  <2> QED
    BY <2>2, <2>6, <2>7
<1>6. \A s \in Seq(S) : s \in V
  BY <1>4, <1>5, Grows
<1> QED
  BY <1>1, <1>6

Users == {m \in Speech : m.role = "user"}

LEMMA FirstUserIs == ASSUME NEW s \in Seq(Speech) PROVE FirstUser(s) = FirstIn(s, Users)
<1>1. \A i \in 1..Len(s) : s[i] \in Speech
  OBVIOUS
<1>2. {i \in 1..Len(s) : s[i].role = "user"} = {i \in 1..Len(s) : s[i] \in Users}
  BY <1>1 DEF Users
<1> QED
  BY <1>2 DEF FirstUser, SelectInSeq, FirstIn

(* A user's message with a text before it. *)
Filled(m, t) == [m EXCEPT !.content = Prefixed(@, t)]

LEMMA FilledIs ==
    ASSUME NEW m \in Users, NEW t \in Text
    PROVE  /\ Filled(m, t) \in Users /\ IsTurn(m) /\ IsTurn(Filled(m, t))
           /\ Said(Filled(m, t).content) = t \o Said(m.content) /\ Said(m.content) \in Text
<1>1. PICK c \in Seq(Part) : c = m.content /\ m \in Talk /\ m.role = "user" /\ Said(c) \in Text
  BY SpeechIs DEF Users
<1>2. PICK d \in Seq(Part) : d = Prefixed(c, t) /\ Said(d) = t \o Said(c)
  BY PrefixedSays
<1>3. PICK f : f = Filled(m, t) /\ f = [m EXCEPT !.content = d]
  BY <1>1, <1>2 DEF Filled
<1>4. f \in Talk /\ f.role = "user" /\ f.content = d
  BY <1>1, <1>3 DEF Talk
<1>5. f \in Users
  BY <1>4 DEF Users, Speech, Roles
<1> QED
  BY <1>1, <1>2, <1>3, <1>4, <1>5 DEF IsTurn, IsSystem

(* What Collapsed makes of the turns around the first user's message. *)
CollapsedTo(s, a, m, b) ==
    /\ Collapsed(s) \in Seq(Speech) /\ SystemsBy[s] \in Text
    /\ SpeechBy[Collapsed(s)] = TurnsBy[a] \o ((SystemsBy[s] \o Said(m.content)) \o TurnsBy[b])
    /\ \E i \in 1..Len(Collapsed(s)) : Collapsed(s)[i].role = "user"

LEMMA CollapsedAt ==
    ASSUME NEW s, NEW a, NEW m, NEW b, Cut(Speech, s, a, m, b), a \in Seq(Speech \ Users), m \in Users,
           SystemTexts(s) # <<>>
    PROVE  CollapsedTo(s, a, m, b)
<1>1. PICK T, p, q, t : T = TurnIn(Speech) /\ p = Only(a, T) /\ q = Only(b, T) /\ t = SystemsBy[s]
  OBVIOUS
<1>2. s \in Seq(Speech) /\ a \in Seq(Speech) /\ b \in Seq(Speech) /\ m \in Speech
  BY CutIs DEF Cut
<1>3. t \in Text /\ t = FlattenSeq(SystemTexts(s))
  BY <1>1, <1>2, SystemTextsSay
<1>4. PICK f : /\ f = Filled(m, t) /\ f \in Users /\ IsTurn(m) /\ IsTurn(f)
               /\ Said(f.content) = t \o Said(m.content)
  BY <1>3, FilledIs
<1>5. PICK turns : turns = Filter(s, IsTurn) /\ Cut(Speech, turns, p, m, q)
  <2>1. m \in T
    BY <1>1, <1>2, <1>4 DEF TurnIn
  <2>2. Cut(Speech, Only(s, T), p, m, q)
    BY <1>1, <2>1, OnlyCut
  <2> QED
    BY <1>1, <1>2, <2>2, TurnsAre
<1>6. p \in Seq(Speech \ Users)
  BY <1>1, OnlySub
<1>7. PICK u : u = FirstUser(turns) /\ u = Len(p) + 1
  <2>1. turns \in Seq(Speech)
    BY <1>5, CutIs
  <2>2. FirstIn(turns, Users) = Len(p) + 1
    BY <1>5, <1>6, FirstAt
  <2> QED
    BY <2>1, <2>2, FirstUserIs
<1>8. turns \in Seq(Speech) /\ u \in 1..Len(turns) /\ turns[u] = m
  <2>1. turns \in Seq(Speech) /\ Laid(turns, p, m, q)
    BY <1>5, CutIs
  <2> QED
    BY <1>7, <2>1 DEF Laid
<1>9. f \in Speech
  BY <1>4 DEF Users
<1>10. PICK c : c = Collapsed(s) /\ c = [turns EXCEPT ![u] = f]
  <2>1. [turns EXCEPT ![u].content = Prefixed(@, t)] = [turns EXCEPT ![u] = f]
    BY <1>4, <1>8 DEF Filled
  <2>2. u # 0
    BY <1>8
  <2> QED
    BY <1>3, <1>5, <1>7, <2>1, <2>2 DEF Collapsed
<1>11. Cut(Speech, c, p, f, q)
  <2>1. Cut(Speech, [turns EXCEPT ![Len(p) + 1] = f], p, f, q)
    BY <1>5, <1>9, CutSame
  <2> QED
    BY <1>7, <1>10, <2>1
<1>12. c \in Seq(Speech) /\ u \in 1..Len(c) /\ c[u] = f
  <2>1. c \in Seq(Speech) /\ Laid(c, p, f, q)
    BY <1>11, CutIs
  <2> QED
    BY <1>7, <2>1 DEF Laid
<1>13. SpeechBy[c] = SpeechBy[p] \o (SpeechSays[f] \o SpeechBy[q])
  <2>1. InPieces(Text, SpeechBy, SpeechSays, c, p, f, q)
    BY <1>11, SpeechJoins, JoinsCut
  <2> QED
    BY <2>1 DEF InPieces
<1>14. SpeechBy[p] = TurnsBy[a] /\ SpeechBy[q] = TurnsBy[b]
  BY <1>1, <1>2 DEF TurnsBy, AmongBy, SpeechBy
<1>15. SpeechSays[f] = t \o Said(m.content)
  BY <1>4, <1>9 DEF SpeechSays
<1>16. c[u].role = "user"
  BY <1>4, <1>12 DEF Users
<1> QED
  BY <1>1, <1>3, <1>10, <1>12, <1>13, <1>14, <1>15, <1>16 DEF CollapsedTo

(* A text within another. *)
Inserted(t, x, all) ==
    \E i \in 0..Len(t) : all = SubSeq(t, 1, i) \o x \o SubSeq(t, i + 1, Len(t))

LEMMA TextRegroup == ASSUME NEW x \in Text, NEW y \in Text, NEW z \in Text PROVE Regroup(x, y, z)
BY JoinedTwice DEF Text

LEMMA InsertedAt ==
    ASSUME NEW p \in Text, NEW q \in Text, NEW r \in Text, NEW x \in Text,
           NEW t, t = p \o (q \o r), NEW all, all = p \o ((x \o q) \o r)
    PROVE  Inserted(t, x, all)
<1>1. PICK y \in Text : y = q \o r
  BY ConcatProperties DEF Text
<1>2. /\ Len(p) \in 0..Len(t) /\ SubSeq(t, 1, Len(p)) = p
      /\ SubSeq(t, Len(p) + 1, Len(t)) = y
  <2>1. t = p \o y
    BY <1>1
  <2>2. Halves(t, p, y)
    BY <2>1, Between
  <2> QED
    BY <2>2 DEF Halves
<1>3. (x \o q) \o r = x \o y
  <2>1. Regroup(x, q, r)
    BY TextRegroup
  <2> QED
    BY <1>1, <2>1 DEF Regroup
<1>4. p \o (x \o y) = (p \o x) \o y
  <2>1. Regroup(p, x, y)
    BY TextRegroup
  <2> QED
    BY <2>1 DEF Regroup
<1> QED
  BY <1>2, <1>3, <1>4 DEF Inserted

LEMMA InsertedFirst ==
    ASSUME NEW t \in Text, NEW x \in Text PROVE Inserted(t, x, x \o t)
<1>1. PICK e \in Text : e = <<>>
  BY EmptySeq DEF Text
<1>2. PICK y \in Text : y = x \o t
  BY ConcatProperties DEF Text
<1>3. e \o t = t /\ x \o e = x /\ e \o y = y
  BY <1>1, ConcatEmptySeq DEF Text
<1>4. t = e \o (e \o t) /\ x \o t = e \o ((x \o e) \o t)
  BY <1>2, <1>3
<1> QED
  BY <1>4, InsertedAt

Saying(c, t, x) == c \in Seq(Speech) /\ Inserted(t, x, SpeechBy[c])

LEMMA SilentSystem ==
    ASSUME NEW s \in Seq(Speech), SystemTexts(s) = <<>>
    PROVE  SystemsBy[s] = <<>> /\ Collapsed(s) = s /\ SpeechBy[s] = TurnsBy[s]
<1>1. FlattenSeq(SystemTexts(s)) = SystemsBy[s]
  BY SystemTextsSay
<1>2. SystemsBy[s] = <<>>
  BY <1>1 DEF FlattenSeq
<1>3. Collapsed(s) = s
  BY DEF Collapsed
<1> QED
  BY <1>2, <1>3, NoSystem

TurnsLaid(s, a, m, b) ==
    /\ TurnsBy[s] = TurnsBy[a] \o (Said(m.content) \o TurnsBy[b])
    /\ TurnsBy[a] \in Text /\ Said(m.content) \in Text /\ TurnsBy[b] \in Text
    /\ SystemsBy[s] = SystemsBy[a] \o (<<>> \o SystemsBy[b])

LEMMA TurnsCut ==
    ASSUME NEW s, NEW a, NEW m, NEW b, Cut(Speech, s, a, m, b), m \in Users
    PROVE  TurnsLaid(s, a, m, b)
<1>1. PICK g, j : g = [x \in Speech |-> SystemPart(x)] /\ j = [x \in Speech |-> TurnPart(x)]
  OBVIOUS
<1>2. Joins(Speech, Text, SystemsBy, g) /\ Joins(Speech, Text, TurnsBy, j)
  BY <1>1, SystemsJoin, TurnsJoin
<1>3. InPieces(Text, SystemsBy, g, s, a, m, b)
  BY <1>2, JoinsCut
<1>4. InPieces(Text, TurnsBy, j, s, a, m, b)
  BY <1>2, JoinsCut
<1>5. m \in Speech /\ m.role = "user"
  BY DEF Users
<1>6. g[m] = <<>> /\ j[m] = Said(m.content)
  BY <1>1, <1>5 DEF SystemPart, TurnPart, IsTurn, IsSystem
<1> QED
  BY <1>3, <1>4, <1>6 DEF InPieces, TurnsLaid

LEMMA CollapsedSays ==
    ASSUME NEW s \in Seq(Speech) PROVE Saying(Collapsed(s), TurnsBy[s], SystemsBy[s])
<1>1. PICK t \in Text, x \in Text : t = TurnsBy[s] /\ x = SystemsBy[s] /\ x = FlattenSeq(SystemTexts(s))
  BY SystemTextsSay
<1>2. CASE SystemTexts(s) = <<>>
  <2>1. x = <<>> /\ Collapsed(s) = s /\ SpeechBy[s] = t
    BY <1>1, <1>2, SilentSystem
  <2>2. x \o t = t
    BY <2>1, ConcatEmptySeq DEF Text
  <2>3. Inserted(t, x, x \o t)
    BY InsertedFirst
  <2> QED
    BY <1>1, <2>1, <2>2, <2>3 DEF Saying
<1>3. CASE SystemTexts(s) # <<>> /\ s \in Seq(Speech \ Users)
  <2>1. PICK turns \in Seq(Speech) : /\ turns = Filter(s, IsTurn) /\ SpeechBy[turns] = t
                                     /\ turns \in Seq(Speech \ Users)
    <3>1. Filter(s, IsTurn) = Only(s, TurnIn(Speech))
      BY TurnsAre
    <3>2. TurnsIn(s, Only(s, TurnIn(Speech)))
      BY TurnsAmong
    <3>3. Only(s, TurnIn(Speech)) \in Seq(Speech \ Users)
      BY <1>3, OnlySub
    <3> QED
      BY <1>1, <3>1, <3>2, <3>3 DEF TurnsIn
  <2>2. FirstUser(turns) = 0
    <3>1. \A i \in 1..Len(turns) : turns[i] \in Speech \ Users
      BY <2>1
    <3>2. {i \in 1..Len(turns) : turns[i] \in Users} = {}
      BY <3>1
    <3>3. FirstIn(turns, Users) = 0
      BY <3>2 DEF FirstIn
    <3> QED
      BY <3>3, FirstUserIs
  <2>3. PICK p \in Seq(Part) : p = <<TextPart(x)>> /\ Said(p) = x
    BY OneSaid
  <2>4. PICK m \in Speech : m = [role |-> "user", content |-> p]
    BY DEF Speech, Talk, Roles
  <2>5. PICK o \in Seq(Speech), n \in Seq(Speech) : n = <<>> /\ o = Append(n, m) /\ o = <<m>>
    <3>1. <<>> \in Seq(Speech)
      BY EmptySeq
    <3>2. <<m>> \in Seq(Speech)
      BY OneIn
    <3>3. Append(<<>>, m) = <<m>>
      OBVIOUS
    <3> QED
      BY <3>1, <3>2, <3>3
  <2>6. Collapsed(s) = o \o turns
    BY <1>1, <1>3, <2>1, <2>2, <2>3, <2>4, <2>5 DEF Collapsed
  <2>7. SpeechBy[o] = x
    <3>1. SpeechBy[n] = <<>> /\ SpeechBy[o] = SpeechBy[n] \o SpeechSays[m]
      BY <2>5, SpeechJoins DEF Joins
    <3>2. SpeechSays[m] = x
      BY <2>3, <2>4 DEF SpeechSays
    <3>3. <<>> \o x = x
      BY ConcatEmptySeq DEF Text
    <3> QED
      BY <3>1, <3>2, <3>3
  <2>8. Adds(SpeechBy, o, turns)
    BY SpeechJoins, JoinsJoined
  <2>9. o \o turns \in Seq(Speech)
    BY ConcatProperties
  <2>10. Inserted(t, x, x \o t)
    BY InsertedFirst
  <2> QED
    BY <1>1, <2>1, <2>6, <2>7, <2>8, <2>9, <2>10 DEF Saying, Adds
<1>4. CASE SystemTexts(s) # <<>> /\ s \notin Seq(Speech \ Users)
  <2>1. \E a, m, b : CutFirst(Speech, s, Users, a, m, b)
    BY <1>4, FirstCuts
  <2>2. PICK a, m, b : Cut(Speech, s, a, m, b) /\ a \in Seq(Speech \ Users) /\ m \in Users
    BY <2>1 DEF CutFirst
  <2>3. PICK c : /\ c = Collapsed(s) /\ c \in Seq(Speech)
                 /\ SpeechBy[c] = TurnsBy[a] \o ((x \o Said(m.content)) \o TurnsBy[b])
    <3>1. CollapsedTo(s, a, m, b)
      BY <1>4, <2>2, CollapsedAt
    <3> QED
      BY <1>1, <3>1 DEF CollapsedTo
  <2>4. /\ t = TurnsBy[a] \o (Said(m.content) \o TurnsBy[b])
        /\ TurnsBy[a] \in Text /\ Said(m.content) \in Text /\ TurnsBy[b] \in Text
    <3>1. TurnsLaid(s, a, m, b)
      BY <2>2, TurnsCut
    <3> QED
      BY <1>1, <3>1 DEF TurnsLaid
  <2>5. Inserted(t, x, SpeechBy[c])
    BY <2>3, <2>4, InsertedAt
  <2> QED
    BY <1>1, <2>3, <2>5 DEF Saying
<1> QED
  BY <1>2, <1>3, <1>4

-----------------------------------------------------------------------------
HasUser(c) == \E k \in 1..Len(c) : c[k].role = "user"

(* The body built for the second time: the system texts come once, or       *)
(* twice and then with a user's message.                                   *)
Repeated(c, t, x) ==
    /\ c \in Seq(Speech)
    /\ \E n \in {1, 2} :
          /\ Inserted(t, Times(x, n), SpeechBy[c])
          /\ n = 2 => HasUser(c)

LEMMA OnceRepeated ==
    ASSUME NEW c, NEW t \in Text, NEW x \in Text, Saying(c, t, x) PROVE Repeated(c, t, x)
<1>1. Times(x, 1) = x
  BY TimesIs
<1> QED
  BY <1>1 DEF Saying, Repeated

LEMMA WenxinSays ==
    ASSUME NEW s \in Seq(Speech)
    PROVE  Repeated(Collapsed(AfterCollapse(s)), TurnsBy[s], SystemsBy[s])
<1>1. PICK t \in Text, x \in Text : t = TurnsBy[s] /\ x = SystemsBy[s] /\ x = FlattenSeq(SystemTexts(s))
  BY SystemTextsSay
<1>2. CASE AfterCollapse(s) = s
  <2>1. Saying(Collapsed(s), t, x)
    BY <1>1, CollapsedSays
  <2>2. Repeated(Collapsed(s), t, x)
    BY <2>1, OnceRepeated
  <2> QED
    BY <1>1, <1>2, <2>2
<1>3. CASE AfterCollapse(s) # s
  <2>1. PICK u : u = FirstUser(s) /\ u = FirstIn(s, Users) /\ u # 0
    <3>1. FirstUser(s) # 0
      BY <1>3 DEF AfterCollapse
    <3> QED
      BY <3>1, FirstUserIs
  <2>2. AfterCollapse(s) = [s EXCEPT ![u].content = Prefixed(@, x)]
    BY <1>1, <1>3, <2>1 DEF AfterCollapse
  <2>3. PICK a, m, b : Cut(Speech, s, a, m, b) /\ a \in Seq(Speech \ Users) /\ m \in Users /\ Len(a) + 1 = u
    <3>1. \E a, m, b : CutFirst(Speech, s, Users, a, m, b)
      BY <2>1, FirstCuts
    <3> QED
      BY <2>1, <3>1 DEF CutFirst
  <2>4. u \in 1..Len(s) /\ s[u] = m
    <3>1. s \in Seq(Speech) /\ Laid(s, a, m, b)
      BY <2>3, CutIs
    <3> QED
      BY <2>3, <3>1 DEF Laid
  <2>5. PICK f : /\ f = Filled(m, x) /\ f \in Users
                 /\ Said(f.content) = x \o Said(m.content) /\ Said(m.content) \in Text
    BY <2>3, FilledIs
  <2>6. PICK z : z = AfterCollapse(s) /\ z = [s EXCEPT ![u] = f]
    BY <2>2, <2>4, <2>5 DEF Filled
  <2>7. Cut(Speech, z, a, f, b)
    <3>1. f \in Speech
      BY <2>5 DEF Users
    <3>2. Cut(Speech, [s EXCEPT ![Len(a) + 1] = f], a, f, b)
      BY <2>3, <3>1, CutSame
    <3> QED
      BY <2>3, <2>6, <3>2
  <2>8. TurnsLaid(s, a, m, b)
    BY <2>3, TurnsCut
  <2>9. TurnsLaid(z, a, f, b)
    BY <2>5, <2>7, TurnsCut
  <2>10. SystemsBy[z] = x
    BY <1>1, <2>8, <2>9 DEF TurnsLaid
  <2>11. PICK p \in Text, q \in Text, r \in Text :
            /\ p = TurnsBy[a] /\ q = Said(m.content) /\ r = TurnsBy[b] /\ t = p \o (q \o r)
    BY <1>1, <2>8 DEF TurnsLaid
  <2>12. z \in Seq(Speech)
    <3>1. z \in Seq(Speech) /\ Laid(z, a, f, b)
      BY <2>7, CutIs
    <3> QED
      BY <3>1
  <2>13. CASE SystemTexts(z) = <<>>
    <3>1. x = <<>> /\ Collapsed(z) = z /\ SpeechBy[z] = TurnsBy[z]
      BY <2>10, <2>12, <2>13, SilentSystem
    <3>2. x \o q = q /\ x \o t = t
      BY <3>1, ConcatEmptySeq DEF Text
    <3>3. TurnsBy[z] = t
      BY <2>5, <2>9, <2>11, <3>2 DEF TurnsLaid
    <3>4. Inserted(t, x, x \o t)
      BY InsertedFirst
    <3>5. Saying(Collapsed(z), t, x)
      BY <2>12, <3>1, <3>2, <3>3, <3>4 DEF Saying
    <3>6. Repeated(Collapsed(z), t, x)
      BY <3>5, OnceRepeated
    <3> QED
      BY <1>1, <2>6, <3>6
  <2>14. CASE SystemTexts(z) # <<>>
    <3>1. CollapsedTo(z, a, f, b)
      BY <2>3, <2>5, <2>7, <2>14, CollapsedAt
    <3>2. PICK c : c = Collapsed(z)
      OBVIOUS
    <3>3. /\ c \in Seq(Speech) /\ SpeechBy[c] = p \o ((x \o (x \o q)) \o r)
          /\ \E k \in 1..Len(c) : c[k].role = "user"
      BY <2>5, <2>10, <2>11, <3>1, <3>2 DEF CollapsedTo
    <3>4. PICK y \in Text : y = x \o x /\ y = Times(x, 2)
      BY TimesIs, ConcatProperties DEF Text
    <3>5. x \o (x \o q) = y \o q
      <4>1. Regroup(x, x, q)
        BY TextRegroup
      <4> QED
        BY <3>4, <4>1 DEF Regroup
    <3>6. SpeechBy[c] = p \o ((y \o q) \o r)
      BY <3>3, <3>5
    <3>7. Inserted(t, y, SpeechBy[c])
      BY <2>11, <3>6, InsertedAt
    <3> QED
      BY <1>1, <2>6, <3>2, <3>3, <3>4, <3>7 DEF Repeated, HasUser
  <2> QED
    BY <2>13, <2>14
<1> QED
  BY <1>2, <1>3

(* Wenxin: the body of a request that was built before. *)
SaysTwice(t, x, body) ==
    /\ body.messages \in Seq(WireMessage)
    /\ \E n \in {1, 2} : /\ Inserted(t, Times(x, n), WireBy(WireMessage)[body.messages])
                         /\ n = 2 => FirstUser(body.messages) > 0

LEMMA UserPosted ==
    ASSUME NEW c \in Seq(Speech), NEW k \in 1..Len(c), c[k].role = "user"
    PROVE  FirstUser(Mapped(ToOpenAIMessage, c)) > 0
<1>1. PICK w : w = Mapped(ToOpenAIMessage, c)
  OBVIOUS
<1>2. Len(w) = Len(c) /\ Len(w) \in Nat
  BY <1>1, LenProperties DEF Mapped
<1>3. w[k].role = "user"
  BY <1>1 DEF Mapped, ToOpenAIMessage
<1>4. PICK I : I = {i \in 1..Len(w) : w[i].role = "user"} /\ I # {} /\ I \subseteq Nat \ {0}
  <2>1. PICK I : I = {i \in 1..Len(w) : w[i].role = "user"}
    OBVIOUS
  <2>2. k \in I
    BY <1>2, <1>3, <2>1
  <2>3. I \subseteq Nat \ {0}
    BY <1>2, <2>1
  <2> QED
    BY <2>1, <2>2, <2>3
<1>5. Min(I) \in I
  BY <1>2, <1>4, MinIs
<1>6. FirstUser(w) = Min(I)
  BY <1>4 DEF FirstUser, SelectInSeq
<1> QED
  BY <1>1, <1>4, <1>5, <1>6

LEMMA WenxinSaysOn ==
    ASSUME NEW r, r.messages \in Seq(Speech), "messages" \in DOMAIN r
    PROVE  SaysTwice(TurnsBy[r.messages], SystemsBy[r.messages],
                     BuildRequestBody("Wenxin", AfterBuild("Wenxin", r)))
<1>1. PICK s \in Seq(Speech) : s = r.messages
  OBVIOUS
<1>2. PICK t, x, c : t = TurnsBy[s] /\ x = SystemsBy[s] /\ c = Collapsed(AfterCollapse(s))
  OBVIOUS
<1>3. Repeated(c, t, x)
  BY <1>2, WenxinSays
<1>4. PICK z : z = AfterBuild("Wenxin", r) /\ z = [r EXCEPT !.messages = AfterCollapse(s)]
  BY <1>1 DEF AfterBuild
<1>5. z.messages = AfterCollapse(s) /\ "messages" \in DOMAIN z
  BY <1>4
<1>6. PICK y : y = [z EXCEPT !.messages = Collapsed(@)]
  OBVIOUS
<1>7. y.messages = c
  BY <1>2, <1>5, <1>6
<1>8. PICK body : body = BuildRequestBody("Wenxin", z) /\ body = BuildOpenAI(y)
  BY <1>6 DEF BuildRequestBody
<1>9. body.messages = Mapped(ToOpenAIMessage, c)
  BY <1>7, <1>8 DEF BuildOpenAI
<1>10. c \in Seq(Speech)
  BY <1>3 DEF Repeated
<1>11. Posted(c, Mapped(ToOpenAIMessage, c))
  BY <1>10, OpenAIPosts
<1>12. body.messages \in Seq(WireMessage) /\ WireBy(WireMessage)[body.messages] = SpeechBy[c]
  BY <1>9, <1>11 DEF Posted
<1>13. PICK n \in {1, 2} : /\ Inserted(t, Times(x, n), SpeechBy[c])
                           /\ n = 2 => HasUser(c)
  BY <1>3 DEF Repeated
<1>14. n = 2 => FirstUser(body.messages) > 0
  <2>1. SUFFICES ASSUME n = 2 PROVE FirstUser(body.messages) > 0
    OBVIOUS
  <2>2. PICK k \in 1..Len(c) : c[k].role = "user"
    <3>1. HasUser(c)
      BY <1>13, <2>1
    <3> QED
      BY <3>1 DEF HasUser
  <2>3. FirstUser(Mapped(ToOpenAIMessage, c)) > 0
    BY <1>10, <2>2, UserPosted
  <2> QED
    BY <1>9, <2>3
<1>15. Inserted(t, Times(x, n), WireBy(WireMessage)[body.messages])
  <2>1. WireBy(WireMessage)[body.messages] = SpeechBy[c]
    BY <1>12
  <2>2. Inserted(t, Times(x, n), SpeechBy[c])
    BY <1>13
  <2> QED
    BY <2>1, <2>2
<1>16. SaysTwice(t, x, body)
  BY <1>12, <1>14, <1>15 DEF SaysTwice
<1> QED
  BY <1>1, <1>2, <1>4, <1>8, <1>16

-----------------------------------------------------------------------------
(* What the words of the property are, of one request.                     *)
LEMMA SaidIs ==
    ASSUME NEW r \in Requests, asked = <<r>>
    PROVE  SystemSaid = SystemOf(r.client, r.body) /\ TurnsSaid = TurnsOf(r.client, r.body)
<1>1. PICK c, s, S : c = r.client /\ s = r.body.messages /\ S = Heeded(c)
  OBVIOUS
<1>2. s \in Seq(S)
  BY <1>1, BodiesAre
<1>3. \A i \in DOMAIN s : s[i] \in S
  BY <1>2
<1>4. Filter(s, LAMBDA m : IsSystem(m) /\ Readable(m)) = Only(s, FromSystem(c))
  <2>1. {i \in DOMAIN s : IsSystem(s[i]) /\ Readable(s[i])} = {i \in DOMAIN s : s[i] \in FromSystem(c)}
    BY <1>1, <1>3 DEF Readable, Unread, FromSystem
  <2> QED
    BY <2>1 DEF Filter, Only
<1>5. Filter(s, LAMBDA m : IsTurn(m) /\ m.role # "tool" /\ Readable(m)) = Only(s, FromTurns(c))
  <2>1. {i \in DOMAIN s : IsTurn(s[i]) /\ s[i].role # "tool" /\ Readable(s[i])}
           = {i \in DOMAIN s : s[i] \in FromTurns(c)}
    BY <1>1, <1>3 DEF Readable, Unread, FromTurns
  <2> QED
    BY <2>1 DEF Filter, Only
<1>6. ASSUME NEW Q
      PROVE  FlattenSeq(Mapped(LAMBDA m : Joined(Texts(m.parts)), Only(s, Q))) = HeardBy(c, Q)[s]
  <2>1. PICK q \in Seq(S) : q = Only(s, Q)
    BY <1>2, OnlySub
  <2>2. \A i \in DOMAIN q : q[i] \in S
    OBVIOUS
  <2>3. Mapped(LAMBDA m : Joined(Texts(m.parts)), q) = Through(BodySays(c), q)
    BY <1>1, <2>2 DEF Mapped, Through, BodySays, Said
  <2>4. HeardBy(c, Q)[s] = FlattenSeq(Through(BodySays(c), q))
    BY <1>1, <1>2, <2>1, SumIs DEF HeardBy
  <2> QED
    BY <2>1, <2>3, <2>4
<1>7. SystemSaid = FlattenSeq(r.body.system) \o HeardBy(c, FromSystem(c))[s]
  BY <1>1, <1>4, <1>6 DEF SystemSaid
<1>8. TurnsSaid = HeardBy(c, FromTurns(c))[s]
  BY <1>1, <1>5, <1>6 DEF TurnsSaid
<1> QED
  BY <1>1, <1>7, <1>8 DEF SystemOf, TurnsOf

LEMMA WireTextsAre ==
    ASSUME NEW body, wire = <<body>>, body.messages \in Seq(WireMessage)
    PROVE  /\ WireTexts(IsSystem) = WireBy(SystemIn(WireMessage))[body.messages]
           /\ WireTexts(IsTurn) = WireBy(TurnIn(WireMessage))[body.messages]
           /\ WireTexts(LAMBDA m : TRUE) = WireBy(WireMessage)[body.messages]
<1>1. PICK W, s : W = WireMessage /\ s = body.messages /\ s = wire[1].messages /\ s \in Seq(W)
  OBVIOUS
<1>2. Filter(s, IsSystem) = Only(s, SystemIn(W)) /\ Filter(s, IsTurn) = Only(s, TurnIn(W))
  BY <1>1, SystemsAre, TurnsAre
<1>3. Filter(s, LAMBDA m : TRUE) = Only(s, W)
  <2>1. \A i \in DOMAIN s : s[i] \in W
    BY <1>1
  <2>2. {i \in DOMAIN s : TRUE} = {i \in DOMAIN s : s[i] \in W}
    BY <2>1
  <2> QED
    BY <2>2 DEF Filter, Only
<1>4. ASSUME NEW Q
      PROVE  FlattenSeq(Mapped(LAMBDA m : Joined(Texts(m.parts)), Only(s, Q))) = WireBy(Q)[s]
  BY <1>1, WireSaid
<1>5. WireTexts(IsSystem) = WireBy(SystemIn(W))[s]
  BY <1>1, <1>2, <1>4 DEF WireTexts
<1>6. WireTexts(IsTurn) = WireBy(TurnIn(W))[s]
  BY <1>1, <1>2, <1>4 DEF WireTexts
<1>7. WireTexts(LAMBDA m : TRUE) = WireBy(W)[s]
  BY <1>1, <1>3, <1>4 DEF WireTexts
<1> QED
  BY <1>1, <1>5, <1>6, <1>7

-----------------------------------------------------------------------------
(* What is sent was built of what was asked, the second time.              *)
Asked  == exchanges \in 1..MaxExchanges /\ asked \in {<<r>> : r \in Requests}
Marked == AfterBuild(upstream, ParseIncomingRequest(asked[1].client, asked[1].body, exchanges))

WireInv ==
    /\ exchanges \in 0..MaxExchanges
    /\ phase = "accepted" => Asked /\ ir = <<Marked>>
    /\ Sent => Asked /\ wire = <<BuildRequestBody(upstream, Marked)>>

LEMMA WireInvInit == Init => WireInv
BY ExchangeConfig DEF Init, WireInv, Sent

LEMMA WireInvArrives ==
    ASSUME WireInv, NEW r \in Requests, Refuse(r) \/ AnswerFromCache(r) \/ Accept(r)
    PROVE  WireInv'
<1>1. Arrives(r)
  BY DEF Refuse, AnswerFromCache, Accept
<1>2. /\ exchanges' \in 1..MaxExchanges /\ exchanges' = exchanges + 1
      /\ asked' = <<r>> /\ upstream' = upstream
  BY <1>1, ExchangeConfig DEF Arrives, WireInv
<1>3. exchanges' \in 0..MaxExchanges /\ Asked'
  BY <1>2 DEF Asked
<1>4. CASE Accept(r)
  <2>1. phase' = "accepted" /\ ir' = <<AfterBuild(upstream, Requested(r))>>
    BY <1>4 DEF Accept
  <2>2. AfterBuild(upstream, Requested(r)) = Marked'
    BY <1>2 DEF Marked, Requested
  <2> QED
    BY <1>3, <2>1, <2>2 DEF WireInv, Sent
<1>5. CASE Refuse(r) \/ AnswerFromCache(r)
  <2>1. phase' \in {"refused", "hit"}
    BY <1>5 DEF Refuse, AnswerFromCache
  <2> QED
    BY <1>3, <2>1 DEF WireInv, Sent
<1> QED
  BY <1>4, <1>5

LEMMA WireInvStep == ASSUME WireInv, [Next]_vars PROVE WireInv'
<1>1. CASE \E r \in Requests : Refuse(r) \/ AnswerFromCache(r) \/ Accept(r)
  BY <1>1, WireInvArrives
<1>2. ASSUME UNCHANGED <<upstream, exchanges, asked>> PROVE Marked' = Marked /\ Asked' = Asked
  BY <1>2 DEF Marked, Asked
<1>3. CASE Send
  <2>1. /\ phase = "accepted" /\ phase' = "sent" /\ wire' = <<BuildRequestBody(upstream, ir[1])>>
        /\ UNCHANGED <<upstream, exchanges, asked>>
    BY <1>3 DEF Send
  <2>2. Asked /\ ir[1] = Marked
    BY <2>1 DEF WireInv
  <2> QED
    BY <1>2, <2>1, <2>2 DEF WireInv, Sent
<1>4. CASE CallFails
  <2>1. phase' = "refused" /\ exchanges' = exchanges
    BY <1>4 DEF CallFails
  <2> QED
    BY <2>1 DEF WireInv, Sent
<1>5. CASE \E d \in Documents[upstream] : CallSucceeds(d)
  <2>1. /\ phase = "sent" /\ phase' = "answered" /\ wire' = wire
        /\ UNCHANGED <<upstream, exchanges, asked>>
    BY <1>5 DEF CallSucceeds
  <2> QED
    BY <1>2, <2>1 DEF WireInv, Sent
<1>6. CASE UNCHANGED <<upstream, phase, exchanges, asked, ir, parsed, wire, document, reply,
                       hit, cache>>
  BY <1>2, <1>6 DEF WireInv, Sent
<1> QED
  BY <1>1, <1>3, <1>4, <1>5, <1>6 DEF Next, ExchangeNext, vars

LEMMA WireInvKept == WireInv => RequestIsKept
<1> SUFFICES ASSUME WireInv, Sent PROVE RequestIsKept
  BY DEF RequestIsKept
<1>1. PICK r \in Requests, n \in 1..MaxExchanges : asked = <<r>> /\ exchanges = n
  BY DEF WireInv, Asked
<1>2. PICK q : q = ParseIncomingRequest(r.client, r.body, n)
  OBVIOUS
<1>3. PICK body : wire = <<body>> /\ body = BuildRequestBody(upstream, AfterBuild(upstream, q))
  BY <1>1, <1>2 DEF WireInv, Marked
<1>4. PICK s, x, t : s = q.messages /\ x = SystemSaid /\ t = TurnsSaid
  OBVIOUS
<1>5. s \in Seq(Speech) /\ SystemsBy[s] = x /\ TurnsBy[s] = t
  <2>1. SaysSame(r.client, r.body, s)
    BY <1>2, <1>4, ParsedSays
  <2>2. x = SystemOf(r.client, r.body) /\ t = TurnsOf(r.client, r.body)
    BY <1>1, <1>4, SaidIs
  <2> QED
    BY <2>1, <2>2 DEF SaysSame
<1>6. CASE upstream # "Wenxin"
  <2>1. body = BuildRequestBody(upstream, q)
    BY <1>3, <1>6 DEF AfterBuild
  <2>2. SaysOn(s, body)
    BY <1>4, <1>5, <1>6, <2>1, BodySaysOn
  <2>3. body.messages \in Seq(WireMessage)
    BY <2>2 DEF SaysOn
  <2>4. /\ WireTexts(IsSystem) = WireBy(SystemIn(WireMessage))[body.messages]
        /\ WireTexts(IsTurn) = WireBy(TurnIn(WireMessage))[body.messages]
    BY <1>3, <2>3, WireTextsAre
  <2>5. FlattenSeq(wire[1].system) \o WireTexts(IsSystem) = x /\ WireTexts(IsTurn) = t
    BY <1>3, <1>5, <2>2, <2>4 DEF SaysOn
  <2> QED
    BY <1>4, <1>6, <2>5 DEF RequestIsKept
<1>7. CASE upstream = "Wenxin"
  <2>1. "messages" \in DOMAIN q
    BY <1>2 DEF ParseIncomingRequest, ParseChat, ParseResponses, ParseMessages, ParseGenerate, Parse
  <2>2. SaysTwice(t, x, body)
    BY <1>3, <1>4, <1>5, <1>7, <2>1, WenxinSaysOn
  <2>3. body.messages \in Seq(WireMessage)
    BY <2>2 DEF SaysTwice
  <2>4. WireTexts(LAMBDA m : TRUE) = WireBy(WireMessage)[body.messages]
    BY <1>3, <2>3, WireTextsAre
  <2>5. PICK k \in {1, 2} : /\ Inserted(t, Times(x, k), WireBy(WireMessage)[body.messages])
                            /\ k = 2 => FirstUser(body.messages) > 0
    BY <2>2 DEF SaysTwice
  <2>6. \E i \in 0..Len(t) : WireTexts(LAMBDA m : TRUE) =
                                SubSeq(t, 1, i) \o Times(x, k) \o SubSeq(t, i + 1, Len(t))
    BY <2>4, <2>5 DEF Inserted
  <2> QED
    BY <1>3, <1>4, <1>7, <2>5, <2>6 DEF RequestIsKept
<1> QED
  BY <1>6, <1>7

THEOREM RequestKept == Spec => []RequestIsKept
<1>1. WireInv /\ [Next]_vars => WireInv'
  BY WireInvStep
<1> QED
  BY WireInvInit, WireInvKept, <1>1, PTL DEF Spec

-----------------------------------------------------------------------------
(***************************************************************************)
(* The calls and the results among the parts, each a pair.                 *)
(***************************************************************************)
Kinds == {"tool_use", "tool_result"}

PairOf(kind, p) == IF kind = "tool_use" THEN <<p.name, p.text>> ELSE <<p.id, p.text>>
Pairs        == (Tools \cup {NoTool} \cup Ids) \X Text
PairIn(kind) == [p \in BodyPart |-> PairOf(kind, p)]
KindIn(kind) == {p \in BodyPart : p.type = kind}

(* What f reads of the parts of a kind. *)
Reads(kind, f)   == AmongBy(BodyPart, Each(f, BodyPart), KindIn(kind))
ReadOne(kind, f) == [p \in BodyPart |-> IF p.type = kind THEN <<f[p]>> ELSE <<>>]

LEMMA ReadsJoins ==
    ASSUME NEW kind, NEW f, Maps(f, BodyPart, Pairs)
    PROVE  Joins(BodyPart, Seq(Pairs), Reads(kind, f), ReadOne(kind, f))
<1>1. PICK S, A, T, H, h : /\ S = BodyPart /\ A = Seq(Pairs) /\ T = KindIn(kind)
                           /\ H = Each(f, S) /\ h = [p \in S |-> <<f[p]>>]
  OBVIOUS
<1>2. Joins(S, A, H, h)
  BY <1>1, EachJoins
<1>3. Joins(S, A, AmongBy(S, H, T), AmongOne(S, h, T))
  BY <1>2, AmongJoins
<1>4. AmongOne(S, h, T) = ReadOne(kind, f)
  BY <1>1 DEF AmongOne, ReadOne, KindIn
<1> QED
  BY <1>1, <1>3, <1>4 DEF Reads

TrafficOf(kind, p) == IF p.type = kind THEN <<PairOf(kind, p)>> ELSE <<>>
TrafficOne(kind)   == [p \in BodyPart |-> TrafficOf(kind, p)]
TrafficBy(kind)    == Reads(kind, PairIn(kind))

LEMMA TrafficJoins == ASSUME NEW kind PROVE Joins(BodyPart, Seq(Pairs), TrafficBy(kind), TrafficOne(kind))
<1>1. PICK f : f = PairIn(kind)
  OBVIOUS
<1>2. Maps(f, BodyPart, Pairs)
  <2>1. ASSUME NEW p \in BodyPart PROVE PairOf(kind, p) \in Pairs
    BY DEF BodyPart, PairOf, Pairs
  <2> QED
    BY <1>1, <2>1 DEF PairIn, Maps
<1>3. Joins(BodyPart, Seq(Pairs), Reads(kind, f), ReadOne(kind, f))
  BY <1>2, ReadsJoins
<1>4. ReadOne(kind, f) = TrafficOne(kind)
  BY <1>1 DEF ReadOne, TrafficOne, TrafficOf, PairIn
<1> QED
  BY <1>1, <1>3, <1>4 DEF TrafficBy

(* A Chat client's call, its arguments parsed; a result that names no call. *)
NamelessIn == [p \in BodyPart |-> <<NoId, p.text>>]

LEMMA OthersRead == Maps(CallIn, BodyPart, Pairs) /\ Maps(NamelessIn, BodyPart, Pairs)
<1>1. ASSUME NEW p \in BodyPart PROVE CallOf(p) \in Pairs /\ <<NoId, p.text>> \in Pairs
  <2>1. p.name \in Tools \cup {NoTool} /\ p.text \in Text /\ NoId \in Ids
    BY MessagesConfig DEF BodyPart
  <2>2. Parsed(p.text) \in Text
    BY <2>1, ParsedText
  <2> QED
    BY <2>1, <2>2 DEF Pairs, CallOf
<1> QED
  BY <1>1 DEF Maps, CallIn, NamelessIn

LEMMA TrafficIs ==
    ASSUME NEW c \in Seq(BodyPart)
    PROVE  /\ Mapped(LAMBDA p : <<p.name, p.text>>, ToolUses(c)) = TrafficBy("tool_use")[c]
           /\ Mapped(LAMBDA p : <<p.id, p.text>>, Results(c)) = TrafficBy("tool_result")[c]
           /\ Mapped(LAMBDA p : <<p.name, Parsed(p.text)>>, ToolUses(c)) = Reads("tool_use", CallIn)[c]
           /\ Mapped(LAMBDA p : <<NoId, p.text>>, Results(c)) = Reads("tool_result", NamelessIn)[c]
<1>1. PICK S, u, r : S = BodyPart /\ u = Only(c, KindIn("tool_use")) /\ r = Only(c, KindIn("tool_result"))
  OBVIOUS
<1>2. u \in Seq(S) /\ r \in Seq(S)
  BY <1>1, OnlySub
<1>3. (\A i \in DOMAIN u : u[i] \in S) /\ (\A i \in DOMAIN r : r[i] \in S) /\ (\A i \in DOMAIN c : c[i] \in S)
  BY <1>1, <1>2
<1>4. ToolUses(c) = u
  <2>1. {i \in DOMAIN c : IsToolUse(c[i])} = {i \in DOMAIN c : c[i] \in KindIn("tool_use")}
    BY <1>1, <1>3 DEF KindIn, IsToolUse
  <2> QED
    BY <1>1, <2>1 DEF ToolUses, Filter, Only
<1>5. Results(c) = r
  <2>1. {i \in DOMAIN c : IsToolResult(c[i])} = {i \in DOMAIN c : c[i] \in KindIn("tool_result")}
    BY <1>1, <1>3 DEF KindIn, IsToolResult
  <2> QED
    BY <1>1, <2>1 DEF Results, Filter, Only
<1>6. Mapped(LAMBDA p : <<p.name, p.text>>, u) = Through(PairIn("tool_use"), u)
  BY <1>1, <1>3 DEF Mapped, Through, PairIn, PairOf
<1>7. Mapped(LAMBDA p : <<p.id, p.text>>, r) = Through(PairIn("tool_result"), r)
  BY <1>1, <1>3 DEF Mapped, Through, PairIn, PairOf
<1>8. Mapped(LAMBDA p : <<p.name, Parsed(p.text)>>, u) = Through(CallIn, u)
  BY <1>1, <1>3 DEF Mapped, Through, CallIn, CallOf
<1>9. Mapped(LAMBDA p : <<NoId, p.text>>, r) = Through(NamelessIn, r)
  BY <1>1, <1>3 DEF Mapped, Through, NamelessIn
<1>10. \A f : Reads("tool_use", f)[c] = Through(f, u) /\ Reads("tool_result", f)[c] = Through(f, r)
  BY <1>1, <1>2 DEF Reads, AmongBy, Each
<1> QED
  BY <1>4, <1>5, <1>6, <1>7, <1>8, <1>9, <1>10 DEF TrafficBy

(* What conversions do to it. *)
LEMMA TrafficKept ==
    ASSUME NEW kind, NEW Q, NEW c \in Seq(BodyPart), \A p \in BodyPart : p.type = kind => p \in Q
    PROVE  TrafficBy(kind)[Only(c, Q)] = TrafficBy(kind)[c]
<1>1. \A p \in BodyPart : p \notin Q => TrafficOne(kind)[p] = <<>>
  BY DEF TrafficOne, TrafficOf
<1>2. \A s \in Seq(BodyPart) : TrafficBy(kind)[Only(s, Q)] = TrafficBy(kind)[s]
  BY <1>1, TrafficJoins, OnlySame
<1> QED
  BY <1>2

LEMMA TrafficNone ==
    ASSUME NEW kind, NEW c \in Seq(BodyPart), \A i \in DOMAIN c : c[i].type # kind
    PROVE  TrafficBy(kind)[c] = <<>>
<1>1. PICK S : S = {p \in BodyPart : p.type # kind}
  OBVIOUS
<1>2. Only(c, KindIn(kind)) = <<>>
  <2>1. {i \in DOMAIN c : c[i] \in KindIn(kind)} = {}
    BY DEF KindIn
  <2>2. Only(c, KindIn(kind)) = Only(c, {})
    BY <2>1 DEF Only
  <2>3. Only(c, {}) \in Seq(BodyPart \cap {})
    BY OnlyType
  <2>4. \A s \in Seq(BodyPart \cap {}) : s = <<>>
    <3>1. BodyPart \cap {} = {}
      OBVIOUS
    <3> QED
      BY <3>1
  <2> QED
    BY <2>2, <2>3, <2>4
<1>3. TrafficBy(kind)[c] = Each(PairIn(kind), BodyPart)[<<>>]
  BY <1>2 DEF TrafficBy, Reads, AmongBy
<1>4. <<>> \in Seq(BodyPart)
  BY EmptySeq
<1> QED
  BY <1>3, <1>4 DEF Each, Through

LEMMA TrafficThrough ==
    ASSUME NEW kind, NEW f, Maps(f, BodyPart, BodyPart), NEW c \in Seq(BodyPart),
           \A p \in BodyPart : TrafficOf(kind, f[p]) = TrafficOf(kind, p)
    PROVE  TrafficBy(kind)[Through(f, c)] = TrafficBy(kind)[c]
<1>1. \A p \in BodyPart : f[p] \in BodyPart
  BY DEF Maps
<1>2. \A p \in BodyPart : TrafficOne(kind)[p] = TrafficOne(kind)[f[p]]
  BY <1>1 DEF TrafficOne
<1>3. Joins(BodyPart, Seq(Pairs), TrafficBy(kind), TrafficOne(kind))
  BY TrafficJoins
<1>4. \A s \in Seq(BodyPart) : TrafficBy(kind)[Through(f, s)] = TrafficBy(kind)[s]
  BY <1>2, <1>3, ThroughLike
<1> QED
  BY <1>4

LEMMA TrafficSum ==
    ASSUME NEW kind, NEW c \in Seq(BodyPart), NEW d \in Seq(BodyPart)
    PROVE  /\ TrafficBy(kind)[c \o d] = TrafficBy(kind)[c] \o TrafficBy(kind)[d]
           /\ TrafficBy(kind)[c] \in Seq(Pairs)
<1>1. Adds(TrafficBy(kind), c, d)
  BY TrafficJoins, JoinsJoined
<1>2. TrafficBy(kind)[c] \in Seq(Pairs)
  BY TrafficJoins DEF Joins
<1> QED
  BY <1>1, <1>2 DEF Adds

-----------------------------------------------------------------------------
(* What J reads of the parts of messages. *)
PartsIn(M)    == [m \in M |-> m.parts]
SentOne(M, J) == [m \in M |-> J[m.parts]]
SentBy(M, J)  == AllOf(SentOne(M, J), M)

LEMMA SentJoins ==
    ASSUME NEW M, \A m \in M : m.parts \in Seq(BodyPart),
           NEW J, NEW j, Joins(BodyPart, Seq(Pairs), J, j)
    PROVE  Joins(M, Seq(Pairs), SentBy(M, J), SentOne(M, J))
<1>1. PICK S, f : S = Seq(Pairs) /\ f = SentOne(M, J)
  OBVIOUS
<1>2. Maps(f, M, S)
  BY <1>1 DEF Maps, SentOne, Joins
<1>3. Strings(S)
  BY <1>1, SeqStrings
<1>4. Joins(M, S, AllOf(f, M), f)
  BY <1>2, <1>3, AllJoins
<1> QED
  BY <1>1, <1>4 DEF SentBy

LEMMA PartsSent ==
    ASSUME NEW M, \A m \in M : m.parts \in Seq(BodyPart), NEW s \in Seq(M),
           NEW J, NEW j, Joins(BodyPart, Seq(Pairs), J, j)
    PROVE  PartsOf(s) \in Seq(BodyPart) /\ J[PartsOf(s)] = SentBy(M, J)[s]
<1>1. PICK f : f = PartsIn(M)
  OBVIOUS
<1>2. Maps(f, M, Seq(BodyPart))
  BY <1>1 DEF PartsIn, Maps
<1>3. \A m \in M : SentOne(M, J)[m] = J[f[m]]
  BY <1>1 DEF SentOne, PartsIn
<1>4. Joins(M, Seq(Pairs), SentBy(M, J), SentOne(M, J))
  BY SentJoins
<1>6. \A t \in Seq(M) : J[FlattenSeq(Through(f, t))] = SentBy(M, J)[t]
  BY <1>2, <1>3, <1>4, AllLike
<1>7. PartsOf(s) = FlattenSeq(Through(f, s))
  <2>1. \A i \in DOMAIN s : s[i] \in M
    OBVIOUS
  <2>2. Mapped(LAMBDA m : m.parts, s) = Through(f, s)
    BY <1>1, <2>1 DEF Mapped, Through, PartsIn
  <2> QED
    BY <2>2 DEF PartsOf
<1>8. FlattenSeq(Through(f, s)) \in Seq(BodyPart)
  <2>1. PICK B : B = Seq(BodyPart)
    OBVIOUS
  <2>2. Joinable(B) /\ Maps(f, M, B)
    BY <1>2, <2>1, SeqJoinable
  <2>3. Through(f, s) \in Seq(B)
    BY <2>2, ThroughIs
  <2> QED
    BY <2>1, <2>2, <2>3, FlattenType
<1> QED
  BY <1>6, <1>7, <1>8

-----------------------------------------------------------------------------
(* What an upstream is passed on of a message of the IR: Gemini every part  *)
(* of a turn, the others an assistant's calls and a tool's result.          *)
Bears(u, kind, m) ==
    IF u = "Gemini" THEN IsTurn(m) ELSE m.role = IF kind = "tool_use" THEN "assistant" ELSE "tool"

PassedPart(u, kind, m) == IF Bears(u, kind, m) THEN TrafficBy(kind)[m.content] ELSE <<>>
PassedOne(u, kind)     == [m \in Speech |-> PassedPart(u, kind, m)]
PassedBy(u, kind)      == AllOf(PassedOne(u, kind), Speech)

LEMMA PassedJoins ==
    ASSUME NEW u, NEW kind
    PROVE  Joins(Speech, Seq(Pairs), PassedBy(u, kind), PassedOne(u, kind))
<1>1. PICK S, f : S = Seq(Pairs) /\ f = PassedOne(u, kind)
  OBVIOUS
<1>2. Strings(S)
  BY <1>1, SeqStrings
<1>3. Maps(f, Speech, S)
  <2>1. ASSUME NEW m \in Speech PROVE PassedPart(u, kind, m) \in S
    <3>1. m.content \in Seq(BodyPart)
      BY SpeechIs
    <3>2. TrafficBy(kind)[m.content] \in S
      BY <1>1, <3>1, TrafficSum
    <3>3. <<>> \in S
      BY <1>1, EmptySeq
    <3> QED
      BY <3>2, <3>3 DEF PassedPart
  <2> QED
    BY <1>1, <2>1 DEF Maps, PassedOne
<1>4. Joins(Speech, S, AllOf(f, Speech), f)
  BY <1>2, <1>3, AllJoins
<1> QED
  BY <1>1, <1>4 DEF PassedBy

(* Parts of another type, and one part. *)
LEMMA TextTraffic ==
    ASSUME NEW kind \in Kinds, NEW t \in Text
    PROVE  <<TextPart(t)>> \in Seq(BodyPart) /\ TrafficBy(kind)[<<TextPart(t)>>] = <<>>
<1>1. PICK p, c : p = TextPart(t) /\ c = <<p>>
  OBVIOUS
<1>2. c \in Seq(BodyPart)
  BY <1>1, TextSays
<1>3. \A i \in DOMAIN c : c[i].type # kind
  <2>1. \A i \in DOMAIN c : c[i] = p
    BY <1>1
  <2> QED
    BY <1>1, <2>1 DEF TextPart, Kinds
<1>4. TrafficBy(kind)[c] = <<>>
  BY <1>2, <1>3, TrafficNone
<1> QED
  BY <1>1, <1>2, <1>4

LEMMA NothingTraffic == ASSUME NEW kind PROVE TrafficBy(kind)[<<>>] = <<>> /\ <<>> \in Seq(Pairs)
<1>1. Joins(BodyPart, Seq(Pairs), TrafficBy(kind), TrafficOne(kind))
  BY TrafficJoins
<1> QED
  BY <1>1, EmptySeq DEF Joins

LEMMA TextsTraffic ==
    ASSUME NEW kind \in Kinds, NEW c \in Seq(Part)
    PROVE  TrafficBy(kind)[Texts(c)] = <<>>
<1>1. PICK q \in Seq(Part) : q = Texts(c)
  BY TextsSaid
<1>2. q \in Seq(BodyPart)
  BY PartsHave
<1>3. \A i \in DOMAIN q : IsText(q[i])
  <2>1. q = Only(c, TextIn(Part)) /\ q \in Seq(Part \cap TextIn(Part))
    BY <1>1, TextsAre, OnlyType
  <2>2. \A i \in DOMAIN q : q[i] \in TextIn(Part)
    BY <2>1
  <2> QED
    BY <2>2 DEF TextIn
<1>4. \A i \in DOMAIN q : q[i].type # kind
  BY <1>3 DEF IsText, Kinds
<1> QED
  BY <1>1, <1>2, <1>4, TrafficNone

LEMMA UsesTraffic ==
    ASSUME NEW c \in Seq(BodyPart)
    PROVE  /\ ToolUses(c) \in Seq(BodyPart)
           /\ TrafficBy("tool_use")[ToolUses(c)] = TrafficBy("tool_use")[c]
           /\ TrafficBy("tool_result")[ToolUses(c)] = <<>>
<1>1. PICK Q : Q = KindIn("tool_use")
  OBVIOUS
<1>2. PICK q \in Seq(BodyPart) : q = ToolUses(c) /\ q = Only(c, Q) /\ q \in Seq(BodyPart \cap Q)
  <2>1. \A i \in DOMAIN c : c[i] \in BodyPart
    OBVIOUS
  <2>2. {i \in DOMAIN c : IsToolUse(c[i])} = {i \in DOMAIN c : c[i] \in Q}
    BY <1>1, <2>1 DEF KindIn, IsToolUse
  <2>3. ToolUses(c) = Only(c, Q)
    BY <2>2 DEF ToolUses, Filter, Only
  <2> QED
    BY <2>3, OnlySub, OnlyType
<1>3. \A p \in BodyPart : p.type = "tool_use" => p \in Q
  BY <1>1 DEF KindIn
<1>4. TrafficBy("tool_use")[Only(c, Q)] = TrafficBy("tool_use")[c]
  BY <1>3, TrafficKept
<1>5. \A i \in DOMAIN q : q[i].type # "tool_result"
  <2>1. \A i \in DOMAIN q : q[i] \in Q
    BY <1>2
  <2> QED
    BY <1>1, <2>1 DEF KindIn
<1>6. TrafficBy("tool_result")[q] = <<>>
  BY <1>5, TrafficNone
<1> QED
  BY <1>2, <1>4, <1>6

LEMMA ResultsTraffic ==
    ASSUME NEW c \in Seq(BodyPart)
    PROVE  /\ TrafficBy("tool_result")[Results(c)] = TrafficBy("tool_result")[c]
           /\ TrafficBy("tool_use")[Results(c)] = <<>>
<1>1. PICK Q : Q = KindIn("tool_result")
  OBVIOUS
<1>2. PICK q \in Seq(BodyPart) : q = Results(c) /\ q = Only(c, Q) /\ q \in Seq(BodyPart \cap Q)
  <2>1. \A i \in DOMAIN c : c[i] \in BodyPart
    OBVIOUS
  <2>2. {i \in DOMAIN c : IsToolResult(c[i])} = {i \in DOMAIN c : c[i] \in Q}
    BY <1>1, <2>1 DEF KindIn, IsToolResult
  <2>3. Results(c) = Only(c, Q)
    BY <2>2 DEF Results, Filter, Only
  <2> QED
    BY <2>3, OnlySub, OnlyType
<1>3. \A p \in BodyPart : p.type = "tool_result" => p \in Q
  BY <1>1 DEF KindIn
<1>4. TrafficBy("tool_result")[Only(c, Q)] = TrafficBy("tool_result")[c]
  BY <1>3, TrafficKept
<1>5. \A i \in DOMAIN q : q[i].type # "tool_use"
  <2>1. \A i \in DOMAIN q : q[i] \in Q
    BY <1>2
  <2> QED
    BY <1>1, <2>1 DEF KindIn
<1>6. TrafficBy("tool_use")[q] = <<>>
  BY <1>5, TrafficNone
<1> QED
  BY <1>2, <1>4, <1>6

(* One result, and no call. *)
LEMMA OneResultTraffic ==
    ASSUME NEW id \in Ids, NEW t \in Text
    PROVE  /\ <<ToolResult(id, t)>> \in Seq(BodyPart)
           /\ TrafficBy("tool_use")[<<ToolResult(id, t)>>] = <<>>
           /\ TrafficBy("tool_result")[<<ToolResult(id, t)>>] = << <<id, t>> >>
           /\ Results(<<ToolResult(id, t)>>) = <<ToolResult(id, t)>>
           /\ Joined(<<ToolResult(id, t)>>) = t
<1>1. PICK p, c : p = ToolResult(id, t) /\ c = <<p>> /\ p.type = "tool_result" /\ p.id = id /\ p.text = t
  <2>1. PICK p : p = ToolResult(id, t)
    OBVIOUS
  <2>2. p.type = "tool_result" /\ p.id = id /\ p.text = t
    BY <2>1 DEF ToolResult
  <2> QED
    BY <2>1, <2>2
<1>2. c \in Seq(BodyPart) /\ p \in BodyPart
  <2>1. c \in Seq(Part)
    BY <1>1, ResultSaid
  <2>2. c \in Seq(BodyPart)
    BY <2>1, PartsHave
  <2>3. c[1] = p /\ 1 \in DOMAIN c
    BY <1>1
  <2> QED
    BY <2>2, <2>3
<1>3. \A i \in DOMAIN c : c[i] = p
  BY <1>1
<1>4. TrafficBy("tool_use")[c] = <<>>
  <2>1. \A i \in DOMAIN c : c[i].type # "tool_use"
    BY <1>1, <1>3
  <2> QED
    BY <1>2, <2>1, TrafficNone
<1>5. TrafficBy("tool_result")[c] = << <<id, t>> >>
  <2>1. PICK J, j : J = TrafficBy("tool_result") /\ j = TrafficOne("tool_result")
    OBVIOUS
  <2>2. Joins(BodyPart, Seq(Pairs), J, j)
    BY <2>1, TrafficJoins
  <2>3. j[p] = << <<id, t>> >>
    BY <1>1, <1>2, <2>1 DEF TrafficOne, TrafficOf, PairOf
  <2>4. PICK n \in Seq(BodyPart) : n = <<>> /\ J[n] = <<>>
    BY <2>2, EmptySeq DEF Joins
  <2>5. J[Append(n, p)] = J[n] \o j[p]
    BY <1>2, <2>2, <2>4 DEF Joins
  <2>6. Append(n, p) = c
    BY <1>1, <2>4
  <2>7. j[p] \in Seq(Pairs)
    BY <1>2, <2>2 DEF Joins
  <2>8. <<>> \o j[p] = j[p]
    BY <2>7, ConcatEmptySeq
  <2> QED
    BY <2>1, <2>3, <2>4, <2>5, <2>6, <2>8
<1>6. Results(c) = c
  <2>1. PICK Q : Q = {p}
    OBVIOUS
  <2>2. {i \in DOMAIN c : IsToolResult(c[i])} = {i \in DOMAIN c : c[i] \in Q}
    BY <1>1, <1>3, <2>1 DEF IsToolResult
  <2>3. Results(c) = Only(c, Q)
    BY <2>2 DEF Results, Filter, Only
  <2>4. PICK e \in Seq(BodyPart) : e = <<>> /\ Only(e, Q) = <<>>
    BY EmptySeq, OnlyNone
  <2>5. Only(Append(e, p), Q) = Append(Only(e, Q), p)
    <3>1. p \in Q
      BY <2>1
    <3> QED
      BY <1>2, <3>1, OnlyOn
  <2>6. Append(e, p) = c
    BY <1>1, <2>4
  <2> QED
    BY <2>3, <2>4, <2>5, <2>6
<1>7. Joined(c) = t
  <2>1. Mapped(LAMBDA x : x.text, c) = <<t>>
    BY <1>1 DEF Mapped
  <2>2. PICK A : A = Text
    OBVIOUS
  <2>3. Joinable(A) /\ t \in A /\ <<>> \in Seq(A)
    BY <2>2, SpelledTalk, EmptySeq DEF Spelled, Spoken, Strings
  <2>4. FlattenSeq(Append(<<>>, t)) = FlattenSeq(<<>>) \o t
    BY <2>3, FlattenOn
  <2>5. FlattenSeq(<<>>) = <<>>
    BY DEF FlattenSeq
  <2>6. <<>> \o t = t
    BY ConcatEmptySeq DEF Text
  <2>7. Append(<<>>, t) = <<t>>
    OBVIOUS
  <2> QED
    BY <2>1, <2>4, <2>5, <2>6, <2>7 DEF Joined
<1> QED
  BY <1>1, <1>2, <1>4, <1>5, <1>6, <1>7

-----------------------------------------------------------------------------
(* The messages of each adapter pass on what the message bears.            *)
Conducts(u, m, w) == \A kind \in Kinds : TrafficBy(kind)[w.parts] = PassedPart(u, kind, m)

LEMMA ToolBears ==
    ASSUME NEW u, u # "Gemini", NEW m \in Speech
    PROVE  /\ m.role \notin {"assistant", "tool"} => \A kind \in Kinds : PassedPart(u, kind, m) = <<>>
           /\ m.role = "assistant" => /\ PassedPart(u, "tool_use", m) = TrafficBy("tool_use")[m.content]
                                      /\ PassedPart(u, "tool_result", m) = <<>>
           /\ m.role = "tool" => /\ PassedPart(u, "tool_use", m) = <<>>
                                 /\ PassedPart(u, "tool_result", m) = TrafficBy("tool_result")[m.content]
BY DEF PassedPart, Bears, Kinds

LEMMA OpenAIConducts ==
    ASSUME NEW u, u # "Gemini", NEW m \in Speech PROVE Conducts(u, m, ToOpenAIMessage(m))
<1>1. PICK c \in Seq(Part) : c = m.content /\ c \in Seq(BodyPart)
  BY SpeechIs
<1>2. PICK t \in Text : t = Joined(Texts(c))
  BY <1>1, SaidText
<1>3. PICK w : w = ToOpenAIMessage(m)
  OBVIOUS
<1>4. CASE m.role = "tool"
  <2>1. PICK id \in Ids, a \in Text : c = <<ToolResult(id, a)>>
    <3>1. OneResult(c)
      BY <1>1, <1>4 DEF Speech
    <3> QED
      BY <3>1 DEF OneResult
  <2>2. /\ TrafficBy("tool_use")[c] = <<>> /\ Results(c) = c /\ Joined(c) = a
    BY <2>1, OneResultTraffic
  <2>3. c # <<>> /\ c[1].id = id
    BY <2>1 DEF ToolResult
  <2>4. w.parts = <<ToolResult(id, a)>>
    BY <1>1, <1>3, <1>4, <2>2, <2>3 DEF ToOpenAIMessage
  <2>5. w.parts = c
    BY <2>1, <2>4
  <2>6. PassedPart(u, "tool_use", m) = <<>> /\ PassedPart(u, "tool_result", m) = TrafficBy("tool_result")[c]
    BY <1>1, <1>4, ToolBears
  <2>7. TrafficBy("tool_use")[c] = <<>>
    BY <2>2
  <2> QED
    BY <1>3, <2>5, <2>6, <2>7 DEF Conducts, Kinds
<1>5. CASE m.role = "assistant"
  <2>1. PICK text \in Seq(BodyPart) : /\ text = IF Texts(c) = <<>> THEN <<>> ELSE <<TextPart(t)>>
                                      /\ \A kind \in Kinds : TrafficBy(kind)[text] = <<>>
    <3>1. CASE Texts(c) = <<>>
      <4>1. <<>> \in Seq(BodyPart)
        BY EmptySeq
      <4> QED
        BY <3>1, <4>1, NothingTraffic
    <3>2. CASE Texts(c) # <<>>
      <4>1. PICK p : p = <<TextPart(t)>>
        OBVIOUS
      <4>2. "tool_use" \in Kinds
        BY DEF Kinds
      <4>3. p \in Seq(BodyPart) /\ \A kind \in Kinds : TrafficBy(kind)[p] = <<>>
        BY <4>1, <4>2, TextTraffic
      <4> QED
        BY <3>2, <4>1, <4>3
    <3> QED
      BY <3>1, <3>2
  <2>2. PICK calls \in Seq(BodyPart) : /\ calls = ToolUses(c)
                                       /\ TrafficBy("tool_use")[calls] = TrafficBy("tool_use")[c]
                                       /\ TrafficBy("tool_result")[calls] = <<>>
    BY <1>1, UsesTraffic
  <2>3. w.parts = text \o calls
    BY <1>1, <1>2, <1>3, <1>5, <2>1, <2>2 DEF ToOpenAIMessage
  <2>4. ASSUME NEW kind \in Kinds PROVE TrafficBy(kind)[w.parts] = TrafficBy(kind)[calls]
    <3>1. TrafficBy(kind)[text \o calls] = TrafficBy(kind)[text] \o TrafficBy(kind)[calls]
      BY TrafficSum
    <3>2. TrafficBy(kind)[calls] \in Seq(Pairs)
      BY TrafficSum
    <3>3. <<>> \o TrafficBy(kind)[calls] = TrafficBy(kind)[calls]
      BY <3>2, ConcatEmptySeq
    <3> QED
      BY <2>1, <2>3, <3>1, <3>3
  <2> QED
    BY <1>1, <1>3, <1>5, <2>2, <2>4, ToolBears DEF Conducts, Kinds
<1>6. CASE m.role \notin {"tool", "assistant"}
  <2>1. w.parts = <<TextPart(t)>>
    BY <1>1, <1>2, <1>3, <1>6 DEF ToOpenAIMessage
  <2>2. \A kind \in Kinds : TrafficBy(kind)[w.parts] = <<>>
    BY <2>1, TextTraffic
  <2>3. \A kind \in Kinds : PassedPart(u, kind, m) = <<>>
    BY <1>6, ToolBears
  <2> QED
    BY <1>3, <2>2, <2>3 DEF Conducts
<1> QED
  BY <1>4, <1>5, <1>6

LEMMA AnthropicConducts ==
    ASSUME NEW u, u # "Gemini", NEW m \in Speech PROVE Conducts(u, m, ToAnthropicMessage(m))
<1>1. PICK c \in Seq(Part) : c = m.content /\ c \in Seq(BodyPart)
  BY SpeechIs
<1>2. PICK w : w = ToAnthropicMessage(m)
  OBVIOUS
<1>3. CASE m.role = "assistant"
  <2>1. PICK Q : Q = {x \in BodyPart : ~IsToolResult(x)}
    OBVIOUS
  <2>2. PICK q \in Seq(BodyPart) : q = Only(c, Q) /\ q \in Seq(BodyPart \cap Q)
    BY <1>1, OnlySub, OnlyType
  <2>3. Filter(c, LAMBDA x : ~IsToolResult(x)) = q
    <3>1. \A i \in DOMAIN c : c[i] \in BodyPart
      BY <1>1
    <3>2. {i \in DOMAIN c : ~IsToolResult(c[i])} = {i \in DOMAIN c : c[i] \in Q}
      BY <2>1, <3>1
    <3> QED
      BY <2>2, <3>2 DEF Filter, Only
  <2>4. TrafficBy("tool_use")[q] = TrafficBy("tool_use")[c]
    <3>1. \A p \in BodyPart : p.type = "tool_use" => p \in Q
      BY <2>1 DEF IsToolResult
    <3>2. TrafficBy("tool_use")[Only(c, Q)] = TrafficBy("tool_use")[c]
      BY <1>1, <3>1, TrafficKept
    <3> QED
      BY <2>2, <3>2
  <2>5. TrafficBy("tool_result")[q] = <<>>
    <3>1. \A i \in DOMAIN q : q[i] \in Q
      BY <2>2
    <3>2. \A i \in DOMAIN q : q[i].type # "tool_result"
      BY <2>1, <3>1 DEF IsToolResult
    <3> QED
      BY <3>2, TrafficNone
  <2>6. w.parts = q
    BY <1>1, <1>2, <1>3, <2>3 DEF ToAnthropicMessage
  <2> QED
    BY <1>1, <1>2, <1>3, <2>4, <2>5, <2>6, ToolBears DEF Conducts, Kinds
<1>4. CASE m.role = "tool"
  <2>1. w.parts = Results(c)
    BY <1>1, <1>2, <1>4 DEF ToAnthropicMessage
  <2>2. /\ TrafficBy("tool_result")[Results(c)] = TrafficBy("tool_result")[c]
        /\ TrafficBy("tool_use")[Results(c)] = <<>>
    BY <1>1, ResultsTraffic
  <2> QED
    BY <1>1, <1>2, <1>4, <2>1, <2>2, ToolBears DEF Conducts, Kinds
<1>5. CASE m.role \notin {"assistant", "tool"}
  <2>1. w.parts = Texts(c)
    BY <1>1, <1>2, <1>5 DEF ToAnthropicMessage
  <2>2. \A kind \in Kinds : TrafficBy(kind)[w.parts] = <<>>
    BY <2>1, TextsTraffic
  <2>3. \A kind \in Kinds : PassedPart(u, kind, m) = <<>>
    BY <1>5, ToolBears
  <2> QED
    BY <1>2, <2>2, <2>3 DEF Conducts
<1> QED
  BY <1>3, <1>4, <1>5

LEMMA GeminiConducts ==
    ASSUME NEW m \in Speech, IsTurn(m) PROVE Conducts("Gemini", m, ToGeminiContent(m))
<1>1. PICK c \in Seq(BodyPart) : c = m.content
  BY SpeechIs
<1> DEFINE To(x) == IF IsToolUse(x) THEN [x EXCEPT !.id = NoId] ELSE x
<1>2. PICK f : f = [x \in BodyPart |-> To(x)]
  OBVIOUS
<1>3. Maps(f, BodyPart, BodyPart)
  BY <1>2, MessagesConfig DEF Maps, BodyPart
<1>4. ToGeminiContent(m).parts = Mapped(To, c)
  BY <1>1 DEF ToGeminiContent
<1>5. Mapped(To, c) = Through(f, c)
  <2>1. \A i \in DOMAIN c : c[i] \in BodyPart
    OBVIOUS
  <2> QED
    BY <1>2, <2>1 DEF Mapped, Through
<1>6. ASSUME NEW kind \in Kinds PROVE TrafficBy(kind)[Through(f, c)] = TrafficBy(kind)[c]
  <2>1. \A x \in BodyPart : TrafficOf(kind, f[x]) = TrafficOf(kind, x)
    BY <1>2, MessagesConfig DEF BodyPart, TrafficOf, PairOf, IsToolUse, Kinds
  <2> QED
    BY <1>3, <2>1, TrafficThrough
<1>7. \A kind \in Kinds : PassedPart("Gemini", kind, m) = TrafficBy(kind)[c]
  BY <1>1 DEF PassedPart, Bears
<1> QED
  BY <1>4, <1>5, <1>6, <1>7 DEF Conducts

-----------------------------------------------------------------------------
(* What the messages of a body for an upstream pass on.                    *)
Wired(kind) == SentBy(WireMessage, TrafficBy(kind))

LEMMA WiredJoins ==
    ASSUME NEW kind
    PROVE  Joins(WireMessage, Seq(Pairs), Wired(kind), [w \in WireMessage |-> TrafficBy(kind)[w.parts]])
<1>1. \A w \in WireMessage : w.parts \in Seq(BodyPart)
  BY WireIs
<1>2. Joins(WireMessage, Seq(Pairs), SentBy(WireMessage, TrafficBy(kind)), SentOne(WireMessage, TrafficBy(kind)))
  BY <1>1, TrafficJoins, SentJoins
<1> QED
  BY <1>2 DEF Wired, SentOne

Passes(u, s, ws) == /\ ws \in Seq(WireMessage)
                    /\ \A kind \in Kinds : Wired(kind)[ws] = PassedBy(u, kind)[s]

LEMMA AllConducted ==
    ASSUME NEW u, NEW s \in Seq(Speech), NEW F, Maps(F, Speech, WireMessage),
           \A m \in Speech : Conducts(u, m, F[m])
    PROVE  Passes(u, s, Through(F, s))
<1>1. ASSUME NEW kind \in Kinds PROVE Wired(kind)[Through(F, s)] = PassedBy(u, kind)[s]
  <2>1. PICK H, h, K, k : /\ H = PassedBy(u, kind) /\ h = PassedOne(u, kind)
                          /\ K = Wired(kind) /\ k = [w \in WireMessage |-> TrafficBy(kind)[w.parts]]
    OBVIOUS
  <2>2. Joins(Speech, Seq(Pairs), H, h) /\ Joins(WireMessage, Seq(Pairs), K, k)
    BY <2>1, PassedJoins, WiredJoins
  <2>3. \A m \in Speech : h[m] = k[F[m]]
    <3>1. ASSUME NEW m \in Speech PROVE h[m] = k[F[m]]
      <4>1. F[m] \in WireMessage
        BY DEF Maps
      <4>2. TrafficBy(kind)[F[m].parts] = PassedPart(u, kind, m)
        BY DEF Conducts
      <4> QED
        BY <2>1, <4>1, <4>2 DEF PassedOne
    <3> QED
      BY <3>1
  <2>4. \A q \in Seq(Speech) : K[Through(F, q)] = H[q]
    BY <2>2, <2>3, ThroughLike
  <2> QED
    BY <2>1, <2>4
<1>2. Through(F, s) \in Seq(WireMessage)
  BY ThroughIs
<1> QED
  BY <1>1, <1>2 DEF Passes

LEMMA OpenAIPasses ==
    ASSUME NEW u, u # "Gemini", NEW s \in Seq(Speech) PROVE Passes(u, s, Mapped(ToOpenAIMessage, s))
<1>1. PICK F : F = [m \in Speech |-> ToOpenAIMessage(m)]
  OBVIOUS
<1>2. Maps(F, Speech, WireMessage) /\ \A m \in Speech : Conducts(u, m, F[m])
  BY <1>1, OpenAICarries, OpenAIConducts DEF Maps, Carries
<1>3. Passes(u, s, Through(F, s))
  BY <1>2, AllConducted
<1>4. Mapped(ToOpenAIMessage, s) = Through(F, s)
  <2>1. \A i \in DOMAIN s : s[i] \in Speech
    OBVIOUS
  <2> QED
    BY <1>1, <2>1 DEF Mapped, Through
<1> QED
  BY <1>3, <1>4

LEMMA AnthropicPasses ==
    ASSUME NEW u, u # "Gemini", NEW s \in Seq(Speech), \A i \in DOMAIN s : IsTurn(s[i])
    PROVE  Passes(u, s, Mapped(ToAnthropicMessage, s))
<1>1. PICK F : F = [m \in Speech |-> IF IsTurn(m) THEN ToAnthropicMessage(m) ELSE ToOpenAIMessage(m)]
  OBVIOUS
<1>2. Maps(F, Speech, WireMessage)
  BY <1>1, OpenAICarries, AnthropicCarries DEF Maps, Carries
<1>3. \A m \in Speech : Conducts(u, m, F[m])
  BY <1>1, OpenAIConducts, AnthropicConducts
<1>4. Passes(u, s, Through(F, s))
  BY <1>2, <1>3, AllConducted
<1>5. Mapped(ToAnthropicMessage, s) = Through(F, s)
  <2>1. \A i \in DOMAIN s : s[i] \in Speech
    OBVIOUS
  <2> QED
    BY <1>1, <2>1 DEF Mapped, Through
<1> QED
  BY <1>4, <1>5

(* To Gemini the turns; a message of the IR that is none passes nothing.   *)
LEMMA GeminiPasses ==
    ASSUME NEW s \in Seq(Speech), \A i \in DOMAIN s : IsTurn(s[i])
    PROVE  Passes("Gemini", s, Filter(Mapped(ToGeminiContent, s), LAMBDA m : m.parts # <<>>))
<1>0. PICK e : e = [role |-> "user", id |-> NoId, parts |-> <<>>] /\ e \in WireMessage
  <2>1. PICK e : e = [role |-> "user", id |-> NoId, parts |-> <<>>]
    OBVIOUS
  <2>2. <<>> \in Seq(Part)
    BY EmptySeq
  <2>3. e \in WireMessage
    BY <2>1, <2>2, MessagesConfig DEF WireMessage, Roles
  <2> QED
    BY <2>1, <2>3
<1>1. PICK F : F = [m \in Speech |-> IF IsTurn(m) THEN ToGeminiContent(m) ELSE e]
  OBVIOUS
<1>2. Maps(F, Speech, WireMessage)
  BY <1>0, <1>1, GeminiCarries DEF Maps, Carries
<1>3. \A m \in Speech : Conducts("Gemini", m, F[m])
  <2>1. ASSUME NEW m \in Speech, IsTurn(m) PROVE Conducts("Gemini", m, F[m])
    BY <1>1, <2>1, GeminiConducts
  <2>2. ASSUME NEW m \in Speech, ~IsTurn(m) PROVE Conducts("Gemini", m, F[m])
    <3>1. F[m].parts = <<>>
      BY <1>0, <1>1, <2>2
    <3>2. \A kind \in Kinds : PassedPart("Gemini", kind, m) = <<>>
      BY <2>2 DEF PassedPart, Bears
    <3> QED
      BY <3>1, <3>2, NothingTraffic DEF Conducts
  <2> QED
    BY <2>1, <2>2
<1>4. Passes("Gemini", s, Through(F, s))
  BY <1>2, <1>3, AllConducted
<1>5. PICK ws \in Seq(WireMessage) : ws = Mapped(ToGeminiContent, s) /\ Passes("Gemini", s, ws)
  <2>1. \A i \in DOMAIN s : s[i] \in Speech
    OBVIOUS
  <2>2. Mapped(ToGeminiContent, s) = Through(F, s)
    BY <1>1, <2>1 DEF Mapped, Through
  <2> QED
    BY <1>4, <2>2 DEF Passes
<1>6. PICK N : N = Telling
  OBVIOUS
<1>7. Filter(ws, LAMBDA m : m.parts # <<>>) = Only(ws, N)
  <2>1. \A i \in DOMAIN ws : ws[i] \in WireMessage
    OBVIOUS
  <2>2. {i \in DOMAIN ws : ws[i].parts # <<>>} = {i \in DOMAIN ws : ws[i] \in N}
    BY <1>6, <2>1 DEF Telling
  <2> QED
    BY <2>2 DEF Filter, Only
<1>8. ASSUME NEW kind \in Kinds PROVE Wired(kind)[Only(ws, N)] = Wired(kind)[ws]
  <2>1. PICK W, H, h : W = WireMessage /\ H = Wired(kind) /\ h = [w \in W |-> TrafficBy(kind)[w.parts]]
    OBVIOUS
  <2>2. Joins(W, Seq(Pairs), H, h)
    BY <2>1, WiredJoins
  <2>3. \A w \in W : w \notin N => h[w] = <<>>
    BY <1>6, <2>1, NothingTraffic DEF Telling
  <2>4. \A q \in Seq(W) : H[Only(q, N)] = H[q]
    BY <2>2, <2>3, OnlySame
  <2> QED
    BY <2>1, <2>4
<1>9. Only(ws, N) \in Seq(WireMessage)
  BY OnlySub
<1> QED
  BY <1>5, <1>7, <1>8, <1>9 DEF Passes

(* Leaving the system messages out.                                        *)
LEMMA TurnsPass ==
    ASSUME NEW s \in Seq(Speech), NEW u, NEW kind
    PROVE  PassedBy(u, kind)[Filter(s, IsTurn)] = PassedBy(u, kind)[s]
<1>1. PICK H, h, N : H = PassedBy(u, kind) /\ h = PassedOne(u, kind) /\ N = TurnIn(Speech)
  OBVIOUS
<1>2. Joins(Speech, Seq(Pairs), H, h)
  BY <1>1, PassedJoins
<1>3. \A m \in Speech : m \notin N => h[m] = <<>>
  BY <1>1 DEF PassedOne, PassedPart, Bears, TurnIn, IsTurn, IsSystem
<1>4. \A q \in Seq(Speech) : H[Only(q, N)] = H[q]
  BY <1>2, <1>3, OnlySame
<1>5. Filter(s, IsTurn) = Only(s, N)
  BY <1>1, TurnsAre
<1> QED
  BY <1>1, <1>4, <1>5

(* The body for an upstream but Wenxin passes on what the request bears.   *)
LEMMA BodyPasses ==
    ASSUME NEW u, u # "Wenxin", NEW r, r.messages \in Seq(Speech)
    PROVE  Passes(u, r.messages, BuildRequestBody(u, r).messages)
<1>1. PICK s \in Seq(Speech) : s = r.messages
  OBVIOUS
<1>2. PICK q \in Seq(Speech) : q = Filter(s, IsTurn) /\ \A i \in DOMAIN q : IsTurn(q[i])
  <2>1. Filter(s, IsTurn) = Only(s, TurnIn(Speech))
    BY TurnsAre
  <2>2. TurnsIn(s, Only(s, TurnIn(Speech)))
    BY TurnsAmong
  <2> QED
    BY <2>1, <2>2 DEF TurnsIn
<1>3. \A ws : Passes(u, q, ws) => Passes(u, s, ws)
  BY <1>2, TurnsPass DEF Passes
<1>4. CASE u = "Anthropic"
  <2>1. PICK b : b = BuildAnthropic(r) /\ b = BuildRequestBody(u, r)
    BY <1>4 DEF BuildRequestBody
  <2>2. b.messages = Mapped(ToAnthropicMessage, q)
    BY <1>1, <1>2, <2>1 DEF BuildAnthropic
  <2>3. Passes(u, q, Mapped(ToAnthropicMessage, q))
    BY <1>2, <1>4, AnthropicPasses
  <2> QED
    BY <1>1, <1>3, <2>1, <2>2, <2>3
<1>5. CASE u = "Gemini"
  <2>1. PICK b : b = BuildGemini(r) /\ b = BuildRequestBody(u, r)
    BY <1>5 DEF BuildRequestBody
  <2>2. b.messages = Filter(Mapped(ToGeminiContent, q), LAMBDA m : m.parts # <<>>)
    BY <1>1, <1>2, <2>1 DEF BuildGemini
  <2>3. Passes(u, q, Filter(Mapped(ToGeminiContent, q), LAMBDA m : m.parts # <<>>))
    BY <1>2, <1>5, GeminiPasses
  <2> QED
    BY <1>1, <1>3, <2>1, <2>2, <2>3
<1>6. CASE u \notin {"Wenxin", "Anthropic", "Gemini"}
  <2>1. PICK b : b = BuildOpenAI(r) /\ b = BuildRequestBody(u, r)
    BY <1>6 DEF BuildRequestBody
  <2>2. b.messages = Mapped(ToOpenAIMessage, s)
    BY <1>1, <2>1 DEF BuildOpenAI
  <2>3. Passes(u, s, Mapped(ToOpenAIMessage, s))
    BY <1>6, OpenAIPasses
  <2> QED
    BY <1>1, <2>1, <2>2, <2>3
<1> QED
  BY <1>4, <1>5, <1>6

-----------------------------------------------------------------------------
(* Wenxin.  What neither users nor the system can bear is the same after   *)
(* the system texts were moved.                                            *)
Unborne(K, k, A) ==
    /\ Joins(Speech, A, K, k)
    /\ \A m \in Speech : m \in Users \/ ~IsTurn(m) => k[m] = <<>>

LEMMA FilledSame ==
    ASSUME NEW K, NEW k, NEW A, Unborne(K, k, A), NEW s \in Seq(Speech), NEW t \in Text,
           FirstUser(s) # 0
    PROVE  /\ [s EXCEPT ![FirstUser(s)].content = Prefixed(@, t)] \in Seq(Speech)
           /\ K[[s EXCEPT ![FirstUser(s)].content = Prefixed(@, t)]] = K[s]
<1>1. PICK u : u = FirstUser(s) /\ u = FirstIn(s, Users) /\ u # 0
  BY FirstUserIs
<1>2. PICK a, m, b : Cut(Speech, s, a, m, b) /\ m \in Users /\ Len(a) + 1 = u
  <2>1. \E a, m, b : CutFirst(Speech, s, Users, a, m, b)
    BY <1>1, FirstCuts
  <2> QED
    BY <1>1, <2>1 DEF CutFirst
<1>3. u \in 1..Len(s) /\ s[u] = m
  <2>1. s \in Seq(Speech) /\ Laid(s, a, m, b)
    BY <1>2, CutIs
  <2> QED
    BY <1>2, <2>1 DEF Laid
<1>4. PICK f : f = Filled(m, t) /\ f \in Users /\ f \in Speech /\ m \in Speech
  BY <1>2, FilledIs DEF Users
<1>5. PICK z : z = [s EXCEPT ![u] = f] /\ z = [s EXCEPT ![u].content = Prefixed(@, t)]
  BY <1>3, <1>4 DEF Filled
<1>6. Cut(Speech, z, a, f, b)
  <2>1. Cut(Speech, [s EXCEPT ![Len(a) + 1] = f], a, f, b)
    BY <1>2, <1>4, CutSame
  <2> QED
    BY <1>2, <1>5, <2>1
<1>7. z \in Seq(Speech)
  <2>1. z \in Seq(Speech) /\ Laid(z, a, f, b)
    BY <1>6, CutIs
  <2> QED
    BY <2>1
<1>8. Joins(Speech, A, K, k) /\ k[f] = k[m]
  BY <1>2, <1>4 DEF Unborne
<1>9. InPieces(A, K, k, s, a, m, b)
  BY <1>2, <1>8, JoinsCut
<1>10. InPieces(A, K, k, z, a, f, b)
  BY <1>6, <1>8, JoinsCut
<1>11. K[z] = K[s]
  BY <1>8, <1>9, <1>10 DEF InPieces
<1> QED
  BY <1>1, <1>5, <1>7, <1>11

LEMMA TurnsOnlySame ==
    ASSUME NEW K, NEW k, NEW A, Unborne(K, k, A), NEW s \in Seq(Speech)
    PROVE  Filter(s, IsTurn) \in Seq(Speech) /\ K[Filter(s, IsTurn)] = K[s]
<1>1. PICK T : T = TurnIn(Speech)
  OBVIOUS
<1>2. Joins(Speech, A, K, k)
  BY DEF Unborne
<1>3. \A m \in Speech : m \notin T => k[m] = <<>>
  BY <1>1 DEF Unborne, TurnIn
<1>4. \A q \in Seq(Speech) : K[Only(q, T)] = K[q]
  BY <1>2, <1>3, OnlySame
<1>5. Only(s, T) \in Seq(Speech)
  BY OnlySub
<1> QED
  BY <1>1, <1>4, <1>5, TurnsAre

LEMMA CollapseSame ==
    ASSUME NEW K, NEW k, NEW A, Unborne(K, k, A), NEW s \in Seq(Speech)
    PROVE  /\ AfterCollapse(s) \in Seq(Speech) /\ K[AfterCollapse(s)] = K[s]
           /\ Collapsed(s) \in Seq(Speech) /\ K[Collapsed(s)] = K[s]
<1>1. PICK x \in Text : x = FlattenSeq(SystemTexts(s))
  BY SystemTextsSay
<1>2. PICK turns \in Seq(Speech) : turns = Filter(s, IsTurn) /\ K[turns] = K[s]
  BY TurnsOnlySame
<1>3. AfterCollapse(s) \in Seq(Speech) /\ K[AfterCollapse(s)] = K[s]
  <2>1. CASE AfterCollapse(s) = s
    BY <2>1
  <2>2. CASE AfterCollapse(s) # s
    <3>1. FirstUser(s) # 0
      BY <2>2 DEF AfterCollapse
    <3>2. AfterCollapse(s) = [s EXCEPT ![FirstUser(s)].content = Prefixed(@, x)]
      BY <1>1, <2>2 DEF AfterCollapse
    <3>3. PICK z : z = [s EXCEPT ![FirstUser(s)].content = Prefixed(@, x)]
      OBVIOUS
    <3>4. z \in Seq(Speech) /\ K[z] = K[s]
      BY <3>1, <3>3, FilledSame
    <3> QED
      BY <3>2, <3>3, <3>4
  <2> QED
    BY <2>1, <2>2
<1>4. CASE SystemTexts(s) = <<>>
  BY <1>3, <1>4 DEF Collapsed
<1>5. CASE SystemTexts(s) # <<>> /\ FirstUser(turns) = 0
  <2>1. PICK p \in Seq(Part) : p = <<TextPart(x)>>
    BY OneSaid
  <2>2. PICK m \in Speech : m = [role |-> "user", content |-> p]
    BY DEF Speech, Talk, Roles
  <2>3. PICK n \in Seq(Speech), o \in Seq(Speech) : n = <<>> /\ o = Append(n, m) /\ o = <<m>>
    <3>1. <<>> \in Seq(Speech)
      BY EmptySeq
    <3>2. <<m>> \in Seq(Speech)
      BY OneIn
    <3>3. Append(<<>>, m) = <<m>>
      OBVIOUS
    <3> QED
      BY <3>1, <3>2, <3>3
  <2>4. Collapsed(s) = o \o turns
    BY <1>1, <1>2, <1>5, <2>1, <2>2, <2>3 DEF Collapsed
  <2>5. k[m] = <<>>
    BY <2>2 DEF Unborne, Users
  <2>6. Joins(Speech, A, K, k)
    BY DEF Unborne
  <2>7. K[o] = <<>>
    <3>1. K[n] = <<>> /\ K[Append(n, m)] = K[n] \o k[m]
      BY <2>3, <2>6 DEF Joins
    <3>2. <<>> \o <<>> = <<>>
      BY ConcatEmptySeq, EmptySeq
    <3> QED
      BY <2>3, <2>5, <3>1, <3>2
  <2>8. Adds(K, o, turns)
    BY <2>6, JoinsJoined
  <2>9. <<>> \o K[turns] = K[turns]
    BY <2>6 DEF Joins, Strings, Joinable
  <2>10. o \o turns \in Seq(Speech)
    BY ConcatProperties
  <2> QED
    BY <1>2, <1>3, <2>4, <2>7, <2>8, <2>9, <2>10 DEF Adds
<1>6. CASE SystemTexts(s) # <<>> /\ FirstUser(turns) # 0
  <2>1. Collapsed(s) = [turns EXCEPT ![FirstUser(turns)].content = Prefixed(@, x)]
    BY <1>1, <1>2, <1>6 DEF Collapsed
  <2>2. /\ [turns EXCEPT ![FirstUser(turns)].content = Prefixed(@, x)] \in Seq(Speech)
        /\ K[[turns EXCEPT ![FirstUser(turns)].content = Prefixed(@, x)]] = K[turns]
    BY <1>6, FilledSame
  <2> QED
    BY <1>2, <1>3, <2>1, <2>2
<1> QED
  BY <1>4, <1>5, <1>6

LEMMA WenxinPasses ==
    ASSUME NEW r, r.messages \in Seq(Speech), "messages" \in DOMAIN r
    PROVE  Passes("Wenxin", r.messages, BuildRequestBody("Wenxin", AfterBuild("Wenxin", r)).messages)
<1>1. PICK s \in Seq(Speech) : s = r.messages
  OBVIOUS
<1>2. PICK d \in Seq(Speech), c \in Seq(Speech) :
         /\ d = AfterCollapse(s) /\ c = Collapsed(d)
         /\ \A kind \in Kinds : PassedBy("Wenxin", kind)[c] = PassedBy("Wenxin", kind)[s]
  <2>1. ASSUME NEW kind \in Kinds
        PROVE  Unborne(PassedBy("Wenxin", kind), PassedOne("Wenxin", kind), Seq(Pairs))
    <3>1. \A m \in Speech : m \in Users \/ ~IsTurn(m) => PassedOne("Wenxin", kind)[m] = <<>>
      BY DEF Users, IsTurn, IsSystem, PassedOne, PassedPart, Bears, Kinds
    <3> QED
      BY <3>1, PassedJoins DEF Unborne
  <2>2. "tool_use" \in Kinds
    BY DEF Kinds
  <2>3. PICK d \in Seq(Speech) : d = AfterCollapse(s)
    BY <2>1, <2>2, CollapseSame
  <2>4. PICK c \in Seq(Speech) : c = Collapsed(d)
    BY <2>1, <2>2, CollapseSame
  <2>5. ASSUME NEW kind \in Kinds PROVE PassedBy("Wenxin", kind)[c] = PassedBy("Wenxin", kind)[s]
    <3>1. PICK K, k : K = PassedBy("Wenxin", kind) /\ k = PassedOne("Wenxin", kind) /\ Unborne(K, k, Seq(Pairs))
      BY <2>1
    <3>2. K[AfterCollapse(s)] = K[s]
      BY <3>1, CollapseSame
    <3>3. K[Collapsed(d)] = K[d]
      BY <3>1, CollapseSame
    <3> QED
      BY <2>3, <2>4, <3>1, <3>2, <3>3
  <2> QED
    BY <2>3, <2>4, <2>5
<1>3. PICK z : z = AfterBuild("Wenxin", r) /\ z = [r EXCEPT !.messages = d]
  BY <1>1, <1>2 DEF AfterBuild
<1>4. z.messages = d /\ "messages" \in DOMAIN z
  BY <1>3
<1>5. PICK y : y = [z EXCEPT !.messages = Collapsed(@)]
  OBVIOUS
<1>6. y.messages = c
  BY <1>2, <1>4, <1>5
<1>7. PICK body : body = BuildRequestBody("Wenxin", z) /\ body = BuildOpenAI(y)
  BY <1>5 DEF BuildRequestBody
<1>8. body.messages = Mapped(ToOpenAIMessage, c)
  BY <1>6, <1>7 DEF BuildOpenAI
<1>9. Passes("Wenxin", c, Mapped(ToOpenAIMessage, c))
  BY OpenAIPasses
<1>10. Passes("Wenxin", s, body.messages)
  BY <1>2, <1>8, <1>9 DEF Passes
<1> QED
  BY <1>1, <1>3, <1>7, <1>10

-----------------------------------------------------------------------------
(* What the clients give to be passed on, message by message.              *)
CallersOf(c, u) ==
    {m \in Heeded(c) : /\ c # "OpenAI-Responses"
                       /\ m.role \in {"assistant", "model"} \/ (u = "Gemini" /\ c # "OpenAI-Chat")}

CallsRead(c) == IF c = "OpenAI-Chat" THEN Reads("tool_use", CallIn) ELSE TrafficBy("tool_use")

CallPart(c, u, m) == IF m \in CallersOf(c, u) THEN CallsRead(c)[m.parts] ELSE <<>>

ResultPart(c, u, m) ==
    CASE c = "OpenAI-Chat" -> IF m.role = "tool" THEN << <<m.id, Said(m.parts)>> >> ELSE <<>>
      [] c = "Anthropic-Messages" /\ u = "Gemini" -> TrafficBy("tool_result")[m.parts]
      [] c = "Gemini-GenerateContent" /\ u = "Gemini" -> Reads("tool_result", NamelessIn)[m.parts]
      [] OTHER -> <<>>

Forwards(c, u, m, t) == /\ PassedPart(u, "tool_use", t) = CallPart(c, u, m)
                        /\ PassedPart(u, "tool_result", t) = ResultPart(c, u, m)

LEMMA UseIs ==
    ASSUME NEW i, NEW a, NEW b
    PROVE  ToolUse(i, a, b).type = "tool_use" /\ ToolUse(i, a, b).name = a /\ ToolUse(i, a, b).text = b
BY DEF ToolUse

LEMMA ChatCallsTraffic ==
    ASSUME NEW parts \in Seq(BodyPart), NEW calls,
           calls = Mapped(LAMBDA c : ToolUse(c.id, c.name, Parsed(c.text)), ToolUses(parts))
    PROVE  /\ calls \in Seq(BodyPart) /\ TrafficBy("tool_result")[calls] = <<>>
           /\ TrafficBy("tool_use")[calls] = Reads("tool_use", CallIn)[parts]
<1>1. PICK g, Q : g = [c \in BodyPart |-> ToolUse(c.id, c.name, Parsed(c.text))] /\ Q = KindIn("tool_use")
  OBVIOUS
<1>2. Maps(g, BodyPart, BodyPart)
  <2>1. ASSUME NEW c \in BodyPart PROVE ToolUse(c.id, c.name, Parsed(c.text)) \in BodyPart
    <3>1. c.id \in Ids /\ c.name \in Tools \cup {NoTool} /\ c.text \in Text
      BY DEF BodyPart
    <3>2. Parsed(c.text) \in Text
      BY <3>1, ParsedText
    <3>3. ToolUse(c.id, c.name, Parsed(c.text)) \in Part
      BY <3>1, <3>2, PartsAre
    <3> QED
      BY <3>3 DEF Part, BodyPart
  <2> QED
    BY <1>1, <2>1 DEF Maps
<1>3. PICK q \in Seq(BodyPart) : q = ToolUses(parts) /\ q = Only(parts, Q)
  <2>1. \A i \in DOMAIN parts : parts[i] \in BodyPart
    OBVIOUS
  <2>2. {i \in DOMAIN parts : IsToolUse(parts[i])} = {i \in DOMAIN parts : parts[i] \in Q}
    BY <1>1, <2>1 DEF KindIn, IsToolUse
  <2>3. ToolUses(parts) = Only(parts, Q)
    BY <2>2 DEF ToolUses, Filter, Only
  <2> QED
    BY <2>3, OnlySub
<1>4. calls = Through(g, q)
  <2>1. \A i \in DOMAIN q : q[i] \in BodyPart
    OBVIOUS
  <2> QED
    BY <1>1, <1>3, <2>1 DEF Mapped, Through
<1>5. calls \in Seq(BodyPart)
  BY <1>2, <1>4, ThroughIs
<1>6. \A i \in DOMAIN calls : calls[i].type # "tool_result"
  BY <1>3 DEF Mapped, ToolUse
<1>7. TrafficBy("tool_result")[calls] = <<>>
  BY <1>5, <1>6, TrafficNone
<1>8. PICK H, h : H = Each(CallIn, BodyPart) /\ h = [x \in BodyPart |-> <<CallIn[x]>>]
  OBVIOUS
<1>9. Joins(BodyPart, Seq(Pairs), H, h)
  BY <1>8, OthersRead, EachJoins
<1>10. \A x \in BodyPart : h[x] = TrafficOne("tool_use")[g[x]]
  <2>1. ASSUME NEW x \in BodyPart PROVE h[x] = TrafficOne("tool_use")[g[x]]
    <3>1. g[x] \in BodyPart /\ g[x] = ToolUse(x.id, x.name, Parsed(x.text))
      BY <1>1, <1>2 DEF Maps
    <3>2. TrafficOf("tool_use", g[x]) = << <<x.name, Parsed(x.text)>> >>
      <4>1. PICK y, i, a, b : y = g[x] /\ i = x.id /\ a = x.name /\ b = Parsed(x.text) /\ y = ToolUse(i, a, b)
        BY <3>1
      <4>2. y.type = "tool_use" /\ y.name = a /\ y.text = b
        BY <4>1, UseIs
      <4>3. TrafficOf("tool_use", y) = << <<a, b>> >>
        BY <4>2 DEF TrafficOf, PairOf
      <4> QED
        BY <4>1, <4>3
    <3> QED
      BY <1>8, <3>1, <3>2 DEF TrafficOne, CallIn, CallOf
  <2> QED
    BY <2>1
<1>11. \A s \in Seq(BodyPart) : TrafficBy("tool_use")[Through(g, s)] = H[s]
  BY <1>2, <1>9, <1>10, TrafficJoins, ThroughLike
<1>12. TrafficBy("tool_use")[calls] = H[Only(parts, Q)]
  BY <1>3, <1>4, <1>11
<1>13. Reads("tool_use", CallIn)[parts] = H[Only(parts, Q)]
  BY <1>1, <1>8 DEF Reads, AmongBy
<1> QED
  BY <1>5, <1>7, <1>12, <1>13

LEMMA SilentTraffic ==
    ASSUME NEW kind \in Kinds, NEW q \in Seq(BodyPart), \A i \in DOMAIN q : IsText(q[i])
    PROVE  TrafficBy(kind)[q] = <<>>
<1>1. \A i \in DOMAIN q : q[i].type # kind
  BY DEF IsText, Kinds
<1> QED
  BY <1>1, TrafficNone

(* Whoever bears nothing passes nothing on; else it is what is there.       *)
LEMMA BearsIs ==
    ASSUME NEW u, NEW kind, NEW m
    PROVE  /\ Bears(u, kind, m) => PassedPart(u, kind, m) = TrafficBy(kind)[m.content]
           /\ TrafficBy(kind)[m.content] = <<>> => PassedPart(u, kind, m) = <<>>
           /\ ~Bears(u, kind, m) => PassedPart(u, kind, m) = <<>>
BY DEF PassedPart

LEMMA ChatSends ==
    ASSUME NEW u, NEW m \in Heeded("OpenAI-Chat")
    PROVE  Forwards("OpenAI-Chat", u, m, FromIncomingMessage(m))
<1>1. PICK client : client = "OpenAI-Chat"
  OBVIOUS
<1>2. m \in BodyMessage /\ m.role \in Roles /\ m.parts \in Seq(BodyPart) /\ m.id \in Ids
  BY HeededIs DEF RolesOf
<1>3. PICK t \in Text : t = Joined(Texts(m.parts)) /\ t = Said(m.parts)
  BY HeededIs DEF Said
<1>4. PICK r : r = FromIncomingMessage(m) /\ r.role = m.role
  <2>1. FromIncomingMessage(m).role = m.role
    BY DEF FromIncomingMessage
  <2> QED
    BY <2>1
<1>5. PICK said \in Seq(BodyPart) : /\ said = IF m.shape = "string" THEN <<TextPart(t)>> ELSE <<>>
                                    /\ \A i \in DOMAIN said : IsText(said[i])
  <2>1. CASE m.shape = "string"
    <3>1. PICK p : p = TextPart(t) /\ IsText(p)
      <4>1. IsText(TextPart(t))
        BY DEF TextPart, IsText
      <4> QED
        BY <4>1
    <3>2. <<p>> \in Seq(BodyPart)
      BY <3>1, TextSays
    <3>3. \A i \in DOMAIN <<p>> : <<p>>[i] = p
      OBVIOUS
    <3> QED
      BY <2>1, <3>1, <3>2, <3>3
  <2>2. CASE m.shape # "string"
    <3>1. <<>> \in Seq(BodyPart) /\ DOMAIN <<>> = {}
      BY EmptySeq
    <3> QED
      BY <2>2, <3>1
  <2> QED
    BY <2>1, <2>2
<1>6. PICK some \in Seq(BodyPart) : /\ some = Filter(said, LAMBDA c : c.text # <<>>)
                                    /\ \A kind \in Kinds : TrafficBy(kind)[some] = <<>>
  <2>1. PICK Q : Q = MeantIn(TextIn(BodyPart))
    OBVIOUS
  <2>2. said \in Seq(TextIn(BodyPart))
    <3>1. \A i \in DOMAIN said : said[i] \in BodyPart /\ IsText(said[i])
      BY <1>5
    <3>2. \A i \in DOMAIN said : said[i] \in TextIn(BodyPart)
      BY <3>1 DEF TextIn
    <3> QED
      BY <3>2
  <2>3. \A i \in DOMAIN said : said[i] \in TextIn(BodyPart)
    BY <2>2
  <2>4. {i \in DOMAIN said : said[i].text # <<>>} = {i \in DOMAIN said : said[i] \in Q}
    BY <2>1, <2>3 DEF MeantIn, TextIn
  <2>5. Filter(said, LAMBDA c : c.text # <<>>) = Only(said, Q)
    BY <2>4 DEF Filter, Only
  <2>6. PICK some \in Seq(TextIn(BodyPart)) : some = Only(said, Q)
    BY <2>2, OnlySub
  <2>7. \A i \in DOMAIN some : some[i] \in TextIn(BodyPart)
    OBVIOUS
  <2>8. \A i \in DOMAIN some : some[i] \in BodyPart /\ IsText(some[i])
    BY <2>7 DEF TextIn
  <2>9. some \in Seq(BodyPart)
    BY <2>8
  <2> QED
    BY <2>5, <2>6, <2>8, <2>9, SilentTraffic
<1>7. PICK calls \in Seq(BodyPart) :
         /\ calls = Mapped(LAMBDA c : ToolUse(c.id, c.name, Parsed(c.text)), ToolUses(m.parts))
         /\ TrafficBy("tool_result")[calls] = <<>>
         /\ TrafficBy("tool_use")[calls] = Reads("tool_use", CallIn)[m.parts]
  <2>1. PICK calls : calls = Mapped(LAMBDA c : ToolUse(c.id, c.name, Parsed(c.text)), ToolUses(m.parts))
    OBVIOUS
  <2> QED
    BY <1>2, <2>1, ChatCallsTraffic
<1>8. CASE m.role = "tool"
  <2>1. r.content = <<ToolResult(m.id, t)>>
    BY <1>3, <1>4, <1>8 DEF FromIncomingMessage
  <2>2. TrafficBy("tool_use")[r.content] = <<>> /\ TrafficBy("tool_result")[r.content] = << <<m.id, t>> >>
    BY <1>2, <2>1, OneResultTraffic
  <2>3. Bears(u, "tool_result", r)
    BY <1>4, <1>8 DEF Bears, IsTurn, IsSystem
  <2>4. PassedPart(u, "tool_result", r) = << <<m.id, t>> >> /\ PassedPart(u, "tool_use", r) = <<>>
    BY <2>2, <2>3, BearsIs
  <2> QED
    BY <1>1, <1>3, <1>4, <1>8, <2>4 DEF Forwards, CallPart, CallersOf, ResultPart
<1>9. CASE m.role = "assistant"
  <2>1. r.content = some \o calls
    BY <1>3, <1>4, <1>5, <1>6, <1>7, <1>9 DEF FromIncomingMessage
  <2>2. ASSUME NEW kind \in Kinds PROVE TrafficBy(kind)[r.content] = TrafficBy(kind)[calls]
    <3>1. TrafficBy(kind)[some \o calls] = TrafficBy(kind)[some] \o TrafficBy(kind)[calls]
      BY TrafficSum
    <3>2. TrafficBy(kind)[calls] \in Seq(Pairs)
      BY TrafficSum
    <3>3. <<>> \o TrafficBy(kind)[calls] = TrafficBy(kind)[calls]
      BY <3>2, ConcatEmptySeq
    <3> QED
      BY <1>6, <2>1, <3>1, <3>3
  <2>3. /\ TrafficBy("tool_use")[r.content] = Reads("tool_use", CallIn)[m.parts]
        /\ TrafficBy("tool_result")[r.content] = <<>>
    BY <1>7, <2>2 DEF Kinds
  <2>4. Bears(u, "tool_use", r)
    BY <1>4, <1>9 DEF Bears, IsTurn, IsSystem
  <2>5. /\ PassedPart(u, "tool_use", r) = Reads("tool_use", CallIn)[m.parts]
        /\ PassedPart(u, "tool_result", r) = <<>>
    BY <2>3, <2>4, BearsIs
  <2> QED
    BY <1>1, <1>4, <1>9, <2>5 DEF Forwards, CallPart, CallersOf, CallsRead, ResultPart
<1>10. CASE m.role \notin {"tool", "assistant"}
  <2>1. r.content = said
    BY <1>3, <1>4, <1>5, <1>10 DEF FromIncomingMessage
  <2>2. \A kind \in Kinds : TrafficBy(kind)[r.content] = <<>>
    BY <1>5, <2>1, SilentTraffic
  <2>3. PassedPart(u, "tool_use", r) = <<>> /\ PassedPart(u, "tool_result", r) = <<>>
    BY <2>2, BearsIs DEF Kinds
  <2>4. m.role # "model"
    BY <1>2 DEF Roles
  <2> QED
    BY <1>1, <1>4, <1>10, <2>3, <2>4 DEF Forwards, CallPart, CallersOf, ResultPart
<1> QED
  BY <1>8, <1>9, <1>10

LEMMA InputSends ==
    ASSUME NEW u, NEW m \in Heeded("OpenAI-Responses")
    PROVE  Forwards("OpenAI-Responses", u, m, FromInput(m))
<1>1. PICK t \in Text : t = Joined(Texts(m.parts))
  BY HeededIs, SaidText
<1>2. PICK r : r = FromInput(m) /\ r.content = <<TextPart(t)>>
  <2>1. FromInput(m).content = <<TextPart(t)>>
    BY <1>1 DEF FromInput
  <2> QED
    BY <2>1
<1>3. \A kind \in Kinds : TrafficBy(kind)[r.content] = <<>>
  BY <1>2, TextTraffic
<1>4. PassedPart(u, "tool_use", r) = <<>> /\ PassedPart(u, "tool_result", r) = <<>>
  BY <1>3, BearsIs DEF Kinds
<1> QED
  BY <1>2, <1>4 DEF Forwards, CallPart, CallersOf, ResultPart

LEMMA AnthropicSends ==
    ASSUME NEW u, NEW m \in Heeded("Anthropic-Messages")
    PROVE  Forwards("Anthropic-Messages", u, m, FromAnthropicMessage(m))
<1>1. PICK client : client = "Anthropic-Messages"
  OBVIOUS
<1>2. PICK s \in Seq(BodyPart) : s = m.parts /\ m.role \in {"user", "assistant"}
  BY HeededIs DEF RolesOf
<1>3. PICK r : r = FromAnthropicMessage(m) /\ r.role = m.role /\ r.content = Filter(s, LAMBDA c : c.type # "image")
  <2>1. /\ FromAnthropicMessage(m).role = m.role
        /\ FromAnthropicMessage(m).content = Filter(s, LAMBDA c : c.type # "image")
    BY <1>2 DEF FromAnthropicMessage
  <2> QED
    BY <2>1
<1>4. PICK Q : Q = {p \in BodyPart : p.type # "image"}
  OBVIOUS
<1>5. r.content = Only(s, Q)
  <2>1. \A i \in DOMAIN s : s[i] \in BodyPart
    OBVIOUS
  <2>2. {i \in DOMAIN s : s[i].type # "image"} = {i \in DOMAIN s : s[i] \in Q}
    BY <1>4, <2>1
  <2> QED
    BY <1>3, <2>2 DEF Filter, Only
<1>6. ASSUME NEW kind \in Kinds PROVE TrafficBy(kind)[Only(s, Q)] = TrafficBy(kind)[s]
  <2>1. \A p \in BodyPart : p.type = kind => p \in Q
    BY <1>4 DEF Kinds
  <2> QED
    BY <2>1, TrafficKept
<1>7. \A kind \in Kinds : TrafficBy(kind)[r.content] = TrafficBy(kind)[m.parts]
  BY <1>2, <1>5, <1>6
<1>8. IsTurn(r) /\ r.role # "tool"
  BY <1>2, <1>3 DEF IsTurn, IsSystem
<1>9. CASE u = "Gemini"
  <2>1. \A kind \in Kinds : PassedPart(u, kind, r) = TrafficBy(kind)[m.parts]
    BY <1>7, <1>8, <1>9 DEF PassedPart, Bears
  <2> QED
    BY <1>1, <1>3, <1>9, <2>1 DEF Forwards, CallPart, CallersOf, CallsRead, ResultPart, Kinds
<1>10. CASE u # "Gemini"
  <2>1. PassedPart(u, "tool_result", r) = <<>>
    BY <1>8, <1>10 DEF PassedPart, Bears
  <2>2. PassedPart(u, "tool_use", r) = IF m.role = "assistant" THEN TrafficBy("tool_use")[m.parts] ELSE <<>>
    BY <1>3, <1>7, <1>10 DEF PassedPart, Bears, Kinds
  <2> QED
    BY <1>1, <1>2, <1>3, <1>10, <2>1, <2>2 DEF Forwards, CallPart, CallersOf, CallsRead, ResultPart
<1> QED
  BY <1>9, <1>10

(* What a Gemini client gives: its results name no call.                    *)
LEMMA GeminiReads ==
    ASSUME NEW n, Drawn[n] \in Ids, NEW f,
           f = [c \in BodyPart |-> CASE IsToolUse(c)    -> ToolUse(Drawn[n], c.name, c.text)
                                     [] IsToolResult(c) -> ToolResult(NoId, c.text)
                                     [] OTHER           -> c]
    PROVE  /\ Maps(f, BodyPart, BodyPart)
           /\ \A s \in Seq(BodyPart) :
                 /\ TrafficBy("tool_use")[Through(f, s)] = TrafficBy("tool_use")[s]
                 /\ TrafficBy("tool_result")[Through(f, s)] = Reads("tool_result", NamelessIn)[s]
<1>1. ASSUME NEW x \in BodyPart
      PROVE  /\ f[x] \in BodyPart
             /\ TrafficOf("tool_use", f[x]) = TrafficOf("tool_use", x)
             /\ TrafficOf("tool_result", f[x]) = ReadOne("tool_result", NamelessIn)[x]
  <2>1. x.name \in Tools \cup {NoTool} /\ x.text \in Text /\ NoId \in Ids
    BY MessagesConfig DEF BodyPart
  <2>2. Part \subseteq BodyPart
    BY DEF Part, BodyPart
  <2>3. PICK y : y = f[x]
    OBVIOUS
  <2>4. CASE IsToolUse(x)
    <3>1. y = ToolUse(Drawn[n], x.name, x.text)
      BY <2>3, <2>4 DEF IsToolUse, IsToolResult
    <3>2. y \in BodyPart
      BY <2>1, <2>2, <3>1, PartsAre
    <3>3. y.type = "tool_use" /\ y.name = x.name /\ y.text = x.text
      BY <3>1 DEF ToolUse
    <3> QED
      BY <2>3, <2>4, <3>2, <3>3 DEF TrafficOf, PairOf, ReadOne, IsToolUse
  <2>5. CASE IsToolResult(x)
    <3>1. y = ToolResult(NoId, x.text)
      BY <2>3, <2>5 DEF IsToolUse, IsToolResult
    <3>2. y \in BodyPart
      <4>1. NoTool \in Tools \cup {NoTool}
        OBVIOUS
      <4>2. ToolResult(NoId, x.text) \in Part
        BY <2>1, <4>1, PartsAre
      <4> QED
        BY <2>2, <3>1, <4>2
    <3>3. y.type = "tool_result" /\ y.id = NoId /\ y.text = x.text
      BY <3>1 DEF ToolResult
    <3> QED
      BY <2>3, <2>5, <3>2, <3>3 DEF TrafficOf, PairOf, ReadOne, NamelessIn, IsToolResult
  <2>6. CASE ~IsToolUse(x) /\ ~IsToolResult(x)
    <3>1. y = x
      BY <2>3, <2>6
    <3> QED
      BY <2>3, <2>6, <3>1 DEF TrafficOf, ReadOne, IsToolUse, IsToolResult
  <2> QED
    BY <2>4, <2>5, <2>6
<1>2. Maps(f, BodyPart, BodyPart)
  BY <1>1 DEF Maps
<1>3. \A s \in Seq(BodyPart) : TrafficBy("tool_use")[Through(f, s)] = TrafficBy("tool_use")[s]
  BY <1>1, <1>2, TrafficThrough
<1>4. PICK H, h : H = Reads("tool_result", NamelessIn) /\ h = ReadOne("tool_result", NamelessIn)
  OBVIOUS
<1>5. Joins(BodyPart, Seq(Pairs), H, h)
  BY <1>4, OthersRead, ReadsJoins
<1>6. \A x \in BodyPart : h[x] = TrafficOne("tool_result")[f[x]]
  BY <1>1, <1>4 DEF TrafficOne
<1>7. \A s \in Seq(BodyPart) : TrafficBy("tool_result")[Through(f, s)] = H[s]
  BY <1>2, <1>5, <1>6, TrafficJoins, ThroughLike
<1> QED
  BY <1>2, <1>3, <1>4, <1>7

LEMMA GeminiSends ==
    ASSUME NEW u, NEW m \in Heeded("Gemini-GenerateContent"), NEW n, Drawn[n] \in Ids
    PROVE  Forwards("Gemini-GenerateContent", u, m, FromGeminiContent(m, n))
<1>1. PICK client : client = "Gemini-GenerateContent"
  OBVIOUS
<1>2. PICK s \in Seq(BodyPart) : s = m.parts /\ m.role \in {"user", "model"}
  BY HeededIs DEF RolesOf
<1> DEFINE From(c) == CASE IsToolUse(c)    -> ToolUse(Drawn[n], c.name, c.text)
                        [] IsToolResult(c) -> ToolResult(NoId, c.text)
                        [] OTHER           -> c
<1>3. PICK f, Q : f = [c \in BodyPart |-> From(c)] /\ Q = {p \in BodyPart : p.type \notin {"image", "thinking"}}
  OBVIOUS
<1>4. PICK q \in Seq(BodyPart) : q = Filter(s, LAMBDA c : c.type \notin {"image", "thinking"}) /\ q = Only(s, Q)
  <2>1. \A i \in DOMAIN s : s[i] \in BodyPart
    OBVIOUS
  <2>2. {i \in DOMAIN s : s[i].type \notin {"image", "thinking"}} = {i \in DOMAIN s : s[i] \in Q}
    BY <1>3, <2>1
  <2>3. Filter(s, LAMBDA c : c.type \notin {"image", "thinking"}) = Only(s, Q)
    BY <2>2 DEF Filter, Only
  <2> QED
    BY <2>3, OnlySub
<1>5. PICK r : /\ r = FromGeminiContent(m, n) /\ r.content = Mapped(From, q)
               /\ r.role = IF m.role = "model" THEN "assistant" ELSE "user"
  <2>1. /\ FromGeminiContent(m, n).content = Mapped(From, q)
        /\ FromGeminiContent(m, n).role = IF m.role = "model" THEN "assistant" ELSE "user"
    BY <1>2, <1>4 DEF FromGeminiContent
  <2> QED
    BY <2>1
<1>6. r.content = Through(f, q)
  <2>1. \A i \in DOMAIN q : q[i] \in BodyPart
    OBVIOUS
  <2> QED
    BY <1>3, <1>5, <2>1 DEF Mapped, Through
<1>7. /\ TrafficBy("tool_use")[Through(f, q)] = TrafficBy("tool_use")[q]
      /\ TrafficBy("tool_result")[Through(f, q)] = Reads("tool_result", NamelessIn)[q]
  BY <1>3, GeminiReads
<1>8. TrafficBy("tool_use")[q] = TrafficBy("tool_use")[s]
  <2>1. \A p \in BodyPart : p.type = "tool_use" => p \in Q
    BY <1>3
  <2>2. TrafficBy("tool_use")[Only(s, Q)] = TrafficBy("tool_use")[s]
    BY <2>1, TrafficKept
  <2> QED
    BY <1>4, <2>2
<1>9. Reads("tool_result", NamelessIn)[q] = Reads("tool_result", NamelessIn)[s]
  <2>1. PICK H, h : H = Reads("tool_result", NamelessIn) /\ h = ReadOne("tool_result", NamelessIn)
    OBVIOUS
  <2>2. Joins(BodyPart, Seq(Pairs), H, h)
    BY <2>1, OthersRead, ReadsJoins
  <2>3. \A p \in BodyPart : p \notin Q => h[p] = <<>>
    BY <1>3, <2>1 DEF ReadOne
  <2>4. \A x \in Seq(BodyPart) : H[Only(x, Q)] = H[x]
    BY <2>2, <2>3, OnlySame
  <2> QED
    BY <1>4, <2>1, <2>4
<1>10. /\ TrafficBy("tool_use")[r.content] = TrafficBy("tool_use")[m.parts]
       /\ TrafficBy("tool_result")[r.content] = Reads("tool_result", NamelessIn)[m.parts]
  BY <1>2, <1>6, <1>7, <1>8, <1>9
<1>11. IsTurn(r) /\ r.role # "tool"
  BY <1>5 DEF IsTurn, IsSystem
<1>12. CASE u = "Gemini"
  <2>1. /\ PassedPart(u, "tool_use", r) = TrafficBy("tool_use")[m.parts]
        /\ PassedPart(u, "tool_result", r) = Reads("tool_result", NamelessIn)[m.parts]
    BY <1>10, <1>11, <1>12 DEF PassedPart, Bears
  <2> QED
    BY <1>1, <1>5, <1>12, <2>1 DEF Forwards, CallPart, CallersOf, CallsRead, ResultPart
<1>13. CASE u # "Gemini"
  <2>1. PassedPart(u, "tool_result", r) = <<>>
    BY <1>11, <1>13 DEF PassedPart, Bears
  <2>2. PassedPart(u, "tool_use", r) = IF m.role = "model" THEN TrafficBy("tool_use")[m.parts] ELSE <<>>
    BY <1>5, <1>10, <1>13 DEF PassedPart, Bears
  <2> QED
    BY <1>1, <1>2, <1>5, <1>13, <2>1, <2>2 DEF Forwards, CallPart, CallersOf, CallsRead, ResultPart
<1> QED
  BY <1>12, <1>13

-----------------------------------------------------------------------------
(* What the messages of a client's body give to be passed on.              *)
CallGiven(c, u)    == [m \in Heeded(c) |-> CallPart(c, u, m)]
ResultGiven(c, u)  == [m \in Heeded(c) |-> ResultPart(c, u, m)]
HandedCalls(c, u)   == AmongBy(Heeded(c), SentBy(Heeded(c), CallsRead(c)), CallersOf(c, u))
HandedResults(c, u) == AllOf(ResultGiven(c, u), Heeded(c))

LEMMA CallsReadJoin ==
    ASSUME NEW c
    PROVE  \E j : Joins(BodyPart, Seq(Pairs), CallsRead(c), j)
<1>1. CASE c = "OpenAI-Chat"
  <2>1. Joins(BodyPart, Seq(Pairs), Reads("tool_use", CallIn), ReadOne("tool_use", CallIn))
    BY OthersRead, ReadsJoins
  <2> QED
    BY <1>1, <2>1 DEF CallsRead
<1>2. CASE c # "OpenAI-Chat"
  BY <1>2, TrafficJoins DEF CallsRead
<1> QED
  BY <1>1, <1>2

LEMMA CallsGivenJoin ==
    ASSUME NEW c, NEW u
    PROVE  Joins(Heeded(c), Seq(Pairs), HandedCalls(c, u), CallGiven(c, u))
<1>1. PICK S, J, Q : S = Heeded(c) /\ J = CallsRead(c) /\ Q = CallersOf(c, u)
  OBVIOUS
<1>2. PICK j : Joins(BodyPart, Seq(Pairs), J, j)
  BY <1>1, CallsReadJoin
<1>3. \A m \in S : m.parts \in Seq(BodyPart)
  BY <1>1, HeededIs
<1>4. Joins(S, Seq(Pairs), SentBy(S, J), SentOne(S, J))
  BY <1>2, <1>3, SentJoins
<1>5. Joins(S, Seq(Pairs), AmongBy(S, SentBy(S, J), Q), AmongOne(S, SentOne(S, J), Q))
  BY <1>4, AmongJoins
<1>6. AmongOne(S, SentOne(S, J), Q) = CallGiven(c, u)
  BY <1>1 DEF AmongOne, SentOne, CallGiven, CallPart
<1> QED
  BY <1>1, <1>5, <1>6 DEF HandedCalls

LEMMA ResultIsPairs ==
    ASSUME NEW c, NEW u, NEW m \in Heeded(c) PROVE ResultPart(c, u, m) \in Seq(Pairs)
<1>1. PICK s \in Seq(BodyPart) : s = m.parts
  BY HeededIs
<1>2. TrafficBy("tool_result")[s] \in Seq(Pairs)
  BY TrafficSum
<1>3. Reads("tool_result", NamelessIn)[s] \in Seq(Pairs)
  <2>1. Joins(BodyPart, Seq(Pairs), Reads("tool_result", NamelessIn), ReadOne("tool_result", NamelessIn))
    BY OthersRead, ReadsJoins
  <2> QED
    BY <2>1 DEF Joins
<1>4. << <<m.id, Said(s)>> >> \in Seq(Pairs)
  <2>1. <<m.id, Said(s)>> \in Pairs
    BY <1>1, HeededIs DEF Pairs
  <2> QED
    BY <2>1, OneIn
<1>5. <<>> \in Seq(Pairs)
  BY EmptySeq
<1> QED
  BY <1>1, <1>2, <1>3, <1>4, <1>5 DEF ResultPart

LEMMA ResultsGivenJoin ==
    ASSUME NEW c, NEW u
    PROVE  Joins(Heeded(c), Seq(Pairs), HandedResults(c, u), ResultGiven(c, u))
<1>1. PICK A, f : A = Seq(Pairs) /\ f = ResultGiven(c, u)
  OBVIOUS
<1>2. Strings(A)
  BY <1>1, SeqStrings
<1>3. Maps(f, Heeded(c), A)
  BY <1>1, ResultIsPairs DEF Maps, ResultGiven
<1>4. Joins(Heeded(c), A, AllOf(f, Heeded(c)), f)
  BY <1>2, <1>3, AllJoins
<1> QED
  BY <1>1, <1>4 DEF HandedResults

(* Messages that give what is passed on of them. *)
Gives(c, u, s, q) ==
    /\ q \in Seq(Speech)
    /\ PassedBy(u, "tool_use")[q] = HandedCalls(c, u)[s]
    /\ PassedBy(u, "tool_result")[q] = HandedResults(c, u)[s]

LEMMA AllSent ==
    ASSUME NEW c, NEW u, NEW s \in Seq(Heeded(c)), NEW F, Maps(F, Heeded(c), Speech),
           \A m \in Heeded(c) : Forwards(c, u, m, F[m])
    PROVE  Gives(c, u, s, Through(F, s))
<1>1. PICK S, A : S = Heeded(c) /\ A = Seq(Pairs)
  OBVIOUS
<1>2. PICK H, h, K, k : /\ H = PassedBy(u, "tool_use") /\ h = PassedOne(u, "tool_use")
                        /\ K = PassedBy(u, "tool_result") /\ k = PassedOne(u, "tool_result")
  OBVIOUS
<1>3. Joins(Speech, A, H, h) /\ Joins(Speech, A, K, k)
  BY <1>1, <1>2, PassedJoins
<1>4. PICK G, g, R, t : /\ G = HandedCalls(c, u) /\ g = CallGiven(c, u)
                        /\ R = HandedResults(c, u) /\ t = ResultGiven(c, u)
  OBVIOUS
<1>5. Joins(S, A, G, g) /\ Joins(S, A, R, t)
  BY <1>1, <1>4, CallsGivenJoin, ResultsGivenJoin
<1>6. ASSUME NEW m \in S PROVE g[m] = h[F[m]] /\ t[m] = k[F[m]]
  <2>1. F[m] \in Speech /\ Forwards(c, u, m, F[m])
    BY <1>1 DEF Maps
  <2> QED
    BY <1>1, <1>2, <1>4, <2>1 DEF Forwards, CallGiven, ResultGiven, PassedOne
<1>7. \A q \in Seq(S) : H[Through(F, q)] = G[q]
  BY <1>1, <1>3, <1>5, <1>6, ThroughLike
<1>8. \A q \in Seq(S) : K[Through(F, q)] = R[q]
  BY <1>1, <1>3, <1>5, <1>6, ThroughLike
<1>9. Through(F, s) \in Seq(Speech)
  BY ThroughIs
<1> QED
  BY <1>1, <1>2, <1>4, <1>7, <1>8, <1>9 DEF Gives

(* A system message has nothing to pass on. *)
LEMMA SystemPassesNothing ==
    ASSUME NEW u, NEW kind, NEW body, body.system \in Seq(Text)
    PROVE  PassedBy(u, kind)[SystemMessage(body)] = <<>>
<1>1. PICK H, h : H = PassedBy(u, kind) /\ h = PassedOne(u, kind) /\ Joins(Speech, Seq(Pairs), H, h)
  BY PassedJoins
<1>2. H[<<>>] = <<>> /\ <<>> \in Seq(Speech)
  BY <1>1, EmptySeq DEF Joins
<1>3. CASE SystemMessage(body) = <<>>
  BY <1>1, <1>2, <1>3
<1>4. CASE SystemMessage(body) # <<>>
  <2>1. PICK m : SystemMessage(body) = <<m>> /\ m.role = "system"
    BY <1>4 DEF SystemMessage
  <2>2. m \in Speech
    <3>1. PICK y \in Seq(Speech) : y = <<m>>
      BY <2>1, SystemSpeaks
    <3>2. y[1] = m /\ 1 \in DOMAIN y
      BY <3>1
    <3> QED
      BY <3>1, <3>2
  <2>3. h[m] = <<>>
    BY <1>1, <2>1, <2>2 DEF PassedOne, PassedPart, Bears, IsTurn, IsSystem
  <2>4. PICK n \in Seq(Speech) : n = <<>>
    BY <1>2
  <2>7. Append(n, m) = <<m>>
    BY <2>4
  <2>5. H[Append(n, m)] = H[n] \o h[m]
    BY <1>1, <2>2 DEF Joins
  <2>6. <<>> \o <<>> = <<>>
    OBVIOUS
  <2> QED
    BY <1>1, <1>2, <2>1, <2>3, <2>4, <2>5, <2>6, <2>7
<1> QED
  BY <1>3, <1>4

LEMMA AfterSystemGives ==
    ASSUME NEW c, NEW u, NEW body, body.system \in Seq(Text), NEW s, NEW q, Gives(c, u, s, q)
    PROVE  Gives(c, u, s, SystemMessage(body) \o q)
<1>1. PICK y \in Seq(Speech), x \in Seq(Speech) : y = SystemMessage(body) /\ x = q
  BY SystemSpeaks DEF Gives
<1>2. y \o x \in Seq(Speech)
  BY ConcatProperties
<1>3. ASSUME NEW kind PROVE PassedBy(u, kind)[y \o x] = PassedBy(u, kind)[x]
  <2>1. Joins(Speech, Seq(Pairs), PassedBy(u, kind), PassedOne(u, kind))
    BY PassedJoins
  <2>2. Adds(PassedBy(u, kind), y, x)
    BY <2>1, JoinsJoined
  <2>3. PassedBy(u, kind)[x] \in Seq(Pairs)
    BY <2>1 DEF Joins
  <2>4. <<>> \o PassedBy(u, kind)[x] = PassedBy(u, kind)[x]
    BY <2>3, ConcatEmptySeq
  <2>5. PassedBy(u, kind)[y] = <<>>
    BY <1>1, SystemPassesNothing
  <2> QED
    BY <2>2, <2>4, <2>5 DEF Adds
<1> QED
  BY <1>1, <1>2, <1>3 DEF Gives

LEMMA ParsedGives ==
    ASSUME NEW r \in Requests, NEW n \in 1..MaxExchanges, NEW u
    PROVE  Gives(r.client, u, r.body.messages, ParseIncomingRequest(r.client, r.body, n).messages)
<1>1. PICK c, body, s : c = r.client /\ body = r.body /\ s = body.messages
  OBVIOUS
<1>2. /\ c \in ClientProtocols /\ body.system \in Seq(Text) /\ s \in Seq(Heeded(c))
  BY <1>1, BodiesAre
<1>3. \A i \in DOMAIN s : s[i] \in Heeded(c)
  BY <1>2
<1>4. CASE c = "OpenAI-Chat"
  <2>1. PICK F : F = [m \in Heeded(c) |-> FromIncomingMessage(m)]
    OBVIOUS
  <2>2. Maps(F, Heeded(c), Speech)
    BY <1>4, <2>1, ChatConveys DEF Maps, Conveyed
  <2>3. \A m \in Heeded(c) : Forwards(c, u, m, F[m])
    BY <1>4, <2>1, ChatSends
  <2>4. Gives(c, u, s, Through(F, s))
    BY <1>2, <2>2, <2>3, AllSent
  <2>5. ParseIncomingRequest(c, body, n).messages = Through(F, s)
    <3>1. Mapped(FromIncomingMessage, s) = Through(F, s)
      BY <1>3, <2>1 DEF Mapped, Through
    <3> QED
      BY <1>1, <1>4, <3>1 DEF ParseIncomingRequest, ParseChat, Parse
  <2> QED
    BY <1>1, <2>4, <2>5
<1>5. CASE c = "OpenAI-Responses"
  <2>1. PICK F : F = [m \in Heeded(c) |-> FromInput(m)]
    OBVIOUS
  <2>2. Maps(F, Heeded(c), Speech)
    BY <1>5, <2>1, InputConveys DEF Maps, Conveyed
  <2>3. \A m \in Heeded(c) : Forwards(c, u, m, F[m])
    BY <1>5, <2>1, InputSends
  <2>4. Gives(c, u, s, Through(F, s))
    BY <1>2, <2>2, <2>3, AllSent
  <2>5. ParseIncomingRequest(c, body, n).messages = SystemMessage(body) \o Through(F, s)
    <3>1. Mapped(FromInput, s) = Through(F, s)
      BY <1>3, <2>1 DEF Mapped, Through
    <3> QED
      BY <1>1, <1>5, <3>1 DEF ParseIncomingRequest, ParseResponses, Parse
  <2> QED
    BY <1>1, <1>2, <2>4, <2>5, AfterSystemGives
<1>6. CASE c = "Anthropic-Messages"
  <2>1. PICK F : F = [m \in Heeded(c) |-> FromAnthropicMessage(m)]
    OBVIOUS
  <2>2. Maps(F, Heeded(c), Speech)
    BY <1>6, <2>1, AnthropicConveys DEF Maps, Conveyed
  <2>3. \A m \in Heeded(c) : Forwards(c, u, m, F[m])
    BY <1>6, <2>1, AnthropicSends
  <2>4. Gives(c, u, s, Through(F, s))
    BY <1>2, <2>2, <2>3, AllSent
  <2>5. ParseIncomingRequest(c, body, n).messages = SystemMessage(body) \o Through(F, s)
    <3>1. Mapped(FromAnthropicMessage, s) = Through(F, s)
      BY <1>3, <2>1 DEF Mapped, Through
    <3> QED
      BY <1>1, <1>6, <3>1 DEF ParseIncomingRequest, ParseMessages, Parse
  <2> QED
    BY <1>1, <1>2, <2>4, <2>5, AfterSystemGives
<1>7. CASE c = "Gemini-GenerateContent"
  <2>0. Drawn[n] \in Ids
    BY ExchangeConfig
  <2>1. PICK F : F = [m \in Heeded(c) |-> FromGeminiContent(m, n)]
    OBVIOUS
  <2>2. Maps(F, Heeded(c), Speech)
    BY <1>7, <2>0, <2>1, GeminiConveys DEF Maps, Conveyed
  <2>3. \A m \in Heeded(c) : Forwards(c, u, m, F[m])
    BY <1>7, <2>0, <2>1, GeminiSends
  <2>4. Gives(c, u, s, Through(F, s))
    BY <1>2, <2>2, <2>3, AllSent
  <2>5. ParseIncomingRequest(c, body, n).messages = SystemMessage(body) \o Through(F, s)
    <3>1. Mapped(LAMBDA m : FromGeminiContent(m, n), s) = Through(F, s)
      BY <1>3, <2>1 DEF Mapped, Through
    <3> QED
      BY <1>1, <1>7, <3>1 DEF ParseIncomingRequest, ParseGenerate, Parse
  <2> QED
    BY <1>1, <1>2, <2>4, <2>5, AfterSystemGives
<1> QED
  BY <1>2, <1>4, <1>5, <1>6, <1>7 DEF ClientProtocols

-----------------------------------------------------------------------------
(* What the property names is what is given.                               *)
LEMMA CallsMadeAre ==
    ASSUME NEW r \in Requests, asked = <<r>>
    PROVE  CallsMade = HandedCalls(r.client, upstream)[r.body.messages]
<1>1. PICK c, u, S : c = r.client /\ u = upstream /\ S = Heeded(c)
  OBVIOUS
<1>2. PICK s \in Seq(S) : s = r.body.messages
  BY <1>1, BodiesAre
<1>3. \A i \in DOMAIN s : s[i] \in S
  BY <1>2
<1>4. PICK Q : Q = CallersOf(c, u)
  OBVIOUS
<1>5. PICK q \in Seq(S) : q = Only(s, Q) /\ q = Filter(asked[1].body.messages, MayCall)
  <2>1. asked[1] = r
    OBVIOUS
  <2>2. ASSUME NEW i \in DOMAIN s PROVE MayCall(s[i]) <=> s[i] \in Q
    BY <1>1, <1>3, <1>4, <2>1 DEF MayCall, CallersOf
  <2>3. {i \in DOMAIN s : MayCall(s[i])} = {i \in DOMAIN s : s[i] \in Q}
    BY <2>2
  <2>4. Filter(s, MayCall) = Only(s, Q)
    BY <2>3 DEF Filter, Only
  <2>5. Only(s, Q) \in Seq(S)
    BY OnlySub
  <2> QED
    BY <1>2, <2>1, <2>4, <2>5
<1>6. PICK J, j : J = CallsRead(c) /\ Joins(BodyPart, Seq(Pairs), J, j)
  BY CallsReadJoin
<1>7. \A m \in S : m.parts \in Seq(BodyPart)
  BY <1>1, HeededIs
<1>8. PICK p \in Seq(BodyPart) : p = PartsOf(q) /\ J[p] = SentBy(S, J)[q]
  BY <1>6, <1>7, PartsSent
<1>9. CallsMade = J[p]
  <2>1. CASE c = "OpenAI-Chat"
    <3>1. CallsMade = Mapped(LAMBDA x : <<x.name, Parsed(x.text)>>, ToolUses(p))
      BY <1>1, <1>5, <1>8, <2>1 DEF CallsMade, Mapped
    <3>2. Mapped(LAMBDA x : <<x.name, Parsed(x.text)>>, ToolUses(p)) = Reads("tool_use", CallIn)[p]
      BY TrafficIs
    <3> QED
      BY <1>6, <2>1, <3>1, <3>2 DEF CallsRead
  <2>2. CASE c # "OpenAI-Chat"
    <3>1. CallsMade = Mapped(LAMBDA x : <<x.name, x.text>>, ToolUses(p))
      BY <1>1, <1>5, <1>8, <2>2 DEF CallsMade, Mapped
    <3>2. Mapped(LAMBDA x : <<x.name, x.text>>, ToolUses(p)) = TrafficBy("tool_use")[p]
      BY TrafficIs
    <3> QED
      BY <1>6, <2>2, <3>1, <3>2 DEF CallsRead
  <2> QED
    BY <2>1, <2>2
<1>10. HandedCalls(c, u)[s] = SentBy(S, J)[q]
  BY <1>1, <1>4, <1>5, <1>6 DEF HandedCalls, AmongBy
<1> QED
  BY <1>1, <1>2, <1>8, <1>9, <1>10

-----------------------------------------------------------------------------
LEMMA ChatResults ==
    ASSUME NEW u, NEW s \in Seq(Heeded("OpenAI-Chat"))
    PROVE  Mapped(LAMBDA m : <<m.id, Joined(Texts(m.parts))>>, Filter(s, LAMBDA m : m.role = "tool"))
              = HandedResults("OpenAI-Chat", u)[s]
<1>1. PICK c, S : c = "OpenAI-Chat" /\ S = Heeded(c)
  OBVIOUS
<1>2. PICK f, Q : f = [m \in S |-> <<m.id, Said(m.parts)>>] /\ Q = {m \in S : m.role = "tool"}
  OBVIOUS
<1>3. Maps(f, S, Pairs)
  BY <1>1, <1>2, HeededIs DEF Maps, Pairs
<1>4. PICK q \in Seq(S) : q = Only(s, Q) /\ q = Filter(s, LAMBDA m : m.role = "tool")
  <2>1. \A i \in DOMAIN s : s[i] \in S
    BY <1>1
  <2>2. {i \in DOMAIN s : s[i].role = "tool"} = {i \in DOMAIN s : s[i] \in Q}
    BY <1>2, <2>1
  <2>3. Filter(s, LAMBDA m : m.role = "tool") = Only(s, Q)
    BY <2>2 DEF Filter, Only
  <2> QED
    BY <1>1, <2>3, OnlySub
<1>5. Mapped(LAMBDA m : <<m.id, Joined(Texts(m.parts))>>, q) = Through(f, q)
  <2>1. \A i \in DOMAIN q : q[i] \in S
    OBVIOUS
  <2> QED
    BY <1>2, <2>1 DEF Mapped, Through, Said
<1>6. PICK H, h : H = Each(f, S) /\ h = [m \in S |-> <<f[m]>>] /\ Joins(S, Seq(Pairs), H, h)
  BY <1>3, EachJoins
<1>7. Joins(S, Seq(Pairs), AmongBy(S, H, Q), AmongOne(S, h, Q))
  BY <1>6, AmongJoins
<1>8. AmongOne(S, h, Q) = ResultGiven(c, u)
  BY <1>1, <1>2, <1>6 DEF AmongOne, ResultGiven, ResultPart
<1>9. Joins(S, Seq(Pairs), HandedResults(c, u), ResultGiven(c, u))
  BY <1>1, ResultsGivenJoin
<1>10. AmongBy(S, H, Q)[s] = HandedResults(c, u)[s]
  BY <1>1, <1>7, <1>8, <1>9, JoinsSame
<1>11. AmongBy(S, H, Q)[s] = Through(f, q)
  BY <1>1, <1>4, <1>6 DEF AmongBy, Each
<1> QED
  BY <1>1, <1>4, <1>5, <1>10, <1>11

GivesRead(c, u, J) == \A m \in Heeded(c) : ResultPart(c, u, m) = J[m.parts]

LEMMA PartResults ==
    ASSUME NEW c, NEW u, NEW s \in Seq(Heeded(c)), NEW J, NEW j, Joins(BodyPart, Seq(Pairs), J, j),
           GivesRead(c, u, J)
    PROVE  PartsOf(s) \in Seq(BodyPart) /\ J[PartsOf(s)] = HandedResults(c, u)[s]
<1>1. PICK S : S = Heeded(c)
  OBVIOUS
<1>2. \A m \in S : m.parts \in Seq(BodyPart)
  BY <1>1, HeededIs
<1>3. PartsOf(s) \in Seq(BodyPart) /\ J[PartsOf(s)] = SentBy(S, J)[s]
  BY <1>1, <1>2, PartsSent
<1>4. SentOne(S, J) = ResultGiven(c, u)
  BY <1>1 DEF SentOne, ResultGiven, GivesRead
<1> QED
  BY <1>1, <1>3, <1>4 DEF SentBy, HandedResults

LEMMA NoResults ==
    ASSUME NEW c, NEW u, NEW s \in Seq(Heeded(c)), \A m \in Heeded(c) : ResultPart(c, u, m) = <<>>
    PROVE  HandedResults(c, u)[s] = <<>>
<1>1. PICK S, K, k : S = Heeded(c) /\ K = [q \in Seq(S) |-> <<>>] /\ k = [m \in S |-> <<>>]
  OBVIOUS
<1>2. Joins(S, Seq(Pairs), K, k)
  BY <1>1, SeqStrings, SilentJoins
<1>3. k = ResultGiven(c, u)
  BY <1>1 DEF ResultGiven
<1>4. Joins(S, Seq(Pairs), HandedResults(c, u), ResultGiven(c, u))
  BY <1>1, ResultsGivenJoin
<1>5. HandedResults(c, u)[s] = K[s]
  BY <1>1, <1>2, <1>3, <1>4, JoinsSame
<1> QED
  BY <1>1, <1>5

LEMMA ResultsGivenAre ==
    ASSUME NEW r \in Requests, asked = <<r>>
    PROVE  ResultsGiven = HandedResults(r.client, upstream)[r.body.messages]
<1>1. PICK c, u, S : c = r.client /\ u = upstream /\ S = Heeded(c)
  OBVIOUS
<1>2. PICK s \in Seq(S) : s = r.body.messages
  BY <1>1, BodiesAre
<1>3. asked[1].client = c /\ asked[1].body.messages = s
  BY <1>1, <1>2
<1>4. CASE c = "OpenAI-Chat"
  <2>1. ResultsGiven = Mapped(LAMBDA m : <<m.id, Joined(Texts(m.parts))>>, Filter(s, LAMBDA m : m.role = "tool"))
    BY <1>3, <1>4 DEF ResultsGiven
  <2>2. Mapped(LAMBDA m : <<m.id, Joined(Texts(m.parts))>>, Filter(s, LAMBDA m : m.role = "tool"))
           = HandedResults(c, u)[s]
    BY <1>1, <1>4, ChatResults
  <2> QED
    BY <1>1, <1>2, <2>1, <2>2
<1>5. CASE c = "Anthropic-Messages" /\ u = "Gemini"
  <2>1. PICK J, j : J = TrafficBy("tool_result") /\ Joins(BodyPart, Seq(Pairs), J, j)
    BY TrafficJoins
  <2>2. GivesRead(c, u, J)
    BY <1>5, <2>1 DEF ResultPart, GivesRead
  <2>3. PartsOf(s) \in Seq(BodyPart) /\ J[PartsOf(s)] = HandedResults(c, u)[s]
    BY <1>1, <2>1, <2>2, PartResults
  <2>4. ResultsGiven = Mapped(LAMBDA p : <<p.id, p.text>>, Results(PartsOf(s)))
    BY <1>1, <1>3, <1>5 DEF ResultsGiven
  <2>5. Mapped(LAMBDA p : <<p.id, p.text>>, Results(PartsOf(s))) = TrafficBy("tool_result")[PartsOf(s)]
    BY <2>3, TrafficIs
  <2> QED
    BY <1>1, <1>2, <2>1, <2>3, <2>4, <2>5
<1>6. CASE c = "Gemini-GenerateContent" /\ u = "Gemini"
  <2>1. PICK J, j : J = Reads("tool_result", NamelessIn) /\ Joins(BodyPart, Seq(Pairs), J, j)
    BY OthersRead, ReadsJoins
  <2>2. GivesRead(c, u, J)
    BY <1>6, <2>1 DEF ResultPart, GivesRead
  <2>3. PartsOf(s) \in Seq(BodyPart) /\ J[PartsOf(s)] = HandedResults(c, u)[s]
    BY <1>1, <2>1, <2>2, PartResults
  <2>4. ResultsGiven = Mapped(LAMBDA p : <<NoId, p.text>>, Results(PartsOf(s)))
    BY <1>1, <1>3, <1>6 DEF ResultsGiven
  <2>5. Mapped(LAMBDA p : <<NoId, p.text>>, Results(PartsOf(s))) = Reads("tool_result", NamelessIn)[PartsOf(s)]
    BY <2>3, TrafficIs
  <2> QED
    BY <1>1, <1>2, <2>1, <2>3, <2>4, <2>5
<1>7. CASE c # "OpenAI-Chat" /\ ~(c = "Anthropic-Messages" /\ u = "Gemini")
           /\ ~(c = "Gemini-GenerateContent" /\ u = "Gemini")
  <2>1. ResultsGiven = <<>>
    BY <1>1, <1>3, <1>7 DEF ResultsGiven
  <2>2. \A m \in S : ResultPart(c, u, m) = <<>>
    BY <1>7 DEF ResultPart
  <2>3. HandedResults(c, u)[s] = <<>>
    BY <1>1, <2>2, NoResults
  <2> QED
    BY <1>1, <1>2, <2>1, <2>3
<1> QED
  BY <1>4, <1>5, <1>6, <1>7

-----------------------------------------------------------------------------
(* The tools, the choice and the options on their way.                     *)
LEMMA ParsedOffers ==
    ASSUME NEW r \in Requests, NEW n,
           NEW q, q = ParseIncomingRequest(r.client, r.body, n)
    PROVE  /\ q.tools = r.body.tools /\ r.body.options \ {"stop"} \subseteq q.options
           /\ q.toolChoice = CASE r.client = "Anthropic-Messages" -> ToIRToolChoice(r.body.toolChoice)
                               [] r.client = "Gemini-GenerateContent" ->
                                     IF r.body.toolChoice \in {"none", "required"} THEN r.body.toolChoice
                                     ELSE "absent"
                               [] OTHER -> r.body.toolChoice
<1>0. r.client \in ClientProtocols
  BY BodiesAre
<1>1. PICK x : x = r.body
  OBVIOUS
<1>2. CASE r.client = "OpenAI-Chat"
  <2>1. q = ParseChat(x)
    BY <1>1, <1>2 DEF ParseIncomingRequest
  <2>2. q.tools = x.tools /\ q.options = x.options /\ q.toolChoice = x.toolChoice
    BY <2>1 DEF ParseChat, Parse
  <2> QED
    BY <1>1, <1>2, <2>2
<1>3. CASE r.client = "OpenAI-Responses"
  <2>1. q = ParseResponses(x)
    BY <1>1, <1>3 DEF ParseIncomingRequest
  <2>2. q.tools = x.tools /\ q.options = x.options \ {"stop"} /\ q.toolChoice = x.toolChoice
    BY <2>1 DEF ParseResponses, Parse
  <2> QED
    BY <1>1, <1>3, <2>2
<1>4. CASE r.client = "Anthropic-Messages"
  <2>1. q = ParseMessages(x)
    BY <1>1, <1>4 DEF ParseIncomingRequest
  <2>2. q.tools = x.tools /\ q.options = x.options /\ q.toolChoice = ToIRToolChoice(x.toolChoice)
    BY <2>1 DEF ParseMessages, Parse
  <2> QED
    BY <1>1, <1>4, <2>2
<1>5. CASE r.client = "Gemini-GenerateContent"
  <2>1. q = ParseGenerate(x, n)
    BY <1>1, <1>5 DEF ParseIncomingRequest
  <2>2. /\ q.tools = x.tools /\ q.options = x.options
        /\ q.toolChoice = IF x.toolChoice \in {"none", "required"} THEN x.toolChoice ELSE "absent"
    BY <2>1 DEF ParseGenerate, Parse
  <2> QED
    BY <1>1, <1>5, <2>2
<1> QED
  BY <1>0, <1>2, <1>3, <1>4, <1>5 DEF ClientProtocols

LEMMA BuiltOffers ==
    ASSUME NEW u, NEW q, NEW b, b = BuildRequestBody(u, AfterBuild(u, q))
    PROVE  /\ b.tools = q.tools /\ q.options \subseteq b.options
           /\ b.toolChoice = IF u = "Anthropic" /\ q.toolChoice = "none" THEN "auto" ELSE q.toolChoice
<1>1. CASE u = "Anthropic"
  <2>1. b = BuildAnthropic(q)
    BY <1>1 DEF BuildRequestBody, AfterBuild
  <2>2. /\ b.tools = q.tools /\ b.options = q.options \cup {"max_tokens"}
        /\ b.toolChoice = IF q.toolChoice = "none" THEN "auto" ELSE q.toolChoice
    BY <2>1 DEF BuildAnthropic
  <2> QED
    BY <1>1, <2>2
<1>2. CASE u = "Gemini"
  <2>1. b = BuildGemini(q)
    BY <1>2 DEF BuildRequestBody, AfterBuild
  <2>2. b.tools = q.tools /\ b.options = q.options /\ b.toolChoice = q.toolChoice
    BY <2>1 DEF BuildGemini
  <2> QED
    BY <1>2, <2>2
<1>3. CASE u \notin {"Anthropic", "Gemini", "Wenxin"}
  <2>1. b = BuildOpenAI(q)
    BY <1>3 DEF BuildRequestBody, AfterBuild
  <2>2. b.tools = q.tools /\ b.options = q.options /\ b.toolChoice = q.toolChoice
    BY <2>1 DEF BuildOpenAI
  <2> QED
    BY <1>3, <2>2
<1>4. CASE u = "Wenxin"
  <2>1. PICK p : p = [q EXCEPT !.messages = AfterCollapse(@)]
    OBVIOUS
  <2>2. p.tools = q.tools /\ p.options = q.options /\ p.toolChoice = q.toolChoice
    BY <2>1
  <2>3. PICK t : t = [p EXCEPT !.messages = Collapsed(@)]
    OBVIOUS
  <2>4. t.tools = p.tools /\ t.options = p.options /\ t.toolChoice = p.toolChoice
    BY <2>3
  <2>5. b = BuildOpenAI(t)
    BY <1>4, <2>1, <2>3 DEF BuildRequestBody, AfterBuild
  <2>6. b.tools = t.tools /\ b.options = t.options /\ b.toolChoice = t.toolChoice
    BY <2>5 DEF BuildOpenAI
  <2> QED
    BY <1>4, <2>2, <2>4, <2>6
<1> QED
  BY <1>1, <1>2, <1>3, <1>4

LEMMA OffersReach ==
    ASSUME NEW r \in Requests, asked = <<r>>, NEW n,
           NEW q, q = ParseIncomingRequest(r.client, r.body, n),
           NEW b, b = BuildRequestBody(upstream, AfterBuild(upstream, q))
    PROVE  /\ b.tools = asked[1].body.tools
           /\ b.toolChoice = ChoiceLeft
           /\ asked[1].body.options \ {"stop"} \subseteq b.options
<1>1. PICK c, x, k : c = r.client /\ x = r.body.toolChoice /\ k = q.toolChoice
  OBVIOUS
<1>2. asked[1].client = c /\ asked[1].body = r.body /\ asked[1].body.toolChoice = x /\ c \in ClientProtocols
  BY <1>1, BodiesAre
<1>3. /\ q.tools = r.body.tools /\ r.body.options \ {"stop"} \subseteq q.options
      /\ k = CASE c = "Anthropic-Messages" -> ToIRToolChoice(x)
               [] c = "Gemini-GenerateContent" -> IF x \in {"none", "required"} THEN x ELSE "absent"
               [] OTHER -> x
  BY <1>1, ParsedOffers
<1>4. /\ b.tools = q.tools /\ q.options \subseteq b.options
      /\ b.toolChoice = IF upstream = "Anthropic" /\ k = "none" THEN "auto" ELSE k
  BY <1>1, BuiltOffers
<1>5. b.toolChoice = ChoiceLeft
  <2>1. CASE c = "Anthropic-Messages"
    BY <1>2, <1>3, <1>4, <2>1 DEF ChoiceLeft, AsProvider, ToIRToolChoice
  <2>2. CASE c = "Gemini-GenerateContent"
    BY <1>2, <1>3, <1>4, <2>2 DEF ChoiceLeft, AsProvider
  <2>3. CASE c \in {"OpenAI-Chat", "OpenAI-Responses"}
    BY <1>2, <1>3, <1>4, <2>3 DEF ChoiceLeft, AsProvider
  <2> QED
    BY <1>2, <2>1, <2>2, <2>3 DEF ClientProtocols
<1> QED
  BY <1>2, <1>3, <1>4, <1>5

-----------------------------------------------------------------------------
LEMMA WireInvTraffic == WireInv => ToolTrafficIsKept
<1> SUFFICES ASSUME WireInv, Sent PROVE ToolTrafficIsKept
  BY DEF ToolTrafficIsKept
<1>1. PICK r \in Requests, n \in 1..MaxExchanges : asked = <<r>> /\ exchanges = n
  BY DEF WireInv, Asked
<1>2. PICK q : q = ParseIncomingRequest(r.client, r.body, n)
  OBVIOUS
<1>3. PICK body : wire = <<body>> /\ body = BuildRequestBody(upstream, AfterBuild(upstream, q))
  BY <1>1, <1>2 DEF WireInv, Marked
<1>4. PICK s \in Seq(Speech) : s = q.messages /\ Gives(r.client, upstream, r.body.messages, s)
  <2>1. Gives(r.client, upstream, r.body.messages, q.messages)
    BY <1>2, ParsedGives
  <2> QED
    BY <2>1 DEF Gives
<1>5. Passes(upstream, s, body.messages)
  <2>1. CASE upstream # "Wenxin"
    <3>1. body = BuildRequestBody(upstream, q)
      BY <1>3, <2>1 DEF AfterBuild
    <3> QED
      BY <1>4, <2>1, <3>1, BodyPasses
  <2>2. CASE upstream = "Wenxin"
    <3>1. "messages" \in DOMAIN q
      BY <1>2 DEF ParseIncomingRequest, ParseChat, ParseResponses, ParseMessages, ParseGenerate, Parse
    <3> QED
      BY <1>3, <1>4, <2>2, <3>1, WenxinPasses
  <2> QED
    BY <2>1, <2>2
<1>6. PICK w \in Seq(WireMessage) : w = body.messages /\ w = wire[1].messages
  BY <1>3, <1>5 DEF Passes
<1>7. ASSUME NEW kind \in Kinds
      PROVE  /\ PartsOf(w) \in Seq(BodyPart)
             /\ TrafficBy(kind)[PartsOf(w)] = PassedBy(upstream, kind)[s]
  <2>1. PICK J, j : J = TrafficBy(kind) /\ Joins(BodyPart, Seq(Pairs), J, j)
    BY TrafficJoins
  <2>2. \A m \in WireMessage : m.parts \in Seq(BodyPart)
    BY PartsHave DEF WireMessage
  <2>3. PartsOf(w) \in Seq(BodyPart) /\ J[PartsOf(w)] = SentBy(WireMessage, J)[w]
    BY <2>1, <2>2, PartsSent
  <2>4. SentBy(WireMessage, J)[w] = PassedBy(upstream, kind)[s]
    BY <1>5, <1>6, <2>1 DEF Passes, Wired
  <2> QED
    BY <2>1, <2>3, <2>4
<1>8. PICK p \in Seq(BodyPart) : /\ p = PartsOf(wire[1].messages)
                                 /\ TrafficBy("tool_use")[p] = PassedBy(upstream, "tool_use")[s]
                                 /\ TrafficBy("tool_result")[p] = PassedBy(upstream, "tool_result")[s]
  BY <1>6, <1>7 DEF Kinds
<1>9. Mapped(LAMBDA x : <<x.name, x.text>>, ToolUses(p)) = CallsMade
  <2>1. Mapped(LAMBDA x : <<x.name, x.text>>, ToolUses(p)) = TrafficBy("tool_use")[p]
    BY TrafficIs
  <2>2. CallsMade = HandedCalls(r.client, upstream)[r.body.messages]
    BY <1>1, CallsMadeAre
  <2> QED
    BY <1>4, <1>8, <2>1, <2>2 DEF Gives
<1>10. Mapped(LAMBDA x : <<x.id, x.text>>, Results(p)) = ResultsGiven
  <2>1. Mapped(LAMBDA x : <<x.id, x.text>>, Results(p)) = TrafficBy("tool_result")[p]
    BY TrafficIs
  <2>2. ResultsGiven = HandedResults(r.client, upstream)[r.body.messages]
    BY <1>1, ResultsGivenAre
  <2> QED
    BY <1>4, <1>8, <2>1, <2>2 DEF Gives
<1>11. /\ wire[1].tools = asked[1].body.tools /\ wire[1].toolChoice = ChoiceLeft
       /\ asked[1].body.options \ {"stop"} \subseteq wire[1].options
  <2>1. wire[1] = body
    BY <1>3
  <2> QED
    BY <1>1, <1>2, <1>3, <2>1, OffersReach
<1> QED
  BY <1>8, <1>9, <1>10, <1>11 DEF ToolTrafficIsKept

(* The tools a client offers, the choice it leaves, its options and the    *)
(* calls and results of the conversation reach the upstream, whatever the  *)
(* client and the upstream speak and whatever is said: each call once, in   *)
(* order and with its name and arguments, each result under its id.        *)
THEOREM ToolTrafficKept == Spec => []ToolTrafficIsKept
<1>1. WireInv /\ [Next]_vars => WireInv'
  BY WireInvStep
<1> QED
  BY WireInvInit, WireInvTraffic, <1>1, PTL DEF Spec
-----------------------------------------------------------------------------
(***************************************************************************)
(* The types.  A request that was parsed is one of the IR, also after a    *)
(* body was built of it; a body that was built is one of the protocols'.   *)
(***************************************************************************)
Spoke(q) == q \in Request /\ q.messages \in Seq(Speech)

LEMMA SpeechTyped == Speech \subseteq Message
BY DEF Speech, Talk, Message

LEMMA RequestMade ==
    ASSUME NEW m \in Models, NEW s \in Seq(Speech), NEW b \in BOOLEAN, NEW o \in SUBSET Options,
           NEW t \in SUBSET Tools, NEW c \in NamedChoices \cup Tools,
           NEW q, q = [model |-> m, messages |-> s, stream |-> b, options |-> o,
                       tools |-> t, toolChoice |-> c]
    PROVE  Spoke(q)
<1>1. s \in Seq(Message)
  BY SpeechTyped, SeqMonotonic
<1> QED
  BY <1>1 DEF Spoke, Request

LEMMA ParsedSpoke ==
    ASSUME NEW r \in Requests, NEW n \in 1..MaxExchanges,
           NEW q, q = ParseIncomingRequest(r.client, r.body, n)
    PROVE  Spoke(q)
<1>1. PICK b : b = r.body
  OBVIOUS
<1>2. /\ b.model \in Models /\ b.stream \in BOOLEAN /\ b.options \in SUBSET Options
      /\ b.tools \in SUBSET Tools /\ b.toolChoice \in NamedChoices \cup Tools
  <2>1. b \in Body
    BY <1>1, BodiesAre
  <2> QED
    BY <2>1 DEF Body
<1>3. PICK s \in Seq(Speech) : s = q.messages
  BY ParsedGives DEF Gives
<1>4. r.client \in ClientProtocols
  BY BodiesAre
<1>5. CASE r.client = "OpenAI-Chat"
  <2>1. q = [model |-> b.model, messages |-> s, stream |-> b.stream, options |-> b.options,
             tools |-> b.tools, toolChoice |-> b.toolChoice]
    <3>1. q = ParseChat(b)
      BY <1>1, <1>5 DEF ParseIncomingRequest
    <3> QED
      BY <1>3, <3>1 DEF ParseChat, Parse
  <2> QED
    BY <1>2, <2>1, RequestMade
<1>6. CASE r.client = "OpenAI-Responses"
  <2>1. q = [model |-> b.model, messages |-> s, stream |-> b.stream,
             options |-> b.options \ {"stop"}, tools |-> b.tools, toolChoice |-> b.toolChoice]
    <3>1. q = ParseResponses(b)
      BY <1>1, <1>6 DEF ParseIncomingRequest
    <3> QED
      BY <1>3, <3>1 DEF ParseResponses, Parse
  <2>2. b.options \ {"stop"} \in SUBSET Options
    BY <1>2
  <2> QED
    BY <1>2, <2>1, <2>2, RequestMade
<1>7. CASE r.client = "Anthropic-Messages"
  <2>1. q = [model |-> b.model, messages |-> s, stream |-> b.stream, options |-> b.options,
             tools |-> b.tools, toolChoice |-> ToIRToolChoice(b.toolChoice)]
    <3>1. q = ParseMessages(b)
      BY <1>1, <1>7 DEF ParseIncomingRequest
    <3> QED
      BY <1>3, <3>1 DEF ParseMessages, Parse
  <2>2. ToIRToolChoice(b.toolChoice) \in NamedChoices \cup Tools
    BY <1>2 DEF ToIRToolChoice, NamedChoices
  <2> QED
    BY <1>2, <2>1, <2>2, RequestMade
<1>8. CASE r.client = "Gemini-GenerateContent"
  <2>1. PICK c : c = IF b.toolChoice \in {"none", "required"} THEN b.toolChoice ELSE "absent"
    OBVIOUS
  <2>2. q = [model |-> GeminiModel, messages |-> s, stream |-> FALSE, options |-> b.options,
             tools |-> b.tools, toolChoice |-> c]
    <3>1. q = ParseGenerate(b, n)
      BY <1>1, <1>8 DEF ParseIncomingRequest
    <3> QED
      BY <1>3, <2>1, <3>1 DEF ParseGenerate, Parse
  <2>3. c \in NamedChoices \cup Tools
    BY <2>1 DEF NamedChoices
  <2> QED
    BY <1>2, <2>2, <2>3, ClientsConfig, RequestMade
<1> QED
  BY <1>4, <1>5, <1>6, <1>7, <1>8 DEF ClientProtocols

(* Moving the system texts leaves messages. *)
LEMMA CollapseTyped ==
    ASSUME NEW s \in Seq(Speech)
    PROVE  AfterCollapse(s) \in Seq(Speech) /\ Collapsed(s) \in Seq(Speech)
<1>1. PICK K, k : K = PassedBy("Wenxin", "tool_use") /\ k = PassedOne("Wenxin", "tool_use")
  OBVIOUS
<1>2. \A m \in Speech : m \in Users \/ ~IsTurn(m) => k[m] = <<>>
  BY <1>1 DEF Users, IsTurn, IsSystem, PassedOne, PassedPart, Bears, Kinds
<1>3. Unborne(K, k, Seq(Pairs))
  BY <1>1, <1>2, PassedJoins DEF Unborne
<1> QED
  BY <1>3, CollapseSame

LEMMA Respoken ==
    ASSUME NEW q, Spoke(q), NEW s \in Seq(Speech)
    PROVE  /\ Spoke([q EXCEPT !.messages = s])
           /\ [q EXCEPT !.messages = s].messages = s
<1>1. PICK p : p = [q EXCEPT !.messages = s]
  OBVIOUS
<1>2. s \in Seq(Message)
  BY SpeechTyped, SeqMonotonic
<1>3. p \in Request /\ p.messages = s
  BY <1>1, <1>2 DEF Spoke, Request
<1> QED
  BY <1>1, <1>3 DEF Spoke

LEMMA MarkedSpoke == ASSUME NEW u, NEW q, Spoke(q) PROVE Spoke(AfterBuild(u, q))
<1>1. CASE u # "Wenxin"
  BY <1>1 DEF AfterBuild
<1>2. CASE u = "Wenxin"
  <2>1. PICK s \in Seq(Speech) : s = AfterCollapse(q.messages)
    BY CollapseTyped DEF Spoke
  <2>2. AfterBuild(u, q) = [q EXCEPT !.messages = s]
    BY <1>2, <2>1 DEF AfterBuild
  <2> QED
    BY <2>2, Respoken
<1> QED
  BY <1>1, <1>2

-----------------------------------------------------------------------------
LEMMA SystemTextsTyped == ASSUME NEW s \in Seq(Speech) PROVE SystemTexts(s) \in Seq(Text)
<1>1. PICK q \in Seq(Speech) : q = Filter(s, IsSystem)
  BY SystemsAre, OnlySub
<1>2. PICK c \in Seq(Part) : c = Contents(q)
  <2>1. q \in Seq(Talk)
    <3>1. Speech \subseteq Talk
      BY DEF Speech
    <3> QED
      BY <3>1, SeqMonotonic
  <2>2. PICK f, C : f = ContentOf(Talk) /\ C = Seq(Part)
    OBVIOUS
  <2>3. Maps(f, Talk, C) /\ Joinable(C)
    BY <2>2, SeqJoinable DEF Maps, ContentOf, Talk
  <2>4. Through(f, q) \in Seq(C)
    BY <2>1, <2>3, ThroughIs
  <2>5. FlattenSeq(Through(f, q)) \in C
    BY <2>3, <2>4, FlattenType
  <2>6. Mapped(LAMBDA m : m.content, q) = Through(f, q)
    <3>1. \A i \in DOMAIN q : q[i] \in Talk
      BY <2>1
    <3> QED
      BY <2>2, <3>1 DEF Mapped, Through, ContentOf
  <2> QED
    BY <2>2, <2>5, <2>6 DEF Contents
<1>3. PICK d \in Seq(Part) : d = Texts(c)
  BY TextsAre, OnlySub
<1>4. Mapped(LAMBDA p : p.text, d) \in Seq(Text)
  <2>1. PICK f : f = [p \in Part |-> p.text]
    OBVIOUS
  <2>2. Maps(f, Part, Text)
    BY <2>1 DEF Maps, Part
  <2>3. \A i \in DOMAIN d : d[i] \in Part
    OBVIOUS
  <2>4. Mapped(LAMBDA p : p.text, d) = Through(f, d)
    BY <2>1, <2>3 DEF Mapped, Through
  <2> QED
    BY <2>2, <2>4, ThroughIs
<1> QED
  BY <1>1, <1>2, <1>3, <1>4 DEF SystemTexts

LEMMA OpenAIWired ==
    ASSUME NEW q, Spoke(q) PROVE BuildOpenAI(q) \in Wire
<1>1. PICK ws \in Seq(WireMessage) : ws = Mapped(ToOpenAIMessage, q.messages)
  <2>1. PICK s \in Seq(Speech) : s = q.messages
    BY DEF Spoke
  <2>2. Passes("OpenAI", s, Mapped(ToOpenAIMessage, s))
    BY OpenAIPasses
  <2> QED
    BY <2>1, <2>2 DEF Passes
<1>2. <<>> \in Seq(Text)
  BY EmptySeq
<1> QED
  BY <1>1, <1>2 DEF BuildOpenAI, Spoke, Request, Wire

LEMMA BodyWired ==
    ASSUME NEW u, NEW q, Spoke(q) PROVE BuildRequestBody(u, q) \in Wire
<1>1. CASE u = "Wenxin"
  <2>1. PICK s \in Seq(Speech) : s = Collapsed(q.messages)
    BY CollapseTyped DEF Spoke
  <2>2. PICK p : p = [q EXCEPT !.messages = Collapsed(@)] /\ p = [q EXCEPT !.messages = s]
    BY <2>1
  <2>3. Spoke(p)
    BY <2>2, Respoken
  <2> QED
    BY <1>1, <2>2, <2>3, OpenAIWired DEF BuildRequestBody
<1>2. CASE u # "Wenxin"
  <2>1. PICK b : b = BuildRequestBody(u, q)
    OBVIOUS
  <2>2. PICK ws \in Seq(WireMessage) : ws = b.messages
    BY <1>2, <2>1, BodyPasses DEF Spoke, Passes
  <2>3. PICK ts \in Seq(Text) : ts = SystemTexts(q.messages)
    BY SystemTextsTyped DEF Spoke
  <2>4. CASE u = "Anthropic"
    <3>1. b = [model |-> q.model, system |-> ts, messages |-> ws, stream |-> q.stream,
               options |-> q.options \cup {"max_tokens"}, tools |-> q.tools,
               toolChoice |-> IF q.toolChoice = "none" THEN "auto" ELSE q.toolChoice]
      <4>1. b = BuildAnthropic(q)
        BY <2>1, <2>4 DEF BuildRequestBody
      <4> QED
        BY <2>2, <2>3, <4>1 DEF BuildAnthropic
    <3>2. PICK c \in NamedChoices \cup Tools :
             c = IF q.toolChoice = "none" THEN "auto" ELSE q.toolChoice
      BY DEF Spoke, Request, NamedChoices
    <3>3. q.options \cup {"max_tokens"} \in SUBSET Options
      BY DEF Spoke, Request, Options
    <3> QED
      BY <2>1, <3>1, <3>2, <3>3 DEF Spoke, Request, Wire
  <2>5. CASE u = "Gemini"
    <3>1. b = [model |-> q.model, system |-> ts, messages |-> ws, stream |-> FALSE,
               options |-> q.options, tools |-> q.tools, toolChoice |-> q.toolChoice]
      <4>1. b = BuildGemini(q)
        BY <2>1, <2>5 DEF BuildRequestBody
      <4> QED
        BY <2>2, <2>3, <4>1 DEF BuildGemini
    <3> QED
      BY <2>1, <3>1 DEF Spoke, Request, Wire
  <2>6. CASE u \notin {"Wenxin", "Anthropic", "Gemini"}
    BY <2>6, OpenAIWired DEF BuildRequestBody
  <2> QED
    BY <1>2, <2>4, <2>5, <2>6
<1> QED
  BY <1>1, <1>2
-----------------------------------------------------------------------------
(* Normalized messages are messages of the same roles. *)
LEMMA NormalTyped == ASSUME NEW m \in Message PROVE NormalizeMessage(m) \in Message
<1>1. m \in Talk
  BY DEF Message, Talk
<1>2. PICK k : k = NormalizeMessage(m) /\ Plain(m, k)
  BY <1>1, NormalIs
<1>3. k \in Talk /\ k.role \in Roles
  BY <1>2 DEF Plain, Message
<1> QED
  BY <1>2, <1>3 DEF Talk, Message

LEMMA MergeTyped ==
    ASSUME NEW out \in Seq(Message), NEW k \in Message PROVE Merge(out, k) \in Seq(Message)
<1>1. CASE IsTurn(k)
  <2>1. Merge(out, k) = Append(out, k)
    BY <1>1 DEF Merge, IsTurn
  <2> QED
    BY <2>1, AppendProperties
<1>2. CASE ~IsTurn(k) /\ k.content = <<>>
  BY <1>2 DEF Merge, IsTurn
<1>3. CASE ~IsTurn(k) /\ k.content # <<>> /\ out # <<>> /\ IsSystem(Last(out))
  <2>1. PICK f \in Seq(Message), l \in Message :
           out = Append(f, l) /\ Last(out) = l /\ Len(out) = Len(f) + 1
    BY <1>3, FrontLast
  <2>2. PICK c \in Seq(Part), d \in Seq(Part) : c = l.content /\ d = k.content
    BY DEF Message
  <2>3. PICK e \in Seq(Part) : e = c \o d
    BY ConcatProperties
  <2>4. PICK j \in Message : j = [l EXCEPT !.content = e]
    BY DEF Message
  <2>5. Merge(out, k) = [out EXCEPT ![Len(out)].content = @ \o k.content]
    BY <1>3 DEF Merge, IsTurn
  <2>6. out[Len(out)] = l
    BY <2>1 DEF Last
  <2>7. Merge(out, k) = [out EXCEPT ![Len(out)] = j]
    BY <2>2, <2>3, <2>4, <2>5, <2>6
  <2>8. [Append(f, l) EXCEPT ![Len(f) + 1] = j] = Append(f, j)
    BY ChangeLast
  <2>9. Append(f, j) \in Seq(Message)
    BY AppendProperties
  <2> QED
    BY <2>1, <2>7, <2>8, <2>9
<1>4. CASE ~IsTurn(k) /\ k.content # <<>> /\ ~(out # <<>> /\ IsSystem(Last(out)))
  <2>1. PICK j \in Message : j = [k EXCEPT !.role = "system"]
    BY DEF Message, Roles
  <2>2. Merge(out, k) = Append(out, j)
    BY <1>4, <2>1 DEF Merge, IsTurn
  <2> QED
    BY <2>2, AppendProperties
<1> QED
  BY <1>1, <1>2, <1>3, <1>4

LEMMA NormalizedTyped == \A s \in Seq(Message) : NormalizeMessages(s) \in Seq(Message)
<1> DEFINE V == {s \in Seq(Message) : NormalizeMessages(s) \in Seq(Message)}
<1>0. Message \subseteq Talk
  BY DEF Message, Talk
<1>1. <<>> \in V
  BY EmptySeq, NormalNone
<1>2. ASSUME NEW s \in Seq(Message), NEW x \in Message, s \in V PROVE Append(s, x) \in V
  <2>1. PICK t \in Seq(Message) : t = Append(s, x)
    BY AppendProperties
  <2>2. NormalNext(s, x, t)
    <3>1. s \in Seq(Talk) /\ x \in Talk
      BY <1>0, SeqMonotonic
    <3> QED
      BY <2>1, <3>1, NormalOn
  <2>3. PICK out \in Seq(Message), k \in Message :
           out = NormalizeMessages(s) /\ k = NormalizeMessage(x)
    BY <1>2, NormalTyped
  <2>4. Merge(out, k) \in Seq(Message)
    BY MergeTyped
  <2>5. NormalizeMessages(t) = Merge(out, k)
    BY <2>2, <2>3 DEF NormalNext
  <2> QED
    BY <2>1, <2>4, <2>5
<1> HIDE DEF V
<1>3. \A s \in Seq(Message) : s \in V
  BY <1>1, <1>2, Grows
<1> QED
  BY <1>3 DEF V

Prints == [model: Models, messages: Seq(Message), options: SUBSET Options,
           tools: SUBSET Tools, toolChoice: NamedChoices \cup Tools]

LEMMA FingerprintTyped == ASSUME NEW q \in Request PROVE Fingerprint(q) \in Prints
<1>1. PICK s \in Seq(Message) : s = NormalizeMessages(q.messages)
  <2>1. q.messages \in Seq(Message)
    BY DEF Request
  <2> QED
    BY <2>1, NormalizedTyped
<1>2. q.options \ {"stop"} \in SUBSET Options
  BY DEF Request
<1> QED
  BY <1>1, <1>2 DEF Fingerprint, Prints, Request

-----------------------------------------------------------------------------
(* What an answer is parsed to are parts of the IR. *)
LEMMA OpenAITyped ==
    ASSUME NEW c, c.parts \in Seq(BodyPart) PROVE FromOpenAIAssistantMessage(c) \in Seq(Part)
<1>1. PICK s \in Seq(BodyPart) : s = c.parts
  OBVIOUS
<1>2. PICK t \in Seq(Part) : t = Texts(s)
  <2>1. BodyPart \cap TextIn(BodyPart) \subseteq Part
    BY DEF BodyPart, Part, TextIn, IsText
  <2>2. Only(s, TextIn(BodyPart)) \in Seq(BodyPart \cap TextIn(BodyPart))
    BY OnlyType
  <2> QED
    BY <2>1, <2>2, TextsAre, SeqMonotonic
<1>3. PICK u \in Seq(Part) : u = ToolUses(s)
  <2>1. PICK U : U = {p \in BodyPart : IsToolUse(p)}
    OBVIOUS
  <2>2. BodyPart \cap U \subseteq Part
    BY <2>1 DEF BodyPart, Part, IsToolUse
  <2>3. Only(s, U) \in Seq(BodyPart \cap U)
    BY OnlyType
  <2> QED
    BY <2>1, <2>2, <2>3, UsesAre, SeqMonotonic
<1>4. PICK v \in Seq(Part) : v = Filter(t, LAMBDA p : p.text # <<>>)
  <2>1. PICK Q : Q = {p \in Part : p.text # <<>>}
    OBVIOUS
  <2>2. \A i \in DOMAIN t : t[i] \in Part
    OBVIOUS
  <2>3. {i \in DOMAIN t : t[i].text # <<>>} = {i \in DOMAIN t : t[i] \in Q}
    BY <2>1, <2>2
  <2>4. Filter(t, LAMBDA p : p.text # <<>>) = Only(t, Q)
    BY <2>3 DEF Filter, Only
  <2> QED
    BY <2>4, OnlySub
<1>5. PICK w \in Seq(Part) : w = Mapped(LAMBDA p : [p EXCEPT !.text = Parsed(@)], u)
  <2>1. PICK f : f = [p \in Part |-> [p EXCEPT !.text = Parsed(@)]]
    OBVIOUS
  <2>2. Maps(f, Part, Part)
    <3>1. ASSUME NEW p \in Part PROVE [p EXCEPT !.text = Parsed(@)] \in Part
      <4>1. Parsed(p.text) \in Text
        BY ParsedText DEF Part
      <4> QED
        BY <4>1 DEF Part
    <3> QED
      BY <2>1, <3>1 DEF Maps
  <2>3. \A i \in DOMAIN u : u[i] \in Part
    OBVIOUS
  <2>4. Mapped(LAMBDA p : [p EXCEPT !.text = Parsed(@)], u) = Through(f, u)
    BY <2>1, <2>3 DEF Mapped, Through
  <2> QED
    BY <2>2, <2>4, ThroughIs
<1>6. FromOpenAIAssistantMessage(c) = v \o w
  BY <1>1, <1>2, <1>3, <1>4, <1>5 DEF FromOpenAIAssistantMessage
<1> QED
  BY <1>6, ConcatProperties

LEMMA AnthropicTyped == ASSUME NEW s \in Seq(BodyPart) PROVE Filter(s, KnownBlock) \in Seq(Part)
<1>1. PICK Q : Q = {p \in BodyPart : KnownBlock(p)}
  OBVIOUS
<1>2. Filter(s, KnownBlock) = Only(s, Q)
  <2>1. \A i \in DOMAIN s : s[i] \in BodyPart
    OBVIOUS
  <2>2. {i \in DOMAIN s : KnownBlock(s[i])} = {i \in DOMAIN s : s[i] \in Q}
    BY <1>1, <2>1
  <2> QED
    BY <2>2 DEF Filter, Only
<1>3. BodyPart \cap Q \subseteq Part
  BY <1>1 DEF BodyPart, Part, KnownBlock, IsToolUse
<1> QED
  BY <1>2, <1>3, OnlyType, SeqMonotonic

LEMMA GeminiTyped ==
    ASSUME NEW c, c.parts \in Seq(BodyPart), NEW n, Drawn[n] \in Ids
    PROVE  FromGeminiCandidate(c, n) \in Seq(Part)
<1>1. PICK s \in Seq(BodyPart) : s = c.parts
  OBVIOUS
<1>2. PICK Q : Q = {p \in BodyPart : p.type \in {"text", "thinking", "tool_use"}}
  OBVIOUS
<1>3. PICK t \in Seq(Part) : t = Filter(s, LAMBDA p : p.type \in {"text", "thinking", "tool_use"})
  <2>1. \A i \in DOMAIN s : s[i] \in BodyPart
    OBVIOUS
  <2>2. {i \in DOMAIN s : s[i].type \in {"text", "thinking", "tool_use"}} = {i \in DOMAIN s : s[i] \in Q}
    BY <1>2, <2>1
  <2>3. Filter(s, LAMBDA p : p.type \in {"text", "thinking", "tool_use"}) = Only(s, Q)
    BY <2>2 DEF Filter, Only
  <2>4. BodyPart \cap Q \subseteq Part
    BY <1>2 DEF BodyPart, Part
  <2> QED
    BY <2>3, <2>4, OnlyType, SeqMonotonic
<1>4. PICK f : f = [p \in Part |-> IF IsToolUse(p) THEN [p EXCEPT !.id = Drawn[n]] ELSE p]
  OBVIOUS
<1>5. Maps(f, Part, Part)
  <2>1. ASSUME NEW p \in Part PROVE f[p] \in Part
    BY <1>4 DEF Part
  <2> QED
    BY <1>4, <2>1 DEF Maps
<1>6. Mapped(LAMBDA p : IF IsToolUse(p) THEN [p EXCEPT !.id = Drawn[n]] ELSE p, t) = Through(f, t)
  <2>1. \A i \in DOMAIN t : t[i] \in Part
    OBVIOUS
  <2> QED
    BY <1>4, <2>1 DEF Mapped, Through
<1>7. FromGeminiCandidate(c, n) = Through(f, t)
  BY <1>1, <1>3, <1>6 DEF FromGeminiCandidate
<1> QED
  BY <1>5, <1>7, ThroughIs

AnyChoice == [content: Seq(Part), finish: FinishReasons]

LEMMA ChoiceTyped ==
    ASSUME NEW c \in Seq(Part), NEW f \in FinishReasons PROVE Choice(c, f) \in AnyChoice
BY DEF Choice, AnyChoice

LEMMA ResponseTyped ==
    ASSUME NEW u, NEW n, Drawn[n] \in Ids, NEW d \in Document
    PROVE  ParseResponse(u, d, n) \in Response
<1>1. PICK cs \in Seq(Offered) : cs = d.choices
  BY DEF Document, Offered
<1>2. \A i \in DOMAIN cs : cs[i] \in Offered
  OBVIOUS
<1>3. PICK r : r = ParseResponse(u, d, n)
  OBVIOUS
<1>4. r.usage \in Usage
  BY <1>3, ResponseIs DEF Counted
<1>5. CASE u = "Anthropic"
  <2>1. PICK f : f = [c \in Offered |-> Choice(Filter(c.parts, KnownBlock), MapAnthropicStopReason(c.finish))]
    OBVIOUS
  <2>2. Maps(f, Offered, AnyChoice)
    <3>1. ASSUME NEW c \in Offered
          PROVE  Choice(Filter(c.parts, KnownBlock), MapAnthropicStopReason(c.finish)) \in AnyChoice
      <4>1. MapAnthropicStopReason(c.finish) \in FinishReasons
        BY DEF MapAnthropicStopReason, FinishReasons
      <4>2. Filter(c.parts, KnownBlock) \in Seq(Part)
        BY AnthropicTyped DEF Offered
      <4> QED
        BY <4>1, <4>2, ChoiceTyped
    <3> QED
      BY <2>1, <3>1 DEF Maps
  <2>3. PICK x \in Seq(AnyChoice) : x = Through(f, cs)
    BY <2>2, ThroughIs
  <2>4. Mapped(LAMBDA c : Choice(Filter(c.parts, KnownBlock), MapAnthropicStopReason(c.finish)), cs) = x
    BY <1>2, <2>1, <2>3 DEF Mapped, Through
  <2>5. r = ParseAnthropic(d)
    BY <1>3, <1>5 DEF ParseResponse
  <2>6. r = [choices |-> x, usage |-> r.usage]
    BY <1>1, <2>4, <2>5 DEF ParseAnthropic
  <2> QED
    BY <1>3, <1>4, <2>6 DEF Response, AnyChoice
<1>6. CASE u = "Gemini"
  <2>1. PICK f : f = [c \in Offered |-> Choice(FromGeminiCandidate(c, n), MapGeminiFinishReason(c.finish))]
    OBVIOUS
  <2>2. Maps(f, Offered, AnyChoice)
    <3>1. ASSUME NEW c \in Offered
          PROVE  Choice(FromGeminiCandidate(c, n), MapGeminiFinishReason(c.finish)) \in AnyChoice
      <4>1. MapGeminiFinishReason(c.finish) \in FinishReasons
        BY DEF MapGeminiFinishReason, FinishReasons
      <4>2. FromGeminiCandidate(c, n) \in Seq(Part)
        BY GeminiTyped DEF Offered
      <4> QED
        BY <4>1, <4>2, ChoiceTyped
    <3> QED
      BY <2>1, <3>1 DEF Maps
  <2>3. PICK x \in Seq(AnyChoice) : x = Through(f, cs)
    BY <2>2, ThroughIs
  <2>4. Mapped(LAMBDA c : Choice(FromGeminiCandidate(c, n), MapGeminiFinishReason(c.finish)), cs) = x
    BY <1>2, <2>1, <2>3 DEF Mapped, Through
  <2>5. r = ParseGemini(d, n)
    BY <1>3, <1>6 DEF ParseResponse
  <2>6. r = [choices |-> x, usage |-> r.usage]
    BY <1>1, <2>4, <2>5 DEF ParseGemini
  <2> QED
    BY <1>3, <1>4, <2>6 DEF Response, AnyChoice
<1>7. CASE u \notin {"Anthropic", "Gemini"}
  <2>1. PICK f : f = [c \in Offered |-> Choice(FromOpenAIAssistantMessage(c), MapOpenAIFinishReason(c.finish))]
    OBVIOUS
  <2>2. Maps(f, Offered, AnyChoice)
    <3>1. ASSUME NEW c \in Offered
          PROVE  Choice(FromOpenAIAssistantMessage(c), MapOpenAIFinishReason(c.finish)) \in AnyChoice
      <4>1. MapOpenAIFinishReason(c.finish) \in FinishReasons
        BY DEF MapOpenAIFinishReason, FinishReasons
      <4>2. FromOpenAIAssistantMessage(c) \in Seq(Part)
        BY OpenAITyped DEF Offered
      <4> QED
        BY <4>1, <4>2, ChoiceTyped
    <3> QED
      BY <2>1, <3>1 DEF Maps
  <2>3. PICK x \in Seq(AnyChoice) : x = Through(f, cs)
    BY <2>2, ThroughIs
  <2>4. Mapped(LAMBDA c : Choice(FromOpenAIAssistantMessage(c), MapOpenAIFinishReason(c.finish)), cs) = x
    BY <1>2, <2>1, <2>3 DEF Mapped, Through
  <2>5. r = ParseOpenAI(d)
    BY <1>3, <1>7 DEF ParseResponse
  <2>6. r = [choices |-> x, usage |-> r.usage]
    BY <1>1, <2>4, <2>5 DEF ParseOpenAI
  <2> QED
    BY <1>3, <1>4, <2>6 DEF Response, AnyChoice
<1> QED
  BY <1>5, <1>6, <1>7

LEMMA ReplyTyped ==
    ASSUME NEW client, NEW response, response.usage \in Usage
    PROVE  SerializeResponse(client, response).usage \in Usage
<1>1. PICK v \in Usage : v = response.usage
  OBVIOUS
<1>2. [v EXCEPT !.total = 0] \in Usage
  BY DEF Usage
<1> QED
  BY <1>1, <1>2 DEF SerializeResponse, SerializeChat, SerializeResponses, SerializeMessages,
                    SerializeGenerate, Reply
-----------------------------------------------------------------------------
(***************************************************************************)
(* The invariant.  The types of what a step changes depend on what the     *)
(* other invariants say of it: that a buffer is a part of the stream's     *)
(* text, and that the request that waits is what was asked, parsed and     *)
(* marked.                                                                 *)
(***************************************************************************)
StreamTyped == /\ stream \in Seq(Stream) /\ Len(stream) <= 1
               /\ buffer \in Raw /\ heard \in Seq(Heads)
               /\ closed \in {"open", "ended", "broken"}

RequestTyped == /\ upstream \in DOMAIN Documents /\ phase \in Phases
                /\ asked \in Seq(Requests)
                /\ ir \in Seq(Request) /\ parsed \in Seq(Request)
                /\ wire \in Seq(Wire)
                /\ phase \in {"accepted", "sent"} => parsed # <<>>

AnswerTyped == /\ document \in Seq(Document)
               /\ \A i \in DOMAIN reply : reply[i].usage \in Usage
               /\ cache \in Seq(Stored) /\ hit \in Seq(Stored)

TypeInv == StreamInv /\ TellsInv /\ WireInv /\ StreamTyped /\ RequestTyped /\ AnswerTyped

LEMMA StreamTypedInit == Init => StreamTyped
BY EmptySeq DEF Init, StreamInit, StreamTyped, Raw

LEMMA StreamTypedOpens == ASSUME StreamTyped, StreamOpens PROVE StreamTyped'
<1>1. PICK s \in Streams : stream' = <<s>>
  BY DEF StreamOpens
<1>2. s \in Stream
  BY StreamsConfig
<1>3. stream' \in Seq(Stream) /\ Len(stream') = 1
  BY <1>1, <1>2
<1>4. buffer' = buffer /\ heard' = heard /\ closed' = closed
  BY DEF StreamOpens
<1> QED
  BY <1>3, <1>4 DEF StreamTyped

(* What is yielded are events. *)
LEMMA MoreHeard ==
    ASSUME NEW h \in Seq(Heads), NEW u, NEW raws \in Seq(Raw)
    PROVE  h \o Yielded(u, raws) \in Seq(Heads)
<1>1. PICK more \in Seq(Heard(u)) : more = Yielded(u, raws)
  BY YieldedIs
<1>2. more \in Seq(Heads)
  BY HeardHeads
<1>3. PICK E : E = Heads
  OBVIOUS
<1>4. h \o more \in Seq(E)
  BY <1>2, <1>3, ConcatProperties
<1> QED
  BY <1>1, <1>3, <1>4

LEMMA StreamTypedChunk ==
    ASSUME StreamInv, StreamTyped, NEW n \in 1..ChunkLength, ChunkArrives(n)
    PROVE  StreamTyped'
<1>1. stream # <<>> /\ stream' = stream /\ closed' = closed
  BY DEF ChunkArrives, Reading
<1>2. PICK s \in Streams : s = stream[1]
  BY <1>1 DEF StreamInv
<1>3. PICK T : T = s.tokens
  OBVIOUS
<1>4. T \in Raw /\ Len(T) \in Nat
  BY <1>3, StreamsAre
<1>5. PICK m \in 0..Len(T) : m = read
  BY <1>1, <1>2, <1>3 DEF StreamInv
<1>6. PICK k : k = SubSeq(T, m + 1, m + n)
  OBVIOUS
<1>7. k \in Raw
  <2>1. n \in Nat /\ m + n <= Len(T)
    BY <1>2, <1>3, <1>5, StreamsConfig DEF ChunkArrives
  <2>2. m + n \in 0..Len(T) /\ m \in 0..(m + n)
    BY <1>4, <2>1
  <2> QED
    BY <1>4, <1>6, <2>2, PartIs
<1>8. PICK d : d = Decoded(buffer \o k)
  OBVIOUS
<1>9. d.raws \in Seq(Raw) /\ d.rest \in Raw
  <2>1. buffer \o k \in Raw
    BY <1>7, ConcatProperties DEF Raw, StreamTyped
  <2>2. d \in Decoder
    BY <1>8, <2>1, DecodedType
  <2> QED
    BY <2>2 DEF Decoder
<1>10. heard' = heard \o Yielded(s.upstream, d.raws) /\ buffer' = d.rest
  BY <1>2, <1>3, <1>5, <1>6, <1>8 DEF ChunkArrives, Appended
<1>11. heard' \in Seq(Heads)
  BY <1>9, <1>10, MoreHeard DEF StreamTyped
<1> QED
  BY <1>1, <1>9, <1>10, <1>11 DEF StreamTyped

LEMMA StreamTypedEnds == ASSUME StreamTyped, StreamEnds PROVE StreamTyped'
<1>1. PICK u : heard' = heard \o Yielded(u, <<buffer>>)
  BY DEF StreamEnds
<1>2. <<buffer>> \in Seq(Raw)
  <2>1. PICK R : R = Raw
    OBVIOUS
  <2>2. buffer \in R
    BY <2>1 DEF StreamTyped
  <2> QED
    BY <2>1, <2>2
<1>3. heard' \in Seq(Heads)
  BY <1>1, <1>2, MoreHeard DEF StreamTyped
<1>4. stream' = stream /\ buffer' = <<>> /\ closed' = "ended"
  BY DEF StreamEnds
<1>5. buffer' \in Raw
  BY <1>4, EmptySeq DEF Raw
<1> QED
  BY <1>3, <1>4, <1>5 DEF StreamTyped

LEMMA StreamTypedStep == ASSUME StreamInv, StreamTyped, [Next]_vars PROVE StreamTyped'
<1>1. CASE StreamOpens
  BY <1>1, StreamTypedOpens
<1>2. CASE \E n \in 1..ChunkLength : ChunkArrives(n)
  BY <1>2, StreamTypedChunk
<1>3. CASE StreamEnds
  BY <1>3, StreamTypedEnds
<1>4. CASE StreamBreaks
  BY <1>4 DEF StreamBreaks, StreamTyped
<1>5. CASE ExchangeNext \/ UNCHANGED vars
  <2>1. UNCHANGED streamVars
    BY <1>5 DEF ExchangeNext, Refuse, AnswerFromCache, Accept, Arrives, Send, CallFails,
                CallSucceeds, vars
  <2> QED
    BY <2>1 DEF streamVars, StreamTyped
<1> QED
  BY <1>1, <1>2, <1>3, <1>4, <1>5 DEF Next, StreamNext

LEMMA StreamTypes == ASSUME StreamInv, TellsInv, StreamTyped PROVE StreamTypeOK
<1>1. read \in Nat
  <2>1. CASE stream = <<>>
    BY <2>1 DEF StreamInv
  <2>2. CASE stream # <<>>
    <3>1. stream[1] \in Streams /\ read \in 0..Len(stream[1].tokens)
      BY <2>2 DEF StreamInv
    <3> QED
      BY <3>1, StreamsAre
  <2> QED
    BY <2>1, <2>2
<1>2. told \in Seq(ClientEvent) /\ state \in StreamState
  <2>1. PICK t, s : t = told /\ s = state
    OBVIOUS
  <2>2. CASE stream = <<>>
    <3>1. s = [outputItemId |-> FALSE, toolUseId |-> <<>>] /\ t = <<>>
      BY <2>1, <2>2 DEF TellsInv
    <3>2. s \in StreamState
      BY <3>1, EmptySeq DEF StreamState
    <3> QED
      BY <2>1, <3>1, <3>2, EmptySeq
  <2>3. CASE stream # <<>>
    <3>1. [told |-> t, state |-> s] \in Serving
      BY <2>1, <2>3 DEF TellsInv, Tells
    <3>2. t \in Seq(ClientEvent) /\ s \in StreamState
      BY <3>1 DEF Serving
    <3> QED
      BY <2>1, <3>2
  <2> QED
    BY <2>2, <2>3
<1>3. heard \in Seq(Seq(Event))
  BY Zenon DEF StreamTyped, Heads
<1>4. buffer \in Seq(Token)
  BY DEF StreamTyped, Raw
<1> QED
  BY <1>1, <1>2, <1>3, <1>4 DEF StreamTyped, StreamTypeOK

-----------------------------------------------------------------------------
LEMMA RequestedSpoke ==
    ASSUME WireInv, NEW r \in Requests, Arrives(r) PROVE Spoke(Requested(r))
<1>1. exchanges + 1 \in 1..MaxExchanges
  BY ExchangeConfig DEF WireInv, Arrives
<1> QED
  BY <1>1, ParsedSpoke DEF Requested

(* What a hit returns are entries of the cache. *)
LEMMA HitsAre ==
    ASSUME NEW S, cache \in Seq(S), NEW client, NEW request, NEW h, h = Hits(client, request)
    PROVE  /\ h \in Seq(S)
           /\ h # <<>> => /\ h[1] \in S /\ h[1].client = client
                         /\ h[1].fingerprint = Fingerprint(request)
<1>1. PICK s \in Seq(S) : s = cache
  OBVIOUS
<1>2. PICK Q : Q = {e \in S : /\ ~request.stream /\ e.client = client
                              /\ e.fingerprint = Fingerprint(request)}
  OBVIOUS
<1>3. h = Only(s, Q)
  <2>1. \A i \in DOMAIN s : s[i] \in S
    OBVIOUS
  <2>2. {i \in DOMAIN s : /\ ~request.stream /\ s[i].client = client
                          /\ s[i].fingerprint = Fingerprint(request)}
           = {i \in DOMAIN s : s[i] \in Q}
    BY <1>2, <2>1
  <2> QED
    BY <1>1, <2>2 DEF Hits, Filter, Only
<1>4. h \in Seq(S) /\ h \in Seq(S \cap Q)
  BY <1>3, OnlySub, OnlyType
<1>5. ASSUME h # <<>> PROVE h[1] \in S \cap Q
  <2>1. 1 \in 1..Len(h)
    BY <1>4, <1>5, EmptySeq
  <2> QED
    BY <1>4, <2>1, ElementOfSeq
<1> QED
  BY <1>2, <1>4, <1>5

LEMMA HitsTyped ==
    ASSUME cache \in Seq(Stored), NEW client, NEW request, NEW h, h = Hits(client, request)
    PROVE  h \in Seq(Stored) /\ (h # <<>> => h[1].response.usage \in Usage)
<1>1. h \in Seq(Stored) /\ (h # <<>> => h[1] \in Stored)
  BY HitsAre
<1>2. ASSUME NEW e \in Stored PROVE e.response.usage \in Usage
  <2>1. PICK a \in Response : a = e.response
    BY DEF Stored
  <2> QED
    BY <2>1 DEF Response
<1> QED
  BY <1>1, <1>2

LEMMA TypedInit == Init => RequestTyped /\ AnswerTyped
BY EmptySeq DEF Init, RequestTyped, AnswerTyped, Phases

LEMMA RequestTypedArrives ==
    ASSUME WireInv, RequestTyped, NEW r \in Requests,
           Refuse(r) \/ AnswerFromCache(r) \/ Accept(r)
    PROVE  RequestTyped'
<1>1. Arrives(r)
  BY DEF Refuse, AnswerFromCache, Accept
<1>2. asked' \in Seq(Requests) /\ upstream' = upstream
  BY <1>1 DEF Arrives
<1>3. PICK q : q = Requested(r)
  OBVIOUS
<1>4. q \in Request /\ AfterBuild(upstream, q) \in Request
  <2>1. Spoke(q)
    BY <1>1, <1>3, RequestedSpoke
  <2> QED
    BY <2>1, MarkedSpoke DEF Spoke
<1>5. wire' = <<>>
  BY DEF Refuse, AnswerFromCache, Accept
<1>6. CASE Refuse(r)
  <2>1. phase' = "refused" /\ ir' = <<>> /\ parsed' = <<>>
    BY <1>6 DEF Refuse
  <2> QED
    BY <1>2, <1>5, <2>1, EmptySeq DEF RequestTyped, Phases
<1>7. CASE AnswerFromCache(r)
  <2>1. phase' = "hit" /\ ir' = <<q>> /\ parsed' = <<q>>
    BY <1>3, <1>7 DEF AnswerFromCache
  <2>2. ir' \in Seq(Request) /\ parsed' \in Seq(Request)
    BY <1>4, <2>1
  <2> QED
    BY <1>2, <1>5, <2>1, <2>2, EmptySeq DEF RequestTyped, Phases
<1>8. CASE Accept(r)
  <2>1. phase' = "accepted" /\ ir' = <<AfterBuild(upstream, q)>> /\ parsed' = <<q>>
    BY <1>3, <1>8 DEF Accept
  <2>2. ir' \in Seq(Request) /\ parsed' \in Seq(Request) /\ parsed' # <<>>
    BY <1>4, <2>1
  <2> QED
    BY <1>2, <1>5, <2>1, <2>2, EmptySeq DEF RequestTyped, Phases
<1> QED
  BY <1>6, <1>7, <1>8

LEMMA RequestTypedSend == ASSUME WireInv, RequestTyped, Send PROVE RequestTyped'
<1>1. /\ phase = "accepted" /\ phase' = "sent"
      /\ wire' = <<BuildRequestBody(upstream, ir[1])>> /\ ir' = <<AfterBuild(upstream, ir[1])>>
      /\ UNCHANGED <<upstream, asked, parsed>>
  BY DEF Send
<1>2. Spoke(ir[1])
  <2>1. Asked /\ ir[1] = Marked
    BY <1>1 DEF WireInv
  <2>2. PICK r \in Requests : asked = <<r>>
    BY <2>1 DEF Asked
  <2>3. PICK q : q = ParseIncomingRequest(r.client, r.body, exchanges)
    OBVIOUS
  <2>4. Spoke(q)
    BY <2>1, <2>3, ParsedSpoke DEF Asked
  <2>5. ir[1] = AfterBuild(upstream, q)
    BY <2>1, <2>2, <2>3 DEF Marked
  <2> QED
    BY <2>4, <2>5, MarkedSpoke
<1>3. ir' \in Seq(Request)
  <2>1. PICK p \in Request : p = AfterBuild(upstream, ir[1])
    BY <1>2, MarkedSpoke DEF Spoke
  <2> QED
    BY <1>1, <2>1
<1>4. wire' \in Seq(Wire)
  <2>1. PICK w \in Wire : w = BuildRequestBody(upstream, ir[1])
    BY <1>2, BodyWired
  <2> QED
    BY <1>1, <2>1
<1> QED
  BY <1>1, <1>3, <1>4 DEF RequestTyped, Phases

LEMMA RequestTypedStep == ASSUME WireInv, RequestTyped, [Next]_vars PROVE RequestTyped'
<1>1. CASE \E r \in Requests : Refuse(r) \/ AnswerFromCache(r) \/ Accept(r)
  BY <1>1, RequestTypedArrives
<1>2. CASE Send
  BY <1>2, RequestTypedSend
<1>3. CASE CallFails \/ \E d \in Documents[upstream] : CallSucceeds(d)
  <2>1. phase' \in {"refused", "answered"} /\ UNCHANGED <<upstream, asked, ir, parsed, wire>>
    BY <1>3 DEF CallFails, CallSucceeds
  <2> QED
    BY <2>1 DEF RequestTyped, Phases
<1>4. CASE UNCHANGED <<upstream, phase, exchanges, asked, ir, parsed, wire, document, reply,
                       hit, cache>>
  BY <1>4 DEF RequestTyped
<1> QED
  BY <1>1, <1>2, <1>3, <1>4 DEF Next, ExchangeNext, vars

LEMMA OneReplyTyped ==
    ASSUME NEW client, NEW response, response.usage \in Usage, NEW answers,
           answers = <<SerializeResponse(client, response)>>
    PROVE  \A i \in DOMAIN answers : answers[i].usage \in Usage
<1>1. PICK a : a = SerializeResponse(client, response)
  OBVIOUS
<1>2. a.usage \in Usage
  BY <1>1, ReplyTyped
<1> QED
  BY <1>1, <1>2

LEMMA AnswerTypedArrives ==
    ASSUME AnswerTyped, NEW r \in Requests, Refuse(r) \/ AnswerFromCache(r) \/ Accept(r)
    PROVE  AnswerTyped'
<1>1. document' = <<>> /\ cache' = cache
  BY DEF Refuse, AnswerFromCache, Accept
<1>2. CASE Refuse(r) \/ Accept(r)
  <2>1. reply' = <<>> /\ hit' = <<>>
    BY <1>2 DEF Refuse, Accept
  <2> QED
    BY <1>1, <2>1, EmptySeq DEF AnswerTyped
<1>3. CASE AnswerFromCache(r)
  <2>1. PICK h : h = Hits(r.client, Requested(r))
    OBVIOUS
  <2>2. hit' = h /\ h # <<>> /\ reply' = <<SerializeResponse(r.client, h[1].response)>>
    BY <1>3, <2>1 DEF AnswerFromCache
  <2>3. h \in Seq(Stored) /\ h[1].response.usage \in Usage
    BY <2>1, <2>2, HitsTyped DEF AnswerTyped
  <2>4. \A i \in DOMAIN reply' : reply'[i].usage \in Usage
    BY <2>2, <2>3, OneReplyTyped
  <2> QED
    BY <1>1, <2>2, <2>3, <2>4, EmptySeq DEF AnswerTyped
<1> QED
  BY <1>2, <1>3

LEMMA AnswerTypedSucceeds ==
    ASSUME WireInv, RequestTyped, AnswerTyped, NEW d \in Documents[upstream], CallSucceeds(d)
    PROVE  AnswerTyped'
<1>1. phase = "sent" /\ hit' = hit /\ document' = <<d>>
  BY DEF CallSucceeds
<1>2. Asked /\ parsed # <<>>
  BY <1>1 DEF WireInv, Sent, RequestTyped
<1>3. PICK r \in Requests : asked = <<r>>
  BY <1>2 DEF Asked
<1>4. PICK c \in ClientProtocols : c = asked[1].client
  BY <1>3, BodiesAre
<1>5. PICK p \in Request : p = parsed[1]
  <2>1. parsed \in Seq(Request) /\ 1 \in 1..Len(parsed)
    BY <1>2, EmptySeq DEF RequestTyped
  <2> QED
    BY <2>1, ElementOfSeq
<1>6. d \in Document
  BY ExchangeConfig DEF RequestTyped
<1>7. PICK a \in Response : a = ParseResponse(upstream, d, exchanges)
  <2>1. Drawn[exchanges] \in Ids
    BY <1>2, ExchangeConfig DEF Asked
  <2> QED
    BY <1>6, <2>1, ResponseTyped
<1>8. PICK f \in Prints : f = Fingerprint(p)
  BY FingerprintTyped
<1>9. PICK m \in Models : m = asked[1].body.model
  BY <1>3, BodiesAre DEF Body
<1>10. cache' \in Seq(Stored)
  <2>1. PICK e \in Stored : e = [client |-> c, fingerprint |-> f, response |-> a, asked |-> p,
                                 named |-> m]
    BY DEF Stored, Prints
  <2>2. cache' = cache \/ cache' = <<e>>
    BY <1>4, <1>5, <1>7, <1>8, <1>9, <2>1 DEF CallSucceeds
  <2>3. <<e>> \in Seq(Stored)
    BY OneIn
  <2> QED
    BY <2>2, <2>3 DEF AnswerTyped
<1>11. reply' = <<SerializeResponse(c, a)>>
  BY <1>4, <1>7 DEF CallSucceeds
<1>12. \A i \in DOMAIN reply' : reply'[i].usage \in Usage
  <2>1. a.usage \in Usage
    BY DEF Response
  <2> QED
    BY <1>11, <2>1, OneReplyTyped
<1>13. document' \in Seq(Document)
  BY <1>1, <1>6
<1> QED
  BY <1>1, <1>10, <1>12, <1>13 DEF AnswerTyped

LEMMA AnswerTypedFails ==
    ASSUME RequestTyped, AnswerTyped, CallFails PROVE AnswerTyped'
<1>1. reply' = reply /\ hit' = hit /\ cache' = cache
  BY DEF CallFails
<1>2. document' = <<>> \/ \E d \in Documents[upstream] : document' = <<d>>
  BY DEF CallFails
<1>3. document' \in Seq(Document)
  <2>1. CASE document' = <<>>
    BY <2>1, EmptySeq
  <2>2. CASE document' # <<>>
    <3>1. PICK d \in Document : document' = <<d>>
      BY <1>2, <2>2, ExchangeConfig DEF RequestTyped
    <3> QED
      BY <3>1, OneIn
  <2> QED
    BY <2>1, <2>2
<1> QED
  BY <1>1, <1>3 DEF AnswerTyped

LEMMA AnswerTypedStep ==
    ASSUME WireInv, RequestTyped, AnswerTyped, [Next]_vars PROVE AnswerTyped'
<1>1. CASE \E r \in Requests : Refuse(r) \/ AnswerFromCache(r) \/ Accept(r)
  BY <1>1, AnswerTypedArrives
<1>2. CASE CallFails
  BY <1>2, AnswerTypedFails
<1>3. CASE \E d \in Documents[upstream] : CallSucceeds(d)
  BY <1>3, AnswerTypedSucceeds
<1>4. CASE \/ Send
           \/ UNCHANGED <<upstream, phase, exchanges, asked, ir, parsed, wire, document,
                          reply, hit, cache>>
  <2>1. UNCHANGED <<document, reply, hit, cache>>
    BY <1>4 DEF Send
  <2> QED
    BY <2>1 DEF AnswerTyped
<1> QED
  BY <1>1, <1>2, <1>3, <1>4 DEF Next, ExchangeNext, vars

(* Every variable keeps its type: whatever clients send and upstreams      *)
(* answer, a request stays one of the IR when it is parsed and when        *)
(* building a body changes it (collapseSystemToUser), a body that is sent, *)
(* an entry of the cache and a usage that is told are well-formed, and the *)
(* decoder holds nothing but tokens of the stream.                         *)
THEOREM TypeCorrect == Spec => []TypeOK
<1>1. Init => TypeInv
  BY StreamInvInit, TellsInvInit, WireInvInit, StreamTypedInit, TypedInit DEF TypeInv
<1>2. TypeInv /\ [Next]_vars => TypeInv'
  <2>1. ASSUME TypeInv, [Next]_vars
        PROVE  StreamInv' /\ TellsInv' /\ WireInv' /\ StreamTyped' /\ RequestTyped' /\ AnswerTyped'
    BY <2>1, StreamInvStep, TellsInvStep, WireInvStep, StreamTypedStep, RequestTypedStep,
       AnswerTypedStep DEF TypeInv
  <2> QED
    BY <2>1 DEF TypeInv
<1>3. TypeInv => TypeOK
  <2>1. ASSUME TypeInv PROVE StreamTypeOK
    BY <2>1, StreamTypes DEF TypeInv
  <2> QED
    BY <2>1 DEF TypeInv, TypeOK, WireInv, RequestTyped, AnswerTyped
<1> QED
  BY <1>1, <1>2, <1>3, PTL DEF Spec
-----------------------------------------------------------------------------
(***************************************************************************)
(* The cache.  What an entry says it was stored for is what its            *)
(* fingerprint was taken of, and what was parsed is still known when the   *)
(* answer comes, however often the request was changed meanwhile.  Of all  *)
(* clients but Gemini's the request is of the model the client named.      *)
(***************************************************************************)
OfTheNamed(client, named, q) == client # "Gemini-GenerateContent" => q.model = named

Answers(e) == /\ e.asked.messages \in Seq(Talk) /\ e.fingerprint = Fingerprint(e.asked)
              /\ OfTheNamed(e.client, e.named, e.asked)

CacheInv ==
    /\ exchanges \in 0..MaxExchanges
    /\ cache = <<>> \/ \E e : cache = <<e>> /\ Answers(e)
    /\ phase \in {"accepted", "sent"} =>
          /\ parsed[1].messages \in Seq(Talk)
          /\ OfTheNamed(asked[1].client, asked[1].body.model, parsed[1])
    /\ CacheAnswersTheQuestion

LEMMA ModelParsed ==
    ASSUME NEW r \in Requests, NEW n
    PROVE  OfTheNamed(r.client, r.body.model, ParseIncomingRequest(r.client, r.body, n))
<1>1. PICK b : b = r.body
  OBVIOUS
<1>2. r.client \in ClientProtocols
  BY BodiesAre
<1>3. \A s : Parse(b, s).model = b.model
  BY DEF Parse
<1>4. ParseChat(b).model = b.model
  BY <1>3 DEF ParseChat
<1>5. ParseResponses(b).model = b.model
  BY DEF ParseResponses, Parse
<1>6. ParseMessages(b).model = b.model
  BY DEF ParseMessages, Parse
<1> QED
  BY <1>1, <1>2, <1>4, <1>5, <1>6 DEF OfTheNamed, ParseIncomingRequest, ClientProtocols

LEMMA HitIs ==
    ASSUME CacheInv, NEW client, NEW request, NEW h, h = Hits(client, request), h # <<>>
    PROVE  /\ Answers(h[1]) /\ h[1].client = client
           /\ h[1].fingerprint = Fingerprint(request)
<1>1. PICK e : cache = <<e>> /\ Answers(e)
  <2>1. CASE cache = <<>>
    <3>1. cache \in Seq({})
      BY <2>1
    <3>2. h \in Seq({})
      BY <3>1, HitsAre
    <3> QED
      BY <3>2, EmptySeq
  <2> QED
    BY <2>1 DEF CacheInv
<1>2. PICK S : S = {e}
  OBVIOUS
<1>3. cache \in Seq(S)
  BY <1>1, <1>2
<1>4. h[1] \in S /\ h[1].client = client /\ h[1].fingerprint = Fingerprint(request)
  BY <1>3, HitsAre
<1> QED
  BY <1>1, <1>2, <1>4

LEMMA CacheInvInit == Init => CacheInv
BY ExchangeConfig DEF Init, CacheInv, CacheAnswersTheQuestion

LEMMA ArrivesCounts ==
    ASSUME CacheInv, NEW r \in Requests, Arrives(r)
    PROVE  /\ exchanges + 1 \in 1..MaxExchanges /\ exchanges' \in 0..MaxExchanges
           /\ asked' = <<r>>
BY ExchangeConfig DEF CacheInv, Arrives

LEMMA CacheInvArrives ==
    ASSUME CacheInv, NEW r \in Requests, Refuse(r) \/ AnswerFromCache(r) \/ Accept(r)
    PROVE  CacheInv'
<1>1. Arrives(r) /\ cache' = cache
  BY DEF Refuse, AnswerFromCache, Accept
<1>2. exchanges + 1 \in 1..MaxExchanges /\ exchanges' \in 0..MaxExchanges /\ asked' = <<r>>
  BY <1>1, ArrivesCounts
<1>3. PICK q : q = Requested(r)
  OBVIOUS
<1>4. q.messages \in Seq(Talk)
  <2>1. Spoke(q)
    BY <1>2, <1>3, ParsedSpoke DEF Requested
  <2>2. Speech \subseteq Talk
    BY DEF Speech
  <2> QED
    BY <2>1, <2>2, SeqMonotonic DEF Spoke
<1>5. cache' = <<>> \/ \E e : cache' = <<e>> /\ Answers(e)
  BY <1>1 DEF CacheInv
<1>6. OfTheNamed(r.client, r.body.model, q)
  BY <1>3, ModelParsed DEF Requested
<1>7. CASE Refuse(r)
  <2>1. phase' = "refused"
    BY <1>7 DEF Refuse
  <2> QED
    BY <1>2, <1>5, <2>1 DEF CacheInv, CacheAnswersTheQuestion
<1>8. CASE Accept(r)
  <2>1. phase' = "accepted" /\ parsed' = <<q>>
    BY <1>3, <1>8 DEF Accept
  <2> QED
    BY <1>2, <1>4, <1>5, <1>6, <2>1 DEF CacheInv, CacheAnswersTheQuestion
<1>9. CASE AnswerFromCache(r)
  <2>1. PICK h : h = Hits(r.client, q)
    OBVIOUS
  <2>2. phase' = "hit" /\ parsed' = <<q>> /\ hit' = h /\ h # <<>>
    BY <1>3, <1>9, <2>1 DEF AnswerFromCache
  <2>3. Answers(h[1]) /\ h[1].client = r.client /\ h[1].fingerprint = Fingerprint(q)
    BY <2>1, <2>2, HitIs
  <2>4. Question(q) = Question(h[1].asked) /\ q.model = h[1].asked.model
    <3>1. PICK a : a = h[1].asked
      OBVIOUS
    <3>2. a.messages \in Seq(Talk) /\ Fingerprint(q) = Fingerprint(a)
      BY <2>3, <3>1 DEF Answers
    <3> QED
      BY <1>4, <3>1, <3>2, FingerprintTells
  <2>5. r.client # "Gemini-GenerateContent" => h[1].named = r.body.model
    BY <1>6, <2>3, <2>4 DEF Answers, OfTheNamed
  <2>6. CacheAnswersTheQuestion'
    BY <1>2, <2>2, <2>3, <2>4, <2>5 DEF CacheAnswersTheQuestion
  <2> QED
    BY <1>2, <1>5, <2>2, <2>6 DEF CacheInv
<1> QED
  BY <1>7, <1>8, <1>9

LEMMA CacheInvAnswered ==
    ASSUME CacheInv, NEW d \in Documents[upstream], CallSucceeds(d) PROVE CacheInv'
<1>1. PICK e : e = [client |-> asked[1].client, fingerprint |-> Fingerprint(parsed[1]),
                    response |-> ParseResponse(upstream, d, exchanges), asked |-> parsed[1],
                    named |-> asked[1].body.model]
  OBVIOUS
<1>2. cache' = cache \/ cache' = <<e>>
  BY <1>1 DEF CallSucceeds
<1>3. phase = "sent" /\ phase' = "answered" /\ exchanges' = exchanges
  BY DEF CallSucceeds
<1>4. Answers(e)
  BY <1>1, <1>3 DEF Answers, CacheInv
<1>5. cache' = <<>> \/ \E x : cache' = <<x>> /\ Answers(x)
  BY <1>2, <1>4 DEF CacheInv
<1> QED
  BY <1>3, <1>5 DEF CacheInv, CacheAnswersTheQuestion

LEMMA CacheInvStep == ASSUME CacheInv, [Next]_vars PROVE CacheInv'
<1>1. CASE \E r \in Requests : Refuse(r) \/ AnswerFromCache(r) \/ Accept(r)
  BY <1>1, CacheInvArrives
<1>2. CASE Send
  <2>1. /\ phase = "accepted" /\ phase' = "sent"
        /\ exchanges' = exchanges /\ cache' = cache /\ parsed' = parsed /\ asked' = asked
    BY <1>2 DEF Send
  <2> QED
    BY <2>1 DEF CacheInv, CacheAnswersTheQuestion
<1>3. CASE CallFails
  <2>1. phase' = "refused" /\ exchanges' = exchanges /\ cache' = cache
    BY <1>3 DEF CallFails
  <2> QED
    BY <2>1 DEF CacheInv, CacheAnswersTheQuestion
<1>4. CASE \E d \in Documents[upstream] : CallSucceeds(d)
  BY <1>4, CacheInvAnswered
<1>5. CASE UNCHANGED <<upstream, phase, exchanges, asked, ir, parsed, wire, document, reply,
                       hit, cache>>
  BY <1>5 DEF CacheInv, CacheAnswersTheQuestion
<1> QED
  BY <1>1, <1>2, <1>3, <1>4, <1>5 DEF Next, ExchangeNext, vars

(* An answer from the cache is the answer to the question that is asked:   *)
(* for all bodies of all clients two requests of one fingerprint say the   *)
(* same and, but for Gemini's clients, to the model their client names,    *)
(* and an entry is stored under the fingerprint of its request as it was   *)
(* parsed (fingerprint, ExactCache.lookup and store).                      *)
THEOREM CacheAnswers == Spec => []CacheAnswersTheQuestion
<1>1. CacheInv /\ [Next]_vars => CacheInv'
  BY CacheInvStep
<1>2. CacheInv => CacheAnswersTheQuestion
  BY DEF CacheInv
<1> QED
  BY CacheInvInit, <1>1, <1>2, PTL DEF Spec
===============================================================================
