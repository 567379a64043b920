-------------------------- MODULE LifecycleProofs ---------------------------
(***************************************************************************)
(* Proofs about Lifecycle, for every set of requests, every timeout and    *)
(* every polling interval.                                                 *)
(***************************************************************************)
EXTENDS Lifecycle, FiniteSetTheorems, TLAPS

(* What holds of the clock of the drain loop: it stands still until the    *)
(* drain starts, never passes the next look, and looks are only planned    *)
(* before the deadline.                                                    *)
ClockInv == /\ stage = "running" => elapsed = 0
            /\ stage = "draining" => elapsed <= wake /\ wake < TimeoutMs + PollMs
            /\ elapsed < TimeoutMs + PollMs

(* The inductive invariant.  The count must be exact for the database to   *)
(* be closed only when nobody is under way, and the clock bounded for the  *)
(* drain to be prompt.                                                     *)
IInv == TypeOK /\ InflightIsExact /\ ClockInv /\ DrainsBeforeClosing

-----------------------------------------------------------------------------
(* How each kind of step moves the set of requests under way. *)

LEMMA InFlightFinite ==
    ASSUME TypeOK
    PROVE  IsFiniteSet(InFlight) /\ Cardinality(InFlight) \in Nat
<1>1. InFlight \subseteq Requests
  BY DEF InFlight
<1>2. IsFiniteSet(InFlight)
  BY <1>1, LifecycleConfig, FS_Subset
<1> QED BY <1>2, FS_CardinalityType

LEMMA BeginJoins ==
    ASSUME TypeOK, NEW r \in Requests, NEW phase \in {"body", "admin"},
           Begin(r, phase)
    PROVE  /\ InFlight' = InFlight \cup {r}
           /\ Cardinality(InFlight') = Cardinality(InFlight) + 1
<1>1. InFlight' = InFlight \cup {r} /\ r \notin InFlight
  BY DEF TypeOK, Begin, Arrives, InFlight
<1>2. Cardinality(InFlight \cup {r}) = Cardinality(InFlight) + 1
  BY <1>1, InFlightFinite, FS_AddElement
<1> QED BY <1>1, <1>2

LEMMA FinishLeaves ==
    ASSUME TypeOK, InflightIsExact, proc = "up",
           NEW r \in Requests, r \in InFlight,
           NEW answer \in Reply, Finish(r, answer)
    PROVE  /\ InFlight' = InFlight \ {r}
           /\ inflight' = Cardinality(InFlight')
           /\ inflight' \in Nat
<1>1. InFlight' = InFlight \ {r}
  BY DEF TypeOK, Finish, InFlight
<1>2. /\ IsFiniteSet(InFlight \ {r})
      /\ Cardinality(InFlight \ {r}) = Cardinality(InFlight) - 1
  BY InFlightFinite, FS_RemoveElement
<1>3. Cardinality(InFlight \ {r}) \in Nat
  BY <1>2, FS_CardinalityType
<1>4. inflight = Cardinality(InFlight) /\ inflight \in Nat
  BY DEF InflightIsExact, TypeOK
<1>5. inflight' = IF inflight > 0 THEN inflight - 1 ELSE 0
  BY DEF Finish
<1>6. inflight' = Cardinality(InFlight \ {r})
  BY <1>2, <1>3, <1>4, <1>5
<1> QED BY <1>1, <1>3, <1>6

LEMMA GotoStays ==
    ASSUME TypeOK, NEW r \in Requests, request[r] = "body", Goto(r, "upstream")
    PROVE  InFlight' = InFlight
BY DEF TypeOK, Goto, InFlight

LEMMA AnswerPasses ==
    ASSUME TypeOK, NEW r \in Requests, NEW answer \in Reply, Answer(r, answer)
    PROVE  InFlight' = InFlight
BY DEF TypeOK, Answer, Arrives, InFlight

-----------------------------------------------------------------------------
(* The steps of requests; they leave the shutdown alone. *)

RequestStep(r) ==
    \/ \E phase \in {"body", "admin"} : Begin(r, phase)
    \/ \E answer \in Reply : Answer(r, answer)
    \/ BodyRead(r) \/ BodyEmpty(r) \/ BodyBreaks(r)
    \/ AdminRead(r) \/ UpstreamEnds(r) \/ HangUp(r)

LEMMA FinishKeepsInv ==
    ASSUME IInv, proc = "up", NEW r \in Requests, r \in InFlight,
           NEW answer \in Reply, Finish(r, answer)
    PROVE  IInv'
<1>1. /\ InFlight' = InFlight \ {r}
      /\ inflight' = Cardinality(InFlight') /\ inflight' \in Nat
  BY FinishLeaves DEF IInv
<1>2. UNCHANGED <<proc, handlers, stage, elapsed, wake, late>>
  BY DEF Finish, shutdownVars
<1>3. TypeOK'
  BY <1>1, <1>2 DEF IInv, TypeOK, Finish, Phase
<1>4. InflightIsExact'
  BY <1>1 DEF InflightIsExact
<1>5. ClockInv'
  BY <1>2 DEF IInv, ClockInv
<1>6. DrainsBeforeClosing'
  BY <1>1, <1>2 DEF IInv, DrainsBeforeClosing
<1> QED BY <1>3, <1>4, <1>5, <1>6 DEF IInv

LEMMA SameInFlightKeepsInv ==
    ASSUME IInv, TypeOK', proc = "up",
           InFlight' = InFlight, late \subseteq late',
           UNCHANGED <<handlers, stage, elapsed, wake, inflight>>
    PROVE  IInv'
<1>1. InflightIsExact'
  BY DEF IInv, InflightIsExact
<1>2. ClockInv'
  BY DEF IInv, ClockInv
<1>3. DrainsBeforeClosing'
  BY DEF IInv, DrainsBeforeClosing
<1> QED BY <1>1, <1>2, <1>3 DEF IInv

LEMMA RequestStepKeepsInv ==
    ASSUME IInv, NEW r \in Requests, RequestStep(r)
    PROVE  IInv'
<1> USE DEF shutdownVars
<1>0. TypeOK
  BY DEF IInv
<1>1. ASSUME NEW phase \in {"body", "admin"}, Begin(r, phase)
      PROVE  IInv'
  <2>1. /\ InFlight' = InFlight \cup {r}
        /\ Cardinality(InFlight') = Cardinality(InFlight) + 1
    BY <1>0, <1>1, BeginJoins
  <2>2. TypeOK'
    BY <1>0, <1>1 DEF TypeOK, Begin, Arrives, Phase
  <2>3. InflightIsExact'
    BY <1>1, <2>1 DEF IInv, InflightIsExact, Begin, Arrives
  <2>4. ClockInv'
    BY <1>1 DEF IInv, ClockInv, Begin
  <2>5. DrainsBeforeClosing'
    BY <1>1, <2>1 DEF IInv, DrainsBeforeClosing, Begin, Arrives, DbOpen
  <2> QED BY <2>2, <2>3, <2>4, <2>5 DEF IInv
<1>2. ASSUME NEW answer \in Reply, Answer(r, answer)
      PROVE  IInv'
  <2>1. TypeOK'
    BY <1>0, <1>2 DEF TypeOK, Answer, Arrives, Phase
  <2>2. InFlight' = InFlight
    BY <1>0, <1>2, AnswerPasses
  <2>3. /\ proc = "up" /\ late \subseteq late'
        /\ UNCHANGED <<handlers, stage, elapsed, wake, inflight>>
    BY <1>2 DEF Answer, Arrives
  <2> QED BY <2>1, <2>2, <2>3, SameInFlightKeepsInv
<1>3. CASE BodyRead(r)
  <2>1. proc = "up" /\ r \in InFlight
    BY <1>3 DEF BodyRead, InFlight
  <2>2. \/ \E answer \in Reply : Finish(r, answer)
        \/ Goto(r, "upstream")
    BY <1>3 DEF BodyRead, Reply
  <2>3. CASE Goto(r, "upstream")
    <3>1. request[r] = "body"
      BY <1>3 DEF BodyRead
    <3>2. InFlight' = InFlight
      BY <1>0, <2>3, <3>1, GotoStays
    <3>3. TypeOK'
      BY <1>0, <2>3 DEF TypeOK, Goto, Phase
    <3> QED BY <2>1, <2>3, <3>2, <3>3, SameInFlightKeepsInv DEF Goto
  <2> QED BY <2>1, <2>2, <2>3, FinishKeepsInv
<1>4. CASE BodyEmpty(r)
  BY <1>4, FinishKeepsInv DEF BodyEmpty, InFlight, Reply
<1>5. CASE BodyBreaks(r)
  <2>1. TypeOK' /\ InFlight' = InFlight
    BY <1>0, <1>5 DEF TypeOK, BodyBreaks, InFlight
  <2> QED BY <1>5, <2>1, SameInFlightKeepsInv DEF BodyBreaks
<1>6. CASE AdminRead(r)
  BY <1>6, FinishKeepsInv DEF AdminRead, InFlight, Reply
<1>7. CASE UpstreamEnds(r)
  BY <1>7, FinishKeepsInv DEF UpstreamEnds, InFlight, Reply
<1>8. CASE HangUp(r)
  <2>1. TypeOK' /\ InFlight' = InFlight
    BY <1>0, <1>8 DEF TypeOK, HangUp, InFlight, Reply
  <2> QED BY <1>8, <2>1, SameInFlightKeepsInv DEF HangUp
<1> QED BY <1>1, <1>2, <1>3, <1>4, <1>5, <1>6, <1>7, <1>8 DEF RequestStep

-----------------------------------------------------------------------------
(* The steps of the shutdown; they leave the requests alone. *)

LEMMA LookKeepsInv ==
    ASSUME IInv, proc = "up", stage # "stopped",
           Look(elapsed),
           handlers' \subseteq handlers,
           UNCHANGED <<proc, elapsed, inflight, request, reply, late>>
    PROVE  IInv'
<1>0. /\ elapsed \in Nat /\ inflight \in Nat
      /\ TimeoutMs \in Nat /\ PollMs \in Nat \ {0}
  BY LifecycleConfig DEF IInv, TypeOK
<1>1. InFlight' = InFlight
  BY DEF InFlight
<1>2. InflightIsExact'
  BY <1>1 DEF IInv, InflightIsExact
<1>3. CASE Waits(inflight, elapsed)
  <2>1. stage' = "draining" /\ wake' = elapsed + PollMs /\ elapsed < TimeoutMs
    BY <1>3 DEF Look, Waits
  <2>2. TypeOK'
    BY <1>0, <2>1 DEF IInv, TypeOK
  <2>3. ClockInv'
    BY <1>0, <2>1 DEF IInv, ClockInv
  <2>4. DrainsBeforeClosing'
    BY <2>1 DEF DrainsBeforeClosing
  <2> QED BY <1>2, <2>2, <2>3, <2>4 DEF IInv
<1>4. CASE ~Waits(inflight, elapsed)
  <2>1. stage' = "stopped" /\ wake' = 0
    BY <1>4 DEF Look
  <2>2. TypeOK'
    BY <2>1 DEF IInv, TypeOK
  <2>3. ClockInv'
    BY <2>1 DEF IInv, ClockInv
  <2>4. ASSUME elapsed < TimeoutMs
        PROVE  InFlight = {}
    <3>1. inflight = 0
      BY <1>0, <1>4, <2>4 DEF Waits
    <3>2. Cardinality(InFlight) = 0
      BY <3>1 DEF IInv, InflightIsExact
    <3> QED BY <3>2, InFlightFinite, FS_EmptySet DEF IInv
  <2>5. DrainsBeforeClosing'
    BY <1>1, <2>4 DEF DrainsBeforeClosing
  <2> QED BY <1>2, <2>2, <2>3, <2>5 DEF IInv
<1> QED BY <1>3, <1>4

LEMMA SameRequestsKeepInv ==
    ASSUME IInv, TypeOK', ClockInv', stage' = stage,
           elapsed' = elapsed \/ stage # "stopped",
           proc' = "up" => proc = "up",
           UNCHANGED <<inflight, request, reply, late>>
    PROVE  IInv'
<1>1. InFlight' = InFlight
  BY DEF InFlight
<1>2. InflightIsExact'
  BY <1>1 DEF IInv, InflightIsExact
<1>3. DrainsBeforeClosing'
  BY <1>1 DEF IInv, DrainsBeforeClosing
<1> QED BY <1>2, <1>3 DEF IInv

ShutdownStep == \/ \E s \in Signals : Signal(s) \/ Kill(s)
                \/ ForceExit \/ Poll \/ Tick \/ Exit

LEMMA ShutdownStepKeepsInv ==
    ASSUME IInv, ShutdownStep
    PROVE  IInv'
<1> USE DEF shutdownVars, requestVars
<1>0. /\ TypeOK /\ ClockInv
      /\ TimeoutMs \in Nat /\ PollMs \in Nat \ {0}
  BY LifecycleConfig DEF IInv
<1>1. ASSUME NEW s \in Signals, Signal(s)
      PROVE  IInv'
  <2>1. CASE stage = "running"
    <3>1. Look(elapsed)
      BY <1>0, <1>1, <2>1 DEF Signal, ClockInv
    <3> QED BY <1>1, <2>1, <3>1, LookKeepsInv DEF Signal
  <2>2. CASE stage # "running"
    <3>1. TypeOK' /\ ClockInv'
      BY <1>0, <1>1, <2>2 DEF Signal, TypeOK, ClockInv
    <3> QED BY <1>1, <2>2, <3>1, SameRequestsKeepInv DEF Signal
  <2> QED BY <2>1, <2>2
<1>2. ASSUME NEW s \in Signals, Kill(s)
      PROVE  IInv'
  <2>1. TypeOK' /\ ClockInv'
    BY <1>0, <1>2 DEF Kill, TypeOK, ClockInv
  <2> QED BY <1>2, <2>1, SameRequestsKeepInv DEF Kill
<1>3. CASE ForceExit
  <2>1. Look(elapsed)
    BY <1>0, <1>3 DEF ForceExit, ClockInv
  <2> QED BY <1>3, <2>1, LookKeepsInv DEF ForceExit
<1>4. CASE Poll
  BY <1>4, LookKeepsInv DEF Poll
<1>5. CASE Tick
  <2>1. elapsed \in Nat /\ wake \in Nat /\ elapsed < wake /\ elapsed' = elapsed + 1
        /\ stage = "draining" /\ UNCHANGED <<proc, handlers, stage, wake>>
    BY <1>0, <1>5 DEF Tick, TypeOK
  <2>2. TypeOK'
    BY <1>0, <1>5, <2>1 DEF Tick, TypeOK
  <2>3. ClockInv'
    BY <1>0, <2>1 DEF ClockInv
  <2> QED BY <1>5, <2>1, <2>2, <2>3, SameRequestsKeepInv DEF Tick
<1>6. CASE Exit
  <2>1. TypeOK' /\ ClockInv'
    BY <1>0, <1>6 DEF Exit, TypeOK, ClockInv
  <2> QED BY <1>6, <2>1, SameRequestsKeepInv DEF Exit
<1> QED BY <1>1, <1>2, <1>3, <1>4, <1>5, <1>6 DEF ShutdownStep

-----------------------------------------------------------------------------
LEMMA InvInit == Init => IInv
<1> SUFFICES ASSUME Init
             PROVE  IInv
  OBVIOUS
<1>1. TypeOK
  BY DEF Init, TypeOK, Signals, Phase, Reply
<1>2. InFlight = {}
  BY DEF Init, InFlight
<1>3. InflightIsExact /\ DrainsBeforeClosing
  BY <1>2, FS_EmptySet DEF Init, InflightIsExact, DrainsBeforeClosing
<1>4. ClockInv
  BY LifecycleConfig DEF Init, ClockInv
<1> QED BY <1>1, <1>3, <1>4 DEF IInv

LEMMA InvNext == IInv /\ [Next]_vars => IInv'
<1> SUFFICES ASSUME IInv, [Next]_vars
             PROVE  IInv'
  OBVIOUS
<1>1. CASE UNCHANGED vars
  <2>1. TypeOK' /\ ClockInv' /\ UNCHANGED <<proc, stage, elapsed, inflight, request, reply, late>>
    BY <1>1 DEF vars, IInv, TypeOK, ClockInv
  <2> QED BY <2>1, SameRequestsKeepInv
<1>2. ASSUME NEW r \in Requests, RequestStep(r)
      PROVE  IInv'
  BY <1>2, RequestStepKeepsInv
<1>3. CASE ShutdownStep
  BY <1>3, ShutdownStepKeepsInv
<1> QED BY <1>1, <1>2, <1>3 DEF Next, RequestStep, ShutdownStep

THEOREM Invariance == Spec => []IInv
BY InvInit, InvNext, PTL DEF Spec

(* Every variable keeps its type; in particular the count of the requests  *)
(* under way never goes below zero (server/lifecycle.ts:25-36).            *)
THEOREM TypeCorrect == Spec => []TypeOK
<1>1. IInv => TypeOK
  BY DEF IInv
<1> QED BY <1>1, Invariance, PTL

(* The drain loop reads a count that is exact, however requests end        *)
(* (server/http.ts:116-117 counts up before and down in a finally).                           *)
THEOREM CountIsExact == Spec => []InflightIsExact
<1>1. IInv => InflightIsExact
  BY DEF IInv
<1> QED BY <1>1, Invariance, PTL

(* Up to the deadline the database outlives the requests that began before *)
(* it closed (server/lifecycle.ts:104-121).                                  *)
THEOREM DatabaseOutlivesRequests == Spec => []DrainsBeforeClosing
<1>1. IInv => DrainsBeforeClosing
  BY DEF IInv
<1> QED BY <1>1, Invariance, PTL

(* The drain ends less than one polling interval after the deadline,       *)
(* whatever the requests do (server/lifecycle.ts:109-112).                   *)
THEOREM DrainIsPrompt == Spec => []ShutdownIsPrompt
<1>1. IInv => ShutdownIsPrompt
  BY DEF IInv, ClockInv, ShutdownIsPrompt
<1> QED BY <1>1, Invariance, PTL
=============================================================================
