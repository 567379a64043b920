------------------------------ MODULE Lifecycle ------------------------------
(***************************************************************************)
(* server/http.ts and server/lifecycle.ts: concurrent requests, the count  *)
(* of those in flight, and the shutdown that drains them before it closes  *)
(* the database.  Every action is what runs from one await to the next.    *)
(*                                                                         *)
(*   a request: none -> (body | admin ->) (upstream ->) over               *)
(*   the process: running -> draining -> stopped, and up -> exited | dead  *)
(***************************************************************************)
EXTENDS Integers, FiniteSets

CONSTANTS Requests,   \* the requests that are made, each once
          TimeoutMs,  \* shutdownTimeoutMs
          PollMs,     \* how often the drain loop looks
          KeptAlive   \* requests that come over a connection opened before

ASSUME LifecycleConfig ==
    /\ IsFiniteSet(Requests) /\ KeptAlive \subseteq Requests
    /\ TimeoutMs \in Nat
    /\ PollMs \in Nat \ {0}

Signals == {"SIGTERM", "SIGINT"}

VARIABLES proc,      \* "up", "exited" by itself, "dead" by a signal or an error
          handlers,  \* signals that still have their handler (process.once)
          stage,     \* of the shutdown
          elapsed,   \* Date.now() - start in the drain loop
          wake,      \* when the loop looks again
          inflight,  \* the tracker's count
          request,   \* the phase of each request
          reply,     \* what each was answered
          late       \* auxiliary: requests that began after the database closed

vars == <<proc, handlers, stage, elapsed, wake, inflight, request, reply, late>>

Phase == {"none", "body", "admin", "upstream", "over"}
Reply == {"none", "ok", "error"}

TypeOK == /\ proc \in {"up", "exited", "dead"}
          /\ handlers \subseteq Signals
          /\ stage \in {"running", "draining", "stopped"}
          /\ elapsed \in Nat /\ wake \in Nat
          /\ inflight \in Nat
          /\ request \in [Requests -> Phase]
          /\ reply \in [Requests -> Reply]
          /\ late \subseteq Requests

Init == /\ proc = "up"
        /\ handlers = Signals
        /\ stage = "running"
        /\ elapsed = 0 /\ wake = 0
        /\ inflight = 0
        /\ request = [r \in Requests |-> "none"]
        /\ reply = [r \in Requests |-> "none"]
        /\ late = {}

InFlight == {r \in Requests : request[r] \notin {"none", "over"}}

(* The server stops listening when the drain starts; the database is open  *)
(* until it ends.                                                          *)
Listening == stage = "running"
DbOpen == stage # "stopped"

shutdownVars == <<handlers, stage, elapsed, wake>>

-----------------------------------------------------------------------------
(* A request comes in: handleRequest starts. *)
Arrives(r) == /\ proc = "up" /\ request[r] = "none"
              /\ Listening \/ r \in KeptAlive
              /\ late' = IF DbOpen THEN late ELSE late \cup {r}

(* It is counted, and handleRequest awaits its body. *)
Begin(r, phase) ==
    /\ Arrives(r)
    /\ inflight' = inflight + 1
    /\ request' = [request EXCEPT ![r] = phase]
    /\ UNCHANGED <<proc, shutdownVars, reply>>

(* Counted and counted down again without an await of anything outside: a  *)
(* route that is not there is answered, a GET is handed to dispatch(),     *)
(* which hands it back, and nobody answers it; the admin API answers.      *)
Answer(r, answer) ==
    /\ Arrives(r)
    /\ answer = "ok" => DbOpen
    /\ request' = [request EXCEPT ![r] = "over"]
    /\ reply' = [reply EXCEPT ![r] = answer]
    /\ UNCHANGED <<proc, shutdownVars, inflight>>

Goto(r, phase) ==
    /\ request' = [request EXCEPT ![r] = phase]
    /\ UNCHANGED <<proc, shutdownVars, inflight, reply, late>>

(* mutant: a request that gets no answer is not counted down *)
Finish_OnlyAnswered(r, answer) ==
    /\ request' = [request EXCEPT ![r] = "over"]
    /\ reply' = [reply EXCEPT ![r] = answer]
    /\ inflight' = IF answer = "none" THEN inflight ELSE inflight - 1
    /\ UNCHANGED <<proc, shutdownVars, late>>

(* mutant: the end of a request counts down twice, and below 0 *)
Finish_Unguarded(r, answer) ==
    /\ request' = [request EXCEPT ![r] = "over"]
    /\ reply' = [reply EXCEPT ![r] = answer]
    /\ inflight' = inflight - 2
    /\ UNCHANGED <<proc, shutdownVars, late>>

(* handleRequest returns and its finally counts it down, never below 0.    *)
Finish(r, answer) ==
    /\ request' = [request EXCEPT ![r] = "over"]
    /\ reply' = [reply EXCEPT ![r] = answer]
    /\ inflight' = IF inflight > 0 THEN inflight - 1 ELSE 0
    /\ UNCHANGED <<proc, shutdownVars, late>>

(* readJsonBody rejects what is too large or no JSON, and dispatch() what  *)
(* has no model.  Otherwise dispatch() runs on to its call of the upstream, *)
(* with the database for the key and the cache: an answer from the cache,  *)
(* a refusal, an exception that becomes a 500, or an await.                *)
BodyRead(r) ==
    /\ proc = "up" /\ request[r] = "body"
    /\ \/ Finish(r, "error")
       \/ DbOpen /\ (Finish(r, "ok") \/ Goto(r, "upstream"))

(* A body that turns out to be empty: handed back, and nobody answers.     *)
BodyEmpty(r) == proc = "up" /\ request[r] = "body" /\ Finish(r, "none")

(* The client breaks off while it sends the body: the error is thrown out  *)
(* of handleRequest, nobody catches the rejection and the process dies.    *)
BodyBreaks(r) == /\ proc = "up" /\ request[r] = "body"
                 /\ proc' = "dead"
                 /\ UNCHANGED <<shutdownVars, inflight, request, reply, late>>

(* The admin API has its body, and uses the database. *)
AdminRead(r) == proc = "up" /\ request[r] = "admin"
                /\ ((DbOpen /\ Finish(r, "ok")) \/ Finish(r, "error"))

(* The upstream answers, or its call fails.  What dispatch() then writes   *)
(* to the database is allowed to fail.                                     *)
UpstreamEnds(r) == proc = "up" /\ request[r] = "upstream"
                   /\ (Finish(r, "ok") \/ Finish(r, "error"))

-----------------------------------------------------------------------------
(* mutant: the last request is not waited for *)
Waits_NotForTheLast(count, time) == count > 1 /\ time < TimeoutMs

(* mutant: one more round after the deadline *)
Waits_PastDeadline(count, time) == count > 0 /\ time < TimeoutMs + PollMs

(* The condition of the drain loop. *)
Waits(count, time) == count > 0 /\ time < TimeoutMs

(* mutant: the timer of the drain loop is not set ahead *)
Look_NoSleep(time) ==
    IF Waits(inflight, time)
    THEN stage' = "draining" /\ wake' = time
    ELSE stage' = "stopped" /\ wake' = 0

(* shutdown() up to its first await, or to its end: the database closes in *)
(* the same step as the count is read.                                     *)
Look(time) ==
    IF Waits(inflight, time)
    THEN stage' = "draining" /\ wake' = time + PollMs
    ELSE stage' = "stopped" /\ wake' = 0

requestVars == <<inflight, request, reply, late>>

(* The first signal starts the shutdown; the other one is then ignored.    *)
Signal(s) ==
    /\ proc = "up" /\ s \in handlers
    /\ handlers' = handlers \ {s}
    /\ IF stage = "running" THEN Look(0) ELSE UNCHANGED <<stage, wake>>
    /\ UNCHANGED <<proc, elapsed, requestVars>>

(* A signal whose handler has been used up kills the process. *)
Kill(s) == /\ proc = "up" /\ s \notin handlers
           /\ proc' = "dead"
           /\ UNCHANGED <<shutdownVars, requestVars>>

(* forceExit() calls the handler itself. *)
ForceExit == /\ proc = "up" /\ stage = "running"
             /\ Look(0)
             /\ UNCHANGED <<proc, handlers, elapsed, requestVars>>

Poll == /\ proc = "up" /\ stage = "draining" /\ elapsed >= wake
        /\ Look(elapsed)
        /\ UNCHANGED <<proc, handlers, elapsed, requestVars>>

(* Only the drain loop measures time; its timer fires when it is due.      *)
Tick == /\ proc = "up" /\ stage = "draining" /\ elapsed < wake
        /\ elapsed' = elapsed + 1
        /\ UNCHANGED <<proc, handlers, stage, wake, requestVars>>

(* A client that was never answered gives up. *)
HangUp(r) == /\ proc = "up" /\ request[r] = "over" /\ reply[r] = "none"
             /\ reply' = [reply EXCEPT ![r] = "error"]
             /\ UNCHANGED <<proc, shutdownVars, inflight, request, late>>

(* Node ends by itself once nothing is open: no listener, no timer and no  *)
(* connection that waits for an answer.                                    *)
Exit == /\ proc = "up" /\ stage = "stopped"
        /\ InFlight = {}
        /\ \A r \in Requests : request[r] = "over" => reply[r] # "none"
        /\ proc' = "exited"
        /\ UNCHANGED <<shutdownVars, requestVars>>

Next == \/ \E r \in Requests :
              \/ \E phase \in {"body", "admin"} : Begin(r, phase)
              \/ \E answer \in Reply : Answer(r, answer)
              \/ BodyRead(r) \/ BodyEmpty(r) \/ BodyBreaks(r)
              \/ AdminRead(r) \/ UpstreamEnds(r) \/ HangUp(r)
        \/ \E s \in Signals : Signal(s) \/ Kill(s)
        \/ ForceExit \/ Poll \/ Tick \/ Exit

(* Timers fire and an idle process ends; nothing is assumed of clients,    *)
(* upstreams or whoever sends signals.                                     *)
Fairness == WF_vars(Tick) /\ WF_vars(Poll) /\ WF_vars(Exit)

Spec == Init /\ [][Next]_vars

FairSpec == Spec /\ Fairness

(* With requests that end: Node bounds how long a body may take, and the   *)
(* connector how long an upstream may (Connector!CallsSettle).             *)
SettlingSpec == FairSpec /\ \A r \in Requests :
    WF_vars(BodyRead(r) \/ BodyEmpty(r) \/ AdminRead(r) \/ UpstreamEnds(r))

-----------------------------------------------------------------------------
(* The tracker counts exactly the requests that are under way, whatever    *)
(* way each of them ends: the drain loop sees the truth.                   *)
InflightIsExact == proc = "up" => inflight = Cardinality(InFlight)

(* The database is not closed under a request unless the request has       *)
(* outlived the deadline, or began when the shutdown was over.             *)
DrainsBeforeClosing ==
    stage = "stopped" /\ elapsed < TimeoutMs => InFlight \subseteq late

(* The drain never outlasts its deadline by a whole polling interval.      *)
ShutdownIsPrompt == elapsed < TimeoutMs + PollMs

(* Liveness: once asked to, the gateway stops, even with requests that     *)
(* never end.                                                              *)
ShutdownCompletes == (stage = "draining") ~> (stage = "stopped" \/ proc # "up")

(* lifecycle.ts:10: "After the deadline expires the process exits          *)
(* regardless".  Once the shutdown is over the process ends, one way or    *)
(* another.                                                                *)
ExitsRegardless == (stage = "stopped") ~> (proc # "up")
=============================================================================
