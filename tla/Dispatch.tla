------------------------------- MODULE Dispatch -------------------------------
(***************************************************************************)
(* dispatch/pipeline.ts with auth/pipeline.ts: the gates a request passes, *)
(* the cache, the upstream call and the answer.  The call is the only      *)
(* await, so a request is two steps.  Routing is one of Router's decisions *)
(* and the call one of Connector's results, whichever; an estimated cost   *)
(* of 0 passes every budget (BudgetTracker!Check).  Whether a key is known, *)
(* active and allowed the model may change with every request.             *)
(*                                                                         *)
(*   a request: none -> (upstream ->) over                                 *)
(***************************************************************************)
EXTENDS RateLimit, ExactCache, FiniteSets

CONSTANTS Requests,       \* the requests that are made, each once
          Wants,          \* what each request may ask for
          CacheEnabled,   \* of the configuration
          NoHeader,
          Horizon         \* bound: how far the clock runs

Want == [key: Keys, fingerprint: Fingerprints, protocol: Protocols, stream: BOOLEAN]

(* A response is named by the request whose upstream call brought it.      *)
ASSUME DispatchConfig ==
    /\ IsFiniteSet(Requests) /\ Responses = Requests
    /\ Wants \in [Requests -> SUBSET Want]
    /\ CacheEnabled \in BOOLEAN
    /\ NoHeader \notin Nat
    /\ Horizon \in Nat

VARIABLE request   \* the state of each request

vars == <<now, rpm, tpm, exact, request>>

(* refused: 400, 401 or 403 at the gates; limited: 429; failed: any other  *)
(* error; unserialized: a 500 although there is a response.                *)
Status == {"none", "ok", "hit", "refused", "limited", "failed", "unserialized"}

(* What the client receives; once ended, headers are on their way.         *)
Reply == [status: Status, ended: BOOLEAN, retryAfter: Nat \cup {NoHeader}]

NoReply == [status |-> "none", ended |-> FALSE, retryAfter |-> NoHeader]

Unset == -1

(* Two fields are auxiliary: the minute in which the request passed the    *)
(* gates of this process, and the time at which its call succeeded.        *)
RequestState == [phase: {"none", "upstream", "over"}, want: Want, reply: Reply,
                 admittedIn: Nat \cup {Unset}, answeredAt: Nat \cup {Unset}]

TypeOK == /\ LimiterTypeOK /\ CacheTypeOK
          /\ request \in [Requests -> RequestState]

Init == /\ LimiterInit
        /\ exact = Empty
        /\ \E want \in [Requests -> Want] :
              /\ \A r \in Requests : want[r] \in Wants[r]
              /\ request = [r \in Requests |->
                    [phase |-> "none", want |-> want[r], reply |-> NoReply,
                     admittedIn |-> Unset, answeredAt |-> Unset]]

-----------------------------------------------------------------------------
(* writeJsonError and writeJsonResponse end the answer they write.         *)
Written(status) == [status |-> status, ended |-> TRUE, retryAfter |-> NoHeader]

(* setHeader throws once the answer is ended; handleRequest then finds the *)
(* headers sent, and can only end it again.  So no 429 has its header,     *)
(* although requirements.md, 5.4, asks for one.                            *)
WithRetryAfter(reply, seconds) ==
    IF reply.ended THEN reply ELSE [reply EXCEPT !.retryAfter = seconds]

Answer(r, reply) ==
    request' = [request EXCEPT ![r].phase = "over", ![r].reply = reply]

AnswerAdmitted(r, reply) ==
    request' = [request EXCEPT ![r].phase = "over", ![r].reply = reply,
                               ![r].admittedIn = MinuteKey(now)]

Arrives(r) == request[r].phase = "none" /\ UNCHANGED now

(* The gates before the rate limit: a model is named, the key is there,    *)
(* its row is neither missing nor revoked and allows the model.            *)
Refused(r) == /\ Arrives(r)
              /\ Answer(r, Written("refused"))
              /\ UNCHANGED <<limiterVars, exact>>

(* 429: the answer is written before its header is set. *)
TooMany(r) == /\ Arrives(r) /\ TurnAway(request[r].want.key)
              /\ Answer(r, WithRetryAfter(Written("limited"), RetryAfter(now)))
              /\ UNCHANGED exact

Admitted(r) == Arrives(r) /\ Reserve(request[r].want.key)

(* Answered without an upstream: no such protocol, a body that makes no    *)
(* request...                                                              *)
Malformed(r) == /\ Admitted(r)
                /\ AnswerAdmitted(r, Written("failed"))
                /\ UNCHANGED exact

Cached(w) == Hits(w.fingerprint, w.protocol, w.stream, now)

(* ... an answer in the cache, which is asked even if nothing is stored... *)
CacheHit(r) ==
    /\ Admitted(r) /\ Cached(request[r].want)
    /\ \E status \in {"hit", "unserialized"} : AnswerAdmitted(r, Written(status))
    /\ UNCHANGED exact

(* ... no upstream to route to, or none whose adapter and provider exist.  *)
Unroutable(r) == /\ Admitted(r) /\ ~Cached(request[r].want)
                 /\ AnswerAdmitted(r, Written("failed"))
                 /\ UNCHANGED exact

CallsUpstream(r) ==
    /\ Admitted(r) /\ ~Cached(request[r].want)
    /\ request' = [request EXCEPT ![r].phase = "upstream",
                                  ![r].admittedIn = MinuteKey(now)]
    /\ UNCHANGED exact

-----------------------------------------------------------------------------
(* The answer is stored unless it was asked for as a stream; a statement   *)
(* that fails is passed over.                                              *)
Store(r) ==
    LET w == request[r].want
    IN  \/ ~w.stream /\ CacheEnabled /\ Put(w.fingerprint, w.protocol, r, now)
        \/ UNCHANGED exact

(* The call succeeds.  The answer is in the cache before it is serialized, *)
(* which may fail.  The row of usage is written last, and failing to write *)
(* it changes nothing.                                                     *)
Succeeds(r) ==
    /\ request[r].phase = "upstream"
    /\ Store(r)
    /\ \E status \in {"ok", "unserialized"} :
          request' = [request EXCEPT ![r].phase = "over", ![r].answeredAt = now,
                                     ![r].reply = Written(status)]
    /\ UNCHANGED <<now, limiterVars>>

(* mutant: a call that failed gives back what was reserved for it *)
Fails_Refunds(r) ==
    LET k == request[r].want.key
    IN  /\ request[r].phase = "upstream"
        /\ Answer(r, Written("failed"))
        /\ rpm' = [rpm EXCEPT ![k].used = @ - 1]
        /\ UNCHANGED <<now, tpm, exact>>

(* It ends in any other way. *)
Fails(r) == /\ request[r].phase = "upstream"
            /\ Answer(r, Written("failed"))
            /\ UNCHANGED <<now, limiterVars, exact>>

-----------------------------------------------------------------------------
(* handleClearCache, and the sweep that drops what has expired. *)
ClearCache == Clear /\ UNCHANGED <<now, limiterVars, request>>

Sweep == Prune(now) /\ UNCHANGED <<now, limiterVars, request>>

(* The process starts again: the windows and the requests under way are    *)
(* gone, the tables stay.                                                  *)
Restart ==
    /\ rpm' = NoWindows /\ tpm' = NoWindows
    /\ request' = [r \in Requests |->
                     IF request[r].phase = "none" THEN request[r]
                     ELSE [request[r] EXCEPT !.phase = "over", !.admittedIn = Unset]]
    /\ UNCHANGED <<now, exact>>

Tick == now < Horizon /\ now' = now + 1 /\ UNCHANGED <<limiterVars, exact, request>>

Next == \/ \E r \in Requests :
              \/ Refused(r) \/ TooMany(r) \/ Malformed(r) \/ CacheHit(r)
              \/ Unroutable(r) \/ CallsUpstream(r) \/ Succeeds(r) \/ Fails(r)
        \/ ClearCache \/ Sweep \/ Restart \/ Tick

Spec == Init /\ [][Next]_vars

-----------------------------------------------------------------------------
(* The requests of key k let through in minute m, since the boot. *)
Passed(k, m) ==
    {r \in Requests : request[r].want.key = k /\ request[r].admittedIn = m}

(* The windows count exactly the requests that were let through in this    *)
(* minute: one that is refused, for whatever reason, consumes nothing of   *)
(* either dimension (rate-limit.ts:40-44), however the minutes pass.       *)
QuotaIsExact ==
    \A k \in Keys :
        LET n == Cardinality(Passed(k, MinuteKey(now)))
        IN  /\ Limits[k].rpm # NoLimit => Current(rpm[k]).used = n
            /\ Limits[k].tpm # NoLimit => Current(tpm[k]).used = Tokens * n

(* No key gets more through in any minute than its limits say, with any    *)
(* number of requests under way at once.                                   *)
QuotaIsKept ==
    \A k \in Keys : \A m \in 0..MinuteKey(Horizon) :
        LET n == Cardinality(Passed(k, m))
        IN  /\ Limits[k].rpm # NoLimit => n <= Limits[k].rpm
            /\ Limits[k].tpm # NoLimit => Tokens * n <= Limits[k].tpm

(* Whatever the cache would answer a request now is what an upstream       *)
(* answered to the same question in the same protocol, no longer ago than  *)
(* the entry's lifetime, and never the answer to a stream: whoever stored  *)
(* over it, and whatever was cleared or restarted in between.              *)
HitsAreGenuine ==
    \A w \in Want : Cached(w) =>
        LET s == exact[w.fingerprint].response
        IN  /\ request[s].answeredAt # Unset
            /\ now - request[s].answeredAt < TtlMs
            /\ request[s].want.fingerprint = w.fingerprint
            /\ request[s].want.protocol = w.protocol
            /\ ~request[s].want.stream
=============================================================================
