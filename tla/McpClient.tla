------------------------------- MODULE McpClient -------------------------------
(***************************************************************************)
(* MCPClient (mcp/client.ts): requests to a server that runs as a child    *)
(* process, over its stdin and stdout.  Children are started, stopped and  *)
(* end when they like; what a child wrote is read in pieces of any length, *)
(* also after it ended; its end is reported by an event some time later.   *)
(*                                                                         *)
(* An answer, an error among them, is a line in two halves, the second     *)
(* with the line's end.  The list of tools listTools keeps is left out.    *)
(* A write to a child that has just ended is taken to vanish: Node may     *)
(* also raise an error that nobody handles, which ends the gateway.        *)
(***************************************************************************)
EXTENDS Integers, Sequences, FiniteSets

CONSTANTS MaxChildren,  \* bound: the children ever started
          MaxRequests   \* bound: the requests ever made

ASSUME McpConfig == MaxChildren \in Nat /\ MaxRequests \in Nat

Children == 1..MaxChildren
Requests == 1..MaxRequests
NoChild == 0
NoRequest == 0

VARIABLES proc,      \* this.proc: a child or NoChild
          child,     \* child -> "unborn", "running", "gone", "reported"; "failed", "known"
          nextId,
          pending,   \* id -> the request that waits for its answer
          inbox,     \* child -> requests it read and did not answer: [id, request]
          pipe,      \* child -> the halves it wrote that were not read
          buffer,    \* this.buffer, one for all children
          requests,  \* the requests made, in order: [child, state, got]
          stopping   \* the children whose stop() has not come to its failAll

mcpVars == <<proc, child, nextId, pending, inbox, pipe, buffer, requests, stopping>>

Status == {"unborn", "running", "gone", "reported", "failed", "known"}
Message == [id: Nat, request: Requests]
Half == [id: Nat, request: Requests, last: BOOLEAN]
Request == [child: Children, state: {"waiting", "answered", "failed"},
            got: Requests \cup {NoRequest}]

McpTypeOK ==
    /\ proc \in Children \cup {NoChild}
    /\ child \in [Children -> Status]
    /\ nextId \in Nat \ {0}
    /\ DOMAIN pending \subseteq Nat /\ \A i \in DOMAIN pending : pending[i] \in DOMAIN requests
    /\ inbox \in [Children -> SUBSET Message]
    /\ pipe \in [Children -> Seq(Half)]
    /\ buffer \in Seq(Half)
    /\ requests \in Seq(Request) /\ Len(requests) <= MaxRequests
    /\ stopping \subseteq Children

McpInit ==
    /\ proc = NoChild /\ child = [c \in Children |-> "unborn"]
    /\ nextId = 1 /\ pending = <<>>
    /\ inbox = [c \in Children |-> {}] /\ pipe = [c \in Children |-> <<>>]
    /\ buffer = <<>> /\ requests = <<>> /\ stopping = {}

-----------------------------------------------------------------------------
(* mutant: a new child is counted to anew *)
IdAfterStart_Anew == 1

IdAfterStart == nextId

(* start(); the child may turn out not to be there at all. *)
StartChild(c, outcome) ==
    /\ proc = NoChild
    /\ child[c] = "unborn" /\ \A d \in Children : d < c => child[d] # "unborn"
    /\ outcome \in {"running", "failed"}
    /\ child' = [child EXCEPT ![c] = outcome]
    /\ proc' = c
    /\ nextId' = IdAfterStart
    /\ UNCHANGED <<pending, inbox, pipe, buffer, requests, stopping>>

(* request(): the id waits before anything is written. *)
MakeRequest ==
    LET r == Len(requests) + 1
    IN  /\ proc # NoChild
        /\ Len(requests) < MaxRequests
        /\ nextId' = nextId + 1
        /\ pending' = [i \in DOMAIN pending \cup {nextId} |->
                         IF i = nextId THEN r ELSE pending[i]]
        /\ requests' = Append(requests, [child |-> proc, state |-> "waiting", got |-> NoRequest])
        /\ inbox' = IF child[proc] = "running"
                    THEN [inbox EXCEPT ![proc] = @ \cup {[id |-> nextId, request |-> r]}]
                    ELSE inbox
        /\ UNCHANGED <<proc, child, pipe, buffer, stopping>>

(* mutant: the first that waits is failed, the others are forgotten *)
FailAll_OnlyFirst ==
    /\ requests' = [r \in DOMAIN requests |->
                      IF \E i \in DOMAIN pending : /\ pending[i] = r
                                                   /\ \A j \in DOMAIN pending : i <= j
                      THEN [requests[r] EXCEPT !.state = "failed"] ELSE requests[r]]
    /\ pending' = <<>>

(* All that wait are failed, whichever child they were made to. *)
FailAll ==
    /\ requests' = [r \in DOMAIN requests |->
                      IF \E i \in DOMAIN pending : pending[i] = r
                      THEN [requests[r] EXCEPT !.state = "failed"] ELSE requests[r]]
    /\ pending' = <<>>

(* stop(): the exit is awaited of a child that can be killed, and nothing  *)
(* of one that never was; then, in a step of its own, failAll.             *)
Stop ==
    /\ proc # NoChild
    /\ proc' = NoChild
    /\ stopping' = stopping \cup {proc}
    /\ UNCHANGED <<child, nextId, pending, inbox, pipe, buffer, requests>>

Stopped(c) ==
    /\ c \in stopping /\ child[c] \in {"reported", "failed", "known"}
    /\ stopping' = stopping \ {c}
    /\ FailAll
    /\ UNCHANGED <<proc, child, nextId, inbox, pipe, buffer>>

-----------------------------------------------------------------------------
(* The child answers what it likes first. *)
ChildAnswers(c, m) ==
    /\ child[c] = "running" /\ m \in inbox[c]
    /\ inbox' = [inbox EXCEPT ![c] = @ \ {m}]
    /\ pipe' = [pipe EXCEPT ![c] = @ \o <<[id |-> m.id, request |-> m.request, last |-> FALSE],
                                          [id |-> m.id, request |-> m.request, last |-> TRUE]>>]
    /\ UNCHANGED <<proc, child, nextId, pending, buffer, requests, stopping>>

(* It ends, killed or not, perhaps in the middle of a line. *)
ChildExits(c, cut) ==
    /\ child[c] = "running"
    /\ cut \in 0..1 /\ cut <= Len(pipe[c])
    /\ child' = [child EXCEPT ![c] = "gone"]
    /\ inbox' = [inbox EXCEPT ![c] = {}]
    /\ pipe' = [pipe EXCEPT ![c] = SubSeq(@, 1, Len(@) - cut)]
    /\ UNCHANGED <<proc, nextId, pending, buffer, requests, stopping>>

(* The positions of the line ends, and the halves that end a line which    *)
(* is whole: the first half of the same answer and nothing before it.      *)
Ends(s) == {i \in DOMAIN s : s[i].last}
Whole(s) == {s[i] : i \in {j \in Ends(s) : /\ j > 1
                                           /\ ~s[j - 1].last /\ s[j - 1].id = s[j].id
                                           /\ s[j - 1].request = s[j].request
                                           /\ j > 2 => s[j - 2].last}}
Rest(s) == LET n == CHOOSE n \in Ends(s) \cup {0} : \A i \in Ends(s) : i <= n
           IN  SubSeq(s, n + 1, Len(s))

(* onStdout: a line that is not JSON, or whose id nobody waits for, is     *)
(* passed over.                                                            *)
OnStdout(c, n) ==
    LET text  == buffer \o SubSeq(pipe[c], 1, n)
        heard == {h \in Whole(text) : h.id \in DOMAIN pending}
    IN  /\ n \in 1..Len(pipe[c])
        /\ pipe' = [pipe EXCEPT ![c] = SubSeq(@, n + 1, Len(@))]
        /\ buffer' = Rest(text)
        /\ pending' = [i \in DOMAIN pending \ {h.id : h \in heard} |-> pending[i]]
        /\ requests' = [r \in DOMAIN requests |->
                          IF \E h \in heard : pending[h.id] = r
                          THEN [requests[r] EXCEPT
                                  !.state = "answered",
                                  !.got = (CHOOSE h \in heard : pending[h.id] = r).request]
                          ELSE requests[r]]
        /\ UNCHANGED <<proc, child, nextId, inbox, stopping>>

(* onExit forgets the child that runs now, whichever it was that ended. *)
ReportExit(c) ==
    /\ child[c] = "gone"
    /\ child' = [child EXCEPT ![c] = "reported"]
    /\ proc' = NoChild
    /\ FailAll
    /\ UNCHANGED <<nextId, inbox, pipe, buffer, stopping>>

(* The 'error' of a spawn that failed; this.proc stays. *)
ReportError(c) ==
    /\ child[c] = "failed"
    /\ child' = [child EXCEPT ![c] = "known"]
    /\ FailAll
    /\ UNCHANGED <<proc, nextId, inbox, pipe, buffer, stopping>>

McpNext ==
    \/ MakeRequest \/ Stop
    \/ \E c \in Children :
          \/ \E outcome \in {"running", "failed"} : StartChild(c, outcome)
          \/ \E m \in inbox[c] : ChildAnswers(c, m)
          \/ \E cut \in 0..1 : ChildExits(c, cut)
          \/ \E n \in 1..Len(pipe[c]) : OnStdout(c, n)
          \/ Stopped(c)
          \/ ReportExit(c)
          \/ ReportError(c)

(* Node reports every exit of a child. *)
McpFairness == \A c \in Children : WF_mcpVars(ReportExit(c))

McpSpec == McpInit /\ [][McpNext]_mcpVars /\ McpFairness

-----------------------------------------------------------------------------
(* A request that got an answer got its own: however the children's        *)
(* answers are cut into pieces, swapped, lost with a child, or late and    *)
(* mixed into the output of the next child, none is taken for the answer   *)
(* to another request.                                                     *)
AnswersAreTheirOwn ==
    /\ McpTypeOK
    /\ \A r \in DOMAIN requests : requests[r].state = "answered" => requests[r].got = r

(* Nobody waits for ever for a child that ended: its exit, once reported,  *)
(* settles every request that was made to it, stopped or not, and also     *)
(* when another child was started in the meantime.                         *)
ExitSettlesCalls ==
    \A c \in Children, r \in Requests :
       (/\ r \in DOMAIN requests /\ requests[r].child = c
        /\ child[c] \in {"gone", "reported"})
       ~> (r \in DOMAIN requests /\ requests[r].state # "waiting")
=============================================================================
