------------------------------- MODULE Exchange -------------------------------
(***************************************************************************)
(* The way of a request through the protocols: a client's body is parsed   *)
(* (parseIncomingRequest), looked up in the cache by its fingerprint, made *)
(* into a body for the upstream once by dispatch and, after the wait for   *)
(* the vendor's rate limit, once more by HttpConnector.call, which sends   *)
(* the second; the document that is answered is parsed, stored and         *)
(* serialized for the client.  The request of the IR is one object all the *)
(* way.  Requests come one after the other: what Dispatch shows of         *)
(* concurrent ones does not depend on what they say.                       *)
(*                                                                         *)
(* Streams are read by EventStream; no request follows one (a bound).      *)
(***************************************************************************)
EXTENDS EventStream

CONSTANTS Requests,     \* what clients send: [client, body]
          Documents,    \* what upstreams answer: [upstream -> documents]
          MaxExchanges  \* bound

ASSUME ExchangeConfig ==
    /\ \A r \in Requests : r.client \in ClientProtocols /\ r.body \in BodyOf(r.client)
    /\ DOMAIN Documents \subseteq ProviderProtocols
    /\ \A u \in DOMAIN Documents : \A d \in Documents[u] : d \in Document
    /\ MaxExchanges \in Nat
    /\ \A n \in 1..MaxExchanges : Drawn[n] \in Ids

(* An entry of the cache, with the request it was stored for and the model *)
(* its client had named, which dispatch routes by (both auxiliary).        *)
Stored == [client: ClientProtocols, fingerprint: [model: Models, messages: Seq(Message),
              options: SUBSET Options, tools: SUBSET Tools, toolChoice: NamedChoices \cup Tools],
           response: Response, asked: Request, named: Models]

Phases == {"idle", "accepted", "sent", "answered", "hit", "refused"}

VARIABLES upstream,  \* the protocol the requests are routed to
          phase,     \* of the exchange
          exchanges, \* how many there were
          asked,     \* what the client sent
          ir,        \* the request of the IR
          parsed,    \* what it was when it was parsed (auxiliary)
          wire,      \* the body that was sent to the upstream
          document,  \* what it answered
          reply,     \* what the client received
          hit,       \* the entry that answered (auxiliary)
          cache      \* at most the last entry: a bound

vars == <<upstream, phase, exchanges, asked, ir, parsed, wire, document, reply, hit,
          cache, streamVars>>

TypeOK == /\ StreamTypeOK
          /\ upstream \in DOMAIN Documents
          /\ phase \in Phases /\ exchanges \in 0..MaxExchanges
          /\ asked \in Seq(Requests)
          /\ ir \in Seq(Request) /\ parsed \in Seq(Request)
          /\ wire \in Seq(Wire) /\ document \in Seq(Document)
          /\ \A i \in DOMAIN reply : reply[i].usage \in Usage
          /\ cache \in Seq(Stored) /\ hit \in Seq(Stored)

Init == /\ StreamInit
        /\ upstream \in DOMAIN Documents
        /\ phase = "idle" /\ exchanges = 0
        /\ asked = <<>> /\ ir = <<>> /\ parsed = <<>> /\ wire = <<>>
        /\ document = <<>> /\ reply = <<>> /\ hit = <<>> /\ cache = <<>>

-----------------------------------------------------------------------------
Over == phase \in {"idle", "answered", "hit", "refused"}

(* ExactCache.lookup, of an entry that has not expired. *)
Hits(client, request) ==
    Filter(cache, LAMBDA e : /\ ~request.stream /\ e.client = client
                             /\ e.fingerprint = Fingerprint(request))

Arrives(r) ==
    /\ Over /\ exchanges < MaxExchanges /\ stream = <<>>
    /\ exchanges' = exchanges + 1 /\ asked' = <<r>>
    /\ UNCHANGED <<upstream, streamVars>>

(* 400: the body makes no request. *)
Refuse(r) == /\ Arrives(r) /\ ~Acceptable(r.client, r.body)
             /\ phase' = "refused"
             /\ ir' = <<>> /\ parsed' = <<>> /\ wire' = <<>> /\ document' = <<>>
             /\ reply' = <<>> /\ hit' = <<>>
             /\ UNCHANGED cache

Requested(r) == ParseIncomingRequest(r.client, r.body, exchanges + 1)

AnswerFromCache(r) ==
    /\ Arrives(r) /\ Acceptable(r.client, r.body)
    /\ Hits(r.client, Requested(r)) # <<>>
    /\ phase' = "hit"
    /\ ir' = <<Requested(r)>> /\ parsed' = ir' /\ wire' = <<>> /\ document' = <<>>
    /\ hit' = Hits(r.client, Requested(r))
    /\ reply' = <<SerializeResponse(r.client, hit'[1].response)>>
    /\ UNCHANGED cache

(* Building the body a first time leaves its mark on the request. *)
Accept(r) ==
    /\ Arrives(r) /\ Acceptable(r.client, r.body)
    /\ Hits(r.client, Requested(r)) = <<>>
    /\ phase' = "accepted"
    /\ parsed' = <<Requested(r)>> /\ ir' = <<AfterBuild(upstream, Requested(r))>>
    /\ wire' = <<>> /\ document' = <<>> /\ reply' = <<>> /\ hit' = <<>>
    /\ UNCHANGED cache

(* The turn for the vendor has come: the body is built again, and sent.    *)
(* Attempts after the first send the same text.                            *)
Send == /\ phase = "accepted"
        /\ phase' = "sent"
        /\ wire' = <<BuildRequestBody(upstream, ir[1])>>
        /\ ir' = <<AfterBuild(upstream, ir[1])>>
        /\ UNCHANGED <<upstream, exchanges, asked, parsed, document, reply, hit, cache, streamVars>>

(* Of any other outcome of the call, and of a document that cannot be      *)
(* parsed, nothing is told but an error.                                   *)
CallFails == /\ phase = "sent"
             /\ phase' = "refused"
             /\ document' \in {<<>>} \cup {<<d>> : d \in
                    {x \in Documents[upstream] : ~Parsable(upstream, x)}}
             /\ UNCHANGED <<upstream, exchanges, asked, ir, parsed, wire, reply, hit, cache, streamVars>>

(* The answer is stored under the fingerprint of the request as it was     *)
(* when it was parsed, unless a stream was asked for.                      *)
CallSucceeds(d) ==
    LET client   == asked[1].client
        response == ParseResponse(upstream, d, exchanges)
    IN  /\ phase = "sent" /\ Parsable(upstream, d)
        /\ phase' = "answered"
        /\ document' = <<d>>
        /\ reply' = <<SerializeResponse(client, response)>>
        /\ cache' = IF ir[1].stream THEN cache
                    ELSE <<[client |-> client, fingerprint |-> Fingerprint(parsed[1]),
                            response |-> response, asked |-> parsed[1],
                            named |-> asked[1].body.model]>>
        /\ UNCHANGED <<upstream, exchanges, asked, ir, parsed, wire, hit, streamVars>>

ExchangeNext == \/ \E r \in Requests : Refuse(r) \/ AnswerFromCache(r) \/ Accept(r)
                \/ Send \/ CallFails
                \/ \E d \in Documents[upstream] : CallSucceeds(d)

Next == \/ ExchangeNext
        \/ /\ exchanges = 0 /\ StreamNext
           /\ UNCHANGED <<upstream, phase, exchanges, asked, ir, parsed, wire, document,
                          reply, hit, cache>>

Spec == Init /\ [][Next]_vars

-----------------------------------------------------------------------------
(* What a client said: the texts of its system field and messages, and the *)
(* texts of its turns; an array of Chat Completions is not read, and of    *)
(* GenerateContent no thinking is.                                         *)
Readable(m) == ~(asked[1].client = "OpenAI-Chat" /\ m.shape = "array" /\ m.role # "tool")

SystemSaid ==
    LET body == asked[1].body
    IN  FlattenSeq(body.system) \o
        FlattenSeq(Mapped(LAMBDA m : Joined(Texts(m.parts)),
                          Filter(body.messages, LAMBDA m : IsSystem(m) /\ Readable(m))))

TurnsSaid ==
    FlattenSeq(Mapped(LAMBDA m : Joined(Texts(m.parts)),
                      Filter(asked[1].body.messages,
                             LAMBDA m : IsTurn(m) /\ m.role # "tool" /\ Readable(m))))

Sent == phase \in {"sent", "answered"}

WireTexts(IsOne(_)) ==
    FlattenSeq(Mapped(LAMBDA m : Joined(Texts(m.parts)), Filter(wire[1].messages, IsOne)))

Times(text, n) == FlattenSeq([i \in 1..n |-> text])

(* What the client said reaches the upstream, each text once and in order  *)
(* and as the role that said it.  Wenxin has no system role: there the     *)
(* system texts come before what the first user said - twice if that was a *)
(* text, because the body is built twice of a request that building        *)
(* changes (WenxinAdapter, HttpConnector.call).                            *)
RequestIsKept ==
    Sent =>
        IF upstream # "Wenxin"
        THEN /\ FlattenSeq(wire[1].system) \o WireTexts(IsSystem) = SystemSaid
             /\ WireTexts(IsTurn) = TurnsSaid
        ELSE \E n \in {1, 2}, i \in 0..Len(TurnsSaid) :
                /\ WireTexts(LAMBDA m : TRUE) =
                      SubSeq(TurnsSaid, 1, i) \o Times(SystemSaid, n)
                      \o SubSeq(TurnsSaid, i + 1, Len(TurnsSaid))
                /\ n = 2 => FirstUser(wire[1].messages) > 0

(* The parts of some messages of a body, one after the other. *)
PartsOf(messages) == FlattenSeq(Mapped(LAMBDA m : m.parts, messages))

(* Whose calls are passed on: an assistant's, and to Gemini, which is sent *)
(* every part, all but a Chat client's; Responses has none.                *)
MayCall(m) ==
    /\ asked[1].client # "OpenAI-Responses"
    /\ \/ m.role \in {"assistant", "model"}
       \/ upstream = "Gemini" /\ asked[1].client # "OpenAI-Chat"

(* The calls of the conversation; a Chat client's arguments are a text.    *)
CallsMade ==
    Mapped(LAMBDA p : <<p.name, IF asked[1].client = "OpenAI-Chat" THEN Parsed(p.text) ELSE p.text>>,
           ToolUses(PartsOf(Filter(asked[1].body.messages, MayCall))))

(* The results that are passed on: a Chat client's to everyone, the others, *)
(* which are in a user's message, only to Gemini; a Gemini client does not  *)
(* name the call.                                                          *)
ResultsGiven ==
    LET messages == asked[1].body.messages
    IN  CASE asked[1].client = "OpenAI-Chat" ->
                Mapped(LAMBDA m : <<m.id, Joined(Texts(m.parts))>>,
                       Filter(messages, LAMBDA m : m.role = "tool"))
          [] asked[1].client = "Anthropic-Messages" /\ upstream = "Gemini" ->
                Mapped(LAMBDA p : <<p.id, p.text>>, Results(PartsOf(messages)))
          [] asked[1].client = "Gemini-GenerateContent" /\ upstream = "Gemini" ->
                Mapped(LAMBDA p : <<NoId, p.text>>, Results(PartsOf(messages)))
          [] OTHER -> <<>>

AsProvider(client) ==
    CASE client = "Anthropic-Messages"    -> "Anthropic"
      [] client = "Gemini-GenerateContent" -> "Gemini"
      [] OTHER                             -> "OpenAI"

(* What is left of the choice a client leaves: there is no 'none' where    *)
(* the client or the upstream is Anthropic's, and a Gemini client's choice  *)
(* is only passed on if it forbids or requires a tool.                     *)
ChoiceLeft ==
    LET choice == asked[1].body.toolChoice
    IN  CASE choice = "none" /\ "Anthropic" \in {upstream, AsProvider(asked[1].client)} -> "auto"
          [] choice \notin {"none", "required"} /\ AsProvider(asked[1].client) = "Gemini" -> "absent"
          [] OTHER -> choice

(* The tools a client offers, the choice it leaves, its options and the    *)
(* calls and results of the conversation reach the upstream: each call and *)
(* each result once and in order, a call with its name and arguments, a    *)
(* result under the id of its call.                                        *)
ToolTrafficIsKept ==
    Sent =>
        LET wired == PartsOf(wire[1].messages)
        IN  /\ wire[1].tools = asked[1].body.tools
            /\ wire[1].toolChoice = ChoiceLeft
            /\ asked[1].body.options \ {"stop"} \subseteq wire[1].options
            /\ Mapped(LAMBDA p : <<p.name, p.text>>, ToolUses(wired)) = CallsMade
            /\ Mapped(LAMBDA p : <<p.id, p.text>>, Results(wired)) = ResultsGiven

(* The words in which each client is told why an answer ended. *)
CutOff   == {"length", "max_tokens", "MAX_TOKENS"}
Filtered == {"content_filter", "refusal", "SAFETY"}

(* The texts and the calls of some choices. *)
WordsOf(choices) == FlattenSeq(Mapped(LAMBDA c : Joined(Texts(c.parts)), choices))
Called(parts)    == Mapped(LAMBDA p : <<p.name, Parsed(p.text)>>, ToolUses(parts))
CallsOf(choices) == FlattenSeq(Mapped(LAMBDA c : Called(c.parts), choices))

(* Anthropic gives every call an id and a name; one without is no call.    *)
Answered(c) ==
    [c EXCEPT !.parts = Filter(@, LAMBDA p : upstream = "Anthropic" /\ IsToolUse(p)
                                                => p.id # NoId /\ p.name # NoTool)]

(* The texts, calls and usage of the document reach the client, choice by  *)
(* choice (for Messages in one), and an answer that was cut off or         *)
(* filtered says so, except to a Responses client, who is told that every  *)
(* answer is complete.                                                     *)
AnswerIsKept ==
    phase = "answered" =>
        LET client  == asked[1].client
            choices == document[1].choices
        IN  /\ WordsOf(reply[1].choices) = WordsOf(choices)
            /\ CallsOf(reply[1].choices) = CallsOf(Mapped(Answered, choices))
            /\ client # "Anthropic-Messages" => Len(reply[1].choices) = Len(choices)
            /\ document[1].usage # <<>> =>
                  /\ reply[1].usage.prompt = document[1].usage[1].prompt
                  /\ reply[1].usage.completion = document[1].usage[1].completion
            /\ client # "OpenAI-Responses" /\ choices # <<>> =>
                  LET why == MapFinishReason(upstream, choices[1].finish)
                  IN  /\ why = "length" <=> reply[1].choices[1].finish \in CutOff
                      /\ why = "content_filter" <=> reply[1].choices[1].finish \in Filtered

(* What a request asks of the model that answers it. *)
Question(request) ==
    [system |-> FlattenSeq(SystemTexts(request.messages)),
     turns |-> Mapped(NormalizeMessage, Filter(request.messages, IsTurn)),
     options |-> request.options \ {"stop"}, tools |-> request.tools,
     choice |-> request.toolChoice]

(* An answer from the cache is the answer to this question: the request it *)
(* was stored for says the same, in the same protocol, with the same       *)
(* options and tools, of the model the client names, and its fingerprint   *)
(* was taken before the upstream's adapter had changed it (fingerprint,    *)
(* ExactCache.lookup).  Two things are not part of the fingerprint and so  *)
(* not of this: the stop sequences, and the model a Gemini client names    *)
(* (HitsAreOfTheModel).                                                    *)
CacheAnswersTheQuestion ==
    phase = "hit" =>
        /\ Question(parsed[1]) = Question(hit[1].asked)
        /\ hit[1].client = asked[1].client
        /\ asked[1].client # "Gemini-GenerateContent" => hit[1].named = asked[1].body.model

(* normalize.ts:114-115 says that "any semantic difference (model id, ...) *)
(* yields a different hash": whoever is answered from the cache is given   *)
(* the answer of the model it named.                                       *)
HitsAreOfTheModel == phase = "hit" => hit[1].named = asked[1].body.model
=============================================================================
