------------------------------ MODULE EventStream ------------------------------
(***************************************************************************)
(* HttpConnector.stream over connector/sse-decoder.ts: the text of an      *)
(* upstream's event stream arrives in chunks that may end anywhere, is     *)
(* split into events, parsed by the adapter, and serialized event by event *)
(* for the client, with a state that is kept from one event to the next.   *)
(*                                                                         *)
(* The text is a sequence of tokens: the characters that end lines, and    *)
(* the lines, by their field.  A chunk that ends inside a line is read as  *)
(* one that ends before it.  Nothing in src/ consumes such a stream yet:   *)
(* the consumer that serializes every event as it comes is external.       *)
(***************************************************************************)
EXTENDS Adapters

CONSTANTS Streams,     \* the streams an upstream may send
          ChunkLength, \* bound: the tokens of a chunk
          ThinkingId   \* under which a serializer keeps a block of thinking

(* What a data line holds: a JSON object with the fields an adapter looks  *)
(* for, the end marker, or neither.  found: the fields are where the       *)
(* adapter looks for them; first: there is a choice or a candidate.        *)
NoPayload == [type |-> "none", first |-> FALSE, found |-> FALSE, text |-> <<>>,
              thinking |-> <<>>, tools |-> <<>>, finish |-> <<>>, usage |-> <<>>]

ToolDelta == [id: Ids, name: Seq(Tools), arguments: Seq(Text)]

(* A field that may be missing. *)
Optional(S) == {s \in Seq(S) : Len(s) <= 1}

Payload == [type: STRING, first: BOOLEAN, found: BOOLEAN, text: Optional(Text),
            thinking: Optional(Text), tools: Seq(ToolDelta), finish: Optional(STRING),
            usage: Optional(Usage)]

LF == [kind |-> "LF", payload |-> NoPayload]
CR == [kind |-> "CR", payload |-> NoPayload]

Line == [kind: {"data", "event", "comment"}, payload: Payload]

Token == {LF, CR} \cup Line

(* IRStreamEvent *)
Event == [text: Optional(Text), thinking: Optional(Text), tool: Seq(ToolDelta),
          finish: Optional(FinishReasons), usage: Optional(Usage)]

NoEvent == [text |-> <<>>, thinking |-> <<>>, tool |-> <<>>, finish |-> <<>>, usage |-> <<>>]

(* Why an answer ended, in the words of the clients. *)
StopReasons == FinishReasons \cup {"end_turn", "tool_use", "max_tokens", "refusal", "completed"}

(* ClientSseEvent; start: it opens a block and says nothing else.          *)
ClientEvent == [start: BOOLEAN, text: Optional(Text), thinking: Optional(Text),
                tool: Seq(ToolDelta), finish: Optional(StopReasons), usage: Optional(Usage)]

Silent == [start |-> FALSE, text |-> <<>>, thinking |-> <<>>, tool |-> <<>>,
           finish |-> <<>>, usage |-> <<>>]

(* StreamState; nothing sets done. *)
StreamState == [outputItemId: BOOLEAN, toolUseId: Seq(Ids)]

Stream == [client: ClientProtocols, upstream: ProviderProtocols, tokens: Seq(Token)]

(* A stream ends its lines in one way: each CR is before an LF, and an LF  *)
(* after a CR if there are any.                                            *)
OneLineEnd(tokens) ==
    \/ \A i \in DOMAIN tokens : tokens[i] # CR
    \/ \A i \in DOMAIN tokens : tokens[i] = LF <=> i > 1 /\ tokens[i - 1] = CR

ASSUME StreamsConfig == /\ \A s \in Streams : s \in Stream /\ OneLineEnd(s.tokens)
                        /\ ChunkLength \in Nat \ {0}
                        /\ ThinkingId \in Ids \ {NoId}

VARIABLES stream,  \* <<>>, or the stream that is read
          read,    \* how many of its tokens have arrived
          buffer,  \* of the decoder
          heard,   \* what stream() has yielded: an event or none for each
          state,   \* of the serializer
          told,    \* what the client was sent
          closed   \* how the stream ended: "open", "ended", "broken"

streamVars == <<stream, read, buffer, heard, state, told, closed>>

StreamTypeOK == /\ stream \in Seq(Stream) /\ Len(stream) <= 1
                /\ read \in Nat /\ buffer \in Seq(Token)
                /\ heard \in Seq(Seq(Event)) /\ told \in Seq(ClientEvent)
                /\ state \in StreamState
                /\ closed \in {"open", "ended", "broken"}

StreamInit == /\ stream = <<>> /\ read = 0 /\ buffer = <<>> /\ heard = <<>>
              /\ state = [outputItemId |-> FALSE, toolUseId |-> <<>>]
              /\ told = <<>> /\ closed = "open"

-----------------------------------------------------------------------------
(* indexOf, 0 if there is none. *)
IndexOf(b, s) ==
    SelectInSeq([i \in DOMAIN b |-> SubSeq(b, i, Len(b))], LAMBDA rest : IsPrefix(s, rest))

BlankLF   == <<LF, LF>>
BlankCRLF == <<CR, LF, CR, LF>>

(* Where the first event of a buffer ends; one that ends in line feeds is  *)
(* looked for first.                                                       *)
Boundary(b) == IF IndexOf(b, BlankLF) > 0 THEN IndexOf(b, BlankLF) ELSE IndexOf(b, BlankCRLF)

(* mutant: a chunk replaces what was not decoded yet *)
Appended_Overwrites(chunk) == chunk

(* What there is to decode when a chunk arrives. *)
Appended(chunk) == buffer \o chunk

(* One turn of the loop of SSEDecoder.push, which stands still when there   *)
(* is no whole event left.                                                 *)
Turn(d) ==
    LET i == Boundary(d.rest)
        n == IF d.rest[i] = CR THEN 4 ELSE 2
    IN  IF i = 0 THEN d
        ELSE [raws |-> Append(d.raws, SubSeq(d.rest, 1, i - 1)),
              rest |-> SubSeq(d.rest, i + n, Len(d.rest))]

(* SSEDecoder.push: the events a buffer holds, and what is left of it. *)
Decoded(b) ==
    LET after[n \in 0..Len(b)] ==
          IF n = 0 THEN [raws |-> <<>>, rest |-> b] ELSE Turn(after[n - 1])
    IN  after[Len(b)]

(* parseOneEvent: nothing if it has neither data nor a name. *)
ParseOneEvent(raw) ==
    LET data == Filter(raw, LAMBDA t : t.kind = "data")
    IN  IF \E i \in DOMAIN raw : raw[i].kind \in {"data", "event"}
        THEN <<Mapped(LAMBDA t : t.payload, data)>> ELSE <<>>

-----------------------------------------------------------------------------
(* parseStreamEvent of the three adapters.  Of the calls of a chunk OpenAI *)
(* reads the first, and nothing of a chunk without a choice.               *)
FromOpenAIChunk(p) ==
    IF ~p.first THEN <<>>
    ELSE <<[text |-> p.text, thinking |-> <<>>,
            tool |-> IF p.tools = <<>> THEN <<>> ELSE <<p.tools[1]>>, usage |-> p.usage,
            finish |-> Mapped(LAMBDA r : MapFinishReason("OpenAI", r), p.finish)]>>

(* Every type of event yields one, if an empty one. *)
FromAnthropicEvent(p) ==
    <<CASE p.type = "content_block_delta" /\ p.found ->
              [NoEvent EXCEPT !.text = p.text, !.thinking = p.thinking]
        [] p.type = "content_block_start" ->
              [NoEvent EXCEPT !.tool = Mapped(LAMBDA t : [t EXCEPT !.arguments = <<>>], p.tools)]
        [] p.type = "message_delta" ->
              [NoEvent EXCEPT !.usage = p.usage,
                              !.finish = IF p.found
                                         THEN Mapped(LAMBDA r : MapFinishReason("Anthropic", r), p.finish)
                                         ELSE <<>>]
        [] p.type = "message_start" -> [NoEvent EXCEPT !.usage = p.usage]
        [] OTHER -> NoEvent>>

(* Neither calls nor usage are read. *)
FromGeminiChunk(p) ==
    IF ~p.first THEN <<>>
    ELSE <<[NoEvent EXCEPT !.text = p.text, !.thinking = p.thinking,
                           !.finish = Mapped(LAMBDA r : MapFinishReason("Gemini", r), p.finish)]>>

(* mapEvent: the end marker and what is no object are no event. *)
MapEvent(upstream, data) ==
    IF Len(data) # 1 \/ data[1].type \in {"[DONE]", "text"} THEN <<>>
    ELSE CASE upstream = "Anthropic" -> FromAnthropicEvent(data[1])
           [] upstream = "Gemini"    -> FromGeminiChunk(data[1])
           [] OTHER                  -> FromOpenAIChunk(data[1])

(* What stream() yields for some raw events. *)
Yielded(upstream, raws) ==
    Mapped(LAMBDA data : MapEvent(upstream, data), FlattenSeq(Mapped(ParseOneEvent, raws)))

-----------------------------------------------------------------------------
(* serializeStreamEvent of the four clients: what is sent, if anything,    *)
(* and the state afterwards.                                               *)
Sends(e, s) == [out |-> <<e>>, state |-> s]
SendsNothing(s) == [out |-> <<>>, state |-> s]

ToChatChunk(e, s) ==
    Sends([Silent EXCEPT !.text = e.text, !.tool = e.tool, !.usage = e.usage,
                         !.finish = Mapped(ToOpenAIFinishReason, e.finish)], s)

(* One of text, call and end, in this order. *)
ToResponsesEvent(e, s) ==
    CASE e.text # <<>> -> Sends([Silent EXCEPT !.text = e.text], s)
      [] e.text = <<>> /\ e.tool # <<>> ->
            Sends([Silent EXCEPT !.tool = <<[e.tool[1] EXCEPT !.name = <<>>]>>],
                  IF e.tool[1].name # <<>> THEN [s EXCEPT !.toolUseId = <<e.tool[1].id>>] ELSE s)
      [] e.text = <<>> /\ e.tool = <<>> /\ e.finish # <<>> ->
            Sends([Silent EXCEPT !.finish = <<"completed">>, !.usage = e.usage], s)
      [] OTHER -> SendsNothing(s)

Start == [Silent EXCEPT !.start = TRUE]

(* mutant: a block is opened for every text *)
ToAnthropicText_Reopens(e, s) == Sends(Start, [s EXCEPT !.outputItemId = TRUE])

(* The first text opens a block and is not sent, nor is the first thinking *)
(* or the first piece of a call's arguments.                               *)
ToAnthropicText(e, s) ==
    IF s.outputItemId THEN Sends([Silent EXCEPT !.text = e.text], s)
    ELSE Sends(Start, [s EXCEPT !.outputItemId = TRUE])

ToAnthropicThinking(e, s) ==
    IF s.toolUseId \notin {<<>>, <<NoId>>} THEN Sends([Silent EXCEPT !.thinking = e.thinking], s)
    ELSE Sends(Start, [s EXCEPT !.toolUseId = <<ThinkingId>>])

ToAnthropicTool(e, s) ==
    LET t == e.tool[1]
    IN  IF s.toolUseId = <<t.id>>
        THEN Sends([Silent EXCEPT !.tool = <<[t EXCEPT !.id = NoId, !.name = <<>>]>>], s)
        ELSE Sends([Start EXCEPT !.tool = <<[t EXCEPT !.arguments = <<>>]>>],
                   [s EXCEPT !.toolUseId = <<t.id>>])

ToAnthropicEvent(e, s) ==
    CASE e.text # <<>> -> ToAnthropicText(e, s)
      [] e.text = <<>> /\ e.thinking # <<>> -> ToAnthropicThinking(e, s)
      [] e.text = <<>> /\ e.thinking = <<>> /\ e.tool # <<>> -> ToAnthropicTool(e, s)
      [] e.text = <<>> /\ e.thinking = <<>> /\ e.tool = <<>> /\ e.finish # <<>> ->
            Sends([Silent EXCEPT !.finish = Mapped(ToAnthropicStopReason, e.finish),
                                 !.usage = e.usage], s)
      [] OTHER -> SendsNothing(s)

(* Neither the end nor the usage. *)
ToGeminiChunk(e, s) ==
    IF e.text \o e.thinking = <<>> /\ e.tool = <<>> THEN SendsNothing(s)
    ELSE Sends([Silent EXCEPT !.text = e.text, !.thinking = e.thinking,
                              !.tool = Mapped(LAMBDA t : [t EXCEPT !.id = NoId], e.tool)], s)

SerializeStreamEvent(client, e, s) ==
    CASE client = "OpenAI-Chat"        -> ToChatChunk(e, s)
      [] client = "OpenAI-Responses"   -> ToResponsesEvent(e, s)
      [] client = "Anthropic-Messages" -> ToAnthropicEvent(e, s)
      [] OTHER                         -> ToGeminiChunk(e, s)

-----------------------------------------------------------------------------
(* The consumer passes on the events among what was yielded. *)
PassedOn(client, acc, e) ==
    LET r == SerializeStreamEvent(client, e, acc.state)
    IN  [told |-> acc.told \o r.out, state |-> r.state]

Passed(client, acc, events) ==
    LET after[n \in 0..Len(events)] ==
          IF n = 0 THEN acc ELSE PassedOn(client, after[n - 1], events[n])
    IN  after[Len(events)]

PassOn(client, yielded) ==
    LET all == Passed(client, [told |-> told, state |-> state], FlattenSeq(yielded))
    IN  told' = all.told /\ state' = all.state

Reading == stream # <<>> /\ closed = "open"

(* reader.read() returns a chunk of n tokens. *)
ChunkArrives(n) ==
    /\ Reading /\ read + n <= Len(stream[1].tokens)
    /\ LET after   == Decoded(Appended(SubSeq(stream[1].tokens, read + 1, read + n)))
           yielded == Yielded(stream[1].upstream, after.raws)
       IN  /\ buffer' = after.rest
           /\ heard' = heard \o yielded
           /\ PassOn(stream[1].client, yielded)
    /\ read' = read + n
    /\ UNCHANGED <<stream, closed>>

(* The stream is done, perhaps before all of it was sent: what is left in  *)
(* the buffer is an event.                                                 *)
StreamEnds ==
    /\ Reading
    /\ LET yielded == Yielded(stream[1].upstream, <<buffer>>)
       IN  heard' = heard \o yielded /\ PassOn(stream[1].client, yielded)
    /\ buffer' = <<>> /\ closed' = "ended"
    /\ UNCHANGED <<stream, read>>

(* reading fails, the call times out, or the consumer turns away. *)
StreamBreaks == /\ Reading
                /\ closed' = "broken"
                /\ UNCHANGED <<stream, read, buffer, heard, state, told>>

StreamOpens == /\ stream = <<>>
               /\ \E s \in Streams : stream' = <<s>>
               /\ UNCHANGED <<read, buffer, heard, state, told, closed>>

StreamNext == \/ StreamOpens \/ StreamEnds \/ StreamBreaks
              \/ \E n \in 1..ChunkLength : ChunkArrives(n)

-----------------------------------------------------------------------------
(* The events of a text as the standard for event streams has them: lines  *)
(* are collected until an empty one.                                       *)
ReadToken(acc, t) ==
    CASE t.kind = "CR" -> acc
      [] t.kind = "LF" /\ acc.empty ->
            [raws |-> Append(acc.raws, acc.lines), lines |-> <<>>, empty |-> TRUE]
      [] t.kind = "LF" /\ ~acc.empty -> [acc EXCEPT !.empty = TRUE]
      [] OTHER -> [acc EXCEPT !.lines = Append(@, t), !.empty = FALSE]

Reference(tokens) ==
    LET after[n \in 0..Len(tokens)] ==
          IF n = 0 THEN [raws |-> <<>>, lines |-> <<>>, empty |-> FALSE]
          ELSE ReadToken(after[n - 1], tokens[n])
    IN  after[Len(tokens)]

(* Where the chunks end makes no difference: what was yielded is what the  *)
(* text so far holds, and at the end also the event that was not finished  *)
(* (SSEDecoder.push and end).                                              *)
ChunkingIsInvisible ==
    stream # <<>> =>
        LET sofar == Reference(SubSeq(stream[1].tokens, 1, read))
        IN  heard = Yielded(stream[1].upstream,
                            IF closed = "ended" THEN Append(sofar.raws, sofar.lines)
                            ELSE sofar.raws)

(* The texts of a stream reach the client once and in order, whatever else *)
(* their events carry; only a Messages client never sees the first one.    *)
(* A Chat client is also told of every call.                               *)
StreamIsKept ==
    stream # <<>> =>
        LET events   == FlattenSeq(heard)
            spoken   == FlattenSeq(Mapped(LAMBDA e : e.text, events))
            received == FlattenSeq(Mapped(LAMBDA e : e.text, told))
            client   == stream[1].client
        IN  /\ received = IF client = "Anthropic-Messages" /\ spoken # <<>>
                          THEN Tail(spoken) ELSE spoken
            /\ client = "OpenAI-Chat" =>
                  /\ Mapped(LAMBDA e : e.tool, told) = Mapped(LAMBDA e : e.tool, events)
                  /\ Len(told) = Len(events)
=============================================================================
