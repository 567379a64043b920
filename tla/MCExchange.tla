------------------------------ MODULE MCExchange ------------------------------
(* A small instance of Exchange for TLC: bodies of the four protocols with *)
(* system texts in every place, turns with calls, results, images, arrays  *)
(* and thinking, two of them asked of either of two models; documents of   *)
(* three kinds of upstreams and Wenxin; streams of text, calls, thinking,  *)
(* names without data and unfinished lines.                                *)
EXTENDS Exchange, TLC

MCWords == {"sys", "dev", "ask", "more", "say", "think", "args", "broken", "result"}
MCIds == {"", "call1", "drawn1", "drawn2", "block"}
MCDrawn == <<"drawn1", "drawn2">>

P(type, id, name, text) == [type |-> type, id |-> id, name |-> name, text |-> text]
T(word) == TextPart(<<word>>)
Image == P("image", NoId, NoTool, <<>>)

M(role, parts) == [role |-> role, shape |-> "string", id |-> NoId, parts |-> parts]
Array(role, parts) == [M(role, parts) EXCEPT !.shape = "array"]
Null(role, parts) == [M(role, parts) EXCEPT !.shape = "null"]
ToolSays(id, word) == [M("tool", <<T(word)>>) EXCEPT !.id = id]

Plain(messages) == [model |-> "m", system |-> <<>>, messages |-> messages, stream |-> FALSE,
                    options |-> {"temperature"}, tools |-> {}, toolChoice |-> "absent"]

Call(args) == ToolUse("call1", "lookup", <<args>>)
Asks == M("user", <<T("ask")>>)

ChatTools == [Plain(<<M("system", <<T("sys")>>), Asks, Null("assistant", <<Call("args")>>),
                      ToolSays("call1", "result")>>)
              EXCEPT !.tools = {"lookup"}, !.toolChoice = "none"]

ChatBodies ==
    {Plain(<<>>),
     Plain(<<M("system", <<T("sys")>>), M("developer", <<T("dev")>>), Asks>>),
     [Plain(<<M("system", <<T("sys")>>), M("system", <<TextPart(<<>>)>>),
              M("system", <<T("dev")>>), Asks>>) EXCEPT !.options = {"temperature", "stop"}],
     [Plain(<<Asks, M("assistant", <<T("say"), Call("broken")>>), ToolSays("call1", "result"),
              Array("user", <<T("more")>>), Array("tool", <<T("more")>>)>>)
        EXCEPT !.tools = {"lookup"}, !.toolChoice = "lookup", !.stream = TRUE],
     ChatTools, [ChatTools EXCEPT !.toolChoice = "required"], [ChatTools EXCEPT !.model = "n"],
     Plain(<<M("assistant", <<T("say")>>), M("developer", <<T("dev")>>)>>)}

ResponsesBodies ==
    {[Plain(<<Asks>>) EXCEPT !.system = <<<<"sys">>>>, !.options = Options],
     [Plain(<<Array("user", <<T("ask"), Image, T("more")>>), M("developer", <<T("dev")>>)>>)
        EXCEPT !.tools = {"lookup"}, !.toolChoice = "none"]}

MessagesBodies ==
    {[Plain(<<Asks, M("assistant", <<Thinking(<<"think">>), T("say"), Call("args")>>),
              M("user", <<ToolResult("call1", <<"result">>), T("more")>>)>>)
        EXCEPT !.system = <<<<"sys">>, <<"dev">>>>, !.tools = {"lookup"}, !.toolChoice = "required"],
     [Plain(<<M("user", <<Image>>), M("assistant", <<T("say")>>), Asks>>)
        EXCEPT !.system = <<<<"sys">>>>, !.toolChoice = "none", !.options = Options]}

GenerateTalk == [Plain(<<Asks, M("model", <<T("say")>>)>>) EXCEPT !.stream = TRUE]

GenerateBodies ==
    {[Plain(<<Asks, M("model", <<ToolUse(NoId, "lookup", <<"args">>)>>),
              M("user", <<ToolResult(NoId, <<"result">>), Image>>)>>)
        EXCEPT !.system = <<<<"sys">>>>, !.tools = {"lookup"}, !.toolChoice = "required"],
     GenerateTalk, [GenerateTalk EXCEPT !.model = "n"]}

Of(client, bodies) == {[client |-> client, body |-> b] : b \in bodies}

MCRequests == Of("OpenAI-Chat", ChatBodies) \cup Of("OpenAI-Responses", ResponsesBodies)
              \cup Of("Anthropic-Messages", MessagesBodies)
              \cup Of("Gemini-GenerateContent", GenerateBodies)

-----------------------------------------------------------------------------
Counts(p, c, t) == [prompt |-> p, completion |-> c, cached |-> 0, total |-> t]

Doc(choices) == [wellFormed |-> TRUE, choices |-> choices, usage |-> <<Counts(1, 2, 3)>>]
C(parts, finish) == [parts |-> parts, finish |-> finish]
Broken == [Doc(<<>>) EXCEPT !.wellFormed = FALSE]

OpenAIDocuments ==
    {Broken, Doc(<<>>), Doc(<<C(<<T("say"), Call("args"), Call("broken")>>, "tool_calls")>>),
     [Doc(<<C(<<T("say")>>, "length"), C(<<TextPart(<<>>), Call("args")>>, "function_call")>>)
        EXCEPT !.usage = <<>>],
     Doc(<<C(<<T("say")>>, "content_filter")>>)}

AnthropicDocuments ==
    {Broken, Doc(<<C(<<Thinking(<<"think">>), T("say"), Call("args"), T("more")>>, "tool_use")>>),
     Doc(<<C(<<T("say")>>, "max_tokens")>>),
     Doc(<<C(<<ToolUse(NoId, "lookup", <<"args">>)>>, "pause_turn")>>)}

GeminiDocuments ==
    {Broken, Doc(<<>>),
     Doc(<<C(<<Thinking(<<"think">>), T("say"), ToolUse(NoId, "lookup", <<"args">>)>>, "STOP"),
           C(<<T("more")>>, "MAX_TOKENS")>>),
     Doc(<<C(<<>>, "SAFETY")>>), Doc(<<C(<<T("say")>>, "MAX_TOKENS")>>)}

MCDocuments == "OpenAI" :> OpenAIDocuments @@ "Wenxin" :> OpenAIDocuments
               @@ "Anthropic" :> AnthropicDocuments @@ "Gemini" :> GeminiDocuments

-----------------------------------------------------------------------------
Json(type) == [NoPayload EXCEPT !.type = type, !.first = TRUE, !.found = TRUE]
Data(payload) == [kind |-> "data", payload |-> payload]
Name == [kind |-> "event", payload |-> NoPayload]
Comment == [kind |-> "comment", payload |-> NoPayload]
Done == Data(Json("[DONE]"))
Torn == Data(Json("text"))

Says(type, word) == Data([Json(type) EXCEPT !.text = <<<<word>>>>])
Thinks(type) == Data([Json(type) EXCEPT !.thinking = <<<<"think">>>>])
Calls(type, id, name, args) ==
    Data([Json(type) EXCEPT !.tools = <<[id |-> id, name |-> name, arguments |-> args]>>])
Ends(type, reason) == Data([Json(type) EXCEPT !.finish = <<reason>>, !.usage = <<Counts(1, 2, 3)>>])
SaysAndEnds == Data([Json("chunk") EXCEPT !.text = <<<<"more">>>>, !.finish = <<"length">>])
UsageOnly == Data([Json("chunk") EXCEPT !.first = FALSE, !.usage = <<Counts(1, 2, 3)>>])
Misplaced == Data([Json("content_block_delta") EXCEPT !.text = <<<<"say">>>>, !.found = FALSE])

(* Each event a sequence of lines. *)
OpenAIEvents ==
    {<<<<Says("chunk", "ask")>>, <<Comment>>, <<Calls("chunk", "call1", <<"lookup">>, <<>>)>>,
       <<Calls("chunk", NoId, <<>>, <<<<"args">>>>)>>, <<SaysAndEnds>>, <<UsageOnly>>, <<Done>>>>,
     <<<<Says("chunk", "ask")>>, <<Says("chunk", "say"), Says("chunk", "say")>>,
       <<Ends("chunk", "stop")>>, <<Torn>>>>}
AnthropicEvents ==
    {<<<<Name, Data(Json("message_start"))>>, <<Name, Thinks("content_block_delta")>>,
       <<Thinks("content_block_delta")>>, <<Says("content_block_delta", "ask")>>,
       <<Name>>, <<Says("content_block_delta", "say")>>, <<Misplaced>>,
       <<Calls("content_block_start", "call1", <<"lookup">>, <<>>)>>,
       <<Ends("message_delta", "end_turn")>>, <<Name, Data(Json("message_stop"))>>>>}
GeminiEvents ==
    {<<<<Says("chunk", "ask")>>, <<Thinks("chunk")>>, <<Says("chunk", "say")>>, <<Ends("chunk", "STOP")>>>>}

(* The last event is not finished by an empty line. *)
Tokens(events, end) ==
    LET lines(e) == FlattenSeq(Mapped(LAMBDA t : <<t>> \o end, e))
        all == FlattenSeq(Mapped(LAMBDA e : lines(e) \o end, events))
    IN  SubSeq(all, 1, Len(all) - Len(end))

MCStreams ==
    {[client |-> c, upstream |-> u, tokens |-> Tokens(e, end)] :
        c \in ClientProtocols, end \in {<<LF>>, <<CR, LF>>},
        u \in {"OpenAI"}, e \in OpenAIEvents}
    \cup {[client |-> c, upstream |-> "Anthropic", tokens |-> Tokens(e, end)] :
        c \in ClientProtocols, end \in {<<LF>>, <<CR, LF>>}, e \in AnthropicEvents}
    \cup {[client |-> c, upstream |-> "Gemini", tokens |-> Tokens(e, <<CR, LF>>)] :
        c \in ClientProtocols, e \in GeminiEvents}
=============================================================================
