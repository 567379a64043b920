------------------------------- MODULE Adapters -------------------------------
(***************************************************************************)
(* adapters/: what each upstream protocol makes of a request of the IR     *)
(* (buildRequestBody) and of the document an upstream answers with         *)
(* (parseResponse).  OpenAI, OpenAI-Compatible and Doubao share one body,  *)
(* Wenxin collapses the system messages first.                             *)
(*                                                                         *)
(* The bodies of the protocols are written alike: the system texts that    *)
(* have a field of their own, the messages with their parts, and the       *)
(* options by the names of the IR.                                         *)
(***************************************************************************)
EXTENDS Clients

OpenAILike == {"OpenAI", "OpenAI-Compatible", "Doubao", "Wenxin"}
ProviderProtocols == OpenAILike \cup {"Anthropic", "Gemini"}

(* model: of the body, or of the path where the protocol has it there.     *)
WireMessage == [role: Roles \cup {"model"}, id: Ids, parts: Seq(Part)]
Wire == [model: Models, system: Seq(Text), messages: Seq(WireMessage), stream: BOOLEAN,
         options: SUBSET Options, tools: SUBSET Tools, toolChoice: NamedChoices \cup Tools]

-----------------------------------------------------------------------------
(* OpenAI: the results of a tool message are one, under the first's id; a  *)
(* user's message is its texts, and an assistant's its texts and calls.    *)
ToOpenAIMessage(m) ==
    LET results == Results(m.content)
        texts   == Texts(m.content)
        id      == IF results = <<>> THEN NoId ELSE results[1].id
        text    == IF texts = <<>> THEN <<>> ELSE <<TextPart(Joined(texts))>>
    IN  CASE m.role = "tool" ->
                [role |-> "tool", id |-> id, parts |-> <<ToolResult(id, Joined(results))>>]
          [] m.role = "assistant" ->
                [role |-> "assistant", id |-> NoId, parts |-> text \o ToolUses(m.content)]
          [] OTHER ->
                [role |-> m.role, id |-> NoId, parts |-> <<TextPart(Joined(texts))>>]

BuildOpenAI(ir) ==
    [model |-> ir.model, system |-> <<>>, messages |-> Mapped(ToOpenAIMessage, ir.messages),
     stream |-> ir.stream, options |-> ir.options, tools |-> ir.tools,
     toolChoice |-> ir.toolChoice]

-----------------------------------------------------------------------------
(* mutant: developers are not heard *)
SystemTexts_NoDeveloper(messages) ==
    Mapped(LAMBDA c : c.text, Texts(Contents(Filter(messages, LAMBDA m : m.role = "system"))))

(* Each text of the system and developer messages. *)
SystemTexts(messages) ==
    Mapped(LAMBDA c : c.text, Texts(Contents(Filter(messages, IsSystem))))

FirstUser(turns) == SelectInSeq(turns, LAMBDA m : m.role = "user")

(* The first text of a content goes after the prefix, or the prefix before *)
(* it all.                                                                 *)
Prefixed(content, prefix) ==
    LET i == SelectInSeq(content, IsText)
    IN  IF i = 0 THEN <<TextPart(prefix)>> \o content
        ELSE [content EXCEPT ![i].text = prefix \o @]

(* collapseSystemIntoUser returns the turns with the system texts in the   *)
(* first user's message.                                                   *)
Collapsed(messages) ==
    LET turns  == Filter(messages, IsTurn)
        prefix == FlattenSeq(SystemTexts(messages))
        u      == FirstUser(turns)
    IN  CASE SystemTexts(messages) = <<>> -> messages
          [] SystemTexts(messages) # <<>> /\ u = 0 ->
                <<[role |-> "user", content |-> <<TextPart(prefix)>>]>> \o turns
          [] OTHER -> [turns EXCEPT ![u].content = Prefixed(@, prefix)]

(* If that message has a text, it is changed where it stands: the request  *)
(* of the caller keeps the system messages and has their texts in the      *)
(* user's as well.                                                         *)
AfterCollapse(messages) ==
    LET u == FirstUser(messages)
    IN  IF SystemTexts(messages) = <<>> \/ u = 0 \/ Texts(messages[u].content) = <<>>
        THEN messages
        ELSE [messages EXCEPT ![u].content = Prefixed(@, FlattenSeq(SystemTexts(messages)))]

-----------------------------------------------------------------------------
(* mutant: the results of tools are left out *)
ToAnthropicMessage_NoResults(m) ==
    [role |-> IF m.role = "assistant" THEN "assistant" ELSE "user", id |-> NoId,
     parts |-> IF m.role = "assistant" THEN m.content ELSE Texts(m.content)]

(* Anthropic: results are a user's message, and a user's are its texts.    *)
ToAnthropicMessage(m) ==
    [role |-> IF m.role = "assistant" THEN "assistant" ELSE "user", id |-> NoId,
     parts |-> CASE m.role = "assistant" -> Filter(m.content, LAMBDA c : ~IsToolResult(c))
                 [] m.role = "tool"      -> Results(m.content)
                 [] OTHER                -> Texts(m.content)]

(* There is always a limit of tokens, and no 'none'. *)
BuildAnthropic(ir) ==
    [model |-> ir.model, system |-> SystemTexts(ir.messages),
     messages |-> Mapped(ToAnthropicMessage, Filter(ir.messages, IsTurn)),
     stream |-> ir.stream, options |-> ir.options \cup {"max_tokens"}, tools |-> ir.tools,
     toolChoice |-> IF ir.toolChoice = "none" THEN "auto" ELSE ir.toolChoice]

-----------------------------------------------------------------------------
(* Gemini: every part is sent, a call without its id and a result under    *)
(* the name of its id; a message without parts is not.                     *)
ToGeminiContent(m) ==
    [role |-> IF m.role = "assistant" THEN "model" ELSE "user", id |-> NoId,
     parts |-> Mapped(LAMBDA c : IF IsToolUse(c) THEN [c EXCEPT !.id = NoId] ELSE c, m.content)]

BuildGemini(ir) ==
    [model |-> ir.model, system |-> SystemTexts(ir.messages),
     messages |-> Filter(Mapped(ToGeminiContent, Filter(ir.messages, IsTurn)),
                         LAMBDA m : m.parts # <<>>),
     stream |-> FALSE, options |-> ir.options, tools |-> ir.tools,
     toolChoice |-> ir.toolChoice]

-----------------------------------------------------------------------------
BuildRequestBody(protocol, ir) ==
    CASE protocol = "Wenxin"    -> BuildOpenAI([ir EXCEPT !.messages = Collapsed(@)])
      [] protocol = "Anthropic" -> BuildAnthropic(ir)
      [] protocol = "Gemini"    -> BuildGemini(ir)
      [] OTHER                  -> BuildOpenAI(ir)

(* What building a body leaves of the request it is built from. *)
AfterBuild(protocol, ir) ==
    IF protocol = "Wenxin" THEN [ir EXCEPT !.messages = AfterCollapse(@)] ELSE ir

-----------------------------------------------------------------------------
(* A document an upstream answers with: its choices, the parts each has    *)
(* and why it ended, in the upstream's words; no usage where it has none.  *)
(* One that is not well-formed has no list of choices.                     *)
Document == [wellFormed: BOOLEAN,
             choices: Seq([parts: Seq(BodyPart), finish: STRING]), usage: Seq(Usage)]

MapOpenAIFinishReason(r) ==
    CASE r = "function_call" -> "tool_calls"
      [] r \in {"stop", "length", "tool_calls", "content_filter"} -> r
      [] OTHER -> "error"

MapAnthropicStopReason(r) ==
    CASE r \in {"end_turn", "stop_sequence"} -> "stop"
      [] r = "max_tokens" -> "length"
      [] r = "tool_use" -> "tool_calls"
      [] OTHER -> "error"

MapGeminiFinishReason(r) ==
    CASE r = "STOP" -> "stop"
      [] r = "MAX_TOKENS" -> "length"
      [] r \in {"SAFETY", "RECITATION"} -> "content_filter"
      [] OTHER -> "error"

MapFinishReason(protocol, r) ==
    CASE protocol = "Anthropic" -> MapAnthropicStopReason(r)
      [] protocol = "Gemini"    -> MapGeminiFinishReason(r)
      [] OTHER                  -> MapOpenAIFinishReason(r)

(* mutant: a message has a text or calls, not both *)
FromOpenAIAssistantMessage_CallsOnly(c) ==
    IF ToolUses(c.parts) # <<>> THEN ToolUses(c.parts) ELSE Texts(c.parts)

(* The text unless it is empty, and the calls with their arguments parsed. *)
FromOpenAIAssistantMessage(c) ==
    Filter(Texts(c.parts), LAMBDA p : p.text # <<>>)
    \o Mapped(LAMBDA p : [p EXCEPT !.text = Parsed(@)], ToolUses(c.parts))

(* A call gets an id. *)
FromGeminiCandidate(c, n) ==
    Mapped(LAMBDA p : IF IsToolUse(p) THEN [p EXCEPT !.id = Drawn[n]] ELSE p,
           Filter(c.parts, LAMBDA p : p.type \in {"text", "thinking", "tool_use"}))

(* A block that calls a tool has an id and a name. *)
KnownBlock(p) == \/ p.type \in {"text", "thinking"}
                 \/ IsToolUse(p) /\ p.id # NoId /\ p.name # NoTool

NoUsage == [prompt |-> 0, completion |-> 0, cached |-> 0, total |-> 0]
UsageOf(document) == IF document.usage = <<>> THEN NoUsage ELSE document.usage[1]

(* parseResponse throws if the document has no choices; Gemini's must have *)
(* at least one.                                                           *)
Parsable(protocol, document) ==
    document.wellFormed /\ (protocol = "Gemini" => document.choices # <<>>)

Choice(content, finish) == [content |-> content, finish |-> finish]

ParseOpenAI(document) ==
    [choices |-> Mapped(LAMBDA c : Choice(FromOpenAIAssistantMessage(c),
                                          MapOpenAIFinishReason(c.finish)), document.choices),
     usage |-> UsageOf(document)]

(* Anthropic counts no total. *)
ParseAnthropic(document) ==
    [choices |-> Mapped(LAMBDA c : Choice(Filter(c.parts, KnownBlock),
                                          MapAnthropicStopReason(c.finish)), document.choices),
     usage |-> LET u == UsageOf(document)
               IN  [u EXCEPT !.total = u.prompt + u.completion]]

ParseGemini(document, n) ==
    [choices |-> Mapped(LAMBDA c : Choice(FromGeminiCandidate(c, n),
                                          MapGeminiFinishReason(c.finish)), document.choices),
     usage |-> UsageOf(document)]

ParseResponse(protocol, document, n) ==
    CASE protocol = "Anthropic" -> ParseAnthropic(document)
      [] protocol = "Gemini"    -> ParseGemini(document, n)
      [] OTHER                  -> ParseOpenAI(document)
=============================================================================
