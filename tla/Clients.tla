------------------------------- MODULE Clients --------------------------------
(***************************************************************************)
(* clients/: what each of the four client protocols makes of a body it     *)
(* receives (parseIncomingRequest) and of a response it returns            *)
(* (serializeResponse).                                                    *)
(*                                                                         *)
(* The bodies of the four protocols are written alike: the system texts    *)
(* that have a field of their own, the messages with their parts, and the  *)
(* options by the names of the IR.  A message of Chat Completions has its  *)
(* content in the text parts (shape: a string, an array or null), its      *)
(* tool calls in the tool_use parts, and a tool message the id it answers. *)
(***************************************************************************)
EXTENDS Messages

CONSTANTS Unparsable,  \* the word that makes arguments no JSON
          Drawn        \* Drawn[n]: the id that is drawn at random in exchange n

ClientProtocols == {"OpenAI-Chat", "OpenAI-Responses", "Anthropic-Messages",
                    "Gemini-GenerateContent"}

(* Of the parts only a client knows, an image stands for those without a   *)
(* text (inlineData, redacted_thinking).                                   *)
BodyPart == [type: {"text", "tool_use", "tool_result", "thinking", "image"},
             id: Ids, name: Tools \cup {NoTool}, text: Text]

BodyMessage == [role: Roles \cup {"model"}, shape: {"string", "array", "null"},
                id: Ids, parts: Seq(BodyPart)]

Body == [model: Models, system: Seq(Text), messages: Seq(BodyMessage),
         stream: BOOLEAN, options: SUBSET Options, tools: SUBSET Tools,
         toolChoice: NamedChoices \cup Tools]

(* The roles there are in a body of each protocol. *)
RolesOf(protocol) ==
    CASE protocol = "OpenAI-Chat"        -> Roles
      [] protocol = "OpenAI-Responses"   -> Roles \ {"tool"}
      [] protocol = "Anthropic-Messages" -> {"user", "assistant"}
      [] OTHER                           -> {"user", "model"}

(* IncomingBody of each protocol: Chat Completions has no system field, and *)
(* a content that is null no text.                                         *)
BodyOf(protocol) ==
    {b \in Body : /\ \A i \in DOMAIN b.messages :
                        /\ b.messages[i].role \in RolesOf(protocol)
                        /\ b.messages[i].shape = "null" => Texts(b.messages[i].parts) = <<>>
                  /\ protocol = "OpenAI-Chat" => b.system = <<>>}

(* JSON.parse, or {} where that fails. *)
Parsed(arguments) == IF Contains(arguments, Unparsable) THEN <<>> ELSE arguments

-----------------------------------------------------------------------------
(* Chat Completions: an array is no text, except as a tool's result.       *)
FromIncomingMessage(m) ==
    LET said  == IF m.shape = "string" THEN <<TextPart(Joined(Texts(m.parts)))>> ELSE <<>>
        calls == Mapped(LAMBDA c : ToolUse(c.id, c.name, Parsed(c.text)), ToolUses(m.parts))
    IN  [role |-> m.role,
         content |->
            CASE m.role = "tool" -> <<ToolResult(m.id, Joined(Texts(m.parts)))>>
              [] m.role = "assistant" ->
                    Filter(said, LAMBDA c : c.text # <<>>) \o calls
              [] OTHER -> said]

(* Responses: one text, of whatever parts have one. *)
FromInput(m) ==
    [role |-> m.role, content |-> <<TextPart(Joined(Texts(m.parts)))>>]

(* Messages: a string is one text, and the blocks it does not know go. *)
FromAnthropicMessage(m) ==
    [role |-> m.role, content |-> Filter(m.parts, LAMBDA c : c.type # "image")]

(* mutant: the role is taken over *)
FromGeminiContent_ItsRole(m, n) ==
    [role |-> m.role, content |-> Filter(m.parts, IsText)]

(* GenerateContent: a call gets an id, a result has none. *)
FromGeminiContent(m, n) ==
    LET From(c) == CASE IsToolUse(c)    -> ToolUse(Drawn[n], c.name, c.text)
                     [] IsToolResult(c) -> ToolResult(NoId, c.text)
                     [] OTHER           -> c
    IN  [role |-> IF m.role = "model" THEN "assistant" ELSE "user",
         content |-> Mapped(From, Filter(m.parts, LAMBDA c : c.type \notin {"image", "thinking"}))]

(* A system text of its own becomes a first message, unless it is empty.   *)
SystemMessage(body) ==
    IF FlattenSeq(body.system) = <<>> THEN <<>>
    ELSE <<[role |-> "system", content |-> <<TextPart(FlattenSeq(body.system))>>]>>

(* What the four parsers have in common. *)
Parse(body, messages) ==
    [model |-> body.model, messages |-> messages, stream |-> body.stream,
     options |-> body.options, tools |-> body.tools, toolChoice |-> body.toolChoice]

ParseChat(body) == Parse(body, Mapped(FromIncomingMessage, body.messages))

(* Responses has no field for stop sequences. *)
ParseResponses(body) ==
    [Parse(body, SystemMessage(body) \o Mapped(FromInput, body.messages))
        EXCEPT !.options = @ \ {"stop"}]

(* Messages has no 'none', and 'any' for 'required'. *)
ToIRToolChoice(choice) == IF choice = "none" THEN "auto" ELSE choice

ParseMessages(body) ==
    [Parse(body, SystemMessage(body) \o Mapped(FromAnthropicMessage, body.messages))
        EXCEPT !.toolChoice = ToIRToolChoice(@)]

(* GenerateContent names its model in the path, where nobody looks for it, *)
(* as is the wish for a stream.  What dispatch requires and routes by is a *)
(* model named in the body as well; neither reaches the IR, where every    *)
(* such request has this one.  AUTO is the same as saying nothing.         *)
GeminiModel == "<gemini>"

(* A request names it as it names any other model. *)
ASSUME ClientsConfig == GeminiModel \in Models

ParseGenerate(body, n) ==
    [Parse(body, SystemMessage(body)
                 \o Mapped(LAMBDA m : FromGeminiContent(m, n), body.messages))
        EXCEPT !.model = GeminiModel, !.stream = FALSE,
               !.toolChoice = IF @ \in {"none", "required"} THEN @ ELSE "absent"]

ParseIncomingRequest(protocol, body, n) ==
    CASE protocol = "OpenAI-Chat"        -> ParseChat(body)
      [] protocol = "OpenAI-Responses"   -> ParseResponses(body)
      [] protocol = "Anthropic-Messages" -> ParseMessages(body)
      [] OTHER                           -> ParseGenerate(body, n)

(* A body without messages is refused, except by Responses; that a body    *)
(* has a model was seen before.                                            *)
Acceptable(protocol, body) == protocol = "OpenAI-Responses" \/ body.messages # <<>>

-----------------------------------------------------------------------------
(* The answer a client receives: the parts of each choice and how it ended *)
(* in the client's words.                                                  *)
Told(parts, finish) == [parts |-> parts, finish |-> finish]

(* The text of a choice in one piece, then its tool calls. *)
TextThenCalls(content) == <<TextPart(Joined(Texts(content)))>> \o ToolUses(content)

ToOpenAIFinishReason(r) == IF r = "error" THEN "stop" ELSE r

ToAnthropicStopReason(r) ==
    CASE r = "tool_calls"     -> "tool_use"
      [] r = "length"         -> "max_tokens"
      [] r = "content_filter" -> "refusal"
      [] OTHER                -> "end_turn"

ToGeminiFinishReason(r) ==
    CASE r = "length"         -> "MAX_TOKENS"
      [] r = "content_filter" -> "SAFETY"
      [] OTHER                -> "STOP"

Reply(choices, usage) == [choices |-> choices, usage |-> usage]

SerializeChat(response) ==
    Reply(Mapped(LAMBDA c : Told(TextThenCalls(c.content), ToOpenAIFinishReason(c.finish)),
                 response.choices),
          response.usage)

(* An item for the text, if there is one, and for each call; every item is *)
(* 'completed'.                                                            *)
BuildOutputItem(c) ==
    Told(Filter(TextThenCalls(c.content), LAMBDA p : ~IsText(p) \/ p.text # <<>>), "completed")

SerializeResponses(response) ==
    Reply(Mapped(BuildOutputItem, response.choices), response.usage)

(* The choices are one message, the first says how it ended, and there is  *)
(* no total.                                                               *)
SerializeMessages(response) ==
    Reply(<<Told(Filter(FlattenSeq(Mapped(LAMBDA c : c.content, response.choices)),
                        LAMBDA p : IsText(p) \/ IsToolUse(p)),
                 ToAnthropicStopReason(IF response.choices = <<>> THEN "stop"
                                       ELSE response.choices[1].finish))>>,
          [response.usage EXCEPT !.total = 0])

(* Texts, and calls without their ids. *)
ToGeminiParts(content) ==
    Mapped(LAMBDA p : [p EXCEPT !.id = NoId],
           Filter(content, LAMBDA p : IsText(p) \/ IsToolUse(p)))

SerializeGenerate(response) ==
    Reply(Mapped(LAMBDA c : Told(ToGeminiParts(c.content), ToGeminiFinishReason(c.finish)),
                 response.choices),
          response.usage)

SerializeResponse(protocol, response) ==
    CASE protocol = "OpenAI-Chat"        -> SerializeChat(response)
      [] protocol = "OpenAI-Responses"   -> SerializeResponses(response)
      [] protocol = "Anthropic-Messages" -> SerializeMessages(response)
      [] OTHER                           -> SerializeGenerate(response)
=============================================================================
