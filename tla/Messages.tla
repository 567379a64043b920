------------------------------- MODULE Messages -------------------------------
(***************************************************************************)
(* ir/types.ts and ir/normalize.ts: the request and the response between   *)
(* the protocols of the clients and those of the upstreams, and the        *)
(* fingerprint under which a response is cached.                           *)
(*                                                                         *)
(* A text is a sequence of words; what separates two texts that are joined *)
(* ('', a space or a line end) is left out, so that a text of white space  *)
(* is the empty text.  The arguments of a tool call are a text that stands *)
(* for the object.  A field that may be missing is a sequence of at most   *)
(* one value.                                                              *)
(***************************************************************************)
EXTENDS Arrays, SequencesExt

CONSTANTS Words,   \* what is said, called and answered
          Ids,     \* the ids of tool calls
          Tools,   \* the names of tools
          Models   \* the names of models

(* The empty string is an id: of a result that names no call. *)
NoId == ""
NoTool == ""

NamedChoices == {"absent", "auto", "none", "required"}

ASSUME MessagesConfig ==
    /\ NoId \in Ids /\ NoTool \notin Tools
    /\ NamedChoices \cap Tools = {}

Text == Seq(Words)

Roles == {"system", "developer", "user", "assistant", "tool"}

(* One piece of a message's content; images are dropped by every client.   *)
Part == [type: {"text", "tool_use", "tool_result", "thinking"},
         id: Ids, name: Tools \cup {NoTool}, text: Text]

Message == [role: Roles, content: Seq(Part)]

Options == {"temperature", "top_p", "max_tokens", "stop"}

Request == [model: Models, messages: Seq(Message), stream: BOOLEAN,
            options: SUBSET Options, tools: SUBSET Tools,
            toolChoice: NamedChoices \cup Tools]

FinishReasons == {"stop", "length", "tool_calls", "content_filter", "error"}

Usage == [prompt: Nat, completion: Nat, cached: Nat, total: Nat]

Response == [choices: Seq([content: Seq(Part), finish: FinishReasons]), usage: Usage]

TextPart(text)       == [type |-> "text", id |-> NoId, name |-> NoTool, text |-> text]
Thinking(text)       == [type |-> "thinking", id |-> NoId, name |-> NoTool, text |-> text]
ToolUse(id, n, args) == [type |-> "tool_use", id |-> id, name |-> n, text |-> args]
ToolResult(id, text) == [type |-> "tool_result", id |-> id, name |-> NoTool, text |-> text]

IsText(c)       == c.type = "text"
IsToolUse(c)    == c.type = "tool_use"
IsToolResult(c) == c.type = "tool_result"

IsSystem(m) == m.role \in {"system", "developer"}
IsTurn(m)   == ~IsSystem(m)

-----------------------------------------------------------------------------
(* The texts of some parts, joined. *)
Joined(parts) == FlattenSeq(Mapped(LAMBDA c : c.text, parts))

(* The parts of every message, one after the other. *)
Contents(messages) == FlattenSeq(Mapped(LAMBDA m : m.content, messages))

Texts(content)    == Filter(content, IsText)
ToolUses(content) == Filter(content, IsToolUse)
Results(content)  == Filter(content, IsToolResult)

-----------------------------------------------------------------------------
(* Empty texts say nothing. *)
NormalizeMessage(m) ==
    [m EXCEPT !.content = Filter(@, LAMBDA c : ~IsText(c) \/ c.text # <<>>)]

(* A system or developer message is joined to the one before it.           *)
Merge(out, m) ==
    CASE IsTurn(m) -> Append(out, m)
      [] IsSystem(m) /\ m.content = <<>> -> out
      [] IsSystem(m) /\ m.content # <<>> /\ out # <<>> /\ IsSystem(Last(out)) ->
            [out EXCEPT ![Len(out)].content = @ \o m.content]
      [] OTHER -> Append(out, [m EXCEPT !.role = "system"])

(* System and developer messages that follow each other are one. *)
NormalizeMessages(messages) ==
    LET merged[n \in 0..Len(messages)] ==
          IF n = 0 THEN <<>> ELSE Merge(merged[n - 1], NormalizeMessage(messages[n]))
    IN  merged[Len(messages)]

(* mutant: the fingerprint forgets which model is asked *)
Fingerprint_NoModel(ir) ==
    [model |-> CHOOSE m \in Models : TRUE, messages |-> NormalizeMessages(ir.messages),
     options |-> ir.options \ {"stop"}, tools |-> ir.tools,
     toolChoice |-> ir.toolChoice]

(* What is hashed: neither the stop sequences nor the wish for a stream;   *)
(* the model is the IR's, which for a Gemini client is always the same.    *)
Fingerprint(ir) ==
    [model |-> ir.model, messages |-> NormalizeMessages(ir.messages),
     options |-> ir.options \ {"stop"}, tools |-> ir.tools,
     toolChoice |-> ir.toolChoice]
=============================================================================
