------------------------------ MODULE Conversions ------------------------------
(***************************************************************************)
(* The three adapters' conversions between the normalized conversation and *)
(* the wire (convert.go of pkg/providers/anthropic, openai and ollama).    *)
(*                                                                         *)
(* XTakes(m) says that adapter X builds a wire message from m rather than  *)
(* refuse the request, XWire(req) what it sends, XReply(parts) the message *)
(* it makes of a provider's answer.  Messages on the wire are written like *)
(* normalized ones: a role and, in order, the parts the format has for     *)
(* texts, images, calls and results.                                       *)
(*                                                                         *)
(* The specs of tools, tool_choice, the generation parameters, stop        *)
(* reasons and usage are copied and left out.                              *)
(*                                                                         *)
(* Bound of the model: the content of a result holds no further result.    *)
(***************************************************************************)
EXTENDS Messages

Adapters == {"anthropic", "openai", "ollama"}

Holds(m, kinds) == \A i \in DOMAIN m.content : m.content[i].kind \in kinds

CallsOf(m)    == Filtered(m.content, IsCall)
HasBase64(b)  == b.source \in {"base64", "both"}
HasPicture(b) == b.source # "none"

\* out.Messages of OpenAI and Ollama begins with req.System.
SystemPrompt(req) ==
  IF req.system = << >> THEN << >> ELSE <<Says("system", <<Text(req.system)>>)>>

\* One wire message per tool_result, with nothing of its content but the texts.
ResultMessages(m) ==
  [i \in DOMAIN m.content |->
     Says("tool", <<Result(m.content[i].id, <<Text(Joined(m.content[i].content))>>)>>)]

-------------------------------------------------------------------------------
(* Anthropic. *)

AnthropicTakesPart(b) ==
  \/ b.kind \in {"text", "thinking"}
  \/ IsImage(b) /\ HasPicture(b)
  \/ IsCall(b) /\ b.input # "broken"   \* json.Marshal refuses a RawMessage that is no JSON

\* blockToWire, which looks into results
AnthropicTakesBlock(b) ==
  \/ AnthropicTakesPart(b)
  \/ IsResult(b) /\ \A i \in DOMAIN b.content : AnthropicTakesPart(b.content[i])

AnthropicTakes(m) ==
  \/ m.role = "system"
  \/ /\ m.role \in {"user", "assistant", "tool"}
     /\ \A i \in DOMAIN m.content : AnthropicTakesBlock(m.content[i])

\* A call without input is sent with {}, an image that has both forms as base64.
AnthropicPart(b) ==
  CASE IsCall(b) /\ b.input = "empty" -> [b EXCEPT !.input = "object"]
    [] IsImage(b) -> Image(IF HasBase64(b) THEN "base64" ELSE "url")
    [] OTHER -> b

AnthropicBlock(b) ==
  IF IsResult(b)
  THEN Result(b.id, [i \in DOMAIN b.content |-> AnthropicPart(b.content[i])])
  ELSE AnthropicPart(b)

\* System messages go to the front, joined with req.System (the field is left out when
\* that is empty); results go to the user.
AnthropicSystem(req) ==
  LET systems == Filtered(req.messages, LAMBDA m : m.role = "system")
  IN  req.system \o FlattenSeq([i \in DOMAIN systems |-> Joined(systems[i].content)])

AnthropicWire(req) ==
  LET turns == Filtered(req.messages, LAMBDA m : m.role # "system")
  IN  <<Says("system", <<Text(AnthropicSystem(req))>>)>>
        \o [n \in DOMAIN turns |->
              Says(IF turns[n].role = "tool" THEN "user" ELSE turns[n].role,
                   [i \in DOMAIN turns[n].content |-> AnthropicBlock(turns[n].content[i])])]

\* convertResponse and wireToBlock: a block that is not understood becomes an empty
\* text (with the block itself in the metadata).  The input of a call is JSON.
AnthropicReply(parts) ==
  Says("assistant", [i \in DOMAIN parts |->
    IF parts[i] = Malformed THEN Text(<< >>) ELSE parts[i]])

-------------------------------------------------------------------------------
(* OpenAI. *)

OpenAITakesOfUser(b) == IsText(b) \/ (IsImage(b) /\ HasPicture(b))

OpenAITakes(m) ==
  \/ m.role = "system"
  \/ m.role = "user" /\ \A i \in DOMAIN m.content : OpenAITakesOfUser(m.content[i])
  \/ m.role = "assistant" /\ Holds(m, {"text", "thinking", "tool_use"})
  \/ m.role = "tool" /\ Holds(m, {"tool_result"})

OpenAIPart(b) == IF IsImage(b) THEN Image(IF b.source = "base64" THEN "base64" ELSE "url") ELSE b

\* Empty arguments are sent as {}, anything else as it is.
OpenAICall(b) == IF b.input = "empty" THEN [b EXCEPT !.input = "object"] ELSE b

\* Mutant: a message is sent as its calls or as its text.
OpenAIAssistantEither(m) ==
  LET calls == CallsOf(m)
  IN  Says("assistant", IF calls = << >> THEN <<Text(Joined(m.content))>>
                        ELSE [i \in DOMAIN calls |-> OpenAICall(calls[i])])

\* assistantContent: the text, then the calls; no thinking.
OpenAIAssistant(m) ==
  LET calls == CallsOf(m)
  IN  Says("assistant",
           <<Text(Joined(m.content))>> \o [i \in DOMAIN calls |-> OpenAICall(calls[i])])

OpenAIMessages(m) ==
  CASE m.role = "system"    -> <<Says("system", <<Text(Joined(m.content))>>)>>
    [] m.role = "user"      -> <<Says("user", [i \in DOMAIN m.content |-> OpenAIPart(m.content[i])])>>
    [] m.role = "assistant" -> <<OpenAIAssistant(m)>>
    [] m.role = "tool"      -> ResultMessages(m)

OpenAIWire(req) ==
  SystemPrompt(req)
    \o FlattenSeq([n \in DOMAIN req.messages |-> OpenAIMessages(req.messages[n])])

\* convertResponse: the texts that are not empty, then the calls.  Of no choices, nothing.
OpenAIReply(parts) ==
  Says("assistant", Filtered(parts, LAMBDA b : IsText(b) /\ b.text # << >>)
                      \o Filtered(parts, IsCall))

-------------------------------------------------------------------------------
(* Ollama. *)

\* Mutant: a call needs its ParsedInput.
OllamaTakesParsedCall(b) == b.input = "object"

\* RawInput must be an object, or null, or nothing.
OllamaTakesCall(b) == b.input \in {"object", "null", "empty"}

OllamaTakesOfUser(b) == IsText(b) \/ (IsImage(b) /\ HasBase64(b))

OllamaTakes(m) ==
  \/ m.role = "system"
  \/ m.role = "user" /\ \A i \in DOMAIN m.content : OllamaTakesOfUser(m.content[i])
  \/ /\ m.role = "assistant"
     /\ Holds(m, {"text", "thinking", "tool_use"})
     /\ \A i \in DOMAIN CallsOf(m) : OllamaTakesCall(CallsOf(m)[i])
  \/ m.role = "tool" /\ Holds(m, {"tool_result"})

\* Calls and results have no ids on the wire, and arguments are an object.
OllamaMessages(m) ==
  LET images  == Filtered(m.content, IsImage)
      calls   == CallsOf(m)
      results == ResultMessages(m)
  IN  CASE m.role = "system" -> <<Says("system", <<Text(Joined(m.content))>>)>>
        [] m.role = "user" ->
             <<Says("user", <<Text(Joined(m.content))>>
                              \o [i \in DOMAIN images |-> Image("base64")])>>
        [] m.role = "assistant" ->
             <<Says("assistant", <<Text(Joined(m.content))>>
                \o [i \in DOMAIN calls |-> Call(NoId, calls[i].name, "object")])>>
        [] m.role = "tool" ->
             [i \in DOMAIN m.content |->
                Says("tool", <<Result(NoId, results[i].content[1].content)>>)]

OllamaWire(req) ==
  SystemPrompt(req)
    \o FlattenSeq([n \in DOMAIN req.messages |-> OllamaMessages(req.messages[n])])

\* Mutant: counted one off.
OllamaIdOneLess(i) == <<0, i - 2>>

\* Ollama gives no ids.  The adapter makes up ollama_call_0, ollama_call_1, ...: they
\* tell the calls of one answer apart, not those of two.
OllamaId(i) == <<0, i - 1>>

\* convertResponse: the text, if there is one, then the calls.
OllamaReply(parts) ==
  LET text  == Joined(parts)
      calls == Filtered(parts, IsCall)
  IN  Says("assistant",
        (IF text = << >> THEN << >> ELSE <<Text(text)>>)
          \o [i \in DOMAIN calls |-> Call(OllamaId(i), calls[i].name, calls[i].input)])

-------------------------------------------------------------------------------
(* By adapter. *)

Takes(a, m) == CASE a = "anthropic" -> AnthropicTakes(m)
                 [] a = "openai"    -> OpenAITakes(m)
                 [] a = "ollama"    -> OllamaTakes(m)

\* Whether the adapter builds a request at all; otherwise its error is InvalidRequest.
Builds(a, msgs) == \A n \in DOMAIN msgs : Takes(a, msgs[n])

Wire(a, req) == CASE a = "anthropic" -> AnthropicWire(req)
                  [] a = "openai"    -> OpenAIWire(req)
                  [] a = "ollama"    -> OllamaWire(req)

\* What a decoded answer holds.  A result in it would be a block that is not understood,
\* and an image has its data.
AnswerBlock == {b \in Block : ~IsResult(b) /\ (IsImage(b) => HasPicture(b))}

\* What a call's input can be once the adapter has decoded an answer: a RawMessage of
\* Anthropic is JSON, Ollama's arguments are a map, OpenAI's are any string.
DecodedInputs(a) == CASE a = "anthropic" -> Inputs \ {"broken"}
                      [] a = "openai"    -> Inputs
                      [] a = "ollama"    -> {"object", "null"}

Reply(a, parts) == CASE a = "anthropic" -> AnthropicReply(parts)
                     [] a = "openai"    -> OpenAIReply(parts)
                     [] a = "ollama"    -> OllamaReply(parts)
===============================================================================
