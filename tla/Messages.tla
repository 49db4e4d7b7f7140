------------------------------- MODULE Messages -------------------------------
(***************************************************************************)
(* The normalized conversation of pkg/chat (message.go, tool.go,           *)
(* request.go) and its preflight check (validate.go).                      *)
(*                                                                         *)
(* A text is a sequence of words; what the model keeps of a word is its    *)
(* length in characters.  The id of a tool call is a pair <<n, i>> of the  *)
(* answer n that made it and its number there, or NoId, the empty string.  *)
(* A block without the payload its kind asks for is treated like one of an *)
(* unknown kind everywhere, so both are Malformed.                         *)
(***************************************************************************)
EXTENDS Integers, Sequences, SequencesExt

CONSTANTS Words,    \* what texts are made of
          CharsOf   \* CharsOf[w]: the length of word w

ASSUME WordsAssumption == CharsOf \in [Words -> Nat]

NoId == << >>
Id   == (Nat \X Nat) \cup {NoId}

\* The elements that pass the test, in order: SelectSeq, by a definition that the
\* prover can expand.
Filtered(s, Test(_)) ==
  FlattenSeq([i \in DOMAIN s |-> IF Test(s[i]) THEN <<s[i]>> ELSE << >>])

-------------------------------------------------------------------------------
(* Content blocks and messages. *)

Text(t)              == [kind |-> "text", text |-> t]
Thinking(t)          == [kind |-> "thinking", text |-> t]
Image(source)        == [kind |-> "image", source |-> source]
Call(id, name, in)   == [kind |-> "tool_use", id |-> id, name |-> name, input |-> in]
Result(id, content)  == [kind |-> "tool_result", id |-> id, content |-> content]
Malformed            == [kind |-> "unknown"]

Says(role, blocks) == [role |-> role, content |-> blocks]

\* What an image block has: one of url and base64, both, neither, or a url without
\* its media type.
Sources == {"url", "base64", "both", "none", "untyped"}

\* RawInput and ParsedInput of a call: RawInput holds a JSON object (then ParsedInput
\* has it too), null, another JSON value, or no JSON; or both fields are empty.
Inputs == {"object", "null", "array", "broken", "empty"}

Roles == {"system", "user", "assistant", "tool", "other", ""}

Plain == [kind : {"text", "thinking"}, text : Seq(Words)]
   \cup [kind : {"image"}, source : Sources]
   \cup {Malformed}

Block == Plain
   \cup [kind : {"tool_use"}, id : Id, name : STRING, input : Inputs]
   \cup [kind : {"tool_result"}, id : Id, content : Seq(Plain)]

Message == [role : Roles, content : Seq(Block)]

IsCall(b)   == b.kind = "tool_use"
IsResult(b) == b.kind = "tool_result"
IsText(b)   == b.kind = "text"
IsImage(b)  == b.kind = "image"

\* collectText: the text blocks, one after the other.
Joined(blocks) ==
  FlattenSeq([i \in DOMAIN blocks |-> IF IsText(blocks[i]) THEN blocks[i].text ELSE << >>])

\* The sum of a sequence of numbers.
Total(s) ==
  LET sum[n \in 0..Len(s)] == IF n = 0 THEN 0 ELSE sum[n-1] + s[n]
  IN  sum[Len(s)]

\* len(b.Text)
Chars(t) == Total([i \in DOMAIN t |-> CharsOf[t[i]]])

-------------------------------------------------------------------------------
(* Preflight. *)

\* validateBlock; it does not look into the content of a result.
ValidBlock(b) ==
  \/ b.kind \in {"text", "thinking"}
  \/ IsImage(b) /\ b.source \in {"url", "base64"}
  \/ IsCall(b) /\ b.name # ""
  \/ IsResult(b) /\ b.id # NoId

\* Every tool_result has the id of a tool_use before it, the cross-message check.
ResultsFollowCalls(msgs) ==
  \A n \in DOMAIN msgs : \A j \in DOMAIN msgs[n].content :
    IsResult(msgs[n].content[j]) =>
      \E m \in 1..n : \E i \in DOMAIN msgs[m].content :
        /\ m < n \/ i < j
        /\ IsCall(msgs[m].content[i])
        /\ msgs[m].content[i].id = msgs[n].content[j].id

\* A "provider:model" without one of its halves; a bare alias has no colon and passes.
NoModel == "none"
Alias   == "alias"
BadRef  == "badRef"

\* Mutant: no check across the messages.
ValidateBlocksOnly(req) ==
  /\ req.messages # << >> \/ req.system # << >>
  /\ req.model # BadRef
  /\ req.choiceOk
  /\ \A n \in DOMAIN req.messages : \A j \in DOMAIN req.messages[n].content :
       ValidBlock(req.messages[n].content[j])

\* A request: the model or a policy, the prompt and the messages, the tools' specs,
\* whether tool_choice is one of the modes, the thinking switch and max_tokens.
Validate(req) ==
  /\ req.messages # << >> \/ req.system # << >>
  /\ req.model # BadRef
  /\ req.choiceOk
  /\ \A n \in DOMAIN req.messages : \A j \in DOMAIN req.messages[n].content :
       ValidBlock(req.messages[n].content[j])
  /\ ResultsFollowCalls(req.messages)
===============================================================================
