--------------------------- MODULE Conversions_proofs ---------------------------
(***************************************************************************)
(* Lemmas about the adapters' conversions: the types of what they make, a  *)
(* provider's answer that its adapter takes back, results that follow      *)
(* their calls on the wire because they do in the conversation, and a wire *)
(* that says what the conversation says.                                   *)
(***************************************************************************)
EXTENDS Conversions, Messages_proofs

CallBlock   == [kind : {"tool_use"}, id : Id, name : STRING, input : Inputs]
ResultBlock == [kind : {"tool_result"}, id : Id, content : Seq(Plain)]

\* The kind of a block says what it has.
LEMMA BlockKinds ==
  ASSUME NEW b \in Block
  PROVE  /\ b.kind \in {"text", "thinking", "image", "unknown", "tool_use", "tool_result"}
         /\ b.kind \in {"text", "thinking"} => b.text \in Seq(Words)
         /\ IsImage(b) => b.source \in Sources /\ b = Image(b.source)
         /\ b.kind = "unknown" => b = Malformed
         /\ IsCall(b) => b \in CallBlock
         /\ IsResult(b) => b \in ResultBlock
         /\ ~IsCall(b) /\ ~IsResult(b) => b \in Plain
<1>1. b \in Plain \/ b \in CallBlock \/ b \in ResultBlock
  BY DEF Block, CallBlock, ResultBlock
<1>2. CASE b \in Plain
  BY <1>2 DEF Plain, Malformed, IsImage, IsCall, IsResult, Image
<1>3. CASE b \in CallBlock
  BY <1>3 DEF CallBlock, IsImage, IsCall, IsResult
<1>4. CASE b \in ResultBlock
  BY <1>4 DEF ResultBlock, IsImage, IsCall, IsResult
<1> QED
  BY <1>1, <1>2, <1>3, <1>4

\* What is made of words, ids and contents are blocks.
LEMMA BlocksMade ==
  /\ \A t \in Seq(Words) : Text(t) \in Plain /\ Text(t) \in Block
  /\ \A source \in Sources : Image(source) \in Plain /\ Image(source) \in Block
  /\ \A id \in Id, name \in STRING, input \in Inputs : Call(id, name, input) \in Block
  /\ \A id \in Id, content \in Seq(Plain) : Result(id, content) \in Block
BY DEF Text, Image, Call, Result, Plain, Block

\* The parts of a message.
LEMMA MessageParts ==
  ASSUME NEW m \in Message
  PROVE  /\ m.role \in Roles /\ m.content \in Seq(Block) /\ Len(m.content) \in Nat
         /\ DOMAIN m.content = 1..Len(m.content)
         /\ \A i \in DOMAIN m.content : m.content[i] \in Block
<1>1. m.role \in Roles /\ m.content \in Seq(Block)
  BY DEF Message
<1> QED
  BY <1>1, LenProperties, ElementOfSeq

\* The texts of blocks, one after the other.
LEMMA JoinedTyped ==
  ASSUME NEW blocks \in Seq(Block)
  PROVE  Joined(blocks) \in Seq(Words)
<1> DEFINE pieces == [i \in DOMAIN blocks |-> IF IsText(blocks[i]) THEN blocks[i].text ELSE << >>]
<1>1. /\ DOMAIN blocks = 1..Len(blocks) /\ Len(blocks) \in Nat
      /\ \A i \in DOMAIN blocks : blocks[i] \in Block
  BY LenProperties, ElementOfSeq
<1>2. \A i \in DOMAIN blocks : pieces[i] \in Seq(Words)
  BY <1>1, BlockKinds DEF IsText
<1>3. pieces \in Seq(Seq(Words))
  BY <1>1, <1>2
<1> HIDE DEF pieces
<1>4. FlattenSeq(pieces) \in Seq(Words)
  BY <1>3, FlattenLayout
<1> QED
  BY <1>4 DEF Joined, pieces

\* The calls among blocks: each one once, in their order.
LEMMA CallsPicked ==
  ASSUME NEW blocks \in Seq(Block)
  PROVE  LET D == {i \in 1..Len(blocks) : IsCall(blocks[i])}
         IN  /\ Filtered(blocks, IsCall) \in Seq(CallBlock)
             /\ \E at : Picks(at, D, blocks, Filtered(blocks, IsCall))
<1> DEFINE D == {i \in 1..Len(blocks) : IsCall(blocks[i])}
           t == Filtered(blocks, IsCall)
<1>1. /\ DOMAIN blocks = 1..Len(blocks) /\ Len(blocks) \in Nat
      /\ \A i \in 1..Len(blocks) : blocks[i] \in Block
  BY LenProperties, ElementOfSeq
<1>2. t = FlattenSeq([i \in DOMAIN blocks |-> IF i \in D THEN <<blocks[i]>> ELSE << >>])
  <2>1. [i \in DOMAIN blocks |-> IF IsCall(blocks[i]) THEN <<blocks[i]>> ELSE << >>]
          = [i \in DOMAIN blocks |-> IF i \in D THEN <<blocks[i]>> ELSE << >>]
    BY <1>1
  <2> QED
    BY <2>1 DEF Filtered
<1>3. D \in SUBSET (1..Len(blocks))
  OBVIOUS
<1> HIDE DEF t, D
<1>4. t \in Seq(Block) /\ \E at : Picks(at, D, blocks, t)
  BY <1>2, <1>3, FilterPicks
<1>5. PICK at : Picks(at, D, blocks, t)
  BY <1>4
<1>6. \A k \in 1..Len(t) : t[k] \in CallBlock
  <2> TAKE k \in 1..Len(t)
  <2>1. PICK i \in D : k = at[i] /\ t[at[i]] = blocks[i]
    BY <1>5 DEF Picks
  <2>2. blocks[i] \in Block /\ IsCall(blocks[i])
    BY <1>1 DEF D
  <2> QED
    BY <2>1, <2>2, BlockKinds
<1>7. t \in Seq(CallBlock)
  <2>1. Len(t) \in Nat /\ DOMAIN t = 1..Len(t) /\ t = [k \in 1..Len(t) |-> t[k]]
    BY <1>4, LenProperties
  <2> QED
    BY <1>6, <2>1
<1> QED
  BY <1>4, <1>7 DEF t, D

\* The texts of an answer that are not empty.
LEMMA TextsPicked ==
  ASSUME NEW blocks \in Seq(Block)
  PROVE  LET t == Filtered(blocks, LAMBDA b : IsText(b) /\ b.text # << >>)
         IN  t \in Seq(Block) /\ \A k \in 1..Len(t) : IsText(t[k])
<1> DEFINE D == {i \in 1..Len(blocks) : IsText(blocks[i]) /\ blocks[i].text # << >>}
           t == Filtered(blocks, LAMBDA b : IsText(b) /\ b.text # << >>)
<1>1. DOMAIN blocks = 1..Len(blocks)
  BY LenProperties
<1>2. t = FlattenSeq([i \in DOMAIN blocks |-> IF i \in D THEN <<blocks[i]>> ELSE << >>])
  <2>1. [i \in DOMAIN blocks |-> IF IsText(blocks[i]) /\ blocks[i].text # << >>
                                 THEN <<blocks[i]>> ELSE << >>]
          = [i \in DOMAIN blocks |-> IF i \in D THEN <<blocks[i]>> ELSE << >>]
    BY <1>1
  <2> QED
    BY <2>1 DEF Filtered
<1>3. D \in SUBSET (1..Len(blocks))
  OBVIOUS
<1> HIDE DEF t, D
<1>4. t \in Seq(Block) /\ \E at : Picks(at, D, blocks, t)
  BY <1>2, <1>3, FilterPicks
<1>5. \A k \in 1..Len(t) : IsText(t[k])
  BY <1>4 DEF Picks, D
<1> QED
  BY <1>4, <1>5 DEF t

\* An element of a sequence behind another one is of the first or of the second.
LEMMA ConcatElements ==
  ASSUME NEW S, NEW a \in Seq(S), NEW b \in Seq(S), NEW k \in DOMAIN (a \o b)
  PROVE  \/ k \in DOMAIN a /\ (a \o b)[k] = a[k]
         \/ k - Len(a) \in DOMAIN b /\ (a \o b)[k] = b[k - Len(a)]
<1>1. /\ Len(a) \in Nat /\ Len(b) \in Nat /\ k \in 1..(Len(a) + Len(b))
      /\ DOMAIN a = 1..Len(a) /\ DOMAIN b = 1..Len(b)
      /\ \A i \in 1..Len(a) : (a \o b)[i] = a[i]
      /\ \A i \in 1..Len(b) : (a \o b)[Len(a) + i] = b[i]
  BY LenProperties, ConcatProperties
<1> DEFINE la == Len(a)  lb == Len(b)
<1>2. la \in Nat /\ lb \in Nat /\ k \in 1..(la + lb)
  BY <1>1
<1> HIDE DEF la, lb
<1>3. k \in 1..la \/ (k - la \in 1..lb /\ la + (k - la) = k)
  BY <1>2
<1> QED
  BY <1>1, <1>3 DEF la, lb

-------------------------------------------------------------------------------
(* Answers. *)

\* What is said by a message made of blocks that are no results.
LEMMA SaysMessage ==
  ASSUME NEW role \in Roles, NEW blocks \in Seq(Block)
  PROVE  /\ Says(role, blocks) \in Message
         /\ Says(role, blocks).role = role /\ Says(role, blocks).content = blocks
BY DEF Says, Message

\* Anthropic's adapter takes back what it made of an answer.
LEMMA AnthropicReplyProperties ==
  ASSUME NEW parts \in Seq(AnswerBlock),
         \A i \in DOMAIN parts : IsCall(parts[i]) => parts[i].input # "broken"
  PROVE  LET m == AnthropicReply(parts)
         IN  /\ m \in Message
             /\ \A i \in DOMAIN m.content : ~IsResult(m.content[i])
             /\ AnthropicTakes(m)
<1> DEFINE blocks == [i \in DOMAIN parts |-> IF parts[i] = Malformed THEN Text(<< >>) ELSE parts[i]]
<1>1. /\ DOMAIN parts = 1..Len(parts) /\ Len(parts) \in Nat
      /\ \A i \in DOMAIN parts : parts[i] \in AnswerBlock
  BY LenProperties, ElementOfSeq
<1>2. << >> \in Seq(Words)
  OBVIOUS
<1>3. ASSUME NEW i \in DOMAIN parts
      PROVE  blocks[i] \in Block /\ ~IsResult(blocks[i]) /\ AnthropicTakesBlock(blocks[i])
  <2>1. parts[i] \in Block /\ ~IsResult(parts[i]) /\ (IsImage(parts[i]) => HasPicture(parts[i]))
    BY <1>1 DEF AnswerBlock
  <2>2. CASE parts[i] = Malformed
    <3>1. blocks[i] = Text(<< >>)
      BY <2>2
    <3>2. Text(<< >>) \in Block /\ Text(<< >>).kind = "text"
      BY <1>2, BlocksMade DEF Text
    <3> HIDE DEF blocks
    <3> QED
      BY <3>1, <3>2 DEF IsResult, AnthropicTakesBlock, AnthropicTakesPart
  <2>3. CASE parts[i] # Malformed
    <3>1. blocks[i] = parts[i]
      BY <2>3
    <3> HIDE DEF blocks
    <3>2. parts[i].kind \in {"text", "thinking"} \/ IsImage(parts[i]) \/ IsCall(parts[i])
      BY <2>1, <2>3, BlockKinds DEF IsImage, IsCall, IsResult
    <3> QED
      BY <2>1, <3>1, <3>2 DEF AnthropicTakesBlock, AnthropicTakesPart
  <2> QED
    BY <2>2, <2>3
<1>4. blocks \in Seq(Block) /\ DOMAIN blocks = DOMAIN parts
  BY <1>1, <1>3
<1> HIDE DEF blocks
<1>5. AnthropicReply(parts) = Says("assistant", blocks) /\ "assistant" \in Roles
  BY DEF AnthropicReply, blocks, Roles
<1> QED
  BY <1>3, <1>4, <1>5, SaysMessage DEF AnthropicTakes

\* OpenAI's adapter takes back what it made of an answer.
LEMMA OpenAIReplyProperties ==
  ASSUME NEW parts \in Seq(Block)
  PROVE  LET m == OpenAIReply(parts)
         IN  /\ m \in Message
             /\ \A i \in DOMAIN m.content : ~IsResult(m.content[i])
             /\ OpenAITakes(m)
<1> DEFINE texts == Filtered(parts, LAMBDA b : IsText(b) /\ b.text # << >>)
           calls == Filtered(parts, IsCall)
<1>1. texts \in Seq(Block) /\ \A k \in 1..Len(texts) : IsText(texts[k])
  BY TextsPicked
<1>2. calls \in Seq(CallBlock) /\ calls \in Seq(Block)
  <2>1. calls \in Seq(CallBlock)
    BY CallsPicked
  <2>2. CallBlock \subseteq Block
    BY DEF CallBlock, Block
  <2> QED
    BY <2>1, <2>2, SeqMonotonic
<1>3. \A k \in 1..Len(calls) : IsCall(calls[k])
  <2> HIDE DEF calls
  <2>1. \A k \in 1..Len(calls) : calls[k] \in CallBlock
    BY <1>2, ElementOfSeq
  <2> QED
    BY <2>1 DEF CallBlock, IsCall
<1>4. OpenAIReply(parts) = Says("assistant", texts \o calls) /\ "assistant" \in Roles
  BY DEF OpenAIReply, Roles
<1> HIDE DEF texts, calls
<1>5. texts \o calls \in Seq(Block) /\ DOMAIN texts = 1..Len(texts) /\ DOMAIN calls = 1..Len(calls)
  BY <1>1, <1>2, ConcatProperties, LenProperties
<1> DEFINE blocks == texts \o calls
<1>6. \A i \in DOMAIN blocks : IsText(blocks[i]) \/ IsCall(blocks[i])
  BY <1>1, <1>2, <1>3, <1>5, ConcatElements
<1> HIDE DEF blocks
<1>7. \A i \in DOMAIN blocks : ~IsResult(blocks[i]) /\ blocks[i].kind \in {"text", "thinking", "tool_use"}
  BY <1>6 DEF IsText, IsCall, IsResult
<1> DEFINE m == Says("assistant", blocks)
<1>8. m \in Message /\ m.role = "assistant" /\ m.content = blocks
  BY <1>4, <1>5, SaysMessage DEF blocks
<1>9. OpenAITakes(m)
  BY <1>7, <1>8 DEF OpenAITakes, Holds
<1> QED
  BY <1>4, <1>7, <1>8, <1>9 DEF blocks

\* Ollama's adapter takes back what it made of an answer.
LEMMA OllamaReplyProperties ==
  ASSUME NEW parts \in Seq(Block),
         \A i \in DOMAIN parts : IsCall(parts[i]) => parts[i].input \in {"object", "null"}
  PROVE  LET m == OllamaReply(parts)
         IN  /\ m \in Message
             /\ \A i \in DOMAIN m.content : ~IsResult(m.content[i])
             /\ OllamaTakes(m)
<1> DEFINE text  == Joined(parts)
           calls == Filtered(parts, IsCall)
           D     == {i \in 1..Len(parts) : IsCall(parts[i])}
           first == IF text = << >> THEN << >> ELSE <<Text(text)>>
           made  == [i \in DOMAIN calls |-> Call(OllamaId(i), calls[i].name, calls[i].input)]
<1>1. text \in Seq(Words)
  BY JoinedTyped
<1>2. calls \in Seq(CallBlock) /\ \E at : Picks(at, D, parts, calls)
  BY CallsPicked
<1>3. OllamaReply(parts) = Says("assistant", first \o made) /\ "assistant" \in Roles
  BY DEF OllamaReply, Roles
<1> HIDE DEF text, calls, first
<1>4. DOMAIN calls = 1..Len(calls) /\ Len(calls) \in Nat /\ DOMAIN parts = 1..Len(parts)
  BY <1>2, LenProperties
<1>5. ASSUME NEW k \in 1..Len(calls)
      PROVE  made[k] \in Block /\ IsCall(made[k]) /\ OllamaTakesCall(made[k])
  <2>1. calls[k] \in CallBlock
    BY <1>2, ElementOfSeq
  <2>2. calls[k].name \in STRING /\ calls[k].input \in Inputs
    BY <2>1 DEF CallBlock
  <2>3. OllamaId(k) \in Id
    BY DEF OllamaId, Id
  <2>4. calls[k].input \in {"object", "null"}
    <3>1. PICK i \in D : calls[k] = parts[i]
      BY <1>2 DEF Picks
    <3> QED
      BY <1>4, <3>1
  <2>5. made[k] = Call(OllamaId(k), calls[k].name, calls[k].input)
    BY <1>4
  <2>6. made[k] \in Block
    BY <2>2, <2>3, <2>5, BlocksMade
  <2> QED
    BY <2>4, <2>5, <2>6 DEF Call, IsCall, OllamaTakesCall
<1>6. made \in Seq(Block) /\ DOMAIN made = 1..Len(calls)
  BY <1>4, <1>5
<1> HIDE DEF made
<1>7. first \in Seq(Block) /\ \A k \in DOMAIN first : IsText(first[k])
  <2>1. CASE text = << >>
    BY <2>1 DEF first
  <2>2. CASE text # << >>
    <3>1. first = <<Text(text)>> /\ Text(text) \in Block /\ IsText(Text(text))
      BY <1>1, <2>2, BlocksMade DEF first, Text, IsText
    <3> QED
      BY <3>1
  <2> QED
    BY <2>1, <2>2
<1> DEFINE blocks == first \o made
<1>8. blocks \in Seq(Block)
  BY <1>6, <1>7, ConcatProperties
<1>9. \A i \in DOMAIN blocks : IsText(blocks[i]) \/ (IsCall(blocks[i]) /\ OllamaTakesCall(blocks[i]))
  BY <1>5, <1>6, <1>7, ConcatElements
<1> HIDE DEF blocks
<1>10. \A i \in DOMAIN blocks : ~IsResult(blocks[i]) /\ blocks[i].kind \in {"text", "thinking", "tool_use"}
  BY <1>9 DEF IsText, IsCall, IsResult
<1> DEFINE m == Says("assistant", blocks)
<1>11. m \in Message /\ m.role = "assistant" /\ m.content = blocks
  BY <1>3, <1>8, SaysMessage
<1>12. \A i \in DOMAIN CallsOf(m) : OllamaTakesCall(CallsOf(m)[i])
  <2> DEFINE mine == Filtered(blocks, IsCall)
  <2>1. /\ CallsOf(m) = mine
        /\ mine \in Seq(CallBlock)
        /\ \E at : Picks(at, {i \in 1..Len(blocks) : IsCall(blocks[i])}, blocks, mine)
    BY <1>8, <1>11, CallsPicked DEF CallsOf
  <2> HIDE DEF mine
  <2>2. DOMAIN mine = 1..Len(mine) /\ DOMAIN blocks = 1..Len(blocks)
    BY <1>8, <2>1, LenProperties
  <2>3. \A k \in DOMAIN mine : \E i \in DOMAIN blocks : IsCall(blocks[i]) /\ mine[k] = blocks[i]
    BY <2>1, <2>2 DEF Picks
  <2>4. \A i \in DOMAIN blocks : IsCall(blocks[i]) => OllamaTakesCall(blocks[i])
    BY <1>9 DEF IsCall, IsText
  <2> QED
    BY <2>1, <2>3, <2>4
<1>13. OllamaTakes(m)
  BY <1>10, <1>11, <1>12 DEF OllamaTakes, Holds
<1> QED
  BY <1>3, <1>10, <1>11, <1>13 DEF blocks

\* Each adapter takes back what it made of an answer; there are no results in it.
LEMMA ReplyProperties ==
  ASSUME NEW a \in Adapters, NEW parts \in Seq(AnswerBlock),
         \A i \in DOMAIN parts : IsCall(parts[i]) => parts[i].input \in DecodedInputs(a)
  PROVE  /\ Reply(a, parts) \in Message
         /\ \A i \in DOMAIN Reply(a, parts).content : ~IsResult(Reply(a, parts).content[i])
         /\ Takes(a, Reply(a, parts))
<1>1. parts \in Seq(Block)
  <2>1. AnswerBlock \subseteq Block
    BY DEF AnswerBlock
  <2> QED
    BY <2>1, SeqMonotonic
<1>2. CASE a = "anthropic"
  <2>1. \A i \in DOMAIN parts : IsCall(parts[i]) => parts[i].input # "broken"
    BY <1>2 DEF DecodedInputs
  <2> QED
    BY <1>2, <2>1, AnthropicReplyProperties DEF Reply, Takes
<1>3. CASE a = "openai"
  BY <1>1, <1>3, OpenAIReplyProperties DEF Reply, Takes
<1>4. CASE a = "ollama"
  <2>1. \A i \in DOMAIN parts : IsCall(parts[i]) => parts[i].input \in {"object", "null"}
    BY <1>4 DEF DecodedInputs
  <2> QED
    BY <1>1, <1>4, <2>1, OllamaReplyProperties DEF Reply, Takes
<1> QED
  BY <1>2, <1>3, <1>4 DEF Adapters

-------------------------------------------------------------------------------
(* Results follow their calls on the wire. *)

\* A call stays a call, with its id, and nothing else becomes a result.
LEMMA AnthropicBlockKeeps ==
  ASSUME NEW b \in Block
  PROVE  /\ IsCall(b) => IsCall(AnthropicBlock(b)) /\ AnthropicBlock(b).id = b.id
         /\ IsResult(AnthropicBlock(b)) => IsResult(b) /\ AnthropicBlock(b).id = b.id
<1>1. CASE IsResult(b)
  BY <1>1 DEF AnthropicBlock, Result, IsResult, IsCall
<1>2. CASE IsCall(b)
  <2>1. b \in CallBlock /\ ~IsResult(b) /\ ~IsImage(b)
    BY <1>2, BlockKinds DEF IsCall, IsResult, IsImage
  <2>2. AnthropicBlock(b) = b \/ AnthropicBlock(b) = [b EXCEPT !.input = "object"]
    BY <2>1 DEF AnthropicBlock, AnthropicPart
  <2>3. AnthropicBlock(b).kind = b.kind /\ AnthropicBlock(b).id = b.id
    BY <2>1, <2>2 DEF CallBlock
  <2> QED
    BY <1>2, <2>1, <2>3 DEF IsCall, IsResult
<1>3. CASE ~IsResult(b) /\ ~IsCall(b)
  <2>1. AnthropicBlock(b) = b \/ \E source : AnthropicBlock(b) = Image(source)
    BY <1>3 DEF AnthropicBlock, AnthropicPart
  <2> QED
    BY <1>3, <2>1 DEF Image, IsResult
<1> QED
  BY <1>1, <1>2, <1>3

\* Anthropic is sent every call that is not in a prompt, in its place, and no results but
\* those of the conversation.
LEMMA AnthropicWireFollows ==
  ASSUME NEW req, req.messages \in Seq(Message), ResultsFollowCalls(req.messages),
         \A n \in DOMAIN req.messages : req.messages[n].role = "system" =>
           \A i \in DOMAIN req.messages[n].content : ~IsCall(req.messages[n].content[i])
  PROVE  ResultsFollowCalls(AnthropicWire(req))
<1> DEFINE msgs  == req.messages
           D     == {n \in 1..Len(msgs) : msgs[n].role # "system"}
           turns == Filtered(msgs, LAMBDA m : m.role # "system")
           sys   == Says("system", <<Text(AnthropicSystem(req))>>)
           sent  == [n \in DOMAIN turns |->
                       Says(IF turns[n].role = "tool" THEN "user" ELSE turns[n].role,
                            [i \in DOMAIN turns[n].content |-> AnthropicBlock(turns[n].content[i])])]
           wire  == <<sys>> \o sent
<1>1. AnthropicWire(req) = wire
  BY DEF AnthropicWire
<1>2. DOMAIN msgs = 1..Len(msgs) /\ Len(msgs) \in Nat
  BY LenProperties
<1>3. turns \in Seq(Message) /\ \E at : Picks(at, D, msgs, turns)
  <2>1. [n \in DOMAIN msgs |-> IF msgs[n].role # "system" THEN <<msgs[n]>> ELSE << >>]
          = [n \in DOMAIN msgs |-> IF n \in D THEN <<msgs[n]>> ELSE << >>]
    BY <1>2
  <2>2. turns = FlattenSeq([n \in DOMAIN msgs |-> IF n \in D THEN <<msgs[n]>> ELSE << >>])
    BY <2>1 DEF Filtered
  <2>3. D \in SUBSET (1..Len(msgs))
    OBVIOUS
  <2> HIDE DEF turns, D, msgs
  <2> QED
    BY <2>2, <2>3, FilterPicks DEF msgs
<1> HIDE DEF turns
<1>4. PICK at : Picks(at, D, msgs, turns)
  BY <1>3
<1>5. /\ DOMAIN turns = 1..Len(turns) /\ Len(turns) \in Nat
      /\ \A n \in 1..Len(turns) : turns[n] \in Message
  BY <1>3, LenProperties, ElementOfSeq
<1>6. /\ DOMAIN wire = 1..(Len(turns) + 1)
      /\ wire[1].content = <<Text(AnthropicSystem(req))>>
      /\ \A n \in 1..Len(turns) :
           /\ DOMAIN wire[n+1].content = DOMAIN turns[n].content
           /\ \A i \in DOMAIN turns[n].content :
                wire[n+1].content[i] = AnthropicBlock(turns[n].content[i])
  <2>1. \A n \in DOMAIN turns : sent[n].content = [i \in DOMAIN turns[n].content |-> AnthropicBlock(turns[n].content[i])]
    BY DEF Says
  <2>2. \A n \in DOMAIN turns :
          /\ DOMAIN sent[n].content = DOMAIN turns[n].content
          /\ \A i \in DOMAIN turns[n].content : sent[n].content[i] = AnthropicBlock(turns[n].content[i])
    BY <2>1
  <2>3. sys.content = <<Text(AnthropicSystem(req))>>
    BY DEF Says
  <2>4. sent \in Seq({sent[n] : n \in DOMAIN turns} \cup {sys}) /\ Len(sent) = Len(turns)
    BY <1>5
  <2>5. <<sys>> \in Seq({sent[n] : n \in DOMAIN turns} \cup {sys})
    OBVIOUS
  <2> HIDE DEF sent, sys
  <2>6. /\ wire[1] = sys /\ Len(wire) = 1 + Len(turns)
        /\ \A n \in 1..Len(turns) : wire[1 + n] = sent[n]
        /\ DOMAIN wire = 1..Len(wire)
    BY <1>5, <2>4, <2>5, ConcatProperties, LenProperties
  <2>7. \A n \in 1..Len(turns) : 1 + n = n + 1
    BY <1>5
  <2> HIDE DEF wire
  <2> QED
    BY <1>5, <2>2, <2>3, <2>6, <2>7
<1> HIDE DEF wire, sent, sys
<1> SUFFICES ASSUME NEW n \in DOMAIN wire, NEW j \in DOMAIN wire[n].content,
                    IsResult(wire[n].content[j])
             PROVE  \E m \in 1..n : \E i \in DOMAIN wire[m].content :
                      /\ m < n \/ i < j
                      /\ IsCall(wire[m].content[i])
                      /\ wire[m].content[i].id = wire[n].content[j].id
  BY <1>1 DEF ResultsFollowCalls
<1>7. n # 1
  <2> SUFFICES ASSUME n = 1 PROVE FALSE
    OBVIOUS
  <2>1. wire[n].content[j] = Text(AnthropicSystem(req))
    BY <1>6
  <2> QED
    BY <2>1 DEF IsResult, Text
<1>8. n - 1 \in 1..Len(turns) /\ (n - 1) + 1 = n
  BY <1>5, <1>6, <1>7
<1>9. PICK p \in D : n - 1 = at[p] /\ turns[at[p]] = msgs[p]
  BY <1>4, <1>8 DEF Picks
<1>10. /\ p \in DOMAIN msgs /\ j \in DOMAIN msgs[p].content
       /\ IsResult(msgs[p].content[j])
       /\ wire[n].content[j].id = msgs[p].content[j].id
  <2>1. wire[n].content[j] = AnthropicBlock(msgs[p].content[j]) /\ j \in DOMAIN msgs[p].content
    BY <1>6, <1>8, <1>9
  <2>2. p \in DOMAIN msgs /\ msgs[p] \in Message
    BY <1>2, ElementOfSeq DEF D
  <2>3. msgs[p].content[j] \in Block
    BY <2>1, <2>2, MessageParts
  <2> QED
    BY <2>1, <2>2, <2>3, AnthropicBlockKeeps
<1>11. PICK q \in 1..p : \E i \in DOMAIN msgs[q].content :
               /\ q < p \/ i < j
               /\ IsCall(msgs[q].content[i])
               /\ msgs[q].content[i].id = msgs[p].content[j].id
  BY <1>10 DEF ResultsFollowCalls
<1>12. PICK i \in DOMAIN msgs[q].content :
               /\ q < p \/ i < j
               /\ IsCall(msgs[q].content[i])
               /\ msgs[q].content[i].id = msgs[p].content[j].id
  BY <1>11
<1>13. q \in 1..Len(msgs) /\ p \in 1..Len(msgs) /\ q <= p
  BY <1>2, <1>10
<1>14. q \in D
  BY <1>2, <1>12, <1>13
<1>15. /\ at[q] \in 1..Len(turns) /\ turns[at[q]] = msgs[q]
       /\ at[q] <= at[p] /\ (q < p => at[q] < at[p])
  <2>1. at[q] \in 1..Len(turns) /\ turns[at[q]] = msgs[q] /\ at[p] \in 1..Len(turns)
    BY <1>4, <1>14 DEF Picks
  <2>2. q < p => at[q] < at[p]
    BY <1>4, <1>14 DEF Picks
  <2>3. q = p \/ q < p
    BY <1>13
  <2> QED
    BY <2>1, <2>2, <2>3
<1> DEFINE m == at[q] + 1
<1>16. m \in 1..n /\ (q < p => m < n)
  BY <1>8, <1>9, <1>15
<1>17. /\ i \in DOMAIN wire[m].content
       /\ wire[m].content[i] = AnthropicBlock(msgs[q].content[i])
  BY <1>6, <1>12, <1>15
<1>18. IsCall(wire[m].content[i]) /\ wire[m].content[i].id = msgs[q].content[i].id
  <2>1. msgs[q] \in Message
    BY <1>13, ElementOfSeq
  <2>2. msgs[q].content[i] \in Block
    BY <1>12, <2>1, MessageParts
  <2> QED
    BY <1>12, <1>17, <2>2, AnthropicBlockKeeps
<1> HIDE DEF m
<1> QED
  BY <1>10, <1>12, <1>16, <1>17, <1>18

\* What OpenAI's adapter makes of a message that it takes.
LEMMA OpenAIMessagesProperties ==
  ASSUME NEW m \in Message, OpenAITakes(m)
  PROVE  /\ OpenAIMessages(m) \in Seq(Message)
         /\ m.role # "tool" =>
              \A k \in DOMAIN OpenAIMessages(m) : \A j \in DOMAIN OpenAIMessages(m)[k].content :
                ~IsResult(OpenAIMessages(m)[k].content[j])
         /\ m.role = "tool" =>
              \A k \in DOMAIN OpenAIMessages(m) :
                /\ k \in DOMAIN m.content /\ IsResult(m.content[k])
                /\ \A j \in DOMAIN OpenAIMessages(m)[k].content :
                     OpenAIMessages(m)[k].content[j].id = m.content[k].id
         /\ \A i \in DOMAIN m.content : IsCall(m.content[i]) /\ m.role # "system" =>
              /\ 1 \in DOMAIN OpenAIMessages(m)
              /\ \E j \in DOMAIN OpenAIMessages(m)[1].content :
                   /\ IsCall(OpenAIMessages(m)[1].content[j])
                   /\ OpenAIMessages(m)[1].content[j].id = m.content[i].id
<1> DEFINE text == Text(Joined(m.content))
           made == OpenAIMessages(m)
<1>1. /\ m.content \in Seq(Block) /\ Len(m.content) \in Nat /\ DOMAIN m.content = 1..Len(m.content)
      /\ \A i \in DOMAIN m.content : m.content[i] \in Block
  BY MessageParts
<1>2. text \in Block /\ text \in Plain /\ ~IsResult(text) /\ ~IsCall(text)
  BY <1>1, JoinedTyped, BlocksMade DEF Text, IsResult, IsCall
<1> HIDE DEF text
<1>3. CASE m.role = "system"
  <2>1. made = <<Says("system", <<text>>)>> /\ "system" \in Roles /\ <<text>> \in Seq(Block)
    BY <1>2, <1>3 DEF OpenAIMessages, Roles, text
  <2>2. /\ Says("system", <<text>>) \in Message
        /\ Says("system", <<text>>).content = <<text>>
    BY <2>1, SaysMessage
  <2> HIDE DEF made
  <2> QED
    BY <1>2, <1>3, <2>1, <2>2 DEF made
<1>4. CASE m.role = "user"
  <2> DEFINE parts == [i \in DOMAIN m.content |-> OpenAIPart(m.content[i])]
  <2>1. \A i \in DOMAIN m.content : OpenAITakesOfUser(m.content[i])
    BY <1>4 DEF OpenAITakes
  <2>2. ASSUME NEW i \in DOMAIN m.content
        PROVE  parts[i] \in Block /\ ~IsResult(parts[i]) /\ ~IsCall(m.content[i])
    <3>1. IsText(m.content[i]) \/ IsImage(m.content[i])
      BY <2>1 DEF OpenAITakesOfUser
    <3>2. parts[i] = m.content[i] \/ \E source \in Sources : parts[i] = Image(source)
      BY DEF OpenAIPart, Sources
    <3> HIDE DEF parts
    <3>3. m.content[i] \in Block /\ ~IsResult(m.content[i]) /\ ~IsCall(m.content[i])
      BY <1>1, <3>1 DEF IsText, IsImage, IsResult, IsCall
    <3>4. \A source \in Sources : Image(source) \in Block /\ ~IsResult(Image(source))
      BY BlocksMade DEF Image, IsResult
    <3> QED
      BY <3>2, <3>3, <3>4
  <2>3. parts \in Seq(Block) /\ DOMAIN parts = DOMAIN m.content
    <3>1. \A i \in DOMAIN m.content : OpenAIPart(m.content[i]) \in Block
      BY <2>2
    <3>2. parts \in [1..Len(m.content) -> Block]
      BY <1>1, <3>1
    <3> QED
      BY <1>1, <3>2
  <2>4. made = <<Says("user", parts)>> /\ "user" \in Roles
    BY <1>4 DEF OpenAIMessages, Roles
  <2> HIDE DEF parts
  <2>5. Says("user", parts) \in Message /\ Says("user", parts).content = parts
    BY <2>3, <2>4, SaysMessage
  <2> HIDE DEF made
  <2> QED
    BY <1>4, <2>2, <2>3, <2>4, <2>5 DEF made
<1>5. CASE m.role = "assistant"
  <2> DEFINE calls == Filtered(m.content, IsCall)
             D     == {i \in 1..Len(m.content) : IsCall(m.content[i])}
             out   == [i \in DOMAIN calls |-> OpenAICall(calls[i])]
             said  == <<text>> \o out
  <2>1. calls \in Seq(CallBlock) /\ \E at : Picks(at, D, m.content, calls)
    BY <1>1, CallsPicked
  <2>2. made = <<Says("assistant", said)>> /\ "assistant" \in Roles
    BY <1>5 DEF OpenAIMessages, OpenAIAssistant, CallsOf, Roles, text
  <2> HIDE DEF calls
  <2>3. DOMAIN calls = 1..Len(calls) /\ Len(calls) \in Nat
    BY <2>1, LenProperties
  <2>4. ASSUME NEW k \in 1..Len(calls)
        PROVE  out[k] \in Block /\ IsCall(out[k]) /\ out[k].id = calls[k].id
    <3>1. calls[k] \in CallBlock
      BY <2>1, ElementOfSeq
    <3>2. out[k] = calls[k] \/ out[k] = [calls[k] EXCEPT !.input = "object"]
      BY <2>3 DEF OpenAICall
    <3> HIDE DEF out
    <3>3. out[k] \in CallBlock /\ out[k].id = calls[k].id
      BY <3>1, <3>2 DEF CallBlock, Inputs
    <3> QED
      BY <3>3 DEF CallBlock, Block, IsCall
  <2>5. out \in Seq(Block) /\ Len(out) = Len(calls) /\ <<text>> \in Seq(Block) /\ DOMAIN out = 1..Len(calls)
    BY <1>2, <2>3, <2>4
  <2> HIDE DEF out
  <2>6. /\ said \in Seq(Block)
        /\ Len(said) = 1 + Len(calls) /\ DOMAIN said = 1..(1 + Len(calls))
        /\ \A k \in 1..Len(calls) : said[1 + k] = out[k]
    BY <2>3, <2>5, ConcatProperties, LenProperties
  <2>7. \A j \in DOMAIN said : ~IsResult(said[j])
    <3> TAKE j \in DOMAIN said
    <3>1. (j \in DOMAIN <<text>> /\ said[j] = <<text>>[j]) \/ \E k \in DOMAIN out : said[j] = out[k]
      BY <2>5, ConcatElements
    <3> HIDE DEF said
    <3> QED
      BY <1>2, <2>4, <2>5, <3>1 DEF IsCall, IsResult
  <2> HIDE DEF said
  <2>8. Says("assistant", said) \in Message /\ Says("assistant", said).content = said
    BY <2>2, <2>6, SaysMessage
  <2>9. made \in Seq(Message) /\ DOMAIN made = 1..1 /\ made[1].content = said
    BY <2>2, <2>8
  <2>10. ASSUME NEW i \in DOMAIN m.content, IsCall(m.content[i])
         PROVE  \E j \in DOMAIN said : IsCall(said[j]) /\ said[j].id = m.content[i].id
    <3>1. PICK at : Picks(at, D, m.content, calls)
      BY <2>1
    <3>2. i \in D
      BY <1>1, <2>10
    <3>3. at[i] \in 1..Len(calls) /\ calls[at[i]] = m.content[i]
      BY <3>1, <3>2 DEF Picks
    <3>4. 1 + at[i] \in DOMAIN said
      BY <2>3, <2>6, <3>3
    <3> QED
      BY <2>4, <2>6, <3>3, <3>4
  <2> HIDE DEF made
  <2> QED
    BY <1>5, <2>7, <2>9, <2>10 DEF made
<1>6. CASE m.role = "tool"
  <2>1. \A i \in DOMAIN m.content : IsResult(m.content[i]) /\ ~IsCall(m.content[i])
    BY <1>6 DEF OpenAITakes, Holds, IsResult, IsCall
  <2> DEFINE Out(i) == Result(m.content[i].id, <<Text(Joined(m.content[i].content))>>)
  <2>2. made = [i \in DOMAIN m.content |-> Says("tool", <<Out(i)>>)]
    BY <1>6 DEF OpenAIMessages, ResultMessages
  <2>3. ASSUME NEW i \in DOMAIN m.content
        PROVE  Out(i) \in Block /\ Out(i).id = m.content[i].id
    <3>1. m.content[i] \in ResultBlock
      BY <1>1, <2>1, BlockKinds
    <3>2. m.content[i].id \in Id /\ m.content[i].content \in Seq(Plain)
      BY <3>1 DEF ResultBlock
    <3>3. m.content[i].content \in Seq(Block)
      <4>1. Plain \subseteq Block
        BY DEF Block
      <4> QED
        BY <3>2, <4>1, SeqMonotonic
    <3>4. Text(Joined(m.content[i].content)) \in Plain
      BY <3>3, JoinedTyped, BlocksMade
    <3>5. <<Text(Joined(m.content[i].content))>> \in Seq(Plain)
      BY <3>4
    <3>6. Out(i) \in Block
      BY <3>2, <3>5, BlocksMade
    <3>7. Out(i).id = m.content[i].id
      BY DEF Result
    <3> QED
      BY <3>6, <3>7
  <2> HIDE DEF Out
  <2>4. ASSUME NEW i \in DOMAIN m.content
        PROVE  Says("tool", <<Out(i)>>) \in Message /\ Says("tool", <<Out(i)>>).content = <<Out(i)>>
    <3>1. "tool" \in Roles /\ <<Out(i)>> \in Seq(Block)
      BY <2>3 DEF Roles
    <3> QED
      BY <3>1, SaysMessage
  <2>5. /\ made \in Seq(Message) /\ DOMAIN made = DOMAIN m.content
        /\ \A i \in DOMAIN m.content : made[i].content = <<Out(i)>>
    BY <1>1, <2>2, <2>4
  <2> HIDE DEF made
  <2> QED
    BY <1>6, <2>1, <2>3, <2>5 DEF made
<1> QED
  BY <1>3, <1>4, <1>5, <1>6 DEF OpenAITakes

\* OpenAI is sent every call that is not in a prompt before the results that answer it.
LEMMA OpenAIWireFollows ==
  ASSUME NEW req, req.messages \in Seq(Message), req.system \in Seq(Words),
         Builds("openai", req.messages), ResultsFollowCalls(req.messages),
         \A n \in DOMAIN req.messages : req.messages[n].role = "system" =>
           \A i \in DOMAIN req.messages[n].content : ~IsCall(req.messages[n].content[i])
  PROVE  ResultsFollowCalls(OpenAIWire(req))
<1> DEFINE msgs   == req.messages
           pieces == [n \in DOMAIN msgs |-> OpenAIMessages(msgs[n])]
           prompt == SystemPrompt(req)
           flat   == FlattenSeq(pieces)
           wire   == prompt \o flat
           lp     == Len(prompt)
<1>1. /\ DOMAIN msgs = 1..Len(msgs) /\ Len(msgs) \in Nat
      /\ \A n \in DOMAIN msgs : msgs[n] \in Message /\ OpenAITakes(msgs[n])
  BY LenProperties, ElementOfSeq DEF Builds, Takes
<1>2. OpenAIWire(req) = wire
  BY DEF OpenAIWire
<1>3. /\ prompt \in Seq(Message)
      /\ \A k \in DOMAIN prompt : \A j \in DOMAIN prompt[k].content : ~IsResult(prompt[k].content[j])
  <2>1. CASE req.system = << >>
    BY <2>1 DEF SystemPrompt
  <2>2. CASE req.system # << >>
    <3>1. Text(req.system) \in Block /\ ~IsResult(Text(req.system)) /\ "system" \in Roles
      BY BlocksMade DEF Text, IsResult, Roles
    <3> DEFINE said == Says("system", <<Text(req.system)>>)
    <3>2. <<Text(req.system)>> \in Seq(Block)
      BY <3>1
    <3>3. said \in Message /\ said.content = <<Text(req.system)>>
      BY <3>1, <3>2, SaysMessage
    <3>4. prompt = <<said>>
      BY <2>2 DEF SystemPrompt
    <3> HIDE DEF said, prompt
    <3> QED
      BY <3>1, <3>3, <3>4
  <2> QED
    BY <2>1, <2>2
<1>4. /\ pieces \in Seq(Seq(Message)) /\ Len(pieces) = Len(msgs)
      /\ \A n \in DOMAIN msgs : pieces[n] = OpenAIMessages(msgs[n]) /\ pieces[n] \in Seq(Message)
  BY <1>1, OpenAIMessagesProperties
<1> HIDE DEF pieces, prompt
<1>5. flat \in Seq(Message) /\ \E base : Layout(base, pieces, flat)
  BY <1>4, FlattenLayout
<1> HIDE DEF flat
<1>6. PICK base : Layout(base, pieces, flat)
  BY <1>5
<1>7. /\ lp \in Nat /\ Len(flat) \in Nat
      /\ DOMAIN wire = 1..(lp + Len(flat))
      /\ \A k \in 1..Len(flat) : wire[lp + k] = flat[k]
      /\ DOMAIN prompt = 1..lp /\ DOMAIN flat = 1..Len(flat)
  BY <1>3, <1>5, ConcatProperties, LenProperties
<1>8. \A k \in DOMAIN wire :
         \/ k \in DOMAIN prompt /\ wire[k] = prompt[k]
         \/ k - lp \in DOMAIN flat /\ wire[k] = flat[k - lp]
  BY <1>3, <1>5, ConcatElements
<1> HIDE DEF wire, lp
<1> SUFFICES ASSUME NEW n \in DOMAIN wire, NEW j \in DOMAIN wire[n].content,
                    IsResult(wire[n].content[j])
             PROVE  \E m \in 1..n : \E i \in DOMAIN wire[m].content :
                      /\ m < n \/ i < j
                      /\ IsCall(wire[m].content[i])
                      /\ wire[m].content[i].id = wire[n].content[j].id
  BY <1>2 DEF ResultsFollowCalls
<1>9. n - lp \in 1..Len(flat) /\ wire[n] = flat[n - lp]
  BY <1>3, <1>7, <1>8
<1>10. PICK p \in 1..Len(msgs) : \E k \in 1..Len(pieces[p]) : n - lp = base[p] + k
  BY <1>4, <1>6, <1>9 DEF Layout
<1>11. PICK k \in 1..Len(pieces[p]) : n - lp = base[p] + k
  BY <1>10
<1>12. /\ flat[n - lp] = pieces[p][k]
       /\ p \in DOMAIN msgs /\ k \in DOMAIN pieces[p]
  BY <1>1, <1>4, <1>6, <1>10, <1>11, LenProperties DEF Layout
<1>13. /\ msgs[p].role = "tool"
       /\ k \in DOMAIN msgs[p].content /\ IsResult(msgs[p].content[k])
       /\ wire[n].content[j].id = msgs[p].content[k].id
  <2>1. wire[n] = OpenAIMessages(msgs[p])[k] /\ k \in DOMAIN OpenAIMessages(msgs[p])
    BY <1>4, <1>9, <1>12
  <2> QED
    BY <1>1, <1>12, <2>1, OpenAIMessagesProperties
<1>14. PICK q \in 1..p : \E i \in DOMAIN msgs[q].content :
               /\ IsCall(msgs[q].content[i])
               /\ msgs[q].content[i].id = msgs[p].content[k].id
  BY <1>12, <1>13 DEF ResultsFollowCalls
<1>15. PICK i \in DOMAIN msgs[q].content :
               /\ IsCall(msgs[q].content[i])
               /\ msgs[q].content[i].id = msgs[p].content[k].id
  BY <1>14
<1>16. q \in DOMAIN msgs /\ q \in 1..Len(msgs) /\ p \in 1..Len(msgs) /\ q <= p
  BY <1>1, <1>10
\* A message of the tool role holds no calls.
<1>17. q # p /\ q < p
  <2>1. \A x \in DOMAIN msgs[p].content : ~IsCall(msgs[p].content[x])
    BY <1>1, <1>12, <1>13 DEF OpenAITakes, Holds, IsCall
  <2> QED
    BY <1>15, <1>16, <2>1
<1>18. /\ msgs[q].role # "system"
       /\ 1 \in DOMAIN pieces[q]
       /\ \E x \in DOMAIN pieces[q][1].content :
            /\ IsCall(pieces[q][1].content[x])
            /\ pieces[q][1].content[x].id = msgs[q].content[i].id
  <2>1. msgs[q].role # "system"
    BY <1>15, <1>16
  <2>2. /\ msgs[q] \in Message /\ OpenAITakes(msgs[q]) /\ pieces[q] = OpenAIMessages(msgs[q])
        /\ i \in DOMAIN msgs[q].content /\ IsCall(msgs[q].content[i])
    BY <1>1, <1>4, <1>15, <1>16
  <2> DEFINE mq == msgs[q]
  <2>3. mq \in Message /\ OpenAITakes(mq) /\ i \in DOMAIN mq.content /\ IsCall(mq.content[i]) /\ mq.role # "system"
    BY <2>1, <2>2
  <2> HIDE DEF mq
  <2>4. /\ 1 \in DOMAIN OpenAIMessages(mq)
        /\ \E x \in DOMAIN OpenAIMessages(mq)[1].content :
             /\ IsCall(OpenAIMessages(mq)[1].content[x])
             /\ OpenAIMessages(mq)[1].content[x].id = mq.content[i].id
    BY <2>3, OpenAIMessagesProperties
  <2>5. pieces[q] = OpenAIMessages(mq) /\ mq = msgs[q]
    BY <2>2 DEF mq
  <2> QED
    BY <2>1, <2>4, <2>5
<1> DEFINE m == lp + (base[q] + 1)
<1>19. m \in 1..n /\ m < n /\ wire[m] = pieces[q][1]
  <2>1. base[q] \in Nat /\ base[q+1] \in Nat /\ base[p] \in Nat
    <3>1. q \in 1..(Len(pieces) + 1) /\ q + 1 \in 1..(Len(pieces) + 1) /\ p \in 1..(Len(pieces) + 1)
      <4>1. Len(pieces) = Len(msgs) /\ Len(msgs) \in Nat
        BY <1>1, <1>4
      <4>2. q \in 1..Len(pieces) /\ p \in 1..Len(pieces) /\ Len(pieces) \in Nat
        BY <1>16, <4>1
      <4> QED
        BY <4>2
    <3> QED
      BY <1>6, <3>1 DEF Layout
  <2>2. 1 \in 1..Len(pieces[q]) /\ Len(pieces[q]) \in Nat
    BY <1>4, <1>16, <1>18, LenProperties
  <2>3. base[q+1] = base[q] + Len(pieces[q]) /\ base[q+1] <= base[p]
    BY <1>4, <1>6, <1>16, <1>17 DEF Layout
  <2>4. base[q] + 1 \in 1..Len(flat) /\ flat[base[q] + 1] = pieces[q][1]
    BY <1>4, <1>6, <1>16, <2>2 DEF Layout
  <2>5. k \in Nat /\ k >= 1 /\ n = lp + (base[p] + k) /\ n \in Int
    <3>1. Len(pieces[p]) \in Nat
      BY <1>4, <1>12, LenProperties
    <3>2. n \in Int
      BY <1>7
    <3> QED
      BY <1>7, <1>11, <2>1, <3>1, <3>2
  <2>6. m \in 1..n /\ m < n
    <3> DEFINE bq == base[q]  bp == base[p]  bn == base[q+1]  lq == Len(pieces[q])
    <3>1. /\ bq \in Nat /\ bp \in Nat /\ bn \in Nat /\ lq \in Nat /\ lq >= 1
          /\ bn = bq + lq /\ bn <= bp /\ lp \in Nat
          /\ k \in Nat /\ k >= 1 /\ n = lp + (bp + k) /\ m = lp + (bq + 1)
      BY <1>7, <2>1, <2>2, <2>3, <2>5
    <3> HIDE DEF bq, bp, bn, lq, m
    <3> QED
      BY <3>1
  <2> QED
    BY <1>7, <2>4, <2>6
<1> HIDE DEF m
<1> QED
  BY <1>13, <1>15, <1>18, <1>19

\* What a provider that knows ids is sent has a call before every result.
LEMMA WireFollows ==
  ASSUME NEW a \in Adapters \ {"ollama"}, NEW req,
         req.messages \in Seq(Message), req.system \in Seq(Words),
         Builds(a, req.messages), ResultsFollowCalls(req.messages),
         \A n \in DOMAIN req.messages : req.messages[n].role = "system" =>
           \A i \in DOMAIN req.messages[n].content : ~IsCall(req.messages[n].content[i])
  PROVE  ResultsFollowCalls(Wire(a, req))
<1>1. CASE a = "anthropic"
  BY <1>1, AnthropicWireFollows DEF Wire
<1>2. CASE a = "openai"
  BY <1>2, OpenAIWireFollows DEF Wire
<1> QED
  BY <1>1, <1>2 DEF Adapters

\* An adapter builds a request from messages if it does so from each part of them.
LEMMA BuildsConcat ==
  ASSUME NEW a, NEW x \in Seq(Message), NEW y \in Seq(Message), Builds(a, x), Builds(a, y)
  PROVE  Builds(a, x \o y)
<1> SUFFICES ASSUME NEW n \in DOMAIN (x \o y)
             PROVE  Takes(a, (x \o y)[n])
  BY DEF Builds
<1>1. \/ n \in DOMAIN x /\ (x \o y)[n] = x[n]
      \/ n - Len(x) \in DOMAIN y /\ (x \o y)[n] = y[n - Len(x)]
  BY ConcatElements
<1> QED
  BY <1>1 DEF Builds

-------------------------------------------------------------------------------
(* What is said in the conversation is said on the wire. *)

\* Something that a reader takes from the blocks of messages, one after the other: h[b] is
\* what block b has of it.  Of a call it is told by the name, of a result by its texts, and
\* of a text it is all or nothing.
Feature(h, T) ==
  /\ h \in ToSeqs(Block, T)
  /\ \A b \in Block : b.kind = "thinking" => h[b] = << >>
  /\ \A b, c \in Block : IsImage(b) /\ IsImage(c) => h[b] = h[c]
  /\ \A b, c \in Block : IsCall(b) /\ IsCall(c) /\ b.name = c.name => h[b] = h[c]
  /\ \A b, c \in Block :
       IsResult(b) /\ IsResult(c) /\ Joined(b.content) = Joined(c.content) => h[b] = h[c]
  /\ \/ /\ T = Words
        /\ \A b \in Block : IsText(b) => h[b] = b.text
        /\ \A b \in Block : IsImage(b) \/ IsCall(b) => h[b] = << >>
     \/ \A b \in Block : IsText(b) => h[b] = << >>

\* What a message has of it: prompts are not part of what is said.
OfMessages(h) ==
  [m \in Message |-> IF m.role = "system" THEN << >> ELSE FlatMap(h, m.content)]

\* Its type.
LEMMA OfMessagesTyped ==
  ASSUME NEW T, NEW h \in ToSeqs(Block, T)
  PROVE  OfMessages(h) \in ToSeqs(Message, T)
<1>1. \A m \in Message : FlatMap(h, m.content) \in Seq(T)
  <2> TAKE m \in Message
  <2>1. m.content \in Seq(Block)
    BY MessageParts
  <2> QED
    BY <2>1, FlatMapTyped
<1>2. << >> \in Seq(T)
  BY EmptySeq
<1> QED
  BY <1>1, <1>2 DEF OfMessages, ToSeqs

\* What a message says by its role and blocks.
LEMMA SaysHeard ==
  ASSUME NEW h, NEW role \in Roles, NEW blocks \in Seq(Block)
  PROVE  /\ Says(role, blocks) \in Message
         /\ OfMessages(h)[Says(role, blocks)]
              = IF role = "system" THEN << >> ELSE FlatMap(h, blocks)
<1> DEFINE m == Says(role, blocks)
<1>1. m \in Message /\ m.role = role /\ m.content = blocks
  BY SaysMessage
<1> HIDE DEF m
<1>2. OfMessages(h)[m] = IF m.role = "system" THEN << >> ELSE FlatMap(h, m.content)
  BY <1>1 DEF OfMessages
<1> QED
  BY <1>1, <1>2 DEF m

\* The places of the blocks of a kind.
OfKind(blocks, kind) == {i \in DOMAIN blocks : blocks[i].kind = kind}

\* A text by itself.
LEMMA JoinedOne ==
  ASSUME NEW t \in Seq(Words)
  PROVE  Joined(<<Text(t)>>) = t
<1>1. IsText(Text(t)) /\ Text(t).text = t
  BY DEF IsText, Text
<1> DEFINE one == <<Text(t)>>
<1>2. DOMAIN one = {1} /\ one[1] = Text(t)
  OBVIOUS
<1>3. [i \in DOMAIN one |-> IF IsText(one[i]) THEN one[i].text ELSE << >>] = <<t>>
  <2> DEFINE f == [i \in DOMAIN one |-> IF IsText(one[i]) THEN one[i].text ELSE << >>]
  <2>1. DOMAIN f = 1..1 /\ f[1] = t /\ f = [i \in DOMAIN f |-> f[i]]
    BY <1>1, <1>2
  <2> HIDE DEF f
  <2>2. f = [i \in 1..1 |-> t]
    BY <2>1
  <2>3. [i \in 1..1 |-> t] = <<t>>
    OBVIOUS
  <2>4. f = <<t>>
    BY <2>2, <2>3
  <2> QED
    BY <2>4 DEF f
<1>4. FlattenSeq(<<t>>) = t
  BY FlattenFew
<1> QED
  BY <1>3, <1>4 DEF Joined

\* The blocks are texts, thinking and ones of the kind; what is left of these are as many
\* blocks of the kind as there are in rest, and they have the same of h.
SameRest(h, blocks, kind, rest) ==
  /\ \A i \in DOMAIN blocks : blocks[i].kind \in {"text", "thinking", kind}
  /\ \E picked : /\ Left(picked, OfKind(blocks, kind), blocks)
                 /\ DOMAIN rest = DOMAIN picked
                 /\ \A i \in DOMAIN rest : rest[i].kind = kind /\ h[rest[i]] = h[picked[i]]

\* Blocks with a text, then the calls or the images in their order, say what the blocks
\* say from which they were taken.
LEMMA TextThenTheRest ==
  ASSUME NEW T, NEW h, Feature(h, T), NEW blocks \in Seq(Block),
         NEW kind \in {"image", "tool_use"}, NEW rest \in Seq(Block), SameRest(h, blocks, kind, rest)
  PROVE  FlatMap(h, <<Text(Joined(blocks))>> \o rest) = FlatMap(h, blocks)
<1>0. PICK picked : /\ Left(picked, OfKind(blocks, kind), blocks)
                    /\ DOMAIN rest = DOMAIN picked
                    /\ \A i \in DOMAIN rest : rest[i].kind = kind /\ h[rest[i]] = h[picked[i]]
  BY DEF SameRest
<1> DEFINE text == Text(Joined(blocks))
<1>1. /\ DOMAIN blocks = 1..Len(blocks) /\ Len(blocks) \in Nat
      /\ \A i \in DOMAIN blocks : blocks[i] \in Block /\ blocks[i].kind \in {"text", "thinking", kind}
  BY LenProperties, ElementOfSeq DEF SameRest
<1>2. Joined(blocks) \in Seq(Words)
  BY JoinedTyped
<1>3. text \in Block /\ IsText(text) /\ text.text = Joined(blocks)
  BY <1>2, BlocksMade DEF IsText, Text
<1> HIDE DEF text
<1> DEFINE said == <<text>>
<1>4. said \in Seq(Block)
  BY <1>3
<1>5. h \in ToSeqs(Block, T)
  BY DEF Feature
<1>6. FlatMap(h, said) = h[text]
  BY <1>3, <1>5, FlatMapFew
<1> HIDE DEF said
<1>7. FlatMap(h, said \o rest) = FlatMap(h, said) \o FlatMap(h, rest)
  BY <1>4, <1>5, FlatMapConcat
<1>8. \A i \in DOMAIN rest : rest[i] \in Block
  BY LenProperties, ElementOfSeq
<1>9. FlatMap(h, blocks) \in Seq(T) /\ FlatMap(h, rest) \in Seq(T)
  BY <1>5, FlatMapTyped
<1>10. CASE /\ T = Words
            /\ \A b \in Block : IsText(b) => h[b] = b.text
            /\ \A b \in Block : IsImage(b) \/ IsCall(b) => h[b] = << >>
  <2>1. h[text] = Joined(blocks)
    BY <1>3, <1>10
  <2>2. \A i \in DOMAIN rest : h[rest[i]] = << >>
    BY <1>0, <1>8, <1>10 DEF IsImage, IsCall
  <2>3. FlatMap(h, rest) = << >>
    BY <2>2, FlatMapNothing
  <2>4. FlatMap(h, blocks) = Joined(blocks)
    <3>1. \A i \in DOMAIN blocks : h[blocks[i]] = IF IsText(blocks[i]) THEN blocks[i].text ELSE << >>
      <4> TAKE i \in DOMAIN blocks
      <4>1. blocks[i] \in Block /\ blocks[i].kind \in {"text", "thinking", "image", "tool_use"}
        BY <1>1
      <4>2. CASE IsText(blocks[i])
        BY <1>10, <4>1, <4>2
      <4>3. CASE blocks[i].kind = "thinking"
        BY <4>1, <4>3 DEF Feature, IsText
      <4>4. CASE IsImage(blocks[i]) \/ IsCall(blocks[i])
        BY <1>10, <4>1, <4>4 DEF IsImage, IsCall, IsText
      <4> QED
        BY <4>1, <4>2, <4>3, <4>4 DEF IsText, IsImage, IsCall
    <3>2. [i \in DOMAIN blocks |-> h[blocks[i]]]
            = [i \in DOMAIN blocks |-> IF IsText(blocks[i]) THEN blocks[i].text ELSE << >>]
      BY <3>1
    <3> QED
      BY <3>2 DEF FlatMap, Joined
  <2>5. FlatMap(h, blocks) \o << >> = FlatMap(h, blocks)
    BY <1>9, ConcatEmptySeq
  <2> QED
    BY <1>6, <1>7, <2>1, <2>3, <2>4, <2>5 DEF text, said
<1>11. CASE \A b \in Block : IsText(b) => h[b] = << >>
  <2> DEFINE D == OfKind(blocks, kind)
  <2>1. h[text] = << >>
    BY <1>3, <1>11
  <2>2. FlatMap(h, rest) = FlatMap(h, picked)
    BY <1>0, FlatMapSame
  <2>3. Left(picked, D, blocks)
    BY <1>0
  <2>4. \A i \in DOMAIN blocks : i \notin D => h[blocks[i]] = << >>
    <3> SUFFICES ASSUME NEW i \in DOMAIN blocks, i \notin D PROVE h[blocks[i]] = << >>
      OBVIOUS
    <3>1. blocks[i] \in Block /\ blocks[i].kind \in {"text", "thinking"}
      BY <1>1 DEF OfKind
    <3> QED
      BY <1>11, <3>1 DEF Feature, IsText
  <2> HIDE DEF D
  <2>5. FlatMap(h, picked) = FlatMap(h, blocks)
    BY <1>5, <2>3, <2>4, FlatMapFiltered
  <2>6. << >> \o FlatMap(h, blocks) = FlatMap(h, blocks)
    BY <1>9, ConcatEmptySeq
  <2> QED
    BY <1>6, <1>7, <2>1, <2>2, <2>5, <2>6 DEF text, said
<1> QED
  BY <1>10, <1>11 DEF Feature

\* The calls of a message, and its images, are what is left of its blocks.
LEMMA FilteredLeft ==
  ASSUME NEW blocks
  PROVE  /\ Left(Filtered(blocks, IsCall), OfKind(blocks, "tool_use"), blocks)
         /\ Left(Filtered(blocks, IsImage), OfKind(blocks, "image"), blocks)
         /\ Left(Filtered(blocks, IsResult), OfKind(blocks, "tool_result"), blocks)
<1>1. /\ [i \in DOMAIN blocks |-> IF IsCall(blocks[i]) THEN <<blocks[i]>> ELSE << >>]
           = [i \in DOMAIN blocks |-> IF i \in OfKind(blocks, "tool_use")
                                      THEN <<blocks[i]>> ELSE << >>]
      /\ [i \in DOMAIN blocks |-> IF IsImage(blocks[i]) THEN <<blocks[i]>> ELSE << >>]
           = [i \in DOMAIN blocks |-> IF i \in OfKind(blocks, "image")
                                      THEN <<blocks[i]>> ELSE << >>]
      /\ [i \in DOMAIN blocks |-> IF IsResult(blocks[i]) THEN <<blocks[i]>> ELSE << >>]
           = [i \in DOMAIN blocks |-> IF i \in OfKind(blocks, "tool_result")
                                      THEN <<blocks[i]>> ELSE << >>]
  BY DEF IsCall, IsImage, IsResult, OfKind
<1> QED
  BY <1>1 DEF Filtered, Left

\* They are blocks of their kind.
LEMMA LeftTyped ==
  ASSUME NEW blocks \in Seq(Block), NEW kind, NEW t,
         Left(t, OfKind(blocks, kind), blocks)
  PROVE  /\ t \in Seq(Block) /\ DOMAIN t = 1..Len(t) /\ Len(t) \in Nat
         /\ \A k \in DOMAIN t : t[k] \in Block /\ t[k].kind = kind
<1> DEFINE D == OfKind(blocks, kind)
<1>1. D \in SUBSET (1..Len(blocks))
  BY LenProperties DEF OfKind
<1>2. t = FlattenSeq([i \in DOMAIN blocks |-> IF i \in D THEN <<blocks[i]>> ELSE << >>])
  BY DEF Left
<1> HIDE DEF D
<1>3. t \in Seq(Block) /\ \E at : Picks(at, D, blocks, t)
  BY <1>1, <1>2, FilterPicks
<1>4. PICK at : Picks(at, D, blocks, t)
  BY <1>3
<1>5. \A k \in 1..Len(t) : t[k].kind = kind
  BY <1>4 DEF Picks, D, OfKind
<1> QED
  BY <1>3, <1>5, LenProperties, ElementOfSeq

\* A result with nothing but the texts of another one, under any id.
LEMMA ResultHeard ==
  ASSUME NEW T, NEW h, Feature(h, T), NEW b \in Block, IsResult(b), NEW id \in Id
  PROVE  LET r == Result(id, <<Text(Joined(b.content))>>)
         IN  r \in Block /\ h[r] = h[b]
<1> DEFINE text == Text(Joined(b.content))
           r    == Result(id, <<text>>)
<1>1. b \in ResultBlock
  BY BlockKinds
<1>2. b.content \in Seq(Plain)
  BY <1>1 DEF ResultBlock
<1>3. b.content \in Seq(Block)
  <2>1. Plain \subseteq Block
    BY DEF Block
  <2> QED
    BY <1>2, <2>1, SeqMonotonic
<1>4. Joined(b.content) \in Seq(Words)
  BY <1>3, JoinedTyped
<1>5. text \in Plain /\ Joined(<<text>>) = Joined(b.content)
  BY <1>4, BlocksMade, JoinedOne
<1> HIDE DEF text
<1>6. <<text>> \in Seq(Plain)
  BY <1>5
<1>7. r \in Block
  BY <1>6, BlocksMade
<1>8. IsResult(r) /\ r.content = <<text>>
  BY DEF Result, IsResult
<1> HIDE DEF r
<1>9. h[r] = h[b]
  BY <1>5, <1>7, <1>8 DEF Feature
<1> QED
  BY <1>7, <1>9 DEF r, text

\* One message per block.
LEMMA OneMessageEach ==
  ASSUME NEW T, NEW h, Feature(h, T), NEW blocks, NEW made, DOMAIN made = DOMAIN blocks,
         \A i \in DOMAIN blocks : \E r \in Block : made[i] = Says("tool", <<r>>) /\ h[r] = h[blocks[i]]
  PROVE  FlatMap(OfMessages(h), made) = FlatMap(h, blocks)
<1>1. ASSUME NEW i \in DOMAIN blocks
      PROVE  OfMessages(h)[made[i]] = h[blocks[i]]
  <2>1. PICK r \in Block : made[i] = Says("tool", <<r>>) /\ h[r] = h[blocks[i]]
    OBVIOUS
  <2> DEFINE one == <<r>>
  <2>2. one \in Seq(Block) /\ "tool" \in Roles
    BY DEF Roles
  <2>3. FlatMap(h, one) = h[r]
    BY FlatMapFew DEF Feature
  <2> HIDE DEF one
  <2>4. OfMessages(h)[Says("tool", one)] = FlatMap(h, one)
    BY <2>2, SaysHeard
  <2> QED
    BY <2>1, <2>3, <2>4 DEF one
<1> QED
  BY <1>1, FlatMapSame

\* A call with another input.
LEMMA CallHeard ==
  ASSUME NEW T, NEW h, Feature(h, T), NEW b \in Block, IsCall(b)
  PROVE  /\ OpenAICall(b) \in Block /\ IsCall(OpenAICall(b)) /\ h[OpenAICall(b)] = h[b]
         /\ Call(NoId, b.name, "object") \in Block /\ IsCall(Call(NoId, b.name, "object"))
         /\ h[Call(NoId, b.name, "object")] = h[b]
<1>1. b \in CallBlock
  BY BlockKinds
<1>2. OpenAICall(b) = b \/ OpenAICall(b) = [b EXCEPT !.input = "object"]
  BY DEF OpenAICall
<1>3. OpenAICall(b) \in CallBlock /\ OpenAICall(b).name = b.name
  BY <1>1, <1>2 DEF CallBlock, Inputs
<1>4. Call(NoId, b.name, "object") \in CallBlock /\ Call(NoId, b.name, "object").name = b.name
  BY <1>1 DEF CallBlock, Call, Inputs, Id
<1>5. \A c \in CallBlock : c \in Block /\ IsCall(c)
  BY DEF CallBlock, Block, IsCall
<1>6. \A c \in CallBlock : c.name = b.name => h[c] = h[b]
  BY <1>5 DEF Feature
<1> QED
  BY <1>3, <1>4, <1>5, <1>6

\* The images of all forms are images.
LEMMA ImageHeard ==
  ASSUME NEW T, NEW h, Feature(h, T), NEW b \in Block, IsImage(b), NEW source \in Sources
  PROVE  Image(source) \in Block /\ IsImage(Image(source)) /\ h[Image(source)] = h[b]
<1>1. Image(source) \in Block /\ IsImage(Image(source))
  BY BlocksMade DEF Image, IsImage
<1> QED
  BY <1>1 DEF Feature

-------------------------------------------------------------------------------
(* The adapters, one by one. *)

\* OpenAI is sent what a message says.
LEMMA OpenAIMessagesHeard ==
  ASSUME NEW T, NEW h, Feature(h, T), NEW m \in Message, OpenAITakes(m)
  PROVE  FlatMap(OfMessages(h), OpenAIMessages(m)) = OfMessages(h)[m]
<1> DEFINE text   == Text(Joined(m.content))
           blocks == m.content
           V      == OfMessages(h)
<1>1. /\ blocks \in Seq(Block) /\ DOMAIN blocks = 1..Len(blocks) /\ Len(blocks) \in Nat
      /\ \A i \in DOMAIN blocks : blocks[i] \in Block
  BY MessageParts
<1>2. text \in Block
  BY <1>1, JoinedTyped, BlocksMade
<1>3. h \in ToSeqs(Block, T) /\ V \in ToSeqs(Message, T)
  BY OfMessagesTyped DEF Feature
<1>4. V[m] = IF m.role = "system" THEN << >> ELSE FlatMap(h, blocks)
  BY DEF OfMessages
<1> HIDE DEF text, V
\* A message made of one.
<1>5. ASSUME NEW role \in Roles, NEW said \in Seq(Block), OpenAIMessages(m) = <<Says(role, said)>>
      PROVE  FlatMap(V, OpenAIMessages(m)) = IF role = "system" THEN << >> ELSE FlatMap(h, said)
  <2> DEFINE one == Says(role, said)
  <2>1. one \in Message /\ V[one] = IF role = "system" THEN << >> ELSE FlatMap(h, said)
    BY SaysHeard DEF V
  <2> HIDE DEF one
  <2>2. FlatMap(V, <<one>>) = V[one]
    BY <1>3, <2>1, FlatMapFew
  <2>3. OpenAIMessages(m) = <<one>>
    BY <1>5 DEF one
  <2> QED
    BY <2>1, <2>2, <2>3
<1>6. CASE m.role = "system"
  <2>1. "system" \in Roles /\ <<text>> \in Seq(Block) /\ OpenAIMessages(m) = <<Says("system", <<text>>)>>
    BY <1>2, <1>6 DEF Roles, OpenAIMessages, text
  <2> DEFINE said == <<text>>
  <2>2. said \in Seq(Block) /\ OpenAIMessages(m) = <<Says("system", said)>>
    BY <2>1
  <2> HIDE DEF said
  <2> QED
    BY <1>4, <1>5, <1>6, <2>1, <2>2 DEF V
<1>7. CASE m.role = "user"
  <2> DEFINE parts == [i \in DOMAIN blocks |-> OpenAIPart(blocks[i])]
  <2>1. ASSUME NEW i \in DOMAIN blocks
        PROVE  OpenAIPart(blocks[i]) \in Block /\ h[OpenAIPart(blocks[i])] = h[blocks[i]]
    <3>1. OpenAITakesOfUser(blocks[i]) /\ blocks[i] \in Block
      BY <1>1, <1>7 DEF OpenAITakes
    <3>2. CASE IsText(blocks[i])
      <4>1. OpenAIPart(blocks[i]) = blocks[i]
        BY <3>2 DEF OpenAIPart, IsText, IsImage
      <4> QED
        BY <3>1, <4>1
    <3>3. CASE IsImage(blocks[i])
      <4>1. \E source \in Sources : OpenAIPart(blocks[i]) = Image(source)
        BY <3>3 DEF OpenAIPart, Sources
      <4> QED
        BY <3>1, <3>3, <4>1, ImageHeard
    <3> QED
      BY <3>1, <3>2, <3>3 DEF OpenAITakesOfUser
  <2>2. parts \in Seq(Block) /\ DOMAIN parts = DOMAIN blocks /\ \A i \in DOMAIN parts : h[parts[i]] = h[blocks[i]]
    <3>1. \A i \in DOMAIN blocks : parts[i] \in Block /\ h[parts[i]] = h[blocks[i]]
      BY <2>1
    <3>2. parts \in [1..Len(blocks) -> Block] /\ DOMAIN parts = DOMAIN blocks
      BY <1>1, <3>1
    <3> HIDE DEF parts
    <3>3. parts \in Seq(Block)
      BY <1>1, <3>2
    <3> QED
      BY <3>1, <3>2, <3>3
  <2>3. OpenAIMessages(m) = <<Says("user", parts)>> /\ "user" \in Roles
    BY <1>7 DEF OpenAIMessages, Roles
  <2> HIDE DEF parts
  <2>4. FlatMap(h, parts) = FlatMap(h, blocks)
    BY <2>2, FlatMapSame
  <2>5. FlatMap(V, OpenAIMessages(m)) = FlatMap(h, parts)
    BY <1>5, <2>2, <2>3
  <2> QED
    BY <1>4, <1>7, <2>4, <2>5 DEF V
<1>8. CASE m.role = "assistant"
  <2> DEFINE calls == Filtered(blocks, IsCall)
             rest  == [i \in DOMAIN calls |-> OpenAICall(calls[i])]
             said  == <<text>> \o rest
  <2>1. \A i \in DOMAIN blocks : blocks[i].kind \in {"text", "thinking", "tool_use"}
    BY <1>8 DEF OpenAITakes, Holds
  <2>2. Left(calls, OfKind(blocks, "tool_use"), blocks)
    BY FilteredLeft
  <2>3. OpenAIMessages(m) = <<Says("assistant", said)>> /\ "assistant" \in Roles
    BY <1>8 DEF OpenAIMessages, OpenAIAssistant, CallsOf, Roles, text
  <2> HIDE DEF calls
  <2>4. /\ DOMAIN calls = 1..Len(calls) /\ Len(calls) \in Nat
        /\ \A k \in DOMAIN calls : calls[k] \in Block /\ IsCall(calls[k])
    BY <1>1, <2>2, LeftTyped DEF IsCall
  <2>5. \A k \in DOMAIN calls :
          OpenAICall(calls[k]) \in Block /\ IsCall(OpenAICall(calls[k])) /\ h[OpenAICall(calls[k])] = h[calls[k]]
    BY <2>4, CallHeard
  <2>6. /\ rest \in Seq(Block) /\ DOMAIN rest = DOMAIN calls
        /\ \A i \in DOMAIN rest : rest[i].kind = "tool_use" /\ h[rest[i]] = h[calls[i]]
    <3>1. rest \in [1..Len(calls) -> Block] /\ DOMAIN rest = DOMAIN calls
      BY <2>4, <2>5
    <3>2. \A i \in DOMAIN rest : rest[i].kind = "tool_use" /\ h[rest[i]] = h[calls[i]]
      BY <2>5 DEF IsCall
    <3> HIDE DEF rest
    <3> QED
      BY <2>4, <3>1, <3>2
  <2> HIDE DEF rest
  <2>7. FlatMap(h, <<Text(Joined(blocks))>> \o rest) = FlatMap(h, blocks)
    <3>1. SameRest(h, blocks, "tool_use", rest) /\ rest \in Seq(Block)
      BY <2>1, <2>2, <2>6 DEF SameRest
    <3> QED
      BY <1>1, <3>1, TextThenTheRest
  <2>8. said \in Seq(Block)
    <3>1. <<text>> \in Seq(Block)
      BY <1>2
    <3> QED
      BY <2>6, <3>1, ConcatProperties
  <2>9. FlatMap(h, said) = FlatMap(h, blocks)
    BY <2>7 DEF text
  <2> HIDE DEF said
  <2>10. FlatMap(V, OpenAIMessages(m)) = FlatMap(h, said)
    BY <1>5, <2>3, <2>8
  <2> QED
    BY <1>4, <1>8, <2>9, <2>10 DEF V
<1>9. CASE m.role = "tool"
  <2> DEFINE made == OpenAIMessages(m)
  <2>1. made = [i \in DOMAIN blocks |-> Says("tool", <<Result(blocks[i].id, <<Text(Joined(blocks[i].content))>>)>>)]
    BY <1>9 DEF OpenAIMessages, ResultMessages
  <2>2. DOMAIN made = DOMAIN blocks
    BY <2>1
  <2>3. ASSUME NEW i \in DOMAIN blocks
        PROVE  \E r \in Block : made[i] = Says("tool", <<r>>) /\ h[r] = h[blocks[i]]
    <3>1. blocks[i] \in Block /\ IsResult(blocks[i])
      BY <1>1, <1>9 DEF OpenAITakes, Holds, IsResult
    <3>2. blocks[i].id \in Id
      BY <3>1, BlockKinds DEF ResultBlock
    <3> DEFINE r == Result(blocks[i].id, <<Text(Joined(blocks[i].content))>>)
    <3>3. r \in Block /\ h[r] = h[blocks[i]]
      BY <3>1, <3>2, ResultHeard
    <3>4. made[i] = Says("tool", <<r>>)
      BY <2>1
    <3> QED
      BY <3>3, <3>4
  <2> HIDE DEF made
  <2>4. FlatMap(V, made) = FlatMap(h, blocks)
    BY <2>2, <2>3, OneMessageEach DEF V
  <2> QED
    BY <1>4, <1>9, <2>4 DEF made, V
<1> QED
  BY <1>6, <1>7, <1>8, <1>9 DEF OpenAITakes

\* Ollama is sent what a message says.
LEMMA OllamaMessagesHeard ==
  ASSUME NEW T, NEW h, Feature(h, T), NEW m \in Message, OllamaTakes(m)
  PROVE  /\ OllamaMessages(m) \in Seq(Message)
         /\ FlatMap(OfMessages(h), OllamaMessages(m)) = OfMessages(h)[m]
<1> DEFINE text   == Text(Joined(m.content))
           blocks == m.content
           V      == OfMessages(h)
           wire   == OllamaMessages(m)
<1>1. /\ blocks \in Seq(Block) /\ DOMAIN blocks = 1..Len(blocks) /\ Len(blocks) \in Nat
      /\ \A i \in DOMAIN blocks : blocks[i] \in Block
  BY MessageParts
<1>2. text \in Block /\ <<text>> \in Seq(Block)
  BY <1>1, JoinedTyped, BlocksMade
<1>3. h \in ToSeqs(Block, T) /\ V \in ToSeqs(Message, T)
  BY OfMessagesTyped DEF Feature
<1>4. V[m] = IF m.role = "system" THEN << >> ELSE FlatMap(h, blocks)
  BY DEF OfMessages
<1> HIDE DEF text, V
<1>5. ASSUME NEW role \in Roles, NEW said \in Seq(Block), wire = <<Says(role, said)>>
      PROVE  /\ wire \in Seq(Message)
             /\ FlatMap(V, wire) = IF role = "system" THEN << >> ELSE FlatMap(h, said)
  <2> DEFINE one == Says(role, said)
  <2>1. one \in Message /\ V[one] = IF role = "system" THEN << >> ELSE FlatMap(h, said)
    BY SaysHeard DEF V
  <2> HIDE DEF one
  <2>2. FlatMap(V, <<one>>) = V[one] /\ <<one>> \in Seq(Message)
    BY <1>3, <2>1, FlatMapFew
  <2>3. wire = <<one>>
    BY <1>5 DEF one
  <2> QED
    BY <2>1, <2>2, <2>3
<1>6. CASE m.role = "system"
  <2> DEFINE said == <<text>>
  <2>1. "system" \in Roles /\ said \in Seq(Block) /\ wire = <<Says("system", said)>>
    BY <1>2, <1>6 DEF Roles, OllamaMessages, text
  <2> HIDE DEF said, wire
  <2> QED
    BY <1>4, <1>5, <1>6, <2>1 DEF V, wire
<1>7. CASE m.role = "user"
  <2> DEFINE images == Filtered(blocks, IsImage)
             rest   == [i \in DOMAIN images |-> Image("base64")]
             said   == <<text>> \o rest
  <2>1. \A i \in DOMAIN blocks : blocks[i].kind \in {"text", "thinking", "image"}
    BY <1>7 DEF OllamaTakes, OllamaTakesOfUser, IsText, IsImage
  <2>2. Left(images, OfKind(blocks, "image"), blocks)
    BY FilteredLeft
  <2>3. wire = <<Says("user", said)>> /\ "user" \in Roles
    BY <1>7 DEF OllamaMessages, Roles, text
  <2> HIDE DEF images, wire
  <2>4. /\ DOMAIN images = 1..Len(images) /\ Len(images) \in Nat
        /\ \A k \in DOMAIN images : images[k] \in Block /\ IsImage(images[k])
    BY <1>1, <2>2, LeftTyped DEF IsImage
  <2>5. "base64" \in Sources
    BY DEF Sources
  <2>6. \A k \in DOMAIN images :
          Image("base64") \in Block /\ IsImage(Image("base64")) /\ h[Image("base64")] = h[images[k]]
    BY <2>4, <2>5, ImageHeard
  <2>7. /\ rest \in Seq(Block) /\ DOMAIN rest = DOMAIN images
        /\ \A i \in DOMAIN rest : rest[i].kind = "image" /\ h[rest[i]] = h[images[i]]
    <3>1. rest \in [1..Len(images) -> Block] /\ DOMAIN rest = DOMAIN images
      BY <2>4, <2>6
    <3>2. \A i \in DOMAIN rest : rest[i].kind = "image" /\ h[rest[i]] = h[images[i]]
      BY <2>6 DEF IsImage
    <3> HIDE DEF rest
    <3> QED
      BY <2>4, <3>1, <3>2
  <2> HIDE DEF rest
  <2>8. FlatMap(h, <<Text(Joined(blocks))>> \o rest) = FlatMap(h, blocks)
    <3>1. SameRest(h, blocks, "image", rest) /\ rest \in Seq(Block)
      BY <2>1, <2>2, <2>7 DEF SameRest
    <3> QED
      BY <1>1, <3>1, TextThenTheRest
  <2>9. said \in Seq(Block) /\ FlatMap(h, said) = FlatMap(h, blocks)
    BY <1>2, <2>7, <2>8, ConcatProperties DEF text
  <2> HIDE DEF said
  <2>10. wire \in Seq(Message) /\ FlatMap(V, wire) = FlatMap(h, said)
    BY <1>5, <2>3, <2>9
  <2> QED
    BY <1>4, <1>7, <2>9, <2>10 DEF V, wire
<1>8. CASE m.role = "assistant"
  <2> DEFINE calls == Filtered(blocks, IsCall)
             rest  == [i \in DOMAIN calls |-> Call(NoId, calls[i].name, "object")]
             said  == <<text>> \o rest
  <2>1. \A i \in DOMAIN blocks : blocks[i].kind \in {"text", "thinking", "tool_use"}
    BY <1>8 DEF OllamaTakes, Holds
  <2>2. Left(calls, OfKind(blocks, "tool_use"), blocks)
    BY FilteredLeft
  <2>3. wire = <<Says("assistant", said)>> /\ "assistant" \in Roles
    BY <1>8 DEF OllamaMessages, CallsOf, Roles, text
  <2> HIDE DEF calls, wire
  <2>4. /\ DOMAIN calls = 1..Len(calls) /\ Len(calls) \in Nat
        /\ \A k \in DOMAIN calls : calls[k] \in Block /\ IsCall(calls[k])
    BY <1>1, <2>2, LeftTyped DEF IsCall
  <2>5. \A k \in DOMAIN calls :
          /\ Call(NoId, calls[k].name, "object") \in Block /\ IsCall(Call(NoId, calls[k].name, "object"))
          /\ h[Call(NoId, calls[k].name, "object")] = h[calls[k]]
    BY <2>4, CallHeard
  <2>6. /\ rest \in Seq(Block) /\ DOMAIN rest = DOMAIN calls
        /\ \A i \in DOMAIN rest : rest[i].kind = "tool_use" /\ h[rest[i]] = h[calls[i]]
    <3>1. rest \in [1..Len(calls) -> Block] /\ DOMAIN rest = DOMAIN calls
      BY <2>4, <2>5
    <3>2. \A i \in DOMAIN rest : rest[i].kind = "tool_use" /\ h[rest[i]] = h[calls[i]]
      BY <2>5 DEF IsCall
    <3> HIDE DEF rest
    <3> QED
      BY <2>4, <3>1, <3>2
  <2> HIDE DEF rest
  <2>7. FlatMap(h, <<Text(Joined(blocks))>> \o rest) = FlatMap(h, blocks)
    <3>1. SameRest(h, blocks, "tool_use", rest) /\ rest \in Seq(Block)
      BY <2>1, <2>2, <2>6 DEF SameRest
    <3> QED
      BY <1>1, <3>1, TextThenTheRest
  <2>8. said \in Seq(Block) /\ FlatMap(h, said) = FlatMap(h, blocks)
    BY <1>2, <2>6, <2>7, ConcatProperties DEF text
  <2> HIDE DEF said
  <2>9. wire \in Seq(Message) /\ FlatMap(V, wire) = FlatMap(h, said)
    BY <1>5, <2>3, <2>8
  <2> QED
    BY <1>4, <1>8, <2>8, <2>9 DEF V, wire
<1>9. CASE m.role = "tool"
  <2> DEFINE R(i) == Result(NoId, <<Text(Joined(blocks[i].content))>>)
  <2>1. ASSUME NEW i \in DOMAIN blocks
        PROVE  ResultMessages(m)[i].content[1].content = <<Text(Joined(blocks[i].content))>>
    <3>1. ResultMessages(m)[i] = Says("tool", <<Result(blocks[i].id, <<Text(Joined(blocks[i].content))>>)>>)
      BY DEF ResultMessages
    <3> DEFINE one == Result(blocks[i].id, <<Text(Joined(blocks[i].content))>>)
    <3>2. ResultMessages(m)[i].content = <<one>>
      BY <3>1 DEF Says
    <3>3. one.content = <<Text(Joined(blocks[i].content))>>
      BY DEF Result
    <3> HIDE DEF one
    <3>4. ResultMessages(m)[i].content[1] = one
      BY <3>2
    <3> QED
      BY <3>3, <3>4
  <2>2. wire = [i \in DOMAIN blocks |-> Says("tool", <<Result(NoId, ResultMessages(m)[i].content[1].content)>>)]
    BY <1>9 DEF OllamaMessages
  <2>3. DOMAIN wire = DOMAIN blocks /\ \A i \in DOMAIN blocks : wire[i] = Says("tool", <<R(i)>>)
    BY <2>1, <2>2
  <2>4. ASSUME NEW i \in DOMAIN blocks
        PROVE  R(i) \in Block /\ h[R(i)] = h[blocks[i]]
    <3>1. blocks[i] \in Block /\ IsResult(blocks[i]) /\ NoId \in Id
      BY <1>1, <1>9 DEF OllamaTakes, Holds, IsResult, Id
    <3> QED
      BY <3>1, ResultHeard
  <2> HIDE DEF R
  <2>5. \A i \in DOMAIN blocks : \E r \in Block : wire[i] = Says("tool", <<r>>) /\ h[r] = h[blocks[i]]
    BY <2>3, <2>4
  <2>6. wire \in Seq(Message)
    <3>1. \A i \in DOMAIN blocks : wire[i] \in Message
      <4> TAKE i \in DOMAIN blocks
      <4> DEFINE one == <<R(i)>>
      <4>1. one \in Seq(Block) /\ "tool" \in Roles
        BY <2>4 DEF Roles
      <4> HIDE DEF one
      <4>2. Says("tool", one) \in Message
        BY <4>1, SaysMessage
      <4> QED
        BY <2>3, <4>2 DEF one
    <3>2. wire = [i \in 1..Len(blocks) |-> wire[i]]
      BY <1>1, <2>2, <2>3
    <3> HIDE DEF wire
    <3>3. wire \in [1..Len(blocks) -> Message]
      BY <1>1, <3>1, <3>2
    <3> QED
      BY <1>1, <3>3
  <2> HIDE DEF wire
  <2>7. FlatMap(V, wire) = FlatMap(h, blocks)
    BY <2>3, <2>5, OneMessageEach DEF V
  <2> QED
    BY <1>4, <1>9, <2>6, <2>7 DEF wire, V
<1> QED
  BY <1>6, <1>7, <1>8, <1>9 DEF OllamaTakes

\* The messages that each message is converted to, and they have the same of h.
OneByOne(h, msgs, pieces) ==
  /\ DOMAIN pieces = DOMAIN msgs /\ pieces = [n \in DOMAIN pieces |-> pieces[n]]
  /\ \A n \in DOMAIN pieces :
       /\ pieces[n] \in Seq(Message)
       /\ FlatMap(OfMessages(h), pieces[n]) = OfMessages(h)[msgs[n]]

\* So is a conversation that is converted message by message, behind the prompt.
LEMMA WireMessagesHeard ==
  ASSUME NEW T, NEW h, Feature(h, T), NEW req, req.messages \in Seq(Message), req.system \in Seq(Words),
         NEW pieces, OneByOne(h, req.messages, pieces)
  PROVE  /\ SystemPrompt(req) \o FlattenSeq(pieces) \in Seq(Message)
         /\ FlatMap(OfMessages(h), SystemPrompt(req) \o FlattenSeq(pieces))
              = FlatMap(OfMessages(h), req.messages)
<1> DEFINE V      == OfMessages(h)
           prompt == SystemPrompt(req)
           flat   == FlattenSeq(pieces)
           msgs   == req.messages
           out    == [n \in DOMAIN msgs |-> V[msgs[n]]]
<1>1. /\ DOMAIN msgs = 1..Len(msgs) /\ Len(msgs) \in Nat
      /\ DOMAIN pieces = DOMAIN msgs /\ pieces = [n \in DOMAIN pieces |-> pieces[n]]
      /\ \A n \in DOMAIN pieces : pieces[n] \in Seq(Message) /\ FlatMap(V, pieces[n]) = V[msgs[n]]
  BY LenProperties DEF OneByOne
<1>2. V \in ToSeqs(Message, T)
  BY OfMessagesTyped DEF Feature
<1>3. prompt \in Seq(Message) /\ FlatMap(V, prompt) = << >>
  <2> DEFINE text == <<Text(req.system)>>
             said == Says("system", text)
  <2>1. "system" \in Roles /\ text \in Seq(Block)
    <3>1. Text(req.system) \in Block
      BY BlocksMade
    <3> QED
      BY <3>1 DEF Roles
  <2> HIDE DEF text
  <2>2. said \in Message /\ V[said] = << >>
    BY <2>1, SaysHeard
  <2>3. prompt = << >> \/ prompt = <<said>>
    BY DEF SystemPrompt, text
  <2> HIDE DEF said, V, prompt
  <2>4. FlatMap(V, << >>) = << >> /\ FlatMap(V, <<said>>) = V[said]
    BY <1>2, <2>2, FlatMapFew
  <2>5. << >> \in Seq(Message) /\ <<said>> \in Seq(Message)
    BY <2>2
  <2> QED
    BY <2>2, <2>3, <2>4, <2>5
<1>4. pieces \in Seq(Seq(Message))
  <2> DEFINE p2 == [n \in 1..Len(msgs) |-> pieces[n]]
  <2>1. p2 \in Seq(Seq(Message))
    BY <1>1
  <2>2. pieces = p2
    BY <1>1
  <2> QED
    BY <2>1, <2>2
<1>5. flat \in Seq(Message)
  BY <1>4, FlattenLayout
<1>6. DOMAIN out = DOMAIN pieces /\ out = [n \in DOMAIN out |-> out[n]]
  BY <1>1
<1>7. \A n \in DOMAIN pieces : out[n] = FlatMap(V, pieces[n])
  BY <1>1
<1>8. FlattenSeq(out) = FlatMap(V, msgs)
  BY DEF FlatMap
<1> HIDE DEF V, prompt, out
<1>9. FlatMap(V, FlattenSeq(pieces)) = FlattenSeq(out)
  BY <1>2, <1>4, <1>6, <1>7, FlatMapFlatten
<1> HIDE DEF flat
<1>10. prompt \o flat \in Seq(Message) /\ FlatMap(V, prompt \o flat) = FlatMap(V, prompt) \o FlatMap(V, flat)
  <2>1. prompt \in Seq(Message)
    BY <1>3
  <2>2. prompt \o flat \in Seq(Message)
    BY <1>5, <2>1, ConcatProperties
  <2>3. FlatMap(V, prompt \o flat) = FlatMap(V, prompt) \o FlatMap(V, flat)
    BY <1>2, <1>5, <2>1, FlatMapConcat
  <2> QED
    BY <2>2, <2>3
<1>11. << >> \o FlatMap(V, flat) = FlatMap(V, flat)
  <2>1. FlatMap(V, flat) \in Seq(T)
    BY <1>2, <1>5, FlatMapTyped
  <2> QED
    BY <2>1, ConcatEmptySeq
<1> QED
  BY <1>3, <1>8, <1>9, <1>10, <1>11 DEF V, prompt, flat

\* Anthropic's blocks have the same of it, and are blocks.
LEMMA AnthropicPartHeard ==
  ASSUME NEW T, NEW h, Feature(h, T), NEW b \in Block, AnthropicTakesPart(b)
  PROVE  AnthropicPart(b) \in Block /\ h[AnthropicPart(b)] = h[b]
<1>1. CASE IsCall(b)
  <2>1. AnthropicPart(b) = OpenAICall(b)
    BY <1>1 DEF AnthropicPart, OpenAICall, IsCall, IsImage
  <2> QED
    BY <1>1, <2>1, CallHeard
<1>2. CASE IsImage(b)
  <2>1. \E source \in Sources : AnthropicPart(b) = Image(source)
    BY <1>2 DEF AnthropicPart, Sources, IsCall, IsImage
  <2> QED
    BY <1>2, <2>1, ImageHeard
<1>3. CASE ~IsCall(b) /\ ~IsImage(b)
  <2>1. AnthropicPart(b) = b
    BY <1>3 DEF AnthropicPart
  <2> QED
    BY <2>1
<1> QED
  BY <1>1, <1>2, <1>3

\* The parts of a result are plain, and the texts among them are the same.
LEMMA AnthropicPartPlain ==
  ASSUME NEW b \in Plain
  PROVE  /\ AnthropicPart(b) \in Plain
         /\ IsText(AnthropicPart(b)) <=> IsText(b)
         /\ IsText(b) => AnthropicPart(b).text = b.text
<1>1. ~IsCall(b)
  BY DEF Plain, Malformed, IsCall
<1>2. CASE IsImage(b)
  <2>1. \E source \in Sources : AnthropicPart(b) = Image(source)
    BY <1>1, <1>2 DEF AnthropicPart, Sources
  <2>2. PICK source \in Sources : AnthropicPart(b) = Image(source)
    BY <2>1
  <2>3. Image(source) \in Plain /\ ~IsText(Image(source))
    BY BlocksMade DEF Image, IsText
  <2> QED
    BY <1>2, <2>2, <2>3 DEF IsText, IsImage
<1>3. CASE ~IsImage(b)
  <2>1. AnthropicPart(b) = b
    BY <1>1, <1>3 DEF AnthropicPart
  <2> QED
    BY <2>1
<1> QED
  BY <1>2, <1>3

\* So it is for results, with what is in them.
LEMMA AnthropicBlockHeard ==
  ASSUME NEW T, NEW h, Feature(h, T), NEW b \in Block, AnthropicTakesBlock(b)
  PROVE  AnthropicBlock(b) \in Block /\ h[AnthropicBlock(b)] = h[b]
<1>1. CASE ~IsResult(b)
  <2>1. AnthropicBlock(b) = AnthropicPart(b) /\ AnthropicTakesPart(b)
    BY <1>1 DEF AnthropicBlock, AnthropicTakesBlock
  <2> QED
    BY <2>1, AnthropicPartHeard
<1>2. CASE IsResult(b)
  <2> DEFINE c == b.content
             d == [i \in DOMAIN c |-> AnthropicPart(c[i])]
             r == Result(b.id, d)
  <2>1. b.id \in Id /\ c \in Seq(Plain)
    BY <1>2, BlockKinds DEF ResultBlock
  <2>2. DOMAIN c = 1..Len(c) /\ Len(c) \in Nat /\ \A i \in DOMAIN c : c[i] \in Plain
    BY <2>1, LenProperties, ElementOfSeq
  <2>3. AnthropicBlock(b) = r
    BY <1>2 DEF AnthropicBlock
  <2> HIDE DEF c
  <2>4. \A i \in DOMAIN c : AnthropicPart(c[i]) \in Plain
    BY <2>2, AnthropicPartPlain
  <2>5. d \in Seq(Plain) /\ DOMAIN d = DOMAIN c
    BY <2>2, <2>4
  <2>6. Joined(d) = Joined(c)
    <3>1. \A i \in DOMAIN c : (IF IsText(d[i]) THEN d[i].text ELSE << >>)
                                = IF IsText(c[i]) THEN c[i].text ELSE << >>
      <4> TAKE i \in DOMAIN c
      <4>1. d[i] = AnthropicPart(c[i]) /\ c[i] \in Plain
        BY <2>2
      <4> HIDE DEF d
      <4>2. (IsText(d[i]) <=> IsText(c[i])) /\ (IsText(c[i]) => d[i].text = c[i].text)
        BY <4>1, AnthropicPartPlain
      <4> QED
        BY <4>2
    <3> HIDE DEF d
    <3>2. [i \in DOMAIN d |-> IF IsText(d[i]) THEN d[i].text ELSE << >>]
            = [i \in DOMAIN c |-> IF IsText(c[i]) THEN c[i].text ELSE << >>]
      BY <2>5, <3>1
    <3> QED
      BY <3>2 DEF Joined
  <2> HIDE DEF d
  <2>7. r \in Block
    BY <2>1, <2>5, BlocksMade
  <2>8. IsResult(r) /\ r.content = d
    BY DEF Result, IsResult
  <2> HIDE DEF r
  <2>9. h[r] = h[b]
    BY <1>2, <2>6, <2>7, <2>8 DEF Feature, c
  <2> QED
    BY <2>3, <2>7, <2>9
<1> QED
  BY <1>1, <1>2

\* What Anthropic's adapter makes of a message of the user, the assistant or a tool.
AnthropicTurn(m) ==
  Says(IF m.role = "tool" THEN "user" ELSE m.role,
       [i \in DOMAIN m.content |-> AnthropicBlock(m.content[i])])

\* It has the same of h.
LEMMA AnthropicTurnHeard ==
  ASSUME NEW T, NEW h, Feature(h, T), NEW m \in Message, AnthropicTakes(m), m.role # "system"
  PROVE  /\ AnthropicTurn(m) \in Message /\ AnthropicTurn(m).role # "system"
         /\ OfMessages(h)[AnthropicTurn(m)] = OfMessages(h)[m]
<1> DEFINE blocks == m.content
           out    == [i \in DOMAIN blocks |-> AnthropicBlock(blocks[i])]
           role   == IF m.role = "tool" THEN "user" ELSE m.role
           V      == OfMessages(h)
<1>1. /\ blocks \in Seq(Block) /\ DOMAIN blocks = 1..Len(blocks) /\ Len(blocks) \in Nat
      /\ \A i \in DOMAIN blocks : blocks[i] \in Block /\ AnthropicTakesBlock(blocks[i])
  BY MessageParts DEF AnthropicTakes
<1>2. \A i \in DOMAIN blocks : AnthropicBlock(blocks[i]) \in Block /\ h[AnthropicBlock(blocks[i])] = h[blocks[i]]
  BY <1>1, AnthropicBlockHeard
<1>3. role \in Roles /\ role # "system"
  BY MessageParts DEF Roles
<1>4. V[m] = FlatMap(h, blocks)
  BY DEF OfMessages
<1>5. AnthropicTurn(m) = Says(role, out)
  BY DEF AnthropicTurn
<1>6. out \in Seq(Block) /\ FlatMap(h, out) = FlatMap(h, blocks)
  <2>1. out \in [1..Len(blocks) -> Block] /\ DOMAIN out = DOMAIN blocks
    BY <1>1, <1>2
  <2>2. \A i \in DOMAIN out : h[out[i]] = h[blocks[i]]
    BY <1>2
  <2> HIDE DEF out, blocks
  <2>3. out \in Seq(Block)
    BY <1>1, <2>1
  <2> QED
    BY <2>1, <2>2, <2>3, FlatMapSame
<1> HIDE DEF out, role, V, blocks
<1>7. Says(role, out) \in Message /\ V[Says(role, out)] = FlatMap(h, out)
  BY <1>3, <1>6, SaysHeard DEF V
<1>8. Says(role, out).role = role
  BY DEF Says
<1> QED
  BY <1>3, <1>4, <1>5, <1>6, <1>7, <1>8 DEF V

\* Anthropic is sent what the conversation says.
LEMMA AnthropicWireHeard ==
  ASSUME NEW T, NEW h, Feature(h, T), NEW req, req.messages \in Seq(Message), req.system \in Seq(Words),
         Builds("anthropic", req.messages)
  PROVE  /\ AnthropicWire(req) \in Seq(Message)
         /\ FlatMap(OfMessages(h), AnthropicWire(req)) = FlatMap(OfMessages(h), req.messages)
<1> DEFINE V     == OfMessages(h)
           msgs  == req.messages
           D     == {n \in DOMAIN msgs : msgs[n].role # "system"}
           turns == Filtered(msgs, LAMBDA m : m.role # "system")
           sys   == Says("system", <<Text(AnthropicSystem(req))>>)
           sent  == [n \in DOMAIN turns |-> AnthropicTurn(turns[n])]
           first == <<sys>>
<1>1. AnthropicWire(req) = first \o sent
  BY DEF AnthropicWire, AnthropicTurn
<1>2. /\ DOMAIN msgs = 1..Len(msgs) /\ Len(msgs) \in Nat
      /\ \A n \in DOMAIN msgs : msgs[n] \in Message /\ AnthropicTakes(msgs[n])
  BY LenProperties, ElementOfSeq DEF Builds, Takes
<1>3. V \in ToSeqs(Message, T)
  BY OfMessagesTyped DEF Feature
<1>4. Left(turns, D, msgs)
  <2>1. [n \in DOMAIN msgs |-> IF msgs[n].role # "system" THEN <<msgs[n]>> ELSE << >>]
          = [n \in DOMAIN msgs |-> IF n \in D THEN <<msgs[n]>> ELSE << >>]
    OBVIOUS
  <2> QED
    BY <2>1 DEF Filtered, Left
<1> HIDE DEF turns
<1>5. /\ DOMAIN turns = 1..Len(turns) /\ Len(turns) \in Nat
      /\ \A k \in DOMAIN turns : turns[k] \in Message /\ AnthropicTakes(turns[k]) /\ turns[k].role # "system"
  <2>1. D \in SUBSET (1..Len(msgs))
    BY <1>2
  <2>2. turns = FlattenSeq([n \in DOMAIN msgs |-> IF n \in D THEN <<msgs[n]>> ELSE << >>])
    BY <1>4 DEF Left
  <2> HIDE DEF D
  <2>3. turns \in Seq(Message) /\ \E at : Picks(at, D, msgs, turns)
    <3> HIDE DEF msgs
    <3>1. msgs \in Seq(Message)
      BY DEF msgs
    <3> QED
      BY <2>1, <2>2, <3>1, FilterPicks
  <2>4. DOMAIN turns = 1..Len(turns) /\ Len(turns) \in Nat /\ \A k \in DOMAIN turns : turns[k] \in Message
    BY <2>3, LenProperties, ElementOfSeq
  <2>5. \A k \in 1..Len(turns) : \E n \in D : turns[k] = msgs[n]
    BY <2>3 DEF Picks
  <2>6. \A n \in D : AnthropicTakes(msgs[n]) /\ msgs[n].role # "system"
    BY <1>2 DEF D
  <2> QED
    BY <2>4, <2>5, <2>6
<1>6. \A n \in DOMAIN turns : sent[n] = AnthropicTurn(turns[n])
  OBVIOUS
<1>7. \A n \in DOMAIN turns : sent[n] \in Message /\ V[sent[n]] = V[turns[n]]
  <2> HIDE DEF sent
  <2> QED
    BY <1>5, <1>6, AnthropicTurnHeard
<1>8. sent = [n \in 1..Len(turns) |-> sent[n]] /\ DOMAIN sent = DOMAIN turns
  BY <1>5
<1> HIDE DEF sent, V
<1>9. sent \in Seq(Message)
  <2>1. sent \in [1..Len(turns) -> Message]
    BY <1>5, <1>7, <1>8
  <2> QED
    BY <1>5, <2>1
<1>10. FlatMap(V, sent) = FlatMap(V, turns)
  <2>1. DOMAIN sent = DOMAIN turns
    BY <1>8
  <2>2. \A n \in DOMAIN sent : V[sent[n]] = V[turns[n]]
    BY <1>7, <2>1
  <2> QED
    BY <2>1, <2>2, FlatMapSame
<1>11. FlatMap(V, turns) = FlatMap(V, msgs)
  <2>1. \A n \in DOMAIN msgs : n \notin D => V[msgs[n]] = << >>
    BY <1>2 DEF V, OfMessages
  <2> HIDE DEF D, msgs
  <2>2. msgs \in Seq(Message)
    BY DEF msgs
  <2> QED
    BY <1>3, <1>4, <2>1, <2>2, FlatMapFiltered
<1>12. first \in Seq(Message) /\ FlatMap(V, first) = << >>
  <2> DEFINE text == <<Text(AnthropicSystem(req))>>
  <2>1. AnthropicSystem(req) \in Seq(Words)
    <3> DEFINE systems == Filtered(msgs, LAMBDA m : m.role = "system")
               E       == {n \in DOMAIN msgs : msgs[n].role = "system"}
               texts   == [i \in DOMAIN systems |-> Joined(systems[i].content)]
    <3>1. systems = FlattenSeq([n \in DOMAIN msgs |-> IF n \in E THEN <<msgs[n]>> ELSE << >>])
      <4>1. [n \in DOMAIN msgs |-> IF msgs[n].role = "system" THEN <<msgs[n]>> ELSE << >>]
              = [n \in DOMAIN msgs |-> IF n \in E THEN <<msgs[n]>> ELSE << >>]
        OBVIOUS
      <4> QED
        BY <4>1 DEF Filtered
    <3>2. E \in SUBSET (1..Len(msgs))
      BY <1>2
    <3>3. AnthropicSystem(req) = req.system \o FlattenSeq(texts)
      BY DEF AnthropicSystem
    <3> HIDE DEF systems, E
    <3>4. systems \in Seq(Message)
      <4> HIDE DEF msgs
      <4>1. msgs \in Seq(Message)
        BY DEF msgs
      <4> QED
        BY <3>1, <3>2, <4>1, FilterPicks
    <3>5. /\ DOMAIN systems = 1..Len(systems) /\ Len(systems) \in Nat
          /\ \A i \in DOMAIN systems : systems[i].content \in Seq(Block)
      BY <3>4, LenProperties, ElementOfSeq, MessageParts
    <3>6. \A i \in DOMAIN systems : Joined(systems[i].content) \in Seq(Words)
      BY <3>5, JoinedTyped
    <3>7. texts \in Seq(Seq(Words))
      BY <3>5, <3>6
    <3> HIDE DEF texts
    <3>8. FlattenSeq(texts) \in Seq(Words)
      BY <3>7, FlattenLayout
    <3> QED
      BY <3>3, <3>8, ConcatProperties
  <2>2. text \in Seq(Block) /\ "system" \in Roles
    <3>1. Text(AnthropicSystem(req)) \in Block
      BY <2>1, BlocksMade
    <3> QED
      BY <3>1 DEF Roles
  <2>3. sys = Says("system", text)
    OBVIOUS
  <2> HIDE DEF text, sys
  <2>4. sys \in Message /\ V[sys] = << >>
    BY <2>2, <2>3, SaysHeard DEF V
  <2> QED
    BY <1>3, <2>4, FlatMapFew
<1> HIDE DEF first
<1>13. first \o sent \in Seq(Message)
  BY <1>9, <1>12, ConcatProperties
<1>14. FlatMap(V, first \o sent) = FlatMap(V, first) \o FlatMap(V, sent)
  <2>1. first \in Seq(Message)
    BY <1>12
  <2> QED
    BY <1>3, <1>9, <2>1, FlatMapConcat
<1>15. << >> \o FlatMap(V, sent) = FlatMap(V, sent)
  <2>1. FlatMap(V, sent) \in Seq(T)
    BY <1>3, <1>9, FlatMapTyped
  <2> QED
    BY <2>1, ConcatEmptySeq
<1> QED
  BY <1>1, <1>10, <1>11, <1>12, <1>13, <1>14, <1>15 DEF V

\* The messages that OpenAI and Ollama are sent for each message.
LEMMA OpenAIPieces ==
  ASSUME NEW T, NEW h, Feature(h, T), NEW msgs \in Seq(Message),
         \A n \in DOMAIN msgs : OpenAITakes(msgs[n])
  PROVE  OneByOne(h, msgs, [n \in DOMAIN msgs |-> OpenAIMessages(msgs[n])])
<1> DEFINE pieces == [n \in DOMAIN msgs |-> OpenAIMessages(msgs[n])]
<1>1. DOMAIN pieces = DOMAIN msgs /\ pieces = [n \in DOMAIN pieces |-> pieces[n]]
  OBVIOUS
<1>2. \A n \in DOMAIN pieces :
        /\ pieces[n] \in Seq(Message)
        /\ FlatMap(OfMessages(h), pieces[n]) = OfMessages(h)[msgs[n]]
  <2> TAKE n \in DOMAIN pieces
  <2>1. pieces[n] = OpenAIMessages(msgs[n]) /\ msgs[n] \in Message /\ OpenAITakes(msgs[n])
    BY LenProperties, ElementOfSeq
  <2>2. OpenAIMessages(msgs[n]) \in Seq(Message)
    BY <2>1, OpenAIMessagesProperties
  <2>3. FlatMap(OfMessages(h), OpenAIMessages(msgs[n])) = OfMessages(h)[msgs[n]]
    BY <2>1, OpenAIMessagesHeard
  <2> QED
    BY <2>1, <2>2, <2>3
<1> HIDE DEF pieces
<1>3. OneByOne(h, msgs, pieces)
  BY <1>1, <1>2 DEF OneByOne
<1> QED
  BY <1>3 DEF pieces

LEMMA OllamaPieces ==
  ASSUME NEW T, NEW h, Feature(h, T), NEW msgs \in Seq(Message),
         \A n \in DOMAIN msgs : OllamaTakes(msgs[n])
  PROVE  OneByOne(h, msgs, [n \in DOMAIN msgs |-> OllamaMessages(msgs[n])])
<1> DEFINE pieces == [n \in DOMAIN msgs |-> OllamaMessages(msgs[n])]
<1>1. DOMAIN pieces = DOMAIN msgs /\ pieces = [n \in DOMAIN pieces |-> pieces[n]]
  OBVIOUS
<1>2. \A n \in DOMAIN pieces :
        /\ pieces[n] \in Seq(Message)
        /\ FlatMap(OfMessages(h), pieces[n]) = OfMessages(h)[msgs[n]]
  <2> TAKE n \in DOMAIN pieces
  <2>1. pieces[n] = OllamaMessages(msgs[n]) /\ msgs[n] \in Message /\ OllamaTakes(msgs[n])
    BY LenProperties, ElementOfSeq
  <2> QED
    BY <2>1, OllamaMessagesHeard
<1> HIDE DEF pieces
<1>3. OneByOne(h, msgs, pieces)
  BY <1>1, <1>2 DEF OneByOne
<1> QED
  BY <1>3 DEF pieces

\* Every adapter sends what the conversation says.
LEMMA WireHeard ==
  ASSUME NEW T, NEW h, Feature(h, T), NEW a \in Adapters, NEW req,
         req.messages \in Seq(Message), req.system \in Seq(Words), Builds(a, req.messages)
  PROVE  /\ Wire(a, req) \in Seq(Message)
         /\ FlatMap(OfMessages(h), Wire(a, req)) = FlatMap(OfMessages(h), req.messages)
<1>1. CASE a = "anthropic"
  BY <1>1, AnthropicWireHeard DEF Wire
<1>2. CASE a = "openai"
  <2> DEFINE pieces == [n \in DOMAIN req.messages |-> OpenAIMessages(req.messages[n])]
  <2>1. \A n \in DOMAIN req.messages : OpenAITakes(req.messages[n])
    BY <1>2 DEF Builds, Takes
  <2>2. OneByOne(h, req.messages, pieces)
    BY <2>1, OpenAIPieces
  <2>3. Wire(a, req) = SystemPrompt(req) \o FlattenSeq(pieces)
    BY <1>2 DEF Wire, OpenAIWire
  <2> HIDE DEF pieces
  <2> QED
    BY <2>2, <2>3, WireMessagesHeard
<1>3. CASE a = "ollama"
  <2> DEFINE pieces == [n \in DOMAIN req.messages |-> OllamaMessages(req.messages[n])]
  <2>1. \A n \in DOMAIN req.messages : OllamaTakes(req.messages[n])
    BY <1>3 DEF Builds, Takes
  <2>2. OneByOne(h, req.messages, pieces)
    BY <2>1, OllamaPieces
  <2>3. Wire(a, req) = SystemPrompt(req) \o FlattenSeq(pieces)
    BY <1>3 DEF Wire, OllamaWire
  <2> HIDE DEF pieces
  <2> QED
    BY <2>2, <2>3, WireMessagesHeard
<1> QED
  BY <1>1, <1>2, <1>3 DEF Adapters

-------------------------------------------------------------------------------
(* No message on the wire holds more than one of the conversation's does. *)

\* A prompt is nothing but texts.
Prompts(w) == w.role = "system" /\ \A i \in DOMAIN w.content : IsText(w.content[i])

\* A message on the wire is a prompt or has no more of h than some message.
WithinOne(h, w, msgs) ==
  \/ Prompts(w)
  \/ /\ w.role # "system"
     /\ \E n \in DOMAIN msgs : Len(OfMessages(h)[w]) <= Len(OfMessages(h)[msgs[n]])

\* A message that says one text.
LEMMA PromptsText == \A t : Prompts(Says("system", <<Text(t)>>))
<1> TAKE t
<1>1. DOMAIN <<Text(t)>> = {1} /\ <<Text(t)>>[1] = Text(t)
  OBVIOUS
<1>2. IsText(Text(t))
  BY DEF IsText, Text
<1> QED
  BY <1>1, <1>2 DEF Prompts, Says

\* A system message becomes a prompt, any other none.
LEMMA MessagesPrompt ==
  ASSUME NEW m \in Message
  PROVE  /\ OpenAITakes(m) => \A k \in DOMAIN OpenAIMessages(m) :
              OpenAIMessages(m)[k].role = "system" => Prompts(OpenAIMessages(m)[k])
         /\ OllamaTakes(m) => \A k \in DOMAIN OllamaMessages(m) :
              OllamaMessages(m)[k].role = "system" => Prompts(OllamaMessages(m)[k])
<1> DEFINE text == Text(Joined(m.content))
<1>1. Prompts(Says("system", <<text>>))
  BY PromptsText
<1>2. \A role, blocks : Says(role, blocks).role = role
  BY DEF Says
<1>3. \A x, k : k \in DOMAIN <<x>> => <<x>>[k] = x
  OBVIOUS
<1>4. ASSUME OpenAITakes(m), NEW k \in DOMAIN OpenAIMessages(m), OpenAIMessages(m)[k].role = "system"
      PROVE  Prompts(OpenAIMessages(m)[k])
  <2>1. CASE m.role = "system"
    <3>1. OpenAIMessages(m) = <<Says("system", <<text>>)>>
      BY <2>1 DEF OpenAIMessages
    <3> HIDE DEF text
    <3>2. OpenAIMessages(m)[k] = Says("system", <<text>>)
      BY <1>3, <3>1
    <3> QED
      BY <1>1, <3>2
  <2>2. CASE m.role = "user"
    <3> DEFINE said == [i \in DOMAIN m.content |-> OpenAIPart(m.content[i])]
    <3>1. OpenAIMessages(m) = <<Says("user", said)>>
      BY <2>2 DEF OpenAIMessages
    <3> HIDE DEF said
    <3>2. OpenAIMessages(m)[k] = Says("user", said)
      BY <1>3, <3>1
    <3> QED
      BY <1>2, <1>4, <3>2
  <2>3. CASE m.role = "assistant"
    <3>1. OpenAIMessages(m) = <<OpenAIAssistant(m)>>
      BY <2>3 DEF OpenAIMessages
    <3>2. OpenAIMessages(m)[k] = OpenAIAssistant(m)
      BY <1>3, <3>1
    <3>3. OpenAIAssistant(m).role = "assistant"
      BY <1>2 DEF OpenAIAssistant
    <3> QED
      BY <1>4, <3>2, <3>3
  <2>4. CASE m.role = "tool"
    <3>1. OpenAIMessages(m) = ResultMessages(m)
      BY <2>4 DEF OpenAIMessages
    <3>2. k \in DOMAIN m.content /\ ResultMessages(m)[k].role = "tool"
      BY <1>2, <1>4, <3>1 DEF ResultMessages
    <3> QED
      BY <1>4, <3>1, <3>2
  <2> QED
    BY <1>4, <2>1, <2>2, <2>3, <2>4 DEF OpenAITakes
<1>5. ASSUME OllamaTakes(m), NEW k \in DOMAIN OllamaMessages(m), OllamaMessages(m)[k].role = "system"
      PROVE  Prompts(OllamaMessages(m)[k])
  <2>1. CASE m.role = "system"
    <3>1. OllamaMessages(m) = <<Says("system", <<text>>)>>
      BY <2>1 DEF OllamaMessages
    <3> HIDE DEF text
    <3>2. OllamaMessages(m)[k] = Says("system", <<text>>)
      BY <1>3, <3>1
    <3> QED
      BY <1>1, <3>2
  <2>2. CASE m.role = "user" \/ m.role = "assistant"
    <3>1. \E blocks : OllamaMessages(m) = <<Says(m.role, blocks)>>
      <4>1. CASE m.role = "user"
        BY <4>1 DEF OllamaMessages
      <4>2. CASE m.role = "assistant"
        BY <4>2 DEF OllamaMessages
      <4> QED
        BY <2>2, <4>1, <4>2
    <3>2. PICK blocks : OllamaMessages(m) = <<Says(m.role, blocks)>>
      BY <3>1
    <3>3. OllamaMessages(m)[k] = Says(m.role, blocks)
      BY <1>3, <3>2
    <3> QED
      BY <1>2, <1>5, <2>2, <3>3
  <2>4. CASE m.role = "tool"
    <3>1. k \in DOMAIN m.content /\ OllamaMessages(m)[k].role = "tool"
      BY <1>2, <1>5, <2>4 DEF OllamaMessages
    <3> QED
      BY <1>5, <3>1
  <2> QED
    BY <1>5, <2>1, <2>2, <2>4 DEF OllamaTakes
<1> QED
  BY <1>4, <1>5

\* Each message of a request that is converted message by message, behind the prompt.
LEMMA PiecesWithinOne ==
  ASSUME NEW T, NEW h, Feature(h, T), NEW req, req.messages \in Seq(Message), req.system \in Seq(Words),
         NEW pieces, OneByOne(h, req.messages, pieces),
         \A n \in DOMAIN pieces : \A j \in DOMAIN pieces[n] :
           pieces[n][j].role = "system" => Prompts(pieces[n][j]),
         NEW wire, wire = SystemPrompt(req) \o FlattenSeq(pieces),
         NEW k \in DOMAIN wire
  PROVE  WithinOne(h, wire[k], req.messages)
<1> DEFINE V      == OfMessages(h)
           msgs   == req.messages
           prompt == SystemPrompt(req)
           flat   == FlattenSeq(pieces)
<1>1. /\ DOMAIN msgs = 1..Len(msgs) /\ Len(msgs) \in Nat
      /\ DOMAIN pieces = DOMAIN msgs /\ pieces = [n \in DOMAIN pieces |-> pieces[n]]
      /\ \A n \in DOMAIN pieces : pieces[n] \in Seq(Message) /\ FlatMap(V, pieces[n]) = V[msgs[n]]
  BY LenProperties DEF OneByOne
<1>2. V \in ToSeqs(Message, T)
  BY OfMessagesTyped DEF Feature
<1>3. prompt \in Seq(Message) /\ \A i \in DOMAIN prompt : Prompts(prompt[i])
  <2> DEFINE text == <<Text(req.system)>>
             said == Says("system", text)
  <2>1. "system" \in Roles /\ text \in Seq(Block)
    <3>1. Text(req.system) \in Block
      BY BlocksMade
    <3> QED
      BY <3>1 DEF Roles
  <2>2. Prompts(said)
    BY PromptsText
  <2>3. prompt = << >> \/ prompt = <<said>>
    BY DEF SystemPrompt
  <2> HIDE DEF text
  <2>4. said \in Message
    BY <2>1, SaysMessage
  <2> HIDE DEF said, prompt
  <2>5. CASE prompt = << >>
    BY <2>5, EmptySeq
  <2>6. CASE prompt = <<said>>
    <3>1. <<said>> \in Seq(Message) /\ \A i \in DOMAIN <<said>> : <<said>>[i] = said
      BY <2>4
    <3> QED
      BY <2>2, <2>6, <3>1
  <2> QED
    BY <2>3, <2>5, <2>6
<1>4. pieces \in Seq(Seq(Message))
  <2> DEFINE p2 == [n \in 1..Len(msgs) |-> pieces[n]]
  <2>1. p2 \in Seq(Seq(Message))
    BY <1>1
  <2>2. pieces = p2
    BY <1>1
  <2> QED
    BY <2>1, <2>2
<1>5. flat \in Seq(Message)
  BY <1>4, FlattenLayout
<1>6. \/ k \in DOMAIN prompt /\ wire[k] = prompt[k]
      \/ \E i \in DOMAIN flat : wire[k] = flat[i]
  <2> HIDE DEF prompt, flat
  <2>1. wire = prompt \o flat
    BY DEF prompt, flat
  <2>2. k \in DOMAIN (prompt \o flat)
    BY <2>1
  <2>3. \/ k \in DOMAIN prompt /\ (prompt \o flat)[k] = prompt[k]
        \/ k - Len(prompt) \in DOMAIN flat /\ (prompt \o flat)[k] = flat[k - Len(prompt)]
    BY <1>3, <1>5, <2>2, ConcatElements
  <2> QED
    BY <2>1, <2>3
<1>7. CASE k \in DOMAIN prompt /\ wire[k] = prompt[k]
  BY <1>3, <1>7 DEF WithinOne
<1>8. CASE \E i \in DOMAIN flat : wire[k] = flat[i]
  <2>1. PICK i \in DOMAIN flat : wire[k] = flat[i]
    BY <1>8
  <2>2. \E n \in DOMAIN pieces : \E j \in DOMAIN pieces[n] : flat[i] = pieces[n][j]
    BY <1>4, FlattenElements
  <2>3. PICK n \in DOMAIN pieces : \E j \in DOMAIN pieces[n] : flat[i] = pieces[n][j]
    BY <2>2
  <2> DEFINE p == pieces[n]
  <2>4. PICK j \in DOMAIN p : flat[i] = p[j]
    BY <2>3
  <2>5. p \in Seq(Message) /\ FlatMap(V, p) = V[msgs[n]] /\ n \in DOMAIN msgs
    BY <1>1
  <2>6. p[j].role = "system" => Prompts(p[j])
    OBVIOUS
  <2> HIDE DEF p, V
  <2>7. Len(V[p[j]]) <= Len(FlatMap(V, p))
    BY <1>2, <2>5, FlatMapPart
  <2> QED
    BY <2>1, <2>4, <2>5, <2>6, <2>7 DEF WithinOne, V
<1> QED
  BY <1>6, <1>7, <1>8

\* Each message that Anthropic is sent.
LEMMA AnthropicWithinOne ==
  ASSUME NEW T, NEW h, Feature(h, T), NEW req, req.messages \in Seq(Message), req.system \in Seq(Words),
         Builds("anthropic", req.messages), NEW k \in DOMAIN AnthropicWire(req)
  PROVE  WithinOne(h, AnthropicWire(req)[k], req.messages)
<1> DEFINE V     == OfMessages(h)
           msgs  == req.messages
           wire  == AnthropicWire(req)
           D     == {n \in DOMAIN msgs : msgs[n].role # "system"}
           turns == Filtered(msgs, LAMBDA m : m.role # "system")
           sys   == Says("system", <<Text(AnthropicSystem(req))>>)
           sent  == [n \in DOMAIN turns |-> AnthropicTurn(turns[n])]
<1>1. wire = <<sys>> \o sent
  BY DEF AnthropicWire, AnthropicTurn
<1>2. /\ DOMAIN msgs = 1..Len(msgs) /\ Len(msgs) \in Nat
      /\ \A n \in DOMAIN msgs : msgs[n] \in Message /\ AnthropicTakes(msgs[n])
  BY LenProperties, ElementOfSeq DEF Builds, Takes
<1>3. /\ DOMAIN turns = 1..Len(turns) /\ Len(turns) \in Nat
      /\ \A n \in 1..Len(turns) : \E q \in D : turns[n] = msgs[q]
  <2>1. D \in SUBSET (1..Len(msgs))
    BY <1>2
  <2>2. turns = FlattenSeq([n \in DOMAIN msgs |-> IF n \in D THEN <<msgs[n]>> ELSE << >>])
    <3>1. [n \in DOMAIN msgs |-> IF msgs[n].role # "system" THEN <<msgs[n]>> ELSE << >>]
            = [n \in DOMAIN msgs |-> IF n \in D THEN <<msgs[n]>> ELSE << >>]
      OBVIOUS
    <3> QED
      BY <3>1 DEF Filtered
  <2> HIDE DEF D, turns, msgs
  <2>3. msgs \in Seq(Message)
    BY DEF msgs
  <2>4. turns \in Seq(Message) /\ \E at : Picks(at, D, msgs, turns)
    BY <2>1, <2>2, <2>3, FilterPicks
  <2>5. DOMAIN turns = 1..Len(turns) /\ Len(turns) \in Nat
    BY <2>4, LenProperties
  <2> QED
    BY <2>4, <2>5 DEF Picks
<1> HIDE DEF turns
<1>4. Prompts(sys)
  BY PromptsText
<1>5. \/ wire[k] = sys
      \/ \E n \in DOMAIN turns : wire[k] = AnthropicTurn(turns[n])
  <2>1. /\ sent = [n \in 1..Len(turns) |-> sent[n]] /\ DOMAIN sent = 1..Len(turns)
        /\ \A n \in DOMAIN turns : sent[n] = AnthropicTurn(turns[n])
    BY <1>3
  <2> HIDE DEF sent, sys
  <2> DEFINE S   == {sys} \cup {sent[n] : n \in 1..Len(turns)}
             one == <<sys>>
  <2>2. one \in Seq(S) /\ Len(one) = 1 /\ one[1] = sys /\ DOMAIN one = 1..1
    OBVIOUS
  <2>3. sent \in [1..Len(turns) -> S]
    BY <2>1
  <2> HIDE DEF S
  <2>4. sent \in Seq(S)
    BY <1>3, <2>3
  <2>5. k \in DOMAIN (one \o sent)
    BY <1>1
  <2>6. wire = one \o sent
    BY <1>1
  <2> HIDE DEF one, wire
  <2>7. \/ k \in DOMAIN one /\ (one \o sent)[k] = one[k]
        \/ k - Len(one) \in DOMAIN sent /\ (one \o sent)[k] = sent[k - Len(one)]
    BY <2>2, <2>4, <2>5, ConcatElements
  <2>8. CASE k \in DOMAIN one /\ (one \o sent)[k] = one[k]
    BY <2>2, <2>6, <2>8
  <2>9. CASE k - Len(one) \in DOMAIN sent /\ (one \o sent)[k] = sent[k - Len(one)]
    BY <1>3, <2>1, <2>6, <2>9
  <2> QED
    BY <2>7, <2>8, <2>9
<1>6. CASE wire[k] = sys
  BY <1>4, <1>6 DEF WithinOne
<1>7. ASSUME NEW n \in DOMAIN turns, wire[k] = AnthropicTurn(turns[n])
      PROVE  WithinOne(h, wire[k], msgs)
  <2>1. PICK q \in D : turns[n] = msgs[q]
    BY <1>3
  <2> DEFINE m == msgs[q]
             w == AnthropicTurn(m)
  <2>2. m \in Message /\ AnthropicTakes(m) /\ m.role # "system" /\ q \in DOMAIN msgs
    BY <1>2
  <2>3. wire[k] = w
    BY <1>7, <2>1
  <2> HIDE DEF wire
  <2>4. w.role # "system" /\ V[w] = V[m] /\ w \in Message
    <3> HIDE DEF m
    <3> QED
      BY <2>2, AnthropicTurnHeard
  <2>5. Len(V[m]) <= Len(V[m])
    <3>1. V \in ToSeqs(Message, T)
      BY OfMessagesTyped DEF Feature
    <3> HIDE DEF m, V
    <3>2. V[m] \in Seq(T)
      BY <2>2, <3>1 DEF ToSeqs
    <3>3. Len(V[m]) \in Nat
      BY <3>2, LenProperties
    <3> QED
      BY <3>3
  <2> HIDE DEF w, V
  <2> QED
    BY <2>2, <2>3, <2>4, <2>5 DEF WithinOne, V
<1> QED
  BY <1>5, <1>6, <1>7

\* Each message on the wire of any adapter.
LEMMA WireWithinOne ==
  ASSUME NEW T, NEW h, Feature(h, T), NEW a \in Adapters, NEW req,
         req.messages \in Seq(Message), req.system \in Seq(Words), Builds(a, req.messages),
         NEW k \in DOMAIN Wire(a, req)
  PROVE  WithinOne(h, Wire(a, req)[k], req.messages)
<1>1. \A n \in DOMAIN req.messages : req.messages[n] \in Message
  BY LenProperties, ElementOfSeq
<1>2. CASE a = "anthropic"
  BY <1>2, AnthropicWithinOne DEF Wire
<1>3. CASE a = "openai"
  <2> DEFINE pieces == [n \in DOMAIN req.messages |-> OpenAIMessages(req.messages[n])]
  <2>1. \A n \in DOMAIN req.messages : OpenAITakes(req.messages[n])
    BY <1>3 DEF Builds, Takes
  <2>2. Wire(a, req) = SystemPrompt(req) \o FlattenSeq(pieces)
    BY <1>3 DEF Wire, OpenAIWire
  <2>3. \A n \in DOMAIN pieces : \A i \in DOMAIN pieces[n] : pieces[n][i].role = "system" => Prompts(pieces[n][i])
    BY <1>1, <2>1, MessagesPrompt
  <2>4. OneByOne(h, req.messages, pieces)
    BY <1>1, <2>1, OpenAIPieces
  <2> HIDE DEF pieces
  <2> QED
    BY <2>2, <2>3, <2>4, PiecesWithinOne
<1>4. CASE a = "ollama"
  <2> DEFINE pieces == [n \in DOMAIN req.messages |-> OllamaMessages(req.messages[n])]
  <2>1. \A n \in DOMAIN req.messages : OllamaTakes(req.messages[n])
    BY <1>4 DEF Builds, Takes
  <2>2. Wire(a, req) = SystemPrompt(req) \o FlattenSeq(pieces)
    BY <1>4 DEF Wire, OllamaWire
  <2>3. \A n \in DOMAIN pieces : \A i \in DOMAIN pieces[n] : pieces[n][i].role = "system" => Prompts(pieces[n][i])
    BY <1>1, <2>1, MessagesPrompt
  <2>4. OneByOne(h, req.messages, pieces)
    BY <1>1, <2>1, OllamaPieces
  <2> HIDE DEF pieces
  <2> QED
    BY <2>2, <2>3, <2>4, PiecesWithinOne
<1> QED
  BY <1>2, <1>3, <1>4 DEF Adapters
===============================================================================
