------------------------------ MODULE MCChatTurns ------------------------------
(* Instances of ChatTurns for TLC. *)
EXTENDS ChatTurns

\* One model of each adapter, one that the catalog does not know, one whose provider
\* is not registered.
MCRefs == {"claude", "gpt", "llama", "custom", "gone"}
MCModelOf == [ref \in MCRefs |-> ref]
MCRegistered == MCRefs \ {"gone"}
MCAdapterOf == [ref \in MCRegistered |-> CASE ref = "claude" -> "anthropic"
                                           [] ref = "llama" -> "ollama"
                                           [] OTHER -> "openai"]
MCCatalogued == {"claude", "gpt", "llama"}

\* gpt has no parallel calls and llama no vision; the context of llama holds two long
\* words, not three.
MCInfoOf ==
  [claude |-> [tools |-> TRUE, parallel |-> TRUE, vision |-> TRUE, thinking |-> TRUE, context |-> 0],
   gpt    |-> [tools |-> TRUE, parallel |-> FALSE, vision |-> TRUE, thinking |-> FALSE, context |-> 900],
   llama  |-> [tools |-> TRUE, parallel |-> TRUE, vision |-> FALSE, thinking |-> FALSE, context |-> 700]]

MCWords == {"hi", "long"}
MCCharsOf == [hi |-> 2, long |-> 400]
Hi == <<"hi">>
Long == <<"long">>

User(blocks) == Says("user", blocks)
MCFollowUp == [model |-> NoModel, policy |-> NoPolicy, system |-> << >>, messages |-> << >>,
               tools |-> FALSE, choiceOk |-> TRUE, thinking |-> FALSE, maxTokens |-> 0]
Say(msgs) == [MCFollowUp EXCEPT !.messages = msgs]

-------------------------------------------------------------------------------
(* Conversations: what is said and sent. *)

TalkCandidates == [all |-> <<"gpt", "llama", "claude">>]

TalkAsks ==
  {Say(<<User(<<Text(Hi)>>)>>),
   [Say(<<User(<<Text(Long)>>)>>) EXCEPT !.model = "llama"],
   [Say(<<User(<<Image("base64"), Text(Hi)>>)>>) EXCEPT !.tools = TRUE],
   [Say(<<Says("system", <<Text(Hi)>>), User(<<Image("url")>>)>>) EXCEPT !.system = Hi],
   \* a result before its call, and parallel calls with results that hold an image
   Say(<<Says("tool", <<Result(<<9, 1>>, <<Text(Hi)>>)>>),
         Says("assistant", <<Call(<<9, 1>>, "f", "object")>>)>>),
   Say(<<Says("assistant", <<Call(<<9, 1>>, "f", "object"), Call(<<9, 2>>, "g", "empty")>>),
         Says("tool", <<Result(<<9, 2>>, <<Image("url"), Text(Hi)>>),
                        Result(<<9, 1>>, <<Text(Hi)>>)>>)>>)}

TalkParts ==
  {<<Text(Hi), Call(NoId, "f", "object")>>,
   <<Thinking(Hi), Text(Hi), Malformed>>,
   <<Call(NoId, "f", "null"), Call(NoId, "g", "object")>>,
   <<Call(NoId, "f", "broken")>>}

TalkFallbackSets == {{"RateLimit", "InvalidRequest"}}
TalkCaps         == {0}
TalkStatuses     == {200, 429}
TalkEdits == {<<User(<<Text(Hi), Image("none")>>)>>}

-------------------------------------------------------------------------------
(* Exchanges: how attempts and turns end. *)

ExchangeCandidates == [all |-> <<"llama", "gone", "gpt">>, tail |-> <<"custom", "gone">>]

ExchangeAsks ==
  {Say(<<User(<<Text(Hi)>>)>>),
   [Say(<<User(<<Text(Hi)>>)>>) EXCEPT !.tools = TRUE],
   [Say(<<User(<<Text(Hi)>>)>>) EXCEPT !.policy = "tail"],
   [Say(<< >>) EXCEPT !.model = Alias, !.system = Hi],
   [Say(<< >>) EXCEPT !.choiceOk = FALSE, !.system = Hi]}

ExchangeParts == {<<Text(Hi)>>}
ExchangeEdits == {<< >>}

Retried == {"RateLimit", "Timeout", "ServerError", "ContextLength", "Overloaded"}
ExchangeFallbackSets == {{}, Retried, Retried \cup {"Canceled", "ToolsUnsupported", "Unknown"}}
ExchangeCaps     == {-1, 0, 2}
ExchangeStatuses == {200, 302, 400, 401, 404, 408, 413, 418, 429, 500, 503, 504}
===============================================================================
