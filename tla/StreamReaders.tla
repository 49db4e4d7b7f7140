----------------------------- MODULE StreamReaders -----------------------------
(***************************************************************************)
(* The three readers under one specification, and what is promised of all  *)
(* of them.                                                                *)
(***************************************************************************)
EXTENDS OpenAIReader, AnthropicReader, OllamaReader

Init ==
  /\ adapter \in {"openai", "anthropic", "ollama"}
  /\ wire = IF adapter = "anthropic" THEN "start" ELSE "open"
  /\ sent = << >>
  /\ pieces = 0
  /\ acc = CASE adapter = "openai" -> OpenAIAcc
             [] adapter = "anthropic" -> AnthropicAcc
             [] adapter = "ollama" -> OllamaAcc
  /\ view = NoMessage
  /\ state = "opened"
  /\ done = FALSE
  /\ err = "none"
  /\ afterOutput = FALSE

Next == OpenAINext \/ AnthropicNext \/ OllamaNext

Spec == Init /\ [][Next]_vars

-------------------------------------------------------------------------------
(* Properties. *)

Block == [open : BOOLEAN, data : Seq(Nat)]

\* The indices of the blocks are 0, 1, 2 and so on.
TypeOK ==
  /\ adapter \in {"openai", "anthropic", "ollama"}
  /\ wire \in {"start", "open", "block", "finished"}
  /\ pieces \in 0..MaxPieces
  /\ \A k \in DOMAIN sent : sent[k] \in Seq(0..(pieces - 1))
  /\ view.phase \in {"none", "message", "stopped"}
  /\ \E n \in 0..(MaxCalls + 1) : view.blocks \in [0..(n - 1) -> Block]
  /\ state \in {"opened", "provider_started", "partial_output", "completed", "canceled", "failed"}
  /\ done \in BOOLEAN
  /\ err \in {"none", "canceled", "failed"}
  /\ afterOutput \in BOOLEAN

\* The block in which the consumer finds what the provider calls k.
BlockOf(k) ==
  CASE k.kind = "block" -> k.at
    [] k.kind = "text"  -> IF adapter = "openai" THEN acc.textIndex ELSE 0
    [] k.kind = "call"  -> IF adapter = "openai" THEN acc.callBlock[k.at]
                           ELSE k.at + Cardinality({Of("text", 0)} \cap DOMAIN sent)

\* Every text, call or block of the provider has a block of its own, and that holds
\* exactly its pieces, in the order in which they were sent.
NothingLostOrMixed ==
  /\ {BlockOf(k) : k \in DOMAIN sent} = DOMAIN view.blocks
  /\ \A k \in DOMAIN sent : view.blocks[BlockOf(k)].data = sent[k]
  /\ \A k, l \in DOMAIN sent : BlockOf(k) = BlockOf(l) => k = l

Emitted == \E i \in DOMAIN view.blocks : view.blocks[i].data # << >>

\* Until the end, State() tells where the message is (chat/stream.go:42-44).
StateTellsTheMessage ==
  ~done =>
    /\ state = "opened" <=> view.phase = "none"
    /\ state = "completed" <=> view.phase = "stopped"
    /\ state = "partial_output" <=> view.phase = "message" /\ Emitted

\* An error in the middle of a message says whether output was emitted before it
\* (errors.go:38).  Not so the Anthropic reader's.
AfterOutputIfEmitted ==
  err # "none" /\ view.phase # "stopped" => (afterOutput <=> Emitted)

\* The other two readers' errors do.
AfterOutputMidMessage == adapter # "anthropic" => AfterOutputIfEmitted

\* Blocks open once and at the next index, only grow while they are open, and are all
\* stopped when the message is; the end comes once.
Consumer == INSTANCE BlockStream WITH
  phase <- view.phase,
  blocks <- view.blocks,
  outcome <- IF ~done THEN "none" ELSE IF err = "none" THEN "eof" ELSE err

ImplementsBlockStream == Consumer!StreamSpec
================================================================================
