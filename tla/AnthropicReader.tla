---------------------------- MODULE AnthropicReader ----------------------------
(***************************************************************************)
(* The reader of the Anthropic adapter (pkg/providers/anthropic/stream.go):*)
(* the provider has blocks of its own, one open at a time, and the reader  *)
(* passes on its events and its indices.                                   *)
(***************************************************************************)
EXTENDS ReaderState

AnthropicAcc == << >>

AnthropicTalks(where) ==
  Reads("anthropic") /\ wire = where /\ UNCHANGED <<adapter, acc, ending>>

AnthropicStart ==
  /\ AnthropicTalks("start")
  /\ view' = MessageStart(view)
  /\ state' = Raised("provider_started")
  /\ wire' = "open"
  /\ UNCHANGED sending

\* Blocks are numbered as they come.
AnthropicBlockStart ==
  /\ AnthropicTalks("open")
  /\ LET i == Cardinality(DOMAIN sent)
     IN  /\ i < MaxCalls
         /\ Announces(Of("block", i))
         /\ view' = BlockStart(view, i)
  /\ wire' = "block"
  /\ UNCHANGED state

Latest == Cardinality(DOMAIN sent) - 1

AnthropicBlockDelta ==
  /\ AnthropicTalks("block")
  /\ Sends(Of("block", Latest))
  /\ view' = BlockDelta(view, Latest, pieces)
  /\ state' = Raised("partial_output")
  /\ UNCHANGED wire

AnthropicBlockStop ==
  /\ AnthropicTalks("block")
  /\ view' = BlocksStop(view, {Latest})
  /\ wire' = "open"
  /\ UNCHANGED <<sending, state>>

AnthropicStop ==
  /\ AnthropicTalks("open")
  /\ view' = MessageStop(view)
  /\ state' = Raised("completed")
  /\ wire' = "finished"
  /\ UNCHANGED sending

\* AfterOutput is computed from the state that has just been overwritten.
AnthropicEnds ==
  /\ Reads("anthropic")
  /\ \/ Finish
     \/ \E how \in {"canceled", "failed"} : Mark(how, state' = "partial_output")

AnthropicNext == \/ AnthropicStart \/ AnthropicBlockStart \/ AnthropicBlockDelta
                 \/ AnthropicBlockStop \/ AnthropicStop \/ AnthropicEnds
================================================================================
