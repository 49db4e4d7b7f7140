----------------------------- MODULE OllamaReader -----------------------------
(***************************************************************************)
(* The reader of the Ollama adapter (pkg/providers/ollama/stream.go): the  *)
(* content of all lines makes one text block, and the calls of the final   *)
(* line become whole blocks behind it.                                     *)
(***************************************************************************)
EXTENDS ReaderState

OllamaAcc == [started |-> FALSE, textOpen |-> FALSE, nextIndex |-> 0]

OllamaStarted == IF acc.started THEN view ELSE MessageStart(view)

OllamaTalks == Reads("ollama") /\ wire = "open" /\ UNCHANGED <<adapter, ending>>

\* A line without content.
OllamaBare ==
  /\ OllamaTalks
  /\ acc' = [acc EXCEPT !.started = TRUE]
  /\ view' = OllamaStarted
  /\ state' = Raised("provider_started")
  /\ UNCHANGED <<wire, sending>>

OllamaText ==
  /\ OllamaTalks
  /\ Sends(Of("text", 0))
  /\ IF acc.textOpen
       THEN /\ view' = BlockDelta(OllamaStarted, 0, pieces)
            /\ acc' = [acc EXCEPT !.started = TRUE]
       ELSE /\ view' = BlockDelta(BlockStart(OllamaStarted, 0), 0, pieces)
            /\ acc' = [started |-> TRUE, textOpen |-> TRUE, nextIndex |-> 1]
  /\ state' = Raised("partial_output")
  /\ UNCHANGED wire

\* n calls, each with its arguments in one piece.
SendsCalls(n) ==
  /\ pieces + n <= MaxPieces
  /\ sent' = [k \in DOMAIN sent \cup {Of("call", i) : i \in 0..(n - 1)} |->
                IF k \in DOMAIN sent THEN sent[k] ELSE <<pieces + k.at>>]
  /\ pieces' = pieces + n

\* Their blocks: started, filled and stopped one after the other.
CallBlocks(v, n) ==
  [v EXCEPT !.blocks = [j \in DOMAIN v.blocks \cup acc.nextIndex..(acc.nextIndex + n - 1) |->
     IF j >= acc.nextIndex THEN [open |-> FALSE, data |-> <<pieces + (j - acc.nextIndex)>>]
                           ELSE v.blocks[j]]]

\* done: the text stops, the calls follow, and the message stops.
OllamaDone ==
  /\ OllamaTalks
  /\ \E n \in 0..MaxCalls :
       /\ SendsCalls(n)
       /\ view' = MessageStop(CallBlocks(
                    BlocksStop(OllamaStarted, IF acc.textOpen THEN {0} ELSE {}), n))
       /\ acc' = [started |-> TRUE, textOpen |-> FALSE, nextIndex |-> acc.nextIndex + n]
  /\ state' = Raised("completed")
  /\ wire' = "finished"

OllamaEnds ==
  /\ Reads("ollama")
  /\ \/ Finish
     \/ \E how \in {"canceled", "failed"} : Mark(how, state = "partial_output")

OllamaNext == OllamaBare \/ OllamaText \/ OllamaDone \/ OllamaEnds
==============================================================================
