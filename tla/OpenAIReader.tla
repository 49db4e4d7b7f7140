----------------------------- MODULE OpenAIReader -----------------------------
(***************************************************************************)
(* The reader of the OpenAI adapter (pkg/providers/openai/stream.go): one  *)
(* text and any number of tool calls, whose pieces come interleaved under  *)
(* the provider's own numbers, become blocks with indices of this side.    *)
(***************************************************************************)
EXTENDS ReaderState

OpenAIAcc == [started |-> FALSE, textSeen |-> FALSE, textOpen |-> FALSE, textIndex |-> 0,
              callBlock |-> << >>, callOpen |-> {}, nextIndex |-> 0]

\* The first chunk, whatever it holds, starts the message.
OpenAIStarted == IF acc.started THEN view ELSE MessageStart(view)

OpenAITalks == Reads("openai") /\ wire = "open" /\ UNCHANGED <<adapter, ending>>

\* A chunk with a role, or with usage only, which some providers send behind the
\* finish chunk: nothing for the blocks.
OpenAIBare ==
  /\ Reads("openai")
  /\ acc' = [acc EXCEPT !.started = TRUE]
  /\ view' = OpenAIStarted
  /\ state' = Raised("provider_started")
  /\ UNCHANGED <<adapter, wire, sending, ending>>

OpenAIText ==
  /\ OpenAITalks
  /\ Sends(Of("text", 0))
  /\ IF acc.textSeen
       THEN /\ view' = BlockDelta(OpenAIStarted, acc.textIndex, pieces)
            /\ acc' = [acc EXCEPT !.started = TRUE]
       ELSE /\ view' = BlockDelta(BlockStart(OpenAIStarted, acc.nextIndex), acc.nextIndex, pieces)
            /\ acc' = [acc EXCEPT !.started = TRUE, !.textSeen = TRUE, !.textOpen = TRUE,
                                  !.textIndex = acc.nextIndex, !.nextIndex = @ + 1]
  /\ state' = Raised("partial_output")
  /\ UNCHANGED wire

Known(i) == i \in DOMAIN acc.callBlock

\* Mutant: the provider's number of the call is taken for the index of its block.
CallBlockOfProvider(i) == IF Known(i) THEN acc.callBlock[i] ELSE i

CallBlock(i) == IF Known(i) THEN acc.callBlock[i] ELSE acc.nextIndex

CallStarted(i) == IF Known(i) THEN OpenAIStarted ELSE BlockStart(OpenAIStarted, CallBlock(i))

\* Mutant: the next index moves on with every piece of a call.
CallNotedTwice(i) ==
  [acc EXCEPT !.started = TRUE,
              !.callBlock = [j \in DOMAIN @ \cup {i} |-> IF j = i THEN CallBlock(i) ELSE @[j]],
              !.callOpen = @ \cup {i},
              !.nextIndex = @ + 1]

CallNoted(i) ==
  IF Known(i) THEN [acc EXCEPT !.started = TRUE]
  ELSE [acc EXCEPT !.started = TRUE,
                   !.callBlock = [j \in DOMAIN @ \cup {i} |-> IF j = i THEN CallBlock(i) ELSE @[j]],
                   !.callOpen = @ \cup {i},
                   !.nextIndex = @ + 1]

\* Mutant: a call's name already counts as output.
CallNamedIsOutput(i) ==
  /\ OpenAITalks
  /\ Announces(Of("call", i))
  /\ view' = CallStarted(i)
  /\ acc' = CallNoted(i)
  /\ state' = Raised("partial_output")
  /\ UNCHANGED wire

\* An id and a name start the block.
CallNamed(i) ==
  /\ OpenAITalks
  /\ Announces(Of("call", i))
  /\ view' = CallStarted(i)
  /\ acc' = CallNoted(i)
  /\ state' = Raised("provider_started")
  /\ UNCHANGED wire

\* Arguments are its deltas, and start it if nothing else has.
CallArguments(i) ==
  /\ OpenAITalks
  /\ Sends(Of("call", i))
  /\ view' = BlockDelta(CallStarted(i), CallBlock(i), pieces)
  /\ acc' = CallNoted(i)
  /\ state' = Raised("partial_output")
  /\ UNCHANGED wire

\* Mutant: only the text is stopped at the end.
OpenBlocksOfText == IF acc.textOpen THEN {acc.textIndex} ELSE {}

OpenBlocks == (IF acc.textOpen THEN {acc.textIndex} ELSE {})
                \cup {acc.callBlock[i] : i \in acc.callOpen}

\* finish_reason stops what is open, in any order, and the message.
OpenAIFinish ==
  /\ OpenAITalks
  /\ view' = MessageStop(BlocksStop(OpenAIStarted, OpenBlocks))
  /\ acc' = [acc EXCEPT !.started = TRUE, !.textOpen = FALSE, !.callOpen = {}]
  /\ state' = Raised("completed")
  /\ wire' = "finished"
  /\ UNCHANGED sending

\* Mutant: the state is overwritten before it is asked whether there was output.
OpenAIEndsLate ==
  /\ Reads("openai")
  /\ \/ Finish
     \/ \E how \in {"canceled", "failed"} : Mark(how, state' = "partial_output")

OpenAIEnds ==
  /\ Reads("openai")
  /\ \/ Finish
     \/ \E how \in {"canceled", "failed"} : Mark(how, state = "partial_output")

OpenAINext == \/ OpenAIBare \/ OpenAIText \/ OpenAIFinish \/ OpenAIEnds
              \/ \E i \in Calls : CallNamed(i) \/ CallArguments(i)
==============================================================================
