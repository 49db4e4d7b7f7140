----------------------------- MODULE ReaderState -----------------------------
(***************************************************************************)
(* What the three stream readers have in common (pkg/providers/*/stream.go):*)
(* the lifecycle state, the end and its error, and what is needed to talk  *)
(* about them: the provider's side of the wire and the message as the      *)
(* consumer accumulates it from the events.                                *)
(*                                                                         *)
(* A chunk, event or line is handled as the pieces it carries, in the      *)
(* code's order; StreamRelay has what lies between two of them.            *)
(***************************************************************************)
EXTENDS Integers, Sequences, FiniteSets

CONSTANTS MaxCalls,    \* bound of the model: tool calls, or Anthropic's blocks, of one turn
          MaxPieces    \* bound of the model: pieces of text or arguments sent

ASSUME BoundAssumption == MaxCalls \in Nat /\ MaxPieces \in Nat

\* The provider's numbers of its calls.
Calls == 0..(MaxCalls - 1)

VARIABLES
  adapter,       \* "openai", "anthropic" or "ollama"
  wire,          \* the provider's place in its protocol
  sent,          \* what the provider means -> the pieces it has sent of it
  pieces,        \* how many pieces were sent; a piece is its number
  acc,           \* the reader's bookkeeping, blockAcc
  view,          \* the message as the events tell it
  state,         \* chat.StreamState
  done,          \* no more of the wire is read
  err,           \* "none" (io.EOF), "canceled" or "failed"
  afterOutput    \* ProviderError.AfterOutput of the error

ending  == <<done, err, afterOutput>>
sending == <<sent, pieces>>
vars == <<adapter, wire, sent, pieces, acc, view, state, done, err, afterOutput>>

-------------------------------------------------------------------------------
(* The provider.  What a piece belongs to: the text, a tool call, or a block. *)

Of(kind, i) == [kind |-> kind, at |-> i]

SentOf(k) == IF k \in DOMAIN sent THEN sent[k] ELSE << >>

SentAs(k, s) == sent' = [x \in DOMAIN sent \cup {k} |-> IF x = k THEN s ELSE sent[x]]

\* A call or block that is named, with no piece of it yet.
Announces(k) == SentAs(k, SentOf(k)) /\ UNCHANGED pieces

Sends(k) == /\ pieces < MaxPieces
            /\ SentAs(k, Append(SentOf(k), pieces))
            /\ pieces' = pieces + 1

-------------------------------------------------------------------------------
(* The consumer, who accumulates deltas between the start and the stop at an index. *)
(* A message_delta, with a stop reason and usage, and a ping change no block.  Each  *)
(* operator is one kind of event.                                                   *)

NoMessage == [phase |-> "none", blocks |-> << >>]

MessageStart(v) == [phase |-> "message", blocks |-> << >>]

BlockStart(v, i) ==
  [v EXCEPT !.blocks = [j \in DOMAIN v.blocks \cup {i} |->
                          IF j = i THEN [open |-> TRUE, data |-> << >>] ELSE v.blocks[j]]]

BlockDelta(v, i, piece) ==
  [v EXCEPT !.blocks = [j \in DOMAIN v.blocks |->
                          IF j = i THEN [v.blocks[j] EXCEPT !.data = Append(@, piece)]
                                   ELSE v.blocks[j]]]

BlocksStop(v, S) ==
  [v EXCEPT !.blocks = [j \in DOMAIN v.blocks |->
                          IF j \in S THEN [v.blocks[j] EXCEPT !.open = FALSE]
                                     ELSE v.blocks[j]]]

MessageStop(v) == [v EXCEPT !.phase = "stopped"]

-------------------------------------------------------------------------------
(* The lifecycle. *)

Rank == [opened |-> 1, provider_started |-> 2, partial_output |-> 3, completed |-> 4]

\* setState only moves forward.
Raised(st) == IF Rank[st] > Rank[state] THEN st ELSE state

Reads(a) == adapter = a /\ ~done

\* io.EOF or [DONE]: whatever the state was, the turn is now completed.
Finish == /\ done' = TRUE
          /\ err' = "none"
          /\ state' = "completed"
          /\ UNCHANGED <<adapter, wire, sending, acc, view, afterOutput>>

\* markCanceled and markFailed, for which state and error have the same names.
Mark(how, output) == /\ done' = TRUE
                     /\ err' = how
                     /\ state' = how
                     /\ afterOutput' = output
                     /\ UNCHANGED <<adapter, wire, sending, acc, view>>
==============================================================================
