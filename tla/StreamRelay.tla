------------------------------ MODULE StreamRelay ------------------------------
(***************************************************************************)
(* One streaming chat turn after its handshake: the provider's connection, *)
(* the reader that the three adapters build on it (Next, Close and the     *)
(* mark functions have the same control in all of them), the goroutine     *)
(* pumpEvents, the bounded channel, the StreamHandler's select loop and    *)
(* the client (pkg/httpapi/stream.go, pkg/providers/*/stream.go).          *)
(*                                                                         *)
(* Events are numbered in the order in which the reader queues them; what  *)
(* they say is left to the readers' own modules.  The reader is used by    *)
(* two goroutines: the pump calls Next, the handler calls Close.           *)
(***************************************************************************)
EXTENDS Naturals, Sequences

CONSTANTS ChanCap,     \* capacity of the channel between pump and handler, 8 in the code
          MaxEvents,   \* bound of the model: events that the provider's stream comes to
          MaxBatch,    \* bound of the model: events that one read of the wire is turned into
          Pings        \* does the keep-alive ticker (every 15 s) fire during the turn?

ASSUME ChanAssumption  == ChanCap \in Nat \ {0}
ASSUME BoundAssumption == MaxEvents \in Nat /\ MaxBatch \in Nat \ {0}
ASSUME PingsAssumption == Pings \in BOOLEAN

VARIABLES
  flushes,    \* does the ResponseWriter implement Flush?  Not behind withRequestLogging
  client,     \* "connected" or "gone"
  ctx,        \* the request's context: "live" or "canceled"
  wire,       \* what the provider's stream is coming to: "open", "ended" or "broken"
  body,       \* resp.Body: "open" or "closed"
  produced,   \* how many events the reader has made of the wire
  queue,      \* streamReader.queue
  done,       \* streamReader.done
  err,        \* streamReader.err: "none", "canceled" or "failed"
  pump,       \* where pumpEvents is: "next", "read", "send" or "exited"
  held,       \* what the pump is sending
  events,     \* the channel's buffer
  closed,     \* is the channel closed?
  handler,    \* "select", "closing" or "returned"
  written     \* the frames written to the response

readerVars  == <<produced, queue, done, err>>
pumpVars    == <<pump, held>>
channelVars == <<events, closed>>
outside     == <<flushes, client, wire>>
vars == <<flushes, client, ctx, wire, body, produced, queue, done, err,
          pump, held, events, closed, handler, written>>

\* The item of a terminal error, on the channel and as the frame made of it.
Failure == 0

\* n consecutive events, after the first k.
Events(k, n) == [i \in 1..n |-> k + i]

-------------------------------------------------------------------------------
(* The reader, in the pump's goroutine. *)

\* markCanceled and markFailed; the first outcome stays.
Mark(how) == done' = TRUE /\ err' = how

\* Mutant: the newest event is handed out first.
NextQueuedNewest ==
  /\ pump = "next"
  /\ queue # << >>
  /\ held' = queue[Len(queue)]
  /\ queue' = SubSeq(queue, 1, Len(queue) - 1)
  /\ pump' = "send"
  /\ UNCHANGED <<outside, ctx, body, produced, done, err, channelVars, handler, written>>

\* Next hands out what is queued before anything else, also after the end.
NextQueued ==
  /\ pump = "next"
  /\ queue # << >>
  /\ held' = Head(queue)
  /\ queue' = Tail(queue)
  /\ pump' = "send"
  /\ UNCHANGED <<outside, ctx, body, produced, done, err, channelVars, handler, written>>

\* Mutant: the channel is not closed at the end.
NextDoneWithoutClose ==
  /\ pump = "next"
  /\ queue = << >>
  /\ done
  /\ IF err = "failed" THEN held' = Failure /\ pump' = "send"
                       ELSE pump' = "exited" /\ UNCHANGED held
  /\ UNCHANGED <<outside, ctx, body, readerVars, channelVars, handler, written>>

\* io.EOF, and a cancelation, end the pump without a word; an error is sent on.
NextDone ==
  /\ pump = "next"
  /\ queue = << >>
  /\ done
  /\ IF err = "failed"
       THEN /\ held' = Failure
            /\ pump' = "send"
            /\ UNCHANGED closed
       ELSE /\ pump' = "exited"
            /\ closed' = TRUE
            /\ UNCHANGED held
  /\ UNCHANGED <<outside, ctx, body, readerVars, events, handler, written>>

\* Mutant: a canceled context is noticed but not remembered.
NextSpinsOnCancel ==
  /\ pump = "next"
  /\ queue = << >>
  /\ ~done
  /\ pump' = IF ctx = "canceled" THEN "next" ELSE "read"
  /\ UNCHANGED <<outside, ctx, body, readerVars, held, channelVars, handler, written>>

\* The context is looked at before the network is.
NextChecksContext ==
  /\ pump = "next"
  /\ queue = << >>
  /\ ~done
  /\ IF ctx = "canceled" THEN Mark("canceled") /\ UNCHANGED pump
                         ELSE pump' = "read" /\ UNCHANGED <<done, err>>
  /\ UNCHANGED <<outside, ctx, body, produced, queue, held, channelVars, handler, written>>

\* A chunk of the wire becomes some events, or none.  What was buffered is still read after
\* the context or the body is gone.
ReadChunk ==
  /\ pump = "read"
  /\ wire = "open"
  /\ \E n \in 0..MaxBatch :
       /\ produced + n <= MaxEvents
       /\ queue' = queue \o Events(produced, n)
       /\ produced' = produced + n
  /\ pump' = "next"
  /\ UNCHANGED <<outside, ctx, body, done, err, held, channelVars, handler, written>>

\* The end of the stream: [DONE], or the end of the body.
ReadEnd ==
  /\ pump = "read"
  /\ wire = "ended"
  /\ Mark("none")
  /\ pump' = "next"
  /\ UNCHANGED <<outside, ctx, body, produced, queue, held, channelVars, handler, written>>

\* Mutant: every failed read is the provider's fault.
ReadErrorAlwaysFailed ==
  /\ pump = "read"
  /\ wire = "broken" \/ body = "closed" \/ ctx = "canceled"
  /\ Mark("failed")
  /\ pump' = "next"
  /\ UNCHANGED <<outside, ctx, body, produced, queue, held, channelVars, handler, written>>

\* The read fails, and the context tells whether that is the client's doing; or what
\* was read cannot be decoded or is an error, and the context is not asked.
ReadError ==
  /\ pump = "read"
  /\ \/ /\ wire = "broken" \/ body = "closed" \/ ctx = "canceled"
        /\ Mark(IF ctx = "canceled" THEN "canceled" ELSE "failed")
     \/ wire = "broken" /\ Mark("failed")
  /\ pump' = "next"
  /\ UNCHANGED <<outside, ctx, body, produced, queue, held, channelVars, handler, written>>

-------------------------------------------------------------------------------
(* The channel. *)

\* Mutant: a channel without a bound.
PumpSendsUnbounded ==
  /\ pump = "send"
  /\ events' = Append(events, held)
  /\ IF held = Failure THEN pump' = "exited" /\ closed' = TRUE
                       ELSE pump' = "next" /\ UNCHANGED closed
  /\ UNCHANGED <<outside, ctx, body, readerVars, held, handler, written>>

\* ch <- out blocks while the buffer is full; after an error the pump is done.
PumpSends ==
  /\ pump = "send"
  /\ Len(events) < ChanCap
  /\ events' = Append(events, held)
  /\ IF held = Failure THEN pump' = "exited" /\ closed' = TRUE
                       ELSE pump' = "next" /\ UNCHANGED closed
  /\ UNCHANGED <<outside, ctx, body, readerVars, held, handler, written>>

-------------------------------------------------------------------------------
(* The handler: one iteration of its select loop is one step.  It leaves the loop *)
(* for the deferred reader.Close().                                               *)

Stay  == UNCHANGED handler
Leave == handler' = "closing"

SelectContext ==
  /\ handler = "select"
  /\ ctx = "canceled"
  /\ Leave
  /\ UNCHANGED <<outside, ctx, body, readerVars, pumpVars, channelVars, written>>

\* A keep-alive that cannot be written or flushed; one that can changes nothing here.
SelectPing ==
  /\ Pings
  /\ handler = "select"
  /\ client = "gone" \/ ~flushes
  /\ Leave
  /\ UNCHANGED <<outside, ctx, body, readerVars, pumpVars, channelVars, written>>

\* Mutant: the error of a write is ignored.
SelectEventIgnoringErrors ==
  /\ handler = "select"
  /\ events # << >>
  /\ Head(events) # Failure
  /\ events' = Tail(events)
  /\ \/ written' = Append(written, Head(events))
     \/ client = "gone" /\ UNCHANGED written
  /\ UNCHANGED <<outside, ctx, body, readerVars, pumpVars, closed, handler>>

\* writeSSEEvent: a write to a client that left fails sooner or later, and a flush
\* that is not supported fails after the write.
SelectEvent ==
  /\ handler = "select"
  /\ events # << >>
  /\ Head(events) # Failure
  /\ events' = Tail(events)
  /\ \/ /\ written' = Append(written, Head(events))
        /\ IF flushes THEN Stay ELSE Leave
     \/ /\ client = "gone"
        /\ UNCHANGED written
        /\ Leave
  /\ UNCHANGED <<outside, ctx, body, readerVars, pumpVars, closed>>

\* writeSSEError, whose own failures are ignored.
SelectError ==
  /\ handler = "select"
  /\ events # << >>
  /\ Head(events) = Failure
  /\ events' = Tail(events)
  /\ \/ written' = Append(written, Failure)
     \/ client = "gone" /\ UNCHANGED written
  /\ Leave
  /\ UNCHANGED <<outside, ctx, body, readerVars, pumpVars, closed>>

\* Mutant: a closed channel ends the loop with items in its buffer.
SelectClosedAtOnce ==
  /\ handler = "select"
  /\ closed
  /\ Leave
  /\ UNCHANGED <<outside, ctx, body, readerVars, pumpVars, channelVars, written>>

SelectClosed ==
  /\ handler = "select"
  /\ events = << >>
  /\ closed
  /\ Leave
  /\ UNCHANGED <<outside, ctx, body, readerVars, pumpVars, channelVars, written>>

CloseReader ==
  /\ handler = "closing"
  /\ body' = "closed"
  /\ handler' = "returned"
  /\ UNCHANGED <<outside, ctx, readerVars, pumpVars, channelVars, written>>

-------------------------------------------------------------------------------
(* Around the handler: net/http, the client and the provider. *)

\* net/http cancels the request's context when the client is seen to be gone and
\* when the handler has returned.
CancelContext ==
  /\ ctx = "live"
  /\ client = "gone" \/ handler = "returned"
  /\ ctx' = "canceled"
  /\ UNCHANGED <<outside, body, readerVars, pumpVars, channelVars, handler, written>>

ClientLeaves ==
  /\ client = "connected"
  /\ client' = "gone"
  /\ UNCHANGED <<flushes, wire, ctx, body, readerVars, pumpVars, channelVars, handler, written>>

\* The provider has sent its last chunk: the stream ends there, or breaks.
WireStops ==
  /\ wire = "open"
  /\ wire' \in {"ended", "broken"}
  /\ UNCHANGED <<flushes, client, ctx, body, readerVars, pumpVars, channelVars, handler, written>>

-------------------------------------------------------------------------------
Init ==
  /\ flushes \in BOOLEAN
  /\ client = "connected"
  /\ ctx = "live"
  /\ wire = "open"
  /\ body = "open"
  /\ produced = 0
  /\ queue = << >>
  /\ done = FALSE
  /\ err = "none"
  /\ pump = "next"
  /\ held = Failure
  /\ events = << >>
  /\ closed = FALSE
  /\ handler = "select"
  /\ written = << >>

\* What the pump's goroutine does by itself, a read of a live, silent wire apart.
PumpRuns == NextQueued \/ NextDone \/ NextChecksContext \/ ReadEnd \/ ReadError \/ PumpSends

\* What the handler's goroutine does by itself; when the ticker fires is up to it.
HandlerRuns == SelectContext \/ SelectEvent \/ SelectError \/ SelectClosed \/ CloseReader

Next == \/ PumpRuns \/ ReadChunk
        \/ HandlerRuns \/ SelectPing
        \/ CancelContext \/ ClientLeaves \/ WireStops

\* The Go scheduler runs every goroutine that can run, and net/http cancels the
\* context.  Nobody promises that the provider goes on, or that the client leaves.
Fairness == WF_vars(PumpRuns) /\ WF_vars(HandlerRuns) /\ WF_vars(CancelContext)

Spec == Init /\ [][Next]_vars /\ Fairness

-------------------------------------------------------------------------------
(* Properties. *)

Item == 0..MaxEvents

TypeOK ==
  /\ flushes \in BOOLEAN
  /\ client \in {"connected", "gone"}
  /\ ctx \in {"live", "canceled"}
  /\ wire \in {"open", "ended", "broken"}
  /\ body \in {"open", "closed"}
  /\ produced \in 0..MaxEvents
  /\ queue \in Seq(1..MaxEvents)
  /\ done \in BOOLEAN
  /\ err \in {"none", "canceled", "failed"}
  /\ pump \in {"next", "read", "send", "exited"}
  /\ held \in Item
  /\ events \in Seq(Item) /\ Len(events) <= ChanCap
  /\ closed \in BOOLEAN
  /\ handler \in {"select", "closing", "returned"}
  /\ written \in Seq(Item)

\* What is on its way from the wire to the client, the oldest first.
InHand   == IF pump = "send" THEN <<held>> ELSE << >>
InFlight == written \o events \o InHand \o queue

\* No event is lost, doubled or overtaken between the provider and a handler that is
\* still in its loop, and a failure comes behind all of them.
RelayedInOrder ==
  handler = "select" =>
    InFlight \in {Events(0, produced), Append(Events(0, produced), Failure)}

\* The client sees a prefix of the provider's events, whatever went wrong.
ClientSeesPrefix ==
  \E n \in 0..produced :
    written \in {Events(0, n), Append(Events(0, n), Failure)}

\* An error frame is about the provider and comes when all events are out: neither a
\* client that leaves nor the handler's own Close is reported as one.
ErrorFrameIsTheProviders ==
  \A i \in 1..Len(written) :
    written[i] = Failure => wire = "broken" /\ i = Len(written) /\ i = produced + 1

\* A handler whose writer can flush, and whose client stayed, stops only when the
\* client has been sent everything, the provider's failure included.
Complete == /\ wire # "open"
            /\ written = IF err = "failed" THEN Append(Events(0, produced), Failure)
                                           ELSE Events(0, produced)

StaysToTheEnd ==
  flushes /\ client = "connected" /\ handler # "select" => Complete

\* The handler returns when the client leaves or the provider's stream stops.
HandlerReturns == client = "gone" \/ wire # "open" ~> handler = "returned"

\* When the handler has returned, the pump ends too, unless it is left with an item
\* for which the channel has no room.
Stranded == pump = "send" /\ Len(events) = ChanCap /\ handler = "returned"

PumpEndsUnlessStranded == handler = "returned" ~> pump = "exited" \/ Stranded

\* What stream.go:92-93 says of the pump: it closes the channel at the end of the
\* stream, which the end of the request's context makes for the reader.
ChannelCloses == wire = "ended" \/ ctx = "canceled" ~> closed

\* What stream.go:18-20 says of the handler: writing stops when the client
\* disconnects or the stream ends.
StopsOnlyAtTheEnd == handler # "select" /\ client = "connected" => Complete
================================================================================
