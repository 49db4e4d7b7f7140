# Verification of the chat harness

TLA+ models of `chat-harness-skel`, the TLC runs that check them and the proofs that
TLAPS checks. The models are translated from the Go sources under `src/`; every module
names the functions it stands for, and `PROJECT.json` (`map`) gives the lines.

## The system

`cmd/chat-harness` serves an HTTP API. A chat request goes through the *harness*
(`pkg/chat`), which validates it, loads the session it names, asks the *router* for a
list of candidate models, tries them one by one through *provider adapters*
(`pkg/providers`), and appends the turn to the session. A streamed request stops after
the handshake with a provider: the reader it gets is relayed to the client as
server-sent events by `pkg/httpapi/stream.go`.

| component | state | operations | what makes it correct |
|---|---|---|---|
| session store, `session/memory.go` | `byID`: id -> version, messages; one mutex | Get, Save, AppendConditional, Delete, List | an acknowledged append stays; a version identifies a state; the cap |
| binder, `session/binder.go` | none | Load (missing = empty), Append (missing = Save) | the same across its two calls of the store |
| session handlers, `httpapi/sessions.go` | none | create, get, list, append, delete | an edit at a version extends what was seen at that version |
| harness, `chat/harness.go` Send, Stream | per request: version and history read before the provider is called | load, call, append | the reply that is stored answers the history that is stored |
| fallback executor, `chat/harness.go` | per request: loop counter, bound, rest of the list | one iteration per candidate | order, cap, no forbidden retry, no usable candidate left out, termination |
| stream reader, `providers/*/stream.go` | queue, done, error, lifecycle state; a mutex | Next (one goroutine), Close and State (another) | events in order, the end or error behind them |
| relay, `httpapi/stream.go` | a channel of 8, the pump goroutine, the handler | pump, select loop | the client sees a prefix, everything if it stays; both goroutines end |
| router, `router/` | policies, constant | Pick: filter by the request's needs | a picked model can take what it is sent, history included |
| validation, `chat/validate.go` | none | Validate | no invalid conversation is sent; only invalid turns are refused |
| conversions, `providers/*/convert.go` | none | build the wire request; convert the answer | nothing said is lost or reordered; a stored reply can be sent again |
| adapters, `providers/*/provider.go` | none | Send, Stream's handshake | failures get the kind that the executor decides by; every exchange ends |
| error answers, `httpapi/httpapi.go` | none | writeError | a failed turn is answered as one |
| configuration, `core/` | constant after start | Load, Validate, Build | defaults; known kinds and providers |
| middleware, `cmd/chat-harness` | none | auth, CORS, logging | handlers can still do what they need (flush) |

Hard to test are: requests that interleave on a session between the calls of the store
(`SessionTurns`); a version used seconds after it was read (`SessionTurns`); the loop
that rewrites its own list and bound (`Fallback`); the two goroutines, the bounded
channel and four ways to end of the relay (`StreamRelay`); what several turns, adapters
and failures of an exchange do to one conversation (`ChatTurns`). Nothing is persisted, so a
crash ends every request and every session and there is no recovery to model.
`PROJECT.json` lists the hazards one by one.

## The modules

**`ConversationLog`** is what the session layer promises, without versions: a
conversation is a log; a request looks at it and later extends it at most once; while
the conversation was neither replaced nor removed in between (either starts a new
*era*), what it extends is what it looked at.

**`SessionTurns`** is the layer itself. Each call of `MemoryStore` is one step, because
each runs under the store's mutex; everything between two calls interleaves. One
element of `Requests` is one client request: a turn (`Harness.Send`), a streamed turn,
an edit (GET, then POST messages at that version), a create or a delete. `pc[r]` is the
call that `r` makes next. `LoadTurn`, `ProviderReplies`, `ProviderFails` are Send and
Stream; `BinderGet`, `BinderSave` the two calls of a first append;
`AppendAccepted`/`AppendRefused` are `AppendConditional`; the others are the handlers.
A message is `<<r, i>>`, so where a message came from can be read off the store. The
system prompt, metadata, timestamps and the content of messages are left out: nothing
in the code decides by them here. `writes`, `era`, `seen` and `wrote` are history
variables that no guard reads.

**`Fallback`** is the executor, for Send (`runSendFallback`) and for Stream's handshake
loop. A candidate is a position of the router's list; the list that the code slices and
rewrites is the set `left`, taken lowest first, and `budget` is `max - i`. The outcome of
each attempt is arbitrary: a reply, a failure of any kind before or after output, or an
error that is no `ProviderError`. `FailedContexts` has two members when two catalog
entries share a model name (`Namesakes`), because `Catalog.List` ranges over a map.

**`StreamRelay`** is a streamed turn behind its handshake: the wire, the reader's `Next`
and `Close`, `pumpEvents`, the channel, the select loop, the client and net/http's
cancelation of the request's context. The three adapters have the same `Next`, `Close`
and mark functions; `map` spreads their lines over the definitions. Events are numbers.
`Pings` says whether the keep-alive ticker, every 15 seconds, fires during the turn.
The actions of net/http, of the client and of the provider are external. A write that
blocks (a client that keeps the connection and reads nothing) is not modelled, nor is
the marshalling error that `writeSSEEvent` could return: events hold nothing that JSON
cannot express.

**`StreamReaders`** is what the adapters make of the wire: `OpenAIReader` (`processChunk`),
`AnthropicReader` (`processEvent`) and `OllamaReader` (`processLine`), one per behaviour,
over the state of `ReaderState`. A provider sends pieces of a text and of tool calls, or
of blocks of its own; a piece is a number, and `sent` remembers what it belonged to.
`view` is the message as a consumer accumulates it from the events, in the way that
`chat/stream.go` describes. A chunk that carries several things is handled as so many
steps, in the code's order, so that every interleaving of text and calls occurs. The end
(EOF, `[DONE]`, a canceled context, a failure to read or decode, an error chunk) may come
at any point. Providers keep their protocols: Anthropic numbers its blocks as it opens
them, one at a time; nothing but usage follows a finish. Names, ids, stop reasons and
usage are left out, so a `message_delta` and a ping are no events here.

**`BlockStream`** is the contract that all three keep: indices 0, 1, ...; each block opens
once, only grows while it is open, and has stopped when the message stops; one end.

**`ChatTurns`** composes the rest: a conversation in one session, turn after turn, from
the handler to the provider and back. A turn is checked (`Refuse`), merged with the
history (`Merged`), routed (`Picked`) and executed; the loop is the one of `Fallback`, by
`F == INSTANCE Fallback`, whose outcomes are no longer arbitrary: an attempt is refused
by its adapter (`NotSent`), or is an exchange in three steps. `Send` writes the request
(phase "head"), `HeadersArrive` brings the status (phase "body", or the end of a stream's
handshake), and the body is read (`AnswerRead`, `ErrorRead`, `Undecodable`). In between
the connection may be lost (`HeadLost`, `BodyLost`), the attempt's deadline may pass
(`Deadline`), the client may leave (`ClientLeaves`), and another client may append to the
session (`Edit`). What is stored, what the wire carries and what the client is told all
come from the same definitions, so a property can compare them over several turns. It
uses three modules without variables:

* **`Messages`**: blocks, messages, requests and `Validate`. A text is a sequence of words
  that have lengths; an image is what fields it has; a tool call's input is what kind of
  JSON it holds. A call's id is `<<n, i>>`, so the ids of a provider are new, and the ids
  that the Ollama adapter makes up (`ollama_call_0`, ...) are `<<0, i>>` and are not.
  `Filtered` is SelectSeq and `Total` a sum, by definitions that the prover can expand.
* **`Conversions`**: for each adapter which messages it takes, the wire messages it builds
  and the message it makes of an answer. `AnswerBlock` is what a provider may answer with: no
  result (the Anthropic adapter would not understand one), and no image without its data.
* **`Routing`**: the catalog, the fingerprint, the policies and `PickCandidates`.

The client is external. It sends the requests of `Asks`, and when the last stored message
holds tool calls it may answer them, with or without the calls. `stray` remembers that
somebody appended something else: appended messages are not validated by the code.
Several turns at once are the subject of `SessionTurns`, so `ChatTurns` has one at a time
and others only append; the store's cap is left out for the same reason.

`SessionTurns_proofs`, `Fallback_proofs`, `StreamRelay_proofs`, `StreamReaders_proofs`,
`ChatTurns_proofs` and `ChatFallback_proofs` hold the theorems, `Messages_proofs` and `Conversions_proofs` the lemmas
about the operators that conversations are built with. `MCSessionTurns`, `MCFallback` and
`MCChatTurns` are the instances for TLC; the others need none. Operators marked as
*mutants* are plausible bugs of the definition behind them. Each property is known to be
violated when its mutant takes that definition's place.

## The runs

| run | instance | shows |
|---|---|---|
| `sessions` | 4 requests of any kind, 1 id, cap 2, batches up to 3 | the six invariants, and that `SessionTurns` implements `ConversationLog` |
| `first_turns_race` | the same | `NoSilentLoss` is violated |
| `fallback` | all lists of up to 3 of 5 references, two of 4; caps -1..3; all sets of 3 kinds | nine invariants and termination |
| `attempt_cap` | the same | `AttemptsWithinCap` is violated |
| `relay` | capacity 8 as in the code, 13 events, up to 3 per read | order, completeness, error frames, and who ends |
| `relay_stops_early` | capacity 2, 6 events, no keep-alives | `StopsOnlyAtTheEnd` is violated behind a writer that cannot flush |
| `relay_leak` | capacity 2, 6 events | `ChannelCloses` is violated |
| `readers` | 2 calls or blocks, 5 pieces, each adapter | nothing lost or mixed, the lifecycle state, and that `StreamReaders` implements `BlockStream` |
| `readers_after_output` | 2 calls or blocks, 2 pieces | `AfterOutputIfEmitted` is violated by the Anthropic reader |
| `conversation` | 3 turns and an append, a model of each adapter, 6 requests, 4 answers | what is sent tells what was said, results have their calls, models can take it, replies can be sent again |
| `exchange` | 2 turns by Send or Stream, 5 candidates, 12 statuses, 3 sets of kinds, 3 caps | leaving clients, deadlines, error answers, no empty replies, and that every turn moves on and ends |
| `refusal` | like `conversation`, 2 turns | `RefusedOnlyIfInvalid` is violated |

*Bounds.* Sessions with different ids share nothing but the mutex, so one id is enough.
Four requests allow a read, two competing writes and a replacement between the read and
the append, which is the longest story that the code's guards can tell apart (missing,
stale, over the cap); the proofs hold for any number. Cap 2 and batches of up to 3 give
sessions below, at and above the cap. Requests are interchangeable, which makes the
symmetry sound; the refinement checked with it is a safety property. The references of
`MCFallback` are a small model, a large one, a second small-named large one, one the
catalog does not know and one that is not registered: each branch of the filter and of
the loop is taken. In `relay`, `8 < 13 - 3`, so the channel fills while the reader still
has events queued; the violations need less and have smaller instances. In `readers`, two
calls and a text are three blocks, which can open in any order, and five pieces let two
of them take turns: the code treats a third call like the second.

`MCChatTurns` has one model per adapter with a catalog entry each: one without parallel
calls, one without vision and with room for two long texts, one without limits; further
one model that the catalog does not know and one whose provider is not registered. The
requests of `conversation` carry every kind of block, a result before its call, parallel
calls with results in the other order, images in both forms and a system message; the
answers have calls with each kind of input, thinking and a block that is not understood.
Three turns are what it takes to answer a call with one provider, send that with another
and go on. The statuses of `exchange` are one of each branch of the two classifications and
of the executor's reactions; the kinds that allow a further attempt are none, those of the
example configuration, and those with `Canceled`, `ToolsUnsupported` and `Unknown`. Both
runs bound turns (`MaxTurns`), appends (`MaxEdits`) and whether clients leave (`MayLeave`).

*Deadlock* is not checked: every model describes requests that end.

*Fairness.* `SessionTurns` has none and no liveness property: a provider may never
answer. `Fallback` assumes that a provider call returns (`WF_vars(Next)`), which the
client's context and the per-attempt timeout bring about. The readers have none: a provider
may fall silent. `ChatTurns` assumes that the harness takes its next step
(`WF_vars(Executor)`) and that an exchange does not outlast the timeout of the http.Client
(`WF_vars(HTTPTimeout)`): all three adapters make their client with two minutes, which
cover the reading of the body, and the service never passes another one. It assumes
nothing of providers, clients or the attempt's deadline. `StreamRelay` assumes that
the Go scheduler runs a goroutine that can run (`PumpRuns`, `HandlerRuns`) and that
net/http cancels the context. It does not assume that the provider sends anything, that
the client ever leaves, or that the ticker fires. The select statement picks any ready
case; weak fairness of the whole loop is enough, as the channel is finite and a closed
or canceled one stays so.

## What is proved

TLAPS proves, for every set of ids, requests, references and kinds, every list, cap and
bound, from the named assumptions only (positive cap and batch bound; catalog and
registry over the references; kinds that are not the model's own labels; requests, edits
and answers of the types that the decoders give them):

* `SessionTurns_proofs`: type correctness, the five invariants of the run `sessions`, and
  `Refinement`: `SessionTurns` implements `ConversationLog`.
* `Fallback_proofs`: type correctness and all eight other invariants of `fallback`.
* `StreamRelay_proofs`: type correctness and all four other invariants of `relay`, for
  every capacity of the channel and every length of the stream, with keep-alives or not.
* `StreamReaders_proofs`: type correctness and the three other invariants of `readers`, and
  `Refinement`: each of the three readers implements `BlockStream`, for any numbers of
  calls, blocks and pieces.
* `ChatTurns_proofs`: type correctness and seven other invariants of `conversation` and
  `exchange`, for every catalog, policy, set of providers, request of a client, answer of a
  provider and number of turns.
* `ChatFallback_proofs`: the executor of a conversation keeps all that `Fallback_proofs`
  proves of it (`TurnsKeepThePolicy`); with that, the last invariant of `exchange`
  (`EmptyReplyOnlyForNegativeCap`) and its action property (`TurnMovesOn`).

The invariants are not inductive. `AcknowledgedKept` says where a batch is, but not why
a version that matches is enough. `SessionTurns_proofs!IInv` adds: versions count the
writes of the era (`VersionCountsWrites`), nothing is marked as stored before it is
(`WroteBounds`), a batch of the current era is where it was put (`InPlace`), and what a
request read *is* the session for as long as nobody wrote (`ReadBasis`). From the last
one and the version check it follows that an accepted append extends what was read,
which is the step of the refinement; a create or delete moves the era on and makes the
claims about it void. `Fallback_proofs!IInv` adds to the properties that what is left
after an overflow is larger than what failed (`LeftIsLarger`) and how the counter
relates to the cap and to the length of the log (`Counting`); `AttemptStep` is the one
lemma that every kind of iteration is an instance of. The current candidate exists
because a nonempty set of naturals has a least member (`LeastProperties`). That nothing
is given up too early needs a second invariant on top, `AInv`: while the loop runs, every
candidate is still ahead, was tried, or has a context too small after an overflow, and
the counter runs out together with what is ahead, or as far apart from it as the cap is
from the length of the list (`Accounts`).
`StreamRelay_proofs!IInv` counts places instead of comparing sequences: `Line` says that
the k-th item from the client's end, be it written, in the channel, in the pump's hands
or in the reader's queue, is event k, or the failure if k is one past the last event;
`Written` keeps that for the frames after the handler has left, when items may be
dropped; `Control` ties the pump's place to the reader's outcome, the context and the
body, so that a failure on the channel is known to be the provider's. Each action has a
lemma that moves one item one place (`LineQueued`, `LineSent`, `LineReceived`) or adds
items at the far end (`LineRead`, `LineDone`).

`StreamReaders_proofs!IInv` has a part per reader that accounts for every block of the
consumer's view by the reader's own tables: the OpenAI reader's `callBlock` and its text
index are distinct positions below `nextIndex` that cover all of them (`OpenAIInv`), the
Anthropic reader's open block is the last one (`AnthropicInv`), the Ollama reader's one text
block is the first (`OllamaInv`). `StateInv` ties the lifecycle state to what has been
emitted. The refinement then needs one more observation per step: blocks hold exactly what
was sent (`Corresponds`), what was sent only grows, and a stopped block gets nothing more;
with these, whatever a step does to the view is one of the abstract moves.

`ChatTurns` has four inductive invariants. `TypeInv` adds to the types that a reply comes
from a registered provider; its hard part is that whatever an adapter makes of an answer is
a message (`ReplyProperties`), also where calls are picked out and numbered anew. `EndInv`
follows the status of an error from where it arises to where it is written (`Telling`): an
accepting status gets into an error only by the body of a Send that was not read. It also
says that an attempt begun after the client left has ended the loop, unless Canceled is
listed. `Conversation` is about the data: what is sent is the history and the turn
(`TurnFollows`), also when others have appended since; results have their calls in the
session as well as in what is sent; and one adapter takes back every message of a session
that it alone answered (`SessionFollows`). It is inductive because validity composes: two
lists that pass the cross-message check pass it one behind the other (`ResultsFollowAfter`),
a reply holds no result, results that a client appends answer calls of the last message
(`ResultsFollowBeforeAnswers`), and a refused, conflicting or failed turn stores nothing.
`ResultsHaveTheirCalls` then rests on `WireFollows`, which follows a result and its call
through each adapter: through the filter of the system messages, the split of one message
into one per result, and the text put in front of the calls. These are proved with
`FlattenLayout` and `FilterPicks`, which say at which place of a flattened or filtered
sequence an element is; they are proved by induction over the length, on sets of numbers
(`CountingUp`), because the library's induction theorems cannot be instantiated here.

`NothingIsLostOnTheWire` is about all that is said, not about one result. What the property
compares is taken from the blocks one by one: a *feature* makes of each block a short
sequence, such as the text it holds, its name if it is a call, or nothing (`TextFeature`,
`CallFeature`, `ResultFeature`, `ImageFeature`), and what is heard of a conversation is a
feature mapped over its blocks and flattened (`FlatMap`, `HeardFeatures`). For a feature
that tells no two forms of a picture or of a call's input apart (`Feature`), each adapter
leaves that sequence as it is. `FlatMap` commutes with concatenation, flattening and
filtering (`FlatMapConcat`, `FlatMapFlatten`, `FlatMapFiltered`), so one message at a time
suffices (`OneByOne`), and one kind of message after the other (`OpenAIMessagesHeard`,
`OllamaMessagesHeard`, `AnthropicWireHeard`). Where an adapter sends the joined text first
and the rest behind it, that holds because texts say nothing to the other features, and
the rest says no text (`TextThenTheRest`).

`PickedModelsServe` ties the router's view of a request, which is taken from the
conversation, to what is on the wire. The fourth invariant, `Routed`, says that the
candidates of a running loop are those that the router picks for the request that is sent
(and not for what the client sent), and that the loop's counter stays within what is left
of them, so that there is a current candidate and it is one of them (`LoopHasCandidate`); it
needs `TypeInv` and `EndInv`. A candidate that was picked and is catalogued satisfies the
fingerprint (`PickedSatisfies`), and then all that `Allowed` asks follows
(`SatisfyingIsAllowed`): images are on the wire only if the conversation has some, as a
feature; no message on the wire has more calls than one message of the conversation
(`WireWithinOne`), whatever the adapter splits or joins; and the texts on the wire are
those of the conversation outside of its prompts, whose length `Quarters` and
`TotalOfQuarters` bound by four times the estimate and the three characters per block
that a division by 4 may lose (`EstimateBounds`). Sums are proved about by induction over
the length (`TotalSums`, `TotalConcat`, `TotalMonotonic`); that the length of texts laid one
behind the other is the sum of their lengths is `CharsFlatten`.

`ChatFallback_proofs` carries the theorems about `Fallback` over to conversations. `Loop` is
`Fallback_proofs` for the references, catalog and kinds of a conversation, with any number as
the cap, since Build turns a cap that is left out into 3; what `Fallback` assumes of its
constants is proved of these (`LoopAssumptions`). Every step of `ChatTurns` leaves the
executor alone, is a step of `Loop!Next`, or begins a loop in a state of `Loop!Init` under the
same settings (`StepsOfTheLoop`), and so the invariants of `Fallback` hold from each turn's
beginning to the next one's (`LoopInv`). They hold of the loop, not of one policy: the lists
differ from turn to turn. That no empty reply is stored unless the cap is negative
follows from `NilErrorOnlyForNegativeCap`, which is about one loop, once it is known that
the settings never change and that a list of candidates is never emptied.

`TurnsMoveOn` is the half of termination that needs no fairness. `StepsLeft` counts three
steps of an iteration for each candidate left, and those that end the turn; every step of a
turn makes it smaller (`StepMovesOn`), the restart over a rewritten list included, since what
is left after an overflow lacks at least the candidate that failed (`IterationMovesOn`, which
takes the current candidate from `Routed`). What remains for `TurnEnds` is that the next step
is taken, which is fairness.

The proof showed what the run had not: without `PromptsHoldNoCalls`, `EveryResultHasItsCall`
is false. `Validate` counts a call in a system message, and all adapters drop it.

Only model-checked: the liveness properties `Terminates`, `HandlerReturns`,
`PumpEndsUnlessStranded` and `TurnEnds`, which are out of the prover's reach. Every
invariant, action property and refinement that a run checks is a theorem.

## Where code and documentation disagree

Shown by runs:

* `first_turns_race`: `Binder.Append` checks and saves in two calls; two first turns on
  one id are both acknowledged and one is lost. `store.go:60-62` forbids silent loss.
* `attempt_cap`: after a ContextLength failure `max` is overwritten (`harness.go:335`), so
  `MaxAttempts` caps nothing any more (`harness.go:39` says it caps the candidates tried).
* `relay_stops_early`: behind `withRequestLogging` the `ResponseWriter` has no Flush, so
  the flush behind the first event fails (`stream.go:125`) and the handler gives up,
  although `stream.go:20` says that writing stops when the client disconnects or the
  stream ends. A keep-alive before the first event ends it likewise (`stream.go:67`); the
  run has none (`Pings = FALSE`). The handler's own test does not use the middleware.
* `relay_leak`: a pump whose handler has returned blocks on a full channel for ever;
  `stream.go:92-93` says that it closes the channel at the end of the stream.
* `readers_after_output`: the Anthropic reader overwrites its state before it computes
  `AfterOutput` from it, which is therefore never true, although `errors.go:38` says
  "true if any bytes were emitted before failure". `AfterOutputMidMessage` says that the
  other two readers get it right, until the message has stopped.
* `refusal`: `Validate` sees a turn without the session's history (`harness.go:141`), so a
  client that keeps its conversation in a session and sends only what is new
  (`harness.go:136-137`) is refused when it answers a tool call. It has to send the call
  again, which is then in the session twice, or to append the result by
  `POST /api/sessions/{id}/messages` before its next turn.

Met while reading, and visible in the models: a negative `MaxAttempts` gives an empty
reply with a nil error, which is then appended to the session
(`NilErrorOnlyForNegativeCap`); Stream applies neither the cap nor the filter for larger
contexts; where two providers have a model of one name, the context that a failed one is
compared by may be the other's, so a candidate that is no larger may be tried, although
`harness.go:325` says "strictly larger" (`LargerContextAfterOverflow` is what is left: it is
larger than one of that name); a turn accepted at version 1 may continue another history when the session
was deleted and recreated in between (hence the eras); a create under an id in use
replaces the session; the first save of a session ignores the cap; a streamed turn is
not stored, although the doc of `Stream` says that the HTTP layer stores it; the first
candidate's provider not being registered leads to a second one even where fallback is
disabled (`harness.go:33-34` says only the first candidate is tried); an error in the
middle of a stream is returned by `Next` itself, while `provider.go:22-25` announces an
`EvError` event with io.EOF behind it; an error after the message has stopped has
`AfterOutput` false; a connection that closes in the middle of a message ends as
completed (`BlockStream!Conclude` allows "eof" anywhere); an OpenAI usage chunk behind the
finish chunk becomes a `message_delta` behind the `message_stop`; a tool call's id that
comes after its first piece is dropped, as are Ollama's calls in any but the last line.

Of a conversation, visible in `ChatTurns` and its parts:

* A tool call in a system message satisfies `Validate` for a result behind it
  (`validate.go:62-75` looks at no role), and then no adapter sends it: the provider gets a
  result without a call. `PromptsHoldNoCalls` excludes such requests.
* The empty reply of a negative `MaxAttempts` has no role. Once it is stored, every adapter
  refuses every later turn of the session ("unsupported role").
* An answer with an accepting status whose body cannot be read or decoded is an error of
  kind Unknown *with that status*, and `writeError` hands it on: the client gets an error
  body with status 200, although `httpapi.go:23` calls it the "body returned on any
  non-2xx response". `ErrorSaysError` says that this is the only such case. The same rule
  passes a provider's 401 or 404 on as if it were the harness's own.
* A deadline while the body is read is Unknown as well, so it leads to no further attempt
  where a Timeout would; `errors.go:9` asks for the closest kind. `DeadlineMovesOn`
  therefore says that it leads on where Unknown is listed, and a deadline before the
  headers where Timeout is.
* The timeout of the http.Client does not end the request's context and counts as
  ServerError; it also cuts a stream that takes longer than two minutes.
* The Ollama adapter classifies 401, 403, 408, 413, 422 and 504 differently from the others.
* Its made-up ids are distinct in one answer only, while `ollama/convert.go:213-214` wants
  them to pair calls and results "within a conversation": the second answer's
  `ollama_call_0` is an earlier one's too. Sent to another provider, a result then has two
  calls of its id. `EveryResultHasItsCall` asks for one at least.
* A tool call of an OpenAI model whose arguments are not JSON is stored, and OpenAI takes
  it back; Anthropic's and Ollama's adapters refuse every later turn of that session
  (`OwnRepliesReplayable` is about sessions that one adapter answered).
* An image by URL is refused by the Ollama adapter as InvalidRequest, not
  UnsupportedContent, which no adapter ever reports.
* A block of an Anthropic answer that is not understood becomes an empty text.
* `policy.go:16-20` says that the harness never dispatches to a model that cannot serve the
  request: images inside of results are not looked for, JSON schema is never required, and
  an explicit model is not checked. `PickedModelServes` is what is left.
* A bare alias passes `Validate` ("the catalog resolver handles those", `validate.go:32`),
  and no resolver exists: the answer is 500.
* Messages appended by `POST /messages` are not validated; one that no adapter takes blocks
  the session.
* When every candidate of a stream fails, the last kind is lost and the answer is 500.
* `RetryAfter` is "honored when set" (`errors.go:36`); nothing reads it.

## Not modelled

The SSE parser (`providers/sse`) keeps nothing from one event to the next and runs on one
goroutine: the readers' models take its events as they come, and a cut-off one as a
failure to decode. Start-up (flags, TOML, credentials, the version probe) happens before
any request and shutdown after them; the smoke script is a client. `MemoryStore.List`,
`GET /api/models` and the healthz route change nothing. Nested maps in metadata, which
`session/memory.go` copies shallowly, would need a model of aliasing.

## Plan

Every component with state, or whose outcome decides a step, is modelled, and every
invariant, action property and refinement is proved. What is left:

1. The safe half of termination for the relay, as `TurnMovesOn` is for turns: that the
   handler and the pump have finitely many steps of their own while the stream is finite.
2. That the replies which `ChatTurns` stores are those of `SessionTurns`: each turn of a
   conversation loads and appends as a turn of the session layer does.
