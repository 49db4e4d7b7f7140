------------------------------- MODULE ChatTurns -------------------------------
(***************************************************************************)
(* A conversation: one session whose client takes turn after turn through  *)
(* POST /api/chat or /api/chat/stream.  Each turn is checked (Validate),   *)
(* merged with the session's history, routed, and sent to one candidate    *)
(* after the other by the executor of module Fallback; every attempt is an *)
(* exchange with a provider: request, headers, body.  Meanwhile the client *)
(* may leave, deadlines may pass, connections may be lost and another      *)
(* client may append to the session.                                       *)
(*                                                                         *)
(* Several turns at once, and the store's cap, are in SessionTurns; what   *)
(* follows a stream's handshake is in StreamReaders and StreamRelay.       *)
(***************************************************************************)
EXTENDS Conversions, Routing, FiniteSets

CONSTANTS
  Registered,      \* the refs whose provider is registered with the harness
  ModelOf,         \* ModelOf[ref]: the model name in ref
  AdapterOf,       \* AdapterOf[ref]: the adapter of a registered ref
  OllamaTools,     \* supportsTools of the Ollama provider
  Prompt,          \* the session's system prompt
  FallbackSets,    \* fallback_on_kinds as configured
  AttemptCaps,     \* max_attempts as configured
  AttemptTimeout,  \* whether PerAttemptTimeout is set
  Modes,           \* "send", "stream"
  Asks,            \* requests of the client
  FollowUp,        \* a request without messages, for those that answer tool calls
  Done,            \* the text of a tool's result
  Edits,           \* lists of messages that another client appends
  Statuses,        \* HTTP statuses of a provider's answer
  Parts,           \* contents of a provider's answer
  MaxTurns,        \* bound of the model: turns
  MaxEdits,        \* bound of the model: appends by others
  MayLeave         \* bound of the model: whether clients leave before the answer

ErrorKinds == {"Unknown", "RateLimit", "Timeout", "ContextLength", "Overloaded",
               "ServerError", "ToolsUnsupported", "UnsupportedContent", "Canceled",
               "AuthFailed", "NotFound", "InvalidRequest"}

ASSUME AdaptersAssumption == /\ Registered \subseteq Refs
                             /\ AdapterOf \in [Registered -> Adapters]
ASSUME SettingsAssumption == /\ FallbackSets \subseteq SUBSET ErrorKinds
                             /\ AttemptCaps \subseteq Int
                             /\ AttemptTimeout \in BOOLEAN /\ OllamaTools \in BOOLEAN
                             /\ Modes \subseteq {"send", "stream"}
ASSUME StatusesAssumption == Statuses \subseteq 200..599
ASSUME BoundsAssumption == MaxTurns \in Nat /\ MaxEdits \in Nat /\ MayLeave \in BOOLEAN

Request == [model : Refs \cup {NoModel, Alias, BadRef}, policy : STRING, system : Seq(Words),
            messages : Seq(Message), tools : BOOLEAN, choiceOk : BOOLEAN,
            thinking : BOOLEAN, maxTokens : Nat]

ASSUME InputsAssumption == /\ Prompt \in Seq(Words) /\ Done \in Seq(Words)
                           /\ Asks \subseteq Request /\ FollowUp \in Request
                           /\ Edits \subseteq Seq(Message)
                           /\ Parts \subseteq Seq(AnswerBlock)

VARIABLES
  stored, version,  \* the session: its messages and its version
  phase,            \* "idle", or where the turn is: "loop", "head", "body"
  asked,            \* the request of the client
  request,          \* what the providers are sent: asked, merged with the history
  expected,         \* the version that the turn loaded
  client,           \* whether the client is still there
  head,             \* the status of the attempt's answer once its headers are in, or 0
  failure,          \* the last error of the turn
  reply,            \* the message of the provider that answered
  answer,           \* what the client was told of the turn
  \* The executor; see Fallback.
  mode, candidates, maxAttempts, fallbackOn, left, budget, tried, outcome,
  \* The rest is history for the properties and the bounds.
  turns, edits,     \* how many so far
  authors,          \* whose replies the session holds
  stray,            \* whether an edit appended anything but results of the last calls
  late,             \* attempts begun after the client left
  expired           \* where the last attempt was when its deadline passed

executor == <<mode, candidates, maxAttempts, fallbackOn, left, budget, tried, outcome>>
session  == <<stored, version, authors, stray>>
inputs   == <<asked, request, expected, turns>>
vars     == <<session, inputs, phase, client, head, failure, reply, answer, executor,
              edits, late, expired>>

F == INSTANCE Fallback WITH
       Kinds <- ErrorKinds, Policies <- Seq(Refs),
       ContextOf <- [ref \in Catalogued |-> InfoOf[ref].context]

-------------------------------------------------------------------------------
(* The harness receives a turn. *)

NoAnswer  == [status |-> 0, kind |-> "none"]
Ok        == [status |-> 200, kind |-> "ok"]
NoMessage == Says("", << >>)   \* of a Response{}

\* An error that is no ProviderError: httpapi answers 500 and Unknown.
PlainError == [status |-> 0, kind |-> F!NotTyped]

\* The model sees the history first; the session's prompt stands in for a missing one.
Merged(ask) == [ask EXCEPT !.messages = stored \o @,
                           !.system   = IF @ = << >> THEN Prompt ELSE @]

\* A message with results for the calls of the last stored one.
HasOpenCalls == stored # << >> /\ CallsOf(Last(stored)) # << >>

Results ==
  LET calls == CallsOf(Last(stored))
  IN  Says("tool", [i \in DOMAIN calls |-> Result(calls[i].id, <<Text(Done)>>)])

\* A client answers calls with their results alone, or sends the calls again with them.
Answering ==
  IF HasOpenCalls THEN {<<Results>>, <<Last(stored), Results>>} ELSE {}

ClientAsks == Asks \cup {[FollowUp EXCEPT !.messages = msgs] : msgs \in Answering}

Receive(ask) ==
  /\ phase = "idle"
  /\ turns < MaxTurns
  /\ turns' = turns + 1
  /\ asked' = ask
  /\ request' = Merged(ask)
  /\ expected' = version
  /\ client' = TRUE
  /\ failure' = PlainError
  /\ reply' = NoMessage
  /\ head' = 0 /\ late' = 0 /\ expired' = "none"
  /\ UNCHANGED <<session, edits>>

\* Validate looks at what the client sent, before the history is loaded.
Refuse(ask) ==
  /\ Receive(ask)
  /\ ~Validate(ask)
  /\ answer' = [status |-> 400, kind |-> "InvalidRequest"]
  /\ UNCHANGED <<phase, executor>>

\* Mutant: the candidates are picked for what the client sent.
PickedForNew(ask) == PickCandidates(ask)

\* The candidates are picked for the request with its history.
Picked(ask) == PickCandidates(Merged(ask))

NoCandidate(ask) ==
  /\ Receive(ask)
  /\ Validate(ask)
  /\ Picked(ask) = << >>
  /\ answer' = [status |-> 500, kind |-> "Unknown"]
  /\ UNCHANGED <<phase, executor>>

Start(ask, md) ==
  /\ Receive(ask)
  /\ Validate(ask)
  /\ candidates' = Picked(ask)
  /\ candidates' # << >>
  /\ mode' = md
  /\ left' = DOMAIN candidates'
  /\ budget' = F!Budget(maxAttempts, md, Len(candidates'))
  /\ tried' = << >>
  /\ outcome' = "running"
  /\ phase' = "loop"
  /\ answer' = NoAnswer
  /\ UNCHANGED <<maxAttempts, fallbackOn>>

-------------------------------------------------------------------------------
(* One iteration of the executor. *)

Ref     == F!Ref(F!Current)
Adapter == AdapterOf[Ref]

\* What no step of an attempt changes.
Rest == <<session, inputs, client, answer, edits>>

\* Send keeps the last error.  Stream says of its own that all candidates failed.
Skip ==
  /\ phase = "loop"
  /\ F!SkipUnregistered
  /\ failure' = PlainError
  /\ head' = 0 /\ expired' = "none"
  /\ UNCHANGED <<Rest, phase, reply, late>>

\* The attempt ends with an error, and the executor goes on or halts.  No adapter
\* sets AfterOutput.
Fail(kind, status) ==
  /\ failure' = [status |-> status, kind |-> kind]
  /\ \/ F!FailAndHalt(kind, FALSE)
     \/ F!FailAndAdvance(kind, FALSE)
     \/ kind = "ContextLength" /\ F!FailAndGoLarger(FALSE)
  /\ phase' = "loop"
  /\ UNCHANGED <<Rest, reply>>

\* Mutants: the request's context is not asked, or only whether it is done.
TransportKindOfError(passed) == IF passed THEN "Timeout" ELSE "ServerError"

TransportKindDone(passed) == IF passed \/ ~client THEN "Canceled" ELSE "ServerError"

\* classifyTransport, when Do fails: what ended the request's context, if anything did;
\* passed says that the attempt's deadline did unless the client had left before.  The
\* two minutes of the http.Client itself are an error like a lost connection.
TransportKind(passed) ==
  IF ~client THEN "Canceled" ELSE IF passed THEN "Timeout" ELSE "ServerError"

NoTools == Adapter = "ollama" /\ request.tools /\ ~OllamaTools

Attempt == /\ phase = "loop"
           /\ F!Running
           /\ Ref \in Registered
           /\ head' = 0 /\ expired' = "none"

\* The adapter refuses the request before anything is sent.
NotSent ==
  /\ Attempt
  /\ \/ NoTools /\ Fail("ToolsUnsupported", 0)
     \/ ~NoTools /\ ~Builds(Adapter, request.messages) /\ Fail("InvalidRequest", 0)
  /\ UNCHANGED late

CanSend == Attempt /\ ~NoTools /\ Builds(Adapter, request.messages)

Send ==
  /\ CanSend
  /\ client
  /\ phase' = "head"
  /\ UNCHANGED <<Rest, executor, failure, reply, late>>

\* Do returns at once if the request's context is done.
SendTooLate ==
  /\ CanSend
  /\ ~client
  /\ Fail(TransportKind(FALSE), 0)
  /\ late' = late + 1

-------------------------------------------------------------------------------
(* The exchange with the provider. *)

\* classifyStatus, of OpenAI and Anthropic
StatusKind(status, overflow) ==
  CASE status \in {401, 403}      -> "AuthFailed"
    [] status = 404               -> "NotFound"
    [] status \in {400, 413, 422} -> IF overflow THEN "ContextLength" ELSE "InvalidRequest"
    [] status = 429               -> "RateLimit"
    [] status \in {408, 504}      -> "Timeout"
    [] status = 503               -> "Overloaded"
    [] status \in (500..599) \ {503, 504}  -> "ServerError"
    [] OTHER                      -> "Unknown"

OllamaStatusKind(status, overflow) ==
  CASE status = 404 -> "NotFound"
    [] status = 429 -> "RateLimit"
    [] status = 503 -> "Overloaded"
    [] status = 400 -> IF overflow THEN "ContextLength" ELSE "InvalidRequest"
    [] status \in (500..599) \ {503} -> "ServerError"
    [] OTHER        -> "Unknown"

\* overflow: the body says that the request is too long, in words the adapter knows.
Classify(status, overflow) ==
  IF Adapter = "ollama" THEN OllamaStatusKind(status, overflow) ELSE StatusKind(status, overflow)

Accepted(status) == status < 400

\* Of Stream, an accepting status is all there is to the handshake.
HeadersArrive(status) ==
  /\ phase = "head"
  /\ head' = status
  /\ IF mode = "stream" /\ Accepted(status)
     THEN F!Reply /\ phase' = "loop"
     ELSE phase' = "body" /\ UNCHANGED executor
  /\ UNCHANGED <<Rest, failure, reply, late, expired>>

\* Do fails: the connection, the client's leaving, or the http.Client's two minutes.
HeadLost ==
  /\ phase = "head"
  /\ Fail(TransportKind(FALSE), 0)
  /\ UNCHANGED <<head, late, expired>>

\* The ids of a provider's calls are new in the conversation.
Numbered(parts) ==
  [i \in DOMAIN parts |->
     IF IsCall(parts[i]) THEN [parts[i] EXCEPT !.id = <<Len(request.messages), i>>]
                         ELSE parts[i]]

AnswerRead(parts) ==
  /\ phase = "body"
  /\ Accepted(head)
  /\ \A i \in DOMAIN parts : IsCall(parts[i]) => parts[i].input \in DecodedInputs(Adapter)
  /\ F!Reply
  /\ reply' = Reply(Adapter, Numbered(parts))
  /\ phase' = "loop"
  /\ UNCHANGED <<Rest, head, failure, late, expired>>

\* The body is not the JSON that the adapter expects.
Undecodable ==
  /\ phase = "body"
  /\ Accepted(head)
  /\ Fail("Unknown", head)
  /\ UNCHANGED <<head, late, expired>>

ErrorRead(overflow) ==
  /\ phase = "body"
  /\ ~Accepted(head)
  /\ Fail(Classify(head, overflow), head)
  /\ UNCHANGED <<head, late, expired>>

\* ReadAll fails.  Send makes that an error of its own; Stream takes what it has read.
BodyFails ==
  IF mode = "send" THEN Fail("Unknown", head)
  ELSE \E overflow \in BOOLEAN : Fail(Classify(head, overflow), head)

BodyLost ==
  /\ phase = "body"
  /\ BodyFails
  /\ UNCHANGED <<head, late, expired>>

\* PerAttemptTimeout, of Send only.
Deadline ==
  /\ AttemptTimeout
  /\ mode = "send"
  /\ \/ phase = "head" /\ Fail(TransportKind(TRUE), 0)
     \/ phase = "body" /\ BodyFails
  /\ expired' = IF client THEN phase ELSE "none"
  /\ UNCHANGED <<head, late>>

-------------------------------------------------------------------------------
(* The end of a turn. *)

\* mapKindToStatus
KindStatus(kind) ==
  CASE kind = "AuthFailed" -> 401
    [] kind = "NotFound"   -> 404
    [] kind = "RateLimit"  -> 429
    [] kind = "Timeout"    -> 504
    [] kind = "Overloaded" -> 503
    [] kind = "Canceled"   -> 499
    [] kind \in {"ContextLength", "InvalidRequest", "UnsupportedContent"} -> 400
    [] kind \in {"ServerError", "Unknown", "ToolsUnsupported"} -> 502
    [] OTHER               -> 500

\* Mutant: the provider's status, also where there is none.
WrittenStatusAsIs(error) == error.status

\* writeError: the provider's status if there is one.
WrittenStatus(error) == IF error.status # 0 THEN error.status ELSE KindStatus(error.kind)

Written(error) ==
  [status |-> WrittenStatus(error),
   kind   |-> IF error.kind = F!NotTyped THEN "Unknown" ELSE error.kind]

GiveUp ==
  /\ phase = "loop"
  /\ F!Exhausted
  /\ failure' = IF mode = "stream" THEN PlainError ELSE failure
  /\ UNCHANGED <<Rest, phase, head, reply, late, expired>>

EndWithError ==
  /\ phase = "loop"
  /\ outcome = "error"
  /\ answer' = Written(failure)
  /\ phase' = "idle"
  /\ UNCHANGED <<session, inputs, client, head, failure, reply, executor, edits, late, expired>>

\* The handshake is done, and the relay takes over.  Stream stores nothing.
EndWithStream ==
  /\ phase = "loop"
  /\ outcome = "reply" /\ mode = "stream"
  /\ answer' = Ok
  /\ phase' = "idle"
  /\ UNCHANGED <<session, inputs, client, head, failure, reply, executor, edits, late, expired>>

\* A reply is stored with the turn's own messages, if nobody else wrote meanwhile.  So
\* is the empty Response{} that a negative MaxAttempts leads to.
EndWithReply ==
  /\ phase = "loop"
  /\ outcome \in {"reply", "nilError"} /\ mode = "send"
  /\ IF version = expected
     THEN /\ stored' = stored \o asked.messages \o <<reply>>
          /\ version' = version + 1
          /\ authors' = authors \cup {IF outcome = "reply" THEN Adapter ELSE "nobody"}
          /\ answer' = Ok
     ELSE /\ answer' = [status |-> 409, kind |-> "VersionConflict"]
          /\ UNCHANGED <<stored, version, authors>>
  /\ phase' = "idle"
  /\ UNCHANGED <<stray, inputs, client, head, failure, reply, executor, edits, late, expired>>

-------------------------------------------------------------------------------
(* The others. *)

\* The client closes its connection: the request's context is canceled.
ClientLeaves ==
  /\ MayLeave
  /\ phase # "idle"
  /\ client
  /\ client' = FALSE
  /\ UNCHANGED <<session, inputs, phase, head, failure, reply, answer, executor,
                 edits, late, expired>>

\* POST /messages of another client, which Validate does not see.
Edit(msgs) ==
  /\ edits < MaxEdits
  /\ edits' = edits + 1
  /\ stored' = stored \o msgs
  /\ version' = version + 1
  /\ stray' = (stray \/ ~(HasOpenCalls /\ msgs = <<Results>>))
  /\ UNCHANGED <<authors, inputs, phase, client, head, failure, reply, answer, executor,
                 late, expired>>

-------------------------------------------------------------------------------
\* Config.Validate and Build: max_attempts left out, or 0, means 3.
MaxAttemptsOf(configured) == IF configured = 0 THEN 3 ELSE configured

\* The session has been created with its prompt; the version it got then is 0 here.
Init ==
  /\ stored = << >> /\ version = 0
  /\ phase = "idle"
  /\ asked = FollowUp /\ request = FollowUp /\ expected = 0
  /\ client = TRUE /\ head = 0
  /\ failure = PlainError /\ reply = NoMessage /\ answer = NoAnswer
  /\ maxAttempts \in {MaxAttemptsOf(n) : n \in AttemptCaps} /\ fallbackOn \in FallbackSets
  /\ mode = "send" /\ candidates = << >>
  /\ left = {} /\ budget = 0 /\ tried = << >> /\ outcome = "error"
  /\ turns = 0 /\ edits = 0
  /\ authors = {} /\ stray = FALSE /\ late = 0 /\ expired = "none"

Executor == Skip \/ NotSent \/ Send \/ SendTooLate \/ GiveUp
            \/ EndWithError \/ EndWithStream \/ EndWithReply

\* Mutant: the http.Client waits two minutes for the headers only.
HTTPTimeoutOfHead == HeadLost

\* The http.Client's Timeout covers the exchange until the body is read.
HTTPTimeout == HeadLost \/ BodyLost

Next ==
  \/ \E ask \in ClientAsks : \/ Refuse(ask)
                            \/ NoCandidate(ask)
                            \/ \E md \in Modes : Start(ask, md)
  \/ Executor
  \/ \E status \in Statuses : HeadersArrive(status)
  \/ \E parts \in Parts : AnswerRead(parts)
  \/ \E overflow \in BOOLEAN : ErrorRead(overflow)
  \/ Undecodable
  \/ HeadLost
  \/ BodyLost
  \/ Deadline
  \/ ClientLeaves
  \/ \E msgs \in Edits \cup (IF HasOpenCalls THEN {<<Results>>} ELSE {}) : Edit(msgs)

\* The harness itself does not stop, and its http.Client does not wait for ever.
Spec == Init /\ [][Next]_vars /\ WF_vars(Executor) /\ WF_vars(HTTPTimeout)

-------------------------------------------------------------------------------
(* Properties. *)

Answers == [status : Nat, kind : ErrorKinds \cup {"none", "ok", "VersionConflict"}]
Errors  == [status : Nat, kind : ErrorKinds \cup {F!NotTyped}]

\* The types of the variables.
TypeOK ==
  /\ stored \in Seq(Message) /\ version \in Nat /\ expected \in Nat
  /\ phase \in {"idle", "loop", "head", "body"}
  /\ asked \in Request /\ request \in Request
  /\ client \in BOOLEAN /\ head \in Statuses \cup {0}
  /\ failure \in Errors /\ reply \in Message /\ answer \in Answers
  /\ candidates \in Seq(Refs) /\ left \subseteq DOMAIN candidates
  /\ budget \in Int /\ maxAttempts \in Int /\ fallbackOn \subseteq ErrorKinds
  /\ mode \in {"send", "stream"} /\ outcome \in {"running", "reply", "error", "nilError"}
  /\ turns \in 0..MaxTurns /\ edits \in 0..MaxEdits
  /\ authors \subseteq Adapters \cup {"nobody"} /\ stray \in BOOLEAN
  /\ late \in Nat /\ expired \in {"none", "head", "body"}

\* What the provider of the attempt in progress is sent.
Sent == Wire(Adapter, request)

\* Nobody asks for a tool in a prompt: the adapters drop it there, and Validate does not.
PromptsHoldNoCalls(msgs) ==
  \A n \in DOMAIN msgs : msgs[n].role = "system" =>
    \A i \in DOMAIN msgs[n].content : ~IsCall(msgs[n].content[i])

\* A provider that is sent ids finds before every result the call that it answers,
\* whatever the session gathered before: Validate sees each turn alone, and the
\* adapters leave things out and rewrite the rest.  (An edit is not validated.)
EveryResultHasItsCall ==
  phase = "head" /\ ~stray /\ Adapter # "ollama" /\ PromptsHoldNoCalls(request.messages) =>
    ResultsFollowCalls(Sent)

\* What a reader of messages gets from them, prompts and thinking aside.
Spoken(msgs) ==
  FlattenSeq([n \in DOMAIN msgs |->
                IF msgs[n].role = "system" THEN << >> ELSE msgs[n].content])

TextOf(b) == IF IsText(b) THEN b.text ELSE IF IsResult(b) THEN Joined(b.content) ELSE << >>

Heard(msgs) ==
  LET blocks  == Spoken(msgs)
      calls   == Filtered(blocks, IsCall)
      results == Filtered(blocks, IsResult)
  IN  [texts   |-> FlattenSeq([i \in DOMAIN blocks |-> TextOf(blocks[i])]),
       calls   |-> [i \in DOMAIN calls |-> calls[i].name],
       results |-> [i \in DOMAIN results |-> Joined(results[i].content)],
       images  |-> Len(Filtered(blocks, IsImage))]

\* No adapter loses, doubles or reorders what was said in the conversation: the texts,
\* the calls, the results' texts and the images are on its wire, each in their order.
WireTellsTheConversation == phase = "head" => Heard(Sent) = Heard(request.messages)

\* A session that one adapter answered does not wedge on it: the replies it stored are
\* ones it takes back, so it refuses a turn only for what that turn brings.
OwnRepliesReplayable ==
  /\ phase = "loop"
  /\ F!Running
  /\ Ref \in Registered
  /\ authors \subseteq {Adapter}
  /\ ~stray
  /\ Builds(Adapter, asked.messages)
  => Builds(Adapter, request.messages)

\* A model that a policy chose and the catalog knows is sent nothing that the catalog
\* says it cannot take, the history of the session included: tools, parallel calls,
\* images (outside of results), thinking, or more text than its context holds, up to
\* the 3 characters by which the estimate of each block may be short.
Allowed(info) ==
  LET blocks == Spoken(Sent)
      texts  == Filtered(blocks, IsText)
      chars  == Total([i \in DOMAIN texts |-> Chars(texts[i].text)])
      pieces == Len(FlattenSeq([n \in DOMAIN request.messages |-> request.messages[n].content]))
  IN  /\ request.tools => info.tools
      /\ request.thinking => info.thinking
      /\ Filtered(blocks, IsImage) # << >> => info.vision
      /\ \A n \in DOMAIN Sent : Len(CallsOf(Sent[n])) >= 2 => info.parallel /\ info.tools
      /\ info.context > 0 =>
           chars <= 4 * (info.context - 500 - request.maxTokens) + 3 * pieces

PickedModelServes ==
  phase = "head" /\ asked.model = NoModel /\ Ref \in Catalogued => Allowed(InfoOf[Ref])

\* A turn that no provider answered leaves no reply in the session, however its attempts
\* ended, unless a negative MaxAttempts is configured: then an empty one is stored.
EmptyReplyOnlyForNegativeCap == "nobody" \in authors => maxAttempts < 0

\* Once the client has left, no more than one further attempt is begun, unless
\* Canceled is configured as a reason to go on.
GoneClientEndsTheLoop == "Canceled" \notin fallbackOn => late <= 1

\* A turn that failed is answered with an error status, but where the body of an
\* accepting answer could not be read or decoded: that is answered with its status.
ErrorSaysError ==
  phase = "idle" /\ answer \notin {NoAnswer, Ok} /\ Accepted(answer.status) =>
    mode = "send" /\ failure.kind = "Unknown" /\ answer.status = head

\* The kind of a deadline that passed is a reason to go on: Timeout before the headers,
\* Unknown while the body is read.
DeadlineCounts == \/ expired = "head" /\ "Timeout" \in fallbackOn
                  \/ expired = "body" /\ "Unknown" \in fallbackOn

\* Where the kind of a passed deadline is a reason to go on, a turn does not end with
\* the attempt that it cut off while there is a candidate left to try.  (In the body,
\* Timeout alone does not lead on.)
DeadlineMovesOn == phase = "idle" /\ DeadlineCounts => budget <= 0

\* A bound on the steps that the turn may still take: three for each candidate that is
\* left to the loop, and those that end it.
StepsLeft ==
  CASE phase = "idle"                         -> 0
    [] phase # "idle" /\ outcome # "running" -> 1
    [] phase = "loop" /\ outcome = "running" -> 3 * Cardinality(left) + 3
    [] phase = "head" /\ outcome = "running" -> 3 * Cardinality(left) + 2
    [] phase = "body" /\ outcome = "running" -> 3 * Cardinality(left) + 1

\* A turn never goes round in circles, also where the loop restarts over a list that was
\* rewritten: each of its own steps leaves it fewer to take.
TurnMovesOn ==
  [][phase # "idle" => StepsLeft' < StepsLeft \/ UNCHANGED <<phase, executor>>]_vars

\* Every turn is answered: a provider that never answers, or stops in the middle of its
\* answer, runs into the http.Client's timeout, and the candidates run out.
TurnEnds == phase # "idle" ~> phase = "idle"

\* harness.go:136 says that the session's messages are prepended and the caller's are
\* only the new ones, validate.go:62 that a tool_result must reference a prior tool_use:
\* so a turn is refused only if it is invalid with the history in front.
RefusedOnlyIfInvalid ==
  phase = "idle" /\ answer.kind = "InvalidRequest" /\ failure = PlainError => ~Validate(request)
===============================================================================
