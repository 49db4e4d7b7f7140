--------------------------- MODULE ChatTurns_proofs ---------------------------
(***************************************************************************)
(* Proofs about ChatTurns, for every catalog, policy and set of providers, *)
(* every request of a client and every answer of a provider.               *)
(***************************************************************************)
EXTENDS ChatTurns, Conversions_proofs, FiniteSetTheorems, TLAPS

(* How turns end: the inductive invariant. *)

\* The status of an error that is written as it is, but for a body that was not read.
Telling == \/ failure.status = 0 \/ failure.status >= 400
           \/ mode = "send" /\ failure.kind = "Unknown" /\ failure.status = head

EndInv ==
  /\ mode \in {"send", "stream"}
  /\ head \in Statuses \cup {0}
  /\ late \in Nat
  /\ failure.status \in Nat
  /\ phase \in {"idle", "loop", "head", "body"}
  /\ phase \in {"head", "body"} => outcome = "running" /\ expired = "none"
  /\ phase = "body" => mode = "send" \/ ~Accepted(head)
  /\ phase = "idle" => outcome # "running"
  /\ phase = "loop" /\ outcome \in {"running", "error"} => Telling
  /\ ErrorSaysError
  /\ "Canceled" \notin fallbackOn => late = 0 \/ (late = 1 /\ outcome # "running")
  /\ DeadlineCounts => outcome = "running" \/ budget <= 0

\* mapKindToStatus knows error statuses only.
LEMMA KindStatusIsError == \A kind : KindStatus(kind) \in Nat /\ KindStatus(kind) >= 400
BY DEF KindStatus

\* The status of an exchange is a number, 0 while there is none.
LEMMA HeadProperties ==
  ASSUME head \in Statuses \cup {0}
  PROVE  head \in Nat
BY StatusesAssumption

\* The end of an attempt with an error of the given kind and status.
LEMMA FailStep ==
  ASSUME EndInv, NEW kind, NEW status, Fail(kind, status)
  PROVE  /\ phase' = "loop"
         /\ outcome = "running"
         /\ failure' = [status |-> status, kind |-> kind]
         /\ outcome' \in {"running", "error"}
         /\ UNCHANGED <<mode, fallbackOn, answer>>
         /\ kind \notin fallbackOn => outcome' = "error"
         /\ kind \in fallbackOn /\ kind # "ContextLength" => outcome' = "running"
BY DEF Fail, F!FailAndHalt, F!FailAndAdvance, F!FailAndGoLarger, F!Halts, F!ShouldFallback,
     F!Running, F!Finish, F!Advance, F!config, Rest

\* The beginning of a turn, which forgets what there was of the one before.
LEMMA ReceiveStep ==
  ASSUME EndInv, NEW ask, Receive(ask)
  PROVE  /\ phase = "idle" /\ head' = 0 /\ late' = 0 /\ expired' = "none"
         /\ failure' = PlainError /\ failure'.status = 0
BY DEF Receive, PlainError

\* No turn has begun, and nothing was answered.
LEMMA EndInvInit == Init => EndInv
<1> SUFFICES ASSUME Init PROVE EndInv
  OBVIOUS
<1> QED
  BY DEF Init, EndInv, ErrorSaysError, DeadlineCounts, NoAnswer, PlainError

\* Every step keeps it: a turn's first step, the three ends of an exchange and the executor's.
LEMMA EndInvStep == EndInv /\ [Next]_vars => EndInv'
<1> SUFFICES ASSUME EndInv, [Next]_vars PROVE EndInv'
  OBVIOUS
<1>1. ASSUME NEW ask \in ClientAsks, Refuse(ask) \/ NoCandidate(ask)
      PROVE  EndInv'
  <2>1. /\ phase = "idle" /\ phase' = "idle" /\ head' = 0 /\ late' = 0 /\ expired' = "none"
        /\ answer'.status \in Nat /\ answer'.status >= 400
        /\ failure'.status = 0
        /\ UNCHANGED <<mode, fallbackOn, outcome, budget>>
    BY <1>1, ReceiveStep DEF Refuse, NoCandidate, executor
  <2> QED
    BY <2>1 DEF EndInv, ErrorSaysError, DeadlineCounts, Accepted
<1>2. ASSUME NEW ask \in ClientAsks, NEW md \in Modes, Start(ask, md)
      PROVE  EndInv'
  <2>1. /\ phase' = "loop" /\ head' = 0 /\ late' = 0 /\ expired' = "none"
        /\ failure'.status = 0
        /\ mode' = md /\ outcome' = "running"
    BY <1>2, ReceiveStep DEF Start
  <2>2. md \in {"send", "stream"}
    BY SettingsAssumption
  <2> QED
    BY <2>1, <2>2 DEF EndInv, ErrorSaysError, DeadlineCounts, Telling
<1>3. CASE Skip
  <2>1. /\ phase = "loop" /\ phase' = "loop" /\ head' = 0 /\ expired' = "none" /\ late' = late
        /\ failure'.status = 0
        /\ UNCHANGED <<mode, fallbackOn, outcome>>
        /\ outcome = "running"
    BY <1>3 DEF Skip, PlainError, F!SkipUnregistered, F!Running, F!Advance, F!config
  <2> QED
    BY <2>1 DEF EndInv, ErrorSaysError, DeadlineCounts, Telling
<1>4. ASSUME NEW kind, NEW status, Fail(kind, status), head' = head \/ head' = 0,
             late' = late \/ (late' = late + 1 /\ kind = "Canceled"),
             status \in Nat,
             status = 0 \/ status >= 400 \/ (mode = "send" /\ kind = "Unknown" /\ status = head'),
             expired' = "head" => kind = "Timeout",
             expired' = "body" => kind = "Unknown"
      PROVE  EndInv'
  <2>1. /\ phase' = "loop" /\ outcome = "running" /\ outcome' \in {"running", "error"}
        /\ failure'.status = status /\ failure'.kind = kind
        /\ UNCHANGED <<mode, fallbackOn>>
        /\ kind \notin fallbackOn => outcome' = "error"
        /\ kind \in fallbackOn /\ kind # "ContextLength" => outcome' = "running"
    BY <1>4, FailStep
  <2>2. Telling'
    BY <1>4, <2>1 DEF Telling
  <2>3. "Canceled" \notin fallbackOn => late' = 0 \/ (late' = 1 /\ outcome' # "running")
    BY <1>4, <2>1 DEF EndInv
  <2>4. DeadlineCounts' => outcome' = "running"
    BY <1>4, <2>1 DEF DeadlineCounts
  <2> QED
    BY <1>4, <2>1, <2>2, <2>3, <2>4 DEF EndInv, ErrorSaysError, DeadlineCounts
<1>5. CASE NotSent
  <2>1. late' = late /\ head' = 0 /\ expired' = "none"
    BY <1>5 DEF NotSent, Attempt
  <2>2. Fail("ToolsUnsupported", 0) \/ Fail("InvalidRequest", 0)
    BY <1>5 DEF NotSent
  <2> QED
    BY <1>4, <2>1, <2>2
<1>6. CASE Send
  <2>1. /\ phase' = "head" /\ head' = 0 /\ expired' = "none"
        /\ UNCHANGED <<late, failure, answer, mode, fallbackOn, outcome, budget>>
        /\ outcome = "running"
    BY <1>6 DEF Send, CanSend, Attempt, F!Running, Rest, executor
  <2> QED
    BY <2>1 DEF EndInv, ErrorSaysError, DeadlineCounts
<1>7. CASE SendTooLate
  <2>1. /\ late' = late + 1 /\ head' = 0 /\ expired' = "none"
        /\ Fail("Canceled", 0)
    BY <1>7 DEF SendTooLate, CanSend, Attempt, TransportKind
  <2> QED
    BY <1>4, <2>1
<1>8. ASSUME NEW status \in Statuses, HeadersArrive(status)
      PROVE  EndInv'
  <2>1. /\ phase = "head" /\ head' = status
        /\ UNCHANGED <<late, expired, failure, mode, fallbackOn>>
        /\ \/ phase' = "loop" /\ outcome' = "reply"
           \/ /\ phase' = "body" /\ UNCHANGED <<outcome, budget>>
              /\ ~(mode = "stream" /\ Accepted(status))
    BY <1>8 DEF HeadersArrive, F!Reply, F!Finish, F!config, executor
  <2> QED
    BY <2>1 DEF EndInv, ErrorSaysError, DeadlineCounts
<1>9. CASE HeadLost
  <2>1. UNCHANGED <<head, late, expired>> /\ expired = "none"
    BY <1>9 DEF HeadLost, EndInv
  <2>2. Fail(TransportKind(FALSE), 0)
    BY <1>9 DEF HeadLost
  <2> QED
    BY <1>4, <2>1, <2>2
<1>10. ASSUME NEW parts \in Parts, AnswerRead(parts)
       PROVE  EndInv'
  <2>1. /\ phase' = "loop" /\ outcome' = "reply" /\ expired = "none"
        /\ UNCHANGED <<head, late, expired, failure, mode, fallbackOn>>
    BY <1>10 DEF AnswerRead, F!Reply, F!Finish, F!config, EndInv
  <2> QED
    BY <2>1 DEF EndInv, ErrorSaysError, DeadlineCounts
\* An accepting answer is read by Send alone.
<1>11. CASE Undecodable
  <2>1. /\ UNCHANGED <<head, late, expired>> /\ expired = "none"
        /\ mode = "send"
        /\ Fail("Unknown", head)
    BY <1>11 DEF Undecodable, EndInv
  <2>2. head \in Nat
    BY HeadProperties DEF EndInv
  <2> QED
    BY <1>4, <2>1, <2>2
<1>12. ASSUME NEW overflow \in BOOLEAN, ErrorRead(overflow)
       PROVE  EndInv'
  <2>1. /\ UNCHANGED <<head, late, expired>> /\ expired = "none"
        /\ head \in Nat /\ head >= 400
        /\ Fail(Classify(head, overflow), head)
    BY <1>12, HeadProperties DEF ErrorRead, EndInv, Accepted
  <2> QED
    BY <1>4, <2>1
<1>13. ASSUME BodyFails, phase = "body", UNCHANGED <<head, late>>,
              expired' # "head", mode = "send" \/ expired' = "none"
       PROVE  EndInv'
  <2>1. CASE mode = "send"
    <3>1. Fail("Unknown", head) /\ head \in Nat
      BY <1>13, <2>1, HeadProperties DEF BodyFails, EndInv
    <3> QED
      BY <1>4, <1>13, <2>1, <3>1
  <2>2. CASE mode # "send"
    <3>1. PICK overflow \in BOOLEAN : Fail(Classify(head, overflow), head)
      BY <1>13, <2>2 DEF BodyFails
    <3>2. head \in Nat /\ head >= 400
      BY <1>13, <2>2, HeadProperties DEF EndInv, Accepted
    <3>3. expired' = "none"
      BY <1>13, <2>2
    <3> QED
      BY <1>4, <1>13, <3>1, <3>2, <3>3
  <2> QED
    BY <2>1, <2>2
<1>14. CASE BodyLost
  <2>1. BodyFails /\ phase = "body" /\ UNCHANGED <<head, late>> /\ expired' = "none"
    BY <1>14 DEF BodyLost, EndInv
  <2> QED
    BY <1>13, <2>1
<1>15. CASE Deadline
  <2>1. UNCHANGED <<head, late>> /\ expired' = IF client THEN phase ELSE "none"
    BY <1>15 DEF Deadline
  <2>2. CASE phase = "head"
    <3>1. Fail(TransportKind(TRUE), 0)
      BY <1>15, <2>2 DEF Deadline
    <3>2. /\ expired' = "head" => TransportKind(TRUE) = "Timeout"
          /\ expired' # "body"
      BY <2>1, <2>2 DEF TransportKind
    <3> QED
      BY <1>4, <2>1, <3>1, <3>2
  <2>3. CASE phase = "body"
    <3>1. BodyFails /\ expired' # "head" /\ mode = "send"
      BY <1>15, <2>1, <2>3 DEF Deadline
    <3> QED
      BY <1>13, <2>1, <2>3, <3>1
  <2> QED
    BY <1>15, <2>2, <2>3 DEF Deadline
<1>16. CASE GiveUp
  <2>1. /\ phase = "loop" /\ phase' = "loop"
        /\ outcome = "running" /\ budget <= 0
        /\ outcome' \in {"error", "nilError"}
        /\ UNCHANGED <<head, late, expired, mode, fallbackOn, budget>>
        /\ failure' = failure \/ failure'.status = 0
    BY <1>16 DEF GiveUp, F!Exhausted, F!Finish, F!config, PlainError
  <2> QED
    BY <2>1 DEF EndInv, ErrorSaysError, DeadlineCounts, Telling
<1>17. CASE EndWithError
  <2>1. /\ phase = "loop" /\ phase' = "idle" /\ outcome = "error"
        /\ answer'.status = WrittenStatus(failure)
        /\ UNCHANGED <<head, late, expired, failure, mode, fallbackOn, budget, outcome>>
    BY <1>17 DEF EndWithError, Written, executor
  <2>2. /\ answer'.status \in Nat
        /\ answer'.status >= 400 \/ (mode = "send" /\ failure.kind = "Unknown" /\ answer'.status = head)
    BY <2>1, KindStatusIsError DEF EndInv, Telling, WrittenStatus
  <2>3. ErrorSaysError'
    BY <2>1, <2>2, KindStatusIsError DEF ErrorSaysError, Accepted, EndInv
  <2> QED
    BY <2>1, <2>3 DEF EndInv, DeadlineCounts
<1>18. CASE EndWithStream \/ EndWithReply
  <2>1. /\ phase = "loop" /\ phase' = "idle" /\ outcome # "running"
        /\ answer' = Ok \/ answer'.status = 409
        /\ UNCHANGED <<head, late, expired, failure, mode, fallbackOn, budget, outcome>>
    BY <1>18 DEF EndWithStream, EndWithReply, executor
  <2>2. ErrorSaysError'
    BY <2>1 DEF ErrorSaysError, Accepted
  <2> QED
    BY <2>1, <2>2 DEF EndInv, DeadlineCounts
<1>19. CASE ClientLeaves
  BY <1>19 DEF ClientLeaves, executor, EndInv, ErrorSaysError, DeadlineCounts, Telling
<1>20. ASSUME NEW msgs, Edit(msgs)
       PROVE  EndInv'
  BY <1>20 DEF Edit, executor, EndInv, ErrorSaysError, DeadlineCounts, Telling
<1>21. CASE UNCHANGED vars
  BY <1>21 DEF vars, executor, EndInv, ErrorSaysError, DeadlineCounts, Telling
<1> QED
  BY <1>1, <1>2, <1>3, <1>5, <1>6, <1>7, <1>8, <1>9, <1>10, <1>11, <1>12, <1>14, <1>15, <1>16,
     <1>17, <1>18, <1>19, <1>20, <1>21 DEF Next, Executor

\* The invariant holds throughout.
THEOREM Ends == Spec => []EndInv
<1> QED
  BY EndInvInit, EndInvStep, PTL DEF Spec

\* Once the client has left, and the attempt that it left is over, the loop of attempts
\* begins no more than one other (harness.go: only fallback_on_kinds may make it go on).
THEOREM GoneClientIsNoticed == Spec => []GoneClientEndsTheLoop
<1>1. EndInv => GoneClientEndsTheLoop
  BY DEF EndInv, GoneClientEndsTheLoop
<1> QED
  BY Ends, <1>1, PTL

\* A failure is not answered with a status of success, but for the body of an accepting
\* answer that could not be read or decoded (httpapi's writeError).
THEOREM FailureIsAnError == Spec => []ErrorSaysError
<1>1. EndInv => ErrorSaysError
  BY DEF EndInv
<1> QED
  BY Ends, <1>1, PTL

\* A deadline makes the executor go on to the next candidate where the kind that it is
\* given is a reason to, until there is none: Timeout if it passed before the headers
\* came (classifyTransport), Unknown if it passed while Send read the body.
THEOREM DeadlineIsNotTheEnd == Spec => []DeadlineMovesOn
<1>1. EndInv => DeadlineMovesOn
  BY DEF EndInv, DeadlineMovesOn, DeadlineCounts
<1> QED
  BY Ends, <1>1, PTL

-------------------------------------------------------------------------------
(* Types. *)

ExecutorOK ==
  /\ candidates \in Seq(Refs) /\ left \subseteq DOMAIN candidates
  /\ budget \in Int /\ maxAttempts \in Int /\ fallbackOn \subseteq ErrorKinds
  /\ mode \in {"send", "stream"} /\ outcome \in {"running", "reply", "error", "nilError"}

SessionOK ==
  /\ stored \in Seq(Message) /\ version \in Nat
  /\ authors \subseteq Adapters \cup {"nobody"} /\ stray \in BOOLEAN

InputsOK ==
  /\ expected \in Nat /\ asked \in Request /\ request \in Request /\ turns \in 0..MaxTurns

\* What the answer of a provider needs: only registered ones are asked.
ReplyIsOfRegistered == outcome = "reply" => Ref \in Registered

TypeInv == TypeOK /\ ReplyIsOfRegistered

\* The groups are all there is to the types.
LEMMA TypeGroups ==
  TypeOK <=> /\ ExecutorOK /\ SessionOK /\ InputsOK
             /\ phase \in {"idle", "loop", "head", "body"}
             /\ client \in BOOLEAN /\ head \in Statuses \cup {0}
             /\ failure \in Errors /\ reply \in Message /\ answer \in Answers
             /\ edits \in 0..MaxEdits
             /\ late \in Nat /\ expired \in {"none", "head", "body"}
BY DEF TypeOK, ExecutorOK, SessionOK, InputsOK

\* Candidates are references.
LEMMA PickTyped ==
  ASSUME NEW req
  PROVE  PickCandidates(req) \in Seq(Refs)
<1> DEFINE name == IF req.policy = NoPolicy THEN DefaultPolicy ELSE req.policy
<1>1. ASSUME name \in DOMAIN Candidates PROVE Pick(name, req) \in Seq(Refs)
  <2> DEFINE s == Candidates[name]
             D == {i \in 1..Len(s) : s[i] \in Catalogued => Satisfies(InfoOf[s[i]], Required(req))}
  <2>1. s \in Seq(Refs)
    BY <1>1, PoliciesAssumption DEF GoodPolicies
  <2>2. DOMAIN s = 1..Len(s)
    BY <2>1, LenProperties
  <2>3. Pick(name, req) = FlattenSeq([i \in DOMAIN s |-> IF i \in D THEN <<s[i]>> ELSE << >>])
    <3>1. [i \in DOMAIN s |-> IF s[i] \in Catalogued => Satisfies(InfoOf[s[i]], Required(req))
                              THEN <<s[i]>> ELSE << >>]
            = [i \in DOMAIN s |-> IF i \in D THEN <<s[i]>> ELSE << >>]
      BY <2>2
    <3> QED
      BY <3>1 DEF Pick, Filtered
  <2>4. D \in SUBSET (1..Len(s))
    OBVIOUS
  <2> HIDE DEF s, D
  <2> QED
    BY <2>1, <2>3, <2>4, FilterPicks
<1>2. CASE req.model \in Refs
  <2>1. PickCandidates(req) = <<req.model>>
    BY <1>2, RefsAreModels DEF PickCandidates
  <2> QED
    BY <1>2, <2>1
<1>3. CASE req.model \notin Refs /\ req.model = NoModel /\ name \in DOMAIN Candidates
  BY <1>1, <1>3 DEF PickCandidates
<1>4. CASE req.model \notin Refs /\ ~(req.model = NoModel /\ name \in DOMAIN Candidates)
  BY <1>4 DEF PickCandidates
<1> QED
  BY <1>2, <1>3, <1>4

\* The results of a client answer the calls of the last message; every adapter takes them.
LEMMA ResultsProperties ==
  ASSUME stored \in Seq(Message), HasOpenCalls
  PROVE  /\ Last(stored) \in Message
         /\ Len(stored) \in Nat /\ Len(stored) >= 1 /\ Last(stored) = stored[Len(stored)]
         /\ Results \in Message
         /\ \A a \in Adapters : Takes(a, Results)
         /\ \A j \in DOMAIN Results.content :
              \E i \in DOMAIN Last(stored).content :
                /\ IsCall(Last(stored).content[i])
                /\ Last(stored).content[i].id = Results.content[j].id
<1> DEFINE last  == Last(stored)
           calls == CallsOf(last)
           D     == {i \in 1..Len(last.content) : IsCall(last.content[i])}
           made  == [i \in DOMAIN calls |-> Result(calls[i].id, <<Text(Done)>>)]
<1>1. Len(stored) \in Nat /\ Len(stored) >= 1 /\ last = stored[Len(stored)] /\ last \in Message
  <2>1. Len(stored) \in Nat /\ Len(stored) >= 1
    BY LenProperties, EmptySeq DEF HasOpenCalls
  <2>2. last = stored[Len(stored)]
    BY DEF Last
  <2>3. stored[Len(stored)] \in Message
    BY <2>1, ElementOfSeq
  <2> QED
    BY <2>1, <2>2, <2>3
<1> HIDE DEF last
<1>2. last.content \in Seq(Block) /\ DOMAIN last.content = 1..Len(last.content)
  BY <1>1, MessageParts
<1>3. calls \in Seq(CallBlock) /\ \E at : Picks(at, D, last.content, calls)
  BY <1>2, CallsPicked DEF CallsOf
<1>4. Results = Says("tool", made) /\ "tool" \in Roles
  BY DEF Results, Roles, last
<1> HIDE DEF calls
<1>5. DOMAIN calls = 1..Len(calls) /\ Len(calls) \in Nat
  BY <1>3, LenProperties
<1>6. Text(Done) \in Plain /\ Text(Done).kind = "text"
  BY InputsAssumption, BlocksMade DEF Text
<1>7. <<Text(Done)>> \in Seq(Plain)
  BY <1>6
<1>8. ASSUME NEW k \in 1..Len(calls)
      PROVE  /\ made[k] \in Block /\ IsResult(made[k])
             /\ made[k].id = calls[k].id
             /\ made[k].content = <<Text(Done)>>
  <2>1. calls[k] \in CallBlock
    BY <1>3, ElementOfSeq
  <2>2. made[k] = Result(calls[k].id, <<Text(Done)>>)
    BY <1>5
  <2> HIDE DEF made
  <2>3. calls[k].id \in Id
    BY <2>1 DEF CallBlock
  <2>4. made[k] \in Block
    BY <1>7, <2>2, <2>3, BlocksMade
  <2> QED
    BY <2>2, <2>4 DEF Result, IsResult
<1>9. made \in Seq(Block) /\ DOMAIN made = 1..Len(calls)
  BY <1>5, <1>8
<1> HIDE DEF made
<1>10. Results \in Message /\ Results.role = "tool" /\ Results.content = made
  BY <1>4, <1>9, SaysMessage
<1>11. ASSUME NEW a \in Adapters PROVE Takes(a, Results)
  <2>1. \A i \in DOMAIN Results.content :
          /\ IsResult(Results.content[i])
          /\ \A j \in DOMAIN Results.content[i].content :
               Results.content[i].content[j].kind = "text"
    BY <1>6, <1>8, <1>9, <1>10
  <2>2. CASE a = "anthropic"
    BY <1>10, <2>1, <2>2 DEF Takes, AnthropicTakes, AnthropicTakesBlock, AnthropicTakesPart
  <2>3. CASE a = "openai"
    BY <1>10, <2>1, <2>3 DEF Takes, OpenAITakes, Holds, IsResult
  <2>4. CASE a = "ollama"
    BY <1>10, <2>1, <2>4 DEF Takes, OllamaTakes, Holds, IsResult
  <2> QED
    BY <2>2, <2>3, <2>4 DEF Adapters
<1>12. ASSUME NEW j \in DOMAIN Results.content
       PROVE  \E i \in DOMAIN last.content :
                IsCall(last.content[i]) /\ last.content[i].id = Results.content[j].id
  <2>1. j \in 1..Len(calls) /\ Results.content[j].id = calls[j].id
    BY <1>8, <1>9, <1>10
  <2>2. PICK i \in D : calls[j] = last.content[i]
    BY <1>3, <2>1 DEF Picks
  <2> QED
    BY <1>2, <2>1, <2>2
<1> QED
  BY <1>1, <1>10, <1>11, <1>12 DEF last

\* What clients ask is a request.
LEMMA AskTyped ==
  ASSUME stored \in Seq(Message), NEW ask \in ClientAsks
  PROVE  ask \in Request
<1>1. CASE ask \in Asks
  BY <1>1, InputsAssumption
<1>2. CASE ask \notin Asks
  <2>1. PICK msgs \in Answering : ask = [FollowUp EXCEPT !.messages = msgs]
    BY <1>2 DEF ClientAsks
  <2>2. msgs \in Seq(Message)
    <3>1. HasOpenCalls /\ msgs \in {<<Results>>, <<Last(stored), Results>>}
      BY <2>1 DEF Answering
    <3>2. Results \in Message /\ Last(stored) \in Message
      BY <3>1, ResultsProperties
    <3> DEFINE results == Results
               last    == Last(stored)
    <3>3. msgs \in {<<results>>, <<last, results>>} /\ results \in Message /\ last \in Message
      BY <3>1, <3>2
    <3> HIDE DEF results, last
    <3>4. <<results>> \in Seq(Message)
      BY <3>3
    <3>5. <<last, results>> \in Seq(Message)
      BY <3>3
    <3> QED
      BY <3>3, <3>4, <3>5
  <2> QED
    BY <2>1, <2>2, InputsAssumption DEF Request
<1> QED
  BY <1>1, <1>2

\* The request that providers are sent is the client's behind the session.
LEMMA MergedTyped ==
  ASSUME stored \in Seq(Message), NEW ask \in Request
  PROVE  /\ Merged(ask) \in Request
         /\ Merged(ask).messages = stored \o ask.messages
<1>1. /\ ask.messages \in Seq(Message) /\ ask.system \in Seq(Words)
      /\ Prompt \in Seq(Words)
  BY InputsAssumption DEF Request
<1>2. stored \o ask.messages \in Seq(Message)
  BY <1>1, ConcatProperties
<1> QED
  BY <1>1, <1>2 DEF Merged, Request

\* The executor counts as this module does.
LEMMA SameCardinality == \A S : F!Cardinality(S) = Cardinality(S)
BY DEF F!Cardinality, Cardinality, F!IsFiniteSet, IsFiniteSet

\* The end of an attempt with an error.
LEMMA FailTyped ==
  ASSUME ExecutorOK, NEW kind \in ErrorKinds, NEW status \in Nat, Fail(kind, status)
  PROVE  /\ ExecutorOK' /\ outcome' # "reply" /\ outcome = "running"
         /\ failure' \in Errors
         /\ phase' = "loop"
         /\ UNCHANGED <<session, inputs, client, answer, edits, reply>>
<1>1. /\ failure' = [status |-> status, kind |-> kind] /\ phase' = "loop"
      /\ UNCHANGED <<session, inputs, client, answer, edits, reply>>
      /\ \/ F!FailAndHalt(kind, FALSE)
         \/ F!FailAndAdvance(kind, FALSE)
         \/ F!FailAndGoLarger(FALSE)
  BY DEF Fail, Rest
<1>2. /\ UNCHANGED <<mode, candidates, maxAttempts, fallbackOn>>
      /\ outcome = "running"
      /\ outcome' \in {"running", "error"}
      /\ left' \subseteq left
      /\ budget' \in {budget, budget - 1, Cardinality(left')}
  <2>1. CASE F!FailAndHalt(kind, FALSE)
    BY <2>1 DEF F!FailAndHalt, F!Running, F!Finish, F!config
  <2>2. CASE F!FailAndAdvance(kind, FALSE)
    BY <2>2 DEF F!FailAndAdvance, F!Running, F!Advance, F!config
  <2>3. CASE F!FailAndGoLarger(FALSE)
    BY <2>3, SameCardinality DEF F!FailAndGoLarger, F!Running, F!config, F!LargerContext
  <2> QED
    BY <1>1, <2>1, <2>2, <2>3
<1>3. Cardinality(left') \in Nat
  <2>1. DOMAIN candidates = 1..Len(candidates) /\ Len(candidates) \in Nat
    BY LenProperties DEF ExecutorOK
  <2>2. IsFiniteSet(1..Len(candidates))
    BY <2>1, FS_Interval
  <2>3. left' \in SUBSET (1..Len(candidates))
    BY <1>2, <2>1 DEF ExecutorOK
  <2> QED
    BY <2>2, <2>3, FS_Subset, FS_CardinalityType
<1>4. ExecutorOK'
  BY <1>2, <1>3 DEF ExecutorOK
<1>5. failure' \in Errors
  BY <1>1 DEF Errors
<1> QED
  BY <1>1, <1>2, <1>4, <1>5

\* A provider's answer keeps its kinds of blocks and its inputs; its calls get their ids.
LEMMA NumberedTyped ==
  ASSUME request \in Request, NEW parts \in Parts
  PROVE  /\ Numbered(parts) \in Seq(AnswerBlock)
         /\ DOMAIN Numbered(parts) = DOMAIN parts
         /\ \A i \in DOMAIN parts : IsCall(Numbered(parts)[i]) =>
              IsCall(parts[i]) /\ Numbered(parts)[i].input = parts[i].input
<1>1. parts \in Seq(AnswerBlock) /\ DOMAIN parts = 1..Len(parts) /\ Len(parts) \in Nat
  BY InputsAssumption, LenProperties
<1>2. Len(request.messages) \in Nat
  BY LenProperties DEF Request
<1> DEFINE n == Len(request.messages)
           made == Numbered(parts)
<1>3. made = [i \in DOMAIN parts |-> IF IsCall(parts[i]) THEN [parts[i] EXCEPT !.id = <<n, i>>]
                                     ELSE parts[i]]
  BY DEF Numbered
<1>4. n \in Nat
  BY <1>2
<1> HIDE DEF n, made
<1>5. ASSUME NEW i \in 1..Len(parts)
      PROVE  made[i] \in AnswerBlock /\ (IsCall(made[i]) => IsCall(parts[i]) /\ made[i].input = parts[i].input)
  <2> DEFINE b == parts[i]
  <2>1. b \in AnswerBlock
    BY <1>1, ElementOfSeq
  <2>2. made[i] = IF IsCall(b) THEN [b EXCEPT !.id = <<n, i>>] ELSE b
    BY <1>1, <1>3
  <2> HIDE DEF b
  <2>3. CASE ~IsCall(b)
    BY <2>1, <2>2, <2>3 DEF b
  <2>4. CASE IsCall(b)
    <3>1. b \in CallBlock
      BY <2>1, <2>4, BlockKinds DEF AnswerBlock
    <3>2. <<n, i>> \in Id
      BY <1>1, <1>4 DEF Id
    <3>3. /\ [b EXCEPT !.id = <<n, i>>] \in CallBlock
          /\ [b EXCEPT !.id = <<n, i>>].kind = "tool_use"
          /\ [b EXCEPT !.id = <<n, i>>].input = b.input
      BY <3>1, <3>2 DEF CallBlock
    <3>4. made[i] \in CallBlock /\ made[i].kind = "tool_use" /\ made[i].input = b.input
      BY <2>2, <2>4, <3>3
    <3>5. made[i] \in AnswerBlock
      BY <3>4 DEF AnswerBlock, Block, CallBlock, IsResult, IsImage
    <3> QED
      BY <2>4, <3>4, <3>5 DEF b
  <2> QED
    BY <2>3, <2>4
<1>6. made \in Seq(AnswerBlock) /\ DOMAIN made = DOMAIN parts
  BY <1>1, <1>3, <1>5
<1> QED
  BY <1>1, <1>5, <1>6 DEF made

\* What the provider of the current candidate answered.
LEMMA AnswerReadProperties ==
  ASSUME request \in Request, NEW parts \in Parts, AnswerRead(parts)
  PROVE  /\ Ref \in Registered /\ Adapter \in Adapters
         /\ reply' \in Message
         /\ \A i \in DOMAIN reply'.content : ~IsResult(reply'.content[i])
         /\ Takes(Adapter, reply')
<1>1. Ref \in Registered /\ reply' = Reply(Adapter, Numbered(parts))
  BY DEF AnswerRead, F!Reply, Ref
<1>2. Adapter \in Adapters
  BY <1>1, AdaptersAssumption DEF Adapter
<1>3. \A i \in DOMAIN parts : IsCall(parts[i]) => parts[i].input \in DecodedInputs(Adapter)
  BY DEF AnswerRead
<1> DEFINE a == Adapter
           numbered == Numbered(parts)
<1>4. /\ a \in Adapters /\ numbered \in Seq(AnswerBlock)
      /\ \A i \in DOMAIN numbered : IsCall(numbered[i]) => numbered[i].input \in DecodedInputs(a)
  BY <1>2, <1>3, NumberedTyped
<1> HIDE DEF a, numbered
<1>5. /\ Reply(a, numbered) \in Message
      /\ \A i \in DOMAIN Reply(a, numbered).content : ~IsResult(Reply(a, numbered).content[i])
      /\ Takes(a, Reply(a, numbered))
  BY <1>4, ReplyProperties
<1> QED
  BY <1>1, <1>2, <1>5 DEF a, numbered

\* No kind that an exchange ends with is new.
LEMMA KindsOfExchanges ==
  /\ \A status, overflow : Classify(status, overflow) \in ErrorKinds
  /\ \A passed : TransportKind(passed) \in ErrorKinds
  /\ {"ToolsUnsupported", "InvalidRequest", "Unknown"} \subseteq ErrorKinds
<1>1. \A status, overflow : StatusKind(status, overflow) \in ErrorKinds
  BY DEF StatusKind, ErrorKinds
<1>2. \A status, overflow : OllamaStatusKind(status, overflow) \in ErrorKinds
  BY DEF OllamaStatusKind, ErrorKinds
<1> QED
  BY <1>1, <1>2 DEF Classify, TransportKind, ErrorKinds

\* A turn begins: everything but the answer and the executor.
LEMMA ReceiveTyped ==
  ASSUME TypeInv, NEW ask \in ClientAsks, Receive(ask)
  PROVE  /\ InputsOK' /\ failure' \in Errors /\ reply' \in Message
         /\ client' = TRUE /\ head' = 0 /\ late' = 0 /\ expired' = "none"
         /\ UNCHANGED <<session, edits>>
<1>1. stored \in Seq(Message) /\ version \in Nat /\ turns \in 0..MaxTurns
  BY DEF TypeInv, TypeOK
<1>2. /\ turns < MaxTurns /\ turns' = turns + 1 /\ asked' = ask /\ request' = Merged(ask)
      /\ expected' = version /\ failure' = PlainError /\ reply' = NoMessage
      /\ client' = TRUE /\ head' = 0 /\ late' = 0 /\ expired' = "none"
      /\ UNCHANGED <<session, edits>>
  BY DEF Receive
<1>3. ask \in Request /\ Merged(ask) \in Request
  BY <1>1, AskTyped, MergedTyped
<1>4. InputsOK'
  BY <1>1, <1>2, <1>3, BoundsAssumption DEF InputsOK
<1>5. PlainError \in Errors
  BY DEF PlainError, Errors
<1>6. NoMessage \in Message
  BY DEF NoMessage, Says, Message, Roles
<1> QED
  BY <1>2, <1>4, <1>5, <1>6

\* What a client is told.
LEMMA WrittenTyped ==
  ASSUME failure \in Errors
  PROVE  Written(failure) \in Answers
<1>1. failure.status \in Nat /\ failure.kind \in ErrorKinds \cup {F!NotTyped}
  BY DEF Errors
<1>2. WrittenStatus(failure) \in Nat
  BY <1>1, KindStatusIsError DEF WrittenStatus
<1>3. "Unknown" \in ErrorKinds
  BY DEF ErrorKinds
<1> QED
  BY <1>1, <1>2, <1>3 DEF Written, Answers

\* What others append are messages.
LEMMA EditTyped ==
  ASSUME stored \in Seq(Message),
         NEW msgs \in Edits \cup (IF HasOpenCalls THEN {<<Results>>} ELSE {})
  PROVE  msgs \in Seq(Message)
<1>1. CASE msgs \in Edits
  BY <1>1, InputsAssumption
<1>2. CASE msgs \notin Edits
  <2>1. HasOpenCalls /\ msgs = <<Results>>
    BY <1>2
  <2>2. Results \in Message
    BY <2>1, ResultsProperties
  <2> DEFINE results == Results
  <2>3. msgs = <<results>> /\ results \in Message
    BY <2>1, <2>2
  <2> HIDE DEF results
  <2> QED
    BY <2>3
<1> QED
  BY <1>1, <1>2

\* The session is empty, and no turn has begun.
LEMMA TypeInvInit == Init => TypeInv
<1> SUFFICES ASSUME Init PROVE TypeInv
  OBVIOUS
<1>1. ExecutorOK
  <2>1. \A n \in AttemptCaps : MaxAttemptsOf(n) \in Int
    BY SettingsAssumption DEF MaxAttemptsOf
  <2>2. /\ candidates = << >> /\ left = {} /\ budget = 0 /\ maxAttempts \in Int
        /\ fallbackOn \in FallbackSets /\ mode = "send" /\ outcome = "error"
    BY <2>1 DEF Init
  <2>3. candidates \in Seq(Refs)
    BY <2>2
  <2>4. fallbackOn \subseteq ErrorKinds
    BY <2>2, SettingsAssumption
  <2> QED
    BY <2>2, <2>3, <2>4 DEF ExecutorOK
<1>2. SessionOK
  <2>1. stored = << >> /\ version = 0 /\ authors = {} /\ stray = FALSE
    BY DEF Init
  <2>2. stored \in Seq(Message)
    BY <2>1
  <2> QED
    BY <2>1, <2>2 DEF SessionOK
<1>3. InputsOK
  BY InputsAssumption, BoundsAssumption DEF Init, InputsOK
<1>4. PlainError \in Errors /\ NoMessage \in Message /\ NoAnswer \in Answers
  BY DEF PlainError, Errors, NoMessage, Says, Message, Roles, NoAnswer, Answers
<1>5. ReplyIsOfRegistered
  BY DEF Init, ReplyIsOfRegistered
<1> QED
  BY <1>1, <1>2, <1>3, <1>4, <1>5, TypeGroups, BoundsAssumption DEF Init, TypeInv

\* Every step keeps the types.
LEMMA TypeInvStep == TypeInv /\ [Next]_vars => TypeInv'
<1> SUFFICES ASSUME TypeInv, [Next]_vars PROVE TypeInv'
  OBVIOUS
<1>0. /\ TypeOK /\ ReplyIsOfRegistered
      /\ ExecutorOK /\ SessionOK /\ InputsOK
      /\ phase \in {"idle", "loop", "head", "body"}
      /\ client \in BOOLEAN /\ head \in Statuses \cup {0} /\ head \in Nat
      /\ failure \in Errors /\ reply \in Message /\ answer \in Answers
      /\ edits \in 0..MaxEdits
      /\ late \in Nat /\ expired \in {"none", "head", "body"}
  <2>1. TypeOK /\ ReplyIsOfRegistered
    BY DEF TypeInv
  <2>2. head \in Nat
    BY <2>1, HeadProperties DEF TypeOK
  <2> QED
    BY <2>1, <2>2, TypeGroups
\* What has to be shown of each step.
<1>00. ASSUME ExecutorOK', SessionOK', InputsOK', ReplyIsOfRegistered',
              phase' \in {"idle", "loop", "head", "body"},
              client' \in BOOLEAN, head' \in Statuses \cup {0},
              failure' \in Errors, reply' \in Message, answer' \in Answers,
              edits' \in 0..MaxEdits,
              late' \in Nat, expired' \in {"none", "head", "body"}
       PROVE  TypeInv'
  BY <1>00 DEF TypeInv, TypeOK, ExecutorOK, SessionOK, InputsOK
\* The groups depend on their own variables only.
<1>01. UNCHANGED executor => ExecutorOK' /\ ReplyIsOfRegistered'
  BY <1>0 DEF executor, ExecutorOK, ReplyIsOfRegistered, Ref, F!Ref, F!Current, F!Next1
<1>02. UNCHANGED session => SessionOK'
  BY <1>0 DEF session, SessionOK
<1>03. UNCHANGED inputs => InputsOK'
  BY <1>0 DEF inputs, InputsOK
<1>1. ASSUME NEW ask \in ClientAsks, Refuse(ask) \/ NoCandidate(ask)
      PROVE  TypeInv'
  <2>1. Receive(ask) /\ phase' = phase /\ UNCHANGED executor
    BY <1>1 DEF Refuse, NoCandidate
  <2>2. answer' \in Answers
    BY <1>1 DEF Refuse, NoCandidate, Answers, ErrorKinds
  <2>3. /\ InputsOK' /\ failure' \in Errors /\ reply' \in Message
        /\ client' = TRUE /\ head' = 0 /\ late' = 0 /\ expired' = "none"
        /\ UNCHANGED <<session, edits>>
    BY <2>1, ReceiveTyped
  <2> QED
    BY <1>0, <1>00, <1>01, <1>02, <2>1, <2>2, <2>3
<1>2. ASSUME NEW ask \in ClientAsks, NEW md \in Modes, Start(ask, md)
      PROVE  TypeInv'
  <2>1. /\ Receive(ask)
        /\ candidates' = PickCandidates(Merged(ask))
        /\ mode' = md /\ left' = DOMAIN candidates'
        /\ budget' = F!Budget(maxAttempts, md, Len(candidates'))
        /\ outcome' = "running" /\ phase' = "loop" /\ answer' = NoAnswer
        /\ UNCHANGED <<maxAttempts, fallbackOn>>
    BY <1>2 DEF Start, Picked
  <2>2. candidates' \in Seq(Refs) /\ Len(candidates') \in Nat
    BY <2>1, PickTyped, LenProperties
  <2>3. ExecutorOK' /\ ReplyIsOfRegistered'
    BY <1>0, <2>1, <2>2, SettingsAssumption DEF ExecutorOK, ReplyIsOfRegistered, F!Budget
  <2>4. /\ InputsOK' /\ failure' \in Errors /\ reply' \in Message
        /\ client' = TRUE /\ head' = 0 /\ late' = 0 /\ expired' = "none"
        /\ UNCHANGED <<session, edits>>
    BY <2>1, ReceiveTyped
  <2>5. answer' \in Answers
    BY <2>1 DEF NoAnswer, Answers
  <2> QED
    BY <1>0, <1>00, <1>02, <2>1, <2>3, <2>4, <2>5
<1>3. CASE Skip
  <2>1. /\ UNCHANGED <<session, inputs, client, answer, edits, phase, reply, late>>
        /\ F!SkipUnregistered
        /\ failure' = PlainError /\ head' = 0 /\ expired' = "none"
    BY <1>3 DEF Skip, Rest
  <2>2. ExecutorOK' /\ ReplyIsOfRegistered'
    BY <1>0, <2>1 DEF F!SkipUnregistered, F!Running, F!Advance, F!config, ExecutorOK,
                      ReplyIsOfRegistered
  <2>3. PlainError \in Errors
    BY DEF PlainError, Errors
  <2> QED
    BY <1>0, <1>00, <1>02, <1>03, <2>1, <2>2, <2>3
<1>4. ASSUME NEW kind \in ErrorKinds, NEW status \in Nat, Fail(kind, status),
             head' = head \/ head' = 0, late' \in {late, late + 1},
             expired' \in {"none", "head", "body"}
      PROVE  TypeInv'
  <2>1. /\ ExecutorOK' /\ outcome' # "reply"
        /\ failure' \in Errors
        /\ phase' = "loop"
        /\ UNCHANGED <<session, inputs, client, answer, edits, reply>>
    BY <1>0, <1>4, FailTyped
  <2>2. ReplyIsOfRegistered'
    BY <2>1 DEF ReplyIsOfRegistered
  <2>3. head' \in Statuses \cup {0} /\ late' \in Nat
    BY <1>0, <1>4
  <2> QED
    BY <1>0, <1>00, <1>02, <1>03, <1>4, <2>1, <2>2, <2>3
<1>5. CASE NotSent
  <2>1. late' = late /\ head' = 0 /\ expired' = "none"
    BY <1>5 DEF NotSent, Attempt
  <2>2. Fail("ToolsUnsupported", 0) \/ Fail("InvalidRequest", 0)
    BY <1>5 DEF NotSent
  <2>3. "ToolsUnsupported" \in ErrorKinds /\ "InvalidRequest" \in ErrorKinds
    BY KindsOfExchanges
  <2> QED
    BY <1>4, <2>1, <2>2, <2>3
<1>6. CASE Send
  <2>1. /\ phase' = "head" /\ head' = 0 /\ expired' = "none"
        /\ UNCHANGED <<session, inputs, client, answer, edits, executor, failure, reply, late>>
    BY <1>6 DEF Send, CanSend, Attempt, Rest
  <2> QED
    BY <1>0, <1>00, <1>01, <1>02, <1>03, <2>1
<1>7. CASE SendTooLate
  <2>1. /\ late' = late + 1 /\ head' = 0 /\ expired' = "none"
        /\ Fail(TransportKind(FALSE), 0)
    BY <1>7 DEF SendTooLate, CanSend, Attempt
  <2> QED
    BY <1>4, <2>1, KindsOfExchanges
<1>8. ASSUME NEW status \in Statuses, HeadersArrive(status)
      PROVE  TypeInv'
  <2>1. /\ head' = status /\ phase' \in {"loop", "body"}
        /\ UNCHANGED <<session, inputs, client, answer, edits, failure, reply, late, expired>>
        /\ F!Reply \/ UNCHANGED executor
    BY <1>8 DEF HeadersArrive, Rest
  <2>2. ExecutorOK' /\ ReplyIsOfRegistered'
    BY <1>0, <1>01, <2>1 DEF F!Reply, F!Running, F!Finish, F!config, ExecutorOK,
                      ReplyIsOfRegistered, Ref, F!Ref, F!Current, F!Next1
  <2> QED
    BY <1>0, <1>00, <1>02, <1>03, <2>1, <2>2
<1>9. CASE HeadLost
  <2>1. UNCHANGED <<head, late, expired>> /\ Fail(TransportKind(FALSE), 0)
    BY <1>9 DEF HeadLost
  <2> QED
    BY <1>0, <1>4, <2>1, KindsOfExchanges
<1>10. ASSUME NEW parts \in Parts, AnswerRead(parts)
       PROVE  TypeInv'
  <2>1. /\ phase' = "loop" /\ F!Reply
        /\ UNCHANGED <<session, inputs, client, answer, edits, head, failure, late, expired>>
    BY <1>10 DEF AnswerRead, Rest
  <2>2. ExecutorOK' /\ ReplyIsOfRegistered'
    BY <1>0, <2>1 DEF F!Reply, F!Running, F!Finish, F!config, ExecutorOK,
                      ReplyIsOfRegistered, Ref, F!Ref, F!Current, F!Next1
  <2>3. reply' \in Message
    BY <1>0, <1>10, AnswerReadProperties DEF InputsOK
  <2> QED
    BY <1>0, <1>00, <1>02, <1>03, <2>1, <2>2, <2>3
<1>11. CASE Undecodable
  <2>1. UNCHANGED <<head, late, expired>> /\ Fail("Unknown", head)
    BY <1>11 DEF Undecodable
  <2> QED
    BY <1>0, <1>4, <2>1, KindsOfExchanges
<1>12. ASSUME NEW overflow \in BOOLEAN, ErrorRead(overflow)
       PROVE  TypeInv'
  <2>1. UNCHANGED <<head, late, expired>> /\ Fail(Classify(head, overflow), head)
    BY <1>12 DEF ErrorRead
  <2> QED
    BY <1>0, <1>4, <2>1, KindsOfExchanges
<1>13. ASSUME BodyFails, UNCHANGED <<head, late>>, expired' \in {"none", "head", "body"}
       PROVE  TypeInv'
  <2>1. PICK kind : Fail(kind, head) /\ kind \in ErrorKinds
    BY <1>13, KindsOfExchanges DEF BodyFails
  <2> QED
    BY <1>0, <1>4, <1>13, <2>1
<1>14. CASE BodyLost
  <2>1. BodyFails /\ UNCHANGED <<head, late, expired>>
    BY <1>14 DEF BodyLost
  <2> QED
    BY <1>0, <1>13, <2>1
<1>15. CASE Deadline
  <2>1. /\ UNCHANGED <<head, late>> /\ expired' \in {"none", "head", "body"}
        /\ BodyFails \/ Fail(TransportKind(TRUE), 0)
    BY <1>15 DEF Deadline
  <2> QED
    BY <1>0, <1>4, <1>13, <2>1, KindsOfExchanges
<1>16. CASE GiveUp
  <2>1. /\ UNCHANGED <<session, inputs, client, answer, edits, phase, head, reply, late, expired>>
        /\ failure' \in {PlainError, failure}
        /\ F!Exhausted
    BY <1>16 DEF GiveUp, Rest
  <2>2. ExecutorOK' /\ ReplyIsOfRegistered'
    BY <1>0, <2>1 DEF F!Exhausted, F!Finish, F!config, ExecutorOK, ReplyIsOfRegistered
  <2>3. PlainError \in Errors
    BY DEF PlainError, Errors
  <2> QED
    BY <1>0, <1>00, <1>02, <1>03, <2>1, <2>2, <2>3
<1>17. CASE EndWithError \/ EndWithStream
  <2>1. /\ phase' = "idle" /\ answer' \in {Written(failure), Ok}
        /\ UNCHANGED <<session, inputs, client, head, failure, reply, executor, edits, late, expired>>
    BY <1>17 DEF EndWithError, EndWithStream
  <2>2. Written(failure) \in Answers
    BY <1>0, WrittenTyped
  <2>3. Ok \in Answers
    BY DEF Ok, Answers
  <2> QED
    BY <1>0, <1>00, <1>01, <1>02, <1>03, <2>1, <2>2, <2>3
<1>18. CASE EndWithReply
  <2>1. /\ phase' = "idle"
        /\ outcome \in {"reply", "nilError"}
        /\ UNCHANGED <<stray, inputs, client, head, failure, reply, executor, edits, late, expired>>
        /\ \/ /\ stored' = stored \o asked.messages \o <<reply>>
              /\ version' = version + 1
              /\ authors' = authors \cup {IF outcome = "reply" THEN Adapter ELSE "nobody"}
              /\ answer' = Ok
           \/ /\ answer' = [status |-> 409, kind |-> "VersionConflict"]
              /\ UNCHANGED <<stored, version, authors>>
    BY <1>18 DEF EndWithReply
  <2>2. answer' \in Answers
    BY <2>1 DEF Ok, Answers
  <2>3. SessionOK'
    <3>1. asked.messages \in Seq(Message) /\ <<reply>> \in Seq(Message)
      BY <1>0 DEF InputsOK, Request
    <3>2. stored \o asked.messages \o <<reply>> \in Seq(Message)
      BY <1>0, <3>1, ConcatProperties DEF SessionOK
    <3>3. outcome = "reply" => Adapter \in Adapters
      BY <1>0, AdaptersAssumption DEF Adapter, ReplyIsOfRegistered
    <3>4. authors' \subseteq Adapters \cup {"nobody"}
      BY <1>0, <2>1, <3>3 DEF SessionOK
    <3>5. stored' \in Seq(Message) /\ version' \in Nat
      <4> DEFINE grown == stored \o asked.messages \o <<reply>>
      <4>1. stored' = grown \/ stored' = stored
        BY <2>1
      <4>2. grown \in Seq(Message) /\ stored \in Seq(Message) /\ version \in Nat
        BY <1>0, <3>2 DEF SessionOK
      <4>3. version' \in Nat
        BY <2>1, <4>2
      <4> HIDE DEF grown
      <4> QED
        BY <4>1, <4>2, <4>3
    <3>6. stray' \in BOOLEAN
      BY <1>0, <2>1 DEF SessionOK
    <3> QED
      BY <3>4, <3>5, <3>6 DEF SessionOK
  <2> QED
    BY <1>0, <1>00, <1>01, <1>03, <2>1, <2>2, <2>3
<1>19. CASE ClientLeaves
  <2>1. /\ client' = FALSE
        /\ UNCHANGED <<session, inputs, phase, head, failure, reply, answer, executor, edits,
                       late, expired>>
    BY <1>19 DEF ClientLeaves
  <2> QED
    BY <1>0, <1>00, <1>01, <1>02, <1>03, <2>1
<1>20. ASSUME NEW msgs \in Edits \cup (IF HasOpenCalls THEN {<<Results>>} ELSE {}), Edit(msgs)
       PROVE  TypeInv'
  <2>1. /\ edits < MaxEdits /\ edits' = edits + 1
        /\ stored' = stored \o msgs /\ version' = version + 1
        /\ stray' \in BOOLEAN
        /\ UNCHANGED <<authors, inputs, phase, client, head, failure, reply, answer, executor,
                       late, expired>>
    <3>1. stray' = (stray \/ ~(HasOpenCalls /\ msgs = <<Results>>))
      BY <1>20 DEF Edit
    <3> QED
      BY <1>20, <3>1 DEF Edit
  <2>2. msgs \in Seq(Message)
    BY <1>0, <1>20, EditTyped DEF SessionOK
  <2>3. SessionOK'
    <3>1. stored \o msgs \in Seq(Message)
      BY <1>0, <2>2, ConcatProperties DEF SessionOK
    <3> QED
      BY <1>0, <2>1, <3>1 DEF SessionOK
  <2>4. edits' \in 0..MaxEdits
    BY <1>0, <2>1, BoundsAssumption
  <2> QED
    BY <1>0, <1>00, <1>01, <1>03, <2>1, <2>3, <2>4
<1>21. CASE UNCHANGED vars
  <2>1. UNCHANGED <<session, inputs, phase, client, head, failure, reply, answer, executor,
                    edits, late, expired>>
    BY <1>21 DEF vars
  <2> QED
    BY <1>0, <1>00, <1>01, <1>02, <1>03, <2>1
<1> QED
  BY <1>1, <1>2, <1>3, <1>5, <1>6, <1>7, <1>8, <1>9, <1>10, <1>11, <1>12, <1>14, <1>15, <1>16,
     <1>17, <1>18, <1>19, <1>20, <1>21 DEF Next, Executor

\* The types hold throughout, and a reply comes from a registered provider.
THEOREM Types == Spec => []TypeInv
<1> QED
  BY TypeInvInit, TypeInvStep, PTL DEF Spec

\* The types of the variables, the session's messages among them: whatever the adapters
\* make of an answer is a message of the normalized conversation.
THEOREM TypeCorrect == Spec => []TypeOK
<1>1. TypeInv => TypeOK
  BY DEF TypeInv
<1> QED
  BY Types, <1>1, PTL

-------------------------------------------------------------------------------
(* The conversation: what the session gathers can be sent on. *)

NoResults(m) == \A i \in DOMAIN m.content : ~IsResult(m.content[i])

\* What was stored by turns, and the results that other clients appended, is sound: results
\* have their calls, and one adapter takes back all that it answered.
SessionFollows ==
  ~stray => /\ ResultsFollowCalls(stored)
            /\ \A a \in Adapters : authors \subseteq {a} => Builds(a, stored)

\* What is sent is what the session held and the client asked, also once others appended.
TurnFollows ==
  /\ version = expected => request.messages = stored \o asked.messages
  /\ \A i \in DOMAIN request.messages :
       \/ \E j \in DOMAIN stored : request.messages[i] = stored[j]
       \/ \E j \in DOMAIN asked.messages : request.messages[i] = asked.messages[j]
  /\ ~stray => ResultsFollowCalls(request.messages)

AttemptFollows ==
  /\ phase \in {"head", "body"} => Ref \in Registered /\ Builds(Adapter, request.messages)
  /\ phase = "loop" /\ outcome = "reply" /\ mode = "send" =>
       Builds(Adapter, request.messages) /\ Takes(Adapter, reply)

Conversation ==
  /\ TypeInv
  /\ expected <= version
  /\ NoResults(reply)
  /\ SessionFollows
  /\ phase # "idle" => TurnFollows
  /\ AttemptFollows

\* The reply of a turn that none came to.
LEMMA NoMessageHasNoResults == NoResults(NoMessage)
<1>1. NoMessage.content = << >>
  BY DEF NoMessage, Says
<1> QED
  BY <1>1 DEF NoResults

\* Nothing was said yet.
LEMMA ConversationInit == Init => Conversation
<1> SUFFICES ASSUME Init PROVE Conversation
  OBVIOUS
<1>1. TypeInv
  BY TypeInvInit
<1>2. expected <= version /\ phase = "idle" /\ stored = << >> /\ reply = NoMessage
  BY DEF Init
<1>3. NoResults(reply)
  BY <1>2, NoMessageHasNoResults
<1>4. SessionFollows
  BY <1>2 DEF SessionFollows, ResultsFollowCalls, Builds
<1>5. AttemptFollows
  BY <1>2 DEF AttemptFollows
<1> QED
  BY <1>1, <1>2, <1>3, <1>4, <1>5 DEF Conversation

\* A turn that passed preflight, behind the history.
LEMMA ReceiveFollows ==
  ASSUME Conversation, NEW ask \in ClientAsks, Receive(ask)
  PROVE  /\ expected' <= version' /\ NoResults(reply') /\ SessionFollows'
         /\ Validate(ask) => TurnFollows'
<1>1. stored \in Seq(Message) /\ version \in Nat /\ ask \in Request /\ ask.messages \in Seq(Message)
  BY AskTyped DEF Conversation, TypeInv, TypeOK, Request
<1>2. /\ asked' = ask /\ request' = Merged(ask) /\ expected' = version
      /\ reply' = NoMessage
      /\ stored' = stored /\ version' = version /\ authors' = authors /\ stray' = stray
  BY DEF Receive, session
<1>3. request'.messages = stored \o ask.messages
  BY <1>1, <1>2, MergedTyped
<1>4. expected' <= version' /\ NoResults(reply') /\ SessionFollows'
  <2>1. expected' <= version'
    BY <1>1, <1>2
  <2>2. NoResults(reply')
    BY <1>2, NoMessageHasNoResults
  <2>3. SessionFollows'
    BY <1>2 DEF Conversation, SessionFollows
  <2> QED
    BY <2>1, <2>2, <2>3
<1>5. ASSUME Validate(ask) PROVE TurnFollows'
  <2> DEFINE new == ask.messages  all == stored \o new
  <2>1. new \in Seq(Message) /\ all = stored \o new
    BY <1>1
  <2>2. asked'.messages = new /\ request'.messages = all
    BY <1>2, <1>3
  <2>3. ResultsFollowCalls(new)
    BY <1>5 DEF Validate
  <2> HIDE DEF new, all
  <2>4. ~stray => ResultsFollowCalls(all)
    BY <1>1, <2>1, <2>3, ResultsFollowAfter DEF Conversation, SessionFollows
  <2>5. ASSUME NEW i \in DOMAIN all
        PROVE  (\E j \in DOMAIN stored : all[i] = stored[j]) \/ (\E j \in DOMAIN new : all[i] = new[j])
    <3>1. \/ i \in DOMAIN stored /\ all[i] = stored[i]
          \/ i - Len(stored) \in DOMAIN new /\ all[i] = new[i - Len(stored)]
      BY <1>1, <2>1, ConcatElements
    <3> QED
      BY <3>1
  <2> QED
    BY <1>2, <2>1, <2>2, <2>4, <2>5 DEF TurnFollows
<1> QED
  BY <1>4, <1>5

\* A reply is stored behind what its provider was sent.
LEMMA ReplyFollows ==
  ASSUME Conversation, EndWithReply
  PROVE  SessionFollows' /\ expected' <= version'
<1>1. /\ phase = "loop" /\ mode = "send" /\ outcome \in {"reply", "nilError"}
      /\ UNCHANGED <<stray, expected>>
      /\ \/ /\ version = expected
            /\ stored' = stored \o asked.messages \o <<reply>>
            /\ version' = version + 1
            /\ authors' = authors \cup {IF outcome = "reply" THEN Adapter ELSE "nobody"}
         \/ UNCHANGED <<stored, version, authors>>
  BY DEF EndWithReply, inputs
<1>2. /\ version \in Nat /\ expected \in Nat /\ reply \in Message
      /\ request.messages \in Seq(Message)
      /\ NoResults(reply) /\ expected <= version
  BY DEF Conversation, TypeInv, TypeOK, Request
<1>3. expected' <= version'
  BY <1>1, <1>2
<1>4. CASE UNCHANGED <<stored, version, authors>>
  BY <1>1, <1>3, <1>4 DEF Conversation, SessionFollows
<1>5. CASE ~UNCHANGED <<stored, version, authors>>
  <2> DEFINE msgs == request.messages
  <2>1. /\ stored' = msgs \o <<reply>>
        /\ authors' = authors \cup {IF outcome = "reply" THEN Adapter ELSE "nobody"}
        /\ ~stray => ResultsFollowCalls(msgs)
        /\ outcome = "reply" => Builds(Adapter, msgs) /\ Takes(Adapter, reply)
    BY <1>1, <1>5 DEF Conversation, TurnFollows, AttemptFollows
  <2>2. msgs \in Seq(Message)
    BY <1>2
  <2> HIDE DEF msgs
  <2>3. ~stray => ResultsFollowCalls(msgs \o <<reply>>)
    BY <1>2, <2>1, <2>2, ResultsFollowBeforeMessage DEF NoResults
  <2>4. ASSUME NEW a \in Adapters, authors' \subseteq {a} PROVE Builds(a, msgs \o <<reply>>)
    <3>1. outcome = "reply" /\ a = Adapter
      BY <1>1, <2>1, <2>4 DEF Adapters
    <3>2. Builds(a, msgs) /\ Takes(a, reply)
      BY <2>1, <3>1
    <3>3. <<reply>> \in Seq(Message) /\ Builds(a, <<reply>>)
      BY <1>2, <3>2 DEF Builds
    <3> QED
      BY <2>2, <3>2, <3>3, BuildsConcat
  <2> QED
    BY <1>1, <1>3, <2>1, <2>3, <2>4 DEF SessionFollows
<1> QED
  BY <1>3, <1>4, <1>5

\* What another client appends: the session keeps its messages, and the results of the
\* last calls may follow them.
LEMMA EditFollows ==
  ASSUME Conversation, NEW msgs \in Seq(Message), Edit(msgs)
  PROVE  /\ SessionFollows' /\ expected' < version'
         /\ \A j \in DOMAIN stored : j \in DOMAIN stored' /\ stored'[j] = stored[j]
<1>1. /\ stored' = stored \o msgs /\ version' = version + 1
      /\ stray' = (stray \/ ~(HasOpenCalls /\ msgs = <<Results>>))
      /\ authors' = authors /\ expected' = expected
  BY DEF Edit, inputs
<1>2. stored \in Seq(Message) /\ version \in Nat /\ expected \in Nat /\ expected <= version
  BY DEF Conversation, TypeInv, TypeOK
<1>3. expected' < version'
  BY <1>1, <1>2
<1>4. \A j \in DOMAIN stored : j \in DOMAIN (stored \o msgs) /\ (stored \o msgs)[j] = stored[j]
  BY <1>2, LenProperties, ConcatProperties
<1>5. ASSUME ~stray'
      PROVE  /\ ResultsFollowCalls(stored')
             /\ \A a \in Adapters : authors' \subseteq {a} => Builds(a, stored')
  <2>1. ~stray /\ HasOpenCalls /\ msgs = <<Results>>
    BY <1>1, <1>5
  <2> DEFINE m == Results  last == Last(stored)
  <2>2. /\ Len(stored) \in Nat /\ Len(stored) >= 1 /\ last = stored[Len(stored)]
        /\ m \in Message
        /\ \A a \in Adapters : Takes(a, m)
        /\ \A j \in DOMAIN m.content :
             \E i \in DOMAIN last.content :
               IsCall(last.content[i]) /\ last.content[i].id = m.content[j].id
    BY <1>2, <2>1, ResultsProperties
  <2>3. stored' = stored \o <<m>>
    BY <1>1, <2>1
  <2> HIDE DEF m, last
  <2>4. Len(stored) \in DOMAIN stored
    BY <1>2, <2>2, LenProperties
  <2>5. ResultsFollowCalls(stored)
    BY <2>1 DEF Conversation, SessionFollows
  <2>6. ResultsFollowCalls(stored \o <<m>>)
    BY <1>2, <2>2, <2>4, <2>5, ResultsFollowBeforeAnswers
  <2>7. ASSUME NEW a \in Adapters, authors \subseteq {a} PROVE Builds(a, stored \o <<m>>)
    <3>1. Builds(a, stored)
      BY <2>1, <2>7 DEF Conversation, SessionFollows
    <3>2. <<m>> \in Seq(Message) /\ Builds(a, <<m>>)
      BY <2>2 DEF Builds
    <3> QED
      BY <1>2, <3>1, <3>2, BuildsConcat
  <2> QED
    BY <1>1, <2>3, <2>6, <2>7
<1> QED
  BY <1>1, <1>3, <1>4, <1>5 DEF SessionFollows

\* The end of an attempt with an error sends the executor on, with nothing gained.
LEMMA FailFollows ==
  ASSUME NEW kind, NEW status, Fail(kind, status)
  PROVE  /\ phase' = "loop" /\ outcome' # "reply"
         /\ UNCHANGED <<session, inputs, reply>>
BY DEF Fail, F!FailAndHalt, F!FailAndAdvance, F!FailAndGoLarger, F!Running, F!Finish, F!Advance,
       F!config, Rest

\* Every step keeps it.
LEMMA ConversationStep == Conversation /\ [Next]_vars => Conversation'
<1> SUFFICES ASSUME Conversation, [Next]_vars PROVE Conversation'
  OBVIOUS
<1>0. TypeInv'
  BY TypeInvStep DEF Conversation
\* The session's part and the turn's, by the variables that they depend on.
<1>01. UNCHANGED session /\ UNCHANGED inputs => SessionFollows' /\ expected' <= version'
  BY DEF Conversation, session, inputs, SessionFollows
<1>02. phase # "idle" /\ UNCHANGED session /\ UNCHANGED inputs => TurnFollows'
  BY DEF Conversation, session, inputs, TurnFollows
<1>1. ASSUME NEW ask \in ClientAsks, Refuse(ask) \/ NoCandidate(ask)
      PROVE  Conversation'
  <2>1. Receive(ask) /\ phase' = "idle"
    BY <1>1 DEF Refuse, NoCandidate, Receive
  <2>2. expected' <= version' /\ NoResults(reply') /\ SessionFollows'
    BY <2>1, ReceiveFollows
  <2> QED
    BY <1>0, <2>1, <2>2 DEF Conversation, AttemptFollows
<1>2. ASSUME NEW ask \in ClientAsks, NEW md \in Modes, Start(ask, md)
      PROVE  Conversation'
  <2>1. Receive(ask) /\ Validate(ask) /\ phase' = "loop" /\ outcome' = "running"
    BY <1>2 DEF Start
  <2>2. expected' <= version' /\ NoResults(reply') /\ SessionFollows' /\ TurnFollows'
    BY <2>1, ReceiveFollows
  <2> QED
    BY <1>0, <2>1, <2>2 DEF Conversation, AttemptFollows
\* A step within a turn that does not end with a reply to Send.
<1>3. ASSUME phase # "idle", UNCHANGED <<session, inputs, reply>>,
             phase' \in {"loop", "idle"}, outcome' # "reply" \/ mode' # "send" \/ phase' = "idle"
      PROVE  Conversation'
  <2>1. SessionFollows' /\ TurnFollows' /\ expected' <= version'
    BY <1>01, <1>02, <1>3
  <2>2. NoResults(reply')
    BY <1>3 DEF Conversation
  <2>3. AttemptFollows'
    BY <1>3 DEF AttemptFollows
  <2> QED
    BY <1>0, <2>1, <2>2, <2>3 DEF Conversation
<1>4. CASE Skip
  BY <1>3, <1>4 DEF Skip, Rest, F!SkipUnregistered, F!Running, F!Advance
<1>5. ASSUME NEW kind, NEW status, Fail(kind, status), phase # "idle"
      PROVE  Conversation'
  BY <1>3, <1>5, FailFollows
<1>6. CASE NotSent \/ SendTooLate
  BY <1>5, <1>6 DEF NotSent, SendTooLate, CanSend, Attempt
<1>7. CASE Send
  <2>1. /\ phase = "loop" /\ phase' = "head"
        /\ Ref \in Registered /\ Builds(Adapter, request.messages)
        /\ UNCHANGED <<session, inputs, executor, reply>>
    BY <1>7 DEF Send, CanSend, Attempt, Rest
  <2>2. AttemptFollows'
    BY <2>1 DEF AttemptFollows, executor, inputs, Adapter, Ref, F!Ref, F!Current, F!Next1
  <2>3. SessionFollows' /\ TurnFollows' /\ expected' <= version'
    BY <1>01, <1>02, <2>1
  <2> QED
    BY <1>0, <2>1, <2>2, <2>3 DEF Conversation
<1>8. ASSUME NEW status \in Statuses, HeadersArrive(status)
      PROVE  Conversation'
  <2>1. phase = "head" /\ UNCHANGED <<session, inputs, reply>>
    BY <1>8 DEF HeadersArrive, Rest
  <2>2. CASE mode = "stream" /\ Accepted(status)
    <3>1. phase' = "loop" /\ mode' = "stream"
      BY <1>8, <2>2 DEF HeadersArrive, F!Reply, F!Finish, F!config
    <3> QED
      BY <1>3, <2>1, <3>1
  <2>3. CASE ~(mode = "stream" /\ Accepted(status))
    <3>1. phase' = "body" /\ UNCHANGED executor
      BY <1>8, <2>3 DEF HeadersArrive
    <3>2. AttemptFollows'
      BY <2>1, <3>1 DEF Conversation, AttemptFollows, executor, inputs, Adapter, Ref, F!Ref,
                        F!Current, F!Next1
    <3>3. SessionFollows' /\ TurnFollows' /\ expected' <= version'
      BY <1>01, <1>02, <2>1
    <3> QED
      BY <1>0, <2>1, <3>1, <3>2, <3>3 DEF Conversation
  <2> QED
    BY <2>2, <2>3
<1>9. ASSUME NEW parts \in Parts, AnswerRead(parts)
      PROVE  Conversation'
  <2>1. /\ phase = "body" /\ phase' = "loop"
        /\ UNCHANGED <<session, inputs, candidates, left>>
    BY <1>9 DEF AnswerRead, Rest, F!Reply, F!Finish, F!config
  <2>2. \A i \in DOMAIN reply'.content : ~IsResult(reply'.content[i])
    BY <1>9, AnswerReadProperties DEF Conversation, TypeInv, TypeOK
  <2>3. Takes(Adapter, reply') /\ Builds(Adapter, request.messages)
    BY <1>9, <2>1, AnswerReadProperties DEF Conversation, TypeInv, TypeOK, AttemptFollows
  <2>4. Adapter' = Adapter
    BY <2>1 DEF Adapter, Ref, F!Ref, F!Current, F!Next1
  <2>5. AttemptFollows'
    BY <2>1, <2>3, <2>4 DEF AttemptFollows, inputs
  <2>6. SessionFollows' /\ TurnFollows' /\ expected' <= version'
    BY <1>01, <1>02, <2>1
  <2> QED
    BY <1>0, <2>1, <2>2, <2>5, <2>6 DEF Conversation, NoResults
<1>10. CASE BodyFails /\ phase = "body"
  BY <1>5, <1>10 DEF BodyFails
<1>11. CASE HeadLost \/ Undecodable \/ (\E overflow \in BOOLEAN : ErrorRead(overflow))
  BY <1>5, <1>11 DEF HeadLost, Undecodable, ErrorRead
<1>12. CASE BodyLost
  BY <1>10, <1>12 DEF BodyLost
<1>13. CASE Deadline
  BY <1>5, <1>10, <1>13 DEF Deadline
<1>14. CASE GiveUp
  BY <1>3, <1>14 DEF GiveUp, Rest, F!Exhausted, F!Finish
<1>15. CASE EndWithError \/ EndWithStream
  BY <1>3, <1>15 DEF EndWithError, EndWithStream
<1>16. CASE EndWithReply
  <2>1. phase' = "idle" /\ reply' = reply
    BY <1>16 DEF EndWithReply
  <2>2. SessionFollows' /\ expected' <= version'
    BY <1>16, ReplyFollows
  <2> QED
    BY <1>0, <2>1, <2>2 DEF Conversation, AttemptFollows
\* A step that the turn does not see.
<1>17. ASSUME UNCHANGED <<phase, inputs, reply, executor>>, SessionFollows', TurnFollows' \/ phase = "idle",
              expected' <= version'
       PROVE  Conversation'
  <2>1. AttemptFollows'
    BY <1>17 DEF Conversation, AttemptFollows, executor, inputs, Adapter, Ref, F!Ref, F!Current,
                 F!Next1
  <2> QED
    BY <1>0, <1>17, <2>1 DEF Conversation
<1>18. CASE ClientLeaves \/ UNCHANGED vars
  <2>1. UNCHANGED <<phase, session, inputs, reply, executor>>
    BY <1>18 DEF ClientLeaves, vars
  <2> QED
    BY <1>01, <1>02, <1>17, <2>1
<1>19. ASSUME NEW msgs \in Edits \cup (IF HasOpenCalls THEN {<<Results>>} ELSE {}), Edit(msgs)
       PROVE  Conversation'
  <2>1. msgs \in Seq(Message)
    BY <1>19, EditTyped DEF Conversation, TypeInv, TypeOK
  <2>2. UNCHANGED <<phase, inputs, reply, executor>> /\ (stray => stray')
    BY <1>19 DEF Edit
  <2>3. /\ SessionFollows' /\ expected' < version'
        /\ \A j \in DOMAIN stored : j \in DOMAIN stored' /\ stored'[j] = stored[j]
    BY <1>19, <2>1, EditFollows
  <2>4. expected' \in Nat /\ version' \in Nat
    BY <1>0 DEF TypeInv, TypeOK
  <2>5. phase # "idle" => TurnFollows'
    BY <2>2, <2>3, <2>4 DEF Conversation, TurnFollows, inputs
  <2> QED
    BY <1>17, <2>2, <2>3, <2>4, <2>5
<1> QED
  BY <1>1, <1>2, <1>4, <1>6, <1>7, <1>8, <1>9, <1>11, <1>12, <1>13, <1>14, <1>15, <1>16, <1>18,
     <1>19 DEF Next, Executor

\* The conversation stays sound.
THEOREM ConversationHolds == Spec => []Conversation
<1> QED
  BY ConversationInit, ConversationStep, PTL DEF Spec

\* What the adapters of OpenAI and Anthropic send has every result behind its call, for
\* whatever the session gathered over any number of turns (validate.go sees one turn).
THEOREM ResultsHaveTheirCalls == Spec => []EveryResultHasItsCall
<1>1. ASSUME Conversation PROVE EveryResultHasItsCall
  <2> SUFFICES ASSUME phase = "head", ~stray, Adapter # "ollama",
                      PromptsHoldNoCalls(request.messages)
               PROVE  ResultsFollowCalls(Wire(Adapter, request))
    BY DEF EveryResultHasItsCall, Sent
  <2> DEFINE a == Adapter
  <2>1. a \in Adapters \ {"ollama"} /\ Builds(a, request.messages)
    BY <1>1, AdaptersAssumption DEF Conversation, AttemptFollows, Adapter
  <2>2. request.messages \in Seq(Message) /\ request.system \in Seq(Words)
    BY <1>1 DEF Conversation, TypeInv, TypeOK, Request
  <2>3. ResultsFollowCalls(request.messages)
    BY <1>1 DEF Conversation, TurnFollows
  <2>4. \A n \in DOMAIN request.messages : request.messages[n].role = "system" =>
          \A i \in DOMAIN request.messages[n].content : ~IsCall(request.messages[n].content[i])
    BY DEF PromptsHoldNoCalls
  <2> HIDE DEF a
  <2>5. ResultsFollowCalls(Wire(a, request))
    BY <2>1, <2>2, <2>3, <2>4, WireFollows
  <2> QED
    BY <2>5 DEF a
<1> QED
  BY <1>1, ConversationHolds, PTL

\* The replies that an adapter had stored do not make it refuse a later turn (convert.go:
\* what convertResponse makes, the request's conversion takes).
THEOREM OwnRepliesAreReplayable == Spec => []OwnRepliesReplayable
<1>1. ASSUME Conversation PROVE OwnRepliesReplayable
  <2> SUFFICES ASSUME phase = "loop", Ref \in Registered, authors \subseteq {Adapter}, ~stray,
                      Builds(Adapter, asked.messages)
               PROVE  Builds(Adapter, request.messages)
    BY DEF OwnRepliesReplayable
  <2>1. Adapter \in Adapters
    BY AdaptersAssumption DEF Adapter
  <2>2. Builds(Adapter, stored)
    BY <1>1, <2>1 DEF Conversation, SessionFollows
  <2>3. \A i \in DOMAIN request.messages :
          \/ \E j \in DOMAIN stored : request.messages[i] = stored[j]
          \/ \E j \in DOMAIN asked.messages : request.messages[i] = asked.messages[j]
    BY <1>1 DEF Conversation, TurnFollows
  <2> QED
    BY <2>2, <2>3 DEF Builds
<1> QED
  BY <1>1, ConversationHolds, PTL

-------------------------------------------------------------------------------
(* What the conversation says is on the wire. *)

\* What Heard takes from the blocks, as functions.
TextFeature   == [b \in Block |-> TextOf(b)]
CallFeature   == [b \in Block |-> IF IsCall(b) THEN <<b.name>> ELSE << >>]
ResultFeature == [b \in Block |-> IF IsResult(b) THEN <<Joined(b.content)>> ELSE << >>]
ImageFeature  == [b \in Block |-> IF IsImage(b) THEN <<"image">> ELSE << >>]

\* They are features that a conversion may not change.
LEMMA Features ==
  /\ Feature(TextFeature, Words)
  /\ Feature(CallFeature, STRING)
  /\ Feature(ResultFeature, Seq(Words))
  /\ Feature(ImageFeature, {"image"})
<1>1. ASSUME NEW b \in Block
      PROVE  /\ b.kind = "text" => b.text \in Seq(Words)
             /\ b.kind = "tool_use" => b.name \in STRING
             /\ b.kind = "tool_result" => Joined(b.content) \in Seq(Words)
  <2>1. b.kind = "text" => b.text \in Seq(Words)
    BY BlockKinds
  <2>2. b.kind = "tool_use" => b.name \in STRING
    BY BlockKinds DEF IsCall, CallBlock
  <2>3. ASSUME b.kind = "tool_result" PROVE Joined(b.content) \in Seq(Words)
    <3>1. b.content \in Seq(Plain)
      BY <2>3, BlockKinds DEF IsResult, ResultBlock
    <3>2. b.content \in Seq(Block)
      <4>1. Plain \subseteq Block
        BY DEF Block
      <4> QED
        BY <3>1, <4>1, SeqMonotonic
    <3> QED
      BY <3>2, JoinedTyped
  <2> QED
    BY <2>1, <2>2, <2>3
<1>2. Feature(TextFeature, Words)
  <2>1. \A b \in Block : TextFeature[b] = TextOf(b)
    BY DEF TextFeature
  <2>2. \A b \in Block : TextOf(b) \in Seq(Words)
    BY <1>1, EmptySeq DEF TextOf, IsText, IsResult
  <2>3. TextFeature \in ToSeqs(Block, Words)
    BY <2>2 DEF ToSeqs, TextFeature
  <2>4. /\ \A b \in Block : b.kind \in {"thinking", "image", "tool_use"} => TextOf(b) = << >>
        /\ \A b \in Block : b.kind = "text" => TextOf(b) = b.text
        /\ \A b \in Block : b.kind = "tool_result" => TextOf(b) = Joined(b.content)
    BY DEF TextOf, IsText, IsResult
  <2> QED
    BY <2>1, <2>3, <2>4 DEF Feature, IsText, IsImage, IsCall, IsResult
<1>3. Feature(CallFeature, STRING)
  <2>1. CallFeature \in ToSeqs(Block, STRING)
    <3>1. \A b \in Block : (IF IsCall(b) THEN <<b.name>> ELSE << >>) \in Seq(STRING)
      <4> TAKE b \in Block
      <4>1. IsCall(b) => b.name \in STRING
        BY <1>1 DEF IsCall
      <4> DEFINE name == b.name
      <4>2. CASE IsCall(b)
        <5>1. name \in STRING
          BY <4>1, <4>2
        <5> HIDE DEF name
        <5>2. <<name>> \in Seq(STRING)
          BY <5>1, OneElement
        <5> QED
          BY <4>2, <5>2 DEF name
      <4> QED
        BY <4>2, EmptySeq
    <3> QED
      BY <3>1 DEF ToSeqs, CallFeature
  <2>2. /\ \A b \in Block : b.kind = "tool_use" => CallFeature[b] = <<b.name>>
        /\ \A b \in Block : b.kind # "tool_use" => CallFeature[b] = << >>
    BY DEF CallFeature, IsCall
  <2> QED
    BY <2>1, <2>2 DEF Feature, IsText, IsImage, IsCall, IsResult
<1>4. Feature(ResultFeature, Seq(Words))
  <2>1. ResultFeature \in ToSeqs(Block, Seq(Words))
    <3>1. \A b \in Block : (IF IsResult(b) THEN <<Joined(b.content)>> ELSE << >>) \in Seq(Seq(Words))
      <4> TAKE b \in Block
      <4> DEFINE text == Joined(b.content)
      <4>1. IsResult(b) => text \in Seq(Words)
        BY <1>1 DEF IsResult
      <4> HIDE DEF text
      <4>2. IsResult(b) => <<text>> \in Seq(Seq(Words))
        BY <4>1
      <4> QED
        BY <4>2, EmptySeq DEF text
    <3> QED
      BY <3>1 DEF ToSeqs, ResultFeature
  <2>2. /\ \A b \in Block : b.kind = "tool_result" => ResultFeature[b] = <<Joined(b.content)>>
        /\ \A b \in Block : b.kind # "tool_result" => ResultFeature[b] = << >>
    BY DEF ResultFeature, IsResult
  <2> QED
    BY <2>1, <2>2 DEF Feature, IsText, IsImage, IsCall, IsResult
<1>5. Feature(ImageFeature, {"image"})
  <2>1. ImageFeature \in ToSeqs(Block, {"image"})
    <3>1. <<"image">> \in Seq({"image"}) /\ << >> \in Seq({"image"})
      OBVIOUS
    <3> QED
      BY <3>1 DEF ToSeqs, ImageFeature
  <2>2. /\ \A b \in Block : b.kind = "image" => ImageFeature[b] = <<"image">>
        /\ \A b \in Block : b.kind # "image" => ImageFeature[b] = << >>
    BY DEF ImageFeature, IsImage
  <2> QED
    BY <2>1, <2>2 DEF Feature, IsText, IsImage, IsCall, IsResult
<1> QED
  BY <1>2, <1>3, <1>4, <1>5

\* A list with one element for every block of a kind.
LEMMA ListOfKind ==
  ASSUME NEW T, NEW h \in ToSeqs(Block, T), NEW blocks \in Seq(Block), NEW kind,
         NEW picked, Left(picked, OfKind(blocks, kind), blocks),
         NEW list \in Seq(T), DOMAIN list = DOMAIN picked,
         \A i \in DOMAIN list : h[picked[i]] = <<list[i]>>,
         \A b \in Block : b.kind # kind => h[b] = << >>
  PROVE  FlatMap(h, blocks) = list
<1> DEFINE D == OfKind(blocks, kind)
<1>1. \A i \in DOMAIN blocks : blocks[i] \in Block
  BY LenProperties, ElementOfSeq
<1>2. \A i \in DOMAIN blocks : i \notin D => h[blocks[i]] = << >>
  BY <1>1 DEF OfKind
<1> HIDE DEF D
<1>3. Left(picked, D, blocks)
  BY DEF D
<1>4. FlatMap(h, picked) = FlatMap(h, blocks)
  BY <1>2, <1>3, FlatMapFiltered
<1>5. [i \in DOMAIN picked |-> h[picked[i]]] = [i \in DOMAIN list |-> <<list[i]>>]
  OBVIOUS
<1>6. FlattenSeq([i \in DOMAIN list |-> <<list[i]>>]) = list
  BY FlattenSingles
<1> QED
  BY <1>4, <1>5, <1>6 DEF FlatMap

\* The blocks that are spoken, and what they have of a feature.
LEMMA SpokenHeard ==
  ASSUME NEW T, NEW h \in ToSeqs(Block, T), NEW msgs \in Seq(Message)
  PROVE  Spoken(msgs) \in Seq(Block) /\ FlatMap(h, Spoken(msgs)) = FlatMap(OfMessages(h), msgs)
<1> DEFINE V      == OfMessages(h)
           pieces == [n \in DOMAIN msgs |-> IF msgs[n].role = "system" THEN << >> ELSE msgs[n].content]
           out    == [n \in DOMAIN msgs |-> V[msgs[n]]]
<1>1. DOMAIN msgs = 1..Len(msgs) /\ Len(msgs) \in Nat /\ \A n \in DOMAIN msgs : msgs[n] \in Message
  BY LenProperties, ElementOfSeq
<1>2. \A n \in DOMAIN msgs : pieces[n] \in Seq(Block)
  <2> TAKE n \in DOMAIN msgs
  <2>1. msgs[n].content \in Seq(Block) /\ << >> \in Seq(Block)
    BY <1>1, MessageParts, EmptySeq
  <2> QED
    BY <2>1
<1>3. pieces \in Seq(Seq(Block)) /\ DOMAIN pieces = DOMAIN msgs
  BY <1>1, <1>2
<1>4. FlatMap(h, << >>) = << >>
  <2>1. [i \in DOMAIN << >> |-> h[<< >>[i]]] = << >>
    OBVIOUS
  <2>2. FlattenSeq(<< >>) = << >>
    BY FlattenFew, EmptySeq
  <2> QED
    BY <2>1, <2>2 DEF FlatMap
<1>5. \A n \in DOMAIN pieces : out[n] = FlatMap(h, pieces[n])
  BY <1>1, <1>4 DEF OfMessages
<1>6. DOMAIN out = DOMAIN pieces /\ out = [n \in DOMAIN out |-> out[n]]
  OBVIOUS
<1>7. Spoken(msgs) = FlattenSeq(pieces) /\ FlatMap(V, msgs) = FlattenSeq(out)
  BY DEF Spoken, FlatMap
<1> HIDE DEF pieces, out, V
<1>8. FlatMap(h, FlattenSeq(pieces)) = FlattenSeq(out)
  BY <1>3, <1>5, <1>6, FlatMapFlatten
<1>9. FlattenSeq(pieces) \in Seq(Block)
  BY <1>3, FlattenLayout
<1> QED
  BY <1>7, <1>8, <1>9 DEF V

\* What Heard tells of messages.
LEMMA HeardFeatures ==
  ASSUME NEW msgs \in Seq(Message)
  PROVE  Heard(msgs) = [texts   |-> FlatMap(OfMessages(TextFeature), msgs),
                        calls   |-> FlatMap(OfMessages(CallFeature), msgs),
                        results |-> FlatMap(OfMessages(ResultFeature), msgs),
                        images  |-> Len(FlatMap(OfMessages(ImageFeature), msgs))]
<1> DEFINE blocks  == Spoken(msgs)
           calls   == Filtered(blocks, IsCall)
           results == Filtered(blocks, IsResult)
           images  == Filtered(blocks, IsImage)
<1>1. /\ TextFeature \in ToSeqs(Block, Words)
      /\ CallFeature \in ToSeqs(Block, STRING)
      /\ ResultFeature \in ToSeqs(Block, Seq(Words))
      /\ ImageFeature \in ToSeqs(Block, {"image"})
  BY Features DEF Feature
<1>2. /\ blocks \in Seq(Block)
      /\ FlatMap(TextFeature, blocks) = FlatMap(OfMessages(TextFeature), msgs)
      /\ FlatMap(CallFeature, blocks) = FlatMap(OfMessages(CallFeature), msgs)
      /\ FlatMap(ResultFeature, blocks) = FlatMap(OfMessages(ResultFeature), msgs)
      /\ FlatMap(ImageFeature, blocks) = FlatMap(OfMessages(ImageFeature), msgs)
  BY <1>1, SpokenHeard
<1> HIDE DEF blocks
<1>3. \A i \in DOMAIN blocks : blocks[i] \in Block
  BY <1>2, LenProperties, ElementOfSeq
<1>4. FlattenSeq([i \in DOMAIN blocks |-> TextOf(blocks[i])]) = FlatMap(TextFeature, blocks)
  <2>1. [i \in DOMAIN blocks |-> TextOf(blocks[i])] = [i \in DOMAIN blocks |-> TextFeature[blocks[i]]]
    BY <1>3 DEF TextFeature
  <2> QED
    BY <2>1 DEF FlatMap
<1>5. /\ Left(calls, OfKind(blocks, "tool_use"), blocks)
      /\ Left(results, OfKind(blocks, "tool_result"), blocks)
      /\ Left(images, OfKind(blocks, "image"), blocks)
  BY FilteredLeft
<1>6. /\ DOMAIN calls = 1..Len(calls) /\ Len(calls) \in Nat
      /\ \A i \in DOMAIN calls : calls[i] \in Block /\ calls[i].kind = "tool_use"
  <2> HIDE DEF calls
  <2> QED
    BY <1>2, <1>5, LeftTyped
<1>7. /\ DOMAIN results = 1..Len(results) /\ Len(results) \in Nat
      /\ \A i \in DOMAIN results : results[i] \in Block /\ results[i].kind = "tool_result"
  <2> HIDE DEF results
  <2> QED
    BY <1>2, <1>5, LeftTyped
<1>8. /\ DOMAIN images = 1..Len(images) /\ Len(images) \in Nat
      /\ \A i \in DOMAIN images : images[i] \in Block /\ images[i].kind = "image"
  <2> HIDE DEF images
  <2> QED
    BY <1>2, <1>5, LeftTyped
<1>9. Heard(msgs) = [texts   |-> FlattenSeq([i \in DOMAIN blocks |-> TextOf(blocks[i])]),
                     calls   |-> [i \in DOMAIN calls |-> calls[i].name],
                     results |-> [i \in DOMAIN results |-> Joined(results[i].content)],
                     images  |-> Len(images)]
  BY DEF Heard, blocks
<1> HIDE DEF calls, results, images
<1>10. [i \in DOMAIN calls |-> calls[i].name] = FlatMap(CallFeature, blocks)
  <2> DEFINE list == [i \in DOMAIN calls |-> calls[i].name]
  <2>1. \A i \in DOMAIN calls : calls[i].name \in STRING
    BY <1>6, BlockKinds DEF IsCall, CallBlock
  <2>2. /\ list \in [1..Len(calls) -> STRING] /\ DOMAIN list = DOMAIN calls
        /\ \A i \in DOMAIN calls : list[i] = calls[i].name
    BY <1>6, <2>1
  <2> HIDE DEF list
  <2>3. list \in Seq(STRING) /\ DOMAIN list = DOMAIN calls
    BY <1>6, <2>2
  <2>4. \A i \in DOMAIN list : CallFeature[calls[i]] = <<list[i]>>
    BY <1>6, <2>2 DEF CallFeature, IsCall
  <2>5. \A b \in Block : b.kind # "tool_use" => CallFeature[b] = << >>
    BY DEF CallFeature, IsCall
  <2>6. FlatMap(CallFeature, blocks) = list
    <3>1. /\ CallFeature \in ToSeqs(Block, STRING)
          /\ blocks \in Seq(Block) /\ Left(calls, OfKind(blocks, "tool_use"), blocks)
      BY <1>1, <1>2, <1>5
    <3> QED
      BY <2>3, <2>4, <2>5, <3>1, ListOfKind
  <2> QED
    BY <2>6 DEF list
<1>11. [i \in DOMAIN results |-> Joined(results[i].content)] = FlatMap(ResultFeature, blocks)
  <2> DEFINE list == [i \in DOMAIN results |-> Joined(results[i].content)]
  <2>1. \A i \in DOMAIN results : Joined(results[i].content) \in Seq(Words)
    <3> TAKE i \in DOMAIN results
    <3>1. results[i].content \in Seq(Plain)
      BY <1>7, BlockKinds DEF IsResult, ResultBlock
    <3>2. Plain \subseteq Block
      BY DEF Block
    <3>3. results[i].content \in Seq(Block)
      BY <3>1, <3>2, SeqMonotonic
    <3> QED
      BY <3>3, JoinedTyped
  <2>2. /\ list \in [1..Len(results) -> Seq(Words)] /\ DOMAIN list = DOMAIN results
        /\ \A i \in DOMAIN results : list[i] = Joined(results[i].content)
    BY <1>7, <2>1
  <2> HIDE DEF list
  <2>3. list \in Seq(Seq(Words)) /\ DOMAIN list = DOMAIN results
    BY <1>7, <2>2
  <2>4. \A i \in DOMAIN list : ResultFeature[results[i]] = <<list[i]>>
    BY <1>7, <2>2 DEF ResultFeature, IsResult
  <2>5. \A b \in Block : b.kind # "tool_result" => ResultFeature[b] = << >>
    BY DEF ResultFeature, IsResult
  <2>6. FlatMap(ResultFeature, blocks) = list
    <3>1. /\ ResultFeature \in ToSeqs(Block, Seq(Words))
          /\ blocks \in Seq(Block) /\ Left(results, OfKind(blocks, "tool_result"), blocks)
      BY <1>1, <1>2, <1>5
    <3> QED
      BY <2>3, <2>4, <2>5, <3>1, ListOfKind
  <2> QED
    BY <2>6 DEF list
<1>12. Len(images) = Len(FlatMap(ImageFeature, blocks))
  <2> DEFINE list == [i \in DOMAIN images |-> "image"]
  <2>1. /\ list \in [1..Len(images) -> {"image"}] /\ DOMAIN list = DOMAIN images
        /\ \A i \in DOMAIN images : list[i] = "image"
    BY <1>8
  <2> HIDE DEF list
  <2>2. list \in Seq({"image"}) /\ DOMAIN list = DOMAIN images
    BY <1>8, <2>1
  <2>3. \A i \in DOMAIN list : ImageFeature[images[i]] = <<list[i]>>
    BY <1>8, <2>1 DEF ImageFeature, IsImage
  <2>4. \A b \in Block : b.kind # "image" => ImageFeature[b] = << >>
    BY DEF ImageFeature, IsImage
  <2>5. FlatMap(ImageFeature, blocks) = list
    <3>1. /\ ImageFeature \in ToSeqs(Block, {"image"})
          /\ blocks \in Seq(Block) /\ Left(images, OfKind(blocks, "image"), blocks)
      BY <1>1, <1>2, <1>5
    <3> QED
      BY <2>2, <2>3, <2>4, <3>1, ListOfKind
  <2>6. Len(list) = Len(images)
    <3>1. 1..Len(list) = 1..Len(images) /\ Len(list) \in Nat
      BY <1>8, <2>1, <2>2, LenProperties
    <3> QED
      BY <1>8, <3>1
  <2> QED
    BY <2>5, <2>6
<1> QED
  BY <1>2, <1>4, <1>9, <1>10, <1>11, <1>12

\* No adapter loses, doubles or reorders what was said (the conversions of convert.go), for
\* every conversation that it builds a request from.
THEOREM NothingIsLostOnTheWire == Spec => []WireTellsTheConversation
<1>1. ASSUME Conversation PROVE WireTellsTheConversation
  <2> SUFFICES ASSUME phase = "head"
               PROVE  Heard(Wire(Adapter, request)) = Heard(request.messages)
    BY DEF WireTellsTheConversation, Sent
  <2> DEFINE a    == Adapter
             wire == Wire(a, request)
  <2>1. a \in Adapters /\ Builds(a, request.messages)
    BY <1>1, AdaptersAssumption DEF Conversation, AttemptFollows, Adapter
  <2>2. request.messages \in Seq(Message) /\ request.system \in Seq(Words)
    BY <1>1 DEF Conversation, TypeInv, TypeOK, Request
  <2> HIDE DEF a
  <2>3. /\ wire \in Seq(Message)
        /\ FlatMap(OfMessages(TextFeature), wire) = FlatMap(OfMessages(TextFeature), request.messages)
        /\ FlatMap(OfMessages(CallFeature), wire) = FlatMap(OfMessages(CallFeature), request.messages)
        /\ FlatMap(OfMessages(ResultFeature), wire) = FlatMap(OfMessages(ResultFeature), request.messages)
        /\ FlatMap(OfMessages(ImageFeature), wire) = FlatMap(OfMessages(ImageFeature), request.messages)
    BY <2>1, <2>2, Features, WireHeard
  <2> HIDE DEF wire
  <2>4. Heard(wire) = Heard(request.messages)
    BY <2>2, <2>3, HeardFeatures
  <2> QED
    BY <2>4 DEF wire, a
<1> QED
  BY <1>1, ConversationHolds, PTL

-------------------------------------------------------------------------------
(* A model that was picked can take what it is sent. *)

\* The texts of the messages themselves, without those of results.
PlainTextFeature == [b \in Block |-> IF IsText(b) THEN b.text ELSE << >>]

\* This, too, is a feature that a conversion may not change.
LEMMA PlainText == Feature(PlainTextFeature, Words)
<1>1. \A b \in Block : b.kind = "text" => b.text \in Seq(Words)
  BY BlockKinds
<1>2. \A b \in Block : (IF IsText(b) THEN b.text ELSE << >>) \in Seq(Words)
  BY <1>1, EmptySeq DEF IsText
<1>3. PlainTextFeature \in ToSeqs(Block, Words)
  BY <1>2 DEF ToSeqs, PlainTextFeature
<1>4. /\ \A b \in Block : b.kind = "text" => PlainTextFeature[b] = b.text
      /\ \A b \in Block : b.kind # "text" => PlainTextFeature[b] = << >>
  BY DEF PlainTextFeature, IsText
<1> QED
  BY <1>3, <1>4 DEF Feature, IsText, IsImage, IsCall, IsResult

\* The calls of blocks are as many as the names that CallFeature lists.
LEMMA CallsCounted ==
  ASSUME NEW blocks \in Seq(Block)
  PROVE  Len(Filtered(blocks, IsCall)) = Len(FlatMap(CallFeature, blocks))
<1> DEFINE calls == Filtered(blocks, IsCall)
           list  == [i \in DOMAIN calls |-> calls[i].name]
<1>1. Left(calls, OfKind(blocks, "tool_use"), blocks)
  BY FilteredLeft
<1>2. /\ DOMAIN calls = 1..Len(calls) /\ Len(calls) \in Nat
      /\ \A i \in DOMAIN calls : calls[i] \in Block /\ calls[i].kind = "tool_use"
  <2> HIDE DEF calls
  <2> QED
    BY <1>1, LeftTyped
<1> HIDE DEF calls
<1>3. \A i \in DOMAIN calls : calls[i].name \in STRING
  BY <1>2, BlockKinds DEF IsCall, CallBlock
<1>4. /\ list \in [1..Len(calls) -> STRING] /\ DOMAIN list = DOMAIN calls
      /\ \A i \in DOMAIN calls : list[i] = calls[i].name
  BY <1>2, <1>3
<1> HIDE DEF list
<1>5. list \in Seq(STRING) /\ DOMAIN list = DOMAIN calls
  BY <1>2, <1>4
<1>6. \A i \in DOMAIN list : CallFeature[calls[i]] = <<list[i]>>
  BY <1>2, <1>4 DEF CallFeature, IsCall
<1>7. \A b \in Block : b.kind # "tool_use" => CallFeature[b] = << >>
  BY DEF CallFeature, IsCall
<1>8. CallFeature \in ToSeqs(Block, STRING)
  BY Features DEF Feature
<1>9. FlatMap(CallFeature, blocks) = list
  BY <1>1, <1>5, <1>6, <1>7, <1>8, ListOfKind
<1>10. Len(list) = Len(calls)
  <2>1. 1..Len(list) = 1..Len(calls) /\ Len(list) \in Nat
    BY <1>2, <1>5, LenProperties
  <2> QED
    BY <1>2, <2>1
<1> QED
  BY <1>9, <1>10 DEF calls

\* A message on the wire has no two calls unless a message of the conversation has.
LEMMA ParallelCallsFound ==
  ASSUME NEW a \in Adapters, NEW req, req.messages \in Seq(Message), req.system \in Seq(Words),
         Builds(a, req.messages),
         NEW k \in DOMAIN Wire(a, req), Len(CallsOf(Wire(a, req)[k])) >= 2
  PROVE  HasParallelCalls(req.messages)
<1> DEFINE V    == OfMessages(CallFeature)
           msgs == req.messages
           w    == Wire(a, req)[k]
<1>1. Feature(CallFeature, STRING) /\ CallFeature \in ToSeqs(Block, STRING)
  BY Features DEF Feature
<1>2. WithinOne(CallFeature, w, msgs)
  BY <1>1, WireWithinOne
<1>3. w \in Message
  <2>1. Wire(a, req) \in Seq(Message)
    BY <1>1, WireHeard
  <2> DEFINE wire == Wire(a, req)
  <2>2. wire \in Seq(Message) /\ k \in DOMAIN wire
    BY <2>1
  <2> HIDE DEF wire
  <2>3. wire[k] \in Message
    BY <2>2, LenProperties, ElementOfSeq
  <2> QED
    BY <2>3 DEF wire
<1>4. Len(CallsOf(w)) >= 2
  OBVIOUS
<1> HIDE DEF w
<1>5. w.content \in Seq(Block) /\ \A i \in DOMAIN w.content : w.content[i] \in Block
  BY <1>3, MessageParts
<1>6. Len(FlatMap(CallFeature, w.content)) >= 2
  BY <1>4, <1>5, CallsCounted DEF CallsOf
<1>7. ~Prompts(w)
  <2> SUFFICES ASSUME Prompts(w) PROVE FALSE
    OBVIOUS
  <2>1. \A i \in DOMAIN w.content : CallFeature[w.content[i]] = << >>
    BY <1>5 DEF Prompts, CallFeature, IsText, IsCall
  <2>2. FlatMap(CallFeature, w.content) = << >>
    BY <1>5, <2>1, FlatMapNothing
  <2>3. Len(<< >>) = 0
    OBVIOUS
  <2> QED
    BY <1>6, <2>2, <2>3
<1>8. PICK n \in DOMAIN msgs : Len(V[w]) <= Len(V[msgs[n]])
  BY <1>2, <1>7 DEF WithinOne
<1>9. V[w] = FlatMap(CallFeature, w.content)
  BY <1>2, <1>3, <1>7 DEF WithinOne, OfMessages
<1> DEFINE m == msgs[n]
<1>10. m \in Message
  BY LenProperties, ElementOfSeq
<1>11. V[m] = IF m.role = "system" THEN << >> ELSE FlatMap(CallFeature, m.content)
  BY <1>10 DEF OfMessages
<1>12. m.content \in Seq(Block)
  BY <1>10, MessageParts
<1>13. Len(V[w]) \in Nat /\ Len(V[m]) \in Nat
  <2>1. V \in ToSeqs(Message, STRING)
    BY <1>1, OfMessagesTyped
  <2> HIDE DEF V, m
  <2>2. V[w] \in Seq(STRING) /\ V[m] \in Seq(STRING)
    BY <1>3, <1>10, <2>1 DEF ToSeqs
  <2> QED
    BY <2>2, LenProperties
<1>14. Len(V[m]) >= 2
  <2> HIDE DEF V, m
  <2>1. Len(V[w]) >= 2 /\ Len(V[w]) <= Len(V[m])
    BY <1>6, <1>8, <1>9 DEF m
  <2> QED
    BY <1>13, <2>1
<1>15. Len(FlatMap(CallFeature, m.content)) >= 2
  <2>1. Len(<< >>) = 0
    OBVIOUS
  <2> QED
    BY <1>11, <1>14, <2>1
<1>16. Len(Filtered(m.content, IsCall)) >= 2
  BY <1>12, <1>15, CallsCounted
<1> QED
  BY <1>16 DEF HasParallelCalls

\* No image is sent unless a message of the conversation has one.
LEMMA ImagesFound ==
  ASSUME NEW a \in Adapters, NEW req, req.messages \in Seq(Message), req.system \in Seq(Words),
         Builds(a, req.messages),
         Filtered(Spoken(Wire(a, req)), IsImage) # << >>
  PROVE  HasImages(req.messages)
<1> DEFINE V      == OfMessages(ImageFeature)
           msgs   == req.messages
           wire   == Wire(a, req)
           images == Filtered(Spoken(wire), IsImage)
<1>1. Feature(ImageFeature, {"image"}) /\ ImageFeature \in ToSeqs(Block, {"image"})
  BY Features DEF Feature
<1>2. wire \in Seq(Message) /\ FlatMap(V, wire) = FlatMap(V, msgs)
  BY <1>1, WireHeard
<1> HIDE DEF wire
<1>3. Len(images) = Len(FlatMap(V, wire))
  <2>1. Heard(wire).images = Len(FlatMap(V, wire))
    BY <1>2, HeardFeatures
  <2> QED
    BY <2>1 DEF Heard
<1>4. images \in Seq(Block)
  <2>1. Spoken(wire) \in Seq(Block)
    BY <1>1, <1>2, SpokenHeard
  <2>2. Left(images, OfKind(Spoken(wire), "image"), Spoken(wire))
    BY FilteredLeft
  <2> HIDE DEF images
  <2> QED
    BY <2>1, <2>2, LeftTyped
<1>5. images # << >>
  BY DEF wire
<1> HIDE DEF images
<1>6. Len(images) # 0
  BY <1>4, <1>5, EmptySeq, LenProperties
<1> SUFFICES ASSUME ~HasImages(msgs) PROVE FALSE
  OBVIOUS
<1>7. \A n \in DOMAIN msgs : V[msgs[n]] = << >>
  <2> TAKE n \in DOMAIN msgs
  <2> DEFINE m == msgs[n]
  <2>1. m \in Message
    BY LenProperties, ElementOfSeq
  <2>2. m.content \in Seq(Block) /\ \A i \in DOMAIN m.content : m.content[i] \in Block
    BY <2>1, MessageParts
  <2>3. \A i \in DOMAIN m.content : ~IsImage(m.content[i])
    BY DEF HasImages
  <2> HIDE DEF m
  <2>4. \A i \in DOMAIN m.content : ImageFeature[m.content[i]] = << >>
    BY <2>2, <2>3 DEF ImageFeature
  <2>5. FlatMap(ImageFeature, m.content) = << >>
    BY <2>2, <2>4, FlatMapNothing
  <2> QED
    BY <2>1, <2>5 DEF OfMessages, m
<1>8. FlatMap(V, msgs) = << >>
  <2> HIDE DEF V
  <2> QED
    BY <1>7, FlatMapNothing
<1>9. Len(<< >>) = 0
  OBVIOUS
<1> QED
  BY <1>2, <1>3, <1>6, <1>8, <1>9

\* The texts that are spoken, and how long they are together.
LEMMA SpokenChars ==
  ASSUME NEW blocks \in Seq(Block)
  PROVE  LET texts == Filtered(blocks, IsText)
         IN  Total([i \in DOMAIN texts |-> Chars(texts[i].text)])
               = Chars(FlatMap(PlainTextFeature, blocks))
<1> DEFINE P     == PlainTextFeature
           texts == Filtered(blocks, IsText)
           D     == OfKind(blocks, "text")
           ts    == [i \in DOMAIN texts |-> P[texts[i]]]
           ns    == [i \in DOMAIN texts |-> Chars(texts[i].text)]
<1>1. P \in ToSeqs(Block, Words)
  BY PlainText DEF Feature
<1>2. Left(texts, D, blocks)
  <2>1. [i \in DOMAIN blocks |-> IF IsText(blocks[i]) THEN <<blocks[i]>> ELSE << >>]
          = [i \in DOMAIN blocks |-> IF i \in D THEN <<blocks[i]>> ELSE << >>]
    BY DEF IsText, OfKind
  <2> QED
    BY <2>1 DEF Left, Filtered
<1>3. /\ texts \in Seq(Block) /\ DOMAIN texts = 1..Len(texts) /\ Len(texts) \in Nat
      /\ \A i \in DOMAIN texts : texts[i] \in Block /\ texts[i].kind = "text"
  <2> HIDE DEF texts
  <2> QED
    BY <1>2, LeftTyped
<1> HIDE DEF texts
<1>4. \A i \in DOMAIN blocks : i \notin D => P[blocks[i]] = << >>
  <2>1. \A i \in DOMAIN blocks : blocks[i] \in Block
    BY LenProperties, ElementOfSeq
  <2> QED
    BY <2>1 DEF PlainTextFeature, OfKind, IsText
<1>5. \A i \in DOMAIN texts : ts[i] = texts[i].text
  BY <1>3 DEF PlainTextFeature, IsText
<1>6. ts \in Seq(Seq(Words)) /\ DOMAIN ts = DOMAIN texts /\ FlatMap(P, texts) = FlattenSeq(ts)
  <2>1. ts \in Seq(Seq(Words))
    <3> HIDE DEF P
    <3> QED
      BY <1>1, <1>3, FlatMapTyped
  <2> QED
    BY <2>1 DEF FlatMap
<1>7. \A i \in DOMAIN ts : ns[i] = Chars(ts[i])
  BY <1>5, <1>6
<1>8. DOMAIN ns = DOMAIN ts /\ ns = [i \in DOMAIN ns |-> ns[i]]
  BY <1>6
<1>9. ns = [i \in DOMAIN texts |-> Chars(texts[i].text)]
  OBVIOUS
<1> HIDE DEF ts, ns, P, D
<1>10. Chars(FlattenSeq(ts)) = Total(ns)
  BY <1>6, <1>7, <1>8, CharsFlatten
<1>11. FlatMap(P, texts) = FlatMap(P, blocks)
  BY <1>1, <1>2, <1>4, FlatMapFiltered
<1> QED
  BY <1>6, <1>9, <1>10, <1>11 DEF texts, P

\* What an integer division by 4 loses.
LEMMA Quarters == \A n \in Nat : n \div 4 \in Nat /\ n <= 4 * (n \div 4) + 3
OBVIOUS

\* The estimate of a conversation's tokens, and the text that it stands for: what blocks
\* have at the top level, prompts included, is at least what is said outside of prompts.
LEMMA EstimateBounds ==
  ASSUME NEW msgs \in Seq(Message)
  PROVE  LET pieces == Len(FlattenSeq([n \in DOMAIN msgs |-> msgs[n].content]))
         IN  /\ EstimatedInputTokens(msgs) \in Nat /\ pieces \in Nat
             /\ Chars(FlatMap(OfMessages(PlainTextFeature), msgs)) \in Nat
             /\ Chars(FlatMap(OfMessages(PlainTextFeature), msgs))
                  <= 4 * EstimatedInputTokens(msgs) + 3 * pieces
<1> DEFINE P      == PlainTextFeature
           V      == OfMessages(P)
           cs     == [n \in DOMAIN msgs |-> msgs[n].content]
           flat   == FlattenSeq(cs)
           said   == [n \in DOMAIN msgs |-> V[msgs[n]]]
           all    == [n \in DOMAIN msgs |-> FlatMap(P, msgs[n].content)]
           saidN  == [n \in DOMAIN msgs |-> Chars(said[n])]
           allN   == [n \in DOMAIN msgs |-> Chars(all[n])]
<1>1. P \in ToSeqs(Block, Words) /\ V \in ToSeqs(Message, Words)
  BY PlainText, OfMessagesTyped DEF Feature
<1>2. /\ DOMAIN msgs = 1..Len(msgs) /\ Len(msgs) \in Nat
      /\ \A n \in DOMAIN msgs : msgs[n] \in Message /\ msgs[n].content \in Seq(Block)
  BY LenProperties, ElementOfSeq, MessageParts
<1>3. cs \in Seq(Seq(Block)) /\ DOMAIN cs = DOMAIN msgs
  BY <1>2
<1>4. flat \in Seq(Block) /\ Len(flat) \in Nat /\ DOMAIN flat = 1..Len(flat)
      /\ \A i \in DOMAIN flat : flat[i] \in Block
  <2> HIDE DEF cs
  <2>1. flat \in Seq(Block)
    BY <1>3, FlattenLayout
  <2> HIDE DEF flat
  <2> QED
    BY <2>1, LenProperties, ElementOfSeq
<1>5. \A n \in DOMAIN msgs : FlatMap(P, msgs[n].content) \in Seq(Words)
  <2> HIDE DEF P
  <2> QED
    BY <1>1, <1>2, FlatMapTyped
<1>6. all \in Seq(Seq(Words)) /\ DOMAIN all = DOMAIN msgs /\ Len(all) = Len(msgs)
  <2>1. all \in [1..Len(msgs) -> Seq(Words)]
    BY <1>2, <1>5
  <2> HIDE DEF all
  <2> QED
    BY <1>2, <2>1
<1>7. said \in Seq(Seq(Words)) /\ DOMAIN said = DOMAIN msgs /\ Len(said) = Len(msgs)
      /\ FlatMap(V, msgs) = FlattenSeq(said)
  <2> HIDE DEF V
  <2>1. said \in Seq(Seq(Words)) /\ Len(said) = Len(msgs)
    BY <1>1, FlatMapTyped
  <2> QED
    BY <2>1 DEF FlatMap
\* Lengths of the messages' texts.
<1>8. saidN \in Seq(Nat) /\ Len(saidN) = Len(msgs) /\ Chars(FlattenSeq(said)) = Total(saidN)
  <2>1. /\ DOMAIN saidN = DOMAIN said /\ saidN = [n \in DOMAIN saidN |-> saidN[n]]
        /\ \A n \in DOMAIN said : saidN[n] = Chars(said[n])
    BY <1>7
  <2> HIDE DEF saidN, said
  <2> QED
    BY <1>7, <2>1, CharsFlatten
<1>9. allN \in Seq(Nat) /\ Len(allN) = Len(msgs) /\ Chars(FlattenSeq(all)) = Total(allN)
  <2>1. /\ DOMAIN allN = DOMAIN all /\ allN = [n \in DOMAIN allN |-> allN[n]]
        /\ \A n \in DOMAIN all : allN[n] = Chars(all[n])
    BY <1>6
  <2> HIDE DEF allN, all
  <2> QED
    BY <1>6, <2>1, CharsFlatten
<1>10. \A n \in 1..Len(msgs) : saidN[n] <= allN[n]
  <2> TAKE n \in 1..Len(msgs)
  <2> DEFINE m == msgs[n]
             x == FlatMap(P, m.content)
  <2>1. m \in Message /\ x \in Seq(Words)
    BY <1>2, <1>5
  <2>2. V[m] = IF m.role = "system" THEN << >> ELSE x
    BY <2>1 DEF OfMessages
  <2>3. saidN[n] = Chars(V[m]) /\ allN[n] = Chars(x)
    BY <1>2
  <2> HIDE DEF x, m, V, saidN, allN
  <2>4. Chars(x) \in Nat /\ Chars(<< >>) = 0
    BY <2>1, CharsTyped, CharsConcat
  <2> QED
    BY <2>2, <2>3, <2>4
<1>11. Total(saidN) <= Total(allN) /\ Total(saidN) \in Nat /\ Total(allN) \in Nat
  <2> HIDE DEF saidN, allN
  <2> QED
    BY <1>8, <1>9, <1>10, TotalMonotonic, TotalTyped
\* Lengths of the blocks' texts.
<1>12. FlattenSeq(all) = FlatMap(P, flat)
  <2>1. /\ DOMAIN all = DOMAIN cs /\ all = [n \in DOMAIN all |-> all[n]]
        /\ \A n \in DOMAIN cs : all[n] = FlatMap(P, cs[n])
    OBVIOUS
  <2> HIDE DEF all, cs, P
  <2> QED
    BY <1>1, <1>3, <2>1, FlatMapFlatten
<1> HIDE DEF flat
<1> DEFINE ts     == [i \in DOMAIN flat |-> P[flat[i]]]
           chars  == [i \in DOMAIN flat |-> Chars(P[flat[i]])]
           tokens == [i \in DOMAIN flat |-> IF IsText(flat[i]) THEN Chars(flat[i].text) \div 4 ELSE 0]
<1>13. EstimatedInputTokens(msgs) = Total(tokens)
  BY DEF EstimatedInputTokens, flat
<1>14. ts \in Seq(Seq(Words)) /\ Len(ts) = Len(flat) /\ FlatMap(P, flat) = FlattenSeq(ts)
  <2> HIDE DEF P, V, chars, tokens
  <2>1. P \in ToSeqs(Block, Words) /\ flat \in Seq(Block)
    BY <1>1, <1>4
  <2>2. ts \in Seq(Seq(Words)) /\ Len(ts) = Len(flat)
    BY <2>1, FlatMapTyped
  <2> QED
    BY <2>2 DEF FlatMap
<1>15. chars \in Seq(Nat) /\ Len(chars) = Len(flat) /\ Chars(FlattenSeq(ts)) = Total(chars)
  <2>1. /\ DOMAIN chars = DOMAIN ts /\ chars = [i \in DOMAIN chars |-> chars[i]]
        /\ \A i \in DOMAIN ts : chars[i] = Chars(ts[i])
    OBVIOUS
  <2> HIDE DEF chars, ts, P
  <2> QED
    BY <1>14, <2>1, CharsFlatten
<1>16. \A i \in DOMAIN flat : tokens[i] \in Nat /\ chars[i] <= 4 * tokens[i] + 3
  <2> TAKE i \in DOMAIN flat
  <2> DEFINE b == flat[i]
  <2>1. b \in Block
    BY <1>4
  <2>2. P[b] = IF IsText(b) THEN b.text ELSE << >>
    BY <2>1 DEF PlainTextFeature
  <2>3. tokens[i] = IF IsText(b) THEN Chars(b.text) \div 4 ELSE 0
    OBVIOUS
  <2>4. chars[i] = Chars(P[b])
    OBVIOUS
  <2> HIDE DEF b, P, tokens, chars
  <2>5. CASE IsText(b)
    <3>1. b.text \in Seq(Words)
      BY <2>1, <2>5, BlockKinds DEF IsText
    <3> DEFINE c == Chars(b.text)
    <3>2. c \in Nat
      BY <3>1, CharsTyped
    <3>3. tokens[i] = c \div 4 /\ chars[i] = c
      BY <2>2, <2>3, <2>4, <2>5
    <3> HIDE DEF c
    <3> QED
      BY <3>2, <3>3, Quarters
  <2>6. CASE ~IsText(b)
    <3>1. tokens[i] = 0 /\ chars[i] = 0
      BY <2>2, <2>3, <2>4, <2>6, CharsConcat
    <3> QED
      BY <3>1
  <2> QED
    BY <2>5, <2>6
<1>17. tokens \in Seq(Nat) /\ Len(tokens) = Len(flat) /\ DOMAIN tokens = DOMAIN flat
  <2>1. tokens \in [1..Len(flat) -> Nat] /\ DOMAIN tokens = DOMAIN flat
    BY <1>4, <1>16
  <2> HIDE DEF tokens
  <2>2. tokens \in Seq(Nat)
    BY <1>4, <2>1
  <2>3. 1..Len(tokens) = 1..Len(flat) /\ Len(tokens) \in Nat
    BY <1>4, <2>1, <2>2, LenProperties
  <2> QED
    BY <1>4, <2>1, <2>2, <2>3
<1>18. Total(chars) <= 4 * Total(tokens) + 3 * Len(tokens)
  <2>1. \A i \in 1..Len(chars) : chars[i] <= 4 * tokens[i] + 3
    BY <1>4, <1>15, <1>16
  <2> HIDE DEF chars, tokens
  <2>2. Len(chars) = Len(tokens)
    BY <1>15, <1>17
  <2> QED
    BY <1>15, <1>17, <2>1, <2>2, TotalOfQuarters
<1>19. Total(tokens) \in Nat
  <2> HIDE DEF tokens
  <2> QED
    BY <1>17, TotalTyped
<1> HIDE DEF tokens, chars, ts, all, said, saidN, allN, V, P
<1>20. Chars(FlatMap(V, msgs)) <= 4 * Total(tokens) + 3 * Len(flat)
  <2>1. Chars(FlatMap(V, msgs)) = Total(saidN)
    BY <1>7, <1>8
  <2>2. Total(allN) = Total(chars)
    BY <1>9, <1>12, <1>14, <1>15
  <2>3. Total(allN) <= 4 * Total(tokens) + 3 * Len(flat)
    BY <1>17, <1>18, <2>2
  <2> QED
    BY <1>4, <1>11, <1>19, <2>1, <2>3
<1>21. Chars(FlatMap(V, msgs)) \in Nat
  BY <1>7, <1>8, <1>11
<1> QED
  BY <1>4, <1>13, <1>19, <1>20, <1>21 DEF flat, V, P

\* What the catalog says of a model is enough: if it has what the router asks for, it can
\* take what the adapter makes of the request.
LEMMA SatisfyingIsAllowed ==
  ASSUME request \in Request, Adapter \in Adapters, Builds(Adapter, request.messages),
         NEW info \in ModelInfo, Satisfies(info, Required(request))
  PROVE  Allowed(info)
<1> DEFINE P      == PlainTextFeature
           V      == OfMessages(P)
           a      == Adapter
           msgs   == request.messages
           wire   == Wire(a, request)
           blocks == Spoken(wire)
           texts  == Filtered(blocks, IsText)
           chars  == Total([i \in DOMAIN texts |-> Chars(texts[i].text)])
           pieces == Len(FlattenSeq([n \in DOMAIN msgs |-> msgs[n].content]))
           tokens == EstimatedInputTokens(msgs)
<1>1. /\ msgs \in Seq(Message) /\ request.system \in Seq(Words) /\ request.maxTokens \in Nat
      /\ a \in Adapters /\ Builds(a, msgs)
  BY DEF Request
<1>2. /\ request.tools \/ HasParallelCalls(msgs) => info.tools
      /\ HasParallelCalls(msgs) => info.parallel
      /\ HasImages(msgs) => info.vision
      /\ request.thinking => info.thinking
      /\ info.context > 0 => tokens + 500 + request.maxTokens <= info.context
      /\ info.context \in Nat
  BY DEF Satisfies, Required, ModelInfo
<1>3. ASSUME NEW k \in DOMAIN wire, Len(CallsOf(wire[k])) >= 2
      PROVE  HasParallelCalls(msgs)
  <2> HIDE DEF a
  <2> QED
    BY <1>1, <1>3, ParallelCallsFound
<1>4. Filtered(blocks, IsImage) # << >> => HasImages(msgs)
  <2> HIDE DEF a
  <2> QED
    BY <1>1, ImagesFound
<1>5. wire \in Seq(Message) /\ FlatMap(V, wire) = FlatMap(V, msgs)
  <2> HIDE DEF a
  <2> QED
    BY <1>1, PlainText, WireHeard
<1>6. chars = Chars(FlatMap(V, msgs))
  <2> HIDE DEF wire
  <2>1. P \in ToSeqs(Block, Words)
    BY PlainText DEF Feature
  <2>2. blocks \in Seq(Block) /\ FlatMap(P, blocks) = FlatMap(V, wire)
    <3> HIDE DEF P
    <3> QED
      BY <1>5, <2>1, SpokenHeard
  <2> HIDE DEF blocks
  <2>3. chars = Chars(FlatMap(P, blocks))
    BY <2>2, SpokenChars
  <2> QED
    BY <1>5, <2>2, <2>3
<1>7. /\ tokens \in Nat /\ pieces \in Nat /\ Chars(FlatMap(V, msgs)) \in Nat
      /\ Chars(FlatMap(V, msgs)) <= 4 * tokens + 3 * pieces
  <2> HIDE DEF msgs
  <2> QED
    BY <1>1, EstimateBounds
<1>8. Sent = wire
  BY DEF Sent
<1>9. Allowed(info) <=>
        /\ request.tools => info.tools
        /\ request.thinking => info.thinking
        /\ Filtered(blocks, IsImage) # << >> => info.vision
        /\ \A n \in DOMAIN wire : Len(CallsOf(wire[n])) >= 2 => info.parallel /\ info.tools
        /\ info.context > 0 =>
             chars <= 4 * (info.context - 500 - request.maxTokens) + 3 * pieces
  BY <1>8 DEF Allowed
<1>10. info.context > 0 => chars <= 4 * (info.context - 500 - request.maxTokens) + 3 * pieces
  <2> HIDE DEF chars, tokens, pieces, V
  <2>1. \A c, t, p, x, m \in Nat :
          c <= 4 * t + 3 * p /\ t + 500 + m <= x => c <= 4 * (x - 500 - m) + 3 * p
    OBVIOUS
  <2>2. chars \in Nat /\ chars <= 4 * tokens + 3 * pieces
    BY <1>6, <1>7
  <2> QED
    BY <1>1, <1>2, <1>7, <2>1, <2>2
<1> HIDE DEF wire, blocks, chars, pieces, tokens, msgs
<1> QED
  BY <1>2, <1>3, <1>4, <1>9, <1>10

\* A candidate that the policy gave and the catalog knows has what the router asks for.
LEMMA PickedSatisfies ==
  ASSUME NEW req, req.model = NoModel, NEW p \in DOMAIN PickCandidates(req),
         PickCandidates(req)[p] \in Catalogued
  PROVE  Satisfies(InfoOf[PickCandidates(req)[p]], Required(req))
<1> DEFINE name == IF req.policy = NoPolicy THEN DefaultPolicy ELSE req.policy
           s    == Candidates[name]
           t    == Pick(name, req)
           Good(ref) == ref \in Catalogued => Satisfies(InfoOf[ref], Required(req))
           D    == {i \in 1..Len(s) : Good(s[i])}
<1>1. NoModel \notin Refs
  BY RefsAreModels
<1>2. CASE name \notin DOMAIN Candidates
  <2>1. PickCandidates(req) = << >>
    BY <1>1, <1>2 DEF PickCandidates
  <2> QED
    BY <2>1
<1>3. CASE name \in DOMAIN Candidates
  <2>1. PickCandidates(req) = t
    BY <1>1, <1>3 DEF PickCandidates
  <2>2. s \in Seq(Refs)
    BY <1>3, PoliciesAssumption DEF GoodPolicies
  <2>3. DOMAIN s = 1..Len(s)
    BY <2>2, LenProperties
  <2>4. t = FlattenSeq([i \in DOMAIN s |-> IF i \in D THEN <<s[i]>> ELSE << >>])
    <3>1. [i \in DOMAIN s |-> IF s[i] \in Catalogued => Satisfies(InfoOf[s[i]], Required(req))
                              THEN <<s[i]>> ELSE << >>]
            = [i \in DOMAIN s |-> IF i \in D THEN <<s[i]>> ELSE << >>]
      BY <2>3
    <3> QED
      BY <3>1 DEF Pick, Filtered
  <2>5. D \in SUBSET (1..Len(s)) /\ \A i \in D : Good(s[i])
    OBVIOUS
  <2> HIDE DEF s, D, t, Good
  <2>6. t \in Seq(Refs) /\ \E at : Picks(at, D, s, t)
    BY <2>2, <2>4, <2>5, FilterPicks
  <2>7. p \in 1..Len(t)
    BY <2>1, <2>6, LenProperties
  <2>8. PICK i \in D : t[p] = s[i]
    BY <2>6, <2>7 DEF Picks
  <2>9. Good(t[p])
    BY <2>5, <2>8
  <2> QED
    BY <2>1, <2>9 DEF Good
<1> QED
  BY <1>2, <1>3

\* The next candidate is one that is left.
LEMMA CurrentIsLeft ==
  ASSUME left \in SUBSET Nat, left # {}
  PROVE  F!Current \in left
<1> DEFINE R == OpToRel(<, Nat)
<1>1. IsWellFoundedOn(R, Nat)
  BY NatLessThanWellFounded
<1> HIDE DEF R
<1>2. PICK p \in left : \A q \in left : ~ (<<q, p>> \in R)
  BY <1>1, WFMin
<1>3. \A q \in left : ~ (q < p)
  BY <1>2 DEF R, OpToRel
<1>4. \A q \in left : p <= q
  BY <1>3
<1> QED
  BY <1>4 DEF F!Current, F!Next1

\* The candidates are those of the request that is sent, and the loop stays within them.
Routed ==
  /\ outcome = "running" => /\ budget <= Cardinality(left)
                            /\ asked.model = request.model
                            /\ candidates = PickCandidates(request)
  /\ phase \in {"head", "body"} => budget > 0

\* The candidates that are left are finitely many, and while the loop runs there is one.
LEMMA LoopHasCandidate ==
  ASSUME TypeInv
  PROVE  /\ IsFiniteSet(left) /\ Cardinality(left) \in Nat /\ left \in SUBSET Nat
         /\ Routed /\ F!Running => F!Current \in left
<1>1. candidates \in Seq(Refs) /\ left \subseteq DOMAIN candidates /\ budget \in Int
  BY DEF TypeInv, TypeOK
<1>2. DOMAIN candidates = 1..Len(candidates) /\ Len(candidates) \in Nat
  BY <1>1, LenProperties
<1>3. IsFiniteSet(1..Len(candidates))
  BY <1>2, FS_Interval
<1>4. left \in SUBSET (1..Len(candidates))
  BY <1>1, <1>2
<1>5. IsFiniteSet(left) /\ Cardinality(left) \in Nat /\ left \in SUBSET Nat
  <2>1. IsFiniteSet(left)
    BY <1>3, <1>4, FS_Subset
  <2>2. left \in SUBSET Nat
    BY <1>2, <1>4
  <2> QED
    BY <2>1, <2>2, FS_CardinalityType
<1>6. ASSUME Routed, F!Running PROVE F!Current \in left
  <2>1. Cardinality(left) > 0
    BY <1>1, <1>5, <1>6 DEF Routed, F!Running
  <2>2. left # {}
    BY <2>1, FS_EmptySet
  <2> QED
    BY <1>5, <2>2, CurrentIsLeft
<1> QED
  BY <1>5, <1>6

\* The loop goes on to the next candidate.
LEMMA AdvanceRouted ==
  ASSUME TypeInv, Routed, F!Running, F!Advance, UNCHANGED <<asked, request>>
  PROVE  /\ outcome' = "running" => /\ budget' <= Cardinality(left')
                                    /\ asked'.model = request'.model
                                    /\ candidates' = PickCandidates(request')
<1>1. /\ left' = left \ {F!Current} /\ budget' = budget - 1
      /\ candidates' = candidates /\ outcome = "running" /\ asked' = asked /\ request' = request
  BY DEF F!Advance, F!config, F!Running
<1>2. F!Current \in left /\ IsFiniteSet(left) /\ Cardinality(left) \in Nat
  BY LoopHasCandidate
<1>3. Cardinality(left \ {F!Current}) = Cardinality(left) - 1
  BY <1>2, FS_RemoveElement
<1>4. budget \in Int /\ budget <= Cardinality(left)
        /\ asked.model = request.model /\ candidates = PickCandidates(request)
  BY <1>1 DEF TypeInv, TypeOK, Routed
<1>5. budget' <= Cardinality(left')
  BY <1>1, <1>2, <1>3, <1>4
<1> QED
  BY <1>1, <1>4, <1>5

\* The end of an attempt with an error.
LEMMA FailRouted ==
  ASSUME TypeInv, Routed, NEW kind, NEW status, Fail(kind, status)
  PROVE  Routed'
<1>1. /\ phase' = "loop" /\ UNCHANGED <<asked, request>>
      /\ \/ F!FailAndHalt(kind, FALSE)
         \/ F!FailAndAdvance(kind, FALSE)
         \/ F!FailAndGoLarger(FALSE)
  BY DEF Fail, Rest, inputs
<1>2. CASE F!FailAndHalt(kind, FALSE)
  BY <1>1, <1>2 DEF F!FailAndHalt, F!Finish, Routed
<1>3. CASE F!FailAndAdvance(kind, FALSE)
  <2>1. F!Running /\ F!Advance
    BY <1>3 DEF F!FailAndAdvance
  <2> QED
    BY <1>1, <2>1, AdvanceRouted DEF Routed
<1>4. CASE F!FailAndGoLarger(FALSE)
  <2>1. /\ outcome = "running" /\ candidates' = candidates
        /\ left' \subseteq left
        /\ budget' = Cardinality(left')
    BY <1>4, SameCardinality DEF F!FailAndGoLarger, F!Running, F!config, F!LargerContext
  <2>2. asked.model = request.model /\ candidates = PickCandidates(request)
    BY <2>1 DEF Routed
  <2>3. Cardinality(left') <= Cardinality(left')
    <3>1. IsFiniteSet(left') /\ Cardinality(left') \in Nat
      BY <2>1, LoopHasCandidate, FS_Subset, FS_CardinalityType
    <3> QED
      BY <3>1
  <2> QED
    BY <1>1, <2>1, <2>2, <2>3 DEF Routed
<1> QED
  BY <1>1, <1>2, <1>3, <1>4

\* No turn has begun.
LEMMA RoutedInit == Init => Routed
BY DEF Init, Routed

\* Every step keeps it.
LEMMA RoutedStep == TypeInv /\ EndInv /\ Routed /\ [Next]_vars => Routed'
<1> SUFFICES ASSUME TypeInv, EndInv, Routed, [Next]_vars PROVE Routed'
  OBVIOUS
<1>1. ASSUME NEW ask \in ClientAsks, Refuse(ask) \/ NoCandidate(ask)
      PROVE  Routed'
  <2>1. phase = "idle" /\ phase' = "idle" /\ outcome' = outcome
    BY <1>1 DEF Refuse, NoCandidate, Receive, executor
  <2> QED
    BY <2>1 DEF EndInv, Routed
<1>2. ASSUME NEW ask \in ClientAsks, NEW md \in Modes, Start(ask, md)
      PROVE  Routed'
  <2>1. /\ candidates' = PickCandidates(Merged(ask))
        /\ asked' = ask /\ request' = Merged(ask)
        /\ left' = DOMAIN candidates'
        /\ budget' = F!Budget(maxAttempts, md, Len(candidates'))
        /\ phase' = "loop"
    BY <1>2 DEF Start, Receive, Picked
  <2>2. candidates' \in Seq(Refs)
    BY <2>1, PickTyped
  <2>3. DOMAIN candidates' = 1..Len(candidates') /\ Len(candidates') \in Nat
    BY <2>2, LenProperties
  <2>4. Cardinality(left') = Len(candidates')
    <3> DEFINE n == Len(candidates')
    <3>1. Cardinality(1..n) = n
      <4>1. 1 \in Int /\ n \in Int /\ n >= 0
        BY <2>3
      <4> HIDE DEF n
      <4>2. Cardinality(1..n) = IF 1 > n THEN 0 ELSE n - 1 + 1
        BY <4>1, FS_Interval
      <4> QED
        BY <4>1, <4>2
    <3> QED
      BY <2>1, <2>3, <3>1
  <2>5. budget' <= Len(candidates')
    <3>1. maxAttempts \in Int
      BY DEF TypeInv, TypeOK
    <3> QED
      BY <2>1, <2>3, <3>1 DEF F!Budget
  <2>6. Merged(ask).model = ask.model
    <3>1. ask \in Request
      BY AskTyped DEF TypeInv, TypeOK
    <3> QED
      BY <3>1 DEF Merged, Request
  <2> QED
    BY <2>1, <2>4, <2>5, <2>6 DEF Routed
<1>3. CASE Skip
  <2>1. /\ F!Running /\ F!Advance /\ UNCHANGED <<asked, request>> /\ phase' = "loop"
    BY <1>3 DEF Skip, F!SkipUnregistered, Rest, inputs
  <2> QED
    BY <2>1, AdvanceRouted DEF Routed
<1>4. CASE Send
  BY <1>4 DEF Send, CanSend, Attempt, F!Running, executor, Rest, inputs, Routed
<1>5. ASSUME NEW status \in Statuses, HeadersArrive(status)
      PROVE  Routed'
  <2>1. /\ phase = "head" /\ UNCHANGED <<asked, request>>
        /\ \/ phase' = "loop" /\ outcome' = "reply"
           \/ phase' = "body" /\ UNCHANGED executor
    BY <1>5 DEF HeadersArrive, F!Reply, F!Finish, Rest, inputs
  <2> QED
    BY <2>1 DEF Routed, executor
<1>6. ASSUME NEW parts \in Parts, AnswerRead(parts)
      PROVE  Routed'
  BY <1>6 DEF AnswerRead, F!Reply, F!Finish, Routed
\* The exchanges that end with an error.
<1>7. ASSUME BodyFails PROVE Routed'
  <2>1. \E kind : Fail(kind, head)
    BY <1>7 DEF BodyFails
  <2> QED
    BY <2>1, FailRouted
<1>8. CASE NotSent \/ SendTooLate \/ Undecodable \/ HeadLost
  <2>1. \E kind, status : Fail(kind, status)
    BY <1>8 DEF NotSent, SendTooLate, Undecodable, HeadLost
  <2> QED
    BY <2>1, FailRouted
<1>9. ASSUME NEW overflow \in BOOLEAN, ErrorRead(overflow)
      PROVE  Routed'
  <2>1. \E kind, status : Fail(kind, status)
    BY <1>9 DEF ErrorRead
  <2> QED
    BY <2>1, FailRouted
<1>10. CASE BodyLost
  BY <1>7, <1>10 DEF BodyLost
<1>11. CASE Deadline
  <2>1. BodyFails \/ Fail(TransportKind(TRUE), 0)
    BY <1>11 DEF Deadline
  <2> QED
    BY <1>7, <2>1, FailRouted
<1>12. CASE GiveUp
  <2>1. phase' = "loop" /\ outcome' # "running"
    BY <1>12 DEF GiveUp, F!Exhausted, F!Finish
  <2> QED
    BY <2>1 DEF Routed
<1>13. CASE EndWithError \/ EndWithStream \/ EndWithReply
  <2>1. phase' = "idle" /\ outcome' = outcome /\ outcome # "running"
    BY <1>13 DEF EndWithError, EndWithStream, EndWithReply, executor
  <2> QED
    BY <2>1 DEF Routed
<1>14. CASE ClientLeaves
  BY <1>14 DEF ClientLeaves, executor, inputs, Routed
<1>15. ASSUME NEW msgs, Edit(msgs) PROVE Routed'
  BY <1>15 DEF Edit, executor, inputs, Routed
<1>16. CASE UNCHANGED vars
  BY <1>16 DEF vars, executor, inputs, Routed
<1> QED
  BY <1>1, <1>2, <1>3, <1>4, <1>5, <1>6, <1>8, <1>9, <1>10, <1>11, <1>12, <1>13, <1>14, <1>15,
     <1>16 DEF Next, Executor

\* The executor tries the candidates of the request that it sends, and never one past them.
THEOREM RoutesHold == Spec => []Routed
<1> QED
  BY RoutedInit, RoutedStep, Types, Ends, PTL DEF Spec

\* A model that a policy chose and the catalog knows is sent nothing that the catalog says
\* it cannot take, the history of the session included (router.Pick, run on the request
\* that was merged with the session's messages).
THEOREM PickedModelsServe == Spec => []PickedModelServes
<1>1. ASSUME Conversation, EndInv, Routed PROVE PickedModelServes
  <2> SUFFICES ASSUME phase = "head", asked.model = NoModel, Ref \in Catalogued
               PROVE  Allowed(InfoOf[Ref])
    BY DEF PickedModelServes
  <2>1. TypeInv /\ request \in Request /\ candidates \in Seq(Refs) /\ left \subseteq DOMAIN candidates
    BY <1>1 DEF Conversation, TypeInv, TypeOK
  <2>2. Adapter \in Adapters /\ Builds(Adapter, request.messages)
    BY <1>1, AdaptersAssumption DEF Conversation, AttemptFollows, Adapter
  <2>3. /\ F!Running /\ request.model = NoModel /\ candidates = PickCandidates(request)
    BY <1>1 DEF EndInv, Routed, F!Running
  <2>4. F!Current \in DOMAIN candidates
    BY <1>1, <2>1, <2>3, LoopHasCandidate
  <2> DEFINE p == F!Current
  <2>5. Ref = candidates[p]
    BY DEF Ref, F!Ref
  <2>6. /\ p \in DOMAIN PickCandidates(request)
        /\ PickCandidates(request)[p] \in Catalogued
        /\ Ref = PickCandidates(request)[p]
    BY <2>3, <2>4, <2>5
  <2> HIDE DEF p
  <2>7. Satisfies(InfoOf[Ref], Required(request))
    BY <2>3, <2>6, PickedSatisfies
  <2>8. InfoOf[Ref] \in ModelInfo
    BY CatalogAssumption
  <2> DEFINE info == InfoOf[Ref]
  <2>9. info \in ModelInfo /\ Satisfies(info, Required(request))
    BY <2>7, <2>8
  <2> HIDE DEF info
  <2>10. Allowed(info)
    BY <2>1, <2>2, <2>9, SatisfyingIsAllowed
  <2> QED
    BY <2>10 DEF info
<1> QED
  BY <1>1, ConversationHolds, Ends, RoutesHold, PTL
===============================================================================
