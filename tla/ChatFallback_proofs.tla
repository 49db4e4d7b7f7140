-------------------------- MODULE ChatFallback_proofs --------------------------
(***************************************************************************)
(* Proofs about the executor inside of a conversation: it is the one of    *)
(* Fallback, so what is proved there holds of every turn, and every turn   *)
(* has finitely many steps.                                                *)
(***************************************************************************)
EXTENDS ChatTurns_proofs

(* Every turn's loop of attempts is one of Fallback's. *)

\* The executor of a turn, with what is proved about it. A cap is any number here: the one
\* that is left out becomes 3.
Loop == INSTANCE Fallback_proofs WITH
          Kinds <- ErrorKinds, Policies <- Seq(Refs), AttemptCaps <- Int,
          ContextOf <- [ref \in Catalogued |-> InfoOf[ref].context]

\* What Fallback assumes of its constants holds of a conversation's.
LEMMA LoopAssumptions ==
  Loop!RefsAssumption /\ Loop!ListsAssumption /\ Loop!KindsAssumption
<1>1. [ref \in Catalogued |-> InfoOf[ref].context] \in [Catalogued -> Nat]
  BY CatalogAssumption DEF ModelInfo
<1>2. Registered \subseteq Refs /\ Catalogued \subseteq Refs
  BY CatalogAssumption, AdaptersAssumption
<1>3. /\ "ContextLength" \in ErrorKinds
      /\ ErrorKinds \cap {Loop!NotTyped, "unregistered", "reply"} = {}
  BY DEF ErrorKinds, Loop!NotTyped
<1> QED
  BY <1>1, <1>2, <1>3 DEF Loop!RefsAssumption, Loop!ListsAssumption, Loop!KindsAssumption

\* What is proved of Fallback.
LoopFacts == Loop!IInv /\ Loop!ReplyIsTheLastAttempt /\ Loop!AInv

\* It holds when a loop begins.
LEMMA LoopBegins == Loop!Init => LoopFacts
<1>1. Loop!Init => Loop!ReplyIsTheLastAttempt
  BY EmptySeq DEF Loop!Init, Loop!ReplyIsTheLastAttempt
<1> QED
  BY <1>1, LoopAssumptions, Loop!InvInit, Loop!AccountsInit DEF LoopFacts

\* Each iteration keeps it.
LEMMA LoopGoesOn == LoopFacts /\ [Loop!Next]_(Loop!vars) => LoopFacts'
BY LoopAssumptions, Loop!InvStep, Loop!ReplyStep, Loop!AccountsStep DEF LoopFacts

\* Fallback counts the same way in both instances.
LEMMA LoopCardinality == \A S : F!Cardinality(S) = Loop!Cardinality(S)
BY DEF F!Cardinality, Loop!Cardinality, F!IsFiniteSet, Loop!IsFiniteSet

\* The end of an attempt with an error is an iteration that fails.
LEMMA FailIsIteration ==
  ASSUME NEW kind \in ErrorKinds, NEW status, Fail(kind, status)
  PROVE  Loop!Next
<1>1. \/ F!FailAndHalt(kind, FALSE)
      \/ F!FailAndAdvance(kind, FALSE)
      \/ F!FailAndGoLarger(FALSE)
  BY DEF Fail
<1>2. F!FailAndHalt(kind, FALSE) => Loop!FailAndHalt(kind, FALSE)
  BY DEF F!FailAndHalt, F!Running, F!Halts, F!ShouldFallback, F!Log, F!Entry, F!Finish, F!config,
         F!Ref, F!Current, F!Next1,
         Loop!FailAndHalt, Loop!Running, Loop!Halts, Loop!ShouldFallback, Loop!Log, Loop!Entry,
         Loop!Finish, Loop!config, Loop!Ref, Loop!Current, Loop!Next1
<1>3. F!FailAndAdvance(kind, FALSE) => Loop!FailAndAdvance(kind, FALSE)
  BY DEF F!FailAndAdvance, F!Running, F!Halts, F!ShouldFallback, F!Log, F!Entry, F!Advance,
         F!config, F!Ref, F!Current, F!Next1,
         Loop!FailAndAdvance, Loop!Running, Loop!Halts, Loop!ShouldFallback, Loop!Log, Loop!Entry,
         Loop!Advance, Loop!config, Loop!Ref, Loop!Current, Loop!Next1
<1>4. F!FailAndGoLarger(FALSE) => Loop!FailAndGoLarger(FALSE)
  BY LoopCardinality
     DEF F!FailAndGoLarger, F!Running, F!Halts, F!ShouldFallback, F!Log, F!Entry, F!config,
         F!Ref, F!Current, F!Next1, F!Namesakes, F!FailedContexts, F!LargerContext,
         Loop!FailAndGoLarger, Loop!Running, Loop!Halts, Loop!ShouldFallback, Loop!Log, Loop!Entry,
         Loop!config, Loop!Ref, Loop!Current, Loop!Next1, Loop!Namesakes, Loop!FailedContexts,
         Loop!LargerContext
<1> QED
  BY <1>1, <1>2, <1>3, <1>4 DEF Loop!Next

\* An iteration is one of a running loop, and leaves its list and its settings alone.
LEMMA IterationsGoOn == Loop!Next => outcome = "running" /\ UNCHANGED Loop!config
BY DEF Loop!Next, Loop!SkipUnregistered, Loop!Reply, Loop!FailAndHalt, Loop!FailAndAdvance,
     Loop!FailAndGoLarger, Loop!Exhausted, Loop!Finish, Loop!Advance, Loop!Running, Loop!config

\* So are a candidate that is skipped, a reply, and the end of the list.
LEMMA OthersAreIterations ==
  /\ F!SkipUnregistered => Loop!Next
  /\ F!Reply => Loop!Next
  /\ F!Exhausted => Loop!Next
<1>1. F!SkipUnregistered => Loop!SkipUnregistered
  BY DEF F!SkipUnregistered, F!Running, F!Log, F!Entry, F!Advance, F!config, F!Ref, F!Current,
         F!Next1, Loop!SkipUnregistered, Loop!Running, Loop!Log, Loop!Entry, Loop!Advance,
         Loop!config, Loop!Ref, Loop!Current, Loop!Next1
<1>2. F!Reply => Loop!Reply
  BY DEF F!Reply, F!Running, F!Log, F!Entry, F!Finish, F!config, F!Ref, F!Current, F!Next1,
         Loop!Reply, Loop!Running, Loop!Log, Loop!Entry, Loop!Finish, Loop!config, Loop!Ref,
         Loop!Current, Loop!Next1
<1>3. F!Exhausted => Loop!Exhausted
  BY DEF F!Exhausted, F!Finish, F!config, Loop!Exhausted, Loop!Finish, Loop!config
<1> QED
  BY <1>1, <1>2, <1>3 DEF Loop!Next

\* What ends an attempt with an error is an error of a kind that Fallback knows.
LEMMA ErrorsAreIterations ==
  /\ NotSent \/ SendTooLate \/ Undecodable \/ HeadLost \/ BodyLost \/ Deadline => Loop!Next
  /\ \A overflow \in BOOLEAN : ErrorRead(overflow) => Loop!Next
<1>1. BodyFails => \E kind \in ErrorKinds : Fail(kind, head)
  BY KindsOfExchanges DEF BodyFails
<1>2. NotSent \/ SendTooLate \/ Undecodable \/ HeadLost \/ BodyLost \/ Deadline =>
        \E kind \in ErrorKinds : \E status : Fail(kind, status)
  BY <1>1, KindsOfExchanges DEF NotSent, SendTooLate, Undecodable, HeadLost, BodyLost, Deadline
<1>3. ASSUME NEW overflow \in BOOLEAN, ErrorRead(overflow)
      PROVE  \E kind \in ErrorKinds : Fail(kind, head)
  BY <1>3, KindsOfExchanges DEF ErrorRead
<1> QED
  BY <1>2, <1>3, FailIsIteration

\* A turn that finds candidates begins with a loop of Fallback's.
LEMMA StartIsLoop ==
  ASSUME TypeInv, TypeInv', NEW ask, NEW md \in Modes, Start(ask, md)
  PROVE  Loop!Init' /\ UNCHANGED <<maxAttempts, fallbackOn>>
<1>1. /\ candidates' # << >> /\ left' = DOMAIN candidates' /\ mode' = md
      /\ budget' = F!Budget(maxAttempts, md, Len(candidates'))
      /\ tried' = << >> /\ outcome' = "running" /\ UNCHANGED <<maxAttempts, fallbackOn>>
  BY DEF Start
<1>2. /\ candidates' \in Seq(Refs) /\ maxAttempts' \in Int /\ fallbackOn' \subseteq ErrorKinds
      /\ mode' \in {"send", "stream"}
  BY DEF TypeInv, TypeOK
<1>3. DOMAIN candidates' = 1..Len(candidates')
  BY <1>2, LenProperties
<1>4. budget' = Loop!Budget(maxAttempts', mode', Len(candidates'))
  BY <1>1 DEF F!Budget, Loop!Budget
<1> QED
  BY <1>1, <1>2, <1>3, <1>4 DEF Loop!Init

\* Every step of a conversation leaves the executor alone, is an iteration, or begins anew
\* under the same settings.
LEMMA StepsOfTheLoop ==
  ASSUME TypeInv, TypeInv', [Next]_vars
  PROVE  \/ Loop!Next
         \/ UNCHANGED Loop!vars
         \/ Loop!Init' /\ UNCHANGED <<maxAttempts, fallbackOn>>
<1> USE DEF Loop!vars, Loop!config
<1>1. ASSUME NEW ask \in ClientAsks, Refuse(ask) \/ NoCandidate(ask)
      PROVE  UNCHANGED Loop!vars
  BY <1>1 DEF Refuse, NoCandidate, executor
<1>2. ASSUME NEW ask \in ClientAsks, NEW md \in Modes, Start(ask, md)
      PROVE  Loop!Init' /\ UNCHANGED <<maxAttempts, fallbackOn>>
  BY <1>2, StartIsLoop
<1>3. Skip \/ GiveUp => Loop!Next
  BY OthersAreIterations DEF Skip, GiveUp
<1>4. Send => UNCHANGED Loop!vars
  BY DEF Send, executor
<1>5. ASSUME NEW status \in Statuses, HeadersArrive(status)
      PROVE  Loop!Next \/ UNCHANGED Loop!vars
  BY <1>5, OthersAreIterations DEF HeadersArrive, executor
<1>6. ASSUME NEW parts \in Parts, AnswerRead(parts)
      PROVE  Loop!Next
  BY <1>6, OthersAreIterations DEF AnswerRead
<1>7. EndWithError \/ EndWithStream \/ EndWithReply => UNCHANGED Loop!vars
  BY DEF EndWithError, EndWithStream, EndWithReply, executor
<1>8. ClientLeaves => UNCHANGED Loop!vars
  BY DEF ClientLeaves, executor
<1>9. ASSUME NEW msgs, Edit(msgs) PROVE UNCHANGED Loop!vars
  BY <1>9 DEF Edit, executor
<1>10. UNCHANGED vars => UNCHANGED Loop!vars
  BY DEF vars, executor
<1> QED
  BY <1>1, <1>2, <1>3, <1>4, <1>5, <1>6, <1>7, <1>8, <1>9, <1>10, ErrorsAreIterations
     DEF Next, Executor

-------------------------------------------------------------------------------
(* What is proved of Fallback holds of every turn. *)

\* Before the first turn there is no list of candidates.
LoopInv == candidates # << >> => LoopFacts

LEMMA LoopInvStep == TypeInv /\ TypeInv' /\ LoopInv /\ [Next]_vars => LoopInv'
<1> SUFFICES ASSUME TypeInv, TypeInv', LoopInv, [Next]_vars, candidates' # << >>
             PROVE  LoopFacts'
  BY DEF LoopInv
<1>1. CASE Loop!Init'
  BY <1>1, LoopBegins, PTL
<1>2. CASE Loop!Next \/ UNCHANGED Loop!vars
  <2>1. candidates' = candidates
    BY <1>2, IterationsGoOn DEF Loop!vars, Loop!config
  <2>2. LoopFacts
    BY <2>1 DEF LoopInv
  <2> QED
    BY <1>2, <2>2, LoopGoesOn
<1> QED
  BY <1>1, <1>2, StepsOfTheLoop

\* In a conversation, whatever its requests, answers and losses, the executor keeps every
\* promise that it makes on its own: the order of the candidates, the failures that allow
\* another attempt, the cap, the reply that is not dropped and the candidates not forgotten.
THEOREM TurnsKeepThePolicy == Spec => []LoopInv
<1>1. Init => LoopInv
  BY DEF Init, LoopInv
<1> QED
  BY <1>1, LoopInvStep, Types, PTL DEF Spec

\* The empty replies: what is stored of them, and that there is none before the first turn.
EmptyReplies ==
  /\ EmptyReplyOnlyForNegativeCap
  /\ candidates = << >> => outcome = "error"

LEMMA EmptyRepliesStep ==
  TypeInv /\ TypeInv' /\ LoopInv /\ EmptyReplies /\ [Next]_vars => EmptyReplies'
<1> SUFFICES ASSUME TypeInv, TypeInv', LoopInv, EmptyReplies, [Next]_vars
             PROVE  EmptyReplies'
  OBVIOUS
\* The settings are never changed, and nothing empties the list of candidates.
<1>1. maxAttempts' = maxAttempts
  BY StepsOfTheLoop, IterationsGoOn DEF Loop!vars, Loop!config
<1>2. candidates' = << >> => outcome' = "error"
  BY StepsOfTheLoop, IterationsGoOn DEF EmptyReplies, Loop!Init, Loop!vars, Loop!config
<1>3. authors' = authors \/ EndWithReply
  BY DEF Next, Executor, Refuse, NoCandidate, Start, Receive, Skip, NotSent, Send, SendTooLate,
     GiveUp, EndWithError, EndWithStream, HeadersArrive, AnswerRead, ErrorRead, Undecodable,
     HeadLost, BodyLost, BodyFails, Deadline, ClientLeaves, Edit, Fail, Rest, session, vars
<1>4. ASSUME EndWithReply, "nobody" \in authors' PROVE maxAttempts < 0
  <2>1. \/ "nobody" \in authors
        \/ "nobody" = IF outcome = "reply" THEN Adapter ELSE "nobody"
    BY <1>4 DEF EndWithReply
  <2>2. CASE outcome = "reply"
    <3>1. Adapter \in Adapters
      BY <2>2, AdaptersAssumption DEF TypeInv, ReplyIsOfRegistered, Adapter
    <3> QED
      BY <2>1, <2>2, <3>1 DEF Adapters, EmptyReplies, EmptyReplyOnlyForNegativeCap
  <2>3. CASE outcome # "reply"
    <3>1. outcome = "nilError"
      BY <1>4, <2>3 DEF EndWithReply
    <3>2. Loop!NilErrorOnlyForNegativeCap
      BY <3>1 DEF EmptyReplies, LoopInv, LoopFacts, Loop!IInv
    <3> QED
      BY <3>1, <3>2 DEF Loop!NilErrorOnlyForNegativeCap
  <2> QED
    BY <2>2, <2>3
<1> QED
  BY <1>1, <1>2, <1>3, <1>4 DEF EmptyReplies, EmptyReplyOnlyForNegativeCap

\* A turn that no provider answered stores no empty reply, unless a negative MaxAttempts
\* is configured: the error that ends it is never nil (runSendFallback, appendTurn).
THEOREM EmptyRepliesAreOwedToTheCap == Spec => []EmptyReplyOnlyForNegativeCap
<1>1. Init => EmptyReplies
  BY DEF Init, EmptyReplies, EmptyReplyOnlyForNegativeCap
<1>2. EmptyReplies => EmptyReplyOnlyForNegativeCap
  BY DEF EmptyReplies
<1> QED
  BY <1>1, <1>2, EmptyRepliesStep, TurnsKeepThePolicy, Types, PTL DEF Spec

-------------------------------------------------------------------------------
(* Turns end: the half of it that needs no fairness. *)

\* The bound of a running loop.
LEMMA StepsOfRunning ==
  ASSUME TypeInv, outcome = "running"
  PROVE  /\ Cardinality(left) \in Nat
         /\ phase = "loop" => StepsLeft = 3 * Cardinality(left) + 3
         /\ phase = "head" => StepsLeft = 3 * Cardinality(left) + 2
         /\ phase = "body" => StepsLeft = 3 * Cardinality(left) + 1
BY LoopHasCandidate DEF StepsLeft

\* The bound of a loop that is over.
LEMMA StepsOfOver ==
  ASSUME outcome # "running"
  PROVE  /\ phase = "idle" => StepsLeft = 0
         /\ phase # "idle" => StepsLeft = 1
BY DEF StepsLeft

\* An iteration is over: the loop is, or it has a candidate less.
LEMMA IterationMovesOn ==
  ASSUME TypeInv, TypeInv', Routed, F!Running, phase \in {"loop", "head", "body"},
         phase' = "loop",
         outcome' = "running" => left' \subseteq left \ {F!Current}
  PROVE  StepsLeft' < StepsLeft
<1> DEFINE n == Cardinality(left)
           m == Cardinality(left')
<1>1. F!Current \in left /\ IsFiniteSet(left) /\ n \in Nat
  BY LoopHasCandidate
<1>2. IsFiniteSet(left \ {F!Current}) /\ Cardinality(left \ {F!Current}) = n - 1
  BY <1>1, FS_RemoveElement
<1>3. n - 1 \in Nat
  BY <1>2, FS_CardinalityType
<1>4. StepsLeft \in Nat /\ StepsLeft >= 3 * n + 1
  BY <1>1, StepsOfRunning DEF F!Running
<1>5. CASE outcome' # "running"
  <2>1. StepsLeft' = 1
    BY <1>5 DEF StepsLeft
  <2> QED
    BY <1>1, <1>3, <1>4, <2>1
<1>6. CASE outcome' = "running"
  <2>1. m \in Nat /\ m <= n - 1
    BY <1>2, <1>6, FS_Subset, FS_CardinalityType
  <2>2. StepsLeft' = 3 * m + 3
    BY <1>6 DEF StepsLeft
  <2> QED
    BY <1>1, <1>4, <2>1, <2>2
<1> QED
  BY <1>5, <1>6

\* So does the end of an attempt with an error.
LEMMA FailMovesOn ==
  ASSUME TypeInv, TypeInv', Routed, phase \in {"loop", "head", "body"},
         NEW kind, NEW status, Fail(kind, status)
  PROVE  StepsLeft' < StepsLeft
<1>1. /\ phase' = "loop"
      /\ \/ F!FailAndHalt(kind, FALSE)
         \/ F!FailAndAdvance(kind, FALSE)
         \/ F!FailAndGoLarger(FALSE)
  BY DEF Fail
<1>2. F!Running
  BY <1>1 DEF F!FailAndHalt, F!FailAndAdvance, F!FailAndGoLarger
<1>3. outcome' = "running" => left' \subseteq left \ {F!Current}
  BY <1>1 DEF F!FailAndHalt, F!FailAndAdvance, F!FailAndGoLarger, F!Finish, F!Advance,
     F!LargerContext
<1> QED
  BY <1>1, <1>2, <1>3, IterationMovesOn

\* Every step of a turn leaves it fewer to take.
LEMMA StepMovesOn ==
  ASSUME TypeInv, TypeInv', EndInv, Routed, [Next]_vars, phase # "idle"
  PROVE  StepsLeft' < StepsLeft \/ UNCHANGED <<phase, executor>>
<1>1. phase \in {"loop", "head", "body"}
  BY DEF TypeInv, TypeOK
<1>2. ASSUME NEW ask \in ClientAsks, \/ Refuse(ask) \/ NoCandidate(ask)
                                     \/ \E md \in Modes : Start(ask, md)
      PROVE  FALSE
  BY <1>2 DEF Refuse, NoCandidate, Start, Receive
<1>3. CASE Skip
  <2>1. F!Running /\ F!Advance /\ phase' = "loop"
    BY <1>3 DEF Skip, F!SkipUnregistered
  <2>2. left' \subseteq left \ {F!Current}
    BY <2>1 DEF F!Advance
  <2> QED
    BY <1>1, <2>1, <2>2, IterationMovesOn
<1>4. CASE Send
  <2>1. phase = "loop" /\ phase' = "head" /\ outcome = "running" /\ UNCHANGED <<left, outcome>>
    BY <1>4 DEF Send, CanSend, Attempt, F!Running, executor
  <2>2. StepsLeft' = 3 * Cardinality(left) + 2
    BY <2>1 DEF StepsLeft
  <2> QED
    BY <2>1, <2>2, StepsOfRunning
<1>5. CASE GiveUp
  <2>1. phase = "loop" /\ outcome = "running" /\ outcome' # "running" /\ phase' = "loop"
    BY <1>5 DEF GiveUp, F!Exhausted, F!Finish
  <2>2. StepsLeft' = 1
    BY <2>1 DEF StepsLeft
  <2> QED
    BY <2>1, <2>2, StepsOfRunning
<1>6. CASE EndWithError \/ EndWithStream \/ EndWithReply
  <2>1. outcome # "running" /\ phase' = "idle"
    BY <1>6 DEF EndWithError, EndWithStream, EndWithReply
  <2>2. StepsLeft' = 0
    BY <2>1 DEF StepsLeft
  <2> QED
    BY <1>1, <2>1, <2>2, StepsOfOver
<1>7. ASSUME F!Reply, phase' = "loop", phase \in {"head", "body"}
      PROVE  StepsLeft' < StepsLeft
  <2>1. F!Running /\ outcome' # "running"
    BY <1>7 DEF F!Reply, F!Finish
  <2> QED
    BY <1>1, <1>7, <2>1, IterationMovesOn
<1>8. ASSUME NEW status \in Statuses, HeadersArrive(status)
      PROVE  StepsLeft' < StepsLeft
  <2>1. phase = "head" /\ outcome = "running"
    BY <1>8 DEF HeadersArrive, EndInv
  <2>2. CASE phase' = "body" /\ UNCHANGED executor
    <3>1. StepsLeft' = 3 * Cardinality(left) + 1
      BY <2>1, <2>2 DEF StepsLeft, executor
    <3> QED
      BY <2>1, <3>1, StepsOfRunning
  <2> QED
    BY <1>7, <1>8, <2>1, <2>2 DEF HeadersArrive
<1>9. ASSUME NEW parts \in Parts, AnswerRead(parts)
      PROVE  StepsLeft' < StepsLeft
  BY <1>7, <1>9 DEF AnswerRead
\* The exchanges that end with an error.
<1>10. BodyFails => StepsLeft' < StepsLeft
  BY <1>1, FailMovesOn DEF BodyFails
<1>11. CASE NotSent \/ SendTooLate \/ Undecodable \/ HeadLost \/ BodyLost \/ Deadline
  <2>1. (\E kind, status : Fail(kind, status)) \/ BodyFails
    BY <1>11 DEF NotSent, SendTooLate, Undecodable, HeadLost, BodyLost, Deadline
  <2> QED
    BY <1>1, <1>10, <2>1, FailMovesOn
<1>12. ASSUME NEW overflow \in BOOLEAN, ErrorRead(overflow)
       PROVE  StepsLeft' < StepsLeft
  <2>1. \E kind, status : Fail(kind, status)
    BY <1>12 DEF ErrorRead
  <2> QED
    BY <1>1, <2>1, FailMovesOn
<1>13. ClientLeaves => UNCHANGED <<phase, executor>>
  BY DEF ClientLeaves
<1>14. ASSUME NEW msgs, Edit(msgs) PROVE UNCHANGED <<phase, executor>>
  BY <1>14 DEF Edit
<1>15. UNCHANGED vars => UNCHANGED <<phase, executor>>
  BY DEF vars
<1> QED
  BY <1>2, <1>3, <1>4, <1>5, <1>6, <1>8, <1>9, <1>11, <1>12, <1>13, <1>14, <1>15
     DEF Next, Executor

\* A turn never goes round in circles, whatever the providers do and also where the loop
\* starts over with a list that was rewritten (harness.go, i = -1): of its own steps it takes
\* no more than a turn with that many candidates can, without any assumption of fairness.
THEOREM TurnsMoveOn == Spec => TurnMovesOn
<1>1. TypeInv /\ TypeInv' /\ EndInv /\ Routed /\ [Next]_vars =>
        [phase # "idle" => StepsLeft' < StepsLeft \/ UNCHANGED <<phase, executor>>]_vars
  BY StepMovesOn
<1> QED
  BY <1>1, Types, Ends, RoutesHold, PTL DEF Spec, TurnMovesOn
===============================================================================
