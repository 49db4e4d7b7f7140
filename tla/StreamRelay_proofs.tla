-------------------------- MODULE StreamRelay_proofs --------------------------
(***************************************************************************)
(* Proofs about StreamRelay, for every capacity of the channel and every   *)
(* length of the provider's stream.                                        *)
(***************************************************************************)
EXTENDS StreamRelay, TLAPS, SequenceTheorems

(* The inductive invariant. *)

\* The item that is to be the k-th frame: an event, or the failure behind them all.
At(k) == IF k <= produced THEN k ELSE Failure

\* The terminal error has left the reader.
FailureOut == \/ pump = "send" /\ held = Failure
              \/ pump = "exited" /\ err = "failed"

Hands    == IF pump = "send" THEN 1 ELSE 0
Failures == IF FailureOut THEN 1 ELSE 0

\* How the pump, the reader's outcome and the surroundings hang together.
Control ==
  /\ ctx = "canceled" => client = "gone" \/ handler = "returned"
  /\ body = "closed" <=> handler = "returned"
  /\ closed <=> pump = "exited"
  /\ pump = "read" => ~done
  /\ pump = "read" \/ done => queue = << >>
  /\ pump = "exited" \/ err # "none" => done
  /\ pump = "send" => (held = Failure <=> done) /\ (done => err = "failed")
  /\ done /\ err = "none" => wire = "ended"
  /\ err = "failed" => wire = "broken" \/ body = "closed"
  /\ err = "canceled" => ctx = "canceled"

\* While the handler listens, everything is in line behind what is written.
Line ==
  handler = "select" =>
    /\ Len(written) <= produced
    /\ Len(written) + Len(events) + Hands + Len(queue) = produced + Failures
    /\ \A i \in 1..Len(events) : events[i] = At(Len(written) + i)
    /\ pump = "send" => held = At(Len(written) + Len(events) + 1)
    /\ \A i \in 1..Len(queue) : queue[i] = Len(written) + Len(events) + Hands + i

\* What is written is a beginning of the line, and the failure is not written early.
Written ==
  /\ Len(written) <= produced + 1
  /\ \A i \in 1..Len(written) : written[i] = At(i)
  /\ Len(written) = produced + 1 => wire = "broken" /\ pump = "exited" /\ handler # "select"

\* A handler that had no reason to leave has written the whole line.
Stayed ==
  flushes /\ client = "connected" /\ handler # "select" =>
    /\ pump = "exited"
    /\ wire # "open"
    /\ Len(written) = produced + (IF err = "failed" THEN 1 ELSE 0)

IInv == TypeOK /\ Control /\ Line /\ Written /\ Stayed

-------------------------------------------------------------------------------
(* Types. *)

\* The events of one read are numbers of the model, as many as were read.
LEMMA EventsProperties ==
  ASSUME NEW k \in Nat, NEW n \in Nat, k + n <= MaxEvents
  PROVE  /\ Events(k, n) \in Seq(1..MaxEvents)
         /\ Len(Events(k, n)) = n
         /\ \A i \in 1..n : Events(k, n)[i] = k + i
<1>1. Events(k, n) \in [1..n -> 1..MaxEvents]
  BY BoundAssumption DEF Events
<1>2. Events(k, n) \in Seq(1..MaxEvents)
  BY <1>1, SeqDef
<1>3. Len(Events(k, n)) = n
  BY <1>1, <1>2, LenProperties
<1> QED
  BY <1>2, <1>3 DEF Events

\* Taking the first item off a sequence.
LEMMA HeadAndTail ==
  ASSUME NEW S, NEW s \in Seq(S), s # << >>
  PROVE  /\ Len(s) \in Nat \ {0}
         /\ Head(s) = s[1] /\ Head(s) \in S
         /\ Tail(s) \in Seq(S) /\ Len(Tail(s)) = Len(s) - 1
         /\ \A i \in 1..Len(Tail(s)) : Tail(s)[i] = s[i + 1]
<1>1. Len(s) \in Nat \ {0}
  BY EmptySeq
<1>2. Head(s) = s[1]
  BY <1>1
<1> QED
  BY <1>1, <1>2, HeadTailProperties

\* The items of a concatenation, by their places.
LEMMA ConcatAt ==
  ASSUME NEW S, NEW s \in Seq(S), NEW t \in Seq(S),
         NEW m, NEW n, Len(s) = m, Len(t) = n
  PROVE  /\ s \o t \in Seq(S)
         /\ Len(s \o t) = m + n
         /\ \A i \in 1..(m + n) : (s \o t)[i] = IF i <= m THEN s[i] ELSE t[i - m]
  BY ConcatProperties

\* At the beginning nothing has been read, sent or written.
LEMMA InvInit == Init => IInv
<1> SUFFICES ASSUME Init PROVE IInv
  OBVIOUS
<1>1. TypeOK
  <2>1. << >> \in Seq(Item) /\ << >> \in Seq(1..MaxEvents) /\ Len(<< >>) = 0
    BY EmptySeq
  <2>2. produced \in 0..MaxEvents /\ held \in Item
    BY BoundAssumption DEF Init, Failure, Item
  <2>3. events \in Seq(Item) /\ Len(events) <= ChanCap
    BY ChanAssumption, <2>1 DEF Init
  <2>4. queue \in Seq(1..MaxEvents) /\ written \in Seq(Item)
    BY <2>1 DEF Init
  <2> QED
    BY <2>2, <2>3, <2>4, Zenon DEF Init, TypeOK
<1>2. Control
  BY DEF Init, Control
<1>3. Line
  BY DEF Init, Line, Hands, Failures, FailureOut
<1>4. Written
  BY DEF Init, Written
<1> QED
  BY <1>1, <1>2, <1>3, <1>4 DEF IInv, Stayed, Init

\* Every step leaves all variables in their types; the channel never overflows.
LEMMA TypeStep == TypeOK /\ Control /\ [Next]_vars => TypeOK'
<1> SUFFICES ASSUME TypeOK, Control, [Next]_vars PROVE TypeOK'
  OBVIOUS
<1> USE DEF TypeOK, Item, Failure, outside, readerVars, pumpVars, channelVars, Leave, Stay, Mark
<1> USE ChanAssumption, BoundAssumption
<1>1. CASE NextQueued
  <2>1. queue \in Seq(1..MaxEvents) /\ queue # << >>
    BY <1>1 DEF NextQueued
  <2>2. Head(queue) \in 1..MaxEvents /\ Tail(queue) \in Seq(1..MaxEvents)
    BY <2>1, HeadTailProperties
  <2> QED
    BY <1>1, <2>2 DEF NextQueued
<1>2. CASE NextDone
  <2>0. Failure \in Item
    OBVIOUS
  <2>1. /\ held' \in Item
        /\ closed' \in BOOLEAN
        /\ pump' \in {"next", "read", "send", "exited"}
    <3> HIDE DEF Item, Failure
    <3> QED
      BY <1>2, <2>0, Zenon DEF NextDone
  <2>2. UNCHANGED <<outside, ctx, body, readerVars, events, handler, written>>
    BY <1>2 DEF NextDone
  <2> QED
    BY <2>1, <2>2
<1>3. CASE NextChecksContext
  BY <1>3 DEF NextChecksContext
<1>4. CASE ReadChunk
  <2>1. PICK n \in 0..MaxBatch : /\ produced + n <= MaxEvents
                                 /\ queue' = queue \o Events(produced, n)
                                 /\ produced' = produced + n
    BY <1>4 DEF ReadChunk
  <2>2. Events(produced, n) \in Seq(1..MaxEvents)
    BY <2>1, EventsProperties
  <2>3. queue' \in Seq(1..MaxEvents)
    BY <2>1, <2>2, ConcatProperties
  <2> QED
    BY <1>4, <2>1, <2>3 DEF ReadChunk
<1>5. CASE ReadEnd
  BY <1>5 DEF ReadEnd
<1>6. CASE ReadError
  BY <1>6 DEF ReadError
<1>7. CASE PumpSends
  <2>1. events' \in Seq(Item) /\ Len(events') <= ChanCap
    BY <1>7, AppendProperties DEF PumpSends
  <2> QED
    BY <1>7, <2>1 DEF PumpSends
<1>8. CASE SelectContext \/ SelectPing \/ SelectClosed \/ CloseReader
  BY <1>8 DEF SelectContext, SelectPing, SelectClosed, CloseReader
<1>9. CASE SelectEvent \/ SelectError
  <2>1. /\ events \in Seq(Item) /\ events # << >>
        /\ events' = Tail(events)
        /\ written' = Append(written, Head(events)) \/ written' = written
    BY <1>9 DEF SelectEvent, SelectError
  <2>2. /\ Head(events) \in Item
        /\ events' \in Seq(Item)
        /\ Len(events') <= ChanCap
    BY <2>1, HeadTailProperties
  <2>3. written' \in Seq(Item)
    <3>1. written \in Seq(Item)
      OBVIOUS
    <3>2. Append(written, Head(events)) \in Seq(Item)
      BY <3>1, <2>2, AppendProperties
    <3> QED
      BY <2>1, <3>1, <3>2
  <2>4. handler' \in {"select", "closing", "returned"}
    BY <1>9 DEF SelectEvent, SelectError
  <2>5. UNCHANGED <<outside, ctx, body, readerVars, pumpVars, closed>>
    BY <1>9 DEF SelectEvent, SelectError
  <2> QED
    BY <2>2, <2>3, <2>4, <2>5
<1>10. CASE CancelContext \/ ClientLeaves \/ WireStops
  BY <1>10 DEF CancelContext, ClientLeaves, WireStops
<1>11. CASE UNCHANGED vars
  BY <1>11 DEF vars
<1> QED
  BY <1>1, <1>2, <1>3, <1>4, <1>5, <1>6, <1>7, <1>8, <1>9, <1>10, <1>11
     DEF Next, PumpRuns, HandlerRuns

-------------------------------------------------------------------------------
(* The control. *)

\* Every step keeps the pump, the reader's outcome and the surroundings in agreement.
LEMMA ControlStep == TypeOK /\ Control /\ [Next]_vars => Control'
<1> SUFFICES ASSUME TypeOK, Control, [Next]_vars PROVE Control'
  OBVIOUS
<1> USE DEF Control, Failure, outside, readerVars, pumpVars, channelVars, Leave, Stay, Mark
<1>1. CASE NextQueued
  <2>1. Head(queue) # Failure
    BY <1>1, BoundAssumption, HeadTailProperties DEF NextQueued, TypeOK
  <2> QED
    BY <1>1, <2>1 DEF NextQueued
<1>2. CASE NextDone
  BY <1>2, Zenon DEF NextDone, TypeOK
<1>3. CASE NextChecksContext
  BY <1>3 DEF NextChecksContext, TypeOK
<1>4. CASE ReadChunk
  BY <1>4 DEF ReadChunk, TypeOK
<1>5. CASE ReadEnd
  BY <1>5 DEF ReadEnd, TypeOK
<1>6. CASE ReadError
  BY <1>6 DEF ReadError, TypeOK
<1>7. CASE PumpSends
  BY <1>7 DEF PumpSends, TypeOK
<1>8. CASE HandlerRuns \/ SelectPing
  BY <1>8 DEF HandlerRuns, SelectContext, SelectPing, SelectEvent, SelectError, SelectClosed,
              CloseReader, TypeOK
<1>9. CASE CancelContext \/ ClientLeaves \/ WireStops
  BY <1>9 DEF CancelContext, ClientLeaves, WireStops, TypeOK
<1>10. CASE UNCHANGED vars
  BY <1>10 DEF vars
<1> QED
  BY <1>1, <1>2, <1>3, <1>4, <1>5, <1>6, <1>7, <1>8, <1>9, <1>10 DEF Next, PumpRuns

-------------------------------------------------------------------------------
(* The line from the wire to the client. *)

\* An event handed out of the queue is in the pump's hands: the line is unchanged.
LEMMA LineQueued == TypeOK /\ Control /\ Line /\ NextQueued => Line'
<1> SUFFICES ASSUME TypeOK, Control, Line, NextQueued, handler = "select" PROVE Line'
  BY DEF Line, NextQueued
<1>1. queue \in Seq(1..MaxEvents) /\ queue # << >> /\ held' = Head(queue) /\ queue' = Tail(queue)
  BY DEF NextQueued, TypeOK
<1>2. /\ held' \in 1..MaxEvents /\ held' = queue[1]
      /\ Len(queue) \in Nat \ {0}
      /\ Len(queue') = Len(queue) - 1
      /\ \A i \in 1..Len(queue') : queue'[i] = queue[i + 1]
  BY <1>1, HeadAndTail
<1>3. /\ pump = "next" /\ pump' = "send"
      /\ Hands = 0 /\ Hands' = 1 /\ Failures = 0 /\ Failures' = 0
  BY <1>2, BoundAssumption DEF NextQueued, Hands, Failures, FailureOut, Failure
<1>4. Len(written) \in Nat /\ Len(events) \in Nat /\ produced \in Nat
  BY BoundAssumption DEF TypeOK
<1>5. UNCHANGED <<written, events, produced, handler>>
  BY DEF NextQueued, channelVars
<1>6. /\ Len(written) + Len(events) + Len(queue) = produced
      /\ queue[1] = Len(written) + Len(events) + 1
      /\ \A i \in 1..Len(queue) : queue[i] = Len(written) + Len(events) + i
  BY <1>2, <1>3, <1>4 DEF Line
<1>7. (Len(written) <= produced)'
  BY <1>5 DEF Line
<1>8. (Len(written) + Len(events) + Hands + Len(queue) = produced + Failures)'
  <2>1. Len(written') = Len(written) /\ Len(events') = Len(events) /\ produced' = produced
    BY <1>5
  <2>2. Len(queue) \in Nat /\ Len(queue') = Len(queue) - 1
    BY <1>2
  <2>3. Len(written) + Len(events) + Len(queue) = produced
    BY <1>6
  <2>4. Len(written) + Len(events) + 1 + (Len(queue) - 1) = produced + 0
    BY <2>2, <2>3, <1>4
  <2> QED
    BY <2>1, <2>2, <2>4, <1>3
<1>9. (\A i \in 1..Len(events) : events[i] = At(Len(written) + i))'
  BY <1>5 DEF Line, At
<1>10. (held = At(Len(written) + Len(events) + 1))'
  BY <1>2, <1>4, <1>5, <1>6 DEF At
<1>11. (\A i \in 1..Len(queue) : queue[i] = Len(written) + Len(events) + Hands + i)'
  <2>1. Len(written') = Len(written) /\ Len(events') = Len(events)
    BY <1>5
  <2>2. ASSUME NEW i \in 1..Len(queue')
        PROVE  queue'[i] = Len(written) + Len(events) + 1 + i
    <3>1. i + 1 \in 1..Len(queue)
      BY <1>2
    <3> QED
      BY <1>2, <1>4, <1>6, <3>1
  <2> QED
    BY <2>1, <2>2, <1>3
<1> QED
  BY <1>7, <1>8, <1>9, <1>10, <1>11 DEF Line

\* The end of the reader puts a failure, or nothing, behind all events.
LEMMA LineDone == TypeOK /\ Control /\ Line /\ NextDone => Line'
<1> SUFFICES ASSUME TypeOK, Control, Line, NextDone, handler = "select" PROVE Line'
  BY DEF Line, NextDone
<1>1. /\ Len(written) \in Nat /\ Len(events) \in Nat /\ produced \in Nat
      /\ queue = << >> /\ Len(queue) = 0
  BY BoundAssumption DEF TypeOK, NextDone
<1>2. Hands = 0 /\ Failures = 0
  BY DEF Hands, Failures, FailureOut, NextDone
<1>3. UNCHANGED <<written, events, produced, queue, handler>>
  BY DEF NextDone, readerVars
<1>4. /\ Len(written) <= produced
      /\ Len(written) + Len(events) = produced
  BY <1>1, <1>2 DEF Line
<1>5. \/ pump' = "send" /\ held' = Failure /\ Hands' = 1 /\ Failures' = 1
      \/ pump' = "exited" /\ Hands' = 0 /\ Failures' = 0
  BY DEF NextDone, Hands, Failures, FailureOut, readerVars
<1>6. (Len(written) + Len(events) + Hands + Len(queue) = produced + Failures)'
  <2>1. Len(written') = Len(written) /\ Len(events') = Len(events) /\ Len(queue') = 0 /\ produced' = produced
    BY <1>1, <1>3
  <2> QED
    BY <2>1, <1>1, <1>4, <1>5
<1>7. (\A i \in 1..Len(events) : events[i] = At(Len(written) + i))'
  BY <1>3 DEF Line, At
<1>8. (pump = "send" => held = At(Len(written) + Len(events) + 1))'
  BY <1>1, <1>3, <1>4, <1>5 DEF At
<1>9. (\A i \in 1..Len(queue) : queue[i] = Len(written) + Len(events) + Hands + i)'
  BY <1>1, <1>3
<1>10. (Len(written) <= produced)'
  BY <1>3, <1>4
<1> QED
  BY <1>6, <1>7, <1>8, <1>9, <1>10 DEF Line

\* The events of one read take the next places of the line.
LEMMA LineRead == TypeOK /\ Control /\ Line /\ ReadChunk => Line'
<1> SUFFICES ASSUME TypeOK, Control, Line, ReadChunk, handler = "select" PROVE Line'
  BY DEF Line, ReadChunk
<1>1. /\ Len(written) \in Nat /\ Len(events) \in Nat /\ produced \in Nat
      /\ queue = << >> /\ Len(queue) = 0 /\ queue \in Seq(1..MaxEvents)
  BY BoundAssumption DEF TypeOK, Control, ReadChunk
<1>2. /\ pump = "read" /\ pump' = "next"
      /\ Hands = 0 /\ Failures = 0 /\ Hands' = 0 /\ Failures' = 0
  BY DEF Hands, Failures, FailureOut, ReadChunk
<1>3. UNCHANGED <<written, events, handler>>
  BY DEF ReadChunk, channelVars
<1>4. /\ Len(written) <= produced
      /\ Len(written) + Len(events) = produced
  BY <1>1, <1>2 DEF Line
<1>5. PICK n \in 0..MaxBatch : /\ produced + n <= MaxEvents
                               /\ queue' = queue \o Events(produced, n)
                               /\ produced' = produced + n
  BY DEF ReadChunk
<1>6. n \in Nat
  BY <1>5, BoundAssumption
<1>7. /\ Events(produced, n) \in Seq(1..MaxEvents)
      /\ Len(Events(produced, n)) = n
      /\ \A i \in 1..n : Events(produced, n)[i] = produced + i
  BY <1>1, <1>5, <1>6, EventsProperties
<1>8. queue' = Events(produced, n)
  BY <1>1, <1>5, <1>7, ConcatEmptySeq
<1>9. (Len(written) + Len(events) + Hands + Len(queue) = produced + Failures)'
  <2>1. /\ Len(written') = Len(written) /\ Len(events') = Len(events)
        /\ Len(queue') = n /\ produced' = produced + n
    BY <1>3, <1>5, <1>7, <1>8
  <2>2. Len(written) + Len(events) + 0 + n = produced + n + 0
    BY <1>1, <1>4, <1>6
  <2> QED
    BY <2>1, <2>2, <1>2
<1>10. (\A i \in 1..Len(events) : events[i] = At(Len(written) + i))'
  <2>1. ASSUME NEW i \in 1..Len(events)
        PROVE  events[i] = IF Len(written) + i <= produced + n THEN Len(written) + i ELSE Failure
    <3>1. Len(written) + i <= produced /\ Len(written) + i <= produced + n
      BY <1>1, <1>4, <1>6
    <3> QED
      BY <3>1 DEF Line, At
  <2> QED
    BY <2>1, <1>3, <1>5 DEF At
<1>11. (\A i \in 1..Len(queue) : queue[i] = Len(written) + Len(events) + Hands + i)'
  <2>1. ASSUME NEW i \in 1..n
        PROVE  queue'[i] = Len(written) + Len(events) + 0 + i
    BY <1>1, <1>4, <1>7, <1>8
  <2> QED
    BY <2>1, <1>2, <1>3, <1>7, <1>8
<1>12. (Len(written) <= produced)'
  BY <1>1, <1>3, <1>4, <1>5, <1>6
<1> QED
  BY <1>2, <1>9, <1>10, <1>11, <1>12 DEF Line

\* What the pump holds becomes the last item of the channel.
LEMMA LineSent == TypeOK /\ Control /\ Line /\ PumpSends => Line'
<1> SUFFICES ASSUME TypeOK, Control, Line, PumpSends, handler = "select" PROVE Line'
  BY DEF Line, PumpSends
<1>1. /\ Len(written) \in Nat /\ Len(events) \in Nat /\ produced \in Nat /\ Len(queue) \in Nat
      /\ events \in Seq(Item) /\ held \in Item
  BY BoundAssumption DEF TypeOK
<1>2. /\ Len(events') = Len(events) + 1
      /\ \A i \in 1..Len(events) : events'[i] = events[i]
      /\ events'[Len(events) + 1] = held
  BY <1>1, AppendProperties DEF PumpSends
<1>3. UNCHANGED <<written, queue, produced, handler>>
  BY DEF PumpSends, readerVars
<1>4. pump = "send" /\ pump' # "send" /\ Hands = 1 /\ Hands' = 0
  BY DEF PumpSends, Hands
<1>5. Failures \in {0, 1} /\ Failures' = Failures
  <2>1. FailureOut' <=> FailureOut
    BY DEF PumpSends, FailureOut, Control, readerVars
  <2> QED
    BY <2>1 DEF Failures
<1>6. /\ Len(written) + Len(events) + 1 + Len(queue) = produced + Failures
      /\ held = At(Len(written) + Len(events) + 1)
      /\ Len(written) <= produced
  BY <1>4 DEF Line
<1>7. (Len(written) + Len(events) + Hands + Len(queue) = produced + Failures)'
  <2>1. Len(written') = Len(written) /\ Len(queue') = Len(queue) /\ produced' = produced
    BY <1>3
  <2>2. Len(written) + (Len(events) + 1) + 0 + Len(queue) = produced + Failures
    BY <1>1, <1>5, <1>6
  <2> QED
    BY <2>1, <2>2, <1>2, <1>4, <1>5
<1>8. (\A i \in 1..Len(events) : events[i] = At(Len(written) + i))'
  <2>1. ASSUME NEW i \in 1..(Len(events) + 1)
        PROVE  events'[i] = At(Len(written) + i)
    <3>1. CASE i \in 1..Len(events)
      BY <1>2, <3>1 DEF Line
    <3>2. CASE i = Len(events) + 1
      <4>1. Len(written) + i = Len(written) + Len(events) + 1
        BY <1>1, <3>2
      <4> QED
        BY <1>2, <1>6, <3>2, <4>1
    <3> QED
      BY <1>1, <3>1, <3>2
  <2> QED
    BY <2>1, <1>2, <1>3 DEF At
<1>9. (\A i \in 1..Len(queue) : queue[i] = Len(written) + Len(events) + Hands + i)'
  <2>1. ASSUME NEW i \in 1..Len(queue)
        PROVE  queue[i] = Len(written) + (Len(events) + 1) + 0 + i
    BY <1>1, <1>4 DEF Line
  <2> QED
    BY <2>1, <1>2, <1>3, <1>4
<1> QED
  BY <1>3, <1>4, <1>6, <1>7, <1>8, <1>9 DEF Line

\* What the handler receives is the next of the line; a failure is the last, and is
\* the provider's.
LEMMA HeadOfLine ==
  ASSUME TypeOK, Control, Line, handler = "select", events # << >>
  PROVE  /\ Head(events) = At(Len(written) + 1)
         /\ Head(events) # Failure => Len(written) + 1 <= produced
         /\ Head(events) = Failure => /\ Len(written) = produced
                                      /\ wire = "broken"
                                      /\ pump = "exited" /\ err = "failed"
<1>1. /\ events \in Seq(Item) /\ Len(events) \in Nat \ {0} /\ Head(events) = events[1]
  BY HeadAndTail DEF TypeOK
<1>2. Len(written) \in Nat /\ produced \in Nat /\ Len(queue) \in Nat
  BY BoundAssumption DEF TypeOK
<1>3. Head(events) = At(Len(written) + 1)
  BY <1>1 DEF Line
<1>4. Head(events) # Failure => Len(written) + 1 <= produced
  BY <1>3 DEF At
<1>5. ASSUME Head(events) = Failure
      PROVE  /\ Len(written) = produced
             /\ wire = "broken"
             /\ pump = "exited" /\ err = "failed"
  <2>1. Len(written) = produced
    BY <1>2, <1>3, <1>5 DEF At, Failure, Line
  <2>2. Hands \in {0, 1} /\ Failures \in {0, 1}
    BY DEF Hands, Failures
  <2>3. Len(events) + Hands + Len(queue) = Failures
    BY <1>1, <1>2, <2>1, <2>2 DEF Line
  <2>4. Failures = 1 /\ Hands = 0
    BY <1>1, <1>2, <2>2, <2>3
  <2>5. pump = "exited" /\ err = "failed"
    BY <2>4 DEF Failures, Hands, FailureOut
  <2> QED
    BY <2>1, <2>5 DEF Control
<1> QED
  BY <1>3, <1>4, <1>5

\* A frame that is written is the next of the line, which goes on behind it.
LEMMA LineReceived == TypeOK /\ Control /\ Line /\ SelectEvent => Line'
<1> SUFFICES ASSUME TypeOK, Control, Line, SelectEvent, handler' = "select" PROVE Line'
  BY DEF Line
<1>1. /\ handler = "select" /\ events # << >> /\ Head(events) # Failure
      /\ events' = Tail(events)
      /\ written' = Append(written, Head(events))
  BY DEF SelectEvent, Leave
<1>2. UNCHANGED <<produced, queue, err, pump, held>>
  BY DEF SelectEvent, readerVars, pumpVars
<1>3. /\ Head(events) \in Item
      /\ Len(events) \in Nat \ {0} /\ Len(events') = Len(events) - 1
      /\ \A i \in 1..Len(events') : events'[i] = events[i + 1]
  BY <1>1, HeadAndTail DEF TypeOK
<1>4. /\ Len(written') = Len(written) + 1
      /\ Len(written) \in Nat /\ produced \in Nat /\ Len(queue) \in Nat
  BY <1>1, <1>3, AppendProperties, BoundAssumption DEF TypeOK
<1>5. Len(written) + 1 <= produced
  BY <1>1, HeadOfLine
<1>6. /\ Hands \in {0, 1} /\ Failures \in {0, 1}
      /\ Hands' = Hands /\ Failures' = Failures
  BY <1>2 DEF Hands, Failures, FailureOut
<1>7. Len(written) + Len(events) + Hands + Len(queue) = produced + Failures
  BY <1>1 DEF Line
<1>8. (Len(written) + Len(events) + Hands + Len(queue) = produced + Failures)'
  <2>1. Len(queue') = Len(queue) /\ produced' = produced
    BY <1>2
  <2>2. (Len(written) + 1) + (Len(events) - 1) + Hands + Len(queue) = produced + Failures
    BY <1>3, <1>4, <1>6, <1>7
  <2> QED
    BY <2>1, <2>2, <1>3, <1>4, <1>6
<1>9. (\A i \in 1..Len(events) : events[i] = At(Len(written) + i))'
  <2>1. ASSUME NEW i \in 1..Len(events')
        PROVE  events'[i] = At(Len(written') + i)
    <3>1. i + 1 \in 1..Len(events) /\ Len(written') + i = Len(written) + (i + 1)
      BY <1>3, <1>4
    <3>2. events'[i] = At(Len(written) + (i + 1))
      BY <1>1, <1>3, <3>1 DEF Line
    <3> QED
      BY <3>1, <3>2
  <2> QED
    BY <2>1, <1>2 DEF At
<1>10. Len(written') + Len(events') = Len(written) + Len(events)
  BY <1>3, <1>4
<1>11. (pump = "send" => held = At(Len(written) + Len(events) + 1))'
  BY <1>1, <1>2, <1>10 DEF Line, At
<1>12. (\A i \in 1..Len(queue) : queue[i] = Len(written) + Len(events) + Hands + i)'
  BY <1>1, <1>2, <1>6, <1>10 DEF Line
<1>13. (Len(written) <= produced)'
  BY <1>2, <1>4, <1>5
<1> QED
  BY <1>8, <1>9, <1>11, <1>12, <1>13 DEF Line

\* Every step keeps the line, or the handler leaves.
LEMMA LineStep == TypeOK /\ Control /\ Line /\ [Next]_vars => Line'
<1> SUFFICES ASSUME TypeOK, Control, Line, [Next]_vars PROVE Line'
  OBVIOUS
<1>1. CASE NextChecksContext \/ ReadEnd \/ ReadError
  <2>1. /\ UNCHANGED <<written, events, queue, produced, handler>>
        /\ pump \in {"next", "read"} /\ pump' \in {"next", "read"}
    BY <1>1 DEF NextChecksContext, ReadEnd, ReadError, channelVars
  <2>2. Hands' = Hands /\ Failures' = Failures
    BY <2>1 DEF Hands, Failures, FailureOut
  <2> QED
    BY <2>1, <2>2 DEF Line, At
<1>2. CASE CancelContext \/ ClientLeaves \/ WireStops \/ UNCHANGED vars
  <2>1. UNCHANGED <<written, events, queue, produced, handler, pump, held, err>>
    BY <1>2 DEF CancelContext, ClientLeaves, WireStops, vars, readerVars, pumpVars, channelVars
  <2> QED
    BY <2>1 DEF Line, At, Hands, Failures, FailureOut
<1>3. CASE SelectContext \/ SelectPing \/ SelectError \/ SelectClosed \/ CloseReader
  BY <1>3 DEF SelectContext, SelectPing, SelectError, SelectClosed, CloseReader, Leave, Line
<1> QED
  BY <1>1, <1>2, <1>3, LineQueued, LineDone, LineRead, LineSent, LineReceived
     DEF Next, PumpRuns, HandlerRuns

-------------------------------------------------------------------------------
(* What the client has. *)

\* Every frame written is the next of the line.
LEMMA WrittenStep == IInv /\ [Next]_vars => Written'
<1> SUFFICES ASSUME TypeOK, Control, Line, Written, [Next]_vars PROVE Written'
  BY DEF IInv
<1>1. /\ written \in Seq(Item) /\ Len(written) \in Nat /\ produced \in Nat
  BY BoundAssumption DEF TypeOK
<1>2. ASSUME UNCHANGED <<written, produced>>,
             wire' = wire \/ wire = "open",
             pump' = pump \/ pump # "exited",
             handler' = handler \/ handler' # "select"
      PROVE  Written'
  BY <1>2 DEF Written, At
<1>3. CASE ReadChunk
  <2>1. UNCHANGED written /\ produced' \in Nat /\ produced <= produced' /\ pump = "read"
    BY <1>1, <1>3, BoundAssumption DEF ReadChunk
  <2>2. Len(written) <= produced
    BY <1>1, <2>1 DEF Written
  <2>3. \A i \in 1..Len(written) : written[i] = i
    BY <1>1, <2>2 DEF Written, At
  <2>4. Len(written) <= produced' /\ Len(written) # produced' + 1
    <3>1. \A l, p, q \in Nat : l <= p /\ p <= q => l <= q /\ l # q + 1
      OBVIOUS
    <3> QED
      BY <3>1, <1>1, <2>1, <2>2
  <2>5. Len(written) <= produced' + 1 /\ (\A i \in 1..Len(written) : i <= produced')
    BY <1>1, <2>1, <2>4
  <2>6. (\A i \in 1..Len(written) : written[i] = At(i))'
    BY <2>1, <2>3, <2>5 DEF At
  <2>7. (Len(written) <= produced + 1)' /\ Len(written') # produced' + 1
    BY <2>1, <2>4, <2>5
  <2> QED
    BY <2>6, <2>7 DEF Written
<1>4. ASSUME handler = "select", events # << >>,
             written' = Append(written, Head(events)), UNCHANGED <<produced, wire, pump>>,
             Head(events) = Failure => handler' # "select"
      PROVE  Written'
  <2>1. Head(events) \in Item
    BY <1>4, HeadAndTail DEF TypeOK
  <2>2. /\ Len(written') = Len(written) + 1
        /\ \A i \in 1..Len(written) : written'[i] = written[i]
        /\ written'[Len(written) + 1] = Head(events)
    BY <1>1, <1>4, <2>1, AppendProperties
  <2>3. /\ Head(events) = At(Len(written) + 1)
        /\ Head(events) # Failure => Len(written) + 1 <= produced
        /\ Head(events) = Failure => Len(written) = produced /\ wire = "broken" /\ pump = "exited"
    BY <1>4, HeadOfLine
  <2>4. Len(written) + 1 <= produced + 1
    BY <1>1, <1>4 DEF Line
  <2>5. ASSUME NEW i \in 1..(Len(written) + 1)
        PROVE  written'[i] = At(i)
    <3>1. CASE i \in 1..Len(written)
      BY <2>2, <3>1 DEF Written
    <3>2. CASE i = Len(written) + 1
      BY <2>2, <2>3, <3>2
    <3> QED
      BY <1>1, <3>1, <3>2
  <2>6. Len(written) + 1 = produced + 1 => Head(events) = Failure
    BY <1>1, <2>3
  <2> QED
    BY <1>4, <2>2, <2>3, <2>4, <2>5, <2>6 DEF Written, At
<1>5. CASE NextQueued \/ NextDone \/ NextChecksContext \/ ReadEnd \/ ReadError \/ PumpSends
  BY <1>2, <1>5 DEF NextQueued, NextDone, NextChecksContext, ReadEnd, ReadError, PumpSends,
                    outside, readerVars, channelVars
<1>6. CASE SelectContext \/ SelectPing \/ SelectClosed \/ CloseReader
  BY <1>2, <1>6 DEF SelectContext, SelectPing, SelectClosed, CloseReader,
                    outside, readerVars, pumpVars, Leave
<1>7. CASE SelectEvent \/ SelectError
  <2>1. /\ handler = "select" /\ events # << >>
        /\ UNCHANGED <<produced, wire, pump>>
        /\ Head(events) = Failure => handler' # "select"
        /\ \/ written' = Append(written, Head(events))
           \/ written' = written /\ handler' # "select"
    BY <1>7 DEF SelectEvent, SelectError, outside, readerVars, pumpVars, Leave
  <2> QED
    BY <1>2, <1>4, <2>1
<1>8. CASE CancelContext \/ ClientLeaves \/ WireStops \/ UNCHANGED vars
  BY <1>2, <1>8 DEF CancelContext, ClientLeaves, WireStops, vars, outside, readerVars, pumpVars
<1> QED
  BY <1>3, <1>5, <1>6, <1>7, <1>8 DEF Next, PumpRuns, HandlerRuns

\* A handler whose client stays, and whose writer can flush, leaves its loop only when
\* the whole line is written.
LEMMA StayedStep == IInv /\ [Next]_vars => Stayed'
<1> SUFFICES ASSUME TypeOK, Control, Line, Stayed, [Next]_vars,
                    flushes', client' = "connected", handler' # "select"
             PROVE  /\ pump' = "exited" /\ wire' # "open"
                    /\ Len(written') = produced' + (IF err' = "failed" THEN 1 ELSE 0)
  BY DEF IInv, Stayed
<1>1. flushes /\ client = "connected"
  BY DEF Next, PumpRuns, HandlerRuns, NextQueued, NextDone, NextChecksContext, ReadChunk, ReadEnd,
         ReadError, PumpSends, SelectContext, SelectPing, SelectEvent, SelectError, SelectClosed,
         CloseReader, CancelContext, ClientLeaves, WireStops, outside, vars, TypeOK
<1>2. CASE handler # "select"
  <2>1. /\ pump = "exited" /\ wire # "open"
        /\ Len(written) = produced + (IF err = "failed" THEN 1 ELSE 0)
    BY <1>1, <1>2 DEF Stayed
  <2>2. UNCHANGED <<pump, wire, written, produced, err>>
    BY <1>1, <1>2, <2>1
       DEF Next, PumpRuns, HandlerRuns, NextQueued, NextDone, NextChecksContext, ReadChunk,
           ReadEnd, ReadError, PumpSends, SelectContext, SelectPing, SelectEvent, SelectError,
           SelectClosed, CloseReader, CancelContext, ClientLeaves, WireStops, outside,
           readerVars, pumpVars, vars
  <2> QED
    BY <2>1, <2>2
<1>3. CASE handler = "select"
  <2>1. ctx # "canceled" /\ body # "closed"
    BY <1>1, <1>3 DEF Control
  <2>2. SelectError \/ SelectClosed
    BY <1>1, <1>3, <2>1
       DEF Next, PumpRuns, HandlerRuns, NextQueued, NextDone, NextChecksContext, ReadChunk,
           ReadEnd, ReadError, PumpSends, SelectContext, SelectPing, SelectEvent, Stay,
           CloseReader, CancelContext, ClientLeaves, WireStops, vars
  <2>3. Len(written) \in Nat /\ produced \in Nat /\ written \in Seq(Item)
    BY BoundAssumption DEF TypeOK
  <2>4. CASE SelectError
    <3>1. /\ events # << >> /\ Head(events) = Failure
          /\ written' = Append(written, Failure)
          /\ UNCHANGED <<pump, wire, produced, err>>
      BY <1>1, <2>4 DEF SelectError, outside, readerVars, pumpVars
    <3>2. Failure \in Item
      BY <3>1, HeadAndTail DEF TypeOK
    <3>3. Len(written') = Len(written) + 1
      BY <2>3, <3>1, <3>2, AppendProperties
    <3> QED
      BY <1>3, <2>3, <3>1, <3>3, HeadOfLine
  <2>5. CASE SelectClosed
    <3>1. /\ pump = "exited" /\ events = << >> /\ Len(events) = 0
          /\ UNCHANGED <<pump, wire, written, produced, err>>
      BY <2>5 DEF SelectClosed, Control, outside, readerVars, pumpVars
    <3>2. queue = << >> /\ Len(queue) = 0 /\ Hands = 0
      BY <3>1 DEF Control, Hands
    <3>3. Failures = IF err = "failed" THEN 1 ELSE 0
      BY <3>1 DEF Failures, FailureOut
    <3>4. Failures \in {0, 1}
      BY DEF Failures
    <3>5. Len(written) = produced + Failures
      BY <1>3, <2>3, <3>1, <3>2, <3>4 DEF Line
    <3>6. wire # "open"
      BY <2>1, <3>1 DEF Control, TypeOK
    <3> QED
      BY <3>1, <3>3, <3>5, <3>6
  <2> QED
    BY <2>2, <2>4, <2>5
<1> QED
  BY <1>2, <1>3

-------------------------------------------------------------------------------
(* The theorems. *)

\* The strengthened invariant holds in every behaviour.
THEOREM Invariance == Spec => []IInv
<1>1. IInv /\ [Next]_vars => IInv'
  BY TypeStep, ControlStep, LineStep, WrittenStep, StayedStep DEF IInv
<1> QED
  BY <1>1, InvInit, PTL DEF Spec

\* Every variable has its type, and the channel never holds more than its capacity.
THEOREM TypeCorrect == Spec => []TypeOK
<1>1. IInv => TypeOK
  BY DEF IInv
<1> QED
  BY <1>1, Invariance, PTL

\* A sequence whose items are their own places is a run of the events.
LEMMA EventsAre ==
  ASSUME NEW s \in Seq(Item), \A i \in 1..Len(s) : s[i] = i
  PROVE  s = Events(0, Len(s))
<1>1. Len(s) \in Nat /\ s = [i \in 1..Len(s) |-> s[i]]
  BY LenProperties
<1>2. \A i \in 1..Len(s) : s[i] = 0 + i
  BY <1>1
<1> QED
  BY <1>1, <1>2 DEF Events

\* The same with the failure as the last item.
LEMMA EventsAndFailure ==
  ASSUME NEW s \in Seq(Item), Len(s) = produced + 1, produced \in 0..MaxEvents,
         \A i \in 1..Len(s) : s[i] = At(i)
  PROVE  s = Append(Events(0, produced), Failure)
<1>1. produced \in Nat /\ 0 + produced <= MaxEvents /\ Failure \in Item
  BY BoundAssumption DEF Failure, Item
<1>2. /\ Events(0, produced) \in Seq(1..MaxEvents)
      /\ Len(Events(0, produced)) = produced
      /\ \A i \in 1..produced : Events(0, produced)[i] = 0 + i
  BY <1>1, EventsProperties
<1>3. Events(0, produced) \in Seq(Item)
  <2>1. 1..MaxEvents \subseteq Item
    BY BoundAssumption DEF Item
  <2> QED
    BY <1>2, <2>1, SeqMonotonic
<1> DEFINE t == Append(Events(0, produced), Failure)
<1>4. /\ t \in Seq(Item) /\ Len(t) = produced + 1
      /\ \A i \in 1..produced : t[i] = Events(0, produced)[i]
      /\ t[produced + 1] = Failure
  BY <1>1, <1>2, <1>3, AppendProperties
<1> HIDE DEF t
<1>5. ASSUME NEW i \in 1..Len(s)
      PROVE  s[i] = t[i]
  <2>1. CASE i \in 1..produced
    BY <1>1, <1>2, <1>4, <2>1 DEF At
  <2>2. CASE i = produced + 1
    BY <1>1, <1>4, <2>2 DEF At
  <2> QED
    BY <1>1, <2>1, <2>2
<1>6. s = t
  BY <1>4, <1>5, SeqEqual
<1> QED
  BY <1>6 DEF t

\* What is written is a run of the events from the first on, with or without a failure.
LEMMA WrittenIs ==
  ASSUME TypeOK, Written
  PROVE  /\ Len(written) <= produced => written = Events(0, Len(written))
         /\ Len(written) = produced + 1 => written = Append(Events(0, produced), Failure)
<1>1. /\ written \in Seq(Item) /\ Len(written) \in Nat
      /\ produced \in 0..MaxEvents /\ produced \in Nat
  BY BoundAssumption DEF TypeOK
<1>2. ASSUME Len(written) <= produced
      PROVE  written = Events(0, Len(written))
  <2>1. \A i \in 1..Len(written) : written[i] = i
    BY <1>1, <1>2 DEF Written, At
  <2> QED
    BY <1>1, <2>1, EventsAre
<1>3. ASSUME Len(written) = produced + 1
      PROVE  written = Append(Events(0, produced), Failure)
  BY <1>1, <1>3, EventsAndFailure DEF Written
<1> QED
  BY <1>2, <1>3

\* The client sees a prefix of the provider's events, whatever happens to whom.
THEOREM PrefixSeen == Spec => []ClientSeesPrefix
<1>1. IInv => ClientSeesPrefix
  <2> SUFFICES ASSUME TypeOK, Written PROVE ClientSeesPrefix
    BY DEF IInv
  <2>1. Len(written) \in Nat /\ produced \in Nat /\ Len(written) <= produced + 1
    BY BoundAssumption DEF TypeOK, Written
  <2>2. CASE Len(written) <= produced
    BY <2>1, <2>2, WrittenIs DEF ClientSeesPrefix
  <2>3. CASE Len(written) = produced + 1
    <3>1. produced \in 0..produced
      BY <2>1
    <3> QED
      BY <2>3, <3>1, WrittenIs DEF ClientSeesPrefix
  <2> QED
    BY <2>1, <2>2, <2>3
<1> QED
  BY <1>1, Invariance, PTL

\* An error frame reports the provider, and comes behind all of its events.
THEOREM ErrorFramesAreTheProviders == Spec => []ErrorFrameIsTheProviders
<1>1. IInv => ErrorFrameIsTheProviders
  <2> SUFFICES ASSUME TypeOK, Written, NEW i \in 1..Len(written), written[i] = Failure
               PROVE  wire = "broken" /\ i = Len(written) /\ i = produced + 1
    BY DEF IInv, ErrorFrameIsTheProviders
  <2>1. Len(written) \in Nat /\ produced \in Nat /\ Len(written) <= produced + 1
    BY BoundAssumption DEF TypeOK, Written
  <2>2. ~(i <= produced)
    BY <2>1 DEF Written, At, Failure
  <2>3. i = Len(written) /\ i = produced + 1
    BY <2>1, <2>2
  <2> QED
    BY <2>3 DEF Written
<1> QED
  BY <1>1, Invariance, PTL

\* A client that stays, behind a writer that can flush, is sent everything.
THEOREM NothingHeldBack == Spec => []StaysToTheEnd
<1>1. IInv => StaysToTheEnd
  <2> SUFFICES ASSUME TypeOK, Written, Stayed, flushes, client = "connected", handler # "select"
               PROVE  Complete
    BY DEF IInv, StaysToTheEnd
  <2>1. wire # "open" /\ Len(written) = produced + (IF err = "failed" THEN 1 ELSE 0)
    BY DEF Stayed
  <2>2. produced \in Nat /\ Len(written) \in Nat
    BY BoundAssumption DEF TypeOK
  <2>3. CASE err = "failed"
    BY <2>1, <2>3, WrittenIs DEF Complete
  <2>4. CASE err # "failed"
    <3>1. Len(written) = produced /\ Len(written) <= produced
      BY <2>1, <2>2, <2>4
    <3>2. written = Events(0, Len(written))
      BY <3>1, WrittenIs
    <3> QED
      BY <2>1, <2>4, <3>1, <3>2 DEF Complete
  <2> QED
    BY <2>3, <2>4
<1> QED
  BY <1>1, Invariance, PTL

\* Nothing is lost, doubled or overtaken on the way to a handler that listens.
THEOREM OrderOfTheRelay == Spec => []RelayedInOrder
<1>1. IInv => RelayedInOrder
  <2> SUFFICES ASSUME TypeOK, Control, Line, Written, handler = "select"
               PROVE  InFlight \in {Events(0, produced), Append(Events(0, produced), Failure)}
    BY DEF IInv, RelayedInOrder
  <2>1. /\ written \in Seq(Item) /\ events \in Seq(Item) /\ InHand \in Seq(Item)
        /\ Len(InHand) = Hands /\ (InHand # << >> => InHand[1] = held)
        /\ produced \in 0..MaxEvents /\ produced \in Nat
    BY BoundAssumption DEF TypeOK, InHand, Hands
  <2>2. queue \in Seq(Item)
    <3>1. 1..MaxEvents \subseteq Item
      BY BoundAssumption DEF Item
    <3> QED
      BY <3>1, SeqMonotonic DEF TypeOK
  <2> DEFINE w == Len(written)  e == Len(events)  q == Len(queue)
             a == written \o events
             b == a \o InHand
             c == b \o queue
  <2>3. w \in Nat /\ e \in Nat /\ q \in Nat
    BY <2>1, <2>2
  <2>4. Hands \in {0, 1} /\ Failures \in {0, 1}
    BY DEF Hands, Failures
  <2>5. /\ a \in Seq(Item) /\ Len(a) = w + e
        /\ \A i \in 1..(w + e) : a[i] = IF i <= w THEN written[i] ELSE events[i - w]
    BY <2>1, ConcatProperties
  <2>6. /\ b \in Seq(Item) /\ Len(b) = w + e + Hands
        /\ \A i \in 1..(w + e + Hands) : b[i] = IF i <= w + e THEN a[i] ELSE InHand[i - (w + e)]
    <3> HIDE DEF w, e, a
    <3> QED
      BY <2>1, <2>5, ConcatAt DEF b
  <2>7. /\ c \in Seq(Item) /\ Len(c) = w + e + Hands + q
        /\ \A i \in 1..(w + e + Hands + q) :
             c[i] = IF i <= w + e + Hands THEN b[i] ELSE queue[i - (w + e + Hands)]
    <3> HIDE DEF w, e, b
    <3>1. q = Len(queue)
      OBVIOUS
    <3> HIDE DEF q
    <3> QED
      BY <2>2, <2>6, <3>1, ConcatAt DEF c
  <2>8. InFlight = c
    BY DEF InFlight
  <2>9. /\ w + e + Hands + q = produced + Failures
        /\ \A i \in 1..w : written[i] = At(i)
        /\ \A i \in 1..e : events[i] = At(w + i)
        /\ pump = "send" => held = At(w + e + 1)
        /\ \A i \in 1..q : queue[i] = w + e + Hands + i
    BY DEF Line, Written
  <2>10. Failures = 1 => q = 0
    BY DEF Failures, FailureOut, Control
  <2>11. ASSUME NEW i \in 1..Len(c)
         PROVE  c[i] = At(i)
    <3> HIDE DEF w, e, q, a, b, c
    <3>1. CASE i \in 1..w
      BY <2>3, <2>4, <2>5, <2>6, <2>7, <2>9, <3>1
    <3>2. CASE i \in (w + 1)..(w + e)
      <4>1. i - w \in 1..e /\ w + (i - w) = i
        BY <2>3, <3>2
      <4>2. c[i] = b[i] /\ b[i] = a[i]
        BY <2>3, <2>4, <2>6, <2>7, <3>2
      <4>3. a[i] = events[i - w]
        BY <2>3, <2>5, <3>2
      <4> QED
        BY <4>1, <4>2, <4>3, <2>9
    <3>3. CASE i \in (w + e + 1)..(w + e + Hands)
      <4>1. Hands = 1 /\ i = w + e + 1
        BY <2>3, <2>4, <3>3
      <4>2. c[i] = InHand[1] /\ pump = "send" /\ InHand # << >>
        <5>1. c[i] = b[i]
          BY <2>3, <2>4, <2>7, <4>1
        <5>2. b[i] = InHand[i - (w + e)] /\ i - (w + e) = 1
          BY <2>3, <2>4, <2>6, <4>1
        <5>3. pump = "send" /\ InHand # << >>
          BY <4>1, <2>1 DEF Hands, InHand
        <5> QED
          BY <5>1, <5>2, <5>3
      <4> QED
        BY <2>1, <2>9, <4>1, <4>2
    <3>4. CASE i \in (w + e + Hands + 1)..(w + e + Hands + q)
      <4>1. c[i] = queue[i - (w + e + Hands)] /\ i - (w + e + Hands) \in 1..q
        BY <2>3, <2>4, <2>7, <3>4
      <4>2. c[i] = i
        BY <2>3, <2>4, <2>9, <4>1
      <4>3. i <= produced
        BY <2>1, <2>3, <2>4, <2>9, <2>10, <3>4
      <4> QED
        BY <4>2, <4>3 DEF At
    <3> QED
      BY <2>3, <2>4, <2>7, <3>1, <3>2, <3>3, <3>4
  <2>12. Len(c) = produced + Failures
    BY <2>7, <2>9
  <2> HIDE DEF w, e, q, a, b, c
  <2>13. CASE Failures = 0
    <3>1. Len(c) = produced
      BY <2>1, <2>12, <2>13
    <3>2. \A i \in 1..Len(c) : c[i] = i
      BY <2>1, <2>11, <3>1 DEF At
    <3> QED
      BY <2>7, <2>8, <3>1, <3>2, EventsAre
  <2>14. CASE Failures = 1
    BY <2>1, <2>7, <2>8, <2>11, <2>12, <2>14, EventsAndFailure
  <2> QED
    BY <2>4, <2>13, <2>14
<1> QED
  BY <1>1, Invariance, PTL
==============================================================================
