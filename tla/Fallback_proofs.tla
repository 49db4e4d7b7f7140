--------------------------- MODULE Fallback_proofs ---------------------------
(***************************************************************************)
(* Proofs about Fallback, for every catalog, every policy, every attempt   *)
(* cap and every set of fallback kinds.                                    *)
(***************************************************************************)
EXTENDS Fallback, FiniteSetTheorems, SequenceTheorems, WellFoundedInduction, TLAPS

TriedEntry == [at : 1..Len(candidates), what : Whats, after : BOOLEAN]

(* The inductive invariant. *)

\* An attempt that is over, and what may still be tried.
Over(n) == outcome = "running" \/ n < Len(tried)

\* What a candidate's failure with ContextLength leaves of the candidates behind it.
NotSmaller(f, p) ==
  Namesakes(Ref(f)) # {} /\ Ref(p) \in Catalogued =>
    \/ ContextOf[Ref(p)] = 0
    \/ \E q \in Namesakes(Ref(f)) : ContextOf[q] = 0 \/ ContextOf[q] < ContextOf[Ref(p)]

LeftIsLarger ==
  mode = "send" =>
    \A n \in 1..Len(tried) :
      tried[n].what = "ContextLength" =>
        /\ Over(n) => \A p \in left : NotSmaller(tried[n].at, p)
        /\ \A k \in 1..Len(tried) : n < k => NotSmaller(tried[n].at, tried[k].at)

\* The loop's counter and the cap.
Counting ==
  /\ outcome = "running" /\ tried = << >> => budget = Budget(maxAttempts, mode, Len(candidates))
  /\ outcome = "running" /\ maxAttempts >= 0 => budget >= 0
  /\ mode = "send" /\ maxAttempts > 0 /\ Overflows = {} =>
       /\ Len(tried) <= maxAttempts
       /\ outcome = "running" => Len(tried) + budget <= maxAttempts

IInv == /\ TypeOK
        /\ LoopInBounds
        /\ TriedInOrder
        /\ FallbackOnlyWhereAllowed
        /\ LeftIsLarger
        /\ Counting
        /\ NilErrorOnlyForNegativeCap

-------------------------------------------------------------------------------
(* Operators. *)

\* The next candidate is the least position left; there is one in every nonempty list.
LEMMA LeastProperties ==
  ASSUME NEW S \in SUBSET Nat, S # {}
  PROVE  /\ Next1(S) \in S
         /\ \A q \in S : Next1(S) <= q
<1> DEFINE R == OpToRel(<, Nat)
<1>1. IsWellFoundedOn(R, Nat)
  BY NatLessThanWellFounded
<1> HIDE DEF R
<1>2. PICK p \in S : \A q \in S : ~ (<<q, p>> \in R)
  BY <1>1, WFMin
<1>3. \A q \in S : ~ (q < p)
  BY <1>2 DEF R, OpToRel
<1>4. \A q \in S : p <= q
  BY <1>3
<1> QED
  BY <1>4 DEF Next1

\* The positions left are finitely many naturals, and the current one is among them
\* whenever the loop runs.
LEMMA LeftProperties ==
  ASSUME TypeOK
  PROVE  /\ Len(candidates) \in Nat
         /\ IsFiniteSet(left)
         /\ Cardinality(left) \in Nat
         /\ Running /\ LoopInBounds =>
              /\ Current \in left
              /\ Current \in 1..Len(candidates)
              /\ \A q \in left : Current <= q
<1>1. Len(candidates) \in Nat
  BY LenProperties DEF TypeOK
<1>2. left \subseteq 1..Len(candidates)
  BY DEF TypeOK
<1>3. IsFiniteSet(left)
  <2>1. IsFiniteSet(1..Len(candidates))
    BY <1>1, FS_Interval
  <2> QED
    BY <1>2, <2>1, FS_Subset
<1>4. Cardinality(left) \in Nat
  BY <1>3, FS_CardinalityType
<1>5. ASSUME Running, LoopInBounds
      PROVE  left # {}
  BY <1>3, <1>4, <1>5, FS_EmptySet DEF Running, LoopInBounds, TypeOK
<1>6. left \in SUBSET Nat
  BY <1>1, <1>2
<1> QED
  BY <1>1, <1>2, <1>3, <1>4, <1>5, <1>6, LeastProperties DEF Current

\* An iteration adds one entry to the log and leaves the others alone.
LEMMA LogProperties ==
  ASSUME TypeOK, Current \in 1..Len(candidates),
         NEW what \in Whats, NEW after \in BOOLEAN,
         Log(what, after)
  PROVE  /\ tried' \in Seq(TriedEntry)
         /\ Len(tried) \in Nat
         /\ Len(tried') = Len(tried) + 1
         /\ \A n \in 1..Len(tried) : tried'[n] = tried[n]
         /\ tried'[Len(tried) + 1] = Entry(Current, what, after)
         /\ Entry(Current, what, after) \in TriedEntry
         /\ \A n \in 1..Len(tried) : tried[n] \in TriedEntry
<1>1. Entry(Current, what, after) \in TriedEntry
  BY DEF Entry, TriedEntry
<1>2. tried \in Seq(TriedEntry)
  BY DEF TypeOK, TriedEntry
<1>3. tried' = Append(tried, Entry(Current, what, after))
  BY DEF Log
<1> HIDE DEF Current
<1>4. Len(tried) \in Nat
  BY <1>2, LenProperties
<1> QED
  BY <1>1, <1>2, <1>3, <1>4, AppendProperties, ElementOfSeq

\* The iteration's budget: no more than the list is long, and no less than nothing
\* unless the cap is negative.
LEMMA BudgetProperties ==
  ASSUME NEW m \in Int, NEW md, NEW n \in Nat
  PROVE  /\ Budget(m, md, n) \in Int
         /\ Budget(m, md, n) <= n
         /\ m >= 0 => Budget(m, md, n) >= 0
         /\ n > 0 /\ Budget(m, md, n) <= 0 => md # "stream" /\ m < 0
         /\ md = "send" /\ m > 0 => Budget(m, md, n) <= m
BY DEF Budget

-------------------------------------------------------------------------------
(* Initially. *)

\* The invariant holds before the first attempt.
LEMMA InvInit == Init => IInv
<1> SUFFICES ASSUME Init
             PROVE  IInv
  OBVIOUS
<1>1. /\ candidates \in Seq(Refs) \ {<< >>}
      /\ maxAttempts \in Int
  BY ListsAssumption DEF Init
<1>2. Len(candidates) \in Nat
  BY <1>1, LenProperties
<1>3. Cardinality(left) = Len(candidates)
  BY <1>2, FS_Interval DEF Init
<1>4. /\ budget \in Int
      /\ budget <= Len(candidates)
      /\ maxAttempts >= 0 => budget >= 0
      /\ mode = "send" /\ maxAttempts > 0 => budget <= maxAttempts
  BY <1>1, <1>2, BudgetProperties DEF Init
<1>5. /\ tried = << >>
      /\ Len(tried) = 0
      /\ tried \in Seq(TriedEntry)
      /\ outcome = "running"
  BY EmptySeq DEF Init
<1>6. TypeOK
  BY <1>1, <1>4, <1>5 DEF Init, TypeOK, TriedEntry
<1>7. LoopInBounds
  BY <1>3, <1>4 DEF LoopInBounds
<1>8. TriedInOrder /\ FallbackOnlyWhereAllowed /\ LeftIsLarger
  BY <1>5 DEF TriedInOrder, FallbackOnlyWhereAllowed, LeftIsLarger
<1>9. Counting
  BY <1>1, <1>4, <1>5 DEF Counting, Init
<1>10. NilErrorOnlyForNegativeCap
  BY <1>5 DEF NilErrorOnlyForNegativeCap
<1> QED
  BY <1>6, <1>7, <1>8, <1>9, <1>10 DEF IInv

-------------------------------------------------------------------------------
(* One iteration of the loop. *)

\* Whatever an attempt comes to: if its failure may be followed by another one, the
\* list shrinks behind it, and the counter with it, the invariant is preserved.
LEMMA AttemptStep ==
  ASSUME IInv, Running,
         NEW what \in Whats, NEW after \in BOOLEAN,
         Log(what, after),
         UNCHANGED config,
         outcome' \in {"running", "reply", "error"},
         left' \subseteq left,
         budget' \in Int,
         outcome' = "running" =>
           /\ left' \subseteq left \ {Current}
           /\ budget' <= Cardinality(left')
           /\ budget' >= 0
           /\ what = "unregistered" \/ (what \in fallbackOn /\ ~(mode = "send" /\ after))
           /\ mode = "send" /\ what = "ContextLength" =>
                \A p \in left' : NotSmaller(Current, p)
           /\ ~(mode = "send" /\ what = "ContextLength") => budget' <= budget - 1
  PROVE  IInv'
<1> DEFINE c == Current
           L == Len(tried)
           new == Entry(Current, what, after)
<1>1. /\ c \in left
      /\ c \in 1..Len(candidates)
      /\ \A q \in left : c <= q
      /\ left \subseteq 1..Len(candidates)
      /\ Len(candidates) \in Nat
  BY LeftProperties DEF IInv, TypeOK
<1>2. /\ tried' \in Seq(TriedEntry)
      /\ L \in Nat
      /\ Len(tried') = L + 1
      /\ \A n \in 1..L : tried'[n] = tried[n]
      /\ tried'[L + 1] = new
      /\ \A n \in 1..L : tried[n] \in TriedEntry
  BY <1>1, LogProperties DEF IInv
<1>3. new.at = c /\ new.what = what /\ new.after = after
  BY DEF Entry
<1>4. outcome = "running" /\ budget > 0
  BY DEF Running
<1>5. /\ mode' = mode /\ candidates' = candidates
      /\ maxAttempts' = maxAttempts /\ fallbackOn' = fallbackOn
  BY DEF config
<1>6. tried' # << >>
  BY <1>2, EmptySeq
<1>7. \A n \in 1..L : tried[n].at \in 1..Len(candidates)
  BY <1>2 DEF TriedEntry
<1> HIDE DEF c, L, new
<1>8. TypeOK'
  <2>1. tried' \in Seq(TriedEntry')
    BY <1>2, <1>5 DEF TriedEntry, Whats
  <2> QED
    BY <2>1, <1>5, <1>1 DEF IInv, TypeOK, TriedEntry, Whats
<1>9. LoopInBounds'
  BY DEF LoopInBounds
<1>10. TriedInOrder'
  <2>1. ASSUME NEW m \in 1..L+1, NEW n \in 1..L+1, m < n
        PROVE  tried'[m].at < tried'[n].at
    <3>1. m \in 1..L
      BY <2>1, <1>2
    <3>2. CASE n \in 1..L
      BY <3>1, <3>2, <2>1, <1>2 DEF IInv, TriedInOrder, L
    <3>3. CASE n = L + 1
      BY <3>1, <3>3, <1>1, <1>2, <1>3, <1>4 DEF IInv, TriedInOrder, L
    <3> QED
      BY <3>2, <3>3, <1>2
  <2>2. ASSUME NEW n \in 1..L+1, NEW p \in left', outcome' = "running" \/ n < L + 1
        PROVE  tried'[n].at < p
    <3>1. CASE n \in 1..L
      BY <3>1, <1>2, <1>4 DEF IInv, TriedInOrder, L
    <3>2. CASE n = L + 1
      <4>1. p \in left /\ p # c
        BY <3>2, <2>2, <1>2 DEF c
      <4> QED
        BY <4>1, <3>2, <1>1, <1>2, <1>3
    <3> QED
      BY <3>1, <3>2, <1>2
  <2> QED
    BY <2>1, <2>2, <1>2 DEF TriedInOrder
<1>11. FallbackOnlyWhereAllowed'
  <2>1. ASSUME NEW n \in 1..L+1, n < L + 1 \/ outcome' = "running"
        PROVE  \/ tried'[n].what = "unregistered"
               \/ /\ tried'[n].what \in fallbackOn
                  /\ ~(mode = "send" /\ tried'[n].after)
    <3>1. CASE n \in 1..L
      BY <3>1, <1>2, <1>4 DEF IInv, FallbackOnlyWhereAllowed, L
    <3>2. CASE n = L + 1
      BY <3>2, <2>1, <1>2, <1>3
    <3> QED
      BY <3>1, <3>2, <1>2
  <2> QED
    BY <2>1, <1>2, <1>5 DEF FallbackOnlyWhereAllowed
<1>12. LeftIsLarger'
  <2> SUFFICES ASSUME mode = "send",
                      NEW n \in 1..L+1, tried'[n].what = "ContextLength"
               PROVE  /\ Over(n)' => \A p \in left' : NotSmaller(tried'[n].at, p)
                      /\ \A k \in 1..L+1 : n < k => NotSmaller(tried'[n].at, tried'[k].at)
    BY <1>2, <1>5 DEF LeftIsLarger, NotSmaller, Ref
  <2>1. CASE n \in 1..L
    <3>1. /\ \A p \in left : NotSmaller(tried[n].at, p)
          /\ \A k \in 1..L : n < k => NotSmaller(tried[n].at, tried[k].at)
      BY <2>1, <1>2, <1>4 DEF IInv, LeftIsLarger, Over, L
    <3>2. NotSmaller(tried[n].at, c)
      BY <3>1, <1>1
    <3> QED
      BY <3>1, <3>2, <2>1, <1>2, <1>3
  <2>2. CASE n = L + 1
    <3>1. Over(n)' => outcome' = "running"
      BY <2>2, <1>2 DEF Over
    <3>2. tried'[n].at = c /\ what = "ContextLength"
      BY <2>2, <1>2, <1>3
    <3>3. \A k \in 1..L+1 : ~(n < k)
      BY <2>2, <1>2
    <3> QED
      BY <3>1, <3>2, <3>3 DEF c
  <2> QED
    BY <2>1, <2>2, <1>2
<1>13. Counting'
  <2>1. outcome' = "running" /\ maxAttempts' >= 0 => budget' >= 0
    OBVIOUS
  <2>2. ASSUME mode = "send", maxAttempts > 0, Overflows' = {}
        PROVE  /\ L + 1 <= maxAttempts
               /\ outcome' = "running" => L + 1 + budget' <= maxAttempts
    <3>1. \A n \in 1..L+1 : tried'[n].what # "ContextLength"
      BY <2>2, <1>2, <1>5 DEF Overflows
    <3>2. Overflows = {}
      BY <3>1, <1>2 DEF Overflows, L
    <3>3. L + budget <= maxAttempts
      BY <3>2, <2>2, <1>4 DEF IInv, Counting, L
    <3>4. what # "ContextLength"
      BY <3>1, <1>2, <1>3
    <3>5. outcome' = "running" => budget' <= budget - 1
      BY <3>4
    <3>6. maxAttempts \in Int /\ budget \in Int /\ budget' \in Int /\ L \in Int
      BY <1>2 DEF IInv, TypeOK
    <3>7. L + 1 <= maxAttempts
      BY <3>3, <3>6, <1>4
    <3>8. ASSUME outcome' = "running"
          PROVE  L + 1 + budget' <= maxAttempts
      <4>1. budget' <= budget - 1
        BY <3>5, <3>8
      <4>2. \A l, b, d, m \in Int : l + b <= m /\ d <= b - 1 => l + 1 + d <= m
        OBVIOUS
      <4> QED
        BY <3>3, <3>6, <4>1, <4>2
    <3> QED
      BY <3>7, <3>8
  <2> QED
    BY <2>1, <2>2, <1>2, <1>5, <1>6 DEF Counting
<1>14. NilErrorOnlyForNegativeCap'
  BY DEF NilErrorOnlyForNegativeCap
<1> QED
  BY <1>8, <1>9, <1>10, <1>11, <1>12, <1>13, <1>14 DEF IInv

\* What filterLargerContext keeps is larger than one of the models that have the name of
\* the one that failed.
LEMMA LargerContextProperties ==
  ASSUME TypeOK, NEW f \in 1..Len(candidates), NEW c \in FailedContexts(Ref(f)),
         NEW S \in SUBSET (1..Len(candidates))
  PROVE  /\ LargerContext(c, S) \subseteq S
         /\ \A p \in LargerContext(c, S) : NotSmaller(f, p)
<1>1. LargerContext(c, S) \subseteq S
  BY DEF LargerContext
<1>2. ASSUME NEW p \in LargerContext(c, S),
             Namesakes(Ref(f)) # {}, Ref(p) \in Catalogued
      PROVE  \/ ContextOf[Ref(p)] = 0
             \/ \E q \in Namesakes(Ref(f)) : ContextOf[q] = 0 \/ ContextOf[q] < ContextOf[Ref(p)]
  <2>1. PICK q \in Namesakes(Ref(f)) : c = ContextOf[q]
    BY <1>2 DEF FailedContexts
  <2>2. ContextOf[q] \in Nat /\ ContextOf[Ref(p)] \in Nat
    BY <1>2, <2>1, RefsAssumption DEF Namesakes
  <2>3. c = 0 \/ ContextOf[Ref(p)] = 0 \/ ContextOf[Ref(p)] > c
    BY <1>2 DEF LargerContext
  <2> QED
    BY <2>1, <2>2, <2>3
<1> QED
  BY <1>1, <1>2 DEF NotSmaller

\* The invariant is preserved by every iteration and by the end of the loop.
LEMMA InvStep == IInv /\ [Next]_vars => IInv'
<1> SUFFICES ASSUME IInv, [Next]_vars
             PROVE  IInv'
  OBVIOUS
<1>1. TypeOK /\ LoopInBounds
  BY DEF IInv
<1>2. /\ IsFiniteSet(left)
      /\ Cardinality(left) \in Nat
      /\ budget \in Int
      /\ Len(candidates) \in Nat
      /\ Running => Current \in left /\ Current \in 1..Len(candidates)
  BY <1>1, LeftProperties DEF TypeOK
<1>3. Running => outcome = "running" /\ budget > 0 /\ budget <= Cardinality(left)
  BY <1>1 DEF Running, LoopInBounds
<1>4. ASSUME Running
      PROVE  Cardinality(left \ {Current}) = Cardinality(left) - 1
  BY <1>2, <1>4, FS_RemoveElement
<1> HIDE DEF Current
<1>5. ASSUME Running, Advance,
             NEW what \in Whats, NEW after \in BOOLEAN, Log(what, after),
             ~(mode = "send" /\ what = "ContextLength"),
             what = "unregistered" \/ (what \in fallbackOn /\ ~(mode = "send" /\ after))
      PROVE  IInv'
  <2>1. /\ left' = left \ {Current}
        /\ budget' = budget - 1
        /\ outcome' = outcome
        /\ UNCHANGED config
    BY <1>5 DEF Advance
  <2>2. /\ budget' \in Int
        /\ budget' >= 0
        /\ budget' <= Cardinality(left')
    BY <1>2, <1>3, <1>4, <1>5, <2>1
  <2> QED
    BY <1>3, <1>5, <2>1, <2>2, AttemptStep
<1>6. ASSUME Running, NEW how \in {"reply", "error"}, Finish(how),
             NEW what \in Whats, NEW after \in BOOLEAN, Log(what, after)
      PROVE  IInv'
  <2>1. /\ left' = left /\ budget' = budget /\ outcome' = how
        /\ UNCHANGED config
    BY <1>6 DEF Finish
  <2> QED
    BY <1>2, <1>6, <2>1, AttemptStep
<1>7. CASE SkipUnregistered
  BY <1>5, <1>7, KindsAssumption DEF SkipUnregistered, Whats
<1>8. CASE Reply
  BY <1>6, <1>8 DEF Reply, Whats
<1>9. ASSUME NEW what \in Kinds \cup {NotTyped}, NEW after \in BOOLEAN,
             FailAndHalt(what, after)
      PROVE  IInv'
  BY <1>6, <1>9 DEF FailAndHalt, Whats
<1>10. ASSUME NEW what \in Kinds \cup {NotTyped}, NEW after \in BOOLEAN,
              FailAndAdvance(what, after)
       PROVE  IInv'
  <2>1. ~(mode = "send" /\ what = "ContextLength")
    BY <1>10 DEF FailAndAdvance
  <2>2. what \in fallbackOn /\ ~(mode = "send" /\ after)
    BY <1>10 DEF FailAndAdvance, Halts, ShouldFallback
  <2> QED
    BY <1>5, <1>10, <2>1, <2>2 DEF FailAndAdvance, Whats
<1>11. ASSUME NEW after \in BOOLEAN, FailAndGoLarger(after)
       PROVE  IInv'
  <2>1. /\ Running
        /\ Log("ContextLength", after)
        /\ UNCHANGED config
        /\ budget' = Cardinality(left')
        /\ outcome' \in {"running", "error"}
        /\ "ContextLength" \in fallbackOn /\ ~(mode = "send" /\ after)
    BY <1>11 DEF FailAndGoLarger, Halts, ShouldFallback
  <2>2. PICK c \in FailedContexts(Ref(Current)) : left' = LargerContext(c, left \ {Current})
    BY <1>11 DEF FailAndGoLarger
  <2>3. /\ left' \subseteq left \ {Current}
        /\ \A p \in left' : NotSmaller(Current, p)
    <3>1. left \ {Current} \in SUBSET (1..Len(candidates))
      BY <1>1 DEF TypeOK
    <3> QED
      BY <1>1, <1>2, <2>1, <2>2, <3>1, LargerContextProperties
  <2>4. Cardinality(left') \in Nat
    <3>1. IsFiniteSet(left')
      BY <1>2, <2>3, FS_Subset
    <3> QED
      BY <3>1, FS_CardinalityType
  <2>5. "ContextLength" \in Whats
    BY KindsAssumption DEF Whats
  <2>6. /\ left' \subseteq left
        /\ budget' \in Int /\ budget' <= Cardinality(left') /\ budget' >= 0
    BY <2>1, <2>3, <2>4
  <2>7. mode = "send"
    BY <1>11 DEF FailAndGoLarger
  <2> QED
    BY <2>1, <2>3, <2>5, <2>6, <2>7, AttemptStep
<1>12. CASE Exhausted
  <2>1. /\ outcome = "running" /\ budget <= 0
        /\ UNCHANGED <<config, left, budget, tried>>
        /\ outcome' = IF mode = "send" /\ tried = << >> THEN "nilError" ELSE "error"
    BY <1>12 DEF Exhausted, Finish
  <2>2. TypeOK'
    BY <1>1, <2>1 DEF TypeOK, config, Whats
  <2>3. LoopInBounds'
    BY <2>1 DEF LoopInBounds
  <2>4. TriedInOrder' /\ FallbackOnlyWhereAllowed'
    BY <2>1 DEF IInv, TriedInOrder, FallbackOnlyWhereAllowed, config
  <2>5. LeftIsLarger'
    BY <2>1 DEF IInv, LeftIsLarger, Over, NotSmaller, Ref, config
  <2>6. Counting'
    BY <2>1 DEF IInv, Counting, Overflows, config
  <2>7. NilErrorOnlyForNegativeCap'
    <3>1. ASSUME mode = "send", tried = << >>
          PROVE  maxAttempts < 0
      <4>1. budget = Budget(maxAttempts, mode, Len(candidates))
        BY <2>1, <3>1 DEF IInv, Counting
      <4>2. candidates # << >> /\ candidates \in Seq(Refs) /\ maxAttempts \in Int
        BY <1>1 DEF TypeOK
      <4>3. Len(candidates) > 0
        BY <1>2, <4>2, EmptySeq
      <4> QED
        BY <1>2, <2>1, <4>1, <4>2, <4>3, BudgetProperties
    <3> QED
      BY <2>1, <3>1 DEF NilErrorOnlyForNegativeCap, config
  <2> QED
    BY <2>2, <2>3, <2>4, <2>5, <2>6, <2>7 DEF IInv
<1>13. CASE UNCHANGED vars
  <2>1. TypeOK' /\ LoopInBounds' /\ TriedInOrder' /\ FallbackOnlyWhereAllowed'
    BY <1>13 DEF IInv, TypeOK, LoopInBounds, TriedInOrder, FallbackOnlyWhereAllowed,
                 vars, config, Whats
  <2>2. LeftIsLarger' /\ Counting' /\ NilErrorOnlyForNegativeCap'
    BY <1>13 DEF IInv, LeftIsLarger, Over, NotSmaller, Ref, Counting, Overflows,
                 NilErrorOnlyForNegativeCap, vars, config
  <2> QED
    BY <2>1, <2>2 DEF IInv
<1> QED
  BY <1>7, <1>8, <1>9, <1>10, <1>11, <1>12, <1>13 DEF Next

\* The strengthened invariant holds in every behaviour.
THEOREM Invariance == Spec => []IInv
<1> QED
  BY InvInit, InvStep, PTL DEF Spec

-------------------------------------------------------------------------------
(* What follows from it. *)

\* Every variable has its type; what is left are positions of the list.
THEOREM TypeCorrect == Spec => []TypeOK
<1>1. IInv => TypeOK
  BY DEF IInv
<1> QED
  BY <1>1, Invariance, PTL

\* candidates[i] is never read past the end, for any list, cap and filter.
THEOREM NeverOutOfBounds == Spec => []LoopInBounds
<1>1. IInv => LoopInBounds
  BY DEF IInv
<1> QED
  BY <1>1, Invariance, PTL

\* Candidates are tried in the policy's order, each of them at most once.
THEOREM OrderKept == Spec => []TriedInOrder
<1>1. IInv => TriedInOrder
  BY DEF IInv
<1> QED
  BY <1>1, Invariance, PTL

\* No attempt follows a failure that forbids one.
THEOREM NoForbiddenFallback == Spec => []FallbackOnlyWhereAllowed
<1>1. IInv => FallbackOnlyWhereAllowed
  BY DEF IInv
<1> QED
  BY <1>1, Invariance, PTL

\* After an overflow of the context, Send only tries what is larger or unknown.
THEOREM OnlyLargerAfterOverflow == Spec => []LargerContextAfterOverflow
<1>1. IInv => LargerContextAfterOverflow
  BY DEF IInv, LeftIsLarger, NotSmaller, LargerContextAfterOverflow
<1> QED
  BY <1>1, Invariance, PTL

\* Without an overflow, the cap on attempts is kept.
THEOREM CapKeptWithoutOverflow == Spec => []CapWithoutOverflow
<1>1. IInv => CapWithoutOverflow
  BY DEF IInv, Counting, CapWithoutOverflow
<1> QED
  BY <1>1, Invariance, PTL

\* No error is nil unless the cap is negative.
THEOREM NilErrorIsOwedToTheCap == Spec => []NilErrorOnlyForNegativeCap
<1>1. IInv => NilErrorOnlyForNegativeCap
  BY DEF IInv
<1> QED
  BY <1>1, Invariance, PTL

-------------------------------------------------------------------------------
(* Replies. *)

\* Whatever an attempt that is no reply comes to, no reply is logged, and the loop does
\* not end with one.
LEMMA NoReplyStep ==
  ASSUME IInv, ReplyIsTheLastAttempt, Running,
         NEW what \in Whats, NEW after \in BOOLEAN, Log(what, after),
         what # "reply", outcome' # "reply"
  PROVE  ReplyIsTheLastAttempt'
<1>1. Current \in 1..Len(candidates)
  BY LeftProperties DEF IInv
<1>2. /\ Len(tried) \in Nat
      /\ Len(tried') = Len(tried) + 1
      /\ \A n \in 1..Len(tried) : tried'[n] = tried[n]
      /\ tried'[Len(tried) + 1] = Entry(Current, what, after)
  BY <1>1, LogProperties DEF IInv
<1>3. \A n \in 1..Len(tried) : tried[n].what # "reply"
  BY DEF ReplyIsTheLastAttempt, Running
<1>4. Entry(Current, what, after).what # "reply"
  BY DEF Entry
<1>5. \A n \in 1..Len(tried') : tried'[n].what # "reply"
  <2> TAKE n \in 1..Len(tried')
  <2>1. n \in 1..Len(tried) \/ n = Len(tried) + 1
    BY <1>2
  <2> QED
    BY <2>1, <1>2, <1>3, <1>4
<1> QED
  BY <1>5 DEF ReplyIsTheLastAttempt

\* Only Reply logs a reply, and it ends the loop.
LEMMA ReplyStep == IInv /\ ReplyIsTheLastAttempt /\ [Next]_vars => ReplyIsTheLastAttempt'
<1> SUFFICES ASSUME IInv, ReplyIsTheLastAttempt, [Next]_vars
             PROVE  ReplyIsTheLastAttempt'
  OBVIOUS
<1>1. CASE SkipUnregistered
  <2>1. Running /\ outcome' = outcome /\ Log("unregistered", FALSE)
    BY <1>1 DEF SkipUnregistered, Advance
  <2> QED
    BY <2>1, NoReplyStep DEF Whats, Running
<1>2. CASE Reply
  <2>1. Running /\ outcome' = "reply" /\ Log("reply", FALSE)
    BY <1>2 DEF Reply, Finish
  <2>2. Current \in 1..Len(candidates)
    BY <2>1, LeftProperties DEF IInv
  <2>3. /\ Len(tried) \in Nat
        /\ tried' \in Seq(TriedEntry)
        /\ Len(tried') = Len(tried) + 1
        /\ \A n \in 1..Len(tried) : tried'[n] = tried[n]
        /\ tried'[Len(tried) + 1] = Entry(Current, "reply", FALSE)
    BY <2>1, <2>2, LogProperties DEF IInv, Whats
  <2>4. \A n \in 1..Len(tried) : tried[n].what # "reply"
    BY <2>1 DEF ReplyIsTheLastAttempt, Running
  <2>5. Entry(Current, "reply", FALSE).what = "reply"
    BY DEF Entry
  <2>6. tried' # << >>
    BY <2>3, EmptySeq
  <2>7. \A n \in 1..Len(tried') : tried'[n].what = "reply" => n = Len(tried')
    BY <2>3, <2>4
  <2> QED
    BY <2>1, <2>3, <2>5, <2>6, <2>7 DEF ReplyIsTheLastAttempt
<1>3. ASSUME NEW what \in Kinds \cup {NotTyped}, NEW after \in BOOLEAN,
             FailAndHalt(what, after) \/ FailAndAdvance(what, after)
      PROVE  ReplyIsTheLastAttempt'
  <2>1. Running /\ Log(what, after)
    BY <1>3 DEF FailAndHalt, FailAndAdvance
  <2>2. outcome' # "reply"
    BY <1>3 DEF FailAndHalt, FailAndAdvance, Finish, Advance, Running
  <2>3. what \in Whats /\ what # "reply"
    BY KindsAssumption DEF Whats, NotTyped
  <2> QED
    BY <2>1, <2>2, <2>3, NoReplyStep
<1>4. ASSUME NEW after \in BOOLEAN, FailAndGoLarger(after)
      PROVE  ReplyIsTheLastAttempt'
  <2>1. Running /\ Log("ContextLength", after) /\ outcome' # "reply"
    BY <1>4 DEF FailAndGoLarger
  <2>2. "ContextLength" \in Whats
    BY KindsAssumption DEF Whats
  <2> QED
    BY <2>1, <2>2, NoReplyStep
<1>5. CASE Exhausted
  BY <1>5 DEF Exhausted, Finish, ReplyIsTheLastAttempt
<1>6. CASE UNCHANGED vars
  BY <1>6 DEF vars, config, ReplyIsTheLastAttempt
<1> QED
  BY <1>1, <1>2, <1>3, <1>4, <1>5, <1>6 DEF Next

\* The caller's reply is the last attempt's, and a success is never dropped.
THEOREM NoReplyDropped == Spec => []ReplyIsTheLastAttempt
<1>1. Init => ReplyIsTheLastAttempt
  BY EmptySeq DEF Init, ReplyIsTheLastAttempt
<1> QED
  BY <1>1, ReplyStep, Invariance, PTL DEF Spec

-------------------------------------------------------------------------------
(* Giving up. *)

WasTried(p) == \E n \in 1..Len(tried) : tried[n].at = p

IsTooSmall(p) ==
  \E n \in Overflows : \E c \in FailedContexts(Ref(tried[n].at)) :
    tried[n].at < p /\ p \notin LargerContext(c, {p})

\* While the loop runs, every candidate is ahead, was tried, or is too small; the counter
\* and what is ahead run out together, or as far apart as the cap and the list are.
Accounts ==
  outcome = "running" =>
    /\ \A p \in 1..Len(candidates) : p \in left \/ WasTried(p) \/ IsTooSmall(p)
    /\ Overflows = {} =>
         /\ budget = Budget(maxAttempts, mode, Len(candidates)) - Len(tried)
         /\ Cardinality(left) = Len(candidates) - Len(tried)
    /\ Overflows # {} => budget = Cardinality(left)
    /\ mode = "send" /\ maxAttempts < 0 => tried = << >>

AInv == Accounts /\ GivesUpOnlyWhenExhausted

\* An attempt adds its candidate to those that were tried, and to the overflows if it
\* failed with one; it takes nothing away from either.
LEMMA AttemptAccounts ==
  ASSUME IInv, Accounts, Running, UNCHANGED config,
         NEW what \in Whats, NEW after \in BOOLEAN, Log(what, after)
  PROVE  /\ Len(tried') = Len(tried) + 1
         /\ tried'[Len(tried) + 1] = Entry(Current, what, after)
         /\ Len(tried) \in Nat
         /\ \A p \in 1..Len(candidates) :
              p \in left \ {Current} \/ WasTried(p)' \/ IsTooSmall(p)'
         /\ Overflows' = Overflows \cup
              (IF mode = "send" /\ what = "ContextLength" THEN {Len(tried) + 1} ELSE {})
         /\ ~(mode = "send" /\ maxAttempts < 0)
<1> DEFINE L == Len(tried)
<1>1. Current \in 1..Len(candidates) /\ Len(candidates) \in Nat
  BY LeftProperties DEF IInv
<1>2. /\ L \in Nat
      /\ Len(tried') = L + 1
      /\ \A n \in 1..L : tried'[n] = tried[n]
      /\ tried'[L + 1] = Entry(Current, what, after)
  BY <1>1, LogProperties DEF IInv
<1>3. Entry(Current, what, after).at = Current /\ Entry(Current, what, after).what = what
  BY DEF Entry
<1>4. /\ mode' = mode /\ candidates' = candidates
      /\ maxAttempts' = maxAttempts /\ fallbackOn' = fallbackOn
  BY DEF config
<1> HIDE DEF Current, L
<1>5. Overflows' = Overflows \cup
        (IF mode = "send" /\ what = "ContextLength" THEN {L + 1} ELSE {})
  <2>1. 1..Len(tried') = (1..L) \cup {L + 1}
    BY <1>2
  <2>2. \A n \in 1..L : n # L + 1
    BY <1>2
  <2>3. /\ \A n \in 1..L : tried'[n].what = tried[n].what
        /\ tried'[L + 1].what = what
    BY <1>2, <1>3
  <2>4. Overflows = {n \in 1..L : mode = "send" /\ tried[n].what = "ContextLength"}
    BY DEF Overflows, L
  <2>5. Overflows' = {n \in (1..L) \cup {L + 1} :
                        mode = "send" /\ tried'[n].what = "ContextLength"}
    BY <1>4, <2>1 DEF Overflows
  <2> QED
    BY <2>2, <2>3, <2>4, <2>5
<1>6. ASSUME NEW p \in 1..Len(candidates), WasTried(p)
      PROVE  WasTried(p)'
  <2>1. PICK n \in 1..L : tried[n].at = p
    BY <1>6 DEF WasTried, L
  <2>2. n \in 1..Len(tried') /\ tried'[n].at = p
    BY <2>1, <1>2
  <2> QED
    BY <2>2 DEF WasTried
<1>7. ASSUME NEW p \in 1..Len(candidates), IsTooSmall(p)
      PROVE  IsTooSmall(p)'
  <2>1. PICK n \in Overflows : \E c \in FailedContexts(Ref(tried[n].at)) :
                                 tried[n].at < p /\ p \notin LargerContext(c, {p})
    BY <1>7 DEF IsTooSmall
  <2>2. PICK c \in FailedContexts(Ref(tried[n].at)) :
               tried[n].at < p /\ p \notin LargerContext(c, {p})
    BY <2>1
  <2>3. n \in 1..L /\ n \in Overflows'
    BY <2>1, <1>5 DEF Overflows, L
  <2>4. tried'[n] = tried[n]
    BY <2>3, <1>2
  <2>5. (c \in FailedContexts(Ref(tried[n].at)))'
    BY <2>2, <2>4, <1>4 DEF FailedContexts, Ref
  <2>6. (p \notin LargerContext(c, {p}))'
    BY <2>2, <1>4 DEF LargerContext, Ref
  <2>7. (tried[n].at < p)'
    BY <2>2, <2>4
  <2> QED
    BY <2>3, <2>5, <2>6, <2>7 DEF IsTooSmall
<1>8. ASSUME NEW p \in 1..Len(candidates)
      PROVE  p \in left \ {Current} \/ WasTried(p)' \/ IsTooSmall(p)'
  <2>1. p \in left \/ WasTried(p) \/ IsTooSmall(p)
    BY DEF Accounts, Running
  <2>2. CASE p = Current
    <3>1. L + 1 \in 1..Len(tried') /\ tried'[L + 1].at = p
      BY <2>2, <1>2, <1>3
    <3> QED
      BY <3>1 DEF WasTried
  <2> QED
    BY <2>1, <2>2, <1>6, <1>7
<1>9. ASSUME mode = "send", maxAttempts < 0
      PROVE  FALSE
  <2>1. tried = << >> /\ outcome = "running" /\ budget > 0
    BY <1>9 DEF Accounts, Running
  <2>2. budget = Budget(maxAttempts, mode, Len(candidates))
    BY <2>1 DEF IInv, Counting
  <2>3. maxAttempts \in Int
    BY DEF IInv, TypeOK
  <2>4. Budget(maxAttempts, mode, Len(candidates)) = maxAttempts
    BY <1>1, <1>9, <2>3 DEF Budget
  <2>5. budget = maxAttempts
    BY <2>2, <2>4
  <2> QED
    BY <2>1, <2>3, <2>5, <1>9
<1> QED
  BY <1>2, <1>5, <1>8, <1>9 DEF L

\* On to the next candidate: list and counter shrink by one.
LEMMA AdvanceAccounts ==
  ASSUME IInv, Accounts, Running, Advance,
         NEW what \in Whats, NEW after \in BOOLEAN, Log(what, after),
         ~(mode = "send" /\ what = "ContextLength")
  PROVE  AInv'
<1> DEFINE N == Len(candidates)
           L == Len(tried)
<1>1. /\ left' = left \ {Current} /\ budget' = budget - 1
      /\ outcome' = outcome /\ outcome = "running"
      /\ UNCHANGED config
  BY DEF Advance, Running
<1>2. /\ mode' = mode /\ candidates' = candidates /\ maxAttempts' = maxAttempts
  BY <1>1 DEF config
<1>3. /\ Len(tried') = L + 1
      /\ L \in Nat
      /\ \A p \in 1..N : p \in left \ {Current} \/ WasTried(p)' \/ IsTooSmall(p)'
      /\ Overflows' = Overflows
      /\ ~(mode = "send" /\ maxAttempts < 0)
  BY <1>1, AttemptAccounts
<1>4. /\ Cardinality(left') = Cardinality(left) - 1
      /\ Cardinality(left) \in Nat /\ N \in Nat /\ budget \in Int
  <2>1. Current \in left /\ IsFiniteSet(left) /\ Cardinality(left) \in Nat /\ N \in Nat
    BY LeftProperties DEF IInv
  <2> QED
    BY <1>1, <2>1, FS_RemoveElement DEF IInv, TypeOK
<1>5. Budget(maxAttempts, mode, N) \in Int
  BY <1>4, BudgetProperties DEF IInv, TypeOK
<1> HIDE DEF N, L
<1>6. ASSUME Overflows = {}
      PROVE  /\ budget' = Budget(maxAttempts, mode, N) - Len(tried')
             /\ Cardinality(left') = N - Len(tried')
  <2>1. budget = Budget(maxAttempts, mode, N) - L /\ Cardinality(left) = N - L
    BY <1>1, <1>6 DEF Accounts, N, L
  <2> QED
    BY <2>1, <1>1, <1>3, <1>4, <1>5
<1>7. ASSUME Overflows # {}
      PROVE  budget' = Cardinality(left')
  <2>1. budget = Cardinality(left)
    BY <1>1, <1>7 DEF Accounts
  <2> QED
    BY <2>1, <1>1, <1>4
<1>8. Accounts'
  BY <1>1, <1>2, <1>3, <1>6, <1>7 DEF Accounts, N
<1>9. GivesUpOnlyWhenExhausted'
  BY <1>1 DEF GivesUpOnlyWhenExhausted
<1> QED
  BY <1>8, <1>9 DEF AInv

\* After an overflow, what is not larger is too small, and the counter starts anew.
LEMMA LargerAccounts ==
  ASSUME IInv, Accounts, NEW after \in BOOLEAN, FailAndGoLarger(after)
  PROVE  AInv'
<1> DEFINE L == Len(tried)
<1>1. /\ Running /\ Log("ContextLength", after) /\ UNCHANGED config
      /\ mode = "send"
      /\ budget' = Cardinality(left')
      /\ outcome' = IF left' = {} THEN "error" ELSE "running"
  BY DEF FailAndGoLarger
<1>2. PICK c \in FailedContexts(Ref(Current)) : left' = LargerContext(c, left \ {Current})
  BY DEF FailAndGoLarger
<1>3. /\ mode' = mode /\ candidates' = candidates /\ maxAttempts' = maxAttempts
  BY <1>1 DEF config
<1>4. "ContextLength" \in Whats
  BY KindsAssumption DEF Whats
<1>5. /\ Len(tried') = L + 1
      /\ tried'[L + 1] = Entry(Current, "ContextLength", after)
      /\ \A p \in 1..Len(candidates) :
           p \in left \ {Current} \/ WasTried(p)' \/ IsTooSmall(p)'
      /\ L + 1 \in Overflows'
      /\ ~(mode = "send" /\ maxAttempts < 0)
  BY <1>1, <1>4, AttemptAccounts
<1>6. /\ Current \in 1..Len(candidates)
      /\ \A q \in left : Current <= q
      /\ left \subseteq 1..Len(candidates)
      /\ Len(candidates) \in Nat
  BY <1>1, LeftProperties DEF IInv, TypeOK
<1>7. tried'[L + 1].at = Current
  BY <1>5 DEF Entry
<1> HIDE DEF Current, L
<1>8. ASSUME NEW p \in left \ {Current}, p \notin left'
      PROVE  IsTooSmall(p)'
  <2>1. Current < p
    BY <1>6
  <2>2. p \notin LargerContext(c, {p})
    BY <1>2, <1>8 DEF LargerContext
  <2>3. c \in FailedContexts(candidates'[tried'[L + 1].at])
    BY <1>3, <1>7 DEF Ref
  <2>4. (p \notin LargerContext(c, {p}))'
    BY <2>2, <1>3 DEF LargerContext, Ref
  <2> QED
    BY <1>5, <1>7, <2>1, <2>3, <2>4 DEF IsTooSmall, Ref, FailedContexts
<1>9. \A p \in 1..Len(candidates) : p \in left' \/ WasTried(p)' \/ IsTooSmall(p)'
  BY <1>5, <1>8
<1>10. Accounts'
  BY <1>1, <1>3, <1>5, <1>9 DEF Accounts
<1>11. GivesUpOnlyWhenExhausted'
  <2>1. ASSUME outcome' = "error"
        PROVE  \A p \in 1..Len(candidates') : WasTried(p)' \/ IsTooSmall(p)'
    BY <2>1, <1>1, <1>3, <1>9
  <2> QED
    BY <2>1 DEF GivesUpOnlyWhenExhausted, WasTried, IsTooSmall
<1> QED
  BY <1>10, <1>11 DEF AInv

\* At the end of the loop nothing is ahead, or the cap was reached.
LEMMA ExhaustedAccounts ==
  ASSUME IInv, Accounts, Exhausted
  PROVE  AInv'
<1> DEFINE N == Len(candidates)
           L == Len(tried)
<1>1. /\ outcome = "running" /\ budget <= 0
      /\ UNCHANGED <<config, left, budget, tried>>
      /\ outcome' # "running"
  BY DEF Exhausted, Finish
<1>2. /\ mode' = mode /\ candidates' = candidates /\ maxAttempts' = maxAttempts
      /\ fallbackOn' = fallbackOn /\ tried' = tried
  BY <1>1 DEF config
<1>3. /\ N \in Nat /\ L \in Nat /\ IsFiniteSet(left) /\ Cardinality(left) \in Nat
      /\ maxAttempts \in Int /\ budget \in Int /\ mode \in {"send", "stream"}
  <2>1. tried \in Seq(TriedEntry)
    BY DEF IInv, TypeOK, TriedEntry
  <2>2. L \in Nat
    BY <2>1, LenProperties
  <2> QED
    BY <2>2, LeftProperties DEF IInv, TypeOK
<1>4. \A p \in 1..N : p \in left \/ WasTried(p) \/ IsTooSmall(p)
  BY <1>1 DEF Accounts
<1>5. ASSUME tried # << >>
      PROVE  \/ mode = "send" /\ Overflows = {} /\ L = maxAttempts
             \/ left = {}
  <2>1. ASSUME Cardinality(left) <= 0
        PROVE  left = {}
    <3>1. Cardinality(left) = 0
      BY <1>3, <2>1
    <3> QED
      BY <1>3, <3>1, FS_EmptySet
  <2>2. CASE Overflows # {}
    <3>1. budget = Cardinality(left)
      BY <1>1, <2>2 DEF Accounts
    <3> QED
      BY <1>1, <2>1, <3>1
  <2>3. CASE Overflows = {}
    <3>1. budget = Budget(maxAttempts, mode, N) - L /\ Cardinality(left) = N - L
      BY <1>1, <2>3 DEF Accounts
    <3>2. ~(mode = "send" /\ maxAttempts < 0)
      BY <1>1, <1>5 DEF Accounts
    <3> HIDE DEF N, L
    <3>3. CASE Budget(maxAttempts, mode, N) = N
      BY <1>1, <1>3, <2>1, <3>1, <3>3
    <3>4. CASE Budget(maxAttempts, mode, N) # N
      <4>1. mode = "send" /\ maxAttempts # 0 /\ Budget(maxAttempts, mode, N) = maxAttempts
        BY <1>3, <3>4 DEF Budget
      <4>2. maxAttempts > 0
        BY <1>3, <3>2, <4>1
      <4>3. L <= maxAttempts
        BY <2>3, <4>1, <4>2 DEF IInv, Counting, L
      <4>4. maxAttempts - L <= 0
        BY <1>1, <3>1, <4>1
      <4>5. L = maxAttempts
        BY <1>3, <4>3, <4>4
      <4> QED
        BY <2>3, <4>1, <4>5
    <3> QED
      BY <3>3, <3>4
  <2> QED
    BY <2>2, <2>3
<1>6. Overflows' = Overflows
  BY <1>2 DEF Overflows
<1>7. GivesUpOnlyWhenExhausted'
  <2>1. ASSUME tried # << >>
        PROVE  \/ (mode = "send" /\ Overflows = {} /\ Len(tried) = maxAttempts)'
               \/ (\A p \in 1..Len(candidates) : WasTried(p) \/ IsTooSmall(p))'
    <3>1. CASE mode = "send" /\ Overflows = {} /\ L = maxAttempts
      BY <3>1, <1>2, <1>6
    <3>2. CASE left = {}
      <4>1. \A p \in 1..N : WasTried(p) \/ IsTooSmall(p)
        BY <1>4, <3>2
      <4>2. ASSUME NEW p \in 1..N, WasTried(p)
            PROVE  WasTried(p)'
        BY <1>2, <4>2 DEF WasTried
      <4>3. ASSUME NEW p \in 1..N, IsTooSmall(p)
            PROVE  IsTooSmall(p)'
        BY <1>2, <1>6, <4>3 DEF IsTooSmall, FailedContexts, LargerContext, Ref
      <4> QED
        BY <4>1, <4>2, <4>3, <1>2
    <3> QED
      BY <2>1, <3>1, <3>2, <1>5
  <2> QED
    BY <2>1, <1>2 DEF GivesUpOnlyWhenExhausted, WasTried, IsTooSmall
<1> QED
  BY <1>1, <1>7 DEF AInv, Accounts

\* Every step keeps the accounts; the loop ends with an error that may be followed by
\* another attempt in two ways only, with a list that has nothing left and when it is over.
LEMMA AccountsStep == IInv /\ AInv /\ [Next]_vars => AInv'
<1> SUFFICES ASSUME IInv, AInv, [Next]_vars
             PROVE  AInv'
  OBVIOUS
<1>1. Accounts
  BY DEF AInv
<1>2. CASE SkipUnregistered
  <2>1. Running /\ Advance /\ Log("unregistered", FALSE)
    BY <1>2 DEF SkipUnregistered
  <2>2. "unregistered" \in Whats /\ "unregistered" # "ContextLength"
    BY KindsAssumption DEF Whats
  <2> QED
    BY <1>1, <2>1, <2>2, AdvanceAccounts
<1>3. CASE Reply
  BY <1>3 DEF Reply, Finish, AInv, Accounts, GivesUpOnlyWhenExhausted
<1>4. ASSUME NEW what \in Kinds \cup {NotTyped}, NEW after \in BOOLEAN,
             FailAndHalt(what, after)
      PROVE  AInv'
  <2>1. /\ Running /\ Log(what, after) /\ Halts(what, after)
        /\ UNCHANGED config /\ outcome' = "error"
    BY <1>4 DEF FailAndHalt, Finish
  <2>2. what \in Whats /\ what # "unregistered"
    BY KindsAssumption DEF Whats, NotTyped
  <2>3. /\ Len(tried') = Len(tried) + 1
        /\ tried'[Len(tried) + 1] = Entry(Current, what, after)
    BY <1>1, <2>1, <2>2, AttemptAccounts
  <2>4. tried'[Len(tried')] = Entry(Current, what, after)
    BY <2>3
  <2>5. mode' = mode /\ fallbackOn' = fallbackOn
    BY <2>1 DEF config
  <2>6. ~GoesOn(tried[Len(tried)])'
    BY <2>1, <2>2, <2>4, <2>5 DEF GoesOn, Entry, Halts, ShouldFallback
  <2>7. GivesUpOnlyWhenExhausted'
    BY <2>6 DEF GivesUpOnlyWhenExhausted
  <2> QED
    BY <2>1, <2>7 DEF AInv, Accounts
<1>5. ASSUME NEW what \in Kinds \cup {NotTyped}, NEW after \in BOOLEAN,
             FailAndAdvance(what, after)
      PROVE  AInv'
  <2>1. /\ Running /\ Log(what, after) /\ Advance
        /\ ~(mode = "send" /\ what = "ContextLength")
    BY <1>5 DEF FailAndAdvance
  <2> QED
    BY <1>1, <2>1, AdvanceAccounts DEF Whats
<1>6. ASSUME NEW after \in BOOLEAN, FailAndGoLarger(after)
      PROVE  AInv'
  BY <1>1, <1>6, LargerAccounts
<1>7. CASE Exhausted
  BY <1>1, <1>7, ExhaustedAccounts
<1>8. CASE UNCHANGED vars
  <2>1. /\ UNCHANGED <<left, budget, tried, outcome, mode, candidates, maxAttempts, fallbackOn>>
    BY <1>8 DEF vars, config
  <2>2. /\ Overflows' = Overflows
        /\ \A n : Ref(tried[n].at)' = Ref(tried[n].at)
    BY <2>1 DEF Overflows, Ref
  <2>3. \A p : WasTried(p)' = WasTried(p) /\ IsTooSmall(p)' = IsTooSmall(p)
    BY <2>1, <2>2 DEF WasTried, IsTooSmall, FailedContexts, LargerContext, Ref
  <2>4. Accounts'
    BY <2>1, <2>2, <2>3 DEF AInv, Accounts
  <2>5. GoesOn(tried[Len(tried)])' <=> GoesOn(tried[Len(tried)])
    BY <2>1 DEF GoesOn, Halts, ShouldFallback
  <2>6. (\A p \in 1..Len(candidates) : WasTried(p) \/ IsTooSmall(p))'
          <=> \A p \in 1..Len(candidates) : WasTried(p) \/ IsTooSmall(p)
    BY <2>1, <2>3
  <2>7. GivesUpOnlyWhenExhausted' <=> GivesUpOnlyWhenExhausted
    BY <2>1, <2>2, <2>5, <2>6 DEF GivesUpOnlyWhenExhausted, WasTried, IsTooSmall
  <2> QED
    BY <2>4, <2>7 DEF AInv
<1> QED
  BY <1>2, <1>3, <1>4, <1>5, <1>6, <1>7, <1>8 DEF Next

\* Initially every candidate is ahead.
LEMMA AccountsInit == Init => AInv
<1> SUFFICES ASSUME Init
             PROVE  AInv
  OBVIOUS
<1>1. candidates \in Seq(Refs)
  BY ListsAssumption DEF Init
<1>2. Len(candidates) \in Nat
  BY <1>1, LenProperties
<1>3. Cardinality(left) = Len(candidates)
  BY <1>2, FS_Interval DEF Init
<1>4. tried = << >> /\ Len(tried) = 0 /\ Overflows = {} /\ outcome = "running"
  BY EmptySeq DEF Init, Overflows
<1>5. Budget(maxAttempts, mode, Len(candidates)) \in Int
  BY <1>2, BudgetProperties, ListsAssumption DEF Init
<1>6. Accounts
  BY <1>2, <1>3, <1>4, <1>5 DEF Accounts, Init
<1> QED
  BY <1>4, <1>6 DEF AInv, GivesUpOnlyWhenExhausted

\* Nobody is given an error that allowed another attempt while there was one to make.
THEOREM NoCandidateForgotten == Spec => []GivesUpOnlyWhenExhausted
<1>1. AInv => GivesUpOnlyWhenExhausted
  BY DEF AInv
<1> QED
  BY <1>1, AccountsInit, AccountsStep, Invariance, PTL DEF Spec
===============================================================================
