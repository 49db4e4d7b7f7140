------------------------------- MODULE Fallback -------------------------------
(***************************************************************************)
(* The fallback executor of pkg/chat/harness.go: runSendFallback for Send  *)
(* and the handshake loop of Stream, over the candidates that the router   *)
(* picked.  A candidate is named by its position in that list, so the      *)
(* rest of the list the code slices and rewrites is a set of positions,    *)
(* taken lowest first.  What a provider answers is up to it.               *)
(***************************************************************************)
EXTENDS Integers, Sequences, FiniteSets

CONSTANTS
  Refs,          \* "provider:model" references
  ModelOf,       \* ModelOf[ref]: the model name in ref, which providers put in their errors
  Registered,    \* the refs whose provider is registered with the harness
  Catalogued,    \* the refs that the catalog has an entry for
  ContextOf,     \* ContextOf[ref]: ContextTokens of a catalogued ref, 0 = unknown
  Kinds,         \* error kinds that a ProviderError may have
  Policies,      \* candidate lists that the router may return
  AttemptCaps    \* FallbackPolicy.MaxAttempts as configured; no sign is checked

NotTyped == "notAProviderError"  \* an error that is no *ProviderError
ASSUME RefsAssumption == /\ Registered \subseteq Refs
                         /\ Catalogued \subseteq Refs
                         /\ ContextOf \in [Catalogued -> Nat]
ASSUME ListsAssumption == Policies \subseteq Seq(Refs) /\ AttemptCaps \subseteq Int
ASSUME KindsAssumption == "ContextLength" \in Kinds
                            /\ Kinds \cap {NotTyped, "unregistered", "reply"} = {}

VARIABLES
  mode,          \* "send" or "stream"
  candidates,    \* the router's list
  maxAttempts,   \* FallbackPolicy.MaxAttempts
  fallbackOn,    \* FallbackPolicy.FallbackOnKinds
  left,          \* positions still in the loop's list and not reached yet
  budget,        \* iterations that the loop condition i < max still allows
  tried,         \* what each iteration came to, in order; Send returns it as Attempts
  outcome        \* "running", or what the caller gets

config == <<mode, candidates, maxAttempts, fallbackOn>>
vars   == <<config, left, budget, tried, outcome>>

-------------------------------------------------------------------------------
Next1(S) == CHOOSE p \in S : \A q \in S : p <= q

Running == outcome = "running" /\ budget > 0
Current == Next1(left)
Ref(p)  == candidates[p]

\* One entry of tried: the position, how it ended, and whether bytes had been emitted.
Entry(p, what, after) == [at |-> p, what |-> what, after |-> after]

\* Mutants: i <= max, i < max - 1, and a MaxAttempts of 0 taken as it is.
BudgetOneMore(m, md, n) == IF md = "stream" \/ m = 0 \/ m >= n THEN n ELSE m + 1
BudgetOneLess(m, md, n) == IF md = "stream" \/ m = 0 \/ m > n THEN n ELSE m - 1
BudgetZeroKept(m, md, n) == IF md = "stream" \/ m > n THEN n ELSE m

\* max := MaxAttempts, unless it is 0 or longer than the list; Stream has no cap.
Budget(m, md, n) == IF md = "stream" \/ m = 0 \/ m > n THEN n ELSE m

\* shouldFallback: the kind of a ProviderError decides, any other error halts.
ShouldFallback(what) == what \in fallbackOn

\* The catalog's models that have the name of ref, whoever provides them.
Namesakes(ref) == {q \in Catalogued : ModelOf[q] = ModelOf[ref]}

\* filterLargerContext takes the context of whichever namesake its walk over the map
\* meets first, and keeps what it knows nothing about.
FailedContexts(ref) ==
  IF Namesakes(ref) = {} THEN {0} ELSE {ContextOf[q] : q \in Namesakes(ref)}

\* Mutant: as large will do.
AsLargeContext(c, S) ==
  {p \in S : \/ c = 0
             \/ Ref(p) \notin Catalogued
             \/ ContextOf[Ref(p)] = 0
             \/ ContextOf[Ref(p)] >= c}

LargerContext(c, S) ==
  {p \in S : \/ c = 0
             \/ Ref(p) \notin Catalogued
             \/ ContextOf[Ref(p)] = 0
             \/ ContextOf[Ref(p)] > c}

Finish(how) == outcome' = how /\ UNCHANGED <<config, left, budget>>

\* i++ and on to the next candidate.
Advance == /\ left' = left \ {Current}
           /\ budget' = budget - 1
           /\ UNCHANGED <<config, outcome>>

\* Mutant: positions from 0.
LogFromZero(what, after) == tried' = Append(tried, Entry(Current - 1, what, after))

Log(what, after) == tried' = Append(tried, Entry(Current, what, after))

-------------------------------------------------------------------------------
(* One iteration of the loop. *)

\* The provider of the candidate is not registered: noted, and on to the next one,
\* whatever FallbackOnKinds says.
SkipUnregistered ==
  /\ Running
  /\ Ref(Current) \notin Registered
  /\ Log("unregistered", FALSE)
  /\ Advance

\* Mutant: the loop goes on after a reply.
ReplyAndGoOn ==
  /\ Running
  /\ Ref(Current) \in Registered
  /\ Log("reply", FALSE)
  /\ Advance

\* The provider answers; of Stream, this is the handshake only.
Reply ==
  /\ Running
  /\ Ref(Current) \in Registered
  /\ Log("reply", FALSE)
  /\ Finish("reply")

\* Mutant: AfterOutput is not looked at.
HaltsOnKindOnly(what, after) == ~ShouldFallback(what)

\* An error that must not be followed by another attempt.
Halts(what, after) == (mode = "send" /\ after) \/ ~ShouldFallback(what)

FailAndHalt(what, after) ==
  /\ Running
  /\ Ref(Current) \in Registered
  /\ Halts(what, after)
  /\ Log(what, after)
  /\ Finish("error")

FailAndAdvance(what, after) ==
  /\ Running
  /\ Ref(Current) \in Registered
  /\ ~Halts(what, after)
  /\ mode = "stream" \/ what # "ContextLength"
  /\ Log(what, after)
  /\ Advance

\* Mutants: the list is rewritten but not max; the whole list is filtered, not its rest.
GoLargerKeepingMax(after) ==
  /\ Running
  /\ mode = "send"
  /\ Ref(Current) \in Registered
  /\ ~Halts("ContextLength", after)
  /\ Log("ContextLength", after)
  /\ \E c \in FailedContexts(Ref(Current)) :
       left' = LargerContext(c, left \ {Current})
  /\ outcome' = IF left' = {} THEN "error" ELSE "running"
  /\ UNCHANGED <<config, budget>>

GoLargerFromTheTop(after) ==
  /\ Running
  /\ mode = "send"
  /\ Ref(Current) \in Registered
  /\ ~Halts("ContextLength", after)
  /\ Log("ContextLength", after)
  /\ \E c \in FailedContexts(Ref(Current)) :
       left' = LargerContext(c, (1..Len(candidates)) \ {Current})
  /\ budget' = Cardinality(left')
  /\ outcome' = IF left' = {} THEN "error" ELSE "running"
  /\ UNCHANGED config

\* Send, ContextLength: the list becomes what is larger of the rest, and max its length.
FailAndGoLarger(after) ==
  /\ Running
  /\ mode = "send"
  /\ Ref(Current) \in Registered
  /\ ~Halts("ContextLength", after)
  /\ Log("ContextLength", after)
  /\ \E c \in FailedContexts(Ref(Current)) :
       left' = LargerContext(c, left \ {Current})
  /\ budget' = Cardinality(left')
  /\ outcome' = IF left' = {} THEN "error" ELSE "running"
  /\ UNCHANGED config

\* Mutant: the loop is over when the counter meets max.
ExhaustedAtZero ==
  /\ outcome = "running"
  /\ budget = 0
  /\ Finish(IF mode = "send" /\ tried = << >> THEN "nilError" ELSE "error")
  /\ UNCHANGED tried

\* Mutant: a candidate that is skipped leaves no error behind.
ExhaustedForgettingSkips ==
  /\ outcome = "running"
  /\ budget <= 0
  /\ Finish(IF mode = "send" /\ (tried = << >> \/ tried[Len(tried)].what = "unregistered")
            THEN "nilError" ELSE "error")
  /\ UNCHANGED tried

\* The loop is over: Send returns the last error, which is nil when there was none;
\* Stream says that all candidates failed.
Exhausted ==
  /\ outcome = "running"
  /\ budget <= 0
  /\ Finish(IF mode = "send" /\ tried = << >> THEN "nilError" ELSE "error")
  /\ UNCHANGED tried

-------------------------------------------------------------------------------
Init ==
  /\ mode \in {"send", "stream"}
  /\ candidates \in Policies
  /\ candidates # << >>
  /\ maxAttempts \in AttemptCaps
  /\ fallbackOn \in SUBSET Kinds
  /\ left = 1..Len(candidates)
  /\ budget = Budget(maxAttempts, mode, Len(candidates))
  /\ tried = << >>
  /\ outcome = "running"

Next ==
  \/ SkipUnregistered
  \/ Reply
  \/ \E what \in Kinds \cup {NotTyped}, after \in BOOLEAN :
       FailAndHalt(what, after) \/ FailAndAdvance(what, after)
  \/ \E after \in BOOLEAN : FailAndGoLarger(after)
  \/ Exhausted

\* The executor is one goroutine, and every provider call returns: the client's
\* context or the per-attempt timeout ends it otherwise.
Spec == Init /\ [][Next]_vars /\ WF_vars(Next)

-------------------------------------------------------------------------------
(* Properties. *)

Whats == Kinds \cup {NotTyped, "unregistered", "reply"}

TypeOK ==
  /\ mode \in {"send", "stream"}
  /\ candidates \in Seq(Refs) \ {<< >>}
  /\ maxAttempts \in Int
  /\ fallbackOn \subseteq Kinds
  /\ left \subseteq 1..Len(candidates)
  /\ budget \in Int
  /\ tried \in Seq([at : 1..Len(candidates), what : Whats, after : BOOLEAN])
  /\ outcome \in {"running", "reply", "error", "nilError"}

\* candidates[i] never reads past the list, also after the list and max were
\* rewritten in the middle of the loop.
LoopInBounds == outcome = "running" => budget <= Cardinality(left)

\* No candidate is tried twice, and none out of the policy's order, also after the
\* restart of the loop with i = -1.
TriedInOrder ==
  /\ \A m, n \in 1..Len(tried) : m < n => tried[m].at < tried[n].at
  /\ \A n \in 1..Len(tried), p \in left :
       (outcome = "running" \/ n < Len(tried)) => tried[n].at < p

\* A further candidate is tried only after failures that allow it: of a listed kind
\* and, for Send, with no output emitted; or where nothing was sent at all.
FallbackOnlyWhereAllowed ==
  \A n \in 1..Len(tried) :
    n < Len(tried) \/ outcome = "running" =>
      \/ tried[n].what = "unregistered"
      \/ /\ tried[n].what \in fallbackOn
         /\ ~(mode = "send" /\ tried[n].after)

\* A reply is the caller's exactly when the last attempt was one: no success is
\* dropped for a later candidate, none is made up.
ReplyIsTheLastAttempt ==
  /\ \A n \in 1..Len(tried) : tried[n].what = "reply" => n = Len(tried) /\ outcome = "reply"
  /\ outcome = "reply" => tried # << >> /\ tried[Len(tried)].what = "reply"

\* After a ContextLength failure Send only tries models with a context larger than the
\* failed one's, or of unknown size.  Providers put the model's name, not the provider's,
\* into the failure, so where several models share it the context is one of theirs.
LargerContextAfterOverflow ==
  mode = "send" =>
    \A m, n \in 1..Len(tried) :
      LET failed == Ref(tried[m].at)
          later  == Ref(tried[n].at)
      IN  /\ m < n
          /\ tried[m].what = "ContextLength"
          /\ Namesakes(failed) # {} /\ later \in Catalogued
          => \/ ContextOf[later] = 0
             \/ \E q \in Namesakes(failed) :
                  ContextOf[q] = 0 \/ ContextOf[q] < ContextOf[later]

Overflows == {n \in 1..Len(tried) : mode = "send" /\ tried[n].what = "ContextLength"}

\* Send respects MaxAttempts as long as no attempt failed with ContextLength.
CapWithoutOverflow ==
  mode = "send" /\ maxAttempts > 0 /\ Overflows = {} => Len(tried) <= maxAttempts

\* Whoever gets an error that allowed another attempt had no candidate left: all were
\* tried, or the cap was reached, or what was not tried was too small.
GoesOn(e) == e.what = "unregistered" \/ ~Halts(e.what, e.after)

GivesUpOnlyWhenExhausted ==
  outcome = "error" /\ tried # << >> /\ GoesOn(tried[Len(tried)]) =>
    \/ mode = "send" /\ Overflows = {} /\ Len(tried) = maxAttempts
    \/ \A p \in 1..Len(candidates) :
         \/ \E n \in 1..Len(tried) : tried[n].at = p
         \/ \E n \in Overflows : \E c \in FailedContexts(Ref(tried[n].at)) :
              tried[n].at < p /\ p \notin LargerContext(c, {p})

\* A nil error without a reply is what a negative cap, and nothing else, leads to.
NilErrorOnlyForNegativeCap == outcome = "nilError" => maxAttempts < 0

\* Every request is answered, after no more attempts than there are candidates.
Terminates == <>(outcome # "running")

\* harness.go:39 says that MaxAttempts caps the number of candidates tried per
\* request; a ContextLength failure makes Send forget it.
AttemptsWithinCap == mode = "send" /\ maxAttempts > 0 => Len(tried) <= maxAttempts
===============================================================================
