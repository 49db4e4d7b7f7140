-------------------------- MODULE StreamReaders_proofs --------------------------
(***************************************************************************)
(* Proofs about StreamReaders, for any number of calls or blocks and of    *)
(* pieces of text and arguments.                                           *)
(***************************************************************************)
EXTENDS StreamReaders, FiniteSetTheorems, SequenceTheorems, TLAPS

(* The inductive invariant: what each reader's bookkeeping has to do with what the  *)
(* provider has sent and with the blocks that the consumer has seen.               *)

\* A message of blocks 0..n-1.
View(n) == [phase : {"none", "message", "stopped"}, blocks : [0..(n - 1) -> Block]]
Has(n)  == view \in View(n)

Open(i)     == view.blocks[i].open
Holds(i, k) == view.blocks[i].data = sent[k]

\* Every block of the provider is the consumer's of the same number; the last one is
\* open while the provider is in it.
AnthropicInv ==
  LET n == Cardinality(DOMAIN sent)
  IN  /\ acc = AnthropicAcc
      /\ n \in 0..MaxCalls
      /\ DOMAIN sent = {Of("block", i) : i \in 0..(n - 1)}
      /\ Has(n)
      /\ \A i \in 0..(n - 1) :
           /\ Holds(i, Of("block", i))
           /\ Open(i) <=> wire = "block" /\ i = n - 1
      /\ wire = "block" => n > 0
      /\ wire = "start" => n = 0
      /\ view.phase = CASE wire = "start"    -> "none"
                        [] wire = "finished" -> "stopped"
                        [] OTHER             -> "message"

\* The reader's bookkeeping.
OpenAIBook(callBlock) ==
  [started : BOOLEAN, textSeen : BOOLEAN, textOpen : BOOLEAN, textIndex : Nat,
   callBlock : {callBlock}, callOpen : SUBSET Calls, nextIndex : Nat]

\* Exactly the text and the calls that are noted were sent, each has its block, and all
\* blocks are open, and noted as open, until the message stops.
OpenAIInv ==
  /\ wire \in {"open", "finished"}
  /\ acc \in OpenAIBook(acc.callBlock)
  /\ DOMAIN acc.callBlock \subseteq Calls
  /\ acc.nextIndex = Cardinality(DOMAIN acc.callBlock) + (IF acc.textSeen THEN 1 ELSE 0)
  /\ DOMAIN sent = (IF acc.textSeen THEN {Of("text", 0)} ELSE {})
                     \cup {Of("call", i) : i \in DOMAIN acc.callBlock}
  /\ Has(acc.nextIndex)
  /\ NothingLostOrMixed
  /\ acc.textOpen <=> acc.textSeen /\ wire = "open"
  /\ acc.callOpen = IF wire = "open" THEN DOMAIN acc.callBlock ELSE {}
  /\ \A b \in DOMAIN view.blocks : Open(b) <=> wire = "open"
  /\ view.phase = IF wire = "finished" THEN "stopped"
                  ELSE IF acc.started THEN "message" ELSE "none"
  /\ ~acc.started => acc.nextIndex = 0
  /\ wire = "finished" => acc.started

\* The number of the first call's block: behind the text, if there was one.
Texts == IF Of("text", 0) \in DOMAIN sent THEN 1 ELSE 0

\* While the message lasts, there is at most the text; in the end, the calls behind it.
OllamaInv ==
  /\ wire \in {"open", "finished"}
  /\ acc \in [started : BOOLEAN, textOpen : BOOLEAN, nextIndex : 0..(MaxCalls + 1)]
  /\ Texts <= acc.nextIndex
  /\ acc.nextIndex - Texts <= MaxCalls
  /\ Has(acc.nextIndex)
  /\ DOMAIN sent = (IF Texts = 1 THEN {Of("text", 0)} ELSE {})
                     \cup {Of("call", i) : i \in 0..(acc.nextIndex - Texts - 1)}
  /\ Texts = 1 => Holds(0, Of("text", 0))
  /\ \A i \in 0..(acc.nextIndex - Texts - 1) : Holds(Texts + i, Of("call", i))
  /\ \A i \in DOMAIN view.blocks : Open(i) <=> wire = "open"
  /\ wire = "open" => acc.nextIndex = Texts /\ (acc.textOpen <=> Texts = 1)
  /\ wire = "finished" => ~acc.textOpen
  /\ view.phase = IF wire = "finished" THEN "stopped"
                  ELSE IF acc.started THEN "message" ELSE "none"
  /\ ~acc.started => acc.nextIndex = 0
  /\ wire = "finished" => acc.started

ReaderInv == /\ adapter = "anthropic" => AnthropicInv
             /\ adapter = "openai" => OpenAIInv
             /\ adapter = "ollama" => OllamaInv

\* The lifecycle, and the error at the end.
StateInv == /\ StateTellsTheMessage
            /\ AfterOutputMidMessage
            /\ ~done => err = "none" /\ state \in DOMAIN Rank
            /\ view.phase = "none" => ~Emitted

IInv == /\ TypeOK
        /\ ReaderInv
        /\ StateInv

-------------------------------------------------------------------------------
(* The consumer's operations. *)

\* A message whose blocks were replaced.
LEMMA WithBlocks ==
  ASSUME NEW n \in Nat, NEW v \in View(n), NEW B
  PROVE  [v EXCEPT !.blocks = B] = [phase |-> v.phase, blocks |-> B]
BY DEF View

\* A block whose data was.
LEMMA WithData ==
  ASSUME NEW b \in Block, NEW d \in Seq(Nat)
  PROVE  /\ [b EXCEPT !.data = d] \in Block
         /\ [b EXCEPT !.data = d].open = b.open
         /\ [b EXCEPT !.data = d].data = d
BY DEF Block

\* A block that starts at the next index is the last one, open and empty.
LEMMA BlockStarts ==
  ASSUME NEW n \in Nat, NEW v \in View(n)
  PROVE  /\ BlockStart(v, n) \in View(n + 1)
         /\ BlockStart(v, n).phase = v.phase
         /\ BlockStart(v, n).blocks[n] = [open |-> TRUE, data |-> << >>]
         /\ \A j \in 0..(n - 1) : BlockStart(v, n).blocks[j] = v.blocks[j]
<1> DEFINE B == [j \in DOMAIN v.blocks \cup {n} |->
                   IF j = n THEN [open |-> TRUE, data |-> << >>] ELSE v.blocks[j]]
<1>1. v.blocks \in [0..(n - 1) -> Block] /\ v.phase \in {"none", "message", "stopped"}
  BY DEF View
<1>2. (DOMAIN v.blocks) \cup {n} = 0..((n + 1) - 1)
  BY <1>1
<1>3. [open |-> TRUE, data |-> << >>] \in Block
  BY DEF Block
<1>4. B \in [0..((n + 1) - 1) -> Block]
  BY <1>1, <1>2, <1>3
<1>5. B[n] = [open |-> TRUE, data |-> << >>] /\ \A j \in 0..(n - 1) : B[j] = v.blocks[j]
  BY <1>1
<1>6. BlockStart(v, n) = [v EXCEPT !.blocks = B]
  BY DEF BlockStart
<1> HIDE DEF B
<1>7. BlockStart(v, n) = [phase |-> v.phase, blocks |-> B]
  BY <1>6, WithBlocks
<1> QED
  BY <1>1, <1>4, <1>5, <1>7 DEF View

\* A delta adds its piece to one block and changes no other.
LEMMA BlockGrows ==
  ASSUME NEW n \in Nat, NEW v \in View(n), NEW i \in 0..(n - 1), NEW piece \in Nat
  PROVE  /\ BlockDelta(v, i, piece) \in View(n)
         /\ BlockDelta(v, i, piece).phase = v.phase
         /\ BlockDelta(v, i, piece).blocks[i].open = v.blocks[i].open
         /\ BlockDelta(v, i, piece).blocks[i].data = Append(v.blocks[i].data, piece)
         /\ \A j \in 0..(n - 1) : j # i => BlockDelta(v, i, piece).blocks[j] = v.blocks[j]
<1> DEFINE G == [v.blocks[i] EXCEPT !.data = Append(@, piece)]
           B == [j \in DOMAIN v.blocks |-> IF j = i THEN [v.blocks[j] EXCEPT !.data = Append(@, piece)]
                                                    ELSE v.blocks[j]]
<1>1. v.blocks \in [0..(n - 1) -> Block] /\ v.phase \in {"none", "message", "stopped"}
  BY DEF View
<1>2. /\ G \in Block
      /\ G.open = v.blocks[i].open
      /\ G.data = Append(v.blocks[i].data, piece)
  <2>1. v.blocks[i] \in Block
    BY <1>1
  <2>2. Append(v.blocks[i].data, piece) \in Seq(Nat)
    BY <2>1 DEF Block
  <2> QED
    BY <2>1, <2>2, WithData
<1>3. /\ B \in [0..(n - 1) -> Block]
      /\ B[i] = G
      /\ \A j \in 0..(n - 1) : j # i => B[j] = v.blocks[j]
  <2>1. /\ DOMAIN B = 0..(n - 1)
        /\ B[i] = G
        /\ \A j \in 0..(n - 1) : j # i => B[j] = v.blocks[j]
    BY <1>1
  <2>2. \A j \in 0..(n - 1) : B[j] \in Block
    BY <1>1, <1>2, <2>1
  <2> QED
    BY <2>1, <2>2
<1>4. BlockDelta(v, i, piece) = [v EXCEPT !.blocks = B]
  BY DEF BlockDelta
<1> HIDE DEF B, G
<1>5. BlockDelta(v, i, piece) = [phase |-> v.phase, blocks |-> B]
  BY <1>4, WithBlocks
<1> QED
  BY <1>1, <1>2, <1>3, <1>5 DEF View

\* Blocks that stop keep their data; the others are as before.
LEMMA BlocksClose ==
  ASSUME NEW n \in Nat, NEW v \in View(n), NEW S
  PROVE  /\ BlocksStop(v, S) \in View(n)
         /\ BlocksStop(v, S).phase = v.phase
         /\ \A j \in 0..(n - 1) :
              /\ BlocksStop(v, S).blocks[j].data = v.blocks[j].data
              /\ BlocksStop(v, S).blocks[j].open <=> v.blocks[j].open /\ j \notin S
              /\ j \notin S => BlocksStop(v, S).blocks[j] = v.blocks[j]
<1> DEFINE G(j) == [v.blocks[j] EXCEPT !.open = FALSE]
           B == [j \in DOMAIN v.blocks |-> IF j \in S THEN [v.blocks[j] EXCEPT !.open = FALSE]
                                                      ELSE v.blocks[j]]
<1>1. v.blocks \in [0..(n - 1) -> Block] /\ v.phase \in {"none", "message", "stopped"}
  BY DEF View
<1>2. \A j \in 0..(n - 1) : /\ G(j) \in Block
                            /\ G(j).open = FALSE
                            /\ G(j).data = v.blocks[j].data
  BY <1>1 DEF Block
<1>3. /\ DOMAIN B = 0..(n - 1)
      /\ \A j \in 0..(n - 1) : B[j] = IF j \in S THEN G(j) ELSE v.blocks[j]
  BY <1>1
<1>4. BlocksStop(v, S) = [v EXCEPT !.blocks = B]
  BY DEF BlocksStop
<1>5. B = [j \in DOMAIN B |-> B[j]]
  OBVIOUS
<1> HIDE DEF B, G
<1>6. \A j \in 0..(n - 1) : B[j] \in Block
  BY <1>1, <1>2, <1>3
<1>7. B \in [0..(n - 1) -> Block]
  BY <1>3, <1>5, <1>6
<1>8. BlocksStop(v, S) = [phase |-> v.phase, blocks |-> B]
  BY <1>4, WithBlocks
<1> QED
  BY <1>1, <1>2, <1>3, <1>7, <1>8 DEF View

\* The message starts without blocks, and stops with those it has.
LEMMA MessageFrame ==
  /\ \A v : MessageStart(v) \in View(0) /\ MessageStart(v).phase = "message"
  /\ NoMessage \in View(0) /\ NoMessage.phase = "none" /\ NoMessage.blocks = << >>
  /\ \A n \in Nat : \A v \in View(n) : /\ MessageStop(v) \in View(n)
                                       /\ MessageStop(v).phase = "stopped"
                                       /\ MessageStop(v).blocks = v.blocks
<1>1. << >> \in [0..(0 - 1) -> Block]
  <2>1. 0..(0 - 1) = {} /\ DOMAIN << >> = {}
    OBVIOUS
  <2> QED
    BY <2>1
<1> QED
  BY <1>1 DEF MessageStart, NoMessage, MessageStop, View

-------------------------------------------------------------------------------
(* The provider's. *)

Pieces == 0..(pieces - 1)

\* Sequences over a set are sequences over a larger one.
LEMMA SeqGrows ==
  ASSUME NEW S, NEW T, S \subseteq T, NEW s \in Seq(S)
  PROVE  s \in Seq(T)
<1>1. s \in [1..Len(s) -> S] /\ Len(s) \in Nat
  OBVIOUS
<1>2. s \in [1..Len(s) -> T]
  BY <1>1
<1>3. s = [i \in 1..Len(s) |-> s[i]] /\ \A i \in 1..Len(s) : s[i] \in T
  BY <1>2
<1> QED
  BY <1>1, <1>3, IsASeq

\* What was announced is sent of, from the first piece on.
LEMMA SentProperties ==
  ASSUME NEW k, \A x \in DOMAIN sent : sent[x] \in Seq(Pieces), pieces \in 0..MaxPieces
  PROVE  /\ SentOf(k) \in Seq(Pieces)
         /\ k \in DOMAIN sent => SentOf(k) = sent[k]
         /\ k \notin DOMAIN sent => SentOf(k) = << >>
BY DEF SentOf

\* One more piece of k.
LEMMA SendsProperties ==
  ASSUME NEW k, \A x \in DOMAIN sent : sent[x] \in Seq(Pieces), pieces \in 0..MaxPieces,
         Sends(k)
  PROVE  /\ DOMAIN sent' = DOMAIN sent \cup {k}
         /\ sent'[k] = Append(SentOf(k), pieces)
         /\ \A x \in DOMAIN sent : x # k => sent'[x] = sent[x]
         /\ pieces' \in 0..MaxPieces
         /\ \A x \in DOMAIN sent' : sent'[x] \in Seq(0..(pieces' - 1))
<1>1. /\ DOMAIN sent' = DOMAIN sent \cup {k}
      /\ sent'[k] = Append(SentOf(k), pieces)
      /\ \A x \in DOMAIN sent : x # k => sent'[x] = sent[x]
      /\ pieces' = pieces + 1 /\ pieces' \in 0..MaxPieces
  BY BoundAssumption DEF Sends, SentAs
<1>2. Pieces \subseteq 0..(pieces' - 1) /\ pieces \in 0..(pieces' - 1)
  BY <1>1 DEF Pieces
<1>3. SentOf(k) \in Seq(0..(pieces' - 1))
  BY <1>2, SentProperties, SeqGrows
<1>4. sent'[k] \in Seq(0..(pieces' - 1))
  BY <1>1, <1>2, <1>3
<1>5. \A x \in DOMAIN sent : sent[x] \in Seq(0..(pieces' - 1))
  BY <1>2, SeqGrows
<1> QED
  BY <1>1, <1>4, <1>5

\* A name, and no piece.
LEMMA AnnouncesProperties ==
  ASSUME NEW k, \A x \in DOMAIN sent : sent[x] \in Seq(Pieces), pieces \in 0..MaxPieces,
         Announces(k)
  PROVE  /\ DOMAIN sent' = DOMAIN sent \cup {k}
         /\ sent'[k] = SentOf(k)
         /\ \A x \in DOMAIN sent : x # k => sent'[x] = sent[x]
         /\ pieces' = pieces
         /\ \A x \in DOMAIN sent' : sent'[x] \in Seq(0..(pieces' - 1))
BY SentProperties DEF Announces, SentAs, Pieces

\* Blocks, calls and the text are told apart by kind and number.
LEMMA OfProperties ==
  /\ \A k, l, i, j : Of(k, i) = Of(l, j) => k = l /\ i = j
  /\ \A k, i : Of(k, i).kind = k /\ Of(k, i).at = i
BY DEF Of

-------------------------------------------------------------------------------
(* The lifecycle. *)

\* setState moves forward or not at all.
LEMMA RaisedProperties ==
  ASSUME state \in DOMAIN Rank
  PROVE  /\ Raised("provider_started") = IF state = "opened" THEN "provider_started" ELSE state
         /\ Raised("partial_output") = IF state = "completed" THEN "completed" ELSE "partial_output"
         /\ Raised("completed") = "completed"
BY DEF Raised, Rank

\* Nothing was emitted: the message has started, if it had not before.
LEMMA QuietState ==
  ASSUME IInv, ~done, UNCHANGED <<adapter, ending>>, view.phase # "stopped",
         view'.phase = "message", Emitted' <=> Emitted, state' = Raised("provider_started")
  PROVE  StateInv' /\ state' \in DOMAIN Rank
BY RaisedProperties DEF IInv, StateInv, StateTellsTheMessage, AfterOutputMidMessage,
     AfterOutputIfEmitted, ending, Rank, TypeOK

\* Something was.
LEMMA OutputState ==
  ASSUME IInv, ~done, UNCHANGED <<adapter, ending>>, view.phase # "stopped",
         view'.phase = "message", Emitted', state' = Raised("partial_output")
  PROVE  StateInv' /\ state' \in DOMAIN Rank
BY RaisedProperties DEF IInv, StateInv, StateTellsTheMessage, AfterOutputMidMessage,
     AfterOutputIfEmitted, ending, Rank, TypeOK

\* The message has stopped.
LEMMA StoppedState ==
  ASSUME IInv, ~done, UNCHANGED <<adapter, ending>>,
         view'.phase = "stopped", state' = Raised("completed")
  PROVE  StateInv' /\ state' \in DOMAIN Rank
BY RaisedProperties DEF IInv, StateInv, StateTellsTheMessage, AfterOutputMidMessage,
     AfterOutputIfEmitted, ending, Rank, TypeOK

\* The types, from what the reader's invariant says of the blocks.
LEMMA TypesOf ==
  ASSUME TypeOK, UNCHANGED <<adapter, ending>>, state' \in DOMAIN Rank,
         wire' \in {"start", "open", "block", "finished"},
         pieces' \in 0..MaxPieces,
         \A k \in DOMAIN sent' : sent'[k] \in Seq(0..(pieces' - 1)),
         NEW n \in 0..(MaxCalls + 1), view' \in View(n)
  PROVE  TypeOK'
BY DEF TypeOK, View, ending, Rank

-------------------------------------------------------------------------------
(* The Anthropic reader. *)

\* The blocks of the provider, counted.
LEMMA AnthropicBlocks ==
  ASSUME AnthropicInv
  PROVE  /\ IsFiniteSet(DOMAIN sent)
         /\ Cardinality(DOMAIN sent) \in Nat
         /\ Of("block", Cardinality(DOMAIN sent)) \notin DOMAIN sent
<1> DEFINE n == Cardinality(DOMAIN sent)
<1>1. n \in Nat
  BY DEF AnthropicInv
<1>2. IsFiniteSet(0..(n - 1))
  BY <1>1, FS_Interval
<1>3. IsFiniteSet({Of("block", i) : i \in 0..(n - 1)})
  <2> DEFINE S == 0..(n - 1)
             T == {Of("block", i) : i \in S}
             f == [i \in S |-> Of("block", i)]
  <2> HIDE DEF S
  <2>1. f \in Surjection(S, T)
    BY DEF Surjection
  <2> HIDE DEF f, T
  <2>2. IsFiniteSet(T)
    BY <1>2, <2>1, FS_Surjection DEF S
  <2> QED
    BY <2>2 DEF S, T
<1>4. DOMAIN sent = {Of("block", i) : i \in 0..(n - 1)}
  BY DEF AnthropicInv
<1> HIDE DEF n
<1>5. Of("block", n) \notin DOMAIN sent
  BY <1>1, <1>4, OfProperties
<1> QED
  BY <1>1, <1>3, <1>4, <1>5 DEF n

\* Every event of the provider keeps the invariant.
LEMMA AnthropicStep ==
  ASSUME IInv, adapter = "anthropic", AnthropicNext, ~AnthropicEnds
  PROVE  IInv'
<1> DEFINE n == Cardinality(DOMAIN sent)
<1> USE DEF Has, Open, Holds
<1>1. /\ AnthropicInv /\ TypeOK /\ StateInv
      /\ n \in Nat /\ n <= MaxCalls /\ MaxCalls \in Nat
      /\ view \in View(n)
      /\ IsFiniteSet(DOMAIN sent)
      /\ pieces \in 0..MaxPieces /\ MaxPieces \in Nat
      /\ \A x \in DOMAIN sent : sent[x] \in Seq(Pieces)
      /\ Of("block", n) \notin DOMAIN sent
  BY AnthropicBlocks, BoundAssumption DEF IInv, ReaderInv, AnthropicInv, TypeOK, Pieces
<1>2. ~done /\ UNCHANGED <<adapter, ending, acc>>
  BY DEF AnthropicNext, AnthropicStart, AnthropicBlockStart, AnthropicBlockDelta,
         AnthropicBlockStop, AnthropicStop, AnthropicTalks, Reads
<1>3. SUFFICES AnthropicInv' /\ TypeOK' /\ StateInv'
  BY <1>2 DEF IInv, ReaderInv
<1>4. CASE AnthropicStart
  <2>1. /\ wire = "start" /\ wire' = "open"
        /\ UNCHANGED <<sent, pieces>>
        /\ view' = MessageStart(view)
        /\ state' = Raised("provider_started")
    BY <1>4 DEF AnthropicStart, AnthropicTalks, sending
  <2>2. n = 0 /\ view.phase = "none"
    BY <1>1, <2>1 DEF AnthropicInv
  <2>3. view' \in View(0) /\ view'.phase = "message"
    BY <2>1, MessageFrame
  <2>4. AnthropicInv'
    BY <1>1, <1>2, <2>1, <2>2, <2>3 DEF AnthropicInv
  <2>5. ~Emitted /\ ~Emitted'
    BY <1>1, <2>2, <2>3 DEF Emitted, View
  <2>6. StateInv' /\ state' \in DOMAIN Rank
    BY <1>2, <2>1, <2>2, <2>3, <2>5, QuietState
  <2>7. TypeOK'
    BY <1>1, <1>2, <2>1, <2>3, <2>6, TypesOf DEF Pieces
  <2> QED
    BY <2>4, <2>6, <2>7
<1>5. CASE AnthropicBlockStart
  <2>1. /\ wire = "open" /\ wire' = "block"
        /\ n < MaxCalls
        /\ Announces(Of("block", n))
        /\ view' = BlockStart(view, n)
        /\ UNCHANGED state
    BY <1>5 DEF AnthropicBlockStart, AnthropicTalks
  <2>2. /\ DOMAIN sent' = DOMAIN sent \cup {Of("block", n)}
        /\ sent'[Of("block", n)] = << >>
        /\ \A x \in DOMAIN sent : sent'[x] = sent[x]
        /\ pieces' = pieces
        /\ \A x \in DOMAIN sent' : sent'[x] \in Seq(0..(pieces' - 1))
    <3> HIDE DEF n
    <3> QED
      BY <1>1, <2>1, AnnouncesProperties, SentProperties
  <2>3. Cardinality(DOMAIN sent') = n + 1
    BY <1>1, <2>2, FS_AddElement
  <2>4. /\ view' \in View(n + 1)
        /\ view'.phase = "message" /\ view.phase = "message"
        /\ view'.blocks[n] = [open |-> TRUE, data |-> << >>]
        /\ \A j \in 0..(n - 1) : view'.blocks[j] = view.blocks[j]
    <3>1. view.phase = "message"
      BY <1>1, <2>1 DEF AnthropicInv
    <3> HIDE DEF n
    <3> QED
      BY <1>1, <2>1, <3>1, BlockStarts
  <2>5. AnthropicInv'
    <3>1. DOMAIN sent' = {Of("block", i) : i \in 0..n}
      <4>1. DOMAIN sent = {Of("block", i) : i \in 0..(n - 1)}
        BY <1>1 DEF AnthropicInv
      <4>2. 0..n = 0..(n - 1) \cup {n}
        BY <1>1
      <4> HIDE DEF n
      <4> QED
        BY <2>2, <4>1, <4>2
    <3>2. \A i \in 0..(n - 1) : /\ Of("block", i) \in DOMAIN sent
                                /\ view.blocks[i].data = sent[Of("block", i)]
                                /\ ~view.blocks[i].open
      BY <1>1, <2>1 DEF AnthropicInv
    <3>3. \A i \in 0..n : /\ view'.blocks[i].data = sent'[Of("block", i)]
                          /\ view'.blocks[i].open <=> i = n
      <4> HIDE DEF n
      <4>1. \A i \in 0..n : i = n \/ (i \in 0..(n - 1) /\ i # n)
        BY <1>1
      <4>2. \A i \in 0..(n - 1) : /\ view'.blocks[i].data = sent'[Of("block", i)]
                                  /\ ~view'.blocks[i].open
        BY <2>2, <2>4, <3>2
      <4>3. view'.blocks[n].data = sent'[Of("block", n)] /\ view'.blocks[n].open
        BY <2>2, <2>4
      <4> QED
        BY <4>1, <4>2, <4>3
    <3> HIDE DEF n
    <3>4. (n + 1) - 1 = n /\ n + 1 \in 0..MaxCalls /\ n + 1 > 0
      BY <1>1, <2>1
    <3>5. acc' = AnthropicAcc
      BY <1>1, <1>2 DEF AnthropicInv
    <3> QED
      BY <2>1, <2>3, <2>4, <3>1, <3>3, <3>4, <3>5 DEF AnthropicInv
  <2>6. Emitted' <=> Emitted
    <3> HIDE DEF n
    <3>1. /\ DOMAIN view.blocks = 0..(n - 1)
          /\ DOMAIN view'.blocks = 0..n
          /\ 0..n = (0..(n - 1)) \cup {n}
          /\ view'.blocks[n].data = << >>
      BY <1>1, <2>4 DEF View
    <3> QED
      BY <2>4, <3>1 DEF Emitted
  <2>7. StateInv' /\ state' \in DOMAIN Rank
    <3>1. state' = Raised("provider_started")
      BY <1>1, <1>2, <2>1, <2>4, RaisedProperties DEF StateInv, StateTellsTheMessage
    <3> QED
      BY <1>2, <2>4, <2>6, <3>1, QuietState
  <2>8. TypeOK'
    <3>1. n + 1 \in 0..(MaxCalls + 1)
      BY <1>1
    <3> HIDE DEF n
    <3> QED
      BY <1>1, <1>2, <2>1, <2>2, <2>4, <2>7, <3>1, TypesOf
  <2> QED
    BY <2>5, <2>7, <2>8
<1>6. CASE AnthropicBlockDelta
  <2>1. /\ wire = "block" /\ wire' = "block"
        /\ Sends(Of("block", n - 1))
        /\ view' = BlockDelta(view, n - 1, pieces)
        /\ state' = Raised("partial_output")
    BY <1>6 DEF AnthropicBlockDelta, AnthropicTalks, Latest
  <2> DEFINE l == n - 1
             k == Of("block", l)
  <2>2. /\ l \in 0..(n - 1)
        /\ view.phase = "message"
        /\ DOMAIN sent = {Of("block", i) : i \in 0..(n - 1)}
        /\ \A i \in 0..(n - 1) : view.blocks[i].data = sent[Of("block", i)]
        /\ \A i \in 0..(n - 1) : view.blocks[i].open <=> i = l
        /\ acc = AnthropicAcc
    BY <1>1, <2>1 DEF AnthropicInv
  <2>3. k \in DOMAIN sent /\ pieces \in Nat
    BY <1>1, <2>2
  <2>4. Sends(k) /\ view' = BlockDelta(view, l, pieces)
    BY <2>1
  <2> HIDE DEF l, k, n
  <2>5. /\ DOMAIN sent' = DOMAIN sent
        /\ sent'[k] = Append(sent[k], pieces)
        /\ \A x \in DOMAIN sent : x # k => sent'[x] = sent[x]
        /\ pieces' \in 0..MaxPieces
        /\ \A x \in DOMAIN sent' : sent'[x] \in Seq(0..(pieces' - 1))
    BY <1>1, <2>3, <2>4, SendsProperties, SentProperties
  <2>6. /\ view' \in View(n)
        /\ view'.phase = "message"
        /\ view'.blocks[l].open = view.blocks[l].open
        /\ view'.blocks[l].data = Append(view.blocks[l].data, pieces)
        /\ \A j \in 0..(n - 1) : j # l => view'.blocks[j] = view.blocks[j]
    <3>1. n \in Nat /\ view \in View(n) /\ l \in 0..(n - 1) /\ pieces \in Nat
      BY <1>1, <2>2, <2>3
    <3>2. /\ BlockDelta(view, l, pieces) \in View(n)
          /\ BlockDelta(view, l, pieces).phase = view.phase
          /\ BlockDelta(view, l, pieces).blocks[l].open = view.blocks[l].open
          /\ BlockDelta(view, l, pieces).blocks[l].data = Append(view.blocks[l].data, pieces)
          /\ \A j \in 0..(n - 1) :
               j # l => BlockDelta(view, l, pieces).blocks[j] = view.blocks[j]
      BY <3>1, BlockGrows
    <3> QED
      BY <2>2, <2>4, <3>2
  <2>7. AnthropicInv'
    <3>1. Cardinality(DOMAIN sent') = n
      BY <2>5 DEF n
    <3>2. \A i \in 0..(n - 1) : /\ view'.blocks[i].data = sent'[Of("block", i)]
                                /\ view'.blocks[i].open <=> i = l
      <4>1. \A i \in 0..(n - 1) : Of("block", i) \in DOMAIN sent /\ (i # l => Of("block", i) # k)
        BY <2>2, OfProperties DEF k
      <4>2. view'.blocks[l].data = sent'[k]
        BY <2>2, <2>5, <2>6 DEF k
      <4> QED
        BY <2>2, <2>5, <2>6, <4>1, <4>2 DEF k
    <3> QED
      BY <1>1, <1>2, <2>1, <2>2, <2>5, <2>6, <3>1, <3>2 DEF AnthropicInv, l
  <2>8. Emitted'
    <3>1. view.blocks[l] \in Block /\ l \in DOMAIN view'.blocks
      BY <1>1, <2>2, <2>6 DEF View
    <3> QED
      BY <2>3, <2>6, <3>1 DEF Emitted, Block
  <2>9. StateInv' /\ state' \in DOMAIN Rank
    BY <1>2, <2>1, <2>2, <2>6, <2>8, OutputState
  <2>10. TypeOK'
    <3>1. n \in 0..(MaxCalls + 1)
      BY <1>1
    <3> QED
      BY <1>1, <1>2, <2>1, <2>5, <2>6, <2>9, <3>1, TypesOf
  <2> QED
    BY <2>7, <2>9, <2>10
<1>7. CASE AnthropicBlockStop
  <2>1. /\ wire = "block" /\ wire' = "open"
        /\ UNCHANGED <<sent, pieces, state>>
        /\ view' = BlocksStop(view, {n - 1})
    BY <1>7 DEF AnthropicBlockStop, AnthropicTalks, Latest, sending
  <2>2. view.phase = "message"
    BY <1>1, <2>1 DEF AnthropicInv
  <2>3. /\ view' \in View(n)
        /\ view'.phase = "message"
        /\ \A j \in 0..(n - 1) : /\ view'.blocks[j].data = view.blocks[j].data
                                 /\ view'.blocks[j].open <=> view.blocks[j].open /\ j # n - 1
    <3> DEFINE S == {n - 1}  w == BlocksStop(view, S)
    <3>1. n \in Nat /\ view \in View(n) /\ view' = w
      BY <1>1, <2>1
    <3>2. \A j : j \in S <=> j = n - 1
      OBVIOUS
    <3> HIDE DEF n, S
    <3>3. /\ w \in View(n) /\ w.phase = view.phase
          /\ \A j \in 0..(n - 1) : /\ w.blocks[j].data = view.blocks[j].data
                                   /\ w.blocks[j].open <=> view.blocks[j].open /\ j \notin S
      BY <3>1, BlocksClose
    <3> HIDE DEF w
    <3> QED
      BY <2>2, <3>1, <3>2, <3>3
  <2>4. AnthropicInv'
    <3>1. /\ sent' = sent /\ acc' = acc /\ n \in Nat
          /\ acc = AnthropicAcc /\ n \in 0..MaxCalls
          /\ DOMAIN sent = {Of("block", i) : i \in 0..(n - 1)}
          /\ n > 0
          /\ \A i \in 0..(n - 1) : view.blocks[i].data = sent[Of("block", i)]
      BY <1>1, <1>2, <2>1 DEF AnthropicInv
    <3>2. \A i \in 0..(n - 1) : view.blocks[i].open <=> i = n - 1
      BY <1>1, <2>1 DEF AnthropicInv
    <3>3. \A i \in 0..(n - 1) : view'.blocks[i].data = sent'[Of("block", i)] /\ ~view'.blocks[i].open
      <4> HIDE DEF n
      <4> QED
        BY <2>3, <3>1, <3>2
    <3>4. Cardinality(DOMAIN sent') = n
      BY <3>1
    <3> HIDE DEF n
    <3> QED
      BY <2>1, <2>3, <3>1, <3>3, <3>4 DEF AnthropicInv
  <2>5. Emitted' <=> Emitted
    <3> HIDE DEF n
    <3> QED
      BY <1>1, <2>3 DEF Emitted, View
  <2>6. StateInv' /\ state' \in DOMAIN Rank
    <3>1. state' = Raised("provider_started")
      BY <1>1, <1>2, <2>1, <2>2, RaisedProperties DEF StateInv, StateTellsTheMessage
    <3> QED
      BY <1>2, <2>2, <2>3, <2>5, <3>1, QuietState
  <2>7. TypeOK'
    <3>1. n \in 0..(MaxCalls + 1)
      BY <1>1
    <3> HIDE DEF n
    <3> QED
      BY <1>1, <1>2, <2>1, <2>3, <2>6, <3>1, TypesOf DEF Pieces
  <2> QED
    BY <2>4, <2>6, <2>7
<1>8. CASE AnthropicStop
  <2>1. /\ wire = "open" /\ wire' = "finished"
        /\ UNCHANGED <<sent, pieces>>
        /\ view' = MessageStop(view)
        /\ state' = Raised("completed")
    BY <1>8 DEF AnthropicStop, AnthropicTalks, sending
  <2>2. view' \in View(n) /\ view'.phase = "stopped" /\ view'.blocks = view.blocks
    <3> HIDE DEF n
    <3> QED
      BY <1>1, <2>1, MessageFrame
  <2>3. AnthropicInv'
    BY <1>1, <1>2, <2>1, <2>2 DEF AnthropicInv
  <2>4. StateInv' /\ state' \in DOMAIN Rank
    BY <1>2, <2>1, <2>2, StoppedState
  <2>5. TypeOK'
    <3>1. n \in 0..(MaxCalls + 1)
      BY <1>1
    <3> HIDE DEF n
    <3> QED
      BY <1>1, <1>2, <2>1, <2>2, <2>4, <3>1, TypesOf DEF Pieces
  <2> QED
    BY <2>3, <2>4, <2>5
<1> QED
  BY <1>4, <1>5, <1>6, <1>7, <1>8 DEF AnthropicNext

-------------------------------------------------------------------------------
(* The correspondence of what was sent and what was seen. *)

\* A piece that goes to the block of what it belongs to keeps it.
LEMMA PieceArrives ==
  ASSUME NothingLostOrMixed, NEW n \in Nat, view \in View(n), NEW k \in DOMAIN sent, NEW piece,
         DOMAIN sent' = DOMAIN sent,
         sent'[k] = Append(sent[k], piece),
         \A x \in DOMAIN sent : x # k => sent'[x] = sent[x],
         \A x \in DOMAIN sent : BlockOf(x)' = BlockOf(x),
         view' \in View(n),
         view'.blocks[BlockOf(k)].data = Append(view.blocks[BlockOf(k)].data, piece),
         \A j \in 0..(n - 1) : j # BlockOf(k) => view'.blocks[j] = view.blocks[j]
  PROVE  NothingLostOrMixed'
<1>1. DOMAIN view.blocks = 0..(n - 1) /\ DOMAIN view'.blocks = 0..(n - 1)
  BY DEF View
<1>2. {BlockOf(x) : x \in DOMAIN sent}' = DOMAIN view'.blocks
  <2>1. {BlockOf(x) : x \in DOMAIN sent} = DOMAIN view.blocks
    BY DEF NothingLostOrMixed
  <2>2. {BlockOf(x) : x \in DOMAIN sent}' = {BlockOf(x) : x \in DOMAIN sent}
    OBVIOUS
  <2> QED
    BY <1>1, <2>1, <2>2
<1>3. ASSUME NEW x \in DOMAIN sent'
      PROVE  view'.blocks[BlockOf(x)'].data = sent'[x]
  <2>1. BlockOf(x) \in 0..(n - 1) /\ view.blocks[BlockOf(x)].data = sent[x]
    BY <1>1 DEF NothingLostOrMixed
  <2>2. CASE x = k
    BY <2>1, <2>2
  <2>3. CASE x # k
    <3>1. BlockOf(x) # BlockOf(k)
      BY <2>3 DEF NothingLostOrMixed
    <3> QED
      BY <2>1, <2>3, <3>1
  <2> QED
    BY <2>2, <2>3
<1>4. ASSUME NEW x \in DOMAIN sent', NEW y \in DOMAIN sent', BlockOf(x)' = BlockOf(y)'
      PROVE  x = y
  BY <1>4 DEF NothingLostOrMixed
<1> QED
  BY <1>2, <1>3, <1>4 DEF NothingLostOrMixed

\* What is new gets the next block, with what was sent of it.
LEMMA NewArrives ==
  ASSUME NothingLostOrMixed, NEW n \in Nat, view \in View(n), NEW k, k \notin DOMAIN sent,
         DOMAIN sent' = DOMAIN sent \cup {k},
         \A x \in DOMAIN sent : sent'[x] = sent[x],
         \A x \in DOMAIN sent : BlockOf(x)' = BlockOf(x),
         BlockOf(k)' = n,
         view' \in View(n + 1),
         view'.blocks[n].data = sent'[k],
         \A j \in 0..(n - 1) : view'.blocks[j] = view.blocks[j]
  PROVE  NothingLostOrMixed'
<1>1. /\ DOMAIN view.blocks = 0..(n - 1)
      /\ DOMAIN view'.blocks = 0..(n - 1) \cup {n}
      /\ n \notin 0..(n - 1)
  BY DEF View
<1>2. {BlockOf(x) : x \in DOMAIN sent}' = DOMAIN view'.blocks
  <2>1. {BlockOf(x) : x \in DOMAIN sent} = 0..(n - 1)
    BY <1>1 DEF NothingLostOrMixed
  <2>2. {BlockOf(x) : x \in DOMAIN sent}' = {BlockOf(x) : x \in DOMAIN sent} \cup {n}
    OBVIOUS
  <2> QED
    BY <1>1, <2>1, <2>2
<1>3. ASSUME NEW x \in DOMAIN sent'
      PROVE  view'.blocks[BlockOf(x)'].data = sent'[x]
  <2>1. CASE x = k
    BY <2>1
  <2>2. CASE x # k
    <3>1. /\ x \in DOMAIN sent
          /\ BlockOf(x) \in 0..(n - 1)
          /\ view.blocks[BlockOf(x)].data = sent[x]
      BY <1>1, <2>2 DEF NothingLostOrMixed
    <3> QED
      BY <3>1
  <2> QED
    BY <2>1, <2>2
<1>4. ASSUME NEW x \in DOMAIN sent', NEW y \in DOMAIN sent', BlockOf(x)' = BlockOf(y)'
      PROVE  x = y
  <2>1. \A z \in DOMAIN sent : BlockOf(z)' # n
    <3>1. \A z \in DOMAIN sent : BlockOf(z) \in {BlockOf(l) : l \in DOMAIN sent}
      OBVIOUS
    <3>2. {BlockOf(l) : l \in DOMAIN sent} = 0..(n - 1)
      BY <1>1 DEF NothingLostOrMixed
    <3> QED
      BY <1>1, <3>1, <3>2
  <2>2. CASE x \in DOMAIN sent /\ y \in DOMAIN sent
    BY <1>4, <2>2 DEF NothingLostOrMixed
  <2> QED
    BY <1>4, <2>1, <2>2
<1> QED
  BY <1>2, <1>3, <1>4 DEF NothingLostOrMixed

-------------------------------------------------------------------------------
(* The OpenAI reader. *)

\* The blocks of the text and of the calls.
LEMMA OpenAIBlockOf ==
  ASSUME adapter = "openai"
  PROVE  /\ BlockOf(Of("text", 0)) = acc.textIndex
         /\ \A i : BlockOf(Of("call", i)) = acc.callBlock[i]
BY DEF BlockOf, Of

\* Every block is the text's or a call's, by which it is found at the end.
LEMMA OpenAIOpenBlocks ==
  ASSUME OpenAIInv, adapter = "openai", wire = "open"
  PROVE  OpenBlocks = DOMAIN view.blocks
<1>1. {BlockOf(k) : k \in DOMAIN sent} = DOMAIN view.blocks
  BY DEF OpenAIInv, NothingLostOrMixed
<1>2. /\ acc.textOpen <=> acc.textSeen
      /\ acc.callOpen = DOMAIN acc.callBlock
      /\ DOMAIN sent = (IF acc.textSeen THEN {Of("text", 0)} ELSE {})
                     \cup {Of("call", i) : i \in DOMAIN acc.callBlock}
  BY DEF OpenAIInv
<1>3. {BlockOf(k) : k \in DOMAIN sent} =
        (IF acc.textSeen THEN {BlockOf(Of("text", 0))} ELSE {})
          \cup {BlockOf(Of("call", i)) : i \in DOMAIN acc.callBlock}
  BY <1>2
<1> QED
  BY <1>1, <1>2, <1>3, OpenAIBlockOf DEF OpenBlocks

\* The message has started with the first chunk, and its blocks are those that it had.
LEMMA OpenAIStartedView ==
  ASSUME OpenAIInv
  PROVE  /\ acc.nextIndex \in Nat
         /\ OpenAIStarted \in View(acc.nextIndex)
         /\ \A j \in 0..(acc.nextIndex - 1) : OpenAIStarted.blocks[j] = view.blocks[j]
         /\ wire = "open" => OpenAIStarted.phase = "message"
         /\ wire = "finished" => OpenAIStarted = view
<1>1. acc.nextIndex \in Nat /\ view \in View(acc.nextIndex)
  BY DEF OpenAIInv, OpenAIBook, Has
<1>2. CASE acc.started
  BY <1>1, <1>2 DEF OpenAIInv, OpenAIStarted
<1>3. CASE ~acc.started
  <2>1. acc.nextIndex = 0 /\ wire # "finished"
    BY <1>3 DEF OpenAIInv
  <2> QED
    BY <1>1, <1>3, <2>1, MessageFrame DEF OpenAIStarted
<1> QED
  BY <1>2, <1>3

\* A set of calls is no larger than the bound.
LEMMA CallsBound ==
  ASSUME NEW S \in SUBSET Calls
  PROVE  IsFiniteSet(S) /\ Cardinality(S) \in 0..MaxCalls
<1>1. IsFiniteSet(Calls) /\ Cardinality(Calls) = MaxCalls
  BY FS_Interval, BoundAssumption DEF Calls
<1> QED
  BY <1>1, FS_Subset, FS_CardinalityType, BoundAssumption

\* There are no more blocks than calls, and the text's.
LEMMA OpenAIBound ==
  ASSUME OpenAIInv
  PROVE  /\ acc.nextIndex \in 0..(MaxCalls + 1)
         /\ IsFiniteSet(DOMAIN acc.callBlock)
BY CallsBound, BoundAssumption DEF OpenAIInv

\* A chunk for the blocks comes while the wire is open, that is before the message stops.
LEMMA OpenAIFacts ==
  ASSUME IInv, adapter = "openai", ~done
  PROVE  /\ OpenAIInv /\ TypeOK /\ StateInv
         /\ pieces \in 0..MaxPieces /\ pieces \in Nat
         /\ \A x \in DOMAIN sent : sent[x] \in Seq(Pieces)
         /\ wire = "open" => view.phase # "stopped"
BY BoundAssumption DEF IInv, ReaderInv, OpenAIInv, TypeOK, Pieces

\* Nothing that belongs to a block, which is a bare chunk or the name of a call that
\* is known.
LEMMA OpenAIQuietStep ==
  ASSUME IInv, adapter = "openai", ~done, UNCHANGED <<adapter, wire, ending>>,
         acc' = [acc EXCEPT !.started = TRUE],
         view' = OpenAIStarted,
         state' = Raised("provider_started"),
         DOMAIN sent' = DOMAIN sent,
         \A x \in DOMAIN sent : sent'[x] = sent[x],
         pieces' = pieces
  PROVE  IInv'
<1> DEFINE n == acc.nextIndex
<1>1. /\ ~done
      /\ acc' = [acc EXCEPT !.started = TRUE]
      /\ view' = OpenAIStarted
      /\ state' = Raised("provider_started")
      /\ DOMAIN sent' = DOMAIN sent
      /\ \A x \in DOMAIN sent : sent'[x] = sent[x]
      /\ UNCHANGED <<adapter, wire, pieces, done, err, afterOutput>>
  BY DEF ending
<1>2. /\ OpenAIInv /\ TypeOK /\ StateInv
      /\ pieces \in 0..MaxPieces
      /\ \A x \in DOMAIN sent : sent[x] \in Seq(Pieces)
  BY <1>1, OpenAIFacts
<1>3. /\ n \in 0..(MaxCalls + 1) /\ n \in Nat
      /\ view \in View(n) /\ view' \in View(n)
      /\ DOMAIN view.blocks = 0..(n - 1) /\ DOMAIN view'.blocks = 0..(n - 1)
      /\ \A j \in 0..(n - 1) : view'.blocks[j] = view.blocks[j]
      /\ wire = "open" => view'.phase = "message"
      /\ wire = "finished" => view' = view
  BY <1>1, <1>2, OpenAIStartedView, OpenAIBound DEF OpenAIInv, Has, View
<1>4. /\ acc'.started = TRUE
      /\ acc'.textSeen = acc.textSeen /\ acc'.textOpen = acc.textOpen
      /\ acc'.textIndex = acc.textIndex /\ acc'.callBlock = acc.callBlock
      /\ acc'.callOpen = acc.callOpen /\ acc'.nextIndex = acc.nextIndex
      /\ acc' \in OpenAIBook(acc'.callBlock)
  BY <1>1, <1>2 DEF OpenAIInv, OpenAIBook
<1>5. NothingLostOrMixed'
  <2>1. \A k : BlockOf(k)' = BlockOf(k)
    BY <1>1, <1>4 DEF BlockOf
  <2>2. NothingLostOrMixed
    BY <1>2 DEF OpenAIInv
  <2>3. \A k \in DOMAIN sent : BlockOf(k) \in 0..(n - 1)
    BY <1>3, <2>2 DEF NothingLostOrMixed
  <2> QED
    BY <1>1, <1>3, <2>1, <2>2, <2>3 DEF NothingLostOrMixed
<1>6. OpenAIInv'
  BY <1>1, <1>2, <1>3, <1>4, <1>5 DEF OpenAIInv, Has, Open
<1>7. Emitted' <=> Emitted
  BY <1>3 DEF Emitted
<1>8. StateInv' /\ state' \in DOMAIN Rank
  <2>1. CASE wire = "open"
    <3>1. UNCHANGED <<adapter, ending>> /\ view.phase # "stopped"
      BY <1>1, <2>1, OpenAIFacts DEF ending
    <3> QED
      BY <1>1, <1>3, <1>7, <2>1, <3>1, QuietState
  <2>2. CASE wire = "finished"
    <3>1. view' = view /\ view.phase = "stopped"
      BY <1>2, <1>3, <2>2 DEF OpenAIInv
    <3>2. state' = Raised("completed")
      BY <1>1, <1>2, <3>1, RaisedProperties DEF StateInv, StateTellsTheMessage
    <3> QED
      BY <1>1, <3>1, <3>2, StoppedState DEF ending
  <2> QED
    BY <1>2, <2>1, <2>2 DEF OpenAIInv
<1>9. TypeOK'
  <2>1. /\ \A x \in DOMAIN sent' : sent'[x] \in Seq(0..(pieces' - 1))
        /\ wire' \in {"start", "open", "block", "finished"}
        /\ UNCHANGED <<adapter, ending>>
    BY <1>1, <1>2 DEF OpenAIInv, Pieces, ending
  <2> HIDE DEF n
  <2> QED
    BY <1>1, <1>2, <1>3, <1>8, <2>1, TypesOf
<1> QED
  BY <1>1, <1>6, <1>8, <1>9 DEF IInv, ReaderInv

\* Text, or a call's arguments, for a block that there is: k is what they belong to.
LEMMA OpenAIGrows ==
  ASSUME IInv, adapter = "openai", OpenAITalks, wire' = wire,
         NEW k \in DOMAIN sent, Sends(k),
         acc' = [acc EXCEPT !.started = TRUE],
         view' = BlockDelta(OpenAIStarted, BlockOf(k), pieces),
         state' = Raised("partial_output")
  PROVE  IInv'
<1> DEFINE n == acc.nextIndex
           b == BlockOf(k)
<1>1. ~done /\ wire = "open" /\ UNCHANGED <<adapter, ending>>
  BY DEF OpenAITalks, Reads
<1>2. /\ OpenAIInv /\ TypeOK /\ StateInv /\ NothingLostOrMixed
      /\ pieces \in 0..MaxPieces /\ pieces \in Nat
      /\ \A x \in DOMAIN sent : sent[x] \in Seq(Pieces)
      /\ view.phase # "stopped"
  BY <1>1, OpenAIFacts DEF OpenAIInv
<1>3. /\ n \in 0..(MaxCalls + 1) /\ n \in Nat
      /\ view \in View(n) /\ OpenAIStarted \in View(n)
      /\ DOMAIN view.blocks = 0..(n - 1)
      /\ \A j \in 0..(n - 1) : OpenAIStarted.blocks[j] = view.blocks[j]
      /\ OpenAIStarted.phase = "message"
  BY <1>1, <1>2, OpenAIStartedView, OpenAIBound DEF OpenAIInv, Has, View
<1>4. b \in 0..(n - 1)
  BY <1>2, <1>3 DEF NothingLostOrMixed
<1>5. /\ DOMAIN sent' = DOMAIN sent
      /\ sent'[k] = Append(sent[k], pieces)
      /\ \A x \in DOMAIN sent : x # k => sent'[x] = sent[x]
      /\ pieces' \in 0..MaxPieces
      /\ \A x \in DOMAIN sent' : sent'[x] \in Seq(0..(pieces' - 1))
  <2>1. SentOf(k) = sent[k]
    BY DEF SentOf
  <2>2. /\ DOMAIN sent' = DOMAIN sent \cup {k}
        /\ sent'[k] = Append(SentOf(k), pieces)
        /\ \A x \in DOMAIN sent : x # k => sent'[x] = sent[x]
        /\ pieces' \in 0..MaxPieces
        /\ \A x \in DOMAIN sent' : sent'[x] \in Seq(0..(pieces' - 1))
    BY <1>2, SendsProperties
  <2> QED
    BY <2>1, <2>2
<1>6. /\ view' \in View(n)
      /\ view'.phase = "message"
      /\ view'.blocks[b].open = view.blocks[b].open
      /\ view'.blocks[b].data = Append(view.blocks[b].data, pieces)
      /\ \A j \in 0..(n - 1) : j # b => view'.blocks[j] = view.blocks[j]
  <2> DEFINE w == OpenAIStarted
  <2> HIDE DEF n, b, w
  <2>1. /\ BlockDelta(w, b, pieces) \in View(n)
        /\ BlockDelta(w, b, pieces).phase = w.phase
        /\ BlockDelta(w, b, pieces).blocks[b].open = w.blocks[b].open
        /\ BlockDelta(w, b, pieces).blocks[b].data = Append(w.blocks[b].data, pieces)
        /\ \A j \in 0..(n - 1) : j # b => BlockDelta(w, b, pieces).blocks[j] = w.blocks[j]
    <3>1. n \in Nat /\ w \in View(n) /\ b \in 0..(n - 1) /\ pieces \in Nat
      BY <1>2, <1>3, <1>4 DEF w
    <3> QED
      BY <3>1, BlockGrows
  <2>2. view' = BlockDelta(w, b, pieces)
    BY DEF w, b
  <2>3. /\ w.phase = "message"
        /\ \A j \in 0..(n - 1) : w.blocks[j] = view.blocks[j]
    BY <1>3 DEF w
  <2> QED
    BY <1>4, <2>1, <2>2, <2>3
<1>7. /\ acc'.started = TRUE
      /\ acc'.textSeen = acc.textSeen /\ acc'.textOpen = acc.textOpen
      /\ acc'.textIndex = acc.textIndex /\ acc'.callBlock = acc.callBlock
      /\ acc'.callOpen = acc.callOpen /\ acc'.nextIndex = acc.nextIndex
      /\ acc' \in OpenAIBook(acc'.callBlock)
  BY <1>2 DEF OpenAIInv, OpenAIBook
<1>8. \A x : BlockOf(x)' = BlockOf(x)
  BY <1>1, <1>7 DEF BlockOf
<1>9. NothingLostOrMixed'
  <2> HIDE DEF n
  <2> QED
    BY <1>2, <1>3, <1>5, <1>6, <1>8, PieceArrives DEF b
<1>10. OpenAIInv'
  <2>1. DOMAIN view'.blocks = 0..(n - 1)
    BY <1>6 DEF View
  <2>2. \A j \in DOMAIN view'.blocks : view'.blocks[j].open
    BY <1>1, <1>2, <1>3, <1>6, <2>1 DEF OpenAIInv, Open
  <2> HIDE DEF b
  <2> QED
    BY <1>1, <1>2, <1>5, <1>6, <1>7, <1>9, <2>2 DEF OpenAIInv, Has, Open
<1>11. Emitted'
  <2>1. view.blocks[b] \in Block /\ b \in DOMAIN view'.blocks
    BY <1>3, <1>4, <1>6 DEF View
  <2> QED
    BY <1>2, <1>6, <2>1 DEF Emitted, Block
<1>12. StateInv' /\ state' \in DOMAIN Rank
  BY <1>1, <1>2, <1>6, <1>11, OutputState
<1>13. TypeOK'
  <2> HIDE DEF n
  <2> QED
    BY <1>1, <1>2, <1>3, <1>5, <1>6, <1>12, TypesOf
<1> QED
  BY <1>1, <1>10, <1>12, <1>13 DEF IInv, ReaderInv

\* The next block, as it starts and with the first piece.
LEMMA OpenAINextBlock ==
  ASSUME OpenAIInv, wire = "open", pieces \in Nat
  PROVE  LET n == acc.nextIndex
             o == BlockStart(OpenAIStarted, n)
             d == BlockDelta(o, n, pieces)
         IN  /\ o \in View(n + 1) /\ d \in View(n + 1)
             /\ o.phase = "message" /\ d.phase = "message"
             /\ o.blocks[n].open /\ d.blocks[n].open
             /\ o.blocks[n].data = << >> /\ d.blocks[n].data = <<pieces>>
             /\ \A j \in 0..(n - 1) : o.blocks[j] = view.blocks[j] /\ d.blocks[j] = view.blocks[j]
<1> DEFINE n == acc.nextIndex
           w == OpenAIStarted
           o == BlockStart(w, n)
           d == BlockDelta(o, n, pieces)
<1>1. /\ n \in Nat /\ w \in View(n) /\ w.phase = "message"
      /\ \A j \in 0..(n - 1) : w.blocks[j] = view.blocks[j]
  BY OpenAIStartedView
<1> SUFFICES /\ o \in View(n + 1) /\ d \in View(n + 1)
             /\ o.phase = "message" /\ d.phase = "message"
             /\ o.blocks[n].open /\ d.blocks[n].open
             /\ o.blocks[n].data = << >> /\ d.blocks[n].data = <<pieces>>
             /\ \A j \in 0..(n - 1) : o.blocks[j] = view.blocks[j] /\ d.blocks[j] = view.blocks[j]
  BY DEF n, w, o, d
<1> HIDE DEF n, w
<1>2. /\ o \in View(n + 1)
      /\ o.phase = w.phase
      /\ o.blocks[n] = [open |-> TRUE, data |-> << >>]
      /\ \A j \in 0..(n - 1) : o.blocks[j] = w.blocks[j]
  BY <1>1, BlockStarts
<1> HIDE DEF o
<1>3. n + 1 \in Nat /\ n \in 0..((n + 1) - 1) /\ \A j \in 0..(n - 1) : j \in 0..((n + 1) - 1) /\ j # n
  BY <1>1
<1>4. /\ d \in View(n + 1)
      /\ d.phase = o.phase
      /\ d.blocks[n].open = o.blocks[n].open
      /\ d.blocks[n].data = Append(o.blocks[n].data, pieces)
      /\ \A j \in 0..((n + 1) - 1) : j # n => d.blocks[j] = o.blocks[j]
  <2> DEFINE N == n + 1
  <2>1. N \in Nat /\ o \in View(N) /\ n \in 0..(N - 1) /\ pieces \in Nat
    BY <1>2, <1>3
  <2> HIDE DEF N
  <2>2. /\ d \in View(N)
        /\ d.phase = o.phase
        /\ d.blocks[n].open = o.blocks[n].open
        /\ d.blocks[n].data = Append(o.blocks[n].data, pieces)
        /\ \A j \in 0..(N - 1) : j # n => d.blocks[j] = o.blocks[j]
    BY <2>1, BlockGrows
  <2> QED
    BY <2>2 DEF N
<1>5. Append(<< >>, pieces) = <<pieces>>
  OBVIOUS
<1> HIDE DEF d
<1> QED
  BY <1>1, <1>2, <1>3, <1>4, <1>5

\* The first sign of the text or of a call: k is what it is of, and acc' has noted it.
LEMMA OpenAIStarts ==
  ASSUME IInv, adapter = "openai", OpenAITalks, wire' = wire,
         NEW k, k \notin DOMAIN sent,
         \/ /\ Announces(k)
            /\ view' = BlockStart(OpenAIStarted, acc.nextIndex)
            /\ state' = Raised("provider_started")
         \/ /\ Sends(k)
            /\ view' = BlockDelta(BlockStart(OpenAIStarted, acc.nextIndex), acc.nextIndex, pieces)
            /\ state' = Raised("partial_output"),
         acc'.started = TRUE,
         acc'.nextIndex = acc.nextIndex + 1,
         \A x \in DOMAIN sent : BlockOf(x)' = BlockOf(x),
         BlockOf(k)' = acc.nextIndex,
         acc' \in OpenAIBook(acc'.callBlock),
         DOMAIN acc'.callBlock \subseteq Calls,
         acc'.nextIndex = Cardinality(DOMAIN acc'.callBlock) + (IF acc'.textSeen THEN 1 ELSE 0),
         DOMAIN sent \cup {k} = (IF acc'.textSeen THEN {Of("text", 0)} ELSE {})
                                  \cup {Of("call", i) : i \in DOMAIN acc'.callBlock},
         acc'.textOpen <=> acc'.textSeen,
         acc'.callOpen = DOMAIN acc'.callBlock
  PROVE  IInv'
<1> DEFINE n == acc.nextIndex
<1>1. ~done /\ wire = "open" /\ UNCHANGED <<adapter, ending>>
  BY DEF OpenAITalks, Reads
<1>2. /\ OpenAIInv /\ TypeOK /\ StateInv /\ NothingLostOrMixed
      /\ pieces \in 0..MaxPieces /\ pieces \in Nat
      /\ \A x \in DOMAIN sent : sent[x] \in Seq(Pieces)
      /\ view.phase # "stopped"
  BY <1>1, OpenAIFacts DEF OpenAIInv
<1>3. /\ n \in Nat /\ view \in View(n)
      /\ DOMAIN view.blocks = 0..(n - 1)
      /\ \A j \in 0..(n - 1) : view.blocks[j].open
  BY <1>1, <1>2, OpenAIBound DEF OpenAIInv, Has, View, Open
<1>4. /\ DOMAIN sent' = DOMAIN sent \cup {k}
      /\ \A x \in DOMAIN sent : sent'[x] = sent[x]
      /\ pieces' \in 0..MaxPieces
      /\ \A x \in DOMAIN sent' : sent'[x] \in Seq(0..(pieces' - 1))
      /\ view' \in View(n + 1)
      /\ view'.phase = "message"
      /\ view'.blocks[n].open
      /\ view'.blocks[n].data = sent'[k]
      /\ \A j \in 0..(n - 1) : view'.blocks[j] = view.blocks[j]
      /\ \/ sent'[k] = << >> /\ state' = Raised("provider_started")
         \/ sent'[k] # << >> /\ state' = Raised("partial_output")
  <2> DEFINE o == BlockStart(OpenAIStarted, n)
             d == BlockDelta(o, n, pieces)
  <2>1. SentOf(k) = << >> /\ Append(<< >>, pieces) = <<pieces>> /\ << >> # <<pieces>>
    BY DEF SentOf
  <2>2. /\ o \in View(n + 1) /\ d \in View(n + 1)
        /\ o.phase = "message" /\ d.phase = "message"
        /\ o.blocks[n].open /\ d.blocks[n].open
        /\ o.blocks[n].data = << >> /\ d.blocks[n].data = <<pieces>>
        /\ \A j \in 0..(n - 1) : o.blocks[j] = view.blocks[j] /\ d.blocks[j] = view.blocks[j]
    BY <1>1, <1>2, OpenAINextBlock
  <2>3. CASE Announces(k) /\ view' = o /\ state' = Raised("provider_started")
    <3>1. /\ DOMAIN sent' = DOMAIN sent \cup {k}
          /\ sent'[k] = SentOf(k)
          /\ \A x \in DOMAIN sent : x # k => sent'[x] = sent[x]
          /\ pieces' = pieces
          /\ \A x \in DOMAIN sent' : sent'[x] \in Seq(0..(pieces' - 1))
      BY <1>2, <2>3, AnnouncesProperties
    <3> HIDE DEF o, d, n
    <3> QED
      BY <1>2, <2>1, <2>2, <2>3, <3>1
  <2>4. CASE Sends(k) /\ view' = d /\ state' = Raised("partial_output")
    <3>1. /\ DOMAIN sent' = DOMAIN sent \cup {k}
          /\ sent'[k] = Append(SentOf(k), pieces)
          /\ \A x \in DOMAIN sent : x # k => sent'[x] = sent[x]
          /\ pieces' \in 0..MaxPieces
          /\ \A x \in DOMAIN sent' : sent'[x] \in Seq(0..(pieces' - 1))
      BY <1>2, <2>4, SendsProperties
    <3> HIDE DEF o, d, n
    <3> QED
      BY <1>2, <2>1, <2>2, <2>4, <3>1
  <2> QED
    BY <2>3, <2>4
<1>5. NothingLostOrMixed'
  <2> HIDE DEF n
  <2>1. BlockOf(k)' = n
    BY DEF n
  <2> QED
    BY <1>2, <1>3, <1>4, <2>1, NewArrives
<1>6. /\ DOMAIN view'.blocks = 0..n
      /\ \A j \in 0..n : j = n \/ (j \in 0..(n - 1) /\ j \in DOMAIN view.blocks)
      /\ \A j \in DOMAIN view.blocks : j \in 0..n
  <2>1. (n + 1) - 1 = n
    BY <1>3
  <2>2. DOMAIN view'.blocks = 0..((n + 1) - 1)
    BY <1>4 DEF View
  <2> QED
    BY <1>3, <2>1, <2>2
<1>7. OpenAIInv'
  <2>1. \A j \in DOMAIN view'.blocks : view'.blocks[j].open
    BY <1>3, <1>4, <1>6
  <2>2. view' \in View(acc'.nextIndex)
    BY <1>4
  <2> QED
    BY <1>1, <1>4, <1>5, <2>1, <2>2 DEF OpenAIInv, Has, Open
<1>8. StateInv' /\ state' \in DOMAIN Rank
  <2>1. CASE sent'[k] = << >> /\ state' = Raised("provider_started")
    <3>1. Emitted' <=> Emitted
      <4> HIDE DEF n
      <4>1. \A j \in DOMAIN view.blocks : view'.blocks[j] = view.blocks[j]
        BY <1>3, <1>4
      <4>2. \A j \in DOMAIN view'.blocks : j \in DOMAIN view.blocks \/ view'.blocks[j].data = << >>
        BY <1>4, <1>6, <2>1
      <4>3. \A j \in DOMAIN view.blocks : j \in DOMAIN view'.blocks
        BY <1>6
      <4> QED
        BY <4>1, <4>2, <4>3 DEF Emitted
    <3> QED
      BY <1>1, <1>2, <1>4, <2>1, <3>1, QuietState
  <2>2. CASE sent'[k] # << >> /\ state' = Raised("partial_output")
    <3>1. Emitted'
      BY <1>3, <1>4, <1>6, <2>2 DEF Emitted
    <3> QED
      BY <1>1, <1>2, <1>4, <2>2, <3>1, OutputState
  <2> QED
    BY <1>4, <2>1, <2>2
<1>9. TypeOK'
  <2>1. n + 1 \in 0..(MaxCalls + 1)
    BY CallsBound, BoundAssumption
  <2> HIDE DEF n
  <2> QED
    BY <1>1, <1>2, <1>4, <1>8, <2>1, TypesOf
<1> QED
  BY <1>1, <1>7, <1>8, <1>9 DEF IInv, ReaderInv

\* The text's first piece.
LEMMA OpenAITextStep ==
  ASSUME IInv, adapter = "openai", OpenAIText
  PROVE  IInv'
<1> DEFINE k == Of("text", 0)
<1>1. /\ OpenAITalks /\ wire' = wire /\ Sends(k)
      /\ state' = Raised("partial_output")
      /\ UNCHANGED adapter
  BY DEF OpenAIText, OpenAITalks
<1>2. OpenAIInv
  BY <1>1, OpenAIFacts DEF OpenAITalks, Reads
<1>3. k \in DOMAIN sent <=> acc.textSeen
  BY <1>2, OfProperties DEF OpenAIInv
<1>4. CASE acc.textSeen
  <2>1. /\ view' = BlockDelta(OpenAIStarted, BlockOf(k), pieces)
        /\ acc' = [acc EXCEPT !.started = TRUE]
    BY <1>4, OpenAIBlockOf DEF OpenAIText
  <2> HIDE DEF k
  <2> QED
    BY <1>1, <1>3, <1>4, <2>1, OpenAIGrows
<1>5. CASE ~acc.textSeen
  <2>1. /\ view' = BlockDelta(BlockStart(OpenAIStarted, acc.nextIndex), acc.nextIndex, pieces)
        /\ acc' = [acc EXCEPT !.started = TRUE, !.textSeen = TRUE, !.textOpen = TRUE,
                              !.textIndex = acc.nextIndex, !.nextIndex = @ + 1]
    BY <1>5 DEF OpenAIText
  <2>2. acc.nextIndex \in Nat
    BY <1>2, OpenAIStartedView
  <2>3. /\ acc'.started = TRUE /\ acc'.textSeen = TRUE /\ acc'.textOpen = TRUE
        /\ acc'.textIndex = acc.nextIndex /\ acc'.nextIndex = acc.nextIndex + 1
        /\ acc'.callBlock = acc.callBlock /\ acc'.callOpen = acc.callOpen
        /\ acc' \in OpenAIBook(acc'.callBlock)
    <3>1. acc \in OpenAIBook(acc.callBlock)
      BY <1>2 DEF OpenAIInv
    <3>2. acc.nextIndex + 1 \in Nat
      BY <2>2
    <3> QED
      BY <2>1, <2>2, <3>1, <3>2 DEF OpenAIBook
  <2>4. /\ wire = "open"
        /\ acc.callOpen = DOMAIN acc.callBlock
        /\ DOMAIN acc.callBlock \subseteq Calls
        /\ acc.nextIndex = Cardinality(DOMAIN acc.callBlock)
        /\ Cardinality(DOMAIN acc.callBlock) \in Nat
        /\ DOMAIN sent = {Of("call", i) : i \in DOMAIN acc.callBlock}
    BY <1>1, <1>2, <1>5, CallsBound DEF OpenAIInv, OpenAITalks
  <2>5. \A x \in DOMAIN sent : BlockOf(x)' = BlockOf(x)
    BY <1>1, <2>3, <2>4 DEF BlockOf, Of
  <2>6. BlockOf(k)' = acc.nextIndex
    BY <1>1, <2>3 DEF BlockOf, Of
  <2>7. /\ k \notin DOMAIN sent
        /\ DOMAIN sent \cup {k} = (IF acc'.textSeen THEN {Of("text", 0)} ELSE {})
                                    \cup {Of("call", i) : i \in DOMAIN acc'.callBlock}
    BY <1>3, <1>5, <2>3, <2>4
  <2> HIDE DEF k
  <2> QED
    BY <1>1, <2>1, <2>3, <2>4, <2>5, <2>6, <2>7, OpenAIStarts
<1> QED
  BY <1>4, <1>5

\* A call's name or arguments.
LEMMA OpenAICallStep ==
  ASSUME IInv, adapter = "openai", NEW i \in Calls, CallNamed(i) \/ CallArguments(i)
  PROVE  IInv'
<1> DEFINE k == Of("call", i)
<1>1. /\ OpenAITalks /\ wire' = wire
      /\ acc' = CallNoted(i)
      /\ UNCHANGED adapter
      /\ ~done /\ wire = "open"
      /\ \/ /\ Announces(k) /\ view' = CallStarted(i) /\ state' = Raised("provider_started")
         \/ /\ Sends(k) /\ view' = BlockDelta(CallStarted(i), CallBlock(i), pieces)
            /\ state' = Raised("partial_output")
  BY DEF CallNamed, CallArguments, OpenAITalks, Reads
<1>2. OpenAIInv /\ TypeOK
  BY <1>1, OpenAIFacts
<1>3. k \in DOMAIN sent <=> Known(i)
  BY <1>2, OfProperties DEF OpenAIInv, Known
<1>4. CASE Known(i)
  <2>1. acc' = [acc EXCEPT !.started = TRUE] /\ CallStarted(i) = OpenAIStarted /\ CallBlock(i) = BlockOf(k)
    BY <1>1, <1>4, OpenAIBlockOf DEF CallNoted, CallStarted, CallBlock
  <2>2. CASE Sends(k) /\ view' = BlockDelta(CallStarted(i), CallBlock(i), pieces)
             /\ state' = Raised("partial_output")
    <3>1. view' = BlockDelta(OpenAIStarted, BlockOf(k), pieces)
      BY <2>1, <2>2
    <3> HIDE DEF k
    <3> QED
      BY <1>1, <1>3, <1>4, <2>1, <2>2, <3>1, OpenAIGrows
  <2>3. CASE Announces(k) /\ view' = CallStarted(i) /\ state' = Raised("provider_started")
    <3>1. k \in DOMAIN sent
      BY <1>3, <1>4
    <3> HIDE DEF k
    <3>2. /\ DOMAIN sent' = DOMAIN sent
          /\ \A x \in DOMAIN sent : sent'[x] = sent[x]
          /\ pieces' = pieces
      BY <2>3, <3>1 DEF Announces, SentAs, SentOf
    <3>3. ~done /\ UNCHANGED <<adapter, wire, ending>> /\ view' = OpenAIStarted
      BY <1>1, <2>1, <2>3 DEF OpenAITalks
    <3> QED
      BY <2>1, <2>3, <3>2, <3>3, OpenAIQuietStep
  <2> QED
    BY <1>1, <2>2, <2>3
<1>5. CASE ~Known(i)
  <2>1. /\ CallStarted(i) = BlockStart(OpenAIStarted, acc.nextIndex)
        /\ CallBlock(i) = acc.nextIndex
        /\ acc' = [acc EXCEPT !.started = TRUE,
                     !.callBlock = [j \in DOMAIN acc.callBlock \cup {i} |->
                                      IF j = i THEN acc.nextIndex ELSE acc.callBlock[j]],
                     !.callOpen = @ \cup {i},
                     !.nextIndex = @ + 1]
    BY <1>1, <1>5 DEF CallNoted, CallStarted, CallBlock
  <2>2. /\ acc.nextIndex \in Nat
        /\ IsFiniteSet(DOMAIN acc.callBlock) /\ Cardinality(DOMAIN acc.callBlock) \in Nat
    BY <1>2, OpenAIStartedView, CallsBound DEF OpenAIInv
  <2>3. /\ acc'.started = TRUE /\ acc'.textSeen = acc.textSeen /\ acc'.textOpen = acc.textOpen
        /\ acc'.textIndex = acc.textIndex /\ acc'.nextIndex = acc.nextIndex + 1
        /\ acc'.callOpen = acc.callOpen \cup {i}
        /\ DOMAIN acc'.callBlock = DOMAIN acc.callBlock \cup {i}
        /\ acc'.callBlock[i] = acc.nextIndex
        /\ \A j \in DOMAIN acc.callBlock : j # i => acc'.callBlock[j] = acc.callBlock[j]
        /\ acc' \in OpenAIBook(acc'.callBlock)
    <3> DEFINE B == [j \in DOMAIN acc.callBlock \cup {i} |->
                       IF j = i THEN acc.nextIndex ELSE acc.callBlock[j]]
    <3>1. /\ DOMAIN B = DOMAIN acc.callBlock \cup {i}
          /\ B[i] = acc.nextIndex
          /\ \A j \in DOMAIN acc.callBlock : j # i => B[j] = acc.callBlock[j]
      OBVIOUS
    <3>2. acc' = [acc EXCEPT !.started = TRUE, !.callBlock = B,
                             !.callOpen = @ \cup {i}, !.nextIndex = @ + 1]
      BY <2>1
    <3> HIDE DEF B
    <3>3. acc \in OpenAIBook(acc.callBlock)
      BY <1>2 DEF OpenAIInv
    <3>4. /\ acc'.started = TRUE /\ acc'.textSeen = acc.textSeen /\ acc'.textOpen = acc.textOpen
          /\ acc'.textIndex = acc.textIndex /\ acc'.nextIndex = acc.nextIndex + 1
          /\ acc'.callBlock = B
          /\ acc'.callOpen = acc.callOpen \cup {i}
          /\ acc' \in OpenAIBook(B)
      <4> DEFINE a == acc
                 b == acc'
                 C == acc.callBlock
      <4>1. /\ a \in OpenAIBook(C)
            /\ b = [a EXCEPT !.started = TRUE, !.callBlock = B, !.callOpen = @ \cup {i}, !.nextIndex = @ + 1]
        BY <3>2, <3>3
      <4> HIDE DEF a, b, C
      <4>2. /\ b.started = TRUE /\ b.textSeen = a.textSeen /\ b.textOpen = a.textOpen
            /\ b.textIndex = a.textIndex /\ b.nextIndex = a.nextIndex + 1
            /\ b.callBlock = B
            /\ b.callOpen = a.callOpen \cup {i}
            /\ b \in OpenAIBook(B)
        <5>1. a.nextIndex + 1 \in Nat /\ a.callOpen \cup {i} \in SUBSET Calls
          BY <4>1 DEF OpenAIBook
        <5>2. b = [started |-> TRUE, textSeen |-> a.textSeen, textOpen |-> a.textOpen,
                   textIndex |-> a.textIndex, callBlock |-> B,
                   callOpen |-> a.callOpen \cup {i}, nextIndex |-> a.nextIndex + 1]
          BY <4>1 DEF OpenAIBook
        <5> QED
          BY <4>1, <5>1, <5>2 DEF OpenAIBook
      <4> QED
        BY <4>2 DEF a, b
    <3> QED
      BY <3>1, <3>4
  <2>4. /\ i \notin DOMAIN acc.callBlock
        /\ acc.textOpen <=> acc.textSeen
        /\ acc.callOpen = DOMAIN acc.callBlock
        /\ DOMAIN acc.callBlock \subseteq Calls
        /\ acc.nextIndex = Cardinality(DOMAIN acc.callBlock) + (IF acc.textSeen THEN 1 ELSE 0)
        /\ DOMAIN sent = (IF acc.textSeen THEN {Of("text", 0)} ELSE {})
                           \cup {Of("call", j) : j \in DOMAIN acc.callBlock}
    BY <1>1, <1>2, <1>5 DEF OpenAIInv, Known
  <2>5. Cardinality(DOMAIN acc'.callBlock) = Cardinality(DOMAIN acc.callBlock) + 1
    <3> DEFINE D == DOMAIN acc.callBlock
    <3>1. IsFiniteSet(D) /\ i \notin D /\ DOMAIN acc'.callBlock = D \cup {i}
      BY <2>2, <2>3, <2>4
    <3> HIDE DEF D
    <3>2. Cardinality(D \cup {i}) = Cardinality(D) + 1
      BY <3>1, FS_AddElement
    <3> QED
      BY <3>1, <3>2 DEF D
  <2>6. /\ acc'.nextIndex = Cardinality(DOMAIN acc'.callBlock) + (IF acc'.textSeen THEN 1 ELSE 0)
        /\ acc'.callOpen = DOMAIN acc'.callBlock
        /\ acc'.textOpen <=> acc'.textSeen
        /\ DOMAIN acc'.callBlock \subseteq Calls
    BY <2>2, <2>3, <2>4, <2>5
  <2>7. \A x \in DOMAIN sent : BlockOf(x)' = BlockOf(x)
    <3>1. BlockOf(Of("text", 0))' = BlockOf(Of("text", 0))
      BY <1>1, <2>3 DEF BlockOf, Of
    <3>2. \A j \in DOMAIN acc.callBlock : BlockOf(Of("call", j))' = BlockOf(Of("call", j))
      BY <1>1, <2>3, <2>4 DEF BlockOf, Of
    <3> QED
      BY <2>4, <3>1, <3>2
  <2>8. BlockOf(k)' = acc.nextIndex
    BY <1>1, <2>3 DEF BlockOf, Of
  <2>9. /\ k \notin DOMAIN sent
        /\ DOMAIN sent \cup {k} = (IF acc'.textSeen THEN {Of("text", 0)} ELSE {})
                                    \cup {Of("call", j) : j \in DOMAIN acc'.callBlock}
    BY <1>3, <1>5, <2>3, <2>4
  <2>10. \/ /\ Announces(k)
            /\ view' = BlockStart(OpenAIStarted, acc.nextIndex)
            /\ state' = Raised("provider_started")
         \/ /\ Sends(k)
            /\ view' = BlockDelta(BlockStart(OpenAIStarted, acc.nextIndex), acc.nextIndex, pieces)
            /\ state' = Raised("partial_output")
    BY <1>1, <2>1
  <2> HIDE DEF k
  <2> QED
    BY <1>1, <2>3, <2>6, <2>7, <2>8, <2>9, <2>10, OpenAIStarts
<1> QED
  BY <1>4, <1>5

\* finish_reason stops all blocks, and the message.
LEMMA OpenAIFinishStep ==
  ASSUME IInv, adapter = "openai", OpenAIFinish
  PROVE  IInv'
<1> DEFINE n == acc.nextIndex
           w == OpenAIStarted
           S == OpenBlocks
<1>1. /\ ~done /\ wire = "open" /\ wire' = "finished"
      /\ UNCHANGED <<adapter, ending, sent, pieces>>
      /\ view' = MessageStop(BlocksStop(OpenAIStarted, OpenBlocks))
      /\ acc' = [acc EXCEPT !.started = TRUE, !.textOpen = FALSE, !.callOpen = {}]
      /\ state' = Raised("completed")
  BY DEF OpenAIFinish, OpenAITalks, Reads, sending
<1>2. /\ OpenAIInv /\ TypeOK /\ StateInv /\ NothingLostOrMixed
      /\ pieces \in 0..MaxPieces
      /\ \A x \in DOMAIN sent : sent[x] \in Seq(Pieces)
  BY <1>1, OpenAIFacts DEF OpenAIInv
<1>3. /\ n \in Nat /\ w \in View(n) /\ view \in View(n)
      /\ DOMAIN view.blocks = 0..(n - 1)
      /\ \A j \in 0..(n - 1) : w.blocks[j] = view.blocks[j]
      /\ S = 0..(n - 1)
  BY <1>1, <1>2, OpenAIStartedView, OpenAIOpenBlocks DEF OpenAIInv, Has, View
<1>4. /\ view' \in View(n) /\ view'.phase = "stopped"
      /\ DOMAIN view'.blocks = 0..(n - 1)
      /\ \A j \in 0..(n - 1) : /\ view'.blocks[j].data = view.blocks[j].data
                               /\ ~view'.blocks[j].open
  <2> HIDE DEF n, w, S
  <2> DEFINE u == BlocksStop(w, S)
  <2>1. /\ u \in View(n)
        /\ \A j \in 0..(n - 1) : /\ u.blocks[j].data = w.blocks[j].data
                                 /\ u.blocks[j].open <=> w.blocks[j].open /\ j \notin S
    BY <1>3, BlocksClose
  <2> HIDE DEF u
  <2>2. /\ MessageStop(u) \in View(n) /\ MessageStop(u).phase = "stopped"
        /\ MessageStop(u).blocks = u.blocks
    BY <1>3, <2>1, MessageFrame
  <2>3. view' = MessageStop(u)
    BY <1>1 DEF u, w, S
  <2> QED
    BY <1>3, <2>1, <2>2, <2>3 DEF View
<1>5. /\ acc'.started = TRUE
      /\ acc'.textSeen = acc.textSeen /\ acc'.textOpen = FALSE
      /\ acc'.textIndex = acc.textIndex /\ acc'.callBlock = acc.callBlock
      /\ acc'.callOpen = {} /\ acc'.nextIndex = acc.nextIndex
      /\ acc' \in OpenAIBook(acc'.callBlock)
  <2>1. acc \in OpenAIBook(acc.callBlock)
    BY <1>2 DEF OpenAIInv
  <2> QED
    BY <1>1, <2>1 DEF OpenAIBook
<1>6. NothingLostOrMixed'
  <2>1. \A k : BlockOf(k)' = BlockOf(k)
    BY <1>1, <1>5 DEF BlockOf
  <2>2. \A k \in DOMAIN sent : BlockOf(k) \in 0..(n - 1)
    BY <1>2, <1>3 DEF NothingLostOrMixed
  <2> HIDE DEF n
  <2>3. {BlockOf(k) : k \in DOMAIN sent}' = DOMAIN view'.blocks
    <3>1. {BlockOf(k) : k \in DOMAIN sent} = DOMAIN view.blocks
      BY <1>2 DEF NothingLostOrMixed
    <3>2. {BlockOf(k) : k \in DOMAIN sent}' = {BlockOf(k) : k \in DOMAIN sent}
      BY <1>1, <2>1
    <3> QED
      BY <1>3, <1>4, <3>1, <3>2
  <2>4. \A k \in DOMAIN sent : view'.blocks[BlockOf(k)].data = sent[k]
    BY <1>2, <1>4, <2>2 DEF NothingLostOrMixed
  <2>5. \A k, l \in DOMAIN sent : BlockOf(k) = BlockOf(l) => k = l
    BY <1>2 DEF NothingLostOrMixed
  <2> QED
    BY <1>1, <2>1, <2>3, <2>4, <2>5 DEF NothingLostOrMixed
<1>7. OpenAIInv'
  BY <1>1, <1>2, <1>4, <1>5, <1>6 DEF OpenAIInv, Has, Open
<1>8. StateInv' /\ state' \in DOMAIN Rank
  BY <1>1, <1>4, StoppedState
<1>9. TypeOK'
  <2>1. /\ \A x \in DOMAIN sent' : sent'[x] \in Seq(0..(pieces' - 1))
        /\ n \in 0..(MaxCalls + 1)
    BY <1>1, <1>2, OpenAIBound DEF Pieces
  <2> HIDE DEF n
  <2> QED
    BY <1>1, <1>2, <1>4, <1>8, <2>1, TypesOf
<1> QED
  BY <1>1, <1>7, <1>8, <1>9 DEF IInv, ReaderInv

-------------------------------------------------------------------------------
(* The Ollama reader. *)

\* The message has started with the first line, and until it is done the text is all
\* there is.
LEMMA OllamaFacts ==
  ASSUME IInv, adapter = "ollama", OllamaTalks
  PROVE  /\ OllamaInv /\ TypeOK /\ StateInv
         /\ ~done /\ wire = "open" /\ UNCHANGED <<adapter, ending>>
         /\ pieces \in 0..MaxPieces /\ pieces \in Nat
         /\ \A x \in DOMAIN sent : sent[x] \in Seq(Pieces)
         /\ view.phase # "stopped"
         /\ acc.nextIndex = Texts
         /\ acc.textOpen <=> Texts = 1
         /\ DOMAIN sent = IF Texts = 1 THEN {Of("text", 0)} ELSE {}
         /\ view \in View(Texts) /\ OllamaStarted \in View(Texts)
         /\ OllamaStarted.phase = "message"
         /\ \A j \in 0..(Texts - 1) : OllamaStarted.blocks[j] = view.blocks[j]
<1>1. /\ OllamaInv /\ TypeOK /\ StateInv
      /\ ~done /\ wire = "open" /\ UNCHANGED <<adapter, ending>>
      /\ pieces \in 0..MaxPieces /\ pieces \in Nat
      /\ \A x \in DOMAIN sent : sent[x] \in Seq(Pieces)
  BY BoundAssumption DEF IInv, ReaderInv, OllamaTalks, Reads, TypeOK, Pieces
<1>2. /\ acc.nextIndex = Texts /\ Texts \in {0, 1}
      /\ acc.textOpen <=> Texts = 1
      /\ view \in View(Texts)
      /\ view.phase = IF acc.started THEN "message" ELSE "none"
      /\ ~acc.started => Texts = 0
  BY <1>1 DEF OllamaInv, Has, Texts
<1>3. DOMAIN sent = IF Texts = 1 THEN {Of("text", 0)} ELSE {}
  <2>1. 0..(acc.nextIndex - Texts - 1) = {}
    BY <1>2
  <2> QED
    BY <1>1, <2>1 DEF OllamaInv
<1>4. CASE acc.started
  BY <1>1, <1>2, <1>3, <1>4 DEF OllamaStarted
<1>5. CASE ~acc.started
  BY <1>1, <1>2, <1>3, <1>5, MessageFrame DEF OllamaStarted
<1> QED
  BY <1>4, <1>5

\* A line without content.
LEMMA OllamaBareStep ==
  ASSUME IInv, adapter = "ollama", OllamaBare
  PROVE  IInv'
<1>1. /\ OllamaTalks /\ wire' = wire /\ sent' = sent /\ pieces' = pieces
      /\ acc' = [acc EXCEPT !.started = TRUE]
      /\ view' = OllamaStarted
      /\ state' = Raised("provider_started")
  BY DEF OllamaBare, sending
<1>2. /\ OllamaInv /\ TypeOK /\ StateInv
      /\ ~done /\ wire = "open" /\ UNCHANGED <<adapter, ending>>
      /\ pieces \in 0..MaxPieces
      /\ \A x \in DOMAIN sent : sent[x] \in Seq(Pieces)
      /\ view.phase # "stopped"
      /\ acc.nextIndex = Texts /\ Texts \in {0, 1}
      /\ view \in View(Texts) /\ view' \in View(Texts)
      /\ view'.phase = "message"
      /\ \A j \in 0..(Texts - 1) : view'.blocks[j] = view.blocks[j]
  BY <1>1, OllamaFacts DEF Texts
<1>3. Texts' = Texts
  BY <1>1 DEF Texts
<1>4. /\ acc'.started /\ acc'.textOpen = acc.textOpen /\ acc'.nextIndex = acc.nextIndex
      /\ acc' \in [started : BOOLEAN, textOpen : BOOLEAN, nextIndex : 0..(MaxCalls + 1)]
  BY <1>1, <1>2 DEF OllamaInv
<1>5. DOMAIN view.blocks = 0..(Texts - 1) /\ DOMAIN view'.blocks = 0..(Texts - 1)
  BY <1>2 DEF View
<1>6. OllamaInv'
  BY <1>1, <1>2, <1>3, <1>4, <1>5 DEF OllamaInv, Has, Open, Holds
<1>7. Emitted' <=> Emitted
  BY <1>2, <1>5 DEF Emitted
<1>8. StateInv' /\ state' \in DOMAIN Rank
  BY <1>1, <1>2, <1>7, QuietState
<1>9. TypeOK'
  <2>1. /\ \A x \in DOMAIN sent' : sent'[x] \in Seq(0..(pieces' - 1))
        /\ Texts \in 0..(MaxCalls + 1)
    BY <1>1, <1>2, BoundAssumption DEF Pieces
  <2> QED
    BY <1>1, <1>2, <1>8, <2>1, TypesOf
<1> QED
  BY <1>2, <1>6, <1>8, <1>9 DEF IInv, ReaderInv

\* A piece of the text, for which the first makes the block.
LEMMA OllamaTextStep ==
  ASSUME IInv, adapter = "ollama", OllamaText
  PROVE  IInv'
<1> DEFINE k == Of("text", 0)
           w == OllamaStarted
           v == IF acc.textOpen THEN w ELSE BlockStart(w, 0)
<1>1. /\ OllamaTalks /\ wire' = wire /\ Sends(k)
      /\ view' = BlockDelta(v, 0, pieces)
      /\ acc' = IF acc.textOpen THEN [acc EXCEPT !.started = TRUE]
                ELSE [started |-> TRUE, textOpen |-> TRUE, nextIndex |-> 1]
      /\ state' = Raised("partial_output")
  BY DEF OllamaText
<1>2. /\ OllamaInv /\ TypeOK /\ StateInv
      /\ ~done /\ wire = "open" /\ UNCHANGED <<adapter, ending>>
      /\ pieces \in 0..MaxPieces /\ pieces \in Nat
      /\ \A x \in DOMAIN sent : sent[x] \in Seq(Pieces)
      /\ view.phase # "stopped"
      /\ acc.nextIndex = Texts /\ Texts \in {0, 1}
      /\ acc.textOpen <=> Texts = 1
      /\ DOMAIN sent = IF Texts = 1 THEN {k} ELSE {}
      /\ view \in View(Texts) /\ w \in View(Texts)
      /\ w.phase = "message"
      /\ \A j \in 0..(Texts - 1) : w.blocks[j] = view.blocks[j]
  BY <1>1, OllamaFacts DEF Texts
<1>3. /\ v \in View(1)
      /\ v.phase = "message"
      /\ v.blocks[0].open
      /\ v.blocks[0].data = SentOf(k)
  <2>1. CASE acc.textOpen
    <3>1. /\ Texts = 1 /\ 0 \in 0..(1 - 1) /\ k \in DOMAIN sent /\ v = w
      BY <1>2, <2>1
    <3>2. view.blocks[0].open /\ view.blocks[0].data = sent[k]
      BY <1>2, <3>1 DEF OllamaInv, Open, Holds, View
    <3> QED
      BY <1>2, <3>1, <3>2 DEF SentOf
  <2>2. CASE ~acc.textOpen
    <3> HIDE DEF w
    <3>1. 0 \in Nat /\ w \in View(0) /\ SentOf(k) = << >> /\ 0 + 1 = 1
      BY <1>2, <2>2 DEF SentOf
    <3>2. /\ BlockStart(w, 0) \in View(1)
          /\ BlockStart(w, 0).phase = w.phase
          /\ BlockStart(w, 0).blocks[0] = [open |-> TRUE, data |-> << >>]
      BY <3>1, BlockStarts
    <3> QED
      BY <1>2, <2>2, <3>1, <3>2
  <2> QED
    BY <2>1, <2>2
<1>4. /\ DOMAIN sent' = {k}
      /\ sent'[k] = Append(SentOf(k), pieces)
      /\ pieces' \in 0..MaxPieces
      /\ \A x \in DOMAIN sent' : sent'[x] \in Seq(0..(pieces' - 1))
  <2>1. DOMAIN sent \cup {k} = {k}
    BY <1>2
  <2> HIDE DEF k
  <2> QED
    BY <1>1, <1>2, <2>1, SendsProperties
<1>5. /\ view' \in View(1)
      /\ view'.phase = "message"
      /\ view'.blocks[0].open
      /\ view'.blocks[0].data = sent'[k]
      /\ DOMAIN view'.blocks = {0}
  <2> HIDE DEF v
  <2>1. 1 \in Nat /\ 0 \in 0..(1 - 1) /\ 0..(1 - 1) = {0}
    OBVIOUS
  <2>2. /\ BlockDelta(v, 0, pieces) \in View(1)
        /\ BlockDelta(v, 0, pieces).phase = v.phase
        /\ BlockDelta(v, 0, pieces).blocks[0].open = v.blocks[0].open
        /\ BlockDelta(v, 0, pieces).blocks[0].data = Append(v.blocks[0].data, pieces)
    <3>1. v \in View(1) /\ pieces \in Nat
      BY <1>2, <1>3
    <3> QED
      BY <2>1, <3>1, BlockGrows
  <2>3. DOMAIN view'.blocks = 0..(1 - 1)
    BY <1>1, <2>2 DEF View
  <2> QED
    BY <1>1, <1>3, <1>4, <2>1, <2>2, <2>3
<1>6. /\ acc' \in [started : BOOLEAN, textOpen : BOOLEAN, nextIndex : 0..(MaxCalls + 1)]
      /\ acc'.started /\ acc'.textOpen /\ acc'.nextIndex = 1
  <2>1. 1 \in 0..(MaxCalls + 1)
    BY BoundAssumption
  <2> QED
    BY <1>1, <1>2, <2>1 DEF OllamaInv
<1>7. Texts' = 1
  BY <1>4 DEF Texts
<1>8. OllamaInv'
  <2>1. 0..(1 - 1 - 1) = {} /\ 1 - 1 = 0 /\ 0 <= MaxCalls
    BY BoundAssumption
  <2> HIDE DEF v, w
  <2> QED
    BY <1>1, <1>2, <1>4, <1>5, <1>6, <1>7, <2>1 DEF OllamaInv, Has, Open, Holds
<1>9. Emitted'
  <2>1. SentOf(k) \in Seq(Pieces)
    BY <1>2, SentProperties
  <2>2. sent'[k] # << >>
    BY <1>4, <2>1
  <2> QED
    BY <1>5, <2>2 DEF Emitted
<1>10. StateInv' /\ state' \in DOMAIN Rank
  BY <1>1, <1>2, <1>5, <1>9, OutputState
<1>11. TypeOK'
  <2>1. 1 \in 0..(MaxCalls + 1)
    BY BoundAssumption
  <2> QED
    BY <1>1, <1>2, <1>4, <1>5, <1>10, <2>1, TypesOf
<1> QED
  BY <1>2, <1>8, <1>10, <1>11 DEF IInv, ReaderInv

\* The final line: the text stops, and the n calls follow it.
LEMMA OllamaDoneStep ==
  ASSUME IInv, adapter = "ollama", OllamaDone
  PROVE  IInv'
<1>1. PICK n \in 0..MaxCalls :
        /\ SendsCalls(n)
        /\ view' = MessageStop(CallBlocks(
                     BlocksStop(OllamaStarted, IF acc.textOpen THEN {0} ELSE {}), n))
        /\ acc' = [started |-> TRUE, textOpen |-> FALSE, nextIndex |-> acc.nextIndex + n]
  BY DEF OllamaDone
<1> DEFINE m == acc.nextIndex
           w == OllamaStarted
           S == IF acc.textOpen THEN {0} ELSE {}
           u == BlocksStop(w, S)
           C == CallBlocks(u, n)
<1>2. /\ OllamaTalks /\ wire' = "finished"
      /\ state' = Raised("completed")
  BY DEF OllamaDone
<1>3. /\ OllamaInv /\ TypeOK /\ StateInv
      /\ ~done /\ wire = "open" /\ UNCHANGED <<adapter, ending>>
      /\ pieces \in 0..MaxPieces /\ pieces \in Nat
      /\ \A x \in DOMAIN sent : sent[x] \in Seq(Pieces)
      /\ m = Texts /\ m \in {0, 1}
      /\ acc.textOpen <=> m = 1
      /\ DOMAIN sent = IF m = 1 THEN {Of("text", 0)} ELSE {}
      /\ view \in View(m) /\ w \in View(m)
      /\ \A j \in 0..(m - 1) : w.blocks[j] = view.blocks[j]
  BY <1>2, OllamaFacts DEF Texts
<1>4. n \in Nat /\ n <= MaxCalls /\ MaxCalls \in Nat /\ m \in Nat /\ m + n \in Nat
  BY <1>3, BoundAssumption
<1>5. /\ DOMAIN sent' = DOMAIN sent \cup {Of("call", i) : i \in 0..(n - 1)}
      /\ \A x \in DOMAIN sent : sent'[x] = sent[x]
      /\ \A i \in 0..(n - 1) : sent'[Of("call", i)] = <<pieces + i>>
      /\ pieces' = pieces + n /\ pieces' \in 0..MaxPieces
  <2>1. \A i : Of("call", i) \notin DOMAIN sent /\ Of("call", i).at = i
    BY <1>3, OfProperties
  <2>2. pieces + n <= MaxPieces /\ MaxPieces \in Nat
    BY <1>1, BoundAssumption DEF SendsCalls
  <2>3. /\ DOMAIN sent' = DOMAIN sent \cup {Of("call", i) : i \in 0..(n - 1)}
        /\ \A x \in DOMAIN sent : sent'[x] = sent[x]
        /\ \A x \in DOMAIN sent' : x \notin DOMAIN sent => sent'[x] = <<pieces + x.at>>
        /\ pieces' = pieces + n
    BY <1>1 DEF SendsCalls
  <2> HIDE DEF m, w
  <2>4. pieces' = pieces + n /\ pieces' \in 0..MaxPieces
    BY <1>3, <1>4, <2>2, <2>3
  <2>5. ASSUME NEW i \in 0..(n - 1) PROVE sent'[Of("call", i)] = <<pieces + i>>
    <3>1. Of("call", i) \in DOMAIN sent' /\ Of("call", i) \notin DOMAIN sent /\ Of("call", i).at = i
      BY <2>1, <2>3
    <3> QED
      BY <2>3, <3>1
  <2> QED
    BY <2>3, <2>4, <2>5
<1>6. /\ u \in View(m)
      /\ \A j \in 0..(m - 1) : u.blocks[j].data = view.blocks[j].data /\ ~u.blocks[j].open
  <2>1. \A j \in 0..(m - 1) : j \in S
    BY <1>3
  <2> HIDE DEF m, w, S
  <2>2. /\ BlocksStop(w, S) \in View(m)
        /\ \A j \in 0..(m - 1) :
             /\ BlocksStop(w, S).blocks[j].data = w.blocks[j].data
             /\ BlocksStop(w, S).blocks[j].open <=> w.blocks[j].open /\ j \notin S
    BY <1>3, <1>4, BlocksClose
  <2> QED
    BY <1>3, <2>1, <2>2
<1>7. /\ C \in View(m + n)
      /\ \A j \in 0..(m - 1) : C.blocks[j] = u.blocks[j]
      /\ \A i \in 0..(n - 1) : C.blocks[m + i] = [open |-> FALSE, data |-> <<pieces + i>>]
  <2> DEFINE F(j) == IF j >= m THEN [open |-> FALSE, data |-> <<pieces + (j - m)>>]
                                ELSE u.blocks[j]
             B == [j \in DOMAIN u.blocks \cup m..(m + n - 1) |-> F(j)]
  <2>1. C = [u EXCEPT !.blocks = B]
    BY DEF CallBlocks
  <2> HIDE DEF m, u, C
  <2>2. u.blocks \in [0..(m - 1) -> Block] /\ u.phase \in {"none", "message", "stopped"}
    BY <1>6 DEF View
  <2>3. DOMAIN u.blocks \cup m..(m + n - 1) = 0..((m + n) - 1)
    BY <1>4, <2>2
  <2>4. \A j \in 0..((m + n) - 1) : F(j) \in Block
    <3> TAKE j \in 0..((m + n) - 1)
    <3>1. CASE j >= m
      <4>1. <<pieces + (j - m)>> \in Seq(Nat)
        BY <1>3, <1>4, <3>1
      <4> QED
        BY <3>1, <4>1 DEF Block
    <3>2. CASE ~(j >= m)
      BY <1>4, <2>2, <3>2
    <3> QED
      BY <3>1, <3>2
  <2>5. B \in [0..((m + n) - 1) -> Block]
    BY <2>3, <2>4
  <2>6. /\ \A j \in 0..(m - 1) : B[j] = u.blocks[j]
        /\ \A i \in 0..(n - 1) : B[m + i] = [open |-> FALSE, data |-> <<pieces + i>>]
    <3>1. \A j \in 0..(m - 1) : F(j) = u.blocks[j] /\ j \in DOMAIN B
      BY <1>4, <2>3
    <3>2. \A i \in 0..(n - 1) : /\ F(m + i) = [open |-> FALSE, data |-> <<pieces + i>>]
                                /\ m + i \in DOMAIN B
      BY <1>3, <1>4, <2>3
    <3> QED
      BY <3>1, <3>2
  <2> HIDE DEF B, F
  <2>7. C = [phase |-> u.phase, blocks |-> B]
    BY <1>4, <1>6, <2>1, WithBlocks
  <2> QED
    BY <2>2, <2>5, <2>6, <2>7 DEF View
<1>8. /\ view' \in View(m + n) /\ view'.phase = "stopped" /\ view'.blocks = C.blocks
  <2>1. view' = MessageStop(C)
    BY <1>1
  <2> HIDE DEF m, C
  <2> QED
    BY <1>4, <1>7, <2>1, MessageFrame
<1> HIDE DEF u, C, w, S
<1>9. /\ DOMAIN view'.blocks = 0..((m + n) - 1)
      /\ \A j \in 0..((m + n) - 1) : ~view'.blocks[j].open
  <2>1. \A j \in 0..((m + n) - 1) : j \in 0..(m - 1) \/ (j - m \in 0..(n - 1) /\ m + (j - m) = j)
    BY <1>4
  <2> HIDE DEF m
  <2>2. \A i \in 0..(n - 1) : ~view'.blocks[m + i].open
    <3> TAKE i \in 0..(n - 1)
    <3>1. C.blocks[m + i] = [open |-> FALSE, data |-> <<pieces + i>>]
      BY <1>7
    <3>2. view'.blocks[m + i] = C.blocks[m + i]
      BY <1>8
    <3> QED
      BY <3>1, <3>2
  <2>3. \A j \in 0..(m - 1) : ~view'.blocks[j].open
    BY <1>6, <1>7, <1>8
  <2>4. DOMAIN view'.blocks = 0..((m + n) - 1)
    BY <1>8 DEF View
  <2> QED
    BY <2>1, <2>2, <2>3, <2>4
<1>10. Texts' = m
  <2>1. Of("text", 0) \in DOMAIN sent' <=> Of("text", 0) \in DOMAIN sent
    BY <1>5, OfProperties
  <2> QED
    BY <1>3, <2>1 DEF Texts
<1>11. OllamaInv'
  <2>1. /\ acc' \in [started : BOOLEAN, textOpen : BOOLEAN, nextIndex : 0..(MaxCalls + 1)]
        /\ acc'.started /\ ~acc'.textOpen /\ acc'.nextIndex = m + n
    <3>1. m + n \in 0..(MaxCalls + 1)
      BY <1>3, <1>4
    <3> QED
      BY <1>1, <3>1
  <2>2. /\ m <= m + n /\ (m + n) - m <= MaxCalls /\ ((m + n) - m) - 1 = n - 1
    BY <1>4
  <2>3. DOMAIN sent' = (IF m = 1 THEN {Of("text", 0)} ELSE {})
                         \cup {Of("call", i) : i \in 0..(n - 1)}
    BY <1>3, <1>5
  <2>4. m = 1 => view'.blocks[0].data = sent'[Of("text", 0)]
    <3> HAVE m = 1
    <3>1. 0 \in 0..(m - 1) /\ Of("text", 0) \in DOMAIN sent
      BY <1>3
    <3>2. view.blocks[0].data = sent[Of("text", 0)]
      BY <1>3 DEF OllamaInv, Holds
    <3> QED
      BY <1>5, <1>6, <1>7, <1>8, <3>1, <3>2
  <2>5. \A i \in 0..(n - 1) : view'.blocks[m + i].data = sent'[Of("call", i)]
    <3> HIDE DEF m
    <3> TAKE i \in 0..(n - 1)
    <3>1. C.blocks[m + i] = [open |-> FALSE, data |-> <<pieces + i>>]
      BY <1>7
    <3>2. view'.blocks[m + i] = C.blocks[m + i]
      BY <1>8
    <3> QED
      BY <1>5, <3>1, <3>2
  <2> HIDE DEF m
  <2> QED
    BY <1>2, <1>8, <1>9, <1>10, <2>1, <2>2, <2>3, <2>4, <2>5 DEF OllamaInv, Has, Open, Holds
<1>12. StateInv' /\ state' \in DOMAIN Rank
  BY <1>2, <1>3, <1>8, StoppedState
<1>13. TypeOK'
  <2>1. \A x \in DOMAIN sent' : sent'[x] \in Seq(0..(pieces' - 1))
    <3>1. Pieces \subseteq 0..(pieces' - 1)
      BY <1>3, <1>4, <1>5 DEF Pieces
    <3>2. \A x \in DOMAIN sent : sent[x] \in Seq(0..(pieces' - 1))
      BY <1>3, <3>1, SeqGrows
    <3>3. \A i \in 0..(n - 1) : <<pieces + i>> \in Seq(0..(pieces' - 1))
      BY <1>3, <1>4, <1>5
    <3> HIDE DEF m
    <3> QED
      BY <1>5, <3>2, <3>3
  <2>2. m + n \in 0..(MaxCalls + 1)
    BY <1>3, <1>4
  <2> HIDE DEF m
  <2> QED
    BY <1>2, <1>3, <1>5, <1>8, <1>12, <2>1, <2>2, TypesOf
<1> QED
  BY <1>3, <1>11, <1>12, <1>13 DEF IInv, ReaderInv

-------------------------------------------------------------------------------
(* The end, and the invariant. *)

\* The end leaves the message as it is.
LEMMA EndsStep ==
  ASSUME IInv, OpenAIEnds \/ AnthropicEnds \/ OllamaEnds
  PROVE  IInv'
<1>1. /\ ~done /\ done' = TRUE
      /\ UNCHANGED <<adapter, wire, sent, pieces, acc, view>>
      /\ \/ err' = "none" /\ state' = "completed" /\ afterOutput' = afterOutput
         \/ /\ err' \in {"canceled", "failed"} /\ state' = err'
            /\ adapter # "anthropic" => afterOutput' = (state = "partial_output")
            /\ afterOutput' \in BOOLEAN
  BY DEF OpenAIEnds, AnthropicEnds, OllamaEnds, Finish, Mark, Reads, sending
<1>2. TypeOK'
  BY <1>1 DEF IInv, TypeOK
<1>3. NothingLostOrMixed' <=> NothingLostOrMixed
  <2>1. \A k : BlockOf(k)' = BlockOf(k)
    BY <1>1 DEF BlockOf
  <2> QED
    BY <1>1, <2>1 DEF NothingLostOrMixed
<1>4. ReaderInv'
  <2>1. AnthropicInv' <=> AnthropicInv
    BY <1>1 DEF AnthropicInv, Has, Open, Holds
  <2>2. OpenAIInv' <=> OpenAIInv
    BY <1>1, <1>3 DEF OpenAIInv, Has, Open
  <2>3. OllamaInv' <=> OllamaInv
    BY <1>1 DEF OllamaInv, Has, Open, Holds, Texts
  <2> QED
    BY <1>1, <2>1, <2>2, <2>3 DEF IInv, ReaderInv
<1>5. Emitted' <=> Emitted
  BY <1>1 DEF Emitted
<1>6. StateInv'
  BY <1>1, <1>5 DEF IInv, TypeOK, StateInv, StateTellsTheMessage, AfterOutputMidMessage,
     AfterOutputIfEmitted
<1> QED
  BY <1>2, <1>4, <1>6 DEF IInv

\* No message, nothing sent, nothing noted.
LEMMA InvInit == Init => IInv
<1> SUFFICES ASSUME Init PROVE IInv
  OBVIOUS
<1>1. /\ adapter \in {"openai", "anthropic", "ollama"}
      /\ wire = IF adapter = "anthropic" THEN "start" ELSE "open"
      /\ sent = << >> /\ DOMAIN sent = {} /\ pieces = 0
      /\ view = NoMessage /\ view.blocks = << >> /\ DOMAIN view.blocks = {}
      /\ view \in View(0) /\ view.phase = "none"
      /\ state = "opened" /\ done = FALSE /\ err = "none" /\ afterOutput = FALSE
  BY MessageFrame DEF Init
<1>2. IsFiniteSet({}) /\ Cardinality({}) = 0
  BY FS_EmptySet
<1>3. 0..(0 - 1) = {} /\ 0 \in 0..MaxCalls /\ 0 \in 0..(MaxCalls + 1) /\ 0 \in 0..MaxPieces
  BY BoundAssumption
<1>4. TypeOK
  BY <1>1, <1>3 DEF TypeOK, View
<1>5. ~Emitted
  BY <1>1 DEF Emitted
<1>6. StateInv
  BY <1>1, <1>5 DEF StateInv, StateTellsTheMessage, AfterOutputMidMessage,
     AfterOutputIfEmitted, Rank
<1>7. adapter = "anthropic" => AnthropicInv
  <2> HAVE adapter = "anthropic"
  <2>1. acc = AnthropicAcc
    BY DEF Init
  <2> QED
    BY <1>1, <1>2, <1>3, <2>1 DEF AnthropicInv, Has
<1>8. NothingLostOrMixed
  BY <1>1 DEF NothingLostOrMixed
<1>9. adapter = "openai" => OpenAIInv
  <2> HAVE adapter = "openai"
  <2>1. acc = OpenAIAcc
    BY DEF Init
  <2>2. /\ acc.callBlock = << >> /\ DOMAIN acc.callBlock = {}
        /\ ~acc.textSeen /\ ~acc.textOpen /\ ~acc.started /\ acc.callOpen = {}
        /\ acc.nextIndex = 0
        /\ acc \in OpenAIBook(acc.callBlock)
    BY <2>1 DEF OpenAIAcc, OpenAIBook
  <2> QED
    BY <1>1, <1>2, <1>8, <2>2 DEF OpenAIInv, Has
<1>10. adapter = "ollama" => OllamaInv
  <2> HAVE adapter = "ollama"
  <2>1. acc = OllamaAcc
    BY DEF Init
  <2>2. /\ ~acc.textOpen /\ ~acc.started /\ acc.nextIndex = 0
        /\ acc \in [started : BOOLEAN, textOpen : BOOLEAN, nextIndex : 0..(MaxCalls + 1)]
    BY <1>3, <2>1 DEF OllamaAcc
  <2>3. Texts = 0 /\ 0 - 0 <= MaxCalls /\ 0..(0 - 0 - 1) = {}
    BY <1>1, BoundAssumption DEF Texts
  <2> QED
    BY <1>1, <2>2, <2>3 DEF OllamaInv, Has
<1> QED
  BY <1>1, <1>4, <1>6, <1>7, <1>9, <1>10 DEF IInv, ReaderInv

\* Every step keeps the invariant.
LEMMA InvStep == IInv /\ [Next]_vars => IInv'
<1> SUFFICES ASSUME IInv, [Next]_vars PROVE IInv'
  OBVIOUS
<1>1. CASE OpenAINext
  <2>1. CASE OpenAIEnds
    BY <2>1, EndsStep
  <2>2. CASE OpenAIBare
    <3>1. /\ adapter = "openai" /\ ~done /\ UNCHANGED <<adapter, wire, ending>>
          /\ acc' = [acc EXCEPT !.started = TRUE]
          /\ view' = OpenAIStarted
          /\ state' = Raised("provider_started")
          /\ DOMAIN sent' = DOMAIN sent
          /\ \A x \in DOMAIN sent : sent'[x] = sent[x]
          /\ pieces' = pieces
      BY <2>2 DEF OpenAIBare, Reads, sending
    <3> QED
      BY <3>1, OpenAIQuietStep
  <2>3. CASE OpenAIText
    BY <2>3, OpenAITextStep DEF OpenAIText, OpenAITalks, Reads
  <2>4. CASE OpenAIFinish
    BY <2>4, OpenAIFinishStep DEF OpenAIFinish, OpenAITalks, Reads
  <2>5. ASSUME NEW i \in Calls, CallNamed(i) \/ CallArguments(i) PROVE IInv'
    BY <2>5, OpenAICallStep DEF CallNamed, CallArguments, OpenAITalks, Reads
  <2> QED
    BY <1>1, <2>1, <2>2, <2>3, <2>4, <2>5 DEF OpenAINext
<1>2. CASE AnthropicNext
  <2>1. CASE AnthropicEnds
    BY <2>1, EndsStep
  <2>2. adapter = "anthropic"
    BY <1>2 DEF AnthropicNext, AnthropicStart, AnthropicBlockStart, AnthropicBlockDelta,
       AnthropicBlockStop, AnthropicStop, AnthropicEnds, AnthropicTalks, Reads
  <2> QED
    BY <1>2, <2>1, <2>2, AnthropicStep
<1>3. CASE OllamaNext
  <2>1. CASE OllamaEnds
    BY <2>1, EndsStep
  <2>2. CASE OllamaBare
    BY <2>2, OllamaBareStep DEF OllamaBare, OllamaTalks, Reads
  <2>3. CASE OllamaText
    BY <2>3, OllamaTextStep DEF OllamaText, OllamaTalks, Reads
  <2>4. CASE OllamaDone
    BY <2>4, OllamaDoneStep DEF OllamaDone, OllamaTalks, Reads
  <2> QED
    BY <1>3, <2>1, <2>2, <2>3, <2>4 DEF OllamaNext
<1>4. CASE UNCHANGED vars
  <2>1. UNCHANGED <<adapter, wire, sent, pieces, acc, view, state, done, err, afterOutput>>
    BY <1>4 DEF vars
  <2>2. NothingLostOrMixed' <=> NothingLostOrMixed
    <3>1. \A k : BlockOf(k)' = BlockOf(k)
      BY <2>1 DEF BlockOf
    <3> QED
      BY <2>1, <3>1 DEF NothingLostOrMixed
  <2>3. ReaderInv'
    <3>1. AnthropicInv' <=> AnthropicInv
      BY <2>1 DEF AnthropicInv, Has, Open, Holds
    <3>2. OpenAIInv' <=> OpenAIInv
      BY <2>1, <2>2 DEF OpenAIInv, Has, Open
    <3>3. OllamaInv' <=> OllamaInv
      BY <2>1 DEF OllamaInv, Has, Open, Holds, Texts
    <3> QED
      BY <2>1, <3>1, <3>2, <3>3 DEF IInv, ReaderInv
  <2>4. TypeOK'
    BY <2>1 DEF IInv, TypeOK
  <2>5. StateInv'
    BY <2>1 DEF IInv, StateInv, StateTellsTheMessage, AfterOutputMidMessage,
       AfterOutputIfEmitted, Emitted
  <2> QED
    BY <2>3, <2>4, <2>5 DEF IInv
<1> QED
  BY <1>1, <1>2, <1>3, <1>4 DEF Next

\* The inductive invariant holds throughout.
THEOREM Invariance == Spec => []IInv
<1> QED
  BY InvInit, InvStep, PTL DEF Spec

-------------------------------------------------------------------------------
(* The properties that the runs check. *)

\* Anthropic's blocks have the provider's indices.
LEMMA AnthropicCorresponds ==
  ASSUME AnthropicInv, adapter = "anthropic"
  PROVE  NothingLostOrMixed
<1> DEFINE n == Cardinality(DOMAIN sent)
<1>1. /\ DOMAIN sent = {Of("block", i) : i \in 0..(n - 1)}
      /\ DOMAIN view.blocks = 0..(n - 1)
      /\ \A i \in 0..(n - 1) : view.blocks[i].data = sent[Of("block", i)]
  BY DEF AnthropicInv, Has, View, Holds
<1>2. \A i : BlockOf(Of("block", i)) = i
  BY DEF BlockOf, Of
<1> HIDE DEF n
<1>3. {BlockOf(k) : k \in DOMAIN sent} = 0..(n - 1)
  BY <1>1, <1>2
<1> QED
  BY <1>1, <1>2, <1>3 DEF NothingLostOrMixed

\* Ollama's are the text and then the calls.
LEMMA OllamaCorresponds ==
  ASSUME OllamaInv, adapter = "ollama"
  PROVE  NothingLostOrMixed
<1> DEFINE t == Texts
           m == acc.nextIndex
<1>1. t \in {0, 1} /\ m \in Nat /\ t <= m
  BY BoundAssumption DEF OllamaInv, Texts
<1>2. /\ DOMAIN view.blocks = 0..(m - 1)
      /\ DOMAIN sent = (IF t = 1 THEN {Of("text", 0)} ELSE {})
                         \cup {Of("call", i) : i \in 0..(m - t - 1)}
      /\ t = 1 => view.blocks[0].data = sent[Of("text", 0)]
      /\ \A i \in 0..(m - t - 1) : view.blocks[t + i].data = sent[Of("call", i)]
  BY DEF OllamaInv, Has, View, Holds
<1>3. /\ BlockOf(Of("text", 0)) = 0
      /\ \A i : BlockOf(Of("call", i)) = i + t
  <2>1. Cardinality({Of("text", 0)} \cap DOMAIN sent) = t
    <3>1. {Of("text", 0)} \cap DOMAIN sent = IF t = 1 THEN {Of("text", 0)} ELSE {}
      BY DEF Texts
    <3>2. Cardinality({}) = 0 /\ Cardinality({Of("text", 0)}) = 1
      BY FS_EmptySet, FS_Singleton
    <3> HIDE DEF t
    <3> QED
      BY <1>1, <3>1, <3>2
  <2> HIDE DEF t
  <2> QED
    BY <2>1 DEF BlockOf, Of
<1> HIDE DEF t, m
<1>4. {BlockOf(k) : k \in DOMAIN sent} = DOMAIN view.blocks
  <2>1. \A k \in DOMAIN sent : BlockOf(k) \in 0..(m - 1)
    BY <1>1, <1>2, <1>3
  <2>2. ASSUME NEW j \in 0..(m - 1) PROVE \E k \in DOMAIN sent : BlockOf(k) = j
    <3>1. CASE j < t
      <4>1. j = 0 /\ t = 1
        BY <1>1, <3>1
      <4> QED
        BY <1>2, <1>3, <4>1
    <3>2. CASE ~(j < t)
      <4>1. (j - t) \in 0..(m - t - 1) /\ (j - t) + t = j
        BY <1>1, <3>2
      <4>2. Of("call", j - t) \in DOMAIN sent /\ BlockOf(Of("call", j - t)) = j
        BY <1>2, <1>3, <4>1
      <4> QED
        BY <4>2
    <3> QED
      BY <3>1, <3>2
  <2> QED
    BY <1>2, <2>1, <2>2
<1>5. \A k \in DOMAIN sent : view.blocks[BlockOf(k)].data = sent[k]
  <2>1. \A i \in 0..(m - t - 1) : i + t = t + i
    BY <1>1
  <2> QED
    BY <1>2, <1>3, <2>1
<1>6. \A k, l \in DOMAIN sent : BlockOf(k) = BlockOf(l) => k = l
  BY <1>1, <1>2, <1>3
<1> QED
  BY <1>4, <1>5, <1>6 DEF NothingLostOrMixed

\* Whichever the provider, what the consumer has is what was sent.
LEMMA Corresponds == IInv => NothingLostOrMixed
BY AnthropicCorresponds, OllamaCorresponds DEF IInv, TypeOK, ReaderInv, OpenAIInv

\* The types of the readers' state, and the indices 0, 1, 2, ... of the blocks that they
\* announce, for whatever a provider sends (pkg/providers/*/stream.go).
THEOREM ReaderTypes == Spec => []TypeOK
<1>1. IInv => TypeOK
  BY DEF IInv
<1> QED
  BY Invariance, <1>1, PTL

\* No reader loses a piece, appends it to another block, or reorders the pieces of one,
\* however the provider interleaves its text and calls, and wherever it breaks off.
THEOREM NothingIsLostOrMixed == Spec => []NothingLostOrMixed
<1> QED
  BY Invariance, Corresponds, PTL

\* Until the end State() tells the place in the message (chat/stream.go:42-44).
THEOREM StateTells == Spec => []StateTellsTheMessage
<1>1. IInv => StateTellsTheMessage
  BY DEF IInv, StateInv
<1> QED
  BY Invariance, <1>1, PTL

\* An error of the OpenAI or the Ollama reader in the middle of a message says whether
\* output was emitted before it, which decides about a fallback (errors.go:38).
THEOREM AfterOutputTells == Spec => []AfterOutputMidMessage
<1>1. IInv => AfterOutputMidMessage
  BY DEF IInv, StateInv
<1> QED
  BY Invariance, <1>1, PTL

-------------------------------------------------------------------------------
(* The refinement of BlockStream.  Blocks hold what was sent, so that they only grow  *)
(* because sent does, and because each of the provider's texts, calls and blocks keeps *)
(* the block it has.                                                                *)

Ends == OpenAIEnds \/ AnthropicEnds \/ OllamaEnds

\* A sequence extends itself, and with one more element does so still.
LEMMA ExtendsProperties ==
  ASSUME NEW S, NEW s \in Seq(S)
  PROVE  /\ Consumer!Extends(s, s)
         /\ \A e \in S : Consumer!Extends(Append(s, e), s)
BY DEF Consumer!Extends

\* No piece is taken back.
LEMMA SentGrows ==
  ASSUME IInv, Next, ~Ends
  PROVE  /\ DOMAIN sent \subseteq DOMAIN sent'
         /\ \A k \in DOMAIN sent : Consumer!Extends(sent'[k], sent[k])
<1>1. /\ \A x \in DOMAIN sent : sent[x] \in Seq(Nat)
      /\ pieces \in Nat
  <2>1. /\ \A x \in DOMAIN sent : sent[x] \in Seq(Pieces)
        /\ pieces \in Nat
        /\ Pieces \subseteq Nat
    BY BoundAssumption DEF IInv, TypeOK, Pieces
  <2> QED
    BY <2>1, SeqGrows
<1>2. \A x \in DOMAIN sent : /\ Consumer!Extends(sent[x], sent[x])
                             /\ Consumer!Extends(Append(sent[x], pieces), sent[x])
  BY <1>1, ExtendsProperties
<1>3. CASE sent' = sent
  BY <1>2, <1>3
<1>4. ASSUME NEW k, Announces(k) \/ Sends(k)
      PROVE  /\ DOMAIN sent \subseteq DOMAIN sent'
             /\ \A x \in DOMAIN sent : sent'[x] = sent[x] \/ sent'[x] = Append(sent[x], pieces)
  BY <1>4 DEF Announces, Sends, SentAs, SentOf
<1>5. ASSUME NEW n \in 0..MaxCalls, SendsCalls(n)
      PROVE  /\ DOMAIN sent \subseteq DOMAIN sent'
             /\ \A x \in DOMAIN sent : sent'[x] = sent[x]
  BY <1>5 DEF SendsCalls
<1>6. \/ sent' = sent
      \/ \E k : Announces(k) \/ Sends(k)
      \/ \E n \in 0..MaxCalls : SendsCalls(n)
  <2>1. CASE OpenAINext
    BY <2>1 DEF Ends, OpenAINext, OpenAIBare, OpenAIText, OpenAIFinish, CallNamed, CallArguments,
       sending
  <2>2. CASE AnthropicNext
    BY <2>2 DEF Ends, AnthropicNext, AnthropicStart, AnthropicBlockStart, AnthropicBlockDelta,
       AnthropicBlockStop, AnthropicStop, sending
  <2>3. CASE OllamaNext
    BY <2>3 DEF Ends, OllamaNext, OllamaBare, OllamaText, OllamaDone, sending
  <2> QED
    BY <2>1, <2>2, <2>3 DEF Next
<1> QED
  BY <1>2, <1>3, <1>4, <1>5, <1>6

\* What has a block keeps it.
LEMMA BlockStays ==
  ASSUME IInv, Next, ~Ends
  PROVE  \A k \in DOMAIN sent : BlockOf(k)' = BlockOf(k)
<1>1. CASE OpenAINext
  <2>1. /\ OpenAIInv /\ adapter = "openai" /\ adapter' = "openai"
    BY <1>1 DEF Ends, OpenAINext, OpenAIBare, OpenAIText, OpenAIFinish, CallNamed, CallArguments,
       OpenAITalks, Reads, IInv, ReaderInv
  <2>2. /\ acc \in OpenAIBook(acc.callBlock)
        /\ DOMAIN sent = (IF acc.textSeen THEN {Of("text", 0)} ELSE {})
                           \cup {Of("call", i) : i \in DOMAIN acc.callBlock}
    BY <2>1 DEF OpenAIInv
  <2>3. /\ acc.textSeen => acc'.textIndex = acc.textIndex
        /\ \A j \in DOMAIN acc.callBlock : acc'.callBlock[j] = acc.callBlock[j]
    <3>1. CASE OpenAIBare
      BY <2>2, <3>1 DEF OpenAIBare, OpenAIBook
    <3>2. CASE OpenAIText
      BY <2>2, <3>2 DEF OpenAIText, OpenAIBook
    <3>3. CASE OpenAIFinish
      BY <2>2, <3>3 DEF OpenAIFinish, OpenAIBook
    <3>4. ASSUME NEW i \in Calls, CallNamed(i) \/ CallArguments(i)
          PROVE  /\ acc'.textIndex = acc.textIndex
                 /\ \A j \in DOMAIN acc.callBlock : acc'.callBlock[j] = acc.callBlock[j]
      <4>1. acc' = CallNoted(i)
        BY <3>4 DEF CallNamed, CallArguments
      <4>2. CASE Known(i)
        BY <2>2, <4>1, <4>2 DEF CallNoted, OpenAIBook
      <4>3. CASE ~Known(i)
        <5> DEFINE B == [j \in DOMAIN acc.callBlock \cup {i} |->
                           IF j = i THEN CallBlock(i) ELSE acc.callBlock[j]]
        <5>1. \A j \in DOMAIN acc.callBlock : B[j] = acc.callBlock[j]
          BY <4>3 DEF Known
        <5>2. acc' = [acc EXCEPT !.started = TRUE, !.callBlock = B,
                                 !.callOpen = @ \cup {i}, !.nextIndex = @ + 1]
          BY <4>1, <4>3 DEF CallNoted
        <5> HIDE DEF B
        <5>3. acc'.textIndex = acc.textIndex /\ acc'.callBlock = B
          BY <2>2, <5>2 DEF OpenAIBook
        <5> QED
          BY <5>1, <5>3
      <4> QED
        BY <4>2, <4>3
    <3> QED
      BY <1>1, <3>1, <3>2, <3>3, <3>4 DEF OpenAINext, Ends
  <2> QED
    BY <2>1, <2>2, <2>3 DEF BlockOf, Of
<1>2. CASE AnthropicNext
  <2>1. AnthropicInv /\ adapter = "anthropic" /\ adapter' = "anthropic"
    BY <1>2 DEF Ends, AnthropicNext, AnthropicStart, AnthropicBlockStart, AnthropicBlockDelta,
       AnthropicBlockStop, AnthropicStop, AnthropicTalks, Reads, IInv, ReaderInv
  <2>2. \A k \in DOMAIN sent : k.kind = "block"
    BY <2>1, OfProperties DEF AnthropicInv
  <2> QED
    BY <2>1, <2>2 DEF BlockOf
<1>3. CASE OllamaNext
  <2>1. OllamaTalks /\ adapter = "ollama" /\ adapter' = "ollama"
    BY <1>3 DEF Ends, OllamaNext, OllamaBare, OllamaText, OllamaDone, OllamaTalks, Reads
  <2>2. \A k \in DOMAIN sent : k = Of("text", 0)
    BY <2>1, OllamaFacts
  <2> QED
    BY <2>1, <2>2, OfProperties DEF BlockOf
<1> QED
  BY <1>1, <1>2, <1>3 DEF Next

\* A message that goes on has all of its blocks open, or Anthropic's last one; what is in a
\* block that is stopped gets no more pieces, and the block is not opened again.
LEMMA StoppedStays ==
  ASSUME IInv, IInv', Next, ~Ends, view.phase # "stopped",
         NEW k \in DOMAIN sent, ~view.blocks[BlockOf(k)].open
  PROVE  sent'[k] = sent[k] /\ view'.blocks[BlockOf(k)].open = FALSE
<1>1. BlockOf(k) \in DOMAIN view.blocks
  BY Corresponds DEF NothingLostOrMixed
<1>2. adapter = "anthropic"
  <2>1. CASE adapter = "openai"
    BY <1>1, <2>1 DEF IInv, ReaderInv, OpenAIInv, Open
  <2>2. CASE adapter = "ollama"
    BY <1>1, <2>2 DEF IInv, ReaderInv, OllamaInv, Open
  <2> QED
    BY <2>1, <2>2 DEF IInv, TypeOK
<1>3. AnthropicNext /\ AnthropicInv /\ AnthropicInv'
  <2>1. AnthropicNext
    BY <1>2 DEF Ends, Next, OpenAINext, OpenAIBare, OpenAIText, OpenAIFinish, CallNamed,
       CallArguments, OpenAITalks, OllamaNext, OllamaBare, OllamaText, OllamaDone,
       OllamaTalks, Reads
  <2>2. adapter' = adapter
    BY <2>1 DEF Ends, AnthropicNext, AnthropicStart, AnthropicBlockStart, AnthropicBlockDelta,
       AnthropicBlockStop, AnthropicStop, AnthropicTalks
  <2> QED
    BY <1>2, <2>1, <2>2 DEF IInv, ReaderInv
<1> DEFINE n == Cardinality(DOMAIN sent)
           i == BlockOf(k)
<1>4. /\ n \in Nat /\ i \in 0..(n - 1) /\ k = Of("block", i)
      /\ ~(wire = "block" /\ i = n - 1)
      /\ IsFiniteSet(DOMAIN sent)
      /\ Of("block", n) \notin DOMAIN sent
  <2>1. k.kind = "block" /\ i = k.at
    BY <1>2, <1>3, OfProperties DEF AnthropicInv, BlockOf
  <2>2. PICK b \in 0..(n - 1) : k = Of("block", b)
    BY <1>3 DEF AnthropicInv
  <2>3. i = b
    BY <2>1, <2>2, OfProperties
  <2> QED
    BY <1>3, <2>2, <2>3, AnthropicBlocks DEF AnthropicInv, Open
<1>5. sent'[k] = sent[k] /\ k \in DOMAIN sent' /\ ~(wire' = "block" /\ i = Cardinality(DOMAIN sent') - 1)
  <2> HIDE DEF i
  <2>1. CASE AnthropicStart \/ AnthropicBlockStop \/ AnthropicStop
    BY <1>4, <2>1 DEF AnthropicStart, AnthropicBlockStop, AnthropicStop, sending
  <2>2. CASE AnthropicBlockStart
    <3>1. /\ DOMAIN sent' = DOMAIN sent \cup {Of("block", n)}
          /\ \A x \in DOMAIN sent : sent'[x] = sent[x]
      BY <1>4, <2>2 DEF AnthropicBlockStart, Announces, SentAs
    <3>2. Cardinality(DOMAIN sent') = n + 1
      BY <1>4, <3>1, FS_AddElement
    <3> QED
      BY <1>4, <3>1, <3>2
  <2>3. CASE AnthropicBlockDelta
    <3>1. wire = "block" /\ wire' = wire /\ Sends(Of("block", n - 1))
      BY <2>3 DEF AnthropicBlockDelta, AnthropicTalks, Latest
    <3>2. Of("block", n - 1) \in DOMAIN sent /\ k # Of("block", n - 1)
      <4>1. n - 1 \in 0..(n - 1) /\ i # n - 1
        BY <1>4, <3>1
      <4> QED
        BY <1>3, <1>4, <4>1, OfProperties DEF AnthropicInv
    <3>3. DOMAIN sent' = DOMAIN sent /\ sent'[k] = sent[k]
      <4> DEFINE l == Of("block", n - 1)
      <4>1. l \in DOMAIN sent /\ k # l /\ Sends(l)
        BY <3>1, <3>2
      <4> HIDE DEF l
      <4> QED
        BY <4>1 DEF Sends, SentAs
    <3> QED
      BY <1>4, <3>1, <3>3
  <2> QED
    BY <1>3, <2>1, <2>2, <2>3 DEF AnthropicNext, Ends
<1>6. view'.blocks[i].open = FALSE
  <2>1. i \in 0..(Cardinality(DOMAIN sent') - 1)
    <3>1. PICK b \in 0..(Cardinality(DOMAIN sent') - 1) : k = Of("block", b)
      BY <1>3, <1>5 DEF AnthropicInv
    <3> QED
      BY <1>4, <3>1, OfProperties
  <2>2. view'.blocks[i] \in Block
    BY <1>3, <2>1 DEF AnthropicInv, Has, View
  <2>3. ~view'.blocks[i].open
    BY <1>3, <1>5, <2>1 DEF AnthropicInv, Open
  <2> QED
    BY <2>2, <2>3 DEF Block
<1> QED
  BY <1>5, <1>6

\* Blocks are added at the next index, grow while they are open, and are then left alone.
LEMMA BlocksGrown ==
  ASSUME IInv, IInv', Next, ~Ends, view.phase # "stopped"
  PROVE  Consumer!Grown
<1>1. PICK n \in 0..(MaxCalls + 1), m \in 0..(MaxCalls + 1) :
        view.blocks \in [0..(n - 1) -> Block] /\ view'.blocks \in [0..(m - 1) -> Block]
  BY DEF IInv, TypeOK
<1>2. /\ NothingLostOrMixed /\ NothingLostOrMixed'
      /\ \A k \in DOMAIN sent : BlockOf(k)' = BlockOf(k)
      /\ DOMAIN sent \subseteq DOMAIN sent'
      /\ \A k \in DOMAIN sent : Consumer!Extends(sent'[k], sent[k])
  <2>1. NothingLostOrMixed /\ NothingLostOrMixed'
    BY Corresponds, PTL
  <2> QED
    BY <2>1, BlockStays, SentGrows
<1>3. ASSUME NEW i \in DOMAIN view.blocks
      PROVE  /\ i \in DOMAIN view'.blocks
             /\ IF view.blocks[i].open
                  THEN Consumer!Extends(view'.blocks[i].data, view.blocks[i].data)
                  ELSE view'.blocks[i] = view.blocks[i]
  <2>1. PICK k \in DOMAIN sent : BlockOf(k) = i
    <3>1. i \in {BlockOf(k) : k \in DOMAIN sent}
      BY <1>2 DEF NothingLostOrMixed
    <3> QED
      BY <3>1
  <2>2. /\ i \in DOMAIN view'.blocks
        /\ view.blocks[i].data = sent[k] /\ view'.blocks[i].data = sent'[k]
    <3>1. k \in DOMAIN sent' /\ BlockOf(k)' = i
      BY <1>2, <2>1
    <3>2. {BlockOf(x) : x \in DOMAIN sent}' = DOMAIN view'.blocks
      BY <1>2 DEF NothingLostOrMixed
    <3>3. BlockOf(k)' \in {BlockOf(x) : x \in DOMAIN sent}'
      BY <3>1
    <3>4. view.blocks[BlockOf(k)].data = sent[k]
      BY <1>2 DEF NothingLostOrMixed
    <3>5. view'.blocks[BlockOf(k)'].data = sent'[k]
      BY <1>2, <3>1 DEF NothingLostOrMixed
    <3> QED
      BY <2>1, <3>1, <3>2, <3>3, <3>4, <3>5
  <2>3. CASE view.blocks[i].open
    BY <1>2, <2>2, <2>3
  <2>4. CASE ~view.blocks[i].open
    <3>1. sent'[k] = sent[k] /\ view'.blocks[i].open = FALSE
      BY <2>1, <2>4, StoppedStays
    <3>2. view.blocks[i] \in Block /\ view'.blocks[i] \in Block
      BY <1>1, <2>2
    <3> QED
      BY <2>2, <2>4, <3>1, <3>2 DEF Block
  <2> QED
    BY <2>2, <2>3, <2>4
<1>4. \A i \in DOMAIN view'.blocks : \A j \in 0..i : j \in DOMAIN view'.blocks
  <2>1. DOMAIN view'.blocks = 0..(m - 1) /\ m \in Int
    BY <1>1
  <2> QED
    BY <2>1
<1> QED
  BY <1>3, <1>4 DEF Consumer!Grown

\* Every event for the blocks is progress, or a chunk behind the finish that they do not
\* see.
LEMMA ProgressStep ==
  ASSUME IInv, IInv', Next, ~Ends
  PROVE  [Consumer!StreamNext]_(Consumer!streamVars)
<1>1. ~done /\ UNCHANGED <<done, err, adapter>>
  <2>1. CASE OpenAINext
    BY <2>1 DEF Ends, OpenAINext, OpenAIBare, OpenAIText, OpenAIFinish, CallNamed, CallArguments,
       OpenAITalks, Reads, ending
  <2>2. CASE AnthropicNext
    BY <2>2 DEF Ends, AnthropicNext, AnthropicStart, AnthropicBlockStart, AnthropicBlockDelta,
       AnthropicBlockStop, AnthropicStop, AnthropicTalks, Reads, ending
  <2>3. CASE OllamaNext
    BY <2>3 DEF Ends, OllamaNext, OllamaBare, OllamaText, OllamaDone, OllamaTalks, Reads, ending
  <2> QED
    BY <2>1, <2>2, <2>3 DEF Next
<1>2. CASE view.phase = "stopped"
  <2>1. wire = "finished"
    BY <1>2 DEF IInv, TypeOK, ReaderInv, OpenAIInv, AnthropicInv, OllamaInv
  <2>2. OpenAIBare /\ adapter = "openai"
    BY <2>1 DEF Ends, Next, OpenAINext, OpenAIBare, OpenAIText, OpenAIFinish, CallNamed,
       CallArguments, OpenAITalks, AnthropicNext, AnthropicStart, AnthropicBlockStart,
       AnthropicBlockDelta, AnthropicBlockStop, AnthropicStop, AnthropicTalks,
       OllamaNext, OllamaBare, OllamaText, OllamaDone, OllamaTalks, Reads
  <2>3. view' = view
    BY <2>1, <2>2, OpenAIStartedView DEF OpenAIBare, IInv, ReaderInv
  <2> QED
    BY <1>1, <2>3 DEF Consumer!streamVars
<1>3. CASE view.phase # "stopped"
  <2>1. Consumer!Grown
    BY <1>3, BlocksGrown
  <2>2. view'.phase \in {"message", "stopped"}
    <3>1. view'.phase # "none"
      <4>1. CASE OpenAINext
        <5>1. /\ OpenAIInv'
              /\ acc \in OpenAIBook(acc.callBlock)
          BY <1>1, <4>1 DEF IInv, ReaderInv, OpenAIInv, OpenAINext, OpenAIBare, OpenAIText,
             OpenAIFinish, OpenAIEnds, CallNamed, CallArguments, OpenAITalks, Reads
        <5>2. acc'.started = TRUE
          <6>1. ASSUME NEW i, acc' = CallNoted(i) PROVE acc'.started = TRUE
            BY <5>1, <6>1 DEF CallNoted, OpenAIBook
          <6>2. CASE OpenAIBare \/ OpenAIText \/ OpenAIFinish
            BY <5>1, <6>2 DEF OpenAIBare, OpenAIText, OpenAIFinish, OpenAIBook
          <6> QED
            BY <4>1, <6>1, <6>2 DEF OpenAINext, Ends, CallNamed, CallArguments
        <5> QED
          BY <5>1, <5>2 DEF OpenAIInv
      <4>2. CASE AnthropicNext
        <5>1. AnthropicInv' /\ wire' # "start"
          BY <1>1, <4>2 DEF IInv, ReaderInv, Ends, AnthropicNext, AnthropicStart,
             AnthropicBlockStart, AnthropicBlockDelta, AnthropicBlockStop, AnthropicStop,
             AnthropicTalks, Reads
        <5> QED
          BY <5>1 DEF AnthropicInv
      <4>3. CASE OllamaNext
        <5>1. /\ OllamaInv'
              /\ acc \in [started : BOOLEAN, textOpen : BOOLEAN, nextIndex : 0..(MaxCalls + 1)]
          BY <1>1, <4>3 DEF IInv, ReaderInv, OllamaInv, OllamaNext, OllamaBare, OllamaText,
             OllamaDone, OllamaEnds, OllamaTalks, Reads
        <5>2. acc'.started = TRUE
          BY <4>3, <5>1 DEF OllamaNext, OllamaBare, OllamaText, OllamaDone, Ends
        <5> QED
          BY <5>1, <5>2 DEF OllamaInv
      <4> QED
        BY <4>1, <4>2, <4>3 DEF Next
    <3> QED
      BY <3>1 DEF IInv, TypeOK
  <2>3. view'.phase = "stopped" => \A i \in DOMAIN view'.blocks : ~view'.blocks[i].open
    BY DEF IInv, TypeOK, ReaderInv, OpenAIInv, AnthropicInv, OllamaInv, Open, Has, View
  <2>4. Consumer!Progress
    BY <1>1, <1>3, <2>1, <2>2, <2>3 DEF Consumer!Progress
  <2> QED
    BY <2>4 DEF Consumer!StreamNext
<1> QED
  BY <1>2, <1>3

\* Each reader is a stream of blocks as its consumers expect it (chat/stream.go): blocks open
\* once and at the next index, only grow, are stopped before the message is, and nothing
\* follows the end.
THEOREM Refinement == Spec => ImplementsBlockStream
<1>1. Init => Consumer!StreamInit
  BY MessageFrame DEF Init, Consumer!StreamInit
<1>2. IInv /\ IInv' /\ [Next]_vars => [Consumer!StreamNext]_(Consumer!streamVars)
  <2> SUFFICES ASSUME IInv, IInv', [Next]_vars
               PROVE  [Consumer!StreamNext]_(Consumer!streamVars)
    OBVIOUS
  <2>1. CASE Next /\ ~Ends
    BY <2>1, ProgressStep
  <2>2. CASE Ends
    <3>1. /\ ~done /\ done' = TRUE /\ view' = view /\ err' \in {"none", "canceled", "failed"}
      BY <2>2 DEF Ends, OpenAIEnds, AnthropicEnds, OllamaEnds, Finish, Mark, Reads
    <3>2. Consumer!Conclude
      BY <3>1 DEF Consumer!Conclude
    <3> QED
      BY <3>2 DEF Consumer!StreamNext
  <2>3. CASE UNCHANGED vars
    BY <2>3 DEF vars, Consumer!streamVars
  <2> QED
    BY <2>1, <2>2, <2>3
<1> QED
  BY <1>1, <1>2, Invariance, PTL DEF Spec, ImplementsBlockStream, Consumer!StreamSpec
================================================================================
