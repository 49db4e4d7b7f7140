----------------------------- MODULE SessionTurns -----------------------------
(***************************************************************************)
(* Sessions under concurrent requests: the in-memory store                 *)
(* (pkg/session/memory.go), the Binder through which the harness reaches   *)
(* it, the session steps of Harness.Send and Harness.Stream, and the       *)
(* session handlers of pkg/httpapi.  One element of Requests is one client *)
(* request (an "edit" is a client that GETs a session and then POSTs       *)
(* messages at the version it saw).  Each call of the store runs under its *)
(* mutex and is one atomic step; between two calls of a request the other  *)
(* requests interleave.                                                    *)
(*                                                                         *)
(* A message is <<r, i>>: the i-th message that request r stores.  The     *)
(* batch of a turn ends with the assistant's reply, so the request carries *)
(* one message less than the batch.  Nothing is stored across a restart of *)
(* the process: a crash empties the map and ends every request.            *)
(***************************************************************************)
EXTENDS Naturals, Sequences

CONSTANTS Ids,        \* the session ids that clients use
          Requests,   \* the requests of a behaviour
          Cap,        \* MemoryStore.cap: messages per session
          MaxBatch    \* bound of the model: messages that one request stores

ASSUME CapAssumption == Cap \in Nat \ {0}
ASSUME BatchAssumption == MaxBatch \in Nat \ {0}

VARIABLES
  byID,       \* MemoryStore.byID: the sessions that exist
  req,        \* req[r]: what r asks for: kind, session id, messages to store
  pc,         \* pc[r]: the call r is about to make, or its outcome
  expected,   \* expected[r]: the version r read, 0 for a missing session
  prior,      \* prior[r]: the history r read, which the provider is sent
  \* The rest is history for the properties; no guard reads it.
  writes,     \* writes[id]: how many times byID[id] was saved, appended to or deleted
  era,        \* era[id]: the value of writes[id] at the last Save or Delete
  seen,       \* seen[r]: era and writes of the session when r read it
  wrote       \* wrote[r]: the era in which r stored its batch, and after how many messages

storeVars == <<byID, writes, era>>
readVars  == <<expected, prior, seen>>
vars      == <<byID, req, pc, expected, prior, writes, era, seen, wrote>>

-------------------------------------------------------------------------------
(* Data. *)

\* Validate accepts a turn without messages (a system prompt is enough), and a
\* POST to /messages may hold none.
Request == [kind : {"turn", "stream"}, id : Ids, size : 1..MaxBatch]
      \cup [kind : {"edit"}, id : Ids, size : 0..MaxBatch]
      \cup [kind : {"create", "delete"}, id : Ids, size : {0}]

Message == Requests \X (1..MaxBatch)
Session == [version : Nat \ {0}, messages : Seq(Message)]

Batch(r) == [i \in 1..req[r].size |-> <<r, i>>]

Exists(id)  == id \in DOMAIN byID
History(id) == IF Exists(id) THEN byID[id].messages ELSE << >>

\* m.byID[id] = s
Put(id, s) == byID' = [k \in DOMAIN byID \cup {id} |-> IF k = id THEN s ELSE byID[k]]

\* Mutant: Save stores the version it is given.
SavedWithoutBump(msgs) == [version |-> 0, messages |-> msgs]

\* Save stores the version it is given plus one; both callers give it version 0.
SavedSession(msgs) == [version |-> 0 + 1, messages |-> msgs]

\* Mutants: an append that reuses the last slot, one that is applied twice, and one
\* that leaves the version alone when there is nothing to append.
AppendedOverLast(s, msgs) ==
  [version |-> s.version + 1,
   messages |-> SubSeq(s.messages, 1, Len(s.messages) - 1) \o msgs]
AppendedTwice(s, msgs) == [version |-> s.version + 1, messages |-> s.messages \o msgs \o msgs]
AppendedIfAny(s, msgs) ==
  [version |-> IF msgs = << >> THEN s.version ELSE s.version + 1, messages |-> s.messages \o msgs]

\* AppendConditional stores a copy of the session with the messages added.
AppendedSession(s, msgs) == [version |-> s.version + 1, messages |-> s.messages \o msgs]

\* Mutants: no version check; a cap on what is there instead of on what comes out.
AnyVersion(s, v)       == TRUE
FitsCapBefore(s, msgs) == Len(s.messages) <= Cap

VersionMatches(s, v) == s.version = v
FitsCap(s, msgs)     == Len(s.messages) + Len(msgs) <= Cap

\* Mutant: the version before the last write.
ObservedOneBehind(id) == IF Exists(id) THEN byID[id].version - 1 ELSE 0

\* What Get answers: the version and a deep copy of the messages.
ObservedVersion(id) == IF Exists(id) THEN byID[id].version ELSE 0

-------------------------------------------------------------------------------
(* Steps that the handlers share. *)

Begin(r, kinds) == pc[r] = "idle" /\ req[r].kind \in kinds

Goto(r, where) == pc' = [pc EXCEPT ![r] = where]

Observe(r) ==
  LET id == req[r].id IN
  /\ expected' = [expected EXCEPT ![r] = ObservedVersion(id)]
  /\ prior' = [prior EXCEPT ![r] = History(id)]
  /\ seen' = [seen EXCEPT ![r] = [era |-> era[id], writes |-> writes[id]]]

CountWrite(id) == /\ writes' = [writes EXCEPT ![id] = writes[id] + 1]
                  /\ UNCHANGED era

StartEra(id) == /\ writes' = [writes EXCEPT ![id] = writes[id] + 1]
                /\ era' = [era EXCEPT ![id] = writes[id] + 1]

\* MemoryStore.Save, for request r: create or replace, and start an era.
Save(r, msgs) ==
  LET id == req[r].id IN
  /\ Put(id, SavedSession(msgs))
  /\ StartEra(id)
  /\ wrote' = [wrote EXCEPT ![r] = [era |-> writes[id] + 1, after |-> 0]]

-------------------------------------------------------------------------------
(* Harness.Send and Harness.Stream. *)

\* Both load the session through the Binder; a missing one is an empty history.
LoadTurn(r) ==
  /\ Begin(r, {"turn", "stream"})
  /\ Observe(r)
  /\ Goto(r, "provider")
  /\ UNCHANGED <<storeVars, req, wrote>>

\* Send goes on to Binder.Append, which asks for the session again when it was
\* missing at the load.  Stream hands out the reader and stores nothing.
ProviderReplies(r) ==
  /\ pc[r] = "provider"
  /\ Goto(r, IF req[r].kind = "stream" THEN "ok"
             ELSE IF expected[r] = 0 THEN "binderGet" ELSE "append")
  /\ UNCHANGED <<storeVars, readVars, req, wrote>>

\* No candidate answers, or the request's context ends.
ProviderFails(r) ==
  /\ pc[r] = "provider"
  /\ Goto(r, "providerError")
  /\ UNCHANGED <<storeVars, readVars, req, wrote>>

-------------------------------------------------------------------------------
(* Binder.Append. *)

BinderGet(r) ==
  /\ pc[r] = "binderGet"
  /\ Goto(r, IF Exists(req[r].id) THEN "append" ELSE "binderSave")
  /\ UNCHANGED <<storeVars, readVars, req, wrote>>

BinderSave(r) ==
  /\ pc[r] = "binderSave"
  /\ Save(r, Batch(r))
  /\ Goto(r, "ok")
  /\ UNCHANGED <<readVars, req>>

-------------------------------------------------------------------------------
(* MemoryStore.AppendConditional, reached from the Binder and from POST messages. *)

AppendAccepted(r) ==
  LET id == req[r].id IN
  /\ pc[r] = "append"
  /\ Exists(id)
  /\ VersionMatches(byID[id], expected[r])
  /\ FitsCap(byID[id], Batch(r))
  /\ Put(id, AppendedSession(byID[id], Batch(r)))
  /\ CountWrite(id)
  /\ wrote' = [wrote EXCEPT ![r] = [era |-> era[id], after |-> Len(byID[id].messages)]]
  /\ Goto(r, "ok")
  /\ UNCHANGED <<readVars, req>>

AppendRefused(r) ==
  LET id == req[r].id IN
  /\ pc[r] = "append"
  /\ \/ /\ ~Exists(id)
        /\ Goto(r, "notFound")
     \/ /\ Exists(id)
        /\ ~VersionMatches(byID[id], expected[r])
        /\ Goto(r, "conflict")
     \/ /\ Exists(id)
        /\ VersionMatches(byID[id], expected[r])
        /\ ~FitsCap(byID[id], Batch(r))
        /\ Goto(r, "capExceeded")
  /\ UNCHANGED <<storeVars, readVars, req, wrote>>

-------------------------------------------------------------------------------
(* The session handlers. *)

\* GET /api/sessions/{id}, by a client that POSTs messages at that version next.
GetForEdit(r) ==
  /\ Begin(r, {"edit"})
  /\ Observe(r)
  /\ Goto(r, IF Exists(req[r].id) THEN "append" ELSE "notFound")
  /\ UNCHANGED <<storeVars, req, wrote>>

\* POST /api/sessions saves whether or not the id is in use ...
CreateSession(r) ==
  /\ Begin(r, {"create"})
  /\ Save(r, << >>)
  /\ Goto(r, "readBack")
  /\ UNCHANGED <<readVars, req>>

\* ... and reads the session back for its answer.
ReadBack(r) ==
  /\ pc[r] = "readBack"
  /\ Goto(r, IF Exists(req[r].id) THEN "ok" ELSE "notFound")
  /\ UNCHANGED <<storeVars, readVars, req, wrote>>

\* DELETE /api/sessions/{id}; deleting a missing session is an ok too.
DeleteSession(r) ==
  LET id == req[r].id IN
  /\ Begin(r, {"delete"})
  /\ byID' = [k \in DOMAIN byID \ {id} |-> byID[k]]
  /\ IF Exists(id) THEN StartEra(id) ELSE UNCHANGED <<writes, era>>
  /\ Goto(r, "ok")
  /\ UNCHANGED <<readVars, req, wrote>>

-------------------------------------------------------------------------------
Init ==
  /\ byID = << >>
  /\ req \in [Requests -> Request]
  /\ pc = [r \in Requests |-> "idle"]
  /\ expected = [r \in Requests |-> 0]
  /\ prior = [r \in Requests |-> << >>]
  /\ writes = [id \in Ids |-> 0]
  /\ era = [id \in Ids |-> 0]
  /\ seen = [r \in Requests |-> [era |-> 0, writes |-> 0]]
  /\ wrote = [r \in Requests |-> [era |-> 0, after |-> 0]]

Step(r) == \/ LoadTurn(r) \/ ProviderReplies(r) \/ ProviderFails(r)
           \/ BinderGet(r) \/ BinderSave(r)
           \/ AppendAccepted(r) \/ AppendRefused(r)
           \/ GetForEdit(r) \/ CreateSession(r) \/ ReadBack(r) \/ DeleteSession(r)

Next == \E r \in Requests : Step(r)

Spec == Init /\ [][Next]_vars

-------------------------------------------------------------------------------
(* Properties. *)

Outcomes == {"ok", "providerError", "notFound", "conflict", "capExceeded"}
Stages   == {"idle", "provider", "binderGet", "binderSave", "append", "readBack"}

\* Type invariant; a stored session has a positive version.
TypeOK ==
  /\ DOMAIN byID \subseteq Ids
  /\ \A id \in DOMAIN byID : byID[id] \in Session
  /\ req \in [Requests -> Request]
  /\ pc \in [Requests -> Stages \cup Outcomes]
  /\ expected \in [Requests -> Nat]
  /\ prior \in [Requests -> Seq(Message)]
  /\ writes \in [Ids -> Nat]
  /\ era \in [Ids -> Nat]
  /\ seen \in [Requests -> [era : Nat, writes : Nat]]
  /\ wrote \in [Requests -> [era : Nat, after : Nat]]

\* r's batch is part of the session that has r's id now.
InCurrentEra(r) == wrote[r].era # 0 /\ wrote[r].era = era[req[r].id]

\* A turn or an edit that was answered with success is in the session, whole, in
\* order and unmoved, for as long as nobody replaces or deletes the session:
\* AppendConditional loses no acknowledged write, whatever runs concurrently.
AcknowledgedKept ==
  \A r \in Requests :
    pc[r] = "ok" /\ req[r].kind \in {"turn", "edit"} =>
      /\ wrote[r].era # 0
      /\ InCurrentEra(r) =>
           /\ Exists(req[r].id)
           /\ wrote[r].after + req[r].size <= Len(History(req[r].id))
           /\ \A i \in 1..req[r].size :
                History(req[r].id)[wrote[r].after + i] = <<r, i>>

\* Every stored message was put there, once, by a request that was accepted in
\* this era: a refused, failed or still undecided request leaves nothing behind,
\* and no batch is stored twice or torn apart.
OnlyAcceptedBatches ==
  \A id \in DOMAIN byID : \A n \in 1..Len(byID[id].messages) :
    \E r \in Requests :
      /\ InCurrentEra(r)
      /\ req[r].id = id
      /\ n \in wrote[r].after + 1 .. wrote[r].after + req[r].size
      /\ byID[id].messages[n] = <<r, n - wrote[r].after>>

\* A session's version counts the writes since it was last created or replaced,
\* empty appends included, so two readers of one version in one era have read the
\* same session.
VersionCountsWrites ==
  \A id \in DOMAIN byID : byID[id].version = 1 + (writes[id] - era[id])

\* A turn, or an edit, is refused for its version or for a missing session only if
\* some other request wrote the session after it was read: no spurious conflict.
RefusalsAreGenuine ==
  \A r \in Requests :
    pc[r] = "conflict" \/ (pc[r] = "notFound" /\ req[r].kind = "turn")
      => writes[req[r].id] > seen[r].writes

\* Over the cap is only a session that still is what one first turn saved.
OnlyFirstTurnExceedsCap ==
  \A id \in DOMAIN byID : Len(byID[id].messages) > Cap => byID[id].version = 1

\* The session layer implements the conversation log: within an era, a request
\* that is accepted at the version it read extends exactly the history it read,
\* so the reply it stores answers the messages stored before it.
Conversation == INSTANCE ConversationLog WITH
  log      <- [id \in DOMAIN byID |-> byID[id].messages],
  basis    <- [r \in Requests |-> [era |-> seen[r].era, log |-> prior[r]]],
  effected <- {r \in Requests : wrote[r].era # 0}

ImplementsConversation == Conversation!ConvSpec

\* What store.go:60-62 says of every store: no message is dropped without an error.
\* Where nobody creates or deletes sessions by hand, every acknowledged turn is in
\* its session.  (Two first turns on one id break it.)
NoSilentLoss ==
  (\A r \in Requests : req[r].kind \notin {"create", "delete"}) =>
     \A r \in Requests : pc[r] = "ok" /\ req[r].kind = "turn" =>
       \E n \in 1..Len(History(req[r].id)) : History(req[r].id)[n] = <<r, 1>>
===============================================================================
