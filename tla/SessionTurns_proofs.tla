------------------------- MODULE SessionTurns_proofs -------------------------
(***************************************************************************)
(* Proofs about SessionTurns, for every set of ids and requests, every cap *)
(* and every batch bound.                                                  *)
(***************************************************************************)
EXTENDS SessionTurns, TLAPS, SequenceTheorems

(* The inductive invariant. *)

\* Where r stands between its read of the session and the end of its append.
Reading(r) == pc[r] \in {"provider", "binderGet", "binderSave", "append"}

EraBounds == \A id \in Ids : era[id] <= writes[id] /\ (Exists(id) => era[id] > 0)

\* Nothing is marked as stored before it is, nor in an era to come.
WroteBounds ==
  \A r \in Requests :
    /\ wrote[r].era <= era[req[r].id]
    /\ pc[r] \in {"idle", "provider", "binderGet", "binderSave", "append"} => wrote[r].era = 0
    /\ pc[r] = "ok" /\ req[r].kind \in {"turn", "edit"} => wrote[r].era # 0
    /\ pc[r] = "readBack" => req[r].kind = "create"

\* A batch stored in the current era is where it was put.
InPlace ==
  \A r \in Requests : InCurrentEra(r) =>
    /\ Exists(req[r].id)
    /\ wrote[r].after + req[r].size <= Len(byID[req[r].id].messages)
    /\ \A i \in 1..req[r].size : byID[req[r].id].messages[wrote[r].after + i] = <<r, i>>

\* What r read is the session's state as of seen[r], and stays so until a write.
ReadBasis ==
  \A r \in Requests : Reading(r) =>
    /\ seen[r].era <= seen[r].writes
    /\ seen[r].writes <= writes[req[r].id]
    /\ expected[r] # 0 => expected[r] = 1 + (seen[r].writes - seen[r].era)
    /\ seen[r].writes = writes[req[r].id] =>
         /\ seen[r].era = era[req[r].id]
         /\ expected[r] = ObservedVersion(req[r].id)
         /\ prior[r] = History(req[r].id)
    /\ pc[r] \in {"binderGet", "binderSave"} => expected[r] = 0
    /\ pc[r] = "append" /\ expected[r] = 0 => seen[r].writes < writes[req[r].id]

IInv == /\ TypeOK
        /\ EraBounds
        /\ VersionCountsWrites
        /\ WroteBounds
        /\ InPlace
        /\ OnlyAcceptedBatches
        /\ ReadBasis
        /\ RefusalsAreGenuine
        /\ OnlyFirstTurnExceedsCap

-------------------------------------------------------------------------------
(* Operators. *)

\* A request's batch is a sequence of its own messages, numbered from 1.
LEMMA BatchProperties ==
  ASSUME req \in [Requests -> Request], NEW r \in Requests
  PROVE  /\ Batch(r) \in Seq(Message)
         /\ Len(Batch(r)) = req[r].size
         /\ req[r].size \in Nat
         /\ \A i \in 1..req[r].size : Batch(r)[i] = <<r, i>>
         /\ req[r].id \in Ids
<1>1. req[r].id \in Ids /\ req[r].size \in 0..MaxBatch
  BY BatchAssumption DEF Request
<1>2. \A i \in 1..req[r].size : <<r, i>> \in Message
  BY <1>1, BatchAssumption DEF Message
<1>3. Batch(r) \in [1..req[r].size -> Message]
  BY <1>2 DEF Batch
<1>4. req[r].size \in Nat
  BY <1>1, BatchAssumption
<1>5. Batch(r) \in Seq(Message)
  BY <1>3, <1>4, SeqDef
<1>6. Len(Batch(r)) = req[r].size
  BY <1>4, <1>5, LenProperties DEF Batch
<1> QED
  BY <1>1, <1>4, <1>5, <1>6 DEF Batch

\* What AppendConditional stores: the old messages, then the new ones.
LEMMA AppendedProperties ==
  ASSUME NEW s \in Session, NEW msgs \in Seq(Message)
  PROVE  LET t == AppendedSession(s, msgs)
         IN  /\ t \in Session
             /\ t.version = s.version + 1
             /\ Len(t.messages) = Len(s.messages) + Len(msgs)
             /\ \A i \in 1..Len(s.messages) : t.messages[i] = s.messages[i]
             /\ \A i \in 1..Len(msgs) : t.messages[Len(s.messages) + i] = msgs[i]
<1>1. s.messages \in Seq(Message) /\ s.version \in Nat \ {0}
  BY DEF Session
<1>2. s.messages \o msgs \in Seq(Message)
  BY <1>1
<1>3. Len(s.messages \o msgs) = Len(s.messages) + Len(msgs)
  BY <1>1
<1>4. \A i \in 1..Len(s.messages) : (s.messages \o msgs)[i] = s.messages[i]
  BY <1>1
<1>5. \A i \in 1..Len(msgs) : (s.messages \o msgs)[Len(s.messages) + i] = msgs[i]
  BY <1>1
<1> QED
  BY <1>1, <1>2, <1>3, <1>4, <1>5 DEF AppendedSession, Session

\* What Save stores: the given messages at version 1, a session like any other.
LEMMA SavedProperties ==
  ASSUME NEW msgs \in Seq(Message)
  PROVE  /\ SavedSession(msgs) \in Session
         /\ SavedSession(msgs).version = 1
         /\ SavedSession(msgs).messages = msgs
BY DEF SavedSession, Session

\* Put changes one entry of the map.
LEMMA PutProperties ==
  ASSUME NEW id \in Ids, NEW s, Put(id, s), TypeOK
  PROVE  /\ DOMAIN byID' = DOMAIN byID \cup {id}
         /\ byID'[id] = s
         /\ \A k \in DOMAIN byID \ {id} : byID'[k] = byID[k]
         /\ s \in Session => /\ DOMAIN byID' \subseteq Ids
                             /\ \A k \in DOMAIN byID' : byID'[k] \in Session
BY DEF Put, TypeOK

-------------------------------------------------------------------------------
(* Type correctness. *)

\* The empty store and the requests not yet begun have their types.
LEMMA TypeInit == Init => TypeOK
<1> SUFFICES ASSUME Init PROVE TypeOK
  OBVIOUS
<1>1. DOMAIN byID = {}
  BY DEF Init
<1>2. << >> \in Seq(Message)
  OBVIOUS
<1> QED
  BY <1>1, <1>2 DEF Init, TypeOK, Stages

\* Every step of a request leaves all variables in their types.
LEMMA TypeStep == TypeOK /\ [Next]_vars => TypeOK'
<1> SUFFICES ASSUME TypeOK, [Next]_vars PROVE TypeOK'
  OBVIOUS
<1> USE DEF storeVars, readVars, Goto, Stages, Outcomes
<1>1. \A id \in Ids : History(id) \in Seq(Message) /\ ObservedVersion(id) \in Nat
  BY DEF TypeOK, Session, History, ObservedVersion, Exists
<1>2. ASSUME NEW r \in Requests, LoadTurn(r) PROVE TypeOK'
  BY <1>1, <1>2, BatchProperties DEF TypeOK, LoadTurn, Observe
<1>3. ASSUME NEW r \in Requests, ProviderReplies(r) PROVE TypeOK'
  BY <1>3 DEF TypeOK, ProviderReplies
<1>4. ASSUME NEW r \in Requests, ProviderFails(r) PROVE TypeOK'
  BY <1>4 DEF TypeOK, ProviderFails
<1>5. ASSUME NEW r \in Requests, BinderGet(r) PROVE TypeOK'
  BY <1>5 DEF TypeOK, BinderGet
<1>6. ASSUME NEW r \in Requests, NEW msgs \in Seq(Message), Save(r, msgs),
             UNCHANGED <<readVars, req>>, pc' \in [Requests -> Stages \cup Outcomes]
      PROVE  TypeOK'
  <2>1. req[r].id \in Ids
    BY BatchProperties DEF TypeOK
  <2>2. DOMAIN byID' \subseteq Ids /\ \A k \in DOMAIN byID' : byID'[k] \in Session
    BY <1>6, <2>1, SavedProperties, PutProperties DEF Save
  <2>3. writes[req[r].id] + 1 \in Nat
    BY <2>1 DEF TypeOK
  <2>4. writes' \in [Ids -> Nat] /\ era' \in [Ids -> Nat]
    BY <1>6, <2>3 DEF Save, StartEra, TypeOK
  <2>5. wrote' \in [Requests -> [era : Nat, after : Nat]]
    BY <1>6, <2>3 DEF Save, TypeOK
  <2> QED
    BY <1>6, <2>2, <2>4, <2>5 DEF TypeOK
<1>7. ASSUME NEW r \in Requests, BinderSave(r) PROVE TypeOK'
  <2>1. Batch(r) \in Seq(Message)
    BY BatchProperties DEF TypeOK
  <2>2. pc' \in [Requests -> Stages \cup Outcomes]
    BY <1>7 DEF BinderSave, TypeOK
  <2> QED
    BY <1>6, <1>7, <2>1, <2>2 DEF BinderSave
<1>8. ASSUME NEW r \in Requests, AppendAccepted(r) PROVE TypeOK'
  <2>1. req[r].id \in Ids /\ Batch(r) \in Seq(Message)
    BY BatchProperties DEF TypeOK
  <2>2. byID[req[r].id] \in Session
    BY <1>8 DEF AppendAccepted, Exists, TypeOK
  <2>3. DOMAIN byID' \subseteq Ids /\ \A k \in DOMAIN byID' : byID'[k] \in Session
    <3>1. AppendedSession(byID[req[r].id], Batch(r)) \in Session
      BY <2>1, <2>2, AppendedProperties
    <3>2. Put(req[r].id, AppendedSession(byID[req[r].id], Batch(r)))
      BY <1>8 DEF AppendAccepted
    <3> QED
      BY <2>1, <3>1, <3>2, PutProperties
  <2>4. Len(byID[req[r].id].messages) \in Nat
    BY <2>2 DEF Session
  <2>5. writes' \in [Ids -> Nat] /\ era' \in [Ids -> Nat]
    BY <1>8, <2>1 DEF AppendAccepted, CountWrite, TypeOK
  <2>6. wrote' \in [Requests -> [era : Nat, after : Nat]]
    BY <1>8, <2>1, <2>4 DEF AppendAccepted, TypeOK
  <2>7. UNCHANGED <<readVars, req>> /\ pc' \in [Requests -> Stages \cup Outcomes]
    BY <1>8 DEF AppendAccepted, TypeOK
  <2> QED
    BY <2>3, <2>5, <2>6, <2>7 DEF TypeOK
<1>9. ASSUME NEW r \in Requests, AppendRefused(r) PROVE TypeOK'
  BY <1>9 DEF TypeOK, AppendRefused
<1>10. ASSUME NEW r \in Requests, GetForEdit(r) PROVE TypeOK'
  BY <1>1, <1>10, BatchProperties DEF TypeOK, GetForEdit, Observe
<1>11. ASSUME NEW r \in Requests, CreateSession(r) PROVE TypeOK'
  <2>1. << >> \in Seq(Message)
    OBVIOUS
  <2>2. pc' \in [Requests -> Stages \cup Outcomes]
    BY <1>11 DEF CreateSession, TypeOK
  <2> QED
    BY <1>6, <1>11, <2>1, <2>2 DEF CreateSession
<1>12. ASSUME NEW r \in Requests, ReadBack(r) PROVE TypeOK'
  BY <1>12 DEF TypeOK, ReadBack
<1>13. ASSUME NEW r \in Requests, DeleteSession(r) PROVE TypeOK'
  <2>1. req[r].id \in Ids
    BY BatchProperties DEF TypeOK
  <2>2. DOMAIN byID' \subseteq Ids /\ \A k \in DOMAIN byID' : byID'[k] \in Session
    BY <1>13 DEF DeleteSession, TypeOK
  <2>3. writes' \in [Ids -> Nat] /\ era' \in [Ids -> Nat]
    <3>1. StartEra(req[r].id) \/ UNCHANGED <<writes, era>>
      BY <1>13 DEF DeleteSession
    <3>2. writes \in [Ids -> Nat] /\ era \in [Ids -> Nat] /\ writes[req[r].id] + 1 \in Nat
      BY <2>1 DEF TypeOK
    <3>3. CASE StartEra(req[r].id)
      BY <2>1, <3>2, <3>3 DEF StartEra
    <3> QED
      BY <3>1, <3>2, <3>3
  <2>4. UNCHANGED <<req, expected, prior, seen, wrote>>
    BY <1>13 DEF DeleteSession
  <2>5. pc' \in [Requests -> Stages \cup Outcomes]
    BY <1>13 DEF DeleteSession, TypeOK
  <2> QED
    BY <2>2, <2>3, <2>4, <2>5 DEF TypeOK
<1>14. CASE UNCHANGED vars
  BY <1>14 DEF TypeOK, vars
<1> QED
  BY <1>2, <1>3, <1>4, <1>5, <1>7, <1>8, <1>9, <1>10, <1>11, <1>12, <1>13, <1>14
  DEF Next, Step

\* Type correctness: sessions hold positive versions and messages of the requests.
THEOREM TypeCorrect == Spec => []TypeOK
BY TypeInit, TypeStep, PTL DEF Spec

-------------------------------------------------------------------------------
(* The inductive invariant, initially. *)

\* The invariant holds of the empty store.
LEMMA InvInit == Init => IInv
<1> SUFFICES ASSUME Init PROVE IInv
  OBVIOUS
<1>1. TypeOK
  BY TypeInit
<1>2. DOMAIN byID = {}
  BY DEF Init
<1>3. \A r \in Requests : pc[r] = "idle" /\ wrote[r].era = 0
  BY DEF Init
<1>4. EraBounds /\ VersionCountsWrites /\ OnlyAcceptedBatches /\ OnlyFirstTurnExceedsCap
  BY <1>2 DEF Init, EraBounds, Exists, VersionCountsWrites, OnlyAcceptedBatches,
              OnlyFirstTurnExceedsCap
<1>5. WroteBounds
  <2>1. \A r \in Requests : req[r].id \in Ids
    BY <1>1, BatchProperties DEF TypeOK
  <2> QED
    BY <1>3, <2>1 DEF WroteBounds, Init
<1>6. InPlace /\ ReadBasis /\ RefusalsAreGenuine
  BY <1>3 DEF InPlace, InCurrentEra, ReadBasis, Reading, RefusalsAreGenuine
<1> QED
  BY <1>1, <1>4, <1>5, <1>6 DEF IInv

-------------------------------------------------------------------------------
(* Steps that leave the store alone. *)

\* A step that writes to no session leaves the invariant of the store alone.
LEMMA QuietStep ==
  ASSUME IInv, UNCHANGED <<byID, writes, era, req, wrote>>
  PROVE  /\ EraBounds' /\ VersionCountsWrites' /\ InPlace'
         /\ OnlyAcceptedBatches' /\ OnlyFirstTurnExceedsCap'
<1>1. EraBounds'
  BY DEF IInv, EraBounds, Exists
<1>2. VersionCountsWrites'
  BY DEF IInv, VersionCountsWrites
<1>3. InPlace'
  BY DEF IInv, InPlace, InCurrentEra, Exists
<1>4. OnlyAcceptedBatches'
  BY DEF IInv, OnlyAcceptedBatches, InCurrentEra
<1>5. OnlyFirstTurnExceedsCap'
  BY DEF IInv, OnlyFirstTurnExceedsCap
<1> QED
  BY <1>1, <1>2, <1>3, <1>4, <1>5

-------------------------------------------------------------------------------
(* MemoryStore.Save: whatever was stored belongs to an era that is over. *)

\* The invariant of the store survives Save, which replaces a session's messages
\* and starts a new era of it.
LEMMA SaveStep ==
  ASSUME IInv, NEW r \in Requests, NEW msgs \in Seq(Message), Save(r, msgs), req' = req,
         Len(msgs) = req[r].size, \A i \in 1..req[r].size : msgs[i] = <<r, i>>
  PROVE  /\ EraBounds' /\ VersionCountsWrites' /\ InPlace'
         /\ OnlyAcceptedBatches' /\ OnlyFirstTurnExceedsCap'
<1> DEFINE id == req[r].id
           e == writes[id] + 1
<1>1. TypeOK
  BY DEF IInv
<1>2. id \in Ids /\ req[r].size \in Nat /\ e \in Nat /\ e > 0
  BY <1>1, BatchProperties DEF TypeOK
<1>3. /\ DOMAIN byID' = DOMAIN byID \cup {id}
      /\ byID'[id].version = 1 /\ byID'[id].messages = msgs
      /\ \A k \in DOMAIN byID \ {id} : byID'[k] = byID[k]
  BY <1>1, <1>2, SavedProperties, PutProperties DEF Save
<1>4. /\ writes'[id] = e /\ era'[id] = e
      /\ \A k \in Ids \ {id} : writes'[k] = writes[k] /\ era'[k] = era[k]
  BY <1>1, <1>2 DEF Save, StartEra, TypeOK
<1>5. /\ wrote'[r].era = e /\ wrote'[r].after = 0
      /\ \A q \in Requests \ {r} : wrote'[q] = wrote[q]
  BY <1>1 DEF Save, TypeOK
<1>6. \A q \in Requests : /\ req[q].id \in Ids /\ req[q].size \in Nat
                          /\ wrote[q].era \in Nat
  BY <1>1, BatchProperties DEF TypeOK
\* Only r is in the era of id that begins; elsewhere nothing changes.
<1>7. \A q \in Requests \ {r} : req[q].id = id => ~InCurrentEra(q)'
  BY <1>1, <1>2, <1>4, <1>5, <1>6 DEF IInv, WroteBounds, EraBounds, InCurrentEra, TypeOK
<1>8. \A q \in Requests \ {r} : req[q].id # id => (InCurrentEra(q)' <=> InCurrentEra(q))
  BY <1>4, <1>5, <1>6 DEF InCurrentEra
<1>9. InCurrentEra(r)'
  BY <1>2, <1>4, <1>5 DEF InCurrentEra
<1>10. EraBounds'
  <2> SUFFICES ASSUME NEW k \in Ids
               PROVE  era'[k] <= writes'[k] /\ (k \in DOMAIN byID' => era'[k] > 0)
    BY DEF EraBounds, Exists
  <2>1. CASE k = id
    BY <1>2, <1>4, <2>1
  <2>2. CASE k # id
    BY <1>3, <1>4, <2>2 DEF IInv, EraBounds, Exists
  <2> QED
    BY <2>1, <2>2
<1>11. VersionCountsWrites'
  <2> SUFFICES ASSUME NEW k \in DOMAIN byID'
               PROVE  byID'[k].version = 1 + (writes'[k] - era'[k])
    BY DEF VersionCountsWrites
  <2>1. CASE k = id
    BY <1>2, <1>3, <1>4, <2>1
  <2>2. CASE k # id
    BY <1>1, <1>3, <1>4, <2>2 DEF IInv, VersionCountsWrites, TypeOK
  <2> QED
    BY <2>1, <2>2
<1>12. InPlace'
  <2> SUFFICES ASSUME NEW q \in Requests, InCurrentEra(q)'
               PROVE  /\ req[q].id \in DOMAIN byID'
                      /\ wrote'[q].after + req[q].size <= Len(byID'[req[q].id].messages)
                      /\ \A i \in 1..req[q].size :
                           byID'[req[q].id].messages[wrote'[q].after + i] = <<q, i>>
    BY DEF InPlace, Exists
  <2>1. CASE q = r
    <3>1. \A i \in 1..req[r].size : wrote'[r].after + i = i
      BY <1>2, <1>5
    <3>2. 0 + req[r].size <= Len(msgs)
      BY <1>2
    <3> QED
      BY <1>3, <1>5, <2>1, <3>1, <3>2
  <2>2. CASE q # r
    <3>1. req[q].id # id /\ InCurrentEra(q)
      BY <1>7, <1>8, <2>2
    <3>2. /\ req[q].id \in DOMAIN byID
          /\ wrote[q].after + req[q].size <= Len(byID[req[q].id].messages)
          /\ \A i \in 1..req[q].size : byID[req[q].id].messages[wrote[q].after + i] = <<q, i>>
      BY <3>1 DEF IInv, InPlace, Exists
    <3>3. byID'[req[q].id] = byID[req[q].id] /\ req[q].id \in DOMAIN byID'
      BY <1>3, <3>1, <3>2
    <3> QED
      BY <1>5, <2>2, <3>2, <3>3
  <2> QED
    BY <2>1, <2>2
<1>13. OnlyAcceptedBatches'
  <2> SUFFICES ASSUME NEW k \in DOMAIN byID', NEW n \in 1..Len(byID'[k].messages)
               PROVE  \E q \in Requests :
                        /\ InCurrentEra(q)'
                        /\ req[q].id = k
                        /\ n \in wrote'[q].after + 1 .. wrote'[q].after + req[q].size
                        /\ byID'[k].messages[n] = <<q, n - wrote'[q].after>>
    BY DEF OnlyAcceptedBatches
  <2>1. CASE k = id
    BY <1>2, <1>3, <1>5, <1>9, <2>1
  <2>2. CASE k # id
    <3>1. k \in DOMAIN byID /\ byID'[k] = byID[k]
      BY <1>3, <2>2
    <3>2. PICK q \in Requests :
                 /\ InCurrentEra(q)
                 /\ req[q].id = k
                 /\ n \in wrote[q].after + 1 .. wrote[q].after + req[q].size
                 /\ byID[k].messages[n] = <<q, n - wrote[q].after>>
      BY <3>1 DEF IInv, OnlyAcceptedBatches
    <3>3. q # r
      BY <2>2, <3>2
    <3> QED
      BY <1>5, <1>8, <2>2, <3>1, <3>2, <3>3
  <2> QED
    BY <2>1, <2>2
<1>14. OnlyFirstTurnExceedsCap'
  BY <1>3 DEF IInv, OnlyFirstTurnExceedsCap
<1> QED
  BY <1>10, <1>11, <1>12, <1>13, <1>14

-------------------------------------------------------------------------------
(* MemoryStore.AppendConditional: the era goes on, and what was there stays. *)

\* The invariant of the store survives an accepted append, which adds a batch at
\* the end and one to the version.
LEMMA AppendStep ==
  ASSUME IInv, NEW r \in Requests, AppendAccepted(r)
  PROVE  /\ EraBounds' /\ VersionCountsWrites' /\ InPlace'
         /\ OnlyAcceptedBatches' /\ OnlyFirstTurnExceedsCap'
<1> DEFINE id  == req[r].id
           old == byID[id]
           new == AppendedSession(old, Batch(r))
<1>1. TypeOK
  BY DEF IInv
<1>2. /\ id \in Ids /\ id \in DOMAIN byID /\ old \in Session
      /\ Batch(r) \in Seq(Message) /\ Len(Batch(r)) = req[r].size /\ req[r].size \in Nat
      /\ \A i \in 1..req[r].size : Batch(r)[i] = <<r, i>>
  BY <1>1, BatchProperties DEF AppendAccepted, Exists, TypeOK
<1>3. /\ new \in Session
      /\ new.version = old.version + 1
      /\ Len(new.messages) = Len(old.messages) + req[r].size
      /\ \A i \in 1..Len(old.messages) : new.messages[i] = old.messages[i]
      /\ \A i \in 1..req[r].size : new.messages[Len(old.messages) + i] = <<r, i>>
  <2>1. /\ new \in Session
        /\ new.version = old.version + 1
        /\ Len(new.messages) = Len(old.messages) + Len(Batch(r))
        /\ \A i \in 1..Len(old.messages) : new.messages[i] = old.messages[i]
        /\ \A i \in 1..Len(Batch(r)) : new.messages[Len(old.messages) + i] = Batch(r)[i]
    BY <1>2, AppendedProperties
  <2> QED
    BY <1>2, <2>1
<1>4. old.version \in Nat /\ Len(old.messages) \in Nat
  BY <1>2 DEF Session
<1>5. /\ DOMAIN byID' = DOMAIN byID
      /\ byID'[id] = new
      /\ \A k \in DOMAIN byID \ {id} : byID'[k] = byID[k]
  <2>1. Put(id, new)
    BY DEF AppendAccepted
  <2> QED
    BY <1>1, <1>2, <2>1, PutProperties
<1>6. /\ writes'[id] = writes[id] + 1 /\ era' = era
      /\ \A k \in Ids \ {id} : writes'[k] = writes[k]
  BY <1>1, <1>2 DEF AppendAccepted, CountWrite, TypeOK
<1>7. /\ wrote'[r].era = era[id] /\ wrote'[r].after = Len(old.messages)
      /\ \A q \in Requests \ {r} : wrote'[q] = wrote[q]
      /\ req' = req
  BY <1>1 DEF AppendAccepted, TypeOK
<1>8. writes[id] \in Nat /\ era[id] \in Nat /\ era[id] > 0 /\ era[id] <= writes[id]
  BY <1>1, <1>2 DEF IInv, EraBounds, Exists, TypeOK
<1>9. ~InCurrentEra(r) /\ InCurrentEra(r)'
  BY <1>6, <1>7, <1>8 DEF AppendAccepted, IInv, WroteBounds, InCurrentEra
<1>10. \A q \in Requests \ {r} : InCurrentEra(q)' <=> InCurrentEra(q)
  BY <1>6, <1>7 DEF InCurrentEra
<1>11. EraBounds'
  <2> SUFFICES ASSUME NEW k \in Ids
               PROVE  era'[k] <= writes'[k] /\ (k \in DOMAIN byID' => era'[k] > 0)
    BY DEF EraBounds, Exists
  <2>1. CASE k = id
    BY <1>6, <1>8, <2>1
  <2>2. CASE k # id
    BY <1>5, <1>6, <2>2 DEF IInv, EraBounds, Exists
  <2> QED
    BY <2>1, <2>2
<1>12. VersionCountsWrites'
  <2> SUFFICES ASSUME NEW k \in DOMAIN byID'
               PROVE  byID'[k].version = 1 + (writes'[k] - era'[k])
    BY DEF VersionCountsWrites
  <2>1. CASE k = id
    <3>1. old.version = 1 + (writes[id] - era[id])
      BY <1>2 DEF IInv, VersionCountsWrites
    <3> QED
      BY <1>3, <1>5, <1>6, <1>8, <2>1, <3>1
  <2>2. CASE k # id
    BY <1>1, <1>5, <1>6, <2>2 DEF IInv, VersionCountsWrites, TypeOK
  <2> QED
    BY <2>1, <2>2
<1>13. InPlace'
  <2> SUFFICES ASSUME NEW q \in Requests, InCurrentEra(q)'
               PROVE  /\ req[q].id \in DOMAIN byID'
                      /\ wrote'[q].after + req[q].size <= Len(byID'[req[q].id].messages)
                      /\ \A i \in 1..req[q].size :
                           byID'[req[q].id].messages[wrote'[q].after + i] = <<q, i>>
    BY <1>7 DEF InPlace, Exists
  <2>1. CASE q = r
    <3>1. wrote'[r].after + req[r].size <= Len(new.messages)
      BY <1>2, <1>3, <1>4, <1>7
    <3>2. \A i \in 1..req[r].size : new.messages[wrote'[r].after + i] = <<r, i>>
      BY <1>3, <1>7
    <3> QED
      BY <1>2, <1>5, <2>1, <3>1, <3>2
  <2>2. ASSUME q # r
        PROVE  /\ req[q].id \in DOMAIN byID
               /\ wrote[q].after + req[q].size <= Len(byID[req[q].id].messages)
               /\ \A i \in 1..req[q].size :
                    byID[req[q].id].messages[wrote[q].after + i] = <<q, i>>
    BY <1>10, <2>2 DEF IInv, InPlace, Exists
  <2>3. CASE q # r /\ req[q].id # id
    <3>1. byID'[req[q].id] = byID[req[q].id] /\ req[q].id \in DOMAIN byID'
      BY <1>5, <2>2, <2>3
    <3> QED
      BY <1>7, <2>2, <2>3, <3>1
  <2>4. CASE q # r /\ req[q].id = id
    <3>1. wrote[q].after \in Nat /\ req[q].size \in Nat
      BY <1>1, BatchProperties DEF TypeOK
    <3>5. wrote[q].after + req[q].size <= Len(old.messages)
      BY <2>2, <2>4
    <3>6. Len(old.messages) <= Len(new.messages) /\ Len(new.messages) \in Nat
      BY <1>2, <1>3, <1>4
    <3> HIDE DEF old, new
    <3>2. wrote[q].after + req[q].size <= Len(new.messages)
      BY <1>4, <3>1, <3>5, <3>6
    <3>3. \A i \in 1..req[q].size : wrote[q].after + i \in 1..Len(old.messages)
      BY <1>4, <3>1, <3>5
    <3> USE DEF old, new
    <3>4. \A i \in 1..req[q].size : new.messages[wrote[q].after + i] = <<q, i>>
      BY <1>3, <2>2, <2>4, <3>3
    <3> QED
      BY <1>5, <1>7, <2>2, <2>4, <3>2, <3>4
  <2> QED
    BY <2>1, <2>3, <2>4
<1>14. OnlyAcceptedBatches'
  <2> SUFFICES ASSUME NEW k \in DOMAIN byID', NEW n \in 1..Len(byID'[k].messages)
               PROVE  \E q \in Requests :
                        /\ InCurrentEra(q)'
                        /\ req[q].id = k
                        /\ n \in wrote'[q].after + 1 .. wrote'[q].after + req[q].size
                        /\ byID'[k].messages[n] = <<q, n - wrote'[q].after>>
    BY <1>7 DEF OnlyAcceptedBatches
  <2>1. ASSUME NEW m \in 1..Len(byID[k].messages)
        PROVE  \E q \in Requests :
                 /\ InCurrentEra(q)'
                 /\ req[q].id = k
                 /\ m \in wrote'[q].after + 1 .. wrote'[q].after + req[q].size
                 /\ byID[k].messages[m] = <<q, m - wrote'[q].after>>
    <3>1. PICK q \in Requests :
                 /\ InCurrentEra(q)
                 /\ req[q].id = k
                 /\ m \in wrote[q].after + 1 .. wrote[q].after + req[q].size
                 /\ byID[k].messages[m] = <<q, m - wrote[q].after>>
      BY <1>5, <2>1 DEF IInv, OnlyAcceptedBatches
    <3>2. q # r
      BY <1>9, <3>1
    <3> QED
      BY <1>7, <1>10, <3>1, <3>2
  <2>2. CASE k # id
    <3>1. byID'[k] = byID[k]
      BY <1>5, <2>2
    <3> QED
      BY <2>1, <3>1
  <2>3. CASE k = id /\ n <= Len(old.messages)
    <3>1. n \in 1..Len(byID[k].messages) /\ byID'[k].messages[n] = byID[k].messages[n]
      BY <1>3, <1>4, <1>5, <2>3
    <3> QED
      BY <2>1, <3>1
  <2>4. CASE k = id /\ n > Len(old.messages)
    <3>0. Len(byID'[k].messages) = Len(old.messages) + req[r].size
      BY <1>3, <1>5, <2>4
    <3>1. n - Len(old.messages) \in 1..req[r].size
      <4> DEFINE lo == Len(old.messages)
      <4>1. n \in 1..lo + req[r].size /\ n > lo
        BY <2>4, <3>0
      <4>2. lo \in Nat /\ req[r].size \in Nat
        BY <1>2, <1>4
      <4> HIDE DEF lo
      <4>3. n - lo \in 1..req[r].size
        BY <4>1, <4>2
      <4> QED
        BY <4>3 DEF lo
    <3>2. Len(old.messages) + (n - Len(old.messages)) = n
      <4> DEFINE lo == Len(old.messages)
      <4>1. lo \in Nat /\ n \in Int
        BY <1>4
      <4> HIDE DEF lo
      <4>2. lo + (n - lo) = n
        BY <4>1
      <4> QED
        BY <4>2 DEF lo
    <3>3. byID'[k].messages[n] = <<r, n - wrote'[r].after>>
      BY <1>3, <1>5, <1>7, <2>4, <3>1, <3>2
    <3>4. n \in wrote'[r].after + 1 .. wrote'[r].after + req[r].size
      BY <1>2, <1>4, <1>7, <3>1
    <3> QED
      BY <1>9, <2>4, <3>3, <3>4
  <2> QED
    BY <1>4, <2>2, <2>3, <2>4
<1>15. OnlyFirstTurnExceedsCap'
  <2>1. Len(new.messages) <= Cap
    BY <1>2, <1>3 DEF AppendAccepted, FitsCap
  <2> QED
    BY <1>3, <1>4, <1>5, <2>1, CapAssumption DEF IInv, OnlyFirstTurnExceedsCap
<1> QED
  BY <1>11, <1>12, <1>13, <1>14, <1>15

-------------------------------------------------------------------------------
(* MemoryStore.Delete. *)

\* The invariant of the store survives the removal of a session.
LEMMA DeleteStep ==
  ASSUME IInv, NEW r \in Requests, DeleteSession(r)
  PROVE  /\ EraBounds' /\ VersionCountsWrites' /\ InPlace'
         /\ OnlyAcceptedBatches' /\ OnlyFirstTurnExceedsCap'
<1> DEFINE id == req[r].id
<1>1. TypeOK
  BY DEF IInv
<1>2. id \in Ids
  BY <1>1, BatchProperties DEF TypeOK
<1>3. CASE ~Exists(id)
  <2>1. /\ DOMAIN byID' = DOMAIN byID
        /\ \A k \in DOMAIN byID : byID'[k] = byID[k]
        /\ UNCHANGED <<writes, era, wrote, req>>
    BY <1>3 DEF DeleteSession, Exists
  <2>2. EraBounds'
    BY <2>1 DEF IInv, EraBounds, Exists
  <2>3. VersionCountsWrites'
    BY <2>1 DEF IInv, VersionCountsWrites
  <2>4. InPlace'
    BY <2>1 DEF IInv, InPlace, InCurrentEra, Exists
  <2>5. OnlyAcceptedBatches'
    BY <2>1 DEF IInv, OnlyAcceptedBatches, InCurrentEra
  <2>6. OnlyFirstTurnExceedsCap'
    BY <2>1 DEF IInv, OnlyFirstTurnExceedsCap
  <2> QED
    BY <2>2, <2>3, <2>4, <2>5, <2>6
<1>4. CASE Exists(id)
  <2>1. /\ DOMAIN byID' = DOMAIN byID \ {id}
        /\ \A k \in DOMAIN byID' : byID'[k] = byID[k]
        /\ wrote' = wrote /\ req' = req
    BY DEF DeleteSession
  <2>2. StartEra(id)
    BY <1>4 DEF DeleteSession
  <2>3. /\ writes'[id] = writes[id] + 1 /\ era'[id] = writes[id] + 1
        /\ \A k \in Ids \ {id} : writes'[k] = writes[k] /\ era'[k] = era[k]
    BY <1>1, <1>2, <2>2 DEF StartEra, TypeOK
  <2>4. \A q \in Requests : req[q].id \in Ids /\ wrote[q].era \in Nat
    BY <1>1, BatchProperties DEF TypeOK
  <2>5. writes[id] \in Nat /\ era[id] \in Nat /\ era[id] <= writes[id]
    BY <1>1, <1>2 DEF IInv, EraBounds, TypeOK
  <2>6. \A q \in Requests : req[q].id = id => ~InCurrentEra(q)'
    BY <2>1, <2>3, <2>4, <2>5 DEF IInv, WroteBounds, InCurrentEra
  <2>7. \A q \in Requests : req[q].id # id => (InCurrentEra(q)' <=> InCurrentEra(q))
    BY <2>1, <2>3, <2>4 DEF InCurrentEra
  <2>8. EraBounds'
    <3> SUFFICES ASSUME NEW k \in Ids
                 PROVE  era'[k] <= writes'[k] /\ (k \in DOMAIN byID' => era'[k] > 0)
      BY DEF EraBounds, Exists
    <3>1. CASE k = id
      BY <2>1, <2>3, <2>5, <3>1
    <3>2. CASE k # id
      BY <2>1, <2>3, <3>2 DEF IInv, EraBounds, Exists
    <3> QED
      BY <3>1, <3>2
  <2>9. VersionCountsWrites'
    BY <1>1, <2>1, <2>3 DEF IInv, VersionCountsWrites, TypeOK
  <2>10. InPlace'
    BY <2>1, <2>6, <2>7 DEF IInv, InPlace, Exists
  <2>11. OnlyAcceptedBatches'
    BY <2>1, <2>7 DEF IInv, OnlyAcceptedBatches
  <2>12. OnlyFirstTurnExceedsCap'
    BY <2>1 DEF IInv, OnlyFirstTurnExceedsCap
  <2> QED
    BY <2>8, <2>9, <2>10, <2>11, <2>12
<1> QED
  BY <1>3, <1>4

-------------------------------------------------------------------------------
(* What a request knows of its session, while other requests write. *)

\* From one state to the next, the session id is the same or has been written.
SameSession(id) == /\ writes'[id] = writes[id] /\ era'[id] = era[id]
                   /\ Exists(id)' <=> Exists(id)
                   /\ Exists(id) => byID'[id] = byID[id]

Written(id) == /\ writes'[id] = writes[id] + 1
               /\ era'[id] \in {era[id], writes[id] + 1}

\* The invariant of the store survives every step of a request.
LEMMA StoreStep ==
  ASSUME IInv, NEW r \in Requests, Step(r), NEW id \in Ids
  PROVE  SameSession(id) \/ Written(id)
<1>1. TypeOK /\ req[r].id \in Ids
  BY BatchProperties DEF IInv, TypeOK
<1>2. ASSUME NEW s, Put(req[r].id, s), id # req[r].id
      PROVE  /\ Exists(id)' <=> Exists(id)
             /\ Exists(id) => byID'[id] = byID[id]
  BY <1>2 DEF Put, Exists
<1>3. CASE UNCHANGED storeVars
  BY <1>3 DEF storeVars, SameSession, Exists
<1>4. ASSUME NEW msgs, Save(r, msgs) PROVE SameSession(id) \/ Written(id)
  <2>1. CASE id = req[r].id
    BY <1>1, <1>4, <2>1 DEF Save, StartEra, Written, TypeOK
  <2>2. CASE id # req[r].id
    <3>1. writes'[id] = writes[id] /\ era'[id] = era[id]
      BY <1>1, <1>4, <2>2 DEF Save, StartEra, TypeOK
    <3> QED
      BY <1>2, <1>4, <2>2, <3>1 DEF Save, SameSession
  <2> QED
    BY <2>1, <2>2
<1>5. CASE AppendAccepted(r)
  <2>1. CASE id = req[r].id
    BY <1>1, <1>5, <2>1 DEF AppendAccepted, CountWrite, Written, TypeOK
  <2>2. CASE id # req[r].id
    <3>1. writes'[id] = writes[id] /\ era'[id] = era[id]
      BY <1>1, <1>5, <2>2 DEF AppendAccepted, CountWrite, TypeOK
    <3> QED
      BY <1>2, <1>5, <2>2, <3>1 DEF AppendAccepted, SameSession
  <2> QED
    BY <2>1, <2>2
<1>6. CASE DeleteSession(r)
  <2>1. CASE id # req[r].id
    <3>1. writes'[id] = writes[id] /\ era'[id] = era[id]
      <4>1. StartEra(req[r].id) \/ UNCHANGED <<writes, era>>
        BY <1>6 DEF DeleteSession
      <4> QED
        BY <1>1, <2>1, <4>1 DEF StartEra, TypeOK
    <3> QED
      BY <1>6, <2>1, <3>1 DEF DeleteSession, SameSession, Exists
  <2>2. CASE id = req[r].id /\ Exists(id)
    BY <1>1, <1>6, <2>2 DEF DeleteSession, StartEra, Written, TypeOK
  <2>3. CASE id = req[r].id /\ ~Exists(id)
    BY <1>6, <2>3 DEF DeleteSession, SameSession, Exists
  <2> QED
    BY <2>1, <2>2, <2>3
<1> QED
  BY <1>3, <1>4, <1>5, <1>6
  DEF Step, LoadTurn, ProviderReplies, ProviderFails, BinderGet, BinderSave,
      AppendRefused, GetForEdit, CreateSession, ReadBack

\* A step of r changes nothing that is q's own.
LEMMA FrameStep ==
  ASSUME TypeOK, NEW r \in Requests, Step(r)
  PROVE  /\ req' = req
         /\ \A q \in Requests \ {r} :
              /\ pc'[q] = pc[q] /\ wrote'[q] = wrote[q]
              /\ expected'[q] = expected[q] /\ prior'[q] = prior[q] /\ seen'[q] = seen[q]
<1> USE DEF TypeOK, Goto, readVars
<1>1. CASE LoadTurn(r) \/ GetForEdit(r)
  BY <1>1 DEF LoadTurn, GetForEdit, Observe
<1>2. CASE BinderSave(r) \/ CreateSession(r)
  BY <1>2 DEF BinderSave, CreateSession, Save
<1>3. CASE AppendAccepted(r)
  BY <1>3 DEF AppendAccepted
<1>4. CASE AppendRefused(r)
  BY <1>4 DEF AppendRefused
<1>5. CASE DeleteSession(r)
  BY <1>5 DEF DeleteSession
<1>6. CASE ProviderReplies(r) \/ ProviderFails(r) \/ BinderGet(r) \/ ReadBack(r)
  BY <1>6 DEF ProviderReplies, ProviderFails, BinderGet, ReadBack
<1> QED
  BY <1>1, <1>2, <1>3, <1>4, <1>5, <1>6 DEF Step

\* A receipt of an accepted batch stays true: within its era the batch is found
\* where it was stored.
LEMMA WroteStep ==
  ASSUME IInv, NEW r \in Requests, Step(r)
  PROVE  WroteBounds'
<1>1. TypeOK
  BY DEF IInv
<1>2. \A q \in Requests : req[q].id \in Ids
  BY <1>1, BatchProperties DEF TypeOK
<1>3. \A id \in Ids : /\ era[id] \in Nat /\ writes[id] \in Nat /\ era[id] <= writes[id]
                      /\ era'[id] >= era[id] /\ era'[id] \in Nat
  <2> SUFFICES ASSUME NEW id \in Ids
               PROVE  /\ era[id] \in Nat /\ writes[id] \in Nat /\ era[id] <= writes[id]
                      /\ era'[id] >= era[id] /\ era'[id] \in Nat
    OBVIOUS
  <2>1. era[id] \in Nat /\ writes[id] \in Nat /\ era[id] <= writes[id]
    BY <1>1 DEF IInv, EraBounds, TypeOK
  <2>2. SameSession(id) \/ Written(id)
    BY StoreStep
  <2> QED
    BY <2>1, <2>2 DEF SameSession, Written
<1> SUFFICES ASSUME NEW q \in Requests
             PROVE  /\ wrote'[q].era <= era'[req[q].id]
                    /\ pc'[q] \in {"idle", "provider", "binderGet", "binderSave", "append"}
                         => wrote'[q].era = 0
                    /\ pc'[q] = "ok" /\ req[q].kind \in {"turn", "edit"} => wrote'[q].era # 0
                    /\ pc'[q] = "readBack" => req[q].kind = "create"
  BY <1>1, FrameStep DEF WroteBounds
<1>4. /\ wrote[q].era <= era[req[q].id] /\ wrote[q].era \in Nat
      /\ pc[q] \in {"idle", "provider", "binderGet", "binderSave", "append"} => wrote[q].era = 0
      /\ pc[q] = "ok" /\ req[q].kind \in {"turn", "edit"} => wrote[q].era # 0
      /\ pc[q] = "readBack" => req[q].kind = "create"
  BY <1>1 DEF IInv, WroteBounds, TypeOK
<1>5. CASE q # r
  <2>1. pc'[q] = pc[q] /\ wrote'[q] = wrote[q]
    BY <1>1, <1>5, FrameStep
  <2>2. wrote[q].era <= era'[req[q].id]
    BY <1>2, <1>3, <1>4
  <2> QED
    BY <1>4, <2>1, <2>2
<1>6. CASE q = r
  <2>1. req[r].id \in Ids
    BY <1>2
  <2> USE DEF Goto, TypeOK
  <2>2. ASSUME wrote' = wrote PROVE wrote'[r].era <= era'[req[r].id]
    BY <1>2, <1>3, <1>4, <1>6, <2>2
  <2>3. CASE LoadTurn(r) \/ GetForEdit(r)
    BY <1>1, <1>4, <1>6, <2>2, <2>3 DEF LoadTurn, GetForEdit, Begin
  <2>4. CASE ProviderReplies(r) \/ ProviderFails(r) \/ BinderGet(r) \/ ReadBack(r)
    <3>1. req[r].kind \in {"turn", "edit", "stream", "create", "delete"}
      BY <1>1 DEF Request
    <3> QED
      BY <1>1, <1>4, <1>6, <2>2, <2>4, <3>1
      DEF ProviderReplies, ProviderFails, BinderGet, ReadBack
  <2>5. CASE AppendRefused(r)
    BY <1>1, <1>4, <1>6, <2>2, <2>5 DEF AppendRefused
  <2>6. CASE DeleteSession(r)
    BY <1>1, <1>4, <1>6, <2>2, <2>6 DEF DeleteSession, Begin
  <2>7. CASE BinderSave(r) \/ CreateSession(r)
    <3>1. wrote'[r].era = writes[req[r].id] + 1 /\ era'[req[r].id] = writes[req[r].id] + 1
      BY <1>1, <2>1, <2>7 DEF BinderSave, CreateSession, Save, StartEra
    <3>2. pc'[r] = IF BinderSave(r) THEN "ok" ELSE "readBack"
      BY <1>1, <2>7 DEF BinderSave, CreateSession, Begin
    <3>3. CreateSession(r) => req[r].kind = "create"
      BY DEF CreateSession, Begin
    <3> QED
      BY <1>3, <1>6, <2>1, <2>7, <3>1, <3>2, <3>3
  <2>8. CASE AppendAccepted(r)
    <3>1. wrote'[r].era = era[req[r].id] /\ era' = era /\ pc'[r] = "ok"
      BY <1>1, <2>8 DEF AppendAccepted, CountWrite
    <3>2. era[req[r].id] > 0
      BY <2>1, <2>8 DEF AppendAccepted, IInv, EraBounds
    <3> QED
      BY <1>3, <1>6, <2>1, <3>1, <3>2
  <2> QED
    BY <2>3, <2>4, <2>5, <2>6, <2>7, <2>8 DEF Step
<1> QED
  BY <1>5, <1>6

\* One request's conjunct of ReadBasis.
Basis(q) ==
  /\ seen[q].era <= seen[q].writes
  /\ seen[q].writes <= writes[req[q].id]
  /\ expected[q] # 0 => expected[q] = 1 + (seen[q].writes - seen[q].era)
  /\ seen[q].writes = writes[req[q].id] =>
       /\ seen[q].era = era[req[q].id]
       /\ expected[q] = ObservedVersion(req[q].id)
       /\ prior[q] = History(req[q].id)
  /\ pc[q] \in {"binderGet", "binderSave"} => expected[q] = 0
  /\ pc[q] = "append" /\ expected[q] = 0 => seen[q].writes < writes[req[q].id]

\* What a request has read stays comparable with the store: within the era of the
\* read, its version is not ahead, and an equal version means an equal history.
LEMMA ReadStep ==
  ASSUME IInv, NEW r \in Requests, Step(r)
  PROVE  ReadBasis'
<1>1. TypeOK
  BY DEF IInv
<1>2. \A q \in Requests :
        /\ req[q].id \in Ids /\ writes[req[q].id] \in Nat /\ era[req[q].id] \in Nat
        /\ seen[q].writes \in Nat /\ seen[q].era \in Nat /\ expected[q] \in Nat
  BY <1>1, BatchProperties DEF TypeOK
<1> SUFFICES ASSUME NEW q \in Requests, Reading(q)'
             PROVE  Basis(q)'
  BY DEF ReadBasis, Basis
<1>3. Reading(q) => Basis(q)
  BY DEF IInv, ReadBasis, Basis
<1>4. req' = req
  BY <1>1, FrameStep
<1>5. SameSession(req[q].id) \/ Written(req[q].id)
  BY <1>2, StoreStep
<1>6. CASE q # r
  <2>1. /\ pc'[q] = pc[q] /\ expected'[q] = expected[q]
        /\ prior'[q] = prior[q] /\ seen'[q] = seen[q]
    BY <1>1, <1>6, FrameStep
  <2>2. Basis(q)
    BY <1>3, <2>1 DEF Reading
  <2>3. CASE SameSession(req[q].id)
    <3>1. History(req[q].id)' = History(req[q].id)
      BY <1>4, <2>3 DEF SameSession, History, Exists
    <3>2. ObservedVersion(req[q].id)' = ObservedVersion(req[q].id)
      BY <1>4, <2>3 DEF SameSession, ObservedVersion, Exists
    <3> QED
      BY <1>4, <2>1, <2>2, <2>3, <3>1, <3>2 DEF SameSession, Basis
  <2>4. CASE Written(req[q].id)
    BY <1>2, <1>4, <2>1, <2>2, <2>4 DEF Written, Basis
  <2> QED
    BY <1>5, <2>3, <2>4
<1>7. CASE q = r
  <2> USE DEF Goto, TypeOK
  <2> DEFINE id == req[r].id
  <2>1. Exists(id) => /\ byID[id].version \in Nat \ {0}
                      /\ byID[id].version = 1 + (writes[id] - era[id])
    BY <1>1 DEF Exists, Session, IInv, VersionCountsWrites
  <2>2. era[id] <= writes[id]
    BY <1>2 DEF IInv, EraBounds
  <2>3. CASE LoadTurn(r) \/ GetForEdit(r)
    <3>1. /\ expected'[r] = ObservedVersion(id) /\ prior'[r] = History(id)
          /\ seen'[r].era = era[id] /\ seen'[r].writes = writes[id]
      BY <1>1, <2>3 DEF LoadTurn, GetForEdit, Observe
    <3>2. UNCHANGED <<byID, writes, era>>
      BY <2>3 DEF LoadTurn, GetForEdit, storeVars
    <3>3. pc'[r] = "provider" \/ (pc'[r] = "append" /\ Exists(id))
      BY <1>1, <1>7, <2>3 DEF LoadTurn, GetForEdit, Reading
    <3>4. ObservedVersion(id)' = ObservedVersion(id) /\ History(id)' = History(id)
      BY <1>4, <3>2 DEF ObservedVersion, History, Exists
    <3>5. ObservedVersion(id) # 0 => ObservedVersion(id) = 1 + (writes[id] - era[id])
      BY <2>1 DEF ObservedVersion
    <3>6. Exists(id) => ObservedVersion(id) # 0
      BY <2>1 DEF ObservedVersion
    <3> QED
      BY <1>2, <1>4, <1>7, <2>2, <3>1, <3>2, <3>3, <3>4, <3>5, <3>6 DEF Basis
  <2>4. CASE ProviderReplies(r) \/ BinderGet(r)
    <3>1. UNCHANGED <<byID, writes, era, expected, prior, seen>>
      BY <2>4 DEF ProviderReplies, BinderGet, storeVars, readVars
    <3>2. Basis(r)
      BY <1>3, <1>7, <2>4 DEF ProviderReplies, BinderGet, Reading
    <3>3. ObservedVersion(id)' = ObservedVersion(id) /\ History(id)' = History(id)
      BY <1>4, <3>1 DEF ObservedVersion, History, Exists
    <3>4. pc'[r] \in {"binderGet", "binderSave"} => expected[r] = 0
      BY <1>1, <2>4, <3>2 DEF ProviderReplies, BinderGet, Basis
    <3>5. pc'[r] = "append" /\ expected[r] = 0 => seen[r].writes < writes[id]
      <4>1. CASE ProviderReplies(r)
        BY <1>1, <4>1 DEF ProviderReplies
      <4>2. CASE BinderGet(r)
        BY <1>1, <1>2, <2>1, <3>2, <4>2 DEF BinderGet, Basis, ObservedVersion
      <4> QED
        BY <2>4, <4>1, <4>2
    <3> QED
      BY <1>4, <1>7, <3>1, <3>2, <3>3, <3>4, <3>5 DEF Basis
  <2>5. ~(ProviderFails(r) \/ BinderSave(r) \/ AppendAccepted(r) \/ AppendRefused(r)
            \/ CreateSession(r) \/ ReadBack(r) \/ DeleteSession(r))
    BY <1>1, <1>7 DEF Reading, ProviderFails, BinderSave, AppendAccepted, AppendRefused,
                      CreateSession, ReadBack, DeleteSession
  <2> QED
    BY <2>3, <2>4, <2>5 DEF Step
<1> QED
  BY <1>6, <1>7

\* A refused request stays one whose refusal another request's write explains.
LEMMA RefusalStep ==
  ASSUME IInv, NEW r \in Requests, Step(r)
  PROVE  RefusalsAreGenuine'
<1>1. TypeOK
  BY DEF IInv
<1>2. \A q \in Requests :
        /\ req[q].id \in Ids /\ writes[req[q].id] \in Nat /\ seen[q].writes \in Nat
  BY <1>1, BatchProperties DEF TypeOK
<1>3. req' = req
  BY <1>1, FrameStep
<1> SUFFICES ASSUME NEW q \in Requests,
                    pc'[q] = "conflict" \/ (pc'[q] = "notFound" /\ req[q].kind = "turn")
             PROVE  writes'[req[q].id] > seen'[q].writes
  BY <1>3 DEF RefusalsAreGenuine
<1>4. writes'[req[q].id] \in Nat /\ writes'[req[q].id] >= writes[req[q].id]
  BY <1>2, StoreStep DEF SameSession, Written
<1>5. CASE q # r
  <2>1. pc'[q] = pc[q] /\ seen'[q] = seen[q]
    BY <1>1, <1>5, FrameStep
  <2>2. writes[req[q].id] > seen[q].writes
    BY <2>1 DEF IInv, RefusalsAreGenuine
  <2> QED
    BY <1>2, <1>4, <2>1, <2>2
<1>6. CASE q = r
  <2> USE DEF Goto, TypeOK
  <2>1. AppendRefused(r)
    <3>1. ~(GetForEdit(r) \/ ReadBack(r))
      BY <1>1, <1>6 DEF GetForEdit, ReadBack, Begin, IInv, WroteBounds
    <3>2. ~(LoadTurn(r) \/ ProviderReplies(r) \/ ProviderFails(r) \/ BinderGet(r)
              \/ BinderSave(r) \/ AppendAccepted(r) \/ CreateSession(r) \/ DeleteSession(r))
      BY <1>1, <1>6 DEF LoadTurn, ProviderReplies, ProviderFails, BinderGet, BinderSave,
                        AppendAccepted, CreateSession, DeleteSession
    <3> QED
      BY <3>1, <3>2 DEF Step
  <2>2. seen' = seen
    BY <2>1 DEF AppendRefused, readVars
  <2>3. Basis(r) /\ pc[r] = "append"
    BY <2>1 DEF AppendRefused, Reading, IInv, ReadBasis, Basis
  <2>4. (Exists(req[r].id) /\ byID[req[r].id].version # expected[r]) \/ ~Exists(req[r].id)
    BY <1>1, <1>6, <2>1 DEF AppendRefused, VersionMatches
  <2>5. seen[r].writes # writes[req[r].id]
    BY <1>2, <2>3, <2>4 DEF Basis, ObservedVersion
  <2> QED
    BY <1>2, <1>4, <1>6, <2>2, <2>3, <2>5 DEF Basis
<1> QED
  BY <1>5, <1>6

-------------------------------------------------------------------------------
(* The inductive invariant is inductive. *)

\* Every step preserves the invariant.
LEMMA InvStep == IInv /\ [Next]_vars => IInv'
<1> SUFFICES ASSUME IInv, [Next]_vars PROVE IInv'
  OBVIOUS
<1>1. TypeOK'
  BY TypeStep DEF IInv
<1>2. ASSUME NEW r \in Requests, Step(r) PROVE IInv'
  <2>1. WroteBounds' /\ ReadBasis' /\ RefusalsAreGenuine'
    BY <1>2, WroteStep, ReadStep, RefusalStep
  <2>2. TypeOK
    BY DEF IInv
  <2>3. SUFFICES /\ EraBounds' /\ VersionCountsWrites' /\ InPlace'
                 /\ OnlyAcceptedBatches' /\ OnlyFirstTurnExceedsCap'
    BY <1>1, <2>1, <2>3 DEF IInv
  <2>4. CASE LoadTurn(r) \/ ProviderReplies(r) \/ ProviderFails(r) \/ BinderGet(r)
               \/ AppendRefused(r) \/ GetForEdit(r) \/ ReadBack(r)
    <3>1. UNCHANGED <<byID, writes, era, req, wrote>>
      BY <2>4 DEF LoadTurn, ProviderReplies, ProviderFails, BinderGet, AppendRefused,
                  GetForEdit, ReadBack, storeVars
    <3> QED
      BY <3>1, QuietStep
  <2>5. CASE BinderSave(r)
    <3>1. Save(r, Batch(r)) /\ req' = req
      BY <2>5 DEF BinderSave
    <3>2. /\ Batch(r) \in Seq(Message) /\ Len(Batch(r)) = req[r].size
          /\ \A i \in 1..req[r].size : Batch(r)[i] = <<r, i>>
      BY <2>2, BatchProperties DEF TypeOK
    <3> QED
      BY <3>1, <3>2, SaveStep
  <2>6. CASE CreateSession(r)
    <3>1. Save(r, << >>) /\ req' = req
      BY <2>6 DEF CreateSession
    <3>2. req[r].size = 0
      BY <2>2, <2>6 DEF CreateSession, Begin, TypeOK, Request
    <3>3. << >> \in Seq(Message) /\ Len(<< >>) = 0
      OBVIOUS
    <3>4. \A i \in 1..req[r].size : << >>[i] = <<r, i>>
      BY <3>2
    <3> QED
      BY <3>1, <3>2, <3>3, <3>4, SaveStep
  <2>7. CASE AppendAccepted(r)
    BY <2>7, AppendStep
  <2>8. CASE DeleteSession(r)
    BY <2>8, DeleteStep
  <2> QED
    BY <1>2, <2>4, <2>5, <2>6, <2>7, <2>8 DEF Step
<1>3. CASE UNCHANGED vars
  <2>1. UNCHANGED <<byID, req, pc, expected, prior, writes, era, seen, wrote>>
    BY <1>3 DEF vars
  <2>2. /\ EraBounds' /\ VersionCountsWrites' /\ InPlace'
        /\ OnlyAcceptedBatches' /\ OnlyFirstTurnExceedsCap'
    BY <2>1, QuietStep
  <2>3. WroteBounds'
    BY <2>1 DEF IInv, WroteBounds
  <2>4. ReadBasis'
    BY <2>1 DEF IInv, ReadBasis, Reading, ObservedVersion, History, Exists
  <2>5. RefusalsAreGenuine'
    BY <2>1 DEF IInv, RefusalsAreGenuine
  <2> QED
    BY <1>1, <2>2, <2>3, <2>4, <2>5 DEF IInv
<1> QED
  BY <1>2, <1>3 DEF Next

\* The strengthened invariant holds in every behaviour.
THEOREM Invariance == Spec => []IInv
BY InvInit, InvStep, PTL DEF Spec

-------------------------------------------------------------------------------
(* What follows from it. *)

\* No acknowledged turn or edit is lost, cut or moved within an era.
THEOREM AcknowledgedWritesKept == Spec => []AcknowledgedKept
<1>1. IInv => AcknowledgedKept
  BY DEF IInv, WroteBounds, InPlace, AcknowledgedKept, History
<1> QED
  BY <1>1, Invariance, PTL

\* Nothing but accepted batches is stored, each of them once.
THEOREM NothingElseStored == Spec => []OnlyAcceptedBatches
<1>1. IInv => OnlyAcceptedBatches
  BY DEF IInv
<1> QED
  BY <1>1, Invariance, PTL

\* A version counts the writes of its era.
THEOREM VersionsCountWrites == Spec => []VersionCountsWrites
<1>1. IInv => VersionCountsWrites
  BY DEF IInv
<1> QED
  BY <1>1, Invariance, PTL

\* A refusal is owed to another request's write.
THEOREM RefusalsGenuine == Spec => []RefusalsAreGenuine
<1>1. IInv => RefusalsAreGenuine
  BY DEF IInv
<1> QED
  BY <1>1, Invariance, PTL

\* Only what a first turn saved is longer than the cap.
THEOREM CapRespected == Spec => []OnlyFirstTurnExceedsCap
<1>1. IInv => OnlyFirstTurnExceedsCap
  BY DEF IInv
<1> QED
  BY <1>1, Invariance, PTL

-------------------------------------------------------------------------------
(* Refinement. *)

\* The empty store is the empty conversation log.
LEMMA ConversationInit == Init => Conversation!ConvInit
<1> SUFFICES ASSUME Init PROVE Conversation!ConvInit
  OBVIOUS
<1>1. [id \in DOMAIN byID |-> byID[id].messages] = << >>
  BY DEF Init
<1>2. [r \in Requests |-> [era |-> seen[r].era, log |-> prior[r]]]
        = [r \in Requests |-> [era |-> 0, log |-> << >>]]
  BY DEF Init
<1>3. {r \in Requests : wrote[r].era # 0} = {}
  BY DEF Init
<1> QED
  BY <1>1, <1>2, <1>3 DEF Init, Conversation!ConvInit

\* The version check of an accepted append stands for a comparison of histories.
LEMMA VersionStandsForHistory ==
  ASSUME IInv, NEW r \in Requests, AppendAccepted(r), seen[r].era = era[req[r].id]
  PROVE  prior[r] = byID[req[r].id].messages
<1> DEFINE id == req[r].id
<1>1. TypeOK /\ id \in Ids /\ Exists(id)
  BY BatchProperties DEF IInv, TypeOK, AppendAccepted
<1>2. byID[id].version = 1 + (writes[id] - era[id]) /\ byID[id].version \in Nat \ {0}
  BY <1>1 DEF IInv, VersionCountsWrites, Exists, TypeOK, Session
<1>3. expected[r] = byID[id].version
  BY DEF AppendAccepted, VersionMatches
<1>4. expected[r] = 1 + (seen[r].writes - seen[r].era)
  BY <1>2, <1>3 DEF AppendAccepted, Reading, IInv, ReadBasis
<1>5. writes[id] \in Nat /\ era[id] \in Nat /\ seen[r].writes \in Nat
  BY <1>1 DEF TypeOK
<1>6. seen[r].writes = writes[id]
  BY <1>2, <1>3, <1>4, <1>5
<1>7. prior[r] = History(id)
  BY <1>6 DEF AppendAccepted, Reading, IInv, ReadBasis
<1> QED
  BY <1>1, <1>7 DEF History

\* Every step of a request is a step of the conversation log, or leaves it alone.
LEMMA ConversationStep == IInv /\ [Next]_vars => [Conversation!ConvNext]_(Conversation!convVars)
<1> SUFFICES ASSUME IInv, [Next]_vars
             PROVE  Conversation!ConvNext \/ UNCHANGED Conversation!convVars
  OBVIOUS
<1> DEFINE Log      == [id \in DOMAIN byID |-> byID[id].messages]
           Basis0   == [r \in Requests |-> [era |-> seen[r].era, log |-> prior[r]]]
<1>1. TypeOK
  BY DEF IInv
<1>2. ASSUME UNCHANGED <<byID, era, seen, prior, wrote>>
      PROVE  UNCHANGED Conversation!convVars
  BY <1>2 DEF Conversation!convVars
<1>3. ASSUME NEW r \in Requests, Step(r)
      PROVE  Conversation!ConvNext \/ UNCHANGED Conversation!convVars
  <2>1. PICK id \in Ids : id = req[r].id
    BY <1>1, BatchProperties DEF TypeOK
  <2>2. ASSUME wrote[r].era = 0, wrote'[r].era # 0,
               \A q \in Requests \ {r} : wrote'[q] = wrote[q]
        PROVE  Conversation!TakesEffect(r)
    BY <2>1, <2>2 DEF Conversation!TakesEffect
  <2>3. ASSUME NEW s, Put(id, s)
        PROVE  Conversation!Writes(id) /\ Log'[id] = s.messages
    BY <2>1, <2>3 DEF Put, Conversation!Writes
  <2>4. CASE LoadTurn(r) \/ GetForEdit(r)
    <3>1. UNCHANGED <<byID, era, wrote>>
      BY <2>1, <2>4 DEF LoadTurn, GetForEdit, storeVars
    <3>2. Observe(r)
      BY <2>1, <2>4 DEF LoadTurn, GetForEdit
    <3>3. Basis0' = [Basis0 EXCEPT ![r] = [era |-> era[id], log |-> History(id)]]
      BY <2>1, <1>1, <3>2 DEF Observe, TypeOK
    <3>4. History(id) = IF id \in DOMAIN Log THEN Log[id] ELSE << >>
      BY <2>1 DEF History, Exists
    <3>5. Conversation!Look(r, id)
      BY <2>1, <3>1, <3>3, <3>4 DEF Conversation!Look, Conversation!LogOf
    <3> QED
      BY <2>1, <3>5 DEF Conversation!ConvNext
  <2>5. CASE AppendAccepted(r)
    <3> DEFINE new == AppendedSession(byID[id], Batch(r))
    <3>1. /\ Exists(id) /\ byID[id] \in Session /\ byID[id].messages \in Seq(Message)
          /\ Batch(r) \in Seq(Message) /\ Put(id, new)
      BY <2>1, <1>1, <2>5, BatchProperties DEF AppendAccepted, Exists, TypeOK, Session
    <3>2. Conversation!Writes(id) /\ Log'[id] = new.messages
      BY <2>1, <2>3, <3>1
    <3>3. Log[id] = byID[id].messages /\ id \in DOMAIN Log
      BY <2>1, <3>1 DEF Exists
    <3>4. Conversation!Extends(Log'[id], Log[id])
      <4>1. /\ Len(new.messages) = Len(byID[id].messages) + Len(Batch(r))
            /\ \A i \in 1..Len(byID[id].messages) : new.messages[i] = byID[id].messages[i]
        BY <2>1, <3>1, AppendedProperties
      <4>2. Len(byID[id].messages) \in Nat /\ Len(Batch(r)) \in Nat
        BY <2>1, <3>1
      <4> HIDE DEF new, Log
      <4> QED
        BY <2>1, <3>2, <3>3, <4>1, <4>2 DEF Conversation!Extends
    <3>5. Basis0[r].era = era[id] => Basis0[r].log = Log[id]
      BY <2>1, <2>5, <3>3, VersionStandsForHistory
    <3>6. Conversation!TakesEffect(r)
      <4>1. wrote'[r].era = era[id] /\ \A q \in Requests \ {r} : wrote'[q] = wrote[q]
        BY <2>1, <1>1, <2>5 DEF AppendAccepted, TypeOK
      <4>2. wrote[r].era = 0 /\ era[id] # 0
        BY <1>1, <2>1, <2>5, <3>1 DEF AppendAccepted, IInv, WroteBounds, EraBounds, TypeOK
      <4> QED
        BY <2>1, <2>2, <4>1, <4>2
    <3>7. UNCHANGED <<era, seen, prior>>
      BY <2>1, <2>5 DEF AppendAccepted, CountWrite, readVars
    <3>8. Conversation!Extend(r, id)
      BY <2>1, <3>2, <3>3, <3>4, <3>5, <3>6, <3>7 DEF Conversation!Extend
    <3> QED
      BY <2>1, <3>8 DEF Conversation!ConvNext
  <2>6. CASE BinderSave(r) \/ CreateSession(r)
    <3>1. PICK msgs : Save(r, msgs)
      BY <2>1, <2>6 DEF BinderSave, CreateSession
    <3>2. Conversation!Writes(id)
      BY <2>1, <2>3, <3>1 DEF Save
    <3>3. era' = [era EXCEPT ![id] = writes[id] + 1] /\ writes[id] \in Nat
      BY <1>1, <2>1, <3>1 DEF Save, StartEra, TypeOK
    <3>4. Conversation!NewEra(id)
      <4>1. /\ era[id] <= writes[id] /\ era[id] \in Nat /\ era'[id] = writes[id] + 1
            /\ \A k \in Ids \ {id} : era'[k] = era[k]
        BY <1>1, <2>1, <3>3 DEF IInv, EraBounds, TypeOK
      <4> QED
        BY <2>1, <3>3, <4>1 DEF Conversation!NewEra
    <3>5. Conversation!TakesEffect(r)
      <4>1. /\ wrote'[r].era = writes[id] + 1
            /\ \A q \in Requests \ {r} : wrote'[q] = wrote[q]
        BY <2>1, <1>1, <3>1 DEF Save, TypeOK
      <4>2. wrote[r].era = 0
        BY <2>1, <2>6 DEF BinderSave, CreateSession, Begin, IInv, WroteBounds
      <4> QED
        BY <2>1, <2>2, <3>3, <4>1, <4>2
    <3>6. UNCHANGED <<seen, prior>>
      BY <2>1, <2>6 DEF BinderSave, CreateSession, readVars
    <3>7. Conversation!Restart(r, id)
      BY <2>1, <3>2, <3>4, <3>5, <3>6 DEF Conversation!Restart
    <3> QED
      BY <2>1, <3>7 DEF Conversation!ConvNext
  <2>7. CASE DeleteSession(r)
    <3>1. /\ Log' = [k \in DOMAIN Log \ {id} |-> Log[k]]
          /\ UNCHANGED <<seen, prior, wrote>>
      BY <2>1, <2>7 DEF DeleteSession, readVars
    <3>2. CASE Exists(id)
      <4>1. era' = [era EXCEPT ![id] = writes[id] + 1]
        BY <2>1, <2>7, <3>2 DEF DeleteSession, StartEra
      <4>2. /\ era[id] <= writes[id] /\ era[id] \in Nat /\ writes[id] \in Nat
            /\ era'[id] = writes[id] + 1
            /\ \A k \in Ids \ {id} : era'[k] = era[k]
        BY <1>1, <2>1, <4>1 DEF IInv, EraBounds, TypeOK
      <4>3. Conversation!NewEra(id)
        BY <2>1, <4>1, <4>2 DEF Conversation!NewEra
      <4>4. Conversation!Remove(id)
        BY <2>1, <3>1, <3>2, <4>3 DEF Conversation!Remove, Exists
      <4> QED
        BY <2>1, <4>4 DEF Conversation!ConvNext
    <3>3. CASE ~Exists(id)
      <4>1. Log' = Log /\ era' = era
        BY <2>1, <2>7, <3>1, <3>3 DEF DeleteSession, Exists
      <4> QED
        BY <2>1, <3>1, <4>1 DEF Conversation!convVars
    <3> QED
      BY <2>1, <3>2, <3>3
  <2>8. CASE ProviderReplies(r) \/ ProviderFails(r) \/ BinderGet(r) \/ AppendRefused(r)
               \/ ReadBack(r)
    BY <2>1, <1>2, <2>8 DEF ProviderReplies, ProviderFails, BinderGet, AppendRefused, ReadBack,
                      storeVars, readVars
  <2> QED
    BY <2>1, <1>3, <2>4, <2>5, <2>6, <2>7, <2>8 DEF Step
<1>4. CASE UNCHANGED vars
  BY <1>2, <1>4 DEF vars
<1> QED
  BY <1>3, <1>4 DEF Next

\* SessionTurns implements ConversationLog: an accepted append extends exactly the
\* history that its request read, unless the session was replaced or removed.
THEOREM Refinement == Spec => ImplementsConversation
BY ConversationInit, ConversationStep, Invariance, PTL
DEF Spec, ImplementsConversation, Conversation!ConvSpec
==============================================================================
