--------------------------- MODULE ConversationLog ---------------------------
(***************************************************************************)
(* What the session layer promises to a client holding a session id, with  *)
(* no version numbers, locks or handlers in sight: every conversation is a *)
(* log; a request looks at the log and later extends it at most once; and, *)
(* as long as the conversation was not replaced or removed meanwhile       *)
(* (either starts a new era), what it extends is exactly what it looked    *)
(* at.  SessionTurns is shown to implement this.                           *)
(***************************************************************************)
EXTENDS Naturals, Sequences

CONSTANTS Ids,        \* session ids
          Requests    \* requests, each of which takes effect at most once

VARIABLES log,        \* the conversations that exist: id -> sequence of messages
          era,        \* era[id]: grows whenever log[id] is replaced or removed
          basis,      \* basis[r]: the log, and its era, that r looked at
          effected    \* the requests that have taken effect

convVars == <<log, era, basis, effected>>

LogOf(id) == IF id \in DOMAIN log THEN log[id] ELSE << >>

\* Only the conversation id is touched, and it exists afterwards.
Writes(id) == /\ DOMAIN log' = DOMAIN log \cup {id}
              /\ \A k \in DOMAIN log \ {id} : log'[k] = log[k]

Extends(longer, s) == /\ Len(longer) >= Len(s)
                      /\ \A i \in 1..Len(s) : longer[i] = s[i]

NewEra(id) == /\ era'[id] > era[id]
              /\ \A k \in Ids \ {id} : era'[k] = era[k]

TakesEffect(r) == /\ r \notin effected
                  /\ effected' = effected \cup {r}

ConvInit == /\ log = << >>
            /\ era = [id \in Ids |-> 0]
            /\ basis = [r \in Requests |-> [era |-> 0, log |-> << >>]]
            /\ effected = {}

Look(r, id) == /\ basis' = [basis EXCEPT ![r] = [era |-> era[id], log |-> LogOf(id)]]
               /\ UNCHANGED <<log, era, effected>>

\* The turn or edit of r becomes the newest part of the log it looked at.
Extend(r, id) == /\ id \in DOMAIN log
                 /\ basis[r].era = era[id] => basis[r].log = log[id]
                 /\ Writes(id)
                 /\ Extends(log'[id], log[id])
                 /\ TakesEffect(r)
                 /\ UNCHANGED <<era, basis>>

\* A new era: the log is what r brings, and nothing of what was there.
Restart(r, id) == /\ Writes(id)
                  /\ NewEra(id)
                  /\ TakesEffect(r)
                  /\ UNCHANGED basis

Remove(id) == /\ id \in DOMAIN log
              /\ log' = [k \in DOMAIN log \ {id} |-> log[k]]
              /\ NewEra(id)
              /\ UNCHANGED <<basis, effected>>

ConvNext == \E id \in Ids :
              \/ \E r \in Requests : Look(r, id) \/ Extend(r, id) \/ Restart(r, id)
              \/ Remove(id)

ConvSpec == ConvInit /\ [][ConvNext]_convVars
==============================================================================
