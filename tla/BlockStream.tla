----------------------------- MODULE BlockStream -----------------------------
(***************************************************************************)
(* What the consumer of a StreamReader may rely on, whichever provider is  *)
(* behind it (pkg/chat/stream.go): a message of blocks with the indices    *)
(* 0, 1, ...; each block opens once, only grows, and never changes again   *)
(* when it has stopped; a message stops when all of its blocks have; and   *)
(* no block changes behind the end.  A message_delta, which carries the stop*)
(* reason and the usage, is left out: OpenAI's may come behind the stop.    *)
(* StreamReaders is shown to implement it.                                 *)
(***************************************************************************)
EXTENDS Naturals, Sequences

VARIABLES phase,     \* of the message: "none", "message" or "stopped"
          blocks,    \* index -> the block's accumulated deltas, and whether it is open
          outcome    \* "none", "eof", "canceled" or "failed"

streamVars == <<phase, blocks, outcome>>

Extends(longer, s) == /\ Len(longer) >= Len(s)
                      /\ SubSeq(longer, 1, Len(s)) = s

\* Blocks are only added at the next index, and only open ones grow.
Grown == /\ DOMAIN blocks \subseteq DOMAIN blocks'
         /\ \A i \in DOMAIN blocks' : \A j \in 0..i : j \in DOMAIN blocks'
         /\ \A i \in DOMAIN blocks :
              IF blocks[i].open THEN Extends(blocks'[i].data, blocks[i].data)
                                ELSE blocks'[i] = blocks[i]

StreamInit == phase = "none" /\ blocks = << >> /\ outcome = "none"

Progress == /\ outcome = "none"
            /\ phase # "stopped"
            /\ phase' \in {"message", "stopped"}
            /\ Grown
            /\ phase' = "stopped" => \A i \in DOMAIN blocks' : ~blocks'[i].open
            /\ UNCHANGED outcome

\* The end may come at any time: a provider may break off, or the client may leave.
Conclude == /\ outcome = "none"
            /\ outcome' \in {"eof", "canceled", "failed"}
            /\ UNCHANGED <<phase, blocks>>

StreamNext == Progress \/ Conclude

StreamSpec == StreamInit /\ [][StreamNext]_streamVars
==============================================================================
