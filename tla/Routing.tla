-------------------------------- MODULE Routing --------------------------------
(***************************************************************************)
(* Which models a request may go to: the catalog (pkg/chat/model.go), the  *)
(* fingerprint and the policies of pkg/router, and pickCandidates of       *)
(* pkg/chat/harness.go.  The catalog and the policies are fixed once the   *)
(* service is built.                                                       *)
(***************************************************************************)
EXTENDS Messages

CONSTANTS
  Refs,           \* "provider:model" references
  Catalogued,     \* those that the catalog has an entry for
  InfoOf,         \* InfoOf[ref]: capabilities and ContextTokens, 0 = unknown
  Candidates,     \* Candidates[name]: the candidates of a policy
  DefaultPolicy   \* Router.DefaultPolicy

ModelInfo == [tools : BOOLEAN, parallel : BOOLEAN, vision : BOOLEAN, thinking : BOOLEAN,
              context : Nat]

\* NewPolicyRouter: no policy is empty, and the default is one of them.  (The service
\* may have no default; then a request has to name its policy.)
NoPolicy == "none"

GoodPolicies ==
  /\ \A name \in DOMAIN Candidates : Candidates[name] \in Seq(Refs) \ {<< >>}
  /\ DefaultPolicy = NoPolicy \/ DefaultPolicy \in DOMAIN Candidates

ASSUME CatalogAssumption == Catalogued \subseteq Refs /\ InfoOf \in [Catalogued -> ModelInfo]
ASSUME PoliciesAssumption == GoodPolicies /\ NoPolicy \notin DOMAIN Candidates
ASSUME RefsAreModels == Refs \cap {NoModel, Alias, BadRef} = {}

-------------------------------------------------------------------------------
\* len(b.Text)/4 of every text block at the top level of a message.
EstimatedInputTokens(msgs) ==
  LET Tokens(b) == IF IsText(b) THEN Chars(b.text) \div 4 ELSE 0
      blocks    == FlattenSeq([n \in DOMAIN msgs |-> msgs[n].content])
  IN  Total([i \in DOMAIN blocks |-> Tokens(blocks[i])])

\* Some message has two calls or more.
HasParallelCalls(msgs) ==
  \E n \in DOMAIN msgs : Len(Filtered(msgs[n].content, IsCall)) >= 2

\* Images inside of results are not looked for.
HasImages(msgs) ==
  \E n \in DOMAIN msgs : \E i \in DOMAIN msgs[n].content : IsImage(msgs[n].content[i])

\* Required, the fingerprint.  Nothing sets NeedsJSONSchema or asks for HasToolResults.
Required(req) ==
  [tools    |-> req.tools \/ HasParallelCalls(req.messages),
   parallel |-> HasParallelCalls(req.messages),
   vision   |-> HasImages(req.messages),
   thinking |-> req.thinking,
   tokens   |-> EstimatedInputTokens(req.messages) + 500 + req.maxTokens]

Satisfies(info, needs) ==
  /\ needs.tools    => info.tools
  /\ needs.parallel => info.parallel
  /\ needs.vision   => info.vision
  /\ needs.thinking => info.thinking
  /\ info.context > 0 => needs.tokens <= info.context

\* Pick: the policy's candidates that satisfy the fingerprint or that the catalog does
\* not know, in order.
Pick(name, req) ==
  Filtered(Candidates[name],
           LAMBDA ref : ref \in Catalogued => Satisfies(InfoOf[ref], Required(req)))

\* pickCandidates: << >> stands for its errors (a bare alias, an unknown policy, no
\* candidate left).  An explicit model is not filtered.
PickCandidates(req) ==
  LET name == IF req.policy = NoPolicy THEN DefaultPolicy ELSE req.policy
  IN  CASE req.model \in Refs -> <<req.model>>
        [] req.model = NoModel /\ name \in DOMAIN Candidates -> Pick(name, req)
        [] OTHER -> << >>
===============================================================================
