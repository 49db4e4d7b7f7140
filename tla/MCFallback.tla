------------------------------ MODULE MCFallback ------------------------------
(* Instances of Fallback for TLC. *)
EXTENDS Fallback

\* A small and a large model, a second provider's large model under the small one's
\* name, a model the catalog does not know, and one whose provider is not registered.
MCRefs == {"small", "large", "clash", "unknown", "gone"}
MCModelOf == [r \in MCRefs |-> IF r = "clash" THEN "small" ELSE r]
MCRegistered == MCRefs \ {"gone"}
MCCatalogued == {"small", "large", "clash"}
MCContextOf == [r \in MCCatalogued |-> IF r = "small" THEN 8 ELSE 32]
MCKinds == {"ContextLength", "RateLimit", "AuthFailed"}
MCPolicies == UNION {[1..n -> MCRefs] : n \in 1..3}
                \cup {<<"small", "gone", "small", "large">>, <<"unknown", "small", "large", "clash">>}
MCAttemptCaps == -1..3
===============================================================================
