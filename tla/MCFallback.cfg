SPECIFICATION Spec
CONSTANTS
  Refs <- MCRefs
  ModelOf <- MCModelOf
  Registered <- MCRegistered
  Catalogued <- MCCatalogued
  ContextOf <- MCContextOf
  Kinds <- MCKinds
  Policies <- MCPolicies
  AttemptCaps <- MCAttemptCaps
\* The executor returns.
CHECK_DEADLOCK FALSE
INVARIANTS
  TypeOK
  LoopInBounds
  TriedInOrder
  FallbackOnlyWhereAllowed
  ReplyIsTheLastAttempt
  LargerContextAfterOverflow
  CapWithoutOverflow
  GivesUpOnlyWhenExhausted
  NilErrorOnlyForNegativeCap
PROPERTIES
  Terminates
