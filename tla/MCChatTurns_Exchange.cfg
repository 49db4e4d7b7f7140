SPECIFICATION Spec
CONSTANTS
  Refs <- MCRefs
  ModelOf <- MCModelOf
  Registered <- MCRegistered
  AdapterOf <- MCAdapterOf
  Catalogued <- MCCatalogued
  InfoOf <- MCInfoOf
  Words <- MCWords
  CharsOf <- MCCharsOf
  FollowUp <- MCFollowUp
  Done <- Hi
  Prompt <- Hi
  OllamaTools = FALSE
  Candidates <- ExchangeCandidates
  DefaultPolicy = "all"
  FallbackSets <- ExchangeFallbackSets
  AttemptCaps <- ExchangeCaps
  AttemptTimeout = TRUE
  Modes = {"send", "stream"}
  Asks <- ExchangeAsks
  Edits <- ExchangeEdits
  Statuses <- ExchangeStatuses
  Parts <- ExchangeParts
  MaxTurns = 2
  MaxEdits = 1
  MayLeave = TRUE
\* All turns are taken.
CHECK_DEADLOCK FALSE
INVARIANTS
  GoneClientEndsTheLoop
  ErrorSaysError
  DeadlineMovesOn
  EmptyReplyOnlyForNegativeCap
PROPERTIES
  TurnMovesOn
  TurnEnds
