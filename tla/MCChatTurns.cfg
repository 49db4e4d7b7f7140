SPECIFICATION Spec
CONSTANTS
  Refs <- MCRefs
  ModelOf <- MCModelOf
  Registered <- MCRegistered
  AdapterOf <- MCAdapterOf
  Catalogued <- MCCatalogued
  InfoOf <- MCInfoOf
  Words <- MCWords
  CharsOf <- MCCharsOf
  FollowUp <- MCFollowUp
  Done <- Hi
  Prompt <- Hi
  OllamaTools = FALSE
  Candidates <- TalkCandidates
  DefaultPolicy = "all"
  FallbackSets <- TalkFallbackSets
  AttemptCaps <- TalkCaps
  AttemptTimeout = FALSE
  Modes = {"send"}
  Asks <- TalkAsks
  Edits <- TalkEdits
  Statuses <- TalkStatuses
  Parts <- TalkParts
  MaxTurns = 3
  MaxEdits = 1
  MayLeave = FALSE
\* All turns are taken.
CHECK_DEADLOCK FALSE
INVARIANTS
  TypeOK
  EveryResultHasItsCall
  WireTellsTheConversation
  OwnRepliesReplayable
  PickedModelServes
