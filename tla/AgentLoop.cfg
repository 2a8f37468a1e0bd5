SPECIFICATION FairSpec
CONSTANTS
  Requests <- MCRequests
  Names = {"web_search", "other", NoName}
  NoName = NoName
  NoIndex = NoIndex
  MaxIterations = 3
  MaxCalls = 2
  MaxPieces = 2
  MaxHits = 2
  PromptTokens = 1
CHECK_DEADLOCK FALSE
INVARIANTS
  CallsAreReassembled
  EveryCallIsAnswered
  ReplyMatchesRow
PROPERTIES
  SearchExhaustsProviders
  RunsEnd
