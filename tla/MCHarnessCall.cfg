SPECIFICATION FairSpec
CONSTANTS
  Documents <- MCDocuments
  Written <- MCWritten
  Providers <- MCProviders
  Calls <- MCCalls
  MAX_LINES <- MCMaxLines
  BigRequests = TRUE
  MAX_CALLS = 2
  SUPERVISOR_REASK_LIMIT = 1
  EVIDENCE_TOOL_RETRY_LIMIT = 1
INVARIANTS NoChildLeftBehind OpenAddressIsFresh
PROPERTIES AnswersAccountForReports KeepsTurnContract StuckChildrenGoOn EndedTurnsLetGo
