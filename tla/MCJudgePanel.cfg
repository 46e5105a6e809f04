SPECIFICATION FairSpec
CONSTANTS
  Sizes = {1, 2, 3}
  Numeric <- Scorers
  Prose <- Writers
  Scores = {0, 1}
  MaxBegun = 2
  MaxTurns = 2
  MaxCalls <- FewerWhenLarger
  ObserverStops = TRUE
  ObserverPanics = TRUE
  JudgesPanic = TRUE
INVARIANTS TypeOK EveryJudgeAwaited NotAskedAfterBreak EveryCandidateWasSeen
  AnswerSpeaksForAll OneEntryPerTurn RecordIsThisRuns
PROPERTIES CallsEnd
