SPECIFICATION Spec
CONSTANTS
  Sizes = {1, 2}
  Numeric <- Scorers
  Prose <- Writers
  Scores = {0, 1}
  MaxBegun = 1
  MaxTurns = 2
  MaxCalls <- FewerWhenLarger
  ObserverStops = TRUE
  ObserverPanics = FALSE
  JudgesPanic = FALSE
INVARIANTS DrainedAfterEveryCall
