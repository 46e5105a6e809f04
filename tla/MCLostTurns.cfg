SPECIFICATION FairSpec
CONSTANTS
  Notes = {n1}
  Drafts <- BothAndPatient
  UserSides = {TRUE}
  MaxTurns = 2
  RecoversLost = TRUE
  SettleOnNoop = FALSE
  Controlled <- BothParties
  ObserverStops = FALSE
  ObserverPanics = FALSE
  Exchanges <- WorkOrQuiet
  Replies <- OneReply
  NOOP_SETTLE_LIMIT = 2
PROPERTY TurnCapBoundsTheLoop
