SPECIFICATION FairSpec
CONSTANTS
  Notes = {n1}
  Drafts <- BothAndPatient
  UserSides = {TRUE, FALSE}
  MaxTurns = 2
  RecoversLost = FALSE
  SettleOnNoop = TRUE
  Controlled <- BothParties
  ObserverStops = FALSE
  ObserverPanics = TRUE
  Exchanges <- WorkOrQuiet
  Replies <- OneReply
  NOOP_SETTLE_LIMIT = 2
PROPERTY SendersAnswered
