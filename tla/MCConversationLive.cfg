SPECIFICATION FairSpec
CONSTANTS
  Notes = {n1, n2}
  Drafts <- BothAndPatient
  UserSides = {TRUE, FALSE}
  MaxTurns = 2
  RecoversLost = TRUE
  SettleOnNoop = TRUE
  Controlled <- BothParties
  ObserverStops = TRUE
  ObserverPanics = FALSE
  Exchanges <- WorkOrQuiet
  Replies <- OneReply
  NOOP_SETTLE_LIMIT = 2
PROPERTIES SendersAnswered ConversationEnds
