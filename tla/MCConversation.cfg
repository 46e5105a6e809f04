SPECIFICATION Spec
CONSTANTS
  Notes = {n1, n2}
  Drafts <- TwoAndPatient
  UserSides = {TRUE, FALSE}
  MaxTurns = 3
  RecoversLost = TRUE
  SettleOnNoop = TRUE
  Controlled <- BothParties
  ObserverStops = TRUE
  ObserverPanics = TRUE
  Exchanges <- WorkOrQuiet
  Replies <- OneReply
  NOOP_SETTLE_LIMIT = 2
SYMMETRY NotesSymmetry
INVARIANTS TypeOK Custody NobodyLeftWaiting RecordAgreesWithAnswers HandedOnce
  DecidedWithEverything FramedOnlyTaken InterruptedOnlyAsAsked
PROPERTIES AnswersAreFinal NothingAcceptedAfterJudgedWith KeepsContract
