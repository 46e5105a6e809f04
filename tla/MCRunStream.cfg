SPECIFICATION FairSpec
CONSTANTS
  Runs = {r1, r2}
  Watchers = {w1}
  NoRun = NoRun
  Formats = {"text", "stream"}
  MaxObservations = 1
  READ_BATCH = 2
  Summaries = {0, 2}
  BreaksAt = {"observation", "end"}
  BusFails = TRUE
INVARIANTS TypeOK CurrentLogStands StreamHasNoGaps WatchersSeeOneRun LeavesOnlyReplaced
  SuccessIsTold
PROPERTY WatchersLeave
