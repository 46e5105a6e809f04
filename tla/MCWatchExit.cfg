SPECIFICATION Spec
CONSTANTS
  Runs = {r1, r2}
  Watchers = {w1}
  NoRun = NoRun
  Formats = {"stream"}
  MaxObservations = 1
  READ_BATCH = 1
  Summaries = {0, 2}
  BreaksAt = {"observation"}
  BusFails = FALSE
SYMMETRY ProcessSymmetry
INVARIANT RunsPublishTheirExit
