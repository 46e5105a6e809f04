SPECIFICATION Spec
CONSTANTS
  ConfigFiles <- MCFiles
  SkillBodies <- MCSkills
  Invocations <- MCInvocations
  DefaultTurns = 2
  MaxOdd = 1
  MaxLost = 1
INVARIANTS
  AcceptedPlansRun
  NoOverrideIsLost
  ZeroExitIsEarned
  SpendingIsReported
  UsableCriteriaBind
  PartiesAreToldApart
CHECK_DEADLOCK FALSE
