SPECIFICATION FairSpec
CONSTANTS
  a = a
  b = b
  Nobody = Nobody
  Stories <- MCStories
  NewFile <- MCNewFile
  BaseScore <- MCBaseScore
  Explicit = {}
  Limit = 1
  TicksPerStory = 1
  ListLimit = 2
  MaxAttempts = 2
  RepairCap = 1
  ReviewEnabled = TRUE
  FallbackStories = {a}
  PlanDecisions = {"OPENCODE_RUNNING"}
  Faults = {"dispatch", "coverage", "gates", "commit", "apply", "push", "pr", "approval", "promote", "rollback", "reset"}
  Moves = {}
  InitialModes = {TRUE}
  MaxCrashes = 1
INVARIANT TypeOK TreeAccounted TrunkAccounted AttemptsBounded
PROPERTY EventuallySettled
CHECK_DEADLOCK FALSE
