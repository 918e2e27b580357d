SPECIFICATION Spec
CONSTANTS
  a = a
  b = b
  Nobody = Nobody
  Stories <- MCStories
  NewFile <- MCNewFile
  BaseScore <- MCBaseScore
  Explicit = {}
  Limit = 1
  TicksPerStory = 2
  ListLimit = 2
  MaxAttempts = 3
  RepairCap = 0
  ReviewEnabled = TRUE
  FallbackStories = {b}
  PlanDecisions = {"OPENCODE_RUNNING", "PLAN_APPROVAL_PENDING", "ESCALATED"}
  Faults = {"dispatch", "coverage", "gates", "apply", "push", "pr", "approval", "preview"}
  Moves = {"pause", "resume", "lapse"}
  InitialModes = {TRUE}
  MaxCrashes = 0
INVARIANT BranchOnlyOwn TrunkRewound DoneHasPr
CHECK_DEADLOCK FALSE
