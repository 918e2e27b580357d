SPECIFICATION Spec
CONSTANTS
  a = a
  b = b
  Nobody = Nobody
  Stories <- MCStories
  NewFile <- MCNewFile
  BaseScore <- MCBaseScore
  Explicit = {}
  Limit = 1
  TicksPerStory = 1
  ListLimit = 2
  MaxAttempts = 2
  RepairCap = 0
  ReviewEnabled = FALSE
  FallbackStories = {}
  PlanDecisions = {"OPENCODE_RUNNING", "DIFF_APPROVAL_PENDING"}
  Faults = {"gates"}
  Moves = {"approve", "reject", "pause", "resume", "mode"}
  InitialModes = {FALSE}
  MaxCrashes = 0
INVARIANT MutualExclusion
PROPERTY ApplyReviewed
CHECK_DEADLOCK FALSE
