SPECIFICATION FairSpec
CONSTANTS
  a = a
  b = b
  Nobody = Nobody
  Stories <- MCStories
  NewFile <- MCNewFile
  BaseScore <- MCBaseScore
  Explicit = {}
  Limit = 1
  TicksPerStory = 1
  ListLimit = 2
  MaxAttempts = 2
  RepairCap = 1
  ReviewEnabled = TRUE
  FallbackStories = {}
  PlanDecisions = {"OPENCODE_RUNNING"}
  Faults = {}
  Moves = {}
  InitialModes = {TRUE}
  MaxCrashes = 0
PROPERTY ReviewRepairLands
CHECK_DEADLOCK FALSE
