SPECIFICATION Spec
CONSTANTS
  Stories = {s1, s2}
  Simple = {s1}
  Daemon = daemon
  Guests = {}
  NoStory = NoStory
  Attempts = 2
  Cap = 0
  Dear = 1
  CallsPerCycle = 2
  ReviewCalls = 2
  MaxCrashes = 1
  MaxLost = 1
  Days = 2
INVARIANTS PreviewOwn NoStrayWorktree SpendBounded LedgerComplete AttemptsPaid
CHECK_DEADLOCK FALSE
