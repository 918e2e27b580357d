SPECIFICATION LockSpec
CONSTANTS
  Pids = {p1, p2}
  NoPid = NoPid
  Pulls = {TRUE, FALSE}
  MaxCrashes = 2
SYMMETRY Interchangeable
INVARIANT LockTypeOK RunsUnderLock LeavesNoLock
CHECK_DEADLOCK FALSE
