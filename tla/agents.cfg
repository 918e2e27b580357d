SPECIFICATION Spec
CONSTANTS
  story = story
  smoke = smoke
  daemon = daemon
  old = old
  new = new
  None = None
  Ralph = Ralph
  Tasks = {story, smoke}
  Actors = {daemon}
  Owner <- MCOwner
  Mediated = {story}
  Simple = {story}
  Paths = {old, new}
  Wants <- MCWants
  Patches <- MCPatches
  Existing = {old}
  Attempts <- MCAttempts
  MaxCrashes = 1
INVARIANTS TypeOK PreviewBacked StrayRecords
CHECK_DEADLOCK FALSE
