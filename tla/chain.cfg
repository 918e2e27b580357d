SPECIFICATION ChainSpec
CONSTANTS
  a = a
  b = b
  Boxes = {a, b}
  NewFile <- MCNewFile
  Rewritten = {a}
  CommitIds = {c}
  MaxCommits = 2
INVARIANTS ChainTypeOK OnlyShownApplied CommitsApproved OriginApproved
CHECK_DEADLOCK FALSE
