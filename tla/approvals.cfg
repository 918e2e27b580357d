SPECIFICATION Spec
CONSTANTS
  Records = {r1, r2}
  NoRecord = NoRecord
  Deciders = {human}
  Sweepers = {sweeper}
  Requesters = {requester}
  Consumers = {daemon}
  MaxStops = 2
  MaxRequests = 3
  MaxLate = 1
SYMMETRY Interchangeable
INVARIANT TypeOK OneResumePerRequest
PROPERTY RefusalStands
CHECK_DEADLOCK FALSE
