\* One item, two overlapping requests, one fault.
SPECIFICATION Spec
CONSTANTS
  Item = {i1}
  Worker = {w1, w2}
  Meta = {m1}
  Similar <- SameMetadata
  Earlier = {}
  NoMeta = NoMeta
  Bad = Bad
  Edit = {"escalate"}
  RetryAttempts = 2
  MaxFaults = 1
SYMMETRY Symmetry
INVARIANT PostedIsRecorded
INVARIANT RowsBounded
INVARIANT DecisionMatchesStatus
CHECK_DEADLOCK FALSE
