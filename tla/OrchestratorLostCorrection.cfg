\* One request at a time, no fault: a retry after a failed extraction.
SPECIFICATION Spec
CONSTANTS
  Item = {i1}
  Worker = {w1}
  Meta = {m1, m2}
  Similar <- SameMetadata
  Earlier = {}
  NoMeta = NoMeta
  Bad = Bad
  Edit = {"correct_metadata", "correct_category", "reject", "escalate"}
  RetryAttempts = 3
  MaxFaults = 0
PROPERTY FiledRowReflectsCorrection
CHECK_DEADLOCK FALSE
