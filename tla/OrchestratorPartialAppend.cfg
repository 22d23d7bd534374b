\* One request at a time, one fault: the append and its record are not atomic.
SPECIFICATION Spec
CONSTANTS
  Item = {i1}
  Worker = {w1}
  Meta = {m1, m2}
  Similar <- SameMetadata
  Earlier = {}
  NoMeta = NoMeta
  Bad = Bad
  Edit = {"correct_metadata", "correct_category", "reject", "escalate"}
  RetryAttempts = 3
  MaxFaults = 1
INVARIANT NeverPostedTwice
CHECK_DEADLOCK FALSE
