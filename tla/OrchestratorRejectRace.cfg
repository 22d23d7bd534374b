\* Two overlapping requests, no fault: a reject while a pass is running.
SPECIFICATION Spec
CONSTANTS
  Item = {i1}
  Worker = {w1, w2}
  Meta = {m1, m2}
  Similar <- SameMetadata
  Earlier = {}
  NoMeta = NoMeta
  Bad = Bad
  Edit = {"correct_metadata", "correct_category", "reject", "escalate"}
  RetryAttempts = 3
  MaxFaults = 0
PROPERTY RejectedIsFinal
CHECK_DEADLOCK FALSE
