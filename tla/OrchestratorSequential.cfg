\* One item, one request at a time, two faults, and an item posted before that half
\* of the metadata look like; safety and liveness.
SPECIFICATION OperatorSpec
CONSTANTS
  Item = {i1}
  Worker = {w1}
  Meta = {m1, m2}
  Similar <- SameMetadata
  Earlier = {m2}
  NoMeta = NoMeta
  Bad = Bad
  Edit = {"correct_metadata", "correct_category", "reject", "escalate"}
  RetryAttempts = 3
  MaxFaults = 2
INVARIANT TypeOK
INVARIANT ExceptionsExplainStatus
INVARIANT HubShowsTheRow
PROPERTY RecordedStopsAppends
PROPERTY RejectedIsFinal
PROPERTY PostedIsFinal
PROPERTY RerunFilesCorrection
PROPERTY NoUnreviewedDuplicate
PROPERTY RequestsEnd
PROPERTY NoDeadEnd
PROPERTY FilingSpec
CHECK_DEADLOCK FALSE
