CONSTANTS
  r1 = r1
  r2 = r2
  Requests <- MCRequests
  Preorder <- MCPreorder
  ParentOf <- MCParentOf
  FieldOf <- MCFieldOf
  Fields <- MCFields
  IsList <- MCLists
  Baseline <- MCBound
  UpperBound <- MCBound
  RowCounts <- MCRowCounts
  MinCalls = 2
  Executions <- MCExecutions
SPECIFICATION ServiceSpec
INVARIANTS
  ServiceTypeOK
  IndexMatchesStore
  OneSnapshotPerKey
  RecordedIsFound
  ExecutionsCounted
