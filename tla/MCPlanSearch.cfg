CONSTANTS
  Postorder <- MCPostorder
  Children <- MCChildren
  ParentOf <- MCParentOf
  IsList <- MCLists
  MaxBatchSize <- MCBatchSizes
  Annotations <- MCAnnotations
  RootWorkers = 16
  SearchConfig <- MCSearchConfig
SPECIFICATION SearchSpec
INVARIANTS
  SearchTypeOK
  EveryNodePlanned
  NeverWorseThanSerial
  BudgetKept
