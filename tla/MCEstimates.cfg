CONSTANTS
  Cases <- MCCases
  SampleConfidence <- MCSampleConfidence
  MaxCalls = 34
  MaxAge = 3
SPECIFICATION EstimateSpec
INVARIANTS
  RowsInRange
  AnnotationsAsAssumed
  ConfidenceEarned
PROPERTIES
  StalenessFades
  AgreementConverges
