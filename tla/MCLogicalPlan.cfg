CONSTANTS
  Schemas <- MCSchemas
  Requests <- MCRequests
  Payloads = {"MoviesPayload"}
  ArgOrder <- MCArgOrder
SPECIFICATION LogicalSpec
INVARIANTS
  PlanMatchesQuery
  OperationAsRequested
  NodesDistinct
  ParentsAgree
  CapabilitiesOrderless
