CONSTANTS
  p = p
  q = q
  z = z
  z2 = z2
  v1 = v1
  v2 = v2
  o1 = o1
  o2 = o2
  Nil = Nil
  Nodes <- ListNodes
  Parents <- ListParents
  Values <- MCValues
  Slices <- MCSlices
  ErrorValues = {Nil, z}
  Field <- ListField
  Strategy <- ListStrategy
  Attr <- MCAttr
  Calls <- ListCalls
  NodeOf <- NodeOfCalls
  Registered <- ListRegistered
  Answers <- ListAnswers
  Failing = {"shop", "price"}
  Ctxs <- MCCtxs
  MaxInFlight = 2
  Batches = {}
  ChildOf <- ChildOfBatches
  ItemLists = {}
  GroupOf <- GroupOfBatches
  RequestCtxs <- MCRequest
  Miscounting = {}
  RootFields <- ListRoot
  Plans <- ListPlans
  CanBatch = {}
SPECIFICATION ExecSpec
INVARIANTS
  ExecTypeOK
  NothingOutlivesResponse
  ErrorHasCause
  GateAccounting
  CallAccounting
PROPERTIES
  Responds
