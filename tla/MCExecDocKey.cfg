CONSTANTS
  p = p
  q = q
  z = z
  z2 = z2
  v1 = v1
  v2 = v2
  o1 = o1
  o2 = o2
  Nil = Nil
  Nodes <- DocNodes
  Parents <- DocParents
  Values <- MCValues
  Slices <- MCSlices
  ErrorValues = {Nil}
  Field <- DocField
  Strategy <- ListStrategy
  Attr <- MCAttr
  Calls <- DocCalls
  NodeOf <- NodeOfCalls
  Registered <- DocNodes
  Answers <- DocAnswers
  Failing = {}
  Ctxs <- MCCtxs
  MaxInFlight = 1
  Batches = {}
  ChildOf <- ChildOfBatches
  ItemLists = {}
  GroupOf <- GroupOfBatches
  RequestCtxs <- MCRequest
  Miscounting = {}
  RootFields <- DocRoot
  Plans <- DocPlans
  CanBatch = {}
SPECIFICATION ExecSpec
INVARIANTS
  ResponseCorrect
