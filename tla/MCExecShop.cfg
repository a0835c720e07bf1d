CONSTANTS
  p = p
  q = q
  z = z
  z2 = z2
  v1 = v1
  v2 = v2
  o1 = o1
  o2 = o2
  Nil = Nil
  Nodes <- ShopNodes
  Parents <- ShopParents
  Values <- MCValues
  Slices <- MCSlices
  ErrorValues = {Nil}
  Field <- ShopField
  Strategy <- ShopStrategy
  Attr <- MCAttr
  Calls <- ShopCalls
  NodeOf <- NodeOfCalls
  Registered <- ShopNodes
  Answers <- ShopAnswers
  Failing = {"offers"}
  Ctxs <- MCCtxs
  MaxInFlight = 2
  Batches <- ShopBatches
  ChildOf <- ChildOfBatches
  ItemLists = {}
  GroupOf <- GroupOfBatches
  RequestCtxs <- MCRequest
  Miscounting = {}
  RootFields <- ShopRoot
  Plans <- ShopPlans
  CanBatch = {"offers"}
SPECIFICATION ExecSpec
INVARIANTS
  ResponseCorrect
  FailureReachesResponse
  NothingOutlivesResponse
