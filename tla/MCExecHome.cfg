CONSTANTS
  p = p
  q = q
  z = z
  z2 = z2
  v1 = v1
  v2 = v2
  o1 = o1
  o2 = o2
  Nil = Nil
  Nodes <- HomeNodes
  Parents <- HomeParents
  Values <- MCValues
  Slices <- MCSlices
  ErrorValues = {Nil}
  Field <- HomeField
  Strategy <- HomeStrategy
  Attr <- MCAttr
  Calls <- HomeCalls
  NodeOf <- NodeOfCalls
  Registered <- HomeNodes
  Answers <- HomeAnswers
  Failing = {}
  Ctxs <- MCCtxs
  MaxInFlight = 4
  Batches <- HomeBatches
  ChildOf <- ChildOfBatches
  ItemLists = {}
  GroupOf <- GroupOfBatches
  RequestCtxs = {}
  Miscounting = {"prices"}
  RootFields <- HomeRoot
  Plans <- HomePlans
  CanBatch = {"offers", "prices"}
SPECIFICATION ExecSpec
INVARIANTS
  ResponseCorrect
  InflightWithinPlan
