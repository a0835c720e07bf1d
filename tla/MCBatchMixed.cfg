CONSTANTS
  b1 = b1
  b2 = b2
  c = c
  p = p
  q = q
  v = v
  w = w
  g1 = g1
  g2 = g2
  Nil = Nil
  Nodes <- MCNodes
  Parents <- MCParents
  Values <- MCValues
  Slices <- MCSlices
  ErrorValues <- MCErrorValues
  Field <- MCField
  Strategy <- MCStrategy
  Attr <- MCAttr
  Calls = {c}
  NodeOf <- MCNodeOf
  Registered <- MCNodes
  Answers <- MCAnswers
  Failing = {"offers"}
  Ctxs = {g1, g2}
  MaxInFlight = 2
  Batches = {b1, b2}
  ChildOf <- MCChildOf
  ItemLists <- MCItemLists
  GroupOf <- MCGroupOf
  RequestCtxs = {}
  Miscounting = {"prices"}
SPECIFICATION BatchSpec
INVARIANTS
  ChunkFailureReported
  ItemAccounting
