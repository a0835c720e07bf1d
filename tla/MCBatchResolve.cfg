CONSTANTS
  b1 = b1
  b2 = b2
  p = p
  q = q
  v = v
  w = w
  g = g
  g1 = g1
  g2 = g2
  Nil = Nil
  Nodes <- MCNodes
  Parents <- MCParents
  Values <- MCValues
  Slices <- MCSlices
  ErrorValues = {Nil}
  Field <- MCField
  Strategy <- MCStrategy
  Attr <- MCAttr
  Calls = {}
  NodeOf <- MCNoCalls
  Registered <- MCNodes
  Answers <- MCAnswers
  Failing = {"offers"}
  Ctxs = {g, g1, g2}
  MaxInFlight = 1
  Batches = {b1, b2}
  ChildOf <- MCChildOf
  ItemLists <- MCItemLists
  GroupOf <- MCGroupOf
  RequestCtxs = {g}
  Miscounting = {}
SPECIFICATION BatchSpec
INVARIANTS
  BatchTypeOK
  OneOwnerPerKey
  ValuesAligned
PROPERTIES
  BatchReturns
