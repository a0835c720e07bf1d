CONSTANTS
  c1 = c1
  c2 = c2
  c3 = c3
  c4 = c4
  c5 = c5
  p = p
  v = v
  g = g
  Nil = Nil
  Nodes <- MCNodes
  Parents <- MCParents
  Values <- MCValues
  Slices = {}
  ErrorValues = {Nil}
  Field <- MCField
  Strategy <- MCStrategy
  Attr <- MCAttr
  Calls <- MCCalls
  NodeOf <- MCNodeOf
  Registered = {"shop", "alias", "plain"}
  Answers <- MCAnswers
  Failing = {"shop", "plain"}
  Ctxs = {g}
  MaxInFlight = 1
SPECIFICATION NodeSpec
CONSTRAINT PlainFirstGoneLast
INVARIANTS
  NodeTypeOK
  SingleOwner
PROPERTIES
  ImplementsSingleFlight
  CallReturns
