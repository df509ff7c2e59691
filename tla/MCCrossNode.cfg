CONSTANTS
  n1 = n1
  n2 = n2
  u1 = u1
  u2 = u2
  Nodes <- MCNodes
  OrderSet <- MCOrderSet
  EpochIdVal = 1
  MaxOrders = 2
  DecMax = 100
SPECIFICATION Spec
INVARIANT
  DigestsAgreeTradesAgree
