CONSTANTS
  o1 = o1
  o2 = o2
  o3 = o3
  DecMax = 3
  BookOrders <- MCBookOrders
  MaxInserts = 5
SPECIFICATION Spec
INVARIANTS
  TypeOK
  IndexMatchesLevels
  TimePriority
  QueriesMatchBook
PROPERTY
  RefinesAbstractBook
