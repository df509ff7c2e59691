CONSTANTS
  u1 = u1
  u2 = u2
  DecMax <- MCDecMax
  BatchIdVal = 1
  MaxOrdersPerBatch <- MCMaxOrders
  OrderTemplates <- MCTemplates
SPECIFICATION Spec
\* match_batch consumes the buffer: after RunMatch the epoch's pipeline ends.
CHECK_DEADLOCK FALSE
INVARIANT
  TradesAtLimitPrices
