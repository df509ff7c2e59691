CONSTANTS
  u1 = u1
  u2 = u2
  Users <- MCUsers
  Base = Base
  Quote = Quote
  OrderTemplates <- MCTemplates
  Amounts <- MCAmounts
  DepositAssets <- MCDepositAssets
  DepositAmounts <- MCDepositAmounts
  DepositCap <- MCDepositCap
  CacheSize <- MCCacheSize
  InitialFunds <- MCInitialFunds
  DecMax <- MCDecMax
  BatchIdVal = 1
  MaxOrdersPerBatch <- MCMaxOrders
SPECIFICATION SpecWithUnfreeze
INVARIANT
  SupplyConserved
