CONSTANTS
  u1 = u1
  u2 = u2
  Users = {u1, u2}
  RiskUsers = {u1, u2}
  Base = Base
  Quote = Quote
  Assets = {Base, Quote}
  Templates <- MCTemplates
  Prices = {1}
  PriceCap = 2
  DecMax = 5
  MaxSubmits = 3
  MaxOrders = 3
  MaxSupply = 9
  InitialFunds = 2
  MaxOrdersPerUser = 2
  MaxOrderSize = 2
  MaxPriceDeviation = 1
SPECIFICATION Spec
INVARIANTS
  TypeOK
  EscrowBacksSpendRights
  BundleNoSelfTrade
  BundleWithinLimits
  BundleConservesQuantity
