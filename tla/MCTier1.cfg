CONSTANTS
  u1 = u1
  u2 = u2
  Users = {u1, u2}
  Base = Base
  Quote = Quote
  Trades <- MCTrades
  Amounts <- MCAmounts
  CacheSize <- MCLargeCache
  MaxDeposit <- MCMaxDeposit
SPECIFICATION Spec
INVARIANTS
  TypeOK
  BalancesNonNegative
  SupplyConserved
  NoDoubleSettlement
  VerifyReportsOnlyRealViolations
