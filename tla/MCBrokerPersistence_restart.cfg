SPECIFICATION Spec
CONSTANTS
  Commands <- SomeCommands
  Prices <- Spread
  MoneyScale = 100
  FeeRate = 4
  FundingRates <- Payments
  StartingUsdt = 1000
  TransferAmounts = {300}
  ResetBalances = {700}
  MaxOrders = 3
  MaxFundings = 1
  MaxSpot = 300
  MaxRestarts = 2
INVARIANTS
  TypeOK
  RestartIsFaithful
  GapsOnlyFromTornWrites
  RestartKeepsProtection
