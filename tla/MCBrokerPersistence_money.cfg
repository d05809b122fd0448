SPECIFICATION Spec
CONSTANTS
  Commands <- AllCommands
  Prices <- Spread
  MoneyScale = 100
  FeeRate = 4
  FundingRates <- Payments
  StartingUsdt = 1000
  TransferAmounts = {300}
  ResetBalances = {}
  MaxOrders = 3
  MaxFundings = 0
  MaxSpot = 300
  MaxRestarts = 1
INVARIANT
  TransfersConserveMoney
