SPECIFICATION FairSpec
CONSTANTS
  btc = btc
  eth = eth
  Symbols <- CrossSymbols
  Commands <- CrossCommands
  Ticks <- CrossTicks
  Transfers <- CrossTransfers
  ResetBalances <- CrossResets
  StartingUsdt = 4000
  MoneyScale = 100
  TakerFee = 4
  MakerFee = 2
  Slip = 1
  SlipDenom = 10
  MaintRate = 10
  MinQty = 1
  MinNotional = 10
  MaxOrderNotional = 90
  MaxPositionNotional = 90
  MaxOpenOrders = 3
  MaxDailyLoss = 2000
  MaxLeverage = 5
  Midnight = TRUE
  MaxOrders = 3
  MaxFundings = 1
  MaxLiquidations = 1
INVARIANT
  LedgerIdentity
PROPERTIES
  TickEndsSolvent
  InsolvencyEnds
  ImplementsLedger
