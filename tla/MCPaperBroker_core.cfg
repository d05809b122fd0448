SPECIFICATION Spec
CONSTANTS
  btc = btc
  eth = eth
  Symbols <- CoreSymbols
  Commands <- CoreCommands
  Ticks <- CoreTicks
  Transfers <- CoreTransfers
  ResetBalances <- CoreResets
  StartingUsdt = 4000
  MoneyScale = 100
  TakerFee = 4
  MakerFee = 2
  Slip = 1
  SlipDenom = 10
  MaintRate = 10
  MinQty = 1
  MinNotional = 10
  MaxOrderNotional = 90
  MaxPositionNotional = 90
  MaxOpenOrders = 3
  MaxDailyLoss = 2000
  MaxLeverage = 5
  MaxOrders = 4
  MaxFundings = 0
  Midnight = FALSE
  MaxLiquidations = 1
INVARIANTS
  TypeOK
  AuditChain
  BracketsFaceLivePosition
  ReduceOnlyAlwaysExits
PROPERTY
  FillConservesEquity
