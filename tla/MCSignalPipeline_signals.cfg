SPECIFICATION FairSpec
CONSTANTS
  smc = smc
  agent = agent
  classic = classic
  c1 = c1
  c2 = c2
  c3 = c3
  p1 = p1
  p2 = p2
  d1 = d1
  NoPlan = NoPlan
  NoOne = NoOne
  NoKey = NoKey
  Callers = {c1, c2, c3}
  Candle = {smc}
  Agent = {agent}
  Debating = {smc}
  StrategyOf <- DuelStrategyOf
  Offers <- DuelOffers
  Plans = {p1}
  Dedups = {d1}
  Prices = {0, 10}
  Equities = {4, 40}
  OutsideMoves = {0}
  MaxPosition = 4
  MaxRepeats = 1
  MaxFailures = 1
  TimersOutlast = TRUE
  MaxSubmissions = 2
  Leverage = 1
  Unit = 100
  RiskPerTrade = 20
  FallbackRisk = 60
  MaxNotional = 30
  StepSize = 2
  MinQty = 2
  MaxQty = 9
  MinNotional = 10
INVARIANTS
  TypeOK
  EntriesDoNotRace
  RowsTellTrades
  PlansTradeOnce
  SizesAreSafe
PROPERTY
  RowsSettle
CHECK_DEADLOCK FALSE
