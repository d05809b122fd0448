SPECIFICATION PlatformSpec
CONSTANTS
  s1 = s1
  s2 = s2
  A = A
  B = B
  Symbols = {s1}
  OtherSymbols = {s1}
  MaxOpen = 1
  Bars = 1
  MaxLives = 2
  Passes = {1, 2}
  MaxPrice = 2
  Activation = 2
  Distance = 1
  Breakeven = 1
  MaxStops = 3
  Signals = {A, B}
  Plan <- MCPlan
  ReplayCandles <- MCCandles
  FundingRates <- MCRates
  Leverage = 5
  Scale = 10
  Fee = 1
  Maintenance = 5
  BreakevenOffset = 1
  MaxFundings = 1
  MaxConnections = 2
  MaxNew = 2
  MaxQueued = 1
  MaxLate = 1
  Rounds = 2
  OtherModel = TRUE
  Tools = 2
  MinApproval = 50
  Personas <- MCPersonas
  Ceiling <- MCCeiling
  Facts <- MCFacts
  Proposals <- MCProposals
  QueryLimit = 2
  Window = 2
  MaxEvents = 3
  GoalPct <- MCPct
  Enabled = {"daily"}
  TargetAction = "STOP_TRADING"
  StartEquity = 100
  MinTrades = 2
  MaxDrawdown = 3
  MinWinRate = 30
  Pnls <- MCPnls
  MaxFills = 2
  MaxRolls = 1
  MaxDamaged = 1
  Shapes <- MCShapes
  LeftBars = 1
  RightBars = 1
  Displacement = 2
  Lookback = 5
  Contexts <- MCContexts
  MinConfluence = 65
  StopBuffer = 1
  Assets = {s1, s2}
  Correlations <- MCCorrelations
  Readings <- MCReadings
  Charts <- MCCharts
  Records <- MCRecords
  WinRates = {90}
  StopDistances = {100}
  EquityLevels = {10000}
  CapPct = 25
  MaxPositions = 3
  OtherSize = 4600
  OtherRisks = {0, 500}
  FillPrices = {10200}
  MaxHeld = 2
  Prints = {1}
  BarLength = 1
  MaxCandles = 2
  MinClosed = 1
  MaxAge = 1
  DegradedAge = 0
  MaxDivergence = 50
  MaxAttempts = 1
  MaxTime = 2
  MaxTrades = 1
  MaxTroubles = 1
  Markets <- MCMarkets
  Scenes <- MCScenes
  Findings <- MCFindings
  MinScore = 65
  RangeWeight = 70
  CounterWeight = 30
  Tapes <- MCTapes
  Order <- MCOrder
  Short = 2
  Long = 4
  LookBack = 2
  FundingEvery = 3
  TradePnls <- MCTradePnls
  MaxDeals = 1
INVARIANTS
  EveryTypeOK
  DeriskOnce
  ReplayBooksAgree
  LogIsTheHistory
  
  
  FeedIsHonest
  EntriesKeepToTheTrend
  ShortsMirrorLongs
  BacktestSeesNoFuture
PROPERTIES
  ExitsAlwaysRun
  BreakerReleases
  ProtectionOnlyTightens
  LinkRecovers
  BreakerShown
  ModelsOnlyAdvise
  ThrottlesOutliveProcess
  ShutdownEnds
  EntriesFitTheBook
