SPECIFICATION ResearchSuiteSpec
CONSTANTS
    \* BarBacktest
    Sizes = {1,2}
    InitialCash = 30
    Slip = 1
    Commission = 1
    StopDistance = 2
    HoldBars = 2
    MaxOpen = 2
    MaxLossPercent = 10
    Leverage = 1
    Trailing = TRUE
    ExitOnFlip = TRUE
    BarsOf <- BacktestBars
    DayOf <- BacktestDays
    Shapes <- BacktestShapes
    \* EtfMinuteReplay
    Etfs = {"SPY","GLD"}
    EquityCluster = {"SPY"}
    ExcludedEtfs = {}
    EntrySessions = {1,2}
    MinutesPerSession = 3
    Sessions = 2
    ExecutionStart = 1
    Cutoff = 3
    ExecutionDelay = 0
    Horizon = 3
    HoldSessions = 1
    EtfShapes <- FundShapes
    EtfCapital = 200
    Impact = 2
    Fee = 0
    Overhead = 3
    StopGap = 6
    TargetGap = 8
    Gross = 800
    Name = 300
    ClusterCap = 250
    TradeRisk = 300
    BookRisk = 500
    DrawdownHalt = 100
    DailyHalt = 50
    Events <- FundEvents
    \* EtfDailyReplay
    FundOrder <- FundsInOrder
    Clustered = {"SPY"}
    Days = 4
    DayShapes <- FundDays
    Actions <- FundActions
    DailyCapital = 400
    Drag = 2
    DelaySessions = 0
    StopAtr = 6
    Cooldown = 2
    Weights = {0, 100, 200}
    NameLimit = 250
    BookLimit = 350
    ClusterLimit = 200
    NameRisk = 100
    PortfolioRisk = 150
    PeakHalt = 50
    DayHalt = 30
    \* IntradaySimulator
    Tickers = {"A"}
    SessionLength = 5
    SessionCount = 2
    FlatAt = 5
    BarShapes <- TickerBars
    Capital0 = 40
    ShareCost = 1
    Distance = 2
    Reward = 2
    TradeDelay = 1
    MaxHold = 2
    CooldownMinutes = 1
    EntriesPerDay = 3
    EntriesPerSymbol = 2
    PositionLimit = 2
    RiskLimit = 150
    StopRiskLimit = 200
    PositionShare = 600
    GrossShare = 900
    LossLimit = 200
    VolumeShare = 2
    \* ResearchPortfolio
    EquityFunds = {"S","Q"}
    MarkPrices = {5,8}
    SlotsPerDay = 2
    OpenSlot = 1
    LastTime = 3
    ResearchCash = 40
    ShareFee = 1
    FixedFee = 1
    TargetShare = 500
    GrossCap = 800
    EntryLossLimit = 100
    DividendAmounts = {1}
    SplitRatios <- Splits
    MaxOperations = 5
    \* ResearchStore
    Runners = {"p","q"}
    OperationIds = {"a","b"}
    OperationInputs = {"x","y"}
    SourceVersions = {1,2}
    MaxBatches = 2
    \* ResearchSignals
    Tracks = {"equities","crypto"}
    Closes = {1,2}
    LastDay = 3
    Lookback = 2
    ExitLookback = 1
    WeekLength = 2
    QuoteAge = 1
    QuoteDays = {3}
    MaxBars = 2
    MaxQuotes = 2
    \* OptionsPortfolio
    Underlyings = {"I","Q"}
    Premiums = {3,6}
    OfferPrices = {3}
    OptionFee = 1
    OptionCash = 14
    EntryShare = 500
    OutstandingShare = 1000
    OptionLossLimit = 300
    MaxContracts = 2
    LastOptionDay = 1
    MaxOptionSteps = 5
    \* BenchmarkBook
    Assets = {"B","E"}
    AssetPrices = {3,4}
    PriceImpact = 1
    FixedCost = 1
    PaidInBase = {"B"}
    BaseRate = 200
    QuoteFee = 1
    DividendsPerUnit = {1}
    MaxActions = 2
    QuantityStep = 10
    BenchmarkCash = 200
    ExposureCap = 900
    Exposures = {0,400,1200}
    LastBoundary = 2
    MaxTargets = 2
    \* SignalGates
    GateOrder <- Gated
    ClassOf <- GatedClasses
    GateConfigs <- Gatings
    QualityBooks <- GateBooks
    GateRows <- GateInputs
    \* StateModels
    TrainingFrames <- TrainingChoices
    StateBarShapes <- LaterBars
    StateConfigs <- StateChoices
    LastBar = 7
    MaWindows <- Windows
    RollWindow = 2
    Horizons <- ReturnHorizons
    \* TradeAnalytics
    TradeShapes <- ClosedTrades
    MaxTrades = 3
    MinGroup = 1
    TopTrades = 2
    ExcursionEdges <- Excursions
    \* WalkForward
    WfFrames <- Datasets
    WfConfigs <- Walks
    HistoryLeast = 3
    SessionCounts <- SessionLengths
    SessionPlans <- Plans
INVARIANTS
    ResearchTypesOK
    ReplaysAreHonest
    BooksReconcile
    ResultsAreRepeatable
    StudiesAreHonest
PROPERTY StatesAreFinal
CHECK_DEADLOCK FALSE
