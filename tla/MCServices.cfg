SPECIFICATION ServicesSpec
CONSTANTS
    \* BrokerClient
    Classes = {"emergency", "entry"}
    MaxQueue = 4
    NormalCap = 1
    UrgentCap = 2
    Window = 3
    Spacing = 1
    Delays = {0, 1}
    MaxNow = 4
    MaxCalls = 4
    \* QuoteRecovery
    Watched = {"A", "B"}
    Budget = 2
    MaxClock = 4
    \* AccountRisk
    Equities = {0, 970, 1000}
    PriorCloses = {0, 974}
    Cashflows = {0, 5}
    LastSession = 2
    Held <- HeldExposures
    Proposals <- ProposedExposures
    \* EntrySizing
    Names = {"A", "B"}
    StartEquity = 100
    StartCash = 90
    TargetNotional = 40
    MaxPosition = 45
    MaxGross = 80
    PositionPerMille = 450
    GrossPerMille = 700
    RiskPerMille = 120
    MaxSessionLoss = 30
    CostBuffer = 1
    Prices <- EntryPrices
    \* SymbolRun
    RunSymbols = {"A"}
    EntryCutoff = 2
    ExitPause = 1
    LastMinute = 2
    MaxCycles = 2
    \* QuoteStream
    Feeds = {"sip", "opra"}
    Selections <- OptionSelections
    FixedSelection <- OnlyA
    StreamRows <- ProviderRows
    MaxBars = 1
    BackoffCap = 4
    MaxMinute = 2
    MaxConnections = 2
    MaxStarts = 2
    \* QuoteValidation
    QuoteNames = {"A", "B"}
    FeedNames = {"sip", "iex"}
    ExpectedFeed = "sip"
    Payloads <- QuotePayloads
    ReceiptTimes <- Receipts
    DecisionTimes <- Decisions
    SourceAge = 12
    CacheAge = 8
    FutureSkew = 1
    SpreadBps = 25
    MinAsk = 2
    SizesRequired = TRUE
    \* OperationalTrial
    AgeLimits <- TrialLimits
    PollGap = 1
    MaxTime = 3
    \* TrialBackup
    MaxVersion = 3
    \* RecoveryBundle
    MaxWrites = 3
    Selected <- BundlePaths
    Contents = {"a", "b"}
    \* DecisionLedger
    DecisionIds = {"d1", "d2"}
    LinkIds = {"l"}
    Evidence <- LedgerEvidence
    Results = {"x", "y"}
    Moments = {1, 2}
    \* AccountingLedger
    SourceRows <- BrokerRows
    Contexts <- TrialContexts
    Readers = {"p", "q"}
    \* FifoAttribution
    OpeningLots <- OpeningChoices
    Fills <- FillChoices
    Activities <- ActivityChoices
    OpeningMark = 11
    TerminalMark = 8
    OpeningCash = 100
    MaxEvents = 4
    \* MarketScanner
    Stocks <- ScannedStocks
    Coins <- ScannedCoins
    Proxies <- ScannedProxies
    Listings <- ListingChoices
    Snapshots <- SnapshotChoices
    FreshAge = 1
    ClosedAge = 2
    Retention = 0
    DayLength = 1
    IsolationBudget = 4
    MaxRecords = 4
    MaxScans = 3
    MaxFaults = 1
    MaxHour = 2
INVARIANTS
    ServicesTypeOK
    RequestsAreBounded
    RiskIsContained
    RunsAreHonest
    QuotesAreSound
    RecordsAreSound
PROPERTY ServicesStepSoundly
CHECK_DEADLOCK FALSE
