SPECIFICATION Spec
CONSTANTS
    Accounts = {"a", "b"}
    Instruments = {"X", "Y"}
    AccountIds = {"a", "b", "z"}
    InstrumentIds = {"W", "X", "Y"}
    ClientOrderIds = {"c1", "c2"}
    Requests <- ControlRequests
    Late = {FALSE, TRUE}
    MarketViews <- ControlViews
    InitialLimits <- WideLimits
    Controls <- ControlCommands
    LotSize = 1
    TickSize = 1
    MinPrice = 1
    MaxPrice = 20
    ProtectionTicks = 1
    MaxLiveOrders = 2
    DedupWindow = 2
    MaxI64 = 100
    MaxEngineSeq = 5
    MaxOutputSeq = 60
    MaxOrderId = 2
    MaxTradeId = 20
    MaxPriority = 20
    NoOrder = NoOrder
    NoTaker = NoTaker
    NoPrice = NoPrice
    NoEntry = NoEntry
PROPERTIES
    ExposureGrowsWithinLimit
    NoNewRiskUnlessPermitted
