SPECIFICATION Spec
CONSTANTS
    Accounts = {"a", "b"}
    Instruments = {"X"}
    AccountIds = {"a", "b"}
    InstrumentIds = {"X"}
    ClientOrderIds = {"c1", "c2"}
    Requests <- TradingRequests
    Late = {FALSE}
    MarketViews <- LiveView
    InitialLimits <- WideLimits
    Controls = {}
    LotSize = 1
    TickSize = 1
    MinPrice = 1
    MaxPrice = 20
    ProtectionTicks = 1
    MaxLiveOrders = 3
    DedupWindow = 1
    MaxI64 = 100
    MaxEngineSeq = 5
    MaxOutputSeq = 10
    MaxOrderId = 4
    MaxTradeId = 2
    MaxPriority = 3
    NoOrder = NoOrder
    NoTaker = NoTaker
    NoPrice = NoPrice
    NoEntry = NoEntry
INVARIANTS
    TypeOK
    IndexesAgree
    BookNotCrossed
    ReservationsMatchOrders
    NoAccountingFault
    PositionsNetToZero
PROPERTIES
    
    OutputsNumberedDensely
