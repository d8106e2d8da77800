---------------------------- MODULE TradingCore ----------------------------
(***************************************************************************)
(* The single-writer engine of crates/trading-core: TradingCore::apply and *)
(* everything it calls (core.rs, risk.rs, account.rs, matching.rs).        *)
(*                                                                         *)
(* One input is one action, except that an aggressing order is matched one *)
(* fill per step: `taker` holds the order being executed and no other      *)
(* input is applied until it is NoTaker again.  The books of all           *)
(* instruments are one function `orders`; the slab, the price levels and   *)
(* the FIFO links are the subject of module OrderBook.                     *)
(***************************************************************************)
EXTENDS Integers, Sequences, FiniteSets, FiniteSetsExt

CONSTANTS
    Accounts, Instruments,    \* EngineConfig.accounts, EngineConfig.instruments
    AccountIds, InstrumentIds,   \* the ids a request may carry, known or not
    ClientOrderIds,
    Requests,                 \* the order requests the environment may send
    Late,                     \* is the market view older than max_market_age_ns?
    MarketViews,              \* values a feed message can give a MarketView
    InitialLimits,            \* AccountLimits of each account
    Controls,                 \* the control commands an operator may send
    LotSize, TickSize, MinPrice, MaxPrice,   \* InstrumentConfig
    ProtectionTicks,          \* market_protection_ticks
    MaxLiveOrders,            \* capacity of one book
    DedupWindow,
    MaxI64,                   \* i64::MAX
    MaxEngineSeq, MaxOutputSeq, MaxOrderId, MaxTradeId, MaxPriority,
                              \* the u64::MAX of each counter
    NoOrder, NoTaker, NoPrice, NoEntry

Sides == {"Buy", "Sell"}

Opposite(side) == IF side = "Buy" THEN "Sell" ELSE "Buy"

I64 == (-MaxI64 - 1) .. MaxI64

MaxU64 == 2 * MaxI64 + 1

OrderIds == 1 .. MaxOrderId

\* An order id of 0 in a report, or in client_orders, means "no order".
NoId == 0

OrderRequest ==
    [kind : {"New", "Cancel", "Replace"}, account : AccountIds, instrument : InstrumentIds,
     request_id : Nat, client_seq : Nat, client_order_id : ClientOrderIds,
     target : ClientOrderIds, side : Sides, type : {"Limit", "Market"},
     price : Int, quantity : Nat]

OrderNode ==
    [account : Accounts, instrument : Instruments, client_order_id : ClientOrderIds,
     side : Sides, price : Int, total : Nat, cumulative : Nat, priority : 1 .. MaxPriority]

AccountLimits ==
    [max_order_quantity : Nat, max_order_notional : Nat, max_position_lots : Nat,
     max_gross_exposure : Nat, price_collar_ticks : Int]

ControlCommand ==
    [command : {"SetGlobalKill"}, engaged : BOOLEAN]
      \cup [command : {"SetAccountEnabled"}, account : AccountIds, enabled : BOOLEAN]
      \cup [command : {"SetAccountLimits"}, account : AccountIds, limits : AccountLimits]

MarketView == [state : {"Unsynchronized", "ApplyingSnapshot", "Live", "Gap"},
               reference : Int \cup {NoPrice}]

ReportKinds == {"Accepted", "Rejected", "PartiallyFilled", "Filled", "Cancelled", "Replaced"}

EngineFault == {"SequenceExhausted", "Accounting"}

VARIABLES
    orders,           \* OrderId -> resting order or NoOrder (the books)
    live_orders,      \* OrderId -> account and instrument or NoOrder
    client_orders,    \* (account, client order id) -> OrderId or NoId
    position,         \* (account, instrument) -> signed lots
    open_lots,        \* (account, instrument, side) -> reserved lots
    open_notional,    \* (account, instrument, side) -> reserved notional
    enabled, limits, last_client_seq, cache,      \* AccountState
    market,           \* instrument -> MarketView
    global_kill,
    engine_seq, output_seq, next_order_id, next_trade_id, next_priority,
    faults,           \* the faults raised; non-empty means fault.is_some()
    out,              \* output events of the current input
    taker             \* the order inside execute, or NoTaker

bookVars    == <<orders, live_orders, client_orders>>
ledgerVars  == <<position, open_lots, open_notional>>
adminVars   == <<enabled, limits, global_kill>>
requestVars == <<last_client_seq, cache>>
idVars      == <<next_order_id, next_trade_id, next_priority>>
outputVars  == <<output_seq, out, faults>>
vars == <<bookVars, ledgerVars, adminVars, requestVars, idVars, outputVars,
          market, engine_seq, taker>>

-----------------------------------------------------------------------------
(* Output events.  A report keeps the fields that properties tell apart.   *)

Report(r, kind, order, client, total, cumulative, remaining) ==
    [event |-> "report", seq |-> 0, account |-> r.account, request |-> r.request_id,
     client |-> client, order |-> order, kind |-> kind,
     total |-> total, cumulative |-> cumulative, remaining |-> remaining]

RejectReport(r) == Report(r, "Rejected", NoId, r.client_order_id, r.quantity, 0, 0)

Trade(id, maker, takerOrder, price, quantity) ==
    [event |-> "trade", seq |-> 0, trade |-> id, maker |-> maker, taker |-> takerOrder,
     price |-> price, quantity |-> quantity]

StateEvent(what) == [event |-> "state", seq |-> 0, what |-> what]

Reports == [event : {"report"}, seq : Nat, account : AccountIds, request : Nat,
            client : ClientOrderIds, order : 0 .. MaxOrderId, kind : ReportKinds,
            total : Nat, cumulative : Nat, remaining : Nat]

Trades == [event : {"trade"}, seq : Nat, trade : 1 .. MaxTradeId, maker : OrderIds,
           taker : OrderIds, price : Int, quantity : Nat]

StateEvents == [event : {"state"}, seq : Nat,
                what : {"Feed", "KillEngaged", "KillReleased", "AccountEnabled", "AccountLimits"}]

\* request_fingerprint covers every field but the request id.
Fingerprint(r) == [r EXCEPT !.request_id = 0]

Cache == INSTANCE RequestCache
         WITH RequestIds <- {r.request_id : r \in Requests},
              Fingerprints <- {Fingerprint(r) : r \in Requests},
              Outcomes <- Reports

Raised(condition, fault) == IF condition THEN {fault} ELSE {}

Least(a, b) == IF a <= b THEN a ELSE b

Magnitude(n) == IF n < 0 THEN -n ELSE n

\* Faulty variant: one number for all events of a step.
EmitOneNumber(prefix, events) ==
    /\ out' = prefix \o [k \in 1 .. Len(events) |->
                            [events[k] EXCEPT !.seq = Least(output_seq + 1, MaxOutputSeq)]]
    /\ output_seq' = Least(output_seq + 1, MaxOutputSeq)

\* take_output_seq for each of `events`: dense numbers, and a fault once they run out.
Emit(prefix, events) ==
    /\ out' = prefix \o [k \in 1 .. Len(events) |->
                            [events[k] EXCEPT !.seq = Least(output_seq + k, MaxOutputSeq)]]
    /\ output_seq' = Least(output_seq + Len(events), MaxOutputSeq)

OutputExhausted(n) == Raised(output_seq + n > MaxOutputSeq, "SequenceExhausted")

-----------------------------------------------------------------------------
(* The books, as the engine sees them.                                     *)

Remaining(node) == node.total - node.cumulative

Resting(i, side) ==
    {id \in OrderIds : /\ orders[id] # NoOrder
                       /\ orders[id].instrument = i
                       /\ orders[id].side = side}

InBook(i, id) == id \in OrderIds /\ orders[id] # NoOrder /\ orders[id].instrument = i

BookIsFull(i) ==
    Cardinality(Resting(i, "Buy") \cup Resting(i, "Sell")) >= MaxLiveOrders

\* Level `price` of one side still fits u64 after adding `lots` (OrderBook::insert).
LevelFits(i, side, price, lots) ==
    MapThenSumSet(LAMBDA id : Remaining(orders[id]),
                  {id \in Resting(i, side) : orders[id].price = price}) + lots <= MaxU64

\* Is a resting order of `side` at price p ahead of one at price q?
Better(side, p, q) == IF side = "Buy" THEN p > q ELSE p < q

Ahead(id, other) ==
    \/ Better(orders[id].side, orders[id].price, orders[other].price)
    \/ /\ orders[id].price = orders[other].price
       /\ orders[id].priority < orders[other].priority

\* Faulty variant: an order at exactly the taker's limit is not matched.
EligibleStrict(i, side, limit) ==
    {id \in Resting(i, Opposite(side)) : Better(Opposite(side), orders[id].price, limit)}

\* Makers a taker of `side` may trade with, its own side's limit included.
Eligible(i, side, limit) ==
    {id \in Resting(i, Opposite(side)) : ~Better(Opposite(side), limit, orders[id].price)}

\* The maker match_order takes next: best price, then the head of that level.
IsNextMaker(id, eligible) == \A other \in eligible \ {id} : Ahead(id, other)

-----------------------------------------------------------------------------
(* Pre-trade risk (risk.rs).  A request is accepted when every check holds; *)
(* which check failed only chooses the reject reason.                       *)

CheckQuantity(q) == q # 0 /\ q % LotSize = 0

CheckPrice(p) == p >= MinPrice /\ p <= MaxPrice /\ p % TickSize = 0

\* Faulty variant: only the kill switch is looked at.
CheckKillOnly(a) == ~global_kill

CheckTradingPermitted(a) == ~global_kill /\ enabled[a]

CheckClientSequence(a, seq) == seq # 0 /\ seq > last_client_seq[a]

HasReference(i, late) ==
    market[i].state = "Live" /\ ~late /\ market[i].reference # NoPrice

ProtectionPrice(reference, side) ==
    IF side = "Buy" THEN reference + ProtectionTicks ELSE reference - ProtectionTicks

ExecutionLimit(r) ==
    IF r.type = "Limit" THEN r.price ELSE ProtectionPrice(market[r.instrument].reference, r.side)

Notional(lots, price) == lots * Magnitude(price)

\* Collar, order quantity and order notional, shared by new and replace.
CheckOrderLimits(a, i, lots, price) ==
    /\ lots <= limits[a].max_order_quantity
    /\ price \in I64
    /\ Magnitude(price - market[i].reference) <=
         (IF limits[a].price_collar_ticks < 0 THEN 0 ELSE limits[a].price_collar_ticks)
    /\ Notional(lots, price) <= limits[a].max_order_notional

\* Position if every working order of `side` filled.
WorstCase(side, lots, open) == IF side = "Buy" THEN lots + open ELSE lots - open

\* Faulty variant: the limits of start-up are used after SetAccountLimits.
CheckWorstCaseOldLimits(a, i, side, added, replaced) ==
    LET open  == open_lots[<<a, i, side>>] - replaced + added
        worst == WorstCase(side, position[<<a, i>>], open)
    IN  /\ open_lots[<<a, i, side>>] >= replaced
        /\ open <= MaxI64
        /\ worst \in I64
        /\ Magnitude(worst) <= InitialLimits[a].max_position_lots

CheckWorstCasePosition(a, i, side, added, replaced) ==
    LET open  == open_lots[<<a, i, side>>] - replaced + added
        worst == WorstCase(side, position[<<a, i>>], open)
    IN  /\ open_lots[<<a, i, side>>] >= replaced
        /\ open <= MaxI64
        /\ worst \in I64
        /\ Magnitude(worst) <= limits[a].max_position_lots

\* Reserved notional of (a, j) once `replaced` leaves and `added` enters (i, side).
ProjectedNotional(a, j, i, side, added, replaced) ==
    open_notional[<<a, j, "Buy">>] + open_notional[<<a, j, "Sell">>]
      + (IF j = i THEN added - replaced ELSE 0)

\* Does (a, j) count towards gross exposure at all?
Exposed(a, j, i, side, added, replaced) ==
    position[<<a, j>>] # 0 \/ ProjectedNotional(a, j, i, side, added, replaced) # 0

Exposure(a, j, i, side, added, replaced) ==
    (IF position[<<a, j>>] = 0 THEN 0
     ELSE Magnitude(position[<<a, j>>]) * Magnitude(market[j].reference))
      + ProjectedNotional(a, j, i, side, added, replaced)

CheckGrossExposure(a, i, side, added, replaced) ==
    LET exposed == {j \in Instruments : Exposed(a, j, i, side, added, replaced)}
    IN  /\ open_notional[<<a, i, side>>] >= replaced
        /\ \A j \in exposed : position[<<a, j>>] # 0 => market[j].reference # NoPrice
        /\ MapThenSumSet(LAMBDA j : Exposure(a, j, i, side, added, replaced), exposed)
             <= limits[a].max_gross_exposure

CheckExposure(a, i, side, addedLots, addedPrice, replacedLots, replacedPrice) ==
    /\ CheckWorstCasePosition(a, i, side, addedLots, replacedLots)
    /\ CheckGrossExposure(a, i, side, Notional(addedLots, addedPrice),
                          Notional(replacedLots, replacedPrice))

CheckNewOrder(r, late) ==
    /\ r.account \in Accounts
    /\ r.instrument \in Instruments
    /\ CheckQuantity(r.quantity)
    /\ r.type = "Limit" => CheckPrice(r.price)
    /\ client_orders[<<r.account, r.client_order_id>>] = NoId
    /\ CheckTradingPermitted(r.account)
    /\ CheckClientSequence(r.account, r.client_seq)
    /\ HasReference(r.instrument, late)
    /\ CheckOrderLimits(r.account, r.instrument, r.quantity, ExecutionLimit(r))
    /\ CheckExposure(r.account, r.instrument, r.side, r.quantity, ExecutionLimit(r),
                     0, ExecutionLimit(r))
    /\ ~BookIsFull(r.instrument)

\* The order a cancel or a replace names.
Target(r) == client_orders[<<r.account, r.target>>]

CheckReplace(r, late) ==
    /\ r.account \in Accounts
    /\ r.instrument \in Instruments
    /\ InBook(r.instrument, Target(r))
    /\ LET existing == orders[Target(r)]
       IN  /\ r.side = existing.side
           /\ r.type = "Limit"
           /\ CheckPrice(r.price)
           /\ CheckQuantity(r.quantity)
           /\ r.quantity >= existing.cumulative
           /\ CheckTradingPermitted(r.account)
           /\ CheckClientSequence(r.account, r.client_seq)
           /\ HasReference(r.instrument, late)
           /\ CheckOrderLimits(r.account, r.instrument, r.quantity - existing.cumulative, r.price)
           /\ CheckExposure(r.account, r.instrument, r.side, r.quantity - existing.cumulative,
                            r.price, Remaining(existing), existing.price)

CheckCancel(r) ==
    /\ r.account \in Accounts
    /\ Target(r) # NoId
    /\ live_orders[Target(r)] # NoOrder

-----------------------------------------------------------------------------
(* Reservations and positions (account.rs).  A checked operation that      *)
(* fails leaves what it had already written and raises Accounting.         *)

Reserve(a, i, side, lots, price) ==
    /\ open_lots' = [open_lots EXCEPT ![<<a, i, side>>] =
                        IF @ + lots <= MaxU64 THEN @ + lots ELSE @]
    /\ open_notional' = [open_notional EXCEPT ![<<a, i, side>>] =
                            IF open_lots[<<a, i, side>>] + lots <= MaxU64
                            THEN @ + Notional(lots, price) ELSE @]

ReserveFault(a, i, side, lots) ==
    Raised(open_lots[<<a, i, side>>] + lots > MaxU64, "Accounting")

\* Faulty variant: the notional of released lots stays reserved.
ReleaseReservationLotsOnly(a, i, side, lots, price) ==
    /\ open_lots' = [open_lots EXCEPT ![<<a, i, side>>] = IF @ >= lots THEN @ - lots ELSE @]
    /\ UNCHANGED open_notional

ReleaseReservation(a, i, side, lots, price) ==
    /\ open_lots' = [open_lots EXCEPT ![<<a, i, side>>] = IF @ >= lots THEN @ - lots ELSE @]
    /\ open_notional' = [open_notional EXCEPT ![<<a, i, side>>] =
                            IF open_lots[<<a, i, side>>] >= lots /\ @ >= Notional(lots, price)
                            THEN @ - Notional(lots, price) ELSE @]

\* Faulty variant: releasing the last reserved lot counts as an underflow.
ReleaseFaultAtZero(a, i, side, lots, price) ==
    Raised(\/ open_lots[<<a, i, side>>] <= lots
           \/ open_notional[<<a, i, side>>] < Notional(lots, price), "Accounting")

ReleaseFault(a, i, side, lots, price) ==
    Raised(\/ open_lots[<<a, i, side>>] < lots
           \/ open_notional[<<a, i, side>>] < Notional(lots, price), "Accounting")

\* Faulty variant: a sell adds to the position.
SignedUnsigned(side, lots) == lots

Signed(side, lots) == IF side = "Buy" THEN lots ELSE -lots

ApplyFillToPosition(p, a, i, side, lots) ==
    [p EXCEPT ![<<a, i>>] = IF @ + Signed(side, lots) \in I64 THEN @ + Signed(side, lots) ELSE @]

FillFault(p, a, i, side, lots) == Raised(p[<<a, i>>] + Signed(side, lots) \notin I64, "Accounting")

\* The final report of a request is cached; an accepted one moves last_client_seq.
RecordOutcome(r, report) ==
    IF r.account \in Accounts
    THEN /\ cache' = [cache EXCEPT ![r.account] =
                         Cache!Record(@, r.request_id, Fingerprint(r), report)]
         /\ last_client_seq' =
                IF report.kind # "Rejected" /\ r.client_seq > 0
                THEN [last_client_seq EXCEPT ![r.account] = r.client_seq]
                ELSE last_client_seq
    ELSE UNCHANGED requestVars

\* The end of a request: number and push the final report, and record it.
Respond(r, report, prefix, raised) ==
    /\ Emit(prefix, <<report>>)
    /\ faults' = faults \cup OutputExhausted(1) \cup raised
    /\ RecordOutcome(r, report)

-----------------------------------------------------------------------------
(* Inputs.                                                                 *)

\* apply: clear the output, refuse once faulted, number the input.
BeginInput ==
    /\ taker = NoTaker
    /\ faults = {}
    /\ engine_seq < MaxEngineSeq
    /\ engine_seq' = engine_seq + 1

ApplyFaulted ==
    /\ taker = NoTaker
    /\ faults # {}
    /\ out' = <<>>
    /\ UNCHANGED <<bookVars, ledgerVars, adminVars, requestVars, idVars,
                   output_seq, faults, market, engine_seq, taker>>

ApplyEngineSeqExhausted ==
    /\ taker = NoTaker
    /\ faults = {}
    /\ engine_seq = MaxEngineSeq
    /\ faults' = {"SequenceExhausted"}
    /\ out' = <<>>
    /\ UNCHANGED <<bookVars, ledgerVars, adminVars, requestVars, idVars,
                   output_seq, market, engine_seq, taker>>

PushState(changed, what) ==
    LET events == IF changed THEN <<StateEvent(what)>> ELSE <<>>
    IN  Emit(<<>>, events) /\ faults' = faults \cup OutputExhausted(Len(events))

ApplyMarket(i, view) ==
    /\ BeginInput
    /\ market' = [market EXCEPT ![i] = view]
    /\ PushState(view.state # market[i].state, "Feed")
    /\ UNCHANGED <<bookVars, ledgerVars, adminVars, requestVars, idVars, taker>>

SetGlobalKill(engaged) ==
    /\ BeginInput
    /\ global_kill' = engaged
    /\ PushState(global_kill # engaged, IF engaged THEN "KillEngaged" ELSE "KillReleased")
    /\ UNCHANGED <<bookVars, ledgerVars, enabled, limits, requestVars, idVars, market, taker>>

SetAccountEnabled(a, on) ==
    /\ BeginInput
    /\ enabled' = [enabled EXCEPT ![a] = on]
    /\ PushState(enabled[a] # on, "AccountEnabled")
    /\ UNCHANGED <<bookVars, ledgerVars, limits, global_kill, requestVars, idVars, market, taker>>

SetAccountLimits(a, new) ==
    /\ BeginInput
    /\ limits' = [limits EXCEPT ![a] = new]
    /\ PushState(TRUE, "AccountLimits")
    /\ UNCHANGED <<bookVars, ledgerVars, enabled, global_kill, requestVars, idVars, market, taker>>

\* A market event or a command that names an unknown instrument or account.
ApplyUnknown ==
    /\ BeginInput
    /\ PushState(FALSE, "Feed")
    /\ UNCHANGED <<bookVars, ledgerVars, adminVars, requestVars, idVars, market, taker>>

ApplyControl(c) ==
    \/ c.command = "SetGlobalKill" /\ SetGlobalKill(c.engaged)
    \/ c.command = "SetAccountEnabled" /\ c.account \in Accounts
         /\ SetAccountEnabled(c.account, c.enabled)
    \/ c.command = "SetAccountLimits" /\ c.account \in Accounts
         /\ SetAccountLimits(c.account, c.limits)
    \/ c.command # "SetGlobalKill" /\ c.account \notin Accounts /\ ApplyUnknown

-----------------------------------------------------------------------------
(* Order requests.                                                         *)

ApplyRetry(r) ==
    /\ BeginInput
    /\ r.account \in Accounts
    /\ Cache!IsRetry(cache[r.account], r.request_id, Fingerprint(r))
    /\ Emit(<<>>, <<Cache!Entry(cache[r.account], r.request_id).outcome>>)
    /\ faults' = faults \cup OutputExhausted(1)
    /\ UNCHANGED <<bookVars, ledgerVars, adminVars, requestVars, idVars, market, taker>>

ApplyConflict(r) ==
    /\ BeginInput
    /\ r.account \in Accounts
    /\ Cache!IsConflict(cache[r.account], r.request_id, Fingerprint(r))
    /\ Respond(r, RejectReport(r), <<>>, {})
    /\ UNCHANGED <<bookVars, ledgerVars, adminVars, idVars, market, taker>>

\* A request the cache does not know.
Fresh(r) == r.account \in Accounts => ~Cache!Resolves(cache[r.account], r.request_id)

Permitted(r, late) ==
    \/ r.kind = "New" /\ CheckNewOrder(r, late)
    \/ r.kind = "Cancel" /\ CheckCancel(r)
    \/ r.kind = "Replace" /\ CheckReplace(r, late)

ApplyReject(r, late) ==
    /\ BeginInput
    /\ Fresh(r)
    /\ ~Permitted(r, late)
    /\ Respond(r, RejectReport(r), <<>>, {})
    /\ UNCHANGED <<bookVars, ledgerVars, adminVars, idVars, market, taker>>

\* What execute works on.  `prior` is the cumulative fill before this request,
\* `settling` is FALSE once trade ids ran out and fills are no longer booked.
Taker(r, order, limit, quantity, prior, client) ==
    [request |-> r, order |-> order, limit |-> limit, quantity |-> quantity,
     filled |-> 0, prior |-> prior, client |-> client, settling |-> TRUE]

HandleNew(r, late) ==
    /\ BeginInput
    /\ r.kind = "New"
    /\ Fresh(r)
    /\ CheckNewOrder(r, late)
    /\ next_order_id < MaxOrderId
    /\ next_order_id' = next_order_id + 1
    /\ taker' = Taker(r, next_order_id + 1, ExecutionLimit(r), r.quantity, 0, r.client_order_id)
    /\ out' = <<>>
    /\ UNCHANGED <<bookVars, ledgerVars, adminVars, requestVars, next_trade_id, next_priority,
                   output_seq, faults, market>>

HandleNewIdsExhausted(r, late) ==
    /\ BeginInput
    /\ r.kind = "New"
    /\ Fresh(r)
    /\ CheckNewOrder(r, late)
    /\ next_order_id = MaxOrderId
    /\ Respond(r, RejectReport(r), <<>>, {"SequenceExhausted"})
    /\ UNCHANGED <<bookVars, ledgerVars, adminVars, idVars, market, taker>>

\* Faulty variant: the client order id keeps pointing at the removed order.
RemoveOrderKeepsClient(id, a, client) ==
    /\ orders' = [orders EXCEPT ![id] = NoOrder]
    /\ live_orders' = [live_orders EXCEPT ![id] = NoOrder]
    /\ UNCHANGED client_orders

\* Take an order out of its book and of both order maps.
RemoveOrder(id, a, client) ==
    /\ orders' = [orders EXCEPT ![id] = NoOrder]
    /\ live_orders' = [live_orders EXCEPT ![id] = NoOrder]
    /\ client_orders' = [client_orders EXCEPT ![<<a, client>>] = NoId]

HandleCancel(r) ==
    /\ BeginInput
    /\ r.kind = "Cancel"
    /\ Fresh(r)
    /\ CheckCancel(r)
    /\ LET id   == Target(r)
           live == live_orders[id]
           node == orders[id]
       IN  /\ InBook(live.instrument, id)   \* expect("live order is present in its book")
           /\ RemoveOrder(id, r.account, r.target)
           /\ ReleaseReservation(live.account, live.instrument, node.side,
                                 Remaining(node), node.price)
           /\ Respond(r, Report(r, "Cancelled", id, node.client_order_id, node.total,
                                node.cumulative, 0), <<>>,
                      ReleaseFault(live.account, live.instrument, node.side,
                                   Remaining(node), node.price))
    /\ UNCHANGED <<position, adminVars, idVars, market, taker>>

\* Same price, lower total: the order keeps its place in the queue.
ReplaceKeepsPriority(r) ==
    r.price = orders[Target(r)].price /\ r.quantity < orders[Target(r)].total

HandleReplaceInPlace(r, late) ==
    /\ BeginInput
    /\ r.kind = "Replace"
    /\ Fresh(r)
    /\ CheckReplace(r, late)
    /\ ReplaceKeepsPriority(r)
    /\ LET id       == Target(r)
           existing == orders[id]
           released == existing.total - r.quantity
           raised   == ReleaseFault(r.account, r.instrument, existing.side, released,
                                    existing.price)
       IN  /\ ReleaseReservation(r.account, r.instrument, existing.side, released,
                                 existing.price)
           /\ IF r.quantity = existing.cumulative
              THEN /\ RemoveOrder(id, r.account, existing.client_order_id)
                   /\ Respond(r, Report(r, "Cancelled", id, existing.client_order_id,
                                        r.quantity, existing.cumulative, 0), <<>>, raised)
              ELSE /\ orders' = [orders EXCEPT ![id].total = r.quantity]
                   /\ UNCHANGED <<live_orders, client_orders>>
                   /\ Respond(r, Report(r, "Replaced", id, existing.client_order_id, r.quantity,
                                        existing.cumulative, r.quantity - existing.cumulative),
                              <<>>, raised)
    /\ UNCHANGED <<position, adminVars, idVars, market, taker>>

\* A price change or a quantity increase: out of the book and matched again.
HandleReplaceRequeue(r, late) ==
    /\ BeginInput
    /\ r.kind = "Replace"
    /\ Fresh(r)
    /\ CheckReplace(r, late)
    /\ ~ReplaceKeepsPriority(r)
    /\ LET id       == Target(r)
           existing == orders[id]
           raised   == ReleaseFault(r.account, r.instrument, existing.side,
                                    Remaining(existing), existing.price)
       IN  /\ RemoveOrder(id, r.account, existing.client_order_id)
           /\ ReleaseReservation(r.account, r.instrument, existing.side,
                                 Remaining(existing), existing.price)
           /\ IF r.quantity = existing.cumulative
              THEN /\ Respond(r, Report(r, "Cancelled", id, existing.client_order_id,
                                        r.quantity, existing.cumulative, 0), <<>>, raised)
                   /\ UNCHANGED taker
              ELSE /\ taker' = Taker(r, id, r.price, r.quantity - existing.cumulative,
                                     existing.cumulative, existing.client_order_id)
                   /\ out' = <<>>
                   /\ faults' = faults \cup raised
                   /\ UNCHANGED <<output_seq, requestVars>>
    /\ UNCHANGED <<position, adminVars, idVars, market>>

-----------------------------------------------------------------------------
(* execute: match_order takes the makers one by one; every fill is settled *)
(* and reported in the order trade, maker report, taker report.            *)

TakerSide == taker.request.side

TakerInstrument == taker.request.instrument

Makers == Eligible(TakerInstrument, TakerSide, taker.limit)

Matching == taker # NoTaker /\ taker.filled < taker.quantity /\ Makers # {}

Matched == taker # NoTaker /\ ~(taker.filled < taker.quantity /\ Makers # {})

\* Faulty variant: a fill of the taker's whole quantity whatever the maker has left.
FillLotsUnbounded(maker) == taker.quantity - taker.filled

FillLots(maker) == Least(taker.quantity - taker.filled, Remaining(maker))

\* fill_maker: the maker's fill, and its removal once nothing remains.
FillMaker(id, lots) ==
    orders' = [orders EXCEPT ![id] =
                  IF Remaining(orders[id]) = lots THEN NoOrder
                  ELSE [orders[id] EXCEPT !.cumulative = orders[id].cumulative + lots]]

FillReports(id, maker, lots) ==
    LET r      == taker.request
        cum    == taker.filled + lots
        left   == Remaining(maker) - lots
    IN  <<Trade(next_trade_id + 1, id, taker.order, maker.price, lots),
          [Report(r, IF left = 0 THEN "Filled" ELSE "PartiallyFilled", id,
                  maker.client_order_id, maker.total, maker.cumulative + lots, left)
             EXCEPT !.account = maker.account, !.request = 0],
          Report(r, IF cum = taker.quantity THEN "Filled" ELSE "PartiallyFilled", taker.order,
                 r.client_order_id, r.quantity, cum, taker.quantity - cum)>>

Fill ==
    /\ Matching
    /\ taker.settling
    /\ next_trade_id < MaxTradeId
    /\ \E id \in Makers : LET
           maker  == orders[id]
           lots   == FillLots(maker)
           a      == taker.request.account
           i      == TakerInstrument
           settled == ApplyFillToPosition(position, maker.account, i, maker.side, lots)
           events == FillReports(id, maker, lots)
       IN  /\ IsNextMaker(id, Makers)
           /\ FillMaker(id, lots)
           /\ next_trade_id' = next_trade_id + 1
           /\ ReleaseReservation(maker.account, i, maker.side, lots, maker.price)
           /\ position' = ApplyFillToPosition(settled, a, i, TakerSide, lots)
           /\ Emit(out, events)
           /\ faults' = faults \cup OutputExhausted(3)
                          \cup ReleaseFault(maker.account, i, maker.side, lots, maker.price)
                          \cup FillFault(position, maker.account, i, maker.side, lots)
                          \cup FillFault(settled, a, i, TakerSide, lots)
           /\ IF Remaining(maker) = lots
              THEN /\ live_orders' = [live_orders EXCEPT ![id] = NoOrder]
                   /\ client_orders' =
                        [client_orders EXCEPT ![<<maker.account, maker.client_order_id>>] = NoId]
              ELSE UNCHANGED <<live_orders, client_orders>>
           /\ taker' = [taker EXCEPT !.filled = @ + lots]
    /\ UNCHANGED <<adminVars, requestVars, next_order_id, next_priority, market, engine_seq>>

\* Trade ids ran out: the book was already matched, the rest is not settled.
FillUnsettled ==
    /\ Matching
    /\ taker.settling => next_trade_id = MaxTradeId
    /\ \E id \in Makers : LET lots == FillLots(orders[id]) IN
           /\ IsNextMaker(id, Makers)
           /\ FillMaker(id, lots)
           /\ taker' = [taker EXCEPT !.filled = @ + lots, !.settling = FALSE]
    /\ faults' = faults \cup {"SequenceExhausted"}
    /\ UNCHANGED <<live_orders, client_orders, ledgerVars, adminVars, requestVars, idVars,
                   output_seq, out, market, engine_seq>>

TakerCumulative == taker.prior + taker.filled

FinishFilled ==
    /\ Matched
    /\ TakerCumulative = taker.request.quantity
    /\ Respond(taker.request,
               Report(taker.request, "Filled", taker.order, taker.client,
                      taker.request.quantity, TakerCumulative, 0), out, {})
    /\ taker' = NoTaker
    /\ UNCHANGED <<bookVars, ledgerVars, adminVars, idVars, market, engine_seq>>

\* Market orders never rest: the remainder is cancelled.
FinishMarketOrder ==
    /\ Matched
    /\ TakerCumulative # taker.request.quantity
    /\ taker.request.type = "Market"
    /\ Respond(taker.request,
               Report(taker.request, "Cancelled", taker.order, taker.client,
                      taker.request.quantity, TakerCumulative, 0), out, {})
    /\ taker' = NoTaker
    /\ UNCHANGED <<bookVars, ledgerVars, adminVars, idVars, market, engine_seq>>

\* Faulty variant: an order that traded on the way in is not put into the book.
InsertsUntradedOnly(r, lots) ==
    /\ taker.filled = 0
    /\ next_priority < MaxPriority
    /\ ~BookIsFull(r.instrument)
    /\ LevelFits(r.instrument, r.side, r.price, lots)

\* rest_order_with: the remainder enters the book at the tail of its level.
\* A missing priority is a fault; a refused insert is silent.
Inserts(r, lots) ==
    /\ next_priority < MaxPriority
    /\ ~BookIsFull(r.instrument)
    /\ LevelFits(r.instrument, r.side, r.price, lots)

RestOrder(r, lots) ==
    LET node == [account |-> r.account, instrument |-> r.instrument,
                 client_order_id |-> taker.client, side |-> r.side, price |-> r.price,
                 total |-> r.quantity, cumulative |-> TakerCumulative,
                 priority |-> next_priority + 1]
    IN  /\ next_priority' = Least(next_priority + 1, MaxPriority)
        /\ IF Inserts(r, lots)
           THEN /\ orders' = [orders EXCEPT ![taker.order] = node]
                /\ live_orders' = [live_orders EXCEPT ![taker.order] =
                                      [account |-> r.account, instrument |-> r.instrument]]
                /\ client_orders' = [client_orders EXCEPT ![<<r.account, taker.client>>] = taker.order]
                /\ Reserve(r.account, r.instrument, r.side, lots, r.price)
           ELSE UNCHANGED <<bookVars, open_lots, open_notional>>

FinishRest ==
    /\ Matched
    /\ TakerCumulative # taker.request.quantity
    /\ taker.request.type = "Limit"
    /\ LET r    == taker.request
           lots == r.quantity - TakerCumulative
       IN  /\ RestOrder(r, lots)
           /\ Respond(r, Report(r, IF r.kind = "New" THEN "Accepted" ELSE "Replaced", taker.order,
                                taker.client, r.quantity, TakerCumulative, lots), out,
                      Raised(next_priority = MaxPriority, "SequenceExhausted")
                        \cup (IF Inserts(r, lots)
                              THEN ReserveFault(r.account, r.instrument, r.side, lots) ELSE {}))
    /\ taker' = NoTaker
    /\ UNCHANGED <<position, adminVars, next_order_id, next_trade_id, market, engine_seq>>

-----------------------------------------------------------------------------
(* What is assumed of the constants.                                       *)

Taking == [request : Requests, order : OrderIds, limit : Int, quantity : Nat, filled : Nat,
           prior : Nat, client : ClientOrderIds, settling : BOOLEAN]

LiveOrder == [account : Accounts, instrument : Instruments]

ASSUME ConfigAssumption ==
    /\ Accounts \subseteq AccountIds /\ Instruments \subseteq InstrumentIds
    /\ InitialLimits \in [Accounts -> AccountLimits]

ASSUME InputAssumption ==
    /\ Requests \subseteq OrderRequest
    /\ MarketViews \subseteq MarketView
    /\ Controls \subseteq ControlCommand

ASSUME NumberAssumption ==
    /\ MaxI64 \in Nat /\ ProtectionTicks \in Nat /\ DedupWindow \in Nat
    /\ MaxEngineSeq \in Nat /\ MaxOutputSeq \in Nat /\ MaxOrderId \in Nat
    /\ MaxTradeId \in Nat /\ MaxPriority \in Nat

ASSUME AbsentAssumption ==
    /\ NoOrder \notin OrderNode /\ NoOrder \notin LiveOrder
    /\ NoTaker \notin Taking
    /\ NoPrice \notin Int
    /\ NoEntry \notin Cache!CachedRequest

-----------------------------------------------------------------------------

Init ==
    /\ orders = [id \in OrderIds |-> NoOrder]
    /\ live_orders = [id \in OrderIds |-> NoOrder]
    /\ client_orders = [k \in Accounts \X ClientOrderIds |-> NoId]
    /\ position = [k \in Accounts \X Instruments |-> 0]
    /\ open_lots = [k \in Accounts \X Instruments \X Sides |-> 0]
    /\ open_notional = [k \in Accounts \X Instruments \X Sides |-> 0]
    /\ enabled = [a \in Accounts |-> TRUE]
    /\ limits = InitialLimits
    /\ last_client_seq = [a \in Accounts |-> 0]
    /\ cache = [a \in Accounts |-> Cache!EmptyCache]
    /\ market = [i \in Instruments |-> [state |-> "Unsynchronized", reference |-> NoPrice]]
    /\ global_kill = FALSE
    /\ engine_seq = 0 /\ output_seq = 0
    /\ next_order_id = 0 /\ next_trade_id = 0 /\ next_priority = 0
    /\ faults = {}
    /\ out = <<>>
    /\ taker = NoTaker

ApplyRequest(r) ==
    \/ ApplyRetry(r) \/ ApplyConflict(r) \/ HandleCancel(r)
    \/ \E late \in Late :
         \/ ApplyReject(r, late)
         \/ HandleNew(r, late) \/ HandleNewIdsExhausted(r, late)
         \/ HandleReplaceInPlace(r, late) \/ HandleReplaceRequeue(r, late)

Next ==
    \/ \E r \in Requests : ApplyRequest(r)
    \/ \E i \in Instruments, view \in MarketViews : ApplyMarket(i, view)
    \/ \E c \in Controls : ApplyControl(c)
    \/ Fill \/ FillUnsettled \/ FinishFilled \/ FinishMarketOrder \/ FinishRest
    \/ ApplyFaulted \/ ApplyEngineSeqExhausted

Spec == Init /\ [][Next]_vars

-----------------------------------------------------------------------------
(* Properties.                                                             *)

\* Type invariant: every field of TradingCore keeps its type, reservations and
\* positions stay inside u64 and i64, and counters never pass their maximum.
TypeOK ==
    /\ orders \in [OrderIds -> OrderNode \cup {NoOrder}]
    /\ live_orders \in [OrderIds -> LiveOrder \cup {NoOrder}]
    /\ client_orders \in [Accounts \X ClientOrderIds -> 0 .. MaxOrderId]
    /\ position \in [Accounts \X Instruments -> I64]
    /\ open_lots \in [Accounts \X Instruments \X Sides -> 0 .. MaxU64]
    /\ open_notional \in [Accounts \X Instruments \X Sides -> Nat]
    /\ enabled \in [Accounts -> BOOLEAN]
    /\ limits \in [Accounts -> AccountLimits]
    /\ last_client_seq \in [Accounts -> Nat]
    /\ cache \in [Accounts -> Cache!RequestCaches]
    /\ market \in [Instruments -> MarketView]
    /\ global_kill \in BOOLEAN
    /\ engine_seq \in 0 .. MaxEngineSeq
    /\ output_seq \in 0 .. MaxOutputSeq
    /\ next_order_id \in 0 .. MaxOrderId
    /\ next_trade_id \in 0 .. MaxTradeId
    /\ next_priority \in 0 .. MaxPriority
    /\ faults \subseteq EngineFault
    /\ out \in Seq(Reports \cup Trades \cup StateEvents)
    /\ taker \in Taking \cup {NoTaker}

\* While no fault is latched the book, live_orders and client_orders name the
\* same orders, so handle_cancel's expect("live order is present in its book")
\* never fires and no live order is out of its owner's reach.
IndexesAgree ==
    faults = {} =>
      /\ \A id \in OrderIds :
           /\ orders[id] = NoOrder <=> live_orders[id] = NoOrder
           /\ orders[id] # NoOrder =>
                /\ live_orders[id] = [account |-> orders[id].account,
                                      instrument |-> orders[id].instrument]
                /\ client_orders[<<orders[id].account, orders[id].client_order_id>>] = id
      /\ \A a \in Accounts, c \in ClientOrderIds :
           client_orders[<<a, c>>] # NoId =>
             /\ orders[client_orders[<<a, c>>]] # NoOrder
             /\ orders[client_orders[<<a, c>>]].account = a
             /\ orders[client_orders[<<a, c>>]].client_order_id = c

\* No bid of an instrument is at or above one of its asks, also between the
\* fills of an execution and after a replace put an order back.
BookNotCrossed ==
    \A i \in Instruments : \A bid \in Resting(i, "Buy"), ask \in Resting(i, "Sell") :
        orders[bid].price < orders[ask].price

\* Orders of (a, i) resting on `side`.
Working(a, i, side) == {id \in Resting(i, side) : orders[id].account = a}

\* The reservations of an account are exactly the lots and the notional of its
\* resting orders, after every fill, cancel and replace (core.rs release_reservation).
ReservationsMatchOrders ==
    faults = {} =>
      \A a \in Accounts, i \in Instruments, side \in Sides :
        /\ open_lots[<<a, i, side>>] =
             MapThenSumSet(LAMBDA id : Remaining(orders[id]), Working(a, i, side))
        /\ open_notional[<<a, i, side>>] =
             MapThenSumSet(LAMBDA id : Notional(Remaining(orders[id]), orders[id].price),
                           Working(a, i, side))

\* The Accounting fault is unreachable: no release underflows, no position and
\* no reservation overflows, whatever the order of fills, cancels and replaces.
NoAccountingFault == "Accounting" \notin faults

\* Every fill books equal and opposite positions, self-trades included.
PositionsNetToZero ==
    \A i \in Instruments : MapThenSumSet(LAMBDA a : position[<<a, i>>], Accounts) = 0

\* Lots of the order being executed that are neither filled nor resting yet.
InFlight(a, i, side) ==
    IF taker # NoTaker /\ taker.request.account = a /\ taker.request.instrument = i
         /\ taker.request.side = side
    THEN taker.quantity - taker.filled ELSE 0

\* Furthest the position of (a, i) can move on `side` if everything fills.
Reach(a, i, side) ==
    WorstCase(side, position[<<a, i>>], open_lots[<<a, i, side>>] + InFlight(a, i, side))

Grows(a, i, side) ==
    IF side = "Buy" THEN Reach(a, i, side)' > Reach(a, i, side)
                    ELSE Reach(a, i, side)' < Reach(a, i, side)

\* Every worst-case position a step moves further out ends inside the limit.
GrowthIsWithinLimit ==
    \A a \in Accounts, i \in Instruments, side \in Sides :
        ("Accounting" \notin faults' /\ Grows(a, i, side)) =>
            Magnitude(Reach(a, i, side)') <= limits[a].max_position_lots

\* Only accounts that may trade have a worst-case position moved further out.
GrowthIsPermitted ==
    \A a \in Accounts, i \in Instruments, side \in Sides :
        ("Accounting" \notin faults' /\ (global_kill \/ ~enabled[a])) => ~Grows(a, i, side)

\* A step that moves the worst-case position of an account further out leaves
\* it inside the position limit then in force (check_exposure), fills included.
ExposureGrowsWithinLimit == [][GrowthIsWithinLimit]_vars

\* Under the kill switch, and for a disabled account, nothing moves the
\* worst-case position further out; resting orders may still be hit.
NoNewRiskUnlessPermitted == [][GrowthIsPermitted]_vars

\* A request whose execution ends with Accepted or Replaced left its order in
\* the book with exactly the remaining quantity the report states.
AcceptedOrderRests ==
    [][(taker # NoTaker /\ taker' = NoTaker /\ faults' = {}) =>
         LET last == out'[Len(out')]
         IN  last.kind \in {"Accepted", "Replaced"} =>
               orders'[last.order] # NoOrder /\ Remaining(orders'[last.order]) = last.remaining]_vars

\* A step appends its new events after what it keeps of the output so far.
NumbersAreDense ==
    faults' = {} =>
      LET new  == output_seq' - output_seq
          kept == Len(out') - new
      IN  /\ kept \in {0, Len(out)}
          /\ \A k \in 1 .. kept : out'[k] = out[k]
          /\ \A k \in 1 .. new : out'[kept + k].seq = output_seq + k

\* Output numbers are dense: a step appends events numbered from output_seq + 1
\* without a hole, and keeps the events the current input emitted before.
OutputsNumberedDensely == [][NumbersAreDense]_vars

\* A report of a live order states remaining = total - cumulative, as
\* cumulative_fill_never_exceeds_the_accepted_total asserts of every report.
ReportsAddUp ==
    \A k \in 1 .. Len(out) :
        (out[k].event = "report" /\ out[k].kind \notin {"Rejected", "Filled", "Cancelled"}) =>
          out[k].remaining = out[k].total - out[k].cumulative

\* The client sequence of an account never moves back.
ClientSequenceMonotonic ==
    [][\A a \in Accounts : last_client_seq'[a] >= last_client_seq[a]]_vars

=============================================================================
