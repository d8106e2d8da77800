------------------------- MODULE TradingCoreProofs -------------------------
(***************************************************************************)
(* Proofs about TradingCore.                                               *)
(***************************************************************************)
EXTENDS TradingCore, TLAPS

Events == Reports \cup Trades \cup StateEvents

-----------------------------------------------------------------------------
(* The inductive invariant, one conjunct per group of variables.           *)

\* The books and both order maps; a resting order has quantity left.
BookTypes ==
    /\ orders \in [OrderIds -> OrderNode \cup {NoOrder}]
    /\ live_orders \in [OrderIds -> LiveOrder \cup {NoOrder}]
    /\ client_orders \in [Accounts \X ClientOrderIds -> 0 .. MaxOrderId]
    /\ \A id \in OrderIds : orders[id] # NoOrder => orders[id].cumulative < orders[id].total

LedgerTypes ==
    /\ position \in [Accounts \X Instruments -> I64]
    /\ open_lots \in [Accounts \X Instruments \X Sides -> 0 .. MaxU64]
    /\ open_notional \in [Accounts \X Instruments \X Sides -> Nat]

AdminTypes ==
    /\ enabled \in [Accounts -> BOOLEAN]
    /\ limits \in [Accounts -> AccountLimits]
    /\ global_kill \in BOOLEAN

RequestTypes ==
    /\ last_client_seq \in [Accounts -> Nat]
    /\ cache \in [Accounts -> Cache!RequestCaches]

IdTypes ==
    /\ next_order_id \in 0 .. MaxOrderId
    /\ next_trade_id \in 0 .. MaxTradeId
    /\ next_priority \in 0 .. MaxPriority

OutputTypes ==
    /\ output_seq \in 0 .. MaxOutputSeq
    /\ out \in Seq(Events)
    /\ faults \subseteq EngineFault

MarketTypes == market \in [Instruments -> MarketView] /\ engine_seq \in 0 .. MaxEngineSeq

\* The order inside execute belongs to a known account and instrument; what it
\* may fill and what was filled before the request add up to the request.
TakerTypes ==
    /\ taker \in Taking \cup {NoTaker}
    /\ taker # NoTaker =>
         /\ taker.request.account \in Accounts
         /\ taker.request.instrument \in Instruments
         /\ taker.filled <= taker.quantity
         /\ taker.quantity + taker.prior = taker.request.quantity
         /\ taker.request.type = "Limit" => taker.limit = taker.request.price

IInv ==
    /\ BookTypes /\ LedgerTypes /\ AdminTypes /\ RequestTypes
    /\ IdTypes /\ OutputTypes /\ MarketTypes /\ TakerTypes

-----------------------------------------------------------------------------
(* Output events and the request cache.                                    *)

\* Most leaves are first-order: Zenon is the default here, and a leaf with arithmetic or
\* function updates asks for SMT.
USE Zenon

\* The conjuncts of the invariant. Proofs cite these two lemmas and leave IInv itself
\* unexpanded.
LEMMA InvParts ==
  ASSUME IInv
  PROVE  /\ BookTypes /\ LedgerTypes /\ AdminTypes /\ RequestTypes
         /\ IdTypes /\ OutputTypes /\ MarketTypes /\ TakerTypes
  BY DEF IInv

\* The conjuncts make up the invariant of the next state.
LEMMA InvWhole ==
  ASSUME BookTypes', LedgerTypes', AdminTypes', RequestTypes',
         IdTypes', OutputTypes', MarketTypes', TakerTypes'
  PROVE  IInv'
  BY DEF IInv

\* A function on 1 .. n is a sequence: the numbered events of one Emit.
LEMMA FunctionIsSeq ==
  ASSUME NEW S, NEW n \in Nat, NEW f \in [1 .. n -> S]
  PROVE  f \in Seq(S)
  BY SMT

\* Numbering an event leaves it an event.
LEMMA EventNumbered ==
  ASSUME NEW e \in Events, NEW n \in Nat
  PROVE  [e EXCEPT !.seq = n] \in Events
  <1>1. CASE e \in Reports
    BY <1>1 DEF Reports, Events
  <1>2. CASE e \in Trades
    BY <1>2 DEF Trades, Events
  <1>3. CASE e \in StateEvents
    BY <1>3 DEF StateEvents, Events
  <1> QED BY <1>1, <1>2, <1>3 DEF Events

\* take_output_seq and push keep the output a sequence of events and the counter in range.
LEMMA EmitType ==
  ASSUME output_seq \in 0 .. MaxOutputSeq,
         NEW prefix \in Seq(Events), NEW events \in Seq(Events), Emit(prefix, events)
  PROVE  out' \in Seq(Events) /\ output_seq' \in 0 .. MaxOutputSeq
  <1> DEFINE number(k) == Least(output_seq + k, MaxOutputSeq)
             numbered == [k \in 1 .. Len(events) |-> [events[k] EXCEPT !.seq = number(k)]]
  <1>1. Len(events) \in Nat /\ MaxOutputSeq \in Nat
    BY NumberAssumption, SMT
  <1>2. ASSUME NEW k \in 1 .. Len(events)
        PROVE  [events[k] EXCEPT !.seq = number(k)] \in Events
    <2>1. events[k] \in Events
      BY SMT
    <2>2. number(k) \in Nat
      BY <1>1, SMT DEF Least
    <2> QED BY <2>1, <2>2, EventNumbered
  <1>3. numbered \in [1 .. Len(events) -> Events]
    BY <1>2
  <1>4. numbered \in Seq(Events)
    BY <1>1, <1>3, FunctionIsSeq
  <1>5. out' = prefix \o numbered
    BY DEF Emit
  <1>6. out' \in Seq(Events)
    BY <1>4, <1>5, SMT
  <1>7. output_seq' \in 0 .. MaxOutputSeq
    BY <1>1, SMT DEF Emit, Least
  <1> QED BY <1>6, <1>7

\* The fields of a request have their types.
LEMMA RequestType ==
  ASSUME NEW r \in Requests
  PROVE  r \in OrderRequest
  BY InputAssumption

\* A report of a request is a report.
LEMMA ReportType ==
  ASSUME NEW r \in Requests, NEW kind \in ReportKinds, NEW order \in 0 .. MaxOrderId,
         NEW client \in ClientOrderIds, NEW total \in Nat, NEW cumulative \in Nat,
         NEW remaining \in Nat
  PROVE  Report(r, kind, order, client, total, cumulative, remaining) \in Reports
  BY RequestType DEF Report, Reports, OrderRequest

\* A rejection is a report.
LEMMA RejectReportType ==
  ASSUME NEW r \in Requests
  PROVE  RejectReport(r) \in Reports
  <1>1. r.client_order_id \in ClientOrderIds /\ r.quantity \in Nat
    BY RequestType DEF OrderRequest
  <1>2. "Rejected" \in ReportKinds /\ NoId \in 0 .. MaxOrderId
    BY NumberAssumption, SMT DEF ReportKinds, NoId
  <1> QED BY <1>1, <1>2, ReportType DEF RejectReport

\* RequestCache::record keeps the types of the ring and of the index.
LEMMA RecordType ==
  ASSUME NEW c \in Cache!RequestCaches, NEW r \in Requests, NEW report \in Reports
  PROVE  Cache!Record(c, r.request_id, Fingerprint(r), report) \in Cache!RequestCaches
  <1> DEFINE entry == [request_id |-> r.request_id, fingerprint |-> Fingerprint(r),
                       outcome |-> report]
             ids == {q.request_id : q \in Requests}
  <1>1. /\ c.entries \in [Cache!Slots -> Cache!CachedRequest \cup {NoEntry}]
        /\ c.index \in [ids -> Cache!Slots \cup {Cache!NoSlot}]
        /\ c.next \in Cache!Slots
    BY DEF Cache!RequestCaches
  <1>2. entry \in Cache!CachedRequest /\ r.request_id \in ids
    BY DEF Cache!CachedRequest
  <1>3. Cache!Capacity \in Nat /\ Cache!Capacity >= 1
    BY NumberAssumption, SMT DEF Cache!Capacity
  <1>4. (c.next + 1) % Cache!Capacity \in Cache!Slots
    <2>1. c.next \in Nat
      BY <1>1, <1>3, SMT DEF Cache!Slots
    <2> QED BY <1>3, <2>1, SMT DEF Cache!Slots
  <1>5. Cache!EvictedIndex(c) \in [ids -> Cache!Slots \cup {Cache!NoSlot}]
    BY <1>1 DEF Cache!EvictedIndex
  <1> QED BY <1>1, <1>2, <1>4, <1>5 DEF Cache!Record, Cache!RequestCaches

\* record_outcome keeps the types of the account's request state.
LEMMA RecordOutcomeType ==
  ASSUME RequestTypes, NEW r \in Requests, NEW report \in Reports, RecordOutcome(r, report)
  PROVE  RequestTypes'
  <1>1. CASE r.account \in Accounts
    <2>1. cache[r.account] \in Cache!RequestCaches
      BY <1>1 DEF RequestTypes
    <2>2. Cache!Record(cache[r.account], r.request_id, Fingerprint(r), report)
            \in Cache!RequestCaches
      BY <2>1, RecordType
    <2>3. cache' \in [Accounts -> Cache!RequestCaches]
      BY <1>1, <2>2 DEF RecordOutcome, RequestTypes
    <2>4. r.client_seq \in Nat
      BY RequestType DEF OrderRequest
    <2>5. last_client_seq' \in [Accounts -> Nat]
      BY <1>1, <2>4 DEF RecordOutcome, RequestTypes
    <2> QED BY <2>3, <2>5 DEF RequestTypes
  <1>2. CASE r.account \notin Accounts
    BY <1>2 DEF RecordOutcome, RequestTypes, requestVars
  <1> QED BY <1>1, <1>2

\* The end of a request keeps outputs, faults and request state well typed.
LEMMA RespondType ==
  ASSUME OutputTypes, RequestTypes, NEW r \in Requests, NEW report \in Reports,
         NEW prefix \in Seq(Events), NEW raised \in SUBSET EngineFault,
         Respond(r, report, prefix, raised)
  PROVE  OutputTypes' /\ RequestTypes'
  <1>1. <<report>> \in Seq(Events)
    BY SMT DEF Events
  <1>2. out' \in Seq(Events) /\ output_seq' \in 0 .. MaxOutputSeq
    BY <1>1, EmitType DEF Respond, OutputTypes
  <1>3. faults' \subseteq EngineFault
    BY DEF Respond, OutputTypes, OutputExhausted, Raised, EngineFault
  <1>4. RequestTypes'
    BY RecordOutcomeType DEF Respond
  <1> QED BY <1>2, <1>3, <1>4 DEF OutputTypes

-----------------------------------------------------------------------------
(* Books, reservations and faults.                                         *)

\* A group of variables that a step leaves alone keeps its types.
LEMMA BookFrame ==
  ASSUME BookTypes, UNCHANGED bookVars
  PROVE  BookTypes'
  BY DEF BookTypes, bookVars

\* Likewise for positions and reservations.
LEMMA LedgerFrame ==
  ASSUME LedgerTypes, UNCHANGED ledgerVars
  PROVE  LedgerTypes'
  BY DEF LedgerTypes, ledgerVars

\* Likewise for limits and switches.
LEMMA AdminFrame ==
  ASSUME AdminTypes, UNCHANGED adminVars
  PROVE  AdminTypes'
  BY DEF AdminTypes, adminVars

\* Likewise for the request caches and client sequences.
LEMMA RequestFrame ==
  ASSUME RequestTypes, UNCHANGED requestVars
  PROVE  RequestTypes'
  BY DEF RequestTypes, requestVars

\* Likewise for the id counters.
LEMMA IdFrame ==
  ASSUME IdTypes, UNCHANGED idVars
  PROVE  IdTypes'
  BY DEF IdTypes, idVars

\* Likewise for the order being executed.
LEMMA TakerFrame ==
  ASSUME TakerTypes, UNCHANGED taker
  PROVE  TakerTypes'
  BY DEF TakerTypes

\* An input takes a number of its own and leaves the counter in range.
LEMMA BeginType ==
  ASSUME MarketTypes, BeginInput
  PROVE  engine_seq' \in 0 .. MaxEngineSeq /\ taker = NoTaker
  BY NumberAssumption, SMT DEF BeginInput, MarketTypes

\* A resting order has a positive remainder.
LEMMA RestingNode ==
  ASSUME BookTypes, NEW id \in OrderIds, orders[id] # NoOrder
  PROVE  /\ orders[id] \in OrderNode
         /\ Remaining(orders[id]) \in Nat /\ Remaining(orders[id]) >= 1
  BY SMT DEF BookTypes, OrderNode, Remaining

\* Taking an order out keeps the book and its maps well typed.
LEMMA RemoveOrderType ==
  ASSUME BookTypes, NEW id \in OrderIds, NEW a \in Accounts, NEW client \in ClientOrderIds,
         RemoveOrder(id, a, client)
  PROVE  BookTypes'
  BY NumberAssumption, SMT DEF BookTypes, RemoveOrder, NoId

\* The notional of an order is a natural number.
LEMMA NotionalType ==
  ASSUME NEW lots \in Nat, NEW price \in Int
  PROVE  Notional(lots, price) \in Nat
  <1>1. Magnitude(price) \in Nat
    BY SMT DEF Magnitude
  <1> QED BY <1>1, SMT DEF Notional

\* Releasing never takes a reservation below zero.
LEMMA ReleaseType ==
  ASSUME LedgerTypes, NEW a \in Accounts, NEW i \in Instruments, NEW side \in Sides,
         NEW lots \in Nat, NEW price \in Int, ReleaseReservation(a, i, side, lots, price)
  PROVE  /\ open_lots' \in [Accounts \X Instruments \X Sides -> 0 .. MaxU64]
         /\ open_notional' \in [Accounts \X Instruments \X Sides -> Nat]
  <1>1. PICK n \in Nat : n = Notional(lots, price)
    BY NotionalType
  <1>2. MaxU64 \in Nat
    BY NumberAssumption, SMT DEF MaxU64
  <1> QED BY <1>1, <1>2, SMT DEF ReleaseReservation, LedgerTypes

\* Reserving never takes reserved lots past u64.
LEMMA ReserveType ==
  ASSUME LedgerTypes, NEW a \in Accounts, NEW i \in Instruments, NEW side \in Sides,
         NEW lots \in Nat, NEW price \in Int, Reserve(a, i, side, lots, price)
  PROVE  /\ open_lots' \in [Accounts \X Instruments \X Sides -> 0 .. MaxU64]
         /\ open_notional' \in [Accounts \X Instruments \X Sides -> Nat]
  <1>1. PICK n \in Nat : n = Notional(lots, price)
    BY NotionalType
  <1>2. MaxU64 \in Nat
    BY NumberAssumption, SMT DEF MaxU64
  <1> QED BY <1>1, <1>2, SMT DEF Reserve, LedgerTypes

\* Booking a fill never takes a position out of i64.
LEMMA FillPositionType ==
  ASSUME NEW p \in [Accounts \X Instruments -> I64], NEW a \in Accounts, NEW i \in Instruments,
         NEW side \in Sides, NEW lots \in Nat
  PROVE  ApplyFillToPosition(p, a, i, side, lots) \in [Accounts \X Instruments -> I64]
  BY DEF ApplyFillToPosition

\* What the checked operations raise are engine faults.
LEMMA FaultTypes ==
  /\ \A n : OutputExhausted(n) \subseteq EngineFault
  /\ \A a, i, side, lots, price : ReleaseFault(a, i, side, lots, price) \subseteq EngineFault
  /\ \A a, i, side, lots : ReserveFault(a, i, side, lots) \subseteq EngineFault
  /\ \A p, a, i, side, lots : FillFault(p, a, i, side, lots) \subseteq EngineFault
  BY DEF OutputExhausted, ReleaseFault, ReserveFault, FillFault, Raised, EngineFault

\* push_state: at most one event, numbered.
LEMMA PushStateType ==
  ASSUME OutputTypes, NEW changed \in BOOLEAN,
         NEW what \in {"Feed", "KillEngaged", "KillReleased", "AccountEnabled", "AccountLimits"},
         PushState(changed, what)
  PROVE  OutputTypes'
  <1> DEFINE events == IF changed THEN <<StateEvent(what)>> ELSE <<>>
  <1>1. StateEvent(what) \in Events
    BY DEF StateEvent, StateEvents, Events
  <1>2. events \in Seq(Events)
    BY <1>1, SMT
  <1>3. <<>> \in Seq(Events)
    BY SMT
  <1>4. out' \in Seq(Events) /\ output_seq' \in 0 .. MaxOutputSeq
    BY <1>2, <1>3, EmitType DEF PushState, OutputTypes
  <1>5. faults' \subseteq EngineFault
    BY FaultTypes DEF PushState, OutputTypes
  <1> QED BY <1>4, <1>5 DEF OutputTypes

-----------------------------------------------------------------------------
(* Every input keeps the invariant.                                        *)

\* A faulted engine, and an input counter that ran out, keep the invariant.
LEMMA FaultedInv ==
  ASSUME IInv, ApplyFaulted \/ ApplyEngineSeqExhausted
  PROVE  IInv'
  <1> /\ BookTypes /\ LedgerTypes /\ AdminTypes /\ RequestTypes
      /\ IdTypes /\ OutputTypes /\ MarketTypes /\ TakerTypes
    BY InvParts
  <1>1. UNCHANGED <<bookVars, ledgerVars, adminVars, requestVars, idVars, taker>>
    BY DEF ApplyFaulted, ApplyEngineSeqExhausted
  <1>2. BookTypes' /\ LedgerTypes' /\ AdminTypes' /\ RequestTypes' /\ IdTypes' /\ TakerTypes'
    BY <1>1, BookFrame, LedgerFrame, AdminFrame, RequestFrame, IdFrame, TakerFrame
  <1>3. MarketTypes'
    BY DEF MarketTypes, ApplyFaulted, ApplyEngineSeqExhausted
  <1>4. OutputTypes'
    <2>1. out' = <<>> /\ <<>> \in Seq(Events)
      BY SMT DEF ApplyFaulted, ApplyEngineSeqExhausted
    <2>2. faults' \subseteq EngineFault /\ output_seq' = output_seq
      BY DEF ApplyFaulted, ApplyEngineSeqExhausted, OutputTypes, EngineFault
    <2> QED BY <2>1, <2>2 DEF OutputTypes
  <1> QED BY InvWhole, <1>2, <1>3, <1>4

\* A market event keeps the invariant.
LEMMA MarketInv ==
  ASSUME IInv, NEW i \in Instruments, NEW view \in MarketViews, ApplyMarket(i, view)
  PROVE  IInv'
  <1> /\ BookTypes /\ LedgerTypes /\ AdminTypes /\ RequestTypes
      /\ IdTypes /\ OutputTypes /\ MarketTypes /\ TakerTypes
    BY InvParts
  <1>1. UNCHANGED <<bookVars, ledgerVars, adminVars, requestVars, idVars, taker>>
    BY DEF ApplyMarket
  <1>2. BookTypes' /\ LedgerTypes' /\ AdminTypes' /\ RequestTypes' /\ IdTypes' /\ TakerTypes'
    BY <1>1, BookFrame, LedgerFrame, AdminFrame, RequestFrame, IdFrame, TakerFrame
  <1>3. MarketTypes'
    BY InputAssumption, BeginType DEF MarketTypes, ApplyMarket
  <1>4. OutputTypes'
    BY PushStateType DEF ApplyMarket
  <1> QED BY InvWhole, <1>2, <1>3, <1>4

\* The kill switch keeps the invariant.
LEMMA SetGlobalKillInv ==
  ASSUME IInv, NEW engaged \in BOOLEAN, SetGlobalKill(engaged)
  PROVE  IInv'
  <1> /\ BookTypes /\ LedgerTypes /\ AdminTypes /\ RequestTypes
      /\ IdTypes /\ OutputTypes /\ MarketTypes /\ TakerTypes
    BY InvParts
  <1>1. UNCHANGED <<bookVars, ledgerVars, requestVars, idVars, taker>>
    BY DEF SetGlobalKill
  <1>2. BookTypes' /\ LedgerTypes' /\ RequestTypes' /\ IdTypes' /\ TakerTypes'
    BY <1>1, BookFrame, LedgerFrame, RequestFrame, IdFrame, TakerFrame
  <1>3. MarketTypes'
    BY BeginType DEF MarketTypes, SetGlobalKill
  <1>4. AdminTypes'
    BY DEF AdminTypes, SetGlobalKill
  <1>5. OutputTypes'
    <2>1. (IF engaged THEN "KillEngaged" ELSE "KillReleased") \in {"KillEngaged", "KillReleased"}
      OBVIOUS
    <2> QED BY <2>1, PushStateType DEF SetGlobalKill
  <1> QED BY InvWhole, <1>2, <1>3, <1>4, <1>5

\* Enabling or disabling an account keeps the invariant.
LEMMA SetAccountEnabledInv ==
  ASSUME IInv, NEW a \in Accounts, NEW on \in BOOLEAN, SetAccountEnabled(a, on)
  PROVE  IInv'
  <1> /\ BookTypes /\ LedgerTypes /\ AdminTypes /\ RequestTypes
      /\ IdTypes /\ OutputTypes /\ MarketTypes /\ TakerTypes
    BY InvParts
  <1>1. UNCHANGED <<bookVars, ledgerVars, requestVars, idVars, taker>>
    BY DEF SetAccountEnabled
  <1>2. BookTypes' /\ LedgerTypes' /\ RequestTypes' /\ IdTypes' /\ TakerTypes'
    BY <1>1, BookFrame, LedgerFrame, RequestFrame, IdFrame, TakerFrame
  <1>3. MarketTypes'
    BY BeginType DEF MarketTypes, SetAccountEnabled
  <1>4. AdminTypes'
    BY DEF AdminTypes, SetAccountEnabled
  <1>5. OutputTypes'
    BY PushStateType DEF SetAccountEnabled
  <1> QED BY InvWhole, <1>2, <1>3, <1>4, <1>5

\* New limits keep the invariant.
LEMMA SetAccountLimitsInv ==
  ASSUME IInv, NEW a \in Accounts, NEW new \in AccountLimits, SetAccountLimits(a, new)
  PROVE  IInv'
  <1> /\ BookTypes /\ LedgerTypes /\ AdminTypes /\ RequestTypes
      /\ IdTypes /\ OutputTypes /\ MarketTypes /\ TakerTypes
    BY InvParts
  <1>1. UNCHANGED <<bookVars, ledgerVars, requestVars, idVars, taker>>
    BY DEF SetAccountLimits
  <1>2. BookTypes' /\ LedgerTypes' /\ RequestTypes' /\ IdTypes' /\ TakerTypes'
    BY <1>1, BookFrame, LedgerFrame, RequestFrame, IdFrame, TakerFrame
  <1>3. MarketTypes'
    BY BeginType DEF MarketTypes, SetAccountLimits
  <1>4. AdminTypes'
    BY DEF AdminTypes, SetAccountLimits
  <1>5. OutputTypes'
    BY PushStateType DEF SetAccountLimits
  <1> QED BY InvWhole, <1>2, <1>3, <1>4, <1>5

\* An input that names nothing known keeps the invariant.
LEMMA UnknownInv ==
  ASSUME IInv, ApplyUnknown
  PROVE  IInv'
  <1> /\ BookTypes /\ LedgerTypes /\ AdminTypes /\ RequestTypes
      /\ IdTypes /\ OutputTypes /\ MarketTypes /\ TakerTypes
    BY InvParts
  <1>1. UNCHANGED <<bookVars, ledgerVars, adminVars, requestVars, idVars, taker>>
    BY DEF ApplyUnknown
  <1>2. BookTypes' /\ LedgerTypes' /\ AdminTypes' /\ RequestTypes' /\ IdTypes' /\ TakerTypes'
    BY <1>1, BookFrame, LedgerFrame, AdminFrame, RequestFrame, IdFrame, TakerFrame
  <1>3. MarketTypes'
    BY BeginType DEF MarketTypes, ApplyUnknown
  <1>4. OutputTypes'
    BY PushStateType DEF ApplyUnknown
  <1> QED BY InvWhole, <1>2, <1>3, <1>4

\* Every control command keeps the invariant.
LEMMA ControlInv ==
  ASSUME IInv, NEW c \in Controls, ApplyControl(c)
  PROVE  IInv'
  <1>1. c \in ControlCommand
    BY InputAssumption
  <1>2. CASE c.command = "SetGlobalKill" /\ SetGlobalKill(c.engaged)
    <2>1. c.engaged \in BOOLEAN
      BY <1>1, <1>2 DEF ControlCommand
    <2> QED BY <1>2, <2>1, SetGlobalKillInv
  <1>3. CASE c.command = "SetAccountEnabled" /\ c.account \in Accounts
             /\ SetAccountEnabled(c.account, c.enabled)
    <2>1. c.enabled \in BOOLEAN
      BY <1>1, <1>3 DEF ControlCommand
    <2> QED BY <1>3, <2>1, SetAccountEnabledInv
  <1>4. CASE c.command = "SetAccountLimits" /\ c.account \in Accounts
             /\ SetAccountLimits(c.account, c.limits)
    <2>1. c.limits \in AccountLimits
      BY <1>1, <1>4 DEF ControlCommand
    <2> QED BY <1>4, <2>1, SetAccountLimitsInv
  <1>5. CASE ApplyUnknown
    BY <1>5, UnknownInv
  <1> QED BY <1>2, <1>3, <1>4, <1>5 DEF ApplyControl

\* The outcome of a cached request is a report.
LEMMA RetryOutcome ==
  ASSUME RequestTypes, NEW r \in Requests, r.account \in Accounts,
         Cache!IsRetry(cache[r.account], r.request_id, Fingerprint(r))
  PROVE  Cache!Entry(cache[r.account], r.request_id).outcome \in Reports
  <1>1. cache[r.account] \in Cache!RequestCaches
    BY DEF RequestTypes
  <1>2. Cache!Resolves(cache[r.account], r.request_id)
    BY DEF Cache!IsRetry
  <1>3. cache[r.account].index[r.request_id] \in Cache!Slots
    BY <1>1, <1>2 DEF Cache!RequestCaches, Cache!Resolves
  <1>4. Cache!Entry(cache[r.account], r.request_id) \in Cache!CachedRequest
    BY <1>1, <1>2, <1>3 DEF Cache!RequestCaches, Cache!Resolves, Cache!Entry
  <1> QED BY <1>4 DEF Cache!CachedRequest

\* Replaying a cached outcome keeps the invariant.
LEMMA RetryInv ==
  ASSUME IInv, NEW r \in Requests, ApplyRetry(r)
  PROVE  IInv'
  <1> /\ BookTypes /\ LedgerTypes /\ AdminTypes /\ RequestTypes
      /\ IdTypes /\ OutputTypes /\ MarketTypes /\ TakerTypes
    BY InvParts
  <1>1. UNCHANGED <<bookVars, ledgerVars, adminVars, requestVars, idVars, taker>>
    BY DEF ApplyRetry
  <1>2. BookTypes' /\ LedgerTypes' /\ AdminTypes' /\ RequestTypes' /\ IdTypes' /\ TakerTypes'
    BY <1>1, BookFrame, LedgerFrame, AdminFrame, RequestFrame, IdFrame, TakerFrame
  <1>3. MarketTypes'
    BY BeginType DEF MarketTypes, ApplyRetry
  <1>4. PICK outcome \in Reports : outcome = Cache!Entry(cache[r.account], r.request_id).outcome
    BY RetryOutcome DEF ApplyRetry
  <1>5. <<outcome>> \in Seq(Events) /\ <<>> \in Seq(Events)
    BY SMT DEF Events
  <1>6. OutputTypes'
    <2>1. out' \in Seq(Events) /\ output_seq' \in 0 .. MaxOutputSeq
      BY <1>4, <1>5, EmitType DEF ApplyRetry, OutputTypes
    <2>2. faults' \subseteq EngineFault
      BY FaultTypes DEF ApplyRetry, OutputTypes
    <2> QED BY <2>1, <2>2 DEF OutputTypes
  <1> QED BY InvWhole, <1>2, <1>3, <1>6

\* A request that is answered with a reject changes nothing else.
LEMMA RejectInv ==
  ASSUME IInv, NEW r \in Requests, NEW raised \in SUBSET EngineFault, BeginInput,
         Respond(r, RejectReport(r), <<>>, raised),
         UNCHANGED <<bookVars, ledgerVars, adminVars, idVars, market, taker>>
  PROVE  IInv'
  <1> /\ BookTypes /\ LedgerTypes /\ AdminTypes /\ RequestTypes
      /\ IdTypes /\ OutputTypes /\ MarketTypes /\ TakerTypes
    BY InvParts
  <1>1. BookTypes' /\ LedgerTypes' /\ AdminTypes' /\ IdTypes' /\ TakerTypes'
    BY BookFrame, LedgerFrame, AdminFrame, IdFrame, TakerFrame
  <1>2. MarketTypes'
    BY BeginType DEF MarketTypes
  <1>3. <<>> \in Seq(Events)
    BY SMT
  <1>4. OutputTypes' /\ RequestTypes'
    BY <1>3, RejectReportType, RespondType
  <1> QED BY InvWhole, <1>1, <1>2, <1>4

\* The three ways a request is rejected keep the invariant.
LEMMA RejectionsInv ==
  ASSUME IInv, NEW r \in Requests, NEW late,
         ApplyConflict(r) \/ ApplyReject(r, late) \/ HandleNewIdsExhausted(r, late)
  PROVE  IInv'
  <1>1. {} \in SUBSET EngineFault /\ {"SequenceExhausted"} \in SUBSET EngineFault
    BY DEF EngineFault
  <1>2. CASE ApplyConflict(r)
    BY <1>1, <1>2, RejectInv DEF ApplyConflict
  <1>3. CASE ApplyReject(r, late)
    BY <1>1, <1>3, RejectInv DEF ApplyReject
  <1>4. CASE HandleNewIdsExhausted(r, late)
    BY <1>1, <1>4, RejectInv DEF HandleNewIdsExhausted
  <1> QED BY <1>2, <1>3, <1>4

\* Both the price of a limit order and the protection price of a market order
\* are numbers.
LEMMA ExecutionLimitType ==
  ASSUME MarketTypes, NEW r \in Requests, r.instrument \in Instruments, NEW late,
         HasReference(r.instrument, late)
  PROVE  ExecutionLimit(r) \in Int
  <1>1. r.price \in Int
    BY RequestType DEF OrderRequest
  <1>2. market[r.instrument].reference \in Int
    BY DEF MarketTypes, MarketView, HasReference
  <1> QED BY <1>1, <1>2, NumberAssumption, SMT DEF ExecutionLimit, ProtectionPrice

\* handle_new starts an execution whose parts add up.
LEMMA HandleNewInv ==
  ASSUME IInv, NEW r \in Requests, NEW late, HandleNew(r, late)
  PROVE  IInv'
  <1> /\ BookTypes /\ LedgerTypes /\ AdminTypes /\ RequestTypes
      /\ IdTypes /\ OutputTypes /\ MarketTypes /\ TakerTypes
    BY InvParts
  <1>1. UNCHANGED <<bookVars, ledgerVars, adminVars, requestVars>>
    BY DEF HandleNew
  <1>2. BookTypes' /\ LedgerTypes' /\ AdminTypes' /\ RequestTypes'
    BY <1>1, BookFrame, LedgerFrame, AdminFrame, RequestFrame
  <1>3. MarketTypes' /\ IdTypes'
    BY BeginType, NumberAssumption, SMT DEF MarketTypes, IdTypes, HandleNew
  <1>4. OutputTypes'
    BY SMT DEF HandleNew, OutputTypes
  <1>5. TakerTypes'
    <2>1. /\ r.account \in Accounts /\ r.instrument \in Instruments
          /\ r.quantity \in Nat /\ r.client_order_id \in ClientOrderIds
      BY RequestType DEF HandleNew, CheckNewOrder, OrderRequest
    <2>2. ExecutionLimit(r) \in Int
      BY <2>1, ExecutionLimitType DEF HandleNew, CheckNewOrder
    <2>3. next_order_id + 1 \in OrderIds
      BY NumberAssumption, SMT DEF HandleNew, IdTypes, OrderIds
    <2>4. r.type = "Limit" => ExecutionLimit(r) = r.price
      BY DEF ExecutionLimit
    <2>5. taker' = Taker(r, next_order_id + 1, ExecutionLimit(r), r.quantity, 0,
                         r.client_order_id)
      BY DEF HandleNew
    <2> QED BY <2>1, <2>2, <2>3, <2>4, <2>5, SMT DEF Taker, Taking, TakerTypes
  <1> QED BY InvWhole, <1>2, <1>3, <1>4, <1>5

\* handle_cancel releases a reservation and reports.
LEMMA HandleCancelInv ==
  ASSUME IInv, NEW r \in Requests, HandleCancel(r)
  PROVE  IInv'
  <1> /\ BookTypes /\ LedgerTypes /\ AdminTypes /\ RequestTypes
      /\ IdTypes /\ OutputTypes /\ MarketTypes /\ TakerTypes
    BY InvParts
  <1> DEFINE id == Target(r)
             live == live_orders[id]
             node == orders[id]
  <1>1. UNCHANGED <<position, adminVars, idVars, market, taker>>
    BY DEF HandleCancel
  <1>2. AdminTypes' /\ IdTypes' /\ TakerTypes'
    BY <1>1, AdminFrame, IdFrame, TakerFrame
  <1>3. MarketTypes'
    BY BeginType DEF MarketTypes, HandleCancel
  <1>4. r.account \in Accounts /\ r.target \in ClientOrderIds
    BY RequestType DEF HandleCancel, CheckCancel, OrderRequest
  <1>5. id \in OrderIds /\ node # NoOrder
    BY DEF HandleCancel, InBook
  <1>6. live \in LiveOrder
    BY <1>5 DEF HandleCancel, CheckCancel, BookTypes
  <1>7. /\ node \in OrderNode
        /\ Remaining(node) \in Nat
    BY <1>5, RestingNode
  <1>8. BookTypes'
    BY <1>4, <1>5, RemoveOrderType DEF HandleCancel
  <1>9. LedgerTypes'
    <2>1. live.account \in Accounts /\ live.instrument \in Instruments
      BY <1>6 DEF LiveOrder
    <2>2. node.side \in Sides /\ node.price \in Int
      BY <1>7 DEF OrderNode
    <2>3. ReleaseReservation(live.account, live.instrument, node.side, Remaining(node),
                             node.price)
      BY DEF HandleCancel
    <2>4. /\ open_lots' \in [Accounts \X Instruments \X Sides -> 0 .. MaxU64]
          /\ open_notional' \in [Accounts \X Instruments \X Sides -> Nat]
      BY <1>7, <2>1, <2>2, <2>3, ReleaseType
    <2> QED BY <1>1, <2>4 DEF LedgerTypes
  <1>10. OutputTypes' /\ RequestTypes'
    <2> DEFINE report == Report(r, "Cancelled", id, node.client_order_id, node.total,
                                node.cumulative, 0)
               raised == ReleaseFault(live.account, live.instrument, node.side,
                                      Remaining(node), node.price)
    <2>1. /\ node.client_order_id \in ClientOrderIds
          /\ node.total \in Nat /\ node.cumulative \in Nat
      BY <1>7 DEF OrderNode
    <2>2. id \in 0 .. MaxOrderId /\ "Cancelled" \in ReportKinds /\ 0 \in Nat
      BY <1>5, SMT DEF OrderIds, ReportKinds
    <2>3. report \in Reports
      BY <2>1, <2>2, ReportType
    <2>4. raised \in SUBSET EngineFault
      BY FaultTypes
    <2>5. <<>> \in Seq(Events)
      BY SMT
    <2>6. Respond(r, report, <<>>, raised)
      BY DEF HandleCancel
    <2> HIDE DEF report, raised
    <2> QED BY <2>3, <2>4, <2>5, <2>6, RespondType
  <1> QED BY InvWhole, <1>2, <1>3, <1>8, <1>9, <1>10

\* What check_replace_order establishes of the order it replaces.
LEMMA ReplaceTarget ==
  ASSUME IInv, NEW r \in Requests, NEW late, CheckReplace(r, late)
  PROVE  /\ r.account \in Accounts /\ r.instrument \in Instruments
         /\ r.quantity \in Nat /\ r.price \in Int /\ r.side \in Sides /\ r.type = "Limit"
         /\ Target(r) \in OrderIds
         /\ orders[Target(r)] \in OrderNode /\ orders[Target(r)] # NoOrder
         /\ orders[Target(r)].instrument = r.instrument
         /\ orders[Target(r)].side = r.side
         /\ orders[Target(r)].cumulative <= r.quantity
         /\ Remaining(orders[Target(r)]) \in Nat
  <1>1. r \in OrderRequest
    BY RequestType
  <1>2. Target(r) \in OrderIds /\ orders[Target(r)] # NoOrder
        /\ orders[Target(r)].instrument = r.instrument
    BY DEF CheckReplace, InBook
  <1>3. orders[Target(r)] \in OrderNode /\ Remaining(orders[Target(r)]) \in Nat
    BY <1>2, RestingNode DEF IInv
  <1>4. orders[Target(r)].cumulative \in Nat
    BY <1>3 DEF OrderNode
  <1> QED BY <1>1, <1>2, <1>3, <1>4 DEF CheckReplace, OrderRequest

\* A reservation is released and only the position stays as it was.
LEMMA ReleaseLedger ==
  ASSUME LedgerTypes, NEW a \in Accounts, NEW i \in Instruments, NEW side \in Sides,
         NEW lots \in Nat, NEW price \in Int, ReleaseReservation(a, i, side, lots, price),
         UNCHANGED position
  PROVE  LedgerTypes'
  BY ReleaseType DEF LedgerTypes

\* A replace that keeps its place leaves quantity to fill, or removes the order.
LEMMA HandleReplaceInPlaceInv ==
  ASSUME IInv, NEW r \in Requests, NEW late, HandleReplaceInPlace(r, late)
  PROVE  IInv'
  <1> /\ BookTypes /\ LedgerTypes /\ AdminTypes /\ RequestTypes
      /\ IdTypes /\ OutputTypes /\ MarketTypes /\ TakerTypes
    BY InvParts
  <1> DEFINE id == Target(r)
             existing == orders[id]
             released == existing.total - r.quantity
             raised == ReleaseFault(r.account, r.instrument, existing.side, released,
                                    existing.price)
             left == r.quantity - existing.cumulative
  <1>1. UNCHANGED <<position, adminVars, idVars, market, taker>>
    BY DEF HandleReplaceInPlace
  <1>2. AdminTypes' /\ IdTypes' /\ TakerTypes'
    BY <1>1, AdminFrame, IdFrame, TakerFrame
  <1>3. MarketTypes'
    BY BeginType DEF MarketTypes, HandleReplaceInPlace
  <1>4. /\ r.account \in Accounts /\ r.instrument \in Instruments
        /\ r.quantity \in Nat /\ id \in OrderIds
        /\ existing \in OrderNode /\ existing # NoOrder /\ existing.cumulative <= r.quantity
    BY ReplaceTarget DEF HandleReplaceInPlace
  <1>5. /\ existing.side \in Sides /\ existing.price \in Int /\ existing.total \in Nat
        /\ existing.cumulative \in Nat /\ existing.client_order_id \in ClientOrderIds
    BY <1>4 DEF OrderNode
  <1>6. released \in Nat
    BY <1>4, <1>5, SMT DEF HandleReplaceInPlace, ReplaceKeepsPriority
  <1>7. LedgerTypes'
    BY <1>1, <1>4, <1>5, <1>6, ReleaseLedger DEF HandleReplaceInPlace
  <1>8. raised \in SUBSET EngineFault /\ <<>> \in Seq(Events)
    BY FaultTypes, SMT
  <1>9. id \in 0 .. MaxOrderId /\ {"Cancelled", "Replaced"} \subseteq ReportKinds
    BY <1>4, SMT DEF OrderIds, ReportKinds
  <1>10. CASE r.quantity = existing.cumulative
    <2> DEFINE report == Report(r, "Cancelled", id, existing.client_order_id, r.quantity,
                                existing.cumulative, 0)
    <2>1. RemoveOrder(id, r.account, existing.client_order_id)
      BY <1>10 DEF HandleReplaceInPlace
    <2>2. BookTypes'
      BY <1>4, <1>5, <2>1, RemoveOrderType
    <2>3. report \in Reports
      BY <1>4, <1>5, <1>9, ReportType
    <2>4. Respond(r, report, <<>>, raised)
      BY <1>10 DEF HandleReplaceInPlace
    <2> HIDE DEF report, raised
    <2>5. OutputTypes' /\ RequestTypes'
      BY <1>8, <2>3, <2>4, RespondType
    <2> QED BY InvWhole, <1>2, <1>3, <1>7, <2>2, <2>5
  <1>11. CASE r.quantity # existing.cumulative
    <2> DEFINE report == Report(r, "Replaced", id, existing.client_order_id, r.quantity,
                                existing.cumulative, left)
    <2>1. /\ orders' = [orders EXCEPT ![id].total = r.quantity]
          /\ UNCHANGED <<live_orders, client_orders>>
      BY <1>11 DEF HandleReplaceInPlace
    <2>2. BookTypes'
      <3>1. [existing EXCEPT !.total = r.quantity] \in OrderNode
        BY <1>4 DEF OrderNode
      <3>2. existing.cumulative < r.quantity
        BY <1>4, <1>5, <1>11, SMT
      <3>3. orders' = [orders EXCEPT ![id] = [existing EXCEPT !.total = r.quantity]]
        BY <2>1
      <3> QED BY <1>4, <2>1, <3>1, <3>2, <3>3, AbsentAssumption DEF BookTypes, OrderNode
    <2>3. left \in Nat
      BY <1>4, <1>5, SMT
    <2>4. report \in Reports
      BY <1>4, <1>5, <1>9, <2>3, ReportType
    <2>5. Respond(r, report, <<>>, raised)
      BY <1>11 DEF HandleReplaceInPlace
    <2> HIDE DEF report, raised
    <2>6. OutputTypes' /\ RequestTypes'
      BY <1>8, <2>4, <2>5, RespondType
    <2> QED BY InvWhole, <1>2, <1>3, <1>7, <2>2, <2>6
  <1> QED BY InvWhole, <1>10, <1>11

\* A replace that loses its place starts an execution whose parts add up.
LEMMA HandleReplaceRequeueInv ==
  ASSUME IInv, NEW r \in Requests, NEW late, HandleReplaceRequeue(r, late)
  PROVE  IInv'
  <1> /\ BookTypes /\ LedgerTypes /\ AdminTypes /\ RequestTypes
      /\ IdTypes /\ OutputTypes /\ MarketTypes /\ TakerTypes
    BY InvParts
  <1> DEFINE id == Target(r)
             existing == orders[id]
             raised == ReleaseFault(r.account, r.instrument, existing.side, Remaining(existing),
                                    existing.price)
  <1>1. UNCHANGED <<position, adminVars, idVars, market>>
    BY DEF HandleReplaceRequeue
  <1>2. AdminTypes' /\ IdTypes'
    BY <1>1, AdminFrame, IdFrame
  <1>3. MarketTypes'
    BY BeginType DEF MarketTypes, HandleReplaceRequeue
  <1>4. /\ r.account \in Accounts /\ r.instrument \in Instruments
        /\ r.quantity \in Nat /\ r.price \in Int /\ id \in OrderIds
        /\ existing \in OrderNode /\ existing # NoOrder /\ existing.cumulative <= r.quantity
        /\ Remaining(existing) \in Nat
    BY ReplaceTarget DEF HandleReplaceRequeue
  <1>5. /\ existing.side \in Sides /\ existing.price \in Int /\ existing.total \in Nat
        /\ existing.cumulative \in Nat /\ existing.client_order_id \in ClientOrderIds
    BY <1>4 DEF OrderNode
  <1>6. BookTypes'
    BY <1>4, <1>5, RemoveOrderType DEF HandleReplaceRequeue
  <1>7. LedgerTypes'
    BY <1>1, <1>4, <1>5, ReleaseLedger DEF HandleReplaceRequeue
  <1>8. raised \in SUBSET EngineFault /\ <<>> \in Seq(Events)
    BY FaultTypes, SMT
  <1>9. id \in 0 .. MaxOrderId /\ "Cancelled" \in ReportKinds
    BY <1>4, SMT DEF OrderIds, ReportKinds
  <1>10. CASE r.quantity = existing.cumulative
    <2> DEFINE report == Report(r, "Cancelled", id, existing.client_order_id, r.quantity,
                                existing.cumulative, 0)
    <2>1. report \in Reports
      BY <1>4, <1>5, <1>9, ReportType
    <2>2. Respond(r, report, <<>>, raised) /\ UNCHANGED taker
      BY <1>10 DEF HandleReplaceRequeue
    <2> HIDE DEF report, raised
    <2>3. OutputTypes' /\ RequestTypes'
      BY <1>8, <2>1, <2>2, RespondType
    <2>4. TakerTypes'
      BY <2>2, TakerFrame
    <2> QED BY InvWhole, <1>2, <1>3, <1>6, <1>7, <2>3, <2>4
  <1>11. CASE r.quantity # existing.cumulative
    <2>1. /\ taker' = Taker(r, id, r.price, r.quantity - existing.cumulative,
                            existing.cumulative, existing.client_order_id)
          /\ out' = <<>> /\ faults' = faults \cup raised
          /\ UNCHANGED <<output_seq, requestVars>>
      BY <1>11 DEF HandleReplaceRequeue
    <2>2. RequestTypes'
      BY <2>1, RequestFrame
    <2>3. OutputTypes'
      BY <1>8, <2>1 DEF OutputTypes
    <2>4. r.quantity - existing.cumulative \in Nat
      BY <1>4, <1>5, SMT
    <2>5. TakerTypes'
      <3> HIDE DEF existing, id
      <3> QED BY <1>4, <1>5, <2>1, <2>4, SMT DEF Taker, Taking, TakerTypes
    <2> QED BY InvWhole, <1>2, <1>3, <1>6, <1>7, <2>2, <2>3, <2>5
  <1> QED BY InvWhole, <1>10, <1>11

-----------------------------------------------------------------------------
(* Every step of execute keeps the invariant.                              *)

\* The order being executed, with the types its steps rely on.
LEMMA TakerFacts ==
  ASSUME TakerTypes, taker # NoTaker
  PROVE  /\ taker \in Taking /\ taker.request \in Requests /\ taker.request \in OrderRequest
         /\ taker.request.account \in Accounts /\ taker.request.instrument \in Instruments
         /\ taker.order \in OrderIds /\ taker.order \in 0 .. MaxOrderId
         /\ taker.quantity \in Nat /\ taker.filled \in Nat /\ taker.prior \in Nat
         /\ taker.client \in ClientOrderIds
         /\ TakerSide \in Sides /\ TakerInstrument \in Instruments
         /\ taker.request.quantity \in Nat
         /\ TakerCumulative \in Nat /\ TakerCumulative <= taker.request.quantity
  <1>1. taker \in Taking
    BY DEF TakerTypes
  <1>2. taker.request \in Requests /\ taker.request \in OrderRequest
    BY <1>1, RequestType DEF Taking
  <1>3. /\ taker.order \in OrderIds /\ taker.quantity \in Nat /\ taker.filled \in Nat
        /\ taker.prior \in Nat /\ taker.client \in ClientOrderIds
    BY <1>1 DEF Taking
  <1>4. taker.order \in 0 .. MaxOrderId
    BY <1>3, SMT DEF OrderIds
  <1> QED BY <1>1, <1>2, <1>3, <1>4, SMT DEF TakerTypes, TakerSide, TakerInstrument,
                                       TakerCumulative, OrderRequest

\* A fill takes at least one lot, and no more than either order has left.
LEMMA FillLotsBounds ==
  ASSUME BookTypes, TakerTypes, Matching, NEW id \in Makers
  PROVE  /\ id \in OrderIds /\ orders[id] \in OrderNode /\ orders[id] # NoOrder
         /\ orders[id].instrument = TakerInstrument
         /\ orders[id].side = Opposite(TakerSide) /\ orders[id].side \in Sides
         /\ orders[id].total \in Nat /\ orders[id].cumulative \in Nat
         /\ Remaining(orders[id]) = orders[id].total - orders[id].cumulative
         /\ FillLots(orders[id]) \in Nat /\ FillLots(orders[id]) >= 1
         /\ FillLots(orders[id]) <= orders[id].total - orders[id].cumulative
         /\ taker.filled + FillLots(orders[id]) <= taker.quantity
  <1>1. id \in OrderIds /\ orders[id] # NoOrder /\ orders[id].instrument = TakerInstrument
        /\ orders[id].side = Opposite(TakerSide)
    BY DEF Makers, Eligible, Resting
  <1>2. orders[id] \in OrderNode
    BY <1>1, RestingNode
  <1>3. /\ orders[id].total \in Nat /\ orders[id].cumulative \in Nat /\ orders[id].side \in Sides
        /\ orders[id].cumulative < orders[id].total
    BY <1>1, <1>2 DEF OrderNode, BookTypes
  <1>4. taker.quantity \in Nat /\ taker.filled \in Nat /\ taker.filled < taker.quantity
    BY TakerFacts DEF Matching
  <1> QED BY <1>1, <1>2, <1>3, <1>4, SMT DEF FillLots, Least, Remaining

\* Counting a fill keeps the order being executed well typed.
LEMMA TakerFillType ==
  ASSUME TakerTypes, taker # NoTaker, NEW lots \in Nat, NEW settling \in BOOLEAN,
         taker.filled + lots <= taker.quantity,
         taker' = [taker EXCEPT !.filled = taker.filled + lots, !.settling = settling]
  PROVE  TakerTypes'
  <1>1. taker \in Taking
    BY DEF TakerTypes
  <1>2. PICK n \in Nat : n = taker.filled + lots
    BY <1>1, SMT DEF Taking
  <1>3. [taker EXCEPT !.filled = n, !.settling = settling] \in Taking
    BY ONLY <1>1, n \in Nat, settling \in BOOLEAN, ZenonT(20) DEF Taking
  <1>4. taker' \in Taking
    BY <1>2, <1>3
  <1>5. /\ taker'.request = taker.request /\ taker'.quantity = taker.quantity
        /\ taker'.prior = taker.prior /\ taker'.limit = taker.limit
        /\ taker'.filled = taker.filled + lots
    BY <1>1 DEF Taking
  <1> QED BY <1>4, <1>5 DEF TakerTypes

\* fill_maker keeps the book well typed.
LEMMA FillMakerType ==
  ASSUME BookTypes, TakerTypes, Matching, NEW id \in Makers, FillMaker(id, FillLots(orders[id]))
  PROVE  /\ orders' \in [OrderIds -> OrderNode \cup {NoOrder}]
         /\ \A k \in OrderIds : orders'[k] # NoOrder => orders'[k].cumulative < orders'[k].total
  <1>1. PICK lots \in Nat : lots = FillLots(orders[id])
    BY FillLotsBounds
  <1>2. /\ id \in OrderIds /\ orders[id] \in OrderNode /\ orders[id] # NoOrder
        /\ lots <= orders[id].total - orders[id].cumulative
        /\ orders[id].total \in Nat /\ orders[id].cumulative \in Nat
    BY <1>1, FillLotsBounds
  <1> DEFINE filled == [orders[id] EXCEPT !.cumulative = @ + lots]
  <1>3. filled \in OrderNode /\ filled.cumulative = orders[id].cumulative + lots
        /\ filled.total = orders[id].total
    BY <1>1, <1>2, SMT DEF OrderNode
  <1>4. CASE Remaining(orders[id]) = lots
    <2>1. orders' = [orders EXCEPT ![id] = NoOrder]
      BY <1>1, <1>4 DEF FillMaker
    <2> QED BY <2>1 DEF BookTypes
  <1>5. CASE Remaining(orders[id]) # lots
    <2>1. orders' = [orders EXCEPT ![id] = filled]
      BY <1>1, <1>5 DEF FillMaker
    <2>2. filled.cumulative < filled.total
      BY <1>2, <1>3, <1>5, SMT DEF Remaining
    <2> QED BY <1>2, <1>3, <2>1, <2>2 DEF BookTypes
  <1> QED BY <1>4, <1>5

\* The three events of a fill: trade, maker report, taker report.
LEMMA FillReportsType ==
  ASSUME IInv, Matching, NEW id \in Makers, next_trade_id < MaxTradeId
  PROVE  FillReports(id, orders[id], FillLots(orders[id])) \in Seq(Events)
  <1> /\ BookTypes /\ LedgerTypes /\ AdminTypes /\ RequestTypes
      /\ IdTypes /\ OutputTypes /\ MarketTypes /\ TakerTypes
    BY InvParts
  <1> DEFINE maker == orders[id]
             r == taker.request
  <1>1. PICK lots \in Nat : lots = FillLots(orders[id])
    BY FillLotsBounds
  <1>2. /\ id \in OrderIds /\ maker \in OrderNode /\ maker.total \in Nat
        /\ maker.cumulative \in Nat /\ Remaining(maker) - lots \in Nat
        /\ taker.filled + lots <= taker.quantity
    BY <1>1, FillLotsBounds, SMT DEF Remaining
  <1>3. /\ r \in Requests /\ r \in OrderRequest /\ taker.order \in OrderIds
        /\ taker.order \in 0 .. MaxOrderId /\ taker.quantity \in Nat /\ taker.filled \in Nat
    BY TakerFacts DEF Matching
  <1>4. /\ maker.price \in Int /\ maker.client_order_id \in ClientOrderIds
        /\ maker.account \in AccountIds /\ id \in 0 .. MaxOrderId
    BY <1>2, ConfigAssumption, SMT DEF OrderNode, OrderIds
  <1>5. Trade(next_trade_id + 1, id, taker.order, maker.price, lots) \in Trades
    BY <1>2, <1>3, <1>4, NumberAssumption, SMT DEF Trade, Trades, IdTypes
  <1>6. \A c \in BOOLEAN : (IF c THEN "Filled" ELSE "PartiallyFilled") \in ReportKinds
    BY DEF ReportKinds
  <1> DEFINE left == Remaining(maker) - lots
             cum == taker.filled + lots
             of == Report(r, IF left = 0 THEN "Filled" ELSE "PartiallyFilled", id,
                          maker.client_order_id, maker.total, maker.cumulative + lots, left)
             own == Report(r, IF cum = taker.quantity THEN "Filled" ELSE "PartiallyFilled",
                           taker.order, r.client_order_id, r.quantity, cum,
                           taker.quantity - cum)
  <1>7. of \in Reports
    <2>1. maker.cumulative + lots \in Nat
      BY <1>2, SMT
    <2>2. (IF left = 0 THEN "Filled" ELSE "PartiallyFilled") \in ReportKinds
      BY <1>6
    <2>3. left \in Nat
      BY <1>2
    <2> HIDE DEF left
    <2> QED BY <1>2, <1>3, <1>4, <2>1, <2>2, <2>3, ReportType
  <1>8. own \in Reports
    <2>1. cum \in Nat /\ taker.quantity - cum \in Nat
      BY <1>2, <1>3, SMT
    <2>2. (IF cum = taker.quantity THEN "Filled" ELSE "PartiallyFilled") \in ReportKinds
      BY <1>6
    <2>3. r.client_order_id \in ClientOrderIds /\ r.quantity \in Nat
      BY <1>3 DEF OrderRequest
    <2> HIDE DEF cum
    <2> QED BY <1>3, <2>1, <2>2, <2>3, ReportType
  <1>9. [of EXCEPT !.account = maker.account, !.request = 0] \in Reports
    <2> HIDE DEF of
    <2> QED BY <1>4, <1>7 DEF Reports
  <1>10. FillReports(id, maker, lots) =
           <<Trade(next_trade_id + 1, id, taker.order, maker.price, lots),
             [of EXCEPT !.account = maker.account, !.request = 0], own>>
    BY DEF FillReports
  <1> HIDE DEF of, own
  <1> QED BY InvWhole, <1>1, <1>5, <1>8, <1>9, <1>10, SMT DEF Events

\* A settled fill keeps the invariant.
LEMMA FillInv ==
  ASSUME IInv, Fill
  PROVE  IInv'
  <1> /\ BookTypes /\ LedgerTypes /\ AdminTypes /\ RequestTypes
      /\ IdTypes /\ OutputTypes /\ MarketTypes /\ TakerTypes
    BY InvParts
  <1>1. UNCHANGED <<adminVars, requestVars, next_order_id, next_priority, market, engine_seq>>
    BY DEF Fill
  <1>2. AdminTypes' /\ RequestTypes' /\ MarketTypes'
    BY <1>1, AdminFrame, RequestFrame DEF MarketTypes
  <1>3. Matching /\ taker # NoTaker /\ next_trade_id < MaxTradeId
        /\ next_trade_id' = next_trade_id + 1
    BY DEF Fill, Matching
  <1>4. IdTypes'
    BY <1>1, <1>3, NumberAssumption, SMT DEF IdTypes
  <1>5. PICK id \in Makers : LET
           maker  == orders[id]
           lots   == FillLots(maker)
           a      == taker.request.account
           i      == TakerInstrument
           settled == ApplyFillToPosition(position, maker.account, i, maker.side, lots)
           events == FillReports(id, maker, lots)
       IN  /\ FillMaker(id, lots)
           /\ ReleaseReservation(maker.account, i, maker.side, lots, maker.price)
           /\ position' = ApplyFillToPosition(settled, a, i, TakerSide, lots)
           /\ Emit(out, events)
           /\ faults' = faults \cup OutputExhausted(3)
                          \cup ReleaseFault(maker.account, i, maker.side, lots, maker.price)
                          \cup FillFault(position, maker.account, i, maker.side, lots)
                          \cup FillFault(settled, a, i, TakerSide, lots)
           /\ IF Remaining(maker) = lots
              THEN /\ live_orders' = [live_orders EXCEPT ![id] = NoOrder]
                   /\ client_orders' =
                        [client_orders EXCEPT ![<<maker.account, maker.client_order_id>>] = NoId]
              ELSE UNCHANGED <<live_orders, client_orders>>
           /\ taker' = [taker EXCEPT !.filled = @ + lots]
    BY DEF Fill
  <1> DEFINE maker == orders[id]
  <1>6. PICK lots \in Nat : lots = FillLots(maker)
    BY <1>3, FillLotsBounds
  <1>7. /\ id \in OrderIds /\ maker \in OrderNode /\ maker.side \in Sides
        /\ taker.filled + lots <= taker.quantity
    BY <1>3, <1>6, FillLotsBounds
  <1>8. maker.account \in Accounts /\ maker.price \in Int
        /\ maker.client_order_id \in ClientOrderIds
    BY <1>7 DEF OrderNode
  <1>9. /\ taker \in Taking /\ taker.request.account \in Accounts
        /\ TakerInstrument \in Instruments /\ TakerSide \in Sides /\ taker.filled \in Nat
    BY <1>3, TakerFacts
  <1>10. BookTypes'
    <2>1. /\ orders' \in [OrderIds -> OrderNode \cup {NoOrder}]
          /\ \A k \in OrderIds : orders'[k] # NoOrder => orders'[k].cumulative < orders'[k].total
      BY <1>3, <1>5, FillMakerType
    <2>2. /\ live_orders' \in [OrderIds -> LiveOrder \cup {NoOrder}]
          /\ client_orders' \in [Accounts \X ClientOrderIds -> 0 .. MaxOrderId]
      BY <1>5, <1>7, <1>8, NumberAssumption, SMT DEF BookTypes, NoId
    <2> QED BY <2>1, <2>2 DEF BookTypes
  <1>11. LedgerTypes'
    <2>1. /\ open_lots' \in [Accounts \X Instruments \X Sides -> 0 .. MaxU64]
          /\ open_notional' \in [Accounts \X Instruments \X Sides -> Nat]
      BY <1>5, <1>6, <1>7, <1>8, <1>9, ReleaseType
    <2>2. PICK settled \in [Accounts \X Instruments -> I64] :
             settled = ApplyFillToPosition(position, maker.account, TakerInstrument,
                                           maker.side, lots)
      BY <1>7, <1>8, <1>9, FillPositionType DEF LedgerTypes
    <2>3. position' = ApplyFillToPosition(settled, taker.request.account, TakerInstrument,
                                          TakerSide, lots)
      BY <1>5, <1>6, <2>2
    <2>4. position' \in [Accounts \X Instruments -> I64]
      BY <1>9, <2>2, <2>3, FillPositionType
    <2> QED BY <2>1, <2>4 DEF LedgerTypes
  <1>12. OutputTypes'
    <2>1. FillReports(id, maker, FillLots(maker)) \in Seq(Events)
      BY <1>3, FillReportsType
    <2>2. out' \in Seq(Events) /\ output_seq' \in 0 .. MaxOutputSeq
      BY <1>5, <2>1, EmitType DEF OutputTypes
    <2>3. faults' \subseteq EngineFault
      BY <1>5, FaultTypes DEF OutputTypes
    <2> QED BY <2>2, <2>3 DEF OutputTypes
  <1>13. TakerTypes'
    <2>1. taker' = [taker EXCEPT !.filled = taker.filled + lots, !.settling = taker.settling]
          /\ taker.settling \in BOOLEAN
      BY <1>5, <1>6, <1>9 DEF Taking
    <2> QED BY <1>3, <1>7, <1>9, <2>1, TakerFillType
  <1> QED BY InvWhole, <1>2, <1>4, <1>10, <1>11, <1>12, <1>13

\* A fill after the trade ids ran out keeps the invariant.
LEMMA FillUnsettledInv ==
  ASSUME IInv, FillUnsettled
  PROVE  IInv'
  <1> /\ BookTypes /\ LedgerTypes /\ AdminTypes /\ RequestTypes
      /\ IdTypes /\ OutputTypes /\ MarketTypes /\ TakerTypes
    BY InvParts
  <1>1. UNCHANGED <<live_orders, client_orders, ledgerVars, adminVars, requestVars, idVars,
                    output_seq, out, market, engine_seq>>
    BY DEF FillUnsettled
  <1>2. LedgerTypes' /\ AdminTypes' /\ RequestTypes' /\ IdTypes' /\ MarketTypes'
    BY <1>1, LedgerFrame, AdminFrame, RequestFrame, IdFrame DEF MarketTypes
  <1>3. OutputTypes'
    BY <1>1 DEF OutputTypes, FillUnsettled, EngineFault
  <1>4. Matching /\ taker # NoTaker
    BY DEF FillUnsettled, Matching
  <1>5. PICK id \in Makers :
           /\ FillMaker(id, FillLots(orders[id]))
           /\ taker' = [taker EXCEPT !.filled = @ + FillLots(orders[id]), !.settling = FALSE]
    BY DEF FillUnsettled
  <1>6. BookTypes'
    BY <1>1, <1>4, <1>5, FillMakerType DEF BookTypes
  <1>7. PICK lots \in Nat : lots = FillLots(orders[id])
    BY <1>4, FillLotsBounds
  <1>8. taker.filled + lots <= taker.quantity /\ taker \in Taking /\ taker.filled \in Nat
    BY <1>4, <1>7, FillLotsBounds, TakerFacts
  <1>9. taker' = [taker EXCEPT !.filled = taker.filled + lots, !.settling = FALSE]
    BY <1>5, <1>7
  <1>10. TakerTypes'
    <2>1. FALSE \in BOOLEAN
      OBVIOUS
    <2> QED BY <1>4, <1>8, <1>9, <2>1, TakerFillType
  <1> QED BY InvWhole, <1>2, <1>3, <1>6, <1>10

\* An execution that leaves nothing to rest keeps the invariant.
LEMMA FinishWithoutRestInv ==
  ASSUME IInv, FinishFilled \/ FinishMarketOrder
  PROVE  IInv'
  <1> /\ BookTypes /\ LedgerTypes /\ AdminTypes /\ RequestTypes
      /\ IdTypes /\ OutputTypes /\ MarketTypes /\ TakerTypes
    BY InvParts
  <1>1. UNCHANGED <<bookVars, ledgerVars, adminVars, idVars, market, engine_seq>>
        /\ taker' = NoTaker /\ taker # NoTaker
    BY DEF FinishFilled, FinishMarketOrder, Matched
  <1>2. BookTypes' /\ LedgerTypes' /\ AdminTypes' /\ IdTypes' /\ MarketTypes'
    BY <1>1, BookFrame, LedgerFrame, AdminFrame, IdFrame DEF MarketTypes
  <1>3. TakerTypes'
    BY <1>1 DEF TakerTypes
  <1>4. PICK kind \in ReportKinds :
          Respond(taker.request, Report(taker.request, kind, taker.order, taker.client,
                                        taker.request.quantity, TakerCumulative, 0), out, {})
    BY DEF FinishFilled, FinishMarketOrder, ReportKinds
  <1> DEFINE report == Report(taker.request, kind, taker.order, taker.client,
                              taker.request.quantity, TakerCumulative, 0)
  <1>5. report \in Reports
    BY <1>1, TakerFacts, ReportType
  <1>6. {} \in SUBSET EngineFault /\ out \in Seq(Events) /\ taker.request \in Requests
    BY <1>1, TakerFacts DEF OutputTypes
  <1> HIDE DEF report
  <1>7. Respond(taker.request, report, out, {})
    BY <1>4 DEF report
  <1>8. OutputTypes' /\ RequestTypes'
    BY <1>5, <1>6, <1>7, RespondType
  <1> QED BY InvWhole, <1>2, <1>3, <1>8

\* Resting the remainder, or failing to, keeps the invariant.
LEMMA FinishRestInv ==
  ASSUME IInv, FinishRest
  PROVE  IInv'
  <1> /\ BookTypes /\ LedgerTypes /\ AdminTypes /\ RequestTypes
      /\ IdTypes /\ OutputTypes /\ MarketTypes /\ TakerTypes
    BY InvParts
  <1> DEFINE r == taker.request
             raised(n) == Raised(next_priority = MaxPriority, "SequenceExhausted")
                            \cup (IF Inserts(r, n)
                                  THEN ReserveFault(r.account, r.instrument, r.side, n) ELSE {})
             done(kind, n) == Report(r, kind, taker.order, taker.client, r.quantity,
                                     TakerCumulative, n)
  <1>1. UNCHANGED <<position, adminVars, next_order_id, next_trade_id, market, engine_seq>>
        /\ taker' = NoTaker /\ taker # NoTaker
    BY DEF FinishRest, Matched
  <1>2. AdminTypes' /\ MarketTypes' /\ TakerTypes'
    BY <1>1, AdminFrame DEF MarketTypes, TakerTypes
  <1>3. /\ r \in Requests /\ r \in OrderRequest /\ r.account \in Accounts
        /\ r.instrument \in Instruments /\ r.quantity \in Nat
        /\ taker.order \in OrderIds /\ taker.order \in 0 .. MaxOrderId
        /\ taker.client \in ClientOrderIds
        /\ TakerCumulative \in Nat /\ TakerCumulative <= r.quantity
    BY <1>1, TakerFacts
  <1>4. r.side \in Sides /\ r.price \in Int
    BY <1>3 DEF OrderRequest
  <1>5. PICK lots \in Nat : lots = r.quantity - TakerCumulative
    BY <1>3, SMT
  <1>6. TakerCumulative < r.quantity
    BY <1>3, SMT DEF FinishRest
  <1>7. RestOrder(r, lots)
    BY <1>5 DEF FinishRest
  <1>8. IdTypes'
    BY <1>1, <1>7, NumberAssumption, SMT DEF RestOrder, IdTypes, Least
  <1>9. BookTypes' /\ LedgerTypes'
    <2>1. CASE Inserts(r, lots)
      <3> DEFINE node == [account |-> r.account, instrument |-> r.instrument,
                          client_order_id |-> taker.client, side |-> r.side, price |-> r.price,
                          total |-> r.quantity, cumulative |-> TakerCumulative,
                          priority |-> next_priority + 1]
                 live == [account |-> r.account, instrument |-> r.instrument]
      <3>1. /\ orders' = [orders EXCEPT ![taker.order] = node]
            /\ live_orders' = [live_orders EXCEPT ![taker.order] = live]
            /\ client_orders' = [client_orders EXCEPT ![<<r.account, taker.client>>] = taker.order]
            /\ Reserve(r.account, r.instrument, r.side, lots, r.price)
        BY <1>7, <2>1 DEF RestOrder
      <3>2. next_priority + 1 \in 1 .. MaxPriority
        BY <2>1, NumberAssumption, SMT DEF Inserts, IdTypes
      <3>3. node \in OrderNode /\ node.cumulative < node.total
        BY <1>3, <1>4, <1>6, <3>2 DEF OrderNode
      <3>4. live \in LiveOrder
        BY <1>3 DEF LiveOrder
      <3> HIDE DEF node, live
      <3>5. BookTypes'
        BY <1>3, <3>1, <3>3, <3>4 DEF BookTypes
      <3>6. LedgerTypes'
        BY <1>1, <1>3, <1>4, <3>1, ReserveType DEF LedgerTypes
      <3> QED BY <3>5, <3>6
    <2>2. CASE ~Inserts(r, lots)
      BY <1>1, <1>7, <2>2, BookFrame, LedgerFrame DEF RestOrder, ledgerVars
    <2> QED BY <2>1, <2>2
  <1>10. raised(lots) \in SUBSET EngineFault /\ out \in Seq(Events)
    BY FaultTypes DEF Raised, EngineFault, OutputTypes
  <1>11. PICK kind \in ReportKinds : Respond(r, done(kind, lots), out, raised(lots))
    BY <1>5 DEF FinishRest, ReportKinds
  <1>12. done(kind, lots) \in Reports
    BY <1>3, ReportType
  <1> HIDE DEF done, raised
  <1>13. OutputTypes' /\ RequestTypes'
    BY <1>3, <1>10, <1>11, <1>12, RespondType
  <1> QED BY InvWhole, <1>2, <1>8, <1>9, <1>13

-----------------------------------------------------------------------------
(* The type invariant.                                                     *)

\* The engine starts in the invariant.
LEMMA InitInv ==
  ASSUME Init
  PROVE  IInv
  <1>1. BookTypes
    BY NumberAssumption, SMT DEF Init, BookTypes, NoId
  <1>2. LedgerTypes
    BY NumberAssumption, SMT DEF Init, LedgerTypes, I64, MaxU64
  <1>3. AdminTypes
    BY ConfigAssumption DEF Init, AdminTypes
  <1>4. RequestTypes
    <2>1. Cache!EmptyCache \in Cache!RequestCaches
      BY NumberAssumption, SMT DEF Cache!EmptyCache, Cache!RequestCaches, Cache!Slots, Cache!Capacity,
                              Cache!NoSlot
    <2> QED BY <2>1 DEF Init, RequestTypes
  <1>5. IdTypes /\ OutputTypes /\ TakerTypes
    BY NumberAssumption, SMT DEF Init, IdTypes, OutputTypes, TakerTypes
  <1>6. MarketTypes
    BY NumberAssumption, SMT DEF Init, MarketTypes, MarketView
  <1> QED BY <1>1, <1>2, <1>3, <1>4, <1>5, <1>6 DEF IInv

\* Every step of the engine keeps the invariant.
LEMMA StepInv ==
  ASSUME IInv, [Next]_vars
  PROVE  IInv'
  <1>1. ASSUME NEW r \in Requests, ApplyRequest(r)
        PROVE  IInv'
    BY <1>1, RetryInv, RejectionsInv, HandleCancelInv, HandleNewInv, HandleReplaceInPlaceInv,
       HandleReplaceRequeueInv DEF ApplyRequest
  <1>2. ASSUME NEW i \in Instruments, NEW view \in MarketViews, ApplyMarket(i, view)
        PROVE  IInv'
    BY <1>2, MarketInv
  <1>3. ASSUME NEW c \in Controls, ApplyControl(c)
        PROVE  IInv'
    BY <1>3, ControlInv
  <1>4. CASE Fill \/ FillUnsettled \/ FinishFilled \/ FinishMarketOrder \/ FinishRest
    BY <1>4, FillInv, FillUnsettledInv, FinishWithoutRestInv, FinishRestInv
  <1>5. CASE ApplyFaulted \/ ApplyEngineSeqExhausted
    BY <1>5, FaultedInv
  <1>6. CASE UNCHANGED vars
    <2>1. UNCHANGED <<bookVars, ledgerVars, adminVars, requestVars, idVars, outputVars, market,
                      engine_seq, taker>>
      BY <1>6 DEF vars
    <2>2. OutputTypes' /\ MarketTypes'
      BY <2>1 DEF IInv, OutputTypes, MarketTypes, outputVars
    <2> QED BY <2>1, <2>2, BookFrame, LedgerFrame, AdminFrame, RequestFrame, IdFrame, TakerFrame
            DEF IInv
  <1> QED BY <1>1, <1>2, <1>3, <1>4, <1>5, <1>6 DEF Next

\* The type invariant follows from the inductive one.
LEMMA InvType ==
  ASSUME IInv
  PROVE  TypeOK
  BY DEF IInv, TypeOK, BookTypes, LedgerTypes, AdminTypes, RequestTypes, IdTypes, OutputTypes,
         MarketTypes, TakerTypes, Events

\* Every field of TradingCore keeps its type on every input: reservations stay
\* within u64, positions within i64, and no counter passes its maximum.
THEOREM TypeCorrect == Spec => []TypeOK
  <1>1. Init => IInv
    BY InitInv
  <1>2. IInv /\ [Next]_vars => IInv'
    BY StepInv
  <1>3. IInv => TypeOK
    BY InvType
  <1> QED BY <1>1, <1>2, <1>3, PTL DEF Spec

=============================================================================
