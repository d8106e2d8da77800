----------------------------- MODULE OrderBook -----------------------------
(***************************************************************************)
(* The indexed book of crates/trading-core/src/book.rs: price levels with  *)
(* a head, a tail, a count and an aggregate, whose orders are a doubly     *)
(* linked list threaded through a slab, and an index from order id to slab *)
(* slot; with the matching loop of matching.rs.  The caller (TradingCore)  *)
(* gives every inserted order a fresh priority, never inserts an order     *)
(* that crosses, and may insert a removed id again (a replace).            *)
(***************************************************************************)
EXTENDS Integers, Sequences, FiniteSets, FiniteSetsExt

CONSTANTS
    OrderIds, Prices,
    Quantities,       \* order totals and taker quantities
    Slots,            \* slab slots; there are with_capacity(..) of them
    MaxU64,           \* u64::MAX, the limit of a level's aggregate
    MaxPriority,      \* bound on the number of inserts of a run
    None, Vacant, NoLevel, NoTaker, NoFill

Sides == {"Buy", "Sell"}

Opposite(side) == IF side = "Buy" THEN "Sell" ELSE "Buy"

Capacity == Cardinality(Slots)

OrderNode == [order_id : OrderIds, side : Sides, price : Prices, total : Quantities,
              cumulative : Nat, priority : Nat, prev : Slots \cup {None}, next : Slots \cup {None}]

PriceLevel == [head : Slots \cup {None}, tail : Slots \cup {None}, order_count : Nat,
               total_remaining : Nat]

VARIABLES
    levels,          \* side -> price -> PriceLevel or NoLevel (bids and asks)
    orders,          \* the slab: slot -> OrderNode or Vacant
    index,           \* OrderId -> slot or None
    next_priority,   \* the caller's priority counter
    taker, fill      \* match_order's progress and the fill it reported last

vars == <<levels, orders, index, next_priority, taker, fill>>

Remaining(node) == node.total - node.cumulative

Live == {slot \in Slots : orders[slot] # Vacant}

Better(side, p, q) == IF side = "Buy" THEN p > q ELSE p < q

\* next_eligible_price: the best price of `side`, if the limit allows it.
EligiblePrices(side, limit) ==
    {p \in Prices : levels[side][p] # NoLevel /\ ~Better(side, limit, p)}

\* Faulty variant: levels are served from the far end.
BestPriceReversed(side, limit) ==
    CHOOSE p \in EligiblePrices(side, limit) :
        \A q \in EligiblePrices(side, limit) \ {p} : Better(side, q, p)

BestPrice(side, limit) ==
    CHOOSE p \in EligiblePrices(side, limit) :
        \A q \in EligiblePrices(side, limit) \ {p} : Better(side, p, q)

Crosses(side, price) ==
    \E p \in Prices : levels[Opposite(side)][p] # NoLevel /\ ~Better(Opposite(side), price, p)

Init ==
    /\ levels = [side \in Sides |-> [p \in Prices |-> NoLevel]]
    /\ orders = [slot \in Slots |-> Vacant]
    /\ index = [id \in OrderIds |-> None]
    /\ next_priority = 0
    /\ taker = NoTaker
    /\ fill = NoFill

-----------------------------------------------------------------------------

EmptyLevel == [head |-> None, tail |-> None, order_count |-> 0, total_remaining |-> 0]

\* entry(price).or_default()
LevelAt(side, price) == IF levels[side][price] = NoLevel THEN EmptyLevel ELSE levels[side][price]

CanInsert(side, price, lots) ==
    /\ Cardinality(Live) < Capacity
    /\ LevelAt(side, price).total_remaining + lots <= MaxU64

\* The slab hands out some vacant slot; the order goes to the tail of its level.
Insert(id, side, price, total, cumulative) ==
    /\ taker = NoTaker
    /\ next_priority < MaxPriority
    /\ index[id] = None
    /\ cumulative < total
    /\ ~Crosses(side, price)
    /\ CanInsert(side, price, total - cumulative)
    /\ next_priority' = next_priority + 1
    /\ \E slot \in Slots \ Live :
         LET level == LevelAt(side, price)
             node  == [order_id |-> id, side |-> side, price |-> price, total |-> total,
                       cumulative |-> cumulative, priority |-> next_priority + 1,
                       prev |-> level.tail, next |-> None]
         IN  /\ orders' = [s \in Slots |->
                  IF s = slot THEN node
                  ELSE IF s = level.tail THEN [orders[s] EXCEPT !.next = slot]
                  ELSE orders[s]]
             /\ index' = [index EXCEPT ![id] = slot]
             /\ levels' = [levels EXCEPT ![side][price] =
                  [head |-> IF level.tail = None THEN slot ELSE level.head,
                   tail |-> slot,
                   order_count |-> level.order_count + 1,
                   total_remaining |-> level.total_remaining + (total - cumulative)]]
    /\ UNCHANGED <<taker, fill>>

\* The refused insert: the order is dropped, only the caller's priority is spent.
InsertRefused(id, side, price, total, cumulative) ==
    /\ taker = NoTaker
    /\ next_priority < MaxPriority
    /\ index[id] = None
    /\ cumulative < total
    /\ ~Crosses(side, price)
    /\ ~CanInsert(side, price, total - cumulative)
    /\ next_priority' = next_priority + 1
    /\ UNCHANGED <<levels, orders, index, taker, fill>>

-----------------------------------------------------------------------------
(* unlink, as two values: the slab without `slot` and with its neighbours  *)
(* joined, and the level of the removed node after it.                     *)

Unlinked(slab, slot) ==
    LET node == slab[slot]
    IN  [s \in Slots |->
           IF s = slot THEN Vacant
           ELSE IF s = node.prev THEN [slab[s] EXCEPT !.next = node.next]
           ELSE IF s = node.next THEN [slab[s] EXCEPT !.prev = node.prev]
           ELSE slab[s]]

\* Faulty variant: the tail stays when the last order of a level leaves.
LevelWithoutTailKept(level, node) ==
    IF level.order_count = 1 THEN NoLevel
    ELSE [head |-> IF node.prev = None THEN node.next ELSE level.head,
          tail |-> level.tail,
          order_count |-> level.order_count - 1,
          total_remaining |-> level.total_remaining - Remaining(node)]

LevelWithout(level, node) ==
    IF level.order_count = 1 THEN NoLevel
    ELSE [head |-> IF node.prev = None THEN node.next ELSE level.head,
          tail |-> IF node.next = None THEN node.prev ELSE level.tail,
          order_count |-> level.order_count - 1,
          total_remaining |-> level.total_remaining - Remaining(node)]

Remove(id) ==
    /\ taker = NoTaker
    /\ index[id] # None
    /\ LET node == orders[index[id]]
       IN  /\ orders' = Unlinked(orders, index[id])
           /\ levels' = [levels EXCEPT ![node.side][node.price] = LevelWithout(@, node)]
    /\ index' = [index EXCEPT ![id] = None]
    /\ UNCHANGED <<next_priority, taker, fill>>

\* Called with a total between the cumulative fill and the old total.
ReduceTotal(id, total) ==
    /\ taker = NoTaker
    /\ index[id] # None
    /\ LET slot == index[id]
           node == orders[slot]
       IN  /\ total < node.total
           /\ total > node.cumulative
           /\ orders' = [orders EXCEPT ![slot].total = total]
           /\ levels' = [levels EXCEPT ![node.side][node.price].total_remaining =
                            @ - Remaining(node) + (total - node.cumulative)]
    /\ UNCHANGED <<index, next_priority, taker, fill>>

-----------------------------------------------------------------------------

BeginMatch(side, limit, quantity) ==
    /\ taker = NoTaker
    /\ taker' = [side |-> side, limit |-> limit, left |-> quantity]
    /\ fill' = NoFill
    /\ UNCHANGED <<levels, orders, index, next_priority>>

Traded(maker) == IF taker.left < Remaining(maker) THEN taker.left ELSE Remaining(maker)

\* fill_maker on the head of the best level, which unlinks a filled order.
FillMaker ==
    /\ taker # NoTaker
    /\ taker.left > 0
    /\ LET side == Opposite(taker.side)
       IN  /\ EligiblePrices(side, taker.limit) # {}
           /\ LET p      == BestPrice(side, taker.limit)
                  slot   == levels[side][p].head
                  maker  == orders[slot]
                  traded == Traded(maker)
                  after  == [maker EXCEPT !.cumulative = @ + traded]
                  slab   == [orders EXCEPT ![slot] = after]
                  level  == [levels[side][p] EXCEPT !.total_remaining = @ - traded]
              IN  /\ IF Remaining(after) = 0
                     THEN /\ orders' = Unlinked(slab, slot)
                          /\ levels' = [levels EXCEPT ![side][p] = LevelWithout(level, after)]
                          /\ index' = [index EXCEPT ![maker.order_id] = None]
                     ELSE /\ orders' = slab
                          /\ levels' = [levels EXCEPT ![side][p] = level]
                          /\ UNCHANGED index
                  /\ taker' = [taker EXCEPT !.left = @ - traded]
                  /\ fill' = [maker |-> maker.order_id, price |-> p, quantity |-> traded,
                              maker_remaining |-> Remaining(after)]
    /\ UNCHANGED next_priority

EndMatch ==
    /\ taker # NoTaker
    /\ taker.left = 0 \/ EligiblePrices(Opposite(taker.side), taker.limit) = {}
    /\ taker' = NoTaker
    /\ UNCHANGED <<levels, orders, index, next_priority, fill>>

Next ==
    \/ \E id \in OrderIds, side \in Sides, price \in Prices, total \in Quantities :
         \E cumulative \in 0 .. (total - 1) :
           \/ Insert(id, side, price, total, cumulative)
           \/ InsertRefused(id, side, price, total, cumulative)
    \/ \E id \in OrderIds : Remove(id) \/ \E total \in Quantities : ReduceTotal(id, total)
    \/ \E side \in Sides, limit \in Prices, quantity \in Quantities : BeginMatch(side, limit, quantity)
    \/ FillMaker
    \/ EndMatch

Spec == Init /\ [][Next]_vars

-----------------------------------------------------------------------------
(* Properties.                                                             *)

\* The slots met when walking a level from its head, at most Capacity + 1 of
\* them (level_orders); a longer walk would be a cycle.
Walk(side, price) ==
    LET at[k \in 1 .. (Capacity + 1)] ==
          IF k = 1 THEN LevelAt(side, price).head
          ELSE IF at[k - 1] = None THEN None ELSE orders[at[k - 1]].next
        steps == {k \in 1 .. (Capacity + 1) : at[k] # None}
    IN  [k \in 1 .. Cardinality(steps) |-> at[k]]

\* Every link and index entry is a slot or None, and no level aggregate goes
\* below zero (the expect("accounting: ...") of unlink and fill_maker).
TypeOK ==
    /\ levels \in [Sides -> [Prices -> PriceLevel \cup {NoLevel}]]
    /\ orders \in [Slots -> OrderNode \cup {Vacant}]
    /\ index \in [OrderIds -> Slots \cup {None}]
    /\ next_priority \in 0 .. MaxPriority

\* OrderBook::check_invariants: no empty level, counts and aggregates match the
\* linked orders, every linked order rests at its level with quantity left and a
\* later priority than the one before it, the index knows it, nothing else is
\* live, and the book is not crossed.
CheckInvariants ==
    /\ TypeOK
    /\ \A side \in Sides : \A price \in {p \in Prices : levels[side][p] # NoLevel} :
         LET level == levels[side][price]
             walk  == Walk(side, price)
         IN  /\ level.order_count > 0
             /\ Len(walk) = level.order_count
             /\ level.tail = walk[Len(walk)]
             /\ level.total_remaining =
                  MapThenSumSet(LAMBDA k : Remaining(orders[walk[k]]), 1 .. Len(walk))
             /\ \A k \in 1 .. Len(walk) :
                  LET node == orders[walk[k]]
                  IN  /\ node.side = side /\ node.price = price
                      /\ Remaining(node) > 0
                      /\ k > 1 => node.priority > orders[walk[k - 1]].priority
                      /\ node.prev = (IF k = 1 THEN None ELSE walk[k - 1])
                      /\ index[node.order_id] = walk[k]
    /\ Cardinality(Live) = Cardinality({id \in OrderIds : index[id] # None})
    /\ Cardinality(Live) =
         MapThenSumSet(LAMBDA sp : LevelAt(sp[1], sp[2]).order_count, Sides \X Prices)
    /\ \A bid, ask \in Prices :
         levels["Buy"][bid] # NoLevel /\ levels["Sell"][ask] # NoLevel => bid < ask

\* What the book shows of a resting order (book_rows).
Row(node) == [order_id |-> node.order_id, priority |-> node.priority, total |-> node.total,
              cumulative |-> node.cumulative]

Rows(side, price) ==
    LET walk == Walk(side, price) IN [k \in 1 .. Len(walk) |-> Row(orders[walk[k]])]

=============================================================================
