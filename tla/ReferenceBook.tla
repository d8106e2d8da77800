--------------------------- MODULE ReferenceBook ---------------------------
(***************************************************************************)
(* The book the repository takes as its correctness oracle                 *)
(* (crates/trading-core/src/reference.rs): one queue of orders per side    *)
(* and price, served first in first out.  An absent price is an empty      *)
(* queue.  `taker` is the order inside match_order and `fill` the fill it  *)
(* reported last; both are what a caller observes.                         *)
(***************************************************************************)
EXTENDS Integers, Sequences

CONSTANTS Prices, NoTaker, NoFill

Sides == {"Buy", "Sell"}

Opposite(side) == IF side = "Buy" THEN "Sell" ELSE "Buy"

VARIABLES queues, taker, fill

Remaining(order) == order.total - order.cumulative

\* Is price p served before price q among the resting orders of `side`?
Better(side, p, q) == IF side = "Buy" THEN p > q ELSE p < q

\* The prices of `side` that hold orders a taker with this limit may take.
EligiblePrices(side, limit) ==
    {p \in Prices : queues[side][p] # <<>> /\ ~Better(side, limit, p)}

BestPrice(side, limit) ==
    CHOOSE p \in EligiblePrices(side, limit) :
        \A q \in EligiblePrices(side, limit) \ {p} : Better(side, p, q)

Init ==
    /\ queues = [side \in Sides |-> [p \in Prices |-> <<>>]]
    /\ taker = NoTaker
    /\ fill = NoFill

Insert(side, price, order) ==
    /\ taker = NoTaker
    /\ queues' = [queues EXCEPT ![side][price] = Append(@, order)]
    /\ UNCHANGED <<taker, fill>>

Remove(id) ==
    /\ taker = NoTaker
    /\ queues' = [side \in Sides |-> [p \in Prices |->
                    SelectSeq(queues[side][p], LAMBDA order : order.order_id # id)]]
    /\ UNCHANGED <<taker, fill>>

ReduceTotal(id, total) ==
    /\ taker = NoTaker
    /\ queues' = [side \in Sides |-> [p \in Prices |->
                    [k \in 1 .. Len(queues[side][p]) |->
                       LET order == queues[side][p][k]
                       IN  IF order.order_id = id THEN [order EXCEPT !.total = total] ELSE order]]]
    /\ UNCHANGED <<taker, fill>>

BeginMatch(side, limit, quantity) ==
    /\ taker = NoTaker
    /\ taker' = [side |-> side, limit |-> limit, left |-> quantity]
    /\ fill' = NoFill
    /\ UNCHANGED queues

\* One round of match_order: the front order of the best price trades.
FillFront ==
    /\ taker # NoTaker
    /\ taker.left > 0
    /\ LET side == Opposite(taker.side)
       IN  /\ EligiblePrices(side, taker.limit) # {}
           /\ LET p      == BestPrice(side, taker.limit)
                  maker  == Head(queues[side][p])
                  traded == IF taker.left < Remaining(maker) THEN taker.left ELSE Remaining(maker)
                  left   == Remaining(maker) - traded
              IN  /\ queues' = [queues EXCEPT ![side][p] =
                         IF left = 0 THEN Tail(@)
                         ELSE [@ EXCEPT ![1].cumulative = @ + traded]]
                  /\ taker' = [taker EXCEPT !.left = @ - traded]
                  /\ fill' = [maker |-> maker.order_id, price |-> p, quantity |-> traded,
                              maker_remaining |-> left]

EndMatch ==
    /\ taker # NoTaker
    /\ taker.left = 0 \/ EligiblePrices(Opposite(taker.side), taker.limit) = {}
    /\ taker' = NoTaker
    /\ UNCHANGED <<queues, fill>>

=============================================================================
