-------------------------- MODULE BookEquivalence --------------------------
(***************************************************************************)
(* The indexed book and the reference book driven side by side by the same *)
(* calls, as tests/model.rs drives them: every operation is one step of    *)
(* both, and match_order is stepped fill by fill on both.                  *)
(***************************************************************************)
EXTENDS OrderBook

VARIABLES queues, ref_taker, ref_fill

Ref == INSTANCE ReferenceBook WITH taker <- ref_taker, fill <- ref_fill

refVars == <<queues, ref_taker, ref_fill>>

EquivInit == Init /\ Ref!Init

EquivInsert(id, side, price, total, cumulative) ==
    \/ /\ Insert(id, side, price, total, cumulative)
       /\ Ref!Insert(side, price, [order_id |-> id, priority |-> next_priority + 1,
                                   total |-> total, cumulative |-> cumulative])
    \/ /\ InsertRefused(id, side, price, total, cumulative)
       /\ UNCHANGED refVars

EquivRemove(id) == Remove(id) /\ Ref!Remove(id)

EquivReduceTotal(id, total) == ReduceTotal(id, total) /\ Ref!ReduceTotal(id, total)

EquivBeginMatch(side, limit, quantity) ==
    BeginMatch(side, limit, quantity) /\ Ref!BeginMatch(side, limit, quantity)

EquivFill == FillMaker /\ Ref!FillFront

EquivEndMatch == EndMatch /\ Ref!EndMatch

EquivNext ==
    \/ \E id \in OrderIds, side \in Sides, price \in Prices, total \in Quantities :
         \E cumulative \in 0 .. (total - 1) : EquivInsert(id, side, price, total, cumulative)
    \/ \E id \in OrderIds :
         EquivRemove(id) \/ \E total \in Quantities : EquivReduceTotal(id, total)
    \/ \E side \in Sides, limit \in Prices, quantity \in Quantities :
         EquivBeginMatch(side, limit, quantity)
    \/ EquivFill
    \/ EquivEndMatch

EquivSpec == EquivInit /\ [][EquivNext]_<<vars, refVars>>

\* After every operation and every fill the two books show the same rows and
\* reported the same fill, maker, price, quantity and remainder alike.
BooksAgree ==
    /\ \A side \in Sides, price \in Prices : queues[side][price] = Rows(side, price)
    /\ taker = ref_taker
    /\ fill = ref_fill

=============================================================================
