-------------------------- MODULE TradingBookProofs --------------------------
(***************************************************************************)
(* Two safety properties of the books of TradingCore, for any accounts,    *)
(* instruments, requests and counter maxima: a book is never crossed, and  *)
(* the book and the two order maps name the same orders.                   *)
(***************************************************************************)
EXTENDS TradingCoreProofs

\* First-order leaves by default; a leaf with arithmetic or function updates asks for SMT.
USE Zenon

-----------------------------------------------------------------------------
(* No book is crossed.                                                     *)

\* A step takes orders out or alters their quantities, and adds none.
Shrinks ==
    \A id \in OrderIds : orders'[id] # NoOrder =>
        /\ orders[id] # NoOrder
        /\ orders'[id].instrument = orders[id].instrument
        /\ orders'[id].side = orders[id].side
        /\ orders'[id].price = orders[id].price

\* A book that only shrinks stays uncrossed.
LEMMA ShrinkingKeepsApart ==
  ASSUME BookNotCrossed, Shrinks
  PROVE  BookNotCrossed'
  BY SMT DEF BookNotCrossed, Shrinks, Resting

\* Taking an order out only shrinks the book.
LEMMA RemoveShrinks ==
  ASSUME BookTypes, NEW id \in OrderIds, NEW a, NEW client, RemoveOrder(id, a, client)
  PROVE  Shrinks
  BY DEF BookTypes, RemoveOrder, Shrinks

\* Filling a maker does too.
LEMMA FillMakerShrinks ==
  ASSUME BookTypes, TakerTypes, Matching, NEW id \in Makers, FillMaker(id, FillLots(orders[id]))
  PROVE  Shrinks
  <1>1. id \in OrderIds /\ orders[id] # NoOrder /\ orders[id] \in OrderNode
    BY FillLotsBounds
  <1>2. PICK n : orders' = [orders EXCEPT ![id] =
                   IF Remaining(orders[id]) = FillLots(orders[id]) THEN NoOrder
                   ELSE [orders[id] EXCEPT !.cumulative = n]]
    BY DEF FillMaker
  <1> QED BY <1>1, <1>2 DEF Shrinks, BookTypes, OrderNode

\* Every step but the one that rests an order only shrinks the books.
LEMMA OtherStepsShrink ==
  ASSUME IInv, Next, ~FinishRest
  PROVE  Shrinks
  <1> /\ BookTypes /\ LedgerTypes /\ AdminTypes /\ RequestTypes
      /\ IdTypes /\ OutputTypes /\ MarketTypes /\ TakerTypes
    BY InvParts
  <1>1. CASE UNCHANGED bookVars
    BY <1>1 DEF Shrinks, bookVars
  <1>2. ASSUME NEW r \in Requests, HandleCancel(r)
        PROVE  Shrinks
    BY <1>2, RemoveShrinks DEF HandleCancel, InBook
  <1>3. ASSUME NEW r \in Requests, NEW late, HandleReplaceInPlace(r, late)
        PROVE  Shrinks
    <2>1. Target(r) \in OrderIds /\ orders[Target(r)] \in OrderNode
          /\ orders[Target(r)] # NoOrder
      BY <1>3, ReplaceTarget DEF HandleReplaceInPlace
    <2>2. CASE orders' = [orders EXCEPT ![Target(r)].total = r.quantity]
      <3>1. orders' = [orders EXCEPT ![Target(r)] =
                          [orders[Target(r)] EXCEPT !.total = r.quantity]]
        BY <2>2
      <3> QED BY <2>1, <3>1 DEF Shrinks, BookTypes, OrderNode
    <2>3. CASE RemoveOrder(Target(r), r.account, orders[Target(r)].client_order_id)
      BY <2>1, <2>3, RemoveShrinks
    <2> QED BY <1>3, <2>2, <2>3 DEF HandleReplaceInPlace
  <1>4. ASSUME NEW r \in Requests, NEW late, HandleReplaceRequeue(r, late)
        PROVE  Shrinks
    <2>1. Target(r) \in OrderIds
      BY <1>4, ReplaceTarget DEF HandleReplaceRequeue
    <2> QED BY <1>4, <2>1, RemoveShrinks DEF HandleReplaceRequeue
  <1>5. CASE Fill
    <2>1. Matching /\ \E id \in Makers : FillMaker(id, FillLots(orders[id]))
      BY <1>5 DEF Fill
    <2> QED BY <2>1, FillMakerShrinks
  <1>6. CASE FillUnsettled
    <2>1. Matching /\ \E id \in Makers : FillMaker(id, FillLots(orders[id]))
      BY <1>6 DEF FillUnsettled
    <2> QED BY <2>1, FillMakerShrinks
  <1>7. ASSUME NEW c \in Controls, ApplyControl(c)
        PROVE  UNCHANGED bookVars
    BY <1>7 DEF ApplyControl, SetGlobalKill, SetAccountEnabled, SetAccountLimits, ApplyUnknown
  <1>8. ASSUME NEW r \in Requests, ApplyRequest(r)
        PROVE  Shrinks
    <2>1. ASSUME NEW late, ApplyRetry(r) \/ ApplyConflict(r) \/ ApplyReject(r, late)
                           \/ HandleNew(r, late) \/ HandleNewIdsExhausted(r, late)
          PROVE  UNCHANGED bookVars
      BY <2>1 DEF ApplyRetry, ApplyConflict, ApplyReject, HandleNew, HandleNewIdsExhausted
    <2> QED BY <1>1, <1>2, <1>3, <1>4, <1>8, <2>1 DEF ApplyRequest
  <1>9. ASSUME NEW i \in Instruments, NEW view \in MarketViews, ApplyMarket(i, view)
        PROVE  UNCHANGED bookVars
    BY <1>9 DEF ApplyMarket
  <1>10. CASE FinishFilled \/ FinishMarketOrder \/ ApplyFaulted \/ ApplyEngineSeqExhausted
    <2>1. UNCHANGED bookVars
      BY <1>10 DEF FinishFilled, FinishMarketOrder, ApplyFaulted, ApplyEngineSeqExhausted
    <2> QED BY <1>1, <2>1
  <1> QED BY <1>1, <1>5, <1>6, <1>7, <1>8, <1>9, <1>10 DEF Next

\* An order rests only once nothing of the other side is at its price or better.
LEMMA RestingKeepsApart ==
  ASSUME IInv, BookNotCrossed, FinishRest
  PROVE  BookNotCrossed'
  <1> /\ BookTypes /\ LedgerTypes /\ AdminTypes /\ RequestTypes
      /\ IdTypes /\ OutputTypes /\ MarketTypes /\ TakerTypes
    BY InvParts
  <1> DEFINE r == taker.request
             lots == r.quantity - TakerCumulative
             fresh == taker.order
  <1>1. taker # NoTaker /\ RestOrder(r, lots) /\ r.type = "Limit"
    BY DEF FinishRest, Matched
  <1>2. CASE ~Inserts(r, lots)
    <2>1. UNCHANGED bookVars
      BY <1>1, <1>2 DEF RestOrder
    <2> QED BY <2>1, ShrinkingKeepsApart DEF Shrinks, bookVars
  <1>3. CASE Inserts(r, lots)
    <2>1. taker.filled < taker.quantity
      <3>1. /\ taker.quantity \in Nat /\ taker.filled \in Nat /\ taker.prior \in Nat
            /\ taker.filled <= taker.quantity
            /\ taker.quantity + taker.prior = taker.request.quantity
        BY <1>1, TakerFacts DEF TakerTypes
      <3> QED BY <3>1, SMT DEF FinishRest, TakerCumulative
    <2>2. Makers = {}
      BY <2>1 DEF FinishRest, Matched
    <2>3. taker.limit = r.price /\ r.price \in Int /\ r.side \in Sides /\ fresh \in OrderIds
      BY <1>1, TakerFacts DEF TakerTypes, OrderRequest
    <2>4. \A id \in Resting(r.instrument, Opposite(r.side)) :
             Better(Opposite(r.side), r.price, orders[id].price)
      BY <2>2, <2>3 DEF Makers, Eligible, TakerSide, TakerInstrument
    <2>5. PICK node : /\ orders' = [orders EXCEPT ![fresh] = node]
                      /\ node.instrument = r.instrument /\ node.side = r.side
                      /\ node.price = r.price
      BY <1>1, <1>3 DEF RestOrder
    <2>6. \A id \in OrderIds : id # fresh => orders'[id] = orders[id]
      BY <2>5 DEF BookTypes
    <2>7. orders'[fresh] = node
      BY <2>3, <2>5 DEF BookTypes
    <2> SUFFICES ASSUME NEW i \in Instruments, NEW bid \in Resting(i, "Buy")',
                        NEW ask \in Resting(i, "Sell")'
                 PROVE  orders'[bid].price < orders'[ask].price
      BY DEF BookNotCrossed
    <2>8. /\ bid \in OrderIds /\ orders'[bid] # NoOrder /\ orders'[bid].instrument = i
          /\ orders'[bid].side = "Buy"
          /\ ask \in OrderIds /\ orders'[ask] # NoOrder /\ orders'[ask].instrument = i
          /\ orders'[ask].side = "Sell"
      BY DEF Resting
    <2>9. bid # ask
      BY <2>8
    <2>10. CASE bid # fresh /\ ask # fresh
      <3>1. bid \in Resting(i, "Buy") /\ ask \in Resting(i, "Sell")
        BY <2>6, <2>8, <2>10 DEF Resting
      <3> QED BY <2>6, <2>8, <2>10, <3>1 DEF BookNotCrossed
    <2>11. CASE bid = fresh
      <3>1. r.instrument = i /\ r.side = "Buy" /\ orders'[bid].price = r.price
        BY <2>5, <2>7, <2>8, <2>11
      <3>2. orders'[ask] = orders[ask] /\ ask \in Resting(r.instrument, Opposite(r.side))
        BY <2>6, <2>8, <2>9, <2>11, <3>1 DEF Resting, Opposite
      <3>3. Better("Sell", r.price, orders[ask].price)
        BY <2>4, <3>1, <3>2 DEF Opposite
      <3> QED BY <3>1, <3>2, <3>3 DEF Better
    <2>12. CASE ask = fresh
      <3>1. r.instrument = i /\ r.side = "Sell" /\ orders'[ask].price = r.price
        BY <2>5, <2>7, <2>8, <2>12
      <3>2. orders'[bid] = orders[bid] /\ bid \in Resting(r.instrument, Opposite(r.side))
        BY <2>6, <2>8, <2>9, <2>12, <3>1 DEF Resting, Opposite
      <3>3. Better("Buy", r.price, orders[bid].price)
        BY <2>4, <3>1, <3>2 DEF Opposite
      <3>4. orders[bid].price \in Int
        BY <2>6, <2>8, <2>9, <2>12, RestingNode DEF OrderNode
      <3> QED BY <2>3, <3>1, <3>2, <3>3, <3>4 DEF Better
    <2> QED BY <2>10, <2>11, <2>12
  <1> QED BY <1>2, <1>3

\* No bid is ever at or above an ask of its instrument, at any point of an
\* execution: match_order exhausts the eligible makers before the rest is inserted.
THEOREM BookNeverCrossed == Spec => []BookNotCrossed
  <1>1. Init => IInv /\ BookNotCrossed
    BY InitInv DEF Init, BookNotCrossed, Resting
  <1>2. IInv /\ BookNotCrossed /\ [Next]_vars => (IInv /\ BookNotCrossed)'
    <2> SUFFICES ASSUME IInv, BookNotCrossed, [Next]_vars
                 PROVE  BookNotCrossed'
      BY StepInv
    <2>1. CASE FinishRest
      BY <2>1, RestingKeepsApart
    <2>2. CASE Next /\ ~FinishRest
      BY <2>2, OtherStepsShrink, ShrinkingKeepsApart
    <2>3. CASE UNCHANGED vars
      BY <2>3 DEF BookNotCrossed, Resting, vars, bookVars
    <2> QED BY <2>1, <2>2, <2>3
  <1> QED BY <1>1, <1>2, PTL DEF Spec

-----------------------------------------------------------------------------
(* The book, live_orders and client_orders name the same orders.           *)

\* What IndexesAgree states, without its condition.
Indexed ==
    /\ \A id \in OrderIds :
         /\ orders[id] = NoOrder <=> live_orders[id] = NoOrder
         /\ orders[id] # NoOrder =>
              /\ live_orders[id] = [account |-> orders[id].account,
                                    instrument |-> orders[id].instrument]
              /\ client_orders[<<orders[id].account, orders[id].client_order_id>>] = id
    /\ \A a \in Accounts, c \in ClientOrderIds :
         client_orders[<<a, c>>] # NoId =>
           /\ orders[client_orders[<<a, c>>]] # NoOrder
           /\ orders[client_orders[<<a, c>>]].account = a
           /\ orders[client_orders[<<a, c>>]].client_order_id = c

\* The order being executed is in no map under its id or its client order id.
TakerUnlisted ==
    taker # NoTaker =>
      /\ orders[taker.order] = NoOrder
      /\ client_orders[<<taker.request.account, taker.client>>] = NoId

\* Order ids are handed out in increasing order.
IdsBelowNext ==
    /\ \A id \in OrderIds : orders[id] # NoOrder => id <= next_order_id
    /\ taker # NoTaker => taker.order <= next_order_id

IndexInv == IdsBelowNext /\ (faults = {} => Indexed /\ TakerUnlisted)

\* Taking an order out of the book and of both maps under its own keys.
LEMMA RemoveIndexed ==
  ASSUME BookTypes, Indexed, NEW id \in OrderIds, orders[id] # NoOrder,
         RemoveOrder(id, orders[id].account, orders[id].client_order_id)
  PROVE  Indexed'
  <1>1. orders[id] \in OrderNode
    BY RestingNode
  <1>2. orders[id].account \in Accounts /\ orders[id].client_order_id \in ClientOrderIds
    BY <1>1 DEF OrderNode
  <1> DEFINE key == <<orders[id].account, orders[id].client_order_id>>
  <1>3. key \in Accounts \X ClientOrderIds /\ client_orders[key] = id
    BY <1>2 DEF Indexed
  <1>4. /\ orders'[id] = NoOrder /\ live_orders'[id] = NoOrder /\ client_orders'[key] = NoId
        /\ \A k \in OrderIds \ {id} : orders'[k] = orders[k] /\ live_orders'[k] = live_orders[k]
        /\ \A k \in Accounts \X ClientOrderIds : k # key => client_orders'[k] = client_orders[k]
    BY <1>3 DEF RemoveOrder, BookTypes
  <1>5. ASSUME NEW k \in OrderIds
        PROVE  /\ orders'[k] = NoOrder <=> live_orders'[k] = NoOrder
               /\ orders'[k] # NoOrder =>
                    /\ live_orders'[k] = [account |-> orders'[k].account,
                                          instrument |-> orders'[k].instrument]
                    /\ client_orders'[<<orders'[k].account, orders'[k].client_order_id>>] = k
    <2>1. CASE k = id
      BY <1>4, <2>1
    <2>2. CASE k # id /\ orders[k] = NoOrder
      BY <1>4, <2>2 DEF Indexed
    <2>3. CASE k # id /\ orders[k] # NoOrder
      <3>1. orders[k] \in OrderNode
        BY <2>3, RestingNode
      <3>2. <<orders[k].account, orders[k].client_order_id>> \in Accounts \X ClientOrderIds
        BY <3>1 DEF OrderNode
      <3>3. client_orders[<<orders[k].account, orders[k].client_order_id>>] = k
        BY <2>3 DEF Indexed
      <3> QED BY <1>3, <1>4, <2>3, <3>2, <3>3 DEF Indexed
    <2> QED BY <2>1, <2>2, <2>3
  <1>6. ASSUME NEW a \in Accounts, NEW c \in ClientOrderIds, client_orders'[<<a, c>>] # NoId
        PROVE  /\ orders'[client_orders'[<<a, c>>]] # NoOrder
               /\ orders'[client_orders'[<<a, c>>]].account = a
               /\ orders'[client_orders'[<<a, c>>]].client_order_id = c
    <2>1. <<a, c>> \in Accounts \X ClientOrderIds /\ <<a, c>> # key
      BY <1>4, <1>6
    <2>2. client_orders'[<<a, c>>] = client_orders[<<a, c>>]
      BY <1>4, <2>1
    <2>3. client_orders[<<a, c>>] \in OrderIds
      BY <1>6, <2>1, <2>2, SMT DEF BookTypes, OrderIds, NoId
    <2>4. /\ orders[client_orders[<<a, c>>]].account = a
          /\ orders[client_orders[<<a, c>>]].client_order_id = c
          /\ orders[client_orders[<<a, c>>]] # NoOrder
      BY <1>6, <2>2, SMT DEF Indexed
    <2>5. client_orders[<<a, c>>] # id
      BY <2>1, <2>4
    <2> QED BY <1>4, <2>2, <2>3, <2>4, <2>5
  <1> QED BY <1>5, <1>6 DEF Indexed

\* Altering the quantities of one order.
LEMMA AmendIndexed ==
  ASSUME BookTypes, Indexed, NEW id \in OrderIds, orders[id] # NoOrder, NEW node,
         node # NoOrder, node.account = orders[id].account,
         node.instrument = orders[id].instrument,
         node.client_order_id = orders[id].client_order_id,
         orders' = [orders EXCEPT ![id] = node], UNCHANGED <<live_orders, client_orders>>
  PROVE  Indexed'
  <1>1. orders'[id] = node /\ \A k \in OrderIds : k # id => orders'[k] = orders[k]
    BY DEF BookTypes
  <1>2. \A a \in Accounts, c \in ClientOrderIds :
           client_orders[<<a, c>>] # NoId => client_orders[<<a, c>>] \in OrderIds
    BY SMT DEF BookTypes, OrderIds, NoId
  <1> QED BY <1>1, <1>2, SMT DEF Indexed

\* Listing an order under an id and a client order id that were both free.
LEMMA InsertIndexed ==
  ASSUME BookTypes, Indexed, NEW id \in OrderIds, orders[id] = NoOrder, NEW node \in OrderNode,
         client_orders[<<node.account, node.client_order_id>>] = NoId,
         orders' = [orders EXCEPT ![id] = node],
         live_orders' = [live_orders EXCEPT ![id] = [account |-> node.account,
                                                     instrument |-> node.instrument]],
         client_orders' = [client_orders EXCEPT ![<<node.account, node.client_order_id>>] = id]
  PROVE  Indexed'
  <1> DEFINE key == <<node.account, node.client_order_id>>
             live == [account |-> node.account, instrument |-> node.instrument]
  <1>1. key \in Accounts \X ClientOrderIds /\ node # NoOrder /\ live # NoOrder
    <2>1. live \in LiveOrder
      BY DEF LiveOrder, OrderNode
    <2> QED BY <2>1, AbsentAssumption DEF OrderNode
  <1>2. /\ orders'[id] = node /\ live_orders'[id] = live /\ client_orders'[key] = id
        /\ \A k \in OrderIds \ {id} : orders'[k] = orders[k] /\ live_orders'[k] = live_orders[k]
        /\ \A k \in Accounts \X ClientOrderIds : k # key => client_orders'[k] = client_orders[k]
    BY <1>1 DEF BookTypes
  <1>3. ASSUME NEW k \in OrderIds
        PROVE  /\ orders'[k] = NoOrder <=> live_orders'[k] = NoOrder
               /\ orders'[k] # NoOrder =>
                    /\ live_orders'[k] = [account |-> orders'[k].account,
                                          instrument |-> orders'[k].instrument]
                    /\ client_orders'[<<orders'[k].account, orders'[k].client_order_id>>] = k
    <2>1. CASE k = id
      BY <1>1, <1>2, <2>1
    <2>2. CASE k # id /\ orders[k] = NoOrder
      BY <1>2, <2>2 DEF Indexed
    <2>3. CASE k # id /\ orders[k] # NoOrder
      <3>1. orders[k] \in OrderNode
        BY <2>3, RestingNode
      <3>2. <<orders[k].account, orders[k].client_order_id>> \in Accounts \X ClientOrderIds
        BY <3>1 DEF OrderNode
      <3>3. client_orders[<<orders[k].account, orders[k].client_order_id>>] = k
        BY <2>3 DEF Indexed
      <3>4. k # NoId
        BY SMT DEF OrderIds, NoId
      <3> QED BY <1>2, <2>3, <3>2, <3>3, <3>4, SMT DEF Indexed
    <2> QED BY <2>1, <2>2, <2>3
  <1>4. ASSUME NEW a \in Accounts, NEW c \in ClientOrderIds, client_orders'[<<a, c>>] # NoId
        PROVE  /\ orders'[client_orders'[<<a, c>>]] # NoOrder
               /\ orders'[client_orders'[<<a, c>>]].account = a
               /\ orders'[client_orders'[<<a, c>>]].client_order_id = c
    <2>1. CASE <<a, c>> = key
      BY <1>1, <1>2, <2>1, SMT
    <2>2. CASE <<a, c>> # key
      <3>1. client_orders'[<<a, c>>] = client_orders[<<a, c>>]
        BY <1>2, <2>2
      <3>2. client_orders[<<a, c>>] \in OrderIds
        BY <1>4, <3>1, SMT DEF BookTypes, OrderIds, NoId
      <3> QED BY <1>2, <1>4, <3>1, <3>2, SMT DEF Indexed
    <2> QED BY <2>1, <2>2
  <1> QED BY <1>3, <1>4 DEF Indexed

\* A step that leaves the books, their ids and the order in execution alone.
LEMMA IndexFrame ==
  ASSUME IndexInv, UNCHANGED <<bookVars, next_order_id>>, taker' = taker \/ taker' = NoTaker,
         faults \subseteq faults'
  PROVE  IndexInv'
  BY DEF IndexInv, IdsBelowNext, Indexed, TakerUnlisted, bookVars

\* Ids stay below next_order_id when no order is added.
LEMMA IdsFrame ==
  ASSUME IdsBelowNext, Shrinks, UNCHANGED next_order_id,
         taker' # NoTaker => taker # NoTaker /\ taker'.order = taker.order
  PROVE  IdsBelowNext'
  BY DEF IdsBelowNext, Shrinks

\* A new order takes an id and a client order id that nothing is listed under.
LEMMA NewIndex ==
  ASSUME IInv, IndexInv, NEW r \in Requests, NEW late, HandleNew(r, late)
  PROVE  IndexInv'
  <1> /\ BookTypes /\ LedgerTypes /\ AdminTypes /\ RequestTypes
      /\ IdTypes /\ OutputTypes /\ MarketTypes /\ TakerTypes
    BY InvParts
  <1>1. /\ UNCHANGED <<bookVars, faults>> /\ next_order_id' = next_order_id + 1
        /\ taker'.order = next_order_id + 1 /\ taker'.request = r
        /\ taker'.client = r.client_order_id
    BY DEF HandleNew, Taker
  <1>2. next_order_id \in Nat /\ next_order_id + 1 \in OrderIds
    BY NumberAssumption, SMT DEF HandleNew, IdTypes, OrderIds
  <1>3. IdsBelowNext'
    BY <1>1, <1>2, SMT DEF IndexInv, IdsBelowNext, bookVars, OrderIds
  <1>4. orders[next_order_id + 1] = NoOrder
    BY <1>2, SMT DEF IndexInv, IdsBelowNext
  <1>5. client_orders[<<r.account, r.client_order_id>>] = NoId
    BY DEF HandleNew, CheckNewOrder
  <1> QED BY <1>1, <1>3, <1>4, <1>5 DEF IndexInv, Indexed, TakerUnlisted, bookVars

\* A cancel removes the order under the keys it is listed under.
LEMMA CancelIndex ==
  ASSUME IInv, IndexInv, NEW r \in Requests, HandleCancel(r)
  PROVE  IndexInv'
  <1> /\ BookTypes /\ LedgerTypes /\ AdminTypes /\ RequestTypes
      /\ IdTypes /\ OutputTypes /\ MarketTypes /\ TakerTypes
    BY InvParts
  <1>1. /\ r.account \in Accounts /\ faults = {} /\ taker = NoTaker /\ taker' = NoTaker
        /\ UNCHANGED next_order_id
    BY DEF HandleCancel, BeginInput, CheckCancel, idVars
  <1>2. Indexed
    BY <1>1 DEF IndexInv
  <1>3. /\ Target(r) \in OrderIds /\ orders[Target(r)] # NoOrder
        /\ RemoveOrder(Target(r), r.account, r.target)
    BY DEF HandleCancel, InBook
  <1>4. Target(r) # NoId
    BY <1>3, SMT DEF OrderIds, NoId
  <1>5. orders[Target(r)].account = r.account /\ orders[Target(r)].client_order_id = r.target
    <2>1. r.target \in ClientOrderIds
      BY RequestType DEF OrderRequest
    <2> QED BY <1>1, <1>2, <1>4, <2>1, SMT DEF Indexed, Target
  <1>6. Indexed'
    BY <1>2, <1>3, <1>5, RemoveIndexed
  <1>7. IdsBelowNext'
    BY <1>1, <1>3, RemoveShrinks, IdsFrame DEF IndexInv
  <1> QED BY <1>1, <1>6, <1>7 DEF IndexInv, TakerUnlisted

\* The order a replace names is listed under the account and the client order
\* id that the replace removes it under.
LEMMA ReplaceKeys ==
  ASSUME IInv, Indexed, NEW r \in Requests, NEW late, CheckReplace(r, late)
  PROVE  orders[Target(r)].account = r.account
  <1>1. Target(r) \in OrderIds /\ r.account \in Accounts
    BY ReplaceTarget
  <1>2. r.target \in ClientOrderIds
    BY RequestType DEF OrderRequest
  <1>3. Target(r) # NoId
    BY <1>1, SMT DEF OrderIds, NoId
  <1> QED BY <1>1, <1>2, <1>3, SMT DEF Indexed, Target

\* A replace in place keeps the order listed, or removes it everywhere.
LEMMA ReplaceInPlaceIndex ==
  ASSUME IInv, IndexInv, NEW r \in Requests, NEW late, HandleReplaceInPlace(r, late)
  PROVE  IndexInv'
  <1> /\ BookTypes /\ LedgerTypes /\ AdminTypes /\ RequestTypes
      /\ IdTypes /\ OutputTypes /\ MarketTypes /\ TakerTypes
    BY InvParts
  <1> DEFINE id == Target(r)
  <1>1. /\ faults = {} /\ taker = NoTaker /\ taker' = NoTaker /\ UNCHANGED next_order_id
        /\ CheckReplace(r, late)
    BY DEF HandleReplaceInPlace, BeginInput, idVars
  <1>2. Indexed
    BY <1>1 DEF IndexInv
  <1>3. id \in OrderIds /\ orders[id] # NoOrder /\ orders[id] \in OrderNode
        /\ orders[id].account = r.account
    BY <1>1, <1>2, ReplaceTarget, ReplaceKeys
  <1>4. CASE RemoveOrder(id, r.account, orders[id].client_order_id)
    <2>1. Indexed'
      BY <1>2, <1>3, <1>4, RemoveIndexed
    <2>2. IdsBelowNext'
      BY <1>1, <1>3, <1>4, RemoveShrinks, IdsFrame DEF IndexInv
    <2> QED BY <1>1, <2>1, <2>2 DEF IndexInv, TakerUnlisted
  <1>5. CASE /\ orders' = [orders EXCEPT ![id].total = r.quantity]
             /\ UNCHANGED <<live_orders, client_orders>>
    <2> DEFINE node == [orders[id] EXCEPT !.total = r.quantity]
    <2>1. orders' = [orders EXCEPT ![id] = node]
      BY <1>5
    <2>2. node \in OrderNode
      BY <1>3, RequestType DEF OrderNode, OrderRequest
    <2>3. /\ node # NoOrder /\ node.account = orders[id].account
          /\ node.instrument = orders[id].instrument /\ node.side = orders[id].side
          /\ node.price = orders[id].price
          /\ node.client_order_id = orders[id].client_order_id
      BY <1>3, <2>2, AbsentAssumption DEF OrderNode
    <2> HIDE DEF node
    <2>4. Indexed'
      BY <1>2, <1>3, <1>5, <2>1, <2>3, AmendIndexed
    <2>5. Shrinks
      BY <1>3, <2>1, <2>3 DEF Shrinks, BookTypes
    <2>6. IdsBelowNext'
      BY <1>1, <2>5, IdsFrame DEF IndexInv
    <2> QED BY <1>1, <2>4, <2>6 DEF IndexInv, TakerUnlisted
  <1> QED BY <1>4, <1>5 DEF HandleReplaceInPlace

\* A requeued order is in no map while it is matched again.
LEMMA ReplaceRequeueIndex ==
  ASSUME IInv, IndexInv, NEW r \in Requests, NEW late, HandleReplaceRequeue(r, late)
  PROVE  IndexInv'
  <1> /\ BookTypes /\ LedgerTypes /\ AdminTypes /\ RequestTypes
      /\ IdTypes /\ OutputTypes /\ MarketTypes /\ TakerTypes
    BY InvParts
  <1> DEFINE id == Target(r)
             client == orders[id].client_order_id
  <1>1. /\ faults = {} /\ taker = NoTaker /\ UNCHANGED next_order_id
        /\ CheckReplace(r, late) /\ RemoveOrder(id, r.account, client)
    BY DEF HandleReplaceRequeue, BeginInput, idVars
  <1>2. Indexed
    BY <1>1 DEF IndexInv
  <1>3. id \in OrderIds /\ orders[id] # NoOrder /\ orders[id] \in OrderNode
        /\ orders[id].account = r.account /\ r.account \in Accounts
    BY <1>1, <1>2, ReplaceTarget, ReplaceKeys
  <1>4. Indexed'
    BY <1>1, <1>2, <1>3, RemoveIndexed
  <1>5. \/ taker' = NoTaker
        \/ taker'.order = id /\ taker'.request = r /\ taker'.client = client
    <2>1. \/ taker' = taker
          \/ taker' = Taker(r, id, r.price, r.quantity - orders[id].cumulative,
                            orders[id].cumulative, client)
      BY DEF HandleReplaceRequeue
    <2> HIDE DEF client
    <2> QED BY <1>1, <2>1, SMT DEF Taker
  <1>6. id <= next_order_id
    BY <1>3 DEF IndexInv, IdsBelowNext
  <1>7. Shrinks
    BY <1>1, <1>3, RemoveShrinks
  <1>8. IdsBelowNext'
    BY <1>1, <1>5, <1>6, <1>7 DEF IndexInv, IdsBelowNext, Shrinks
  <1>9. orders'[id] = NoOrder /\ client_orders'[<<r.account, client>>] = NoId
    BY <1>1, <1>3 DEF RemoveOrder, BookTypes, OrderNode
  <1>10. TakerUnlisted'
    BY <1>5, <1>9 DEF TakerUnlisted
  <1> QED BY <1>4, <1>8, <1>10 DEF IndexInv

\* A fill removes an exhausted maker from the book and from both maps.
LEMMA FillIndex ==
  ASSUME IInv, IndexInv, Fill
  PROVE  IndexInv'
  <1> /\ BookTypes /\ LedgerTypes /\ AdminTypes /\ RequestTypes
      /\ IdTypes /\ OutputTypes /\ MarketTypes /\ TakerTypes
    BY InvParts
  <1>1. Matching /\ taker # NoTaker /\ UNCHANGED next_order_id
    BY DEF Fill, Matching
  <1>2. PICK id \in Makers : LET maker == orders[id] IN
           /\ FillMaker(id, FillLots(maker))
           /\ IF Remaining(maker) = FillLots(maker)
              THEN /\ live_orders' = [live_orders EXCEPT ![id] = NoOrder]
                   /\ client_orders' =
                        [client_orders EXCEPT ![<<maker.account, maker.client_order_id>>] = NoId]
              ELSE UNCHANGED <<live_orders, client_orders>>
           /\ taker' = [taker EXCEPT !.filled = @ + FillLots(maker)]
    BY DEF Fill
  <1> DEFINE maker == orders[id]
             key == <<maker.account, maker.client_order_id>>
  <1>3. id \in OrderIds /\ maker # NoOrder /\ maker \in OrderNode
    BY <1>1, FillLotsBounds
  <1>4. PICK lots \in Nat : lots = FillLots(maker)
    BY <1>1, FillLotsBounds
  <1>5. /\ taker'.order = taker.order /\ taker'.request = taker.request
        /\ taker'.client = taker.client
    BY <1>1, <1>2, TakerFacts DEF Taking
  <1>6. Shrinks
    BY <1>1, <1>2, FillMakerShrinks
  <1>7. IdsBelowNext'
    BY <1>1, <1>5, <1>6, IdsFrame DEF IndexInv
  <1>8. ASSUME faults = {}
        PROVE  Indexed'
    <2>1. Indexed
      BY <1>8 DEF IndexInv
    <2>2. CASE Remaining(maker) = FillLots(maker)
      <3>1. RemoveOrder(id, maker.account, maker.client_order_id)
        BY <1>2, <2>2 DEF FillMaker, RemoveOrder
      <3> QED BY <1>3, <2>1, <3>1, RemoveIndexed
    <2>3. CASE Remaining(maker) # FillLots(maker)
      <3> DEFINE node == [maker EXCEPT !.cumulative = maker.cumulative + lots]
      <3>1. orders' = [orders EXCEPT ![id] = node] /\ UNCHANGED <<live_orders, client_orders>>
        BY <1>2, <1>4, <2>3 DEF FillMaker
      <3>2. node \in OrderNode
        BY <1>3, <1>4, SMT DEF OrderNode
      <3>3. /\ node # NoOrder /\ node.account = maker.account
            /\ node.instrument = maker.instrument
            /\ node.client_order_id = maker.client_order_id
        BY <1>3, <3>2, AbsentAssumption DEF OrderNode
      <3> HIDE DEF node
      <3> QED BY <1>3, <2>1, <3>1, <3>3, AmendIndexed
    <2> QED BY <2>2, <2>3
  <1>9. ASSUME faults = {}
        PROVE  TakerUnlisted'
    <2>1. /\ orders[taker.order] = NoOrder
          /\ client_orders[<<taker.request.account, taker.client>>] = NoId
      BY <1>1, <1>9 DEF IndexInv, TakerUnlisted
    <2>2. /\ taker.order \in OrderIds
          /\ <<taker.request.account, taker.client>> \in Accounts \X ClientOrderIds
      BY <1>1, TakerFacts
    <2>3. orders'[taker.order] = NoOrder
      BY <1>6, <2>1, <2>2 DEF Shrinks
    <2>4. client_orders'[<<taker.request.account, taker.client>>] = NoId
      BY <1>2, <2>1, <2>2 DEF BookTypes
    <2> QED BY <1>5, <2>3, <2>4 DEF TakerUnlisted
  <1>10. faults \subseteq faults'
    BY DEF Fill
  <1> QED BY <1>7, <1>8, <1>9, <1>10 DEF IndexInv

\* A fill that is not booked latches a fault, and adds no order.
LEMMA FillUnsettledIndex ==
  ASSUME IInv, IndexInv, FillUnsettled
  PROVE  IndexInv'
  <1> /\ BookTypes /\ LedgerTypes /\ AdminTypes /\ RequestTypes
      /\ IdTypes /\ OutputTypes /\ MarketTypes /\ TakerTypes
    BY InvParts
  <1>1. Matching /\ taker # NoTaker /\ UNCHANGED next_order_id /\ faults' # {}
    BY DEF FillUnsettled, Matching, idVars
  <1>2. PICK id \in Makers :
           /\ FillMaker(id, FillLots(orders[id]))
           /\ taker' = [taker EXCEPT !.filled = @ + FillLots(orders[id]), !.settling = FALSE]
    BY DEF FillUnsettled
  <1>3. taker'.order = taker.order
    BY <1>1, <1>2, TakerFacts DEF Taking
  <1>4. Shrinks
    BY <1>1, <1>2, FillMakerShrinks
  <1> QED BY <1>1, <1>3, <1>4, IdsFrame DEF IndexInv

\* The remainder is listed under keys that were free.
LEMMA FinishRestIndex ==
  ASSUME IInv, IndexInv, FinishRest
  PROVE  IndexInv'
  <1> /\ BookTypes /\ LedgerTypes /\ AdminTypes /\ RequestTypes
      /\ IdTypes /\ OutputTypes /\ MarketTypes /\ TakerTypes
    BY InvParts
  <1> DEFINE r == taker.request
             lots == r.quantity - TakerCumulative
  <1>1. taker # NoTaker /\ RestOrder(r, lots) /\ taker' = NoTaker /\ UNCHANGED next_order_id
        /\ faults \subseteq faults'
    BY DEF FinishRest, Matched, Respond
  <1>2. CASE ~Inserts(r, lots)
    <2>1. UNCHANGED bookVars
      BY <1>1, <1>2 DEF RestOrder
    <2> QED BY <1>1, <2>1, IndexFrame
  <1>3. CASE Inserts(r, lots)
    <2> DEFINE node == [account |-> r.account, instrument |-> r.instrument,
                        client_order_id |-> taker.client, side |-> r.side, price |-> r.price,
                        total |-> r.quantity, cumulative |-> TakerCumulative,
                        priority |-> next_priority + 1]
    <2>1. /\ orders' = [orders EXCEPT ![taker.order] = node]
          /\ live_orders' = [live_orders EXCEPT ![taker.order] =
                                [account |-> node.account, instrument |-> node.instrument]]
          /\ client_orders' =
               [client_orders EXCEPT ![<<node.account, node.client_order_id>>] = taker.order]
      BY <1>1, <1>3 DEF RestOrder
    <2>2. next_priority + 1 \in 1 .. MaxPriority
      BY <1>3, NumberAssumption, SMT DEF Inserts, IdTypes
    <2>3. /\ node \in OrderNode /\ taker.order \in OrderIds
      BY <1>1, <2>2, TakerFacts DEF OrderNode, OrderRequest
    <2>4. node.account = r.account /\ node.client_order_id = taker.client
      OBVIOUS
    <2> HIDE DEF node
    <2>5. faults = {} => Indexed'
      BY <1>1, <2>1, <2>3, <2>4, InsertIndexed DEF IndexInv, TakerUnlisted
    <2>6. IdsBelowNext'
      <3>1. \A id \in OrderIds : id # taker.order => orders'[id] = orders[id]
        BY <2>1 DEF BookTypes
      <3> QED BY <1>1, <3>1 DEF IndexInv, IdsBelowNext
    <2> QED BY <1>1, <2>5, <2>6 DEF IndexInv, TakerUnlisted
  <1> QED BY <1>2, <1>3

\* Every step keeps the book and the maps in agreement.
LEMMA IndexStep ==
  ASSUME IInv, IndexInv, [Next]_vars
  PROVE  IndexInv'
  <1>1. ASSUME NEW c \in Controls, ApplyControl(c)
        PROVE  IndexInv'
    <2>1. UNCHANGED <<bookVars, idVars, taker>> /\ faults \subseteq faults'
      BY <1>1 DEF ApplyControl, SetGlobalKill, SetAccountEnabled, SetAccountLimits, ApplyUnknown,
                  PushState
    <2> QED BY <2>1, IndexFrame DEF idVars
  <1>2. ASSUME NEW i \in Instruments, NEW view \in MarketViews, ApplyMarket(i, view)
        PROVE  IndexInv'
    <2>1. UNCHANGED <<bookVars, idVars, taker>> /\ faults \subseteq faults'
      BY <1>2 DEF ApplyMarket, PushState
    <2> QED BY <2>1, IndexFrame DEF idVars
  <1>3. ASSUME NEW r \in Requests, ApplyRequest(r)
        PROVE  IndexInv'
    <2>1. ASSUME NEW late, ApplyRetry(r) \/ ApplyConflict(r) \/ ApplyReject(r, late)
                           \/ HandleNewIdsExhausted(r, late)
          PROVE  IndexInv'
      <3>1. UNCHANGED <<bookVars, idVars, taker>> /\ faults \subseteq faults'
        BY <2>1 DEF ApplyRetry, ApplyConflict, ApplyReject, HandleNewIdsExhausted, Respond
      <3> QED BY <3>1, IndexFrame DEF idVars
    <2> QED BY <1>3, <2>1, NewIndex, CancelIndex, ReplaceInPlaceIndex, ReplaceRequeueIndex
            DEF ApplyRequest
  <1>4. CASE FinishFilled \/ FinishMarketOrder \/ ApplyFaulted \/ ApplyEngineSeqExhausted
    <2>1. UNCHANGED <<bookVars, idVars>> /\ faults \subseteq faults'
          /\ (taker' = taker \/ taker' = NoTaker)
      BY <1>4 DEF FinishFilled, FinishMarketOrder, ApplyFaulted, ApplyEngineSeqExhausted, Respond
    <2> QED BY <2>1, IndexFrame DEF idVars
  <1>5. CASE UNCHANGED vars
    BY <1>5, IndexFrame DEF vars, idVars, outputVars
  <1> QED BY <1>1, <1>2, <1>3, <1>4, <1>5, FillIndex, FillUnsettledIndex, FinishRestIndex DEF Next

\* While no fault is latched, the book, live_orders and client_orders always
\* name the same orders: handle_cancel finds every live order in its book.
THEOREM IndexesAlwaysAgree == Spec => []IndexesAgree
  <1>1. Init => IInv /\ IndexInv
    <2> SUFFICES ASSUME Init
                 PROVE  IndexInv
      BY InitInv
    <2>1. IdsBelowNext /\ TakerUnlisted
      BY DEF Init, IdsBelowNext, TakerUnlisted
    <2>2. /\ \A id \in OrderIds : orders[id] = NoOrder /\ live_orders[id] = NoOrder
          /\ \A a \in Accounts, c \in ClientOrderIds : client_orders[<<a, c>>] = NoId
      BY DEF Init
    <2> QED BY <2>1, <2>2 DEF IndexInv, Indexed
  <1>2. IInv /\ IndexInv /\ [Next]_vars => (IInv /\ IndexInv)'
    BY StepInv, IndexStep
  <1>3. IndexInv => IndexesAgree
    BY DEF IndexInv, Indexed, IndexesAgree
  <1> QED BY <1>1, <1>2, <1>3, PTL DEF Spec

=============================================================================
