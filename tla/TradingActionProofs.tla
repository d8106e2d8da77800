------------------------- MODULE TradingActionProofs -------------------------
(***************************************************************************)
(* What a step of TradingCore may never do, for any accounts, instruments, *)
(* requests, limits and counter maxima.                                    *)
(*                                                                         *)
(* The worst-case position of an account moves out in two places only,     *)
(* where handle_new and handle_replace have just checked it; every other   *)
(* step, fills included, trades one term of the worst case for another.    *)
(* The output numbers have no holes, whatever the inputs.                  *)
(***************************************************************************)
EXTENDS TradingCoreProofs

\* First-order leaves by default; a leaf with arithmetic or function updates asks for SMT.
USE Zenon

-----------------------------------------------------------------------------
(* The worst-case position of one account, instrument and side.            *)

\* The three terms of a worst-case position are integers, before a step ...
LEMMA ReachParts ==
  ASSUME IInv, NEW a \in Accounts, NEW i \in Instruments, NEW side \in Sides
  PROVE  /\ position[<<a, i>>] \in Int /\ open_lots[<<a, i, side>>] \in Nat
         /\ InFlight(a, i, side) \in Nat
  <1>1. position[<<a, i>>] \in Int /\ open_lots[<<a, i, side>>] \in Nat
    BY NumberAssumption, InvParts, SMT DEF LedgerTypes, I64, MaxU64
  <1>2. InFlight(a, i, side) \in Nat
    BY TakerFacts, InvParts, SMT DEF InFlight, TakerTypes
  <1> QED BY <1>1, <1>2

\* ... and after it.
LEMMA ReachPartsAfter ==
  ASSUME IInv', NEW a \in Accounts, NEW i \in Instruments, NEW side \in Sides
  PROVE  /\ position'[<<a, i>>] \in Int /\ open_lots'[<<a, i, side>>] \in Nat
         /\ InFlight(a, i, side)' \in Nat
  <1>1. position'[<<a, i>>] \in Int /\ open_lots'[<<a, i, side>>] \in Nat
    BY NumberAssumption, SMT DEF IInv, LedgerTypes, I64, MaxU64
  <1>2. InFlight(a, i, side)' \in Nat
    BY SMT DEF IInv, InFlight, TakerTypes, Taking
  <1> QED BY <1>1, <1>2

\* The worst case does not move out when the position stays and the working
\* lots do not increase.
LEMMA NoGrowth ==
  ASSUME IInv, IInv', NEW a \in Accounts, NEW i \in Instruments, NEW side \in Sides,
         position'[<<a, i>>] = position[<<a, i>>],
         open_lots'[<<a, i, side>>] + InFlight(a, i, side)'
           <= open_lots[<<a, i, side>>] + InFlight(a, i, side)
  PROVE  ~Grows(a, i, side)
  BY ReachParts, ReachPartsAfter, SMT DEF Grows, Reach, WorstCase

\* No worst case moves out.
Still ==
    "Accounting" \notin faults' =>
      \A a \in Accounts, i \in Instruments, side \in Sides : ~Grows(a, i, side)

\* A worst case moves out only within the limit and only when trading is permitted.
Checked(a, i, side) ==
    /\ ~global_kill /\ enabled[a]
    /\ Magnitude(Reach(a, i, side)') <= limits[a].max_position_lots

Admitted ==
    "Accounting" \notin faults' =>
      \A a \in Accounts, i \in Instruments, side \in Sides :
         Grows(a, i, side) => Checked(a, i, side)

\* A step that leaves the ledger alone and does not touch, or ends, the execution.
LEMMA IdleStill ==
  ASSUME IInv, IInv', UNCHANGED ledgerVars, taker' = taker \/ taker' = NoTaker
  PROVE  Still
  <1> SUFFICES ASSUME NEW a \in Accounts, NEW i \in Instruments, NEW side \in Sides
               PROVE  ~Grows(a, i, side)
    BY DEF Still
  <1>1. open_lots[<<a, i, side>>] \in Nat /\ InFlight(a, i, side) \in Nat
    BY ReachParts
  <1>2. position' = position /\ open_lots' = open_lots
    BY DEF ledgerVars
  <1>3. InFlight(a, i, side)' = InFlight(a, i, side) \/ InFlight(a, i, side)' = 0
    BY DEF InFlight
  <1>4. open_lots'[<<a, i, side>>] + InFlight(a, i, side)'
          <= open_lots[<<a, i, side>>] + InFlight(a, i, side)
    BY <1>1, <1>2, <1>3, SMT
  <1> QED BY <1>2, <1>4, NoGrowth

\* Releasing a reservation while nothing executes.
LEMMA ReleaseStill ==
  ASSUME IInv, IInv', NEW acct \in Accounts, NEW inst \in Instruments, NEW s \in Sides,
         NEW lots \in Nat, NEW price, ReleaseReservation(acct, inst, s, lots, price),
         UNCHANGED position, taker = NoTaker, taker' = NoTaker
  PROVE  Still
  <1> SUFFICES ASSUME NEW a \in Accounts, NEW i \in Instruments, NEW side \in Sides
               PROVE  ~Grows(a, i, side)
    BY DEF Still
  <1>1. InFlight(a, i, side)' = 0 /\ InFlight(a, i, side) = 0
    BY DEF InFlight
  <1>2. open_lots[<<a, i, side>>] \in Nat /\ open_lots'[<<a, i, side>>] \in Nat
    BY ReachParts, ReachPartsAfter
  <1>3. open_lots \in [Accounts \X Instruments \X Sides -> 0 .. MaxU64]
    BY InvParts DEF LedgerTypes
  <1>4. \/ open_lots'[<<a, i, side>>] = open_lots[<<a, i, side>>]
        \/ open_lots'[<<a, i, side>>] = open_lots[<<a, i, side>>] - lots
    BY <1>3 DEF ReleaseReservation
  <1>5. open_lots'[<<a, i, side>>] + InFlight(a, i, side)'
          <= open_lots[<<a, i, side>>] + InFlight(a, i, side)
    BY <1>1, <1>2, <1>4, SMT
  <1> QED BY <1>5, NoGrowth

-----------------------------------------------------------------------------
(* Requests.                                                               *)

\* handle_new puts the whole quantity in flight, after checking it.
LEMMA NewAdmitted ==
  ASSUME IInv, IInv', NEW r \in Requests, NEW late, HandleNew(r, late)
  PROVE  Admitted
  <1>1. /\ taker = NoTaker /\ UNCHANGED <<position, open_lots>>
        /\ taker' = Taker(r, next_order_id + 1, ExecutionLimit(r), r.quantity, 0,
                          r.client_order_id)
        /\ r.account \in Accounts /\ r.instrument \in Instruments
        /\ CheckTradingPermitted(r.account)
        /\ CheckWorstCasePosition(r.account, r.instrument, r.side, r.quantity, 0)
    BY DEF HandleNew, BeginInput, CheckNewOrder, CheckExposure, ledgerVars
  <1>2. r.quantity \in Nat /\ r.side \in Sides
    BY RequestType DEF OrderRequest
  <1> SUFFICES ASSUME NEW a \in Accounts, NEW i \in Instruments, NEW side \in Sides,
                      Grows(a, i, side)
               PROVE  Checked(a, i, side)
    BY DEF Admitted
  <1>3. InFlight(a, i, side) = 0
    BY <1>1 DEF InFlight
  <1>4. r.account = a /\ r.instrument = i /\ r.side = side /\ InFlight(a, i, side)' = r.quantity
    <2>1. taker'.request = r /\ taker'.quantity = r.quantity /\ taker'.filled = 0
      BY <1>1 DEF Taker
    <2>2. InFlight(a, i, side)' # 0
      <3> SUFFICES ASSUME InFlight(a, i, side)' = 0
                   PROVE  FALSE
        OBVIOUS
      <3>1. open_lots[<<a, i, side>>] \in Nat
        BY ReachParts
      <3>2. open_lots'[<<a, i, side>>] + InFlight(a, i, side)'
              <= open_lots[<<a, i, side>>] + InFlight(a, i, side)
        BY <1>1, <1>3, <3>1, SMT
      <3> QED BY <1>1, <3>2, NoGrowth
    <2> QED BY <1>2, <2>1, <2>2, SMT DEF InFlight
  <1>5. Reach(a, i, side)' =
          WorstCase(side, position[<<a, i>>], open_lots[<<a, i, side>>] - 0 + r.quantity)
    BY <1>1, <1>2, <1>4, ReachParts, SMT DEF Reach, WorstCase
  <1> QED BY <1>1, <1>4, <1>5 DEF Checked, CheckTradingPermitted, CheckWorstCasePosition

\* handle_replace swaps a reservation for lots in flight, after checking both.
LEMMA RequeueAdmitted ==
  ASSUME IInv, IInv', NEW r \in Requests, NEW late, HandleReplaceRequeue(r, late)
  PROVE  Admitted
  <1> DEFINE id == Target(r)
             existing == orders[id]
  <1>1. /\ taker = NoTaker /\ UNCHANGED position
        /\ CheckReplace(r, late)
        /\ ReleaseReservation(r.account, r.instrument, existing.side, Remaining(existing),
                              existing.price)
    BY DEF HandleReplaceRequeue, BeginInput
  <1>2. /\ r.account \in Accounts /\ r.instrument \in Instruments /\ r.side \in Sides
        /\ existing.side = r.side /\ r.quantity \in Nat
        /\ existing.cumulative \in Nat /\ existing.cumulative <= r.quantity
        /\ Remaining(existing) \in Nat
    BY <1>1, ReplaceTarget DEF OrderNode
  <1>3. PICK out_lots \in Nat : out_lots = Remaining(existing)
    BY <1>2
  <1>4. PICK in_lots \in Nat : in_lots = r.quantity - existing.cumulative
    BY <1>2, SMT
  <1>5. /\ CheckTradingPermitted(r.account)
        /\ CheckWorstCasePosition(r.account, r.instrument, r.side, in_lots, out_lots)
    BY <1>1, <1>3, <1>4 DEF CheckReplace, CheckExposure
  <1>6. CASE taker' = NoTaker
    <2>1. Still
      BY <1>1, <1>2, <1>6, ReleaseStill
    <2> QED BY <2>1 DEF Still, Admitted
  <1>7. CASE taker' # NoTaker
    <2>1. taker' = Taker(r, id, r.price, r.quantity - existing.cumulative,
                         existing.cumulative, existing.client_order_id)
      BY <1>1, <1>7 DEF HandleReplaceRequeue
    <2>2. taker'.request = r /\ taker'.quantity = in_lots /\ taker'.filled = 0
      BY <1>4, <2>1 DEF Taker
    <2>3. open_lots[<<r.account, r.instrument, r.side>>] >= out_lots
      BY <1>5 DEF CheckWorstCasePosition
    <2>4. open_lots' = [open_lots EXCEPT ![<<r.account, r.instrument, r.side>>] = @ - out_lots]
      BY <1>1, <1>2, <1>3, <2>3 DEF ReleaseReservation
    <2> SUFFICES ASSUME NEW a \in Accounts, NEW i \in Instruments, NEW side \in Sides,
                        Grows(a, i, side)
                 PROVE  Checked(a, i, side)
      BY DEF Admitted
    <2>5. InFlight(a, i, side) = 0
      BY <1>1 DEF InFlight
    <2>6. CASE <<a, i, side>> # <<r.account, r.instrument, r.side>>
      <3>1. InFlight(a, i, side)' = 0
        BY <2>2, <2>6 DEF InFlight
      <3>2. open_lots'[<<a, i, side>>] = open_lots[<<a, i, side>>]
        BY <2>4, <2>6, InvParts DEF LedgerTypes
      <3>3. open_lots[<<a, i, side>>] \in Nat
        BY ReachParts
      <3>4. open_lots'[<<a, i, side>>] + InFlight(a, i, side)'
              <= open_lots[<<a, i, side>>] + InFlight(a, i, side)
        BY <2>5, <3>1, <3>2, <3>3, SMT
      <3> QED BY <1>1, <3>4, NoGrowth
    <2>7. CASE <<a, i, side>> = <<r.account, r.instrument, r.side>>
      <3>1. a = r.account /\ i = r.instrument /\ side = r.side
        BY <2>7
      <3>2. InFlight(a, i, side)' = in_lots
        BY <1>7, <2>2, <3>1, SMT DEF InFlight
      <3>3. open_lots'[<<a, i, side>>] = open_lots[<<a, i, side>>] - out_lots
        BY <2>4, <3>1, InvParts DEF LedgerTypes
      <3>4. Reach(a, i, side)' =
              WorstCase(side, position[<<a, i>>],
                        open_lots[<<a, i, side>>] - out_lots + in_lots)
        BY <1>1, <3>2, <3>3 DEF Reach
      <3> QED BY <1>5, <3>1, <3>4 DEF Checked, CheckTradingPermitted, CheckWorstCasePosition
    <2> QED BY <2>6, <2>7
  <1> QED BY <1>6, <1>7

\* A cancel only releases.
LEMMA CancelStill ==
  ASSUME IInv, IInv', NEW r \in Requests, HandleCancel(r)
  PROVE  Still
  <1> DEFINE id == Target(r)
             live == live_orders[id]
             node == orders[id]
  <1>1. /\ taker = NoTaker /\ taker' = NoTaker /\ UNCHANGED position
        /\ InBook(live.instrument, id) /\ CheckCancel(r)
        /\ ReleaseReservation(live.account, live.instrument, node.side, Remaining(node),
                              node.price)
    BY DEF HandleCancel, BeginInput
  <1>2. id \in OrderIds /\ node # NoOrder /\ live # NoOrder
    BY <1>1 DEF InBook, CheckCancel
  <1>3. node \in OrderNode /\ Remaining(node) \in Nat
    BY <1>2, RestingNode, InvParts
  <1>4. live.account \in Accounts /\ live.instrument \in Instruments /\ node.side \in Sides
    BY <1>2, <1>3, InvParts DEF BookTypes, LiveOrder, OrderNode
  <1> QED BY <1>1, <1>3, <1>4, ReleaseStill

\* A replace that keeps its place only releases, too.
LEMMA ReplaceInPlaceStill ==
  ASSUME IInv, IInv', NEW r \in Requests, NEW late, HandleReplaceInPlace(r, late)
  PROVE  Still
  <1> DEFINE existing == orders[Target(r)]
  <1>1. /\ taker = NoTaker /\ taker' = NoTaker /\ UNCHANGED position /\ CheckReplace(r, late)
        /\ r.quantity < existing.total
        /\ ReleaseReservation(r.account, r.instrument, existing.side,
                              existing.total - r.quantity, existing.price)
    BY DEF HandleReplaceInPlace, BeginInput, ReplaceKeepsPriority
  <1>2. /\ r.account \in Accounts /\ r.instrument \in Instruments /\ existing.side \in Sides
        /\ r.quantity \in Nat /\ existing.total \in Nat
    BY <1>1, ReplaceTarget DEF OrderNode
  <1>3. existing.total - r.quantity \in Nat
    BY <1>1, <1>2, SMT
  <1> QED BY <1>1, <1>2, <1>3, ReleaseStill

-----------------------------------------------------------------------------
(* Execution.                                                              *)

\* A fill moves lots from the maker's reservation into the maker's position, and
\* from what the taker has in flight into the taker's position; when both are
\* one account the position stays and both other terms shrink.
LEMMA FillStill ==
  ASSUME IInv, IInv', Fill
  PROVE  Still
  <1> SUFFICES ASSUME "Accounting" \notin faults', NEW a \in Accounts, NEW i \in Instruments,
                      NEW side \in Sides
               PROVE  ~Grows(a, i, side)
    BY DEF Still
  <1> DEFINE t == taker.request.account
             inst == TakerInstrument
             ts == TakerSide
  <1>1. Matching /\ taker # NoTaker
    BY DEF Fill, Matching
  <1>2. PICK id \in Makers : LET
           maker  == orders[id]
           lots   == FillLots(maker)
           settled == ApplyFillToPosition(position, maker.account, inst, maker.side, lots)
       IN  /\ ReleaseReservation(maker.account, inst, maker.side, lots, maker.price)
           /\ position' = ApplyFillToPosition(settled, t, inst, ts, lots)
           /\ ReleaseFault(maker.account, inst, maker.side, lots, maker.price) \subseteq faults'
           /\ FillFault(position, maker.account, inst, maker.side, lots) \subseteq faults'
           /\ FillFault(settled, t, inst, ts, lots) \subseteq faults'
           /\ taker' = [taker EXCEPT !.filled = @ + lots]
    BY DEF Fill
  <1>3. PICK lots \in Nat : lots = FillLots(orders[id])
    BY <1>1, FillLotsBounds, InvParts
  <1>4. /\ orders[id] \in OrderNode /\ orders[id].side = Opposite(ts)
        /\ taker.filled + lots <= taker.quantity
    BY <1>1, <1>3, FillLotsBounds, InvParts
  <1>5. PICK m \in Accounts : m = orders[id].account
    BY <1>4 DEF OrderNode
  <1>6. PICK ms \in Sides : ms = orders[id].side
    BY <1>4 DEF OrderNode
  <1>7. /\ t \in Accounts /\ inst \in Instruments /\ ts \in Sides /\ taker \in Taking
        /\ taker.quantity \in Nat /\ taker.filled \in Nat
    BY <1>1, TakerFacts, InvParts
  <1>8. PICK settled : settled = ApplyFillToPosition(position, m, inst, ms, lots)
    OBVIOUS
  <1>9. position' = ApplyFillToPosition(settled, t, inst, ts, lots)
    BY <1>2, <1>3, <1>5, <1>6, <1>8
  <1>10. /\ position[<<m, inst>>] + Signed(ms, lots) \in I64
         /\ settled[<<t, inst>>] + Signed(ts, lots) \in I64
         /\ open_lots[<<m, inst, ms>>] >= lots
    <2>1. open_lots[<<m, inst, ms>>] \in Nat
      BY <1>7, ReachParts
    <2> QED BY <1>2, <1>3, <1>5, <1>6, <1>8, <2>1, SMT DEF ReleaseFault, FillFault, Raised
  <1>11. /\ position \in [Accounts \X Instruments -> I64]
         /\ open_lots \in [Accounts \X Instruments \X Sides -> 0 .. MaxU64]
    BY InvParts DEF LedgerTypes
  <1>12. settled = [position EXCEPT ![<<m, inst>>] = position[<<m, inst>>] + Signed(ms, lots)]
    BY <1>8, <1>10 DEF ApplyFillToPosition
  <1>13. position' = [settled EXCEPT ![<<t, inst>>] = settled[<<t, inst>>] + Signed(ts, lots)]
    BY <1>9, <1>10 DEF ApplyFillToPosition
  <1>14. open_lots' = [open_lots EXCEPT ![<<m, inst, ms>>] = open_lots[<<m, inst, ms>>] - lots]
    BY <1>2, <1>3, <1>5, <1>6, <1>10 DEF ReleaseReservation
  <1>15. /\ position[<<a, i>>] \in Int /\ open_lots[<<a, i, side>>] \in Nat
         /\ InFlight(a, i, side) \in Nat
    BY ReachParts
  <1>16. InFlight(a, i, side)' =
           IF a = t /\ i = inst /\ side = ts THEN InFlight(a, i, side) - lots
           ELSE InFlight(a, i, side)
    <2>1. /\ taker'.request = taker.request /\ taker'.quantity = taker.quantity
          /\ taker'.filled = taker.filled + lots
      BY <1>2, <1>3, <1>7 DEF Taking
    <2>2. taker' # NoTaker
      <3>1. [taker EXCEPT !.filled = taker.filled + lots] \in Taking
        BY <1>3, <1>7, SMT DEF Taking
      <3> QED BY <1>2, <1>3, <3>1, AbsentAssumption
    <2> QED BY <1>1, <1>3, <1>7, <2>1, <2>2, SMT DEF InFlight, TakerInstrument, TakerSide
  <1>17. open_lots'[<<a, i, side>>] =
           IF a = m /\ i = inst /\ side = ms THEN open_lots[<<a, i, side>>] - lots
           ELSE open_lots[<<a, i, side>>]
    BY <1>11, <1>14
  <1>18. position'[<<a, i>>] =
           position[<<a, i>>] + (IF a = m /\ i = inst THEN Signed(ms, lots) ELSE 0)
                              + (IF a = t /\ i = inst THEN Signed(ts, lots) ELSE 0)
    <2>1. Signed(ms, lots) \in Int /\ Signed(ts, lots) \in Int
      BY SMT DEF Signed
    <2>2. settled[<<a, i>>] =
            position[<<a, i>>] + (IF a = m /\ i = inst THEN Signed(ms, lots) ELSE 0)
      BY <1>11, <1>12, <1>15, <2>1, SMT
    <2>3. DOMAIN settled = Accounts \X Instruments /\ settled[<<a, i>>] \in Int
      BY <1>11, <1>12, <1>15, <2>1, <2>2, SMT
    <2>4. position'[<<a, i>>] =
            settled[<<a, i>>] + (IF a = t /\ i = inst THEN Signed(ts, lots) ELSE 0)
      BY <1>7, <1>11, <1>12, <1>13, <2>3, SMT
    <2> QED BY <2>2, <2>4
  <1>19. ms = Opposite(ts)
    BY <1>4, <1>6
  <1> HIDE DEF t, inst, ts
  <1>20. CASE i # inst
    BY <1>15, <1>16, <1>17, <1>18, <1>20, NoGrowth, SMT
  <1>21. CASE i = inst /\ side = "Buy"
    BY <1>7, <1>15, <1>16, <1>17, <1>18, <1>19, <1>21, SMT
       DEF Grows, Reach, WorstCase, Signed, Opposite, Sides
  <1>22. CASE i = inst /\ side = "Sell"
    BY <1>7, <1>15, <1>16, <1>17, <1>18, <1>19, <1>22, SMT
       DEF Grows, Reach, WorstCase, Signed, Opposite, Sides
  <1> QED BY <1>20, <1>21, <1>22 DEF Sides

\* A fill that is not booked still takes lots out of flight.
LEMMA FillUnsettledStill ==
  ASSUME IInv, IInv', FillUnsettled
  PROVE  Still
  <1> SUFFICES ASSUME NEW a \in Accounts, NEW i \in Instruments, NEW side \in Sides
               PROVE  ~Grows(a, i, side)
    BY DEF Still
  <1>1. Matching /\ taker # NoTaker /\ position' = position /\ open_lots' = open_lots
    BY DEF FillUnsettled, Matching, ledgerVars
  <1>2. PICK id \in Makers :
          taker' = [taker EXCEPT !.filled = @ + FillLots(orders[id]), !.settling = FALSE]
    BY DEF FillUnsettled
  <1>3. PICK lots \in Nat : lots = FillLots(orders[id])
    BY <1>1, FillLotsBounds, InvParts
  <1>4. taker \in Taking /\ taker.quantity \in Nat /\ taker.filled \in Nat
    BY <1>1, TakerFacts, InvParts
  <1>5. /\ taker'.request = taker.request /\ taker'.quantity = taker.quantity
        /\ taker'.filled = taker.filled + lots
    BY <1>2, <1>3, <1>4 DEF Taking
  <1>6. InFlight(a, i, side) \in Nat /\ open_lots[<<a, i, side>>] \in Nat
    BY ReachParts
  <1>7. \/ InFlight(a, i, side)' = 0
        \/ InFlight(a, i, side)' = InFlight(a, i, side) - lots
    BY <1>1, <1>4, <1>5, SMT DEF InFlight
  <1>8. open_lots'[<<a, i, side>>] + InFlight(a, i, side)'
          <= open_lots[<<a, i, side>>] + InFlight(a, i, side)
    BY <1>1, <1>6, <1>7, SMT
  <1> QED BY <1>1, <1>8, NoGrowth

\* Resting the remainder turns lots in flight into reserved lots.
LEMMA FinishRestStill ==
  ASSUME IInv, IInv', FinishRest
  PROVE  Still
  <1> SUFFICES ASSUME NEW a \in Accounts, NEW i \in Instruments, NEW side \in Sides
               PROVE  ~Grows(a, i, side)
    BY DEF Still
  <1> DEFINE r == taker.request
  <1>1. /\ taker # NoTaker /\ taker' = NoTaker /\ position' = position
        /\ RestOrder(r, r.quantity - TakerCumulative)
    BY DEF FinishRest, Matched
  <1>2. /\ taker.quantity \in Nat /\ taker.filled \in Nat /\ taker.prior \in Nat
        /\ taker.filled <= taker.quantity
        /\ taker.quantity + taker.prior = r.quantity
        /\ r.account \in Accounts /\ r.instrument \in Instruments /\ r.side \in Sides
    BY <1>1, TakerFacts, InvParts DEF TakerTypes, TakerSide
  <1>3. PICK lots \in Nat : lots = taker.quantity - taker.filled
    BY <1>2, SMT
  <1>4. RestOrder(r, lots)
    BY <1>1, <1>2, <1>3, SMT DEF TakerCumulative
  <1>5. /\ open_lots[<<a, i, side>>] \in Nat /\ open_lots'[<<a, i, side>>] \in Nat
        /\ InFlight(a, i, side) \in Nat
        /\ open_lots \in [Accounts \X Instruments \X Sides -> 0 .. MaxU64]
    BY ReachParts, ReachPartsAfter, InvParts DEF LedgerTypes
  <1>6. InFlight(a, i, side)' = 0
    BY <1>1 DEF InFlight
  <1>7. CASE <<a, i, side>> = <<r.account, r.instrument, r.side>>
    <2>1. a = r.account /\ i = r.instrument /\ side = r.side
      BY <1>7
    <2>2. InFlight(a, i, side) = lots
      BY <1>1, <1>3, <2>1 DEF InFlight
    <2>3. \/ open_lots'[<<a, i, side>>] = open_lots[<<a, i, side>>]
          \/ open_lots'[<<a, i, side>>] = open_lots[<<a, i, side>>] + lots
      BY <1>4, <1>5, <2>1 DEF RestOrder, Reserve
    <2>4. open_lots'[<<a, i, side>>] + InFlight(a, i, side)'
            <= open_lots[<<a, i, side>>] + InFlight(a, i, side)
      BY <1>5, <1>6, <2>2, <2>3, SMT
    <2> QED BY <1>1, <2>4, NoGrowth
  <1>8. CASE <<a, i, side>> # <<r.account, r.instrument, r.side>>
    <2>1. open_lots'[<<a, i, side>>] = open_lots[<<a, i, side>>]
      BY <1>4, <1>5, <1>8 DEF RestOrder, Reserve
    <2>2. open_lots'[<<a, i, side>>] + InFlight(a, i, side)'
            <= open_lots[<<a, i, side>>] + InFlight(a, i, side)
      BY <1>5, <1>6, <2>1, SMT
    <2> QED BY <1>1, <2>2, NoGrowth
  <1> QED BY <1>7, <1>8

-----------------------------------------------------------------------------
(* The theorems.                                                           *)

\* Every step of the engine admits only exposure it has checked.
LEMMA StepAdmitted ==
  ASSUME IInv, [Next]_vars
  PROVE  Admitted
  <1>1. IInv'
    BY StepInv
  <1>2. Still => Admitted
    BY DEF Still, Admitted
  <1>3. ASSUME NEW c \in Controls, ApplyControl(c)
        PROVE  Still
    <2>1. UNCHANGED <<ledgerVars, taker>>
      BY <1>3 DEF ApplyControl, SetGlobalKill, SetAccountEnabled, SetAccountLimits, ApplyUnknown
    <2> QED BY <1>1, <2>1, IdleStill
  <1>4. ASSUME NEW i \in Instruments, NEW view \in MarketViews, ApplyMarket(i, view)
        PROVE  Still
    <2>1. UNCHANGED <<ledgerVars, taker>>
      BY <1>4 DEF ApplyMarket
    <2> QED BY <1>1, <2>1, IdleStill
  <1>5. ASSUME NEW r \in Requests, ApplyRequest(r)
        PROVE  Admitted
    <2>1. ASSUME NEW late, ApplyRetry(r) \/ ApplyConflict(r) \/ ApplyReject(r, late)
                           \/ HandleNewIdsExhausted(r, late)
          PROVE  Still
      <3>1. UNCHANGED <<ledgerVars, taker>>
        BY <2>1 DEF ApplyRetry, ApplyConflict, ApplyReject, HandleNewIdsExhausted
      <3> QED BY <1>1, <3>1, IdleStill
    <2> QED BY <1>1, <1>2, <1>5, <2>1, NewAdmitted, CancelStill, ReplaceInPlaceStill,
               RequeueAdmitted DEF ApplyRequest
  <1>6. CASE FinishFilled \/ FinishMarketOrder \/ ApplyFaulted \/ ApplyEngineSeqExhausted
    <2>1. UNCHANGED ledgerVars /\ (taker' = taker \/ taker' = NoTaker)
      BY <1>6 DEF FinishFilled, FinishMarketOrder, ApplyFaulted, ApplyEngineSeqExhausted
    <2> QED BY <1>1, <1>2, <2>1, IdleStill
  <1>7. CASE UNCHANGED vars
    BY <1>1, <1>2, <1>7, IdleStill DEF vars
  <1>8. CASE Fill \/ FillUnsettled \/ FinishRest
    BY <1>1, <1>2, <1>8, FillStill, FillUnsettledStill, FinishRestStill
  <1> QED BY <1>2, <1>3, <1>4, <1>5, <1>6, <1>7, <1>8 DEF Next

\* Whatever is submitted, a worst-case position moves out only to a place inside
\* the position limit then in force: check_exposure covers fills and requeues.
THEOREM ExposureWithinLimit == Spec => ExposureGrowsWithinLimit
  <1>1. Init => IInv
    BY InitInv
  <1>2. IInv /\ [Next]_vars => IInv'
    BY StepInv
  <1>3. IInv /\ [Next]_vars => [GrowthIsWithinLimit]_vars
    BY StepAdmitted DEF Admitted, Checked, GrowthIsWithinLimit
  <1> QED BY <1>1, <1>2, <1>3, PTL DEF Spec, ExposureGrowsWithinLimit

\* Under the kill switch, and for a disabled account, no step of any kind moves
\* a worst-case position out.
THEOREM NoUnpermittedRisk == Spec => NoNewRiskUnlessPermitted
  <1>1. Init => IInv
    BY InitInv
  <1>2. IInv /\ [Next]_vars => IInv'
    BY StepInv
  <1>3. IInv /\ [Next]_vars => [GrowthIsPermitted]_vars
    BY StepAdmitted DEF Admitted, Checked, GrowthIsPermitted
  <1> QED BY <1>1, <1>2, <1>3, PTL DEF Spec, NoNewRiskUnlessPermitted

-----------------------------------------------------------------------------
(* Output numbers *)

\* An event that take_output_seq can number.
Numbered(e) == \A n : [e EXCEPT !.seq = n].seq = n

\* Reports, trades and state events can be numbered.
LEMMA EventsNumbered ==
  /\ \A r, kind, order, client, total, cumulative, remaining :
        Numbered(Report(r, kind, order, client, total, cumulative, remaining))
  /\ \A what : Numbered(StateEvent(what))
  /\ \A e \in Events : Numbered(e)
  BY DEF Numbered, Report, StateEvent, Events, Reports, Trades, StateEvents

\* An emission that does not run out of numbers leaves no hole.
LEMMA EmitDense ==
  ASSUME OutputTypes, NEW prefix \in {<<>>, out}, NEW events, Len(events) \in Nat,
         \A k \in 1 .. Len(events) : Numbered(events[k]),
         Emit(prefix, events), OutputExhausted(Len(events)) \subseteq faults'
  PROVE  NumbersAreDense
  <1> SUFFICES ASSUME faults' = {}
               PROVE  LET new  == output_seq' - output_seq
                          kept == Len(out') - new
                      IN  /\ kept \in {0, Len(out)}
                          /\ \A k \in 1 .. kept : out'[k] = out[k]
                          /\ \A k \in 1 .. new : out'[kept + k].seq = output_seq + k
    BY DEF NumbersAreDense
  <1> DEFINE numbered == [k \in 1 .. Len(events) |->
                             [events[k] EXCEPT !.seq = Least(output_seq + k, MaxOutputSeq)]]
             All == Events \cup {numbered[k] : k \in 1 .. Len(events)}
  <1>1. MaxOutputSeq \in Nat /\ output_seq \in Nat /\ out \in Seq(Events)
    BY NumberAssumption, SMT DEF OutputTypes
  <1>2. output_seq + Len(events) <= MaxOutputSeq
    BY <1>1, SMT DEF OutputExhausted, Raised
  <1>3. output_seq' = output_seq + Len(events)
    BY <1>1, <1>2 DEF Emit, Least
  <1>4. numbered \in Seq(All) /\ Len(numbered) = Len(events)
    <2>1. numbered \in [1 .. Len(events) -> All]
      OBVIOUS
    <2> HIDE DEF numbered, All
    <2>2. numbered \in Seq(All)
      BY <2>1, FunctionIsSeq
    <2> QED BY <2>1, <2>2, SMT
  <1>5. \A k \in 1 .. Len(events) : numbered[k].seq = output_seq + k
    <2> TAKE k \in 1 .. Len(events)
    <2>1. Least(output_seq + k, MaxOutputSeq) = output_seq + k
      BY <1>1, <1>2, SMT DEF Least
    <2>2. [events[k] EXCEPT !.seq = output_seq + k].seq = output_seq + k
      BY DEF Numbered
    <2> QED BY <2>1, <2>2
  <1>6. out' = prefix \o numbered
    BY DEF Emit
  <1>7. prefix \in Seq(All) /\ Len(prefix) \in {0, Len(out)}
        /\ \A k \in 1 .. Len(prefix) : prefix[k] = out[k]
    <2>1. CASE prefix = out
      <3>1. out \in Seq(All)
        BY <1>1, SMT
      <3> QED BY <2>1, <3>1
    <2>2. CASE prefix = <<>>
      BY <2>2, SMT
    <2> QED BY <2>1, <2>2
  <1> HIDE DEF numbered, All
  <1>8. /\ Len(out') = Len(prefix) + Len(events)
        /\ \A k \in 1 .. Len(prefix) : out'[k] = prefix[k]
        /\ \A k \in 1 .. Len(events) : out'[Len(prefix) + k] = numbered[k]
    BY <1>4, <1>6, <1>7, SMT
  <1>9. /\ output_seq' - output_seq = Len(events)
        /\ Len(out') - (output_seq' - output_seq) = Len(prefix)
    <2>1. Len(prefix) \in Nat
      BY <1>7, SMT
    <2> QED BY <1>1, <1>3, <1>8, <2>1, SMT
  <1> QED BY <1>5, <1>7, <1>8, <1>9

\* A step that emits nothing.
LEMMA QuietDense ==
  ASSUME OutputTypes, output_seq' = output_seq, out' = <<>> \/ out' = out
  PROVE  NumbersAreDense
  <1>1. output_seq \in Nat /\ Len(out) \in Nat
    BY NumberAssumption, SMT DEF OutputTypes
  <1>2. output_seq' - output_seq = 0 /\ Len(out') \in {0, Len(out)}
    BY <1>1, SMT
  <1>3. Len(out') - 0 = Len(out')
    BY <1>1, <1>2, SMT
  <1>4. \A k \in 1 .. Len(out') : out'[k] = out[k]
    BY SMT
  <1> QED BY <1>2, <1>3, <1>4, SMT DEF NumbersAreDense

\* One event.
LEMMA OneDense ==
  ASSUME OutputTypes, NEW prefix \in {<<>>, out}, NEW event, Numbered(event),
         Emit(prefix, <<event>>), OutputExhausted(1) \subseteq faults'
  PROVE  NumbersAreDense
  <1>1. Len(<<event>>) = 1 /\ \A k \in 1 .. 1 : <<event>>[k] = event
    BY SMT
  <1> QED BY <1>1, EmitDense

\* The end of a request emits one report.
LEMMA RespondDense ==
  ASSUME OutputTypes, NEW r, NEW report, Numbered(report), NEW prefix \in {<<>>, out},
         NEW raised, Respond(r, report, prefix, raised)
  PROVE  NumbersAreDense
  BY OneDense DEF Respond

\* push_state emits one event or none.
LEMMA PushStateDense ==
  ASSUME OutputTypes, NEW changed, NEW what, PushState(changed, what)
  PROVE  NumbersAreDense
  <1>1. CASE changed
    <2>1. Emit(<<>>, <<StateEvent(what)>>) /\ OutputExhausted(1) \subseteq faults'
      BY <1>1 DEF PushState
    <2> QED BY <2>1, EventsNumbered, OneDense
  <1>2. CASE ~changed
    <2>1. Emit(<<>>, <<>>)
      BY <1>2 DEF PushState
    <2>2. output_seq' = output_seq /\ out' = <<>>
      BY <2>1, NumberAssumption, SMT DEF Emit, Least, OutputTypes
    <2> QED BY <2>2, QuietDense
  <1> QED BY <1>1, <1>2

\* Every order request numbers its events without a hole.
LEMMA RequestDense ==
  ASSUME IInv, NEW r \in Requests, ApplyRequest(r)
  PROVE  NumbersAreDense
  <1> /\ BookTypes /\ LedgerTypes /\ AdminTypes /\ RequestTypes
      /\ IdTypes /\ OutputTypes /\ MarketTypes /\ TakerTypes
    BY InvParts
  <1>1. CASE ApplyRetry(r)
    <2> DEFINE outcome == Cache!Entry(cache[r.account], r.request_id).outcome
    <2>1. Emit(<<>>, <<outcome>>) /\ OutputExhausted(1) \subseteq faults'
      BY <1>1 DEF ApplyRetry
    <2>2. outcome \in Events
      BY <1>1, RetryOutcome DEF ApplyRetry, Events
    <2> HIDE DEF outcome
    <2> QED BY <2>1, <2>2, EventsNumbered, OneDense
  <1>2. ASSUME NEW late, ApplyConflict(r) \/ ApplyReject(r, late) \/ HandleNewIdsExhausted(r, late)
        PROVE  NumbersAreDense
    <2>1. PICK raised : Respond(r, RejectReport(r), <<>>, raised)
      BY <1>2 DEF ApplyConflict, ApplyReject, HandleNewIdsExhausted
    <2> QED BY <2>1, EventsNumbered, RespondDense DEF RejectReport
  <1>3. ASSUME NEW late, HandleNew(r, late)
        PROVE  NumbersAreDense
    BY <1>3, QuietDense DEF HandleNew
  <1>4. ASSUME NEW late, \/ HandleCancel(r) \/ HandleReplaceInPlace(r, late)
                         \/ HandleReplaceRequeue(r, late)
        PROVE  NumbersAreDense
    <2>1. \/ out' = <<>> /\ output_seq' = output_seq
          \/ \E kind, order, client, total, cumulative, remaining, raised :
                Respond(r, Report(r, kind, order, client, total, cumulative, remaining), <<>>,
                        raised)
      BY <1>4 DEF HandleCancel, HandleReplaceInPlace, HandleReplaceRequeue
    <2> QED BY <2>1, EventsNumbered, RespondDense, QuietDense
  <1> QED BY <1>1, <1>2, <1>3, <1>4 DEF ApplyRequest

\* A fill emits a trade and two reports, after what the execution emitted before.
LEMMA FillDense ==
  ASSUME IInv, Fill
  PROVE  NumbersAreDense
  <1> /\ BookTypes /\ LedgerTypes /\ AdminTypes /\ RequestTypes
      /\ IdTypes /\ OutputTypes /\ MarketTypes /\ TakerTypes
    BY InvParts
  <1>1. Matching /\ next_trade_id < MaxTradeId
    BY DEF Fill
  <1>2. PICK id \in Makers :
          /\ Emit(out, FillReports(id, orders[id], FillLots(orders[id])))
          /\ OutputExhausted(3) \subseteq faults'
    BY DEF Fill
  <1> DEFINE events == FillReports(id, orders[id], FillLots(orders[id]))
  <1>3. events \in Seq(Events)
    BY <1>1, FillReportsType
  <1>4. Len(events) = 3
    BY DEF FillReports
  <1> HIDE DEF events
  <1>5. \A k \in 1 .. Len(events) : Numbered(events[k])
    BY <1>3, EventsNumbered, SMT
  <1>6. Emit(out, events)
    BY <1>2 DEF events
  <1>7. Len(events) \in Nat /\ OutputExhausted(Len(events)) \subseteq faults'
        /\ out \in {<<>>, out}
    BY <1>2, <1>4, SMT
  <1> QED BY <1>5, <1>6, <1>7, EmitDense

\* Every step of the engine numbers its events without a hole.
LEMMA StepDense ==
  ASSUME IInv, [Next]_vars
  PROVE  NumbersAreDense
  <1> /\ BookTypes /\ LedgerTypes /\ AdminTypes /\ RequestTypes
      /\ IdTypes /\ OutputTypes /\ MarketTypes /\ TakerTypes
    BY InvParts
  <1>1. ASSUME NEW c \in Controls, ApplyControl(c)
        PROVE  NumbersAreDense
    <2>1. \E changed, what : PushState(changed, what)
      BY <1>1 DEF ApplyControl, SetGlobalKill, SetAccountEnabled, SetAccountLimits, ApplyUnknown
    <2> QED BY <2>1, PushStateDense
  <1>2. ASSUME NEW i \in Instruments, NEW view \in MarketViews, ApplyMarket(i, view)
        PROVE  NumbersAreDense
    BY <1>2, PushStateDense DEF ApplyMarket
  <1>3. CASE FinishFilled \/ FinishMarketOrder \/ FinishRest
    <2>1. \E kind, order, client, total, cumulative, remaining, raised :
             Respond(taker.request, Report(taker.request, kind, order, client, total, cumulative,
                                           remaining), out, raised)
      BY <1>3 DEF FinishFilled, FinishMarketOrder, FinishRest
    <2> QED BY <2>1, EventsNumbered, RespondDense
  <1>4. CASE FillUnsettled
    BY <1>4, QuietDense DEF FillUnsettled
  <1>5. CASE ApplyFaulted \/ ApplyEngineSeqExhausted
    BY <1>5, QuietDense DEF ApplyFaulted, ApplyEngineSeqExhausted
  <1>6. CASE UNCHANGED vars
    BY <1>6, QuietDense DEF vars, outputVars
  <1> QED BY <1>1, <1>2, <1>3, <1>4, <1>5, <1>6, RequestDense, FillDense DEF Next

\* Until a fault latches, every output event takes the number after its
\* predecessor's: take_output_seq skips none and no step drops an earlier event
\* of the same input.
THEOREM OutputsDense == Spec => OutputsNumberedDensely
  <1>1. Init => IInv
    BY InitInv
  <1>2. IInv /\ [Next]_vars => IInv'
    BY StepInv
  <1>3. IInv /\ [Next]_vars => [NumbersAreDense]_vars
    BY StepDense
  <1> QED BY <1>1, <1>2, <1>3, PTL DEF Spec, OutputsNumberedDensely
=============================================================================
