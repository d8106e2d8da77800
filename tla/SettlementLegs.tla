--------------------------- MODULE SettlementLegs ---------------------------
(***************************************************************************)
(* How a settlement adapter turns the trades of a manifest into transfers: *)
(* buildLegs of the Solana and of the Canton client.  A trade carries the  *)
(* maker, the taker, the side of the aggressor and the notional amount     *)
(* (price times quantity); a leg says who pays whom how much.              *)
(***************************************************************************)
EXTENDS Integers, Sequences, SequencesExt, FiniteSetsExt

Buyer(trade) == IF trade.aggressor = "buy" THEN trade.taker ELSE trade.maker

Seller(trade) == IF trade.aggressor = "buy" THEN trade.maker ELSE trade.taker

\* One trade folded into the legs: a self trade moves nothing, any other is
\* added to the leg of its (payer, payee) pair, which keeps its place.
NetLeg(legs, trade) ==
    LET payer == Buyer(trade)
        payee == Seller(trade)
        k == SelectInSeq(legs, LAMBDA leg : leg.payer = payer /\ leg.payee = payee)
    IN  IF payer = payee THEN legs
        ELSE IF k = 0
        THEN Append(legs, [payer |-> payer, payee |-> payee, amount |-> trade.amount])
        ELSE [legs EXCEPT ![k].amount = @ + trade.amount]

NettedLegs(trades) == FoldLeft(NetLeg, <<>>, trades)

\* Accounts in order of first use: the payer of a leg, then its payee.
AccountsOf(legs) ==
    LET Add(seen, a) == IF Contains(seen, a) THEN seen ELSE Append(seen, a)
    IN  FoldLeft(LAMBDA seen, leg : Add(Add(seen, leg.payer), leg.payee), <<>>, legs)

\* What `legs' move into account a, less what they move out of it.
NetReceived(legs, a) ==
    FoldLeft(LAMBDA net, leg : net + (IF leg.payee = a THEN leg.amount ELSE 0)
                                   - (IF leg.payer = a THEN leg.amount ELSE 0), 0, legs)

\* What the trades owe account a, said from the taker's side: a taker who
\* bought pays the maker, a taker who sold is paid by the maker.
NetDue(trades, a) ==
    LET TakerPays(t) == IF t.aggressor = "buy" THEN t.amount ELSE -t.amount
    IN  FoldLeft(LAMBDA net, t : net + (IF t.maker = a THEN TakerPays(t) ELSE 0)
                                     - (IF t.taker = a THEN TakerPays(t) ELSE 0), 0, trades)
=============================================================================
