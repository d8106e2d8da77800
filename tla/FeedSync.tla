------------------------------ MODULE FeedSync ------------------------------
(***************************************************************************)
(* A venue, a channel and a MarketView.  The venue publishes numbered      *)
(* messages about its own book (external, modelled from generator.rs); the *)
(* channel loses, repeats and reorders them and may damage a price; the    *)
(* engine applies what arrives.                                            *)
(***************************************************************************)
EXTENDS MarketView, Sequences, SequencesExt

CONSTANTS
    Quantities,   \* level quantities, 0 deletes
    MaxMessages,  \* bound on published messages
    MaxEpoch,     \* bound on feed resets
    BadPrice,     \* a price outside the domain
    Depths        \* values of EngineConfig.max_market_depth

VARIABLES
    book,     \* the venue's book
    sent,     \* every message published so far; its number is its position
    truth,    \* truth[n]: the venue's book once message n was published
    epoch,    \* the venue's feed epoch
    view      \* the engine's MarketView

vars == <<book, sent, truth, epoch, view>>

Init ==
    /\ book = EmptyLadder
    /\ sent = <<>>
    /\ truth = <<>>
    /\ epoch = 0
    /\ \E max_depth \in Depths : view = NewView(max_depth)

\* Publish messages that leave the venue with book `new`.
Publish(messages, new) ==
    /\ Len(sent) + Len(messages) <= MaxMessages
    /\ sent' = sent \o [k \in 1 .. Len(messages) |-> messages[k] @@ [seq |-> Len(sent) + k]]
    /\ truth' = truth \o [k \in 1 .. Len(messages) |-> new]
    /\ book' = new
    /\ UNCHANGED view

PublishLevel(side, price, quantity) ==
    /\ book[side][price] # quantity
    /\ Publish(<<[kind |-> "LevelSet", side |-> side, price |-> price, quantity |-> quantity]>>,
               [book EXCEPT ![side][price] = quantity])
    /\ UNCHANGED epoch

PublishTrade(price) ==
    /\ Publish(<<[kind |-> "Trade", price |-> price]>>, book)
    /\ UNCHANGED epoch

\* A snapshot is one run of messages: begin, every level, end.
PublishSnapshot ==
    LET cells  == {c \in Sides \X Prices : book[c[1]][c[2]] # 0}
        levels == SetToSeq(cells)
        id     == Len(sent) + 1
    IN  /\ Publish(<<[kind |-> "SnapshotBegin", snapshot_seq |-> id]>>
                     \o [k \in 1 .. Len(levels) |->
                           [kind |-> "SnapshotLevel", side |-> levels[k][1], price |-> levels[k][2],
                            quantity |-> book[levels[k][1]][levels[k][2]]]]
                     \o <<[kind |-> "SnapshotEnd", snapshot_seq |-> id,
                           level_count |-> Len(levels)]>>,
                   book)
        /\ UNCHANGED epoch

PublishReset ==
    /\ epoch < MaxEpoch
    /\ epoch' = epoch + 1
    /\ Publish(<<[kind |-> "FeedReset", new_epoch |-> epoch + 1]>>, book)

\* Any published message may arrive next: messages are lost, repeated, reordered.
Deliver(n) ==
    /\ view' = ApplyMessage(view, sent[n])
    /\ UNCHANGED <<book, sent, truth, epoch>>

DeliverDamaged(n) ==
    /\ sent[n].kind \in Quoted
    /\ view' = ApplyMessage(view, [sent[n] EXCEPT !.price = BadPrice])
    /\ UNCHANGED <<book, sent, truth, epoch>>

DeliverHeartbeat ==
    /\ view' = ApplyMessage(view, [kind |-> "Heartbeat", seq |-> 0])
    /\ UNCHANGED <<book, sent, truth, epoch>>

Next ==
    \/ \E side \in Sides, price \in Prices \ {BadPrice}, quantity \in Quantities :
         PublishLevel(side, price, quantity)
    \/ \E price \in Prices \ {BadPrice} : PublishTrade(price)
    \/ PublishSnapshot
    \/ PublishReset
    \/ \E n \in 1 .. Len(sent) : Deliver(n) \/ DeliverDamaged(n)
    \/ DeliverHeartbeat

Spec == Init /\ [][Next]_vars

-----------------------------------------------------------------------------

\* While the feed is live the ladder is the venue's book as it was when the
\* venue sent the last message applied, whatever was lost, repeated, reordered
\* or damaged on the way, if the ladder is deep enough to hold the book.
LiveLadderIsVenueBook ==
    view.state = "Live" /\ view.max_depth >= Cardinality(Prices) =>
      view.levels = truth[view.last_source_seq]

\* Every level a bounded ladder shows is a level of the venue's book, with the
\* venue's quantity: depth trimming drops levels, down to max_depth a side, but
\* never leaves a stale one.  Nor does a damaged message move the collar: the
\* reference price, when there is one, lies in the instrument's price domain.
LadderIsGenuine ==
    /\ \A side \in Sides : Cardinality(Present(view.levels[side])) <= view.max_depth
    /\ view.state = "Live" =>
         \A side \in Sides : \A p \in Present(view.levels[side]) :
           view.levels[side][p] = truth[view.last_source_seq][side][p]
    /\ ReferencePrice(view) # NoPrice => ReferencePrice(view) \in MinPrice .. MaxPrice

\* A bounded ladder still shows the venue's best bid and best ask.
BestStaysCorrect ==
    view.state = "Live" =>
      \A side \in Sides : Best(view.levels, side) = Best(truth[view.last_source_seq], side)

=============================================================================
