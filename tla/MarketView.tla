----------------------------- MODULE MarketView -----------------------------
(***************************************************************************)
(* The feed synchronisation state machine of                               *)
(* crates/trading-core/src/market.rs, as operators on a view: ApplyMessage *)
(* is MarketView::apply.  A side of the ladder maps each price to its      *)
(* quantity, 0 for an absent level.  Counters and receive times are left   *)
(* out; FeedSync connects a view to a venue and a lossy channel.           *)
(***************************************************************************)
EXTENDS Integers, FiniteSets, FiniteSetsExt

CONSTANTS
    Prices,              \* prices a message may carry
    MinPrice, MaxPrice,  \* the instrument's price domain
    NoPrice

Sides == {"Buy", "Sell"}

EmptySide == [p \in Prices |-> 0]

EmptyLadder == [side \in Sides |-> EmptySide]

NewView(max_depth) ==
    [state |-> "Unsynchronized", epoch |-> 0, last_source_seq |-> 0,
     levels |-> EmptyLadder, scratch |-> EmptyLadder, scratch_levels |-> 0,
     snapshot_seq |-> 0, last_trade |-> NoPrice,
     max_depth |-> IF max_depth = 0 THEN 1 ELSE max_depth]

Present(levels) == {p \in Prices : levels[p] # 0}

BestOf(side, prices) == IF side = "Buy" THEN Max(prices) ELSE Min(prices)

WorstOf(side, prices) == IF side = "Buy" THEN Min(prices) ELSE Max(prices)

Best(levels, side) ==
    IF Present(levels[side]) = {} THEN NoPrice ELSE BestOf(side, Present(levels[side]))

\* Midpoint of a two-sided, uncrossed ladder, otherwise the last trade price.
ReferencePrice(v) ==
    LET bid == Best(v.levels, "Buy")
        ask == Best(v.levels, "Sell")
    IN  IF bid # NoPrice /\ ask # NoPrice /\ bid < ask THEN (bid + ask) \div 2 ELSE v.last_trade

-----------------------------------------------------------------------------

\* Faulty variant: any later message is taken, lost ones are not noticed.
SequenceOkIfLater(v, seq) ==
    \/ v.state \in {"Unsynchronized", "Gap"}
    \/ v.last_source_seq = 0
    \/ seq > v.last_source_seq

SequenceOk(v, seq) ==
    \/ v.state \in {"Unsynchronized", "Gap"}
    \/ v.last_source_seq = 0
    \/ seq = v.last_source_seq + 1

Duplicate(v, seq) == ~SequenceOk(v, seq) /\ seq = v.last_source_seq

EnterGap(v) ==
    [v EXCEPT !.state = "Gap", !.scratch = EmptyLadder, !.scratch_levels = 0]

\* set_bounded: a present level is overwritten; a new one enters a full side
\* only if it beats the worst level, which is then trimmed.
Improves(side, price, levels) ==
    IF side = "Buy" THEN price > WorstOf(side, Present(levels))
                    ELSE price < WorstOf(side, Present(levels))

Trim(side, levels, max_depth) ==
    IF Cardinality(Present(levels)) > max_depth
    THEN [levels EXCEPT ![WorstOf(side, Present(levels))] = 0]
    ELSE levels

SetBounded(levels, side, price, quantity, max_depth) ==
    IF /\ levels[price] = 0
       /\ Cardinality(Present(levels)) >= max_depth
       /\ ~Improves(side, price, levels)
    THEN levels
    ELSE Trim(side, [levels EXCEPT ![price] = quantity], max_depth)

SnapshotBegin(v, m) ==
    [v EXCEPT !.scratch = EmptyLadder, !.scratch_levels = 0,
              !.snapshot_seq = m.snapshot_seq, !.state = "ApplyingSnapshot"]

SnapshotLevel(v, m) ==
    IF v.state = "ApplyingSnapshot" /\ m.quantity # 0
    THEN [v EXCEPT !.scratch[m.side] = SetBounded(@, m.side, m.price, m.quantity, v.max_depth),
                   !.scratch_levels = @ + 1]
    ELSE v

\* The snapshot becomes visible only when it is complete.
SnapshotEnd(v, m) ==
    IF /\ v.state = "ApplyingSnapshot"
       /\ m.snapshot_seq = v.snapshot_seq
       /\ m.level_count = v.scratch_levels
    THEN [v EXCEPT !.levels = v.scratch, !.state = "Live",
                   !.scratch = EmptyLadder, !.scratch_levels = 0]
    ELSE EnterGap(v)

\* Faulty variant: a quantity of zero does not delete the level.
LevelSetWithoutDelete(v, m) ==
    IF v.state # "Live" \/ m.quantity = 0 THEN v
    ELSE [v EXCEPT !.levels[m.side] = SetBounded(@, m.side, m.price, m.quantity, v.max_depth)]

LevelSet(v, m) ==
    IF v.state # "Live" THEN v
    ELSE [v EXCEPT !.levels[m.side] =
             IF m.quantity = 0 THEN [@ EXCEPT ![m.price] = 0]
             ELSE SetBounded(@, m.side, m.price, m.quantity, v.max_depth)]

FeedTrade(v, m) == IF v.state = "Live" THEN [v EXCEPT !.last_trade = m.price] ELSE v

FeedReset(v, m) ==
    IF m.new_epoch <= v.epoch THEN v
    ELSE [NewView(v.max_depth) EXCEPT !.epoch = m.new_epoch, !.snapshot_seq = v.snapshot_seq]

Handle(v, m) ==
    CASE m.kind = "SnapshotBegin" -> SnapshotBegin(v, m)
      [] m.kind = "SnapshotLevel" -> SnapshotLevel(v, m)
      [] m.kind = "SnapshotEnd"   -> SnapshotEnd(v, m)
      [] m.kind = "LevelSet"      -> LevelSet(v, m)
      [] m.kind = "Trade"         -> FeedTrade(v, m)
      [] m.kind = "FeedReset"     -> FeedReset(v, m)
      [] m.kind = "Heartbeat"     -> v

Quoted == {"SnapshotLevel", "LevelSet", "Trade"}

PriceOutOfDomain(m) == m.kind \in Quoted /\ (m.price < MinPrice \/ m.price > MaxPrice)

\* MarketView::apply.  A message with sequence number 0 is not sequenced.
ApplyMessage(v, m) ==
    IF m.seq # 0 /\ Duplicate(v, m.seq) THEN v
    ELSE IF m.seq # 0 /\ ~SequenceOk(v, m.seq) THEN EnterGap(v)
    ELSE LET numbered == IF m.seq = 0 THEN v ELSE [v EXCEPT !.last_source_seq = m.seq]
         IN  IF PriceOutOfDomain(m) THEN EnterGap(numbered) ELSE Handle(numbered, m)

=============================================================================
