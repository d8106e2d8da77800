--------------------------- MODULE MCTradingCore ---------------------------
(* Small instances of TradingCore for TLC. *)
EXTENDS TradingCore

Limits(quantity, notional, lots, gross, collar) ==
    [max_order_quantity |-> quantity, max_order_notional |-> notional,
     max_position_lots |-> lots, max_gross_exposure |-> gross, price_collar_ticks |-> collar]

Wide == Limits(10, 1000, 4, 1000, 10)

WideLimits == [a \in Accounts |-> Wide]

Tight == Limits(2, 30, 1, 20, 1)

LiveAt(p) == [state |-> "Live", reference |-> p]

\* A request; its id is its client sequence number, so that two different
\* requests with one sequence number also meet in the request cache.
Request(kind, a, i, seq, client, target, side, type, price, quantity) ==
    [kind |-> kind, account |-> a, instrument |-> i, request_id |-> seq, client_seq |-> seq,
     client_order_id |-> client, target |-> target, side |-> side, type |-> type,
     price |-> price, quantity |-> quantity]

New(a, i, seq, client, side, price, quantity) ==
    Request("New", a, i, seq, client, client, side, "Limit", price, quantity)

NewMarket(a, i, seq, client, side, quantity) ==
    Request("New", a, i, seq, client, client, side, "Market", 0, quantity)

Cancel(a, i, seq, target) == Request("Cancel", a, i, seq, target, target, "Buy", "Limit", 0, 0)

Replace(a, i, seq, target, side, price, quantity) ==
    Request("Replace", a, i, seq, target, target, side, "Limit", price, quantity)

-----------------------------------------------------------------------------
(* Trading: one seller that moves its order about, one buyer.              *)

LiveView == {LiveAt(10)}

TradingRequests ==
    UNION {{New("a", "X", s, "c1", "Sell", 10, 2),
            Replace("a", "X", s, "c1", "Sell", 10, 1),
            Replace("a", "X", s, "c1", "Sell", 9, 4),
            Cancel("a", "X", s, "c1"),
            New("b", "X", s, "c1", "Buy", 10, 1),
            New("b", "X", s, "c2", "Buy", 9, 2),
            Replace("b", "X", s, "c2", "Buy", 10, 3),
            New("b", "X", s, "c2", "Sell", 9, 1),
            NewMarket("b", "X", s, "c1", "Buy", 2)} : s \in 1 .. 3}

-----------------------------------------------------------------------------
(* Control: two instruments, operator commands, an unsynchronised, stale or *)
(* moving market, unknown accounts and instruments.                         *)

ControlViews == {LiveAt(10), LiveAt(12), [state |-> "Gap", reference |-> 10]}

ControlCommands ==
    {[command |-> "SetGlobalKill", engaged |-> e] : e \in BOOLEAN}
      \cup {[command |-> "SetAccountEnabled", account |-> "a", enabled |-> e] : e \in BOOLEAN}
      \cup {[command |-> "SetAccountLimits", account |-> a, limits |-> Tight] : a \in {"a", "z"}}

ControlRequests ==
    {New("a", "X", 1, "c1", "Buy", 10, 2), New("a", "Y", 2, "c2", "Buy", 10, 1),
     NewMarket("b", "X", 1, "c1", "Sell", 1), Replace("a", "X", 3, "c1", "Buy", 11, 2),
     New("z", "X", 1, "c1", "Buy", 10, 1), New("b", "W", 2, "c1", "Buy", 10, 1),
     Cancel("a", "X", 4, "c1")}

=============================================================================
