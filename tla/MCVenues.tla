------------------------------ MODULE MCVenues ------------------------------
(* Small instances of Venues. *)
EXTENDS Venues

Trade(maker, taker, aggressor, amount) ==
    [maker |-> maker, taker |-> taker, aggressor |-> aggressor, amount |-> amount]

\* a owes b 2 in two trades and b owes c 1, which b may only be able to pay
\* out of what a pays; c's trade with itself moves nothing.
Chain == [id |-> "s1", trades |-> <<Trade("b", "a", "buy", 1), Trade("b", "c", "sell", 1),
                                    Trade("c", "c", "buy", 1), Trade("a", "b", "sell", 1)>>]

\* Another manifest under the same identity, and one under another.
Rival == [id |-> "s1", trades |-> <<Trade("b", "a", "buy", 1)>>]
Other == [id |-> "s2", trades |-> <<Trade("a", "b", "buy", 1), Trade("c", "a", "buy", 1)>>]
Stranger == [id |-> "s2", trades |-> <<Trade("d", "a", "buy", 1)>>]

MCManifests == {Chain, Rival, Other, Stranger}

MCCollateral == {<<"x", "a">>, <<"x", "b">>, <<"x", "c">>, <<"y", "a">>}
MCFreezable == {<<"x", "b">>}
MCSupply == [o \in {"a", "b", "c"} |-> IF o = "a" THEN 2 ELSE IF o = "b" THEN 1 ELSE 0]

ForeignBatch(authority, from, to) ==
    [exchange |-> "x", authority |-> authority, id |-> "s2",
     hash |-> <<"s2", "x", <<[payer |-> from, payee |-> to, amount |-> 1]>>>>,
     accounts |-> <<from, to>>, legs |-> <<[payer |-> 1, payee |-> 2, amount |-> 1]>>]

MCForeign == {ForeignBatch("x", <<"x", "a">>, <<"x", "b">>),
              ForeignBatch("x", <<"y", "a">>, <<"x", "b">>),
              ForeignBatch("x", <<"x", "a">>, <<"x", "a">>),
              ForeignBatch("y", <<"x", "a">>, <<"x", "b">>)}
=============================================================================
