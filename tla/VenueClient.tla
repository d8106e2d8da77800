----------------------------- MODULE VenueClient -----------------------------
(***************************************************************************)
(* What the settlement adapters share: the manifests the dispatcher hands  *)
(* to submit and lookup, and the outcome of the call that ended last.      *)
(***************************************************************************)
EXTENDS SettlementLegs, FiniteSets

CONSTANTS
    Manifests,     \* manifests [id, trades] the dispatcher may send
    Mapped,        \* accounts the venue's configuration knows
    Nothing        \* no account, no receipt, no call, no answer

VARIABLES
    answer,        \* [manifest, kind] of the call that ended last
    calls          \* adapter calls made so far

client_vars == <<answer, calls>>

Ids == {m.id : m \in Manifests}

Outcomes == {"confirmed", "alreadyApplied", "unknown", "notFound", "rejected"}

Unmapped(m) ==
    \E t \in ToSet(m.trades) : Buyer(t) # Seller(t) /\ ~({Buyer(t), Seller(t)} \subseteq Mapped)

ClientInit == answer = Nothing /\ calls = 0

Answer(m, kind) == answer' = [manifest |-> m, kind |-> kind]

Counted(bound) == calls < bound /\ calls' = calls + 1
==============================================================================
