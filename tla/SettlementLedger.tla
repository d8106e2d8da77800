-------------------------- MODULE SettlementLedger --------------------------
(***************************************************************************)
(* What a settlement venue promises the outbox: an identity is settled at  *)
(* most once, all of its legs take effect in the same step, and no account *)
(* is overdrawn.  Legs are applied as one net transfer per account; the    *)
(* venues apply them one after the other and may fail half way.            *)
(***************************************************************************)
EXTENDS SettlementLegs

CONSTANTS
    Accounts,      \* accounts that can hold money at the venue
    Identities,    \* settlement identities
    NotSettled     \* no legs were applied under this identity

VARIABLES
    balances,      \* money of each account at the venue
    settled        \* the legs applied under each identity

LedgerInit ==
    /\ balances = [a \in Accounts |-> 0]
    /\ settled = [id \in Identities |-> NotSettled]

\* Money enters or leaves one account, outside any settlement.
Fund ==
    /\ UNCHANGED settled
    /\ \E a \in Accounts :
        /\ balances' = [balances EXCEPT ![a] = balances'[a]]
        /\ balances'[a] >= 0

Settle ==
    \E id \in Identities :
        /\ settled[id] = NotSettled
        /\ settled'[id] # NotSettled
        /\ settled' = [settled EXCEPT ![id] = settled'[id]]
        /\ balances' = [a \in Accounts |-> balances[a] + NetReceived(settled'[id], a)]
        /\ \A a \in Accounts : balances'[a] >= 0

LedgerNext == Fund \/ Settle

LedgerSpec == LedgerInit /\ [][LedgerNext]_<<balances, settled>>
=============================================================================
