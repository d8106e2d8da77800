------------------------------- MODULE Venues -------------------------------
(***************************************************************************)
(* The settlement venue a control API runs with.  buildVenue picks one     *)
(* from the environment when the process starts; this composition checks   *)
(* that either keeps the promise SettlementLedger states.                  *)
(***************************************************************************)
EXTENDS SolanaVenue, CantonVenue

VARIABLE venue     \* the configured venue: "solana" or "canton"

vars == <<venue, solana_vars, canton_vars, client_vars>>

Init ==
    /\ venue \in {"solana", "canton"}
    /\ SolanaInit
    /\ CantonInit
    /\ ClientInit

Next ==
    \/ venue = "solana" /\ SolanaNext /\ UNCHANGED <<venue, canton_vars>>
    \/ venue = "canton" /\ CantonNext /\ UNCHANGED <<venue, solana_vars>>

Spec == Init /\ [][Next]_vars

-----------------------------------------------------------------------------

\* The legs a venue recorded under an identity, between accounts.
SettledLegs(id) ==
    LET receipt == receipts[Exchange, id]
        Owner(leg) == [payer |-> leg.payer[2], payee |-> leg.payee[2], amount |-> leg.amount]
    IN  IF venue = "canton"
        THEN IF ledger[id] = Nothing THEN Nothing ELSE ledger[id].legs
        ELSE IF receipt = Nothing THEN Nothing
        ELSE [i \in DOMAIN receipt.hash[3] |-> Owner(receipt.hash[3][i])]

Balance(a) ==
    IF venue = "canton"
    THEN IF holdings[a] = Nothing THEN 0 ELSE holdings[a]
    ELSE IF <<Exchange, a>> \in CollateralAccounts THEN SolanaBalance(<<Exchange, a>>) ELSE 0

Ledger == INSTANCE SettlementLedger WITH
    Accounts <- Parties, Identities <- Ids, NotSettled <- Nothing,
    balances <- [a \in Parties |-> Balance(a)],
    settled <- [id \in Ids |-> SettledLegs(id)]

\* Either venue implements the abstract ledger: an identity is settled at most
\* once, its legs take effect together as one net transfer or not at all, and
\* nothing else moves money between accounts, whatever transactions and posts
\* of abandoned calls are executed late.
LedgerIsImplemented == Ledger!LedgerSpec

\* An adapter that answers `confirmed' or `alreadyApplied' tells the truth:
\* the venue holds a receipt under the manifest's identity, and what its legs
\* moved into every account is what the manifest's trades owe that account.
SuccessIsTrue ==
    (answer # Nothing /\ answer.kind \in {"confirmed", "alreadyApplied"}) =>
        LET legs == SettledLegs(answer.manifest.id)
        IN  /\ legs # Nothing
            /\ \A a \in Parties : NetReceived(legs, a) = NetDue(answer.manifest.trades, a)
=============================================================================
