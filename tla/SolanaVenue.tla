----------------------------- MODULE SolanaVenue -----------------------------
(***************************************************************************)
(* The on-chain settlement program (adapters/solana) and the client that   *)
(* drives it (settlement/solana.ts).  An instruction is atomic: the Solana *)
(* runtime undoes every write of one that fails.  A transaction that was   *)
(* sent may execute after the client gave up on it, or never.              *)
(*                                                                         *)
(* Account addresses are derived from what they identify, so an exchange   *)
(* is named by a constant, a collateral account by (exchange, owner) and a *)
(* receipt by (exchange, settlement id).                                   *)
(***************************************************************************)
EXTENDS VenueClient

CONSTANTS
    Exchanges,          \* exchange accounts of the program
    Exchange,           \* the one the client is configured with
    CollateralAccounts, \* the (exchange, owner) pairs in play
    Freezable,          \* collateral accounts the authority may freeze
    SolanaCalls,        \* bound: adapter calls in a behaviour
    Supply,             \* tokens each owner starts with
    Amounts,            \* amounts deposited and withdrawn
    ForeignBatches,     \* batches sent by other tools of an authority
    MAX_LEGS, MaxU64

ASSUME SolanaConstants ==
    /\ Exchange \in Exchanges
    /\ Freezable \subseteq CollateralAccounts
    /\ MAX_LEGS \in Nat /\ MaxU64 \in Nat

VARIABLES
    exchange,      \* [total_collateral, settlements] of each exchange account
    collateral,    \* [balance, frozen] of each collateral account
    tokens,        \* tokens in the wallet of each owner
    vault,         \* tokens in the vault of each exchange
    receipts,      \* manifest hash and leg count under (exchange, id)
    transactions,  \* sent, neither executed nor dropped
    rpc            \* the client's call in progress

program_vars == <<exchange, collateral, tokens, vault, receipts>>

solana_vars == <<program_vars, transactions, rpc>>

SolanaInit ==
    /\ exchange = [x \in Exchanges |-> Nothing]
    /\ collateral = [k \in CollateralAccounts |-> Nothing]
    /\ tokens = Supply
    /\ vault = [x \in Exchanges |-> 0]
    /\ receipts = [r \in Exchanges \X Ids |-> Nothing]
    /\ transactions = {}
    /\ rpc = Nothing

-----------------------------------------------------------------------------
(* The program's instructions that hold or move one owner's collateral. *)

InitializeExchange(x) ==
    /\ exchange[x] = Nothing
    /\ exchange' = [exchange EXCEPT ![x] = [total_collateral |-> 0, settlements |-> 0]]
    /\ UNCHANGED <<collateral, tokens, vault, receipts, transactions, rpc, client_vars>>

OpenCollateral(k) ==
    /\ exchange[k[1]] # Nothing
    /\ collateral[k] = Nothing
    /\ collateral' = [collateral EXCEPT ![k] = [balance |-> 0, frozen |-> FALSE]]
    /\ UNCHANGED <<exchange, tokens, vault, receipts, transactions, rpc, client_vars>>

DepositCollateral(k, amount) ==
    /\ collateral[k] # Nothing /\ ~collateral[k].frozen
    /\ amount > 0
    /\ tokens[k[2]] >= amount
    /\ collateral[k].balance + amount <= MaxU64
    /\ exchange[k[1]].total_collateral + amount <= MaxU64
    /\ tokens' = [tokens EXCEPT ![k[2]] = @ - amount]
    /\ vault' = [vault EXCEPT ![k[1]] = @ + amount]
    /\ collateral' = [collateral EXCEPT ![k].balance = @ + amount]
    /\ exchange' = [exchange EXCEPT ![k[1]].total_collateral = @ + amount]
    /\ UNCHANGED <<receipts, transactions, rpc, client_vars>>

WithdrawCollateral(k, amount) ==
    /\ collateral[k] # Nothing /\ ~collateral[k].frozen
    /\ amount > 0
    /\ collateral[k].balance >= amount
    /\ vault[k[1]] >= amount
    /\ exchange[k[1]].total_collateral >= amount
    /\ tokens' = [tokens EXCEPT ![k[2]] = @ + amount]
    /\ vault' = [vault EXCEPT ![k[1]] = @ - amount]
    /\ collateral' = [collateral EXCEPT ![k].balance = @ - amount]
    /\ exchange' = [exchange EXCEPT ![k[1]].total_collateral = @ - amount]
    /\ UNCHANGED <<receipts, transactions, rpc, client_vars>>

FreezeAccount(k, frozen) ==
    /\ collateral[k] # Nothing
    /\ collateral' = [collateral EXCEPT ![k].frozen = frozen]
    /\ UNCHANGED <<exchange, tokens, vault, receipts, transactions, rpc, client_vars>>

-----------------------------------------------------------------------------
(* settle_batch.  A batch names the accounts it touches and its legs refer *)
(* to them by position.  A hash is taken to identify what it is taken of.  *)

ManifestHash(id, x, legs) == <<id, x, legs>>

Resolved(batch) ==
    [i \in DOMAIN batch.legs |-> [payer |-> batch.accounts[batch.legs[i].payer],
                                  payee |-> batch.accounts[batch.legs[i].payee],
                                  amount |-> batch.legs[i].amount]]

\* The first error among the verdicts of consecutive checks, if any.
FirstError(verdicts) ==
    LET failing == {i \in DOMAIN verdicts : verdicts[i] # "ok"}
    IN  IF failing = {} THEN "ok" ELSE verdicts[Min(failing)]

\* An account check that trusts the caller about the exchange.
AccountErrorAnyExchange(batch, i) ==
    LET k == batch.accounts[i]
    IN  IF \E j \in 1..(i - 1) : batch.accounts[j] = k THEN "duplicate"
        ELSE IF k \notin CollateralAccounts \/ collateral[k] = Nothing THEN "not initialized"
        ELSE "ok"

AccountError(batch, i) ==
    LET k == batch.accounts[i]
    IN  IF \E j \in 1..(i - 1) : batch.accounts[j] = k THEN "duplicate"
        ELSE IF k \notin CollateralAccounts \/ collateral[k] = Nothing THEN "not initialized"
        ELSE IF k[1] # batch.exchange THEN "another exchange"
        ELSE "ok"

LegError(batch, i) ==
    LET leg == batch.legs[i]
    IN  IF leg.amount = 0 THEN "greater than zero"
        ELSE IF leg.payer = leg.payee THEN "self settlement"
        ELSE IF ~({leg.payer, leg.payee} \subseteq DOMAIN batch.accounts) THEN "missing account"
        ELSE IF batch.accounts[leg.payer] = batch.accounts[leg.payee] THEN "self settlement"
        ELSE "ok"

\* A leg that only asks whether the payer is frozen.
TransferToFrozen(ledger, leg, payer, payee) ==
    IF ledger.error # "ok" THEN ledger
    ELSE IF payer.frozen THEN [ledger EXCEPT !.error = "frozen"]
    ELSE IF payer.balance < leg.amount THEN [ledger EXCEPT !.error = "insufficient collateral"]
    ELSE [ledger EXCEPT
            !.collateral = [@ EXCEPT ![leg.payer].balance = payer.balance - leg.amount,
                                     ![leg.payee].balance = payee.balance + leg.amount]]

\* A leg between two loaded collateral accounts, written back payer first.
Transfer(ledger, leg, payer, payee) ==
    IF ledger.error # "ok" THEN ledger
    ELSE IF payer.frozen \/ payee.frozen THEN [ledger EXCEPT !.error = "frozen"]
    ELSE IF payer.balance < leg.amount THEN [ledger EXCEPT !.error = "insufficient collateral"]
    ELSE IF payee.balance + leg.amount > MaxU64 THEN [ledger EXCEPT !.error = "overflow"]
    ELSE [ledger EXCEPT
            !.collateral = [@ EXCEPT ![leg.payer].balance = payer.balance - leg.amount,
                                     ![leg.payee].balance = payee.balance + leg.amount]]

\* A leg that starts from the accounts as they were before the batch.
ApplyLegStale(ledger, leg) ==
    Transfer(ledger, leg, collateral[leg.payer], collateral[leg.payee])

\* A leg starts from the accounts as the legs before it left them.
ApplyLeg(ledger, leg) ==
    Transfer(ledger, leg, ledger.collateral[leg.payer], ledger.collateral[leg.payee])

\* The program's decision on a batch, and the collateral it leaves.
SettleBatch(batch) ==
    LET Refuse(e) == [error |-> e, collateral |-> collateral]
        accounts == FirstError([i \in DOMAIN batch.accounts |-> AccountError(batch, i)])
        legs == FirstError([i \in DOMAIN batch.legs |-> LegError(batch, i)])
    IN  IF exchange[batch.exchange] = Nothing THEN Refuse("not initialized")
        ELSE IF receipts[batch.exchange, batch.id] # Nothing THEN Refuse("already in use")
        ELSE IF batch.authority # batch.exchange THEN Refuse("has one constraint")
        ELSE IF batch.legs = <<>> THEN Refuse("empty")
        ELSE IF Len(batch.legs) > MAX_LEGS THEN Refuse("too large")
        ELSE IF accounts # "ok" THEN Refuse(accounts)
        ELSE IF legs # "ok" THEN Refuse(legs)
        ELSE IF batch.hash # ManifestHash(batch.id, batch.exchange, Resolved(batch)) THEN
                Refuse("manifest hash does not match")
        ELSE
                LET done == FoldLeft(ApplyLeg, [error |-> "ok", collateral |-> collateral],
                                     Resolved(batch))
                IN  IF done.error = "ok" /\ exchange[batch.exchange].settlements = MaxU64
                    THEN Refuse("overflow") ELSE done

\* The runtime keeps the writes of an instruction that succeeds, all of them.
Commit(batch, done) ==
    /\ UNCHANGED <<tokens, vault>>
    /\ IF done.error = "ok"
       THEN /\ collateral' = done.collateral
            /\ receipts' = [receipts EXCEPT ![batch.exchange, batch.id] =
                              [hash |-> batch.hash, leg_count |-> Len(batch.legs)]]
            /\ exchange' = [exchange EXCEPT ![batch.exchange].settlements = @ + 1]
       ELSE UNCHANGED <<collateral, receipts, exchange>>

\* Another tool of an authority settles a batch of its own.
SettleForeign(batch) ==
    /\ Commit(batch, SettleBatch(batch))
    /\ UNCHANGED <<transactions, rpc, client_vars>>
-----------------------------------------------------------------------------
(* The client.  A call is either waiting for a transaction it sent, or for *)
(* the receipt account it asked for; `expected' is the hash it compares.   *)

SolanaBuildFails(m) ==
    LET legs == NettedLegs(m.trades)
    IN  \/ Unmapped(m)
        \/ \E t \in ToSet(m.trades) : t.amount <= 0
        \/ legs = <<>>
        \/ Len(legs) > MAX_LEGS
        \/ \E leg \in ToSet(legs) : leg.amount > MaxU64

\* The instruction the client builds for a manifest.
SolanaBatch(m) ==
    LET netted == NettedLegs(m.trades)
        owners == AccountsOf(netted)
        IndexOf(o) == SelectInSeq(owners, LAMBDA p : p = o)
        accounts == [i \in DOMAIN owners |-> <<Exchange, owners[i]>>]
        legs == [i \in DOMAIN netted |-> [payer |-> IndexOf(netted[i].payer),
                                          payee |-> IndexOf(netted[i].payee),
                                          amount |-> netted[i].amount]]
        hash == ManifestHash(m.id, Exchange, Resolved([accounts |-> accounts, legs |-> legs]))
    IN  [exchange |-> Exchange, authority |-> Exchange, id |-> m.id, hash |-> hash,
         accounts |-> accounts, legs |-> legs]

SolanaSubmit(m) ==
    /\ rpc = Nothing
    /\ Counted(SolanaCalls)
    /\ UNCHANGED program_vars
    /\ IF SolanaBuildFails(m)
       THEN Answer(m, "rejected") /\ UNCHANGED <<transactions, rpc>>
       ELSE /\ rpc' = [manifest |-> m, expected |-> SolanaBatch(m).hash, step |-> "send"]
            /\ transactions' = transactions \cup {[batch |-> SolanaBatch(m), call |-> calls']}
            /\ UNCHANGED answer

\* Errors the client takes for a decision of the program.
Refusals == {"insufficient collateral", "frozen", "another exchange", "greater than zero",
             "has one constraint", "manifest hash does not match"}

\* The client hears of its transaction: a receipt in the way is looked up,
\* an error that is not a decision leaves the outcome unknown.
SolanaClassify(error) ==
    IF error = "already in use"
    THEN rpc' = [rpc EXCEPT !.step = "lookup"] /\ UNCHANGED answer
    ELSE /\ rpc' = Nothing
         /\ Answer(rpc.manifest, IF error = "ok" THEN "confirmed"
                               ELSE IF error \in Refusals THEN "rejected" ELSE "unknown")

\* A transaction executes, whether its call still waits for it or not.
ExecuteTransaction(tx) ==
    /\ transactions' = transactions \ {tx}
    /\ Commit(tx.batch, SettleBatch(tx.batch))
    /\ UNCHANGED calls
    /\ IF rpc # Nothing /\ rpc.step = "send" /\ tx.call = calls
       THEN SolanaClassify(SettleBatch(tx.batch).error)
       ELSE UNCHANGED <<rpc, answer>>

SolanaLookup(m) ==
    /\ rpc = Nothing
    /\ Counted(SolanaCalls)
    /\ IF SolanaBuildFails(m)
       THEN Answer(m, "rejected") /\ UNCHANGED rpc
       ELSE /\ rpc' = [manifest |-> m, expected |-> SolanaBatch(m).hash, step |-> "lookup"]
            /\ UNCHANGED answer
    /\ UNCHANGED <<program_vars, transactions>>

\* A lookup that takes any receipt of the identity for its own.
ReadAnyReceipt ==
    /\ rpc # Nothing /\ rpc.step = "lookup"
    /\ LET found == receipts[Exchange, rpc.manifest.id]
       IN  Answer(rpc.manifest, IF found = Nothing THEN "notFound" ELSE "alreadyApplied")
    /\ rpc' = Nothing
    /\ UNCHANGED <<program_vars, transactions, calls>>

ReadReceipt ==
    /\ rpc # Nothing /\ rpc.step = "lookup"
    /\ LET found == receipts[Exchange, rpc.manifest.id]
       IN  Answer(rpc.manifest, IF found = Nothing THEN "notFound"
                                ELSE IF found.hash # rpc.expected THEN "rejected"
                                ELSE "alreadyApplied")
    /\ rpc' = Nothing
    /\ UNCHANGED <<program_vars, transactions, calls>>

\* The connection fails or times out; what was sent stays under way and
\* executes late, or never.
SolanaTimeout ==
    /\ rpc # Nothing
    /\ Answer(rpc.manifest, "unknown")
    /\ rpc' = Nothing
    /\ UNCHANGED <<program_vars, transactions, calls>>

SolanaNext ==
    \/ \E x \in Exchanges : InitializeExchange(x)
    \/ \E k \in CollateralAccounts :
        \/ OpenCollateral(k)
        \/ \E amount \in Amounts : DepositCollateral(k, amount)
        \/ \E amount \in Amounts : WithdrawCollateral(k, amount)
    \/ \E k \in Freezable, frozen \in BOOLEAN : FreezeAccount(k, frozen)
    \/ \E batch \in ForeignBatches : SettleForeign(batch)
    \/ \E m \in Manifests : SolanaSubmit(m)
    \/ \E m \in Manifests : SolanaLookup(m)
    \/ \E tx \in transactions : ExecuteTransaction(tx)
    \/ ReadReceipt
    \/ SolanaTimeout

-----------------------------------------------------------------------------

SolanaBalance(k) == IF collateral[k] = Nothing THEN 0 ELSE collateral[k].balance

\* Collateral is backed: at every exchange the vault holds exactly the sum of
\* the balances the program owes to the owners, which is the total it keeps,
\* and its settlement counter counts its receipts; deposits, withdrawals,
\* batches of the client and of other tools, and late transactions included.
CollateralIsBacked ==
    \A x \in Exchanges :
        LET owed == MapThenSumSet(SolanaBalance, {k \in CollateralAccounts : k[1] = x})
            settled == {id \in Ids : receipts[x, id] # Nothing}
        IN  /\ vault[x] = owed
            /\ exchange[x] # Nothing =>
                /\ exchange[x].total_collateral = owed
                /\ exchange[x].settlements = Cardinality(settled)

\* A frozen account keeps its balance: no deposit, withdrawal or leg of a
\* batch moves it, whichever side of the leg it is on.
FrozenKeepsBalance ==
    [][\A k \in CollateralAccounts :
         (collateral[k] # Nothing /\ collateral[k].frozen)
             => collateral'[k].balance = collateral[k].balance]_collateral
==============================================================================
