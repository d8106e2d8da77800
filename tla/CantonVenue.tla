----------------------------- MODULE CantonVenue -----------------------------
(***************************************************************************)
(* The Daml settlement workflow (adapters/canton/daml/Settlement.daml) and *)
(* the client that drives it (settlement/canton.ts).  One choice is one    *)
(* ledger transaction: it takes effect as a whole or not at all.  The      *)
(* client issues its posts one after the other and gives up on one that    *)
(* does not answer in time; the ledger may still execute it later.         *)
(***************************************************************************)
EXTENDS VenueClient

CONSTANTS
    Parties,       \* ledger parties, named like the accounts mapped to them
    CantonCalls,   \* bound: adapter calls in a behaviour
    Funded,        \* parties paid in and out outside a settlement
    CashSteps,     \* amounts of a credit or debit outside a settlement
    MaxInt         \* the largest amount a holding can carry

VARIABLES
    holdings,      \* amount of each party's Holding, if it has one
    instructions,  \* every SettlementInstruction created, in order
    ledger,        \* the SettlementReceipt under each settlement id
    posts,         \* requests sent, neither executed nor lost
    workflow       \* the client's call in progress

canton_vars == <<holdings, instructions, ledger, posts, workflow>>

CantonInit ==
    /\ holdings = [p \in Parties |-> Nothing]
    /\ instructions = <<>>
    /\ ledger = [id \in Ids |-> Nothing]
    /\ posts = {}
    /\ workflow = Nothing

-----------------------------------------------------------------------------
(* Holding *)

CreateHolding(p) ==
    /\ holdings[p] = Nothing
    /\ holdings' = [holdings EXCEPT ![p] = 0]
    /\ UNCHANGED <<instructions, ledger, posts, workflow, client_vars>>

\* A choice on the holding of p, as the holdings `cash' stand.
CreditError(cash, p, delta) ==
    IF cash[p] = Nothing THEN "no holding"
    ELSE IF delta <= 0 THEN "positive"
    ELSE IF cash[p] + delta > MaxInt THEN "arithmetic" ELSE "ok"

DebitError(cash, p, delta) ==
    IF cash[p] = Nothing THEN "no holding"
    ELSE IF delta <= 0 THEN "positive"
    ELSE IF cash[p] < delta THEN "insufficient" ELSE "ok"

Credit(p, delta) ==
    /\ CreditError(holdings, p, delta) = "ok"
    /\ holdings' = [holdings EXCEPT ![p] = @ + delta]
    /\ UNCHANGED <<instructions, ledger, posts, workflow, client_vars>>

Debit(p, delta) ==
    /\ DebitError(holdings, p, delta) = "ok"
    /\ holdings' = [holdings EXCEPT ![p] = @ - delta]
    /\ UNCHANGED <<instructions, ledger, posts, workflow, client_vars>>

-----------------------------------------------------------------------------
(* SettlementInstruction.  Accept archives the contract and creates the    *)
(* next one, so a contract id is the instruction and how many accepted it. *)

\* The accounts that pay, and only those.
PayingParties(legs) ==
    FoldLeft(LAMBDA seen, leg : IF Contains(seen, leg.payer) THEN seen
                                ELSE Append(seen, leg.payer), <<>>, legs)

InvolvedParties(legs) == AccountsOf(legs)

Economics(id, legs) == <<id, Len(legs), legs>>

ContractId(i) == <<i, Cardinality(instructions[i].accepted)>>

IsActive(cid) == instructions[cid[1]].active /\ ContractId(cid[1]) = cid

AcceptError(cid, party) ==
    LET i == instructions[cid[1]]
    IN  IF ~IsActive(cid) THEN "contract not found"
        ELSE IF ~Contains(InvolvedParties(i.legs), party) THEN "not part of this settlement"
        ELSE IF party \in i.accepted THEN "already accepted" ELSE "ok"

\* One leg of Settle: the payer's debit, then the payee's credit.
MoveCash(done, leg) ==
    LET debit == DebitError(done.cash, leg.payer, leg.amount)
        debited == [done.cash EXCEPT ![leg.payer] = @ - leg.amount]
        credit == CreditError(debited, leg.payee, leg.amount)
    IN  IF done.error # "ok" THEN done
        ELSE IF leg.amount <= 0 THEN [done EXCEPT !.error = "positive"]
        ELSE IF leg.payer = leg.payee THEN [done EXCEPT !.error = "pay itself"]
        ELSE IF debit # "ok" THEN [done EXCEPT !.error = debit]
        ELSE IF credit # "ok" THEN [done EXCEPT !.error = credit]
        ELSE [done EXCEPT !.cash = [debited EXCEPT ![leg.payee] = @ + leg.amount]]

\* The ledger's decision on Settle.  The receipt is created last, and its key
\* must be new: a batch that was settled before fails there, unless its legs
\* fail first.
SettleChoice(cid, expected) ==
    LET i == instructions[cid[1]]
        Refuse(e) == [error |-> e, cash |-> holdings]
        done == FoldLeft(MoveCash, [error |-> "ok", cash |-> holdings], i.legs)
    IN  IF ~IsActive(cid) THEN Refuse("contract not found")
        ELSE IF ~(ToSet(InvolvedParties(i.legs)) \subseteq i.accepted) THEN Refuse("must accept")
        ELSE IF Economics(i.id, expected) # Economics(i.id, i.legs) THEN Refuse("do not match")
        ELSE IF done.error # "ok" THEN Refuse(done.error)
        ELSE IF ledger[i.id] # Nothing THEN Refuse("DUPLICATE") ELSE done
-----------------------------------------------------------------------------
(* The client.  `workflow' holds the post it waits for (none while it asks *)
(* for the receipt) and the parties still to accept.                       *)

CantonBuildFails(m) == Unmapped(m) \/ NettedLegs(m.trades) = <<>>

CantonLegs(m) == NettedLegs(m.trades)

Awaited(post) == workflow # Nothing /\ workflow.post = post

\* The client sends `post' and waits for it; `served' leaves the wire.
Send(served, post, parties) ==
    /\ workflow' = [workflow EXCEPT !.post = post, !.parties = parties]
    /\ posts' = (posts \ {served}) \cup {post}
    /\ UNCHANGED client_vars

\* The call ends, with `served' off the wire.
Finish(served, kind) ==
    /\ Answer(workflow.manifest, kind)
    /\ workflow' = Nothing
    /\ posts' = posts \ {served}
    /\ UNCHANGED calls

\* Nobody waits for `served' any more.
Unheard(served) == posts' = posts \ {served} /\ UNCHANGED <<workflow, client_vars>>

ExercisePost(op, cid, argument) ==
    [op |-> op, call |-> calls, cid |-> cid, argument |-> argument]

\* classify: a refusal ends the submission after the instruction is withdrawn.
Refused(post, error) ==
    IF error = "DUPLICATE" THEN Finish(post, "unknown")
    ELSE IF post.op = "create" THEN Finish(post, "rejected")
    ELSE Send(post, ExercisePost("withdraw", post.cid, Nothing), <<>>)

\* submit and lookup both start by asking for the receipt.
CantonCall(m, purpose) ==
    /\ workflow = Nothing
    /\ Counted(CantonCalls)
    /\ workflow' = [manifest |-> m, purpose |-> purpose, post |-> Nothing, parties |-> <<>>]
    /\ UNCHANGED <<holdings, instructions, ledger, posts, answer>>

LookupOutcome(m) ==
    LET receipt == ledger[m.id]
        recorded == Economics(m.id, receipt.legs)
    IN  IF receipt = Nothing THEN "notFound"
        ELSE IF \/ CantonBuildFails(m)
                \/ receipt.leg_count # Len(receipt.legs)
                \/ recorded # receipt.economics
                \/ recorded # Economics(m.id, CantonLegs(m)) THEN "rejected"
        ELSE "alreadyApplied"

QueryReceipt ==
    /\ workflow # Nothing /\ workflow.post = Nothing
    /\ UNCHANGED <<holdings, instructions, ledger>>
    /\ LET m == workflow.manifest
           found == LookupOutcome(m)
       IN  IF workflow.purpose = "lookup" \/ found # "notFound" THEN Finish(Nothing, found)
           ELSE IF CantonBuildFails(m) THEN Finish(Nothing, "rejected")
           ELSE Send(Nothing, [op |-> "create", call |-> calls, id |-> m.id,
                               legs |-> CantonLegs(m)], <<>>)

ExecuteCreate(post) ==
    /\ post.op = "create"
    /\ instructions' = Append(instructions, [id |-> post.id, legs |-> post.legs,
                                            accepted |-> {}, active |-> TRUE])
    /\ UNCHANGED <<holdings, ledger>>
    /\ IF ~Awaited(post) THEN Unheard(post)
       ELSE LET parties == InvolvedParties(post.legs)
            IN  Send(post, ExercisePost("accept", <<Len(instructions'), 0>>, Head(parties)),
                     Tail(parties))

ExecuteAccept(post) ==
    /\ post.op = "accept"
    /\ LET error == AcceptError(post.cid, post.argument)
           i == post.cid[1]
       IN  /\ instructions' = IF error # "ok" THEN instructions
                              ELSE [instructions EXCEPT ![i].accepted = @ \cup {post.argument}]
           /\ UNCHANGED <<holdings, ledger>>
           /\ IF ~Awaited(post) THEN Unheard(post)
              ELSE IF error # "ok" THEN Refused(post, error)
              ELSE IF workflow.parties = <<>>
              THEN Send(post, ExercisePost("settle", ContractId(i)', CantonLegs(workflow.manifest)),
                        <<>>)
              ELSE Send(post, ExercisePost("accept", ContractId(i)', Head(workflow.parties)),
                        Tail(workflow.parties))

ExecuteSettle(post) ==
    /\ post.op = "settle"
    /\ LET done == SettleChoice(post.cid, post.argument)
           i == instructions[post.cid[1]]
       IN  /\ holdings' = done.cash
           /\ ledger' = IF done.error # "ok" THEN ledger
                        ELSE [ledger EXCEPT ![i.id] = [legs |-> i.legs, leg_count |-> Len(i.legs),
                                                       economics |-> Economics(i.id, i.legs)]]
           /\ instructions' = IF done.error # "ok" THEN instructions
                              ELSE [instructions EXCEPT ![post.cid[1]].active = FALSE]
           /\ IF ~Awaited(post) THEN Unheard(post)
              ELSE IF done.error = "ok" THEN Finish(post, "confirmed")
              ELSE Refused(post, done.error)

ExecuteWithdraw(post) ==
    /\ post.op = "withdraw"
    /\ instructions' = [instructions EXCEPT ![post.cid[1]].active = @ /\ ~IsActive(post.cid)]
    /\ UNCHANGED <<holdings, ledger>>
    /\ IF Awaited(post) THEN Finish(post, "rejected") ELSE Unheard(post)

\* A post runs into its timeout and stays on the wire, to be executed late
\* or never.  Only a withdrawal does not mind.
CantonTimeout ==
    /\ workflow # Nothing
    /\ Finish(Nothing, IF workflow.post # Nothing /\ workflow.post.op = "withdraw"
                       THEN "rejected" ELSE "unknown")
    /\ UNCHANGED <<holdings, instructions, ledger>>

\* The ledger answers a post with an error that says nothing about the batch,
\* having dropped the request or with the request still to be executed.
OpaqueError(post) ==
    /\ Awaited(post)
    /\ post.op # "withdraw"
    /\ UNCHANGED <<holdings, instructions, ledger>>
    /\ \E served \in {post, Nothing} :
        IF post.op = "create" THEN Finish(served, "rejected")
        ELSE Send(served, ExercisePost("withdraw", post.cid, Nothing), <<>>)

CantonNext ==
    \/ \E p \in Parties : CreateHolding(p)
    \/ \E p \in Funded, delta \in CashSteps : Credit(p, delta) \/ Debit(p, delta)
    \/ \E m \in Manifests, purpose \in {"submit", "lookup"} : CantonCall(m, purpose)
    \/ QueryReceipt
    \/ \E post \in posts :
        \/ ExecuteCreate(post)
        \/ ExecuteAccept(post)
        \/ ExecuteSettle(post)
        \/ ExecuteWithdraw(post)
        \/ OpaqueError(post)
    \/ CantonTimeout

-----------------------------------------------------------------------------

\* Nothing moves without the authority of everyone it concerns: whatever a
\* settlement moved is what one instruction said, and every payer and payee
\* of that instruction had accepted that very instruction.
SettledByConsent ==
    \A id \in Ids : ledger[id] # Nothing =>
        \E i \in ToSet(instructions) :
            /\ i.id = id /\ i.legs = ledger[id].legs /\ ~i.active
            /\ \A leg \in ToSet(i.legs) : {leg.payer, leg.payee} \subseteq i.accepted

\* What canton.ts says when it withdraws an instruction: "The ledger refused
\* the batch, so nothing was applied."
WithdrawnMeansNothingApplied ==
    (workflow # Nothing /\ workflow.post # Nothing /\ workflow.post.op = "withdraw") =>
        ledger[workflow.manifest.id] = Nothing
==============================================================================
