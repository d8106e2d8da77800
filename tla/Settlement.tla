----------------------------- MODULE Settlement -----------------------------
(***************************************************************************)
(* The settlement outbox and its dispatcher                                *)
(* (apps/control-api/src/settlement/outbox.ts and dispatcher.ts) against a *)
(* venue behind an unreliable call.  Every await of the dispatcher splits  *)
(* a step; a submission lives on the wire until it lands or is lost,       *)
(* whether or not its caller still waits.  The venue keeps one receipt per *)
(* settlement identity (simulated.ts, solana.ts, canton.ts).               *)
(***************************************************************************)
EXTENDS Integers, Sequences, FiniteSets, FiniteSetsExt

CONSTANTS
    MaxTrades,           \* trades the engine executes, numbered from 1
    BatchSize,           \* SettlementDispatcher.batchSize
    PendingLimit,        \* rows a tick takes (16)
    MaxAutoAttempts,     \* MAX_AUTO_ATTEMPTS
    Deployments,         \* the venues a deployment may settle on, each with its
                         \* bounds on trades, crashes, releases and rebuilds
    NoRow, NoClaim, NoCall

\* What the outbox's promises depend on.  authoritative: notFound means that
\* nothing is on the wire; rejects: the venue may refuse a batch, e.g. for
\* collateral; debits_first: it debits before it meets the receipt (Canton).
Traits == {"authoritative", "rejects", "debits_first"}

ASSUME BatchAssumption == BatchSize \in Nat \ {0} /\ MaxTrades \in Nat

ASSUME VenueAssumption ==
    Deployments \subseteq [traits : SUBSET Traits, trades : 0 .. MaxTrades, crashes : Nat,
                           releases : Nat, rebuilds : Nat]

Trades == 1 .. MaxTrades

\* settlementIdFor: a digest of the first and the last trade (one venue, one run).
Ids == {id \in Trades \X Trades : id[1] <= id[2]}

Statuses == {"pending", "submitted", "unknown", "confirmed", "failed", "needs_operator"}

\* manifest stands for manifest_hash: the hash is taken as injective on the trades.
SettlementRow == [status : Statuses, manifest : SUBSET Trades, attempts : Nat, due : BOOLEAN]

\* A row as a tick read it, a batch on its way to the venue, and an awaited call.
TodoRow == [id : Ids, status : Statuses, manifest : SUBSET Trades]

Submission == [id : Ids, manifest : SUBSET Trades, awaited : BOOLEAN]

CallOutcome == {"waiting", "confirmed", "alreadyApplied", "rejected", "unknown", "notFound"}

VenueCall == [kind : {"lookup", "submit"}, row : TodoRow, outcome : CallOutcome]

ASSUME NoneAssumption ==
    NoRow \notin SettlementRow /\ NoClaim \notin Ids /\ NoCall \notin VenueCall

VARIABLES
    projected,   \* trades 1 .. projected are in the table
    claim,       \* trades.settlement_id
    rows,        \* the settlements table
    todo,        \* rows of this tick not yet advanced, as they were read
    call,        \* what the dispatcher awaits: a lookup or submit and its outcome
    wire,        \* submissions that have neither landed nor been lost
    venue,       \* the deployment: traits and bounds
    receipts,    \* the venue: the trades it applied under each identity
    crashes, releases, rebuilds

db_vars     == <<projected, claim, rows>>
\* The deployment never changes.
bound_vars  == <<venue, crashes, releases, rebuilds>>
vars == <<db_vars, todo, call, wire, receipts, bound_vars>>

Init ==
    /\ projected = 0
    /\ claim = [t \in Trades |-> NoClaim]
    /\ rows = [id \in Ids |-> NoRow]
    /\ todo = <<>> /\ call = NoCall
    /\ wire = <<>> /\ receipts = [id \in Ids |-> {}]
    /\ venue \in Deployments
    /\ crashes = 0 /\ releases = 0 /\ rebuilds = 0

\* The projection stores the next executed trade.
ProjectTrade ==
    /\ projected < venue.trades
    /\ projected' = projected + 1
    /\ UNCHANGED <<claim, rows, todo, call, wire, receipts, bound_vars>>

-----------------------------------------------------------------------------
(* SettlementOutbox *)

Unclaimed == {t \in 1 .. projected : claim[t] = NoClaim}

\* The batchSize unclaimed trades with the lowest ids.
NextBatch == {t \in Unclaimed : Cardinality({u \in Unclaimed : u < t}) < BatchSize}

BatchId == <<Min(NextBatch), Max(NextBatch)>>

\* An existing row of the same identity with another manifest: createBatch throws.
BatchConflict == rows[BatchId] # NoRow /\ rows[BatchId].manifest # NextBatch

\* Faulty variant: the trades of a new batch are not marked.
CreateBatchUnclaimed ==
    /\ rows' = IF NextBatch = {} THEN rows
               ELSE [rows EXCEPT ![BatchId] =
                       IF @ # NoRow THEN @
                       ELSE [status |-> "pending", manifest |-> NextBatch,
                             attempts |-> 0, due |-> TRUE]]
    /\ UNCHANGED claim

CreateBatch ==
    IF NextBatch = {} THEN UNCHANGED <<claim, rows>>
    ELSE /\ rows' = [rows EXCEPT ![BatchId] =
                       IF @ # NoRow THEN @
                       ELSE [status |-> "pending", manifest |-> NextBatch,
                             attempts |-> 0, due |-> TRUE]]
         /\ claim' = [t \in Trades |->
                        IF t \in Unclaimed /\ BatchId[1] <= t /\ t <= BatchId[2]
                        THEN BatchId ELSE claim[t]]

\* pending: due rows still to be resolved, by first trade, at most PendingLimit.
IsPending(r) == r # NoRow /\ r.status \in {"pending", "submitted", "unknown"} /\ r.due

PendingIds(table) == {id \in Ids : IsPending(table[id])}

Position(S, id) == Cardinality({o \in S : o[1] < id[1]}) + 1

IsPendingList(table, list) ==
    LET due == PendingIds(table)
        n   == IF Cardinality(due) < PendingLimit THEN Cardinality(due) ELSE PendingLimit
    IN  /\ DOMAIN list = 1 .. n
        /\ \A k \in 1 .. n : list[k] \in due /\ Position(due, list[k]) = k

\* The trades a row's manifest is rebuilt from (manifestFor).
Claimed(id) == {t \in 1 .. projected : claim[t] = id}

\* transition: confirmed is terminal, failed yields only to confirmed.
Transition(r, next, attempts, due) ==
    IF r.status = "confirmed" \/ (r.status = "failed" /\ next # "confirmed") THEN r
    ELSE [r EXCEPT !.status = next, !.attempts = attempts, !.due = due]

\* Faulty variant: a batch that was sent counts as settled.
RecordAttemptOptimistic(r) == Transition(r, "confirmed", r.attempts, TRUE)

RecordAttempt(r) == Transition(r, "submitted", r.attempts, TRUE)

RecordConfirmed(r) == Transition(r, "confirmed", r.attempts, TRUE)

RecordFailed(r) == Transition(r, "failed", r.attempts, TRUE)

RecordNeedsOperator(r) == Transition(r, "needs_operator", r.attempts, FALSE)

\* Faulty variant: an unresolved row is left alone and waits for nothing.
RecordUnknownStuck(r) == [r EXCEPT !.due = FALSE]

RecordUnknown(r) ==
    IF r.attempts + 1 >= MaxAutoAttempts
    THEN Transition(r, "needs_operator", r.attempts + 1, FALSE)
    ELSE Transition(r, "unknown", r.attempts + 1, FALSE)

\* next_attempt_at_ms passes for a row that backed off.
BackoffExpires(id) ==
    /\ rows[id] # NoRow /\ rows[id].status = "unknown" /\ ~rows[id].due
    /\ rows' = [rows EXCEPT ![id].due = TRUE]
    /\ UNCHANGED <<projected, claim, todo, call, wire, receipts, bound_vars>>

\* Faulty variant: an unresolved settlement can be released too.
ReleaseUnresolved(id) ==
    /\ releases < venue.releases
    /\ rows[id] # NoRow /\ rows[id].status \in {"failed", "unknown", "needs_operator"}
    /\ claim' = [t \in Trades |-> IF claim[t] = id THEN NoClaim ELSE claim[t]]
    /\ rows' = [rows EXCEPT ![id] = NoRow]
    /\ releases' = releases + 1
    /\ UNCHANGED <<projected, todo, call, wire, receipts, venue, crashes, rebuilds>>

\* releaseFailed: an operator requeues a settlement the venue refused.
ReleaseFailed(id) ==
    /\ releases < venue.releases
    /\ rows[id] # NoRow /\ rows[id].status = "failed"
    /\ claim' = [t \in Trades |-> IF claim[t] = id THEN NoClaim ELSE claim[t]]
    /\ rows' = [rows EXCEPT ![id] = NoRow]
    /\ releases' = releases + 1
    /\ UNCHANGED <<projected, todo, call, wire, receipts, venue, crashes, rebuilds>>

\* Projection::rebuild: trades and settlements are wiped, then projected again.
Rebuild ==
    /\ rebuilds < venue.rebuilds
    /\ projected' = 0
    /\ claim' = [t \in Trades |-> NoClaim]
    /\ rows' = [id \in Ids |-> NoRow]
    /\ rebuilds' = rebuilds + 1
    /\ UNCHANGED <<todo, call, wire, receipts, venue, crashes, releases>>

-----------------------------------------------------------------------------
(* SettlementDispatcher *)

Idle == todo = <<>> /\ call = NoCall

\* tick: create a batch, then take the rows that are due.
Tick ==
    /\ Idle
    /\ ~(NextBatch # {} /\ BatchConflict)
    /\ CreateBatch
    /\ \E n \in 0 .. PendingLimit : \E list \in [1 .. n -> PendingIds(rows')] :
         /\ IsPendingList(rows', list)
         /\ todo' = [k \in 1 .. n |-> [id |-> list[k], status |-> rows'[list[k]].status,
                                       manifest |-> rows'[list[k]].manifest]]
    /\ UNCHANGED <<projected, call, wire, receipts, bound_vars>>

Call(kind, row) == [kind |-> kind, row |-> row, outcome |-> "waiting"]

\* submit: the attempt is recorded before the batch is sent.
Submit(row) ==
    /\ rows' = [rows EXCEPT ![row.id] = RecordAttempt(@)]
    /\ call' = Call("submit", row)
    /\ wire' = Append(wire, [id |-> row.id, manifest |-> row.manifest, awaited |-> TRUE])

\* advance, up to its first await, for the row read by the tick.
Advance ==
    /\ todo # <<>> /\ call = NoCall
    /\ LET row == Head(todo)
       IN  /\ rows[row.id] # NoRow
           /\ IF Claimed(row.id) # rows[row.id].manifest
              THEN /\ rows' = [rows EXCEPT ![row.id] = RecordNeedsOperator(@)]
                   /\ todo' = Tail(todo)
                   /\ UNCHANGED <<call, wire>>
              ELSE /\ IF row.status \in {"unknown", "submitted"}
                      THEN call' = Call("lookup", row) /\ UNCHANGED <<rows, wire>>
                      ELSE Submit(row)
                   /\ UNCHANGED todo
    /\ UNCHANGED <<projected, claim, receipts, bound_vars>>

\* manifestFor of a row that is gone throws, and so ends the tick.
AdvanceMissing ==
    /\ todo # <<>> /\ call = NoCall
    /\ rows[Head(todo).id] = NoRow
    /\ todo' = <<>>
    /\ UNCHANGED <<db_vars, call, wire, receipts, bound_vars>>

\* A lookup that found no receipt sends the batch again.
Resubmit ==
    /\ call # NoCall /\ call.kind = "lookup" /\ call.outcome = "notFound"
    /\ rows[call.row.id] # NoRow
    /\ Submit(call.row)
    /\ UNCHANGED <<projected, claim, todo, receipts, bound_vars>>

\* Faulty variant: a timeout is taken for a refusal.
RecordedTimeoutFails(r, outcome) ==
    IF outcome \in {"confirmed", "alreadyApplied"} THEN RecordConfirmed(r) ELSE RecordFailed(r)

Recorded(r, outcome) ==
    CASE outcome \in {"confirmed", "alreadyApplied"} -> RecordConfirmed(r)
      [] outcome \in {"unknown", "notFound"}         -> RecordUnknown(r)
      [] outcome = "rejected"                        -> RecordFailed(r)

\* advance after its last await: record the outcome, go on with the next row.
RecordOutcome ==
    /\ call # NoCall /\ call.outcome # "waiting"
    /\ ~(call.kind = "lookup" /\ call.outcome = "notFound")
    /\ rows[call.row.id] # NoRow
    /\ rows' = [rows EXCEPT ![call.row.id] = Recorded(@, call.outcome)]
    /\ call' = NoCall /\ todo' = Tail(todo)
    /\ UNCHANGED <<projected, claim, wire, receipts, bound_vars>>

\* The row was wiped during the await: the transition throws, the tick ends.
OutcomeOfMissing ==
    /\ call # NoCall /\ call.outcome # "waiting"
    /\ rows[call.row.id] = NoRow
    /\ call' = NoCall /\ todo' = <<>>
    /\ UNCHANGED <<db_vars, wire, receipts, bound_vars>>

-----------------------------------------------------------------------------
(* The venue (external). *)

Waiting(kind) == call # NoCall /\ call.kind = kind /\ call.outcome = "waiting"

\* What a lookup says of the receipt it finds.
Reconciled(id, manifest) ==
    IF receipts[id] = manifest THEN "alreadyApplied" ELSE "rejected"

LookupAnswer ==
    /\ Waiting("lookup")
    /\ "authoritative" \in venue.traits => \A k \in DOMAIN wire : wire[k].id # call.row.id
    /\ call' = [call EXCEPT !.outcome =
                  IF receipts[call.row.id] = {} THEN "notFound"
                  ELSE Reconciled(call.row.id, call.row.manifest)]
    /\ UNCHANGED <<db_vars, todo, wire, receipts, bound_vars>>

\* The outcome of a landing submission, and the receipts after it.  A second
\* landing meets the receipt; a venue that debits first may run out of funds
\* before it does, or report the duplicate key.
Lands(s, outcome) ==
    \/ /\ receipts[s.id] = {}
       /\ outcome = "confirmed"
       /\ receipts' = [receipts EXCEPT ![s.id] = s.manifest]
    \/ /\ receipts[s.id] = {} /\ "rejects" \in venue.traits
       /\ outcome = "rejected"
       /\ UNCHANGED receipts
    \/ /\ receipts[s.id] # {}
       /\ outcome \in {Reconciled(s.id, s.manifest)}
                        \cup (IF "debits_first" \in venue.traits THEN {"rejected", "unknown"} ELSE {})
       /\ UNCHANGED receipts

\* A sequence without its k-th element (SequencesExt's RemoveAt: the provers are
\* an order of magnitude slower in a module that extends SequencesExt).
Without(s, k) == SubSeq(s, 1, k - 1) \o SubSeq(s, k + 1, Len(s))

SubmissionLands(k) ==
    /\ \E outcome \in {"confirmed", "alreadyApplied", "rejected", "unknown"} :
         /\ Lands(wire[k], outcome)
         /\ call' = IF wire[k].awaited THEN [call EXCEPT !.outcome = outcome] ELSE call
    /\ wire' = Without(wire, k)
    /\ UNCHANGED <<db_vars, todo, bound_vars>>

SubmissionLost(k) ==
    /\ wire' = Without(wire, k)
    /\ UNCHANGED <<db_vars, todo, call, receipts, bound_vars>>

Unawaited == [k \in DOMAIN wire |-> [wire[k] EXCEPT !.awaited = FALSE]]

\* No answer, or one without a decision; a submission may still be on the wire.
TimesOut ==
    /\ call # NoCall /\ call.outcome = "waiting"
    /\ call' = [call EXCEPT !.outcome = "unknown"]
    /\ wire' = Unawaited
    /\ UNCHANGED <<db_vars, todo, receipts, bound_vars>>

\* The API process crashes and restarts; the database and the wire remain.
Crash ==
    /\ crashes < venue.crashes
    /\ ~Idle
    /\ call' = NoCall /\ todo' = <<>> /\ wire' = Unawaited
    /\ crashes' = crashes + 1
    /\ UNCHANGED <<db_vars, receipts, venue, releases, rebuilds>>

-----------------------------------------------------------------------------

Dispatcher == Tick \/ Advance \/ AdvanceMissing \/ Resubmit \/ RecordOutcome \/ OutcomeOfMissing

Venue ==
    \/ LookupAnswer
    \/ \E k \in DOMAIN wire : SubmissionLands(k) \/ SubmissionLost(k)
    \/ TimesOut

Next ==
    \/ ProjectTrade
    \/ Dispatcher
    \/ Venue
    \/ \E id \in Ids : BackoffExpires(id) \/ ReleaseFailed(id)
    \/ Rebuild
    \/ Crash

Spec == Init /\ [][Next]_vars

\* Timers and timeouts fire: the dispatcher ticks, every call ends, a backoff
\* expires, and the projection goes on reading.
Fairness ==
    /\ WF_vars(ProjectTrade) /\ WF_vars(Dispatcher) /\ WF_vars(Venue)
    /\ \A id \in Ids : WF_vars(BackoffExpires(id))

FairSpec == Spec /\ Fairness

-----------------------------------------------------------------------------

\* Type invariant.
TypeOK ==
    /\ projected \in 0 .. MaxTrades
    /\ claim \in [Trades -> Ids \cup {NoClaim}]
    /\ rows \in [Ids -> SettlementRow \cup {NoRow}]
    /\ todo \in Seq(TodoRow) /\ wire \in Seq(Submission)
    /\ call \in VenueCall \cup {NoCall}
    /\ crashes \in Nat /\ releases \in Nat /\ rebuilds \in Nat
    /\ venue \in Deployments /\ receipts \in [Ids -> SUBSET Trades]

\* No trade is settled under two identities: "those must not mint a second
\* economic identity".
OneIdentityPerTrade ==
    \A a, b \in Ids : a # b => receipts[a] \cap receipts[b] = {}

\* A trade is settled at most once, whatever times out, crashes, lands late or
\* is released, as long as the outbox keeps the batches it drew (a rebuild of
\* the projection forgets them).
SettledAtMostOnce == rebuilds = 0 => OneIdentityPerTrade

\* "A settlement is only marked failed when the venue rejected the batch before
\* any economic effect": the venue holds no receipt for a failed row.
FailedMeansNoEffect ==
    \A id \in Ids : rows[id] # NoRow /\ rows[id].status = "failed" => receipts[id] = {}

\* A confirmed row was settled, with exactly the trades of its manifest.
ConfirmedMeansSettled ==
    \A id \in Ids :
        rows[id] # NoRow /\ rows[id].status = "confirmed" => receipts[id] = rows[id].manifest

\* Every row's manifest is rebuilt exactly from the trades that name it, and a
\* new batch never meets another batch's identity, so retries are byte-identical
\* and ManifestConflict is never thrown.
ClaimsMatchManifests ==
    /\ \A id \in Ids : Claimed(id) = IF rows[id] = NoRow THEN {} ELSE rows[id].manifest
    /\ NextBatch # {} => rows[BatchId] = NoRow

\* Every executed trade is eventually claimed by a settlement that is resolved:
\* confirmed, failed, or handed to an operator after bounded retries.
EventuallyResolved ==
    <>[](\A t \in 1 .. venue.trades :
           /\ claim[t] # NoClaim
           /\ rows[claim[t]].status \in {"confirmed", "failed", "needs_operator"})

=============================================================================
