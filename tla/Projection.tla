----------------------------- MODULE Projection -----------------------------
(***************************************************************************)
(* The read model of the control API and the path its events take: the     *)
(* journal of the engine's current run, the gateway's tail cursor          *)
(* (control-gateway/src/state.rs, journal.rs), one FIFO connection with    *)
(* timeouts and one retry after a disconnect (control-api/src/gateway.ts), *)
(* and the projection (control-api/src/projection.ts).  The cursor lives   *)
(* in the gateway: a reply that is lost has already moved it.              *)
(***************************************************************************)
EXTENDS Integers, Sequences, TLC

CONSTANTS
    BatchSize,     \* outputs asked for per poll
    MaxOutputs,    \* bound on the outputs of a run
    MaxRestarts,   \* bound on gateway restarts
    MaxApiRestarts,
    MaxLosses,     \* bound on timeouts and disconnects
    MaxRebuilds,
    MaxRollbacks   \* bound on projection transactions that fail to commit

ASSUME BatchAssumption == BatchSize \in Nat \ {0}

VARIABLES
    \* the engine process with its gateway
    run,        \* the engine's run id
    ready,      \* a snapshot was published, so health reports the run id
    journal,    \* complete records visible in the journal, numbered from 1
    tail,       \* records the journal tail has returned
    \* the connection
    inbox,      \* requests not yet handled by the gateway
    replies,    \* replies on their way back
    \* the API process
    polling,    \* the method the poll is awaiting, or "idle"
    mem,        \* Projection's fields: last, run and health
    \* the database
    db,         \* the same fields as last committed
    applied,    \* committed events in order, with the run id stored with them
    \* bounds
    restarts, api_restarts, losses, rebuilds, rollbacks

gateway_vars == <<run, ready, journal, tail, restarts>>
api_vars     == <<polling, mem, db, applied, api_restarts, rebuilds>>
bound_vars   == <<losses, rollbacks>>
vars == <<gateway_vars, inbox, replies, api_vars, bound_vars>>

NoRun == 0

Fields == [last : Nat, run : Nat, health : {"healthy", "degraded", "run_mismatch"}]

Fresh == [last |-> 0, run |-> NoRun, health |-> "healthy"]

Init ==
    /\ run = 1 /\ ready = FALSE /\ journal = 0 /\ tail = 0
    /\ inbox = <<>> /\ replies = <<>>
    /\ polling = "idle" /\ mem = Fresh /\ db = Fresh /\ applied = <<>>
    /\ restarts = 0 /\ api_restarts = 0 /\ losses = 0 /\ rebuilds = 0 /\ rollbacks = 0

-----------------------------------------------------------------------------
(* The engine process. *)

Emit ==
    /\ journal < MaxOutputs
    /\ journal' = journal + 1
    /\ UNCHANGED <<run, ready, tail, restarts, inbox, replies, api_vars, bound_vars>>

PublishSnapshot ==
    /\ ~ready
    /\ ready' = TRUE
    /\ UNCHANGED <<run, journal, tail, restarts, inbox, replies, api_vars, bound_vars>>

LesserOf(a, b) == IF a < b THEN a ELSE b

\* dispatch of "outputs": the tail returns at most BatchSize new records.
NextOutputs ==
    LET n == LesserOf(BatchSize, journal - tail)
    IN  /\ Head(inbox).method = "outputs"
        /\ tail' = tail + n
        /\ replies' = Append(replies, Head(inbox) @@
                               [events |-> [k \in 1 .. n |-> [run |-> run, seq |-> tail + k]]])

\* dispatch of "resetJournal": the next poll opens a new tail.
ResetJournalTail ==
    /\ Head(inbox).method = "resetJournal"
    /\ tail' = 0
    /\ replies' = Append(replies, Head(inbox))

\* dispatch of "health".
Health ==
    /\ Head(inbox).method = "health"
    /\ replies' = Append(replies, Head(inbox) @@
                           [run |-> IF ready THEN run ELSE NoRun])
    /\ UNCHANGED tail

\* The connection task handles one request after another.
Dispatch ==
    /\ inbox # <<>>
    /\ Health \/ NextOutputs \/ ResetJournalTail
    /\ inbox' = Tail(inbox)
    /\ UNCHANGED <<run, ready, journal, restarts, api_vars, bound_vars>>

-----------------------------------------------------------------------------
(* The connection.  A request is live while its caller still waits for it. *)

Request(method) == [method |-> method, live |-> TRUE, retried |-> FALSE]

Outstanding == replies \o inbox

IsPoll(r) == r.live /\ r.method = polling

\* The connection closes: each waiting call is sent once more, or fails.
Reconnect ==
    LET again == SelectSeq(Outstanding, LAMBDA r : r.live /\ ~r.retried)
    IN  /\ inbox' = [k \in 1 .. Len(again) |-> [Request(again[k].method) EXCEPT !.retried = TRUE]]
        /\ replies' = <<>>
        /\ polling' = IF \E k \in 1 .. Len(again) : IsPoll(again[k]) THEN polling ELSE "idle"

Disconnect ==
    /\ losses < MaxLosses
    /\ Outstanding # <<>>
    /\ Reconnect
    /\ losses' = losses + 1
    /\ UNCHANGED <<gateway_vars, mem, db, applied, api_restarts, rebuilds, rollbacks>>

Orphaned(rs) == [k \in DOMAIN rs |-> [rs[k] EXCEPT !.live = FALSE]]

\* The call of the poll times out; the request stays with the gateway.
PollTimeout ==
    /\ losses < MaxLosses
    /\ polling # "idle"
    /\ polling' = "idle"
    /\ LET drop(rs) == [k \in DOMAIN rs |->
                          IF IsPoll(rs[k]) THEN [rs[k] EXCEPT !.live = FALSE] ELSE rs[k]]
       IN  inbox' = drop(inbox) /\ replies' = drop(replies)
    /\ losses' = losses + 1
    /\ UNCHANGED <<gateway_vars, mem, db, applied, api_restarts, rebuilds, rollbacks>>

\* The gateway process restarts with its engine, on the same run or another
\* one; File::create empties the journal.
GatewayRestart(new) ==
    /\ restarts < MaxRestarts
    /\ run' = new /\ ready' = FALSE /\ journal' = 0 /\ tail' = 0
    /\ restarts' = restarts + 1
    /\ Reconnect
    /\ UNCHANGED <<mem, db, applied, api_restarts, rebuilds, bound_vars>>

-----------------------------------------------------------------------------
(* Projection::poll *)

Poll ==
    /\ polling = "idle"
    /\ polling' = "health"
    /\ inbox' = Append(inbox, Request("health"))
    /\ UNCHANGED <<gateway_vars, replies, mem, db, applied, api_restarts, rebuilds, bound_vars>>

\* Faulty variant: health is judged anew on every poll.
BindRunClears(f, incoming) ==
    IF incoming = NoRun THEN f
    ELSE IF f.run = NoRun THEN [f EXCEPT !.run = incoming]
    ELSE [f EXCEPT !.health = IF f.run # incoming THEN "run_mismatch" ELSE "healthy"]

\* bindRun: adopt a run when there is none, latch when it is another one.
BindRun(f, incoming) ==
    IF incoming = NoRun THEN f
    ELSE IF f.run = NoRun THEN [f EXCEPT !.run = incoming]
    ELSE IF f.run # incoming THEN [f EXCEPT !.health = "run_mismatch"]
    ELSE f

\* A reply nobody waits for is dropped; one the poll waits for resumes it.
Await(method) ==
    /\ replies # <<>>
    /\ replies' = Tail(replies)
    /\ Head(replies).live
    /\ Head(replies).method = method

DropReply ==
    /\ replies # <<>>
    /\ ~Head(replies).live \/ Head(replies).method = "resetJournal"
    /\ replies' = Tail(replies)
    /\ UNCHANGED <<gateway_vars, inbox, api_vars, bound_vars>>

PollHealth ==
    /\ Await("health")
    /\ mem' = BindRun(mem, Head(replies).run)
    /\ db' = [db EXCEPT !.run = mem'.run,
                        !.health = IF mem'.health # mem.health THEN mem'.health ELSE @]
    /\ IF mem'.health # "healthy" \/ mem'.run = NoRun
       THEN polling' = "idle" /\ UNCHANGED inbox
       ELSE polling' = "outputs" /\ inbox' = Append(inbox, Request("outputs"))
    /\ UNCHANGED <<gateway_vars, applied, api_restarts, rebuilds, bound_vars>>

\* Faulty variant: a batch that starts too late is applied.
IsGapNever(fresh) == FALSE

\* apply: skip what was applied before; a batch that does not continue it
\* latches degraded, unless nothing was applied yet.
IsGap(fresh) == fresh # <<>> /\ Head(fresh).seq # mem.last + 1 /\ mem.last # 0

Rows(fresh) == [k \in DOMAIN fresh |-> fresh[k] @@ [label |-> mem.run]]

\* Faulty variant: the rows are committed without the new position.
ApplyEventsOnly(events) ==
    LET fresh == SelectSeq(events, LAMBDA e : e.seq > mem.last)
    IN  IF fresh = <<>> THEN UNCHANGED <<mem, db, applied>>
        ELSE IF IsGap(fresh)
        THEN /\ mem' = [mem EXCEPT !.health = "degraded"]
             /\ db' = [db EXCEPT !.health = "degraded"]
             /\ UNCHANGED applied
        ELSE /\ mem' = [mem EXCEPT !.last = fresh[Len(fresh)].seq]
             /\ UNCHANGED db
             /\ applied' = applied \o Rows(fresh)

ApplyEvents(events) ==
    LET fresh == SelectSeq(events, LAMBDA e : e.seq > mem.last)
    IN  IF fresh = <<>> THEN UNCHANGED <<mem, db, applied>>
        ELSE IF IsGap(fresh)
        THEN /\ mem' = [mem EXCEPT !.health = "degraded"]
             /\ db' = [db EXCEPT !.health = "degraded"]
             /\ UNCHANGED applied
        ELSE /\ mem' = [mem EXCEPT !.last = fresh[Len(fresh)].seq]
             /\ db' = [db EXCEPT !.last = mem'.last]
             /\ applied' = applied \o Rows(fresh)

PollOutputs ==
    /\ Await("outputs")
    /\ ApplyEvents(Head(replies).events)
    /\ polling' = "idle"
    /\ UNCHANGED <<gateway_vars, inbox, api_restarts, rebuilds, bound_vars>>

\* The transaction throws on commit: the rows and the latch in the database roll
\* back, the fields do not.
PollOutputsRolledBack ==
    /\ rollbacks < MaxRollbacks /\ rollbacks' = rollbacks + 1
    /\ Await("outputs")
    /\ LET fresh == SelectSeq(Head(replies).events, LAMBDA e : e.seq > mem.last)
       IN  /\ fresh # <<>>
           /\ mem' = IF IsGap(fresh) THEN [mem EXCEPT !.health = "degraded"]
                     ELSE [mem EXCEPT !.last = fresh[Len(fresh)].seq]
    /\ polling' = "idle"
    /\ UNCHANGED <<gateway_vars, inbox, db, applied, api_restarts, rebuilds, losses>>

\* rebuild: wipe and reset, then ask the gateway for the journal from its start.
Rebuild ==
    /\ rebuilds < MaxRebuilds
    /\ mem' = Fresh /\ db' = Fresh /\ applied' = <<>>
    /\ inbox' = Append(inbox, Request("resetJournal"))
    /\ rebuilds' = rebuilds + 1
    /\ UNCHANGED <<gateway_vars, replies, polling, api_restarts, bound_vars>>

\* The API process crashes and starts again from the database.
ApiRestart ==
    /\ api_restarts < MaxApiRestarts
    /\ mem' = db
    /\ polling' = "idle"
    /\ inbox' = Orphaned(inbox) /\ replies' = <<>>
    /\ api_restarts' = api_restarts + 1
    /\ UNCHANGED <<gateway_vars, db, applied, rebuilds, bound_vars>>

-----------------------------------------------------------------------------

Next ==
    \/ Emit \/ PublishSnapshot \/ Dispatch
    \/ Disconnect \/ PollTimeout
    \/ \E new \in {run, run + 1} : GatewayRestart(new)
    \/ Poll \/ DropReply \/ PollHealth \/ PollOutputs \/ PollOutputsRolledBack
    \/ Rebuild \/ ApiRestart

Spec == Init /\ [][Next]_vars

-----------------------------------------------------------------------------

\* Whatever is lost, repeated or restarted, and also when a transaction fails
\* to commit after the fields moved, no output is projected twice (the skip of
\* outputSeq <= lastOutputSeq).  While transactions commit none is skipped
\* either once projection has begun, so positions count every trade after the
\* first projected output.
AppliedInOrder ==
    \A k \in 1 .. Len(applied) - 1 :
        /\ applied[k + 1].seq > applied[k].seq
        /\ rollbacks = 0 => applied[k + 1].seq = applied[k].seq + 1

\* The position in the database is always the position of its rows, so a crash
\* resumes where the rows end; the fields in memory agree with it while
\* transactions commit.
PositionIsHonest ==
    LET last == IF applied = <<>> THEN 0 ELSE applied[Len(applied)].seq
    IN  db.last = last /\ (rollbacks = 0 => mem.last = last)

\* Once the projection is degraded or mismatched nothing more is applied until
\* an explicit resync wipes it, across API restarts too while transactions
\* commit (a latch that was rolled back does not outlive the process).
LatchedUntilResync ==
    [][mem.health # "healthy" =>
         \/ applied' = applied /\ (rollbacks = 0 => mem'.health # "healthy")
         \/ applied' = <<>>]_vars

\* "A missing output sequence latches degraded": a healthy projection holds the
\* outputs of its run from the first one on.
HealthyIsComplete ==
    mem.health = "healthy" => \A k \in DOMAIN applied : applied[k].seq = k

\* "A different run latches run_mismatch and stops applying": a healthy
\* projection never holds outputs of two runs.
HealthyIsOneRun ==
    mem.health = "healthy" => \A j, k \in DOMAIN applied : applied[j].run = applied[k].run

=============================================================================
