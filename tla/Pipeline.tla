------------------------------ MODULE Pipeline ------------------------------
(***************************************************************************)
(* The threads of a run, from crates/engine-runtime/src/pipeline.rs: the   *)
(* feed thread, the engine thread and the output thread, the two bounded   *)
(* SPSC rings between them (queue.rs), the journal writer (journal.rs) and *)
(* the cold control surface (ControlHandle).  Each access to state another *)
(* thread can see is one step.  The trading core is abstracted to what the *)
(* threads see of it: it counts its inputs, keeps the kill flag and emits  *)
(* outputs numbered 1, 2, ...                                              *)
(***************************************************************************)
EXTENDS Integers, Sequences

CONSTANTS
    Source,           \* the feed: a sequence of "input" and "malformed" frames
    BatchSizes,       \* how many outputs one applied input may emit
    InputCapacity, OutputCapacity, CommandCapacity, SnapshotCapacity,
    SnapshotInterval, \* 0 disables snapshots
    JournalSyncs,     \* journal modes a run may be configured with
    GroupSize,        \* the records of GroupCommit
    MaxCommands,      \* bound on submitted commands
    MaxKillChanges,   \* bound on stores to the kill latch
    NoInput           \* no pending input (None)

ASSUME CapacityAssumption ==
    /\ InputCapacity \in Nat /\ OutputCapacity \in Nat
    /\ CommandCapacity \in Nat /\ SnapshotCapacity \in Nat \ {0}

ASSUME SourceAssumption == Source \in Seq({"input", "malformed"})

ASSUME BatchAssumption == BatchSizes \subseteq Nat

ASSUME GroupAssumption == GroupSize \in Nat \ {0}

ASSUME NoInputAssumption == NoInput \notin Nat

VARIABLES
    \* the feed thread
    feed_pc,
    fed,            \* frames of Source sent or being sent (`produced`)
    input_q,        \* the input ring: positions in Source
    \* the engine thread
    engine_pc,
    pending,        \* the received input not yet applied
    to_send,        \* outputs of the batch not yet sent
    resume,         \* where Engine::apply returns to
    output_lost,
    global_kill,    \* TradingCore.global_kill
    inputs,         \* inputs applied, control included (recorder.inputs)
    applied_feed, applied_commands, applied_kills, \* how many of them of each origin
    output_seq,     \* outputs the core has emitted
    output_q,       \* the output ring
    \* the output thread and the journal
    output_pc,
    event,          \* the output taken from the ring and not yet appended, or 0
    since_flush,
    buffer,         \* records in the BufWriter
    file,           \* complete records a reader of the file sees
    torn,           \* a piece of a record follows them
    synced,         \* records of the file that were fsynced
    journal_error,
    output_failed,  \* the flag the output thread raises for the engine
    journal_sync,   \* PipelineConfig.journal_sync
    \* ControlHandle
    kill,
    commands,       \* the bounded command queue: command numbers
    submitted,      \* commands accepted so far
    kill_changes,
    snapshots,      \* the bounded telemetry queue: engine sequence numbers
    telemetry_dropped,
    shutdown,
    \* history
    due,            \* control in force when `pending` was received
    late            \* feed inputs applied since output_failed was raised

feed_vars    == <<feed_pc, fed>>
count_vars   == <<applied_feed, applied_commands, applied_kills>>
core_vars    == <<global_kill, inputs, count_vars, output_seq>>
engine_vars  == <<engine_pc, pending, to_send, resume, output_lost, due, late, core_vars>>
journal_vars == <<buffer, file, torn, synced>>
output_vars  == <<output_pc, event, since_flush, journal_vars, journal_error, output_failed>>
snap_vars    == <<snapshots, telemetry_dropped>>
control_vars == <<kill, kill_changes, commands, submitted, snap_vars, shutdown>>
vars == <<feed_vars, input_q, engine_vars, output_q, output_vars, control_vars, journal_sync>>

Init ==
    /\ feed_pc = "check" /\ fed = 0 /\ input_q = <<>>
    /\ engine_pc = "recv" /\ pending = NoInput /\ to_send = 0 /\ resume = "recv"
    /\ output_lost = FALSE /\ late = 0
    /\ due = [kill |-> FALSE, kill_changes |-> 0, commands |-> 0]
    /\ global_kill = FALSE /\ inputs = 0 /\ output_seq = 0 /\ output_q = <<>>
    /\ applied_feed = 0 /\ applied_commands = 0 /\ applied_kills = 0
    /\ output_pc = "open" /\ event = 0 /\ since_flush = 0
    /\ buffer = <<>> /\ file = <<>> /\ torn = FALSE /\ synced = 0
    /\ journal_error = FALSE /\ output_failed = FALSE
    /\ journal_sync \in JournalSyncs
    /\ kill = FALSE /\ kill_changes = 0 /\ commands = <<>> /\ submitted = 0
    /\ snapshots = <<>> /\ telemetry_dropped = 0
    /\ shutdown = FALSE

-----------------------------------------------------------------------------
(* The feed thread.  A thread that returns drops its end of the ring, so   *)
(* "done" is what is_abandoned sees at the other end.                      *)

HasInput == fed < Len(Source) /\ Source[fed + 1] = "input"

FeedEnd ==
    /\ feed_pc = "check"
    /\ shutdown \/ ~HasInput
    /\ feed_pc' = "done"
    /\ UNCHANGED fed

FeedNext ==
    /\ feed_pc = "check"
    /\ ~shutdown /\ HasInput
    /\ feed_pc' = "send" /\ fed' = fed + 1

\* Sender::send: push when there is room; a full ring is tried again unless the
\* consumer is gone.  A push into a ring whose consumer is gone still succeeds.
FeedSend ==
    /\ feed_pc = "send" /\ Len(input_q) < InputCapacity
    /\ input_q' = Append(input_q, fed)
    /\ feed_pc' = "check"
    /\ UNCHANGED fed

\* Faulty variant: an input that meets a full ring is dropped.
FeedSendDrops ==
    /\ feed_pc = "send" /\ Len(input_q) >= InputCapacity
    /\ feed_pc' = "check"
    /\ UNCHANGED <<fed, input_q>>

FeedSendFull ==
    /\ feed_pc = "send" /\ Len(input_q) >= InputCapacity
    /\ feed_pc' = "full"
    /\ UNCHANGED <<fed, input_q>>

FeedSendRetry ==
    /\ feed_pc = "full"
    /\ feed_pc' = IF engine_pc = "done" THEN "done" ELSE "send"
    /\ UNCHANGED <<fed, input_q>>

FeedThread ==
    /\ \/ (FeedEnd \/ FeedNext) /\ UNCHANGED input_q
       \/ FeedSend
       \/ FeedSendFull
       \/ FeedSendRetry
    /\ UNCHANGED <<engine_vars, output_q, output_vars, control_vars, journal_sync>>

-----------------------------------------------------------------------------
(* The engine thread. *)

\* The control already requested when the engine takes an input off the ring.
Receive ==
    /\ input_q # <<>>
    /\ pending' = Head(input_q) /\ input_q' = Tail(input_q)
    /\ due' = [kill |-> kill, kill_changes |-> kill_changes, commands |-> submitted]
    /\ engine_pc' = "check"

EngineRecv ==
    /\ engine_pc = "recv"
    /\ \/ Receive
       \/ /\ input_q = <<>>
          /\ engine_pc' = "recv_empty"
          /\ UNCHANGED <<input_q, pending, due>>
    /\ UNCHANGED <<to_send, resume, output_lost, late, core_vars, output_q, control_vars>>

\* After an empty pop: wait while the producer lives, else one last try_recv.
EngineRecvAbandoned ==
    /\ engine_pc = "recv_empty"
    /\ \/ /\ feed_pc # "done"
          /\ engine_pc' = "recv"
          /\ UNCHANGED <<input_q, pending, due>>
       \/ feed_pc = "done" /\ Receive
       \/ /\ feed_pc = "done" /\ input_q = <<>>
          /\ engine_pc' = "finish"
          /\ UNCHANGED <<input_q, pending, due>>
    /\ UNCHANGED <<to_send, resume, output_lost, late, core_vars, output_q, control_vars>>

\* Faulty variant: the output thread's failure is not looked at.
EngineSkipsOutputCheck ==
    /\ engine_pc = "check"
    /\ engine_pc' = "kill"
    /\ UNCHANGED <<output_lost, input_q, pending, to_send, resume, due, late, core_vars, output_q,
                   control_vars>>

\* Faulty variant: the latch is read only when a command waits.
EngineSkipsControl ==
    /\ engine_pc = "check"
    /\ output_lost' = output_failed
    /\ engine_pc' = IF output_failed THEN "finish" ELSE IF commands = <<>> THEN "apply" ELSE "kill"
    /\ UNCHANGED <<input_q, pending, to_send, resume, due, late, core_vars, output_q, control_vars>>

EngineCheckOutput ==
    /\ engine_pc = "check"
    /\ output_lost' = output_failed
    /\ engine_pc' = IF output_failed THEN "finish" ELSE "kill"
    /\ UNCHANGED <<input_q, pending, to_send, resume, due, late, core_vars, output_q, control_vars>>

\* Engine::apply up to its first send: record the input, apply it to the core.
Apply(next) ==
    \E n \in BatchSizes :
        /\ inputs' = inputs + 1
        /\ output_seq' = output_seq + n
        /\ to_send' = n
        /\ resume' = next
        /\ engine_pc' = IF n = 0 THEN next ELSE "send"

EngineReadKill ==
    /\ engine_pc = "kill"
    /\ global_kill' = kill
    /\ \/ /\ kill # global_kill
          /\ Apply("commands")
          /\ applied_kills' = applied_kills + 1
       \/ /\ kill = global_kill
          /\ engine_pc' = "commands"
          /\ UNCHANGED <<inputs, applied_kills, output_seq, to_send, resume>>
    /\ UNCHANGED <<applied_feed, applied_commands, input_q, pending, output_lost, due, late, output_q, control_vars>>

EngineCommand ==
    /\ engine_pc = "commands"
    /\ \/ /\ commands # <<>>
          /\ commands' = Tail(commands)
          /\ Apply("commands")
          /\ applied_commands' = applied_commands + 1
       \/ /\ commands = <<>>
          /\ engine_pc' = "apply"
          /\ UNCHANGED <<commands, inputs, applied_commands, output_seq, to_send, resume>>
    /\ UNCHANGED <<applied_feed, applied_kills, input_q, pending, output_lost, global_kill, due,
                   late, output_q, kill, kill_changes, submitted, snap_vars, shutdown>>

EngineApply ==
    /\ engine_pc = "apply"
    /\ Apply("snapshot")
    /\ applied_feed' = applied_feed + 1
    /\ pending' = NoInput
    /\ late' = IF output_failed THEN late + 1 ELSE late
    /\ UNCHANGED <<applied_commands, applied_kills, input_q, output_lost, global_kill, due,
                   output_q, control_vars>>

EngineSend ==
    /\ engine_pc = "send"
    /\ \/ /\ Len(output_q) < OutputCapacity
          /\ output_q' = Append(output_q, output_seq - to_send + 1)
          /\ to_send' = to_send - 1
          /\ engine_pc' = IF to_send = 1 THEN resume ELSE "send"
       \/ /\ Len(output_q) >= OutputCapacity
          /\ engine_pc' = "full"
          /\ UNCHANGED <<output_q, to_send>>
    /\ UNCHANGED <<input_q, pending, resume, output_lost, due, late, core_vars, control_vars>>

\* Faulty variant: a lost output thread is not noticed.
EngineSendForever ==
    /\ engine_pc = "full"
    /\ engine_pc' = "send"
    /\ UNCHANGED <<output_lost, input_q, pending, to_send, resume, due, late, core_vars, output_q,
                   control_vars>>

EngineSendRetry ==
    /\ engine_pc = "full"
    /\ output_lost' = (output_pc = "done")
    /\ engine_pc' = IF output_pc = "done" THEN "finish" ELSE "send"
    /\ UNCHANGED <<input_q, pending, to_send, resume, due, late, core_vars, output_q, control_vars>>

\* force_push: the oldest snapshot makes room, and the drop is counted.
PublishSnapshot ==
    LET full == Len(snapshots) >= SnapshotCapacity
    IN  /\ snapshots' = Append(IF full THEN Tail(snapshots) ELSE snapshots, inputs)
        /\ telemetry_dropped' = IF full THEN telemetry_dropped + 1 ELSE telemetry_dropped

EngineSnapshot ==
    /\ engine_pc = "snapshot"
    /\ engine_pc' = "recv"
    /\ IF SnapshotInterval > 0 /\ inputs % SnapshotInterval = 0
       THEN PublishSnapshot ELSE UNCHANGED snap_vars
    /\ UNCHANGED <<input_q, pending, to_send, resume, output_lost, due, late, core_vars, output_q,
                   kill, kill_changes, commands, submitted, shutdown>>

EngineFinish ==
    /\ engine_pc = "finish"
    /\ engine_pc' = "done"
    /\ shutdown' = (shutdown \/ output_lost)
    /\ IF SnapshotInterval > 0 THEN PublishSnapshot ELSE UNCHANGED snap_vars
    /\ UNCHANGED <<input_q, pending, to_send, resume, output_lost, due, late, core_vars, output_q,
                   kill, kill_changes, commands, submitted>>

EngineThread ==
    /\ \/ EngineRecv \/ EngineRecvAbandoned \/ EngineCheckOutput \/ EngineReadKill
       \/ EngineCommand \/ EngineApply \/ EngineSend \/ EngineSendRetry
       \/ EngineSnapshot \/ EngineFinish
    /\ UNCHANGED <<feed_vars, output_vars, journal_sync>>

-----------------------------------------------------------------------------
(* The journal: a BufWriter (external) over a file. *)

\* flush: everything buffered reaches the file.
Flushed ==
    /\ file' = file \o buffer /\ buffer' = <<>> /\ torn' = FALSE

\* A write error: some of the buffer reached the file, the rest stays buffered.
PartlyFlushed ==
    \E k \in 0 .. Len(buffer) :
        /\ file' = file \o SubSeq(buffer, 1, k)
        /\ buffer' = SubSeq(buffer, k + 1, Len(buffer))
        /\ torn' \in BOOLEAN

\* Faulty variant: a full buffer is overwritten.
AppendRecordOverwrites(e) ==
    /\ buffer' = IF Len(buffer) < GroupSize THEN Append(buffer, e) ELSE <<e>>
    /\ UNCHANGED <<file, torn, synced>>

\* append: the three writes of a record; the buffer spills first when it is full,
\* which may leave the first bytes of the new record in the file.
AppendRecord(e) ==
    /\ \/ buffer' = Append(buffer, e) /\ UNCHANGED <<file, torn>>
       \/ file' = file \o buffer /\ buffer' = <<e>> /\ torn' \in BOOLEAN
    /\ UNCHANGED synced

-----------------------------------------------------------------------------
(* The output thread. *)

OutputOpen ==
    /\ output_pc = "open"
    /\ \/ output_pc' = "try" /\ UNCHANGED <<journal_error, output_failed>>
       \/ output_pc' = "done" /\ journal_error' = TRUE /\ output_failed' = TRUE
    /\ UNCHANGED <<output_q, event, since_flush, journal_vars>>

Take ==
    /\ output_q # <<>>
    /\ event' = Head(output_q) /\ output_q' = Tail(output_q)
    /\ output_pc' = "append"

\* try_recv; when the ring is drained a partial group is published.
OutputTryRecv ==
    /\ output_pc = "try"
    /\ \/ Take /\ UNCHANGED <<since_flush, journal_vars, journal_error>>
       \/ /\ output_q = <<>>
          /\ IF since_flush > 0 /\ journal_sync = "GroupCommit"
             THEN \/ /\ Flushed /\ since_flush' = 0 /\ output_pc' = "recv"
                     /\ UNCHANGED <<synced, journal_error>>
                  \/ /\ PartlyFlushed /\ journal_error' = TRUE /\ output_pc' = "fail"
                     /\ UNCHANGED <<synced, since_flush>>
             ELSE /\ output_pc' = "recv"
                  /\ UNCHANGED <<since_flush, journal_vars, journal_error>>
          /\ UNCHANGED <<output_q, event>>
    /\ UNCHANGED output_failed

OutputRecv ==
    /\ output_pc = "recv"
    /\ \/ Take
       \/ /\ output_q = <<>>
          /\ output_pc' = "recv_empty"
          /\ UNCHANGED <<output_q, event>>
    /\ UNCHANGED <<since_flush, journal_vars, journal_error, output_failed>>

\* Faulty variant: no last look at the ring after the engine has gone.
OutputRecvGone ==
    /\ output_pc = "recv_empty"
    /\ output_pc' = IF engine_pc = "done" THEN "close" ELSE "recv"
    /\ UNCHANGED <<output_q, event, since_flush, journal_vars, journal_error, output_failed>>

OutputRecvAbandoned ==
    /\ output_pc = "recv_empty"
    /\ \/ /\ engine_pc # "done"
          /\ output_pc' = "recv"
          /\ UNCHANGED <<output_q, event>>
       \/ engine_pc = "done" /\ Take
       \/ /\ engine_pc = "done" /\ output_q = <<>>
          /\ output_pc' = "close"
          /\ UNCHANGED <<output_q, event>>
    /\ UNCHANGED <<since_flush, journal_vars, journal_error, output_failed>>

OutputAppend ==
    /\ output_pc = "append"
    /\ \/ /\ AppendRecord(event)
          /\ since_flush' = since_flush + 1
          /\ event' = 0
          /\ output_pc' = "commit"
          /\ UNCHANGED journal_error
       \/ /\ PartlyFlushed /\ journal_error' = TRUE /\ output_pc' = "fail"
          /\ UNCHANGED <<event, since_flush, synced>>
    /\ UNCHANGED <<output_q, output_failed>>

\* Faulty variant: a group is flushed one record late.
FlushLate ==
    \/ journal_sync = "GroupCommit" /\ since_flush > GroupSize
    \/ journal_sync = "Durable"

FlushDue ==
    \/ journal_sync = "GroupCommit" /\ since_flush >= GroupSize
    \/ journal_sync = "Durable"

\* The sync policy after a record: nothing, a flush per group, or flush and fsync.
OutputCommit ==
    /\ output_pc = "commit"
    /\ IF FlushDue
       THEN \/ /\ Flushed
               /\ synced' = IF journal_sync = "Durable" THEN Len(file) + Len(buffer) ELSE synced
               /\ since_flush' = 0 /\ output_pc' = "try"
               /\ UNCHANGED journal_error
            \/ /\ PartlyFlushed /\ journal_error' = TRUE /\ output_pc' = "fail"
               /\ UNCHANGED <<synced, since_flush>>
       ELSE /\ output_pc' = "try"
            /\ UNCHANGED <<since_flush, journal_vars, journal_error>>
    /\ UNCHANGED <<output_q, event, output_failed>>

OutputFail ==
    /\ output_pc = "fail"
    /\ output_failed' = TRUE
    /\ output_pc' = "close"
    /\ UNCHANGED <<output_q, event, since_flush, journal_vars, journal_error>>

\* The last sync.  After a failed append it may push out a piece of a record.
OutputClose ==
    /\ output_pc = "close"
    /\ output_pc' = "done"
    /\ \/ /\ file' = file \o buffer /\ buffer' = <<>>
          /\ torn' \in IF event # 0 THEN BOOLEAN ELSE {FALSE}
          /\ synced' = Len(file) + Len(buffer)
          /\ UNCHANGED journal_error
       \/ PartlyFlushed /\ journal_error' = TRUE /\ UNCHANGED synced
    /\ UNCHANGED <<output_q, event, since_flush, output_failed>>

OutputThread ==
    /\ \/ OutputOpen \/ OutputTryRecv \/ OutputRecv \/ OutputRecvAbandoned
       \/ OutputAppend \/ OutputCommit \/ OutputFail \/ OutputClose
    /\ UNCHANGED <<feed_vars, input_q, engine_vars, control_vars, journal_sync>>

-----------------------------------------------------------------------------
(* ControlHandle, called from the gateway at any time. *)

StoreKill ==
    /\ kill_changes < MaxKillChanges
    /\ kill' = ~kill
    /\ kill_changes' = kill_changes + 1
    /\ due' = [due EXCEPT !.kill = @ /\ ~kill]
    /\ UNCHANGED <<commands, submitted, snap_vars, shutdown>>

Submit ==
    /\ submitted < MaxCommands
    /\ Len(commands) < CommandCapacity
    /\ commands' = Append(commands, submitted + 1)
    /\ submitted' = submitted + 1
    /\ UNCHANGED <<kill, kill_changes, snap_vars, shutdown, due>>

TakeSnapshot ==
    /\ snapshots # <<>>
    /\ snapshots' = Tail(snapshots)
    /\ UNCHANGED <<telemetry_dropped, kill, kill_changes, commands, submitted,
                   shutdown, due>>

RequestShutdown ==
    /\ ~shutdown
    /\ shutdown' = TRUE
    /\ UNCHANGED <<kill, kill_changes, commands, submitted, snap_vars, due>>

Control ==
    /\ StoreKill \/ Submit \/ TakeSnapshot \/ RequestShutdown
    /\ UNCHANGED <<feed_vars, input_q, engine_pc, pending, to_send, resume, output_lost, late,
                   core_vars, output_q, output_vars, journal_sync>>

-----------------------------------------------------------------------------

Joined == feed_pc = "done" /\ engine_pc = "done" /\ output_pc = "done"

\* Every thread joined: run returns.
Finished == Joined /\ UNCHANGED vars

Next == FeedThread \/ EngineThread \/ OutputThread \/ Control \/ Finished

Spec == Init /\ [][Next]_vars

\* The operating system runs every thread.
Fairness == WF_vars(FeedThread) /\ WF_vars(EngineThread) /\ WF_vars(OutputThread)

FairSpec == Spec /\ Fairness

\* What run_with_journal returns once every thread joined.
Result ==
    IF journal_error THEN "Journal"
    ELSE IF output_lost THEN "OutputUnavailable"
    ELSE "Ok"

-----------------------------------------------------------------------------

Upto(n) == [k \in 1 .. n |-> k]

\* Type invariant.
TypeOK ==
    /\ feed_pc \in {"check", "send", "full", "done"} /\ fed \in 0 .. Len(Source)
    /\ input_q \in Seq(1 .. Len(Source)) /\ pending \in 1 .. Len(Source) \cup {NoInput}
    /\ engine_pc \in {"recv", "recv_empty", "check", "kill", "commands", "apply", "send", "full",
                      "snapshot", "finish", "done"}
    /\ resume \in {"recv", "commands", "snapshot"} /\ to_send \in 0 .. output_seq
    /\ output_seq \in Nat /\ inputs \in Nat /\ late \in Nat
    /\ applied_feed \in Nat /\ applied_commands \in Nat /\ applied_kills \in Nat
    /\ output_q \in Seq(Nat) /\ buffer \in Seq(Nat) /\ file \in Seq(Nat)
    /\ output_pc \in {"open", "try", "recv", "recv_empty", "append", "commit", "fail", "close",
                      "done"}
    /\ event \in Nat /\ since_flush \in Nat /\ synced \in Nat
    /\ output_lost \in BOOLEAN /\ global_kill \in BOOLEAN /\ torn \in BOOLEAN
    /\ journal_error \in BOOLEAN /\ output_failed \in BOOLEAN
    /\ kill \in BOOLEAN /\ shutdown \in BOOLEAN
    /\ journal_sync \in JournalSyncs
    /\ commands \in Seq(Nat) /\ submitted \in Nat /\ kill_changes \in Nat
    /\ snapshots \in Seq(Nat) /\ telemetry_dropped \in Nat
    /\ due \in [kill : BOOLEAN, kill_changes : Nat, commands : Nat]

\* The output thread loses, repeats and reorders nothing: what reached the file
\* and the write buffer is always the first outputs of the core, in order, and
\* until a write fails the record in hand and the ring hold exactly the others
\* the engine has sent (the journal test's "exact prefix of the healthy run").
JournalIsPrefix ==
    /\ file \o buffer = Upto(Len(file) + Len(buffer))
    /\ ~journal_error =>
         file \o buffer \o (IF event = 0 THEN <<>> ELSE <<event>>) \o output_q
           = Upto(output_seq - to_send)

\* Feed inputs are applied in the order the feed produced them, none skipped:
\* the pending input and the ring are exactly the inputs sent and not yet
\* applied, and a send is abandoned only when the engine has given up.
InputsInOrder ==
    LET held  == (IF pending = NoInput THEN <<>> ELSE <<pending>>) \o input_q
        unsent == fed - applied_feed - Len(held)
    IN  /\ \A k \in 1 .. Len(held) : held[k] = applied_feed + k
        /\ feed_pc = "check" => unsent = 0
        /\ feed_pc \in {"send", "full"} => unsent = 1
        /\ feed_pc = "done" => unsent = 0 \/ (unsent = 1 /\ output_lost)

\* A run that reports success applied every input the feed produced, and every
\* output is in the journal, complete and synced: nothing is silently dropped.
\* The engine gives up on output only after the journal failed, so a lost run
\* is always reported with the journal error that caused it.
ResultIsHonest ==
    /\ output_lost => journal_error
    /\ Joined /\ Result = "Ok" =>
         /\ applied_feed = fed
         /\ file = Upto(output_seq) /\ ~torn
         /\ synced = output_seq

\* Once the output thread has raised output_failed the engine applies at most
\* the one feed input whose check it had already passed.
StopsAfterFailure == late <= 1

\* Control is applied before the input that follows it: when an input is about
\* to be applied, a kill engaged since before it was received is in force and
\* every command accepted before it was received has been applied.
ControlNotOvertaken ==
    engine_pc = "apply" =>
        /\ due.kill => global_kill
        /\ applied_commands >= due.commands

\* "Engaging, releasing, and engaging again all reach the engine, and each
\* transition is recorded once": every store to the latch made before an input
\* was received is a recorded kill input before that input is applied.
KillTransitionsRecorded ==
    engine_pc = "apply" => applied_kills >= due.kill_changes

\* The journal's visibility contract: under GroupCommit at most a group is
\* unpublished, and nothing is while the output thread waits; under Durable a
\* record is on disk before the next is taken.
SyncContract ==
    output_pc \in {"try", "recv", "recv_empty"} =>
        /\ journal_sync = "GroupCommit" => Len(buffer) < GroupSize
        /\ journal_sync = "GroupCommit" /\ output_pc # "try" => buffer = <<>>
        /\ journal_sync = "Durable" => buffer = <<>> /\ synced = Len(file)

\* Backpressure and failure never leave the threads waiting for one another:
\* every run ends with all three threads joined.
RunEnds == <>Joined

=============================================================================
