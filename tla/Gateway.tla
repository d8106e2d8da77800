------------------------------- MODULE Gateway -------------------------------
(***************************************************************************)
(* The control gateway: connections served concurrently over one Unix      *)
(* socket, the journal tail they share, the engine snapshots they pass on  *)
(* and the replay jobs they start.  Each request runs on a thread of its   *)
(* own; a step is what it does to the shared state in one atomic operation *)
(* or under one mutex.                                                     *)
(***************************************************************************)
EXTENDS JournalFile, FiniteSets

CONSTANTS
    Clients,           \* clients of the socket
    max_connections,
    Workloads,         \* sets of methods; the clients of a behaviour use one
    Limits,            \* limits an `outputs' request may carry
    KeptJobs,          \* replay jobs the table holds (32 in the code)
    MaxJobs,           \* bound: replays asked for
    MaxSnapshots,      \* bound: snapshots the engine publishes
    MaxSpawnFailures,  \* bound: threads the system refuses to start
    None

\* `snapshot' refreshes and reads like `health'; the commands of the engine are
\* in Pipeline.
Methods == {"outputs", "resetJournal", "health", "startReplay", "replayStatus"}

ASSUME GatewayConstants ==
    /\ IsFiniteSet(Clients)
    /\ max_connections \in Nat /\ KeptJobs \in Nat \ {0}
    /\ Workloads \subseteq SUBSET Methods
    /\ Limits \subseteq Nat
    /\ None \notin [next : Nat, read : Int]
    /\ None \notin [limit : Nat, count : Nat, ok : BOOLEAN]

VARIABLES
    methods,           \* what the clients of this behaviour ask for
    live,              \* connections counted by the accept loop
    handler,           \* what the handler of each client is doing
    tail,              \* the shared journal tail
    delivered,         \* records returned by polls since the tail was opened
    polled,            \* the last poll since then: its limit, count, outcome
    published,         \* snapshots the engine published
    snapshots,         \* published by the engine and not yet taken
    held,              \* the snapshot a handler took and has not stored yet
    latest_snapshot,
    next_job, replay_busy, replay_jobs,
    job,               \* the job each handler is starting
    worker,            \* the replay threads that have not ended
    leaked             \* handlers that ended in a panic

file_vars == <<cells, damage>>
tail_vars == <<tail, delivered, polled>>
snapshot_vars == <<published, snapshots, held, latest_snapshot>>
replay_vars == <<next_job, replay_busy, replay_jobs, job, worker>>
vars == <<file_vars, methods, live, handler, tail_vars, snapshot_vars, replay_vars, leaked>>

Init ==
    /\ FileInit
    /\ methods \in Workloads
    /\ "outputs" \notin methods => damage.record = 0
    /\ live = 0
    /\ handler = [c \in Clients |-> "none"]
    /\ tail = None /\ delivered = <<>> /\ polled = None
    /\ published = 0 /\ snapshots = <<>>
    /\ held = [c \in Clients |-> 0] /\ latest_snapshot = 0
    /\ next_job = 0 /\ replay_busy = FALSE /\ replay_jobs = <<>> /\ worker = {}
    /\ job = [c \in Clients |-> 0]
    /\ leaked = 0

At(c, step) == handler[c] = step

Goto(c, step) == handler' = [handler EXCEPT ![c] = step]

-----------------------------------------------------------------------------
(* Connections *)

Connect(c) ==
    /\ At(c, "none")
    /\ IF live >= max_connections
       THEN UNCHANGED <<live, handler>>
       ELSE live' = live + 1 /\ Goto(c, "reading")
    /\ UNCHANGED <<file_vars, methods, tail_vars, snapshot_vars, replay_vars, leaked>>

\* A handler that forgets the connection when the peer closed it in time.
CloseUncounted(c) ==
    /\ handler[c] \in {"reading", "replying"}
    /\ Goto(c, "none")
    /\ live' = IF At(c, "reading") THEN live ELSE live - 1
    /\ UNCHANGED <<file_vars, methods, tail_vars, snapshot_vars, replay_vars, leaked>>

\* The handler ends: no whole frame in time, the peer closed the connection, a
\* length out of bounds, or a reply that could not be written.
Close(c) ==
    /\ handler[c] \in {"reading", "replying"}
    /\ Goto(c, "none")
    /\ live' = live - 1
    /\ UNCHANGED <<file_vars, methods, tail_vars, snapshot_vars, replay_vars, leaked>>

\* A request that reaches its method.
Request(c, method) ==
    /\ At(c, "reading")
    /\ method = "startReplay" => next_job < MaxJobs
    /\ Goto(c, method)
    /\ UNCHANGED <<file_vars, methods, live, tail_vars, snapshot_vars, replay_vars, leaked>>

\* A request that is answered without one: not parsed, another schema version,
\* no valid token, bad parameters, an unknown method.
RefuseRequest(c) ==
    /\ At(c, "reading")
    /\ Goto(c, "replying")
    /\ UNCHANGED <<file_vars, methods, live, tail_vars, snapshot_vars, replay_vars, leaked>>

Reply(c) ==
    /\ At(c, "replying")
    /\ Goto(c, "reading")
    /\ UNCHANGED <<file_vars, methods, live, tail_vars, snapshot_vars, replay_vars, leaked>>

-----------------------------------------------------------------------------
(* outputs and resetJournal, each under the tail mutex *)

NextOutputs(c, limit) ==
    /\ At(c, "outputs")
    /\ Goto(c, "replying")
    /\ LET from == IF tail = None THEN OpenedTail ELSE tail
           result == Poll(from, limit)
       IN  IF tail = None /\ cells < 1
           THEN UNCHANGED tail_vars
           ELSE /\ tail' = result.tail
                /\ delivered' = delivered \o result.events
                /\ polled' = [limit |-> limit, count |-> Len(result.events), ok |-> result.ok]
    /\ UNCHANGED <<file_vars, methods, live, snapshot_vars, replay_vars, leaked>>

ResetJournalTail(c) ==
    /\ At(c, "resetJournal")
    /\ Goto(c, "replying")
    /\ tail' = None /\ delivered' = <<>> /\ polled' = None
    /\ UNCHANGED <<file_vars, methods, live, snapshot_vars, replay_vars, leaked>>

-----------------------------------------------------------------------------
(* health and snapshot: refresh_snapshot takes and stores until the queue  *)
(* is empty, without holding the mutex in between.                         *)

PublishSnapshot ==
    /\ "health" \in methods
    /\ published < MaxSnapshots
    /\ published' = published + 1
    /\ snapshots' = Append(snapshots, published')
    /\ UNCHANGED <<file_vars, methods, live, handler, tail_vars, held, latest_snapshot,
                   replay_vars, leaked>>

TakeSnapshot(c) ==
    /\ At(c, "health") /\ held[c] = 0
    /\ IF snapshots = <<>>
       THEN Goto(c, "replying") /\ UNCHANGED <<snapshots, held>>
       ELSE /\ held' = [held EXCEPT ![c] = Head(snapshots)]
            /\ snapshots' = Tail(snapshots)
            /\ UNCHANGED handler
    /\ UNCHANGED <<file_vars, methods, live, tail_vars, published, latest_snapshot, replay_vars,
                   leaked>>

StoreSnapshot(c) ==
    /\ held[c] # 0
    /\ latest_snapshot' = held[c]
    /\ held' = [held EXCEPT ![c] = 0]
    /\ UNCHANGED <<file_vars, methods, live, handler, tail_vars, published, snapshots, replay_vars,
                   leaked>>

-----------------------------------------------------------------------------
(* startReplay and replayStatus.  The handler claims the busy flag, lists  *)
(* the job and starts its thread; the thread stores the result in the      *)
(* table and gives the flag back.                                          *)

StartReplay(c) ==
    /\ At(c, "startReplay")
    /\ next_job' = next_job + 1
    /\ IF replay_busy
       THEN Goto(c, "replying") /\ UNCHANGED <<replay_busy, job>>
       ELSE /\ replay_busy' = TRUE
            /\ job' = [job EXCEPT ![c] = next_job']
            /\ Goto(c, "listing")
    /\ UNCHANGED <<file_vars, methods, live, tail_vars, snapshot_vars, replay_jobs, worker, leaked>>

ListJob(c) ==
    /\ At(c, "listing")
    /\ Goto(c, "spawning")
    /\ LET jobs == Append(replay_jobs, [id |-> job[c], status |-> "running"])
       IN  replay_jobs' = IF Len(jobs) > KeptJobs THEN Tail(jobs) ELSE jobs
    /\ UNCHANGED <<file_vars, methods, live, tail_vars, snapshot_vars, next_job, replay_busy, job,
                   worker, leaked>>

SpawnWorker(c) ==
    /\ At(c, "spawning")
    /\ Goto(c, "replying")
    /\ worker' = worker \cup {[id |-> job[c], stored |-> FALSE]}
    /\ UNCHANGED <<file_vars, methods, live, tail_vars, snapshot_vars, next_job, replay_busy, job,
                   replay_jobs, leaked>>

\* No thread for the job: the request's task panics, and its handler with it,
\* which leaves the flag set and the connection counted.
SpawnFails(c) ==
    /\ At(c, "spawning")
    /\ leaked < MaxSpawnFailures
    /\ leaked' = leaked + 1
    /\ Goto(c, "none")
    /\ UNCHANGED <<file_vars, methods, live, tail_vars, snapshot_vars, replay_vars>>

\* A replay thread that gives the flag back before it stores its result.
StoreResultLate(w) ==
    /\ w \in worker /\ ~w.stored
    /\ replay_busy' = FALSE
    /\ worker' = (worker \ {w}) \cup {[w EXCEPT !.stored = TRUE]}
    /\ UNCHANGED <<file_vars, methods, live, handler, tail_vars, snapshot_vars, next_job,
                   replay_jobs, job, leaked>>

\* A replay thread that dies of a panic.
StoreResultUncaught(w) ==
    /\ w \in worker /\ ~w.stored
    /\ worker' \in {worker \ {w}, (worker \ {w}) \cup {[w EXCEPT !.stored = TRUE]}}
    /\ UNCHANGED <<file_vars, methods, live, handler, tail_vars, snapshot_vars, next_job,
                   replay_jobs, replay_busy, job, leaked>>

\* The replay ran to its end, or panicked and the panic was caught.
StoreResult(w) ==
    /\ w \in worker /\ ~w.stored
    /\ \E status \in {"completed", "failed"} :
        replay_jobs' = [i \in DOMAIN replay_jobs |->
                          IF replay_jobs[i].id = w.id THEN [id |-> w.id, status |-> status]
                                                      ELSE replay_jobs[i]]
    /\ worker' = (worker \ {w}) \cup {[w EXCEPT !.stored = TRUE]}
    /\ UNCHANGED <<file_vars, methods, live, handler, tail_vars, snapshot_vars, next_job,
                   replay_busy, job, leaked>>

ReleaseReplay(w) ==
    /\ w \in worker /\ w.stored
    /\ replay_busy' = FALSE
    /\ worker' = worker \ {w}
    /\ UNCHANGED <<file_vars, methods, live, handler, tail_vars, snapshot_vars, next_job,
                   replay_jobs, job, leaked>>

\* Reads the table.
ReplayStatus(c) ==
    /\ At(c, "replayStatus")
    /\ Goto(c, "replying")
    /\ UNCHANGED <<file_vars, methods, live, tail_vars, snapshot_vars, replay_vars, leaked>>

-----------------------------------------------------------------------------

Starting(c) == StartReplay(c) \/ ListJob(c) \/ SpawnWorker(c) \/ SpawnFails(c)

Dispatch(c) ==
    \/ \E limit \in Limits : NextOutputs(c, limit)
    \/ ResetJournalTail(c)
    \/ TakeSnapshot(c)
    \/ StoreSnapshot(c)
    \/ Starting(c)
    \/ ReplayStatus(c)

Engine ==
    \/ /\ "outputs" \in methods
       /\ CreateFile \/ WriteOut
       /\ UNCHANGED <<methods, live, handler, tail_vars, snapshot_vars, replay_vars, leaked>>
    \/ PublishSnapshot

Worker == \E w \in worker : StoreResult(w) \/ ReleaseReplay(w)

Next ==
    \/ \E c \in Clients :
        \/ Connect(c)
        \/ Close(c)
        \/ RefuseRequest(c)
        \/ Reply(c)
        \/ Dispatch(c)
        \/ \E method \in methods : Request(c, method)
    \/ Engine
    \/ Worker

\* Threads that can run do run: the pool thread of a request that starts a
\* replay, and the thread of the replay.  Nothing is assumed of the clients,
\* of the network or of the engine.
Fairness ==
    /\ \A c \in Clients : WF_vars(Starting(c))
    /\ WF_vars(Worker)

Spec == Init /\ [][Next]_vars /\ Fairness

-----------------------------------------------------------------------------

\* Type invariant.
TypeOK ==
    /\ cells \in -1..FileCells(MaxRecords) /\ damage \in Damages
    /\ methods \in SUBSET Methods
    /\ live \in Nat /\ leaked \in Nat
    /\ handler \in [Clients -> Methods \cup {"none", "reading", "replying", "listing", "spawning"}]
    /\ tail \in [next : Nat, read : Int] \cup {None}
    /\ delivered \in Seq(Nat)
    /\ polled \in [limit : Nat, count : Nat, ok : BOOLEAN] \cup {None}
    /\ published \in Nat /\ snapshots \in Seq(Nat)
    /\ held \in [Clients -> Nat] /\ latest_snapshot \in Nat
    /\ next_job \in Nat /\ replay_busy \in BOOLEAN
    /\ replay_jobs \in Seq([id : Nat, status : {"running", "completed", "failed"}])
    /\ job \in [Clients -> Nat]
    /\ worker \in SUBSET [id : Nat, stored : BOOLEAN]

\* The two readers of a journal agree.  However the file grew between polls,
\* whatever limits they carried, whichever connections sent them and whatever
\* reads back damaged: what the tail returned since it was opened is the first
\* records in order, none twice and none skipped, all of which read_journal
\* recovers too, and its place in the file is the first record not yet returned;
\* a poll that returned less than it may has returned everything recoverable,
\* and one that failed met the record that ends the recovery.
TailAgreesWithRecovery ==
    LET n == Len(delivered)
    IN  /\ delivered = [i \in 1..n |-> i]
        /\ n <= Recovered(cells)
        /\ tail # None => tail.next = n + 1
        /\ polled # None =>
            /\ (polled.ok /\ polled.count < polled.limit) => n = Recovered(tail.read)
            /\ ~polled.ok => damage.record = Recovered(tail.read) + 1

\* The accept loop counts every connection it let in exactly as long as its
\* handler lives, so the limit holds and a slot comes back on every way a
\* handler ends but one: a handler that panics keeps its slot for good.
SlotsAccounted ==
    /\ live = Cardinality({c \in Clients : handler[c] # "none"}) + leaked
    /\ live <= max_connections

\* One replay at a time, and the table never lies about it: the busy flag is
\* set exactly while a job is being started or computed (or was lost with the
\* handler that started it), a job being computed is listed as running however
\* many finished ones were evicted, and once the flag is free every listed job
\* shows its result.
ReplayTableHonest ==
    LET starting == {c \in Clients : handler[c] \in {"listing", "spawning"}}
        computing == {w.id : w \in {v \in worker : ~v.stored}}
        running == {replay_jobs[i].id :
                      i \in {k \in DOMAIN replay_jobs : replay_jobs[k].status = "running"}}
        claims == Cardinality(starting) + Cardinality(worker) + leaked
    IN  /\ claims = (IF replay_busy THEN 1 ELSE 0)
        /\ computing \subseteq running
        /\ ~replay_busy => running = {}

\* A replay in progress ends and lets the next one start, whether it completes
\* or panics; only a job whose thread could not be started keeps the flag.
ReplayEnds == replay_busy ~> (~replay_busy \/ leaked > 0)

\* as_of_engine_seq is "the engine sequence the gateway last observed": what
\* the gateway reports never goes back to an older snapshot.
SnapshotNeverGoesBack == [][latest_snapshot' >= latest_snapshot]_latest_snapshot
==============================================================================
