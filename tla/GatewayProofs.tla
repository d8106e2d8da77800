---------------------------- MODULE GatewayProofs ----------------------------
(***************************************************************************)
(* Proofs about Gateway, for any number of clients, records, jobs kept and *)
(* any damage of the file: the two readers of the journal agree, every     *)
(* connection is accounted for, and the table of replays is honest.        *)
(***************************************************************************)
EXTENDS Gateway, ExtremaProofs, FiniteSetTheorems, TLAPS

USE Zenon

-----------------------------------------------------------------------------
(* Records and damage *)

\* What a damage is.
LEMMA DamageType ==
  ASSUME damage \in Damages
  PROVE  damage \in [record : 0..MaxRecords,
                     field : {"none", "length", "longer", "shorter", "body"}]
BY JournalConstants

\* A record is whole once its cells are there, unless it is the damaged one.
LEMMA WholeRecord ==
  ASSUME damage \in Damages, NEW k \in Nat, NEW h \in Int
  PROVE  Verdict(k, h) = "record" <=> (damage.record # k /\ h >= 1 + 3 * k)
<1>1. CASE damage.record = k
  BY <1>1, SMT DEF Verdict
<1>2. CASE damage.record # k
  <2>1. damage # [record |-> k, field |-> "length"]
    BY <1>2, SMT
  <2>2. ClaimedCells(k) = 3
    BY <1>2 DEF ClaimedCells, RecordCells
  <2>3. Verdict(k, h) = IF h - (1 + 3 * (k - 1)) < 1 THEN "incomplete"
                        ELSE IF h - (1 + 3 * (k - 1)) < 3 THEN "incomplete" ELSE "record"
    BY <1>2, <2>1, <2>2 DEF Verdict, FileCells, RecordCells
  <2> QED  BY <1>2, <2>3, SMT
<1> QED  BY <1>1, <1>2

\* Only the damaged record reads as corrupt.
LEMMA CorruptRecord ==
  ASSUME damage \in Damages, NEW k \in Nat, NEW h \in Int, Verdict(k, h) = "corrupt"
  PROVE  damage.record = k
<1> SUFFICES ASSUME damage.record # k PROVE FALSE
  OBVIOUS
<1>1. damage # [record |-> k, field |-> "length"]
  BY SMT
<1> QED  BY <1>1, SMT DEF Verdict

\* WholeFrom stops at the first record that is not whole.
LEMMA WholeFromProps ==
  ASSUME NEW k \in Nat, NEW h \in Int
  PROVE  /\ WholeFrom(k, h) \in 0..MaxRecords
         /\ \A i \in k..(k + WholeFrom(k, h) - 1) : Verdict(i, h) = "record"
         /\ WholeFrom(k, h) < MaxRecords => Verdict(k + WholeFrom(k, h), h) # "record"
<1> DEFINE S == {n \in 0..MaxRecords : \A i \in k..(k + n - 1) : Verdict(i, h) = "record"}
<1> DEFINE w == WholeFrom(k, h)
<1>0. MaxRecords \in Nat
  BY JournalConstants
<1>1. 0 \in S
  BY <1>0, SMT
<1>2. S \in SUBSET (0..MaxRecords) /\ S # {}
  BY <1>1
<1>3. Max(S) \in S /\ \A y \in S : y <= Max(S)
  BY <1>0, <1>2, MaxProps
<1>4. w = Max(S)
  BY DEF WholeFrom
<1>5. w \in 0..MaxRecords /\ \A i \in k..(k + w - 1) : Verdict(i, h) = "record"
  BY <1>3, <1>4
<1>6. ASSUME w < MaxRecords, Verdict(k + w, h) = "record"
      PROVE  FALSE
  <2>1. w + 1 \in 0..MaxRecords
    BY <1>0, <1>5, <1>6, SMT
  <2>2. \A i \in k..(k + (w + 1) - 1) : i \in k..(k + w - 1) \/ i = k + w
    BY <1>5, SMT
  <2>3. w + 1 \in S
    BY <1>5, <1>6, <2>1, <2>2
  <2>4. w + 1 <= w
    BY <1>3, <1>4, <2>3
  <2> QED  BY <1>5, <2>4, SMT
<1> QED  BY <1>5, <1>6

\* How far the recovery gets: every record before is whole, the next is not.
LEMMA RecoveredProps ==
  ASSUME NEW h \in Int
  PROVE  /\ Recovered(h) \in 0..MaxRecords
         /\ \A i \in 1..Recovered(h) : Verdict(i, h) = "record"
         /\ Recovered(h) < MaxRecords => Verdict(Recovered(h) + 1, h) # "record"
<1>1. PICK r \in 0..MaxRecords : r = Recovered(h)
  BY WholeFromProps DEF Recovered
<1>2. /\ \A i \in 1..(1 + r - 1) : Verdict(i, h) = "record"
      /\ r < MaxRecords => Verdict(1 + r, h) # "record"
  BY <1>1, WholeFromProps DEF Recovered
<1>3. 1 + r - 1 = r /\ 1 + r = r + 1
  BY <1>1, JournalConstants, SMT
<1> QED  BY <1>1, <1>2, <1>3

\* Whole records are recovered.
LEMMA WholeIsRecovered ==
  ASSUME NEW h \in Int, NEW n \in 0..MaxRecords,
         \A i \in 1..n : Verdict(i, h) = "record"
  PROVE  n <= Recovered(h)
<1>0. MaxRecords \in Nat
  BY JournalConstants
<1>1. PICK r \in 0..MaxRecords : r = Recovered(h)
  BY RecoveredProps
<1>2. r < MaxRecords => Verdict(r + 1, h) # "record"
  BY <1>1, RecoveredProps
<1>3. ASSUME r < n PROVE FALSE
  <2>1. r < MaxRecords /\ r + 1 \in 1..n
    BY <1>0, <1>1, <1>3, SMT
  <2> QED  BY <1>2, <2>1
<1> QED  BY <1>0, <1>1, <1>3, SMT

\* A file that grew recovers no less.
LEMMA RecoveryGrows ==
  ASSUME damage \in Damages, NEW g \in Int, NEW h \in Int, g <= h
  PROVE  Recovered(g) <= Recovered(h)
<1>1. PICK r \in 0..MaxRecords : r = Recovered(g)
  BY RecoveredProps
<1>2. \A i \in 1..r : Verdict(i, g) = "record"
  BY <1>1, RecoveredProps
<1>3. ASSUME NEW i \in 1..r PROVE Verdict(i, h) = "record"
  <2>1. i \in Nat
    BY <1>1, JournalConstants, SMT
  <2>2. damage.record # i /\ g >= 1 + 3 * i
    BY <1>2, <1>3, <2>1, WholeRecord
  <2>3. h >= 1 + 3 * i
    BY <2>1, <2>2, SMT
  <2> QED  BY <2>1, <2>2, <2>3, WholeRecord
<1> QED  BY <1>1, <1>3, WholeIsRecovered

\* Continuing after n whole records finds exactly what the recovery finds.
LEMMA ContinuedRecovery ==
  ASSUME damage \in Damages, NEW h \in Int, h <= FileCells(MaxRecords),
         NEW n \in Nat, n <= Recovered(h)
  PROVE  Recovered(h) = n + WholeFrom(n + 1, h)
<1>0. MaxRecords \in Nat
  BY JournalConstants
<1>1. PICK r \in 0..MaxRecords : r = Recovered(h)
  BY RecoveredProps
<1>2. PICK w \in 0..MaxRecords : w = WholeFrom(n + 1, h)
  BY <1>0, WholeFromProps, SMT
<1>3. (\A i \in 1..r : Verdict(i, h) = "record") /\ (r < MaxRecords => Verdict(r + 1, h) # "record")
  BY <1>1, RecoveredProps
<1>4. n + 1 \in Nat
  BY SMT
<1>5. /\ \A i \in (n + 1)..(n + 1 + w - 1) : Verdict(i, h) = "record"
      /\ w < MaxRecords => Verdict(n + 1 + w, h) # "record"
  BY <1>2, <1>4, WholeFromProps
<1>6. \A i \in 1..(n + w) : Verdict(i, h) = "record"
  <2>1. \A i \in 1..(n + w) : i \in 1..r \/ i \in (n + 1)..(n + 1 + w - 1)
    BY <1>0, <1>1, <1>2, SMT
  <2> QED  BY <1>3, <1>5, <2>1
<1>7. n + w <= MaxRecords
  <2>1. CASE n + w = 0
    BY <1>0, <2>1, SMT
  <2>2. CASE n + w # 0
    <3>1. n + w \in 1..(n + w) /\ n + w \in Nat
      BY <1>0, <1>2, <2>2, SMT
    <3>2. h >= 1 + 3 * (n + w)
      BY <1>6, <3>1, WholeRecord
    <3>3. h <= 1 + 3 * MaxRecords
      BY DEF FileCells, RecordCells
    <3> QED  BY <1>0, <3>1, <3>2, <3>3, SMT
  <2> QED  BY <2>1, <2>2
<1>8. n + w <= r
  <2>1. n + w \in 0..MaxRecords
    BY <1>0, <1>2, <1>7, SMT
  <2> QED  BY <1>1, <1>6, <2>1, WholeIsRecovered
<1>9. ASSUME n + w < r PROVE FALSE
  <2>1. w < MaxRecords /\ n + 1 + w \in 1..r
    BY <1>0, <1>1, <1>2, <1>9, SMT
  <2> QED  BY <1>3, <1>5, <2>1
<1> QED  BY <1>0, <1>1, <1>2, <1>8, <1>9, SMT

-----------------------------------------------------------------------------
(* The inductive invariant *)

Open == {c \in Clients : handler[c] # "none"}

Starters == {c \in Clients : handler[c] \in {"listing", "spawning"}}

NoneRunning == \A i \in DOMAIN replay_jobs : replay_jobs[i].status # "running"

\* Job j was listed last, and is the only one listed as running.
LastRuns(j) ==
    /\ Len(replay_jobs) > 0
    /\ replay_jobs[Len(replay_jobs)] = [id |-> j, status |-> "running"]
    /\ \A i \in 1..Len(replay_jobs) - 1 : replay_jobs[i].status # "running"

(* Who holds the busy flag: nobody, the handler that starts a job, the     *)
(* thread that computes it, or a handler that panicked.                    *)

Idle ==
    ~replay_busy /\ Starters = {} /\ worker = {} /\ leaked = 0 /\ NoneRunning

StartedBy(c) ==
    /\ replay_busy /\ Starters = {c} /\ worker = {} /\ leaked = 0
    /\ handler[c] = "listing" => NoneRunning
    /\ handler[c] = "spawning" => LastRuns(job[c])

ComputedBy(w) ==
    /\ replay_busy /\ Starters = {} /\ worker = {w} /\ leaked = 0
    /\ IF w.stored THEN NoneRunning ELSE LastRuns(w.id)

Lost == replay_busy /\ Starters = {} /\ worker = {} /\ leaked = 1

Claimed ==
    \/ Idle
    \/ \E c \in Clients : StartedBy(c)
    \/ \E w \in [id : Nat, stored : BOOLEAN] : ComputedBy(w)
    \/ Lost

ClosedTailIsEmpty == tail = None => delivered = <<>> /\ polled = None

IInv == TypeOK /\ SlotsAccounted /\ Claimed /\ TailAgreesWithRecovery /\ ClosedTailIsEmpty

-----------------------------------------------------------------------------
(* Connections *)

Steps == Methods \cup {"none", "reading", "replying", "listing", "spawning"}

\* Where a handler is after it moved.
LEMMA Moved ==
  ASSUME handler \in [Clients -> Steps], NEW c \in Clients, NEW step \in Steps, Goto(c, step)
  PROVE  /\ handler' \in [Clients -> Steps]
         /\ handler'[c] = step
         /\ \A d \in Clients : d # c => handler'[d] = handler[d]
BY SMT DEF Goto

\* A set of clients is finite.
LEMMA ClientsFinite ==
  ASSUME NEW S \in SUBSET Clients
  PROVE  IsFiniteSet(S) /\ Cardinality(S) \in Nat
BY GatewayConstants, FS_Subset, FS_CardinalityType

\* A handler that goes on keeps its slot.
LEMMA MoveKeepsSlot ==
  ASSUME handler \in [Clients -> Steps], NEW c \in Clients, NEW step \in Steps, Goto(c, step),
         handler[c] # "none", step # "none"
  PROVE  Open' = Open
BY Moved DEF Open

\* Slots stay accounted when a handler goes on.
LEMMA MoveAccounted ==
  ASSUME TypeOK, SlotsAccounted, NEW c \in Clients, NEW step \in Steps, Goto(c, step),
         handler[c] # "none", step # "none", UNCHANGED <<live, leaked>>
  PROVE  SlotsAccounted'
<1>1. handler \in [Clients -> Steps]
  BY DEF TypeOK, Steps
<1>2. Open' = Open
  BY <1>1, MoveKeepsSlot
<1> QED  BY <1>2 DEF SlotsAccounted, Open

\* A handler that ends normally frees one slot.
LEMMA CloseAccounted ==
  ASSUME TypeOK, SlotsAccounted, NEW c \in Clients, Close(c)
  PROVE  SlotsAccounted' /\ live' \in Nat
<1>1. handler \in [Clients -> Steps] /\ "none" \in Steps
  BY DEF TypeOK, Steps
<1>2. Goto(c, "none") /\ handler[c] # "none" /\ live' = live - 1 /\ leaked' = leaked
  BY DEF Close
<1>3. c \in Open /\ Open' = Open \ {c}
  BY <1>1, <1>2, Moved DEF Open
<1>4. IsFiniteSet(Open) /\ Cardinality(Open) \in Nat /\ Cardinality(Open') \in Nat
  BY ClientsFinite DEF Open
<1>5. Cardinality(Open \ {c}) = Cardinality(Open) - 1
  BY <1>3, <1>4, FS_RemoveElement
<1>6. live = Cardinality(Open) + leaked /\ live <= max_connections
  BY DEF SlotsAccounted, Open
<1>7. live \in Nat /\ leaked \in Nat /\ max_connections \in Nat
  BY GatewayConstants DEF TypeOK
<1>8. live' = Cardinality(Open') + leaked' /\ live' <= max_connections /\ live' \in Nat
  BY <1>2, <1>3, <1>4, <1>5, <1>6, <1>7, SMT
<1> QED  BY <1>8 DEF SlotsAccounted, Open

\* A connection is let in only below the limit, and counted.
LEMMA ConnectAccounted ==
  ASSUME TypeOK, SlotsAccounted, NEW c \in Clients, Connect(c)
  PROVE  SlotsAccounted'
<1>1. handler \in [Clients -> Steps] /\ "reading" \in Steps
  BY DEF TypeOK, Steps
<1>2. CASE live >= max_connections
  BY <1>2 DEF Connect, SlotsAccounted
<1>3. CASE ~(live >= max_connections)
  <2>1. Goto(c, "reading") /\ handler[c] = "none" /\ live' = live + 1 /\ leaked' = leaked
    BY <1>3 DEF Connect, At
  <2>2. c \notin Open /\ Open' = Open \cup {c}
    BY <1>1, <2>1, Moved DEF Open
  <2>3. IsFiniteSet(Open) /\ Cardinality(Open) \in Nat
    BY ClientsFinite DEF Open
  <2>4. Cardinality(Open \cup {c}) = Cardinality(Open) + 1
    BY <2>2, <2>3, FS_AddElement
  <2>5. live = Cardinality(Open) + leaked
    BY DEF SlotsAccounted, Open
  <2>6. live \in Nat /\ leaked \in Nat /\ max_connections \in Nat
    BY GatewayConstants DEF TypeOK
  <2>7. live' = Cardinality(Open') + leaked' /\ live' <= max_connections
    BY <1>3, <2>1, <2>2, <2>3, <2>4, <2>5, <2>6, SMT
  <2> QED  BY <2>7 DEF SlotsAccounted, Open
<1> QED  BY <1>2, <1>3

\* A handler that panics leaves its slot counted.
LEMMA PanicAccounted ==
  ASSUME TypeOK, SlotsAccounted, NEW c \in Clients, SpawnFails(c)
  PROVE  SlotsAccounted'
<1>1. handler \in [Clients -> Steps] /\ "none" \in Steps
  BY DEF TypeOK, Steps
<1>2. Goto(c, "none") /\ handler[c] # "none" /\ live' = live /\ leaked' = leaked + 1
  BY DEF SpawnFails, At
<1>3. c \in Open /\ Open' = Open \ {c}
  BY <1>1, <1>2, Moved DEF Open
<1>4. IsFiniteSet(Open) /\ Cardinality(Open) \in Nat
  BY ClientsFinite DEF Open
<1>5. Cardinality(Open \ {c}) = Cardinality(Open) - 1
  BY <1>3, <1>4, FS_RemoveElement
<1>6. live = Cardinality(Open) + leaked /\ live <= max_connections
  BY DEF SlotsAccounted, Open
<1>7. live \in Nat /\ leaked \in Nat
  BY DEF TypeOK
<1>8. live' = Cardinality(Open') + leaked' /\ live' <= max_connections
  BY <1>2, <1>3, <1>4, <1>5, <1>6, <1>7, SMT
<1> QED  BY <1>8 DEF SlotsAccounted, Open

\* Every step of the gateway keeps the slots accounted.
LEMMA SlotsStep ==
  ASSUME TypeOK, SlotsAccounted, [Next]_vars
  PROVE  SlotsAccounted'
<1>s. {"reading", "replying", "listing", "spawning"} \cup Methods \subseteq Steps
  BY DEF Steps
<1>m. "none" \notin Methods
  BY DEF Methods
<1>i. ASSUME UNCHANGED <<live, handler, leaked>> PROVE SlotsAccounted'
  BY <1>i DEF SlotsAccounted
<1>1. ASSUME NEW c \in Clients, Connect(c) PROVE SlotsAccounted'
  BY <1>1, ConnectAccounted
<1>2. ASSUME NEW c \in Clients, Close(c) PROVE SlotsAccounted'
  BY <1>2, CloseAccounted
<1>3. ASSUME NEW c \in Clients, RefuseRequest(c) PROVE SlotsAccounted'
  BY <1>3, <1>s, MoveAccounted DEF RefuseRequest, At
<1>4. ASSUME NEW c \in Clients, Reply(c) PROVE SlotsAccounted'
  BY <1>4, <1>s, MoveAccounted DEF Reply, At
<1>5. ASSUME NEW c \in Clients, NEW m \in methods, Request(c, m) PROVE SlotsAccounted'
  <2>1. m \in Steps /\ m # "none"
    BY <1>s, <1>m DEF TypeOK
  <2> QED  BY <1>5, <2>1, MoveAccounted DEF Request, At
<1>6. ASSUME NEW c \in Clients, NEW l \in Limits, NextOutputs(c, l) PROVE SlotsAccounted'
  BY <1>6, <1>s, MoveAccounted DEF NextOutputs, At
<1>7. ASSUME NEW c \in Clients, ResetJournalTail(c) PROVE SlotsAccounted'
  BY <1>7, <1>s, MoveAccounted DEF ResetJournalTail, At
<1>8. ASSUME NEW c \in Clients, TakeSnapshot(c) PROVE SlotsAccounted'
  <2>1. CASE snapshots = <<>>
    BY <1>8, <2>1, <1>s, MoveAccounted DEF TakeSnapshot, At
  <2>2. CASE snapshots # <<>>
    BY <1>8, <2>2, <1>i DEF TakeSnapshot
  <2> QED  BY <2>1, <2>2
<1>9. ASSUME NEW c \in Clients, StoreSnapshot(c) PROVE SlotsAccounted'
  BY <1>9, <1>i DEF StoreSnapshot
<1>10. ASSUME NEW c \in Clients, StartReplay(c) PROVE SlotsAccounted'
  BY <1>10, <1>s, MoveAccounted DEF StartReplay, At
<1>11. ASSUME NEW c \in Clients, ListJob(c) PROVE SlotsAccounted'
  BY <1>11, <1>s, MoveAccounted DEF ListJob, At
<1>12. ASSUME NEW c \in Clients, SpawnWorker(c) PROVE SlotsAccounted'
  BY <1>12, <1>s, MoveAccounted DEF SpawnWorker, At
<1>13. ASSUME NEW c \in Clients, SpawnFails(c) PROVE SlotsAccounted'
  BY <1>13, PanicAccounted
<1>14. ASSUME NEW c \in Clients, ReplayStatus(c) PROVE SlotsAccounted'
  BY <1>14, <1>s, MoveAccounted DEF ReplayStatus, At
<1>15. ASSUME Engine PROVE SlotsAccounted'
  BY <1>15, <1>i DEF Engine, PublishSnapshot
<1>16. ASSUME NEW w \in worker, StoreResult(w) PROVE SlotsAccounted'
  BY <1>16, <1>i DEF StoreResult
<1>17. ASSUME NEW w \in worker, ReleaseReplay(w) PROVE SlotsAccounted'
  BY <1>17, <1>i DEF ReleaseReplay
<1>18. ASSUME UNCHANGED vars PROVE SlotsAccounted'
  BY <1>18, <1>i DEF vars
<1> QED
  BY <1>1, <1>2, <1>3, <1>4, <1>5, <1>6, <1>7, <1>8, <1>9, <1>10, <1>11, <1>12, <1>13, <1>14,
     <1>15, <1>16, <1>17, <1>18 DEF Next, Dispatch, Starting, Worker

-----------------------------------------------------------------------------
(* Replay jobs *)

\* Who holds the flag does not change while no job is started, listed or ended.
LEMMA ClaimKept ==
  ASSUME Claimed, UNCHANGED <<replay_busy, replay_jobs, worker, leaked, job>>,
         Starters' = Starters, \A c \in Starters : handler'[c] = handler[c]
  PROVE  Claimed'
<1>1. CASE Idle
  BY <1>1 DEF Claimed, Idle, NoneRunning
<1>2. ASSUME NEW c \in Clients, StartedBy(c) PROVE Claimed'
  <2>1. c \in Starters
    BY <1>2 DEF StartedBy
  <2>2. handler'[c] = handler[c]
    BY <2>1
  <2>3. StartedBy(c)'
    BY <1>2, <2>2 DEF StartedBy, NoneRunning, LastRuns
  <2> QED  BY <2>3 DEF Claimed
<1>3. ASSUME NEW w \in [id : Nat, stored : BOOLEAN], ComputedBy(w) PROVE Claimed'
  <2>1. ComputedBy(w)'
    BY <1>3 DEF ComputedBy, NoneRunning, LastRuns
  <2> QED  BY <2>1 DEF Claimed
<1>4. CASE Lost
  BY <1>4 DEF Claimed, Lost
<1> QED  BY <1>1, <1>2, <1>3, <1>4 DEF Claimed

\* A handler that is not starting a job moves on without starting one.
LEMMA MoveKeepsClaim ==
  ASSUME TypeOK, Claimed, NEW c \in Clients, NEW step \in Steps, Goto(c, step),
         handler[c] \notin {"listing", "spawning"}, step \notin {"listing", "spawning"},
         UNCHANGED <<replay_busy, replay_jobs, worker, leaked, job>>
  PROVE  Claimed'
<1>1. handler \in [Clients -> Steps]
  BY DEF TypeOK, Steps
<1>2. handler'[c] = step /\ \A d \in Clients : d # c => handler'[d] = handler[d]
  BY <1>1, Moved
<1>3. Starters' = Starters
  BY <1>2 DEF Starters
<1>4. \A d \in Starters : handler'[d] = handler[d]
  BY <1>2 DEF Starters
<1> QED  BY <1>3, <1>4, ClaimKept

\* A client that is starting a job holds the flag.
LEMMA StarterClaims ==
  ASSUME Claimed, NEW c \in Clients, handler[c] \in {"listing", "spawning"}
  PROVE  StartedBy(c)
<1>1. c \in Starters
  BY DEF Starters
<1>2. PICK d \in Clients : StartedBy(d)
  BY <1>1 DEF Claimed, Idle, ComputedBy, Lost
<1>3. d = c
  BY <1>1, <1>2 DEF StartedBy
<1> QED  BY <1>2, <1>3

\* A replay thread that has not ended holds the flag.
LEMMA WorkerClaims ==
  ASSUME Claimed, NEW w \in worker
  PROVE  ComputedBy(w) /\ w \in [id : Nat, stored : BOOLEAN]
<1>1. PICK v \in [id : Nat, stored : BOOLEAN] : ComputedBy(v)
  BY DEF Claimed, Idle, StartedBy, Lost
<1>2. v = w
  BY <1>1 DEF ComputedBy
<1> QED  BY <1>1, <1>2

\* Claiming the flag is exclusive, and only a free flag is claimed.
LEMMA StartReplayClaim ==
  ASSUME TypeOK, Claimed, NEW c \in Clients, StartReplay(c)
  PROVE  Claimed'
<1>1. handler \in [Clients -> Steps] /\ {"replying", "listing"} \subseteq Steps
  BY DEF TypeOK, Steps
<1>2. CASE replay_busy
  BY <1>1, <1>2, MoveKeepsClaim DEF StartReplay, At
<1>3. CASE ~replay_busy
  <2>1. Idle
    BY <1>3 DEF Claimed, StartedBy, ComputedBy, Lost
  <2>2. handler'[c] = "listing" /\ \A d \in Clients : d # c => handler'[d] = handler[d]
    BY <1>1, <1>3, Moved DEF StartReplay
  <2>3. Starters' = {c}
    BY <2>1, <2>2 DEF Starters, Idle
  <2>4. StartedBy(c)'
    BY <1>3, <2>1, <2>2, <2>3 DEF StartedBy, StartReplay, Idle, NoneRunning
  <2> QED  BY <2>4 DEF Claimed
<1> QED  BY <1>2, <1>3

\* The table of jobs after one is listed.
LEMMA ListedLast ==
  ASSUME TypeOK, NoneRunning, NEW j \in Nat, NEW jobs,
         jobs = Append(replay_jobs, [id |-> j, status |-> "running"]),
         replay_jobs' = IF Len(jobs) > KeptJobs THEN Tail(jobs) ELSE jobs
  PROVE  LastRuns(j)' /\ replay_jobs' \in Seq([id : Nat, status : {"running", "completed", "failed"}])
<1> DEFINE Entry == [id : Nat, status : {"running", "completed", "failed"}]
<1> DEFINE e == [id |-> j, status |-> "running"]
<1>1. replay_jobs \in Seq(Entry) /\ e \in Entry
  BY DEF TypeOK
<1>2. KeptJobs \in Nat /\ KeptJobs >= 1
  BY GatewayConstants, SMT
<1>3. \A i \in 1..Len(replay_jobs) : replay_jobs[i].status # "running"
  BY <1>1, SMT DEF NoneRunning
<1> HIDE DEF e, Entry
<1>4. jobs \in Seq(Entry) /\ Len(jobs) = Len(replay_jobs) + 1 /\ jobs[Len(jobs)] = e
      /\ \A i \in 1..Len(jobs) - 1 : jobs[i] = replay_jobs[i]
  BY <1>1, SMT DEF e
<1>5. \A i \in 1..Len(jobs) - 1 : jobs[i].status # "running"
  BY <1>1, <1>3, <1>4, SMT
<1>6. CASE Len(jobs) > KeptJobs
  <2>1. /\ Tail(jobs) \in Seq(Entry) /\ Len(Tail(jobs)) = Len(jobs) - 1 /\ Len(Tail(jobs)) > 0
        /\ \A i \in 1..Len(Tail(jobs)) : Tail(jobs)[i] = jobs[i + 1]
    BY <1>2, <1>4, <1>6, SMT
  <2>2. Tail(jobs)[Len(Tail(jobs))] = e
    BY <1>2, <1>4, <1>6, <2>1, SMT
  <2>3. \A i \in 1..Len(Tail(jobs)) - 1 : Tail(jobs)[i].status # "running"
    BY <1>4, <1>5, <2>1, SMT
  <2>4. replay_jobs' = Tail(jobs)
    BY <1>6
  <2> QED  BY <2>1, <2>2, <2>3, <2>4 DEF LastRuns, e, Entry
<1>7. CASE ~(Len(jobs) > KeptJobs)
  <2>1. replay_jobs' = jobs /\ Len(jobs) > 0
    BY <1>1, <1>4, <1>7, SMT
  <2> QED  BY <1>4, <1>5, <2>1 DEF LastRuns, e, Entry
<1> QED  BY <1>6, <1>7

\* A job that is listed is the only one listed as running.
LEMMA ListJobClaim ==
  ASSUME TypeOK, Claimed, NEW c \in Clients, ListJob(c)
  PROVE  Claimed' /\ replay_jobs' \in Seq([id : Nat, status : {"running", "completed", "failed"}])
<1>1. handler \in [Clients -> Steps] /\ "spawning" \in Steps
  BY DEF TypeOK, Steps
<1>2. StartedBy(c) /\ handler[c] = "listing"
  BY StarterClaims DEF ListJob, At
<1>3. handler'[c] = "spawning" /\ \A d \in Clients : d # c => handler'[d] = handler[d]
  BY <1>1, Moved DEF ListJob
<1>4. Starters' = {c}
  BY <1>2, <1>3 DEF StartedBy, Starters
<1>5. PICK j \in Nat : j = job[c]
  BY DEF TypeOK
<1>6. LastRuns(j)' /\ replay_jobs' \in Seq([id : Nat, status : {"running", "completed", "failed"}])
  BY <1>2, <1>5, ListedLast DEF ListJob, StartedBy
<1>7. job' = job /\ replay_busy' = replay_busy /\ worker' = worker /\ leaked' = leaked
  BY DEF ListJob
<1>8. StartedBy(c)'
  BY <1>2, <1>3, <1>4, <1>5, <1>6, <1>7 DEF StartedBy
<1> QED  BY <1>6, <1>8 DEF Claimed

\* The handler passes its claim to the thread it starts.
LEMMA SpawnWorkerClaim ==
  ASSUME TypeOK, Claimed, NEW c \in Clients, SpawnWorker(c)
  PROVE  Claimed'
<1>1. handler \in [Clients -> Steps] /\ "replying" \in Steps
  BY DEF TypeOK, Steps
<1>2. StartedBy(c) /\ handler[c] = "spawning"
  BY StarterClaims DEF SpawnWorker, At
<1>3. handler'[c] = "replying" /\ \A d \in Clients : d # c => handler'[d] = handler[d]
  BY <1>1, Moved DEF SpawnWorker
<1>4. Starters' = {}
  BY <1>2, <1>3 DEF StartedBy, Starters
<1>5. PICK w \in [id : Nat, stored : BOOLEAN] : w = [id |-> job[c], stored |-> FALSE]
  BY DEF TypeOK
<1>6. w.id = job[c] /\ w.stored = FALSE
  BY <1>5
<1>7. worker' = {w} /\ replay_jobs' = replay_jobs /\ replay_busy' /\ leaked' = 0
  BY <1>2, <1>5 DEF SpawnWorker, StartedBy
<1>8. LastRuns(w.id)
  BY <1>2, <1>6 DEF StartedBy
<1>9. ComputedBy(w)'
  BY <1>4, <1>6, <1>7, <1>8 DEF ComputedBy, LastRuns
<1> QED  BY <1>9 DEF Claimed

\* A handler that panics takes the claim with it.
LEMMA SpawnFailsClaim ==
  ASSUME TypeOK, Claimed, NEW c \in Clients, SpawnFails(c)
  PROVE  Claimed'
<1>1. handler \in [Clients -> Steps] /\ "none" \in Steps
  BY DEF TypeOK, Steps
<1>2. StartedBy(c)
  BY StarterClaims DEF SpawnFails, At
<1>3. handler'[c] = "none" /\ \A d \in Clients : d # c => handler'[d] = handler[d]
  BY <1>1, Moved DEF SpawnFails
<1>4. Starters' = {}
  BY <1>2, <1>3 DEF StartedBy, Starters
<1>5. replay_busy' /\ worker' = {} /\ leaked' = leaked + 1 /\ leaked = 0
  BY <1>2 DEF SpawnFails, StartedBy, replay_vars
<1>6. leaked' = 1
  BY <1>5, SMT
<1> QED  BY <1>4, <1>5, <1>6 DEF Claimed, Lost

\* A stored result ends the only job listed as running.
LEMMA StoreResultClaim ==
  ASSUME TypeOK, Claimed, NEW w \in worker, StoreResult(w)
  PROVE  /\ Claimed'
         /\ replay_jobs' \in Seq([id : Nat, status : {"running", "completed", "failed"}])
         /\ worker' \in SUBSET [id : Nat, stored : BOOLEAN]
<1> DEFINE Entry == [id : Nat, status : {"running", "completed", "failed"}]
<1>1. ComputedBy(w) /\ w \in [id : Nat, stored : BOOLEAN]
  BY WorkerClaims
<1>2. LastRuns(w.id)
  BY <1>1 DEF ComputedBy, StoreResult
<1>3. PICK status \in {"completed", "failed"} :
        replay_jobs' = [i \in DOMAIN replay_jobs |->
                          IF replay_jobs[i].id = w.id THEN [id |-> w.id, status |-> status]
                                                      ELSE replay_jobs[i]]
  BY DEF StoreResult
<1>4. replay_jobs \in Seq(Entry) /\ w.id \in Nat
  BY <1>1 DEF TypeOK
<1>5. PICK n \in Nat : n = Len(replay_jobs) /\ DOMAIN replay_jobs = 1..n
  BY <1>4, SMT
<1>6. [id |-> w.id, status |-> status] \in Entry /\ status # "running"
  BY <1>4
<1>7. \A i \in 1..n : replay_jobs[i] \in Entry
  <2> HIDE DEF Entry
  <2> QED  BY <1>4, <1>5, SMT
<1>8. replay_jobs' \in [1..n -> Entry]
  BY <1>3, <1>5, <1>6, <1>7
<1>9. replay_jobs' \in Seq(Entry)
  <2> HIDE DEF Entry
  <2> QED  BY <1>8, SMT
<1>10. ASSUME NEW i \in 1..n PROVE replay_jobs'[i].status # "running"
  <2>1. CASE replay_jobs[i].id = w.id
    <3>1. replay_jobs'[i] = [id |-> w.id, status |-> status]
      BY <1>3, <1>5, <1>10, <2>1
    <3> QED  BY <1>6, <3>1
  <2>2. CASE replay_jobs[i].id # w.id
    <3>1. replay_jobs'[i] = replay_jobs[i]
      BY <1>3, <1>5, <1>10, <2>2
    <3>2. i # n
      <4>1. replay_jobs[n] = [id |-> w.id, status |-> "running"]
        BY <1>2, <1>5 DEF LastRuns
      <4>2. replay_jobs[n].id = w.id
        BY <4>1, SMT
      <4> QED  BY <2>2, <4>2
    <3>3. i \in 1..n - 1
      BY <1>5, <3>2, SMT
    <3> QED  BY <1>2, <1>5, <3>1, <3>3 DEF LastRuns
  <2> QED  BY <2>1, <2>2
<1>11. NoneRunning'
  BY <1>8, <1>10 DEF NoneRunning
<1>12. PICK v \in [id : Nat, stored : BOOLEAN] : v = [w EXCEPT !.stored = TRUE]
  BY <1>1
<1>13. v.stored
  BY <1>1, <1>12
<1>14. worker' = {v} /\ replay_busy' /\ leaked' = 0
  BY <1>1, <1>12 DEF StoreResult, ComputedBy
<1>15. Starters' = {}
  BY <1>1 DEF StoreResult, ComputedBy, Starters
<1>16. ComputedBy(v)'
  BY <1>11, <1>13, <1>14, <1>15 DEF ComputedBy
<1> QED  BY <1>9, <1>14, <1>16 DEF Claimed

\* The flag is given back after the result was stored.
LEMMA ReleaseReplayClaim ==
  ASSUME TypeOK, Claimed, NEW w \in worker, ReleaseReplay(w)
  PROVE  Claimed'
<1>1. ComputedBy(w)
  BY WorkerClaims
<1>2. worker' = {} /\ ~replay_busy' /\ leaked' = 0 /\ replay_jobs' = replay_jobs /\ NoneRunning
  BY <1>1 DEF ReleaseReplay, ComputedBy
<1>3. Starters' = {}
  BY <1>1 DEF ReleaseReplay, ComputedBy, Starters
<1> QED  BY <1>2, <1>3 DEF Claimed, Idle, NoneRunning

\* Every step of the gateway keeps the flag claimed by at most one.
LEMMA ClaimStep ==
  ASSUME TypeOK, Claimed, [Next]_vars
  PROVE  Claimed'
<1>s. {"none", "reading", "replying"} \cup Methods \subseteq Steps
  BY DEF Steps
<1>m. {"listing", "spawning"} \cap Methods = {}
  BY DEF Methods
<1>i. ASSUME UNCHANGED <<replay_vars, handler, leaked>> PROVE Claimed'
  BY <1>i, ClaimKept DEF Starters, replay_vars
<1>1. ASSUME NEW c \in Clients, Connect(c) PROVE Claimed'
  <2>1. CASE live >= max_connections
    BY <1>1, <1>i, <2>1 DEF Connect
  <2>2. CASE ~(live >= max_connections)
    BY <1>1, <1>s, <2>2, MoveKeepsClaim DEF Connect, At, replay_vars
  <2> QED  BY <2>1, <2>2
<1>2. ASSUME NEW c \in Clients, Close(c) PROVE Claimed'
  BY <1>2, <1>s, MoveKeepsClaim DEF Close, replay_vars
<1>3. ASSUME NEW c \in Clients, RefuseRequest(c) PROVE Claimed'
  BY <1>3, <1>s, MoveKeepsClaim DEF RefuseRequest, At, replay_vars
<1>4. ASSUME NEW c \in Clients, Reply(c) PROVE Claimed'
  BY <1>4, <1>s, MoveKeepsClaim DEF Reply, At, replay_vars
<1>5. ASSUME NEW c \in Clients, NEW m \in methods, Request(c, m) PROVE Claimed'
  <2>1. m \in Steps /\ m \notin {"listing", "spawning"}
    BY <1>s, <1>m DEF TypeOK
  <2> QED  BY <1>5, <2>1, MoveKeepsClaim DEF Request, At, replay_vars
<1>6. ASSUME NEW c \in Clients, NEW l \in Limits, NextOutputs(c, l) PROVE Claimed'
  BY <1>6, <1>s, MoveKeepsClaim DEF NextOutputs, At, replay_vars
<1>7. ASSUME NEW c \in Clients, ResetJournalTail(c) PROVE Claimed'
  BY <1>7, <1>s, MoveKeepsClaim DEF ResetJournalTail, At, replay_vars
<1>8. ASSUME NEW c \in Clients, TakeSnapshot(c) PROVE Claimed'
  <2>1. CASE snapshots = <<>>
    BY <1>8, <2>1, <1>s, MoveKeepsClaim DEF TakeSnapshot, At, replay_vars
  <2>2. CASE snapshots # <<>>
    BY <1>8, <2>2, <1>i DEF TakeSnapshot
  <2> QED  BY <2>1, <2>2
<1>9. ASSUME NEW c \in Clients, StoreSnapshot(c) PROVE Claimed'
  BY <1>9, <1>i DEF StoreSnapshot
<1>10. ASSUME NEW c \in Clients, ReplayStatus(c) PROVE Claimed'
  BY <1>10, <1>s, MoveKeepsClaim DEF ReplayStatus, At, replay_vars
<1>11. ASSUME Engine PROVE Claimed'
  BY <1>11, <1>i DEF Engine, PublishSnapshot
<1>12. ASSUME UNCHANGED vars PROVE Claimed'
  BY <1>12, <1>i DEF vars
<1> QED
  BY <1>1, <1>2, <1>3, <1>4, <1>5, <1>6, <1>7, <1>8, <1>9, <1>10, <1>11, <1>12,
     StartReplayClaim, ListJobClaim, SpawnWorkerClaim, SpawnFailsClaim, StoreResultClaim,
     ReleaseReplayClaim DEF Next, Dispatch, Starting, Worker

\* What the claim says of the table.
LEMMA ClaimIsHonest ==
  ASSUME TypeOK, Claimed
  PROVE  ReplayTableHonest
<1> DEFINE computing == {w.id : w \in {v \in worker : ~v.stored}}
<1> DEFINE running == {replay_jobs[i].id :
                         i \in {k \in DOMAIN replay_jobs : replay_jobs[k].status = "running"}}
<1> DEFINE claims == Cardinality(Starters) + Cardinality(worker) + leaked
<1>0. Cardinality({}) = 0 /\ \A x : Cardinality({x}) = 1
  BY FS_EmptySet, FS_Singleton
<1>1. NoneRunning => running = {}
  BY DEF NoneRunning
<1>2. ASSUME NEW j, LastRuns(j) PROVE j \in running
  <2>1. PICK n \in Nat : n = Len(replay_jobs) /\ DOMAIN replay_jobs = 1..n
    BY SMT DEF TypeOK
  <2>2. n \in DOMAIN replay_jobs
    BY <1>2, <2>1, SMT DEF LastRuns
  <2>3. replay_jobs[n] = [id |-> j, status |-> "running"]
    BY <1>2, <2>1 DEF LastRuns
  <2>4. replay_jobs[n].id = j /\ replay_jobs[n].status = "running"
    BY <2>3, SMT
  <2> QED  BY <2>2, <2>4
<1>3. /\ claims = (IF replay_busy THEN 1 ELSE 0)
      /\ computing \subseteq running
      /\ ~replay_busy => running = {}
  <2>1. CASE Idle
    <3>1. claims = 0 /\ computing = {} /\ ~replay_busy
      BY <1>0, <2>1, SMT DEF Idle
    <3> QED  BY <1>1, <2>1, <3>1 DEF Idle
  <2>2. ASSUME NEW c \in Clients, StartedBy(c)
        PROVE  claims = 1 /\ computing = {} /\ replay_busy
    <3>1. Starters = {c} /\ worker = {} /\ leaked = 0 /\ replay_busy
      BY <2>2 DEF StartedBy
    <3>2. Cardinality(Starters) = 1 /\ Cardinality(worker) = 0
      BY <1>0, <3>1
    <3>3. claims = 1
      BY <3>1, <3>2, SMT
    <3> QED  BY <3>1, <3>3
  <2>3. ASSUME NEW w \in [id : Nat, stored : BOOLEAN], ComputedBy(w)
        PROVE  claims = 1 /\ computing \subseteq running /\ replay_busy
    <3>1. claims = 1
      BY <1>0, <2>3, SMT DEF ComputedBy
    <3>2. computing \subseteq running
      BY <1>2, <2>3 DEF ComputedBy
    <3> QED  BY <2>3, <3>1, <3>2 DEF ComputedBy
  <2>4. CASE Lost
    <3>1. claims = 1 /\ computing = {} /\ replay_busy
      BY <1>0, <2>4, SMT DEF Lost
    <3> QED  BY <3>1
  <2> QED  BY <2>1, <2>2, <2>3, <2>4 DEF Claimed
<1> QED  BY <1>3 DEF ReplayTableHonest, Starters

-----------------------------------------------------------------------------
(* The journal tail *)

\* What a poll of a tail returns and where it leaves the tail.
LEMMA PollProps ==
  ASSUME TypeOK, NEW t \in [next : Nat, read : Int], NEW limit \in Nat
  PROVE  \E whole \in Nat, failed \in BOOLEAN :
           /\ whole <= limit /\ whole <= WholeFrom(t.next, cells)
           /\ whole < limit => whole = WholeFrom(t.next, cells)
           /\ failed <=> whole < limit /\ Verdict(t.next + whole, cells) = "corrupt"
           /\ Poll(t, limit).ok <=> ~failed
           /\ Poll(t, limit).events = IF failed THEN <<>> ELSE [i \in 1..whole |-> t.next + i - 1]
           /\ Poll(t, limit).tail = [next |-> IF failed THEN t.next ELSE t.next + whole, read |-> cells]
<1> DEFINE w == WholeFrom(t.next, cells)
<1> DEFINE whole == Min({limit, w})
<1> DEFINE failed == whole < limit /\ Verdict(t.next + whole, cells) = "corrupt"
<1>0. MaxRecords \in Nat /\ t.next \in Nat
  BY JournalConstants
<1>1. cells \in Int
  BY <1>0, SMT DEF TypeOK, FileCells, RecordCells
<1>2. w \in Nat
  <2>1. w \in 0..MaxRecords
    BY <1>0, <1>1, WholeFromProps
  <2> HIDE DEF w
  <2> QED  BY <1>0, <2>1, SMT
<1>3. {limit, w} \in SUBSET Nat /\ {limit, w} # {}
  BY <1>2
<1>4. whole \in {limit, w} /\ \A y \in {limit, w} : whole <= y
  BY <1>3, MinProps
<1>5. whole \in Nat /\ whole <= limit /\ whole <= w
  BY <1>2, <1>4
<1>6. whole < limit => whole = w
  <2> HIDE DEF w, whole
  <2> QED  BY <1>4, <1>5, SMT
<1>7. failed \in BOOLEAN
  OBVIOUS
<1>8. /\ Poll(t, limit).ok <=> ~failed
      /\ Poll(t, limit).events = IF failed THEN <<>> ELSE [i \in 1..whole |-> t.next + i - 1]
      /\ Poll(t, limit).tail = [next |-> IF failed THEN t.next ELSE t.next + whole, read |-> cells]
  BY DEF Poll
<1> HIDE DEF whole
<1> QED  BY <1>5, <1>6, <1>7, <1>8

First(n) == [i \in 1..n |-> i]

Following(n, m) == [i \in 1..m |-> n + 1 + i - 1]

\* Counting on from n.
LEMMA CountOn ==
  ASSUME NEW n \in Nat, NEW m \in Nat
  PROVE  /\ Len(Following(n, m)) = m
         /\ First(n) \o Following(n, m) = First(n + m)
         /\ First(n + m) \in Seq(Nat) /\ Len(First(n + m)) = n + m
<1>0. PICK a, b : a = First(n) /\ b = Following(n, m)
  OBVIOUS
<1>a. a = [i \in 1..n |-> i] /\ b = [i \in 1..m |-> n + 1 + i - 1]
  BY <1>0 DEF First, Following
<1>1. a \in [1..n -> Nat] /\ b \in [1..m -> Nat]
  BY <1>a, SMT
<1>2. a \in Seq(Nat) /\ b \in Seq(Nat)
  BY <1>1, SMT
<1>3. Len(a) = n /\ Len(b) = m
  BY <1>a, <1>1, <1>2, SMT
<1>4. a \o b \in Seq(Nat) /\ Len(a \o b) = n + m
  <2>1. \A x, y \in Seq(Nat) : x \o y \in Seq(Nat) /\ Len(x \o y) = Len(x) + Len(y)
    BY SMT
  <2> QED  BY <1>2, <1>3, <2>1
<1>5. \A i \in 1..n : (a \o b)[i] = i
  BY <1>a, <1>2, <1>3, SMT
<1>6. \A i \in n + 1..(n + m) : (a \o b)[i] = b[i - n] /\ i - n \in 1..m
  BY <1>2, <1>3, SMT
<1>7. \A i \in n + 1..(n + m) : (a \o b)[i] = i
  BY <1>a, <1>6, SMT
<1>8. \A i \in 1..(n + m) : (a \o b)[i] = i
  <2>1. \A i \in 1..(n + m) : i \in 1..n \/ i \in n + 1..(n + m)
    BY SMT
  <2> QED  BY <1>5, <1>7, <2>1
<1>9. a \o b \in [1..(n + m) -> Nat]
  <2>1. \A z \in Seq(Nat) : z \in [1..Len(z) -> Nat]
    BY SMT
  <2> QED  BY <1>4, <2>1
<1>10. a \o b = [i \in 1..(n + m) |-> i]
  BY <1>8, <1>9
<1>11. a \o b = First(n + m)
  BY <1>10 DEF First
<1> QED  BY <1>0, <1>3, <1>4, <1>11

\* A poll goes on where the tail stands, as far as the recovery gets.
LEMMA PollAgrees ==
  ASSUME TypeOK, TailAgreesWithRecovery,
         NEW t \in [next : Nat, read : Int], t.next = Len(delivered) + 1, NEW limit \in Nat,
         tail' = Poll(t, limit).tail, delivered' = delivered \o Poll(t, limit).events,
         polled' = [limit |-> limit, count |-> Len(Poll(t, limit).events),
                    ok |-> Poll(t, limit).ok],
         UNCHANGED file_vars
  PROVE  /\ TailAgreesWithRecovery' /\ ClosedTailIsEmpty'
         /\ tail' \in [next : Nat, read : Int] /\ delivered' \in Seq(Nat)
         /\ polled' \in [limit : Nat, count : Nat, ok : BOOLEAN]
<1>0. MaxRecords \in Nat /\ damage \in Damages
  BY JournalConstants DEF TypeOK
<1>1. cells \in Int /\ cells <= FileCells(MaxRecords)
  BY <1>0, SMT DEF TypeOK, FileCells, RecordCells
<1>2. PICK n \in Nat : n = Len(delivered)
  BY SMT DEF TypeOK
<1>3. delivered = [i \in 1..n |-> i] /\ n <= Recovered(cells) /\ delivered \in Seq(Nat)
  BY <1>2 DEF TailAgreesWithRecovery, TypeOK
<1>4. t.next = n + 1 /\ n + 1 \in Nat
  BY <1>2
<1>5. PICK whole \in Nat, failed \in BOOLEAN :
        /\ whole <= limit /\ whole <= WholeFrom(t.next, cells)
        /\ whole < limit => whole = WholeFrom(t.next, cells)
        /\ failed <=> whole < limit /\ Verdict(t.next + whole, cells) = "corrupt"
        /\ Poll(t, limit).ok <=> ~failed
        /\ Poll(t, limit).events = IF failed THEN <<>> ELSE [i \in 1..whole |-> t.next + i - 1]
        /\ Poll(t, limit).tail = [next |-> IF failed THEN t.next ELSE t.next + whole, read |-> cells]
  BY PollProps
<1>6. PICK w \in 0..MaxRecords : w = WholeFrom(n + 1, cells)
  BY <1>1, <1>4, WholeFromProps
<1>7. Recovered(cells) = n + w
  BY <1>0, <1>1, <1>3, <1>6, ContinuedRecovery
<1>8. whole <= w /\ (whole < limit => whole = w)
  BY <1>4, <1>5, <1>6
<1>9. cells' = cells /\ damage' = damage
  BY DEF file_vars
<1>10. \A h : Recovered(h)' = Recovered(h)
  BY <1>9 DEF Recovered, WholeFrom, Verdict, ClaimedCells, FileCells, RecordCells
<1>11. /\ polled'.limit = limit /\ polled'.count = Len(Poll(t, limit).events)
       /\ polled'.ok = Poll(t, limit).ok
  BY SMT
<1>12. Poll(t, limit).ok \in BOOLEAN
  BY DEF Poll
<1>13. CASE failed
  <2>1. Poll(t, limit).tail = [next |-> n + 1, read |-> cells]
    BY <1>4, <1>5, <1>13
  <2>2. Poll(t, limit).events = <<>> /\ ~Poll(t, limit).ok
    BY <1>5, <1>13
  <2>3. delivered' = delivered
    BY <1>3, <2>2, SMT
  <2>4. damage.record = n + 1 + whole
    <3>1. n + 1 + whole \in Nat
      BY SMT
    <3> QED  BY <1>0, <1>1, <1>4, <1>5, <1>13, <3>1, CorruptRecord
  <2>5. whole < limit
    BY <1>5, <1>13
  <2>6. damage.record = Recovered(cells) + 1
    BY <1>7, <1>8, <2>4, <2>5, SMT
  <2>7. tail'.next = n + 1 /\ tail'.read = cells
    BY <2>1, SMT
  <2>8. TailAgreesWithRecovery'
    BY <1>2, <1>3, <1>9, <1>10, <1>11, <2>2, <2>3, <2>6, <2>7 DEF TailAgreesWithRecovery
  <2>9. tail' \in [next : Nat, read : Int]
    BY <1>1, <1>4, <2>1, SMT
  <2>10. polled' \in [limit : Nat, count : Nat, ok : BOOLEAN]
    <3>1. Len(Poll(t, limit).events) \in Nat
      BY <2>2, SMT
    <3> QED  BY <1>12, <3>1
  <2>11. tail' # None
    BY <2>9, GatewayConstants
  <2> QED  BY <1>3, <2>3, <2>8, <2>9, <2>10, <2>11 DEF ClosedTailIsEmpty
<1>14. CASE ~failed
  <2>1. Poll(t, limit).tail = [next |-> n + 1 + whole, read |-> cells]
    BY <1>4, <1>5, <1>14
  <2>2. Poll(t, limit).events = [i \in 1..whole |-> n + 1 + i - 1] /\ Poll(t, limit).ok
    BY <1>4, <1>5, <1>14
  <2>3. /\ delivered' = [i \in 1..(n + whole) |-> i] /\ Len(delivered') = n + whole
        /\ delivered' \in Seq(Nat) /\ Len(Poll(t, limit).events) = whole
    <3>1. PICK d, e : d = delivered /\ e = Poll(t, limit).events
      OBVIOUS
    <3>2. d = First(n) /\ e = Following(n, whole)
      BY <1>3, <2>2, <3>1 DEF First, Following
    <3>3. Len(e) = whole /\ d \o e = First(n + whole)
          /\ First(n + whole) \in Seq(Nat) /\ Len(First(n + whole)) = n + whole
      BY <3>2, CountOn
    <3>4. delivered' = First(n + whole)
      BY <3>1, <3>3
    <3> QED  BY <3>1, <3>3, <3>4 DEF First
  <2>4. n + whole <= Recovered(cells) /\ n + 1 + whole = n + whole + 1
    BY <1>0, <1>7, <1>8, SMT
  <2>5. whole < limit => n + whole = Recovered(cells)
    BY <1>7, <1>8
  <2>6. tail'.next = n + whole + 1 /\ tail'.read = cells
    BY <2>1, <2>4, SMT
  <2>7. TailAgreesWithRecovery'
    BY <1>9, <1>10, <1>11, <2>2, <2>3, <2>4, <2>5, <2>6 DEF TailAgreesWithRecovery
  <2>8. tail' \in [next : Nat, read : Int]
    BY <1>1, <1>4, <2>1, SMT
  <2>9. polled' \in [limit : Nat, count : Nat, ok : BOOLEAN]
    BY <1>12, <2>3
  <2>10. tail' # None
    BY <2>8, GatewayConstants
  <2> QED  BY <2>3, <2>7, <2>8, <2>9, <2>10 DEF ClosedTailIsEmpty
<1> QED  BY <1>13, <1>14

\* The file only grows, so what was returned stays recoverable.
LEMMA GrowthAgrees ==
  ASSUME TypeOK, TailAgreesWithRecovery, cells' \in Int, cells' >= cells, damage' = damage,
         UNCHANGED tail_vars
  PROVE  TailAgreesWithRecovery'
<1>0. MaxRecords \in Nat /\ damage \in Damages
  BY JournalConstants DEF TypeOK
<1>1. cells \in Int
  BY <1>0, SMT DEF TypeOK, FileCells, RecordCells
<1>2. PICK g \in Int, h \in Int : g = cells /\ h = cells'
  BY <1>1
<1>3. \A k : Recovered(k)' = Recovered(k)
  BY DEF Recovered, WholeFrom, Verdict, ClaimedCells, FileCells, RecordCells
<1>4. Recovered(g) <= Recovered(h)
  BY <1>0, <1>2, RecoveryGrows, SMT
<1>5. Recovered(g) \in Nat /\ Recovered(h) \in Nat
  <2>1. Recovered(g) \in 0..MaxRecords /\ Recovered(h) \in 0..MaxRecords
    BY RecoveredProps
  <2> QED  BY <1>0, <2>1, SMT
<1>6. PICK n \in Nat : n = Len(delivered)
  BY SMT DEF TypeOK
<1>7. n <= Recovered(g)
  BY <1>2, <1>6 DEF TailAgreesWithRecovery
<1>8. n <= Recovered(h)
  BY <1>4, <1>5, <1>7, SMT
<1>9. delivered' = delivered /\ tail' = tail /\ polled' = polled
  BY DEF tail_vars
<1> QED  BY <1>2, <1>3, <1>6, <1>8, <1>9 DEF TailAgreesWithRecovery

\* A request for outputs keeps the tail where the recovery puts it.
LEMMA OutputsAgree ==
  ASSUME TypeOK, TailAgreesWithRecovery, ClosedTailIsEmpty,
         NEW c \in Clients, NEW limit \in Limits, NextOutputs(c, limit)
  PROVE  /\ TailAgreesWithRecovery' /\ ClosedTailIsEmpty'
         /\ tail' \in [next : Nat, read : Int] \cup {None} /\ delivered' \in Seq(Nat)
         /\ polled' \in [limit : Nat, count : Nat, ok : BOOLEAN] \cup {None}
<1>0. limit \in Nat /\ UNCHANGED file_vars
  BY GatewayConstants DEF NextOutputs
<1>1. CASE tail = None /\ cells < 1
  <2>1. UNCHANGED tail_vars /\ cells' = cells /\ damage' = damage
    BY <1>0, <1>1 DEF NextOutputs, file_vars
  <2>2. cells \in Int /\ cells >= cells
    BY JournalConstants, SMT DEF TypeOK, FileCells, RecordCells
  <2>3. TailAgreesWithRecovery'
    BY <2>1, <2>2, GrowthAgrees
  <2> QED  BY <2>1, <2>3 DEF tail_vars, TypeOK, ClosedTailIsEmpty
<1>2. CASE ~(tail = None /\ cells < 1)
  <2>1. PICK t : t = IF tail = None THEN OpenedTail ELSE tail
    OBVIOUS
  <2>2. /\ tail' = Poll(t, limit).tail /\ delivered' = delivered \o Poll(t, limit).events
        /\ polled' = [limit |-> limit, count |-> Len(Poll(t, limit).events),
                      ok |-> Poll(t, limit).ok]
    BY <1>2, <2>1 DEF NextOutputs
  <2>3. t \in [next : Nat, read : Int] /\ t.next = Len(delivered) + 1
    <3>1. CASE tail = None
      <4>1. t = [next |-> 1, read |-> 1] /\ delivered = <<>>
        BY <2>1, <3>1 DEF OpenedTail, ClosedTailIsEmpty
      <4> QED  BY <4>1, SMT
    <3>2. CASE tail # None
      BY <2>1, <3>2 DEF TypeOK, TailAgreesWithRecovery
    <3> QED  BY <3>1, <3>2
  <2> QED  BY <1>0, <2>2, <2>3, PollAgrees
<1> QED  BY <1>1, <1>2

\* A reset closes the tail; the next poll starts over.
LEMMA ResetAgrees ==
  ASSUME TypeOK, NEW c \in Clients, ResetJournalTail(c)
  PROVE  TailAgreesWithRecovery' /\ ClosedTailIsEmpty'
<1>1. tail' = None /\ delivered' = <<>> /\ polled' = None
  BY DEF ResetJournalTail
<1>2. cells' = cells /\ cells \in Int
  BY JournalConstants, SMT DEF TypeOK, FileCells, RecordCells, ResetJournalTail, file_vars
<1>3. PICK h \in Int : h = cells'
  BY <1>2
<1>4. Recovered(h)' \in 0..MaxRecords
  <2>1. damage' = damage
    BY DEF ResetJournalTail, file_vars
  <2>2. Recovered(h)' = Recovered(h)
    BY <2>1 DEF Recovered, WholeFrom, Verdict, ClaimedCells, FileCells, RecordCells
  <2> QED  BY <2>2, RecoveredProps
<1>5. 0 <= Recovered(h)'
  BY <1>4, JournalConstants, SMT
<1>6. Len(delivered') = 0 /\ delivered' = [i \in 1..0 |-> i]
  BY <1>1, SMT
<1> QED  BY <1>1, <1>3, <1>5, <1>6 DEF TailAgreesWithRecovery, ClosedTailIsEmpty

\* Every step of the gateway and the engine keeps the readers in agreement.
LEMMA TailStep ==
  ASSUME TypeOK, TailAgreesWithRecovery, ClosedTailIsEmpty, [Next]_vars
  PROVE  TailAgreesWithRecovery' /\ ClosedTailIsEmpty'
<1>0. cells \in Int /\ cells >= cells
  BY JournalConstants, SMT DEF TypeOK, FileCells, RecordCells
<1>i. ASSUME UNCHANGED <<file_vars, tail_vars>>
      PROVE  TailAgreesWithRecovery' /\ ClosedTailIsEmpty'
  <2>1. cells' = cells /\ damage' = damage /\ UNCHANGED tail_vars
    BY <1>i DEF file_vars
  <2>2. TailAgreesWithRecovery'
    BY <1>0, <2>1, GrowthAgrees
  <2> QED  BY <2>1, <2>2 DEF ClosedTailIsEmpty, tail_vars
<1>1. ASSUME CreateFile \/ WriteOut, UNCHANGED tail_vars
      PROVE  TailAgreesWithRecovery' /\ ClosedTailIsEmpty'
  <2>1. cells' \in Int /\ cells' >= cells /\ damage' = damage
    BY <1>0, <1>1, JournalConstants, SMT DEF CreateFile, WriteOut, FileCells, RecordCells
  <2>2. TailAgreesWithRecovery'
    BY <1>1, <2>1, GrowthAgrees
  <2> QED  BY <1>1, <2>2 DEF ClosedTailIsEmpty, tail_vars
<1>2. ASSUME NEW c \in Clients,
             \/ Connect(c) \/ Close(c) \/ RefuseRequest(c) \/ Reply(c)
             \/ \E m \in methods : Request(c, m)
             \/ TakeSnapshot(c) \/ StoreSnapshot(c) \/ Starting(c) \/ ReplayStatus(c)
      PROVE  UNCHANGED <<file_vars, tail_vars>>
  BY <1>2 DEF Connect, Close, RefuseRequest, Reply, Request, TakeSnapshot, StoreSnapshot,
     Starting, StartReplay, ListJob, SpawnWorker, SpawnFails, ReplayStatus
<1>3. ASSUME Worker \/ PublishSnapshot
      PROVE  UNCHANGED <<file_vars, tail_vars>>
  BY <1>3 DEF Worker, StoreResult, ReleaseReplay, PublishSnapshot
<1>4. ASSUME Engine PROVE TailAgreesWithRecovery' /\ ClosedTailIsEmpty'
  BY <1>i, <1>1, <1>3, <1>4 DEF Engine
<1>5. ASSUME UNCHANGED vars PROVE TailAgreesWithRecovery' /\ ClosedTailIsEmpty'
  BY <1>i, <1>5 DEF vars
<1> QED
  BY <1>i, <1>2, <1>3, <1>4, <1>5, OutputsAgree, ResetAgrees DEF Next, Dispatch

-----------------------------------------------------------------------------
(* Types *)

\* Every step keeps the types.
LEMMA TypeStep ==
  ASSUME IInv, [Next]_vars
  PROVE  TypeOK'
<1> DEFINE Entry == [id : Nat, status : {"running", "completed", "failed"}]
<1> DEFINE Replays ==
      /\ next_job \in Nat /\ replay_busy \in BOOLEAN /\ replay_jobs \in Seq(Entry)
      /\ job \in [Clients -> Nat] /\ worker \in SUBSET [id : Nat, stored : BOOLEAN]
<1> DEFINE Snaps ==
      /\ published \in Nat /\ snapshots \in Seq(Nat)
      /\ held \in [Clients -> Nat] /\ latest_snapshot \in Nat
<1> DEFINE TailOK ==
      /\ tail \in [next : Nat, read : Int] \cup {None} /\ delivered \in Seq(Nat)
      /\ polled \in [limit : Nat, count : Nat, ok : BOOLEAN] \cup {None}
<1> DEFINE FileOK == cells \in -1..FileCells(MaxRecords) /\ damage \in Damages
<1> DEFINE Conns == live \in Nat /\ leaked \in Nat /\ handler \in [Clients -> Steps]
<1> DEFINE Meths == methods \in SUBSET Methods
<1>0. TypeOK /\ SlotsAccounted /\ Claimed /\ TailAgreesWithRecovery /\ ClosedTailIsEmpty
  BY DEF IInv
<1>1. Replays /\ Snaps /\ TailOK /\ FileOK /\ Conns /\ Meths
  BY <1>0 DEF TypeOK, Steps
<1>2. ASSUME Replays', Snaps', TailOK', FileOK', Conns', Meths' PROVE TypeOK'
  BY <1>2 DEF TypeOK, Steps
<1>f. UNCHANGED file_vars => FileOK'
  BY <1>1 DEF file_vars
<1>t. UNCHANGED tail_vars => TailOK'
  BY <1>1 DEF tail_vars
<1>n. UNCHANGED snapshot_vars => Snaps'
  BY <1>1 DEF snapshot_vars
<1>r. UNCHANGED replay_vars => Replays'
  BY <1>1 DEF replay_vars
<1>m. UNCHANGED methods => Meths'
  BY <1>1
<1>c. UNCHANGED <<live, handler, leaked>> => Conns'
  BY <1>1
<1>s. {"none", "reading", "replying", "listing", "spawning"} \cup Methods \subseteq Steps
  BY DEF Steps
<1>g. ASSUME NEW c \in Clients, NEW step \in Steps, Goto(c, step), UNCHANGED <<live, leaked>>
      PROVE  Conns'
  BY <1>1, <1>g, Moved
<1> HIDE DEF Replays, Snaps, TailOK, FileOK, Conns, Meths
<1>3. ASSUME NEW c \in Clients, Connect(c) PROVE TypeOK'
  <2>1. Conns'
    <3>1. CASE live >= max_connections
      BY <1>c, <1>3, <3>1 DEF Connect
    <3>2. CASE ~(live >= max_connections)
      <4>1. live' \in Nat
        BY <1>1, <1>3, <3>2, SMT DEF Connect, Conns
      <4> QED  BY <1>1, <1>s, <1>3, <3>2, <4>1, Moved DEF Connect, Conns
    <3> QED  BY <3>1, <3>2
  <2> QED  BY <1>2, <1>3, <1>f, <1>t, <1>n, <1>r, <1>m, <2>1 DEF Connect
<1>4. ASSUME NEW c \in Clients, Close(c) PROVE TypeOK'
  <2>1. Conns'
    BY <1>0, <1>1, <1>s, <1>4, CloseAccounted, Moved DEF Close, Conns
  <2> QED  BY <1>2, <1>4, <1>f, <1>t, <1>n, <1>r, <1>m, <2>1 DEF Close
<1>5. ASSUME NEW c \in Clients, RefuseRequest(c) \/ Reply(c) \/ ReplayStatus(c) PROVE TypeOK'
  <2>1. Conns'
    BY <1>g, <1>s, <1>5 DEF RefuseRequest, Reply, ReplayStatus
  <2> QED
    BY <1>2, <1>5, <1>f, <1>t, <1>n, <1>r, <1>m, <2>1 DEF RefuseRequest, Reply, ReplayStatus
<1>6. ASSUME NEW c \in Clients, NEW method \in methods, Request(c, method) PROVE TypeOK'
  <2>1. Conns'
    BY <1>1, <1>g, <1>s, <1>6 DEF Request, Meths
  <2> QED  BY <1>2, <1>6, <1>f, <1>t, <1>n, <1>r, <1>m, <2>1 DEF Request
<1>7. ASSUME NEW c \in Clients, NEW limit \in Limits, NextOutputs(c, limit) PROVE TypeOK'
  <2>1. Conns'
    BY <1>g, <1>s, <1>7 DEF NextOutputs
  <2>2. TailOK'
    BY <1>0, <1>7, OutputsAgree DEF TailOK
  <2> QED  BY <1>2, <1>7, <1>f, <1>n, <1>r, <1>m, <2>1, <2>2 DEF NextOutputs
<1>8. ASSUME NEW c \in Clients, ResetJournalTail(c) PROVE TypeOK'
  <2>1. Conns'
    BY <1>g, <1>s, <1>8 DEF ResetJournalTail
  <2>2. TailOK'
    BY <1>8, SMT DEF TailOK, ResetJournalTail
  <2> QED  BY <1>2, <1>8, <1>f, <1>n, <1>r, <1>m, <2>1, <2>2 DEF ResetJournalTail
<1>9. ASSUME PublishSnapshot PROVE TypeOK'
  <2>1. Snaps'
    BY <1>1, <1>9, SMT DEF Snaps, PublishSnapshot
  <2> QED  BY <1>2, <1>9, <1>f, <1>t, <1>c, <1>r, <1>m, <2>1 DEF PublishSnapshot
<1>10. ASSUME NEW c \in Clients, TakeSnapshot(c) PROVE TypeOK'
  <2>1. CASE snapshots = <<>>
    <3>1. Conns' /\ Snaps'
      BY <1>g, <1>s, <1>n, <1>10, <2>1 DEF TakeSnapshot, snapshot_vars
    <3> QED  BY <1>2, <1>10, <1>f, <1>t, <1>r, <1>m, <3>1 DEF TakeSnapshot
  <2>2. CASE snapshots # <<>>
    <3>1. Conns'
      BY <1>c, <1>10, <2>2 DEF TakeSnapshot
    <3>2. Snaps'
      BY <1>1, <1>10, <2>2, SMT DEF Snaps, TakeSnapshot
    <3> QED  BY <1>2, <1>10, <1>f, <1>t, <1>r, <1>m, <3>1, <3>2 DEF TakeSnapshot
  <2> QED  BY <2>1, <2>2
<1>11. ASSUME NEW c \in Clients, StoreSnapshot(c) PROVE TypeOK'
  <2>1. Snaps'
    BY <1>1, <1>11, SMT DEF Snaps, StoreSnapshot
  <2> QED  BY <1>2, <1>11, <1>f, <1>t, <1>c, <1>r, <1>m, <2>1 DEF StoreSnapshot
<1>12. ASSUME NEW c \in Clients, StartReplay(c) PROVE TypeOK'
  <2>1. Conns'
    BY <1>g, <1>s, <1>12 DEF StartReplay
  <2>2. next_job' \in Nat
    BY <1>1, <1>12, SMT DEF Replays, StartReplay
  <2>3. replay_busy' \in BOOLEAN /\ replay_jobs' = replay_jobs /\ worker' = worker
    BY <1>1, <1>12 DEF Replays, StartReplay
  <2>4. job' \in [Clients -> Nat]
    BY <1>1, <1>12, <2>2, SMT DEF Replays, StartReplay
  <2>5. Replays'
    BY <1>1, <2>2, <2>3, <2>4 DEF Replays
  <2> QED  BY <1>2, <1>12, <1>f, <1>t, <1>n, <1>m, <2>1, <2>5 DEF StartReplay
<1>13. ASSUME NEW c \in Clients, ListJob(c) PROVE TypeOK'
  <2>1. Conns'
    BY <1>g, <1>s, <1>13 DEF ListJob
  <2>2. Replays'
    BY <1>0, <1>1, <1>13, ListJobClaim DEF Replays, ListJob
  <2> QED  BY <1>2, <1>13, <1>f, <1>t, <1>n, <1>m, <2>1, <2>2 DEF ListJob
<1>14. ASSUME NEW c \in Clients, SpawnWorker(c) PROVE TypeOK'
  <2>1. Conns'
    BY <1>g, <1>s, <1>14 DEF SpawnWorker
  <2>2. [id |-> job[c], stored |-> FALSE] \in [id : Nat, stored : BOOLEAN]
    BY <1>1 DEF Replays
  <2>3. Replays'
    BY <1>1, <1>14, <2>2 DEF Replays, SpawnWorker
  <2> QED  BY <1>2, <1>14, <1>f, <1>t, <1>n, <1>m, <2>1, <2>3 DEF SpawnWorker
<1>15. ASSUME NEW c \in Clients, SpawnFails(c) PROVE TypeOK'
  <2>1. leaked' \in Nat /\ live' \in Nat
    BY <1>1, <1>15, SMT DEF Conns, SpawnFails
  <2>2. Conns'
    BY <1>1, <1>s, <1>15, <2>1, Moved DEF SpawnFails, Conns
  <2> QED  BY <1>2, <1>15, <1>f, <1>t, <1>n, <1>r, <1>m, <2>2 DEF SpawnFails
<1>16. ASSUME NEW w \in worker, StoreResult(w) PROVE TypeOK'
  <2>1. Replays'
    BY <1>0, <1>1, <1>16, StoreResultClaim DEF Replays, StoreResult
  <2> QED  BY <1>2, <1>16, <1>f, <1>t, <1>n, <1>c, <1>m, <2>1 DEF StoreResult
<1>17. ASSUME NEW w \in worker, ReleaseReplay(w) PROVE TypeOK'
  <2>1. Replays'
    BY <1>1, <1>17 DEF Replays, ReleaseReplay
  <2> QED  BY <1>2, <1>17, <1>f, <1>t, <1>n, <1>c, <1>m, <2>1 DEF ReleaseReplay
<1>18. ASSUME Engine PROVE TypeOK'
  <2>1. ASSUME CreateFile \/ WriteOut,
               UNCHANGED <<methods, live, handler, tail_vars, snapshot_vars, replay_vars, leaked>>
        PROVE  TypeOK'
    <3>1. cells' \in -1..FileCells(MaxRecords)
      BY <1>1, <2>1, JournalConstants, SMT DEF FileOK, CreateFile, WriteOut, FileCells, RecordCells
    <3>2. FileOK'
      BY <1>1, <2>1, <3>1 DEF FileOK, CreateFile, WriteOut
    <3> QED  BY <1>2, <2>1, <3>2, <1>t, <1>n, <1>c, <1>r, <1>m
  <2> QED  BY <1>9, <1>18, <2>1 DEF Engine
<1>19. ASSUME UNCHANGED vars PROVE TypeOK'
  BY <1>2, <1>19, <1>f, <1>t, <1>n, <1>c, <1>r, <1>m DEF vars
<1> QED
  BY <1>3, <1>4, <1>5, <1>6, <1>7, <1>8, <1>10, <1>11, <1>12, <1>13, <1>14, <1>15, <1>16, <1>17,
     <1>18, <1>19 DEF Next, Dispatch, Starting, Worker

-----------------------------------------------------------------------------
(* The theorems *)

\* The invariant holds at the start.
LEMMA InitInv ==
  ASSUME Init
  PROVE  IInv
<1>0. MaxRecords \in Nat /\ IsFiniteSet(Clients) /\ max_connections \in Nat
  BY JournalConstants, GatewayConstants
<1>1. cells = -1 /\ damage \in Damages
  BY DEF Init, FileInit
<1>2. -1 \in -1..FileCells(MaxRecords) /\ -1 \in Int
  BY <1>0, SMT DEF FileCells, RecordCells
<1>3. methods \in SUBSET Methods
  BY GatewayConstants DEF Init
<1>4. <<>> \in Seq(Nat) /\ Len(<<>>) = 0 /\ 0 \in Nat
      /\ <<>> \in Seq([id : Nat, status : {"running", "completed", "failed"}])
      /\ <<>> = [i \in 1..0 |-> i] /\ DOMAIN <<>> = {}
  BY SMT
<1>5. TypeOK
  BY <1>1, <1>2, <1>3, <1>4 DEF Init, TypeOK
<1>6. Open = {} /\ Starters = {}
  BY DEF Init, Open, Starters
<1>7. SlotsAccounted
  <2>1. Cardinality(Open) = 0
    BY <1>6, FS_EmptySet
  <2>2. live = Cardinality(Open) + leaked /\ live <= max_connections
    BY <1>0, <2>1, SMT DEF Init
  <2> QED  BY <2>2 DEF SlotsAccounted, Open
<1>8. Claimed
  BY <1>4, <1>6 DEF Init, Claimed, Idle, NoneRunning
<1>9. PICK h \in Int : h = cells
  BY <1>1, <1>2
<1>10. 0 <= Recovered(h)
  <2>1. Recovered(h) \in 0..MaxRecords
    BY RecoveredProps
  <2> QED  BY <1>0, <2>1, SMT
<1>11. TailAgreesWithRecovery
  BY <1>4, <1>9, <1>10 DEF Init, TailAgreesWithRecovery
<1>12. ClosedTailIsEmpty
  BY DEF Init, ClosedTailIsEmpty
<1> QED  BY <1>5, <1>7, <1>8, <1>11, <1>12 DEF IInv

\* Every step keeps the invariant.
LEMMA StepInv ==
  ASSUME IInv, [Next]_vars
  PROVE  IInv'
<1>1. TypeOK /\ SlotsAccounted /\ Claimed /\ TailAgreesWithRecovery /\ ClosedTailIsEmpty
  BY DEF IInv
<1>2. TypeOK'
  BY TypeStep
<1>3. SlotsAccounted'
  BY <1>1, SlotsStep
<1>4. Claimed'
  BY <1>1, ClaimStep
<1>5. TailAgreesWithRecovery' /\ ClosedTailIsEmpty'
  BY <1>1, TailStep
<1> QED  BY <1>2, <1>3, <1>4, <1>5 DEF IInv

\* The invariant holds always.
LEMMA AlwaysInv == Spec => []IInv
<1>1. Init => IInv
  BY InitInv
<1>2. IInv /\ [Next]_vars => IInv'
  BY StepInv
<1> QED  BY <1>1, <1>2, PTL DEF Spec

\* The gateway's state keeps its types: in particular the count of live
\* connections never goes below zero.
THEOREM TypeCorrect == Spec => []TypeOK
<1>1. IInv => TypeOK
  BY DEF IInv
<1> QED  BY <1>1, AlwaysInv, PTL

\* The accept loop's count is exact and within the limit, for any number of
\* clients and any limit, however handlers end.
THEOREM SlotsAlwaysAccounted == Spec => []SlotsAccounted
<1>1. IInv => SlotsAccounted
  BY DEF IInv
<1> QED  BY <1>1, AlwaysInv, PTL

\* One replay at a time and an honest table, for any number of clients, jobs
\* and entries kept.
THEOREM ReplaysHonest == Spec => []ReplayTableHonest
<1>1. IInv => ReplayTableHonest
  BY ClaimIsHonest DEF IInv
<1> QED  BY <1>1, AlwaysInv, PTL

\* The tail returns what read_journal recovers, for a file of any length, any
\* damage, any way the file grew and any limits of the polls.
THEOREM ReadersAgree == Spec => []TailAgreesWithRecovery
<1>1. IInv => TailAgreesWithRecovery
  BY DEF IInv
<1> QED  BY <1>1, AlwaysInv, PTL
==============================================================================
