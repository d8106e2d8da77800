-------------------------- MODULE SettlementProofs --------------------------
(***************************************************************************)
(* Proofs about Settlement: what the outbox promises for any number of     *)
(* trades, any batch size and any sequence of timeouts, crashes and        *)
(* releases.  The proof needs no bound on the wire: a submission may land  *)
(* long after its caller gave up.                                          *)
(***************************************************************************)
EXTENDS Settlement, ExtremaProofs, FiniteSetTheorems, TLAPS

USE Zenon

-----------------------------------------------------------------------------
(* Concatenation and removal *)

\* The second part of a concatenation.
LEMMA ConcatTail ==
  ASSUME NEW T, NEW a \in Seq(T), NEW b \in Seq(T), NEW j \in Len(a) + 1 .. Len(a) + Len(b)
  PROVE  (a \o b)[j] = b[j - Len(a)]
BY SMT

\* Removing position k shifts the later elements down by one.
LEMMA WithoutProps ==
  ASSUME NEW T, NEW s \in Seq(T), NEW k \in DOMAIN s
  PROVE  /\ Without(s, k) \in Seq(T)
         /\ DOMAIN Without(s, k) = 1 .. Len(s) - 1
         /\ \A j \in 1 .. Len(s) - 1 :
              Without(s, k)[j] = IF j < k THEN s[j] ELSE s[j + 1]
<1> DEFINE a == SubSeq(s, 1, k - 1)
           b == SubSeq(s, k + 1, Len(s))
<1>1. Len(s) \in Nat /\ DOMAIN s = 1 .. Len(s) /\ k \in 1 .. Len(s)
  BY SMT
<1>2. a \in Seq(T) /\ Len(a) = k - 1 /\ \A j \in 1 .. k - 1 : a[j] = s[j]
  BY <1>1, SMT
<1>3. b \in Seq(T) /\ Len(b) = Len(s) - k
  BY <1>1, SMT
<1>4. \A j \in 1 .. Len(s) - k : b[j] = s[j + k]
  BY <1>1, SMT
<1> HIDE DEF a, b
<1>5. a \o b \in Seq(T) /\ Len(a \o b) = Len(s) - 1
  <2>1. a \o b \in Seq(T)
    BY <1>2, <1>3, SMT
  <2>2. Len(a \o b) = Len(a) + Len(b)
    BY <1>2, <1>3, SMT
  <2>3. (k - 1) + (Len(s) - k) = Len(s) - 1
    BY <1>1, SMT
  <2> QED  BY <1>2, <1>3, <2>1, <2>2, <2>3
<1>6. ASSUME NEW j \in 1 .. Len(s) - 1
      PROVE  (a \o b)[j] = IF j < k THEN s[j] ELSE s[j + 1]
  <2>1. CASE j < k
    BY <1>1, <1>2, <1>3, <2>1, SMT
  <2>2. CASE ~(j < k)
    <3>1. j - (k - 1) \in 1 .. Len(s) - k /\ j \in Len(a) + 1 .. Len(a) + Len(b)
      BY <1>1, <1>2, <1>3, <2>2, SMTT(20)
    <3>3. (a \o b)[j] = b[j - Len(a)]
      BY <1>2, <1>3, <3>1, ConcatTail
    <3>2. b[j - (k - 1)] = s[j - (k - 1) + k] /\ j - (k - 1) + k = j + 1
      BY <1>1, <1>4, <3>1, SMT
    <3> QED  BY <1>2, <2>2, <3>2, <3>3
  <2> QED  BY <2>1, <2>2
<1>7. Without(s, k) = a \o b
  BY DEF Without, a, b
<1>8. DOMAIN (a \o b) = 1 .. Len(a \o b)
  BY <1>5, SMT
<1> QED  BY <1>5, <1>6, <1>7, <1>8

\* What remains was there before, at other positions, each at one of its own.
LEMMA Removed ==
  ASSUME NEW T, NEW s \in Seq(T), NEW k \in DOMAIN s
  PROVE  \E old \in [DOMAIN Without(s, k) -> DOMAIN s \ {k}] :
           /\ \A j \in DOMAIN Without(s, k) : Without(s, k)[j] = s[old[j]]
           /\ \A i, j \in DOMAIN Without(s, k) : old[i] = old[j] => i = j
<1> DEFINE D   == DOMAIN Without(s, k)
           old == [j \in D |-> IF j < k THEN j ELSE j + 1]
<1>1. D = 1 .. Len(s) - 1 /\ DOMAIN s = 1 .. Len(s) /\ Len(s) \in Nat
  BY WithoutProps, SMT
<1>2. \A j \in D : old[j] \in DOMAIN s \ {k}
  BY <1>1, SMT
<1>3. ASSUME NEW j \in D
      PROVE  Without(s, k)[j] = s[old[j]]
  <2>1. Without(s, k)[j] = IF j < k THEN s[j] ELSE s[j + 1]
    BY <1>1, WithoutProps
  <2> QED  BY <2>1
<1>4. \A i, j \in D : old[i] = old[j] => i = j
  BY <1>1, SMT
<1>5. old \in [D -> DOMAIN s \ {k}]
  BY <1>2
<1> HIDE DEF old
<1> QED  BY <1>3, <1>4, <1>5

-----------------------------------------------------------------------------
(* The inductive invariant *)

\* The dispatcher awaits a call for the first row of its tick, and a submission
\* that is awaited is the call's.
InStep ==
    /\ call # NoCall => todo # <<>> /\ call.row = Head(todo)
    /\ \A k \in DOMAIN wire :
         wire[k].awaited => Waiting("submit") /\ call.row.id = wire[k].id
    /\ \A j, k \in DOMAIN wire : wire[j].awaited /\ wire[k].awaited => j = k

\* The trades that name a row are its manifest, its first trade among them, and
\* a trade that is not projected names no row.
ClaimsExact ==
    /\ \A id \in Ids : Claimed(id) = IF rows[id] = NoRow THEN {} ELSE rows[id].manifest
    /\ \A t \in Trades : t > projected => claim[t] = NoClaim
    /\ \A id \in Ids : rows[id] # NoRow => id[1] \in rows[id].manifest

\* What the outbox relies on beyond its own code: the projection is not rebuilt,
\* the venue looks at the receipt before it debits, and if it may refuse a batch
\* then it says notFound only when nothing is on its way.
Trusted ==
    /\ rebuilds = 0
    /\ "debits_first" \notin venue.traits
    /\ "rejects" \in venue.traits => "authoritative" \in venue.traits

OnWire(id) == \E k \in DOMAIN wire : wire[k].id = id

\* A receipt belongs to a row that was not refused, and holds its manifest.
ReceiptsOwned ==
    \A id \in Ids :
        receipts[id] # {} => /\ rows[id] # NoRow
                             /\ receipts[id] = rows[id].manifest
                             /\ rows[id].status # "failed"

\* A submission carries the manifest of a row that was sent and not refused; a
\* venue that tells what is on its way has at most one of each row.
WireOwned ==
    /\ \A k \in DOMAIN wire :
         /\ rows[wire[k].id] # NoRow
         /\ wire[k].manifest = rows[wire[k].id].manifest
         /\ rows[wire[k].id].status \notin {"failed", "pending"}
    /\ "authoritative" \in venue.traits =>
         \A j, k \in DOMAIN wire : wire[j].id = wire[k].id => j = k

Unresolved == {"pending", "submitted", "unknown"}

\* The rows of a tick are distinct and unresolved, and nobody but the dispatcher
\* moves them: until its own call a row is as it was read.
TodoCurrent ==
    /\ \A j, k \in DOMAIN todo : todo[j].id = todo[k].id => j = k
    /\ \A k \in DOMAIN todo :
         /\ rows[todo[k].id] # NoRow
         /\ todo[k].manifest = rows[todo[k].id].manifest
         /\ rows[todo[k].id].status \in Unresolved
         /\ k # 1 \/ call = NoCall => rows[todo[k].id].status = todo[k].status

\* What an answer says still holds while the dispatcher has not recorded it.
AnswerHolds ==
    call # NoCall =>
        /\ rows[call.row.id].status \in {"submitted", "unknown"}
        /\ call.outcome \in {"confirmed", "alreadyApplied"} =>
             receipts[call.row.id] = call.row.manifest
        /\ call.outcome = "rejected" => receipts[call.row.id] = {} /\ ~OnWire(call.row.id)
        /\ call.outcome = "notFound" /\ "authoritative" \in venue.traits => ~OnWire(call.row.id)

Sound == ReceiptsOwned /\ ConfirmedMeansSettled /\ WireOwned /\ TodoCurrent /\ AnswerHolds

IInv == TypeOK /\ InStep /\ ClaimsExact /\ (Trusted => Sound)

-----------------------------------------------------------------------------
(* Types *)

\* u is the row r with its status moved to next, if r is unresolved.
Updated(r, next, u) ==
    /\ u \in SettlementRow /\ u.manifest = r.manifest
    /\ r.status \in Unresolved => u.status = next

\* The statuses an outcome may lead to.
Results(outcome) ==
    IF outcome \in {"confirmed", "alreadyApplied"} THEN {"confirmed"}
    ELSE IF outcome = "rejected" THEN {"failed"} ELSE {"unknown", "needs_operator"}

\* transition keeps a row's type and manifest and moves an unresolved row.
LEMMA TransitionProps ==
  ASSUME NEW r \in SettlementRow, NEW next \in Statuses, NEW n \in Nat, NEW due \in BOOLEAN
  PROVE  Updated(r, next, Transition(r, next, n, due))
<1> DEFINE u == [r EXCEPT !.status = next, !.attempts = n, !.due = due]
<1>1. u \in SettlementRow
  BY DEF SettlementRow
<1>2. u.manifest = r.manifest /\ u.status = next
  BY SMT DEF SettlementRow
<1>3. Transition(r, next, n, due) =
        IF r.status = "confirmed" \/ (r.status = "failed" /\ next # "confirmed") THEN r ELSE u
  BY DEF Transition
<1> HIDE DEF u
<1>4. r.status \in Unresolved => r.status # "confirmed" /\ r.status # "failed"
  BY DEF Unresolved
<1> QED  BY <1>1, <1>2, <1>3, <1>4 DEF Updated

\* The same for each of the outbox's updates.
LEMMA RecordProps ==
  ASSUME NEW r \in SettlementRow
  PROVE  /\ Updated(r, "submitted", RecordAttempt(r))
         /\ Updated(r, "needs_operator", RecordNeedsOperator(r))
         /\ \A outcome \in CallOutcome \ {"waiting"} :
              \E next \in Results(outcome) : Updated(r, next, Recorded(r, outcome))
<1>1. r.attempts \in Nat /\ r.attempts + 1 \in Nat
  BY SMT DEF SettlementRow
<1>2. /\ TRUE \in BOOLEAN /\ FALSE \in BOOLEAN
      /\ "submitted" \in Statuses /\ "unknown" \in Statuses /\ "confirmed" \in Statuses
      /\ "failed" \in Statuses /\ "needs_operator" \in Statuses
  BY DEF Statuses
<1>3. Updated(r, "submitted", RecordAttempt(r))
  BY <1>1, <1>2, TransitionProps DEF RecordAttempt
<1>4. Updated(r, "needs_operator", RecordNeedsOperator(r))
  BY <1>1, <1>2, TransitionProps DEF RecordNeedsOperator
<1>5. Updated(r, "confirmed", RecordConfirmed(r))
  BY <1>1, <1>2, TransitionProps DEF RecordConfirmed
<1>6. Updated(r, "failed", RecordFailed(r))
  BY <1>1, <1>2, TransitionProps DEF RecordFailed
<1>7. \/ Updated(r, "unknown", RecordUnknown(r))
      \/ Updated(r, "needs_operator", RecordUnknown(r))
  <2>1. Updated(r, "unknown", Transition(r, "unknown", r.attempts + 1, FALSE))
    BY <1>1, <1>2, TransitionProps
  <2>2. Updated(r, "needs_operator", Transition(r, "needs_operator", r.attempts + 1, FALSE))
    BY <1>1, <1>2, TransitionProps
  <2> QED  BY <2>1, <2>2 DEF RecordUnknown
<1>8. ASSUME NEW outcome \in CallOutcome \ {"waiting"}
      PROVE  \E next \in Results(outcome) : Updated(r, next, Recorded(r, outcome))
  <2>1. CASE outcome \in {"confirmed", "alreadyApplied"}
    <3>1. Recorded(r, outcome) = RecordConfirmed(r) /\ "confirmed" \in Results(outcome)
      BY <2>1, SMT DEF Recorded, Results
    <3> QED  BY <1>5, <3>1
  <2>2. CASE outcome \in {"unknown", "notFound"}
    <3>1. /\ Recorded(r, outcome) = RecordUnknown(r)
          /\ "unknown" \in Results(outcome) /\ "needs_operator" \in Results(outcome)
      BY <2>2, SMT DEF Recorded, Results
    <3> QED  BY <1>7, <3>1
  <2>3. CASE outcome = "rejected"
    <3>1. Recorded(r, outcome) = RecordFailed(r) /\ "failed" \in Results(outcome)
      BY <2>3, SMT DEF Recorded, Results
    <3> QED  BY <1>6, <3>1
  <2> QED  BY <2>1, <2>2, <2>3 DEF CallOutcome
<1> QED  BY <1>3, <1>4, <1>8

-----------------------------------------------------------------------------
(* Batches *)

\* Identities are pairs of trades, and trades are naturals.
LEMMA IdProps ==
  /\ Trades \subseteq Nat
  /\ \A id \in Ids : id[1] \in Trades /\ id[2] \in Trades
  /\ \A x, y \in Trades : x <= y => <<x, y>> \in Ids
BY BatchAssumption, SMT DEF Trades, Ids

\* A batch is every unclaimed trade between the two its identity names.
LEMMA BatchProps ==
  ASSUME TypeOK, NextBatch # {}
  PROVE  /\ BatchId \in Ids /\ BatchId[1] \in NextBatch /\ NextBatch \subseteq Trades
         /\ NextBatch = {t \in Unclaimed : BatchId[1] <= t /\ t <= BatchId[2]}
<1>1. projected \in Nat /\ projected <= MaxTrades /\ MaxTrades \in Nat
  BY BatchAssumption, SMT DEF TypeOK
<1>2. NextBatch \subseteq Unclaimed /\ Unclaimed \subseteq 1 .. projected
  BY DEF NextBatch, Unclaimed
<1>3. /\ 1 .. projected \subseteq Trades /\ 1 .. projected \subseteq Nat
      /\ 1 .. projected \subseteq 0 .. projected
  BY <1>1, SMT DEF Trades
<1> DEFINE lo == Min(NextBatch)
           hi == Max(NextBatch)
<1>4. lo \in NextBatch /\ \A t \in NextBatch : lo <= t
  BY <1>2, <1>3, MinProps
<1>5. hi \in NextBatch /\ \A t \in NextBatch : t <= hi
  BY <1>1, <1>2, <1>3, MaxProps
<1> HIDE DEF lo, hi
<1>6. BatchId = <<lo, hi>>
  BY DEF BatchId, lo, hi
<1>7. BatchId[1] = lo /\ BatchId[2] = hi
  BY <1>6, SMT
<1>8. BatchId \in Ids
  BY <1>2, <1>3, <1>4, <1>5, <1>6, IdProps
<1>9. ASSUME NEW t \in Unclaimed, t <= hi
      PROVE  t \in NextBatch
  <2> DEFINE Below(x) == {u \in Unclaimed : u < x}
  <2>1. Below(t) \subseteq Below(hi)
    <3>1. hi \in Nat /\ t \in Nat
      BY <1>2, <1>3, <1>5
    <3>2. \A u \in Nat : u < t => u < hi
      BY <1>9, <3>1, SMT
    <3> QED  BY <1>2, <1>3, <3>2
  <2>2. IsFiniteSet(Unclaimed)
    <3>1. projected \in Int /\ 1 \in Int
      BY <1>1, SMT
    <3> QED  BY <1>2, <3>1, FS_Interval, FS_Subset
  <2>3. IsFiniteSet(Below(hi)) /\ IsFiniteSet(Below(t))
    BY <2>2, FS_Subset
  <2>4. Cardinality(Below(t)) <= Cardinality(Below(hi))
    BY <2>1, <2>3, FS_Subset
  <2>5. Cardinality(Below(hi)) \in Nat /\ Cardinality(Below(t)) \in Nat
    BY <2>3, FS_CardinalityType
  <2>6. Cardinality(Below(hi)) < BatchSize
    BY <1>5 DEF NextBatch
  <2> HIDE DEF Below
  <2>7. Cardinality(Below(t)) < BatchSize
    BY <2>4, <2>5, <2>6, BatchAssumption, SMT
  <2> QED  BY <2>7 DEF NextBatch, Below
<1>10. NextBatch = {t \in Unclaimed : lo <= t /\ t <= hi}
  BY <1>2, <1>4, <1>5, <1>9
<1> QED  BY <1>2, <1>3, <1>4, <1>7, <1>8, <1>10

\* A new batch never meets the identity of a row: the first trade of that row
\* names it, the first of the new batch names none.
LEMMA BatchFresh ==
  ASSUME TypeOK, ClaimsExact, NextBatch # {}
  PROVE  rows[BatchId] = NoRow
<1>1. BatchId \in Ids /\ BatchId[1] \in NextBatch
  BY BatchProps
<1>2. claim[BatchId[1]] = NoClaim
  BY <1>1 DEF NextBatch, Unclaimed
<1>3. SUFFICES ASSUME rows[BatchId] # NoRow
               PROVE  FALSE
  OBVIOUS
<1>4. BatchId[1] \in Claimed(BatchId)
  BY <1>1, <1>3 DEF ClaimsExact
<1>5. claim[BatchId[1]] = BatchId
  BY <1>4 DEF Claimed
<1> QED  BY <1>1, <1>2, <1>5, NoneAssumption

NewRow == [status |-> "pending", manifest |-> NextBatch, attempts |-> 0, due |-> TRUE]

\* createBatch adds a pending row and marks exactly its trades.
LEMMA CreateBatchProps ==
  ASSUME TypeOK, ClaimsExact, CreateBatch
  PROVE  \/ UNCHANGED <<claim, rows>>
         \/ /\ NextBatch # {} /\ BatchId \in Ids /\ rows[BatchId] = NoRow
            /\ BatchId[1] \in NextBatch /\ NextBatch \subseteq Unclaimed
            /\ NewRow \in SettlementRow /\ NewRow # NoRow
            /\ NewRow.status = "pending" /\ NewRow.manifest = NextBatch
            /\ rows' = [rows EXCEPT ![BatchId] = NewRow]
            /\ claim' = [t \in Trades |-> IF t \in NextBatch THEN BatchId ELSE claim[t]]
<1>1. CASE NextBatch = {}
  BY <1>1 DEF CreateBatch
<1>2. CASE NextBatch # {}
  <2>1. /\ BatchId \in Ids /\ BatchId[1] \in NextBatch /\ NextBatch \subseteq Trades
        /\ NextBatch = {t \in Unclaimed : BatchId[1] <= t /\ t <= BatchId[2]}
    BY <1>2, BatchProps
  <2>2. rows[BatchId] = NoRow
    BY <1>2, BatchFresh
  <2>3. "pending" \in Statuses /\ 0 \in Nat /\ TRUE \in BOOLEAN
    BY SMT DEF Statuses
  <2>4. NewRow \in SettlementRow
    BY <2>1, <2>3 DEF NewRow, SettlementRow
  <2>5. NewRow.status = "pending" /\ NewRow.manifest = NextBatch
    BY DEF NewRow
  <2>6. rows' = [rows EXCEPT ![BatchId] = IF @ # NoRow THEN @ ELSE NewRow]
    BY <1>2 DEF CreateBatch, NewRow
  <2>7. rows' = [rows EXCEPT ![BatchId] = NewRow]
    BY <2>2, <2>6
  <2>8. claim' = [t \in Trades |-> IF t \in NextBatch THEN BatchId ELSE claim[t]]
    BY <1>2, <2>1 DEF CreateBatch
  <2>9. NextBatch \subseteq Unclaimed
    BY DEF NextBatch
  <2> QED  BY <1>2, <2>1, <2>2, <2>4, <2>5, <2>7, <2>8, <2>9, NoneAssumption
<1> QED  BY <1>1, <1>2

-----------------------------------------------------------------------------
(* Type correctness *)

\* Head and tail of a sequence that is not empty.
LEMMA HeadTail ==
  ASSUME NEW T, NEW s \in Seq(T), s # <<>>
  PROVE  /\ 1 \in DOMAIN s /\ Head(s) = s[1] /\ Head(s) \in T /\ Tail(s) \in Seq(T)
         /\ \A k \in DOMAIN Tail(s) :
              k \in Nat /\ k + 1 \in DOMAIN s /\ k + 1 # 1 /\ Tail(s)[k] = s[k + 1]
<1>1. 1 \in DOMAIN s /\ Head(s) = s[1] /\ Tail(s) \in Seq(T)
  BY SMT
<1>2. \A k \in DOMAIN s : s[k] \in T
  BY SMT
<1>3. \A k \in DOMAIN Tail(s) :
        k \in Nat /\ k + 1 \in DOMAIN s /\ k + 1 # 1 /\ Tail(s)[k] = s[k + 1]
  BY SMT
<1> QED  BY <1>1, <1>2, <1>3

\* Appending adds one position.
LEMMA AppendProps ==
  ASSUME NEW T, NEW s \in Seq(T), NEW e \in T
  PROVE  /\ Append(s, e) \in Seq(T)
         /\ Len(s) + 1 \notin DOMAIN s
         /\ \A k \in DOMAIN Append(s, e) :
              \/ k \in DOMAIN s /\ Append(s, e)[k] = s[k]
              \/ k = Len(s) + 1 /\ Append(s, e)[k] = e
BY SMT

\* Nobody awaits the submissions on the wire any more; else they are the same.
LEMMA UnawaitedProps ==
  ASSUME wire \in Seq(Submission)
  PROVE  /\ Unawaited \in Seq(Submission) /\ DOMAIN Unawaited = DOMAIN wire
         /\ \A k \in DOMAIN wire :
              /\ ~Unawaited[k].awaited
              /\ Unawaited[k].id = wire[k].id /\ Unawaited[k].manifest = wire[k].manifest
<1>1. \A k \in DOMAIN wire : wire[k] \in Submission
  BY SMT
<1>2. ASSUME NEW m \in Submission
      PROVE  /\ [m EXCEPT !.awaited = FALSE] \in Submission
             /\ ~[m EXCEPT !.awaited = FALSE].awaited
  BY DEF Submission
<1>3. ASSUME NEW m \in Submission
      PROVE  /\ [m EXCEPT !.awaited = FALSE].id = m.id
             /\ [m EXCEPT !.awaited = FALSE].manifest = m.manifest
  BY SMT DEF Submission
<1>4. /\ DOMAIN Unawaited = DOMAIN wire
      /\ \A k \in DOMAIN wire : Unawaited[k] = [wire[k] EXCEPT !.awaited = FALSE]
      /\ Unawaited = [k \in DOMAIN wire |-> [wire[k] EXCEPT !.awaited = FALSE]]
  BY DEF Unawaited
<1>5. DOMAIN wire = 1 .. Len(wire) /\ Len(wire) \in Nat
  BY SMT
<1>6. Unawaited \in [1 .. Len(wire) -> Submission]
  BY <1>1, <1>2, <1>4, <1>5
<1>7. [1 .. Len(wire) -> Submission] \subseteq Seq(Submission)
  BY <1>5, SMT
<1> QED  BY <1>1, <1>2, <1>3, <1>4, <1>6, <1>7

\* The rows of a tick are typed, distinct and as the table holds them.
LEMMA TickProps ==
  ASSUME rows' \in [Ids -> SettlementRow \cup {NoRow}], Tick
  PROVE  /\ todo' \in Seq(TodoRow)
         /\ \A k \in DOMAIN todo' :
              /\ rows'[todo'[k].id] # NoRow
              /\ todo'[k].id \in Ids
              /\ rows'[todo'[k].id].status \in Unresolved
              /\ todo'[k].status = rows'[todo'[k].id].status
              /\ todo'[k].manifest = rows'[todo'[k].id].manifest
         /\ \A j, k \in DOMAIN todo' : todo'[j].id = todo'[k].id => j = k
<1> DEFINE Read(id) == [id |-> id, status |-> rows'[id].status, manifest |-> rows'[id].manifest]
<1>1. PICK n \in 0 .. PendingLimit : \E list \in [1 .. n -> PendingIds(rows')] :
         /\ IsPendingList(rows', list)
         /\ todo' = [k \in 1 .. n |-> Read(list[k])]
  BY DEF Tick
<1>2. PICK list \in [1 .. n -> PendingIds(rows')] :
         /\ IsPendingList(rows', list)
         /\ todo' = [k \in 1 .. n |-> Read(list[k])]
  BY <1>1
<1>3. n \in Nat
  BY SMT
<1>4. ASSUME NEW id \in PendingIds(rows')
      PROVE  /\ id \in Ids /\ rows'[id] # NoRow /\ rows'[id] \in SettlementRow
             /\ rows'[id].status \in Unresolved
  BY DEF PendingIds, IsPending, Unresolved
<1>5. ASSUME NEW r \in SettlementRow
      PROVE  r.status \in Statuses /\ r.manifest \in SUBSET Trades
  BY DEF SettlementRow
<1>6. \A id \in PendingIds(rows') : Read(id) \in TodoRow
  BY <1>4, <1>5 DEF TodoRow
<1>7. todo' \in [1 .. n -> TodoRow] /\ DOMAIN todo' = 1 .. n
  BY <1>2, <1>6
<1>8. [1 .. n -> TodoRow] \subseteq Seq(TodoRow)
  BY <1>3, SMT
<1>9. \A k \in 1 .. n : list[k] \in PendingIds(rows') /\ todo'[k] = Read(list[k])
  BY <1>2
<1>10. \A id : /\ Read(id).id = id /\ Read(id).status = rows'[id].status
               /\ Read(id).manifest = rows'[id].manifest
  OBVIOUS
<1> HIDE DEF Read
<1>11. ASSUME NEW j \in 1 .. n, NEW k \in 1 .. n, list[j] = list[k]
       PROVE  j = k
  <2>1. \A i \in 1 .. n : Position(PendingIds(rows'), list[i]) = i
    BY <1>2 DEF IsPendingList
  <2> QED  BY <1>11, <2>1
<1>12. \A k \in 1 .. n : todo'[k].id = list[k]
  BY <1>9, <1>10
<1>13. ASSUME NEW k \in 1 .. n
       PROVE  /\ rows'[list[k]] # NoRow /\ list[k] \in Ids
              /\ rows'[list[k]].status \in Unresolved
              /\ todo'[k].status = rows'[list[k]].status
              /\ todo'[k].manifest = rows'[list[k]].manifest
  BY <1>4, <1>9, <1>10
<1>14. ASSUME NEW k \in 1 .. n
       PROVE  /\ rows'[todo'[k].id] # NoRow
              /\ todo'[k].id \in Ids
              /\ rows'[todo'[k].id].status \in Unresolved
              /\ todo'[k].status = rows'[todo'[k].id].status
              /\ todo'[k].manifest = rows'[todo'[k].id].manifest
  BY <1>12, <1>13
<1>15. \A j, k \in 1 .. n : todo'[j].id = todo'[k].id => j = k
  BY <1>11, <1>12
<1>16. todo' \in Seq(TodoRow)
  BY <1>7, <1>8
<1> QED  BY <1>7, <1>14, <1>15, <1>16

\* What TypeOK says of the elements.
LEMMA Elements ==
  ASSUME TypeOK
  PROVE  /\ todo \in Seq(TodoRow) /\ wire \in Seq(Submission)
         /\ \A k \in DOMAIN todo : todo[k] \in TodoRow
         /\ \A k \in DOMAIN wire : wire[k] \in Submission
         /\ \A r \in TodoRow : r.id \in Ids /\ r.manifest \in SUBSET Trades /\ r.status \in Statuses
         /\ \A m \in Submission : m.id \in Ids /\ m.manifest \in SUBSET Trades
         /\ \A c \in VenueCall : c.row \in TodoRow /\ c.outcome \in CallOutcome
         /\ \A id \in Ids : rows[id] # NoRow => rows[id] \in SettlementRow
<1>1. todo \in Seq(TodoRow) /\ wire \in Seq(Submission)
  BY DEF TypeOK
<1>2. /\ \A k \in DOMAIN todo : todo[k] \in TodoRow
      /\ \A k \in DOMAIN wire : wire[k] \in Submission
  BY <1>1, SMT
<1>3. \A r \in TodoRow : r.id \in Ids /\ r.manifest \in SUBSET Trades /\ r.status \in Statuses
  BY DEF TodoRow
<1>4. \A m \in Submission : m.id \in Ids /\ m.manifest \in SUBSET Trades
  BY DEF Submission
<1>5. \A c \in VenueCall : c.row \in TodoRow /\ c.outcome \in CallOutcome
  BY DEF VenueCall
<1>6. \A id \in Ids : rows[id] # NoRow => rows[id] \in SettlementRow
  BY DEF TypeOK
<1> QED  BY <1>1, <1>2, <1>3, <1>4, <1>5, <1>6

\* A call's outcome can be set, and only the outcome changes.
LEMMA OutcomeProps ==
  ASSUME NEW c \in VenueCall, NEW outcome \in CallOutcome
  PROVE  /\ [c EXCEPT !.outcome = outcome] \in VenueCall
         /\ [c EXCEPT !.outcome = outcome].outcome = outcome
         /\ [c EXCEPT !.outcome = outcome].row = c.row
         /\ [c EXCEPT !.outcome = outcome].kind = c.kind
BY SMT DEF VenueCall

\* A new call is not NoCall.
LEMMA CallProps ==
  ASSUME NEW kind \in {"lookup", "submit"}, NEW row \in TodoRow
  PROVE  /\ Call(kind, row) \in VenueCall /\ Call(kind, row) # NoCall
         /\ Call(kind, row).kind = kind /\ Call(kind, row).row = row
         /\ Call(kind, row).outcome = "waiting"
<1>1. Call(kind, row) \in VenueCall
  BY DEF Call, VenueCall, CallOutcome
<1>2. /\ Call(kind, row).kind = kind /\ Call(kind, row).row = row
      /\ Call(kind, row).outcome = "waiting"
  BY DEF Call
<1> QED  BY <1>1, <1>2, NoneAssumption

\* One row changes.
LEMMA RowSet ==
  ASSUME TypeOK, NEW id \in Ids, NEW u \in SettlementRow \cup {NoRow},
         rows' = [rows EXCEPT ![id] = u]
  PROVE  /\ rows' \in [Ids -> SettlementRow \cup {NoRow}]
         /\ rows'[id] = u
         /\ \A o \in Ids : o # id => rows'[o] = rows[o]
BY DEF TypeOK

Sent(row) == [id |-> row.id, manifest |-> row.manifest, awaited |-> TRUE]

\* submit records the attempt, awaits the call and puts the batch on the wire.
LEMMA SubmitProps ==
  ASSUME TypeOK, NEW row \in TodoRow, rows[row.id] # NoRow, Submit(row)
  PROVE  /\ rows' \in [Ids -> SettlementRow \cup {NoRow}]
         /\ Updated(rows[row.id], "submitted", rows'[row.id])
         /\ \A o \in Ids : o # row.id => rows'[o] = rows[o]
         /\ call' = Call("submit", row)
         /\ call' \in VenueCall /\ call' # NoCall
         /\ call'.kind = "submit" /\ call'.row = row /\ call'.outcome = "waiting"
         /\ wire' = Append(wire, Sent(row)) /\ wire' \in Seq(Submission)
         /\ Sent(row) \in Submission /\ Sent(row).awaited
         /\ Sent(row).id = row.id /\ Sent(row).manifest = row.manifest
<1>1. row.id \in Ids /\ row.manifest \in SUBSET Trades /\ rows[row.id] \in SettlementRow
  BY Elements
<1>2. Updated(rows[row.id], "submitted", RecordAttempt(rows[row.id]))
  BY <1>1, RecordProps
<1>3. rows' = [rows EXCEPT ![row.id] = RecordAttempt(rows[row.id])]
  BY DEF Submit
<1>4. RecordAttempt(rows[row.id]) \in SettlementRow
  BY <1>2 DEF Updated
<1>5. /\ rows' \in [Ids -> SettlementRow \cup {NoRow}]
      /\ rows'[row.id] = RecordAttempt(rows[row.id])
      /\ \A o \in Ids : o # row.id => rows'[o] = rows[o]
  BY <1>1, <1>3, <1>4, RowSet
<1>6. /\ call' = Call("submit", row)
      /\ call' \in VenueCall /\ call' # NoCall
      /\ call'.kind = "submit" /\ call'.row = row /\ call'.outcome = "waiting"
  BY CallProps DEF Submit
<1>7. /\ Sent(row) \in Submission /\ Sent(row).awaited
      /\ Sent(row).id = row.id /\ Sent(row).manifest = row.manifest
  BY <1>1 DEF Sent, Submission
<1>8. wire' = Append(wire, Sent(row))
  BY DEF Submit, Sent
<1>9. wire' \in Seq(Submission)
  BY <1>7, <1>8, Elements, AppendProps
<1> QED  BY <1>2, <1>5, <1>6, <1>7, <1>8, <1>9

\* A step keeps the types.
LEMMA TypeStep ==
  ASSUME TypeOK, InStep, ClaimsExact, [Next]_vars
  PROVE  TypeOK'
<1> USE DEF bound_vars, db_vars
<1>1. CASE ProjectTrade
  <2>1. projected' \in 0 .. MaxTrades
    <3>1. venue.trades \in 0 .. MaxTrades
      BY VenueAssumption DEF TypeOK
    <3>2. projected \in 0 .. MaxTrades /\ projected < venue.trades /\ projected' = projected + 1
      BY <1>1 DEF ProjectTrade, TypeOK
    <3> QED  BY <3>1, <3>2, BatchAssumption, SMT
  <2> QED  BY <1>1, <2>1 DEF ProjectTrade, TypeOK
<1>2. CASE Tick
  <2>1. claim' \in [Trades -> Ids \cup {NoClaim}] /\ rows' \in [Ids -> SettlementRow \cup {NoRow}]
    <3>1. CreateBatch
      BY <1>2 DEF Tick
    <3>2. CASE UNCHANGED <<claim, rows>>
      BY <3>2 DEF TypeOK
    <3>3. CASE ~UNCHANGED <<claim, rows>>
      <4>1. /\ BatchId \in Ids /\ NewRow \in SettlementRow
            /\ rows' = [rows EXCEPT ![BatchId] = NewRow]
            /\ claim' = [t \in Trades |-> IF t \in NextBatch THEN BatchId ELSE claim[t]]
        BY <3>1, <3>3, CreateBatchProps
      <4>2. rows' \in [Ids -> SettlementRow \cup {NoRow}]
        BY <4>1, RowSet
      <4>3. claim \in [Trades -> Ids \cup {NoClaim}]
        BY DEF TypeOK
      <4> QED  BY <4>1, <4>2, <4>3
    <3> QED  BY <3>2, <3>3
  <2>2. todo' \in Seq(TodoRow)
    BY <1>2, <2>1, TickProps
  <2> QED  BY <1>2, <2>1, <2>2 DEF Tick, TypeOK
<1>3. CASE Advance
  <2> DEFINE row == Head(todo)
  <2>1. todo # <<>> /\ rows[row.id] # NoRow
    BY <1>3 DEF Advance
  <2>2. row \in TodoRow /\ row.id \in Ids /\ Tail(todo) \in Seq(TodoRow)
    BY <2>1, Elements, HeadTail
  <2>3. rows[row.id] \in SettlementRow
    BY <2>1, <2>2, Elements
  <2>4. CASE Claimed(row.id) # rows[row.id].manifest
    <3>1. rows' = [rows EXCEPT ![row.id] = RecordNeedsOperator(rows[row.id])]
      BY <1>3, <2>4 DEF Advance
    <3>2. RecordNeedsOperator(rows[row.id]) \in SettlementRow
      BY <2>3, RecordProps DEF Updated
    <3>3. rows' \in [Ids -> SettlementRow \cup {NoRow}]
      BY <2>2, <3>1, <3>2, RowSet
    <3> QED  BY <1>3, <2>2, <2>4, <3>3 DEF Advance, TypeOK
  <2>5. CASE Claimed(row.id) = rows[row.id].manifest /\ row.status \in {"unknown", "submitted"}
    <3>1. call' = Call("lookup", row) /\ UNCHANGED <<rows, wire, todo>>
      BY <1>3, <2>5 DEF Advance
    <3>2. call' \in VenueCall
      BY <2>2, <3>1, CallProps
    <3> QED  BY <1>3, <3>1, <3>2 DEF Advance, TypeOK
  <2>6. CASE Claimed(row.id) = rows[row.id].manifest /\ row.status \notin {"unknown", "submitted"}
    <3>1. Submit(row) /\ UNCHANGED todo
      BY <1>3, <2>6 DEF Advance
    <3>2. /\ rows' \in [Ids -> SettlementRow \cup {NoRow}]
          /\ call' \in VenueCall /\ wire' \in Seq(Submission)
      BY <2>1, <2>2, <3>1, SubmitProps
    <3> QED  BY <1>3, <3>1, <3>2 DEF Advance, TypeOK
  <2> QED  BY <2>4, <2>5, <2>6
<1>4. CASE AdvanceMissing
  <2>1. <<>> \in Seq(TodoRow)
    BY SMT
  <2> QED  BY <1>4, <2>1 DEF AdvanceMissing, TypeOK
<1>5. CASE Resubmit
  <2>1. call # NoCall /\ rows[call.row.id] # NoRow /\ Submit(call.row)
    BY <1>5 DEF Resubmit
  <2>2. call.row \in TodoRow
    BY <2>1, Elements DEF TypeOK
  <2>3. /\ rows' \in [Ids -> SettlementRow \cup {NoRow}]
        /\ call' \in VenueCall /\ wire' \in Seq(Submission)
    BY <2>1, <2>2, SubmitProps
  <2> QED  BY <1>5, <2>3 DEF Resubmit, TypeOK
<1>6. CASE RecordOutcome
  <2>1. /\ call # NoCall /\ call.outcome # "waiting" /\ rows[call.row.id] # NoRow
        /\ rows' = [rows EXCEPT ![call.row.id] = Recorded(rows[call.row.id], call.outcome)]
        /\ call' = NoCall /\ todo' = Tail(todo)
    BY <1>6 DEF RecordOutcome
  <2>2. call \in VenueCall /\ call.row \in TodoRow /\ call.outcome \in CallOutcome \ {"waiting"}
    BY <2>1, Elements DEF TypeOK
  <2>3. call.row.id \in Ids /\ rows[call.row.id] \in SettlementRow
    BY <2>1, <2>2, Elements
  <2>4. Recorded(rows[call.row.id], call.outcome) \in SettlementRow
    BY <2>2, <2>3, RecordProps DEF Updated
  <2>5. rows' \in [Ids -> SettlementRow \cup {NoRow}]
    BY <2>1, <2>3, <2>4, RowSet
  <2>6. todo' \in Seq(TodoRow)
    BY <2>1, Elements, HeadTail DEF InStep
  <2> QED  BY <1>6, <2>1, <2>5, <2>6 DEF RecordOutcome, TypeOK
<1>7. CASE OutcomeOfMissing
  <2>1. <<>> \in Seq(TodoRow)
    BY SMT
  <2> QED  BY <1>7, <2>1 DEF OutcomeOfMissing, TypeOK
<1>8. CASE LookupAnswer
  <2>1. call \in VenueCall
    BY <1>8 DEF LookupAnswer, Waiting, TypeOK
  <2>2. \A m : {"notFound", Reconciled(call.row.id, m)} \subseteq CallOutcome
    BY DEF Reconciled, CallOutcome
  <2>3. call' \in VenueCall
    BY <1>8, <2>1, <2>2, OutcomeProps DEF LookupAnswer
  <2> QED  BY <1>8, <2>3 DEF LookupAnswer, TypeOK
<1>9. ASSUME NEW k \in DOMAIN wire, SubmissionLands(k)
      PROVE  TypeOK'
  <2>1. PICK outcome \in {"confirmed", "alreadyApplied", "rejected", "unknown"} :
          /\ Lands(wire[k], outcome)
          /\ call' = IF wire[k].awaited THEN [call EXCEPT !.outcome = outcome] ELSE call
    BY <1>9 DEF SubmissionLands
  <2>2. call' \in VenueCall \cup {NoCall}
    <3>1. CASE wire[k].awaited
      <4>1. call \in VenueCall
        BY <3>1 DEF InStep, Waiting, TypeOK
      <4>2. outcome \in CallOutcome
        BY DEF CallOutcome
      <4> QED  BY <2>1, <3>1, <4>1, <4>2, OutcomeProps
    <3> QED  BY <2>1, <3>1 DEF TypeOK
  <2>3. wire' \in Seq(Submission)
    BY <1>9, Elements, WithoutProps DEF SubmissionLands
  <2>4. receipts' \in [Ids -> SUBSET Trades]
    <3>1. wire[k].id \in Ids /\ wire[k].manifest \in SUBSET Trades
      BY Elements
    <3> QED  BY <2>1, <3>1 DEF Lands, TypeOK
  <2> QED  BY <1>9, <2>2, <2>3, <2>4 DEF SubmissionLands, TypeOK
<1>10. ASSUME NEW k \in DOMAIN wire, SubmissionLost(k)
       PROVE  TypeOK'
  <2>1. wire' \in Seq(Submission)
    BY <1>10, Elements, WithoutProps DEF SubmissionLost
  <2> QED  BY <1>10, <2>1 DEF SubmissionLost, TypeOK
<1>11. CASE TimesOut
  <2>1. call \in VenueCall /\ "unknown" \in CallOutcome
    BY <1>11 DEF TimesOut, TypeOK, CallOutcome
  <2>2. call' \in VenueCall
    BY <1>11, <2>1, OutcomeProps DEF TimesOut
  <2>3. wire' \in Seq(Submission)
    BY <1>11, UnawaitedProps, Elements DEF TimesOut
  <2> QED  BY <1>11, <2>2, <2>3 DEF TimesOut, TypeOK
<1>12. ASSUME NEW id \in Ids, BackoffExpires(id)
       PROVE  TypeOK'
  <2>1. rows[id] \in SettlementRow
    BY <1>12, Elements DEF BackoffExpires
  <2>2. [rows[id] EXCEPT !.due = TRUE] \in SettlementRow
    BY <2>1 DEF SettlementRow
  <2>3. rows' = [rows EXCEPT ![id] = [rows[id] EXCEPT !.due = TRUE]]
    BY <1>12 DEF BackoffExpires
  <2>4. rows' \in [Ids -> SettlementRow \cup {NoRow}]
    BY <2>2, <2>3, RowSet
  <2> QED  BY <1>12, <2>4 DEF BackoffExpires, TypeOK
<1>13. ASSUME NEW id \in Ids, ReleaseFailed(id)
       PROVE  TypeOK'
  <2>1. rows' \in [Ids -> SettlementRow \cup {NoRow}]
    BY <1>13, RowSet DEF ReleaseFailed
  <2>2. claim' \in [Trades -> Ids \cup {NoClaim}]
    <3>1. claim \in [Trades -> Ids \cup {NoClaim}]
      BY DEF TypeOK
    <3> QED  BY <1>13, <3>1 DEF ReleaseFailed
  <2>3. releases' \in Nat
    BY <1>13, SMT DEF ReleaseFailed, TypeOK
  <2> QED  BY <1>13, <2>1, <2>2, <2>3 DEF ReleaseFailed, TypeOK
<1>14. CASE Rebuild
  <2>1. projected' \in 0 .. MaxTrades /\ rebuilds' \in Nat
    BY <1>14, BatchAssumption, SMT DEF Rebuild, TypeOK
  <2>2. claim' \in [Trades -> Ids \cup {NoClaim}] /\ rows' \in [Ids -> SettlementRow \cup {NoRow}]
    BY <1>14 DEF Rebuild
  <2> QED  BY <1>14, <2>1, <2>2 DEF Rebuild, TypeOK
<1>15. CASE Crash
  <2>1. <<>> \in Seq(TodoRow)
    BY SMT
  <2>2. wire' \in Seq(Submission)
    BY <1>15, UnawaitedProps, Elements DEF Crash
  <2>3. crashes' \in Nat
    BY <1>15, SMT DEF Crash, TypeOK
  <2> QED  BY <1>15, <2>1, <2>2, <2>3 DEF Crash, TypeOK
<1>16. CASE UNCHANGED vars
  BY <1>16 DEF vars, TypeOK
<1> QED
  BY <1>1, <1>2, <1>3, <1>4, <1>5, <1>6, <1>7, <1>8, <1>9, <1>10, <1>11, <1>12, <1>13, <1>14,
     <1>15, <1>16 DEF Next, Dispatcher, Venue

-----------------------------------------------------------------------------
(* The dispatcher and its call *)

\* Without a waiting submit nothing on the wire is awaited.
LEMMA NothingAwaited ==
  ASSUME InStep, ~Waiting("submit")
  PROVE  \A k \in DOMAIN wire : ~wire[k].awaited
BY DEF InStep

\* The wire after a batch was sent.
LEMMA SentWire ==
  ASSUME TypeOK, NEW row \in TodoRow, Sent(row) \in Submission, wire' = Append(wire, Sent(row))
  PROVE  /\ Len(wire) + 1 \notin DOMAIN wire
         /\ \A k \in DOMAIN wire' : \/ k \in DOMAIN wire /\ wire'[k] = wire[k]
                                    \/ k = Len(wire) + 1 /\ wire'[k] = Sent(row)
<1>1. wire \in Seq(Submission)
  BY Elements
<1>2. /\ Len(wire) + 1 \notin DOMAIN wire
      /\ \A k \in DOMAIN Append(wire, Sent(row)) :
           \/ k \in DOMAIN wire /\ Append(wire, Sent(row))[k] = wire[k]
           \/ k = Len(wire) + 1 /\ Append(wire, Sent(row))[k] = Sent(row)
  BY <1>1, AppendProps
<1> QED  BY <1>2

\* A call that has just been sent is the only one awaited.
LEMMA SubmitInStep ==
  ASSUME TypeOK, NEW row \in TodoRow, rows[row.id] # NoRow, Submit(row), UNCHANGED todo,
         todo # <<>>, row = Head(todo), \A k \in DOMAIN wire : ~wire[k].awaited
  PROVE  InStep'
<1>1. /\ call' # NoCall /\ call'.kind = "submit" /\ call'.row = row /\ call'.outcome = "waiting"
      /\ wire' = Append(wire, Sent(row))
      /\ Sent(row) \in Submission /\ Sent(row).id = row.id
  BY SubmitProps
<1>2. \A k \in DOMAIN wire' : wire'[k].awaited => k = Len(wire) + 1 /\ wire'[k] = Sent(row)
  BY <1>1, SentWire
<1>3. (call # NoCall => todo # <<>> /\ call.row = Head(todo))'
  BY <1>1
<1>4. (\A k \in DOMAIN wire : wire[k].awaited => Waiting("submit") /\ call.row.id = wire[k].id)'
  BY <1>1, <1>2 DEF Waiting
<1>5. (\A j, k \in DOMAIN wire : wire[j].awaited /\ wire[k].awaited => j = k)'
  BY <1>2
<1> QED  BY <1>3, <1>4, <1>5 DEF InStep

\* What a removal leaves on the wire.
LEMMA WireRemoved ==
  ASSUME TypeOK, NEW k \in DOMAIN wire, wire' = Without(wire, k)
  PROVE  \E old \in [DOMAIN wire' -> DOMAIN wire] :
           /\ \A j \in DOMAIN wire' : wire'[j] = wire[old[j]] /\ old[j] \in DOMAIN wire /\ old[j] # k
           /\ \A i, j \in DOMAIN wire' : old[i] = old[j] => i = j
<1>1. wire \in Seq(Submission)
  BY Elements
<1>2. PICK old \in [DOMAIN Without(wire, k) -> DOMAIN wire \ {k}] :
        /\ \A j \in DOMAIN Without(wire, k) : Without(wire, k)[j] = wire[old[j]]
        /\ \A i, j \in DOMAIN Without(wire, k) : old[i] = old[j] => i = j
  BY <1>1, Removed
<1>3. \A j \in DOMAIN wire' : wire'[j] = wire[old[j]] /\ old[j] \in DOMAIN wire /\ old[j] # k
  BY <1>2
<1>4. old \in [DOMAIN wire' -> DOMAIN wire]
  BY <1>2
<1> QED  BY <1>2, <1>3, <1>4

\* A step keeps the dispatcher in step with its call.
LEMMA InStepStep ==
  ASSUME TypeOK, InStep, [Next]_vars
  PROVE  InStep'
<1> USE DEF bound_vars, db_vars
<1>1. CASE ProjectTrade \/ Rebuild \/ UNCHANGED vars
           \/ \E id \in Ids : BackoffExpires(id) \/ ReleaseFailed(id)
  <2>1. UNCHANGED <<todo, call, wire>>
    BY <1>1 DEF ProjectTrade, Rebuild, vars, BackoffExpires, ReleaseFailed
  <2> QED  BY <2>1 DEF InStep, Waiting
<1>2. CASE call = NoCall /\ UNCHANGED <<call, wire>>
  BY <1>2, NothingAwaited DEF InStep, Waiting
<1>3. CASE Tick \/ AdvanceMissing
  BY <1>2, <1>3 DEF Tick, Idle, AdvanceMissing
<1>4. CASE Advance
  <2> DEFINE row == Head(todo)
  <2>1. /\ todo # <<>> /\ rows[row.id] # NoRow /\ call = NoCall
        /\ \A k \in DOMAIN wire : ~wire[k].awaited
    BY <1>4, NothingAwaited DEF Advance, Waiting
  <2>2. row \in TodoRow
    BY <2>1, Elements, HeadTail
  <2>3. CASE Claimed(row.id) # rows[row.id].manifest
    BY <1>2, <1>4, <2>1, <2>3 DEF Advance
  <2>4. CASE Claimed(row.id) = rows[row.id].manifest /\ row.status \in {"unknown", "submitted"}
    <3>1. call' = Call("lookup", row) /\ UNCHANGED <<wire, todo>>
      BY <1>4, <2>4 DEF Advance
    <3>2. call'.row = row
      BY <2>2, <3>1, CallProps
    <3> QED  BY <2>1, <3>1, <3>2 DEF InStep
  <2>5. CASE Claimed(row.id) = rows[row.id].manifest /\ row.status \notin {"unknown", "submitted"}
    <3>1. Submit(row) /\ UNCHANGED todo
      BY <1>4, <2>5 DEF Advance
    <3> QED  BY <2>1, <2>2, <3>1, SubmitInStep
  <2> QED  BY <2>3, <2>4, <2>5
<1>5. CASE Resubmit
  <2>1. /\ call # NoCall /\ call.kind = "lookup" /\ rows[call.row.id] # NoRow
        /\ Submit(call.row) /\ UNCHANGED todo
    BY <1>5 DEF Resubmit
  <2>2. call.row \in TodoRow /\ todo # <<>> /\ call.row = Head(todo)
    BY <2>1, Elements DEF TypeOK, InStep
  <2>3. \A k \in DOMAIN wire : ~wire[k].awaited
    BY <2>1, NothingAwaited DEF Waiting
  <2> QED  BY <2>1, <2>2, <2>3, SubmitInStep
<1>6. CASE RecordOutcome \/ OutcomeOfMissing
  <2>1. call.outcome # "waiting" /\ call' = NoCall /\ wire' = wire
    BY <1>6 DEF RecordOutcome, OutcomeOfMissing
  <2>2. \A k \in DOMAIN wire : ~wire[k].awaited
    BY <2>1, NothingAwaited DEF Waiting
  <2> QED  BY <2>1, <2>2 DEF InStep
<1>7. CASE LookupAnswer
  <2>1. call # NoCall /\ call.kind = "lookup" /\ UNCHANGED <<todo, wire>>
    BY <1>7 DEF LookupAnswer, Waiting
  <2>2. \A k \in DOMAIN wire : ~wire[k].awaited
    BY <2>1, NothingAwaited DEF Waiting
  <2>3. \A m : {"notFound", Reconciled(call.row.id, m)} \subseteq CallOutcome
    BY DEF Reconciled, CallOutcome
  <2>4. call'.row = call.row
    <3>1. PICK outcome \in CallOutcome : call' = [call EXCEPT !.outcome = outcome]
      BY <1>7, <2>3 DEF LookupAnswer
    <3>2. call \in VenueCall
      BY <2>1 DEF TypeOK
    <3> QED  BY <3>1, <3>2, OutcomeProps
  <2> QED  BY <2>1, <2>2, <2>4 DEF InStep
<1>8. ASSUME NEW k \in DOMAIN wire, wire' = Without(wire, k), UNCHANGED <<todo, call>>
      PROVE  InStep'
  <2>1. PICK old \in [DOMAIN wire' -> DOMAIN wire] :
          /\ \A j \in DOMAIN wire' : wire'[j] = wire[old[j]] /\ old[j] \in DOMAIN wire /\ old[j] # k
          /\ \A i, j \in DOMAIN wire' : old[i] = old[j] => i = j
    BY <1>8, WireRemoved
  <2>2. (call # NoCall => todo # <<>> /\ call.row = Head(todo))'
    BY <1>8 DEF InStep
  <2>3. (\A j \in DOMAIN wire : wire[j].awaited => Waiting("submit") /\ call.row.id = wire[j].id)'
    <3>1. Waiting("submit")' = Waiting("submit") /\ call' = call
      BY <1>8 DEF Waiting
    <3>2. ASSUME NEW j \in DOMAIN wire', wire'[j].awaited
          PROVE  Waiting("submit") /\ call.row.id = wire'[j].id
      <4>1. \A i \in DOMAIN wire : wire[i].awaited => Waiting("submit") /\ call.row.id = wire[i].id
        BY DEF InStep
      <4>2. old[j] \in DOMAIN wire /\ wire'[j] = wire[old[j]]
        BY <2>1
      <4>3. wire[old[j]].awaited
        BY <3>2, <4>2
      <4> QED  BY <4>1, <4>2, <4>3
    <3> QED  BY <3>1, <3>2
  <2>4. (\A i, j \in DOMAIN wire : wire[i].awaited /\ wire[j].awaited => i = j)'
    BY <2>1 DEF InStep
  <2> QED  BY <2>2, <2>3, <2>4 DEF InStep
<1>9. ASSUME NEW k \in DOMAIN wire, SubmissionLands(k)
      PROVE  InStep'
  <2>1. CASE ~wire[k].awaited
    BY <1>8, <1>9, <2>1 DEF SubmissionLands
  <2>2. CASE wire[k].awaited
    <3>1. PICK old \in [DOMAIN wire' -> DOMAIN wire] :
            /\ \A j \in DOMAIN wire' : wire'[j] = wire[old[j]] /\ old[j] \in DOMAIN wire /\ old[j] # k
            /\ \A i, j \in DOMAIN wire' : old[i] = old[j] => i = j
      <4>1. wire' = Without(wire, k)
        BY <1>9 DEF SubmissionLands
      <4> QED  BY <4>1, WireRemoved
    <3>3. \A j \in DOMAIN wire' : ~wire'[j].awaited
      BY <2>2, <3>1 DEF InStep
    <3>4. PICK outcome \in {"confirmed", "alreadyApplied", "rejected", "unknown"} :
            call' = [call EXCEPT !.outcome = outcome]
      BY <1>9, <2>2 DEF SubmissionLands
    <3>5. call # NoCall /\ call \in VenueCall /\ outcome \in CallOutcome
      BY <2>2 DEF InStep, Waiting, TypeOK, CallOutcome
    <3>6. call'.row = call.row
      BY <3>4, <3>5, OutcomeProps
    <3> QED  BY <1>9, <3>3, <3>5, <3>6 DEF InStep, SubmissionLands
  <2> QED  BY <2>1, <2>2
<1>10. ASSUME NEW k \in DOMAIN wire, SubmissionLost(k)
       PROVE  InStep'
  BY <1>8, <1>10 DEF SubmissionLost
<1>11. CASE TimesOut
  <2>1. \A k \in DOMAIN wire' : ~wire'[k].awaited
    BY <1>11, UnawaitedProps, Elements DEF TimesOut
  <2>2. call # NoCall /\ call \in VenueCall /\ "unknown" \in CallOutcome
    BY <1>11 DEF TimesOut, TypeOK, CallOutcome
  <2>3. call'.row = call.row
    BY <1>11, <2>2, OutcomeProps DEF TimesOut
  <2> QED  BY <1>11, <2>1, <2>2, <2>3 DEF TimesOut, InStep
<1>12. CASE Crash
  <2>1. \A k \in DOMAIN wire' : ~wire'[k].awaited
    BY <1>12, UnawaitedProps, Elements DEF Crash
  <2> QED  BY <1>12, <2>1 DEF Crash, InStep
<1> QED
  BY <1>1, <1>3, <1>4, <1>5, <1>6, <1>7, <1>9, <1>10, <1>11, <1>12 DEF Next, Dispatcher, Venue

-----------------------------------------------------------------------------
(* Trades and the rows they name *)

\* Moving rows without touching their manifests keeps the claims exact.
LEMMA ClaimsKept ==
  ASSUME ClaimsExact, UNCHANGED <<projected, claim>>,
         \A id \in Ids : /\ rows[id] = NoRow <=> rows'[id] = NoRow
                         /\ rows[id] # NoRow => rows'[id].manifest = rows[id].manifest
  PROVE  ClaimsExact'
<1>1. \A id \in Ids : Claimed(id)' = Claimed(id)
  BY DEF Claimed
<1> QED  BY <1>1 DEF ClaimsExact

\* The table after one row was updated in place.
LEMMA RowUpdated ==
  ASSUME TypeOK, NEW id \in Ids, rows[id] # NoRow, NEW next, NEW u, Updated(rows[id], next, u),
         rows' = [rows EXCEPT ![id] = u]
  PROVE  /\ rows'[id] # NoRow /\ Updated(rows[id], next, rows'[id])
         /\ \A o \in Ids : o # id => rows'[o] = rows[o]
         /\ \A o \in Ids : /\ rows[o] = NoRow <=> rows'[o] = NoRow
                           /\ rows[o] # NoRow => rows'[o].manifest = rows[o].manifest
<1>1. u \in SettlementRow /\ u.manifest = rows[id].manifest /\ u # NoRow
  BY NoneAssumption DEF Updated
<1>2. rows'[id] = u /\ \A o \in Ids : o # id => rows'[o] = rows[o]
  BY <1>1, RowSet
<1> QED  BY <1>1, <1>2

\* A step keeps the claims exact.
LEMMA ClaimsStep ==
  ASSUME TypeOK, ClaimsExact, [Next]_vars
  PROVE  ClaimsExact'
<1> USE DEF bound_vars, db_vars
<1>1. CASE UNCHANGED <<projected, claim, rows>>
  BY <1>1, ClaimsKept
<1>2. CASE AdvanceMissing \/ OutcomeOfMissing \/ LookupAnswer \/ TimesOut \/ Crash \/ UNCHANGED vars
           \/ \E k \in DOMAIN wire : SubmissionLands(k) \/ SubmissionLost(k)
  BY <1>1, <1>2 DEF AdvanceMissing, OutcomeOfMissing, LookupAnswer, TimesOut, Crash, vars,
     SubmissionLands, SubmissionLost
<1>3. CASE ProjectTrade
  <2>1. projected \in Nat /\ projected' = projected + 1 /\ UNCHANGED <<claim, rows>>
    BY <1>3, BatchAssumption, SMT DEF ProjectTrade, TypeOK
  <2>2. \A t \in Trades : t > projected => claim[t] = NoClaim
    BY DEF ClaimsExact
  <2>3. \A t \in Trades : t > projected' => claim'[t] = NoClaim
    BY <2>1, <2>2, IdProps, SMT
  <2>4. projected' \in Trades
    <3>1. venue.trades \in 0 .. MaxTrades
      BY VenueAssumption DEF TypeOK
    <3>2. projected < venue.trades
      BY <1>3 DEF ProjectTrade
    <3> QED  BY <2>1, <3>1, <3>2, BatchAssumption, SMT DEF Trades
  <2>5. claim[projected'] = NoClaim
    BY <2>1, <2>2, <2>4, SMT
  <2>6. 1 .. projected' = 1 .. projected \cup {projected'}
    BY <2>1, SMT
  <2>7. \A id \in Ids : Claimed(id)' = Claimed(id)
    BY <2>1, <2>5, <2>6, NoneAssumption DEF Claimed
  <2> QED  BY <2>1, <2>3, <2>7 DEF ClaimsExact
<1>4. CASE Tick
  <2>1. CreateBatch /\ projected' = projected
    BY <1>4 DEF Tick
  <2>2. CASE UNCHANGED <<claim, rows>>
    BY <1>1, <2>1, <2>2
  <2>3. CASE ~UNCHANGED <<claim, rows>>
    <3>1. /\ BatchId \in Ids /\ rows[BatchId] = NoRow
          /\ BatchId[1] \in NextBatch /\ NextBatch \subseteq Unclaimed
          /\ NewRow \in SettlementRow /\ NewRow # NoRow /\ NewRow.manifest = NextBatch
          /\ rows' = [rows EXCEPT ![BatchId] = NewRow]
          /\ claim' = [t \in Trades |-> IF t \in NextBatch THEN BatchId ELSE claim[t]]
      BY <2>1, <2>3, CreateBatchProps
    <3>0. PICK b \in Ids : b = BatchId
      BY <3>1
    <3>2. rows'[b] = NewRow /\ \A o \in Ids : o # b => rows'[o] = rows[o]
      BY <3>1, <3>0, RowSet
    <3>3. 1 .. projected \subseteq Trades /\ \A t \in 1 .. projected : ~(t > projected)
      BY BatchAssumption, SMT DEF TypeOK, Trades
    <3>4. NextBatch \subseteq 1 .. projected /\ \A t \in NextBatch : claim[t] = NoClaim
      BY <3>1 DEF Unclaimed
    <3>5. \A t \in Trades : claim'[t] = IF t \in NextBatch THEN b ELSE claim[t]
      BY <3>1, <3>0
    <3>6. Claimed(b) = {}
      BY <3>1, <3>0 DEF ClaimsExact
    <3>7. Claimed(b)' = NextBatch
      <4>1. \A t \in NextBatch : t \in 1 .. projected /\ claim'[t] = b
        BY <3>3, <3>4, <3>5
      <4>2. \A t \in 1 .. projected : claim[t] # b
        BY <3>6 DEF Claimed
      <4>3. \A t \in 1 .. projected : claim'[t] = b => t \in NextBatch
        BY <3>3, <3>5, <4>2
      <4> QED  BY <2>1, <4>1, <4>3 DEF Claimed
    <3>8. ASSUME NEW o \in Ids, o # b
          PROVE  Claimed(o)' = Claimed(o)
      BY <2>1, <3>3, <3>4, <3>5, <3>8, NoneAssumption DEF Claimed
    <3>9. \A o \in Ids : Claimed(o)' = IF rows'[o] = NoRow THEN {} ELSE rows'[o].manifest
      <4>1. ASSUME NEW o \in Ids, o # b
            PROVE  Claimed(o)' = IF rows'[o] = NoRow THEN {} ELSE rows'[o].manifest
        <5>1. Claimed(o) = IF rows[o] = NoRow THEN {} ELSE rows[o].manifest
          BY DEF ClaimsExact
        <5> QED  BY <3>2, <3>8, <4>1, <5>1
      <4>2. Claimed(b)' =
              IF rows'[b] = NoRow THEN {} ELSE rows'[b].manifest
        BY <3>1, <3>2, <3>7, <3>0
      <4> QED  BY <4>1, <4>2
    <3>10. \A t \in Trades : t > projected => claim'[t] = NoClaim
      BY <3>3, <3>4, <3>5 DEF ClaimsExact
    <3>11. \A o \in Ids : rows'[o] # NoRow => o[1] \in rows'[o].manifest
      BY <3>1, <3>2, <3>0 DEF ClaimsExact
    <3> QED  BY <2>1, <3>9, <3>10, <3>11 DEF ClaimsExact
  <2> QED  BY <2>2, <2>3
<1>5. CASE Advance
  <2> DEFINE row == Head(todo)
  <2>1. todo # <<>> /\ rows[row.id] # NoRow /\ UNCHANGED <<projected, claim>>
    BY <1>5 DEF Advance
  <2>2. row \in TodoRow /\ row.id \in Ids /\ rows[row.id] \in SettlementRow
    BY <2>1, Elements, HeadTail
  <2>3. CASE UNCHANGED rows
    BY <1>1, <2>1, <2>3
  <2>4. CASE rows' = [rows EXCEPT ![row.id] = RecordNeedsOperator(rows[row.id])]
    <3>1. Updated(rows[row.id], "needs_operator", RecordNeedsOperator(rows[row.id]))
      BY <2>2, RecordProps
    <3> QED  BY <2>1, <2>2, <2>4, <3>1, RowUpdated, ClaimsKept
  <2>5. CASE rows' = [rows EXCEPT ![row.id] = RecordAttempt(rows[row.id])]
    <3>1. Updated(rows[row.id], "submitted", RecordAttempt(rows[row.id]))
      BY <2>2, RecordProps
    <3> QED  BY <2>1, <2>2, <2>5, <3>1, RowUpdated, ClaimsKept
  <2> QED  BY <1>5, <2>3, <2>4, <2>5 DEF Advance, Submit
<1>6. CASE Resubmit
  <2> DEFINE id == call.row.id
  <2>1. /\ call # NoCall /\ rows[id] # NoRow /\ UNCHANGED <<projected, claim>>
        /\ rows' = [rows EXCEPT ![id] = RecordAttempt(rows[id])]
    BY <1>6 DEF Resubmit, Submit
  <2>2. id \in Ids /\ rows[id] \in SettlementRow
    BY <2>1, Elements DEF TypeOK
  <2>3. Updated(rows[id], "submitted", RecordAttempt(rows[id]))
    BY <2>2, RecordProps
  <2> QED  BY <2>1, <2>2, <2>3, RowUpdated, ClaimsKept
<1>7. CASE RecordOutcome
  <2> DEFINE id == call.row.id
  <2>1. /\ call # NoCall /\ call.outcome # "waiting" /\ rows[id] # NoRow
        /\ UNCHANGED <<projected, claim>>
        /\ rows' = [rows EXCEPT ![id] = Recorded(rows[id], call.outcome)]
    BY <1>7 DEF RecordOutcome
  <2>2. id \in Ids /\ rows[id] \in SettlementRow /\ call.outcome \in CallOutcome \ {"waiting"}
    BY <2>1, Elements DEF TypeOK
  <2>3. PICK next : Updated(rows[id], next, Recorded(rows[id], call.outcome))
    BY <2>2, RecordProps
  <2> QED  BY <2>1, <2>2, <2>3, RowUpdated, ClaimsKept
<1>8. ASSUME NEW id \in Ids, BackoffExpires(id)
      PROVE  ClaimsExact'
  <2>1. /\ rows[id] # NoRow /\ UNCHANGED <<projected, claim>>
        /\ rows' = [rows EXCEPT ![id] = [rows[id] EXCEPT !.due = TRUE]]
    BY <1>8 DEF BackoffExpires
  <2>2. rows[id] \in SettlementRow
    BY <2>1, Elements
  <2>3. Updated(rows[id], rows[id].status, [rows[id] EXCEPT !.due = TRUE])
    <3>1. [rows[id] EXCEPT !.due = TRUE] \in SettlementRow
      BY <2>2 DEF SettlementRow
    <3>2. /\ [rows[id] EXCEPT !.due = TRUE].manifest = rows[id].manifest
          /\ [rows[id] EXCEPT !.due = TRUE].status = rows[id].status
      BY <2>2, SMT DEF SettlementRow
    <3> QED  BY <3>1, <3>2 DEF Updated
  <2> QED  BY <2>1, <2>3, RowUpdated, ClaimsKept
<1>9. ASSUME NEW id \in Ids, ReleaseFailed(id)
      PROVE  ClaimsExact'
  <2>1. /\ rows' = [rows EXCEPT ![id] = NoRow] /\ projected' = projected
        /\ claim' = [t \in Trades |-> IF claim[t] = id THEN NoClaim ELSE claim[t]]
    BY <1>9 DEF ReleaseFailed
  <2>2. rows'[id] = NoRow /\ \A o \in Ids : o # id => rows'[o] = rows[o]
    BY <2>1, RowSet
  <2>3. 1 .. projected \subseteq Trades
    BY BatchAssumption, SMT DEF TypeOK, Trades
  <2>4. \A t \in Trades : claim'[t] = IF claim[t] = id THEN NoClaim ELSE claim[t]
    BY <2>1
  <2>5. Claimed(id)' = {}
    BY <2>1, <2>3, <2>4, NoneAssumption DEF Claimed
  <2>6. ASSUME NEW o \in Ids, o # id
        PROVE  Claimed(o)' = Claimed(o)
    <3>1. \A t \in 1 .. projected : claim'[t] = o <=> claim[t] = o
      BY <2>3, <2>4, <2>6, NoneAssumption
    <3> QED  BY <2>1, <3>1 DEF Claimed
  <2>7. \A t \in Trades : t > projected => claim'[t] = NoClaim
    BY <2>4 DEF ClaimsExact
  <2> QED  BY <2>1, <2>2, <2>5, <2>6, <2>7 DEF ClaimsExact
<1>10. CASE Rebuild
  <2>1. /\ \A id \in Ids : rows'[id] = NoRow
        /\ \A t \in Trades : claim'[t] = NoClaim
    BY <1>10 DEF Rebuild
  <2>2. 1 .. projected' = {}
    BY <1>10, SMT DEF Rebuild
  <2>3. \A id \in Ids : Claimed(id)' = {}
    BY <2>2 DEF Claimed
  <2> QED  BY <2>1, <2>3 DEF ClaimsExact
<1> QED
  BY <1>2, <1>3, <1>4, <1>5, <1>6, <1>7, <1>8, <1>9, <1>10 DEF Next, Dispatcher, Venue

-----------------------------------------------------------------------------
(* Receipts, submissions and answers *)

Ready == TypeOK /\ InStep /\ ClaimsExact /\ Trusted /\ Sound

\* The row an awaited call is about.
LEMMA CalledRow ==
  ASSUME Ready, call # NoCall
  PROVE  /\ call \in VenueCall /\ call.row \in TodoRow /\ call.row.id \in Ids
         /\ todo # <<>> /\ 1 \in DOMAIN todo /\ call.row = todo[1] /\ call.row = Head(todo)
         /\ rows[call.row.id] # NoRow /\ rows[call.row.id] \in SettlementRow
         /\ rows[call.row.id].manifest = call.row.manifest
         /\ rows[call.row.id].status \in {"submitted", "unknown"}
         /\ rows[call.row.id].status \in Unresolved
<1>1. call \in VenueCall /\ call.row \in TodoRow /\ call.row.id \in Ids
  BY Elements DEF Ready, TypeOK
<1>2. todo # <<>> /\ call.row = Head(todo)
  BY DEF Ready, InStep
<1>3. 1 \in DOMAIN todo /\ call.row = todo[1]
  BY <1>2, Elements, HeadTail DEF Ready
<1>4. rows[call.row.id] # NoRow /\ rows[call.row.id].manifest = call.row.manifest
  BY <1>3 DEF Ready, Sound, TodoCurrent
<1>5. rows[call.row.id].status \in {"submitted", "unknown"}
  BY DEF Ready, Sound, AnswerHolds
<1>6. rows[call.row.id] \in SettlementRow
  BY <1>1, <1>4, Elements DEF Ready
<1>7. rows[call.row.id].status \in Unresolved
  BY <1>5 DEF Unresolved
<1> QED  BY <1>1, <1>2, <1>3, <1>4, <1>5, <1>6, <1>7

\* Nothing the invariant speaks of changes, but for due flags.
LEMMA SoundFrame ==
  ASSUME Ready, UNCHANGED <<todo, call, wire, receipts, venue>>,
         \A id \in Ids : /\ rows[id] = NoRow <=> rows'[id] = NoRow
                         /\ rows[id] # NoRow => /\ rows'[id].manifest = rows[id].manifest
                                                /\ rows'[id].status = rows[id].status
  PROVE  Sound'
<1>1. ReceiptsOwned'
  BY DEF Ready, Sound, ReceiptsOwned
<1>2. ConfirmedMeansSettled'
  BY DEF Ready, Sound, ConfirmedMeansSettled
<1>3. WireOwned'
  <2>1. \A k \in DOMAIN wire : wire[k].id \in Ids
    BY Elements DEF Ready
  <2> QED  BY <2>1 DEF Ready, Sound, WireOwned
<1>4. TodoCurrent'
  <2>1. \A j, k \in DOMAIN todo : todo[j].id = todo[k].id => j = k
    BY DEF Ready, Sound, TodoCurrent
  <2>2. ASSUME NEW k \in DOMAIN todo
        PROVE  /\ rows'[todo[k].id] # NoRow
               /\ todo[k].manifest = rows'[todo[k].id].manifest
               /\ rows'[todo[k].id].status \in Unresolved
               /\ k # 1 \/ call = NoCall => rows'[todo[k].id].status = todo[k].status
    <3>1. todo[k].id \in Ids
      BY Elements DEF Ready
    <3>2. /\ rows[todo[k].id] # NoRow
          /\ todo[k].manifest = rows[todo[k].id].manifest
          /\ rows[todo[k].id].status \in Unresolved
          /\ k # 1 \/ call = NoCall => rows[todo[k].id].status = todo[k].status
      BY DEF Ready, Sound, TodoCurrent
    <3> QED  BY <3>1, <3>2
  <2> QED  BY <2>1, <2>2 DEF TodoCurrent
<1>5. AnswerHolds'
  <2>1. CASE call = NoCall
    BY <2>1 DEF AnswerHolds
  <2>2. CASE call # NoCall
    <3>1. rows'[call.row.id].status = rows[call.row.id].status
      BY <2>2, CalledRow
    <3> QED  BY <2>2, <3>1 DEF Ready, Sound, AnswerHolds, OnWire
  <2> QED  BY <2>1, <2>2
<1> QED  BY <1>1, <1>2, <1>3, <1>4, <1>5 DEF Sound

\* A batch joins the table and the tick reads the rows that are due.
LEMMA TickSound ==
  ASSUME Ready, Tick
  PROVE  Sound'
<1>1. call = NoCall /\ UNCHANGED <<call, wire, receipts, venue>> /\ CreateBatch
  BY DEF Tick, Idle, bound_vars
<1>2. /\ \A id \in Ids : rows[id] # NoRow => rows'[id] = rows[id]
      /\ \A id \in Ids : rows[id] = NoRow /\ rows'[id] # NoRow => rows'[id].status = "pending"
      /\ rows' \in [Ids -> SettlementRow \cup {NoRow}]
  <2>1. CASE UNCHANGED rows
    BY <2>1 DEF Ready, TypeOK
  <2>2. CASE ~UNCHANGED rows
    <3>1. /\ BatchId \in Ids /\ rows[BatchId] = NoRow
          /\ NewRow \in SettlementRow /\ NewRow.status = "pending"
          /\ rows' = [rows EXCEPT ![BatchId] = NewRow]
      BY <1>1, <2>2, CreateBatchProps DEF Ready
    <3>2. /\ rows' \in [Ids -> SettlementRow \cup {NoRow}]
          /\ rows'[BatchId] = NewRow /\ \A o \in Ids : o # BatchId => rows'[o] = rows[o]
      BY <3>1, RowSet DEF Ready
    <3> QED  BY <3>1, <3>2
  <2> QED  BY <2>1, <2>2
<1>3. ReceiptsOwned'
  BY <1>1, <1>2 DEF Ready, Sound, ReceiptsOwned
<1>4. ConfirmedMeansSettled'
  BY <1>1, <1>2 DEF Ready, Sound, ConfirmedMeansSettled
<1>5. WireOwned'
  <2>1. \A k \in DOMAIN wire : wire[k].id \in Ids
    BY Elements DEF Ready
  <2> QED  BY <1>1, <1>2, <2>1 DEF Ready, Sound, WireOwned
<1>6. TodoCurrent'
  BY <1>2, TickProps DEF TodoCurrent
<1>7. AnswerHolds'
  BY <1>1 DEF AnswerHolds
<1> QED  BY <1>3, <1>4, <1>5, <1>6, <1>7 DEF Sound

\* A batch is sent: for the first time, or again after an authoritative lookup
\* found nothing of it.
LEMMA SubmitSound ==
  ASSUME Ready, NEW row \in TodoRow, todo # <<>>, row = Head(todo), Submit(row),
         rows[row.id].status \in Unresolved,
         "authoritative" \in venue.traits => ~OnWire(row.id),
         UNCHANGED <<todo, receipts, venue>>
  PROVE  Sound'
<1>1. 1 \in DOMAIN todo /\ row = todo[1] /\ row.id \in Ids
  BY Elements, HeadTail DEF Ready
<1>2. rows[row.id] # NoRow /\ row.manifest = rows[row.id].manifest
  BY <1>1 DEF Ready, Sound, TodoCurrent
<1>3. /\ rows' \in [Ids -> SettlementRow \cup {NoRow}]
      /\ Updated(rows[row.id], "submitted", rows'[row.id])
      /\ \A o \in Ids : o # row.id => rows'[o] = rows[o]
      /\ call' # NoCall /\ call'.row = row /\ call'.outcome = "waiting"
      /\ wire' = Append(wire, Sent(row))
      /\ Sent(row) \in Submission /\ Sent(row).id = row.id /\ Sent(row).manifest = row.manifest
  BY <1>2, SubmitProps DEF Ready
<1>4. /\ rows'[row.id] # NoRow /\ rows'[row.id].manifest = rows[row.id].manifest
      /\ rows'[row.id].status = "submitted"
  BY <1>3, NoneAssumption DEF Updated
<1>5. ReceiptsOwned'
  BY <1>3, <1>4 DEF Ready, Sound, ReceiptsOwned
<1>6. ConfirmedMeansSettled'
  BY <1>3, <1>4 DEF Ready, Sound, ConfirmedMeansSettled
<1>7. WireOwned'
  <2>1. /\ Len(wire) + 1 \notin DOMAIN wire
        /\ \A k \in DOMAIN wire' : \/ k \in DOMAIN wire /\ wire'[k] = wire[k]
                                   \/ k = Len(wire) + 1 /\ wire'[k] = Sent(row)
    <3>1. Sent(row) \in Submission /\ wire' = Append(wire, Sent(row)) /\ TypeOK
      BY <1>3 DEF Ready
    <3> QED  BY <3>1, SentWire
  <2>2. ASSUME NEW k \in DOMAIN wire'
        PROVE  /\ rows'[wire'[k].id] # NoRow
               /\ wire'[k].manifest = rows'[wire'[k].id].manifest
               /\ rows'[wire'[k].id].status \notin {"failed", "pending"}
    <3>1. CASE wire'[k].id = row.id
      <4>1. wire'[k].manifest = rows[row.id].manifest
        <5>1. CASE k \in DOMAIN wire /\ wire'[k] = wire[k]
          BY <3>1, <5>1 DEF Ready, Sound, WireOwned
        <5>2. CASE wire'[k] = Sent(row)
          BY <1>2, <1>3, <5>2
        <5> QED  BY <2>1, <5>1, <5>2
      <4> QED  BY <1>4, <3>1, <4>1
    <3>2. CASE wire'[k].id # row.id
      <4>1. k \in DOMAIN wire /\ wire'[k] = wire[k] /\ wire[k].id \in Ids
        BY <1>3, <2>1, <3>2, Elements DEF Ready
      <4>2. rows'[wire[k].id] = rows[wire[k].id]
        BY <1>3, <3>2, <4>1
      <4> QED  BY <4>1, <4>2 DEF Ready, Sound, WireOwned
    <3> QED  BY <3>1, <3>2
  <2>3. ASSUME "authoritative" \in venue.traits, NEW j \in DOMAIN wire', NEW k \in DOMAIN wire',
               wire'[j].id = wire'[k].id
        PROVE  j = k
    <3>1. \A i \in DOMAIN wire : wire[i].id # row.id
      BY <2>3 DEF OnWire
    <3>2. \A i \in DOMAIN wire, h \in DOMAIN wire : wire[i].id = wire[h].id => i = h
      BY <2>3 DEF Ready, Sound, WireOwned
    <3>3. CASE wire'[j].id = row.id
      <4>1. j \notin DOMAIN wire \/ wire'[j] # wire[j]
        BY <3>1, <3>3
      <4>2. k \notin DOMAIN wire \/ wire'[k] # wire[k]
        BY <2>3, <3>1, <3>3
      <4> QED  BY <2>1, <4>1, <4>2
    <3>4. CASE wire'[j].id # row.id
      <4>1. wire'[j] # Sent(row) /\ wire'[k] # Sent(row)
        BY <1>3, <2>3, <3>4
      <4>2. j \in DOMAIN wire /\ wire'[j] = wire[j] /\ k \in DOMAIN wire /\ wire'[k] = wire[k]
        BY <2>1, <4>1
      <4> QED  BY <2>3, <3>2, <4>2
    <3> QED  BY <3>3, <3>4
  <2> QED  BY <2>2, <2>3 DEF WireOwned
<1>8. TodoCurrent'
  <2>1. \A j, k \in DOMAIN todo : todo[j].id = todo[k].id => j = k
    BY DEF Ready, Sound, TodoCurrent
  <2>2. ASSUME NEW k \in DOMAIN todo, k # 1
        PROVE  rows'[todo[k].id] = rows[todo[k].id]
    <3>1. todo[k].id \in Ids /\ todo[k].id # row.id
      BY <1>1, <2>1, <2>2, Elements DEF Ready
    <3> QED  BY <1>3, <3>1
  <2>3. ASSUME NEW k \in DOMAIN todo
        PROVE  /\ rows'[todo[k].id] # NoRow
               /\ todo[k].manifest = rows'[todo[k].id].manifest
               /\ rows'[todo[k].id].status \in Unresolved
               /\ k # 1 => rows'[todo[k].id].status = todo[k].status
    <3>1. CASE k = 1
      BY <1>1, <1>2, <1>4, <3>1 DEF Unresolved
    <3>2. CASE k # 1
      BY <2>2, <3>2 DEF Ready, Sound, TodoCurrent
    <3> QED  BY <3>1, <3>2
  <2> QED  BY <1>3, <2>1, <2>3 DEF TodoCurrent
<1>9. AnswerHolds'
  BY <1>3, <1>4 DEF AnswerHolds
<1> QED  BY <1>5, <1>6, <1>7, <1>8, <1>9 DEF Sound

\* The dispatcher takes up the next row of its tick.
LEMMA AdvanceSound ==
  ASSUME Ready, Advance
  PROVE  Sound'
<1> DEFINE row == Head(todo)
<1>1. todo # <<>> /\ call = NoCall /\ rows[row.id] # NoRow /\ UNCHANGED <<receipts, venue>>
  BY DEF Advance, bound_vars
<1>2. row \in TodoRow /\ row.id \in Ids /\ 1 \in DOMAIN todo /\ row = todo[1]
  BY <1>1, Elements, HeadTail DEF Ready
<1>3. rows[row.id].status = row.status /\ row.status \in Unresolved
  BY <1>1, <1>2 DEF Ready, Sound, TodoCurrent
<1>4. Claimed(row.id) = rows[row.id].manifest
  BY <1>1, <1>2 DEF Ready, ClaimsExact
<1>5. CASE row.status \in {"unknown", "submitted"}
  <2>1. call' = Call("lookup", row) /\ UNCHANGED <<rows, wire, todo>>
    BY <1>4, <1>5 DEF Advance
  <2>2. call' # NoCall /\ call'.row = row /\ call'.outcome = "waiting"
    BY <1>2, <2>1, CallProps
  <2>3. ReceiptsOwned' /\ ConfirmedMeansSettled' /\ WireOwned'
    BY <1>1, <2>1 DEF Ready, Sound, ReceiptsOwned, ConfirmedMeansSettled, WireOwned
  <2>4. TodoCurrent'
    BY <1>1, <2>1, <2>2 DEF Ready, Sound, TodoCurrent
  <2>5. AnswerHolds'
    BY <1>3, <1>5, <2>1, <2>2 DEF AnswerHolds
  <2> QED  BY <2>3, <2>4, <2>5 DEF Sound
<1>6. CASE row.status \notin {"unknown", "submitted"}
  <2>1. Submit(row) /\ UNCHANGED todo
    BY <1>4, <1>6 DEF Advance
  <2>2. rows[row.id].status = "pending"
    BY <1>3, <1>6 DEF Unresolved
  <2>3. ~OnWire(row.id)
    BY <2>2 DEF Ready, Sound, WireOwned, OnWire
  <2> QED  BY <1>1, <1>2, <1>3, <2>1, <2>3, SubmitSound
<1> QED  BY <1>5, <1>6

\* A batch whose receipt was not found is sent again.
LEMMA ResubmitSound ==
  ASSUME Ready, Resubmit
  PROVE  Sound'
<1>1. /\ call # NoCall /\ call.outcome = "notFound" /\ Submit(call.row)
      /\ UNCHANGED <<todo, receipts, venue>>
  BY DEF Resubmit, bound_vars
<1>2. "authoritative" \in venue.traits => ~OnWire(call.row.id)
  BY <1>1 DEF Ready, Sound, AnswerHolds
<1> QED  BY <1>1, <1>2, CalledRow, SubmitSound

\* An answer is recorded: what it says holds still, and its row is the first of
\* the tick.
LEMMA RecordOutcomeSound ==
  ASSUME Ready, RecordOutcome
  PROVE  Sound'
<1> DEFINE id == call.row.id
           u  == Recorded(rows[id], call.outcome)
<1>1. /\ call # NoCall /\ call.outcome # "waiting"
      /\ rows' = [rows EXCEPT ![id] = u]
      /\ call' = NoCall /\ todo' = Tail(todo) /\ UNCHANGED <<wire, receipts, venue>>
  BY DEF RecordOutcome, bound_vars
<1>2. /\ call \in VenueCall /\ id \in Ids /\ rows[id] # NoRow /\ rows[id] \in SettlementRow
      /\ rows[id].manifest = call.row.manifest /\ rows[id].status \in Unresolved
      /\ todo # <<>> /\ 1 \in DOMAIN todo /\ call.row = todo[1]
  BY <1>1, CalledRow
<1>3. call.outcome \in CallOutcome \ {"waiting"}
  BY <1>1, <1>2, Elements DEF Ready
<1>4. PICK next \in Results(call.outcome) : Updated(rows[id], next, u)
  BY <1>2, <1>3, RecordProps
<1>5. /\ rows'[id] # NoRow /\ Updated(rows[id], next, rows'[id])
      /\ \A o \in Ids : o # id => rows'[o] = rows[o]
  BY <1>1, <1>2, <1>4, RowUpdated DEF Ready
<1>6. rows'[id].manifest = rows[id].manifest /\ rows'[id].status = next
  BY <1>2, <1>5 DEF Updated
<1>7. /\ next = "confirmed" => receipts[id] = call.row.manifest
      /\ next = "failed" => receipts[id] = {} /\ ~OnWire(id)
      /\ next # "pending"
  <2>1. /\ next \in {"confirmed", "failed", "unknown", "needs_operator"}
        /\ next = "confirmed" => call.outcome \in {"confirmed", "alreadyApplied"}
        /\ next = "failed" => call.outcome = "rejected"
    BY <1>4 DEF Results
  <2> QED  BY <1>1, <2>1 DEF Ready, Sound, AnswerHolds
<1> HIDE DEF u, id
<1>8. ReceiptsOwned'
  BY <1>1, <1>5, <1>6, <1>7 DEF Ready, Sound, ReceiptsOwned
<1>9. ConfirmedMeansSettled'
  BY <1>1, <1>2, <1>5, <1>6, <1>7 DEF Ready, Sound, ConfirmedMeansSettled, id
<1>10. WireOwned'
  <2>1. ASSUME NEW k \in DOMAIN wire
        PROVE  /\ rows'[wire[k].id] # NoRow
               /\ wire[k].manifest = rows'[wire[k].id].manifest
               /\ rows'[wire[k].id].status \notin {"failed", "pending"}
    <3>1. wire[k].id \in Ids /\ OnWire(wire[k].id)
      BY Elements DEF Ready, OnWire
    <3>2. /\ rows[wire[k].id] # NoRow
          /\ wire[k].manifest = rows[wire[k].id].manifest
          /\ rows[wire[k].id].status \notin {"failed", "pending"}
      BY DEF Ready, Sound, WireOwned
    <3>3. CASE wire[k].id = id
      BY <1>5, <1>6, <1>7, <3>1, <3>2, <3>3
    <3>4. CASE wire[k].id # id
      BY <1>5, <3>1, <3>2, <3>4
    <3> QED  BY <3>3, <3>4
  <2> QED  BY <1>1, <2>1 DEF Ready, Sound, WireOwned
<1>11. TodoCurrent'
  <2>1. \A j, k \in DOMAIN todo : todo[j].id = todo[k].id => j = k
    BY DEF Ready, Sound, TodoCurrent
  <2>2. ASSUME NEW k \in DOMAIN todo'
        PROVE  /\ k \in Nat /\ k + 1 \in DOMAIN todo /\ k + 1 # 1 /\ todo'[k] = todo[k + 1]
               /\ todo[k + 1].id \in Ids
    <3>1. todo \in Seq(TodoRow) /\ todo # <<>> /\ k \in DOMAIN Tail(todo) /\ todo' = Tail(todo)
      BY <1>1, <1>2, Elements DEF Ready
    <3>2. k \in Nat /\ k + 1 \in DOMAIN todo /\ k + 1 # 1 /\ todo'[k] = todo[k + 1]
      BY <3>1, HeadTail
    <3> QED  BY <3>2, Elements DEF Ready
  <2>3. ASSUME NEW j \in DOMAIN todo', NEW k \in DOMAIN todo', todo'[j].id = todo'[k].id
        PROVE  j = k
    <3>1. j + 1 = k + 1 /\ j \in Nat /\ k \in Nat
      BY <2>1, <2>2, <2>3, ZenonT(30)
    <3> QED  BY <3>1, SMT
  <2>4. ASSUME NEW k \in DOMAIN todo'
        PROVE  /\ rows'[todo'[k].id] # NoRow
               /\ todo'[k].manifest = rows'[todo'[k].id].manifest
               /\ rows'[todo'[k].id].status \in Unresolved
               /\ rows'[todo'[k].id].status = todo'[k].status
    <3>1. todo[k + 1].id # id
      BY <1>2, <2>1, <2>2 DEF id
    <3>2. rows'[todo'[k].id] = rows[todo[k + 1].id]
      BY <1>5, <2>2, <3>1
    <3>3. /\ rows[todo[k + 1].id] # NoRow
          /\ todo[k + 1].manifest = rows[todo[k + 1].id].manifest
          /\ rows[todo[k + 1].id].status \in Unresolved
          /\ rows[todo[k + 1].id].status = todo[k + 1].status
      BY <2>2 DEF Ready, Sound, TodoCurrent
    <3> QED  BY <2>2, <3>2, <3>3
  <2> QED  BY <2>3, <2>4 DEF TodoCurrent
<1>12. AnswerHolds'
  BY <1>1 DEF AnswerHolds
<1> QED  BY <1>8, <1>9, <1>10, <1>11, <1>12 DEF Sound

\* A lookup finds the receipt of its own manifest, or none.
LEMMA LookupSound ==
  ASSUME Ready, LookupAnswer
  PROVE  Sound'
<1> DEFINE id == call.row.id
<1>1. call # NoCall /\ UNCHANGED <<rows, todo, wire, receipts, venue>>
  BY DEF LookupAnswer, Waiting, db_vars, bound_vars
<1>2. /\ call \in VenueCall /\ id \in Ids /\ rows[id].manifest = call.row.manifest
      /\ rows[id].status \in {"submitted", "unknown"}
  BY <1>1, CalledRow
<1>3. \/ receipts[id] = {} /\ call' = [call EXCEPT !.outcome = "notFound"]
      \/ receipts[id] = call.row.manifest /\ call' = [call EXCEPT !.outcome = "alreadyApplied"]
  <2>1. receipts[id] # {} => receipts[id] = call.row.manifest
    BY <1>2 DEF Ready, Sound, ReceiptsOwned
  <2> QED  BY <2>1 DEF LookupAnswer, Reconciled
<1>4. "notFound" \in CallOutcome /\ "alreadyApplied" \in CallOutcome
  BY DEF CallOutcome
<1>5. /\ call' \in VenueCall /\ call'.row = call.row
      /\ \/ call'.outcome = "notFound"
         \/ call'.outcome = "alreadyApplied" /\ receipts[id] = call.row.manifest
  <2>1. CASE receipts[id] = {} /\ call' = [call EXCEPT !.outcome = "notFound"]
    BY <1>2, <1>4, <2>1, OutcomeProps
  <2>2. CASE /\ receipts[id] = call.row.manifest
             /\ call' = [call EXCEPT !.outcome = "alreadyApplied"]
    BY <1>2, <1>4, <2>2, OutcomeProps
  <2> QED  BY <1>3, <2>1, <2>2
<1>6. "authoritative" \in venue.traits => ~OnWire(id)
  BY DEF LookupAnswer, OnWire
<1>7. ReceiptsOwned' /\ ConfirmedMeansSettled' /\ WireOwned'
  BY <1>1 DEF Ready, Sound, ReceiptsOwned, ConfirmedMeansSettled, WireOwned
<1>8. TodoCurrent'
  BY <1>1, <1>5, NoneAssumption DEF Ready, Sound, TodoCurrent
<1>9. AnswerHolds'
  BY <1>1, <1>2, <1>5, <1>6 DEF AnswerHolds, OnWire
<1> QED  BY <1>7, <1>8, <1>9 DEF Sound

\* Fewer submissions, of the same rows, are owned too.
LEMMA WireShrinks ==
  ASSUME Ready, UNCHANGED <<rows, venue>>,
         NEW old \in [DOMAIN wire' -> DOMAIN wire],
         \A j \in DOMAIN wire' : /\ old[j] \in DOMAIN wire
                                 /\ wire'[j].id = wire[old[j]].id
                                 /\ wire'[j].manifest = wire[old[j]].manifest,
         \A i, j \in DOMAIN wire' : old[i] = old[j] => i = j
  PROVE  WireOwned' /\ \A id \in Ids : OnWire(id)' => OnWire(id)
<1>1. ASSUME NEW j \in DOMAIN wire'
      PROVE  /\ rows'[wire'[j].id] # NoRow
             /\ wire'[j].manifest = rows'[wire'[j].id].manifest
             /\ rows'[wire'[j].id].status \notin {"failed", "pending"}
  <2>1. PICK i \in DOMAIN wire : wire'[j].id = wire[i].id /\ wire'[j].manifest = wire[i].manifest
    OBVIOUS
  <2>2. /\ rows[wire[i].id] # NoRow /\ wire[i].manifest = rows[wire[i].id].manifest
        /\ rows[wire[i].id].status \notin {"failed", "pending"}
    BY DEF Ready, Sound, WireOwned
  <2> QED  BY <2>1, <2>2
<1>2. ASSUME "authoritative" \in venue.traits, NEW i \in DOMAIN wire', NEW j \in DOMAIN wire',
             wire'[i].id = wire'[j].id
      PROVE  i = j
  <2>1. old[i] = old[j]
    <3>1. \A h, l \in DOMAIN wire : wire[h].id = wire[l].id => h = l
      BY <1>2 DEF Ready, Sound, WireOwned
    <3>2. wire[old[i]].id = wire[old[j]].id /\ old[i] \in DOMAIN wire /\ old[j] \in DOMAIN wire
      BY <1>2
    <3> QED  BY <3>1, <3>2
  <2> QED  BY <2>1
<1>3. \A id \in Ids : OnWire(id)' => OnWire(id)
  BY DEF OnWire
<1> QED  BY <1>1, <1>2, <1>3 DEF WireOwned

\* A submission lands, awaited or not.
LEMMA LandsSound ==
  ASSUME Ready, NEW k \in DOMAIN wire, SubmissionLands(k)
  PROVE  Sound'
<1> DEFINE id == wire[k].id
<1>1. UNCHANGED <<rows, todo, venue>> /\ wire' = Without(wire, k)
  BY DEF SubmissionLands, db_vars, bound_vars
<1>2. /\ id \in Ids /\ rows[id] # NoRow /\ wire[k].manifest = rows[id].manifest
      /\ rows[id].status # "failed"
  BY Elements DEF Ready, Sound, WireOwned
<1>3. PICK outcome \in {"confirmed", "alreadyApplied", "rejected", "unknown"} :
        /\ Lands(wire[k], outcome)
        /\ call' = IF wire[k].awaited THEN [call EXCEPT !.outcome = outcome] ELSE call
  BY DEF SubmissionLands
<1>4. receipts[id] # {} => receipts[id] = wire[k].manifest
  BY <1>2 DEF Ready, Sound, ReceiptsOwned
<1>5. \/ outcome = "confirmed" /\ receipts' = [receipts EXCEPT ![id] = wire[k].manifest]
      \/ /\ outcome = "rejected" /\ receipts[id] = {} /\ "authoritative" \in venue.traits
         /\ UNCHANGED receipts
      \/ outcome = "alreadyApplied" /\ receipts[id] = wire[k].manifest /\ UNCHANGED receipts
  <2>1. /\ "debits_first" \notin venue.traits
        /\ "rejects" \in venue.traits => "authoritative" \in venue.traits
    BY DEF Ready, Trusted
  <2> QED  BY <1>3, <1>4, <2>1 DEF Lands, Reconciled
<1>6. receipts \in [Ids -> SUBSET Trades]
  BY DEF Ready, TypeOK
<1>7. /\ \A o \in Ids : o # id => receipts'[o] = receipts[o]
      /\ \/ outcome = "confirmed" /\ receipts'[id] = wire[k].manifest
         \/ /\ outcome = "rejected" /\ receipts'[id] = {} /\ "authoritative" \in venue.traits
            /\ receipts[id] = {}
         \/ outcome = "alreadyApplied" /\ receipts'[id] = wire[k].manifest
  BY <1>2, <1>5, <1>6
<1>8. PICK old \in [DOMAIN wire' -> DOMAIN wire] :
        /\ \A j \in DOMAIN wire' : wire'[j] = wire[old[j]] /\ old[j] \in DOMAIN wire /\ old[j] # k
        /\ \A i, j \in DOMAIN wire' : old[i] = old[j] => i = j
  BY <1>1, WireRemoved DEF Ready
<1>9. WireOwned' /\ \A o \in Ids : OnWire(o)' => OnWire(o)
  BY <1>1, <1>8, WireShrinks
<1>10. ReceiptsOwned'
  BY <1>1, <1>2, <1>7 DEF Ready, Sound, ReceiptsOwned
<1>11. ConfirmedMeansSettled'
  <2>1. ASSUME NEW o \in Ids, rows[o] # NoRow, rows[o].status = "confirmed"
        PROVE  receipts'[o] = rows[o].manifest
    <3>1. receipts[o] = rows[o].manifest
      BY <2>1 DEF Ready, Sound, ConfirmedMeansSettled
    <3>2. o[1] \in rows[o].manifest
      BY <2>1 DEF Ready, ClaimsExact
    <3> QED  BY <1>2, <1>7, <3>1, <3>2
  <2> QED  BY <1>1, <2>1 DEF ConfirmedMeansSettled
<1>12. CASE wire[k].awaited
  <2>1. /\ call # NoCall /\ call.row.id = id
        /\ call' = [call EXCEPT !.outcome = outcome]
    BY <1>3, <1>12 DEF Ready, InStep, Waiting
  <2>2. /\ call \in VenueCall /\ rows[id].manifest = call.row.manifest
        /\ rows[id].status \in {"submitted", "unknown"}
    BY <2>1, CalledRow
  <2>3. outcome \in CallOutcome
    BY DEF CallOutcome
  <2>4. call' \in VenueCall /\ call'.row = call.row /\ call'.outcome = outcome
    BY <2>1, <2>2, <2>3, OutcomeProps
  <2>5. TodoCurrent'
    BY <1>1, <2>4, NoneAssumption DEF Ready, Sound, TodoCurrent
  <2>6. PICK c \in Ids : c = id
    BY <1>2
  <2>7. "authoritative" \in venue.traits => ~OnWire(c)'
    <3>1. ASSUME "authoritative" \in venue.traits, NEW j \in DOMAIN wire'
          PROVE  wire'[j].id # c
      <4>1. \A i \in DOMAIN wire : wire[i].id = wire[k].id => i = k
        BY <3>1 DEF Ready, Sound, WireOwned
      <4>2. old[j] \in DOMAIN wire /\ old[j] # k /\ wire'[j] = wire[old[j]]
        BY <1>8
      <4> QED  BY <2>6, <4>1, <4>2
    <3> QED  BY <3>1 DEF OnWire
  <2>8. call'.row.id = c /\ (OnWire(call.row.id))' = OnWire(c)'
    BY <2>1, <2>4, <2>6 DEF OnWire
  <2>9. /\ rows'[c].status \in {"submitted", "unknown"}
        /\ outcome \in {"confirmed", "alreadyApplied"} => receipts'[c] = call.row.manifest
        /\ outcome = "rejected" => receipts'[c] = {} /\ ~OnWire(c)'
        /\ outcome # "notFound"
    BY <1>1, <1>2, <1>7, <2>2, <2>6, <2>7
  <2>10. AnswerHolds'
    BY <2>4, <2>8, <2>9 DEF AnswerHolds
  <2> QED  BY <1>9, <1>10, <1>11, <2>5, <2>10 DEF Sound
<1>13. CASE ~wire[k].awaited
  <2>1. call' = call
    BY <1>3, <1>13
  <2>2. TodoCurrent'
    BY <1>1, <2>1 DEF Ready, Sound, TodoCurrent
  <2>3. AnswerHolds'
    <3>1. CASE call = NoCall
      BY <2>1, <3>1 DEF AnswerHolds
    <3>2. CASE call # NoCall
      <4>1. PICK c \in Ids : c = call.row.id
        BY <3>2, CalledRow
      <4>2. /\ rows[c].status \in {"submitted", "unknown"}
            /\ rows[c].manifest = call.row.manifest
            /\ call.outcome \in {"confirmed", "alreadyApplied"} => receipts[c] = call.row.manifest
            /\ call.outcome = "rejected" => receipts[c] = {} /\ ~OnWire(c)
            /\ call.outcome = "notFound" /\ "authoritative" \in venue.traits => ~OnWire(c)
        BY <3>2, <4>1, CalledRow DEF Ready, Sound, AnswerHolds
      <4>3. OnWire(c)' => OnWire(c)
        BY <1>9
      <4>4. ~OnWire(c) => c # id
        BY DEF OnWire
      <4>5. c[1] \in rows[c].manifest
        BY <3>2, <4>1, CalledRow DEF Ready, ClaimsExact
      <4>6. call.outcome \in {"confirmed", "alreadyApplied"} => receipts'[c] = call.row.manifest
        BY <1>2, <1>7, <4>2, <4>5
      <4>7. call.outcome = "rejected" => receipts'[c] = {} /\ ~OnWire(c)'
        BY <1>7, <4>2, <4>3, <4>4
      <4>8. (OnWire(call.row.id))' = OnWire(c)'
        BY <2>1, <4>1 DEF OnWire
      <4> QED  BY <1>1, <2>1, <4>1, <4>2, <4>3, <4>6, <4>7, <4>8 DEF AnswerHolds
    <3> QED  BY <3>1, <3>2
  <2> QED  BY <1>9, <1>10, <1>11, <2>2, <2>3 DEF Sound
<1> QED  BY <1>12, <1>13

\* The call, or its end, after the wire shrank: an answer that was given holds.
LEMMA WireGoneSound ==
  ASSUME Ready, UNCHANGED <<rows, receipts, venue>>, WireOwned',
         \A id \in Ids : OnWire(id)' => OnWire(id),
         \/ UNCHANGED <<todo, call>>
         \/ todo' = todo /\ call # NoCall /\ call' = [call EXCEPT !.outcome = "unknown"]
         \/ todo' = <<>> /\ call' = NoCall
  PROVE  Sound'
<1>1. ReceiptsOwned' /\ ConfirmedMeansSettled'
  BY DEF Ready, Sound, ReceiptsOwned, ConfirmedMeansSettled
<1>2. CASE todo' = <<>> /\ call' = NoCall
  <2>1. DOMAIN todo' = {}
    BY <1>2, SMT
  <2>2. TodoCurrent' /\ AnswerHolds'
    BY <1>2, <2>1 DEF TodoCurrent, AnswerHolds
  <2> QED  BY <1>1, <2>2 DEF Sound
<1>3. CASE call = NoCall /\ UNCHANGED <<todo, call>>
  BY <1>1, <1>3 DEF Ready, Sound, TodoCurrent, AnswerHolds
<1>4. CASE /\ call # NoCall /\ todo' = todo
           /\ call' = call \/ call' = [call EXCEPT !.outcome = "unknown"]
  <2>1. PICK c \in Ids : c = call.row.id
    BY <1>4, CalledRow
  <2>2. /\ call' \in VenueCall /\ call'.row = call.row
        /\ call'.outcome = call.outcome \/ call'.outcome = "unknown"
    <3>1. call \in VenueCall /\ "unknown" \in CallOutcome
      BY <1>4, CalledRow DEF CallOutcome
    <3>2. CASE call' = call
      BY <3>1, <3>2
    <3>3. CASE call' = [call EXCEPT !.outcome = "unknown"]
      BY <3>1, <3>3, OutcomeProps
    <3> QED  BY <1>4, <3>2, <3>3
  <2>3. TodoCurrent'
    BY <1>4, <2>2, NoneAssumption DEF Ready, Sound, TodoCurrent
  <2>4. call'.row.id = c /\ (OnWire(call.row.id))' = OnWire(c)'
    BY <2>1, <2>2 DEF OnWire
  <2>5. AnswerHolds'
    BY <1>4, <2>1, <2>2, <2>4 DEF Ready, Sound, AnswerHolds
  <2> QED  BY <1>1, <2>3, <2>5 DEF Sound
<1> QED  BY <1>2, <1>3, <1>4

\* A submission is lost.
LEMMA LostSound ==
  ASSUME Ready, NEW k \in DOMAIN wire, SubmissionLost(k)
  PROVE  Sound'
<1>1. UNCHANGED <<rows, receipts, venue, todo, call>> /\ wire' = Without(wire, k)
  BY DEF SubmissionLost, db_vars, bound_vars
<1>2. PICK old \in [DOMAIN wire' -> DOMAIN wire] :
        /\ \A j \in DOMAIN wire' : wire'[j] = wire[old[j]] /\ old[j] \in DOMAIN wire /\ old[j] # k
        /\ \A i, j \in DOMAIN wire' : old[i] = old[j] => i = j
  BY <1>1, WireRemoved DEF Ready
<1>3. WireOwned' /\ \A o \in Ids : OnWire(o)' => OnWire(o)
  BY <1>1, <1>2, WireShrinks
<1> QED  BY <1>1, <1>3, WireGoneSound

\* A call times out, or the process crashes, and the wire goes on.
LEMMA GivenUpSound ==
  ASSUME Ready, TimesOut \/ Crash
  PROVE  Sound'
<1>1. UNCHANGED <<rows, receipts, venue>> /\ wire' = Unawaited
  BY DEF TimesOut, Crash, db_vars, bound_vars
<1>2. /\ DOMAIN wire' = DOMAIN wire
      /\ \A k \in DOMAIN wire : wire'[k].id = wire[k].id /\ wire'[k].manifest = wire[k].manifest
  BY <1>1, UnawaitedProps, Elements DEF Ready
<1> DEFINE old == [j \in DOMAIN wire' |-> j]
<1>3. old \in [DOMAIN wire' -> DOMAIN wire] /\ \A j \in DOMAIN wire' : old[j] = j
  BY <1>2
<1> HIDE DEF old
<1>4. WireOwned' /\ \A o \in Ids : OnWire(o)' => OnWire(o)
  <2>1. \A j \in DOMAIN wire' : /\ old[j] \in DOMAIN wire
                                /\ wire'[j].id = wire[old[j]].id
                                /\ wire'[j].manifest = wire[old[j]].manifest
    BY <1>2, <1>3
  <2>2. \A i, j \in DOMAIN wire' : old[i] = old[j] => i = j
    BY <1>3
  <2> QED  BY <1>1, <1>3, <2>1, <2>2, WireShrinks
<1>5. \/ todo' = todo /\ call # NoCall /\ call' = [call EXCEPT !.outcome = "unknown"]
      \/ todo' = <<>> /\ call' = NoCall
  BY DEF TimesOut, Crash
<1> QED  BY <1>1, <1>4, <1>5, WireGoneSound

\* A refused settlement is released: nothing on its way and no receipt names it.
LEMMA ReleaseSound ==
  ASSUME Ready, NEW id \in Ids, ReleaseFailed(id)
  PROVE  Sound'
<1>1. /\ rows[id] # NoRow /\ rows[id].status = "failed" /\ rows' = [rows EXCEPT ![id] = NoRow]
      /\ UNCHANGED <<todo, call, wire, receipts, venue>>
  BY DEF ReleaseFailed
<1>2. rows'[id] = NoRow /\ \A o \in Ids : o # id => rows'[o] = rows[o]
  BY <1>1, RowSet DEF Ready
<1>3. ReceiptsOwned'
  BY <1>1, <1>2 DEF Ready, Sound, ReceiptsOwned
<1>4. ConfirmedMeansSettled'
  BY <1>1, <1>2 DEF Ready, Sound, ConfirmedMeansSettled
<1>5. WireOwned'
  <2>1. \A k \in DOMAIN wire : wire[k].id \in Ids /\ wire[k].id # id
    BY <1>1, Elements DEF Ready, Sound, WireOwned
  <2>2. ASSUME NEW k \in DOMAIN wire
        PROVE  /\ rows'[wire[k].id] # NoRow
               /\ wire[k].manifest = rows'[wire[k].id].manifest
               /\ rows'[wire[k].id].status \notin {"failed", "pending"}
    <3>1. rows'[wire[k].id] = rows[wire[k].id]
      BY <1>2, <2>1
    <3> QED  BY <3>1 DEF Ready, Sound, WireOwned
  <2>3. "authoritative" \in venue.traits =>
          \A j, k \in DOMAIN wire : wire[j].id = wire[k].id => j = k
    BY DEF Ready, Sound, WireOwned
  <2> QED  BY <1>1, <2>2, <2>3 DEF WireOwned
<1>6. TodoCurrent'
  <2>1. \A k \in DOMAIN todo : todo[k].id \in Ids /\ todo[k].id # id
    BY <1>1, Elements DEF Ready, Sound, TodoCurrent, Unresolved
  <2>2. ASSUME NEW k \in DOMAIN todo
        PROVE  /\ rows'[todo[k].id] # NoRow
               /\ todo[k].manifest = rows'[todo[k].id].manifest
               /\ rows'[todo[k].id].status \in Unresolved
               /\ k # 1 \/ call = NoCall => rows'[todo[k].id].status = todo[k].status
    <3>1. rows'[todo[k].id] = rows[todo[k].id]
      BY <1>2, <2>1
    <3>2. /\ rows[todo[k].id] # NoRow
          /\ todo[k].manifest = rows[todo[k].id].manifest
          /\ rows[todo[k].id].status \in Unresolved
          /\ k # 1 \/ call = NoCall => rows[todo[k].id].status = todo[k].status
      BY DEF Ready, Sound, TodoCurrent
    <3> QED  BY <3>1, <3>2
  <2>3. \A j, k \in DOMAIN todo : todo[j].id = todo[k].id => j = k
    BY DEF Ready, Sound, TodoCurrent
  <2> QED  BY <1>1, <2>2, <2>3, ZenonT(30) DEF TodoCurrent
<1>7. AnswerHolds'
  <2>1. CASE call = NoCall
    BY <1>1, <2>1 DEF AnswerHolds
  <2>2. CASE call # NoCall
    <3>1. rows'[call.row.id] = rows[call.row.id]
      BY <1>1, <1>2, <2>2, CalledRow
    <3> QED  BY <1>1, <2>2, <3>1 DEF Ready, Sound, AnswerHolds, OnWire
  <2> QED  BY <2>1, <2>2
<1> QED  BY <1>3, <1>4, <1>5, <1>6, <1>7 DEF Sound

\* A step of a trusted deployment keeps the outbox sound.
LEMMA SoundStep ==
  ASSUME TypeOK, InStep, ClaimsExact, Trusted => Sound, [Next]_vars, Trusted'
  PROVE  Sound'
<1>1. venue' = venue /\ (Rebuild \/ rebuilds' = rebuilds)
  BY DEF Next, Dispatcher, Venue, ProjectTrade, Tick, Advance, AdvanceMissing, Resubmit,
     RecordOutcome, OutcomeOfMissing, LookupAnswer, SubmissionLands, SubmissionLost, TimesOut,
     BackoffExpires, ReleaseFailed, Rebuild, Crash, bound_vars, vars
<1>2. ~Rebuild
  BY SMT DEF Rebuild, Trusted, TypeOK
<1>3. Ready
  BY <1>1, <1>2 DEF Ready, Trusted
<1>4. CASE ProjectTrade \/ UNCHANGED vars
  BY <1>3, <1>4, SoundFrame DEF ProjectTrade, vars, db_vars, bound_vars
<1>5. CASE AdvanceMissing
  <2>1. Head(todo) = todo[1] /\ 1 \in DOMAIN todo
    BY <1>5, Elements, HeadTail DEF AdvanceMissing
  <2> QED  BY <1>3, <1>5, <2>1 DEF AdvanceMissing, Ready, Sound, TodoCurrent
<1>6. CASE OutcomeOfMissing
  BY <1>3, <1>6, CalledRow DEF OutcomeOfMissing
<1>7. ASSUME NEW id \in Ids, BackoffExpires(id)
      PROVE  Sound'
  <2>1. /\ rows[id] # NoRow /\ UNCHANGED <<todo, call, wire, receipts, venue>>
        /\ rows' = [rows EXCEPT ![id] = [rows[id] EXCEPT !.due = TRUE]]
    BY <1>7 DEF BackoffExpires, bound_vars
  <2>2. rows[id] \in SettlementRow
    BY <2>1, Elements
  <2>3. [rows[id] EXCEPT !.due = TRUE] \in SettlementRow
    BY <2>2 DEF SettlementRow
  <2>4. /\ [rows[id] EXCEPT !.due = TRUE].manifest = rows[id].manifest
        /\ [rows[id] EXCEPT !.due = TRUE].status = rows[id].status
    BY <2>2, SMT DEF SettlementRow
  <2>5. /\ rows'[id] = [rows[id] EXCEPT !.due = TRUE]
        /\ \A o \in Ids : o # id => rows'[o] = rows[o]
    BY <2>1, <2>3, RowSet
  <2>6. \A o \in Ids : /\ rows[o] = NoRow <=> rows'[o] = NoRow
                       /\ rows[o] # NoRow => /\ rows'[o].manifest = rows[o].manifest
                                             /\ rows'[o].status = rows[o].status
    BY <2>1, <2>3, <2>4, <2>5, NoneAssumption
  <2> QED  BY <1>3, <2>1, <2>6, SoundFrame
<1> QED
  BY <1>2, <1>3, <1>4, <1>5, <1>6, <1>7, TickSound, AdvanceSound, ResubmitSound,
     RecordOutcomeSound, LookupSound, LandsSound, LostSound, GivenUpSound, ReleaseSound
  DEF Next, Dispatcher, Venue

-----------------------------------------------------------------------------
(* Theorems *)

\* The invariant holds at the start.
LEMMA InvInit == Init => IInv
<1> SUFFICES ASSUME Init PROVE IInv
  OBVIOUS
<1>1. TypeOK
  <2>1. <<>> \in Seq(TodoRow) /\ <<>> \in Seq(Submission) /\ 0 \in 0 .. MaxTrades /\ 0 \in Nat
    BY BatchAssumption, SMT
  <2> QED  BY <2>1 DEF Init, TypeOK
<1>2. DOMAIN wire = {} /\ DOMAIN todo = {} /\ 1 .. projected = {}
  BY SMT DEF Init
<1>3. InStep
  BY <1>2 DEF Init, InStep
<1>4. ClaimsExact
  BY <1>2 DEF Init, ClaimsExact, Claimed
<1>5. Sound
  BY <1>2 DEF Init, Sound, ReceiptsOwned, ConfirmedMeansSettled, WireOwned, TodoCurrent, AnswerHolds
<1> QED  BY <1>1, <1>3, <1>4, <1>5 DEF IInv

\* Every step preserves it.
LEMMA InvNext == IInv /\ [Next]_vars => IInv'
<1> SUFFICES ASSUME IInv, [Next]_vars PROVE IInv'
  OBVIOUS
<1>1. TypeOK /\ InStep /\ ClaimsExact /\ (Trusted => Sound)
  BY DEF IInv
<1>2. TypeOK'
  BY <1>1, TypeStep
<1>3. InStep'
  BY <1>1, InStepStep
<1>4. ClaimsExact'
  BY <1>1, ClaimsStep
<1>5. Trusted' => Sound'
  BY <1>1, SoundStep
<1> QED  BY <1>2, <1>3, <1>4, <1>5 DEF IInv

\* So it holds in every reachable state.
LEMMA Invariant == Spec => []IInv
<1>1. Init => IInv
  BY InvInit
<1>2. IInv /\ [Next]_vars => IInv'
  BY InvNext
<1> QED  BY <1>1, <1>2, PTL DEF Spec

\* The state keeps its types.
THEOREM TypeCorrect == Spec => []TypeOK
<1>1. IInv => TypeOK
  BY DEF IInv
<1> QED  BY <1>1, Invariant, PTL

\* manifestFor rebuilds every row's manifest exactly, and createBatch never meets
\* another batch's identity, on any venue and after any rebuild: retries are
\* byte-identical and ManifestConflict is never thrown.
THEOREM ManifestsRebuilt == Spec => []ClaimsMatchManifests
<1>1. IInv => ClaimsMatchManifests
  BY BatchFresh DEF IInv, ClaimsExact, ClaimsMatchManifests
<1> QED  BY <1>1, Invariant, PTL

\* In a trusted deployment a row is marked failed only if the venue applied
\* nothing of it, however many submissions timed out before the refusal.
THEOREM FailuresAreClean == Spec => [](Trusted => FailedMeansNoEffect)
<1>1. IInv => (Trusted => FailedMeansNoEffect)
  BY DEF IInv, Sound, ReceiptsOwned, FailedMeansNoEffect
<1> QED  BY <1>1, Invariant, PTL

\* A confirmed row of a trusted deployment was settled with its manifest.
THEOREM ConfirmationsAreTrue == Spec => [](Trusted => ConfirmedMeansSettled)
<1>1. IInv => (Trusted => ConfirmedMeansSettled)
  BY DEF IInv, Sound
<1> QED  BY <1>1, Invariant, PTL

\* A trusted deployment settles no trade twice, whatever times out, crashes,
\* lands late or is released: a receipt belongs to a row, a row to its trades, and
\* a trade names one row.
THEOREM NoTradeSettledTwice == Spec => [](Trusted => SettledAtMostOnce)
<1>1. IInv => (Trusted => SettledAtMostOnce)
  <2> SUFFICES ASSUME IInv, Trusted, NEW a \in Ids, NEW b \in Ids, a # b
               PROVE  receipts[a] \cap receipts[b] = {}
    BY DEF SettledAtMostOnce, OneIdentityPerTrade
  <2>1. \A o \in Ids : receipts[o] # {} => receipts[o] = Claimed(o)
    BY DEF IInv, Sound, ReceiptsOwned, ClaimsExact
  <2>2. Claimed(a) \cap Claimed(b) = {}
    BY DEF Claimed
  <2> QED  BY <2>1, <2>2
<1> QED  BY <1>1, Invariant, PTL

=============================================================================
