---------------------------- MODULE RequestCache ----------------------------
(***************************************************************************)
(* The per-account ring of recent request results, from                    *)
(* crates/trading-core/src/account.rs: a fixed array of entries written    *)
(* round robin, and an index from request id to ring slot that makes the   *)
(* lookup O(1).  The operators below are the cache as a value; TradingCore *)
(* keeps one such value per account, RequestDedup drives one on its own.   *)
(***************************************************************************)
EXTENDS Integers

CONSTANTS
    RequestIds,     \* request ids a client may use
    Fingerprints,   \* values of request_fingerprint, taken as injective
    Outcomes,       \* final reports kept for an exact retry
    DedupWindow,    \* EngineConfig.dedup_window
    NoEntry         \* an empty ring slot (None)

Capacity == IF DedupWindow = 0 THEN 1 ELSE DedupWindow

Slots == 0 .. (Capacity - 1)

\* The index is a map; an absent key is NoSlot.
NoSlot == -1

CachedRequest == [request_id : RequestIds, fingerprint : Fingerprints, outcome : Outcomes]

RequestCaches == [entries : [Slots -> CachedRequest \cup {NoEntry}],
                  index   : [RequestIds -> Slots \cup {NoSlot}],
                  next    : Slots]

ASSUME WindowAssumption == DedupWindow \in Nat

ASSUME NoEntryAssumption == NoEntry \notin CachedRequest

EmptyCache == [entries |-> [s \in Slots |-> NoEntry],
               index   |-> [id \in RequestIds |-> NoSlot],
               next    |-> 0]

-----------------------------------------------------------------------------
(* lookup: the entry the index leads to, refused when the slot was reused. *)

Entry(c, id) == c.entries[c.index[id]]

Resolves(c, id) ==
    /\ c.index[id] # NoSlot
    /\ Entry(c, id) # NoEntry
    /\ Entry(c, id).request_id = id

IsRetry(c, id, fp) == Resolves(c, id) /\ Entry(c, id).fingerprint = fp

IsConflict(c, id, fp) == Resolves(c, id) /\ Entry(c, id).fingerprint # fp

-----------------------------------------------------------------------------
(* record: evict the oldest slot, drop its key only if the key still leads *)
(* there, write the new entry and re-index its id.                         *)

\* Faulty variant: the key is dropped even when it leads elsewhere.
EvictedIndexUnguarded(c) ==
    LET previous == c.entries[c.next]
    IN  IF previous # NoEntry
        THEN [c.index EXCEPT ![previous.request_id] = NoSlot]
        ELSE c.index

\* Faulty variant: the key of the evicted entry is never dropped.
EvictedIndexKept(c) == c.index

EvictedIndex(c) ==
    LET previous == c.entries[c.next]
    IN  IF previous # NoEntry /\ c.index[previous.request_id] = c.next
        THEN [c.index EXCEPT ![previous.request_id] = NoSlot]
        ELSE c.index

Record(c, id, fp, outcome) ==
    [entries |-> [c.entries EXCEPT
                    ![c.next] = [request_id |-> id, fingerprint |-> fp, outcome |-> outcome]],
     index   |-> [EvictedIndex(c) EXCEPT ![id] = c.next],
     next    |-> (c.next + 1) % Capacity]

=============================================================================
