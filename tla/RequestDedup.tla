---------------------------- MODULE RequestDedup ----------------------------
(***************************************************************************)
(* One account's request cache driven as apply_request drives it: look the *)
(* request up, answer an exact retry from the ring, record everything else *)
(* (a conflict included).  `log` remembers every record ever made, so that *)
(* the ring and its index can be compared with it.                         *)
(***************************************************************************)
EXTENDS RequestCache, Sequences

CONSTANT MaxRecords   \* bound on the number of records of a run

VARIABLES cache, log

vars == <<cache, log>>

Init == cache = EmptyCache /\ log = <<>>

Retry(id, fp) ==
    /\ IsRetry(cache, id, fp)
    /\ UNCHANGED vars

\* A request the ring does not hold, or holds with another fingerprint.
RecordResult(id, fp, outcome) ==
    /\ ~IsRetry(cache, id, fp)
    /\ Len(log) < MaxRecords
    /\ cache' = Record(cache, id, fp, outcome)
    /\ log' = Append(log, [request_id |-> id, fingerprint |-> fp, outcome |-> outcome])

Next == \E id \in RequestIds, fp \in Fingerprints :
          \/ Retry(id, fp)
          \/ \E outcome \in Outcomes : RecordResult(id, fp, outcome)

Spec == Init /\ [][Next]_vars

-----------------------------------------------------------------------------

\* Type invariant of the ring and of the log.
TypeOK == cache \in RequestCaches /\ log \in Seq(CachedRequest)

\* The index never leads to a slot that was reused for another request, so the
\* check in lookup ("a stale index must not resolve") never has to refuse.
IndexLeadsHome ==
    \A id \in RequestIds :
        cache.index[id] # NoSlot =>
          /\ cache.entries[cache.index[id]] # NoEntry
          /\ cache.entries[cache.index[id]].request_id = id

Recent == {k \in 1 .. Len(log) : k > Len(log) - Capacity}

\* Lookup answers from the latest record of the id among the last Capacity
\* records, and from nothing else: eviction forgets neither too much nor too little.
LookupIsLatestRecent ==
    \A id \in RequestIds :
        LET held == {k \in Recent : log[k].request_id = id}
        IN  /\ Resolves(cache, id) <=> held # {}
            /\ \A k \in held : (\A j \in held : j <= k) => Entry(cache, id) = log[k]

\* An exact retry of any request whose result is still retained is answered
\* with that result ("retained so an exact retry is idempotent").
RetainedRequestsReplay ==
    \A s \in Slots :
        cache.entries[s] # NoEntry =>
          IsRetry(cache, cache.entries[s].request_id, cache.entries[s].fingerprint)

=============================================================================
