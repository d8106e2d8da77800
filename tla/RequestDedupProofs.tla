------------------------- MODULE RequestDedupProofs -------------------------
(***************************************************************************)
(* Proofs about the request cache, for every window size, request id and   *)
(* number of records.  The ring position of a record is expressed by its   *)
(* distance from the write position, so that no step needs more of `%`     *)
(* than NextSlot.                                                          *)
(***************************************************************************)
EXTENDS RequestDedup, TLAPS

\* The slot `age` places behind the write position `next` in a ring of `size`.
Behind(size, next, age) == IF next >= age THEN next - age ELSE next - age + size

\* The write position after `next`.
Following(size, next) == IF next + 1 = size THEN 0 ELSE next + 1

\* The ring slot that record k was written to; the latest record has age 1.
SlotOf(k) == Behind(Capacity, cache.next, Len(log) + 1 - k)

Held(id) == {k \in Recent : log[k].request_id = id}

\* The ring holds the recent records and nothing else.
RingHoldsRecent ==
    /\ \A k \in Recent : cache.entries[SlotOf(k)] = log[k]
    /\ \A s \in Slots : cache.entries[s] = NoEntry \/ \E k \in Recent : s = SlotOf(k)

\* The index leads to the latest recent record of an id.
IndexIsLatest ==
    \A id \in RequestIds :
        /\ cache.index[id] = NoSlot => Held(id) = {}
        /\ cache.index[id] # NoSlot =>
             \E k \in Held(id) : /\ cache.index[id] = SlotOf(k)
                                 /\ \A j \in Held(id) : j <= k

Inv == TypeOK /\ RingHoldsRecent /\ IndexIsLatest

-----------------------------------------------------------------------------

\* max(1) of RequestCache::new: the ring has at least one slot.
LEMMA CapacityPositive == Capacity \in Nat /\ Capacity >= 1
  BY WindowAssumption DEF Capacity

\* The write position of RequestCache::record advances by one and wraps.
LEMMA NextSlot ==
  ASSUME NEW s \in Slots
  PROVE  (s + 1) % Capacity = Following(Capacity, s)
  <1>1. Capacity \in Nat /\ Capacity >= 1 /\ s \in Int /\ 0 <= s /\ s <= Capacity - 1
    BY CapacityPositive DEF Slots
  <1>2. CASE s + 1 = Capacity
    BY <1>1, <1>2, SMT DEF Following
  <1>3. CASE s + 1 # Capacity
    BY <1>1, <1>3, SMT DEF Following
  <1> QED BY <1>2, <1>3

\* Initially the ring, the index and the log are empty.
LEMMA InitInv == Init => Inv
  <1> SUFFICES ASSUME Init PROVE Inv
    OBVIOUS
  <1> USE CapacityPositive, NoEntryAssumption
  <1>1. TypeOK
    BY DEF Init, TypeOK, EmptyCache, RequestCaches, Slots
  <1>2. Recent = {}
    BY DEF Init, Recent
  <1>3. RingHoldsRecent
    BY <1>2 DEF RingHoldsRecent, Init, EmptyCache
  <1>4. IndexIsLatest
    BY <1>2 DEF IndexIsLatest, Held, Init, EmptyCache
  <1> QED BY <1>1, <1>3, <1>4 DEF Inv

\* Recording keeps the types of ring and index (RequestCache::record).
LEMMA RecordType ==
  ASSUME TypeOK, NEW id \in RequestIds, NEW fp \in Fingerprints, NEW outcome \in Outcomes,
         RecordResult(id, fp, outcome)
  PROVE  TypeOK'
  <1> DEFINE entry == [request_id |-> id, fingerprint |-> fp, outcome |-> outcome]
  <1>1. /\ cache.entries \in [Slots -> CachedRequest \cup {NoEntry}]
        /\ cache.index \in [RequestIds -> Slots \cup {NoSlot}]
        /\ cache.next \in Slots
    BY DEF TypeOK, RequestCaches
  <1>2. entry \in CachedRequest
    BY DEF CachedRequest
  <1>3. (cache.next + 1) % Capacity \in Slots
    BY <1>1, NextSlot, CapacityPositive DEF Slots, Following
  <1>4. EvictedIndex(cache) \in [RequestIds -> Slots \cup {NoSlot}]
    BY <1>1 DEF EvictedIndex
  <1>5. cache' \in RequestCaches
    BY <1>1, <1>2, <1>3, <1>4 DEF RecordResult, Record, RequestCaches
  <1>6. log' \in Seq(CachedRequest)
    BY <1>2 DEF RecordResult, TypeOK
  <1> QED BY <1>5, <1>6 DEF TypeOK

\* Arithmetic of the ring: slots of different ages differ.
LEMMA DifferentAges ==
  ASSUME NEW size \in Nat, NEW next \in 0 .. (size - 1), NEW age \in 1 .. size,
         NEW other \in 1 .. size, Behind(size, next, age) = Behind(size, next, other)
  PROVE  age = other
  BY DEF Behind

\* Arithmetic of the ring: slots stay put when the write position advances and
\* every age grows by one.
LEMMA RingArithmetic ==
  ASSUME NEW size \in Nat, NEW next \in 0 .. (size - 1), NEW age \in 1 .. size
  PROVE  /\ Behind(size, next, age) \in 0 .. (size - 1)
         /\ age < size => Behind(size, Following(size, next), age + 1) = Behind(size, next, age)
         /\ age < size => Behind(size, next, age) # next
         /\ Behind(size, next, size) = next
         /\ Behind(size, Following(size, next), 1) = next
  BY DEF Behind, Following

\* The ages of recent records.
LEMMA RecentAges ==
  ASSUME TypeOK, NEW k
  PROVE  k \in Recent <=> k \in Int /\ k >= 1 /\ Len(log) + 1 - k \in 1 .. Capacity
  <1>1. Len(log) \in Nat
    BY DEF TypeOK
  <1> QED BY <1>1, CapacityPositive DEF Recent

\* Every recent record is in the ring, no two of them in one slot.
LEMMA SlotsInRing ==
  ASSUME TypeOK
  PROVE  /\ \A k \in Recent : SlotOf(k) \in Slots
         /\ \A j, k \in Recent : SlotOf(j) = SlotOf(k) => j = k
  <1>1. Len(log) \in Nat /\ cache.next \in 0 .. (Capacity - 1)
    BY DEF TypeOK, RequestCaches, Slots
  <1>2. ASSUME NEW k \in Recent
        PROVE  k \in Int /\ Len(log) + 1 - k \in 1 .. Capacity
    BY RecentAges
  <1>3. ASSUME NEW k \in Recent
        PROVE  SlotOf(k) \in Slots
    BY <1>1, <1>2, CapacityPositive, RingArithmetic DEF SlotOf, Slots
  <1>4. ASSUME NEW j \in Recent, NEW k \in Recent, SlotOf(j) = SlotOf(k)
        PROVE  j = k
    <2>1. PICK a \in 1 .. Capacity : a = Len(log) + 1 - j
      BY <1>2
    <2>2. PICK b \in 1 .. Capacity : b = Len(log) + 1 - k
      BY <1>2
    <2>3. Behind(Capacity, cache.next, a) = Behind(Capacity, cache.next, b)
      BY <1>4, <2>1, <2>2 DEF SlotOf
    <2>4. Capacity \in Nat
      BY CapacityPositive
    <2>5. a = b
      BY <1>1, <2>3, <2>4, DifferentAges
    <2> QED BY <1>1, <1>2, <2>1, <2>2, <2>5
  <1> QED BY <1>3, <1>4

\* What a record does to positions: the new one takes the write position, the
\* others stay where they are, and the one that was at the write position is
\* no longer recent.
LEMMA RecordMoves ==
  ASSUME TypeOK, NEW id \in RequestIds, NEW fp \in Fingerprints, NEW outcome \in Outcomes,
         RecordResult(id, fp, outcome), NEW n, n = Len(log)
  PROVE  /\ \A k \in Recent' : k \in Recent \/ k = n + 1
         /\ n + 1 \in Recent' /\ n + 1 \notin Recent /\ \A k \in Recent : k \in Int /\ k <= n
         /\ n \in Nat
         /\ SlotOf(n + 1)' = cache.next
         /\ \A k \in Recent : /\ k \in Recent' => SlotOf(k)' = SlotOf(k) /\ SlotOf(k) # cache.next
                              /\ k \notin Recent' => SlotOf(k) = cache.next
         /\ \A j, k \in Recent : j \in Recent' /\ k \notin Recent' => k < j
         /\ \A k \in Recent : log'[k] = log[k]
         /\ log'[n + 1] = [request_id |-> id, fingerprint |-> fp, outcome |-> outcome]
  <1>1. n \in Nat /\ cache.next \in 0 .. (Capacity - 1) /\ log \in Seq(CachedRequest)
    BY DEF TypeOK, RequestCaches, Slots
  <1>2. cache'.next = Following(Capacity, cache.next)
    BY <1>1, NextSlot DEF RecordResult, Record, Slots
  <1>3. [request_id |-> id, fingerprint |-> fp, outcome |-> outcome] \in CachedRequest
    BY DEF CachedRequest
  <1>4. /\ Len(log') = n + 1
        /\ \A k \in 1 .. n : log'[k] = log[k]
        /\ log'[n + 1] = [request_id |-> id, fingerprint |-> fp, outcome |-> outcome]
    BY <1>1, <1>3 DEF RecordResult
  <1>5. TypeOK'
    BY RecordType
  <1>6. \A k : k \in Recent <=> k \in Int /\ k >= 1 /\ n + 1 - k \in 1 .. Capacity
    BY RecentAges
  <1>7. \A k : k \in Recent' <=> k \in Int /\ k >= 1 /\ n + 2 - k \in 1 .. Capacity
    <2>1. Recent' = {k \in 1 .. Len(log') : k > Len(log') - Capacity}
      BY DEF Recent
    <2>2. Recent' = {k \in 1 .. (n + 1) : k > (n + 1) - Capacity}
      BY <1>4, <2>1, Zenon
    <2> QED BY <1>1, <2>2, CapacityPositive
  <1>8. \A k \in Int : SlotOf(k) = Behind(Capacity, cache.next, n + 1 - k)
    BY DEF SlotOf
  <1>9. \A k \in Int : SlotOf(k)' = Behind(Capacity, cache'.next, n + 2 - k)
    <2>1. \A k \in Int : SlotOf(k)' = Behind(Capacity, cache'.next, Len(log') + 1 - k)
      BY DEF SlotOf
    <2>2. \A k \in Int : n + 1 + 1 - k = n + 2 - k
      BY <1>1
    <2> QED BY <1>4, <2>1, <2>2
  <1>10. \A k \in Recent' : k \in Recent \/ k = n + 1
    BY <1>1, <1>6, <1>7, CapacityPositive
  <1>11. n + 1 \in Recent' /\ n + 1 \notin Recent /\ \A k \in Recent : k \in Int /\ k <= n
    BY <1>1, <1>6, <1>7, CapacityPositive
  <1>12. SlotOf(n + 1)' = cache.next
    <2>1. n + 2 - (n + 1) = 1 /\ n + 1 \in Int /\ 1 \in 1 .. Capacity
      BY <1>1, CapacityPositive
    <2>2. Behind(Capacity, cache'.next, 1) = cache.next
      BY <1>1, <1>2, <2>1, CapacityPositive, RingArithmetic
    <2> QED BY <1>9, <2>1, <2>2
  <1>13. ASSUME NEW k \in Recent, k \in Recent'
         PROVE  SlotOf(k)' = SlotOf(k) /\ SlotOf(k) # cache.next
    <2>0. PICK age \in Int : age = n + 1 - k
      BY <1>1, <1>6
    <2>1. k \in Int /\ age \in 1 .. Capacity /\ age < Capacity /\ n + 2 - k = age + 1
      BY <1>1, <1>6, <1>7, <1>13, <2>0, CapacityPositive
    <2>2. /\ Behind(Capacity, cache'.next, age + 1) = Behind(Capacity, cache.next, age)
          /\ Behind(Capacity, cache.next, age) # cache.next
      <3>1. /\ Capacity \in Nat /\ cache.next \in 0 .. (Capacity - 1)
            /\ age \in 1 .. Capacity /\ age < Capacity
        BY <1>1, <2>1, CapacityPositive
      <3>2. /\ Behind(Capacity, Following(Capacity, cache.next), age + 1)
                 = Behind(Capacity, cache.next, age)
            /\ Behind(Capacity, cache.next, age) # cache.next
        BY <3>1, RingArithmetic
      <3> QED BY <1>2, <3>2
    <2> QED BY <1>8, <1>9, <2>0, <2>1, <2>2
  <1>14. ASSUME NEW k \in Recent, k \notin Recent'
         PROVE  SlotOf(k) = cache.next
    <2>1. k \in Int /\ n + 1 - k = Capacity /\ Capacity \in 1 .. Capacity
      BY <1>1, <1>6, <1>7, <1>14, CapacityPositive
    <2>2. Behind(Capacity, cache.next, Capacity) = cache.next
      <3>1. Capacity \in Nat /\ cache.next \in 0 .. (Capacity - 1) /\ Capacity \in 1 .. Capacity
        BY <1>1, <2>1, CapacityPositive
      <3> QED BY <3>1, RingArithmetic, Zenon
    <2> QED BY <1>8, <2>1, <2>2
  <1>15. \A k \in Recent : log'[k] = log[k]
    BY <1>1, <1>4, <1>11 DEF Recent
  <1>16. ASSUME NEW j \in Recent, NEW k \in Recent, j \in Recent', k \notin Recent'
         PROVE  k < j
    <2>1. /\ j \in Int /\ n + 2 - j \in 1 .. Capacity
          /\ k \in Int /\ k >= 1 /\ n + 1 - k \in 1 .. Capacity
      BY <1>6, <1>7, <1>16
    <2>2. n + 2 - k \notin 1 .. Capacity
      BY <1>7, <1>16, <2>1
    <2> QED BY <1>1, <2>1, <2>2, CapacityPositive
  <1> QED BY <1>1, <1>4, <1>10, <1>11, <1>12, <1>13, <1>14, <1>15, <1>16

\* Recording overwrites exactly the oldest entry (RequestCache::record).
LEMMA RecordRing ==
  ASSUME Inv, NEW id \in RequestIds, NEW fp \in Fingerprints, NEW outcome \in Outcomes,
         RecordResult(id, fp, outcome)
  PROVE  RingHoldsRecent'
  <1>1. PICK n : n = Len(log)
    OBVIOUS
  <1> DEFINE entry == [request_id |-> id, fingerprint |-> fp, outcome |-> outcome]
  <1>2. TypeOK /\ RingHoldsRecent
    BY DEF Inv
  <1>3. /\ \A k \in Recent' : k \in Recent \/ k = n + 1
        /\ n + 1 \in Recent'
        /\ SlotOf(n + 1)' = cache.next
        /\ \A k \in Recent : /\ k \in Recent' => SlotOf(k)' = SlotOf(k) /\ SlotOf(k) # cache.next
                             /\ k \notin Recent' => SlotOf(k) = cache.next
        /\ \A k \in Recent : log'[k] = log[k]
        /\ log'[n + 1] = entry
    BY <1>1, <1>2, RecordMoves
  <1>4. \A k \in Recent : SlotOf(k) \in Slots
    BY <1>2, SlotsInRing
  <1>5. /\ cache.next \in Slots
        /\ cache'.entries[cache.next] = entry
        /\ \A s \in Slots : s # cache.next => cache'.entries[s] = cache.entries[s]
    BY <1>2 DEF RecordResult, Record, TypeOK, RequestCaches
  <1>6. ASSUME NEW k \in Recent'
        PROVE  cache'.entries[SlotOf(k)'] = log'[k]
    <2>1. CASE k = n + 1
      BY <1>3, <1>5, <2>1
    <2>2. CASE k # n + 1
      BY <1>2, <1>3, <1>4, <1>5, <2>2 DEF RingHoldsRecent
    <2> QED BY <2>1, <2>2
  <1>7. ASSUME NEW s \in Slots
        PROVE  cache'.entries[s] = NoEntry \/ \E k \in Recent' : s = SlotOf(k)'
    <2>1. CASE s = cache.next
      BY <1>3, <2>1
    <2>2. CASE s # cache.next
      BY <1>2, <1>3, <1>5, <2>2 DEF RingHoldsRecent
    <2> QED BY <2>1, <2>2
  <1> QED BY <1>6, <1>7 DEF RingHoldsRecent, Slots, Capacity

\* Recording indexes the new entry and drops the index of the one it evicts, and
\* only when that index leads there (RequestCache::record).
LEMMA RecordIndex ==
  ASSUME Inv, NEW id \in RequestIds, NEW fp \in Fingerprints, NEW outcome \in Outcomes,
         RecordResult(id, fp, outcome)
  PROVE  IndexIsLatest'
  <1>1. PICK n : n = Len(log)
    OBVIOUS
  <1> DEFINE entry == [request_id |-> id, fingerprint |-> fp, outcome |-> outcome]
  <1>2. TypeOK /\ RingHoldsRecent /\ IndexIsLatest
    BY DEF Inv
  <1>3. /\ \A k \in Recent' : k \in Recent \/ k = n + 1
        /\ n + 1 \in Recent' /\ n \in Nat
        /\ \A k \in Recent : k \in Int /\ k <= n
        /\ \A j, k \in Recent : j \in Recent' /\ k \notin Recent' => k < j
        /\ SlotOf(n + 1)' = cache.next
        /\ \A k \in Recent : /\ k \in Recent' => SlotOf(k)' = SlotOf(k) /\ SlotOf(k) # cache.next
                             /\ k \notin Recent' => SlotOf(k) = cache.next
        /\ \A k \in Recent : log'[k] = log[k]
        /\ log'[n + 1] = entry
    BY <1>1, <1>2, RecordMoves
  <1>4. \A j, k \in Recent : SlotOf(j) = SlotOf(k) => j = k
    BY <1>2, SlotsInRing
  <1>5. /\ cache.next \in Slots
        /\ cache.index \in [RequestIds -> Slots \cup {NoSlot}]
        /\ cache.next # NoSlot
    BY <1>2, CapacityPositive DEF TypeOK, RequestCaches, Slots, NoSlot
  <1>6. cache'.index[id] = cache.next
    BY <1>5 DEF RecordResult, Record, EvictedIndex
  <1>7. Held(id)' = {k \in Recent' : log'[k].request_id = id}
    BY DEF Held
  <1>8. ASSUME NEW other \in RequestIds, other # id
        PROVE  /\ cache'.index[other] = NoSlot => Held(other)' = {}
               /\ cache'.index[other] # NoSlot =>
                    \E k \in Held(other)' : /\ cache'.index[other] = SlotOf(k)'
                                            /\ \A j \in Held(other)' : j <= k
    <2>1. \A k : k \in Held(other)' <=> k \in Recent /\ k \in Recent' /\ log[k].request_id = other
      BY <1>3, <1>8 DEF Held
    <2>2. cache'.index[other] = EvictedIndex(cache)[other]
      BY <1>5, <1>8 DEF RecordResult, Record, EvictedIndex
    <2>3. CASE cache.index[other] = NoSlot
      <3>1. cache'.index[other] = NoSlot
        BY <1>5, <2>2, <2>3 DEF EvictedIndex
      <3> QED BY <1>2, <2>1, <2>3, <3>1 DEF IndexIsLatest, Held
    <2>4. CASE cache.index[other] # NoSlot /\ cache.index[other] # cache.next
      <3>1. cache'.index[other] = cache.index[other]
        BY <1>5, <2>2, <2>4 DEF EvictedIndex
      <3>2. PICK k \in Held(other) : /\ cache.index[other] = SlotOf(k)
                                     /\ \A j \in Held(other) : j <= k
        BY <1>2, <2>4 DEF IndexIsLatest
      <3>3. k \in Held(other)'
        BY <1>3, <2>1, <2>4, <3>2 DEF Held
      <3> QED BY <1>3, <2>1, <2>4, <3>1, <3>2, <3>3 DEF Held
    <2>5. CASE cache.index[other] = cache.next
      <3>1. PICK k \in Held(other) : /\ cache.index[other] = SlotOf(k)
                                     /\ \A j \in Held(other) : j <= k
        BY <1>2, <1>5, <2>5 DEF IndexIsLatest
      <3>2. k \in Recent /\ k \notin Recent' /\ log[k].request_id = other
        BY <1>3, <2>5, <3>1 DEF Held
      <3>3. cache.entries[cache.next] = log[k]
        BY <1>2, <2>5, <3>1, <3>2 DEF RingHoldsRecent
      <3>4. log[k] \in CachedRequest
        BY <1>2, <3>2 DEF TypeOK, Recent
      <3>5. cache'.index[other] = NoSlot
        BY <1>5, <2>2, <2>5, <3>2, <3>3, <3>4, NoEntryAssumption DEF EvictedIndex
      <3>6. \A j \in Recent : log[j].request_id = other /\ j \in Recent' => FALSE
        BY <1>3, <3>1, <3>2 DEF Held
      <3> QED BY <2>1, <3>5, <3>6
    <2> QED BY <2>3, <2>4, <2>5
  <1>9. /\ n + 1 \in Held(id)' /\ cache'.index[id] = SlotOf(n + 1)'
        /\ \A j \in Held(id)' : j <= n + 1
    BY <1>3, <1>6, <1>7
  <1>10. ASSUME NEW other \in RequestIds
         PROVE  /\ cache'.index[other] = NoSlot => Held(other)' = {}
                /\ cache'.index[other] # NoSlot =>
                    \E k \in Held(other)' : /\ cache'.index[other] = SlotOf(k)'
                                            /\ \A j \in Held(other)' : j <= k
    BY <1>5, <1>6, <1>8, <1>9
  <1> QED BY <1>10 DEF IndexIsLatest, NoSlot

-----------------------------------------------------------------------------

\* Every step keeps the inductive invariant.
LEMMA StepInv == Inv /\ [Next]_vars => Inv'
  <1> SUFFICES ASSUME Inv, [Next]_vars PROVE Inv'
    OBVIOUS
  <1>1. ASSUME UNCHANGED vars PROVE Inv'
    BY <1>1 DEF vars, Inv, TypeOK, RingHoldsRecent, IndexIsLatest, Held, SlotOf, Recent
  <1>2. ASSUME NEW id \in RequestIds, NEW fp \in Fingerprints, Retry(id, fp)
        PROVE  Inv'
    BY <1>1, <1>2 DEF Retry
  <1>3. ASSUME NEW id \in RequestIds, NEW fp \in Fingerprints, NEW outcome \in Outcomes,
               RecordResult(id, fp, outcome)
        PROVE  Inv'
    BY <1>3, RecordType, RecordRing, RecordIndex DEF Inv
  <1> QED BY <1>1, <1>2, <1>3 DEF Next

\* The ring and the index are well typed: the write position always wraps.
THEOREM TypeCorrect == Spec => []TypeOK
  <1>1. Inv => TypeOK
    BY DEF Inv
  <1> QED BY <1>1, InitInv, StepInv, PTL DEF Spec

\* The index of RequestCache::record never leads to a slot reused for another
\* request, for any window, so lookup's stale-index check never refuses.
THEOREM IndexNeverStale == Spec => []IndexLeadsHome
  <1>1. ASSUME Inv PROVE IndexLeadsHome
    <2>1. ASSUME NEW id \in RequestIds, cache.index[id] # NoSlot
          PROVE  /\ cache.entries[cache.index[id]] # NoEntry
                 /\ cache.entries[cache.index[id]].request_id = id
      <3>1. PICK k \in Held(id) : cache.index[id] = SlotOf(k)
        BY <1>1, <2>1 DEF Inv, IndexIsLatest
      <3>2. cache.entries[SlotOf(k)] = log[k] /\ log[k].request_id = id
        BY <1>1 DEF Inv, RingHoldsRecent, Held
      <3>3. log[k] \in CachedRequest
        BY <1>1 DEF Inv, TypeOK, Held, Recent
      <3> QED BY <3>1, <3>2, <3>3, NoEntryAssumption
    <2> QED BY <2>1 DEF IndexLeadsHome
  <1> QED BY <1>1, InitInv, StepInv, PTL DEF Spec

\* Lookup answers from the latest of the last Capacity records of an id, and from
\* nothing else, for any window, any ids and any number of records.
THEOREM LookupCorrect == Spec => []LookupIsLatestRecent
  <1>1. ASSUME Inv PROVE LookupIsLatestRecent
    <2>1. ASSUME NEW id \in RequestIds
          PROVE  /\ Resolves(cache, id) <=> Held(id) # {}
                 /\ \A k \in Held(id) :
                      (\A j \in Held(id) : j <= k) => Entry(cache, id) = log[k]
      <3>1. CASE cache.index[id] = NoSlot
        BY <1>1, <3>1 DEF Inv, IndexIsLatest, Resolves
      <3>2. CASE cache.index[id] # NoSlot
        <4>1. PICK k \in Held(id) : /\ cache.index[id] = SlotOf(k)
                                    /\ \A j \in Held(id) : j <= k
          BY <1>1, <3>2 DEF Inv, IndexIsLatest
        <4>2. Entry(cache, id) = log[k] /\ log[k].request_id = id
          BY <1>1, <4>1 DEF Inv, RingHoldsRecent, Held, Entry
        <4>3. log[k] # NoEntry
          BY <1>1, NoEntryAssumption DEF Inv, TypeOK, Held, Recent
        <4>4. Resolves(cache, id)
          BY <3>2, <4>2, <4>3 DEF Resolves
        <4>5. \A j \in Held(id) : j \in Int
          BY <1>1, RecentAges DEF Inv, Held
        <4>6. ASSUME NEW j \in Held(id), \A i \in Held(id) : i <= j
              PROVE  j = k
          BY <4>1, <4>5, <4>6
        <4> QED BY <4>2, <4>4, <4>6
      <3> QED BY <3>1, <3>2
    <2> QED BY <2>1 DEF LookupIsLatestRecent, Held
  <1> QED BY <1>1, InitInv, StepInv, PTL DEF Spec

=============================================================================
