--------------------------- MODULE GlobCacheProofs ---------------------------
(***************************************************************************)
(* The glob cache is free of races for any number of goroutines and any    *)
(* paths, the lock being held exactly where matcherFor touches the map, and *)
(* never holds more patterns than its bound.                               *)
(***************************************************************************)
EXTENDS GlobCache, FoldLemmas

\* The read lock is held between RLock and RUnlock, the write lock between
\* Lock and the deferred Unlock, and they exclude each other.
LockInv ==
  /\ pc \in [Caller -> Stage]
  /\ readers \subseteq Caller
  /\ \A c \in Caller : c \in readers <=> pc[c] = "lookup"
  /\ \A c \in Caller : writer = c <=> pc[c] = "drain" \/ InWriteSection(c)
  /\ (\E c \in Caller : InWriteSection(c)) => readers = {}

LEMMA LockInit == Init => LockInv
  BY GlobCacheAssumption DEF Init, LockInv, Stage, InWriteSection

LEMMA LockStep == LockInv /\ [Next]_vars => LockInv'
<1> SUFFICES ASSUME LockInv, [Next]_vars PROVE LockInv'
  OBVIOUS
<1> USE GlobCacheAssumption DEF LockInv, Stage, InWriteSection, Goto
<1>1. ASSUME NEW c \in Caller, NEW p \in Path, Call(c, p) PROVE LockInv'
  BY <1>1 DEF Call
<1>2. ASSUME NEW c \in Caller, RLock(c) PROVE LockInv'
  BY <1>2 DEF RLock
<1>3. ASSUME NEW c \in Caller, Lookup(c) PROVE LockInv'
  BY <1>3 DEF Lookup
<1>4. ASSUME NEW c \in Caller, Analyze(c) PROVE LockInv'
  BY <1>4 DEF Analyze
<1>5. ASSUME NEW c \in Caller, Lock(c) PROVE LockInv'
  BY <1>5 DEF Lock
<1>12. ASSUME NEW c \in Caller, Locked(c) PROVE LockInv'
  BY <1>12 DEF Locked
<1>6. ASSUME NEW c \in Caller, RecheckHit(c) PROVE LockInv'
  BY <1>6 DEF RecheckHit
<1>7. ASSUME NEW c \in Caller, RecheckMiss(c) PROVE LockInv'
  BY <1>7 DEF RecheckMiss
<1>8. ASSUME NEW c \in Caller, EvictOne(c) PROVE LockInv'
  BY <1>8 DEF EvictOne
<1>9. ASSUME NEW c \in Caller, EvictDone(c) PROVE LockInv'
  BY <1>9 DEF EvictDone
<1>10. ASSUME NEW c \in Caller, Insert(c) PROVE LockInv'
  BY <1>10 DEF Insert
<1>11. CASE UNCHANGED vars
  BY <1>11 DEF vars
<1> QED
  BY <1>1, <1>2, <1>3, <1>4, <1>5, <1>6, <1>7, <1>8, <1>9, <1>10, <1>11, <1>12 DEF Next, Step

\* However many goroutines merge at once, none reads globCacheEntries while
\* another one is between Lock and Unlock, and no two of them write it.
THEOREM NoRace == Spec => []MapIsNeverRaced
<1>1. LockInv => MapIsNeverRaced
  BY GlobCacheAssumption DEF LockInv, MapIsNeverRaced, InWriteSection
<1>2. Spec => []LockInv
  BY LockInit, LockStep, PTL DEF Spec
<1> QED
  BY <1>1, <1>2, PTL

-----------------------------------------------------------------------------
(* The bound on entries *)

\* A goroutine that is about to insert has left room for its pattern: it
\* evicts at least one entry of a full cache, and nobody else inserts before
\* it has.
CountInv ==
  /\ IsFiniteSet(entries)
  /\ quota \in Int
  /\ Cardinality(entries) <= MaxCacheEntries
  /\ \A c \in Caller :
       /\ pc[c] = "evict" => quota >= 1 \/ Cardinality(entries) < MaxCacheEntries
       /\ pc[c] = "insert" => Cardinality(entries) < MaxCacheEntries

LEMMA CountInit == Init => CountInv
  BY GlobCacheAssumption, FS_EmptySet DEF Init, CountInv

LEMMA CountKept ==
  ASSUME LockInv, CountInv, UNCHANGED <<entries, quota>>, NEW c \in Caller, NEW stage \in Stage,
         Goto(c, stage), stage \notin {"evict", "insert"}
  PROVE  CountInv'
  BY DEF LockInv, CountInv, Goto

\* The goroutines that are not in the write section look at neither.
LEMMA OthersAreOutside ==
  ASSUME LockInv, NEW c \in Caller, InWriteSection(c), NEW d \in Caller, d # c
  PROVE  pc[d] \notin {"evict", "insert"}
  BY GlobCacheAssumption DEF LockInv, InWriteSection

LEMMA CountRecheck ==
  ASSUME LockInv, CountInv, NEW c \in Caller, RecheckMiss(c) PROVE CountInv'
<1>1. /\ Cardinality(entries) \in Nat /\ MaxCacheEntries \in Nat
      /\ MaxCacheEntries \div EvictDivisor \in Nat \ {0}
  BY GlobCacheAssumption, FS_CardinalityType DEF CountInv
<1>2. /\ entries' = entries
      /\ quota' = IF OverCount THEN MaxCacheEntries \div EvictDivisor ELSE 0
      /\ pc' = [pc EXCEPT ![c] = IF OverCount \/ ~Fits(c) THEN "evict" ELSE "insert"]
      /\ InWriteSection(c)
  BY DEF RecheckMiss, Goto, InWriteSection
<1>3. \A d \in Caller : d # c => pc'[d] \notin {"evict", "insert"}
  BY <1>2, OthersAreOutside DEF LockInv
<1>4. quota' \in Int /\ (OverCount => quota' >= 1)
  BY <1>1, <1>2
<1>5. ~OverCount => Cardinality(entries) < MaxCacheEntries
  BY <1>1 DEF OverCount
<1>6. pc'[c] = IF OverCount \/ ~Fits(c) THEN "evict" ELSE "insert"
  BY <1>2 DEF LockInv
<1> QED
  BY <1>2, <1>3, <1>4, <1>5, <1>6 DEF CountInv

LEMMA CountEvict ==
  ASSUME LockInv, CountInv, NEW c \in Caller, EvictOne(c) PROVE CountInv'
<1>1. PICK victim \in entries : entries' = entries \ {victim}
  BY DEF EvictOne
<1>2. /\ IsFiniteSet(entries') /\ Cardinality(entries) \in Nat /\ MaxCacheEntries \in Nat
      /\ Cardinality(entries') = Cardinality(entries) - 1
  BY <1>1, GlobCacheAssumption, FS_RemoveElement, FS_CardinalityType DEF CountInv
<1> QED
  BY <1>2 DEF CountInv, EvictOne

LEMMA CountEvicted ==
  ASSUME LockInv, CountInv, NEW c \in Caller, EvictDone(c) PROVE CountInv'
<1>1. Cardinality(entries) < MaxCacheEntries
  <2>1. entries = {} => Cardinality(entries) < MaxCacheEntries
    BY GlobCacheAssumption, FS_EmptySet
  <2>2. quota <= 0 => Cardinality(entries) < MaxCacheEntries
    BY DEF CountInv, EvictDone
  <2> QED
    BY <2>1, <2>2 DEF EvictDone
<1>2. UNCHANGED <<entries, quota>> /\ pc' = [pc EXCEPT ![c] = "insert"]
  BY DEF EvictDone, Goto
<1> QED
  BY <1>1, <1>2 DEF CountInv, LockInv

LEMMA CountInsert ==
  ASSUME LockInv, CountInv, NEW c \in Caller, Insert(c) PROVE CountInv'
<1>1. entries' = entries \cup {path[c]} /\ quota' = 0 /\ pc' = [pc EXCEPT ![c] = "idle"]
      /\ InWriteSection(c) /\ Cardinality(entries) < MaxCacheEntries
  BY DEF Insert, Goto, InWriteSection, CountInv
<1>2. /\ IsFiniteSet(entries') /\ Cardinality(entries) \in Nat /\ MaxCacheEntries \in Nat
      /\ Cardinality(entries') \in {Cardinality(entries), Cardinality(entries) + 1}
  BY <1>1, GlobCacheAssumption, FS_AddElement, FS_CardinalityType DEF CountInv
<1>3. \A d \in Caller : pc'[d] \notin {"evict", "insert"}
  BY <1>1, OthersAreOutside DEF LockInv
<1> QED
  BY <1>1, <1>2, <1>3 DEF CountInv

LEMMA CountStep == LockInv /\ CountInv /\ [Next]_vars => CountInv'
<1> SUFFICES ASSUME LockInv, CountInv, [Next]_vars PROVE CountInv'
  OBVIOUS
<1>1. ASSUME NEW c \in Caller, NEW p \in Path, Call(c, p) PROVE CountInv'
  BY <1>1 DEF Call, CountInv, LockInv
<1>2. ASSUME NEW c \in Caller,
             RLock(c) \/ Lookup(c) \/ Analyze(c) \/ Lock(c) \/ Locked(c) \/ RecheckHit(c)
      PROVE  CountInv'
  BY <1>2, CountKept DEF RLock, Lookup, Analyze, Lock, Locked, RecheckHit, Stage
<1>3. ASSUME NEW c \in Caller, RecheckMiss(c) \/ EvictOne(c) \/ EvictDone(c) \/ Insert(c)
      PROVE  CountInv'
  BY <1>3, CountRecheck, CountEvict, CountEvicted, CountInsert
<1>4. CASE UNCHANGED vars
  BY <1>4 DEF vars, CountInv
<1> QED
  BY <1>1, <1>2, <1>3, <1>4 DEF Next, Step

\* However many goroutines insert at once, the cache never holds more than
\* maxGlobCacheEntries patterns.
THEOREM EntriesBounded == Spec => []EntriesStayBounded
<1>1. CountInv => EntriesStayBounded
  BY DEF CountInv, EntriesStayBounded
<1> QED
  BY <1>1, LockInit, LockStep, CountInit, CountStep, PTL DEF Spec

-----------------------------------------------------------------------------
(* The bound on bytes *)

\* The bytes counted are those of the patterns held.  A goroutine looks up one
\* cacheable pattern; nobody inserts it between its recheck and its insertion,
\* for which there is room.
BytesInv ==
  /\ entries \in SUBSET Cacheable
  /\ \A c \in Caller : pc[c] # "idle" => path[c] \in Cacheable
  /\ path \in [Caller -> Path \cup {None}]
  /\ bytes = Total(Length, entries)
  /\ bytes <= MaxCacheBytes
  /\ \A c \in Caller :
       /\ pc[c] \in {"evict", "insert"} => path[c] \notin entries
       /\ pc[c] = "insert" => Fits(c)

LEMMA CacheableFacts ==
  /\ Cacheable \in SUBSET Path
  /\ Length \in [Path -> Nat]
  /\ MaxCacheBytes \in Nat
  /\ \A p \in Cacheable : p \in Path /\ Length[p] \in Nat /\ Length[p] <= MaxCacheBytes
<1>1. \A p \in Cacheable : p \in Path /\ Length[p] \in Nat /\ Length[p] <= MaxPatternLen
  BY GlobCacheAssumption DEF Cacheable
<1>2. MaxPatternLen \in Nat /\ MaxCacheBytes \in Nat /\ MaxPatternLen <= MaxCacheBytes
  BY GlobCacheAssumption
<1> QED
  BY <1>1, <1>2, GlobCacheAssumption DEF Cacheable

LEMMA BytesInit == Init => BytesInv
<1>1. Total(Length, {}) = 0
  BY CacheableFacts, FS_EmptySet, TotalFacts
<1> QED
  BY <1>1, CacheableFacts DEF Init, BytesInv

\* The bytes an eviction gives back were counted.
LEMMA BytesEvict ==
  ASSUME LockInv, CountInv, BytesInv, NEW c \in Caller, EvictOne(c) PROVE BytesInv'
<1>1. PICK victim \in entries : /\ entries' = entries \ {victim}
                                /\ bytes' = bytes - Length[victim]
  BY DEF EvictOne
<1>2. /\ entries \in SUBSET Path /\ IsFiniteSet(entries) /\ IsFiniteSet(entries \ {victim})
      /\ (entries \ {victim}) \in SUBSET Path
  BY CacheableFacts, FS_RemoveElement DEF BytesInv, CountInv
<1>3. /\ Total(Length, entries) = Length[victim] + Total(Length, entries \ {victim})
      /\ Total(Length, entries \ {victim}) \in Nat
      /\ Length[victim] \in Nat
  <2>1. Total(Length, entries) = Length[victim] + Total(Length, entries \ {victim})
    BY <1>2, CacheableFacts, TotalRemove
  <2>2. Total(Length, entries \ {victim}) \in Nat
    BY <1>2, CacheableFacts, TotalFacts
  <2> QED
    BY <1>2, <2>1, <2>2, CacheableFacts
<1>4. bytes' = Total(Length, entries') /\ bytes' <= MaxCacheBytes
  BY <1>1, <1>3, CacheableFacts DEF BytesInv
<1>5. UNCHANGED <<pc, path>> /\ pc[c] = "evict"
  BY DEF EvictOne
<1>6. \A d \in Caller : pc[d] # "insert"
  BY <1>5, OthersAreOutside DEF InWriteSection
<1> QED
  BY <1>1, <1>4, <1>5, <1>6 DEF BytesInv

LEMMA BytesRecheck ==
  ASSUME LockInv, CountInv, BytesInv, NEW c \in Caller, RecheckMiss(c) PROVE BytesInv'
<1>1. /\ UNCHANGED <<entries, bytes>> /\ pc[c] = "recheck" /\ path[c] \notin entries
      /\ path' = path
      /\ pc' = [pc EXCEPT ![c] = IF OverCount \/ ~Fits(c) THEN "evict" ELSE "insert"]
  BY DEF RecheckMiss, Goto, BytesInv
<1>2. \A d \in Caller : d # c => pc'[d] = pc[d] /\ pc[d] \notin {"evict", "insert"}
  BY <1>1, OthersAreOutside DEF LockInv, InWriteSection
<1>3. pc'[c] \in {"evict", "insert"} /\ (pc'[c] = "insert" => Fits(c))
  BY <1>1 DEF LockInv
<1> QED
  BY <1>1, <1>2, <1>3 DEF BytesInv, Fits

\* An empty cache has room for any cacheable pattern.
LEMMA BytesEvicted ==
  ASSUME LockInv, CountInv, BytesInv, NEW c \in Caller, EvictDone(c) PROVE BytesInv'
<1>1. /\ UNCHANGED <<entries, bytes>> /\ pc[c] = "evict" /\ path' = path
      /\ pc' = [pc EXCEPT ![c] = "insert"]
  BY DEF EvictDone, Goto, BytesInv
<1>2. Fits(c)
  <2>1. ASSUME entries = {} PROVE Fits(c)
    <3>1. bytes = 0
      BY <2>1, CacheableFacts, FS_EmptySet, TotalFacts DEF BytesInv
    <3>2. path[c] \in Cacheable
      BY <1>1 DEF BytesInv
    <3> QED
      BY <3>1, <3>2, CacheableFacts DEF Fits
  <2> QED
    BY <2>1 DEF EvictDone
<1>3. \A d \in Caller : d # c => pc'[d] = pc[d] /\ pc[d] \notin {"evict", "insert"}
  BY <1>1, OthersAreOutside DEF LockInv, InWriteSection
<1> QED
  BY <1>1, <1>2, <1>3 DEF BytesInv, Fits

\* The pattern is not yet held, so its bytes are counted once.
LEMMA BytesInsert ==
  ASSUME LockInv, CountInv, BytesInv, NEW c \in Caller, Insert(c) PROVE BytesInv'
<1>1. /\ entries' = entries \cup {path[c]} /\ bytes' = bytes + Length[path[c]]
      /\ pc[c] = "insert"
      /\ pc' = [pc EXCEPT ![c] = "idle"] /\ path' = [path EXCEPT ![c] = None]
  BY DEF Insert, Goto
<1>2. path[c] \in Cacheable /\ path[c] \notin entries /\ Fits(c)
  BY <1>1 DEF BytesInv
<1>3. entries \in SUBSET Path /\ IsFiniteSet(entries) /\ path[c] \in Path \ entries
  BY <1>2, CacheableFacts DEF BytesInv, CountInv
<1>4. /\ Total(Length, entries \cup {path[c]}) = Length[path[c]] + Total(Length, entries)
      /\ Total(Length, entries) \in Nat /\ Length[path[c]] \in Nat
  <2>1. Total(Length, entries \cup {path[c]}) = Length[path[c]] + Total(Length, entries)
    BY <1>3, CacheableFacts, TotalAdd
  <2>2. Total(Length, entries) \in Nat
    BY <1>3, CacheableFacts, TotalFacts
  <2> QED
    BY <1>2, <2>1, <2>2, CacheableFacts
<1>5. bytes' = Total(Length, entries') /\ bytes' <= MaxCacheBytes
  BY <1>1, <1>2, <1>4, CacheableFacts DEF BytesInv, Fits
<1>6. \A d \in Caller : pc'[d] \notin {"evict", "insert"}
  BY <1>1, OthersAreOutside DEF LockInv, InWriteSection
<1>7. \A d \in Caller : pc'[d] # "idle" => path'[d] \in Cacheable
  BY <1>1 DEF BytesInv, LockInv
<1>8. entries' \in SUBSET Cacheable /\ path' \in [Caller -> Path \cup {None}]
  BY <1>1, <1>2 DEF BytesInv
<1> QED
  BY <1>5, <1>6, <1>7, <1>8 DEF BytesInv

LEMMA BytesStep == LockInv /\ CountInv /\ BytesInv /\ [Next]_vars => BytesInv'
<1> SUFFICES ASSUME LockInv, CountInv, BytesInv, [Next]_vars PROVE BytesInv'
  OBVIOUS
<1>1. ASSUME NEW c \in Caller, NEW p \in Path, Call(c, p) PROVE BytesInv'
  BY <1>1, CacheableFacts DEF Call, BytesInv, LockInv, Fits
<1>2. ASSUME NEW c \in Caller,
             RLock(c) \/ Lookup(c) \/ Analyze(c) \/ Lock(c) \/ Locked(c) \/ RecheckHit(c)
      PROVE  BytesInv'
  <2>1. PICK stage \in Stage \ {"evict", "insert"} : Goto(c, stage) /\ pc[c] # "idle"
    BY <1>2 DEF RLock, Lookup, Analyze, Lock, Locked, RecheckHit, Stage
  <2>2. UNCHANGED <<entries, bytes>>
    BY <1>2 DEF RLock, Lookup, Analyze, Lock, Locked, RecheckHit
  <2>3. \A d \in Caller :
          /\ pc'[d] \in {"evict", "insert"} => pc'[d] = pc[d] /\ path'[d] = path[d]
          /\ pc'[d] # "idle" => path'[d] = path[d] /\ pc[d] # "idle"
    BY <2>1 DEF Goto, LockInv, BytesInv
  <2>4. path' \in [Caller -> Path \cup {None}]
    BY <2>1 DEF Goto, BytesInv
  <2> QED
    BY <2>2, <2>3, <2>4 DEF BytesInv, Fits
<1>3. ASSUME NEW c \in Caller, RecheckMiss(c) \/ EvictOne(c) \/ EvictDone(c) \/ Insert(c)
      PROVE  BytesInv'
  BY <1>3, BytesRecheck, BytesEvict, BytesEvicted, BytesInsert
<1>4. CASE UNCHANGED vars
  BY <1>4 DEF vars, BytesInv, Fits
<1> QED
  BY <1>1, <1>2, <1>3, <1>4 DEF Next, Step

\* However many goroutines insert at once, globCacheBytes is the size of the
\* patterns held, and neither it nor their number exceeds its bound: no
\* pattern is counted twice by two goroutines that both missed it.
THEOREM CacheIsBounded == Spec => []CacheStaysBounded
<1>1. CountInv /\ BytesInv => CacheStaysBounded
  BY DEF CountInv, BytesInv, CacheStaysBounded, EntriesStayBounded, Total
<1> QED
  BY <1>1, LockInit, LockStep, CountInit, CountStep, BytesInit, BytesStep, PTL DEF Spec
=============================================================================
