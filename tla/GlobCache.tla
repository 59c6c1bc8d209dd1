------------------------------ MODULE GlobCache ------------------------------
(***************************************************************************)
(* apparmor.matcherFor and the cache of analyzed patterns that every merge *)
(* of the process shares: a lookup under the read lock, the analysis under *)
(* no lock at all, and a second lookup, the eviction and the insertion     *)
(* under the write lock.                                                   *)
(***************************************************************************)
EXTENDS Integers, FiniteSetsExt

CONSTANTS
  Caller,         \* the goroutines that merge
  Path,           \* the paths they look up
  Length,         \* the bytes of each path
  Syntax,         \* the paths with pattern syntax, the only ones cached
  MaxPatternLen, MaxCacheEntries, MaxCacheBytes, EvictDivisor,
  None

ASSUME GlobCacheAssumption ==
  /\ None \notin Caller \cup Path
  /\ Length \in [Path -> Nat]
  /\ Syntax \subseteq Path
  /\ \A n \in {MaxPatternLen, MaxCacheEntries, MaxCacheBytes, EvictDivisor} :
       n \in Nat \ {0}
  /\ MaxPatternLen <= MaxCacheBytes
  /\ MaxCacheEntries \div EvictDivisor \in Nat \ {0}

VARIABLES
  pc,        \* where each goroutine is in matcherFor, "idle" outside of it
  path,      \* the path it looks up, None outside of it
  readers,   \* globCacheMu: the goroutines that hold it for reading
  writer,    \* globCacheMu: the one that holds it for writing, or waits for
             \* the readers to leave
  entries,   \* globCacheEntries: the patterns it has an analysis of
  bytes,     \* globCacheBytes
  quota      \* evictGlobCache's, in the hands of the writer

vars == <<pc, path, readers, writer, entries, bytes, quota>>

Stage == {"idle", "rlock", "lookup", "analyze", "lock", "drain", "recheck", "evict", "insert"}

\* The patterns that go through the cache.
Cacheable == {p \in Syntax : Length[p] <= MaxPatternLen}

Init ==
  /\ pc = [c \in Caller |-> "idle"]
  /\ path = [c \in Caller |-> None]
  /\ readers = {}
  /\ writer = None
  /\ entries = {}
  /\ bytes = 0
  /\ quota = 0

Goto(c, stage) ==
  /\ pc' = [pc EXCEPT ![c] = stage]
  /\ path' = [path EXCEPT ![c] = IF stage = "idle" THEN None ELSE @]

-----------------------------------------------------------------------------
\* A literal, or a path over the length limit, is analyzed on the spot.
Call(c, p) ==
  /\ pc[c] = "idle"
  /\ IF p \in Cacheable
     THEN pc' = [pc EXCEPT ![c] = "rlock"] /\ path' = [path EXCEPT ![c] = p]
     ELSE UNCHANGED <<pc, path>>
  /\ UNCHANGED <<readers, writer, entries, bytes, quota>>

\* Fault: the first lookup takes no lock.
RLockNothing(c) ==
  /\ pc[c] = "rlock"
  /\ Goto(c, "lookup")
  /\ UNCHANGED <<readers, writer, entries, bytes, quota>>

\* A sync.RWMutex lets no reader in once a writer waits.
RLock(c) ==
  /\ pc[c] = "rlock"
  /\ writer = None
  /\ readers' = readers \cup {c}
  /\ Goto(c, "lookup")
  /\ UNCHANGED <<writer, entries, bytes, quota>>

\* Fault: a hit returns with the read lock held.
LookupKeepsLock(c) ==
  /\ pc[c] = "lookup"
  /\ Goto(c, IF path[c] \in entries THEN "idle" ELSE "analyze")
  /\ readers' = IF path[c] \in entries THEN readers ELSE readers \ {c}
  /\ UNCHANGED <<writer, entries, bytes, quota>>

\* A hit returns the cached analysis; either way the read lock is released.
Lookup(c) ==
  /\ pc[c] = "lookup"
  /\ Goto(c, IF path[c] \in entries THEN "idle" ELSE "analyze")
  /\ readers' = readers \ {c}
  /\ UNCHANGED <<writer, entries, bytes, quota>>

Analyze(c) ==
  /\ pc[c] = "analyze"
  /\ Goto(c, "lock")
  /\ UNCHANGED <<readers, writer, entries, bytes, quota>>

\* One writer at a time waits for the readers.
Lock(c) ==
  /\ pc[c] = "lock"
  /\ writer = None
  /\ writer' = c
  /\ Goto(c, "drain")
  /\ UNCHANGED <<readers, entries, bytes, quota>>

Locked(c) ==
  /\ pc[c] = "drain"
  /\ readers = {}
  /\ Goto(c, "recheck")
  /\ UNCHANGED <<readers, writer, entries, bytes, quota>>

\* Another goroutine analyzed the pattern in the meantime: its analysis is
\* returned and the fresh one dropped.
RecheckHit(c) ==
  /\ pc[c] = "recheck"
  /\ path[c] \in entries
  /\ writer' = None
  /\ Goto(c, "idle")
  /\ UNCHANGED <<readers, entries, bytes, quota>>

OverCount == Cardinality(entries) >= MaxCacheEntries
Fits(c) == bytes + Length[path[c]] <= MaxCacheBytes

\* Fault: what the first lookup found is taken to hold still.
RecheckNothing(c) ==
  /\ pc[c] = "recheck"
  /\ quota' = IF OverCount THEN MaxCacheEntries \div EvictDivisor ELSE 0
  /\ Goto(c, IF OverCount \/ ~Fits(c) THEN "evict" ELSE "insert")
  /\ UNCHANGED <<readers, writer, entries, bytes>>

\* A full cache makes room before the insertion.
RecheckMiss(c) ==
  /\ pc[c] = "recheck"
  /\ path[c] \notin entries
  /\ quota' = IF OverCount THEN MaxCacheEntries \div EvictDivisor ELSE 0
  /\ Goto(c, IF OverCount \/ ~Fits(c) THEN "evict" ELSE "insert")
  /\ UNCHANGED <<readers, writer, entries, bytes>>

\* One iteration over the map, whose order is arbitrary.
EvictOne(c) ==
  /\ pc[c] = "evict"
  /\ ~(quota <= 0 /\ Fits(c))
  /\ \E victim \in entries :
       /\ entries' = entries \ {victim}
       /\ bytes' = bytes - Length[victim]
  /\ quota' = quota - 1
  /\ UNCHANGED <<pc, path, readers, writer>>

EvictDone(c) ==
  /\ pc[c] = "evict"
  /\ entries = {} \/ (quota <= 0 /\ Fits(c))
  /\ Goto(c, "insert")
  /\ UNCHANGED <<readers, writer, entries, bytes, quota>>

\* The insertion, and the deferred Unlock.
Insert(c) ==
  /\ pc[c] = "insert"
  /\ entries' = entries \cup {path[c]}
  /\ bytes' = bytes + Length[path[c]]
  /\ writer' = None
  /\ quota' = 0
  /\ Goto(c, "idle")
  /\ UNCHANGED readers

Step(c) ==
  \/ Lookup(c) \/ Analyze(c) \/ Locked(c) \/ RecheckHit(c) \/ RecheckMiss(c)
  \/ EvictOne(c) \/ EvictDone(c) \/ Insert(c)

Next == \E c \in Caller :
  \/ \E p \in Path : Call(c, p)
  \/ RLock(c) \/ Lock(c) \/ Step(c)

Spec == Init /\ [][Next]_vars

\* A goroutine inside matcherFor is scheduled, and a sync.RWMutex starves
\* neither readers nor writers.  Nothing makes a goroutine look up a path.
Fairness == \A c \in Caller : WF_vars(Step(c)) /\ SF_vars(RLock(c) \/ Lock(c))

FairSpec == Spec /\ Fairness

-----------------------------------------------------------------------------
(* Properties *)

InWriteSection(c) == pc[c] \in {"recheck", "evict", "insert"}

\* Nobody touches the map while one goroutine may write it: a Go map read
\* during a write takes the process down.
MapIsNeverRaced ==
  \A c, d \in Caller :
    InWriteSection(c) /\ c # d => pc[d] # "lookup" /\ ~InWriteSection(d)

\* The cache exceeds neither its entry bound nor its byte bound, whatever
\* patterns are looked up: the bytes it counts are those it holds, though a
\* pattern may have been inserted since this goroutine missed it.
EntriesStayBounded == Cardinality(entries) <= MaxCacheEntries

CacheStaysBounded ==
  /\ bytes = MapThenSumSet(LAMBDA p : Length[p], entries)
  /\ EntriesStayBounded /\ bytes <= MaxCacheBytes

\* Every lookup returns: eviction ends, and no path through matcherFor leaves
\* the lock held.
LookupsReturn == \A c \in Caller : pc[c] # "idle" ~> pc[c] = "idle"
=============================================================================
