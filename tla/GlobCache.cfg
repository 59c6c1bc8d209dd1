CONSTANTS
  Caller = {c1, c2, c3}
  Path <- MCPath
  Length <- MCLength
  Syntax <- MCSyntax
  MaxPatternLen = 6
  MaxCacheEntries = 2
  MaxCacheBytes = 6
  EvictDivisor = 2
  None = None
SPECIFICATION FairSpec
INVARIANTS
  MapIsNeverRaced
  CacheStaysBounded
PROPERTIES
  LookupsReturn
