\* Four texts for a cache of two, and calls of up to two texts.
CONSTANTS
  Threads = {t1, t2}
  Texts = {a, b, c, d}
  CacheSize = 2
  MaxTexts = 2
  MaxCalls = 3
  Faults = {"error", "uneven"}
  Missing = Missing
  Nobody = Nobody
SYMMETRY Alike
SPECIFICATION Spec
INVARIANTS
  CacheInv
  LatestUsesAreKept
  ExcessIsOfFailedCalls
\* Calls are bounded here; the service would go on.
CHECK_DEADLOCK FALSE
