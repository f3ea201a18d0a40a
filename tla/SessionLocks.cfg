\* Three threads on two sessions; a lock object per thread is all that can be
\* in use at once.  Two calls each: an entry is removed and made again.
CONSTANTS
  Threads = {t1, t2, t3}
  Sessions = {s1, s2}
  Locks = {l1, l2, l3}
  NoThread = NoThread
  NoLock = NoLock
  MaxHolds = 2
SPECIFICATION FairSpec
INVARIANTS
  EntriesInv
  MutualExclusion
  EntriesExactlyInUse
PROPERTIES
  ImplementsMutex
  EveryWaiterIsServed
