------------------------- MODULE SessionLocksProofs -------------------------
(***************************************************************************)
(* Proofs about SessionLocks, for any finite set of threads and any        *)
(* sessions: the dictionary invariant, mutual exclusion per session, that  *)
(* entries are in the dictionary exactly while in use, and that the        *)
(* coordinator implements SessionMutex.                                    *)
(***************************************************************************)
EXTENDS SessionLocks, FiniteSetTheorems, TLAPS

(* The users of a lock object are finitely many, and change only where a   *)
(* thread registers or unregisters.                                        *)
LEMMA UsersFinite ==
  ASSUME NEW l
  PROVE  /\ IsFiniteSet(UsersOf(l))
         /\ Cardinality(UsersOf(l)) \in Nat
<1>1. UsersOf(l) \subseteq Threads
  BY DEF UsersOf
<1>2. QED
  BY <1>1, FS_Subset, FS_CardinalityType,
     SessionLocksAssumption DEF SessionLocksAssumption

LEMMA InitEstablishesInv == Init => EntriesInv
<1> SUFFICES ASSUME Init PROVE EntriesInv
  OBVIOUS
<1>1. TypeOK
  BY SessionLocksAssumption DEF Init, TypeOK, Labels, SessionLocksAssumption
<1>2. GuardHeld /\ EntryOfCaller /\ OneSessionPerEntry /\ LockHeld /\ UsersCounted /\ EntryHasUser
  BY SessionLocksAssumption DEF Init, GuardHeld, EntryOfCaller, OneSessionPerEntry,
     LockHeld, UsersCounted,
     EntryHasUser, Guarded, Registered, SessionLocksAssumption
<1>3. QED
  BY <1>1, <1>2 DEF EntriesInv

LEMMA EnterHoldKeepsInv ==
  ASSUME NEW t \in Threads, NEW s \in Sessions, EntriesInv, EnterHold(t, s)
  PROVE  EntriesInv'
<1> USE SessionLocksAssumption DEF EntriesInv, SessionLocksAssumption
<1>1. TypeOK'
  BY DEF EnterHold, TypeOK, Labels, Guarded, Registered, Goto
<1>2. GuardHeld'
  BY DEF EnterHold, TypeOK, GuardHeld, Guarded, Goto
<1>3. EntryOfCaller'
  BY DEF EnterHold, TypeOK, GuardHeld, EntryOfCaller, Guarded, Registered, Labels, Goto
<1>4. OneSessionPerEntry'
  BY DEF EnterHold, TypeOK, OneSessionPerEntry, EntryOfCaller, Garbage, Goto
<1>5. LockHeld'
  BY DEF EnterHold, TypeOK, LockHeld, EntryOfCaller, Garbage, Registered, Goto
<1>6. UsersCounted'
  BY DEF EnterHold, TypeOK, UsersCounted, UsersOf, EntryOfCaller, GuardHeld,
         OneSessionPerEntry, Garbage, Guarded, Registered, Goto
<1>7. EntryHasUser'
  BY DEF EnterHold, TypeOK, EntryHasUser, EntryOfCaller, GuardHeld, Guarded,
         Registered, Garbage, Goto
<1>8. QED
  BY <1>1, <1>2, <1>3, <1>4, <1>5, <1>6, <1>7

LEMMA LookupKeepsInv ==
  ASSUME NEW t \in Threads, EntriesInv, Lookup(t)
  PROVE  EntriesInv'
<1> USE SessionLocksAssumption DEF EntriesInv, SessionLocksAssumption
<1>1. TypeOK'
  BY DEF Lookup, TypeOK, Labels, Guarded, Registered, Goto
<1>2. GuardHeld'
  BY DEF Lookup, TypeOK, GuardHeld, Guarded, Goto
<1>3. EntryOfCaller'
  BY DEF Lookup, TypeOK, GuardHeld, EntryOfCaller, Guarded, Registered, Labels, Goto
<1>4. OneSessionPerEntry'
  BY DEF Lookup, TypeOK, OneSessionPerEntry, EntryOfCaller, Garbage, Goto
<1>5. LockHeld'
  BY DEF Lookup, TypeOK, LockHeld, EntryOfCaller, Garbage, Registered, Goto
<1>6. UsersCounted'
  BY DEF Lookup, TypeOK, UsersCounted, UsersOf, EntryOfCaller, GuardHeld,
         OneSessionPerEntry, Garbage, Guarded, Registered, Goto
<1>7. EntryHasUser'
  BY DEF Lookup, TypeOK, EntryHasUser, EntryOfCaller, GuardHeld, Guarded, Registered,
         Garbage, Goto
<1>8. QED
  BY <1>1, <1>2, <1>3, <1>4, <1>5, <1>6, <1>7

LEMMA InstallKeepsInv ==
  ASSUME NEW t \in Threads, EntriesInv, Install(t)
  PROVE  EntriesInv'
<1> USE SessionLocksAssumption DEF EntriesInv, SessionLocksAssumption
<1>1. TypeOK'
  BY DEF Install, TypeOK, Labels, Guarded, Registered, Goto
<1>2. GuardHeld'
  BY DEF Install, TypeOK, GuardHeld, Guarded, Goto
<1>3. EntryOfCaller'
  BY DEF Install, TypeOK, GuardHeld, EntryOfCaller, Guarded, Registered, Labels, Goto
<1>4. OneSessionPerEntry'
  BY DEF Install, TypeOK, OneSessionPerEntry, EntryOfCaller, Garbage, Goto
<1>5. LockHeld'
  BY DEF Install, TypeOK, LockHeld, EntryOfCaller, Garbage, Registered, Goto
<1>6. UsersCounted'
  <2>1. \A l : UsersOf(l)' = UsersOf(l)
    BY DEF Install, TypeOK, UsersOf, Registered, Labels, Goto
  <2>2. CASE entry[t] # NoLock
    BY <2>1, <2>2 DEF Install, UsersCounted
  <2>3. CASE entry[t] = NoLock
    <3>1. PICK l \in Locks : /\ Garbage(l)
                             /\ entries' = [entries EXCEPT ![target[t]] = l]
                             /\ users' = [users EXCEPT ![l] = 0]
      BY <2>3 DEF Install
    <3>2. UsersOf(l) = {}
      BY <3>1 DEF UsersOf, Garbage
    <3>3. users'[l] = Cardinality(UsersOf(l))
      BY <3>1, <3>2, FS_EmptySet DEF TypeOK
    <3>4. \A s \in Sessions : s # target[t] => entries'[s] = entries[s] /\ entries[s] # l
      BY <3>1 DEF TypeOK, Garbage
    <3>5. entries'[target[t]] = l
      BY <3>1 DEF TypeOK
    <3>6. QED
      BY <2>1, <3>1, <3>3, <3>4, <3>5 DEF UsersCounted, TypeOK
  <2>4. QED
    BY <2>2, <2>3
<1>7. EntryHasUser'
  BY DEF Install, TypeOK, EntryHasUser, EntryOfCaller, GuardHeld, Guarded, Registered,
         Garbage, Goto
<1>8. QED
  BY <1>1, <1>2, <1>3, <1>4, <1>5, <1>6, <1>7

LEMMA CountKeepsInv ==
  ASSUME NEW t \in Threads, EntriesInv, Count(t)
  PROVE  EntriesInv'
<1> USE SessionLocksAssumption DEF EntriesInv, SessionLocksAssumption
<1>1. TypeOK'
  BY DEF Count, TypeOK, EntryOfCaller, Labels, Goto
<1>2. GuardHeld'
  BY DEF Count, TypeOK, GuardHeld, Guarded, Goto
<1>3. EntryOfCaller'
  BY DEF Count, TypeOK, GuardHeld, EntryOfCaller, Guarded, Registered, Labels, Goto
<1>4. OneSessionPerEntry'
  BY DEF Count, TypeOK, OneSessionPerEntry, EntryOfCaller, Garbage, Goto
<1>5. LockHeld'
  BY DEF Count, TypeOK, LockHeld, EntryOfCaller, Garbage, Registered, Goto
<1>6. UsersCounted'
  <2>1. PICK l \in Locks : l = entry[t]
    BY DEF Count, EntryOfCaller, Goto
  <2>2. t \notin UsersOf(l) /\ UsersOf(l)' = UsersOf(l) \cup {t}
    BY <2>1 DEF Count, TypeOK, UsersOf, Registered, Labels, Goto
  <2>3. \A k : k # l => UsersOf(k)' = UsersOf(k)
    BY <2>1 DEF Count, TypeOK, UsersOf, Registered, Labels, Goto
  <2>4. Cardinality(UsersOf(l)') = Cardinality(UsersOf(l)) + 1
    BY <2>2, UsersFinite, FS_AddElement
  <2>5. entries' = entries /\ users' = [users EXCEPT ![l] = @ + 1]
    BY <2>1 DEF Count
  <2>6. QED
    BY <2>3, <2>4, <2>5 DEF UsersCounted, TypeOK
<1>7. EntryHasUser'
  BY DEF Count, TypeOK, EntryHasUser, EntryOfCaller, GuardHeld, Guarded, Registered,
         Garbage, Goto
<1>8. QED
  BY <1>1, <1>2, <1>3, <1>4, <1>5, <1>6, <1>7

LEMMA AcquireLockKeepsInv ==
  ASSUME NEW t \in Threads, EntriesInv, AcquireLock(t)
  PROVE  EntriesInv'
<1> USE SessionLocksAssumption DEF EntriesInv, SessionLocksAssumption
<1>1. TypeOK'
  BY DEF AcquireLock, TypeOK, Labels, Guarded, Registered, Goto
<1>2. GuardHeld'
  BY DEF AcquireLock, TypeOK, GuardHeld, Guarded, Goto
<1>3. EntryOfCaller'
  BY DEF AcquireLock, TypeOK, GuardHeld, EntryOfCaller, Guarded, Registered, Labels, Goto
<1>4. OneSessionPerEntry'
  BY DEF AcquireLock, TypeOK, OneSessionPerEntry, EntryOfCaller, Garbage, Goto
<1>5. LockHeld'
  BY DEF AcquireLock, TypeOK, LockHeld, EntryOfCaller, Garbage, Registered, Goto
<1>6. UsersCounted'
  BY DEF AcquireLock, TypeOK, UsersCounted, UsersOf, EntryOfCaller, GuardHeld,
         OneSessionPerEntry, Garbage, Guarded, Registered, Goto
<1>7. EntryHasUser'
  BY DEF AcquireLock, TypeOK, EntryHasUser, EntryOfCaller, GuardHeld, Guarded,
         Registered, Garbage, Goto
<1>8. QED
  BY <1>1, <1>2, <1>3, <1>4, <1>5, <1>6, <1>7

LEMMA ReleaseLockKeepsInv ==
  ASSUME NEW t \in Threads, EntriesInv, ReleaseLock(t)
  PROVE  EntriesInv'
<1> USE SessionLocksAssumption DEF EntriesInv, SessionLocksAssumption
<1>1. TypeOK'
  BY DEF ReleaseLock, TypeOK, Labels, Guarded, Registered, Goto
<1>2. GuardHeld'
  BY DEF ReleaseLock, TypeOK, GuardHeld, Guarded, Goto
<1>3. EntryOfCaller'
  BY DEF ReleaseLock, TypeOK, GuardHeld, EntryOfCaller, Guarded, Registered, Labels, Goto
<1>4. OneSessionPerEntry'
  BY DEF ReleaseLock, TypeOK, OneSessionPerEntry, EntryOfCaller, Garbage, Goto
<1>5. LockHeld'
  BY DEF ReleaseLock, TypeOK, LockHeld, EntryOfCaller, Garbage, Registered, Goto
<1>6. UsersCounted'
  BY DEF ReleaseLock, TypeOK, UsersCounted, UsersOf, EntryOfCaller, GuardHeld,
         OneSessionPerEntry, Garbage, Guarded, Registered, Goto
<1>7. EntryHasUser'
  BY DEF ReleaseLock, TypeOK, EntryHasUser, EntryOfCaller, GuardHeld, Guarded,
         Registered, Garbage, Goto
<1>8. QED
  BY <1>1, <1>2, <1>3, <1>4, <1>5, <1>6, <1>7

LEMMA LeaveHoldKeepsInv ==
  ASSUME NEW t \in Threads, EntriesInv, LeaveHold(t)
  PROVE  EntriesInv'
<1> USE SessionLocksAssumption DEF EntriesInv, SessionLocksAssumption
<1>1. TypeOK'
  BY DEF LeaveHold, TypeOK, Labels, Guarded, Registered, Goto
<1>2. GuardHeld'
  BY DEF LeaveHold, TypeOK, GuardHeld, Guarded, Goto
<1>3. EntryOfCaller'
  BY DEF LeaveHold, TypeOK, GuardHeld, EntryOfCaller, Guarded, Registered, Labels, Goto
<1>4. OneSessionPerEntry'
  BY DEF LeaveHold, TypeOK, OneSessionPerEntry, EntryOfCaller, Garbage, Goto
<1>5. LockHeld'
  BY DEF LeaveHold, TypeOK, LockHeld, EntryOfCaller, Garbage, Registered, Goto
<1>6. UsersCounted'
  BY DEF LeaveHold, TypeOK, UsersCounted, UsersOf, EntryOfCaller, GuardHeld,
         OneSessionPerEntry, Garbage, Guarded, Registered, Goto
<1>7. EntryHasUser'
  BY DEF LeaveHold, TypeOK, EntryHasUser, EntryOfCaller, GuardHeld, Guarded,
         Registered, Garbage, Goto
<1>8. QED
  BY <1>1, <1>2, <1>3, <1>4, <1>5, <1>6, <1>7

LEMMA DropKeepsInv ==
  ASSUME NEW t \in Threads, EntriesInv, Drop(t)
  PROVE  EntriesInv'
<1> USE SessionLocksAssumption DEF EntriesInv, SessionLocksAssumption
<1>l. PICK l \in Locks : l = entry[t]
  BY DEF Drop, EntryOfCaller, Registered, Goto
<1>a. l = entry[t] /\ l = entries[target[t]] /\ target[t] \in Sessions /\ t \in UsersOf(l)
  BY <1>l DEF Drop, TypeOK, EntryOfCaller, UsersOf, Registered, Goto
<1>b. users[l] = Cardinality(UsersOf(l)) /\ users[l] \in Nat
  BY <1>a DEF UsersCounted, TypeOK
<1>c. /\ Cardinality(UsersOf(l) \ {t}) = users[l] - 1
      /\ Cardinality(UsersOf(l) \ {t}) \in Nat
  BY <1>a, <1>b, UsersFinite, FS_RemoveElement, FS_CardinalityType
<1>d. users[l] = 1 <=> UsersOf(l) \ {t} = {}
  <2>1. IsFiniteSet(UsersOf(l) \ {t})
    BY UsersFinite, FS_RemoveElement, FS_Subset
  <2>2. QED
    BY <1>b, <1>c, <2>1, FS_EmptySet
<1>e. \A u \in Threads : u # t => ~(pc[u] \in Guarded)
  BY DEF Drop, GuardHeld, Guarded, Goto
<1>1. TypeOK'
  <2>1. users[l] - 1 \in Nat
    BY <1>c
  <2>2. QED
    BY <1>a, <2>1 DEF Drop, TypeOK, Labels, Goto
<1>2. GuardHeld'
  BY DEF Drop, TypeOK, GuardHeld, Guarded, Goto
<1>3. EntryOfCaller'
  <2> SUFFICES ASSUME NEW u \in Threads PROVE EntryOfCaller!(u)'
    BY DEF EntryOfCaller
  <2>1. CASE u = t
    BY <2>1 DEF Drop, TypeOK, Registered, Goto
  <2>2. CASE u # t
    <3>1. pc'[u] = pc[u] /\ entry'[u] = entry[u] /\ target' = target
      BY <2>2 DEF Drop, TypeOK, Goto
    <3>2. pc[u] \in Registered => entries'[target[u]] = entries[target[u]]
      <4> HAVE pc[u] \in Registered
      <4>1. CASE entry[u] = l
        BY <1>a, <1>d, <2>2, <4>1 DEF Drop, TypeOK, UsersOf
      <4>2. CASE entry[u] # l
        BY <1>a, <4>2 DEF Drop, TypeOK, EntryOfCaller
      <4>3. QED
        BY <4>1, <4>2
    <3>3. QED
      BY <1>e, <2>2, <3>1, <3>2 DEF EntryOfCaller, Guarded, Registered
  <2>3. QED
    BY <2>1, <2>2
<1>4. OneSessionPerEntry'
  BY DEF Drop, TypeOK, OneSessionPerEntry, EntryOfCaller, Garbage, Goto
<1>5. LockHeld'
  BY DEF Drop, TypeOK, LockHeld, EntryOfCaller, Garbage, Registered, Goto
<1>6. UsersCounted'
  <2>1. UsersOf(l)' = UsersOf(l) \ {t}
    BY <1>a DEF Drop, TypeOK, UsersOf, Registered, Labels, Goto
  <2>2. \A k : k # l => UsersOf(k)' = UsersOf(k)
    BY <1>a DEF Drop, TypeOK, UsersOf, Registered, Labels, Goto
  <2>3. users'[l] = users[l] - 1 /\ \A k \in Locks : k # l => users'[k] = users[k]
    BY <1>a DEF Drop, TypeOK
  <2>4. \A s \in Sessions : entries'[s] # NoLock => entries'[s] = entries[s]
    BY DEF Drop, TypeOK
  <2>5. users'[l] = Cardinality(UsersOf(l)')
    BY <1>c, <2>1, <2>3
  <2>6. \A s \in Sessions : entries'[s] # NoLock /\ entries'[s] # l =>
          users'[entries'[s]] = Cardinality(UsersOf(entries[s])')
    <3>1. \A s \in Sessions : entries'[s] # NoLock => entries[s] \in Locks
      BY <2>4 DEF TypeOK
    <3>2. QED
      BY <2>2, <2>3, <2>4, <3>1 DEF UsersCounted
  <2>7. QED
    <3> SUFFICES ASSUME NEW s \in Sessions, entries'[s] # NoLock
                 PROVE  users'[entries'[s]] = Cardinality(UsersOf(entries[s])')
      BY <2>4 DEF UsersCounted
    <3>1. QED
      BY <2>4, <2>5, <2>6
<1>7. EntryHasUser'
  <2> SUFFICES ASSUME NEW s \in Sessions, entries'[s] # NoLock
               PROVE  \E u \in Threads : entry'[u] = entries'[s] /\ pc'[u] # "install"
    BY DEF EntryHasUser
  <2>1. entries'[s] = entries[s] /\ (s = target[t] => users[l] # 1)
    BY <1>a DEF Drop, TypeOK
  <2>2. CASE s = target[t]
    <3>1. PICK u \in UsersOf(l) \ {t} : TRUE
      BY <1>d, <2>1, <2>2
    <3>2. QED
      BY <1>a, <2>1, <2>2, <3>1 DEF Drop, TypeOK, UsersOf, Registered, Goto
  <2>3. CASE s # target[t]
    <3>1. PICK u \in Threads : entry[u] = entries[s] /\ pc[u] # "install"
      BY <2>1 DEF EntryHasUser
    <3>2. u # t
      BY <1>a, <2>1, <2>3, <3>1 DEF OneSessionPerEntry
    <3>3. QED
      BY <2>1, <3>1, <3>2 DEF Drop, TypeOK, Goto
  <2>4. QED
    BY <2>2, <2>3
<1>8. QED
  BY <1>1, <1>2, <1>3, <1>4, <1>5, <1>6, <1>7

LEMMA StepKeepsInv == EntriesInv /\ [Next]_vars => EntriesInv'
<1> SUFFICES ASSUME EntriesInv, [Next]_vars PROVE EntriesInv'
  OBVIOUS
<1>1. ASSUME NEW t \in Threads, NEW s \in Sessions, EnterHold(t, s) PROVE EntriesInv'
  BY <1>1, EnterHoldKeepsInv
<1>2. ASSUME NEW t \in Threads, Step(t) PROVE EntriesInv'
  BY <1>2, LookupKeepsInv, InstallKeepsInv, CountKeepsInv, AcquireLockKeepsInv,
     ReleaseLockKeepsInv, LeaveHoldKeepsInv, DropKeepsInv DEF Step
<1>3. CASE UNCHANGED vars
  BY <1>3 DEF vars, EntriesInv, TypeOK, GuardHeld, EntryOfCaller, OneSessionPerEntry,
     LockHeld, UsersCounted, EntryHasUser, UsersOf
<1>4. QED
  BY <1>1, <1>2, <1>3 DEF Next, Finished

\* The dictionary, the locks and the counts always agree with where the
\* threads are: the inductive invariant of hold().
THEOREM EntriesInvariant == Spec => []EntriesInv
<1>1. QED
  BY InitEstablishesInv, StepKeepsInv, PTL DEF Spec

LEMMA ExclusionFollows == EntriesInv => MutualExclusion
BY DEF EntriesInv, MutualExclusion, EntryOfCaller, LockHeld, Registered

\* No two threads are ever inside hold() for one session.
THEOREM MutualExclusionHolds == Spec => []MutualExclusion
BY ExclusionFollows, EntriesInvariant, PTL

\* The dictionary has an entry exactly for the sessions in use: nothing leaks
\* and nothing is removed too early.
THEOREM EntriesExactlyInUseHolds == Spec => []EntriesExactlyInUse
<1>1. EntriesInv => EntriesExactlyInUse
  <2> SUFFICES ASSUME EntriesInv, guard = NoThread, NEW s \in Sessions
               PROVE  entries[s] # NoLock <=>
                        \E t \in Threads : pc[t] \in Registered /\ target[t] = s
    BY DEF EntriesExactlyInUse
  <2> USE SessionLocksAssumption DEF EntriesInv, SessionLocksAssumption
  <2>1. ASSUME entries[s] # NoLock
        PROVE  \E t \in Threads : pc[t] \in Registered /\ target[t] = s
    <3>1. PICK t \in Threads : entry[t] = entries[s] /\ pc[t] # "install"
      BY <2>1 DEF EntryHasUser
    <3>2. pc[t] \in Registered
      BY <2>1, <3>1 DEF TypeOK, GuardHeld, EntryOfCaller, Guarded, Registered, Labels
    <3>3. target[t] = s
      BY <2>1, <3>1, <3>2 DEF TypeOK, EntryOfCaller, OneSessionPerEntry
    <3>4. QED
      BY <3>2, <3>3
  <2>2. ASSUME NEW t \in Threads, pc[t] \in Registered, target[t] = s
        PROVE  entries[s] # NoLock
    BY <2>2 DEF EntryOfCaller
  <2>3. QED
    BY <2>1, <2>2
<1>2. QED
  BY <1>1, EntriesInvariant, PTL

(* Refinement: what each action is to a caller. *)

HolderFacts ==
  /\ \A s \in Sessions, t \in Threads :
       Holder[s] = t <=> pc[t] = "critical" /\ target[t] = s
  /\ \A s \in Sessions : Holder[s] \in Threads \cup {NoThread}

\* The holder of a session is the thread that is critical on it.
LEMMA HolderIsCritical == EntriesInv => HolderFacts
<1> SUFFICES ASSUME EntriesInv PROVE HolderFacts
  OBVIOUS
<1> USE SessionLocksAssumption DEF SessionLocksAssumption
<1>1. \A s \in Sessions : Inside(s) # {} => Holder[s] \in Inside(s)
  <2> SUFFICES ASSUME NEW s \in Sessions, NEW t \in Inside(s)
               PROVE  Holder[s] \in Inside(s)
    OBVIOUS
  <2>1. t \in Threads /\ Holder[s] = CHOOSE u \in Threads : u \in Inside(s)
    BY DEF Holder, Inside
  <2>2. QED
    BY <2>1
<1>2. \A s \in Sessions : Inside(s) = {} => Holder[s] = NoThread
  BY DEF Holder
<1>3. \A s \in Sessions : \A t, u \in Inside(s) : t = u
  BY ExclusionFollows DEF MutualExclusion, Inside
<1>4. \A s \in Sessions : \A t \in Threads : Holder[s] = t <=> t \in Inside(s)
  BY <1>1, <1>2, <1>3 DEF Inside
<1>5. QED
  BY <1>1, <1>2, <1>4 DEF HolderFacts, Inside

LEMMA NextHolderIsCritical == EntriesInv' => HolderFacts'
BY HolderIsCritical, PTL

\* A step after which the same threads are critical on the same sessions
\* leaves the holders as they were.
LEMMA SameCriticalSameHolder ==
  ASSUME EntriesInv, EntriesInv',
         \A t \in Threads : /\ pc[t] = "critical" <=> pc'[t] = "critical"
                            /\ pc[t] = "critical" => target'[t] = target[t]
  PROVE  Holder' = Holder
<1>1. \A s \in Sessions, t \in Threads : Holder[s] = t <=> Holder'[s] = t
  BY HolderIsCritical, NextHolderIsCritical DEF HolderFacts, EntriesInv, TypeOK
<1>2. \A s \in Sessions : Holder'[s] = Holder[s]
  BY <1>1, HolderIsCritical, NextHolderIsCritical, SessionLocksAssumption
     DEF HolderFacts, SessionLocksAssumption
<1>3. QED
  BY <1>2 DEF Holder

LEMMA AcquireIsAbstractAcquire ==
  ASSUME EntriesInv, EntriesInv', NEW t \in Threads, AcquireLock(t)
  PROVE  Mutex!Acquire(t, target[t])
<1> USE SessionLocksAssumption DEF SessionLocksAssumption
<1>1. target[t] \in Sessions /\ target' = target
  BY DEF EntriesInv, TypeOK, AcquireLock
<1>2. Holder[target[t]] = NoThread
  <2>1. \A u \in Threads : ~(pc[u] = "critical" /\ target[u] = target[t])
    BY DEF EntriesInv, EntryOfCaller, LockHeld, AcquireLock, Goto, Registered
  <2>2. QED
    BY <1>1, <2>1, HolderIsCritical DEF HolderFacts
<1>3. \A s \in Sessions : Holder[s] # t
  BY HolderIsCritical DEF HolderFacts, AcquireLock, Goto
<1>4. \A s \in Sessions : Holder'[s] = [Holder EXCEPT ![target[t]] = t][s]
  <2>1. Holder'[target[t]] = t
    BY <1>1, NextHolderIsCritical DEF HolderFacts, EntriesInv, TypeOK, AcquireLock, Goto
  <2>2. ASSUME NEW s \in Sessions, s # target[t] PROVE Holder'[s] = Holder[s]
    <3>1. \A u \in Threads : Holder'[s] = u <=> Holder[s] = u
      BY <1>1, <2>2, HolderIsCritical, NextHolderIsCritical
         DEF HolderFacts, EntriesInv, TypeOK, AcquireLock, Goto
    <3>2. QED
      BY <3>1, HolderIsCritical, NextHolderIsCritical DEF HolderFacts
  <2>3. QED
    BY <2>1, <2>2 DEF Holder
<1>5. Holder' = [Holder EXCEPT ![target[t]] = t]
  BY <1>4 DEF Holder
<1>6. QED
  BY <1>2, <1>3, <1>5 DEF Mutex!Acquire

LEMMA ReleaseIsAbstractRelease ==
  ASSUME EntriesInv, EntriesInv', NEW t \in Threads, ReleaseLock(t)
  PROVE  Mutex!Release(t, target[t])
<1>1. target[t] \in Sessions /\ target' = target
  BY DEF EntriesInv, TypeOK, ReleaseLock
<1>2. Holder[target[t]] = t
  BY <1>1, HolderIsCritical DEF HolderFacts, ReleaseLock, Goto
<1>3. \A s \in Sessions : Holder'[s] = [Holder EXCEPT ![target[t]] = NoThread][s]
  <2> USE SessionLocksAssumption DEF SessionLocksAssumption
  <2>1. ASSUME NEW u \in Threads, Holder'[target[t]] = u PROVE FALSE
    <3>1. pc'[u] = "critical" /\ target'[u] = target[t]
      BY <1>1, <2>1, NextHolderIsCritical DEF HolderFacts
    <3>2. u # t /\ pc[u] = "critical"
      BY <3>1 DEF EntriesInv, TypeOK, ReleaseLock, Goto
    <3>3. QED
      BY <1>1, <3>1, <3>2, ExclusionFollows DEF MutualExclusion, ReleaseLock, Goto
  <2>2. ASSUME NEW s \in Sessions, s # target[t] PROVE Holder'[s] = Holder[s]
    <3>1. \A u \in Threads : Holder'[s] = u <=> Holder[s] = u
      BY <1>1, <2>2, HolderIsCritical, NextHolderIsCritical
         DEF HolderFacts, EntriesInv, TypeOK, ReleaseLock, Goto
    <3>2. QED
      BY <3>1, HolderIsCritical, NextHolderIsCritical DEF HolderFacts
  <2>3. Holder'[target[t]] = NoThread
    BY <1>1, <2>1, NextHolderIsCritical DEF HolderFacts
  <2>4. QED
    BY <1>1, <2>2, <2>3 DEF Holder
<1>4. Holder' = [Holder EXCEPT ![target[t]] = NoThread]
  BY <1>3 DEF Holder
<1>5. QED
  BY <1>2, <1>4 DEF Mutex!Release

LEMMA StepIsAbstractStep ==
  EntriesInv /\ EntriesInv' /\ [Next]_vars => [Mutex!MutexNext]_Holder
<1> SUFFICES ASSUME EntriesInv, EntriesInv', [Next]_vars
             PROVE  [Mutex!MutexNext]_Holder
  OBVIOUS
<1> USE DEF EntriesInv, TypeOK, Goto
<1>1. ASSUME NEW t \in Threads, NEW s \in Sessions, EnterHold(t, s) PROVE Holder' = Holder
  BY <1>1, SameCriticalSameHolder DEF EnterHold
<1>2. ASSUME NEW t \in Threads, Lookup(t) \/ Install(t) \/ Count(t) PROVE Holder' = Holder
  BY <1>2, SameCriticalSameHolder DEF Lookup, Install, Count
<1>3. ASSUME NEW t \in Threads, LeaveHold(t) \/ Drop(t) PROVE Holder' = Holder
  BY <1>3, SameCriticalSameHolder DEF LeaveHold, Drop
<1>4. ASSUME NEW t \in Threads, AcquireLock(t) PROVE Mutex!MutexNext
  BY <1>4, AcquireIsAbstractAcquire DEF Mutex!MutexNext
<1>5. ASSUME NEW t \in Threads, ReleaseLock(t) PROVE Mutex!MutexNext
  BY <1>5, ReleaseIsAbstractRelease DEF Mutex!MutexNext
<1>6. CASE UNCHANGED vars
  BY <1>6 DEF vars, Holder, Inside
<1>7. QED
  BY <1>1, <1>2, <1>3, <1>4, <1>5, <1>6 DEF Next, Step, Finished

\* The coordinator with its dictionary, counts and guard implements one mutex
\* per session.
THEOREM CoordinatorImplementsMutex == Spec => ImplementsMutex
<1>1. Init => Mutex!MutexInit
  BY DEF Init, Mutex!MutexInit, Holder, Inside
<1>2. QED
  BY <1>1, EntriesInvariant, StepIsAbstractStep, PTL
     DEF Spec, ImplementsMutex, Mutex!MutexSpec
=============================================================================
