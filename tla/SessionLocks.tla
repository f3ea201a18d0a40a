---------------------------- MODULE SessionLocks ----------------------------
(***************************************************************************)
(* app/session_locks.py: SessionMutationCoordinator.  A dictionary maps a  *)
(* session to a reference-counted entry holding a threading.Lock.  A       *)
(* thread registers on the entry under the guard, waits for the entry's    *)
(* lock outside the guard, and unregisters under the guard again; the      *)
(* last user removes the entry, so the next caller makes a new lock.       *)
(*                                                                         *)
(* Every action is one statement (or one block no other thread can see     *)
(* inside) of hold().  A lock object is a member of Locks; an object that  *)
(* no thread and no dictionary slot refers to is garbage, and the next     *)
(* allocation may reuse it.                                                *)
(***************************************************************************)
EXTENDS Naturals, FiniteSets

CONSTANTS Threads, Sessions, Locks, NoThread, NoLock,
          MaxHolds     \* bound: calls of hold() per thread

ASSUME SessionLocksAssumption ==
  /\ IsFiniteSet(Threads)
  /\ NoThread \notin Threads
  /\ NoLock \notin Locks
  /\ MaxHolds \in Nat

VARIABLES
  guard,      \* the thread inside "with self._guard", or NoThread
  entries,    \* self._entries: the entry of each session, or NoLock
  users,      \* _Entry.users
  lockedBy,   \* the thread that holds _Entry.lock, or NoThread
  pc,         \* where each thread is in hold()
  target,     \* the session_id argument of the call
  entry,      \* the local variable "entry"
  calls       \* calls of hold() begun by each thread

vars == <<guard, entries, users, lockedBy, pc, target, entry, calls>>

Guarded    == {"lookup", "install", "count", "drop"}
Registered == {"acquire", "critical", "leave", "drop"}
Labels     == {"idle", "lookup", "install", "count", "acquire", "critical",
               "leave", "drop"}

UsersOf(l) == {t \in Threads : pc[t] \in Registered /\ entry[t] = l}

Garbage(l) ==
  /\ \A s \in Sessions : entries[s] # l
  /\ \A t \in Threads : entry[t] # l

TypeOK ==
  /\ guard \in Threads \cup {NoThread}
  /\ entries \in [Sessions -> Locks \cup {NoLock}]
  /\ users \in [Locks -> Nat]
  /\ lockedBy \in [Locks -> Threads \cup {NoThread}]
  /\ pc \in [Threads -> Labels]
  /\ target \in [Threads -> Sessions]
  /\ entry \in [Threads -> Locks \cup {NoLock}]
  /\ calls \in [Threads -> 0..MaxHolds]

Init ==
  /\ guard = NoThread
  /\ entries = [s \in Sessions |-> NoLock]
  /\ users = [l \in Locks |-> 0]
  /\ lockedBy = [l \in Locks |-> NoThread]
  /\ pc = [t \in Threads |-> "idle"]
  /\ target \in [Threads -> Sessions]
  /\ entry = [t \in Threads |-> NoLock]
  /\ calls = [t \in Threads |-> 0]
-----------------------------------------------------------------------------
Goto(t, from, to) ==
  /\ pc[t] = from
  /\ pc' = [pc EXCEPT ![t] = to]

\* A plausible slip: the way in does not take the guard.
EnterHoldUnguarded(t, s) ==
  /\ Goto(t, "idle", "lookup")
  /\ calls[t] < MaxHolds
  /\ target' = [target EXCEPT ![t] = s]
  /\ calls' = [calls EXCEPT ![t] = @ + 1]
  /\ UNCHANGED <<guard, entries, users, lockedBy, entry>>

\* with self._guard, on the way in
EnterHold(t, s) ==
  /\ Goto(t, "idle", "lookup")
  /\ calls[t] < MaxHolds
  /\ guard = NoThread
  /\ guard' = t
  /\ target' = [target EXCEPT ![t] = s]
  /\ calls' = [calls EXCEPT ![t] = @ + 1]
  /\ UNCHANGED <<entries, users, lockedBy, entry>>

\* entry = self._entries.get(session_id)
Lookup(t) ==
  /\ Goto(t, "lookup", "install")
  /\ entry' = [entry EXCEPT ![t] = entries[target[t]]]
  /\ UNCHANGED <<guard, entries, users, lockedBy, target, calls>>

\* if entry is None: entry = _Entry(lock=threading.Lock()); self._entries[...] = entry
Install(t) ==
  /\ Goto(t, "install", "count")
  /\ \/ /\ entry[t] # NoLock
        /\ UNCHANGED <<entries, users, lockedBy, entry>>
     \/ /\ entry[t] = NoLock
        /\ \E l \in Locks :
             /\ Garbage(l)
             /\ entries' = [entries EXCEPT ![target[t]] = l]
             /\ entry' = [entry EXCEPT ![t] = l]
             /\ users' = [users EXCEPT ![l] = 0]
             /\ lockedBy' = [lockedBy EXCEPT ![l] = NoThread]
  /\ UNCHANGED <<guard, target, calls>>

\* A plausible slip: only the thread that makes the entry is counted.
CountCreatorOnly(t) ==
  /\ Goto(t, "count", "acquire")
  /\ users' = [users EXCEPT ![entry[t]] = 1]
  /\ guard' = NoThread
  /\ UNCHANGED <<entries, lockedBy, target, entry, calls>>

\* entry.users += 1, and the guard is given up
Count(t) ==
  /\ Goto(t, "count", "acquire")
  /\ users' = [users EXCEPT ![entry[t]] = @ + 1]
  /\ guard' = NoThread
  /\ UNCHANGED <<entries, lockedBy, target, entry, calls>>

\* A plausible slip: acquire(blocking=False), giving up when the lock is taken.
TryAcquireLock(t) ==
  \/ /\ Goto(t, "acquire", "critical")
     /\ lockedBy[entry[t]] = NoThread
     /\ lockedBy' = [lockedBy EXCEPT ![entry[t]] = t]
     /\ UNCHANGED <<guard, entries, users, target, entry, calls>>
  \/ /\ Goto(t, "acquire", "leave")
     /\ lockedBy[entry[t]] # NoThread
     /\ UNCHANGED <<guard, entries, users, lockedBy, target, entry, calls>>

\* entry.lock.acquire(): blocks without the guard
AcquireLock(t) ==
  /\ Goto(t, "acquire", "critical")
  /\ lockedBy[entry[t]] = NoThread
  /\ lockedBy' = [lockedBy EXCEPT ![entry[t]] = t]
  /\ UNCHANGED <<guard, entries, users, target, entry, calls>>

\* finally: entry.lock.release()
ReleaseLock(t) ==
  /\ Goto(t, "critical", "leave")
  /\ lockedBy' = [lockedBy EXCEPT ![entry[t]] = NoThread]
  /\ UNCHANGED <<guard, entries, users, target, entry, calls>>

\* with self._guard, on the way out
LeaveHold(t) ==
  /\ Goto(t, "leave", "drop")
  /\ guard = NoThread
  /\ guard' = t
  /\ UNCHANGED <<entries, users, lockedBy, target, entry, calls>>

\* A plausible slip: the entry goes although one more thread waits on it.
DropWithWaiter(t) ==
  /\ Goto(t, "drop", "idle")
  /\ users' = [users EXCEPT ![entry[t]] = @ - 1]
  /\ entries' = [entries EXCEPT ![target[t]] =
                   IF users[entry[t]] <= 2 THEN NoLock ELSE @]
  /\ entry' = [entry EXCEPT ![t] = NoLock]
  /\ guard' = NoThread
  /\ UNCHANGED <<lockedBy, target, calls>>

\* A plausible slip: the entry is never removed.
DropKeepingEntry(t) ==
  /\ Goto(t, "drop", "idle")
  /\ users' = [users EXCEPT ![entry[t]] = @ - 1]
  /\ entry' = [entry EXCEPT ![t] = NoLock]
  /\ guard' = NoThread
  /\ UNCHANGED <<entries, lockedBy, target, calls>>

\* entry.users -= 1; if entry.users == 0: self._entries.pop(session_id, None)
Drop(t) ==
  /\ Goto(t, "drop", "idle")
  /\ users' = [users EXCEPT ![entry[t]] = @ - 1]
  /\ entries' = [entries EXCEPT ![target[t]] =
                   IF users[entry[t]] = 1 THEN NoLock ELSE @]
  /\ entry' = [entry EXCEPT ![t] = NoLock]
  /\ guard' = NoThread
  /\ UNCHANGED <<lockedBy, target, calls>>

\* Every thread has used its calls: the workload is over.
Finished ==
  /\ \A t \in Threads : pc[t] = "idle" /\ calls[t] = MaxHolds
  /\ UNCHANGED vars

Step(t) ==
  \/ Lookup(t) \/ Install(t) \/ Count(t) \/ AcquireLock(t)
  \/ ReleaseLock(t) \/ LeaveHold(t) \/ Drop(t)

Next ==
  \/ \E t \in Threads, s \in Sessions : EnterHold(t, s)
  \/ \E t \in Threads : Step(t)
  \/ Finished

Spec == Init /\ [][Next]_vars

\* A runnable thread is scheduled again; neither lock promises any order.
FairSpec == Spec /\ \A t \in Threads : WF_vars(Step(t))
-----------------------------------------------------------------------------
(* What the code relies on.                                                *)

\* The body of hold() never runs twice at once for one session, also while
\* the entry of that session is being removed and made again.
MutualExclusion ==
  \A t, u \in Threads :
    pc[t] = "critical" /\ pc[u] = "critical" /\ target[t] = target[u] => t = u

\* Outside the guard, the dictionary has an entry for a session exactly while
\* some thread is between its two guarded blocks: entries neither leak (what
\* active_sessions() == 0 shows after a burst) nor go while one is in use.
EntriesExactlyInUse ==
  guard = NoThread =>
    \A s \in Sessions :
      entries[s] # NoLock <=> \E t \in Threads : pc[t] \in Registered /\ target[t] = s

(* The inductive invariant behind both.                                    *)

GuardHeld ==
  \A t \in Threads : pc[t] \in Guarded <=> guard = t

EntryOfCaller ==
  \A t \in Threads :
    /\ pc[t] \in {"idle", "lookup"} => entry[t] = NoLock
    /\ pc[t] = "install" => entry[t] = entries[target[t]]
    /\ pc[t] = "count" \/ pc[t] \in Registered =>
         entry[t] \in Locks /\ entry[t] = entries[target[t]]

OneSessionPerEntry ==
  \A r, s \in Sessions : entries[r] = entries[s] /\ entries[r] # NoLock => r = s

LockHeld ==
  \A t \in Threads, l \in Locks :
    lockedBy[l] = t <=> pc[t] = "critical" /\ entry[t] = l

UsersCounted ==
  \A s \in Sessions :
    entries[s] # NoLock => users[entries[s]] = Cardinality(UsersOf(entries[s]))

EntryHasUser ==
  \A s \in Sessions :
    entries[s] # NoLock =>
      \E t \in Threads : entry[t] = entries[s] /\ pc[t] # "install"

\* The dictionary, the entries' locks and their counts agree with where the
\* threads are, in every state, inside the guarded blocks too.
EntriesInv ==
  /\ TypeOK
  /\ GuardHeld
  /\ EntryOfCaller
  /\ OneSessionPerEntry
  /\ LockHeld
  /\ UsersCounted
  /\ EntryHasUser

(* Refinement: who is in the body of hold() holds the session.             *)

Inside(s) == {t \in Threads : pc[t] = "critical" /\ target[t] = s}

Holder == [s \in Sessions |->
             IF Inside(s) = {} THEN NoThread ELSE CHOOSE t \in Threads : t \in Inside(s)]

Mutex == INSTANCE SessionMutex WITH holder <- Holder

\* The coordinator is a mutex per session: each step of a thread is a step of
\* SessionMutex or changes nothing a caller can see.
ImplementsMutex == Mutex!MutexSpec

\* A thread waiting in acquire() gets the lock, once the others that came in
\* leave (each thread calls a bounded number of times).
EveryWaiterIsServed ==
  \A t \in Threads : pc[t] = "acquire" ~> pc[t] = "critical"
=============================================================================
