---------------------------- MODULE SessionMutex ----------------------------
(***************************************************************************)
(* What SessionMutationCoordinator.hold(session_id) promises its callers:  *)
(* "serialize ingestion and deletion for one session".  Every session has  *)
(* at most one holder, and a thread is inside at most one session at a     *)
(* time (no caller of hold nests it).  SessionLocks implements this        *)
(* module; the document service is built on it.                            *)
(***************************************************************************)
CONSTANTS Threads, Sessions, NoThread

VARIABLE holder     \* holder[s]: the thread inside hold(s), or NoThread

MutexTypeOK == holder \in [Sessions -> Threads \cup {NoThread}]

MutexInit == holder = [s \in Sessions |-> NoThread]

Acquire(t, s) ==
  /\ holder[s] = NoThread
  /\ \A other \in Sessions : holder[other] # t
  /\ holder' = [holder EXCEPT ![s] = t]

Release(t, s) ==
  /\ holder[s] = t
  /\ holder' = [holder EXCEPT ![s] = NoThread]

MutexNext == \E t \in Threads, s \in Sessions : Acquire(t, s) \/ Release(t, s)

MutexSpec == MutexInit /\ [][MutexNext]_holder
=============================================================================
