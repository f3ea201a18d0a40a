---------------------------- MODULE CareerService ----------------------------
(***************************************************************************)
(* app/main.py: the life of documents and sessions in one service process. *)
(* Requests run on an event loop (upload, asynchronous upload, chat) or in *)
(* a thread pool (list, delete, the blocking part of the others, and the   *)
(* background task of an asynchronous upload); they meet in the metadata   *)
(* store (SessionStore), the vector collection (RagEngine), the staged     *)
(* objects and the per-session lock (SessionMutex, which SessionLocks      *)
(* implements).                                                            *)
(*                                                                         *)
(* An action is what one request does between two points where another     *)
(* one can run: an await, the end of a statement of SQL, of a call to the  *)
(* collection, or of a file operation, and taking or leaving the lock.     *)
(***************************************************************************)
EXTENDS SessionStore, RagEngine

CONSTANTS
  NoRequest,       \* nobody holds the lock of a session
  NoDoc,           \* the document of a request that uploads none
  Ops,             \* the operations the workload may use
  Authenticated,   \* API keys are configured (else: the local demo)
  PoolSize,        \* worker threads
  Faults,          \* what may fail: "document", "vectors", "staging", "metadata"
  MaxCrashes       \* bound: how often the process dies and is restarted

AllOps  == {"upload", "async", "chat", "list", "delete"}
Uploads == {"upload", "async"}
LoopOps == {"upload", "async", "chat"}     \* the "async def" handlers

ASSUME CareerServiceAssumption ==
  /\ NoRequest \notin Requests
  /\ NoDoc \notin Docs
  /\ Ops \subseteq AllOps
  /\ Authenticated \in BOOLEAN
  /\ PoolSize \in Nat \ {0}
  /\ MaxCrashes \in Nat
  \* without keys every request is the tenant "local-demo"
  /\ ~Authenticated => \A t, u \in Tenants : t = u

RequestType ==
  [op : Ops \cap Uploads, tenant : Tenants, session : Sessions, doc : Docs]
    \cup [op : Ops \ Uploads, tenant : Tenants, session : Sessions, doc : {NoDoc}]

VARIABLES
  req,        \* what each request asks for: the workload
  pc,         \* how far it is
  before,     \* existing_ids: the points of its source when it began to write
  done,       \* the batches it has upserted
  seen,       \* the points a read returned
  objects,    \* the staged objects, named by the job that reads them
  holder,     \* holder[s]: the request inside hold(s), or NoRequest
  outdated,   \* observation: admitted before a deletion of its session committed
  crashes     \* how often the process has died

vars == <<owner, issued, jobs, vectors, req, pc, before, done, seen, objects,
          holder, outdated, crashes>>

Mutex == INSTANCE SessionMutex WITH Threads <- Requests, NoThread <- NoRequest

Ingesting == {"snapshot", "write", "prune"}
Critical  == Ingesting \cup {"recheck", "claim", "settle", "fail", "erase", "unown",
                             "release", "abort"}
Terminal  == {"ok", "error", "dead"}
Labels    == Critical \cup Terminal \cup
             {"new", "insert", "reading", "confirm", "stage", "accepted",
              "lock", "cleanup", "fetch", "asking"}

Session(r) == req[r].session
Admitted(r) == pc[r] \notin Terminal \cup {"new", "insert"}

\* Synchronous code of an "async def" handler runs alone on the event loop.
LoopFree ==
  \A r \in Requests : req[r].op \in LoopOps => pc[r] \notin {"insert", "confirm", "stage"}

InPool(r) ==
  \/ pc[r] \in Critical \cup {"lock", "cleanup", "fetch"}
  \/ pc[r] = "insert" /\ req[r].op \notin LoopOps

PoolFree == Cardinality({r \in Requests : InPool(r)}) < PoolSize

TypeOK ==
  /\ StoreTypeOK
  /\ vectors \subseteq [session : Sessions, source : Sources, chunk : Chunks]
  /\ req \in [Requests -> RequestType]
  /\ pc \in [Requests -> Labels]
  /\ before \in [Requests -> SUBSET [session : Sessions, source : Sources, chunk : Chunks]]
  /\ done \in [Requests -> Nat]
  /\ seen \in [Requests -> SUBSET [session : Sessions, source : Sources, chunk : Chunks]]
  /\ objects \subseteq Requests
  /\ Mutex!MutexTypeOK
  /\ outdated \subseteq Requests
  /\ crashes \in 0..MaxCrashes

Init ==
  /\ StoreInit
  /\ vectors = {}
  /\ req \in [Requests -> RequestType]
  /\ pc = [r \in Requests |-> "new"]
  /\ before = [r \in Requests |-> {}]
  /\ done = [r \in Requests |-> 0]
  /\ seen = [r \in Requests |-> {}]
  /\ objects = {}
  /\ Mutex!MutexInit
  /\ outdated = {}
  /\ crashes = 0
-----------------------------------------------------------------------------
Goto(r, from, to) ==
  /\ pc[r] = from
  /\ pc' = [pc EXCEPT ![r] = to]

\* Where an admitted request goes on.
AfterAdmission(r) ==
  CASE req[r].op \in Uploads -> "reading"
    [] req[r].op = "chat"    -> "asking"
    [] req[r].op = "list"    -> "fetch"
    [] req[r].op = "delete"  -> "lock"

\* POST /sessions
NewSession(s, t) ==
  /\ CreateSession(s, t)
  /\ UNCHANGED <<vectors, req, pc, before, done, seen, objects, holder, outdated, crashes>>

\* _require_session_owner(allow_local_create=True): the SELECT of ensure_owner
Arrive(r) ==
  /\ IF req[r].op \in LoopOps THEN LoopFree ELSE PoolFree
  /\ \/ /\ Owns(Session(r), req[r].tenant)
        /\ Goto(r, "new", AfterAdmission(r))
     \/ /\ owner[Session(r)] = NoTenant /\ ~Authenticated
        /\ Goto(r, "new", "insert")
     \/ /\ ~Owns(Session(r), req[r].tenant)
        /\ owner[Session(r)] # NoTenant \/ Authenticated
        /\ Goto(r, "new", "error")
  /\ UNCHANGED <<storeVars, vectors, req, before, done, seen, objects, holder,
                 outdated, crashes>>

\* ... and its INSERT, which another request may have overtaken
InsertOwner(r) ==
  /\ \/ /\ Goto(r, "insert", AfterAdmission(r))
        /\ InsertSession(Session(r), req[r].tenant)
     \/ /\ Goto(r, "insert", "error")
        /\ owner[Session(r)] # NoTenant
        /\ UNCHANGED storeVars
  /\ UNCHANGED <<vectors, req, before, done, seen, objects, holder, outdated, crashes>>

\* _validate_pdf_filename and _save_bounded_upload refuse the file
RejectUpload(r) ==
  /\ "document" \in Faults
  /\ Goto(r, "reading", "error")
  /\ UNCHANGED <<storeVars, vectors, req, before, done, seen, objects, holder,
                 outdated, crashes>>

\* The file is read; await run_in_threadpool(_process_document_serialized)
Submit(r) ==
  /\ req[r].op = "upload"
  /\ PoolFree
  /\ Goto(r, "reading", "lock")
  /\ UNCHANGED <<storeVars, vectors, req, before, done, seen, objects, holder,
                 outdated, crashes>>

\* create_job: the INSERT, which the foreign key may refuse
Record(r) ==
  /\ req[r].op = "async"
  /\ LoopFree
  /\ \/ /\ Goto(r, "reading", "confirm")
        /\ InsertJob(r, Session(r), req[r].tenant)
     \/ /\ Goto(r, "reading", "error")
        /\ owner[Session(r)] = NoTenant
        /\ UNCHANGED storeVars
  /\ UNCHANGED <<vectors, req, before, done, seen, objects, holder, outdated, crashes>>

\* create_job: get_job of the new row
Confirm(r) ==
  /\ IF JobVisible(r, req[r].tenant) THEN Goto(r, "confirm", "stage")
                                     ELSE Goto(r, "confirm", "error")
  /\ UNCHANGED <<storeVars, vectors, req, before, done, seen, objects, holder,
                 outdated, crashes>>

\* object_store.put, which may fail with part of the file copied
Stage(r) ==
  /\ \/ /\ Goto(r, "stage", "accepted")
        /\ objects' = objects \cup {r}
     \/ /\ "staging" \in Faults
        /\ Goto(r, "stage", "error")
        /\ objects' \in {objects, objects \cup {r}}
  /\ UNCHANGED <<storeVars, vectors, req, before, done, seen, holder, outdated, crashes>>

\* The response (202) is sent; the background task gets a worker thread.
StartWorker(r) ==
  /\ PoolFree
  /\ Goto(r, "accepted", "lock")
  /\ UNCHANGED <<storeVars, vectors, req, before, done, seen, objects, holder,
                 outdated, crashes>>
-----------------------------------------------------------------------------
\* with session_mutations.hold(session_id)
Acquire(r) ==
  /\ Goto(r, "lock", CASE req[r].op = "upload" -> "recheck"
                       [] req[r].op = "async"  -> "claim"
                       [] OTHER                -> "erase")
  /\ Mutex!Acquire(r, Session(r))
  /\ UNCHANGED <<storeVars, vectors, req, before, done, seen, objects, outdated, crashes>>

\* A plausible slip: the owner is not asked for again once the lock is held.
RecheckSkipped(r) ==
  /\ Goto(r, "recheck", "snapshot")
  /\ UNCHANGED <<storeVars, vectors, req, before, done, seen, objects, holder,
                 outdated, crashes>>

\* _process_document_serialized: _require_session_owner without creation
Recheck(r) ==
  /\ IF Owns(Session(r), req[r].tenant) THEN Goto(r, "recheck", "snapshot")
                                        ELSE Goto(r, "recheck", "abort")
  /\ UNCHANGED <<storeVars, vectors, req, before, done, seen, objects, holder,
                 outdated, crashes>>

\* A plausible slip: a missing row does not stop the worker.
ClaimUnchecked(r) ==
  /\ Goto(r, "claim", "snapshot")
  /\ UpdateJob(r, "processing", 0)
  /\ UNCHANGED <<vectors, req, before, done, seen, objects, holder, outdated, crashes>>

\* A plausible slip: the worker waits for a row to appear.
ClaimPolling(r) ==
  /\ IF jobs[r] = NoJob THEN UNCHANGED storeVars /\ Goto(r, "claim", "claim")
                        ELSE UpdateJob(r, "processing", 0) /\ Goto(r, "claim", "snapshot")
  /\ UNCHANGED <<vectors, req, before, done, seen, objects, holder, outdated, crashes>>

\* _process_document_job: get_job_for_worker, then update_job("processing")
Claim(r) ==
  /\ \/ /\ jobs[r] = NoJob
        /\ Goto(r, "claim", "release")
        /\ UNCHANGED storeVars
     \/ /\ jobs[r] # NoJob
        /\ Goto(r, "claim", "snapshot")
        /\ UpdateJob(r, "processing", 0)
  /\ UNCHANGED <<vectors, req, before, done, seen, objects, holder, outdated, crashes>>

Failed(r) == IF req[r].op = "async" THEN "fail" ELSE "abort"

\* The PDF cannot be read, is over a limit, or has no text.
Unreadable(r) ==
  /\ "document" \in Faults
  /\ Goto(r, "snapshot", Failed(r))
  /\ UNCHANGED <<storeVars, vectors, req, before, done, seen, objects, holder,
                 outdated, crashes>>

\* A plausible slip: the old points go before the new ones come.
SnapshotAndDelete(r) ==
  /\ Goto(r, "snapshot", "write")
  /\ before' = [before EXCEPT ![r] = SourcePoints(Session(r), SourceOf[req[r].doc])]
  /\ DeletePoints(before'[r])
  /\ UNCHANGED <<storeVars, req, done, seen, objects, holder, outdated, crashes>>

\* process_and_store_document: the ids already stored under this source
Snapshot(r) ==
  /\ Goto(r, "snapshot", "write")
  /\ before' = [before EXCEPT ![r] = SourcePoints(Session(r), SourceOf[req[r].doc])]
  /\ UNCHANGED <<storeVars, vectors, req, done, seen, objects, holder, outdated, crashes>>

\* ... one batch embedded and upserted
Write(r) ==
  /\ Goto(r, "write", IF done[r] + 1 = Len(Batches[req[r].doc]) THEN "prune" ELSE "write")
  /\ UpsertBatch(Session(r), req[r].doc, done[r] + 1)
  /\ done' = [done EXCEPT ![r] = @ + 1]
  /\ UNCHANGED <<storeVars, req, before, seen, objects, holder, outdated, crashes>>

Stored(r) == IF req[r].op = "async" THEN "settle" ELSE "release"

\* A plausible slip: what the new version no longer has stays.
PruneNothing(r) ==
  /\ Goto(r, "prune", Stored(r))
  /\ UNCHANGED <<storeVars, vectors, req, before, done, seen, objects, holder,
                 outdated, crashes>>

\* ... the stale ids deleted
Prune(r) ==
  /\ Goto(r, "prune", Stored(r))
  /\ DeletePoints(before[r] \ DocumentPoints(Session(r), req[r].doc))
  /\ UNCHANGED <<storeVars, req, before, done, seen, objects, holder, outdated, crashes>>

\* An embedding or a call to the collection raises.
VectorFault(r) ==
  /\ "vectors" \in Faults
  /\ \/ Goto(r, "snapshot", Failed(r))
     \/ Goto(r, "write", Failed(r))
     \/ Goto(r, "prune", Failed(r))
     \/ Goto(r, "erase", "abort")
  /\ UNCHANGED <<storeVars, vectors, req, before, done, seen, objects, holder,
                 outdated, crashes>>

\* update_job("completed")
Settle(r) ==
  /\ Goto(r, "settle", "release")
  /\ UpdateJob(r, "completed", Cardinality(DocumentPoints(Session(r), req[r].doc)))
  /\ UNCHANGED <<vectors, req, before, done, seen, objects, holder, outdated, crashes>>

\* A plausible slip: the job of a document that failed is left as it is.
FailSilently(r) ==
  /\ Goto(r, "fail", "abort")
  /\ UNCHANGED <<storeVars, vectors, req, before, done, seen, objects, holder,
                 outdated, crashes>>

\* update_job("failed")
Fail(r) ==
  /\ Goto(r, "fail", "abort")
  /\ UpdateJob(r, "failed", 0)
  /\ UNCHANGED <<vectors, req, before, done, seen, objects, holder, outdated, crashes>>

\* A plausible slip: the points stay when the session goes.
EraseNothing(r) ==
  /\ Goto(r, "erase", "unown")
  /\ UNCHANGED <<storeVars, vectors, req, before, done, seen, objects, holder,
                 outdated, crashes>>

\* delete_session_documents: get and delete are one step, since only holders
\* of the session's lock change its points
Erase(r) ==
  /\ Goto(r, "erase", "unown")
  /\ DeletePoints(SessionPoints(Session(r)))
  /\ UNCHANGED <<storeVars, req, before, done, seen, objects, holder, outdated, crashes>>

\* session_store.delete_session
Unown(r) ==
  /\ Goto(r, "unown", "release")
  /\ DeleteSession(Session(r), req[r].tenant)
  /\ outdated' = outdated \cup
                   {u \in Requests \ {r} : Admitted(u) /\ Session(u) = Session(r)}
  /\ UNCHANGED <<vectors, req, before, done, seen, objects, holder, crashes>>

\* The database stays locked for 10 seconds and the call raises: in ensure_owner
\* (its SELECT, its INSERT, or that of Recheck), create_job, or a later call.
MetadataFault(r) ==
  /\ "metadata" \in Faults
  /\ \/ /\ IF req[r].op \in LoopOps THEN LoopFree ELSE PoolFree
        /\ Goto(r, "new", "error")
     \/ Goto(r, "insert", "error")
     \/ /\ req[r].op = "async" /\ LoopFree
        /\ Goto(r, "reading", "error")
     \/ Goto(r, "confirm", "error")
     \/ Goto(r, "recheck", "abort")
     \/ Goto(r, "claim", "abort")
     \/ Goto(r, "settle", "fail")
     \/ Goto(r, "fail", "abort")
     \/ Goto(r, "unown", "abort")
  /\ UNCHANGED <<storeVars, vectors, req, before, done, seen, objects, holder,
                 outdated, crashes>>

\* The end of "with session_mutations.hold(session_id)"
Release(r) ==
  /\ \/ Goto(r, "release", IF req[r].op = "async" THEN "cleanup" ELSE "ok")
     \/ Goto(r, "abort", IF req[r].op = "async" THEN "cleanup" ELSE "error")
  /\ Mutex!Release(r, Session(r))
  /\ UNCHANGED <<storeVars, vectors, req, before, done, seen, objects, outdated, crashes>>

\* A plausible slip: the staged object outlives its worker.
CleanupForgotten(r) ==
  /\ Goto(r, "cleanup", "ok")
  /\ UNCHANGED <<storeVars, vectors, req, before, done, seen, objects, holder,
                 outdated, crashes>>

\* finally: object_store.delete, which raises if the file cannot be unlinked
Cleanup(r) ==
  /\ \/ /\ Goto(r, "cleanup", "ok")
        /\ objects' = objects \ {r}
     \/ /\ "staging" \in Faults
        /\ Goto(r, "cleanup", "error")
        /\ UNCHANGED objects
  /\ UNCHANGED <<storeVars, vectors, req, before, done, seen, holder, outdated, crashes>>
-----------------------------------------------------------------------------
\* get_documents: list_session_documents
Fetch(r) ==
  /\ Goto(r, "fetch", "ok")
  /\ seen' = [seen EXCEPT ![r] = SessionPoints(Session(r))]
  /\ UNCHANGED <<storeVars, vectors, req, before, done, objects, holder, outdated, crashes>>

\* chat_with_documents: query_documents in a worker thread
Query(r) ==
  /\ PoolFree
  /\ Goto(r, "asking", "ok")
  /\ \E points \in QueryResults(Session(r)) : seen' = [seen EXCEPT ![r] = points]
  /\ UNCHANGED <<storeVars, vectors, req, before, done, objects, holder, outdated, crashes>>

\* The process dies and is started again: whoever was on the way is gone, with
\* the locks; the database, the collection and the staged files remain.
Crash ==
  /\ crashes < MaxCrashes
  /\ crashes' = crashes + 1
  /\ pc' = [r \in Requests |-> IF pc[r] \in Terminal \cup {"new"} THEN pc[r] ELSE "dead"]
  /\ holder' = [s \in Sessions |-> NoRequest]
  /\ UNCHANGED <<storeVars, vectors, req, before, done, seen, objects, outdated>>

\* Every request has been answered: the workload is over.
Finished ==
  /\ \A r \in Requests : pc[r] \in Terminal
  /\ UNCHANGED vars

Step(r) ==
  \/ Arrive(r) \/ InsertOwner(r)
  \/ RejectUpload(r) \/ Submit(r)
  \/ Record(r) \/ Confirm(r) \/ Stage(r) \/ StartWorker(r)
  \/ Acquire(r) \/ Recheck(r) \/ Claim(r)
  \/ Unreadable(r) \/ Snapshot(r) \/ Write(r) \/ Prune(r) \/ VectorFault(r)
  \/ Settle(r) \/ Fail(r) \/ Erase(r) \/ Unown(r) \/ MetadataFault(r)
  \/ Release(r) \/ Cleanup(r)
  \/ Fetch(r) \/ Query(r)

Next ==
  \/ \E s \in Sessions, t \in Tenants : NewSession(s, t)
  \/ \E r \in Requests : Step(r)
  \/ Crash
  \/ Finished

Spec == Init /\ [][Next]_vars

\* Once a request has arrived, the event loop and the pool keep running it.
FairSpec == Spec /\ \A r \in Requests : WF_vars(pc[r] # "new" /\ Step(r))
-----------------------------------------------------------------------------
(* Safety: what the stores may hold.                                       *)

\* Every stored point belongs to a session that has an owner: an upload that
\* outlasts a deletion never brings documents back that nobody owns, and a
\* deletion that fails halfway, or a crash, leaves no unowned points.
NoOrphanVectors ==
  \A p \in vectors : owner[p.session] # NoTenant

\* A job row belongs to the present owner of its session, whatever deletions
\* and re-creations came between admission and create_job.
JobsBelongToOwners ==
  \A j \in Requests : jobs[j] # NoJob => owner[jobs[j].session] = jobs[j].tenant

Written(r) ==
  IF req[r].op \in Uploads THEN PointsUpTo(Session(r), req[r].doc, done[r]) ELSE {}

\* What a list or a chat returned was never stored by another tenant, also
\* when the session was deleted or a read waited since its owner was checked.
TenantIsolation ==
  \A r, u \in Requests :
    seen[r] \cap Written(u) # {} => req[r].tenant = req[u].tenant

\* A background worker ingests only for a job row that exists and says so: a
\* deletion that took the row while the worker was queued cancelled it.
WorkersHaveTheirJob ==
  \A r \in Requests :
    req[r].op = "async" /\ pc[r] \in Ingesting \cup {"settle", "fail"} =>
      jobs[r] # NoJob /\ jobs[r].status = "processing"

\* A staged object always has a worker that will delete it (as long as the
\* process lives and neither put nor the unlinking fails).
StagedObjectHasWorker ==
  \A r \in objects : Admitted(r)

\* A job that is not settled has a worker that will settle it (as long as the
\* process lives and neither the object store nor the database fails).
UnsettledJobHasWorker ==
  \A r \in Requests :
    jobs[r] # NoJob /\ jobs[r].status \in {"queued", "processing"} => Admitted(r)

\* No asynchronous upload is forgotten: what it left, object or row, is on
\* somebody's way, whatever was deleted or failed meanwhile.
NoUploadIsForgotten == StagedObjectHasWorker /\ UnsettledJobHasWorker

\* A worker asks update_job only for transitions that are listed: it never
\* raises ValueError, and a failed document never leaves its job as it was.
UpdatesAreListed ==
  \A r \in Requests :
    jobs[r] # NoJob =>
      /\ pc[r] = "claim"  => CanUpdateJob(r, "processing")
      /\ pc[r] = "settle" => CanUpdateJob(r, "completed")
      /\ pc[r] = "fail"   => CanUpdateJob(r, "failed")

\* docs/THREAT_MODEL.md:30: what is stored locally persists until the session
\* is deleted.  A staged upload without a worker has a live session.
NoObjectOutlivesItsSession ==
  \A r \in objects : pc[r] \in Terminal => owner[Session(r)] # NoTenant

(* The inductive invariant behind them.                                    *)

\* Each label belongs to the operations whose code it is in.
LabelsMatchOps ==
  \A r \in Requests :
    /\ pc[r] = "insert" => ~Authenticated
    /\ pc[r] \in {"reading"} \cup Ingesting => req[r].op \in Uploads
    /\ pc[r] = "recheck" => req[r].op = "upload"
    /\ pc[r] \in {"confirm", "stage", "accepted", "claim", "settle", "fail", "cleanup"} =>
         req[r].op = "async"
    /\ pc[r] \in {"erase", "unown"} => req[r].op = "delete"
    /\ pc[r] = "lock" => req[r].op \in Uploads \cup {"delete"}
    /\ pc[r] = "fetch" => req[r].op = "list"
    /\ pc[r] = "asking" => req[r].op = "chat"

\* Batches are counted from the first to the last.
Progress ==
  \A r \in Requests :
    /\ done[r] # 0 => pc[r] \in Terminal \cup {"write", "prune", "settle", "fail", "release",
                                             "abort", "cleanup"}
    /\ pc[r] = "write" => done[r] < Len(Batches[req[r].doc])
    /\ pc[r] = "prune" => done[r] = Len(Batches[req[r].doc])

\* The holder of a session's lock is the request that is inside hold().
LockHeldWhileCritical ==
  \A r \in Requests, s \in Sessions :
    holder[s] = r <=> pc[r] \in Critical /\ Session(r) = s

JobsDescribeRequests ==
  \A j \in Requests :
    jobs[j] # NoJob => jobs[j].session = Session(j) /\ jobs[j].tenant = req[j].tenant

\* The row found before ingesting is there until the lock is given up.
IngestsIntoOwnedSession ==
  \A r \in Requests : pc[r] \in Ingesting => owner[Session(r)] # NoTenant

\* Between erasing and unlocking, a deletion's session has no points.
ErasedUntilReleased ==
  \A r \in Requests :
    pc[r] \in {"unown", "release"} /\ req[r].op = "delete" => SessionPoints(Session(r)) = {}

\* Admitted, or has written or read something.
Served(r) == Admitted(r) \/ done[r] # 0 \/ seen[r] # {}

\* A session serves the requests of one tenant over its whole life.
SessionServesOneTenant ==
  /\ \A s \in Sessions : owner[s] # NoTenant => s \in issued
  /\ \A r \in Requests : Served(r) =>
       Session(r) \in issued /\ owner[Session(r)] \in {NoTenant, req[r].tenant}
  /\ \A r, u \in Requests :
       Served(r) /\ Served(u) /\ Session(r) = Session(u) => req[r].tenant = req[u].tenant
  /\ \A r \in Requests : \A p \in seen[r] : p.session = Session(r)

\* With API keys a deleted session stays deleted for whoever it outdated.
OutdatedIsCancelled ==
  Authenticated =>
    \A r \in outdated :
      /\ Session(r) \in issued
      /\ owner[Session(r)] = NoTenant
      /\ pc[r] \notin Ingesting

\* Locks, rows, points and requests agree: the inductive invariant.
ServiceInv ==
  /\ TypeOK
  /\ LabelsMatchOps
  /\ Progress
  /\ LockHeldWhileCritical
  /\ JobsDescribeRequests
  /\ JobsBelongToOwners
  /\ WorkersHaveTheirJob
  /\ IngestsIntoOwnedSession
  /\ NoOrphanVectors
  /\ ErasedUntilReleased
  /\ SessionServesOneTenant
  /\ OutdatedIsCancelled

\* While a version is stored, the batches so far are there and the rest is what
\* was there before; once it is stored, it alone is there.  Behind
\* SuccessMeansStored and ImplementsSessionContent.
VersionsComeWhole ==
  /\ \A j \in Requests : jobs[j] # NoJob => req[j].op = "async"
  /\ \A r \in Requests :
       LET here == SourcePoints(Session(r), SourceOf[req[r].doc]) IN
       /\ pc[r] \in {"write", "prune"} =>
            /\ PointsUpTo(Session(r), req[r].doc, done[r]) \subseteq here
            /\ here \subseteq before[r] \cup PointsUpTo(Session(r), req[r].doc, done[r])
            /\ \A p \in before[r] : p.session = Session(r) /\ p.source = SourceOf[req[r].doc]
       /\ pc[r] = "settle" \/ (pc[r] = "release" /\ req[r].op = "upload") =>
            here = DocumentPoints(Session(r), req[r].doc)

\* A job is that of an asynchronous upload, and queued until a worker has
\* claimed it.  Behind UpdatesAreListed and NoUploadIsForgotten.
QueuedUntilClaimed ==
  \A r \in Requests :
    jobs[r] # NoJob =>
      /\ req[r].op = "async"
      /\ pc[r] \in {"confirm", "stage", "accepted", "lock", "claim"} =>
           jobs[r].status = "queued"

(* Safety: what a step may never do.                                       *)

\* tests/test_document_deletion_race.py:17: an upload admitted before its
\* session was deleted stores nothing afterwards.
StaleUploadsNeverIngest ==
  [][\A r \in outdated : done'[r] = done[r]]_vars

Completes(r) ==
  \/ req[r].op = "upload" /\ pc[r] # "ok" /\ pc'[r] = "ok"
  \/ jobs[r] # NoJob /\ jobs[r].status # "completed"
       /\ jobs'[r] # NoJob /\ jobs'[r].status = "completed"

\* When an upload is reported as stored (200, or a completed job with its
\* chunk count) the collection has exactly that version under that source.
SuccessMeansStored ==
  [][\A r \in Requests :
       Completes(r) =>
         /\ SourcePoints(Session(r), SourceOf[req[r].doc])
              = DocumentPoints(Session(r), req[r].doc)
         /\ jobs'[r] # NoJob =>
              jobs'[r].chunks = Cardinality(DocumentPoints(Session(r), req[r].doc))]_vars

\* The change the holder of a session's lock makes.
ChangeOf(s) ==
  IF holder[s] = NoRequest THEN NoDoc
  ELSE IF req[holder[s]].op = "delete" THEN "deletion" ELSE req[holder[s]].doc

Content == INSTANCE SessionContent WITH
  PointsOf <- DocumentPoints,
  Nothing  <- NoDoc,
  owned    <- {s \in Sessions : owner[s] # NoTenant},
  content  <- vectors,
  change   <- [s \in Sessions |-> ChangeOf(s)]

\* The service keeps what SessionContent promises: whatever else goes on, a
\* session's points change under its lock only, come only while it is owned,
\* and go only in a deletion, before its row does, or when the version that
\* replaces them is in the collection as a whole.
ImplementsSessionContent == Content!ContentSpec

\* When a deletion is answered with success, no point of the session is left.
DeletionIsComplete ==
  [][\A r \in Requests :
       req[r].op = "delete" /\ pc[r] # "ok" /\ pc'[r] = "ok" =>
         {p \in vectors' : p.session = Session(r)} = {}]_vars

(* Liveness.                                                               *)

\* Every request that has arrived ends, whoever else waits for the same
\* session or the same pool of threads.
EveryRequestEnds ==
  \A r \in Requests : pc[r] # "new" ~> pc[r] \in Terminal

\* An accepted asynchronous upload is settled: its job completes, fails or is
\* cancelled with its session, and its staged object goes.
AcceptedJobSettles ==
  \A r \in Requests :
    pc[r] = "accepted" ~>
      /\ jobs[r] = NoJob \/ jobs[r].status \in {"completed", "failed"}
      /\ r \notin objects
=============================================================================
