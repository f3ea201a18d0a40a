------------------------- MODULE CareerServiceProofs -------------------------
(***************************************************************************)
(* Proofs about CareerService for any tenants, sessions, requests,         *)
(* documents and pool size, with any faults and any bound on crashes.      *)
(***************************************************************************)
EXTENDS CareerService, FiniteSetTheorems, TLAPS

(* Documents and points. *)

LEMMA DocumentPointsType ==
  ASSUME NEW s \in Sessions, NEW d \in Docs, NEW n \in 0..Len(Batches[d])
  PROVE  PointsUpTo(s, d, n) \subseteq [session : {s}, source : {SourceOf[d]}, chunk : Chunks]
<1>1. \A i \in 1..n : Batches[d][i] \subseteq Chunks
  BY RagEngineAssumption DEF RagEngineAssumption
<1>2. QED
  BY <1>1 DEF PointsUpTo, BatchPoints

LEMMA DocumentPointsFinite ==
  ASSUME NEW s \in Sessions, NEW d \in Docs
  PROVE  Cardinality(DocumentPoints(s, d)) \in Nat
<1> DEFINE Row == [session : {s}, source : {SourceOf[d]}, chunk : Chunks]
           f == [c \in Chunks |-> [session |-> s, source |-> SourceOf[d], chunk |-> c]]
<1>1. f \in Surjection(Chunks, Row)
  <2>1. \A p \in Row : p = [session |-> s, source |-> SourceOf[d], chunk |-> p.chunk]
                       /\ p.chunk \in Chunks
    OBVIOUS
  <2>2. \A p \in Row : \E c \in Chunks : f[c] = p
    BY <2>1
  <2>3. f \in [Chunks -> Row]
    OBVIOUS
  <2>4. QED
    BY <2>2, <2>3 DEF Surjection
<1>2. IsFiniteSet(Row)
  BY <1>1, FS_Surjection, RagEngineAssumption DEF RagEngineAssumption
<1>3. Len(Batches[d]) \in Nat
  BY RagEngineAssumption DEF RagEngineAssumption
<1>4. DocumentPoints(s, d) \subseteq Row
  BY <1>3, DocumentPointsType DEF DocumentPoints
<1>5. QED
  BY <1>2, <1>4, FS_Subset, FS_CardinalityType

LEMMA ReqFields ==
  ASSUME TypeOK, NEW r \in Requests
  PROVE  /\ req[r].op \in AllOps
         /\ req[r].tenant \in Tenants
         /\ Session(r) \in Sessions
         /\ req[r].op \in Uploads => req[r].doc \in Docs
BY CareerServiceAssumption
   DEF TypeOK, RequestType, Session, Uploads, AllOps, CareerServiceAssumption

LEMMA UpdateJobType ==
  ASSUME TypeOK, NEW j \in Requests, NEW status \in JobStatus, NEW chunks \in Nat,
         UpdateJob(j, status, chunks)
  PROVE  jobs' \in [Requests -> JobRecord \cup {NoJob}] /\ owner' = owner /\ issued' = issued
<1>1. CASE jobs[j] = NoJob
  BY <1>1 DEF UpdateJob, TypeOK, StoreTypeOK
<1>2. CASE jobs[j] # NoJob
  <2>1. jobs[j] \in JobRecord
    BY <1>2 DEF TypeOK, StoreTypeOK
  <2>2. [jobs[j] EXCEPT !.status = status, !.chunks = chunks] \in JobRecord
    BY <2>1 DEF JobRecord
  <2>3. jobs' = [jobs EXCEPT ![j] = [jobs[j] EXCEPT !.status = status, !.chunks = chunks]]
    BY <1>2 DEF UpdateJob, TypeOK, StoreTypeOK
  <2>4. QED
    BY <2>2, <2>3 DEF UpdateJob, TypeOK, StoreTypeOK
<1>3. QED
  BY <1>1, <1>2

LEMMA InitType == Init => TypeOK
BY SessionStoreAssumption, CareerServiceAssumption
   DEF Init, TypeOK, StoreInit, StoreTypeOK, Labels, Mutex!MutexInit, Mutex!MutexTypeOK,
       SessionStoreAssumption, CareerServiceAssumption

LEMMA GotoType ==
  ASSUME TypeOK, NEW r \in Requests, NEW from, NEW to \in Labels, Goto(r, from, to)
  PROVE  pc' \in [Requests -> Labels]
BY DEF Goto, TypeOK

LEMMA StepKeepsType ==
  ASSUME ServiceInv, NEW r \in Requests, Step(r)
  PROVE  TypeOK'
<1> USE ReqFields, SessionStoreAssumption, RagEngineAssumption, CareerServiceAssumption
    DEF ServiceInv, TypeOK, StoreTypeOK, storeVars, Labels, Critical, Ingesting, Terminal,
        Goto, Uploads, LoopOps, AllOps, AfterAdmission, Failed, Stored, Mutex!MutexTypeOK,
        SessionStoreAssumption, RagEngineAssumption, CareerServiceAssumption
<1>a. AfterAdmission(r) \in Labels /\ Failed(r) \in Labels /\ Stored(r) \in Labels
  OBVIOUS
<1>t. TypeOK
  OBVIOUS
<1>1. CASE Arrive(r)
  <2>1. \E to \in Labels : Goto(r, "new", to)
    BY ONLY <1>1, <1>a DEF Arrive, Labels, Terminal
  <2>2. pc' \in [Requests -> Labels]
    BY ONLY <1>t, <2>1, GotoType
  <2>3. QED
    BY <1>1, <2>2 DEF Arrive
<1>2. CASE InsertOwner(r)
  <2>0. \E to \in Labels : Goto(r, "insert", to)
    BY ONLY <1>2, <1>a DEF InsertOwner, Labels, Terminal
  <2>1. pc' \in [Requests -> Labels]
    BY ONLY <1>t, <2>0, GotoType
  <2>2. QED
    BY <1>2, <2>1 DEF InsertOwner, InsertSession
<1>3. CASE RejectUpload(r)
  BY <1>3 DEF RejectUpload
<1>4. CASE Submit(r)
  BY <1>4 DEF Submit
<1>5. CASE Record(r)
  <2>1. pc' \in [Requests -> Labels]
    BY <1>5 DEF Record
  <2>2. [session |-> Session(r), tenant |-> req[r].tenant, status |-> "queued", chunks |-> 0]
          \in JobRecord
    BY DEF JobRecord, JobStatus
  <2>3. jobs' \in [Requests -> JobRecord \cup {NoJob}] /\ owner' = owner /\ issued' = issued
    <3>1. CASE InsertJob(r, Session(r), req[r].tenant)
      <4> HIDE DEF JobRecord
      <4>1. QED
        BY <2>2, <3>1 DEF InsertJob
    <3>2. CASE UNCHANGED storeVars
      BY <3>2
    <3>3. QED
      BY <1>5, <3>1, <3>2 DEF Record
  <2>4. QED
    BY <1>5, <2>1, <2>3 DEF Record
<1>6. CASE Confirm(r)
  BY <1>6 DEF Confirm
<1>7. CASE Stage(r)
  <2>1. pc' \in [Requests -> Labels]
    BY <1>7 DEF Stage
  <2>2. QED
    BY <1>7, <2>1 DEF Stage
<1>8. CASE StartWorker(r)
  BY <1>8 DEF StartWorker
<1>9. CASE Acquire(r)
  BY <1>9 DEF Acquire, Mutex!Acquire
<1>10. CASE Recheck(r)
  BY <1>10 DEF Recheck
<1>11. CASE Claim(r)
  <2>1. pc' \in [Requests -> Labels]
    BY <1>11 DEF Claim
  <2>2. jobs' \in [Requests -> JobRecord \cup {NoJob}] /\ owner' = owner /\ issued' = issued
    BY <1>11, UpdateJobType DEF Claim, JobStatus
  <2>3. QED
    BY <1>11, <2>1, <2>2 DEF Claim
<1>12. CASE Unreadable(r)
  BY <1>12 DEF Unreadable
<1>13. CASE Snapshot(r)
  BY <1>13 DEF Snapshot, SourcePoints
<1>14. CASE Write(r)
  <2>1. pc' \in [Requests -> Labels] /\ done' \in [Requests -> Nat]
    BY <1>14 DEF Write
  <2>2. req[r].doc \in Docs /\ done[r] + 1 \in 1..Len(Batches[req[r].doc])
    BY <1>14 DEF Write, Progress, LabelsMatchOps
  <2>3. BatchPoints(Session(r), req[r].doc, done[r] + 1)
          \subseteq [session : Sessions, source : Sources, chunk : Chunks]
    <3>1. Batches[req[r].doc][done[r] + 1] \subseteq Chunks
      BY <2>2
    <3>2. QED
      BY <2>2, <3>1 DEF BatchPoints
  <2>4. QED
    BY <1>14, <2>1, <2>3 DEF Write, UpsertBatch
<1>15. CASE Prune(r)
  BY <1>15 DEF Prune, DeletePoints
<1>16. CASE VectorFault(r)
  <2>0. \E from, to \in Labels : Goto(r, from, to)
    BY ONLY <1>16, <1>a DEF VectorFault, Labels, Critical, Ingesting
  <2>1. pc' \in [Requests -> Labels]
    BY ONLY <1>t, <2>0, GotoType
  <2>2. QED
    BY <1>16, <2>1 DEF VectorFault
<1>17. CASE Settle(r)
  <2>1. pc' \in [Requests -> Labels]
    BY <1>17 DEF Settle
  <2>2. jobs' \in [Requests -> JobRecord \cup {NoJob}] /\ owner' = owner /\ issued' = issued
    <3>1. req[r].doc \in Docs
      BY <1>17 DEF Settle, LabelsMatchOps
    <3>2. QED
      BY <1>17, <3>1, UpdateJobType, DocumentPointsFinite DEF Settle, JobStatus
  <2>3. QED
    BY <1>17, <2>1, <2>2 DEF Settle
<1>18. CASE Fail(r)
  <2>1. pc' \in [Requests -> Labels]
    BY <1>18 DEF Fail
  <2>2. jobs' \in [Requests -> JobRecord \cup {NoJob}] /\ owner' = owner /\ issued' = issued
    BY <1>18, UpdateJobType DEF Fail, JobStatus
  <2>3. QED
    BY <1>18, <2>1, <2>2 DEF Fail
<1>19. CASE Erase(r)
  BY <1>19 DEF Erase, DeletePoints
<1>20. CASE Unown(r)
  BY <1>20 DEF Unown, DeleteSession
<1>21. CASE MetadataFault(r)
  <2>0. \E from, to \in Labels : Goto(r, from, to)
    BY ONLY <1>21 DEF MetadataFault, Labels, Critical, Terminal
  <2>1. pc' \in [Requests -> Labels]
    BY ONLY <1>t, <2>0, GotoType
  <2>2. QED
    BY <1>21, <2>1 DEF MetadataFault
<1>22. CASE Release(r)
  <2>0. \E from, to \in Labels : Goto(r, from, to)
    BY ONLY <1>22 DEF Release, Labels, Critical, Terminal
  <2>1. pc' \in [Requests -> Labels]
    BY ONLY <1>t, <2>0, GotoType
  <2>2. QED
    BY <1>22, <2>1 DEF Release, Mutex!Release
<1>23. CASE Cleanup(r)
  <2>0. \E to \in Labels : Goto(r, "cleanup", to)
    BY ONLY <1>23 DEF Cleanup, Labels, Terminal
  <2>1. pc' \in [Requests -> Labels]
    BY ONLY <1>t, <2>0, GotoType
  <2>2. QED
    BY <1>23, <2>1 DEF Cleanup
<1>24. CASE Fetch(r)
  BY <1>24 DEF Fetch, SessionPoints
<1>25. CASE Query(r)
  BY <1>25 DEF Query, QueryResults, SessionPoints
<1>26. QED
  BY <1>1, <1>2, <1>3, <1>4, <1>5, <1>6, <1>7, <1>8, <1>9, <1>10, <1>11, <1>12, <1>13,
     <1>14, <1>15, <1>16, <1>17, <1>18, <1>19, <1>20, <1>21, <1>22, <1>23, <1>24, <1>25 DEF Step

(* The shape of a step. *)

\* The steps that change no store and no lock.
Quiet(r) ==
  \/ Arrive(r) \/ RejectUpload(r) \/ Submit(r) \/ Confirm(r) \/ Stage(r) \/ StartWorker(r)
  \/ Recheck(r) \/ Unreadable(r) \/ Snapshot(r) \/ VectorFault(r) \/ MetadataFault(r)
  \/ Cleanup(r)

LEMMA QuietFrame ==
  ASSUME NEW r \in Requests, Quiet(r)
  PROVE  UNCHANGED <<owner, issued, jobs, vectors, done, seen, holder, outdated>>
BY DEF Quiet, Arrive, RejectUpload, Submit, Confirm, Stage, StartWorker, Recheck,
       Unreadable,
       Snapshot, VectorFault, MetadataFault, Cleanup, storeVars

\* A step of r changes nobody else's label, progress or answer.
LEMMA StepFrame ==
  ASSUME TypeOK, NEW r \in Requests, Step(r)
  PROVE  /\ req' = req /\ crashes' = crashes
         /\ \A u \in Requests \ {r} :
              pc'[u] = pc[u] /\ done'[u] = done[u] /\ seen'[u] = seen[u]
<1> USE DEF TypeOK, Goto
<1>1. CASE Quiet(r)
  BY <1>1, QuietFrame
     DEF Quiet, Arrive, RejectUpload, Submit, Confirm, Stage, StartWorker, Recheck,
            Unreadable,
         Snapshot, VectorFault, MetadataFault, Cleanup
<1>2. CASE InsertOwner(r) \/ Record(r) \/ Acquire(r) \/ Claim(r) \/ Settle(r) \/ Fail(r)
  BY <1>2 DEF InsertOwner, Record, Acquire, Claim, Settle, Fail
<1>3. CASE Write(r) \/ Prune(r) \/ Erase(r) \/ Unown(r) \/ Release(r) \/ Fetch(r) \/ Query(r)
  BY <1>3 DEF Write, Prune, Erase, Unown, Release, Fetch, Query
<1>4. QED
  BY <1>1, <1>2, <1>3 DEF Step, Quiet

LEMMA StepKeepsLabels ==
  ASSUME ServiceInv, NEW r \in Requests, Step(r)
  PROVE  LabelsMatchOps'
<1>1. TypeOK /\ LabelsMatchOps /\ req[r].op \in AllOps
  BY ReqFields DEF ServiceInv
<1>2. LabelsMatchOps!(r)'
  <2> USE <1>1, StepFrame, CareerServiceAssumption
      DEF TypeOK, LabelsMatchOps, Goto, Ingesting, Uploads, LoopOps, AllOps,
             AfterAdmission,
          Failed, Stored, CareerServiceAssumption
  <2>1. CASE Arrive(r)
    BY <2>1 DEF Arrive
  <2>2. CASE InsertOwner(r)
    BY <2>2 DEF InsertOwner
  <2>3. CASE RejectUpload(r) \/ Submit(r) \/ Record(r) \/ Confirm(r) \/ Stage(r) \/ StartWorker(r)
    BY <2>3 DEF RejectUpload, Submit, Record, Confirm, Stage, StartWorker
  <2>4. CASE Acquire(r)
    BY <2>4 DEF Acquire
  <2>5. CASE Recheck(r) \/ Claim(r) \/ Unreadable(r) \/ Snapshot(r)
    BY <2>5 DEF Recheck, Claim, Unreadable, Snapshot
  <2>6. CASE Write(r) \/ Prune(r) \/ VectorFault(r)
    BY <2>6 DEF Write, Prune, VectorFault
  <2>7. CASE Settle(r) \/ Fail(r) \/ Erase(r) \/ Unown(r) \/ MetadataFault(r)
    BY <2>7 DEF Settle, Fail, Erase, Unown, MetadataFault
  <2>8. CASE Release(r) \/ Cleanup(r) \/ Fetch(r) \/ Query(r)
    BY <2>8 DEF Release, Cleanup, Fetch, Query
  <2>9. QED
    BY <2>1, <2>2, <2>3, <2>4, <2>5, <2>6, <2>7, <2>8 DEF Step
<1>3. QED
  BY <1>1, <1>2, StepFrame DEF LabelsMatchOps

LEMMA StepKeepsProgress ==
  ASSUME ServiceInv, NEW r \in Requests, Step(r)
  PROVE  Progress'
<1>1. TypeOK /\ LabelsMatchOps /\ Progress /\ req[r].op \in AllOps
      /\ (req[r].op \in Uploads => req[r].doc \in Docs)
  BY ReqFields DEF ServiceInv
<1>2. Progress!(r)'
  <2> USE <1>1, StepFrame, RagEngineAssumption
      DEF TypeOK, Progress, Goto, Terminal, AfterAdmission, Failed, Stored, Uploads,
             AllOps
  <2>1. CASE Arrive(r) \/ InsertOwner(r) \/ RejectUpload(r) \/ Submit(r) \/ Record(r)
             \/ Confirm(r) \/ Stage(r) \/ StartWorker(r) \/ Acquire(r)
    BY <2>1 DEF Arrive, InsertOwner, RejectUpload, Submit, Record, Confirm, Stage,
                StartWorker, Acquire
  <2>2. CASE Recheck(r) \/ Claim(r) \/ Unreadable(r) \/ VectorFault(r)
    BY <2>2 DEF Recheck, Claim, Unreadable, VectorFault
  <2>3. CASE Snapshot(r)
    <3>1. req[r].doc \in Docs
      BY <2>3 DEF Snapshot, LabelsMatchOps, Ingesting
    <3>2. 0 < Len(Batches[req[r].doc])
      BY <3>1 DEF RagEngineAssumption
    <3>3. QED
      BY <2>3, <3>2 DEF Snapshot
  <2>4. CASE Write(r)
    <3>1. req[r].doc \in Docs
      BY <2>4 DEF Write, LabelsMatchOps, Ingesting
    <3>2. Len(Batches[req[r].doc]) \in Nat /\ done[r] \in Nat
      BY <3>1 DEF RagEngineAssumption
    <3>3. done[r] < Len(Batches[req[r].doc]) /\ done'[r] = done[r] + 1
      BY <2>4 DEF Write
    <3>4. pc'[r] = IF done[r] + 1 = Len(Batches[req[r].doc]) THEN "prune" ELSE "write"
      BY <2>4 DEF Write
    <3>5. QED
      BY <3>2, <3>3, <3>4
  <2>5. CASE Prune(r) \/ Settle(r) \/ Fail(r) \/ Erase(r) \/ Unown(r) \/ MetadataFault(r)
    BY <2>5 DEF Prune, Settle, Fail, Erase, Unown, MetadataFault
  <2>6. CASE Release(r) \/ Cleanup(r) \/ Fetch(r) \/ Query(r)
    BY <2>6 DEF Release, Cleanup, Fetch, Query
  <2>7. QED
    BY <2>1, <2>2, <2>3, <2>4, <2>5, <2>6 DEF Step
<1>3. QED
  BY <1>1, <1>2, StepFrame DEF Progress

\* Only Acquire and Release go in and out of hold().
LEMMA InsideStaysInside ==
  ASSUME ServiceInv, NEW r \in Requests, Step(r), ~Acquire(r), ~Release(r)
  PROVE  holder' = holder /\ (pc[r] \in Critical <=> pc'[r] \in Critical)
<1> USE ReqFields DEF ServiceInv, TypeOK, Goto, Critical, Ingesting, AfterAdmission, Failed, Stored,
                      Uploads, AllOps
<1>1. CASE Arrive(r) \/ InsertOwner(r) \/ RejectUpload(r) \/ Submit(r) \/ Record(r)
           \/ Confirm(r) \/ Stage(r) \/ StartWorker(r)
  BY <1>1 DEF Arrive, InsertOwner, RejectUpload, Submit, Record, Confirm, Stage,
     StartWorker
<1>2. CASE Recheck(r) \/ Claim(r) \/ Unreadable(r) \/ Snapshot(r) \/ Write(r) \/ Prune(r)
           \/ VectorFault(r)
  BY <1>2 DEF Recheck, Claim, Unreadable, Snapshot, Write, Prune, VectorFault
<1>3. CASE Settle(r) \/ Fail(r) \/ Erase(r) \/ Unown(r) \/ MetadataFault(r)
  BY <1>3 DEF Settle, Fail, Erase, Unown, MetadataFault
<1>4. CASE Cleanup(r) \/ Fetch(r) \/ Query(r)
  BY <1>4 DEF Cleanup, Fetch, Query
<1>5. QED
  BY <1>1, <1>2, <1>3, <1>4 DEF Step

LEMMA StepKeepsLock ==
  ASSUME ServiceInv, NEW r \in Requests, Step(r)
  PROVE  LockHeldWhileCritical'
<1> USE DEF LockHeldWhileCritical, Session
<1>1. /\ TypeOK /\ LockHeldWhileCritical /\ Session(r) \in Sessions
      /\ NoRequest \notin Requests /\ req[r].op \in AllOps
  BY ReqFields, CareerServiceAssumption DEF ServiceInv, CareerServiceAssumption
<1>2. CASE Acquire(r)
  BY <1>1, <1>2, StepFrame
     DEF Acquire, Mutex!Acquire, Goto, Critical, TypeOK, Mutex!MutexTypeOK
<1>3. CASE Release(r)
  BY <1>1, <1>3, StepFrame
     DEF Release, Mutex!Release, Goto, Critical, Ingesting, TypeOK, Mutex!MutexTypeOK
<1>4. CASE ~Acquire(r) /\ ~Release(r)
  BY <1>1, <1>4, StepFrame, InsideStaysInside
<1>5. QED
  BY <1>2, <1>3, <1>4

\* Two requests are never inside hold() for one session.
LEMMA OneCriticalPerSession ==
  ASSUME ServiceInv, NEW r \in Requests, NEW u \in Requests,
         pc[r] \in Critical, pc[u] \in Critical, Session(r) = Session(u)
  PROVE  r = u
<1>1. Session(r) \in Sessions
  BY ReqFields DEF ServiceInv
<1>2. QED
  BY <1>1 DEF ServiceInv, LockHeldWhileCritical

(* Rows of the metadata store. *)

LEMMA UpdateJobEffect ==
  ASSUME TypeOK, NEW j \in Requests, NEW status, NEW chunks, UpdateJob(j, status, chunks)
  PROVE  /\ owner' = owner /\ issued' = issued
         /\ \A k \in Requests \ {j} : jobs'[k] = jobs[k]
         /\ jobs[j] = NoJob => jobs'[j] = NoJob
         /\ jobs[j] # NoJob /\ jobs'[j] # NoJob =>
              /\ jobs'[j].session = jobs[j].session
              /\ jobs'[j].tenant = jobs[j].tenant
              /\ jobs'[j].status = status
<1>1. CASE jobs[j] = NoJob
  BY <1>1 DEF UpdateJob
<1>2. CASE jobs[j] # NoJob
  <2>1. jobs[j] \in JobRecord /\ jobs \in [Requests -> JobRecord \cup {NoJob}]
    BY <1>2 DEF TypeOK, StoreTypeOK
  <2>2. jobs' = [jobs EXCEPT ![j] = [jobs[j] EXCEPT !.status = status, !.chunks = chunks]]
    BY <1>2, <2>1 DEF UpdateJob
  <2>3. \A k \in Requests \ {j} : jobs'[k] = jobs[k]
    BY <2>1, <2>2
  <2>4. jobs'[j] = [jobs[j] EXCEPT !.status = status, !.chunks = chunks]
    BY <2>1, <2>2
  <2>5. /\ jobs'[j].session = jobs[j].session
        /\ jobs'[j].tenant = jobs[j].tenant
        /\ jobs'[j].status = status
    BY <2>1, <2>4 DEF JobRecord
  <2>6. QED
    BY <1>2, <2>3, <2>5 DEF UpdateJob
<1>3. QED
  BY <1>1, <1>2

\* A row that exists is not lost by updating it.
LEMMA UpdateJobKeepsRow ==
  ASSUME TypeOK, NEW j \in Requests, NEW status \in JobStatus, NEW chunks \in Nat,
         UpdateJob(j, status, chunks), jobs[j] # NoJob
  PROVE  jobs'[j] # NoJob
<1>1. jobs[j] \in JobRecord /\ jobs \in [Requests -> JobRecord \cup {NoJob}]
  BY DEF TypeOK, StoreTypeOK
<1>2. jobs'[j] = [jobs[j] EXCEPT !.status = status, !.chunks = chunks]
  BY <1>1 DEF UpdateJob
<1>3. jobs'[j] \in JobRecord
  BY <1>1, <1>2 DEF JobRecord
<1>4. QED
  BY <1>3, SessionStoreAssumption DEF SessionStoreAssumption

LEMMA InsertJobEffect ==
  ASSUME TypeOK, NEW j \in Requests, NEW s, NEW t, InsertJob(j, s, t)
  PROVE  /\ owner' = owner /\ issued' = issued /\ owner[s] # NoTenant
         /\ \A k \in Requests \ {j} : jobs'[k] = jobs[k]
         /\ jobs'[j].session = s /\ jobs'[j].tenant = t /\ jobs'[j].status = "queued"
<1>1. jobs \in [Requests -> JobRecord \cup {NoJob}]
  BY DEF TypeOK, StoreTypeOK
<1> HIDE DEF JobRecord
<1>2. jobs'[j] = [session |-> s, tenant |-> t, status |-> "queued", chunks |-> 0]
  BY <1>1 DEF InsertJob
<1>3. \A k \in Requests \ {j} : jobs'[k] = jobs[k]
  BY <1>1 DEF InsertJob
<1>4. QED
  BY <1>2, <1>3 DEF InsertJob

LEMMA DeleteSessionEffect ==
  ASSUME TypeOK, NEW s \in Sessions, NEW t \in Tenants, DeleteSession(s, t)
  PROVE  /\ \A z \in Sessions \ {s} : owner'[z] = owner[z]
         /\ owner'[s] = IF owner[s] = t THEN NoTenant ELSE owner[s]
         /\ issued' = issued
         /\ \A j \in Requests : jobs'[j] \in {jobs[j], NoJob}
         /\ \A j \in Requests : jobs[j] # NoJob /\ jobs[j].session # s => jobs'[j] = jobs[j]
         /\ \A j \in Requests : owner[s] = t /\ jobs'[j] # NoJob => jobs'[j].session # s
BY DEF DeleteSession, TypeOK, StoreTypeOK

\* Who gets as far as create_job owns the session, if it has an owner at all.
LEMMA RecordedByOwner ==
  ASSUME ServiceInv, NEW r \in Requests, Record(r), owner[Session(r)] # NoTenant
  PROVE  owner[Session(r)] = req[r].tenant
<1>1. Served(r)
  BY DEF Record, Goto, Served, Admitted, Terminal
<1>2. QED
  BY <1>1 DEF ServiceInv, SessionServesOneTenant

LEMMA StepKeepsJobs ==
  ASSUME ServiceInv, NEW r \in Requests, Step(r)
  PROVE  JobsDescribeRequests' /\ JobsBelongToOwners'
<1>1. /\ TypeOK /\ JobsDescribeRequests /\ JobsBelongToOwners /\ LabelsMatchOps
      /\ Session(r) \in Sessions /\ req[r].tenant \in Tenants
  BY ReqFields DEF ServiceInv
<1>2. \A j \in Requests : jobs[j] # NoJob => jobs[j].session \in Sessions
  BY <1>1 DEF TypeOK, StoreTypeOK, JobRecord
<1> USE <1>1, <1>2, StepFrame DEF JobsDescribeRequests, JobsBelongToOwners, Session
<1>3. CASE Quiet(r)
  BY <1>3, QuietFrame
<1>4. CASE InsertOwner(r)
  <2>1. jobs' = jobs /\ \A s \in Sessions : owner[s] # NoTenant => owner'[s] = owner[s]
    BY <1>4 DEF InsertOwner, InsertSession, TypeOK, StoreTypeOK, storeVars
  <2>2. \A j \in Requests : jobs[j] # NoJob => owner[jobs[j].session] # NoTenant
    BY SessionStoreAssumption DEF TypeOK, StoreTypeOK, JobRecord, SessionStoreAssumption
  <2>3. QED
    BY <2>1, <2>2
<1>5. CASE Record(r)
  <2>1. CASE InsertJob(r, Session(r), req[r].tenant)
    <3>1. owner[Session(r)] = req[r].tenant
      BY <1>5, <2>1, InsertJobEffect, RecordedByOwner
    <3>2. QED
      BY <2>1, <3>1, InsertJobEffect
  <2>2. CASE UNCHANGED storeVars
    BY <2>2 DEF storeVars
  <2>3. QED
    BY <1>5, <2>1, <2>2 DEF Record
<1>6. CASE Claim(r) \/ Settle(r) \/ Fail(r)
  <2>1. \/ UNCHANGED storeVars
        \/ \E status, chunks : UpdateJob(r, status, chunks)
    BY <1>6 DEF Claim, Settle, Fail
  <2>2. ASSUME NEW status, NEW chunks, UpdateJob(r, status, chunks)
        PROVE  JobsDescribeRequests' /\ JobsBelongToOwners'
    BY <2>2, UpdateJobEffect
  <2>3. QED
    BY <2>1, <2>2 DEF storeVars
<1>7. CASE Unown(r)
  <2>1. DeleteSession(Session(r), req[r].tenant)
    BY <1>7 DEF Unown
  <2>2. \A j \in Requests : jobs'[j] # NoJob =>
          jobs'[j] = jobs[j] /\ owner'[jobs[j].session] = owner[jobs[j].session]
    BY <2>1, DeleteSessionEffect
  <2>3. QED
    BY <2>2
<1>8. CASE Acquire(r) \/ Write(r) \/ Prune(r) \/ Erase(r) \/ Release(r) \/ Fetch(r) \/ Query(r)
  BY <1>8 DEF Acquire, Write, Prune, Erase, Release, Fetch, Query, storeVars
<1>9. QED
  BY <1>3, <1>4, <1>5, <1>6, <1>7, <1>8 DEF Step, Quiet

LEMMA StepKeepsWorkers ==
  ASSUME ServiceInv, NEW r \in Requests, Step(r)
  PROVE  WorkersHaveTheirJob'
<1>1. /\ TypeOK /\ WorkersHaveTheirJob /\ LabelsMatchOps /\ JobsDescribeRequests
      /\ Session(r) \in Sessions /\ req[r].tenant \in Tenants /\ req[r].op \in AllOps
  BY ReqFields DEF ServiceInv
<1> DEFINE Working == Ingesting \cup {"settle", "fail"}
<1> USE <1>1, StepFrame DEF WorkersHaveTheirJob
<1>2. CASE Quiet(r)
  <2>1. req[r].op = "async" /\ pc'[r] \in Working => pc[r] \in Working
    BY <1>2 DEF Quiet, Arrive, RejectUpload, Submit, Confirm, Stage, StartWorker, Recheck,
       Unreadable, Snapshot, VectorFault, MetadataFault, Cleanup, Goto, AfterAdmission,
       LabelsMatchOps, Ingesting, TypeOK, Failed, Uploads, AllOps
  <2>2. QED
    BY <1>2, <2>1, QuietFrame
<1>3. CASE InsertOwner(r) \/ Acquire(r) \/ Release(r) \/ Fetch(r) \/ Query(r)
  <2>1. jobs' = jobs /\ pc'[r] \notin Working
    BY <1>3 DEF InsertOwner, InsertSession, Acquire, Release, Fetch, Query, storeVars,
       Goto,
       AfterAdmission, Ingesting, TypeOK, Uploads, AllOps
  <2>2. QED
    BY <2>1
<1>4. CASE Write(r) \/ Prune(r) \/ Erase(r)
  <2>1. jobs' = jobs /\ (pc'[r] \in Working => pc[r] \in Working)
    BY <1>4 DEF Write, Prune, Erase, storeVars, Goto, Ingesting, Stored, TypeOK
  <2>2. QED
    BY <2>1
<1>5. CASE Record(r) \/ Settle(r) \/ Fail(r)
  <2>1. pc'[r] \notin Working
    BY <1>5 DEF Record, Settle, Fail, Goto, Ingesting, TypeOK
  <2>2. \A k \in Requests \ {r} : jobs'[k] = jobs[k]
    BY <1>5, UpdateJobEffect, InsertJobEffect DEF Record, Settle, Fail, storeVars
  <2>3. QED
    BY <2>1, <2>2
<1>6. CASE Claim(r)
  <2>1. CASE jobs[r] = NoJob /\ UNCHANGED storeVars
    BY <1>6, <2>1 DEF Claim, Goto, Ingesting, TypeOK, storeVars
  <2>2. CASE jobs[r] # NoJob /\ UpdateJob(r, "processing", 0)
    BY <2>2, UpdateJobEffect, UpdateJobKeepsRow DEF JobStatus
  <2>3. QED
    BY <1>6, <2>1, <2>2 DEF Claim
<1>7. CASE Unown(r)
  <2>1. \A u \in Requests : u # r /\ pc[u] \in Working => Session(u) # Session(r)
    BY <1>7, OneCriticalPerSession DEF Unown, Goto, Critical
  <2>2. \A u \in Requests : u # r /\ pc[u] \in Working /\ jobs[u] # NoJob => jobs'[u] = jobs[u]
    BY <1>7, <2>1, DeleteSessionEffect DEF Unown, JobsDescribeRequests
  <2>3. pc'[r] \notin Working
    BY <1>7 DEF Unown, Goto, Ingesting, TypeOK
  <2>4. QED
    BY <2>2, <2>3
<1>8. QED
  BY <1>2, <1>3, <1>4, <1>5, <1>6, <1>7 DEF Step, Quiet

\* What a step may do to the owner of a session.
LEMMA OwnerChange ==
  ASSUME TypeOK, NEW r \in Requests, Step(r)
  PROVE  \/ owner' = owner /\ issued' = issued
         \/ InsertOwner(r) /\ InsertSession(Session(r), req[r].tenant)
         \/ Unown(r) /\ DeleteSession(Session(r), req[r].tenant)
<1>1. CASE Quiet(r)
  BY <1>1, QuietFrame
<1>2. CASE InsertOwner(r) \/ Unown(r)
  BY <1>2 DEF InsertOwner, Unown, storeVars
<1>3. CASE Record(r) \/ Claim(r) \/ Settle(r) \/ Fail(r)
  BY <1>3, UpdateJobEffect, InsertJobEffect DEF Record, Claim, Settle, Fail, storeVars
<1>4. CASE Acquire(r) \/ Write(r) \/ Prune(r) \/ Erase(r) \/ Release(r) \/ Fetch(r) \/ Query(r)
  BY <1>4 DEF Acquire, Write, Prune, Erase, Release, Fetch, Query, storeVars
<1>5. QED
  BY <1>1, <1>2, <1>3, <1>4 DEF Step, Quiet

LEMMA StepKeepsIngests ==
  ASSUME ServiceInv, NEW r \in Requests, Step(r)
  PROVE  IngestsIntoOwnedSession'
<1>1. /\ TypeOK /\ IngestsIntoOwnedSession /\ LabelsMatchOps
      /\ Session(r) \in Sessions /\ req[r].tenant \in Tenants /\ req[r].op \in AllOps
      /\ \A u \in Requests : Session(u) \in Sessions
      /\ NoTenant \notin Tenants
  BY ReqFields, SessionStoreAssumption DEF ServiceInv, SessionStoreAssumption
<1> USE <1>1, StepFrame DEF IngestsIntoOwnedSession, Session
<1>2. ASSUME owner' = owner PROVE IngestsIntoOwnedSession'
  <2>1. CASE Recheck(r)
    BY <1>2, <2>1 DEF Recheck, Owns, Goto, Ingesting, TypeOK
  <2>2. CASE Claim(r)
    <3>1. jobs[r] # NoJob => owner[Session(r)] = req[r].tenant
      BY DEF ServiceInv, JobsBelongToOwners, JobsDescribeRequests
    <3>2. QED
      BY <1>2, <2>2, <3>1 DEF Claim, Goto, Ingesting, TypeOK
  <2>3. CASE ~Recheck(r) /\ ~Claim(r)
    <3>1. pc'[r] \in Ingesting => pc[r] \in Ingesting
      <4> USE <2>3 DEF Goto, AfterAdmission, Failed, Stored, Ingesting, TypeOK, Uploads, AllOps
      <4>1. CASE Arrive(r) \/ InsertOwner(r) \/ RejectUpload(r) \/ Submit(r)
        BY <4>1 DEF Arrive, InsertOwner, RejectUpload, Submit
      <4>2. CASE Record(r) \/ Confirm(r) \/ Stage(r) \/ StartWorker(r) \/ Acquire(r)
        BY <4>2 DEF Record, Confirm, Stage, StartWorker, Acquire
      <4>3. CASE Unreadable(r) \/ Snapshot(r) \/ Write(r) \/ Prune(r) \/ VectorFault(r)
        BY <4>3 DEF Unreadable, Snapshot, Write, Prune, VectorFault
      <4>4. CASE Settle(r) \/ Fail(r) \/ Erase(r) \/ Unown(r) \/ MetadataFault(r)
        BY <4>4 DEF Settle, Fail, Erase, Unown, MetadataFault
      <4>5. CASE Release(r) \/ Cleanup(r) \/ Fetch(r) \/ Query(r)
        BY <4>5 DEF Release, Cleanup, Fetch, Query
      <4>6. QED
        BY <4>1, <4>2, <4>3, <4>4, <4>5 DEF Step
    <3>2. QED
      BY <1>2, <3>1
  <2>4. QED
    BY <2>1, <2>2, <2>3
<1>3. CASE InsertOwner(r) /\ InsertSession(Session(r), req[r].tenant)
  <2>1. \A s \in Sessions : owner[s] # NoTenant => owner'[s] = owner[s]
    BY <1>3 DEF InsertSession, TypeOK, StoreTypeOK
  <2>2. pc'[r] \notin Ingesting
    BY <1>3 DEF InsertOwner, Goto, AfterAdmission, Ingesting, TypeOK, Uploads, AllOps
  <2>3. QED
    BY <2>1, <2>2
<1>4. CASE Unown(r) /\ DeleteSession(Session(r), req[r].tenant)
  <2>1. \A u \in Requests : u # r /\ pc[u] \in Ingesting => Session(u) # Session(r)
    BY <1>4, OneCriticalPerSession DEF Unown, Goto, Critical
  <2>2. pc'[r] \notin Ingesting
    BY <1>4 DEF Unown, Goto, Ingesting, TypeOK
  <2>3. QED
    BY <1>4, <2>1, <2>2, DeleteSessionEffect
<1>5. QED
  BY <1>2, <1>3, <1>4, OwnerChange

\* What a step may do to the collection.
LEMMA VectorChange ==
  ASSUME NEW r \in Requests, Step(r)
  PROVE  \/ vectors' \subseteq vectors
         \/ Write(r) /\ UpsertBatch(Session(r), req[r].doc, done[r] + 1)
<1>1. CASE Quiet(r)
  BY <1>1, QuietFrame
<1>2. CASE Prune(r) \/ Erase(r)
  BY <1>2 DEF Prune, Erase, DeletePoints
<1>3. CASE Write(r)
  BY <1>3 DEF Write
<1>4. CASE InsertOwner(r) \/ Record(r) \/ Acquire(r) \/ Claim(r) \/ Settle(r) \/ Fail(r)
  BY <1>4 DEF InsertOwner, Record, Acquire, Claim, Settle, Fail
<1>5. CASE Unown(r) \/ Release(r) \/ Fetch(r) \/ Query(r)
  BY <1>5 DEF Unown, Release, Fetch, Query
<1>6. QED
  BY <1>1, <1>2, <1>3, <1>4, <1>5 DEF Step, Quiet

\* A batch goes into the session of its request, which the request has locked
\* and which has an owner.
LEMMA NewPoints ==
  ASSUME ServiceInv, NEW r \in Requests, Step(r), NEW p \in vectors' \ vectors
  PROVE  /\ p.session = Session(r) /\ Write(r) /\ pc[r] = "write"
         /\ owner[Session(r)] # NoTenant
<1>1. Write(r) /\ UpsertBatch(Session(r), req[r].doc, done[r] + 1)
  BY VectorChange
<1>2. p.session = Session(r)
  BY <1>1 DEF UpsertBatch, BatchPoints
<1>3. pc[r] = "write"
  BY <1>1 DEF Write, Goto
<1>4. QED
  BY <1>1, <1>2, <1>3 DEF ServiceInv, IngestsIntoOwnedSession, Ingesting

LEMMA StepKeepsVectorsOwned ==
  ASSUME ServiceInv, NEW r \in Requests, Step(r)
  PROVE  NoOrphanVectors'
<1>1. TypeOK /\ NoOrphanVectors /\ Session(r) \in Sessions /\ req[r].tenant \in Tenants
  BY ReqFields DEF ServiceInv
<1>2. \A p \in vectors : p.session \in Sessions
  BY <1>1 DEF TypeOK
<1>3. CASE owner' = owner
  BY <1>1, <1>3, NewPoints DEF NoOrphanVectors
<1>4. CASE InsertOwner(r) /\ InsertSession(Session(r), req[r].tenant)
  <2>1. vectors' = vectors
    BY <1>4 DEF InsertOwner
  <2>2. \A s \in Sessions : owner[s] # NoTenant => owner'[s] = owner[s]
    BY <1>1, <1>4 DEF InsertSession, TypeOK, StoreTypeOK
  <2>3. QED
    BY <1>1, <1>2, <2>1, <2>2 DEF NoOrphanVectors
<1>5. CASE Unown(r) /\ DeleteSession(Session(r), req[r].tenant)
  <2>1. vectors' = vectors /\ pc[r] = "unown" /\ req[r].op = "delete"
    BY <1>5 DEF Unown, Goto, ServiceInv, LabelsMatchOps
  <2>2. \A p \in vectors : p.session # Session(r)
    BY <2>1 DEF ServiceInv, ErasedUntilReleased, SessionPoints
  <2>3. QED
    BY <1>1, <1>2, <1>5, <2>1, <2>2, DeleteSessionEffect DEF NoOrphanVectors
<1>6. QED
  BY <1>1, <1>3, <1>4, <1>5, OwnerChange

LEMMA StepKeepsErased ==
  ASSUME ServiceInv, NEW r \in Requests, Step(r)
  PROVE  ErasedUntilReleased'
<1>1. /\ TypeOK /\ ErasedUntilReleased /\ LabelsMatchOps
      /\ req[r].op \in AllOps
  BY ReqFields DEF ServiceInv
<1> SUFFICES ASSUME NEW u \in Requests, pc'[u] \in {"unown", "release"}, req'[u].op = "delete",
                    NEW p \in vectors', p.session = Session(u)'
             PROVE  FALSE
  BY DEF ErasedUntilReleased, SessionPoints
<1>2. req' = req /\ Session(u)' = Session(u)
  BY <1>1, StepFrame DEF Session
<1>3. CASE u # r
  <2>1. pc[u] \in {"unown", "release"}
    BY <1>1, <1>3, StepFrame
  <2>2. p \notin vectors
    BY <1>1, <1>2, <2>1 DEF ErasedUntilReleased, SessionPoints
  <2>3. p.session = Session(r) /\ pc[r] = "write"
    BY <2>2, NewPoints
  <2>4. QED
    BY <1>2, <1>3, <2>1, <2>3, OneCriticalPerSession DEF Critical, Ingesting
<1>4. CASE u = r
  <2>1. CASE Erase(r)
    BY <1>2, <1>4, <2>1 DEF Erase, DeletePoints, SessionPoints
  <2>2. CASE Unown(r)
    <3>1. pc[r] = "unown" /\ vectors' = vectors
      BY <2>2 DEF Unown, Goto
    <3>2. QED
      BY <1>1, <1>2, <1>4, <3>1 DEF ErasedUntilReleased, SessionPoints
  <2>3. CASE ~Erase(r) /\ ~Unown(r)
    <3>1. pc'[r] \notin {"unown", "release"}
      <4> USE <1>1, <1>2, <1>4, <2>3
          DEF Goto, TypeOK, LabelsMatchOps, Ingesting, Uploads, AllOps, AfterAdmission,
             Failed,
              Stored
      <4>1. CASE Arrive(r) \/ InsertOwner(r) \/ RejectUpload(r) \/ Submit(r) \/ Record(r)
                 \/ Confirm(r) \/ Stage(r) \/ StartWorker(r) \/ Acquire(r)
        BY <4>1 DEF Arrive, InsertOwner, RejectUpload, Submit, Record, Confirm, Stage,
                    StartWorker, Acquire
      <4>2. CASE Recheck(r) \/ Claim(r) \/ Unreadable(r) \/ Snapshot(r) \/ Write(r) \/ Prune(r)
                 \/ VectorFault(r)
        BY <4>2 DEF Recheck, Claim, Unreadable, Snapshot, Write, Prune, VectorFault
      <4>3. CASE Settle(r) \/ Fail(r) \/ MetadataFault(r) \/ Release(r) \/ Cleanup(r)
                 \/ Fetch(r) \/ Query(r)
        BY <4>3 DEF Settle, Fail, MetadataFault, Release, Cleanup, Fetch, Query
      <4>4. QED
        BY <4>1, <4>2, <4>3 DEF Step
    <3>2. QED
      BY <1>4, <3>1
  <2>4. QED
    BY <2>1, <2>2, <2>3
<1>5. QED
  BY <1>3, <1>4

(* Tenants and sessions. *)

LEMMA NotIngestingBefore ==
  ASSUME ServiceInv, NEW r \in Requests, Step(r), pc'[r] \in Ingesting, pc[r] \notin Ingesting
  PROVE  owner[Session(r)] # NoTenant
<1>1. /\ TypeOK /\ req[r].op \in AllOps /\ req[r].tenant \in Tenants /\ NoTenant \notin Tenants
  BY ReqFields, SessionStoreAssumption DEF ServiceInv, SessionStoreAssumption
<1>2. Recheck(r) \/ Claim(r)
  BY <1>1 DEF Step, Arrive, InsertOwner, RejectUpload, Submit, Record, Confirm, Stage,
     StartWorker, Acquire, Unreadable, Snapshot, Write, Prune, VectorFault, Settle, Fail,
     Erase, Unown, MetadataFault, Release, Cleanup, Fetch, Query,
     Goto, AfterAdmission, Failed, Stored, Ingesting, TypeOK, Uploads, AllOps
<1>3. CASE Recheck(r)
  BY <1>1, <1>3 DEF Recheck, Owns, Goto, Ingesting, TypeOK
<1>4. CASE Claim(r)
  <2>1. jobs[r] # NoJob => owner[Session(r)] = req[r].tenant
    BY DEF ServiceInv, JobsBelongToOwners, JobsDescribeRequests
  <2>2. QED
    BY <1>1, <1>4, <2>1 DEF Claim, Goto, Ingesting, TypeOK
<1>5. QED
  BY <1>2, <1>3, <1>4

\* A request starts to be served only as, or on behalf of, the session's owner.
LEMMA FirstServed ==
  ASSUME ServiceInv, NEW r \in Requests, Step(r), Served(r)', ~Served(r)
  PROVE  \/ owner' = owner /\ issued' = issued /\ owner[Session(r)] = req[r].tenant
         \/ ~Authenticated /\ InsertSession(Session(r), req[r].tenant)
<1>1. TypeOK /\ LabelsMatchOps
  BY DEF ServiceInv
<1>2. pc[r] \in Terminal \cup {"new", "insert"}
  BY DEF Served, Admitted
<1>3. ~MetadataFault(r)
  <2> SUFFICES ASSUME MetadataFault(r) PROVE FALSE
    OBVIOUS
  <2>1. done' = done /\ seen' = seen
    BY DEF MetadataFault
  <2>2. pc'[r] = "error"
    BY <1>1, <1>2 DEF MetadataFault, Goto, TypeOK, Terminal
  <2>3. QED
    BY <2>1, <2>2 DEF Served, Admitted, Terminal
<1>4. Arrive(r) \/ InsertOwner(r)
  BY <1>2, <1>3 DEF Step, RejectUpload, Submit, Record, Confirm, Stage, StartWorker, Acquire,
     Recheck,
     Claim, Unreadable, Snapshot, Write, Prune, VectorFault, Settle, Fail, Erase, Unown,
     Release, Cleanup, Fetch, Query, Goto, Terminal
<1>5. CASE Arrive(r)
  <2>1. done' = done /\ seen' = seen /\ owner' = owner /\ issued' = issued
    BY <1>5 DEF Arrive, storeVars
  <2>2. pc'[r] \notin Terminal \cup {"new", "insert"}
    BY <2>1 DEF Served, Admitted
  <2>3. Owns(Session(r), req[r].tenant)
    BY <1>1, <1>5, <2>2 DEF Arrive, Goto, TypeOK, Terminal
  <2>4. QED
    BY <2>1, <2>3 DEF Owns
<1>6. CASE InsertOwner(r)
  <2>1. done' = done /\ seen' = seen /\ ~Authenticated
    BY <1>1, <1>6 DEF InsertOwner, Goto, LabelsMatchOps
  <2>2. pc'[r] \notin Terminal
    BY <2>1 DEF Served, Admitted
  <2>3. QED
    BY <1>1, <1>6, <2>1, <2>2 DEF InsertOwner, Goto, TypeOK, Terminal
<1>7. QED
  BY <1>4, <1>5, <1>6

LEMMA OthersServedAsBefore ==
  ASSUME ServiceInv, NEW r \in Requests, Step(r), NEW u \in Requests \ {r}
  PROVE  Served(u)' <=> Served(u)
<1>1. pc'[u] = pc[u] /\ done'[u] = done[u] /\ seen'[u] = seen[u]
  BY StepFrame DEF ServiceInv
<1>2. QED
  BY <1>1 DEF Served, Admitted

LEMMA StepKeepsOneTenant ==
  ASSUME ServiceInv, NEW r \in Requests, Step(r)
  PROVE  SessionServesOneTenant'
<1>1. /\ TypeOK /\ SessionServesOneTenant /\ req' = req
      /\ NoTenant \notin Tenants
      /\ \A u \in Requests : Session(u) \in Sessions /\ req[u].tenant \in Tenants
      /\ \A u \in Requests : Session(u)' = Session(u)
  BY ReqFields, StepFrame, SessionStoreAssumption
     DEF ServiceInv, SessionStoreAssumption, Session
<1>2. /\ \A s \in Sessions : owner'[s] # NoTenant => s \in issued'
      /\ issued \subseteq issued'
  <2>1. CASE InsertSession(Session(r), req[r].tenant)
    BY <1>1, <2>1 DEF InsertSession, SessionServesOneTenant, TypeOK, StoreTypeOK
  <2>2. CASE DeleteSession(Session(r), req[r].tenant)
    BY <1>1, <2>2, DeleteSessionEffect DEF SessionServesOneTenant
  <2>3. QED
    BY <1>1, <2>1, <2>2, OwnerChange DEF SessionServesOneTenant
<1>3. \A u \in Requests : Served(u)' /\ u # r => Served(u)
  BY OthersServedAsBefore
<1>4. ~Authenticated => \A t, u \in Tenants : t = u
  BY CareerServiceAssumption DEF CareerServiceAssumption
<1>5. \A u \in Requests : Served(u) =>
        Session(u) \in issued' /\ owner'[Session(u)] \in {NoTenant, req[u].tenant}
  <2> SUFFICES ASSUME NEW u \in Requests, Served(u)
               PROVE  Session(u) \in issued' /\ owner'[Session(u)] \in {NoTenant, req[u].tenant}
    OBVIOUS
  <2>1. Session(u) \in issued /\ owner[Session(u)] \in {NoTenant, req[u].tenant}
    BY <1>1 DEF SessionServesOneTenant
  <2>2. CASE InsertOwner(r) /\ InsertSession(Session(r), req[r].tenant)
    <3>1. ~Authenticated
      BY <2>2 DEF InsertOwner, Goto, ServiceInv, LabelsMatchOps
    <3>2. owner'[Session(u)] \in Tenants \cup {NoTenant}
      BY <1>1, <2>2 DEF InsertSession, TypeOK, StoreTypeOK
    <3>3. QED
      BY <1>1, <1>2, <1>4, <2>1, <3>1, <3>2
  <2>3. CASE DeleteSession(Session(r), req[r].tenant)
    BY <1>1, <1>2, <2>1, <2>3, DeleteSessionEffect
  <2>4. QED
    BY <1>1, <1>2, <2>1, <2>2, <2>3, OwnerChange
<1>6. Served(r)' /\ ~Served(r) =>
        /\ Session(r) \in issued' /\ owner'[Session(r)] = req[r].tenant
        /\ \A u \in Requests : Served(u) /\ Session(u) = Session(r) => req[u].tenant = req[r].tenant
  <2> HAVE Served(r)' /\ ~Served(r)
  <2>1. CASE owner' = owner /\ issued' = issued /\ owner[Session(r)] = req[r].tenant
    BY <1>1, <2>1 DEF SessionServesOneTenant
  <2>2. CASE ~Authenticated /\ InsertSession(Session(r), req[r].tenant)
    BY <1>1, <1>4, <2>2 DEF InsertSession, TypeOK, StoreTypeOK
  <2>3. QED
    BY <2>1, <2>2, FirstServed
<1>7. \A u \in Requests : \A p \in seen'[u] : p.session = Session(u)
  <2>1. CASE Fetch(r) \/ Query(r)
    <3>1. seen'[r] \subseteq SessionPoints(Session(r))
      BY <1>1, <2>1 DEF Fetch, Query, QueryResults, TypeOK
    <3>2. QED
      BY <1>1, <3>1, StepFrame DEF SessionPoints, SessionServesOneTenant
  <2>2. CASE ~Fetch(r) /\ ~Query(r)
    <3>1. seen' = seen
      BY <2>2, QuietFrame
         DEF Step, Quiet, InsertOwner, Record, Acquire, Claim, Write, Prune, Settle,
                Fail, Erase,
             Unown, Release
    <3>2. QED
      BY <1>1, <3>1 DEF SessionServesOneTenant
  <2>3. QED
    BY <2>1, <2>2
<1>8. \A u \in Requests : Served(u)' =>
        Session(u) \in issued' /\ owner'[Session(u)] \in {NoTenant, req[u].tenant}
  BY <1>3, <1>5, <1>6
<1>9. \A u, w \in Requests : Served(u)' /\ Served(w)' /\ Session(u) = Session(w)
        => req[u].tenant = req[w].tenant
  <2>1. \A u, w \in Requests : Served(u) /\ Served(w) /\ Session(u) = Session(w)
          => req[u].tenant = req[w].tenant
    BY <1>1 DEF SessionServesOneTenant
  <2>2. QED
    BY <1>3, <1>6, <2>1
<1>10. QED
  BY <1>1, <1>2, <1>7, <1>8, <1>9 DEF SessionServesOneTenant

LEMMA StepKeepsOutdated ==
  ASSUME ServiceInv, NEW r \in Requests, Step(r)
  PROVE  OutdatedIsCancelled'
<1> SUFFICES ASSUME Authenticated, NEW u \in outdated'
             PROVE  /\ Session(u)' \in issued'
                    /\ owner'[Session(u)'] = NoTenant
                    /\ pc'[u] \notin Ingesting
  BY DEF OutdatedIsCancelled
<1>1. /\ TypeOK /\ OutdatedIsCancelled /\ u \in Requests /\ Session(u)' = Session(u)
      /\ Session(u) \in Sessions /\ Session(r) \in Sessions /\ req[r].tenant \in Tenants
  <2>1. outdated' \subseteq Requests
    BY QuietFrame
       DEF Step, Quiet, InsertOwner, Record, Acquire, Claim, Write, Prune, Settle,
              Fail, Erase,
           Unown, Release, Fetch, Query, ServiceInv, TypeOK
  <2>2. QED
    BY <2>1, ReqFields, StepFrame DEF ServiceInv, Session
<1>2. CASE u \in outdated
  <2>1. Session(u) \in issued /\ owner[Session(u)] = NoTenant /\ pc[u] \notin Ingesting
    BY <1>1, <1>2 DEF OutdatedIsCancelled
  <2>2. ~InsertOwner(r)
    BY DEF InsertOwner, Goto, ServiceInv, LabelsMatchOps
  <2>3. Session(u) \in issued' /\ owner'[Session(u)] = NoTenant
    BY <1>1, <2>1, <2>2, OwnerChange, DeleteSessionEffect
  <2>4. pc'[u] \notin Ingesting
    BY <1>1, <2>1, NotIngestingBefore, StepFrame
  <2>5. QED
    BY <1>1, <2>3, <2>4
<1>3. CASE u \notin outdated
  <2>1. Unown(r)
    BY <1>3, QuietFrame
       DEF Step, Quiet, InsertOwner, Record, Acquire, Claim, Write, Prune, Settle,
              Fail, Erase,
           Release, Fetch, Query
  <2>2. u # r /\ Session(u) = Session(r) /\ Admitted(u) /\ pc[r] = "unown"
    BY <1>3, <2>1 DEF Unown, Goto
  <2>3. Served(r) /\ Served(u)
    BY <2>2 DEF Served, Admitted, Terminal
  <2>4. Session(r) \in issued /\ owner[Session(r)] \in {NoTenant, req[r].tenant}
    BY <2>3 DEF ServiceInv, SessionServesOneTenant
  <2>5. owner'[Session(r)] = NoTenant /\ issued' = issued
    BY <1>1, <2>1, <2>4, DeleteSessionEffect DEF Unown
  <2>6. pc[u] \notin Critical /\ pc'[u] = pc[u]
    BY <1>1, <2>2, OneCriticalPerSession, StepFrame DEF Critical
  <2>7. QED
    BY <1>1, <2>2, <2>4, <2>5, <2>6 DEF Critical
<1>4. QED
  BY <1>2, <1>3

(* The invariant. *)

LEMMA InitEstablishesInv == Init => ServiceInv
<1> SUFFICES ASSUME Init PROVE ServiceInv
  OBVIOUS
<1>1. TypeOK
  BY InitType
<1>2. /\ \A r \in Requests : pc[r] = "new" /\ done[r] = 0 /\ seen[r] = {} /\ jobs[r] = NoJob
      /\ \A s \in Sessions : holder[s] = NoRequest /\ owner[s] = NoTenant
      /\ vectors = {} /\ outdated = {}
  BY DEF Init, StoreInit, Mutex!MutexInit
<1>3. LabelsMatchOps /\ Progress /\ IngestsIntoOwnedSession /\ WorkersHaveTheirJob
  BY <1>2 DEF LabelsMatchOps, Progress, IngestsIntoOwnedSession, WorkersHaveTheirJob,
     Ingesting
<1>4. LockHeldWhileCritical
  BY <1>2, CareerServiceAssumption
     DEF LockHeldWhileCritical, Critical, Ingesting, CareerServiceAssumption
<1>5. JobsDescribeRequests /\ JobsBelongToOwners /\ NoOrphanVectors /\ ErasedUntilReleased
  BY <1>2 DEF JobsDescribeRequests, JobsBelongToOwners, NoOrphanVectors,
     ErasedUntilReleased,
     SessionPoints
<1>6. SessionServesOneTenant /\ OutdatedIsCancelled
  BY <1>2 DEF SessionServesOneTenant, OutdatedIsCancelled, Served, Admitted
<1>7. QED
  BY <1>1, <1>3, <1>4, <1>5, <1>6 DEF ServiceInv

LEMMA StepKeepsInv ==
  ASSUME ServiceInv, NEW r \in Requests, Step(r)
  PROVE  ServiceInv'
BY StepKeepsType, StepKeepsLabels, StepKeepsProgress, StepKeepsLock, StepKeepsJobs,
   StepKeepsWorkers, StepKeepsIngests, StepKeepsVectorsOwned, StepKeepsErased,
   StepKeepsOneTenant, StepKeepsOutdated
   DEF ServiceInv

LEMMA NewSessionKeepsInv ==
  ASSUME ServiceInv, NEW s \in Sessions, NEW t \in Tenants, NewSession(s, t)
  PROVE  ServiceInv'
<1>1. /\ s \notin issued /\ owner[s] = NoTenant /\ NoTenant \notin Tenants
      /\ owner' = [owner EXCEPT ![s] = t] /\ issued' = issued \cup {s} /\ jobs' = jobs
      /\ UNCHANGED <<vectors, req, pc, before, done, seen, objects, holder, outdated, crashes>>
  BY SessionStoreAssumption DEF NewSession, CreateSession, InsertSession,
     SessionStoreAssumption
<1>2. TypeOK /\ \A r \in Requests : Session(r) \in Sessions
  BY ReqFields DEF ServiceInv
<1>3. TypeOK'
  BY <1>1, <1>2 DEF TypeOK, StoreTypeOK, Mutex!MutexTypeOK
<1>4. \A z \in Sessions : z # s => owner'[z] = owner[z]
  BY <1>1, <1>2 DEF TypeOK, StoreTypeOK
<1>5. LabelsMatchOps' /\ Progress' /\ LockHeldWhileCritical' /\ WorkersHaveTheirJob'
      /\ JobsDescribeRequests' /\ ErasedUntilReleased'
  BY <1>1 DEF ServiceInv, LabelsMatchOps, Progress, LockHeldWhileCritical,
     WorkersHaveTheirJob,
     JobsDescribeRequests, ErasedUntilReleased, SessionPoints, Session
<1>6. JobsBelongToOwners'
  <2>1. \A j \in Requests : jobs[j] # NoJob =>
          jobs[j].session \in Sessions /\ jobs[j].tenant \in Tenants
    BY <1>2 DEF TypeOK, StoreTypeOK, JobRecord
  <2>2. QED
    BY <1>1, <1>4, <2>1 DEF ServiceInv, JobsBelongToOwners
<1>7. IngestsIntoOwnedSession' /\ NoOrphanVectors'
  BY <1>1, <1>2, <1>4 DEF ServiceInv, IngestsIntoOwnedSession, NoOrphanVectors,
     Session, TypeOK
<1>8. SessionServesOneTenant'
  <2>1. \A r \in Requests : Served(r)' <=> Served(r)
    BY <1>1 DEF Served, Admitted
  <2>2. QED
    BY <1>1, <1>2, <1>4, <2>1 DEF ServiceInv, SessionServesOneTenant, Session
<1>9. OutdatedIsCancelled'
  BY <1>1, <1>2, <1>4 DEF ServiceInv, OutdatedIsCancelled, Session, TypeOK
<1>10. QED
  BY <1>3, <1>5, <1>6, <1>7, <1>8, <1>9 DEF ServiceInv

LEMMA CrashKeepsInv ==
  ASSUME ServiceInv, Crash
  PROVE  ServiceInv'
<1>1. /\ \A r \in Requests : pc'[r] = IF pc[r] \in Terminal \cup {"new"} THEN pc[r] ELSE "dead"
      /\ \A s \in Sessions : holder'[s] = NoRequest
      /\ UNCHANGED <<owner, issued, jobs, vectors, req, before, done, seen, objects, outdated>>
  BY DEF Crash, storeVars
<1>2. TypeOK'
  BY CareerServiceAssumption
     DEF ServiceInv, TypeOK, StoreTypeOK, Crash, storeVars, Mutex!MutexTypeOK, Labels,
            Terminal,
         CareerServiceAssumption
<1>3. LabelsMatchOps' /\ Progress' /\ IngestsIntoOwnedSession' /\ WorkersHaveTheirJob'
  BY <1>1 DEF ServiceInv, LabelsMatchOps, Progress, IngestsIntoOwnedSession,
     WorkersHaveTheirJob,
     Ingesting, Terminal
<1>4. LockHeldWhileCritical'
  BY <1>1, CareerServiceAssumption
     DEF LockHeldWhileCritical, Critical, Ingesting, Terminal, CareerServiceAssumption
<1>5. JobsDescribeRequests' /\ JobsBelongToOwners' /\ NoOrphanVectors' /\ ErasedUntilReleased'
  BY <1>1 DEF ServiceInv, JobsDescribeRequests, JobsBelongToOwners, NoOrphanVectors,
     ErasedUntilReleased, SessionPoints, Session, Terminal
<1>6. \A r \in Requests : Served(r)' => Served(r)
  BY <1>1 DEF Served, Admitted, Terminal
<1>7. SessionServesOneTenant'
  BY <1>1, <1>6 DEF ServiceInv, SessionServesOneTenant, Session
<1>8. OutdatedIsCancelled'
  BY <1>1 DEF ServiceInv, TypeOK, OutdatedIsCancelled, Session, Ingesting, Terminal
<1>9. QED
  BY <1>2, <1>3, <1>4, <1>5, <1>7, <1>8 DEF ServiceInv

LEMMA NextKeepsInv == ServiceInv /\ [Next]_vars => ServiceInv'
<1> SUFFICES ASSUME ServiceInv, [Next]_vars PROVE ServiceInv'
  OBVIOUS
<1>1. CASE UNCHANGED vars
  BY <1>1
     DEF vars, ServiceInv, TypeOK, StoreTypeOK, Mutex!MutexTypeOK, LabelsMatchOps,
            Progress,
         LockHeldWhileCritical, JobsDescribeRequests, JobsBelongToOwners, WorkersHaveTheirJob,
         IngestsIntoOwnedSession, NoOrphanVectors, ErasedUntilReleased, SessionPoints,
         SessionServesOneTenant, OutdatedIsCancelled, Served, Admitted, Session
<1>2. QED
  BY <1>1, StepKeepsInv, NewSessionKeepsInv, CrashKeepsInv DEF Next, Finished

\* Locks, rows, points, tenants and requests agree in every reachable state.
THEOREM ServiceInvariant == Spec => []ServiceInv
<1>1. QED
  BY InitEstablishesInv, NextKeepsInv, PTL DEF Spec

\* Type correctness of the service and of the stores it is built on.
THEOREM TypeCorrect == Spec => []TypeOK
<1>1. ServiceInv => TypeOK
  BY DEF ServiceInv
<1>2. QED
  BY <1>1, ServiceInvariant, PTL

\* No interleaving, fault or crash leaves points of a session without owner.
THEOREM VectorsAlwaysOwned == Spec => []NoOrphanVectors
<1>1. ServiceInv => NoOrphanVectors
  BY DEF ServiceInv
<1>2. QED
  BY <1>1, ServiceInvariant, PTL

\* Job rows always belong to the present owner of their session.
THEOREM JobsAlwaysOwned == Spec => []JobsBelongToOwners
<1>1. ServiceInv => JobsBelongToOwners
  BY DEF ServiceInv
<1>2. QED
  BY <1>1, ServiceInvariant, PTL

\* A background worker never ingests without a row that says "processing".
THEOREM WorkersAlwaysHaveTheirJob == Spec => []WorkersHaveTheirJob
<1>1. ServiceInv => WorkersHaveTheirJob
  BY DEF ServiceInv
<1>2. QED
  BY <1>1, ServiceInvariant, PTL

\* No tenant is ever answered with what another tenant stored.
THEOREM TenantsIsolated == Spec => []TenantIsolation
<1>1. ServiceInv => TenantIsolation
  <2> SUFFICES ASSUME ServiceInv, NEW r \in Requests, NEW u \in Requests,
                      NEW p \in seen[r] \cap Written(u)
               PROVE  req[r].tenant = req[u].tenant
    BY DEF TenantIsolation
  <2>1. p.session = Session(r) /\ Served(r)
    BY DEF ServiceInv, SessionServesOneTenant, Served
  <2>2. PICK i \in 1..done[u] : p \in BatchPoints(Session(u), req[u].doc, i)
    BY DEF Written, PointsUpTo
  <2>3. p.session = Session(u) /\ done[u] # 0
    BY <2>2 DEF BatchPoints
  <2>4. QED
    BY <2>1, <2>3 DEF ServiceInv, SessionServesOneTenant, Served
<1>2. QED
  BY <1>1, ServiceInvariant, PTL

\* With API keys, an upload that a deletion overtook stores nothing more.
THEOREM StaleUploadsStayOut ==
  ASSUME Authenticated PROVE Spec => StaleUploadsNeverIngest
<1>1. ServiceInv /\ [Next]_vars => [\A r \in outdated : done'[r] = done[r]]_vars
  <2> SUFFICES ASSUME ServiceInv, Next, NEW u \in outdated PROVE done'[u] = done[u]
    OBVIOUS
  <2>1. u \in Requests /\ pc[u] # "write"
    BY DEF ServiceInv, TypeOK, OutdatedIsCancelled, Ingesting
  <2>2. ASSUME NEW r \in Requests, Step(r) PROVE done'[u] = done[u]
    <3>1. CASE u # r
      BY <2>1, <2>2, <3>1, StepFrame DEF ServiceInv
    <3>2. CASE u = r
      BY <2>1, <2>2, <3>2, QuietFrame
         DEF Step, Quiet, InsertOwner, Record, Acquire, Claim, Write, Prune, Settle,
                Fail, Erase,
             Unown, Release, Fetch, Query, Goto
    <3>3. QED
      BY <3>1, <3>2
  <2>3. QED
    BY <2>2 DEF Next, NewSession, Crash, Finished, vars
<1>2. QED
  BY <1>1, ServiceInvariant, PTL DEF Spec, StaleUploadsNeverIngest

\* A deletion answered with success has left no point of its session.
THEOREM DeletionsComplete == Spec => DeletionIsComplete
<1> DEFINE Complete ==
      \A r \in Requests :
        req[r].op = "delete" /\ pc[r] # "ok" /\ pc'[r] = "ok" =>
          {p \in vectors' : p.session = Session(r)} = {}
<1>1. ServiceInv /\ [Next]_vars => [Complete]_vars
  <2> SUFFICES ASSUME ServiceInv, Next, NEW u \in Requests,
                      req[u].op = "delete", pc[u] # "ok", pc'[u] = "ok"
               PROVE  {p \in vectors' : p.session = Session(u)} = {}
    OBVIOUS
  <2>1. TypeOK
    BY DEF ServiceInv
  <2>2. PICK r \in Requests : Step(r)
    BY DEF Next, NewSession, Crash, Finished, vars, Terminal
  <2>3. u = r
    BY <2>1, <2>2, StepFrame
  <2>4. Release(r) /\ pc[r] = "release"
    <3> USE <2>1, <2>3
        DEF Goto, TypeOK, ServiceInv, LabelsMatchOps, Uploads, AfterAdmission, Failed,
               Stored
    <3>1. CASE Quiet(r)
      BY <3>1 DEF Quiet, Arrive, RejectUpload, Submit, Confirm, Stage, StartWorker,
         Recheck,
         Unreadable, Snapshot, VectorFault, MetadataFault, Cleanup
    <3>2. CASE InsertOwner(r) \/ Record(r) \/ Acquire(r) \/ Claim(r) \/ Settle(r) \/ Fail(r)
      BY <3>2 DEF InsertOwner, Record, Acquire, Claim, Settle, Fail
    <3>3. CASE Write(r) \/ Prune(r) \/ Erase(r) \/ Unown(r) \/ Fetch(r) \/ Query(r)
      BY <3>3 DEF Write, Prune, Erase, Unown, Fetch, Query
    <3>4. CASE Release(r)
      BY <3>4 DEF Release
    <3>5. QED
      BY <2>2, <3>1, <3>2, <3>3, <3>4 DEF Step, Quiet
  <2>5. QED
    BY <2>3, <2>4 DEF Release, ServiceInv, ErasedUntilReleased, SessionPoints
<1>2. QED
  BY <1>1, ServiceInvariant, PTL DEF Spec, DeletionIsComplete

(* Staged objects. *)

\* Where an asynchronous upload with an object is.
ObjectsOnTheWay ==
  \A r \in objects :
    req[r].op = "async" /\ pc[r] \in Critical \cup {"accepted", "lock", "cleanup"}

LEMMA StepKeepsObjectsOnTheWay ==
  ASSUME ServiceInv, ObjectsOnTheWay, "staging" \notin Faults, NEW r \in Requests, Step(r)
  PROVE  ObjectsOnTheWay'
<1>1. /\ TypeOK /\ LabelsMatchOps /\ objects \subseteq Requests /\ req' = req
      /\ req[r].op \in AllOps /\ \A u \in Requests \ {r} : pc'[u] = pc[u]
  BY ReqFields, StepFrame DEF ServiceInv, TypeOK
<1> USE <1>1 DEF ObjectsOnTheWay, Goto, TypeOK, Critical, Ingesting, Uploads, AllOps
<1>2. CASE Stage(r)
  BY <1>2 DEF Stage, LabelsMatchOps
<1>3. CASE Cleanup(r)
  BY <1>3 DEF Cleanup
<1>4. ASSUME objects' = objects,
             r \in objects => pc'[r] \in Critical \cup {"accepted", "lock", "cleanup"}
      PROVE  ObjectsOnTheWay'
  BY <1>4
<1>5. CASE Arrive(r) \/ InsertOwner(r) \/ RejectUpload(r) \/ Submit(r) \/ Record(r) \/ Confirm(r)
           \/ StartWorker(r) \/ Fetch(r) \/ Query(r)
  BY <1>4, <1>5 DEF Arrive, InsertOwner, RejectUpload, Submit, Record, Confirm, StartWorker, Fetch,
     Query
<1>6. CASE Acquire(r) \/ Recheck(r) \/ Claim(r) \/ Unreadable(r) \/ Snapshot(r) \/ Write(r)
           \/ Prune(r) \/ VectorFault(r)
  BY <1>4, <1>6 DEF Acquire, Recheck, Claim, Unreadable, Snapshot, Write, Prune, VectorFault,
     Failed, Stored
<1>7. CASE Settle(r) \/ Fail(r) \/ Erase(r) \/ Unown(r) \/ MetadataFault(r)
  BY <1>4, <1>7 DEF Settle, Fail, Erase, Unown, MetadataFault
<1>8. CASE Release(r)
  BY <1>4, <1>8 DEF Release
<1>9. QED
  BY <1>2, <1>3, <1>5, <1>6, <1>7, <1>8 DEF Step

\* While the process lives and put does not fail, a staged object has a worker
\* on the way to it, whatever else fails and whoever deletes its session.
THEOREM StagedObjectsHaveWorkers ==
  ASSUME MaxCrashes = 0, "staging" \notin Faults PROVE Spec => []StagedObjectHasWorker
<1>1. Init => ObjectsOnTheWay
  BY DEF Init, ObjectsOnTheWay
<1>2. ServiceInv /\ ObjectsOnTheWay /\ [Next]_vars => ObjectsOnTheWay'
  <2> SUFFICES ASSUME ServiceInv, ObjectsOnTheWay, [Next]_vars PROVE ObjectsOnTheWay'
    OBVIOUS
  <2>1. ~Crash
    BY DEF Crash, ServiceInv, TypeOK
  <2>2. ASSUME objects' = objects, req' = req, pc' = pc PROVE ObjectsOnTheWay'
    BY <2>2 DEF ObjectsOnTheWay
  <2>3. QED
    BY <2>1, <2>2, StepKeepsObjectsOnTheWay DEF Next, NewSession, Finished, vars
<1>3. ObjectsOnTheWay => StagedObjectHasWorker
  BY DEF ObjectsOnTheWay, StagedObjectHasWorker, Admitted, Critical, Ingesting, Terminal
<1>4. QED
  BY <1>1, <1>2, <1>3, ServiceInvariant, PTL DEF Spec

(* Jobs. *)

Waiting == {"confirm", "stage", "accepted", "lock", "claim"}

LEMMA StepKeepsQueued ==
  ASSUME ServiceInv, QueuedUntilClaimed, NEW r \in Requests, Step(r)
  PROVE  QueuedUntilClaimed'
<1>1. /\ TypeOK /\ LabelsMatchOps /\ req[r].op \in AllOps
      /\ Session(r) \in Sessions /\ req[r].tenant \in Tenants
  BY ReqFields DEF ServiceInv
<1> USE <1>1, StepFrame DEF QueuedUntilClaimed, Waiting
<1>2. CASE Quiet(r)
  <2>1. req[r].op = "async" /\ pc'[r] \in Waiting => pc[r] \in Waiting
    BY <1>2 DEF Quiet, Arrive, RejectUpload, Submit, Confirm, Stage, StartWorker, Recheck,
       Unreadable, Snapshot, VectorFault, MetadataFault, Cleanup, Goto, AfterAdmission,
       TypeOK, Failed, Uploads, AllOps
  <2>2. QED
    BY <1>2, <2>1, QuietFrame
<1>3. CASE InsertOwner(r) \/ Acquire(r) \/ Release(r) \/ Fetch(r) \/ Query(r)
           \/ Write(r) \/ Prune(r) \/ Erase(r)
  <2>1. jobs' = jobs /\ (req[r].op = "async" /\ pc'[r] \in Waiting => pc[r] \in Waiting)
    BY <1>3 DEF InsertOwner, InsertSession, Acquire, Release, Fetch, Query, Write, Prune, Erase,
       storeVars, Goto, AfterAdmission, Stored, TypeOK, Uploads, AllOps
  <2>2. QED
    BY <2>1
<1>4. CASE Record(r)
  <2>1. CASE InsertJob(r, Session(r), req[r].tenant)
    BY <1>4, <2>1, InsertJobEffect DEF Record
  <2>2. CASE UNCHANGED storeVars /\ Goto(r, "reading", "error")
    BY <2>2 DEF Goto, TypeOK, storeVars
  <2>3. QED
    BY <1>4, <2>1, <2>2 DEF Record
<1>5. CASE Claim(r) \/ Settle(r) \/ Fail(r)
  <2>1. /\ \A u \in Requests \ {r} : jobs'[u] = jobs[u]
        /\ jobs'[r] # NoJob => jobs[r] # NoJob
    BY <1>5, UpdateJobEffect DEF Claim, Settle, Fail, storeVars
  <2>2. pc'[r] \notin Waiting
    BY <1>5 DEF Claim, Settle, Fail, Goto, TypeOK
  <2>3. QED
    BY <2>1, <2>2
<1>6. CASE Unown(r)
  <2>1. \A u \in Requests : jobs'[u] # NoJob => jobs'[u] = jobs[u]
    BY <1>6, DeleteSessionEffect DEF Unown
  <2>2. pc'[r] \notin Waiting
    BY <1>6 DEF Unown, Goto, TypeOK
  <2>3. QED
    BY <2>1, <2>2
<1>7. QED
  BY <1>2, <1>3, <1>4, <1>5, <1>6 DEF Step, Quiet

LEMMA NextKeepsQueued ==
  ServiceInv /\ QueuedUntilClaimed /\ [Next]_vars => QueuedUntilClaimed'
<1> SUFFICES ASSUME ServiceInv, QueuedUntilClaimed, [Next]_vars PROVE QueuedUntilClaimed'
  OBVIOUS
<1>1. ASSUME jobs' = jobs, req' = req, pc' = pc PROVE QueuedUntilClaimed'
  BY <1>1 DEF QueuedUntilClaimed
<1>2. ASSUME NEW s \in Sessions, NEW t \in Tenants, NewSession(s, t) PROVE QueuedUntilClaimed'
  BY <1>1, <1>2 DEF NewSession, CreateSession, InsertSession
<1>3. CASE Crash
  BY <1>3 DEF Crash, QueuedUntilClaimed, Terminal, storeVars
<1>4. QED
  BY <1>1, <1>2, <1>3, StepKeepsQueued DEF Next, Finished, vars

\* A job is queued until its worker claims it, whatever fails.
THEOREM JobsQueuedUntilClaimed == Spec => []QueuedUntilClaimed
<1>1. Init => QueuedUntilClaimed
  BY DEF Init, StoreInit, QueuedUntilClaimed
<1>2. QED
  BY <1>1, NextKeepsQueued, ServiceInvariant, PTL DEF Spec

\* update_job never raises ValueError: the worker asks for listed transitions
\* only, whatever fails, is deleted or crashes.
THEOREM JobUpdatesAreListed == Spec => []UpdatesAreListed
<1>1. ServiceInv /\ QueuedUntilClaimed => UpdatesAreListed
  BY DEF ServiceInv, LabelsMatchOps, QueuedUntilClaimed, WorkersHaveTheirJob, Ingesting,
     UpdatesAreListed, CanUpdateJob, JobTransitions
<1>2. QED
  BY <1>1, ServiceInvariant, JobsQueuedUntilClaimed, PTL

\* Where the request of a job is that is not settled.
JobsOnTheWay ==
  \A r \in Requests :
    jobs[r] # NoJob =>
      /\ jobs[r].status = "queued" => pc[r] \in Waiting
      /\ jobs[r].status = "processing" => pc[r] \in Ingesting \cup {"settle", "fail"}

LEMMA StepKeepsJobsOnTheWay ==
  ASSUME ServiceInv, QueuedUntilClaimed, JobsOnTheWay, Faults \cap {"staging", "metadata"} = {},
         NEW r \in Requests, Step(r)
  PROVE  JobsOnTheWay'
<1>1. /\ TypeOK /\ LabelsMatchOps /\ JobsDescribeRequests
      /\ req[r].op \in AllOps /\ Session(r) \in Sessions /\ req[r].tenant \in Tenants
  BY ReqFields DEF ServiceInv
<1> USE <1>1, StepFrame DEF JobsOnTheWay, Waiting
<1>2. CASE Quiet(r)
  <2>1. ASSUME jobs[r] # NoJob
        PROVE  /\ pc[r] \in Waiting => pc'[r] \in Waiting
               /\ pc[r] \in Ingesting \cup {"settle", "fail"} =>
                    pc'[r] \in Ingesting \cup {"settle", "fail"}
    <3>1. JobVisible(r, req[r].tenant) /\ req[r].op = "async"
      BY <2>1 DEF JobVisible, JobsDescribeRequests, QueuedUntilClaimed
    <3>2. QED
      BY <1>2, <3>1
         DEF Quiet, Arrive, RejectUpload, Submit, Confirm, Stage, StartWorker, Recheck, Unreadable,
             Snapshot, VectorFault, MetadataFault, Cleanup, Goto, TypeOK, Failed, Ingesting,
             LabelsMatchOps
  <2>2. QED
    BY <1>2, <2>1, QuietFrame
<1>3. CASE InsertOwner(r) \/ Acquire(r) \/ Release(r) \/ Fetch(r) \/ Query(r)
           \/ Write(r) \/ Prune(r) \/ Erase(r)
  <2>1. ASSUME jobs[r] # NoJob
        PROVE  /\ pc[r] \in Waiting => pc'[r] \in Waiting
               /\ pc[r] \in Ingesting \cup {"settle", "fail"} =>
                    pc'[r] \in Ingesting \cup {"settle", "fail"}
    BY <1>3, <2>1 DEF InsertOwner, Acquire, Release, Fetch, Query, Write, Prune, Erase,
       Goto, Stored, TypeOK, Ingesting, QueuedUntilClaimed, LabelsMatchOps
  <2>2. jobs' = jobs
    BY <1>3 DEF InsertOwner, InsertSession, Acquire, Release, Fetch, Query, Write, Prune, Erase,
       storeVars
  <2>3. QED
    BY <2>1, <2>2
<1>4. CASE Record(r)
  <2>1. CASE InsertJob(r, Session(r), req[r].tenant) /\ Goto(r, "reading", "confirm")
    BY <2>1, InsertJobEffect DEF Goto, TypeOK
  <2>2. CASE UNCHANGED storeVars /\ Goto(r, "reading", "error")
    BY <2>2 DEF Goto, TypeOK, storeVars, Ingesting
  <2>3. QED
    BY <1>4, <2>1, <2>2 DEF Record
<1>5. CASE Claim(r) \/ Settle(r) \/ Fail(r)
  <2>1. /\ \A u \in Requests \ {r} : jobs'[u] = jobs[u]
        /\ jobs'[r] # NoJob =>
             jobs'[r].status = IF Claim(r) THEN "processing"
                               ELSE IF Settle(r) THEN "completed" ELSE "failed"
    BY <1>5, UpdateJobEffect DEF Claim, Settle, Fail, storeVars
  <2>2. Claim(r) => pc'[r] = "snapshot" \/ jobs'[r] = NoJob
    BY DEF Claim, Goto, TypeOK, storeVars
  <2>3. QED
    BY <2>1, <2>2 DEF Ingesting
<1>6. CASE Unown(r)
  <2>1. \A u \in Requests : jobs'[u] # NoJob => jobs'[u] = jobs[u]
    BY <1>6, DeleteSessionEffect DEF Unown
  <2>2. jobs[r] = NoJob
    BY <1>6 DEF Unown, Goto, LabelsMatchOps, QueuedUntilClaimed
  <2>3. QED
    BY <2>1, <2>2
<1>7. QED
  BY <1>2, <1>3, <1>4, <1>5, <1>6 DEF Step, Quiet

\* While the process lives and neither the object store nor the database fails, no accepted
\* upload is forgotten: neither its object nor its job, whoever deletes its
\* session, refuses its document or fails to store it.
THEOREM NoUploadForgotten ==
  ASSUME MaxCrashes = 0, Faults \cap {"staging", "metadata"} = {}
  PROVE  Spec => []NoUploadIsForgotten
<1>1. Init => JobsOnTheWay
  BY DEF Init, StoreInit, JobsOnTheWay
<1>2. ServiceInv /\ QueuedUntilClaimed /\ JobsOnTheWay /\ [Next]_vars => JobsOnTheWay'
  <2> SUFFICES ASSUME ServiceInv, QueuedUntilClaimed, JobsOnTheWay, [Next]_vars
               PROVE  JobsOnTheWay'
    OBVIOUS
  <2>1. ~Crash
    BY DEF Crash, ServiceInv, TypeOK
  <2>2. ASSUME jobs' = jobs, pc' = pc PROVE JobsOnTheWay'
    BY <2>2 DEF JobsOnTheWay
  <2>3. QED
    BY <2>1, <2>2, StepKeepsJobsOnTheWay
       DEF Next, NewSession, CreateSession, InsertSession, Finished, vars
<1>3. ServiceInv /\ JobsOnTheWay => UnsettledJobHasWorker
  BY DEF JobsOnTheWay, Waiting, UnsettledJobHasWorker, Admitted, Ingesting, Terminal
<1>4. StagedObjectHasWorker /\ UnsettledJobHasWorker => NoUploadIsForgotten
  BY DEF NoUploadIsForgotten
<1>5. "staging" \notin Faults
  OBVIOUS
<1>6. QED
  BY <1>1, <1>2, <1>3, <1>4, <1>5, ServiceInvariant, JobsQueuedUntilClaimed,
     StagedObjectsHaveWorkers, PTL DEF Spec
=============================================================================
