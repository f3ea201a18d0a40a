------------------------- MODULE SessionContentProofs -------------------------
(***************************************************************************)
(* Proofs that CareerService implements SessionContent and reports an      *)
(* upload as stored only when it is, for any constants.  ServiceInv says   *)
(* who may change a session; VersionsComeWhole how far a change is.        *)
(***************************************************************************)
EXTENDS CareerServiceProofs

LEMMA PointsAreOfTheDocument ==
  ASSUME NEW s, NEW d, NEW n
  PROVE  \A p \in PointsUpTo(s, d, n) : p.session = s /\ p.source = SourceOf[d]
BY DEF PointsUpTo, BatchPoints

LEMMA OneMoreBatch ==
  ASSUME NEW s, NEW d, NEW n \in Nat
  PROVE  PointsUpTo(s, d, n + 1) = PointsUpTo(s, d, n) \cup BatchPoints(s, d, n + 1)
<1>1. 1..(n + 1) = 1..n \cup {n + 1}
  OBVIOUS
<1>2. QED
  BY <1>1 DEF PointsUpTo

LEMMA FewerBatches ==
  ASSUME NEW s, NEW d, NEW n \in Nat, NEW m \in Nat, n <= m
  PROVE  PointsUpTo(s, d, n) \subseteq PointsUpTo(s, d, m)
<1>1. 1..n \subseteq 1..m
  OBVIOUS
<1>2. QED
  BY <1>1 DEF PointsUpTo

LEMMA BatchCount ==
  ASSUME NEW d \in Docs
  PROVE  Len(Batches[d]) \in Nat /\ Len(Batches[d]) > 0
BY RagEngineAssumption

\* Only four steps change what the collection holds or a request remembers of it.
LEMMA ContentChange ==
  ASSUME TypeOK, NEW r \in Requests, Step(r)
  PROVE  \/ vectors' = vectors /\ before' = before
         \/ Snapshot(r) /\ vectors' = vectors
         \/ (Write(r) \/ Prune(r) \/ Erase(r)) /\ before' = before
<1>1. CASE Quiet(r) /\ ~Snapshot(r)
  BY <1>1, QuietFrame
     DEF Quiet, Arrive, RejectUpload, Submit, Confirm, Stage, StartWorker, Recheck,
         Unreadable, VectorFault, MetadataFault, Cleanup
<1>2. CASE Snapshot(r)
  BY <1>2 DEF Snapshot
<1>3. CASE Write(r) \/ Prune(r) \/ Erase(r)
  BY <1>3 DEF Write, Prune, Erase
<1>4. CASE InsertOwner(r) \/ Record(r) \/ Acquire(r) \/ Claim(r) \/ Settle(r) \/ Fail(r)
  BY <1>4 DEF InsertOwner, Record, Acquire, Claim, Settle, Fail
<1>5. CASE Unown(r) \/ Release(r) \/ Fetch(r) \/ Query(r)
  BY <1>5 DEF Unown, Release, Fetch, Query
<1>6. QED
  BY <1>1, <1>2, <1>3, <1>4, <1>5 DEF Step, Quiet

\* Under another session's lock nothing of this session changes.
LEMMA OtherSessionsStay ==
  ASSUME ServiceInv, VersionsComeWhole, NEW r \in Requests, Step(r),
         NEW s, s # Session(r), NEW source
  PROVE  SourcePoints(s, source)' = SourcePoints(s, source)
<1>1. CASE vectors' = vectors
  BY <1>1 DEF SourcePoints
<1>2. CASE Write(r)
  BY <1>2 DEF Write, UpsertBatch, BatchPoints, SourcePoints
<1>3. CASE Prune(r)
  <2>1. \A p \in before[r] : p.session = Session(r)
    BY <1>3 DEF Prune, Goto, VersionsComeWhole
  <2>2. QED
    BY <1>3, <2>1 DEF Prune, DeletePoints, SourcePoints
<1>4. CASE Erase(r)
  BY <1>4 DEF Erase, DeletePoints, SessionPoints, SourcePoints
<1>5. QED
  BY <1>1, <1>2, <1>3, <1>4, ContentChange DEF ServiceInv

\* Who stores something has stored every step before it.
LEMMA HowVersionsProgress ==
  ASSUME ServiceInv, NEW r \in Requests, Step(r)
  PROVE  /\ pc'[r] = "write" => Snapshot(r) \/ Write(r)
         /\ pc'[r] = "prune" => Write(r)
         /\ pc'[r] = "settle" => Prune(r)
         /\ pc'[r] = "release" /\ req[r].op = "upload" => Prune(r)
<1>1. /\ TypeOK /\ LabelsMatchOps /\ req[r].op \in AllOps
  BY ReqFields DEF ServiceInv
<1> USE <1>1 DEF Goto, AfterAdmission, Failed, Ingesting, TypeOK, Uploads, AllOps
<1>2. CASE Arrive(r) \/ InsertOwner(r) \/ RejectUpload(r) \/ Submit(r)
  BY <1>2 DEF Arrive, InsertOwner, RejectUpload, Submit
<1>3. CASE Record(r) \/ Confirm(r) \/ Stage(r) \/ StartWorker(r) \/ Acquire(r)
  BY <1>3 DEF Record, Confirm, Stage, StartWorker, Acquire
<1>4. CASE Recheck(r) \/ Claim(r) \/ Unreadable(r) \/ VectorFault(r) \/ MetadataFault(r)
  BY <1>4 DEF Recheck, Claim, Unreadable, VectorFault, MetadataFault, LabelsMatchOps
<1>5. CASE Settle(r) \/ Fail(r) \/ Erase(r) \/ Unown(r)
  BY <1>5 DEF Settle, Fail, Erase, Unown, LabelsMatchOps
<1>6. CASE Release(r) \/ Cleanup(r) \/ Fetch(r) \/ Query(r)
  BY <1>6 DEF Release, Cleanup, Fetch, Query
<1>7. CASE Snapshot(r) \/ Write(r) \/ Prune(r)
  BY <1>7 DEF Snapshot, Write, Prune, Stored
<1>8. QED
  BY <1>2, <1>3, <1>4, <1>5, <1>6, <1>7 DEF Step
-----------------------------------------------------------------------------
\* What VersionsComeWhole says of one request.
HalfWay(r) ==
  LET here == SourcePoints(Session(r), SourceOf[req[r].doc]) IN
  /\ PointsUpTo(Session(r), req[r].doc, done[r]) \subseteq here
  /\ here \subseteq before[r] \cup PointsUpTo(Session(r), req[r].doc, done[r])
  /\ \A p \in before[r] : p.session = Session(r) /\ p.source = SourceOf[req[r].doc]

Whole(r) ==
  SourcePoints(Session(r), SourceOf[req[r].doc]) = DocumentPoints(Session(r), req[r].doc)

JobsAreUploads == \A j \in Requests : jobs[j] # NoJob => req[j].op = "async"

LEMMA VersionsByRequest ==
  VersionsComeWhole <=>
    /\ JobsAreUploads
    /\ \A r \in Requests :
         /\ pc[r] \in {"write", "prune"} => HalfWay(r)
         /\ pc[r] = "settle" \/ (pc[r] = "release" /\ req[r].op = "upload") => Whole(r)
BY DEF VersionsComeWhole, HalfWay, Whole, JobsAreUploads

LEMMA StepKeepsJobsAreUploads ==
  ASSUME ServiceInv, JobsAreUploads, NEW r \in Requests, Step(r)
  PROVE  JobsAreUploads'
<1>1. TypeOK /\ LabelsMatchOps
  BY DEF ServiceInv
<1> USE <1>1, StepFrame DEF JobsAreUploads
<1>2. CASE Quiet(r)
  BY <1>2, QuietFrame
<1>3. CASE InsertOwner(r) \/ Acquire(r) \/ Release(r) \/ Fetch(r) \/ Query(r)
           \/ Write(r) \/ Prune(r) \/ Erase(r)
  <2>1. jobs' = jobs
    BY <1>3 DEF InsertOwner, InsertSession, Acquire, Release, Fetch, Query, Write, Prune,
       Erase, storeVars
  <2>2. QED
    BY <2>1
<1>4. CASE Record(r)
  <2>1. req[r].op = "async" /\ \A k \in Requests \ {r} : jobs'[k] = jobs[k]
    BY <1>4, InsertJobEffect DEF Record, storeVars
  <2>2. QED
    BY <2>1
<1>5. CASE Claim(r) \/ Settle(r) \/ Fail(r)
  <2>1. \A k \in Requests : jobs[k] = NoJob => jobs'[k] = NoJob
    BY <1>5, UpdateJobEffect DEF Claim, Settle, Fail, storeVars
  <2>2. QED
    BY <2>1
<1>6. CASE Unown(r)
  <2>1. Session(r) \in Sessions /\ req[r].tenant \in Tenants
    BY ReqFields
  <2>2. \A k \in Requests : jobs'[k] \in {jobs[k], NoJob}
    BY <1>6, <2>1, DeleteSessionEffect DEF Unown
  <2>3. QED
    BY <2>2
<1>7. QED
  BY <1>2, <1>3, <1>4, <1>5, <1>6 DEF Step, Quiet

\* The others are at other sessions, or not storing anything.
LEMMA OthersKeepVersions ==
  ASSUME ServiceInv, VersionsComeWhole, NEW r \in Requests, Step(r),
         NEW u \in Requests, u # r, pc[u] \in Critical
  PROVE  /\ HalfWay(u) => HalfWay(u)'
         /\ Whole(u) => Whole(u)'
<1>1. /\ TypeOK /\ req' = req /\ pc'[u] = pc[u] /\ done'[u] = done[u]
  BY StepFrame DEF ServiceInv
<1>2. Session(u)' = Session(u)
  BY <1>1 DEF Session
<1>3. before'[u] = before[u]
  BY <1>1, ContentChange DEF Snapshot, Write, Prune, Erase, TypeOK
<1>4. SourcePoints(Session(u), SourceOf[req[u].doc])' = SourcePoints(Session(u), SourceOf[req[u].doc])
  <2>1. CASE pc[r] \in Critical
    <3>1. Session(u) # Session(r)
      BY <2>1, OneCriticalPerSession
    <3>2. QED
      BY <3>1, <1>1, <1>2, OtherSessionsStay DEF SourcePoints
  <2>2. CASE pc[r] \notin Critical
    <3>1. ~Write(r) /\ ~Prune(r) /\ ~Erase(r)
      BY <2>2 DEF Write, Prune, Erase, Goto, Critical, Ingesting
    <3>2. vectors' = vectors
      BY <3>1, <1>1, ContentChange
    <3>3. QED
      BY <3>2, <1>1, <1>2 DEF SourcePoints
  <2>3. QED
    BY <2>1, <2>2
<1>5. QED
  BY <1>1, <1>2, <1>3, <1>4 DEF HalfWay, Whole, DocumentPoints, PointsUpTo, BatchPoints

LEMMA SnapshotStartsVersion ==
  ASSUME ServiceInv, NEW r \in Requests, Snapshot(r)
  PROVE  HalfWay(r)'
<1>1. TypeOK /\ done[r] \in Nat /\ (done[r] # 0 => pc[r] # "snapshot")
  BY DEF ServiceInv, TypeOK, Progress, Terminal
<1>2. /\ pc[r] = "snapshot" /\ req' = req /\ done' = done /\ vectors' = vectors
      /\ before'[r] = SourcePoints(Session(r), SourceOf[req[r].doc])
  BY <1>1 DEF Snapshot, Goto, TypeOK
<1>3. done'[r] = 0
  BY <1>1, <1>2
<1>4. PointsUpTo(Session(r), req[r].doc, 0) = {}
  BY DEF PointsUpTo
<1>5. SourcePoints(Session(r), SourceOf[req[r].doc])' = SourcePoints(Session(r), SourceOf[req[r].doc])
  BY <1>2 DEF SourcePoints, Session
<1>6. Session(r)' = Session(r)
  BY <1>2 DEF Session
<1>7. PointsUpTo(Session(r), req[r].doc, done[r])' = {}
  BY <1>2, <1>3, <1>4, <1>6 DEF PointsUpTo, BatchPoints
<1>8. \A p \in before'[r] : p.session = Session(r) /\ p.source = SourceOf[req[r].doc]
  BY <1>2 DEF SourcePoints
<1>9. QED
  BY <1>2, <1>5, <1>6, <1>7, <1>8 DEF HalfWay

LEMMA WriteContinuesVersion ==
  ASSUME ServiceInv, NEW r \in Requests, HalfWay(r), Write(r)
  PROVE  HalfWay(r)'
<1> DEFINE s == Session(r)
           d == req[r].doc
           n == done[r]
<1>1. TypeOK /\ n \in Nat
  BY DEF ServiceInv, TypeOK
<1>2. /\ req' = req /\ before' = before /\ done'[r] = n + 1
      /\ vectors' = vectors \cup BatchPoints(s, d, n + 1)
  BY <1>1 DEF Write, UpsertBatch, TypeOK
<1>3. \A p \in BatchPoints(s, d, n + 1) : p.session = s /\ p.source = SourceOf[d]
  BY DEF BatchPoints
<1>4. SourcePoints(s, SourceOf[d])' = SourcePoints(s, SourceOf[d]) \cup BatchPoints(s, d, n + 1)
  BY <1>2, <1>3 DEF SourcePoints, Session
<1>5. PointsUpTo(s, d, n)' = PointsUpTo(s, d, n) \cup BatchPoints(s, d, n + 1)
  <2>1. PointsUpTo(s, d, n)' = PointsUpTo(s, d, n + 1)
    BY <1>2 DEF PointsUpTo, BatchPoints, Session
  <2>2. QED
    BY <2>1, <1>1, OneMoreBatch
<1>6. s' = s /\ d' = d
  BY <1>2 DEF Session
<1>7. QED
  BY <1>2, <1>4, <1>5, <1>6 DEF HalfWay

LEMMA PruneEndsVersion ==
  ASSUME ServiceInv, NEW r \in Requests, HalfWay(r), Prune(r)
  PROVE  Whole(r)' /\ DocumentPoints(Session(r), req[r].doc) \subseteq vectors'
<1> DEFINE s == Session(r)
           d == req[r].doc
<1>1. TypeOK /\ done[r] = Len(Batches[d])
  BY DEF ServiceInv, Progress, Prune, Goto
<1>2. /\ req' = req /\ vectors' = vectors \ (before[r] \ DocumentPoints(s, d))
  BY DEF Prune, DeletePoints
<1>3. PointsUpTo(s, d, done[r]) = DocumentPoints(s, d)
  BY <1>1 DEF DocumentPoints
<1>4. /\ DocumentPoints(s, d) \subseteq SourcePoints(s, SourceOf[d])
      /\ SourcePoints(s, SourceOf[d]) \subseteq before[r] \cup DocumentPoints(s, d)
  BY <1>3 DEF HalfWay
<1>5. SourcePoints(s, SourceOf[d])' = DocumentPoints(s, d)
  BY <1>2, <1>4 DEF SourcePoints, Session
<1>6. DocumentPoints(s, d)' = DocumentPoints(s, d)
  BY <1>2 DEF DocumentPoints, PointsUpTo, BatchPoints, Session
<1>7. s' = s /\ d' = d
  BY <1>2 DEF Session
<1>8. QED
  BY <1>2, <1>4, <1>5, <1>6, <1>7 DEF Whole, SourcePoints

LEMMA StepKeepsVersions ==
  ASSUME ServiceInv, VersionsComeWhole, NEW r \in Requests, Step(r)
  PROVE  VersionsComeWhole'
<1>1. TypeOK /\ JobsAreUploads
  BY VersionsByRequest DEF ServiceInv
<1>2. ASSUME NEW u \in Requests
      PROVE  /\ pc'[u] \in {"write", "prune"} => HalfWay(u)'
             /\ pc'[u] = "settle" \/ (pc'[u] = "release" /\ req'[u].op = "upload") => Whole(u)'
  <2>1. req' = req
    BY <1>1, StepFrame
  <2>2. CASE u # r
    <3>1. pc'[u] = pc[u]
      BY <1>1, <2>2, StepFrame
    <3>2. QED
      BY <2>1, <2>2, <3>1, VersionsByRequest, OthersKeepVersions DEF Critical, Ingesting
  <2>3. CASE u = r
    <3>1. CASE Snapshot(r)
      <4>1. pc'[r] = "write"
        BY <1>1, <3>1 DEF Snapshot, Goto, TypeOK
      <4>2. QED
        BY <2>3, <3>1, <4>1, SnapshotStartsVersion
    <3>2. CASE Write(r)
      <4>1. pc[r] = "write" /\ pc'[r] \in {"write", "prune"}
        BY <1>1, <3>2 DEF Write, Goto, TypeOK
      <4>2. HalfWay(r)
        BY <4>1, VersionsByRequest
      <4>3. QED
        BY <2>3, <3>2, <4>1, <4>2, WriteContinuesVersion
    <3>3. CASE Prune(r)
      <4>1. pc[r] = "prune" /\ pc'[r] \in {"settle", "release"}
        BY <1>1, <3>3 DEF Prune, Stored, Goto, TypeOK
      <4>2. HalfWay(r)
        BY <4>1, VersionsByRequest
      <4>3. QED
        BY <2>3, <3>3, <4>1, <4>2, PruneEndsVersion
    <3>4. CASE ~Snapshot(r) /\ ~Write(r) /\ ~Prune(r)
      BY <2>1, <2>3, <3>4, HowVersionsProgress
    <3>5. QED
      BY <3>1, <3>2, <3>3, <3>4
  <2>4. QED
    BY <2>2, <2>3
<1>3. JobsAreUploads'
  BY <1>1, StepKeepsJobsAreUploads
<1>4. QED
  BY <1>2, <1>3 DEF VersionsComeWhole, HalfWay, Whole, JobsAreUploads

LEMMA NextKeepsVersions ==
  ServiceInv /\ VersionsComeWhole /\ [Next]_vars => VersionsComeWhole'
<1> SUFFICES ASSUME ServiceInv, VersionsComeWhole, [Next]_vars PROVE VersionsComeWhole'
  OBVIOUS
<1>1. ASSUME UNCHANGED <<jobs, vectors, req, before, done>>,
             \A u \in Requests : pc'[u] \in {pc[u], "dead"}
      PROVE  VersionsComeWhole'
  BY <1>1 DEF VersionsComeWhole, SourcePoints, PointsUpTo, BatchPoints, DocumentPoints, Session
<1>2. ASSUME NEW s \in Sessions, NEW t \in Tenants, NewSession(s, t) PROVE VersionsComeWhole'
  BY <1>1, <1>2 DEF NewSession, CreateSession, InsertSession
<1>3. CASE Crash
  BY <1>1, <1>3 DEF Crash, storeVars
<1>4. CASE UNCHANGED vars
  BY <1>1, <1>4 DEF vars
<1>5. QED
  BY <1>2, <1>3, <1>4, StepKeepsVersions DEF Next, Finished

\* A version of a document is never mixed with another in what is reported.
THEOREM VersionsInvariant == Spec => []VersionsComeWhole
<1>1. Init => VersionsComeWhole
  BY DEF Init, StoreInit, VersionsComeWhole
<1>2. QED
  BY <1>1, NextKeepsVersions, ServiceInvariant, PTL DEF Spec
-----------------------------------------------------------------------------
(* SuccessMeansStored. *)

\* The step that reports success, and what it leaves of the collection.
LEMMA WhatCompletes ==
  ASSUME ServiceInv, VersionsComeWhole, NEW r \in Requests, Step(r),
         NEW u \in Requests, Completes(u)
  PROVE  /\ Whole(u)
         /\ vectors' = vectors /\ req' = req
         /\ jobs'[u] # NoJob => jobs'[u].chunks = Cardinality(DocumentPoints(Session(u), req[u].doc))
<1>1. /\ TypeOK /\ LabelsMatchOps /\ WorkersHaveTheirJob /\ req' = req
      /\ jobs \in [Requests -> JobRecord \cup {NoJob}] /\ req[r].op \in AllOps
  BY StepFrame, ReqFields DEF ServiceInv, TypeOK, StoreTypeOK
<1>2. CASE req[u].op = "upload" /\ pc[u] # "ok" /\ pc'[u] = "ok"
  <2>1. u = r
    BY <1>1, <1>2, StepFrame
  <2>2. Release(r) /\ pc[r] = "release"
    <3> USE <1>1, <1>2, <2>1 DEF Goto, TypeOK, LabelsMatchOps, Uploads, AfterAdmission, Failed,
                                 Stored, AllOps, Ingesting
    <3>1. CASE Quiet(r)
      BY <3>1 DEF Quiet, Arrive, RejectUpload, Submit, Confirm, Stage, StartWorker, Recheck,
         Unreadable, Snapshot, VectorFault, MetadataFault, Cleanup
    <3>2. CASE InsertOwner(r) \/ Record(r) \/ Acquire(r) \/ Claim(r) \/ Settle(r) \/ Fail(r)
      BY <3>2 DEF InsertOwner, Record, Acquire, Claim, Settle, Fail
    <3>3. CASE Write(r) \/ Prune(r) \/ Erase(r) \/ Unown(r) \/ Fetch(r) \/ Query(r)
      BY <3>3 DEF Write, Prune, Erase, Unown, Fetch, Query
    <3>4. CASE Release(r)
      BY <3>4 DEF Release
    <3>5. QED
      BY <3>1, <3>2, <3>3, <3>4 DEF Step, Quiet
  <2>3. Whole(u)
    BY <1>2, <2>1, <2>2, VersionsByRequest
  <2>4. vectors' = vectors /\ jobs' = jobs
    BY <2>2 DEF Release, storeVars
  <2>5. jobs[u] = NoJob
    BY <1>2, VersionsByRequest DEF JobsAreUploads
  <2>6. QED
    BY <1>1, <2>3, <2>4, <2>5
<1>3. CASE /\ jobs[u] # NoJob /\ jobs[u].status # "completed"
           /\ jobs'[u] # NoJob /\ jobs'[u].status = "completed"
  <2>1. CASE Settle(r)
    <3> DEFINE n == Cardinality(DocumentPoints(Session(r), req[r].doc))
    <3>1. pc[r] = "settle" /\ UpdateJob(r, "completed", n) /\ vectors' = vectors
      BY <2>1 DEF Settle, Goto
    <3>2. u = r
      BY <1>1, <1>3, <3>1, UpdateJobEffect
    <3>3. jobs[r] \in JobRecord /\ jobs' = [jobs EXCEPT ![r].status = "completed", ![r].chunks = n]
      BY <1>1, <1>3, <3>1, <3>2 DEF UpdateJob
    <3> HIDE DEF n
    <3>4. jobs'[r].chunks = n
      BY <1>1, <3>3 DEF JobRecord
    <3>5. Whole(r)
      BY <3>1, VersionsByRequest
    <3>6. QED
      BY <1>1, <3>1, <3>2, <3>4, <3>5 DEF n
  <2>2. CASE Claim(r) \/ Fail(r)
    <3>1. \A k \in Requests : jobs'[k] # jobs[k] => k = r /\ jobs'[k].status \in {"processing", "failed"}
      <4>1. CASE UNCHANGED storeVars
        BY <4>1 DEF storeVars
      <4>2. CASE UpdateJob(r, "processing", 0) \/ UpdateJob(r, "failed", 0)
        <5>1. CASE jobs[r] = NoJob
          BY <4>2, <5>1 DEF UpdateJob
        <5>2. CASE jobs[r] # NoJob
          <6>1. /\ jobs[r] \in JobRecord
                /\ \E status \in {"processing", "failed"} :
                     jobs' = [jobs EXCEPT ![r].status = status, ![r].chunks = 0]
            BY <1>1, <4>2, <5>2 DEF UpdateJob
          <6>2. QED
            BY <1>1, <6>1 DEF JobRecord
        <5>3. QED
          BY <5>1, <5>2
      <4>3. QED
        BY <2>2, <4>1, <4>2 DEF Claim, Fail
    <3>2. QED
      BY <1>3, <3>1
  <2>3. CASE Record(r)
    <3>1. CASE InsertJob(r, Session(r), req[r].tenant)
      BY <1>1, <1>3, <3>1 DEF InsertJob
    <3>2. CASE UNCHANGED storeVars
      BY <1>3, <3>2 DEF storeVars
    <3>3. QED
      BY <2>3, <3>1, <3>2 DEF Record
  <2>4. CASE Unown(r)
    <3>1. jobs'[u] \in {jobs[u], NoJob}
      BY <1>1, <2>4, ReqFields, DeleteSessionEffect DEF Unown
    <3>2. QED
      BY <1>3, <3>1
  <2>5. CASE Quiet(r) \/ InsertOwner(r) \/ Acquire(r) \/ Write(r) \/ Prune(r) \/ Erase(r)
             \/ Release(r) \/ Fetch(r) \/ Query(r)
    <3>1. jobs' = jobs
      BY <2>5, QuietFrame DEF InsertOwner, InsertSession, Acquire, Write, Prune, Erase, Release,
         Fetch, Query, storeVars
    <3>2. QED
      BY <1>3, <3>1
  <2>6. QED
    BY <2>1, <2>2, <2>3, <2>4, <2>5 DEF Step, Quiet
<1>4. QED
  BY <1>2, <1>3 DEF Completes

\* An upload reported as stored is in the collection, exactly that version,
\* under any interleaving of uploads, deletions, faults and crashes.
THEOREM SuccessIsStored == Spec => SuccessMeansStored
<1> DEFINE Stands ==
      \A r \in Requests :
        Completes(r) =>
          /\ SourcePoints(Session(r), SourceOf[req[r].doc])
               = DocumentPoints(Session(r), req[r].doc)
          /\ jobs'[r] # NoJob =>
               jobs'[r].chunks = Cardinality(DocumentPoints(Session(r), req[r].doc))
<1>1. ServiceInv /\ VersionsComeWhole /\ [Next]_vars => [Stands]_vars
  <2> SUFFICES ASSUME ServiceInv, VersionsComeWhole, Next, NEW u \in Requests, Completes(u)
               PROVE  /\ Whole(u)
                      /\ jobs'[u] # NoJob =>
                           jobs'[u].chunks = Cardinality(DocumentPoints(Session(u), req[u].doc))
    BY DEF Whole
  <2>1. PICK r \in Requests : Step(r)
    BY DEF Next, NewSession, CreateSession, InsertSession, Crash, Finished, vars, storeVars,
       Completes, Terminal
  <2>2. QED
    BY <2>1, WhatCompletes
<1>2. QED
  BY <1>1, ServiceInvariant, VersionsInvariant, PTL DEF Spec, SuccessMeansStored
-----------------------------------------------------------------------------
(* The refinement. *)

Owned == {s \in Sessions : owner[s] # NoTenant}

Changes == [s \in Sessions |-> ChangeOf(s)]

LEMMA ChangeOfHolder ==
  ASSUME ServiceInv, NEW r \in Requests, pc[r] \in Critical
  PROVE  Changes[Session(r)] = IF req[r].op = "delete" THEN "deletion" ELSE req[r].doc
<1>1. Session(r) \in Sessions /\ holder[Session(r)] = r /\ r # NoRequest
  BY ReqFields, CareerServiceAssumption DEF ServiceInv, LockHeldWhileCritical
<1>2. QED
  BY <1>1 DEF Changes, ChangeOf

LEMMA QuietStepStutters ==
  ASSUME UNCHANGED <<owner, vectors, req, holder>>
  PROVE  UNCHANGED Content!contentVars
BY DEF Content!contentVars, ChangeOf

\* In the names of this module, what each step of the promise says.
LEMMA PromisedSteps ==
  /\ \A s \in Sessions :
       /\ Content!Open(s) <=> Owned' = Owned \cup {s} /\ vectors' = vectors /\ Changes' = Changes
       /\ Content!Begin(s) <=>
            /\ Changes[s] = NoDoc
            /\ \E c \in Docs \cup {"deletion"} : Changes' = [Changes EXCEPT ![s] = c]
            /\ Owned' = Owned /\ vectors' = vectors
       /\ Content!Add(s) <=>
            /\ Changes[s] \in Docs /\ s \in Owned
            /\ vectors \subseteq vectors'
            /\ vectors' \ vectors \subseteq DocumentPoints(s, Changes[s])
            /\ Owned' = Owned /\ Changes' = Changes
       /\ Content!Replace(s) <=>
            /\ Changes[s] \in Docs
            /\ DocumentPoints(s, Changes[s]) \subseteq vectors'
            /\ vectors' \subseteq vectors
            /\ \A p \in vectors \ vectors' : p.session = s /\ p.source = SourceOf[Changes[s]]
            /\ Owned' = Owned /\ Changes' = Changes
       /\ Content!Erase(s) <=>
            /\ Changes[s] = "deletion"
            /\ vectors' = {p \in vectors : p.session # s}
            /\ Owned' = Owned /\ Changes' = Changes
       /\ Content!GiveUp(s) <=>
            /\ Changes[s] = "deletion"
            /\ \A p \in vectors : p.session # s
            /\ Owned' = Owned \ {s}
            /\ vectors' = vectors /\ Changes' = Changes
  /\ Content!End <=>
       /\ \A s \in Sessions : Changes'[s] \in {Changes[s], NoDoc}
       /\ Changes' = [s \in Sessions |-> Changes'[s]]
       /\ Owned' = Owned /\ vectors' = vectors
BY DEF Content!Open, Content!Begin, Content!Add, Content!Replace, Content!Erase, Content!GiveUp,
       Content!End, Owned, Changes

LEMMA OwnedAsBefore ==
  owner' = owner => Owned' = Owned
BY DEF Owned

LEMMA ChangesAsBefore ==
  holder' = holder /\ req' = req => Changes' = Changes
BY DEF Changes, ChangeOf

\* What a request does to the content of its session under the lock.
LEMMA WritePrunePromised ==
  ASSUME ServiceInv, VersionsComeWhole, NEW r \in Requests, Write(r) \/ Prune(r)
  PROVE  Content!Add(Session(r)) \/ Content!Replace(Session(r))
<1> DEFINE s == Session(r)
           d == req[r].doc
<1>1. /\ TypeOK /\ s \in Sessions /\ pc[r] \in {"write", "prune"}
      /\ pc[r] \in Critical /\ pc[r] \in Ingesting
  BY ReqFields DEF ServiceInv, Write, Prune, Goto, Critical, Ingesting
<1>2. req[r].op \in Uploads /\ d \in Docs
  BY <1>1, ReqFields DEF ServiceInv, LabelsMatchOps
<1>3. Changes[s] = d
  BY <1>1, <1>2, ChangeOfHolder DEF Uploads
<1>4. s \in Owned
  BY <1>1 DEF ServiceInv, IngestsIntoOwnedSession, Owned
<1>5. owner' = owner /\ holder' = holder /\ req' = req
  BY DEF Write, Prune, storeVars
<1>6. Owned' = Owned /\ Changes' = Changes
  BY <1>5, OwnedAsBefore, ChangesAsBefore
<1>7. HalfWay(r)
  BY <1>1, VersionsByRequest
<1>8. CASE Write(r)
  <2>1. vectors' = vectors \cup BatchPoints(s, d, done[r] + 1)
    BY <1>8 DEF Write, UpsertBatch
  <2>2. done[r] + 1 \in 1..Len(Batches[d])
    BY <1>2, <1>8, BatchCount DEF ServiceInv, TypeOK, Progress, Write, Goto
  <2>3. BatchPoints(s, d, done[r] + 1) \subseteq DocumentPoints(s, d)
    BY <2>2 DEF DocumentPoints, PointsUpTo
  <2>4. QED
    BY <1>1, <1>2, <1>3, <1>4, <1>6, <2>1, <2>3, PromisedSteps
<1>9. CASE Prune(r)
  <2>1. vectors' = vectors \ (before[r] \ DocumentPoints(s, d))
    BY <1>9 DEF Prune, DeletePoints
  <2>2. \A p \in before[r] : p.session = s /\ p.source = SourceOf[d]
    BY <1>7 DEF HalfWay
  <2>3. DocumentPoints(s, d) \subseteq vectors'
    BY <1>7, <1>9, PruneEndsVersion
  <2>4. QED
    BY <1>1, <1>2, <1>3, <1>6, <2>1, <2>2, <2>3, PromisedSteps
<1>10. QED
  BY <1>8, <1>9

LEMMA DeletionPromised ==
  ASSUME ServiceInv, NEW r \in Requests, Erase(r) \/ Unown(r),
         NEW s \in Sessions, s = Session(r)
  PROVE  Content!Erase(s) \/ Content!GiveUp(s) \/ UNCHANGED Content!contentVars
<1>1. /\ TypeOK /\ req[r].tenant \in Tenants
      /\ pc[r] \in {"erase", "unown"} /\ pc[r] \in Critical
  BY ReqFields DEF ServiceInv, Erase, Unown, Goto, Critical
<1>2. req[r].op = "delete"
  BY <1>1 DEF ServiceInv, LabelsMatchOps
<1>3. Changes[s] = "deletion"
  BY <1>1, <1>2, ChangeOfHolder
<1>4. holder' = holder /\ req' = req
  BY DEF Erase, Unown
<1>5. Changes' = Changes
  BY <1>4, ChangesAsBefore
<1>6. CASE Erase(r)
  <2>1. owner' = owner /\ vectors' = vectors \ SessionPoints(s)
    BY <1>6 DEF Erase, DeletePoints, storeVars
  <2>2. vectors' = {p \in vectors : p.session # s}
    BY <2>1 DEF SessionPoints
  <2>3. QED
    BY <1>1, <1>3, <1>5, <2>1, <2>2, OwnedAsBefore, PromisedSteps
<1>7. CASE Unown(r)
  <2>1. vectors' = vectors /\ pc[r] = "unown" /\ DeleteSession(s, req[r].tenant)
    BY <1>7 DEF Unown, Goto
  <2>2. \A p \in vectors : p.session # s
    BY <1>2, <2>1 DEF ServiceInv, ErasedUntilReleased, SessionPoints
  <2>3. CASE owner[s] = req[r].tenant
    <3>1. Owned' = Owned \ {s}
      BY <1>1, <2>1, <2>3, DeleteSessionEffect DEF Owned
    <3>2. Content!GiveUp(s)
      BY <1>3, <1>5, <2>1, <2>2, <3>1 DEF Content!GiveUp, Owned, Changes
    <3>3. QED
      BY <3>2
  <2>4. CASE owner[s] # req[r].tenant
    <3>1. owner' = owner
      BY <1>1, <2>1, <2>4 DEF DeleteSession, TypeOK, StoreTypeOK
    <3>2. QED
      BY <1>4, <2>1, <3>1, QuietStepStutters
  <2>5. QED
    BY <2>3, <2>4
<1>8. QED
  BY <1>6, <1>7

LEMMA LockPromised ==
  ASSUME ServiceInv, NEW r \in Requests, Acquire(r) \/ Release(r)
  PROVE  Content!Begin(Session(r)) \/ Content!End
<1> DEFINE s == Session(r)
<1>1. /\ TypeOK /\ s \in Sessions /\ r # NoRequest
      /\ req[r].op \in AllOps /\ (req[r].op \in Uploads => req[r].doc \in Docs)
      /\ holder \in [Sessions -> Requests \cup {NoRequest}]
  BY ReqFields, CareerServiceAssumption DEF ServiceInv, TypeOK, Mutex!MutexTypeOK
<1>2. owner' = owner /\ vectors' = vectors /\ req' = req
  BY DEF Acquire, Release, storeVars
<1>3. Owned' = Owned
  BY <1>2, OwnedAsBefore
<1>4. CASE Acquire(r)
  <2>1. holder[s] = NoRequest /\ holder' = [holder EXCEPT ![s] = r]
    BY <1>4 DEF Acquire, Mutex!Acquire
  <2>2. req[r].op \in Uploads \cup {"delete"}
    BY <1>1, <1>4 DEF Acquire, Goto, ServiceInv, LabelsMatchOps
  <2> DEFINE c == IF req[r].op = "delete" THEN "deletion" ELSE req[r].doc
  <2>3. c \in Docs \cup {"deletion"}
    BY <1>1, <2>2
  <2>4. Changes[s] = NoDoc
    BY <1>1, <2>1 DEF Changes, ChangeOf
  <2>5. Changes' = [Changes EXCEPT ![s] = c]
    BY <1>1, <1>2, <2>1 DEF Changes, ChangeOf
  <2> HIDE DEF c
  <2>6. QED
    BY <1>1, <1>2, <1>3, <2>3, <2>4, <2>5, PromisedSteps
<1>5. CASE Release(r)
  <2>1. holder' = [holder EXCEPT ![s] = NoRequest]
    BY <1>5 DEF Release, Mutex!Release
  <2>2. \A z \in Sessions : Changes'[z] \in {Changes[z], NoDoc}
    BY <1>1, <1>2, <2>1 DEF Changes, ChangeOf
  <2>3. Changes' = [z \in Sessions |-> Changes'[z]]
    BY DEF Changes
  <2>4. QED
    BY <1>2, <1>3, <2>2, <2>3, PromisedSteps
<1>6. QED
  BY <1>4, <1>5

LEMMA OpeningPromised ==
  ASSUME ServiceInv, NEW s \in Sessions, NEW t \in Tenants, InsertSession(s, t),
         UNCHANGED <<vectors, req, holder>>
  PROVE  Content!Open(s)
<1>1. TypeOK /\ NoTenant \notin Tenants
  BY SessionStoreAssumption DEF ServiceInv
<1>2. Owned' = Owned \cup {s}
  BY <1>1 DEF InsertSession, Owned, TypeOK, StoreTypeOK
<1>3. QED
  BY <1>2, ChangesAsBefore, PromisedSteps

LEMMA StepIsPromised ==
  ASSUME ServiceInv, VersionsComeWhole, NEW r \in Requests, Step(r)
  PROVE  Content!ContentNext \/ UNCHANGED Content!contentVars
<1>1. TypeOK /\ Session(r) \in Sessions /\ req[r].tenant \in Tenants
  BY ReqFields DEF ServiceInv
<1>2. CASE Write(r) \/ Prune(r)
  BY <1>1, <1>2, WritePrunePromised DEF Content!ContentNext
<1>3. CASE Erase(r) \/ Unown(r)
  <2>1. PICK s \in Sessions : s = Session(r)
    BY <1>1
  <2>2. Content!Erase(s) \/ Content!GiveUp(s) \/ UNCHANGED Content!contentVars
    BY <1>3, <2>1, DeletionPromised
  <2>3. QED
    BY <2>2 DEF Content!ContentNext
<1>4. CASE Acquire(r) \/ Release(r)
  BY <1>1, <1>4, LockPromised DEF Content!ContentNext
<1>5. CASE InsertOwner(r)
  <2>1. UNCHANGED <<vectors, req, holder>>
    BY <1>5 DEF InsertOwner
  <2>2. CASE InsertSession(Session(r), req[r].tenant)
    BY <1>1, <2>1, <2>2, OpeningPromised DEF Content!ContentNext
  <2>3. CASE UNCHANGED storeVars
    BY <2>1, <2>3, QuietStepStutters DEF storeVars
  <2>4. QED
    BY <1>5, <2>2, <2>3 DEF InsertOwner
<1>6. CASE Quiet(r) \/ Record(r) \/ Claim(r) \/ Settle(r) \/ Fail(r) \/ Fetch(r) \/ Query(r)
  <2>1. UNCHANGED <<owner, vectors, req, holder>>
    <3>1. req' = req
      BY <1>1, StepFrame
    <3>2. UNCHANGED <<vectors, holder>>
      BY <1>6, QuietFrame DEF Record, Claim, Settle, Fail, Fetch, Query
    <3>3. owner' = owner
      BY <1>1, <1>6, QuietFrame, UpdateJobEffect, InsertJobEffect
         DEF Record, Claim, Settle, Fail, Fetch, Query, storeVars
    <3>4. QED
      BY <3>1, <3>2, <3>3
  <2>2. QED
    BY <2>1, QuietStepStutters
<1>7. QED
  BY <1>2, <1>3, <1>4, <1>5, <1>6 DEF Step, Quiet

LEMMA NextIsPromised ==
  ServiceInv /\ VersionsComeWhole /\ [Next]_vars => [Content!ContentNext]_Content!contentVars
<1> SUFFICES ASSUME ServiceInv, VersionsComeWhole, [Next]_vars
             PROVE  Content!ContentNext \/ UNCHANGED Content!contentVars
  OBVIOUS
<1>1. CASE UNCHANGED vars
  BY <1>1, QuietStepStutters DEF vars
<1>2. ASSUME NEW s \in Sessions, NEW t \in Tenants, NewSession(s, t)
      PROVE  Content!ContentNext
  BY <1>2, OpeningPromised DEF NewSession, CreateSession, Content!ContentNext
<1>3. CASE Crash
  <2>1. UNCHANGED <<owner, vectors, req>> /\ holder' = [z \in Sessions |-> NoRequest]
    BY <1>3 DEF Crash, storeVars
  <2>2. Owned' = Owned
    BY <2>1, OwnedAsBefore
  <2>3. \A z \in Sessions : Changes'[z] \in {Changes[z], NoDoc}
    BY <2>1 DEF Changes, ChangeOf
  <2>4. Changes' = [z \in Sessions |-> Changes'[z]]
    BY DEF Changes
  <2>5. Content!End
    BY <2>1, <2>2, <2>3, <2>4, PromisedSteps
  <2>6. QED
    BY <2>5 DEF Content!ContentNext
<1>4. QED
  BY <1>1, <1>2, <1>3, StepIsPromised DEF Next, Finished

\* Requests, locks, faults and crashes never do to a session's documents what
\* SessionContent does not allow.
THEOREM ServiceImplementsContent == Spec => ImplementsSessionContent
<1>1. Init => Content!ContentInit
  BY DEF Init, StoreInit, Mutex!MutexInit, Content!ContentInit, ChangeOf
<1>2. QED
  BY <1>1, NextIsPromised, ServiceInvariant, VersionsInvariant, PTL
     DEF Spec, ImplementsSessionContent, Content!ContentSpec
=============================================================================
