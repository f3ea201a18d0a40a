---------------------------- MODULE SessionStore ----------------------------
(***************************************************************************)
(* app/session_store.py: the SQLite tables "sessions" (who owns a session) *)
(* and "ingestion_jobs" (what became of an asynchronous upload).  Each     *)
(* method opens a connection of its own.  sqlite3 in its default mode      *)
(* begins a transaction at an INSERT, UPDATE or DELETE and not at a        *)
(* SELECT, so a method that selects and then writes is two steps; the      *)
(* service module decides where another request may run between them.      *)
(*                                                                         *)
(* Job and session ids are 18 random bytes: a job is named here by the     *)
(* request that creates it, and a generated session id was never used.     *)
(***************************************************************************)
EXTENDS Naturals

CONSTANTS Tenants, Sessions, Requests,
          NoTenant,       \* no row in "sessions"
          NoJob           \* no row in "ingestion_jobs"

JobStatus == {"queued", "processing", "completed", "failed"}

JobRecord == [session : Sessions, tenant : Tenants, status : JobStatus, chunks : Nat]

ASSUME SessionStoreAssumption ==
  /\ NoTenant \notin Tenants
  /\ NoJob \notin JobRecord

VARIABLES
  owner,    \* sessions.tenant_id of each session, or NoTenant
  issued,   \* the session ids that ever had a row
  jobs      \* the row of the job of each request, or NoJob

storeVars == <<owner, issued, jobs>>

JobTransitions == [queued     |-> {"processing", "failed"},
                   processing |-> {"completed", "failed"},
                   completed  |-> {},
                   failed     |-> {}]

StoreTypeOK ==
  /\ owner \in [Sessions -> Tenants \cup {NoTenant}]
  /\ issued \subseteq Sessions
  /\ jobs \in [Requests -> JobRecord \cup {NoJob}]

StoreInit ==
  /\ owner = [s \in Sessions |-> NoTenant]
  /\ issued = {}
  /\ jobs = [r \in Requests |-> NoJob]
-----------------------------------------------------------------------------
\* A plausible slip: INSERT OR REPLACE, which first deletes the row that is
\* there, and by the cascade the session's jobs.
InsertSessionReplacing(s, t) ==
  /\ owner' = [owner EXCEPT ![s] = t]
  /\ issued' = issued \cup {s}
  /\ jobs' = [j \in Requests |->
                IF jobs[j] # NoJob /\ jobs[j].session = s THEN NoJob ELSE jobs[j]]

\* INSERT INTO sessions: the primary key refuses a second row (IntegrityError).
InsertSession(s, t) ==
  /\ owner[s] = NoTenant
  /\ owner' = [owner EXCEPT ![s] = t]
  /\ issued' = issued \cup {s}
  /\ UNCHANGED jobs

\* create_session
CreateSession(s, t) ==
  /\ s \notin issued
  /\ InsertSession(s, t)

\* The answer of ensure_owner when the row exists or must not be created.
\* A plausible slip: only the existence of the row is looked at.
OwnsWithoutTenant(s, t) == owner[s] # NoTenant

Owns(s, t) == owner[s] = t

\* create_job: the foreign key refuses a job of a session without a row.
InsertJob(j, s, t) ==
  /\ owner[s] # NoTenant
  /\ jobs' = [jobs EXCEPT ![j] = [session |-> s, tenant |-> t,
                                  status |-> "queued", chunks |-> 0]]
  /\ UNCHANGED <<owner, issued>>

\* get_job: the row, if it is this tenant's.
JobVisible(j, t) == jobs[j] # NoJob /\ jobs[j].tenant = t

\* update_job raises ValueError for a transition that is not listed.
CanUpdateJob(j, status) == status \in JobTransitions[jobs[j].status]

\* update_job: a job whose row is gone is left alone and False returned.  Its
\* SELECT and UPDATE are one step, since both run inside hold(session_id) and
\* every other writer of the row does too.
UpdateJob(j, status, chunks) ==
  /\ \/ /\ jobs[j] = NoJob
        /\ UNCHANGED jobs
     \/ /\ jobs[j] # NoJob
        /\ CanUpdateJob(j, status)
        /\ jobs' = [jobs EXCEPT ![j].status = status, ![j].chunks = chunks]
  /\ UNCHANGED <<owner, issued>>

\* A plausible slip: the foreign key has no ON DELETE CASCADE.
DeleteSessionOnly(s, t) ==
  /\ owner' = [owner EXCEPT ![s] = IF @ = t THEN NoTenant ELSE @]
  /\ UNCHANGED <<issued, jobs>>

\* delete_session: one DELETE, whose cascade takes the session's jobs.
DeleteSession(s, t) ==
  /\ owner' = [owner EXCEPT ![s] = IF @ = t THEN NoTenant ELSE @]
  /\ jobs' = [j \in Requests |->
                IF owner[s] = t /\ jobs[j] # NoJob /\ jobs[j].session = s
                THEN NoJob ELSE jobs[j]]
  /\ UNCHANGED issued
=============================================================================
