# A verified model of the AI Career Copilot service

The AI Career Copilot is one FastAPI process. Clients create sessions, upload PDFs into them, ask questions
about them and delete them; the process keeps its state in a SQLite file, a local Qdrant collection, a
directory of staged uploads, and a few dictionaries behind locks. This directory models what can go wrong
between those parts: requests of several tenants interleaving on an event loop and a thread pool, calls that
fail half way, and a process that dies and is started again. TLC checks the models on small instances; TLAPS
proves the central facts for every value of the constants.

Contents: [1 inventory](#1-inventory), [2 modules](#2-modules-and-how-they-correspond-to-the-code),
[3 runs and bounds](#3-runs-what-they-show-and-why-the-bounds-are-enough), [4 fairness](#4-fairness),
[5 proofs](#5-proofs), [6 findings](#6-where-code-and-documents-disagree),
[7 what is not modelled](#7-what-is-not-modelled), [8 plan](#8-plan), [9 how to run](#9-how-to-run).

## 1 Inventory

| Component | State it keeps | Operations | Meets others through | Hard part | What makes it correct |
|---|---|---|---|---|---|
| Session mutation locks (`session_locks.py`) | a dictionary session -> [lock, users], one guard | `hold` | called around ingestion and deletion | entries are removed while other threads wait | exclusion per session, no entry leaks or goes early, waiters are served |
| Session and job metadata (`session_store.py`) | tables `sessions` and `ingestion_jobs` | `create_session`, `ensure_owner`, `create_job`, `update_job`, `get_job`, `delete_session` | every endpoint and the worker | select-then-write in two statements; cascade | a job belongs to its session's present owner, its status follows the listed transitions |
| Document endpoints (`main.py`) | requests in flight, background tasks | upload, asynchronous upload and its worker, list, chat, delete | locks, metadata, vectors, objects | checks before an `await` used after it; partial failure; crash | isolation of tenants, complete deletion, success means stored |
| Document engine (`rag_engine.py`) | points of the collection | `process_and_store_document`, `delete_session_documents`, `list_session_documents`, `query_documents` | vector collection, embeddings | replacement of a document in several batches | no gap while replacing, no orphan |
| Vector collection (`vector_store.py`) | the Qdrant collection, a registry of open collections | `get`, `query`, `upsert`, `delete`, `get_collection`, `close_collections` | called by the engine from many threads | pages of a read, failed opening, shutdown while in use | one client per path, no call is cut, a read is a snapshot, nobody waits for ever |
| Object store (`object_store.py`) | staged files | `put`, `delete` | asynchronous upload and its worker | partial copy, crash before the worker | each object has a worker that deletes it |
| Text splitter (`rag_engine.py`) | loop variables | `split_text` | ingestion | cuts at sentence ends against the overlap | loses nothing, bounded chunks, ends |
| Embedding cache (`rag_engine.py`) | an LRU `OrderedDict` under a lock | `embed_texts` | ingestion and chat, embedding service | look-up and store in two sections, service in between | right vector for each text, or it is known whose fault; bounded but for failed calls; least recent goes |
| Rate limiter (`rate_limit.py`) | a queue of times per identity | `check` | middleware | window boundary, rounding of Retry-After | at most the limit in any window, a refusal ends when promised |
| API gate (`main.py`, `auth.py`) | configured keys | the HTTP middleware | limiter, every endpoint | order of key, limit and 401 | guesses are limited, a tenant's budget is its own |
| Grounded answers (`ai_services.py`, `query_documents`) | per chat: blocks, reply, citations kept | retrieval, two requests to the provider, fallback, citation filter | chat, over the collection others change | any reply, any failure, documents that go meanwhile | sources are what was retrieved and cited, the status tells what the answer rests on |
| Vector migration (`scripts/migrate_vectors.py`) | export file, staging directory | `export_collection`, `import_collection` | operator, old and new application | check-then-rename, partial import, a source that changes | the target is whole or absent, nothing is replaced |
| Career generators, evaluation, tracing, logging, request models, web client, deployment | none that other parts share | - | - | - | - |

How a document request goes: the middleware (API gate, limiter) names the tenant; the endpoint asks the
metadata store who owns the session; an upload reads its file (an `await`), then runs in the pool: it takes the
session's lock, asks for the owner *again*, splits, embeds and upserts batch by batch and deletes what is stale.
An asynchronous upload writes a job row and a staged object before it answers 202, and a background task takes
the lock later, finding its row or not. A deletion takes the same lock, deletes the points, then the row, whose
cascade takes the jobs. List and chat take no lock. A chat queries the collection in the pool and then asks the
provider with what it found. All of them get the collection from a registry, which opens it on first use and closes
it at shutdown.

## 2 Modules and how they correspond to the code

| Module | Models | State | Actions |
|---|---|---|---|
| `SessionMutex` | what `hold` promises | `holder[s]` | `Acquire`, `Release` |
| `SessionLocks` | `SessionMutationCoordinator.hold` statement by statement | `pc`, the guard, the dictionary `entries` with its locks and counts | one per statement: `EnterHold`, `Lookup`, `Install`, `Count`, `AcquireLock`, `ReleaseLock`, `LeaveHold`, `Drop` |
| `SessionStore` | the two SQL tables | `owner`, `jobs`, `issued` (ids ever used) | one operator per SQL statement |
| `RagEngine` | the points of the collection | `vectors` | upsert of a batch, delete, the filters of the reads |
| `CareerService` | composes `SessionStore`, `RagEngine` and `SessionMutex` | per request: `req`, `pc`, `before` (`existing_ids`), `done` (batches), `seen`; `objects`, `holder`, `crashes`; `outdated` is an observation | one per stretch of code between two points where another request can run |
| `SessionContent` | what the service promises of a session's documents (abstract) | `owned`, `content`, `change` | `Open`, `Begin`, `Add`, `Replace`, `Erase`, `GiveUp`, `End` |
| `VectorStore` | `get_collection`, `close_collections` and the calls of `VectorCollection` from many threads | `guard` and `registry` (`_collections`), `opened` clients, a `lock` per collection, `points`; per thread `pc`, `col`, `step`, `found`, `offset`; `shutdown` | `LookUp`, `Open`, `Check`; `Continue`, `Enter`, `Upsert`, `Delete`, `Query`, `GetBegin` and `Scroll` page by page, `Raise`; `CloseBegin`, `CloseClient`, `Clear` |
| `GroundedChat` | `POST /chat` over `VectorStore`: `query_documents`, `answer_with_context`, `_ask_structured`, `_ground_chat_response` | per chat: `phase`, `ranked` (the blocks), `mode`, `read`, `sources`, `answer`; `cited` is an observation | `NoContext`, `Prompt`, `Ask`, `Retry`, `Cite` (one turn of the loop over the citations), `CiteUnfit`, `Conclude` |
| `RateLimiter` | `SlidingWindowRateLimiter.check` | `now`, `events`; `admitted`, `refused` are observations | `Tick`, `Allow`, `Refuse` |
| `ApiGate` | the middleware over limiter and key registry | the limiter's; `served`, `guesses` are observations | `TooMany`, `Unauthorized`, `Serve` |
| `TextSplitter` | `split_text` | `length`, `ends` (the text), `start`, `chunks`, `finished` | `Turn`, one turn of the loop |
| `EmbeddingCache` | `embed_texts` with its cache | `cache`, `lock` (`_embedding_cache_lock`); per thread `pc`, `texts`, `index`, `resolved`, and `missing` and `answers`, what of `missing_indices` and of the response `zip` has not had yet; `uses`, `suspect`, `failures` are histories | `Call`; `EnterLookup`, `Lookup` (one text), `EndLookup`; `ServiceError`, `Response`; `EnterStore`, `Store` (one answer), `EndStore` with the eviction, `UnevenStore`; `Return` |
| `VectorMigration` | `export_collection` and `import_collection`, each a process | `source` (old collection), `exporting`, `total`, `offset`, `file`; per import `pc`, `staging`, `batch`, `position`; `target`; `atStart`, `changed`, `exported` are observations | `ExportBegin`, `ExportBatch`, `ExportEnd`, `ImportBegin`, `ReadRow`, `ReadEnd`, `Flush`, `LookAgain`, `Rename`, `CleanUp`, a crash of each; the surroundings: `Change`, `Damage`, `AppOpens` |
| `SessionLocksProofs`, `CareerServiceProofs`, `SessionContentProofs`, `GroundedChatProofs`, `ApiGateProofs`, `TextSplitterProofs`, `EmbeddingCacheProofs`, `VectorMigrationProofs` | theorems about the module in their name (`GroundedChatProofs`: of `VectorStore` too; `SessionContentProofs`: that `CareerService` implements it) | | |
| `MC...` | values of the constants for TLC that a `.cfg` cannot write | | |

`CareerService` uses `SessionMutex` and not `SessionLocks`: that the coordinator implements the mutex is checked
(`ImplementsMutex`) and proved (`CoordinatorImplementsMutex`), so the larger model stands on the smaller
promise. In turn `CareerService` implements `SessionContent` (`ImplementsSessionContent`, proved as
`ServiceImplementsContent`): a session's change under way is that of the holder of its lock, its owned sessions
are those with a row, its content is the collection. That module says in a page what a client may rely on: points
come into an owned session only, during an upload to it; points go only when the version that replaces them is
there as a whole, or in a deletion; a session is given up empty.

The collection has two models of different grain. `RagEngine` (in `CareerService`) has its points and takes each
call as one step. `VectorStore` has the registry, the clients and their locks, and reads a page at a time; that
`get` is still one step for its callers is its property `ReadIsSnapshot`. A client of `VectorStore`, and the
`VectorCollection` made around it, is named by the thread that opened it; each thread runs one function of
`rag_engine.py`, so it asks for the collection once. A point is a number, in the order of the scroll. `GroundedChat`
is built on `VectorStore` by EXTENDS: its steps and the store's interleave.

What an action of `CareerService` is: code of an `async def` handler between two `await`s runs alone on the
event loop, but threads of the pool run beside it. So every SQL statement, every call of the collection, every
file operation and every entry and exit of a lock ends an action. `ensure_owner` (a SELECT and an INSERT) is
two actions, `create_job` (an INSERT and a SELECT) is two. `update_job`'s SELECT and UPDATE are one, as
all of its callers hold the session's lock and `delete_session` does too; `delete_session_documents`' read and
delete are one for the same reason (that holders exclude each other is `LockHeldWhileCritical`, part of
`ServiceInv`). `Release` leaves `hold` and answers in one step: nothing the answer says is read after the unlock,
so what a success promises is said of the instant of the unlock; when the answer arrives another request may have
changed it again. A thread of the pool is taken by `Arrive` (synchronous handlers), `Submit`, `StartWorker` and
`Query`, and kept while a request waits for a session's lock; there are `PoolSize`.

Failures are named in `Faults`: `"document"` (refused or unreadable file), `"vectors"` (embedding or collection
raises), `"staging"` (`put` raises, part of the file copied or not, or `delete` raises), `"metadata"` (the database stays
locked and the statement raises, whichever it is). `Crash` ends every request on the way, frees the locks and keeps the rows, the points and the
objects. A lost background task is not resumed, since nothing in the code does so.

Abstractions. A document is a sequence of batches of chunks; a chunk is a name for what `_stable_chunk_id`
hashes. How near a point is to a question is left open: a chat may see any `TopK` points of its session. A job is
named by its request, as job ids are random. A file name is what `safe_filename` returns: two names it maps to one
are versions of one document, as in the code. A provider's reply is the list of its citations; which they are is
left open until the loop reads them. A point whose stored metadata `SourceChunk` refuses (only migrated rows can
have such) is in `UnfitRaw`, as the fallback takes the metadata as it is; it is in `Unfit` too if `_trusted_source`,
which drops a page that is no number, does not mend it. One without text is `Blank`. The clock of the limiter is in ticks, several to a second. A text is
its length and its sentence ends; `0.55 * chunk_size` is taken exactly.

The operators commented "A plausible slip" are variants of a definition the code could have by mistake. No
behaviour of the model uses them; each breaks at least one property (`mutants` in `PROJECT.json`), which shows
that the property depends on the line it is about.

## 3 Runs: what they show and why the bounds are enough

| Run | Instance | Shows |
|---|---|---|
| `SessionLocks` | 3 threads, 2 sessions, 3 lock objects, 2 calls each | `EntriesInv` (inductive), `MutualExclusion`, `EntriesExactlyInUse`, `ImplementsMutex`, `EveryWaiterIsServed` |
| `ServiceTenants` | keys, 2 tenants, 2 sessions, 3 requests of all five kinds, vector faults | `TenantIsolation`, `JobsBelongToOwners`, `StaleUploadsNeverIngest` |
| `ServiceLocal` | no keys, 1 session, 3 requests of the kinds that write, two versions of a file sharing a chunk, in one batch and in two, all faults, a crash | `ServiceInv` (inductive), `NoOrphanVectors`, `WorkersHaveTheirJob`, `SuccessMeansStored`, `ImplementsSessionContent`, `DeletionIsComplete` |
| `ServiceLiveness` | no keys, 3 requests, pool of 2, document and vector faults | `NoUploadIsForgotten`, `EveryRequestEnds`, `AcceptedJobSettles` |
| `ServiceRestored` | no keys, upload, list and delete | violation of `StaleUploadsNeverIngest` (section 6) |
| `ServiceLeftObject` | a crash | violation of `NoObjectOutlivesItsSession` (section 6) |
| `ApiGate` | a tenant with a key, a client without, limit 2, window of 3 seconds of 2 ticks, 10 instants | `GateInv` (inductive), `SlidingWindow`, `GuessesLimited`, `TenantSpendsItsOwnBudget`, `RetryAfterSuffices` |
| `TextSplitter` | chunks of 20, overlap 12, every text of up to 45 characters with up to 2 sentence ends | `SplitterInv` (inductive), `NothingLost`, `BoundedAndOverlapping`, `GetsOn` |
| `TextSplitterStuck` | overlap 15 | violation of `GetsOn` (section 6) |
| `EmbeddingCache` | 2 threads, 4 texts, cache of 2, calls of up to 2 texts, 3 calls, failing answers and answers of 0 to 3 vectors in any order | `CacheInv` (types, the lock, and whose fault a wrong vector is), `LatestUsesAreKept`, `ExcessIsOfFailedCalls` |
| `GroundedChat` | a chat, a deletion or a replacement in two batches, or two listings and a deletion; 6 points of 2 sessions, one blank, one unfit, one unfit only as stored; pages of 1, at most 2 points found, 2 citations, one forged id, two sets of metadata, fallback of 1; openings and embeddings that fail; a shutdown at any time | `StoreInv` and `ChatInv` (together inductive), `SourcesAreRetrieved`, `StatusTellsGrounding`, `ReadIsSnapshot`, `EveryThreadEnds` |
| `VectorMigration` | collections of up to 3 rows in batches of 2, one row refused by `upsert`, 2 imports, 2 changes of the source, 1 damage to the file (cut, altered, a row lost, written on), crashes | `MigrationInv` (inductive), `PublishedIsWhole`, `PublishedIsSource`, `NoDebris`, `TargetNeverReplaced` |

Bounds. *SessionLocks*: an entry is removed and made again only if one thread leaves while a second waits and a
third arrives, so three threads are the least that meet the hazard; the third lock object lets a new entry have
a new lock. *Service*: with three requests a deletion can come between any two steps of an upload while a third
request makes the row again, or a reader looks on; two tenants and two sessions are the least for isolation;
two batches let a failure strike between them; a request that only makes the row is an upload that is refused; a pool of two is smaller than the number of requests, so that it
fills up. One tenant is all there is in the local demo. *ApiGate*: ten instants are a window and most of
the next, so that requests of both meet in windows between them; two ticks to a second make rounding visible, and a
window of three seconds is the least in which a Retry-After of one second and a second more is not already all of it. *TextSplitter*: 45 characters are three to five
chunks, and 12 is the largest overlap that is small for chunks of 20. *EmbeddingCache*: three texts overfill a
cache of two, and with a fourth one call can put two too many into it; of two texts the answer can leave out the
first, so that the second's vector is filed under the first; three calls are one that fails so, one that finds
what it left and one that runs beside them. *GroundedChat*: pages of one point
make every read of two points one that others could come between; two found points and two citations are the
least with a valid and an invalid one, a repetition, and a found point that is not cited; a fallback of one leaves
a block out; three threads let one hold a collection that a second closes and a third opens anew.
*VectorMigration*: three rows are a full
batch and a rest; two imports race for one target; two changes are the least that cancel out in a count, which is
why `PublishedIsSource` speaks of changes in one direction only (an insertion and a deletion during an export go
unnoticed; `docs/VECTOR_MIGRATION.md` asks to stop the old application). `CHECK_DEADLOCK FALSE` stands in the
configuration of `EmbeddingCache` because the bound on calls ends the behaviours, and in that of `VectorMigration`
because a migration is over when its processes are; the other models stutter when their workload is over.

Symmetry is used in safety runs only, over requests, tenants, sessions, threads or texts that no constant names.

## 4 Fairness

`SessionLocks`: weak fairness of each thread that is inside `hold`. The operating system runs every thread that
can run. A `threading.Lock` is not fair, but each thread's calls are bounded in number, so who waits meets a
free lock for ever in the end.

`CareerService`: `FairSpec` has weak fairness of each request that has arrived: the event loop and the pool keep
running what can run. Nothing forces a client to send a request (`Arrive`), nothing forces a failure, since a
fault is one of several steps a request may take next. No fairness is assumed of `Crash`; the liveness run has
no crashes, and neither metadata nor staging faults, because `update_job("failed")` may itself raise, after
which a job stays `processing` for good, and the code promises nothing else.

`GroundedChat`: `StoreFairness` has weak fairness of each thread of the workload, from its call of `get_collection`
on, and of a shutdown that has begun; nothing forces a shutdown, a failed opening or a failed embedding. Locks
need no more than weak fairness here either, as each thread makes a bounded number of calls. No fairness is
assumed of a chat's later phases: the provider may never answer.

The other modules have no liveness properties; `GetsOn` states the termination of `split_text` as a fact about
each step.

## 5 Proofs

All constants are arbitrary within the named `ASSUME`s of their modules.

*SessionLocksProofs.* `EntriesInvariant` proves `EntriesInv`, which says for every session that its entry's count
is the number of threads registered on it, that an entry exists exactly while it is counted or being made, that
a thread's lock is the lock of its entry, that no lock is shared by two sessions, and that a lock is held by who
is past it. Mutual exclusion alone is not inductive: it needs that two threads of one session wait on the *same*
lock object, which in turn needs the counts. From it follow `MutualExclusionHolds`, `EntriesExactlyInUseHolds` and
`CoordinatorImplementsMutex`, whose refinement mapping takes as holder the thread inside the `with`.

*CareerServiceProofs.* `ServiceInvariant` proves `ServiceInv`. `NoOrphanVectors` by itself is not inductive: an upload
that writes needs to know that its session has an owner (`IngestsIntoOwnedSession`), which no deletion can undo
because it would hold the same lock (`LockHeldWhileCritical`). `TenantsIsolated` needs that a session serves one
tenant over its whole life (`SessionServesOneTenant`), which rests on ids never being issued twice when keys are
configured, and on there being one tenant when they are not. `StaleUploadsStayOut` is proved for the
authenticated service only (it is false otherwise, section 6). `VectorsAlwaysOwned`, `JobsAlwaysOwned`,
`WorkersAlwaysHaveTheirJob` and `DeletionsComplete` follow. `StagedObjectsHaveWorkers` assumes no crash
(section 6 shows what one leaves) and that putting an object does not fail; its invariant `ObjectsOnTheWay` lists the labels an
asynchronous upload may have while its object is stored. `NoUploadForgotten` says the same of job rows, when the
database does not fail either: a row that says `queued` or `processing` has its worker, which is what liveness
needs of safety (`AcceptedJobSettles` adds that the worker gets on). It rests on `QueuedUntilClaimed`, from which
also comes `JobUpdatesAreListed`: `UpdateJob` is a step of the model only for a transition that is listed, where
`update_job` raises `ValueError` otherwise, and the theorem shows, under any faults and crashes, that the worker
never asks for another, so nothing is hidden by that guard.

*SessionContentProofs.* `VersionsInvariant` proves `VersionsComeWhole`: while a request writes, its batches so far
are in the collection and whatever else is under its source was there before; once it is stored, the collection
has exactly its points under that source. It is inductive on top of `ServiceInv`, because whoever changes the
session holds its lock, and so nobody else does (`OtherSessionsStay`). With it a step that reports success reports
the truth (`SuccessIsStored`), and the deletion of stale points never takes one of the new version, which is what
`ServiceImplementsContent` needs of `Prune`; the other steps map to a step of `SessionContent` or a stutter from
`ServiceInv` alone.

*GroundedChatProofs.* `StoreInvariant` proves `StoreInv`, for any threads, workloads, page
size and time of the shutdown. That a shutdown cuts no call (`CallsEnd`) rests on the lock of the registered
collection, and that one client is open (`OneClient`) on the guard; neither is inductive without the other, since a
thread keeps using the collection it was given after the registry was cleared (`HoldsKnownClient`).
`ReadsAreSnapshots` needs that what is read so far is what is stored below the offset (`ScrolledUpTo`), which
the lock keeps so. `ChatInvariant` proves `ChatInv`, with the store's steps and the chat's interleaved: once a
chat's query is back, what it found stays, whatever happens to the points. `SourcesRetrieved` and `StatusHolds`
follow, for any reply of the provider of any length.

*ApiGateProofs.* `GateInvariant` proves `GateInv`: what the limiter keeps is the latest part of what it admitted and
what it dropped is older than a window. From that come `WindowHolds`, `GuessesStayLimited`, `TenantBudgetHolds` and
`RetryAfterIsEnough`, for every limit, window, resolution of the clock, registry and number of clients.

*TextSplitterProofs.* Under `OverlapSmall` (20 * Overlap <= 11 * ChunkSize + 20, which the defaults 1100 and 160
meet) `SplitterInvariant` proves that `start` is one overlap before the last cut; from it `TextIsNeverLost`,
`ChunksBounded` and `LoopGetsOn`, for every text. Without the hypothesis `LoopGetsOn` is false.

*EmbeddingCacheProofs.* Its inductive invariant is `CallInv`: beside `CacheInv`, the keys of the cache are the end
of the history `uses`, which has each key once, and the cache lost one only if it is full. `LatestUsesAreKept` alone
is not inductive, since moving an entry to the end keeps the order only if no key stands twice; the lemma behind it,
`UsedKeepsEnds`, is about two sequences, one the end of the other, in which the same element is used. An eviction
takes from the front, so the end of a history stays one. `CacheInvariant` proves `CacheInv`. `embed_texts` pairs texts
and vectors by position, so it needs of each call (`WorkOf`) that the indices still missing are those without a
vector, and that an answer whose rest is as long as theirs is in their order; then what is filed under a key is
that key's vector, and it does not matter that other threads stored, moved or evicted entries during the request. When
the lengths differ nothing is known of the vectors, and the call is bound to fail: the text it stores one for
becomes `suspect`, and the theorem is that no other text ever gets a wrong vector, in the cache or from it.
`ExcessIsBounded` rests on `SizeInv`, which says how much the thread that is storing can still add; an eviction takes
all excess away (`failures` is 0 again), and there is none without a failed call. The theorems hold for any texts,
threads, cache size, length of calls and answers, under one assumption, the service's contract: an answer of the
right length is in the order of the texts.

*VectorMigrationProofs.* `MigrationInvariant` proves `MigrationInv`. `PublishedIsWhole` is not inductive by itself: it
needs that a footer, where there is one, is that of the one completed export (`FooterIsOfExport`), and that what an
import has staged and batched is the prefix of the file it has read (`ImportsFollowFile`), so that an import past
its check of the footer has the whole export, whatever becomes of the file then. `PublishedIsSource` needs
`ExportFollowsSource`: while nothing changed, the rows written are a prefix of the old collection, and a change in one
direction shows in the length, which the end of the export compares. `OneImportSucceeds` proves `NoDebris` and that
two imports never both report success; `TargetStaysPublished` is a fact of each step. The assumption of
`VectorMigration` says, beside the types, that the values that stand for no directory, an empty one and the
application's store are not sets of rows, and that `None` is no footer.

Every safety property of a passing run is thus stated by a theorem. Only model-checked: liveness under fairness
(`EveryWaiterIsServed`, `EveryRequestEnds`, `AcceptedJobSettles`, `EveryThreadEnds`), which with whatever speaks of
ENABLED is out of the prover's reach; so is induction over data, and the models are written without need of it (a
loop over a sequence is one step per element, not a fold).

## 6 Where code and documents disagree

1. *`ServiceRestored`.* In the local demo an upload is admitted; its session is deleted; another request with
   the same session id makes the row again (`allow_local_create`); the upload's second ownership check
   (`main.py:343`) finds a row and stores the document after the deletion. The comment at `main.py:342` and
   `tests/test_document_deletion_race.py:17` say this does not happen. With API keys it does not
   (`StaleUploadsStayOut`).
2. *`ServiceLeftObject`.* A crash between `object_store.put` and the worker's `finally` leaves the staged upload;
   deleting the session does not remove it. `docs/THREAT_MODEL.md:30` says local document storage persists
   until session deletion.
3. *`TextSplitterStuck`.* `split_text` accepts every overlap below `chunk_size`; with 20 and 15 it can loop for
   ever on one chunk. The service only uses the defaults, which are safe.

Two more are in the model and not a run of their own. When the embedding service answers with too few or too many
vectors, `zip(strict=True)` (`rag_engine.py:70`) raises at the end of the shorter, after what it could pair is stored
and before the eviction. So the cache stays above its limit, by as much as such calls add, until a call that finds
something missing succeeds; `docs/THREAT_MODEL.md:30` calls the cache bounded and `README.md:152` has
`EMBEDDING_CACHE_SIZE` as its maximum. And if the vector left out was not the last, those after it are filed under
the keys of other texts: the call fails, but its entries stay, and later calls return them as hits until they are
evicted or stored again. `ExcessIsOfFailedCalls` and `CacheInv` say how far both go: no excess and no wrong vector
comes from anything else.

## 7 What is not modelled

Career generators, evaluation, tracing, logging, metrics, request models, health and static
routes and deployment files keep no state the other parts depend on; the generators use `_ask_structured` as the
chat does. The web client keeps one session id and runs one handler per form; what its requests do to the service
is in `CareerService`, and its own faults (`event.currentTarget` after an `await`, `app.js:32`) are the browser's.
In `VectorStore` there is one path and one configuration, as in the service; `count`, which the migration calls,
and a `close()` of the client that raises are left out. The relevance of a chunk and the text of an answer are
left out of `GroundedChat`. PDF parsing is a document that can be
read or not. The offline hash embedding is a pure function. Validation of the settings at start-up, `reset()` of
the limiter (only tests call it) and Qdrant's own persistence are left out. Several processes on one database
are not modelled: the manifest runs one replica and the documents call more a redesign.

## 8 Plan

Done, in this order: locks and their abstract mutex; metadata, points and the service with its proofs; limiter
and gate with their proofs; splitter with its proofs; embedding cache; vector migration; the registry and the
calls of the collection with their proofs; the grounded chat over it with its proofs; the abstract promise of a
session's content and the proof that the service keeps it; the proofs of the embedding cache and of the migration; that no
upload is forgotten.

Next:
1. The page's polling loop against the limiter, sixty polls a minute against sixty requests.

## 9 How to run

`tlc -config X.cfg M` for each run of `PROJECT.json` (module `M`, configuration `X.cfg`); `tlapm M.tla` for each module of
proofs.
