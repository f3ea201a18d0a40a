----------------------------- MODULE VectorStore -----------------------------
(***************************************************************************)
(* app/vector_store.py: the registry of open collections (get_collection,  *)
(* close_collections) and the operations of VectorCollection, each under   *)
(* the collection's lock, as worker threads call them while the service    *)
(* shuts down.  A thread runs one function of rag_engine.py: it asks for   *)
(* the collection once and makes one call of it after the other.           *)
(*                                                                         *)
(* There is one path, as in the service.  A client, and the collection     *)
(* made around it, is named by the thread that opens it.  Points are       *)
(* numbers, in the order in which they are scrolled.  The client itself is *)
(* outside this repository: a call of a closed client raises.              *)
(***************************************************************************)
EXTENDS Naturals, Sequences, FiniteSets

CONSTANTS
  Threads, Closer,    \* the workers, and the thread that shuts down
  Nobody,             \* no thread, no client
  Points, Sessions,
  SessionOf,          \* the session in a point's metadata
  PageSize,           \* the limit of one scroll
  TopK,               \* n_results
  Contents,           \* what may be stored when the process starts
  Workloads           \* which calls each thread makes, in order

Kinds == {"get", "query", "upsert", "delete"}

\* "delete" takes the ids found before, without those in "ids"; "upsert" adds "ids".
Ops == [kind : Kinds, session : Sessions, ids : SUBSET Points]

ASSUME VectorStoreAssumption ==
  /\ Closer \notin Threads
  /\ Nobody \notin Threads \cup {Closer}
  /\ Points \subseteq Nat /\ IsFiniteSet(Points)
  /\ SessionOf \in [Points -> Sessions]
  /\ PageSize \in Nat \ {0}
  /\ TopK \in Nat \ {0}
  /\ Contents \subseteq SUBSET Points
  /\ Workloads \subseteq [Threads -> Seq(Ops)]

VARIABLES
  plan,       \* the calls of each thread: the workload
  points,     \* what is stored
  guard,      \* who holds _collections_lock
  registry,   \* _collections: the collection of the path, or Nobody
  opened,     \* the open clients
  lock,       \* lock[c]: who holds the lock of collection c
  pc,         \* where each thread is
  col,        \* the collection it was given
  step,       \* how many calls it has finished
  found,      \* the result of its last read
  offset,     \* where its scroll goes on
  shutdown    \* close_collections: "no", "closing", "clearing", "done"

storeVars == <<plan, points, guard, registry, opened, lock, pc, col, step, found, offset,
               shutdown>>

Opening == {"open", "check"}
Running == {"run", "scroll"}
Labels  == Opening \cup Running \cup {"idle", "holding", "call", "ended", "failed"}

Owners == Threads \cup {Closer, Nobody}

StoreTypeOK ==
  /\ plan \in Workloads
  /\ points \subseteq Points
  /\ guard \in Owners
  /\ registry \in Threads \cup {Nobody}
  /\ opened \subseteq Threads
  /\ lock \in [Threads -> Threads \cup {Nobody}]
  /\ pc \in [Threads -> Labels]
  /\ col \in [Threads -> Threads \cup {Nobody}]
  /\ step \in [Threads -> Nat]
  /\ found \in [Threads -> SUBSET Points]
  /\ offset \in [Threads -> Nat]
  /\ shutdown \in {"no", "closing", "clearing", "done"}

StoreInit ==
  /\ plan \in Workloads
  /\ points \in Contents
  /\ guard = Nobody
  /\ registry = Nobody
  /\ opened = {}
  /\ lock = [c \in Threads |-> Nobody]
  /\ pc = [t \in Threads |-> "idle"]
  /\ col = [t \in Threads |-> Nobody]
  /\ step = [t \in Threads |-> 0]
  /\ found = [t \in Threads |-> {}]
  /\ offset = [t \in Threads |-> 0]
  /\ shutdown = "no"

Goto(t, from, to) ==
  /\ pc[t] = from
  /\ pc' = [pc EXCEPT ![t] = to]

Op(t) == plan[t][step[t] + 1]

Matching(s) == {p \in points : SessionOf[p] = s}
-----------------------------------------------------------------------------
(* get_collection                                                          *)

\* The collection is registered and returned, or the guard kept to open it.  A
\* thread without calls serves no request.
LookUp(t) ==
  /\ plan[t] # << >>
  /\ guard = Nobody
  /\ \/ /\ registry # Nobody
        /\ Goto(t, "idle", "holding")
        /\ col' = [col EXCEPT ![t] = registry]
        /\ UNCHANGED guard
     \/ /\ registry = Nobody
        /\ Goto(t, "idle", "open")
        /\ guard' = t
        /\ UNCHANGED col
  /\ UNCHANGED <<plan, points, registry, opened, lock, step, found, offset, shutdown>>

\* VectorCollection.__init__: QdrantClient(path), or a path it cannot have.
Open(t) ==
  /\ \/ /\ Goto(t, "open", "check")
        /\ opened' = opened \cup {t}
        /\ UNCHANGED guard
     \/ /\ Goto(t, "open", "failed")
        /\ guard' = Nobody
        /\ UNCHANGED opened
  /\ UNCHANGED <<plan, points, registry, lock, col, step, found, offset, shutdown>>

Registered(t) ==
  /\ Goto(t, "check", "holding")
  /\ registry' = t
  /\ col' = [col EXCEPT ![t] = t]
  /\ guard' = Nobody
  /\ UNCHANGED opened

\* A plausible slip: the client that does not fit is left open.
CheckLeaking(t) ==
  /\ \/ Registered(t)
     \/ /\ Goto(t, "check", "failed")
        /\ guard' = Nobody
        /\ UNCHANGED <<registry, opened, col>>
  /\ UNCHANGED <<plan, points, lock, step, found, offset, shutdown>>

\* A plausible slip: acquire and release, where an exception leaves the guard taken.
CheckKeepingGuard(t) ==
  /\ \/ Registered(t)
     \/ /\ Goto(t, "check", "failed")
        /\ opened' = opened \ {t}
        /\ UNCHANGED <<guard, registry, col>>
  /\ UNCHANGED <<plan, points, lock, step, found, offset, shutdown>>

\* The collection is there with these dimensions, or made, and registered; or
\* it has others, or the client raises: then the client is closed.
Check(t) ==
  /\ \/ Registered(t)
     \/ /\ Goto(t, "check", "failed")
        /\ opened' = opened \ {t}
        /\ guard' = Nobody
        /\ UNCHANGED <<registry, col>>
  /\ UNCHANGED <<plan, points, lock, step, found, offset, shutdown>>
-----------------------------------------------------------------------------
(* The calls of a collection                                               *)

\* The next call, or the embedding before it raises, or all are made.
Continue(t) ==
  /\ IF step[t] < Len(plan[t])
     THEN \/ Goto(t, "holding", "call")
          \/ Op(t).kind \in {"query", "upsert"} /\ Goto(t, "holding", "failed")
     ELSE Goto(t, "holding", "ended")
  /\ UNCHANGED <<plan, points, guard, registry, opened, lock, col, step, found, offset,
                 shutdown>>

\* with self._lock
Enter(t) ==
  /\ Goto(t, "call", "run")
  /\ lock[col[t]] = Nobody
  /\ lock' = [lock EXCEPT ![col[t]] = t]
  /\ UNCHANGED <<plan, points, guard, registry, opened, col, step, found, offset, shutdown>>

Leave(t, from) ==
  /\ Goto(t, from, "holding")
  /\ lock' = [lock EXCEPT ![col[t]] = Nobody]
  /\ step' = [step EXCEPT ![t] = @ + 1]

Alive(t) == pc[t] = "run" /\ col[t] \in opened

\* The client has been closed.
Raise(t) ==
  /\ col[t] \notin opened
  /\ Goto(t, "run", "failed")
  /\ lock' = [lock EXCEPT ![col[t]] = Nobody]
  /\ UNCHANGED <<plan, points, guard, registry, opened, col, step, found, offset, shutdown>>

Upsert(t) ==
  /\ Alive(t) /\ Op(t).kind = "upsert"
  /\ Leave(t, "run")
  /\ points' = points \cup Op(t).ids
  /\ UNCHANGED <<plan, guard, registry, opened, col, found, offset, shutdown>>

Delete(t) ==
  /\ Alive(t) /\ Op(t).kind = "delete"
  /\ Leave(t, "run")
  /\ points' = points \ (found[t] \ Op(t).ids)
  /\ UNCHANGED <<plan, guard, registry, opened, col, found, offset, shutdown>>

\* The nearest TopK points, or all there are; how near is left open.
Query(t) ==
  /\ Alive(t) /\ Op(t).kind = "query"
  /\ Leave(t, "run")
  /\ \E nearest \in SUBSET Matching(Op(t).session) :
       /\ \/ Cardinality(nearest) = TopK
          \/ Cardinality(nearest) < TopK /\ nearest = Matching(Op(t).session)
       /\ found' = [found EXCEPT ![t] = nearest]
  /\ UNCHANGED <<plan, points, guard, registry, opened, col, offset, shutdown>>

\* What a scroll has not read yet, the next page of it, and what is left then.
Unread(t)    == {p \in Matching(Op(t).session) : p >= offset[t]}
Page(t)      == {p \in Unread(t) : Cardinality({q \in Unread(t) : q <= p}) <= PageSize}
Remaining(t) == Unread(t) \ Page(t)

\* get: a first page with nothing read before it.
GetBegin(t) ==
  /\ Alive(t) /\ Op(t).kind = "get"
  /\ Goto(t, "run", "scroll")
  /\ found' = [found EXCEPT ![t] = {}]
  /\ offset' = [offset EXCEPT ![t] = 0]
  /\ UNCHANGED <<plan, points, guard, registry, opened, lock, col, step, shutdown>>

\* A plausible slip: the lock is given up after a page.
ScrollUnlocked(t) ==
  /\ pc[t] = "scroll"
  /\ found' = [found EXCEPT ![t] = @ \cup Page(t)]
  /\ \/ /\ Remaining(t) = {}
        /\ Leave(t, "scroll")
        /\ UNCHANGED offset
     \/ \E next \in Remaining(t) :
          /\ \A p \in Remaining(t) : next <= p
          /\ offset' = [offset EXCEPT ![t] = next]
          /\ lock' = [lock EXCEPT ![col[t]] = Nobody]
          /\ UNCHANGED <<pc, step>>
  /\ UNCHANGED <<plan, points, guard, registry, opened, col, shutdown>>

\* client.scroll: a page, and the id at which the next one begins.
Scroll(t) ==
  /\ pc[t] = "scroll"
  /\ found' = [found EXCEPT ![t] = @ \cup Page(t)]
  /\ \/ /\ Remaining(t) = {}
        /\ Leave(t, "scroll")
        /\ UNCHANGED offset
     \/ \E next \in Remaining(t) :
          /\ \A p \in Remaining(t) : next <= p
          /\ offset' = [offset EXCEPT ![t] = next]
          /\ UNCHANGED <<pc, lock, step>>
  /\ UNCHANGED <<plan, points, guard, registry, opened, col, shutdown>>
-----------------------------------------------------------------------------
(* close_collections                                                       *)

CloseBegin ==
  /\ shutdown = "no" /\ guard = Nobody
  /\ shutdown' = "closing"
  /\ guard' = Closer
  /\ UNCHANGED <<plan, points, registry, opened, lock, pc, col, step, found, offset>>

\* collection.close() waits for the operation under way.
CloseClient ==
  /\ shutdown = "closing"
  /\ registry # Nobody => lock[registry] = Nobody
  /\ opened' = opened \ {registry}
  /\ shutdown' = "clearing"
  /\ UNCHANGED <<plan, points, guard, registry, lock, pc, col, step, found, offset>>

\* _collections.clear()
Clear ==
  /\ shutdown = "clearing"
  /\ registry' = Nobody
  /\ guard' = Nobody
  /\ shutdown' = "done"
  /\ UNCHANGED <<plan, points, opened, lock, pc, col, step, found, offset>>

Close == CloseBegin \/ CloseClient \/ Clear

ThreadStep(t) ==
  \/ LookUp(t) \/ Open(t) \/ Check(t)
  \/ Continue(t) \/ Enter(t) \/ Raise(t)
  \/ Upsert(t) \/ Delete(t) \/ Query(t) \/ GetBegin(t) \/ Scroll(t)

StoreNext == (\E t \in Threads : ThreadStep(t)) \/ Close

StoreSpec == StoreInit /\ [][StoreNext]_storeVars

\* The threads of the workload keep running; nobody has to shut down.
StoreFairness ==
  /\ \A t \in Threads : WF_storeVars(ThreadStep(t))
  /\ WF_storeVars(shutdown # "no" /\ Close)
-----------------------------------------------------------------------------
(* Safety.                                                                 *)

\* The docstring of VectorCollection: "One client owns a path".  Whoever opens
\* finds the path free, and what is open is in the registry or being checked:
\* no failed opening and no shutdown leaves a client behind.
OneClientPerPath ==
  \A c \in opened :
    /\ \A t \in Threads : pc[t] # "open"
    /\ registry = c \/ (guard = c /\ pc[c] = "check")

\* A shutdown never closes the client under a call: a scroll ends on the client
\* it began on.  Before a shutdown nobody holds a closed one.
CallsAreNotCut ==
  \A t \in Threads :
    /\ pc[t] = "scroll" => col[t] \in opened
    /\ pc[t] \in {"holding", "call", "run"} /\ shutdown \in {"no", "closing"} =>
         col[t] \in opened

\* A get reads page by page, and returns what was stored at one instant.
ReadIsSnapshot ==
  [][\A t \in Threads :
       pc[t] = "scroll" /\ pc'[t] = "holding" => found'[t] = Matching(Op(t).session)]_storeVars

(* The inductive invariant behind them.                                    *)

\* The guard is held by who opens, and by a shutdown until it is done.
GuardHeld ==
  /\ \A t \in Threads : guard = t <=> pc[t] \in Opening
  /\ guard = Closer <=> shutdown \in {"closing", "clearing"}

\* A collection's lock is held by the thread inside one of its calls.
LockHeld ==
  \A c, t \in Threads : lock[c] = t <=> pc[t] \in Running /\ col[t] = c

\* Who has a collection has the registered one, or one that was closed.
HoldsKnownClient ==
  \A t \in Threads :
    pc[t] \in {"holding", "call"} \cup Running =>
      /\ col[t] \in Threads
      /\ pc[col[t]] \notin {"idle"} \cup Opening
      /\ col[t] = registry \/ shutdown = "done"
      /\ pc[t] # "holding" => step[t] < Len(plan[t])

\* What is registered, or checked, is open, until a shutdown closes it; while
\* one thread opens a client, nothing is registered.
RegisteredIsOpen ==
  /\ registry # Nobody =>
       /\ pc[registry] \notin {"idle"} \cup Opening
       /\ registry \in opened <=> shutdown # "clearing"
  /\ \A t \in Threads :
       /\ pc[t] \in Opening => registry = Nobody
       /\ pc[t] = "check" => t \in opened

\* What a scroll has found is what is stored below its offset.
ScrolledUpTo ==
  \A t \in Threads :
    pc[t] = "scroll" =>
      /\ col[t] \in opened
      /\ found[t] = {p \in Matching(Op(t).session) : p < offset[t]}

\* Guard, locks, registry and clients agree.
StoreInv ==
  /\ StoreTypeOK
  /\ GuardHeld
  /\ LockHeld
  /\ HoldsKnownClient
  /\ RegisteredIsOpen
  /\ OneClientPerPath
  /\ CallsAreNotCut
  /\ ScrolledUpTo

(* Liveness.                                                               *)

\* Guard and lock are taken in one order and given back whatever is raised: no
\* thread waits for either for ever, nor is a shutdown left half done.
EveryThreadEnds ==
  <>[](/\ \A t \in Threads : pc[t] \in {"ended", "failed"} \/ plan[t] = << >>
       /\ shutdown \in {"no", "done"})
=============================================================================
