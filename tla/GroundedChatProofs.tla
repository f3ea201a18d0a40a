-------------------------- MODULE GroundedChatProofs --------------------------
(***************************************************************************)
(* Proofs about GroundedChat: the collection keeps its invariant under     *)
(* chats too, reads are snapshots, and an answer cites exactly what was    *)
(* retrieved among what the reply cites, for any reply, any number of      *)
(* threads, and whatever they do to the collection meanwhile.              *)
(***************************************************************************)
EXTENDS GroundedChat, FiniteSetTheorems, TLAPS

(* The vector store, for any number of threads and any workload: StoreInv  *)
(* is inductive, and a read is a snapshot.                                 *)

LEMMA StoreInitially == StoreInit => StoreInv
  BY VectorStoreAssumption
  DEF StoreInit, StoreInv, StoreTypeOK, GuardHeld, LockHeld, HoldsKnownClient,
      RegisteredIsOpen, OneClientPerPath, CallsAreNotCut, ScrolledUpTo, Owners,
      Labels, Opening, Running

\* Two threads inside calls of open clients are one: there is one client, and
\* its lock has one holder.
LEMMA OneCallAtATime ==
  ASSUME StoreInv, NEW t \in Threads, NEW u \in Threads,
         pc[t] \in Running, pc[u] \in Running,
         col[t] \in opened, col[u] \in opened
  PROVE  t = u
  <1>1. col[t] = registry /\ col[u] = registry
    BY DEF StoreInv, StoreTypeOK, OneClientPerPath, HoldsKnownClient, Opening, Running
  <1>2. lock[registry] = t /\ lock[registry] = u
    BY <1>1 DEF StoreInv, StoreTypeOK, LockHeld, HoldsKnownClient, Running
  <1> QED BY <1>2

\* A page is what an unread point and all before it fit in.
LEMMA PageIsPrefix ==
  ASSUME StoreInv, NEW t \in Threads, NEW p \in Page(t), NEW q \in Unread(t), q <= p
  PROVE  q \in Page(t)
  <1> DEFINE Upto(x) == {y \in Unread(t) : y <= x}
  <1>1. Unread(t) \subseteq Nat /\ p \in Unread(t)
    BY VectorStoreAssumption DEF Unread, Page, Matching, StoreInv, StoreTypeOK
  <1>2. Upto(p) \subseteq 0..p
    BY <1>1
  <1>3. IsFiniteSet(Upto(p))
    <2>1. IsFiniteSet(0..p)  BY <1>1, FS_Interval
    <2> QED BY <2>1, <1>2, FS_Subset
  <1>4. Upto(q) \subseteq Upto(p)
    BY <1>1
  <1>5. /\ IsFiniteSet(Upto(q))
        /\ Cardinality(Upto(q)) <= Cardinality(Upto(p))
    BY <1>3, <1>4, FS_Subset
  <1>6. Cardinality(Upto(q)) \in Nat /\ Cardinality(Upto(p)) \in Nat
    BY <1>3, <1>5, FS_CardinalityType
  <1>7. Cardinality(Upto(p)) <= PageSize
    BY DEF Page
  <1>8. Cardinality(Upto(q)) <= PageSize
    BY <1>5, <1>6, <1>7, VectorStoreAssumption
  <1> QED BY <1>8 DEF Page

-----------------------------------------------------------------------------
\* What the steps below need of the types.
Types ==
  /\ guard \in Threads \cup {Closer, Nobody}
  /\ registry \in Threads \cup {Nobody}
  /\ opened \subseteq Threads
  /\ lock \in [Threads -> Threads \cup {Nobody}]
  /\ pc \in [Threads -> Labels]
  /\ col \in [Threads -> Threads \cup {Nobody}]

LEMMA TypesHold == StoreTypeOK => Types
  BY DEF StoreTypeOK, Types, Owners

Names == Closer \notin Threads /\ Nobody \notin Threads /\ Closer # Nobody

LEMMA NamesDiffer == Names
  BY VectorStoreAssumption DEF Names

\* The conjuncts of StoreInv, and the types they imply.
LEMMA Parts ==
  StoreInv => /\ StoreTypeOK /\ Types /\ GuardHeld /\ LockHeld /\ HoldsKnownClient
              /\ RegisteredIsOpen /\ OneClientPerPath /\ CallsAreNotCut /\ ScrolledUpTo
  BY TypesHold DEF StoreInv

LEMMA OpsTyped ==
  ASSUME StoreTypeOK, NEW t \in Threads, step[t] < Len(plan[t])
  PROVE  Op(t).ids \subseteq Points
  <1>1. plan[t] \in Seq(Ops) /\ step[t] \in Nat
    BY VectorStoreAssumption DEF StoreTypeOK
  <1>2. plan[t][step[t] + 1] \in Ops
    BY <1>1
  <1> QED BY <1>2 DEF Ops, Op

\* One page on, a scroll has found what is stored below its new offset.
LEMMA PageUpToNext ==
  ASSUME StoreInv, NEW t \in Threads, pc[t] = "scroll",
         NEW next \in Remaining(t), \A p \in Remaining(t) : next <= p
  PROVE  found[t] \cup Page(t) = {p \in Matching(Op(t).session) : p < next}
  <1>1. found[t] = {p \in Matching(Op(t).session) : p < offset[t]}
    BY Parts DEF ScrolledUpTo
  <1>2. /\ Matching(Op(t).session) \subseteq Nat
        /\ offset[t] \in Nat
    BY Parts, VectorStoreAssumption DEF StoreTypeOK, Matching
  <1>3. /\ Page(t) \subseteq Unread(t)
        /\ next \in Unread(t) /\ next \notin Page(t)
        /\ next \in Matching(Op(t).session) /\ offset[t] <= next
    BY DEF Remaining, Page, Unread
  <1>4. \A p \in Page(t) : p < next
    BY <1>2, <1>3, PageIsPrefix DEF Unread
  <1>5. \A p \in Unread(t) : p < next => p \in Page(t)
    BY <1>2, <1>3 DEF Remaining, Unread
  <1> QED BY <1>1, <1>2, <1>3, <1>4, <1>5 DEF Unread

LEMMA LookUpKeeps ==
  ASSUME StoreInv, NEW t \in Threads, LookUp(t) PROVE StoreInv'
  <1> USE NamesDiffer DEF Names, Opening, Running, Goto
  <1>1. CASE registry # Nobody
    <2>1. /\ pc[t] = "idle" /\ pc' = [pc EXCEPT ![t] = "holding"]
          /\ col' = [col EXCEPT ![t] = registry]
          /\ registry # Nobody /\ guard = Nobody
          /\ UNCHANGED <<plan, points, guard, registry, opened, lock, step, found,
                          offset, shutdown>>
      BY <1>1 DEF LookUp
    <2>2. registry \in Threads /\ pc[registry] \notin {"idle", "open", "check"}
      BY Parts, <2>1 DEF Types, RegisteredIsOpen
    <2>3. StoreTypeOK'
      BY Parts, <2>1, <2>2 DEF StoreTypeOK, Labels, Owners
    <2>4. GuardHeld'
      BY Parts, <2>1, <2>2 DEF GuardHeld, Types
    <2>5. LockHeld'
      BY Parts, <2>1, <2>2 DEF LockHeld, Types
    <2>6. HoldsKnownClient'
      BY Parts, <2>1, <2>2 DEF HoldsKnownClient, Types
    <2>7. RegisteredIsOpen'
      BY Parts, <2>1, <2>2 DEF RegisteredIsOpen, Types
    <2>8. OneClientPerPath'
      BY Parts, <2>1, <2>2 DEF OneClientPerPath, Types
    <2>9. CallsAreNotCut'
      BY Parts, <2>1, <2>2 DEF CallsAreNotCut, Types, RegisteredIsOpen
    <2>10. ScrolledUpTo'
      BY Parts, <2>1, <2>2 DEF ScrolledUpTo, Types, Matching, Op
    <2> QED BY <2>3, <2>4, <2>5, <2>6, <2>7, <2>8, <2>9, <2>10 DEF StoreInv
  <1>2. CASE registry = Nobody
    <2>1. /\ pc[t] = "idle" /\ pc' = [pc EXCEPT ![t] = "open"]
          /\ registry = Nobody /\ guard = Nobody /\ guard' = t
          /\ UNCHANGED <<plan, points, registry, opened, lock, col, step, found, offset,
                          shutdown>>
      BY <1>2 DEF LookUp
    <2>2. StoreTypeOK'
      BY Parts, <2>1 DEF StoreTypeOK, Labels, Owners
    <2>3. GuardHeld'
      BY Parts, <2>1 DEF GuardHeld, Types
    <2>4. LockHeld'
      BY Parts, <2>1 DEF LockHeld, Types
    <2>5. HoldsKnownClient'
      BY Parts, <2>1 DEF HoldsKnownClient, Types
    <2>6. RegisteredIsOpen'
      BY Parts, <2>1 DEF RegisteredIsOpen, Types
    <2>7. OneClientPerPath'
      BY Parts, <2>1 DEF OneClientPerPath, Types
    <2>8. CallsAreNotCut'
      BY Parts, <2>1 DEF CallsAreNotCut, Types
    <2>9. ScrolledUpTo'
      BY Parts, <2>1 DEF ScrolledUpTo, Types, Matching, Op
    <2> QED BY <2>2, <2>3, <2>4, <2>5, <2>6, <2>7, <2>8, <2>9 DEF StoreInv
  <1> QED BY <1>1, <1>2 DEF LookUp

LEMMA OpenKeeps ==
  ASSUME StoreInv, NEW t \in Threads, Open(t) PROVE StoreInv'
  <1> USE NamesDiffer DEF Names, Opening, Running, Goto
  <1>1. CASE pc' = [pc EXCEPT ![t] = "check"]
    <2>1. /\ pc[t] = "open" /\ pc' = [pc EXCEPT ![t] = "check"]
          /\ opened' = opened \cup {t}
          /\ UNCHANGED <<plan, points, guard, registry, lock, col, step, found, offset,
                          shutdown>>
      BY Parts, <1>1 DEF Open, Types
    <2>2. guard = t /\ registry = Nobody
      BY Parts, <2>1 DEF Types, GuardHeld, RegisteredIsOpen
    <2>3. \A u \in Threads : u # t => pc[u] \notin Opening
      BY Parts, <2>1, <2>2 DEF GuardHeld
    <2>4. \A u \in Threads : pc[u] \in {"holding", "call", "run", "scroll"} => col[u] # t
      BY Parts, <2>1 DEF HoldsKnownClient
    <2>5. StoreTypeOK'
      BY Parts, <2>1, <2>2, <2>3, <2>4 DEF StoreTypeOK, Labels, Owners
    <2>6. GuardHeld'
      BY Parts, <2>1, <2>2, <2>3, <2>4 DEF GuardHeld, Types
    <2>7. LockHeld'
      BY Parts, <2>1, <2>2, <2>3, <2>4 DEF LockHeld, Types
    <2>8. HoldsKnownClient'
      BY Parts, <2>1, <2>2, <2>3, <2>4 DEF HoldsKnownClient, Types
    <2>9. RegisteredIsOpen'
      BY Parts, <2>1, <2>2, <2>3, <2>4 DEF RegisteredIsOpen, Types
    <2>10. OneClientPerPath'
      BY Parts, <2>1, <2>2, <2>3, <2>4 DEF OneClientPerPath, Types
    <2>11. CallsAreNotCut'
      BY Parts, <2>1, <2>2, <2>3, <2>4 DEF CallsAreNotCut, Types
    <2>12. ScrolledUpTo'
      BY Parts, <2>1, <2>2, <2>3, <2>4 DEF ScrolledUpTo, Types, Matching, Op
    <2> QED BY <2>5, <2>6, <2>7, <2>8, <2>9, <2>10, <2>11, <2>12 DEF StoreInv
  <1>2. CASE pc' = [pc EXCEPT ![t] = "failed"]
    <2>1. /\ pc[t] = "open" /\ pc' = [pc EXCEPT ![t] = "failed"]
          /\ guard' = Nobody
          /\ UNCHANGED <<plan, points, registry, opened, lock, col, step, found, offset,
                          shutdown>>
      BY Parts, <1>2 DEF Open, Types
    <2>2. guard = t /\ registry = Nobody
      BY Parts, <2>1 DEF Types, GuardHeld, RegisteredIsOpen
    <2>3. \A u \in Threads : u # t => pc[u] \notin Opening
      BY Parts, <2>1, <2>2 DEF GuardHeld
    <2>4. \A u \in Threads : pc[u] \in {"holding", "call", "run", "scroll"} => col[u] # t
      BY Parts, <2>1 DEF HoldsKnownClient
    <2>5. StoreTypeOK'
      BY Parts, <2>1, <2>2, <2>3, <2>4 DEF StoreTypeOK, Labels, Owners
    <2>6. GuardHeld'
      BY Parts, <2>1, <2>2, <2>3, <2>4 DEF GuardHeld, Types
    <2>7. LockHeld'
      BY Parts, <2>1, <2>2, <2>3, <2>4 DEF LockHeld, Types
    <2>8. HoldsKnownClient'
      BY Parts, <2>1, <2>2, <2>3, <2>4 DEF HoldsKnownClient, Types
    <2>9. RegisteredIsOpen'
      BY Parts, <2>1, <2>2, <2>3, <2>4 DEF RegisteredIsOpen, Types
    <2>10. OneClientPerPath'
      BY Parts, <2>1, <2>2, <2>3, <2>4 DEF OneClientPerPath, Types
    <2>11. CallsAreNotCut'
      BY Parts, <2>1, <2>2, <2>3, <2>4 DEF CallsAreNotCut, Types
    <2>12. ScrolledUpTo'
      BY Parts, <2>1, <2>2, <2>3, <2>4 DEF ScrolledUpTo, Types, Matching, Op
    <2> QED BY <2>5, <2>6, <2>7, <2>8, <2>9, <2>10, <2>11, <2>12 DEF StoreInv
  <1> QED BY <1>1, <1>2 DEF Open

LEMMA CheckKeeps ==
  ASSUME StoreInv, NEW t \in Threads, Check(t) PROVE StoreInv'
  <1> USE NamesDiffer DEF Names, Opening, Running, Goto
  <1>1. CASE Registered(t)
    <2>1. /\ pc[t] = "check" /\ pc' = [pc EXCEPT ![t] = "holding"]
          /\ registry' = t
          /\ col' = [col EXCEPT ![t] = t]
          /\ guard' = Nobody
          /\ UNCHANGED <<plan, points, opened, lock, step, found, offset, shutdown>>
      BY <1>1 DEF Check, Registered
    <2>2. guard = t /\ registry = Nobody
      BY Parts, <2>1 DEF Types, GuardHeld, RegisteredIsOpen
    <2>3. \A u \in Threads : u # t => pc[u] \notin Opening
      BY Parts, <2>1, <2>2 DEF GuardHeld
    <2>4. \A u \in Threads : pc[u] \in {"holding", "call", "run", "scroll"} => col[u] # t
      BY Parts, <2>1 DEF HoldsKnownClient
    <2>5. opened \subseteq {t}
      BY Parts, <2>1, <2>2 DEF Types, OneClientPerPath
    <2>6. shutdown \in {"no", "done"}
      BY Parts, <2>1, <2>2 DEF GuardHeld, StoreTypeOK
    <2>7. t \in opened
      BY Parts, <2>1 DEF RegisteredIsOpen
    <2>8. StoreTypeOK'
      BY Parts, <2>1, <2>2, <2>3, <2>4, <2>5, <2>6, <2>7 DEF StoreTypeOK, Labels, Owners
    <2>9. GuardHeld'
      BY Parts, <2>1, <2>2, <2>3, <2>4, <2>5, <2>6, <2>7 DEF GuardHeld, Types
    <2>10. LockHeld'
      BY Parts, <2>1, <2>2, <2>3, <2>4, <2>5, <2>6, <2>7 DEF LockHeld, Types
    <2>11. HoldsKnownClient'
      BY Parts, <2>1, <2>2, <2>3, <2>4, <2>5, <2>6, <2>7 DEF HoldsKnownClient, Types
    <2>12. RegisteredIsOpen'
      BY Parts, <2>1, <2>2, <2>3, <2>4, <2>5, <2>6, <2>7 DEF RegisteredIsOpen, Types
    <2>13. OneClientPerPath'
      BY Parts, <2>1, <2>2, <2>3, <2>4, <2>5, <2>6, <2>7 DEF OneClientPerPath, Types
    <2>14. CallsAreNotCut'
      BY Parts, <2>1, <2>2, <2>3, <2>4, <2>5, <2>6, <2>7 DEF CallsAreNotCut, Types
    <2>15. ScrolledUpTo'
      BY Parts, <2>1, <2>2, <2>3, <2>4, <2>5, <2>6, <2>7 DEF ScrolledUpTo, Types, Matching, Op
    <2> QED BY <2>8, <2>9, <2>10, <2>11, <2>12, <2>13, <2>14, <2>15 DEF StoreInv
  <1>2. CASE ~Registered(t)
    <2>1. /\ pc[t] = "check" /\ pc' = [pc EXCEPT ![t] = "failed"]
          /\ opened' = opened \ {t}
          /\ guard' = Nobody
          /\ UNCHANGED <<plan, points, registry, lock, col, step, found, offset, shutdown>>
      BY <1>2 DEF Check, Registered
    <2>2. guard = t /\ registry = Nobody
      BY Parts, <2>1 DEF Types, GuardHeld, RegisteredIsOpen
    <2>3. \A u \in Threads : u # t => pc[u] \notin Opening
      BY Parts, <2>1, <2>2 DEF GuardHeld
    <2>4. \A u \in Threads : pc[u] \in {"holding", "call", "run", "scroll"} => col[u] # t
      BY Parts, <2>1 DEF HoldsKnownClient
    <2>5. opened \subseteq {t}
      BY Parts, <2>1, <2>2 DEF Types, OneClientPerPath
    <2>6. StoreTypeOK'
      BY Parts, <2>1, <2>2, <2>3, <2>4, <2>5 DEF StoreTypeOK, Labels, Owners
    <2>7. GuardHeld'
      BY Parts, <2>1, <2>2, <2>3, <2>4, <2>5 DEF GuardHeld, Types
    <2>8. LockHeld'
      BY Parts, <2>1, <2>2, <2>3, <2>4, <2>5 DEF LockHeld, Types
    <2>9. HoldsKnownClient'
      BY Parts, <2>1, <2>2, <2>3, <2>4, <2>5 DEF HoldsKnownClient, Types
    <2>10. RegisteredIsOpen'
      BY Parts, <2>1, <2>2, <2>3, <2>4, <2>5 DEF RegisteredIsOpen, Types
    <2>11. OneClientPerPath'
      BY Parts, <2>1, <2>2, <2>3, <2>4, <2>5 DEF OneClientPerPath, Types
    <2>12. CallsAreNotCut'
      BY Parts, <2>1, <2>2, <2>3, <2>4, <2>5 DEF CallsAreNotCut, Types
    <2>13. ScrolledUpTo'
      BY Parts, <2>1, <2>2, <2>3, <2>4, <2>5 DEF ScrolledUpTo, Types, Matching, Op
    <2> QED BY <2>6, <2>7, <2>8, <2>9, <2>10, <2>11, <2>12, <2>13 DEF StoreInv
  <1> QED BY <1>1, <1>2 DEF Check, Registered

LEMMA ContinueKeeps ==
  ASSUME StoreInv, NEW t \in Threads, Continue(t) PROVE StoreInv'
  <1> USE NamesDiffer DEF Names, Opening, Running, Goto
  <1>1. /\ pc[t] = "holding"
        /\ \E next \in {"call", "failed", "ended"} :
          /\ pc' = [pc EXCEPT ![t] = next]
          /\ next = "call" => step[t] < Len(plan[t])
        /\ UNCHANGED <<plan, points, guard, registry, opened, lock, col, step, found,
                        offset, shutdown>>
    BY DEF Continue
  <1>2. StoreTypeOK'
    BY Parts, <1>1 DEF StoreTypeOK, Labels, Owners
  <1>3. GuardHeld'
    BY Parts, <1>1 DEF GuardHeld, Types
  <1>4. LockHeld'
    BY Parts, <1>1 DEF LockHeld, Types
  <1>5. HoldsKnownClient'
    BY Parts, <1>1 DEF HoldsKnownClient, Types
  <1>6. RegisteredIsOpen'
    BY Parts, <1>1 DEF RegisteredIsOpen, Types
  <1>7. OneClientPerPath'
    BY Parts, <1>1 DEF OneClientPerPath, Types
  <1>8. CallsAreNotCut'
    BY Parts, <1>1 DEF CallsAreNotCut, Types
  <1>9. ScrolledUpTo'
    BY Parts, <1>1 DEF ScrolledUpTo, Types, Matching, Op
  <1> QED BY <1>2, <1>3, <1>4, <1>5, <1>6, <1>7, <1>8, <1>9 DEF StoreInv

LEMMA EnterKeeps ==
  ASSUME StoreInv, NEW t \in Threads, Enter(t) PROVE StoreInv'
  <1> USE NamesDiffer DEF Names, Opening, Running, Goto
  <1>1. /\ pc[t] = "call" /\ pc' = [pc EXCEPT ![t] = "run"]
        /\ lock[col[t]] = Nobody
        /\ lock' = [lock EXCEPT ![col[t]] = t]
        /\ UNCHANGED <<plan, points, guard, registry, opened, col, step, found, offset,
                        shutdown>>
    BY DEF Enter
  <1>2. col[t] \in Threads
    BY Parts, <1>1 DEF HoldsKnownClient
  <1>3. StoreTypeOK'
    BY Parts, <1>1, <1>2 DEF StoreTypeOK, Labels, Owners
  <1>4. GuardHeld'
    BY Parts, <1>1, <1>2 DEF GuardHeld, Types
  <1>5. LockHeld'
    BY Parts, <1>1, <1>2 DEF LockHeld, Types
  <1>6. HoldsKnownClient'
    BY Parts, <1>1, <1>2 DEF HoldsKnownClient, Types
  <1>7. RegisteredIsOpen'
    BY Parts, <1>1, <1>2 DEF RegisteredIsOpen, Types
  <1>8. OneClientPerPath'
    BY Parts, <1>1, <1>2 DEF OneClientPerPath, Types
  <1>9. CallsAreNotCut'
    BY Parts, <1>1, <1>2 DEF CallsAreNotCut, Types
  <1>10. ScrolledUpTo'
    BY Parts, <1>1, <1>2 DEF ScrolledUpTo, Types, Matching, Op
  <1> QED BY <1>3, <1>4, <1>5, <1>6, <1>7, <1>8, <1>9, <1>10 DEF StoreInv

LEMMA RaiseKeeps ==
  ASSUME StoreInv, NEW t \in Threads, Raise(t) PROVE StoreInv'
  <1> USE NamesDiffer DEF Names, Opening, Running, Goto
  <1>1. /\ pc[t] = "run" /\ pc' = [pc EXCEPT ![t] = "failed"]
        /\ lock' = [lock EXCEPT ![col[t]] = Nobody]
        /\ UNCHANGED <<plan, points, guard, registry, opened, col, step, found, offset,
                        shutdown>>
    BY DEF Raise
  <1>2. col[t] \in Threads
    BY Parts, <1>1 DEF HoldsKnownClient
  <1>3. lock[col[t]] = t
    BY Parts, <1>1, <1>2 DEF LockHeld
  <1>4. StoreTypeOK'
    BY Parts, <1>1, <1>2, <1>3 DEF StoreTypeOK, Labels, Owners
  <1>5. GuardHeld'
    BY Parts, <1>1, <1>2, <1>3 DEF GuardHeld, Types
  <1>6. LockHeld'
    BY Parts, <1>1, <1>2, <1>3 DEF LockHeld, Types
  <1>7. HoldsKnownClient'
    BY Parts, <1>1, <1>2, <1>3 DEF HoldsKnownClient, Types
  <1>8. RegisteredIsOpen'
    BY Parts, <1>1, <1>2, <1>3 DEF RegisteredIsOpen, Types
  <1>9. OneClientPerPath'
    BY Parts, <1>1, <1>2, <1>3 DEF OneClientPerPath, Types
  <1>10. CallsAreNotCut'
    BY Parts, <1>1, <1>2, <1>3 DEF CallsAreNotCut, Types
  <1>11. ScrolledUpTo'
    BY Parts, <1>1, <1>2, <1>3 DEF ScrolledUpTo, Types, Matching, Op
  <1> QED BY <1>4, <1>5, <1>6, <1>7, <1>8, <1>9, <1>10, <1>11 DEF StoreInv

LEMMA UpsertKeeps ==
  ASSUME StoreInv, NEW t \in Threads, Upsert(t) PROVE StoreInv'
  <1> USE NamesDiffer DEF Names, Opening, Running, Goto
  <1>1. /\ pc[t] = "run" /\ pc' = [pc EXCEPT ![t] = "holding"]
        /\ col[t] \in opened
        /\ lock' = [lock EXCEPT ![col[t]] = Nobody]
        /\ step' = [step EXCEPT ![t] = @ + 1]
        /\ points' = points \cup Op(t).ids
        /\ UNCHANGED <<plan, guard, registry, opened, col, found, offset, shutdown>>
    BY DEF Upsert, Alive, Leave
  <1>2. col[t] \in Threads
    BY Parts, <1>1 DEF HoldsKnownClient
  <1>3. lock[col[t]] = t
    BY Parts, <1>1, <1>2 DEF LockHeld
  <1>4. \A u \in Threads : pc[u] # "scroll"
    BY OneCallAtATime, Parts, <1>1 DEF ScrolledUpTo
  <1>5. Op(t).ids \subseteq Points
    BY Parts, <1>1, OpsTyped DEF HoldsKnownClient
  <1>6. StoreTypeOK'
    BY Parts, <1>1, <1>2, <1>3, <1>4, <1>5 DEF StoreTypeOK, Labels, Owners
  <1>7. GuardHeld'
    BY Parts, <1>1, <1>2, <1>3, <1>4, <1>5 DEF GuardHeld, Types
  <1>8. LockHeld'
    BY Parts, <1>1, <1>2, <1>3, <1>4, <1>5 DEF LockHeld, Types
  <1>9. HoldsKnownClient'
    BY Parts, <1>1, <1>2, <1>3, <1>4, <1>5 DEF HoldsKnownClient, Types
  <1>10. RegisteredIsOpen'
    BY Parts, <1>1, <1>2, <1>3, <1>4, <1>5 DEF RegisteredIsOpen, Types
  <1>11. OneClientPerPath'
    BY Parts, <1>1, <1>2, <1>3, <1>4, <1>5 DEF OneClientPerPath, Types
  <1>12. CallsAreNotCut'
    BY Parts, <1>1, <1>2, <1>3, <1>4, <1>5 DEF CallsAreNotCut, Types
  <1>13. ScrolledUpTo'
    BY Parts, <1>1, <1>2, <1>3, <1>4, <1>5 DEF ScrolledUpTo, Types, Matching, Op
  <1> QED BY <1>6, <1>7, <1>8, <1>9, <1>10, <1>11, <1>12, <1>13 DEF StoreInv

LEMMA DeleteKeeps ==
  ASSUME StoreInv, NEW t \in Threads, Delete(t) PROVE StoreInv'
  <1> USE NamesDiffer DEF Names, Opening, Running, Goto
  <1>1. /\ pc[t] = "run" /\ pc' = [pc EXCEPT ![t] = "holding"]
        /\ col[t] \in opened
        /\ lock' = [lock EXCEPT ![col[t]] = Nobody]
        /\ step' = [step EXCEPT ![t] = @ + 1]
        /\ points' = points \ (found[t] \ Op(t).ids)
        /\ UNCHANGED <<plan, guard, registry, opened, col, found, offset, shutdown>>
    BY DEF Delete, Alive, Leave
  <1>2. col[t] \in Threads
    BY Parts, <1>1 DEF HoldsKnownClient
  <1>3. lock[col[t]] = t
    BY Parts, <1>1, <1>2 DEF LockHeld
  <1>4. \A u \in Threads : pc[u] # "scroll"
    BY OneCallAtATime, Parts, <1>1 DEF ScrolledUpTo
  <1>5. StoreTypeOK'
    BY Parts, <1>1, <1>2, <1>3, <1>4 DEF StoreTypeOK, Labels, Owners
  <1>6. GuardHeld'
    BY Parts, <1>1, <1>2, <1>3, <1>4 DEF GuardHeld, Types
  <1>7. LockHeld'
    BY Parts, <1>1, <1>2, <1>3, <1>4 DEF LockHeld, Types
  <1>8. HoldsKnownClient'
    BY Parts, <1>1, <1>2, <1>3, <1>4 DEF HoldsKnownClient, Types
  <1>9. RegisteredIsOpen'
    BY Parts, <1>1, <1>2, <1>3, <1>4 DEF RegisteredIsOpen, Types
  <1>10. OneClientPerPath'
    BY Parts, <1>1, <1>2, <1>3, <1>4 DEF OneClientPerPath, Types
  <1>11. CallsAreNotCut'
    BY Parts, <1>1, <1>2, <1>3, <1>4 DEF CallsAreNotCut, Types
  <1>12. ScrolledUpTo'
    BY Parts, <1>1, <1>2, <1>3, <1>4 DEF ScrolledUpTo, Types, Matching, Op
  <1> QED BY <1>5, <1>6, <1>7, <1>8, <1>9, <1>10, <1>11, <1>12 DEF StoreInv

LEMMA QueryKeeps ==
  ASSUME StoreInv, NEW t \in Threads, Query(t) PROVE StoreInv'
  <1> USE NamesDiffer DEF Names, Opening, Running, Goto
  <1>1. /\ pc[t] = "run" /\ pc' = [pc EXCEPT ![t] = "holding"]
        /\ col[t] \in opened
        /\ lock' = [lock EXCEPT ![col[t]] = Nobody]
        /\ step' = [step EXCEPT ![t] = @ + 1]
        /\ \E nearest \in SUBSET points : found' = [found EXCEPT ![t] = nearest]
        /\ UNCHANGED <<plan, points, guard, registry, opened, col, offset, shutdown>>
    BY DEF Query, Alive, Leave, Matching, Parts, StoreTypeOK
  <1>2. col[t] \in Threads
    BY Parts, <1>1 DEF HoldsKnownClient
  <1>3. lock[col[t]] = t
    BY Parts, <1>1, <1>2 DEF LockHeld
  <1>4. StoreTypeOK'
    BY Parts, <1>1, <1>2, <1>3 DEF StoreTypeOK, Labels, Owners
  <1>5. GuardHeld'
    BY Parts, <1>1, <1>2, <1>3 DEF GuardHeld, Types
  <1>6. LockHeld'
    BY Parts, <1>1, <1>2, <1>3 DEF LockHeld, Types
  <1>7. HoldsKnownClient'
    BY Parts, <1>1, <1>2, <1>3 DEF HoldsKnownClient, Types
  <1>8. RegisteredIsOpen'
    BY Parts, <1>1, <1>2, <1>3 DEF RegisteredIsOpen, Types
  <1>9. OneClientPerPath'
    BY Parts, <1>1, <1>2, <1>3 DEF OneClientPerPath, Types
  <1>10. CallsAreNotCut'
    BY Parts, <1>1, <1>2, <1>3 DEF CallsAreNotCut, Types
  <1>11. ScrolledUpTo'
    BY Parts, <1>1, <1>2, <1>3 DEF ScrolledUpTo, Types, Matching, Op
  <1> QED BY <1>4, <1>5, <1>6, <1>7, <1>8, <1>9, <1>10, <1>11 DEF StoreInv

LEMMA GetBeginKeeps ==
  ASSUME StoreInv, NEW t \in Threads, GetBegin(t) PROVE StoreInv'
  <1> USE NamesDiffer DEF Names, Opening, Running, Goto
  <1>1. /\ pc[t] = "run" /\ pc' = [pc EXCEPT ![t] = "scroll"]
        /\ col[t] \in opened
        /\ found' = [found EXCEPT ![t] = {}]
        /\ offset' = [offset EXCEPT ![t] = 0]
        /\ UNCHANGED <<plan, points, guard, registry, opened, lock, col, step, shutdown>>
    BY DEF GetBegin, Alive
  <1>2. col[t] \in Threads
    BY Parts, <1>1 DEF HoldsKnownClient
  <1>3. \A p \in points : p \in Nat
    BY Parts, VectorStoreAssumption DEF StoreTypeOK
  <1>4. StoreTypeOK'
    BY Parts, <1>1, <1>2, <1>3 DEF StoreTypeOK, Labels, Owners
  <1>5. GuardHeld'
    BY Parts, <1>1, <1>2, <1>3 DEF GuardHeld, Types
  <1>6. LockHeld'
    BY Parts, <1>1, <1>2, <1>3 DEF LockHeld, Types
  <1>7. HoldsKnownClient'
    BY Parts, <1>1, <1>2, <1>3 DEF HoldsKnownClient, Types
  <1>8. RegisteredIsOpen'
    BY Parts, <1>1, <1>2, <1>3 DEF RegisteredIsOpen, Types
  <1>9. OneClientPerPath'
    BY Parts, <1>1, <1>2, <1>3 DEF OneClientPerPath, Types
  <1>10. CallsAreNotCut'
    BY Parts, <1>1, <1>2, <1>3 DEF CallsAreNotCut, Types
  <1>11. ScrolledUpTo'
    BY Parts, <1>1, <1>2, <1>3 DEF ScrolledUpTo, StoreTypeOK, Types, Matching, Op
  <1> QED BY <1>4, <1>5, <1>6, <1>7, <1>8, <1>9, <1>10, <1>11 DEF StoreInv

LEMMA ScrollKeeps ==
  ASSUME StoreInv, NEW t \in Threads, Scroll(t) PROVE StoreInv'
  <1> USE NamesDiffer DEF Names, Opening, Running, Goto
  <1>1. CASE Remaining(t) = {}
    <2>1. /\ pc[t] = "scroll" /\ pc' = [pc EXCEPT ![t] = "holding"]
          /\ lock' = [lock EXCEPT ![col[t]] = Nobody]
          /\ step' = [step EXCEPT ![t] = @ + 1]
          /\ found' = [found EXCEPT ![t] = @ \cup Page(t)]
          /\ UNCHANGED <<plan, points, guard, registry, opened, col, offset, shutdown>>
      BY <1>1 DEF Scroll, Leave
    <2>2. col[t] \in Threads
      BY Parts, <2>1 DEF HoldsKnownClient
    <2>3. lock[col[t]] = t
      BY Parts, <2>1, <2>2 DEF LockHeld
    <2>4. Page(t) \subseteq points
      BY DEF Page, Unread, Matching
    <2>5. StoreTypeOK'
      BY Parts, <2>1, <2>2, <2>3, <2>4 DEF StoreTypeOK, Labels, Owners
    <2>6. GuardHeld'
      BY Parts, <2>1, <2>2, <2>3, <2>4 DEF GuardHeld, Types
    <2>7. LockHeld'
      BY Parts, <2>1, <2>2, <2>3, <2>4 DEF LockHeld, Types
    <2>8. HoldsKnownClient'
      BY Parts, <2>1, <2>2, <2>3, <2>4 DEF HoldsKnownClient, Types
    <2>9. RegisteredIsOpen'
      BY Parts, <2>1, <2>2, <2>3, <2>4 DEF RegisteredIsOpen, Types
    <2>10. OneClientPerPath'
      BY Parts, <2>1, <2>2, <2>3, <2>4 DEF OneClientPerPath, Types
    <2>11. CallsAreNotCut'
      BY Parts, <2>1, <2>2, <2>3, <2>4 DEF CallsAreNotCut, Types
    <2>12. ScrolledUpTo'
      BY Parts, <2>1, <2>2, <2>3, <2>4 DEF ScrolledUpTo, StoreTypeOK, Types, Matching, Op
    <2> QED BY <2>5, <2>6, <2>7, <2>8, <2>9, <2>10, <2>11, <2>12 DEF StoreInv
  <1>2. CASE Remaining(t) # {}
    <2>1. /\ pc[t] = "scroll"
          /\ found' = [found EXCEPT ![t] = @ \cup Page(t)]
          /\ \E next \in Remaining(t) :
              /\ \A p \in Remaining(t) : next <= p
              /\ offset' = [offset EXCEPT ![t] = next]
          /\ UNCHANGED <<plan, points, guard, registry, opened, lock, pc, col, step,
                          shutdown>>
      BY <1>2 DEF Scroll, Leave
    <2>2. col[t] \in Threads
      BY Parts, <2>1 DEF HoldsKnownClient
    <2>3. lock[col[t]] = t
      BY Parts, <2>1, <2>2 DEF LockHeld
    <2>4. Page(t) \subseteq points
      BY DEF Page, Unread, Matching
    <2>5. offset'[t] \in Nat /\ offset' = [offset EXCEPT ![t] = offset'[t]]
      BY Parts, <2>1, VectorStoreAssumption DEF StoreTypeOK, Remaining, Unread, Matching
    <2>6. found[t] \cup Page(t) = {p \in Matching(Op(t).session) : p < offset'[t]}
      BY PageUpToNext, Parts, <2>1 DEF StoreTypeOK
    <2>7. StoreTypeOK'
      BY Parts, <2>1, <2>2, <2>3, <2>4, <2>5, <2>6 DEF StoreTypeOK, Labels, Owners
    <2>8. GuardHeld'
      BY Parts, <2>1, <2>2, <2>3, <2>4, <2>5, <2>6 DEF GuardHeld, Types
    <2>9. LockHeld'
      BY Parts, <2>1, <2>2, <2>3, <2>4, <2>5, <2>6 DEF LockHeld, Types
    <2>10. HoldsKnownClient'
      BY Parts, <2>1, <2>2, <2>3, <2>4, <2>5, <2>6 DEF HoldsKnownClient, Types
    <2>11. RegisteredIsOpen'
      BY Parts, <2>1, <2>2, <2>3, <2>4, <2>5, <2>6 DEF RegisteredIsOpen, Types
    <2>12. OneClientPerPath'
      BY Parts, <2>1, <2>2, <2>3, <2>4, <2>5, <2>6 DEF OneClientPerPath, Types
    <2>13. CallsAreNotCut'
      BY Parts, <2>1, <2>2, <2>3, <2>4, <2>5, <2>6 DEF CallsAreNotCut, Types
    <2>14. ScrolledUpTo'
      BY Parts, <2>1, <2>2, <2>3, <2>4, <2>5, <2>6 DEF ScrolledUpTo, StoreTypeOK, Types, Matching, Op
    <2> QED BY <2>7, <2>8, <2>9, <2>10, <2>11, <2>12, <2>13, <2>14 DEF StoreInv
  <1> QED BY <1>1, <1>2 DEF Scroll, Leave

LEMMA CloseBeginKeeps ==
  ASSUME StoreInv, CloseBegin PROVE StoreInv'
  <1> USE NamesDiffer DEF Names, Opening, Running, Goto
  <1>1. /\ shutdown = "no" /\ guard = Nobody
        /\ guard' = Closer
        /\ shutdown' = "closing"
        /\ UNCHANGED <<plan, points, registry, opened, lock, pc, col, step, found, offset>>
    BY DEF CloseBegin
  <1>2. StoreTypeOK'
    BY Parts, <1>1 DEF StoreTypeOK, Labels, Owners
  <1>3. GuardHeld'
    BY Parts, <1>1 DEF GuardHeld, Types
  <1>4. LockHeld'
    BY Parts, <1>1 DEF LockHeld, Types
  <1>5. HoldsKnownClient'
    BY Parts, <1>1 DEF HoldsKnownClient, Types
  <1>6. RegisteredIsOpen'
    BY Parts, <1>1 DEF RegisteredIsOpen, Types
  <1>7. OneClientPerPath'
    BY Parts, <1>1 DEF OneClientPerPath, Types
  <1>8. CallsAreNotCut'
    BY Parts, <1>1 DEF CallsAreNotCut, Types
  <1>9. ScrolledUpTo'
    BY Parts, <1>1 DEF ScrolledUpTo, Types, Matching, Op
  <1> QED BY <1>2, <1>3, <1>4, <1>5, <1>6, <1>7, <1>8, <1>9 DEF StoreInv

LEMMA CloseClientKeeps ==
  ASSUME StoreInv, CloseClient PROVE StoreInv'
  <1> USE NamesDiffer DEF Names, Opening, Running, Goto
  <1>1. /\ shutdown = "closing"
        /\ registry # Nobody => lock[registry] = Nobody
        /\ opened' = opened \ {registry}
        /\ shutdown' = "clearing"
        /\ UNCHANGED <<plan, points, guard, registry, lock, pc, col, step, found, offset>>
    BY DEF CloseClient
  <1>2. guard = Closer
    BY Parts, <1>1 DEF GuardHeld
  <1>3. \A u \in Threads : pc[u] \notin Opening
    BY Parts, <1>1, <1>2 DEF GuardHeld
  <1>4. \A u \in Threads : pc[u] = "scroll" => col[u] # registry
    BY Parts, <1>1 DEF LockHeld, HoldsKnownClient
  <1>5. StoreTypeOK'
    BY Parts, <1>1, <1>2, <1>3, <1>4 DEF StoreTypeOK, Labels, Owners
  <1>6. GuardHeld'
    BY Parts, <1>1, <1>2, <1>3, <1>4 DEF GuardHeld, Types
  <1>7. LockHeld'
    BY Parts, <1>1, <1>2, <1>3, <1>4 DEF LockHeld, Types
  <1>8. HoldsKnownClient'
    BY Parts, <1>1, <1>2, <1>3, <1>4 DEF HoldsKnownClient, Types
  <1>9. RegisteredIsOpen'
    BY Parts, <1>1, <1>2, <1>3, <1>4 DEF RegisteredIsOpen, Types
  <1>10. OneClientPerPath'
    BY Parts, <1>1, <1>2, <1>3, <1>4 DEF OneClientPerPath, Types
  <1>11. CallsAreNotCut'
    BY Parts, <1>1, <1>2, <1>3, <1>4 DEF CallsAreNotCut, Types
  <1>12. ScrolledUpTo'
    BY Parts, <1>1, <1>2, <1>3, <1>4 DEF ScrolledUpTo, Types, Matching, Op
  <1> QED BY <1>5, <1>6, <1>7, <1>8, <1>9, <1>10, <1>11, <1>12 DEF StoreInv

LEMMA ClearKeeps ==
  ASSUME StoreInv, Clear PROVE StoreInv'
  <1> USE NamesDiffer DEF Names, Opening, Running, Goto
  <1>1. /\ shutdown = "clearing"
        /\ registry' = Nobody
        /\ guard' = Nobody
        /\ shutdown' = "done"
        /\ UNCHANGED <<plan, points, opened, lock, pc, col, step, found, offset>>
    BY DEF Clear
  <1>2. guard = Closer
    BY Parts, <1>1 DEF GuardHeld
  <1>3. \A u \in Threads : pc[u] \notin Opening
    BY Parts, <1>1, <1>2 DEF GuardHeld
  <1>4. opened = {}
    BY Parts, <1>1, <1>2 DEF Types, OneClientPerPath, RegisteredIsOpen
  <1>5. StoreTypeOK'
    BY Parts, <1>1, <1>2, <1>3, <1>4 DEF StoreTypeOK, Labels, Owners
  <1>6. GuardHeld'
    BY Parts, <1>1, <1>2, <1>3, <1>4 DEF GuardHeld, Types
  <1>7. LockHeld'
    BY Parts, <1>1, <1>2, <1>3, <1>4 DEF LockHeld, Types
  <1>8. HoldsKnownClient'
    BY Parts, <1>1, <1>2, <1>3, <1>4 DEF HoldsKnownClient, Types
  <1>9. RegisteredIsOpen'
    BY Parts, <1>1, <1>2, <1>3, <1>4 DEF RegisteredIsOpen, Types
  <1>10. OneClientPerPath'
    BY Parts, <1>1, <1>2, <1>3, <1>4 DEF OneClientPerPath, Types
  <1>11. CallsAreNotCut'
    BY Parts, <1>1, <1>2, <1>3, <1>4 DEF CallsAreNotCut, Types
  <1>12. ScrolledUpTo'
    BY Parts, <1>1, <1>2, <1>3, <1>4 DEF ScrolledUpTo, Types, Matching, Op
  <1> QED BY <1>5, <1>6, <1>7, <1>8, <1>9, <1>10, <1>11, <1>12 DEF StoreInv

LEMMA StoreStep == StoreInv /\ [StoreNext]_storeVars => StoreInv'
  <1> SUFFICES ASSUME StoreInv, [StoreNext]_storeVars PROVE StoreInv'
    OBVIOUS
  <1>1. ASSUME NEW t \in Threads, ThreadStep(t) PROVE StoreInv'
    BY <1>1, LookUpKeeps, OpenKeeps, CheckKeeps, ContinueKeeps, EnterKeeps, RaiseKeeps,
       UpsertKeeps, DeleteKeeps, QueryKeeps, GetBeginKeeps, ScrollKeeps DEF ThreadStep
  <1>2. CASE Close
    BY <1>2, CloseBeginKeeps, CloseClientKeeps, ClearKeeps DEF Close
  <1>3. CASE UNCHANGED storeVars
    BY <1>3
    DEF storeVars, StoreInv, StoreTypeOK, GuardHeld, LockHeld, HoldsKnownClient,
        RegisteredIsOpen, OneClientPerPath, CallsAreNotCut, ScrolledUpTo, Matching, Op
  <1> QED BY <1>1, <1>2, <1>3 DEF StoreNext

(* The chat over it. *)

LEMMA NextMovesStore == [Next]_vars => [StoreNext]_storeVars
  BY DEF Next, vars, StoreNext, ChatStep, NoContext, Prompt, Ask, Retry, Cite, CiteUnfit,
     Conclude, Finished

\* Guard, locks, registry and clients of the collection agree in every state:
\* one client per path, and no call is cut by a shutdown.
THEOREM StoreInvariant == Spec => []StoreInv
  <1>1. ChatInit => StoreInv
    BY StoreInitially DEF ChatInit
  <1>2. StoreInv /\ [Next]_vars => StoreInv'
    BY NextMovesStore, StoreStep
  <1> QED BY <1>1, <1>2, PTL DEF Spec

\* "One client owns a path", also while a failed opening or a shutdown is on.
THEOREM OneClient == Spec => []OneClientPerPath
  <1>1. StoreInv => OneClientPerPath
    BY DEF StoreInv
  <1> QED BY <1>1, StoreInvariant, PTL

\* A scroll ends on the open client it began on.
THEOREM CallsEnd == Spec => []CallsAreNotCut
  <1>1. StoreInv => CallsAreNotCut
    BY DEF StoreInv
  <1> QED BY <1>1, StoreInvariant, PTL

LEMMA ScrollEndsWithAll ==
  ASSUME StoreInv, NEW t \in Threads, Scroll(t), pc'[t] = "holding"
  PROVE  found'[t] = Matching(Op(t).session)
  <1>1. pc[t] = "scroll" /\ found' = [found EXCEPT ![t] = @ \cup Page(t)]
    BY DEF Scroll
  <1>2. Remaining(t) = {}
    BY <1>1 DEF Scroll
  <1>3. found[t] = {p \in Matching(Op(t).session) : p < offset[t]}
    BY <1>1, Parts DEF ScrolledUpTo
  <1>4. Page(t) = {p \in Matching(Op(t).session) : p >= offset[t]}
    BY <1>2 DEF Remaining, Page, Unread
  <1>5. Matching(Op(t).session) \subseteq Nat /\ offset[t] \in Nat
    BY Parts, VectorStoreAssumption DEF Matching, StoreTypeOK
  <1>6. found'[t] = found[t] \cup Page(t)
    BY <1>1, Parts DEF StoreTypeOK
  <1> QED BY <1>3, <1>4, <1>5, <1>6

LEMMA OnlyScrollScrolls ==
  ASSUME StoreInv, [StoreNext]_storeVars, NEW t \in Threads,
         pc[t] = "scroll", pc'[t] # "scroll"
  PROVE  Scroll(t)
  <1>1. pc \in [Threads -> Labels]
    BY Parts DEF Types
  <1>2. PICK u \in Threads : ThreadStep(u)
    BY DEF StoreNext, storeVars, Close, CloseBegin, CloseClient, Clear
  <1>3. pc' = [pc EXCEPT ![u] = pc'[u]]
    BY <1>1, <1>2 DEF ThreadStep, LookUp, Open, Check, Registered, Continue, Enter, Raise,
       Upsert, Delete, Query, GetBegin, Scroll, Leave, Goto
  <1>4. u = t
    BY <1>1, <1>3
  <1> QED
    BY <1>2, <1>4 DEF ThreadStep, LookUp, Open, Check, Registered, Continue, Enter, Raise,
       Upsert, Delete, Query, GetBegin, Leave, Goto, Alive

\* A get that reads page by page returns what is stored at one instant.
THEOREM ReadsAreSnapshots == Spec => ReadIsSnapshot
  <1>1. StoreInv /\ [Next]_vars =>
          [\A t \in Threads :
             pc[t] = "scroll" /\ pc'[t] = "holding" =>
               found'[t] = Matching(Op(t).session)]_storeVars
    <2> SUFFICES ASSUME StoreInv, [Next]_vars, NEW t \in Threads,
                        pc[t] = "scroll", pc'[t] = "holding"
                 PROVE  found'[t] = Matching(Op(t).session)
      OBVIOUS
    <2>1. Scroll(t)
      BY NextMovesStore, OnlyScrollScrolls
    <2> QED BY <2>1, ScrollEndsWithAll
  <1> QED BY <1>1, StoreInvariant, PTL DEF Spec, ReadIsSnapshot
-----------------------------------------------------------------------------
LEMMA PlanStays == [StoreNext]_storeVars => plan' = plan
  BY DEF StoreNext, storeVars, Close, CloseBegin, CloseClient, Clear, ThreadStep, LookUp, Open,
     Check, Continue, Enter, Raise, Upsert, Delete, Query, GetBegin, Scroll

\* Who has ended has ended, with what it found.
LEMMA EndedStays ==
  ASSUME StoreInv, [StoreNext]_storeVars, NEW t \in Threads, pc[t] = "ended"
  PROVE  pc'[t] = "ended" /\ found'[t] = found[t]
  <1> USE Parts DEF Types, StoreTypeOK
  <1>1. CASE UNCHANGED <<pc, found>>
    BY <1>1
  <1>2. ASSUME NEW u \in Threads, ThreadStep(u) PROVE pc'[t] = "ended" /\ found'[t] = found[t]
    <2>1. u # t
      BY <1>2 DEF ThreadStep, LookUp, Open, Check, Registered, Continue, Enter, Raise, Upsert,
         Delete, Query, GetBegin, Scroll, Alive, Leave, Goto
    <2>2. CASE LookUp(u) \/ Open(u) \/ Check(u) \/ Continue(u) \/ Enter(u) \/ Raise(u)
      BY <2>1, <2>2 DEF LookUp, Open, Check, Registered, Continue, Enter, Raise, Goto
    <2>3. CASE Upsert(u) \/ Delete(u)
      BY <2>1, <2>3 DEF Upsert, Delete, Leave, Goto
    <2>4. CASE Query(u) \/ GetBegin(u)
      BY <2>1, <2>4 DEF Query, GetBegin, Leave, Goto
    <2>5. CASE Scroll(u)
      BY <2>1, <2>5 DEF Scroll, Leave, Goto
    <2> QED BY <1>2, <2>2, <2>3, <2>4, <2>5 DEF ThreadStep
  <1> QED
    BY <1>1, <1>2 DEF StoreNext, storeVars, Close, CloseBegin, CloseClient, Clear

\* A chat's only call is its query, so what it finds is of its session.
LEMMA ChatFindsItsOwn ==
  ASSUME StoreInv, [StoreNext]_storeVars, NEW t \in Threads, IsChat(t), pc[t] # "scroll",
         \A p \in found[t] : SessionOf[p] = plan[t][1].session
  PROVE  pc'[t] # "scroll" /\ \A p \in found'[t] : SessionOf[p] = plan[t][1].session
  <1> DEFINE Goal == pc'[t] # "scroll" /\ \A p \in found'[t] : SessionOf[p] = plan[t][1].session
  <1> USE Parts DEF Types, StoreTypeOK
  <1>1. CASE UNCHANGED <<pc, found>>
    BY <1>1
  <1>2. ASSUME NEW u \in Threads, ThreadStep(u) PROVE Goal
    <2>1. CASE LookUp(u) \/ Open(u) \/ Check(u) \/ Continue(u) \/ Enter(u) \/ Raise(u)
      BY <2>1 DEF LookUp, Open, Check, Registered, Continue, Enter, Raise, Goto
    <2>2. CASE Upsert(u) \/ Delete(u)
      BY <2>2 DEF Upsert, Delete, Leave, Goto
    <2>3. pc[t] = "run" => Op(t) = plan[t][1]
      <3>1. pc[t] = "run" => step[t] < 1
        BY DEF IsChat, HoldsKnownClient, Running
      <3>2. pc[t] = "run" => step[t] = 0
        BY <3>1
      <3> QED BY <3>2 DEF Op
    <2>4. CASE Query(u)
      <3>1. CASE u # t
        BY <3>1, <2>4 DEF Query, Leave, Goto
      <3>2. CASE u = t
        <4>1. pc[t] = "run" /\ pc' = [pc EXCEPT ![t] = "holding"]
          BY <3>2, <2>4 DEF Query, Leave, Goto
        <4>2. \A p \in found'[t] : SessionOf[p] = Op(t).session
          BY <3>2, <2>4 DEF Query, Matching
        <4> QED BY <4>1, <4>2, <2>3
      <3> QED BY <3>1, <3>2
    <2>5. CASE GetBegin(u)
      <3>1. u # t
        BY <2>5, <2>3 DEF GetBegin, Alive, IsChat
      <3> QED BY <3>1, <2>5 DEF GetBegin, Goto
    <2>6. CASE Scroll(u)
      <3>1. u # t
        BY <2>6 DEF Scroll
      <3> QED BY <3>1, <2>6 DEF Scroll, Leave, Goto
    <2> QED BY <1>2, <2>1, <2>2, <2>4, <2>5, <2>6 DEF ThreadStep
  <1> QED
    BY <1>1, <1>2 DEF StoreNext, storeVars, Close, CloseBegin, CloseClient, Clear

LEMMA StoreStepKeepsChat ==
  ASSUME StoreInv, StoreInv', ChatInv, [StoreNext]_storeVars, UNCHANGED chatVars
  PROVE  ChatInv'
  <1> USE DEF chatVars
  <1>1. plan' = plan
    BY PlanStays
  <1>2. TypeOK'
    <2>1. StoreTypeOK'
      BY DEF StoreInv
    <2> QED BY <2>1 DEF ChatInv, TypeOK
  <1>3. \A t \in Threads : phase[t] # "query" => pc'[t] = "ended" /\ found'[t] = found[t]
    BY EndedStays DEF ChatInv, ChatFollowsQuery
  <1>4. \A t \in Threads : IsChat(t) <=> IsChat(t)'
    BY <1>1 DEF IsChat
  <1>5. ChatFollowsQuery'
    <2> SUFFICES ASSUME NEW t \in Threads PROVE ChatFollowsQuery!(t)'
      BY DEF ChatFollowsQuery
    <2>1. IsChat(t)' => /\ pc'[t] # "scroll"
                       /\ \A p \in found'[t] : SessionOf[p] = plan'[t][1].session
      BY <1>1, <1>4, ChatFindsItsOwn DEF ChatInv, ChatFollowsQuery
    <2>2. Blocks(t)' = Blocks(t) \/ phase[t] = "query"
      BY <1>3 DEF Blocks
    <2>3. Allowed(t)' = Allowed(t)
      BY DEF Allowed
    <2> QED BY <2>1, <2>2, <2>3, <1>3, <1>4 DEF ChatInv, ChatFollowsQuery
  <1>6. CitationsFiltered'
    <2>1. \A t \in Threads : Seen(t)' = Seen(t) /\ Allowed(t)' = Allowed(t)
      BY DEF Seen, Allowed
    <2>2. CitationsFiltered
      BY DEF ChatInv
    <2> QED BY <2>1, <2>2 DEF CitationsFiltered
  <1>7. StatusTellsGrounding'
    <2>1. \A t \in Threads : Answered(t) => phase[t] # "query"
      BY DEF ChatInv, ChatFollowsQuery, Answered
    <2>2. \A t \in Threads : Answered(t) => found'[t] = found[t]
      BY <2>1, <1>3
    <2>3. StatusTellsGrounding
      BY DEF ChatInv
    <2> QED BY <2>2, <2>3 DEF StatusTellsGrounding, Answered
  <1> QED BY <1>2, <1>5, <1>6, <1>7 DEF ChatInv
-----------------------------------------------------------------------------
LEMMA ChatInitially == ChatInit => ChatInv
  <1> SUFFICES ASSUME ChatInit PROVE ChatInv
    OBVIOUS
  <1>1. StoreInv
    BY StoreInitially DEF ChatInit
  <1>2. TypeOK
    BY <1>1 DEF StoreInv, TypeOK, ChatInit, Phases, Modes
  <1>3. \A t \in Threads : Seen(t) = {} /\ Allowed(t) = {}
    BY DEF ChatInit, Seen, Allowed
  <1>4. Cardinality({}) = 0
    BY FS_EmptySet
  <1>5. ChatFollowsQuery
    <2>1. \A t \in Threads : pc[t] = "idle" /\ found[t] = {}
      BY DEF ChatInit, StoreInit
    <2>2. \A t \in Threads :
            /\ phase[t] = "query" /\ ranked[t] = << >> /\ sources[t] = << >>
            /\ cited[t] = {} /\ read[t] = 0 /\ answer[t] = NoAnswer
      BY DEF ChatInit
    <2> QED BY <2>1, <2>2 DEF ChatFollowsQuery
  <1>6. CitationsFiltered
    <2>1. \A t \in Threads : /\ phase[t] = "query" /\ sources[t] = << >> /\ cited[t] = {}
                            /\ Len(sources[t]) = 0 /\ DOMAIN sources[t] = {}
      BY DEF ChatInit
    <2> QED BY <2>1, <1>3, <1>4 DEF CitationsFiltered
  <1>7. StatusTellsGrounding
    BY DEF ChatInit, StatusTellsGrounding, Answered
  <1> QED BY <1>2, <1>5, <1>6, <1>7 DEF ChatInv

\* A ranking lists the points found, each once.
LEMMA RankingsListAll ==
  ASSUME NEW set \in SUBSET Points, NEW order \in Rankings(set)
  PROVE  /\ order \in Seq(Points)
         /\ {order[i] : i \in DOMAIN order} = set
         /\ set # {} => Len(order) > 0
  <1>1. IsFiniteSet(set)
    BY VectorStoreAssumption, FS_Subset
  <1>2. Cardinality(set) \in Nat
    BY <1>1, FS_CardinalityType
  <1>3. order \in [1..Cardinality(set) -> set]
    BY DEF Rankings
  <1>4. \A p \in set : \E i \in DOMAIN order : order[i] = p
    BY DEF Rankings
  <1>5. order \in Seq(Points) /\ Len(order) = Cardinality(set)
    BY <1>2, <1>3
  <1>6. {order[i] : i \in DOMAIN order} = set
    BY <1>3, <1>4
  <1>7. set # {} => Cardinality(set) > 0
    BY <1>1, <1>2, FS_EmptySet
  <1> QED BY <1>5, <1>6, <1>7

\* What a step of a chat changes is its own.
LEMMA NoContextKeeps ==
  ASSUME ChatInv, NEW t \in Threads, NoContext(t) PROVE ChatInv'
  <1> USE DEF NoContext, Step, storeVars
  <1>1. phase \in [Threads -> Phases] /\ answer \in [Threads -> Answers \cup {NoAnswer}]
    BY DEF ChatInv, TypeOK
  <1>2. TypeOK'
    BY DEF ChatInv, TypeOK, StoreTypeOK, Phases, Answers, Confidences
  <1>3. \A u \in Threads : /\ Seen(u)' = Seen(u) /\ Allowed(u)' = Allowed(u)
                           /\ Blocks(u)' = Blocks(u) /\ IsChat(u)' = IsChat(u)
    BY DEF Seen, Allowed, Blocks, IsChat
  <1>4. Allowed(t) = {} /\ cited[t] = {}
    BY DEF ChatInv, ChatFollowsQuery, Allowed
  <1>5. ChatFollowsQuery'
    BY <1>1, <1>3, <1>4 DEF ChatInv, ChatFollowsQuery
  <1>6. CitationsFiltered'
    BY <1>1, <1>3 DEF ChatInv, CitationsFiltered
  <1>7. StatusTellsGrounding'
    BY <1>1, <1>4 DEF ChatInv, StatusTellsGrounding, Answered, Blocks
  <1> QED BY <1>2, <1>5, <1>6, <1>7 DEF ChatInv

LEMMA PromptKeeps ==
  ASSUME ChatInv, NEW t \in Threads, Prompt(t) PROVE ChatInv'
  <1>1. /\ phase \in [Threads -> Phases] /\ mode \in [Threads -> Modes]
        /\ ranked \in [Threads -> Seq(Points)] /\ found \in [Threads -> SUBSET Points]
    BY DEF ChatInv, TypeOK, StoreTypeOK
  <1>2. PICK order \in Rankings(Blocks(t)) : ranked' = [ranked EXCEPT ![t] = order]
    BY DEF Prompt
  <1>3. /\ order \in Seq(Points)
        /\ {order[i] : i \in DOMAIN order} = Blocks(t)
    BY <1>1, RankingsListAll DEF Blocks
  <1>4. /\ pc[t] = "ended" /\ IsChat(t) /\ Blocks(t) # {}
        /\ phase[t] = "query"
        /\ \/ phase' = [phase EXCEPT ![t] = "refused"] /\ mode' = mode
           \/ phase' = [phase EXCEPT ![t] = "ask"] /\ mode' = mode
           \/ phase' = [phase EXCEPT ![t] = "ground"] /\ mode' = [mode EXCEPT ![t] = "mock"]
        /\ UNCHANGED <<plan, points, guard, registry, opened, lock, pc, col, step, found, offset,
                       shutdown, read, cited, sources, answer>>
    BY DEF Prompt, Step, storeVars
  <1>5. TypeOK'
    BY <1>1, <1>2, <1>3, <1>4 DEF ChatInv, TypeOK, StoreTypeOK, Phases, Modes
  <1>6. \A u \in Threads : /\ Seen(u)' = Seen(u)
                           /\ Blocks(u)' = Blocks(u) /\ IsChat(u)' = IsChat(u)
                           /\ u # t => Allowed(u)' = Allowed(u) /\ phase'[u] = phase[u]
                                        /\ mode'[u] = mode[u] /\ ranked'[u] = ranked[u]
    BY <1>1, <1>2, <1>4 DEF Seen, Allowed, Blocks, IsChat
  <1>7. /\ Allowed(t)' = Blocks(t) /\ phase'[t] \in {"refused", "ask", "ground"}
        /\ phase'[t] = "ground" => mode'[t] = "mock"
        /\ cited[t] = {} /\ sources[t] = << >> /\ read[t] = 0 /\ answer[t] = NoAnswer
    <2>1. ranked'[t] = order
      BY <1>1, <1>2
    <2>2. Allowed(t)' = Blocks(t)
      BY <2>1, <1>3 DEF Allowed
    <2> QED BY <2>2, <1>1, <1>4 DEF ChatInv, ChatFollowsQuery
  <1>8. ChatFollowsQuery'
    BY <1>4, <1>6, <1>7 DEF ChatInv, ChatFollowsQuery
  <1>9. CitationsFiltered'
    <2>1. Seen(t) = {} /\ Cardinality(Seen(t)) = Len(sources[t])
      BY <1>7 DEF Seen, ChatInv, CitationsFiltered
    <2> QED BY <1>4, <1>6, <1>7, <2>1 DEF ChatInv, CitationsFiltered
  <1>10. StatusTellsGrounding'
    BY <1>4 DEF ChatInv, StatusTellsGrounding, Answered
  <1> QED BY <1>5, <1>8, <1>9, <1>10 DEF ChatInv

LEMMA RequestKeeps ==
  ASSUME ChatInv, NEW t \in Threads, Ask(t) \/ Retry(t) PROVE ChatInv'
  <1>1. phase \in [Threads -> Phases] /\ mode \in [Threads -> Modes]
    BY DEF ChatInv, TypeOK
  <1>2. /\ phase[t] \in {"ask", "retry"}
        /\ \E to \in {"ground", "retry"} :
             /\ phase' = [phase EXCEPT ![t] = to]
             /\ \/ to = "retry" /\ mode' = mode
                \/ mode' = [mode EXCEPT ![t] = "openai"]
                \/ mode' = [mode EXCEPT ![t] = "fallback"]
        /\ UNCHANGED <<plan, points, guard, registry, opened, lock, pc, col, step, found, offset,
                       shutdown, ranked, read, cited, sources, answer>>
    BY DEF Ask, Retry, Replied, Step, storeVars
  <1>3. TypeOK'
    BY <1>1, <1>2 DEF ChatInv, TypeOK, StoreTypeOK, Phases, Modes
  <1>4. \A u \in Threads : /\ Seen(u)' = Seen(u) /\ Allowed(u)' = Allowed(u)
                           /\ Blocks(u)' = Blocks(u) /\ IsChat(u)' = IsChat(u)
    BY <1>2 DEF Seen, Allowed, Blocks, IsChat
  <1>5. ChatFollowsQuery'
    BY <1>1, <1>2, <1>4 DEF ChatInv, ChatFollowsQuery
  <1>6. CitationsFiltered'
    <2>1. read[t] = 0 /\ answer[t] = NoAnswer
      BY <1>2 DEF ChatInv, ChatFollowsQuery
    <2> QED BY <1>1, <1>2, <1>4, <2>1 DEF ChatInv, CitationsFiltered, TypeOK
  <1>7. StatusTellsGrounding'
    BY <1>2 DEF ChatInv, StatusTellsGrounding, Answered
  <1> QED BY <1>3, <1>5, <1>6, <1>7 DEF ChatInv

LEMMA CiteKeeps ==
  ASSUME ChatInv, NEW t \in Threads, Cite(t) PROVE ChatInv'
  <1>1. /\ phase \in [Threads -> Phases] /\ mode \in [Threads -> Modes]
        /\ read \in [Threads -> Nat] /\ cited \in [Threads -> SUBSET (Points \cup Forged)]
        /\ sources \in [Threads -> Seq(Sources)] /\ ranked \in [Threads -> Seq(Points)]
    BY DEF ChatInv, TypeOK
  <1>2. PICK source \in NextCitations(t) :
          /\ source.chunk \notin Allowed(t) \cap Unfit
          /\ cited' = [cited EXCEPT ![t] = @ \cup {source.chunk}]
          /\ sources' = [sources EXCEPT ![t] = Kept(t, source)]
    BY DEF Cite
  <1>3. /\ phase[t] = "ground"
        /\ read' = [read EXCEPT ![t] = @ + 1]
        /\ UNCHANGED <<plan, points, guard, registry, opened, lock, pc, col, step, found, offset,
                       shutdown, phase, ranked, mode, answer>>
    BY DEF Cite, storeVars
  <1>4. Allowed(t) \subseteq Points
    BY <1>1 DEF Allowed
  <1>5. /\ source \in Sources
        /\ mode[t] # "openai" => source.chunk \in Allowed(t)
    <2>1. CASE mode[t] = "openai"
      BY <1>2, <2>1 DEF NextCitations
    <2>2. CASE mode[t] # "openai"
      <3>1. /\ read[t] < FallbackLength(ranked[t])
            /\ source = [chunk |-> ranked[t][read[t] + 1], meta |-> MetaOf[ranked[t][read[t] + 1]]]
        BY <1>2, <2>2 DEF NextCitations
      <3>2. read[t] + 1 \in DOMAIN ranked[t]
        BY <1>1, <3>1, GroundedChatAssumption DEF FallbackLength
      <3>3. ranked[t][read[t] + 1] \in Points
        BY <1>1, <3>2
      <3> QED BY <3>1, <3>2, <3>3, GroundedChatAssumption DEF Sources, Allowed
    <2> QED BY <2>1, <2>2
  <1> DEFINE chunk == source.chunk
  <1>6. chunk \in Points \cup Forged
    BY <1>5 DEF Sources
  <1>7. /\ sources'[t] \in Seq(Sources)
        /\ Seen(t)' = IF chunk \in Allowed(t) THEN Seen(t) \cup {chunk} ELSE Seen(t)
        /\ Len(sources'[t]) = IF chunk \in Allowed(t) \ Seen(t) THEN Len(sources[t]) + 1
                                                             ELSE Len(sources[t])
        /\ \A i \in DOMAIN sources'[t] : sources'[t][i].meta = MetaOf[sources'[t][i].chunk]
        /\ mode[t] # "openai" => sources'[t] # << >>
    <2>1. sources'[t] = Kept(t, source)
      BY <1>1, <1>2
    <2>2. \A i \in DOMAIN sources[t] : sources[t][i].meta = MetaOf[sources[t][i].chunk]
      BY DEF ChatInv, CitationsFiltered
    <2>3. CASE chunk \in Allowed(t) \ Seen(t)
      <3>1. Trusted(source) \in Sources
        BY <2>3, <1>4, GroundedChatAssumption DEF Trusted, Sources
      <3>2. sources'[t] = Append(sources[t], Trusted(source))
        BY <2>1, <2>3 DEF Kept
      <3>3. /\ sources'[t] \in Seq(Sources)
            /\ Len(sources'[t]) = Len(sources[t]) + 1
            /\ \A i \in 1..Len(sources[t]) : sources'[t][i] = sources[t][i]
            /\ sources'[t][Len(sources[t]) + 1] = Trusted(source)
            /\ DOMAIN sources'[t] = 1..(Len(sources[t]) + 1)
            /\ DOMAIN sources[t] = 1..Len(sources[t])
            /\ Len(sources[t]) \in Nat
        BY <1>1, <3>1, <3>2
      <3>4. Trusted(source).chunk = chunk /\ Trusted(source).meta = MetaOf[chunk]
        BY DEF Trusted
      <3>5. Seen(t)' = Seen(t) \cup {chunk}
        <4> DEFINE n == Len(sources[t])
        <4>1. Seen(t)' = {sources'[t][i].chunk : i \in 1..(n + 1)}
          BY <3>3 DEF Seen
        <4>2. Seen(t) = {sources[t][i].chunk : i \in 1..n}
          BY <3>3 DEF Seen
        <4>3. 1..(n + 1) = 1..n \cup {n + 1}
          BY <3>3
        <4>4. sources'[t][n + 1].chunk = chunk
          BY <3>3, <3>4
        <4>5. \A i \in 1..n : sources'[t][i].chunk = sources[t][i].chunk
          BY <3>3
        <4> HIDE DEF n
        <4> QED BY <4>1, <4>2, <4>3, <4>4, <4>5
      <3>6. \A i \in DOMAIN sources'[t] : sources'[t][i].meta = MetaOf[sources'[t][i].chunk]
        BY <3>3, <3>4, <2>2
      <3>7. sources'[t] # << >>
        BY <3>3
      <3> QED BY <2>3, <3>3, <3>5, <3>6, <3>7
    <2>4. CASE chunk \notin Allowed(t) \ Seen(t)
      <3>1. sources'[t] = sources[t]
        BY <2>1, <2>4 DEF Kept
      <3>2. chunk \in Allowed(t) => chunk \in Seen(t)
        BY <2>4
      <3>3. Seen(t)' = Seen(t)
        BY <3>1 DEF Seen
      <3>4. mode[t] # "openai" => sources[t] # << >>
        BY <1>5, <3>2 DEF Seen
      <3> QED BY <3>1, <3>2, <3>3, <3>4, <2>2, <2>4, <1>1
    <2> QED BY <2>3, <2>4
  <1>8. \A u \in Threads :
          /\ Allowed(u)' = Allowed(u) /\ Blocks(u)' = Blocks(u) /\ IsChat(u)' = IsChat(u)
          /\ u # t => /\ Seen(u)' = Seen(u) /\ sources'[u] = sources[u]
                      /\ cited'[u] = cited[u] /\ read'[u] = read[u]
    BY <1>1, <1>2, <1>3 DEF Allowed, Blocks, IsChat, Seen
  <1>9. cited'[t] = cited[t] \cup {chunk} /\ read'[t] = read[t] + 1
    BY <1>1, <1>2, <1>3
  <1>10. TypeOK'
    <2>1. sources' \in [Threads -> Seq(Sources)]
      BY <1>1, <1>2, <1>7
    <2>2. cited' \in [Threads -> SUBSET (Points \cup Forged)]
      BY <1>1, <1>2, <1>6
    <2>3. read' \in [Threads -> Nat]
      BY <1>1, <1>3
    <2> QED BY <1>3, <2>1, <2>2, <2>3 DEF ChatInv, TypeOK, StoreTypeOK
  <1>11. ChatFollowsQuery'
    BY <1>3, <1>8 DEF ChatInv, ChatFollowsQuery
  <1>12. CitationsFiltered'
    <2> SUFFICES ASSUME NEW u \in Threads PROVE CitationsFiltered!(u)'
      BY DEF CitationsFiltered
    <2>1. CitationsFiltered!(u)
      BY DEF ChatInv, CitationsFiltered
    <2>2. CASE u # t
      BY <2>1, <2>2, <1>3, <1>8
    <2>3. CASE u = t
      <3>1. Seen(t)' = cited'[t] \cap Allowed(t)
        BY <2>1, <2>3, <1>7, <1>9
      <3>2. IsFiniteSet(Seen(t))
        <4>1. Seen(t) \subseteq Points
          BY <2>1, <2>3, <1>4
        <4> QED BY <4>1, FS_Subset, VectorStoreAssumption
      <3>3. Len(sources'[t]) = Cardinality(Seen(t)')
        <4>1. CASE chunk \in Allowed(t) \ Seen(t)
          <5>1. Cardinality(Seen(t) \cup {chunk}) = Cardinality(Seen(t)) + 1
            BY <3>2, <4>1, FS_AddElement
          <5> QED BY <5>1, <4>1, <1>7, <2>1, <2>3
        <4>2. CASE chunk \notin Allowed(t) \ Seen(t)
          <5>1. Seen(t)' = Seen(t)
            BY <4>2, <1>7
          <5> QED BY <5>1, <4>2, <1>7, <2>1, <2>3
        <4> QED BY <4>1, <4>2
      <3> QED BY <2>1, <2>3, <3>1, <3>3, <1>3, <1>7, <1>8
    <2> QED BY <2>2, <2>3
  <1>13. StatusTellsGrounding'
    <2>1. \A u \in Threads : Answered(u)' => Answered(u) /\ u # t
      BY <1>3 DEF Answered, ChatInv, CitationsFiltered
    <2> QED BY <2>1, <1>3, <1>8 DEF StatusTellsGrounding, ChatInv, Answered
  <1> QED BY <1>10, <1>11, <1>12, <1>13 DEF ChatInv

LEMMA CiteUnfitKeeps ==
  ASSUME ChatInv, NEW t \in Threads, CiteUnfit(t) PROVE ChatInv'
  <1>1. phase \in [Threads -> Phases]
    BY DEF ChatInv, TypeOK
  <1>2. /\ phase[t] = "ground" /\ phase' = [phase EXCEPT ![t] = "refused"]
        /\ UNCHANGED <<plan, points, guard, registry, opened, lock, pc, col, step, found, offset,
                       shutdown, ranked, mode, read, cited, sources, answer>>
    BY DEF CiteUnfit, Step, storeVars
  <1>3. TypeOK'
    BY <1>1, <1>2 DEF ChatInv, TypeOK, StoreTypeOK, Phases
  <1>4. \A u \in Threads : /\ Seen(u)' = Seen(u) /\ Allowed(u)' = Allowed(u)
                           /\ Blocks(u)' = Blocks(u) /\ IsChat(u)' = IsChat(u)
    BY <1>2 DEF Seen, Allowed, Blocks, IsChat
  <1>5. ChatFollowsQuery'
    BY <1>1, <1>2, <1>4 DEF ChatInv, ChatFollowsQuery
  <1>6. CitationsFiltered'
    BY <1>1, <1>2, <1>4 DEF ChatInv, CitationsFiltered
  <1>7. StatusTellsGrounding'
    BY <1>2 DEF ChatInv, StatusTellsGrounding, Answered
  <1> QED BY <1>3, <1>5, <1>6, <1>7 DEF ChatInv

LEMMA ConcludeKeeps ==
  ASSUME ChatInv, NEW t \in Threads, Conclude(t) PROVE ChatInv'
  <1>1. /\ phase \in [Threads -> Phases] /\ mode \in [Threads -> Modes]
        /\ sources \in [Threads -> Seq(Sources)] /\ ranked \in [Threads -> Seq(Points)]
        /\ answer \in [Threads -> Answers \cup {NoAnswer}]
    BY DEF ChatInv, TypeOK
  <1>2. PICK confidence \in Claimed(t) : answer' = [answer EXCEPT ![t] = Response(t, confidence)]
    BY DEF Conclude
  <1>3. /\ phase[t] = "ground" /\ phase' = [phase EXCEPT ![t] = "answered"]
        /\ mode[t] = "openai" \/ read[t] = FallbackLength(ranked[t])
        /\ UNCHANGED <<plan, points, guard, registry, opened, lock, pc, col, step, found, offset,
                       shutdown, ranked, mode, read, cited, sources>>
    BY DEF Conclude, Step, storeVars
  <1>4. /\ mode[t] \in {"openai", "mock", "fallback"}
        /\ Allowed(t) = Blocks(t) /\ Blocks(t) # {}
        /\ Seen(t) = cited[t] \cap Allowed(t)
    BY <1>1, <1>3 DEF ChatInv, ChatFollowsQuery, CitationsFiltered, Modes
  <1>5. sources[t] # << >> <=> Seen(t) # {}
    <2>1. sources[t] \in Seq(Sources)
      BY <1>1
    <2>2. sources[t] # << >> <=> 1 \in DOMAIN sources[t]
      BY <2>1
    <2>3. sources[t] # << >> <=> DOMAIN sources[t] # {}
      BY <2>1, <2>2
    <2> QED BY <2>3 DEF Seen
  <1>6. mode[t] # "openai" => sources[t] # << >>
    <2>1. Len(ranked[t]) > 0
      BY <1>1, <1>4 DEF Allowed
    <2>2. FallbackLength(ranked[t]) > 0
      BY <1>1, <2>1, GroundedChatAssumption DEF FallbackLength
    <2> QED BY <2>2, <1>3 DEF ChatInv, CitationsFiltered
  <1>7. Response(t, confidence) \in Answers
    BY <1>1, <1>2, <1>4 DEF Response, Answers, Claimed, Confidences
  <1>8. TypeOK'
    BY <1>1, <1>2, <1>3, <1>7 DEF ChatInv, TypeOK, StoreTypeOK, Phases
  <1>9. \A u \in Threads : /\ Seen(u)' = Seen(u) /\ Allowed(u)' = Allowed(u)
                           /\ Blocks(u)' = Blocks(u) /\ IsChat(u)' = IsChat(u)
                           /\ u # t => answer'[u] = answer[u] /\ phase'[u] = phase[u]
    BY <1>1, <1>2, <1>3 DEF Seen, Allowed, Blocks, IsChat
  <1>10. phase'[t] = "answered"
    BY <1>1, <1>3
  <1>11. ChatFollowsQuery'
    BY <1>3, <1>9, <1>10 DEF ChatInv, ChatFollowsQuery
  <1>12. CitationsFiltered'
    BY <1>3, <1>9, <1>10 DEF ChatInv, CitationsFiltered
  <1>13. StatusTellsGrounding'
    <2>1. answer'[t] = Response(t, confidence)
      BY <1>1, <1>2
    <2>2. /\ answer'[t].grounding # "no_context"
          /\ answer'[t].grounding = "grounded" <=> sources[t] # << >>
          /\ answer'[t].confidence # "low" => sources[t] # << >>
          /\ answer'[t].mode = mode[t]
      BY <2>1 DEF Response
    <2>3. Seen(t) = cited[t] \cap (found[t] \ Blank) /\ found[t] \ Blank # {}
      BY <1>4 DEF Blocks
    <2>4. StatusTellsGrounding
      BY DEF ChatInv
    <2> QED BY <2>2, <2>3, <2>4, <1>3, <1>5, <1>6, <1>9 DEF StatusTellsGrounding, Answered
  <1> QED BY <1>8, <1>11, <1>12, <1>13 DEF ChatInv

LEMMA ChatStepKeeps ==
  StoreInv /\ StoreInv' /\ ChatInv /\ [Next]_vars => ChatInv'
  <1> SUFFICES ASSUME StoreInv, StoreInv', ChatInv, [Next]_vars PROVE ChatInv'
    OBVIOUS
  <1>1. CASE UNCHANGED chatVars
    BY <1>1, NextMovesStore, StoreStepKeepsChat
  <1>2. ASSUME NEW t \in Threads, ChatStep(t) PROVE ChatInv'
    BY <1>2, NoContextKeeps, PromptKeeps, RequestKeeps, CiteKeeps, CiteUnfitKeeps,
       ConcludeKeeps DEF ChatStep
  <1> QED BY <1>1, <1>2 DEF Next, vars, Finished

\* Phases, citations and answers agree with what each chat's query found.
THEOREM ChatInvariant == Spec => []ChatInv
  <1>1. Spec => [](StoreInv /\ ChatInv)
    <2>1. ChatInit => StoreInv /\ ChatInv
      BY StoreInitially, ChatInitially DEF ChatInit
    <2>2. StoreInv /\ ChatInv /\ [Next]_vars => (StoreInv /\ ChatInv)'
      BY NextMovesStore, StoreStep, ChatStepKeeps
    <2> QED BY <2>1, <2>2, PTL DEF Spec
  <1> QED BY <1>1, PTL

\* The sources of an answer are the citations that were retrieved, once each,
\* with the metadata stored, whatever the provider replies.
THEOREM SourcesRetrieved == Spec => []SourcesAreRetrieved
  <1>1. ChatInv => SourcesAreRetrieved
    <2> SUFFICES ASSUME ChatInv, NEW t \in Threads PROVE SourcesAreRetrieved!(t)
      BY DEF SourcesAreRetrieved
    <2>1. sources[t] \in Seq(Sources)
      BY DEF ChatInv, TypeOK
    <2>2. /\ Seen(t) = cited[t] \cap Allowed(t)
          /\ Len(sources[t]) = Cardinality(Seen(t))
          /\ \A i \in DOMAIN sources[t] : sources[t][i].meta = MetaOf[sources[t][i].chunk]
      BY DEF ChatInv, CitationsFiltered
    <2>3. CASE phase[t] = "query"
      <3>1. sources[t] = << >> /\ cited[t] = {}
        BY <2>3 DEF ChatInv, ChatFollowsQuery
      <3> QED BY <2>2, <3>1
    <2>4. CASE phase[t] # "query"
      <3>1. /\ Allowed(t) = found[t] \ Blank
            /\ \A p \in found[t] : SessionOf[p] = plan[t][1].session
        BY <2>4 DEF ChatInv, ChatFollowsQuery, Blocks
      <3>2. \A i \in DOMAIN sources[t] : sources[t][i].chunk \in found[t]
        BY <2>2, <3>1 DEF Seen
      <3> QED BY <2>2, <3>1, <3>2
    <2> QED BY <2>3, <2>4
  <1> QED BY <1>1, ChatInvariant, PTL

\* The status of an answer says what it rests on; a fallback rests on sources.
THEOREM StatusHolds == Spec => []StatusTellsGrounding
  <1>1. ChatInv => StatusTellsGrounding
    BY DEF ChatInv
  <1> QED BY <1>1, ChatInvariant, PTL
===============================================================================
