--------------------------- MODULE EmbeddingCache ---------------------------
(***************************************************************************)
(* app/rag_engine.py: embed_texts and its cache, with a real embedding     *)
(* client.  Threads of the pool call it at the same time; they look up and *)
(* store one text after the other with _embedding_cache_lock held, and the *)
(* request to the embedding service lies between without the lock.         *)
(*                                                                         *)
(* A cache key is the text itself: it is a hash of the text and of         *)
(* settings that do not change.  A vector is named by the text it embeds.  *)
(* The OrderedDict is the sequence of its entries, the least recently used *)
(* first.  That a service which answers every text answers in order is its *)
(* contract, which the code does not check; which vectors an answer of     *)
(* another length has is left open.                                        *)
(***************************************************************************)
EXTENDS Integers, Sequences, FiniteSets

CONSTANTS Threads, Texts,
          CacheSize,            \* settings.embedding_cache_size; 0 turns it off
          MaxTexts,             \* bound: texts of one call
          MaxCalls,             \* bound: calls altogether
          Faults,               \* what the service may do: "error", "uneven"
          Missing,              \* resolved[index] is None
          Nobody                \* the lock is free

ASSUME EmbeddingCacheAssumption ==
  /\ CacheSize \in Nat /\ MaxTexts \in Nat \ {0} /\ MaxCalls \in Nat
  /\ Faults \subseteq {"error", "uneven"}
  /\ Missing \notin Texts /\ Nobody \notin Threads

VARIABLES
  cache,        \* _embedding_cache, oldest entry first
  lock,         \* who holds _embedding_cache_lock
  pc,           \* where each thread is
  texts,        \* the argument of its call
  index,        \* the local variable of that name, in the look-up
  resolved,     \* the local variable of that name: vectors, Missing for None
  missing,      \* missing_indices, less those that zip has had
  answers,      \* response.data, less those that zip has had
  calls,        \* calls begun (the bound)
  uses,         \* history: the keys hit or stored, each once, latest last
  suspect,      \* history: texts given a vector by a call that zip fails
  failures      \* history: calls that zip failed since the last eviction

locals == <<texts, index, resolved, missing, answers>>
history == <<uses, suspect, failures>>
vars == <<cache, lock, pc, locals, calls, history>>

Entry == [key : Texts, vector : Texts]

Keys(entries) == [i \in DOMAIN entries |-> entries[i].key]

Init ==
  /\ cache = << >>
  /\ lock = Nobody
  /\ pc = [t \in Threads |-> "idle"]
  /\ texts = [t \in Threads |-> << >>]
  /\ index = [t \in Threads |-> 1]
  /\ resolved = [t \in Threads |-> << >>]
  /\ missing = [t \in Threads |-> << >>]
  /\ answers = [t \in Threads |-> << >>]
  /\ calls = 0
  /\ uses = << >> /\ suspect = {} /\ failures = 0
-----------------------------------------------------------------------------
Has(keys, k) == \E i \in DOMAIN keys : keys[i] = k

IndexOf(keys, k) == CHOOSE i \in DOMAIN keys : keys[i] = k

IsCached(entries, k) == Has(Keys(entries), k)

\* The element at i leaves its place and e is the last.
MovedToEnd(s, i, e) ==
  [j \in DOMAIN s |-> IF j < i THEN s[j] ELSE IF j < Len(s) THEN s[j + 1] ELSE e]

\* _embedding_cache[k] = v; _embedding_cache.move_to_end(k)
Put(entries, e) ==
  IF IsCached(entries, e.key) THEN MovedToEnd(entries, IndexOf(Keys(entries), e.key), e)
                              ELSE Append(entries, e)

\* Using k once more makes it the last of the keys used.
Used(keys, k) ==
  IF Has(keys, k) THEN MovedToEnd(keys, IndexOf(keys, k), k) ELSE Append(keys, k)

EntryOf(entries, k) == entries[IndexOf(Keys(entries), k)]

\* A plausible slip: a hit leaves the entry where it is.
TouchNothing(entries, k) == entries

\* move_to_end(k) of an entry that is there
Touch(entries, k) == Put(entries, EntryOf(entries, k))

\* A plausible slip: "if" for "while", one entry goes per call.
EvictedOnce(entries) == IF Len(entries) > CacheSize THEN Tail(entries) ELSE entries

\* popitem(last=False) while the cache is too long.
Evicted(entries) ==
  IF Len(entries) > CacheSize
  THEN SubSeq(entries, Len(entries) - CacheSize + 1, Len(entries))
  ELSE entries

Goto(t, from, to) ==
  /\ pc[t] = from
  /\ pc' = [pc EXCEPT ![t] = to]

TakeLock(t) == lock = Nobody /\ lock' = t

\* embed_texts returns or raises, and its local variables are gone.
Leave(t, from) ==
  /\ Goto(t, from, "idle")
  /\ texts' = [texts EXCEPT ![t] = << >>]
  /\ index' = [index EXCEPT ![t] = 1]
  /\ resolved' = [resolved EXCEPT ![t] = << >>]
  /\ missing' = [missing EXCEPT ![t] = << >>]
  /\ answers' = [answers EXCEPT ![t] = << >>]

Call(t) ==
  /\ Goto(t, "idle", "lookup")
  /\ calls < MaxCalls
  /\ calls' = calls + 1
  /\ \E n \in 1..MaxTexts : \E ts \in [1..n -> Texts] :
       /\ texts' = [texts EXCEPT ![t] = ts]
       /\ resolved' = [resolved EXCEPT ![t] = [i \in 1..n |-> Missing]]
  /\ UNCHANGED <<cache, lock, index, missing, answers, history>>

EnterLookup(t) ==
  /\ Goto(t, "lookup", "looking")
  /\ TakeLock(t)
  /\ UNCHANGED <<cache, locals, calls, history>>

\* _embedding_cache.get of the next key
Lookup(t) ==
  /\ pc[t] = "looking" /\ index[t] \in DOMAIN texts[t]
  /\ LET k == texts[t][index[t]] IN
       \/ /\ IsCached(cache, k)
          /\ cache' = Touch(cache, k)
          /\ uses' = Used(uses, k)
          /\ resolved' = [resolved EXCEPT ![t][index[t]] = EntryOf(cache, k).vector]
          /\ UNCHANGED missing
       \/ /\ ~IsCached(cache, k)
          /\ missing' = [missing EXCEPT ![t] = Append(@, index[t])]
          /\ UNCHANGED <<cache, uses, resolved>>
  /\ index' = [index EXCEPT ![t] = @ + 1]
  /\ UNCHANGED <<lock, pc, texts, answers, calls, suspect, failures>>

EndLookup(t) ==
  /\ index[t] \notin DOMAIN texts[t]
  /\ Goto(t, "looking", IF missing[t] = << >> THEN "return" ELSE "request")
  /\ lock' = Nobody
  /\ UNCHANGED <<cache, locals, calls, history>>

\* client.embeddings.create raises, and so does embed_texts.
ServiceError(t) ==
  /\ "error" \in Faults
  /\ Leave(t, "request")
  /\ UNCHANGED <<cache, lock, calls, history>>

\* missing_texts
Sent(t) == [n \in DOMAIN missing[t] |-> texts[t][missing[t][n]]]

\* The answers of another length than what was sent: some vectors of the texts
\* sent, whichever is left out or repeated (one too many stands for more).
UnevenAnswers(sent) ==
  UNION {[1..n -> {sent[i] : i \in DOMAIN sent}] : n \in (0..Len(sent) + 1) \ {Len(sent)}}

\* The service answers with the vector of every text it was sent, or unevenly.
Response(t) ==
  /\ Goto(t, "request", "store")
  /\ \/ answers' = [answers EXCEPT ![t] = Sent(t)]
     \/ /\ "uneven" \in Faults
        /\ \E data \in UnevenAnswers(Sent(t)) : answers' = [answers EXCEPT ![t] = data]
  /\ UNCHANGED <<cache, lock, texts, index, resolved, missing, calls, history>>

EnterStore(t) ==
  /\ Goto(t, "store", "storing")
  /\ TakeLock(t)
  /\ UNCHANGED <<cache, locals, calls, history>>

\* A plausible slip: index is what the look-up's loop left in it.
FiledUnderLast(t, i) == texts[t][Len(texts[t])]

\* cache_keys[index]
FiledUnder(t, i) == texts[t][i]

\* zip will raise: what is left of its two arguments differs in length.
Uneven(t) == Len(missing[t]) # Len(answers[t])

\* The next of missing_indices gets the next vector of the response, whatever
\* text that is of.
Store(t) ==
  /\ pc[t] = "storing" /\ missing[t] # << >> /\ answers[t] # << >>
  /\ LET i == Head(missing[t])
         v == Head(answers[t]) IN
       /\ resolved' = [resolved EXCEPT ![t][i] = v]
       /\ suspect' = IF Uneven(t) THEN suspect \cup {texts[t][i]} ELSE suspect
       /\ \/ /\ CacheSize > 0
             /\ cache' = Put(cache, [key |-> FiledUnder(t, i), vector |-> v])
             /\ uses' = Used(uses, FiledUnder(t, i))
          \/ /\ CacheSize = 0
             /\ UNCHANGED <<cache, uses>>
  /\ missing' = [missing EXCEPT ![t] = Tail(@)]
  /\ answers' = [answers EXCEPT ![t] = Tail(@)]
  /\ UNCHANGED <<lock, pc, texts, index, calls, failures>>

\* Indices and answers end together.
EndStore(t) ==
  /\ missing[t] = << >> /\ answers[t] = << >>
  /\ Goto(t, "storing", "return")
  /\ cache' = Evicted(cache)
  /\ failures' = 0
  /\ lock' = Nobody
  /\ UNCHANGED <<locals, calls, uses, suspect>>

\* They do not: zip(strict=True) raises, what was stored stays, and the
\* eviction is not reached.
UnevenStore(t) ==
  /\ (missing[t] = << >>) # (answers[t] = << >>)
  /\ Leave(t, "storing")
  /\ failures' = failures + 1
  /\ lock' = Nobody
  /\ UNCHANGED <<cache, calls, uses, suspect>>

Return(t) ==
  /\ Leave(t, "return")
  /\ UNCHANGED <<cache, lock, calls, history>>

Next ==
  \E t \in Threads :
    \/ Call(t) \/ EnterLookup(t) \/ Lookup(t) \/ EndLookup(t)
    \/ ServiceError(t) \/ Response(t)
    \/ EnterStore(t) \/ Store(t) \/ EndStore(t) \/ UnevenStore(t)
    \/ Return(t)

Spec == Init /\ [][Next]_vars
-----------------------------------------------------------------------------
Labels ==
  {"idle", "lookup", "looking", "request", "store", "storing", "return"}

TypeOK ==
  /\ cache \in Seq(Entry)
  /\ lock \in Threads \cup {Nobody}
  /\ pc \in [Threads -> Labels]
  /\ texts \in [Threads -> Seq(Texts)]
  /\ index \in [Threads -> Nat \ {0}]
  /\ resolved \in [Threads -> Seq(Texts \cup {Missing})]
  /\ missing \in [Threads -> Seq(Nat \ {0})]
  /\ answers \in [Threads -> Seq(Texts)]
  /\ calls \in 0..MaxCalls
  /\ uses \in Seq(Texts) /\ suspect \subseteq Texts /\ failures \in Nat

\* The lock is that of the thread in one of the two sections.
LockIsHeld == \A t \in Threads : pc[t] \in {"looking", "storing"} <=> lock = t

\* An entry has the vector of its key, whichever thread stored it, unless a
\* call whose answer was uneven once stored a vector for that key.
EntriesMatchKeys ==
  \A i \in DOMAIN cache : cache[i].vector = cache[i].key \/ cache[i].key \in suspect

\* So are the vectors found so far those of their texts.
ResolvedMatchTexts ==
  \A t \in Threads :
    /\ Len(resolved[t]) = Len(texts[t])
    /\ \A i \in DOMAIN texts[t] :
         resolved[t][i] \in {Missing, texts[t][i]} \/ texts[t][i] \in suspect

\* embed_texts returns a vector for every text, in order, and it is the text's
\* own, whatever part was cached and whatever other threads did to the cache
\* meanwhile - but not for a text that an uneven answer was once stored for.
EmbeddingsMatchTexts ==
  \A t \in Threads : pc[t] = "return" =>
    /\ Len(resolved[t]) = Len(texts[t])
    /\ \A i \in DOMAIN texts[t] :
         /\ resolved[t][i] # Missing
         /\ resolved[t][i] = texts[t][i] \/ texts[t][i] \in suspect

\* Types, the lock, keys and vectors agree: a vector under a wrong key, and one
\* returned for a wrong text, comes from a call that raised and from no other.
CacheInv ==
  /\ TypeOK
  /\ LockIsHeld /\ EntriesMatchKeys /\ ResolvedMatchTexts /\ EmbeddingsMatchTexts

\* How far docs/THREAT_MODEL.md:30, "The embedding cache is bounded", is true:
\* the cache is over EMBEDDING_CACHE_SIZE by what the thread storing answers
\* adds, and by what calls left in it that zip failed before they evicted, up
\* to the texts of a call each; the next eviction takes all of that away.
ExcessIsOfFailedCalls ==
  LET storing == IF \E t \in Threads : pc[t] = "storing" THEN 1 ELSE 0 IN
    Len(cache) <= CacheSize + MaxTexts * (failures + storing)

\* What is kept is what was used last: the cache holds the latest uses of all
\* threads, in their order, each key once, and it only lost one if it is full.
LatestUsesAreKept ==
  /\ Len(cache) <= Len(uses)
  /\ Keys(cache) = SubSeq(uses, Len(uses) - Len(cache) + 1, Len(uses))
  /\ \A i, j \in DOMAIN uses : uses[i] = uses[j] => i = j
  /\ Len(cache) < Len(uses) => Len(cache) >= CacheSize
=============================================================================
