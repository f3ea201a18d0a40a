------------------------- MODULE EmbeddingCacheProofs -------------------------
(***************************************************************************)
(* Proofs about EmbeddingCache, for any threads, texts, size of the cache  *)
(* and answers of the service.                                             *)
(***************************************************************************)
EXTENDS EmbeddingCache, SequenceTheorems, TLAPS

(* Sequences without repetition, whose elements move to the end. *)

Distinct(s) == \A i, j \in DOMAIN s : s[i] = s[j] => i = j

\* short is the last part of long.
Ends(short, long) ==
  /\ Len(short) <= Len(long)
  /\ \A i \in 1..Len(short) : short[i] = long[Len(long) - Len(short) + i]

LEMMA IndexIsThere ==
  ASSUME NEW keys, NEW k, Has(keys, k)
  PROVE  IndexOf(keys, k) \in DOMAIN keys /\ keys[IndexOf(keys, k)] = k
  BY DEF Has, IndexOf

LEMMA KeysOfEntries ==
  ASSUME NEW entries \in Seq(Entry)
  PROVE  /\ Keys(entries) \in Seq(Texts) /\ Len(Keys(entries)) = Len(entries)
         /\ \A i \in 1..Len(entries) : Keys(entries)[i] = entries[i].key
<1>1. \A i \in 1..Len(entries) : entries[i] \in Entry
  BY ElementOfSeq
<1>2. Keys(entries) = [i \in 1..Len(entries) |-> entries[i].key]
  BY LenProperties DEF Keys
<1>3. Keys(entries) \in [1..Len(entries) -> Texts]
  BY <1>1, <1>2 DEF Entry
<1>4. QED
  BY <1>2, <1>3, SeqDef, LenProperties

LEMMA MovedType ==
  ASSUME NEW S, NEW s \in Seq(S), NEW i \in 1..Len(s), NEW e \in S
  PROVE  /\ MovedToEnd(s, i, e) \in Seq(S) /\ Len(MovedToEnd(s, i, e)) = Len(s)
         /\ \A j \in 1..Len(s) :
              MovedToEnd(s, i, e)[j] =
                IF j < i THEN s[j] ELSE IF j < Len(s) THEN s[j + 1] ELSE e
<1>1. MovedToEnd(s, i, e) =
        [j \in 1..Len(s) |-> IF j < i THEN s[j] ELSE IF j < Len(s) THEN s[j + 1] ELSE e]
  BY LenProperties DEF MovedToEnd
<1>2. \A j \in 1..Len(s) :
        (IF j < i THEN s[j] ELSE IF j < Len(s) THEN s[j + 1] ELSE e) \in S
  BY ElementOfSeq, LenProperties
<1>3. MovedToEnd(s, i, e) \in [1..Len(s) -> S]
  BY <1>1, <1>2
<1>4. QED
  BY <1>1, <1>3, SeqDef, LenProperties

\* What Used does to a sequence that has the key, and to one that has not.
LEMMA UsedAgain ==
  ASSUME NEW S, NEW s \in Seq(S), Distinct(s), NEW a \in 1..Len(s)
  PROVE  /\ Used(s, s[a]) \in Seq(S) /\ Len(Used(s, s[a])) = Len(s)
         /\ \A j \in 1..Len(s) :
              Used(s, s[a])[j] =
                IF j < a THEN s[j] ELSE IF j < Len(s) THEN s[j + 1] ELSE s[a]
<1>1. DOMAIN s = 1..Len(s) /\ s[a] \in S
  BY LenProperties, ElementOfSeq
<1>2. Has(s, s[a])
  BY <1>1 DEF Has
<1>3. IndexOf(s, s[a]) = a
  BY <1>1, <1>2, IndexIsThere DEF Distinct
<1>4. Used(s, s[a]) = MovedToEnd(s, a, s[a])
  BY <1>2, <1>3 DEF Used
<1>5. /\ MovedToEnd(s, a, s[a]) \in Seq(S) /\ Len(MovedToEnd(s, a, s[a])) = Len(s)
      /\ \A j \in 1..Len(s) :
           MovedToEnd(s, a, s[a])[j] =
             IF j < a THEN s[j] ELSE IF j < Len(s) THEN s[j + 1] ELSE s[a]
  BY <1>1, MovedType, ZenonT(30)
<1>6. QED
  BY <1>4, <1>5

LEMMA UsedFirst ==
  ASSUME NEW S, NEW s \in Seq(S), NEW k \in S, ~Has(s, k)
  PROVE  /\ Used(s, k) \in Seq(S) /\ Len(Used(s, k)) = Len(s) + 1
         /\ \A j \in 1..Len(s) : Used(s, k)[j] = s[j]
         /\ Used(s, k)[Len(s) + 1] = k
  BY AppendProperties DEF Used

LEMMA HasPosition ==
  ASSUME NEW S, NEW s \in Seq(S), NEW k, Has(s, k)
  PROVE  \E a \in 1..Len(s) : s[a] = k
  BY LenProperties DEF Has

\* A key that is used once more is there once.
LEMMA UsedStaysDistinct ==
  ASSUME NEW S, NEW s \in Seq(S), NEW k \in S, Distinct(s)
  PROVE  Distinct(Used(s, k))
<1>1. Len(s) \in Nat /\ DOMAIN s = 1..Len(s)
  BY LenProperties
<1> DEFINE u == Used(s, k)
<1>2. CASE Has(s, k)
  <2>1. PICK a \in 1..Len(s) : s[a] = k
    BY <1>2, HasPosition
  <2>2. /\ u \in Seq(S) /\ Len(u) = Len(s)
        /\ \A j \in 1..Len(s) : u[j] = IF j < a THEN s[j] ELSE IF j < Len(s) THEN s[j + 1] ELSE s[a]
    BY <2>1, UsedAgain
  <2> HIDE DEF u
  <2>3. DOMAIN u = 1..Len(s)
    BY <2>2, LenProperties
  <2>4. Distinct(u)
    <3> DEFINE from(x) == IF x < a THEN x ELSE IF x < Len(s) THEN x + 1 ELSE a
    <3> SUFFICES ASSUME NEW i \in 1..Len(s), NEW j \in 1..Len(s), u[i] = u[j] PROVE i = j
      BY <2>3 DEF Distinct
    <3>1. from(i) \in DOMAIN s /\ from(j) \in DOMAIN s
      BY <1>1
    <3>2. u[i] = s[from(i)] /\ u[j] = s[from(j)]
      BY <2>2
    <3>3. from(i) = from(j)
      BY <3>1, <3>2 DEF Distinct
    <3>4. QED
      BY <1>1, <3>3
  <2>5. QED
    BY <2>4 DEF u
<1>3. CASE ~Has(s, k)
  <2>1. /\ u \in Seq(S) /\ Len(u) = Len(s) + 1
        /\ \A j \in 1..Len(s) : u[j] = s[j]
        /\ u[Len(s) + 1] = k
    BY <1>3, UsedFirst
  <2> HIDE DEF u
  <2>2. DOMAIN u = 1..Len(s) + 1
    BY <2>1, LenProperties
  <2>3. \A j \in 1..Len(s) : s[j] # k
    BY <1>1, <1>3 DEF Has
  <2>4. Distinct(u)
    BY <1>1, <2>1, <2>2, <2>3 DEF Distinct
  <2>5. QED
    BY <2>4 DEF u
<1>4. QED
  BY <1>2, <1>3

LEMMA EndOfDistinct ==
  ASSUME NEW S, NEW c \in Seq(S), NEW u \in Seq(S), Distinct(u), Ends(c, u)
  PROVE  Distinct(c) /\ \A k : Has(c, k) => Has(u, k)
<1> DEFINE d == Len(u) - Len(c)
<1>1. /\ Len(u) \in Nat /\ Len(c) \in Nat /\ d \in Nat
      /\ DOMAIN u = 1..Len(u) /\ DOMAIN c = 1..Len(c)
      /\ \A i \in 1..Len(c) : c[i] = u[d + i] /\ d + i \in 1..Len(u)
  BY LenProperties DEF Ends
<1> HIDE DEF d
<1>2. Distinct(c)
  <2> SUFFICES ASSUME NEW i \in 1..Len(c), NEW j \in 1..Len(c), c[i] = c[j] PROVE i = j
    BY <1>1 DEF Distinct
  <2>1. u[d + i] = u[d + j] /\ d + i \in DOMAIN u /\ d + j \in DOMAIN u
    BY <1>1
  <2>2. d + i = d + j
    BY <2>1 DEF Distinct
  <2>3. QED
    BY <1>1, <2>2
<1>3. ASSUME NEW k, NEW i \in 1..Len(c), c[i] = k PROVE Has(u, k)
  BY <1>1, <1>3 DEF Has
<1>4. QED
  BY <1>2, <1>3, HasPosition

\* If the shorter sequence is the end of the longer one it stays so when a key
\* is used: in both, in the longer one only, or in none.
LEMMA UsedKeepsEnds ==
  ASSUME NEW S, NEW c \in Seq(S), NEW u \in Seq(S), NEW k \in S, Distinct(u), Ends(c, u)
  PROVE  /\ Ends(Used(c, k), Used(u, k))
         /\ Has(u, k) /\ ~Has(c, k) => Len(c) < Len(u)
<1> DEFINE d == Len(u) - Len(c)
<1>1. /\ Len(u) \in Nat /\ Len(c) \in Nat /\ d \in Nat
      /\ DOMAIN u = 1..Len(u) /\ DOMAIN c = 1..Len(c)
      /\ \A i \in 1..Len(c) : c[i] = u[d + i] /\ d + i \in 1..Len(u)
  BY LenProperties DEF Ends
<1>2. Distinct(c)
  BY EndOfDistinct
<1>3. CASE Has(c, k)
  <2>1. PICK a \in 1..Len(c) : c[a] = k
    BY <1>3, HasPosition
  <2>2. u[d + a] = k /\ d + a \in 1..Len(u) /\ Has(u, k)
    BY <1>1, <2>1 DEF Has
  <2>3. /\ Len(Used(c, k)) = Len(c)
        /\ \A j \in 1..Len(c) :
             Used(c, k)[j] = IF j < a THEN c[j] ELSE IF j < Len(c) THEN c[j + 1] ELSE c[a]
    BY <1>2, <2>1, UsedAgain
  <2>4. /\ Len(Used(u, k)) = Len(u)
        /\ \A j \in 1..Len(u) :
             Used(u, k)[j] = IF j < d + a THEN u[j] ELSE IF j < Len(u) THEN u[j + 1] ELSE u[d + a]
    BY <2>2, UsedAgain
  <2>5. ASSUME NEW j \in 1..Len(c) PROVE Used(c, k)[j] = Used(u, k)[d + j]
    <3>1. Used(u, k)[d + j] =
            IF d + j < d + a THEN u[d + j] ELSE IF d + j < Len(u) THEN u[d + j + 1] ELSE u[d + a]
      BY <1>1, <2>4
    <3>2. j < Len(c) => j + 1 \in 1..Len(c) /\ c[j + 1] = u[d + (j + 1)] /\ d + (j + 1) = d + j + 1
      BY <1>1
    <3>3. QED
      BY <1>1, <2>1, <2>2, <2>3, <3>1, <3>2
  <2>6. QED
    BY <1>1, <1>3, <2>3, <2>4, <2>5 DEF Ends
<1>4. CASE ~Has(c, k)
  <2>1. /\ Len(Used(c, k)) = Len(c) + 1
        /\ \A j \in 1..Len(c) : Used(c, k)[j] = c[j]
        /\ Used(c, k)[Len(c) + 1] = k
    BY <1>4, UsedFirst
  <2>2. CASE Has(u, k)
    <3>1. PICK b \in 1..Len(u) : u[b] = k
      BY <2>2, HasPosition
    <3>2. b <= d
      <4> SUFFICES ASSUME b > d PROVE FALSE
        BY <1>1, <3>1
      <4>1. b - d \in 1..Len(c) /\ d + (b - d) = b
        BY <1>1, <3>1
      <4>2. QED
        BY <1>1, <1>4, <3>1, <4>1 DEF Has
    <3>3. /\ Len(Used(u, k)) = Len(u)
          /\ \A j \in 1..Len(u) :
               Used(u, k)[j] = IF j < b THEN u[j] ELSE IF j < Len(u) THEN u[j + 1] ELSE u[b]
      BY <3>1, UsedAgain
    <3>4. ASSUME NEW j \in 1..Len(c) + 1 PROVE Used(c, k)[j] = Used(u, k)[(d - 1) + j]
      <4>1. /\ (d - 1) + j \in 1..Len(u) /\ ~((d - 1) + j < b)
            /\ (d - 1) + j < Len(u) <=> j \in 1..Len(c)
        BY <1>1, <3>1, <3>2
      <4>2. CASE j \in 1..Len(c)
        BY <1>1, <2>1, <3>3, <4>1, <4>2
      <4>3. CASE j = Len(c) + 1
        BY <1>1, <2>1, <3>1, <3>3, <4>1, <4>3
      <4>4. QED
        BY <1>1, <4>2, <4>3
    <3>5. QED
      BY <1>1, <2>1, <3>1, <3>2, <3>3, <3>4 DEF Ends
  <2>3. CASE ~Has(u, k)
    <3>1. /\ Len(Used(u, k)) = Len(u) + 1
          /\ \A j \in 1..Len(u) : Used(u, k)[j] = u[j]
          /\ Used(u, k)[Len(u) + 1] = k
      BY <2>3, UsedFirst
    <3>2. ASSUME NEW j \in 1..Len(c) + 1 PROVE Used(c, k)[j] = Used(u, k)[d + j]
      <4>1. CASE j \in 1..Len(c)
        BY <1>1, <2>1, <3>1, <4>1
      <4>2. CASE j = Len(c) + 1
        BY <1>1, <2>1, <3>1, <4>2
      <4>3. QED
        BY <1>1, <4>1, <4>2
    <3>3. QED
      BY <1>1, <2>1, <2>3, <3>1, <3>2 DEF Ends
  <2>4. QED
    BY <2>2, <2>3
<1>5. QED
  BY <1>3, <1>4
\* A suffix is an end.
LEMMA SuffixIsEnd ==
  ASSUME NEW S, NEW c \in Seq(S), NEW u \in Seq(S), Len(c) <= Len(u)
  PROVE  c = SubSeq(u, Len(u) - Len(c) + 1, Len(u)) <=> Ends(c, u)
<1> DEFINE d == Len(u) - Len(c)
           r == SubSeq(u, d + 1, Len(u))
<1>1. Len(u) \in Nat /\ Len(c) \in Nat /\ d \in Nat
  BY LenProperties
<1>2. \A i \in d + 1..Len(u) : u[i] \in S
  BY <1>1, ElementOfSeq
<1>3. /\ r \in Seq(S) /\ Len(r) = Len(c)
      /\ \A i \in 1..Len(c) : r[i] = u[d + i]
  BY <1>1, <1>2, SubSeqProperties
<1> HIDE DEF r
<1>4. c = r <=> Ends(c, u)
  BY <1>1, <1>3, SeqEqual DEF Ends
<1>5. QED
  BY <1>4 DEF r

\* Putting an entry into the cache uses its key.
LEMMA KeysOfPut ==
  ASSUME NEW entries \in Seq(Entry), NEW e \in Entry
  PROVE  Put(entries, e) \in Seq(Entry) /\ Keys(Put(entries, e)) = Used(Keys(entries), e.key)
<1> DEFINE keys == Keys(entries)
           a == IndexOf(keys, e.key)
<1>1. /\ keys \in Seq(Texts) /\ Len(keys) = Len(entries) /\ Len(entries) \in Nat
      /\ \A i \in 1..Len(entries) : keys[i] = entries[i].key
      /\ DOMAIN keys = 1..Len(entries) /\ e.key \in Texts
  BY KeysOfEntries, LenProperties DEF Entry
<1>2. CASE Has(keys, e.key)
  <2>1. a \in 1..Len(entries)
    BY <1>1, <1>2, IndexIsThere
  <2> DEFINE m == MovedToEnd(entries, a, e)
             n == MovedToEnd(keys, a, e.key)
  <2> HIDE DEF keys, a
  <2>2. /\ m \in Seq(Entry) /\ Len(m) = Len(entries)
        /\ \A j \in 1..Len(entries) :
             m[j] = IF j < a THEN entries[j] ELSE IF j < Len(entries) THEN entries[j + 1] ELSE e
    BY <2>1, MovedType
  <2>3. /\ n \in Seq(Texts) /\ Len(n) = Len(entries)
        /\ \A j \in 1..Len(entries) :
             n[j] = IF j < a THEN keys[j] ELSE IF j < Len(entries) THEN keys[j + 1] ELSE e.key
    <3>1. keys \in Seq(Texts) /\ a \in 1..Len(keys) /\ e.key \in Texts
      BY <1>1, <2>1
    <3>2. /\ n \in Seq(Texts) /\ Len(n) = Len(keys)
          /\ \A j \in 1..Len(keys) :
               n[j] = IF j < a THEN keys[j] ELSE IF j < Len(keys) THEN keys[j + 1] ELSE e.key
      BY <3>1, MovedType, ZenonT(30)
    <3>3. QED
      BY <1>1, <3>2
  <2> HIDE DEF m, n
  <2>4. /\ Keys(m) \in Seq(Texts) /\ Len(Keys(m)) = Len(entries)
        /\ \A j \in 1..Len(entries) : Keys(m)[j] = m[j].key
    BY <2>2, KeysOfEntries
  <2>5. ASSUME NEW j \in 1..Len(entries) PROVE Keys(m)[j] = n[j]
    <3>1. j < Len(entries) => keys[j + 1] = entries[j + 1].key
      BY <1>1
    <3>2. QED
      BY <1>1, <2>2, <2>3, <2>4, <3>1
  <2>6. Keys(m) = n
    BY <2>3, <2>4, <2>5, SeqEqual
  <2>7. Put(entries, e) = m /\ Used(keys, e.key) = n
    BY <1>2 DEF Put, Used, IsCached, keys, a, m, n
  <2>8. QED
    BY <2>2, <2>6, <2>7 DEF keys
<1>3. CASE ~Has(keys, e.key)
  <2> DEFINE m == Append(entries, e)
             n == Append(keys, e.key)
  <2> HIDE DEF keys
  <2>1. /\ m \in Seq(Entry) /\ Len(m) = Len(entries) + 1 /\ m[Len(entries) + 1] = e
        /\ \A j \in 1..Len(entries) : m[j] = entries[j]
    BY AppendProperties
  <2>2. /\ n \in Seq(Texts) /\ Len(n) = Len(entries) + 1 /\ n[Len(entries) + 1] = e.key
        /\ \A j \in 1..Len(entries) : n[j] = keys[j]
    BY <1>1, AppendProperties
  <2> HIDE DEF m, n
  <2>3. /\ Keys(m) \in Seq(Texts) /\ Len(Keys(m)) = Len(entries) + 1
        /\ \A j \in 1..Len(entries) + 1 : Keys(m)[j] = m[j].key
    BY <2>1, KeysOfEntries
  <2>4. ASSUME NEW j \in 1..Len(entries) + 1 PROVE Keys(m)[j] = n[j]
    <3>1. CASE j \in 1..Len(entries)
      BY <1>1, <2>1, <2>2, <2>3, <3>1
    <3>2. CASE j = Len(entries) + 1
      BY <2>1, <2>2, <2>3, <3>2
    <3>3. QED
      BY <1>1, <3>1, <3>2
  <2>5. Keys(m) = n
    BY <2>2, <2>3, <2>4, SeqEqual
  <2>6. Put(entries, e) = m /\ Used(keys, e.key) = n
    BY <1>3 DEF Put, Used, IsCached, keys, m, n
  <2>7. QED
    BY <2>1, <2>5, <2>6 DEF keys
<1>4. QED
  BY <1>2, <1>3

Matches(e, doubtful) == e.vector = e.key \/ e.key \in doubtful

\* An entry that is put is right, and so are those that were there.
LEMMA PutKeepsMatching ==
  ASSUME NEW entries \in Seq(Entry), NEW e \in Entry, NEW doubtful,
         Matches(e, doubtful), \A i \in DOMAIN entries : Matches(entries[i], doubtful)
  PROVE  \A i \in DOMAIN Put(entries, e) : Matches(Put(entries, e)[i], doubtful)
<1>1. DOMAIN entries = 1..Len(entries) /\ Len(entries) \in Nat
  BY LenProperties
<1>2. CASE IsCached(entries, e.key)
  <2> DEFINE a == IndexOf(Keys(entries), e.key)
             m == MovedToEnd(entries, a, e)
  <2>1. a \in 1..Len(entries)
    BY <1>1, <1>2, IndexIsThere, KeysOfEntries, LenProperties DEF IsCached
  <2> HIDE DEF a
  <2>2. /\ m \in Seq(Entry) /\ Len(m) = Len(entries)
        /\ \A j \in 1..Len(entries) :
             m[j] = IF j < a THEN entries[j] ELSE IF j < Len(entries) THEN entries[j + 1] ELSE e
    BY <2>1, MovedType
  <2> HIDE DEF m
  <2>3. \A i \in DOMAIN m : Matches(m[i], doubtful)
    BY <1>1, <2>2, LenProperties
  <2>4. QED
    BY <1>2, <2>3 DEF Put, a, m
<1>3. CASE ~IsCached(entries, e.key)
  <2>1. DOMAIN Append(entries, e) = 1..Len(entries) + 1
    BY AppendProperties, LenProperties
  <2>2. QED
    BY <1>1, <1>3, <2>1, AppendProperties DEF Put
<1>4. QED
  BY <1>2, <1>3

\* What is evicted is the beginning.
LEMMA EvictedEnds ==
  ASSUME NEW entries \in Seq(Entry)
  PROVE  /\ Evicted(entries) \in Seq(Entry)
         /\ Len(Evicted(entries)) = IF Len(entries) > CacheSize THEN CacheSize ELSE Len(entries)
         /\ Ends(Evicted(entries), entries)
<1> DEFINE d == Len(entries) - CacheSize
<1>1. Len(entries) \in Nat /\ CacheSize \in Nat
  BY LenProperties, EmbeddingCacheAssumption
<1>2. CASE Len(entries) > CacheSize
  <2>1. \A i \in d + 1..Len(entries) : entries[i] \in Entry
    BY <1>1, <1>2, ElementOfSeq
  <2>2. /\ SubSeq(entries, d + 1, Len(entries)) \in Seq(Entry)
        /\ Len(SubSeq(entries, d + 1, Len(entries))) = CacheSize
        /\ \A i \in 1..CacheSize : SubSeq(entries, d + 1, Len(entries))[i] = entries[d + i]
    BY <1>1, <1>2, <2>1, SubSeqProperties
  <2>3. Evicted(entries) = SubSeq(entries, d + 1, Len(entries))
    BY <1>2 DEF Evicted
  <2>4. QED
    BY <1>1, <1>2, <2>2, <2>3 DEF Ends
<1>3. CASE ~(Len(entries) > CacheSize)
  BY <1>1, <1>3 DEF Evicted, Ends
<1>4. QED
  BY <1>2, <1>3

\* The cache and the history of its uses.
UsesInv ==
  /\ Ends(Keys(cache), uses) /\ Distinct(uses)
  /\ Len(cache) < Len(uses) => Len(cache) >= CacheSize

\* An entry is put and its key used.
LEMMA PutKeepsUses ==
  ASSUME TypeOK, EntriesMatchKeys, UsesInv, NEW k \in Texts, NEW v \in Texts,
         cache' = Put(cache, [key |-> k, vector |-> v]), uses' = Used(uses, k),
         suspect \subseteq suspect', v = k \/ k \in suspect'
  PROVE  /\ cache' \in Seq(Entry) /\ uses' \in Seq(Texts) /\ EntriesMatchKeys' /\ UsesInv'
         /\ Len(cache') = IF IsCached(cache, k) THEN Len(cache) ELSE Len(cache) + 1
<1> DEFINE e == [key |-> k, vector |-> v]
           c == Keys(cache)
<1>1. e \in Entry /\ e.key = k /\ e.vector = v
  BY DEF Entry
<1>2. cache \in Seq(Entry) /\ uses \in Seq(Texts) /\ Len(cache) \in Nat /\ Len(uses) \in Nat
  BY LenProperties DEF TypeOK
<1>3. c \in Seq(Texts) /\ Len(c) = Len(cache)
  BY <1>2, KeysOfEntries
<1>4. cache' \in Seq(Entry) /\ Keys(cache') = Used(c, k)
  BY <1>1, <1>2, KeysOfPut
<1>5. Len(cache') = Len(Used(c, k))
  BY <1>4, KeysOfEntries
<1> HIDE DEF c
<1>6. EntriesMatchKeys'
  <2>1. Matches(e, suspect') /\ \A i \in DOMAIN cache : Matches(cache[i], suspect')
    BY <1>1 DEF EntriesMatchKeys, Matches
  <2>2. \A i \in DOMAIN cache' : Matches(cache'[i], suspect')
    BY <1>1, <1>2, <2>1, PutKeepsMatching
  <2>3. QED
    BY <2>2 DEF EntriesMatchKeys, Matches
<1>7. Distinct(uses) /\ Ends(c, uses)
  BY DEF UsesInv, c
<1>8. uses' \in Seq(Texts) /\ Len(uses') = IF Has(uses, k) THEN Len(uses) ELSE Len(uses) + 1
  <2>1. CASE Has(uses, k)
    BY <1>2, <1>7, <2>1, HasPosition, UsedAgain
  <2>2. CASE ~Has(uses, k)
    BY <1>2, <2>2, UsedFirst
  <2>3. QED
    BY <2>1, <2>2
<1>9. Len(cache') = IF Has(c, k) THEN Len(cache) ELSE Len(cache) + 1
  <2>1. CASE Has(c, k)
    <3>1. Distinct(c)
      BY <1>2, <1>3, <1>7, EndOfDistinct
    <3>2. QED
      BY <1>3, <1>5, <2>1, <3>1, HasPosition, UsedAgain
  <2>2. CASE ~Has(c, k)
    BY <1>3, <1>5, <2>2, UsedFirst
  <2>3. QED
    BY <2>1, <2>2
<1>10. Ends(Used(c, k), uses') /\ (Has(uses, k) /\ ~Has(c, k) => Len(cache) < Len(uses))
  BY <1>2, <1>3, <1>7, UsedKeepsEnds
<1>11. Distinct(uses')
  BY <1>2, <1>7, UsedStaysDistinct
<1>12. Has(c, k) => Has(uses, k)
  BY <1>2, <1>3, <1>7, EndOfDistinct
<1>13. Len(cache') < Len(uses') => Len(cache') >= CacheSize
  BY <1>2, <1>8, <1>9, <1>12, EmbeddingCacheAssumption DEF UsesInv
<1>14. QED
  BY <1>4, <1>6, <1>8, <1>9, <1>10, <1>11, <1>13 DEF UsesInv, IsCached, c

(* The calls. *)

\* The local variables of t: what is not resolved is missing or not looked up
\* yet, and vectors that will be stored without an error are in order.
WorkOf(t) ==
  /\ Len(resolved[t]) = Len(texts[t]) /\ Len(texts[t]) <= MaxTexts
  /\ \A i \in DOMAIN texts[t] :
       /\ resolved[t][i] \in {Missing, texts[t][i]} \/ texts[t][i] \in suspect
       /\ resolved[t][i] = Missing =>
            \/ \E n \in DOMAIN missing[t] : missing[t][n] = i
            \/ pc[t] \in {"lookup", "looking"} /\ i >= index[t]
  /\ \A n \in DOMAIN missing[t] : missing[t][n] \in DOMAIN texts[t]
  /\ Len(missing[t]) <= MaxTexts
  /\ pc[t] \in {"idle", "lookup"} => missing[t] = << >> /\ index[t] = 1
  /\ pc[t] = "looking" => Len(missing[t]) < index[t]
  /\ pc[t] = "return" => missing[t] = << >>
  /\ pc[t] \in {"store", "storing"} /\ Len(answers[t]) = Len(missing[t]) =>
       \A n \in DOMAIN missing[t] : answers[t][n] = texts[t][missing[t][n]]

\* What is over the limit: by the thread storing, and by calls that failed.
SizeInv ==
  /\ (\A t \in Threads : pc[t] # "storing") => Len(cache) <= CacheSize + MaxTexts * failures
  /\ \A t \in Threads : pc[t] = "storing" =>
       Len(cache) + Len(missing[t]) <= CacheSize + MaxTexts * failures + MaxTexts

\* The inductive invariant: calls, entries, uses and size agree.
CallInv ==
  /\ TypeOK /\ LockIsHeld /\ EntriesMatchKeys
  /\ \A t \in Threads : WorkOf(t)
  /\ UsesInv /\ SizeInv

LocalTypes ==
  /\ pc \in [Threads -> Labels]
  /\ texts \in [Threads -> Seq(Texts)]
  /\ index \in [Threads -> Nat \ {0}]
  /\ resolved \in [Threads -> Seq(Texts \cup {Missing})]
  /\ missing \in [Threads -> Seq(Nat \ {0})]
  /\ answers \in [Threads -> Seq(Texts)]

\* A thread that does nothing, whatever becomes suspect meanwhile.
LEMMA WorkStays ==
  ASSUME NEW t \in Threads, WorkOf(t), suspect \subseteq suspect',
         pc'[t] = pc[t], texts'[t] = texts[t], index'[t] = index[t],
         resolved'[t] = resolved[t], missing'[t] = missing[t], answers'[t] = answers[t]
  PROVE  WorkOf(t)'
  BY DEF WorkOf

\* A thread goes on without touching what it found.
LEMMA WorkGoesOn ==
  ASSUME TypeOK, NEW t \in Threads, WorkOf(t), suspect' = suspect,
         NEW to \in Labels, pc'[t] = to, to # "idle",
         UNCHANGED <<texts, index, resolved, missing, answers>>,
         to = "lookup" => pc[t] = "lookup",
         to = "looking" => pc[t] = "lookup",
         pc[t] \in {"lookup", "looking"} =>
           to \in {"lookup", "looking"} \/ index[t] \notin DOMAIN texts[t],
         to \in {"store", "storing"} => pc[t] \in {"store", "storing"},
         to = "return" => missing[t] = << >>
  PROVE  WorkOf(t)'
<1>1. /\ texts[t] \in Seq(Texts) /\ DOMAIN texts[t] = 1..Len(texts[t]) /\ Len(texts[t]) \in Nat
      /\ index[t] \in Nat \ {0} /\ Len(<< >>) = 0
  BY LenProperties DEF TypeOK
<1>2. to = "looking" => Len(missing[t]) < index[t]
  BY <1>1 DEF WorkOf
<1>3. ASSUME to \notin {"lookup", "looking"}, pc[t] \in {"lookup", "looking"},
             NEW i \in DOMAIN texts[t]
      PROVE  ~(i >= index[t])
  BY <1>1, <1>3
<1>4. \A i \in DOMAIN texts[t] : resolved[t][i] = Missing =>
        \/ \E n \in DOMAIN missing[t] : missing[t][n] = i
        \/ to \in {"lookup", "looking"} /\ i >= index[t]
  BY <1>3 DEF WorkOf
<1>5. QED
  BY <1>2, <1>4 DEF WorkOf

\* A call that leaves forgets all of it.
LEMMA LeaveKeepsWork ==
  ASSUME TypeOK, \A u \in Threads : WorkOf(u), NEW t \in Threads, NEW from, Leave(t, from),
         suspect' = suspect
  PROVE  LocalTypes' /\ \A u \in Threads : WorkOf(u)'
<1> USE DEF Leave, Goto
<1>1. /\ << >> \in Seq(Texts) /\ << >> \in Seq(Texts \cup {Missing}) /\ << >> \in Seq(Nat \ {0})
      /\ Len(<< >>) = 0 /\ DOMAIN << >> = {}
  OBVIOUS
<1>2. LocalTypes'
  <2>1. /\ pc' \in [Threads -> Labels]
        /\ index' \in [Threads -> Nat \ {0}]
    BY DEF TypeOK, Labels
  <2>2. /\ texts' \in [Threads -> Seq(Texts)]
        /\ answers' \in [Threads -> Seq(Texts)]
    BY <1>1 DEF TypeOK
  <2>3. resolved' \in [Threads -> Seq(Texts \cup {Missing})]
    BY <1>1 DEF TypeOK
  <2>4. missing' \in [Threads -> Seq(Nat \ {0})]
    BY <1>1 DEF TypeOK
  <2>5. QED
    BY <2>1, <2>2, <2>3, <2>4 DEF LocalTypes
<1>3. ASSUME NEW u \in Threads PROVE WorkOf(u)'
  <2>1. CASE u = t
    <3>1. /\ pc'[t] = "idle" /\ texts'[t] = << >> /\ index'[t] = 1 /\ resolved'[t] = << >>
          /\ missing'[t] = << >> /\ answers'[t] = << >>
      BY DEF TypeOK
    <3>2. QED
      BY <1>1, <2>1, <3>1, EmbeddingCacheAssumption DEF WorkOf
  <2>2. CASE u # t
    BY <2>2, WorkStays DEF TypeOK
  <2>3. QED
    BY <2>1, <2>2
<1>4. QED
  BY <1>2, <1>3

(* The steps. *)

LEMMA CallKeepsInv == ASSUME CallInv, NEW t \in Threads, Call(t) PROVE CallInv'
<1> USE DEF CallInv, Call, Goto, history
<1>0. PICK n \in 1..MaxTexts : \E ts \in [1..n -> Texts] :
        /\ texts' = [texts EXCEPT ![t] = ts]
        /\ resolved' = [resolved EXCEPT ![t] = [i \in 1..n |-> Missing]]
  OBVIOUS
<1>1. PICK ts \in [1..n -> Texts] :
        /\ texts' = [texts EXCEPT ![t] = ts]
        /\ resolved' = [resolved EXCEPT ![t] = [i \in 1..n |-> Missing]]
  BY <1>0
<1> DEFINE none == [i \in 1..n |-> Missing]
<1>2. n \in Nat /\ n <= MaxTexts /\ MaxCalls \in Nat
  BY EmbeddingCacheAssumption
<1>3. /\ ts \in Seq(Texts) /\ Len(ts) = n /\ DOMAIN ts = 1..n
      /\ none \in Seq(Texts \cup {Missing}) /\ Len(none) = n
      /\ \A i \in 1..n : none[i] = Missing
  BY <1>2, SeqDef, LenProperties
<1> HIDE DEF none
<1>4. texts' = [texts EXCEPT ![t] = ts] /\ resolved' = [resolved EXCEPT ![t] = none]
  BY <1>1 DEF none
<1>5. TypeOK'
  BY <1>2, <1>3, <1>4, SMTT(30) DEF TypeOK, Labels
<1>6. LockIsHeld'
  BY DEF LockIsHeld, TypeOK
<1>7. EntriesMatchKeys' /\ UsesInv'
  BY DEF EntriesMatchKeys, UsesInv, Keys
<1>8. ASSUME NEW u \in Threads PROVE WorkOf(u)'
  <2>1. CASE u = t
    <3>1. /\ pc[t] = "idle" /\ pc'[t] = "lookup" /\ texts'[t] = ts /\ resolved'[t] = none
          /\ index' = index /\ missing' = missing /\ answers' = answers
      BY <1>4 DEF TypeOK
    <3>2. missing[t] = << >> /\ index[t] = 1
      BY <3>1 DEF WorkOf
    <3>3. Len(<< >>) = 0 /\ DOMAIN << >> = {}
      OBVIOUS
    <3>4. QED
      BY <1>2, <1>3, <2>1, <3>1, <3>2, <3>3, EmbeddingCacheAssumption DEF WorkOf
  <2>2. CASE u # t
    BY <1>4, <2>2, WorkStays DEF TypeOK
  <2>3. QED
    BY <2>1, <2>2
<1>9. SizeInv'
  BY DEF SizeInv, TypeOK
<1>10. QED
  BY <1>5, <1>6, <1>7, <1>8, <1>9

\* A step that leaves the cache, the locals and the history to them.
LEMMA FlowKeepsInv ==
  ASSUME CallInv, NEW t \in Threads,
         UNCHANGED <<cache, texts, index, resolved, missing, calls, uses, suspect, failures>>,
         NEW to \in Labels, pc' = [pc EXCEPT ![t] = to], answers' \in [Threads -> Seq(Texts)],
         \/ lock' = lock /\ (pc[t] \in {"looking", "storing"} <=> to \in {"looking", "storing"})
         \/ lock = Nobody /\ lock' = t /\ to \in {"looking", "storing"}
         \/ lock = t /\ lock' = Nobody /\ to \notin {"looking", "storing"},
         \A u \in Threads : WorkOf(u)', SizeInv'
  PROVE  CallInv'
<1> USE DEF CallInv
<1>1. TypeOK'
  BY DEF TypeOK
<1>2. LockIsHeld'
  BY EmbeddingCacheAssumption DEF LockIsHeld, TypeOK
<1>3. EntriesMatchKeys' /\ UsesInv'
  BY DEF EntriesMatchKeys, UsesInv, Keys
<1>4. QED
  BY <1>1, <1>2, <1>3

LEMMA EnterLookupKeepsInv == ASSUME CallInv, NEW t \in Threads, EnterLookup(t) PROVE CallInv'
<1> USE DEF EnterLookup, Goto, TakeLock, locals, history
<1>1. "looking" \in Labels
  BY DEF Labels
<1>2. \A u \in Threads : WorkOf(u)'
  BY <1>1, WorkGoesOn, WorkStays DEF CallInv, TypeOK
<1>3. SizeInv'
  BY DEF CallInv, SizeInv, TypeOK
<1>4. answers' \in [Threads -> Seq(Texts)]
  BY DEF CallInv, TypeOK
<1>5. QED
  BY <1>1, <1>2, <1>3, <1>4, FlowKeepsInv

LEMMA EndLookupKeepsInv == ASSUME CallInv, NEW t \in Threads, EndLookup(t) PROVE CallInv'
<1> USE DEF EndLookup, Goto, locals, history
<1> DEFINE to == IF missing[t] = << >> THEN "return" ELSE "request"
<1>1. /\ to \in Labels /\ to \notin {"looking", "storing", "lookup", "store", "idle"}
      /\ (to = "return" => missing[t] = << >>) /\ pc' = [pc EXCEPT ![t] = to]
  BY DEF Labels
<1> HIDE DEF to
<1>2. \A u \in Threads : WorkOf(u)'
  BY <1>1, WorkGoesOn, WorkStays DEF CallInv, TypeOK
<1>3. SizeInv'
  BY <1>1 DEF CallInv, SizeInv, TypeOK
<1>4. answers' \in [Threads -> Seq(Texts)] /\ lock = t
  BY DEF CallInv, TypeOK, LockIsHeld
<1>5. QED
  BY <1>1, <1>2, <1>3, <1>4, FlowKeepsInv

\* What the service answers are texts, in order if none is left out or too many.
LEMMA ResponseKeepsInv == ASSUME CallInv, NEW t \in Threads, Response(t) PROVE CallInv'
<1> USE DEF Goto, history
<1> DEFINE m == missing[t]
           sent == Sent(t)
<1>1. /\ pc' = [pc EXCEPT ![t] = "store"] /\ pc[t] = "request" /\ lock' = lock
      /\ UNCHANGED <<cache, texts, index, resolved, missing, calls, uses, suspect, failures>>
      /\ \/ answers' = [answers EXCEPT ![t] = sent]
         \/ \E data \in UnevenAnswers(sent) : answers' = [answers EXCEPT ![t] = data]
  BY DEF Response
<1>2. /\ m \in Seq(Nat \ {0}) /\ DOMAIN m = 1..Len(m) /\ Len(m) \in Nat
      /\ texts[t] \in Seq(Texts) /\ DOMAIN texts[t] = 1..Len(texts[t])
      /\ \A n \in DOMAIN m : m[n] \in DOMAIN texts[t]
  BY LenProperties DEF CallInv, TypeOK, WorkOf
<1>3. \A n \in 1..Len(m) : texts[t][m[n]] \in Texts
  BY <1>2, ElementOfSeq
<1>4. sent = [n \in 1..Len(m) |-> texts[t][m[n]]]
  BY <1>2 DEF Sent
<1>5. /\ sent \in Seq(Texts) /\ Len(sent) = Len(m) /\ DOMAIN sent = 1..Len(m)
      /\ \A n \in 1..Len(m) : sent[n] = texts[t][m[n]] /\ sent[n] \in Texts
  <2>1. sent \in [1..Len(m) -> Texts]
    BY <1>3, <1>4
  <2>2. QED
    BY <1>2, <1>3, <1>4, <2>1, SeqDef, LenProperties
<1> HIDE DEF sent
<1>6. PICK data : /\ answers' = [answers EXCEPT ![t] = data] /\ data \in Seq(Texts)
                  /\ Len(data) = Len(m) => data = sent
  <2>1. CASE answers' = [answers EXCEPT ![t] = sent]
    BY <1>5, <2>1
  <2>2. CASE \E data \in UnevenAnswers(sent) : answers' = [answers EXCEPT ![t] = data]
    <3>1. PICK data \in UnevenAnswers(sent) : answers' = [answers EXCEPT ![t] = data]
      BY <2>2
    <3>2. PICK n \in (0..Len(sent) + 1) \ {Len(sent)} :
            data \in [1..n -> {sent[i] : i \in DOMAIN sent}]
      BY <3>1 DEF UnevenAnswers
    <3>3. {sent[i] : i \in DOMAIN sent} \subseteq Texts /\ n \in Nat /\ n # Len(m)
      BY <1>2, <1>5, <3>2
    <3>4. data \in [1..n -> Texts]
      BY <3>2, <3>3
    <3>5. data \in Seq(Texts) /\ Len(data) = n
      BY <3>3, <3>4, SeqDef, LenProperties
    <3>6. QED
      BY <3>1, <3>3, <3>5
  <2>3. QED
    BY <1>1, <2>1, <2>2
<1>7. answers' \in [Threads -> Seq(Texts)] /\ "store" \in Labels
  BY <1>6 DEF CallInv, TypeOK, Labels
<1>8. ASSUME NEW u \in Threads PROVE WorkOf(u)'
  <2>1. CASE u = t
    <3>1. answers'[t] = data /\ pc'[t] = "store"
      BY <1>1, <1>6 DEF CallInv, TypeOK
    <3>2. Len(data) = Len(m) => \A n \in DOMAIN m : data[n] = texts[t][m[n]]
      BY <1>2, <1>5, <1>6
    <3>3. WorkOf(t)
      BY DEF CallInv
    <3>4. QED
      BY <1>1, <2>1, <3>1, <3>2, <3>3 DEF WorkOf
  <2>2. CASE u # t
    BY <1>1, <1>6, <2>2, WorkStays DEF CallInv, TypeOK
  <2>3. QED
    BY <2>1, <2>2
<1>9. SizeInv'
  BY <1>1 DEF CallInv, SizeInv, TypeOK
<1>10. QED
  BY <1>1, <1>7, <1>8, <1>9, FlowKeepsInv

\* Who begins to store finds nobody storing.
LEMMA EnterStoreKeepsInv == ASSUME CallInv, NEW t \in Threads, EnterStore(t) PROVE CallInv'
<1> USE DEF EnterStore, Goto, TakeLock, locals, history
<1>1. "storing" \in Labels
  BY DEF Labels
<1>2. \A u \in Threads : WorkOf(u)'
  BY <1>1, WorkGoesOn, WorkStays DEF CallInv, TypeOK
<1>3. answers' \in [Threads -> Seq(Texts)]
  BY DEF CallInv, TypeOK
<1>4. SizeInv'
  <2>1. \A u \in Threads : pc[u] # "storing"
    BY EmbeddingCacheAssumption DEF CallInv, LockIsHeld
  <2> DEFINE left == MaxTexts * failures
  <2>2. Len(cache) <= CacheSize + left /\ Len(missing[t]) <= MaxTexts
    BY <2>1 DEF CallInv, SizeInv, WorkOf
  <2>3. /\ cache \in Seq(Entry) /\ missing[t] \in Seq(Nat \ {0})
        /\ failures \in Nat /\ MaxTexts \in Nat /\ CacheSize \in Nat
    BY EmbeddingCacheAssumption DEF CallInv, TypeOK
  <2>4. Len(cache) \in Nat /\ Len(missing[t]) \in Nat
    BY <2>3, LenProperties
  <2>5. left \in Nat
    BY <2>3
  <2> HIDE DEF left
  <2>6. Len(cache) + Len(missing[t]) <= CacheSize + left + MaxTexts
    BY <2>2, <2>3, <2>4, <2>5
  <2>7. \A u \in Threads : pc'[u] = "storing" <=> u = t
    BY <2>1 DEF CallInv, TypeOK
  <2>8. QED
    BY <2>6, <2>7 DEF SizeInv, left
<1>5. QED
  BY <1>1, <1>2, <1>3, <1>4, FlowKeepsInv

\* The call ends without storing: the service raises, or all is done.
LEMMA LeaveKeepsInv ==
  ASSUME CallInv, NEW t \in Threads, ServiceError(t) \/ Return(t) PROVE CallInv'
<1> USE DEF CallInv, history
<1>1. PICK from \in {"request", "return"} : Leave(t, from)
  BY DEF ServiceError, Return
<1>2. UNCHANGED <<cache, lock, calls, uses, suspect, failures>>
  BY DEF ServiceError, Return
<1>3. LocalTypes' /\ \A u \in Threads : WorkOf(u)'
  BY <1>1, <1>2, LeaveKeepsWork
<1>4. pc[t] = from /\ pc' = [pc EXCEPT ![t] = "idle"] /\ missing' = [missing EXCEPT ![t] = << >>]
  BY <1>1 DEF Leave, Goto
<1>5. TypeOK'
  BY <1>2, <1>3 DEF TypeOK, LocalTypes
<1>6. LockIsHeld'
  BY <1>2, <1>4 DEF LockIsHeld, TypeOK
<1>7. EntriesMatchKeys' /\ UsesInv'
  BY <1>2 DEF EntriesMatchKeys, UsesInv, Keys
<1>8. SizeInv'
  BY <1>2, <1>4 DEF SizeInv, TypeOK
<1>9. QED
  BY <1>3, <1>5, <1>6, <1>7, <1>8

\* What zip left in the cache counts as of one more call that failed.
LEMMA UnevenStoreKeepsInv == ASSUME CallInv, NEW t \in Threads, UnevenStore(t) PROVE CallInv'
<1> USE DEF CallInv
<1>1. /\ Leave(t, "storing") /\ failures' = failures + 1 /\ lock' = Nobody
      /\ UNCHANGED <<cache, calls, uses, suspect>>
  BY DEF UnevenStore
<1>2. LocalTypes' /\ \A u \in Threads : WorkOf(u)'
  BY <1>1, LeaveKeepsWork
<1>3. pc[t] = "storing" /\ pc' = [pc EXCEPT ![t] = "idle"]
  BY <1>1 DEF Leave, Goto
<1>4. TypeOK'
  <2>1. failures' \in Nat
    BY <1>1 DEF TypeOK
  <2>2. lock' \in Threads \cup {Nobody} /\ UNCHANGED <<cache, calls, uses, suspect>>
    BY <1>1
  <2>3. QED
    BY <1>2, <2>1, <2>2 DEF TypeOK, LocalTypes
<1>5. LockIsHeld'
  BY <1>1, <1>3, EmbeddingCacheAssumption DEF LockIsHeld, TypeOK
<1>6. EntriesMatchKeys' /\ UsesInv'
  BY <1>1 DEF EntriesMatchKeys, UsesInv, Keys
<1>7. SizeInv'
  <2>1. \A u \in Threads : pc'[u] # "storing"
    BY <1>3 DEF LockIsHeld, TypeOK
  <2>2. Len(cache) + Len(missing[t]) <= CacheSize + MaxTexts * failures + MaxTexts
    BY <1>3 DEF SizeInv
  <2>3. /\ cache \in Seq(Entry) /\ missing[t] \in Seq(Nat \ {0})
        /\ failures \in Nat /\ MaxTexts \in Nat /\ CacheSize \in Nat
    BY EmbeddingCacheAssumption DEF TypeOK
  <2>4. Len(cache) \in Nat /\ Len(missing[t]) \in Nat
    BY <2>3, LenProperties
  <2>5. MaxTexts * (failures + 1) = MaxTexts * failures + MaxTexts /\ MaxTexts * failures \in Nat
    BY <2>3
  <2>6. Len(cache) <= CacheSize + MaxTexts * (failures + 1)
    BY <2>2, <2>3, <2>4, <2>5
  <2>7. QED
    BY <1>1, <2>1, <2>6 DEF SizeInv
<1>8. QED
  BY <1>2, <1>4, <1>5, <1>6, <1>7

\* A hit copies what the entry has, and a miss is noted.
LEMMA LookupKeepsInv == ASSUME CallInv, NEW t \in Threads, Lookup(t) PROVE CallInv'
<1> USE DEF CallInv
<1> DEFINE i == index[t]
           k == texts[t][i]
           a == IndexOf(Keys(cache), k)
<1>1. /\ pc[t] = "looking" /\ i \in DOMAIN texts[t] /\ index' = [index EXCEPT ![t] = i + 1]
      /\ UNCHANGED <<lock, pc, texts, answers, calls, suspect, failures>>
  BY DEF Lookup
<1>2. /\ texts[t] \in Seq(Texts) /\ k \in Texts /\ i \in Nat \ {0}
      /\ DOMAIN texts[t] = 1..Len(texts[t]) /\ Len(texts[t]) \in Nat
  BY <1>1, ElementOfSeq, LenProperties DEF TypeOK
<1>3. index' \in [Threads -> Nat \ {0}] /\ index'[t] = i + 1
  BY <1>1, <1>2, SMTT(30) DEF TypeOK
<1>4. LockIsHeld'
  BY <1>1 DEF LockIsHeld
<1>5. /\ missing[t] \in Seq(Nat \ {0}) /\ DOMAIN missing[t] = 1..Len(missing[t])
      /\ Len(missing[t]) \in Nat /\ Len(missing[t]) < i
      /\ resolved[t] \in Seq(Texts \cup {Missing}) /\ Len(resolved[t]) = Len(texts[t])
  BY <1>1, LenProperties DEF TypeOK, WorkOf
<1>6. CASE /\ ~IsCached(cache, k) /\ missing' = [missing EXCEPT ![t] = Append(@, i)]
           /\ UNCHANGED <<cache, uses, resolved>>
  <2> DEFINE m == Append(missing[t], i)
  <2>1. /\ m \in Seq(Nat \ {0}) /\ Len(m) = Len(missing[t]) + 1
        /\ DOMAIN m = 1..Len(missing[t]) + 1
        /\ \A n \in 1..Len(missing[t]) : m[n] = missing[t][n]
        /\ m[Len(missing[t]) + 1] = i
    BY <1>2, <1>5, AppendProperties, LenProperties
  <2> HIDE DEF m
  <2>2. missing' = [missing EXCEPT ![t] = m]
    BY <1>6 DEF m
  <2>3. TypeOK'
    BY <1>1, <1>3, <1>6, <2>1, <2>2, ZenonT(30) DEF TypeOK
  <2>4. ASSUME NEW u \in Threads PROVE WorkOf(u)'
    <3>1. CASE u = t
      <4>1. missing'[t] = m
        BY <2>2 DEF TypeOK
      <4>2. \A j \in DOMAIN texts[t] : resolved[t][j] = Missing =>
              (\E n \in DOMAIN m : m[n] = j) \/ j >= i + 1
        <5> SUFFICES ASSUME NEW j \in DOMAIN texts[t], resolved[t][j] = Missing, ~(j >= i + 1)
                     PROVE  \E n \in DOMAIN m : m[n] = j
          OBVIOUS
        <5>1. CASE j = i
          BY <1>5, <2>1, <5>1
        <5>2. CASE j # i
          <6>1. \E n \in DOMAIN missing[t] : missing[t][n] = j
            BY <1>1, <1>2, <5>2 DEF WorkOf
          <6>2. QED
            BY <1>5, <2>1, <6>1
        <5>3. QED
          BY <5>1, <5>2
      <4>3. ASSUME NEW n \in DOMAIN m PROVE m[n] \in DOMAIN texts[t]
        <5>1. \A o \in DOMAIN missing[t] : missing[t][o] \in DOMAIN texts[t]
          BY DEF WorkOf
        <5>2. CASE n \in 1..Len(missing[t])
          BY <1>5, <2>1, <5>1, <5>2
        <5>3. CASE n = Len(missing[t]) + 1
          BY <1>1, <2>1, <5>3
        <5>4. QED
          BY <1>5, <2>1, <5>2, <5>3
      <4>4. Len(m) < i + 1 /\ Len(m) <= MaxTexts
        <5>1. Len(texts[t]) <= MaxTexts /\ MaxTexts \in Nat
          BY EmbeddingCacheAssumption DEF WorkOf
        <5>2. QED
          BY <1>1, <1>2, <1>5, <2>1, <5>1
      <4>5. /\ Len(resolved[t]) = Len(texts[t]) /\ Len(texts[t]) <= MaxTexts
            /\ \A j \in DOMAIN texts[t] :
                 resolved[t][j] \in {Missing, texts[t][j]} \/ texts[t][j] \in suspect
        BY DEF WorkOf
      <4>6. pc'[t] = "looking" /\ UNCHANGED <<texts, resolved, suspect>>
        BY <1>1, <1>6
      <4>7. WorkOf(t)'
        BY <1>3, <4>1, <4>2, <4>3, <4>4, <4>5, <4>6 DEF WorkOf
      <4>8. QED
        BY <3>1, <4>7
    <3>2. CASE u # t
      BY <1>1, <1>6, <2>2, <3>2, WorkStays DEF TypeOK
    <3>3. QED
      BY <3>1, <3>2
  <2>5. EntriesMatchKeys' /\ UsesInv'
    BY <1>1, <1>6 DEF EntriesMatchKeys, UsesInv, Keys
  <2>6. SizeInv'
    BY <1>1, <1>6, <2>2 DEF SizeInv, TypeOK
  <2>7. QED
    BY <1>4, <2>3, <2>4, <2>5, <2>6
<1>7. CASE /\ IsCached(cache, k) /\ cache' = Touch(cache, k) /\ uses' = Used(uses, k)
           /\ resolved' = [resolved EXCEPT ![t][i] = EntryOf(cache, k).vector]
           /\ UNCHANGED missing
  <2>1. cache \in Seq(Entry) /\ DOMAIN cache = 1..Len(cache)
    BY LenProperties DEF TypeOK
  <2>2. a \in DOMAIN cache /\ Keys(cache)[a] = k
    BY <1>7, <2>1, IndexIsThere, KeysOfEntries, LenProperties DEF IsCached
  <2>3. EntryOf(cache, k) = cache[a]
    BY DEF EntryOf
  <2> DEFINE v == cache[a].vector
  <2> HIDE DEF a, k
  <2>4. /\ cache[a] \in Entry /\ cache[a].key = k
        /\ cache[a].vector = k \/ k \in suspect
    BY <2>1, <2>2, KeysOfEntries, ElementOfSeq DEF EntriesMatchKeys
  <2>5. v \in Texts /\ (v = k \/ k \in suspect) /\ cache[a] = [key |-> k, vector |-> v]
    BY <2>4 DEF Entry
  <2>6. /\ cache' = Put(cache, [key |-> k, vector |-> v])
        /\ resolved' = [resolved EXCEPT ![t][i] = v]
    BY <1>7, <2>3, <2>5 DEF Touch
  <2> HIDE DEF v
  <2>7. /\ cache' \in Seq(Entry) /\ uses' \in Seq(Texts) /\ EntriesMatchKeys' /\ UsesInv'
        /\ Len(cache') = Len(cache)
    BY <1>1, <1>2, <1>7, <2>5, <2>6, PutKeepsUses
  <2> DEFINE r == [resolved[t] EXCEPT ![i] = v]
  <2>8. /\ r \in Seq(Texts \cup {Missing}) /\ Len(r) = Len(resolved[t])
        /\ \A j \in 1..Len(resolved[t]) : r[j] = IF j = i THEN v ELSE resolved[t][j]
    BY <1>1, <1>2, <1>5, <2>5, ExceptSeq
  <2> HIDE DEF r
  <2>9. resolved' = [resolved EXCEPT ![t] = r]
    BY <2>6 DEF r
  <2>10. TypeOK'
    BY <1>1, <1>3, <1>7, <2>7, <2>8, <2>9, ZenonT(30) DEF TypeOK
  <2>11. ASSUME NEW u \in Threads PROVE WorkOf(u)'
    <3>1. CASE u = t
      <4>1. resolved'[t] = r
        BY <2>9 DEF TypeOK
      <4>2. ASSUME NEW j \in DOMAIN texts[t]
            PROVE  /\ r[j] \in {Missing, texts[t][j]} \/ texts[t][j] \in suspect
                   /\ r[j] = Missing =>
                        (\E n \in DOMAIN missing[t] : missing[t][n] = j) \/ j >= i + 1
        <5>1. CASE j = i
          BY <1>2, <1>5, <2>5, <2>8, <5>1, EmbeddingCacheAssumption DEF k
        <5>2. CASE j # i
          <6>1. r[j] = resolved[t][j] /\ j \in Nat /\ (j >= i => j >= i + 1)
            BY <1>2, <1>5, <2>8, <5>2
          <6>2. /\ resolved[t][j] \in {Missing, texts[t][j]} \/ texts[t][j] \in suspect
                /\ resolved[t][j] = Missing =>
                     (\E n \in DOMAIN missing[t] : missing[t][n] = j) \/ j >= i
            BY DEF WorkOf
          <6> HIDE DEF i
          <6>3. QED
            BY <6>1, <6>2
        <5>3. QED
          BY <5>1, <5>2
      <4>3. /\ \A n \in DOMAIN missing[t] : missing[t][n] \in DOMAIN texts[t]
            /\ Len(missing[t]) <= MaxTexts /\ Len(texts[t]) <= MaxTexts
        BY DEF WorkOf
      <4>4. Len(missing[t]) < i + 1
        BY <1>2, <1>5
      <4>5. pc'[t] = "looking" /\ UNCHANGED <<texts, missing, suspect>>
        BY <1>1, <1>7
      <4>6. WorkOf(t)'
        BY <1>3, <1>5, <2>8, <4>1, <4>2, <4>3, <4>4, <4>5 DEF WorkOf
      <4>7. QED
        BY <3>1, <4>6
    <3>2. CASE u # t
      BY <1>1, <1>7, <2>9, <3>2, WorkStays DEF TypeOK
    <3>3. QED
      BY <3>1, <3>2
  <2>12. SizeInv'
    BY <1>1, <1>7, <2>7 DEF SizeInv
  <2>13. QED
    BY <1>4, <2>7, <2>10, <2>11, <2>12
<1>8. QED
  BY <1>6, <1>7 DEF Lookup

\* The next pair of zip: it is in order unless zip will raise.
LEMMA StoreKeepsInv == ASSUME CallInv, NEW t \in Threads, Store(t) PROVE CallInv'
<1> USE DEF CallInv
<1> DEFINE m == missing[t]
           d == answers[t]
           i == Head(m)
           v == Head(d)
           k == texts[t][i]
<1>1. /\ pc[t] = "storing" /\ m # << >> /\ d # << >>
      /\ resolved' = [resolved EXCEPT ![t][i] = v]
      /\ suspect' = IF Uneven(t) THEN suspect \cup {k} ELSE suspect
      /\ \/ cache' = Put(cache, [key |-> k, vector |-> v]) /\ uses' = Used(uses, k)
         \/ UNCHANGED <<cache, uses>>
      /\ missing' = [missing EXCEPT ![t] = Tail(m)] /\ answers' = [answers EXCEPT ![t] = Tail(d)]
      /\ UNCHANGED <<lock, pc, texts, index, calls, failures>>
  BY DEF Store, FiledUnder
<1>2. /\ m \in Seq(Nat \ {0}) /\ d \in Seq(Texts) /\ texts[t] \in Seq(Texts)
      /\ resolved[t] \in Seq(Texts \cup {Missing}) /\ Len(resolved[t]) = Len(texts[t])
      /\ DOMAIN texts[t] = 1..Len(texts[t]) /\ Len(texts[t]) \in Nat
      /\ DOMAIN m = 1..Len(m) /\ DOMAIN d = 1..Len(d)
  BY LenProperties DEF TypeOK, WorkOf
<1>3. /\ Len(m) \in Nat \ {0} /\ i = m[1] /\ Tail(m) \in Seq(Nat \ {0})
      /\ Len(Tail(m)) = Len(m) - 1 /\ DOMAIN Tail(m) = 1..Len(m) - 1
      /\ \A n \in 1..Len(m) - 1 : Tail(m)[n] = m[n + 1]
  BY <1>1, <1>2, HeadTailProperties, EmptySeq, LenProperties
<1>4. /\ Len(d) \in Nat \ {0} /\ v = d[1] /\ v \in Texts /\ Tail(d) \in Seq(Texts)
      /\ Len(Tail(d)) = Len(d) - 1
      /\ \A n \in 1..Len(d) - 1 : Tail(d)[n] = d[n + 1]
  BY <1>1, <1>2, HeadTailProperties, EmptySeq, LenProperties
<1>5. i \in DOMAIN texts[t] /\ k \in Texts
  <2>1. i \in DOMAIN texts[t]
    BY <1>2, <1>3 DEF WorkOf
  <2>2. QED
    BY <1>2, <2>1, ElementOfSeq
<1>6. suspect \subseteq suspect' /\ suspect' \subseteq Texts /\ (v = k \/ k \in suspect')
  <2>1. Len(m) = Len(d) => v = k
    BY <1>1, <1>2, <1>3, <1>4 DEF WorkOf
  <2>2. QED
    BY <1>1, <1>5, <2>1 DEF Uneven, TypeOK
<1> HIDE DEF i, v
<1>7. /\ cache' \in Seq(Entry) /\ uses' \in Seq(Texts) /\ EntriesMatchKeys' /\ UsesInv'
      /\ Len(cache') <= Len(cache) + 1
  <2>1. Len(cache) \in Nat
    BY LenProperties DEF TypeOK
  <2>2. CASE UNCHANGED <<cache, uses>>
    BY <1>6, <2>1, <2>2 DEF TypeOK, EntriesMatchKeys, UsesInv, Keys
  <2>3. CASE cache' = Put(cache, [key |-> k, vector |-> v]) /\ uses' = Used(uses, k)
    <3>1. /\ cache' \in Seq(Entry) /\ uses' \in Seq(Texts) /\ EntriesMatchKeys' /\ UsesInv'
          /\ Len(cache') = IF IsCached(cache, k) THEN Len(cache) ELSE Len(cache) + 1
      BY <1>4, <1>5, <1>6, <2>3, PutKeepsUses
    <3>2. QED
      BY <2>1, <3>1
  <2>4. QED
    BY <1>1, <2>2, <2>3
<1> DEFINE r == [resolved[t] EXCEPT ![i] = v]
<1>8. /\ r \in Seq(Texts \cup {Missing}) /\ Len(r) = Len(resolved[t])
      /\ \A j \in 1..Len(resolved[t]) : r[j] = IF j = i THEN v ELSE resolved[t][j]
  BY <1>2, <1>4, <1>5, ExceptSeq
<1> HIDE DEF r
<1>9. resolved' = [resolved EXCEPT ![t] = r]
  BY <1>1 DEF r
<1>10. TypeOK'
  <2>1. resolved' \in [Threads -> Seq(Texts \cup {Missing})]
    BY <1>8, <1>9 DEF TypeOK
  <2>2. missing' \in [Threads -> Seq(Nat \ {0})]
    BY <1>1, <1>3 DEF TypeOK
  <2>3. answers' \in [Threads -> Seq(Texts)]
    BY <1>1, <1>4 DEF TypeOK
  <2>4. UNCHANGED <<lock, pc, texts, index, calls, failures>>
    BY <1>1
  <2>5. QED
    BY <1>6, <1>7, <2>1, <2>2, <2>3, <2>4 DEF TypeOK
<1>11. LockIsHeld'
  BY <1>1 DEF LockIsHeld
<1>12. ASSUME NEW u \in Threads PROVE WorkOf(u)'
  <2>1. CASE u = t
    <3>1. resolved'[t] = r /\ missing'[t] = Tail(m) /\ answers'[t] = Tail(d)
      BY <1>1, <1>9 DEF TypeOK
    <3>2. ASSUME NEW j \in DOMAIN texts[t]
          PROVE  /\ r[j] \in {Missing, texts[t][j]} \/ texts[t][j] \in suspect'
                 /\ r[j] = Missing => \E n \in DOMAIN Tail(m) : Tail(m)[n] = j
      <4>1. CASE j = i
        BY <1>2, <1>4, <1>6, <1>8, <4>1, EmbeddingCacheAssumption
      <4>2. CASE j # i
        <5>1. r[j] = resolved[t][j]
          BY <1>2, <1>8, <4>2
        <5>2. resolved[t][j] \in {Missing, texts[t][j]} \/ texts[t][j] \in suspect
          BY DEF WorkOf
        <5>3. ASSUME resolved[t][j] = Missing PROVE \E n \in DOMAIN Tail(m) : Tail(m)[n] = j
          <6>1. PICK n \in DOMAIN m : m[n] = j
            BY <1>1, <5>3 DEF WorkOf
          <6>2. n # 1 /\ n - 1 \in 1..Len(m) - 1 /\ (n - 1) + 1 = n
            BY <1>2, <1>3, <4>2, <6>1, SMTT(30)
          <6>3. QED
            BY <1>3, <6>1, <6>2
        <5>4. QED
          BY <1>6, <5>1, <5>2, <5>3
      <4>3. QED
        BY <4>1, <4>2
    <3>3. \A n \in DOMAIN Tail(m) : Tail(m)[n] \in DOMAIN texts[t]
      <4>1. \A n \in 1..Len(m) - 1 : n + 1 \in DOMAIN m
        BY <1>2, <1>3
      <4>2. QED
        BY <1>3, <4>1 DEF WorkOf
    <3>4. Len(Tail(m)) <= MaxTexts /\ Len(texts[t]) <= MaxTexts
      <4>1. Len(m) <= MaxTexts /\ MaxTexts \in Nat /\ Len(texts[t]) <= MaxTexts
        BY EmbeddingCacheAssumption DEF WorkOf
      <4>2. QED
        BY <1>3, <4>1
    <3>5. ASSUME Len(Tail(d)) = Len(Tail(m)), NEW n \in DOMAIN Tail(m)
          PROVE  Tail(d)[n] = texts[t][Tail(m)[n]]
      <4>1. Len(d) = Len(m)
        <5>1. Len(m) \in Nat /\ Len(d) \in Nat /\ Len(m) - 1 = Len(d) - 1
          BY <1>3, <1>4, <3>5
        <5> HIDE DEF m, d
        <5>2. QED
          BY <5>1
      <4> HIDE DEF m, d
      <4>2. n + 1 \in DOMAIN m /\ n \in 1..Len(d) - 1 /\ n \in 1..Len(m) - 1
        BY <1>2, <1>3, <4>1
      <4>3. d[n + 1] = texts[t][m[n + 1]]
        BY <1>1, <4>1, <4>2 DEF WorkOf, m, d
      <4>4. QED
        BY <1>3, <1>4, <4>2, <4>3
    <3>6. pc'[t] = "storing" /\ texts' = texts /\ index' = index
      BY <1>1
    <3>7. Len(r) = Len(texts[t])
      BY <1>2, <1>8
    <3>8. WorkOf(t)'
      <4> DEFINE tm == Tail(m)
                 td == Tail(d)
      <4> HIDE DEF tm, td
      <4>1. resolved'[t] = r /\ missing'[t] = tm /\ answers'[t] = td
        BY <3>1 DEF tm, td
      <4>2. \A j \in DOMAIN texts[t] :
              /\ r[j] \in {Missing, texts[t][j]} \/ texts[t][j] \in suspect'
              /\ r[j] = Missing => \E n \in DOMAIN tm : tm[n] = j
        BY <3>2 DEF tm
      <4>3. /\ \A n \in DOMAIN tm : tm[n] \in DOMAIN texts[t]
            /\ Len(tm) <= MaxTexts /\ Len(texts[t]) <= MaxTexts
            /\ Len(td) = Len(tm) => \A n \in DOMAIN tm : td[n] = texts[t][tm[n]]
        BY <3>3, <3>4, <3>5 DEF tm, td
      <4>4. QED
        BY <3>6, <3>7, <4>1, <4>2, <4>3 DEF WorkOf
    <3>9. QED
      BY <2>1, <3>8
  <2>2. CASE u # t
    BY <1>1, <1>6, <1>9, <2>2, WorkStays DEF TypeOK
  <2>3. QED
    BY <2>1, <2>2
<1>13. SizeInv'
  <2>1. \A u \in Threads : pc[u] = "storing" <=> u = t
    BY <1>1 DEF LockIsHeld
  <2> DEFINE limit == CacheSize + MaxTexts * failures + MaxTexts
  <2>2. Len(cache) + Len(m) <= limit /\ limit \in Nat
    BY <1>1, EmbeddingCacheAssumption DEF SizeInv, TypeOK
  <2>3. Len(cache) \in Nat /\ Len(cache') \in Nat
    BY <1>7, LenProperties DEF TypeOK
  <2>4. missing'[t] = Tail(m)
    BY <1>1 DEF TypeOK
  <2> HIDE DEF limit
  <2>5. Len(cache') + Len(Tail(m)) <= limit
    BY <1>3, <1>7, <2>2, <2>3
  <2>6. QED
    BY <1>1, <2>1, <2>4, <2>5 DEF SizeInv, limit
<1>14. QED
  BY <1>7, <1>10, <1>11, <1>12, <1>13

\* What is evicted is what was used least recently.
LEMMA EndStoreKeepsInv == ASSUME CallInv, NEW t \in Threads, EndStore(t) PROVE CallInv'
<1> USE DEF CallInv, EndStore, Goto, locals
<1> DEFINE c == Evicted(cache)
<1>1. cache \in Seq(Entry) /\ uses \in Seq(Texts) /\ Len(cache) \in Nat /\ Len(uses) \in Nat
  BY LenProperties DEF TypeOK
<1>2. /\ c \in Seq(Entry) /\ Ends(c, cache)
      /\ Len(c) = IF Len(cache) > CacheSize THEN CacheSize ELSE Len(cache)
  BY <1>1, EvictedEnds
<1>3. cache' = c /\ CacheSize \in Nat
  BY EmbeddingCacheAssumption
<1> HIDE DEF c
<1>4. TypeOK'
  BY <1>2, <1>3 DEF TypeOK, Labels
<1>5. LockIsHeld'
  BY EmbeddingCacheAssumption DEF LockIsHeld, TypeOK
<1>6. ASSUME NEW u \in Threads PROVE WorkOf(u)'
  <2>1. "return" \in Labels /\ pc'[t] = "return" /\ missing[t] = << >>
    BY DEF Labels, TypeOK
  <2>2. CASE u = t
    BY <2>1, <2>2, WorkGoesOn
  <2>3. CASE u # t
    BY <2>3, WorkStays DEF TypeOK
  <2>4. QED
    BY <2>2, <2>3
<1>7. /\ DOMAIN c = 1..Len(c) /\ DOMAIN cache = 1..Len(cache) /\ Len(c) \in Nat
      /\ \A i \in 1..Len(c) :
           c[i] = cache[Len(cache) - Len(c) + i] /\ Len(cache) - Len(c) + i \in 1..Len(cache)
  BY <1>1, <1>2, LenProperties DEF Ends
<1>8. EntriesMatchKeys'
  BY <1>3, <1>7 DEF EntriesMatchKeys
<1>9. UsesInv'
  <2>1. /\ Len(Keys(c)) = Len(c) /\ Len(Keys(cache)) = Len(cache)
        /\ \A i \in 1..Len(c) : Keys(c)[i] = c[i].key
        /\ \A i \in 1..Len(cache) : Keys(cache)[i] = cache[i].key
    BY <1>1, <1>2, KeysOfEntries
  <2>2. /\ Len(cache) <= Len(uses)
        /\ \A i \in 1..Len(cache) : Keys(cache)[i] = uses[Len(uses) - Len(cache) + i]
    BY <2>1 DEF UsesInv, Ends
  <2>3. ASSUME NEW i \in 1..Len(c) PROVE Keys(c)[i] = uses[Len(uses) - Len(c) + i]
    <3> DEFINE j == Len(cache) - Len(c) + i
    <3>1. j \in 1..Len(cache) /\ Len(uses) - Len(cache) + j = Len(uses) - Len(c) + i
      BY <1>1, <1>7
    <3>2. c[i] = cache[j]
      BY <1>7
    <3> HIDE DEF j
    <3>3. QED
      BY <2>1, <2>2, <3>1, <3>2
  <2>4. Ends(Keys(c), uses)
    <3>1. Len(c) <= Len(uses)
      BY <1>1, <1>2, <1>3, <2>2
    <3>2. QED
      BY <2>1, <2>3, <3>1 DEF Ends
  <2>5. QED
    BY <1>1, <1>2, <1>3, <2>4 DEF UsesInv
<1>10. SizeInv'
  <2>1. \A u \in Threads : pc'[u] # "storing"
    BY DEF LockIsHeld, TypeOK
  <2>2. failures' = 0 /\ Len(cache') <= CacheSize /\ MaxTexts * 0 = 0
    BY <1>1, <1>2, <1>3, EmbeddingCacheAssumption
  <2>3. QED
    BY <1>3, <2>1, <2>2 DEF SizeInv
<1>11. QED
  BY <1>4, <1>5, <1>6, <1>8, <1>9, <1>10

LEMMA CallInitially == Init => CallInv
<1> SUFFICES ASSUME Init PROVE CallInv
  OBVIOUS
<1>1. /\ << >> \in Seq(Entry) /\ << >> \in Seq(Texts) /\ << >> \in Seq(Texts \cup {Missing})
      /\ << >> \in Seq(Nat \ {0}) /\ Len(<< >>) = 0 /\ DOMAIN << >> = {}
  OBVIOUS
<1>2. TypeOK
  BY <1>1, EmbeddingCacheAssumption DEF Init, TypeOK, Labels
<1>3. LockIsHeld /\ EntriesMatchKeys
  BY <1>1, EmbeddingCacheAssumption DEF Init, LockIsHeld, EntriesMatchKeys
<1>4. \A t \in Threads : WorkOf(t)
  BY <1>1, EmbeddingCacheAssumption DEF Init, WorkOf
<1>5. Keys(cache) = << >>
  BY DEF Init, Keys
<1>6. UsesInv
  BY <1>1, <1>5 DEF Init, UsesInv, Ends, Distinct
<1>7. SizeInv
  BY <1>1, EmbeddingCacheAssumption DEF Init, SizeInv
<1>8. QED
  BY <1>2, <1>3, <1>4, <1>6, <1>7 DEF CallInv

(* Theorems. *)

\* Calls, entries, history and size agree in every state.
THEOREM CallInvariant == Spec => []CallInv
<1>1. CallInv /\ [Next]_vars => CallInv'
  <2> SUFFICES ASSUME CallInv, [Next]_vars PROVE CallInv'
    OBVIOUS
  <2>1. CASE UNCHANGED vars
    BY <2>1 DEF vars, locals, history, CallInv, TypeOK, LockIsHeld, EntriesMatchKeys, WorkOf,
       UsesInv, SizeInv, Keys
  <2>2. CASE Next
    BY <2>2, CallKeepsInv, EnterLookupKeepsInv, LookupKeepsInv, EndLookupKeepsInv,
       ResponseKeepsInv, EnterStoreKeepsInv, StoreKeepsInv, EndStoreKeepsInv,
       UnevenStoreKeepsInv, LeaveKeepsInv DEF Next
  <2>3. QED
    BY <2>1, <2>2
<1>2. QED
  BY <1>1, CallInitially, PTL DEF Spec

\* A call that returns has a vector for every text, and it is the text's own,
\* whatever part of them was cached and whatever other threads do to the cache
\* meanwhile, if no uneven answer was ever stored for that text.
THEOREM CacheInvariant == Spec => []CacheInv
<1>1. CallInv => CacheInv
  <2> SUFFICES ASSUME CallInv PROVE CacheInv
    OBVIOUS
  <2>1. ResolvedMatchTexts
    BY DEF CallInv, WorkOf, ResolvedMatchTexts
  <2>2. ASSUME NEW t \in Threads, pc[t] = "return", NEW i \in DOMAIN texts[t]
        PROVE  resolved[t][i] # Missing
    <3>1. missing[t] = << >> /\ DOMAIN << >> = {}
      BY <2>2 DEF CallInv, WorkOf
    <3>2. QED
      BY <2>2, <3>1 DEF CallInv, WorkOf
  <2>3. EmbeddingsMatchTexts
    BY <2>1, <2>2 DEF ResolvedMatchTexts, EmbeddingsMatchTexts
  <2>4. QED
    BY <2>1, <2>3 DEF CallInv, CacheInv
<1>2. QED
  BY <1>1, CallInvariant, PTL

\* The cache holds the keys used last, in their order, each of them once.
THEOREM LatestUsesStay == Spec => []LatestUsesAreKept
<1>1. CallInv => LatestUsesAreKept
  <2> SUFFICES ASSUME CallInv PROVE LatestUsesAreKept
    OBVIOUS
  <2>1. /\ Keys(cache) \in Seq(Texts) /\ Len(Keys(cache)) = Len(cache) /\ uses \in Seq(Texts)
    BY KeysOfEntries DEF CallInv, TypeOK
  <2>2. Len(cache) <= Len(uses) /\ Ends(Keys(cache), uses)
    BY <2>1 DEF CallInv, UsesInv, Ends
  <2>3. Keys(cache) = SubSeq(uses, Len(uses) - Len(cache) + 1, Len(uses))
    BY <2>1, <2>2, SuffixIsEnd
  <2>4. QED
    BY <2>2, <2>3 DEF CallInv, UsesInv, Distinct, LatestUsesAreKept
<1>2. QED
  BY <1>1, CallInvariant, PTL

\* The cache is over its limit by no more than what the thread that stores adds
\* and what calls left in it that failed since the last eviction.
THEOREM ExcessIsBounded == Spec => []ExcessIsOfFailedCalls
<1>1. CallInv => ExcessIsOfFailedCalls
  <2> SUFFICES ASSUME CallInv PROVE ExcessIsOfFailedCalls
    OBVIOUS
  <2>1. CallInv /\ cache \in Seq(Entry) /\ failures \in Nat /\ MaxTexts \in Nat /\ CacheSize \in Nat
    BY EmbeddingCacheAssumption DEF CallInv, TypeOK
  <2>2. Len(cache) \in Nat
    BY <2>1, LenProperties
  <2>3. CASE \E t \in Threads : pc[t] = "storing"
    <3>1. PICK t \in Threads : pc[t] = "storing"
      BY <2>3
    <3>2. /\ Len(cache) + Len(missing[t]) <= CacheSize + MaxTexts * failures + MaxTexts
          /\ missing[t] \in Seq(Nat \ {0})
      BY <3>1 DEF CallInv, SizeInv, TypeOK
    <3>3. Len(missing[t]) \in Nat
      BY <3>2, LenProperties
    <3>4. MaxTexts * (failures + 1) = MaxTexts * failures + MaxTexts /\ MaxTexts * failures \in Nat
      BY <2>1
    <3>5. Len(cache) <= CacheSize + MaxTexts * (failures + 1)
      BY <2>1, <2>2, <3>2, <3>3, <3>4
    <3>6. QED
      BY <2>3, <3>5 DEF ExcessIsOfFailedCalls
  <2>4. CASE ~\E t \in Threads : pc[t] = "storing"
    <3>1. Len(cache) <= CacheSize + MaxTexts * failures /\ failures + 0 = failures
      BY <2>1, <2>4 DEF CallInv, SizeInv
    <3>2. QED
      BY <2>4, <3>1 DEF ExcessIsOfFailedCalls
  <2>5. QED
    BY <2>3, <2>4
<1>2. QED
  BY <1>1, CallInvariant, PTL
=============================================================================
