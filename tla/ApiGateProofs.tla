---------------------------- MODULE ApiGateProofs ----------------------------
(***************************************************************************)
(* Proofs about ApiGate and the limiter in it.  The window holds because   *)
(* the queue is always the latest part of what was admitted, at most Limit *)
(* long, and what left the queue had left the window.                      *)
(***************************************************************************)
EXTENDS ApiGate, TLAPS

LEMMA WindowType == Window \in Nat /\ Window > 0
BY RateLimiterAssumption DEF RateLimiterAssumption, Window

LEMMA InitEstablishesInv == GateInit => GateInv
<1> SUFFICES ASSUME GateInit PROVE GateInv
  OBVIOUS
<1> USE RateLimiterAssumption, ApiGateAssumption, WindowType
        DEF RateLimiterAssumption, ApiGateAssumption, GateInit, LimiterInit
<1>1. LimiterTypeOK
  BY DEF LimiterTypeOK
<1>2. (\A i \in Identities : InOrder(admitted[i])) /\ NoneAfterNow /\ SlidingWindow /\ RefusalEnds
  BY DEF InOrder, NoneAfterNow, SlidingWindow, RefusalEnds
<1>3. KeptAreLatest /\ DroppedAreOld
  BY DEF KeptAreLatest, DroppedAreOld
<1>4. served = [t \in Tenants |-> admitted[t]] /\ guesses = [c \in Clients |-> admitted[c]]
  OBVIOUS
<1>5. QED
  BY <1>1, <1>2, <1>3, <1>4 DEF GateInv, LimiterInv

LEMMA TickKeepsInv == LimiterInv /\ Tick => LimiterInv'
<1> SUFFICES ASSUME LimiterInv, Tick PROVE LimiterInv'
  OBVIOUS
<1> USE RateLimiterAssumption, WindowType DEF RateLimiterAssumption, LimiterInv, Tick
<1>1. LimiterTypeOK'
  BY DEF LimiterTypeOK
<1>2. /\ (\A i \in Identities : InOrder(admitted[i]))'
      /\ KeptAreLatest' /\ SlidingWindow' /\ RefusalEnds'
  BY DEF InOrder, KeptAreLatest, SlidingWindow, RefusalEnds
<1>t. ASSUME NEW i \in Identities, NEW k \in DOMAIN admitted[i]
      PROVE  admitted[i][k] \in Nat
  BY DEF LimiterTypeOK
<1>n. now \in Nat /\ now' = now + 1 /\ Window \in Nat
      /\ admitted' = admitted /\ events' = events
      /\ \A i \in Identities : Len(admitted[i]) \in Nat /\ Len(events[i]) \in Nat
                                /\ DOMAIN admitted[i] = 1..Len(admitted[i])
  BY DEF LimiterTypeOK
<1>3. NoneAfterNow'
  <2>1. NoneAfterNow
    OBVIOUS
  <2>2. QED
    BY ONLY <1>t, <1>n, <2>1 DEF NoneAfterNow
<1>4. DroppedAreOld'
  <2>1. DroppedAreOld
    OBVIOUS
  <2>2. ASSUME NEW i \in Identities, NEW k \in 1..(Len(admitted[i]) - Len(events[i]))
        PROVE  admitted[i][k] <= now + 1 - Window
    <3>1. k \in DOMAIN admitted[i]
      BY ONLY <1>n
    <3>2. admitted[i][k] <= now - Window
      BY ONLY <2>1 DEF DroppedAreOld
    <3>3. QED
      BY ONLY <1>t, <1>n, <3>1, <3>2
  <2>3. QED
    BY ONLY <1>n, <2>2 DEF DroppedAreOld
<1>5. QED
  BY <1>1, <1>2, <1>3, <1>4

LEMMA RetryAfterType == ASSUME now \in Nat, NEW oldest \in Nat
                        PROVE  RetryAfter(oldest) \in Nat
BY RateLimiterAssumption, WindowType DEF RateLimiterAssumption, RetryAfter

LEMMA ShiftByDropped ==
  ASSUME NEW a \in Nat, NEW e \in Nat, NEW n \in 0..e, NEW k \in 1..(e - n)
  PROVE  n + k \in 1..e /\ a - e + (n + k) = a - (e - n) + k
OBVIOUS

LEMMA Compare == \A x, y \in Int : x <= y \/ x > y
OBVIOUS

LEMMA Apart ==
  ASSUME NEW x \in Nat, NEW t \in Nat, NEW w \in Nat, x <= t - w
  PROVE  t - x >= w
OBVIOUS

LEMMA LastPlace ==
  ASSUME NEW a \in Nat, NEW l \in Nat, NEW k \in 1..((a + 1) - l)
  PROVE  k + l <= a \/ k + l = a + 1
OBVIOUS

LEMMA ShiftBack ==
  ASSUME NEW a \in Nat, NEW e \in Nat, NEW n \in 0..e, e <= a,
         NEW k \in 1..(a - (e - n)), k > a - e
  PROVE  k - (a - e) \in 1..n /\ k - (a - e) \in 1..e /\ a - e + (k - (a - e)) = k
OBVIOUS

LEMMA RestOfSequence ==
  ASSUME NEW times \in Seq(Nat), NEW n \in 0..Len(times)
  PROVE  /\ SubSeq(times, n + 1, Len(times)) \in Seq(Nat)
         /\ Len(SubSeq(times, n + 1, Len(times))) = Len(times) - n
         /\ \A k \in 1..(Len(times) - n) :
              SubSeq(times, n + 1, Len(times))[k] = times[n + k]
<1>1. Len(times) \in Nat
  OBVIOUS
<1>2. SubSeq(times, n + 1, Len(times)) \in Seq(Nat)
  BY <1>1
<1>3. Len(SubSeq(times, n + 1, Len(times))) = Len(times) - n
  BY <1>1
<1>4. \A k \in 1..(Len(times) - n) : SubSeq(times, n + 1, Len(times))[k] = times[n + k]
  BY <1>1
<1>5. QED
  BY <1>2, <1>3, <1>4

\* Dropping the first n events drops events that have left the window.
LEMMA KeptFacts ==
  ASSUME LimiterInv, NEW i \in Identities, NEW n \in 0..Len(events[i]), Expired(i, n)
  PROVE  /\ Kept(i, n) \in Seq(Nat)
         /\ Len(Kept(i, n)) = Len(events[i]) - n
         /\ \A k \in 1..(Len(events[i]) - n) :
              Kept(i, n)[k] = admitted[i][Len(admitted[i]) - (Len(events[i]) - n) + k]
         /\ \A k \in 1..(Len(admitted[i]) - (Len(events[i]) - n)) :
              admitted[i][k] <= now - Window
<1> DEFINE E == events[i]
           A == admitted[i]
<1>1. E \in Seq(Nat) /\ A \in Seq(Nat) /\ now \in Nat /\ Window \in Nat
  BY WindowType, RateLimiterAssumption DEF LimiterInv, LimiterTypeOK,
     RateLimiterAssumption
<1>2. Len(E) \in Nat /\ Len(A) \in Nat /\ DOMAIN E = 1..Len(E)
  BY <1>1
<1>3. Len(E) <= Len(A) /\ \A k \in 1..Len(E) : E[k] = A[Len(A) - Len(E) + k]
  BY <1>2 DEF LimiterInv, KeptAreLatest
<1>4. Kept(i, n) \in Seq(Nat) /\ Len(Kept(i, n)) = Len(E) - n
  BY <1>1, RestOfSequence DEF Kept
<1>5. \A k \in 1..(Len(E) - n) : Kept(i, n)[k] = E[n + k]
  BY <1>1, RestOfSequence DEF Kept
<1>6. \A k \in 1..(Len(E) - n) : Kept(i, n)[k] = A[Len(A) - (Len(E) - n) + k]
  <2> SUFFICES ASSUME NEW k \in 1..(Len(E) - n)
               PROVE  Kept(i, n)[k] = A[Len(A) - (Len(E) - n) + k]
    OBVIOUS
  <2>1. n + k \in 1..Len(E) /\ Len(A) - Len(E) + (n + k) = Len(A) - (Len(E) - n) + k
    BY <1>2, ShiftByDropped
  <2>2. E[n + k] = A[Len(A) - Len(E) + (n + k)]
    BY <1>3, <2>1
  <2>3. QED
    BY <1>5, <2>1, <2>2
<1>7. \A k \in 1..(Len(A) - (Len(E) - n)) : A[k] <= now - Window
  <2> SUFFICES ASSUME NEW k \in 1..(Len(A) - (Len(E) - n)) PROVE A[k] <= now - Window
    OBVIOUS
  <2>1. CASE k <= Len(A) - Len(E)
    BY <1>1, <2>1 DEF LimiterInv, DroppedAreOld
  <2>2. CASE k > Len(A) - Len(E)
    <3>1. k - (Len(A) - Len(E)) \in 1..n /\ k - (Len(A) - Len(E)) \in 1..Len(E)
      BY <1>2, <1>3, <2>2, ShiftBack
    <3>2. E[k - (Len(A) - Len(E))] = A[Len(A) - Len(E) + (k - (Len(A) - Len(E)))]
      BY <1>3, <3>1
    <3>3. Len(A) - Len(E) + (k - (Len(A) - Len(E))) = k
      BY <1>2, <1>3, <2>2, ShiftBack
    <3>4. QED
      BY <3>1, <3>2, <3>3 DEF Expired
  <2>3. k \in Int /\ Len(A) - Len(E) \in Int
    BY <1>2
  <2>4. k <= Len(A) - Len(E) \/ k > Len(A) - Len(E)
    BY <2>3, Compare
  <2>5. QED
    BY <2>1, <2>2, <2>4
<1>8. QED
  BY <1>4, <1>6, <1>7

LEMMA AllowKeepsInv ==
  ASSUME LimiterInv, NEW i \in Identities, Allow(i)
  PROVE  LimiterInv'
<1> USE RateLimiterAssumption DEF RateLimiterAssumption
<1> DEFINE A == admitted[i]
<1>1. PICK n \in 0..Len(events[i]) :
        /\ Expired(i, n)
        /\ Len(events[i]) - n < Limit
        /\ events' = [events EXCEPT ![i] = Append(Kept(i, n), now)]
        /\ admitted' = [admitted EXCEPT ![i] = Append(@, now)]
        /\ refused' = [refused EXCEPT ![i] = {}]
        /\ now' = now
  BY DEF Allow
<1>2. PICK m \in Nat : m = Len(events[i]) - n
  <2>1. Len(events[i]) \in Nat
    BY DEF LimiterInv, LimiterTypeOK
  <2>2. Len(events[i]) - n \in Nat
    BY <1>1, <2>1
  <2>3. QED
    BY <2>2
<1>3. PICK a \in Nat : a = Len(A)
  BY DEF LimiterInv, LimiterTypeOK
<1>4. /\ Kept(i, n) \in Seq(Nat) /\ Len(Kept(i, n)) = m
      /\ \A k \in 1..m : Kept(i, n)[k] = A[a - m + k]
      /\ \A k \in 1..(a - m) : A[k] <= now - Window
  BY <1>1, <1>2, <1>3, KeptFacts
<1>5. A \in Seq(Nat) /\ now \in Nat /\ Window \in Nat /\ m < Limit /\ m <= a
  BY <1>1, <1>2, <1>3, WindowType DEF LimiterInv, LimiterTypeOK, KeptAreLatest
<1>6. events'[i] = Append(Kept(i, n), now) /\ admitted'[i] = Append(A, now)
  BY <1>1 DEF LimiterInv, LimiterTypeOK
<1>7. \A j \in Identities \ {i} : events'[j] = events[j] /\ admitted'[j] = admitted[j]
  BY <1>1 DEF LimiterInv, LimiterTypeOK
<1>8. /\ Len(events'[i]) = m + 1
      /\ \A k \in 1..m : events'[i][k] = A[a - m + k]
      /\ events'[i][m + 1] = now
      /\ DOMAIN events'[i] = 1..(m + 1)
  <2> DEFINE K == Kept(i, n)
  <2>1. K \in Seq(Nat) /\ Len(K) = m /\ now \in Nat
    BY <1>4, <1>5
  <2> HIDE DEF K
  <2>2. /\ Len(Append(K, now)) = m + 1
        /\ \A k \in 1..m : Append(K, now)[k] = K[k]
        /\ Append(K, now)[m + 1] = now
        /\ DOMAIN Append(K, now) = 1..(m + 1)
    BY <2>1
  <2>3. QED
    BY <1>4, <1>6, <2>2 DEF K
<1>9. /\ Len(admitted'[i]) = a + 1
      /\ \A k \in 1..a : admitted'[i][k] = A[k]
      /\ admitted'[i][a + 1] = now
  BY <1>3, <1>5, <1>6
<1>10. LimiterTypeOK'
  BY <1>1, <1>4, <1>5 DEF LimiterInv, LimiterTypeOK
<1>11. LimiterInv
  OBVIOUS
<1>k. KeptAreLatest /\ DroppedAreOld
  BY DEF LimiterInv
<1> HIDE DEF A
<1>12. ASSUME NEW j \in Identities
       PROVE  InOrder(admitted'[j])
  <2>1. CASE j # i
    BY <2>1, <1>7, <1>11 DEF LimiterInv
  <2>2. CASE j = i
    <3>1. DOMAIN admitted'[i] = 1..(a + 1) /\ DOMAIN A = 1..a
      BY <1>3, <1>5, <1>6, <1>9
    <3>2. InOrder(A) /\ \A k \in 1..a : A[k] <= now
      BY <1>11, <3>1 DEF LimiterInv, NoneAfterNow, A
    <3>3. ASSUME NEW k \in 1..(a + 1), NEW l \in 1..(a + 1), k <= l
          PROVE  admitted'[i][k] <= admitted'[i][l]
      <4>1. CASE l \in 1..a
        <5>1. k \in 1..a
          BY <3>3, <4>1
        <5>2. QED
          BY <1>9, <3>1, <3>2, <3>3, <4>1, <5>1 DEF InOrder
      <4>2. CASE l = a + 1 /\ k \in 1..a
        BY <1>9, <3>2, <4>2
      <4>3. CASE l = a + 1 /\ k = a + 1
        BY <1>5, <1>9, <4>3
      <4>4. QED
        BY <1>5, <4>1, <4>2, <4>3
    <3>4. QED
      BY <2>2, <3>1, <3>3 DEF InOrder
  <2>3. QED
    BY <2>1, <2>2
<1>13. NoneAfterNow'
  <2>1. \A k \in DOMAIN A : A[k] <= now
    BY <1>11 DEF LimiterInv, NoneAfterNow, A
  <2>2. DOMAIN admitted'[i] = 1..(a + 1) /\ DOMAIN A = 1..a
    BY <1>3, <1>5, <1>6, <1>9
  <2>3. \A k \in DOMAIN admitted'[i] : admitted'[i][k] <= now
    BY <1>5, <1>9, <2>1, <2>2
  <2>4. QED
    BY <1>1, <1>7, <1>11, <2>3 DEF LimiterInv, NoneAfterNow
<1>14. KeptAreLatest'
  <2>1. \A k \in 1..(m + 1) : events'[i][k] = admitted'[i][(a + 1) - (m + 1) + k]
    <3> SUFFICES ASSUME NEW k \in 1..(m + 1)
                 PROVE  events'[i][k] = admitted'[i][(a + 1) - (m + 1) + k]
      OBVIOUS
    <3>1. (a + 1) - (m + 1) + k = a - m + k
      BY <1>5
    <3>2. CASE k \in 1..m
      <4>1. a - m + k \in 1..a
        BY <1>5, <3>2
      <4>2. QED
        BY <1>8, <1>9, <3>1, <3>2, <4>1
    <3>3. CASE k = m + 1
      BY <1>5, <1>8, <1>9, <3>1, <3>3
    <3>4. QED
      BY <3>2, <3>3
  <2>2. m + 1 <= Limit /\ m + 1 <= a + 1
    BY <1>5
  <2>3. ASSUME NEW j \in Identities \ {i}
        PROVE  /\ Len(events'[j]) <= Limit
               /\ Len(events'[j]) <= Len(admitted'[j])
               /\ \A k \in DOMAIN events'[j] :
                    events'[j][k] = admitted'[j][Len(admitted'[j]) - Len(events'[j]) + k]
    <3>1. /\ Len(events[j]) <= Limit
          /\ Len(events[j]) <= Len(admitted[j])
          /\ \A k \in DOMAIN events[j] :
               events[j][k] = admitted[j][Len(admitted[j]) - Len(events[j]) + k]
      BY ONLY <1>k, j \in Identities DEF KeptAreLatest
    <3>2. events'[j] = events[j] /\ admitted'[j] = admitted[j]
      BY ONLY <1>7
    <3>3. QED
      BY ONLY <3>1, <3>2
  <2>4. /\ Len(events'[i]) <= Limit
        /\ Len(events'[i]) <= Len(admitted'[i])
        /\ \A k \in DOMAIN events'[i] :
             events'[i][k] = admitted'[i][Len(admitted'[i]) - Len(events'[i]) + k]
    BY <1>8, <1>9, <2>1, <2>2
  <2>5. QED
    BY <2>3, <2>4 DEF KeptAreLatest
<1>15. DroppedAreOld'
  <2>1. \A k \in 1..((a + 1) - (m + 1)) : admitted'[i][k] <= now - Window
    <3>1. \A k \in 1..((a + 1) - (m + 1)) : k \in 1..(a - m) /\ k \in 1..a
      BY <1>5
    <3>2. QED
      BY <1>4, <1>9, <3>1
  <2>2. ASSUME NEW j \in Identities \ {i}
        PROVE  \A k \in 1..(Len(admitted'[j]) - Len(events'[j])) :
                 admitted'[j][k] <= now - Window
    BY ONLY <1>7, <1>k DEF DroppedAreOld
  <2>3. Len(events'[i]) = m + 1 /\ Len(admitted'[i]) = a + 1 /\ now' = now
    BY <1>1, <1>8, <1>9
  <2>4. QED
    BY ONLY <2>1, <2>2, <2>3 DEF DroppedAreOld, Window
<1>16. SlidingWindow'
  <2>1. ASSUME NEW k \in 1..((a + 1) - Limit)
        PROVE  admitted'[i][k + Limit] - admitted'[i][k] >= Window
    <3>1. CASE k + Limit <= a
      <4>1. k \in 1..(a - Limit) /\ k \in 1..a /\ k + Limit \in 1..a
        BY <3>1, <1>5
      <4>2. A[k + Limit] - A[k] >= Window
        BY <1>3, <1>11, <4>1 DEF LimiterInv, SlidingWindow, A
      <4>3. QED
        BY <1>9, <4>1, <4>2
    <3>2. CASE k + Limit = a + 1
      <4>1. k \in 1..(a - m) /\ k \in 1..a
        BY <3>2, <1>5
      <4>2. A[k] <= now - Window /\ A[k] \in Nat /\ admitted'[i][k] = A[k]
        <5>1. A[k] <= now - Window /\ admitted'[i][k] = A[k]
          BY <1>4, <1>9, <4>1
        <5>2. A[k] \in Nat
          BY <1>3, <1>5, <4>1
        <5>3. QED
          BY <5>1, <5>2
      <4>3. admitted'[i][k + Limit] = now
        BY <1>9, <3>2
      <4>4. QED
        BY <1>5, <4>2, <4>3, Apart
    <3>3. k + Limit <= a \/ k + Limit = a + 1
      BY <1>5, LastPlace
    <3>4. QED
      BY <3>1, <3>2, <3>3
  <2>2. QED
    BY <1>7, <1>9, <1>11, <2>1 DEF LimiterInv, SlidingWindow
<1>17. RefusalEnds'
  <2>1. refused'[i] = {} /\ \A j \in Identities \ {i} : refused'[j] = refused[j]
    BY <1>1, <1>11 DEF LimiterInv, LimiterTypeOK
  <2>2. QED
    BY <1>7, <1>11, <2>1 DEF LimiterInv, RefusalEnds
<1>18. QED
  BY <1>10, <1>12, <1>13, <1>14, <1>15, <1>16, <1>17 DEF LimiterInv

\* The whole seconds of a duration, and one more, are longer than it.
LEMMA RoundedUp ==
  ASSUME NEW x \in Nat, NEW s \in Nat \ {0}
  PROVE  (x \div s + 1) * s > x
BY Z3

LEMMA Monotone ==
  ASSUME NEW a \in Nat, NEW b \in Nat, NEW s \in Nat, a <= b
  PROVE  a * s <= b * s
BY Z3

\* A full queue: the oldest of its events is what refuses the request.
LEMMA RefusalFacts ==
  ASSUME LimiterInv, NEW i \in Identities, NEW n \in 0..Len(events[i]), Expired(i, n),
         Len(events[i]) - n >= Limit
  PROVE  /\ Len(admitted[i]) >= Limit
         /\ admitted[i][Len(admitted[i]) - Limit + 1] > now - Window
         /\ admitted[i][Len(admitted[i]) - Limit + 1] + Window
              < now + (RetryAfter(events[i][n + 1]) + 1) * Second
<1> USE RateLimiterAssumption DEF RateLimiterAssumption
<1>1. Len(events[i]) \in Nat /\ Len(admitted[i]) \in Nat /\ Len(events[i]) <= Limit
  BY DEF LimiterInv, LimiterTypeOK, KeptAreLatest
<1>2. n = 0 /\ Len(events[i]) = Limit
  BY <1>1
<1>3. Len(admitted[i]) >= Limit /\ 1 \in DOMAIN events[i] /\ events[i][1] \in Nat
  BY <1>1, <1>2 DEF LimiterInv, LimiterTypeOK, KeptAreLatest
<1>4. events[i][1] = admitted[i][Len(admitted[i]) - Limit + 1]
  BY <1>2, <1>3 DEF LimiterInv, KeptAreLatest
<1>5. events[i][1] > now - Window
  BY <1>2 DEF Expired
<1>6. now \in Nat /\ Window \in Nat /\ events[i][1] <= now
  <2>1. Len(admitted[i]) - Limit + 1 \in DOMAIN admitted[i]
    BY <1>1, <1>3 DEF LimiterInv, LimiterTypeOK
  <2>2. QED
    BY <1>4, <2>1, WindowType DEF LimiterInv, LimiterTypeOK, NoneAfterNow
<1>7. ASSUME NEW e \in Nat, e > now - Window, e <= now
      PROVE  e + Window < now + (RetryAfter(e) + 1) * Second
  <2> DEFINE left == Window - (now - e)
  <2>1. left \in Nat /\ left \div Second \in Nat
    BY <1>6, <1>7
  <2>2. (left \div Second + 1) * Second > left
    BY <2>1, RoundedUp
  <2>3. RetryAfter(e) \in Nat /\ left \div Second <= RetryAfter(e)
    BY <2>1 DEF RetryAfter
  <2>4. (left \div Second + 1) * Second <= (RetryAfter(e) + 1) * Second
    BY <2>1, <2>3, Monotone
  <2>5. (RetryAfter(e) + 1) * Second \in Nat /\ (left \div Second + 1) * Second \in Nat
    BY <2>1, <2>3
  <2>6. left < (RetryAfter(e) + 1) * Second
    BY <2>1, <2>2, <2>4, <2>5
  <2>7. QED
    BY <1>6, <2>5, <2>6
<1>8. QED
  BY <1>2, <1>3, <1>4, <1>5, <1>6, <1>7

LEMMA RefuseKeepsInv ==
  ASSUME LimiterInv, NEW i \in Identities, Refuse(i)
  PROVE  LimiterInv'
<1> USE RateLimiterAssumption DEF RateLimiterAssumption
<1>1. PICK n \in 0..Len(events[i]) :
        /\ Expired(i, n)
        /\ Len(events[i]) - n >= Limit
        /\ events' = [events EXCEPT ![i] = Kept(i, n)]
        /\ refused' = [refused EXCEPT ![i] =
                         {[at |-> now, retryAfter |-> RetryAfter(events[i][n + 1])]}]
        /\ UNCHANGED <<now, admitted>>
  BY DEF Refuse
<1>2. /\ Kept(i, n) \in Seq(Nat)
      /\ Len(Kept(i, n)) = Len(events[i]) - n
      /\ \A k \in 1..(Len(events[i]) - n) :
           Kept(i, n)[k] = admitted[i][Len(admitted[i]) - (Len(events[i]) - n) + k]
      /\ \A k \in 1..(Len(admitted[i]) - (Len(events[i]) - n)) :
           admitted[i][k] <= now - Window
  BY <1>1, KeptFacts
<1>3. events'[i] = Kept(i, n) /\ \A j \in Identities \ {i} : events'[j] = events[j]
  BY <1>1 DEF LimiterInv, LimiterTypeOK
<1>4. DOMAIN Kept(i, n) = 1..(Len(events[i]) - n)
  BY <1>2
<1>5. LimiterTypeOK'
  <2>1. n + 1 \in DOMAIN events[i] /\ events[i] \in Seq(Nat) /\ now \in Nat
    BY <1>1 DEF LimiterInv, LimiterTypeOK
  <2>2. RetryAfter(events[i][n + 1]) \in Nat
    <3>1. events[i][n + 1] \in Nat
      BY <2>1
    <3>2. QED
      BY <2>1, <3>1, RetryAfterType
  <2>3. QED
    BY <1>1, <1>2, <2>1, <2>2 DEF LimiterInv, LimiterTypeOK
<1>6. (\A j \in Identities : InOrder(admitted[j]))' /\ NoneAfterNow' /\ SlidingWindow'
  BY <1>1 DEF LimiterInv, NoneAfterNow, SlidingWindow
<1>7. KeptAreLatest'
  <2>1. Len(events[i]) - n <= Len(events[i]) /\ Len(events[i]) \in Nat
    BY DEF LimiterInv, LimiterTypeOK
  <2>2. /\ Len(events[i]) <= Limit /\ Len(events[i]) <= Len(admitted[i])
        /\ Len(admitted[i]) \in Nat /\ Limit \in Nat
    BY DEF LimiterInv, LimiterTypeOK, KeptAreLatest
  <2>3. /\ Len(events'[i]) <= Limit
        /\ Len(events'[i]) <= Len(admitted'[i])
    BY <1>1, <1>2, <1>3, <2>1, <2>2
  <2>4. \A k \in DOMAIN events'[i] :
          events'[i][k] = admitted'[i][Len(admitted'[i]) - Len(events'[i]) + k]
    <3>1. /\ DOMAIN events'[i] = 1..(Len(events[i]) - n)
          /\ Len(events'[i]) = Len(events[i]) - n
          /\ admitted'[i] = admitted[i]
      BY <1>1, <1>2, <1>3, <1>4
    <3>2. QED
      BY <1>2, <1>3, <3>1
  <2>5. KeptAreLatest /\ admitted' = admitted
    BY <1>1 DEF LimiterInv
  <2>6. ASSUME NEW j \in Identities \ {i}
        PROVE  /\ Len(events'[j]) <= Limit
               /\ Len(events'[j]) <= Len(admitted'[j])
               /\ \A k \in DOMAIN events'[j] :
                    events'[j][k] = admitted'[j][Len(admitted'[j]) - Len(events'[j]) + k]
    BY ONLY <1>3, <2>5 DEF KeptAreLatest
  <2>7. QED
    BY ONLY <2>3, <2>4, <2>6 DEF KeptAreLatest
<1>8. DroppedAreOld'
  <2>1. \A k \in 1..(Len(admitted'[i]) - Len(events'[i])) : admitted'[i][k] <= now - Window
    BY <1>1, <1>2, <1>3
  <2>2. QED
    BY <1>1, <1>3, <2>1 DEF LimiterInv, DroppedAreOld
<1>9. RefusalEnds'
  <2>1. /\ Len(admitted[i]) >= Limit
        /\ admitted[i][Len(admitted[i]) - Limit + 1] + Window
             < now + (RetryAfter(events[i][n + 1]) + 1) * Second
    BY <1>1, RefusalFacts
  <2>2. refused'[i] = {[at |-> now, retryAfter |-> RetryAfter(events[i][n + 1])]}
    BY <1>1 DEF LimiterInv, LimiterTypeOK
  <2>3. \A j \in Identities \ {i} : refused'[j] = refused[j]
    BY <1>1 DEF LimiterInv, LimiterTypeOK
  <2>4. admitted' = admitted
    BY <1>1
  <2>5. \A r \in refused'[i] :
          /\ Len(admitted'[i]) >= Limit
          /\ admitted'[i][Len(admitted'[i]) - Limit + 1] + Window
               < r.at + (r.retryAfter + 1) * Second
    BY <2>1, <2>2, <2>4
  <2>6. QED
    BY <2>3, <2>4, <2>5 DEF LimiterInv, RefusalEnds
<1>10. QED
  BY <1>5, <1>6, <1>7, <1>8, <1>9 DEF LimiterInv

LEMMA NextKeepsInv == GateInv /\ [GateNext]_gateVars => GateInv'
<1> SUFFICES ASSUME GateInv, [GateNext]_gateVars PROVE GateInv'
  OBVIOUS
<1> USE ApiGateAssumption DEF ApiGateAssumption
<1>1. LimiterInv /\ admitted \in [Identities -> Seq(Nat)]
  BY DEF GateInv, LimiterInv, LimiterTypeOK
<1>2. \A key \in Keys, client \in Clients : Identity(key, client) \in Identities
  BY DEF Identity, Resolve
<1>3. CASE GateTick
  BY <1>1, <1>3, TickKeepsInv DEF GateTick, Tick, GateInv
<1>4. ASSUME NEW key \in Keys, NEW client \in Clients, TooMany(key, client) PROVE GateInv'
  BY <1>1, <1>2, <1>4, RefuseKeepsInv DEF TooMany, Refuse, GateInv
<1>5. ASSUME NEW key \in Keys, NEW client \in Clients, Unauthorized(key, client) PROVE GateInv'
  <2>1. LimiterInv'
    BY <1>1, <1>2, <1>5, AllowKeepsInv DEF Unauthorized
  <2>2. Identity(key, client) = client /\ admitted' = [admitted EXCEPT ![client] = Append(@, now)]
    BY <1>5 DEF Unauthorized, Allow, Identity
  <2>3. QED
    BY <1>1, <1>5, <2>1, <2>2 DEF Unauthorized, GateInv
<1>6. ASSUME NEW key \in Keys, NEW client \in Clients, Serve(key, client) PROVE GateInv'
  <2>1. LimiterInv'
    BY <1>1, <1>2, <1>6, AllowKeepsInv DEF Serve
  <2>2. Resolve(key) \in Tenants
    BY <1>6 DEF Serve, Resolve
  <2>3. admitted' = [admitted EXCEPT ![Resolve(key)] = Append(@, now)]
    BY <1>6 DEF Serve, Allow, Identity
  <2>4. QED
    BY <1>1, <1>6, <2>1, <2>2, <2>3 DEF Serve, GateInv
<1>7. CASE UNCHANGED gateVars
  BY <1>7 DEF gateVars, GateInv, LimiterInv, LimiterTypeOK, InOrder, NoneAfterNow,
     KeptAreLatest, DroppedAreOld, SlidingWindow, RefusalEnds
<1>8. QED
  BY <1>3, <1>4, <1>5, <1>6, <1>7 DEF GateNext, TimeUp

\* The queues, the clock and what the gate answered agree in every state.
THEOREM GateInvariant == GateSpec => []GateInv
BY InitEstablishesInv, NextKeepsInv, PTL DEF GateSpec

\* No window of any length the code is configured with sees more than Limit
\* admissions of one identity.
THEOREM WindowHolds == GateSpec => []SlidingWindow
<1>1. GateInv => SlidingWindow
  BY DEF GateInv, LimiterInv
<1>2. QED
  BY <1>1, GateInvariant, PTL

\* Guesses of keys are limited per address.
THEOREM GuessesStayLimited == GateSpec => []GuessesLimited
<1>1. GateInv => GuessesLimited
  BY ApiGateAssumption DEF ApiGateAssumption, GateInv, LimiterInv, SlidingWindow,
     GuessesLimited
<1>2. QED
  BY <1>1, GateInvariant, PTL

\* A new refusal of an identity is a step in which check() refuses it.
LEMMA NewRefusalIsRefuse ==
  ASSUME GateInv, [GateNext]_gateVars, NEW i \in Identities,
         refused'[i] # {}, refused'[i] # refused[i]
  PROVE  Refuse(i)
<1> USE DEF GateInv, LimiterInv, LimiterTypeOK
<1>1. ASSUME NEW key \in Keys, NEW client \in Clients, TooMany(key, client) PROVE Refuse(i)
  <2>1. Refuse(Identity(key, client))
    BY <1>1 DEF TooMany
  <2>2. Identity(key, client) = i
    BY <2>1 DEF Refuse
  <2>3. QED
    BY <2>1, <2>2
<1>2. ASSUME NEW j, Allow(j) PROVE FALSE
  BY <1>2 DEF Allow
<1>3. ~ UNCHANGED gateVars /\ ~ GateTick
  BY DEF gateVars, GateTick, Tick
<1>4. QED
  BY <1>1, <1>2, <1>3 DEF GateNext, Unauthorized, Serve, TimeUp

\* A tenant is refused only for requests of its own within the last window.
THEOREM TenantBudgetHolds == GateSpec => TenantSpendsItsOwnBudget
<1>1. ASSUME GateInv, [GateNext]_gateVars, NEW t \in Tenants,
             refused'[t] # {}, refused'[t] # refused[t]
      PROVE  /\ Len(served[t]) >= Limit
             /\ served[t][Len(served[t]) - Limit + 1] > now - Window
  <2>1. t \in Identities /\ served[t] = admitted[t]
    BY <1>1, ApiGateAssumption DEF ApiGateAssumption, GateInv
  <2>2. Refuse(t)
    BY <1>1, <2>1, NewRefusalIsRefuse
  <2>3. PICK n \in 0..Len(events[t]) : Expired(t, n) /\ Len(events[t]) - n >= Limit
    BY <2>2 DEF Refuse
  <2>4. QED
    BY <1>1, <2>1, <2>3, RefusalFacts DEF GateInv
<1>2. GateInv /\ [GateNext]_gateVars =>
        [\A t \in Tenants : refused'[t] # {} /\ refused'[t] # refused[t] =>
           /\ Len(served[t]) >= Limit
           /\ served[t][Len(served[t]) - Limit + 1] > now - Window]_gateVars
  BY <1>1
<1>3. QED
  BY <1>2, GateInvariant, PTL DEF GateSpec, TenantSpendsItsOwnBudget

\* Retry-After, and the second it was rounded down by, is always long enough.
THEOREM RetryAfterIsEnough == GateSpec => RetryAfterSuffices
<1>1. ASSUME GateInv, [GateNext]_gateVars, NEW i \in Identities, NEW r \in refused[i],
             refused'[i] # {}, refused'[i] # refused[i]
      PROVE  now < r.at + (r.retryAfter + 1) * Second
  <2>1. Refuse(i)
    BY <1>1, NewRefusalIsRefuse
  <2>2. PICK n \in 0..Len(events[i]) : Expired(i, n) /\ Len(events[i]) - n >= Limit
    BY <2>1 DEF Refuse
  <2>3. admitted[i][Len(admitted[i]) - Limit + 1] > now - Window
    BY <1>1, <2>2, RefusalFacts DEF GateInv
  <2>4. admitted[i][Len(admitted[i]) - Limit + 1] + Window
          < r.at + (r.retryAfter + 1) * Second
    BY <1>1 DEF GateInv, LimiterInv, RefusalEnds
  <2>5. /\ Len(admitted[i]) - Limit + 1 \in DOMAIN admitted[i]
        /\ admitted[i] \in Seq(Nat)
    BY <1>1, RateLimiterAssumption
       DEF RateLimiterAssumption, GateInv, LimiterInv, LimiterTypeOK, RefusalEnds
  <2>6. /\ admitted[i][Len(admitted[i]) - Limit + 1] \in Nat
        /\ now \in Nat /\ Window \in Nat
    BY <1>1, <2>5, WindowType DEF GateInv, LimiterInv, LimiterTypeOK
  <2>7. r.at \in Nat /\ r.retryAfter \in Nat
    BY <1>1 DEF GateInv, LimiterInv, LimiterTypeOK
  <2>8. r.at + (r.retryAfter + 1) * Second \in Nat
    BY <2>7, RateLimiterAssumption DEF RateLimiterAssumption
  <2>9. QED
    BY <2>3, <2>4, <2>6, <2>8
<1>2. GateInv /\ [GateNext]_gateVars =>
        [\A i \in Identities : \A r \in refused[i] :
           refused'[i] # {} /\ refused'[i] # refused[i] =>
             now < r.at + (r.retryAfter + 1) * Second]_gateVars
  BY <1>1
<1>3. QED
  BY <1>2, GateInvariant, PTL DEF GateSpec, RetryAfterSuffices
=============================================================================
