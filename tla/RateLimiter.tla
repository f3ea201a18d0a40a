----------------------------- MODULE RateLimiter -----------------------------
(***************************************************************************)
(* app/rate_limit.py: SlidingWindowRateLimiter.  Each identity has a queue *)
(* of the times of its admitted requests; check() drops those that have    *)
(* left the window, then admits or refuses.  Time is counted in ticks, a   *)
(* second being several, so that the rounding of Retry-After shows.        *)
(* check() runs whole under the limiter's lock, and its one caller runs on *)
(* the event loop, so the clock it reads never goes back.                  *)
(***************************************************************************)
EXTENDS Integers, Sequences

CONSTANTS Identities,
          Limit,          \* requests_per_minute
          Second,         \* ticks in a second
          WindowSeconds,  \* 60 in the code
          MaxTime         \* bound: the last tick

ASSUME RateLimiterAssumption ==
  /\ Limit \in Nat \ {0}
  /\ Second \in Nat \ {0}
  /\ WindowSeconds \in Nat \ {0}
  /\ MaxTime \in Nat

Window == WindowSeconds * Second

VARIABLES
  now,        \* time.monotonic()
  events,     \* _events: the times kept for each identity
  admitted,   \* observation: the times of every admitted request
  refused     \* observation: the last refusal since the last admission, as a set

limiterVars == <<now, events, admitted, refused>>

LimiterTypeOK ==
  /\ now \in 0..MaxTime
  /\ events \in [Identities -> Seq(Nat)]
  /\ admitted \in [Identities -> Seq(Nat)]
  /\ refused \in [Identities -> SUBSET [at : Nat, retryAfter : Nat]]

LimiterInit ==
  /\ now = 0
  /\ events = [i \in Identities |-> << >>]
  /\ admitted = [i \in Identities |-> << >>]
  /\ refused = [i \in Identities |-> {}]
-----------------------------------------------------------------------------
Tick ==
  /\ now < MaxTime
  /\ now' = now + 1
  /\ UNCHANGED <<events, admitted, refused>>

\* A plausible slip: an event exactly a window old is kept.
ExpiredLate(i, n) ==
  /\ \A k \in 1..n : events[i][k] < now - Window
  /\ n < Len(events[i]) => events[i][n + 1] >= now - Window

\* while events and events[0] <= cutoff: the first n events are popped
Expired(i, n) ==
  /\ \A k \in 1..n : events[i][k] <= now - Window
  /\ n < Len(events[i]) => events[i][n + 1] > now - Window

Kept(i, n) == SubSeq(events[i], n + 1, Len(events[i]))

\* A plausible slip: a queue that is full still takes one more.
AllowOneMore(i) ==
  \E n \in 0..Len(events[i]) :
    /\ Expired(i, n)
    /\ Len(events[i]) - n <= Limit
    /\ events' = [events EXCEPT ![i] = Append(Kept(i, n), now)]
    /\ admitted' = [admitted EXCEPT ![i] = Append(@, now)]
    /\ refused' = [refused EXCEPT ![i] = {}]
    /\ UNCHANGED now

\* check() answers (True, 0)
Allow(i) ==
  \E n \in 0..Len(events[i]) :
    /\ Expired(i, n)
    /\ Len(events[i]) - n < Limit
    /\ events' = [events EXCEPT ![i] = Append(Kept(i, n), now)]
    /\ admitted' = [admitted EXCEPT ![i] = Append(@, now)]
    /\ refused' = [refused EXCEPT ![i] = {}]
    /\ UNCHANGED now

\* A plausible slip: the time the oldest request has been kept, not the rest.
RetryAfterElapsed(oldest) ==
  LET seconds == (now - oldest) \div Second
  IN  IF seconds > 1 THEN seconds ELSE 1

\* max(1, int(60 - (timestamp - events[0]))), in whole seconds
RetryAfter(oldest) ==
  LET seconds == (Window - (now - oldest)) \div Second
  IN  IF seconds > 1 THEN seconds ELSE 1

\* A plausible slip: a refused request counts too.
RefuseCounting(i) ==
  \E n \in 0..Len(events[i]) :
    /\ Expired(i, n)
    /\ Len(events[i]) - n >= Limit
    /\ events' = [events EXCEPT ![i] = Append(Kept(i, n), now)]
    /\ refused' = [refused EXCEPT ![i] =
                     {[at |-> now, retryAfter |-> RetryAfter(events[i][n + 1])]}]
    /\ UNCHANGED <<now, admitted>>

\* check() answers (False, retry_after)
Refuse(i) ==
  \E n \in 0..Len(events[i]) :
    /\ Expired(i, n)
    /\ Len(events[i]) - n >= Limit
    /\ events' = [events EXCEPT ![i] = Kept(i, n)]
    /\ refused' = [refused EXCEPT ![i] =
                     {[at |-> now, retryAfter |-> RetryAfter(events[i][n + 1])]}]
    /\ UNCHANGED <<now, admitted>>
-----------------------------------------------------------------------------
\* No more than Limit requests of one identity are admitted in any window,
\* wherever it begins: the request Limit places later is a window later.
SlidingWindow ==
  \A i \in Identities : \A k \in 1..(Len(admitted[i]) - Limit) :
    admitted[i][k + Limit] - admitted[i][k] >= Window

(* The inductive invariant behind it.                                      *)

InOrder(times) ==
  \A j, k \in DOMAIN times : j <= k => times[j] <= times[k]

NoneAfterNow ==
  \A i \in Identities : \A k \in DOMAIN admitted[i] : admitted[i][k] <= now

\* What is kept is the latest part of what was admitted ...
KeptAreLatest ==
  \A i \in Identities :
    /\ Len(events[i]) <= Limit
    /\ Len(events[i]) <= Len(admitted[i])
    /\ \A k \in DOMAIN events[i] :
         events[i][k] = admitted[i][Len(admitted[i]) - Len(events[i]) + k]

\* ... and the rest had left the window when it was dropped.
DroppedAreOld ==
  \A i \in Identities :
    \A k \in 1..(Len(admitted[i]) - Len(events[i])) : admitted[i][k] <= now - Window

\* What refuses an identity, the request Limit places from its last, leaves
\* the window before the answered Retry-After and a second more are over.
RefusalEnds ==
  \A i \in Identities : \A r \in refused[i] :
    /\ Len(admitted[i]) >= Limit
    /\ admitted[i][Len(admitted[i]) - Limit + 1] + Window < r.at + (r.retryAfter + 1) * Second

LimiterInv ==
  /\ LimiterTypeOK
  /\ \A i \in Identities : InOrder(admitted[i])
  /\ NoneAfterNow
  /\ KeptAreLatest
  /\ DroppedAreOld
  /\ SlidingWindow
  /\ RefusalEnds
=============================================================================
