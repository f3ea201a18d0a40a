------------------------------- MODULE ApiGate -------------------------------
(***************************************************************************)
(* The HTTP middleware of app/main.py over app/auth.py and the limiter:    *)
(* what a request to a protected path meets before its handler.  The key   *)
(* is resolved to a tenant, the identity that pays is the tenant or else   *)
(* the client's address, the limiter answers 429, and only then is a       *)
(* missing tenant answered 401.                                            *)
(*                                                                         *)
(* An identity made of an address starts with "unauthenticated:", and a    *)
(* tenant's name cannot hold a colon: the two kinds are disjoint.          *)
(***************************************************************************)
EXTENDS RateLimiter

CONSTANTS Tenants, Clients, Keys,
          TenantOf,     \* the registry: configured keys -> tenants
          NoTenant,     \* resolve() answers None
          LocalDemo     \* the tenant of everyone when no key is configured

ASSUME ApiGateAssumption ==
  /\ Tenants \cap Clients = {}
  /\ Identities = Tenants \cup Clients
  /\ NoTenant \notin Tenants
  /\ LocalDemo \in Tenants
  /\ DOMAIN TenantOf \subseteq Keys
  /\ \A k \in DOMAIN TenantOf : TenantOf[k] \in Tenants

VARIABLES
  served,     \* observation: the times a tenant's requests reached a handler
  guesses     \* observation: the times a client was answered 401

gateVars == <<now, events, admitted, refused, served, guesses>>

GateInit ==
  /\ LimiterInit
  /\ served = [t \in Tenants |-> << >>]
  /\ guesses = [c \in Clients |-> << >>]

\* APIKeyRegistry.resolve
Resolve(key) ==
  IF DOMAIN TenantOf = {} THEN LocalDemo
  ELSE IF key \in DOMAIN TenantOf THEN TenantOf[key] ELSE NoTenant

Identity(key, client) == IF Resolve(key) # NoTenant THEN Resolve(key) ELSE client
-----------------------------------------------------------------------------
\* 429
TooMany(key, client) ==
  /\ Refuse(Identity(key, client))
  /\ UNCHANGED <<served, guesses>>

\* A plausible slip: a wrong key is turned away before it is counted.
UnauthorizedUncounted(key, client) ==
  /\ Resolve(key) = NoTenant
  /\ guesses' = [guesses EXCEPT ![client] = Append(@, now)]
  /\ UNCHANGED <<now, events, admitted, refused, served>>

\* 401
Unauthorized(key, client) ==
  /\ Resolve(key) = NoTenant
  /\ Allow(Identity(key, client))
  /\ guesses' = [guesses EXCEPT ![client] = Append(@, now)]
  /\ UNCHANGED served

\* call_next
Serve(key, client) ==
  /\ Resolve(key) # NoTenant
  /\ Allow(Identity(key, client))
  /\ served' = [served EXCEPT ![Resolve(key)] = Append(@, now)]
  /\ UNCHANGED guesses

GateTick == Tick /\ UNCHANGED <<served, guesses>>

\* The clock has reached the bound.
TimeUp == now = MaxTime /\ UNCHANGED gateVars

GateNext ==
  \/ GateTick
  \/ \E key \in Keys, client \in Clients :
       TooMany(key, client) \/ Unauthorized(key, client) \/ Serve(key, client)
  \/ TimeUp

GateSpec == GateInit /\ [][GateNext]_gateVars
-----------------------------------------------------------------------------
\* tests/test_api.py:117: attempts without a valid key are limited like any
\* others, per address: at most Limit answers 401 in any window.
GuessesLimited ==
  \A c \in Clients : \A k \in 1..(Len(guesses[c]) - Limit) :
    guesses[c][k + Limit] - guesses[c][k] >= Window

\* A tenant is refused only when Limit requests of its own were served within
\* the last window: nobody else's requests, and no refused one, use its budget.
TenantSpendsItsOwnBudget ==
  [][\A t \in Tenants : refused'[t] # {} /\ refused'[t] # refused[t] =>
       /\ Len(served[t]) >= Limit
       /\ served[t][Len(served[t]) - Limit + 1] > now - Window]_gateVars

\* Who waits as long as Retry-After says, and the second it was rounded down
\* by, is not refused again.
RetryAfterSuffices ==
  [][\A i \in Identities : \A r \in refused[i] :
       refused'[i] # {} /\ refused'[i] # refused[i] =>
         now < r.at + (r.retryAfter + 1) * Second]_gateVars

\* What a tenant was served and what an address was denied is what the
\* limiter admitted for them.
GateInv ==
  /\ LimiterInv
  /\ served = [t \in Tenants |-> admitted[t]]
  /\ guesses = [c \in Clients |-> admitted[c]]
=============================================================================
