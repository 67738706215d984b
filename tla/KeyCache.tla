------------------------------ MODULE KeyCache ------------------------------
(***************************************************************************)
(* The signing keys of authsvc and the copy of them that an application    *)
(* verifies tokens with: the key set published by internal/token, its      *)
(* rotation by redeploying with the next key promoted, and the background  *)
(* refresh of the cache in sdk/go/keys.go (sdk/rust/src/keys.rs follows    *)
(* the same steps).                                                        *)
(*                                                                         *)
(* The keys are numbered in the order they come into use.  A deployment    *)
(* whose ED25519_PRIVATE_KEY is key n has key n + 1 as the next one, so a  *)
(* published key set is known by the number of its signing key.  The       *)
(* service runs at two addresses, redeployed one after the other.          *)
(***************************************************************************)
EXTENDS Naturals

CONSTANTS
    Goroutines,     \* refreshes that may be under way in one application
    None,           \* no key set, nobody
    Empty,          \* an answer without keys
    JWKSRefresh,    \* age at which a request triggers a refresh
    JWKSMaxStale,   \* age past which the cache answers no more
    FetchTimeout,   \* longest time a fetch may take
    AccessTTL,      \* lifetime of an access token
    RotateEvery,    \* shortest time between two promotions of a key
    MaxRotations,   \* bound on the promotions
    MaxTime         \* bound on the clock

ASSUME KeyConstants ==
    /\ None \notin Nat /\ Empty \notin Nat /\ None # Empty
    /\ None \notin Goroutines
    /\ JWKSRefresh \in Nat \ {0}
    /\ JWKSMaxStale \in Nat \ {0}
    /\ FetchTimeout \in Nat
    /\ AccessTTL \in Nat
    /\ RotateEvery \in Nat
    /\ MaxRotations \in Nat
    /\ MaxTime \in Nat

\* Key n + 1 signs only when every cache that still answers may know it.
ASSUME RotationPolicy == RotateEvery > JWKSMaxStale + FetchTimeout

VARIABLES
    now,
    epoch,        \* the number of the signing key of each deployment
    rotatedAt,    \* when a deployment last changed its keys
    droppedAt,    \* when a key was last published, for the retired ones
    validFor,     \* how long the last access token signed by each key is still valid
    up,           \* the deployments that answer
    set,          \* keyCache.set: a key set, or None
    fetchedAt,    \* keyCache.fetchedAt
    servedAt,     \* history: when the cached set was served
    pc,           \* where the fetch of each goroutine stands
    since,        \* when it began
    answer,       \* the key set it was given
    served,       \* history: when it was given that
    refreshing,   \* keyCache.refreshing: the goroutine that holds it
    warmed,       \* New has returned
    closed        \* Close was called

service == <<epoch, rotatedAt, droppedAt, validFor>>
cache   == <<set, fetchedAt, servedAt>>
fetch   == <<pc, since, answer, served>>
vars    == <<now, service, up, cache, fetch, refreshing, warmed, closed>>

Servers == {"primary", "fallback"}
Epochs  == 0..MaxRotations
Keys    == 0..(MaxRotations + 1)

\* Every variable holds a value of its kind; nobody holds the refresh lock
\* without a fetch under way (the deferred Unlock of refresh).
TypeOK ==
    /\ now \in 0..MaxTime
    /\ epoch \in [Servers -> Epochs]
    /\ rotatedAt \in 0..MaxTime
    /\ droppedAt \in [Keys -> 0..MaxTime]
    /\ validFor \in [Keys -> 0..AccessTTL]
    /\ up \in SUBSET Servers
    /\ set \in Epochs \cup {None, Empty}
    /\ fetchedAt \in 0..MaxTime
    /\ servedAt \in 0..MaxTime
    /\ pc \in [Goroutines -> {"idle", "failed", "store"} \cup Servers]
    /\ since \in [Goroutines -> 0..MaxTime]
    /\ answer \in [Goroutines -> Epochs \cup {None, Empty}]
    /\ served \in [Goroutines -> 0..MaxTime]
    /\ refreshing \in Goroutines \cup {None}
    /\ warmed \in BOOLEAN
    /\ closed \in BOOLEAN
    /\ refreshing # None => pc[refreshing] # "idle"

Init ==
    /\ now = 0
    /\ epoch = [s \in Servers |-> 0]
    /\ rotatedAt = 0
    /\ droppedAt = [k \in Keys |-> 0]
    /\ validFor = [k \in Keys |-> 0]
    /\ up \in SUBSET Servers
    /\ set = None /\ fetchedAt = 0 /\ servedAt = 0
    /\ pc = [g \in Goroutines |-> "idle"]
    /\ since = [g \in Goroutines |-> 0]
    /\ answer = [g \in Goroutines |-> None]
    /\ served = [g \in Goroutines |-> 0]
    /\ refreshing = None
    /\ warmed = FALSE
    /\ closed = FALSE

-----------------------------------------------------------------------------
\* Faulty variant: NewSigner publishes the signing key alone.
JWKSWithoutNext(n) == {n}

\* NewSigner and JWKS: the signing key and the next one.
JWKS(n) == {n, n + 1}

Published == UNION {JWKS(epoch[s]) : s \in Servers}

\* SignAccess at deployment s.
SignAccess(s) ==
    /\ validFor' = [validFor EXCEPT ![epoch[s]] = AccessTTL]
    /\ UNCHANGED <<now, epoch, rotatedAt, droppedAt, up, cache, fetch, refreshing, warmed, closed>>

\* VerifyAccess at deployment s, for the last token signed with key k.
VerifyAccess(s, k) == k \in JWKS(epoch[s]) /\ validFor[k] > 0

\* The operator promotes the next key at s: first at one address, then, any
\* time later, at the one that lags behind.
Promote(s) ==
    /\ epoch[s] < MaxRotations
    /\ \A t \in Servers : epoch[s] <= epoch[t]
    /\ (\A t \in Servers : epoch[s] = epoch[t]) => now >= rotatedAt + RotateEvery
    /\ epoch' = [epoch EXCEPT ![s] = @ + 1]
    /\ rotatedAt' = now
    /\ droppedAt' = [k \in Keys |-> IF k \in Published THEN now ELSE droppedAt[k]]
    /\ UNCHANGED <<now, validFor, up, cache, fetch, refreshing, warmed, closed>>

\* A deployment becomes reachable, or stops answering properly.
Toggle(s) ==
    /\ up' = IF s \in up THEN up \ {s} ELSE up \cup {s}
    /\ UNCHANGED <<now, service, cache, fetch, refreshing, warmed, closed>>

-----------------------------------------------------------------------------
(***************************************************************************)
(* The cache.  New warms it without the lock, then starts the ticker; a    *)
(* ticker's refresh, and those of requests that find the cache cold or     *)
(* old, take the lock or give up.                                          *)
(***************************************************************************)
Age == now - fetchedAt

Begin(g) ==
    /\ pc' = [pc EXCEPT ![g] = "primary"]
    /\ since' = [since EXCEPT ![g] = now]
    /\ UNCHANGED <<answer, served>>

Warm(g) ==
    /\ ~warmed
    /\ \A h \in Goroutines : pc[h] = "idle"
    /\ Begin(g)
    /\ UNCHANGED <<now, service, up, cache, refreshing, warmed, closed>>

\* Faulty variant: refreshes do not exclude one another.
RefreshUnguarded(g) ==
    /\ warmed
    /\ ~closed \/ set = None \/ Age > JWKSRefresh
    /\ pc[g] = "idle"
    /\ Begin(g)
    /\ UNCHANGED <<now, service, up, cache, refreshing, warmed, closed>>

\* run's ticker until Close, and get's "go k.refresh()".
Refresh(g) ==
    /\ warmed
    /\ ~closed \/ set = None \/ Age > JWKSRefresh
    /\ pc[g] = "idle"
    /\ refreshing = None
    /\ refreshing' = g
    /\ Begin(g)
    /\ UNCHANGED <<now, service, up, cache, warmed, closed>>

(***************************************************************************)
(* getWithFallback: a deployment that answers gives its key set; one that  *)
(* does not gives a transport error or a 5xx, after which the fallback is  *)
(* asked, or an error that is final (a 4xx, no fallback, or the fallback's *)
(* own), or a body without keys.                                           *)
(***************************************************************************)
Given(g, n) ==
    /\ pc' = [pc EXCEPT ![g] = "store"]
    /\ answer' = [answer EXCEPT ![g] = n]
    /\ served' = [served EXCEPT ![g] = now]
    /\ UNCHANGED since

Answered(g, s) ==
    /\ pc[g] = s
    /\ s \in up
    /\ Given(g, epoch[s])
    /\ UNCHANGED <<now, service, up, cache, refreshing, warmed, closed>>

FailOver(g) ==
    /\ pc[g] = "primary"
    /\ "primary" \notin up
    /\ pc' = [pc EXCEPT ![g] = "fallback"]
    /\ UNCHANGED <<since, answer, served, now, service, up, cache, refreshing, warmed, closed>>

Refused(g, s) ==
    /\ pc[g] = s
    /\ s \notin up
    /\ \/ pc' = [pc EXCEPT ![g] = "failed"] /\ UNCHANGED <<since, answer, served>>
       \/ Given(g, Empty)
    /\ UNCHANGED <<now, service, up, cache, refreshing, warmed, closed>>

Reset(g) ==
    /\ pc' = [pc EXCEPT ![g] = "idle"]
    /\ since' = [since EXCEPT ![g] = 0]
    /\ answer' = [answer EXCEPT ![g] = None]
    /\ served' = [served EXCEPT ![g] = 0]

\* Faulty variant: a failed fetch leaves the lock behind.
DoneWithoutUnlock(g) ==
    /\ Reset(g)
    /\ refreshing' = refreshing
    /\ warmed' = TRUE

\* fetch returns: the lock is released, and New goes on after the first one.
Done(g) ==
    /\ Reset(g)
    /\ refreshing' = IF refreshing = g THEN None ELSE refreshing
    /\ warmed' = TRUE

Store(g) ==
    /\ pc[g] = "store"
    /\ answer[g] # Empty
    /\ set' = answer[g]
    /\ fetchedAt' = now
    /\ servedAt' = served[g]
    /\ Done(g)
    /\ UNCHANGED <<now, service, up, closed>>

\* Faulty variant: the time of the fetch is noted before its result is known.
FetchErrorStamps(g) ==
    /\ \/ pc[g] = "failed"
       \/ pc[g] = "store" /\ answer[g] = Empty
    /\ fetchedAt' = now
    /\ Done(g)
    /\ UNCHANGED <<now, service, up, set, servedAt, closed>>

\* Nothing but lastErr is written: the cached set stays.
FetchError(g) ==
    /\ \/ pc[g] = "failed"
       \/ pc[g] = "store" /\ answer[g] = Empty
    /\ Done(g)
    /\ UNCHANGED <<now, service, up, cache, closed>>

Close ==
    /\ warmed
    /\ closed' = TRUE
    /\ UNCHANGED <<now, service, up, cache, fetch, refreshing, warmed>>

\* A fetch is over before its context times out.
Tick ==
    /\ now < MaxTime
    /\ \A g \in Goroutines : pc[g] # "idle" => now < since[g] + FetchTimeout
    /\ now' = now + 1
    /\ validFor' = [k \in Keys |-> IF validFor[k] > 0 THEN validFor[k] - 1 ELSE 0]
    /\ UNCHANGED <<epoch, rotatedAt, droppedAt, up, cache, fetch, refreshing, warmed, closed>>

Next ==
    \/ \E s \in Servers : SignAccess(s) \/ Promote(s) \/ Toggle(s)
    \/ \E g \in Goroutines :
        \/ Warm(g)
        \/ Refresh(g)
        \/ \E s \in Servers : Answered(g, s) \/ Refused(g, s)
        \/ FailOver(g)
        \/ Store(g)
        \/ FetchError(g)
    \/ Close
    \/ Tick

Spec == Init /\ [][Next]_vars

(***************************************************************************)
(* Fairness: a fetch that has begun ends (its context times out), New      *)
(* warms the cache, and the ticker goes on firing until Close, so that     *)
(* some goroutine refreshes.                                               *)
(***************************************************************************)
Fetching(g) ==
    \/ \E s \in Servers : Answered(g, s) \/ Refused(g, s)
    \/ FailOver(g)
    \/ Store(g)
    \/ FetchError(g)

Fairness ==
    /\ \A g \in Goroutines : WF_vars(Fetching(g))
    /\ WF_vars(\E g \in Goroutines : Warm(g))
    /\ WF_vars(\E g \in Goroutines : Refresh(g))

FairSpec == Spec /\ Fairness

-----------------------------------------------------------------------------
(***************************************************************************)
(* Properties.                                                             *)
(***************************************************************************)

\* keyCache.get: the keys the application verifies with now, or none.
Trusted == IF set \in Epochs /\ Age <= JWKSMaxStale THEN JWKS(set) ELSE {}

\* Verify: a token is good if its key is trusted and its time is not over.
Verify(k, left) == k \in Trusted /\ left > 0

\* RequireUser's answer to a token signed by key k; a cache that has no keys
\* to offer is the service's problem (errorIsKeyProblem).
RequireUser(k, left) ==
    IF set = None \/ Age > JWKSMaxStale THEN "keys_unavailable"
    ELSE IF Verify(k, left) THEN "next" ELSE "unauthorized"

\* A user with a token just signed by the deployment promoted last is never
\* told to log in again, although the cached set may be a week old, came from
\* the address that lags behind, or was stored after a slow fetch (NewSigner
\* publishes the next key; RotationPolicy says how often it is promoted).
SeamlessRotation ==
    \A s \in Servers :
        AccessTTL > 0 /\ (\A t \in Servers : epoch[t] <= epoch[s])
            => RequireUser(epoch[s], AccessTTL) # "unauthorized"

\* A key taken out of service is trusted by an application for JWKSMaxStale
\* and one fetch at most, however long no refresh succeeds (Config's
\* JWKSMaxStale, get).
TrustBound ==
    \A k \in Trusted : k \in Published \/ now <= droppedAt[k] + JWKSMaxStale + FetchTimeout

\* The cache never goes back to an answer older than the one it holds, though
\* requests, the ticker and New all start fetches (refresh's TryLock).
NoOlderAnswer == [][servedAt' >= servedAt]_vars

\* Once the service stays reachable, the cache catches up with its keys again
\* and again, whatever failed before (run, refresh's deferred Unlock).
CatchesUp ==
    (<>[]("primary" \in up) /\ []~closed) => []<>(set = epoch["primary"])

\* token.go:170, "It accepts any key currently in the JWKS, which is what makes
\* rotation seamless": both deployments accept a token that has not expired.
UnexpiredAccepted ==
    \A s \in Servers, k \in Keys : validFor[k] > 0 => VerifyAccess(s, k)
=============================================================================
