----------------------------- MODULE RateLimit -----------------------------
(***************************************************************************)
(* The fixed-window rate limiter of internal/store/ratelimit.go and the    *)
(* middleware's limit around it.                                           *)
(*                                                                         *)
(* Allow reads the clock, truncates it to the window, and then counts the  *)
(* request with one upsert.  Between the two the clock goes on, other      *)
(* requests are counted, the window ends, and a prune may run.  Counts are *)
(* rows of the database: a restart of the process changes nothing, and the *)
(* processes of a rolling deploy share them (their clocks are one here;    *)
(* skew between them adds to Delay).                                       *)
(***************************************************************************)
EXTENDS Naturals

CONSTANTS
    Workers,    \* requests that run at the same time
    Buckets,
    Limit,      \* admitted requests per bucket and window (3 or 5 in the handlers)
    Window,     \* length of a window
    Delay,      \* longest time from reading the clock to the upsert
    OlderThan,  \* age at which PruneRateLimits drops a window
    MaxAsks,    \* bound on the requests a behaviour counts
    MaxTime,    \* bound on the clock
    None

ASSUME LimiterConstants ==
    /\ Limit \in Nat /\ MaxAsks \in Nat /\ MaxTime \in Nat /\ Delay \in Nat
    /\ Window \in Nat \ {0}
    /\ OlderThan \in Nat
    /\ None \notin Buckets

\* Prune keeps a window for a day; windows are an hour at most, and no request
\* waits a day for its upsert.
ASSUME PruneAssumption == Window + Delay <= OlderThan

VARIABLES
    now,        \* db.now()
    count,      \* rate_limits: count by bucket and window_start, 0 if no row
    at,         \* where each request is in limit
    bucket,     \* its bucket
    asked,      \* what it read from the clock
    asks,       \* the requests made so far
    passed      \* history: requests let through, by bucket and the window they came in

limiterVars == <<now, count, at, bucket, asked, asks, passed>>

Times == 0..MaxTime
Answers == {"pass", "over", "error"}

\* time.Truncate.
Truncate(t) == t - (t % Window)

LimiterTypeOK ==
    /\ now \in Times
    /\ count \in [Buckets -> [Times -> 0..MaxAsks]]
    /\ at \in [Workers -> {"idle", "upsert"} \cup Answers]
    /\ bucket \in [Workers -> Buckets \cup {None}]
    /\ asked \in [Workers -> Times] /\ asks \in 0..MaxAsks
    /\ passed \in [Buckets -> [Times -> Nat]]
    /\ \A w \in Workers : at[w] # "idle" => bucket[w] \in Buckets /\ asked[w] <= now

LimiterInit ==
    /\ now = 0
    /\ count = [b \in Buckets |-> [t \in Times |-> 0]]
    /\ at = [w \in Workers |-> "idle"]
    /\ bucket = [w \in Workers |-> None]
    /\ asked = [w \in Workers |-> 0] /\ asks = 0
    /\ passed = [b \in Buckets |-> [t \in Times |-> 0]]

-----------------------------------------------------------------------------
\* The row w's request is counted in.
Start(w) == Truncate(asked[w])

\* limit calls Allow, which reads the clock.
AllowCall(w, b) ==
    /\ at[w] = "idle"
    /\ asks < MaxAsks
    /\ asks' = asks + 1
    /\ at' = [at EXCEPT ![w] = "upsert"]
    /\ bucket' = [bucket EXCEPT ![w] = b]
    /\ asked' = [asked EXCEPT ![w] = now]
    /\ UNCHANGED <<now, count, passed>>

\* The beginning of the window in which w's request came.
Came(w) == asked[w] - (asked[w] % Window)

Answer(w, a) ==
    /\ at' = [at EXCEPT ![w] = a]
    /\ passed' = IF a = "pass" THEN [passed EXCEPT ![bucket[w]][Came(w)] = @ + 1] ELSE passed

\* INSERT ... ON CONFLICT DO UPDATE ... RETURNING count.
AllowUpsert(w) ==
    LET n == count[bucket[w]][Start(w)] + 1 IN
    /\ at[w] = "upsert"
    /\ count' = [count EXCEPT ![bucket[w]][Start(w)] = n]
    /\ Answer(w, IF n <= Limit THEN "pass" ELSE "over")
    /\ UNCHANGED <<now, bucket, asked, asks>>

\* The database does not answer, with the request counted or not: limit
\* answers 500 and the request goes no further.
AllowError(w) ==
    /\ at[w] = "upsert"
    /\ \/ UNCHANGED count
       \/ count' = [count EXCEPT ![bucket[w]][Start(w)] = @ + 1]
    /\ Answer(w, "error")
    /\ UNCHANGED <<now, bucket, asked, asks>>

\* The request is over.
AllowDone(w) ==
    /\ at[w] \in Answers
    /\ at' = [at EXCEPT ![w] = "idle"]
    /\ bucket' = [bucket EXCEPT ![w] = None]
    /\ asked' = [asked EXCEPT ![w] = 0]
    /\ UNCHANGED <<now, count, asks, passed>>

\* Faulty variant: every window that has begun before now is dropped.
PruneBegun ==
    /\ count' = [b \in Buckets |-> [t \in Times |-> IF t < now THEN 0 ELSE count[b][t]]]
    /\ UNCHANGED <<now, at, bucket, asked, asks, passed>>

PruneRateLimits ==
    /\ count' = [b \in Buckets |->
                    [t \in Times |-> IF t + OlderThan < now THEN 0 ELSE count[b][t]]]
    /\ UNCHANGED <<now, at, bucket, asked, asks, passed>>

Tick ==
    /\ now < MaxTime
    /\ \A w \in Workers : at[w] = "upsert" => now < asked[w] + Delay
    /\ now' = now + 1
    /\ UNCHANGED <<count, at, bucket, asked, asks, passed>>

LimiterNext ==
    \/ \E w \in Workers :
        \/ \E b \in Buckets : AllowCall(w, b)
        \/ AllowUpsert(w) \/ AllowError(w) \/ AllowDone(w)
    \/ PruneRateLimits
    \/ Tick

LimiterSpec == LimiterInit /\ [][LimiterNext]_limiterVars

-----------------------------------------------------------------------------
(***************************************************************************)
(* Properties.                                                             *)
(***************************************************************************)
\* Of the requests for one bucket that come in one window no more than Limit
\* get through, whether they are counted in that window or later, whatever
\* fails, and whatever prune deletes meanwhile.  An interval as long as a
\* window meets two of them, so it lets through twice the limit at most
\* (Allow, PruneRateLimits, limit).
WindowBudget == \A b \in Buckets, t \in Times : passed[b][t] <= Limit
=============================================================================
