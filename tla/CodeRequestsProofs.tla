------------------------ MODULE CodeRequestsProofs --------------------------
(***************************************************************************)
(* Proofs about RateLimit and CodeRequests: any number of requests,        *)
(* addresses and clients, any limits and times that PruneAssumption        *)
(* allows.                                                                 *)
(***************************************************************************)
EXTENDS CodeRequests, FiniteSetTheorems, SequenceTheorems, TLAPS

(***************************************************************************)
(* The limiter.                                                            *)
(***************************************************************************)

\* The requests that are going to count in a row.
Pending(b, t) == {w \in Workers : at[w] = "upsert" /\ bucket[w] = b /\ Start(w) = t}

\* Every count is of a request that was made.
CountInv ==
    \A b \in Buckets, t \in Times :
        /\ IsFiniteSet(Pending(b, t))
        /\ count[b][t] + Cardinality(Pending(b, t)) <= asks

\* No request waits longer than Delay for its upsert.
DelayInv == \A w \in Workers : at[w] = "upsert" => now <= asked[w] + Delay

\* A row that prune may not delete yet counts whoever got through.
BudgetInv ==
    \A b \in Buckets, t \in Times :
        /\ passed[b][t] <= Limit
        /\ now <= t + OlderThan => passed[b][t] <= count[b][t]

LimiterInv == LimiterTypeOK /\ CountInv /\ DelayInv /\ BudgetInv

\* A window begins before every time in it, by less than its length.
LEMMA TruncateFacts ==
    ASSUME NEW t \in Times
    PROVE  Truncate(t) \in Times /\ Truncate(t) <= t /\ t < Truncate(t) + Window
<1>1. t % Window \in 0..(Window - 1) /\ t % Window <= t
  BY LimiterConstants DEF LimiterConstants, Times
<1> QED
  BY <1>1, LimiterConstants DEF LimiterConstants, Times, Truncate

\* Adding an element adds one to the size of a finite set, or nothing; taking one
\* out takes one off.
LEMMA Sizes ==
    ASSUME NEW S, IsFiniteSet(S), NEW x
    PROVE  /\ Cardinality(S) \in Nat
           /\ \A T \in SUBSET (S \cup {x}) :
                IsFiniteSet(T) /\ Cardinality(T) \in Nat /\ Cardinality(T) <= Cardinality(S) + 1
           /\ x \in S => /\ IsFiniteSet(S \ {x})
                         /\ Cardinality(S \ {x}) + 1 = Cardinality(S)
                         /\ Cardinality(S) >= 1
<1>1. Cardinality(S) \in Nat
  BY FS_CardinalityType
<1>2. IsFiniteSet(S \cup {x}) /\ Cardinality(S \cup {x}) <= Cardinality(S) + 1
      /\ Cardinality(S \cup {x}) \in Nat
  BY <1>1, FS_AddElement, FS_CardinalityType
<1>3. ASSUME NEW T \in SUBSET (S \cup {x})
      PROVE  IsFiniteSet(T) /\ Cardinality(T) \in Nat /\ Cardinality(T) <= Cardinality(S) + 1
  <2>1. IsFiniteSet(T) /\ Cardinality(T) <= Cardinality(S \cup {x})
    BY <1>2, FS_Subset
  <2>2. Cardinality(T) \in Nat
    BY <2>1, FS_CardinalityType
  <2> QED
    BY <1>1, <1>2, <2>1, <2>2
<1>4. ASSUME x \in S
      PROVE  /\ IsFiniteSet(S \ {x})
             /\ Cardinality(S \ {x}) + 1 = Cardinality(S)
             /\ Cardinality(S) >= 1
  <2>1. IsFiniteSet(S \ {x}) /\ Cardinality(S \ {x}) = Cardinality(S) - 1
    BY <1>4, FS_RemoveElement
  <2>2. Cardinality(S \ {x}) \in Nat
    BY <2>1, FS_CardinalityType
  <2> QED
    BY <1>1, <2>1, <2>2
<1> QED
  BY <1>1, <1>3, <1>4

\* The row of a pending request exists, and it has room for the request.
LEMMA PendingRoom ==
    ASSUME LimiterTypeOK, CountInv, NEW w \in Workers, at[w] = "upsert"
    PROVE  /\ bucket[w] \in Buckets /\ Start(w) \in Times /\ Came(w) = Start(w)
           /\ count[bucket[w]][Start(w)] \in Nat
           /\ count[bucket[w]][Start(w)] + 1 <= MaxAsks
<1>1. bucket[w] \in Buckets /\ asked[w] \in Times
  BY DEF LimiterTypeOK
<1>2. Start(w) \in Times /\ Came(w) = Start(w)
  BY <1>1, TruncateFacts DEF Start, Came, Truncate
<1>3. w \in Pending(bucket[w], Start(w))
  BY DEF Pending
<1>4. /\ Cardinality(Pending(bucket[w], Start(w))) >= 1
      /\ Cardinality(Pending(bucket[w], Start(w))) \in Nat
  BY <1>1, <1>2, <1>3, Sizes DEF CountInv
<1>5. count[bucket[w]][Start(w)] \in 0..MaxAsks /\ asks \in 0..MaxAsks
  BY <1>1, <1>2 DEF LimiterTypeOK
<1>6. count[bucket[w]][Start(w)] + Cardinality(Pending(bucket[w], Start(w))) <= asks
  BY <1>1, <1>2 DEF CountInv
<1> QED
  BY <1>1, <1>2, <1>4, <1>5, <1>6, LimiterConstants DEF LimiterConstants

\* A step of the limiter keeps the types: no counter runs past the requests made.
LEMMA LimiterTypeStep ==
    LimiterTypeOK /\ CountInv /\ [LimiterNext]_limiterVars => LimiterTypeOK'
<1> SUFFICES ASSUME LimiterTypeOK, CountInv, [LimiterNext]_limiterVars PROVE LimiterTypeOK'
  OBVIOUS
<1>1. ASSUME NEW w \in Workers, NEW b \in Buckets, AllowCall(w, b)
      PROVE  LimiterTypeOK'
  <2>1. asks' \in 0..MaxAsks
    BY <1>1, LimiterConstants DEF AllowCall, LimiterConstants, LimiterTypeOK
  <2>2. \A v \in Workers : at'[v] # "idle" => bucket'[v] \in Buckets /\ asked'[v] <= now'
    BY <1>1, LimiterConstants DEF AllowCall, LimiterConstants, LimiterTypeOK, Times
  <2> QED
    BY <1>1, <2>1, <2>2 DEF AllowCall, LimiterTypeOK
<1>2. ASSUME NEW w \in Workers, AllowUpsert(w)
      PROVE  LimiterTypeOK'
  <2> DEFINE b == bucket[w]
             s == Start(w)
  <2>1. at[w] = "upsert"
    BY <1>2 DEF AllowUpsert
  <2>2. b \in Buckets /\ s \in Times /\ Came(w) = s /\ count[b][s] + 1 \in 0..MaxAsks
    BY <2>1, PendingRoom, LimiterConstants DEF LimiterConstants
  <2>3. /\ count' = [count EXCEPT ![b][s] = count[b][s] + 1]
        /\ passed' \in {passed, [passed EXCEPT ![b][s] = passed[b][s] + 1]}
        /\ \E a \in Answers : at' = [at EXCEPT ![w] = a]
        /\ UNCHANGED <<now, bucket, asked, asks>>
    BY <1>2, <2>2 DEF AllowUpsert, Answer, Answers
  <2> HIDE DEF b, s
  <2>4. count' \in [Buckets -> [Times -> 0..MaxAsks]]
    BY <2>2, <2>3 DEF LimiterTypeOK
  <2>5. passed' \in [Buckets -> [Times -> Nat]]
    BY <2>2, <2>3 DEF LimiterTypeOK
  <2> QED
    BY <2>1, <2>3, <2>4, <2>5 DEF LimiterTypeOK
<1>3. ASSUME NEW w \in Workers, AllowError(w)
      PROVE  LimiterTypeOK'
  <2> DEFINE b == bucket[w]
             s == Start(w)
  <2>1. at[w] = "upsert"
    BY <1>3 DEF AllowError
  <2>2. b \in Buckets /\ s \in Times /\ count[b][s] + 1 \in 0..MaxAsks
    BY <2>1, PendingRoom, LimiterConstants DEF LimiterConstants
  <2>3. /\ count' \in {count, [count EXCEPT ![b][s] = count[b][s] + 1]}
        /\ passed' = passed /\ at' = [at EXCEPT ![w] = "error"]
        /\ UNCHANGED <<now, bucket, asked, asks>>
    BY <1>3, <2>2 DEF AllowError, Answer
  <2> HIDE DEF b, s
  <2>4. count' \in [Buckets -> [Times -> 0..MaxAsks]]
    <3>1. CASE count' = count
      BY <3>1 DEF LimiterTypeOK
    <3>2. CASE count' = [count EXCEPT ![b][s] = count[b][s] + 1]
      BY <2>2, <3>2 DEF LimiterTypeOK
    <3> QED
      BY <2>3, <3>1, <3>2
  <2> QED
    BY <2>1, <2>3, <2>4 DEF LimiterTypeOK, Answers
<1>4. ASSUME NEW w \in Workers, AllowDone(w)
      PROVE  LimiterTypeOK'
  BY <1>4, LimiterConstants DEF AllowDone, LimiterConstants, LimiterTypeOK, Times
<1>5. CASE PruneRateLimits
  BY <1>5, LimiterConstants DEF PruneRateLimits, LimiterConstants, LimiterTypeOK
<1>6. CASE Tick
  BY <1>6, LimiterConstants DEF Tick, LimiterConstants, LimiterTypeOK, Times
<1>7. CASE UNCHANGED limiterVars
  BY <1>7 DEF limiterVars, LimiterTypeOK
<1> QED
  BY ONLY <1>1, <1>2, <1>3, <1>4, <1>5, <1>6, <1>7, [LimiterNext]_limiterVars DEF LimiterNext

\* A request counts once at most.
LEMMA CountStep ==
    LimiterTypeOK /\ CountInv /\ [LimiterNext]_limiterVars => CountInv'
<1> SUFFICES ASSUME LimiterTypeOK, CountInv, [LimiterNext]_limiterVars,
                    NEW b \in Buckets, NEW t \in Times
             PROVE  /\ IsFiniteSet(Pending(b, t))'
                    /\ count'[b][t] + Cardinality(Pending(b, t)') <= asks'
  BY DEF CountInv
<1> DEFINE P == Pending(b, t)
<1>0. /\ IsFiniteSet(P) /\ Cardinality(P) \in Nat /\ count[b][t] \in Nat /\ asks \in Nat
      /\ count[b][t] + Cardinality(P) <= asks
  BY FS_CardinalityType, LimiterConstants DEF CountInv, LimiterTypeOK, LimiterConstants
<1>1. ASSUME NEW w \in Workers, NEW d \in Buckets, AllowCall(w, d)
      PROVE  IsFiniteSet(P') /\ count'[b][t] + Cardinality(P') <= asks'
  <2>1. P' \in SUBSET (P \cup {w})
    BY <1>1 DEF AllowCall, Pending, Start, LimiterTypeOK
  <2>2. IsFiniteSet(P') /\ Cardinality(P') \in Nat /\ Cardinality(P') <= Cardinality(P) + 1
    BY <1>0, <2>1, Sizes
  <2> QED
    BY <1>0, <1>1, <2>2 DEF AllowCall
<1>2. ASSUME NEW w \in Workers, AllowUpsert(w) \/ AllowError(w)
      PROVE  IsFiniteSet(P') /\ count'[b][t] + Cardinality(P') <= asks'
  <2>1. P' = P \ {w} /\ asks' = asks
    BY <1>2 DEF AllowUpsert, AllowError, Answer, Pending, Start, LimiterTypeOK
  <2>2. /\ at[w] = "upsert" /\ bucket[w] \in Buckets /\ Start(w) \in Times
    BY <1>2, PendingRoom DEF AllowUpsert, AllowError
  <2>3. CASE w \in P
    <3>1. count'[b][t] \in {count[b][t], count[b][t] + 1}
      BY <1>2, <2>2, <2>3 DEF AllowUpsert, AllowError, Pending, LimiterTypeOK
    <3>2. IsFiniteSet(P') /\ Cardinality(P') + 1 = Cardinality(P) /\ Cardinality(P') \in Nat
      BY <1>0, <2>1, <2>3, Sizes, FS_CardinalityType
    <3> QED
      BY <1>0, <2>1, <3>1, <3>2
  <2>4. CASE w \notin P
    <3>1. ~(bucket[w] = b /\ Start(w) = t)
      BY <2>2, <2>4 DEF Pending
    <3>2. count'[b][t] = count[b][t]
      BY <1>2, <2>2, <3>1 DEF AllowUpsert, AllowError, LimiterTypeOK
    <3>3. P' = P
      BY <2>1, <2>4
    <3> QED
      BY <1>0, <2>1, <3>2, <3>3
  <2> QED
    BY <2>3, <2>4
<1>3. ASSUME NEW w \in Workers, AllowDone(w)
      PROVE  IsFiniteSet(P') /\ count'[b][t] + Cardinality(P') <= asks'
  <2>1. P' = P
    BY <1>3 DEF AllowDone, Answers, Pending, Start, LimiterTypeOK
  <2> QED
    BY <1>0, <1>3, <2>1 DEF AllowDone
<1>4. CASE PruneRateLimits
  <2>1. P' = P /\ asks' = asks /\ count'[b][t] \in {0, count[b][t]}
    BY <1>4 DEF PruneRateLimits, Pending, Start
  <2> QED
    BY <1>0, <2>1
<1>5. CASE Tick \/ UNCHANGED limiterVars
  <2>1. P' = P /\ asks' = asks /\ count' = count
    BY <1>5 DEF Tick, limiterVars, Pending, Start
  <2> QED
    BY <1>0, <2>1
<1> QED
  BY ONLY <1>1, <1>2, <1>3, <1>4, <1>5, [LimiterNext]_limiterVars DEF LimiterNext

\* Delay bounds the wait of every request for its upsert.
LEMMA DelayStep ==
    LimiterTypeOK /\ DelayInv /\ [LimiterNext]_limiterVars => DelayInv'
<1> SUFFICES ASSUME LimiterTypeOK, DelayInv, [LimiterNext]_limiterVars PROVE DelayInv'
  OBVIOUS
<1> USE LimiterConstants DEF LimiterConstants, LimiterTypeOK, DelayInv, Times, Answers
<1>1. ASSUME NEW w \in Workers, NEW b \in Buckets, AllowCall(w, b)
      PROVE  DelayInv'
  BY <1>1 DEF AllowCall
<1>2. ASSUME NEW w \in Workers, AllowUpsert(w) \/ AllowError(w)
      PROVE  DelayInv'
  BY <1>2 DEF AllowUpsert, AllowError, Answer
<1>3. ASSUME NEW w \in Workers, AllowDone(w)
      PROVE  DelayInv'
  BY <1>3 DEF AllowDone
<1>4. CASE PruneRateLimits
  BY <1>4 DEF PruneRateLimits
<1>5. CASE Tick
  BY <1>5 DEF Tick
<1>6. CASE UNCHANGED limiterVars
  BY <1>6 DEF limiterVars
<1> QED
  BY ONLY <1>1, <1>2, <1>3, <1>4, <1>5, <1>6, [LimiterNext]_limiterVars DEF LimiterNext

\* Who gets through is counted in a row that is still there (PruneAssumption).
LEMMA BudgetStep ==
    LimiterInv /\ [LimiterNext]_limiterVars => BudgetInv'
<1> SUFFICES ASSUME LimiterInv, [LimiterNext]_limiterVars PROVE BudgetInv'
  OBVIOUS
<1> USE LimiterConstants DEF LimiterInv, LimiterConstants, LimiterTypeOK, BudgetInv, Times
<1>1. ASSUME NEW w \in Workers, NEW b \in Buckets, AllowCall(w, b)
      PROVE  BudgetInv'
  BY <1>1 DEF AllowCall
<1>2. ASSUME NEW w \in Workers, AllowUpsert(w)
      PROVE  BudgetInv'
  <2> DEFINE b == bucket[w]
             s == Start(w)
  <2>1. b \in Buckets /\ s \in Times /\ Came(w) = s /\ count[b][s] \in Nat
    BY <1>2, PendingRoom DEF AllowUpsert
  <2>2. asked[w] < s + Window /\ now <= asked[w] + Delay
    BY <1>2, TruncateFacts DEF AllowUpsert, Start, DelayInv
  <2>3. now <= s + OlderThan
    BY <2>1, <2>2, PruneAssumption DEF PruneAssumption
  <2>4. passed[b][s] <= count[b][s] /\ passed[b][s] \in Nat
    BY <2>1, <2>3
  <2>5. /\ now' = now
        /\ count' = [count EXCEPT ![b][s] = count[b][s] + 1]
        /\ passed' = IF count[b][s] + 1 <= Limit
                     THEN [passed EXCEPT ![b][s] = @ + 1] ELSE passed
    BY <1>2, <2>1 DEF AllowUpsert, Answer
  <2> HIDE DEF b, s
  <2>6. ASSUME NEW d \in Buckets, NEW t \in Times
        PROVE  /\ passed'[d][t] <= Limit
               /\ now <= t + OlderThan => passed'[d][t] <= count'[d][t]
    <3>1. CASE d = b /\ t = s
      BY <2>1, <2>4, <2>5, <3>1
    <3>2. CASE ~(d = b /\ t = s)
      <4>1. passed'[d][t] = passed[d][t] /\ count'[d][t] = count[d][t]
        BY <2>1, <2>5, <3>2
      <4> QED
        BY <4>1
    <3> QED
      BY <3>1, <3>2
  <2> QED
    BY <2>5, <2>6
<1>3. ASSUME NEW w \in Workers, AllowError(w)
      PROVE  BudgetInv'
  <2> DEFINE b == bucket[w]
             s == Start(w)
  <2>1. b \in Buckets /\ s \in Times
    BY <1>3, PendingRoom DEF AllowError
  <2>2. /\ count' \in {count, [count EXCEPT ![b][s] = count[b][s] + 1]}
        /\ passed' = passed /\ now' = now
    BY <1>3, <2>1 DEF AllowError, Answer
  <2> HIDE DEF b, s
  <2>3. ASSUME NEW d \in Buckets, NEW t \in Times
        PROVE  /\ passed'[d][t] <= Limit
               /\ now <= t + OlderThan => passed'[d][t] <= count'[d][t]
    <3>1. count[d][t] \in Nat /\ passed[d][t] \in Nat
      OBVIOUS
    <3>2. CASE count' = count
      BY <2>2, <3>2
    <3>3. CASE count' = [count EXCEPT ![b][s] = count[b][s] + 1]
      <4>1. count'[d][t] = IF d = b /\ t = s THEN count[d][t] + 1 ELSE count[d][t]
        BY <2>1, <3>3
      <4> QED
        BY <2>2, <3>1, <4>1
    <3> QED
      BY <2>2, <3>2, <3>3
  <2> QED
    BY <2>2, <2>3
<1>4. ASSUME NEW w \in Workers, AllowDone(w)
      PROVE  BudgetInv'
  BY <1>4 DEF AllowDone
<1>5. CASE PruneRateLimits
  BY <1>5 DEF PruneRateLimits
<1>6. CASE Tick
  BY <1>6 DEF Tick
<1>7. CASE UNCHANGED limiterVars
  BY <1>7 DEF limiterVars
<1> QED
  BY ONLY <1>1, <1>2, <1>3, <1>4, <1>5, <1>6, <1>7, [LimiterNext]_limiterVars DEF LimiterNext

\* The limiter's invariant holds before the first request.
LEMMA LimiterStart == LimiterInit => LimiterInv
<1> SUFFICES ASSUME LimiterInit PROVE LimiterInv
  OBVIOUS
<1> USE LimiterConstants DEF LimiterInit, LimiterConstants
<1>1. LimiterTypeOK
  BY DEF LimiterTypeOK, Times
<1>2. \A b \in Buckets, t \in Times : Pending(b, t) = {}
  BY DEF Pending
<1>3. CountInv
  BY <1>2, FS_EmptySet DEF CountInv
<1>4. DelayInv /\ BudgetInv
  BY DEF DelayInv, BudgetInv
<1> QED
  BY <1>1, <1>3, <1>4 DEF LimiterInv

\* Every step of the limiter keeps its invariant.
LEMMA LimiterStep == LimiterInv /\ [LimiterNext]_limiterVars => LimiterInv'
BY LimiterTypeStep, CountStep, DelayStep, BudgetStep DEF LimiterInv

\* The limiter's invariant, of the limiter alone.
THEOREM LimiterInvariance == LimiterSpec => []LimiterInv
BY LimiterStart, LimiterStep, PTL DEF LimiterSpec

\* The budget of a window is kept for every limit, window length, delay and
\* pruning age that PruneAssumption allows (Allow, PruneRateLimits).
THEOREM Budget == LimiterSpec => []WindowBudget
<1>1. LimiterInv => WindowBudget
  BY DEF LimiterInv, BudgetInv, WindowBudget
<1> QED
  BY <1>1, LimiterInvariance, PTL

-----------------------------------------------------------------------------
(***************************************************************************)
(* The handlers behind it.                                                 *)
(***************************************************************************)

CodeRow == [subject : Subjects, window : Times, attempts : 0..MaxOTPAttempts,
            consumed : BOOLEAN]

\* How far a request has come agrees with the limiter's answer to it.
StepInv ==
    \A w \in Workers :
        /\ step[w] = "idle" <=> at[w] = "idle"
        /\ at[w] = "upsert" => step[w] = "limit"
        /\ step[w] # "idle" => subject[w] \in Subjects /\ bucket[w] = IdBucket(subject[w])
        /\ step[w] = "send" => made[w] \in DOMAIN codes

\* A guess is counted in attempts or has consumed the code.
GuessInv ==
    /\ Len(codes) <= MaxCodes
    /\ \A i \in DOMAIN codes :
        /\ guesses[i] <= MaxOTPAttempts
        /\ ~codes[i].consumed => /\ guesses[i] <= codes[i].attempts
                                 /\ codes[i].attempts < MaxOTPAttempts
    /\ \A i \in 1..MaxCodes : i \notin DOMAIN codes => guesses[i] = 0

\* The requests let through that have not made their code yet, and the codes
\* made, by bucket and the window of the request.
Admitted(b, t) ==
    {w \in Workers : /\ step[w] \in {"limit", "issue"} /\ at[w] = "pass"
                     /\ bucket[w] = b /\ Came(w) = t}
Made(b, t) == {i \in DOMAIN codes : IdBucket(codes[i].subject) = b /\ codes[i].window = t}

\* A request that is let through makes one code at most.
MadeInv ==
    \A b \in Buckets, t \in Times :
        /\ IsFiniteSet(Admitted(b, t))
        /\ Cardinality(Made(b, t)) + Cardinality(Admitted(b, t)) <= passed[b][t]

IndInv == LimiterInv /\ TypeOK /\ StepInv /\ GuessInv /\ MadeInv

\* No code outlives its guesses, and no address gets more codes than the limiter
\* lets through for it.
GuessesPerCode == \A i \in 1..MaxCodes : guesses[i] <= MaxOTPAttempts
CodesPerWindow ==
    \A e \in Emails, t \in Times, p \in {"login_otp", "password_reset"} :
        Cardinality(CodesOf(p, e, t)) <= Limit

-----------------------------------------------------------------------------
(***************************************************************************)
(* Induction over finite sets, by a smallest counterexample, and what it   *)
(* says of the community module's sum.                                     *)
(***************************************************************************)
\* A non-empty set of subsets of a finite set has one that none of the others lies
\* directly under: what induction over a finite set comes to.
LEMMA SmallestSubset ==
    ASSUME NEW S, IsFiniteSet(S), NEW Bad \in SUBSET SUBSET S, Bad # {}
    PROVE  \E X \in Bad : \A x \in X : X \ {x} \notin Bad
<1> DEFINE R == StrictSubsetOrdering(S)
<1>1. IsWellFoundedOn(R, SUBSET S)
  <2>1. FiniteSubsetsOf(S) = SUBSET S
    BY FS_FiniteSubsetsOfFinite
  <2>2. IsWellFoundedOn(R, FiniteSubsetsOf(S))
    BY ONLY FS_StrictSubsetOrderingWellFounded
  <2> QED
    BY ONLY <2>1, <2>2
<1>2. PICK X \in Bad : \A Y \in Bad : <<Y, X>> \notin R
  <2> HIDE DEF R
  <2> QED
    BY <1>1, WFMin
<1>3. \A x \in X : <<X \ {x}, X>> \in R
  BY DEF StrictSubsetOrdering
<1> QED
  BY <1>2, <1>3

\* A non-empty set of natural numbers has a least one.
LEMMA HasLeast ==
    ASSUME NEW B \in SUBSET Nat, B # {}
    PROVE  \E n \in B : \A k \in B : n <= k
<1> DEFINE R == OpToRel(<, Nat)
<1>1. IsWellFoundedOn(R, Nat)
  BY NatLessThanWellFounded
<1>2. PICK n \in B : \A k \in B : <<k, n>> \notin R
  <2> HIDE DEF R
  <2> QED
    BY <1>1, WFMin
<1>3. \A k \in B : ~(k < n)
  BY <1>2 DEF OpToRel
<1> QED
  BY <1>3

\* The element a fold takes first, and what it leaves for later.
First(s) == CHOOSE x \in s : TRUE
Rest(s) == s \ {First(s)}

\* It takes an element, and leaves one fewer.
LEMMA RestFacts ==
    ASSUME NEW S, IsFiniteSet(S), NEW s \in SUBSET S, s # {}
    PROVE  /\ First(s) \in s /\ Rest(s) \in SUBSET S
           /\ IsFiniteSet(s) /\ IsFiniteSet(Rest(s))
           /\ Cardinality(s) \in Nat /\ Cardinality(Rest(s)) \in Nat
           /\ Cardinality(s) = Cardinality(Rest(s)) + 1
<1>1. First(s) \in s
  BY DEF First
<1>2. IsFiniteSet(s)
  BY FS_Subset
<1>3. IsFiniteSet(Rest(s)) /\ Cardinality(Rest(s)) = Cardinality(s) - 1
  BY <1>1, <1>2, FS_RemoveElement DEF Rest
<1>4. Cardinality(s) \in Nat /\ Cardinality(Rest(s)) \in Nat
  BY <1>2, <1>3, FS_CardinalityType
<1> QED
  BY <1>1, <1>2, <1>3, <1>4 DEF Rest

\* The recursion behind SumFunctionOnSet has a solution on the subsets of a finite
\* set, level by level of their size, and the sum is its value.
LEMMA SumRecursion ==
    ASSUME NEW f, NEW S, IsFiniteSet(S)
    PROVE  \E g : /\ g = [s \in SUBSET S |-> IF s = {} THEN 0 ELSE f[First(s)] + g[Rest(s)]]
                  /\ SumFunctionOnSet(f, S) = g[S]
<1> DEFINE Level(n) == {s \in SUBSET S : Cardinality(s) <= n}
           Sums(n, g) == g = [s \in Level(n) |->
                                IF s = {} THEN 0 ELSE f[First(s)] + g[Rest(s)]]
           Bad == {n \in Nat : ~\E g : Sums(n, g)}
<1>1. Bad = {}
  <2> SUFFICES ASSUME Bad # {} PROVE FALSE
    OBVIOUS
  <2>1. PICK n \in Bad : \A k \in Bad : n <= k
    BY HasLeast
  <2>2. \A s \in SUBSET S : s # {} =>
            /\ First(s) \in s /\ Rest(s) \in SUBSET S
            /\ Cardinality(s) \in Nat /\ Cardinality(Rest(s)) \in Nat
            /\ Cardinality(s) = Cardinality(Rest(s)) + 1
    BY RestFacts
  <2>3. Cardinality({}) = 0
    BY FS_EmptySet
  <2>4. CASE n = 0
    <3>1. \A s \in Level(0) : s = {}
      BY <2>2, <2>3
    <3>2. Sums(0, [s \in Level(0) |-> 0])
      BY <3>1
    <3> QED
      BY <2>4, <3>2
  <2>5. CASE n # 0
    <3>1. n - 1 \in Nat /\ n - 1 \notin Bad
      <4>1. n \in Nat
        OBVIOUS
      <4>2. n - 1 \in Nat /\ ~(n <= n - 1)
        BY <2>5, <4>1
      <4> HIDE DEF Bad
      <4> QED
        BY <2>1, <4>2
    <3>2. PICK g : Sums(n - 1, g)
      BY <3>1
    <3> DEFINE h == [s \in Level(n) |-> IF s \in Level(n - 1) THEN g[s]
                                        ELSE f[First(s)] + g[Rest(s)]]
    <3>3. ASSUME NEW s \in Level(n)
          PROVE  h[s] = IF s = {} THEN 0 ELSE f[First(s)] + h[Rest(s)]
      <4>1. CASE s = {}
        <5>1. s \in Level(n - 1)
          BY <2>3, <3>1, <4>1
        <5> QED
          BY <3>2, <4>1, <5>1
      <4>2. CASE s # {}
        <5>1. Rest(s) \in Level(n - 1) /\ Rest(s) \in Level(n)
          BY <2>1, <2>2, <4>2
        <5>2. h[Rest(s)] = g[Rest(s)]
          BY <5>1
        <5>3. h[s] = f[First(s)] + g[Rest(s)]
          BY <3>2, <4>2
        <5> QED
          BY <4>2, <5>2, <5>3
      <4> QED
        BY <4>1, <4>2
    <3>4. h = [s \in Level(n) |-> h[s]]
      OBVIOUS
    <3> HIDE DEF h
    <3>5. Sums(n, h)
      BY <3>3, <3>4
    <3> QED
      BY <3>5
  <2> QED
    BY <2>4, <2>5
<1>2. PICK n \in Nat : Level(n) = SUBSET S
  <2>1. Cardinality(S) \in Nat /\ \A s \in SUBSET S : Cardinality(s) <= Cardinality(S)
    BY FS_Subset, FS_CardinalityType
  <2> QED
    BY <2>1
<1>3. \E g : Sums(n, g)
  BY <1>1
<1>4. \E g : g = [s \in SUBSET S |-> IF s = {} THEN 0 ELSE f[First(s)] + g[Rest(s)]]
  <2> HIDE DEF Level
  <2> QED
    BY <1>2, <1>3
<1> DEFINE iter == CHOOSE g : g = [s \in SUBSET S |->
                                    IF s = {} THEN 0 ELSE f[First(s)] + g[Rest(s)]]
<1>5. SumFunctionOnSet(f, S) = iter[S]
  BY DEF SumFunctionOnSet, FoldFunctionOnSet, MapThenFoldSet, First, Rest
<1>6. iter = [s \in SUBSET S |-> IF s = {} THEN 0 ELSE f[First(s)] + iter[Rest(s)]]
  BY <1>4
<1> HIDE DEF iter
<1> QED
  BY <1>5, <1>6

\* A sum of n values of at most m is n * m at most.
LEMMA SumBound ==
    ASSUME NEW f, NEW S, IsFiniteSet(S), NEW m \in Nat,
           \A i \in S : f[i] \in Nat /\ f[i] <= m
    PROVE  SumFunctionOnSet(f, S) \in Nat /\ SumFunctionOnSet(f, S) <= Cardinality(S) * m
<1>1. PICK g : /\ g = [s \in SUBSET S |-> IF s = {} THEN 0 ELSE f[First(s)] + g[Rest(s)]]
               /\ SumFunctionOnSet(f, S) = g[S]
  BY SumRecursion
<1> DEFINE Bad == {s \in SUBSET S : ~(g[s] \in Nat /\ g[s] <= Cardinality(s) * m)}
<1>2. ASSUME Bad # {}
      PROVE  FALSE
  <2>1. PICK X \in Bad : \A x \in X : X \ {x} \notin Bad
    <3>1. Bad \in SUBSET SUBSET S
      OBVIOUS
    <3> HIDE DEF Bad
    <3> QED
      BY <1>2, <3>1, SmallestSubset
  <2>2. CASE X = {}
    <3>1. g[X] = 0 /\ Cardinality(X) = 0
      BY <1>1, <2>2, FS_EmptySet
    <3> QED
      BY <3>1
  <2>3. CASE X # {}
    <3>1. /\ First(X) \in X /\ Rest(X) \in SUBSET S
          /\ Cardinality(X) \in Nat /\ Cardinality(Rest(X)) \in Nat
          /\ Cardinality(X) = Cardinality(Rest(X)) + 1
      BY <2>3, RestFacts
    <3>2. Rest(X) \notin Bad
      BY <2>1, <3>1 DEF Rest
    <3>3. g[Rest(X)] \in Nat /\ g[Rest(X)] <= Cardinality(Rest(X)) * m
      BY <3>1, <3>2
    <3>4. g[X] = f[First(X)] + g[Rest(X)] /\ f[First(X)] \in Nat /\ f[First(X)] <= m
      BY <1>1, <2>3, <3>1
    <3>5. \A a, b \in Nat : a <= b * m => a + m <= (b + 1) * m
      OBVIOUS
    <3> QED
      BY <3>1, <3>3, <3>4, <3>5
  <2> QED
    BY <2>2, <2>3
<1> QED
  BY <1>1, <1>2
-----------------------------------------------------------------------------
\* A non-empty set of row numbers has a greatest one.
LEMMA HasGreatest ==
    ASSUME NEW n \in Nat, NEW S \in SUBSET (1..n), S # {}
    PROVE  \E k \in S : \A j \in S : j <= k
<1> DEFINE Greatest(X) == \E k \in X : \A j \in X : j <= k
           Bad == {X \in SUBSET (1..n) : X # {} /\ ~Greatest(X)}
<1> SUFFICES ASSUME Bad # {} PROVE FALSE
  OBVIOUS
<1>1. PICK X \in Bad : \A x \in X : X \ {x} \notin Bad
  <2>1. Bad \in SUBSET SUBSET (1..n) /\ IsFiniteSet(1..n)
    BY FS_Interval
  <2> HIDE DEF Bad
  <2> QED
    BY <2>1, SmallestSubset
<1>2. PICK x \in X : TRUE
  OBVIOUS
<1>3. X \ {x} # {}
  BY <1>2
<1>4. X \ {x} \notin Bad
  BY <1>1, <1>2
<1>5. PICK m \in X \ {x} : \A j \in X \ {x} : j <= m
  BY <1>3, <1>4
<1>6. CASE x <= m
  BY <1>5, <1>6
<1>7. CASE ~(x <= m)
  BY <1>2, <1>5, <1>7
<1> QED
  BY <1>6, <1>7

\* A request is counted in a bucket of the limiter.
LEMMA BucketType ==
    ASSUME NEW s \in Subjects
    PROVE  IdBucket(s) \in Buckets
BY RequestConstants DEF RequestConstants, Subjects, IdBucket

\* What IssueCode leaves in the table: the new row, and the older ones with no
\* more than consumed changed.
LEMMA IssueFacts ==
    ASSUME TypeOK, NEW w \in Workers, IssueCommit(w)
    PROVE  LET n == Len(codes) IN
           /\ n \in Nat /\ DOMAIN codes = 1..n
           /\ codes' \in Seq(CodeRow) /\ Len(codes') = n + 1 /\ DOMAIN codes' = 1..(n + 1)
           /\ \A i \in 1..n :
                codes'[i] \in {codes[i], [codes[i] EXCEPT !.consumed = TRUE]}
           /\ codes'[n + 1] = [subject |-> subject[w], window |-> Came(w), attempts |-> 0,
                               consumed |-> FALSE]
<1> DEFINE n == Len(codes)
           old == [i \in 1..n |-> IF i \in snap[w] THEN [codes[i] EXCEPT !.consumed = TRUE]
                                  ELSE codes[i]]
           new == [subject |-> subject[w], window |-> Came(w), attempts |-> 0,
                   consumed |-> FALSE]
<1>1. codes \in Seq(CodeRow)
  BY DEF TypeOK, CodeRow
<1>2. n \in Nat /\ DOMAIN codes = 1..n /\ \A i \in 1..n : codes[i] \in CodeRow
  BY <1>1, LenProperties, ElementOfSeq
<1>3. subject[w] \in Subjects /\ asked[w] \in Times
  BY DEF IssueCommit, TypeOK, LimiterTypeOK
<1>4. new \in CodeRow
  <2>1. Came(w) \in Times
    BY <1>3, TruncateFacts DEF Came, Truncate
  <2> QED
    BY <1>3, <2>1, RequestConstants DEF RequestConstants, CodeRow
<1>5. \A i \in 1..n : old[i] \in CodeRow
  BY <1>2 DEF CodeRow
<1>6. old \in Seq(CodeRow) /\ Len(old) = n
  <2>1. old \in [1..n -> CodeRow]
    BY <1>5
  <2>2. old \in Seq(CodeRow)
    BY <1>2, <2>1, SeqDef
  <2> QED
    BY <1>2, <2>2, LenProperties
<1>7. codes' = Append(old, new)
  BY <1>2 DEF IssueCommit
<1>8. /\ codes' \in Seq(CodeRow) /\ Len(codes') = n + 1
      /\ \A i \in 1..n : codes'[i] = old[i]
      /\ codes'[n + 1] = new
  <2> HIDE DEF old, new
  <2> QED
    BY <1>2, <1>4, <1>6, <1>7, AppendProperties
<1>9. DOMAIN codes' = 1..(n + 1)
  BY <1>8, LenProperties
<1> QED
  BY <1>2, <1>8, <1>9

\* What ConsumeCode leaves: the row of the newest outstanding code is counted or
\* consumed.
LEMMA VerifyFacts ==
    ASSUME TypeOK, GuessInv, NEW s \in Subjects, OTPVerify(s)
    PROVE  /\ DOMAIN codes = 1..Len(codes) /\ Len(codes) \in Nat
           /\ codes' \in Seq(CodeRow) /\ Len(codes') = Len(codes) /\ DOMAIN codes' = DOMAIN codes
           /\ \E i \in DOMAIN codes :
                /\ ~codes[i].consumed
                /\ guesses' = [guesses EXCEPT ![i] = guesses[i] + 1]
                /\ \A j \in DOMAIN codes : j # i => codes'[j] = codes[j]
                /\ codes'[i].subject = codes[i].subject /\ codes'[i].window = codes[i].window
                /\ ~codes'[i].consumed => /\ codes'[i].attempts = codes[i].attempts + 1
                                          /\ codes'[i].attempts < MaxOTPAttempts
<1> DEFINE i == CHOOSE k \in Outstanding(s) : \A j \in Outstanding(s) : j <= k
<1>1. codes \in Seq(CodeRow)
  BY DEF TypeOK, CodeRow
<1>2. Len(codes) \in Nat /\ DOMAIN codes = 1..Len(codes)
  BY <1>1, LenProperties
<1>3. i \in Outstanding(s)
  <2>1. Outstanding(s) # {} /\ Outstanding(s) \in SUBSET (1..Len(codes))
    BY <1>2 DEF OTPVerify, Outstanding
  <2>2. \E k \in Outstanding(s) : \A j \in Outstanding(s) : j <= k
    BY <1>2, <2>1, HasGreatest
  <2> QED
    BY <2>2
<1>4. guesses' = [guesses EXCEPT ![i] = guesses[i] + 1]
  BY DEF OTPVerify
<1>5. WrongGuess(i) \/ codes' = [codes EXCEPT ![i].consumed = TRUE]
  BY DEF OTPVerify
<1> HIDE DEF i
<1>6. i \in 1..Len(codes) /\ ~codes[i].consumed /\ codes[i] \in CodeRow
  BY <1>1, <1>2, <1>3, ElementOfSeq DEF Outstanding
<1>7. codes[i].attempts \in Nat /\ codes[i].attempts + 1 <= MaxOTPAttempts
  BY <1>2, <1>6, RequestConstants DEF RequestConstants, GuessInv, CodeRow
<1>8. ASSUME NEW row \in CodeRow, codes' = [codes EXCEPT ![i] = row]
      PROVE  /\ codes' \in Seq(CodeRow) /\ Len(codes') = Len(codes)
             /\ DOMAIN codes' = DOMAIN codes
             /\ \A j \in DOMAIN codes : j # i => codes'[j] = codes[j]
             /\ codes'[i] = row
  BY <1>1, <1>2, <1>6, <1>8, ExceptSeq
<1>9. CASE WrongGuess(i)
  <2> DEFINE burnt == codes[i].attempts + 1 >= MaxOTPAttempts
             row == [codes[i] EXCEPT !.attempts = codes[i].attempts + 1, !.consumed = burnt]
  <2>1. codes' = [codes EXCEPT ![i] = row]
    BY <1>9 DEF WrongGuess
  <2>2. burnt \in BOOLEAN /\ (~burnt => codes[i].attempts + 1 < MaxOTPAttempts)
    BY <1>7, RequestConstants DEF RequestConstants
  <2> HIDE DEF burnt
  <2>3. codes[i].attempts + 1 \in 0..MaxOTPAttempts
    BY <1>7, RequestConstants DEF RequestConstants
  <2>4. row \in CodeRow
    BY <1>6, <2>2, <2>3 DEF CodeRow
  <2>5. /\ row.subject = codes[i].subject /\ row.window = codes[i].window
        /\ row.attempts = codes[i].attempts + 1
    BY <1>6 DEF CodeRow
  <2>6. row.consumed = burnt
    BY <1>6 DEF CodeRow
  <2> HIDE DEF row
  <2>7. ~row.consumed => row.attempts < MaxOTPAttempts
    BY <2>2, <2>5, <2>6
  <2> QED
    BY <1>2, <1>4, <1>6, <1>8, <2>1, <2>4, <2>5, <2>7
<1>10. CASE codes' = [codes EXCEPT ![i].consumed = TRUE]
  <2> DEFINE row == [codes[i] EXCEPT !.consumed = TRUE]
  <2>1. codes' = [codes EXCEPT ![i] = row]
    BY <1>10
  <2>2. row \in CodeRow
    BY <1>6 DEF CodeRow
  <2>3. row.subject = codes[i].subject /\ row.window = codes[i].window /\ row.consumed
    BY <1>6 DEF CodeRow
  <2> HIDE DEF row
  <2> QED
    BY <1>2, <1>4, <1>6, <1>8, <2>1, <2>2, <2>3
<1> QED
  BY <1>5, <1>9, <1>10

\* The handlers use the limiter as it is meant to be used: a call, its upsert, and
\* an end once it has answered.
LEMMA LimiterSteps ==
    TypeOK /\ [Next]_vars => [LimiterNext]_limiterVars
<1> SUFFICES ASSUME TypeOK, [Next]_vars PROVE [LimiterNext]_limiterVars
  OBVIOUS
<1>1. ASSUME NEW w \in Workers, NEW s \in Subjects, Request(w, s)
      PROVE  LimiterNext
  BY <1>1, BucketType DEF Request, LimiterNext
<1>2. ASSUME NEW w \in Workers, AllowUpsert(w) \/ AllowError(w)
      PROVE  LimiterNext
  BY <1>2 DEF LimiterNext
<1>3. ASSUME NEW w \in Workers, IssueCode(w) \/ IssueCommit(w)
      PROVE  UNCHANGED limiterVars
  BY <1>3 DEF IssueCode, IssueCommit
<1>4. ASSUME NEW w \in Workers, SendCode(w) \/ Stop(w)
      PROVE  LimiterNext
  BY <1>4 DEF SendCode, Stop, End, LimiterNext
<1>5. ASSUME NEW s \in Subjects, OTPVerify(s)
      PROVE  UNCHANGED limiterVars
  BY <1>5 DEF OTPVerify
<1>6. CASE PruneRateLimits \/ Tick
  BY <1>6 DEF LimiterNext
<1>7. CASE UNCHANGED vars
  BY <1>7 DEF vars
<1> QED
  BY ONLY <1>1, <1>2, <1>3, <1>4, <1>5, <1>6, <1>7, [Next]_vars DEF Next

\* A step keeps a request's place and the limiter's answer together.
LEMMA StepStep ==
    LimiterTypeOK /\ TypeOK /\ StepInv /\ GuessInv /\ [Next]_vars => StepInv'
<1> SUFFICES ASSUME LimiterTypeOK, TypeOK, StepInv, GuessInv, [Next]_vars,
                    NEW v \in Workers
             PROVE  /\ step'[v] = "idle" <=> at'[v] = "idle"
                    /\ at'[v] = "upsert" => step'[v] = "limit"
                    /\ step'[v] # "idle" =>
                        subject'[v] \in Subjects /\ bucket'[v] = IdBucket(subject'[v])
                    /\ step'[v] = "send" => made'[v] \in DOMAIN codes'
  BY DEF StepInv, IdBucket
<1> DEFINE Good == /\ step'[v] = "idle" <=> at'[v] = "idle"
                   /\ at'[v] = "upsert" => step'[v] = "limit"
                   /\ step'[v] # "idle" =>
                        subject'[v] \in Subjects /\ bucket'[v] = IdBucket(subject'[v])
                   /\ step'[v] = "send" => made'[v] \in DOMAIN codes'
<1>0. /\ step \in [Workers -> {"idle", "limit", "issue", "send"}]
      /\ at \in [Workers -> {"idle", "upsert", "pass", "over", "error"}]
      /\ bucket \in [Workers -> Buckets \cup {None}]
      /\ subject \in [Workers -> Subjects \cup {None}]
      /\ made \in [Workers -> {0} \cup DOMAIN codes]
  BY DEF LimiterTypeOK, TypeOK, Answers
<1>1. ASSUME NEW w \in Workers, NEW s \in Subjects, Request(w, s)
      PROVE  Good
  BY <1>0, <1>1 DEF Request, AllowCall, GoTo, store, StepInv
<1>2. ASSUME NEW w \in Workers, AllowUpsert(w) \/ AllowError(w), UNCHANGED <<store, local>>
      PROVE  Good
  BY <1>0, <1>2 DEF AllowUpsert, AllowError, Answer, store, local, StepInv
<1>3. ASSUME NEW w \in Workers, IssueCode(w)
      PROVE  Good
  BY <1>0, <1>3 DEF IssueCode, GoTo, store, limiterVars, StepInv
<1>4. ASSUME NEW w \in Workers, IssueCommit(w)
      PROVE  Good
  <2>1. /\ Len(codes) \in Nat /\ DOMAIN codes = 1..Len(codes)
        /\ DOMAIN codes' = 1..(Len(codes) + 1)
    BY <1>4, IssueFacts
  <2>2. /\ step' = [step EXCEPT ![w] = "send"] /\ made' = [made EXCEPT ![w] = Len(codes) + 1]
        /\ UNCHANGED <<at, bucket, subject>> /\ step[w] = "issue"
    BY <1>4 DEF IssueCommit, GoTo, limiterVars
  <2>3. step'[v] = "send" => made'[v] \in DOMAIN codes'
    BY <1>0, <2>1, <2>2 DEF StepInv
  <2> QED
    BY <1>0, <2>2, <2>3 DEF StepInv
<1>5. ASSUME NEW w \in Workers, SendCode(w) \/ Stop(w)
      PROVE  Good
  BY <1>0, <1>5 DEF SendCode, Stop, End, AllowDone, GoTo, StepInv
<1>6. ASSUME NEW s \in Subjects, OTPVerify(s)
      PROVE  Good
  <2>1. DOMAIN codes' = DOMAIN codes
    BY <1>6, VerifyFacts
  <2> QED
    BY <1>6, <2>1 DEF OTPVerify, limiterVars, local, StepInv
<1>7. ASSUME PruneRateLimits \/ Tick, UNCHANGED <<store, local>>
      PROVE  Good
  BY <1>7 DEF PruneRateLimits, Tick, store, local, StepInv
<1>8. CASE UNCHANGED vars
  BY <1>8 DEF vars, limiterVars, store, local, StepInv
<1> QED
  BY ONLY <1>1, <1>2, <1>3, <1>4, <1>5, <1>6, <1>7, <1>8, [Next]_vars DEF Next

\* A step compares no code with more guesses than it has.
LEMMA GuessStep ==
    TypeOK /\ GuessInv /\ [Next]_vars => GuessInv'
<1> SUFFICES ASSUME TypeOK, GuessInv, [Next]_vars PROVE GuessInv'
  OBVIOUS
<1>0. guesses \in [1..MaxCodes -> Nat] /\ MaxCodes \in Nat /\ MaxOTPAttempts \in Nat \ {0}
  BY RequestConstants DEF RequestConstants, TypeOK
<1>1. CASE UNCHANGED <<codes, guesses>>
  BY <1>1 DEF GuessInv
<1>2. ASSUME NEW w \in Workers, IssueCommit(w)
      PROVE  GuessInv'
  <2> DEFINE n == Len(codes)
  <2>1. /\ n \in Nat /\ DOMAIN codes = 1..n
        /\ Len(codes') = n + 1 /\ DOMAIN codes' = 1..(n + 1)
        /\ \A i \in 1..n : codes'[i] \in {codes[i], [codes[i] EXCEPT !.consumed = TRUE]}
        /\ codes'[n + 1] = [subject |-> subject[w], window |-> Came(w), attempts |-> 0,
                            consumed |-> FALSE]
    BY <1>2, IssueFacts
  <2>2. n < MaxCodes /\ guesses' = guesses
    BY <1>2 DEF IssueCommit
  <2>3. \A i \in 1..n : codes[i] \in CodeRow
    BY <2>1, ElementOfSeq DEF TypeOK, CodeRow
  <2>4. ASSUME NEW i \in 1..n
        PROVE  /\ guesses[i] <= MaxOTPAttempts
               /\ ~codes'[i].consumed => /\ guesses[i] <= codes'[i].attempts
                                         /\ codes'[i].attempts < MaxOTPAttempts
    <3>1. /\ guesses[i] <= MaxOTPAttempts
          /\ ~codes[i].consumed => /\ guesses[i] <= codes[i].attempts
                                   /\ codes[i].attempts < MaxOTPAttempts
      BY <2>1 DEF GuessInv
    <3>2. CASE codes'[i] = codes[i]
      BY <3>1, <3>2
    <3>3. CASE codes'[i] = [codes[i] EXCEPT !.consumed = TRUE]
      <4>1. codes'[i].consumed
        BY <2>3, <3>3 DEF CodeRow
      <4> QED
        BY <3>1, <4>1
    <3> QED
      BY <2>1, <3>2, <3>3
  <2>5. guesses[n + 1] = 0
    BY <1>0, <2>1, <2>2 DEF GuessInv
  <2>6. codes'[n + 1].attempts = 0
    BY <2>1
  <2>7. \A i \in DOMAIN codes' :
            /\ guesses'[i] <= MaxOTPAttempts
            /\ ~codes'[i].consumed => /\ guesses'[i] <= codes'[i].attempts
                                      /\ codes'[i].attempts < MaxOTPAttempts
    <3> SUFFICES ASSUME NEW i \in 1..(n + 1)
                 PROVE  /\ guesses'[i] <= MaxOTPAttempts
                        /\ ~codes'[i].consumed => /\ guesses'[i] <= codes'[i].attempts
                                                  /\ codes'[i].attempts < MaxOTPAttempts
      BY <2>1
    <3>1. CASE i \in 1..n
      BY <2>2, <2>4, <3>1
    <3>2. CASE i = n + 1
      BY <1>0, <2>2, <2>5, <2>6, <3>2
    <3> QED
      BY <2>1, <3>1, <3>2
  <2>8. \A i \in 1..MaxCodes : i \notin DOMAIN codes' => guesses'[i] = 0
    BY <2>1, <2>2 DEF GuessInv
  <2> QED
    BY <1>0, <2>1, <2>2, <2>7, <2>8 DEF GuessInv
<1>3. ASSUME NEW s \in Subjects, OTPVerify(s)
      PROVE  GuessInv'
  <2>1. PICK i \in DOMAIN codes :
                /\ ~codes[i].consumed
                /\ guesses' = [guesses EXCEPT ![i] = guesses[i] + 1]
                /\ \A j \in DOMAIN codes : j # i => codes'[j] = codes[j]
                /\ ~codes'[i].consumed => /\ codes'[i].attempts = codes[i].attempts + 1
                                          /\ codes'[i].attempts < MaxOTPAttempts
    BY <1>3, VerifyFacts
  <2>2. /\ DOMAIN codes = 1..Len(codes) /\ Len(codes) \in Nat
        /\ Len(codes') = Len(codes) /\ DOMAIN codes' = DOMAIN codes
    BY <1>3, VerifyFacts
  <2>3. i \in 1..MaxCodes /\ Len(codes) <= MaxCodes
    BY <1>0, <2>2 DEF GuessInv
  <2>4. codes[i].attempts \in Nat /\ guesses[i] \in Nat
        /\ guesses[i] <= codes[i].attempts /\ codes[i].attempts < MaxOTPAttempts
    <3>1. codes[i] \in CodeRow
      BY <2>2, ElementOfSeq DEF TypeOK, CodeRow
    <3> QED
      BY <1>0, <2>1, <2>3, <3>1 DEF GuessInv, CodeRow
  <2>5. ASSUME NEW j \in DOMAIN codes
        PROVE  /\ guesses'[j] <= MaxOTPAttempts
               /\ ~codes'[j].consumed => /\ guesses'[j] <= codes'[j].attempts
                                         /\ codes'[j].attempts < MaxOTPAttempts
    <3>1. CASE j = i
      <4>1. guesses'[i] = guesses[i] + 1
        BY <1>0, <2>1, <2>3
      <4>2. guesses[i] + 1 <= MaxOTPAttempts /\ guesses[i] + 1 <= codes[i].attempts + 1
        BY <1>0, <2>4
      <4> QED
        BY <2>1, <3>1, <4>1, <4>2
    <3>2. CASE j # i
      <4>1. guesses'[j] = guesses[j] /\ codes'[j] = codes[j]
        BY <1>0, <2>1, <2>2, <2>3, <3>2
      <4> QED
        BY <4>1 DEF GuessInv
    <3> QED
      BY <3>1, <3>2
  <2>6. \A j \in 1..MaxCodes : j \notin DOMAIN codes' => guesses'[j] = 0
    BY <1>0, <2>1, <2>2 DEF GuessInv
  <2> QED
    BY <2>2, <2>3, <2>5, <2>6 DEF GuessInv
<1>4. ASSUME NEW w \in Workers, NEW s \in Subjects, Request(w, s)
      PROVE  UNCHANGED <<codes, guesses>>
  BY <1>4 DEF Request, store
<1>5. ASSUME NEW w \in Workers, IssueCode(w) \/ SendCode(w) \/ Stop(w)
      PROVE  UNCHANGED <<codes, guesses>>
  BY <1>5 DEF IssueCode, SendCode, Stop, End, store
<1>6. ASSUME UNCHANGED <<store, local>> \/ UNCHANGED vars
      PROVE  UNCHANGED <<codes, guesses>>
  BY <1>6 DEF vars, store
<1> QED
  BY ONLY <1>1, <1>2, <1>3, <1>4, <1>5, <1>6, [Next]_vars DEF Next

\* A step keeps the types: only rows that are there are mailed or consumed.
LEMMA TypeStep ==
    LimiterInv /\ TypeOK /\ StepInv /\ GuessInv /\ [Next]_vars => TypeOK'
<1> SUFFICES ASSUME LimiterInv, TypeOK, StepInv, GuessInv, [Next]_vars PROVE TypeOK'
  OBVIOUS
<1> DEFINE CodesOK == codes \in Seq(CodeRow) /\ mailed \in SUBSET DOMAIN codes
           LocalOK == /\ step \in [Workers -> {"idle", "limit", "issue", "send"}]
                      /\ made \in [Workers -> {0} \cup DOMAIN codes]
                      /\ subject \in [Workers -> Subjects \cup {None}]
                      /\ snap \in [Workers -> SUBSET DOMAIN codes]
           GuessOK == guesses \in [1..MaxCodes -> Nat]
           PassOK == \A w \in Workers : step[w] \notin {"idle", "limit"} =>
                        subject[w] \in Subjects /\ at[w] = "pass"
<1>a. LimiterTypeOK'
  BY LimiterSteps, LimiterTypeStep DEF LimiterInv
<1>b. CodesOK /\ LocalOK /\ GuessOK /\ PassOK
  BY DEF TypeOK, CodeRow
<1>c. SUFFICES CodesOK' /\ LocalOK' /\ GuessOK' /\ PassOK'
  BY <1>a DEF TypeOK, CodeRow
<1>d. /\ at \in [Workers -> {"idle", "upsert", "pass", "over", "error"}]
      /\ \A w \in Workers : at[w] = "upsert" => step[w] = "limit"
  BY DEF LimiterInv, LimiterTypeOK, Answers, StepInv
<1>e. DOMAIN codes = 1..Len(codes) /\ Len(codes) \in Nat
  BY <1>b, LenProperties
<1>1. ASSUME NEW w \in Workers, NEW s \in Subjects, Request(w, s)
      PROVE  CodesOK' /\ LocalOK' /\ GuessOK' /\ PassOK'
  BY <1>b, <1>d, <1>1 DEF Request, AllowCall, GoTo, store
<1>2. ASSUME NEW w \in Workers, AllowUpsert(w) \/ AllowError(w), UNCHANGED <<store, local>>
      PROVE  CodesOK' /\ LocalOK' /\ GuessOK' /\ PassOK'
  BY <1>b, <1>d, <1>2 DEF AllowUpsert, AllowError, Answer, store, local
<1>3. ASSUME NEW w \in Workers, IssueCode(w)
      PROVE  CodesOK' /\ LocalOK' /\ GuessOK' /\ PassOK'
  <2>1. subject[w] \in Subjects
    BY <1>3 DEF IssueCode, StepInv
  <2>2. Outstanding(subject[w]) \in SUBSET DOMAIN codes
    BY DEF Outstanding
  <2> QED
    BY <1>b, <1>3, <2>1, <2>2 DEF IssueCode, GoTo, store, limiterVars
<1>4. ASSUME NEW w \in Workers, IssueCommit(w)
      PROVE  CodesOK' /\ LocalOK' /\ GuessOK' /\ PassOK'
  <2>1. /\ codes' \in Seq(CodeRow)
        /\ DOMAIN codes' = 1..(Len(codes) + 1)
    BY <1>4, IssueFacts
  <2>2. DOMAIN codes \subseteq DOMAIN codes' /\ Len(codes) + 1 \in DOMAIN codes'
    BY <1>e, <2>1
  <2>3. /\ step' = [step EXCEPT ![w] = "send"] /\ made' = [made EXCEPT ![w] = Len(codes) + 1]
        /\ snap' = [snap EXCEPT ![w] = {}]
        /\ UNCHANGED <<at, bucket, subject, mailed, guesses>> /\ step[w] = "issue"
    BY <1>4 DEF IssueCommit, GoTo, limiterVars
  <2> QED
    BY <1>b, <2>1, <2>2, <2>3
<1>5. ASSUME NEW w \in Workers, SendCode(w) \/ Stop(w)
      PROVE  CodesOK' /\ LocalOK' /\ GuessOK' /\ PassOK'
  <2>1. mailed' \in SUBSET DOMAIN codes
    BY <1>b, <1>5 DEF SendCode, Stop, StepInv
  <2>2. /\ step' = [step EXCEPT ![w] = "idle"] /\ at' = [at EXCEPT ![w] = "idle"]
        /\ subject' = [subject EXCEPT ![w] = None] /\ made' = [made EXCEPT ![w] = 0]
        /\ snap' = [snap EXCEPT ![w] = {}] /\ UNCHANGED <<codes, guesses>>
    BY <1>5 DEF SendCode, Stop, End, AllowDone, GoTo
  <2>3. PassOK'
    BY <1>b, <1>d, <2>2
  <2>4. LocalOK'
    BY <1>b, <2>2
  <2> QED
    BY <1>b, <2>1, <2>2, <2>3, <2>4
<1>6. ASSUME NEW s \in Subjects, OTPVerify(s)
      PROVE  CodesOK' /\ LocalOK' /\ GuessOK' /\ PassOK'
  <2>1. codes' \in Seq(CodeRow) /\ DOMAIN codes' = DOMAIN codes
    BY <1>6, VerifyFacts
  <2>2. GuessOK'
    <3>1. PICK i \in DOMAIN codes : guesses' = [guesses EXCEPT ![i] = guesses[i] + 1]
      BY <1>6, VerifyFacts
    <3>2. i \in 1..MaxCodes
      BY <1>e, RequestConstants DEF RequestConstants, GuessInv
    <3> QED
      BY <1>b, <3>1, <3>2
  <2> QED
    BY <1>b, <1>6, <2>1, <2>2 DEF OTPVerify, limiterVars, local
<1>7. ASSUME PruneRateLimits \/ Tick, UNCHANGED <<store, local>>
      PROVE  CodesOK' /\ LocalOK' /\ GuessOK' /\ PassOK'
  BY <1>b, <1>7 DEF PruneRateLimits, Tick, store, local
<1>8. CASE UNCHANGED vars
  BY <1>b, <1>8 DEF vars, limiterVars, store, local
<1> QED
  BY ONLY <1>1, <1>2, <1>3, <1>4, <1>5, <1>6, <1>7, <1>8, [Next]_vars DEF Next

\* There are finitely many codes.
LEMMA MadeFinite ==
    ASSUME codes \in Seq(CodeRow), NEW b, NEW t
    PROVE  IsFiniteSet(Made(b, t)) /\ Cardinality(Made(b, t)) \in Nat
<1>1. Len(codes) \in Nat /\ DOMAIN codes = 1..Len(codes)
  BY LenProperties
<1>2. IsFiniteSet(1..Len(codes)) /\ Made(b, t) \subseteq 1..Len(codes)
  BY <1>1, FS_Interval DEF Made
<1> QED
  BY <1>2, FS_Subset, FS_CardinalityType

\* A step makes a code for a request that was let through and had made none.
LEMMA MadeStep ==
    IndInv /\ [Next]_vars => MadeInv'
<1> SUFFICES ASSUME IndInv, [Next]_vars, NEW b \in Buckets, NEW t \in Times
             PROVE  /\ IsFiniteSet(Admitted(b, t)')
                    /\ Cardinality(Made(b, t)') + Cardinality(Admitted(b, t)') <= passed'[b][t]
  BY DEF MadeInv
<1> DEFINE A == Admitted(b, t)
           M == Made(b, t)
           Good == IsFiniteSet(A') /\ Cardinality(M') + Cardinality(A') <= passed'[b][t]
<1>a. /\ step \in [Workers -> {"idle", "limit", "issue", "send"}]
      /\ at \in [Workers -> {"idle", "upsert", "pass", "over", "error"}]
      /\ bucket \in [Workers -> Buckets \cup {None}]
      /\ asked \in [Workers -> Times]
      /\ passed \in [Buckets -> [Times -> Nat]]
      /\ \A w \in Workers : step[w] = "issue" => at[w] = "pass"
  BY DEF IndInv, TypeOK, LimiterTypeOK, Answers
<1>b. /\ IsFiniteSet(A) /\ Cardinality(A) \in Nat /\ passed[b][t] \in Nat
      /\ Cardinality(M) + Cardinality(A) <= passed[b][t]
  BY <1>a, FS_CardinalityType DEF IndInv, MadeInv
<1>c. IsFiniteSet(M) /\ Cardinality(M) \in Nat
  BY MadeFinite DEF IndInv, TypeOK, CodeRow
<1>d. \A w \in Workers :
        /\ step[w] = "idle" <=> at[w] = "idle"
        /\ at[w] = "upsert" => step[w] = "limit"
        /\ step[w] # "idle" => bucket[w] = IdBucket(subject[w])
  BY DEF IndInv, StepInv
<1>0. ASSUME A' \in SUBSET A, M' = M, passed' = passed
      PROVE  Good
  <2>1. IsFiniteSet(A') /\ Cardinality(A') <= Cardinality(A) /\ Cardinality(A') \in Nat
    BY <1>b, <1>0, FS_Subset, FS_CardinalityType
  <2> QED
    BY <1>b, <1>c, <1>0, <2>1
<1>1. ASSUME NEW w \in Workers, NEW s \in Subjects, Request(w, s)
      PROVE  Good
  <2>1. A' \in SUBSET A
    BY <1>a, <1>d, <1>1 DEF Request, AllowCall, GoTo, Admitted, Came
  <2>2. M' = M /\ passed' = passed
    BY <1>1 DEF Request, AllowCall, store, Made, IdBucket
  <2> QED
    BY <1>0, <2>1, <2>2
<1>2. ASSUME NEW w \in Workers, AllowUpsert(w), UNCHANGED <<store, local>>
      PROVE  Good
  <2>1. /\ M' = M
    BY <1>2 DEF store, Made, IdBucket
  <2>2. /\ at[w] = "upsert" /\ bucket[w] \in Buckets /\ Came(w) \in Times
        /\ UNCHANGED <<step, bucket, asked>>
    BY <1>2, PendingRoom DEF AllowUpsert, local, IndInv, LimiterInv
  <2>3. CASE at' = [at EXCEPT ![w] = "over"] /\ passed' = passed
    <3>1. A' \in SUBSET A
      BY <1>a, <2>2, <2>3 DEF Admitted, Came
    <3> QED
      BY <1>0, <2>1, <2>3, <3>1
  <2>4. CASE /\ at' = [at EXCEPT ![w] = "pass"]
             /\ passed' = [passed EXCEPT ![bucket[w]][Came(w)] = @ + 1]
    <3>1. CASE bucket[w] = b /\ Came(w) = t
      <4>1. A' \in SUBSET (A \cup {w})
        BY <1>a, <2>2, <2>4 DEF Admitted, Came
      <4>2. /\ IsFiniteSet(A') /\ Cardinality(A') \in Nat
            /\ Cardinality(A') <= Cardinality(A) + 1
        BY <1>b, <4>1, Sizes
      <4>3. passed'[b][t] = passed[b][t] + 1
        BY <1>a, <2>4, <3>1
      <4> QED
        BY <1>b, <1>c, <2>1, <4>2, <4>3
    <3>2. CASE ~(bucket[w] = b /\ Came(w) = t)
      <4>1. A' = A
        BY <1>a, <2>2, <2>4, <3>2 DEF Admitted, Came
      <4>2. passed'[b][t] = passed[b][t]
        BY <1>a, <2>2, <2>4, <3>2
      <4> QED
        BY <1>b, <2>1, <4>1, <4>2
    <3> QED
      BY <3>1, <3>2
  <2> QED
    BY <1>2, <2>3, <2>4 DEF AllowUpsert, Answer
<1>3. ASSUME NEW w \in Workers, AllowError(w), UNCHANGED <<store, local>>
      PROVE  Good
  <2>1. M' = M /\ passed' = passed
    BY <1>3 DEF AllowError, Answer, store, Made, IdBucket
  <2>2. A' \in SUBSET A
    BY <1>a, <1>3 DEF AllowError, Answer, local, Admitted, Came
  <2> QED
    BY <1>0, <2>1, <2>2
<1>4. ASSUME NEW w \in Workers, IssueCode(w)
      PROVE  Good
  <2>1. M' = M /\ passed' = passed
    BY <1>4 DEF IssueCode, store, limiterVars, Made, IdBucket
  <2>2. A' \in SUBSET A
    BY <1>a, <1>4 DEF IssueCode, GoTo, limiterVars, Admitted, Came
  <2> QED
    BY <1>0, <2>1, <2>2
<1>5. ASSUME NEW w \in Workers, IssueCommit(w)
      PROVE  Good
  <2> DEFINE n == Len(codes)
  <2>1. /\ n \in Nat /\ DOMAIN codes = 1..n /\ DOMAIN codes' = 1..(n + 1)
        /\ \A i \in 1..n : codes'[i] \in {codes[i], [codes[i] EXCEPT !.consumed = TRUE]}
        /\ codes'[n + 1] = [subject |-> subject[w], window |-> Came(w), attempts |-> 0,
                            consumed |-> FALSE]
    BY <1>5, IssueFacts DEF IndInv
  <2>2. \A i \in 1..n :
            codes'[i].subject = codes[i].subject /\ codes'[i].window = codes[i].window
    <3>1. \A i \in 1..n : codes[i] \in CodeRow
      BY <2>1, ElementOfSeq DEF IndInv, TypeOK, CodeRow
    <3> QED
      BY <2>1, <3>1 DEF CodeRow
  <2>3. codes'[n + 1].subject = subject[w] /\ codes'[n + 1].window = Came(w)
    BY <2>1
  <2>4. /\ step[w] = "issue" /\ step' = [step EXCEPT ![w] = "send"]
        /\ UNCHANGED <<at, bucket, asked, passed>>
        /\ bucket[w] = IdBucket(subject[w]) /\ at[w] = "pass"
    BY <1>a, <1>d, <1>5 DEF IssueCommit, GoTo, limiterVars
  <2>5. A' = A \ {w}
    BY <1>a, <2>4 DEF Admitted, Came
  <2>6. \A i \in 1..n : i \in M' <=> i \in M
    BY <2>1, <2>2 DEF Made, IdBucket
  <2>7. n + 1 \in M' <=> bucket[w] = b /\ Came(w) = t
    BY <2>1, <2>3, <2>4 DEF Made, IdBucket
  <2>8. M \subseteq 1..n /\ M' \subseteq 1..(n + 1)
    BY <2>1 DEF Made
  <2>9. CASE bucket[w] = b /\ Came(w) = t
    <3>1. w \in A
      BY <2>4, <2>9 DEF Admitted
    <3>2. /\ IsFiniteSet(A') /\ Cardinality(A') + 1 = Cardinality(A)
          /\ Cardinality(A') \in Nat
      BY <1>b, <2>5, <3>1, Sizes, FS_CardinalityType
    <3>3. M' \in SUBSET (M \cup {n + 1})
      BY <2>1, <2>6, <2>8
    <3>4. Cardinality(M') \in Nat /\ Cardinality(M') <= Cardinality(M) + 1
      BY <1>c, <3>3, Sizes
    <3> QED
      BY <1>b, <1>c, <2>4, <3>2, <3>4
  <2>10. CASE ~(bucket[w] = b /\ Came(w) = t)
    <3>1. M' = M
      <4>1. n + 1 \notin M'
        BY <2>7, <2>10
      <4>2. M' \subseteq 1..n
        BY <2>1, <2>8, <4>1
      <4> QED
        BY <2>6, <2>8, <4>2
    <3>2. A' \in SUBSET A
      BY <2>5
    <3> QED
      BY <1>0, <2>4, <3>1, <3>2
  <2> QED
    BY <2>9, <2>10
<1>6. ASSUME NEW w \in Workers, SendCode(w) \/ Stop(w)
      PROVE  Good
  <2>1. M' = M /\ passed' = passed
    BY <1>6 DEF SendCode, Stop, End, AllowDone, Made, IdBucket
  <2>2. A' \in SUBSET A
    BY <1>a, <1>6 DEF SendCode, Stop, End, AllowDone, GoTo, Admitted, Came
  <2> QED
    BY <1>0, <2>1, <2>2
<1>7. ASSUME NEW s \in Subjects, OTPVerify(s)
      PROVE  Good
  <2>1. PICK i \in DOMAIN codes :
            /\ \A j \in DOMAIN codes : j # i => codes'[j] = codes[j]
            /\ codes'[i].subject = codes[i].subject /\ codes'[i].window = codes[i].window
    BY <1>7, VerifyFacts DEF IndInv
  <2>2. DOMAIN codes' = DOMAIN codes
    BY <1>7, VerifyFacts DEF IndInv
  <2>3. \A j \in DOMAIN codes :
            codes'[j].subject = codes[j].subject /\ codes'[j].window = codes[j].window
    BY <2>1
  <2>4. M' = M
    BY <2>2, <2>3 DEF Made, IdBucket
  <2>5. A' \in SUBSET A /\ passed' = passed
    BY <1>7 DEF OTPVerify, limiterVars, local, Admitted, Came
  <2> QED
    BY <1>0, <2>4, <2>5
<1>8. ASSUME PruneRateLimits \/ Tick, UNCHANGED <<store, local>>
      PROVE  Good
  <2>1. M' = M /\ A' \in SUBSET A /\ passed' = passed
    BY <1>8 DEF PruneRateLimits, Tick, store, local, Admitted, Made, IdBucket, Came
  <2> QED
    BY <1>0, <2>1
<1>9. CASE UNCHANGED vars
  <2>1. M' = M /\ A' \in SUBSET A /\ passed' = passed
    BY <1>9 DEF vars, limiterVars, store, local, Admitted, Made, IdBucket, Came
  <2> QED
    BY <1>0, <2>1
<1> QED
  BY ONLY <1>1, <1>2, <1>3, <1>4, <1>5, <1>6, <1>7, <1>8, <1>9, [Next]_vars DEF Next

\* What the limiter counts, what the requests are doing and what is stored agree
\* in every state.
THEOREM Invariance == Spec => []IndInv
<1>1. Init => IndInv
  <2> SUFFICES ASSUME Init PROVE IndInv
    OBVIOUS
  <2>1. LimiterInv
    BY LimiterStart DEF Init
  <2>2. codes = <<>> /\ DOMAIN codes = {} /\ Len(codes) = 0 /\ codes \in Seq(CodeRow)
    BY EmptySeq DEF Init
  <2>3. TypeOK
    BY <2>1, <2>2, RequestConstants DEF Init, TypeOK, LimiterInv, CodeRow, RequestConstants
  <2>4. StepInv
    BY DEF Init, LimiterInit, StepInv
  <2>5. GuessInv
    BY <2>2, RequestConstants DEF Init, GuessInv, RequestConstants
  <2>6. MadeInv
    <3>1. \A b \in Buckets, t \in Times : Admitted(b, t) = {} /\ Made(b, t) = {}
      BY <2>2 DEF Init, Admitted, Made
    <3>2. \A b \in Buckets, t \in Times : passed[b][t] = 0
      BY DEF Init, LimiterInit
    <3>3. Cardinality({}) = 0 /\ IsFiniteSet({})
      BY FS_EmptySet
    <3> QED
      BY <3>1, <3>2, <3>3 DEF MadeInv
  <2> QED
    BY <2>1, <2>3, <2>4, <2>5, <2>6 DEF IndInv
<1>2. IndInv /\ [Next]_vars => IndInv'
  <2> SUFFICES ASSUME IndInv, [Next]_vars PROVE IndInv'
    OBVIOUS
  <2>1. LimiterInv'
    BY LimiterSteps, LimiterStep DEF IndInv
  <2>2. TypeOK' /\ StepInv' /\ GuessInv' /\ MadeInv'
    BY TypeStep, StepStep, GuessStep, MadeStep DEF IndInv, LimiterInv
  <2> QED
    BY <2>1, <2>2 DEF IndInv
<1> QED
  BY <1>1, <1>2, PTL DEF Spec

\* The handlers use the limiter only as RateLimit allows: what is proved of the
\* limiter alone holds of it behind handleOTPRequest and handlePasswordForgot.
THEOREM UsesLimiter == Spec => LimiterSpec
<1>1. Init => LimiterInit
  BY DEF Init
<1>2. IndInv /\ [Next]_vars => [LimiterNext]_limiterVars
  BY LimiterSteps DEF IndInv
<1> QED
  BY <1>1, <1>2, Invariance, PTL DEF Spec, LimiterSpec

\* Every variable holds a value of its kind; only stored codes are mailed, and
\* only requests the limiter let through get as far as a code.
THEOREM TypeCorrect == Spec => []TypeOK
<1>1. IndInv => TypeOK
  BY DEF IndInv
<1> QED
  BY <1>1, Invariance, PTL

\* The budget of a window, behind the handlers.
THEOREM RequestBudget == Spec => []WindowBudget
BY UsesLimiter, Budget, PTL

\* The codes of an address and a window are finitely many, within the table.
LEMMA CodesFinite ==
    ASSUME TypeOK, NEW p, NEW e, NEW t
    PROVE  /\ IsFiniteSet(CodesOf(p, e, t)) /\ Cardinality(CodesOf(p, e, t)) \in Nat
           /\ CodesOf(p, e, t) \subseteq 1..Len(codes) /\ Len(codes) \in Nat
<1>1. Len(codes) \in Nat /\ DOMAIN codes = 1..Len(codes)
  BY LenProperties DEF TypeOK
<1>2. IsFiniteSet(1..Len(codes)) /\ CodesOf(p, e, t) \subseteq 1..Len(codes)
  BY <1>1, FS_Interval DEF CodesOf
<1> QED
  BY <1>1, <1>2, FS_Subset, FS_CardinalityType

\* However many clients are named, an address gets Limit codes of a purpose at most
\* for the requests of one window (limit before IssueCode).
THEOREM CodeBudget == Spec => []CodesPerWindow
<1>1. IndInv => CodesPerWindow
  <2> SUFFICES ASSUME IndInv, NEW e \in Emails, NEW t \in Times,
                      NEW p \in {"login_otp", "password_reset"}
               PROVE  Cardinality(CodesOf(p, e, t)) <= Limit
    BY DEF CodesPerWindow
  <2> DEFINE b == <<IF p = "login_otp" THEN "otp" ELSE "forgot", e>>
  <2>1. b \in Buckets
    BY RequestConstants DEF RequestConstants
  <2>2. codes \in Seq(CodeRow) /\ \A i \in DOMAIN codes : codes[i] \in CodeRow
    <3>1. codes \in Seq(CodeRow)
      BY DEF IndInv, TypeOK, CodeRow
    <3> QED
      BY <3>1, ElementOfSeq, LenProperties
  <2>3. CodesOf(p, e, t) = Made(b, t)
    <3>1. \A i \in DOMAIN codes : codes[i].subject.purpose \in {"login_otp", "password_reset"}
      BY <2>2 DEF CodeRow, Subjects
    <3>2. \A i \in DOMAIN codes :
            IdBucket(codes[i].subject) = b <=> /\ codes[i].subject.purpose = p
                                               /\ codes[i].subject.email = e
      BY <3>1 DEF IdBucket
    <3> QED
      BY <3>2 DEF CodesOf, Made
  <2> HIDE DEF b
  <2>4. IsFiniteSet(Admitted(b, t)) /\ Cardinality(Admitted(b, t)) \in Nat
    BY <2>1, FS_CardinalityType DEF IndInv, MadeInv
  <2>5. Cardinality(Made(b, t)) \in Nat
    BY <2>2, MadeFinite
  <2>6. /\ Cardinality(Made(b, t)) + Cardinality(Admitted(b, t)) <= passed[b][t]
        /\ passed[b][t] <= Limit /\ passed[b][t] \in Nat
    BY <2>1 DEF IndInv, MadeInv, LimiterInv, BudgetInv, LimiterTypeOK
  <2> QED
    BY <2>3, <2>4, <2>5, <2>6, LimiterConstants DEF LimiterConstants
<1> QED
  BY <1>1, Invariance, PTL

\* So no inbox gets more than that, whatever fails between IssueCode and SendCode.
THEOREM MailBudget == Spec => []MailPerWindow
<1>1. IndInv /\ CodesPerWindow => MailPerWindow
  <2> SUFFICES ASSUME IndInv, CodesPerWindow, NEW e \in Emails, NEW t \in Times,
                      NEW p \in {"login_otp", "password_reset"}
               PROVE  Cardinality(CodesOf(p, e, t) \cap mailed) <= Limit
    BY DEF MailPerWindow
  <2>1. IsFiniteSet(CodesOf(p, e, t))
    BY CodesFinite DEF IndInv
  <2>2. /\ IsFiniteSet(CodesOf(p, e, t) \cap mailed)
        /\ Cardinality(CodesOf(p, e, t) \cap mailed) <= Cardinality(CodesOf(p, e, t))
    BY <2>1, FS_Subset
  <2>3. /\ Cardinality(CodesOf(p, e, t)) \in Nat
        /\ Cardinality(CodesOf(p, e, t) \cap mailed) \in Nat
    BY <2>1, <2>2, FS_CardinalityType
  <2>4. Cardinality(CodesOf(p, e, t)) <= Limit
    BY DEF CodesPerWindow
  <2> QED
    BY <2>2, <2>3, <2>4, LimiterConstants DEF LimiterConstants
<1> QED
  BY <1>1, Invariance, CodeBudget, PTL

\* No code is compared with more guesses than maxOTPAttempts, the right one
\* included (ConsumeCode).
THEOREM CodeGuesses == Spec => []GuessesPerCode
<1>1. IndInv => GuessesPerCode
  BY RequestConstants DEF IndInv, GuessInv, GuessesPerCode, RequestConstants
<1> QED
  BY <1>1, Invariance, PTL

\* So all guesses at the login codes that one window's requests for an address have
\* brought about, at whatever clients and from wherever, are Limit * maxOTPAttempts
\* at most (handleOTPRequest's limit, and ConsumeCode's).
THEOREM WindowGuesses == Spec => []GuessesPerWindow
<1>1. IndInv /\ CodesPerWindow => GuessesPerWindow
  <2> SUFFICES ASSUME IndInv, CodesPerWindow, NEW e \in Emails, NEW t \in Times
               PROVE  SumFunctionOnSet(guesses, CodesOf("login_otp", e, t))
                        <= Limit * MaxOTPAttempts
    BY DEF GuessesPerWindow
  <2> DEFINE S == CodesOf("login_otp", e, t)
  <2>1. IsFiniteSet(S) /\ Cardinality(S) \in Nat /\ S \subseteq 1..Len(codes) /\ Len(codes) \in Nat
    BY CodesFinite DEF IndInv
  <2>2. Cardinality(S) <= Limit /\ Limit \in Nat /\ MaxOTPAttempts \in Nat
    BY LimiterConstants, RequestConstants
       DEF CodesPerWindow, LimiterConstants, RequestConstants
  <2>3. \A i \in S : guesses[i] \in Nat /\ guesses[i] <= MaxOTPAttempts
    <3>1. S \subseteq DOMAIN codes /\ S \subseteq 1..MaxCodes
      BY <2>1, RequestConstants DEF CodesOf, IndInv, GuessInv, RequestConstants
    <3> QED
      BY <3>1 DEF IndInv, GuessInv, TypeOK
  <2> HIDE DEF S
  <2>4. /\ SumFunctionOnSet(guesses, S) \in Nat
        /\ SumFunctionOnSet(guesses, S) <= Cardinality(S) * MaxOTPAttempts
    BY <2>1, <2>2, <2>3, SumBound
  <2>5. \A n, k, m \in Nat : n <= k => n * m <= k * m
    OBVIOUS
  <2> QED
    BY <2>1, <2>2, <2>4, <2>5 DEF S
<1> QED
  BY <1>1, Invariance, CodeBudget, PTL
=============================================================================
