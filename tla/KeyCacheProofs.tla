--------------------------- MODULE KeyCacheProofs ---------------------------
(***************************************************************************)
(* Proofs about KeyCache: any number of goroutines and rotations, any      *)
(* lifetimes and limits that RotationPolicy allows.                        *)
(***************************************************************************)
EXTENDS KeyCache, TLAPS

Busy(g) == pc[g] # "idle"

\* One fetch at a time: New's before the ticker starts, then the lock's holder.
FlightInv ==
    /\ \A g \in Goroutines : Busy(g) /\ warmed => refreshing = g
    /\ \A g, h \in Goroutines : Busy(g) /\ Busy(h) => g = h
    /\ ~warmed => refreshing = None

\* The cached set was served before any fetch under way began, and a fetch is
\* never older than its timeout.
ClockInv ==
    /\ rotatedAt <= now
    /\ servedAt <= fetchedAt
    /\ fetchedAt <= now
    /\ fetchedAt <= servedAt + FetchTimeout
    /\ \A g \in Goroutines : Busy(g) =>
        /\ servedAt <= since[g]
        /\ since[g] <= now
        /\ now <= since[g] + FetchTimeout
    /\ \A g \in Goroutines : pc[g] = "store" =>
        /\ since[g] <= served[g]
        /\ served[g] <= now
        /\ answer[g] # None
    /\ set # Empty

\* A deployment lags behind the other by one promotion at most.
LagInv == \A s, t \in Servers : epoch[s] <= epoch[t] + 1

\* No deployment is two promotions ahead of a key set served at time t, unless
\* RotateEvery has passed since.
Recent(n, t) ==
    \/ /\ \A s \in Servers : epoch[s] <= n + 1
       /\ (\A s \in Servers : epoch[s] = n + 1) => t <= rotatedAt
    \/ t + RotateEvery <= now

\* What a key set served at time t says of the service: it was not ahead of
\* both deployments, and its keys are published or were at time t.
Sound(n, t) ==
    /\ Recent(n, t)
    /\ \E s \in Servers : n <= epoch[s]
    /\ \A k \in JWKS(n) : k \in Published \/ t <= droppedAt[k]

\* The cached set, and the answers about to be stored, are Sound.
AnswerInv ==
    /\ set \in Epochs => Sound(set, servedAt)
    /\ \A g \in Goroutines :
        pc[g] = "store" /\ answer[g] \in Epochs => Sound(answer[g], served[g])

-----------------------------------------------------------------------------
\* A step keeps the types, and the refresh lock is never left behind.
LEMMA TypeStep ==
    TypeOK /\ FlightInv /\ [Next]_vars => TypeOK'
<1> SUFFICES ASSUME TypeOK, FlightInv, [Next]_vars PROVE TypeOK'
  OBVIOUS
<1> USE KeyConstants DEF FlightInv, Busy, TypeOK, Epochs, Keys, service, cache, fetch
<1>1. ASSUME NEW s \in Servers, SignAccess(s)
      PROVE  TypeOK'
  <2>1. AccessTTL \in 0..AccessTTL /\ epoch[s] \in Keys
    OBVIOUS
  <2>2. validFor' \in [Keys -> 0..AccessTTL]
    BY <1>1, <2>1 DEF SignAccess
  <2> QED
    BY <1>1, <2>2 DEF SignAccess
<1>2. ASSUME NEW s \in Servers, Promote(s)
      PROVE  TypeOK'
  <2>1. epoch[s] \in 0..MaxRotations /\ epoch[s] < MaxRotations
    BY <1>2 DEF Promote
  <2>2. epoch[s] + 1 \in Epochs
    BY ONLY <2>1, KeyConstants DEF KeyConstants, Epochs
  <2>3. epoch' \in [Servers -> Epochs]
    BY <1>2, <2>2 DEF Promote
  <2>4. droppedAt' \in [Keys -> 0..MaxTime]
    BY <1>2 DEF Promote
  <2> QED
    BY <1>2, <2>3, <2>4 DEF Promote
<1>3. ASSUME NEW s \in Servers, Toggle(s)
      PROVE  TypeOK'
  BY <1>3 DEF Toggle
<1>4. ASSUME NEW g \in Goroutines, Warm(g)
      PROVE  TypeOK'
  BY <1>4 DEF Warm, Begin, Servers
<1>5. ASSUME NEW g \in Goroutines, Refresh(g)
      PROVE  TypeOK'
  BY <1>5 DEF Refresh, Begin, Servers
<1>6. ASSUME NEW g \in Goroutines, NEW s \in Servers, Answered(g, s)
      PROVE  TypeOK'
  BY <1>6 DEF Answered, Given, Servers
<1>7. ASSUME NEW g \in Goroutines, NEW s \in Servers, Refused(g, s)
      PROVE  TypeOK'
  <2>1. CASE pc' = [pc EXCEPT ![g] = "failed"] /\ UNCHANGED <<since, answer, served>>
    BY <1>7, <2>1 DEF Refused, Servers
  <2>2. CASE Given(g, Empty)
    BY <1>7, <2>2 DEF Refused, Given, Servers
  <2> QED
    BY <1>7, <2>1, <2>2 DEF Refused
<1>8. ASSUME NEW g \in Goroutines, FailOver(g)
      PROVE  TypeOK'
  BY <1>8 DEF FailOver, Servers
<1>9. ASSUME NEW g \in Goroutines, Store(g)
      PROVE  TypeOK'
  <2>1. set' \in Epochs \cup {None, Empty} /\ servedAt' \in 0..MaxTime /\ fetchedAt' \in 0..MaxTime
    BY <1>9 DEF Store
  <2>2. pc' \in [Goroutines -> {"idle", "failed", "store"} \cup Servers]
    BY <1>9 DEF Store, Done, Reset
  <2>3. since' \in [Goroutines -> 0..MaxTime] /\ served' \in [Goroutines -> 0..MaxTime]
    BY <1>9 DEF Store, Done, Reset
  <2>4. answer' \in [Goroutines -> Epochs \cup {None, Empty}]
    BY <1>9 DEF Store, Done, Reset
  <2>5. refreshing' \in Goroutines \cup {None} /\ (refreshing' # None => pc'[refreshing'] # "idle")
    BY <1>9 DEF Store, Done, Reset
  <2> QED
    BY <1>9, <2>1, <2>2, <2>3, <2>4, <2>5 DEF Store, Done
<1>10. ASSUME NEW g \in Goroutines, FetchError(g)
      PROVE  TypeOK'
  BY <1>10 DEF FetchError, Done, Reset
<1>11. CASE Close
  BY <1>11 DEF Close
<1>12. CASE Tick
  <2>1. validFor' \in [Keys -> 0..AccessTTL]
    BY <1>12 DEF Tick
  <2> QED
    BY <1>12, <2>1 DEF Tick
<1>13. CASE UNCHANGED vars
  BY <1>13 DEF vars
<1> QED
  BY ONLY <1>1, <1>2, <1>3, <1>4, <1>5, <1>6, <1>7, <1>8, <1>9, <1>10, <1>11,
     <1>12, <1>13, [Next]_vars DEF Next

\* A step never starts a second fetch.
LEMMA FlightStep ==
    TypeOK /\ FlightInv /\ [Next]_vars => FlightInv'
<1> SUFFICES ASSUME TypeOK, FlightInv, [Next]_vars PROVE FlightInv'
  OBVIOUS
<1> USE KeyConstants DEF FlightInv, Busy, TypeOK, Epochs, Keys, service, cache, fetch
<1>1. ASSUME NEW s \in Servers, SignAccess(s)
      PROVE  FlightInv'
  BY <1>1 DEF SignAccess
<1>2. ASSUME NEW s \in Servers, Promote(s)
      PROVE  FlightInv'
  BY <1>2 DEF Promote
<1>3. ASSUME NEW s \in Servers, Toggle(s)
      PROVE  FlightInv'
  BY <1>3 DEF Toggle
<1>4. ASSUME NEW g \in Goroutines, Warm(g)
      PROVE  FlightInv'
  BY <1>4 DEF Warm, Begin
<1>5. ASSUME NEW g \in Goroutines, Refresh(g)
      PROVE  FlightInv'
  BY <1>5 DEF Refresh, Begin
<1>6. ASSUME NEW g \in Goroutines, NEW s \in Servers, Answered(g, s)
      PROVE  FlightInv'
  <2>1. s # "idle"
    BY DEF Servers
  <2> QED
    BY <1>6, <2>1 DEF Answered, Given
<1>7. ASSUME NEW g \in Goroutines, NEW s \in Servers, Refused(g, s)
      PROVE  FlightInv'
  <2>1. s # "idle"
    BY DEF Servers
  <2> QED
    BY <1>7, <2>1 DEF Refused, Given
<1>8. ASSUME NEW g \in Goroutines, FailOver(g)
      PROVE  FlightInv'
  BY <1>8 DEF FailOver
<1>9. ASSUME NEW g \in Goroutines, Store(g)
      PROVE  FlightInv'
  BY <1>9 DEF Store, Done, Reset
<1>10. ASSUME NEW g \in Goroutines, FetchError(g)
      PROVE  FlightInv'
  BY <1>10 DEF FetchError, Done, Reset
<1>11. CASE Close
  BY <1>11 DEF Close
<1>12. CASE Tick
  BY <1>12 DEF Tick
<1>13. CASE UNCHANGED vars
  BY <1>13 DEF vars
<1> QED
  BY ONLY <1>1, <1>2, <1>3, <1>4, <1>5, <1>6, <1>7, <1>8, <1>9, <1>10, <1>11,
     <1>12, <1>13, [Next]_vars DEF Next

\* A step keeps the order of the times.
LEMMA ClockStep ==
    TypeOK /\ FlightInv /\ ClockInv /\ [Next]_vars => ClockInv'
<1> SUFFICES ASSUME TypeOK, FlightInv, ClockInv, [Next]_vars PROVE ClockInv'
  OBVIOUS
<1> USE KeyConstants DEF FlightInv, ClockInv, Busy, TypeOK, Epochs, Keys, service, cache, fetch
<1>1. ASSUME NEW s \in Servers, SignAccess(s)
      PROVE  ClockInv'
  BY <1>1 DEF SignAccess
<1>2. ASSUME NEW s \in Servers, Promote(s)
      PROVE  ClockInv'
  BY <1>2 DEF Promote
<1>3. ASSUME NEW s \in Servers, Toggle(s)
      PROVE  ClockInv'
  BY <1>3 DEF Toggle
<1>4. ASSUME NEW g \in Goroutines, Warm(g)
      PROVE  ClockInv'
  BY <1>4 DEF Warm, Begin
<1>5. ASSUME NEW g \in Goroutines, Refresh(g)
      PROVE  ClockInv'
  BY <1>5 DEF Refresh, Begin
<1>6. ASSUME NEW g \in Goroutines, NEW s \in Servers, Answered(g, s)
      PROVE  ClockInv'
  <2>1. pc[g] # "idle" /\ pc[g] = s
    BY <1>6 DEF Answered, Servers
  <2>2. /\ servedAt <= since[g] /\ since[g] <= now /\ now <= since[g] + FetchTimeout
        /\ now <= now
    BY <2>1
  <2>3. \A h \in Goroutines : pc'[h] # "idle" => pc[h] # "idle"
    BY <1>6, <2>1 DEF Answered, Given
  <2>4. epoch[s] # None /\ Empty # None
    OBVIOUS
  <2>5. \A h \in Goroutines : pc'[h] = "store" =>
          \/ pc[h] = "store" /\ since'[h] = since[h] /\ served'[h] = served[h] /\ answer'[h] = answer[h]
          \/ h = g /\ since'[h] = since[g] /\ served'[h] = now /\ answer'[h] \in {epoch[s], Empty}
    BY <1>6, <2>1 DEF Answered, Given
  <2>6. \A h \in Goroutines : pc'[h] = "store" =>
          since'[h] <= served'[h] /\ served'[h] <= now /\ answer'[h] # None
    <3> SUFFICES ASSUME NEW h \in Goroutines, pc'[h] = "store"
                 PROVE  since'[h] <= served'[h] /\ served'[h] <= now /\ answer'[h] # None
      OBVIOUS
    <3>1. CASE h = g /\ since'[h] = since[g] /\ served'[h] = now /\ answer'[h] \in {epoch[s], Empty}
      BY ONLY <2>2, <2>4, <3>1
    <3>2. CASE pc[h] = "store" /\ since'[h] = since[h] /\ served'[h] = served[h] /\ answer'[h] = answer[h]
      BY ONLY <3>2, ClockInv, h \in Goroutines DEF ClockInv
    <3> QED
      BY ONLY <2>5, <3>1, <3>2, h \in Goroutines, pc'[h] = "store"
  <2> QED
    BY <1>6, <2>3, <2>6 DEF Answered, Given
<1>7. ASSUME NEW g \in Goroutines, NEW s \in Servers, Refused(g, s)
      PROVE  ClockInv'
  <2>1. pc[g] # "idle" /\ pc[g] = s
    BY <1>7 DEF Refused, Servers
  <2>2. /\ servedAt <= since[g] /\ since[g] <= now /\ now <= since[g] + FetchTimeout
        /\ now <= now
    BY <2>1
  <2>3. \A h \in Goroutines : pc'[h] # "idle" => pc[h] # "idle"
    BY <1>7, <2>1 DEF Refused, Given
  <2>4. epoch[s] # None /\ Empty # None
    OBVIOUS
  <2>5. \A h \in Goroutines : pc'[h] = "store" =>
          \/ pc[h] = "store" /\ since'[h] = since[h] /\ served'[h] = served[h] /\ answer'[h] = answer[h]
          \/ h = g /\ since'[h] = since[g] /\ served'[h] = now /\ answer'[h] \in {epoch[s], Empty}
    BY <1>7, <2>1 DEF Refused, Given
  <2>6. \A h \in Goroutines : pc'[h] = "store" =>
          since'[h] <= served'[h] /\ served'[h] <= now /\ answer'[h] # None
    <3> SUFFICES ASSUME NEW h \in Goroutines, pc'[h] = "store"
                 PROVE  since'[h] <= served'[h] /\ served'[h] <= now /\ answer'[h] # None
      OBVIOUS
    <3>1. CASE h = g /\ since'[h] = since[g] /\ served'[h] = now /\ answer'[h] \in {epoch[s], Empty}
      BY ONLY <2>2, <2>4, <3>1
    <3>2. CASE pc[h] = "store" /\ since'[h] = since[h] /\ served'[h] = served[h] /\ answer'[h] = answer[h]
      BY ONLY <3>2, ClockInv, h \in Goroutines DEF ClockInv
    <3> QED
      BY ONLY <2>5, <3>1, <3>2, h \in Goroutines, pc'[h] = "store"
  <2> QED
    BY <1>7, <2>3, <2>6 DEF Refused, Given
<1>8. ASSUME NEW g \in Goroutines, FailOver(g)
      PROVE  ClockInv'
  BY <1>8 DEF FailOver
<1>9. ASSUME NEW g \in Goroutines, Store(g)
      PROVE  ClockInv'
  <2>1. \A h \in Goroutines : h # g => pc[h] = "idle"
    BY <1>9 DEF Store
  <2>2. /\ servedAt' = served[g] /\ fetchedAt' = now /\ set' = answer[g]
        /\ pc' = [pc EXCEPT ![g] = "idle"]
        /\ pc[g] = "store" /\ set' # Empty
        /\ now' = now /\ rotatedAt' = rotatedAt
    BY <1>9 DEF Store, Done, Reset
  <2>3. \A h \in Goroutines : pc'[h] = "idle"
    BY <2>1, <2>2
  <2>4. /\ served[g] \in Nat /\ since[g] \in Nat /\ now \in Nat
        /\ since[g] <= served[g] /\ served[g] <= now /\ now <= since[g] + FetchTimeout
    BY <2>2
  <2>5. served[g] <= now /\ now <= now /\ now <= served[g] + FetchTimeout
    BY <2>4
  <2> QED
    BY <2>2, <2>3, <2>5
<1>10. ASSUME NEW g \in Goroutines, FetchError(g)
      PROVE  ClockInv'
  BY <1>10 DEF FetchError, Done, Reset
<1>11. CASE Close
  BY <1>11 DEF Close
<1>12. CASE Tick
  BY <1>12 DEF Tick
<1>13. CASE UNCHANGED vars
  BY <1>13 DEF vars
<1> QED
  BY ONLY <1>1, <1>2, <1>3, <1>4, <1>5, <1>6, <1>7, <1>8, <1>9, <1>10, <1>11,
     <1>12, <1>13, [Next]_vars DEF Next

\* A promotion is made where the older key signs.
LEMMA LagStep ==
    TypeOK /\ LagInv /\ [Next]_vars => LagInv'
<1> SUFFICES ASSUME TypeOK, LagInv, [Next]_vars PROVE LagInv'
  OBVIOUS
<1> USE KeyConstants DEF LagInv, TypeOK, Epochs, Keys, service, cache, fetch
<1>1. ASSUME NEW s \in Servers, SignAccess(s)
      PROVE  LagInv'
  BY <1>1 DEF SignAccess
<1>2. ASSUME NEW s \in Servers, Promote(s)
      PROVE  LagInv'
  <2>1. \A t \in Servers : epoch[t] \in Nat /\ epoch[s] <= epoch[t] /\ epoch[t] <= epoch[s] + 1
    BY <1>2 DEF Promote
  <2>2. \A t \in Servers : epoch'[t] = IF t = s THEN epoch[s] + 1 ELSE epoch[t]
    BY <1>2 DEF Promote
  <2> SUFFICES ASSUME NEW u \in Servers, NEW v \in Servers PROVE epoch'[u] <= epoch'[v] + 1
    OBVIOUS
  <2>3. epoch[s] \in Nat /\ epoch[u] \in Nat /\ epoch[v] \in Nat
    BY <2>1
  <2>4. epoch[u] <= epoch[v] + 1 /\ epoch[u] <= epoch[s] + 1 /\ epoch[s] <= epoch[v]
    BY <2>1
  <2>5. /\ epoch'[u] = epoch[u] \/ epoch'[u] = epoch[s] + 1
        /\ epoch'[v] = epoch[v] \/ epoch'[v] = epoch[s] + 1
    BY <2>2
  <2> QED
    BY ONLY <2>3, <2>4, <2>5
<1>3. ASSUME NEW s \in Servers, Toggle(s)
      PROVE  LagInv'
  BY <1>3 DEF Toggle
<1>4. ASSUME NEW g \in Goroutines, Warm(g)
      PROVE  LagInv'
  BY <1>4 DEF Warm, Begin
<1>5. ASSUME NEW g \in Goroutines, Refresh(g)
      PROVE  LagInv'
  BY <1>5 DEF Refresh, Begin
<1>6. ASSUME NEW g \in Goroutines, NEW s \in Servers, Answered(g, s)
      PROVE  LagInv'
  BY <1>6 DEF Answered, Given
<1>7. ASSUME NEW g \in Goroutines, NEW s \in Servers, Refused(g, s)
      PROVE  LagInv'
  BY <1>7 DEF Refused, Given
<1>8. ASSUME NEW g \in Goroutines, FailOver(g)
      PROVE  LagInv'
  BY <1>8 DEF FailOver
<1>9. ASSUME NEW g \in Goroutines, Store(g)
      PROVE  LagInv'
  BY <1>9 DEF Store, Done, Reset
<1>10. ASSUME NEW g \in Goroutines, FetchError(g)
      PROVE  LagInv'
  BY <1>10 DEF FetchError, Done, Reset
<1>11. CASE Close
  BY <1>11 DEF Close
<1>12. CASE Tick
  BY <1>12 DEF Tick
<1>13. CASE UNCHANGED vars
  BY <1>13 DEF vars
<1> QED
  BY ONLY <1>1, <1>2, <1>3, <1>4, <1>5, <1>6, <1>7, <1>8, <1>9, <1>10, <1>11,
     <1>12, <1>13, [Next]_vars DEF Next

\* What a deployment serves is Sound at that moment.
LEMMA ServedSound ==
    ASSUME TypeOK, LagInv, NEW s \in Servers
    PROVE  Sound(epoch[s], now)
<1> USE KeyConstants DEF TypeOK, Epochs, Keys
<1>1. epoch[s] \in Nat /\ epoch[s] <= epoch[s] /\ epoch[s] # epoch[s] + 1
  OBVIOUS
<1>2. Recent(epoch[s], now)
  BY <1>1 DEF LagInv, Recent
<1>3. JWKS(epoch[s]) \subseteq Published
  BY DEF Published
<1> QED
  BY <1>1, <1>2, <1>3 DEF Sound

\* What was Sound stays so while the service's keys do not change.
LEMMA SoundKept ==
    ASSUME TypeOK, TypeOK', now <= now', UNCHANGED <<epoch, rotatedAt, droppedAt>>
    PROVE  \A n \in Epochs, t \in 0..MaxTime : Sound(n, t) => Sound(n, t)'
<1> USE KeyConstants DEF TypeOK, Epochs, Keys
<1> SUFFICES ASSUME NEW n \in Epochs, NEW t \in 0..MaxTime, Sound(n, t)
             PROVE  Sound(n, t)'
  OBVIOUS
<1>1. Recent(n, t)'
  BY DEF Sound, Recent
<1>2. (\E s \in Servers : n <= epoch[s])'
  BY DEF Sound
<1>3. (\A k \in JWKS(n) : k \in Published \/ t <= droppedAt[k])'
  BY DEF Sound, Published
<1> QED
  BY <1>1, <1>2, <1>3 DEF Sound

\* And through a promotion: either its keys are still one step behind at most,
\* or RotateEvery has passed since both deployments had moved on.
LEMMA SoundPromoted ==
    ASSUME TypeOK, TypeOK', rotatedAt <= now, NEW s \in Servers, Promote(s)
    PROVE  \A n \in Epochs, t \in 0..MaxTime : t <= now /\ Sound(n, t) => Sound(n, t)'
<1> USE KeyConstants DEF TypeOK, Epochs, Keys
<1> SUFFICES ASSUME NEW n \in Epochs, NEW t \in 0..MaxTime, t <= now, Sound(n, t)
             PROVE  Sound(n, t)'
  OBVIOUS
<1>1. /\ \A u \in Servers : epoch'[u] = IF u = s THEN epoch[s] + 1 ELSE epoch[u]
      /\ \A u \in Servers : epoch[u] \in Nat
      /\ rotatedAt' = now /\ now' = now
      /\ t \in Nat /\ n \in Nat /\ now \in Nat /\ rotatedAt \in Nat
  BY DEF Promote
<1>2. Recent(n, t)'
  <2>1. CASE t + RotateEvery <= now
    BY <1>1, <2>1 DEF Recent
  <2>2. CASE epoch[s] <= n
    <3>1. epoch[s] + 1 <= n + 1
      BY ONLY <1>1, <2>2, s \in Servers
    <3>2. CASE \A u \in Servers : epoch[u] <= n + 1
      BY ONLY <1>1, <3>1, <3>2, t <= now DEF Recent
    <3> QED
      BY <2>1, <3>2 DEF Sound, Recent
  <2>3. CASE epoch[s] > n /\ ~(t + RotateEvery <= now)
    <3>1. /\ \A u \in Servers : epoch[u] <= n + 1
          /\ (\A u \in Servers : epoch[u] = n + 1) => t <= rotatedAt
      BY <2>3 DEF Sound, Recent
    <3>2. \A u \in Servers : epoch[s] <= epoch[u]
      BY DEF Promote
    <3>3. \A u \in Servers : epoch[u] = n + 1
      BY ONLY <1>1, <2>3, <3>1, <3>2, s \in Servers
    <3>4. now >= rotatedAt + RotateEvery
      BY <3>3 DEF Promote
    <3> QED
      BY ONLY <1>1, <2>3, <3>1, <3>3, <3>4, KeyConstants
  <2>4. epoch[s] <= n \/ epoch[s] > n
    BY ONLY <1>1, s \in Servers
  <2> QED
    BY ONLY <2>1, <2>2, <2>3, <2>4
<1>3. (\E u \in Servers : n <= epoch[u])'
  <2>1. PICK u \in Servers : n <= epoch[u]
    BY DEF Sound
  <2>2. n <= epoch'[u]
    BY ONLY <1>1, <2>1, s \in Servers
  <2> QED
    BY <2>2
<1>4. (\A k \in JWKS(n) : k \in Published \/ t <= droppedAt[k])'
  <2> SUFFICES ASSUME NEW k \in JWKS(n) PROVE k \in Published' \/ t <= droppedAt'[k]
    OBVIOUS
  <2>1. k \in Keys
    BY ONLY KeyConstants, n \in Epochs, k \in JWKS(n) DEF KeyConstants, JWKS, Epochs, Keys
  <2>2. droppedAt'[k] = IF k \in Published THEN now ELSE droppedAt[k]
    BY <2>1 DEF Promote
  <2> QED
    BY <2>2 DEF Sound
<1> QED
  BY <1>2, <1>3, <1>4 DEF Sound

\* A step leaves the cache with keys that are Sound.
LEMMA AnswerStep ==
    TypeOK /\ TypeOK' /\ FlightInv /\ ClockInv /\ LagInv /\ AnswerInv /\ [Next]_vars => AnswerInv'
<1> SUFFICES ASSUME TypeOK, TypeOK', FlightInv, ClockInv, LagInv, AnswerInv, [Next]_vars PROVE AnswerInv'
  OBVIOUS
<1> USE KeyConstants DEF ClockInv, AnswerInv, Epochs, service, cache, fetch, TypeOK
<1>1. ASSUME NEW s \in Servers, SignAccess(s)
      PROVE  AnswerInv'
  <2>1. \A n \in Epochs, t \in 0..MaxTime : Sound(n, t) => Sound(n, t)'
    BY <1>1, SoundKept DEF SignAccess
  <2> QED
    BY <1>1, <2>1 DEF SignAccess
<1>2. ASSUME NEW s \in Servers, Promote(s)
      PROVE  AnswerInv'
  <2>1. \A n \in Epochs, t \in 0..MaxTime : t <= now /\ Sound(n, t) => Sound(n, t)'
    BY <1>2, SoundPromoted
  <2> QED
    BY <1>2, <2>1 DEF Promote
<1>3. ASSUME NEW s \in Servers, Toggle(s)
      PROVE  AnswerInv'
  <2>1. \A n \in Epochs, t \in 0..MaxTime : Sound(n, t) => Sound(n, t)'
    BY <1>3, SoundKept DEF Toggle
  <2> QED
    BY <1>3, <2>1 DEF Toggle
<1>4. ASSUME NEW g \in Goroutines, Warm(g)
      PROVE  AnswerInv'
  <2>1. \A n \in Epochs, t \in 0..MaxTime : Sound(n, t) => Sound(n, t)'
    BY <1>4, SoundKept DEF Warm, Begin
  <2> QED
    BY <1>4, <2>1 DEF Warm, Begin
<1>5. ASSUME NEW g \in Goroutines, Refresh(g)
      PROVE  AnswerInv'
  <2>1. \A n \in Epochs, t \in 0..MaxTime : Sound(n, t) => Sound(n, t)'
    BY <1>5, SoundKept DEF Refresh, Begin
  <2> QED
    BY <1>5, <2>1 DEF Refresh, Begin
<1>6. ASSUME NEW g \in Goroutines, NEW s \in Servers, Answered(g, s)
      PROVE  AnswerInv'
  <2>1. \A n \in Epochs, t \in 0..MaxTime : Sound(n, t) => Sound(n, t)'
    BY <1>6, SoundKept DEF Answered, Given
  <2>2. Sound(epoch[s], now) /\ epoch[s] \in Epochs
    BY ServedSound
  <2>3. \A h \in Goroutines :
          \/ pc'[h] = pc[h] /\ answer'[h] = answer[h] /\ served'[h] = served[h]
          \/ answer'[h] = epoch[s] /\ served'[h] = now
    BY <1>6 DEF Answered, Given
  <2>4. set' = set /\ servedAt' = servedAt
    BY <1>6 DEF Answered
  <2> QED
    BY <2>1, <2>2, <2>3, <2>4
<1>7. ASSUME NEW g \in Goroutines, NEW s \in Servers, Refused(g, s)
      PROVE  AnswerInv'
  <2>1. \A n \in Epochs, t \in 0..MaxTime : Sound(n, t) => Sound(n, t)'
    BY <1>7, SoundKept DEF Refused, Given
  <2> QED
    BY <1>7, <2>1 DEF Refused, Given
<1>8. ASSUME NEW g \in Goroutines, FailOver(g)
      PROVE  AnswerInv'
  <2>1. \A n \in Epochs, t \in 0..MaxTime : Sound(n, t) => Sound(n, t)'
    BY <1>8, SoundKept DEF FailOver
  <2> QED
    BY <1>8, <2>1 DEF FailOver
<1>9. ASSUME NEW g \in Goroutines, Store(g)
      PROVE  AnswerInv'
  <2>1. \A n \in Epochs, t \in 0..MaxTime : Sound(n, t) => Sound(n, t)'
    BY <1>9, SoundKept DEF Store, Done, Reset
  <2> QED
    BY <1>9, <2>1 DEF Store, Done, Reset
<1>10. ASSUME NEW g \in Goroutines, FetchError(g)
      PROVE  AnswerInv'
  <2>1. \A n \in Epochs, t \in 0..MaxTime : Sound(n, t) => Sound(n, t)'
    BY <1>10, SoundKept DEF FetchError, Done, Reset
  <2> QED
    BY <1>10, <2>1 DEF FetchError, Done, Reset
<1>11. CASE Close
  <2>1. \A n \in Epochs, t \in 0..MaxTime : Sound(n, t) => Sound(n, t)'
    BY <1>11, SoundKept DEF Close
  <2> QED
    BY <1>11, <2>1 DEF Close
<1>12. CASE Tick
  <2>1. \A n \in Epochs, t \in 0..MaxTime : Sound(n, t) => Sound(n, t)'
    BY <1>12, SoundKept DEF Tick
  <2> QED
    BY <1>12, <2>1 DEF Tick
<1>13. CASE UNCHANGED vars
  <2>1. \A n \in Epochs, t \in 0..MaxTime : Sound(n, t) => Sound(n, t)'
    BY <1>13, SoundKept DEF vars
  <2> QED
    BY <1>13, <2>1 DEF vars
<1> QED
  BY ONLY <1>1, <1>2, <1>3, <1>4, <1>5, <1>6, <1>7, <1>8, <1>9, <1>10, <1>11,
     <1>12, <1>13, [Next]_vars DEF Next

-----------------------------------------------------------------------------
IndInv ==
    /\ TypeOK
    /\ FlightInv
    /\ ClockInv
    /\ LagInv
    /\ AnswerInv

\* The conjuncts together hold initially and are preserved by every step.
THEOREM Invariance == Spec => []IndInv
<1>1. Init => IndInv
  <2> SUFFICES ASSUME Init PROVE IndInv
    OBVIOUS
  <2>1. 0 \in 0..MaxTime /\ 0 \in 0..AccessTTL /\ 0 \in Epochs
    BY KeyConstants DEF Epochs
  <2>2. TypeOK
    BY <2>1 DEF Init, TypeOK
  <2>3. set = None /\ None \notin Epochs
    BY KeyConstants DEF Init, Epochs
  <2>4. FlightInv /\ LagInv /\ AnswerInv
    BY <2>3 DEF Init, FlightInv, LagInv, AnswerInv, Busy
  <2>5. ClockInv
    BY KeyConstants, <2>3 DEF Init, ClockInv, Busy
  <2> QED
    BY <2>2, <2>4, <2>5 DEF IndInv
<1>2. IndInv /\ [Next]_vars => IndInv'
  BY TypeStep, FlightStep, ClockStep, LagStep, AnswerStep DEF IndInv
<1> QED
  BY <1>1, <1>2, PTL DEF Spec

\* Every variable keeps its type, and the refresh lock is held by a fetch.
THEOREM TypeCorrect == Spec => []TypeOK
<1>1. IndInv => TypeOK
  BY DEF IndInv
<1> QED
  BY <1>1, Invariance, PTL

\* A cache that answers holds the key the newest deployment signs with, so
\* RequireUser refuses no token fresh from it.
THEOREM RotationIsSeamless == Spec => []SeamlessRotation
<1>1. IndInv => SeamlessRotation
  <2> SUFFICES ASSUME IndInv, NEW s \in Servers, AccessTTL > 0,
                      \A t \in Servers : epoch[t] <= epoch[s],
                      set # None, ~(Age > JWKSMaxStale)
               PROVE  epoch[s] \in Trusted
    BY DEF SeamlessRotation, RequireUser, Verify
  <2>1. set \in Epochs /\ Sound(set, servedAt)
    BY DEF IndInv, TypeOK, ClockInv, AnswerInv
  <2>2. /\ now \in Nat /\ fetchedAt \in Nat /\ servedAt \in Nat /\ set \in Nat
        /\ \A t \in Servers : epoch[t] \in Nat
        /\ fetchedAt <= servedAt + FetchTimeout
    BY <2>1, KeyConstants DEF IndInv, TypeOK, ClockInv, Epochs
  <2>3. Age <= JWKSMaxStale
    BY <2>2, KeyConstants DEF Age
  <2>4. ~(servedAt + RotateEvery <= now)
    BY <2>2, <2>3, KeyConstants, RotationPolicy DEF Age
  <2>5. epoch[s] <= set + 1
    BY <2>1, <2>4 DEF Sound, Recent
  <2>6. set <= epoch[s]
    BY <2>1, <2>2 DEF Sound
  <2>7. epoch[s] \in {set, set + 1}
    BY <2>2, <2>5, <2>6
  <2> QED
    BY <2>1, <2>7, <2>3 DEF Trusted, JWKS
<1> QED
  BY <1>1, Invariance, PTL

\* A retired key is trusted for JWKSMaxStale and one fetch at most.
THEOREM TrustIsBounded == Spec => []TrustBound
<1>1. IndInv => TrustBound
  <2> SUFFICES ASSUME IndInv, NEW k \in Trusted, k \notin Published
               PROVE  now <= droppedAt[k] + JWKSMaxStale + FetchTimeout
    BY DEF TrustBound
  <2>1. set \in Epochs /\ k \in JWKS(set) /\ Age <= JWKSMaxStale
    BY DEF Trusted
  <2>2. servedAt <= droppedAt[k]
    BY <2>1 DEF IndInv, AnswerInv, Sound
  <2>3. k \in Keys
    BY <2>1, KeyConstants DEF JWKS, Keys, Epochs
  <2>4. /\ now \in Nat /\ fetchedAt \in Nat /\ servedAt \in Nat /\ droppedAt[k] \in Nat
        /\ fetchedAt <= servedAt + FetchTimeout
    BY <2>3, KeyConstants DEF IndInv, TypeOK, ClockInv
  <2> QED
    BY <2>1, <2>2, <2>4, KeyConstants DEF Age
<1> QED
  BY <1>1, Invariance, PTL

\* No fetch, however slow, puts an older answer in place of a newer one.
THEOREM AnswersAdvance == Spec => NoOlderAnswer
<1>1. IndInv /\ [Next]_vars => [servedAt' >= servedAt]_vars
  <2> SUFFICES ASSUME IndInv, Next PROVE servedAt' >= servedAt
    OBVIOUS
  <2>1. servedAt \in Nat /\ servedAt >= servedAt
    BY KeyConstants DEF IndInv, TypeOK
  <2>2. ASSUME NEW g \in Goroutines, Store(g)
        PROVE  servedAt' >= servedAt
    <3>1. servedAt' = served[g] /\ pc[g] = "store"
      BY <2>2 DEF Store
    <3>2. servedAt <= since[g] /\ since[g] <= served[g]
      BY <3>1 DEF IndInv, ClockInv, Busy
    <3>3. since[g] \in Nat /\ served[g] \in Nat
      BY KeyConstants DEF IndInv, TypeOK
    <3> QED
      BY <2>1, <3>1, <3>2, <3>3
  <2>3. CASE UNCHANGED servedAt
    BY <2>1, <2>3
  <2>4. UNCHANGED servedAt \/ \E g \in Goroutines : Store(g)
    BY DEF Next, SignAccess, Promote, Toggle, Warm, Refresh, Answered, Refused, FailOver,
           FetchError, Close, Tick, cache
  <2> QED
    BY <2>2, <2>3, <2>4
<1> QED
  BY <1>1, Invariance, PTL DEF Spec, NoOlderAnswer

=============================================================================
