-------------------------- MODULE DeploymentProofs --------------------------
(***************************************************************************)
(* Proofs about Deployment: any number of migrators, requests and          *)
(* migrations.                                                             *)
(***************************************************************************)
EXTENDS Deployment, TLAPS

Migrating(m) == mpc[m] \in {"goose", "apply"}

\* Until a connection broke between two transactions, goose runs under the
\* advisory lock only, and nobody has been at the version it read.
LockInv ==
    ~lost => \A m \in Migrators :
        /\ Migrating(m) => holder = m
        /\ mpc[m] = "apply" => target[m] = applied + 1

\* goose ends well when the last migration is there, with or without the lock.
VersionInv ==
    /\ \A m \in Migrators :
        /\ mpc[m] = "apply" => target[m] <= applied + 1
        /\ mpc[m] = "done" => applied = Migrations
    /\ released => applied = Migrations
    /\ proc # "down" => released

IndInv == TypeOK /\ LockInv /\ VersionInv /\ CollideOnlyAfterLoss

-----------------------------------------------------------------------------
\* A step keeps the types, and a server that is down has left nothing running.
LEMMA TypeStep ==
    TypeOK /\ [Next]_vars => TypeOK'
<1> SUFFICES ASSUME TypeOK, [Next]_vars PROVE TypeOK'
  OBVIOUS
<1> USE DeployConstants DEF TypeOK, Tables, migrating, server, poolOpen
<1>1. ASSUME NEW m \in Migrators, MigrateStart(m)
      PROVE  TypeOK'
  BY <1>1 DEF MigrateStart
<1>2. ASSUME NEW m \in Migrators, MigrateLock(m)
      PROVE  TypeOK'
  BY <1>2 DEF MigrateLock
<1>3. ASSUME NEW m \in Migrators, GooseNext(m)
      PROVE  TypeOK'
  <2>1. CASE applied = Migrations
    BY <1>3, <2>1 DEF GooseNext
  <2>2. CASE applied # Migrations
    <3>1. applied + 1 \in 0..Migrations
      BY <2>2
    <3> QED
      BY <1>3, <2>2, <3>1 DEF GooseNext
  <2> QED
    BY <2>1, <2>2
<1>4. ASSUME NEW m \in Migrators, GooseApply(m)
      PROVE  TypeOK'
  <2>1. target' \in [Migrators -> 0..Migrations] /\ applied' \in 0..Migrations
    BY <1>4 DEF GooseApply
  <2>2. collided' \in BOOLEAN
    BY <1>4 DEF GooseApply
  <2> QED
    BY <1>4, <2>1, <2>2 DEF GooseApply
<1>5. ASSUME NEW m \in Migrators, GooseFails(m)
      PROVE  TypeOK'
  BY <1>5 DEF GooseFails
<1>6. ASSUME NEW m \in Migrators, MigrateReturn(m)
      PROVE  TypeOK'
  BY <1>6 DEF MigrateReturn
<1>7. ASSUME NEW m \in Migrators, LoseConnection(m)
      PROVE  TypeOK'
  BY <1>7 DEF LoseConnection
<1>8. ASSUME NEW m \in Migrators, MigratorCrash(m)
      PROVE  TypeOK'
  BY <1>8 DEF MigratorCrash
<1>9. ASSUME NEW h \in Handlers, Accept(h) \/ Acquire(h) \/ Release(h) \/ Finish(h)
      PROVE  TypeOK'
  BY <1>9 DEF Accept, Acquire, Release, Finish
<1>10. ASSUME NEW t \in Tables, PruneOnce(t)
      PROVE  TypeOK'
  BY <1>10 DEF PruneOnce, After
<1>11. CASE PruneOAuthError \/ DeliverEmailVerification \/ Ticker
  BY <1>11 DEF PruneOAuthError, DeliverEmailVerification, Ticker
<1>12. CASE Start \/ Sigterm \/ ListenerFails \/ Shutdown \/ ShutdownTimeout
  BY <1>12 DEF Start, Sigterm, ListenerFails, Shutdown, ShutdownTimeout, Return
<1>13. CASE Exit \/ Crash
  BY <1>13 DEF Exit, Crash, Down
<1>14. CASE UNCHANGED vars
  BY <1>14 DEF vars
<1> QED
  BY ONLY <1>1, <1>2, <1>3, <1>4, <1>5, <1>6, <1>7, <1>8, <1>9, <1>10, <1>11,
     <1>12, <1>13, <1>14, [Next]_vars DEF Next

\* What the server does is nothing to the migrators.
LEMMA ServerStep ==
    [Next]_vars => \/ \E m \in Migrators :
                        \/ MigrateStart(m) \/ MigrateLock(m) \/ GooseNext(m) \/ GooseApply(m)
                        \/ GooseFails(m) \/ MigrateReturn(m) \/ LoseConnection(m)
                        \/ MigratorCrash(m)
                   \/ UNCHANGED migrating
BY DEF Next, Accept, Acquire, Release, Finish, PruneOnce, PruneOAuthError,
       DeliverEmailVerification, Ticker, Start, Sigterm, ListenerFails,
       Shutdown, ShutdownTimeout, Return, Exit, Crash, Down, vars

\* A step keeps the lock's promise, and nobody collides under it.
LEMMA LockStep ==
    TypeOK /\ LockInv /\ CollideOnlyAfterLoss /\ [Next]_vars
        => LockInv' /\ CollideOnlyAfterLoss'
<1> SUFFICES ASSUME TypeOK, LockInv, CollideOnlyAfterLoss, [Next]_vars
             PROVE  LockInv' /\ CollideOnlyAfterLoss'
  OBVIOUS
<1> USE DeployConstants DEF LockInv, CollideOnlyAfterLoss, Migrating, TypeOK
<1>1. ASSUME NEW m \in Migrators, MigrateStart(m)
      PROVE  LockInv' /\ CollideOnlyAfterLoss'
  BY <1>1 DEF MigrateStart
<1>2. ASSUME NEW m \in Migrators, MigrateLock(m)
      PROVE  LockInv' /\ CollideOnlyAfterLoss'
  BY <1>2 DEF MigrateLock
<1>3. ASSUME NEW m \in Migrators, GooseNext(m)
      PROVE  LockInv' /\ CollideOnlyAfterLoss'
  BY <1>3 DEF GooseNext
<1>4. ASSUME NEW m \in Migrators, GooseApply(m)
      PROVE  LockInv' /\ CollideOnlyAfterLoss'
  BY <1>4 DEF GooseApply
<1>5. ASSUME NEW m \in Migrators, GooseFails(m)
      PROVE  LockInv' /\ CollideOnlyAfterLoss'
  BY <1>5 DEF GooseFails
<1>6. ASSUME NEW m \in Migrators, MigrateReturn(m)
      PROVE  LockInv' /\ CollideOnlyAfterLoss'
  BY <1>6 DEF MigrateReturn
<1>7. ASSUME NEW m \in Migrators, LoseConnection(m)
      PROVE  LockInv' /\ CollideOnlyAfterLoss'
  BY <1>7 DEF LoseConnection
<1>8. ASSUME NEW m \in Migrators, MigratorCrash(m)
      PROVE  LockInv' /\ CollideOnlyAfterLoss'
  BY <1>8 DEF MigratorCrash
<1>9. CASE UNCHANGED migrating
  BY <1>9 DEF migrating
<1> QED
  BY ONLY <1>1, <1>2, <1>3, <1>4, <1>5, <1>6, <1>7, <1>8, <1>9, [Next]_vars, ServerStep

\* A migrator moves the version by one, or not at all, whoever else migrates.
LEMMA OneAtATime ==
    TypeOK /\ VersionInv /\ [Next]_vars => applied' \in {applied, applied + 1}
<1> SUFFICES ASSUME TypeOK, VersionInv, [Next]_vars
             PROVE  applied' \in {applied, applied + 1}
  OBVIOUS
<1>1. ASSUME NEW m \in Migrators, GooseApply(m)
      PROVE  applied' \in {applied, applied + 1}
  BY <1>1, DeployConstants DEF GooseApply, VersionInv, TypeOK
<1>2. ASSUME NEW m \in Migrators,
             \/ MigrateStart(m) \/ MigrateLock(m) \/ GooseNext(m)
             \/ GooseFails(m) \/ MigrateReturn(m) \/ LoseConnection(m) \/ MigratorCrash(m)
      PROVE  applied' \in {applied, applied + 1}
  BY <1>2 DEF MigrateStart, MigrateLock, GooseNext, GooseFails, MigrateReturn,
              LoseConnection, MigratorCrash
<1>3. CASE UNCHANGED migrating
  BY <1>3 DEF migrating
<1> QED
  BY ONLY <1>1, <1>2, <1>3, [Next]_vars, ServerStep

\* A step keeps what is known of the version: a migrator that lost its lock may
\* fail, but does not end well too early, and undoes nothing.
LEMMA VersionStep ==
    TypeOK /\ VersionInv /\ [Next]_vars => VersionInv'
<1> SUFFICES ASSUME TypeOK, VersionInv, [Next]_vars PROVE VersionInv'
  OBVIOUS
<1> USE DeployConstants DEF VersionInv, TypeOK, server
<1>1. ASSUME NEW m \in Migrators, MigrateStart(m) \/ MigrateLock(m)
      PROVE  VersionInv'
  BY <1>1 DEF MigrateStart, MigrateLock
<1>2. ASSUME NEW m \in Migrators, GooseNext(m)
      PROVE  VersionInv'
  BY <1>2 DEF GooseNext
<1>3. ASSUME NEW m \in Migrators, GooseApply(m)
      PROVE  VersionInv'
  BY <1>3 DEF GooseApply
<1>4. ASSUME NEW m \in Migrators, GooseFails(m) \/ LoseConnection(m) \/ MigratorCrash(m)
      PROVE  VersionInv'
  BY <1>4 DEF GooseFails, LoseConnection, MigratorCrash
<1>5. ASSUME NEW m \in Migrators, MigrateReturn(m)
      PROVE  VersionInv'
  BY <1>5 DEF MigrateReturn
<1>6. CASE UNCHANGED migrating
  <2>1. proc' # "down" => released
    BY ONLY <1>6, VersionInv, [Next]_vars DEF VersionInv, Next, MigrateStart, MigrateLock,
       GooseNext, GooseApply, GooseFails, MigrateReturn, LoseConnection, MigratorCrash, server,
       Accept, Acquire, Release, Finish, PruneOnce, PruneOAuthError,
       DeliverEmailVerification, Ticker, Start, Sigterm, ListenerFails, Shutdown,
       ShutdownTimeout, Return, Exit, Crash, Down, vars
  <2> QED
    BY <1>6, <2>1 DEF migrating
<1> QED
  BY ONLY <1>1, <1>2, <1>3, <1>4, <1>5, <1>6, [Next]_vars, ServerStep

-----------------------------------------------------------------------------
\* The invariant the properties of Migrate rest on holds in every reachable
\* state.
THEOREM Invariance == Spec => []IndInv
<1>1. Init => IndInv
  <2> SUFFICES ASSUME Init PROVE IndInv
    OBVIOUS
  <2>1. TypeOK
    <3>1. lost \in BOOLEAN /\ released \in BOOLEAN /\ collided \in BOOLEAN
      BY DEF Init
    <3>2. target \in [Migrators -> 0..Migrations] /\ applied \in 0..Migrations
      BY DeployConstants DEF Init
    <3>3. mpc \in [Migrators -> {"idle", "lock", "goose", "apply", "done", "broken"}]
      BY DEF Init
    <3>4. handler \in [Handlers -> {"idle", "busy", "db"}]
      BY DEF Init
    <3> QED
      BY <3>1, <3>2, <3>3, <3>4 DEF Init, TypeOK
  <2>2. LockInv /\ CollideOnlyAfterLoss
    BY DEF Init, LockInv, CollideOnlyAfterLoss, Migrating
  <2>3. VersionInv
    BY DEF Init, VersionInv
  <2> QED
    BY <2>1, <2>2, <2>3 DEF IndInv
<1>2. IndInv /\ [Next]_vars => IndInv'
  BY TypeStep, LockStep, VersionStep DEF IndInv
<1> QED
  BY <1>1, <1>2, PTL DEF Spec

\* The variables keep their types, and a server that is down has left no
\* request, mail or statement behind (run).
THEOREM TypeCorrect == Spec => []TypeOK
<1>1. IndInv => TypeOK
  BY DEF IndInv
<1> QED
  BY <1>1, Invariance, PTL

\* Concurrent migrators meet only after a connection broke between two
\* transactions of one of them (Migrate's advisory lock).
THEOREM Serialised == Spec => []CollideOnlyAfterLoss
<1>1. IndInv => CollideOnlyAfterLoss
  BY DEF IndInv
<1> QED
  BY <1>1, Invariance, PTL

\* A server never runs on a database that lacks a migration (Migrate's result
\* and the release order of railway.json).
THEOREM Migrated == Spec => []ServesMigratedSchema
<1>1. IndInv => ServesMigratedSchema
  BY DEF IndInv, VersionInv, ServesMigratedSchema
<1> QED
  BY <1>1, Invariance, PTL

\* Migrations are applied in the order of their numbers, none twice and none
\* left out, even by migrators that lost the lock: goose's version moves by one
\* (Migrate).
THEOREM InOrder == Spec => [][applied' = applied + 1]_applied
<1>1. IndInv /\ [Next]_vars => [applied' = applied + 1]_applied
  BY OneAtATime DEF IndInv
<1> QED
  BY <1>1, Invariance, PTL DEF Spec
=============================================================================
