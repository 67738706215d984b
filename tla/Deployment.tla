----------------------------- MODULE Deployment -----------------------------
(***************************************************************************)
(* The processes of cmd/authsvc and how they begin and end: `authsvc       *)
(* -migrate`, run before a release (store.Migrate), and the server, which  *)
(* prunes in the background and drains its requests when it is told to     *)
(* stop (run, prune, pruneOnce).                                           *)
(*                                                                         *)
(* Migrators take a session-scoped advisory lock and run goose on the one  *)
(* connection of a database/sql pool.  goose, PostgreSQL's locks, net/http *)
(* and pgxpool are external: goose reads the version and applies the next  *)
(* migration in a transaction until there is none; a transaction that      *)
(* creates what another has created meanwhile fails; a lock dies with its  *)
(* connection, and database/sql replaces a connection that broke while it  *)
(* was idle; Shutdown waits for the handlers, and the pool's Close for the *)
(* connections in use.  The platform starts the server once a migrator has *)
(* succeeded (railway.json), and again when it has died.                   *)
(***************************************************************************)
EXTENDS Naturals, FiniteSets

CONSTANTS
    Migrators,   \* processes that run `authsvc -migrate`
    Handlers,    \* requests the server works on at the same time
    Migrations,  \* number of migration files
    None

ASSUME DeployConstants ==
    /\ Migrations \in Nat
    /\ None \notin Migrators

VARIABLES
    mpc,        \* where each migrator is
    target,     \* the migration its transaction applies
    holder,     \* the migrator whose session has the advisory lock
    applied,    \* migrations committed: goose_db_version
    proc,       \* the server process
    handler,    \* each request: none, at work, or at work with a connection
    mail,       \* the goroutine of sendEmailVerification
    pruner,     \* the goroutine of prune: the table it is at
    lost,       \* history: a migrator went on with a new connection
    collided,   \* history: a migrator's transaction met another's
    released    \* history: a migrator has succeeded

migrating == <<mpc, target, holder, applied, lost, collided, released>>
server    == <<proc, handler, mail, pruner>>
vars      == <<migrating, server>>

\* db.Close is deferred in run.
poolOpen == proc \in {"serving", "draining"}

Tables == {"sessions", "otp_codes", "rate_limits", "oauth_flows", "auth_codes"}

TypeOK ==
    /\ mpc \in [Migrators -> {"idle", "lock", "goose", "apply", "done", "broken"}]
    /\ target \in [Migrators -> 0..Migrations]
    /\ holder \in Migrators \cup {None}
    /\ applied \in 0..Migrations
    /\ lost \in BOOLEAN /\ released \in BOOLEAN
    /\ collided \in BOOLEAN
    /\ proc \in {"down", "serving", "draining", "closing"}
    /\ handler \in [Handlers -> {"idle", "busy", "db"}]
    /\ mail \in {"none", "db", "send"}
    /\ pruner \in {"off", "wait"} \cup Tables
    /\ proc = "down" => /\ mail = "none" /\ pruner = "off"
                        /\ \A h \in Handlers : handler[h] = "idle"
    /\ holder # None => mpc[holder] \in {"goose", "apply", "done", "broken"}

Init ==
    /\ mpc = [m \in Migrators |-> "idle"]
    /\ target = [m \in Migrators |-> 0]
    /\ holder = None /\ applied = 0
    /\ lost = FALSE /\ collided = FALSE /\ released = FALSE
    /\ proc = "down"
    /\ handler = [h \in Handlers |-> "idle"]
    /\ mail = "none" /\ pruner = "off"

-----------------------------------------------------------------------------
(***************************************************************************)
(* Migrate.                                                                *)
(***************************************************************************)
MigrateStart(m) ==
    /\ mpc[m] = "idle"
    /\ mpc' = [mpc EXCEPT ![m] = "lock"]
    /\ UNCHANGED <<target, holder, applied, lost, collided, released, server>>

\* Faulty variant: no advisory lock.
MigrateUnlocked(m) ==
    /\ mpc[m] = "lock"
    /\ mpc' = [mpc EXCEPT ![m] = "goose"]
    /\ UNCHANGED <<target, holder, applied, lost, collided, released, server>>

\* SELECT pg_advisory_lock.
MigrateLock(m) ==
    /\ mpc[m] = "lock"
    /\ holder = None
    /\ holder' = m
    /\ mpc' = [mpc EXCEPT ![m] = "goose"]
    /\ UNCHANGED <<target, applied, lost, collided, released, server>>

\* goose reads the version: the next migration's transaction begins, or all
\* are there.
GooseNext(m) ==
    /\ mpc[m] = "goose"
    /\ IF applied = Migrations
       THEN mpc' = [mpc EXCEPT ![m] = "done"] /\ UNCHANGED target
       ELSE /\ mpc' = [mpc EXCEPT ![m] = "apply"]
            /\ target' = [target EXCEPT ![m] = applied + 1]
    /\ UNCHANGED <<holder, applied, lost, collided, released, server>>

\* The transaction commits, unless another migrator has been there first.
GooseApply(m) ==
    /\ mpc[m] = "apply"
    /\ IF applied >= target[m]
       THEN /\ collided' = TRUE
            /\ mpc' = [mpc EXCEPT ![m] = "broken"]
            /\ UNCHANGED applied
       ELSE /\ applied' = target[m]
            /\ mpc' = [mpc EXCEPT ![m] = "goose"]
            /\ UNCHANGED collided
    /\ target' = [target EXCEPT ![m] = 0]
    /\ UNCHANGED <<holder, lost, released, server>>

\* A migration is bad, the context is cancelled, a statement fails.
GooseFails(m) ==
    /\ mpc[m] \in {"goose", "apply"}
    /\ mpc' = [mpc EXCEPT ![m] = "broken"]
    /\ target' = [target EXCEPT ![m] = 0]
    /\ UNCHANGED <<holder, applied, lost, collided, released, server>>

\* Faulty variant: goose's error is dropped.
MigrateReturnNoError(m) ==
    /\ mpc[m] \in {"done", "broken"}
    /\ mpc' = [mpc EXCEPT ![m] = "idle"]
    /\ released' = TRUE
    /\ holder' = IF holder = m THEN None ELSE holder
    /\ UNCHANGED <<target, applied, lost, collided, server>>

\* Faulty variant: neither the unlock nor the pool's Close is deferred.
MigrateReturnLocked(m) ==
    /\ mpc[m] \in {"done", "broken"}
    /\ mpc' = [mpc EXCEPT ![m] = "idle"]
    /\ released' = (released \/ mpc[m] = "done")
    /\ UNCHANGED <<target, holder, applied, lost, collided, server>>

\* The deferred unlock, on whatever connection there is now; the process ends.
MigrateReturn(m) ==
    /\ mpc[m] \in {"done", "broken"}
    /\ mpc' = [mpc EXCEPT ![m] = "idle"]
    /\ released' = (released \/ mpc[m] = "done")
    /\ holder' = IF holder = m THEN None ELSE holder
    /\ UNCHANGED <<target, applied, lost, collided, server>>

\* The connection breaks and the lock with it.  A transaction is lost with it
\* too; between two transactions goose does not notice.
LoseConnection(m) ==
    /\ mpc[m] \in {"goose", "apply"}
    /\ holder' = IF holder = m THEN None ELSE holder
    /\ mpc' = [mpc EXCEPT ![m] = IF mpc[m] = "apply" THEN "broken" ELSE "goose"]
    /\ target' = [target EXCEPT ![m] = 0]
    /\ lost' = (lost \/ mpc[m] = "goose")
    /\ UNCHANGED <<applied, collided, released, server>>

\* The migrator dies.
MigratorCrash(m) ==
    /\ mpc[m] # "idle"
    /\ holder' = IF holder = m THEN None ELSE holder
    /\ mpc' = [mpc EXCEPT ![m] = "idle"]
    /\ target' = [target EXCEPT ![m] = 0]
    /\ UNCHANGED <<applied, lost, collided, released, server>>

-----------------------------------------------------------------------------
(***************************************************************************)
(* The server.                                                             *)
(***************************************************************************)

\* Faulty variant: prune waits for its ticker first.
StartWithoutPrune ==
    /\ proc = "down" /\ released
    /\ proc' = "serving" /\ pruner' = "wait"
    /\ UNCHANGED <<handler, mail, migrating>>

\* Open, then the goroutine of prune and the listener.
Start ==
    /\ proc = "down" /\ released
    /\ proc' = "serving" /\ pruner' = "sessions"
    /\ UNCHANGED <<handler, mail, migrating>>

\* A request.  Shutdown admits no more, and after a failed listener those of
\* connections kept alive find a closed pool.
Accept(h) ==
    /\ proc = "serving"
    /\ handler[h] = "idle"
    /\ handler' = [handler EXCEPT ![h] = "busy"]
    /\ UNCHANGED <<proc, mail, pruner, migrating>>

Acquire(h) ==
    /\ handler[h] = "busy" /\ poolOpen
    /\ handler' = [handler EXCEPT ![h] = "db"]
    /\ UNCHANGED <<proc, mail, pruner, migrating>>

Release(h) ==
    /\ handler[h] = "db"
    /\ handler' = [handler EXCEPT ![h] = "busy"]
    /\ UNCHANGED <<proc, mail, pruner, migrating>>

\* The handler returns; that of a registration may leave its mail behind (one
\* such mail at a time, a bound).
Finish(h) ==
    /\ handler[h] = "busy"
    /\ handler' = [handler EXCEPT ![h] = "idle"]
    /\ mail' \in IF mail = "none" /\ poolOpen THEN {"none", "db"} ELSE {mail}
    /\ UNCHANGED <<proc, pruner, migrating>>

\* deliverEmailVerification: IssueCode with a connection, then SendCode.
DeliverEmailVerification ==
    /\ \/ mail = "db" /\ mail' \in {"send", "none"}
       \/ mail = "send" /\ mail' = "none"
    /\ UNCHANGED <<proc, handler, pruner, migrating>>

\* What follows the statement on each table.
After == [sessions |-> "otp_codes", otp_codes |-> "rate_limits",
          rate_limits |-> "oauth_flows", oauth_flows |-> "auth_codes", auth_codes |-> "wait"]

\* pruneOnce: the statement on t ends, well or not, and the next one begins;
\* on a closed pool none does.
PruneOnce(t) ==
    /\ pruner = t
    /\ pruner' = IF poolOpen THEN After[t] ELSE "wait"
    /\ UNCHANGED <<proc, handler, mail, migrating>>

\* PruneOAuth returns the error of its first DELETE and leaves out the second.
PruneOAuthError ==
    /\ pruner = "oauth_flows"
    /\ pruner' = "wait"
    /\ UNCHANGED <<proc, handler, mail, migrating>>

\* prune's select, which ends the goroutine once a signal has come.  After a
\* failed listener it would go on until the process ends, on a closed pool.
Ticker ==
    /\ pruner = "wait"
    /\ pruner' = IF proc = "serving" THEN "sessions" ELSE "off"
    /\ UNCHANGED <<proc, handler, mail, migrating>>

Sigterm ==
    /\ proc = "serving"
    /\ proc' = "draining"
    /\ UNCHANGED <<handler, mail, pruner, migrating>>

\* run returns, and its deferred db.Close begins.
Return ==
    /\ proc' = "closing"
    /\ UNCHANGED <<handler, mail, pruner, migrating>>

ListenerFails == proc = "serving" /\ Return

\* Every handler has returned.
Shutdown ==
    /\ proc = "draining"
    /\ \A h \in Handlers : handler[h] = "idle"
    /\ Return

\* Faulty variant: Shutdown gets a context without a deadline.
ShutdownForever == Shutdown

\* shutCtx ends after 20 seconds.
ShutdownTimeout == proc = "draining" /\ Return

\* What the pool's Close waits for.
InUse == mail = "db" \/ pruner \in Tables \/ \E h \in Handlers : handler[h] = "db"

Down ==
    /\ proc' = "down"
    /\ handler' = [h \in Handlers |-> "idle"]
    /\ mail' = "none" /\ pruner' = "off"
    /\ UNCHANGED migrating

Exit  == proc = "closing" /\ ~InUse /\ Down
Crash == proc # "down" /\ Down

Next ==
    \/ \E m \in Migrators :
        \/ MigrateStart(m) \/ MigrateLock(m) \/ GooseNext(m) \/ GooseApply(m)
        \/ GooseFails(m) \/ MigrateReturn(m) \/ LoseConnection(m) \/ MigratorCrash(m)
    \/ \E h \in Handlers : Accept(h) \/ Acquire(h) \/ Release(h) \/ Finish(h)
    \/ \E t \in Tables : PruneOnce(t)
    \/ PruneOAuthError \/ DeliverEmailVerification \/ Ticker
    \/ Start \/ Sigterm \/ ListenerFails \/ Shutdown \/ ShutdownTimeout \/ Exit \/ Crash

Spec == Init /\ [][Next]_vars

(***************************************************************************)
(* Fairness.  Statements end and timers fire; a handler need not: it may   *)
(* wait for a mail provider or its caller.  The platform starts what has   *)
(* died, and stops a server to make way for the next release; of the       *)
(* servers started again and again, again and again one lives long enough  *)
(* for its next statement, and the first DELETE of PruneOAuth does not     *)
(* fail every time.                                                        *)
(***************************************************************************)
Fairness ==
    /\ \A h \in Handlers : WF_vars(Release(h))
    /\ WF_vars(DeliverEmailVerification)
    /\ \A t \in Tables : SF_vars(proc = "serving" /\ PruneOnce(t))
    /\ WF_vars(\E t \in Tables : PruneOnce(t)) /\ WF_vars(Ticker)
    /\ WF_vars(Start) /\ WF_vars(ShutdownTimeout) /\ WF_vars(Exit)

FairSpec == Spec /\ Fairness

-----------------------------------------------------------------------------
(***************************************************************************)
(* Properties.                                                             *)
(***************************************************************************)

\* migrate.go, "concurrent callers serialise instead of racing": a migrator's
\* transaction meets another's only if a connection broke between two
\* transactions and goose went on without the lock (Migrate).
CollideOnlyAfterLoss == collided => lost

\* The server runs on a database that has every migration, whichever migrator
\* failed, died or lost its lock on the way (Migrate's result, railway.json).
ServesMigratedSchema == proc # "down" => applied = Migrations

\* A server that was told to stop ends, although a handler may never return
\* (run).
StopsOnSignal == proc = "draining" ~> proc = "down"

\* main.go, "a platform that redeploys more often than the tick interval would
\* otherwise never prune at all": once released, every table is pruned again
\* and again, however often servers are replaced and statements fail, unless it
\* is always the one before auth_codes, whose error PruneOAuth returns (prune,
\* pruneOnce).
KeepsPruning == \A t \in Tables : released ~> (proc = "serving" /\ pruner = t)
=============================================================================
