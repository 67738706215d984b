---------------------------- MODULE SessionStore ----------------------------
(***************************************************************************)
(* The refresh-session table of internal/store/sessions.go, as it behaves  *)
(* over PostgreSQL at READ COMMITTED, the isolation pgx uses when none is  *)
(* asked for.                                                              *)
(*                                                                         *)
(* A refresh token stands for the one row that holds its hash (token_hash  *)
(* is UNIQUE), so a token is a session id here.  A worker is a request (or *)
(* the nightly prune) with a connection of its own; its call is split at   *)
(* the points where another transaction can come in between:               *)
(*                                                                         *)
(*   - SELECT ... FOR UPDATE waits for the row's lock and then reads the   *)
(*     latest committed version of that row;                               *)
(*   - an UPDATE or DELETE of many rows first fixes the set of rows it     *)
(*     sees (the statement's snapshot), then locks them one by one,        *)
(*     waiting where another transaction holds a row and checking its      *)
(*     WHERE clause again on what that transaction left behind;            *)
(*   - what a transaction wrote is seen by the others when it commits, and *)
(*     never when it is aborted.                                           *)
(***************************************************************************)
EXTENDS Naturals, FiniteSets

CONSTANTS
    Workers,      \* requests and background jobs that run at the same time
    Ids,          \* the session ids (ULIDs) a behaviour may use
    Users,        \* account ids
    None,         \* SQL NULL, and "no argument"
    RefreshTTL,   \* lifetime of a refresh token
    Grace,        \* how long past its expiry PruneSessions keeps a row
    MaxTime       \* bound on the clock

ASSUME ConstantsAssumption ==
    /\ None \notin Ids \cup Users
    /\ RefreshTTL \in Nat
    /\ Grace \in Nat
    /\ MaxTime \in Nat

VARIABLES
    now,          \* db.now()
    minted,       \* ids handed out by ulid.Make, committed or not
    issued,       \* ids whose INSERT has committed, pruned since or not
    sessions,     \* the committed rows of the table
    owner,        \* column user_id
    family,       \* column family_id
    parent,       \* column parent_id
    expires,      \* column expires_at
    used,         \* rows with used_at set
    revoked,      \* rows with revoked_at set
    pc,           \* where each worker is in its call
    key,          \* the argument of its call, then of its statement
    child,        \* the row it has inserted but not committed
    snap,         \* rows its statement saw and has not visited yet
    locks,        \* rows its transaction has locked
    scope         \* history: the rows the call promises to revoke

columns == <<owner, family, parent, expires>>
table   == <<issued, sessions, used, revoked>>
local   == <<pc, key, child, snap, locks, scope>>
vars    == <<now, minted, table, columns, local>>

(***************************************************************************)
(* Where a worker can be.  The outcomes are what the call returns: a new   *)
(* token, success of a revocation, ErrTokenReuse, ErrNotFound, or any      *)
(* other error (the transaction was rolled back).                          *)
(***************************************************************************)
Scans      == {"scanReuse", "scanFamily", "scanUser", "scanPrune"}
Outcomes   == {"issued", "revoked", "pruned", "tokenReuse", "notFound", "failed"}
Waiting    == {"rotate", "commit", "reuse", "find", "revokeFamily"} \cup Scans
PCs        == {"idle"} \cup Waiting \cup Outcomes

\* Every column and local holds a value of its kind, and a call that has no
\* transaction open, because it has not begun one or has returned, holds no
\* row (the deferred Rollback and the Commit of every store method).
TypeOK ==
    /\ now \in 0..MaxTime
    /\ minted \in SUBSET Ids
    /\ issued \in SUBSET minted
    /\ sessions \in SUBSET issued
    /\ used \in SUBSET issued
    /\ revoked \in SUBSET issued
    /\ owner \in [Ids -> Users \cup {None}]
    /\ family \in [Ids -> Ids \cup {None}]
    /\ parent \in [Ids -> Ids \cup {None}]
    /\ expires \in [Ids -> Nat]
    /\ pc \in [Workers -> PCs]
    /\ key \in [Workers -> Ids \cup Users \cup {None}]
    /\ child \in [Workers -> Ids \cup {None}]
    /\ snap \in [Workers -> SUBSET issued]
    /\ locks \in [Workers -> SUBSET issued]
    /\ scope \in [Workers -> SUBSET issued]
    /\ \A w \in Workers : pc[w] = "commit" => child[w] \in minted /\ key[w] \in issued
    /\ \A w \in Workers :
            pc[w] \in {"idle", "rotate", "find", "revokeFamily"} \cup Outcomes =>
                locks[w] = {} /\ snap[w] = {}

Init ==
    /\ now = 0
    /\ minted = {} /\ issued = {} /\ sessions = {} /\ used = {} /\ revoked = {}
    /\ owner = [i \in Ids |-> None]
    /\ family = [i \in Ids |-> None]
    /\ parent = [i \in Ids |-> None]
    /\ expires = [i \in Ids |-> 0]
    /\ pc = [w \in Workers |-> "idle"]
    /\ key = [w \in Workers |-> None]
    /\ child = [w \in Workers |-> None]
    /\ snap = [w \in Workers |-> {}]
    /\ locks = [w \in Workers |-> {}]
    /\ scope = [w \in Workers |-> {}]

-----------------------------------------------------------------------------
FamilyRows(f) == {i \in sessions : family[i] = f}
UserRows(u)   == {i \in sessions : owner[i] = u /\ i \notin revoked}

\* Faulty variant: the cutoff leaves the grace period out.
StaleRowsNoGrace == {i \in sessions : expires[i] < now}

StaleRows == {i \in sessions : expires[i] + Grace < now}

\* Faulty variant: Rotate's SELECT lacks FOR UPDATE and waits for nobody.
FreeWithoutForUpdate(w, i) ==
    pc[w] = "rotate" \/ \A v \in Workers \ {w} : i \notin locks[v]

\* No other transaction holds a lock on row i.
Free(w, i) == \A v \in Workers \ {w} : i \notin locks[v]

\* GET /v1/sessions: the rows ActiveSessionsForUser returns.
ActiveSessionsForUser(u) ==
    {i \in sessions : /\ owner[i] = u
                      /\ i \notin revoked
                      /\ i \notin used
                      /\ expires[i] > now}

\* The call of w begins: its argument, and the rows it answers for.
Call(w, label, k, rows) ==
    /\ pc[w] = "idle"
    /\ pc' = [pc EXCEPT ![w] = label]
    /\ key' = [key EXCEPT ![w] = k]
    /\ scope' = [scope EXCEPT ![w] = rows]

\* Faulty variant: the deferred Rollback is missing, the locks stay behind.
FinishWithoutRollback(w, outcome) ==
    /\ pc' = [pc EXCEPT ![w] = outcome]
    /\ locks' = locks
    /\ snap' = [snap EXCEPT ![w] = {}]
    /\ child' = [child EXCEPT ![w] = None]

\* The transaction of w ends, committed or rolled back, and the call returns.
Finish(w, outcome) ==
    /\ pc' = [pc EXCEPT ![w] = outcome]
    /\ locks' = [locks EXCEPT ![w] = {}]
    /\ snap' = [snap EXCEPT ![w] = {}]
    /\ child' = [child EXCEPT ![w] = None]

\* insertSession: a row nobody sees before it is committed.
insertSession(i, u, f, par) ==
    /\ i \in Ids \ minted
    /\ minted' = minted \cup {i}
    /\ owner' = [owner EXCEPT ![i] = u]
    /\ family' = [family EXCEPT ![i] = f]
    /\ parent' = [parent EXCEPT ![i] = par]
    /\ expires' = [expires EXCEPT ![i] = now + RefreshTTL]

-----------------------------------------------------------------------------
(***************************************************************************)
(* CreateSession: one autocommitted INSERT, the first row of a new family. *)
(***************************************************************************)
CreateSession(w, u, i) ==
    /\ Call(w, "issued", u, {})
    /\ insertSession(i, u, i, None)
    /\ issued' = issued \cup {i}
    /\ sessions' = sessions \cup {i}
    /\ UNCHANGED <<now, used, revoked, child, snap, locks>>

(***************************************************************************)
(* Rotate, up to the lock.  Any token ever issued may be presented, spent, *)
(* revoked and pruned ones included.  A token already spent when the call  *)
(* begins makes the call answer for its whole family.                      *)
(***************************************************************************)
RotateCall(w, i) ==
    /\ i \in issued
    /\ Call(w, "rotate", i, IF i \in used \cap sessions
                            THEN FamilyRows(family[i]) ELSE {})
    /\ UNCHANGED <<now, minted, table, columns, child, snap, locks>>

\* The row is gone: norows turns pgx.ErrNoRows into ErrNotFound.
RotateNoRow(w) ==
    /\ pc[w] = "rotate"
    /\ key[w] \notin sessions
    /\ Finish(w, "notFound")
    /\ UNCHANGED <<now, minted, table, columns, key, scope>>

\* SELECT ... FOR UPDATE got the row, and used_at is set.
RotateReuse(w) ==
    /\ pc[w] = "rotate"
    /\ key[w] \in sessions
    /\ Free(w, key[w])
    /\ key[w] \in used
    /\ locks' = [locks EXCEPT ![w] = {key[w]}]
    /\ key' = [key EXCEPT ![w] = family[key[w]]]
    /\ pc' = [pc EXCEPT ![w] = "reuse"]
    /\ UNCHANGED <<now, minted, table, columns, child, snap, scope>>

\* Faulty variant: revoked_at is looked at before used_at.
RotateRejectFirst(w) ==
    /\ pc[w] = "rotate"
    /\ key[w] \in sessions
    /\ Free(w, key[w])
    /\ key[w] \in revoked \/ now > expires[key[w]]
    /\ Finish(w, "notFound")
    /\ UNCHANGED <<now, minted, table, columns, key, scope>>

\* SELECT ... FOR UPDATE got the row, and it is revoked or past its expiry.
RotateReject(w) ==
    /\ pc[w] = "rotate"
    /\ key[w] \in sessions
    /\ Free(w, key[w])
    /\ key[w] \notin used
    /\ key[w] \in revoked \/ now > expires[key[w]]
    /\ Finish(w, "notFound")
    /\ UNCHANGED <<now, minted, table, columns, key, scope>>

\* Faulty variant: the child is inserted through db.Pool and not through tx.
RotateSpendOutsideTx(w, i) ==
    /\ pc[w] = "rotate"
    /\ key[w] \in sessions
    /\ Free(w, key[w])
    /\ key[w] \notin used \cup revoked
    /\ now <= expires[key[w]]
    /\ insertSession(i, owner[key[w]], family[key[w]], key[w])
    /\ issued' = issued \cup {i}
    /\ sessions' = sessions \cup {i}
    /\ locks' = [locks EXCEPT ![w] = {key[w]}]
    /\ child' = [child EXCEPT ![w] = i]
    /\ pc' = [pc EXCEPT ![w] = "commit"]
    /\ UNCHANGED <<now, used, revoked, key, snap, scope>>

\* Faulty variant: revoked_at is not looked at.
RotateSpendRevoked(w, i) ==
    /\ pc[w] = "rotate"
    /\ key[w] \in sessions
    /\ Free(w, key[w])
    /\ key[w] \notin used
    /\ now <= expires[key[w]]
    /\ insertSession(i, owner[key[w]], family[key[w]], key[w])
    /\ locks' = [locks EXCEPT ![w] = {key[w]}]
    /\ child' = [child EXCEPT ![w] = i]
    /\ pc' = [pc EXCEPT ![w] = "commit"]
    /\ UNCHANGED <<now, table, key, snap, scope>>

\* The row is live: UPDATE used_at and INSERT the child, not committed yet.
RotateSpend(w, i) ==
    /\ pc[w] = "rotate"
    /\ key[w] \in sessions
    /\ Free(w, key[w])
    /\ key[w] \notin used \cup revoked
    /\ now <= expires[key[w]]
    /\ insertSession(i, owner[key[w]], family[key[w]], key[w])
    /\ locks' = [locks EXCEPT ![w] = {key[w]}]
    /\ child' = [child EXCEPT ![w] = i]
    /\ pc' = [pc EXCEPT ![w] = "commit"]
    /\ UNCHANGED <<now, table, key, snap, scope>>

RotateCommit(w) ==
    /\ pc[w] = "commit"
    /\ used' = used \cup {key[w]}
    /\ issued' = issued \cup {child[w]}
    /\ sessions' = sessions \cup {child[w]}
    /\ Finish(w, "issued")
    /\ UNCHANGED <<now, minted, revoked, columns, key, scope>>

(***************************************************************************)
(* The revocations.  RevokeByToken reads the family without a lock and     *)
(* then runs RevokeFamily.  handleDeleteSession does the same with the row *)
(* it finds by id.                                                         *)
(***************************************************************************)
RevokeByTokenCall(w, i) ==
    /\ i \in issued
    /\ Call(w, "find", i, IF i \in sessions THEN FamilyRows(family[i]) ELSE {})
    /\ UNCHANGED <<now, minted, table, columns, child, snap, locks>>

RevokeByTokenNoRow(w) ==
    /\ pc[w] = "find"
    /\ key[w] \notin sessions
    /\ Finish(w, "notFound")
    /\ UNCHANGED <<now, minted, table, columns, key, scope>>

RevokeByTokenFound(w) ==
    /\ pc[w] = "find"
    /\ key[w] \in sessions
    /\ key' = [key EXCEPT ![w] = family[key[w]]]
    /\ pc' = [pc EXCEPT ![w] = "revokeFamily"]
    /\ UNCHANGED <<now, minted, table, columns, child, snap, locks, scope>>

(***************************************************************************)
(* The statements over many rows: UPDATE ... SET revoked_at = COALESCE(    *)
(* revoked_at, now) WHERE family_id = key, the same by user_id with        *)
(* revoked_at IS NULL, and DELETE ... WHERE expires_at < now - Grace.      *)
(* RevokeAllForUser and PruneSessions are nothing but such a statement.    *)
(***************************************************************************)
StatementBegin(w, at, scan) ==
    /\ pc[w] = at
    /\ snap' = [snap EXCEPT ![w] = FamilyRows(key[w])]
    /\ pc' = [pc EXCEPT ![w] = scan]
    /\ UNCHANGED <<now, minted, table, columns, key, child, locks, scope>>

RevokeAllForUser(w, u) ==
    /\ Call(w, "scanUser", u, UserRows(u))
    /\ snap' = [snap EXCEPT ![w] = UserRows(u)]
    /\ UNCHANGED <<now, minted, table, columns, child, locks>>

PruneSessions(w) ==
    /\ Call(w, "scanPrune", None, {})
    /\ snap' = [snap EXCEPT ![w] = StaleRows]
    /\ UNCHANGED <<now, minted, table, columns, child, locks>>

\* The latest version of row i still satisfies the statement's WHERE clause.
StillMatches(w, i) ==
    /\ i \in sessions
    /\ pc[w] = "scanUser" => i \notin revoked

\* Faulty variant: a row another transaction has locked is skipped.
StatementVisitSkipLocked(w, i) ==
    /\ pc[w] \in Scans
    /\ i \in snap[w]
    /\ snap' = [snap EXCEPT ![w] = @ \ {i}]
    /\ locks' = [locks EXCEPT ![w] = IF Free(w, i) /\ StillMatches(w, i)
                                     THEN @ \cup {i} ELSE @]
    /\ UNCHANGED <<now, minted, table, columns, pc, key, child, scope>>

StatementVisit(w, i) ==
    /\ pc[w] \in Scans
    /\ i \in snap[w]
    /\ Free(w, i)
    /\ snap' = [snap EXCEPT ![w] = @ \ {i}]
    /\ locks' = [locks EXCEPT ![w] = IF StillMatches(w, i) THEN @ \cup {i} ELSE @]
    /\ UNCHANGED <<now, minted, table, columns, pc, key, child, scope>>

\* Every row visited is locked and carries the write; the commit publishes it.
RevokeCommit(w) ==
    /\ pc[w] \in {"scanReuse", "scanFamily", "scanUser"}
    /\ snap[w] = {}
    /\ revoked' = revoked \cup locks[w]
    /\ Finish(w, IF pc[w] = "scanReuse" THEN "tokenReuse" ELSE "revoked")
    /\ UNCHANGED <<now, minted, issued, sessions, used, columns, key, scope>>

PruneCommit(w) ==
    /\ pc[w] = "scanPrune"
    /\ snap[w] = {}
    /\ sessions' = sessions \ locks[w]
    /\ Finish(w, "pruned")
    /\ UNCHANGED <<now, minted, issued, used, revoked, columns, key, scope>>

-----------------------------------------------------------------------------
(***************************************************************************)
(* The transaction is rolled back: the request's context is cancelled, the *)
(* process dies, the connection breaks, or PostgreSQL picks this           *)
(* transaction as the victim of a deadlock.                                *)
(***************************************************************************)
Abort(w) ==
    /\ pc[w] \in Waiting
    /\ Finish(w, "failed")
    /\ UNCHANGED <<now, minted, table, columns, key, scope>>

Return(w) ==
    /\ pc[w] \in Outcomes
    /\ pc' = [pc EXCEPT ![w] = "idle"]
    /\ key' = [key EXCEPT ![w] = None]
    /\ scope' = [scope EXCEPT ![w] = {}]
    /\ UNCHANGED <<now, minted, table, columns, child, snap, locks>>

Tick ==
    /\ now < MaxTime
    /\ now' = now + 1
    /\ UNCHANGED <<minted, table, columns, local>>

\* The steps by which a call that has begun goes on.
Step(w) ==
    \/ RotateNoRow(w)
    \/ RotateReuse(w)
    \/ RotateReject(w)
    \/ \E i \in Ids : RotateSpend(w, i)
    \/ RotateCommit(w)
    \/ RevokeByTokenNoRow(w)
    \/ RevokeByTokenFound(w)
    \/ StatementBegin(w, "reuse", "scanReuse")
    \/ StatementBegin(w, "revokeFamily", "scanFamily")
    \/ \E i \in Ids : StatementVisit(w, i)
    \/ RevokeCommit(w)
    \/ PruneCommit(w)
    \/ Return(w)

Next ==
    \/ \E w \in Workers :
        \/ \E u \in Users, i \in Ids : CreateSession(w, u, i)
        \/ \E i \in Ids : RotateCall(w, i)
        \/ \E i \in Ids : RevokeByTokenCall(w, i)
        \/ \E u \in Users : RevokeAllForUser(w, u)
        \/ PruneSessions(w)
        \/ Step(w)
        \/ Abort(w)
    \/ Tick

Spec == Init /\ [][Next]_vars

-----------------------------------------------------------------------------
(***************************************************************************)
(* The inductive invariant behind the safety properties.  LockInv is what  *)
(* PostgreSQL's row locks give; the others say what a transaction may rely *)
(* on between two of its statements.                                       *)
(***************************************************************************)
LockInv ==
    \A w, v \in Workers : w # v => \A i \in locks[w] : i \notin locks[v]

\* A rotation about to commit still holds a live row.
RotationReady(w) ==
    /\ locks[w] = {key[w]}
    /\ key[w] \in sessions
    /\ key[w] \notin used \cup revoked
    /\ child[w] \in minted \ issued
    /\ parent[child[w]] = key[w]
    /\ family[child[w]] = family[key[w]]
    /\ owner[child[w]] = owner[key[w]]
    /\ \A v \in Workers : pc[v] = "commit" /\ child[v] = child[w] => v = w

RotationInv == \A w \in Workers : pc[w] = "commit" => RotationReady(w)

LineageInv ==
    /\ \A i \in minted : family[i] \in minted /\ owner[i] \in Users
    /\ \A i \in issued : parent[i] # None => parent[i] \in used
    /\ \A i, j \in issued \ used : family[i] = family[j] => i = j

\* What a call answers for, carried from its beginning to its outcome.
ScopeInv ==
    \A w \in Workers :
        /\ pc[w] \in {"rotate", "find"} =>
              /\ key[w] \in issued
              /\ \A i \in scope[w] : family[i] = family[key[w]]
        /\ pc[w] = "rotate" /\ scope[w] # {} => key[w] \in used
        /\ pc[w] \in {"reuse", "revokeFamily"} =>
              \A i \in scope[w] : family[i] = key[w]
        /\ pc[w] \in {"scanReuse", "scanFamily", "scanUser"} =>
              scope[w] \subseteq revoked \cup (issued \ sessions) \cup locks[w] \cup snap[w]
        /\ pc[w] \in {"commit", "issued"} => scope[w] = {}
        /\ pc[w] = "notFound" /\ scope[w] # {} => key[w] \in issued \ sessions
        /\ pc[w] \in {"revoked", "tokenReuse"} =>
              scope[w] \subseteq revoked \cup (issued \ sessions)

\* Rows a transaction has locked stay in the table; those a statement saw or
\* locked are of its family or user, and past their grace if it is a prune.
StatementInv ==
    \A w \in Workers :
        /\ locks[w] \subseteq sessions
        /\ pc[w] = "scanPrune" =>
              \A i \in snap[w] \cup locks[w] : expires[i] + Grace < now
        /\ pc[w] \in {"reuse", "revokeFamily", "scanReuse", "scanFamily"} =>
              key[w] \in Ids /\ \A i \in snap[w] \cup locks[w] : family[i] = key[w]
        /\ pc[w] = "scanUser" =>
              key[w] \in Users /\ \A i \in snap[w] \cup locks[w] : owner[i] = key[w]

-----------------------------------------------------------------------------
(***************************************************************************)
(* Properties.                                                             *)
(***************************************************************************)

\* Two refreshes of one token cannot both win, however their transactions
\* interleave: no session ever has two children (Rotate's FOR UPDATE).
SingleRotation ==
    \A i, j \in issued : (parent[i] # None /\ parent[i] = parent[j]) => i = j

\* GET /v1/sessions shows a login once: of the rows of one family at most
\* one is ever unspent, so a family has one token that can be refreshed
\* (ActiveSessionsForUser over the rows Rotate and CreateSession write).
OneActivePerFamily ==
    \A u \in Users : \A i, j \in ActiveSessionsForUser(u) :
        family[i] = family[j] => i = j

\* A revocation that returned without error has reached every row that was
\* there when the call began: each is revoked, or pruned meanwhile (Rotate's
\* reuse branch, RevokeByToken, RevokeFamily, RevokeAllForUser).
RevocationCovers ==
    \A w \in Workers : pc[w] \in {"revoked", "tokenReuse"} =>
        scope[w] \subseteq revoked \cup (issued \ sessions)

\* A token that was spent before it was presented never buys a new one, and
\* goes unnoticed only if its row has been pruned in the meantime (Rotate).
ReplayDetected ==
    \A w \in Workers : scope[w] # {} =>
        /\ pc[w] \notin {"commit", "issued"}
        /\ pc[w] = "notFound" => key[w] \notin sessions

\* Until Grace after its expiry a session row stays in the table, so within
\* that time reuse of its token is detected (PruneSessions).
ReplayWindow ==
    \A i \in issued : now <= expires[i] + Grace => i \in sessions

\* The committed rows, as the abstract specification sees them.
Promise == INSTANCE RefreshTokens WITH
    family <- [i \in issued |-> family[i]],
    owner  <- [i \in issued |-> owner[i]],
    known  <- sessions,
    spent  <- used

\* Seen from outside, the transactions are single steps: only a live token
\* is refreshed, and that spends it and issues its one successor at once; a
\* revocation stays within a family or a user; an aborted call did nothing
\* (Rotate, RevokeFamily, RevokeAllForUser, PruneSessions).
ImplementsRefreshTokens == Promise!Spec

\* sessions.go:83, "the entire family is revoked": when Rotate returns
\* ErrTokenReuse the family holds no live row.
EntireFamilyRevoked ==
    \A w \in Workers : pc[w] = "tokenReuse" => FamilyRows(key[w]) \subseteq revoked
=============================================================================
