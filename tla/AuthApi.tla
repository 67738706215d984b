------------------------------ MODULE AuthApi ------------------------------
(***************************************************************************)
(* The handlers of internal/httpapi that sign people in and out: passwords *)
(* and registration (auth.go), one-time codes (otp.go), refresh, logout    *)
(* and session management (sessions.go), behind requireUser                *)
(* (middleware.go).                                                        *)
(*                                                                         *)
(* A handler is a sequence of database calls; requests interleave between  *)
(* them, and each of them may be a handler's last, because the database    *)
(* fails or the caller goes away and the request's context is cancelled.   *)
(* The session table is the abstract one of RefreshTokens, which           *)
(* SessionStore implements; a revocation is split, as there, into the      *)
(* statement's snapshot and its commit.  A right password and a code that  *)
(* OneTimeCodes redeems are inputs.                                        *)
(*                                                                         *)
(* An account is its address; whether that is verified decides nothing     *)
(* here and is left open (OAuthLogin has it).  A request refused before it *)
(* has written anything (bad input, rate limit, unknown client, wrong      *)
(* credentials, an address that is taken) is a stuttering step.            *)
(***************************************************************************)
CONSTANTS
    Requests,    \* requests that run at the same time
    Users,       \* addresses
    Ids,         \* session ids
    None         \* no account, no session

ASSUME ApiConstants == None \notin Users \cup Ids

VARIABLES
    accounts,    \* rows of users
    hasPassword, \* accounts with password_hash set
    disabled,    \* accounts with disabled_at set
    family, owner, known, spent, revoked,   \* the sessions: see RefreshTokens
    held,        \* sessions whose tokens were handed out
    pc,          \* where each request is
    user,        \* the account it acts for
    sid,         \* the session it presents or has created
    snap,        \* the rows its revoking statement saw
    scope,       \* history: the rows it promises to revoke
    wasDisabled, \* history: the account was disabled when the request came
    doomed,      \* history: sessions that existed when a reset set the password
    torn         \* history: accounts whose password reset stopped half way

people   == <<accounts, hasPassword, disabled>>
sessions == <<family, owner, known, spent, revoked>>
local    == <<pc, user, sid, snap, scope, wasDisabled>>
history  == <<doomed, torn>>
vars     == <<people, sessions, held, local, history>>

Admitted == {"me", "logout", "logoutAll", "delete"}
PCs == {"idle", "issue", "tokens", "resolve", "createUser", "markVerified",
        "reload", "setPassword", "resetRevoke", "resetRevoking", "loadUser",
        "disabledRevoke", "disabledRevoking", "revoking", "revoked", "skipped"} \cup Admitted

Tokens == INSTANCE RefreshTokens

\* Every variable holds a value of its kind; only a request that revokes has
\* rows in hand, and whoever has tokens has an account.
TypeOK ==
    /\ accounts \in SUBSET Users
    /\ hasPassword \in SUBSET accounts
    /\ disabled \in SUBSET accounts
    /\ known \in SUBSET Ids /\ known = DOMAIN family /\ known = DOMAIN owner
    /\ family \in [known -> known]
    /\ owner \in [known -> accounts]
    /\ spent \in SUBSET known
    /\ revoked \in SUBSET known
    /\ held \in SUBSET known
    /\ pc \in [Requests -> PCs]
    /\ user \in [Requests -> Users \cup {None}]
    /\ sid \in [Requests -> known \cup {None}]
    /\ snap \in [Requests -> SUBSET known]
    /\ scope \in [Requests -> SUBSET known]
    /\ wasDisabled \in [Requests -> BOOLEAN]
    /\ doomed \in SUBSET known
    /\ torn \in SUBSET accounts
    /\ \A r \in Requests :
        snap[r] # {} => pc[r] \in {"revoking", "resetRevoking", "disabledRevoking"}

Init ==
    /\ accounts = {} /\ hasPassword = {} /\ disabled = {}
    /\ Tokens!Init
    /\ held = {}
    /\ pc = [r \in Requests |-> "idle"]
    /\ user = [r \in Requests |-> None]
    /\ sid = [r \in Requests |-> None]
    /\ snap = [r \in Requests |-> {}]
    /\ scope = [r \in Requests |-> {}]
    /\ wasDisabled = [r \in Requests |-> FALSE]
    /\ doomed = {} /\ torn = {}

-----------------------------------------------------------------------------
FamilyRows(i) == {k \in known : family[k] = family[i]}
UserRows(u)   == {k \in known : owner[k] = u}

\* Request r begins, for account u with session i, and has come to step at; S
\* are the rows it promises to revoke.
Call(r, at, u, i, S) ==
    /\ pc[r] = "idle"
    /\ pc' = [pc EXCEPT ![r] = at]
    /\ user' = [user EXCEPT ![r] = u]
    /\ sid' = [sid EXCEPT ![r] = i]
    /\ scope' = [scope EXCEPT ![r] = S]
    /\ wasDisabled' = [wasDisabled EXCEPT ![r] = u \in disabled]

GoTo(r, at) ==
    /\ pc' = [pc EXCEPT ![r] = at]
    /\ UNCHANGED <<user, sid, snap, scope, wasDisabled>>

\* The outcome is known; what only the handler needed is forgotten.
Answer(r, outcome) ==
    /\ pc' = [pc EXCEPT ![r] = outcome]
    /\ user' = [user EXCEPT ![r] = None]
    /\ sid' = [sid EXCEPT ![r] = None]
    /\ snap' = [snap EXCEPT ![r] = {}]
    /\ UNCHANGED <<scope, wasDisabled>>

\* The response is written: the request is over.
Return(r) ==
    /\ pc' = [pc EXCEPT ![r] = "idle"]
    /\ user' = [user EXCEPT ![r] = None]
    /\ sid' = [sid EXCEPT ![r] = None]
    /\ snap' = [snap EXCEPT ![r] = {}]
    /\ scope' = [scope EXCEPT ![r] = {}]
    /\ wasDisabled' = [wasDisabled EXCEPT ![r] = FALSE]

Begin(r, at, u, S) ==
    /\ Call(r, at, u, None, S)
    /\ UNCHANGED snap

-----------------------------------------------------------------------------
(***************************************************************************)
(* Registration and passwords.                                             *)
(***************************************************************************)
CreateUser(u, P) ==
    /\ accounts' = accounts \cup {u}
    /\ hasPassword' = hasPassword \cup P
    /\ UNCHANGED disabled

HandleRegister(r, u) ==
    /\ u \notin accounts
    /\ CreateUser(u, {u})
    /\ Begin(r, "issue", u, {})
    /\ UNCHANGED <<sessions, held, history>>

\* With the right password.
HandleLogin(r, u) ==
    /\ u \in hasPassword \ disabled
    /\ Begin(r, "issue", u, {})
    /\ UNCHANGED <<people, sessions, held, history>>

\* issueSession, the end of every sign-in: CreateSession, then respondWithTokens,
\* which may fail and leave a row whose tokens nobody has.
IssueSession(r, i) ==
    /\ pc[r] = "issue"
    /\ Tokens!Login(i, user[r])
    /\ \/ Answer(r, "tokens") /\ held' = held \cup {i}
       \/ Return(r) /\ UNCHANGED held
    /\ UNCHANGED <<people, history>>

\* With a token that ConsumeToken has redeemed.
HandlePasswordReset(r, u) ==
    /\ u \in accounts
    /\ Begin(r, "setPassword", u, UserRows(u))
    /\ UNCHANGED <<people, sessions, held, history>>

SetPasswordHash(r) ==
    /\ pc[r] = "setPassword"
    /\ hasPassword' = hasPassword \cup {user[r]}
    /\ doomed' = doomed \cup (UserRows(user[r]) \cap Tokens!Live)
    /\ GoTo(r, "resetRevoke")
    /\ UNCHANGED <<accounts, disabled, sessions, held, torn>>

-----------------------------------------------------------------------------
(***************************************************************************)
(* One-time codes.                                                         *)
(***************************************************************************)
\* With a code that ConsumeCode has redeemed, sent to an address that need not
\* have an account yet.
HandleOTPVerify(r, u) ==
    /\ Begin(r, "resolve", u, {})
    /\ UNCHANGED <<people, sessions, held, history>>

\* Faulty variant: an address without an account is let through.
OTPResolveUnknown(r) ==
    /\ pc[r] = "resolve"
    /\ IF user[r] \in disabled THEN Return(r) ELSE GoTo(r, "issue")
    /\ UNCHANGED <<people, sessions, held, history>>

\* UserByEmail, and what follows without another call to the database: an
\* address that is not verified yet is marked so first.
OTPResolve(r) ==
    /\ pc[r] = "resolve"
    /\ LET u == user[r] IN
        \/ u \notin accounts /\ GoTo(r, "createUser")
        \/ u \in accounts /\ GoTo(r, "markVerified")
        \/ u \in accounts \cap disabled /\ Return(r)
        \/ u \in accounts \ disabled /\ GoTo(r, "issue")
    /\ UNCHANGED <<people, sessions, held, history>>

\* An account made in the meantime makes the INSERT fail.
OTPCreateUser(r) ==
    /\ pc[r] = "createUser"
    /\ IF user[r] \in accounts
       THEN Return(r) /\ UNCHANGED people
       ELSE CreateUser(user[r], {}) /\ GoTo(r, "markVerified")
    /\ UNCHANGED <<sessions, held, history>>

OTPMarkVerified(r) ==
    /\ pc[r] = "markVerified"
    /\ GoTo(r, "reload")
    /\ UNCHANGED <<people, sessions, held, history>>

OTPReload(r) ==
    /\ pc[r] = "reload"
    /\ IF user[r] \in disabled THEN Return(r) ELSE GoTo(r, "issue")
    /\ UNCHANGED <<people, sessions, held, history>>

-----------------------------------------------------------------------------
(***************************************************************************)
(* Revoking statements: RevokeFamily, RevokeAllForUser and the reuse       *)
(* branch of Rotate.  A statement misses what is committed after its       *)
(* snapshot.                                                               *)
(***************************************************************************)

\* Faulty variant: the sessions are listed before the password is set.
RevokeAllListed(r) == scope[r]

RevokeAllForUser(r) == {k \in UserRows(user[r]) : k \notin revoked}

Statement(r, S, at) ==
    /\ snap' = [snap EXCEPT ![r] = S]
    /\ sid' = [sid EXCEPT ![r] = None]
    /\ pc' = [pc EXCEPT ![r] = at]
    /\ UNCHANGED <<user, scope, wasDisabled>>

ResetRevoke(r) ==
    /\ pc[r] = "resetRevoke"
    /\ Statement(r, RevokeAllForUser(r), "resetRevoking")
    /\ torn' = torn \ {user[r]}
    /\ UNCHANGED <<people, sessions, held, doomed>>

DisabledRevoke(r) ==
    /\ pc[r] = "disabledRevoke"
    /\ Statement(r, RevokeAllForUser(r), "disabledRevoking")
    /\ UNCHANGED <<people, sessions, held, history>>

RevokeCommit(r) ==
    /\ pc[r] \in {"revoking", "resetRevoking"}
    /\ Tokens!Revoke(snap[r])
    /\ Answer(r, "revoked")
    /\ UNCHANGED <<people, held, history>>

\* The refresh of a disabled account answers account_disabled.
DisabledCommit(r) ==
    /\ pc[r] = "disabledRevoking"
    /\ Tokens!Revoke(snap[r])
    /\ Return(r)
    /\ UNCHANGED <<people, held, history>>

-----------------------------------------------------------------------------
(***************************************************************************)
(* Refresh.  A token of a revoked session that was not spent is refused    *)
(* without a write.                                                        *)
(***************************************************************************)
HandleRefresh(r, i, j) ==
    /\ i \in held
    /\ Tokens!Refresh(i, j)
    /\ Call(r, "loadUser", owner[i], j, {})
    /\ doomed' = IF i \in doomed /\ ~\E q \in Requests : pc[q] = "resetRevoking" /\ i \in snap[q]
                 THEN doomed \cup {j} ELSE doomed
    /\ UNCHANGED <<people, held, snap, torn>>

HandleRefreshReuse(r, i) ==
    /\ i \in held \cap spent
    /\ Call(r, "revoking", owner[i], None, FamilyRows(i))
    /\ snap' = [snap EXCEPT ![r] = FamilyRows(i)]
    /\ UNCHANGED <<people, sessions, held, history>>

\* Faulty variant: the account is not looked at.
RefreshLoadUserAny(r) ==
    /\ pc[r] = "loadUser"
    /\ Answer(r, "tokens") /\ held' = held \cup {sid[r]}
    /\ UNCHANGED <<people, sessions, history>>

RefreshLoadUser(r) ==
    /\ pc[r] = "loadUser"
    /\ IF user[r] \in disabled
       THEN GoTo(r, "disabledRevoke") /\ UNCHANGED held
       ELSE Answer(r, "tokens") /\ held' = held \cup {sid[r]}
    /\ UNCHANGED <<people, sessions, history>>

-----------------------------------------------------------------------------
(***************************************************************************)
(* Behind requireUser.  An access token names its session and account; one *)
(* that is expired or not ours is refused without a write.                 *)
(***************************************************************************)
RequireUser(r, i, at, S) ==
    /\ i \in held
    /\ i \notin revoked
    /\ Call(r, at, owner[i], i, S)
    /\ UNCHANGED <<people, sessions, held, snap, history>>

\* handleMe and handleListSessions write nothing.
Read(r, i) == RequireUser(r, i, "me", {})

HandleLogout(r, i)    == RequireUser(r, i, "logout", FamilyRows(i))
HandleLogoutAll(r, i) == RequireUser(r, i, "logoutAll", UserRows(owner[i]))
HandleDelete(r, i)    == RequireUser(r, i, "delete", {})

\* Faulty variant: the one row is revoked, not its family.
RevokeRow(i) == {i}

\* RevokeFamily, found by SessionByID; the family of a row never changes.
RevokeFamily(i) == FamilyRows(i)

LogoutRevoke(r) ==
    /\ pc[r] = "logout"
    /\ Statement(r, RevokeFamily(sid[r]), "revoking")
    /\ UNCHANGED <<people, sessions, held, history>>

\* Any error of SessionByID: nothing is revoked, and the answer is the same.
LogoutSkip(r) ==
    /\ pc[r] = "logout"
    /\ Answer(r, "skipped")
    /\ UNCHANGED <<people, sessions, held, history>>

LogoutAllRevoke(r) ==
    /\ pc[r] = "logoutAll"
    /\ Statement(r, RevokeAllForUser(r), "revoking")
    /\ UNCHANGED <<people, sessions, held, history>>

\* Faulty variant: whose session it is is not asked.
DeleteSessionAny(r, k) ==
    /\ pc[r] = "delete"
    /\ Statement(r, RevokeFamily(k), "revoking")
    /\ UNCHANGED <<people, sessions, held, history>>

\* Session k is named in the path; another user's is "not found".
DeleteSession(r, k) ==
    /\ pc[r] = "delete"
    /\ IF owner[k] = user[r] THEN Statement(r, RevokeFamily(k), "revoking") ELSE Return(r)
    /\ UNCHANGED <<people, sessions, held, history>>

-----------------------------------------------------------------------------
(***************************************************************************)
(* A call to the database fails or the context is cancelled.  What was     *)
(* written stays.  handleRefresh drops the error of RevokeAllForUser.      *)
(***************************************************************************)
Fail(r) ==
    /\ pc[r] \notin {"idle", "tokens", "revoked", "skipped"}
    /\ torn' = IF pc[r] \in {"resetRevoke", "resetRevoking"} THEN torn \cup {user[r]} ELSE torn
    /\ Return(r)
    /\ UNCHANGED <<people, sessions, held, doomed>>

Respond(r) ==
    /\ pc[r] \in {"tokens", "revoked", "skipped"}
    /\ Return(r)
    /\ UNCHANGED <<people, sessions, held, history>>

\* The operator disables an account in the database.
Disable(u) ==
    /\ u \in accounts
    /\ disabled' = disabled \cup {u}
    /\ UNCHANGED <<accounts, hasPassword, sessions, held, local, history>>

Next ==
    \/ \E u \in Users : Disable(u)
    \/ \E r \in Requests, u \in Users :
        \/ HandleRegister(r, u) \/ HandleLogin(r, u)
        \/ HandlePasswordReset(r, u)
        \/ HandleOTPVerify(r, u)
    \/ \E r \in Requests :
        \/ SetPasswordHash(r)
        \/ ResetRevoke(r) \/ DisabledRevoke(r) \/ RevokeCommit(r) \/ DisabledCommit(r)
        \/ OTPResolve(r) \/ OTPCreateUser(r) \/ OTPMarkVerified(r) \/ OTPReload(r)
        \/ RefreshLoadUser(r)
        \/ LogoutRevoke(r) \/ LogoutSkip(r) \/ LogoutAllRevoke(r)
        \/ Fail(r) \/ Respond(r)
    \/ \E r \in Requests, i \in Ids : IssueSession(r, i)
    \/ \E r \in Requests, i \in known :
        \/ \E j \in Ids : HandleRefresh(r, i, j)
        \/ HandleRefreshReuse(r, i)
        \/ Read(r, i) \/ HandleLogout(r, i) \/ HandleLogoutAll(r, i) \/ HandleDelete(r, i)
        \/ DeleteSession(r, i)

Spec == Init /\ [][Next]_vars

-----------------------------------------------------------------------------
(***************************************************************************)
(* Properties.                                                             *)
(***************************************************************************)

\* Tokens go to no account that was disabled before the request came, although
\* the handlers write, and are overtaken, between their reads of the account
\* (login, OTP verify and refresh).
LateIsRefused ==
    \A r \in Requests : pc[r] = "tokens" => ~wasDisabled[r]

\* When a reset, a logout that found its session, a logout of all or a detected
\* reuse answers, every row of the family or account that was there when the
\* request came is revoked: also the successors of the row the caller showed.
AnsweredIsRevoked ==
    \A r \in Requests : pc[r] = "revoked" => scope[r] \subseteq revoked

\* A request ends sessions of its own account only (handleDeleteSession's
\* ownership test, claims.Subject, the redeemed token's account).
OwnSessionsOnly ==
    [][\A i \in revoked' \ revoked :
          \E r \in Requests : i \in snap[r] /\ user[r] = owner[i]]_vars

\* auth.go:246, "every existing session must die with it": what was live when a
\* reset set the password, and what was refreshed from that, is dead once the
\* reset is over, unless the reset stopped half way or the refresh overtook its
\* revoking statement (handlePasswordReset).
ResetEndsSessions ==
    \A i \in doomed \cap Tokens!Live :
        \/ owner[i] \in torn
        \/ \E r \in Requests : user[r] = owner[i] /\ pc[r] \in {"resetRevoke", "resetRevoking"}

\* README, "logout, disabled_at, and reuse-detection take effect there
\* immediately": requireUser lets no disabled account in, and a logout that was
\* answered 204 has ended its family (requireUser, handleLogout).
TakesEffectImmediately ==
    \A r \in Requests :
        /\ pc[r] \in Admitted => ~wasDisabled[r]
        /\ pc[r] = "skipped" => scope[r] \subseteq revoked
=============================================================================
