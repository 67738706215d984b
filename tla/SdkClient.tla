------------------------------ MODULE SdkClient ------------------------------
(***************************************************************************)
(* The Go SDK's calls that change state at the service (sdk/go/client.go:  *)
(* Login, Exchange, Refresh), their failover from BaseURL to FallbackURL,  *)
(* and the handlers that serve them at both addresses over one database.   *)
(*                                                                         *)
(* A call posts to the primary; an answer below 500 is final, anything     *)
(* else (5xx, a refused connection, a timeout, a broken body) sends the    *)
(* same body to the fallback.  A request that was given up is not gone: it *)
(* may still be on its way, or half done, and its handler goes on.         *)
(*                                                                         *)
(* A call is made once, so a request is a call and the host it was sent    *)
(* to, and creates at most one session: the row carries the request's      *)
(* name.  The session table is the abstract one of RefreshTokens; an       *)
(* UPDATE of many rows is split into its snapshot and its commit, as       *)
(* SessionStore shows it must be.  There is no clock: an expired token is  *)
(* refused like an unknown one, and SessionStore has the expiry.           *)
(***************************************************************************)
CONSTANTS
    Calls,        \* calls an app makes, each once
    Codes,        \* authorization codes outstanding at the start
    Users,        \* accounts
    Held,         \* sessions the app holds from earlier logins
    None,
    HasFallback   \* Config.FallbackURL is set

Hosts    == {"primary", "fallback"}
Requests == Calls \X Hosts
Rows     == Held \cup Requests

ASSUME SdkConstants ==
    /\ None \notin Rows \cup Codes \cup Users
    /\ Held \cap Requests = {}
    /\ HasFallback \in BOOLEAN

VARIABLES
    family, owner, known, spent, revoked,   \* the sessions: see RefreshTokens
    codeUser,    \* auth_codes: column user_id
    redeemed,    \* auth_codes with consumed_at set
    disabled,    \* accounts with disabled_at set
    pc,          \* where each call is: at a host, or how it returned
    op,          \* what it asks for
    arg,         \* the refresh token, code or account it presents
    got,         \* the session it returned to the app
    srv,         \* where the handler of each request is, or its answer's status
    snap,        \* rows its revoking statement saw
    ended        \* history: rows ended by a logout or a disabled account

sessions == <<family, owner, known, spent, revoked>>
codes    == <<codeUser, redeemed>>
client   == <<pc, op, arg, got>>
vars     == <<sessions, codes, disabled, client, srv, snap, ended>>

Working  == {"loading", "redeemed", "creating", "signing", "reuse", "disabled"}
Statuses == {"2xx", "4xx", "5xx"}
\* "gone": the answer was read, or there was nobody left to read it.

Tokens == INSTANCE RefreshTokens WITH Ids <- Rows

\* Every variable holds a value of its kind; a handler past its first write
\* has a session in hand.
TypeOK ==
    /\ known \in SUBSET Rows /\ DOMAIN family = known /\ DOMAIN owner = known
    /\ family \in [known -> known] /\ owner \in [known -> Users]
    /\ spent \in SUBSET known /\ revoked \in SUBSET known /\ ended \in SUBSET revoked
    /\ codeUser \in [Codes -> Users] /\ redeemed \in SUBSET Codes
    /\ disabled \in SUBSET Users
    /\ pc \in [Calls -> {"idle", "ok", "refused", "failed"} \cup Hosts]
    /\ op \in [Calls -> {"login", "exchange", "refresh", None}]
    /\ arg \in [Calls -> Rows \cup Codes \cup Users \cup {None}]
    /\ got \in [Calls -> known \cup {None}]
    /\ srv \in [Requests -> {"none", "sent", "gone"} \cup Working \cup Statuses]
    /\ snap \in [Requests -> SUBSET known]
    /\ \A q \in Requests :
        /\ srv[q] \in {"loading", "signing", "2xx"} => q \in known
        /\ srv[q] = "none" => q \notin known

Init ==
    /\ family = [i \in Held |-> i]
    /\ owner \in [Held -> Users]
    /\ known = Held /\ spent = {} /\ revoked = {} /\ ended = {}
    /\ codeUser \in [Codes -> Users] /\ redeemed = {}
    /\ disabled = {}
    /\ pc = [c \in Calls |-> "idle"]
    /\ op = [c \in Calls |-> None]
    /\ arg = [c \in Calls |-> None]
    /\ got = [c \in Calls |-> None]
    /\ srv = [q \in Requests |-> "none"]
    /\ snap = [q \in Requests |-> {}]

-----------------------------------------------------------------------------
(***************************************************************************)
(* The SDK.                                                                *)
(***************************************************************************)

\* postWithFallback's first postOnce.
Post(c, what, with) ==
    /\ pc[c] = "idle"
    /\ pc' = [pc EXCEPT ![c] = "primary"]
    /\ op' = [op EXCEPT ![c] = what]
    /\ arg' = [arg EXCEPT ![c] = with]
    /\ srv' = [srv EXCEPT ![<<c, "primary">>] = "sent"]
    /\ UNCHANGED <<sessions, codes, disabled, got, snap, ended>>

Login(c, u) == Post(c, "login", u)

Exchange(c, k) == Post(c, "exchange", k)

\* A redirect back to the app: its code is exchanged; one that carries an error
\* or no code calls nothing.
HandleCallback(c, k) == k # None /\ Exchange(c, k)

\* The app may present any token it was ever given.
Refresh(c, i) ==
    /\ i \in Held \cup {got[d] : d \in Calls}
    /\ i # None
    /\ Post(c, "refresh", i)

\* An answer that waits for c is dropped with its connection.
Unread(c) == [srv EXCEPT ![<<c, pc[c]>>] = IF @ \in Statuses THEN "gone" ELSE @]

\* Faulty variant: the hosts are tried in turn until one answers.
FailOverForever(c) ==
    LET other == IF pc[c] = "primary" THEN "fallback" ELSE "primary" IN
    /\ pc' = [pc EXCEPT ![c] = other]
    /\ srv' = [srv EXCEPT ![<<c, other>>] = "sent"]

\* shouldFailOver said yes: once, to the fallback.
FailOver(c) ==
    IF pc[c] = "primary" /\ HasFallback
    THEN /\ pc' = [pc EXCEPT ![c] = "fallback"]
         /\ srv' = [Unread(c) EXCEPT ![<<c, "fallback">>] = "sent"]
    ELSE /\ pc' = [pc EXCEPT ![c] = "failed"]
         /\ srv' = Unread(c)

\* do returned a transport error: no connection, the client's timeout, the end
\* of the app's own context, or an answer that did not arrive whole.
NoAnswer(c) ==
    /\ pc[c] \in Hosts
    /\ FailOver(c)
    /\ UNCHANGED <<sessions, codes, disabled, op, arg, got, snap, ended>>

Receive(c) ==
    /\ pc[c] \in Hosts
    /\ LET q == <<c, pc[c]>> IN
        \/ /\ srv[q] = "2xx"
           /\ pc' = [pc EXCEPT ![c] = "ok"]
           /\ got' = [got EXCEPT ![c] = q]
           /\ srv' = [srv EXCEPT ![q] = "gone"]
        \/ /\ srv[q] = "4xx"
           /\ pc' = [pc EXCEPT ![c] = "refused"]
           /\ srv' = [srv EXCEPT ![q] = "gone"]
           /\ UNCHANGED got
        \/ /\ srv[q] = "5xx"
           /\ FailOver(c)
           /\ UNCHANGED got
    /\ UNCHANGED <<sessions, codes, disabled, op, arg, snap, ended>>

-----------------------------------------------------------------------------
(***************************************************************************)
(* The service.                                                            *)
(***************************************************************************)
FamilyRows(i) == {k \in known : family[k] = family[i]}

\* The handler of q goes on to step at.
GoTo(q, at) == srv' = [srv EXCEPT ![q] = at]

\* It writes its response, to nobody if the SDK has gone on.
Answer(q, status) ==
    /\ GoTo(q, IF pc[q[1]] = q[2] THEN status ELSE "gone")
    /\ snap' = [snap EXCEPT ![q] = {}]

\* handleRefresh: Rotate, of a live token.
RefreshRotate(q) ==
    /\ srv[q] = "sent" /\ op[q[1]] = "refresh"
    /\ Tokens!Refresh(arg[q[1]], q)
    /\ GoTo(q, "loading")
    /\ UNCHANGED <<codes, disabled, client, snap, ended>>

\* Faulty variant: reuse ends the sessions of the account, not of the family.
RefreshReuseAccount(q) ==
    LET i == arg[q[1]] IN
    /\ srv[q] = "sent" /\ op[q[1]] = "refresh"
    /\ i \in spent
    /\ snap' = [snap EXCEPT ![q] = {k \in known : owner[k] = owner[i]}]
    /\ GoTo(q, "reuse")
    /\ UNCHANGED <<sessions, codes, disabled, client, ended>>

\* Rotate finds used_at set: its UPDATE sees the family as it is now.
RefreshReuse(q) ==
    LET i == arg[q[1]] IN
    /\ srv[q] = "sent" /\ op[q[1]] = "refresh"
    /\ i \in spent
    /\ snap' = [snap EXCEPT ![q] = FamilyRows(i)]
    /\ GoTo(q, "reuse")
    /\ UNCHANGED <<sessions, codes, disabled, client, ended>>

\* UserByID after the rotation; a disabled account loses all its sessions.
RefreshLoadUser(q) ==
    /\ srv[q] = "loading"
    /\ IF owner[q] \in disabled
       THEN /\ snap' = [snap EXCEPT ![q] = {k \in known : owner[k] = owner[q]}]
            /\ GoTo(q, "disabled")
       ELSE GoTo(q, "signing") /\ UNCHANGED snap
    /\ UNCHANGED <<sessions, codes, disabled, client, ended>>

\* The UPDATE of RefreshReuse or of RevokeAllForUser commits.
RevokeCommit(q) ==
    /\ srv[q] \in {"reuse", "disabled"}
    /\ Tokens!Revoke(snap[q])
    /\ ended' = IF srv[q] = "disabled" THEN ended \cup snap[q] ELSE ended
    /\ Answer(q, "4xx")
    /\ UNCHANGED <<codes, disabled, client>>

\* Faulty variant: consumed_at is not looked at.
ConsumeAuthCodeAgain(q) ==
    LET k == arg[q[1]] IN
    /\ srv[q] = "sent" /\ op[q[1]] = "exchange"
    /\ redeemed' = redeemed \cup {k}
    /\ GoTo(q, "redeemed")
    /\ UNCHANGED <<sessions, codeUser, disabled, client, snap, ended>>

\* handleTokenExchange: ConsumeAuthCode.
ConsumeAuthCode(q) ==
    LET k == arg[q[1]] IN
    /\ srv[q] = "sent" /\ op[q[1]] = "exchange"
    /\ k \notin redeemed
    /\ redeemed' = redeemed \cup {k}
    /\ GoTo(q, "redeemed")
    /\ UNCHANGED <<sessions, codeUser, disabled, client, snap, ended>>

\* UserByID of handleTokenExchange, UserByEmail and the password of handleLogin.
\* A disabled account is answered 403.
SignInLoadUser(q) ==
    LET c == q[1]
        u == IF op[c] = "login" THEN arg[c] ELSE codeUser[arg[c]]
    IN
    /\ srv[q] = "redeemed" \/ (srv[q] = "sent" /\ op[c] = "login")
    /\ IF u \in disabled
       THEN Answer(q, "4xx")
       ELSE GoTo(q, "creating") /\ UNCHANGED snap
    /\ UNCHANGED <<sessions, codes, disabled, client, ended>>

\* Faulty variant: the error of the INSERT is not looked at.
CreateSessionUnchecked(q) ==
    /\ srv[q] = "creating"
    /\ GoTo(q, "signing")
    /\ UNCHANGED <<sessions, codes, disabled, client, snap, ended>>

CreateSession(q) ==
    LET c == q[1] IN
    /\ srv[q] = "creating"
    /\ Tokens!Login(q, IF op[c] = "login" THEN arg[c] ELSE codeUser[arg[c]])
    /\ GoTo(q, "signing")
    /\ UNCHANGED <<codes, disabled, client, snap, ended>>

\* ClientByID in handleRefresh, then respondWithTokens.
RespondWithTokens(q) ==
    /\ srv[q] = "signing"
    /\ Answer(q, "2xx")
    /\ UNCHANGED <<sessions, codes, disabled, client, ended>>

\* A refusal before anything is written: rate limit, unknown client, wrong
\* password, a token or code that is unknown, revoked, spent or expired.  An
\* error of ClientByID or ConsumeAuthCode is answered this way by the exchange.
Refuse(q) ==
    /\ srv[q] = "sent"
    /\ Answer(q, "4xx")
    /\ UNCHANGED <<sessions, codes, disabled, client, ended>>

\* A call to the database fails, or the caller's going away has cancelled it.
\* What was committed stays.  handleRefresh drops the error of RevokeAllForUser.
Fail(q) ==
    /\ srv[q] \in {"sent"} \cup Working
    /\ Answer(q, IF srv[q] = "disabled" THEN "4xx" ELSE "5xx")
    /\ UNCHANGED <<sessions, codes, disabled, client, ended>>

-----------------------------------------------------------------------------
(***************************************************************************)
(* What others do: a logout of one device, an operator who disables an     *)
(* account.                                                                *)
(***************************************************************************)
RevokeFamily(i) ==
    LET S == FamilyRows(i) IN
    /\ i \in known
    /\ ~S \subseteq revoked
    /\ Tokens!Revoke(S)
    /\ ended' = ended \cup S
    /\ UNCHANGED <<codes, disabled, client, srv, snap>>

Disable(u) ==
    /\ u \notin disabled
    /\ disabled' = disabled \cup {u}
    /\ UNCHANGED <<sessions, codes, client, srv, snap, ended>>

Next ==
    \/ \E c \in Calls :
        \/ \E u \in Users : Login(c, u)
        \/ \E k \in Codes \cup {None} : HandleCallback(c, k)
        \/ \E i \in Rows : Refresh(c, i)
        \/ NoAnswer(c) \/ Receive(c)
    \/ \E q \in Requests :
        \/ RefreshRotate(q) \/ RefreshReuse(q) \/ RefreshLoadUser(q) \/ RevokeCommit(q)
        \/ ConsumeAuthCode(q) \/ SignInLoadUser(q) \/ CreateSession(q)
        \/ RespondWithTokens(q) \/ Refuse(q) \/ Fail(q)
    \/ \E i \in Rows : RevokeFamily(i)
    \/ \E u \in Users : Disable(u)

Spec == Init /\ [][Next]_vars

\* http.Client.Timeout ends every attempt; the service owes nothing.
Fairness == \A c \in Calls : WF_vars(Receive(c) \/ NoAnswer(c))
FairSpec == Spec /\ Fairness

-----------------------------------------------------------------------------
(***************************************************************************)
(* Properties.                                                             *)
(***************************************************************************)
Asks(c, what, with) == pc[c] # "idle" /\ op[c] = what /\ arg[c] = with

\* An authorization code becomes one session at most, however often and
\* wherever it is sent (Exchange's failover over ConsumeAuthCode).
OneSessionPerCode ==
    \A k \in Codes : \A q, p \in Requests \cap known :
        Asks(q[1], "exchange", k) /\ Asks(p[1], "exchange", k) => q = p

\* The token of i was carried by two requests: of two calls, or of one call
\* that failed over.
Resent(i) ==
    \E q, p \in Requests :
        /\ q # p /\ srv[q] # "none" /\ srv[p] # "none"
        /\ Asks(q[1], "refresh", i) /\ Asks(p[1], "refresh", i)

\* The session an app was given can be refreshed, until it is presented or
\* ended by a logout or a disabled account.  The one other thing that ends it
\* is a token of its family carried by two requests, which includes a request
\* that timed out and arrives after the fallback has answered (handleRefresh).
LostOnlyByResend ==
    \A c \in Calls : got[c] # None =>
        \/ got[c] \in Tokens!Live
        \/ \E d \in Calls : Asks(d, "refresh", got[c])
        \/ got[c] \in ended
        \/ \E i \in FamilyRows(got[c]) : Resent(i)

\* Every call returns to the app, also when neither host ever answers
\* (postWithFallback tries each once).
EveryCallReturns == \A c \in Calls : pc[c] \in Hosts ~> pc[c] \notin Hosts
=============================================================================
