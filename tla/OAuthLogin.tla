----------------------------- MODULE OAuthLogin -----------------------------
(***************************************************************************)
(* Signing in through Google or GitHub: the round trip recorded in         *)
(* oauth_flows, the callback that resolves a provider account to a user    *)
(* (internal/linking), the authorization code handed to the app, and its   *)
(* exchange for a session by the app's backend.                            *)
(*                                                                         *)
(* A provider account stands for a (provider, subject) pair.  Each SQL     *)
(* statement, and each transaction that locks a single row, is one step;   *)
(* between two of them any other request may run.  The unique constraints  *)
(* on users.email and on identities (provider, subject) are checked in the *)
(* step that inserts.                                                      *)
(***************************************************************************)
EXTENDS Naturals

CONSTANTS
    Workers,      \* requests that run at the same time
    Flows,        \* state values (one oauth_flows row each)
    Codes,        \* authorization codes
    Users,        \* account ids
    Clients,      \* registered applications
    Accounts,     \* provider accounts
    Providers,    \* google, github
    GitHub,       \* the one whose addresses come in a list
    ProviderOf,   \* the provider of each account
    Emails,       \* addresses
    NoEmail,      \* the empty string: the provider reported no address
    None          \* NULL

ASSUME LoginConstants ==
    /\ ProviderOf \in [Accounts -> Providers]
    /\ GitHub \in Providers
    /\ NoEmail \notin Emails
    /\ None \notin Flows \cup Codes \cup Users \cup Clients \cup Accounts
                   \cup Providers \cup Emails \cup {NoEmail}

VARIABLES
    flow,        \* oauth_flows, by state: None or the row
    spentFlows,  \* flows consumed or past their TTL
    users,       \* the rows of users
    email,       \* users.email
    verified,    \* users with email_verified_at set
    disabled,    \* users with disabled_at set
    identity,    \* identities: the user an account belongs to, or None
    code,        \* auth_codes: None or the row
    spentCodes,  \* codes consumed or past their TTL
    job,         \* the state of each request's handler
    sessions,    \* history: sessions created from each code
    signedIn,    \* history: the account that came back in each flow
    registered   \* history: users that signed up with a password or an OTP

accounts == <<users, email, verified, disabled, registered>>
vars == <<flow, spentFlows, accounts, identity, code, spentCodes, job, sessions, signedIn>>

Idle == [pc |-> "idle", flow |-> None, account |-> None, email |-> NoEmail,
         vouched |-> FALSE, attested |-> FALSE, user |-> None, off |-> FALSE,
         code |-> None, client |-> None]

PCs == {"idle", "exchange", "lookup", "owner", "create", "attach", "mint",
        "load", "session"}

FlowRows == [provider : Providers, client : Clients, link : Users \cup {None}]
CodeRows == [user : Users, client : Clients, flow : Flows]
Jobs == [pc : PCs, flow : Flows \cup {None}, account : Accounts \cup {None},
         email : Emails \cup {NoEmail}, vouched : BOOLEAN, attested : BOOLEAN,
         user : Users \cup {None}, off : BOOLEAN, code : Codes \cup {None},
         client : Clients \cup {None}]

\* Every column and handler local holds a value of its kind, identities belong to
\* users that exist, and no two users have one address, though callbacks and
\* registrations that overlap look it up before either inserts.
TypeOK ==
    /\ flow \in [Flows -> FlowRows \cup {None}]
    /\ spentFlows \in SUBSET Flows
    /\ users \in SUBSET Users
    /\ email \in [Users -> Emails \cup {NoEmail}]
    /\ verified \in SUBSET users
    /\ disabled \in SUBSET users
    /\ identity \in [Accounts -> users \cup {None}]
    /\ code \in [Codes -> CodeRows \cup {None}]
    /\ spentCodes \in SUBSET Codes
    /\ job \in [Workers -> Jobs]
    /\ sessions \in [Codes -> Nat]
    /\ signedIn \in [Flows -> Accounts \cup {None}]
    /\ registered \in SUBSET users
    /\ \A u, v \in users : email[u] = email[v] => u = v

Init ==
    /\ flow = [f \in Flows |-> None]
    /\ spentFlows = {}
    /\ users = {} /\ verified = {} /\ disabled = {}
    /\ email = [u \in Users |-> NoEmail]
    /\ identity = [a \in Accounts |-> None]
    /\ code = [c \in Codes |-> None]
    /\ spentCodes = {}
    /\ job = [w \in Workers |-> Idle]
    /\ sessions = [c \in Codes |-> 0]
    /\ signedIn = [f \in Flows |-> None]
    /\ registered = {}

-----------------------------------------------------------------------------
\* The handler of w answers the request: a redirect, an error or a session.
Answer(w) == job' = [job EXCEPT ![w] = Idle]

Goto(w, label) == job' = [job EXCEPT ![w].pc = label]

Holder(e) == {u \in users : email[u] = e}

(***************************************************************************)
(* The other ways accounts come to be and change, one statement each:      *)
(* CreateUser and MarkEmailVerified from the password and OTP handlers,    *)
(* disabled_at by an operator.                                             *)
(***************************************************************************)
CreateUser(u, e) ==
    /\ u \in Users \ users
    /\ Holder(e) = {}
    /\ users' = users \cup {u}
    /\ email' = [email EXCEPT ![u] = e]
    /\ registered' = registered \cup {u}
    /\ UNCHANGED <<flow, spentFlows, verified, disabled, identity, code, spentCodes,
                   job, sessions, signedIn>>

MarkEmailVerified(u) ==
    /\ u \in users \ verified
    /\ verified' = verified \cup {u}
    /\ UNCHANGED <<flow, spentFlows, users, email, disabled, registered, identity, code,
                   spentCodes, job, sessions, signedIn>>

DisableUser(u) ==
    /\ u \in users \ disabled
    /\ disabled' = disabled \cup {u}
    /\ UNCHANGED <<flow, spentFlows, users, email, verified, registered, identity, code,
                   spentCodes, job, sessions, signedIn>>

-----------------------------------------------------------------------------
\* handleOAuthStart (no link) and handleLinkStart: beginFlow records the flow.
CreateOAuthFlow(f, row) ==
    /\ flow[f] = None
    /\ flow' = [flow EXCEPT ![f] = row]

BeginFlow(f, p, c, link) ==
    /\ link \in users \cup {None}
    /\ CreateOAuthFlow(f, [provider |-> p, client |-> c, link |-> link])
    /\ UNCHANGED <<spentFlows, accounts, identity, code, spentCodes, job, sessions, signedIn>>

\* OAuthFlowTTL or AuthCodeTTL has passed: the row can no longer be redeemed.
Expire ==
    /\ \/ \E f \in Flows \ spentFlows :
            flow[f] # None /\ spentFlows' = spentFlows \cup {f} /\ UNCHANGED spentCodes
       \/ \E c \in Codes \ spentCodes :
            code[c] # None /\ spentCodes' = spentCodes \cup {c} /\ UNCHANGED spentFlows
    /\ UNCHANGED <<flow, accounts, identity, code, job, sessions, signedIn>>

\* Faulty variant: the flow is read and not consumed.
ConsumeOAuthFlowTwice(f) ==
    /\ flow[f] # None
    /\ f \notin spentFlows
    /\ UNCHANGED spentFlows

\* One transaction: the row is locked, found fresh, and stamped.
ConsumeOAuthFlow(f) ==
    /\ flow[f] # None
    /\ f \notin spentFlows
    /\ spentFlows' = spentFlows \cup {f}

(***************************************************************************)
(* handleOAuthCallback.  The flow is consumed first, so a callback on the  *)
(* wrong provider's path burns it.  A flow that cannot be consumed is      *)
(* answered with invalid_state, and nothing changes.                       *)
(***************************************************************************)
HandleOAuthCallback(w, f, p) ==
    /\ job[w].pc = "idle"
    /\ ConsumeOAuthFlow(f)
    /\ job' = IF flow[f].provider = p
              THEN [job EXCEPT ![w].pc = "exchange", ![w].flow = f]
              ELSE job
    /\ UNCHANGED <<flow, accounts, identity, code, spentCodes, sessions, signedIn>>

\* The user declined, the code is missing, or the provider's exchange failed.
CallbackError(w) ==
    /\ job[w].pc = "exchange"
    /\ Answer(w)
    /\ UNCHANGED <<flow, spentFlows, accounts, identity, code, spentCodes, sessions, signedIn>>

(***************************************************************************)
(* provider.Exchange: the profile of one of the provider's accounts.  What *)
(* the provider answers is external, any answer it can give.  A profile    *)
(* says in vouched what EmailVerified says; attested records whether the   *)
(* provider has really called that address verified.                       *)
(***************************************************************************)
Profile(e, v, truth) == [email |-> e, vouched |-> v, attested |-> truth]

\* Google's userinfo carries an address, or none, and a flag.
GoogleProfiles == {Profile(e, v, v) : e \in Emails \cup {NoEmail}, v \in BOOLEAN}

\* GitHub's /user/emails, whose order decides nothing that is said here.
EmailLists ==
    {l \in SUBSET [email : Emails, primary : BOOLEAN, verified : BOOLEAN] :
        \A x, y \in l : x # y => x.email # y.email /\ ~(x.primary /\ y.primary)}

\* The primary if it is verified, else a verified one, else the primary.
PickEmail(l) ==
    LET verifiedOnes == {x \in l : x.verified}
        primary      == {x \in l : x.primary}
        Picked(S, v) == {Profile(x.email, v, x.verified) : x \in S}
    IN  CASE primary \cap verifiedOnes # {} -> Picked(primary \cap verifiedOnes, TRUE)
          [] primary \cap verifiedOnes = {} /\ verifiedOnes # {} -> Picked(verifiedOnes, TRUE)
          [] verifiedOnes = {} -> Picked(primary, FALSE)

\* Without a list, or with nothing picked from it, the address of /user is
\* taken, which GitHub says nothing about.
GitHubProfiles ==
    (UNION {PickEmail(l) : l \in EmailLists})
    \cup {Profile(e, FALSE, FALSE) : e \in Emails \cup {NoEmail}}

Exchange(w, a, p) ==
    /\ job[w].pc = "exchange"
    /\ ProviderOf[a] = flow[job[w].flow].provider
    /\ p \in IF ProviderOf[a] = GitHub THEN GitHubProfiles ELSE GoogleProfiles
    /\ job' = [job EXCEPT ![w].pc = "lookup", ![w].account = a, ![w].email = p.email,
                          ![w].vouched = p.vouched, ![w].attested = p.attested]
    /\ signedIn' = [signedIn EXCEPT ![job[w].flow] = a]
    /\ UNCHANGED <<flow, spentFlows, accounts, identity, code, spentCodes, sessions>>

(***************************************************************************)
(* LinkToUser: the account must be this user's or nobody's.                *)
(***************************************************************************)
LinkTarget(w) == flow[job[w].flow].link

LinkLookup(w) ==
    /\ job[w].pc = "lookup"
    /\ LinkTarget(w) # None
    /\ LET owner == identity[job[w].account]
       IN  job' = CASE owner = LinkTarget(w) ->
                         [job EXCEPT ![w].pc = "mint", ![w].user = LinkTarget(w)]
                    [] owner = None ->
                         [job EXCEPT ![w].pc = "attach", ![w].user = LinkTarget(w)]
                    [] OTHER -> [job EXCEPT ![w] = Idle]
    /\ UNCHANGED <<flow, spentFlows, accounts, identity, code, spentCodes, sessions, signedIn>>

(***************************************************************************)
(* Resolve: a known account settles it; else the holder of the address, if *)
(* both sides have verified it; else a new user.                           *)
(***************************************************************************)
ResolveLookup(w) ==
    /\ job[w].pc = "lookup"
    /\ LinkTarget(w) = None
    /\ LET owner == identity[job[w].account]
       IN  job' = CASE owner = None -> [job EXCEPT ![w].pc = "owner"]
                    [] owner \in disabled -> [job EXCEPT ![w] = Idle]
                    [] OTHER -> [job EXCEPT ![w].pc = "mint", ![w].user = owner]
    /\ UNCHANGED <<flow, spentFlows, accounts, identity, code, spentCodes, sessions, signedIn>>

\* Nobody is looked up under the empty address.
ResolveNoOwner(w) ==
    /\ job[w].pc = "owner"
    /\ job[w].email = NoEmail \/ Holder(job[w].email) = {}
    /\ Goto(w, "create")
    /\ UNCHANGED <<flow, spentFlows, accounts, identity, code, spentCodes, sessions, signedIn>>

\* Faulty variant: the provider's word is enough to link.
ResolveOwnerUnverified(w, u) ==
    /\ job[w].pc = "owner"
    /\ job[w].email # NoEmail
    /\ u \in Holder(job[w].email)
    /\ job' = IF job[w].vouched
              THEN [job EXCEPT ![w].pc = "attach", ![w].user = u, ![w].off = u \in disabled]
              ELSE [job EXCEPT ![w] = Idle]
    /\ UNCHANGED <<flow, spentFlows, accounts, identity, code, spentCodes, sessions, signedIn>>

ResolveOwner(w, u) ==
    /\ job[w].pc = "owner"
    /\ job[w].email # NoEmail
    /\ u \in Holder(job[w].email)
    /\ job' = IF job[w].vouched /\ u \in verified
              THEN [job EXCEPT ![w].pc = "attach", ![w].user = u, ![w].off = u \in disabled]
              ELSE [job EXCEPT ![w] = Idle]
    /\ UNCHANGED <<flow, spentFlows, accounts, identity, code, spentCodes, sessions, signedIn>>

\* Faulty variant: no unique index on users.email; that the lookup found nobody
\* is all that stands between two newcomers.
CreateUserWithIdentityDouble(w, u) ==
    /\ job[w].pc = "create"
    /\ u \in Users \ users
    /\ identity[job[w].account] = None
    /\ users' = users \cup {u}
    /\ email' = [email EXCEPT ![u] = job[w].email]
    /\ verified' = IF job[w].vouched THEN verified \cup {u} ELSE verified
    /\ identity' = [identity EXCEPT ![job[w].account] = u]
    /\ job' = [job EXCEPT ![w].pc = "mint", ![w].user = u]
    /\ UNCHANGED <<flow, spentFlows, disabled, registered, code, spentCodes, sessions, signedIn>>

\* Faulty variant: two statements without a transaction; when the second fails,
\* the user's row stays.
CreateUserWithIdentityTorn(w, u) ==
    /\ job[w].pc = "create"
    /\ u \in Users \ users
    /\ Holder(job[w].email) = {}
    /\ users' = users \cup {u}
    /\ email' = [email EXCEPT ![u] = job[w].email]
    /\ verified' = IF job[w].vouched THEN verified \cup {u} ELSE verified
    /\ IF identity[job[w].account] = None
       THEN /\ identity' = [identity EXCEPT ![job[w].account] = u]
            /\ job' = [job EXCEPT ![w].pc = "mint", ![w].user = u]
       ELSE Answer(w) /\ UNCHANGED identity
    /\ UNCHANGED <<flow, spentFlows, disabled, registered, code, spentCodes, sessions, signedIn>>

\* CreateUserWithIdentity: both rows or neither.
CreateUserWithIdentity(w, u) ==
    /\ job[w].pc = "create"
    /\ u \in Users \ users
    /\ Holder(job[w].email) = {}
    /\ identity[job[w].account] = None
    /\ users' = users \cup {u}
    /\ email' = [email EXCEPT ![u] = job[w].email]
    /\ verified' = IF job[w].vouched THEN verified \cup {u} ELSE verified
    /\ identity' = [identity EXCEPT ![job[w].account] = u]
    /\ job' = [job EXCEPT ![w].pc = "mint", ![w].user = u]
    /\ UNCHANGED <<flow, spentFlows, disabled, registered, code, spentCodes, sessions, signedIn>>

\* A unique constraint refuses the insert: the app is told login_failed (or
\* link_failed, from LinkToUser, in CreateIdentityConflict).
CreateUserConflict(w) ==
    /\ job[w].pc = "create"
    /\ Holder(job[w].email) # {} \/ identity[job[w].account] # None
    /\ Answer(w)
    /\ UNCHANGED <<flow, spentFlows, accounts, identity, code, spentCodes, sessions, signedIn>>

\* Faulty variant: the insert overwrites the row that is there (ON CONFLICT
\* DO UPDATE).
CreateIdentityUpsert(w) ==
    /\ job[w].pc = "attach"
    /\ identity' = [identity EXCEPT ![job[w].account] = job[w].user]
    /\ job' = IF job[w].off THEN [job EXCEPT ![w] = Idle] ELSE [job EXCEPT ![w].pc = "mint"]
    /\ UNCHANGED <<flow, spentFlows, accounts, code, spentCodes, sessions, signedIn>>

\* CreateIdentity; a user found disabled gets the identity but no code.
CreateIdentity(w) ==
    /\ job[w].pc = "attach"
    /\ identity[job[w].account] = None
    /\ identity' = [identity EXCEPT ![job[w].account] = job[w].user]
    /\ job' = IF job[w].off THEN [job EXCEPT ![w] = Idle] ELSE [job EXCEPT ![w].pc = "mint"]
    /\ UNCHANGED <<flow, spentFlows, accounts, code, spentCodes, sessions, signedIn>>

CreateIdentityConflict(w) ==
    /\ job[w].pc = "attach"
    /\ identity[job[w].account] # None
    /\ Answer(w)
    /\ UNCHANGED <<flow, spentFlows, accounts, identity, code, spentCodes, sessions, signedIn>>

CreateAuthCode(c, row) ==
    /\ code[c] = None
    /\ code' = [code EXCEPT ![c] = row]

\* The callback mints a code and redirects to the app with it.
MintAuthCode(w, c) ==
    /\ job[w].pc = "mint"
    /\ CreateAuthCode(c, [user |-> job[w].user, flow |-> job[w].flow,
                          client |-> flow[job[w].flow].client])
    /\ Answer(w)
    /\ UNCHANGED <<flow, spentFlows, accounts, identity, spentCodes, sessions, signedIn>>

-----------------------------------------------------------------------------
\* One transaction: the row is locked, found fresh, and stamped.
ConsumeAuthCode(c) ==
    /\ code[c] # None
    /\ c \notin spentCodes
    /\ spentCodes' = spentCodes \cup {c}

\* Faulty variant: any authenticated client may redeem the code.
HandleTokenExchangeAnyClient(w, c, k) ==
    /\ job[w].pc = "idle"
    /\ ConsumeAuthCode(c)
    /\ job' = [job EXCEPT ![w].pc = "load", ![w].code = c, ![w].client = k,
                          ![w].user = code[c].user]
    /\ UNCHANGED <<flow, spentFlows, accounts, identity, code, sessions, signedIn>>

(***************************************************************************)
(* handleTokenExchange, called by the backend of client k.  The code is    *)
(* consumed before the client is compared, so a wrong client burns it.     *)
(***************************************************************************)
HandleTokenExchange(w, c, k) ==
    /\ job[w].pc = "idle"
    /\ ConsumeAuthCode(c)
    /\ job' = IF code[c].client = k
              THEN [job EXCEPT ![w].pc = "load", ![w].code = c, ![w].client = k,
                               ![w].user = code[c].user]
              ELSE job
    /\ UNCHANGED <<flow, spentFlows, accounts, identity, code, sessions, signedIn>>

\* UserByID and the check of disabled_at.
LoadUser(w) ==
    /\ job[w].pc = "load"
    /\ job' = IF job[w].user \in disabled
              THEN [job EXCEPT ![w] = Idle]
              ELSE [job EXCEPT ![w].pc = "session"]
    /\ UNCHANGED <<flow, spentFlows, accounts, identity, code, spentCodes, sessions, signedIn>>

CreateSession(w) ==
    /\ job[w].pc = "session"
    /\ sessions' = [sessions EXCEPT ![job[w].code] = @ + 1]
    /\ Answer(w)
    /\ UNCHANGED <<flow, spentFlows, accounts, identity, code, spentCodes, signedIn>>

\* The request is cancelled or the process dies between two statements.
Abandon(w) ==
    /\ job[w].pc # "idle"
    /\ Answer(w)
    /\ UNCHANGED <<flow, spentFlows, accounts, identity, code, spentCodes, sessions, signedIn>>

-----------------------------------------------------------------------------
Next ==
    \/ \E u \in Users, e \in Emails : CreateUser(u, e)
    \/ \E u \in Users : MarkEmailVerified(u) \/ DisableUser(u)
    \/ \E f \in Flows, p \in Providers, c \in Clients, link \in Users \cup {None} :
          BeginFlow(f, p, c, link)
    \/ Expire
    \/ \E w \in Workers :
        \/ \E f \in Flows, p \in Providers : HandleOAuthCallback(w, f, p)
        \/ CallbackError(w)
        \/ \E a \in Accounts, p \in GoogleProfiles \cup GitHubProfiles : Exchange(w, a, p)
        \/ LinkLookup(w)
        \/ ResolveLookup(w)
        \/ ResolveNoOwner(w)
        \/ \E u \in Users : ResolveOwner(w, u) \/ CreateUserWithIdentity(w, u)
        \/ CreateUserConflict(w)
        \/ CreateIdentity(w)
        \/ CreateIdentityConflict(w)
        \/ \E c \in Codes : MintAuthCode(w, c)
        \/ \E c \in Codes, k \in Clients : HandleTokenExchange(w, c, k)
        \/ LoadUser(w)
        \/ CreateSession(w)
        \/ Abandon(w)

Spec == Init /\ [][Next]_vars

-----------------------------------------------------------------------------
(***************************************************************************)
(* Properties.                                                             *)
(***************************************************************************)

\* identities.go:71-72, "a failure cannot leave an orphaned account with no way to
\* sign in": a user who did not sign up with a password or an OTP owns a provider
\* account, also when callbacks of that account overlap or one is refused or cut
\* off (CreateUserWithIdentity).
NoOrphanedAccount ==
    \A u \in users \ registered : \E a \in Accounts : identity[a] = u

\* A round trip ends in one session at most, whatever is replayed: the state
\* value, the callback or the authorization code (ConsumeOAuthFlow,
\* ConsumeAuthCode).
OneSessionPerFlow ==
    /\ \A c \in Codes : sessions[c] <= 1
    /\ \A c, d \in Codes : (code[c] # None /\ code[d] # None /\ code[c].flow = code[d].flow)
                           => c = d

\* A session belongs to the user that owns the provider account which came
\* back in the flow, now and for ever: no later link, login or race moves the
\* account to another user (Resolve, LinkToUser, CreateIdentity).
SessionOfIdentityOwner ==
    \A c \in Codes : code[c] # None =>
        /\ identity[signedIn[code[c].flow]] = code[c].user
        /\ flow[code[c].flow].link \in {None, code[c].user}

\* A code buys a session only for the client that started the flow
\* (handleTokenExchange).
SessionOfFlowClient ==
    \A w \in Workers : job[w].pc \in {"load", "session"} =>
        job[w].client = flow[code[job[w].code].flow].client

\* An account is attached to a user that was there before only on that user's
\* own request, or when the provider has verified the address and the user has
\* verified the same address, both still true when the row is written (the
\* rule of package linking, pickEmail).
AutoLinkNeedsBothVerified ==
    [][\A a \in Accounts : identity[a] # identity'[a] /\ identity'[a] \in users =>
          \E w \in Workers :
            /\ job[w].pc = "attach" /\ job[w].account = a
            /\ \/ LinkTarget(w) = identity'[a]
               \/ /\ job[w].attested
                  /\ identity'[a] \in verified
                  /\ email[identity'[a]] = job[w].email]_vars
=============================================================================
