-------------------------- MODULE OAuthLoginProofs --------------------------
(***************************************************************************)
(* Proofs about OAuthLogin: any number of requests, round trips, accounts, *)
(* clients and providers.                                                  *)
(***************************************************************************)
EXTENDS OAuthLogin, TLAPS

\* Where a callback has consumed its flow and has not answered yet, and where a
\* token exchange has consumed its code.
Callback == {"exchange", "lookup", "owner", "create", "attach", "mint"}
Redeeming == {"load", "session"}

\* A flow under way is one request's, and has no code yet.
FlowInv ==
    \A w \in Workers : job[w].pc \in Callback =>
        /\ job[w].flow \in spentFlows
        /\ flow[job[w].flow] # None
        /\ \A c \in Codes : code[c] # None => code[c].flow # job[w].flow
        /\ \A v \in Workers :
            job[v].pc \in Callback /\ job[v].flow = job[w].flow => v = w

\* What a callback has found out about the account and the user it resolves to.
ResolveInv ==
    /\ \A f \in Flows : flow[f] # None => flow[f].link \in users \cup {None}
    /\ \A w \in Workers :
        /\ job[w].pc \in Callback \ {"exchange"} =>
            /\ job[w].account \in Accounts
            /\ signedIn[job[w].flow] = job[w].account
        /\ job[w].pc \in {"owner", "create"} => LinkTarget(w) = None
        /\ job[w].pc \in {"attach", "mint"} =>
            /\ job[w].user \in users
            /\ LinkTarget(w) \in {None, job[w].user}
        /\ job[w].pc = "mint" => identity[job[w].account] = job[w].user

\* An account is attached to the holder of its address while both have verified
\* it; users never lose or change an address.
VouchInv ==
    \A w \in Workers :
        /\ job[w].vouched => job[w].attested
        /\ job[w].pc = "attach" /\ LinkTarget(w) = None =>
            /\ job[w].vouched
            /\ job[w].user \in verified
            /\ email[job[w].user] = job[w].email

\* A code stands for its flow: one of them, its client, the owner of the account
\* that came back in it.
CodeInv ==
    \A c \in Codes : code[c] # None =>
        /\ code[c].flow \in spentFlows
        /\ flow[code[c].flow] # None
        /\ code[c].client = flow[code[c].flow].client
        /\ flow[code[c].flow].link \in {None, code[c].user}
        /\ signedIn[code[c].flow] \in Accounts
        /\ identity[signedIn[code[c].flow]] = code[c].user
        /\ \A d \in Codes : code[d] # None /\ code[d].flow = code[c].flow => d = c

\* A code that is being redeemed is one request's, and has bought nothing yet.
RedeemInv ==
    /\ \A w \in Workers : job[w].pc \in Redeeming =>
        /\ job[w].code \in spentCodes
        /\ code[job[w].code] # None
        /\ job[w].client = code[job[w].code].client
        /\ sessions[job[w].code] = 0
        /\ \A v \in Workers :
            job[v].pc \in Redeeming /\ job[v].code = job[w].code => v = w
    /\ \A c \in Codes : sessions[c] <= 1 /\ (sessions[c] # 0 => c \in spentCodes)

IndInv ==
    TypeOK /\ FlowInv /\ ResolveInv /\ VouchInv /\ CodeInv /\ RedeemInv /\ NoOrphanedAccount

-----------------------------------------------------------------------------
\* What Exchange can return: an address or none, called verified only if the
\* provider has said so (google.go, github.go's pickEmail).
LEMMA ProfileFacts ==
    ASSUME NEW p \in GoogleProfiles \cup GitHubProfiles
    PROVE  /\ p.email \in Emails \cup {NoEmail}
           /\ p.vouched \in BOOLEAN
           /\ p.attested \in BOOLEAN
           /\ p.vouched => p.attested
<1>1. ASSUME NEW e \in Emails \cup {NoEmail}, NEW v \in BOOLEAN, NEW t \in BOOLEAN,
             v => t, p = Profile(e, v, t)
      PROVE  /\ p.email \in Emails \cup {NoEmail} /\ p.vouched \in BOOLEAN
             /\ p.attested \in BOOLEAN /\ (p.vouched => p.attested)
  BY <1>1 DEF Profile
<1>2. CASE p \in GoogleProfiles
  <2>1. \E e \in Emails \cup {NoEmail}, v \in BOOLEAN : p = Profile(e, v, v)
    BY <1>2, SMT DEF GoogleProfiles, Profile
  <2> QED
    BY <1>1, <2>1
<1>3. ASSUME NEW l \in EmailLists, p \in PickEmail(l)
      PROVE  \E e \in Emails, v, t \in BOOLEAN : (v => t) /\ p = Profile(e, v, t)
  <2>1. \A x \in l : x.email \in Emails /\ x.verified \in BOOLEAN
    BY DEF EmailLists
  <2>2. PICK x \in l, v \in BOOLEAN : p = Profile(x.email, v, x.verified) /\ (v => x.verified)
    BY <1>3, Zenon DEF PickEmail
  <2> QED
    BY <2>1, <2>2
<1>4. CASE \E e \in Emails \cup {NoEmail} : p = Profile(e, FALSE, FALSE)
  BY <1>1, <1>4
<1>5. CASE \E l \in EmailLists : p \in PickEmail(l)
  BY <1>1, <1>3, <1>5
<1>6. CASE p \in GitHubProfiles
  BY <1>4, <1>5, <1>6 DEF GitHubProfiles
<1> QED
  BY <1>2, <1>6

\* A handler that answers forgets its locals.
LEMMA IdleType ==
    ASSUME NEW J \in [Workers -> Jobs], NEW w \in Workers
    PROVE  [J EXCEPT ![w] = Idle] \in [Workers -> Jobs]
BY DEF Jobs, Idle, PCs

\* A handler that goes on keeps its locals' types.
LEMMA GotoType ==
    ASSUME NEW J \in [Workers -> Jobs], NEW w \in Workers, NEW l \in PCs
    PROVE  [J EXCEPT ![w].pc = l] \in [Workers -> Jobs]
<1>1. [J EXCEPT ![w].pc = l]
        = [J EXCEPT ![w] = [J[w] EXCEPT !.pc = l]]
  OBVIOUS
<1>2. [J[w] EXCEPT !.pc = l] \in Jobs
  BY DEF Jobs
<1> QED
  BY <1>1, <1>2

\* So does one that has resolved the user,
LEMMA UserType ==
    ASSUME NEW J \in [Workers -> Jobs], NEW w \in Workers, NEW l \in PCs, NEW u \in Users
    PROVE  [J EXCEPT ![w].pc = l, ![w].user = u] \in [Workers -> Jobs]
<1>1. [J EXCEPT ![w].pc = l, ![w].user = u]
        = [J EXCEPT ![w] = [J[w] EXCEPT !.pc = l, !.user = u]]
  OBVIOUS
<1>2. [J[w] EXCEPT !.pc = l, !.user = u] \in Jobs
  BY DEF Jobs
<1> QED
  BY <1>1, <1>2

\* one that has found the holder of the address,
LEMMA OwnerType ==
    ASSUME NEW J \in [Workers -> Jobs], NEW w \in Workers, NEW l \in PCs, NEW u \in Users,
           NEW o \in BOOLEAN
    PROVE  [J EXCEPT ![w].pc = l, ![w].user = u, ![w].off = o] \in [Workers -> Jobs]
<1>1. [J EXCEPT ![w].pc = l, ![w].user = u, ![w].off = o]
        = [J EXCEPT ![w] = [J[w] EXCEPT !.pc = l, !.user = u, !.off = o]]
  OBVIOUS
<1>2. [J[w] EXCEPT !.pc = l, !.user = u, !.off = o] \in Jobs
  BY DEF Jobs
<1> QED
  BY <1>1, <1>2

\* one that has consumed a flow,
LEMMA FlowType ==
    ASSUME NEW J \in [Workers -> Jobs], NEW w \in Workers, NEW l \in PCs, NEW f \in Flows
    PROVE  [J EXCEPT ![w].pc = l, ![w].flow = f] \in [Workers -> Jobs]
<1>1. [J EXCEPT ![w].pc = l, ![w].flow = f]
        = [J EXCEPT ![w] = [J[w] EXCEPT !.pc = l, !.flow = f]]
  OBVIOUS
<1>2. [J[w] EXCEPT !.pc = l, !.flow = f] \in Jobs
  BY DEF Jobs
<1> QED
  BY <1>1, <1>2

\* one that has consumed a code,
LEMMA CodeType ==
    ASSUME NEW J \in [Workers -> Jobs], NEW w \in Workers, NEW l \in PCs, NEW c \in Codes,
           NEW k \in Clients, NEW u \in Users
    PROVE  [J EXCEPT ![w].pc = l, ![w].code = c, ![w].client = k, ![w].user = u] \in
           [Workers -> Jobs]
<1>1. [J EXCEPT ![w].pc = l, ![w].code = c, ![w].client = k, ![w].user = u]
        = [J EXCEPT ![w] = [J[w] EXCEPT !.pc = l, !.code = c, !.client = k, !.user = u]]
  OBVIOUS
<1>2. [J[w] EXCEPT !.pc = l, !.code = c, !.client = k, !.user = u] \in Jobs
  BY DEF Jobs
<1> QED
  BY <1>1, <1>2

\* and one that has a profile.
LEMMA ProfileType ==
    ASSUME NEW J \in [Workers -> Jobs], NEW w \in Workers, NEW a \in Accounts, NEW p,
           p.email \in Emails \cup {NoEmail}, p.vouched \in BOOLEAN, p.attested \in BOOLEAN
    PROVE  [J EXCEPT ![w].pc = "lookup", ![w].account = a, ![w].email = p.email,
                     ![w].vouched = p.vouched, ![w].attested = p.attested] \in [Workers -> Jobs]
<1>1. [J EXCEPT ![w].pc = "lookup", ![w].account = a, ![w].email = p.email,
                ![w].vouched = p.vouched, ![w].attested = p.attested]
        = [J EXCEPT ![w] = [J[w] EXCEPT !.pc = "lookup", !.account = a, !.email = p.email,
                                        !.vouched = p.vouched, !.attested = p.attested]]
  OBVIOUS
<1>2. [J[w] EXCEPT !.pc = "lookup", !.account = a, !.email = p.email,
                   !.vouched = p.vouched, !.attested = p.attested] \in Jobs
  BY DEF Jobs, PCs
<1> QED
  BY <1>1, <1>2

\* A step keeps the types: foreign keys name users that are there.
LEMMA TypeStep ==
    TypeOK /\ FlowInv /\ ResolveInv /\ RedeemInv /\ [Next]_vars => TypeOK'
<1> SUFFICES ASSUME TypeOK, FlowInv, ResolveInv, RedeemInv, [Next]_vars
             PROVE  TypeOK'
  OBVIOUS
<1> USE LoginConstants DEF LoginConstants, TypeOK, accounts
<1>1. ASSUME NEW u \in Users, NEW e \in Emails, CreateUser(u, e)
      PROVE  TypeOK'
  <2>1. \A x \in users : email'[x] = email[x] /\ email'[x] # email'[u]
    BY <1>1 DEF CreateUser, Holder
  <2>2. \A x, y \in users' : email'[x] = email'[y] => x = y
    BY <1>1, <2>1 DEF CreateUser
  <2> QED
    BY <1>1, <2>2 DEF CreateUser
<1>2. ASSUME NEW u \in Users, MarkEmailVerified(u)
      PROVE  TypeOK'
  BY <1>2 DEF MarkEmailVerified
<1>3. ASSUME NEW u \in Users, DisableUser(u)
      PROVE  TypeOK'
  BY <1>3 DEF DisableUser
<1>4. ASSUME NEW f \in Flows, NEW p \in Providers, NEW c \in Clients,
             NEW link \in Users \cup {None}, BeginFlow(f, p, c, link)
      PROVE  TypeOK'
  BY <1>4 DEF BeginFlow, CreateOAuthFlow, FlowRows
<1>5. CASE Expire
  BY <1>5 DEF Expire
<1>6. ASSUME NEW w \in Workers, NEW f \in Flows, NEW p \in Providers, HandleOAuthCallback(w, f, p)
      PROVE  TypeOK'
  <2>1. job' \in [Workers -> Jobs]
    BY <1>6, FlowType DEF HandleOAuthCallback, PCs
  <2> QED
    BY <1>6, <2>1 DEF HandleOAuthCallback, ConsumeOAuthFlow
<1>7. ASSUME NEW w \in Workers, CallbackError(w)
      PROVE  TypeOK'
  <2>1. job' \in [Workers -> Jobs]
    BY <1>7, IdleType DEF CallbackError, Answer
  <2> QED
    BY <1>7, <2>1 DEF CallbackError
<1>8. ASSUME NEW w \in Workers, NEW a \in Accounts,
             NEW p \in GoogleProfiles \cup GitHubProfiles, Exchange(w, a, p)
      PROVE  TypeOK'
  <2>1. job' \in [Workers -> Jobs]
    <3>1. p.email \in Emails \cup {NoEmail} /\ p.vouched \in BOOLEAN /\ p.attested \in BOOLEAN
      BY ProfileFacts, Zenon
    <3> QED
      BY <1>8, <3>1, ProfileType DEF Exchange
  <2>2. job[w].flow \in Flows
    BY <1>8 DEF Exchange, FlowInv, Callback
  <2> QED
    BY <1>8, <2>1, <2>2 DEF Exchange
<1>9. ASSUME NEW w \in Workers, LinkLookup(w)
      PROVE  TypeOK'
  <2>1. job[w].flow \in Flows /\ flow[job[w].flow] \in FlowRows
    BY <1>9 DEF LinkLookup, FlowInv, Callback
  <2>2. LinkTarget(w) \in Users
    BY <1>9, <2>1 DEF LinkLookup, LinkTarget, FlowRows
  <2>3. "mint" \in PCs /\ "attach" \in PCs
    BY DEF PCs
  <2>4. \/ job' = [job EXCEPT ![w].pc = "mint", ![w].user = LinkTarget(w)]
        \/ job' = [job EXCEPT ![w].pc = "attach", ![w].user = LinkTarget(w)]
        \/ job' = [job EXCEPT ![w] = Idle]
    BY <1>9 DEF LinkLookup
  <2>5. job' \in [Workers -> Jobs]
    BY <2>2, <2>3, <2>4, UserType, IdleType
  <2> QED
    BY <1>9, <2>5 DEF LinkLookup
<1>10. ASSUME NEW w \in Workers, ResolveLookup(w)
      PROVE  TypeOK'
  <2>1. job[w].account \in Accounts
    BY <1>10 DEF ResolveLookup, ResolveInv, Callback
  <2>2. \/ job' = [job EXCEPT ![w].pc = "owner"]
        \/ job' = [job EXCEPT ![w] = Idle]
        \/ /\ identity[job[w].account] # None
           /\ job' = [job EXCEPT ![w].pc = "mint", ![w].user = identity[job[w].account]]
    BY <1>10 DEF ResolveLookup
  <2>3. identity[job[w].account] \in Users \cup {None}
    BY <2>1
  <2>4. "mint" \in PCs /\ "owner" \in PCs
    BY DEF PCs
  <2>5. job' \in [Workers -> Jobs]
    BY <2>2, <2>3, <2>4, UserType, GotoType, IdleType
  <2> QED
    BY <1>10, <2>5 DEF ResolveLookup
<1>11. ASSUME NEW w \in Workers, ResolveNoOwner(w)
      PROVE  TypeOK'
  <2>1. job' \in [Workers -> Jobs]
    BY <1>11, GotoType DEF ResolveNoOwner, Goto, PCs
  <2> QED
    BY <1>11, <2>1 DEF ResolveNoOwner
<1>12. ASSUME NEW w \in Workers, NEW u \in Users, ResolveOwner(w, u)
      PROVE  TypeOK'
  <2>1. \/ job' = [job EXCEPT ![w].pc = "attach", ![w].user = u, ![w].off = u \in disabled]
        \/ job' = [job EXCEPT ![w] = Idle]
    BY <1>12 DEF ResolveOwner
  <2>2. "attach" \in PCs /\ (u \in disabled) \in BOOLEAN
    BY DEF PCs
  <2>3. [job EXCEPT ![w].pc = "attach", ![w].user = u, ![w].off = u \in disabled]
          \in [Workers -> Jobs]
    BY <2>2, OwnerType, Zenon
  <2>4. [job EXCEPT ![w] = Idle] \in [Workers -> Jobs]
    BY IdleType
  <2>5. job' \in [Workers -> Jobs]
    BY ONLY <2>1, <2>3, <2>4
  <2> QED
    BY <1>12, <2>5 DEF ResolveOwner
<1>13. ASSUME NEW w \in Workers, NEW u \in Users, CreateUserWithIdentity(w, u)
      PROVE  TypeOK'
  <2>1. job' \in [Workers -> Jobs]
    BY <1>13, UserType DEF CreateUserWithIdentity, PCs
  <2>2. job[w].account \in Accounts /\ job[w].email \in Emails \cup {NoEmail}
    BY <1>13 DEF CreateUserWithIdentity, Jobs, ResolveInv, Callback
  <2>3. email' \in [Users -> Emails \cup {NoEmail}] /\ verified' \in SUBSET users'
    BY <1>13, <2>2 DEF CreateUserWithIdentity
  <2>4. identity' \in [Accounts -> users' \cup {None}]
    BY <1>13, <2>2 DEF CreateUserWithIdentity
  <2>5. \A x \in users : email'[x] = email[x] /\ email'[x] # email'[u]
    BY <1>13 DEF CreateUserWithIdentity, Holder
  <2>6. \A x, y \in users' : email'[x] = email'[y] => x = y
    BY <1>13, <2>5 DEF CreateUserWithIdentity
  <2> QED
    BY <1>13, <2>1, <2>3, <2>4, <2>6 DEF CreateUserWithIdentity
<1>14. ASSUME NEW w \in Workers, CreateUserConflict(w)
      PROVE  TypeOK'
  <2>1. job' \in [Workers -> Jobs]
    BY <1>14, IdleType DEF CreateUserConflict, Answer
  <2> QED
    BY <1>14, <2>1 DEF CreateUserConflict
<1>15. ASSUME NEW w \in Workers, CreateIdentity(w)
      PROVE  TypeOK'
  <2>1. job' \in [Workers -> Jobs]
    BY <1>15, GotoType, IdleType DEF CreateIdentity, PCs
  <2>2. job[w].account \in Accounts /\ job[w].user \in users
    BY <1>15 DEF CreateIdentity, ResolveInv, Callback
  <2> QED
    BY <1>15, <2>1, <2>2 DEF CreateIdentity
<1>16. ASSUME NEW w \in Workers, CreateIdentityConflict(w)
      PROVE  TypeOK'
  <2>1. job' \in [Workers -> Jobs]
    BY <1>16, IdleType DEF CreateIdentityConflict, Answer
  <2> QED
    BY <1>16, <2>1 DEF CreateIdentityConflict
<1>17. ASSUME NEW w \in Workers, NEW c \in Codes, MintAuthCode(w, c)
      PROVE  TypeOK'
  <2>1. job' \in [Workers -> Jobs]
    BY <1>17, IdleType DEF MintAuthCode, Answer
  <2>2. job[w].flow \in Flows /\ flow[job[w].flow] \in FlowRows /\ job[w].user \in Users
    BY <1>17 DEF MintAuthCode, FlowInv, ResolveInv, Callback
  <2>3. [user |-> job[w].user, flow |-> job[w].flow, client |-> flow[job[w].flow].client]
          \in CodeRows
    BY <2>2 DEF CodeRows, FlowRows
  <2>4. code' \in [Codes -> CodeRows \cup {None}]
    BY <1>17, <2>3 DEF MintAuthCode, CreateAuthCode
  <2> QED
    BY <1>17, <2>1, <2>4 DEF MintAuthCode
<1>18. ASSUME NEW w \in Workers, NEW c \in Codes, NEW k \in Clients, HandleTokenExchange(w, c, k)
      PROVE  TypeOK'
  <2>1. code[c] \in CodeRows
    BY <1>18 DEF HandleTokenExchange, ConsumeAuthCode
  <2>2. code[c].user \in Users /\ "load" \in PCs /\ job \in [Workers -> Jobs]
    BY <2>1 DEF CodeRows, PCs
  <2>3. [job EXCEPT ![w].pc = "load", ![w].code = c, ![w].client = k, ![w].user = code[c].user]
          \in [Workers -> Jobs]
    BY ONLY <2>2, w \in Workers, c \in Codes, k \in Clients, CodeType, Zenon
  <2>4. job' \in [Workers -> Jobs]
    BY <1>18, <2>3 DEF HandleTokenExchange
  <2> QED
    BY <1>18, <2>4 DEF HandleTokenExchange, ConsumeAuthCode
<1>19. ASSUME NEW w \in Workers, LoadUser(w)
      PROVE  TypeOK'
  <2>1. job' \in [Workers -> Jobs]
    BY <1>19, GotoType, IdleType DEF LoadUser, PCs
  <2> QED
    BY <1>19, <2>1 DEF LoadUser
<1>20. ASSUME NEW w \in Workers, CreateSession(w)
      PROVE  TypeOK'
  <2>1. job' \in [Workers -> Jobs]
    BY <1>20, IdleType DEF CreateSession, Answer
  <2>2. job[w].code \in Codes
    BY <1>20 DEF CreateSession, RedeemInv, Redeeming
  <2>3. sessions' \in [Codes -> Nat]
    BY <1>20, <2>2 DEF CreateSession
  <2> QED
    BY <1>20, <2>1, <2>3 DEF CreateSession
<1>21. ASSUME NEW w \in Workers, Abandon(w)
      PROVE  TypeOK'
  <2>1. job' \in [Workers -> Jobs]
    BY <1>21, IdleType DEF Abandon, Answer
  <2> QED
    BY <1>21, <2>1 DEF Abandon
<1>22. CASE UNCHANGED vars
  BY <1>22 DEF vars
<1> QED
  BY ONLY <1>1, <1>2, <1>3, <1>4, <1>5, <1>6, <1>7, <1>8, <1>9, <1>10, <1>11, <1>12,
     <1>13, <1>14, <1>15, <1>16, <1>17, <1>18, <1>19, <1>20, <1>21, <1>22, [Next]_vars DEF
     Next

\* A flow is consumed by one request only.
LEMMA FlowStep ==
    TypeOK /\ FlowInv /\ CodeInv /\ [Next]_vars => FlowInv'
<1> SUFFICES ASSUME TypeOK, FlowInv, CodeInv, [Next]_vars
             PROVE  FlowInv'
  OBVIOUS
<1> USE LoginConstants DEF LoginConstants, TypeOK, FlowInv, Callback, accounts
<1>1. ASSUME NEW u \in Users, NEW e \in Emails, CreateUser(u, e)
      PROVE  FlowInv'
  BY <1>1 DEF CreateUser
<1>2. ASSUME NEW u \in Users, MarkEmailVerified(u)
      PROVE  FlowInv'
  BY <1>2 DEF MarkEmailVerified
<1>3. ASSUME NEW u \in Users, DisableUser(u)
      PROVE  FlowInv'
  BY <1>3 DEF DisableUser
<1>4. ASSUME NEW f \in Flows, NEW p \in Providers, NEW c \in Clients,
             NEW link \in Users \cup {None}, BeginFlow(f, p, c, link)
      PROVE  FlowInv'
  BY <1>4 DEF BeginFlow, CreateOAuthFlow, FlowRows
<1>5. CASE Expire
  BY <1>5 DEF Expire
<1>6. ASSUME NEW w \in Workers, NEW f \in Flows, NEW p \in Providers, HandleOAuthCallback(w, f, p)
      PROVE  FlowInv'
  <2>1. CASE job' = job
    BY <1>6, <2>1 DEF HandleOAuthCallback, ConsumeOAuthFlow
  <2>2. CASE job' = [job EXCEPT ![w].pc = "exchange", ![w].flow = f]
    BY <1>6, <2>2 DEF HandleOAuthCallback, ConsumeOAuthFlow, CodeInv
  <2> QED
    BY <1>6, <2>1, <2>2 DEF HandleOAuthCallback
<1>7. ASSUME NEW w \in Workers, CallbackError(w)
      PROVE  FlowInv'
  BY <1>7 DEF CallbackError, Answer, Idle
<1>8. ASSUME NEW w \in Workers, NEW a \in Accounts,
             NEW p \in GoogleProfiles \cup GitHubProfiles, Exchange(w, a, p)
      PROVE  FlowInv'
  BY <1>8 DEF Exchange
<1>9. ASSUME NEW w \in Workers, LinkLookup(w)
      PROVE  FlowInv'
  BY <1>9 DEF LinkLookup, Idle
<1>10. ASSUME NEW w \in Workers, ResolveLookup(w)
      PROVE  FlowInv'
  BY <1>10 DEF ResolveLookup, Idle
<1>11. ASSUME NEW w \in Workers, ResolveNoOwner(w)
      PROVE  FlowInv'
  BY <1>11 DEF ResolveNoOwner, Goto
<1>12. ASSUME NEW w \in Workers, NEW u \in Users, ResolveOwner(w, u)
      PROVE  FlowInv'
  BY <1>12 DEF ResolveOwner, Idle, Holder
<1>13. ASSUME NEW w \in Workers, NEW u \in Users, CreateUserWithIdentity(w, u)
      PROVE  FlowInv'
  BY <1>13 DEF CreateUserWithIdentity
<1>14. ASSUME NEW w \in Workers, CreateUserConflict(w)
      PROVE  FlowInv'
  BY <1>14 DEF CreateUserConflict, Answer, Idle
<1>15. ASSUME NEW w \in Workers, CreateIdentity(w)
      PROVE  FlowInv'
  BY <1>15 DEF CreateIdentity, Idle
<1>16. ASSUME NEW w \in Workers, CreateIdentityConflict(w)
      PROVE  FlowInv'
  BY <1>16 DEF CreateIdentityConflict, Answer, Idle
<1>17. ASSUME NEW w \in Workers, NEW c \in Codes, MintAuthCode(w, c)
      PROVE  FlowInv'
  BY <1>17 DEF MintAuthCode, CreateAuthCode, Answer, Idle
<1>18. ASSUME NEW w \in Workers, NEW c \in Codes, NEW k \in Clients, HandleTokenExchange(w, c, k)
      PROVE  FlowInv'
  BY <1>18 DEF HandleTokenExchange, ConsumeAuthCode
<1>19. ASSUME NEW w \in Workers, LoadUser(w)
      PROVE  FlowInv'
  BY <1>19 DEF LoadUser, Idle
<1>20. ASSUME NEW w \in Workers, CreateSession(w)
      PROVE  FlowInv'
  BY <1>20 DEF CreateSession, Answer, Idle
<1>21. ASSUME NEW w \in Workers, Abandon(w)
      PROVE  FlowInv'
  BY <1>21 DEF Abandon, Answer, Idle
<1>22. CASE UNCHANGED vars
  BY <1>22 DEF vars
<1> QED
  BY ONLY <1>1, <1>2, <1>3, <1>4, <1>5, <1>6, <1>7, <1>8, <1>9, <1>10, <1>11, <1>12,
     <1>13, <1>14, <1>15, <1>16, <1>17, <1>18, <1>19, <1>20, <1>21, <1>22, [Next]_vars DEF
     Next

\* No other request changes what a callback has found out.
LEMMA ResolveStep ==
    TypeOK /\ FlowInv /\ ResolveInv /\ [Next]_vars => ResolveInv'
<1> SUFFICES ASSUME TypeOK, FlowInv, ResolveInv, [Next]_vars
             PROVE  ResolveInv'
  OBVIOUS
<1> USE LoginConstants DEF LoginConstants, TypeOK, FlowInv, ResolveInv, Callback, LinkTarget,
       accounts
<1>1. ASSUME NEW u \in Users, NEW e \in Emails, CreateUser(u, e)
      PROVE  ResolveInv'
  BY <1>1 DEF CreateUser
<1>2. ASSUME NEW u \in Users, MarkEmailVerified(u)
      PROVE  ResolveInv'
  BY <1>2 DEF MarkEmailVerified
<1>3. ASSUME NEW u \in Users, DisableUser(u)
      PROVE  ResolveInv'
  BY <1>3 DEF DisableUser
<1>4. ASSUME NEW f \in Flows, NEW p \in Providers, NEW c \in Clients,
             NEW link \in Users \cup {None}, BeginFlow(f, p, c, link)
      PROVE  ResolveInv'
  BY <1>4 DEF BeginFlow, CreateOAuthFlow, FlowRows
<1>5. CASE Expire
  BY <1>5 DEF Expire
<1>6. ASSUME NEW w \in Workers, NEW f \in Flows, NEW p \in Providers, HandleOAuthCallback(w, f, p)
      PROVE  ResolveInv'
  BY <1>6 DEF HandleOAuthCallback, ConsumeOAuthFlow
<1>7. ASSUME NEW w \in Workers, CallbackError(w)
      PROVE  ResolveInv'
  BY <1>7 DEF CallbackError, Answer, Idle
<1>8. ASSUME NEW w \in Workers, NEW a \in Accounts,
             NEW p \in GoogleProfiles \cup GitHubProfiles, Exchange(w, a, p)
      PROVE  ResolveInv'
  BY <1>8 DEF Exchange
<1>9. ASSUME NEW w \in Workers, LinkLookup(w)
      PROVE  ResolveInv'
  <2> DEFINE t == LinkTarget(w)
  <2>1. /\ job[w].pc = "lookup" /\ t # None
        /\ UNCHANGED <<flow, users, identity, signedIn>>
    BY <1>9 DEF LinkLookup
  <2>2. t \in users
    BY <2>1
  <2>3. CASE identity[job[w].account] = t /\ job' = [job EXCEPT ![w].pc = "mint", ![w].user = t]
    BY <2>1, <2>2, <2>3
  <2>4. CASE job' = [job EXCEPT ![w].pc = "attach", ![w].user = t]
    BY <2>1, <2>2, <2>4
  <2>5. CASE job' = [job EXCEPT ![w] = Idle]
    BY <2>1, <2>5 DEF Idle
  <2> QED
    BY <1>9, <2>3, <2>4, <2>5 DEF LinkLookup
<1>10. ASSUME NEW w \in Workers, ResolveLookup(w)
      PROVE  ResolveInv'
  BY <1>10 DEF ResolveLookup, Idle
<1>11. ASSUME NEW w \in Workers, ResolveNoOwner(w)
      PROVE  ResolveInv'
  BY <1>11 DEF ResolveNoOwner, Goto
<1>12. ASSUME NEW w \in Workers, NEW u \in Users, ResolveOwner(w, u)
      PROVE  ResolveInv'
  BY <1>12 DEF ResolveOwner, Idle, Holder
<1>13. ASSUME NEW w \in Workers, NEW u \in Users, CreateUserWithIdentity(w, u)
      PROVE  ResolveInv'
  BY <1>13 DEF CreateUserWithIdentity
<1>14. ASSUME NEW w \in Workers, CreateUserConflict(w)
      PROVE  ResolveInv'
  BY <1>14 DEF CreateUserConflict, Answer, Idle
<1>15. ASSUME NEW w \in Workers, CreateIdentity(w)
      PROVE  ResolveInv'
  BY <1>15 DEF CreateIdentity, Idle
<1>16. ASSUME NEW w \in Workers, CreateIdentityConflict(w)
      PROVE  ResolveInv'
  BY <1>16 DEF CreateIdentityConflict, Answer, Idle
<1>17. ASSUME NEW w \in Workers, NEW c \in Codes, MintAuthCode(w, c)
      PROVE  ResolveInv'
  BY <1>17 DEF MintAuthCode, CreateAuthCode, Answer, Idle
<1>18. ASSUME NEW w \in Workers, NEW c \in Codes, NEW k \in Clients, HandleTokenExchange(w, c, k)
      PROVE  ResolveInv'
  BY <1>18 DEF HandleTokenExchange, ConsumeAuthCode
<1>19. ASSUME NEW w \in Workers, LoadUser(w)
      PROVE  ResolveInv'
  BY <1>19 DEF LoadUser, Idle
<1>20. ASSUME NEW w \in Workers, CreateSession(w)
      PROVE  ResolveInv'
  BY <1>20 DEF CreateSession, Answer, Idle
<1>21. ASSUME NEW w \in Workers, Abandon(w)
      PROVE  ResolveInv'
  BY <1>21 DEF Abandon, Answer, Idle
<1>22. CASE UNCHANGED vars
  BY <1>22 DEF vars
<1> QED
  BY ONLY <1>1, <1>2, <1>3, <1>4, <1>5, <1>6, <1>7, <1>8, <1>9, <1>10, <1>11, <1>12,
     <1>13, <1>14, <1>15, <1>16, <1>17, <1>18, <1>19, <1>20, <1>21, <1>22, [Next]_vars DEF
     Next

\* The two words on an address are still true when the account is attached.
LEMMA VouchStep ==
    TypeOK /\ FlowInv /\ ResolveInv /\ VouchInv /\ [Next]_vars => VouchInv'
<1> SUFFICES ASSUME TypeOK, FlowInv, ResolveInv, VouchInv, [Next]_vars
             PROVE  VouchInv'
  OBVIOUS
<1> USE LoginConstants DEF LoginConstants, TypeOK, FlowInv, ResolveInv, VouchInv, Callback,
       LinkTarget, accounts
<1>1. ASSUME NEW u \in Users, NEW e \in Emails, CreateUser(u, e)
      PROVE  VouchInv'
  BY <1>1 DEF CreateUser
<1>2. ASSUME NEW u \in Users, MarkEmailVerified(u)
      PROVE  VouchInv'
  BY <1>2 DEF MarkEmailVerified
<1>3. ASSUME NEW u \in Users, DisableUser(u)
      PROVE  VouchInv'
  BY <1>3 DEF DisableUser
<1>4. ASSUME NEW f \in Flows, NEW p \in Providers, NEW c \in Clients,
             NEW link \in Users \cup {None}, BeginFlow(f, p, c, link)
      PROVE  VouchInv'
  BY <1>4 DEF BeginFlow, CreateOAuthFlow, FlowRows
<1>5. CASE Expire
  BY <1>5 DEF Expire
<1>6. ASSUME NEW w \in Workers, NEW f \in Flows, NEW p \in Providers, HandleOAuthCallback(w, f, p)
      PROVE  VouchInv'
  BY <1>6 DEF HandleOAuthCallback, ConsumeOAuthFlow
<1>7. ASSUME NEW w \in Workers, CallbackError(w)
      PROVE  VouchInv'
  BY <1>7 DEF CallbackError, Answer, Idle
<1>8. ASSUME NEW w \in Workers, NEW a \in Accounts,
             NEW p \in GoogleProfiles \cup GitHubProfiles, Exchange(w, a, p)
      PROVE  VouchInv'
  <2>1. p.vouched => p.attested
    BY ProfileFacts
  <2> QED
    BY <1>8, <2>1 DEF Exchange
<1>9. ASSUME NEW w \in Workers, LinkLookup(w)
      PROVE  VouchInv'
  BY <1>9 DEF LinkLookup, Idle
<1>10. ASSUME NEW w \in Workers, ResolveLookup(w)
      PROVE  VouchInv'
  BY <1>10 DEF ResolveLookup, Idle
<1>11. ASSUME NEW w \in Workers, ResolveNoOwner(w)
      PROVE  VouchInv'
  BY <1>11 DEF ResolveNoOwner, Goto
<1>12. ASSUME NEW w \in Workers, NEW u \in Users, ResolveOwner(w, u)
      PROVE  VouchInv'
  BY <1>12 DEF ResolveOwner, Idle, Holder
<1>13. ASSUME NEW w \in Workers, NEW u \in Users, CreateUserWithIdentity(w, u)
      PROVE  VouchInv'
  BY <1>13 DEF CreateUserWithIdentity
<1>14. ASSUME NEW w \in Workers, CreateUserConflict(w)
      PROVE  VouchInv'
  BY <1>14 DEF CreateUserConflict, Answer, Idle
<1>15. ASSUME NEW w \in Workers, CreateIdentity(w)
      PROVE  VouchInv'
  BY <1>15 DEF CreateIdentity, Idle
<1>16. ASSUME NEW w \in Workers, CreateIdentityConflict(w)
      PROVE  VouchInv'
  BY <1>16 DEF CreateIdentityConflict, Answer, Idle
<1>17. ASSUME NEW w \in Workers, NEW c \in Codes, MintAuthCode(w, c)
      PROVE  VouchInv'
  BY <1>17 DEF MintAuthCode, CreateAuthCode, Answer, Idle
<1>18. ASSUME NEW w \in Workers, NEW c \in Codes, NEW k \in Clients, HandleTokenExchange(w, c, k)
      PROVE  VouchInv'
  BY <1>18 DEF HandleTokenExchange, ConsumeAuthCode
<1>19. ASSUME NEW w \in Workers, LoadUser(w)
      PROVE  VouchInv'
  BY <1>19 DEF LoadUser, Idle
<1>20. ASSUME NEW w \in Workers, CreateSession(w)
      PROVE  VouchInv'
  BY <1>20 DEF CreateSession, Answer, Idle
<1>21. ASSUME NEW w \in Workers, Abandon(w)
      PROVE  VouchInv'
  BY <1>21 DEF Abandon, Answer, Idle
<1>22. CASE UNCHANGED vars
  BY <1>22 DEF vars
<1> QED
  BY ONLY <1>1, <1>2, <1>3, <1>4, <1>5, <1>6, <1>7, <1>8, <1>9, <1>10, <1>11, <1>12,
     <1>13, <1>14, <1>15, <1>16, <1>17, <1>18, <1>19, <1>20, <1>21, <1>22, [Next]_vars DEF
     Next

\* An account that has a user keeps it, and a flow that has a code gets no second one.
LEMMA CodeStep ==
    TypeOK /\ FlowInv /\ ResolveInv /\ CodeInv /\ [Next]_vars => CodeInv'
<1> SUFFICES ASSUME TypeOK, FlowInv, ResolveInv, CodeInv, [Next]_vars
             PROVE  CodeInv'
  OBVIOUS
<1> USE LoginConstants DEF LoginConstants, TypeOK, FlowInv, ResolveInv, CodeInv, Callback,
       LinkTarget, accounts
<1>1. ASSUME NEW u \in Users, NEW e \in Emails, CreateUser(u, e)
      PROVE  CodeInv'
  BY <1>1 DEF CreateUser
<1>2. ASSUME NEW u \in Users, MarkEmailVerified(u)
      PROVE  CodeInv'
  BY <1>2 DEF MarkEmailVerified
<1>3. ASSUME NEW u \in Users, DisableUser(u)
      PROVE  CodeInv'
  BY <1>3 DEF DisableUser
<1>4. ASSUME NEW f \in Flows, NEW p \in Providers, NEW c \in Clients,
             NEW link \in Users \cup {None}, BeginFlow(f, p, c, link)
      PROVE  CodeInv'
  BY <1>4 DEF BeginFlow, CreateOAuthFlow, FlowRows
<1>5. CASE Expire
  BY <1>5 DEF Expire
<1>6. ASSUME NEW w \in Workers, NEW f \in Flows, NEW p \in Providers, HandleOAuthCallback(w, f, p)
      PROVE  CodeInv'
  BY <1>6 DEF HandleOAuthCallback, ConsumeOAuthFlow
<1>7. ASSUME NEW w \in Workers, CallbackError(w)
      PROVE  CodeInv'
  BY <1>7 DEF CallbackError, Answer, Idle
<1>8. ASSUME NEW w \in Workers, NEW a \in Accounts,
             NEW p \in GoogleProfiles \cup GitHubProfiles, Exchange(w, a, p)
      PROVE  CodeInv'
  BY <1>8 DEF Exchange
<1>9. ASSUME NEW w \in Workers, LinkLookup(w)
      PROVE  CodeInv'
  BY <1>9 DEF LinkLookup, Idle
<1>10. ASSUME NEW w \in Workers, ResolveLookup(w)
      PROVE  CodeInv'
  BY <1>10 DEF ResolveLookup, Idle
<1>11. ASSUME NEW w \in Workers, ResolveNoOwner(w)
      PROVE  CodeInv'
  BY <1>11 DEF ResolveNoOwner, Goto
<1>12. ASSUME NEW w \in Workers, NEW u \in Users, ResolveOwner(w, u)
      PROVE  CodeInv'
  BY <1>12 DEF ResolveOwner, Idle, Holder
<1>13. ASSUME NEW w \in Workers, NEW u \in Users, CreateUserWithIdentity(w, u)
      PROVE  CodeInv'
  <2>1. job[w].account \in Accounts /\ identity[job[w].account] = None
    BY <1>13 DEF CreateUserWithIdentity
  <2>2. \A a \in Accounts : identity[a] # None => identity'[a] = identity[a]
    BY <1>13, <2>1 DEF CreateUserWithIdentity
  <2>3. \A c \in Codes : code[c] # None => code[c].user # None
    BY DEF CodeRows
  <2> QED
    BY <1>13, <2>2, <2>3 DEF CreateUserWithIdentity
<1>14. ASSUME NEW w \in Workers, CreateUserConflict(w)
      PROVE  CodeInv'
  BY <1>14 DEF CreateUserConflict, Answer, Idle
<1>15. ASSUME NEW w \in Workers, CreateIdentity(w)
      PROVE  CodeInv'
  <2>1. job[w].account \in Accounts /\ identity[job[w].account] = None
    BY <1>15 DEF CreateIdentity
  <2>2. \A a \in Accounts : identity[a] # None => identity'[a] = identity[a]
    BY <1>15, <2>1 DEF CreateIdentity
  <2>3. \A c \in Codes : code[c] # None => code[c].user # None
    BY DEF CodeRows
  <2> QED
    BY <1>15, <2>2, <2>3 DEF CreateIdentity
<1>16. ASSUME NEW w \in Workers, CreateIdentityConflict(w)
      PROVE  CodeInv'
  BY <1>16 DEF CreateIdentityConflict, Answer, Idle
<1>17. ASSUME NEW w \in Workers, NEW c \in Codes, MintAuthCode(w, c)
      PROVE  CodeInv'
  BY <1>17 DEF MintAuthCode, CreateAuthCode, Answer, Idle
<1>18. ASSUME NEW w \in Workers, NEW c \in Codes, NEW k \in Clients, HandleTokenExchange(w, c, k)
      PROVE  CodeInv'
  BY <1>18 DEF HandleTokenExchange, ConsumeAuthCode
<1>19. ASSUME NEW w \in Workers, LoadUser(w)
      PROVE  CodeInv'
  BY <1>19 DEF LoadUser, Idle
<1>20. ASSUME NEW w \in Workers, CreateSession(w)
      PROVE  CodeInv'
  BY <1>20 DEF CreateSession, Answer, Idle
<1>21. ASSUME NEW w \in Workers, Abandon(w)
      PROVE  CodeInv'
  BY <1>21 DEF Abandon, Answer, Idle
<1>22. CASE UNCHANGED vars
  BY <1>22 DEF vars
<1> QED
  BY ONLY <1>1, <1>2, <1>3, <1>4, <1>5, <1>6, <1>7, <1>8, <1>9, <1>10, <1>11, <1>12,
     <1>13, <1>14, <1>15, <1>16, <1>17, <1>18, <1>19, <1>20, <1>21, <1>22, [Next]_vars DEF
     Next

\* A code is redeemed once.
LEMMA RedeemStep ==
    TypeOK /\ RedeemInv /\ [Next]_vars => RedeemInv'
<1> SUFFICES ASSUME TypeOK, RedeemInv, [Next]_vars
             PROVE  RedeemInv'
  OBVIOUS
<1> USE LoginConstants DEF LoginConstants, TypeOK, RedeemInv, Redeeming, accounts
<1>1. ASSUME NEW u \in Users, NEW e \in Emails, CreateUser(u, e)
      PROVE  RedeemInv'
  BY <1>1 DEF CreateUser
<1>2. ASSUME NEW u \in Users, MarkEmailVerified(u)
      PROVE  RedeemInv'
  BY <1>2 DEF MarkEmailVerified
<1>3. ASSUME NEW u \in Users, DisableUser(u)
      PROVE  RedeemInv'
  BY <1>3 DEF DisableUser
<1>4. ASSUME NEW f \in Flows, NEW p \in Providers, NEW c \in Clients,
             NEW link \in Users \cup {None}, BeginFlow(f, p, c, link)
      PROVE  RedeemInv'
  BY <1>4 DEF BeginFlow, CreateOAuthFlow, FlowRows
<1>5. CASE Expire
  BY <1>5 DEF Expire
<1>6. ASSUME NEW w \in Workers, NEW f \in Flows, NEW p \in Providers, HandleOAuthCallback(w, f, p)
      PROVE  RedeemInv'
  BY <1>6 DEF HandleOAuthCallback, ConsumeOAuthFlow
<1>7. ASSUME NEW w \in Workers, CallbackError(w)
      PROVE  RedeemInv'
  BY <1>7 DEF CallbackError, Answer, Idle
<1>8. ASSUME NEW w \in Workers, NEW a \in Accounts,
             NEW p \in GoogleProfiles \cup GitHubProfiles, Exchange(w, a, p)
      PROVE  RedeemInv'
  BY <1>8 DEF Exchange
<1>9. ASSUME NEW w \in Workers, LinkLookup(w)
      PROVE  RedeemInv'
  BY <1>9 DEF LinkLookup, Idle
<1>10. ASSUME NEW w \in Workers, ResolveLookup(w)
      PROVE  RedeemInv'
  BY <1>10 DEF ResolveLookup, Idle
<1>11. ASSUME NEW w \in Workers, ResolveNoOwner(w)
      PROVE  RedeemInv'
  BY <1>11 DEF ResolveNoOwner, Goto
<1>12. ASSUME NEW w \in Workers, NEW u \in Users, ResolveOwner(w, u)
      PROVE  RedeemInv'
  BY <1>12 DEF ResolveOwner, Idle, Holder
<1>13. ASSUME NEW w \in Workers, NEW u \in Users, CreateUserWithIdentity(w, u)
      PROVE  RedeemInv'
  BY <1>13 DEF CreateUserWithIdentity
<1>14. ASSUME NEW w \in Workers, CreateUserConflict(w)
      PROVE  RedeemInv'
  BY <1>14 DEF CreateUserConflict, Answer, Idle
<1>15. ASSUME NEW w \in Workers, CreateIdentity(w)
      PROVE  RedeemInv'
  BY <1>15 DEF CreateIdentity, Idle
<1>16. ASSUME NEW w \in Workers, CreateIdentityConflict(w)
      PROVE  RedeemInv'
  BY <1>16 DEF CreateIdentityConflict, Answer, Idle
<1>17. ASSUME NEW w \in Workers, NEW c \in Codes, MintAuthCode(w, c)
      PROVE  RedeemInv'
  BY <1>17 DEF MintAuthCode, CreateAuthCode, Answer, Idle
<1>18. ASSUME NEW w \in Workers, NEW c \in Codes, NEW k \in Clients, HandleTokenExchange(w, c, k)
      PROVE  RedeemInv'
  BY <1>18 DEF HandleTokenExchange, ConsumeAuthCode
<1>19. ASSUME NEW w \in Workers, LoadUser(w)
      PROVE  RedeemInv'
  BY <1>19 DEF LoadUser, Idle
<1>20. ASSUME NEW w \in Workers, CreateSession(w)
      PROVE  RedeemInv'
  BY <1>20 DEF CreateSession, Answer, Idle
<1>21. ASSUME NEW w \in Workers, Abandon(w)
      PROVE  RedeemInv'
  BY <1>21 DEF Abandon, Answer, Idle
<1>22. CASE UNCHANGED vars
  BY <1>22 DEF vars
<1> QED
  BY ONLY <1>1, <1>2, <1>3, <1>4, <1>5, <1>6, <1>7, <1>8, <1>9, <1>10, <1>11, <1>12,
     <1>13, <1>14, <1>15, <1>16, <1>17, <1>18, <1>19, <1>20, <1>21, <1>22, [Next]_vars DEF
     Next

\* A user is inserted with an identity or by CreateUser, and keeps what it has.
LEMMA OrphanStep ==
    TypeOK /\ ResolveInv /\ NoOrphanedAccount /\ [Next]_vars => NoOrphanedAccount'
<1> SUFFICES ASSUME TypeOK, ResolveInv, NoOrphanedAccount, [Next]_vars
             PROVE  NoOrphanedAccount'
  OBVIOUS
<1>1. ASSUME NEW u \in Users, NEW e \in Emails, CreateUser(u, e)
      PROVE  NoOrphanedAccount'
  BY <1>1 DEF CreateUser, NoOrphanedAccount
<1>2. ASSUME NEW w \in Workers, NEW u \in Users, CreateUserWithIdentity(w, u)
      PROVE  NoOrphanedAccount'
  <2>1. job[w].account \in Accounts /\ identity[job[w].account] = None
    BY <1>2 DEF CreateUserWithIdentity, ResolveInv, Callback
  <2>2. identity'[job[w].account] = u
    BY <1>2, <2>1 DEF CreateUserWithIdentity, TypeOK
  <2>3. \A v \in users, a \in Accounts : identity[a] = v => identity'[a] = v
    BY <1>2, <2>1, LoginConstants DEF CreateUserWithIdentity, TypeOK, LoginConstants
  <2> QED
    BY <1>2, <2>1, <2>2, <2>3 DEF CreateUserWithIdentity, NoOrphanedAccount
<1>3. ASSUME NEW w \in Workers, CreateIdentity(w)
      PROVE  NoOrphanedAccount'
  <2>1. job[w].account \in Accounts /\ identity[job[w].account] = None
    BY <1>3 DEF CreateIdentity, ResolveInv, Callback
  <2>2. \A v \in users, a \in Accounts : identity[a] = v => identity'[a] = v
    BY <1>3, <2>1, LoginConstants DEF CreateIdentity, TypeOK, LoginConstants
  <2> QED
    BY <1>3, <2>2 DEF CreateIdentity, NoOrphanedAccount, accounts
<1>4. ASSUME NEW w \in Workers,
             \/ CallbackError(w) \/ LinkLookup(w) \/ ResolveLookup(w) \/ ResolveNoOwner(w)
             \/ CreateUserConflict(w) \/ CreateIdentityConflict(w) \/ LoadUser(w)
             \/ CreateSession(w) \/ Abandon(w)
      PROVE  UNCHANGED <<users, registered, identity>>
  BY ONLY <1>4 DEF CallbackError, LinkLookup, ResolveLookup, ResolveNoOwner,
     CreateUserConflict, CreateIdentityConflict, LoadUser, CreateSession, Abandon, accounts
<1>5. ASSUME NEW w \in Workers,
             \/ \E f \in Flows, p \in Providers : HandleOAuthCallback(w, f, p)
             \/ \E b \in Accounts, p \in GoogleProfiles \cup GitHubProfiles : Exchange(w, b, p)
             \/ \E u \in Users : ResolveOwner(w, u)
             \/ \E c \in Codes : MintAuthCode(w, c)
             \/ \E c \in Codes, k \in Clients : HandleTokenExchange(w, c, k)
      PROVE  UNCHANGED <<users, registered, identity>>
  BY ONLY <1>5 DEF HandleOAuthCallback, Exchange, ResolveOwner, MintAuthCode,
     HandleTokenExchange, accounts
<1>6. ASSUME \/ \E u \in Users : MarkEmailVerified(u) \/ DisableUser(u)
             \/ \E f \in Flows, p \in Providers, c \in Clients, link \in Users \cup {None} :
                   BeginFlow(f, p, c, link)
             \/ Expire
             \/ UNCHANGED vars
      PROVE  UNCHANGED <<users, registered, identity>>
  BY ONLY <1>6 DEF MarkEmailVerified, DisableUser, BeginFlow, Expire, vars, accounts
<1>7. UNCHANGED <<users, registered, identity>> => NoOrphanedAccount'
  BY DEF NoOrphanedAccount
<1> QED
  BY ONLY <1>1, <1>2, <1>3, <1>4, <1>5, <1>6, <1>7, [Next]_vars DEF Next

-----------------------------------------------------------------------------
\* The invariant the OAuth properties rest on holds in every reachable state.
THEOREM Invariance == Spec => []IndInv
<1>1. Init => IndInv
  <2> SUFFICES ASSUME Init PROVE IndInv
    OBVIOUS
  <2> USE LoginConstants DEF Init
  <2>1. Idle \in Jobs
    BY DEF Idle, Jobs, PCs
  <2>2. job \in [Workers -> Jobs]
    BY <2>1
  <2>3. TypeOK
    BY <2>2 DEF TypeOK
  <2>4. \A w \in Workers : job[w].pc = "idle" /\ ~job[w].vouched
    BY DEF Idle
  <2>5. FlowInv /\ ResolveInv /\ VouchInv
    BY <2>4 DEF FlowInv, ResolveInv, VouchInv, Callback
  <2>6. CodeInv /\ RedeemInv /\ NoOrphanedAccount
    BY <2>4 DEF CodeInv, RedeemInv, Redeeming, NoOrphanedAccount
  <2> QED
    BY <2>3, <2>5, <2>6 DEF IndInv
<1>2. IndInv /\ [Next]_vars => IndInv'
  BY TypeStep, FlowStep, ResolveStep, VouchStep, CodeStep, RedeemStep, OrphanStep DEF IndInv
<1> QED
  BY <1>1, <1>2, PTL DEF Spec

\* The variables keep their types, identities name users that exist, and an address
\* has one user, whoever looked it up at the same time (CreateUser,
\* CreateUserWithIdentity, the constraints of migration 0001).
THEOREM TypeCorrect == Spec => []TypeOK
<1>1. IndInv => TypeOK
  BY DEF IndInv
<1> QED
  BY <1>1, Invariance, PTL

\* No callback, refused, overtaken or cut off, leaves a user behind that nobody can
\* sign in as (CreateUserWithIdentity).
THEOREM NoOrphan == Spec => []NoOrphanedAccount
<1>1. IndInv => NoOrphanedAccount
  BY DEF IndInv
<1> QED
  BY <1>1, Invariance, PTL

\* However a state value, a callback or a code is replayed, a round trip buys one
\* session at most (ConsumeOAuthFlow, ConsumeAuthCode).
THEOREM OneSession == Spec => []OneSessionPerFlow
<1>1. IndInv => OneSessionPerFlow
  BY DEF IndInv, CodeInv, RedeemInv, OneSessionPerFlow
<1> QED
  BY <1>1, Invariance, PTL

\* A session is, and stays, that of the user who owns the provider account which
\* came back in its flow, and of the one who asked to link it (Resolve,
\* LinkToUser).
THEOREM IdentityOwner == Spec => []SessionOfIdentityOwner
<1>1. IndInv => SessionOfIdentityOwner
  BY DEF IndInv, CodeInv, SessionOfIdentityOwner
<1> QED
  BY <1>1, Invariance, PTL

\* A code buys a session for the client that started its flow, and for no other
\* (handleTokenExchange).
THEOREM FlowClient == Spec => []SessionOfFlowClient
<1>1. IndInv => SessionOfFlowClient
  BY DEF IndInv, TypeOK, CodeInv, RedeemInv, Redeeming, SessionOfFlowClient
<1> QED
  BY <1>1, Invariance, PTL

\* Only CreateIdentity gives an account to a user that is there already.
LEMMA AttachOnly ==
    ASSUME IndInv, [Next]_vars, NEW a \in Accounts,
           identity[a] # identity'[a], identity'[a] \in users
    PROVE  \E w \in Workers :
              /\ job[w].pc = "attach" /\ job[w].account = a
              /\ \/ LinkTarget(w) = identity'[a]
                 \/ /\ job[w].attested
                    /\ identity'[a] \in verified
                    /\ email[identity'[a]] = job[w].email
<1>1. ASSUME NEW w \in Workers, CreateIdentity(w)
      PROVE  /\ job[w].pc = "attach" /\ job[w].account = a
             /\ \/ LinkTarget(w) = identity'[a]
                \/ /\ job[w].attested
                   /\ identity'[a] \in verified
                   /\ email[identity'[a]] = job[w].email
  <2>1. job[w].pc = "attach" /\ identity' = [identity EXCEPT ![job[w].account] = job[w].user]
    BY <1>1 DEF CreateIdentity
  <2>2. job[w].account = a /\ identity'[a] = job[w].user
    BY <2>1 DEF IndInv, TypeOK
  <2> QED
    BY <2>1, <2>2 DEF IndInv, ResolveInv, VouchInv
<1>2. ASSUME NEW w \in Workers, NEW u \in Users, CreateUserWithIdentity(w, u)
      PROVE  FALSE
  BY <1>2 DEF CreateUserWithIdentity, IndInv, TypeOK
<1>3. ASSUME NEW w \in Workers,
             \/ CallbackError(w) \/ LinkLookup(w) \/ ResolveLookup(w) \/ ResolveNoOwner(w)
             \/ CreateUserConflict(w) \/ CreateIdentityConflict(w) \/ LoadUser(w)
             \/ CreateSession(w) \/ Abandon(w)
      PROVE  identity' = identity
  BY ONLY <1>3 DEF CallbackError, LinkLookup, ResolveLookup, ResolveNoOwner,
     CreateUserConflict, CreateIdentityConflict, LoadUser, CreateSession, Abandon
<1>4. ASSUME NEW w \in Workers,
             \/ \E f \in Flows, p \in Providers : HandleOAuthCallback(w, f, p)
             \/ \E b \in Accounts, p \in GoogleProfiles \cup GitHubProfiles : Exchange(w, b, p)
             \/ \E u \in Users : ResolveOwner(w, u)
             \/ \E c \in Codes : MintAuthCode(w, c)
             \/ \E c \in Codes, k \in Clients : HandleTokenExchange(w, c, k)
      PROVE  identity' = identity
  BY ONLY <1>4 DEF HandleOAuthCallback, Exchange, ResolveOwner, MintAuthCode,
     HandleTokenExchange
<1>5. CASE \/ \E u \in Users, e \in Emails : CreateUser(u, e)
           \/ \E u \in Users : MarkEmailVerified(u) \/ DisableUser(u)
           \/ \E f \in Flows, p \in Providers, c \in Clients, link \in Users \cup {None} :
                 BeginFlow(f, p, c, link)
           \/ Expire
           \/ UNCHANGED vars
  BY ONLY <1>5, identity[a] # identity'[a]
     DEF CreateUser, MarkEmailVerified, DisableUser, BeginFlow, Expire, vars
<1> QED
  BY ONLY <1>1, <1>2, <1>3, <1>4, <1>5, identity[a] # identity'[a], [Next]_vars DEF Next

\* The action property: an account is linked to somebody's user only when asked
\* to, or with both sides' word on the address (package linking).
THEOREM BothVerified == Spec => AutoLinkNeedsBothVerified
<1>1. IndInv /\ [Next]_vars
        => [\A a \in Accounts : identity[a] # identity'[a] /\ identity'[a] \in users =>
              \E w \in Workers :
                /\ job[w].pc = "attach" /\ job[w].account = a
                /\ \/ LinkTarget(w) = identity'[a]
                   \/ /\ job[w].attested
                      /\ identity'[a] \in verified
                      /\ email[identity'[a]] = job[w].email]_vars
  BY AttachOnly
<1> QED
  BY <1>1, Invariance, PTL DEF Spec, AutoLinkNeedsBothVerified
=============================================================================
