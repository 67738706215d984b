-------------------------- MODULE SdkClientProofs ---------------------------
(***************************************************************************)
(* Proofs about SdkClient: any number of calls, codes, accounts and        *)
(* sessions, with a fallback or without.                                   *)
(***************************************************************************)
EXTENDS SdkClient, TLAPS

\* A call presents what the app may have: an account's password, a code, a token
\* of a stored session.
Presents(c) ==
    \/ op[c] = "login" /\ arg[c] \in Users
    \/ op[c] = "exchange" /\ arg[c] \in Codes
    \/ op[c] = "refresh" /\ arg[c] \in known

\* What a call that was made presents, and which of its requests may be out.
CallInv ==
    /\ Held \subseteq known
    /\ \A c \in Calls :
        /\ pc[c] = "idle" => srv[<<c, "primary">>] = "none" /\ srv[<<c, "fallback">>] = "none"
        /\ pc[c] = "primary" => srv[<<c, "fallback">>] = "none"
        /\ pc[c] # "idle" => Presents(c)

\* A request has no session before its handler stores one, and a handler that is
\* about to store one serves a sign-in.
ServeInv ==
    \A q \in Requests :
        /\ srv[q] \in {"sent", "redeemed", "creating"} => q \notin known
        /\ srv[q] = "redeemed" => op[q[1]] = "exchange"
        /\ srv[q] = "creating" => op[q[1]] \in {"login", "exchange"}

\* q has redeemed code k, and holds it or the session it became.
Claimed(q, k) ==
    /\ op[q[1]] = "exchange" /\ arg[q[1]] = k
    /\ srv[q] \in {"redeemed", "creating"} \/ q \in known

\* A redeemed code is one request's.
CodeInv ==
    \A k \in Codes : \A q, p \in Requests :
        Claimed(q, k) => k \in redeemed /\ (Claimed(p, k) => q = p)

\* A token was spent by a request that carried it and has the session that
\* replaced it.
SpentInv == \A i \in spent : \E p \in Requests \cap known : Asks(p[1], "refresh", i)

\* Reuse is only ever answered when a token was carried twice, and takes no more
\* than that token's family.
ReuseInv ==
    \A q \in Requests : srv[q] = "reuse" =>
        /\ op[q[1]] = "refresh"
        /\ snap[q] \subseteq FamilyRows(arg[q[1]])
        /\ Resent(arg[q[1]])

\* So a session is revoked by a logout, a disabled account or such an answer.
RevokedInv == \A i \in revoked : i \in ended \/ \E k \in FamilyRows(i) : Resent(k)

IndInv == TypeOK /\ CallInv /\ ServeInv /\ CodeInv /\ SpentInv /\ ReuseInv /\ RevokedInv

-----------------------------------------------------------------------------
\* The steps of Next by who takes them: an app makes a call, a handler serves one.
Makes(c) ==
    \/ \E u \in Users : Login(c, u)
    \/ \E k \in Codes \cup {None} : HandleCallback(c, k)
    \/ \E i \in Rows : Refresh(c, i)

Serves(q) ==
    \/ RefreshRotate(q) \/ RefreshReuse(q) \/ RefreshLoadUser(q) \/ RevokeCommit(q)
    \/ ConsumeAuthCode(q) \/ SignInLoadUser(q) \/ CreateSession(q)
    \/ RespondWithTokens(q) \/ Refuse(q) \/ Fail(q)

\* A request is a call at a host.
LEMMA RequestFacts ==
    /\ \A c \in Calls, h \in Hosts : <<c, h>> \in Requests
    /\ \A q \in Requests : q[1] \in Calls /\ q[2] \in Hosts /\ q = <<q[1], q[2]>>
    /\ \A q \in Requests, h \in Hosts : <<q[1], h>> \in Requests
BY DEF Requests

\* Unread answers are dropped, and nothing else changes on the way.
LEMMA FailOverFacts ==
    ASSUME TypeOK, NEW c \in Calls, pc[c] \in Hosts, FailOver(c)
    PROVE  /\ \/ pc[c] = "primary" /\ pc' = [pc EXCEPT ![c] = "fallback"]
              \/ pc' = [pc EXCEPT ![c] = "failed"]
           /\ srv' \in [Requests -> {"none", "sent", "gone"} \cup Working \cup Statuses]
           /\ \A q \in Requests :
                \/ srv'[q] = srv[q]
                \/ srv[q] \in Statuses /\ srv'[q] = "gone"
                \/ q = <<c, "fallback">> /\ pc[c] = "primary" /\ srv'[q] = "sent"
<1> DEFINE q0 == <<c, pc[c]>>
           drop == IF srv[q0] \in Statuses THEN "gone" ELSE srv[q0]
<1>1. q0 \in Requests /\ <<c, "fallback">> \in Requests
  BY RequestFacts DEF Hosts
<1>2. srv \in [Requests -> {"none", "sent", "gone"} \cup Working \cup Statuses]
  BY DEF TypeOK
<1>3. Unread(c) = [srv EXCEPT ![q0] = drop]
  BY DEF Unread
<1> HIDE DEF q0
<1>4. drop \in {"none", "sent", "gone"} \cup Working \cup Statuses
  BY <1>1, <1>2
<1>5. drop = srv[q0] \/ (srv[q0] \in Statuses /\ drop = "gone")
  OBVIOUS
<1> HIDE DEF drop
<1>6. CASE pc[c] = "primary" /\ HasFallback
  <2>1. /\ pc' = [pc EXCEPT ![c] = "fallback"]
        /\ srv' = [[srv EXCEPT ![q0] = drop] EXCEPT ![<<c, "fallback">>] = "sent"]
    BY <1>3, <1>6 DEF FailOver
  <2> QED
    BY <1>1, <1>2, <1>4, <1>5, <1>6, <2>1
<1>7. CASE ~(pc[c] = "primary" /\ HasFallback)
  <2>1. pc' = [pc EXCEPT ![c] = "failed"] /\ srv' = [srv EXCEPT ![q0] = drop]
    BY <1>3, <1>7 DEF FailOver
  <2> QED
    BY <1>1, <1>2, <1>4, <1>5, <2>1
<1> QED
  BY <1>6, <1>7

\* What the SDK does with an answer, or with none.
LEMMA ClientFacts ==
    ASSUME TypeOK, NEW c \in Calls, NoAnswer(c) \/ Receive(c)
    PROVE  /\ pc[c] \in Hosts
           /\ \/ pc[c] = "primary" /\ pc' = [pc EXCEPT ![c] = "fallback"]
              \/ \E a \in {"ok", "refused", "failed"} : pc' = [pc EXCEPT ![c] = a]
           /\ srv' \in [Requests -> {"none", "sent", "gone"} \cup Working \cup Statuses]
           /\ \A q \in Requests :
                \/ srv'[q] = srv[q]
                \/ srv[q] \in Statuses /\ srv'[q] = "gone"
                \/ q = <<c, "fallback">> /\ pc[c] = "primary" /\ srv'[q] = "sent"
           /\ \/ got' = got
              \/ /\ <<c, pc[c]>> \in Requests /\ srv[<<c, pc[c]>>] = "2xx"
                 /\ got' = [got EXCEPT ![c] = <<c, pc[c]>>]
           /\ UNCHANGED <<family, owner, known, spent, revoked, codeUser, redeemed, disabled,
                          op, arg, snap, ended>>
<1>1. pc[c] \in Hosts /\ <<c, pc[c]>> \in Requests
  BY RequestFacts DEF NoAnswer, Receive
<1>2. UNCHANGED <<family, owner, known, spent, revoked, codeUser, redeemed, disabled, op, arg,
                  snap, ended>>
  BY DEF NoAnswer, Receive, sessions, codes
<1>3. srv \in [Requests -> {"none", "sent", "gone"} \cup Working \cup Statuses]
  BY DEF TypeOK
<1>4. CASE FailOver(c) /\ got' = got
  BY <1>1, <1>2, <1>4, FailOverFacts
<1>5. CASE /\ srv[<<c, pc[c]>>] = "2xx" /\ pc' = [pc EXCEPT ![c] = "ok"]
           /\ got' = [got EXCEPT ![c] = <<c, pc[c]>>]
           /\ srv' = [srv EXCEPT ![<<c, pc[c]>>] = "gone"]
  <2> DEFINE q0 == <<c, pc[c]>>
  <2>1. q0 \in Requests /\ srv[q0] \in Statuses /\ srv' = [srv EXCEPT ![q0] = "gone"]
    BY <1>1, <1>5 DEF Statuses
  <2> HIDE DEF q0
  <2>2. /\ srv' \in [Requests -> {"none", "sent", "gone"} \cup Working \cup Statuses]
        /\ \A q \in Requests : \/ srv'[q] = srv[q]
                               \/ srv[q] \in Statuses /\ srv'[q] = "gone"
    BY <1>3, <2>1
  <2> QED
    BY <1>1, <1>2, <1>5, <2>2
<1>6. CASE /\ srv[<<c, pc[c]>>] = "4xx" /\ pc' = [pc EXCEPT ![c] = "refused"]
           /\ srv' = [srv EXCEPT ![<<c, pc[c]>>] = "gone"] /\ got' = got
  <2> DEFINE q0 == <<c, pc[c]>>
  <2>1. q0 \in Requests /\ srv[q0] \in Statuses /\ srv' = [srv EXCEPT ![q0] = "gone"]
    BY <1>1, <1>6 DEF Statuses
  <2> HIDE DEF q0
  <2>2. /\ srv' \in [Requests -> {"none", "sent", "gone"} \cup Working \cup Statuses]
        /\ \A q \in Requests : \/ srv'[q] = srv[q]
                               \/ srv[q] \in Statuses /\ srv'[q] = "gone"
    BY <1>3, <2>1
  <2> QED
    BY <1>1, <1>2, <1>6, <2>2
<1> QED
  BY <1>4, <1>5, <1>6 DEF NoAnswer, Receive

\* What making a call does: one request is out, with something the app has.
LEMMA PostFacts ==
    ASSUME TypeOK, CallInv, NEW c \in Calls, Makes(c)
    PROVE  /\ pc[c] = "idle" /\ pc' = [pc EXCEPT ![c] = "primary"] /\ Presents(c)'
           /\ <<c, "primary">> \in Requests /\ <<c, "fallback">> \in Requests
           /\ srv[<<c, "primary">>] = "none" /\ srv[<<c, "fallback">>] = "none"
           /\ srv' = [srv EXCEPT ![<<c, "primary">>] = "sent"]
           /\ op' \in [Calls -> {"login", "exchange", "refresh", None}]
           /\ arg' \in [Calls -> Rows \cup Codes \cup Users \cup {None}]
           /\ \A d \in Calls : d # c => op'[d] = op[d] /\ arg'[d] = arg[d]
           /\ UNCHANGED <<family, owner, known, spent, revoked, codeUser, redeemed, disabled,
                          got, snap, ended>>
<1>1. /\ op \in [Calls -> {"login", "exchange", "refresh", None}]
      /\ arg \in [Calls -> Rows \cup Codes \cup Users \cup {None}]
      /\ got \in [Calls -> known \cup {None}] /\ known \in SUBSET Rows
  BY DEF TypeOK
<1>2. /\ <<c, "primary">> \in Requests /\ <<c, "fallback">> \in Requests
      /\ pc[c] = "idle" =>
            srv[<<c, "primary">>] = "none" /\ srv[<<c, "fallback">>] = "none"
  BY RequestFacts DEF Hosts, CallInv
<1>3. PICK what \in {"login", "exchange", "refresh"}, with \in Rows \cup Codes \cup Users :
        /\ Post(c, what, with)
        /\ \/ what = "login" /\ with \in Users
           \/ what = "exchange" /\ with \in Codes
           \/ what = "refresh" /\ with \in Held \cup {got[d] : d \in Calls} /\ with # None
  BY DEF Makes, Login, HandleCallback, Exchange, Refresh
<1>4. Held \subseteq known
  BY DEF CallInv
<1>5. what = "refresh" => with \in known
  BY <1>1, <1>3, <1>4
<1> QED
  BY <1>1, <1>2, <1>3, <1>5 DEF Post, Presents, sessions, codes

\* What every handler leaves alone.
LEMMA ServeFacts ==
    ASSUME TypeOK, NEW q \in Requests, Serves(q)
    PROVE  /\ pc' = pc /\ op' = op /\ arg' = arg /\ got' = got
           /\ known \subseteq known'
           /\ \A k \in known : family'[k] = family[k] /\ owner'[k] = owner[k]
           /\ \A p \in Requests : p # q => srv'[p] = srv[p]
           /\ srv[q] # "none" /\ srv'[q] # "none"
<1> USE DEF TypeOK, sessions, codes, client, Working, Statuses
<1> DEFINE Good == /\ pc' = pc /\ op' = op /\ arg' = arg /\ got' = got
                   /\ known \subseteq known'
                   /\ \A k \in known : family'[k] = family[k] /\ owner'[k] = owner[k]
                   /\ \A p \in Requests : p # q => srv'[p] = srv[p]
                   /\ srv[q] # "none" /\ srv'[q] # "none"
<1>1. CASE RefreshRotate(q)
  BY <1>1 DEF RefreshRotate, GoTo, Tokens!Refresh, Tokens!Issue, Tokens!Issued, Tokens!Live
<1>2. CASE RefreshReuse(q)
  BY <1>2 DEF RefreshReuse, GoTo
<1>3. CASE RefreshLoadUser(q)
  BY <1>3 DEF RefreshLoadUser, GoTo
<1>4. CASE RevokeCommit(q)
  BY <1>4 DEF RevokeCommit, Answer, GoTo, Tokens!Revoke
<1>5. CASE ConsumeAuthCode(q)
  BY <1>5 DEF ConsumeAuthCode, GoTo
<1>6. CASE SignInLoadUser(q)
  BY <1>6 DEF SignInLoadUser, Answer, GoTo
<1>7. CASE CreateSession(q)
  BY <1>7 DEF CreateSession, GoTo, Tokens!Login, Tokens!Issue, Tokens!Issued
<1>8. CASE RespondWithTokens(q)
  BY <1>8 DEF RespondWithTokens, Answer, GoTo
<1>9. CASE Refuse(q)
  BY <1>9 DEF Refuse, Answer, GoTo
<1>10. CASE Fail(q)
  BY <1>10 DEF Fail, Answer, GoTo
<1> QED
  BY ONLY Serves(q), <1>1, <1>2, <1>3, <1>4, <1>5, <1>6, <1>7, <1>8, <1>9, <1>10
     DEF Serves

\* No step takes a session, a call or a request back.
LEMMA Grow ==
    ASSUME TypeOK, CallInv, [Next]_vars
    PROVE  /\ known \subseteq known'
           /\ \A k \in known : family'[k] = family[k] /\ owner'[k] = owner[k]
           /\ \A d \in Calls : pc[d] # "idle" => /\ pc'[d] # "idle"
                                                 /\ op'[d] = op[d] /\ arg'[d] = arg[d]
           /\ \A p \in Requests : srv[p] # "none" => srv'[p] # "none"
<1> DEFINE Good ==
           /\ known \subseteq known'
           /\ \A k \in known : family'[k] = family[k] /\ owner'[k] = owner[k]
           /\ \A d \in Calls : pc[d] # "idle" => /\ pc'[d] # "idle"
                                                 /\ op'[d] = op[d] /\ arg'[d] = arg[d]
           /\ \A p \in Requests : srv[p] # "none" => srv'[p] # "none"
<1>0. pc \in [Calls -> {"idle", "ok", "refused", "failed"} \cup Hosts]
      /\ srv \in [Requests -> {"none", "sent", "gone"} \cup Working \cup Statuses]
  BY DEF TypeOK
<1>1. ASSUME NEW c \in Calls, Makes(c)
      PROVE  Good
  BY <1>1, PostFacts, <1>0
<1>2. ASSUME NEW c \in Calls, NoAnswer(c) \/ Receive(c)
      PROVE  Good
  <2>1. pc[c] \in {"primary", "fallback"} /\ UNCHANGED <<family, owner, known, op, arg>>
    BY <1>2, ClientFacts DEF Hosts
  <2>2. \E a \in {"fallback", "ok", "refused", "failed"} : pc' = [pc EXCEPT ![c] = a]
    BY <1>2, ClientFacts
  <2>3. \A p \in Requests : srv'[p] = srv[p] \/ srv'[p] \in {"gone", "sent"}
    BY <1>2, ClientFacts
  <2> QED
    BY <1>0, <2>1, <2>2, <2>3
<1>3. ASSUME NEW q \in Requests, Serves(q)
      PROVE  Good
  BY <1>3, ServeFacts
<1>4. ASSUME NEW i \in Rows, RevokeFamily(i)
      PROVE  Good
  BY <1>4 DEF RevokeFamily, Tokens!Revoke, sessions, codes, client
<1>5. ASSUME NEW u \in Users, Disable(u)
      PROVE  Good
  BY <1>5 DEF Disable, sessions, codes, client
<1>6. ASSUME UNCHANGED vars
      PROVE  Good
  BY <1>6 DEF vars, sessions, codes, client
<1> QED
  BY ONLY <1>1, <1>2, <1>3, <1>4, <1>5, <1>6, [Next]_vars DEF Next, Makes, Serves

\* A step sends a request once, with what the app has.
LEMMA CallStep ==
    TypeOK /\ CallInv /\ [Next]_vars => CallInv'
<1> SUFFICES ASSUME TypeOK, CallInv, [Next]_vars PROVE CallInv'
  OBVIOUS
<1>0. pc \in [Calls -> {"idle", "ok", "refused", "failed"} \cup Hosts]
      /\ srv \in [Requests -> {"none", "sent", "gone"} \cup Working \cup Statuses]
      /\ \A d \in Calls : <<d, "primary">> \in Requests /\ <<d, "fallback">> \in Requests
  BY RequestFacts DEF TypeOK, Hosts
<1>1. ASSUME NEW c \in Calls, Makes(c)
      PROVE  CallInv'
  <2>1. ASSUME NEW d \in Calls
        PROVE  /\ pc'[d] = "idle" =>
                    srv'[<<d, "primary">>] = "none" /\ srv'[<<d, "fallback">>] = "none"
               /\ pc'[d] = "primary" => srv'[<<d, "fallback">>] = "none"
               /\ pc'[d] # "idle" => Presents(d)'
    <3>1. CASE d = c
      BY <1>0, <1>1, <3>1, PostFacts
    <3>2. CASE d # c
      <4>1. /\ <<d, "primary">> # <<c, "primary">> /\ <<d, "fallback">> # <<c, "primary">>
        BY <3>2
      <4>2. /\ srv' = [srv EXCEPT ![<<c, "primary">>] = "sent"]
            /\ pc' = [pc EXCEPT ![c] = "primary"]
            /\ op'[d] = op[d] /\ arg'[d] = arg[d] /\ known' = known
        BY <1>1, <3>2, PostFacts
      <4>3. /\ srv'[<<d, "primary">>] = srv[<<d, "primary">>]
            /\ srv'[<<d, "fallback">>] = srv[<<d, "fallback">>]
        BY <1>0, <4>1, <4>2
      <4>4. pc'[d] = pc[d]
        BY <1>0, <3>2, <4>2
      <4> QED
        BY <4>2, <4>3, <4>4 DEF CallInv, Presents
    <3> QED
      BY <3>1, <3>2
  <2>2. known' = known
    BY <1>1, PostFacts
  <2> QED
    BY <2>1, <2>2 DEF CallInv
<1>2. ASSUME NEW c \in Calls, NoAnswer(c) \/ Receive(c)
      PROVE  CallInv'
  <2>1. /\ pc[c] \in {"primary", "fallback"} /\ UNCHANGED <<known, op, arg>>
        /\ \/ pc[c] = "primary" /\ pc' = [pc EXCEPT ![c] = "fallback"]
           \/ \E a \in {"ok", "refused", "failed"} : pc' = [pc EXCEPT ![c] = a]
    BY <1>2, ClientFacts DEF Hosts
  <2>2. \A q \in Requests : q # <<c, "fallback">> /\ srv[q] = "none" => srv'[q] = "none"
    BY <1>2, ClientFacts DEF Statuses
  <2>3. ASSUME NEW d \in Calls
        PROVE  /\ pc'[d] = "idle" =>
                    srv'[<<d, "primary">>] = "none" /\ srv'[<<d, "fallback">>] = "none"
               /\ pc'[d] = "primary" => srv'[<<d, "fallback">>] = "none"
               /\ pc'[d] # "idle" => Presents(d)'
    <3>1. CASE d = c
      <4>1. pc'[d] \notin {"idle", "primary"} /\ pc[d] # "idle"
        BY <1>0, <2>1, <3>1
      <4> QED
        BY <2>1, <4>1 DEF CallInv, Presents
    <3>2. CASE d # c
      <4>1. pc'[d] = pc[d] /\ <<d, "fallback">> # <<c, "fallback">>
            /\ <<d, "primary">> # <<c, "fallback">>
        BY <1>0, <2>1, <3>2
      <4> QED
        BY <1>0, <2>1, <2>2, <4>1 DEF CallInv, Presents
    <3> QED
      BY <3>1, <3>2
  <2> QED
    BY <2>1, <2>3 DEF CallInv
<1>3. ASSUME NEW q \in Requests, Serves(q)
      PROVE  CallInv'
  <2>1. /\ pc' = pc /\ op' = op /\ arg' = arg /\ known \subseteq known'
        /\ \A p \in Requests : srv[p] = "none" => srv'[p] = "none"
    BY <1>3, ServeFacts
  <2> QED
    BY <1>0, <2>1 DEF CallInv, Presents
<1>4. ASSUME NEW i \in Rows, RevokeFamily(i)
      PROVE  CallInv'
  BY <1>4 DEF RevokeFamily, Tokens!Revoke, sessions, codes, client, CallInv, Presents
<1>5. ASSUME NEW u \in Users, Disable(u)
      PROVE  CallInv'
  BY <1>5 DEF Disable, sessions, codes, client, CallInv, Presents
<1>6. ASSUME UNCHANGED vars
      PROVE  CallInv'
  BY <1>6 DEF vars, sessions, codes, client, CallInv, Presents
<1> QED
  BY ONLY <1>1, <1>2, <1>3, <1>4, <1>5, <1>6, [Next]_vars DEF Next, Makes, Serves

\* A step stores no session for a request that has one.
LEMMA ServeStep ==
    TypeOK /\ CallInv /\ ServeInv /\ [Next]_vars => ServeInv'
<1> SUFFICES ASSUME TypeOK, CallInv, ServeInv, [Next]_vars PROVE ServeInv'
  OBVIOUS
<1>1. ASSUME NEW c \in Calls, Makes(c)
      PROVE  ServeInv'
  <2>1. /\ known' = known /\ <<c, "primary">> \notin known
        /\ srv' = [srv EXCEPT ![<<c, "primary">>] = "sent"]
        /\ srv[<<c, "primary">>] = "none" /\ srv[<<c, "fallback">>] = "none"
        /\ \A d \in Calls : d # c => op'[d] = op[d]
    BY <1>1, PostFacts DEF TypeOK
  <2>2. ASSUME NEW q \in Requests
        PROVE  /\ srv'[q] \in {"sent", "redeemed", "creating"} => q \notin known
               /\ srv'[q] = "redeemed" => op'[q[1]] = "exchange"
               /\ srv'[q] = "creating" => op'[q[1]] \in {"login", "exchange"}
    <3>0. srv \in [Requests -> {"none", "sent", "gone"} \cup Working \cup Statuses]
      BY DEF TypeOK
    <3>1. CASE q = <<c, "primary">>
      BY <2>1, <3>0, <3>1
    <3>2. CASE q # <<c, "primary">>
      <4>1. srv'[q] = srv[q]
        BY <2>1, <3>0, <3>2
      <4>2. CASE q[1] = c
        <5>1. q = <<c, "fallback">>
          BY <3>2, <4>2, RequestFacts DEF Hosts
        <5> QED
          BY <2>1, <4>1, <5>1
      <4>3. CASE q[1] # c
        <5>1. op'[q[1]] = op[q[1]]
          BY <2>1, <4>3, RequestFacts
        <5> QED
          BY <4>1, <5>1 DEF ServeInv
      <4> QED
        BY <4>2, <4>3
    <3> QED
      BY <3>1, <3>2
  <2> QED
    BY <2>1, <2>2 DEF ServeInv
<1>2. ASSUME NEW c \in Calls, NoAnswer(c) \/ Receive(c)
      PROVE  ServeInv'
  <2>1. /\ UNCHANGED <<known, op, arg>>
        /\ \A q \in Requests : \/ srv'[q] = srv[q]
                               \/ srv'[q] = "gone"
                               \/ q = <<c, "fallback">> /\ pc[c] = "primary" /\ srv'[q] = "sent"
    BY <1>2, ClientFacts
  <2>2. pc[c] = "primary" => <<c, "fallback">> \notin known
    BY RequestFacts DEF CallInv, TypeOK, Hosts
  <2> QED
    BY <2>1, <2>2 DEF ServeInv
<1> USE RequestFacts DEF TypeOK, ServeInv, sessions, codes, client, Working, Statuses
<1>3. ASSUME NEW q \in Requests, Serves(q)
      PROVE  ServeInv'
  <2>1. CASE RefreshRotate(q)
    BY <2>1 DEF RefreshRotate, GoTo, Tokens!Refresh, Tokens!Issue, Tokens!Issued, Tokens!Live
  <2>2. CASE RefreshReuse(q)
    BY <2>2 DEF RefreshReuse, GoTo
  <2>3. CASE RefreshLoadUser(q)
    BY <2>3 DEF RefreshLoadUser, GoTo
  <2>4. CASE RevokeCommit(q)
    BY <2>4 DEF RevokeCommit, Answer, GoTo, Tokens!Revoke
  <2>5. CASE ConsumeAuthCode(q)
    BY <2>5 DEF ConsumeAuthCode, GoTo
  <2>6. CASE SignInLoadUser(q)
    BY <2>6 DEF SignInLoadUser, Answer, GoTo
  <2>7. CASE CreateSession(q)
    BY <2>7 DEF CreateSession, GoTo, Tokens!Login, Tokens!Issue, Tokens!Issued
  <2>8. CASE RespondWithTokens(q)
    BY <2>8 DEF RespondWithTokens, Answer, GoTo
  <2>9. CASE Refuse(q)
    BY <2>9 DEF Refuse, Answer, GoTo
  <2>10. CASE Fail(q)
    BY <2>10 DEF Fail, Answer, GoTo
  <2> QED
    BY ONLY <1>3, <2>1, <2>2, <2>3, <2>4, <2>5, <2>6, <2>7, <2>8, <2>9, <2>10
       DEF Serves
<1>4. ASSUME NEW i \in Rows, RevokeFamily(i)
      PROVE  ServeInv'
  BY <1>4 DEF RevokeFamily, Tokens!Revoke
<1>5. ASSUME NEW u \in Users, Disable(u)
      PROVE  ServeInv'
  BY <1>5 DEF Disable
<1>6. ASSUME UNCHANGED vars
      PROVE  ServeInv'
  BY <1>6 DEF vars
<1> QED
  BY ONLY <1>1, <1>2, <1>3, <1>4, <1>5, <1>6, [Next]_vars DEF Next, Makes, Serves

\* A request that is out is of a call that was made.
LEMMA SentFacts ==
    ASSUME CallInv, NEW q \in Requests, srv[q] # "none"
    PROVE  pc[q[1]] # "idle" /\ Presents(q[1])
<1>1. PICK c \in Calls : q = <<c, "primary">> \/ q = <<c, "fallback">>
  BY DEF Requests, Hosts
<1>2. srv[<<c, "primary">>] # "none" \/ srv[<<c, "fallback">>] # "none"
  BY <1>1
<1>3. q[1] = c
  BY <1>1
<1> QED
  BY <1>2, <1>3 DEF CallInv

\* What was asked stays asked, and what was carried twice stays so.
LEMMA AskedStays ==
    ASSUME TypeOK, CallInv, [Next]_vars
    PROVE  /\ \A what, i : \A d \in Calls : Asks(d, what, i) => Asks(d, what, i)'
           /\ \A i : Resent(i) => Resent(i)'
           /\ \A i, k \in known : k \in FamilyRows(i) => k \in FamilyRows(i)'
<1>1. /\ known \subseteq known'
      /\ \A k \in known : family'[k] = family[k]
      /\ \A d \in Calls : pc[d] # "idle" => pc'[d] # "idle" /\ op'[d] = op[d] /\ arg'[d] = arg[d]
      /\ \A p \in Requests : srv[p] # "none" => srv'[p] # "none"
  BY Grow
<1>2. \A what, i : \A d \in Calls : Asks(d, what, i) => Asks(d, what, i)'
  BY <1>1 DEF Asks
<1>3. ASSUME NEW i, Resent(i)
      PROVE  Resent(i)'
  <2>1. PICK q, p \in Requests :
            /\ q # p /\ srv[q] # "none" /\ srv[p] # "none"
            /\ Asks(q[1], "refresh", i) /\ Asks(p[1], "refresh", i)
    BY <1>3 DEF Resent
  <2>2. /\ srv'[q] # "none" /\ srv'[p] # "none"
        /\ Asks(q[1], "refresh", i)' /\ Asks(p[1], "refresh", i)'
    BY <1>1, <1>2, <2>1, RequestFacts
  <2> QED
    BY <2>1, <2>2 DEF Resent
<1>4. \A i, k \in known : k \in FamilyRows(i) => k \in FamilyRows(i)'
  BY <1>1 DEF FamilyRows
<1> QED
  BY <1>2, <1>3, <1>4

\* A step redeems a code for one request: the redeemed codes are never given out
\* again.
LEMMA CodeStep ==
    TypeOK /\ CallInv /\ ServeInv /\ CodeInv /\ [Next]_vars => CodeInv'
<1> SUFFICES ASSUME TypeOK, CallInv, ServeInv, CodeInv, [Next]_vars PROVE CodeInv'
  OBVIOUS
<1>0. ASSUME redeemed' = redeemed,
             \A k \in Codes, q \in Requests : Claimed(q, k)' => Claimed(q, k)
      PROVE  CodeInv'
  BY <1>0 DEF CodeInv
<1>a. /\ srv \in [Requests -> {"none", "sent", "gone"} \cup Working \cup Statuses]
      /\ \A q \in Requests : srv[q] = "none" => q \notin known
  BY DEF TypeOK
<1>1. ASSUME NEW c \in Calls, Makes(c)
      PROVE  CodeInv'
  <2>1. /\ known' = known /\ redeemed' = redeemed
        /\ srv' = [srv EXCEPT ![<<c, "primary">>] = "sent"]
        /\ srv[<<c, "primary">>] = "none" /\ srv[<<c, "fallback">>] = "none"
        /\ \A d \in Calls : d # c => op'[d] = op[d] /\ arg'[d] = arg[d]
    BY <1>1, PostFacts
  <2>2. ASSUME NEW k \in Codes, NEW q \in Requests, Claimed(q, k)'
        PROVE  Claimed(q, k)
    <3>1. CASE q[1] = c
      <4>1. q \in {<<c, "primary">>, <<c, "fallback">>}
        BY <3>1, RequestFacts DEF Hosts
      <4>2. srv'[q] \in {"sent", "none"} /\ q \notin known
        BY <1>a, <2>1, <4>1
      <4> QED
        BY <2>1, <2>2, <4>2 DEF Claimed
    <3>2. CASE q[1] # c
      <4>1. srv'[q] = srv[q] /\ op'[q[1]] = op[q[1]] /\ arg'[q[1]] = arg[q[1]]
        BY <1>a, <2>1, <3>2, RequestFacts
      <4> QED
        BY <2>1, <2>2, <4>1 DEF Claimed
    <3> QED
      BY <3>1, <3>2
  <2> QED
    BY <1>0, <2>1, <2>2
<1>2. ASSUME NEW c \in Calls, NoAnswer(c) \/ Receive(c)
      PROVE  CodeInv'
  <2>1. /\ UNCHANGED <<known, op, arg, redeemed>>
        /\ \A q \in Requests : srv'[q] = srv[q] \/ srv'[q] \in {"gone", "sent"}
    BY <1>2, ClientFacts
  <2> QED
    BY <1>0, <2>1 DEF Claimed
<1> USE RequestFacts DEF ServeInv, Claimed, sessions, codes, client, Working, Statuses
<1>3. ASSUME NEW q \in Requests, Serves(q)
      PROVE  CodeInv'
  <2>1. CASE RefreshRotate(q)
    BY <2>1, <1>0, <1>a DEF RefreshRotate, GoTo, Tokens!Refresh, Tokens!Issue, Tokens!Issued,
       Tokens!Live
  <2>2. CASE RefreshReuse(q)
    BY <2>2, <1>0, <1>a DEF RefreshReuse, GoTo
  <2>3. CASE RefreshLoadUser(q)
    BY <2>3, <1>0, <1>a DEF RefreshLoadUser, GoTo
  <2>4. CASE RevokeCommit(q)
    BY <2>4, <1>0, <1>a DEF RevokeCommit, Answer, GoTo, Tokens!Revoke
  <2>5. CASE ConsumeAuthCode(q)
    <3> DEFINE k0 == arg[q[1]]
    <3>1. /\ k0 \notin redeemed /\ redeemed' = redeemed \cup {k0} /\ srv[q] = "sent"
          /\ srv' = [srv EXCEPT ![q] = "redeemed"] /\ UNCHANGED <<known, op, arg>>
      BY <2>5 DEF ConsumeAuthCode, GoTo
    <3>2. \A k \in Codes, p \in Requests : Claimed(p, k)' => Claimed(p, k) \/ (p = q /\ k = k0)
      BY <1>a, <3>1
    <3>3. \A p \in Requests : k0 \in Codes => ~Claimed(p, k0)
      BY <3>1 DEF CodeInv
    <3> HIDE DEF k0, Claimed
    <3> QED
      BY <3>1, <3>2, <3>3 DEF CodeInv
  <2>6. CASE SignInLoadUser(q)
    BY <2>6, <1>0, <1>a DEF SignInLoadUser, Answer, GoTo
  <2>7. CASE CreateSession(q)
    BY <2>7, <1>0, <1>a DEF CreateSession, GoTo, Tokens!Login, Tokens!Issue, Tokens!Issued
  <2>8. CASE RespondWithTokens(q)
    BY <2>8, <1>0, <1>a DEF RespondWithTokens, Answer, GoTo
  <2>9. CASE Refuse(q)
    BY <2>9, <1>0, <1>a DEF Refuse, Answer, GoTo
  <2>10. CASE Fail(q)
    BY <2>10, <1>0, <1>a DEF Fail, Answer, GoTo
  <2> QED
    BY ONLY <1>3, <2>1, <2>2, <2>3, <2>4, <2>5, <2>6, <2>7, <2>8, <2>9, <2>10
       DEF Serves
<1>4. ASSUME NEW i \in Rows, RevokeFamily(i)
      PROVE  CodeInv'
  BY <1>4, <1>0, <1>a DEF RevokeFamily, Tokens!Revoke
<1>5. ASSUME NEW u \in Users, Disable(u)
      PROVE  CodeInv'
  BY <1>5, <1>0, <1>a DEF Disable
<1>6. ASSUME UNCHANGED vars
      PROVE  CodeInv'
  BY <1>6, <1>0, <1>a DEF vars
<1> QED
  BY ONLY <1>1, <1>2, <1>3, <1>4, <1>5, <1>6, [Next]_vars DEF Next, Makes, Serves

\* A step spends a token for the request that carries it.
LEMMA SpentStep ==
    TypeOK /\ CallInv /\ SpentInv /\ [Next]_vars => SpentInv'
<1> SUFFICES ASSUME TypeOK, CallInv, SpentInv, [Next]_vars PROVE SpentInv'
  OBVIOUS
<1>0. ASSUME spent' = spent
      PROVE  SpentInv'
  <2> SUFFICES ASSUME NEW i \in spent
               PROVE  \E p \in Requests \cap known' : Asks(p[1], "refresh", i)'
    BY <1>0 DEF SpentInv
  <2>1. PICK p \in Requests \cap known : Asks(p[1], "refresh", i)
    BY DEF SpentInv
  <2> QED
    BY <2>1, AskedStays, Grow, RequestFacts
<1>1. ASSUME NEW c \in Calls, Makes(c)
      PROVE  SpentInv'
  BY <1>0, <1>1, PostFacts
<1>2. ASSUME NEW c \in Calls, NoAnswer(c) \/ Receive(c)
      PROVE  SpentInv'
  BY <1>0, <1>2, ClientFacts
<1> USE <1>0 DEF sessions, codes, client
<1>3. ASSUME NEW q \in Requests, Serves(q)
      PROVE  SpentInv'
  <2>1. CASE RefreshRotate(q)
    <3>1. /\ spent' = spent \cup {arg[q[1]]} /\ known' = known \cup {q} /\ srv[q] = "sent"
          /\ op[q[1]] = "refresh" /\ UNCHANGED <<pc, op, arg>>
      BY <2>1 DEF RefreshRotate, Tokens!Refresh, Tokens!Issue
    <3>2. Asks(q[1], "refresh", arg[q[1]])'
      <4>1. pc[q[1]] # "idle"
        BY <3>1, SentFacts
      <4> QED
        BY <3>1, <4>1 DEF Asks
    <3>3. ASSUME NEW i \in spent
          PROVE  \E p \in Requests \cap known' : Asks(p[1], "refresh", i)'
      <4>1. PICK p \in Requests \cap known : Asks(p[1], "refresh", i)
        BY DEF SpentInv
      <4> QED
        BY <3>1, <4>1, AskedStays, RequestFacts
    <3> QED
      BY <3>1, <3>2, <3>3 DEF SpentInv
  <2>2. CASE RefreshReuse(q)
    BY <2>2 DEF RefreshReuse, GoTo
  <2>3. CASE RefreshLoadUser(q)
    BY <2>3 DEF RefreshLoadUser, GoTo
  <2>4. CASE RevokeCommit(q)
    BY <2>4 DEF RevokeCommit, Answer, GoTo, Tokens!Revoke
  <2>5. CASE ConsumeAuthCode(q)
    BY <2>5 DEF ConsumeAuthCode, GoTo
  <2>6. CASE SignInLoadUser(q)
    BY <2>6 DEF SignInLoadUser, Answer, GoTo
  <2>7. CASE CreateSession(q)
    BY <2>7 DEF CreateSession, GoTo, Tokens!Login, Tokens!Issue, Tokens!Issued
  <2>8. CASE RespondWithTokens(q)
    BY <2>8 DEF RespondWithTokens, Answer, GoTo
  <2>9. CASE Refuse(q)
    BY <2>9 DEF Refuse, Answer, GoTo
  <2>10. CASE Fail(q)
    BY <2>10 DEF Fail, Answer, GoTo
  <2> QED
    BY ONLY <1>3, <2>1, <2>2, <2>3, <2>4, <2>5, <2>6, <2>7, <2>8, <2>9, <2>10
       DEF Serves
<1>4. ASSUME NEW i \in Rows, RevokeFamily(i)
      PROVE  SpentInv'
  BY <1>4 DEF RevokeFamily, Tokens!Revoke
<1>5. ASSUME NEW u \in Users, Disable(u)
      PROVE  SpentInv'
  BY <1>5 DEF Disable
<1>6. ASSUME UNCHANGED vars
      PROVE  SpentInv'
  BY <1>6 DEF vars
<1> QED
  BY ONLY <1>1, <1>2, <1>3, <1>4, <1>5, <1>6, [Next]_vars DEF Next, Makes, Serves

\* A step finds reuse only in a token that another request has spent.
LEMMA ReuseStep ==
    TypeOK /\ CallInv /\ ServeInv /\ SpentInv /\ ReuseInv /\ [Next]_vars => ReuseInv'
<1> SUFFICES ASSUME TypeOK, CallInv, ServeInv, SpentInv, ReuseInv, [Next]_vars PROVE ReuseInv'
  OBVIOUS
<1>0. ASSUME NEW p \in Requests, srv[p] = "reuse", snap'[p] = snap[p]
      PROVE  /\ op'[p[1]] = "refresh" /\ snap'[p] \subseteq FamilyRows(arg[p[1]])'
             /\ arg'[p[1]] = arg[p[1]] /\ Resent(arg[p[1]])'
  <2>1. pc[p[1]] # "idle" /\ Presents(p[1]) /\ p[1] \in Calls
    BY <1>0, SentFacts, RequestFacts
  <2>2. op'[p[1]] = op[p[1]] /\ arg'[p[1]] = arg[p[1]]
    BY <2>1, Grow
  <2>3. /\ op[p[1]] = "refresh" /\ snap[p] \subseteq FamilyRows(arg[p[1]])
        /\ Resent(arg[p[1]])
    BY <1>0 DEF ReuseInv
  <2>4. arg[p[1]] \in known /\ snap[p] \subseteq known
    BY <2>1, <2>3 DEF Presents, FamilyRows
  <2>5. \A k \in snap[p] : k \in FamilyRows(arg[p[1]])'
    <3>1. /\ known \subseteq known' /\ family'[arg[p[1]]] = family[arg[p[1]]]
          /\ \A k \in known : family'[k] = family[k]
      BY <2>4, Grow
    <3> QED
      BY <2>2, <2>3, <2>4, <3>1 DEF FamilyRows
  <2>6. Resent(arg[p[1]])'
    <3>1. PICK a : a = arg[p[1]]
      OBVIOUS
    <3>2. Resent(a)'
      BY <2>3, <3>1, AskedStays
    <3> QED
      BY <2>2, <3>1, <3>2
  <2> QED
    BY <1>0, <2>2, <2>3, <2>5, <2>6
<1>a. ASSUME \A p \in Requests : srv'[p] = "reuse" => srv[p] = "reuse" /\ snap'[p] = snap[p]
      PROVE  ReuseInv'
  <2> SUFFICES ASSUME NEW p \in Requests, srv'[p] = "reuse"
               PROVE  /\ op'[p[1]] = "refresh" /\ snap'[p] \subseteq FamilyRows(arg[p[1]])'
                      /\ Resent(arg[p[1]])'
    BY DEF ReuseInv
  <2> QED
    BY <1>0, <1>a
<1>b. /\ srv \in [Requests -> {"none", "sent", "gone"} \cup Working \cup Statuses]
      /\ snap \in [Requests -> SUBSET known]
  BY DEF TypeOK
<1>1. ASSUME NEW c \in Calls, Makes(c)
      PROVE  ReuseInv'
  <2>1. srv' = [srv EXCEPT ![<<c, "primary">>] = "sent"] /\ snap' = snap
    BY <1>1, PostFacts
  <2> QED
    BY <1>a, <1>b, <2>1
<1>2. ASSUME NEW c \in Calls, NoAnswer(c) \/ Receive(c)
      PROVE  ReuseInv'
  <2>1. /\ snap' = snap
        /\ \A q \in Requests : srv'[q] = srv[q] \/ srv'[q] \in {"gone", "sent"}
    BY <1>2, ClientFacts
  <2> QED
    BY <1>a, <2>1
<1> USE <1>a, <1>b DEF sessions, codes, client, Working, Statuses
<1>3. ASSUME NEW q \in Requests, Serves(q)
      PROVE  ReuseInv'
  <2>1. CASE RefreshRotate(q)
    BY <2>1 DEF RefreshRotate, GoTo, Tokens!Refresh, Tokens!Issue, Tokens!Issued, Tokens!Live
  <2>2. CASE RefreshReuse(q)
    <3> DEFINE i == arg[q[1]]
    <3>1. /\ srv[q] = "sent" /\ op[q[1]] = "refresh" /\ i \in spent
          /\ snap' = [snap EXCEPT ![q] = FamilyRows(i)] /\ srv' = [srv EXCEPT ![q] = "reuse"]
          /\ UNCHANGED <<family, known, pc, op, arg>>
      BY <2>2 DEF RefreshReuse, GoTo
    <3>2. Asks(q[1], "refresh", i) /\ q \notin known
      BY <3>1, SentFacts DEF Asks, ServeInv
    <3>3. PICK p \in Requests \cap known : Asks(p[1], "refresh", i)
      BY <3>1 DEF SpentInv
    <3>4. srv[p] # "none"
      BY <3>3 DEF TypeOK
    <3>5. Resent(i)
      BY <3>1, <3>2, <3>3, <3>4 DEF Resent
    <3>6. Resent(i)'
      <4>1. PICK a : a = i
        OBVIOUS
      <4>2. Resent(a)'
        BY <3>5, <4>1, AskedStays
      <4> QED
        BY <3>1, <4>1, <4>2
    <3>7. /\ op'[q[1]] = "refresh" /\ snap'[q] = FamilyRows(i)'
      BY <3>1 DEF FamilyRows
    <3>8. \A r \in Requests : r # q => srv'[r] = srv[r] /\ snap'[r] = snap[r]
      BY <3>1
    <3> HIDE DEF i
    <3>9. ASSUME NEW r \in Requests, srv'[r] = "reuse"
          PROVE  /\ op'[r[1]] = "refresh" /\ snap'[r] \subseteq FamilyRows(arg[r[1]])'
                 /\ Resent(arg[r[1]])'
      <4>1. CASE r = q
        BY <3>6, <3>7, <4>1 DEF i
      <4>2. CASE r # q
        BY <1>0, <3>8, <3>9, <4>2
      <4> QED
        BY <4>1, <4>2
    <3> QED
      BY <3>9 DEF ReuseInv
  <2>3. CASE RefreshLoadUser(q)
    BY <2>3 DEF RefreshLoadUser, GoTo
  <2>4. CASE RevokeCommit(q)
    BY <2>4 DEF RevokeCommit, Answer, GoTo, Tokens!Revoke
  <2>5. CASE ConsumeAuthCode(q)
    BY <2>5 DEF ConsumeAuthCode, GoTo
  <2>6. CASE SignInLoadUser(q)
    BY <2>6 DEF SignInLoadUser, Answer, GoTo
  <2>7. CASE CreateSession(q)
    BY <2>7 DEF CreateSession, GoTo, Tokens!Login, Tokens!Issue, Tokens!Issued
  <2>8. CASE RespondWithTokens(q)
    BY <2>8 DEF RespondWithTokens, Answer, GoTo
  <2>9. CASE Refuse(q)
    BY <2>9 DEF Refuse, Answer, GoTo
  <2>10. CASE Fail(q)
    BY <2>10 DEF Fail, Answer, GoTo
  <2> QED
    BY ONLY <1>3, <2>1, <2>2, <2>3, <2>4, <2>5, <2>6, <2>7, <2>8, <2>9, <2>10
       DEF Serves
<1>4. ASSUME NEW i \in Rows, RevokeFamily(i)
      PROVE  ReuseInv'
  BY <1>4 DEF RevokeFamily, Tokens!Revoke
<1>5. ASSUME NEW u \in Users, Disable(u)
      PROVE  ReuseInv'
  BY <1>5 DEF Disable
<1>6. ASSUME UNCHANGED vars
      PROVE  ReuseInv'
  BY <1>6 DEF vars
<1> QED
  BY ONLY <1>1, <1>2, <1>3, <1>4, <1>5, <1>6, [Next]_vars DEF Next, Makes, Serves

\* A step revokes for a logout, a disabled account or a token carried twice.
LEMMA RevokedStep ==
    TypeOK /\ CallInv /\ ReuseInv /\ RevokedInv /\ [Next]_vars => RevokedInv'
<1> SUFFICES ASSUME TypeOK, CallInv, ReuseInv, RevokedInv, [Next]_vars PROVE RevokedInv'
  OBVIOUS
<1>0. ASSUME NEW i \in revoked, ended \subseteq ended'
      PROVE  i \in ended' \/ \E k \in FamilyRows(i)' : Resent(k)'
  <2>1. i \in known
    BY DEF TypeOK
  <2>2. CASE i \in ended
    BY <1>0, <2>2
  <2>3. CASE \E k \in FamilyRows(i) : Resent(k)
    <3>1. PICK k \in FamilyRows(i) : Resent(k)
      BY <2>3
    <3>2. k \in known
      BY DEF FamilyRows
    <3> QED
      BY <2>1, <3>1, <3>2, AskedStays
  <2> QED
    BY <2>2, <2>3 DEF RevokedInv
<1>a. ASSUME revoked' = revoked, ended' = ended
      PROVE  RevokedInv'
  BY <1>0, <1>a DEF RevokedInv
<1>1. ASSUME NEW c \in Calls, Makes(c)
      PROVE  RevokedInv'
  BY <1>a, <1>1, PostFacts
<1>2. ASSUME NEW c \in Calls, NoAnswer(c) \/ Receive(c)
      PROVE  RevokedInv'
  BY <1>a, <1>2, ClientFacts
<1> USE <1>a DEF sessions, codes, client
<1>3. ASSUME NEW q \in Requests, Serves(q)
      PROVE  RevokedInv'
  <2>1. CASE RefreshRotate(q)
    BY <2>1 DEF RefreshRotate, GoTo, Tokens!Refresh, Tokens!Issue, Tokens!Issued, Tokens!Live
  <2>2. CASE RefreshReuse(q)
    BY <2>2 DEF RefreshReuse, GoTo
  <2>3. CASE RefreshLoadUser(q)
    BY <2>3 DEF RefreshLoadUser, GoTo
  <2>4. CASE RevokeCommit(q)
    <3>1. /\ revoked' = revoked \cup snap[q] /\ srv[q] \in {"reuse", "disabled"}
          /\ ended' = IF srv[q] = "disabled" THEN ended \cup snap[q] ELSE ended
          /\ UNCHANGED <<family, known>>
      BY <2>4 DEF RevokeCommit, Tokens!Revoke
    <3>2. ASSUME NEW i \in snap[q]
          PROVE  i \in ended' \/ \E k \in FamilyRows(i)' : Resent(k)'
      <4>1. CASE srv[q] = "disabled"
        BY <3>1, <4>1
      <4>2. CASE srv[q] = "reuse"
        <5>1. /\ op[q[1]] = "refresh" /\ i \in FamilyRows(arg[q[1]]) /\ Resent(arg[q[1]])
          BY <4>2 DEF ReuseInv
        <5>2. arg[q[1]] \in known
          BY <4>2, <5>1, SentFacts DEF Presents
        <5>3. i \in known /\ arg[q[1]] \in FamilyRows(i)
          BY <5>1, <5>2 DEF FamilyRows
        <5>4. PICK k \in FamilyRows(i) : Resent(k)
          BY <5>1, <5>3
        <5>5. k \in known
          BY DEF FamilyRows
        <5> QED
          BY <5>3, <5>4, <5>5, AskedStays
      <4> QED
        BY <3>1, <4>1, <4>2
    <3>3. ended \subseteq ended'
      BY <3>1
    <3> QED
      BY <1>0, <3>1, <3>2, <3>3 DEF RevokedInv
  <2>5. CASE ConsumeAuthCode(q)
    BY <2>5 DEF ConsumeAuthCode, GoTo
  <2>6. CASE SignInLoadUser(q)
    BY <2>6 DEF SignInLoadUser, Answer, GoTo
  <2>7. CASE CreateSession(q)
    BY <2>7 DEF CreateSession, GoTo, Tokens!Login, Tokens!Issue, Tokens!Issued
  <2>8. CASE RespondWithTokens(q)
    BY <2>8 DEF RespondWithTokens, Answer, GoTo
  <2>9. CASE Refuse(q)
    BY <2>9 DEF Refuse, Answer, GoTo
  <2>10. CASE Fail(q)
    BY <2>10 DEF Fail, Answer, GoTo
  <2> QED
    BY ONLY <1>3, <2>1, <2>2, <2>3, <2>4, <2>5, <2>6, <2>7, <2>8, <2>9, <2>10
       DEF Serves
<1>4. ASSUME NEW i \in Rows, RevokeFamily(i)
      PROVE  RevokedInv'
  <2>1. /\ revoked' = revoked \cup FamilyRows(i) /\ ended' = ended \cup FamilyRows(i)
    BY <1>4 DEF RevokeFamily, Tokens!Revoke
  <2> QED
    BY <1>0, <2>1 DEF RevokedInv
<1>5. ASSUME NEW u \in Users, Disable(u)
      PROVE  RevokedInv'
  BY <1>5 DEF Disable
<1>6. ASSUME UNCHANGED vars
      PROVE  RevokedInv'
  BY <1>6 DEF vars
<1> QED
  BY ONLY <1>1, <1>2, <1>3, <1>4, <1>5, <1>6, [Next]_vars DEF Next, Makes, Serves

\* Whoever is about to get a session has an account.
LEMMA SignInUser ==
    ASSUME TypeOK, CallInv, ServeInv, NEW q \in Requests, srv[q] = "creating"
    PROVE  (IF op[q[1]] = "login" THEN arg[q[1]] ELSE codeUser[arg[q[1]]]) \in Users
<1>1. op[q[1]] \in {"login", "exchange"}
  BY DEF ServeInv
<1>2. /\ op[q[1]] = "login" => arg[q[1]] \in Users
      /\ op[q[1]] = "exchange" => arg[q[1]] \in Codes
  BY SentFacts DEF Presents
<1> QED
  BY <1>1, <1>2 DEF TypeOK

\* A step keeps the types: no handler passes its INSERT without the row.
LEMMA TypeStep ==
    TypeOK /\ CallInv /\ ServeInv /\ [Next]_vars => TypeOK'
<1> SUFFICES ASSUME TypeOK, CallInv, ServeInv, [Next]_vars PROVE TypeOK'
  OBVIOUS
<1>1. ASSUME NEW c \in Calls, Makes(c)
      PROVE  TypeOK'
  <2>1. /\ pc' = [pc EXCEPT ![c] = "primary"] /\ <<c, "primary">> \in Requests
        /\ srv' = [srv EXCEPT ![<<c, "primary">>] = "sent"]
        /\ op' \in [Calls -> {"login", "exchange", "refresh", None}]
        /\ arg' \in [Calls -> Rows \cup Codes \cup Users \cup {None}]
        /\ UNCHANGED <<family, owner, known, spent, revoked, codeUser, redeemed, disabled,
                       got, snap, ended>>
    BY <1>1, PostFacts
  <2>2. pc' \in [Calls -> {"idle", "ok", "refused", "failed"} \cup Hosts]
    BY <2>1 DEF TypeOK, Hosts
  <2>3. /\ srv' \in [Requests -> {"none", "sent", "gone"} \cup Working \cup Statuses]
        /\ \A q \in Requests : srv'[q] = srv[q] \/ srv'[q] = "sent"
    BY <2>1 DEF TypeOK
  <2> QED
    BY <2>1, <2>2, <2>3 DEF TypeOK
<1>2. ASSUME NEW c \in Calls, NoAnswer(c) \/ Receive(c)
      PROVE  TypeOK'
  <2>1. /\ pc' \in [Calls -> {"idle", "ok", "refused", "failed"} \cup Hosts]
    <3>1. \E a \in {"fallback", "ok", "refused", "failed"} : pc' = [pc EXCEPT ![c] = a]
      BY <1>2, ClientFacts
    <3> QED
      BY <3>1 DEF TypeOK, Hosts
  <2>2. /\ srv' \in [Requests -> {"none", "sent", "gone"} \cup Working \cup Statuses]
        /\ \A q \in Requests : srv'[q] = srv[q] \/ srv'[q] \in {"gone", "sent"}
        /\ UNCHANGED <<family, owner, known, spent, revoked, codeUser, redeemed, disabled,
                       op, arg, snap, ended>>
    BY <1>2, ClientFacts
  <2>3. got' \in [Calls -> known \cup {None}]
    <3>1. CASE got' = got
      BY <3>1 DEF TypeOK
    <3>2. CASE /\ <<c, pc[c]>> \in Requests /\ srv[<<c, pc[c]>>] = "2xx"
               /\ got' = [got EXCEPT ![c] = <<c, pc[c]>>]
      <4>1. <<c, pc[c]>> \in known
        BY <3>2 DEF TypeOK
      <4> QED
        BY <3>2, <4>1 DEF TypeOK
    <3> QED
      BY <1>2, <3>1, <3>2, ClientFacts
  <2> QED
    BY <2>1, <2>2, <2>3 DEF TypeOK
<1> USE SdkConstants DEF TypeOK, ServeInv, SdkConstants, sessions, codes, client, Working,
       Statuses, Rows
<1>3. ASSUME NEW q \in Requests, Serves(q)
      PROVE  TypeOK'
  <2>1. CASE RefreshRotate(q)
    BY <2>1 DEF RefreshRotate, GoTo, Tokens!Refresh, Tokens!Issue, Tokens!Issued, Tokens!Live
  <2>2. CASE RefreshReuse(q)
    BY <2>2 DEF RefreshReuse, GoTo, FamilyRows
  <2>3. CASE RefreshLoadUser(q)
    BY <2>3 DEF RefreshLoadUser, GoTo
  <2>4. CASE RevokeCommit(q)
    BY <2>4 DEF RevokeCommit, Answer, GoTo, Tokens!Revoke
  <2>5. CASE ConsumeAuthCode(q)
    <3>1. arg[q[1]] \in Codes
      BY <2>5, SentFacts DEF ConsumeAuthCode, Presents
    <3> QED
      BY <2>5, <3>1 DEF ConsumeAuthCode, GoTo
  <2>6. CASE SignInLoadUser(q)
    <3>1. \/ srv' = [srv EXCEPT ![q] = "creating"] /\ snap' = snap
          \/ /\ \E a \in {"4xx", "gone"} : srv' = [srv EXCEPT ![q] = a]
             /\ snap' = [snap EXCEPT ![q] = {}]
      BY <2>6 DEF SignInLoadUser, Answer, GoTo
    <3>2. /\ srv[q] \in {"sent", "redeemed"}
          /\ UNCHANGED <<sessions, codes, disabled, client, ended>>
      BY <2>6 DEF SignInLoadUser
    <3> QED
      BY <3>1, <3>2
  <2>7. CASE CreateSession(q)
    <3> DEFINE u == IF op[q[1]] = "login" THEN arg[q[1]] ELSE codeUser[arg[q[1]]]
    <3>1. u \in Users
      BY <2>7, SignInUser DEF CreateSession
    <3>2. /\ family' = [k \in known \cup {q} |-> IF k = q THEN q ELSE family[k]]
          /\ owner' = [k \in known \cup {q} |-> IF k = q THEN u ELSE owner[k]]
          /\ known' = known \cup {q} /\ srv' = [srv EXCEPT ![q] = "signing"]
          /\ UNCHANGED <<spent, revoked, codes, disabled, client, snap, ended>>
      BY <2>7 DEF CreateSession, GoTo, Tokens!Login, Tokens!Issue, Tokens!Issued
    <3> HIDE DEF u
    <3> QED
      BY <3>1, <3>2
  <2>8. CASE RespondWithTokens(q)
    BY <2>8 DEF RespondWithTokens, Answer, GoTo
  <2>9. CASE Refuse(q)
    BY <2>9 DEF Refuse, Answer, GoTo
  <2>10. CASE Fail(q)
    BY <2>10 DEF Fail, Answer, GoTo
  <2> QED
    BY ONLY <1>3, <2>1, <2>2, <2>3, <2>4, <2>5, <2>6, <2>7, <2>8, <2>9, <2>10
       DEF Serves
<1>4. ASSUME NEW i \in Rows, RevokeFamily(i)
      PROVE  TypeOK'
  BY <1>4 DEF RevokeFamily, Tokens!Revoke, FamilyRows
<1>5. ASSUME NEW u \in Users, Disable(u)
      PROVE  TypeOK'
  BY <1>5 DEF Disable
<1>6. ASSUME UNCHANGED vars
      PROVE  TypeOK'
  BY <1>6 DEF vars
<1> QED
  BY ONLY <1>1, <1>2, <1>3, <1>4, <1>5, <1>6, [Next]_vars DEF Next, Makes, Serves

-----------------------------------------------------------------------------
\* The calls, the requests and the stored sessions agree in every state.
THEOREM Invariance == Spec => []IndInv
<1>1. Init => IndInv
  <2> SUFFICES ASSUME Init PROVE IndInv
    OBVIOUS
  <2>1. TypeOK
    BY SdkConstants DEF Init, TypeOK, SdkConstants, Rows
  <2>2. CallInv
    BY RequestFacts DEF Init, CallInv, Hosts
  <2>3. ServeInv /\ SpentInv /\ ReuseInv /\ RevokedInv
    BY DEF Init, ServeInv, SpentInv, ReuseInv, RevokedInv
  <2>4. CodeInv
    BY SdkConstants, RequestFacts DEF Init, CodeInv, Claimed, SdkConstants
  <2> QED
    BY <2>1, <2>2, <2>3, <2>4 DEF IndInv
<1>2. IndInv /\ [Next]_vars => IndInv'
  BY TypeStep, CallStep, ServeStep, CodeStep, SpentStep, ReuseStep, RevokedStep DEF IndInv
<1> QED
  BY <1>1, <1>2, PTL DEF Spec

\* Every variable holds a value of its kind; a handler that answers with tokens has
\* a stored session.
THEOREM TypeCorrect == Spec => []TypeOK
<1>1. IndInv => TypeOK
  BY DEF IndInv
<1> QED
  BY <1>1, Invariance, PTL

\* However many calls carry a code, and whichever hosts they fail over to, it becomes
\* one session at most (Exchange over ConsumeAuthCode).
THEOREM OneSession == Spec => []OneSessionPerCode
<1>1. IndInv => OneSessionPerCode
  BY DEF IndInv, CodeInv, Claimed, OneSessionPerCode, Asks
<1> QED
  BY <1>1, Invariance, PTL

\* An app loses a session it has not presented only to a logout, a disabled account
\* or a token of the family that two requests carried (Rotate's reuse detection
\* behind Refresh's failover).
THEOREM LostByResend == Spec => []LostOnlyByResend
<1>1. IndInv => LostOnlyByResend
  <2> SUFFICES ASSUME IndInv, NEW c \in Calls, got[c] # None
               PROVE  \/ got[c] \in Tokens!Live
                      \/ \E d \in Calls : Asks(d, "refresh", got[c])
                      \/ got[c] \in ended
                      \/ \E i \in FamilyRows(got[c]) : Resent(i)
    BY DEF LostOnlyByResend
  <2>1. got[c] \in known
    BY DEF IndInv, TypeOK
  <2>2. CASE got[c] \in spent
    BY <2>2, RequestFacts DEF IndInv, SpentInv
  <2>3. CASE got[c] \in revoked
    BY <2>3 DEF IndInv, RevokedInv
  <2> QED
    BY <2>1, <2>2, <2>3 DEF Tokens!Live
<1> QED
  BY <1>1, Invariance, PTL

\* The two hosts change the sessions only as RefreshTokens allows: a token is
\* refreshed while it is live and leaves one successor, whatever was sent twice.
THEOREM UsesTokens == Spec => [][Tokens!Next]_(Tokens!vars)
<1>1. IndInv /\ [Next]_vars => [Tokens!Next]_(Tokens!vars)
  <2> SUFFICES ASSUME IndInv, [Next]_vars PROVE Tokens!Next \/ UNCHANGED Tokens!vars
    OBVIOUS
  <2>0. TypeOK /\ CallInv /\ ServeInv
    BY DEF IndInv
  <2>1. ASSUME NEW c \in Calls, Makes(c)
        PROVE  UNCHANGED Tokens!vars
    BY <2>0, <2>1, PostFacts DEF Tokens!vars
  <2>2. ASSUME NEW c \in Calls, NoAnswer(c) \/ Receive(c)
        PROVE  UNCHANGED Tokens!vars
    BY <2>0, <2>2, ClientFacts DEF Tokens!vars
  <2>3. ASSUME NEW q \in Requests, RefreshRotate(q)
        PROVE  Tokens!Next
    <3>1. arg[q[1]] \in Rows /\ q \in Rows
      BY <2>0, <2>3 DEF RefreshRotate, Tokens!Refresh, Tokens!Live, TypeOK, Rows
    <3> QED
      BY <2>3, <3>1 DEF RefreshRotate, Tokens!Next
  <2>4. ASSUME NEW q \in Requests, CreateSession(q)
        PROVE  Tokens!Next
    <3> DEFINE u == IF op[q[1]] = "login" THEN arg[q[1]] ELSE codeUser[arg[q[1]]]
    <3>1. u \in Users
      BY <2>0, <2>4, SignInUser DEF CreateSession
    <3>2. Tokens!Login(q, u) /\ q \in Rows
      BY <2>4 DEF CreateSession, Rows
    <3> HIDE DEF u
    <3> QED
      BY <3>1, <3>2 DEF Tokens!Next
  <2>5. ASSUME NEW q \in Requests, RevokeCommit(q)
        PROVE  Tokens!Next
    <3>1. snap[q] \in SUBSET known /\ Tokens!Revoke(snap[q])
      BY <2>0, <2>5 DEF RevokeCommit, TypeOK
    <3> QED
      BY <3>1 DEF Tokens!Next
  <2>6. ASSUME NEW i \in Rows, RevokeFamily(i)
        PROVE  Tokens!Next
    <3>1. FamilyRows(i) \in SUBSET known /\ Tokens!Revoke(FamilyRows(i))
      BY <2>6 DEF RevokeFamily, FamilyRows
    <3> QED
      BY <3>1 DEF Tokens!Next
  <2>7. ASSUME NEW q \in Requests,
               \/ RefreshReuse(q) \/ RefreshLoadUser(q) \/ ConsumeAuthCode(q)
               \/ SignInLoadUser(q) \/ RespondWithTokens(q) \/ Refuse(q) \/ Fail(q)
        PROVE  UNCHANGED Tokens!vars
    BY <2>7 DEF RefreshReuse, RefreshLoadUser, ConsumeAuthCode, SignInLoadUser,
                RespondWithTokens, Refuse, Fail, sessions, Tokens!vars
  <2>8. ASSUME NEW u \in Users, Disable(u)
        PROVE  UNCHANGED Tokens!vars
    BY <2>8 DEF Disable, sessions, Tokens!vars
  <2>9. CASE UNCHANGED vars
    BY <2>9 DEF vars, sessions, Tokens!vars
  <2> QED
    BY ONLY <2>1, <2>2, <2>3, <2>4, <2>5, <2>6, <2>7, <2>8, <2>9, [Next]_vars DEF Next, Makes
<1> QED
  BY <1>1, Invariance, PTL DEF Spec
=============================================================================
