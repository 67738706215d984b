--------------------------- MODULE AuthApiProofs ----------------------------
(***************************************************************************)
(* Proofs about AuthApi: any number of requests, accounts and sessions.    *)
(***************************************************************************)
EXTENDS AuthApi, TLAPS

\* Where a handler acts for an account that has a row.
ForAccount == {"issue", "markVerified", "reload", "setPassword", "resetRevoke",
               "resetRevoking", "loadUser", "disabledRevoke", "disabledRevoking",
               "revoking"} \cup Admitted

\* Who a request acts for, and whose session it has shown or made.
UserInv ==
    \A r \in Requests :
        /\ pc[r] \in ForAccount => user[r] \in accounts
        /\ pc[r] \in {"resolve", "createUser"} => user[r] \in Users
        /\ pc[r] \in {"loadUser"} \cup Admitted => sid[r] \in known /\ owner[sid[r]] = user[r]

\* A disabled account stays so, and none passes the last look at it.
LateInv ==
    \A r \in Requests :
        /\ wasDisabled[r] /\ user[r] # None => user[r] \in disabled
        /\ pc[r] \in {"issue", "tokens"} => ~wasDisabled[r]

\* A family is one account's, and so is what a revoking statement has seen.
OwnerInv ==
    /\ \A i, k \in known : family[i] = family[k] => owner[i] = owner[k]
    /\ \A r \in Requests : \A k \in snap[r] : owner[k] = user[r]

\* What a request has promised to revoke is what its statement will see, or has
\* seen, or is revoked already.
ScopeInv ==
    \A r \in Requests :
        /\ pc[r] = "logout" => scope[r] \subseteq FamilyRows(sid[r])
        /\ pc[r] \in {"logoutAll", "setPassword", "resetRevoke"}
             => scope[r] \subseteq UserRows(user[r])
        /\ pc[r] = "delete" => scope[r] = {}
        /\ pc[r] \in {"revoking", "resetRevoking"} => scope[r] \subseteq snap[r] \cup revoked
        /\ pc[r] = "revoked" => scope[r] \subseteq revoked

\* A reset that is to end session i has not begun its statement, or has seen i.
Ending(r, i) ==
    /\ user[r] = owner[i]
    /\ \/ pc[r] = "resetRevoke"
       \/ pc[r] = "resetRevoking" /\ i \in snap[r]

\* A live session from before a reset is one that the reset will end, unless a
\* reset of the account stopped half way.
DoomInv ==
    \A i \in doomed \cap Tokens!Live :
        owner[i] \in torn \/ \E r \in Requests : Ending(r, i)

IndInv == TypeOK /\ UserInv /\ LateInv /\ OwnerInv /\ ScopeInv /\ DoomInv

-----------------------------------------------------------------------------
\* A step keeps the types: whoever gets tokens has an account.
LEMMA TypeStep ==
    TypeOK /\ UserInv /\ [Next]_vars => TypeOK'
<1> SUFFICES ASSUME TypeOK, UserInv, [Next]_vars PROVE TypeOK'
  OBVIOUS
<1> USE ApiConstants DEF TypeOK, UserInv, PCs, Admitted, ForAccount, FamilyRows, UserRows,
       people, sessions, local, history
<1>1. ASSUME NEW u \in Users, Disable(u)
      PROVE  TypeOK'
  BY <1>1 DEF Disable
<1>2. ASSUME NEW r \in Requests, NEW u \in Users, HandleRegister(r, u)
      PROVE  TypeOK'
  BY <1>2 DEF HandleRegister, CreateUser, Begin, Call
<1>3. ASSUME NEW r \in Requests, NEW u \in Users, HandleLogin(r, u)
      PROVE  TypeOK'
  BY <1>3 DEF HandleLogin, Begin, Call
<1>4. ASSUME NEW r \in Requests, NEW u \in Users, HandlePasswordReset(r, u)
      PROVE  TypeOK'
  BY <1>4 DEF HandlePasswordReset, Begin, Call
<1>5. ASSUME NEW r \in Requests, NEW u \in Users, HandleOTPVerify(r, u)
      PROVE  TypeOK'
  BY <1>5 DEF HandleOTPVerify, Begin, Call
<1>6. ASSUME NEW r \in Requests, SetPasswordHash(r)
      PROVE  TypeOK'
  BY <1>6 DEF SetPasswordHash, GoTo
<1>7. ASSUME NEW r \in Requests, ResetRevoke(r)
      PROVE  TypeOK'
  BY <1>7 DEF ResetRevoke, Statement, RevokeAllForUser
<1>8. ASSUME NEW r \in Requests, DisabledRevoke(r)
      PROVE  TypeOK'
  BY <1>8 DEF DisabledRevoke, Statement, RevokeAllForUser
<1>9. ASSUME NEW r \in Requests, RevokeCommit(r)
      PROVE  TypeOK'
  BY <1>9 DEF RevokeCommit, Answer, Tokens!Revoke
<1>10. ASSUME NEW r \in Requests, DisabledCommit(r)
      PROVE  TypeOK'
  BY <1>10 DEF DisabledCommit, Return, Tokens!Revoke
<1>11. ASSUME NEW r \in Requests, OTPResolve(r)
      PROVE  TypeOK'
  <2>1. CASE Return(r)
    BY <1>11, <2>1 DEF OTPResolve, Return
  <2>2. CASE \E at \in {"createUser", "markVerified", "issue"} : GoTo(r, at)
    BY <1>11, <2>2 DEF OTPResolve, GoTo
  <2> QED
    BY <1>11, <2>1, <2>2 DEF OTPResolve
<1>12. ASSUME NEW r \in Requests, OTPCreateUser(r)
      PROVE  TypeOK'
  <2>1. CASE Return(r) /\ UNCHANGED people
    BY <1>12, <2>1 DEF OTPCreateUser, Return
  <2>2. CASE CreateUser(user[r], {}) /\ GoTo(r, "markVerified")
    BY <1>12, <2>2 DEF OTPCreateUser, CreateUser, GoTo
  <2> QED
    BY <1>12, <2>1, <2>2 DEF OTPCreateUser
<1>13. ASSUME NEW r \in Requests, OTPMarkVerified(r)
      PROVE  TypeOK'
  BY <1>13 DEF OTPMarkVerified, GoTo
<1>14. ASSUME NEW r \in Requests, OTPReload(r)
      PROVE  TypeOK'
  <2>1. CASE Return(r)
    BY <1>14, <2>1 DEF OTPReload, Return
  <2>2. CASE GoTo(r, "issue")
    BY <1>14, <2>2 DEF OTPReload, GoTo
  <2> QED
    BY <1>14, <2>1, <2>2 DEF OTPReload
<1>15. ASSUME NEW r \in Requests, RefreshLoadUser(r)
      PROVE  TypeOK'
  BY <1>15 DEF RefreshLoadUser, GoTo, Answer
<1>16. ASSUME NEW r \in Requests, LogoutRevoke(r)
      PROVE  TypeOK'
  BY <1>16 DEF LogoutRevoke, Statement, RevokeFamily
<1>17. ASSUME NEW r \in Requests, LogoutSkip(r)
      PROVE  TypeOK'
  BY <1>17 DEF LogoutSkip, Answer
<1>18. ASSUME NEW r \in Requests, LogoutAllRevoke(r)
      PROVE  TypeOK'
  BY <1>18 DEF LogoutAllRevoke, Statement, RevokeAllForUser
<1>19. ASSUME NEW r \in Requests, Fail(r)
      PROVE  TypeOK'
  BY <1>19 DEF Fail, Return
<1>20. ASSUME NEW r \in Requests, Respond(r)
      PROVE  TypeOK'
  BY <1>20 DEF Respond, Return
<1>21. ASSUME NEW r \in Requests, NEW i \in Ids, IssueSession(r, i)
      PROVE  TypeOK'
  <2>1. CASE Answer(r, "tokens") /\ held' = held \cup {i}
    BY <1>21, <2>1 DEF IssueSession, Answer, Tokens!Login, Tokens!Issue, Tokens!Issued
  <2>2. CASE Return(r) /\ UNCHANGED held
    BY <1>21, <2>2 DEF IssueSession, Return, Tokens!Login, Tokens!Issue, Tokens!Issued
  <2> QED
    BY <1>21, <2>1, <2>2 DEF IssueSession
<1>22. ASSUME NEW r \in Requests, NEW i \in known, NEW j \in Ids, HandleRefresh(r, i, j)
      PROVE  TypeOK'
  BY <1>22 DEF HandleRefresh, Call, Tokens!Refresh, Tokens!Issue, Tokens!Issued, Tokens!Live
<1>23. ASSUME NEW r \in Requests, NEW i \in known, HandleRefreshReuse(r, i)
      PROVE  TypeOK'
  BY <1>23 DEF HandleRefreshReuse, Call
<1>24. ASSUME NEW r \in Requests, NEW i \in known, Read(r, i)
      PROVE  TypeOK'
  BY <1>24 DEF Read, RequireUser, Call
<1>25. ASSUME NEW r \in Requests, NEW i \in known, HandleLogout(r, i)
      PROVE  TypeOK'
  BY <1>25 DEF HandleLogout, RequireUser, Call
<1>26. ASSUME NEW r \in Requests, NEW i \in known, HandleLogoutAll(r, i)
      PROVE  TypeOK'
  BY <1>26 DEF HandleLogoutAll, RequireUser, Call
<1>27. ASSUME NEW r \in Requests, NEW i \in known, HandleDelete(r, i)
      PROVE  TypeOK'
  BY <1>27 DEF HandleDelete, RequireUser, Call
<1>28. ASSUME NEW r \in Requests, NEW i \in known, DeleteSession(r, i)
      PROVE  TypeOK'
  <2>1. CASE Return(r)
    BY <1>28, <2>1 DEF DeleteSession, Return
  <2>2. CASE Statement(r, RevokeFamily(i), "revoking")
    BY <1>28, <2>2 DEF DeleteSession, Statement, RevokeFamily
  <2> QED
    BY <1>28, <2>1, <2>2 DEF DeleteSession
<1>29. CASE UNCHANGED vars
  BY <1>29 DEF vars
<1> QED
  BY ONLY <1>1, <1>2, <1>3, <1>4, <1>5, <1>6, <1>7, <1>8, <1>9, <1>10, <1>11, <1>12,
     <1>13, <1>14, <1>15, <1>16, <1>17, <1>18, <1>19, <1>20, <1>21, <1>22, <1>23, <1>24,
     <1>25, <1>26, <1>27, <1>28, <1>29, [Next]_vars DEF Next

\* A request keeps the account it acts for until it has answered.
LEMMA UserStep ==
    TypeOK /\ UserInv /\ [Next]_vars => UserInv'
<1> SUFFICES ASSUME TypeOK, UserInv, [Next]_vars PROVE UserInv'
  OBVIOUS
<1> USE ApiConstants DEF TypeOK, UserInv, Admitted, ForAccount, people, sessions,
       local, history
<1>1. ASSUME NEW u \in Users, Disable(u)
      PROVE  UserInv'
  BY <1>1 DEF Disable
<1>2. ASSUME NEW r \in Requests, NEW u \in Users, HandleRegister(r, u)
      PROVE  UserInv'
  BY <1>2 DEF HandleRegister, CreateUser, Begin, Call
<1>3. ASSUME NEW r \in Requests, NEW u \in Users, HandleLogin(r, u)
      PROVE  UserInv'
  BY <1>3 DEF HandleLogin, Begin, Call
<1>4. ASSUME NEW r \in Requests, NEW u \in Users, HandlePasswordReset(r, u)
      PROVE  UserInv'
  BY <1>4 DEF HandlePasswordReset, Begin, Call
<1>5. ASSUME NEW r \in Requests, NEW u \in Users, HandleOTPVerify(r, u)
      PROVE  UserInv'
  BY <1>5 DEF HandleOTPVerify, Begin, Call
<1>6. ASSUME NEW r \in Requests, SetPasswordHash(r)
      PROVE  UserInv'
  BY <1>6 DEF SetPasswordHash, GoTo
<1>7. ASSUME NEW r \in Requests, ResetRevoke(r)
      PROVE  UserInv'
  BY <1>7 DEF ResetRevoke, Statement, RevokeAllForUser
<1>8. ASSUME NEW r \in Requests, DisabledRevoke(r)
      PROVE  UserInv'
  BY <1>8 DEF DisabledRevoke, Statement, RevokeAllForUser
<1>9. ASSUME NEW r \in Requests, RevokeCommit(r)
      PROVE  UserInv'
  BY <1>9 DEF RevokeCommit, Answer, Tokens!Revoke
<1>10. ASSUME NEW r \in Requests, DisabledCommit(r)
      PROVE  UserInv'
  BY <1>10 DEF DisabledCommit, Return, Tokens!Revoke
<1>11. ASSUME NEW r \in Requests, OTPResolve(r)
      PROVE  UserInv'
  BY <1>11 DEF OTPResolve, GoTo, Return
<1>12. ASSUME NEW r \in Requests, OTPCreateUser(r)
      PROVE  UserInv'
  BY <1>12 DEF OTPCreateUser, CreateUser, GoTo, Return
<1>13. ASSUME NEW r \in Requests, OTPMarkVerified(r)
      PROVE  UserInv'
  BY <1>13 DEF OTPMarkVerified, GoTo
<1>14. ASSUME NEW r \in Requests, OTPReload(r)
      PROVE  UserInv'
  BY <1>14 DEF OTPReload, GoTo, Return
<1>15. ASSUME NEW r \in Requests, RefreshLoadUser(r)
      PROVE  UserInv'
  BY <1>15 DEF RefreshLoadUser, GoTo, Answer
<1>16. ASSUME NEW r \in Requests, LogoutRevoke(r)
      PROVE  UserInv'
  BY <1>16 DEF LogoutRevoke, Statement, RevokeFamily
<1>17. ASSUME NEW r \in Requests, LogoutSkip(r)
      PROVE  UserInv'
  BY <1>17 DEF LogoutSkip, Answer
<1>18. ASSUME NEW r \in Requests, LogoutAllRevoke(r)
      PROVE  UserInv'
  BY <1>18 DEF LogoutAllRevoke, Statement, RevokeAllForUser
<1>19. ASSUME NEW r \in Requests, Fail(r)
      PROVE  UserInv'
  BY <1>19 DEF Fail, Return
<1>20. ASSUME NEW r \in Requests, Respond(r)
      PROVE  UserInv'
  BY <1>20 DEF Respond, Return
<1>21. ASSUME NEW r \in Requests, NEW i \in Ids, IssueSession(r, i)
      PROVE  UserInv'
  BY <1>21 DEF IssueSession, Answer, Return, Tokens!Login, Tokens!Issue, Tokens!Issued
<1>22. ASSUME NEW r \in Requests, NEW i \in known, NEW j \in Ids, HandleRefresh(r, i, j)
      PROVE  UserInv'
  BY <1>22 DEF HandleRefresh, Call, Tokens!Refresh, Tokens!Issue, Tokens!Issued, Tokens!Live
<1>23. ASSUME NEW r \in Requests, NEW i \in known, HandleRefreshReuse(r, i)
      PROVE  UserInv'
  BY <1>23 DEF HandleRefreshReuse, Call
<1>24. ASSUME NEW r \in Requests, NEW i \in known, Read(r, i)
      PROVE  UserInv'
  BY <1>24 DEF Read, RequireUser, Call
<1>25. ASSUME NEW r \in Requests, NEW i \in known, HandleLogout(r, i)
      PROVE  UserInv'
  BY <1>25 DEF HandleLogout, RequireUser, Call
<1>26. ASSUME NEW r \in Requests, NEW i \in known, HandleLogoutAll(r, i)
      PROVE  UserInv'
  BY <1>26 DEF HandleLogoutAll, RequireUser, Call
<1>27. ASSUME NEW r \in Requests, NEW i \in known, HandleDelete(r, i)
      PROVE  UserInv'
  BY <1>27 DEF HandleDelete, RequireUser, Call
<1>28. ASSUME NEW r \in Requests, NEW i \in known, DeleteSession(r, i)
      PROVE  UserInv'
  BY <1>28 DEF DeleteSession, Statement, RevokeFamily, Return
<1>29. CASE UNCHANGED vars
  BY <1>29 DEF vars
<1> QED
  BY ONLY <1>1, <1>2, <1>3, <1>4, <1>5, <1>6, <1>7, <1>8, <1>9, <1>10, <1>11, <1>12,
     <1>13, <1>14, <1>15, <1>16, <1>17, <1>18, <1>19, <1>20, <1>21, <1>22, <1>23, <1>24,
     <1>25, <1>26, <1>27, <1>28, <1>29, [Next]_vars DEF Next

\* No step hands out tokens on a stale look at the account.
LEMMA LateStep ==
    TypeOK /\ UserInv /\ LateInv /\ [Next]_vars => LateInv'
<1> SUFFICES ASSUME TypeOK, UserInv, LateInv, [Next]_vars PROVE LateInv'
  OBVIOUS
<1> USE ApiConstants DEF TypeOK, UserInv, LateInv, Admitted, ForAccount, people, sessions,
       local, history
<1>1. ASSUME NEW u \in Users, Disable(u)
      PROVE  LateInv'
  BY <1>1 DEF Disable
<1>2. ASSUME NEW r \in Requests, NEW u \in Users, HandleRegister(r, u)
      PROVE  LateInv'
  BY <1>2 DEF HandleRegister, CreateUser, Begin, Call
<1>3. ASSUME NEW r \in Requests, NEW u \in Users, HandleLogin(r, u)
      PROVE  LateInv'
  BY <1>3 DEF HandleLogin, Begin, Call
<1>4. ASSUME NEW r \in Requests, NEW u \in Users, HandlePasswordReset(r, u)
      PROVE  LateInv'
  BY <1>4 DEF HandlePasswordReset, Begin, Call
<1>5. ASSUME NEW r \in Requests, NEW u \in Users, HandleOTPVerify(r, u)
      PROVE  LateInv'
  BY <1>5 DEF HandleOTPVerify, Begin, Call
<1>6. ASSUME NEW r \in Requests, SetPasswordHash(r)
      PROVE  LateInv'
  BY <1>6 DEF SetPasswordHash, GoTo
<1>7. ASSUME NEW r \in Requests, ResetRevoke(r)
      PROVE  LateInv'
  BY <1>7 DEF ResetRevoke, Statement, RevokeAllForUser
<1>8. ASSUME NEW r \in Requests, DisabledRevoke(r)
      PROVE  LateInv'
  BY <1>8 DEF DisabledRevoke, Statement, RevokeAllForUser
<1>9. ASSUME NEW r \in Requests, RevokeCommit(r)
      PROVE  LateInv'
  BY <1>9 DEF RevokeCommit, Answer, Tokens!Revoke
<1>10. ASSUME NEW r \in Requests, DisabledCommit(r)
      PROVE  LateInv'
  BY <1>10 DEF DisabledCommit, Return, Tokens!Revoke
<1>11. ASSUME NEW r \in Requests, OTPResolve(r)
      PROVE  LateInv'
  BY <1>11 DEF OTPResolve, GoTo, Return
<1>12. ASSUME NEW r \in Requests, OTPCreateUser(r)
      PROVE  LateInv'
  BY <1>12 DEF OTPCreateUser, CreateUser, GoTo, Return
<1>13. ASSUME NEW r \in Requests, OTPMarkVerified(r)
      PROVE  LateInv'
  BY <1>13 DEF OTPMarkVerified, GoTo
<1>14. ASSUME NEW r \in Requests, OTPReload(r)
      PROVE  LateInv'
  BY <1>14 DEF OTPReload, GoTo, Return
<1>15. ASSUME NEW r \in Requests, RefreshLoadUser(r)
      PROVE  LateInv'
  BY <1>15 DEF RefreshLoadUser, GoTo, Answer
<1>16. ASSUME NEW r \in Requests, LogoutRevoke(r)
      PROVE  LateInv'
  BY <1>16 DEF LogoutRevoke, Statement, RevokeFamily
<1>17. ASSUME NEW r \in Requests, LogoutSkip(r)
      PROVE  LateInv'
  BY <1>17 DEF LogoutSkip, Answer
<1>18. ASSUME NEW r \in Requests, LogoutAllRevoke(r)
      PROVE  LateInv'
  BY <1>18 DEF LogoutAllRevoke, Statement, RevokeAllForUser
<1>19. ASSUME NEW r \in Requests, Fail(r)
      PROVE  LateInv'
  BY <1>19 DEF Fail, Return
<1>20. ASSUME NEW r \in Requests, Respond(r)
      PROVE  LateInv'
  BY <1>20 DEF Respond, Return
<1>21. ASSUME NEW r \in Requests, NEW i \in Ids, IssueSession(r, i)
      PROVE  LateInv'
  BY <1>21 DEF IssueSession, Answer, Return, Tokens!Login, Tokens!Issue, Tokens!Issued
<1>22. ASSUME NEW r \in Requests, NEW i \in known, NEW j \in Ids, HandleRefresh(r, i, j)
      PROVE  LateInv'
  BY <1>22 DEF HandleRefresh, Call, Tokens!Refresh, Tokens!Issue, Tokens!Issued, Tokens!Live
<1>23. ASSUME NEW r \in Requests, NEW i \in known, HandleRefreshReuse(r, i)
      PROVE  LateInv'
  BY <1>23 DEF HandleRefreshReuse, Call
<1>24. ASSUME NEW r \in Requests, NEW i \in known, Read(r, i)
      PROVE  LateInv'
  BY <1>24 DEF Read, RequireUser, Call
<1>25. ASSUME NEW r \in Requests, NEW i \in known, HandleLogout(r, i)
      PROVE  LateInv'
  BY <1>25 DEF HandleLogout, RequireUser, Call
<1>26. ASSUME NEW r \in Requests, NEW i \in known, HandleLogoutAll(r, i)
      PROVE  LateInv'
  BY <1>26 DEF HandleLogoutAll, RequireUser, Call
<1>27. ASSUME NEW r \in Requests, NEW i \in known, HandleDelete(r, i)
      PROVE  LateInv'
  BY <1>27 DEF HandleDelete, RequireUser, Call
<1>28. ASSUME NEW r \in Requests, NEW i \in known, DeleteSession(r, i)
      PROVE  LateInv'
  BY <1>28 DEF DeleteSession, Statement, RevokeFamily, Return
<1>29. CASE UNCHANGED vars
  BY <1>29 DEF vars
<1> QED
  BY ONLY <1>1, <1>2, <1>3, <1>4, <1>5, <1>6, <1>7, <1>8, <1>9, <1>10, <1>11, <1>12,
     <1>13, <1>14, <1>15, <1>16, <1>17, <1>18, <1>19, <1>20, <1>21, <1>22, <1>23, <1>24,
     <1>25, <1>26, <1>27, <1>28, <1>29, [Next]_vars DEF Next

\* A successor has its predecessor's owner, and a statement sees one account's rows.
LEMMA OwnerStep ==
    TypeOK /\ UserInv /\ OwnerInv /\ [Next]_vars => OwnerInv'
<1> SUFFICES ASSUME TypeOK, UserInv, OwnerInv, [Next]_vars PROVE OwnerInv'
  OBVIOUS
<1> USE ApiConstants DEF TypeOK, UserInv, OwnerInv, Admitted, ForAccount, FamilyRows, UserRows,
       people, sessions, local, history
<1>1. ASSUME NEW u \in Users, Disable(u)
      PROVE  OwnerInv'
  BY <1>1 DEF Disable
<1>2. ASSUME NEW r \in Requests, NEW u \in Users, HandleRegister(r, u)
      PROVE  OwnerInv'
  BY <1>2 DEF HandleRegister, CreateUser, Begin, Call
<1>3. ASSUME NEW r \in Requests, NEW u \in Users, HandleLogin(r, u)
      PROVE  OwnerInv'
  BY <1>3 DEF HandleLogin, Begin, Call
<1>4. ASSUME NEW r \in Requests, NEW u \in Users, HandlePasswordReset(r, u)
      PROVE  OwnerInv'
  BY <1>4 DEF HandlePasswordReset, Begin, Call
<1>5. ASSUME NEW r \in Requests, NEW u \in Users, HandleOTPVerify(r, u)
      PROVE  OwnerInv'
  BY <1>5 DEF HandleOTPVerify, Begin, Call
<1>6. ASSUME NEW r \in Requests, SetPasswordHash(r)
      PROVE  OwnerInv'
  BY <1>6 DEF SetPasswordHash, GoTo
<1>7. ASSUME NEW r \in Requests, ResetRevoke(r)
      PROVE  OwnerInv'
  BY <1>7 DEF ResetRevoke, Statement, RevokeAllForUser
<1>8. ASSUME NEW r \in Requests, DisabledRevoke(r)
      PROVE  OwnerInv'
  BY <1>8 DEF DisabledRevoke, Statement, RevokeAllForUser
<1>9. ASSUME NEW r \in Requests, RevokeCommit(r)
      PROVE  OwnerInv'
  BY <1>9 DEF RevokeCommit, Answer, Tokens!Revoke
<1>10. ASSUME NEW r \in Requests, DisabledCommit(r)
      PROVE  OwnerInv'
  BY <1>10 DEF DisabledCommit, Return, Tokens!Revoke
<1>11. ASSUME NEW r \in Requests, OTPResolve(r)
      PROVE  OwnerInv'
  BY <1>11 DEF OTPResolve, GoTo, Return
<1>12. ASSUME NEW r \in Requests, OTPCreateUser(r)
      PROVE  OwnerInv'
  BY <1>12 DEF OTPCreateUser, CreateUser, GoTo, Return
<1>13. ASSUME NEW r \in Requests, OTPMarkVerified(r)
      PROVE  OwnerInv'
  BY <1>13 DEF OTPMarkVerified, GoTo
<1>14. ASSUME NEW r \in Requests, OTPReload(r)
      PROVE  OwnerInv'
  BY <1>14 DEF OTPReload, GoTo, Return
<1>15. ASSUME NEW r \in Requests, RefreshLoadUser(r)
      PROVE  OwnerInv'
  BY <1>15 DEF RefreshLoadUser, GoTo, Answer
<1>16. ASSUME NEW r \in Requests, LogoutRevoke(r)
      PROVE  OwnerInv'
  BY <1>16 DEF LogoutRevoke, Statement, RevokeFamily
<1>17. ASSUME NEW r \in Requests, LogoutSkip(r)
      PROVE  OwnerInv'
  BY <1>17 DEF LogoutSkip, Answer
<1>18. ASSUME NEW r \in Requests, LogoutAllRevoke(r)
      PROVE  OwnerInv'
  BY <1>18 DEF LogoutAllRevoke, Statement, RevokeAllForUser
<1>19. ASSUME NEW r \in Requests, Fail(r)
      PROVE  OwnerInv'
  BY <1>19 DEF Fail, Return
<1>20. ASSUME NEW r \in Requests, Respond(r)
      PROVE  OwnerInv'
  BY <1>20 DEF Respond, Return
<1>21. ASSUME NEW r \in Requests, NEW i \in Ids, IssueSession(r, i)
      PROVE  OwnerInv'
  BY <1>21 DEF IssueSession, Answer, Return, Tokens!Login, Tokens!Issue, Tokens!Issued
<1>22. ASSUME NEW r \in Requests, NEW i \in known, NEW j \in Ids, HandleRefresh(r, i, j)
      PROVE  OwnerInv'
  BY <1>22 DEF HandleRefresh, Call, Tokens!Refresh, Tokens!Issue, Tokens!Issued, Tokens!Live
<1>23. ASSUME NEW r \in Requests, NEW i \in known, HandleRefreshReuse(r, i)
      PROVE  OwnerInv'
  BY <1>23 DEF HandleRefreshReuse, Call
<1>24. ASSUME NEW r \in Requests, NEW i \in known, Read(r, i)
      PROVE  OwnerInv'
  BY <1>24 DEF Read, RequireUser, Call
<1>25. ASSUME NEW r \in Requests, NEW i \in known, HandleLogout(r, i)
      PROVE  OwnerInv'
  BY <1>25 DEF HandleLogout, RequireUser, Call
<1>26. ASSUME NEW r \in Requests, NEW i \in known, HandleLogoutAll(r, i)
      PROVE  OwnerInv'
  BY <1>26 DEF HandleLogoutAll, RequireUser, Call
<1>27. ASSUME NEW r \in Requests, NEW i \in known, HandleDelete(r, i)
      PROVE  OwnerInv'
  BY <1>27 DEF HandleDelete, RequireUser, Call
<1>28. ASSUME NEW r \in Requests, NEW i \in known, DeleteSession(r, i)
      PROVE  OwnerInv'
  BY <1>28 DEF DeleteSession, Statement, RevokeFamily, Return
<1>29. CASE UNCHANGED vars
  BY <1>29 DEF vars
<1> QED
  BY ONLY <1>1, <1>2, <1>3, <1>4, <1>5, <1>6, <1>7, <1>8, <1>9, <1>10, <1>11, <1>12,
     <1>13, <1>14, <1>15, <1>16, <1>17, <1>18, <1>19, <1>20, <1>21, <1>22, <1>23, <1>24,
     <1>25, <1>26, <1>27, <1>28, <1>29, [Next]_vars DEF Next

\* What was promised is not forgotten on the way to the commit, whatever others add.
LEMMA ScopeStep ==
    TypeOK /\ UserInv /\ ScopeInv /\ [Next]_vars => ScopeInv'
<1> SUFFICES ASSUME TypeOK, UserInv, ScopeInv, [Next]_vars PROVE ScopeInv'
  OBVIOUS
<1> USE ApiConstants DEF TypeOK, UserInv, ScopeInv, Admitted, FamilyRows, UserRows,
       people, sessions, local, history
<1>1. ASSUME NEW u \in Users, Disable(u)
      PROVE  ScopeInv'
  BY <1>1 DEF Disable
<1>2. ASSUME NEW r \in Requests, NEW u \in Users, HandleRegister(r, u)
      PROVE  ScopeInv'
  BY <1>2 DEF HandleRegister, CreateUser, Begin, Call
<1>3. ASSUME NEW r \in Requests, NEW u \in Users, HandleLogin(r, u)
      PROVE  ScopeInv'
  BY <1>3 DEF HandleLogin, Begin, Call
<1>4. ASSUME NEW r \in Requests, NEW u \in Users, HandlePasswordReset(r, u)
      PROVE  ScopeInv'
  BY <1>4 DEF HandlePasswordReset, Begin, Call
<1>5. ASSUME NEW r \in Requests, NEW u \in Users, HandleOTPVerify(r, u)
      PROVE  ScopeInv'
  BY <1>5 DEF HandleOTPVerify, Begin, Call
<1>6. ASSUME NEW r \in Requests, SetPasswordHash(r)
      PROVE  ScopeInv'
  BY <1>6 DEF SetPasswordHash, GoTo
<1>7. ASSUME NEW r \in Requests, ResetRevoke(r)
      PROVE  ScopeInv'
  BY <1>7 DEF ResetRevoke, Statement, RevokeAllForUser
<1>8. ASSUME NEW r \in Requests, DisabledRevoke(r)
      PROVE  ScopeInv'
  BY <1>8 DEF DisabledRevoke, Statement, RevokeAllForUser
<1>9. ASSUME NEW r \in Requests, RevokeCommit(r)
      PROVE  ScopeInv'
  BY <1>9 DEF RevokeCommit, Answer, Tokens!Revoke
<1>10. ASSUME NEW r \in Requests, DisabledCommit(r)
      PROVE  ScopeInv'
  BY <1>10 DEF DisabledCommit, Return, Tokens!Revoke
<1>11. ASSUME NEW r \in Requests, OTPResolve(r)
      PROVE  ScopeInv'
  BY <1>11 DEF OTPResolve, GoTo, Return
<1>12. ASSUME NEW r \in Requests, OTPCreateUser(r)
      PROVE  ScopeInv'
  BY <1>12 DEF OTPCreateUser, CreateUser, GoTo, Return
<1>13. ASSUME NEW r \in Requests, OTPMarkVerified(r)
      PROVE  ScopeInv'
  BY <1>13 DEF OTPMarkVerified, GoTo
<1>14. ASSUME NEW r \in Requests, OTPReload(r)
      PROVE  ScopeInv'
  BY <1>14 DEF OTPReload, GoTo, Return
<1>15. ASSUME NEW r \in Requests, RefreshLoadUser(r)
      PROVE  ScopeInv'
  BY <1>15 DEF RefreshLoadUser, GoTo, Answer
<1>16. ASSUME NEW r \in Requests, LogoutRevoke(r)
      PROVE  ScopeInv'
  BY <1>16 DEF LogoutRevoke, Statement, RevokeFamily
<1>17. ASSUME NEW r \in Requests, LogoutSkip(r)
      PROVE  ScopeInv'
  BY <1>17 DEF LogoutSkip, Answer
<1>18. ASSUME NEW r \in Requests, LogoutAllRevoke(r)
      PROVE  ScopeInv'
  BY <1>18 DEF LogoutAllRevoke, Statement, RevokeAllForUser
<1>19. ASSUME NEW r \in Requests, Fail(r)
      PROVE  ScopeInv'
  BY <1>19 DEF Fail, Return
<1>20. ASSUME NEW r \in Requests, Respond(r)
      PROVE  ScopeInv'
  BY <1>20 DEF Respond, Return
<1>21. ASSUME NEW r \in Requests, NEW i \in Ids, IssueSession(r, i)
      PROVE  ScopeInv'
  BY <1>21 DEF IssueSession, Answer, Return, Tokens!Login, Tokens!Issue, Tokens!Issued
<1>22. ASSUME NEW r \in Requests, NEW i \in known, NEW j \in Ids, HandleRefresh(r, i, j)
      PROVE  ScopeInv'
  BY <1>22 DEF HandleRefresh, Call, Tokens!Refresh, Tokens!Issue, Tokens!Issued, Tokens!Live
<1>23. ASSUME NEW r \in Requests, NEW i \in known, HandleRefreshReuse(r, i)
      PROVE  ScopeInv'
  BY <1>23 DEF HandleRefreshReuse, Call
<1>24. ASSUME NEW r \in Requests, NEW i \in known, Read(r, i)
      PROVE  ScopeInv'
  BY <1>24 DEF Read, RequireUser, Call
<1>25. ASSUME NEW r \in Requests, NEW i \in known, HandleLogout(r, i)
      PROVE  ScopeInv'
  BY <1>25 DEF HandleLogout, RequireUser, Call
<1>26. ASSUME NEW r \in Requests, NEW i \in known, HandleLogoutAll(r, i)
      PROVE  ScopeInv'
  BY <1>26 DEF HandleLogoutAll, RequireUser, Call
<1>27. ASSUME NEW r \in Requests, NEW i \in known, HandleDelete(r, i)
      PROVE  ScopeInv'
  BY <1>27 DEF HandleDelete, RequireUser, Call
<1>28. ASSUME NEW r \in Requests, NEW i \in known, DeleteSession(r, i)
      PROVE  ScopeInv'
  BY <1>28 DEF DeleteSession, Statement, RevokeFamily, Return
<1>29. CASE UNCHANGED vars
  BY <1>29 DEF vars
<1> QED
  BY ONLY <1>1, <1>2, <1>3, <1>4, <1>5, <1>6, <1>7, <1>8, <1>9, <1>10, <1>11, <1>12,
     <1>13, <1>14, <1>15, <1>16, <1>17, <1>18, <1>19, <1>20, <1>21, <1>22, <1>23, <1>24,
     <1>25, <1>26, <1>27, <1>28, <1>29, [Next]_vars DEF Next

\* No step lets a session from before a reset out of the reset's sight.
LEMMA DoomStep ==
    TypeOK /\ UserInv /\ DoomInv /\ [Next]_vars => DoomInv'
<1> SUFFICES ASSUME TypeOK, UserInv, DoomInv, [Next]_vars PROVE DoomInv'
  OBVIOUS
<1> USE ApiConstants DEF TypeOK, UserInv, DoomInv, Ending, Admitted, ForAccount, UserRows,
       Tokens!Live,
       people, sessions, local, history
<1>1. ASSUME NEW u \in Users, Disable(u)
      PROVE  DoomInv'
  BY <1>1 DEF Disable
<1>2. ASSUME NEW r \in Requests, NEW u \in Users, HandleRegister(r, u)
      PROVE  DoomInv'
  BY <1>2 DEF HandleRegister, CreateUser, Begin, Call
<1>3. ASSUME NEW r \in Requests, NEW u \in Users, HandleLogin(r, u)
      PROVE  DoomInv'
  BY <1>3 DEF HandleLogin, Begin, Call
<1>4. ASSUME NEW r \in Requests, NEW u \in Users, HandlePasswordReset(r, u)
      PROVE  DoomInv'
  BY <1>4 DEF HandlePasswordReset, Begin, Call
<1>5. ASSUME NEW r \in Requests, NEW u \in Users, HandleOTPVerify(r, u)
      PROVE  DoomInv'
  BY <1>5 DEF HandleOTPVerify, Begin, Call
<1>6. ASSUME NEW r \in Requests, SetPasswordHash(r)
      PROVE  DoomInv'
  BY <1>6 DEF SetPasswordHash, GoTo
<1>7. ASSUME NEW r \in Requests, ResetRevoke(r)
      PROVE  DoomInv'
  BY <1>7 DEF ResetRevoke, Statement, RevokeAllForUser
<1>8. ASSUME NEW r \in Requests, DisabledRevoke(r)
      PROVE  DoomInv'
  BY <1>8 DEF DisabledRevoke, Statement, RevokeAllForUser
<1>9. ASSUME NEW r \in Requests, RevokeCommit(r)
      PROVE  DoomInv'
  BY <1>9 DEF RevokeCommit, Answer, Tokens!Revoke
<1>10. ASSUME NEW r \in Requests, DisabledCommit(r)
      PROVE  DoomInv'
  BY <1>10 DEF DisabledCommit, Return, Tokens!Revoke
<1>11. ASSUME NEW r \in Requests, OTPResolve(r)
      PROVE  DoomInv'
  BY <1>11 DEF OTPResolve, GoTo, Return
<1>12. ASSUME NEW r \in Requests, OTPCreateUser(r)
      PROVE  DoomInv'
  BY <1>12 DEF OTPCreateUser, CreateUser, GoTo, Return
<1>13. ASSUME NEW r \in Requests, OTPMarkVerified(r)
      PROVE  DoomInv'
  BY <1>13 DEF OTPMarkVerified, GoTo
<1>14. ASSUME NEW r \in Requests, OTPReload(r)
      PROVE  DoomInv'
  BY <1>14 DEF OTPReload, GoTo, Return
<1>15. ASSUME NEW r \in Requests, RefreshLoadUser(r)
      PROVE  DoomInv'
  BY <1>15 DEF RefreshLoadUser, GoTo, Answer
<1>16. ASSUME NEW r \in Requests, LogoutRevoke(r)
      PROVE  DoomInv'
  BY <1>16 DEF LogoutRevoke, Statement, RevokeFamily
<1>17. ASSUME NEW r \in Requests, LogoutSkip(r)
      PROVE  DoomInv'
  BY <1>17 DEF LogoutSkip, Answer
<1>18. ASSUME NEW r \in Requests, LogoutAllRevoke(r)
      PROVE  DoomInv'
  BY <1>18 DEF LogoutAllRevoke, Statement, RevokeAllForUser
<1>19. ASSUME NEW r \in Requests, Fail(r)
      PROVE  DoomInv'
  BY <1>19 DEF Fail, Return
<1>20. ASSUME NEW r \in Requests, Respond(r)
      PROVE  DoomInv'
  BY <1>20 DEF Respond, Return
<1>21. ASSUME NEW r \in Requests, NEW i \in Ids, IssueSession(r, i)
      PROVE  DoomInv'
  <2>1. SUFFICES ASSUME NEW k \in doomed, k \in Tokens!Live, owner[k] \notin torn
                 PROVE  \E q \in Requests : Ending(q, k)'
    BY <1>21 DEF IssueSession, Tokens!Login, Tokens!Issue, Tokens!Issued
  <2>2. PICK q \in Requests : Ending(q, k)
    BY <2>1
  <2>3. owner'[k] = owner[k]
    BY <1>21 DEF IssueSession, Tokens!Login, Tokens!Issue, Tokens!Issued
  <2>4. q # r
    BY <1>21, <2>2 DEF IssueSession
  <2> QED
    BY <1>21, <2>2, <2>3, <2>4 DEF IssueSession, Answer, Return
<1>22. ASSUME NEW r \in Requests, NEW i \in known, NEW j \in Ids, HandleRefresh(r, i, j)
      PROVE  DoomInv'
  <2>1. /\ i \in Tokens!Live /\ j \in Ids \ known /\ pc[r] = "idle"
        /\ known' = known \cup {j} /\ spent' = spent \cup {i} /\ revoked' = revoked
        /\ torn' = torn
    BY <1>22 DEF HandleRefresh, Call, Tokens!Refresh, Tokens!Issue, Tokens!Issued
  <2>2. /\ owner'[j] = owner[i]
        /\ \A k \in known : owner'[k] = owner[k]
    BY <1>22 DEF HandleRefresh, Tokens!Refresh, Tokens!Issue, Tokens!Issued
  <2>3. \A q \in Requests, k \in known : Ending(q, k) => Ending(q, k)'
    BY <1>22, <2>1, <2>2 DEF HandleRefresh, Call
  <2> SUFFICES ASSUME NEW k \in doomed', k \in Tokens!Live', owner'[k] \notin torn
               PROVE  \E q \in Requests : Ending(q, k)'
    BY <2>1
  <2>4. CASE k = j
    <3>1. i \in doomed /\ ~\E q \in Requests : pc[q] = "resetRevoking" /\ i \in snap[q]
      BY <1>22, <2>1, <2>4 DEF HandleRefresh
    <3>2. PICK q \in Requests : user[q] = owner[i] /\ pc[q] = "resetRevoke"
      BY <2>1, <2>2, <2>4, <3>1
    <3> QED
      BY <1>22, <2>1, <2>2, <2>4, <3>2 DEF HandleRefresh, Call
  <2>5. CASE k # j
    <3>1. k \in doomed \cap Tokens!Live /\ owner[k] \notin torn
      BY <1>22, <2>1, <2>2, <2>5 DEF HandleRefresh
    <3> QED
      BY <2>3, <3>1
  <2> QED
    BY <2>4, <2>5
<1>23. ASSUME NEW r \in Requests, NEW i \in known, HandleRefreshReuse(r, i)
      PROVE  DoomInv'
  BY <1>23 DEF HandleRefreshReuse, Call
<1>24. ASSUME NEW r \in Requests, NEW i \in known, Read(r, i)
      PROVE  DoomInv'
  BY <1>24 DEF Read, RequireUser, Call
<1>25. ASSUME NEW r \in Requests, NEW i \in known, HandleLogout(r, i)
      PROVE  DoomInv'
  BY <1>25 DEF HandleLogout, RequireUser, Call
<1>26. ASSUME NEW r \in Requests, NEW i \in known, HandleLogoutAll(r, i)
      PROVE  DoomInv'
  BY <1>26 DEF HandleLogoutAll, RequireUser, Call
<1>27. ASSUME NEW r \in Requests, NEW i \in known, HandleDelete(r, i)
      PROVE  DoomInv'
  BY <1>27 DEF HandleDelete, RequireUser, Call
<1>28. ASSUME NEW r \in Requests, NEW i \in known, DeleteSession(r, i)
      PROVE  DoomInv'
  BY <1>28 DEF DeleteSession, Statement, RevokeFamily, Return
<1>29. CASE UNCHANGED vars
  BY <1>29 DEF vars
<1> QED
  BY ONLY <1>1, <1>2, <1>3, <1>4, <1>5, <1>6, <1>7, <1>8, <1>9, <1>10, <1>11, <1>12,
     <1>13, <1>14, <1>15, <1>16, <1>17, <1>18, <1>19, <1>20, <1>21, <1>22, <1>23, <1>24,
     <1>25, <1>26, <1>27, <1>28, <1>29, [Next]_vars DEF Next

-----------------------------------------------------------------------------
\* The invariant the handlers' properties rest on holds in every reachable
\* state.
THEOREM Invariance == Spec => []IndInv
<1>1. Init => IndInv
  <2> SUFFICES ASSUME Init PROVE IndInv
    OBVIOUS
  <2> USE DEF Init, Tokens!Init
  <2>1. TypeOK
    BY DEF TypeOK, PCs
  <2>2. UserInv /\ LateInv /\ ScopeInv
    BY DEF UserInv, ForAccount, Admitted, LateInv, ScopeInv
  <2>3. OwnerInv /\ DoomInv
    BY DEF OwnerInv, DoomInv
  <2> QED
    BY <2>1, <2>2, <2>3 DEF IndInv
<1>2. IndInv /\ [Next]_vars => IndInv'
  BY TypeStep, UserStep, LateStep, OwnerStep, ScopeStep, DoomStep DEF IndInv
<1> QED
  BY <1>1, <1>2, PTL DEF Spec

\* The variables keep their types; in particular whoever has tokens has an
\* account, although an OTP sign-in may begin without one (handleOTPVerify).
THEOREM TypeCorrect == Spec => []TypeOK
<1>1. IndInv => TypeOK
  BY DEF IndInv
<1> QED
  BY <1>1, Invariance, PTL

\* No request that came after its account was disabled gets tokens, however its
\* reads and writes interleave with others (handleLogin, handleOTPVerify,
\* handleRefresh).
THEOREM LateRefused == Spec => []LateIsRefused
<1>1. IndInv => LateIsRefused
  BY DEF IndInv, LateInv, LateIsRefused
<1> QED
  BY <1>1, Invariance, PTL

\* A logout, a reset or a detected reuse that has answered has revoked every row
\* it promised to (RevokeFamily, RevokeAllForUser).
THEOREM Revoked == Spec => []AnsweredIsRevoked
<1>1. IndInv => AnsweredIsRevoked
  BY DEF IndInv, ScopeInv, AnsweredIsRevoked
<1> QED
  BY <1>1, Invariance, PTL

\* A finished reset has ended every session from before it, except those it
\* could not: a reset that stopped, or a refresh that overtook its statement
\* (handlePasswordReset).
THEOREM ResetEnds == Spec => []ResetEndsSessions
<1>1. IndInv => ResetEndsSessions
  BY DEF IndInv, DoomInv, Ending, ResetEndsSessions
<1> QED
  BY <1>1, Invariance, PTL

\* A request revokes sessions of its own account only (handleLogout,
\* handleDeleteSession, handlePasswordReset, handleRefresh).
LEMMA RevokesOwn ==
    TypeOK /\ OwnerInv /\ [Next]_vars
        => \A i \in revoked' \ revoked : \E r \in Requests : i \in snap[r] /\ user[r] = owner[i]
<1> SUFFICES ASSUME OwnerInv, [Next]_vars, NEW i \in revoked', i \notin revoked
             PROVE  \E r \in Requests : i \in snap[r] /\ user[r] = owner[i]
  OBVIOUS
<1>1. ASSUME NEW r \in Requests, RevokeCommit(r) \/ DisabledCommit(r)
      PROVE  i \in snap[r] /\ user[r] = owner[i]
  BY <1>1 DEF RevokeCommit, DisabledCommit, Tokens!Revoke, OwnerInv
<1>2. ~(\E r \in Requests : RevokeCommit(r) \/ DisabledCommit(r)) => FALSE
  BY DEF Next, vars, sessions, Disable, HandleRegister, HandleLogin, HandlePasswordReset,
         HandleOTPVerify, SetPasswordHash, ResetRevoke, DisabledRevoke, OTPResolve,
         OTPCreateUser, OTPMarkVerified, OTPReload, RefreshLoadUser, LogoutRevoke, LogoutSkip,
         LogoutAllRevoke, Fail, Respond, IssueSession, HandleRefresh, HandleRefreshReuse, Read,
         HandleLogout, HandleLogoutAll, HandleDelete, RequireUser, DeleteSession,
         Tokens!Login, Tokens!Refresh
<1> QED
  BY <1>1, <1>2

\* The action property: nobody's request ends another's session.
THEOREM OwnOnly == Spec => OwnSessionsOnly
<1>1. IndInv /\ [Next]_vars
        => [\A i \in revoked' \ revoked :
              \E r \in Requests : i \in snap[r] /\ user[r] = owner[i]]_vars
  BY RevokesOwn DEF IndInv
<1> QED
  BY <1>1, Invariance, PTL DEF Spec, OwnSessionsOnly

\* The handlers use the session table only as RefreshTokens allows, so that what
\* is shown here of the abstract table holds over the one of SessionStore; in
\* particular what a statement has in hand is always one account's, which
\* Tokens!Revoke asks for (store.Rotate, RevokeFamily, RevokeAllForUser).
THEOREM UsesTokens == Spec => Tokens!Spec
<1>1. Init => Tokens!Init
  BY DEF Init
<1>2. IndInv /\ [Next]_vars => [Tokens!Next]_(Tokens!vars)
  <2> SUFFICES ASSUME IndInv, [Next]_vars, ~UNCHANGED sessions PROVE Tokens!Next
    BY DEF Tokens!vars, sessions
  <2>1. ASSUME NEW r \in Requests, RevokeCommit(r) \/ DisabledCommit(r)
        PROVE  Tokens!Next
    <3>1. snap[r] \in SUBSET known
      BY DEF IndInv, TypeOK
    <3> QED
      BY <2>1, <3>1 DEF RevokeCommit, DisabledCommit, Tokens!Next
  <2>2. ASSUME NEW r \in Requests, NEW i \in Ids, IssueSession(r, i)
        PROVE  Tokens!Next
    <3>1. user[r] \in Users
      BY <2>2 DEF IndInv, TypeOK, UserInv, IssueSession, ForAccount
    <3> QED
      BY <2>2, <3>1 DEF IssueSession, Tokens!Next
  <2>3. ASSUME NEW r \in Requests, NEW i \in known, NEW j \in Ids, HandleRefresh(r, i, j)
        PROVE  Tokens!Next
    <3>1. i \in Ids
      BY <2>3 DEF IndInv, TypeOK
    <3> QED
      BY <2>3, <3>1 DEF HandleRefresh, Tokens!Next
  <2>4. \/ \E r \in Requests : RevokeCommit(r) \/ DisabledCommit(r)
        \/ \E r \in Requests, i \in Ids : IssueSession(r, i)
        \/ \E r \in Requests, i \in known, j \in Ids : HandleRefresh(r, i, j)
    BY DEF Next, vars, Disable, HandleRegister, HandleLogin, HandlePasswordReset,
           HandleOTPVerify, SetPasswordHash, ResetRevoke, DisabledRevoke, OTPResolve,
           OTPCreateUser, OTPMarkVerified, OTPReload, RefreshLoadUser, LogoutRevoke, LogoutSkip,
           LogoutAllRevoke, Fail, Respond, HandleRefreshReuse, Read,
           HandleLogout, HandleLogoutAll, HandleDelete, RequireUser, DeleteSession
  <2> QED
    BY <2>1, <2>2, <2>3, <2>4
<1> QED
  BY <1>1, <1>2, Invariance, PTL DEF Spec, Tokens!Spec
=============================================================================
