------------------------- MODULE SessionStoreProofs -------------------------
(***************************************************************************)
(* Proofs about SessionStore, for any number of workers, sessions and      *)
(* users, any lifetime and grace period.                                   *)
(*                                                                         *)
(* One lemma per conjunct of the inductive invariant says that a step      *)
(* preserves it, action by action; the theorems put them together.         *)
(***************************************************************************)
EXTENDS SessionStore, TLAPS

\* A step keeps the types and leaves no lock behind.
LEMMA TypeStep ==
    TypeOK /\ [Next]_vars => TypeOK'
<1> SUFFICES ASSUME TypeOK, [Next]_vars PROVE TypeOK'
  OBVIOUS
<1> USE ConstantsAssumption DEF TypeOK, PCs, Waiting, Scans, Outcomes, table, columns, local
<1>1. ASSUME NEW w \in Workers, NEW u \in Users, NEW i \in Ids, CreateSession(w, u, i)
      PROVE  TypeOK'
  BY <1>1 DEF CreateSession, Call, insertSession
<1>2. ASSUME NEW w \in Workers, NEW i \in Ids, RotateCall(w, i)
      PROVE  TypeOK'
  BY <1>2 DEF RotateCall, Call, FamilyRows
<1>3. ASSUME NEW w \in Workers, NEW i \in Ids, RevokeByTokenCall(w, i)
      PROVE  TypeOK'
  BY <1>3 DEF RevokeByTokenCall, Call, FamilyRows
<1>4. ASSUME NEW w \in Workers, NEW u \in Users, RevokeAllForUser(w, u)
      PROVE  TypeOK'
  BY <1>4 DEF RevokeAllForUser, Call, UserRows
<1>5. ASSUME NEW w \in Workers, PruneSessions(w)
      PROVE  TypeOK'
  BY <1>5 DEF PruneSessions, Call, StaleRows
<1>6. ASSUME NEW w \in Workers, RotateNoRow(w)
      PROVE  TypeOK'
  BY <1>6 DEF RotateNoRow, Finish
<1>7. ASSUME NEW w \in Workers, RotateReuse(w)
      PROVE  TypeOK'
  BY <1>7 DEF RotateReuse, Free
<1>8. ASSUME NEW w \in Workers, RotateReject(w)
      PROVE  TypeOK'
  BY <1>8 DEF RotateReject, Finish
<1>9. ASSUME NEW w \in Workers, NEW i \in Ids, RotateSpend(w, i)
      PROVE  TypeOK'
  BY <1>9 DEF RotateSpend, insertSession, Free
<1>10. ASSUME NEW w \in Workers, RotateCommit(w)
      PROVE  TypeOK'
  BY <1>10 DEF RotateCommit, Finish
<1>11. ASSUME NEW w \in Workers, RevokeByTokenNoRow(w)
      PROVE  TypeOK'
  BY <1>11 DEF RevokeByTokenNoRow, Finish
<1>12. ASSUME NEW w \in Workers, RevokeByTokenFound(w)
      PROVE  TypeOK'
  BY <1>12 DEF RevokeByTokenFound
<1>13. ASSUME NEW w \in Workers, StatementBegin(w, "reuse", "scanReuse")
      PROVE  TypeOK'
  BY <1>13 DEF StatementBegin, FamilyRows
<1>14. ASSUME NEW w \in Workers, StatementBegin(w, "revokeFamily", "scanFamily")
      PROVE  TypeOK'
  BY <1>14 DEF StatementBegin, FamilyRows
<1>15. ASSUME NEW w \in Workers, NEW i \in Ids, StatementVisit(w, i)
      PROVE  TypeOK'
  BY <1>15 DEF StatementVisit, StillMatches, Free
<1>16. ASSUME NEW w \in Workers, RevokeCommit(w)
      PROVE  TypeOK'
  BY <1>16 DEF RevokeCommit, Finish
<1>17. ASSUME NEW w \in Workers, PruneCommit(w)
      PROVE  TypeOK'
  BY <1>17 DEF PruneCommit, Finish
<1>18. ASSUME NEW w \in Workers, Abort(w)
      PROVE  TypeOK'
  BY <1>18 DEF Abort, Finish
<1>19. ASSUME NEW w \in Workers, Return(w)
      PROVE  TypeOK'
  BY <1>19 DEF Return
<1>20. CASE Tick
  BY <1>20 DEF Tick
<1>21. CASE UNCHANGED vars
  BY <1>21 DEF vars
<1> QED
  BY ONLY <1>1, <1>2, <1>3, <1>4, <1>5, <1>6, <1>7, <1>8, <1>9, <1>10, <1>11,
     <1>12, <1>13, <1>14, <1>15, <1>16, <1>17, <1>18, <1>19, <1>20, <1>21,
     [Next]_vars DEF Next, Step

\* A step never gives two transactions a lock on one row.
LEMMA LockStep ==
    TypeOK /\ LockInv /\ [Next]_vars => LockInv'
<1> SUFFICES ASSUME TypeOK, LockInv, [Next]_vars PROVE LockInv'
  OBVIOUS
<1> USE DEF LockInv, TypeOK, PCs, Waiting, Scans, Outcomes, table, columns, local
<1>1. ASSUME NEW w \in Workers, NEW u \in Users, NEW i \in Ids, CreateSession(w, u, i)
      PROVE  LockInv'
  BY <1>1 DEF CreateSession, Call, insertSession
<1>2. ASSUME NEW w \in Workers, NEW i \in Ids, RotateCall(w, i)
      PROVE  LockInv'
  BY <1>2 DEF RotateCall, Call, FamilyRows
<1>3. ASSUME NEW w \in Workers, NEW i \in Ids, RevokeByTokenCall(w, i)
      PROVE  LockInv'
  BY <1>3 DEF RevokeByTokenCall, Call, FamilyRows
<1>4. ASSUME NEW w \in Workers, NEW u \in Users, RevokeAllForUser(w, u)
      PROVE  LockInv'
  BY <1>4 DEF RevokeAllForUser, Call, UserRows
<1>5. ASSUME NEW w \in Workers, PruneSessions(w)
      PROVE  LockInv'
  BY <1>5 DEF PruneSessions, Call, StaleRows
<1>6. ASSUME NEW w \in Workers, RotateNoRow(w)
      PROVE  LockInv'
  BY <1>6 DEF RotateNoRow, Finish
<1>7. ASSUME NEW w \in Workers, RotateReuse(w)
      PROVE  LockInv'
  BY <1>7 DEF RotateReuse, Free
<1>8. ASSUME NEW w \in Workers, RotateReject(w)
      PROVE  LockInv'
  BY <1>8 DEF RotateReject, Finish
<1>9. ASSUME NEW w \in Workers, NEW i \in Ids, RotateSpend(w, i)
      PROVE  LockInv'
  BY <1>9 DEF RotateSpend, insertSession, Free
<1>10. ASSUME NEW w \in Workers, RotateCommit(w)
      PROVE  LockInv'
  BY <1>10 DEF RotateCommit, Finish
<1>11. ASSUME NEW w \in Workers, RevokeByTokenNoRow(w)
      PROVE  LockInv'
  BY <1>11 DEF RevokeByTokenNoRow, Finish
<1>12. ASSUME NEW w \in Workers, RevokeByTokenFound(w)
      PROVE  LockInv'
  BY <1>12 DEF RevokeByTokenFound
<1>13. ASSUME NEW w \in Workers, StatementBegin(w, "reuse", "scanReuse")
      PROVE  LockInv'
  BY <1>13 DEF StatementBegin, FamilyRows
<1>14. ASSUME NEW w \in Workers, StatementBegin(w, "revokeFamily", "scanFamily")
      PROVE  LockInv'
  BY <1>14 DEF StatementBegin, FamilyRows
<1>15. ASSUME NEW w \in Workers, NEW i \in Ids, StatementVisit(w, i)
      PROVE  LockInv'
  BY <1>15 DEF StatementVisit, StillMatches, Free
<1>16. ASSUME NEW w \in Workers, RevokeCommit(w)
      PROVE  LockInv'
  BY <1>16 DEF RevokeCommit, Finish
<1>17. ASSUME NEW w \in Workers, PruneCommit(w)
      PROVE  LockInv'
  BY <1>17 DEF PruneCommit, Finish
<1>18. ASSUME NEW w \in Workers, Abort(w)
      PROVE  LockInv'
  BY <1>18 DEF Abort, Finish
<1>19. ASSUME NEW w \in Workers, Return(w)
      PROVE  LockInv'
  BY <1>19 DEF Return
<1>20. CASE Tick
  BY <1>20 DEF Tick
<1>21. CASE UNCHANGED vars
  BY <1>21 DEF vars
<1> QED
  BY ONLY <1>1, <1>2, <1>3, <1>4, <1>5, <1>6, <1>7, <1>8, <1>9, <1>10, <1>11,
     <1>12, <1>13, <1>14, <1>15, <1>16, <1>17, <1>18, <1>19, <1>20, <1>21,
     [Next]_vars DEF Next, Step

\* While a rotation is between its SELECT ... FOR UPDATE and its COMMIT, no step
\* of another transaction spends, revokes or deletes the row it holds.
LEMMA RotationStep ==
    TypeOK /\ LockInv /\ RotationInv /\ [Next]_vars => RotationInv'
<1> SUFFICES ASSUME TypeOK, LockInv, RotationInv, [Next]_vars PROVE RotationInv'
  OBVIOUS
<1> USE DEF LockInv, RotationInv, RotationReady, TypeOK, PCs, Waiting, Scans, Outcomes, table, columns, local
<1>1. ASSUME NEW w \in Workers, NEW u \in Users, NEW i \in Ids, CreateSession(w, u, i)
      PROVE  RotationInv'
  BY <1>1 DEF CreateSession, Call, insertSession
<1>2. ASSUME NEW w \in Workers, NEW i \in Ids, RotateCall(w, i)
      PROVE  RotationInv'
  BY <1>2 DEF RotateCall, Call, FamilyRows
<1>3. ASSUME NEW w \in Workers, NEW i \in Ids, RevokeByTokenCall(w, i)
      PROVE  RotationInv'
  BY <1>3 DEF RevokeByTokenCall, Call, FamilyRows
<1>4. ASSUME NEW w \in Workers, NEW u \in Users, RevokeAllForUser(w, u)
      PROVE  RotationInv'
  BY <1>4 DEF RevokeAllForUser, Call, UserRows
<1>5. ASSUME NEW w \in Workers, PruneSessions(w)
      PROVE  RotationInv'
  BY <1>5 DEF PruneSessions, Call, StaleRows
<1>6. ASSUME NEW w \in Workers, RotateNoRow(w)
      PROVE  RotationInv'
  BY <1>6 DEF RotateNoRow, Finish
<1>7. ASSUME NEW w \in Workers, RotateReuse(w)
      PROVE  RotationInv'
  BY <1>7 DEF RotateReuse, Free
<1>8. ASSUME NEW w \in Workers, RotateReject(w)
      PROVE  RotationInv'
  BY <1>8 DEF RotateReject, Finish
<1>9. ASSUME NEW w \in Workers, NEW i \in Ids, RotateSpend(w, i)
      PROVE  RotationInv'
  BY <1>9 DEF RotateSpend, insertSession, Free
<1>10. ASSUME NEW w \in Workers, RotateCommit(w)
      PROVE  RotationInv'
  <2> SUFFICES ASSUME NEW v \in Workers, pc'[v] = "commit"
               PROVE  RotationReady(v)'
    BY DEF RotationInv
  <2>1. v # w /\ pc[v] = "commit" /\ pc[w] = "commit"
    BY <1>10 DEF RotateCommit, Finish
  <2>2. key[v] # key[w] /\ child[v] # child[w]
    <3>1. key[v] \in locks[v] /\ key[w] \in locks[w]
      BY <2>1
    <3>2. key[w] \notin locks[v]
      BY <2>1, <3>1
    <3> QED
      BY <2>1, <3>1, <3>2
  <2>3. locks'[v] = locks[v] /\ child'[v] = child[v] /\ key'[v] = key[v]
    BY <1>10, <2>1 DEF RotateCommit, Finish
  <2> QED
    BY <1>10, <2>1, <2>2, <2>3 DEF RotateCommit, Finish
<1>11. ASSUME NEW w \in Workers, RevokeByTokenNoRow(w)
      PROVE  RotationInv'
  BY <1>11 DEF RevokeByTokenNoRow, Finish
<1>12. ASSUME NEW w \in Workers, RevokeByTokenFound(w)
      PROVE  RotationInv'
  BY <1>12 DEF RevokeByTokenFound
<1>13. ASSUME NEW w \in Workers, StatementBegin(w, "reuse", "scanReuse")
      PROVE  RotationInv'
  BY <1>13 DEF StatementBegin, FamilyRows
<1>14. ASSUME NEW w \in Workers, StatementBegin(w, "revokeFamily", "scanFamily")
      PROVE  RotationInv'
  BY <1>14 DEF StatementBegin, FamilyRows
<1>15. ASSUME NEW w \in Workers, NEW i \in Ids, StatementVisit(w, i)
      PROVE  RotationInv'
  BY <1>15 DEF StatementVisit, StillMatches, Free
<1>16. ASSUME NEW w \in Workers, RevokeCommit(w)
      PROVE  RotationInv'
  BY <1>16 DEF RevokeCommit, Finish
<1>17. ASSUME NEW w \in Workers, PruneCommit(w)
      PROVE  RotationInv'
  BY <1>17 DEF PruneCommit, Finish
<1>18. ASSUME NEW w \in Workers, Abort(w)
      PROVE  RotationInv'
  BY <1>18 DEF Abort, Finish
<1>19. ASSUME NEW w \in Workers, Return(w)
      PROVE  RotationInv'
  BY <1>19 DEF Return
<1>20. CASE Tick
  BY <1>20 DEF Tick
<1>21. CASE UNCHANGED vars
  BY <1>21 DEF vars
<1> QED
  BY ONLY <1>1, <1>2, <1>3, <1>4, <1>5, <1>6, <1>7, <1>8, <1>9, <1>10, <1>11,
     <1>12, <1>13, <1>14, <1>15, <1>16, <1>17, <1>18, <1>19, <1>20, <1>21,
     [Next]_vars DEF Next, Step

\* A step keeps a family a chain: a parent is spent, one row at most is not.
LEMMA LineageStep ==
    TypeOK /\ RotationInv /\ LineageInv /\ [Next]_vars => LineageInv'
<1> SUFFICES ASSUME TypeOK, RotationInv, LineageInv, [Next]_vars PROVE LineageInv'
  OBVIOUS
<1> USE ConstantsAssumption DEF RotationInv, RotationReady, LineageInv, TypeOK, PCs, Waiting, Scans, Outcomes, table, columns, local
<1>1. ASSUME NEW w \in Workers, NEW u \in Users, NEW i \in Ids, CreateSession(w, u, i)
      PROVE  LineageInv'
  BY <1>1 DEF CreateSession, Call, insertSession
<1>2. ASSUME NEW w \in Workers, NEW i \in Ids, RotateCall(w, i)
      PROVE  LineageInv'
  BY <1>2 DEF RotateCall, Call, FamilyRows
<1>3. ASSUME NEW w \in Workers, NEW i \in Ids, RevokeByTokenCall(w, i)
      PROVE  LineageInv'
  BY <1>3 DEF RevokeByTokenCall, Call, FamilyRows
<1>4. ASSUME NEW w \in Workers, NEW u \in Users, RevokeAllForUser(w, u)
      PROVE  LineageInv'
  BY <1>4 DEF RevokeAllForUser, Call, UserRows
<1>5. ASSUME NEW w \in Workers, PruneSessions(w)
      PROVE  LineageInv'
  BY <1>5 DEF PruneSessions, Call, StaleRows
<1>6. ASSUME NEW w \in Workers, RotateNoRow(w)
      PROVE  LineageInv'
  BY <1>6 DEF RotateNoRow, Finish
<1>7. ASSUME NEW w \in Workers, RotateReuse(w)
      PROVE  LineageInv'
  BY <1>7 DEF RotateReuse, Free
<1>8. ASSUME NEW w \in Workers, RotateReject(w)
      PROVE  LineageInv'
  BY <1>8 DEF RotateReject, Finish
<1>9. ASSUME NEW w \in Workers, NEW i \in Ids, RotateSpend(w, i)
      PROVE  LineageInv'
  BY <1>9 DEF RotateSpend, insertSession, Free
<1>10. ASSUME NEW w \in Workers, RotateCommit(w)
      PROVE  LineageInv'
  BY <1>10 DEF RotateCommit, Finish
<1>11. ASSUME NEW w \in Workers, RevokeByTokenNoRow(w)
      PROVE  LineageInv'
  BY <1>11 DEF RevokeByTokenNoRow, Finish
<1>12. ASSUME NEW w \in Workers, RevokeByTokenFound(w)
      PROVE  LineageInv'
  BY <1>12 DEF RevokeByTokenFound
<1>13. ASSUME NEW w \in Workers, StatementBegin(w, "reuse", "scanReuse")
      PROVE  LineageInv'
  BY <1>13 DEF StatementBegin, FamilyRows
<1>14. ASSUME NEW w \in Workers, StatementBegin(w, "revokeFamily", "scanFamily")
      PROVE  LineageInv'
  BY <1>14 DEF StatementBegin, FamilyRows
<1>15. ASSUME NEW w \in Workers, NEW i \in Ids, StatementVisit(w, i)
      PROVE  LineageInv'
  BY <1>15 DEF StatementVisit, StillMatches, Free
<1>16. ASSUME NEW w \in Workers, RevokeCommit(w)
      PROVE  LineageInv'
  BY <1>16 DEF RevokeCommit, Finish
<1>17. ASSUME NEW w \in Workers, PruneCommit(w)
      PROVE  LineageInv'
  BY <1>17 DEF PruneCommit, Finish
<1>18. ASSUME NEW w \in Workers, Abort(w)
      PROVE  LineageInv'
  BY <1>18 DEF Abort, Finish
<1>19. ASSUME NEW w \in Workers, Return(w)
      PROVE  LineageInv'
  BY <1>19 DEF Return
<1>20. CASE Tick
  BY <1>20 DEF Tick
<1>21. CASE UNCHANGED vars
  BY <1>21 DEF vars
<1> QED
  BY ONLY <1>1, <1>2, <1>3, <1>4, <1>5, <1>6, <1>7, <1>8, <1>9, <1>10, <1>11,
     <1>12, <1>13, <1>14, <1>15, <1>16, <1>17, <1>18, <1>19, <1>20, <1>21,
     [Next]_vars DEF Next, Step

\* A commit adds the first child of its parent, nothing else adds a child.
LEMMA SingleStep ==
    TypeOK /\ RotationInv /\ LineageInv /\ SingleRotation /\ [Next]_vars => SingleRotation'
<1> SUFFICES ASSUME TypeOK, RotationInv, LineageInv, SingleRotation, [Next]_vars PROVE SingleRotation'
  OBVIOUS
<1> USE ConstantsAssumption DEF RotationInv, RotationReady, LineageInv, SingleRotation, TypeOK, PCs, Waiting, Scans, Outcomes, table, columns, local
<1>1. ASSUME NEW w \in Workers, NEW u \in Users, NEW i \in Ids, CreateSession(w, u, i)
      PROVE  SingleRotation'
  BY <1>1 DEF CreateSession, Call, insertSession
<1>2. ASSUME NEW w \in Workers, NEW i \in Ids, RotateCall(w, i)
      PROVE  SingleRotation'
  BY <1>2 DEF RotateCall, Call, FamilyRows
<1>3. ASSUME NEW w \in Workers, NEW i \in Ids, RevokeByTokenCall(w, i)
      PROVE  SingleRotation'
  BY <1>3 DEF RevokeByTokenCall, Call, FamilyRows
<1>4. ASSUME NEW w \in Workers, NEW u \in Users, RevokeAllForUser(w, u)
      PROVE  SingleRotation'
  BY <1>4 DEF RevokeAllForUser, Call, UserRows
<1>5. ASSUME NEW w \in Workers, PruneSessions(w)
      PROVE  SingleRotation'
  BY <1>5 DEF PruneSessions, Call, StaleRows
<1>6. ASSUME NEW w \in Workers, RotateNoRow(w)
      PROVE  SingleRotation'
  BY <1>6 DEF RotateNoRow, Finish
<1>7. ASSUME NEW w \in Workers, RotateReuse(w)
      PROVE  SingleRotation'
  BY <1>7 DEF RotateReuse, Free
<1>8. ASSUME NEW w \in Workers, RotateReject(w)
      PROVE  SingleRotation'
  BY <1>8 DEF RotateReject, Finish
<1>9. ASSUME NEW w \in Workers, NEW i \in Ids, RotateSpend(w, i)
      PROVE  SingleRotation'
  BY <1>9 DEF RotateSpend, insertSession, Free
<1>10. ASSUME NEW w \in Workers, RotateCommit(w)
      PROVE  SingleRotation'
  BY <1>10 DEF RotateCommit, Finish
<1>11. ASSUME NEW w \in Workers, RevokeByTokenNoRow(w)
      PROVE  SingleRotation'
  BY <1>11 DEF RevokeByTokenNoRow, Finish
<1>12. ASSUME NEW w \in Workers, RevokeByTokenFound(w)
      PROVE  SingleRotation'
  BY <1>12 DEF RevokeByTokenFound
<1>13. ASSUME NEW w \in Workers, StatementBegin(w, "reuse", "scanReuse")
      PROVE  SingleRotation'
  BY <1>13 DEF StatementBegin, FamilyRows
<1>14. ASSUME NEW w \in Workers, StatementBegin(w, "revokeFamily", "scanFamily")
      PROVE  SingleRotation'
  BY <1>14 DEF StatementBegin, FamilyRows
<1>15. ASSUME NEW w \in Workers, NEW i \in Ids, StatementVisit(w, i)
      PROVE  SingleRotation'
  BY <1>15 DEF StatementVisit, StillMatches, Free
<1>16. ASSUME NEW w \in Workers, RevokeCommit(w)
      PROVE  SingleRotation'
  BY <1>16 DEF RevokeCommit, Finish
<1>17. ASSUME NEW w \in Workers, PruneCommit(w)
      PROVE  SingleRotation'
  BY <1>17 DEF PruneCommit, Finish
<1>18. ASSUME NEW w \in Workers, Abort(w)
      PROVE  SingleRotation'
  BY <1>18 DEF Abort, Finish
<1>19. ASSUME NEW w \in Workers, Return(w)
      PROVE  SingleRotation'
  BY <1>19 DEF Return
<1>20. CASE Tick
  BY <1>20 DEF Tick
<1>21. CASE UNCHANGED vars
  BY <1>21 DEF vars
<1> QED
  BY ONLY <1>1, <1>2, <1>3, <1>4, <1>5, <1>6, <1>7, <1>8, <1>9, <1>10, <1>11,
     <1>12, <1>13, <1>14, <1>15, <1>16, <1>17, <1>18, <1>19, <1>20, <1>21,
     [Next]_vars DEF Next, Step

\* A step loses no row that a revocation in progress answers for.
LEMMA ScopeStep ==
    TypeOK /\ RotationInv /\ LineageInv /\ ScopeInv /\ [Next]_vars => ScopeInv'
<1> SUFFICES ASSUME TypeOK, RotationInv, LineageInv, ScopeInv, [Next]_vars PROVE ScopeInv'
  OBVIOUS
<1> USE DEF RotationInv, RotationReady, LineageInv, ScopeInv, TypeOK, PCs, Waiting, Scans, Outcomes, table, columns, local
<1>1. ASSUME NEW w \in Workers, NEW u \in Users, NEW i \in Ids, CreateSession(w, u, i)
      PROVE  ScopeInv'
  BY <1>1 DEF CreateSession, Call, insertSession
<1>2. ASSUME NEW w \in Workers, NEW i \in Ids, RotateCall(w, i)
      PROVE  ScopeInv'
  BY <1>2 DEF RotateCall, Call, FamilyRows
<1>3. ASSUME NEW w \in Workers, NEW i \in Ids, RevokeByTokenCall(w, i)
      PROVE  ScopeInv'
  BY <1>3 DEF RevokeByTokenCall, Call, FamilyRows
<1>4. ASSUME NEW w \in Workers, NEW u \in Users, RevokeAllForUser(w, u)
      PROVE  ScopeInv'
  BY <1>4 DEF RevokeAllForUser, Call, UserRows
<1>5. ASSUME NEW w \in Workers, PruneSessions(w)
      PROVE  ScopeInv'
  BY <1>5 DEF PruneSessions, Call, StaleRows
<1>6. ASSUME NEW w \in Workers, RotateNoRow(w)
      PROVE  ScopeInv'
  BY <1>6 DEF RotateNoRow, Finish
<1>7. ASSUME NEW w \in Workers, RotateReuse(w)
      PROVE  ScopeInv'
  BY <1>7 DEF RotateReuse, Free
<1>8. ASSUME NEW w \in Workers, RotateReject(w)
      PROVE  ScopeInv'
  BY <1>8 DEF RotateReject, Finish
<1>9. ASSUME NEW w \in Workers, NEW i \in Ids, RotateSpend(w, i)
      PROVE  ScopeInv'
  BY <1>9 DEF RotateSpend, insertSession, Free
<1>10. ASSUME NEW w \in Workers, RotateCommit(w)
      PROVE  ScopeInv'
  BY <1>10 DEF RotateCommit, Finish
<1>11. ASSUME NEW w \in Workers, RevokeByTokenNoRow(w)
      PROVE  ScopeInv'
  BY <1>11 DEF RevokeByTokenNoRow, Finish
<1>12. ASSUME NEW w \in Workers, RevokeByTokenFound(w)
      PROVE  ScopeInv'
  BY <1>12 DEF RevokeByTokenFound
<1>13. ASSUME NEW w \in Workers, StatementBegin(w, "reuse", "scanReuse")
      PROVE  ScopeInv'
  BY <1>13 DEF StatementBegin, FamilyRows
<1>14. ASSUME NEW w \in Workers, StatementBegin(w, "revokeFamily", "scanFamily")
      PROVE  ScopeInv'
  BY <1>14 DEF StatementBegin, FamilyRows
<1>15. ASSUME NEW w \in Workers, NEW i \in Ids, StatementVisit(w, i)
      PROVE  ScopeInv'
  BY <1>15 DEF StatementVisit, StillMatches, Free
<1>16. ASSUME NEW w \in Workers, RevokeCommit(w)
      PROVE  ScopeInv'
  BY <1>16 DEF RevokeCommit, Finish
<1>17. ASSUME NEW w \in Workers, PruneCommit(w)
      PROVE  ScopeInv'
  BY <1>17 DEF PruneCommit, Finish
<1>18. ASSUME NEW w \in Workers, Abort(w)
      PROVE  ScopeInv'
  BY <1>18 DEF Abort, Finish
<1>19. ASSUME NEW w \in Workers, Return(w)
      PROVE  ScopeInv'
  BY <1>19 DEF Return
<1>20. CASE Tick
  BY <1>20 DEF Tick
<1>21. CASE UNCHANGED vars
  BY <1>21 DEF vars
<1> QED
  BY ONLY <1>1, <1>2, <1>3, <1>4, <1>5, <1>6, <1>7, <1>8, <1>9, <1>10, <1>11,
     <1>12, <1>13, <1>14, <1>15, <1>16, <1>17, <1>18, <1>19, <1>20, <1>21,
     [Next]_vars DEF Next, Step

\* The rows a statement has seen or locked keep what made it choose them.
LEMMA StatementStep ==
    TypeOK /\ LockInv /\ LineageInv /\ StatementInv /\ [Next]_vars => StatementInv'
<1> SUFFICES ASSUME TypeOK, LockInv, LineageInv, StatementInv, [Next]_vars PROVE StatementInv'
  OBVIOUS
<1> USE ConstantsAssumption DEF LockInv, LineageInv, StatementInv, TypeOK, PCs, Waiting, Scans, Outcomes, table, columns, local
<1>1. ASSUME NEW w \in Workers, NEW u \in Users, NEW i \in Ids, CreateSession(w, u, i)
      PROVE  StatementInv'
  BY <1>1 DEF CreateSession, Call, insertSession
<1>2. ASSUME NEW w \in Workers, NEW i \in Ids, RotateCall(w, i)
      PROVE  StatementInv'
  BY <1>2 DEF RotateCall, Call, FamilyRows
<1>3. ASSUME NEW w \in Workers, NEW i \in Ids, RevokeByTokenCall(w, i)
      PROVE  StatementInv'
  BY <1>3 DEF RevokeByTokenCall, Call, FamilyRows
<1>4. ASSUME NEW w \in Workers, NEW u \in Users, RevokeAllForUser(w, u)
      PROVE  StatementInv'
  BY <1>4 DEF RevokeAllForUser, Call, UserRows
<1>5. ASSUME NEW w \in Workers, PruneSessions(w)
      PROVE  StatementInv'
  BY <1>5 DEF PruneSessions, Call, StaleRows
<1>6. ASSUME NEW w \in Workers, RotateNoRow(w)
      PROVE  StatementInv'
  BY <1>6 DEF RotateNoRow, Finish
<1>7. ASSUME NEW w \in Workers, RotateReuse(w)
      PROVE  StatementInv'
  BY <1>7 DEF RotateReuse, Free
<1>8. ASSUME NEW w \in Workers, RotateReject(w)
      PROVE  StatementInv'
  BY <1>8 DEF RotateReject, Finish
<1>9. ASSUME NEW w \in Workers, NEW i \in Ids, RotateSpend(w, i)
      PROVE  StatementInv'
  BY <1>9 DEF RotateSpend, insertSession, Free
<1>10. ASSUME NEW w \in Workers, RotateCommit(w)
      PROVE  StatementInv'
  BY <1>10 DEF RotateCommit, Finish
<1>11. ASSUME NEW w \in Workers, RevokeByTokenNoRow(w)
      PROVE  StatementInv'
  BY <1>11 DEF RevokeByTokenNoRow, Finish
<1>12. ASSUME NEW w \in Workers, RevokeByTokenFound(w)
      PROVE  StatementInv'
  BY <1>12 DEF RevokeByTokenFound
<1>13. ASSUME NEW w \in Workers, StatementBegin(w, "reuse", "scanReuse")
      PROVE  StatementInv'
  BY <1>13 DEF StatementBegin, FamilyRows
<1>14. ASSUME NEW w \in Workers, StatementBegin(w, "revokeFamily", "scanFamily")
      PROVE  StatementInv'
  BY <1>14 DEF StatementBegin, FamilyRows
<1>15. ASSUME NEW w \in Workers, NEW i \in Ids, StatementVisit(w, i)
      PROVE  StatementInv'
  BY <1>15 DEF StatementVisit, StillMatches, Free
<1>16. ASSUME NEW w \in Workers, RevokeCommit(w)
      PROVE  StatementInv'
  BY <1>16 DEF RevokeCommit, Finish
<1>17. ASSUME NEW w \in Workers, PruneCommit(w)
      PROVE  StatementInv'
  BY <1>17 DEF PruneCommit, Finish
<1>18. ASSUME NEW w \in Workers, Abort(w)
      PROVE  StatementInv'
  BY <1>18 DEF Abort, Finish
<1>19. ASSUME NEW w \in Workers, Return(w)
      PROVE  StatementInv'
  BY <1>19 DEF Return
<1>20. CASE Tick
  BY <1>20 DEF Tick
<1>21. CASE UNCHANGED vars
  BY <1>21 DEF vars
<1> QED
  BY ONLY <1>1, <1>2, <1>3, <1>4, <1>5, <1>6, <1>7, <1>8, <1>9, <1>10, <1>11,
     <1>12, <1>13, <1>14, <1>15, <1>16, <1>17, <1>18, <1>19, <1>20, <1>21,
     [Next]_vars DEF Next, Step

\* A step deletes no row within its grace period.
LEMMA WindowStep ==
    TypeOK /\ StatementInv /\ ReplayWindow /\ [Next]_vars => ReplayWindow'
<1> SUFFICES ASSUME TypeOK, StatementInv, ReplayWindow, [Next]_vars PROVE ReplayWindow'
  OBVIOUS
<1> USE ConstantsAssumption DEF StatementInv, ReplayWindow, TypeOK, PCs, Waiting, Scans, Outcomes, table, columns, local
<1>1. ASSUME NEW w \in Workers, NEW u \in Users, NEW i \in Ids, CreateSession(w, u, i)
      PROVE  ReplayWindow'
  BY <1>1 DEF CreateSession, Call, insertSession
<1>2. ASSUME NEW w \in Workers, NEW i \in Ids, RotateCall(w, i)
      PROVE  ReplayWindow'
  BY <1>2 DEF RotateCall, Call, FamilyRows
<1>3. ASSUME NEW w \in Workers, NEW i \in Ids, RevokeByTokenCall(w, i)
      PROVE  ReplayWindow'
  BY <1>3 DEF RevokeByTokenCall, Call, FamilyRows
<1>4. ASSUME NEW w \in Workers, NEW u \in Users, RevokeAllForUser(w, u)
      PROVE  ReplayWindow'
  BY <1>4 DEF RevokeAllForUser, Call, UserRows
<1>5. ASSUME NEW w \in Workers, PruneSessions(w)
      PROVE  ReplayWindow'
  BY <1>5 DEF PruneSessions, Call, StaleRows
<1>6. ASSUME NEW w \in Workers, RotateNoRow(w)
      PROVE  ReplayWindow'
  BY <1>6 DEF RotateNoRow, Finish
<1>7. ASSUME NEW w \in Workers, RotateReuse(w)
      PROVE  ReplayWindow'
  BY <1>7 DEF RotateReuse, Free
<1>8. ASSUME NEW w \in Workers, RotateReject(w)
      PROVE  ReplayWindow'
  BY <1>8 DEF RotateReject, Finish
<1>9. ASSUME NEW w \in Workers, NEW i \in Ids, RotateSpend(w, i)
      PROVE  ReplayWindow'
  BY <1>9 DEF RotateSpend, insertSession, Free
<1>10. ASSUME NEW w \in Workers, RotateCommit(w)
      PROVE  ReplayWindow'
  BY <1>10 DEF RotateCommit, Finish
<1>11. ASSUME NEW w \in Workers, RevokeByTokenNoRow(w)
      PROVE  ReplayWindow'
  BY <1>11 DEF RevokeByTokenNoRow, Finish
<1>12. ASSUME NEW w \in Workers, RevokeByTokenFound(w)
      PROVE  ReplayWindow'
  BY <1>12 DEF RevokeByTokenFound
<1>13. ASSUME NEW w \in Workers, StatementBegin(w, "reuse", "scanReuse")
      PROVE  ReplayWindow'
  BY <1>13 DEF StatementBegin, FamilyRows
<1>14. ASSUME NEW w \in Workers, StatementBegin(w, "revokeFamily", "scanFamily")
      PROVE  ReplayWindow'
  BY <1>14 DEF StatementBegin, FamilyRows
<1>15. ASSUME NEW w \in Workers, NEW i \in Ids, StatementVisit(w, i)
      PROVE  ReplayWindow'
  BY <1>15 DEF StatementVisit, StillMatches, Free
<1>16. ASSUME NEW w \in Workers, RevokeCommit(w)
      PROVE  ReplayWindow'
  BY <1>16 DEF RevokeCommit, Finish
<1>17. ASSUME NEW w \in Workers, PruneCommit(w)
      PROVE  ReplayWindow'
  BY <1>17 DEF PruneCommit, Finish
<1>18. ASSUME NEW w \in Workers, Abort(w)
      PROVE  ReplayWindow'
  BY <1>18 DEF Abort, Finish
<1>19. ASSUME NEW w \in Workers, Return(w)
      PROVE  ReplayWindow'
  BY <1>19 DEF Return
<1>20. CASE Tick
  BY <1>20 DEF Tick
<1>21. CASE UNCHANGED vars
  BY <1>21 DEF vars
<1> QED
  BY ONLY <1>1, <1>2, <1>3, <1>4, <1>5, <1>6, <1>7, <1>8, <1>9, <1>10, <1>11,
     <1>12, <1>13, <1>14, <1>15, <1>16, <1>17, <1>18, <1>19, <1>20, <1>21,
     [Next]_vars DEF Next, Step

-----------------------------------------------------------------------------
IndInv ==
    /\ TypeOK
    /\ LockInv
    /\ RotationInv
    /\ LineageInv
    /\ SingleRotation
    /\ ScopeInv
    /\ StatementInv
    /\ ReplayWindow

\* The conjuncts together hold initially and are preserved by every step.
THEOREM Invariance == Spec => []IndInv
<1>1. Init => IndInv
  BY ConstantsAssumption
     DEF Init, IndInv, TypeOK, LockInv, RotationInv, LineageInv, SingleRotation,
         ScopeInv, StatementInv, ReplayWindow, PCs, Waiting, Scans, Outcomes
<1>2. IndInv /\ [Next]_vars => IndInv'
  BY TypeStep, LockStep, RotationStep, LineageStep, SingleStep, ScopeStep,
     StatementStep, WindowStep DEF IndInv
<1> QED
  BY <1>1, <1>2, PTL DEF Spec

\* Every variable keeps its type, and a call that has returned holds no row
\* lock: however a call of sessions.go ends, its transaction is over.
THEOREM TypeCorrect == Spec => []TypeOK
<1>1. IndInv => TypeOK
  BY DEF IndInv
<1> QED
  BY <1>1, Invariance, PTL

\* Rotate's claim: "two concurrent refreshes of the same token cannot both
\* succeed".  No session ever gets two children.
THEOREM RotatesOnce == Spec => []SingleRotation
<1>1. IndInv => SingleRotation
  BY DEF IndInv
<1> QED
  BY <1>1, Invariance, PTL

\* A family never shows two active sessions in GET /v1/sessions.
THEOREM OneActive == Spec => []OneActivePerFamily
<1>1. IndInv => OneActivePerFamily
  BY DEF IndInv, TypeOK, LineageInv, OneActivePerFamily, ActiveSessionsForUser
<1> QED
  BY <1>1, Invariance, PTL

\* A revocation that returned without error reached every row that was there
\* when it was called.
THEOREM RevocationReaches == Spec => []RevocationCovers
<1>1. IndInv => RevocationCovers
  BY DEF IndInv, ScopeInv, RevocationCovers
<1> QED
  BY <1>1, Invariance, PTL

\* A token spent before it was presented buys nothing and is noticed for as
\* long as its row exists.
THEOREM ReplayIsDetected == Spec => []ReplayDetected
<1>1. IndInv => ReplayDetected
  BY DEF IndInv, ScopeInv, ReplayDetected
<1> QED
  BY <1>1, Invariance, PTL

\* A row outlives its expiry by the grace period, so replays are noticed
\* until then.
THEOREM RowsOutliveGrace == Spec => []ReplayWindow
<1>1. IndInv => ReplayWindow
  BY DEF IndInv
<1> QED
  BY <1>1, Invariance, PTL

-----------------------------------------------------------------------------
(***************************************************************************)
(* Refinement.  Only four steps change what RefreshTokens sees; the others *)
(* stutter.                                                                *)
(***************************************************************************)
\* A step that leaves the committed rows alone, and writes columns of no
\* committed row, is a stuttering step of RefreshTokens.
LEMMA Stutter ==
    ASSUME UNCHANGED table,
           \A i \in issued : family'[i] = family[i] /\ owner'[i] = owner[i]
    PROVE  UNCHANGED Promise!vars
BY DEF table, Promise!vars

\* Every step of the transactions is a step of RefreshTokens or stutters.
LEMMA PromiseStep == IndInv /\ [Next]_vars => [Promise!Next]_Promise!vars
<1> SUFFICES ASSUME IndInv, [Next]_vars PROVE [Promise!Next]_Promise!vars
  OBVIOUS
<1> USE DEF IndInv, TypeOK, table, columns, local
<1>1. ASSUME NEW w \in Workers, NEW u \in Users, NEW i \in Ids, CreateSession(w, u, i)
      PROVE  Promise!Next
  <2>1. i \in Ids \ issued
    BY <1>1 DEF CreateSession, insertSession
  <2>2. Promise!Login(i, u)
    BY <1>1, <2>1 DEF CreateSession, insertSession, Promise!Login, Promise!Issue, Promise!Issued
  <2> QED
    BY <2>2 DEF Promise!Next
<1>2. ASSUME NEW w \in Workers, RotateCommit(w)
      PROVE  Promise!Next
  <2>1. RotationReady(w)
    BY <1>2 DEF RotateCommit, RotationInv
  <2>2. key[w] \in Ids /\ child[w] \in Ids
    BY <1>2 DEF RotateCommit
  <2>3. PICK i \in Ids, j \in Ids : i = key[w] /\ j = child[w]
    BY <2>2
  <2>4. Promise!Refresh(i, j)
    BY <1>2, <2>1, <2>3 DEF RotateCommit, RotationReady, Promise!Refresh, Promise!Issue,
                            Promise!Issued, Promise!Live
  <2> QED
    BY <2>4 DEF Promise!Next
<1>3. ASSUME NEW w \in Workers, RevokeCommit(w)
      PROVE  Promise!Next
  <2>1. locks[w] \in SUBSET sessions
    BY DEF StatementInv
  <2>2. \/ \E f \in Ids : \A i \in locks[w] : family[i] = f
        \/ \E u \in Users : \A i \in locks[w] : owner[i] = u
    BY <1>3 DEF RevokeCommit, StatementInv
  <2>3. PICK S \in SUBSET sessions : S = locks[w]
    BY <2>1
  <2>4. Promise!Revoke(S)
    BY <1>3, <2>2, <2>3 DEF RevokeCommit, Promise!Revoke
  <2> QED
    BY <2>4 DEF Promise!Next
<1>4. ASSUME NEW w \in Workers, PruneCommit(w)
      PROVE  Promise!Next
  <2>1. PICK S \in SUBSET sessions : S = locks[w]
    BY DEF StatementInv
  <2>2. Promise!Forget(S)
    BY <1>4, <2>1 DEF PruneCommit, Promise!Forget
  <2> QED
    BY <2>2 DEF Promise!Next
<1>5. ASSUME NEW w \in Workers,
             \/ \E i \in Ids : RotateCall(w, i) \/ RevokeByTokenCall(w, i)
             \/ \E u \in Users : RevokeAllForUser(w, u)
             \/ PruneSessions(w)
             \/ RotateNoRow(w) \/ RotateReuse(w) \/ RotateReject(w)
             \/ RevokeByTokenNoRow(w) \/ RevokeByTokenFound(w)
             \/ StatementBegin(w, "reuse", "scanReuse")
             \/ StatementBegin(w, "revokeFamily", "scanFamily")
             \/ \E i \in Ids : StatementVisit(w, i)
             \/ Abort(w) \/ Return(w)
      PROVE  UNCHANGED Promise!vars
  <2>1. UNCHANGED <<table, columns>>
    BY <1>5 DEF RotateCall, RevokeByTokenCall, RevokeAllForUser, PruneSessions,
                RotateNoRow, RotateReuse, RotateReject, RevokeByTokenNoRow,
                RevokeByTokenFound, StatementBegin, StatementVisit, Abort, Return
  <2> QED
    BY <2>1, Stutter
<1>6. ASSUME NEW w \in Workers, NEW i \in Ids, RotateSpend(w, i)
      PROVE  UNCHANGED Promise!vars
  <2>1. UNCHANGED table /\ i \notin issued
    BY <1>6 DEF RotateSpend, insertSession
  <2>2. \A j \in issued : family'[j] = family[j] /\ owner'[j] = owner[j]
    BY <1>6, <2>1 DEF RotateSpend, insertSession
  <2> QED
    BY <2>1, <2>2, Stutter
<1>7. CASE Tick \/ UNCHANGED vars
  <2>1. UNCHANGED <<table, columns>>
    BY <1>7 DEF Tick, vars
  <2> QED
    BY <2>1, Stutter
<1> QED
  BY ONLY <1>1, <1>2, <1>3, <1>4, <1>5, <1>6, <1>7, [Next]_vars DEF Next, Step

\* The transactions of sessions.go implement the refresh tokens they promise:
\* every commit is one step on live tokens, and nothing else is visible.
THEOREM Refinement == Spec => ImplementsRefreshTokens
<1>1. Init => Promise!Init
  BY DEF Init, Promise!Init
<1>2. IndInv /\ [Next]_vars => [Promise!Next]_Promise!vars
  BY PromiseStep
<1> QED
  BY <1>1, <1>2, Invariance, PTL DEF Spec, ImplementsRefreshTokens, Promise!Spec

=============================================================================
