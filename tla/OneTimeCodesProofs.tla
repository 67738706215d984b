------------------------- MODULE OneTimeCodesProofs -------------------------
(***************************************************************************)
(* Proofs about OneTimeCodes, for any number of requests, rows and         *)
(* subjects, any limit of attempts and any lifetime.                       *)
(***************************************************************************)
EXTENDS OneTimeCodes, TLAPS

\* A step keeps the types and leaves no lock behind.
LEMMA TypeStep ==
    TypeOK /\ HeldInv /\ [Next]_vars => TypeOK'
<1> SUFFICES ASSUME TypeOK, HeldInv, [Next]_vars PROVE TypeOK'
  OBVIOUS
<1> USE CodeConstants DEF HeldInv, Holds, TypeOK, PCs, Running, Outcomes, table, columns, local, history
<1>1. ASSUME NEW w \in Workers, NEW s \in Subjects, NEW i \in Ids, IssueCode(w, s, i)
      PROVE  TypeOK'
  BY <1>1 DEF IssueCode, Call, Outstanding
<1>2. ASSUME NEW w \in Workers, NEW i \in Ids, IssueVisit(w, i)
      PROVE  TypeOK'
  BY <1>2 DEF IssueVisit, Skip, Free
<1>3. ASSUME NEW w \in Workers, IssueCommit(w)
      PROVE  TypeOK'
  BY <1>3 DEF IssueCommit, Finish
<1>4. ASSUME NEW w \in Workers, NEW s \in Subjects, NEW g \in issued \cup {None}, ConsumeCode(w, s, g)
      PROVE  TypeOK'
  BY <1>4 DEF ConsumeCode, Call, Outstanding
<1>5. ASSUME NEW w \in Workers, NEW i \in Ids, ConsumeToken(w, i)
      PROVE  TypeOK'
  BY <1>5 DEF ConsumeToken, Call, Outstanding
<1>6. ASSUME NEW w \in Workers, PickNoRow(w)
      PROVE  TypeOK'
  BY <1>6 DEF PickNoRow, Finish
<1>7. ASSUME NEW w \in Workers, NEW i \in Ids, PickSkip(w, i)
      PROVE  TypeOK'
  BY <1>7 DEF PickSkip, Skip
<1>8. ASSUME NEW w \in Workers, NEW i \in Ids, PickReject(w, i)
      PROVE  TypeOK'
  BY <1>8 DEF PickReject, Finish
<1>9. ASSUME NEW w \in Workers, NEW i \in Ids, PickTake(w, i)
      PROVE  TypeOK'
  BY <1>9 DEF PickTake, Gets, Newest, Free
<1>10. ASSUME NEW w \in Workers, WrongGuess(w)
      PROVE  TypeOK'
  BY <1>10 DEF WrongGuess, Finish
<1>11. ASSUME NEW w \in Workers, Redeem(w)
      PROVE  TypeOK'
  BY <1>11 DEF Redeem, Finish
<1>12. ASSUME NEW w \in Workers, Abort(w)
      PROVE  TypeOK'
  BY <1>12 DEF Abort, Finish
<1>13. ASSUME NEW w \in Workers, Return(w)
      PROVE  TypeOK'
  BY <1>13 DEF Return
<1>14. CASE PruneCodes
  BY <1>14 DEF PruneCodes
<1>15. CASE Tick
  BY <1>15 DEF Tick
<1>16. CASE UNCHANGED vars
  BY <1>16 DEF vars
<1> QED
  BY ONLY <1>1, <1>2, <1>3, <1>4, <1>5, <1>6, <1>7, <1>8, <1>9, <1>10, <1>11,
     <1>12, <1>13, <1>14, <1>15, <1>16,
     [Next]_vars DEF Next

\* A step never gives two transactions a lock on one row.
LEMMA LockStep ==
    TypeOK /\ LockInv /\ [Next]_vars => LockInv'
<1> SUFFICES ASSUME TypeOK, LockInv, [Next]_vars PROVE LockInv'
  OBVIOUS
<1> USE DEF LockInv, TypeOK, PCs, Running, Outcomes, table, columns, local, history
<1>1. ASSUME NEW w \in Workers, NEW s \in Subjects, NEW i \in Ids, IssueCode(w, s, i)
      PROVE  LockInv'
  BY <1>1 DEF IssueCode, Call, Outstanding
<1>2. ASSUME NEW w \in Workers, NEW i \in Ids, IssueVisit(w, i)
      PROVE  LockInv'
  BY <1>2 DEF IssueVisit, Skip, Free
<1>3. ASSUME NEW w \in Workers, IssueCommit(w)
      PROVE  LockInv'
  BY <1>3 DEF IssueCommit, Finish
<1>4. ASSUME NEW w \in Workers, NEW s \in Subjects, NEW g \in issued \cup {None}, ConsumeCode(w, s, g)
      PROVE  LockInv'
  BY <1>4 DEF ConsumeCode, Call, Outstanding
<1>5. ASSUME NEW w \in Workers, NEW i \in Ids, ConsumeToken(w, i)
      PROVE  LockInv'
  BY <1>5 DEF ConsumeToken, Call, Outstanding
<1>6. ASSUME NEW w \in Workers, PickNoRow(w)
      PROVE  LockInv'
  BY <1>6 DEF PickNoRow, Finish
<1>7. ASSUME NEW w \in Workers, NEW i \in Ids, PickSkip(w, i)
      PROVE  LockInv'
  BY <1>7 DEF PickSkip, Skip
<1>8. ASSUME NEW w \in Workers, NEW i \in Ids, PickReject(w, i)
      PROVE  LockInv'
  BY <1>8 DEF PickReject, Finish
<1>9. ASSUME NEW w \in Workers, NEW i \in Ids, PickTake(w, i)
      PROVE  LockInv'
  BY <1>9 DEF PickTake, Gets, Newest, Free
<1>10. ASSUME NEW w \in Workers, WrongGuess(w)
      PROVE  LockInv'
  BY <1>10 DEF WrongGuess, Finish
<1>11. ASSUME NEW w \in Workers, Redeem(w)
      PROVE  LockInv'
  BY <1>11 DEF Redeem, Finish
<1>12. ASSUME NEW w \in Workers, Abort(w)
      PROVE  LockInv'
  BY <1>12 DEF Abort, Finish
<1>13. ASSUME NEW w \in Workers, Return(w)
      PROVE  LockInv'
  BY <1>13 DEF Return
<1>14. CASE PruneCodes
  BY <1>14 DEF PruneCodes
<1>15. CASE Tick
  BY <1>15 DEF Tick
<1>16. CASE UNCHANGED vars
  BY <1>16 DEF vars
<1> QED
  BY ONLY <1>1, <1>2, <1>3, <1>4, <1>5, <1>6, <1>7, <1>8, <1>9, <1>10, <1>11,
     <1>12, <1>13, <1>14, <1>15, <1>16,
     [Next]_vars DEF Next

\* Between its SELECT ... FOR UPDATE and its COMMIT a transaction's row is neither
\* consumed nor deleted nor charged with a guess by another transaction.
LEMMA HeldStep ==
    TypeOK /\ LockInv /\ HeldInv /\ [Next]_vars => HeldInv'
<1> SUFFICES ASSUME TypeOK, LockInv, HeldInv, [Next]_vars PROVE HeldInv'
  OBVIOUS
<1> USE CodeConstants DEF LockInv, HeldInv, Holds, TypeOK, PCs, Running, Outcomes, table, columns, local, history
<1>1. ASSUME NEW w \in Workers, NEW s \in Subjects, NEW i \in Ids, IssueCode(w, s, i)
      PROVE  HeldInv'
  BY <1>1 DEF IssueCode, Call, Outstanding
<1>2. ASSUME NEW w \in Workers, NEW i \in Ids, IssueVisit(w, i)
      PROVE  HeldInv'
  BY <1>2 DEF IssueVisit, Skip, Free
<1>3. ASSUME NEW w \in Workers, IssueCommit(w)
      PROVE  HeldInv'
  BY <1>3 DEF IssueCommit, Finish
<1>4. ASSUME NEW w \in Workers, NEW s \in Subjects, NEW g \in issued \cup {None}, ConsumeCode(w, s, g)
      PROVE  HeldInv'
  BY <1>4 DEF ConsumeCode, Call, Outstanding
<1>5. ASSUME NEW w \in Workers, NEW i \in Ids, ConsumeToken(w, i)
      PROVE  HeldInv'
  BY <1>5 DEF ConsumeToken, Call, Outstanding
<1>6. ASSUME NEW w \in Workers, PickNoRow(w)
      PROVE  HeldInv'
  BY <1>6 DEF PickNoRow, Finish
<1>7. ASSUME NEW w \in Workers, NEW i \in Ids, PickSkip(w, i)
      PROVE  HeldInv'
  BY <1>7 DEF PickSkip, Skip
<1>8. ASSUME NEW w \in Workers, NEW i \in Ids, PickReject(w, i)
      PROVE  HeldInv'
  BY <1>8 DEF PickReject, Finish
<1>9. ASSUME NEW w \in Workers, NEW i \in Ids, PickTake(w, i)
      PROVE  HeldInv'
  BY <1>9 DEF PickTake, Gets, Newest, Free
<1>10. ASSUME NEW w \in Workers, WrongGuess(w)
      PROVE  HeldInv'
  <2> SUFFICES ASSUME NEW v \in Workers, pc'[v] \in {"redeem", "guess"}
               PROVE  Holds(v)'
    BY DEF HeldInv
  <2>1. v # w /\ pc'[v] = pc[v] /\ Holds(v) /\ Holds(w)
    BY <1>10 DEF WrongGuess, Finish
  <2>2. row[w] # row[v]
    <3>1. row[w] \in locks[w] /\ row[v] \in locks[v]
      BY <2>1
    <3> QED
      BY <2>1, <3>1
  <2> QED
    BY <1>10, <2>1, <2>2 DEF WrongGuess, Finish
<1>11. ASSUME NEW w \in Workers, Redeem(w)
      PROVE  HeldInv'
  <2> SUFFICES ASSUME NEW v \in Workers, pc'[v] \in {"redeem", "guess"}
               PROVE  Holds(v)'
    BY DEF HeldInv
  <2>1. v # w /\ pc'[v] = pc[v] /\ Holds(v) /\ Holds(w)
    BY <1>11 DEF Redeem, Finish
  <2>2. row[w] # row[v]
    <3>1. row[w] \in locks[w] /\ row[v] \in locks[v]
      BY <2>1
    <3> QED
      BY <2>1, <3>1
  <2> QED
    BY <1>11, <2>1, <2>2 DEF Redeem, Finish
<1>12. ASSUME NEW w \in Workers, Abort(w)
      PROVE  HeldInv'
  BY <1>12 DEF Abort, Finish
<1>13. ASSUME NEW w \in Workers, Return(w)
      PROVE  HeldInv'
  BY <1>13 DEF Return
<1>14. CASE PruneCodes
  BY <1>14 DEF PruneCodes
<1>15. CASE Tick
  BY <1>15 DEF Tick
<1>16. CASE UNCHANGED vars
  BY <1>16 DEF vars
<1> QED
  BY ONLY <1>1, <1>2, <1>3, <1>4, <1>5, <1>6, <1>7, <1>8, <1>9, <1>10, <1>11,
     <1>12, <1>13, <1>14, <1>15, <1>16,
     [Next]_vars DEF Next

\* A step loses no row an IssueCode call still has to consume.
LEMMA IssueStep ==
    TypeOK /\ LockInv /\ IssueInv /\ [Next]_vars => IssueInv'
<1> SUFFICES ASSUME TypeOK, LockInv, IssueInv, [Next]_vars PROVE IssueInv'
  OBVIOUS
<1> USE CodeConstants DEF LockInv, IssueInv, TypeOK, PCs, Running, Outcomes, table, columns, local, history
<1>1. ASSUME NEW w \in Workers, NEW s \in Subjects, NEW i \in Ids, IssueCode(w, s, i)
      PROVE  IssueInv'
  BY <1>1 DEF IssueCode, Call, Outstanding
<1>2. ASSUME NEW w \in Workers, NEW i \in Ids, IssueVisit(w, i)
      PROVE  IssueInv'
  BY <1>2 DEF IssueVisit, Skip, Free
<1>3. ASSUME NEW w \in Workers, IssueCommit(w)
      PROVE  IssueInv'
  BY <1>3 DEF IssueCommit, Finish
<1>4. ASSUME NEW w \in Workers, NEW s \in Subjects, NEW g \in issued \cup {None}, ConsumeCode(w, s, g)
      PROVE  IssueInv'
  BY <1>4 DEF ConsumeCode, Call, Outstanding
<1>5. ASSUME NEW w \in Workers, NEW i \in Ids, ConsumeToken(w, i)
      PROVE  IssueInv'
  BY <1>5 DEF ConsumeToken, Call, Outstanding
<1>6. ASSUME NEW w \in Workers, PickNoRow(w)
      PROVE  IssueInv'
  BY <1>6 DEF PickNoRow, Finish
<1>7. ASSUME NEW w \in Workers, NEW i \in Ids, PickSkip(w, i)
      PROVE  IssueInv'
  BY <1>7 DEF PickSkip, Skip
<1>8. ASSUME NEW w \in Workers, NEW i \in Ids, PickReject(w, i)
      PROVE  IssueInv'
  BY <1>8 DEF PickReject, Finish
<1>9. ASSUME NEW w \in Workers, NEW i \in Ids, PickTake(w, i)
      PROVE  IssueInv'
  BY <1>9 DEF PickTake, Gets, Newest, Free
<1>10. ASSUME NEW w \in Workers, WrongGuess(w)
      PROVE  IssueInv'
  BY <1>10 DEF WrongGuess, Finish
<1>11. ASSUME NEW w \in Workers, Redeem(w)
      PROVE  IssueInv'
  BY <1>11 DEF Redeem, Finish
<1>12. ASSUME NEW w \in Workers, Abort(w)
      PROVE  IssueInv'
  BY <1>12 DEF Abort, Finish
<1>13. ASSUME NEW w \in Workers, Return(w)
      PROVE  IssueInv'
  BY <1>13 DEF Return
<1>14. CASE PruneCodes
  BY <1>14 DEF PruneCodes
<1>15. CASE Tick
  BY <1>15 DEF Tick
<1>16. CASE UNCHANGED vars
  BY <1>16 DEF vars
<1> QED
  BY ONLY <1>1, <1>2, <1>3, <1>4, <1>5, <1>6, <1>7, <1>8, <1>9, <1>10, <1>11,
     <1>12, <1>13, <1>14, <1>15, <1>16,
     [Next]_vars DEF Next

\* A step keeps attempts and consumed_at in line with the guesses answered and
\* the redemptions granted.
LEMMA LedgerStep ==
    TypeOK /\ HeldInv /\ IssueInv /\ LedgerInv /\ [Next]_vars => LedgerInv'
<1> SUFFICES ASSUME TypeOK, HeldInv, IssueInv, LedgerInv, [Next]_vars PROVE LedgerInv'
  OBVIOUS
<1> USE CodeConstants DEF HeldInv, Holds, IssueInv, LedgerInv, TypeOK, PCs, Running, Outcomes, table, columns, local, history
<1>1. ASSUME NEW w \in Workers, NEW s \in Subjects, NEW i \in Ids, IssueCode(w, s, i)
      PROVE  LedgerInv'
  BY <1>1 DEF IssueCode, Call, Outstanding
<1>2. ASSUME NEW w \in Workers, NEW i \in Ids, IssueVisit(w, i)
      PROVE  LedgerInv'
  BY <1>2 DEF IssueVisit, Skip, Free
<1>3. ASSUME NEW w \in Workers, IssueCommit(w)
      PROVE  LedgerInv'
  BY <1>3 DEF IssueCommit, Finish
<1>4. ASSUME NEW w \in Workers, NEW s \in Subjects, NEW g \in issued \cup {None}, ConsumeCode(w, s, g)
      PROVE  LedgerInv'
  BY <1>4 DEF ConsumeCode, Call, Outstanding
<1>5. ASSUME NEW w \in Workers, NEW i \in Ids, ConsumeToken(w, i)
      PROVE  LedgerInv'
  BY <1>5 DEF ConsumeToken, Call, Outstanding
<1>6. ASSUME NEW w \in Workers, PickNoRow(w)
      PROVE  LedgerInv'
  BY <1>6 DEF PickNoRow, Finish
<1>7. ASSUME NEW w \in Workers, NEW i \in Ids, PickSkip(w, i)
      PROVE  LedgerInv'
  BY <1>7 DEF PickSkip, Skip
<1>8. ASSUME NEW w \in Workers, NEW i \in Ids, PickReject(w, i)
      PROVE  LedgerInv'
  BY <1>8 DEF PickReject, Finish
<1>9. ASSUME NEW w \in Workers, NEW i \in Ids, PickTake(w, i)
      PROVE  LedgerInv'
  BY <1>9 DEF PickTake, Gets, Newest, Free
<1>10. ASSUME NEW w \in Workers, WrongGuess(w)
      PROVE  LedgerInv'
  BY <1>10 DEF WrongGuess, Finish
<1>11. ASSUME NEW w \in Workers, Redeem(w)
      PROVE  LedgerInv'
  BY <1>11 DEF Redeem, Finish
<1>12. ASSUME NEW w \in Workers, Abort(w)
      PROVE  LedgerInv'
  BY <1>12 DEF Abort, Finish
<1>13. ASSUME NEW w \in Workers, Return(w)
      PROVE  LedgerInv'
  BY <1>13 DEF Return
<1>14. CASE PruneCodes
  BY <1>14 DEF PruneCodes
<1>15. CASE Tick
  BY <1>15 DEF Tick
<1>16. CASE UNCHANGED vars
  BY <1>16 DEF vars
<1> QED
  BY ONLY <1>1, <1>2, <1>3, <1>4, <1>5, <1>6, <1>7, <1>8, <1>9, <1>10, <1>11,
     <1>12, <1>13, <1>14, <1>15, <1>16,
     [Next]_vars DEF Next

\* A step redeems only a row that was never redeemed.
LEMMA OnceStep ==
    TypeOK /\ HeldInv /\ LedgerInv /\ RedeemedOnce /\ [Next]_vars => RedeemedOnce'
<1> SUFFICES ASSUME TypeOK, HeldInv, LedgerInv, RedeemedOnce, [Next]_vars PROVE RedeemedOnce'
  OBVIOUS
<1> USE CodeConstants DEF HeldInv, Holds, LedgerInv, RedeemedOnce, TypeOK, PCs, Running, Outcomes, table, columns, local, history
<1>1. ASSUME NEW w \in Workers, NEW s \in Subjects, NEW i \in Ids, IssueCode(w, s, i)
      PROVE  RedeemedOnce'
  BY <1>1 DEF IssueCode, Call, Outstanding
<1>2. ASSUME NEW w \in Workers, NEW i \in Ids, IssueVisit(w, i)
      PROVE  RedeemedOnce'
  BY <1>2 DEF IssueVisit, Skip, Free
<1>3. ASSUME NEW w \in Workers, IssueCommit(w)
      PROVE  RedeemedOnce'
  BY <1>3 DEF IssueCommit, Finish
<1>4. ASSUME NEW w \in Workers, NEW s \in Subjects, NEW g \in issued \cup {None}, ConsumeCode(w, s, g)
      PROVE  RedeemedOnce'
  BY <1>4 DEF ConsumeCode, Call, Outstanding
<1>5. ASSUME NEW w \in Workers, NEW i \in Ids, ConsumeToken(w, i)
      PROVE  RedeemedOnce'
  BY <1>5 DEF ConsumeToken, Call, Outstanding
<1>6. ASSUME NEW w \in Workers, PickNoRow(w)
      PROVE  RedeemedOnce'
  BY <1>6 DEF PickNoRow, Finish
<1>7. ASSUME NEW w \in Workers, NEW i \in Ids, PickSkip(w, i)
      PROVE  RedeemedOnce'
  BY <1>7 DEF PickSkip, Skip
<1>8. ASSUME NEW w \in Workers, NEW i \in Ids, PickReject(w, i)
      PROVE  RedeemedOnce'
  BY <1>8 DEF PickReject, Finish
<1>9. ASSUME NEW w \in Workers, NEW i \in Ids, PickTake(w, i)
      PROVE  RedeemedOnce'
  BY <1>9 DEF PickTake, Gets, Newest, Free
<1>10. ASSUME NEW w \in Workers, WrongGuess(w)
      PROVE  RedeemedOnce'
  BY <1>10 DEF WrongGuess, Finish
<1>11. ASSUME NEW w \in Workers, Redeem(w)
      PROVE  RedeemedOnce'
  BY <1>11 DEF Redeem, Finish
<1>12. ASSUME NEW w \in Workers, Abort(w)
      PROVE  RedeemedOnce'
  BY <1>12 DEF Abort, Finish
<1>13. ASSUME NEW w \in Workers, Return(w)
      PROVE  RedeemedOnce'
  BY <1>13 DEF Return
<1>14. CASE PruneCodes
  BY <1>14 DEF PruneCodes
<1>15. CASE Tick
  BY <1>15 DEF Tick
<1>16. CASE UNCHANGED vars
  BY <1>16 DEF vars
<1> QED
  BY ONLY <1>1, <1>2, <1>3, <1>4, <1>5, <1>6, <1>7, <1>8, <1>9, <1>10, <1>11,
     <1>12, <1>13, <1>14, <1>15, <1>16,
     [Next]_vars DEF Next

\* What a returned IssueCode has invalidated stays so.
LEMMA SupersedeStep ==
    TypeOK /\ IssueInv /\ IssueSupersedes /\ [Next]_vars => IssueSupersedes'
<1> SUFFICES ASSUME TypeOK, IssueInv, IssueSupersedes, [Next]_vars PROVE IssueSupersedes'
  OBVIOUS
<1> USE CodeConstants DEF IssueInv, IssueSupersedes, TypeOK, PCs, Running, Outcomes, table, columns, local, history
<1>1. ASSUME NEW w \in Workers, NEW s \in Subjects, NEW i \in Ids, IssueCode(w, s, i)
      PROVE  IssueSupersedes'
  BY <1>1 DEF IssueCode, Call, Outstanding
<1>2. ASSUME NEW w \in Workers, NEW i \in Ids, IssueVisit(w, i)
      PROVE  IssueSupersedes'
  BY <1>2 DEF IssueVisit, Skip, Free
<1>3. ASSUME NEW w \in Workers, IssueCommit(w)
      PROVE  IssueSupersedes'
  BY <1>3 DEF IssueCommit, Finish
<1>4. ASSUME NEW w \in Workers, NEW s \in Subjects, NEW g \in issued \cup {None}, ConsumeCode(w, s, g)
      PROVE  IssueSupersedes'
  BY <1>4 DEF ConsumeCode, Call, Outstanding
<1>5. ASSUME NEW w \in Workers, NEW i \in Ids, ConsumeToken(w, i)
      PROVE  IssueSupersedes'
  BY <1>5 DEF ConsumeToken, Call, Outstanding
<1>6. ASSUME NEW w \in Workers, PickNoRow(w)
      PROVE  IssueSupersedes'
  BY <1>6 DEF PickNoRow, Finish
<1>7. ASSUME NEW w \in Workers, NEW i \in Ids, PickSkip(w, i)
      PROVE  IssueSupersedes'
  BY <1>7 DEF PickSkip, Skip
<1>8. ASSUME NEW w \in Workers, NEW i \in Ids, PickReject(w, i)
      PROVE  IssueSupersedes'
  BY <1>8 DEF PickReject, Finish
<1>9. ASSUME NEW w \in Workers, NEW i \in Ids, PickTake(w, i)
      PROVE  IssueSupersedes'
  BY <1>9 DEF PickTake, Gets, Newest, Free
<1>10. ASSUME NEW w \in Workers, WrongGuess(w)
      PROVE  IssueSupersedes'
  BY <1>10 DEF WrongGuess, Finish
<1>11. ASSUME NEW w \in Workers, Redeem(w)
      PROVE  IssueSupersedes'
  BY <1>11 DEF Redeem, Finish
<1>12. ASSUME NEW w \in Workers, Abort(w)
      PROVE  IssueSupersedes'
  BY <1>12 DEF Abort, Finish
<1>13. ASSUME NEW w \in Workers, Return(w)
      PROVE  IssueSupersedes'
  BY <1>13 DEF Return
<1>14. CASE PruneCodes
  BY <1>14 DEF PruneCodes
<1>15. CASE Tick
  BY <1>15 DEF Tick
<1>16. CASE UNCHANGED vars
  BY <1>16 DEF vars
<1> QED
  BY ONLY <1>1, <1>2, <1>3, <1>4, <1>5, <1>6, <1>7, <1>8, <1>9, <1>10, <1>11,
     <1>12, <1>13, <1>14, <1>15, <1>16,
     [Next]_vars DEF Next

-----------------------------------------------------------------------------
IndInv ==
    /\ TypeOK
    /\ LockInv
    /\ HeldInv
    /\ IssueInv
    /\ LedgerInv
    /\ RedeemedOnce
    /\ IssueSupersedes

\* The conjuncts together hold initially and are preserved by every step.
THEOREM Invariance == Spec => []IndInv
<1>1. Init => IndInv
  BY CodeConstants
     DEF Init, IndInv, TypeOK, LockInv, HeldInv, IssueInv, LedgerInv, RedeemedOnce,
         IssueSupersedes, PCs, Running, Outcomes
<1>2. IndInv /\ [Next]_vars => IndInv'
  BY TypeStep, LockStep, HeldStep, IssueStep, LedgerStep, OnceStep, SupersedeStep
     DEF IndInv
<1> QED
  BY <1>1, <1>2, PTL DEF Spec

\* Every variable keeps its type, and a call that has returned holds no row
\* lock.
THEOREM TypeCorrect == Spec => []TypeOK
<1>1. IndInv => TypeOK
  BY DEF IndInv
<1> QED
  BY <1>1, Invariance, PTL

\* A code or an emailed token is redeemed once at most, and never after it was
\* burned by wrong guesses.
THEOREM SingleUse == Spec => []RedeemedOnce
<1>1. IndInv => RedeemedOnce
  BY DEF IndInv
<1> QED
  BY <1>1, Invariance, PTL

\* At most MaxOTPAttempts guesses are ever answered against one code.
THEOREM BoundedGuesses == Spec => []GuessBudget
<1>1. IndInv => GuessBudget
  BY DEF IndInv, TypeOK, LedgerInv, GuessBudget
<1> QED
  BY <1>1, Invariance, PTL

\* IssueCode invalidates every code that was stored when it was called; one that an
\* overlapping call stores later is not among them (OnlyNewestRedeemable).
THEOREM OldCodesDie == Spec => []IssueSupersedes
<1>1. IndInv => IssueSupersedes
  BY DEF IndInv
<1> QED
  BY <1>1, Invariance, PTL

\* A code at the limit of attempts is never outstanding.
THEOREM LimitBurns == Spec => []BurnedAtLimit
<1>1. IndInv => BurnedAtLimit
  BY DEF IndInv, LedgerInv, BurnedAtLimit
<1> QED
  BY <1>1, Invariance, PTL

=============================================================================
