---------------------------- MODULE RefreshTokens ----------------------------
(***************************************************************************)
(* What internal/store/sessions.go promises about refresh tokens, with no  *)
(* transaction, lock or snapshot in sight: every operation is one step.    *)
(* SessionStore is shown to implement it.                                  *)
(*                                                                         *)
(* A token is live while it is known, not spent and not revoked.  Only a   *)
(* live token can be refreshed, which spends it and puts one new token of  *)
(* the same family and user in its place.  A revocation takes any number   *)
(* of tokens of one family or of one user; which ones is not promised      *)
(* here, because a token issued while the revocation runs may escape it.   *)
(***************************************************************************)
CONSTANTS Ids, Users

VARIABLES
    family,    \* the family of each token ever issued
    owner,     \* its user
    known,     \* tokens not forgotten yet
    spent,     \* tokens that were refreshed
    revoked    \* tokens that were revoked

vars == <<family, owner, known, spent, revoked>>

Issued == DOMAIN family
Live   == known \ (spent \cup revoked)

Init ==
    /\ family = [i \in {} |-> i]
    /\ owner = [i \in {} |-> i]
    /\ known = {} /\ spent = {} /\ revoked = {}

\* Token i comes into being, of family f and user u.
Issue(i, f, u) ==
    /\ i \in Ids \ Issued
    /\ family' = [k \in Issued \cup {i} |-> IF k = i THEN f ELSE family[k]]
    /\ owner' = [k \in Issued \cup {i} |-> IF k = i THEN u ELSE owner[k]]
    /\ known' = known \cup {i}

Login(i, u) ==
    /\ Issue(i, i, u)
    /\ UNCHANGED <<spent, revoked>>

Refresh(i, j) ==
    /\ i \in Live
    /\ Issue(j, family[i], owner[i])
    /\ spent' = spent \cup {i}
    /\ UNCHANGED revoked

Revoke(S) ==
    /\ \/ \E f \in Ids : \A i \in S : family[i] = f
       \/ \E u \in Users : \A i \in S : owner[i] = u
    /\ revoked' = revoked \cup S
    /\ UNCHANGED <<family, owner, known, spent>>

Forget(S) ==
    /\ known' = known \ S
    /\ UNCHANGED <<family, owner, spent, revoked>>

Next ==
    \/ \E i \in Ids, u \in Users : Login(i, u)
    \/ \E i, j \in Ids : Refresh(i, j)
    \/ \E S \in SUBSET known : Revoke(S) \/ Forget(S)

Spec == Init /\ [][Next]_vars
=============================================================================
