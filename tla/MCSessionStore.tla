--------------------------- MODULE MCSessionStore ---------------------------
(* SessionStore on small sets of workers, session ids and users.           *)
EXTENDS SessionStore, TLC

Symmetry == Permutations(Workers) \cup Permutations(Ids) \cup Permutations(Users)
=============================================================================
