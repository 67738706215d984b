------------------------------ MODULE MCAuthApi ------------------------------
EXTENDS AuthApi, TLC

Symmetry ==
    Permutations(Requests) \cup Permutations(Users) \cup Permutations(Ids)
=============================================================================
