---------------------------- MODULE MCSdkClient ----------------------------
(* SdkClient with a few calls of one app.                                  *)
EXTENDS SdkClient, TLC

Symmetry == Permutations(Calls) \cup Permutations(Held) \cup Permutations(Users)
=============================================================================
