--------------------------- MODULE MCCodeRequests ---------------------------
(* CodeRequests for one address known to two clients.                      *)
EXTENDS CodeRequests, TLC

MCBuckets == {"otp", "forgot"} \X Emails
Symmetry  == Permutations(Workers) \cup Permutations(Clients)
=============================================================================
