---------------------------- MODULE MCOAuthLogin ----------------------------
(* OAuthLogin with two providers and an account at each.                   *)
EXTENDS OAuthLogin, TLC

CONSTANTS google, github, g1, h1

TwoProviders == (g1 :> google) @@ (h1 :> github)

Symmetry == Permutations(Workers) \cup Permutations(Flows) \cup Permutations(Codes)
            \cup Permutations(Users) \cup Permutations(Clients) \cup Permutations(Emails)
=============================================================================
