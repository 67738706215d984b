----------------------------- MODULE MCKeyCache -----------------------------
(* KeyCache with two goroutines and two rotations.                         *)
EXTENDS KeyCache, TLC
=============================================================================
