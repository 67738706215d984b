---------------------------- MODULE MCDeployment ----------------------------
(* Deployment with two migrators and a server of one request at a time.    *)
EXTENDS Deployment, TLC
=============================================================================
