----------------------------- MODULE MCDeployer -----------------------------
(* Deployer for TLC. *)
EXTENDS Deployer
=============================================================================
