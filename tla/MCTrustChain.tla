---------------------------- MODULE MCTrustChain ----------------------------
(***************************************************************************)
(* Two managers and two of the four certificates of ensureRotation: one    *)
(* that is valid for the load balancer, one that is not.                   *)
(***************************************************************************)
EXTENDS TrustChain

TwoTargets == <<"agent-server", "user-server">>
=============================================================================
