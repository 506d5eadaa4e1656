----------------------------- MODULE MCAgentPod -----------------------------
(***************************************************************************)
(* One connection at a time through the port-forward proxy, two rotations, *)
(* two crashes.                                                            *)
(***************************************************************************)
EXTENDS AgentPod
=============================================================================
