---------------------------- MODULE MCSelfSigner ----------------------------
(* Three replicas of the manager start together. *)
EXTENDS SelfSigner
=============================================================================
