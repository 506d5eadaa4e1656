--------------------------- MODULE MCTransportPool ---------------------------
(* Two clusters, two concurrent handlers; add-ons come and go. *)
EXTENDS TransportPool
==============================================================================
