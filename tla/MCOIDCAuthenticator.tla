------------------------- MODULE MCOIDCAuthenticator -------------------------
(* Two readable bundles, one of them trusted, and one that does not parse. *)
EXTENDS OIDCAuthenticator
==============================================================================
