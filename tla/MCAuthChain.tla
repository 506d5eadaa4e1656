----------------------------- MODULE MCAuthChain -----------------------------
EXTENDS AuthChain

\* The optional providers that are enabled.
Both == {"hub", "oidc"}
OnlyHub == {"hub"}
==============================================================================
