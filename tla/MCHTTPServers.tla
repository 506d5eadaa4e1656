---------------------------- MODULE MCHTTPServers ----------------------------
(* Concrete drain settings are in the configuration files. *)
EXTENDS HTTPServers
==============================================================================
