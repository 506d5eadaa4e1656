-------------------------- MODULE MCServerStartup --------------------------
(***************************************************************************)
(* Both programs, three changes of files or of the TLS profile, one crash. *)
(***************************************************************************)
EXTENDS ServerStartup
=============================================================================
