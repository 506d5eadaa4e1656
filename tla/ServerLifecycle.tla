--------------------------- MODULE ServerLifecycle ---------------------------
(***************************************************************************)
(* What a process that calls RunHTTPServers can rely on.  The call is      *)
(*   "serving"   until it is cancelled or a server fails,                  *)
(*   "draining"  while it is out of readiness with its listener open,      *)
(*   "shutdown"  while accepted requests finish and no new one is taken,   *)
(*   "closing"   once it has returned.                                     *)
(* HTTPServers is shown to implement this module and UserServer is built   *)
(* on it.                                                                  *)
(***************************************************************************)
VARIABLES phase, cancelled

vars == <<phase, cancelled>>

Init == phase = "serving" /\ cancelled \in BOOLEAN

Cancel == ~cancelled /\ cancelled' = TRUE /\ UNCHANGED phase

\* Only a cancelled server leaves readiness and closes its listener.
Withdraw == cancelled /\ phase = "serving" /\ phase' = "draining" /\ UNCHANGED cancelled
Shutdown == cancelled /\ phase \in {"serving", "draining"} /\ phase' = "shutdown" /\ UNCHANGED cancelled
Return == cancelled /\ phase = "shutdown" /\ phase' = "closing" /\ UNCHANGED cancelled
Drain == Withdraw \/ Shutdown \/ Return

\* A server stopped by itself, or the context was done before the call.
Fail == phase \in {"serving", "draining"} /\ phase' = "closing" /\ UNCHANGED cancelled

Next == Cancel \/ Drain \/ Fail

Spec == Init /\ [][Next]_vars
==============================================================================
