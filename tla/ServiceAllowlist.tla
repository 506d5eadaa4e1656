-------------------------- MODULE ServiceAllowlist --------------------------
(***************************************************************************)
(* The exposed-services policy of the user-server: what a ConfigMap says   *)
(* (parseAllExposedServices) and which targets it permits (IsAllowed).     *)
(*                                                                         *)
(* A ConfigMap's data is a function from data keys to YAML values.  A      *)
(* value either fails to parse or validate (Malformed), or is a set of     *)
(* entries [namespace, service, port, protocol] in which Wildcard, the     *)
(* empty string, stands for an omitted port or protocol.                   *)
(***************************************************************************)
CONSTANTS Malformed,   \* a YAML value parseExposedServices rejects
          Wildcard     \* an omitted port or protocol

\* parseAllExposedServices: one bad key fails the whole ConfigMap.
Parses(data) == \A key \in DOMAIN data : data[key] # Malformed
ParseAllExposedServices(data) == UNION {data[key] : key \in DOMAIN data}

\* ExposedService.matches
Matches(e, tsc) ==
    /\ e.namespace = tsc.namespace
    /\ e.service = tsc.service
    /\ e.port \in {Wildcard, tsc.port}
    /\ e.protocol \in {Wildcard, tsc.proto}

\* ServiceAllowlist.IsAllowed; no entries means deny-all.
IsAllowed(services, tsc) == \E e \in services : Matches(e, tsc)
=============================================================================
