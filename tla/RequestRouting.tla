--------------------------- MODULE RequestRouting ---------------------------
(***************************************************************************)
(* How a request's URI becomes a target (user-server) and how the target   *)
(* becomes an address to dial on the managed cluster (service-proxy).      *)
(*                                                                         *)
(* A request URI is a record                                               *)
(*   segs   the text between slashes; segs[i] is Go's urlparams[i], whose  *)
(*          urlparams[0] is the empty text before the first slash          *)
(*   id     segs[7] split at its colons                                    *)
(*   query  the segment the "?" is in, 0 without one                       *)
(*   bare   the part of segs[query] before the "?"                         *)
(* The headers that carry a target are functions to the sequence of their  *)
(* values, as in http.Header, whose Get returns the first one.             *)
(***************************************************************************)
EXTENDS Naturals, Sequences

Empty == ""
Carried == {"proto", "namespace", "service", "port"}

\* GetProxyType: the query takes part in the split.
IsServiceRequest(uri) == Len(uri.segs) >= 9 /\ uri.segs[8] = "proxy-service"

\* SplitSchemeNamePort: "name", "name:port" or "scheme:name:port".
Scheme(id) == IF Len(id) = 3 THEN id[1] ELSE Empty
Name(id) == IF Len(id) = 3 THEN id[2] ELSE id[1]
Port(id) == IF Len(id) = 1 THEN Empty ELSE id[Len(id)]
ValidID(id) == Len(id) \in 1..3 /\ Name(id) # Empty /\ Scheme(id) \in {Empty, "http", "https"}

\* The segments from the i-th on, joined and cut at the "?".
PathFrom(uri, i) ==
    IF uri.query < i THEN SubSeq(uri.segs, i, Len(uri.segs))
    ELSE Append(SubSeq(uri.segs, i, uri.query - 1), uri.bare)

GetTargetServiceConfig(uri) ==
    [cluster |-> uri.segs[1], namespace |-> uri.segs[5], service |-> Name(uri.id),
     proto |-> IF Scheme(uri.id) = Empty THEN "https" ELSE Scheme(uri.id),
     port |-> Port(uri.id), path |-> PathFrom(uri, 9)]

GetTargetServiceConfigForKubeAPIServer(uri) ==
    [cluster |-> uri.segs[1], namespace |-> "default", service |-> "kubernetes",
     proto |-> "https", port |-> "443", path |-> PathFrom(uri, 2)]

\* The requests ServeHTTP does not answer with 400, and their target.
Parses(uri) == IF IsServiceRequest(uri) THEN ValidID(uri.id) ELSE Len(uri.segs) >= 2
TargetOf(uri) == IF IsServiceRequest(uri) THEN GetTargetServiceConfig(uri)
                 ELSE GetTargetServiceConfigForKubeAPIServer(uri)

\* Faulty variant: Header.Add instead of Set keeps what the client sent first.
UpdateRequestAdds(tsc, headers) == [k \in Carried |-> Append(headers[k], tsc[k])]

\* UpdateRequest: Header.Set replaces whatever the client sent.
UpdateRequest(tsc, headers) == [k \in Carried |-> <<tsc[k]>>]

\* GetTargetServiceURLFromRequest, on the agent.  Rejected stands for 400.
Get(headers, k) == IF headers[k] = <<>> THEN Empty ELSE Head(headers[k])
KubernetesFold == {"kubernetes", "Kubernetes"}   \* EqualFold, by a sample spelling
DefaultFold == {"default", "Default"}
Rejected == [kind |-> "rejected"]
KubeAPIServerURL == [kind |-> "kube-apiserver"]
GetTargetServiceURLFromRequest(headers) ==
    IF \E k \in Carried : Get(headers, k) = Empty THEN Rejected
    ELSE IF Get(headers, "service") \in KubernetesFold /\ Get(headers, "namespace") \in DefaultFold
         THEN KubeAPIServerURL
         ELSE [kind |-> "service", proto |-> Get(headers, "proto"), port |-> Get(headers, "port"),
               service |-> Get(headers, "service"), namespace |-> Get(headers, "namespace")]

\* What the managed cluster is asked for when the user-server forwards a request.
Dialled(uri, headers) == GetTargetServiceURLFromRequest(UpdateRequest(TargetOf(uri), headers))
=============================================================================
