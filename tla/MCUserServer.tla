---------------------------- MODULE MCUserServer ----------------------------
(***************************************************************************)
(* Two good policies and one with a broken data key; kube-apiserver,       *)
(* service and upgrade requests, one whose client sends the routing        *)
(* headers itself, one without the port and one whose URI does not parse.  *)
(***************************************************************************)
EXTENDS UserServer

Entry(s, port) == [namespace |-> "ns", service |-> s, port |-> port, protocol |-> Wildcard]

Good == [k1 |-> {Entry("a", Wildcard)}]
Later == [k1 |-> {Entry("b", "443")}]
Broken == [k1 |-> {Entry("b", Wildcard)}, k2 |-> Malformed]
FewConfigMaps == {Good, Later, Broken}

NoHeaders == [k \in Routing!Carried |-> <<>>]
OtherHeaders ==
    [proto |-> <<"http">>, namespace |-> <<"other">>, service |-> <<"b">>, port |-> <<"80">>]

ServiceURI(c, id) ==
    [segs |-> <<c, "api", "v1", "namespaces", "ns", "services", "text of id", "proxy-service", "ping?t=1">>,
     id |-> id, query |-> 9, bare |-> "ping"]
PodsURI(c) == [segs |-> <<c, "api", "pods?w=1">>, id |-> <<>>, query |-> 3, bare |-> "pods"]

Request(uri, headers, upgrade) == [uri |-> uri, headers |-> headers, upgrade |-> upgrade]
FewRequests ==
    UNION {{Request(PodsURI(c), NoHeaders, FALSE),
            Request(ServiceURI(c, <<"http", "a", "443">>), OtherHeaders, FALSE),
            Request(ServiceURI(c, <<"a">>), NoHeaders, TRUE),
            Request(ServiceURI(c, <<"ftp", "a", "21">>), NoHeaders, FALSE)} : c \in Clusters}
=============================================================================
