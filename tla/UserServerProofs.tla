-------------------------- MODULE UserServerProofs --------------------------
(***************************************************************************)
(* Proofs about the user server's requests, for any clusters, handlers,    *)
(* requests, policies and changes: the server uses its pool as             *)
(* TransportPool says, checks the address that will be dialled, and        *)
(* forwards a request through a transport of its target cluster.           *)
(***************************************************************************)
EXTENDS UserServer, TLAPS

-----------------------------------------------------------------------------
(* Requests *)

\* A request at the policy check is for a known cluster.
RequestInv ==
    /\ DOMAIN req = Handlers
    /\ \A h \in Handlers : req[h].pc = "policy" => Target(req[h].r).cluster \in Clusters

\* What the informer has queued for the addon watcher is about known clusters.
AddonInv ==
    /\ allowed \subseteq Clusters
    /\ addonNotices \in Seq([type : {"set", "delete"}, key : Clusters, content : {Installed, Absent}])
    /\ addons \in [Clusters -> {Installed, Absent}] /\ addonStore \in [Clusters -> {Installed, Absent}]

UInv == RequestInv /\ AddonInv

\* What UpdateRequest writes is what the service-proxy reads.
LEMMA HeadersCarryTarget ==
    ASSUME NEW uri, NEW headers, NEW k \in Routing!Carried
    PROVE  Routing!Get(Routing!UpdateRequest(Routing!TargetOf(uri), headers), k) = Routing!TargetOf(uri)[k]
BY DEF Routing!Get, Routing!UpdateRequest

\* A kube-apiserver request dials the kube-apiserver.
LEMMA KubeAPIServerDialled ==
    ASSUME NEW uri, NEW headers, ~Routing!IsServiceRequest(uri)
    PROVE  Routing!Dialled(uri, headers) = Routing!KubeAPIServerURL
<1>1. /\ Routing!TargetOf(uri).namespace = "default" /\ Routing!TargetOf(uri).service = "kubernetes"
      /\ Routing!TargetOf(uri).proto = "https" /\ Routing!TargetOf(uri).port = "443"
  BY DEF Routing!TargetOf, Routing!GetTargetServiceConfigForKubeAPIServer
<1> QED
  BY <1>1, HeadersCarryTarget
  DEF Routing!Dialled, Routing!GetTargetServiceURLFromRequest, Routing!Carried, Routing!Empty,
      Routing!KubernetesFold, Routing!DefaultFold

\* An allowed target is what is dialled, or nothing is.
LEMMA AllowedDialled ==
    ASSUME NEW uri, NEW headers, NEW e, Policy!Matches(e, Routing!TargetOf(uri))
    PROVE  Routing!Dialled(uri, headers) = Routing!Rejected \/ Exposes(e, Routing!Dialled(uri, headers))
<1> DEFINE tsc == Routing!TargetOf(uri)
           sent == Routing!UpdateRequest(tsc, headers)
           url == Routing!Dialled(uri, headers)
<1>1. /\ Routing!Get(sent, "proto") = tsc.proto /\ Routing!Get(sent, "namespace") = tsc.namespace
      /\ Routing!Get(sent, "service") = tsc.service /\ Routing!Get(sent, "port") = tsc.port
  BY HeadersCarryTarget DEF Routing!Carried
<1>2. CASE \E k \in Routing!Carried : Routing!Get(sent, k) = Routing!Empty
  BY <1>2 DEF Routing!Dialled, Routing!GetTargetServiceURLFromRequest
<1>3. CASE /\ ~\E k \in Routing!Carried : Routing!Get(sent, k) = Routing!Empty
           /\ tsc.service \in Routing!KubernetesFold /\ tsc.namespace \in Routing!DefaultFold
  <2>1. url = Routing!KubeAPIServerURL
    BY <1>1, <1>3 DEF Routing!Dialled, Routing!GetTargetServiceURLFromRequest
  <2> QED
    BY <1>3, <2>1 DEF Exposes, Policy!Matches
<1>4. CASE /\ ~\E k \in Routing!Carried : Routing!Get(sent, k) = Routing!Empty
           /\ ~(tsc.service \in Routing!KubernetesFold /\ tsc.namespace \in Routing!DefaultFold)
  <2>1. url = [kind |-> "service", proto |-> tsc.proto, port |-> tsc.port,
               service |-> tsc.service, namespace |-> tsc.namespace]
    BY <1>1, <1>4 DEF Routing!Dialled, Routing!GetTargetServiceURLFromRequest
  <2>2. url # Routing!KubeAPIServerURL
    BY <2>1 DEF Routing!KubeAPIServerURL
  <2>3. url.namespace = tsc.namespace /\ url.service = tsc.service /\ url.port = tsc.port /\ url.proto = tsc.proto
    BY <2>1
  <2> HIDE DEF tsc, url
  <2>4. Policy!Matches(e, url)
    BY <2>3 DEF Policy!Matches, tsc
  <2> QED
    BY <2>2, <2>4 DEF Exposes, url
<1> QED
  BY <1>2, <1>3, <1>4
-----------------------------------------------------------------------------
(* Steps *)

\* Steps that neither a handler nor the addon watcher takes.
Elsewhere ==
    \/ ResyncConfig \/ InformConfig \/ DeliverConfig \/ Start \/ Cancel \/ Drain \/ ServerFails \/ Exit

\* What they leave alone.
LEMMA ElsewhereStep == Elsewhere => UNCHANGED <<poolVars, addonVars, req>>
BY DEF Elsewhere, ResyncConfig, InformConfig, DeliverConfig, Start, AddonWatcherStarted, AllowlistWatcherStarted,
  AbortInit, Cancel, Drain, ServerFails, Exit

\* Every step of the server is one of these.
LEMMA Steps ==
    [Next]_vars =>
        \/ ChangeObjects \/ InformAddons \/ ResyncAddons \/ StopInformers \/ DeliverAddon \/ RemoveClose
        \/ CloseAll \/ Elsewhere \/ UNCHANGED vars
        \/ \E h \in Handlers : (\E r \in Requests : Arrive(h, r)) \/ Decide(h) \/ ForwardDone(h)
BY DEF Next, Stop, Elsewhere

\* Every step keeps requests at the policy check to known clusters.
LEMMA RequestStep == UInv /\ [Next]_vars => RequestInv'
<1> SUFFICES ASSUME UInv, [Next]_vars PROVE RequestInv'
  OBVIOUS
<1>1. CASE UNCHANGED req
  BY <1>1 DEF UInv, RequestInv
<1>2. ASSUME NEW h \in Handlers, NEW q, req' = [req EXCEPT ![h] = q],
             q.pc = "policy" => Target(q.r).cluster \in Clusters
      PROVE  RequestInv'
  BY <1>2 DEF UInv, RequestInv
<1>3. ASSUME NEW h \in Handlers, Refuse(h) PROVE RequestInv'
  <2>1. NoRequest.pc # "policy" /\ req' = [req EXCEPT ![h] = NoRequest]
    BY <1>3 DEF Refuse, NoRequest
  <2> QED
    BY <1>2, <2>1
<1>4. ASSUME NEW pc, NEW r PROVE At(pc, r).pc = pc /\ At(pc, r).r = r
  BY DEF At
<1>5. ASSUME NEW h \in Handlers, NEW r, Acquire(h, r) PROVE RequestInv'
  BY <1>2, <1>4, <1>5 DEF Acquire
<1>6. ASSUME NEW h \in Handlers, NEW r, Arrive(h, r) PROVE RequestInv'
  <2> DEFINE q == IF Routing!Parses(r.uri) THEN At("member", r) ELSE NoRequest
  <2>1. req' = [req EXCEPT ![h] = q]
    BY <1>6 DEF Arrive
  <2>2. q.pc # "policy"
    BY DEF NoRequest, At
  <2> HIDE DEF q
  <2> QED
    BY <1>2, <2>1, <2>2
<1>7. ASSUME NEW h \in Handlers, CheckMember(h) PROVE RequestInv'
  <2>1. CASE Refuse(h) \/ Acquire(h, req[h].r)
    BY <1>3, <1>5, <2>1
  <2>2. CASE Pool!IsAllowed(Target(req[h].r).cluster) /\ req' = [req EXCEPT ![h] = At("policy", req[h].r)]
    <3>1. Target(At("policy", req[h].r).r).cluster \in Clusters
      BY <1>4, <2>2 DEF Pool!IsAllowed, UInv, AddonInv
    <3> QED
      BY <1>2, <2>2, <3>1
  <2> QED
    BY <1>7, <2>1, <2>2 DEF CheckMember
<1>8. ASSUME NEW h \in Handlers, CheckPolicy(h) PROVE RequestInv'
  BY <1>3, <1>5, <1>8 DEF CheckPolicy
<1>9. ASSUME NEW h \in Handlers, OpenTunnel(h) \/ Lookup(h) \/ LookupReturns(h) \/ ForwardDone(h) PROVE RequestInv'
  <2>1. NoRequest.pc # "policy"
    BY DEF NoRequest
  <2> QED
    BY <1>1, <1>2, <1>3, <1>4, <1>9, <2>1 DEF OpenTunnel, Lookup, LookupReturns, ForwardDone
<1>10. CASE \/ ChangeObjects \/ InformAddons \/ ResyncAddons \/ StopInformers \/ DeliverAddon \/ RemoveClose
            \/ CloseAll \/ UNCHANGED vars
  BY <1>1, <1>10 DEF ChangeObjects, InformAddons, ResyncAddons, StopInformers, DeliverAddon, RemoveClose,
    CloseAll, vars
<1> QED
  BY <1>1, <1>6, <1>7, <1>8, <1>9, <1>10, Steps, ElsewhereStep DEF Decide

\* order lists the n objects of S.
Lists(order, n, S) ==
    /\ order \in [1..n -> S]
    /\ \A i, j \in 1..n : i # j => order[i] # order[j]
    /\ \A k \in S : \E i \in 1..n : order[i] = k

\* An informer's initial list has each object once.
LEMMA ListedOnce ==
    ASSUME NEW S, NEW order, order \in Addon!Orders(S) \/ order \in Config!Orders(S)
    PROVE  \E n \in Nat : Lists(order, n, S)
BY DEF Addon!Orders, Config!Orders, Lists

\* The addon watcher is only told of known clusters.
LEMMA AddonStep == UInv /\ [Next]_vars => AddonInv'
<1> SUFFICES ASSUME AddonInv, [Next]_vars PROVE AddonInv'
  BY DEF UInv
<1> DEFINE Notice == [type : {"set", "delete"}, key : Clusters, content : {Installed, Absent}]
<1> USE DEF addonVars
<1>1. ASSUME allowed' \subseteq allowed, UNCHANGED addonVars PROVE AddonInv'
  BY <1>1 DEF AddonInv
<1>2. CASE ChangeObjects
  <2>1. CASE \E c \in Clusters, v \in {Installed, Absent} : Addon!Change(c, v)
    BY <1>2, <2>1 DEF ChangeObjects, Addon!Change, AddonInv, poolVars
  <2>2. CASE UNCHANGED addonVars
    BY <1>1, <1>2, <2>2 DEF ChangeObjects, poolVars
  <2> QED
    BY <1>2, <2>1, <2>2 DEF ChangeObjects
<1>3. CASE InformAddons
  <2>1. CASE Addon!List
    <3>1. PICK order \in Addon!Orders(Addon!Present(addons)) :
              addonNotices' = [i \in DOMAIN order |-> Addon!SetNotice(order[i], addons[order[i]])]
      BY <2>1 DEF Addon!List
    <3>2. PICK n \in Nat : Lists(order, n, Addon!Present(addons))
      BY <3>1, ListedOnce
    <3>3. order \in [1..n -> Addon!Present(addons)]
      BY <3>2 DEF Lists
    <3>4. \A i \in 1..n : Addon!SetNotice(order[i], addons[order[i]]) \in Notice
      BY <3>3 DEF Addon!SetNotice, Addon!Present, AddonInv
    <3>5. addonNotices' = [i \in 1..n |-> Addon!SetNotice(order[i], addons[order[i]])]
      BY <3>1, <3>3
    <3> HIDE DEF Notice
    <3>6. addonNotices' \in Seq(Notice)
      BY <3>4, <3>5
    <3> QED
      BY <1>3, <2>1, <3>6 DEF Addon!List, InformAddons, AddonInv, poolVars, Notice
  <2>2. ASSUME NEW c \in Clusters, Addon!Observe(c) PROVE AddonInv'
    <3>1. (IF addons[c] = Absent THEN Addon!DeleteNotice(c) ELSE Addon!SetNotice(c, addons[c])) \in Notice
      BY DEF Addon!DeleteNotice, Addon!SetNotice, AddonInv
    <3> HIDE DEF Notice
    <3>2. addonNotices' \in Seq(Notice)
      BY <2>2, <3>1 DEF Addon!Observe, AddonInv, Notice
    <3> QED
      BY <1>3, <2>2, <3>2 DEF Addon!Observe, InformAddons, AddonInv, poolVars, Notice
  <2> QED
    BY <1>3, <2>1, <2>2 DEF InformAddons
<1>4. CASE ResyncAddons
  <2>1. PICK c \in Clusters : Addon!Resync(c)
    BY <1>4 DEF ResyncAddons
  <2>2. Addon!SetNotice(c, addonStore[c]) \in Notice
    BY DEF Addon!SetNotice, AddonInv
  <2> QED
    BY <1>4, <2>1, <2>2 DEF ResyncAddons, Addon!Resync, AddonInv, poolVars
<1>5. CASE StopInformers
  <2> HIDE DEF Notice
  <2>1. <<>> \in Seq(Notice)
    OBVIOUS
  <2> QED
    BY <1>5, <2>1 DEF StopInformers, Addon!DropNotices, AddonInv, poolVars, Notice
<1>6. CASE DeliverAddon
  <2> HIDE DEF Notice
  <2>1. addonNotices \in Seq(Notice) /\ addonNotices # <<>>
    BY <1>6 DEF DeliverAddon, Addon!Take, AddonInv, Notice
  <2>2. Head(addonNotices) \in Notice /\ Tail(addonNotices) \in Seq(Notice)
    BY <2>1
  <2>3. Head(addonNotices).key \in Clusters
    BY <2>2 DEF Notice
  <2> QED
    BY <1>6, <2>2, <2>3
    DEF DeliverAddon, Addon!Take, HandleAddonEvent, Pool!Allow, Pool!Remove, AddonInv, Notice
<1>7. CASE RemoveClose \/ CloseAll
  BY <1>1, <1>7 DEF RemoveClose, Pool!RemoveClose, CloseAll, Pool!CloseAll, Pool!CloserNext, Pool!CloseAllNext,
    Pool!CloseAllReturn
<1>8. CASE Elsewhere \/ UNCHANGED vars
  BY <1>1, <1>8, ElsewhereStep DEF vars, poolVars
<1>9. ASSUME NEW h \in Handlers, (\E r \in Requests : Arrive(h, r)) \/ Decide(h) \/ ForwardDone(h)
      PROVE  allowed' = allowed /\ UNCHANGED addonVars
  BY <1>9 DEF Arrive, Decide, ForwardDone, CheckMember, CheckPolicy, OpenTunnel, Lookup, LookupReturns, Refuse,
    Acquire, Pool!Call, Pool!GetOrCreateRead, Pool!GetOrCreateWrite, Pool!Finish, poolVars
<1> QED
  BY <1>1, <1>2, <1>3, <1>4, <1>5, <1>6, <1>7, <1>8, <1>9, Steps

\* The inductive invariant that the pool's use rests on.
LEMMA ServerInvariant == SafetySpec => []UInv
<1>1. Init => UInv
  <2> SUFFICES ASSUME Init PROVE UInv
    OBVIOUS
  <2>1. RequestInv
    BY DEF Init, RequestInv, NoRequest
  <2>2. AddonInv
    BY DEF Init, AddonInv, Pool!Init, Addon!Init
  <2> QED
    BY <2>1, <2>2 DEF UInv
<1>2. UInv /\ [Next]_vars => UInv'
  BY RequestStep, AddonStep DEF UInv
<1> QED
  BY <1>1, <1>2, PTL DEF SafetySpec
-----------------------------------------------------------------------------
(* The pool *)

\* Seen through the pool, every step is one of TransportPool's, or none.
LEMMA PoolStep == UInv /\ [Next]_vars => [Pool!Next]_(Pool!vars)
<1> SUFFICES ASSUME UInv, [Next]_vars PROVE [Pool!Next]_(Pool!vars)
  OBVIOUS
<1>1. CASE UNCHANGED poolVars
  BY <1>1 DEF poolVars, Pool!vars
<1>2. CASE DeliverAddon
  <2>1. Head(addonNotices).key \in Clusters
    <3> DEFINE Notice == [type : {"set", "delete"}, key : Clusters, content : {Installed, Absent}]
    <3> HIDE DEF Notice
    <3>1. addonNotices \in Seq(Notice) /\ addonNotices # <<>>
      BY <1>2 DEF DeliverAddon, Addon!Take, UInv, AddonInv, Notice
    <3>2. Head(addonNotices) \in Notice
      BY <3>1
    <3> QED
      BY <3>2 DEF Notice
  <2> QED
    BY <1>2, <2>1 DEF DeliverAddon, HandleAddonEvent, Pool!Next
<1>3. CASE RemoveClose \/ CloseAll
  BY <1>3 DEF RemoveClose, CloseAll, Pool!Next
<1>4. ASSUME NEW h \in Handlers, NEW r, Acquire(h, r), Target(r).cluster \in Clusters
      PROVE  [Pool!Next]_(Pool!vars)
  BY <1>1, <1>4 DEF Acquire, Pool!Next
<1>5. ASSUME NEW h \in Handlers, CheckMember(h) PROVE [Pool!Next]_(Pool!vars)
  <2>1. CASE Pool!IsAllowed(Target(req[h].r).cluster) /\ Acquire(h, req[h].r)
    BY <1>4, <2>1 DEF Pool!IsAllowed, UInv, AddonInv
  <2> QED
    BY <1>1, <1>5, <2>1 DEF CheckMember, Refuse
<1>6. ASSUME NEW h \in Handlers, CheckPolicy(h) PROVE [Pool!Next]_(Pool!vars)
  <2>1. Target(req[h].r).cluster \in Clusters
    BY <1>6 DEF CheckPolicy, UInv, RequestInv
  <2> QED
    BY <1>1, <1>4, <1>6, <2>1 DEF CheckPolicy, Refuse
<1>7. ASSUME NEW h \in Handlers, Lookup(h) \/ LookupReturns(h) \/ ForwardDone(h) PROVE [Pool!Next]_(Pool!vars)
  BY <1>1, <1>7 DEF Lookup, LookupReturns, ForwardDone, Pool!Next, Pool!GetterNext
<1>8. ASSUME NEW h \in Handlers, (\E r \in Requests : Arrive(h, r)) \/ OpenTunnel(h) PROVE UNCHANGED poolVars
  BY <1>8 DEF Arrive, OpenTunnel, Refuse
<1>9. CASE ChangeObjects \/ InformAddons \/ ResyncAddons \/ StopInformers \/ UNCHANGED vars
  BY <1>1, <1>9 DEF ChangeObjects, InformAddons, ResyncAddons, StopInformers, vars
<1> QED
  BY <1>1, <1>2, <1>3, <1>5, <1>6, <1>7, <1>8, <1>9, Steps, ElsewhereStep DEF Decide

\* For any clusters, handlers and requests: the server calls its pool as
\* TransportPool says, so the theorems about the pool hold inside the server.
THEOREM ServerUsesPool == SafetySpec => PoolUsedAsSpecified
<1>1. Init => Pool!Init
  BY DEF Init
<1> QED
  BY <1>1, PoolStep, ServerInvariant, PTL DEF SafetySpec, PoolUsedAsSpecified, Pool!SafetySpec
-----------------------------------------------------------------------------
(* The policy *)

\* The property's condition on handler h.
ChecksDialled(h) ==
    req[h].pc \in {"member", "policy"} /\ req'[h].pc \in {"tunnel", "lookup"} =>
        LET r == req[h].r
            url == Routing!Dialled(r.uri, r.headers)
        IN \/ url = Routing!Rejected
           \/ url = Routing!KubeAPIServerURL /\ ~Routing!IsServiceRequest(r.uri)
           \/ \E e \in allowlist : Exposes(e, url)

\* A step that lets h past the policy checks is h's own.
LEMMA OwnStep ==
    ASSUME UInv, Next, NEW h \in Handlers,
           req[h].pc \in {"member", "policy"}, req'[h].pc \in {"tunnel", "lookup"}
    PROVE  CheckMember(h) \/ CheckPolicy(h)
<1>1. req'[h] # req[h]
  OBVIOUS
<1>2. ASSUME NEW g \in Handlers, NEW q, req' = [req EXCEPT ![g] = q] PROVE g = h
  BY <1>1, <1>2 DEF UInv, RequestInv
<1>3. ASSUME NEW q, req' = [req EXCEPT ![h] = q] PROVE req'[h] = q
  BY <1>3 DEF UInv, RequestInv
<1>4. ASSUME NEW g \in Handlers, (\E r \in Requests : Arrive(g, r)) \/ OpenTunnel(g) \/ LookupReturns(g) \/ ForwardDone(g)
      PROVE  FALSE
  <2>1. CASE \E r \in Requests : Arrive(g, r)
    <3>1. g = h
      BY <1>2, <2>1 DEF Arrive
    <3> QED
      BY <2>1, <3>1 DEF Arrive, NoRequest
  <2>2. CASE OpenTunnel(g)
    <3>1. g = h
      BY <1>2, <2>2 DEF OpenTunnel, Refuse
    <3> QED
      BY <2>2, <3>1 DEF OpenTunnel
  <2>3. CASE LookupReturns(g)
    <3>1. g = h
      BY <1>2, <2>3 DEF LookupReturns
    <3> QED
      BY <2>3, <3>1 DEF LookupReturns
  <2>4. CASE ForwardDone(g)
    <3>1. g = h
      BY <1>2, <2>4 DEF ForwardDone
    <3> QED
      BY <2>4, <3>1 DEF ForwardDone
  <2> QED
    BY <1>4, <2>1, <2>2, <2>3, <2>4
<1>5. ASSUME NEW g \in Handlers, CheckMember(g) PROVE g = h
  BY <1>2, <1>5 DEF CheckMember, Refuse, Acquire
<1>6. ASSUME NEW g \in Handlers, CheckPolicy(g) PROVE g = h
  BY <1>2, <1>6 DEF CheckPolicy, Refuse, Acquire
<1>7. CASE \/ ChangeObjects \/ InformAddons \/ ResyncAddons \/ StopInformers \/ DeliverAddon \/ RemoveClose
           \/ CloseAll \/ UNCHANGED vars
  BY <1>1, <1>7 DEF ChangeObjects, InformAddons, ResyncAddons, StopInformers, DeliverAddon, RemoveClose,
    CloseAll, vars
<1>8. ASSUME NEW g \in Handlers PROVE ~Lookup(g)
  BY <1>1 DEF Lookup
<1> QED
  BY <1>1, <1>4, <1>5, <1>6, <1>7, <1>8, Steps, ElsewhereStep DEF Decide

\* For any requests, headers and policies: what gets past the policy checks dials
\* the kube-apiserver if it asked for it, what an entry exposes, or nothing.
THEOREM PolicyGuardsDialling == SafetySpec => PolicyChecksWhatIsDialled
<1>1. ASSUME UInv, Next, NEW h \in Handlers PROVE ChecksDialled(h)
  <2> SUFFICES ASSUME req[h].pc \in {"member", "policy"}, req'[h].pc \in {"tunnel", "lookup"}
               PROVE  ChecksDialled(h)
    BY DEF ChecksDialled
  <2> DEFINE r == req[h].r
  <2>1. CASE CheckMember(h)
    <3>1. ~Routing!IsServiceRequest(r.uri)
      <4>1. ASSUME Refuse(h) PROVE FALSE
        <5>1. req'[h] = NoRequest
          BY <1>1, <4>1 DEF Refuse, UInv, RequestInv
        <5> QED
          BY <5>1 DEF NoRequest
      <4>2. ASSUME req' = [req EXCEPT ![h] = At("policy", r)] PROVE FALSE
        <5>1. req'[h] = At("policy", r)
          BY <1>1, <4>2 DEF UInv, RequestInv
        <5> QED
          BY <5>1 DEF At
      <4> QED
        BY <2>1, <4>1, <4>2 DEF CheckMember
    <3> QED
      BY <3>1, KubeAPIServerDialled DEF ChecksDialled
  <2>2. CASE CheckPolicy(h)
    <3>1. Policy!IsAllowed(allowlist, Target(r))
      <4>1. ASSUME Refuse(h) PROVE FALSE
        <5>1. req'[h] = NoRequest
          BY <1>1, <4>1 DEF Refuse, UInv, RequestInv
        <5> QED
          BY <5>1 DEF NoRequest
      <4> QED
        BY <2>2, <4>1 DEF CheckPolicy
    <3>2. PICK e \in allowlist : Policy!Matches(e, Routing!TargetOf(r.uri))
      BY <3>1 DEF Policy!IsAllowed, Target
    <3> QED
      BY <3>2, AllowedDialled DEF ChecksDialled
  <2> QED
    BY <1>1, <2>1, <2>2, OwnStep
<1>2. UInv /\ [Next]_vars => [\A h \in Handlers : ChecksDialled(h)]_vars
  BY <1>1
<1> QED
  BY <1>2, ServerInvariant, PTL DEF SafetySpec, PolicyChecksWhatIsDialled, ChecksDialled
-----------------------------------------------------------------------------
(* What the theorems about the pool say of the server *)

PoolFacts == INSTANCE TransportPoolProofs WITH Getters <- Handlers

\* The invariant of the pool holds in the server.
LEMMA ServersPool == SafetySpec => []PoolFacts!IInv
<1>1. Pool!Init => PoolFacts!Init
  BY DEF Pool!Init, PoolFacts!Init, Pool!Idle, PoolFacts!Idle
<1>2. [Pool!Next]_(Pool!vars) => [PoolFacts!Next]_(PoolFacts!vars)
  <2>1. Pool!vars = PoolFacts!vars /\ Pool!vars' = PoolFacts!vars'
    BY DEF Pool!vars, PoolFacts!vars
  <2>2. Pool!Next => PoolFacts!Next
    BY DEF Pool!Next, PoolFacts!Next, Pool!Call, PoolFacts!Call, Pool!GetterNext, PoolFacts!GetterNext,
      Pool!GetOrCreateRead, PoolFacts!GetOrCreateRead, Pool!GetOrCreateWrite, PoolFacts!GetOrCreateWrite,
      Pool!ReadSection, PoolFacts!ReadSection, Pool!WriteSection, PoolFacts!WriteSection,
      Pool!Finish, PoolFacts!Finish, Pool!Idle, PoolFacts!Idle, Pool!Reading, PoolFacts!Reading,
      Pool!Locking, PoolFacts!Locking, Pool!Returned, PoolFacts!Returned, Pool!Allow, PoolFacts!Allow,
      Pool!Remove, PoolFacts!Remove, Pool!ListenerFree, PoolFacts!ListenerFree, Pool!Cached, PoolFacts!Cached,
      Pool!RemoveClose, PoolFacts!RemoveClose, Pool!CloseAll, PoolFacts!CloseAll,
      Pool!CloserNext, PoolFacts!CloserNext, Pool!CloseAllNext, PoolFacts!CloseAllNext,
      Pool!CloseAllReturn, PoolFacts!CloseAllReturn
  <2> QED
    BY <2>1, <2>2
<1>3. PoolUsedAsSpecified => PoolFacts!SafetySpec
  BY <1>1, <1>2, PTL DEF PoolUsedAsSpecified, Pool!SafetySpec, PoolFacts!SafetySpec
<1>4. PoolFacts!SafetySpec => []PoolFacts!IInv
  BY PoolFacts!PoolInvariant, ServerAssumption
<1> QED
  BY <1>3, <1>4, ServerUsesPool, PTL

\* For any clusters, handlers and changes: inside the server the pool loses no
\* transport, and caches transports only for members.
THEOREM ServerKeepsPool == SafetySpec => []Pool!NoTransportLost /\ []Pool!CachedImpliesAllowed
<1>1. PoolFacts!IInv => Pool!CachedImpliesAllowed /\ Pool!NoTransportLost
  BY DEF PoolFacts!IInv, PoolFacts!CachedImpliesAllowed, PoolFacts!NoTransportLost, PoolFacts!Evicted,
    Pool!CachedImpliesAllowed, Pool!NoTransportLost, Pool!Evicted
<1> QED
  BY <1>1, ServersPool, PTL

\* Where a handler is in ServeHTTP, and the progress s of its getOrCreate: a
\* request that needs the pool holds a transport of its target's cluster, or waits
\* for one, and every other handler is free to call getOrCreate.
Uses(q) == q.pc = "lookup" \/ (q.pc = "forward" /\ ~q.r.upgrade)
Fits(q, s) ==
    /\ ~Uses(q) => s = Pool!Idle
    /\ Uses(q) => s.pc # "idle" /\ s.cluster = Target(q.r).cluster
    /\ Uses(q) /\ q.pc = "forward" => s.pc = "done" /\ s.transport # 0
    /\ s.pc = "done" => s.transport \in 0..made[s.cluster]
    /\ q.pc = "tunnel" => q.r.upgrade
    /\ q.pc = "lookup" => ~q.r.upgrade

\* ServeHTTP forwards a request through a transport made for the cluster that it
\* was checked for, however handlers, add-on events and the end of Run interleave.
ForwardsToTarget == \A h \in Handlers : Fits(req[h], getter[h])

\* Steps that take neither a handler nor its getOrCreate any further.
LEMMA OthersFit ==
    ASSUME ForwardsToTarget, UNCHANGED <<req, getter, made>>
    PROVE  ForwardsToTarget'
BY DEF ForwardsToTarget, Fits, Uses

\* A handler moves on, and so may its getOrCreate.
LEMMA HandlerFits ==
    ASSUME UInv, PoolFacts!IInv, ForwardsToTarget, NEW h \in Handlers, NEW q, NEW s, Fits(q, s)',
           UNCHANGED made, req' = [req EXCEPT ![h] = q], getter' = [getter EXCEPT ![h] = s]
    PROVE  ForwardsToTarget'
<1>1. DOMAIN req = Handlers /\ DOMAIN getter = Handlers
  BY DEF UInv, RequestInv, PoolFacts!IInv, PoolFacts!TypeOK
<1>2. \A g \in Handlers \ {h} : req'[g] = req[g] /\ getter'[g] = getter[g]
  BY <1>1
<1>3. req'[h] = q /\ getter'[h] = s
  BY <1>1
<1>4. \A g \in Handlers \ {h} : Fits(req[g], getter[g])'
  BY SMTT(20), <1>2 DEF ForwardsToTarget, Fits, Uses
<1>5. Fits(req[h], getter[h])'
  BY <1>3 DEF Fits, Uses
<1> QED
  BY <1>4, <1>5 DEF ForwardsToTarget

\* getOrCreate of h goes on, or the pool makes a transport for it.
LEMMA LookupFits ==
    ASSUME UInv, PoolFacts!IInv, ForwardsToTarget, NEW h \in Handlers, Lookup(h)
    PROVE  ForwardsToTarget'
<1> DEFINE c == getter[h].cluster
<1>1. /\ DOMAIN getter = Handlers /\ getter[h].pc \in {"read", "lock"} /\ c \in Clusters
      /\ made \in [Clusters -> Nat] /\ transports[c] \in 0..made[c]
      /\ \A g \in Handlers : getter[g].pc = "done" => getter[g].cluster \in Clusters
  BY DEF Lookup, Pool!GetOrCreateRead, Pool!GetOrCreateWrite, PoolFacts!IInv, PoolFacts!TypeOK,
    PoolFacts!GetterStates, PoolFacts!Idle, PoolFacts!EvictionInv
<1>2. Uses(req[h]) /\ req[h].pc # "forward" /\ c = Target(req[h].r).cluster /\ Fits(req[h], getter[h])
  BY <1>1 DEF ForwardsToTarget, Fits, Pool!Idle
<1>3. /\ UNCHANGED req
      /\ \/ getter' = [getter EXCEPT ![h] = Pool!Locking(c)] /\ UNCHANGED made
         \/ \E k \in 0..made[c] : getter' = [getter EXCEPT ![h] = Pool!Returned(c, k)] /\ UNCHANGED made
         \/ /\ getter' = [getter EXCEPT ![h] = Pool!Returned(c, made[c] + 1)]
            /\ made' = [made EXCEPT ![c] = @ + 1]
  BY <1>1 DEF Lookup, Pool!GetOrCreateRead, Pool!GetOrCreateWrite, Pool!ReadSection, Pool!WriteSection
<1>4. \A d \in Clusters : made[d] \in Nat /\ made'[d] \in Nat /\ made[d] <= made'[d]
  <2>1. made' = made \/ made' = [made EXCEPT ![c] = made[c] + 1]
    BY <1>3
  <2>2. made \in [Clusters -> Nat] /\ c \in Clusters
    BY <1>1
  <2> HIDE DEF c
  <2> QED
    BY <2>1, <2>2
<1>5. \A g \in Handlers \ {h} : Fits(req[g], getter[g])'
  <2> SUFFICES ASSUME NEW g \in Handlers \ {h} PROVE Fits(req[g], getter[g])'
    OBVIOUS
  <2>1. req'[g] = req[g] /\ getter'[g] = getter[g]
    BY <1>1, <1>3
  <2>2. Fits(req[g], getter[g])
    BY DEF ForwardsToTarget
  <2>3. getter[g].pc = "done" => getter[g].transport \in 0..made'[getter[g].cluster]
    BY <1>1, <1>4, <2>2 DEF Fits
  <2> QED
    BY <2>1, <2>2, <2>3 DEF Fits, Uses
<1>6. Fits(req[h], getter[h])'
  <2>1. /\ req'[h] = req[h] /\ getter'[h].pc \in {"lock", "done"} /\ getter'[h].cluster = c
        /\ getter'[h].pc = "done" => getter'[h].transport \in 0..made'[c]
    BY <1>1, <1>3 DEF Pool!Locking, Pool!Returned
  <2> QED
    BY <1>2, <2>1 DEF Fits, Uses
<1> QED
  BY <1>5, <1>6 DEF ForwardsToTarget

\* Every step of the server keeps requests to transports of their own clusters.
LEMMA ForwardStep == UInv /\ PoolFacts!IInv /\ ForwardsToTarget /\ [Next]_vars => ForwardsToTarget'
<1> SUFFICES ASSUME UInv, PoolFacts!IInv, ForwardsToTarget, [Next]_vars PROVE ForwardsToTarget'
  OBVIOUS
<1>1. ASSUME NEW pc, NEW r PROVE At(pc, r).pc = pc /\ At(pc, r).r = r
  BY DEF At
<1>2. ~Uses(NoRequest) /\ NoRequest.pc = "idle" /\ Pool!Idle.pc = "idle"
  BY DEF Uses, NoRequest, Pool!Idle
<1>3. ASSUME NEW h \in Handlers PROVE getter = [getter EXCEPT ![h] = getter[h]] /\ Fits(req[h], getter[h])
  BY DEF PoolFacts!IInv, PoolFacts!TypeOK, ForwardsToTarget
<1>4. ASSUME NEW h \in Handlers, NEW q, ~Uses(q), q.pc = "tunnel" => q.r.upgrade, ~Uses(req[h]),
             req' = [req EXCEPT ![h] = q], UNCHANGED poolVars
      PROVE  ForwardsToTarget'
  <2>1. getter[h] = Pool!Idle
    BY <1>3, <1>4 DEF Fits
  <2>2. Fits(q, Pool!Idle)'
    BY <1>2, <1>4 DEF Fits, Uses
  <2>3. getter' = [getter EXCEPT ![h] = Pool!Idle] /\ UNCHANGED made
    BY <1>3, <1>4, <2>1 DEF poolVars
  <2> QED
    BY <1>4, <2>2, <2>3, HandlerFits
<1>5. ASSUME NEW h \in Handlers, NEW r, ~Uses(req[h]), Acquire(h, r) PROVE ForwardsToTarget'
  <2>1. CASE r.upgrade /\ req' = [req EXCEPT ![h] = At("tunnel", r)] /\ UNCHANGED poolVars
    <3>1. ~Uses(At("tunnel", r)) /\ At("tunnel", r).r = r
      BY <1>1 DEF Uses
    <3> QED
      BY <1>4, <1>5, <2>1, <3>1
  <2>2. CASE ~r.upgrade /\ req' = [req EXCEPT ![h] = At("lookup", r)] /\ Pool!Call(h, Target(r).cluster)
    <3>1. Fits(At("lookup", r), Pool!Reading(Target(r).cluster))'
      BY SMTT(20), <1>1, <2>2 DEF Fits, Uses, Pool!Reading
    <3>2. getter' = [getter EXCEPT ![h] = Pool!Reading(Target(r).cluster)] /\ UNCHANGED made
      BY <2>2 DEF Pool!Call
    <3> QED
      BY <2>2, <3>1, <3>2, HandlerFits
  <2> QED
    BY <1>5, <2>1, <2>2 DEF Acquire
<1>6. ASSUME NEW h \in Handlers, NEW r, Arrive(h, r) PROVE ForwardsToTarget'
  <2> DEFINE q == IF Routing!Parses(r.uri) THEN At("member", r) ELSE NoRequest
  <2>1. req' = [req EXCEPT ![h] = q] /\ UNCHANGED poolVars /\ req[h] = NoRequest
    BY <1>6 DEF Arrive
  <2>2. ~Uses(q) /\ q.pc # "tunnel"
    BY <1>1, <1>2 DEF Uses
  <2> HIDE DEF q
  <2> QED
    BY <1>2, <1>4, <2>1, <2>2
<1>7. ASSUME NEW h \in Handlers, CheckMember(h) \/ CheckPolicy(h) PROVE ForwardsToTarget'
  <2>1. ~Uses(req[h])
    BY <1>7 DEF CheckMember, CheckPolicy, Uses
  <2>2. CASE Refuse(h)
    BY <1>2, <1>4, <2>1, <2>2 DEF Refuse
  <2>3. CASE req' = [req EXCEPT ![h] = At("policy", req[h].r)] /\ UNCHANGED poolVars
    <3>1. ~Uses(At("policy", req[h].r)) /\ At("policy", req[h].r).pc # "tunnel"
      BY <1>1 DEF Uses
    <3> QED
      BY <1>4, <2>1, <2>3, <3>1
  <2> QED
    BY <1>5, <1>7, <2>1, <2>2, <2>3 DEF CheckMember, CheckPolicy
<1>8. ASSUME NEW h \in Handlers, OpenTunnel(h) PROVE ForwardsToTarget'
  <2>1. ~Uses(req[h]) /\ req[h].r.upgrade
    BY <1>3, <1>8 DEF OpenTunnel, Fits, Uses
  <2>2. ~Uses(At("forward", req[h].r)) /\ At("forward", req[h].r).pc # "tunnel"
    BY <1>1, <2>1 DEF Uses
  <2> QED
    BY <1>2, <1>4, <1>8, <2>1, <2>2 DEF OpenTunnel, Refuse
<1>9. ASSUME NEW h \in Handlers, LookupReturns(h) PROVE ForwardsToTarget'
  <2>1. Fits(NoRequest, Pool!Idle)'
    BY <1>2 DEF Fits, Uses, NoRequest, Pool!Idle
  <2>2. CASE Pool!Finish(h) /\ req' = [req EXCEPT ![h] = NoRequest]
    BY <2>1, <2>2, HandlerFits DEF Pool!Finish
  <2>3. CASE getter[h].transport # 0 /\ req' = [req EXCEPT ![h] = At("forward", req[h].r)] /\ UNCHANGED poolVars
    <3>1. Fits(req[h], getter[h]) /\ req[h].pc = "lookup" /\ getter[h].pc = "done"
      BY <1>3, <1>9 DEF LookupReturns
    <3>2. getter' = [getter EXCEPT ![h] = getter[h]] /\ UNCHANGED made
      BY <1>3, <2>3 DEF poolVars
    <3>3. PICK q, s : q = At("forward", req[h].r) /\ s = getter[h]
      OBVIOUS
    <3>4. Fits(q, s)'
      BY SMTT(20), <1>1, <2>3, <3>1, <3>2, <3>3 DEF Fits, Uses
    <3> QED
      BY <2>3, <3>2, <3>3, <3>4, HandlerFits
  <2> QED
    BY <1>9, <2>2, <2>3 DEF LookupReturns
<1>10. ASSUME NEW h \in Handlers, ForwardDone(h) PROVE ForwardsToTarget'
  <2>1. Fits(NoRequest, Pool!Idle)'
    BY <1>2 DEF Fits, Uses, NoRequest, Pool!Idle
  <2>2. CASE req[h].r.upgrade /\ UNCHANGED poolVars
    <3>1. ~Uses(req[h])
      BY <1>10, <2>2 DEF ForwardDone, Uses
    <3> QED
      BY <1>2, <1>4, <1>10, <2>2, <3>1 DEF ForwardDone
  <2>3. CASE Pool!Finish(h)
    BY <1>10, <2>1, <2>3, HandlerFits DEF ForwardDone, Pool!Finish
  <2> QED
    BY <1>10, <2>2, <2>3 DEF ForwardDone
<1>11. CASE \/ ChangeObjects \/ InformAddons \/ ResyncAddons \/ StopInformers \/ DeliverAddon \/ RemoveClose
            \/ CloseAll \/ Elsewhere \/ UNCHANGED vars
  <2>1. UNCHANGED <<req, getter, made>>
    BY <1>11, ElsewhereStep DEF ChangeObjects, InformAddons, ResyncAddons, StopInformers, DeliverAddon,
      HandleAddonEvent, RemoveClose, CloseAll, Pool!Allow, Pool!Remove, Pool!RemoveClose, Pool!CloseAll,
      Pool!CloserNext, Pool!CloseAllNext, Pool!CloseAllReturn, poolVars, vars
  <2> QED
    BY <2>1, OthersFit
<1> QED
  BY <1>6, <1>7, <1>8, <1>9, <1>10, <1>11, LookupFits, Steps DEF Decide

\* For any clusters, handlers and requests: what is forwarded for a request goes
\* through a transport that the pool made for the request's target cluster.
THEOREM RequestsReachTarget == SafetySpec => []ForwardsToTarget
<1>1. Init => ForwardsToTarget
  BY SMTT(20) DEF Init, Pool!Init, ForwardsToTarget, Fits, Uses, NoRequest, Pool!Idle
<1> QED
  BY <1>1, ForwardStep, ServerInvariant, ServersPool, PTL DEF SafetySpec
=============================================================================
