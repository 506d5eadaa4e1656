----------------------------- MODULE UserServer -----------------------------
(***************************************************************************)
(* The user-server process: Run's life cycle, the two informer-driven      *)
(* watchers it starts in init, and ServeHTTP handling requests             *)
(* concurrently on top of the transport pool and the service allowlist.    *)
(*                                                                         *)
(* The process goes through the phases                                     *)
(*   "addons"     init waits for the ManagedClusterAddOn informer          *)
(*   "allowlist"  init waits for the exposed-services ConfigMap informer   *)
(*   "serving"    RunHTTPServers serves                                    *)
(*   "draining"   runCtx is done, readiness is off, listeners still open   *)
(*   "shutdown"   http.Server.Shutdown: no new requests                    *)
(*   "closing"    RunHTTPServers returned, the deferred closeAll runs      *)
(*   "exited"     Run returned and the process ends                        *)
(* runCtx is done after SIGTERM or a TLS ConfigMap change; it stops the    *)
(* informers.  A failing HTTP server skips the drain: closeAll then runs   *)
(* before the deferred cancel, with the informers still going.             *)
(***************************************************************************)
EXTENDS Naturals, Sequences

CONSTANTS Clusters,        \* managed clusters
          Handlers,        \* concurrent ServeHTTP goroutines
          Requests,        \* [uri, headers, upgrade], see RequestRouting
          ConfigMaps,      \* contents the exposed-services ConfigMap may have
          Malformed, Wildcard,\* see ServiceAllowlist
          Absent,          \* an API object that does not exist
          MaxChanges,      \* bound: changes made to API objects
          MaxNotices,      \* bound: see Informer
          MaxTransports    \* bound: see TransportPool

ASSUME ServerAssumption == MaxTransports \in Nat

VARIABLES allowed, transports, made, closed, getter, removing, closing, closer,
          addons, addonStore, addonSynced, addonNotices,
          configMap, configStore, configSynced, configNotices,
          lastGood,        \* history: the last-known-good list, see GoodList
          allowlist,       \* ServiceAllowlist.services
          req,             \* req[h]: where handler h is in ServeHTTP
          phase,           \* life cycle of Run
          cancelled,       \* runCtx is done
          changes          \* changes made to API objects so far

poolVars == <<allowed, transports, made, closed, getter, removing, closing, closer>>
addonVars == <<addons, addonStore, addonSynced, addonNotices>>
configVars == <<configMap, configStore, configSynced, configNotices, lastGood>>
vars == <<poolVars, addonVars, configVars, allowlist, req, phase, cancelled, changes>>

Installed == "cluster-proxy"
ConfigMapName == "exposed-services"

Pool == INSTANCE TransportPool WITH Getters <- Handlers
Policy == INSTANCE ServiceAllowlist
Routing == INSTANCE RequestRouting
Life == INSTANCE ServerLifecycle
Addon == INSTANCE Informer WITH
    Keys <- Clusters, Contents <- {Installed},
    object <- addons, store <- addonStore, hasSynced <- addonSynced, notices <- addonNotices
Config == INSTANCE Informer WITH
    Keys <- {ConfigMapName}, Contents <- ConfigMaps,
    object <- configMap, store <- configStore, hasSynced <- configSynced, notices <- configNotices

NoRequest == [pc |-> "idle"]
At(pc, r) == [pc |-> pc, r |-> r]

Init ==
    /\ Pool!Init
    /\ Addon!Init
    /\ Config!Init
    /\ lastGood = {}
    /\ allowlist = {}
    /\ req = [h \in Handlers |-> NoRequest]
    /\ phase = "addons"
    /\ cancelled = FALSE
    /\ changes = 0

Running == phase # "exited"
-----------------------------------------------------------------------------
(* The hub's API objects, and the two informers *)

ChangeObjects ==
    /\ Running
    /\ changes < MaxChanges
    /\ changes' = changes + 1
    /\ \/ /\ \E c \in Clusters, v \in {Installed, Absent} : Addon!Change(c, v)
          /\ UNCHANGED configVars
       \/ /\ \E v \in ConfigMaps \cup {Absent} : Config!Change(ConfigMapName, v)
          /\ UNCHANGED <<addonVars, lastGood>>
    /\ UNCHANGED <<poolVars, allowlist, req, phase, cancelled>>

\* Informers run from their Start in init until runCtx is done.
InformAddons ==
    /\ Running /\ ~cancelled
    /\ Addon!List \/ \E c \in Clusters : Addon!Observe(c)
    /\ UNCHANGED <<poolVars, configVars, allowlist, req, phase, cancelled, changes>>

\* The last-known-good list once the ConfigMap is v, if it was l: v's own, none if
\* it is gone, and still l if v does not parse.
GoodList(v, l) ==
    IF v = Absent THEN {} ELSE IF Policy!Parses(v) THEN Policy!ParseAllExposedServices(v) ELSE l

InformConfig ==
    /\ Running /\ ~cancelled /\ phase # "addons"
    /\ Config!List \/ Config!Observe(ConfigMapName)
    /\ lastGood' = GoodList(configStore'[ConfigMapName], lastGood)
    /\ UNCHANGED <<poolVars, addonVars, allowlist, req, phase, cancelled, changes>>

ResyncAddons ==
    /\ Running /\ ~cancelled
    /\ \E c \in Clusters : Addon!Resync(c)
    /\ UNCHANGED <<poolVars, configVars, allowlist, req, phase, cancelled, changes>>

ResyncConfig ==
    /\ Running /\ ~cancelled
    /\ Config!Resync(ConfigMapName)
    /\ UNCHANGED <<poolVars, addonVars, lastGood, allowlist, req, phase, cancelled, changes>>

StopInformers ==
    /\ Running /\ cancelled
    /\ \/ Addon!DropNotices /\ UNCHANGED configVars
       \/ Config!DropNotices /\ UNCHANGED <<addonVars, lastGood>>
    /\ UNCHANGED <<poolVars, allowlist, req, phase, cancelled, changes>>
-----------------------------------------------------------------------------
(* The watchers' event handlers *)

\* Faulty variant: deletes that arrive as tombstones are skipped.
HandleAddonEventSkipsDelete(n) ==
    \/ n.type = "set" /\ Pool!Allow(n.key)
    \/ n.type = "delete" /\ UNCHANGED poolVars

\* Faulty variant: a delete clears the membership and leaves the transport.
HandleAddonEventLeavesTransport(n) ==
    \/ n.type = "set" /\ Pool!Allow(n.key)
    \/ /\ n.type = "delete"
       /\ allowed' = allowed \ {n.key}
       /\ UNCHANGED <<transports, made, closed, getter, removing, closing, closer>>

\* Add and Update allow the add-on's cluster; Delete, tombstones included,
\* removes it.
HandleAddonEvent(n) ==
    \/ n.type = "set" /\ Pool!Allow(n.key)
    \/ n.type = "delete" /\ Pool!Remove(n.key)

DeliverAddon ==
    /\ Running
    /\ Addon!Take
    /\ HandleAddonEvent(Head(addonNotices))
    /\ UNCHANGED <<configVars, allowlist, req, phase, cancelled, changes>>

RemoveClose ==
    /\ Running
    /\ Pool!RemoveClose
    /\ UNCHANGED <<addonVars, configVars, allowlist, req, phase, cancelled, changes>>

\* Faulty variant: a ConfigMap that does not parse empties the list.
HandleConfigEventWipes(n) ==
    allowlist' = IF n.type # "delete" /\ Policy!Parses(n.content)
                 THEN Policy!ParseAllExposedServices(n.content)
                 ELSE {}

\* Faulty variant: deleting the ConfigMap keeps the last list.
HandleConfigEventKeepsDeleted(n) ==
    allowlist' = IF n.type = "delete" THEN allowlist
                 ELSE IF Policy!Parses(n.content)
                      THEN Policy!ParseAllExposedServices(n.content)
                      ELSE allowlist

\* A ConfigMap that does not parse leaves the last-known-good list in place;
\* a deleted one denies everything.
HandleConfigEvent(n) ==
    allowlist' = IF n.type = "delete" THEN {}
                 ELSE IF Policy!Parses(n.content)
                      THEN Policy!ParseAllExposedServices(n.content)
                      ELSE allowlist

DeliverConfig ==
    /\ Running
    /\ Config!Take
    /\ HandleConfigEvent(Head(configNotices))
    /\ UNCHANGED <<poolVars, addonVars, lastGood, req, phase, cancelled, changes>>
-----------------------------------------------------------------------------
(* Run *)

\* startManagedClusterAddonWatcher, then startServiceAllowlistWatcher, return
\* once their informer has synced; then the HTTP servers are started.
AddonWatcherStarted ==
    /\ phase = "addons" /\ addonSynced
    /\ phase' = "allowlist"
    /\ UNCHANGED <<poolVars, addonVars, configVars, allowlist, req, cancelled, changes>>

AllowlistWatcherStarted ==
    /\ phase = "allowlist" /\ configSynced
    /\ phase' = "serving"
    /\ UNCHANGED <<poolVars, addonVars, configVars, allowlist, req, cancelled, changes>>

\* runCtx is done: SIGTERM, or the TLS ConfigMap changed.
Cancel ==
    /\ Running /\ ~cancelled
    /\ cancelled' = TRUE
    /\ UNCHANGED <<poolVars, addonVars, configVars, allowlist, req, phase, changes>>

\* init fails with the context's error; closeAll is not deferred yet.
AbortInit ==
    /\ phase \in {"addons", "allowlist"} /\ cancelled
    /\ phase' = "exited"
    /\ UNCHANGED <<poolVars, addonVars, configVars, allowlist, req, cancelled, changes>>

\* RunHTTPServers drains: Shutdown returns when idle or at its deadline.
Drain ==
    /\ Life!Drain
    /\ UNCHANGED <<poolVars, addonVars, configVars, allowlist, req, changes>>

\* A server stops unexpectedly and RunHTTPServers returns its error at once.
ServerFails ==
    /\ Life!Fail
    /\ UNCHANGED <<poolVars, addonVars, configVars, allowlist, req, changes>>

CloseAll ==
    /\ phase = "closing"
    /\ Pool!CloseAll \/ Pool!CloserNext
    /\ UNCHANGED <<addonVars, configVars, allowlist, req, phase, cancelled, changes>>

\* The deferred cancel, and the end of the process.
Exit ==
    /\ phase = "closing" /\ closer = "done"
    /\ phase' = "exited"
    /\ cancelled' = TRUE
    /\ UNCHANGED <<poolVars, addonVars, configVars, allowlist, req, changes>>
-----------------------------------------------------------------------------
(* ServeHTTP *)

Target(r) == Routing!TargetOf(r.uri)

\* A request that does not parse is answered 400 at once.
Arrive(h, r) ==
    /\ phase \in {"serving", "draining"}
    /\ req[h] = NoRequest
    /\ req' = [req EXCEPT ![h] = IF Routing!Parses(r.uri) THEN At("member", r) ELSE NoRequest]
    /\ UNCHANGED <<poolVars, addonVars, configVars, allowlist, phase, cancelled, changes>>

\* The answer is an error; the handler is free for another request.
Refuse(h) ==
    /\ req' = [req EXCEPT ![h] = NoRequest]
    /\ UNCHANGED poolVars

\* The policy checks passed: an upgrade opens a tunnel of its own, any other
\* request asks the pool for the cluster's transport.
Acquire(h, r) ==
    \/ /\ r.upgrade
       /\ req' = [req EXCEPT ![h] = At("tunnel", r)]
       /\ UNCHANGED poolVars
    \/ /\ ~r.upgrade
       /\ req' = [req EXCEPT ![h] = At("lookup", r)]
       /\ Pool!Call(h, Target(r).cluster)

CheckMember(h) ==
    /\ Running
    /\ req[h].pc = "member"
    /\ LET r == req[h].r
           member == Pool!IsAllowed(Target(r).cluster) IN
       \/ ~member /\ Refuse(h)
       \/ member /\ ~Routing!IsServiceRequest(r.uri) /\ Acquire(h, r)
       \/ /\ member /\ Routing!IsServiceRequest(r.uri)
          /\ req' = [req EXCEPT ![h] = At("policy", r)]
          /\ UNCHANGED poolVars
    /\ UNCHANGED <<addonVars, configVars, allowlist, phase, cancelled, changes>>

CheckPolicy(h) ==
    /\ Running
    /\ req[h].pc = "policy"
    /\ LET r == req[h].r IN
       IF Policy!IsAllowed(allowlist, Target(r)) THEN Acquire(h, r) ELSE Refuse(h)
    /\ UNCHANGED <<addonVars, configVars, allowlist, phase, cancelled, changes>>

\* getTunnel; membership is not looked up again.
OpenTunnel(h) ==
    /\ Running
    /\ req[h].pc = "tunnel"
    /\ \/ Refuse(h)
       \/ req' = [req EXCEPT ![h] = At("forward", req[h].r)] /\ UNCHANGED poolVars
    /\ UNCHANGED <<addonVars, configVars, allowlist, phase, cancelled, changes>>

Lookup(h) ==
    /\ Running
    /\ Pool!GetOrCreateRead(h) \/ Pool!GetOrCreateWrite(h)
    /\ UNCHANGED <<addonVars, configVars, allowlist, req, phase, cancelled, changes>>

LookupReturns(h) ==
    /\ Running
    /\ req[h].pc = "lookup" /\ getter[h].pc = "done"
    /\ \/ /\ getter[h].transport = 0
          /\ Pool!Finish(h)
          /\ req' = [req EXCEPT ![h] = NoRequest]
       \/ /\ getter[h].transport # 0
          /\ req' = [req EXCEPT ![h] = At("forward", req[h].r)]
          /\ UNCHANGED poolVars
    /\ UNCHANGED <<addonVars, configVars, allowlist, phase, cancelled, changes>>

\* The reverse proxy is done: a response, or 502 from its ErrorHandler.
ForwardDone(h) ==
    /\ Running
    /\ req[h].pc = "forward"
    /\ req' = [req EXCEPT ![h] = NoRequest]
    /\ IF req[h].r.upgrade THEN UNCHANGED poolVars ELSE Pool!Finish(h)
    /\ UNCHANGED <<addonVars, configVars, allowlist, phase, cancelled, changes>>

Decide(h) == CheckMember(h) \/ CheckPolicy(h) \/ OpenTunnel(h) \/ Lookup(h) \/ LookupReturns(h)

Start == AddonWatcherStarted \/ AllowlistWatcherStarted \/ AbortInit
Stop == Drain \/ CloseAll \/ Exit

Next ==
    \/ ChangeObjects
    \/ InformAddons \/ InformConfig \/ ResyncAddons \/ ResyncConfig \/ StopInformers
    \/ DeliverAddon \/ RemoveClose \/ DeliverConfig
    \/ Start \/ Cancel \/ ServerFails \/ Stop
    \/ \E h \in Handlers : (\E r \in Requests : Arrive(h, r)) \/ Decide(h) \/ ForwardDone(h)

\* Fair: informers follow the API server and run their handler, goroutines in
\* the middle of a step run on, and a drain ends at its deadline.  Not fair:
\* object changes, resyncs, cancellation, failures, arrivals, and the upstream's
\* answer, which a streaming request may hold open for ever.
Fairness ==
    /\ WF_vars(InformAddons) /\ WF_vars(InformConfig)
    /\ WF_vars(DeliverAddon) /\ WF_vars(DeliverConfig) /\ WF_vars(RemoveClose)
    /\ WF_vars(Start) /\ WF_vars(Stop)
    /\ \A h \in Handlers : WF_vars(Decide(h))

SafetySpec == Init /\ [][Next]_vars
Spec == SafetySpec /\ Fairness
-----------------------------------------------------------------------------
(* Properties *)

\* Entry e exposes what is dialled: the service with its port and protocol, or
\* the kube-apiserver, for which both are fixed.
Exposes(e, url) ==
    IF url = Routing!KubeAPIServerURL
    THEN e.service \in Routing!KubernetesFold /\ e.namespace \in Routing!DefaultFold
    ELSE Policy!Matches(e, url)

\* ServeHTTP checks what will be dialled.  Whenever a request gets past the
\* policy checks, the address the service-proxy will compute from the forwarded
\* headers, whatever headers the client sent, is the kube-apiserver for a
\* kube-apiserver request and otherwise one that an allowlist entry in force
\* exposes, or none at all.
PolicyChecksWhatIsDialled ==
    [][\A h \in Handlers :
          req[h].pc \in {"member", "policy"} /\ req'[h].pc \in {"tunnel", "lookup"} =>
              LET r == req[h].r
                  url == Routing!Dialled(r.uri, r.headers)
              IN \/ url = Routing!Rejected
                 \/ url = Routing!KubeAPIServerURL /\ ~Routing!IsServiceRequest(r.uri)
                 \/ \E e \in allowlist : Exposes(e, url)]_vars

\* Membership of c once the notifications still queued for c are applied.
PendingMember(c) ==
    LET mine == {i \in DOMAIN addonNotices : addonNotices[i].key = c}
        last == CHOOSE i \in mine : \A j \in mine : j <= i
    IN IF mine = {} THEN c \in allowed ELSE addonNotices[last].type = "set"

\* Until runCtx is done or closeAll runs, the pool's membership together with
\* the queued notifications is the informer's store: no add, update, delete,
\* tombstone or resync of the add-on is ignored or undone by another one.
MembershipTracksAddons ==
    ~cancelled /\ closer = "pending" =>
        \A c \in Clusters : PendingMember(c) <=> addonStore[c] # Absent

\* service_allowlist_watcher.go, "If any key's YAML is invalid the last-known-good
\* list is preserved".  With no notification queued, the policy in force is the list
\* of the latest content of the informer's store that parses, or none if the
\* ConfigMap has been deleted since: a broken update neither empties it, nor brings
\* back an older list, nor adds a part of itself, however often it is repeated by
\* resyncs.
AllowlistIsLastKnownGood ==
    ~cancelled /\ configNotices = <<>> => allowlist = lastGood

\* Seen through the pool, the whole server is a behaviour of TransportPool: it
\* calls getOrCreate, allow, remove and closeAll only as that module says, so
\* what is proved of the pool holds inside the server.
PoolUsedAsSpecified == Pool!SafetySpec

\* Run is over, or about to be.
Ended == cancelled \/ phase \in {"closing", "exited"}

\* Membership and policy are those of the API objects.
Settled ==
    /\ allowed = {c \in Clusters : addons[c] # Absent}
    /\ configStore = configMap /\ allowlist = lastGood

\* Once the watched objects stop changing, a server that is not told to stop
\* ends up with exactly the installed add-ons as members and, as policy, with the
\* entries of the ConfigMap, or of the last good one it has seen.
WatchersConverge == <>[](Ended \/ Settled)

\* service_allowlist_watcher.go: "by the time we reach here the allowlist
\* already reflects the current ConfigMap state", said of the return of
\* startServiceAllowlistWatcher, which waits for HasSynced only.
AllowlistLoadedAtStart ==
    [][AllowlistWatcherStarted => allowlist = lastGood]_vars
=============================================================================
