# Formal model of cluster-proxy

TLA+ modules for the concurrent parts of cluster-proxy, TLC configurations that
check them on small instances, and TLAPS proofs of the main safety results for
every value of the constants. `PROJECT.json` is the index: which lines each
definition models, what each run checks, the hazards of the code and the
theorems.

## 1. The system and its parts

cluster-proxy lets clients on a hub cluster reach services of managed clusters
through a reverse tunnel (apiserver-network-proxy, external).

| part | source | process | module |
|---|---|---|---|
| transport pool | `pkg/userserver/transport_pool.go` | user-server (hub) | `TransportPool`, `PoolContract` |
| add-on watcher, allowlist and its watcher | `transport_pool.go`, `service_allowlist*.go` | user-server | `Informer`, `ServiceAllowlist`, in `UserServer` |
| user-server: `ServeHTTP`; `init` and `Run` | `pkg/userserver/user_server.go` | user-server | `UserServer`; `ServerStartup` |
| request routing (URI to target to URL) | `pkg/utils/utils.go` | user-server, service-proxy | `RequestRouting`, in `UserServer` |
| public and health servers, graceful drain | `pkg/utils/http_server.go` | user-server, service-proxy | `HTTPServers`, `ServerLifecycle` |
| OIDC authenticator and its CA ConfigMap controller | `pkg/serviceproxy/oidc_*.go` | service-proxy (managed) | `OIDCAuthenticator` |
| provider chain, TokenReview cache | `pkg/serviceproxy/{authentication,auth_provider,token_authenticator,service_proxy}.go` | service-proxy | `AuthChain` |
| service-proxy: `Run` | `pkg/serviceproxy/{service_proxy,auth_provider}.go` | service-proxy | `ServerStartup` |
| self-signer | `pkg/proxyserver/operator/authentication/selfsigned` | addon-manager (hub) | `SelfSigner` |
| ManagedProxyConfiguration controller | `pkg/proxyserver/controllers` | addon-manager | `ProxyConfigReconciler` |
| certificates, CA bundle, add-on values, client certificates | `managedproxyconfiguration_controller.go`, `pkg/proxyagent/agent`, `pkg/config` | addon-manager | `TrustChain` |
| ClusterProfile controller | `clusterprofile_controller.go` | addon-manager | `TrustChain` |
| certificate controller | `pkg/controllers` | its own | `TrustChain` |
| port-forward local proxy | `pkg/util/portforward.go` | addon-agent (managed) | `PortForward`, in `AgentPod` |
| addon-agent: lease, probes, certificate checker | `cmd/addon-agent/main.go` | addon-agent | `AgentPod` |
| flags and wiring, API types, generated clients, TLS helpers, service host names | `cmd`, `pkg/apis`, `pkg/generated`, `pkg/util/{secrets,serviceurl}.go` | | not modelled |

A request goes: client → user-server `ServeHTTP` (add-on membership, allowlist,
a transport from the pool or an upgraded connection) → tunnel → service-proxy
`ServeHTTP` (provider chain, impersonation) → kube-apiserver or service. The
addon-manager keeps the proxy servers on the hub deployed, signs their
certificates and renders the agents' manifests; on the managed cluster the
addon-agent runs beside the proxy-agent, watches it, and may carry its tunnel over
port-forward.

## 2. Modules and how they correspond to the code

`MC*` modules only extend a module and define finite constants; `*Proofs`
modules hold theorems. Definitions marked "Faulty variant" are not part of any
specification: each is a plausible bug in the definition that follows it, which
shows that a property can fail.

**PoolContract / TransportPool.** The contract is the pool its callers rely on:
a lookup is one atomic step. `TransportPool` has one action per critical section
of the RWMutex (`ReadSection`, `WriteSection` of `getOrCreate`; `Allow`,
`Remove`, `CloseAll`) and one per close that follows an unlock. Transports are
numbered per cluster. `Contract` maps getters to callers; `ImplementsContract`
is the refinement.

**Informer.** External (client-go): an API object, the store, the queue of
notifications of one handler. It tells the moment the store has synced from the
moment the handler has run; notifications of one object may be collapsed.

**ServiceAllowlist.** Parsing of a ConfigMap (all keys or nothing) and
matching. A data key is a set of entries or `Malformed`.

**UserServer.** The composition: `TransportPool`, two `Informer`s,
`ServiceAllowlist` and `ServerLifecycle` are instantiated over the process's
variables, and the module adds `init`, `Run`, the event handlers and the steps
of `ServeHTTP` (parsing, membership check, policy check, routing headers, pool
lookup or upgrade). A
handler step that calls the pool is the pool's action; `PoolUsedAsSpecified`
says that the pool within the server behaves as `TransportPool`, so that what is
proved of the pool holds in the server. `lastGood` is a history variable: the list of
the last ConfigMap in the informer's store that parses, empty once it is deleted.

**RequestRouting.** Pure operators: a request URI, as the sequence of its segments,
becomes a target (`GetTargetServiceConfig`), the target becomes headers
(`UpdateRequest`), and on the managed cluster the headers become what is dialled
(`GetTargetServiceURLFromRequest`). `PolicyChecksWhatIsDialled` relates the two ends
of the pipeline: the policy saw the target before the headers were written, the
service-proxy reads what arrives.

**HTTPServers / ServerLifecycle.** `RunHTTPServers` with its `select`s, result
channel, drain deadline, readiness, and the platform that routes clients by
readiness. Time is counted in ticks from the start of the drain.
`minDuration` is chosen at the start among the values `DrainConfig.Validate`
accepts. `ServerLifecycle` is what `UserServer` assumes of it;
`ImplementsLifecycle` is the refinement.

**SelfSigner.** `NewSelfSignerFromSecretOrGenerate`, run by every replica of the
manager before leader election: get, generate and create, adopt by an update of
the owner reference. The API server's resource versions decide conflicts. A stored
CA is taken to parse.
Secrets may be deleted, replicas crash at any point, and a reply may be lost.

**OIDCAuthenticator.** The CA ConfigMap, its informer and work queue, the
worker's `reconcileCABundle` in its steps (forget the old delegate, cancel it,
build, publish), and `AuthenticateToken` in its steps (snapshot, health check,
verification). What a delegate answers is external: it may fail for lack of
discovery, of keys, or because the signature is bad.

**AuthChain.** One token. Authorities start and cease to vouch for it, concurrent
misses share one TokenReview, which may take `LookupTimeout` ticks (the cache's
`sharedLookupTimeout`) until its reply arrives, caches hold the answer for `TTL` ticks
from then on, clients give up. `Horizon` is the sum of the two. `After` is `processAuthentication`'s loop body, `Answers` what a
TokenReview turns into, `Remember` what `cache.New(…, false, ttl, ttl)` keeps.

**ProxyConfigReconciler.** `Reconcile` call by call: read the cached
configuration, create the namespace unless the cache shows it, create the load
balancer's service where the configuration has one and wait for its address, sign the
certificates that the lister does not show, `ensure` for each
resource (get, create or compare, update, retry on conflict), `refreshStatus`.
The caches of namespaces and secrets lag for creations and for deletions; a certificate
signed anew differs from the one before it. `disturbed` is a history variable: the
resources that somebody else has changed after `ensure` was done with them.
A rendered object is its generation and its hash; a hash is a function of what
the resource depends on (configuration, release). Users, other controllers, failing calls and
restarts, also into another release, interfere between any two calls.

`OtherManager` is a second manager of any release that writes any resource at any
time: leader election is off by default, and nothing fences a deposed leader.

**TrustChain.** Who signs what on the hub and who holds a copy of it. The manager
has the CA it found at start-up; `EnsureEntrypoint`, `EnsureRotation` (one certificate
per step) and `DeployProxyServer` are its `Reconcile`; `GetClusterProxyValue` and
`GetAdditionalValue` are the two values functions, which read the configuration
separately; `SignCSR` signs for the agents; `SignServiceProxy` is the certificate
controller, whose lister may not have synced; `ReadUserServerCert` and
`SetAccessProvider` are the ClusterProfile controller. Users delete the CA and
certificates, time makes them due, managers crash and overlap. `SelfSigner` has the
details of loading the CA; here it is one step.

**PortForward / AgentPod.** `PortForward` is `Listen`, `handle` step by step with the
error paths, and the goroutines that read the error stream and copy both ways. When
a peer ends a stream is up to the peer; closing our side ends a read. `AgentPod` is
the pod: it instantiates `PortForward` in the addon-agent container and adds the
lease updater, the health probes, the reloading certificate checker, and the
proxy-agent container (external), whose liveness probe the addon-agent answers.
Both containers crash and restart independently.

**ServerStartup.** `serviceProxy.Run` and `userServer.Run` as the sequences of their
steps that read a file, hash it for a config checker, wait for informers, or start
the TLS ConfigMap watcher, in the code's order; then `ServerLifecycle`. The kubelet
probes, kills after `FailureThreshold` failures and restarts; files and the ConfigMap
change at any time.

## 3. Runs

Distinct states are those TLC reports.

| run | instance | checks |
|---|---|---|
| `pool` | 2 clusters, 2 handlers, 3 transports per cluster (106,974) | `CachedImpliesAllowed`, `NoTransportLost`, `ImplementsContract`, `EvictedGetClosed` |
| `user_server` | 1 cluster, 1 handler, 4 requests, 3 ConfigMaps, 2 changes (531,394) | `MembershipTracksAddons`, `AllowlistIsLastKnownGood`, `PolicyChecksWhatIsDialled`, `PoolUsedAsSpecified`, `WatchersConverge` |
| `servers` | timeout 4, minimum 0 to 4, 2 requests (4,662) | `PlannedStopRefusesNobody`, `DrainWithinTimeout`, `NilMeansCleanStop`, `ImplementsLifecycle`, `StopsWhenCancelled`, `FailureStops` |
| `signer` | 3 replicas, 2 deletions, 2 crashes (104,203) | `SignersUseStoredCA`, `ReplicasAgree`, `StoredCANeverReplaced`, `EveryReplicaLoads` |
| `oidc` | 3 bundles, 1 request, 3 changes (252,667) | `PublishedIsCurrent`, `AtMostOneLive`, `AnswersAreDefinitive`, `FollowsConfigMap` |
| `auth` | 3 providers, 2 requests, TTL 1, deadline 1, 1 change (764,016) | `FirstMatchWins`, `StaleForLessThanHorizon`, `RequestsDecided` |
| `reconciler` | 3 resources, 2 generations, 2 releases, 2 faults (1,024,754) | `EnsuredIsRendered`, `Converges`, `RestIsKept` |
| `startup` | both programs, 3 changes, 1 crash (125,561) | `HealthyMeansCurrent`, `RotationsTakeEffect`, `ChangesRestart` |
| `agent` | 1 connection, 2 rotations, 2 crashes (108,320) | `ReturnReleases`, `OldCertificateNoticed`, `CopiesEnd`, `HandlersReturn`, `LeaseFollowsConnection` |
| `trust` | 2 CAs, 2 certificates of the manager and 1 of the controller, 2 faults (415,672) | `TrustRestored`, `CopiesFollow`, `TrustIsKept` |

Two runs are expected to fail. Each states what a comment or a test of the
repository says, and TLC shows a behaviour of the code that differs:

* `user_server_start`: the allowlist need not be loaded when the server starts,
  because `WaitForCacheSync` does not wait for handlers
  (`service_allowlist_watcher.go:90`).
* `oidc_keys`: a good token is reported as rejected when keys cannot be fetched
  (`oidc_authenticator.go:274`).

Observations made while modelling, which no run states:

* `/readyz` answers 200 before the public listener is open, although
  `http_server.go:67` says "Readiness only represents whether the proxy is accepting
  new traffic"; in `HTTPServers` the listener opens after `ready` is set.
* A TokenReview refused with `Status.Error` is not cached (`Remember` in `AuthChain`),
  although `token_authenticator.go:42` speaks of "unauthenticated results".
* A file that is read before its checker is made (the user-server's proxy certificate
  and service-proxy CA, the service-proxy's additional CA) may be rotated in between,
  and the old content then stays in use until the next rotation; `Guarded` in
  `ServerStartup` lists the files for which this cannot happen.
* The first agent image that a manager renders stays the addon-agent's image until
  that manager stops (`config/agent.go:20`), also when the configuration changes.
* A client certificate that an overlapping manager signed with another CA, under the
  subject of this one's CA, is kept until it expires: the exception in `TrustRestored`.
* After a failure of a server `closeAll` runs before the deferred `cancel`, so an add-on event
  may still allow a cluster and a handler make a transport that is never closed; the process
  ends soon after.
* A proxy-agent that started before the addon-agent's certificate checker is not noticed when
  it uses an older certificate: the premise `watched` of `OldCertificateNoticed`.
* A running manager keeps a CA whose secret was deleted. The certificate controller
  uses the one that was stored later, so the two disagree until the manager restarts:
  the premise `Settled` of `TrustRestored` and `CopiesFollow`.

### Bounds

* Two handlers are what the pool's races take: both miss, both make a
  transport; one is overtaken by a delete. Two clusters show that one cluster's
  events leave the other alone; three transports per cluster allow removal and
  re-creation twice. The proofs lift the bounds for safety.
* `UserServer` has one cluster and one handler because handlers meet only in the
  pool, whose run has two; two API changes are enough for delete and re-create,
  or break and repair; two good ConfigMaps and a broken one tell the list in force from
  an earlier one and from none. A notification queue of one makes handlers lag.
* Timeout 4 with every minimum drain includes none, less than, equal to and more
  than the platform's delay (1), and the whole timeout.
* Three replicas let one create, one lose the race and one come late; two
  deletions let a CA be replaced while an older copy is held.
* Three ConfigMap changes allow a bundle to be replaced and to come back.
* With TTL 1 and deadline 1 the horizon is 2: a change while the reply is on its way is
  seen to outlive the TTL, and an entry made later is not. Larger values are left to the
  proof. One change is enough
  for an answer to become stale, from valid to revoked and from unknown to
  issued, since both are initial states.
* Two faults let a conflict be followed by a deletion, or a lost create race by a
  conflict, in one `ensure`; a later release comes on top of them. The first generation
  has a load balancer and the second has none. The three resources are one that never renders differently, the
  Service (updated as a copy) and the Deployment (reported in the status).

* Four requests are one per branch of the routing: kube-apiserver, a service with
  the client's own routing headers, an upgrade without a port, and a URI that is refused.
* Three changes let a file be rotated before and after it is hashed and once more; two
  failed probes make a kill that a late success prevents.
* Two rotations and two crashes let the proxy-agent and the addon-agent each restart
  around a rotation. One connection is enough, since connections share only the
  listener; `PodReleases` is proved for any number.
* Two CAs are an old one and a new one; two faults let a copy be taken of what is then
  replaced, or a second manager write between two steps of the first. Of the four
  certificates of `ensureRotation` one is valid for the load balancer and one is copied.

`CHECK_DEADLOCK FALSE` is set where the process really ends (`UserServer`,
`HTTPServers`) or where every replica has loaded its CA
(`SelfSigner`).

### Fairness

Weak fairness only, and only for what the runtime and the platform owe:
goroutines that can go on are scheduled; informers deliver (of the
reconciler, also namespaces and secrets) and resync; timers fire; a TokenReview is answered or times out; a read ends after
our side closed what it reads; the kubelet probes, kills and restarts; controllers
resync (every informer of the repository does, the ClusterProfile controller after
controller-runtime's ten hours); the load balancer gets an address. One action has strong fairness:
the lease update that passed its health check (`AgentPod`), which a timer repeats for
as long as the check passes again and again. `ServerStartup` further assumes that a
start-up finishes before the liveness probes give up on it: `Probe` needs a server that
serves. Nothing is assumed of clients, upstream answers,
peers of a tunnel, object changes, cancellation, failures or discovery.
Conflicts and faults are bounded in number, so a retry ends when others stop
interfering; that is an assumption about the environment.

## 4. Proofs

| module | theorem | states |
|---|---|---|
| `TransportPoolProofs` | `PoolServesAllowedOnly`, `PoolLosesNoTransport` | `CachedImpliesAllowed`, `NoTransportLost` |
| | `PoolImplementsContract` | the pool implements `PoolContract` |
| `UserServerProofs` | `ServerUsesPool` | the server's pool behaves as `TransportPool` |
| | `ServerKeepsPool` | so `NoTransportLost` and `CachedImpliesAllowed` hold in the server |
| | `PolicyGuardsDialling` | `PolicyChecksWhatIsDialled` |
| | `RequestsReachTarget` | a request is forwarded through a transport of its own target cluster |
| `WatcherProofs` | `AllowlistTracksConfigMap` | `AllowlistIsLastKnownGood` |
| | `MembershipFollowsStore` | `MembershipTracksAddons` |
| | `TransportsAreInstalled` | a cached transport's cluster has its add-on, once notifications are handled |
| `HTTPServersProofs` | `DrainIsBounded`, `DrainRefusesNobody`, `NilReturnsAreClean` | `DrainWithinTimeout`, `PlannedStopRefusesNobody`, `NilMeansCleanStop` |
| | `ServersImplementLifecycle` | `RunHTTPServers` implements `ServerLifecycle` |
| `AuthenticationProofs` | `ChainFirstMatchWins`, `ChainStaleForLessThanHorizon` | `FirstMatchWins`, `StaleForLessThanHorizon` |
| | `DelegateSafety`, `OneLiveDelegate` | `PublishedIsCurrent`, `AtMostOneLive` |
| | `AuthenticatorIsDefinitive` | `AnswersAreDefinitive` |
| `ProxyConfigReconcilerProofs` | `EnsureRenders` | `EnsuredIsRendered` |
| | `ReconcilerRests` | `RestIsKept`: the controller leaves a hub that is up to date alone |
| `TrustChainProofs` | `TrustStays` | `TrustIsKept`: manager and controllers do not undo restored trust |
| | `SignerUsesStoredCA`, `SignerReplicasAgree`, `SignerKeepsCA` | `SignersUseStoredCA`, `ReplicasAgree`, `StoredCANeverReplaced` |
| `ContainerProofs` | `HealthyServersAreCurrent` | `HealthyMeansCurrent` |
| | `PodImplementsPortForward` | the proxy in the pod behaves as `PortForward`, whatever restarts |
| | `PodReleases`, `PodNoticesOldCertificate` | `ReturnReleases`, `OldCertificateNoticed` |

Every safety and action property of a passing run, and every refinement, is proved.

A proof module extends the module it is about. Three extend two related ones, which
have no variable in common: `AuthChain` and `OIDCAuthenticator`, `TrustChain` and `SelfSigner`,
`ServerStartup` and `AgentPod`. To that end the second of each pair has the component in the names of
its specification (`OIDCSpec`, `SignerSpec`, `PodSpec`). `WatcherProofs` extends `UserServerProofs`.

The assumptions on constants are the named `ASSUME`s, which TLC evaluates: bounds are
natural numbers, the enabled providers are known ones, the resources that `ensure` goes
through are a sequence with the Service in it, and the certificates that `ensureRotation`
goes through include the user server's, while only those may be valid for the load
balancer's address. Each proof has one lemma per group of conjuncts with one step per action.

* Pool: the invariants are inductive together with `EvictionInv`, which says that
  what `remove` and `closeAll` still have to close was made and is in no map. The
  refinement rests on it: a read section that hits is the contract's lookup, one
  that misses is a stutter.
* User-server: `UInv` says that whatever reaches the pool is about known clusters, which
  the pool's module takes for granted. With it every step of the server is a step of the
  pool or leaves it alone, so the theorems about the pool, instantiated as `PoolFacts`,
  carry over. `ForwardsToTarget` relates each handler's place in `ServeHTTP` to the
  progress of its `getOrCreate`. It needs the pool's invariant, which says what a lookup
  returns, and two facts that keep the branches apart: a tunnel is an upgrade's, a lookup
  never is. The routing lemmas show that the headers carry the target to the other end.
* Watchers: `CInv` says that handling the queued notifications about the ConfigMap, starting
  from the allowlist in force, ends in `lastGood` (`ListTracked`): the last of them that
  replaces the list decides (`LastReplaces`), and if none does, the list in force is
  `lastGood` already (`NoneReplaces`); `MInv` says the same of each
  cluster's add-on, whose last notification may be anywhere in the queue. The initial
  list, which queues all objects in any order, is why `ListedOnce` is needed.
  `CachedIsInstalled` follows from the pool's invariant and from `MembershipTracksAddons`.
* Servers: `DrainInv` ties the clock to the phase (a phase ends when its timer is
  due) and the platform's routing to the clock; `ResultsInv` bounds the result
  channel by the servers that have stopped, which makes the buffer of two enough.
* Chain: `Sound` says of a request's history that all but the last answer are refusals.
  `TimeInv` is the argument about time: for an entry that has become wrong, the time since
  the change and the time the entry has left add up to at most `Horizon`; the change that a
  reply in flight has missed is no older than the review, which is no older than the deadline.
  `StaleForLessThanHorizon` is an action property, about the moment an answer is used.
* OIDC: `WorkerInv` says for each step of the worker which delegates may be live: the
  published one, the displaced one about to be cancelled, the one just built. `CallInv` says
  that a delegate a call has found healthy stays initialised.
* Controller: `EnsuredIsRendered` is inductive with the types and `PlaceInv`, which says that
  no resource counts as done outside `deployProxyServer`. The hard step is the one to the
  next resource (`AdvanceEnsures`): the resources done are those before the position, all
  written or compared for the generation this `Reconcile` has read. `RestIsKept` is an
  action property about `Rested`, a strengthening of "up to date": a `Reconcile` in progress
  has read the latest generation and is not about to write, and the caches show the namespace
  and the certificates. `NothingToUpdate` shows that a comparison then finds nothing to do and
  `SignedValues` what is signed, so a repeated `Reconcile` changes nothing: the status, which it
  writes every time, is the one that is there.
* Trust: `Restored` and `Current` strengthen `Trusted` by what `Reconcile` and the values functions
  have in hand, since a half-rendered manifest may be of something older. `ProperCertificates`
  shows that a certificate which needs nothing is the one that would be signed, so signing
  again, which a lister that has not synced causes, leaves trust as it was.
* Signer: `CallInv` says of a call in progress that what it read was stored, and that
  a version that is still current carries the CA that was read, which is why
  an update with that version cannot bring back an old CA.
* Start-up: versions of a file only grow; a file hashed before it is read has
  `sum <= loaded <= mounted`, and a passing check says `sum = mounted`.
* Pod: `CertInv` says that a proxy-agent started under this addon-agent has the mounted
  certificate, or the checker has yet to see it. `QuietInv` says that there are no connections
  without an addon-agent, so a crash and a restart are steps of `PortForward` (`Vanish`).

Only model-checked: the liveness properties and the absence of deadlock, since fairness and
`ENABLED` are out of the prover's reach. `ForwardsToTarget` and `CachedIsInstalled` are proved and in no
run: the `user_server` run has one handler and one cluster, where they say little. None
of the modules needs RECURSIVE operators or induction over data.

## 5. Not modelled

* Data: header and URL syntax below the level of segments, user names, groups,
  certificate contents, manifest fields (a manifest is its hash, or the versions of what it
  was rendered from). Which chart values a configuration turns into
  (`toAgentAddOnChartValues`, node placement, proxy settings) is formatting without state.
* Connections inside an `http.Transport`, and `MaxConnsPerHost`: they are `net/http`'s, and the
  repository sets limits and nothing else. Requests to one cluster do wait for each other
  when long streams use them up.
* Upgraded connections once they are hijacked: they outlive the add-on and the
  drain by design of `net/http`. An upgrade does not look membership up again after the
  policy check; `OpenTunnel` models that window, and the code accepts it.
* The approval of agents' signing requests and registration (`HubAcceptsClient`), which is the
  add-on framework's. `TrustChain` assumes that `enableServiceProxy` keeps its default, true,
  and that `--agent-image-name` is not given.
* Deletion of the proxy servers' namespace, which takes everything in it along. Host names and
  expiry of certificates are in `TrustChain`, not in `ProxyConfigReconciler`. A TokenReview that
  no cache keeps (`TTL` 0) takes no time.
* Creation and deletion of ClusterProfiles, which only queue a `Reconcile`.
* Flags and wiring of the commands; API types and generated clients; the TLS helpers of
  `pkg/util/secrets.go`, which read a secret or files once; `serviceurl.go`, which turns names
  into a digest.
* Error paths that leave no trace in the model: in `PortForward` a connection
  accepted and given up early stays open, and an error reader with a message may
  stay blocked once `handle` has returned; both are visible states, and no property
  says otherwise.

## 6. Plan

1. `AuthChain` composed with `OIDCAuthenticator`, whose answers it now takes from a set.
2. Connections of a transport, if the repository ever manages them itself.
