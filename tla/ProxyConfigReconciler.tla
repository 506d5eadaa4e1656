------------------------ MODULE ProxyConfigReconciler ------------------------
(***************************************************************************)
(* The ManagedProxyConfiguration controller of the addon manager: Reconcile *)
(* makes the namespace, the entrypoint and the serving certificates,       *)
(* brings every resource of the proxy server up to date with ensure, and   *)
(* refreshes the status conditions.                                        *)
(*                                                                         *)
(* The configuration, the namespace and, for ensureRotation, the secrets   *)
(* are read from the manager's caches, which lag behind; resources and the *)
(* entrypoint are read from the API server.  Meanwhile users edit the      *)
(* configuration, others touch, delete or create resources, delete secrets *)
(* and the entrypoint, calls to the API server fail, and the manager       *)
(* restarts, also as a later release that renders other manifests or       *)
(* another TLS configuration.                                              *)
(*                                                                         *)
(* A resource version matters only as "the version that was read is still  *)
(* the latest"; that is what fresh and stale say.  The TLS hash annotation *)
(* is part of the rendered hash here: both are functions of the release.   *)
(* When a certificate in place must be replaced is the matter of           *)
(* TrustChain.                                                             *)
(***************************************************************************)
EXTENDS Naturals, Sequences, FiniteSets

CONSTANTS Resources,      \* the sequence deployProxyServer goes through
          Service,        \* the one of kind Service
          Deployment,     \* the one whose existence the status reports
          Fixed,          \* those that render alike for every configuration and release
          Certs,          \* secrets with a serving certificate the status looks at
          LoadBalanced,   \* generations whose entrypoint is a LoadBalancerService
          MaxGeneration, MaxRelease, MaxFaults   \* bounds

Kinds == {Resources[k] : k \in DOMAIN Resources}

ASSUME ReconcilerAssumption ==
    /\ Resources \in Seq(Kinds)
    /\ {Service, Deployment} \cup Fixed \subseteq Kinds
    /\ LoadBalanced \subseteq Nat
    /\ MaxGeneration \in Nat /\ MaxRelease \in Nat /\ MaxFaults \in Nat

VARIABLES config,    \* the ManagedProxyConfiguration: generation and conditions
          cached,    \* the generation of the manager's copy of it
          lag,       \* is that copy out of date?
          release,   \* the release of the running manager
          namespace, \* "absent", "created", or "seen" in the manager's cache
          service,   \* the load balancer service: "absent", "pending" or "ready"
          secrets,   \* secrets[s]: the certificate in the secret, 0 without one
          shown,     \* secrets the manager's lister shows
          res,       \* res[r]: the resource, or Absent
          queued,    \* is the configuration in the work queue?
          me,        \* the Reconcile in progress
          disturbed, \* resources changed by others since ensure was done with them
          faults

basics == <<namespace, service, secrets, shown>>
world == <<config, cached, lag, release, basics>>
vars == <<world, res, queued, me, disturbed, faults>>

\* What a configuration of generation g renders to in release o.
Rendered(r, g, o) == IF r \in Fixed THEN <<0, 0>> ELSE <<g, o>>

\* A resource is its generation and rendered-hash annotations; the hash stands for
\* the content it was computed from.
Absent == [gen |-> 0, hash |-> <<>>]
Foreign == [gen |-> 0, hash |-> <<"other">>]

Idle == [pc |-> "idle", g |-> 1, k |-> 1, cur |-> Absent, fresh |-> FALSE,
         stale |-> FALSE, pinned |-> FALSE]

Unsigned == [s \in Certs |-> 0]

Init ==
    /\ config = [gen |-> 1, deployed |-> FALSE, signed |-> Unsigned]
    /\ cached = 1 /\ lag = FALSE
    /\ release = 1
    /\ namespace = "absent" /\ service = "absent"
    /\ secrets = Unsigned /\ shown = {}
    /\ res = [r \in Kinds |-> Absent]
    /\ queued = TRUE
    /\ me = Idle
    /\ disturbed = {}
    /\ faults = 0
------------------------------------------------------------------------------
(* Reconcile *)

Now == Resources[me.k]      \* the resource ensure is at

\* A failed Reconcile is queued again.
Failed == me' = Idle /\ queued' = TRUE /\ disturbed' = {}

Goto(pc) == me' = [me EXCEPT !.pc = pc] /\ UNCHANGED <<queued, disturbed>>

\* Reconcile reads the configuration from the cache.
Start ==
    /\ me.pc = "idle" /\ queued
    /\ queued' = FALSE
    /\ me' = [Idle EXCEPT !.pc = "namespace", !.g = cached, !.stale = lag]
    /\ disturbed' = {}
    /\ UNCHANGED <<world, res, faults>>

\* ensureNamespace: one the cache does not show is created; if it exists by now,
\* that is an error.
EnsureNamespace ==
    /\ me.pc = "namespace"
    /\ \/ namespace = "absent" /\ namespace' = "created" /\ Goto("entrypoint")
       \/ namespace = "created" /\ Failed /\ UNCHANGED namespace
       \/ namespace = "seen" /\ Goto("entrypoint") /\ UNCHANGED namespace
    /\ UNCHANGED <<config, cached, lag, release, service, secrets, shown, res, faults>>

\* ensureEntrypoint: the load balancer service is created unless it exists, ...
EnsureEntrypoint ==
    /\ me.pc = "entrypoint"
    /\ IF me.g \in LoadBalanced
         THEN service' = (IF service = "absent" THEN "pending" ELSE service) /\ Goto("address")
         ELSE UNCHANGED service /\ Goto("rotation")
    /\ UNCHANGED <<config, cached, lag, release, namespace, secrets, shown, res, faults>>

\* ... and read; Reconcile goes on once it has an address.
EntrypointAddress ==
    /\ me.pc = "address"
    /\ IF service = "ready" THEN Goto("rotation") ELSE Failed
    /\ UNCHANGED <<world, res, faults>>

\* A certificate that differs from certificate c.
Other(c) == IF c = 1 THEN 2 ELSE 1

\* Faulty variant: signed whatever the lister shows.
SignedAnyway(S) == [s \in Certs |-> IF s \in S THEN Other(secrets[s]) ELSE secrets[s]]

\* EnsureTargetCertKeyPair for each secret of S: what the lister shows is left
\* alone, and a new certificate is signed for the others, also for a secret that
\* exists and has not reached the lister.
Signed(S) == [s \in Certs |-> IF s \in S \ shown THEN Other(secrets[s]) ELSE secrets[s]]

\* ensureRotation; an error leaves the certificates signed so far.
EnsureRotation ==
    /\ me.pc = "rotation"
    /\ secrets' = Signed(Certs) /\ Goto("get")
    /\ UNCHANGED <<config, cached, lag, release, namespace, service, shown, res, faults>>

\* ensure is done with a resource.
Advance == [me EXCEPT !.pc = IF me.k = Len(Resources) THEN "status" ELSE "get",
                      !.k = IF me.k = Len(Resources) THEN 1 ELSE me.k + 1,
                      !.cur = Absent, !.fresh = FALSE, !.pinned = FALSE]

\* ensure: "update if generation bumped, TLS config changed or the rendered
\* manifest changed".
NeedsUpdate(cur) == me.g > cur.gen \/ cur.hash # Rendered(Now, me.g, release)

\* ensure reads the resource and decides.
Get ==
    /\ me.pc = "get"
    /\ LET cur == res[Now]
           read == [me EXCEPT !.cur = cur, !.fresh = TRUE]
       IN me' = IF cur = Absent THEN [read EXCEPT !.pc = "create"]
                ELSE IF NeedsUpdate(cur) THEN [read EXCEPT !.pc = "update"]
                ELSE Advance
    /\ UNCHANGED <<world, res, queued, disturbed, faults>>

Write == res' = [res EXCEPT ![Now] = [gen |-> me.g, hash |-> Rendered(Now, me.g, release)]]

\* Faulty variant: a resource that exists by now counts as the one wanted.
CreateTrustsExisting ==
    /\ me.pc = "create"
    /\ \/ me.pinned /\ Failed /\ UNCHANGED res
       \/ /\ ~me.pinned
          /\ IF res[Now] = Absent THEN Write ELSE res' = res
          /\ me' = Advance
          /\ UNCHANGED <<queued, disturbed>>
    /\ UNCHANGED <<world, faults>>

\* The resource is created.  If it exists by now, ensure goes on with what it read:
\* nothing, hence an update without a resource version.  A resource version left
\* from a conflict makes the API server refuse the create.
Create ==
    /\ me.pc = "create"
    /\ \/ me.pinned /\ Failed /\ UNCHANGED res
       \/ /\ ~me.pinned /\ res[Now] = Absent
          /\ Write /\ me' = Advance
          /\ UNCHANGED <<queued, disturbed>>
       \/ /\ ~me.pinned /\ res[Now] # Absent
          /\ Goto("update") /\ UNCHANGED res
    /\ UNCHANGED <<world, faults>>

\* Faulty variant: a conflict is answered by trying the same update again.
UpdateRetries ==
    /\ me.pc = "update"
    /\ IF res[Now] = Absent THEN Failed /\ res' = res
       ELSE IF me.cur # Absent /\ ~me.fresh THEN UNCHANGED <<me, res, queued, disturbed>>
       ELSE Write /\ me' = Advance /\ UNCHANGED <<queued, disturbed>>
    /\ UNCHANGED <<world, faults>>

\* The resource is replaced if it is still the version that was read.  On a conflict
\* ensure starts over, the resource version still set unless a copy was updated
\* (serviceForUpdate); one that is gone is an error.
Update ==
    /\ me.pc = "update"
    /\ IF res[Now] = Absent THEN Failed /\ UNCHANGED res
       ELSE IF me.cur # Absent /\ ~me.fresh
         THEN /\ me' = [me EXCEPT !.pc = "get", !.cur = Absent, !.pinned = (Now # Service)]
              /\ UNCHANGED <<res, queued, disturbed>>
       ELSE Write /\ me' = Advance /\ UNCHANGED <<queued, disturbed>>
    /\ UNCHANGED <<world, faults>>

\* getCurrentState: a missing certificate makes getPEMCertExpireTime panic, which
\* controller-runtime turns into an error.
StateReadable == \A s \in Certs : secrets[s] # 0

\* getConditions, of a state that could be read; a certificate's expiry stands for it.
Conditions == [config EXCEPT !.deployed = res[Deployment] # Absent, !.signed = secrets]

\* refreshStatus.  LastObservedGeneration is never written, so Status().Update is
\* called every time.  A conflict with a later version of the configuration is an
\* error; an update that changes nothing leaves the version alone.
RefreshStatus ==
    /\ me.pc = "status"
    /\ IF StateReadable /\ ~me.stale
         THEN /\ config' = Conditions
              /\ lag' = (lag \/ config' # config)
              /\ me' = Idle /\ disturbed' = {}
              /\ UNCHANGED queued
         ELSE Failed /\ UNCHANGED <<config, lag>>
    /\ UNCHANGED <<cached, release, basics, res, faults>>

Reconcile ==
    \/ Start \/ EnsureNamespace \/ EnsureEntrypoint \/ EntrypointAddress \/ EnsureRotation
    \/ Get \/ Create \/ Update \/ RefreshStatus
------------------------------------------------------------------------------
(* Everybody else *)

\* A user edits the configuration.
Edit ==
    /\ config.gen < MaxGeneration
    /\ config' = [config EXCEPT !.gen = @ + 1]
    /\ lag' = TRUE
    /\ me' = [me EXCEPT !.stale = me.pc # "idle"]
    /\ UNCHANGED <<cached, release, basics, res, queued, disturbed, faults>>

\* The manager's cache catches up, which queues the configuration.
Sync ==
    /\ lag
    /\ cached' = config.gen /\ lag' = FALSE /\ queued' = TRUE
    /\ UNCHANGED <<config, release, basics, res, me, disturbed, faults>>

\* So does its copy of the namespace.
NamespaceEvent ==
    /\ namespace = "created" /\ namespace' = "seen"
    /\ UNCHANGED <<config, cached, lag, release, service, secrets, shown>>
    /\ UNCHANGED <<res, queued, me, disturbed, faults>>

\* The load balancer gets its address.
Provision ==
    /\ service = "pending" /\ service' = "ready"
    /\ UNCHANGED <<config, cached, lag, release, namespace, secrets, shown>>
    /\ UNCHANGED <<res, queued, me, disturbed, faults>>

Existing == {s \in Certs : secrets[s] # 0}

\* The secret informer catches up; the owner of the secrets is queued.
SecretEvent ==
    /\ shown # Existing
    /\ shown' = Existing /\ queued' = TRUE
    /\ UNCHANGED <<config, cached, lag, release, namespace, service, secrets>>
    /\ UNCHANGED <<res, me, disturbed, faults>>

\* The periodic resync of the informer.
Resync ==
    /\ ~queued /\ queued' = TRUE
    /\ UNCHANGED <<world, res, me, disturbed, faults>>

Fault == faults < MaxFaults /\ faults' = faults + 1

\* Resources that ensure is done with in this Reconcile.
Ensured == IF me.pc = "status" THEN Kinds ELSE {Resources[k] : k \in 1..(me.k - 1)}

\* Resource r becomes v by somebody else's hand.
Becomes(r, v) ==
    /\ res' = [res EXCEPT ![r] = v]
    /\ me' = [me EXCEPT !.fresh = @ /\ Now # r]
    /\ disturbed' = IF r \in Ensured /\ v # res[r] THEN disturbed \cup {r} ELSE disturbed
    /\ UNCHANGED <<world, queued>>

Touch(r) == Fault /\ res[r] # Absent /\ Becomes(r, res[r])
Delete(r) == Fault /\ res[r] # Absent /\ Becomes(r, Absent)
CreateByOther(r) == Fault /\ res[r] = Absent /\ Becomes(r, Foreign)

\* Another manager, of any release, runs beside this one during a rollout, and its
\* ensure writes what a generation it has read renders to.
OtherManager(r) ==
    /\ Fault
    /\ \E g \in 1..config.gen, o \in 1..MaxRelease : Becomes(r, [gen |-> g, hash |-> Rendered(r, g, o)])

DeleteSecret(s) ==
    /\ Fault /\ secrets[s] # 0
    /\ secrets' = [secrets EXCEPT ![s] = 0]
    /\ UNCHANGED <<config, cached, lag, release, namespace, service, shown>>
    /\ UNCHANGED <<res, queued, me, disturbed>>

DeleteEntrypoint ==
    /\ Fault /\ service # "absent" /\ service' = "absent"
    /\ UNCHANGED <<config, cached, lag, release, namespace, secrets, shown>>
    /\ UNCHANGED <<res, queued, me, disturbed>>

\* A call to the API server fails; ensureRotation may have signed some certificates.
CallFails ==
    /\ Fault /\ me.pc # "idle" /\ Failed
    /\ \/ UNCHANGED secrets
       \/ me.pc = "rotation" /\ \E S \in SUBSET Certs : secrets' = Signed(S)
    /\ UNCHANGED <<config, cached, lag, release, namespace, service, shown, res>>

\* The manager restarts, as the same release or a later one, and lists afresh.
Restart ==
    /\ \/ Fault /\ release' = release
       \/ release < MaxRelease /\ release' = release + 1 /\ faults' = faults
    /\ cached' = config.gen /\ lag' = FALSE /\ shown' = Existing
    /\ namespace' = (IF namespace = "created" THEN "seen" ELSE namespace)
    /\ Failed
    /\ UNCHANGED <<config, service, secrets, res>>

Others ==
    \/ Edit \/ Sync \/ NamespaceEvent \/ Provision \/ SecretEvent \/ Resync
    \/ DeleteEntrypoint \/ CallFails \/ Restart
    \/ \E r \in Kinds : Touch(r) \/ Delete(r) \/ CreateByOther(r) \/ OtherManager(r)
    \/ \E s \in Certs : DeleteSecret(s)

Next == Reconcile \/ Others

\* The controller's worker runs, its informers deliver and resync, and the load
\* balancer is provisioned.
Fairness ==
    /\ WF_vars(Reconcile) /\ WF_vars(Provision)
    /\ WF_vars(Sync) /\ WF_vars(NamespaceEvent) /\ WF_vars(SecretEvent) /\ WF_vars(Resync)

SafetySpec == Init /\ [][Next]_vars
Spec == SafetySpec /\ Fairness
------------------------------------------------------------------------------
(* Properties *)

\* deployProxyServer and ensure: a resource that ensure has dealt with, whether it
\* created it, lost the race to create it, updated it after conflicts or left it
\* alone, is the rendering of the generation being reconciled by the running
\* release, and says so.  Only what others change after ensure was done with it is
\* exempt; what they create, write or delete before or meanwhile is not.
EnsuredIsRendered ==
    \A r \in Ensured \ disturbed :
        res[r].hash = Rendered(r, me.g, release) /\ res[r].gen >= me.g

\* The resources, certificates and conditions the latest configuration asks for.
UpToDate ==
    /\ namespace # "absent" /\ (config.gen \in LoadBalanced => service = "ready")
    /\ StateReadable
    /\ \A r \in Kinds : res[r].hash = Rendered(r, config.gen, release) /\ res[r].gen >= config.gen
    /\ config.deployed /\ config.signed = secrets

\* Everything is up to date and seen by the manager, and no Reconcile is about to
\* write or works on an older configuration.
Rested ==
    /\ UpToDate
    /\ cached = config.gen /\ namespace = "seen" /\ shown = Certs
    /\ me.pc # "idle" => me.g = config.gen
    /\ me.pc \notin {"create", "update"}

\* Once users, faults and restarts leave it alone, the controller makes everything
\* up to date and comes to rest: neither its status updates nor the certificates it
\* signs set it off for ever, and neither conflicts, lost races, a lagging cache nor
\* a panic over a missing certificate leave a resource behind.
Converges == <>[]Rested

\* Users, other managers and a new release give the controller work.
Disturbs ==
    \/ Edit \/ release' # release \/ DeleteEntrypoint
    \/ \E r \in Kinds : Delete(r) \/ OtherManager(r)
    \/ \E s \in Certs : DeleteSecret(s)

\* Reconcile repeated on what it has made changes nothing: resyncs, restarts, failed
\* calls, late cache updates and touched resources do not make the controller
\* change a resource, sign a certificate again or report another status.
RestIsKept ==
    [][Rested => Disturbs \/ (Rested' /\ UNCHANGED <<config, res, secrets>>)]_vars
==============================================================================
