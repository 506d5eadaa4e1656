------------------------------ MODULE AgentPod ------------------------------
(***************************************************************************)
(* The add-on agent's pod on the managed cluster: the proxy-agent (not     *)
(* part of this repository), which keeps the tunnel to the hub, and beside *)
(* it the addon-agent, which                                               *)
(*   - renews the add-on's lease while the proxy-agent is connected,       *)
(*   - runs the local port-forward proxy, if it is asked to,               *)
(*   - answers the proxy-agent's liveness probe, and fails it once after   *)
(*     the client certificate has changed, to have the kubelet restart the *)
(*     proxy-agent.                                                        *)
(* The certificate is a number that grows with each rotation; 0 stands for *)
(* a container that is not running.                                        *)
(***************************************************************************)
EXTENDS Naturals

CONSTANTS Conns,        \* connections through the port-forward proxy at once
          MaxRotations, \* bound: certificate rotations
          MaxPodCrashes \* bound: containers that crash or start badly

VARIABLES ready, at, local, tunnel, reader, fromRemote, fromLocal, localError,
          portForward,  \* --enable-port-forward-proxy
          healthCheck,  \* --enable-proxy-agent-health-check
          hubCert,      \* the mounted certificate
          agent,        \* the certificate the proxy-agent has loaded
          link,         \* the proxy-agent reaches a proxy-server
          checker,      \* the certificate the addon-agent's checker knows
          probes,       \* the addon-agent answers on :8888
          update,       \* the lease updater has passed its health checks
          lease,        \* the lease: "fresh" or "stale"
          watched,      \* this proxy-agent started under this addon-agent
          podCrashes

PF == INSTANCE PortForward

forwardVars == <<ready, at, local, tunnel, reader, fromRemote, fromLocal, localError>>
addonAgent == <<checker, probes, update>>
flags == <<portForward, healthCheck>>
podVars == <<forwardVars, flags, hubCert, agent, link, addonAgent, lease, watched, podCrashes>>

Running == checker # 0

\* /readyz of the proxy-agent: connected, through the local proxy if there is one.
Connected ==
    /\ agent # 0 /\ link
    /\ portForward => \E c \in Conns : at[c] = "select"

PodInit ==
    /\ PF!Init
    /\ portForward \in BOOLEAN /\ healthCheck \in BOOLEAN
    /\ hubCert = 1 /\ agent = 0 /\ link = FALSE
    /\ checker = 0 /\ probes = FALSE /\ update = FALSE
    /\ lease = "stale" /\ watched = FALSE
    /\ podCrashes = 0
-----------------------------------------------------------------------------
(* The addon-agent: main *)

\* Everything up to the lease updater.  The health server may fail to listen,
\* which is logged and nothing more.
StartAddonAgent ==
    /\ ~Running
    /\ checker' = hubCert
    /\ ready' = ~portForward
    /\ \/ probes' = TRUE /\ UNCHANGED podCrashes
       \/ podCrashes < MaxPodCrashes /\ probes' = FALSE /\ podCrashes' = podCrashes + 1
    /\ watched' = FALSE
    /\ UNCHANGED <<at, local, tunnel, reader, fromRemote, fromLocal, localError>>
    /\ UNCHANGED <<flags, hubCert, agent, link, update, lease>>

\* Listen's loop, and the handlers it starts.
Forward(c) ==
    /\ Running /\ portForward
    /\ (agent # 0 /\ PF!Accept(c)) \/ PF!Handle(c) \/ PF!Goroutine(c)
    /\ UNCHANGED <<flags, hubCert, agent, link, addonAgent, lease, watched, podCrashes>>

\* Faulty variant: the proxy-agent's readiness is not asked for.
CheckHealthAlways ==
    /\ Running /\ ~update
    /\ update' = TRUE
    /\ UNCHANGED <<forwardVars, flags, hubCert, agent, link, checker, probes, lease, watched, podCrashes>>

\* reconcile's health checks: checkProxyAgentReadiness.
CheckHealth ==
    /\ Running /\ ~update /\ (healthCheck => Connected)
    /\ update' = TRUE
    /\ UNCHANGED <<forwardVars, flags, hubCert, agent, link, checker, probes, lease, watched, podCrashes>>

\* updateLease, on the managed cluster or the hub, succeeds or fails.
UpdateLease(result) ==
    /\ Running /\ update
    /\ update' = FALSE
    /\ lease' = IF result = "renewed" THEN "fresh" ELSE lease
    /\ UNCHANGED <<forwardVars, flags, hubCert, agent, link, checker, probes, watched, podCrashes>>

CrashAddonAgent ==
    /\ Running /\ podCrashes < MaxPodCrashes
    /\ podCrashes' = podCrashes + 1
    /\ checker' = 0 /\ probes' = FALSE /\ update' = FALSE
    /\ watched' = FALSE
    /\ PF!Vanish
    /\ UNCHANGED <<ready, flags, hubCert, agent, link, lease>>
-----------------------------------------------------------------------------
(* The proxy-agent, the kubelet, and the rest of the world *)

StartProxyAgent ==
    /\ agent = 0
    /\ agent' = hubCert
    /\ watched' = Running
    /\ UNCHANGED <<forwardVars, flags, hubCert, link, addonAgent, lease, podCrashes>>

CrashProxyAgent ==
    /\ agent # 0 /\ podCrashes < MaxPodCrashes
    /\ podCrashes' = podCrashes + 1
    /\ agent' = 0 /\ link' = FALSE
    /\ UNCHANGED <<forwardVars, flags, hubCert, addonAgent, lease, watched>>

\* What the addon-agent's /healthz says: the certificates check and the
\* readiness of the port-forward proxy.
ProxyAgentHealthy == Running /\ probes /\ checker = hubCert /\ ready

\* Faulty variant: Check takes a new checksum over without reporting it.
ProbeReloadsQuietly ==
    /\ agent # 0
    /\ agent' = IF Running /\ probes /\ ready THEN agent ELSE 0
    /\ link' = (link /\ agent' # 0)
    /\ checker' = IF Running /\ probes THEN hubCert ELSE checker
    /\ UNCHANGED <<forwardVars, flags, hubCert, probes, update, lease, watched, podCrashes>>

\* The proxy-agent's liveness probe, with failureThreshold 1: one failure kills
\* it.  Check takes a new checksum over when it reports the change.
ProbeProxyAgent ==
    /\ agent # 0
    /\ agent' = IF ProxyAgentHealthy THEN agent ELSE 0
    /\ link' = (link /\ ProxyAgentHealthy)
    /\ checker' = IF Running /\ probes THEN hubCert ELSE checker
    /\ UNCHANGED <<forwardVars, flags, hubCert, probes, update, lease, watched, podCrashes>>

RotateCertificate ==
    /\ hubCert <= MaxRotations
    /\ hubCert' = hubCert + 1
    /\ UNCHANGED <<forwardVars, flags, agent, link, addonAgent, lease, watched, podCrashes>>

\* The tunnel comes and goes.
ChangeLink ==
    /\ agent # 0
    /\ link' = ~link
    /\ UNCHANGED <<forwardVars, flags, hubCert, agent, addonAgent, lease, watched, podCrashes>>

\* The lease's duration has passed since it was renewed.
ExpireLease ==
    /\ lease = "fresh"
    /\ lease' = "stale"
    /\ UNCHANGED <<forwardVars, flags, hubCert, agent, link, addonAgent, watched, podCrashes>>
-----------------------------------------------------------------------------
PodNext ==
    \/ StartAddonAgent \/ CrashAddonAgent \/ StartProxyAgent \/ CrashProxyAgent
    \/ ProbeProxyAgent \/ RotateCertificate \/ ChangeLink \/ ExpireLease
    \/ CheckHealth \/ \E result \in {"renewed", "failed"} : UpdateLease(result)
    \/ \E c \in Conns : Forward(c)

\* Fair: containers are started and probed, time passes, goroutines run, a copy
\* ends once what it reads from is closed, and the API server takes an update
\* now and then.  Not fair: rotations, crashes, the link and the peers.
PodFairness ==
    /\ WF_podVars(StartAddonAgent) /\ WF_podVars(StartProxyAgent) /\ WF_podVars(ProbeProxyAgent)
    /\ WF_podVars(ExpireLease) /\ WF_podVars(CheckHealth) /\ SF_podVars(UpdateLease("renewed"))
    /\ \A c \in Conns :
           /\ WF_podVars(Forward(c) /\ at[c] # "none" /\ at'[c] # at[c])
           /\ WF_podVars(Forward(c) /\ tunnel[c] = "closed" /\ reader'[c] # reader[c])
           /\ WF_podVars(Forward(c) /\ tunnel[c] = "closed" /\ fromRemote'[c] # fromRemote[c])
           /\ WF_podVars(Forward(c) /\ local[c] = "closed" /\ fromLocal'[c] # fromLocal[c])

PodSafetySpec == PodInit /\ [][PodNext]_podVars
PodSpec == PodSafetySpec /\ PodFairness
-----------------------------------------------------------------------------
(* Properties *)

\* See PortForward.
ReturnReleases == PF!ReturnReleases
CopiesEnd == PF!CopiesEnd
HandlersReturn == PF!HandlersReturn

\* A proxy-agent with an old certificate fails its next probe, provided that the
\* addon-agent was there when it started and still is: the reloading checker
\* reports each rotation once, and never to a container that missed it.
OldCertificateNoticed == agent # 0 /\ watched => agent = hubCert \/ ~ProxyAgentHealthy

\* The lease says whether the add-on works: with the health check it runs out
\* when the proxy-agent stays disconnected, although an update that has passed the
\* check may still come later; and it is renewed again and again while the
\* proxy-agent stays connected.
LeaseFollowsConnection ==
    /\ <>[](healthCheck /\ ~Connected) => <>[](lease = "stale")
    /\ <>[](Connected /\ Running) => []<>(lease = "fresh")
=============================================================================
