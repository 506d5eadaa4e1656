----------------------------- MODULE TrustChain -----------------------------
(***************************************************************************)
(* Who signs what on the hub, and who trusts it.                           *)
(*                                                                         *)
(* An addon manager takes the CA from the signer secret, or generates it,  *)
(* when it starts (module SelfSigner), and keeps that CA while it runs.    *)
(* With it the manager signs the certificates of the proxy server and the  *)
(* user server (ensureRotation), publishes the CA for them to trust        *)
(* (newProxySecret), renders it into the manifests of the agents (the      *)
(* values functions) and signs their client certificates.  Another program *)
(* signs the certificate of the service proxies with the CA stored in the  *)
(* secret at that moment, and the manifests carry a copy of it.  The       *)
(* ClusterProfile controller copies the user server's certificate into the *)
(* profiles.                                                               *)
(*                                                                         *)
(* A CA is a number, 0 is none.  A certificate is the CA that signed it    *)
(* and the address it is valid for.  stale holds the copies that are not   *)
(* of the current certificate.  One managed cluster stands for all.        *)
(***************************************************************************)
EXTENDS Naturals, Sequences

CONSTANTS Targets,        \* the sequence of certificates ensureRotation goes through
          Addressed,      \* those valid for the address of the load balancer
          MaxCA, MaxFaults   \* bounds

ServiceProxy == "service-proxy"
UserServer == "user-server"
Secrets == {Targets[k] : k \in DOMAIN Targets} \cup {ServiceProxy}

ASSUME TrustAssumption ==
    /\ Targets \in Seq(Secrets)
    /\ UserServer \in Secrets /\ Addressed \subseteq Secrets \ {ServiceProxy}
    /\ {MaxCA, MaxFaults} \subseteq Nat

VARIABLES signer,      \* the CA in the signer secret
          generated,   \* CAs generated so far
          config,      \* generation of the ManagedProxyConfiguration
          address,     \* of the load balancer, 0 while it has none
          ca,          \* the CA of the running manager, 0 while it is down
          at,          \* where its Reconcile is: 0, or an index of Targets, or past them
          entry,       \* the entrypoint that Reconcile has read
          agentImage,  \* AgentImageName: the configuration it is from, 0 while it is unset
          cert,        \* cert[s]: the certificate in secret s, or None
          due,         \* certificates to be renewed
          bundle,      \* the CA the proxy server and the user server trust
          listed,      \* has the certificate controller's lister synced?
          half,        \* the values rendered so far, or NoValues
          values,      \* the manifests of the agent
          client,      \* the agent's client certificate
          reading,     \* has the ClusterProfile controller read the certificate?
          stale,       \* copies of old certificates: "profile", "values", "reading"
          faults

hub == <<signer, generated, config, address>>
manager == <<ca, at, entry, agentImage>>
vars == <<hub, manager, cert, due, bundle, listed, half, values, client, reading, stale, faults>>

None == [ca |-> 0, host |-> 0]
NoValues == [gen |-> 0, image |-> 0, agentImage |-> 0, entry |-> 0, ca |-> 0, serving |-> 0]

Init ==
    /\ signer = 0 /\ generated = 0
    /\ config = 1 /\ address = 0
    /\ ca = 0 /\ at = 0 /\ entry = 0 /\ agentImage = 0
    /\ cert = [s \in Secrets |-> None] /\ due = {}
    /\ bundle = 0 /\ listed = FALSE
    /\ half = NoValues /\ values = NoValues
    /\ client = [ou |-> 0, ca |-> 0]
    /\ reading = FALSE /\ stale = {"profile", "values"}
    /\ faults = 0

Fault == faults < MaxFaults /\ faults' = faults + 1
-----------------------------------------------------------------------------
(* EnsureTargetCertKeyPair *)

\* The copies of a certificate, once it is signed anew.
CopiesOf(s) ==
    (IF s = ServiceProxy THEN {"values"} ELSE {})
    \cup (IF s = UserServer THEN {"profile"} \cup (IF reading THEN {"reading"} ELSE {}) ELSE {})

\* needNewTargetCertKeyPair: missing, to be renewed, of another CA, or valid for
\* another address.
NeedNew(s, c) == cert[s] = None \/ s \in due \/ cert[s] # c

Sign(s, c) ==
    /\ cert' = [cert EXCEPT ![s] = c]
    /\ due' = due \ {s}
    /\ stale' = stale \cup CopiesOf(s)

Keep == UNCHANGED <<cert, due, stale>>

\* The lister may lag behind: then a good certificate is replaced, or a bad one
\* left for the next Reconcile.
EnsureTarget(s, c) ==
    \/ NeedNew(s, c) /\ Sign(s, c) /\ UNCHANGED faults
    \/ ~NeedNew(s, c) /\ Keep /\ UNCHANGED faults
    \/ NeedNew(s, c) /\ Keep /\ Fault
    \/ ~NeedNew(s, c) /\ Sign(s, c) /\ Fault
-----------------------------------------------------------------------------
(* The addon manager *)

\* main: the CA is read or generated before any controller starts.
StartManager ==
    /\ ca = 0
    /\ IF signer # 0 THEN ca' = signer /\ UNCHANGED <<signer, generated>>
       ELSE /\ generated < MaxCA
            /\ generated' = generated + 1 /\ signer' = generated' /\ ca' = generated'
    /\ UNCHANGED <<config, address, at, entry, agentImage, cert, due, bundle, listed, half, values, client, reading, stale, faults>>

\* A crash, a rollout, or a change of the TLS ConfigMap.
StopManager ==
    /\ Fault /\ ca # 0
    /\ ca' = 0 /\ at' = 0 /\ entry' = 0 /\ agentImage' = 0 /\ half' = NoValues
    /\ UNCHANGED <<hub, cert, due, bundle, listed, values, client, reading, stale>>

\* Reconcile up to ensureEntrypoint, which fails while there is no address.
EnsureEntrypoint ==
    /\ ca # 0 /\ at = 0 /\ address # 0
    /\ at' = 1 /\ entry' = address
    /\ UNCHANGED <<hub, ca, agentImage, cert, due, bundle, listed, half, values, client, reading, stale, faults>>

\* ensureRotation: one certificate after the other.
EnsureRotation ==
    /\ at \in DOMAIN Targets
    /\ LET s == Targets[at]
       IN EnsureTarget(s, [ca |-> ca, host |-> IF s \in Addressed THEN entry ELSE 0])
    /\ at' = at + 1
    /\ UNCHANGED <<hub, ca, entry, agentImage, bundle, listed, half, values, client, reading>>

\* Faulty variant: the secret is written only where there is none.
DeployProxyServerOnce ==
    /\ at = Len(Targets) + 1
    /\ bundle' = IF bundle = 0 THEN ca ELSE bundle
    /\ at' = 0 /\ entry' = 0
    /\ UNCHANGED <<hub, ca, agentImage, cert, due, listed, half, values, client, reading, stale, faults>>

\* deployProxyServer, of which only the secret with the CA matters here; the hash
\* of the rendered secret tells ensure to update it.
DeployProxyServer ==
    /\ at = Len(Targets) + 1
    /\ bundle' = ca
    /\ at' = 0 /\ entry' = 0
    /\ UNCHANGED <<hub, ca, agentImage, cert, due, listed, half, values, client, reading, stale, faults>>

\* NewAgentAddon puts a hash of the CA into the subject of the agents' client
\* certificates.  The klusterlet asks for a certificate when the subject is not
\* that of the certificate it has, and the manager signs it (CSRSign).
SignCSR ==
    /\ ca # 0 /\ client.ou # ca
    /\ client' = [ou |-> ca, ca |-> ca]
    /\ UNCHANGED <<hub, manager, cert, due, bundle, listed, half, values, reading, stale, faults>>

\* Without --agent-image-name, the first image rendered is that of the addon agent
\* until the manager stops.
GetParsedAgentImage == IF agentImage = 0 THEN config ELSE agentImage

\* The values functions, of which a failure of any ends the rendering until the
\* next resync.  GetClusterProxyValueFunc reads the configuration, and fails while
\* the load balancer has no address.
GetClusterProxyValue ==
    /\ ca # 0 /\ half = NoValues /\ address # 0
    /\ agentImage' = GetParsedAgentImage
    /\ half' = [NoValues EXCEPT !.gen = config, !.entry = address, !.ca = ca]
    /\ UNCHANGED <<hub, ca, at, entry, cert, due, bundle, listed, values, client, reading, stale, faults>>

\* Faulty variant: the values are applied as long as they are new.
GetAdditionalValueFirst ==
    /\ half # NoValues /\ half' = NoValues
    /\ IF cert[ServiceProxy] = None \/ values.image = config THEN UNCHANGED <<values, stale>>
       ELSE /\ values' = [half EXCEPT !.image = config, !.agentImage = agentImage, !.serving = cert[ServiceProxy].ca]
            /\ stale' = stale \ {"values"}
    /\ UNCHANGED <<hub, manager, cert, due, bundle, listed, client, reading, faults>>

\* GetClusterProxyAdditionalValueFunc reads the configuration again, for the
\* image of the proxy-agent, and the certificate of the service proxies, which must
\* be there.  Then the framework applies the manifests.
GetAdditionalValue ==
    /\ half # NoValues /\ half' = NoValues
    /\ IF cert[ServiceProxy] = None THEN UNCHANGED <<values, stale>>
       ELSE /\ values' = [half EXCEPT !.image = config, !.agentImage = agentImage, !.serving = cert[ServiceProxy].ca]
            /\ stale' = stale \ {"values"}
    /\ UNCHANGED <<hub, manager, cert, due, bundle, listed, client, reading, faults>>
-----------------------------------------------------------------------------
(* The ClusterProfile controller and the certificate controller *)

\* Reconcile reads the secret, and tries again later if it is not there, ...
ReadUserServerCert ==
    /\ ~reading /\ cert[UserServer] # None
    /\ reading' = TRUE /\ stale' = stale \ {"reading"}
    /\ UNCHANGED <<hub, manager, cert, due, bundle, listed, half, values, client, faults>>

\* ... and updates the profile, or fails to.
SetAccessProvider ==
    /\ reading /\ reading' = FALSE
    /\ \/ /\ stale' = IF "reading" \in stale THEN stale \ {"reading"} ELSE stale \ {"profile"}
          /\ UNCHANGED faults
       \/ /\ stale' = stale \ {"reading"}
          /\ Fault
    /\ UNCHANGED <<hub, manager, cert, due, bundle, listed, half, values, client>>

\* Faulty variant: the certificate is signed anew whenever the controller runs.
SignServiceProxyAnew ==
    /\ signer # 0
    /\ Sign(ServiceProxy, [ca |-> signer, host |-> 0]) /\ UNCHANGED faults
    /\ UNCHANGED <<hub, manager, bundle, listed, half, values, client, reading>>

\* reconcileServerCertificates, with the CA in the secret.  Nothing waits for its
\* lister, which shows no secret until it has synced.
SignServiceProxy ==
    /\ signer # 0
    /\ LET c == [ca |-> signer, host |-> 0]
       IN IF listed THEN EnsureTarget(ServiceProxy, c) ELSE Sign(ServiceProxy, c) /\ UNCHANGED faults
    /\ UNCHANGED <<hub, manager, bundle, listed, half, values, client, reading>>

SyncLister ==
    /\ ~listed /\ listed' = TRUE
    /\ UNCHANGED <<hub, manager, cert, due, bundle, half, values, client, reading, stale, faults>>

RestartCertController ==
    /\ Fault /\ listed /\ listed' = FALSE
    /\ UNCHANGED <<hub, manager, cert, due, bundle, half, values, client, reading, stale>>
-----------------------------------------------------------------------------
(* Users, time and the cloud *)

\* Another manager, which runs beside this one during a rollout, has an earlier CA
\* or the same, and does one of the things above with it.
OtherManager(c) ==
    /\ Fault
    /\ \/ /\ \E k \in DOMAIN Targets :
                Sign(Targets[k], [ca |-> c, host |-> IF Targets[k] \in Addressed THEN address ELSE 0])
          /\ UNCHANGED <<bundle, values, client>>
       \/ bundle' = c /\ Keep /\ UNCHANGED <<values, client>>
       \/ /\ \E image \in 1..config :
                values' = [gen |-> config, image |-> config, agentImage |-> image, entry |-> address,
                           ca |-> c, serving |-> cert[ServiceProxy].ca]
          /\ UNCHANGED <<cert, due, stale, bundle, client>>
       \/ client' = [ou |-> ca, ca |-> c] /\ Keep /\ UNCHANGED <<bundle, values>>
    /\ UNCHANGED <<hub, manager, listed, half, reading>>

DeleteSigner ==
    /\ signer # 0 /\ generated < MaxCA /\ signer' = 0
    /\ UNCHANGED <<generated, config, address, manager, cert, due, bundle, listed, half, values, client, reading, stale, faults>>

DeleteCert(s) ==
    /\ Fault /\ cert[s] # None
    /\ cert' = [cert EXCEPT ![s] = None] /\ due' = due \ {s} /\ stale' = stale \cup CopiesOf(s)
    /\ UNCHANGED <<hub, manager, bundle, listed, half, values, client, reading>>

BecomeDue(s) ==
    /\ Fault /\ cert[s] # None /\ s \notin due
    /\ due' = due \cup {s}
    /\ UNCHANGED <<hub, manager, cert, bundle, listed, half, values, client, reading, stale>>

Edit ==
    /\ Fault /\ config' = config + 1
    /\ UNCHANGED <<signer, generated, address, manager, cert, due, bundle, listed, half, values, client, reading, stale>>

Provision ==
    /\ address' = address + 1
    /\ IF address = 0 THEN UNCHANGED faults ELSE Fault
    /\ UNCHANGED <<signer, generated, config, manager, cert, due, bundle, listed, half, values, client, reading, stale>>
-----------------------------------------------------------------------------
Manager ==
    \/ StartManager \/ EnsureEntrypoint \/ EnsureRotation \/ DeployProxyServer
    \/ SignCSR \/ GetClusterProxyValue \/ GetAdditionalValue

Controllers == ReadUserServerCert \/ SetAccessProvider \/ SignServiceProxy \/ SyncLister

Environment ==
    \/ StopManager \/ DeleteSigner \/ RestartCertController \/ Edit \/ Provision
    \/ \E s \in Secrets : DeleteCert(s) \/ BecomeDue(s)
    \/ \E c \in 1..generated : OtherManager(c)

Next == Manager \/ Controllers \/ Environment

\* Every controller resyncs, the manager is started again and the load balancer
\* gets an address.
Fairness ==
    /\ WF_vars(StartManager) /\ WF_vars(SignCSR)
    /\ WF_vars(EnsureEntrypoint \/ EnsureRotation \/ DeployProxyServer)
    /\ WF_vars(GetClusterProxyValue \/ GetAdditionalValue)
    /\ WF_vars(ReadUserServerCert \/ SetAccessProvider)
    /\ WF_vars(SignServiceProxy) /\ WF_vars(SyncLister)
    /\ WF_vars(Provision /\ address = 0)

SafetySpec == Init /\ [][Next]_vars
Spec == SafetySpec /\ Fairness
-----------------------------------------------------------------------------
(* Properties *)

\* The manager has the stored CA.
Settled == ca # 0 /\ ca = signer

\* Every certificate is of the stored CA, everybody trusts that CA, and the agents
\* dial an address the proxy server's certificate is valid for.
Trusted ==
    /\ \A s \in Secrets : cert[s].ca = signer
    /\ bundle = signer /\ values.ca = signer /\ values.serving = signer
    /\ \A s \in Addressed : cert[s].host = values.entry

\* Whatever happened to the secrets, the CA or the managers, once the manager holds
\* the stored CA every connection is trusted again without anybody's help.  The
\* client certificates of the agents follow too, unless a manager with another CA
\* has signed a request whose subject names this one's.
TrustRestored ==
    /\ <>[]Settled => <>[]Trusted
    /\ [](client.ou = client.ca) /\ <>[]Settled => <>[](client.ca = signer)

\* The profiles end up with the user server's certificate, and the agents with the
\* service proxies' certificate, the latest configuration and proxy-agent image, the
\* address of the load balancer, and the one addon agent image that this manager
\* renders for all clusters, although no event of the secrets or the load balancer reaches
\* those who copy them, the configuration is read twice, and a copy may be of what
\* has just been replaced.
CopiesFollow ==
    <>[]Settled => <>[](/\ stale = {}
                        /\ values.gen = config /\ values.image = config /\ values.entry = address
                        /\ values.agentImage = agentImage)

\* Trust is restored, and what Reconcile and the values functions have in hand fits.
Restored ==
    /\ Settled /\ Trusted
    /\ due = {} /\ address # 0 /\ values.entry = address
    /\ \A s \in Secrets : cert[s].host = IF s \in Addressed THEN address ELSE 0
    /\ at # 0 => entry = address
    /\ half # NoValues => half.ca = ca /\ half.entry = address

\* The copies are up to date too.
Current ==
    /\ Restored
    /\ listed /\ stale = {} /\ agentImage # 0
    /\ values.gen = config /\ values.image = config /\ values.agentImage = agentImage
    /\ half # NoValues => half.gen = config

\* What takes trust away for a while.
Breaks ==
    \/ StopManager \/ DeleteSigner \/ Provision
    \/ \E s \in Secrets : DeleteCert(s) \/ BecomeDue(s)
    \/ \E c \in (1..generated) \ {ca} : OtherManager(c)

\* The manager and the controllers never take restored trust away themselves, edits,
\* lagging listers, a restart of the certificate controller and a second manager
\* with the same CA included.  As long as nothing fails they do not replace a
\* certificate that has been copied, nor apply values that are not current.
TrustIsKept ==
    [][/\ Restored => Breaks \/ Restored'
       /\ Current => DeleteSigner \/ faults' # faults \/ Current']_vars
=============================================================================
