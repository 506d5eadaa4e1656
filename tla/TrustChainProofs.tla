-------------------------- MODULE TrustChainProofs --------------------------
(***************************************************************************)
(* Proofs about what the hub signs with: the certificates, the manifests   *)
(* and their copies (TrustChain), for any certificates, CAs and faults;    *)
(* and the CA secret behind them (SelfSigner), for any number of replicas, *)
(* deletions and restarts.                                                 *)
(***************************************************************************)
EXTENDS TrustChain, SelfSigner, TLAPS
------------------------------------------------------------------------------
(* The CA secret *)

\* The types of the secret and of what each replica holds.
SignerType ==
    /\ secret \in [ca : Nat, owned : BOOLEAN, version : Nat]
    /\ revision \in Nat /\ minted \in Nat
    /\ stored \subseteq 1..minted
    /\ pc \in [Replicas -> {"get", "create", "update", "loaded"}]
    /\ held \in [Replicas -> [ca : Nat, version : Nat]]
    /\ deletes \in Nat /\ restarts \in Nat

\* What a replica between two calls may rely on: the CA it is about to create is
\* its own and was never stored, a copy it read came from the secret, and a copy of
\* the secret's current version is the secret.
CallOf(r) ==
    /\ pc[r] = "create" =>
           /\ held[r].ca \in (1..minted) \ stored
           /\ \A q \in Replicas \ {r} : pc[q] = "create" => held[q].ca # held[r].ca
    /\ pc[r] \in {"update", "loaded"} => held[r].ca \in stored
    /\ pc[r] = "update" =>
           /\ held[r].version <= revision
           /\ Exists /\ secret.version = held[r].version => held[r].ca = secret.ca
    /\ deletes = 0 /\ pc[r] \in {"update", "loaded"} => Exists /\ held[r].ca = secret.ca

\* Versions only grow.
CallInv ==
    /\ secret.version <= revision
    /\ Exists => secret.ca \in stored
    /\ \A r \in Replicas : CallOf(r)

SignerInv == SignerType /\ CallInv

\* A write that the API server accepts keeps the invariant whoever it is for.
LEMMA StoreFacts ==
    ASSUME SignerType, CallInv, NEW c \in 1..minted, Store(c), ~Exists \/ secret.ca = c
    PROVE  /\ secret' \in [ca : Nat, owned : BOOLEAN, version : Nat]
           /\ revision' \in Nat
           /\ stored' \subseteq 1..minted
           /\ secret'.ca = c /\ secret'.ca # 0 /\ secret'.version = revision'
           /\ revision' = revision + 1
           /\ c \in stored' /\ stored \subseteq stored'
  BY DEF Store, SignerType

\* Every step keeps the invariant.
LEMMA SignerStep == SignerInv /\ [SignerNext]_signerVars => SignerInv'
<1> SUFFICES ASSUME SignerInv, [SignerNext]_signerVars PROVE SignerInv'
  OBVIOUS
<1> USE DEF SignerInv
<1>1. ASSUME NEW r \in Replicas, Get(r) PROVE SignerInv'
  <2>1. CASE ~Exists
    <3>1. /\ minted' = minted + 1 /\ Goto(r, "create", [ca |-> minted + 1, version |-> 0])
          /\ UNCHANGED <<secret, revision, stored, deletes, restarts>>
      BY <1>1, <2>1 DEF Get
    <3>2. SignerType'
      BY <3>1 DEF Goto, SignerType
    <3>3. CallInv'
      BY <3>1, <2>1 DEF Goto, Exists, SignerType, CallInv, CallOf
    <3> QED
      BY <3>2, <3>3
  <2>2. CASE Exists
    <3>1. /\ UNCHANGED <<secret, revision, stored, minted, deletes, restarts>>
          /\ \E l \in {"loaded", "update"} :
                 Goto(r, l, [ca |-> secret.ca, version |-> secret.version])
      BY <1>1, <2>2 DEF Get
    <3>2. SignerType'
      BY <3>1 DEF Goto, SignerType
    <3>3. CallInv'
      BY <3>1, <2>2 DEF Goto, Exists, SignerType, CallInv, CallOf
    <3> QED
      BY <3>2, <3>3
  <2> QED
    BY <2>1, <2>2
<1>2. ASSUME NEW r \in Replicas, Goto(r, "loaded", held[r]), Store(held[r].ca),
             ~Exists \/ secret.ca = held[r].ca,
             held[r].ca \in 1..minted, UNCHANGED <<minted, deletes, restarts>>,
             pc[r] \in {"create", "update"}
      PROVE  SignerInv'
  <2>1. SignerType'
    BY <1>2, StoreFacts DEF SignerType, Goto
  <2>2. \A q \in Replicas \ {r} : pc[q] = "create" => held[q].ca \in (1..minted) \ stored'
    BY <1>2 DEF CallInv, CallOf, Store
  <2>3. ASSUME NEW q \in Replicas PROVE CallOf(q)'
    <3>1. CASE q = r
      BY <1>2, <2>2, <3>1, StoreFacts DEF SignerType, CallInv, CallOf, Goto, Exists
    <3>2. CASE q # r
      <4>1. pc'[q] = pc[q] /\ held'[q] = held[q] /\ pc'[r] # "create"
        BY <1>2, <3>2 DEF SignerType, Goto
      <4>2. \A p \in Replicas \ {q} : pc'[p] = "create" => pc[p] = "create" /\ held'[p] = held[p]
        BY <1>2, <4>1 DEF SignerType, Goto
      <4>3. pc'[q] = "create" =>
                /\ held'[q].ca \in (1..minted') \ stored'
                /\ \A p \in Replicas \ {q} : pc'[p] = "create" => held'[p].ca # held'[q].ca
        BY <1>2, <2>2, <3>2, <4>1, <4>2 DEF CallInv, CallOf
      <4>4. pc'[q] \in {"update", "loaded"} => held'[q].ca \in stored'
        BY <4>1, <1>2, StoreFacts DEF CallInv, CallOf
      <4>5. pc'[q] = "update" => held'[q].version < secret'.version /\ held'[q].version <= revision'
        <5>1. pc[q] = "update" => held[q].version <= revision
          BY DEF CallInv, CallOf
        <5>2. held[q].version \in Nat /\ revision \in Nat
          BY DEF SignerType
        <5>3. secret'.version = revision + 1 /\ revision' = revision + 1
          BY <1>2, StoreFacts
        <5> QED
          BY <4>1, <5>1, <5>2, <5>3
      <4>6. deletes' = 0 /\ pc'[q] \in {"update", "loaded"} => Exists' /\ held'[q].ca = secret'.ca
        BY <4>1, <1>2, StoreFacts DEF CallInv, CallOf, Exists
      <4>7. held'[q].version # secret'.version \/ pc'[q] # "update"
        BY <4>1, <4>5, <2>1 DEF SignerType
      <4> QED
        BY <4>3, <4>4, <4>5, <4>6, <4>7 DEF CallOf
    <3> QED
      BY <3>1, <3>2
  <2>4. CallInv'
    BY <1>2, <2>3, StoreFacts DEF SignerType, CallInv, Exists
  <2> QED
    BY <2>1, <2>4
<1>3. ASSUME NEW r \in Replicas, Goto(r, "get", Nothing), Store(held[r].ca),
             ~Exists \/ secret.ca = held[r].ca, pc[r] \in {"create", "update"},
             held[r].ca \in 1..minted, UNCHANGED <<minted, deletes>>, restarts' \in Nat
      PROVE  SignerInv'
  <2>1. SignerType'
    BY <1>3, StoreFacts DEF SignerType, Goto, Nothing
  <2>2. \A q \in Replicas \ {r} : pc[q] = "create" => held[q].ca \in (1..minted) \ stored'
    BY <1>3 DEF CallInv, CallOf, Store
  <2>3. ASSUME NEW q \in Replicas PROVE CallOf(q)'
    <3>1. CASE q = r
      BY <1>3, <2>2, <3>1, StoreFacts DEF SignerType, CallInv, CallOf, Goto, Nothing, Exists
    <3>2. CASE q # r
      <4>1. pc'[q] = pc[q] /\ held'[q] = held[q] /\ pc'[r] # "create"
        BY <1>3, <3>2 DEF SignerType, Goto
      <4>2. \A p \in Replicas \ {q} : pc'[p] = "create" => pc[p] = "create" /\ held'[p] = held[p]
        BY <1>3, <4>1 DEF SignerType, Goto
      <4>3. pc'[q] = "create" =>
                /\ held'[q].ca \in (1..minted') \ stored'
                /\ \A p \in Replicas \ {q} : pc'[p] = "create" => held'[p].ca # held'[q].ca
        BY <1>3, <2>2, <3>2, <4>1, <4>2 DEF CallInv, CallOf
      <4>4. pc'[q] \in {"update", "loaded"} => held'[q].ca \in stored'
        BY <4>1, <1>3, StoreFacts DEF CallInv, CallOf
      <4>5. pc'[q] = "update" => held'[q].version < secret'.version /\ held'[q].version <= revision'
        <5>1. pc[q] = "update" => held[q].version <= revision
          BY DEF CallInv, CallOf
        <5>2. held[q].version \in Nat /\ revision \in Nat
          BY DEF SignerType
        <5>3. secret'.version = revision + 1 /\ revision' = revision + 1
          BY <1>3, StoreFacts
        <5> QED
          BY <4>1, <5>1, <5>2, <5>3
      <4>6. deletes' = 0 /\ pc'[q] \in {"update", "loaded"} => Exists' /\ held'[q].ca = secret'.ca
        BY <4>1, <1>3, StoreFacts DEF CallInv, CallOf, Exists
      <4>7. held'[q].version # secret'.version \/ pc'[q] # "update"
        BY <4>1, <4>5, <2>1 DEF SignerType
      <4> QED
        BY <4>3, <4>4, <4>5, <4>6, <4>7 DEF CallOf
    <3> QED
      BY <3>1, <3>2
  <2>4. CallInv'
    BY <1>3, <2>3, StoreFacts DEF SignerType, CallInv, Exists
  <2> QED
    BY <2>1, <2>4
<1>4. ASSUME NEW r \in Replicas, Goto(r, "get", Nothing),
             UNCHANGED <<secret, revision, stored, minted, deletes>>, restarts' \in Nat
      PROVE  SignerInv'
  BY <1>4 DEF Goto, Nothing, SignerType, CallInv, CallOf, Exists
<1>5. ASSUME NEW r \in Replicas, Create(r) PROVE SignerInv'
  <2>1. held[r].ca \in 1..minted
    BY <1>5 DEF Create, CallInv, CallOf
  <2>2. CASE ~Exists /\ Store(held[r].ca) /\ Goto(r, "loaded", held[r])
    BY <1>2, <1>5, <2>1, <2>2 DEF Create
  <2>3. CASE Exists /\ Goto(r, "get", Nothing) /\ UNCHANGED <<secret, revision, stored>>
    BY <1>4, <1>5, <2>3 DEF Create, SignerType
  <2> QED
    BY <1>5, <2>2, <2>3 DEF Create
<1>6. ASSUME NEW r \in Replicas, UpdateOwner(r) PROVE SignerInv'
  <2>1. held[r].ca \in 1..minted
    BY <1>6 DEF UpdateOwner, CallInv, CallOf, SignerType
  <2>2. CASE /\ Exists /\ secret.version = held[r].version
             /\ Store(held[r].ca) /\ Goto(r, "loaded", held[r])
    <3>1. secret.ca = held[r].ca
      BY <1>6, <2>2 DEF UpdateOwner, CallInv, CallOf
    <3> QED
      BY <1>2, <1>6, <2>1, <2>2, <3>1 DEF UpdateOwner
  <2>3. CASE Goto(r, "get", Nothing) /\ UNCHANGED <<secret, revision, stored>>
    BY <1>4, <1>6, <2>3 DEF UpdateOwner, SignerType
  <2> QED
    BY <1>6, <2>2, <2>3 DEF UpdateOwner
<1>7. ASSUME NEW r \in Replicas, Restart(r) PROVE SignerInv'
  <2>1. restarts' \in Nat
    BY <1>7 DEF Restart, SignerType
  <2>2. CASE UNCHANGED <<secret, revision, stored>>
    BY <1>4, <1>7, <2>1, <2>2 DEF Restart
  <2>3. CASE pc[r] = "create" /\ ~Exists /\ Store(held[r].ca)
    <3>1. held[r].ca \in 1..minted
      BY <2>3 DEF CallInv, CallOf
    <3> QED
      BY <1>3, <1>7, <2>1, <2>3, <3>1 DEF Restart
  <2>4. CASE pc[r] = "update" /\ Exists /\ secret.version = held[r].version /\ Store(held[r].ca)
    <3>1. held[r].ca \in 1..minted /\ secret.ca = held[r].ca
      BY <2>4 DEF CallInv, CallOf, SignerType
    <3> QED
      BY <1>3, <1>7, <2>1, <2>4, <3>1 DEF Restart
  <2> QED
    BY <1>7, <2>2, <2>3, <2>4 DEF Restart
<1>8. CASE Delete
  BY <1>8 DEF Delete, NoSecret, Exists, SignerType, CallInv, CallOf
<1>9. CASE UNCHANGED signerVars
  BY <1>9 DEF signerVars, SignerType, CallInv, CallOf, Exists
<1> QED
  BY <1>1, <1>5, <1>6, <1>7, <1>8, <1>9 DEF SignerNext, Load

\* The inductive invariant of the CA secret and its readers.
THEOREM SignerInvariant == SignerSafetySpec => []SignerInv
<1>1. SignerInit => SignerInv
  <2> SUFFICES ASSUME SignerInit PROVE SignerInv
    OBVIOUS
  <2>1. CASE secret = NoSecret /\ revision = 0 /\ minted = 0 /\ stored = {}
    BY <2>1 DEF SignerInit, SignerInv, SignerType, CallInv, CallOf, Exists, NoSecret, Nothing
  <2>2. CASE secret \in [ca : {1}, owned : BOOLEAN, version : {1}] /\ revision = 1 /\ minted = 1 /\ stored = {1}
    BY <2>2 DEF SignerInit, SignerInv, SignerType, CallInv, CallOf, Exists, Nothing
  <2> QED
    BY <2>1, <2>2 DEF SignerInit
<1> QED
  BY <1>1, SignerStep, PTL DEF SignerSafetySpec

\* For any number of replicas and crashes: a replica signs only with a stored
\* CA, ...
THEOREM SignerUsesStoredCA == SignerSafetySpec => []SignersUseStoredCA
<1>1. SignerInv => SignersUseStoredCA
  BY DEF SignerInv, CallInv, CallOf, SignersUseStoredCA
<1> QED
  BY <1>1, SignerInvariant, PTL

\* ... and all replicas sign with the CA of the secret unless it was deleted.
THEOREM SignerReplicasAgree == SignerSafetySpec => []ReplicasAgree
<1>1. SignerInv => ReplicasAgree
  BY DEF SignerInv, CallInv, CallOf, ReplicasAgree
<1> QED
  BY <1>1, SignerInvariant, PTL

\* For any number of replicas and crashes: the CA of an existing secret is never
\* replaced and a deleted one never comes back, whatever copies replicas still hold.
THEOREM SignerKeepsCA == SignerSafetySpec => StoredCANeverReplaced
<1> DEFINE Final == secret'.ca # secret.ca => secret'.ca = 0 \/ (~Exists /\ secret'.ca \notin stored)
<1>1. SignerInv /\ [SignerNext]_signerVars => [Final]_signerVars
  <2> SUFFICES ASSUME SignerInv, SignerNext PROVE Final
    BY DEF signerVars
  <2>1. CASE Delete
    BY <2>1 DEF Delete, NoSecret
  <2>2. ASSUME NEW r \in Replicas, Get(r) PROVE Final
    BY <2>2 DEF Get
  <2>3. ASSUME NEW r \in Replicas, pc[r] = "create", ~Exists, Store(held[r].ca) PROVE Final
    <3>1. held[r].ca \notin stored
      BY <2>3 DEF SignerInv, CallInv, CallOf
    <3> QED
      BY <2>3, <3>1 DEF Store
  <2>4. ASSUME NEW r \in Replicas, pc[r] = "update", Exists, secret.version = held[r].version,
               Store(held[r].ca)
        PROVE  Final
    <3>1. held[r].ca = secret.ca
      BY <2>4 DEF SignerInv, CallInv, CallOf
    <3> QED
      BY <2>4, <3>1 DEF Store
  <2>5. ASSUME NEW r \in Replicas, Create(r) \/ UpdateOwner(r) \/ Restart(r) PROVE Final
    BY <2>3, <2>4, <2>5 DEF Create, UpdateOwner, Restart
  <2> QED
    BY <2>1, <2>2, <2>5 DEF SignerNext, Load
<1> QED
  BY <1>1, SignerInvariant, PTL DEF SignerSafetySpec, StoredCANeverReplaced
------------------------------------------------------------------------------
(* The chain of trust *)

\* What the secrets and the manifests hold.
Certificates == [ca : Nat, host : Nat]
Manifests == [gen : Nat, image : Nat, agentImage : Nat, entry : Nat, ca : Nat, serving : Nat]

\* The types of what the properties speak of.
TrustType ==
    /\ signer \in Nat /\ generated \in Nat /\ config \in Nat /\ address \in Nat
    /\ ca \in Nat /\ at \in Nat /\ entry \in Nat /\ agentImage \in Nat /\ faults \in Nat
    /\ cert \in [Secrets -> Certificates]
    /\ half \in Manifests /\ values \in Manifests

\* What ensureRotation signs, and the service proxies, are secrets.
LEMMA TargetSecrets ==
    /\ ServiceProxy \in Secrets
    /\ \A k \in DOMAIN Targets : Targets[k] \in Secrets
    /\ NoValues \in Manifests /\ None \in Certificates
BY DEF Secrets, NoValues, Manifests, None, Certificates

\* However a certificate is ensured, what is in the secrets are certificates.
LEMMA EnsureTyped ==
    ASSUME TrustType, NEW s \in Secrets, NEW c \in Certificates,
           EnsureTarget(s, c) \/ Sign(s, c)
    PROVE  cert' \in [Secrets -> Certificates]
BY DEF EnsureTarget, Sign, Keep, TrustType

\* Faults are counted.
LEMMA FaultsCounted ==
    ASSUME Next
    PROVE  faults' = faults \/ faults' = faults + 1
<1> USE DEF Fault
<1>1. CASE Manager
  BY <1>1 DEF Manager, StartManager, EnsureEntrypoint, EnsureRotation, EnsureTarget,
    DeployProxyServer, SignCSR, GetClusterProxyValue, GetAdditionalValue
<1>2. CASE Controllers
  BY <1>2 DEF Controllers, ReadUserServerCert, SetAccessProvider, SignServiceProxy,
    EnsureTarget, SyncLister
<1>3. CASE Environment
  BY <1>3 DEF Environment, StopManager, DeleteSigner, RestartCertController, Edit,
    Provision, DeleteCert, BecomeDue, OtherManager
<1> QED
  BY <1>1, <1>2, <1>3 DEF Next

\* Every step keeps the types.
LEMMA TrustTypeStep == TrustType /\ [Next]_vars => TrustType'
<1> SUFFICES ASSUME TrustType, [Next]_vars PROVE TrustType'
  OBVIOUS
<1> USE TargetSecrets DEF hub, manager
<1>1. faults' \in Nat
  BY FaultsCounted DEF TrustType, vars
<1>2. CASE EnsureEntrypoint \/ DeployProxyServer
  BY <1>1, <1>2 DEF TrustType, EnsureEntrypoint, DeployProxyServer
<1>3. CASE SignCSR \/ ReadUserServerCert \/ SyncLister
  BY <1>1, <1>3 DEF TrustType, SignCSR, ReadUserServerCert, SyncLister
<1>4. CASE StartManager \/ SetAccessProvider
  BY <1>1, <1>4 DEF TrustType, StartManager, SetAccessProvider
<1>5. CASE \/ StopManager \/ DeleteSigner \/ RestartCertController \/ Edit
           \/ Provision \/ UNCHANGED vars
  BY <1>1, <1>5 DEF TrustType, StopManager, DeleteSigner, RestartCertController, Edit,
    Provision, vars
<1>6. CASE EnsureRotation
  <2> DEFINE c == [ca |-> ca, host |-> IF Targets[at] \in Addressed THEN entry ELSE 0]
  <2>1. c \in Certificates
    BY DEF TrustType, Certificates
  <2>2. EnsureTarget(Targets[at], c) /\ Targets[at] \in Secrets
    BY <1>6 DEF EnsureRotation
  <2>3. cert' \in [Secrets -> Certificates]
    BY <2>1, <2>2, EnsureTyped
  <2> QED
    BY <1>1, <1>6, <2>3 DEF EnsureRotation, TrustType
<1>7. CASE SignServiceProxy
  <2> DEFINE c == [ca |-> signer, host |-> 0]
  <2>1. c \in Certificates
    BY DEF TrustType, Certificates
  <2>2. EnsureTarget(ServiceProxy, c) \/ Sign(ServiceProxy, c)
    BY <1>7 DEF SignServiceProxy
  <2>3. cert' \in [Secrets -> Certificates]
    BY <2>1, <2>2, EnsureTyped
  <2> QED
    BY <1>1, <1>7, <2>3 DEF SignServiceProxy, TrustType
<1>8. CASE GetClusterProxyValue
  BY <1>1, <1>8 DEF GetClusterProxyValue, GetParsedAgentImage, NoValues, Manifests, TrustType
<1>9. CASE GetAdditionalValue
  BY <1>1, <1>9 DEF GetAdditionalValue, Manifests, Certificates, TrustType
<1>10. ASSUME NEW s \in Secrets, DeleteCert(s) \/ BecomeDue(s) PROVE TrustType'
  BY <1>1, <1>10 DEF DeleteCert, BecomeDue, TrustType
<1>11. ASSUME NEW c \in 1..generated, OtherManager(c) PROVE TrustType'
  <2>1. ASSUME NEW s \in Secrets, Sign(s, [ca |-> c, host |-> IF s \in Addressed THEN address ELSE 0])
        PROVE  cert' \in [Secrets -> Certificates]
    <3>1. [ca |-> c, host |-> IF s \in Addressed THEN address ELSE 0] \in Certificates
      BY DEF TrustType, Certificates
    <3> QED
      BY <2>1, <3>1, EnsureTyped
  <2>2. cert' \in [Secrets -> Certificates]
    BY <1>11, <2>1 DEF OtherManager, Keep, TrustType
  <2>3. values' \in Manifests
    <3>1. cert[ServiceProxy].ca \in Nat /\ c \in Nat /\ 1..config \subseteq Nat
      BY DEF TrustType, Certificates
    <3>2. ASSUME NEW image \in 1..config
          PROVE  [gen |-> config, image |-> config, agentImage |-> image, entry |-> address,
                  ca |-> c, serving |-> cert[ServiceProxy].ca] \in Manifests
      BY <3>1 DEF TrustType, Manifests
    <3>3. UNCHANGED values => values' \in Manifests
      BY DEF TrustType
    <3> QED
      BY <1>11, <3>2, <3>3 DEF OtherManager
  <2> QED
    BY <1>1, <1>11, <2>2, <2>3 DEF OtherManager, TrustType
<1> QED
  BY <1>2, <1>3, <1>4, <1>5, <1>6, <1>7, <1>8, <1>9, <1>10, <1>11
  DEF Next, Manager, Controllers, Environment

\* The types hold throughout.
LEMMA TrustTyped == SafetySpec => []TrustType
<1>1. Init => TrustType
  BY TargetSecrets DEF Init, TrustType
<1>2. TrustType /\ [Next]_vars => TrustType'
  BY TrustTypeStep
<1> QED
  BY <1>1, <1>2, PTL DEF SafetySpec

\* The certificate that ensureRotation would sign for s.
Proper(s) == [ca |-> ca, host |-> IF s \in Addressed THEN address ELSE 0]

\* With trust restored every certificate is what would be signed, so ensuring it
\* changes nothing, except that the copies may have to be made again.
LEMMA ProperCertificates ==
    ASSUME TrustType, Restored, NEW s \in Secrets
    PROVE  cert[s] = Proper(s) /\ cert[s] # None /\ ~NeedNew(s, Proper(s))
<1>1. cert[s] \in Certificates /\ cert[s].ca = ca /\ cert[s].host = IF s \in Addressed THEN address ELSE 0
  BY DEF TrustType, Restored, Settled, Trusted
<1>2. cert[s] = Proper(s)
  BY <1>1 DEF Certificates, Proper
<1>3. cert[s] # None
  BY <1>1 DEF None, Restored, Settled
<1> QED
  BY <1>2, <1>3 DEF NeedNew, Restored

\* Ensuring such a certificate leaves it as it is.
LEMMA EnsureKeeps ==
    ASSUME TrustType, Restored, NEW s \in Secrets,
           EnsureTarget(s, Proper(s)) \/ Sign(s, Proper(s))
    PROVE  cert' = cert /\ due' = {}
<1>1. cert[s] = Proper(s) /\ due = {} /\ cert \in [Secrets -> Certificates]
  BY ProperCertificates DEF Restored, TrustType
<1> QED
  BY <1>1 DEF EnsureTarget, Sign, Keep

\* Only what Breaks names takes restored trust away.
LEMMA RestoredStep ==
    ASSUME TrustType, Restored, Next, ~Breaks
    PROVE  Restored'
<1> DEFINE Fits(v) == v.entry = address /\ v.ca = signer
<1> USE DEF hub, manager
<1>1. ASSUME UNCHANGED <<signer, ca, address, cert>>, due' = {}, bundle' = ca,
             Fits(values'), values'.serving = signer,
             at' # 0 => entry' = address,
             half' # NoValues => Fits(half')
      PROVE  Restored'
  BY <1>1 DEF Restored, Settled, Trusted
<1>2. /\ due = {} /\ bundle = ca /\ ca = signer /\ ca # 0 /\ signer # 0
      /\ Fits(values) /\ values.serving = signer
      /\ at # 0 => entry = address
      /\ half # NoValues => Fits(half)
  BY DEF Restored, Settled, Trusted
<1>3. cert[ServiceProxy] # None /\ cert[ServiceProxy].ca = signer
  <2>1. ServiceProxy \in Secrets
    BY TargetSecrets
  <2>2. cert[ServiceProxy] = Proper(ServiceProxy) /\ cert[ServiceProxy] # None
    BY <2>1, ProperCertificates
  <2>3. cert[ServiceProxy].ca = signer
    BY <1>2, <2>2 DEF Proper
  <2> QED
    BY <2>2, <2>3
<1> HIDE DEF Fits
<1>4. CASE EnsureEntrypoint
  BY <1>1, <1>2, <1>4 DEF EnsureEntrypoint
<1>5. CASE EnsureRotation
  <2>1. at # 0 /\ Targets[at] \in Secrets
    BY <1>5, TargetSecrets, TrustAssumption DEF EnsureRotation
  <2>2. EnsureTarget(Targets[at], Proper(Targets[at]))
    BY <1>2, <1>5, <2>1 DEF EnsureRotation, Proper
  <2>3. cert' = cert /\ due' = {}
    BY <2>1, <2>2, EnsureKeeps
  <2> QED
    BY <1>1, <1>2, <1>5, <2>1, <2>3 DEF EnsureRotation
<1>6. CASE DeployProxyServer
  BY <1>1, <1>2, <1>6 DEF DeployProxyServer
<1>7. CASE GetClusterProxyValue
  <2>1. Fits(half')
    BY <1>2, <1>7 DEF GetClusterProxyValue, NoValues, Fits
  <2> QED
    BY <1>1, <1>2, <1>7, <2>1 DEF GetClusterProxyValue
<1>8. CASE GetAdditionalValue
  <2>1. /\ half # NoValues
        /\ values' = [half EXCEPT !.image = config, !.agentImage = agentImage,
                                  !.serving = cert[ServiceProxy].ca]
    BY <1>3, <1>8 DEF GetAdditionalValue
  <2>2. values'.entry = half.entry /\ values'.ca = half.ca /\ values'.serving = signer
    BY <1>3, <2>1 DEF TrustType, Manifests
  <2>3. Fits(values')
    BY <1>2, <2>1, <2>2 DEF Fits
  <2> QED
    BY <1>1, <1>2, <1>8, <2>2, <2>3 DEF GetAdditionalValue
<1>9. CASE SignServiceProxy
  <2>1. Proper(ServiceProxy) = [ca |-> signer, host |-> 0]
    BY <1>2, TrustAssumption DEF Proper
  <2>2. cert' = cert /\ due' = {}
    BY <1>9, <2>1, EnsureKeeps, TargetSecrets DEF SignServiceProxy
  <2> QED
    BY <1>1, <1>2, <1>9, <2>2 DEF SignServiceProxy
<1>10. CASE \/ SignCSR \/ ReadUserServerCert \/ SetAccessProvider \/ SyncLister
           \/ RestartCertController \/ Edit
  BY <1>1, <1>2, <1>10 DEF SignCSR, ReadUserServerCert, SetAccessProvider, SyncLister,
    RestartCertController, Edit
<1>11. ASSUME NEW c \in 1..generated, OtherManager(c) PROVE Restored'
  <2>1. c = ca
    BY <1>11 DEF Breaks
  <2>2. UNCHANGED <<signer, ca, address, at, entry, half>>
    BY <1>11 DEF OtherManager
  <2>3. ASSUME NEW k \in DOMAIN Targets,
               Sign(Targets[k], [ca |-> c, host |-> IF Targets[k] \in Addressed THEN address ELSE 0]),
               UNCHANGED <<bundle, values, client>>
        PROVE  Restored'
    <3>1. cert' = cert /\ due' = {}
      BY <2>1, <2>3, EnsureKeeps, TargetSecrets DEF Proper
    <3> QED
      BY <1>1, <1>2, <2>2, <2>3, <3>1
  <2>4. CASE bundle' = c /\ Keep /\ UNCHANGED <<values, client>>
    BY <1>1, <1>2, <2>1, <2>2, <2>4 DEF Keep
  <2>5. ASSUME NEW image,
               values' = [gen |-> config, image |-> config, agentImage |-> image, entry |-> address,
                          ca |-> c, serving |-> cert[ServiceProxy].ca],
               UNCHANGED <<cert, due, stale, bundle, client>>
        PROVE  Restored'
    <3>1. Fits(values') /\ values'.serving = signer
      BY <1>2, <1>3, <2>1, <2>5 DEF Fits
    <3> QED
      BY <1>1, <1>2, <2>2, <2>5, <3>1
  <2>6. CASE Keep /\ UNCHANGED <<bundle, values>>
    BY <1>1, <1>2, <2>2, <2>6 DEF Keep
  <2> QED
    BY <1>11, <2>3, <2>4, <2>5, <2>6 DEF OtherManager
<1>12. ~StartManager
  BY <1>2 DEF StartManager
<1> QED
  BY <1>4, <1>5, <1>6, <1>7, <1>8, <1>9, <1>10, <1>11, <1>12
  DEF Next, Manager, Controllers, Environment, Breaks

\* With nothing failing, nothing that is current is replaced.
LEMMA CurrentStep ==
    ASSUME TrustType, Current, Next, ~DeleteSigner, faults' = faults
    PROVE  Current'
<1> USE DEF hub, manager
<1>1. ~Fault
  BY DEF Fault, TrustType
<1>2. Restored /\ ~Breaks
  BY <1>1 DEF Current, Restored, Breaks, StopManager, Provision, DeleteCert,
    BecomeDue, OtherManager
<1>3. Restored'
  BY <1>2, RestoredStep
<1>4. ASSUME NEW s \in Secrets, EnsureTarget(s, Proper(s)) PROVE stale' = stale
  BY <1>1, <1>2, <1>4, ProperCertificates DEF EnsureTarget, Keep
<1>5. /\ listed /\ stale = {} /\ agentImage # 0
      /\ values.gen = config /\ values.image = config /\ values.agentImage = agentImage
      /\ half # NoValues => half.gen = config
  BY DEF Current
<1>6. ASSUME stale' = {}, UNCHANGED <<listed, config, agentImage>>,
             \/ values' = values
             \/ values'.gen = config /\ values'.image = config /\ values'.agentImage = agentImage,
             half' # NoValues => half'.gen = config
      PROVE  Current'
  BY <1>3, <1>5, <1>6 DEF Current
<1>7. CASE \/ EnsureEntrypoint \/ DeployProxyServer \/ SignCSR
           \/ ReadUserServerCert \/ SetAccessProvider
  BY <1>5, <1>6, <1>7 DEF EnsureEntrypoint, DeployProxyServer, SignCSR,
    ReadUserServerCert, SetAccessProvider
<1>8. CASE EnsureRotation
  <2>1. Targets[at] \in Secrets /\ at # 0
    BY <1>8, TargetSecrets, TrustAssumption DEF EnsureRotation
  <2>2. EnsureTarget(Targets[at], Proper(Targets[at]))
    BY <1>2, <1>8, <2>1 DEF EnsureRotation, Proper, Restored
  <2> QED
    BY <1>4, <1>5, <1>6, <1>8, <2>1, <2>2 DEF EnsureRotation
<1>9. CASE SignServiceProxy
  <2>1. Proper(ServiceProxy) = [ca |-> signer, host |-> 0]
    BY <1>2, TrustAssumption DEF Proper, Restored, Settled
  <2>2. EnsureTarget(ServiceProxy, Proper(ServiceProxy))
    BY <1>5, <1>9, <2>1 DEF SignServiceProxy
  <2> QED
    BY <1>4, <1>5, <1>6, <1>9, <2>2, TargetSecrets DEF SignServiceProxy
<1>10. CASE GetClusterProxyValue
  <2>1. agentImage' = agentImage /\ half'.gen = config
    BY <1>5, <1>10 DEF GetClusterProxyValue, GetParsedAgentImage, NoValues
  <2> QED
    BY <1>5, <1>6, <1>10, <2>1 DEF GetClusterProxyValue
<1>11. CASE GetAdditionalValue
  <2>1. CASE values' = values
    BY <1>5, <1>6, <1>11, <2>1 DEF GetAdditionalValue
  <2>2. CASE values' = [half EXCEPT !.image = config, !.agentImage = agentImage,
                                    !.serving = cert[ServiceProxy].ca]
    <3>1. half.gen = config
      BY <1>5, <1>11 DEF GetAdditionalValue
    <3>2. values'.gen = config /\ values'.image = config /\ values'.agentImage = agentImage
      BY <2>2, <3>1 DEF TrustType, Manifests
    <3> QED
      BY <1>5, <1>6, <1>11, <3>2 DEF GetAdditionalValue
  <2> QED
    BY <1>11, <2>1, <2>2 DEF GetAdditionalValue
<1>12. ~StartManager /\ ~SyncLister
  BY <1>2, <1>5 DEF StartManager, SyncLister, Restored, Settled
<1>13. /\ ~StopManager /\ ~RestartCertController /\ ~Edit /\ ~Provision
       /\ \A s \in Secrets : ~DeleteCert(s) /\ ~BecomeDue(s)
       /\ \A c \in 1..generated : ~OtherManager(c)
  BY <1>1, <1>2 DEF Breaks, RestartCertController, Edit, OtherManager
<1> QED
  BY <1>7, <1>8, <1>9, <1>10, <1>11, <1>12, <1>13
  DEF Next, Manager, Controllers, Environment

\* For any certificates, CAs and faults, and targets as the code lists them: restored
\* trust ends only with a stop of the manager, a deletion, a renewal that is due, a
\* new address or a manager with another CA, and current copies only with a fault.
THEOREM TrustStays == SafetySpec => TrustIsKept
<1> DEFINE Kept ==
        /\ Restored => Breaks \/ Restored'
        /\ Current => DeleteSigner \/ faults' # faults \/ Current'
<1>1. TrustType /\ [Next]_vars => [Kept]_vars
  BY RestoredStep, CurrentStep
<1>2. SafetySpec => []TrustType
  BY TrustTyped
<1> QED
  BY <1>1, <1>2, PTL DEF SafetySpec, TrustIsKept
=============================================================================
