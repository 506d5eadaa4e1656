----------------------------- MODULE SelfSigner -----------------------------
(***************************************************************************)
(* NewSelfSignerFromSecretOrGenerate: every replica of the addon-manager   *)
(* loads the signing CA before leader election, so that several replicas   *)
(* read, create and adopt the CA secret at once.  An error ends the        *)
(* process, which is then restarted.                                       *)
(***************************************************************************)
EXTENDS Naturals

CONSTANTS Replicas,      \* addon-manager pods
          MaxDeletes,    \* bound: how often the secret is deleted
          MaxRestarts    \* bound: crashes and failed API calls

ASSUME SelfSignerAssumption == MaxDeletes \in Nat /\ MaxRestarts \in Nat

VARIABLES secret,     \* the CA secret: its CA (0: no secret), owner reference and resourceVersion
          revision,   \* the API server's latest resourceVersion
          minted,     \* CAs generated so far, numbered 1..minted
          stored,     \* CAs that have been in the secret (history)
          pc,         \* pc[r]: the call replica r is about to make
          held,       \* held[r]: the CA replica r holds, and the resourceVersion it read
          deletes, restarts

signerVars == <<secret, revision, minted, stored, pc, held, deletes, restarts>>

NoSecret == [ca |-> 0, owned |-> FALSE, version |-> 0]
Nothing == [ca |-> 0, version |-> 0]
Exists == secret.ca # 0

\* No secret yet, or one kept from an earlier release, without the owner
\* reference, or from an earlier run of this one.
SignerInit ==
    /\ \/ secret = NoSecret /\ revision = 0 /\ minted = 0 /\ stored = {}
       \/ /\ secret \in [ca : {1}, owned : BOOLEAN, version : {1}]
          /\ revision = 1 /\ minted = 1 /\ stored = {1}
    /\ pc = [r \in Replicas |-> "get"]
    /\ held = [r \in Replicas |-> Nothing]
    /\ deletes = 0 /\ restarts = 0

Goto(r, label, h) ==
    /\ pc' = [pc EXCEPT ![r] = label]
    /\ held' = [held EXCEPT ![r] = h]
-----------------------------------------------------------------------------
\* The Get: an absent secret makes the replica generate a CA; one without the
\* owner reference is updated first; otherwise its CA is used.
Get(r) ==
    /\ pc[r] = "get"
    /\ \/ /\ ~Exists
          /\ minted' = minted + 1
          /\ Goto(r, "create", [ca |-> minted + 1, version |-> 0])
       \/ /\ Exists
          /\ Goto(r, IF secret.owned THEN "loaded" ELSE "update",
                  [ca |-> secret.ca, version |-> secret.version])
          /\ UNCHANGED minted
    /\ UNCHANGED <<secret, revision, stored, deletes, restarts>>

\* The API server stores a secret under a new resourceVersion.
Store(ca) ==
    /\ secret' = [ca |-> ca, owned |-> TRUE, version |-> revision + 1]
    /\ revision' = revision + 1
    /\ stored' = stored \cup {ca}

\* Faulty variant: AlreadyExists is ignored and the generated CA is used.
CreateIgnoresExisting(r) ==
    /\ pc[r] = "create"
    /\ IF Exists THEN UNCHANGED <<secret, revision, stored>> ELSE Store(held[r].ca)
    /\ Goto(r, "loaded", held[r])
    /\ UNCHANGED <<minted, deletes, restarts>>

\* Faulty variant: AlreadyExists retries the create instead of reading again.
CreateRetries(r) ==
    /\ pc[r] = "create"
    /\ ~Exists /\ Store(held[r].ca) /\ Goto(r, "loaded", held[r])
    /\ UNCHANGED <<minted, deletes, restarts>>

\* Faulty variant: the secret is written whether it exists or not.
CreateOverwrites(r) ==
    /\ pc[r] = "create"
    /\ Store(held[r].ca)
    /\ Goto(r, "loaded", held[r])
    /\ UNCHANGED <<minted, deletes, restarts>>

\* DumpCASecret: the one that creates the secret uses the CA it generated, the
\* others start again from the Get.
Create(r) ==
    /\ pc[r] = "create"
    /\ \/ ~Exists /\ Store(held[r].ca) /\ Goto(r, "loaded", held[r])
       \/ Exists /\ Goto(r, "get", Nothing) /\ UNCHANGED <<secret, revision, stored>>
    /\ UNCHANGED <<minted, deletes, restarts>>

\* Faulty variant: the copy that was read is written back with no version.
UpdateOwnerUnconditionally(r) ==
    /\ pc[r] = "update"
    /\ Exists
    /\ Store(held[r].ca)
    /\ Goto(r, "loaded", held[r])
    /\ UNCHANGED <<minted, deletes, restarts>>

\* The Update of the owner reference writes back the copy that was read.  A
\* conflict, or a secret that is gone, is an error.
UpdateOwner(r) ==
    /\ pc[r] = "update"
    /\ \/ /\ Exists /\ secret.version = held[r].version
          /\ Store(held[r].ca)
          /\ Goto(r, "loaded", held[r])
       \/ /\ ~Exists \/ secret.version # held[r].version
          /\ Goto(r, "get", Nothing)
          /\ UNCHANGED <<secret, revision, stored>>
    /\ UNCHANGED <<minted, deletes, restarts>>

\* The process ends and is restarted: a crash, or an API call that failed,
\* with or without having been carried out.
Restart(r) ==
    /\ restarts < MaxRestarts
    /\ restarts' = restarts + 1
    /\ Goto(r, "get", Nothing)
    /\ \/ UNCHANGED <<secret, revision, stored>>
       \/ pc[r] = "create" /\ ~Exists /\ Store(held[r].ca)
       \/ pc[r] = "update" /\ Exists /\ secret.version = held[r].version /\ Store(held[r].ca)
    /\ UNCHANGED <<minted, deletes>>

\* The secret is deleted: by its owner's deletion, or by hand.
Delete ==
    /\ Exists /\ deletes < MaxDeletes
    /\ deletes' = deletes + 1
    /\ secret' = NoSecret
    /\ revision' = revision + 1
    /\ UNCHANGED <<minted, stored, pc, held, restarts>>
-----------------------------------------------------------------------------
Load(r) == Get(r) \/ Create(r) \/ UpdateOwner(r)

SignerNext == Delete \/ \E r \in Replicas : Load(r) \/ Restart(r)

\* A replica keeps making its calls; nothing else is owed.
SignerFairness == \A r \in Replicas : WF_signerVars(Load(r))

SignerSafetySpec == SignerInit /\ [][SignerNext]_signerVars
SignerSpec == SignerSafetySpec /\ SignerFairness
-----------------------------------------------------------------------------
(* Properties *)

\* A replica never goes on to sign with a CA that no other replica, and no later
\* run, could load: what NewSelfSignerFromSecretOrGenerate returns was stored.
SignersUseStoredCA == \A r \in Replicas : pc[r] = "loaded" => held[r].ca \in stored

\* Unless somebody deletes the secret, all replicas sign with one and the same
\* CA, the one in the secret, through creation races, crashes and lost replies.
ReplicasAgree ==
    deletes = 0 => \A r \in Replicas : pc[r] = "loaded" => Exists /\ held[r].ca = secret.ca

\* No replica ever replaces the CA of an existing secret, in particular not with
\* the stale copy it read before the secret was deleted and created again, and a
\* CA that was deleted never comes back: a new secret has a new CA.
StoredCANeverReplaced ==
    [][secret'.ca # secret.ca => secret'.ca = 0 \/ (~Exists /\ secret'.ca \notin stored)]_signerVars

\* The retry after AlreadyExists and the restart after a conflict come to an
\* end: every replica gets its signer.
EveryReplicaLoads == \A r \in Replicas : <>[](pc[r] = "loaded")
=============================================================================
