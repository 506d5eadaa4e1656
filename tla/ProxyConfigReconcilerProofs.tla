--------------------- MODULE ProxyConfigReconcilerProofs ---------------------
(***************************************************************************)
(* Proofs about the ManagedProxyConfiguration controller, for any          *)
(* resources, releases and faults: what a Reconcile ensures is what it     *)
(* renders, and a hub at rest stays at rest.                               *)
(***************************************************************************)
EXTENDS ProxyConfigReconciler, TLAPS

\* What the resources on the hub and the configuration hold.
Hashes == {<<>>, <<"other">>} \cup (Nat \X Nat)
Values == [gen : Nat, hash : Hashes]
Certificates == [Certs -> 0..2]
Configurations == [gen : Nat, deployed : BOOLEAN, signed : Certificates]

\* The calls before deployProxyServer, and those of ensure.
Before == {"namespace", "entrypoint", "address", "rotation"}
Within == {"get", "create", "update"}

Progress ==
    [pc : {"idle", "status"} \cup Before \cup Within,
     g : Nat, k : 1..Len(Resources), cur : Values,
     fresh : BOOLEAN, stale : BOOLEAN, pinned : BOOLEAN]

\* The types.
ReconcilerType ==
    /\ config \in Configurations /\ cached \in Nat
    /\ secrets \in Certificates
    /\ release \in Nat
    /\ res \in [Kinds -> Values]
    /\ me \in Progress
    /\ lag \in BOOLEAN

\* Outside deployProxyServer no resource counts as done.
PlaceInv == me.pc \notin Within => me.k = 1

ReconcilerInv == ReconcilerType /\ PlaceInv /\ EnsuredIsRendered

\* The resources are those at the positions of a sequence that is not empty.
LEMMA Positions ==
    /\ Len(Resources) \in Nat /\ Len(Resources) > 0
    /\ Kinds = {Resources[k] : k \in 1..Len(Resources)}
<1>1. Resources \in Seq(Kinds) /\ Service \in Kinds
  BY ReconcilerAssumption
<1>2. Len(Resources) \in Nat /\ DOMAIN Resources = 1..Len(Resources)
  BY <1>1
<1>3. Kinds = {Resources[k] : k \in 1..Len(Resources)}
  BY <1>2 DEF Kinds
<1>4. Len(Resources) > 0
  BY <1>1, <1>2, <1>3
<1> QED
  BY <1>2, <1>3, <1>4

\* What ensure may be at, and what it writes.
LEMMA RenderedValues ==
    /\ Absent \in Values /\ Foreign \in Values
    /\ \A r, g, o : g \in Nat /\ o \in Nat => [gen |-> g, hash |-> Rendered(r, g, o)] \in Values
BY DEF Absent, Foreign, Values, Hashes, Rendered

\* What ensure is at and what it has been done with are resources.
LEMMA EnsuredKinds ==
    ASSUME ReconcilerType
    PROVE  Now \in Kinds /\ Ensured \subseteq Kinds
BY Positions DEF ReconcilerType, Progress, Now, Ensured

\* Being done with a resource adds that one, ...
LEMMA AdvanceEnsures ==
    ASSUME ReconcilerType, PlaceInv, me' = Advance, me.pc \in Within
    PROVE  /\ me' \in Progress
           /\ PlaceInv'
           /\ me'.g = me.g /\ me'.pc \in {"get", "status"}
           /\ Ensured' \subseteq Ensured \cup {Now}
<1> DEFINE last == me.k = Len(Resources)
<1>1. me.k \in 1..Len(Resources)
  BY DEF ReconcilerType, Progress
<1>2. /\ me'.pc = IF last THEN "status" ELSE "get"
      /\ me'.k = IF last THEN 1 ELSE me.k + 1
      /\ me'.g = me.g
  BY DEF Advance, ReconcilerType, Progress
<1>3. me' \in Progress
  <2>1. (IF last THEN "status" ELSE "get") \in {"idle", "status"} \cup Before \cup Within
    BY DEF Within
  <2>2. (IF last THEN 1 ELSE me.k + 1) \in 1..Len(Resources)
    BY <1>1, Positions
  <2>3. Absent \in Values
    BY RenderedValues
  <2> QED
    BY <2>1, <2>2, <2>3 DEF Advance, ReconcilerType, Progress
<1>4. PlaceInv'
  BY <1>2 DEF PlaceInv, Within
<1>5. CASE last
  <2>1. Ensured' = {Resources[k] : k \in 1..me.k}
    BY <1>2, <1>5, Positions DEF Ensured
  <2> QED
    BY <1>1, <1>2, <1>3, <1>4, <2>1 DEF Ensured, Now, Within
<1>6. CASE ~last
  <2>1. Ensured' = {Resources[k] : k \in 1..me.k}
    BY <1>1, <1>2, <1>6, Positions DEF Ensured
  <2> QED
    BY <1>1, <1>2, <1>3, <1>4, <2>1 DEF Ensured, Now, Within
<1> QED
  BY <1>5, <1>6

\* ... and keeps the invariant if that resource is as rendered now.
LEMMA AdvanceStep ==
    ASSUME ReconcilerInv, me' = Advance, me.pc \in Within,
           UNCHANGED <<config, cached, lag, release, secrets, disturbed>>,
           \/ Write
           \/ res' = res /\ res[Now].hash = Rendered(Now, me.g, release) /\ res[Now].gen >= me.g
    PROVE  ReconcilerInv'
<1>1. /\ me' \in Progress
      /\ PlaceInv' /\ me'.g = me.g
      /\ Ensured' \subseteq Ensured \cup {Now}
  BY AdvanceEnsures DEF ReconcilerInv
<1>2. Now \in Kinds /\ Ensured \subseteq Kinds
  BY EnsuredKinds DEF ReconcilerInv
<1>3. /\ res' \in [Kinds -> Values]
      /\ res'[Now].hash = Rendered(Now, me.g, release) /\ res'[Now].gen >= me.g
      /\ \A r \in Kinds \ {Now} : res'[r] = res[r]
  <2>1. CASE Write
    BY <1>2, <2>1, RenderedValues DEF Write, ReconcilerInv, ReconcilerType, Progress
  <2>2. CASE res' = res /\ res[Now].hash = Rendered(Now, me.g, release) /\ res[Now].gen >= me.g
    BY <2>2 DEF ReconcilerInv, ReconcilerType
  <2> QED
    BY <2>1, <2>2
<1>4. ReconcilerType'
  BY <1>1, <1>3 DEF ReconcilerInv, ReconcilerType
<1>5. ASSUME NEW r \in Ensured' \ disturbed'
      PROVE  res'[r].hash = Rendered(r, me'.g, release') /\ res'[r].gen >= me'.g
  <2>1. CASE r = Now
    BY <1>1, <1>3, <2>1
  <2>2. CASE r \in Ensured /\ r # Now
    BY <1>1, <1>2, <1>3, <1>5, <2>2 DEF ReconcilerInv, EnsuredIsRendered
  <2> QED
    BY <1>1, <1>5, <2>1, <2>2
<1> QED
  BY <1>1, <1>4, <1>5 DEF ReconcilerInv, EnsuredIsRendered

\* A Reconcile that has not begun or has ended claims nothing.
LEMMA IdleStep ==
    ASSUME ReconcilerType, me' = Idle, UNCHANGED res,
           config' \in Configurations, cached' \in Nat, lag' \in BOOLEAN, release' \in Nat,
           secrets' \in Certificates
    PROVE  ReconcilerInv'
<1>1. Ensured' = {}
  BY DEF Ensured, Idle
<1>2. ReconcilerType' /\ PlaceInv'
  BY Positions, RenderedValues DEF ReconcilerType, Progress, PlaceInv, Idle
<1> QED
  BY <1>1, <1>2 DEF ReconcilerInv, EnsuredIsRendered

\* Nor does a step that leaves the resources and those it is done with alone.
LEMMA WithinStep ==
    ASSUME ReconcilerInv, UNCHANGED <<config, cached, lag, release, res, disturbed>>,
           secrets' \in Certificates,
           NEW p \in Before \cup Within, NEW cur \in Values, NEW f \in BOOLEAN, NEW b \in BOOLEAN,
           me.pc \in Before \cup Within, me.pc \in Within => p \in Within,
           me' = [me EXCEPT !.pc = p, !.cur = cur, !.fresh = f, !.pinned = b]
    PROVE  ReconcilerInv'
<1>1. ReconcilerType' /\ me'.k = me.k /\ me'.g = me.g /\ me'.pc = p
  BY DEF ReconcilerInv, ReconcilerType, Progress
<1>2. Ensured' = Ensured
  BY <1>1 DEF Ensured, Before, Within
<1> QED
  BY <1>1, <1>2 DEF ReconcilerInv, PlaceInv, EnsuredIsRendered

\* In particular a step from one call to the next.
LEMMA GotoStep ==
    ASSUME ReconcilerInv, UNCHANGED <<config, cached, lag, release, res>>, secrets' \in Certificates,
           NEW p \in Before \cup Within, me.pc \in Before \cup Within, me.pc \in Within => p \in Within,
           Goto(p)
    PROVE  ReconcilerInv'
<1>1. me' = [me EXCEPT !.pc = p, !.cur = me.cur, !.fresh = me.fresh, !.pinned = me.pinned]
  BY DEF Goto, ReconcilerInv, ReconcilerType, Progress
<1>2. me.cur \in Values /\ me.fresh \in BOOLEAN /\ me.pinned \in BOOLEAN
  BY DEF ReconcilerInv, ReconcilerType, Progress
<1> QED
  BY <1>1, <1>2, WithinStep DEF Goto

\* What ensureRotation signs are certificates; with all shown it signs none.
LEMMA SignedValues ==
    ASSUME secrets \in Certificates, NEW S \in SUBSET Certs
    PROVE  Signed(S) \in Certificates /\ (shown = Certs => Signed(S) = secrets)
BY DEF Certificates, Signed, Other

\* Every step keeps the invariant of the controller.
LEMMA ReconcilerStep == ReconcilerInv /\ [Next]_vars => ReconcilerInv'
<1> SUFFICES ASSUME ReconcilerInv, [Next]_vars PROVE ReconcilerInv'
  OBVIOUS
<1> USE DEF world, basics
<1>0. secrets \in Certificates
  BY DEF ReconcilerInv, ReconcilerType
<1>1. ASSUME me' = Idle, UNCHANGED <<config, cached, lag, release, res>>, secrets' \in Certificates
      PROVE  ReconcilerInv'
  BY <1>1, IdleStep DEF ReconcilerInv, ReconcilerType
<1>2. CASE Start
  <2>1. cached \in Nat /\ lag \in BOOLEAN
    BY DEF ReconcilerInv, ReconcilerType
  <2>2. me' = [pc |-> "namespace", g |-> cached, k |-> 1, cur |-> Absent, fresh |-> FALSE,
               stale |-> lag, pinned |-> FALSE]
    BY <1>2 DEF Start, Idle
  <2>3. me' \in Progress
    BY <2>1, <2>2, Positions, RenderedValues DEF Progress, Before
  <2>4. me'.k = 1 /\ me'.pc = "namespace"
    BY <2>2
  <2>5. ReconcilerType'
    BY <1>2, <2>3, Zenon DEF Start, ReconcilerInv, ReconcilerType
  <2>6. Ensured' = {}
    BY <2>4 DEF Ensured
  <2> QED
    BY <2>4, <2>5, <2>6 DEF ReconcilerInv, PlaceInv, EnsuredIsRendered
<1>3. CASE EnsureNamespace \/ EnsureEntrypoint \/ EntrypointAddress \/ EnsureRotation
  <2>1. /\ UNCHANGED <<config, cached, lag, release, res>>
        /\ secrets' \in Certificates
        /\ me.pc \in Before
    BY <1>0, <1>3, SignedValues
    DEF EnsureNamespace, EnsureEntrypoint, EntrypointAddress, EnsureRotation, Before
  <2>2. Failed \/ \E p \in Before \cup Within : Goto(p)
    BY <1>3 DEF EnsureNamespace, EnsureEntrypoint, EntrypointAddress, EnsureRotation, Before, Within
  <2>3. me.pc \notin Within
    BY <2>1 DEF Before, Within
  <2> QED
    BY <1>1, <2>1, <2>2, <2>3, GotoStep DEF Failed
<1>4. CASE Get
  <2>1. res[Now] \in Values /\ me.pinned \in BOOLEAN
    BY EnsuredKinds DEF ReconcilerInv, ReconcilerType, Progress
  <2>2. CASE res[Now] = Absent \/ NeedsUpdate(res[Now])
    <3>1. PICK p \in {"create", "update"} : me' = [[me EXCEPT !.cur = res[Now], !.fresh = TRUE] EXCEPT !.pc = p]
      BY <1>4, <2>2 DEF Get
    <3>2. me' = [me EXCEPT !.pc = p, !.cur = res[Now], !.fresh = TRUE, !.pinned = me.pinned]
      BY <3>1 DEF ReconcilerInv, ReconcilerType, Progress
    <3> QED
      BY <1>0, <1>4, <2>1, <3>2, WithinStep DEF Get, Within
  <2>3. CASE res[Now] # Absent /\ ~NeedsUpdate(res[Now])
    <3>1. me' = Advance
      BY <1>4, <2>3 DEF Get
    <3>2. res[Now].hash = Rendered(Now, me.g, release) /\ res[Now].gen >= me.g
      BY <2>1, <2>3 DEF NeedsUpdate, Values, ReconcilerInv, ReconcilerType, Progress
    <3> QED
      BY <1>4, <3>1, <3>2, AdvanceStep DEF Get, Within
  <2> QED
    BY <2>2, <2>3
<1>5. CASE Create
  <2>1. CASE Failed /\ UNCHANGED res
    BY <1>0, <1>1, <1>5, <2>1 DEF Create, Failed
  <2>2. CASE Write /\ me' = Advance /\ UNCHANGED <<queued, disturbed>>
    BY <1>5, <2>2, AdvanceStep DEF Create, Within
  <2>3. CASE Goto("update") /\ UNCHANGED res
    BY <1>0, <1>5, <2>3, GotoStep DEF Create, Within
  <2> QED
    BY <1>5, <2>1, <2>2, <2>3 DEF Create
<1>6. CASE Update
  <2>1. CASE Failed /\ UNCHANGED res
    BY <1>0, <1>1, <1>6, <2>1 DEF Update, Failed
  <2>2. CASE Write /\ me' = Advance /\ UNCHANGED <<queued, disturbed>>
    BY <1>6, <2>2, AdvanceStep DEF Update, Within
  <2>3. CASE /\ me' = [me EXCEPT !.pc = "get", !.cur = Absent, !.pinned = (Now # Service)]
             /\ UNCHANGED <<res, queued, disturbed>>
    <3>1. me' = [me EXCEPT !.pc = "get", !.cur = Absent, !.fresh = me.fresh, !.pinned = (Now # Service)]
      BY <2>3 DEF ReconcilerInv, ReconcilerType, Progress
    <3>2. me.fresh \in BOOLEAN /\ (Now # Service) \in BOOLEAN
      BY DEF ReconcilerInv, ReconcilerType, Progress
    <3>3. UNCHANGED <<config, cached, lag, release, secrets>> /\ me.pc \in Within
      BY <1>6 DEF Update, Within
    <3>4. "get" \in Within
      BY DEF Within
    <3> QED
      BY <1>0, <2>3, <3>1, <3>2, <3>3, <3>4, RenderedValues, WithinStep
  <2> QED
    BY <1>6, <2>1, <2>2, <2>3 DEF Update
<1>7. CASE RefreshStatus
  <2>1. CASE Failed /\ UNCHANGED <<config, lag>>
    BY <1>0, <1>1, <1>7, <2>1 DEF RefreshStatus, Failed
  <2>2. CASE config' = Conditions /\ lag' = (lag \/ config' # config) /\ me' = Idle
    <3>1. config' \in Configurations /\ lag' \in BOOLEAN
      BY <2>2 DEF Conditions, Configurations, ReconcilerInv, ReconcilerType
    <3> QED
      BY <1>7, <2>2, <3>1, IdleStep DEF RefreshStatus, ReconcilerInv, ReconcilerType
  <2> QED
    BY <1>7, <2>1, <2>2 DEF RefreshStatus
<1>8. CASE Edit
  <2>1. config' \in Configurations
    BY <1>8 DEF Edit, ReconcilerInv, ReconcilerType, Configurations
  <2>2. me' \in Progress /\ me'.pc = me.pc /\ me'.k = me.k /\ me'.g = me.g
    <3>1. (me.pc # "idle") \in BOOLEAN
      OBVIOUS
    <3> QED
      BY <1>8, <3>1 DEF Edit, ReconcilerInv, ReconcilerType, Progress
  <2>3. ReconcilerType'
    BY <1>8, <2>1, <2>2 DEF Edit, ReconcilerInv, ReconcilerType
  <2>4. Ensured' = Ensured
    BY <2>2 DEF Ensured
  <2> QED
    BY <1>8, <2>2, <2>3, <2>4 DEF Edit, ReconcilerInv, PlaceInv, EnsuredIsRendered
<1>9. CASE \/ Sync \/ NamespaceEvent \/ Provision \/ SecretEvent \/ Resync
           \/ DeleteEntrypoint \/ (\E s \in Certs : DeleteSecret(s)) \/ UNCHANGED vars
  <2>1. /\ UNCHANGED <<release, res, me, disturbed, config>>
        /\ cached' \in {cached, config.gen} /\ lag' \in {lag, FALSE}
        /\ secrets' \in Certificates
    <3>1. ASSUME NEW s \in Certs PROVE [secrets EXCEPT ![s] = 0] \in Certificates
      BY <1>0 DEF Certificates
    <3> QED
      BY <1>0, <1>9, <3>1
      DEF Sync, NamespaceEvent, Provision, SecretEvent, Resync, DeleteEntrypoint, DeleteSecret, vars
  <2>2. Ensured' = Ensured
    BY <2>1 DEF Ensured
  <2> QED
    BY <2>1, <2>2 DEF ReconcilerInv, ReconcilerType, Configurations, PlaceInv, EnsuredIsRendered
<1>10. CASE CallFails
  BY <1>0, <1>1, <1>10, SignedValues DEF CallFails, Failed
<1>11. CASE Restart
  <2>1. /\ me' = Idle /\ UNCHANGED <<config, res, secrets>> /\ cached' = config.gen /\ lag' = FALSE
        /\ release' \in {release, release + 1}
    BY <1>11 DEF Restart, Failed
  <2>2. config' \in Configurations /\ cached' \in Nat /\ release' \in Nat /\ secrets' \in Certificates
    BY <1>0, <2>1 DEF ReconcilerInv, ReconcilerType, Configurations
  <2>3. lag' \in BOOLEAN
    BY <2>1, Zenon
  <2> QED
    BY <2>1, <2>2, <2>3, IdleStep DEF ReconcilerInv
<1>12. ASSUME NEW r \in Kinds, NEW v \in Values, Becomes(r, v) PROVE ReconcilerInv'
  <2>1. (me.fresh /\ Now # r) \in BOOLEAN /\ me' = [me EXCEPT !.fresh = me.fresh /\ Now # r]
    BY <1>12 DEF Becomes, ReconcilerInv, ReconcilerType, Progress
  <2>2. ReconcilerType' /\ me'.pc = me.pc /\ me'.k = me.k /\ me'.g = me.g
    BY <1>12, <2>1 DEF Becomes, ReconcilerInv, ReconcilerType, Progress
  <2>3. Ensured' = Ensured /\ Ensured \subseteq Kinds
    BY <2>2, EnsuredKinds DEF Ensured, ReconcilerInv
  <2>4. disturbed \subseteq disturbed' /\ \A q \in Ensured \ disturbed' : res'[q] = res[q]
    BY <1>12, <2>3 DEF Becomes, ReconcilerInv, ReconcilerType
  <2>5. EnsuredIsRendered'
    BY <1>12, <2>2, <2>3, <2>4 DEF Becomes, ReconcilerInv, EnsuredIsRendered
  <2> QED
    BY <2>2, <2>5 DEF ReconcilerInv, PlaceInv
<1>13. ASSUME NEW r \in Kinds, Touch(r) \/ Delete(r) \/ CreateByOther(r) \/ OtherManager(r) PROVE ReconcilerInv'
  <2>1. res[r] \in Values
    BY DEF ReconcilerInv, ReconcilerType
  <2>2. \A g \in 1..config.gen, o \in 1..MaxRelease : [gen |-> g, hash |-> Rendered(r, g, o)] \in Values
    BY RenderedValues
  <2> QED
    BY <1>12, <1>13, <2>1, <2>2, RenderedValues DEF Touch, Delete, CreateByOther, OtherManager
<1> QED
  BY <1>2, <1>3, <1>4, <1>5, <1>6, <1>7, <1>8, <1>9, <1>10, <1>11, <1>13 DEF Next, Reconcile, Others

\* The inductive invariant of the controller.
LEMMA ReconcilerInvariant == SafetySpec => []ReconcilerInv
<1>1. Init => ReconcilerInv
  <2> SUFFICES ASSUME Init PROVE ReconcilerInv
    OBVIOUS
  <2>1. config \in Configurations /\ cached \in Nat /\ secrets \in Certificates
    BY DEF Init, Configurations, Certificates, Unsigned
  <2>2. lag \in BOOLEAN
    BY Zenon DEF Init
  <2>3. res \in [Kinds -> Values] /\ me \in Progress /\ release \in Nat
    BY Positions, RenderedValues DEF Init, Progress, Idle
  <2>4. Ensured = {} /\ PlaceInv
    BY DEF Init, Ensured, PlaceInv, Idle
  <2> QED
    BY <2>1, <2>2, <2>3, <2>4 DEF ReconcilerInv, ReconcilerType, EnsuredIsRendered
<1> QED
  BY <1>1, ReconcilerStep, PTL DEF SafetySpec

\* For any resources, releases, edits and faults: what ensure is done with is the
\* rendering of the generation being reconciled, unless somebody changed it since.
THEOREM EnsureRenders == SafetySpec => []EnsuredIsRendered
<1>1. ReconcilerInv => EnsuredIsRendered
  BY DEF ReconcilerInv
<1> QED
  BY <1>1, ReconcilerInvariant, PTL

\* When everything is up to date, every resource exists and ensure finds nothing to
\* update.
LEMMA NothingToUpdate ==
    ASSUME ReconcilerType, Rested
    PROVE  /\ \A r \in Kinds : res[r] # Absent
           /\ me.pc # "idle" => ~NeedsUpdate(res[Now])
<1>1. ASSUME NEW r \in Kinds PROVE res[r] # Absent
  <2>1. Rendered(r, config.gen, release) # <<>>
    BY DEF Rendered
  <2> QED
    BY <2>1 DEF Rested, UpToDate, Absent
<1>2. ASSUME me.pc # "idle" PROVE ~NeedsUpdate(res[Now])
  <2>1. Now \in Kinds
    BY EnsuredKinds
  <2>2. res[Now].hash = Rendered(Now, me.g, release) /\ res[Now].gen >= me.g
    BY <1>2, <2>1 DEF Rested, UpToDate
  <2>3. res[Now].gen \in Nat /\ me.g \in Nat
    BY <2>1 DEF ReconcilerType, Progress, Values
  <2> QED
    BY <2>2, <2>3 DEF NeedsUpdate
<1> QED
  BY <1>1, <1>2

\* For any resources, releases and faults: once everything is up to date, only
\* users, other clients of the hub and new releases make the controller change a
\* resource, a certificate or the status.
THEOREM ReconcilerRests == SafetySpec => RestIsKept
<1> DEFINE Same == UNCHANGED <<config, res, secrets>>
           Kept == Rested => Disturbs \/ (Rested' /\ Same)
<1>1. ReconcilerInv /\ [Next]_vars => [Kept]_vars
  <2> SUFFICES ASSUME ReconcilerInv, Next, Rested, ~Disturbs PROVE Rested' /\ Same
    BY DEF vars
  <2> USE DEF world, basics
  <2>1. ReconcilerType /\ release' = release /\ secrets \in Certificates
    BY DEF ReconcilerInv, ReconcilerType, Disturbs
  <2>0. Existing = Certs
    BY DEF Rested, UpToDate, StateReadable, Existing
  <2>2. ASSUME Same, cached' \in {cached, config.gen},
               namespace' = namespace, shown' = shown, service = "ready" => service' = "ready",
               me'.pc # "idle" => me'.g = config.gen, me'.pc \notin {"create", "update"}
        PROVE  Rested' /\ Same
    BY <2>1, <2>2 DEF Rested, UpToDate, StateReadable
  <2>3. ASSUME me' = Idle, Same, cached' \in {cached, config.gen},
               namespace' = namespace, shown' = shown, service = "ready" => service' = "ready"
        PROVE  Rested' /\ Same
    BY <2>2, <2>3 DEF Idle
  <2>4. CASE Start
    <3>1. me'.g = config.gen /\ me'.pc = "namespace"
      BY <2>4 DEF Start, Idle, Rested
    <3> QED
      BY <2>2, <2>4, <3>1 DEF Start
  <2>5. CASE EnsureNamespace \/ EnsureEntrypoint \/ EntrypointAddress \/ EnsureRotation
    <3>1. /\ Same /\ UNCHANGED <<cached, namespace, shown>>
          /\ service = "ready" => service' = "ready"
          /\ me.pc # "idle"
      BY <2>1, <2>5, SignedValues
      DEF EnsureNamespace, EnsureEntrypoint, EntrypointAddress, EnsureRotation, Rested
    <3>2. Failed \/ \E p \in {"entrypoint", "address", "rotation", "get"} : Goto(p)
      BY <2>5 DEF EnsureNamespace, EnsureEntrypoint, EntrypointAddress, EnsureRotation
    <3>3. CASE Failed
      BY <2>3, <3>1, <3>3 DEF Failed
    <3>4. ASSUME NEW p \in {"entrypoint", "address", "rotation", "get"}, Goto(p)
          PROVE  Rested' /\ Same
      <4>1. me'.pc = p /\ me'.g = config.gen
        BY <2>1, <3>1, <3>4 DEF Goto, ReconcilerType, Progress, Rested
      <4> QED
        BY <2>2, <3>1, <4>1
    <3> QED
      BY <3>2, <3>3, <3>4
  <2>6. CASE Get
    <3>1. me' = Advance
      BY <2>1, <2>6, NothingToUpdate, EnsuredKinds DEF Get
    <3>2. me'.g = me.g /\ me'.pc \in {"get", "status"}
      BY <2>6, <3>1, AdvanceEnsures DEF Get, ReconcilerInv, Within
    <3> QED
      BY <2>2, <2>6, <3>2 DEF Get, Rested
  <2>7. CASE RefreshStatus
    <3>1. CASE Failed /\ UNCHANGED <<config, lag>>
      BY <2>3, <2>7, <3>1 DEF RefreshStatus, Failed
    <3>2. CASE config' = Conditions /\ me' = Idle
      <4>1. res[Deployment] # Absent
        BY <2>1, NothingToUpdate, ReconcilerAssumption
      <4>2. Conditions = [config EXCEPT !.deployed = TRUE, !.signed = secrets]
        BY <4>1 DEF Conditions
      <4>3. config.deployed = TRUE /\ config.signed = secrets
        BY <2>1 DEF Rested, UpToDate, ReconcilerType, Configurations
      <4>4. Conditions = config
        BY <2>1, <4>2, <4>3 DEF ReconcilerType, Configurations
      <4> QED
        BY <2>3, <2>7, <3>2, <4>4 DEF RefreshStatus
    <3> QED
      BY <2>7, <3>1, <3>2 DEF RefreshStatus
  <2>8. CASE Sync \/ Provision \/ Resync
    BY <2>2, <2>8 DEF Sync, Provision, Resync, Rested
  <2>9. CASE CallFails
    BY <2>1, <2>3, <2>9, SignedValues DEF CallFails, Failed, Rested
  <2>13. CASE Restart
    BY <2>0, <2>3, <2>13 DEF Restart, Failed, Rested
  <2>10. ASSUME NEW r \in Kinds, Touch(r) PROVE Rested' /\ Same
    <3>1. res' = res
      BY <2>1, <2>10 DEF Touch, Becomes, ReconcilerType
    <3>2. me'.pc = me.pc /\ me'.g = me.g
      BY <2>1, <2>10 DEF Touch, Becomes, ReconcilerType, Progress
    <3> QED
      BY <2>2, <2>10, <3>1, <3>2 DEF Touch, Becomes, Rested
  <2>11. ASSUME NEW r \in Kinds PROVE ~CreateByOther(r)
    BY <2>1, NothingToUpdate DEF CreateByOther
  <2>12. ~Create /\ ~Update /\ ~NamespaceEvent /\ ~SecretEvent
    BY <2>0 DEF Create, Update, NamespaceEvent, SecretEvent, Rested
  <2> QED
    BY <2>4, <2>5, <2>6, <2>7, <2>8, <2>9, <2>10, <2>11, <2>12, <2>13 DEF Next, Reconcile, Others, Disturbs
<1> QED
  BY <1>1, ReconcilerInvariant, PTL DEF SafetySpec, RestIsKept
==============================================================================
