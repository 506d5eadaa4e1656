--------------------------- MODULE WatcherProofs ---------------------------
(***************************************************************************)
(* Proofs about the user server's informers, for any clusters, policies    *)
(* and changes: the allowlist is the last-known-good one, and membership   *)
(* follows the add-ons.                                                    *)
(***************************************************************************)
EXTENDS UserServerProofs
-----------------------------------------------------------------------------
(* The allowlist watcher *)

ConfigContents == ConfigMaps \cup {Absent}
NoticeFor(v) ==
    IF v = Absent THEN Config!DeleteNotice(ConfigMapName) ELSE Config!SetNotice(ConfigMapName, v)
ConfigNotices == {NoticeFor(v) : v \in ConfigContents}

\* Contents that replace the policy, whatever it was.
Good(v) == v = Absent \/ Policy!Parses(v)
Replaces(n) == n.type = "delete" \/ Policy!Parses(n.content)
ListOf(n) == IF n.type = "delete" THEN {} ELSE Policy!ParseAllExposedServices(n.content)

\* The last notification that replaces the policy, if one is queued, brings the
\* last-known-good list; without one, that list is in force.
NoneReplaces == \A i \in 1..Len(configNotices) : ~Replaces(configNotices[i])
LastReplaces(i) ==
    /\ i \in 1..Len(configNotices) /\ Replaces(configNotices[i])
    /\ \A j \in 1..Len(configNotices) : Replaces(configNotices[j]) => j <= i
ListTracked ==
    \/ NoneReplaces /\ allowlist = lastGood
    \/ \E i : LastReplaces(i) /\ ListOf(configNotices[i]) = lastGood

CInv ==
    /\ configMap \in [{ConfigMapName} -> ConfigContents] /\ configStore \in [{ConfigMapName} -> ConfigContents]
    /\ configNotices \in Seq(ConfigNotices)
    /\ ~configSynced => configNotices = <<>> /\ configStore[ConfigMapName] = Absent
    /\ lastGood = GoodList(configStore[ConfigMapName], lastGood)
    /\ ~cancelled => ListTracked

\* A notification says what the content it was made for says.
LEMMA NoticeFacts ==
    ASSUME NEW v \in ConfigContents
    PROVE  /\ Replaces(NoticeFor(v)) <=> Good(v)
           /\ \A l : Good(v) => ListOf(NoticeFor(v)) = GoodList(v, l)
           /\ \A l : ~Good(v) => GoodList(v, l) = l
<1>1. CASE v = Absent
  <2>1. NoticeFor(v).type = "delete"
    BY <1>1 DEF NoticeFor, Config!DeleteNotice
  <2> QED
    BY <1>1, <2>1 DEF Replaces, Good, ListOf, GoodList
<1>2. CASE v # Absent
  <2>1. NoticeFor(v).type = "set" /\ NoticeFor(v).content = v
    BY <1>2 DEF NoticeFor, Config!SetNotice
  <2> QED
    BY <1>2, <2>1 DEF Replaces, Good, ListOf, GoodList
<1> QED
  BY <1>1, <1>2

\* Handling the oldest notification.
LEMMA ConfigHandled ==
    ASSUME configNotices \in Seq(ConfigNotices), configNotices # <<>>, configNotices' = Tail(configNotices),
           HandleConfigEvent(Head(configNotices)), lastGood' = lastGood, ListTracked
    PROVE  ListTracked'
<1> DEFINE n == Len(configNotices)
<1>1. n \in Nat /\ n >= 1 /\ Len(configNotices') = n - 1 /\ Head(configNotices) = configNotices[1]
  OBVIOUS
<1>2. \A i \in 1..(n - 1) : configNotices'[i] = configNotices[i + 1]
  OBVIOUS
<1> HIDE DEF n
<1>3. allowlist' = IF Replaces(configNotices[1]) THEN ListOf(configNotices[1]) ELSE allowlist
  BY <1>1 DEF HandleConfigEvent, Replaces, ListOf
<1>4. CASE NoneReplaces /\ allowlist = lastGood
  <2>1. NoneReplaces' /\ ~Replaces(configNotices[1])
    BY <1>1, <1>2, <1>4 DEF NoneReplaces, n
  <2> QED
    BY <1>3, <1>4, <2>1 DEF ListTracked
<1>5. ASSUME NEW i, LastReplaces(i), ListOf(configNotices[i]) = lastGood
      PROVE  ListTracked'
  <2>1. CASE i = 1
    <3>1. NoneReplaces'
      BY <1>1, <1>2, <1>5, <2>1 DEF NoneReplaces, LastReplaces, n
    <3>2. allowlist' = lastGood
      BY <1>3, <1>5, <2>1 DEF LastReplaces
    <3> QED
      BY <3>1, <3>2 DEF ListTracked
  <2>2. CASE i # 1
    <3>1. i - 1 \in 1..(n - 1) /\ (i - 1) + 1 = i
      BY <1>1, <1>5, <2>2 DEF LastReplaces, n
    <3>2. configNotices'[i - 1] = configNotices[i]
      BY <1>2, <3>1
    <3>3. ASSUME NEW j \in 1..(n - 1), Replaces(configNotices'[j]) PROVE j <= i - 1
      <4>1. j + 1 \in 1..n /\ Replaces(configNotices[j + 1])
        BY <1>1, <1>2, <3>3
      <4>2. j + 1 <= i
        BY <1>5, <4>1 DEF LastReplaces, n
      <4> QED
        BY <1>1, <3>1, <4>2
    <3>4. LastReplaces(i - 1)'
      BY <1>1, <1>5, <3>1, <3>2, <3>3 DEF LastReplaces
    <3> QED
      BY <1>5, <3>2, <3>4 DEF ListTracked
  <2> QED
    BY <2>1, <2>2
<1> QED
  BY <1>4, <1>5 DEF ListTracked

\* With an empty queue the last-known-good list is in force.
LEMMA NothingQueued ==
    ASSUME ListTracked, configNotices = <<>>
    PROVE  allowlist = lastGood
<1>1. Len(configNotices) = 0
  OBVIOUS
<1> QED
  BY <1>1 DEF ListTracked, LastReplaces

\* Queueing the notification for what the store holds.
LEMMA ConfigQueued ==
    ASSUME CInv, configSynced', UNCHANGED <<configMap, allowlist>>, cancelled => cancelled',
           configStore' \in [{ConfigMapName} -> ConfigContents],
           lastGood' = GoodList(configStore'[ConfigMapName], lastGood),
           configNotices' = Append(configNotices, NoticeFor(configStore'[ConfigMapName]))
    PROVE  CInv'
<1>1. PICK v \in ConfigContents : v = configStore'[ConfigMapName]
  OBVIOUS
<1>2. configNotices \in Seq(ConfigNotices) /\ NoticeFor(v) \in ConfigNotices
  BY <1>1 DEF CInv, ConfigNotices
<1>3. PICK k : k = Len(configNotices) + 1
  OBVIOUS
<1>4. /\ configNotices' \in Seq(ConfigNotices) /\ k \in Nat /\ k >= 1
      /\ Len(configNotices) = k - 1 /\ Len(configNotices') = k /\ configNotices'[k] = NoticeFor(v)
      /\ \A i \in 1..(k - 1) : configNotices'[i] = configNotices[i]
  BY <1>1, <1>2, <1>3
<1>5. lastGood' = GoodList(v, lastGood) /\ lastGood' = GoodList(v, lastGood')
  BY <1>1 DEF GoodList
<1>6. ASSUME ~cancelled PROVE ListTracked'
  <2>1. CASE Good(v)
    <3>1. Replaces(configNotices'[k]) /\ ListOf(configNotices'[k]) = lastGood'
      BY <1>4, <1>5, <2>1, NoticeFacts
    <3>2. LastReplaces(k)'
      BY <1>4, <3>1 DEF LastReplaces
    <3> QED
      BY <3>1, <3>2 DEF ListTracked
  <2>2. CASE ~Good(v)
    <3>1. lastGood' = lastGood /\ ~Replaces(configNotices'[k])
      BY <1>4, <1>5, <2>2, NoticeFacts
    <3>2. CASE NoneReplaces /\ allowlist = lastGood
      <4>1. ASSUME NEW j \in 1..k PROVE ~Replaces(configNotices'[j])
        <5>1. j \in 1..(k - 1) \/ j = k
          BY <1>4
        <5> QED
          BY <1>4, <3>1, <3>2, <5>1 DEF NoneReplaces
      <4>2. NoneReplaces'
        BY <1>4, <4>1 DEF NoneReplaces
      <4> QED
        BY <3>1, <3>2, <4>2 DEF ListTracked
    <3>3. ASSUME NEW i, LastReplaces(i), ListOf(configNotices[i]) = lastGood
          PROVE  ListTracked'
      <4>1. i \in 1..(k - 1) /\ i \in 1..k /\ configNotices'[i] = configNotices[i]
        BY <1>4, <3>3 DEF LastReplaces
      <4>2. ASSUME NEW j \in 1..k, Replaces(configNotices'[j]) PROVE j <= i
        <5>1. j \in 1..(k - 1)
          BY <1>4, <3>1, <4>2
        <5> QED
          BY <1>4, <3>3, <4>2, <5>1 DEF LastReplaces
      <4>3. LastReplaces(i)'
        BY <1>4, <3>3, <4>1, <4>2 DEF LastReplaces
      <4> QED
        BY <3>1, <3>3, <4>1, <4>3 DEF ListTracked
    <3> QED
      BY <1>6, <3>2, <3>3 DEF CInv, ListTracked
  <2> QED
    BY <2>1, <2>2
<1> QED
  BY <1>1, <1>4, <1>5, <1>6 DEF CInv

\* Every step keeps the policy and the queue in line with the store.
LEMMA ConfigStep == CInv /\ [Next]_vars => CInv'
<1> SUFFICES ASSUME CInv, [Next]_vars PROVE CInv'
  OBVIOUS
<1> USE DEF configVars
<1>1. CASE UNCHANGED <<configVars, allowlist>> /\ (cancelled => cancelled')
  BY <1>1 DEF CInv, ListTracked, NoneReplaces, LastReplaces
<1>2. CASE ChangeObjects
  <2>1. CASE UNCHANGED configVars
    BY <1>1, <1>2, <2>1 DEF ChangeObjects
  <2>2. CASE \E v \in ConfigContents : Config!Change(ConfigMapName, v)
    <3>1. /\ UNCHANGED <<configStore, configSynced, configNotices, lastGood, allowlist, cancelled>>
          /\ configMap' \in [{ConfigMapName} -> ConfigContents]
      BY <1>2, <2>2 DEF ChangeObjects, Config!Change, CInv
    <3> QED
      BY <3>1 DEF CInv, ListTracked, NoneReplaces, LastReplaces
  <2> QED
    BY <1>2, <2>1, <2>2 DEF ChangeObjects, ConfigContents
<1>3. CASE InformConfig
  <2>1. /\ ~cancelled /\ UNCHANGED <<allowlist, cancelled>>
        /\ lastGood' = GoodList(configStore'[ConfigMapName], lastGood)
    BY <1>3 DEF InformConfig
  <2>2. CASE Config!Observe(ConfigMapName)
    <3>1. /\ configSynced' /\ UNCHANGED configMap
          /\ configStore' = [configStore EXCEPT ![ConfigMapName] = configMap[ConfigMapName]]
          /\ configNotices' = Append(configNotices, NoticeFor(configMap[ConfigMapName]))
      BY <2>2 DEF Config!Observe, NoticeFor
    <3>2. configStore'[ConfigMapName] = configMap[ConfigMapName] /\ configStore' \in [{ConfigMapName} -> ConfigContents]
      BY <3>1 DEF CInv
    <3> QED
      BY <2>1, <3>1, <3>2, ConfigQueued
  <2>3. CASE Config!List
    <3>1. PICK order \in Config!Orders(Config!Present(configMap)) :
              configNotices' = [i \in DOMAIN order |-> Config!SetNotice(order[i], configMap[order[i]])]
      BY <2>3 DEF Config!List
    <3>2. configNotices = <<>> /\ allowlist = lastGood /\ lastGood = {}
      BY <2>1, <2>3, NothingQueued DEF Config!List, CInv, GoodList
    <3>3. configSynced' /\ configStore' = configMap /\ UNCHANGED configMap
      BY <2>3 DEF Config!List
    <3>4. CASE configMap[ConfigMapName] = Absent
      <4>1. Config!Present(configMap) = {}
        BY <3>4 DEF Config!Present
      <4>2. PICK n \in Nat : Lists(order, n, {})
        BY <3>1, <4>1, ListedOnce
      <4>3. DOMAIN order = {}
        BY <4>2 DEF Lists
      <4>4. configNotices' = <<>>
        BY <3>1, <4>3
      <4>5. lastGood' = {} /\ Len(configNotices') = 0
        BY <2>1, <3>3, <3>4, <4>4 DEF GoodList
      <4> QED
        BY <2>1, <3>2, <3>3, <3>4, <4>4, <4>5 DEF CInv, GoodList, ListTracked, NoneReplaces
    <3>5. CASE configMap[ConfigMapName] # Absent
      <4>1. Config!Present(configMap) = {ConfigMapName}
        BY <3>5 DEF Config!Present
      <4>2. order \in [1..1 -> {ConfigMapName}]
        <5>1. PICK n \in Nat : Lists(order, n, {ConfigMapName})
          BY <3>1, <4>1, ListedOnce
        <5>2. n = 1
          BY <5>1 DEF Lists
        <5> QED
          BY <5>1, <5>2 DEF Lists
      <4>3. configNotices' = [i \in 1..1 |-> NoticeFor(configMap[ConfigMapName])]
        BY <3>1, <3>5, <4>2 DEF NoticeFor
      <4>4. configNotices' = Append(configNotices, NoticeFor(configStore'[ConfigMapName]))
        BY <3>2, <3>3, <4>3
      <4> QED
        BY <2>1, <3>3, <4>4, ConfigQueued DEF CInv
    <3> QED
      BY <3>4, <3>5
  <2> QED
    BY <1>3, <2>2, <2>3 DEF InformConfig
<1>4. CASE ResyncConfig
  <2>1. /\ configSynced' /\ UNCHANGED <<configMap, configStore, lastGood, allowlist, cancelled>>
        /\ configNotices' = Append(configNotices, NoticeFor(configStore[ConfigMapName]))
    BY <1>4 DEF ResyncConfig, Config!Resync, NoticeFor
  <2> QED
    BY <2>1, ConfigQueued DEF CInv
<1>5. CASE StopInformers
  <2>1. <<>> \in Seq(ConfigNotices)
    OBVIOUS
  <2>2. cancelled /\ cancelled' /\ UNCHANGED allowlist /\ UNCHANGED lastGood
    BY <1>5 DEF StopInformers
  <2>3. CASE UNCHANGED configVars
    BY <1>1, <2>2, <2>3
  <2>4. CASE Config!DropNotices
    BY <2>1, <2>2, <2>4 DEF Config!DropNotices, CInv
  <2> QED
    BY <1>5, <2>3, <2>4 DEF StopInformers
<1>6. CASE DeliverConfig
  <2>1. /\ configNotices # <<>> /\ configNotices' = Tail(configNotices) /\ HandleConfigEvent(Head(configNotices))
        /\ UNCHANGED <<configMap, configStore, configSynced, lastGood, cancelled>>
    BY <1>6 DEF DeliverConfig, Config!Take
  <2>2. configNotices \in Seq(ConfigNotices)
    BY DEF CInv
  <2>3. configNotices' \in Seq(ConfigNotices)
    BY <2>1, <2>2
  <2>4. ~cancelled => ListTracked'
    BY <2>1, <2>2, ConfigHandled DEF CInv
  <2>5. configSynced
    BY <2>1 DEF CInv
  <2> QED
    BY <2>1, <2>3, <2>4, <2>5 DEF CInv
<1>7. CASE InformAddons \/ ResyncAddons \/ DeliverAddon \/ RemoveClose \/ CloseAll \/ UNCHANGED vars
  BY <1>1, <1>7 DEF InformAddons, ResyncAddons, DeliverAddon, RemoveClose, CloseAll, vars
<1>10. CASE Start \/ Cancel \/ Drain \/ ServerFails \/ Exit
  BY <1>1, <1>10 DEF Start, AddonWatcherStarted, AllowlistWatcherStarted, AbortInit, Cancel, Drain, Life!Drain,
    Life!Withdraw, Life!Shutdown, Life!Return, ServerFails, Life!Fail, Exit
<1>8. ASSUME NEW h \in Handlers, (\E r \in Requests : Arrive(h, r)) \/ Decide(h) \/ ForwardDone(h)
      PROVE  UNCHANGED <<configVars, allowlist, cancelled>>
  BY <1>8 DEF Arrive, Decide, ForwardDone, CheckMember, CheckPolicy, OpenTunnel, Lookup, LookupReturns
<1> QED
  BY <1>1, <1>2, <1>3, <1>4, <1>5, <1>6, <1>7, <1>8, <1>10, Steps DEF Elsewhere

\* For any contents and any number of changes: with no notification queued, the
\* policy in force is that of the latest content of the store that parses, or none
\* if the ConfigMap has been deleted since.
THEOREM AllowlistTracksConfigMap == SafetySpec => []AllowlistIsLastKnownGood
<1>1. Init => CInv
  <2> SUFFICES ASSUME Init PROVE CInv
    OBVIOUS
  <2>1. <<>> \in Seq(ConfigNotices)
    OBVIOUS
  <2> QED
    BY <2>1 DEF Init, CInv, Config!Init, ConfigContents, GoodList, ListTracked, NoneReplaces
<1>2. CInv => AllowlistIsLastKnownGood
  BY NothingQueued DEF CInv, AllowlistIsLastKnownGood
<1> QED
  BY <1>1, <1>2, ConfigStep, PTL DEF SafetySpec
-----------------------------------------------------------------------------
(* The addon watcher *)

\* The last notification about c, if there is one, agrees with the store; without
\* one, membership does.
NoneFor(c) == \A i \in 1..Len(addonNotices) : addonNotices[i].key # c
LastFor(c, i) ==
    /\ i \in 1..Len(addonNotices) /\ addonNotices[i].key = c
    /\ \A j \in 1..Len(addonNotices) : addonNotices[j].key = c => j <= i
Tracked(c) ==
    \/ NoneFor(c) /\ (c \in allowed <=> addonStore[c] # Absent)
    \/ \E i : LastFor(c, i) /\ (addonNotices[i].type = "set" <=> addonStore[c] # Absent)

MInv ==
    /\ ~addonSynced => addonNotices = <<>> /\ \A c \in Clusters : addonStore[c] = Absent
    /\ ~cancelled /\ closer = "pending" => \A c \in Clusters : Tracked(c)

\* Queueing notification n, which agrees with the store.
LEMMA AddonQueued ==
    ASSUME AddonInv, NEW n, addonNotices' = Append(addonNotices, n), allowed' = allowed,
           NEW c \in Clusters, Tracked(c), n.key # c => addonStore'[c] = addonStore[c],
           n.key = c => (n.type = "set" <=> addonStore'[c] # Absent)
    PROVE  Tracked(c)'
<1>1. PICK S : addonNotices \in Seq(S)
  BY DEF AddonInv
<1>2. addonNotices \in Seq(S \cup {n}) /\ n \in S \cup {n} /\ Len(addonNotices) \in Nat
  BY <1>1
<1>3. /\ Len(addonNotices') = Len(addonNotices) + 1 /\ addonNotices'[Len(addonNotices) + 1] = n
      /\ \A i \in 1..Len(addonNotices) : addonNotices'[i] = addonNotices[i]
  BY <1>2
<1>4. CASE n.key = c
  <2>1. PICK k : k = Len(addonNotices) + 1
    OBVIOUS
  <2>2. LastFor(c, k)' /\ addonNotices'[k] = n
    BY <1>2, <1>3, <1>4, <2>1 DEF LastFor
  <2> QED
    BY <1>4, <2>2 DEF Tracked
<1>5. CASE n.key # c
  <2>1. CASE NoneFor(c) /\ (c \in allowed <=> addonStore[c] # Absent)
    <3>1. ASSUME NEW j \in 1..Len(addonNotices') PROVE addonNotices'[j].key # c
      <4>1. j \in 1..Len(addonNotices) \/ j = Len(addonNotices) + 1
        BY <1>2, <1>3
      <4> QED
        BY <1>3, <1>5, <2>1, <4>1 DEF NoneFor
    <3>2. NoneFor(c)'
      BY <3>1 DEF NoneFor
    <3> QED
      BY <1>5, <2>1, <3>2 DEF Tracked
  <2>2. ASSUME NEW i, LastFor(c, i), addonNotices[i].type = "set" <=> addonStore[c] # Absent
        PROVE  Tracked(c)'
    <3>1. i \in 1..Len(addonNotices) /\ addonNotices'[i] = addonNotices[i]
      BY <1>3, <2>2 DEF LastFor
    <3>2. ASSUME NEW j \in 1..Len(addonNotices'), addonNotices'[j].key = c PROVE j <= i
      <4>1. j \in 1..Len(addonNotices)
        BY <1>2, <1>3, <1>5, <3>2
      <4> QED
        BY <1>3, <2>2, <3>2, <4>1 DEF LastFor
    <3>3. i \in 1..Len(addonNotices')
      BY <1>2, <1>3, <3>1
    <3>4. addonNotices'[i].key = c
      BY <2>2, <3>1 DEF LastFor
    <3>5. LastFor(c, i)'
      BY <3>2, <3>3, <3>4 DEF LastFor
    <3> QED
      BY <1>5, <2>2, <3>1, <3>5 DEF Tracked
  <2> QED
    BY <2>1, <2>2 DEF Tracked
<1> QED
  BY <1>4, <1>5

\* Handling the oldest notification.
LEMMA AddonHandled ==
    ASSUME AddonInv, addonNotices # <<>>, addonNotices' = Tail(addonNotices), addonStore' = addonStore,
           HandleAddonEvent(Head(addonNotices)), NEW c \in Clusters, Tracked(c)
    PROVE  Tracked(c)'
<1>1. PICK S : addonNotices \in Seq(S)
  BY DEF AddonInv
<1>2. /\ Len(addonNotices) \in Nat /\ Len(addonNotices) >= 1 /\ Head(addonNotices) = addonNotices[1]
      /\ Len(addonNotices') = Len(addonNotices) - 1
      /\ \A i \in 1..(Len(addonNotices) - 1) : addonNotices'[i] = addonNotices[i + 1]
  BY <1>1
<1>3. Head(addonNotices).key # c => (c \in allowed' <=> c \in allowed)
  BY DEF HandleAddonEvent, Pool!Allow, Pool!Remove
<1>4. Head(addonNotices).key = c => (c \in allowed' <=> Head(addonNotices).type = "set")
  BY DEF HandleAddonEvent, Pool!Allow, Pool!Remove
<1>5. CASE NoneFor(c) /\ (c \in allowed <=> addonStore[c] # Absent)
  <2>1. NoneFor(c)' /\ Head(addonNotices).key # c
    BY <1>2, <1>5 DEF NoneFor
  <2> QED
    BY <1>3, <1>5, <2>1 DEF Tracked
<1>6. ASSUME NEW i, LastFor(c, i), addonNotices[i].type = "set" <=> addonStore[c] # Absent
      PROVE  Tracked(c)'
  <2>1. CASE i = 1
    <3>1. NoneFor(c)'
      BY <1>2, <1>6, <2>1 DEF NoneFor, LastFor
    <3>2. c \in allowed' <=> addonStore[c] # Absent
      BY <1>2, <1>4, <1>6, <2>1 DEF LastFor
    <3> QED
      BY <3>1, <3>2 DEF Tracked
  <2>2. CASE i # 1
    <3>1. i - 1 \in 1..(Len(addonNotices) - 1) /\ (i - 1) + 1 = i
      BY <1>2, <1>6, <2>2 DEF LastFor
    <3>2. addonNotices'[i - 1] = addonNotices[i]
      BY <1>2, <3>1
    <3>3. ASSUME NEW j \in 1..(Len(addonNotices) - 1), addonNotices'[j].key = c PROVE j <= i - 1
      <4>1. j + 1 \in 1..Len(addonNotices) /\ addonNotices[j + 1].key = c
        BY <1>2, <3>3
      <4>2. j + 1 <= i
        BY <1>6, <4>1 DEF LastFor
      <4> QED
        BY <3>1, <4>2, <1>2
    <3>4. LastFor(c, i - 1)'
      BY <1>2, <1>6, <3>1, <3>2, <3>3 DEF LastFor
    <3> QED
      BY <1>6, <3>2, <3>4 DEF Tracked
  <2> QED
    BY <2>1, <2>2
<1> QED
  BY <1>5, <1>6 DEF Tracked

\* The initial list.
LEMMA AddonListed ==
    ASSUME AddonInv, Addon!List, allowed' = allowed, NEW c \in Clusters, addonNotices = <<>>,
           addonStore[c] = Absent, Tracked(c)
    PROVE  Tracked(c)'
<1> DEFINE S == Addon!Present(addons)
<1>1. PICK order \in Addon!Orders(S) :
          addonNotices' = [i \in DOMAIN order |-> Addon!SetNotice(order[i], addons[order[i]])]
  BY DEF Addon!List
<1> HIDE DEF S
<1>3. PICK n \in Nat : Lists(order, n, S)
  BY <1>1, ListedOnce
<1>4. /\ order \in [1..n -> S]
      /\ \A i, j \in 1..n : i # j => order[i] # order[j]
      /\ \A k \in S : \E i \in 1..n : order[i] = k
  BY <1>3 DEF Lists
<1>5. addonNotices' = [i \in 1..n |-> Addon!SetNotice(order[i], addons[order[i]])]
  BY <1>1, <1>4
<1>6. Len(addonNotices') = n
  BY <1>5
<1>7. \A i \in 1..n : addonNotices'[i].key = order[i] /\ addonNotices'[i].type = "set"
  BY <1>5 DEF Addon!SetNotice
<1>8. addonStore' = addons /\ c \notin allowed
  <2>1. Len(addonNotices) = 0
    OBVIOUS
  <2> QED
    BY <2>1 DEF Addon!List, Tracked, LastFor
<1>9. CASE c \in S
  <2>1. PICK i \in 1..n : order[i] = c
    BY <1>4, <1>9
  <2>2. \A j \in 1..n : order[j] = c => j = i
    BY <1>4, <2>1
  <2>3. LastFor(c, i)'
    BY <1>6, <1>7, <2>1, <2>2 DEF LastFor
  <2> QED
    BY <1>7, <1>8, <1>9, <2>1, <2>3 DEF Tracked, S, Addon!Present
<1>10. CASE c \notin S
  <2>1. NoneFor(c)'
    BY <1>4, <1>6, <1>7, <1>10 DEF NoneFor
  <2> QED
    BY <1>8, <1>10, <2>1 DEF Tracked, S, Addon!Present
<1> QED
  BY <1>9, <1>10

\* Every step keeps membership in line with the store.
LEMMA MembershipStep == UInv /\ MInv /\ [Next]_vars => MInv'
<1> SUFFICES ASSUME UInv, MInv, [Next]_vars PROVE MInv'
  OBVIOUS
<1> USE DEF addonVars
<1>1. ASSUME UNCHANGED addonVars, cancelled => cancelled',
             closer' = "pending" => closer = "pending" /\ allowed' = allowed
      PROVE  MInv'
  <2>1. ASSUME allowed' = allowed, NEW c \in Clusters, Tracked(c) PROVE Tracked(c)'
    BY <1>1, <2>1 DEF Tracked, NoneFor, LastFor
  <2> QED
    BY <1>1, <2>1 DEF MInv
<1>2. CASE ChangeObjects
  <2>1. CASE UNCHANGED addonVars
    BY <1>1, <1>2, <2>1 DEF ChangeObjects, poolVars
  <2>2. CASE \E c \in Clusters, v \in {Installed, Absent} : Addon!Change(c, v)
    <3>1. UNCHANGED <<addonStore, addonSynced, addonNotices, allowed, closer, cancelled>>
      BY <1>2, <2>2 DEF ChangeObjects, Addon!Change, poolVars
    <3> QED
      BY <3>1 DEF MInv, Tracked, NoneFor, LastFor
  <2> QED
    BY <1>2, <2>1, <2>2 DEF ChangeObjects
<1>3. CASE InformAddons
  <2>1. ~cancelled /\ UNCHANGED <<poolVars, cancelled>>
    BY <1>3 DEF InformAddons
  <2>2. CASE Addon!List
    <3>1. addonSynced' /\ addonNotices = <<>> /\ \A c \in Clusters : addonStore[c] = Absent
      BY <2>2 DEF Addon!List, MInv
    <3>2. ASSUME closer = "pending", NEW c \in Clusters PROVE Tracked(c)'
      BY <2>1, <2>2, <3>1, <3>2, AddonListed DEF MInv, UInv, poolVars
    <3> QED
      BY <2>1, <3>1, <3>2 DEF MInv, poolVars
  <2>3. ASSUME NEW k \in Clusters, Addon!Observe(k) PROVE MInv'
    <3> DEFINE n == IF addons[k] = Absent THEN Addon!DeleteNotice(k) ELSE Addon!SetNotice(k, addons[k])
    <3>1. addonSynced' /\ addonNotices' = Append(addonNotices, n)
      BY <2>3 DEF Addon!Observe
    <3>2. addonStore' = [addonStore EXCEPT ![k] = addons[k]] /\ addonStore'[k] = addons[k]
      BY <2>3 DEF Addon!Observe, UInv, AddonInv
    <3>3. n.key = k /\ (n.type = "set" <=> addonStore'[k] # Absent)
      BY <3>2 DEF Addon!DeleteNotice, Addon!SetNotice
    <3> HIDE DEF n
    <3>4. ASSUME closer = "pending", NEW c \in Clusters PROVE Tracked(c)'
      <4>1. c # k => addonStore'[c] = addonStore[c]
        BY <3>2 DEF UInv, AddonInv
      <4>2. Tracked(c) /\ allowed' = allowed
        BY <2>1, <3>4 DEF MInv, poolVars
      <4> QED
        BY <3>1, <3>3, <4>1, <4>2, AddonQueued DEF UInv
    <3> QED
      BY <2>1, <3>1, <3>4 DEF MInv, poolVars
  <2> QED
    BY <1>3, <2>2, <2>3 DEF InformAddons
<1>4. CASE ResyncAddons
  <2>1. PICK k \in Clusters : Addon!Resync(k)
    BY <1>4 DEF ResyncAddons
  <2> DEFINE n == Addon!SetNotice(k, addonStore[k])
  <2>2. /\ addonSynced' /\ addonNotices' = Append(addonNotices, n) /\ addonStore' = addonStore
        /\ addonStore[k] # Absent /\ UNCHANGED <<poolVars, cancelled>>
    BY <1>4, <2>1 DEF ResyncAddons, Addon!Resync
  <2>3. n.key = k /\ n.type = "set"
    BY DEF Addon!SetNotice
  <2> HIDE DEF n
  <2>4. ASSUME ~cancelled, closer = "pending", NEW c \in Clusters PROVE Tracked(c)'
    <3>1. Tracked(c) /\ allowed' = allowed
      BY <2>2, <2>4 DEF MInv, poolVars
    <3> QED
      BY <2>2, <2>3, <3>1, AddonQueued DEF UInv
  <2> QED
    BY <2>2, <2>4 DEF MInv, poolVars
<1>5. CASE StopInformers
  <2>1. cancelled /\ cancelled'
    BY <1>5 DEF StopInformers
  <2> QED
    BY <1>5, <2>1 DEF StopInformers, Addon!DropNotices, MInv
<1>6. CASE DeliverAddon
  <2>1. /\ addonNotices # <<>> /\ addonNotices' = Tail(addonNotices) /\ HandleAddonEvent(Head(addonNotices))
        /\ UNCHANGED <<addonStore, addonSynced, cancelled>>
    BY <1>6 DEF DeliverAddon, Addon!Take
  <2>2. closer' = closer /\ addonSynced
    BY <2>1 DEF HandleAddonEvent, Pool!Allow, Pool!Remove, MInv
  <2>3. ASSUME ~cancelled, closer = "pending", NEW c \in Clusters PROVE Tracked(c)'
    BY <2>1, <2>3, AddonHandled DEF MInv, UInv
  <2> QED
    BY <2>1, <2>2, <2>3 DEF MInv
<1>7. CASE CloseAll \/ RemoveClose
  BY <1>1, <1>7 DEF CloseAll, Pool!CloseAll, Pool!CloserNext, Pool!CloseAllNext, Pool!CloseAllReturn, RemoveClose,
    Pool!RemoveClose
<1>8. CASE Elsewhere \/ UNCHANGED vars
  <2>1. UNCHANGED <<poolVars, addonVars>>
    BY <1>8, ElsewhereStep DEF vars
  <2>2. cancelled => cancelled'
    BY <1>8 DEF vars, Elsewhere, ResyncConfig, InformConfig, DeliverConfig, Start, AddonWatcherStarted,
      AllowlistWatcherStarted, AbortInit, Cancel, Drain, Life!Drain, Life!Withdraw, Life!Shutdown, Life!Return,
      ServerFails, Life!Fail, Exit
  <2> QED
    BY <1>1, <2>1, <2>2 DEF poolVars
<1>9. ASSUME NEW h \in Handlers, (\E r \in Requests : Arrive(h, r)) \/ Decide(h) \/ ForwardDone(h)
      PROVE  UNCHANGED <<addonVars, allowed, closer, cancelled>>
  BY <1>9 DEF Arrive, Decide, ForwardDone, CheckMember, CheckPolicy, OpenTunnel, Lookup, LookupReturns, Refuse,
    Acquire, Pool!Call, Pool!GetOrCreateRead, Pool!GetOrCreateWrite, Pool!Finish, poolVars
<1> QED
  BY <1>1, <1>2, <1>3, <1>4, <1>5, <1>6, <1>7, <1>8, <1>9, Steps

\* For any clusters and any number of changes, resyncs and relists: membership and
\* the notifications still queued together are the informer's store.
THEOREM MembershipFollowsStore == SafetySpec => []MembershipTracksAddons
<1>1. Init => MInv
  <2> SUFFICES ASSUME Init PROVE MInv
    OBVIOUS
  <2>1. addonNotices = <<>> /\ allowed = {} /\ \A c \in Clusters : addonStore[c] = Absent
    BY DEF Init, Addon!Init, Pool!Init
  <2>2. \A c \in Clusters : NoneFor(c)
    BY <2>1 DEF NoneFor
  <2> QED
    BY <2>1, <2>2 DEF MInv, Tracked
<1>2. UInv /\ MInv => MembershipTracksAddons
  <2> SUFFICES ASSUME UInv, MInv, ~cancelled, closer = "pending", NEW c \in Clusters
               PROVE  PendingMember(c) <=> addonStore[c] # Absent
    BY DEF MembershipTracksAddons
  <2> DEFINE mine == {i \in DOMAIN addonNotices : addonNotices[i].key = c}
  <2>1. DOMAIN addonNotices = 1..Len(addonNotices)
    BY DEF UInv, AddonInv
  <2>2. CASE NoneFor(c) /\ (c \in allowed <=> addonStore[c] # Absent)
    <3>1. mine = {}
      BY <2>1, <2>2 DEF NoneFor
    <3> QED
      BY <2>2, <3>1 DEF PendingMember
  <2>3. ASSUME NEW i, LastFor(c, i), addonNotices[i].type = "set" <=> addonStore[c] # Absent
        PROVE  PendingMember(c) <=> addonStore[c] # Absent
    <3>1. i \in mine /\ \A j \in mine : j <= i
      BY <2>1, <2>3 DEF LastFor
    <3>2. \A k \in mine : (\A j \in mine : j <= k) => k = i
      <4>1. Len(addonNotices) \in Nat
        BY DEF UInv, AddonInv
      <4> QED
        BY <2>1, <3>1, <4>1
    <3>3. (CHOOSE k \in mine : \A j \in mine : j <= k) = i
      BY <3>1, <3>2
    <3> QED
      BY <2>3, <3>1, <3>3 DEF PendingMember
  <2> QED
    BY <2>2, <2>3 DEF MInv, Tracked
<1> QED
  BY <1>1, <1>2, MembershipStep, ServerInvariant, PTL DEF SafetySpec

\* Transports are cached for the installed add-ons: with every notification handled,
\* and until runCtx is done or closeAll runs, a cluster with a cached transport has
\* its add-on in the informer's store.
CachedIsInstalled ==
    ~cancelled /\ closer = "pending" /\ addonNotices = <<>> =>
        \A c \in Clusters : transports[c] # 0 => addonStore[c] # Absent

\* For any clusters, handlers and changes: once the notifications are handled,
\* transports are cached only for clusters whose add-on the informer knows.
THEOREM TransportsAreInstalled == SafetySpec => []CachedIsInstalled
<1>1. PoolFacts!IInv /\ MembershipTracksAddons => CachedIsInstalled
  <2> SUFFICES ASSUME PoolFacts!IInv, MembershipTracksAddons, ~cancelled, closer = "pending", addonNotices = <<>>,
                      NEW c \in Clusters, transports[c] # 0
               PROVE  addonStore[c] # Absent
    BY DEF CachedIsInstalled
  <2>1. PendingMember(c) <=> c \in allowed
    BY DEF PendingMember
  <2>2. c \in allowed
    BY DEF PoolFacts!IInv, PoolFacts!CachedImpliesAllowed
  <2> QED
    BY <2>1, <2>2 DEF MembershipTracksAddons
<1> QED
  BY <1>1, ServersPool, MembershipFollowsStore, PTL
=============================================================================
