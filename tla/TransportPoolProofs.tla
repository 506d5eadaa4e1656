------------------------- MODULE TransportPoolProofs -------------------------
(***************************************************************************)
(* For any set of clusters and handlers and any sequence of add-on events: *)
(* the pool is type correct, caches transports only for allowed clusters,  *)
(* loses no transport, and implements PoolContract.                        *)
(***************************************************************************)
EXTENDS TransportPool, TLAPS

\* A transport that left the maps was made, is not cached again, and is waiting
\* to be closed in one place only; remove waits on one transport at a time.
EvictionInv ==
    /\ \A c \in Clusters : transports[c] \in 0..made[c]
    /\ \A t \in Evicted : t[2] \in 1..made[t[1]] /\ transports[t[1]] # t[2]
    /\ removing \cap closing = {}
    /\ \A s, t \in removing : s = t
    /\ closer = "pending" => closing = {}

\* The inductive invariant behind all the theorems of this module.
IInv == TypeOK /\ CachedImpliesAllowed /\ NoTransportLost /\ EvictionInv

\* newClusterTransportPool returns an empty pool, which satisfies the invariant.
LEMMA InitIInv == Init => IInv
BY DEF Init, IInv, TypeOK, CachedImpliesAllowed, NoTransportLost, EvictionInv,
    Evicted, GetterStates, Idle

\* Type correctness is preserved by every step.
LEMMA TypeStep == IInv /\ [Next]_vars => TypeOK'
<1> SUFFICES ASSUME IInv, [Next]_vars PROVE TypeOK'
  OBVIOUS
<1> USE DEF IInv, TypeOK
<1>1. ASSUME NEW g \in Getters, NEW c \in Clusters, Call(g, c) PROVE TypeOK'
  BY <1>1 DEF Call, GetterStates, Reading
<1>2. ASSUME NEW g \in Getters, GetOrCreateRead(g) PROVE TypeOK'
  <2>1. getter[g].cluster \in Clusters
    BY <1>2 DEF GetOrCreateRead, GetterStates, Idle
  <2>2. QED
    BY <1>2, <2>1 DEF GetOrCreateRead, ReadSection, GetterStates, Returned, Locking
<1>3. ASSUME NEW g \in Getters, GetOrCreateWrite(g) PROVE TypeOK'
  <2>1. getter[g].cluster \in Clusters
    BY <1>3 DEF GetOrCreateWrite, GetterStates, Idle
  <2>2. QED
    BY <1>3, <2>1 DEF GetOrCreateWrite, WriteSection, GetterStates, Returned
<1>4. ASSUME NEW g \in Getters, Finish(g) PROVE TypeOK'
  BY <1>4 DEF Finish, GetterStates, Idle
<1>5. ASSUME NEW c \in Clusters, Allow(c) PROVE TypeOK'
  BY <1>5 DEF Allow
<1>6. ASSUME NEW c \in Clusters, Remove(c) PROVE TypeOK'
  BY <1>6 DEF Remove, Cached
<1>7. CASE RemoveClose
  BY <1>7 DEF RemoveClose
<1>8. CASE CloseAll
  BY <1>8 DEF CloseAll, Cached
<1>9. ASSUME NEW t \in closing, CloseAllNext(t) PROVE TypeOK'
  BY <1>9 DEF CloseAllNext
<1>10. CASE CloseAllReturn
  BY <1>10 DEF CloseAllReturn
<1>11. CASE UNCHANGED vars
  BY <1>11 DEF vars
<1>12. QED
  BY <1>1, <1>2, <1>3, <1>4, <1>5, <1>6, <1>7, <1>8, <1>9, <1>10, <1>11
     DEF Next, GetterNext, CloserNext

\* Membership and cache stay aligned, and no transport is lost.
LEMMA PoolStep == IInv /\ [Next]_vars => (CachedImpliesAllowed /\ NoTransportLost /\ EvictionInv)'
<1> SUFFICES ASSUME IInv, [Next]_vars
             PROVE  (CachedImpliesAllowed /\ NoTransportLost /\ EvictionInv)'
  OBVIOUS
<1> USE DEF IInv, TypeOK, CachedImpliesAllowed, NoTransportLost, EvictionInv, Evicted
<1>1. ASSUME NEW g \in Getters, NEW c \in Clusters, Call(g, c) PROVE (CachedImpliesAllowed /\ NoTransportLost /\ EvictionInv)'
  BY <1>1 DEF Call
<1>2. ASSUME NEW g \in Getters, GetOrCreateRead(g) PROVE (CachedImpliesAllowed /\ NoTransportLost /\ EvictionInv)'
  BY <1>2 DEF GetOrCreateRead
<1>3. ASSUME NEW g \in Getters, GetOrCreateWrite(g) PROVE (CachedImpliesAllowed /\ NoTransportLost /\ EvictionInv)'
  <2>1. getter[g].cluster \in Clusters
    BY <1>3 DEF GetOrCreateWrite, GetterStates, Idle
  <2>2. QED
    BY <1>3, <2>1 DEF GetOrCreateWrite, WriteSection
<1>4. ASSUME NEW g \in Getters, Finish(g) PROVE (CachedImpliesAllowed /\ NoTransportLost /\ EvictionInv)'
  BY <1>4 DEF Finish
<1>5. ASSUME NEW c \in Clusters, Allow(c) PROVE (CachedImpliesAllowed /\ NoTransportLost /\ EvictionInv)'
  BY <1>5 DEF Allow
<1>6. ASSUME NEW c \in Clusters, Remove(c) PROVE (CachedImpliesAllowed /\ NoTransportLost /\ EvictionInv)'
  BY <1>6 DEF Remove, Cached, ListenerFree
<1>7. CASE RemoveClose
  BY <1>7 DEF RemoveClose
<1>8. CASE CloseAll
  BY <1>8 DEF CloseAll, Cached
<1>9. ASSUME NEW t \in closing, CloseAllNext(t) PROVE (CachedImpliesAllowed /\ NoTransportLost /\ EvictionInv)'
  BY <1>9 DEF CloseAllNext
<1>10. CASE CloseAllReturn
  BY <1>10 DEF CloseAllReturn
<1>11. CASE UNCHANGED vars
  BY <1>11 DEF vars
<1>12. QED
  BY <1>1, <1>2, <1>3, <1>4, <1>5, <1>6, <1>7, <1>8, <1>9, <1>10, <1>11
     DEF Next, GetterNext, CloserNext

\* The pool never caches a transport for a cluster without the add-on, whatever
\* the interleaving of getOrCreate, remove and closeAll; IInv is inductive.
THEOREM PoolInvariant == SafetySpec => []IInv
<1>1. Init => IInv
  BY InitIInv
<1>2. IInv /\ [Next]_vars => IInv'
  BY TypeStep, PoolStep DEF IInv
<1>3. QED
  BY <1>1, <1>2, PTL DEF SafetySpec

\* For any number of clusters and calls: the pool caches no transport of a cluster
\* that is not allowed, ...
THEOREM PoolServesAllowedOnly == SafetySpec => []CachedImpliesAllowed
BY PoolInvariant, PTL DEF IInv

\* ... and a transport that was created is cached, being closed, or closed.
THEOREM PoolLosesNoTransport == SafetySpec => []NoTransportLost
BY PoolInvariant, PTL DEF IInv
------------------------------------------------------------------------------
(* Refinement of PoolContract *)

\* What the contract sees of each state of a getter.
LEMMA CallOfValues ==
    /\ CallOf(Idle) = [st |-> "idle"]
    /\ \A c : CallOf(Reading(c)) = [st |-> "pending", cluster |-> c]
    /\ \A c : CallOf(Locking(c)) = [st |-> "pending", cluster |-> c]
    /\ \A c, k : CallOf(Returned(c, k)) = [st |-> "done", cluster |-> c, transport |-> k]
BY DEF CallOf, Idle, Reading, Locking, Returned

\* A change of one getter changes that caller of the contract only.
LEMMA CallUpdate ==
    ASSUME NEW g \in Getters, NEW s, TypeOK, getter' = [getter EXCEPT ![g] = s]
    PROVE  [h \in Getters |-> CallOf(getter'[h])]
             = [[h \in Getters |-> CallOf(getter[h])] EXCEPT ![g] = CallOf(s)]
BY DEF TypeOK

\* Every step of the pool is a step of the contract or leaves it unchanged.
LEMMA ContractStep == IInv /\ [Next]_vars => [Contract!Next]_Contract!vars
<1> SUFFICES ASSUME IInv, [Next]_vars PROVE [Contract!Next]_Contract!vars
  OBVIOUS
<1> DEFINE call == [h \in Getters |-> CallOf(getter[h])]
<1> USE DEF IInv, TypeOK
<1>1. ASSUME NEW g \in Getters, NEW c \in Clusters, Call(g, c) PROVE Contract!Invoke(g, c)
  <2>1. call[g] = Contract!NoCall
    BY <1>1, CallOfValues DEF Call, Contract!NoCall
  <2>2. call' = [call EXCEPT ![g] = [st |-> "pending", cluster |-> c]]
    BY <1>1, CallUpdate, CallOfValues DEF Call
  <2>3. QED
    BY <1>1, <2>1, <2>2 DEF Call, Contract!Invoke, Evicted
<1>2. ASSUME NEW g \in Getters, GetOrCreateRead(g) PROVE [Contract!Next]_Contract!vars
  <2> DEFINE c == getter[g].cluster
  <2>1. c \in Clusters /\ getter[g] = Reading(c)
    BY <1>2 DEF GetOrCreateRead, GetterStates, Idle, Reading
  <2>2. call[g] = [st |-> "pending", cluster |-> c]
    BY <2>1, CallOfValues
  <2> HIDE DEF c
  <2>3. CASE c \notin allowed /\ getter' = [getter EXCEPT ![g] = Returned(c, 0)]
    <3>1. call' = [call EXCEPT ![g] = Contract!Answered(c, 0)]
      BY <2>3, CallUpdate, CallOfValues DEF Contract!Answered
    <3>2. Contract!Refuse(g, c)
      BY <1>2, <2>3, <3>1 DEF GetOrCreateRead, Contract!Refuse, Evicted
    <3>3. QED
      BY <2>2, <3>2 DEF Contract!Next, Contract!Answer
  <2>4. CASE c \in allowed /\ transports[c] # 0 /\ getter' = [getter EXCEPT ![g] = Returned(c, transports[c])]
    <3>1. call' = [call EXCEPT ![g] = Contract!Answered(c, transports[c])]
      BY <2>4, CallUpdate, CallOfValues DEF Contract!Answered
    <3>2. Contract!Reuse(g, c)
      BY <1>2, <2>4, <3>1 DEF GetOrCreateRead, Contract!Reuse, Evicted
    <3>3. QED
      BY <2>2, <3>2 DEF Contract!Next, Contract!Answer
  <2>5. CASE getter' = [getter EXCEPT ![g] = Locking(c)]
    <3>1. call' = [call EXCEPT ![g] = [st |-> "pending", cluster |-> c]]
      BY <2>5, CallUpdate, CallOfValues
    <3>2. call' = call
      BY <2>2, <3>1
    <3>3. QED
      BY <1>2, <3>2 DEF GetOrCreateRead, Contract!vars, Evicted
  <2>6. QED
    BY <1>2, <2>3, <2>4, <2>5 DEF GetOrCreateRead, ReadSection, c
<1>3. ASSUME NEW g \in Getters, GetOrCreateWrite(g) PROVE Contract!Answer(g)
  <2> DEFINE c == getter[g].cluster
  <2>1. c \in Clusters /\ getter[g] = Locking(c)
    BY <1>3 DEF GetOrCreateWrite, GetterStates, Idle, Locking
  <2>2. call[g] = [st |-> "pending", cluster |-> c]
    BY <2>1, CallOfValues
  <2> HIDE DEF c
  <2>3. CASE c \notin allowed /\ getter' = [getter EXCEPT ![g] = Returned(c, 0)] /\ UNCHANGED <<transports, made>>
    <3>1. call' = [call EXCEPT ![g] = Contract!Answered(c, 0)]
      BY <2>3, CallUpdate, CallOfValues DEF Contract!Answered
    <3>2. Contract!Refuse(g, c)
      BY <1>3, <2>3, <3>1 DEF GetOrCreateWrite, Contract!Refuse, Evicted
    <3>3. QED
      BY <2>2, <3>2 DEF Contract!Answer
  <2>4. CASE /\ c \in allowed /\ transports[c] # 0
             /\ getter' = [getter EXCEPT ![g] = Returned(c, transports[c])]
             /\ UNCHANGED <<transports, made>>
    <3>1. call' = [call EXCEPT ![g] = Contract!Answered(c, transports[c])]
      BY <2>4, CallUpdate, CallOfValues DEF Contract!Answered
    <3>2. Contract!Reuse(g, c)
      BY <1>3, <2>4, <3>1 DEF GetOrCreateWrite, Contract!Reuse, Evicted
    <3>3. QED
      BY <2>2, <3>2 DEF Contract!Answer
  <2>5. CASE /\ c \in allowed /\ transports[c] = 0
             /\ made' = [made EXCEPT ![c] = @ + 1]
             /\ transports' = [transports EXCEPT ![c] = made[c] + 1]
             /\ getter' = [getter EXCEPT ![g] = Returned(c, made[c] + 1)]
    <3>1. call' = [call EXCEPT ![g] = Contract!Answered(c, made[c] + 1)]
      BY <2>5, CallUpdate, CallOfValues DEF Contract!Answered
    <3>2. Contract!Mint(g, c)
      BY <1>3, <2>5, <3>1 DEF GetOrCreateWrite, Contract!Mint, Evicted
    <3>3. QED
      BY <2>2, <3>2 DEF Contract!Answer
  <2>6. QED
    BY <1>3, <2>3, <2>4, <2>5 DEF GetOrCreateWrite, WriteSection, c
<1>4. ASSUME NEW g \in Getters, Finish(g) PROVE Contract!Return(g)
  <2>1. call[g].st = "done"
    BY <1>4 DEF Finish, CallOf
  <2>2. call' = [call EXCEPT ![g] = Contract!NoCall]
    BY <1>4, CallUpdate, CallOfValues DEF Finish, Contract!NoCall
  <2>3. QED
    BY <1>4, <2>1, <2>2 DEF Finish, Contract!Return, Evicted
<1>5. ASSUME NEW c \in Clusters, Allow(c) PROVE Contract!Admit(c)
  BY <1>5 DEF Allow, Contract!Admit, Evicted
<1>6. ASSUME NEW c \in Clusters, Remove(c) PROVE Contract!Expel({c})
  <2>1. transports' = [d \in Clusters |-> IF d \in {c} THEN 0 ELSE transports[d]]
    BY <1>6 DEF Remove
  <2>2. QED
    BY <1>6, <2>1 DEF Remove, ListenerFree, Cached, Contract!Expel, Evicted
<1>7. CASE RemoveClose
  <2>1. PICK t \in removing : removing = {t}
    BY <1>7 DEF RemoveClose, EvictionInv
  <2>2. Evicted' = Evicted \ {t}
    BY <1>7, <2>1 DEF RemoveClose, Evicted, EvictionInv
  <2>3. t \in Evicted /\ Contract!Close(t)
    BY <1>7, <2>1, <2>2 DEF RemoveClose, Contract!Close, Evicted
  <2>4. QED
    BY <2>3 DEF Contract!Next
<1>8. CASE CloseAll
  <2>1. Contract!Expel(Clusters)
    BY <1>8 DEF CloseAll, Cached, Contract!Expel, Evicted, EvictionInv
  <2>2. QED
    BY <2>1 DEF Contract!Next
<1>9. ASSUME NEW t \in closing, CloseAllNext(t) PROVE t \in Evicted /\ Contract!Close(t)
  <2>1. Evicted' = Evicted \ {t}
    BY <1>9 DEF CloseAllNext, Evicted, EvictionInv
  <2>2. QED
    BY <1>9, <2>1 DEF CloseAllNext, Contract!Close, Evicted
<1>10. CASE CloseAllReturn
  BY <1>10 DEF CloseAllReturn, Contract!vars, Evicted
<1>11. CASE UNCHANGED vars
  BY <1>11 DEF vars, Contract!vars, Evicted
<1>12. QED
  BY <1>1, <1>2, <1>3, <1>4, <1>5, <1>6, <1>7, <1>8, <1>9, <1>10, <1>11
     DEF Next, GetterNext, CloserNext, Contract!Next

\* getOrCreate's two critical sections are, to every caller and for every number
\* of callers, one atomic lookup: the pool implements its contract.
THEOREM PoolImplementsContract == SafetySpec => ImplementsContract
<1>1. Init => Contract!Init
  BY CallOfValues DEF Init, Contract!Init, Contract!NoCall, Evicted
<1>2. QED
  BY <1>1, ContractStep, PoolInvariant, PTL DEF SafetySpec, ImplementsContract, Contract!Spec
==============================================================================
