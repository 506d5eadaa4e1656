---------------------------- MODULE TransportPool ----------------------------
(***************************************************************************)
(* The user-server's clusterTransportPool: the set of clusters that have   *)
(* the cluster-proxy add-on and one cached http.Transport for each.        *)
(*                                                                         *)
(* One step is one critical section of the pool's RWMutex, or one of the   *)
(* CloseIdleConnections calls made after the mutex is released.  No        *)
(* section blocks or calls out of the package while it holds the mutex     *)
(* (newTransport only fills a struct), so sections are atomic to others.   *)
(*                                                                         *)
(* Three kinds of goroutine use the pool: the request handlers (Getters),  *)
(* the single informer listener that applies add-on events one at a time,  *)
(* and Run, whose deferred closeAll empties the pool when the server ends. *)
(*                                                                         *)
(* The k-th transport made for cluster c is the pair <<c, k>>; transports  *)
(* holds k, and 0 for no entry.                                            *)
(***************************************************************************)
EXTENDS Naturals

CONSTANTS Clusters,      \* names of managed clusters
          Getters,       \* request-handling goroutines
          MaxTransports  \* bound: a cluster with this many transports made is not re-added

ASSUME MaxTransportsAssumption == MaxTransports \in Nat

VARIABLES allowed,       \* clusterTransportPool.allowed
          transports,    \* clusterTransportPool.transports
          made,          \* made[c]: transports newTransport returned for c
          closed,        \* transports that got CloseIdleConnections
          getter,        \* getter[g]: progress of g's getOrCreate call
          removing,      \* transports remove has evicted and has yet to close
          closing,       \* transports closeAll has evicted and has yet to close
          closer         \* Run's deferred closeAll: "pending", "closing", "done"

vars == <<allowed, transports, made, closed, getter, removing, closing, closer>>

Idle == [pc |-> "idle"]
Reading(c) == [pc |-> "read", cluster |-> c]
Locking(c) == [pc |-> "lock", cluster |-> c]
Returned(c, k) == [pc |-> "done", cluster |-> c, transport |-> k]

GetterStates ==
    {Idle} \cup [pc : {"read", "lock"}, cluster : Clusters]
           \cup [pc : {"done"}, cluster : Clusters, transport : Nat]

\* Transports that left the maps while their CloseIdleConnections is to come.
Evicted == removing \cup closing

\* The entries of the transports map for the clusters in cs.
Cached(cs) == {<<c, transports[c]>> : c \in {d \in cs : transports[d] # 0}}

Init ==
    /\ allowed = {}
    /\ transports = [c \in Clusters |-> 0]
    /\ made = [c \in Clusters |-> 0]
    /\ closed = {}
    /\ getter = [g \in Getters |-> Idle]
    /\ removing = {}
    /\ closing = {}
    /\ closer = "pending"
------------------------------------------------------------------------------
IsAllowed(c) == c \in allowed

(* getOrCreate, called by request handlers *)

Call(g, c) ==
    /\ getter[g] = Idle
    /\ getter' = [getter EXCEPT ![g] = Reading(c)]
    /\ UNCHANGED <<allowed, transports, made, closed, removing, closing, closer>>

\* Under the read lock: absent clusters are refused, hits are answered, and a
\* miss goes on to ask for the write lock.
ReadSection(g, c) ==
    \/ /\ c \notin allowed
       /\ getter' = [getter EXCEPT ![g] = Returned(c, 0)]
    \/ /\ c \in allowed /\ transports[c] # 0
       /\ getter' = [getter EXCEPT ![g] = Returned(c, transports[c])]
    \/ /\ c \in allowed /\ transports[c] = 0
       /\ getter' = [getter EXCEPT ![g] = Locking(c)]

GetOrCreateRead(g) ==
    /\ getter[g].pc = "read"
    /\ ReadSection(g, getter[g].cluster)
    /\ UNCHANGED <<allowed, transports, made, closed, removing, closing, closer>>

\* Faulty variant: membership is not looked up again under the write lock.
WriteSectionTrustsRead(g, c) ==
    \/ /\ transports[c] # 0
       /\ getter' = [getter EXCEPT ![g] = Returned(c, transports[c])]
       /\ UNCHANGED <<transports, made>>
    \/ /\ transports[c] = 0
       /\ made' = [made EXCEPT ![c] = @ + 1]
       /\ transports' = [transports EXCEPT ![c] = made[c] + 1]
       /\ getter' = [getter EXCEPT ![g] = Returned(c, made[c] + 1)]

\* Faulty variant: the cache is not looked up again under the write lock.
WriteSectionOverwrites(g, c) ==
    \/ /\ c \notin allowed
       /\ getter' = [getter EXCEPT ![g] = Returned(c, 0)]
       /\ UNCHANGED <<transports, made>>
    \/ /\ c \in allowed
       /\ made' = [made EXCEPT ![c] = @ + 1]
       /\ transports' = [transports EXCEPT ![c] = made[c] + 1]
       /\ getter' = [getter EXCEPT ![g] = Returned(c, made[c] + 1)]

\* Under the write lock both maps are looked up again before a transport is made.
WriteSection(g, c) ==
    \/ /\ c \notin allowed
       /\ getter' = [getter EXCEPT ![g] = Returned(c, 0)]
       /\ UNCHANGED <<transports, made>>
    \/ /\ c \in allowed /\ transports[c] # 0
       /\ getter' = [getter EXCEPT ![g] = Returned(c, transports[c])]
       /\ UNCHANGED <<transports, made>>
    \/ /\ c \in allowed /\ transports[c] = 0
       /\ made' = [made EXCEPT ![c] = @ + 1]
       /\ transports' = [transports EXCEPT ![c] = made[c] + 1]
       /\ getter' = [getter EXCEPT ![g] = Returned(c, made[c] + 1)]

GetOrCreateWrite(g) ==
    /\ getter[g].pc = "lock"
    /\ WriteSection(g, getter[g].cluster)
    /\ UNCHANGED <<allowed, closed, removing, closing, closer>>

\* The handler has used the answer and is done with it.
Finish(g) ==
    /\ getter[g].pc = "done"
    /\ getter' = [getter EXCEPT ![g] = Idle]
    /\ UNCHANGED <<allowed, transports, made, closed, removing, closing, closer>>
------------------------------------------------------------------------------
(* allow and remove, called by the informer listener *)

\* The listener is one goroutine: it takes no event while remove is closing.
ListenerFree == removing = {}

Allow(c) ==
    /\ ListenerFree
    /\ c \in allowed \/ made[c] < MaxTransports
    /\ allowed' = allowed \cup {c}
    /\ UNCHANGED <<transports, made, closed, getter, removing, closing, closer>>

\* Faulty variant: remove forgets to delete the cached transport.
RemoveKeepsTransport(c) ==
    /\ ListenerFree
    /\ allowed' = allowed \ {c}
    /\ removing' = Cached({c})
    /\ UNCHANGED <<transports, made, closed, getter, closing, closer>>

Remove(c) ==
    /\ ListenerFree
    /\ allowed' = allowed \ {c}
    /\ transports' = [transports EXCEPT ![c] = 0]
    /\ removing' = Cached({c})
    /\ UNCHANGED <<made, closed, getter, closing, closer>>

RemoveClose ==
    /\ removing # {}
    /\ closed' = closed \cup removing
    /\ removing' = {}
    /\ UNCHANGED <<allowed, transports, made, getter, closing, closer>>
------------------------------------------------------------------------------
(* closeAll, deferred by Run *)

CloseAll ==
    /\ closer = "pending"
    /\ allowed' = {}
    /\ transports' = [c \in Clusters |-> 0]
    /\ closing' = Cached(Clusters)
    /\ closer' = "closing"
    /\ UNCHANGED <<made, closed, getter, removing>>

CloseAllNext(t) ==
    /\ closer = "closing"
    /\ t \in closing
    /\ closed' = closed \cup {t}
    /\ closing' = closing \ {t}
    /\ UNCHANGED <<allowed, transports, made, getter, removing, closer>>

\* Faulty variant: closeAll returns before it has closed every transport.
CloseAllReturnEarly ==
    /\ closer = "closing"
    /\ closer' = "done"
    /\ UNCHANGED <<allowed, transports, made, closed, getter, removing, closing>>

CloseAllReturn ==
    /\ closer = "closing"
    /\ closing = {}
    /\ closer' = "done"
    /\ UNCHANGED <<allowed, transports, made, closed, getter, removing, closing>>
------------------------------------------------------------------------------
GetterNext(g) == GetOrCreateRead(g) \/ GetOrCreateWrite(g) \/ Finish(g)
CloserNext == (\E t \in closing : CloseAllNext(t)) \/ CloseAllReturn

Next ==
    \/ \E g \in Getters : (\E c \in Clusters : Call(g, c)) \/ GetterNext(g)
    \/ \E c \in Clusters : Allow(c) \/ Remove(c)
    \/ RemoveClose
    \/ CloseAll
    \/ CloserNext

\* Goroutines are scheduled: a started getOrCreate, a started remove and a
\* started closeAll run on.  New calls, events and the end of Run need not come.
Fairness ==
    /\ \A g \in Getters : WF_vars(GetterNext(g))
    /\ WF_vars(RemoveClose)
    /\ WF_vars(CloserNext)

SafetySpec == Init /\ [][Next]_vars
Spec == SafetySpec /\ Fairness
------------------------------------------------------------------------------
(* Properties *)

\* Types of the pool's maps and of its callers' progress.
TypeOK ==
    /\ allowed \subseteq Clusters
    /\ transports \in [Clusters -> Nat]
    /\ made \in [Clusters -> Nat]
    /\ closed \subseteq Clusters \X Nat
    /\ getter \in [Getters -> GetterStates]
    /\ removing \subseteq Clusters \X Nat
    /\ closing \subseteq Clusters \X Nat
    /\ closer \in {"pending", "closing", "done"}

\* A transport is cached only for a cluster that has the add-on: however
\* getOrCreate interleaves with remove and closeAll, no transport is created in
\* the maps after its cluster was taken out ("an informer delete cannot race
\* with creation of a new cached transport").
CachedImpliesAllowed == \A c \in Clusters : transports[c] # 0 => c \in allowed

\* No transport is ever lost: each one getOrCreate made is the cached one of its
\* cluster, or was evicted and is about to be closed, or was closed.  Two
\* handlers that both miss must therefore end up with one transport.
NoTransportLost ==
    \A c \in Clusters : \A k \in 1..made[c] :
        transports[c] = k \/ <<c, k>> \in Evicted \/ <<c, k>> \in closed

\* How the contract sees one getter: waiting for the write lock is "pending".
CallOf(s) ==
    IF s.pc = "idle" THEN [st |-> "idle"]
    ELSE IF s.pc = "done"
         THEN [st |-> "done", cluster |-> s.cluster, transport |-> s.transport]
         ELSE [st |-> "pending", cluster |-> s.cluster]

\* The pool behaves as if every getOrCreate were one atomic step.
Contract == INSTANCE PoolContract WITH
    Callers <- Getters,
    members <- allowed,
    live <- transports,
    minted <- made,
    evicted <- Evicted,
    drained <- closed,
    call <- [g \in Getters |-> CallOf(getter[g])]

\* getOrCreate with its two critical sections implements the atomic lookup.
ImplementsContract == Contract!Spec

\* Every transport that leaves the maps, by remove or by closeAll, gets its
\* CloseIdleConnections call.
EvictedGetClosed ==
    \A c \in Clusters : \A k \in 1..MaxTransports :
        <<c, k>> \in Evicted ~> <<c, k>> \in closed

==============================================================================
