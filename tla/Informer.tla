------------------------------ MODULE Informer ------------------------------
(***************************************************************************)
(* A client-go shared informer with one registered event handler, as the   *)
(* watchers of this repository use it: informerFactory.Start, then         *)
(* WaitForCacheSync(informer.HasSynced).  The library is not part of the   *)
(* repository; this is the behaviour the watchers rely on:                 *)
(*   - the initial List fills the store and makes HasSynced true;          *)
(*   - later the store follows the API object; a watch that was cut and    *)
(*     relisted skips the versions in between;                             *)
(*   - every change of the store, and every periodic resync, is queued as  *)
(*     a notification for the handler, which a goroutine of its own takes  *)
(*     from the queue in order.  HasSynced says nothing about that queue.  *)
(***************************************************************************)
EXTENDS Naturals, Sequences, FiniteSets

CONSTANTS Keys,         \* names of the watched objects
          Contents,     \* what an object may contain
          Absent,       \* the object does not exist
          MaxNotices    \* bound: notifications queued when a resync adds one

VARIABLES object,       \* object[k]: the object in the API server
          store,        \* store[k]: the informer's copy
          hasSynced,    \* HasSynced(): the initial list is in the store
          notices       \* notifications the handler has not taken yet

\* Add and Update reach the same code in every handler of this repository.
SetNotice(k, v) == [type |-> "set", key |-> k, content |-> v]
DeleteNotice(k) == [type |-> "delete", key |-> k, content |-> Absent]

Present(objects) == {k \in Keys : objects[k] # Absent}

Init ==
    /\ object \in [Keys -> Contents \cup {Absent}]
    /\ store = [k \in Keys |-> Absent]
    /\ hasSynced = FALSE
    /\ notices = <<>>

\* Someone creates, replaces or deletes an object in the API server.
Change(k, v) ==
    /\ object[k] # v
    /\ object' = [object EXCEPT ![k] = v]
    /\ UNCHANGED <<store, hasSynced, notices>>

\* The sequences that list every object of a set once.
Orders(S) ==
    {order \in UNION {[1..n -> S] : n \in 0..Cardinality(S)} :
        /\ \A i, j \in DOMAIN order : i # j => order[i] # order[j]
        /\ \A k \in S : \E i \in DOMAIN order : order[i] = k}

\* The initial list: one add per object, in any order.
List ==
    /\ ~hasSynced
    /\ hasSynced' = TRUE
    /\ store' = object
    /\ \E order \in Orders(Present(object)) :
         notices' = [i \in DOMAIN order |-> SetNotice(order[i], object[order[i]])]
    /\ UNCHANGED object

\* A watch event or a relist brings the store up to date with object k.
Observe(k) ==
    /\ hasSynced
    /\ store[k] # object[k]
    /\ store' = [store EXCEPT ![k] = object[k]]
    /\ notices' = Append(notices, IF object[k] = Absent THEN DeleteNotice(k)
                                                        ELSE SetNotice(k, object[k]))
    /\ UNCHANGED <<object, hasSynced>>

\* The periodic resync repeats the stored object as an update.
Resync(k) ==
    /\ hasSynced
    /\ store[k] # Absent
    /\ Len(notices) < MaxNotices
    /\ notices' = Append(notices, SetNotice(k, store[k]))
    /\ UNCHANGED <<object, store, hasSynced>>

\* The handler's goroutine takes the oldest notification.
Take ==
    /\ notices # <<>>
    /\ notices' = Tail(notices)
    /\ UNCHANGED <<object, store, hasSynced>>

\* A stopped informer drops the notifications its handler has not taken.
DropNotices ==
    /\ notices # <<>>
    /\ notices' = <<>>
    /\ UNCHANGED <<object, store, hasSynced>>
=============================================================================
