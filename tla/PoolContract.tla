---------------------------- MODULE PoolContract ----------------------------
(***************************************************************************)
(* What the user-server's transport pool promises its callers, with every  *)
(* lookup a single step: a lookup that answers with a transport found the  *)
(* cluster a member at one instant inside the call, a refused lookup found *)
(* it absent at one instant inside the call, a membership period mints at  *)
(* most one transport, and an evicted transport is told once to drop its   *)
(* idle connections.                                                       *)
(***************************************************************************)
EXTENDS Naturals

CONSTANTS Clusters,   \* managed clusters
          Callers     \* goroutines that look transports up

VARIABLES members,    \* clusters that may be served
          live,       \* live[c]: the transport served for c, 0 when there is none
          minted,     \* minted[c]: how many transports were made for c
          evicted,    \* transports that left the pool and are not closed yet
          drained,    \* transports whose idle connections were closed
          call        \* call[g]: the lookup of caller g

vars == <<members, live, minted, evicted, drained, call>>

NoCall == [st |-> "idle"]

Init ==
    /\ members = {}
    /\ live = [c \in Clusters |-> 0]
    /\ minted = [c \in Clusters |-> 0]
    /\ evicted = {}
    /\ drained = {}
    /\ call = [g \in Callers |-> NoCall]

Admit(c) ==
    /\ members' = members \cup {c}
    /\ UNCHANGED <<live, minted, evicted, drained, call>>

Expel(cs) ==
    /\ members' = members \ cs
    /\ live' = [c \in Clusters |-> IF c \in cs THEN 0 ELSE live[c]]
    /\ evicted' = evicted \cup {<<c, live[c]>> : c \in {d \in cs : live[d] # 0}}
    /\ UNCHANGED <<minted, drained, call>>

Close(t) ==
    /\ t \in evicted
    /\ evicted' = evicted \ {t}
    /\ drained' = drained \cup {t}
    /\ UNCHANGED <<members, live, minted, call>>

Invoke(g, c) ==
    /\ call[g] = NoCall
    /\ call' = [call EXCEPT ![g] = [st |-> "pending", cluster |-> c]]
    /\ UNCHANGED <<members, live, minted, evicted, drained>>

Answered(c, t) == [st |-> "done", cluster |-> c, transport |-> t]

Refuse(g, c) ==
    /\ c \notin members
    /\ call' = [call EXCEPT ![g] = Answered(c, 0)]
    /\ UNCHANGED <<members, live, minted, evicted, drained>>

Reuse(g, c) ==
    /\ c \in members /\ live[c] # 0
    /\ call' = [call EXCEPT ![g] = Answered(c, live[c])]
    /\ UNCHANGED <<members, live, minted, evicted, drained>>

Mint(g, c) ==
    /\ c \in members /\ live[c] = 0
    /\ minted' = [minted EXCEPT ![c] = @ + 1]
    /\ live' = [live EXCEPT ![c] = minted[c] + 1]
    /\ call' = [call EXCEPT ![g] = Answered(c, minted[c] + 1)]
    /\ UNCHANGED <<members, evicted, drained>>

Answer(g) ==
    /\ call[g].st = "pending"
    /\ \E c \in {call[g].cluster} : Refuse(g, c) \/ Reuse(g, c) \/ Mint(g, c)

Return(g) ==
    /\ call[g].st = "done"
    /\ call' = [call EXCEPT ![g] = NoCall]
    /\ UNCHANGED <<members, live, minted, evicted, drained>>

Next ==
    \/ \E c \in Clusters : Admit(c) \/ Expel({c})
    \/ Expel(Clusters)
    \/ \E t \in evicted : Close(t)
    \/ \E g \in Callers : \/ \E c \in Clusters : Invoke(g, c)
                          \/ Answer(g)
                          \/ Return(g)

Spec == Init /\ [][Next]_vars
=============================================================================
