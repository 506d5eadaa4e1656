------------------------------ MODULE AuthChain ------------------------------
(***************************************************************************)
(* The service-proxy in front of the managed cluster's kube-apiserver:     *)
(* ServeHTTP and processAuthentication try the managed cluster, the hub    *)
(* and the OIDC issuer in turn, the first two through a TokenReview cache  *)
(* (k8s.io/apiserver, cache.New(delegate, false, ttl, ttl)).               *)
(*                                                                         *)
(* The module follows one token; providers and caches treat tokens apart.  *)
(* An authority may start or cease to vouch for it at any time.  Time is   *)
(* counted in ticks.  A TokenReview shared through the cache may take      *)
(* sharedLookupTimeout from the first request for it until its reply       *)
(* arrives, which is when its entry's TTL begins; an answer no cache keeps *)
(* is used as it is given.                                                 *)
(* Requests that do not parse are answered 400 and change nothing.         *)
(***************************************************************************)
EXTENDS Naturals, Sequences

CONSTANTS Enabled,      \* providers enabled by flags: a subset of {"hub", "oidc"}
          TTL,          \* tokenReviewCacheTTL in ticks; 0 disables the cache
          LookupTimeout,\* sharedLookupTimeout of the cache, in ticks
          Handlers,     \* concurrent requests with the token
          MaxChanges    \* bound: changes of what authorities vouch for

ASSUME AuthAssumption == Enabled \subseteq {"hub", "oidc"} /\ {TTL, LookupTimeout, MaxChanges} \subseteq Nat

Reviewed == {"managed", "hub"}           \* providers that are TokenReviews
Authorities == Reviewed \cup {"oidc"}

VARIABLES valid,     \* valid[p]: p vouches for the token
          since,     \* since[p]: ticks since that last changed, up to Horizon
          cache,     \* cache[p]: the cached answer and the ticks it has left
          flight,    \* flight[p]: the TokenReview in progress: "none", "sent", or its answer
          age,       \* age[p]: ticks since it was sent
          req,       \* req[h]: where handler h is in ServeHTTP
          changes

vars == <<valid, since, cache, flight, age, req, changes>>

\* initializeAuthProviders: the managed cluster first, then the enabled ones;
\* none at all when none is enabled.
Providers ==
    IF Enabled = {} THEN <<>>
    ELSE <<"managed">> \o (IF "hub" \in Enabled THEN <<"hub">> ELSE <<>>)
                       \o (IF "oidc" \in Enabled THEN <<"oidc">> ELSE <<>>)

\* From then on it makes no difference how long ago something changed.
Horizon == TTL + LookupTimeout

NoEntry == [answer |-> "none", left |-> 0]
Done(outcome, as, log) == [pc |-> "done", outcome |-> outcome, as |-> as, log |-> log]
Idle == Done("none", "none", <<>>)

Init ==
    /\ valid \in [Authorities -> BOOLEAN]
    /\ since = [p \in Authorities |-> Horizon]
    /\ cache = [p \in Reviewed |-> NoEntry]
    /\ flight = [p \in Reviewed |-> "none"] /\ age = [p \in Reviewed |-> 0]
    /\ req = [h \in Handlers |-> Idle]
    /\ changes = 0
------------------------------------------------------------------------------
(* Authorities and time *)

\* A token is issued, expires, or is revoked.
Change(p) ==
    /\ changes < MaxChanges
    /\ changes' = changes + 1
    /\ valid' = [valid EXCEPT ![p] = ~@]
    /\ since' = [since EXCEPT ![p] = 0]
    /\ UNCHANGED <<cache, flight, age, req>>

\* What authority p may answer now: it vouches for the token ("yes"), is not
\* authenticated ("no"), reports a rejection as an error ("rejected"), or fails.
Answers(p) ==
    {"error"} \cup (IF valid[p] THEN {"yes"} ELSE {"no", "rejected"})
              \cup (IF p = "oidc" THEN {"rejected"} ELSE {})

Later(n) == IF n < Horizon THEN n + 1 ELSE n

InFlight(p) == flight[p] # "none"

\* Time passes while no review is beyond its deadline.
Tick ==
    /\ \A p \in Reviewed : InFlight(p) => age[p] < LookupTimeout
    /\ since' = [p \in Authorities |-> Later(since[p])]
    /\ cache' = [p \in Reviewed |-> IF cache[p].left > 1 THEN [cache[p] EXCEPT !.left = @ - 1] ELSE NoEntry]
    /\ age' = [p \in Reviewed |-> IF InFlight(p) THEN age[p] + 1 ELSE 0]
    /\ <<since, cache, age>>' # <<since, cache, age>>
    /\ UNCHANGED <<valid, flight, req, changes>>
------------------------------------------------------------------------------
(* ServeHTTP and processAuthentication *)

Asking(i, log) == [pc |-> "ask", i |-> i, log |-> log]

\* A request for a service other than the kube-apiserver, one that carries
\* impersonation headers, and any request when no provider is enabled is forwarded
\* unchanged; the target authenticates the token itself.
Receive(h) ==
    /\ req[h].pc = "done"
    /\ \/ req' = [req EXCEPT ![h] = Done("forwarded", "client", <<>>)]
       \/ /\ Providers # <<>>
          /\ req' = [req EXCEPT ![h] = Asking(1, <<>>)]
    /\ UNCHANGED <<valid, since, cache, flight, age, changes>>

\* applyExternalIdentity: the managed cluster's users keep their token; the others
\* are impersonated, for which the service account's token may be unreadable.
Accept(i, log) ==
    {Done("forwarded", Providers[i], log)}
    \cup (IF Providers[i] = "managed" THEN {} ELSE {Done("401", "none", log)})

\* Faulty variant: an infrastructure error falls through to the next provider.
AfterContinues(i, log, a) ==
    IF a = "yes" THEN Accept(i, log)
    ELSE IF i < Len(Providers) THEN {Asking(i + 1, log)}
    ELSE {Done("401", "none", log)}

\* Faulty variant: a rejection is tried again with the same provider.
AfterRepeats(i, log, a) ==
    IF a = "yes" THEN Accept(i, log)
    ELSE IF a = "rejected" THEN {Asking(i, <<>>)}
    ELSE IF a = "no" /\ i < Len(Providers) THEN {Asking(i + 1, log)}
    ELSE {Done("401", "none", log)}

\* What becomes of a request when provider number i has answered a.
After(i, log, a) ==
    IF a = "yes" THEN Accept(i, log)
    ELSE IF a \in {"no", "rejected"} /\ i < Len(Providers) THEN {Asking(i + 1, log)}
    ELSE {Done("401", "none", log)}

\* Handler h gets answer a from the provider it asked; log keeps the answers.
Outcomes(h, a) ==
    After(req[h].i, Append(req[h].log, a), a)

\* Is p asked through a cache?
Cached(p) == p \in Reviewed /\ TTL > 0

\* Without a cache, every request asks for itself.
AskDirectly(h) ==
    /\ req[h].pc = "ask"
    /\ ~Cached(Providers[req[h].i])
    /\ \E a \in Answers(Providers[req[h].i]) : \E next \in Outcomes(h, a) :
          /\ req' = [req EXCEPT ![h] = next]
    /\ UNCHANGED <<valid, since, cache, flight, age, changes>>

\* A cached answer is used as it is.
Hit(h) ==
    /\ req[h].pc = "ask"
    /\ Cached(Providers[req[h].i])
    /\ cache[Providers[req[h].i]] # NoEntry
    /\ \E next \in Outcomes(h, cache[Providers[req[h].i]].answer) : req' = [req EXCEPT ![h] = next]
    /\ UNCHANGED <<valid, since, cache, flight, age, changes>>

\* Otherwise the handler waits for the one TokenReview in progress.
Join(h) ==
    /\ req[h].pc = "ask"
    /\ LET p == Providers[req[h].i] IN
       /\ Cached(p) /\ cache[p] = NoEntry
       /\ flight' = [flight EXCEPT ![p] = IF @ = "none" THEN "sent" ELSE @]
    /\ req' = [req EXCEPT ![h] = [@ EXCEPT !.pc = "wait"]]
    /\ UNCHANGED <<valid, since, cache, age, changes>>

\* The cluster carries out the review.  One that fails and one that the deadline of
\* the lookup cuts off, reply and all, are alike: an error.
Review(p) ==
    /\ flight[p] = "sent"
    /\ \E a \in Answers(p) : flight' = [flight EXCEPT ![p] = a]
    /\ UNCHANGED <<valid, since, cache, age, req, changes>>

\* Faulty variant: a failed review is cached as a refusal (cacheErrs).
RememberErrors(a) == [answer |-> IF a = "yes" THEN "yes" ELSE "no", left |-> TTL]

\* cacheErrs is false: "yes" and "no" are kept for TTL, errors are not; a
\* rejection is an error too.
Remember(a) == IF a \in {"yes", "no"} THEN [answer |-> a, left |-> TTL] ELSE NoEntry

\* The answer is cached and reaches every handler that waits for it.
Deliver(p) ==
    /\ flight[p] \notin {"none", "sent"}
    /\ LET a == flight[p]
           waiting == {h \in Handlers : req[h].pc = "wait" /\ Providers[req[h].i] = p}
       IN /\ cache' = [cache EXCEPT ![p] = Remember(a)]
          /\ \E next \in [waiting -> UNION {Outcomes(h, a) : h \in waiting}] :
                /\ \A h \in waiting : next[h] \in Outcomes(h, a)
                /\ req' = [h \in Handlers |-> IF h \in waiting THEN next[h] ELSE req[h]]
    /\ flight' = [flight EXCEPT ![p] = "none"] /\ age' = [age EXCEPT ![p] = 0]
    /\ UNCHANGED <<valid, since, changes>>

\* The client goes away: the request's context is done, which is an error to it;
\* the shared TokenReview goes on.
GiveUp(h) ==
    /\ req[h].pc = "wait"
    /\ \E next \in Outcomes(h, "error") : req' = [req EXCEPT ![h] = next]
    /\ UNCHANGED <<valid, since, cache, flight, age, changes>>
------------------------------------------------------------------------------
Authenticate(h) == AskDirectly(h) \/ Hit(h) \/ Join(h)

Next ==
    \/ Tick
    \/ \E p \in Authorities : Change(p)
    \/ \E p \in Reviewed : Review(p) \/ Deliver(p)
    \/ \E h \in Handlers : Receive(h) \/ Authenticate(h) \/ GiveUp(h)

\* Handlers run, and a TokenReview is answered or times out.
Fairness ==
    /\ \A h \in Handlers : WF_vars(Authenticate(h))
    /\ \A p \in Reviewed : WF_vars(Review(p)) /\ WF_vars(Deliver(p))

SafetySpec == Init /\ [][Next]_vars
Spec == SafetySpec /\ Fairness
------------------------------------------------------------------------------
(* Properties *)

\* processAuthentication: "Infrastructure errors stop the flow; only an
\* unauthenticated result falls through to the next provider": a request forwarded
\* as a user of one provider was turned down by every provider before it, none of
\* them having failed, whichever of the answers came from a cache.
FirstMatchWins ==
    \A h \in Handlers : req[h].pc = "done" /\ req[h].outcome = "forwarded" /\ req[h].as # "client" =>
        /\ Providers[Len(req[h].log)] = req[h].as
        /\ \A k \in DOMAIN req[h].log :
              req[h].log[k] \in (IF k = Len(req[h].log) THEN {"yes"} ELSE {"no", "rejected"})

\* The answers handler h has used for its request so far.
Used(h) == req[h].log

\* Answer a is not what p would say now.
Outdated(p, a) == (a = "yes" /\ ~valid[p]) \/ (a = "no" /\ valid[p])

\* A revoked token is accepted, and a new one turned down, on the strength of a
\* cached or shared review for less than TTL and the time a review may take: an
\* entry outlives the change by the reply's delay, since its TTL begins on arrival,
\* but neither hits nor failed reviews, nor a review that others joined late,
\* prolong it further.
StaleForLessThanHorizon ==
    [][\A h \in Handlers : Len(Used(h)') > Len(Used(h)) =>
          LET p == Providers[req[h].i]
              a == Used(h)'[Len(Used(h)')]
          IN Outdated(p, a) => since[p] < Horizon]_vars

\* Every request is decided, also when its TokenReview is shared with others.
RequestsDecided == \A h \in Handlers : req[h].pc \in {"ask", "wait"} ~> req[h].pc = "done"
==============================================================================
