-------------------------- MODULE OIDCAuthenticator --------------------------
(***************************************************************************)
(* oidcAuthenticator and its CA ConfigMap controller.  One worker makes    *)
(* the delegate follow the ConfigMap while requests authenticate tokens    *)
(* with whatever delegate they find.                                       *)
(*                                                                         *)
(* A CA configuration stands for its configuration key: SystemRoots (no CA *)
(* ConfigMap is configured), Missing, a member of Invalid (no CA entry, or *)
(* an empty one), or a CA bundle.  Delegates are numbered as they are      *)
(* built; 0 is nil.  A delegate is Kubernetes' OIDC authenticator: its     *)
(* discovery goroutine stores the verifier, then clears the health error.  *)
(***************************************************************************)
EXTENDS Naturals, Sequences

CONSTANTS Bundles,       \* CA bundles
          Trusted,       \* those, or SystemRoots, with which the issuer can be reached
          Unparsable,    \* bundles that hold no certificate
          Invalid,       \* ConfigMaps without a usable ca.crt entry
          SystemRoots, Missing,
          Requests,      \* concurrent calls of AuthenticateToken
          MaxRotations   \* bound: changes of the ConfigMap

ASSUME OIDCAssumption ==
    /\ MaxRotations \in Nat
    /\ Missing \notin Bundles \cup Invalid \cup {SystemRoots}
    /\ Invalid \cap (Bundles \cup {SystemRoots}) = {}
    /\ SystemRoots \notin Bundles

VARIABLES configMap,     \* the CA configuration on the API server
          rotations,     \* how often it has changed
          store,         \* the same, in the informer's cache
          event,         \* the informer's handler has yet to queue the key
          queued,        \* the key is in the work queue
          worker,        \* "start", "idle", "cancel", "build", "publish"
          observed,      \* observedConfiguration
          delegate,      \* the published delegate
          initErr,       \* initializationError is not nil
          displaced,     \* the delegate replaceDelegate has yet to cancel
          fresh,         \* the delegate that is built and not yet published
          bundleOf,      \* bundleOf[d]: the configuration delegate d was built for
          health,        \* health[d]: "starting", "verifier", "healthy"
          cancelled,     \* delegates whose context is cancelled
          calls          \* calls[q]: where request q is in AuthenticateToken

configVars == <<configMap, rotations, store, event, queued>>
delegateVars == <<observed, delegate, initErr, displaced, fresh>>
builtVars == <<bundleOf, health>>
oidcVars == <<configVars, worker, delegateVars, builtVars, cancelled, calls>>

Unset == "unset"
Tokens == {"good", "bad", "foreign"}
Made == Len(bundleOf)   \* delegates built so far
Usable == Bundles \cup {SystemRoots}
IdleCall(outcome, token, cause) == [pc |-> "idle", outcome |-> outcome, token |-> token, cause |-> cause]

\* WaitForCacheSync has returned; the initial reconciliation comes next.
OIDCInit ==
    /\ configMap \in Usable \cup Invalid \cup {Missing} /\ store = configMap /\ rotations = 0
    /\ event = (store \notin {Missing, SystemRoots}) /\ queued = FALSE
    /\ worker = "start" /\ observed = Unset
    /\ delegate = 0 /\ initErr = TRUE /\ displaced = 0 /\ fresh = 0
    /\ bundleOf = <<>> /\ health = <<>> /\ cancelled = {}
    /\ calls = [q \in Requests |-> IdleCall("none", "foreign", "none")]
------------------------------------------------------------------------------
(* The ConfigMap and its informer (client-go) *)

ChangeConfigMap ==
    /\ configMap # SystemRoots /\ rotations < MaxRotations
    /\ rotations' = rotations + 1
    /\ configMap' \in (Bundles \cup Invalid \cup {Missing}) \ {configMap}
    /\ UNCHANGED <<store, event, queued, worker, delegateVars, builtVars, cancelled, calls>>

Observe ==
    /\ store # configMap
    /\ store' = configMap /\ event' = TRUE
    /\ UNCHANGED <<configMap, rotations, queued, worker, delegateVars, builtVars, cancelled, calls>>

Enqueue ==
    /\ event
    /\ event' = FALSE /\ queued' = TRUE
    /\ UNCHANGED <<configMap, rotations, store, worker, delegateVars, builtVars, cancelled, calls>>

\* Every object in the cache is queued again.
Resync ==
    /\ ~event /\ store \notin {Missing, SystemRoots}
    /\ event' = TRUE
    /\ UNCHANGED <<configMap, rotations, store, queued, worker, delegateVars, builtVars, cancelled, calls>>
------------------------------------------------------------------------------
(* The worker: reconcile, reconcileCABundle, markUnavailable *)

\* replaceDelegate's critical section; it cancels the old delegate afterwards.
Swap(d, err) ==
    /\ delegate' = d /\ initErr' = err
    /\ displaced' = delegate

\* The worker's next item, or the initial reconciliation.
TakeKey ==
    \/ worker = "start" /\ UNCHANGED queued
    \/ worker = "idle" /\ queued /\ queued' = FALSE

\* Faulty variant: the old delegate stays until its replacement is ready.
BeginReconcileKeepsOld ==
    /\ TakeKey
    /\ observed' = store
    /\ worker' = IF store = observed THEN "idle" ELSE "cancel"
    /\ UNCHANGED <<configMap, rotations, store, event, delegate, initErr, displaced, fresh, builtVars,
                   cancelled, calls>>

\* Faulty variant: an unavailable configuration is not recorded as observed.
BeginReconcileForgetsKey ==
    /\ TakeKey
    /\ \/ /\ store = observed
          /\ worker' = "idle" /\ UNCHANGED <<observed, delegate, initErr, displaced>>
       \/ /\ store # observed /\ store \in Usable
          /\ worker' = "cancel" /\ observed' = store /\ Swap(0, TRUE)
       \/ /\ store # observed /\ store \notin Usable
          /\ worker' = "idle" /\ UNCHANGED observed /\ Swap(0, TRUE)
    /\ UNCHANGED <<configMap, rotations, store, event, fresh, builtVars, cancelled, calls>>

\* The cache is read; a configuration seen before is a no-op, any other one is
\* recorded and disables the delegate.
BeginReconcile ==
    /\ TakeKey
    /\ \/ /\ store = observed
          /\ worker' = "idle" /\ UNCHANGED <<observed, delegate, initErr, displaced>>
       \/ /\ store # observed
          /\ worker' = "cancel" /\ observed' = store /\ Swap(0, TRUE)
    /\ UNCHANGED <<configMap, rotations, store, event, fresh, builtVars, cancelled, calls>>

\* Faulty variant: the displaced delegate is dropped without being cancelled.
CancelOldSkipped ==
    /\ worker = "cancel"
    /\ displaced' = 0
    /\ worker' = IF observed \in Usable THEN "build" ELSE "idle"
    /\ UNCHANGED <<configVars, observed, delegate, initErr, fresh, builtVars, cancelled, calls>>

CancelOld ==
    /\ worker = "cancel"
    /\ cancelled' = cancelled \cup ({displaced} \ {0}) /\ displaced' = 0
    /\ worker' = IF observed \in Usable THEN "build" ELSE "idle"
    /\ UNCHANGED <<configVars, observed, delegate, initErr, fresh, builtVars, calls>>

\* buildDelegate: a bundle that does not parse leaves the delegate nil.
Build ==
    /\ worker = "build"
    /\ \/ /\ observed \in Unparsable
          /\ worker' = "idle" /\ Swap(0, TRUE)
          /\ UNCHANGED <<fresh, builtVars>>
       \/ /\ observed \notin Unparsable
          /\ worker' = "publish"
          /\ fresh' = Made + 1
          /\ bundleOf' = Append(bundleOf, observed)
          /\ health' = Append(health, "starting")
          /\ UNCHANGED <<delegate, initErr, displaced>>
    /\ UNCHANGED <<configVars, observed, cancelled, calls>>

\* No delegate is displaced here, so there is none to cancel.
Publish ==
    /\ worker = "publish"
    /\ Swap(fresh, FALSE) /\ fresh' = 0 /\ worker' = "idle"
    /\ UNCHANGED <<configVars, observed, builtVars, cancelled, calls>>

Worker == BeginReconcile \/ CancelOld \/ Build \/ Publish
------------------------------------------------------------------------------
(* The delegates' discovery goroutines (k8s.io/apiserver) *)

Discover(d) ==
    /\ \/ /\ health[d] = "starting" /\ d \notin cancelled /\ bundleOf[d] \in Trusted
          /\ health' = [health EXCEPT ![d] = "verifier"]
       \/ /\ health[d] = "verifier"
          /\ health' = [health EXCEPT ![d] = "healthy"]
    /\ UNCHANGED <<configVars, worker, delegateVars, bundleOf, cancelled, calls>>
------------------------------------------------------------------------------
(* AuthenticateToken *)

\* The error the delegate's AuthenticateToken may return for a token: a verifier
\* may fail to fetch the issuer's keys, its context being cancelled or not.
DelegateErrors(d, token) ==
    IF token = "foreign" THEN {"none"}
    ELSE IF health[d] = "starting" THEN {"uninitialised"}
    ELSE IF token = "good" THEN {"none", "keys"}
    ELSE {"signature", "keys"}

Outcome(token, cause, unhealthy) ==
    IF cause = "none" THEN (IF token = "good" THEN "accepted" ELSE "passed on")
    ELSE IF unhealthy THEN "unavailable"
    ELSE "rejected"

\* Delegate and error are read together; without a delegate the error is the
\* answer, and no error would pass the token on as not being OIDC's.
Snapshot(q, token) ==
    /\ calls[q].pc = "idle"
    /\ calls' = [calls EXCEPT ![q] =
                 IF delegate # 0 THEN [pc |-> "health", token |-> token, seen |-> delegate]
                 ELSE IdleCall(IF initErr THEN "unavailable" ELSE "passed on", token, "none")]
    /\ UNCHANGED <<configVars, worker, delegateVars, builtVars, cancelled>>

HealthCheck(q) ==
    /\ calls[q].pc = "health"
    /\ calls' = [calls EXCEPT ![q] = [pc |-> "verify", token |-> calls[q].token, seen |-> calls[q].seen,
                                      unhealthy |-> health[calls[q].seen] # "healthy"]]
    /\ UNCHANGED <<configVars, worker, delegateVars, builtVars, cancelled>>

Verify(q) ==
    /\ calls[q].pc = "verify"
    /\ \E cause \in DelegateErrors(calls[q].seen, calls[q].token) :
          calls' = [calls EXCEPT ![q] = IdleCall(Outcome(calls[q].token, cause, calls[q].unhealthy), calls[q].token, cause)]
    /\ UNCHANGED <<configVars, worker, delegateVars, builtVars, cancelled>>

\* Faulty variant: the token is verified first and health looked at afterwards.
AuthenticateTokenHealthLast(q) ==
    \/ \E token \in Tokens : Snapshot(q, token)
    \/ /\ calls[q].pc = "health"
       /\ calls' = [calls EXCEPT ![q] = [pc |-> "verify", token |-> calls[q].token, seen |-> calls[q].seen,
                                         unhealthy |-> health[calls[q].seen] = "starting"]]
       /\ UNCHANGED <<configVars, worker, delegateVars, builtVars, cancelled>>
    \/ /\ calls[q].pc = "verify"
       /\ \E cause \in IF calls[q].unhealthy /\ calls[q].token # "foreign" THEN {"uninitialised"}
                       ELSE DelegateErrors(calls[q].seen, calls[q].token) :
             calls' = [calls EXCEPT ![q] =
                       IdleCall(Outcome(calls[q].token, cause, health[calls[q].seen] # "healthy"),
                                calls[q].token, cause)]
       /\ UNCHANGED <<configVars, worker, delegateVars, builtVars, cancelled>>

AuthenticateToken(q) == (\E token \in Tokens : Snapshot(q, token)) \/ HealthCheck(q) \/ Verify(q)
------------------------------------------------------------------------------
OIDCNext ==
    \/ ChangeConfigMap \/ Observe \/ Enqueue \/ Resync
    \/ Worker
    \/ \E d \in 1..Made : Discover(d)
    \/ \E q \in Requests : AuthenticateToken(q)

\* The informer follows the API server and the worker runs; changes of the
\* ConfigMap, resyncs, discovery and requests owe nothing.
OIDCFairness == WF_oidcVars(Observe) /\ WF_oidcVars(Enqueue) /\ WF_oidcVars(Worker)

OIDCSafetySpec == OIDCInit /\ [][OIDCNext]_oidcVars
OIDCSpec == OIDCSafetySpec /\ OIDCFairness
------------------------------------------------------------------------------
(* Properties *)

IdleCalls == [pc : {"idle"}, outcome : {"none", "unavailable", "passed on", "accepted", "rejected"},
            token : Tokens, cause : {"none", "uninitialised", "keys", "signature"}]
Checking(n) == [pc : {"health"}, token : Tokens, seen : 1..n]
Verifying(n) == [pc : {"verify"}, token : Tokens, seen : 1..n, unhealthy : BOOLEAN]

\* Types of the authenticator's fields and of its callers' progress: a request only
\* ever works with a delegate that was built.
TypeOK ==
    /\ configMap \in Usable \cup Invalid \cup {Missing} /\ store \in Usable \cup Invalid \cup {Missing}
    /\ event \in BOOLEAN /\ queued \in BOOLEAN /\ initErr \in BOOLEAN
    /\ worker \in {"start", "idle", "cancel", "build", "publish"}
    /\ observed \in Usable \cup Invalid \cup {Missing, Unset}
    /\ rotations \in 0..MaxRotations
    /\ bundleOf \in Seq(Usable)
    /\ health \in Seq({"starting", "verifier", "healthy"}) /\ Len(health) = Made
    /\ delegate \in 0..Made /\ displaced \in 0..Made /\ fresh \in 0..Made
    /\ cancelled \subseteq 1..Made
    /\ calls \in [Requests -> IdleCalls \cup Checking(Made) \cup Verifying(Made)]

\* The delegate new requests find was built for the configuration observed last
\* and is not cancelled: replacing it fails closed, with no window in which an
\* old CA is still in use or a stopped delegate answers.
PublishedIsCurrent == delegate # 0 => bundleOf[delegate] = observed /\ delegate \notin cancelled

\* However often the ConfigMap changes, there is never more than one delegate
\* whose context, goroutine and connections are alive.
AtMostOneLive == \A d, e \in (1..Made) \ cancelled : d = e

\* What is not an error is definitive.  A token is passed on to the next provider
\* only when it is not this issuer's: a missing delegate always comes with an error.
\* And "initialization completing during authentication cannot turn a transient
\* startup failure into a definitive token rejection".
AnswersAreDefinitive ==
    \A q \in Requests : calls[q].pc = "idle" =>
        /\ calls[q].outcome = "passed on" => calls[q].token = "foreign"
        /\ calls[q].outcome = "rejected" => calls[q].cause # "uninitialised"

\* Once the ConfigMap has stopped changing, the authenticator ends up with a delegate
\* for it if it can have one, and with none otherwise; a bundle that comes back
\* after having been replaced or deleted counts.
FollowsConfigMap ==
    <>[](/\ observed = configMap
         /\ delegate # 0 <=> configMap \in Usable \ Unparsable
         /\ delegate # 0 => bundleOf[delegate] = configMap)

\* AuthenticateToken: "reporting provider health failures as infrastructure
\* errors and token failures as ErrTokenNotAuthenticated": a token the issuer
\* would vouch for is never a token failure.
GoodTokenNeverRejected ==
    \A q \in Requests : calls[q].pc = "idle" /\ calls[q].token = "good" => calls[q].outcome # "rejected"
==============================================================================
