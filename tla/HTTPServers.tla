----------------------------- MODULE HTTPServers -----------------------------
(***************************************************************************)
(* RunHTTPServers: the public proxy server and the health probe server of  *)
(* the user-server and of the service-proxy, and their planned shutdown.   *)
(*                                                                         *)
(* Time is counted in ticks from the start of the drain (elapsed); before  *)
(* that, time plays no part.  A timer that is due fires before time moves  *)
(* on.  The endpoint of the pod is kept by the platform: a readiness probe *)
(* puts it in service or takes it out, at the latest DeprogramDelay ticks  *)
(* after the drain began.  Requests counted are those managed by net/http; *)
(* hijacked connections are not, neither here nor in Shutdown.             *)
(***************************************************************************)
EXTENDS Naturals

CONSTANTS Timeout,          \* DrainConfig.Timeout
          DeprogramDelay,   \* ticks until the endpoint is surely out of service
          MaxRequests       \* bound: concurrent requests

ASSUME DrainAssumption ==
    Timeout \in Nat /\ DeprogramDelay \in Nat /\ MaxRequests \in Nat

VARIABLES minDuration,\* DrainConfig.MinDuration
          phase,      \* "start", "serve", "min", "shutdown", "returned"
          ret,        \* what RunHTTPServers returned: "none", "nil", "error"
          ctxDone,    \* ctx is done
          ready,      \* HealthProbeServer.ready
          public,     \* the public listener: "off", "open", "failed", "closed"
          health,     \* the health listener: "off", "open", "failed"
          results,    \* results waiting in serverResults (buffered, two at most)
          elapsed,    \* ticks since the drain began
          deadline,   \* when drainCtx expires
          inflight,   \* requests being served
          routed,     \* the platform sends clients to this pod
          refusals    \* states of the public listener in which a routed client met no listener

vars == <<minDuration, phase, ret, ctxDone, ready, public, health, results, elapsed, deadline,
          inflight, routed, refusals>>

\* Init admits what DrainConfig.Validate does.
Init ==
    /\ minDuration \in 0..Timeout
    /\ phase = "start" /\ ret = "none"
    /\ ctxDone \in BOOLEAN
    /\ ready = TRUE
    /\ public = "off" /\ health = "off" /\ results = 0
    /\ elapsed = 0 /\ deadline = 0
    /\ inflight = 0 /\ routed = FALSE /\ refusals = {}

Return(r) == phase' = "returned" /\ ret' = r
------------------------------------------------------------------------------
(* RunHTTPServers and runHTTPServers *)

\* A context that is already done: nothing is served.
Start ==
    /\ phase = "start"
    /\ \/ ctxDone /\ Return("nil") /\ ready' = FALSE
       \/ ~ctxDone /\ phase' = "serve" /\ UNCHANGED <<ret, ready>>
    /\ UNCHANGED <<minDuration, ctxDone, public, health, results, elapsed, deadline, inflight, routed, refusals>>

ReceiveResult(phases, r) ==
    /\ phase \in phases
    /\ results > 0
    /\ results' = results - 1
    /\ Return(r)
    /\ UNCHANGED <<minDuration, ctxDone, ready, public, health, elapsed, deadline, inflight, routed, refusals>>

\* Faulty variant: results are looked at during the drain only.
ServerStoppedLate == ReceiveResult({"min"}, "error")

\* A result in the channel ends the first select, or the wait for MinDuration.
ServerStopped == ReceiveResult({"serve", "min"}, "error")

\* Shutdown closes the listener, so that Serve returns into the channel.
BeginShutdown ==
    /\ phase' = "shutdown"
    /\ public' = IF public = "open" THEN "closed" ELSE public
    /\ results' = IF public = "open" THEN results + 1 ELSE results

\* The drain clock starts; Shutdown waits for MinDuration, if there is one.
EnterDrain ==
    /\ phase = "serve"
    /\ deadline' = Timeout
    /\ \/ minDuration > 0 /\ phase' = "min" /\ UNCHANGED <<public, results>>
       \/ minDuration = 0 /\ BeginShutdown
    /\ UNCHANGED <<minDuration, ret, ctxDone, health, elapsed, inflight, routed, refusals>>

\* Faulty variant: readiness is not withdrawn.
StartDrainStaysReady == ctxDone /\ EnterDrain /\ UNCHANGED ready

\* Faulty variant: a server result falls through the select into the drain.
StartDrainOnResult == (ctxDone \/ results > 0) /\ EnterDrain /\ ready' = FALSE

\* ctx.Done: leave readiness and start the drain.
StartDrain == ctxDone /\ EnterDrain /\ ready' = FALSE

\* Faulty variant: the timeout starts after MinDuration instead of with it.
MinDurationOverRestartsClock ==
    /\ phase = "min"
    /\ elapsed >= minDuration
    /\ deadline' = elapsed + Timeout
    /\ BeginShutdown
    /\ UNCHANGED <<minDuration, ret, ctxDone, ready, health, elapsed, inflight, routed, refusals>>

\* The timer fires: Shutdown begins.
MinDurationOver ==
    /\ phase = "min"
    /\ elapsed >= minDuration
    /\ BeginShutdown
    /\ UNCHANGED <<minDuration, ret, ctxDone, ready, health, elapsed, deadline, inflight, routed, refusals>>

FinishShutdown(r) ==
    /\ phase = "shutdown"
    /\ Return(r)
    /\ UNCHANGED <<minDuration, ctxDone, ready, public, health, results, elapsed, deadline, inflight, routed, refusals>>

\* Faulty variant: Close in place of Shutdown does not wait for requests.
ShutdownReturnsAtOnce == FinishShutdown("nil")

\* Faulty variant: Shutdown without a deadline.
ShutdownReturnsIdleOnly == inflight = 0 /\ FinishShutdown("nil")

\* Shutdown returns when no request is left (with the error of closing the
\* listener, if any), or when drainCtx expires.
ShutdownReturns ==
    \/ inflight = 0 /\ \E r \in {"nil", "error"} : FinishShutdown(r)
    \/ elapsed >= deadline /\ FinishShutdown("nil")
------------------------------------------------------------------------------
(* The serving goroutines, requests, and the environment *)

Cancel ==
    /\ ~ctxDone
    /\ ctxDone' = TRUE
    /\ UNCHANGED <<minDuration, phase, ret, ready, public, health, results, elapsed, deadline, inflight, routed, refusals>>

Live == phase \in {"serve", "min", "shutdown"}

\* ListenAndServeTLS of the public server listens, or stops with an error.
ServePublic ==
    /\ Live
    /\ \/ public = "off" /\ phase # "shutdown" /\ public' = "open" /\ UNCHANGED results
       \/ public \in {"off", "open"} /\ public' = "failed" /\ results' = results + 1
    /\ UNCHANGED <<minDuration, phase, ret, ctxDone, ready, health, elapsed, deadline, inflight, routed, refusals>>

ServeHealth ==
    /\ Live
    /\ \/ health = "off" /\ health' = "open" /\ UNCHANGED results
       \/ health \in {"off", "open"} /\ health' = "failed" /\ results' = results + 1
    /\ UNCHANGED <<minDuration, phase, ret, ctxDone, ready, public, elapsed, deadline, inflight, routed, refusals>>

\* A client of the pod's endpoint connects: it is served, or meets no listener.
Connect ==
    /\ Live /\ routed
    /\ \/ /\ public = "open" /\ inflight < MaxRequests
          /\ inflight' = inflight + 1
          /\ UNCHANGED refusals
       \/ /\ public # "open"
          /\ refusals' = refusals \cup {public}
          /\ UNCHANGED inflight
    /\ UNCHANGED <<minDuration, phase, ret, ctxDone, ready, public, health, results, elapsed, deadline, routed>>

Respond ==
    /\ Live /\ inflight > 0
    /\ inflight' = inflight - 1
    /\ UNCHANGED <<minDuration, phase, ret, ctxDone, ready, public, health, results, elapsed, deadline, routed, refusals>>

\* /readyz, as the platform's probe sees it.
Readyz == health = "open" /\ ready

Probe ==
    /\ Live
    /\ routed # Readyz
    /\ routed' = Readyz
    /\ UNCHANGED <<minDuration, phase, ret, ctxDone, ready, public, health, results, elapsed, deadline, inflight, refusals>>

Tick ==
    /\ phase \in {"min", "shutdown"}
    /\ ~(phase = "min" /\ elapsed >= minDuration)
    /\ ~(phase = "shutdown" /\ elapsed >= deadline)
    /\ ~(routed /\ ~Readyz /\ elapsed >= DeprogramDelay)
    /\ elapsed' = elapsed + 1
    /\ UNCHANGED <<minDuration, phase, ret, ctxDone, ready, public, health, results, deadline, inflight, routed, refusals>>
------------------------------------------------------------------------------
RunStep == Start \/ ServerStopped \/ StartDrain \/ MinDurationOver \/ ShutdownReturns

Next == RunStep \/ Cancel \/ ServePublic \/ ServeHealth \/ Connect \/ Respond \/ Probe \/ Tick

\* The goroutine of Run is scheduled and time passes; the probe comes in time.
\* Listeners, clients, requests and cancellation owe nothing.
Fairness == WF_vars(RunStep) /\ WF_vars(Tick) /\ WF_vars(Probe)

SafetySpec == Init /\ [][Next]_vars
Spec == SafetySpec /\ Fairness
------------------------------------------------------------------------------
(* Properties *)

\* Types of RunHTTPServers' state; serverResults never holds more than its buffer.
TypeOK ==
    /\ minDuration \in 0..Timeout
    /\ phase \in {"start", "serve", "min", "shutdown", "returned"}
    /\ ret \in {"none", "nil", "error"}
    /\ ctxDone \in BOOLEAN /\ ready \in BOOLEAN /\ routed \in BOOLEAN
    /\ public \in {"off", "open", "failed", "closed"}
    /\ health \in {"off", "open", "failed"}
    /\ results \in 0..2
    /\ elapsed \in Nat /\ deadline \in Nat /\ inflight \in Nat
    /\ refusals \subseteq {"off", "failed", "closed"}

\* Leaving readiness first and closing the listener MinDuration later turns no
\* client away, as long as the endpoint is out of service before MinDuration.
PlannedStopRefusesNobody == DeprogramDelay < minDuration => "closed" \notin refusals

\* "MinDuration is part of, rather than additional to, Timeout": from the start
\* of the drain, RunHTTPServers takes at most Timeout.
DrainWithinTimeout == elapsed <= Timeout

\* A nil return is a planned stop that withdrew readiness and left requests behind
\* only at the deadline of the drain: a server that fails by itself is never
\* reported as success, whichever case select picks.
NilMeansCleanStop == ret = "nil" => ctxDone /\ ~ready /\ (inflight > 0 => elapsed = Timeout)

\* The phase of RunHTTPServers as its caller sees it.
PhaseOf ==
    IF phase \in {"start", "serve"} THEN "serving"
    ELSE IF phase = "min" THEN "draining"
    ELSE IF phase = "shutdown" THEN "shutdown"
    ELSE "closing"
Lifecycle == INSTANCE ServerLifecycle WITH phase <- PhaseOf, cancelled <- ctxDone

\* RunHTTPServers goes through the phases its caller relies on: only a cancelled
\* context makes it withdraw from readiness or shut down, and a listener once
\* closed never serves again.
ImplementsLifecycle == Lifecycle!Spec

\* A cancelled RunHTTPServers returns, however long its requests last.
StopsWhenCancelled == ctxDone ~> phase = "returned"

\* A listener that fails ends RunHTTPServers, so that the process restarts.
FailureStops == (public = "failed" \/ health = "failed") ~> phase = "returned"
==============================================================================
