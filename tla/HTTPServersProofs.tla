-------------------------- MODULE HTTPServersProofs --------------------------
(***************************************************************************)
(* The drain of HTTPServers, for every Timeout, MinDuration and delay of   *)
(* the platform.                                                           *)
(***************************************************************************)
EXTENDS HTTPServers, TLAPS

\* Before the drain the clock stands still; during it readiness is off, the
\* clock is held to the timer that is due, and the platform has taken the
\* endpoint out of service once DeprogramDelay is over.
DrainInv ==
    /\ phase = "start" => inflight = 0
    /\ phase \in {"start", "serve"} => elapsed = 0 /\ ret = "none" /\ public # "closed"
    /\ phase = "min" => elapsed <= minDuration /\ public # "closed"
    /\ phase \in {"min", "shutdown"} =>
           /\ ctxDone /\ ~ready /\ ret = "none"
           /\ deadline = Timeout
           /\ routed => elapsed <= DeprogramDelay
    /\ phase = "shutdown" => elapsed >= minDuration
    /\ elapsed <= Timeout

\* Each serving goroutine sends one result: what the channel holds is bounded
\* by the servers that have stopped.
Stopped(s) == IF s \in {"failed", "closed"} THEN 1 ELSE 0
ResultsInv == results <= Stopped(public) + Stopped(health)

IInv ==
    /\ TypeOK
    /\ DrainInv
    /\ ResultsInv
    /\ PlannedStopRefusesNobody
    /\ NilMeansCleanStop

\* A step of HTTPServers keeps every variable in its type, the channel of
\* results within its buffer included.
LEMMA TypeStep == IInv /\ [Next]_vars => TypeOK' /\ ResultsInv'
<1> SUFFICES ASSUME IInv, [Next]_vars PROVE TypeOK' /\ ResultsInv'
  OBVIOUS
<1> USE DrainAssumption DEF TypeOK, ResultsInv, Stopped
<1>1. CASE Start
  BY <1>1 DEF Start, Return, IInv
<1>2. CASE ServerStopped
  BY <1>2 DEF ServerStopped, ReceiveResult, Return, IInv
<1>3. CASE StartDrain
  <2>1. CASE minDuration > 0 /\ phase' = "min" /\ UNCHANGED <<public, results>>
    BY <1>3, <2>1 DEF StartDrain, EnterDrain, IInv
  <2>2. CASE BeginShutdown
    <3>1. TypeOK'
      <4>1. ctxDone' \in BOOLEAN /\ ready' \in BOOLEAN /\ routed' \in BOOLEAN
        BY <1>3, <2>2 DEF StartDrain, EnterDrain, BeginShutdown, IInv
      <4>2. refusals' \subseteq {"off", "failed", "closed"}
        BY <1>3, <2>2 DEF StartDrain, EnterDrain, BeginShutdown, IInv
      <4>3. /\ phase' \in {"start", "serve", "min", "shutdown", "returned"}
            /\ ret' \in {"none", "nil", "error"}
            /\ public' \in {"off", "open", "failed", "closed"}
            /\ health' \in {"off", "open", "failed"}
        BY <1>3, <2>2 DEF StartDrain, EnterDrain, BeginShutdown, IInv
      <4>4. minDuration' \in 0..Timeout /\ results' \in 0..2 /\ elapsed' \in Nat /\ deadline' \in Nat /\ inflight' \in Nat
        BY <1>3, <2>2 DEF StartDrain, EnterDrain, BeginShutdown, IInv
      <4> QED
        BY <4>1, <4>2, <4>3, <4>4 DEF TypeOK
    <3>2. ResultsInv'
      BY <1>3, <2>2 DEF StartDrain, EnterDrain, BeginShutdown, IInv
    <3> QED
      BY <3>1, <3>2
  <2> QED
    BY <1>3, <2>1, <2>2 DEF StartDrain, EnterDrain
<1>4. CASE MinDurationOver
  BY <1>4 DEF MinDurationOver, BeginShutdown, IInv
<1>5. CASE ShutdownReturns
  BY <1>5 DEF ShutdownReturns, FinishShutdown, Return, IInv
<1>6. CASE Cancel
  BY <1>6 DEF Cancel, IInv
<1>7. CASE ServePublic
  BY <1>7 DEF ServePublic, IInv
<1>8. CASE ServeHealth
  BY <1>8 DEF ServeHealth, IInv
<1>9. CASE Connect
  <2>1. TypeOK'
    <3>1. ctxDone' \in BOOLEAN /\ ready' \in BOOLEAN /\ routed' \in BOOLEAN
      BY <1>9 DEF Connect, IInv
    <3>2. refusals' \subseteq {"off", "failed", "closed"}
      BY <1>9 DEF Connect, IInv
    <3>3. /\ phase' \in {"start", "serve", "min", "shutdown", "returned"}
          /\ ret' \in {"none", "nil", "error"}
          /\ public' \in {"off", "open", "failed", "closed"}
          /\ health' \in {"off", "open", "failed"}
      BY <1>9 DEF Connect, IInv
    <3>4. minDuration' \in 0..Timeout /\ results' \in 0..2 /\ elapsed' \in Nat /\ deadline' \in Nat /\ inflight' \in Nat
      BY <1>9 DEF Connect, IInv
    <3> QED
      BY <3>1, <3>2, <3>3, <3>4 DEF TypeOK
  <2>2. ResultsInv'
    BY <1>9 DEF Connect, IInv
  <2> QED
    BY <2>1, <2>2
<1>10. CASE Respond
  BY <1>10 DEF Respond, IInv
<1>11. CASE Probe
  BY <1>11 DEF Probe, Readyz, IInv
<1>12. CASE Tick
  BY <1>12 DEF Tick, IInv
<1>13. CASE UNCHANGED vars
  BY <1>13 DEF vars, IInv
<1> QED
  BY <1>1, <1>2, <1>3, <1>4, <1>5, <1>6, <1>7, <1>8, <1>9, <1>10, <1>11, <1>12, <1>13 DEF Next, RunStep

\* A step of HTTPServers keeps the drain on its clock and the promises made to
\* clients and to the caller.
LEMMA DrainStep ==
    IInv /\ [Next]_vars =>
        DrainInv' /\ PlannedStopRefusesNobody' /\ NilMeansCleanStop'
<1> SUFFICES ASSUME IInv, [Next]_vars
             PROVE  DrainInv' /\ PlannedStopRefusesNobody' /\ NilMeansCleanStop'
  OBVIOUS
<1> USE DrainAssumption DEF IInv, TypeOK, DrainInv, PlannedStopRefusesNobody, NilMeansCleanStop
<1>1. CASE Start
  <2>1. CASE ctxDone /\ Return("nil") /\ ready' = FALSE
    BY <1>1, <2>1 DEF Start, Return
  <2>2. CASE ~ctxDone /\ phase' = "serve" /\ UNCHANGED <<ret, ready>>
    BY <1>1, <2>2 DEF Start
  <2> QED
    BY <1>1, <2>1, <2>2 DEF Start
<1>2. CASE ServerStopped
  BY <1>2 DEF ServerStopped, ReceiveResult, Return
<1>3. CASE StartDrain
  BY <1>3 DEF StartDrain, EnterDrain, BeginShutdown
<1>4. CASE MinDurationOver
  BY <1>4 DEF MinDurationOver, BeginShutdown
<1>5. CASE ShutdownReturns
  BY <1>5 DEF ShutdownReturns, FinishShutdown, Return
<1>6. CASE Cancel
  BY <1>6 DEF Cancel
<1>7. CASE ServePublic
  BY <1>7 DEF ServePublic, Live
<1>8. CASE ServeHealth
  BY <1>8 DEF ServeHealth, Live
<1>9. CASE Connect
  BY <1>9 DEF Connect, Live
<1>10. CASE Respond
  BY <1>10 DEF Respond, Live
<1>11. CASE Probe
  BY <1>11 DEF Probe, Readyz, Live
<1>12. CASE Tick
  BY <1>12 DEF Tick, Readyz
<1>13. CASE UNCHANGED vars
  BY <1>13 DEF vars
<1> QED
  BY <1>1, <1>2, <1>3, <1>4, <1>5, <1>6, <1>7, <1>8, <1>9, <1>10, <1>11, <1>12, <1>13 DEF Next, RunStep

\* The inductive invariant of the two servers and their drain.
THEOREM DrainInvariant == SafetySpec => []IInv
<1>1. Init => IInv
  <2> SUFFICES ASSUME Init PROVE IInv
    OBVIOUS
  <2>1. TypeOK
    <3>1. ctxDone \in BOOLEAN /\ ready \in BOOLEAN /\ routed \in BOOLEAN
      BY DEF Init
    <3>2. refusals \subseteq {"off", "failed", "closed"}
      BY DEF Init
    <3>3. /\ phase \in {"start", "serve", "min", "shutdown", "returned"}
          /\ ret \in {"none", "nil", "error"}
          /\ public \in {"off", "open", "failed", "closed"}
          /\ health \in {"off", "open", "failed"}
      BY DEF Init
    <3>4. minDuration \in 0..Timeout /\ results \in 0..2 /\ elapsed \in Nat /\ deadline \in Nat /\ inflight \in Nat
      BY DEF Init
    <3> QED
      BY <3>1, <3>2, <3>3, <3>4 DEF TypeOK
  <2>2. DrainInv /\ ResultsInv
    BY DrainAssumption DEF Init, DrainInv, ResultsInv, Stopped
  <2>3. PlannedStopRefusesNobody /\ NilMeansCleanStop
    BY DEF Init, PlannedStopRefusesNobody, NilMeansCleanStop
  <2> QED
    BY <2>1, <2>2, <2>3 DEF IInv
<1>2. IInv /\ [Next]_vars => IInv'
  BY TypeStep, DrainStep DEF IInv
<1> QED
  BY <1>1, <1>2, PTL DEF SafetySpec

\* For every Timeout, MinDuration and DeprogramDelay: the drain takes at most
\* Timeout, ...
THEOREM DrainIsBounded == SafetySpec => []DrainWithinTimeout
<1>1. IInv => DrainWithinTimeout
  BY DEF IInv, DrainInv, DrainWithinTimeout
<1> QED
  BY <1>1, DrainInvariant, PTL

\* ... a pod whose endpoint is removed within MinDuration refuses no client, ...
THEOREM DrainRefusesNobody == SafetySpec => []PlannedStopRefusesNobody
BY DrainInvariant, PTL DEF IInv

\* ... and RunHTTPServers returns nil only for a stop that was asked for, which
\* left requests behind at the deadline only.
THEOREM NilReturnsAreClean == SafetySpec => []NilMeansCleanStop
BY DrainInvariant, PTL DEF IInv

\* Every step of RunHTTPServers is a step of the life cycle its caller relies
\* on, or none.
LEMMA LifecycleStep == IInv /\ [Next]_vars => [Lifecycle!Next]_(Lifecycle!vars)
<1> SUFFICES ASSUME IInv, [Next]_vars PROVE [Lifecycle!Next]_(Lifecycle!vars)
  OBVIOUS
<1> USE DEF Lifecycle!Next, Lifecycle!vars, PhaseOf
<1>1. CASE Start
  BY <1>1 DEF Start, Return, Lifecycle!Fail
<1>2. CASE ServerStopped
  BY <1>2 DEF ServerStopped, ReceiveResult, Return, Lifecycle!Fail
<1>3. CASE StartDrain
  BY <1>3 DEF StartDrain, EnterDrain, BeginShutdown, Lifecycle!Drain, Lifecycle!Withdraw, Lifecycle!Shutdown
<1>4. CASE MinDurationOver
  BY <1>4 DEF MinDurationOver, BeginShutdown, IInv, DrainInv, Lifecycle!Drain, Lifecycle!Shutdown
<1>5. CASE ShutdownReturns
  BY <1>5 DEF ShutdownReturns, FinishShutdown, Return, IInv, DrainInv, Lifecycle!Drain, Lifecycle!Return
<1>6. CASE Cancel
  BY <1>6 DEF Cancel, Lifecycle!Cancel
<1>7. CASE ServePublic \/ ServeHealth \/ Connect \/ Respond \/ Probe \/ Tick \/ UNCHANGED vars
  BY <1>7 DEF ServePublic, ServeHealth, Connect, Respond, Probe, Tick, vars
<1> QED
  BY <1>1, <1>2, <1>3, <1>4, <1>5, <1>6, <1>7 DEF Next, RunStep

\* HTTPServers implements ServerLifecycle, on which UserServer is built.
THEOREM ServersImplementLifecycle == SafetySpec => ImplementsLifecycle
<1>1. Init => Lifecycle!Init
  BY DEF Init, Lifecycle!Init, PhaseOf
<1> QED
  BY <1>1, LifecycleStep, DrainInvariant, PTL DEF SafetySpec, ImplementsLifecycle, Lifecycle!Spec
==============================================================================
