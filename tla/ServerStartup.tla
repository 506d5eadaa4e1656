--------------------------- MODULE ServerStartup ---------------------------
(***************************************************************************)
(* The service-proxy and the user-server as containers: what Run reads and *)
(* in which order, the config checkers behind /healthz, the TLS ConfigMap  *)
(* watcher that cancels runCtx, RunHTTPServers (seen as ServerLifecycle),  *)
(* and a kubelet that probes, kills and restarts.                          *)
(*                                                                         *)
(* A file's content is the number of the change that wrote it, 0 when the  *)
(* file is not there; a certificate and its key are one file.  A config    *)
(* checker compares the files with the content it saw when it was made; it *)
(* never updates it.  What is hard is that Run reads a file twice, once to *)
(* use it and once for the checker, while the kubelet may write it.        *)
(***************************************************************************)
EXTENDS Naturals, Sequences

CONSTANTS FailureThreshold,  \* failed probes that make the kubelet kill
          MaxChanges,        \* bound: changes of files and of the ConfigMap
          MaxCrashes         \* bound: failures and crashes of the process

ASSUME BoundsAssumption ==
    FailureThreshold \in Nat \ {0} /\ MaxChanges \in Nat /\ MaxCrashes \in Nat

VARIABLES program,   \* the process: "service-proxy" or "user-server"
          mounted,   \* mounted[f]: content of file f
          tlsMap,    \* content of the TLS profile ConfigMap
          phase,     \* "down", "starting", or a phase of ServerLifecycle
          cancelled, \* runCtx is done
          step,      \* position in Run while starting
          loaded,    \* loaded[f]: content in use, 0 for none
          sum,       \* sum[f]: content a checker was made from, 0 for none
          tls,       \* TLS settings in use
          fails,     \* consecutive failed liveness probes
          changes, crashes

vars == <<program, mounted, tlsMap, phase, cancelled, step, loaded, sum, tls, fails, changes, crashes>>
process == <<step, loaded, sum, tls, fails>>
environment == <<program, mounted, tlsMap, changes, crashes>>

Life == INSTANCE ServerLifecycle

Optional == {"additionalCA"}
Files == {"serverCert", "rootCA", "hubKubeconfig", "proxyCert", "serviceProxyCA"} \cup Optional
TLSContents == {"default", "strict", "broken"}
Unset == "unset"

NewConfigChecker(files) == [op |-> "check", files |-> files]
Load(files) == [op |-> "load", files |-> files]
CheckIfLoaded(files) == [op |-> "checkIfLoaded", files |-> files]
StartWatchers == [op |-> "wait", files |-> {}]
StartTLSConfigMapWatcher == [op |-> "watchTLS", files |-> {}]

\* Faulty variant: the checker is made next to the health server that uses it.
ServiceProxyRunChecksLast ==
    <<Load({"rootCA"}),
      Load({"additionalCA"}),
      CheckIfLoaded({"additionalCA"}),
      Load({"hubKubeconfig"}),
      StartTLSConfigMapWatcher,
      NewConfigChecker({"serverCert", "rootCA", "hubKubeconfig"}),
      Load({"serverCert"})>>

\* serviceProxy.Run: the files are checked first; the additional CA, which may
\* be missing, is read by loadRootCAs and checked only after that.
ServiceProxyRun ==
    <<NewConfigChecker({"serverCert", "rootCA", "hubKubeconfig"}),
      Load({"rootCA"}),
      Load({"additionalCA"}),
      CheckIfLoaded({"additionalCA"}),
      Load({"hubKubeconfig"}),
      StartTLSConfigMapWatcher,
      Load({"serverCert"})>>

\* userServer.Run: init reads its files and waits for two informers; the checker
\* comes after that, and only the server certificate is read later still.
UserServerRun ==
    <<Load({"proxyCert"}),
      Load({"serviceProxyCA"}),
      StartWatchers,
      StartTLSConfigMapWatcher,
      NewConfigChecker({"proxyCert", "serviceProxyCA", "serverCert"}),
      Load({"serverCert"})>>

Run == IF program = "service-proxy" THEN ServiceProxyRun ELSE UserServerRun
-----------------------------------------------------------------------------
Nothing == [f \in Files |-> 0]

Init ==
    /\ program \in {"service-proxy", "user-server"}
    /\ mounted = [f \in Files |-> IF f \in Optional THEN 0 ELSE 1]
    /\ tlsMap \in {"default", "strict"}
    /\ phase = "down" /\ cancelled = FALSE
    /\ step = 1 /\ loaded = Nothing /\ sum = Nothing /\ tls = Unset
    /\ fails = 0 /\ changes = 0 /\ crashes = 0

(* The environment *)

\* The kubelet writes a new version of a mounted file; an optional one may come
\* and go.
ChangeFile(f) ==
    /\ changes < MaxChanges
    /\ changes' = changes + 1
    /\ \E content \in {changes + 2} \cup (IF f \in Optional THEN {0} ELSE {}) :
           mounted' = [mounted EXCEPT ![f] = content]
    /\ UNCHANGED <<program, tlsMap, phase, cancelled, process, crashes>>

ChangeTLSMap(content) ==
    /\ changes < MaxChanges /\ content # tlsMap
    /\ changes' = changes + 1
    /\ tlsMap' = content
    /\ UNCHANGED <<program, mounted, phase, cancelled, process, crashes>>
-----------------------------------------------------------------------------
(* The start of the process *)

Start ==
    /\ phase = "down"
    /\ phase' = "starting" /\ cancelled' = FALSE
    /\ step' = 1 /\ loaded' = Nothing /\ sum' = Nothing /\ tls' = Unset /\ fails' = 0
    /\ UNCHANGED environment

\* The step at hand is done; after the last one the servers run.
Advance ==
    /\ phase' = IF step = Len(Run) THEN "serving" ELSE "starting"
    /\ step' = IF step = Len(Run) THEN step ELSE step + 1
    /\ UNCHANGED <<cancelled, fails, environment>>

Doing(op) == phase = "starting" /\ Run[step].op = op
Present(files) == \A f \in files \ Optional : mounted[f] # 0
Reading(files, known) == [f \in Files |-> IF f \in files THEN mounted[f] ELSE known[f]]

CheckFiles ==
    /\ Doing("check") /\ Present(Run[step].files)
    /\ sum' = Reading(Run[step].files, sum)
    /\ Advance
    /\ UNCHANGED <<loaded, tls>>

LoadFiles ==
    /\ Doing("load") /\ Present(Run[step].files)
    /\ loaded' = Reading(Run[step].files, loaded)
    /\ Advance
    /\ UNCHANGED <<sum, tls>>

\* A second checker, if the files were there when they were loaded; it cannot be
\* made if they are gone since.
CheckLoadedFiles ==
    /\ Doing("checkIfLoaded")
    /\ LET files == {f \in Run[step].files : loaded[f] # 0} IN
       /\ \A f \in files : mounted[f] # 0
       /\ sum' = Reading(files, sum)
    /\ Advance
    /\ UNCHANGED <<loaded, tls>>

WaitForWatchers ==
    /\ Doing("wait")
    /\ Advance
    /\ UNCHANGED <<loaded, sum, tls>>

\* Settings and the hash they are compared by come from one copy of the
\* ConfigMap; one that does not parse fails.
WatchTLS ==
    /\ Doing("watchTLS") /\ tlsMap # "broken"
    /\ tls' = tlsMap
    /\ Advance
    /\ UNCHANGED <<loaded, sum>>

\* A step that cannot be done ends Run with an error.
StartFails ==
    /\ \/ Doing("checkIfLoaded") /\ \E f \in Run[step].files : loaded[f] # 0 /\ mounted[f] = 0
       \/ Doing("watchTLS") /\ tlsMap = "broken"
       \/ phase = "starting" /\ cancelled
    /\ phase' = "down"
    /\ UNCHANGED <<cancelled, process, environment>>

StartSteps ==
    Start \/ CheckFiles \/ LoadFiles \/ CheckLoadedFiles \/ WaitForWatchers \/ WatchTLS \/ StartFails
-----------------------------------------------------------------------------
(* The running process *)

Up == phase \notin {"down", "starting"}

\* Faulty variant: the watcher's callback only logs.
TLSMapChangedLogs ==
    /\ tls \notin {Unset, tlsMap} /\ phase # "down" /\ ~cancelled
    /\ UNCHANGED vars

\* The watcher sees another content than the one in use: onChangeFn cancels.
TLSMapChanged ==
    /\ tls \notin {Unset, tlsMap} /\ phase # "down" /\ ~cancelled
    /\ cancelled' = TRUE
    /\ UNCHANGED <<phase, process, environment>>

Drain == Life!Drain /\ UNCHANGED <<process, environment>>

\* Run has returned: the deferred calls run and the process ends.
Exit ==
    /\ phase = "closing"
    /\ phase' = "down"
    /\ UNCHANGED <<cancelled, process, environment>>

\* Any other error while starting, a failing server, or a crash.
Crash ==
    /\ phase # "down" /\ crashes < MaxCrashes
    /\ crashes' = crashes + 1
    /\ phase' = "down"
    /\ UNCHANGED <<program, mounted, tlsMap, changes, cancelled, process>>
-----------------------------------------------------------------------------
(* The kubelet *)

Healthy == \A f \in Files : sum[f] # 0 => mounted[f] = sum[f]

\* GET /healthz, answered while the servers run.
Probe ==
    /\ phase \in {"serving", "draining", "shutdown"} /\ fails < FailureThreshold
    /\ fails' = IF Healthy THEN 0 ELSE fails + 1
    /\ UNCHANGED <<phase, cancelled, step, loaded, sum, tls, environment>>

\* Faulty variant: the process does not listen to the signal.
KillUnheard ==
    /\ Up /\ fails = FailureThreshold /\ ~cancelled
    /\ UNCHANGED vars

\* SIGTERM cancels the context Run was given.
Kill ==
    /\ Up /\ fails = FailureThreshold
    /\ Life!Cancel
    /\ UNCHANGED <<process, environment>>

Next ==
    \/ \E f \in UNION {Run[i].files : i \in DOMAIN Run} : ChangeFile(f)
    \/ \E content \in TLSContents : ChangeTLSMap(content)
    \/ StartSteps \/ TLSMapChanged \/ Drain \/ Exit \/ Crash \/ Probe \/ Kill

\* Fair: the process's own steps, the watcher, the kubelet, and a drain, which
\* ends at its deadline.  Not fair: changes and crashes.
Fairness ==
    /\ WF_vars(StartSteps) /\ WF_vars(TLSMapChanged) /\ WF_vars(Drain) /\ WF_vars(Exit)
    /\ WF_vars(Probe) /\ WF_vars(Kill)

SafetySpec == Init /\ [][Next]_vars
Spec == SafetySpec /\ Fairness
-----------------------------------------------------------------------------
(* Properties *)

\* The files that a checker sees before they are used.
Guarded ==
    IF program = "service-proxy" THEN {"serverCert", "rootCA", "hubKubeconfig"} ELSE {"serverCert"}

\* A server whose /healthz passes uses what is mounted: with the files hashed
\* before they are read, no rotation between the two reads, or between the
\* reads of two files, is lost.  This covers all files of the service-proxy but
\* the additional CA, and of the user-server only its server certificate.
HealthyMeansCurrent ==
    phase = "serving" /\ Healthy => \A f \in Guarded : loaded[f] = mounted[f]

\* Rotated files and a new TLS profile are in use in the end, through a restart
\* that the failing /healthz or the watcher brings about, unless the profile
\* stays broken.
RotationsTakeEffect ==
    <>[](tlsMap # "broken") =>
        <>[](phase = "serving" /\ tls = tlsMap /\ \A f \in Guarded : loaded[f] = mounted[f])

\* What a checker sees restarts the server, also for the files read before their
\* checker was made.
ChangesRestart ==
    \A f \in Files : (phase = "serving" /\ sum[f] # 0 /\ mounted[f] # sum[f]) ~> phase # "serving"
=============================================================================
