--------------------------- MODULE ContainerProofs ---------------------------
(***************************************************************************)
(* Proofs about the containers and their restarts, for any number of       *)
(* changes, crashes, failed probes and connections: a healthy server uses  *)
(* the mounted files (ServerStartup); the agent's pod runs the port-       *)
(* forward proxy as PortForward specifies, whatever crashes and restarts   *)
(* around it, so the proxy releases what it holds, and rotations are       *)
(* noticed (AgentPod).                                                     *)
(*                                                                         *)
(* A server's argument: versions of a file that is always there only grow; *)
(* a guarded file is hashed, then read, so sum <= loaded <= mounted, and   *)
(* sum = mounted leaves no room.                                           *)
(***************************************************************************)
EXTENDS ServerStartup, AgentPod, TLAPS
------------------------------------------------------------------------------
(* A server and its files *)

\* The steps of each Run, one by one.
LEMMA RunSteps ==
    /\ Len(ServiceProxyRun) = 7 /\ Len(UserServerRun) = 6
    /\ ServiceProxyRun[1] = NewConfigChecker({"serverCert", "rootCA", "hubKubeconfig"})
    /\ ServiceProxyRun[2] = Load({"rootCA"})
    /\ ServiceProxyRun[3] = Load({"additionalCA"})
    /\ ServiceProxyRun[4] = CheckIfLoaded({"additionalCA"})
    /\ ServiceProxyRun[5] = Load({"hubKubeconfig"})
    /\ ServiceProxyRun[6] = StartTLSConfigMapWatcher
    /\ ServiceProxyRun[7] = Load({"serverCert"})
    /\ UserServerRun[1] = Load({"proxyCert"})
    /\ UserServerRun[2] = Load({"serviceProxyCA"})
    /\ UserServerRun[3] = StartWatchers
    /\ UserServerRun[4] = StartTLSConfigMapWatcher
    /\ UserServerRun[5] = NewConfigChecker({"proxyCert", "serviceProxyCA", "serverCert"})
    /\ UserServerRun[6] = Load({"serverCert"})
BY DEF ServiceProxyRun, UserServerRun

\* When, in Run, a guarded file is hashed and when it is read.
CheckedAt == IF program = "service-proxy" THEN 1 ELSE 5
ReadAt(f) ==
    IF program = "service-proxy" THEN (IF f = "rootCA" THEN 2 ELSE IF f = "hubKubeconfig" THEN 5 ELSE 7) ELSE 6

\* What Run has done to the guarded files: none of it reads or hashes them at
\* any other step.
LEMMA GuardedSteps ==
    ASSUME program \in {"service-proxy", "user-server"}
    PROVE  /\ Len(Run) = IF program = "service-proxy" THEN 7 ELSE 6
           /\ Guarded \subseteq Files \ Optional
           /\ \A f \in Guarded : CheckedAt \in Nat /\ ReadAt(f) \in Nat /\ CheckedAt < ReadAt(f) /\ ReadAt(f) <= Len(Run)
           /\ \A f \in Guarded : \A i \in 1..Len(Run) :
                 /\ f \in Run[i].files <=> i \in {CheckedAt, ReadAt(f)}
                 /\ Run[i].op = "check" <=> i = CheckedAt
                 /\ i = ReadAt(f) => Run[i].op = "load"
<1>1. Len(Run) = IF program = "service-proxy" THEN 7 ELSE 6
  BY RunSteps DEF Run
<1>2. Guarded \subseteq Files \ Optional
  BY DEF Guarded, Files, Optional
<1>3. ASSUME program = "service-proxy", NEW f \in Guarded, NEW i \in 1..7
      PROVE  /\ f \in Run[i].files <=> i \in {CheckedAt, ReadAt(f)}
             /\ Run[i].op = "check" <=> i = CheckedAt
             /\ i = ReadAt(f) => Run[i].op = "load"
  <2>1. i = 1 \/ i = 2 \/ i = 3 \/ i = 4 \/ i = 5 \/ i = 6 \/ i = 7
    BY <1>3
  <2> QED
    BY <1>3, <2>1, RunSteps
    DEF CheckedAt, ReadAt, Guarded, Run, NewConfigChecker, Load, CheckIfLoaded, StartWatchers, StartTLSConfigMapWatcher
<1>4. ASSUME program = "user-server", NEW f \in Guarded, NEW i \in 1..6
      PROVE  /\ f \in Run[i].files <=> i \in {CheckedAt, ReadAt(f)}
             /\ Run[i].op = "check" <=> i = CheckedAt
             /\ i = ReadAt(f) => Run[i].op = "load"
  <2>1. i = 1 \/ i = 2 \/ i = 3 \/ i = 4 \/ i = 5 \/ i = 6
    BY <1>4
  <2> QED
    BY <1>4, <2>1, RunSteps
    DEF CheckedAt, ReadAt, Guarded, Run, NewConfigChecker, Load, CheckIfLoaded, StartWatchers, StartTLSConfigMapWatcher
<1>5. \A f \in Guarded : CheckedAt \in Nat /\ ReadAt(f) \in Nat /\ CheckedAt < ReadAt(f) /\ ReadAt(f) <= Len(Run)
  <2> SUFFICES ASSUME NEW f \in Guarded
               PROVE  CheckedAt \in Nat /\ ReadAt(f) \in Nat /\ CheckedAt < ReadAt(f) /\ ReadAt(f) <= Len(Run)
    OBVIOUS
  <2>1. CASE program = "service-proxy"
    <3>1. Len(Run) = 7 /\ CheckedAt = 1 /\ ReadAt(f) \in {2, 5, 7}
      BY <1>1, <2>1 DEF CheckedAt, ReadAt
    <3> QED
      BY <3>1
  <2>2. CASE program = "user-server"
    <3>1. Len(Run) = 6 /\ CheckedAt = 5 /\ ReadAt(f) = 6
      BY <1>1, <2>2 DEF CheckedAt, ReadAt
    <3> QED
      BY <3>1
  <2> QED
    BY <2>1, <2>2
<1> QED
  BY <1>1, <1>2, <1>3, <1>4, <1>5
-----------------------------------------------------------------------------
\* Run is past its i-th step.
Passed(i) == Up \/ (phase = "starting" /\ step > i)

Types ==
    /\ program \in {"service-proxy", "user-server"} /\ changes \in Nat
    /\ mounted \in [Files -> Nat] /\ loaded \in [Files -> Nat] /\ sum \in [Files -> Nat]
    /\ phase = "starting" => step \in 1..Len(Run)
    /\ \A f \in Files \ Optional : mounted[f] \in 1..(changes + 1)

\* The order of the versions hashed, read and mounted.
Ordered(f) ==
    /\ Passed(CheckedAt) => sum[f] \in 1..mounted[f]
    /\ Passed(ReadAt(f)) => loaded[f] \in sum[f]..mounted[f]

SInv == Types /\ \A f \in Guarded : Ordered(f)

\* A step of Run passes that step and no other.
LEMMA AdvancePasses ==
    ASSUME Types, phase = "starting", Advance
    PROVE  /\ \A i \in 1..Len(Run) : Passed(i)' => Passed(i) \/ i = step
           /\ program' = program /\ changes' = changes /\ mounted' = mounted
           /\ phase' = "starting" => step' \in 1..Len(Run)
<1>1. Len(Run) \in Nat
  BY GuardedSteps DEF Types
<1> QED
  BY <1>1 DEF Types, Advance, Passed, Up, environment

\* A step of Run that leaves the file alone.
LEMMA OthersOrdered ==
    ASSUME SInv, phase = "starting", Advance, NEW f \in Guarded,
           sum'[f] = sum[f], loaded'[f] = loaded[f], step \notin {CheckedAt, ReadAt(f)}
    PROVE  Ordered(f)'
<1>1. CheckedAt \in 1..Len(Run) /\ ReadAt(f) \in 1..Len(Run)
  <2>1. Len(Run) \in Nat /\ CheckedAt \in Nat \ {0}
    BY GuardedSteps DEF SInv, Types, CheckedAt
  <2> QED
    BY <2>1, GuardedSteps DEF SInv, Types
<1>2. CheckedAt' = CheckedAt /\ ReadAt(f)' = ReadAt(f) /\ mounted' = mounted
  BY AdvancePasses DEF SInv, CheckedAt, ReadAt
<1>3. (Passed(CheckedAt)' => Passed(CheckedAt)) /\ (Passed(ReadAt(f))' => Passed(ReadAt(f)))
  BY <1>1, <1>2, AdvancePasses DEF SInv, Passed
<1> QED
  BY <1>2, <1>3 DEF SInv, Ordered, Passed

\* A step of Run that hashes or reads files.
LEMMA ReadingStep ==
    ASSUME SInv, phase = "starting", Advance, Present(Run[step].files), NEW f \in Guarded,
           \/ Run[step].op = "check" /\ sum' = Reading(Run[step].files, sum) /\ loaded' = loaded
           \/ Run[step].op = "load" /\ loaded' = Reading(Run[step].files, loaded) /\ sum' = sum
    PROVE  Ordered(f)'
<1>1. f \in Files \ Optional /\ step \in 1..Len(Run) /\ Len(Run) \in Nat
  BY GuardedSteps DEF SInv, Types
<1>2. CheckedAt' = CheckedAt /\ ReadAt(f)' = ReadAt(f) /\ mounted' = mounted /\ mounted[f] \in Nat \ {0}
  BY <1>1, AdvancePasses DEF SInv, Types, CheckedAt, ReadAt
<1>3. CheckedAt \in 1..Len(Run) /\ ReadAt(f) \in 1..Len(Run) /\ CheckedAt < ReadAt(f)
  <2>1. CheckedAt \in Nat \ {0}
    BY DEF CheckedAt
  <2> QED
    BY <1>1, <2>1, GuardedSteps DEF SInv, Types
<1>4. CASE step = CheckedAt
  <2>1. f \in Run[step].files /\ Run[step].op = "check"
    BY <1>1, <1>4, GuardedSteps DEF SInv, Types
  <2>2. sum'[f] = mounted[f]
    BY <1>1, <2>1 DEF Reading
  <2>3. ~Passed(ReadAt(f))'
    BY <1>1, <1>2, <1>3, <1>4, AdvancePasses DEF SInv, Types, Passed, Up
  <2> QED
    BY <1>2, <2>2, <2>3 DEF Ordered
<1>5. CASE step = ReadAt(f)
  <2>1. f \in Run[step].files /\ Run[step].op = "load"
    BY <1>1, <1>5, GuardedSteps DEF SInv, Types
  <2>2. loaded'[f] = mounted[f] /\ sum' = sum
    BY <1>1, <2>1 DEF Reading
  <2>3. Passed(CheckedAt)
    BY <1>1, <1>3, <1>5 DEF Passed
  <2>4. sum[f] \in 1..mounted[f]
    BY <2>3 DEF SInv, Ordered
  <2> QED
    BY <1>2, <2>2, <2>4 DEF Ordered
<1>6. CASE step \notin {CheckedAt, ReadAt(f)}
  <2>1. f \notin Run[step].files
    BY <1>1, <1>6, GuardedSteps DEF SInv, Types
  <2>2. sum'[f] = sum[f] /\ loaded'[f] = loaded[f]
    BY <1>1, <2>1 DEF Reading
  <2> QED
    BY <1>6, <2>2, OthersOrdered
<1> QED
  BY <1>4, <1>5, <1>6

\* Every step keeps the versions in order.
LEMMA StartupStep == SInv /\ [Next]_vars => SInv'
<1> SUFFICES ASSUME SInv, [Next]_vars PROVE SInv'
  OBVIOUS
<1>1. Guarded \subseteq Files \ Optional /\ Len(Run) \in {6, 7}
  BY GuardedSteps DEF SInv, Types
<1>2. program' = program /\ Guarded' = Guarded /\ Run' = Run /\ CheckedAt' = CheckedAt
      /\ \A f : ReadAt(f)' = ReadAt(f)
  <2>1. program' = program
    BY DEF Next, ChangeFile, ChangeTLSMap, StartSteps, Start, CheckFiles, LoadFiles, CheckLoadedFiles,
      WaitForWatchers, WatchTLS, StartFails, Advance, TLSMapChanged, Drain, Exit, Crash, Probe, Kill, vars, environment
  <2> QED
    BY <2>1 DEF Guarded, Run, CheckedAt, ReadAt
<1>3. ASSUME NEW g \in Files, ChangeFile(g) PROVE SInv'
  <2>1. UNCHANGED <<phase, step, loaded, sum>> /\ changes' = changes + 1
    BY <1>3 DEF ChangeFile, process
  <2>2. PICK content \in {changes + 2} \cup (IF g \in Optional THEN {0} ELSE {}) :
            mounted' = [mounted EXCEPT ![g] = content]
    BY <1>3 DEF ChangeFile
  <2>3. \A f \in Files \ Optional : mounted'[f] \in 1..(changes' + 1) /\ mounted'[f] >= mounted[f]
    BY <2>1, <2>2 DEF SInv, Types
  <2>4. Types'
    BY <1>2, <2>1, <2>2, <2>3 DEF SInv, Types
  <2>5. ASSUME NEW f \in Guarded PROVE Ordered(f)'
    <3>1. mounted[f] \in Nat /\ mounted'[f] \in Nat /\ mounted'[f] >= mounted[f] /\ sum[f] \in Nat /\ loaded[f] \in Nat
      BY <1>1, <2>3, <2>4 DEF SInv, Types
    <3>2. \A i : Passed(i)' = Passed(i)
      BY <2>1 DEF Passed, Up
    <3> QED
      BY <1>2, <2>1, <3>1, <3>2 DEF SInv, Ordered
  <2> QED
    BY <1>2, <2>4, <2>5 DEF SInv
<1>4. CASE Start
  <2>1. UNCHANGED <<program, changes, mounted>> /\ step' = 1 /\ loaded' = Nothing /\ sum' = Nothing
    BY <1>4 DEF Start, environment
  <2>2. 1 \in 1..Len(Run) /\ Nothing \in [Files -> Nat]
    BY <1>1 DEF Nothing
  <2>3. Types'
    BY <1>2, <2>1, <2>2 DEF SInv, Types
  <2>4. ASSUME NEW f \in Guarded PROVE Ordered(f)'
    BY <1>2, <1>4 DEF Start, Ordered, Passed, Up, CheckedAt, ReadAt
  <2> QED
    BY <1>2, <2>3, <2>4 DEF SInv
<1>5. CASE CheckFiles \/ LoadFiles
  <2>1. phase = "starting" /\ Advance
    BY <1>5 DEF CheckFiles, LoadFiles, Doing
  <2>2. Types'
    BY <1>2, <1>5, <2>1, AdvancePasses DEF CheckFiles, LoadFiles, Reading, SInv, Types
  <2>3. ASSUME NEW f \in Guarded PROVE Ordered(f)'
    BY <1>5, <2>1, ReadingStep DEF CheckFiles, LoadFiles, Doing
  <2> QED
    BY <1>2, <2>2, <2>3 DEF SInv
<1>6. CASE CheckLoadedFiles \/ WaitForWatchers \/ WatchTLS
  <2>1. phase = "starting" /\ Advance /\ loaded' = loaded /\ step \in 1..Len(Run)
    BY <1>6 DEF CheckLoadedFiles, WaitForWatchers, WatchTLS, Doing, SInv, Types
  <2>2. Types'
    BY <1>2, <1>6, <2>1, AdvancePasses
    DEF CheckLoadedFiles, WaitForWatchers, WatchTLS, Reading, SInv, Types
  <2>3. ASSUME NEW f \in Guarded PROVE Ordered(f)'
    <3>1. step \notin {CheckedAt, ReadAt(f)}
      BY <1>6, <2>1, GuardedSteps DEF CheckLoadedFiles, WaitForWatchers, WatchTLS, Doing, SInv, Types
    <3>2. f \notin Run[step].files /\ f \in Files
      BY <1>1, <2>1, <3>1, GuardedSteps DEF SInv, Types
    <3>3. sum'[f] = sum[f]
      BY <1>6, <3>2 DEF CheckLoadedFiles, WaitForWatchers, WatchTLS, Reading
    <3> QED
      BY <2>1, <3>1, <3>3, OthersOrdered
  <2> QED
    BY <1>2, <2>2, <2>3 DEF SInv
<1>7. CASE UNCHANGED <<step, loaded, sum, mounted>> /\ changes' \in {changes, changes + 1}
           /\ (phase' = phase \/ phase' = "down" \/ (Up /\ Up'))
  <2>1. Types'
    BY <1>2, <1>7 DEF SInv, Types, Up
  <2>2. \A i : Passed(i)' => Passed(i)
    BY <1>7 DEF Passed, Up
  <2>3. ASSUME NEW f \in Guarded PROVE Ordered(f)'
    BY <1>2, <1>7, <2>2 DEF SInv, Ordered
  <2> QED
    BY <1>2, <2>1, <2>3 DEF SInv
<1>8. ASSUME \/ StartFails \/ TLSMapChanged \/ Drain \/ Exit \/ Crash \/ Probe \/ Kill \/ UNCHANGED vars
             \/ \E content \in TLSContents : ChangeTLSMap(content)
      PROVE  UNCHANGED <<step, loaded, sum, mounted>> /\ changes' \in {changes, changes + 1}
             /\ (phase' = phase \/ phase' = "down" \/ (Up /\ Up'))
  <2> USE DEF process, environment
  <2>1. CASE StartFails \/ Exit \/ Crash
    BY <2>1 DEF StartFails, Exit, Crash
  <2>2. CASE Drain
    BY <2>2 DEF Drain, Life!Drain, Life!Withdraw, Life!Shutdown, Life!Return, Up
  <2>3. CASE TLSMapChanged \/ Probe \/ Kill
    BY <2>3 DEF TLSMapChanged, Probe, Kill, Life!Cancel
  <2>4. CASE UNCHANGED vars \/ \E content \in TLSContents : ChangeTLSMap(content)
    BY <2>4 DEF ChangeTLSMap, vars
  <2> QED
    BY <1>8, <2>1, <2>2, <2>3, <2>4
<1>9. ASSUME NEW g \in UNION {Run[i].files : i \in DOMAIN Run} PROVE g \in Files
  BY <1>9 DEF Run, ServiceProxyRun, UserServerRun, NewConfigChecker, Load, CheckIfLoaded, StartWatchers,
    StartTLSConfigMapWatcher, Files, Optional
<1> QED
  BY <1>3, <1>4, <1>5, <1>6, <1>7, <1>8, <1>9 DEF Next, StartSteps

\* The inductive invariant of the start and the life of a server.
LEMMA StartupInvariant == SafetySpec => []SInv
<1>1. Init => SInv
  <2> SUFFICES ASSUME Init PROVE SInv
    OBVIOUS
  <2>1. Types
    BY DEF Init, Types, Nothing
  <2>2. \A i : ~Passed(i)
    BY DEF Init, Passed, Up
  <2> QED
    BY <2>1, <2>2 DEF SInv, Ordered
<1> QED
  BY <1>1, StartupStep, PTL DEF SafetySpec

\* For any changes, crashes and thresholds: a serving process whose /healthz passes
\* uses the guarded files as they are mounted.
THEOREM HealthyServersAreCurrent == SafetySpec => []HealthyMeansCurrent
<1>1. SInv => HealthyMeansCurrent
  <2> SUFFICES ASSUME SInv, phase = "serving", Healthy, NEW f \in Guarded PROVE loaded[f] = mounted[f]
    BY DEF HealthyMeansCurrent
  <2>1. f \in Files /\ sum[f] \in Nat /\ loaded[f] \in Nat /\ mounted[f] \in Nat
    BY GuardedSteps DEF SInv, Types
  <2>2. sum[f] # 0 /\ sum[f] <= loaded[f] /\ loaded[f] <= mounted[f]
    BY <2>1 DEF SInv, Ordered, Passed, Up
  <2> QED
    BY <2>1, <2>2 DEF Healthy
<1> QED
  BY <1>1, StartupInvariant, PTL
------------------------------------------------------------------------------
(* The agent's pod: the port-forward proxy *)

\* Every connection has its place in each of handle's variables.
ForwardDomains ==
    /\ DOMAIN at = Conns /\ DOMAIN local = Conns /\ DOMAIN tunnel = Conns
    /\ DOMAIN reader = Conns /\ DOMAIN fromRemote = Conns /\ DOMAIN fromLocal = Conns

\* No copy runs before the data stream is there, and handle releases what it holds.
ForwardInv ==
    /\ ForwardDomains
    /\ \A c \in Conns : at[c] \in {"list", "dial", "error stream", "data stream"} => fromLocal[c] = "none"
    /\ PF!ReturnReleases

\* Every step of the proxy keeps that.
LEMMA ForwardStep == ForwardInv /\ [PF!Next]_(PF!vars) => ForwardInv'
<1> SUFFICES ASSUME ForwardInv, [PF!Next]_(PF!vars) PROVE ForwardInv'
  OBVIOUS
<1> USE DEF ForwardInv, ForwardDomains, PF!ReturnReleases
<1>1. ASSUME NEW c \in Conns, PF!Accept(c) PROVE ForwardInv'
  BY <1>1 DEF PF!Accept
<1>2. ASSUME NEW c \in Conns, PF!ListPods(c) \/ PF!Dial(c) PROVE ForwardInv'
  BY <1>2 DEF PF!ListPods, PF!Dial, PF!GiveUp
<1>3. ASSUME NEW c \in Conns, PF!CreateErrorStream(c) PROVE ForwardInv'
  BY <1>3 DEF PF!CreateErrorStream, PF!GiveUp
<1>4. ASSUME NEW c \in Conns, PF!CreateDataStream(c) PROVE ForwardInv'
  BY <1>4 DEF PF!CreateDataStream, PF!GiveUp
<1>5. ASSUME NEW c \in Conns, PF!Select(c) PROVE ForwardInv'
  BY <1>5 DEF PF!Select
<1>6. ASSUME NEW c \in Conns, PF!Goroutine(c) PROVE ForwardInv'
  BY <1>6 DEF PF!Goroutine, PF!ErrorStreamEnds, PF!RemoteCopyEnds, PF!LocalCopyEnds
<1>7. CASE PF!Vanish
  BY <1>7 DEF PF!Vanish, PF!NoConnection
<1>8. CASE UNCHANGED PF!vars
  BY <1>8 DEF PF!vars, PF!handlerVars
<1> QED
  BY <1>1, <1>2, <1>3, <1>4, <1>5, <1>6, <1>7, <1>8 DEF PF!Next, PF!Handle
-----------------------------------------------------------------------------
(* The pod runs the proxy *)

\* Without an addon-agent there are no connections.
QuietInv ==
    ~Running =>
        /\ at = PF!NoConnection /\ local = PF!NoConnection /\ tunnel = PF!NoConnection
        /\ reader = PF!NoConnection /\ fromRemote = PF!NoConnection /\ fromLocal = PF!NoConnection
        /\ localError = {}

\* Certificates are numbered upwards, and a proxy-agent that started under this
\* addon-agent has the mounted one or the checker has yet to see that one.  (Whether
\* the proxy is ready, which the probe asks for too, changes on its own.)
CertInv ==
    /\ hubCert \in Nat \ {0} /\ checker \in Nat /\ checker <= hubCert
    /\ portForward \in BOOLEAN /\ ready \in BOOLEAN
    /\ agent # 0 /\ watched => agent = hubCert \/ checker # hubCert

PodInv == QuietInv /\ CertInv

\* Every step of the pod keeps both.
LEMMA PodStep == PodInv /\ [PodNext]_podVars => PodInv'
<1> SUFFICES ASSUME PodInv, [PodNext]_podVars PROVE PodInv'
  OBVIOUS
<1> USE DEF PodInv, QuietInv, CertInv, Running, flags, addonAgent, forwardVars
<1>1. CASE StartAddonAgent \/ CrashAddonAgent
  <2>1. ready' \in BOOLEAN /\ portForward' \in BOOLEAN
    BY <1>1, Zenon DEF StartAddonAgent, CrashAddonAgent
  <2> QED
    BY <1>1, <2>1 DEF StartAddonAgent, CrashAddonAgent, PF!Vanish
<1>2. CASE StartProxyAgent \/ CrashProxyAgent \/ RotateCertificate
  BY <1>2 DEF StartProxyAgent, CrashProxyAgent, RotateCertificate
<1>3. CASE ProbeProxyAgent
  BY <1>3 DEF ProbeProxyAgent, ProxyAgentHealthy
<1>4. CASE ChangeLink \/ ExpireLease \/ CheckHealth \/ UNCHANGED podVars
  BY <1>4 DEF ChangeLink, ExpireLease, CheckHealth, podVars
<1>5. ASSUME NEW result, UpdateLease(result) PROVE PodInv'
  BY <1>5 DEF UpdateLease
<1>6. ASSUME NEW c \in Conns, Forward(c) PROVE PodInv'
  <2>1. Running /\ UNCHANGED <<flags, hubCert, agent, link, addonAgent, lease, watched, podCrashes>>
    BY <1>6 DEF Forward
  <2>2. ready' \in {TRUE, ready}
    BY <1>6
    DEF Forward, PF!Accept, PF!Handle, PF!ListPods, PF!Dial, PF!CreateErrorStream, PF!CreateDataStream,
        PF!Select, PF!Goroutine, PF!ErrorStreamEnds, PF!RemoteCopyEnds, PF!LocalCopyEnds
  <2> QED
    BY <2>1, <2>2
<1> QED
  BY <1>1, <1>2, <1>3, <1>4, <1>5, <1>6 DEF PodNext

\* The inductive invariant of the pod.
LEMMA PodInvariant == PodSafetySpec => []PodInv
<1>1. PodInit => PodInv
  <2> SUFFICES ASSUME PodInit PROVE PodInv
    OBVIOUS
  <2>1. ready \in BOOLEAN /\ portForward \in BOOLEAN
    BY Zenon DEF PodInit, PF!Init
  <2> QED
    BY <2>1 DEF PodInit, PF!Init, PodInv, QuietInv, CertInv
<1> QED
  BY <1>1, PodStep, PTL DEF PodSafetySpec

\* Whatever the containers and the kubelet do, the connections behave as
\* PortForward says.
THEOREM PodImplementsPortForward == PodSafetySpec => PF!SafetySpec
<1>1. PodInit => PF!Init
  BY DEF PodInit
<1>2. PodInv /\ [PodNext]_podVars => [PF!Next]_(PF!vars)
  <2> SUFFICES ASSUME PodInv, [PodNext]_podVars PROVE [PF!Next]_(PF!vars)
    OBVIOUS
  <2>1. CASE StartAddonAgent
    BY <2>1 DEF StartAddonAgent, PodInv, QuietInv, CertInv, PF!Next, PF!Vanish
  <2>2. CASE CrashAddonAgent
    BY <2>2 DEF CrashAddonAgent, PodInv, CertInv, PF!Next
  <2>3. ASSUME NEW c \in Conns, Forward(c) PROVE PF!Next
    BY <2>3 DEF Forward, PF!Next
  <2>4. CASE UNCHANGED forwardVars
    BY <2>4 DEF forwardVars, PF!vars, PF!handlerVars
  <2> QED
    BY <2>1, <2>2, <2>3, <2>4
    DEF PodNext, StartProxyAgent, CrashProxyAgent, ProbeProxyAgent, RotateCertificate, ChangeLink,
        ExpireLease, CheckHealth, UpdateLease, podVars
<1> QED
  BY <1>1, <1>2, PodInvariant, PTL DEF PodSafetySpec, PF!SafetySpec

\* For any connections, crashes and restarts: a handler that has returned leaves
\* no tunnel behind, nor a connection that was being copied.
THEOREM PodReleases == PodSafetySpec => []ReturnReleases
<1>1. PF!Init => ForwardInv
  BY DEF PF!Init, PF!NoConnection, ForwardInv, ForwardDomains, PF!ReturnReleases
<1>2. ForwardInv => ReturnReleases
  BY DEF ForwardInv, ReturnReleases
<1> QED
  BY <1>1, <1>2, ForwardStep, PodImplementsPortForward, PTL DEF PF!SafetySpec

\* For any rotations, crashes and restarts: a proxy-agent with an old certificate
\* fails its next probe, if it started under this addon-agent.
THEOREM PodNoticesOldCertificate == PodSafetySpec => []OldCertificateNoticed
<1>1. PodInv => OldCertificateNoticed
  BY DEF PodInv, CertInv, OldCertificateNoticed, ProxyAgentHealthy
<1> QED
  BY <1>1, PodInvariant, PTL
==============================================================================
