------------------------ MODULE AuthenticationProofs ------------------------
(***************************************************************************)
(* Proofs about authentication in the service-proxy: the chain of          *)
(* providers with its caches (AuthChain), for any number of handlers and   *)
(* changes, any TTL and deadline, any providers; and the delegate of       *)
(* oidcAuthenticator (OIDCAuthenticator), for any CA configurations, any   *)
(* number of their changes and any number of concurrent calls.             *)
(***************************************************************************)
EXTENDS AuthChain, OIDCAuthenticator, TLAPS
------------------------------------------------------------------------------
(* The chain of providers *)

\* Every provider asked so far has turned the token down.
Refused(log) == \A k \in 1..Len(log) : log[k] \in {"no", "rejected"}

\* What holds of a request that is being authenticated, ...
Pending(r) ==
    /\ r.i \in 1..Len(Providers) /\ Len(r.log) = r.i - 1
    /\ Refused(r.log)

\* ... and of one that is decided.
Decided(r) ==
    r.outcome = "forwarded" /\ r.as # "client" =>
        /\ Providers[Len(r.log)] = r.as
        /\ \A k \in 1..Len(r.log) :
              r.log[k] \in (IF k = Len(r.log) THEN {"yes"} ELSE {"no", "rejected"})

Sound(r) ==
    /\ r.pc \in {"ask", "wait", "done"}
    /\ \E S : r.log \in Seq(S)
    /\ r.pc # "done" => Pending(r)
    /\ r.pc = "done" => Decided(r)

\* Time: an outdated entry has at most the time left that the change leaves of the
\* horizon, and the change an outdated reply has missed came after its review was
\* sent.
TimeInv ==
    /\ valid \in [Authorities -> BOOLEAN] /\ since \in [Authorities -> Nat]
    /\ DOMAIN cache = Reviewed /\ DOMAIN flight = Reviewed
    /\ age \in [Reviewed -> 0..LookupTimeout]
    /\ \A p \in Reviewed :
          /\ cache[p] # NoEntry => cache[p].left \in 1..TTL
          /\ cache[p] # NoEntry /\ Outdated(p, cache[p].answer) => since[p] + cache[p].left <= Horizon
          /\ flight[p] # "sent" /\ Outdated(p, flight[p]) => since[p] <= age[p]
          /\ TTL = 0 => flight[p] = "none"

IInv ==
    /\ TimeInv
    /\ DOMAIN req = Handlers
    /\ \A h \in Handlers : Sound(req[h])
------------------------------------------------------------------------------
(* Requests *)

\* The answer of provider number i, appended to the history, keeps it sound.
LEMMA AnswerSound ==
    ASSUME NEW r, Sound(r), r.pc # "done", NEW a, NEW next \in After(r.i, Append(r.log, a), a)
    PROVE  Sound(next)
<1> DEFINE log == Append(r.log, a)
<1>1. PICK S : r.log \in Seq(S)
  BY DEF Sound
<1>2. r.log \in Seq(S \cup {a}) /\ a \in S \cup {a}
  BY <1>1
<1>3. /\ log \in Seq(S \cup {a}) /\ Len(log) = Len(r.log) + 1 /\ log[Len(log)] = a
      /\ \A k \in 1..Len(r.log) : log[k] = r.log[k]
      /\ Len(r.log) \in Nat
  BY <1>2
<1>4. r.i \in 1..Len(Providers) /\ Len(log) = r.i /\ Refused(r.log)
  BY <1>3 DEF Sound, Pending
<1> HIDE DEF log
<1>5. CASE a = "yes"
  <2>1. \A k \in 1..Len(log) : log[k] \in (IF k = Len(log) THEN {"yes"} ELSE {"no", "rejected"})
    BY <1>3, <1>4, <1>5 DEF Refused
  <2>2. Sound(Done("forwarded", Providers[r.i], log))
    BY <1>3, <1>4, <2>1 DEF Sound, Done, Decided
  <2>3. Sound(Done("401", "none", log))
    BY <1>3 DEF Sound, Done, Decided
  <2> QED
    BY <1>5, <2>2, <2>3 DEF After, Accept, log
<1>6. CASE a \in {"no", "rejected"} /\ r.i < Len(Providers)
  <2>1. Refused(log)
    BY <1>3, <1>4, <1>6 DEF Refused
  <2>2. Sound(Asking(r.i + 1, log))
    BY <1>3, <1>4, <1>6, <2>1 DEF Sound, Asking, Pending
  <2> QED
    BY <1>6, <2>2 DEF After, log
<1>7. CASE a # "yes" /\ ~(a \in {"no", "rejected"} /\ r.i < Len(Providers))
  <2>1. Sound(Done("401", "none", log))
    BY <1>3 DEF Sound, Done, Decided
  <2> QED
    BY <1>7, <2>1 DEF After, log
<1> QED
  BY <1>5, <1>6, <1>7

\* One handler moves on.
LEMMA HandlerStep ==
    ASSUME IInv, NEW h \in Handlers, NEW r, Sound(r), req' = [req EXCEPT ![h] = r]
    PROVE  DOMAIN req' = Handlers /\ \A g \in Handlers : Sound(req'[g])
BY DEF IInv

\* Every step keeps the requests sound.
LEMMA RequestStep == IInv /\ [Next]_vars => DOMAIN req' = Handlers /\ \A h \in Handlers : Sound(req'[h])
<1> SUFFICES ASSUME IInv, [Next]_vars
             PROVE  DOMAIN req' = Handlers /\ \A h \in Handlers : Sound(req'[h])
  OBVIOUS
<1>1. CASE UNCHANGED req
  BY <1>1 DEF IInv
<1>2. ASSUME NEW h \in Handlers, Receive(h)
      PROVE  DOMAIN req' = Handlers /\ \A g \in Handlers : Sound(req'[g])
  <2>1. <<>> \in Seq({}) /\ Len(<<>>) = 0
    OBVIOUS
  <2>2. Sound(Done("forwarded", "client", <<>>))
    BY <2>1 DEF Sound, Done, Decided
  <2>3. ASSUME Providers # <<>> PROVE Sound(Asking(1, <<>>))
    <3>1. Len(Providers) \in Nat /\ Len(Providers) >= 1
      BY <2>3 DEF Providers
    <3> QED
      BY <2>1, <3>1 DEF Sound, Asking, Pending, Refused
  <2> QED
    BY <1>2, <2>2, <2>3, HandlerStep DEF Receive
<1>3. ASSUME NEW h \in Handlers, NEW a, req[h].pc # "done", NEW next \in Outcomes(h, a)
      PROVE  Sound(next)
  BY <1>3, AnswerSound DEF Outcomes, IInv
<1>4. ASSUME NEW h \in Handlers, AskDirectly(h)
      PROVE  DOMAIN req' = Handlers /\ \A g \in Handlers : Sound(req'[g])
  BY <1>3, <1>4, HandlerStep DEF AskDirectly
<1>5. ASSUME NEW h \in Handlers, Hit(h)
      PROVE  DOMAIN req' = Handlers /\ \A g \in Handlers : Sound(req'[g])
  BY <1>3, <1>5, HandlerStep DEF Hit
<1>6. ASSUME NEW h \in Handlers, Join(h)
      PROVE  DOMAIN req' = Handlers /\ \A g \in Handlers : Sound(req'[g])
  <2>1. req' = [req EXCEPT ![h] = [req[h] EXCEPT !.pc = "wait"]] /\ req[h].pc = "ask" /\ Sound(req[h])
    BY <1>6 DEF Join, IInv
  <2> QED
    BY <1>6, <2>1 DEF Join, IInv, Sound, Pending
<1>7. ASSUME NEW h \in Handlers, GiveUp(h)
      PROVE  DOMAIN req' = Handlers /\ \A g \in Handlers : Sound(req'[g])
  BY <1>3, <1>7, HandlerStep DEF GiveUp
<1>8. ASSUME NEW p \in Reviewed, Deliver(p)
      PROVE  DOMAIN req' = Handlers /\ \A g \in Handlers : Sound(req'[g])
  <2> DEFINE waiting == {h \in Handlers : req[h].pc = "wait" /\ Providers[req[h].i] = p}
  <2>1. PICK next \in [waiting -> UNION {Outcomes(h, flight[p]) : h \in waiting}] :
            /\ \A h \in waiting : next[h] \in Outcomes(h, flight[p])
            /\ req' = [h \in Handlers |-> IF h \in waiting THEN next[h] ELSE req[h]]
    BY <1>8 DEF Deliver
  <2>2. ASSUME NEW g \in Handlers PROVE Sound(req'[g])
    <3>1. CASE g \in waiting
      BY <1>3, <2>1, <3>1
    <3>2. CASE g \notin waiting
      BY <2>1, <3>2 DEF IInv
    <3> QED
      BY <3>1, <3>2
  <2> QED
    BY <2>1, <2>2
<1> QED
  BY <1>1, <1>2, <1>4, <1>5, <1>6, <1>7, <1>8
  DEF Next, Authenticate, Tick, Change, Review, vars
------------------------------------------------------------------------------
(* Time *)

\* What TimeInv says of one reviewed provider.
EntryInv(p) ==
    /\ cache[p] # NoEntry => cache[p].left \in 1..TTL
    /\ cache[p] # NoEntry /\ Outdated(p, cache[p].answer) => since[p] + cache[p].left <= Horizon
    /\ flight[p] # "sent" /\ Outdated(p, flight[p]) => since[p] <= age[p]
    /\ TTL = 0 => flight[p] = "none"

\* Every step keeps the entries and the replies young enough.
LEMMA TimeStep == IInv /\ [Next]_vars => TimeInv'
<1> SUFFICES ASSUME TimeInv, [Next]_vars PROVE TimeInv'
  BY DEF IInv
<1> USE AuthAssumption DEF Horizon
<1>1. ASSUME NEW p \in Authorities, Change(p) PROVE TimeInv'
  <2>1. valid' \in [Authorities -> BOOLEAN] /\ since' \in [Authorities -> Nat]
    BY <1>1 DEF Change, TimeInv
  <2>2. ASSUME NEW q \in Reviewed PROVE EntryInv(q)'
    <3>1. CASE q = p
      <4>1. since'[q] = 0 /\ UNCHANGED <<cache, flight, age>>
        BY <1>1, <3>1 DEF Change, TimeInv
      <4> QED
        BY <4>1 DEF EntryInv, TimeInv
    <3>2. CASE q # p
      <4>1. since'[q] = since[q] /\ valid'[q] = valid[q] /\ UNCHANGED <<cache, flight, age>>
        BY <1>1, <3>2 DEF Change, TimeInv, Authorities
      <4> QED
        BY <4>1 DEF EntryInv, TimeInv, Outdated
    <3> QED
      BY <3>1, <3>2
  <2> QED
    BY <1>1, <2>1, <2>2 DEF Change, TimeInv, EntryInv
<1>2. CASE Tick
  <2>1. /\ valid' = valid /\ flight' = flight /\ since' \in [Authorities -> Nat]
        /\ age' \in [Reviewed -> 0..LookupTimeout]
    BY <1>2 DEF Tick, TimeInv, Later
  <2>2. ASSUME NEW q \in Reviewed PROVE EntryInv(q)'
    <3>1. since[q] \in Nat /\ since'[q] \in {since[q], since[q] + 1}
      BY <1>2 DEF Tick, TimeInv, Later, Authorities
    <3>2. InFlight(q) => age[q] \in Nat /\ age'[q] = age[q] + 1
      BY <1>2 DEF Tick, TimeInv
    <3>3. (flight[q] # "sent" /\ Outdated(q, flight[q]) => since[q] <= age[q])'
      <4>1. Outdated(q, flight[q])' => Outdated(q, flight[q]) /\ InFlight(q)
        BY <2>1 DEF Outdated, InFlight
      <4>2. flight[q] # "sent" /\ Outdated(q, flight[q]) => since[q] <= age[q]
        BY DEF TimeInv
      <4> QED
        BY <2>1, <3>1, <3>2, <4>1, <4>2
    <3>4. CASE cache[q].left > 1 /\ cache[q] # NoEntry
      <4>1. cache'[q] = [cache[q] EXCEPT !.left = @ - 1]
        BY <1>2, <3>4 DEF Tick
      <4>2. cache'[q].answer = cache[q].answer /\ cache'[q].left = cache[q].left - 1
        BY <3>4, <4>1 DEF TimeInv
      <4> QED
        BY <2>1, <3>1, <3>3, <3>4, <4>2 DEF EntryInv, TimeInv, Outdated
    <3>5. CASE ~(cache[q].left > 1 /\ cache[q] # NoEntry)
      <4>1. cache'[q] = NoEntry
        BY <1>2, <3>5 DEF Tick, NoEntry
      <4> QED
        BY <2>1, <3>3, <4>1 DEF EntryInv, TimeInv
    <3> QED
      BY <3>4, <3>5
  <2> QED
    BY <1>2, <2>1, <2>2 DEF Tick, TimeInv, EntryInv
<1>3. ASSUME NEW p \in Reviewed, Review(p) PROVE TimeInv'
  <2>1. PICK a \in Answers(p) : flight' = [flight EXCEPT ![p] = a]
    BY <1>3 DEF Review
  <2>2. ~Outdated(p, a)
    BY <2>1 DEF Answers, Outdated
  <2> QED
    BY <1>3, <2>1, <2>2 DEF Review, TimeInv, Outdated
<1>4. ASSUME NEW p \in Reviewed, Deliver(p) PROVE TimeInv'
  <2>1. /\ UNCHANGED <<valid, since>> /\ flight[p] \notin {"none", "sent"}
        /\ cache' = [cache EXCEPT ![p] = Remember(flight[p])] /\ flight' = [flight EXCEPT ![p] = "none"]
        /\ age' = [age EXCEPT ![p] = 0]
    BY <1>4 DEF Deliver
  <2>2. since[p] \in Nat /\ (Outdated(p, flight[p]) => since[p] <= LookupTimeout)
    BY <2>1 DEF TimeInv, Authorities
  <2>3. ASSUME NEW q \in Reviewed PROVE EntryInv(q)'
    <3>1. CASE q # p
      <4>1. cache'[q] = cache[q] /\ flight'[q] = flight[q] /\ age'[q] = age[q]
        BY <2>1, <3>1 DEF TimeInv
      <4> QED
        BY <2>1, <4>1 DEF EntryInv, TimeInv, Outdated
    <3>2. CASE q = p
      <4>1. cache'[q] = Remember(flight[q]) /\ flight'[q] = "none"
        BY <2>1, <3>2 DEF TimeInv
      <4>2. CASE flight[q] \in {"yes", "no"} /\ TTL > 0
        BY <2>1, <2>2, <3>2, <4>1, <4>2 DEF EntryInv, Remember, Outdated
      <4>3. CASE flight[q] \notin {"yes", "no"}
        BY <2>1, <4>1, <4>3 DEF EntryInv, Remember, Outdated
      <4>4. TTL > 0
        BY <2>1 DEF TimeInv
      <4> QED
        BY <4>2, <4>3, <4>4
    <3> QED
      BY <3>1, <3>2
  <2> QED
    BY <2>1, <2>3 DEF TimeInv, EntryInv
<1>5. ASSUME NEW h \in Handlers, Join(h) PROVE TimeInv'
  BY <1>5 DEF Join, Cached, TimeInv, Outdated
<1>6. CASE UNCHANGED <<valid, since, cache, flight, age>>
  BY <1>6 DEF TimeInv, Outdated
<1> QED
  BY <1>1, <1>2, <1>3, <1>4, <1>5, <1>6
  DEF Next, Authenticate, Receive, AskDirectly, Hit, GiveUp, vars
------------------------------------------------------------------------------
\* The inductive invariant of the chain and its caches.
LEMMA ChainInvariant == SafetySpec => []IInv
<1>1. Init => IInv
  <2> SUFFICES ASSUME Init PROVE IInv
    OBVIOUS
  <2>1. <<>> \in Seq({}) /\ Len(<<>>) = 0
    OBVIOUS
  <2>2. Sound(Idle)
    BY <2>1 DEF Sound, Idle, Done, Decided
  <2>3. TimeInv
    BY AuthAssumption DEF Init, TimeInv, Outdated, Horizon
  <2> QED
    BY <2>2, <2>3 DEF Init, IInv
<1>2. IInv /\ [Next]_vars => IInv'
  BY RequestStep, TimeStep DEF IInv
<1> QED
  BY <1>1, <1>2, PTL DEF SafetySpec

\* For any enabled providers: whoever a request is forwarded as, every provider
\* before has turned the token down and none of them has failed.
THEOREM ChainFirstMatchWins == SafetySpec => []FirstMatchWins
<1>1. IInv => FirstMatchWins
  <2> SUFFICES ASSUME IInv, NEW h \in Handlers,
                      req[h].pc = "done", req[h].outcome = "forwarded", req[h].as # "client"
               PROVE  /\ Providers[Len(req[h].log)] = req[h].as
                      /\ \A k \in DOMAIN req[h].log :
                            req[h].log[k] \in (IF k = Len(req[h].log) THEN {"yes"} ELSE {"no", "rejected"})
    BY DEF FirstMatchWins
  <2>1. DOMAIN req[h].log = 1..Len(req[h].log)
    BY DEF IInv, Sound
  <2> QED
    BY <2>1 DEF IInv, Sound, Decided
<1> QED
  BY <1>1, ChainInvariant, PTL

\* A request's record names the answers it has used.
LEMMA OutcomeLog ==
    ASSUME NEW h, NEW a, NEW next \in Outcomes(h, a)
    PROVE  next.log = Append(req[h].log, a)
BY DEF Outcomes, After, Accept, Asking, Done

\* For any TTL and any deadline: an answer that is used has been out of date for
\* less than both together, whether it comes from a cache, from a review that was
\* shared, or from the provider itself.
THEOREM ChainStaleForLessThanHorizon == SafetySpec => StaleForLessThanHorizon
<1> DEFINE Current(h) == Len(Used(h)') > Len(Used(h)) =>
                            LET p == Providers[req[h].i]
                                a == Used(h)'[Len(Used(h)')]
                            IN Outdated(p, a) => since[p] < Horizon
<1>1. IInv /\ [Next]_vars => [\A h \in Handlers : Current(h)]_vars
  <2> SUFFICES ASSUME IInv, Next, NEW h \in Handlers PROVE Current(h)
    BY Zenon DEF vars
  <2>1. PICK S : req[h].log \in Seq(S)
    BY DEF IInv, Sound
  <2>2. CASE req'[h].log = req[h].log \/ req'[h].log = <<>>
    BY <2>1, <2>2 DEF Used
  <2>3. ASSUME NEW a, req'[h] \in Outcomes(h, a),
               Outdated(Providers[req[h].i], a) => since[Providers[req[h].i]] < Horizon
        PROVE  Current(h)
    <3>1. req'[h].log = Append(req[h].log, a)
      BY <2>3, OutcomeLog
    <3>2. req[h].log \in Seq(S \cup {a}) /\ a \in S \cup {a}
      BY <2>1
    <3>3. Append(req[h].log, a)[Len(Append(req[h].log, a))] = a
      BY <3>2
    <3> QED
      BY <2>3, <3>1, <3>3 DEF Used
  <2>4. ASSUME NEW g \in Handlers, Receive(g) PROVE Current(h)
    BY <2>2, <2>4 DEF Receive, Done, Asking, IInv
  <2>5. ASSUME NEW g \in Handlers, AskDirectly(g) PROVE Current(h)
    <3>1. PICK a \in Answers(Providers[req[g].i]) :
             \E next \in Outcomes(g, a) : req' = [req EXCEPT ![g] = next]
      BY <2>5 DEF AskDirectly
    <3>2. ~Outdated(Providers[req[g].i], a)
      BY DEF Answers, Outdated
    <3> QED
      BY <2>2, <2>3, <3>1, <3>2 DEF IInv
  <2>6. ASSUME NEW g \in Handlers, Hit(g) PROVE Current(h)
    <3> DEFINE p == Providers[req[g].i]
    <3>1. p \in Reviewed /\ TTL \in Nat /\ LookupTimeout \in Nat /\ since[p] \in Nat
      BY <2>6, AuthAssumption DEF Hit, Cached, IInv, TimeInv, Authorities
    <3>2. Outdated(p, cache[p].answer) => since[p] < Horizon
      BY <2>6, <3>1 DEF Hit, IInv, TimeInv, Horizon
    <3>3. PICK next \in Outcomes(g, cache[p].answer) : req' = [req EXCEPT ![g] = next]
      BY <2>6 DEF Hit
    <3> QED
      BY <2>2, <2>3, <3>2, <3>3 DEF IInv
  <2>7. ASSUME NEW g \in Handlers, Join(g) PROVE Current(h)
    <3>1. req' = [req EXCEPT ![g] = [req[g] EXCEPT !.pc = "wait"]]
      BY <2>7 DEF Join
    <3>2. req'[h].log = req[h].log
      BY <3>1 DEF IInv
    <3> QED
      BY <2>2, <3>2
  <2>8. ASSUME NEW g \in Handlers, GiveUp(g) PROVE Current(h)
    <3>1. PICK next \in Outcomes(g, "error") : req' = [req EXCEPT ![g] = next]
      BY <2>8 DEF GiveUp
    <3> QED
      BY <2>2, <2>3, <3>1 DEF IInv, Outdated
  <2>9. ASSUME NEW p \in Reviewed, Deliver(p) PROVE Current(h)
    <3>1. Outdated(p, flight[p]) => since[p] < Horizon
      <4>1. TTL \in Nat /\ LookupTimeout \in Nat /\ since[p] \in Nat /\ age[p] \in 0..LookupTimeout
        BY AuthAssumption DEF IInv, TimeInv, Authorities
      <4>2. TTL > 0
        BY <2>9, <4>1 DEF Deliver, IInv, TimeInv
      <4> QED
        BY <2>9, <4>1, <4>2 DEF Deliver, IInv, TimeInv, Horizon
    <3>2. \/ req'[h] = req[h]
          \/ Providers[req[h].i] = p /\ req'[h] \in Outcomes(h, flight[p])
      BY <2>9 DEF Deliver
    <3> QED
      BY <2>2, <2>3, <3>1, <3>2
  <2>10. CASE UNCHANGED req
    BY <2>2, <2>10
  <2> QED
    BY <2>4, <2>5, <2>6, <2>7, <2>8, <2>9, <2>10 DEF Next, Authenticate, Tick, Change, Review
<1>2. SafetySpec => [][\A h \in Handlers : Current(h)]_vars
  BY <1>1, ChainInvariant, PTL DEF SafetySpec
<1> QED
  BY <1>2 DEF StaleForLessThanHorizon
------------------------------------------------------------------------------
(* The delegate of oidcAuthenticator *)

\* TypeOK without the requests.
DelegateType ==
    /\ configMap \in Usable \cup Invalid \cup {Missing} /\ store \in Usable \cup Invalid \cup {Missing}
    /\ worker \in {"start", "idle", "cancel", "build", "publish"}
    /\ bundleOf \in Seq(Usable)
    /\ delegate \in 0..Made /\ displaced \in 0..Made /\ fresh \in 0..Made
    /\ cancelled \subseteq 1..Made

\* Where a live delegate can be: published, taken out and about to be cancelled,
\* or built and about to be published; which of the three, the worker's place in
\* reconcileCABundle decides.
WorkerInv ==
    /\ (1..Made) \ cancelled \subseteq {delegate, displaced, fresh}
    /\ worker # "cancel" => displaced = 0
    /\ worker # "publish" => fresh = 0
    /\ worker \in {"cancel", "build", "publish"} => delegate = 0
    /\ worker \in {"build", "publish"} => observed \in Usable
    /\ worker = "publish" => fresh = Made /\ Made # 0 /\ fresh \notin cancelled /\ bundleOf[fresh] = observed

DInv == DelegateType /\ WorkerInv /\ PublishedIsCurrent

\* Informer steps, discovery and requests leave the delegate's variables alone.
Quiet ==
    /\ UNCHANGED <<worker, delegateVars, bundleOf, cancelled>>
    /\ configMap' \in Usable \cup Invalid \cup {Missing} /\ store' \in Usable \cup Invalid \cup {Missing}

\* A quiet step keeps the invariant of the delegates.
LEMMA QuietStep == DInv /\ Quiet => DInv'
  BY DEF DInv, Quiet, DelegateType, WorkerInv, PublishedIsCurrent, delegateVars, Made

\* Each step of the worker keeps the published delegate current and leaves live
\* delegates only where it will find them again.
LEMMA WorkerStep == DInv /\ Worker => DInv'
<1> SUFFICES ASSUME DInv, Worker PROVE DInv'
  OBVIOUS
<1> USE DEF DInv, DelegateType, WorkerInv, PublishedIsCurrent
<1>1. CASE BeginReconcile
  BY <1>1 DEF BeginReconcile, TakeKey, Swap, builtVars, Made
<1>2. CASE CancelOld
  BY <1>2 DEF CancelOld, builtVars, configVars, Made
<1>3. CASE Build
  <2>1. CASE observed \in Unparsable
    BY <1>3, <2>1 DEF Build, Swap, builtVars, configVars, Made
  <2>2. CASE observed \notin Unparsable
    <3>1. /\ bundleOf \in Seq(Usable) /\ observed \in Usable
          /\ bundleOf' = Append(bundleOf, observed)
      BY <1>3, <2>2 DEF Build
    <3> DEFINE s == bundleOf
    <3>2. /\ Append(s, observed) \in Seq(Usable)
          /\ Len(Append(s, observed)) = Len(s) + 1 /\ Len(s) \in Nat
          /\ Append(s, observed)[Len(s) + 1] = observed
          /\ \A d \in 1..Len(s) : Append(s, observed)[d] = s[d]
      BY <3>1
    <3>3. /\ Made \in Nat /\ Made' = Made + 1 /\ bundleOf' \in Seq(Usable)
          /\ bundleOf'[Made'] = observed
      BY <3>1, <3>2 DEF Made
    <3>4. /\ worker' = "publish" /\ fresh' = Made + 1
          /\ UNCHANGED <<configVars, observed, cancelled, delegate, displaced>>
          /\ delegate = 0 /\ displaced = 0 /\ fresh = 0
      BY <1>3, <2>2 DEF Build
    <3>5. DelegateType'
      BY <3>3, <3>4 DEF configVars
    <3>6. (1..Made)' \ cancelled' \subseteq {delegate', displaced', fresh'} /\ fresh' \notin cancelled'
      <4>1. \A d \in 1..Made : d \in cancelled
        BY <3>3, <3>4
      <4> QED
        BY <4>1, <3>3, <3>4
    <3>7. WorkerInv'
      <4>1. (fresh = Made /\ Made # 0 /\ bundleOf[fresh] = observed)'
        BY <3>3, <3>4
      <4> QED
        BY <4>1, <3>1, <3>4, <3>6
    <3>8. PublishedIsCurrent'
      BY <3>4
    <3> QED
      BY <3>5, <3>7, <3>8
  <2> QED
    BY <2>1, <2>2
<1>4. CASE Publish
  BY <1>4 DEF Publish, Swap, builtVars, configVars, Made
<1> QED
  BY <1>1, <1>2, <1>3, <1>4 DEF Worker

\* The inductive invariant of the worker and the delegates it builds.
LEMMA DelegateInvariant == OIDCSafetySpec => []DInv
<1>1. OIDCInit => DInv
  BY DEF OIDCInit, DInv, DelegateType, WorkerInv, PublishedIsCurrent, Made
<1>2. DInv /\ [OIDCNext]_oidcVars => DInv'
  <2> SUFFICES ASSUME DInv, [OIDCNext]_oidcVars PROVE DInv'
    OBVIOUS
  <2>1. CASE Worker
    BY <2>1, WorkerStep
  <2>2. ASSUME ChangeConfigMap \/ Observe \/ Enqueue \/ Resync \/ UNCHANGED oidcVars PROVE Quiet
    BY <2>2
    DEF ChangeConfigMap, Observe, Enqueue, Resync, oidcVars, configVars, builtVars, DInv, DelegateType, Quiet, Usable
  <2>3. ASSUME NEW d \in 1..Made, Discover(d) PROVE Quiet
    BY <2>3 DEF Discover, configVars, DInv, DelegateType, Quiet
  <2>4. ASSUME NEW q \in Requests, AuthenticateToken(q) PROVE Quiet
    BY <2>4
    DEF AuthenticateToken, Snapshot, HealthCheck, Verify, configVars, builtVars, DInv, DelegateType, Quiet
  <2> QED
    BY <2>1, <2>2, <2>3, <2>4, QuietStep DEF OIDCNext
<1> QED
  BY <1>1, <1>2, PTL DEF OIDCSafetySpec

\* For any CA configurations, changes and requests: requests find only a live
\* delegate of the configuration observed last, ...
THEOREM DelegateSafety == OIDCSafetySpec => []PublishedIsCurrent
BY DelegateInvariant, PTL DEF DInv

\* ... and no other one is alive.
THEOREM OneLiveDelegate == OIDCSafetySpec => []AtMostOneLive
<1>1. DInv => AtMostOneLive
  BY DEF DInv, DelegateType, WorkerInv, PublishedIsCurrent, AtMostOneLive
<1> QED
  BY <1>1, DelegateInvariant, PTL
------------------------------------------------------------------------------
(* The calls of AuthenticateToken *)

\* What a call has seen stays true: the delegate it holds exists, and one it
\* found healthy has a verifier, since discovery does not go back.
SoundCall(r) ==
    /\ r.pc \in {"idle", "health", "verify"}
    /\ r.pc # "idle" => r.seen \in 1..Made
    /\ r.pc = "verify" /\ ~r.unhealthy => health[r.seen] # "starting"
    /\ r.pc = "idle" /\ r.outcome = "passed on" => r.token = "foreign"
    /\ r.pc = "idle" /\ r.outcome = "rejected" => r.cause # "uninitialised"

\* A missing delegate comes with an error, and every request is sound.
CallInv ==
    /\ delegate = 0 => initErr
    /\ health \in Seq({"starting", "verifier", "healthy"}) /\ Len(health) = Made
    /\ DOMAIN calls = Requests
    /\ \A q \in Requests : SoundCall(calls[q])

\* A step that changes no request, and takes no health back, keeps them sound.
LEMMA CallsStaySound ==
    ASSUME DInv, CallInv, UNCHANGED calls, Made' \in Nat, Made' >= Made, (delegate = 0 => initErr)',
           health' \in Seq({"starting", "verifier", "healthy"}), Len(health') = Made',
           \A d \in 1..Made : health[d] # "starting" => health'[d] # "starting"
    PROVE  CallInv'
<1>1. Made \in Nat
  BY DEF DInv, DelegateType, Made
<1>2. ASSUME NEW q \in Requests PROVE SoundCall(calls[q])'
  <2>1. SoundCall(calls[q]) /\ calls'[q] = calls[q]
    BY <1>2 DEF CallInv
  <2>2. calls[q].seen \in 1..Made => calls[q].seen \in 1..(Made')
    BY <1>1
  <2> QED
    BY <2>1, <2>2 DEF SoundCall
<1> QED
  BY <1>2 DEF CallInv

\* Every step keeps the requests sound, wherever the worker and discovery are.
LEMMA CallStep == DInv /\ CallInv /\ [OIDCNext]_oidcVars => CallInv'
<1> SUFFICES ASSUME DInv, CallInv, [OIDCNext]_oidcVars PROVE CallInv'
  OBVIOUS
<1>1. Made \in Nat /\ Len(health) = Made
  BY DEF DInv, DelegateType, Made, CallInv
<1>2. ASSUME NEW r, r.pc = "idle", r.outcome = "passed on" => r.token = "foreign",
             r.outcome = "rejected" => r.cause # "uninitialised"
      PROVE  SoundCall(r)
  BY <1>2 DEF SoundCall
<1>3. ASSUME NEW q \in Requests, NEW r, calls' = [calls EXCEPT ![q] = r], SoundCall(r),
             UNCHANGED <<delegateVars, builtVars>>
      PROVE  CallInv'
  <2>1. Made' = Made
    BY <1>3 DEF Made, builtVars
  <2>2. ASSUME NEW p \in Requests PROVE SoundCall(calls[p])'
    <3>1. CASE p = q
      <4>1. calls'[p] = r
        BY <1>3, <3>1 DEF CallInv
      <4> QED
        BY <1>3, <2>1, <4>1 DEF SoundCall, builtVars
    <3>2. CASE p # q
      <4>1. SoundCall(calls[p]) /\ calls'[p] = calls[p]
        BY <1>3, <3>2 DEF CallInv
      <4> QED
        BY <1>3, <2>1, <4>1 DEF SoundCall, builtVars
    <3> QED
      BY <3>1, <3>2
  <2> QED
    BY <1>3, <2>1, <2>2 DEF CallInv, delegateVars, builtVars
<1>4. ASSUME NEW q \in Requests, NEW token \in Tokens, Snapshot(q, token) PROVE CallInv'
  <2>1. CASE delegate # 0
    <3>1. SoundCall([pc |-> "health", token |-> token, seen |-> delegate])
      BY <2>1, <1>1 DEF SoundCall, DInv, DelegateType
    <3> QED
      BY <1>3, <1>4, <2>1, <3>1 DEF Snapshot
  <2>2. CASE delegate = 0
    <3>1. SoundCall(IdleCall("unavailable", token, "none"))
      BY <1>2 DEF IdleCall
    <3> QED
      BY <1>3, <1>4, <2>2, <3>1 DEF Snapshot, CallInv
  <2> QED
    BY <2>1, <2>2
<1>5. ASSUME NEW q \in Requests, HealthCheck(q) PROVE CallInv'
  <2>1. SoundCall([pc |-> "verify", token |-> calls[q].token, seen |-> calls[q].seen,
               unhealthy |-> health[calls[q].seen] # "healthy"])
    BY <1>5 DEF HealthCheck, CallInv, SoundCall
  <2> QED
    BY <1>3, <1>5, <2>1 DEF HealthCheck
<1>6. ASSUME NEW q \in Requests, Verify(q) PROVE CallInv'
  <2>1. PICK cause \in DelegateErrors(calls[q].seen, calls[q].token) :
            calls' = [calls EXCEPT ![q] =
                      IdleCall(Outcome(calls[q].token, cause, calls[q].unhealthy), calls[q].token, cause)]
    BY <1>6 DEF Verify
  <2>2. cause = "uninitialised" => calls[q].unhealthy
    BY <1>6, <2>1 DEF Verify, DelegateErrors, CallInv, SoundCall
  <2>3. cause = "none" => calls[q].token \in {"good", "foreign"}
    BY <2>1 DEF DelegateErrors
  <2>4. SoundCall(IdleCall(Outcome(calls[q].token, cause, calls[q].unhealthy), calls[q].token, cause))
    BY <2>2, <2>3, <1>2 DEF IdleCall, Outcome
  <2> QED
    BY <1>3, <1>6, <2>1, <2>4 DEF Verify
<1>7. CASE BeginReconcile \/ CancelOld \/ Publish
  <2>1. UNCHANGED <<calls, builtVars>> /\ (delegate = 0 => initErr)'
    BY <1>7 DEF BeginReconcile, CancelOld, Publish, Swap, CallInv, DInv, WorkerInv
  <2> QED
    BY <2>1, <1>1, CallsStaySound DEF builtVars, Made, CallInv
<1>8. CASE Build
  <2>1. CASE UNCHANGED builtVars
    <3>1. UNCHANGED calls /\ (delegate = 0 => initErr)'
      BY <1>8 DEF Build, Swap, CallInv
    <3> QED
      BY <2>1, <3>1, <1>1, CallsStaySound DEF builtVars, Made, CallInv
  <2>2. CASE bundleOf' = Append(bundleOf, observed) /\ health' = Append(health, "starting")
    <3>1. UNCHANGED calls /\ (delegate = 0 => initErr)'
      BY <1>8 DEF Build, Swap, CallInv
    <3>2. Made' = Made + 1
      BY <2>2 DEF Made, DInv, DelegateType
    <3>3. /\ health' \in Seq({"starting", "verifier", "healthy"}) /\ Len(health') = Len(health) + 1
          /\ \A d \in 1..Len(health) : health'[d] = health[d]
      BY <2>2 DEF CallInv
    <3> QED
      BY <3>1, <3>2, <3>3, <1>1, CallsStaySound
  <2> QED
    BY <1>8, <2>1, <2>2 DEF Build
<1>9. ASSUME NEW d \in 1..Made, Discover(d) PROVE CallInv'
  <2>1. UNCHANGED <<calls, bundleOf, delegateVars>>
    BY <1>9 DEF Discover
  <2>2. /\ health' \in Seq({"starting", "verifier", "healthy"}) /\ Len(health') = Len(health)
        /\ \A e \in 1..Len(health) : health[e] # "starting" => health'[e] # "starting"
    BY <1>9, <1>1 DEF Discover, CallInv
  <2> QED
    BY <2>1, <2>2, <1>1, CallsStaySound DEF Made, delegateVars, CallInv
<1>10. CASE ChangeConfigMap \/ Observe \/ Enqueue \/ Resync \/ UNCHANGED oidcVars
  <2>1. UNCHANGED <<calls, builtVars, delegateVars>>
    BY <1>10 DEF ChangeConfigMap, Observe, Enqueue, Resync, oidcVars
  <2> QED
    BY <2>1, <1>1, CallsStaySound DEF builtVars, delegateVars, Made, CallInv
<1> QED
  BY <1>4, <1>5, <1>6, <1>7, <1>8, <1>9, <1>10 DEF OIDCNext, Worker, AuthenticateToken

\* The inductive invariant of the calls.
LEMMA CallInvariant == OIDCSafetySpec => []CallInv
<1>1. OIDCInit => CallInv
  <2> SUFFICES ASSUME OIDCInit PROVE CallInv
    OBVIOUS
  <2>1. ASSUME NEW q \in Requests PROVE SoundCall(calls[q])
    BY DEF OIDCInit, SoundCall, IdleCall
  <2> QED
    BY <2>1 DEF OIDCInit, CallInv, Made
<1> QED
  BY <1>1, CallStep, DelegateInvariant, PTL DEF OIDCSafetySpec

\* For any number of requests and changes: a token is passed on without an error
\* only if it is not this issuer's, and discovery completing in the midst of a
\* request does not turn a start-up failure into a rejection.
THEOREM AuthenticatorIsDefinitive == OIDCSafetySpec => []AnswersAreDefinitive
<1>1. CallInv => AnswersAreDefinitive
  BY DEF CallInv, SoundCall, AnswersAreDefinitive
<1> QED
  BY <1>1, CallInvariant, PTL
==============================================================================
