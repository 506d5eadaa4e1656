----------------------------- MODULE PortForward -----------------------------
(***************************************************************************)
(* The local proxy of the add-on agent: Listen accepts connections of the  *)
(* proxy-agent, handle forwards each one through a port-forward tunnel to  *)
(* a proxy-server pod.  handle starts three goroutines: one reads the      *)
(* error stream, one copies from the remote side, one from the local side. *)
(* Bytes are left out: what matters is when a copy or a stream ends.       *)
(***************************************************************************)
CONSTANT Conns   \* connections of the proxy-agent (bound)

VARIABLES ready,       \* firstConnReceived
          at,          \* where the handler of each connection is
          local,       \* the accepted connection: "none", "open", "closed"
          tunnel,      \* the stream connection: "none", "open", "closed"
          reader,      \* error stream: "none", "reading", "sending", "done"
          fromRemote,  \* copy to the local side: "none", "copying", "done"
          fromLocal,   \* copy to the remote side: the same
          localError   \* connections whose channel localError is closed

handlerVars == <<at, local, tunnel, reader, fromRemote, fromLocal, localError>>
vars == <<ready, handlerVars>>

NoConnection == [c \in Conns |-> "none"]

Init ==
    /\ ready = FALSE
    /\ at = NoConnection /\ local = NoConnection /\ tunnel = NoConnection
    /\ reader = NoConnection /\ fromRemote = NoConnection /\ fromLocal = NoConnection
    /\ localError = {}

\* The process ends and takes its connections and goroutines with it.
Vanish ==
    /\ at' = NoConnection /\ local' = NoConnection /\ tunnel' = NoConnection
    /\ reader' = NoConnection /\ fromRemote' = NoConnection /\ fromLocal' = NoConnection
    /\ localError' = {}
------------------------------------------------------------------------------
(* Listen *)

\* Accept returns a connection, whose handler starts.  Errors of Accept change
\* nothing, and main neither closes the listener nor ends ctx.  A connection
\* whose handler and goroutines are gone stands for the next one.
Accept(c) ==
    /\ \/ at[c] = "none"
       \/ at[c] = "returned" /\ "copying" \notin {fromRemote[c], fromLocal[c]} /\ reader[c] # "reading"
    /\ at' = [at EXCEPT ![c] = "list"]
    /\ local' = [local EXCEPT ![c] = "open"]
    /\ tunnel' = [tunnel EXCEPT ![c] = "none"]
    /\ reader' = [reader EXCEPT ![c] = "none"]
    /\ fromRemote' = [fromRemote EXCEPT ![c] = "none"]
    /\ fromLocal' = [fromLocal EXCEPT ![c] = "none"]
    /\ localError' = localError \ {c}
    /\ UNCHANGED ready
------------------------------------------------------------------------------
(* handle *)

\* An error before the copies start: the deferred call closes the tunnel, if
\* there is one; nobody closes the accepted connection.
GiveUp(c) ==
    /\ at' = [at EXCEPT ![c] = "returned"]
    /\ tunnel' = [tunnel EXCEPT ![c] = IF @ = "open" THEN "closed" ELSE @]

\* Clients are built and the pods listed; with none running handle gives up.
\* The request ID taken under the lock only labels the streams and is left out.
ListPods(c) ==
    /\ at[c] = "list"
    /\ \/ GiveUp(c)
       \/ /\ at' = [at EXCEPT ![c] = "dial"]
          /\ UNCHANGED tunnel
    /\ UNCHANGED <<ready, local, reader, fromRemote, fromLocal, localError>>

Dial(c) ==
    /\ at[c] = "dial"
    /\ \/ GiveUp(c)
       \/ /\ tunnel' = [tunnel EXCEPT ![c] = "open"]
          /\ at' = [at EXCEPT ![c] = "error stream"]
    /\ UNCHANGED <<ready, local, reader, fromRemote, fromLocal, localError>>

\* The error stream is created, closed for writing, and read by a goroutine.
CreateErrorStream(c) ==
    /\ at[c] = "error stream"
    /\ \/ GiveUp(c) /\ UNCHANGED reader
       \/ /\ reader' = [reader EXCEPT ![c] = "reading"]
          /\ at' = [at EXCEPT ![c] = "data stream"]
          /\ UNCHANGED tunnel
    /\ UNCHANGED <<ready, local, fromRemote, fromLocal, localError>>

\* Faulty variant: a failure returns past the deferred close.
CreateDataStreamLeaks(c) ==
    /\ at[c] = "data stream"
    /\ \/ /\ at' = [at EXCEPT ![c] = "returned"]
          /\ UNCHANGED <<ready, fromRemote, fromLocal>>
       \/ /\ fromRemote' = [fromRemote EXCEPT ![c] = "copying"]
          /\ fromLocal' = [fromLocal EXCEPT ![c] = "copying"]
          /\ ready' = TRUE
          /\ at' = [at EXCEPT ![c] = "select"]
    /\ UNCHANGED <<local, tunnel, reader, localError>>

\* The data stream is created and both copies start; the agent is ready.
CreateDataStream(c) ==
    /\ at[c] = "data stream"
    /\ \/ GiveUp(c) /\ UNCHANGED <<ready, fromRemote, fromLocal>>
       \/ /\ fromRemote' = [fromRemote EXCEPT ![c] = "copying"]
          /\ fromLocal' = [fromLocal EXCEPT ![c] = "copying"]
          /\ ready' = TRUE
          /\ at' = [at EXCEPT ![c] = "select"]
          /\ UNCHANGED tunnel
    /\ UNCHANGED <<local, reader, localError>>

\* What the select of handle waits for: the remote copy, a local error, an error
\* to receive, or the error channel closed.
Selectable(c) ==
    \/ fromRemote[c] = "done"
    \/ c \in localError
    \/ reader[c] \in {"sending", "done"}

\* Faulty variant: the accepted connection is left to the copies.
SelectKeepsLocal(c) ==
    /\ at[c] = "select" /\ Selectable(c)
    /\ at' = [at EXCEPT ![c] = "returned"]
    /\ tunnel' = [tunnel EXCEPT ![c] = "closed"]
    /\ UNCHANGED <<ready, local, reader, fromRemote, fromLocal, localError>>

\* Faulty variant: handle waits for both copies.
SelectWaitsForBoth(c) ==
    /\ at[c] = "select" /\ fromRemote[c] = "done" /\ fromLocal[c] = "done"
    /\ at' = [at EXCEPT ![c] = "returned"]
    /\ local' = [local EXCEPT ![c] = "closed"]
    /\ tunnel' = [tunnel EXCEPT ![c] = "closed"]
    /\ UNCHANGED <<ready, reader, fromRemote, fromLocal, localError>>

\* handle returns: the deferred calls close the connection, then the tunnel.
\* The reader, if its value is the one received, goes on to close the channel.
Select(c) ==
    /\ at[c] = "select" /\ Selectable(c)
    /\ \/ reader[c] = "sending" /\ reader' = [reader EXCEPT ![c] = "done"]
       \/ (fromRemote[c] = "done" \/ c \in localError \/ reader[c] = "done") /\ UNCHANGED reader
    /\ at' = [at EXCEPT ![c] = "returned"]
    /\ local' = [local EXCEPT ![c] = "closed"]
    /\ tunnel' = [tunnel EXCEPT ![c] = "closed"]
    /\ UNCHANGED <<ready, fromRemote, fromLocal, localError>>
------------------------------------------------------------------------------
(* The goroutines of a connection.  A read ends when the peer ends it, which *)
(* it owes nobody, and when the stream or the connection is closed.          *)

\* ReadAll returns: a message or an error is to be sent, or the channel closed.
ErrorStreamEnds(c) ==
    /\ reader[c] = "reading"
    /\ \E s \in {"sending", "done"} : reader' = [reader EXCEPT ![c] = s]
    /\ UNCHANGED <<ready, at, local, tunnel, fromRemote, fromLocal, localError>>

\* The data stream ends, or writing to the connection fails.
RemoteCopyEnds(c) ==
    /\ fromRemote[c] = "copying"
    /\ fromRemote' = [fromRemote EXCEPT ![c] = "done"]
    /\ UNCHANGED <<ready, at, local, tunnel, reader, fromLocal, localError>>

\* The proxy-agent stops sending or this side has closed the connection, which
\* handle need not know, or the copy fails, which it is told.
LocalCopyEnds(c) ==
    /\ fromLocal[c] = "copying"
    /\ fromLocal' = [fromLocal EXCEPT ![c] = "done"]
    /\ localError' \in {localError, localError \cup {c}}
    /\ UNCHANGED <<ready, at, local, tunnel, reader, fromRemote>>
------------------------------------------------------------------------------
Handle(c) == ListPods(c) \/ Dial(c) \/ CreateErrorStream(c) \/ CreateDataStream(c) \/ Select(c)

Goroutine(c) == ErrorStreamEnds(c) \/ RemoteCopyEnds(c) \/ LocalCopyEnds(c)

Next == (\E c \in Conns : Accept(c) \/ Handle(c) \/ Goroutine(c)) \/ (Vanish /\ ready' \in BOOLEAN)

SafetySpec == Init /\ [][Next]_vars
------------------------------------------------------------------------------
(* Properties *)

\* Whatever step of handle fails, no tunnel is left behind; and a connection
\* whose copies were started is closed too.
ReturnReleases ==
    \A c \in Conns : at[c] = "returned" =>
        tunnel[c] # "open" /\ (fromLocal[c] # "none" => local[c] = "closed")

\* Closing the connection and the tunnel is enough to end both copies, although
\* handle does not wait for them.
CopiesEnd ==
    \A c \in Conns : at[c] = "returned" ~> "copying" \notin {fromRemote[c], fromLocal[c]}

\* handle returns once the remote side is done, the local side fails or the
\* error stream ends, even if the other peer stays silent ("none": the process
\* has ended first).
HandlersReturn == \A c \in Conns : Selectable(c) ~> at[c] \in {"returned", "none"}
==============================================================================
