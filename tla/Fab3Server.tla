----------------------------- MODULE Fab3Server -----------------------------
(***************************************************************************)
(* The fab3 process: runFab3 sets up the SDK, starts the HTTP server in a  *)
(* goroutine of its own and waits for its error or for a signal; net/http  *)
(* runs one goroutine per request, most of which use the SDK.  net/http,   *)
(* os/signal and the SDK are external.                                     *)
(***************************************************************************)
EXTENDS Naturals, FiniteSets

CONSTANTS
  Conn,        \* client connections
  MaxSignals   \* signals sent to the process

ASSUME ServerConstants == MaxSignals \in Nat

VARIABLES
  pc,       \* where runFab3 is, or "exited"
  err,      \* runFab3's err is not nil
  exit,     \* exit status: "none", "0", "1", "killed"
  sdk,      \* "none", "open" or "closed"
  start,    \* the goroutine that runs Start: "none", "spawned", "listening",
            \* "closed" (the listener, by Shutdown) or "done"
  inShutdown,  \* http.Server.inShutdown
  errChan,  \* an error is in errChan (capacity 1)
  notified, \* signal.Notify has been called
  signalChan,  \* a signal is in signalChan (capacity 1)
  signals,  \* signals sent so far
  failed,   \* history: the listener failed, by itself
  conn      \* the connections: "none", "open" before the first request's header,
            \* "reading" while the client sends its body, "sdk" or "local" while its
            \* handler runs, "answered" and kept alive, "closed", "dropped" when the
            \* handler panicked, "cut" when the process ended

main == <<pc, err, exit, sdk>>
server == <<start, inShutdown, errChan, failed>>
sig == <<notified, signalChan, signals>>
vars == <<main, server, sig, conn>>

Running == {c \in Conn : conn[c] \in {"sdk", "local"}}
Active == {c \in Conn : conn[c] = "reading"} \cup Running
Quiet == {c \in Conn : conn[c] \in {"open", "answered"}}

Init ==
  /\ pc = "flags" /\ err = FALSE /\ exit = "none" /\ sdk = "none"
  /\ start = "none" /\ inShutdown = FALSE /\ errChan = FALSE /\ failed = FALSE
  /\ notified = FALSE /\ signalChan = FALSE /\ signals = 0
  /\ conn = [c \in Conn |-> "none"]

\* The end of the process takes every goroutine with it.
Exit(status) ==
  /\ pc' = "exited" /\ exit' = status
  /\ conn' = [c \in Conn |-> IF c \in Active THEN "cut" ELSE conn[c]]

----------------------------------------------------------------------------
(* runFab3.                                                                *)

\* checkFlags: config, user, org and channel must be given.
CheckFlags ==
  /\ pc = "flags"
  /\ \/ pc' = "sdk" /\ UNCHANGED <<exit, conn>>
     \/ Exit("1")
  /\ UNCHANGED <<err, sdk, server, sig>>

NewSDK ==
  /\ pc = "sdk"
  /\ \/ pc' = "clients" /\ sdk' = "open" /\ UNCHANGED <<exit, conn>>
     \/ Exit("1") /\ UNCHANGED sdk
  /\ UNCHANGED <<err, server, sig>>

\* Faulty: an early return without closing the SDK.
NewClientsLeak ==
  /\ pc = "clients"
  /\ \/ pc' = "start" /\ UNCHANGED <<exit, sdk, conn>>
     \/ Exit("1") /\ UNCHANGED sdk
  /\ UNCHANGED <<err, server, sig>>

\* The channel client, the ledger client, the logger; NewEthService, NewFab3.
NewClients ==
  /\ pc = "clients"
  /\ \/ pc' = "start" /\ UNCHANGED <<exit, sdk, conn>>
     \/ Exit("1") /\ sdk' = "closed"
  /\ UNCHANGED <<err, server, sig>>

GoStart ==
  /\ pc = "start"
  /\ pc' = "notify" /\ start' = "spawned"
  /\ UNCHANGED <<err, exit, sdk, inShutdown, errChan, failed, sig, conn>>

Notify ==
  /\ pc = "notify"
  /\ pc' = "select" /\ notified' = TRUE
  /\ UNCHANGED <<err, exit, sdk, server, signalChan, signals, conn>>

\* select: when both channels are ready either may be taken.
SelectError ==
  /\ pc = "select" /\ errChan
  /\ errChan' = FALSE /\ err' = TRUE
  /\ pc' = "close"
  /\ UNCHANGED <<exit, sdk, start, inShutdown, failed, sig, conn>>

\* Shutdown closes the listener first ...
SelectSignal ==
  /\ pc = "select" /\ signalChan
  /\ signalChan' = FALSE /\ inShutdown' = TRUE
  /\ start' = IF start = "listening" THEN "closed" ELSE start
  /\ pc' = "shutdown"
  /\ UNCHANGED <<err, exit, sdk, errChan, failed, notified, signals, conn>>

\* Faulty: waits for idle connections, too.
ShutdownWaitsForIdle ==
  /\ pc = "shutdown" /\ Active \cup Quiet = {}
  /\ err' = FALSE /\ pc' = "close"
  /\ UNCHANGED <<exit, sdk, server, sig, conn>>

\* ... then waits, with no time limit, until no request is under way, and closes
\* the connections that have none.  It returns the error of closing the listener.
Shutdown ==
  /\ pc = "shutdown" /\ Active = {}
  /\ err' \in BOOLEAN /\ pc' = "close"
  /\ conn' = [c \in Conn |-> IF c \in Quiet THEN "closed" ELSE conn[c]]
  /\ UNCHANGED <<exit, sdk, server, sig>>

CloseSDK ==
  /\ pc = "close"
  /\ sdk' = "closed" /\ pc' = "return"
  /\ UNCHANGED <<err, exit, server, sig, conn>>

\* runFab3 returns; main exits with 1 if it returned an error.
Return ==
  /\ pc = "return"
  /\ Exit(IF err THEN "1" ELSE "0")
  /\ UNCHANGED <<err, sdk, server, sig>>

----------------------------------------------------------------------------
(* Start, in its goroutine, and the requests.                              *)

Alive == pc # "exited"

\* Faulty: the error of Start is dropped.
SendNothing == start' = "done" /\ UNCHANGED errChan

\* errChan <- proxy.Start(), the only send: the buffer has room.
Send == start' = "done" /\ errChan' = TRUE

\* Faulty: Start binds the port without asking whether the server was shut down.
ListenAnyway ==
  /\ Alive /\ start = "spawned"
  /\ \/ start' = "listening" /\ UNCHANGED <<errChan, failed>>
     \/ Send /\ failed' = TRUE
  /\ UNCHANGED <<main, inShutdown, sig, conn>>

\* ListenAndServe: refused after a shutdown, and the port may be taken.
Listen ==
  /\ Alive /\ start = "spawned"
  /\ \/ ~inShutdown /\ start' = "listening" /\ UNCHANGED <<errChan, failed>>
     \/ ~inShutdown /\ Send /\ failed' = TRUE
     \/ inShutdown /\ Send /\ UNCHANGED failed
  /\ UNCHANGED <<main, inShutdown, sig, conn>>

\* Accept fails for good, or the listener was closed by Shutdown.
ServeReturns ==
  /\ Alive /\ start \in {"listening", "closed"}
  /\ Send
  /\ failed' = (failed \/ start = "listening")
  /\ UNCHANGED <<main, inShutdown, sig, conn>>

Connect(c) ==
  /\ Alive /\ start = "listening" /\ conn[c] \in {"none", "closed", "dropped"}
  /\ conn' = [conn EXCEPT ![c] = "open"]
  /\ UNCHANGED <<main, server, sig>>

\* The header of a request, on a connection accepted earlier, perhaps before the
\* listener was closed.
Header(c) ==
  /\ Alive /\ c \in Quiet
  /\ conn' = [conn EXCEPT ![c] = "reading"]
  /\ UNCHANGED <<main, server, sig>>

\* The connection is kept alive, but not during a shutdown.
Replied == IF inShutdown THEN "closed" ELSE "answered"

\* Faulty: names of more than two parts go on to the look-up of the service.
DispatchUnchecked(c, m) ==
  /\ Alive /\ conn[c] = "reading"
  /\ conn' = [conn EXCEPT ![c] = IF m = "one" THEN "dropped" ELSE m]
  /\ UNCHANGED <<main, server, sig>>

\* The request is complete: Method makes service.Method of service_method.
\* "one" part panics, net/http recovers and closes the connection; more than
\* two, or a body that does not parse, is an error; so is an unknown method.
Dispatch(c, m) ==
  /\ Alive /\ conn[c] = "reading"
  /\ conn' = [conn EXCEPT ![c] = CASE m = "one"  -> "dropped"
                                   [] m = "many" -> Replied
                                   [] OTHER      -> m]
  /\ UNCHANGED <<main, server, sig>>

\* A handler that uses the SDK's channel or ledger client: Call, GetCode, Accounts,
\* SendTransaction and the ledger readers.  Each SDK call returns or times out.
Query(c) ==
  /\ Alive /\ conn[c] = "sdk"
  /\ conn' = [conn EXCEPT ![c] = Replied]
  /\ UNCHANGED <<main, server, sig>>

\* One that does not: EstimateGas, GetBalance, GetTransactionCount, net_version
\* and the filters.
Local(c) ==
  /\ Alive /\ conn[c] = "local"
  /\ conn' = [conn EXCEPT ![c] = Replied]
  /\ UNCHANGED <<main, server, sig>>

\* Before Notify a signal ends the process; after it, it is kept if there is room.
Signal ==
  /\ Alive /\ signals < MaxSignals
  /\ signals' = signals + 1
  /\ IF notified THEN signalChan' = TRUE /\ UNCHANGED <<pc, exit, conn>>
     ELSE Exit("killed") /\ UNCHANGED signalChan
  /\ UNCHANGED <<err, sdk, server, notified>>

Exited == pc = "exited" /\ UNCHANGED vars

RunFab3 ==
  \/ CheckFlags \/ NewSDK \/ NewClients \/ GoStart \/ Notify
  \/ SelectError \/ SelectSignal \/ Shutdown \/ CloseSDK \/ Return

Next ==
  \/ RunFab3
  \/ Listen \/ ServeReturns
  \/ \E c \in Conn : Connect(c) \/ Header(c)
  \/ \E c \in Conn, m \in {"one", "many", "sdk", "local"} : Dispatch(c, m)
  \/ \E c \in Conn : Query(c) \/ Local(c)
  \/ Signal
  \/ Exited

Spec == Init /\ [][Next]_vars

\* Goroutines run on, a closed listener makes Serve return, and handlers end.
\* Nobody makes a client send its request to the end, or the listener fail.
FairSpec ==
  /\ Spec
  /\ WF_vars(RunFab3) /\ WF_vars(Listen) /\ WF_vars(start = "closed" /\ ServeReturns)
  /\ \A c \in Conn : WF_vars(Query(c) \/ Local(c))

----------------------------------------------------------------------------
(* Properties.                                                             *)

\* Types of the process's, the server's and the connections' state.
TypeOK ==
  /\ pc \in {"flags", "sdk", "clients", "start", "notify", "select", "shutdown", "close",
             "return", "exited"}
  /\ err \in BOOLEAN /\ exit \in {"none", "0", "1", "killed"} /\ sdk \in {"none", "open", "closed"}
  /\ start \in {"none", "spawned", "listening", "closed", "done"}
  /\ {inShutdown, errChan, notified, signalChan, failed} \subseteq BOOLEAN
  /\ signals \in 0 .. MaxSignals
  /\ conn \in [Conn -> {"none", "open", "reading", "sdk", "local", "answered", "closed",
                     "dropped", "cut"}]

\* However signal, listener and requests race, no request meets a closed SDK
\* or is cut off, except when the listener broke down by itself or a signal
\* came before fab3 asked for signals.
SdkOutlivesRequests ==
  sdk = "closed" /\ ~failed => Active = {} /\ \A c \in Conn : conn[c] # "cut"

\* Whatever way runFab3 ends, the SDK does not stay open, and an end without
\* error means that a signal asked for it.
CleanExit ==
  /\ exit \in {"0", "1"} => sdk # "open"
  /\ exit = "0" => notified /\ signals > 0 /\ inShutdown

\* A client that never sends the end of its request: the server sets no time limit.
Stalled(c) == [](conn[c] = "reading")

\* A signal that fab3 has taken notice of ends the process, unless some client
\* stalls: then Shutdown waits for ever, and later signals go unheard.
SignalEnds == (signalChan \/ pc = "shutdown") ~> (pc = "exited" \/ \E c \in Conn : Stalled(c))

\* If the server cannot listen or stops to, the process does not linger without it.
FailureEnds == (failed /\ Alive) ~> (pc = "exited" \/ \E c \in Conn : Stalled(c))
=============================================================================
