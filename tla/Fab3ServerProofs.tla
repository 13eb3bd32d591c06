-------------------------- MODULE Fab3ServerProofs --------------------------
(***************************************************************************)
(* fab3's life cycle, for any number of connections and signals.           *)
(***************************************************************************)
EXTENDS Fab3Server, TLAPS

Idlers == {"none", "closed", "dropped"}
Before(p) == p \in {"flags", "sdk", "clients", "start"}
Ending(p) == p \in {"close", "return"}

\* Where the SDK is, by the place in runFab3.
SdkInv ==
  /\ pc \in {"flags", "sdk"} => sdk = "none"
  /\ pc \in {"clients", "start", "notify", "select", "shutdown", "close"} => sdk = "open"
  /\ pc = "return" => sdk = "closed"
  /\ pc = "exited" => exit # "none"
  /\ exit \in {"0", "1"} => sdk # "open"

\* The server is started after the SDK, and stopped by Shutdown alone: an
\* error that reaches the select has another cause.
StartInv ==
  /\ Before(pc) => start = "none"
  /\ start = "none" => ~errChan
  /\ start \in {"none", "spawned"} => \A c \in Conn : conn[c] = "none"
  /\ inShutdown => pc \in {"shutdown", "close", "return", "exited"} /\ start # "listening"
  /\ inShutdown => notified /\ signals > 0
  /\ pc = "shutdown" \/ start = "closed" => inShutdown
  /\ errChan => failed \/ inShutdown

\* Signals are taken only when they were asked for.
SignalInv ==
  /\ notified => pc \in {"select", "shutdown", "close", "return", "exited"}
  /\ pc \in {"select", "shutdown", "close", "return"} => notified
  /\ signalChan => notified /\ signals > 0
  /\ pc \in {"close", "return"} /\ ~err => inShutdown
  /\ exit = "0" => notified /\ signals > 0 /\ inShutdown

\* Once runFab3 is past its select without a failure of the listener, nobody
\* is connected any more.
ConnInv ==
  /\ pc # "exited" => exit = "none" /\ \A c \in Conn : conn[c] # "cut"
  /\ Ending(pc) /\ ~failed => inShutdown /\ \A c \in Conn : conn[c] \in Idlers
  /\ pc = "exited" /\ sdk = "closed" /\ ~failed /\ notified =>
       inShutdown /\ \A c \in Conn : conn[c] \in Idlers
  /\ pc = "exited" /\ ~notified => \A c \in Conn : conn[c] # "none" => sdk # "closed"

----------------------------------------------------------------------------
(* Types.                                                                  *)

\* Every step of the process, the server, a client or the signals keeps the types.
LEMMA TypeStep == ASSUME TypeOK, [Next]_vars PROVE TypeOK'
<1> USE ServerConstants
<1>1. CASE CheckFlags
  BY <1>1 DEF TypeOK, CheckFlags, Exit, Active, Running, vars, main, server, sig
<1>2. CASE NewSDK
  BY <1>2 DEF TypeOK, NewSDK, Exit, Active, Running, vars, main, server, sig
<1>3. CASE NewClients
  BY <1>3 DEF TypeOK, NewClients, Exit, Active, Running, vars, main, server, sig
<1>4. CASE GoStart
  BY <1>4 DEF TypeOK, GoStart, vars, main, server, sig
<1>5. CASE Notify
  BY <1>5 DEF TypeOK, Notify, vars, main, server, sig
<1>6. CASE SelectError
  BY <1>6 DEF TypeOK, SelectError, vars, main, server, sig
<1>7. CASE SelectSignal
  BY <1>7 DEF TypeOK, SelectSignal, vars, main, server, sig
<1>8. CASE Shutdown
  BY <1>8 DEF TypeOK, Shutdown, Active, Running, Quiet, vars, main, server, sig
<1>9. CASE CloseSDK
  BY <1>9 DEF TypeOK, CloseSDK, vars, main, server, sig
<1>10. CASE Return
  BY <1>10 DEF TypeOK, Return, Exit, Active, Running, vars, main, server, sig
<1>11. CASE Listen
  BY <1>11 DEF TypeOK, Listen, Send, Alive, vars, main, server, sig
<1>12. CASE ServeReturns
  BY <1>12 DEF TypeOK, ServeReturns, Send, Alive, vars, main, server, sig
<1>13. ASSUME NEW c \in Conn, Connect(c) PROVE TypeOK'
  BY <1>13 DEF TypeOK, Connect, Alive, vars, main, server, sig
<1>14. ASSUME NEW c \in Conn, Header(c) PROVE TypeOK'
  BY <1>14 DEF TypeOK, Header, Alive, Quiet, vars, main, server, sig
<1>15. ASSUME NEW c \in Conn, Query(c) PROVE TypeOK'
  BY <1>15 DEF TypeOK, Query, Alive, Replied, vars, main, server, sig
<1>16. ASSUME NEW c \in Conn, Local(c) PROVE TypeOK'
  BY <1>16 DEF TypeOK, Local, Alive, Replied, vars, main, server, sig
<1>17. ASSUME NEW c \in Conn, NEW m \in {"one", "many", "sdk", "local"}, Dispatch(c, m) PROVE TypeOK'
  BY <1>17 DEF TypeOK, Dispatch, Alive, Replied, vars, main, server, sig
<1>18. CASE Signal
  <2>1. signals' \in 0 .. MaxSignals
    BY <1>18 DEF TypeOK, Signal
  <2>2. signals' \in 0 .. MaxSignals => TypeOK'
    BY <1>18 DEF TypeOK, Signal, Exit, Active, Running, Alive, main, server, sig
  <2> QED
    BY <2>1, <2>2
<1>19. CASE Exited \/ UNCHANGED vars
  BY <1>19 DEF TypeOK, Exited, vars, main, server, sig
<1> QED
  BY <1>1, <1>2, <1>3, <1>4, <1>5, <1>6, <1>7, <1>8, <1>9, <1>10, <1>11, <1>12, <1>13,
     <1>14, <1>15, <1>16, <1>17, <1>18, <1>19
  DEF Next, RunFab3

\* The fields of fab3's process and of its connections keep their types, for any
\* number of connections and signals.
THEOREM TypeCorrect == Spec => []TypeOK
<1>1. Init => TypeOK
  <2>1. 0 \in 0 .. MaxSignals
    BY ServerConstants
  <2> QED
    BY <2>1 DEF Init, TypeOK
<1> QED
  BY <1>1, TypeStep, PTL DEF Spec

----------------------------------------------------------------------------
(* The life cycle.                                                         *)

LifeInv == SdkInv /\ StartInv /\ SignalInv /\ ConnInv

\* Every step keeps the invariant of the life cycle.
LEMMA LifeStep == ASSUME TypeOK, LifeInv, [Next]_vars PROVE LifeInv'
<1> USE DEF TypeOK, LifeInv, SdkInv, StartInv, SignalInv, ConnInv, Idlers, Before, Ending
<1>1. CASE CheckFlags
  BY <1>1 DEF CheckFlags, Exit, Active, Running, vars, main, server, sig
<1>2. CASE NewSDK
  BY <1>2 DEF NewSDK, Exit, Active, Running, vars, main, server, sig
<1>3. CASE NewClients
  BY <1>3 DEF NewClients, Exit, Active, Running, vars, main, server, sig
<1>4. CASE GoStart
  BY <1>4 DEF GoStart, vars, main, server, sig
<1>5. CASE Notify
  BY <1>5 DEF Notify, vars, main, server, sig
<1>6. CASE SelectError
  BY <1>6 DEF SelectError, vars, main, server, sig
<1>7. CASE SelectSignal
  BY <1>7 DEF SelectSignal, vars, main, server, sig
<1>8. CASE Shutdown
  BY <1>8 DEF Shutdown, Active, Running, Quiet, vars, main, server, sig
<1>9. CASE CloseSDK
  BY <1>9 DEF CloseSDK, vars, main, server, sig
<1>10. CASE Return
  BY <1>10 DEF Return, Exit, Active, Running, vars, main, server, sig
<1>11. CASE Listen
  BY <1>11 DEF Listen, Send, Alive, vars, main, server, sig
<1>12. CASE ServeReturns
  BY <1>12 DEF ServeReturns, Send, Alive, vars, main, server, sig
<1>13. ASSUME NEW c \in Conn, Connect(c) PROVE LifeInv'
  BY <1>13 DEF Connect, Alive, vars, main, server, sig
<1>14. ASSUME NEW c \in Conn, Header(c) PROVE LifeInv'
  BY <1>14 DEF Header, Alive, Quiet, vars, main, server, sig
<1>15. ASSUME NEW c \in Conn, Query(c) PROVE LifeInv'
  BY <1>15 DEF Query, Alive, Replied, vars, main, server, sig
<1>16. ASSUME NEW c \in Conn, Local(c) PROVE LifeInv'
  BY <1>16 DEF Local, Alive, Replied, vars, main, server, sig
<1>17. ASSUME NEW c \in Conn, NEW m \in {"one", "many", "sdk", "local"}, Dispatch(c, m)
      PROVE LifeInv'
  BY <1>17 DEF Dispatch, Alive, Replied, vars, main, server, sig
<1>18. CASE Signal
  BY <1>18 DEF Signal, Exit, Active, Running, Alive, vars, main, server, sig
<1>19. CASE Exited \/ UNCHANGED vars
  BY <1>19 DEF Exited, vars, main, server, sig
<1> QED
  BY <1>1, <1>2, <1>3, <1>4, <1>5, <1>6, <1>7, <1>8, <1>9, <1>10, <1>11, <1>12, <1>13,
     <1>14, <1>15, <1>16, <1>17, <1>18, <1>19
  DEF Next, RunFab3

\* Together with the types, the invariant of the life cycle holds throughout.
LEMMA LifeCycle == Spec => []LifeInv
<1>1. Init => LifeInv
  BY DEF Init, LifeInv, SdkInv, StartInv, SignalInv, ConnInv, Before, Ending
<1> QED
  BY <1>1, LifeStep, TypeCorrect, PTL DEF Spec

\* Shutdown and the closing of the SDK: for any number of connections, no request
\* meets a closed SDK or is cut off, unless the listener broke down by itself.
THEOREM SdkLast == Spec => []SdkOutlivesRequests
<1>1. TypeOK /\ LifeInv => SdkOutlivesRequests
  <2> SUFFICES ASSUME TypeOK, LifeInv, sdk = "closed", ~failed, NEW c \in Conn
              PROVE conn[c] \in Idlers
    BY DEF SdkOutlivesRequests, Active, Running, Idlers
  <2>1. pc \in {"close", "return", "exited"}
    BY DEF TypeOK, LifeInv, SdkInv
  <2>2. CASE pc \in {"close", "return"}
    BY <2>2 DEF LifeInv, ConnInv, Ending
  <2>3. CASE pc = "exited"
    BY <2>3 DEF LifeInv, ConnInv, TypeOK, Idlers
  <2> QED
    BY <2>1, <2>2, <2>3
<1> QED
  BY <1>1, TypeCorrect, LifeCycle, PTL

\* Every return of runFab3 closes the SDK if it is open, and only a signal ends
\* the process without an error.
THEOREM ExitClean == Spec => []CleanExit
<1>1. LifeInv => CleanExit
  BY DEF LifeInv, SdkInv, SignalInv, CleanExit
<1> QED
  BY <1>1, LifeCycle, PTL
=============================================================================
