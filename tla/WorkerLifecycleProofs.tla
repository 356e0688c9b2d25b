----------------------- MODULE WorkerLifecycleProofs -----------------------
(* The types and the exit code of WorkerLifecycle, without a bound on time. *)
EXTENDS WorkerLifecycle, TLAPS

\* The back-off of the connection loops.
Counters == retries \in 0..RetryCap /\ delay \in 0..30

\* Where main() is, and what it returns.
Places == phase \in Phases /\ ret \in {"none", "0", "1", "signal"} /\ logging \in BOOLEAN

\* The handlers on top of it.
Frames == at \in [Signals -> HandlerPoints] /\ inner \in Signals \cup {"none"}

\* A handler stops a worker only once there is one, and whoever leaves run()
\* with 0 has seen the request: no step takes a request or a worker back.
Control ==
    /\ handlers \subseteq Signals /\ registered \in BOOLEAN /\ running \in BOOLEAN
    /\ \A s \in Signals : at[s] = "logging shutdown" => registered
    /\ \A s \in Signals : at[s] = "shutdown" => registered
    /\ ~running => registered
    /\ CleanExitWasRequested

\* A process starts without a request.
LEMMA InitInv == Init => Counters /\ Places /\ Frames /\ Control
<1> SUFFICES ASSUME Init PROVE Counters /\ Places /\ Frames /\ Control
  OBVIOUS
<1>1. Counters
  BY DEF Init, Counters, RetryCap
<1>2. Places
  BY Zenon DEF Init, Places, Phases
<1>3. Frames
  BY DEF Init, Frames, HandlerPoints
<1>4. Control
  BY DEF Init, Control, Signals, CleanExitWasRequested
<1> QED  BY <1>1, <1>2, <1>3, <1>4

\* A failed attempt counts up to RetryCap and sleeps for 30 seconds at most.
LEMMA CountersStep == ASSUME Counters, [Next]_vars PROVE Counters'
<1> USE DEF Counters
<1>1. ASSUME NEW from, NEW to, ConnectFails(from, to)
      PROVE  Counters'
  <2>1. retries' \in 0..RetryCap
    BY <1>1 DEF ConnectFails, RetryCap
  <2>2. delay' = (IF 2 * retries' < 30 THEN 2 * retries' ELSE 30)
    BY <1>1 DEF ConnectFails
  <2>3. \A n \in 0..RetryCap : (IF 2 * n < 30 THEN 2 * n ELSE 30) \in 0..30
    BY DEF RetryCap
  <2>4. delay' \in 0..30
    BY <2>1, <2>2, <2>3
  <2> QED  BY <2>1, <2>4
<1>2. CASE NextConnection
  <2>1. retries' = 0 /\ delay' = delay
    BY <1>2 DEF NextConnection
  <2> QED  BY <2>1 DEF RetryCap
<1>3. CASE UNCHANGED backoff
  BY <1>3 DEF backoff
<1> QED
  BY <1>1, <1>2, <1>3
  DEF Next, Own, Handle, vars, EndLog, LoadConfig, InstallHandler, Construct, Register,
      Exit, Signal, SignalKills, HandlerLogs, CallShutdown, HandlerReturns, Connect,
      ConnectOK, Wake, StartConsuming, StopConnecting, Timeout, Continue, CallbackReturns,
      Receive, ConsumeError

-----------------------------------------------------------------------------
(* The kinds of steps. *)

\* main() goes from one phase to another.
Moves ==
    /\ phase' \in Phases /\ logging' \in BOOLEAN
    /\ UNCHANGED <<control, frames, ret>>

\* run() or main() has a result.
Ends ==
    /\ phase' \in {"returned", "exited"} /\ logging' \in BOOLEAN
    /\ \/ ret' \in {"1", "signal"}
       \/ ret' = "0" /\ ~running
    /\ UNCHANGED <<control, frames>>

\* A step of a handler, or the call of one.
Handles(s) ==
    Signal(s) \/ HandlerLogs(s) \/ CallShutdown(s) \/ HandlerReturns(s)

LEMMA Kinds ==
    ASSUME Next, Places
    PROVE  Moves \/ Ends \/ (\E s \in Signals : Handles(s)) \/ Register
           \/ InstallHandler("SIGINT", "SIGTERM") \/ InstallHandler("SIGTERM", "construct")
<1> USE DEF Goto, Logs, Silent, Places
<1>1. CASE EndLog
  BY <1>1, Zenon DEF EndLog, Moves
<1>2. CASE LoadConfig
  BY <1>2, Zenon DEF LoadConfig, Moves, Ends, Phases
<1>3. CASE Construct \/ Exit
  BY <1>3, Zenon DEF Construct, Exit, Moves, Phases
<1>4. CASE Connect("mysql", "mysql call") \/ Connect("rabbitmq", "rabbitmq call")
  BY <1>4, Zenon DEF Connect, Moves, Phases
<1>5. CASE ConnectOK("mysql call", "mysql ok") \/ ConnectOK("rabbitmq call", "rabbitmq ok")
  BY <1>5, Zenon DEF ConnectOK, Moves, Phases
<1>6. CASE \/ ConnectFails("mysql call", "mysql sleep")
           \/ ConnectFails("rabbitmq call", "rabbitmq sleep")
  BY <1>6, Zenon DEF ConnectFails, Moves, Phases
<1>7. CASE Wake("mysql sleep", "mysql") \/ Wake("rabbitmq sleep", "rabbitmq")
  BY <1>7, Zenon DEF Wake, Moves, Phases
<1>8. CASE NextConnection \/ StartConsuming
  BY <1>8, Zenon DEF NextConnection, StartConsuming, Moves, Phases
<1>9. CASE Timeout \/ Continue \/ Receive \/ CallbackReturns
  BY <1>9, Zenon DEF Timeout, Continue, Receive, CallbackReturns, Moves, Phases
<1>10. CASE StopConnecting \/ ConsumeError
  BY <1>10, Zenon DEF StopConnecting, ConsumeError, Returns, Ends
<1>11. ASSUME NEW s \in Signals, SignalKills(s) PROVE Ends
  BY <1>11, Zenon DEF SignalKills, Ends
<1> QED
  BY <1>1, <1>2, <1>3, <1>4, <1>5, <1>6, <1>7, <1>8, <1>9, <1>10, <1>11
  DEF Next, Own, Handle, Handles

\* main() stays in its phases.
LEMMA PlacesStep == ASSUME Places, [Next]_vars PROVE Places'
<1> USE DEF Places
<1>1. CASE Moves
  BY <1>1, Zenon DEF Moves
<1>2. CASE Ends
  BY <1>2, Zenon DEF Ends, Phases
<1>3. ASSUME NEW s \in Signals, Handles(s) PROVE Places'
  BY <1>3, Zenon DEF Handles, Signal, HandlerLogs, CallShutdown, HandlerReturns
<1>4. CASE Register
  BY <1>4, Zenon DEF Register, Goto, Logs, Phases
<1>5. CASE InstallHandler("SIGINT", "SIGTERM") \/ InstallHandler("SIGTERM", "construct")
  BY <1>5, Zenon DEF InstallHandler, Goto, Silent, Phases
<1>6. CASE UNCHANGED vars
  BY <1>6, Zenon DEF vars
<1> QED  BY <1>1, <1>2, <1>3, <1>4, <1>5, <1>6, Kinds

\* A handler goes from one of its points to another.
LEMMA FramesStep == ASSUME Places, Frames, [Next]_vars PROVE Frames'
<1> USE DEF Frames
<1>1. CASE UNCHANGED frames
  BY <1>1 DEF frames
<1>2. ASSUME NEW s \in Signals, Handles(s) PROVE Frames'
  <2>1. PICK point \in HandlerPoints : at' = [at EXCEPT ![s] = point]
    BY <1>2 DEF Handles, Signal, HandlerLogs, CallShutdown, HandlerReturns, HandlerPoints
  <2>2. inner' \in Signals \cup {"none"}
    BY <1>2 DEF Handles, Signal, HandlerLogs, CallShutdown, HandlerReturns
  <2> QED  BY <2>1, <2>2
<1> QED
  BY <1>1, <1>2, Kinds DEF Moves, Ends, Register, InstallHandler, vars

\* Flags and result.
LEMMA ControlStep == ASSUME Places, Frames, Control, [Next]_vars PROVE Control'
<1> USE DEF Control, CleanExitWasRequested
<1>1. CASE Moves
  BY <1>1 DEF Moves, control, frames
<1>2. CASE Ends
  BY <1>2 DEF Ends, control, frames
<1>3. ASSUME NEW s \in Signals, Handles(s) PROVE Control'
  <2>1. UNCHANGED <<handlers, registered, ret>> /\ (running' = running \/ running' = FALSE)
    BY <1>3
    DEF Handles, Signal, HandlerLogs, CallShutdown, HandlerReturns, control
  <2>2. PICK point \in HandlerPoints :
            /\ at' = [at EXCEPT ![s] = point]
            /\ point \in {"shutdown", "logging shutdown"} => registered
    BY <1>3
    DEF Handles, Signal, HandlerLogs, CallShutdown, HandlerReturns, HandlerPoints
  <2>3. \A t \in Signals : at'[t] \in {"shutdown", "logging shutdown"} => registered
    BY <2>2 DEF Frames
  <2>4. running' = running \/ registered
    BY <1>3
    DEF Handles, Signal, HandlerLogs, CallShutdown, HandlerReturns, control
  <2>5. /\ handlers' \subseteq Signals /\ registered' \in BOOLEAN /\ running' \in BOOLEAN
        /\ ~running' => registered'
        /\ ret' = "0" => registered' /\ ~running'
    <3>1. CASE running' = running
      BY <2>1, <3>1, Zenon
    <3>2. CASE running' = FALSE
      <4>1. registered
        BY <2>4, <3>2, Zenon
      <4> QED  BY <2>1, <3>2, <4>1, Zenon
    <3> QED  BY <2>1, <3>1, <3>2
  <2>6. \A t \in Signals : (at'[t] = "shutdown" => registered')
                         /\ (at'[t] = "logging shutdown" => registered')
    BY <2>1, <2>3
  <2> QED  BY <2>5, <2>6, Zenon
<1>4. CASE Register
  BY <1>4 DEF Register, frames
<1>5. CASE InstallHandler("SIGINT", "SIGTERM") \/ InstallHandler("SIGTERM", "construct")
  <2>1. /\ UNCHANGED <<registered, running, at, ret>>
        /\ handlers' \in {handlers \cup {"SIGINT"}, handlers \cup {"SIGTERM"}}
    BY <1>5 DEF InstallHandler, frames
  <2>2. handlers' \subseteq Signals
    BY <2>1 DEF Signals
  <2> QED  BY <2>1, <2>2, Zenon
<1>6. CASE UNCHANGED vars
  BY <1>6 DEF vars, control, frames
<1> QED  BY <1>1, <1>2, <1>3, <1>4, <1>5, <1>6, Kinds

\* All of them hold in every reachable state.
LEMMA Invariance == Spec => [](Counters /\ Places /\ Frames /\ Control)
<1>1. Counters /\ Places /\ Frames /\ Control /\ [Next]_vars
          => (Counters /\ Places /\ Frames /\ Control)'
  BY CountersStep, PlacesStep, FramesStep, ControlStep
<1> QED  BY InitInv, <1>1, PTL DEF Spec

\* The connection loops never count or wait past their caps.
THEOREM TypeCorrect == Spec => []TypeOK
<1>1. Counters /\ Places /\ Frames /\ Control => TypeOK
  BY DEF Counters, Places, Frames, Control, TypeOK
<1> QED  BY <1>1, Invariance, PTL

\* main() returns 0 only if a signal asked the worker for it.
THEOREM CleanExitsAreRequested == Spec => []CleanExitWasRequested
<1>1. Counters /\ Places /\ Frames /\ Control => CleanExitWasRequested
  BY DEF Control
<1> QED  BY <1>1, Invariance, PTL
=============================================================================
