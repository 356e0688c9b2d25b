-------------------------- MODULE WorkerLifecycle --------------------------
(***************************************************************************)
(* One worker process from main() to its exit: loading the configuration,  *)
(* the signal handlers, the two connection loops with their back-off, the  *)
(* consume loop, and what SIGINT and SIGTERM do at each point.             *)
(*                                                                         *)
(* A handler runs on top of what it interrupts, which may be the handler   *)
(* of the other signal.  Both log, as the program does, and a log call     *)
(* holds the mutex of the log's sink (external: std::mutex, which its own  *)
(* owner waits for like anybody else).                                     *)
(***************************************************************************)
EXTENDS Naturals

\* Failed connections are counted up to RetryCap; from 15 on the delay no
\* longer changes, so that a larger count would not behave otherwise.
RetryCap == 16

Signals == {"SIGINT", "SIGTERM"}

VARIABLES
    phase,          \* where main() is
    handlers,       \* the signals for which std::signal has been called
    registered,     \* g_worker points to the worker
    running,        \* Worker::running_
    logging,        \* main() is inside a log call, and has the mutex
    at,             \* where the handler of each signal is
    inner,          \* the signal whose handler was called last and has not returned
    retries, delay, \* of the current connection loop, in seconds
    ret             \* what run() and main() return, "none" before

control == <<handlers, registered, running>>
frames == <<at, inner>>
backoff == <<retries, delay>>
vars == <<phase, control, logging, frames, backoff, ret>>

Phases == {"load", "SIGINT", "SIGTERM", "construct", "register",
           "mysql", "mysql call", "mysql sleep", "mysql ok",
           "rabbitmq", "rabbitmq call", "rabbitmq sleep", "rabbitmq ok",
           "consume", "timed out", "callback", "returned", "exited"}

Connecting == {"mysql", "mysql call", "mysql sleep", "mysql ok",
               "rabbitmq", "rabbitmq call", "rabbitmq sleep", "rabbitmq ok"}

Init ==
    /\ phase = "load"
    /\ handlers = {} /\ registered = FALSE
    /\ running = TRUE
    /\ logging = FALSE
    /\ at = [s \in Signals |-> "none"] /\ inner = "none"
    /\ retries = 0 /\ delay = 0
    /\ ret = "none"

\* main() goes on when no handler is on top of it and its log call has ended.
Resting == inner = "none" /\ ~logging

Goto(from, to) == Resting /\ phase = from /\ phase' = to

\* The log calls of a step, if it has any, are one.
Logs == logging' = TRUE
Silent == logging' = FALSE

EndLog ==
    /\ inner = "none" /\ logging
    /\ logging' = FALSE
    /\ UNCHANGED <<phase, control, frames, backoff, ret>>

-----------------------------------------------------------------------------
(* main *)

LoadConfig ==
    /\ \/ Goto("load", "SIGINT") /\ Logs /\ ret' = ret
       \/ Goto("load", "exited") /\ Silent /\ ret' = "1"
    /\ UNCHANGED <<control, frames, backoff>>

InstallHandler(signal, next) ==
    /\ Goto(signal, next) /\ Silent
    /\ handlers' = handlers \cup {signal}
    /\ UNCHANGED <<registered, running, frames, backoff, ret>>

\* The Worker is constructed; its box pool logs.
Construct ==
    /\ Goto("construct", "register") /\ Logs
    /\ UNCHANGED <<control, frames, backoff, ret>>

\* run() starts with a log call.
Register ==
    /\ Goto("register", "mysql") /\ Logs
    /\ registered' = TRUE
    /\ UNCHANGED <<handlers, running, frames, backoff, ret>>

\* run() has returned, and main() returns after a last log call.
Returns(code) == phase' = "returned" /\ ret' = code /\ Logs

Exit ==
    /\ Goto("returned", "exited") /\ Silent
    /\ UNCHANGED <<control, frames, backoff, ret>>

-----------------------------------------------------------------------------
(* signal_handler.  A signal is blocked while its own handler runs. *)

Signal(s) ==
    /\ phase # "exited"
    /\ s \in handlers /\ at[s] = "none"
    /\ at' = [at EXCEPT ![s] = "log"]
    /\ inner' = s
    /\ UNCHANGED <<phase, control, logging, backoff, ret>>

\* Without a handler a signal ends the process.
SignalKills(s) ==
    /\ phase # "exited"
    /\ s \notin handlers
    /\ phase' = "exited" /\ ret' = "signal"
    /\ UNCHANGED <<control, logging, frames, backoff>>

\* Somebody is inside a log call: main(), or a handler that was interrupted.
SinkLocked == logging \/ \E s \in Signals : at[s] \in {"logging", "logging shutdown"}

\* A handler takes the mutex, for its own message or for that of shutdown().
HandlerLogs(s) ==
    /\ inner = s
    /\ ~SinkLocked
    /\ \/ at[s] = "log" /\ at' = [at EXCEPT ![s] = "logging"]
       \/ at[s] = "shutdown" /\ at' = [at EXCEPT ![s] = "logging shutdown"]
    /\ UNCHANGED <<phase, control, logging, inner, backoff, ret>>

\* if (g_worker) g_worker->shutdown()
CallShutdown(s) ==
    /\ inner = s
    /\ at[s] = "logging"
    /\ registered
    /\ at' = [at EXCEPT ![s] = "shutdown"]
    /\ UNCHANGED <<phase, control, logging, inner, backoff, ret>>

\* The handler's last log call is over: shutdown() stops the worker, and the
\* handler that was interrupted goes on, if there is one.
HandlerReturns(s) ==
    /\ inner = s
    /\ \/ at[s] = "logging" /\ ~registered /\ running' = running
       \/ at[s] = "logging shutdown" /\ running' = FALSE
    /\ at' = [at EXCEPT ![s] = "none"]
    /\ inner' \in {t \in Signals : t # s /\ at[t] # "none"}
                    \cup (IF \A t \in Signals \ {s} : at[t] = "none" THEN {"none"} ELSE {})
    /\ UNCHANGED <<phase, handlers, registered, logging, backoff, ret>>

Handle(s) == HandlerLogs(s) \/ CallShutdown(s) \/ HandlerReturns(s)

-----------------------------------------------------------------------------
(* Worker::run: while (running_ && !connect()) sleep; if (!running_) return 0 *)

Connect(from, to) ==
    /\ Goto(from, to) /\ Silent
    /\ running
    /\ UNCHANGED <<control, frames, backoff, ret>>

ConnectOK(from, to) ==
    /\ Goto(from, to) /\ Logs
    /\ UNCHANGED <<control, frames, backoff, ret>>

\* Mutant: the delay is not capped.
ConnectFailsUncapped(from, to) ==
    /\ Goto(from, to) /\ Logs
    /\ retries' = IF retries < RetryCap THEN retries + 1 ELSE retries
    /\ delay' = 2 * retries'
    /\ UNCHANGED <<control, frames, ret>>

ConnectFails(from, to) ==
    /\ Goto(from, to) /\ Logs
    /\ retries' = IF retries < RetryCap THEN retries + 1 ELSE retries
    /\ delay' = IF 2 * retries' < 30 THEN 2 * retries' ELSE 30
    /\ UNCHANGED <<control, frames, ret>>

Wake(from, to) ==
    /\ Goto(from, to) /\ Silent
    /\ UNCHANGED <<control, frames, backoff, ret>>

\* Both checks of a connection: the loop's condition and the one after it.
StopConnecting ==
    /\ Resting
    /\ phase \in {"mysql", "mysql ok", "rabbitmq", "rabbitmq ok"}
    /\ ~running
    /\ Returns("0")
    /\ UNCHANGED <<control, frames, backoff>>

NextConnection ==
    /\ Goto("mysql ok", "rabbitmq") /\ Logs
    /\ running
    /\ retries' = 0
    /\ UNCHANGED <<control, frames, delay, ret>>

\* Mutant: no check after the second loop.
StartConsumingUnchecked ==
    /\ Goto("rabbitmq ok", "consume") /\ Logs
    /\ UNCHANGED <<control, frames, backoff, ret>>

StartConsuming ==
    /\ Goto("rabbitmq ok", "consume") /\ Logs
    /\ running
    /\ UNCHANGED <<control, frames, backoff, ret>>

-----------------------------------------------------------------------------
(* RabbitMQClient::consume: a loop that looks at nothing but the replies. *)

Timeout ==
    /\ Goto("consume", "timed out") /\ Silent
    /\ UNCHANGED <<control, frames, backoff, ret>>

Continue ==
    /\ Goto("timed out", "consume") /\ Silent
    /\ UNCHANGED <<control, frames, backoff, ret>>

Receive ==
    /\ Goto("consume", "callback") /\ Logs
    /\ UNCHANGED <<control, frames, backoff, ret>>

CallbackReturns ==
    /\ Goto("callback", "consume") /\ Logs
    /\ UNCHANGED <<control, frames, backoff, ret>>

\* Mutant: run() returns 0 when the consume loop ends.
ConsumeErrorIsClean ==
    /\ Resting
    /\ phase = "consume"
    /\ Returns("0")
    /\ UNCHANGED <<control, frames, backoff>>

\* Any other reply ends the loop; run() returns 1.
ConsumeError ==
    /\ Resting
    /\ phase = "consume"
    /\ Returns("1")
    /\ UNCHANGED <<control, frames, backoff>>

-----------------------------------------------------------------------------
\* main()'s own steps; a message or a consume error may never come.
Own ==
    \/ EndLog
    \/ LoadConfig
    \/ InstallHandler("SIGINT", "SIGTERM") \/ InstallHandler("SIGTERM", "construct")
    \/ Construct \/ Register
    \/ Connect("mysql", "mysql call")
    \/ ConnectOK("mysql call", "mysql ok") \/ ConnectFails("mysql call", "mysql sleep")
    \/ Wake("mysql sleep", "mysql")
    \/ NextConnection
    \/ Connect("rabbitmq", "rabbitmq call")
    \/ ConnectOK("rabbitmq call", "rabbitmq ok")
    \/ ConnectFails("rabbitmq call", "rabbitmq sleep")
    \/ Wake("rabbitmq sleep", "rabbitmq")
    \/ StartConsuming
    \/ StopConnecting
    \/ Timeout \/ Continue \/ CallbackReturns
    \/ Exit

Next ==
    \/ Own \/ Receive \/ ConsumeError
    \/ \E s \in Signals : Signal(s) \/ SignalKills(s) \/ Handle(s)

Spec == Init /\ [][Next]_vars

\* Every call of main() returns: a connection attempt, a sleep, a consume with
\* its timeout of one second, a callback; a handler goes on unless it waits for
\* the mutex; and what was interrupted goes on between any two signals.
FairSpec == Spec /\ SF_vars(Own) /\ \A s \in Signals : SF_vars(Handle(s))

-----------------------------------------------------------------------------
(* Properties. *)

HandlerPoints == {"none", "log", "logging", "shutdown", "logging shutdown"}

\* The phases, flags and counters are what they should be.
TypeOK ==
    /\ phase \in Phases
    /\ handlers \subseteq Signals /\ registered \in BOOLEAN /\ running \in BOOLEAN
    /\ logging \in BOOLEAN
    /\ at \in [Signals -> HandlerPoints] /\ inner \in Signals \cup {"none"}
    /\ retries \in 0..RetryCap /\ delay \in 0..30
    /\ ret \in {"none", "0", "1", "signal"}

\* run() returns 0, which main() passes on, only after a shutdown request that
\* reached the worker; a lost connection or a bad configuration is not a
\* clean exit.
CleanExitWasRequested == ret = "0" => registered /\ ~running

\* The handler waits for a log call that it has itself interrupted.
Stuck == inner # "none" /\ at[inner] \in {"log", "shutdown"} /\ SinkLocked

\* A shutdown requested while the worker is still connecting ends it, also
\* when a server stays away for ever or answers just then (unless another
\* signal interrupts a log call).
StopsWhileConnecting ==
    (~running /\ phase \in Connecting) ~> (phase = "exited" \/ Stuck)

\* API.md:346: after SIGINT or SIGTERM the worker leaves its main loop.
GracefulShutdown == ~running ~> (phase = "exited" \/ Stuck)

\* README.md:399: the worker's shutdown() answers SIGINT and SIGTERM; so once
\* there is a worker, a signal makes it stop running.
SignalStopsWorker ==
    \A s \in Signals : (registered /\ at[s] = "log") ~> ~running
=============================================================================
