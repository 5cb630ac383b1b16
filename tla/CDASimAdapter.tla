--------------------------- MODULE CDASimAdapter ---------------------------
(***************************************************************************)
(* The CDASim adapter: the plugin that connects V2X-Hub to a simulation    *)
(* (CDASimAdapter.cpp, CDASimConnection.cpp), with the timer threads it    *)
(* reads its four sockets on (ThreadTimer.cpp, ThreadWorker.cpp) and the   *)
(* receive they block in (UdpServer.cpp).                                  *)
(*                                                                         *)
(* The state-change callback runs the connection loop and then starts the  *)
(* timers; it runs again each time the core registers the plugin again.    *)
(* Every timer is a thread of its own that goes through all its ticks and  *)
(* looks at its stop flag only between two passes.                         *)
(***************************************************************************)
EXTENDS Integers, Sequences

CONSTANTS Uninitialized,     \* what max_connection_attempts may hold unset
          MaxRegistrations,  \* bound: registrations with the core
          MaxAttempts,       \* bound: attempts of one unlimited loop
          MaxBadReceives     \* bound: receives or sends that fail

\* The order in which OnStateChange starts the timers.
Timers == <<"time", "sensor", "forward", "receiver">>
Ports == {Timers[i] : i \in 1..4}

VARIABLES maxAttempts,  \* max_connection_attempts
          environment,  \* the environment variables are complete and valid
          callback,     \* where OnStateChange is
          attempts,     \* connection_attempts
          connection,   \* 0: null; n: the n-th CDASimConnection object
          connected,    \* its _connected
          ticks,        \* per timer: the size of _periodicTicks
          tick,         \* per timer: the tick its thread runs; 0: no thread
          stopThread,   \* per timer: _stopThread
          arrived,      \* per socket: a datagram waits in it
          registrations, badReceives

simVars == <<maxAttempts, environment, callback, attempts,
             connection, connected, ticks, tick, stopThread, arrived,
             registrations, badReceives>>

Sleeping == -1
Running(p) == tick[p] # 0

\* The loop condition of OnStateChange, its connection test aside.
MoreAttempts == attempts < maxAttempts \/ maxAttempts < 1

LoopContinues == (connection = 0 \/ ~connected) /\ MoreAttempts

\* UpdateConfigSettings: "success = false; success = success && Get..."
\* never calls GetConfigValue, so the member keeps what it held.
UpdateConfigSettings == maxAttempts' = maxAttempts

SimInit == /\ maxAttempts \in Uninitialized
           /\ environment \in BOOLEAN
           /\ callback = "idle"
           /\ attempts = 0
           /\ connection = 0
           /\ connected = FALSE
           /\ ticks = [p \in Ports |-> 0]
           /\ tick = [p \in Ports |-> 0]
           /\ stopThread = [p \in Ports |-> TRUE]
           /\ arrived = [p \in Ports |-> FALSE]
           /\ registrations = 0
           /\ badReceives = 0

\* OnStateChange(registered): the configuration, then the loop.
Registered == /\ callback = "idle"
              /\ registrations < MaxRegistrations
              /\ registrations' = registrations + 1
              /\ UpdateConfigSettings
              /\ attempts' = 0
              /\ callback' = "connecting"
              /\ UNCHANGED <<environment, connection, connected,
                             ticks, tick, stopThread, arrived, badReceives>>

\* CDASimConnection::connect: the handshake datagram, then the sockets; each
\* may fail, and every socket is bound when it succeeds.
Connect == connected' \in BOOLEAN

\* CDASimAdapter::connect: an environment variable that is missing or no
\* number leaves the connection as it was, otherwise there is a new object.
\* The loop then asks the object, null after the first failure, whether it
\* is connected.
AttemptConnection ==
    /\ callback = "connecting"
    /\ LoopContinues
    /\ attempts < MaxAttempts
    /\ attempts' = attempts + 1
    /\ IF environment
       THEN /\ connection' = connection + 1
            /\ Connect
            /\ arrived' = [p \in Ports |-> FALSE]
            /\ UNCHANGED callback
       ELSE /\ callback' = IF connection = 0 THEN "terminated" ELSE callback
            /\ UNCHANGED <<connection, connected, arrived>>
    /\ UNCHANGED <<maxAttempts, environment, ticks, tick,
                   stopThread, registrations, badReceives>>

LoopEnds == /\ callback = "connecting"
            /\ ~LoopContinues
            /\ callback' = IF connected THEN "start1" ELSE "idle"
            /\ UNCHANGED <<maxAttempts, environment, attempts,
                           connection, connected, ticks, tick, stopThread,
                           arrived, registrations, badReceives>>

Starting(i) == callback = <<"start1", "start2", "start3", "start4">>[i]
Joining(i) == callback = <<"join1", "join2", "join3", "join4">>[i]
AfterStart(i) == <<"start2", "start3", "start4", "idle">>[i]

\* A Start that leaves the flag of a running thread alone.
StopRequestedNot(p) == FALSE

\* Stop: a running thread is asked to stop.
StopRequested(p) == Running(p)

\* start_..._thread_timer: AddPeriodicTick, then Start, whose Stop asks a
\* running thread to stop and joins it.
StartTimer(i) ==
    LET p == Timers[i] IN
    /\ Starting(i)
    /\ ticks' = [ticks EXCEPT ![p] = @ + 1]
    /\ stopThread' = [stopThread EXCEPT ![p] = StopRequested(p)]
    /\ tick' = [tick EXCEPT ![p] = IF Running(p) THEN @ ELSE 1]
    /\ callback' = IF Running(p)
                   THEN <<"join1", "join2", "join3", "join4">>[i]
                   ELSE AfterStart(i)
    /\ UNCHANGED <<maxAttempts, environment, attempts,
                   connection, connected, arrived, registrations,
                   badReceives>>

Joined(i) == /\ Joining(i)
             /\ ~Running(Timers[i])
             /\ stopThread' = [stopThread EXCEPT ![Timers[i]] = FALSE]
             /\ tick' = [tick EXCEPT ![Timers[i]] = 1]
             /\ callback' = AfterStart(i)
             /\ UNCHANGED <<maxAttempts, environment, attempts,
                            connection, connected, ticks, arrived,
                            registrations, badReceives>>

\* The thread goes to the next tick, or sleeps after the last one.
NextTick(p) ==
    tick' = [tick EXCEPT ![p] = IF @ < ticks[p] THEN @ + 1 ELSE Sleeping]

\* TimedReceive: the socket is in select's write set too, so select returns
\* at once and the receive waits for a datagram however long that takes.
Received(p) == arrived[p]

\* One call of the tick function: it waits in TimedReceive, then forwards
\* what it received.  An empty or interrupted receive throws; only the
\* sensor tick does not catch it.  A send that fails throws another type,
\* which the two forwarding ticks do not catch.
Tick(p) ==
    /\ callback # "terminated"
    /\ tick[p] > 0
    /\ Received(p)
    /\ arrived' = [arrived EXCEPT ![p] = FALSE]
    /\ \/ NextTick(p) /\ UNCHANGED <<callback, badReceives>>
       \/ /\ badReceives < MaxBadReceives
          /\ badReceives' = badReceives + 1
          /\ \/ p # "sensor" /\ NextTick(p) /\ UNCHANGED callback
             \/ /\ p # "time"
                /\ callback' = "terminated"
                /\ UNCHANGED tick
    /\ UNCHANGED <<maxAttempts, environment, attempts,
                   connection, connected, ticks, stopThread, registrations>>

\* DoWork after a pass: the sleep is as long as the period of the ticks, so
\* in the next pass every one of them is due again.
NextPass(p) ==
    /\ callback # "terminated"
    /\ tick[p] = Sleeping
    /\ tick' = [tick EXCEPT ![p] = IF stopThread[p] THEN 0 ELSE 1]
    /\ UNCHANGED <<maxAttempts, environment, callback, attempts,
                   connection, connected, ticks, stopThread, arrived,
                   registrations, badReceives>>

\* The simulation, or the forwarding plugin, sends to a bound socket.
SimSends(p) == /\ connected
               /\ callback # "terminated"
               /\ ~arrived[p]
               /\ arrived' = [arrived EXCEPT ![p] = TRUE]
               /\ UNCHANGED <<maxAttempts, environment, callback,
                              attempts, connection, connected, ticks, tick,
                              stopThread, registrations, badReceives>>

Callback == \/ AttemptConnection
            \/ LoopEnds
            \/ \E i \in 1..4 : StartTimer(i) \/ Joined(i)

SimNext == \/ Registered
           \/ Callback
           \/ \E p \in Ports : Tick(p) \/ NextPass(p) \/ SimSends(p)

(***************************************************************************)
(* Properties                                                              *)
(***************************************************************************)

\* A registration that reached the timers gets through all four, also when
\* it must join the threads of an earlier one, as long as datagrams keep
\* arriving on every socket (CDASimAdapter.cpp:57-60, ThreadWorker.cpp:24-40).
StartCompletes ==
    (\E i \in 1..4 : Starting(i)) ~> callback \in {"idle", "terminated"}
=============================================================================
