--------------------------- MODULE MCServicesLive ---------------------------
(***************************************************************************)
(* Liveness of the plugins that wait for someone outside the hub: the      *)
(* CARMA Cloud plugin (the cloud, vehicles), the Port Drayage plugin (its  *)
(* web service, port operators), the CARMA Streets plugin (to Kafka), the  *)
(* CDASim adapter (the simulation) and the priority request server (a      *)
(* signal controller).  They share no state: the initial state says which  *)
(* one runs, the others stay as they started.                              *)
(*                                                                         *)
(* At most one component runs, so one fairness condition serves one thread *)
(* of each of them: Thread(n) is a step of the n-th thread of the          *)
(* component that runs.                                                    *)
(***************************************************************************)
EXTENDS StreetsProducer, FiniteSets

VARIABLES
    active, asked, responses, webTcms, notAcked, age, times, repeater, heard,
    freight, told, inbox, thread, message, posted, last, service, faults, released,
    maxAttempts, environment, callback, attempts, connection, connected, ticks, tick,
    stopThread, arrived, registrations, badReceives, role, controllers, laneStrategy,
    table, reserviceLast, lastSeq, prsBusy, lastSent, lock, srm, ex, coHolds, configs,
    now

cloudVars == <<asked, responses, webTcms, notAcked, age, times, repeater, heard>>
drayVars == <<freight, told, inbox, thread, message, posted, last, service, faults,
              released>>
simVars == <<maxAttempts, environment, callback, attempts, connection,
             connected, ticks, tick, stopThread, arrived, registrations, badReceives>>
prsVars == <<role, controllers, laneStrategy, table, reserviceLast, lastSeq, prsBusy,
             lastSent, lock, srm, ex, coHolds, configs, now>>

vars == <<active, cloudVars, drayVars, prodVars, simVars, prsVars>>

-----------------------------------------------------------------------------
(* The instances.                                                          *)

Cloud == INSTANCE CARMACloudPlugin WITH
    ReqIds <- {1}, MsgNums <- {1}, RepeatTimes <- 1, TimeOut <- 1, MaxResponses <- 3

\* Truck A is inspected and loaded, truck B inspected, unloaded and sent away.
PortFreight ==
    [a1 |-> [veh |-> "A", op |-> "PORT_CHECKPOINT", next |-> "a2"],
     a2 |-> [veh |-> "A", op |-> "PICKUP", next |-> "none"],
     b1 |-> [veh |-> "B", op |-> "PORT_CHECKPOINT", next |-> "b2"],
     b2 |-> [veh |-> "B", op |-> "DROPOFF", next |-> "b3"],
     b3 |-> [veh |-> "B", op |-> "OTHER", next |-> "none"]]

Drayage == INSTANCE PortDrayage WITH
    Trucks <- {"A", "B"}, Actions <- DOMAIN PortFreight, HoldIds <- {"h1", "h2"},
    Freight0 <- PortFreight, FirstAction <- [A |-> "a1", B |-> "b1"],
    NoAction <- "none", NoStatus <- "null", MaxFaults <- 0

Sim == INSTANCE CDASimAdapter WITH
    Uninitialized <- {0, 1}, MaxRegistrations <- 2, MaxAttempts <- 1,
    MaxBadReceives <- 1

SignalPackage(rid) == [rid |-> rid, int |-> 1, off |-> 1]

Prs == INSTANCE PriorityRequestServer WITH
    NumRows <- 2, Intersections <- {1}, Vehicles <- {1, 2}, RoleOf <- <<6, 16>>,
    Configs <- {[role |-> "PRS", lanes |-> <<1>>, ctrls |-> {1}],
                [role |-> "PRG", lanes |-> <<0>>, ctrls |-> {}]},
    RequestIDs <- {1},
    Messages <- {[veh |-> v, seq |-> 0, pkgs |-> <<SignalPackage(1)>>] : v \in {1, 2}},
    GetTries <- 2, TimeToLiveSec <- 1, ReservicePeriod <- [t \in 1..10 |-> 0],
    MaxBroadcasts <- 1, CoStatuses <- {"idleNotValid", "activeProcessing", "closedCompleted"},
    MaxConfigs <- 1, MaxNow <- 1

-----------------------------------------------------------------------------
(* The component that runs.                                                *)

Components == {"cloud", "drayage", "producer", "sim", "prs"}

\* A component that does not run has one of its initial states.
Init ==
    /\ active \in Components
    /\ Cloud!CloudInit
    /\ Drayage!DrayInit
    /\ ProdInit
    /\ Sim!SimInit /\ (active = "sim" \/ (environment /\ maxAttempts = 1))
    /\ Prs!Init

Others ==
    /\ UNCHANGED active
    /\ IF active = "cloud" THEN TRUE ELSE UNCHANGED cloudVars
    /\ IF active = "drayage" THEN TRUE ELSE UNCHANGED drayVars
    /\ IF active = "producer" THEN TRUE ELSE UNCHANGED prodVars
    /\ IF active = "sim" THEN TRUE ELSE UNCHANGED simVars
    /\ IF active = "prs" THEN TRUE ELSE UNCHANGED prsVars

Next ==
    /\ \/ active = "cloud" /\ Cloud!CloudNext
       \/ active = "drayage" /\ Drayage!DrayNext
       \/ active = "producer" /\ ProdNext
       \/ active = "sim" /\ Sim!SimNext
       \/ active = "prs" /\ Prs!Next
    /\ Others

SimPorts == <<"time", "sensor", "forward", "receiver">>

\* The threads, in an order of our own: the operating system runs each of them.  Of
\* the outside world, time passes, the port's operators do their work and trucks go
\* on, Kafka's broker answers, and the simulation goes on sending: a timer's thread
\* waits for its socket only, so one condition serves the thread and the sender.
Thread(n) ==
    /\ \/ active = "cloud" /\ \/ n = 1 /\ Cloud!WebStep
                              \/ n = 2 /\ Cloud!RepeaterStep
                              \/ n = 3 /\ Cloud!CloudTick
       \/ active = "drayage" /\ \/ n = 1 /\ Drayage!PluginStep
                                \/ n = 2 /\ Drayage!OperatorDone
                                \/ n = 3 /\ Drayage!TruckStep
       \/ active = "producer" /\ \/ n = 1 /\ MessageThread
                                 \/ n = 2 /\ Deliver
       \/ active = "sim" /\ \/ n = 1 /\ Sim!Callback
                            \/ n \in 2..5 /\ \/ Sim!Tick(SimPorts[n - 1])
                                             \/ Sim!NextPass(SimPorts[n - 1])
                                             \/ Sim!SimSends(SimPorts[n - 1])
       \/ active = "prs" /\ \/ n = 1 /\ Prs!ExchangeThread
                            \/ n = 2 /\ (Prs!ProcessPrsPackage \/ Prs!ConfigureControllers)
    /\ UNCHANGED active

activeVars ==
    CASE active = "cloud" -> cloudVars
      [] active = "drayage" -> drayVars
      [] active = "producer" -> prodVars
      [] active = "sim" -> simVars
      [] active = "prs" -> prsVars

Spec == Init /\ [][Next]_vars /\ \A n \in 1..5 : WF_activeVars(Thread(n))

-----------------------------------------------------------------------------
(* What is checked, stated in the components' modules.                     *)

\* CARMA Cloud: every TCM is acknowledged or reported as not acknowledged.
TcmAnswered == active = "cloud" => Cloud!TcmAnswered

\* Port drayage: every message is handled, unless a held truck blocks the inspection.
HandledUnlessHeld == active = "drayage" => Drayage!HandledUnlessHeld

\* CDASim: a registration gets through the start of all four timers.
StartCompletes == active = "sim" => Sim!StartCompletes

\* Priority: every stored request is reported in an SSM or leaves the table.
RequestsReported == active = "prs" => Prs!RequestsReported
=============================================================================
