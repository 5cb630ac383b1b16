----------------------------- MODULE MCHubLive -----------------------------
(***************************************************************************)
(* Liveness of the threads inside one process: the router of the core, the *)
(* message manager of the client library, the state pipeline of tmxctl,    *)
(* and the DMS, Location, SPaT, MAP and TIM plugins.  They share no state: *)
(* the initial state says which one runs, the others stay as they started. *)
(*                                                                         *)
(* At most one component runs, so one fairness condition serves one thread *)
(* of each of them: Thread(n) is a step of the n-th thread of the          *)
(* component that runs.                                                    *)
(***************************************************************************)
EXTENDS Integers, Sequences, FiniteSets, TLC

CONSTANT Null   \* a NULL subtype, no call: a model value

VARIABLES
    active,
    keys, filters, mActiveBroadcasts, mMapLock, pc, arg, cursor, alive, crashed, ops,
    torn, overlapped, late, delivered, expected,
    settings, strategy, starts, inQ, outQ, count, threadId, next, producer, busy,
    output, handled,
    call, at, result, holds, child, pipe, carried, sent, arrived, failures,
    dmsText, textSent, allSent, enableDms, requested, shown, signLock, dmsAt, dmsArg,
    memory, display, asks, disabled, failed,
    gpsSource, gpsdHost, hostCache, locConfigSet, monitoring, gpsGood, gpsThread,
    gpsLocalHost, gpsConnected, locAt, locError, lastFix, sourceChanges, locUpdating,
    hostChanges, fixes,
    spatPort, newPort, spatAt, spatTicks, tickAt, spatStop, spatThread, spatConnected,
    spatStatus, spatSeen, longInterval, skipped, spatLive, spatUpdates, packets,
    mapTable, mapFiles, mapAction, mapFileNew, cohdaR63, mapAt, mapFilesOk, mapWanted,
    activeAction, mapMsg, mapSent, mapUpdates, mapSelections,
    timPhase, timFile, timFileNew, timMsg, timUpdated, timAt, timPost, timAnswers,
    timSent, timFiles, posts

routerVars == <<keys, filters, mActiveBroadcasts, mMapLock, pc, arg, cursor, alive,
                crashed, ops, torn, overlapped, late, delivered, expected>>
managerVars == <<settings, strategy, starts, inQ, outQ, count, threadId, next, producer,
                 busy, output, handled>>
pipelineVars == <<call, at, result, holds, child, pipe, carried, sent, arrived, failures>>
dmsVars == <<dmsText, textSent, allSent, enableDms, requested, shown, signLock, dmsAt,
             dmsArg, memory, display, asks, disabled, failed>>
locVars == <<gpsSource, gpsdHost, hostCache, locConfigSet, monitoring, gpsGood,
             gpsThread, gpsLocalHost, gpsConnected, locAt, locError, lastFix,
             sourceChanges, locUpdating, hostChanges, fixes>>
spatVars == <<spatPort, newPort, spatAt, spatTicks, tickAt, spatStop, spatThread,
              spatConnected, spatStatus, spatSeen, longInterval, skipped, spatLive,
              spatUpdates, packets>>
mapVars == <<mapTable, mapFiles, mapAction, mapFileNew, cohdaR63, mapAt, mapFilesOk,
             mapWanted, activeAction, mapMsg, mapSent, mapUpdates, mapSelections>>
timVars == <<timPhase, timFile, timFileNew, timMsg, timUpdated, timAt, timPost,
             timAnswers, timSent, timFiles, posts>>

vars == <<active, routerVars, managerVars, pipelineVars, dmsVars, locVars, spatVars,
          mapVars, timVars>>

-----------------------------------------------------------------------------
(* The instances.                                                          *)

\* A BSM with a flag set, and a message whose subtype is NULL.
HubMessages ==
    {[type |-> "J2735", subtype |-> "BSM", flags |-> {"RouteDSRC"}],
     [type |-> "J2735", subtype |-> Null, flags |-> {}]}

Filter(t, st, fl) == [type |-> t, subtype |-> st, flagmask |-> fl]

\* No filters; two filters that both match a BSM; one with a flag mask.
HubFilterLists ==
    {{},
     {Filter("J2735", "BSM", {}), Filter("*", "*", {"RouteDSRC"})},
     {Filter("J2735", "*", {"Validated"}), Filter("J2735", "MAP", {})}}

Router == INSTANCE MessageRouterBasic WITH
    NumReceivers <- 2, MaxOps <- 3, Messages <- HubMessages,
    FilterLists <- HubFilterLists, Wildcard <- "*"

Manager == INSTANCE MessageManager WITH
    Sources <- {"s1"}, NoSource <- "none", Sizes <- <<2>>,
    Strategies <- {"RoundRobin", "Random", "ShortestQueue"}, Capacity <- 2,
    Overflow <- 1, MaxMessages <- 2

Pipeline == INSTANCE StatePipeline WITH Blocks <- 4, PipeSize <- 1, MaxFailures <- 2

Dms == INSTANCE DmsPlugin WITH
    at <- dmsAt, arg <- dmsArg, MsgIds <- {1, 2}, Texts <- {1}, MaxAsks <- 2,
    MaxFailed <- 1

Location == INSTANCE LocationPlugin WITH
    GpsHosts <- {"h1", "h2"}, NoHost <- "", MaxSourceChanges <- 3, MaxFixes <- 2

Spat == INSTANCE SpatPlugin WITH
    SpatPorts <- {1, 2}, NoPort <- 0, MaxSpatUpdates <- 3, MaxPackets <- 3

\* One good file; two; one that cannot be read; one that is no map.
HubMapTables == {0 :> "f", (0 :> "g") @@ (1 :> "f"), (1 :> "x") @@ (0 :> "g"), 1 :> "o"}

Map == INSTANCE MapPlugin WITH
    MapActions <- {0, 1}, MapTables <- HubMapTables, GoodFiles <- {"f", "g"},
    BadFiles <- {"x"}, NoBytes <- "", NoFile <- "none", MaxTableUpdates <- 3,
    MaxSelections <- 2

Tim == INSTANCE TimPlugin WITH
    FileTims <- {"f"}, PostTims <- {"p"}, NoTim <- "none", MaxTimFiles <- 2,
    MaxPosts <- 2

-----------------------------------------------------------------------------
(* The component that runs.                                                *)

Components ==
    {"router", "manager", "pipeline", "dms", "location", "spat", "map", "tim"}

\* A component that does not run has one of its initial states.
Init ==
    /\ active \in Components
    /\ Router!Init
    /\ Manager!Init /\ (active = "manager" \/ strategy = "Random")
    /\ Pipeline!PipelineInit /\ (active = "pipeline" \/ call = "save")
    /\ Dms!DmsInit /\ (active = "dms" \/ (dmsText = <<1, 1>> /\ ~enableDms))
    /\ Location!LocInit /\ (active = "location" \/ gpsGood)
    /\ Spat!SpatInit
    /\ Map!MapInit /\ (active = "map" \/ mapTable = (0 :> "f"))
    /\ Tim!TimInit /\ (active = "tim" \/ timPhase = [m \in Tim!Tims |-> "future"])

Others ==
    /\ UNCHANGED active
    /\ IF active = "router" THEN TRUE ELSE UNCHANGED routerVars
    /\ IF active = "manager" THEN TRUE ELSE UNCHANGED managerVars
    /\ IF active = "pipeline" THEN TRUE ELSE UNCHANGED pipelineVars
    /\ IF active = "dms" THEN TRUE ELSE UNCHANGED dmsVars
    /\ IF active = "location" THEN TRUE ELSE UNCHANGED locVars
    /\ IF active = "spat" THEN TRUE ELSE UNCHANGED spatVars
    /\ IF active = "map" THEN TRUE ELSE UNCHANGED mapVars
    /\ IF active = "tim" THEN TRUE ELSE UNCHANGED timVars

Next ==
    /\ \/ active = "router" /\ Router!Next
       \/ active = "manager" /\ Manager!Next
       \/ active = "pipeline" /\ Pipeline!PipelineNext
       \/ active = "dms" /\ Dms!DmsNext
       \/ active = "location" /\ Location!LocNext
       \/ active = "spat" /\ Spat!SpatNext
       \/ active = "map" /\ Map!MapNext
       \/ active = "tim" /\ Tim!TimNext
    /\ Others

\* The threads, in an order of our own: the operating system runs each of them.
\* What the outside world may leave out (configuration changes, requests, failures)
\* is in no thread; that the SPaT controller goes on sending is.
Thread(n) ==
    /\ \/ active = "router" /\ n \in 1..2 /\ ~crashed /\ Router!Continue(n)
       \/ active = "manager" /\ \/ n = 1 /\ Manager!ProducerStep
                                \/ n = 2 /\ Manager!OutputStep
                                \/ n \in 3..4 /\ Manager!WorkerQueueStep(n - 2, 1)
                                \/ n \in 5..6 /\ Manager!WorkerQueueStep(n - 4, 2)
       \/ active = "pipeline" /\ \/ n = 1 /\ Pipeline!Caller
                                 \/ n \in 2..4 /\ Pipeline!Process(n - 1)
       \/ active = "dms" /\ \/ n = 1 /\ Dms!MainStep
                            \/ n = 2 /\ Dms!ThreadStep("message")
       \/ active = "location" /\ \/ n = 1 /\ Location!CheckHostMonitor
                                 \/ n = 2 /\ Location!LocMain
                                 \/ n = 3 /\ Location!GpsStep
       \/ active = "spat" /\ \/ n = 1 /\ Spat!SpatSettingsStep
                             \/ n = 2 /\ Spat!SpatReceived
                             \/ n = 3 /\ Spat!SpatThreadGoesOn
       \/ active = "map" /\ n = 1 /\ Map!MapMain
       \/ active = "tim" /\ n = 1 /\ Tim!TimMain
    /\ UNCHANGED active

activeVars ==
    CASE active = "router" -> routerVars
      [] active = "manager" -> managerVars
      [] active = "pipeline" -> pipelineVars
      [] active = "dms" -> dmsVars
      [] active = "location" -> locVars
      [] active = "spat" -> spatVars
      [] active = "map" -> mapVars
      [] active = "tim" -> timVars

Spec == Init /\ [][Next]_vars /\ \A n \in 1..6 : WF_activeVars(Thread(n))

-----------------------------------------------------------------------------
(* What is checked, stated in the components' modules.                     *)

\* A call of the router returns, whatever the other threads do.
CallsReturn == active = "router" => Router!CallsReturn

\* Every message in an incoming queue is handled in the end.
QueuesDrain == active = "manager" => Manager!QueuesDrain

\* Saving and restoring the database return.
StateCallReturns == active = "pipeline" => Pipeline!StateCallReturns

\* A requested message gets to the sign.
RequestShown == active = "dms" => Dms!RequestShown

\* After an error Main joins the GPS thread and returns.
MainReturns == active = "location" => Location!MainReturns

\* A changed configuration is applied, or ends the plugin.
SettingsApplied == active = "spat" => Spat!SettingsApplied

\* The map of the selected action is sent in the end.
LoadedMapSent == active = "map" => Map!LoadedMapSent

\* TIM plugin: the current message is sent.
CurrentTimSent == active = "tim" => Tim!CurrentTimSent
=============================================================================
