----------------------------- MODULE SpatPlugin -----------------------------
(***************************************************************************)
(* The SPaT plugin (v2i-hub/SpatPlugin): a timer thread receives signal    *)
(* phase and timing packets of the traffic signal controller (TSC) on a    *)
(* UDP port and reports the health of the connection; the receive thread   *)
(* of the plugin replaces the connection when the configuration changes.   *)
(*                                                                         *)
(* A packet is abstracted to what its processing does: a SPaT message is   *)
(* broadcast, its payload is invalid, or the receive fails.  The select    *)
(* call of UdpServer::TimedReceive watches the socket for writing, so a    *)
(* receive ends with a packet or a failure and not with a timeout.         *)
(***************************************************************************)
EXTENDS Integers

CONSTANTS
    SpatPorts,        \* values of Local_UDP_Port
    NoPort,           \* no connection
    MaxSpatUpdates,   \* bound on UpdateConfigSettings
    MaxPackets        \* bound on the packets of interest

VARIABLES
    spatPort,         \* the port scConnection is bound to
    newPort,          \* the port UpdateConfigSettings has read
    spatAt,           \* the receive thread: "idle", "stop", "bind", "start"
    spatTicks,        \* periodic ticks of spatReceiverThread
    tickAt,           \* the tick its worker is in
    spatStop,         \* its stop flag
    spatThread,       \* its worker: "none", "receive", "process", "ended"
    spatConnected,    \* isConnected
    spatStatus,       \* status item "Connection Status"
    spatSeen,         \* a packet has been received: lastSpatTimeMs # 0
    longInterval,     \* maxSpatIntervalMs exceeds the limit
    skipped,          \* skippedMessages
    spatLive,         \* the process has not been terminated
    spatUpdates, packets

spatVars == <<spatPort, newPort, spatAt, spatTicks, tickAt, spatStop, spatThread,
              spatConnected, spatStatus, spatSeen, longInterval, skipped, spatLive,
              spatUpdates, packets>>

SpatInit ==
    /\ spatPort = NoPort /\ newPort = NoPort
    /\ spatAt = "idle"
    /\ spatTicks = 0 /\ tickAt = 1
    /\ spatStop = FALSE
    /\ spatThread = "none"
    /\ spatConnected = FALSE
    /\ spatStatus = "none"
    /\ spatSeen = FALSE
    /\ longInterval = FALSE
    /\ skipped = 0
    /\ spatLive = TRUE
    /\ spatUpdates = 0 /\ packets = 0

-----------------------------------------------------------------------------
(* UpdateConfigSettings, in the plugin's receive thread.                   *)

\* Registration or a changed key; a running thread is asked to stop first.
SpatUpdateSettings ==
    \E port \in SpatPorts :
        /\ spatLive
        /\ spatAt = "idle"
        /\ spatUpdates < MaxSpatUpdates
        /\ spatUpdates' = spatUpdates + 1
        /\ newPort' = port
        /\ IF spatPort # NoPort /\ spatThread # "none"
           THEN spatStop' = TRUE /\ spatAt' = "stop"
           ELSE spatAt' = "bind" /\ UNCHANGED spatStop
        /\ UNCHANGED <<spatPort, spatTicks, tickAt, spatThread, spatConnected, spatStatus,
                       spatSeen, longInterval, skipped, spatLive, packets>>

\* Stop joins the worker.
SpatJoin ==
    /\ spatLive
    /\ spatAt = "stop"
    /\ spatThread = "ended"
    /\ spatThread' = "none"
    /\ spatAt' = "bind"
    /\ UNCHANGED <<spatPort, newPort, spatTicks, tickAt, spatStop, spatConnected, spatStatus,
                   spatSeen, longInterval, skipped, spatLive, spatUpdates, packets>>

\* The new connection is made before the old one is destroyed: its port cannot be
\* bound again, and the plugin terminates itself.
SpatBind ==
    /\ spatLive
    /\ spatAt = "bind"
    /\ IF newPort = spatPort
       THEN /\ spatLive' = FALSE
            /\ UNCHANGED <<spatPort, spatStatus, spatAt>>
       ELSE /\ spatPort' = newPort
            /\ spatStatus' = "IDLE"
            /\ spatAt' = "start"
            /\ UNCHANGED spatLive
    /\ UNCHANGED <<newPort, spatTicks, tickAt, spatStop, spatThread, spatConnected, spatSeen,
                   longInterval, skipped, spatUpdates, packets>>

\* Another tick is added and the thread is started (again).
SpatStart ==
    /\ spatLive
    /\ spatAt = "start"
    /\ spatTicks' = spatTicks + 1
    /\ tickAt' = 1
    /\ spatStop' = FALSE
    /\ spatThread' = "receive"
    /\ spatAt' = "idle"
    /\ UNCHANGED <<spatPort, newPort, spatConnected, spatStatus, spatSeen, longInterval,
                   skipped, spatLive, spatUpdates, packets>>

-----------------------------------------------------------------------------
(* The timer thread.                                                       *)

\* measureSpatInterval after a SPaT message: an interval above the limit makes the
\* connection unhealthy; the first message has no interval.
StatusAfter(late) == IF spatSeen /\ late THEN "UNHEALTHY" ELSE spatStatus

\* The tick sets the status once, after the first packet, whatever came of it.
TickStatus(status, long) ==
    IF ~spatConnected /\ ~long THEN "HEALTHY" ELSE status

\* processTSCPacket and the rest of the tick for a packet that holds a SPaT message.
SpatPacket ==
    \E late \in BOOLEAN :
        LET long == longInterval \/ (spatSeen /\ late)
        IN  /\ spatLive
            /\ spatThread = "receive"
            /\ late => packets < MaxPackets
            /\ packets' = packets + (IF late THEN 1 ELSE 0)
            /\ longInterval' = long
            /\ spatStatus' = TickStatus(StatusAfter(late), long)
            /\ spatSeen' = TRUE
            /\ spatConnected' = TRUE
            /\ spatThread' = "process"
            /\ UNCHANGED <<spatPort, newPort, spatAt, spatTicks, tickAt, spatStop, skipped,
                           spatLive, spatUpdates>>

\* A packet with an invalid payload is skipped and counted.
SpatInvalidPacket ==
    /\ spatLive
    /\ spatThread = "receive"
    /\ packets < MaxPackets
    /\ packets' = packets + 1
    /\ skipped' = skipped + 1
    /\ spatStatus' = TickStatus(spatStatus, longInterval)
    /\ spatConnected' = TRUE
    /\ spatThread' = "process"
    /\ UNCHANGED <<spatPort, newPort, spatAt, spatTicks, tickAt, spatStop, spatSeen,
                   longInterval, spatLive, spatUpdates>>

\* A failed receive makes the connection unhealthy, except in the first tick, whose
\* end overwrites that status.
SpatReceiveFails ==
    /\ spatLive
    /\ spatThread = "receive"
    /\ packets < MaxPackets
    /\ packets' = packets + 1
    /\ spatStatus' = TickStatus("UNHEALTHY", longInterval)
    /\ spatConnected' = TRUE
    /\ spatThread' = "process"
    /\ UNCHANGED <<spatPort, newPort, spatAt, spatTicks, tickAt, spatStop, spatSeen,
                   longInterval, skipped, spatLive, spatUpdates>>

SpatThreadGoesOnAlways ==
    /\ spatLive
    /\ spatThread = "process"
    /\ spatThread' = "receive"
    /\ UNCHANGED <<spatPort, newPort, spatAt, spatTicks, tickAt, spatStop, spatConnected,
                   spatStatus, spatSeen, longInterval, skipped, spatLive, spatUpdates,
                   packets>>

\* The end of a tick: the next tick of this pass, or, when no other one is due, the
\* next pass, unless the stop flag is set.
SpatThreadGoesOn ==
    /\ spatLive
    /\ spatThread = "process"
    /\ \/ /\ tickAt < spatTicks
          /\ tickAt' = tickAt + 1
          /\ spatThread' = "receive"
       \/ /\ tickAt' = 1
          /\ spatThread' = IF spatStop THEN "ended" ELSE "receive"
    /\ UNCHANGED <<spatPort, newPort, spatAt, spatTicks, spatStop, spatConnected,
                   spatStatus, spatSeen, longInterval, skipped, spatLive, spatUpdates,
                   packets>>

SpatSettingsStep == SpatJoin \/ SpatBind \/ SpatStart
SpatReceived == SpatPacket \/ SpatInvalidPacket \/ SpatReceiveFails

SpatNext == SpatUpdateSettings \/ SpatSettingsStep \/ SpatReceived \/ SpatThreadGoesOn

SpatSpec == SpatInit /\ [][SpatNext]_spatVars

-----------------------------------------------------------------------------
(* Properties.                                                             *)

\* A change of the configuration is applied in the end (or terminates the plugin),
\* as long as the controller goes on sending: the receive thread waits for the timer
\* thread, which waits for a packet.
SettingsApplied == (spatAt # "idle") ~> (spatAt = "idle" \/ ~spatLive)
=============================================================================
