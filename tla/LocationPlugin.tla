--------------------------- MODULE LocationPlugin ---------------------------
(***************************************************************************)
(* The Location plugin (v2i-hub/LocationPlugin): the receive thread reads  *)
(* the configuration, Main starts the thread that reads positions from     *)
(* gpsd, and a data monitor (TmxUtils/PluginDataMonitor.h) tells the       *)
(* plugin itself when the configured gpsd host has changed.                *)
(*                                                                         *)
(* A position is abstracted to the host it came from and to the facts that *)
(* decide what is sent: whether the fix has a position and whether the     *)
(* throttle lets the message pass.                                         *)
(***************************************************************************)
EXTENDS Integers, Sequences

CONSTANTS
    GpsHosts,         \* values of GPSSource
    NoHost,           \* an empty host
    MaxSourceChanges, \* bound on configuration updates
    MaxFixes          \* bound on positions read

VARIABLES
    gpsSource,        \* GPSSource in the plugin's configuration
    gpsdHost,         \* _gpsdHost
    hostCache,        \* _cache of the data monitor
    locConfigSet,     \* _configSet
    monitoring,       \* _monitoringActive
    gpsGood,          \* _gpsGood
    gpsThread,        \* where MonitorGPS is: "none", "loop", "open", "wait", "ended"
    gpsLocalHost,     \* host, its local copy
    gpsConnected,     \* the host of the open gpsd connection, NoHost for none
    locAt,            \* where Main is: "config", "start", "loop", "join", "done"
    locError,         \* the plugin's state is error
    lastFix,          \* the host the saved position came from (_lat, _lon, ...)
    sourceChanges,    \* configuration updates so far
    locUpdating,      \* the receive thread is inside UpdateConfigSettings
    hostChanges,      \* those that changed the host
    fixes             \* positions read so far

locVars == <<gpsSource, gpsdHost, hostCache, locConfigSet, monitoring, gpsGood,
             gpsThread, gpsLocalHost, gpsConnected, locAt, locError, lastFix,
             sourceChanges, locUpdating, hostChanges, fixes>>

LocInit ==
    /\ gpsSource = NoHost
    /\ gpsdHost = NoHost
    /\ hostCache = NoHost
    /\ locConfigSet = FALSE
    /\ monitoring = FALSE
    /\ gpsGood \in BOOLEAN          \* not initialized by the constructor
    /\ gpsThread = "none"
    /\ gpsLocalHost = NoHost
    /\ gpsConnected = NoHost
    /\ locAt = "config"
    /\ locError = FALSE
    /\ lastFix = NoHost
    /\ sourceChanges = 0
    /\ locUpdating = FALSE
    /\ hostChanges = 0
    /\ fixes = 0

-----------------------------------------------------------------------------
(* The receive thread.                                                     *)

\* PluginDataMonitor::check delivers a DataChangeMessage to the plugin in the same
\* thread; HandleDataChange "resets the connection" by clearing _monitoringActive.
AfterDataChange(host) == IF host = hostCache THEN monitoring ELSE FALSE

\* UpdateConfigSettings, run for every changed key and on registration: the settings
\* are read under _dataLock ...
UpdateLocationSettings ==
    \E host \in GpsHosts :
        /\ sourceChanges < MaxSourceChanges
        /\ ~locError /\ ~locUpdating
        /\ sourceChanges' = sourceChanges + 1
        /\ locUpdating' = TRUE
        /\ gpsSource' = host
        /\ gpsdHost' = host
        /\ UNCHANGED <<hostCache, locConfigSet, monitoring, gpsGood, gpsThread,
                       gpsLocalHost, gpsConnected, locAt, locError, lastFix,
                       hostChanges, fixes>>

\* ... and the data monitor compares the host with its copy after the lock.
CheckHostMonitor ==
    /\ locUpdating
    /\ locUpdating' = FALSE
    /\ monitoring' = AfterDataChange(gpsdHost)
    /\ hostChanges' = hostChanges + (IF gpsdHost = hostCache THEN 0 ELSE 1)
    /\ hostCache' = gpsdHost
    /\ locConfigSet' = TRUE
    /\ UNCHANGED <<gpsSource, gpsdHost, gpsGood, gpsThread, gpsLocalHost, gpsConnected,
                   locAt, locError, lastFix, sourceChanges, fixes>>

LocPluginError ==
    /\ ~locError
    /\ locError' = TRUE
    /\ UNCHANGED <<gpsSource, gpsdHost, hostCache, locConfigSet, monitoring, gpsGood,
                   gpsThread, gpsLocalHost, gpsConnected, locAt, lastFix,
                   sourceChanges, locUpdating, hostChanges, fixes>>

-----------------------------------------------------------------------------
(* Main.                                                                   *)

\* Main waits for the configuration (whatever the plugin's state) ...
LocConfigured ==
    /\ locAt = "config"
    /\ locConfigSet
    /\ locAt' = "start"
    /\ UNCHANGED <<gpsSource, gpsdHost, hostCache, locConfigSet, monitoring, gpsGood,
                   gpsThread, gpsLocalHost, gpsConnected, locError, lastFix,
                   sourceChanges, locUpdating, hostChanges, fixes>>

\* ... and starts the GPS thread, once.
StartMonitoring ==
    /\ locAt = "start"
    /\ monitoring' = TRUE
    /\ gpsThread' = "loop"
    /\ locAt' = "loop"
    /\ gpsGood' = FALSE
    /\ UNCHANGED <<gpsSource, gpsdHost, hostCache, locConfigSet, gpsLocalHost,
                   gpsConnected, locError, lastFix, sourceChanges,
                   locUpdating, hostChanges, fixes>>

StopMonitoringKeepsFlag ==
    /\ locAt = "loop"
    /\ locError
    /\ locAt' = "join"
    /\ UNCHANGED <<gpsSource, gpsdHost, hostCache, locConfigSet, monitoring, gpsGood,
                   gpsThread, gpsLocalHost, gpsConnected, locError, lastFix,
                   sourceChanges, locUpdating, hostChanges, fixes>>

\* The status loop ends with the plugin's error state and stops the GPS thread.
StopMonitoring ==
    /\ locAt = "loop"
    /\ locError
    /\ monitoring' = FALSE
    /\ locAt' = "join"
    /\ UNCHANGED <<gpsSource, gpsdHost, hostCache, locConfigSet, gpsGood, gpsThread,
                   gpsLocalHost, gpsConnected, locError, lastFix, sourceChanges,
                   locUpdating, hostChanges, fixes>>

JoinMonitoring ==
    /\ locAt = "join"
    /\ gpsThread = "ended"
    /\ locAt' = "done"
    /\ UNCHANGED <<gpsSource, gpsdHost, hostCache, locConfigSet, monitoring, gpsGood,
                   gpsThread, gpsLocalHost, gpsConnected, locError, lastFix,
                   sourceChanges, locUpdating, hostChanges, fixes>>

-----------------------------------------------------------------------------
(* MonitorGPS.                                                             *)

\* The head of the loop: ended when monitoring was stopped, otherwise the host is
\* copied under _dataLock; an unset host is waited for.
GpsLoopHead ==
    /\ gpsThread = "loop"
    /\ IF monitoring
       THEN /\ gpsThread' = IF gpsdHost = NoHost THEN "loop"
                            ELSE IF gpsdHost # gpsLocalHost THEN "open" ELSE "wait"
            /\ gpsLocalHost' = gpsdHost
            /\ UNCHANGED gpsConnected
       ELSE /\ gpsThread' = "ended"
            /\ gpsConnected' = NoHost
            /\ UNCHANGED gpsLocalHost
    /\ UNCHANGED <<gpsSource, gpsdHost, hostCache, locConfigSet, monitoring, gpsGood,
                   locAt, locError, lastFix, sourceChanges, locUpdating, hostChanges,
                   fixes>>

\* The connection is opened to _gpsdHost, read again without the lock.
GpsOpen ==
    /\ gpsThread = "open"
    /\ gpsConnected' = gpsdHost
    /\ gpsThread' = "wait"
    /\ UNCHANGED <<gpsSource, gpsdHost, hostCache, locConfigSet, monitoring, gpsGood,
                   gpsLocalHost, locAt, locError, lastFix, sourceChanges,
                   locUpdating, hostChanges, fixes>>

\* waiting() and read(): nothing arrives, the read fails (_gpsGood stays set), or a
\* position is read, broadcast if the throttle allows, and saved for the status items.
GpsWait ==
    /\ gpsThread = "wait"
    /\ \/ /\ gpsGood' \in BOOLEAN
          /\ UNCHANGED <<lastFix, fixes>>
       \/ /\ fixes < MaxFixes
          /\ gpsGood' = TRUE
          /\ lastFix' = gpsConnected
          /\ fixes' = fixes + 1
    /\ gpsThread' = "loop"
    /\ UNCHANGED <<gpsSource, gpsdHost, hostCache, locConfigSet, monitoring,
                   gpsLocalHost, gpsConnected, locAt, locError, sourceChanges,
                   locUpdating, hostChanges>>

LocMain == LocConfigured \/ StartMonitoring \/ StopMonitoring \/ JoinMonitoring
GpsStep == GpsLoopHead \/ GpsOpen \/ GpsWait

LocNext ==
    UpdateLocationSettings \/ CheckHostMonitor \/ LocPluginError \/ LocMain \/ GpsStep

LocSpec == LocInit /\ [][LocNext]_locVars

-----------------------------------------------------------------------------
(* Properties.                                                             *)

\* After the plugin's error Main always gets to the end: the GPS thread sees that
\* it was stopped in whatever step it is.
MainReturns == (locError /\ locAt # "config") ~> (locAt = "done")
=============================================================================
