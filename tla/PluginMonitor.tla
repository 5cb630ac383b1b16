---------------------------- MODULE PluginMonitor ----------------------------
(***************************************************************************)
(* The plugin monitor (TmxCore/src/PluginMonitor.cpp): one thread that     *)
(* starts the processes of the enabled plugins, watches the messages they  *)
(* send, and stops the ones that are disabled, slow to start or silent.    *)
(*                                                                         *)
(* Around it: the plugin processes, their connections to the core (see     *)
(* PluginRegistry), the threads that deliver their messages, and the       *)
(* operator who enables and disables plugins in the database.              *)
(*                                                                         *)
(* Times are kept as ages: how long ago, in units of time, and no more     *)
(* than the largest limit they are compared with.                          *)
(***************************************************************************)
EXTENDS Naturals, FiniteSets

CONSTANTS
  Plugins,       \* installed plugins
  None,          \* no entry, no time
  MaxStartup,    \* MaxStartupTime
  Intervals,     \* the values of maxMessageInterval; zero is no limit
  MaxAge,        \* bound: no interval is longer
  MaxDbErrors    \* bound: database statements of the monitor that fail

ASSUME MonitorAssumption ==
  /\ MaxStartup \in Nat \ {0}
  /\ MaxAge \in Nat
  /\ Intervals \subseteq 0..MaxAge
  /\ MaxDbErrors \in Nat
  /\ None \notin Nat

VARIABLES
  pc,             \* where the monitor thread is
  enabledPlugins, \* its copy of the enabled rows: their message intervals
  toStart,        \* the enabled plugins its start loop has not come to
  starting,       \* the plugin it has just started
  mRunningPlugins,
  mMessages,      \* age of the last message of each plugin since the last pass
  enabled,        \* database: installedPlugin.enabled
  maxMessageInterval, \* database: installedPlugin.maxMessageInterval
  status,         \* database: the plugin status
  process,        \* the process of each plugin: if alive, the signal that ends it
  connection,     \* the registered connection: of this process or an old one
  refused,        \* this process was refused as a duplicate
  transit,        \* a message on its way through a processor thread
  crashed,        \* an exception left the monitor thread: the core terminates
  dbErrors,       \* database errors so far (bounded)
  heard           \* history: a message of this process was delivered

monitorVars == <<pc, enabledPlugins, toStart, starting>>
dbVars == <<enabled, maxMessageInterval>>
processVars == <<process, refused>>
vars == <<pc, enabledPlugins, toStart, starting, mRunningPlugins, mMessages,
          enabled, maxMessageInterval, status, process, connection, refused,
          transit, crashed, dbErrors, heard>>

Signals == {"sigTerm", "sigInt", "sigKill"}
KillStates == {"alive"} \cup Signals
StartAges == 0..MaxStartup
MessageAges == 0..MaxAge

\* PluginMonitoringData, with the message interval of the map's key.
MonitoringData ==
  [startTime : StartAges, lastReceivedTime : MessageAges \cup {None},
   killStatus : KillStates, interval : Intervals]

ASSUME NoneAssumption == None \notin MonitoringData /\ None \notin Plugins

Running == {i \in Plugins : mRunningPlugins[i] # None}
Listed == {i \in Plugins : enabledPlugins[i] # None}

\* A process ends at the latest when it is sent this signal.
Alive(i) == process[i] \in Signals

\* The monitor started a process and has not yet reaped it.
Child(i) == process[i] # "none"

DbError == dbErrors < MaxDbErrors /\ dbErrors' = dbErrors + 1

-----------------------------------------------------------------------------
Init ==
  /\ pc = "sleeping"
  /\ enabledPlugins = [i \in Plugins |-> None]
  /\ toStart = {}
  /\ starting = None
  /\ mRunningPlugins = [i \in Plugins |-> None]
  /\ mMessages = [i \in Plugins |-> None]
  /\ enabled \in [Plugins -> BOOLEAN]
  /\ maxMessageInterval \in [Plugins -> Intervals]
  /\ status = [i \in Plugins |-> "stopped"]
  /\ process = [i \in Plugins |-> "none"]
  /\ connection = [i \in Plugins |-> "none"]
  /\ refused = [i \in Plugins |-> FALSE]
  /\ transit = [i \in Plugins |-> "none"]
  /\ crashed = FALSE
  /\ dbErrors = 0
  /\ heard = [i \in Plugins |-> FALSE]

-----------------------------------------------------------------------------
(* The surroundings                                                        *)

Older(age, limit) == IF age = None \/ age = limit THEN age ELSE age + 1

\* Time passes.
Tick ==
  /\ mRunningPlugins' =
       [i \in Plugins |->
          IF mRunningPlugins[i] = None THEN None
          ELSE [mRunningPlugins[i] EXCEPT
                  !.startTime = Older(@, MaxStartup),
                  !.lastReceivedTime = Older(@, MaxAge)]]
  /\ mMessages' = [i \in Plugins |-> Older(mMessages[i], MaxAge)]
  /\ UNCHANGED <<monitorVars, dbVars, status, processVars, connection, transit,
                 crashed, dbErrors, heard>>

\* The operator enables or disables a plugin (tmxctl --enable, --disable).
SetEnabled(i) ==
  /\ enabled' = [enabled EXCEPT ![i] = ~@]
  /\ UNCHANGED <<monitorVars, mRunningPlugins, mMessages, maxMessageInterval, status,
                 processVars, connection, transit, crashed, dbErrors, heard>>

\* The operator sets its message interval (tmxctl --max-message-interval).
SetMessageInterval(i) ==
  /\ \E t \in Intervals : maxMessageInterval' = [maxMessageInterval EXCEPT ![i] = t]
  /\ UNCHANGED <<monitorVars, mRunningPlugins, mMessages, enabled, status,
                 processVars, connection, transit, crashed, dbErrors, heard>>

\* The process registers: its status is set, its heartbeat is broadcast.
Register(i) ==
  /\ Alive(i) /\ connection[i] = "none" /\ ~refused[i]
  /\ connection' = [connection EXCEPT ![i] = "own"]
  /\ status' = [status EXCEPT ![i] = "running"]
  /\ transit' = [transit EXCEPT ![i] = "own"]
  /\ UNCHANGED <<monitorVars, dbVars, mRunningPlugins, mMessages, process, refused,
                 crashed, dbErrors, heard>>

\* An old connection still holds the name.  The client does not try again.
RegistrationRefused(i) ==
  /\ Alive(i) /\ connection[i] = "old" /\ ~refused[i]
  /\ refused' = [refused EXCEPT ![i] = TRUE]
  /\ UNCHANGED <<monitorVars, dbVars, mRunningPlugins, mMessages, status, process,
                 connection, transit, crashed, dbErrors, heard>>

\* A registered plugin sends a message.
Send(i) ==
  /\ Alive(i) /\ connection[i] = "own" /\ transit[i] = "none"
  /\ transit' = [transit EXCEPT ![i] = "own"]
  /\ UNCHANGED <<monitorVars, dbVars, mRunningPlugins, mMessages, status,
                 processVars, connection, crashed, dbErrors, heard>>

\* onMessageReceived, on the processor thread of the plugin's connection.
OnMessageReceived(i) ==
  /\ transit[i] # "none"
  /\ transit' = [transit EXCEPT ![i] = "none"]
  /\ mMessages' = [mMessages EXCEPT ![i] = 0]
  /\ heard' = [heard EXCEPT ![i] = @ \/ (transit[i] = "own" /\ Child(i))]
  /\ UNCHANGED <<monitorVars, dbVars, mRunningPlugins, status, processVars,
                 connection, crashed, dbErrors>>

\* The process ends: by itself, or by a signal.
Exit(i) ==
  /\ Alive(i)
  /\ process' = [process EXCEPT ![i] = "zombie"]
  /\ refused' = [refused EXCEPT ![i] = FALSE]
  /\ UNCHANGED <<monitorVars, dbVars, mRunningPlugins, mMessages, status,
                 connection, transit, crashed, dbErrors, heard>>

\* The core tears down the connection of a process that has ended, once the
\* message its processor thread is on has been handled.
TearDown(i) ==
  /\ connection[i] = "old" \/ (connection[i] = "own" /\ ~Alive(i))
  /\ transit[i] = "none"
  /\ connection' = [connection EXCEPT ![i] = "none"]
  /\ status' = [status EXCEPT ![i] = "stopped"]
  /\ UNCHANGED <<monitorVars, dbVars, mRunningPlugins, mMessages, processVars,
                 transit, crashed, dbErrors, heard>>

-----------------------------------------------------------------------------
(* The monitor thread                                                      *)

\* Mutant: the messages are cleared and not merged.
NotMerged(i) == mRunningPlugins[i]

Merged(i) ==
  IF mRunningPlugins[i] = None \/ mMessages[i] = None THEN mRunningPlugins[i]
  ELSE [mRunningPlugins[i] EXCEPT !.lastReceivedTime = mMessages[i]]

\* After the check interval, under mMessagesLock, the receive times are moved to
\* the monitoring data of the running plugins.
Merge ==
  /\ pc = "sleeping"
  /\ pc' = "reading"
  /\ mRunningPlugins' = [i \in Plugins |-> Merged(i)]
  /\ mMessages' = [i \in Plugins |-> None]
  /\ UNCHANGED <<enabledPlugins, toStart, starting, dbVars, status, processVars,
                 connection, transit, crashed, dbErrors, heard>>

\* getInstalledPlugins(true).
ReadEnabled ==
  /\ pc = "reading"
  /\ pc' = "reaping"
  /\ enabledPlugins' =
       [i \in Plugins |-> IF enabled[i] THEN maxMessageInterval[i] ELSE None]
  /\ UNCHANGED <<toStart, starting, mRunningPlugins, mMessages, dbVars, status,
                 processVars, connection, transit, crashed, dbErrors, heard>>

\* A database error skips the rest of the pass.
ReadFails ==
  /\ pc = "reading"
  /\ DbError
  /\ pc' = "sleeping"
  /\ UNCHANGED <<enabledPlugins, toStart, starting, mRunningPlugins, mMessages,
                 dbVars, status, processVars, connection, transit, crashed, heard>>

\* Mutant: dead processes stay in the map.
NeverDead(i) == FALSE

\* kill(pid, 0) fails once waitpid has reaped the zombie.
Dead(i) == i \in Running /\ ~Alive(i)

Reap ==
  /\ pc = "reaping"
  /\ pc' = "signalling"
  /\ process' = [i \in Plugins |-> IF i \in Running /\ process[i] = "zombie"
                                   THEN "none" ELSE process[i]]
  /\ mRunningPlugins' = [i \in Plugins |-> IF Dead(i) THEN None
                                           ELSE mRunningPlugins[i]]
  /\ heard' = [i \in Plugins |-> heard[i] /\ ~Dead(i)]
  /\ UNCHANGED <<enabledPlugins, toStart, starting, mMessages, dbVars, status,
                 connection, refused, transit, crashed, dbErrors>>

\* killIt: the plugin is not enabled, never heard of and past its startup time, or
\* silent for too long.  Whether there is a limit is read from the map's key, the
\* limit from the database row.
KillIt(i) ==
  LET d == mRunningPlugins[i] IN
  \/ i \notin Listed
  \/ i \in Listed /\ d.lastReceivedTime = None /\ d.startTime >= MaxStartup
  \/ /\ i \in Listed /\ d.lastReceivedTime # None
     /\ d.interval # 0 /\ d.lastReceivedTime >= enabledPlugins[i]

\* Mutant: the escalation ends with SIGINT.
EscalatedToInt(i) ==
  CASE mRunningPlugins[i].killStatus = "alive" -> IF KillIt(i) THEN "sigTerm" ELSE "alive"
    [] mRunningPlugins[i].killStatus \in Signals -> "sigInt"

\* The signal sent in this pass, and the kill state it leaves.
Escalated(i) ==
  CASE mRunningPlugins[i].killStatus = "alive" -> IF KillIt(i) THEN "sigTerm" ELSE "alive"
    [] mRunningPlugins[i].killStatus = "sigTerm" -> "sigInt"
    [] mRunningPlugins[i].killStatus \in {"sigInt", "sigKill"} -> "sigKill"

SendSignals ==
  /\ pc = "signalling"
  /\ pc' = "starting"
  /\ mRunningPlugins' =
       [i \in Plugins |-> IF i \in Running
                          THEN [mRunningPlugins[i] EXCEPT !.killStatus = Escalated(i)]
                          ELSE None]
  /\ toStart' = Listed
  /\ UNCHANGED <<enabledPlugins, starting, mMessages, dbVars, status, processVars,
                 connection, transit, crashed, dbErrors, heard>>

\* The start loop comes to i: an enabled plugin that is not running is executed.
\* The connection, the messages and the receive time that are still around are
\* those of its last process.
Execute(i) ==
  /\ pc = "starting" /\ starting = None
  /\ i \in toStart \ Running
  /\ toStart' = toStart \ {i}
  /\ starting' = i
  /\ \E s \in Signals : process' = [process EXCEPT ![i] = s]
  /\ connection' = [connection EXCEPT ![i] = IF @ = "own" THEN "old" ELSE @]
  /\ transit' = [transit EXCEPT ![i] = IF @ = "own" THEN "old" ELSE @]
  /\ mRunningPlugins' =
       [mRunningPlugins EXCEPT ![i] =
          [startTime |-> 0, lastReceivedTime |-> None, killStatus |-> "alive",
           interval |-> enabledPlugins[i]]]
  /\ UNCHANGED <<pc, enabledPlugins, mMessages, dbVars, status, refused, crashed,
                 dbErrors, heard>>

\* No executable name, a path outside of the package, or a failed exec: the plugin
\* is disabled, unless that fails too.
ExecuteFails(i) ==
  /\ pc = "starting" /\ starting = None
  /\ i \in toStart \ Running
  /\ toStart' = toStart \ {i}
  /\ \/ enabled' = [enabled EXCEPT ![i] = FALSE] /\ UNCHANGED dbErrors
     \/ DbError /\ UNCHANGED enabled
  /\ UNCHANGED <<pc, enabledPlugins, starting, mRunningPlugins, mMessages,
                 maxMessageInterval, status, processVars, connection, transit,
                 crashed, heard>>

\* setPluginStatus(IVP_STATUS_STARTED), after the process was started.
SetStarted ==
  /\ pc = "starting" /\ starting # None
  /\ starting' = None
  /\ \/ status' = [status EXCEPT ![starting] = "started"] /\ UNCHANGED dbErrors
     \/ DbError /\ UNCHANGED status
  /\ UNCHANGED <<pc, enabledPlugins, toStart, mRunningPlugins, mMessages, dbVars,
                 processVars, connection, transit, crashed, heard>>

\* The start loop is over and the number of plugins is reported.
Report ==
  /\ pc = "starting" /\ starting = None /\ toStart \subseteq Running
  /\ pc' = "sleeping"
  /\ toStart' = {}
  /\ enabledPlugins' = [i \in Plugins |-> None]
  /\ UNCHANGED <<starting, mRunningPlugins, mMessages, dbVars, status,
                 processVars, connection, transit, crashed, dbErrors, heard>>

\* setStatusItems throws a PluginException that nothing in the thread catches.
ReportFails ==
  /\ pc = "starting" /\ starting = None /\ toStart \subseteq Running
  /\ DbError
  /\ crashed' = TRUE
  /\ UNCHANGED <<monitorVars, mRunningPlugins, mMessages, dbVars, status,
                 processVars, connection, transit, heard>>

-----------------------------------------------------------------------------
Monitor ==
  \/ Merge \/ ReadEnabled \/ ReadFails \/ Reap \/ SendSignals
  \/ \E i \in Plugins : Execute(i) \/ ExecuteFails(i)
  \/ SetStarted \/ Report \/ ReportFails

Surroundings(i) ==
  \/ SetEnabled(i) \/ SetMessageInterval(i)
  \/ Register(i) \/ RegistrationRefused(i) \/ Send(i)
  \/ OnMessageReceived(i) \/ Exit(i) \/ TearDown(i)

Next ==
  /\ ~crashed
  /\ Tick \/ Monitor \/ \E i \in Plugins : Surroundings(i)

Spec == Init /\ [][Next]_vars

\* The signals sent so far include the one that ends the process.
Stopping(i) ==
  /\ i \in Running /\ Alive(i)
  /\ process[i] \in (CASE mRunningPlugins[i].killStatus = "alive" -> {}
                       [] mRunningPlugins[i].killStatus = "sigTerm" -> {"sigTerm"}
                       [] mRunningPlugins[i].killStatus = "sigInt" -> Signals \ {"sigKill"}
                       [] mRunningPlugins[i].killStatus = "sigKill" -> Signals)

\* The monitor thread is scheduled, and a process that was sent the signal that
\* ends it does end.
Fairness ==
  /\ WF_vars(~crashed /\ Monitor)
  /\ \A i \in Plugins : WF_vars(~crashed /\ Stopping(i) /\ Exit(i))

FairSpec == Spec /\ Fairness

-----------------------------------------------------------------------------
(* Properties                                                              *)

\* Every variable stays in its domain.
TypeOK ==
  /\ pc \in {"sleeping", "reading", "reaping", "signalling", "starting"}
  /\ enabledPlugins \in [Plugins -> Intervals \cup {None}]
  /\ toStart \in SUBSET Plugins
  /\ starting \in Plugins \cup {None}
  /\ mRunningPlugins \in [Plugins -> MonitoringData \cup {None}]
  /\ mMessages \in [Plugins -> MessageAges \cup {None}]
  /\ enabled \in [Plugins -> BOOLEAN]
  /\ maxMessageInterval \in [Plugins -> Intervals]
  /\ status \in [Plugins -> {"stopped", "started", "running"}]
  /\ process \in [Plugins -> {"none", "zombie"} \cup Signals]
  /\ connection \in [Plugins -> {"none", "own", "old"}]
  /\ refused \in [Plugins -> BOOLEAN]
  /\ transit \in [Plugins -> {"none", "own", "old"}]
  /\ crashed \in BOOLEAN
  /\ dbErrors \in 0..MaxDbErrors
  /\ heard \in [Plugins -> BOOLEAN]

\* The monitor keeps track of its children: it knows every process it started and
\* has not reaped, so it never starts a second process of a plugin; and it has not
\* reaped any process it keeps, so no signal goes to a process id that the system
\* may have given to another process.
ChildrenTracked ==
  \A i \in Plugins : Child(i) <=> i \in Running

\* No message is lost between the delivering threads and the monitor: once one of
\* a process was delivered, its plugin has a receive time, in mMessages or in the
\* monitoring data, and is not restarted for slow startup after the next merge.
HeardNotLost ==
  \A i \in Running :
    heard[i] => mMessages[i] # None \/ mRunningPlugins[i].lastReceivedTime # None

\* The inductive strengthening: only a process the monitor has not reaped is heard,
\* and the start loop visits enabled plugins only.
MonitorInv ==
  /\ TypeOK
  /\ ChildrenTracked
  /\ HeardNotLost
  /\ \A i \in Plugins : heard[i] => Child(i)
  /\ pc = "starting" => toStart \subseteq Listed

\* A plugin that stays disabled is stopped in the end, even one that ignores
\* SIGTERM and SIGINT.
DisabledStops ==
  \A i \in Plugins :
    <>[](~enabled[i]) => <>[](~Alive(i) \/ crashed)

\* A plugin that stays enabled is started, and started again whenever it ends.
EnabledRuns ==
  \A i \in Plugins :
    <>[](enabled[i]) => []<>(Alive(i) \/ crashed)

\* PluginMonitor.cpp:49 describes MaxStartupTime as the "Maximum allowed startup
\* time of a plugin before it is rebooted": a process that has run that long and
\* has not even registered is signalled by the next pass.
StartupTimeEnforced ==
  [][pc = "signalling" /\ pc' = "starting" =>
       \A i \in Running :
         /\ Alive(i) /\ connection[i] # "own"
         /\ mRunningPlugins[i].startTime = MaxStartup
         => mRunningPlugins'[i].killStatus # "alive"]_vars
=============================================================================
