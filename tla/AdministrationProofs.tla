----------------------- MODULE AdministrationProofs ------------------------
(***************************************************************************)
(* How the hub is administered, for any plugins, clients, settings and     *)
(* limits: the plugin monitor keeps track of its child processes and of the*)
(* messages it was sent, and tmxctl leaves no plugin installed without its *)
(* files.                                                                  *)
(***************************************************************************)
EXTENDS PluginMonitor, TmxControl, TLAPS

----------------------------------------------------------------------------
(* Plugin monitor *)

USE DEF monitorVars, dbVars, processVars

\* The initial state satisfies the inductive invariant.
LEMMA MonitorInit == Init => MonitorInv
  <1> SUFFICES ASSUME Init PROVE MonitorInv
    BY Zenon
  <1>1. TypeOK
    <2>1. dbErrors \in 0..MaxDbErrors
      BY MonitorAssumption DEF Init
    <2> QED BY Zenon, <2>1 DEF Init, TypeOK
  <1>2. ChildrenTracked /\ HeardNotLost
    BY Zenon DEF Init, ChildrenTracked, HeardNotLost, Child, Running
  <1> QED BY Zenon, <1>1, <1>2 DEF MonitorInv, Init

\* Ages only grow up to their limit.
LEMMA OlderTyped ==
  ASSUME NEW limit \in Nat, NEW age \in (0..limit) \cup {None}
  PROVE  /\ Older(age, limit) \in (0..limit) \cup {None}
         /\ Older(age, limit) = None <=> age = None
         /\ age # None => Older(age, limit) \in 0..limit
  BY MonitorAssumption DEF Older

\* Time keeps the monitoring data typed, and keeps which times are known.
LEMMA TickData ==
  ASSUME MonitorInv, Tick
  PROVE  /\ mRunningPlugins' \in [Plugins -> MonitoringData \cup {None}]
         /\ mMessages' \in [Plugins -> MessageAges \cup {None}]
         /\ \A i \in Plugins :
              /\ mRunningPlugins'[i] = None <=> mRunningPlugins[i] = None
              /\ mMessages'[i] = None <=> mMessages[i] = None
              /\ mRunningPlugins[i] # None =>
                   (mRunningPlugins'[i].lastReceivedTime = None
                      <=> mRunningPlugins[i].lastReceivedTime = None)
  <1>1. mMessages' \in [Plugins -> MessageAges \cup {None}]
        /\ \A i \in Plugins : mMessages'[i] = None <=> mMessages[i] = None
    <2>1. mMessages' = [i \in Plugins |-> Older(mMessages[i], MaxAge)]
      BY Zenon DEF Tick
    <2>2. ASSUME NEW i \in Plugins
          PROVE  /\ Older(mMessages[i], MaxAge) \in MessageAges \cup {None}
                 /\ Older(mMessages[i], MaxAge) = None <=> mMessages[i] = None
      <3>1. mMessages[i] \in (0..MaxAge) \cup {None} /\ MaxAge \in Nat
        BY Zenon, <2>2, MonitorAssumption DEF MonitorInv, TypeOK, MessageAges
      <3> QED BY Zenon, <3>1, OlderTyped, ZenonT(40) DEF MessageAges
    <2> QED BY SMTT(30), <2>1, <2>2
  <1>2. ASSUME NEW i \in Plugins, mRunningPlugins[i] # None
        PROVE  /\ mRunningPlugins'[i] \in MonitoringData
               /\ mRunningPlugins'[i].lastReceivedTime = None
                    <=> mRunningPlugins[i].lastReceivedTime = None
    <2>1. mRunningPlugins[i] \in MonitoringData
      BY Zenon, <1>2 DEF MonitorInv, TypeOK
    <2>2. mRunningPlugins'[i] =
            [mRunningPlugins[i] EXCEPT
               !.startTime = Older(mRunningPlugins[i].startTime, MaxStartup),
               !.lastReceivedTime = Older(mRunningPlugins[i].lastReceivedTime, MaxAge)]
      BY Zenon, <1>2 DEF Tick
    <2>3. /\ mRunningPlugins[i].startTime \in 0..MaxStartup
          /\ mRunningPlugins[i].lastReceivedTime \in (0..MaxAge) \cup {None}
      BY Zenon, <2>1 DEF MonitoringData, StartAges, MessageAges
    <2>4. Older(mRunningPlugins[i].startTime, MaxStartup) \in 0..MaxStartup
      BY Zenon, <2>3, OlderTyped, MonitorAssumption
    <2>5. /\ Older(mRunningPlugins[i].lastReceivedTime, MaxAge) \in (0..MaxAge) \cup {None}
          /\ Older(mRunningPlugins[i].lastReceivedTime, MaxAge) = None
               <=> mRunningPlugins[i].lastReceivedTime = None
      BY Zenon, <2>3, OlderTyped, MonitorAssumption
    <2> QED BY Zenon, <2>1, <2>2, <2>4, <2>5 DEF MonitoringData, StartAges, MessageAges
  <1>3. \A i \in Plugins : mRunningPlugins[i] = None => mRunningPlugins'[i] = None
    BY Zenon DEF Tick
  <1>4. mRunningPlugins' \in [Plugins -> MonitoringData \cup {None}]
    <2>1. \A i \in Plugins : mRunningPlugins'[i] \in MonitoringData \cup {None}
      BY SMTT(30), <1>2, <1>3
    <2>2. mRunningPlugins' = [i \in Plugins |-> mRunningPlugins'[i]]
      BY ZenonT(30) DEF Tick
    <2> QED BY Zenon, <2>1, <2>2
  <1> QED BY Zenon, <1>1, <1>2, <1>3, <1>4, NoneAssumption

\* Every step keeps the inductive invariant.
LEMMA MonitorStep == MonitorInv /\ [Next]_vars => MonitorInv'
  <1> SUFFICES ASSUME MonitorInv, [Next]_vars PROVE MonitorInv'
    BY SMTT(30)
  <1> USE DEF MonitorInv, TypeOK, ChildrenTracked, HeardNotLost, Child, Running, Listed
  <1>1. CASE Tick
    BY Zenon, <1>1, TickData DEF Tick
  <1>2. ASSUME NEW i \in Plugins, SetEnabled(i)
        PROVE  MonitorInv'
    BY Zenon, <1>2 DEF SetEnabled, Alive
  <1>3. ASSUME NEW i \in Plugins, SetMessageInterval(i)
        PROVE  MonitorInv'
    BY <1>3 DEF SetMessageInterval, Alive
  <1>4. ASSUME NEW i \in Plugins, Register(i)
        PROVE  MonitorInv'
    BY Zenon, <1>4 DEF Register, Alive
  <1>5. ASSUME NEW i \in Plugins, RegistrationRefused(i)
        PROVE  MonitorInv'
    BY Zenon, <1>5 DEF RegistrationRefused, Alive
  <1>6. ASSUME NEW i \in Plugins, Send(i)
        PROVE  MonitorInv'
    BY Zenon, <1>6 DEF Send, Alive
  <1>7. ASSUME NEW i \in Plugins, TearDown(i)
        PROVE  MonitorInv'
    BY Zenon, <1>7 DEF TearDown, Alive
  <1>8. ASSUME NEW i \in Plugins, OnMessageReceived(i)
        PROVE  MonitorInv'
    BY <1>8, MonitorAssumption DEF OnMessageReceived, MessageAges
  <1>9. ASSUME NEW i \in Plugins, Exit(i)
        PROVE  MonitorInv'
    BY ZenonT(30), <1>9 DEF Exit, Alive, Signals
  <1>10. CASE Merge
    <2>1. \A i \in Plugins :
            /\ mRunningPlugins'[i] \in MonitoringData \cup {None}
            /\ mRunningPlugins'[i] = None <=> mRunningPlugins[i] = None
            /\ mMessages[i] # None /\ mRunningPlugins[i] # None
                 => mRunningPlugins'[i].lastReceivedTime # None
            /\ mMessages[i] = None => mRunningPlugins'[i] = mRunningPlugins[i]
      BY SMTT(30), <1>10, NoneAssumption DEF Merge, Merged, MonitoringData
    <2>2. mRunningPlugins' \in [Plugins -> MonitoringData \cup {None}]
      BY Zenon, <1>10, <2>1 DEF Merge
    <2> QED BY <1>10, <2>1, <2>2 DEF Merge
  <1>11. CASE ReadEnabled
    BY Zenon, <1>11 DEF ReadEnabled
  <1>12. CASE ReadFails
    BY <1>12, MonitorAssumption DEF ReadFails, DbError
  <1>13. CASE Reap
    BY Zenon, <1>13 DEF Reap, Dead, Alive, Signals
  <1>14. CASE SendSignals
    <2>1. ASSUME NEW i \in Plugins, mRunningPlugins[i] # None
          PROVE  /\ mRunningPlugins'[i] \in MonitoringData
                 /\ mRunningPlugins'[i].lastReceivedTime = mRunningPlugins[i].lastReceivedTime
      <3>1. mRunningPlugins[i] \in MonitoringData
        BY Zenon, <2>1
      <3>2. Escalated(i) \in KillStates
        BY Zenon, <3>1 DEF Escalated, KillStates, Signals, MonitoringData
      <3> QED BY Zenon, <1>14, <2>1, <3>1, <3>2 DEF SendSignals, MonitoringData
    <2>2. \A i \in Plugins : mRunningPlugins[i] = None => mRunningPlugins'[i] = None
      BY Zenon, <1>14 DEF SendSignals
    <2>3. mRunningPlugins' \in [Plugins -> MonitoringData \cup {None}]
      BY Zenon, <1>14, <2>1, <2>2 DEF SendSignals
    <2> QED BY SMTT(30), <1>14, <2>1, <2>2, <2>3, NoneAssumption DEF SendSignals
  <1>15. ASSUME NEW i \in Plugins, Execute(i)
        PROVE  MonitorInv'
    <2> DEFINE d == [startTime |-> 0, lastReceivedTime |-> None, killStatus |-> "alive",
                     interval |-> enabledPlugins[i]]
    <2>1. d \in MonitoringData
      BY <1>15, MonitorAssumption DEF Execute, MonitoringData, StartAges, KillStates
    <2>2. d # None /\ ~heard[i]
      BY Zenon, <1>15, <2>1, NoneAssumption DEF Execute
    <2>3. mRunningPlugins' = [mRunningPlugins EXCEPT ![i] = d]
      BY Zenon, <1>15 DEF Execute
    <2> HIDE DEF d
    <2>4. mRunningPlugins' \in [Plugins -> MonitoringData \cup {None}]
      BY Zenon, <2>1, <2>3
    <2>5. PICK s \in Signals : process' = [process EXCEPT ![i] = s]
      BY Zenon, <1>15 DEF Execute
    <2>6. s # "none"
      BY Zenon DEF Signals
    <2> QED BY SMTT(30), <1>15, <2>2, <2>3, <2>4, <2>5, <2>6 DEF Execute
  <1>16. ASSUME NEW i \in Plugins, ExecuteFails(i)
        PROVE  MonitorInv'
    <2>1. dbErrors' \in 0..MaxDbErrors
      BY <1>16, MonitorAssumption DEF ExecuteFails, DbError
    <2>2. enabled' \in [Plugins -> BOOLEAN]
      BY Zenon, <1>16 DEF ExecuteFails
    <2> QED BY Zenon, <1>16, <2>1, <2>2 DEF ExecuteFails
  <1>17. CASE SetStarted
    BY <1>17, MonitorAssumption DEF SetStarted, DbError
  <1>18. CASE Report
    BY Zenon, <1>18 DEF Report
  <1>19. CASE ReportFails
    BY <1>19, MonitorAssumption DEF ReportFails, DbError
  <1>20. CASE UNCHANGED vars
    BY Zenon, <1>20 DEF vars
  <1> QED BY Zenon, <1>1, <1>2, <1>3, <1>4, <1>5, <1>6, <1>7, <1>8, <1>9, <1>10,
     <1>11, <1>12, <1>13, <1>14, <1>15, <1>16, <1>17, <1>18, <1>19, <1>20 DEF
     Next, Monitor, Surroundings

\* The monitor keeps its inductive invariant.
THEOREM MonitorCorrect == Spec => []MonitorInv
  BY MonitorInit, MonitorStep, PTL DEF Spec

\* The monitor knows exactly the processes it started and has not reaped: it never
\* runs a plugin twice and never signals a process id that is no longer its own.
THEOREM ChildrenAreTracked == Spec => []ChildrenTracked
  <1>1. MonitorInv => ChildrenTracked
    BY Zenon DEF MonitorInv
  <1> QED BY <1>1, MonitorCorrect, PTL

\* A message that was delivered is never lost to the monitor.
THEOREM DeliveredIsHeard == Spec => []HeardNotLost
  <1>1. MonitorInv => HeardNotLost
    BY Zenon DEF MonitorInv
  <1> QED BY <1>1, MonitorCorrect, PTL

\* The variables of the monitor keep their types.
THEOREM MonitorTypes == Spec => []TypeOK
  <1>1. MonitorInv => TypeOK
    BY Zenon DEF MonitorInv
  <1> QED BY <1>1, MonitorCorrect, PTL

----------------------------------------------------------------------------
(* tmxctl *)

Doing == [op : {"none", "install", "load", "remove", "set", "reset", "enable"}, step : Nat,
          name : PluginNames \cup {AnyName}, key : ConfigKeys \cup {AnyKey}, value : Nat]

\* A client that has the files of its plugin and is about to insert the rows.
LoadsFrom(c, n) ==
  /\ doing[c].name = n
  /\ doing[c].op = "load" \/ (doing[c].op = "install" /\ doing[c].step > 1)

\* What each client relies on: a load on the files, a removal on the row it deleted.
\* Neither holds for a plugin that two clients load and remove at the same time.
CallInv(c, n) ==
  /\ LoadsFrom(c, n) => n \in files
  /\ doing[c].op = "remove" /\ doing[c].name = n /\ doing[c].step > 1 => installed[n] = Missing
  /\ doing[c].name = n /\ doing[c].op = "remove" =>
       \A d \in Clients : ~(doing[d].name = n /\ doing[d].op \in Loading)

\* The inductive invariant.
ControlInv ==
  /\ installed \in [PluginNames -> {Missing, 0, 1}]
  /\ doing \in [Clients -> Doing]
  /\ \A c \in Clients : doing[c].op # "none" => doing[c].name \in PluginNames
  /\ FilesBehindRows
  /\ \A c \in Clients, n \in PluginNames \ clashed : CallInv(c, n)

LEMMA ControlInitial == ControlInit => ControlInv
BY DEF ControlInit, ControlInv, NoOperation, Doing, FilesBehindRows, CallInv, LoadsFrom, Default,
       Loading

\* A client that goes on or returns keeps the plugin it works on, and leaves the others.
LEMMA Advance ==
  ASSUME NEW c \in Clients, doing \in [Clients -> Doing],
         NextStatement(c) \/ (\E r : Return(c, r)) \/ ClientKilled(c)
  PROVE  /\ doing' \in [Clients -> Doing]
         /\ \A d \in Clients : /\ doing'[d].name = doing[d].name
                               /\ doing'[d].op \in {"none", doing[d].op}
                               /\ doing'[d].step \in {doing[d].step, doing[d].step + 1}
                               /\ d # c => doing'[d] = doing[d]
<1>1. doing[c] \in Doing
  BY Zenon
<1>2. CASE NextStatement(c)
  <2>1. doing' = [doing EXCEPT ![c] = [doing[c] EXCEPT !.step = @ + 1]] /\ doing[c].step + 1 \in Nat
    BY <1>1, <1>2 DEF NextStatement, Doing
  <2> QED
    BY Zenon, <1>1, <2>1 DEF Doing
<1>3. CASE (\E r : Return(c, r)) \/ ClientKilled(c)
  <2>1. doing' = [doing EXCEPT ![c] = [doing[c] EXCEPT !.op = "none"]]
    BY Zenon, <1>3 DEF Return, ClientKilled
  <2> QED
    BY Zenon, <1>1, <2>1 DEF Doing
<1> QED
  BY Zenon, <1>2, <1>3

\* A statement that changes neither the installed rows nor the files.
LEMMA OtherStatement ==
  ASSUME ControlInv, NEW c \in Clients,
         NextStatement(c) \/ (\E r : Return(c, r)) \/ ClientKilled(c),
         UNCHANGED <<installed, files, clashed>>,
         doing[c].op \in {"remove", "install"} /\ doing[c].step = 1 => doing'[c].op = "none"
  PROVE  ControlInv'
<1>1. /\ doing' \in [Clients -> Doing]
      /\ \A d \in Clients : /\ doing'[d].name = doing[d].name
                            /\ doing'[d].op \in {"none", doing[d].op}
                            /\ doing'[d].step \in {doing[d].step, doing[d].step + 1}
                            /\ d # c => doing'[d] = doing[d]
  BY Zenon, Advance DEF ControlInv
<1>2. \A d \in Clients : doing[d].step \in Nat
  BY Zenon DEF ControlInv, Doing
<1>3. (\A d \in Clients, n \in PluginNames \ clashed : CallInv(d, n))'
  <2> SUFFICES ASSUME NEW d \in Clients, NEW n \in PluginNames \ clashed
               PROVE  CallInv(d, n)'
    BY Zenon
  <2>1. CallInv(d, n)
    BY Zenon DEF ControlInv
  <2>2. LoadsFrom(d, n)' => LoadsFrom(d, n)
    BY SMTT(30), <1>1, <1>2 DEF LoadsFrom
  <2>3. doing'[d].op = "remove" /\ doing'[d].step > 1 => doing[d].op = "remove" /\ doing[d].step > 1
    BY <1>1, <1>2
  <2> QED
    BY Zenon, <1>1, <2>1, <2>2, <2>3 DEF CallInv, Loading
<1> QED
  BY Zenon, <1>1, <1>3 DEF ControlInv, FilesBehindRows

\* A load or an installation that starts next to a removal is remembered as a clash.
LEMMA CallStep ==
  ASSUME ControlInv, NEW c \in Clients, NEW n \in PluginNames, NEW k \in ConfigKeys \cup {AnyKey},
         NEW v \in Nat, NEW op \in {"install", "load", "remove", "set", "reset", "enable"},
         Call(c, op, n, k, v)
  PROVE  ControlInv'
<1>1. /\ doing' = [doing EXCEPT ![c] = [op |-> op, step |-> 1, name |-> n, key |-> k, value |-> v]]
      /\ UNCHANGED <<installed, files>> /\ (op = "load" => n \in files)
      /\ clashed' = IF Clashes(c, op, n) THEN clashed \cup {n} ELSE clashed
      /\ doing[c].op = "none"
  BY Zenon DEF Call
<1>2. doing' \in [Clients -> Doing]
  BY Zenon, <1>1 DEF ControlInv, Doing
<1>3. \A d \in Clients : d # c => doing'[d] = doing[d]
  BY Zenon, <1>1 DEF ControlInv
<1>4. /\ doing'[c].op = op /\ doing'[c].name = n /\ doing'[c].step = 1
  BY Zenon, <1>1 DEF ControlInv
<1>5. (\A d \in Clients, m \in PluginNames \ clashed : CallInv(d, m))'
  <2> SUFFICES ASSUME NEW d \in Clients, NEW m \in PluginNames \ clashed'
               PROVE  CallInv(d, m)'
    BY Zenon
  <2>1. CallInv(d, m) /\ m \notin clashed /\ (m = n => ~Clashes(c, op, n))
    BY Zenon, <1>1 DEF ControlInv
  <2>2. LoadsFrom(d, m)' => m \in files'
    BY SMTT(30), <1>1, <1>3, <1>4, <2>1 DEF CallInv, LoadsFrom
  <2>3. (doing[d].op = "remove" /\ doing[d].name = m /\ doing[d].step > 1)' => installed'[m] = Missing
    BY <1>1, <1>3, <1>4, <2>1 DEF CallInv
  <2>4. ASSUME (doing[d].name = m /\ doing[d].op = "remove")', NEW e \in Clients
        PROVE  ~(doing[e].name = m /\ doing[e].op \in Loading)'
    <3>1. CASE d = c
      BY Zenon, <1>3, <1>4, <2>1, <2>4, <3>1 DEF Clashes, Loading
    <3>2. CASE d # c /\ e = c
      BY Zenon, <1>3, <1>4, <2>1, <2>4, <3>2 DEF Clashes, Loading
    <3>3. CASE d # c /\ e # c
      BY Zenon, <1>3, <2>1, <2>4, <3>3 DEF CallInv, Loading
    <3> QED
      BY Zenon, <3>1, <3>2, <3>3
  <2> QED
    BY Zenon, <2>2, <2>3, <2>4 DEF CallInv
<1> QED
  BY Zenon, <1>1, <1>2, <1>5 DEF ControlInv, FilesBehindRows

\* A statement that changes rows or files of the plugin it works on: what is left to show.
LEMMA OwnStatement ==
  ASSUME ControlInv, NEW c \in Clients, NEW m \in PluginNames, m = doing[c].name,
         NextStatement(c) \/ (\E r : Return(c, r)),
         UNCHANGED clashed, installed' \in [PluginNames -> {Missing, 0, 1}],
         \A n \in PluginNames \ {m} :
           installed'[n] = installed[n] /\ (n \in files <=> n \in files'),
         m \notin clashed => /\ installed'[m] # Missing => m \in files'
                             /\ \A d \in Clients : CallInv(d, m)'
  PROVE  ControlInv'
<1>1. /\ doing' \in [Clients -> Doing]
      /\ \A d \in Clients : /\ doing'[d].name = doing[d].name
                            /\ doing'[d].op \in {"none", doing[d].op}
                            /\ d # c => doing'[d] = doing[d]
  BY Zenon, Advance DEF ControlInv
<1>2. (\A d \in Clients, n \in PluginNames \ clashed : CallInv(d, n))'
  <2> SUFFICES ASSUME NEW d \in Clients, NEW n \in PluginNames \ clashed, n # m
               PROVE  CallInv(d, n)'
    BY Zenon DEF ControlInv
  <2>1. CallInv(d, n)
    BY Zenon DEF ControlInv
  <2>2. CASE d = c
    BY Zenon, <1>1, <2>2 DEF CallInv, LoadsFrom
  <2>3. CASE d # c
    BY Zenon, <1>1, <2>1, <2>3 DEF CallInv, LoadsFrom, Loading
  <2> QED
    BY Zenon, <2>2, <2>3
<1> QED
  BY Zenon, <1>1, <1>2 DEF ControlInv, FilesBehindRows

\* The statements of a load: files come before rows.
LEMMA LoadStatement ==
  ASSUME ControlInv, NEW c \in Clients,
         Unpack(c) \/ InsertPlugin(c) \/ InsertInstalled(c) \/ InsertConfig(c)
  PROVE  ControlInv'
<1>m. PICK m \in PluginNames : m = doing[c].name
  BY Zenon
     DEF ControlInv, Unpack, InsertPlugin, InsertInstalled, InsertConfig, AtStep, LoadRuns, Loading
<1>0. /\ doing[c] \in Doing /\ installed \in [PluginNames -> {Missing, 0, 1}]
      /\ m = doing[c].name /\ m \in PluginNames
      /\ \A d \in Clients : m \notin clashed => CallInv(d, m)
  BY Zenon, <1>m DEF ControlInv
<1>1. CASE Unpack(c) /\ NextStatement(c) /\ files' = files \cup {m}
  <2>1. m \notin clashed => \A d \in Clients : CallInv(d, m)'
    <3> SUFFICES ASSUME m \notin clashed, NEW d \in Clients
                 PROVE  CallInv(d, m)'
      BY Zenon
    <3>1. /\ \A e \in Clients : /\ doing'[e].name = doing[e].name
                                /\ doing'[e].op \in {"none", doing[e].op}
                                /\ e # c => doing'[e] = doing[e]
          /\ doing'[c].op # "remove"
      BY Zenon, <1>0, <1>1, Advance DEF ControlInv, Unpack, AtStep
    <3>2. m \in files' /\ installed' = installed
      BY Zenon, <1>1 DEF Unpack, Tables
    <3> QED
      BY Zenon, <1>0, <3>1, <3>2 DEF CallInv, LoadsFrom, Loading
  <2> QED
    BY Zenon, <1>0, <1>1, <2>1, OwnStatement DEF Unpack, Tables, Bookkeeping
<1>2. CASE InsertInstalled(c)
  <2>1. m \notin clashed => m \in files /\ files' = files
    BY <1>0, <1>2 DEF InsertInstalled, LoadRuns, LoadStep, CallInv, LoadsFrom, Loading, Doing
  <2>2. m \notin clashed => \A d \in Clients : CallInv(d, m)'
    <3> SUFFICES ASSUME m \notin clashed, NEW d \in Clients
                 PROVE  CallInv(d, m)'
      OBVIOUS
    <3>1. /\ \A e \in Clients : /\ doing'[e].name = doing[e].name
                                /\ doing'[e].op \in {"none", doing[e].op}
      BY Zenon, <1>0, <1>2, Advance DEF ControlInv, InsertInstalled
    <3>2. ~(doing[d].op = "remove" /\ doing[d].name = m)
      BY Zenon, <1>0, <1>2 DEF CallInv, InsertInstalled, LoadRuns
    <3> QED
      BY Zenon, <2>1, <3>1, <3>2 DEF CallInv
  <2>3. /\ installed' \in [PluginNames -> {Missing, 0, 1}]
        /\ \A n \in PluginNames \ {m} : installed'[n] = installed[n]
    BY Zenon, <1>0, <1>2 DEF InsertInstalled
  <2> QED
    BY SMTT(30), <1>0, <1>2, <2>1, <2>2, <2>3, OwnStatement DEF InsertInstalled, Bookkeeping
<1>3. CASE InsertPlugin(c)
  <2>1. ~(doing[c].op \in {"remove", "install"} /\ doing[c].step = 1)
    BY <1>0, <1>3 DEF InsertPlugin, LoadRuns, LoadStep, Loading, Doing
  <2> QED
    BY Zenon, <1>3, <2>1, OtherStatement DEF InsertPlugin, Bookkeeping
<1>4. CASE InsertConfig(c)
  <2>1. doing'[c].op = "none"
    BY <1>4 DEF InsertConfig, Return, ControlInv
  <2> QED
    BY Zenon, <1>4, <2>1, OtherStatement DEF InsertConfig, Bookkeeping
<1>5. CASE Unpack(c) /\ Return(c, "false") /\ files' = files
  <2>1. doing'[c].op = "none"
    BY <1>5 DEF Return, ControlInv
  <2> QED
    BY Zenon, <1>5, <2>1, OtherStatement DEF Unpack, Tables, Bookkeeping
<1>6. Unpack(c) => \/ NextStatement(c) /\ files' = files \cup {m}
                   \/ Return(c, "false") /\ files' = files
  BY Zenon, <1>0 DEF Unpack
<1> QED
  BY Zenon, <1>1, <1>2, <1>3, <1>4, <1>5, <1>6

\* The statements of a removal: files go after rows.
LEMMA RemoveStatement ==
  ASSUME ControlInv, NEW c \in Clients,
         DeleteInstalled(c) \/ DeletePlugin(c) \/ RemoveFiles(c)
  PROVE  ControlInv'
<1>m. PICK m \in PluginNames : m = doing[c].name
  BY Zenon DEF ControlInv, DeleteInstalled, DeletePlugin, RemoveFiles, AtStep
<1>0. /\ doing[c] \in Doing /\ installed \in [PluginNames -> {Missing, 0, 1}]
      /\ m = doing[c].name /\ m \in PluginNames /\ doing[c].op = "remove"
      /\ \A d \in Clients : m \notin clashed => CallInv(d, m)
  BY Zenon, <1>m DEF ControlInv, DeleteInstalled, DeletePlugin, RemoveFiles, AtStep
<1>1. \A d \in Clients : m \notin clashed => ~(doing[d].name = m /\ doing[d].op \in Loading)
  BY Zenon, <1>0 DEF CallInv
<1>2. CASE DeleteInstalled(c)
  <2>1. \A d \in Clients : doing'[d].name = doing[d].name /\ doing'[d].op \in {"none", doing[d].op}
    BY Zenon, <1>2, Advance DEF ControlInv, DeleteInstalled
  <2>2. /\ installed' \in [PluginNames -> {Missing, 0, 1}] /\ installed'[m] = Missing
        /\ \A n \in PluginNames \ {m} : installed'[n] = installed[n]
        /\ files' = files /\ clashed' = clashed
    BY Zenon, <1>0, <1>2 DEF DeleteInstalled, Bookkeeping
  <2>3. m \notin clashed => \A d \in Clients : CallInv(d, m)'
    BY Zenon, <1>1, <2>1, <2>2 DEF CallInv, LoadsFrom, Loading
  <2> QED
    BY Zenon, <1>0, <1>2, <2>2, <2>3, OwnStatement DEF DeleteInstalled
<1>3. CASE RemoveFiles(c)
  <2>1. \A d \in Clients : /\ doing'[d].name = doing[d].name
                           /\ doing'[d].op \in {"none", doing[d].op}
                           /\ d # c => doing'[d] = doing[d]
    BY Zenon, <1>3, Advance DEF ControlInv, RemoveFiles
  <2>2. installed' = installed /\ files' = files \ {m} /\ clashed' = clashed
    BY Zenon, <1>0, <1>3 DEF RemoveFiles, Tables, Bookkeeping
  <2>3. m \notin clashed => installed[m] = Missing
    BY <1>0, <1>3 DEF RemoveFiles, AtStep, CallInv
  <2>4. m \notin clashed => \A d \in Clients : CallInv(d, m)'
    <3> SUFFICES ASSUME m \notin clashed, NEW d \in Clients
                 PROVE  CallInv(d, m)'
      BY Zenon
    <3>1. \A e \in Clients : ~(doing'[e].name = m /\ doing'[e].op \in Loading)
      BY Zenon, <1>1, <2>1 DEF Loading
    <3>2. ~LoadsFrom(d, m)' /\ installed'[m] = Missing
      BY Zenon, <2>2, <2>3, <3>1 DEF LoadsFrom, Loading
    <3> QED
      BY Zenon, <3>1, <3>2 DEF CallInv
  <2> QED
    BY Zenon, <1>0, <1>3, <2>2, <2>3, <2>4, OwnStatement DEF RemoveFiles
<1>4. CASE DeletePlugin(c)
  <2>1. doing[c].step # 1
    BY <1>4 DEF DeletePlugin, AtStep
  <2> QED
    BY Zenon, <1>4, <2>1, OtherStatement DEF DeletePlugin, Bookkeeping
<1> QED
  BY Zenon, <1>2, <1>3, <1>4

\* set, reset, enable and disable touch no file and add no row of installedPlugin.
LEMMA SettingStatement ==
  ASSUME ControlInv, NEW c \in Clients,
         SetUpdate(c) \/ SetInsert(c) \/ Reset(c) \/ Enable(c)
  PROVE  ControlInv'
<1>1. CASE SetUpdate(c) \/ SetInsert(c) \/ Reset(c)
  <2>1. doing[c].op \notin {"remove", "install"}
    BY Zenon, <1>1 DEF SetUpdate, SetInsert, Reset, AtStep
  <2> QED
    BY Zenon, <1>1, <2>1, OtherStatement DEF SetUpdate, SetInsert, Reset, Bookkeeping
<1>2. CASE Enable(c)
  <2>m. PICK m \in PluginNames : m = doing[c].name
    BY Zenon, <1>2 DEF ControlInv, Enable, AtStep
  <2>1. /\ installed' \in [PluginNames -> {Missing, 0, 1}]
        /\ \A n \in PluginNames : installed'[n] = Missing <=> installed[n] = Missing
        /\ \A n \in PluginNames \ {m} : installed'[n] = installed[n]
        /\ files' = files /\ clashed' = clashed
    BY <1>2, <2>m DEF Enable, Bookkeeping, ControlInv, Missing
  <2>2. \A d \in Clients : /\ doing'[d].name = doing[d].name
                           /\ doing'[d].op \in {"none", doing[d].op}
                           /\ d # c => doing'[d] = doing[d]
    BY Zenon, <1>2, Advance DEF ControlInv, Enable
  <2>3. doing[c].op = "enable"
    BY Zenon, <1>2 DEF Enable, AtStep
  <2>4. m \notin clashed => \A d \in Clients : CallInv(d, m) /\ (installed[m] # Missing => m \in files)
    BY Zenon DEF ControlInv, FilesBehindRows
  <2>5. m \notin clashed => \A d \in Clients : CallInv(d, m)'
    <3> SUFFICES ASSUME m \notin clashed, NEW d \in Clients
                 PROVE  CallInv(d, m)'
      OBVIOUS
    <3>1. \A e \in Clients : doing[e].name = m /\ doing'[e].op # "none" /\ doing[e].op # "enable"
                             => doing'[e] = doing[e]
      BY Zenon, <2>2, <2>3
    <3>2. /\ LoadsFrom(d, m)' => LoadsFrom(d, m)
          /\ (doing[d].name = m /\ doing[d].op = "remove")' => doing'[d] = doing[d]
      BY Zenon, <2>2, <2>3 DEF LoadsFrom
    <3> QED
      BY Zenon, <2>1, <2>2, <2>4, <3>2 DEF CallInv, Loading
  <2> QED
    BY <1>2, <2>m, <2>1, <2>4, <2>5, OwnStatement DEF Enable
<1> QED
  BY Zenon, <1>1, <1>2

LEMMA ControlStep ==
  ASSUME ControlInv, [ControlNext]_controlVars
  PROVE  ControlInv'
<1>1. CASE UNCHANGED controlVars
  BY <1>1 DEF controlVars, ControlInv, FilesBehindRows, CallInv, LoadsFrom
<1>2. ASSUME NEW c \in Clients, Operation(c)  PROVE ControlInv'
  BY <1>2, CallStep DEF Operation, Default, Values
<1>3. ASSUME NEW c \in Clients, Statement(c)  PROVE ControlInv'
  BY Zenon, <1>3, LoadStatement, RemoveStatement, SettingStatement DEF Statement
<1>4. ASSUME NEW c \in Clients, ClientKilled(c)  PROVE ControlInv'
  <2>1. doing'[c].op = "none" /\ UNCHANGED <<installed, files, clashed>>
    BY <1>4 DEF ClientKilled, ControlInv
  <2> QED
    BY Zenon, <1>4, <2>1, OtherStatement
<1> QED
  BY Zenon, <1>1, <1>2, <1>3, <1>4 DEF ControlNext

\* Without a transaction around its statements, and killed between any two of them,
\* tmxctl leaves no installed plugin without files: only a load and a removal of one
\* plugin at the same time can.
THEOREM InstalledPluginsHaveFiles == ControlSpec => []FilesBehindRows
<1>1. ControlInv /\ [ControlNext]_controlVars => ControlInv'
  BY Zenon, ControlStep
<1>2. ControlInv => FilesBehindRows
  BY Zenon DEF ControlInv
<1> QED
  BY <1>1, <1>2, ControlInitial, PTL DEF ControlSpec

============================================================================
