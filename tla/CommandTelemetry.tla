-------------------------- MODULE CommandTelemetry -------------------------
(***************************************************************************)
(* The command plugin's telemetry.  Main reads the plugins' data from the  *)
(* database once a cycle and keeps, next to all of it, what changed and    *)
(* what went away since the cycle before.  A session of the admin portal   *)
(* gets everything once, then the changes of each cycle, when its socket   *)
(* is writable.  One thread does all of this.                              *)
(***************************************************************************)
EXTENDS Integers

CONSTANTS
  Names,         \* names of plugins
  Data,          \* what the database may hold for a plugin: numbers from 1 on
  Portals,       \* sessions
  MaxCycles,     \* bound: cycles
  MaxDbChanges,  \* bound: changes of the database
  MaxLost        \* bound: queries that fail and writes to a choked socket

Absent == 0

VARIABLES
  db,          \* the plugin tables (external)
  pluginsJSON,    \* the data of the last cycle that could read it, full output included
  updatesJSON,    \* the plugins that changed in it
  removeJSON,     \* the plugins that went away in it
  haveData,    \* _haveList, ...: the last query succeeded
  lastUpdate,  \* _lastPluginsUpdateTimeMS, counted in cycles; 0 without sessions
  portal,      \* sessions: "closed", "open", "authorized"
  sendFull,    \* sendFullTelemetry
  lastSend,    \* lastUpdateSendTimeMS
  view,        \* what the portal shows
  behind,      \* a cycle, a full telemetry or a write passed the session by
  cycles, dbChanges, losses

teleVars == <<db, pluginsJSON, updatesJSON, removeJSON, haveData, lastUpdate, portal, sendFull,
              lastSend, view, behind, cycles, dbChanges, losses>>

NoTelemetry == [p \in Names |-> Absent]

TeleInit ==
  /\ db \in [Names -> Data \cup {Absent}]
  /\ pluginsJSON = NoTelemetry /\ updatesJSON = {} /\ removeJSON = {}
  /\ haveData = FALSE /\ lastUpdate = 0
  /\ portal = [s \in Portals |-> "closed"]
  /\ sendFull = [s \in Portals |-> TRUE]
  /\ lastSend = [s \in Portals |-> 0]
  /\ view = [s \in Portals |-> NoTelemetry]
  /\ behind = [s \in Portals |-> FALSE]
  /\ cycles = 0 /\ dbChanges = 0 /\ losses = 0

SessionsUnchanged == UNCHANGED <<portal, sendFull, lastSend, view>>
CacheUnchanged == UNCHANGED <<pluginsJSON, updatesJSON, removeJSON, haveData, lastUpdate, cycles>>

----------------------------------------------------------------------------
(* Main: one cycle *)

\* What _connectionCount counts.
Connected == {s \in Portals : portal[s] # "closed"}

TelemetryRead ==
  /\ updatesJSON' = {p \in Names : db[p] # Absent /\ db[p] # pluginsJSON[p]}
  /\ removeJSON' = {p \in Names : db[p] = Absent /\ pluginsJSON[p] # Absent}
  /\ pluginsJSON' = db
  /\ haveData' = TRUE

\* A query that fails leaves the data, the changes and the removals as they were.
GetTelemetry ==
  /\ Connected # {} /\ cycles < MaxCycles
  /\ cycles' = cycles + 1 /\ lastUpdate' = cycles'
  /\ \/ TelemetryRead /\ UNCHANGED losses
     \/ /\ losses < MaxLost /\ losses' = losses + 1
        /\ haveData' = FALSE /\ UNCHANGED <<pluginsJSON, updatesJSON, removeJSON>>
  /\ behind' = [s \in Portals |-> behind[s] \/ /\ portal[s] = "authorized"
                                               /\ ~sendFull[s] /\ lastSend[s] < lastUpdate]
  /\ SessionsUnchanged /\ UNCHANGED <<db, dbChanges>>

----------------------------------------------------------------------------
(* The callbacks of a session *)

PortalEstablished(s) ==
  /\ portal[s] = "closed"
  /\ portal' = [portal EXCEPT ![s] = "open"]
  /\ sendFull' = [sendFull EXCEPT ![s] = TRUE]
  /\ lastSend' = [lastSend EXCEPT ![s] = lastUpdate]
  /\ view' = [view EXCEPT ![s] = NoTelemetry]
  /\ behind' = [behind EXCEPT ![s] = FALSE]
  /\ CacheUnchanged /\ UNCHANGED <<db, dbChanges, losses>>

\* When the last session closes all data goes.
PortalClosed(s) ==
  /\ portal[s] # "closed"
  /\ portal' = [portal EXCEPT ![s] = "closed"]
  /\ IF Connected = {s}
     THEN /\ pluginsJSON' = NoTelemetry /\ updatesJSON' = {} /\ removeJSON' = {}
          /\ haveData' = FALSE /\ lastUpdate' = 0 /\ UNCHANGED cycles
     ELSE CacheUnchanged
  /\ UNCHANGED <<sendFull, lastSend, view, behind, db, dbChanges, losses>>

PortalLogin(s) ==
  /\ portal[s] = "open"
  /\ portal' = [portal EXCEPT ![s] = "authorized"]
  /\ UNCHANGED <<sendFull, lastSend, view, behind, db, dbChanges, losses>> /\ CacheUnchanged

\* Mutant: a session that logs in again is only sent changes.
LogoutKeepsTelemetry(s) ==
  /\ portal[s] = "authorized"
  /\ portal' = [portal EXCEPT ![s] = "open"]
  /\ lastSend' = [lastSend EXCEPT ![s] = lastUpdate]
  /\ UNCHANGED <<sendFull, view, behind, db, dbChanges, losses>> /\ CacheUnchanged

PortalLogout(s) ==
  /\ portal[s] = "authorized"
  /\ portal' = [portal EXCEPT ![s] = "open"]
  /\ sendFull' = [sendFull EXCEPT ![s] = TRUE]
  /\ lastSend' = [lastSend EXCEPT ![s] = lastUpdate]
  /\ UNCHANGED <<view, behind, db, dbChanges, losses>> /\ CacheUnchanged

\* What the portal shows after the changes and the removals of a cycle.
Merged(v) ==
  [p \in Names |-> IF p \in updatesJSON THEN pluginsJSON[p]
                   ELSE IF p \in removeJSON THEN Absent ELSE v[p]]

\* The buffer of a choked socket is cut off before it is written.
Written(s, shows) ==
  \/ view' = [view EXCEPT ![s] = shows] /\ UNCHANGED losses
  \/ losses < MaxLost /\ losses' = losses + 1 /\ UNCHANGED view

BuildFullTelemetry(s) ==
  /\ sendFull[s]
  /\ sendFull' = [sendFull EXCEPT ![s] = FALSE]
  /\ lastSend' = [lastSend EXCEPT ![s] = lastUpdate]
  /\ IF haveData THEN Written(s, pluginsJSON) ELSE UNCHANGED <<view, losses>>
  /\ behind' = [behind EXCEPT ![s] = ~haveData \/ losses' > losses]

BuildUpdateTelemetry(s) ==
  /\ ~sendFull[s] /\ lastSend[s] < lastUpdate
  /\ lastSend' = [lastSend EXCEPT ![s] = lastUpdate]
  /\ IF haveData THEN Written(s, Merged(view[s])) ELSE UNCHANGED <<view, losses>>
  /\ behind' = [behind EXCEPT ![s] = @ \/ losses' > losses]
  /\ UNCHANGED sendFull

Writable(s) ==
  /\ portal[s] = "authorized"
  /\ BuildFullTelemetry(s) \/ BuildUpdateTelemetry(s)
  /\ CacheUnchanged /\ UNCHANGED <<portal, db, dbChanges>>

DbChange ==
  /\ dbChanges < MaxDbChanges /\ dbChanges' = dbChanges + 1
  /\ \E p \in Names : \E d \in Data \cup {Absent} : db' = [db EXCEPT ![p] = d]
  /\ CacheUnchanged /\ SessionsUnchanged /\ UNCHANGED <<behind, losses>>

TeleNext ==
  \/ GetTelemetry
  \/ \E s \in Portals : \/ PortalEstablished(s) \/ PortalClosed(s)
                        \/ PortalLogin(s) \/ PortalLogout(s) \/ Writable(s)
  \/ DbChange

TeleSpec == TeleInit /\ [][TeleNext]_teleVars

----------------------------------------------------------------------------
(* Properties *)

\* Changes are sent once, as a difference between two cycles.  A portal that got each
\* of them since its full telemetry shows what the plugin knows, through logins, logouts,
\* other sessions and cycles that could not read the database.
ViewCurrent ==
  \A s \in Portals :
    (portal[s] = "authorized" /\ ~sendFull[s] /\ lastSend[s] = lastUpdate /\ ~behind[s])
      => view[s] = pluginsJSON
=============================================================================
