--------------------------- MODULE PluginRegistry ---------------------------
(***************************************************************************)
(* Registration, status and teardown of plugins (TmxCore/src/Plugin.cpp),  *)
(* as the threads of TmxCore/src/PluginConnection.cpp drive them, with the *)
(* plugin tables of the database they write (database/PluginContext.cpp)   *)
(* and the start and stop of the core (ivpcore.cpp).                       *)
(*                                                                         *)
(* One Plugin object serves one connection.  Its fast processor thread     *)
(* registers and subscribes, its slow processor thread writes status       *)
(* items, and once both are joined the receiver thread destroys it.  Other *)
(* connections run at the same time; they share the set of reserved names  *)
(* and the database.  Every database statement may fail.                   *)
(***************************************************************************)
EXTENDS Naturals

CONSTANTS
  Connections,       \* Plugin objects, each created once
  Names,             \* plugin names; the database has one row per name
  NoName,            \* the name of a Plugin object that never registered
  Items,             \* keys of custom status items
  MaxRegistrations,  \* bound: registration messages of one connection
  MaxStatusMsgs,     \* bound: status messages of one connection
  MaxRestarts        \* bound: restarts of the core process

ASSUME RegistryAssumption ==
  /\ NoName \notin Names
  /\ MaxRegistrations \in Nat
  /\ MaxStatusMsgs \in Nat
  /\ MaxRestarts \in Nat

VARIABLES
  clientNames,   \* Plugin::clientNames, the reserved names
  pc,            \* the fast processor thread, then the destructor
  slow,          \* the slow processor thread
  slowMsg,       \* the status message it handles
  manifest,      \* the name in the manifest of each connected plugin
  mInfo,         \* mInfo.pluginInfo.name
  mRegistered,
  subscribed,    \* the router holds filters for this plugin
  status,        \* database: the plugin status (key '') of each name
  items,         \* database: the custom status items of each name
  registrations, \* registration messages handled (bounded)
  statusMsgs,    \* status messages handled (bounded)
  restarts,      \* core restarts (bounded)
  orphanReject,  \* history: a name was refused that no connection held
  dbFailed       \* history: some database statement failed

connVars == <<pc, slow, slowMsg, manifest, mInfo, mRegistered, subscribed>>
dbVars == <<status, items>>
bounds == <<registrations, statusMsgs, restarts>>
history == <<orphanReject, dbFailed>>
vars == <<clientNames, pc, slow, slowMsg, manifest, mInfo, mRegistered,
          subscribed, status, items, registrations, statusMsgs, restarts,
          orphanReject, dbFailed>>

Statuses == {"none", "running", "custom", "stopped"}

\* What a connected plugin's status says; "custom" is a text of its own.
ShownAlive == {"running", "custom"}

\* Stages of registerPlugin, in order, on the fast processor thread.
Registering == {"reserved", "stored", "published"}

\* Stages of ~Plugin, in order.
Destroying == {"closing", "released", "unsubscribed", "stopped"}

PCs == {"absent", "idle", "gone"} \cup Registering \cup Destroying

NoMsg == [text |-> FALSE, set |-> {}, remove |-> {}]

\* Whether a status message gives the plugin status a text (an item with no key),
\* the custom items it gives a value and the ones it removes.
StatusMessages == [text : BOOLEAN, set : SUBSET Items, remove : SUBSET Items]

Goto(c, from, to) == pc[c] = from /\ pc' = [pc EXCEPT ![c] = to]

\* The connections that hold a reservation of the name n: they are registering
\* or registered under it and their destructor has not released it.
Holders(n) ==
  {c \in Connections :
     \/ pc[c] \in {"reserved", "stored"} /\ manifest[c] = n
     \/ /\ mRegistered[c] /\ mInfo[c] = n
        /\ pc[c] \in {"idle", "closing"} \cup Registering}

-----------------------------------------------------------------------------
Init ==
  /\ clientNames = {}
  /\ pc = [c \in Connections |-> "absent"]
  /\ slow = [c \in Connections |-> "idle"]
  /\ slowMsg = [c \in Connections |-> NoMsg]
  /\ manifest = [c \in Connections |-> NoName]
  /\ mInfo = [c \in Connections |-> NoName]
  /\ mRegistered = [c \in Connections |-> FALSE]
  /\ subscribed = [c \in Connections |-> FALSE]
  /\ status = [n \in Names |-> "none"]
  /\ items = [n \in Names |-> {}]
  /\ registrations = [c \in Connections |-> 0]
  /\ statusMsgs = [c \in Connections |-> 0]
  /\ restarts = 0
  /\ orphanReject = FALSE
  /\ dbFailed = FALSE

\* The Plugin constructor; the peer has a manifest with one name.
Connect(c, n) ==
  /\ Goto(c, "absent", "idle")
  /\ manifest' = [manifest EXCEPT ![c] = n]
  /\ UNCHANGED <<clientNames, slow, slowMsg, mInfo, mRegistered, subscribed, dbVars,
                 bounds, history>>

CountRegistration(c) ==
  /\ registrations[c] < MaxRegistrations
  /\ registrations' = [registrations EXCEPT ![c] = @ + 1]

\* Mutant: the duplicate check is missing.
NameIgnored(n) == TRUE

NameFree(n) == n \notin clientNames

\* registerPlugin, first part: the name is reserved under clientLock.
ReserveName(c) ==
  /\ Goto(c, "idle", "reserved")
  /\ NameFree(manifest[c])
  /\ CountRegistration(c)
  /\ clientNames' = clientNames \cup {manifest[c]}
  /\ UNCHANGED <<slow, slowMsg, manifest, mInfo, mRegistered, subscribed, dbVars,
                 statusMsgs, restarts, history>>

\* The name is taken: PluginException, answered with a fatal error.
RejectDuplicate(c) ==
  /\ pc[c] = "idle"
  /\ ~NameFree(manifest[c])
  /\ CountRegistration(c)
  /\ orphanReject' = (orphanReject \/ Holders(manifest[c]) = {})
  /\ UNCHANGED <<clientNames, connVars, dbVars, statusMsgs, restarts, dbFailed>>

\* The plugin, configuration and message type rows are written.
StoreInDatabase(c) ==
  /\ Goto(c, "reserved", "stored")
  /\ UNCHANGED <<clientNames, slow, slowMsg, manifest, mInfo, mRegistered, subscribed,
                 dbVars, bounds, history>>

\* One of those statements fails: PluginException, answered with a fatal
\* error; the reservation stays.
StoreFails(c) ==
  /\ Goto(c, "reserved", "idle")
  /\ dbFailed' = TRUE
  /\ UNCHANGED <<clientNames, slow, slowMsg, manifest, mInfo, mRegistered, subscribed,
                 dbVars, bounds, orphanReject>>

\* mInfo and mRegistered are set and the event log entry is added.
Publish(c) ==
  /\ Goto(c, "stored", "published")
  /\ mInfo' = [mInfo EXCEPT ![c] = manifest[c]]
  /\ mRegistered' = [mRegistered EXCEPT ![c] = TRUE]
  /\ UNCHANGED <<clientNames, slow, slowMsg, manifest, subscribed, dbVars, bounds,
                 history>>

\* The status becomes "Running", the heartbeat is broadcast and the plugin is
\* answered with its configuration.
SetRunning(c) ==
  /\ Goto(c, "published", "idle")
  /\ status' = [status EXCEPT ![mInfo[c]] = "running"]
  /\ UNCHANGED <<clientNames, slow, slowMsg, manifest, mInfo, mRegistered, subscribed,
                 items, bounds, history>>

\* Writing the status fails: PluginException out of registerPlugin, answered
\* with a fatal error, although mRegistered is set.
SetRunningFails(c) ==
  /\ Goto(c, "published", "idle")
  /\ dbFailed' = TRUE
  /\ UNCHANGED <<clientNames, slow, slowMsg, manifest, mInfo, mRegistered, subscribed,
                 dbVars, bounds, orphanReject>>

\* processSubscribeMessage; an unregistered plugin gets an error and no filters.
Subscribe(c) ==
  /\ pc[c] = "idle" /\ mRegistered[c]
  /\ subscribed' = [subscribed EXCEPT ![c] = TRUE]
  /\ UNCHANGED <<clientNames, pc, slow, slowMsg, manifest, mInfo, mRegistered,
                 dbVars, bounds, history>>

-----------------------------------------------------------------------------
(* The slow processor thread                                               *)

\* The fast and slow processor threads of c run.
Running(c) == pc[c] \in {"idle"} \cup Registering

\* processStatusMessage; an unregistered plugin's message is logged and dropped.
TakeStatusMessage(c, m) ==
  /\ Running(c) /\ slow[c] = "idle"
  /\ statusMsgs[c] < MaxStatusMsgs
  /\ mRegistered[c]
  /\ slow' = [slow EXCEPT ![c] = "setting"]
  /\ slowMsg' = [slowMsg EXCEPT ![c] = m]
  /\ statusMsgs' = [statusMsgs EXCEPT ![c] = @ + 1]
  /\ UNCHANGED <<clientNames, pc, manifest, mInfo, mRegistered, subscribed,
                 dbVars, registrations, restarts, history>>

\* setStatusItems.
SetStatusItems(c) ==
  /\ slow[c] = "setting"
  /\ slow' = [slow EXCEPT ![c] = "removing"]
  /\ items' = [items EXCEPT ![mInfo[c]] = @ \cup slowMsg[c].set]
  /\ status' = [status EXCEPT ![mInfo[c]] = IF slowMsg[c].text THEN "custom" ELSE @]
  /\ UNCHANGED <<clientNames, pc, slowMsg, manifest, mInfo, mRegistered,
                 subscribed, bounds, history>>

\* removeStatusItems.
RemoveStatusItems(c) ==
  /\ slow[c] = "removing"
  /\ slow' = [slow EXCEPT ![c] = "idle"]
  /\ slowMsg' = [slowMsg EXCEPT ![c] = NoMsg]
  /\ items' = [items EXCEPT ![mInfo[c]] = @ \ slowMsg[c].remove]
  /\ UNCHANGED <<clientNames, pc, manifest, mInfo, mRegistered, subscribed,
                 status, bounds, history>>

\* A statement fails: the exception skips what is left of the message.  The items
\* to remove have a statement each, the ones to set have one together.
StatusItemsFail(c) ==
  /\ slow[c] # "idle"
  /\ \E R \in SUBSET slowMsg[c].remove :
       /\ slow[c] = "setting" => R = {}
       /\ items' = [items EXCEPT ![mInfo[c]] = @ \ R]
  /\ slow' = [slow EXCEPT ![c] = "idle"]
  /\ slowMsg' = [slowMsg EXCEPT ![c] = NoMsg]
  /\ dbFailed' = TRUE
  /\ UNCHANGED <<clientNames, pc, manifest, mInfo, mRegistered, subscribed,
                 status, bounds, orphanReject>>

-----------------------------------------------------------------------------
(* The destructor                                                          *)

SlowJoined(c) == slow[c] = "idle"

\* The receiver thread sees the end of the connection; both processor threads
\* finish the message they are on and are joined, then "delete this".
Close(c) ==
  /\ Goto(c, "idle", "closing")
  /\ SlowJoined(c)
  /\ UNCHANGED <<clientNames, slow, slowMsg, manifest, mInfo, mRegistered,
                 subscribed, dbVars, bounds, history>>

\* Mutant: a plugin that never subscribed keeps its name.
OwnNameIfSubscribed(c) == IF subscribed[c] THEN mInfo[c] ELSE NoName

OwnName(c) == mInfo[c]

\* ~Plugin, first statement: the name is erased under clientLock.
ReleaseName(c) ==
  /\ Goto(c, "closing", "released")
  /\ clientNames' = clientNames \ {OwnName(c)}
  /\ UNCHANGED <<slow, slowMsg, manifest, mInfo, mRegistered, subscribed,
                 dbVars, bounds, history>>

\* subscribeForMessages with no filters.  For an unregistered plugin it throws,
\* and the status is left alone.
Unsubscribe(c) ==
  /\ Goto(c, "released", IF mRegistered[c] THEN "unsubscribed" ELSE "stopped")
  /\ subscribed' = [subscribed EXCEPT ![c] = FALSE]
  /\ UNCHANGED <<clientNames, slow, slowMsg, manifest, mInfo, mRegistered,
                 dbVars, bounds, history>>

\* setPluginStatus("Stopped / Disconnected").
SetStopped(c) ==
  /\ Goto(c, "unsubscribed", "stopped")
  /\ status' = [status EXCEPT ![mInfo[c]] = "stopped"]
  /\ UNCHANGED <<clientNames, slow, slowMsg, manifest, mInfo, mRegistered,
                 subscribed, items, bounds, history>>

\* What was recorded of a Plugin object goes with it.
Forget(c) ==
  /\ manifest' = [manifest EXCEPT ![c] = NoName]
  /\ mRegistered' = [mRegistered EXCEPT ![c] = FALSE]
  /\ registrations' = [registrations EXCEPT ![c] = 0]
  /\ statusMsgs' = [statusMsgs EXCEPT ![c] = 0]

\* removeAllPluginStatusItems; an unregistered plugin has no row.  Then the
\* base class destructor removes the receiver from the router.
ClearItems(c) ==
  /\ Goto(c, "stopped", "gone")
  /\ items' = [n \in Names |-> IF n = mInfo[c] THEN {} ELSE items[n]]
  /\ Forget(c)
  /\ UNCHANGED <<clientNames, slow, slowMsg, mInfo, subscribed, status, restarts,
                 orphanReject, dbFailed>>

\* Either statement fails; the exception is swallowed and the destructor goes on.
SetStoppedFails(c) ==
  /\ Goto(c, "unsubscribed", "stopped")
  /\ dbFailed' = TRUE
  /\ UNCHANGED <<clientNames, slow, slowMsg, manifest, mInfo, mRegistered,
                 subscribed, dbVars, bounds, orphanReject>>

ClearItemsFails(c) ==
  /\ Goto(c, "stopped", "gone")
  /\ dbFailed' = TRUE
  /\ Forget(c)
  /\ UNCHANGED <<clientNames, slow, slowMsg, mInfo, subscribed, dbVars, restarts,
                 orphanReject>>

-----------------------------------------------------------------------------
(* The core process                                                        *)

\* UPDATE ... SET value = 'Stopped / Disconnected' touches existing rows only.
AllStopped == [n \in Names |-> IF status[n] = "none" THEN "none" ELSE "stopped"]

StatusesAtStart == AllStopped

\* The signal handler of ivpcore, before it raises the signal again; the other
\* threads are still running.
HandleSignal ==
  /\ restarts < MaxRestarts
  /\ status' = AllStopped
  /\ items' = [n \in Names |-> {}]
  /\ UNCHANGED <<clientNames, connVars, bounds, history>>

\* The process ends, by a signal or a crash, and main() runs again.
Restart ==
  /\ restarts < MaxRestarts
  /\ restarts' = restarts + 1
  /\ clientNames' = {}
  /\ pc' = [c \in Connections |-> IF pc[c] = "absent" THEN "absent" ELSE "gone"]
  /\ slow' = [c \in Connections |-> "idle"]
  /\ slowMsg' = [c \in Connections |-> NoMsg]
  /\ subscribed' = [c \in Connections |-> FALSE]
  /\ \/ status' = StatusesAtStart /\ UNCHANGED dbFailed
     \/ UNCHANGED status /\ dbFailed' = TRUE
  /\ manifest' = [c \in Connections |-> NoName]
  /\ mInfo' = [c \in Connections |-> NoName]
  /\ mRegistered' = [c \in Connections |-> FALSE]
  /\ registrations' = [c \in Connections |-> 0]
  /\ statusMsgs' = [c \in Connections |-> 0]
  /\ UNCHANGED <<items, orphanReject>>

Next ==
  \/ \E c \in Connections :
       \/ \E n \in Names : Connect(c, n)
       \/ ReserveName(c) \/ RejectDuplicate(c)
       \/ StoreInDatabase(c) \/ StoreFails(c) \/ Publish(c)
       \/ SetRunning(c) \/ SetRunningFails(c)
       \/ Subscribe(c)
       \/ \E m \in StatusMessages : TakeStatusMessage(c, m)
       \/ SetStatusItems(c) \/ RemoveStatusItems(c) \/ StatusItemsFail(c)
       \/ Close(c) \/ ReleaseName(c) \/ Unsubscribe(c) \/ SetStopped(c)
       \/ SetStoppedFails(c) \/ ClearItems(c) \/ ClearItemsFails(c)
  \/ HandleSignal
  \/ Restart

Spec == Init /\ [][Next]_vars

-----------------------------------------------------------------------------
(* Properties                                                              *)

\* Every variable stays in its domain.
TypeOK ==
  /\ clientNames \in SUBSET Names
  /\ pc \in [Connections -> PCs]
  /\ slow \in [Connections -> {"idle", "setting", "removing"}]
  /\ slowMsg \in [Connections -> StatusMessages]
  /\ manifest \in [Connections -> Names \cup {NoName}]
  /\ mInfo \in [Connections -> Names \cup {NoName}]
  /\ mRegistered \in [Connections -> BOOLEAN]
  /\ subscribed \in [Connections -> BOOLEAN]
  /\ status \in [Names -> Statuses]
  /\ items \in [Names -> SUBSET Items]
  /\ registrations \in [Connections -> 0..MaxRegistrations]
  /\ statusMsgs \in [Connections -> 0..MaxStatusMsgs]
  /\ restarts \in 0..MaxRestarts
  /\ orphanReject \in BOOLEAN
  /\ dbFailed \in BOOLEAN

\* Only one plugin can be registered with the same name at a given time, from
\* the reservation in registerPlugin to the release in ~Plugin.  In particular
\* a refused duplicate that disconnects does not release the name of the plugin
\* that is active.
UniqueName ==
  \A n \in Names : \A c, d \in Holders(n) : c = d

Live(c) == pc[c] \notin {"absent", "gone"}

\* A plugin with no connection left is not shown as running, nor with a status
\* text of its own, whatever the order
\* in which the destructor of an old connection and the registration of a new
\* one under the same name write the status, and across restarts of the core.
NotRunningWhenGone ==
  \A n \in Names :
    ~dbFailed /\ (\A c \in Connections : Live(c) => manifest[c] # n)
      => status[n] \notin ShownAlive

\* A plugin with no connection left has no custom status items, unless the core
\* was restarted: no status message is handled after its destructor ran.
NoOrphanItems ==
  \A n \in Names :
    ~dbFailed /\ restarts = 0 /\ (\A c \in Connections : Live(c) => manifest[c] # n)
      => items[n] = {}

\* A name is refused although no connection holds it only after a database error:
\* apart from registerPlugin's reservation that StoreFails leaves behind, every
\* reservation is given back exactly when its connection goes.
RefusedOnlyIfHeld == orphanReject => dbFailed

\* The inductive strengthening.  A held name is reserved; a Plugin object is
\* registered under the name of its manifest or not at all; the slow processor
\* writes only for a registered plugin that is not being destroyed; and a status
\* of a connected plugin, or a status item, has an owner that has yet to clean it up.
HeldNamesReserved ==
  \A n \in Names : Holders(n) # {} => n \in clientNames

\* Without a database error, a reserved name has a connection that holds it.
ReservedNamesHeld ==
  ~dbFailed => \A n \in clientNames : Holders(n) # {}

RegisteredUnderManifest ==
  \A c \in Connections :
    /\ Live(c) => manifest[c] \in Names
    /\ mRegistered[c] => Live(c) /\ mInfo[c] = manifest[c]
    /\ ~mRegistered[c] /\ Live(c) => mInfo[c] = NoName
    /\ pc[c] \in {"reserved", "stored"} => ~mRegistered[c]
    /\ pc[c] \in {"published", "unsubscribed"} => mRegistered[c]
    /\ pc[c] = "absent" => mInfo[c] = NoName
    /\ slow[c] # "idle" => Running(c) /\ mRegistered[c]

RunningHasOwner ==
  \A n \in Names :
    ~dbFailed /\ status[n] \in ShownAlive =>
      \E c \in Connections :
        /\ mRegistered[c] /\ manifest[c] = n
        /\ pc[c] \in {"idle", "published", "closing", "released", "unsubscribed"}

ItemsHaveOwner ==
  \A n \in Names :
    ~dbFailed /\ restarts = 0 /\ items[n] # {} =>
      \E c \in Connections : mRegistered[c] /\ manifest[c] = n

\* The inductive invariant of the registry: unique names and owned statuses, with
\* the reservation of names in registerPlugin and ~Plugin behind them.
RegistryInv ==
  /\ TypeOK
  /\ UniqueName
  /\ HeldNamesReserved
  /\ RegisteredUnderManifest
  /\ RunningHasOwner
  /\ ItemsHaveOwner
=============================================================================
