----------------------------- MODULE TmxControl -----------------------------
(***************************************************************************)
(* The plugin tables and the plugin directories as tmxctl and the command  *)
(* plugin change them.  No operation is a transaction: each SQL statement  *)
(* commits by itself, so other clients see, and a client that is killed    *)
(* leaves behind, every intermediate state.                                *)
(***************************************************************************)
EXTENDS Integers, FiniteSets

CONSTANTS
  Clients,      \* programs that use TmxControl
  PluginNames,
  ConfigKeys,         \* configuration keys, those of the manifest
  MaxCalls,     \* bound: operations
  MaxKills      \* bound: clients that are killed

Values == 1..2     \* what an operator sets; the manifest's default is 0
Default == 0
Missing == -1

VARIABLES
  pluginRow,   \* IVP.plugin: the names that have a row
  installed,   \* IVP.installedPlugin: Missing, or the enabled column
  config,      \* IVP.pluginConfigurationParameter: Missing, or the value
  files,       \* the plugins whose directory exists
  doing,       \* each client: the operation, its next statement, and its arguments
  clashed,     \* plugins loaded and removed at the same time by two clients (history)
  returned,    \* what the last call of each client returned
  calls, kills

controlVars == <<pluginRow, installed, config, files, doing, clashed, returned, calls, kills>>

AnyName == CHOOSE n \in PluginNames : TRUE
AnyKey == CHOOSE k \in ConfigKeys : TRUE
NoOperation == [op |-> "none", step |-> 0, name |-> AnyName, key |-> AnyKey, value |-> Default]

ControlInit ==
  /\ pluginRow = {} /\ files = {}
  /\ installed = [n \in PluginNames |-> Missing]
  /\ config = [n \in PluginNames |-> [k \in ConfigKeys |-> Missing]]
  /\ doing = [c \in Clients |-> NoOperation]
  /\ clashed = {}
  /\ returned = [c \in Clients |-> "none"]
  /\ calls = 0 /\ kills = 0

Loading == {"install", "load"}

\* Another client loads what this one removes, or the other way round.
Clashes(c, op, n) ==
  \E d \in Clients \ {c} :
    /\ doing[d].name = n
    /\ \/ op \in Loading /\ doing[d].op = "remove"
       \/ op = "remove" /\ doing[d].op \in Loading

Call(c, op, n, k, v) ==
  /\ doing[c].op = "none"
  /\ calls < MaxCalls /\ calls' = calls + 1
  /\ op = "load" => n \in files
  /\ doing' = [doing EXCEPT ![c] = [op |-> op, step |-> 1, name |-> n, key |-> k, value |-> v]]
  /\ clashed' = IF Clashes(c, op, n) THEN clashed \cup {n} ELSE clashed
  /\ returned' = [returned EXCEPT ![c] = "none"]
  /\ UNCHANGED <<pluginRow, installed, config, files, kills>>

Return(c, r) ==
  /\ doing' = [doing EXCEPT ![c].op = "none"]
  /\ returned' = [returned EXCEPT ![c] = r]

NextStatement(c) == doing' = [doing EXCEPT ![c].step = @ + 1] /\ UNCHANGED returned

AtStep(c, op, step) == doing[c].op = op /\ doing[c].step = step
Tables == <<pluginRow, installed, config>>
Bookkeeping == <<clashed, calls, kills>>

----------------------------------------------------------------------------
(* load_manifest, and plugin_install, which unpacks the archive before it *)

Unpack(c) ==
  /\ AtStep(c, "install", 1)
  /\ \/ files' = files \cup {doing[c].name} /\ NextStatement(c)
     \/ Return(c, "false") /\ UNCHANGED files
  /\ UNCHANGED Tables /\ UNCHANGED Bookkeeping

LoadStep(c) == IF doing[c].op = "install" THEN doing[c].step - 1 ELSE doing[c].step
LoadRuns(c, step) == doing[c].op \in Loading /\ LoadStep(c) = step

InsertPlugin(c) ==
  /\ LoadRuns(c, 1)
  /\ pluginRow' = pluginRow \cup {doing[c].name}
  /\ NextStatement(c) /\ UNCHANGED <<installed, config, files>> /\ UNCHANGED Bookkeeping

\* IPLUGIN_INSERT ... NOT EXISTS: not enabled, and only next to a plugin row.
InsertInstalled(c) ==
  LET n == doing[c].name IN
  /\ LoadRuns(c, 2)
  /\ installed' = IF n \in pluginRow /\ installed[n] = Missing
                  THEN [installed EXCEPT ![n] = 0] ELSE installed
  /\ NextStatement(c) /\ UNCHANGED <<pluginRow, config, files>> /\ UNCHANGED Bookkeeping

\* CFG_INFO_UPDATE and CFG_INSERT ... NOT EXISTS of every key.
InsertConfig(c) ==
  LET n == doing[c].name IN
  /\ LoadRuns(c, 3)
  /\ config' = IF n \in pluginRow
               THEN [config EXCEPT ![n] = [k \in ConfigKeys |-> IF @[k] = Missing THEN Default ELSE @[k]]]
               ELSE config
  /\ Return(c, "true") /\ UNCHANGED <<pluginRow, installed, files>> /\ UNCHANGED Bookkeeping

----------------------------------------------------------------------------
(* plugin_remove: the rows, then the directory *)

\* Mutant: the directory goes first.
DeleteInstalledAfterFiles(c) ==
  /\ AtStep(c, "remove", 1)
  /\ files' = files \ {doing[c].name}
  /\ NextStatement(c) /\ UNCHANGED Tables /\ UNCHANGED Bookkeeping

DeleteInstalled(c) ==
  /\ AtStep(c, "remove", 1)
  /\ installed' = [installed EXCEPT ![doing[c].name] = Missing]
  /\ NextStatement(c) /\ UNCHANGED <<pluginRow, config, files>> /\ UNCHANGED Bookkeeping

\* The foreign key of installedPlugin forbids it, that of the parameters cascades.
DeletePlugin(c) ==
  LET n == doing[c].name IN
  /\ AtStep(c, "remove", 2)
  /\ IF installed[n] # Missing
     THEN Return(c, "false") /\ UNCHANGED <<pluginRow, config>>
     ELSE /\ pluginRow' = pluginRow \ {n}
          /\ config' = [config EXCEPT ![n] = [k \in ConfigKeys |-> Missing]]
          /\ NextStatement(c)
  /\ UNCHANGED <<installed, files>> /\ UNCHANGED Bookkeeping

RemoveFiles(c) ==
  /\ AtStep(c, "remove", 3)
  /\ files' = files \ {doing[c].name}
  /\ Return(c, "true") /\ UNCHANGED Tables /\ UNCHANGED Bookkeeping

----------------------------------------------------------------------------
(* set, reset, enable and disable *)

\* CFG_UPDATE, then CFG_INSERT ... NOT EXISTS.
SetUpdate(c) ==
  LET d == doing[c] IN
  /\ AtStep(c, "set", 1)
  /\ config' = IF config[d.name][d.key] # Missing
               THEN [config EXCEPT ![d.name][d.key] = d.value] ELSE config
  /\ NextStatement(c) /\ UNCHANGED <<pluginRow, installed, files>> /\ UNCHANGED Bookkeeping

SetInsert(c) ==
  LET d == doing[c] IN
  /\ AtStep(c, "set", 2)
  /\ config' = IF d.name \in pluginRow /\ config[d.name][d.key] = Missing
               THEN [config EXCEPT ![d.name][d.key] = d.value] ELSE config
  /\ Return(c, "true") /\ UNCHANGED <<pluginRow, installed, files>> /\ UNCHANGED Bookkeeping

Reset(c) ==
  LET d == doing[c] IN
  /\ AtStep(c, "reset", 1)
  /\ config' = IF config[d.name][d.key] # Missing
               THEN [config EXCEPT ![d.name][d.key] = Default] ELSE config
  /\ Return(c, IF config' # config THEN "true" ELSE "false")
  /\ UNCHANGED <<pluginRow, installed, files>> /\ UNCHANGED Bookkeeping

Enable(c) ==
  LET d == doing[c] IN
  /\ AtStep(c, "enable", 1)
  /\ installed' = IF installed[d.name] # Missing
                  THEN [installed EXCEPT ![d.name] = IF d.value = Default THEN 0 ELSE 1] ELSE installed
  /\ Return(c, IF installed' # installed THEN "true" ELSE "false")
  /\ UNCHANGED <<pluginRow, config, files>> /\ UNCHANGED Bookkeeping

\* A client is killed between two statements.
ClientKilled(c) ==
  /\ doing[c].op # "none"
  /\ kills < MaxKills /\ kills' = kills + 1
  /\ doing' = [doing EXCEPT ![c].op = "none"]
  /\ UNCHANGED <<pluginRow, installed, config, files, clashed, returned, calls>>

Statement(c) ==
  \/ Unpack(c) \/ InsertPlugin(c) \/ InsertInstalled(c) \/ InsertConfig(c)
  \/ DeleteInstalled(c) \/ DeletePlugin(c) \/ RemoveFiles(c)
  \/ SetUpdate(c) \/ SetInsert(c) \/ Reset(c) \/ Enable(c)

Operation(c) ==
  \E n \in PluginNames :
    \/ \E op \in {"install", "load", "remove"} : Call(c, op, n, AnyKey, Default)
    \/ \E k \in ConfigKeys, v \in Values : Call(c, "set", n, k, v)
    \/ \E k \in ConfigKeys : Call(c, "reset", n, k, Default)
    \/ \E v \in 0..1 : Call(c, "enable", n, AnyKey, v)

ControlNext == \E c \in Clients : Operation(c) \/ Statement(c) \/ ClientKilled(c)

ControlSpec == ControlInit /\ [][ControlNext]_controlVars

----------------------------------------------------------------------------
(* Properties *)

\* A plugin the core may start has its files, also after a client was killed half way:
\* files come before the rows and go after them.  Only a load and a removal of the same
\* plugin at the same time can break this.
FilesBehindRows ==
  \A n \in PluginNames \ clashed : installed[n] # Missing => n \in files

=============================================================================
