----------------------------- MODULE MapPlugin -----------------------------
(***************************************************************************)
(* The MAP plugin (v2i-hub/MapPlugin): the receive thread replaces the     *)
(* table of map files and selects the active action, the main thread loads *)
(* the files and broadcasts the map of the active action.  The two threads *)
(* share _mapFiles (under data_lock), _mapAction and _isMapFileNew.        *)
(*                                                                         *)
(* A file is a model value; its encoded bytes are the file itself.  Only   *)
(* whether a file converts matters: it does, it makes LoadMapFiles throw,  *)
(* or it is an XML file without a MapData root, which stays without bytes. *)
(***************************************************************************)
EXTENDS Integers, FiniteSets, Functions

CONSTANTS
    MapActions,      \* the actions a signal controller may select (numbers)
    MapTables,       \* configured tables: functions from actions to files
    GoodFiles,       \* files that convert to a MAP message
    BadFiles,        \* files that make the conversion throw
    NoBytes,         \* an empty Bytes attribute, no message
    NoFile,          \* the empty path of a default constructed MapFile
    MaxTableUpdates, \* bound on UpdateConfigSettings
    MaxSelections    \* bound on signal controller actions

VARIABLES
    mapTable,        \* configuration value MAP_Files
    mapFiles,        \* _mapFiles: action -> [path, bytes]
    mapAction,       \* _mapAction, -1 for none
    mapFileNew,      \* _isMapFileNew
    cohdaR63,        \* _cohdaR63
    mapAt,           \* where the main loop is
    mapFilesOk,      \* mapFilesOk of the main loop
    mapWanted,       \* temp of the main loop
    activeAction,    \* activeAction of the main loop
    mapMsg,          \* msg of the main loop: its bytes or NoBytes
    mapSent,         \* the bytes broadcast last
    mapUpdates, mapSelections   \* the bounded events so far

mapVars == <<mapTable, mapFiles, mapAction, mapFileNew, cohdaR63, mapAt,
             mapFilesOk, mapWanted, activeAction, mapMsg, mapSent,
             mapUpdates, mapSelections>>

mainMap == <<mapAt, mapFilesOk, mapWanted, activeAction, mapMsg, mapSent>>

Unread(path) == [path |-> path, bytes |-> NoBytes]

MapInit ==
    /\ mapTable \in MapTables
    /\ mapFiles = <<>>
    /\ mapAction = -1
    /\ mapFileNew = FALSE
    /\ cohdaR63 = FALSE
    /\ mapAt = "top"
    /\ mapFilesOk = FALSE
    /\ mapWanted = -1
    /\ activeAction = -1
    /\ mapMsg = NoBytes
    /\ mapSent = NoBytes
    /\ mapUpdates = 0
    /\ mapSelections = 0

-----------------------------------------------------------------------------
(* The receive thread.                                                     *)

FirstAction(table) == CHOOSE a \in DOMAIN table : \A b \in DOMAIN table : a <= b

\* The selected action after a new table: kept if the table has a map for it,
\* otherwise the first action of the table.
ActionAfter(table) ==
    IF mapAction \in DOMAIN table THEN mapAction
    ELSE IF DOMAIN table = {} THEN -1 ELSE FirstAction(table)

\* UpdateConfigSettings: the whole table is replaced, no file is read yet.
UpdateMapSettings(table) ==
    /\ mapUpdates < MaxTableUpdates
    /\ mapUpdates' = mapUpdates + 1
    /\ mapFiles' = [a \in DOMAIN table |-> Unread(table[a])]
    /\ mapFileNew' = (mapFileNew \/ DOMAIN table # {})
    /\ mapAction' = ActionAfter(table)
    /\ UNCHANGED <<mapSelections, mainMap>>

\* OnStateChange(registered), the first time and after every reconnection, with
\* the configuration the core sends.
MapRegistered ==
    \E table \in MapTables :
        /\ mapTable' = table
        /\ UpdateMapSettings(table)
        /\ UNCHANGED cohdaR63

\* OnConfigChanged.  strcmp is zero for the key "Cohda R63" only: that key makes
\* the plugin read its settings, every other one sets _cohdaR63 from its value.
MapConfigChanged ==
    /\ mapUpdates > 0
    /\ \/ /\ UpdateMapSettings(mapTable)
          /\ UNCHANGED <<mapTable, cohdaR63>>
       \/ \E table \in MapTables \ {mapTable}, truthy \in BOOLEAN :
            /\ mapUpdates < MaxTableUpdates
            /\ mapUpdates' = mapUpdates + 1
            /\ mapTable' = IF truthy THEN mapTable ELSE table
            /\ cohdaR63' = truthy
            /\ UNCHANGED <<mapFiles, mapAction, mapFileNew, mapSelections, mainMap>>

\* OnMessageReceived: the signal controller's action, ignored without a map.
MapActionReceived ==
    \E action \in MapActions \ {mapAction} :
        /\ mapSelections < MaxSelections
        /\ mapSelections' = mapSelections + 1
        /\ IF action \in DOMAIN mapFiles
           THEN mapAction' = action /\ mapFileNew' = TRUE
           ELSE UNCHANGED <<mapAction, mapFileNew>>
        /\ UNCHANGED <<mapTable, mapFiles, cohdaR63, mapUpdates, mainMap>>

-----------------------------------------------------------------------------
(* The main thread.                                                        *)

\* The files LoadMapFiles read when it throws at action a: those before a.
Loaded(upTo) ==
    [a \in DOMAIN mapFiles |->
        IF a < upTo /\ mapFiles[a].path \in GoodFiles
        THEN [mapFiles[a] EXCEPT !.bytes = mapFiles[a].path]
        ELSE mapFiles[a]]

\* Actions whose file is still unread and throws: a bad file, or the entry that
\* operator[] made, whose empty path has no extension.
Throwing == {a \in DOMAIN mapFiles : /\ mapFiles[a].bytes = NoBytes
                                     /\ mapFiles[a].path \in BadFiles \cup {NoFile}}

Past == 1 + CHOOSE a \in MapActions : \A b \in MapActions : a >= b

MapLoadKeepsMessage ==
    /\ mapAt = "top"
    /\ mapFileNew
    /\ mapFilesOk' = (mapFiles # <<>> /\ Throwing = {})
    /\ mapFiles' = Loaded(IF Throwing = {} THEN Past
                          ELSE CHOOSE a \in Throwing : \A b \in Throwing : a <= b)
    /\ mapAt' = "loaded"
    /\ UNCHANGED <<mapTable, mapAction, mapFileNew, cohdaR63, mapWanted, mapSent,
                   mapMsg, activeAction, mapUpdates, mapSelections>>

\* The new files are loaded under data_lock; the message built from the old ones
\* is dropped.  The flag is cleared in a later step.
MapLoad ==
    /\ mapAt = "top"
    /\ mapFileNew
    /\ mapMsg' = NoBytes
    /\ activeAction' = -1
    /\ mapFilesOk' = (mapFiles # <<>> /\ Throwing = {})
    /\ mapFiles' = Loaded(IF Throwing = {} THEN Past
                          ELSE CHOOSE a \in Throwing : \A b \in Throwing : a <= b)
    /\ mapAt' = "loaded"
    /\ UNCHANGED <<mapTable, mapAction, mapFileNew, cohdaR63, mapWanted, mapSent,
                   mapUpdates, mapSelections>>

MapLoadDone ==
    /\ mapAt = "loaded"
    /\ mapFileNew' = FALSE
    /\ mapAt' = "read"
    /\ UNCHANGED <<mapTable, mapFiles, mapAction, cohdaR63, mapFilesOk, mapWanted,
                   activeAction, mapMsg, mapSent, mapUpdates, mapSelections>>

\* The selected action is read without the lock.
MapReadAction ==
    /\ mapAt = "read" \/ (mapAt = "top" /\ ~mapFileNew)
    /\ mapWanted' = mapAction
    /\ mapAt' = IF mapAction < 0 THEN "top"
                ELSE IF mapAction # activeAction THEN "pick" ELSE "send"
    /\ UNCHANGED <<mapTable, mapFiles, mapAction, mapFileNew, cohdaR63, mapFilesOk,
                   activeAction, mapMsg, mapSent, mapUpdates, mapSelections>>

\* The message is built from the bytes of the wanted action, under data_lock;
\* operator[] inserts an empty MapFile for an action the table no longer has.
MapPick ==
    /\ mapAt = "pick"
    /\ LET files == IF mapWanted \in DOMAIN mapFiles THEN mapFiles
                    ELSE [a \in DOMAIN mapFiles \cup {mapWanted} |->
                            IF a = mapWanted THEN Unread(NoFile) ELSE mapFiles[a]]
           bytes == files[mapWanted].bytes
       IN  /\ mapFiles' = files
           /\ mapMsg' = IF bytes = NoBytes THEN mapMsg ELSE bytes
           /\ activeAction' = IF bytes = NoBytes THEN activeAction ELSE mapWanted
    /\ mapAt' = "send"
    /\ UNCHANGED <<mapTable, mapAction, mapFileNew, cohdaR63, mapFilesOk, mapWanted,
                   mapSent, mapUpdates, mapSelections>>

\* The broadcast, and the sleep until the next one.  With _cohdaR63 set the
\* missing message is dereferenced: the plugin is gone.
MapSend ==
    /\ mapAt = "send"
    /\ mapSent' = IF mapFilesOk /\ mapMsg # NoBytes THEN mapMsg ELSE mapSent
    /\ mapAt' = IF mapFilesOk /\ cohdaR63 /\ mapMsg = NoBytes THEN "crashed" ELSE "top"
    /\ UNCHANGED <<mapTable, mapFiles, mapAction, mapFileNew, cohdaR63, mapFilesOk,
                   mapWanted, activeAction, mapMsg, mapUpdates, mapSelections>>

MapMain == MapLoad \/ MapLoadDone \/ MapReadAction \/ MapPick \/ MapSend

MapNext == MapRegistered \/ MapConfigChanged \/ MapActionReceived \/ MapMain

MapSpec == MapInit /\ [][MapNext]_mapVars

-----------------------------------------------------------------------------
(* Properties.                                                             *)

\* Once the selected action and its loaded map stay, and the load succeeded, that
\* map is the one broadcast for ever after (or the plugin has crashed).
LoadedMapSent ==
    \A a \in MapActions, f \in GoodFiles :
        <>[](/\ mapAction = a /\ a \in DOMAIN mapFiles
             /\ mapFiles[a].bytes = f /\ mapFilesOk)
            => <>[](mapSent = f)
=============================================================================
