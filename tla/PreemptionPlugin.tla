-------------------------- MODULE PreemptionPlugin --------------------------
(***************************************************************************)
(* The Preemption plugin (v2i-hub/PreemptionPlugin): a basic safety        *)
(* message (BSM) of a vehicle with its lights in use turns a preemption    *)
(* plan of the signal controller on when the vehicle is inside a geofence  *)
(* and off when it is not, by SNMP SET requests.                           *)
(*                                                                         *)
(* Which geofence a position and heading match is abstracted to the plan   *)
(* it names: GeofenceSet holds pointers to objects that no longer exist,   *)
(* so any of the plans, or none, may come out.                             *)
(***************************************************************************)
EXTENDS Integers, Functions

CONSTANTS
    EmergencyVehicles, \* vehicle identifiers
    Plans,             \* preemption plans of the controller
    NoPlan,            \* the plan of a default constructed PreemptionObject
    MaxSets,           \* bound on SNMP requests
    MaxExits           \* bound on restarts of the plugin

VARIABLES
    preemptionMap,     \* preemption_map: vehicle -> plan
    plansOn,           \* the plans that are on in the controller
    commanded,         \* the plans whose last request was "1"
    forgotten,         \* those of them an earlier process of the plugin turned on
    sets, exits

preemptVars == <<preemptionMap, plansOn, commanded, forgotten, sets, exits>>

PreemptInit ==
    /\ preemptionMap = <<>>
    /\ plansOn = {} /\ commanded = {} /\ forgotten = {}
    /\ sets = 0 /\ exits = 0

-----------------------------------------------------------------------------

\* SendOid: the controller may or may not get the request, and the plugin ignores
\* the outcome.
SendOid(plan, on) ==
    /\ sets < MaxSets
    /\ sets' = sets + 1
    /\ commanded' = IF on THEN commanded \cup {plan} ELSE commanded \ {plan}
    /\ plansOn' \in {plansOn, IF on THEN plansOn \cup {plan} ELSE plansOn \ {plan}}
    /\ forgotten' = forgotten \ {plan}

TurnOn(v, plan) ==
    /\ preemptionMap' = [w \in DOMAIN preemptionMap \cup {v} |->
                           IF w = v THEN plan ELSE preemptionMap[w]]
    /\ SendOid(plan, TRUE)

TurnOffErasedFirst(v) ==
    /\ SendOid(NoPlan, FALSE)
    /\ preemptionMap' = Restrict(preemptionMap, DOMAIN preemptionMap \ {v})

\* TurnOffPreemption: the plan is the one the vehicle was entered with.
TurnOff(v) ==
    /\ SendOid(preemptionMap[v], FALSE)
    /\ preemptionMap' = Restrict(preemptionMap, DOMAIN preemptionMap \ {v})

\* HandleBasicSafetyMessage of a vehicle found in the geofence of a plan: a vehicle
\* that has a plan already keeps it, also inside another geofence.
VehicleInside ==
    \E v \in EmergencyVehicles, plan \in Plans :
        /\ v \notin DOMAIN preemptionMap
        /\ TurnOn(v, plan)
        /\ UNCHANGED exits

\* ... and of one found in no geofence.
VehicleOutside ==
    \E v \in DOMAIN preemptionMap :
        /\ TurnOff(v)
        /\ UNCHANGED exits

\* SendOid ends the process when it cannot open a session or parse the OID; the
\* plugin is started again without its map.
PluginExits ==
    /\ exits < MaxExits
    /\ exits' = exits + 1
    /\ preemptionMap' = <<>>
    /\ forgotten' = commanded
    /\ UNCHANGED <<plansOn, commanded, sets>>

PreemptNext == VehicleInside \/ VehicleOutside \/ PluginExits

PreemptSpec == PreemptInit /\ [][PreemptNext]_preemptVars

-----------------------------------------------------------------------------
(* Properties.                                                             *)

\* No plan is left on by mistake: one whose last request turned it on belongs to a
\* vehicle the plugin still follows, or was turned on before the plugin restarted.
NoPlanLeftOn ==
    \A plan \in commanded \ forgotten :
        \E v \in DOMAIN preemptionMap : preemptionMap[v] = plan
=============================================================================
