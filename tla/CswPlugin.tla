----------------------------- MODULE CswPlugin -----------------------------
(***************************************************************************)
(* The Curve Speed Warning plugin (v2i-hub/CswPlugin): basic safety        *)
(* messages (BSM) place vehicles in the zones of a curve, and a warning is *)
(* shown on a sign while some vehicle in a warning zone is too fast.       *)
(*                                                                         *)
(* The geometry that finds the zone of a position is abstracted to the     *)
(* zone itself, 0 for none; zone 4 is past the warning zones 1 to 3.       *)
(***************************************************************************)
EXTENDS Integers, Functions

CONSTANTS
    CswVehicles,      \* vehicle identifiers
    Zones,            \* zones a vehicle may be found in, 0 for none
    Speeds,           \* speeds a BSM may report
    Limits,           \* speed limits of curve files
    SnapInterval,     \* configuration "Snap Interval"
    VehicleTimeout,   \* configuration "Vehicle Timeout"
    ClockModulus,     \* 2^64 in the code: larger than any time used
    MaxCswTime,       \* bound on the clock
    MaxBsms,          \* bound on messages
    MaxClockSteps     \* bound on steps of the system clock into the past

ASSUME CswAssumption ==
    /\ Zones \subseteq Nat /\ VehicleTimeout \in Nat
    /\ ClockModulus \in Nat /\ MaxCswTime \in Nat /\ 0 < MaxCswTime
    /\ MaxCswTime < ClockModulus

VARIABLES
    vehicleInZone,    \* _vehicleInZone: vehicle -> [zone, speed, seen]
    speedLimit,       \* _speedLimit of the loaded curve file
    timLoaded,        \* _isTimLoaded
    lastMsgIdSent,    \* _lastMsgIdSent: what the sign shows
    cswNow,           \* the system clock
    lastReports,      \* the last BSM of each vehicle, as received
    bsms, clockSteps

cswVars == <<vehicleInZone, speedLimit, timLoaded, lastMsgIdSent, cswNow,
             lastReports, bsms, clockSteps>>

CswInit ==
    /\ vehicleInZone = <<>>
    /\ speedLimit = 0
    /\ timLoaded = FALSE
    /\ lastMsgIdSent = -1
    /\ cswNow = 1
    /\ lastReports = <<>>
    /\ bsms = 0
    /\ clockSteps = 0

-----------------------------------------------------------------------------

\* Unsigned difference of two times: a time in the future is very long ago.
Since(now, seen) == (now - seen) % ClockModulus

\* UpdateVehicleInZone: a new vehicle is added when it is in a zone; a known one
\* that left all zones is removed when its last BSM is recent and otherwise stays
\* with zone 0.
UpdateVehicle(vehicles, v, zone, speed, now) ==
    LET entry == [zone |-> zone, speed |-> speed, seen |-> now]
        known == v \in DOMAIN vehicles
    IN  IF ~known /\ zone = 0 THEN vehicles
        ELSE IF known /\ zone = 0 /\ Since(now, vehicles[v].seen) < SnapInterval
        THEN Restrict(vehicles, DOMAIN vehicles \ {v})
        ELSE [w \in DOMAIN vehicles \cup {v} |-> IF w = v THEN entry ELSE vehicles[w]]

RemoveOldVehiclesNone(vehicles, now) == vehicles

\* RemoveOldVehicles: those without a BSM for longer than the timeout.
RemoveOldVehicles(vehicles, now) ==
    Restrict(vehicles,
             {v \in DOMAIN vehicles : Since(now, vehicles[v].seen) <= VehicleTimeout})

\* GetHighestPriorityZoneId: the lowest zone with a speeding vehicle, 0 for none.
HighestPriorityZone(vehicles, limit) ==
    LET speeding == {vehicles[v].zone : v \in {w \in DOMAIN vehicles :
                        vehicles[w].zone # 0 /\ vehicles[w].speed > limit}}
        lowest == {z \in speeding : \A y \in speeding : z <= y}
    IN  IF lowest = {} THEN 0 ELSE CHOOSE z \in lowest : TRUE

\* HandleBasicSafetyMessage for a BSM with a known speed; one without leaves the
\* plugin as it is.  _tim is not initialized until the first curve file is read, so
\* any zone may be found before that too.
HandleBsm ==
    \E v \in CswVehicles, zone \in Zones, speed \in Speeds :
        LET known == UpdateVehicle(vehicleInZone, v, zone, speed, cswNow)
            left  == RemoveOldVehicles(known, cswNow)
        IN  /\ bsms < MaxBsms
            /\ bsms' = bsms + 1
            /\ vehicleInZone' = left
            /\ lastMsgIdSent' =
                 IF HighestPriorityZone(left, speedLimit) \in 1..3 THEN 3 ELSE 0
            /\ lastReports' =
                 [w \in DOMAIN lastReports \cup {v} |->
                    IF w = v THEN [zone |-> zone, speed |-> speed, seen |-> cswNow]
                    ELSE lastReports[w]]
            /\ UNCHANGED <<speedLimit, timLoaded, cswNow, clockSteps>>

\* Main loads a new curve file: a file that cannot be read leaves the old limit.
LoadTim ==
    /\ \E limit \in Limits, ok \in BOOLEAN :
         /\ timLoaded' = ok
         /\ speedLimit' = IF ok THEN limit ELSE speedLimit
    /\ UNCHANGED <<vehicleInZone, lastMsgIdSent, cswNow, lastReports, bsms, clockSteps>>

CswTick ==
    /\ cswNow < MaxCswTime
    /\ cswNow' = cswNow + 1
    /\ UNCHANGED <<vehicleInZone, speedLimit, timLoaded, lastMsgIdSent, lastReports,
                   bsms, clockSteps>>

\* The system clock is set back.
CswClockBack ==
    /\ clockSteps < MaxClockSteps
    /\ clockSteps' = clockSteps + 1
    /\ cswNow' \in 1..(cswNow - 1)
    /\ UNCHANGED <<vehicleInZone, speedLimit, timLoaded, lastMsgIdSent, lastReports, bsms>>

CswNext == HandleBsm \/ LoadTim \/ CswTick \/ CswClockBack

CswSpec == CswInit /\ [][CswNext]_cswVars

-----------------------------------------------------------------------------
(* Properties.                                                             *)

\* The vehicles that justify a warning at time now: heard of within the timeout,
\* and in a warning zone above the limit when they were last heard of.
Warned(now) == {v \in DOMAIN lastReports' :
                  /\ Since(now, lastReports'[v].seen) <= VehicleTimeout
                  /\ lastReports'[v].zone \in 1..3
                  /\ lastReports'[v].speed > speedLimit}

\* After every BSM the sign shows the warning exactly when the messages received so
\* far justify it, whatever vehicles were added, snapped out, timed out or seen
\* again before.  A system clock that was set back can only suppress a warning: it
\* makes every vehicle look silent since long ago.
WarnsExactly ==
    bsms' # bsms =>
        /\ lastMsgIdSent' = 3 => Warned(cswNow) # {}
        /\ Warned(cswNow) # {} /\ clockSteps = 0 => lastMsgIdSent' = 3

\* Every handled BSM leaves the sign with the warning that is due.
WarningExact == [][WarnsExactly]_cswVars
=============================================================================
