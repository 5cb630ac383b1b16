--------------------------- MODULE MCApplications ---------------------------
(***************************************************************************)
(* Safety of the applications: the priority plugin as a generator of       *)
(* requests, the intersection validation (revision counters, broadcast     *)
(* rate), the command plugin (telemetry, events, uploads), tmxctl, and the *)
(* CSW, preemption, port drayage and CARMA Streets plugins.  They share no *)
(* state: the initial state says which one runs, the others stay as they   *)
(* started.  What is checked is stated in the components' modules.         *)
(***************************************************************************)
EXTENDS PriorityRequestGenerator, RevisionValidation, BroadcastRate, CommandTelemetry,
        CommandEvents, CommandUploads, TmxControl, CswPlugin, PreemptionPlugin,
        PortDrayage, StreetsConsumers, TLC

VARIABLE active

vars == <<active, genVars, revVars, rateVars, teleVars, eventVars, uploadVars,
          controlVars, cswVars, preemptVars, drayVars, consVars>>

-----------------------------------------------------------------------------
(* The values of the constants that a configuration file cannot write.     *)

Package(t, r) == [rid |-> 1, int |-> 1, type |-> t, inRange |-> r]
Srm(n, pkgs) == [veh |-> 1, seq |-> n, pkgs |-> pkgs]

\* A request, updates and cancellations of it, in one SRM too, and one out of range.
Srms ==
    {Srm(0, <<Package("new", TRUE)>>),
     Srm(0, <<Package("update", TRUE), Package("cancel", TRUE)>>),
     Srm(1, <<Package("cancel", TRUE)>>),
     Srm(2, <<Package("update", TRUE)>>),
     Srm(2, <<Package("new", FALSE)>>),
     Srm(3, <<Package("new", TRUE)>>),
     Srm(4, <<Package("update", TRUE)>>)}
GeneratorConfigs == {[ctrls |-> {1}, lanes |-> {1}], [ctrls |-> {}, lanes |-> {1}]}

\* Truck A is inspected and loaded, truck B inspected and unloaded.
PortFreight ==
    [a1 |-> [veh |-> "A", op |-> "PORT_CHECKPOINT", next |-> "a2"],
     a2 |-> [veh |-> "A", op |-> "PICKUP", next |-> "none"],
     b1 |-> [veh |-> "B", op |-> "PORT_CHECKPOINT", next |-> "b2"],
     b2 |-> [veh |-> "B", op |-> "DROPOFF", next |-> "none"]]
PortFirstAction == [A |-> "a1", B |-> "b1"]

\* Plans of several items; the records of the other topics hold one.
StreetsPlans ==
    {<<"unparsable">>, <<"unencodable", "good">>, <<"good", "mistyped">>}
StreetsItems == {<<"good">>, <<"mistyped">>}

-----------------------------------------------------------------------------
(* The component that runs.                                                *)

Components == {"generator", "revision", "rate", "telemetry", "events", "uploads",
               "control", "csw", "preemption", "drayage", "consumers"}

\* A component that does not run has one of its initial states.
Init ==
    /\ active \in Components
    /\ GenInit
    /\ RevInit /\ (active = "revision" \/ kind = "MAP")
    /\ RateInit
    /\ TeleInit /\ (active = "telemetry" \/ db = [n \in Names |-> 1])
    /\ EventsInit
    /\ UploadsInit
    /\ ControlInit
    /\ CswInit
    /\ PreemptInit
    /\ DrayInit
    /\ ConsInit /\ (active = "consumers" \/ committed = [t \in Topics |-> 0])

Others ==
    /\ UNCHANGED active
    /\ IF active = "generator" THEN TRUE ELSE UNCHANGED genVars
    /\ IF active = "revision" THEN TRUE ELSE UNCHANGED revVars
    /\ IF active = "rate" THEN TRUE ELSE UNCHANGED rateVars
    /\ IF active = "telemetry" THEN TRUE ELSE UNCHANGED teleVars
    /\ IF active = "events" THEN TRUE ELSE UNCHANGED eventVars
    /\ IF active = "uploads" THEN TRUE ELSE UNCHANGED uploadVars
    /\ IF active = "control" THEN TRUE ELSE UNCHANGED controlVars
    /\ IF active = "csw" THEN TRUE ELSE UNCHANGED cswVars
    /\ IF active = "preemption" THEN TRUE ELSE UNCHANGED preemptVars
    /\ IF active = "drayage" THEN TRUE ELSE UNCHANGED drayVars
    /\ IF active = "consumers" THEN TRUE ELSE UNCHANGED consVars

Next ==
    /\ \/ active = "generator" /\ GenNext
       \/ active = "revision" /\ RevNext
       \/ active = "rate" /\ RateNext
       \/ active = "telemetry" /\ TeleNext
       \/ active = "events" /\ EventsNext
       \/ active = "uploads" /\ UploadsNext
       \/ active = "control" /\ ControlNext
       \/ active = "csw" /\ CswNext
       \/ active = "preemption" /\ PreemptNext
       \/ active = "drayage" /\ DrayNext
       \/ active = "consumers" /\ ConsNext
    /\ Others

Spec == Init /\ [][Next]_vars
=============================================================================
