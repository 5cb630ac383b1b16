--------------------------- MODULE MCPortDrayage ---------------------------
EXTENDS PortDrayage

\* Two trucks that are inspected at the checkpoint and then loaded.
MCFreight ==
    [a1 |-> [veh |-> "A", op |-> "PORT_CHECKPOINT", next |-> "a2"],
     a2 |-> [veh |-> "A", op |-> "PICKUP", next |-> "none"],
     b1 |-> [veh |-> "B", op |-> "PORT_CHECKPOINT", next |-> "b2"],
     b2 |-> [veh |-> "B", op |-> "PICKUP", next |-> "none"]]
MCFirstAction == [A |-> "a1", B |-> "b1"]

\* The plugin's thread runs, operators finish what they started, and trucks do what
\* they were told.  Nothing fails.
DrayageSpec ==
    /\ DraySpec
    /\ WF_drayVars(PluginStep) /\ WF_drayVars(OperatorDone) /\ WF_drayVars(TruckStep)
=============================================================================
