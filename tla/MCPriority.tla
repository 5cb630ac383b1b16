----------------------------- MODULE MCPriority -----------------------------
EXTENDS PriorityRequestServer

\* Vehicle 1 is an emergency vehicle; vehicle 2 is a transit bus that sends a second
\* message: the update of its request, with a time of service beyond the time to live,
\* and one more request.
MCRoleOf == <<6, 16>>
Package1(rid, off) == [rid |-> rid, int |-> 1, off |-> off]
MCMessages == {[veh |-> 1, seq |-> 0, pkgs |-> <<Package1(1, 1)>>],
               [veh |-> 2, seq |-> 0, pkgs |-> <<Package1(1, 1)>>],
               [veh |-> 2, seq |-> 1, pkgs |-> <<Package1(1, 2), Package1(2, 1)>>]}
MCReservicePeriod == [t \in 1..10 |-> IF t = 3 THEN 2 ELSE 0]
MCConfigs == {[role |-> "PRS", lanes |-> <<1>>, ctrls |-> {1}],
              [role |-> "PRG", lanes |-> <<0>>, ctrls |-> {}]}
=============================================================================
