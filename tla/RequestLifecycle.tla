-------------------------- MODULE RequestLifecycle --------------------------
(***************************************************************************)
(* What the priority request server promises about one request: the walk   *)
(* its priorityRequestStatusInPRS may take (NTCIP 1211 4.3.1, as the       *)
(* comments of ApplyCoStatusUpdates cite it).  Requests are independent:   *)
(* in one step any number of them may move, each along one edge.           *)
(***************************************************************************)
CONSTANT Requests
VARIABLE status

Closed == {"closedCanceled", "closedTimeToLiveError", "closedTimerError",
           "closedStrategyError", "closedCompleted", "closedFlash"}
Ready == {"readyQueued", "readyOverridden"}

Edge(from, to) ==
  \* a new request is queued, or refused because its class was served too recently
  \/ from = "idleNotValid" /\ to \in {"readyQueued", "reserviceError"}
  \* a waiting request is closed or expires
  \/ from \in Ready /\ to \in Closed \cup {"idleNotValid"}
  \* an override ends with the request waiting again, completed or too late
  \/ from = "activeOverride" /\ to \in Ready \cup {"closedCompleted", "closedTimeToLiveError"}
  \* a refused request can only run out of time
  \/ from = "reserviceError" /\ to = "closedTimeToLiveError"
  \* a closed request leaves the table
  \/ from \in Closed /\ to = "idleNotValid"
  \* a request a CO says it serves may be overridden, whatever the table holds of it
  \/ from \in Ready \cup Closed \cup {"reserviceError"} /\ to = "activeOverride"

Init == status = [r \in Requests |-> "idleNotValid"]

Next == \A r \in Requests : status'[r] = status[r] \/ Edge(status[r], status'[r])

Spec == Init /\ [][Next]_status
=============================================================================
