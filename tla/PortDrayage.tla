---------------------------- MODULE PortDrayage ----------------------------
(***************************************************************************)
(* Port drayage: trucks (CMV) tell the plugin which action they completed, *)
(* the plugin looks up the next one in the freight table and broadcasts    *)
(* it.  Loading, unloading and inspection need an operator: the plugin     *)
(* posts the action to the web service and polls it, blocking its only     *)
(* message thread, until the operator is done.  An inspector may send the  *)
(* truck to the holding area, which splices a HOLDING_AREA row into the    *)
(* freight table.                                                          *)
(***************************************************************************)
EXTENDS Naturals, Sequences, FiniteSets, Functions

CONSTANTS
  Trucks,      \* cmv ids
  Actions,     \* action ids of the database
  HoldIds,     \* UUIDs of holding actions (bound)
  Freight0,    \* the freight table: [Actions -> [veh, op, next]]
  FirstAction, \* the first_action table
  NoAction,    \* the empty action id
  NoStatus,    \* a status pointer never set
  MaxFaults    \* bound: failed requests, failed statements, cleared services

Operations == {"PICKUP", "DROPOFF", "PORT_CHECKPOINT", "HOLDING_AREA", "OTHER"}

\* A route ends with an action that no row follows; a checkpoint is not the end of one.
ASSUME FreightAssumption ==
  /\ NoAction \notin Actions \cup HoldIds
  /\ Freight0 \in [Actions -> [veh : Trucks, op : Operations, next : Actions \cup {NoAction}]]
  /\ \A i \in Actions : Freight0[i].next \in Actions => Freight0[Freight0[i].next].veh = Freight0[i].veh
  /\ \A i \in Actions : Freight0[i].op = "PORT_CHECKPOINT" => Freight0[i].next \in Actions
  /\ FirstAction \in [Trucks -> Actions \cup {NoAction}]

Areas == {"loading", "unloading", "inspection"}
Ids == Actions \cup HoldIds
NoCurrent == [id |-> NoAction, status |-> NoStatus]
NoMessage == [veh |-> NoAction, id |-> NoAction, op |-> "none"]

VARIABLES
  freight,   \* the freight table, a function of action ids
  told,      \* the action a truck was last told to do
  inbox,     \* completed actions, in the order the plugin handles them
  thread,    \* the plugin's thread: "idle", "post", "poll", "hold", "reply"
  message,   \* the message it handles
  posted,    \* the action id it polls
  last,      \* loading_status, unloading_status, inspection_status of the client
  service,   \* the web service: current, pending and completed actions per area
  faults,    \* failures so far (bound)
  released   \* trucks told to go on, with what the service said of their action then

drayVars == <<freight, told, inbox, thread, message, posted, last, service, faults, released>>

DrayInit ==
  /\ freight = Freight0
  /\ told = [v \in Trucks |-> NoAction]
  /\ inbox = <<>>
  /\ thread = "idle" /\ message = NoMessage /\ posted = NoAction
  /\ last = [a \in Areas |-> NoStatus]
  /\ service = [a \in Areas |-> [cur |-> NoCurrent, pending |-> <<>>, done |-> {}]]
  /\ faults = 0
  /\ released = {}

Fault == faults < MaxFaults /\ faults' = faults + 1

----------------------------------------------------------------------------
(* The web service *)

\* Mutant: completed actions are not searched.
StatusOfUncompleted(s, id) ==
  IF id \in Range(s.pending) THEN "PENDING"
  ELSE IF id # NoAction /\ s.cur.id = id THEN s.cur.status ELSE NoStatus

\* getContainerActionStatus, getInspectionStatus: pending, current, then completed.
StatusOf(s, id) ==
  IF id \in Range(s.pending) THEN "PENDING"
  ELSE IF id # NoAction /\ s.cur.id = id THEN s.cur.status
  ELSE IF id \in s.done THEN "DONE"
  ELSE NoStatus

\* loadingPost and requestLoadingAction: an id known already is discarded, a new action
\* is current, or waits for the current one.
Requested(s, id) ==
  IF StatusOf(s, id) # NoStatus THEN s
  ELSE IF s.cur = NoCurrent THEN [s EXCEPT !.cur = [id |-> id, status |-> "PENDING"]]
  ELSE [s EXCEPT !.pending = Append(@, id)]

\* inspectionHoldingActionIdPost and requestHolding.
HoldingRequested(s, id) ==
  IF s.cur.id = id /\ s.cur.status = "PROCEED_TO_HOLDING"
  THEN [s EXCEPT !.cur.status = "HOLDING"]
  ELSE s

\* completeCurrentAction, completeInspection: the first pending action takes its place.
Completed(s) ==
  IF s.pending = <<>>
  THEN [cur |-> NoCurrent, pending |-> <<>>, done |-> s.done \cup {s.cur.id}]
  ELSE [cur |-> [id |-> Head(s.pending), status |-> "PENDING"],
        pending |-> Tail(s.pending), done |-> s.done \cup {s.cur.id}]

ByOperator == UNCHANGED <<freight, told, inbox, thread, message, posted, last, released>>

\* The start button of an area, shown while the current action is pending.
StartCurrentAction(a) ==
  /\ service[a].cur.status = "PENDING"
  /\ service' = [service EXCEPT ![a].cur.status = "STARTED"]
  /\ UNCHANGED faults /\ ByOperator

\* The complete button, shown while the action is started.
CompleteCurrentAction(a) ==
  /\ service[a].cur.status = "STARTED"
  /\ service' = [service EXCEPT ![a] = Completed(@)]
  /\ UNCHANGED faults /\ ByOperator

\* The unloading area, with the same two buttons.
UnloadingStep == StartCurrentAction("unloading") \/ CompleteCurrentAction("unloading")

\* The complete button of the inspection area, shown while pending or holding.
CompleteInspection ==
  /\ service["inspection"].cur.status \in {"PENDING", "HOLDING"}
  /\ service' = [service EXCEPT !["inspection"] = Completed(@)]
  /\ UNCHANGED faults /\ ByOperator

\* proceedToHolding: the request further inspection button.
ProceedToHolding ==
  /\ service["inspection"].cur.status = "PENDING"
  /\ service' = [service EXCEPT !["inspection"].cur.status = "PROCEED_TO_HOLDING"]
  /\ UNCHANGED faults /\ ByOperator

\* uiactionResetPost: every action of every area is forgotten.
UiactionReset ==
  /\ Fault
  /\ service' = [a \in Areas |-> [cur |-> NoCurrent, pending |-> <<>>, done |-> {}]]
  /\ ByOperator

----------------------------------------------------------------------------
(* The trucks *)

\* The first message of a truck names no action.
Enter(v) ==
  /\ told[v] = NoAction /\ ~\E m \in Range(inbox) : m.veh = v
  /\ message.veh # v
  /\ ~\E r \in released : r.veh = v
  /\ inbox' = Append(inbox, [veh |-> v, id |-> NoAction, op |-> "none"])
  /\ UNCHANGED <<freight, told, thread, message, posted, last, service, faults, released>>

\* A truck completed what it was told.
CompleteAction(v) ==
  /\ told[v] # NoAction
  /\ inbox' = Append(inbox, [veh |-> v, id |-> told[v], op |-> freight[told[v]].op])
  /\ told' = [told EXCEPT ![v] = NoAction]
  /\ UNCHANGED <<freight, thread, message, posted, last, service, faults, released>>

----------------------------------------------------------------------------
(* The plugin's message thread *)

AreaOf(op) ==
  CASE op = "PICKUP" -> "loading"
    [] op = "DROPOFF" -> "unloading"
    [] OTHER -> "inspection"

\* HandleMobilityOperationMessage, up to the operations that need the web service.
HandleMobilityOperationMessage ==
  /\ thread = "idle" /\ inbox # <<>>
  /\ message' = Head(inbox)
  /\ inbox' = Tail(inbox)
  /\ thread' = IF Head(inbox).op \in {"PICKUP", "DROPOFF", "PORT_CHECKPOINT", "HOLDING_AREA"}
               THEN "post" ELSE "reply"
  /\ UNCHANGED <<freight, told, posted, last, service, faults, released>>

RowsBefore(id, op) == {r \in DOMAIN freight : freight[r].next = id /\ freight[r].op = op}

\* retrieve_holding_inspection_action_id: the checkpoint before a holding action.
CheckpointsBefore(id) ==
  IF RowsBefore(id, "PORT_CHECKPOINT") = {} THEN {NoAction}
  ELSE RowsBefore(id, "PORT_CHECKPOINT")

\* The POST of request_loading_action, request_unloading_action, request_inspection and
\* request_holding: a failure is logged, and polling starts all the same.
Post ==
  LET a == AreaOf(message.op)
  IN /\ thread = "post"
     /\ posted' \in IF message.op = "HOLDING_AREA" THEN CheckpointsBefore(message.id)
                    ELSE {message.id}
     /\ \/ /\ service' = [service EXCEPT ![a] =
                            IF message.op = "HOLDING_AREA" THEN HoldingRequested(@, posted')
                            ELSE Requested(@, posted')]
           /\ UNCHANGED faults
        \/ Fault /\ UNCHANGED service
     /\ thread' = "poll"
     /\ UNCHANGED <<freight, told, inbox, message, last, released>>

\* pollLoadingAction and pollUnloadingAction: until a good answer says that it is done.
PollContainerAction ==
  LET a == AreaOf(message.op)
      status == StatusOf(service[a], posted)
  IN /\ thread = "poll" /\ a # "inspection"
     /\ \/ /\ status # NoStatus
           /\ last' = [last EXCEPT ![a] = status]
           /\ thread' = IF status = "DONE" THEN "reply" ELSE "poll"
           /\ UNCHANGED faults
        \/ Fault /\ UNCHANGED <<last, thread>>
     /\ UNCHANGED <<freight, told, inbox, message, posted, service, released>>

\* Where pollInspectionAction goes with a status.
AfterInspection(status) ==
  CASE status = "DONE" -> "reply"
    [] status = "PROCEED_TO_HOLDING" /\ message.op = "PORT_CHECKPOINT" -> "hold"
    [] status = "PROCEED_TO_HOLDING" /\ message.op = "HOLDING_AREA" -> "reply"
    [] OTHER -> "poll"

\* pollInspectionAction: the status is looked at after every answer, a failed one
\* included.  Dereferencing a status never set ends the process: the message and those
\* waiting are lost.
PollInspectionAction ==
  LET status == StatusOf(service["inspection"], posted)
  IN /\ thread = "poll" /\ AreaOf(message.op) = "inspection"
     /\ IF status = NoStatus
        THEN UNCHANGED <<last, faults>>
        ELSE \/ last' = [last EXCEPT !["inspection"] = status] /\ UNCHANGED faults
             \/ Fault /\ UNCHANGED last
     /\ IF last'["inspection"] = NoStatus
        THEN thread' = "idle" /\ message' = NoMessage /\ inbox' = <<>>
        ELSE thread' = AfterInspection(last'["inspection"]) /\ UNCHANGED <<message, inbox>>
     /\ UNCHANGED <<freight, told, posted, service, released>>

\* retrieveNextAction: the id of the row the row of an action names, if both exist.
NextAction(id) ==
  IF id \in DOMAIN freight /\ freight[id].next \in DOMAIN freight THEN freight[id].next
  ELSE NoAction

\* Mutant: the holding row is linked from the checkpoint but not to the next action.
InsertHoldingUnlinked ==
  /\ thread = "hold"
  /\ \E h \in HoldIds \ DOMAIN freight :
       freight' = [[i \in DOMAIN freight \cup {h} |->
                      IF i = h THEN [veh |-> message.veh, op |-> "HOLDING_AREA", next |-> NoAction]
                      ELSE freight[i]] EXCEPT ![message.id].next = h]
  /\ thread' = "reply"
  /\ UNCHANGED <<told, inbox, message, posted, last, service, faults, released>>

\* insert_holding_action_into_table: insert the row, find its id by its next action,
\* link the checkpoint to it.  A statement may fail; the rest is then skipped.
InsertHoldingAction ==
  LET next == NextAction(message.id)
      inserted(h) == [i \in DOMAIN freight \cup {h} |->
                        IF i = h THEN [veh |-> message.veh, op |-> "HOLDING_AREA", next |-> next]
                        ELSE freight[i]]
  IN /\ thread = "hold"
     /\ \E h \in HoldIds \ DOMAIN freight :
          \/ /\ \E found \in RowsBefore(next, "HOLDING_AREA") \cup {h} :
                  freight' = [i \in DOMAIN inserted(h) |->
                                IF i = message.id THEN [inserted(h)[i] EXCEPT !.next = found]
                                ELSE inserted(h)[i]]
             /\ UNCHANGED faults
          \/ Fault /\ freight' \in {freight, inserted(h)}
     /\ thread' = "reply"
     /\ UNCHANGED <<told, inbox, message, posted, last, service, released>>

\* retrieveFirstAction or retrieveNextAction, and the broadcast of what was found.
BroadcastNextAction ==
  LET next == IF message.id = NoAction THEN FirstAction[message.veh] ELSE NextAction(message.id)
      a == AreaOf(message.op)
  IN /\ thread = "reply"
     /\ told' = IF next = NoAction THEN told ELSE [told EXCEPT ![freight[next].veh] = next]
     /\ released' = released \cup
          {[veh |-> message.veh, id |-> message.id, op |-> message.op,
            status |-> IF message.op \in {"none", "OTHER"} THEN "DONE"
                       ELSE StatusOf(service[a], posted),
            to |-> next, clean |-> faults = 0]}
     /\ thread' = "idle" /\ message' = NoMessage
     /\ UNCHANGED <<freight, inbox, posted, last, service, faults>>

PluginStep ==
  \/ HandleMobilityOperationMessage \/ Post \/ PollContainerAction
  \/ PollInspectionAction \/ InsertHoldingAction \/ BroadcastNextAction

OperatorDone ==
  \/ StartCurrentAction("loading") \/ CompleteCurrentAction("loading")
  \/ UnloadingStep
  \/ CompleteInspection

TruckStep == \E v \in Trucks : CompleteAction(v)

DrayNext ==
  \/ OperatorDone \/ ProceedToHolding \/ UiactionReset
  \/ \E v \in Trucks : Enter(v)
  \/ TruckStep
  \/ PluginStep

DraySpec == DrayInit /\ [][DrayNext]_drayVars

----------------------------------------------------------------------------

\* Actions that whoever follows the freight table from one of them does not leave.
ClosedRoute(S) == \A i \in S \cap DOMAIN freight : freight[i].next \in S

\* Splicing in a holding row, failed or not, never cuts a route: whoever follows the table
\* from an action of the database still comes to the action that followed it, over
\* actions of the same truck.
RouteKept ==
  /\ \A S \in SUBSET (DOMAIN freight \cup {NoAction}) :
       ClosedRoute(S) => \A i \in S \cap Actions : Freight0[i].next \in S
  /\ \A i \in DOMAIN freight :
       freight[i].next \in DOMAIN freight => freight[freight[i].next].veh = freight[i].veh

\* Every message a truck sends is handled in the end ...
EveryMessageHandled == \A v \in Trucks : (message.veh = v) ~> (message.veh # v)

\* ... unless a truck was sent to the holding area and another one waits for inspection.
HandledUnlessHeld ==
  \A v \in Trucks :
    (message.veh = v) ~>
      (message.veh # v \/ service["inspection"].cur.status = "PROCEED_TO_HOLDING" \/ faults > 0)
=============================================================================
