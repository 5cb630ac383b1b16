----------------------- MODULE PriorityRequestServer -----------------------
(***************************************************************************)
(* PriorityPlugin in its PRS role (NTCIP 1211 priority request server).    *)
(*                                                                         *)
(* Two threads share the priority request table under _tableMutex.  The    *)
(* message thread runs HandleSRM: it drops duplicates, reads _prsBusy      *)
(* without the lock and then applies the packages of the SRM under it.     *)
(* The exchange thread runs ServiceExchangeLoop: it selects a controller,  *)
(* encodes the table, SETs it to the coordinator (CO) of the controller    *)
(* when it differs from what was sent last, GETs the row statuses back,    *)
(* applies them, runs the prioritization, SETs the result and broadcasts   *)
(* an SSM.  The lock is free while an SNMP request is in flight.           *)
(*                                                                         *)
(* Abstractions: the time of estimated departure moves with the time of    *)
(* service (tsd) and is left out, as are the fields only copied into SSMs  *)
(* (role, inbound lane) and the status counters shown in the UI.           *)
(***************************************************************************)
EXTENDS Integers, Sequences, FiniteSets

CONSTANTS
  NumRows,        \* MAX_SERVICE_REQUESTS: rows of the table and of prsServiceRequest
  Intersections,  \* intersections with a controller that may be configured
  Configs,        \* configurations: role, lanes (strategy per intersection), ctrls
  Vehicles,       \* vehicle IDs
  RoleOf,         \* the BasicVehicleRole of each vehicle
  RequestIDs,     \* requestID values of the packages
  Messages,       \* bound: the SRMs: vehicle, sequence number, packages
  GetTries,       \* GETs of one exchange while the CO is busy (3 in the code)
  TimeToLiveSec,  \* _timeToLiveSec
  ReservicePeriod,\* _reserviceClassTime, by vehicle class type
  MaxBroadcasts,  \* _maxSsmBroadcastsPerStatus
  CoStatuses,     \* statuses the CO may report
  MaxConfigs,     \* bound: times the plugin is configured
  MaxNow          \* bound: the last second of the model

VARIABLES
  role,           \* _pluginRole
  controllers,    \* the keys of _controllers
  laneStrategy,   \* _laneStrategyMap: strategy per intersection, 0 when unmapped
  table,          \* PriorityRequestProcessor::_table
  reserviceLast,  \* _reserviceLastCompletedTime, by class type, 0 when never
  lastSeq,        \* _prsLastSeqByVehicle, -1 when absent
  prsBusy,        \* _prsBusy
  lastSent,       \* _lastSentServiceRequest, <<>> before the first SET
  lock,           \* the holder of _tableMutex: "free", "srm" or "loop"
  srm,            \* the SRM in the message thread
  ex,             \* the exchange thread: program counter and locals
  coHolds,        \* the service request each CO holds
  configs,        \* times the configuration was read (bound)
  now             \* the clock, in seconds

vars == <<role, controllers, laneStrategy, table, reserviceLast, lastSeq,
          prsBusy, lastSent, lock, srm, ex, coHolds, configs, now>>

Rows == 1..NumRows

----------------------------------------------------------------------------
IdleStatus == "idleNotValid"
ReadyX == {"readyQueued", "readyOverridden"}
ActiveX == {"activeProcessing", "activeCancel", "activeOverride",
            "activeNotOverridden", "activeAdjustNotNeeded"}
ClosedX == {"closedCanceled", "closedTimeToLiveError", "closedTimerError",
            "closedStrategyError", "closedCompleted", "closedFlash"}
RequestStatus == {IdleStatus, "reserviceError"} \cup ReadyX \cup ActiveX \cup ClosedX

\* Class type and level of a BasicVehicleRole; smaller is more important.
MapVehicleClass(r) ==
  LET ranked == <<<<6, 12, 13, 14, 5, 7, 11>>, <<>>, <<1, 16>>, <<>>, <<15, 4>>,
                  <<>>, <<3, 2, 9, 17, 18>>>>
      at == {c \in (1..7) \X (1..7) : c[2] \in DOMAIN ranked[c[1]] /\ ranked[c[1]][c[2]] = r}
  IN IF at = {} THEN <<10, 1>> ELSE CHOOSE c \in at : TRUE

ClassOf(v) == MapVehicleClass(RoleOf[v])

MoreImportant(c, d) == c[1] < d[1] \/ (c[1] = d[1] /\ c[2] < d[2])

\* A signal request package: off is the time of service, in seconds from receipt.
Package == [rid : RequestIDs, int : Intersections, off : Int]

\* PriorityRequestEntry{}: the value a row has when it is idle.
BlankRow ==
  [rid |-> 0, veh |-> 0, class |-> <<10, 1>>, strategy |-> 0, tsd |-> 0, ttl |-> 0,
   prs |-> IdleStatus, co |-> IdleStatus, int |-> 0, seq |-> 0,
   ssmCount |-> 0, ssmLast |-> IdleStatus]

Idle(e) == e.prs = IdleStatus
IsFirst(i, S) == i \in S /\ \A j \in S : i <= j

\* What EncodeServiceRequest puts into a row.
EncodeServiceRequest(t) == [i \in Rows |-> <<t[i].strategy, t[i].tsd, t[i].prs>>]

\* Messages with at least one package, configurations with at most one strategy
\* per intersection.
ASSUME PrsAssumption ==
  /\ {NumRows, GetTries, TimeToLiveSec, MaxBroadcasts} \subseteq Nat
  /\ MaxNow \in Nat \ {0}
  /\ CoStatuses \subseteq RequestStatus
  /\ \A cfg \in Configs : cfg.lanes \in [Intersections -> 0..1] /\ cfg.ctrls \subseteq Intersections
  /\ \A m \in Messages : m.veh \in Vehicles /\ m.seq \in Nat /\ m.pkgs \in Seq(Package) \ {<<>>}

NoSRM == [pc |-> "idle", veh |-> 0, seq |-> 0, at |-> 0, busy |-> FALSE, pkgs |-> <<>>,
          ctrls |-> {}]
NoExchange == [pc |-> "unregistered", target |-> 0, data |-> <<>>, report |-> <<>>,
               tries |-> 0, at |-> 0]

Init ==
  /\ role = "PRS"
  /\ controllers = {}
  /\ laneStrategy = [n \in Intersections |-> 0]
  /\ table = [i \in Rows |-> BlankRow]
  /\ reserviceLast = [t \in 1..10 |-> 0]
  /\ lastSeq = [v \in Vehicles |-> -1]
  /\ prsBusy = FALSE
  /\ lastSent = <<>>
  /\ lock = "free"
  /\ srm = NoSRM
  /\ ex = NoExchange
  /\ coHolds = [n \in Intersections |-> EncodeServiceRequest([i \in Rows |-> BlankRow])]
  /\ configs = 0
  /\ now = 1

\* UpdateConfigSettings, run by the message thread between two messages on
\* OnStateChange(registered) and on OnConfigChanged.  _controllers is emptied and
\* filled without the lock, so the exchange thread may see it empty.
UpdateConfigSettings(pc, cfg) ==
  /\ srm.pc = "idle" /\ lock # "loop" /\ configs < MaxConfigs
  /\ configs' = configs + 1
  /\ role' = cfg.role
  /\ laneStrategy' = cfg.lanes
  /\ controllers' = {}
  /\ srm' = [srm EXCEPT !.pc = pc, !.ctrls = cfg.ctrls]
  /\ UNCHANGED <<table, reserviceLast, lastSeq, prsBusy, lastSent, lock, ex, coHolds, now>>

\* A registration while the loop runs is no different from OnConfigChanged.
OnRegistered(cfg) ==
  /\ ex.pc \in {"unregistered", "notStarted"}
  /\ UpdateConfigSettings("register", cfg)

OnConfigChanged(cfg) ==
  /\ ex.pc # "unregistered"
  /\ UpdateConfigSettings("config", cfg)

\* The rest of UpdateConfigSettings; a registration in the PRS role starts the
\* loop, a change of role by configuration neither starts nor stops it.
ConfigureControllers ==
  /\ srm.pc \in {"register", "config"}
  /\ controllers' = srm.ctrls
  /\ srm' = NoSRM
  /\ ex' = IF srm.pc = "config" THEN ex
           ELSE [ex EXCEPT !.pc = IF role = "PRS" THEN "select" ELSE "notStarted"]
  /\ UNCHANGED <<role, laneStrategy, table, reserviceLast, lastSeq, prsBusy, lastSent,
                 lock, coHolds, configs, now>>

----------------------------------------------------------------------------
(* The message thread *)

\* HandleSRM up to the lock: drop a repeated sequence number, remember a new one
\* and read _prsBusy.
HandleSRM(m) ==
  /\ srm.pc = "idle" /\ role = "PRS" /\ ex.pc # "unregistered"
  /\ lastSeq[m.veh] # m.seq
  /\ m.seq > lastSeq[m.veh]   \* bound: a vehicle counts its messages upwards
  /\ lastSeq' = [lastSeq EXCEPT ![m.veh] = m.seq]
  /\ srm' = [srm EXCEPT !.pc = "packages", !.veh = m.veh, !.seq = m.seq, !.at = now,
                         !.busy = prsBusy, !.pkgs = m.pkgs]
  /\ UNCHANGED <<role, controllers, laneStrategy, table, reserviceLast, prsBusy, lastSent,
                 lock, ex, coHolds, configs, now>>

\* Mutant: a row is an update only for the message that made it.
SameRequestAndMessage(e, p) ==
  /\ ~Idle(e)
  /\ e.rid = p.rid /\ e.veh = srm.veh /\ e.seq = srm.seq
  /\ laneStrategy[p.int] # 0 /\ e.strategy = laneStrategy[p.int]

SameRequest(e, p) ==
  /\ ~Idle(e)
  /\ e.rid = p.rid /\ e.veh = srm.veh /\ e.class = ClassOf(srm.veh)
  /\ laneStrategy[p.int] # 0 /\ e.strategy = laneStrategy[p.int]

ReserviceBlocked(type) ==
  /\ ReservicePeriod[type] > 0 /\ reserviceLast[type] > 0
  /\ srm.at - reserviceLast[type] < ReservicePeriod[type]

\* The row stored for a package that is not an update; the fields that are not
\* assigned keep the value they have in the idle row e.
NewRow(p, e) ==
  [e EXCEPT
     !.rid = p.rid, !.veh = srm.veh, !.class = ClassOf(srm.veh),
     !.strategy = laneStrategy[p.int], !.tsd = srm.at + p.off,
     !.ttl = srm.at + TimeToLiveSec, !.int = p.int, !.seq = srm.seq,
     !.prs = IF laneStrategy[p.int] = 0 THEN "closedStrategyError"
             ELSE IF ReserviceBlocked(ClassOf(srm.veh)[1]) THEN "reserviceError"
             ELSE "readyQueued"]

\* A request accepted while _prsBusy was seen overrides the less important
\* rows the CO is serving.
Overridden(e, new) ==
  /\ srm.busy /\ new.prs = "readyQueued"
  /\ e.co \in {"activeProcessing", "activeAdjustNotNeeded"}
  /\ MoreImportant(new.class, e.class)

ApplyPrsPackage(p) ==
  LET same == {i \in Rows : SameRequest(table[i], p)}
      free == {i \in Rows : Idle(table[i])}
  IN \/ \E i \in Rows : /\ IsFirst(i, same)
                        /\ table' = [table EXCEPT ![i].tsd = srm.at + p.off, ![i].seq = srm.seq]
     \/ /\ same = {} /\ free = {}
        /\ UNCHANGED table
     \/ /\ same = {}
        /\ \E slot \in Rows :
             /\ IsFirst(slot, free)
             /\ LET new == NewRow(p, table[slot])
                IN table' = [i \in Rows |->
                               IF i = slot THEN new
                               ELSE IF Overridden(table[i], new)
                                    THEN [table[i] EXCEPT !.prs = "activeOverride"]
                                    ELSE table[i]]

\* One package of the SRM; the lock is held from the first to the last.
ProcessPrsPackage ==
  /\ srm.pc = "packages"
  /\ lock \in {"free", "srm"}
  /\ ApplyPrsPackage(Head(srm.pkgs))
  /\ IF Len(srm.pkgs) = 1
     THEN lock' = "free" /\ srm' = NoSRM
     ELSE lock' = "srm" /\ srm' = [srm EXCEPT !.pkgs = Tail(@)]
  /\ UNCHANGED <<role, controllers, laneStrategy, reserviceLast, lastSeq, prsBusy, lastSent,
                 ex, coHolds, configs, now>>

----------------------------------------------------------------------------
(* The exchange thread *)

loopKeeps == <<role, controllers, laneStrategy, lastSeq, srm, configs, now>>

\* The first row that is not idle and has a controller decides; with none, the
\* first controller of the (unordered) map is polled.
SelectController ==
  /\ ex.pc = "select" /\ lock = "free"
  /\ LET wanted == {i \in Rows : ~Idle(table[i]) /\ table[i].int \in controllers}
     IN \/ \E i \in Rows : /\ IsFirst(i, wanted)
                           /\ ex' = [ex EXCEPT !.pc = "encode", !.target = table[i].int]
        \/ /\ wanted = {}
           /\ \E c \in controllers : ex' = [ex EXCEPT !.pc = "encode", !.target = c]
  /\ UNCHANGED <<loopKeeps, table, reserviceLast, prsBusy, lastSent, lock, coHolds>>

\* DoOneServiceExchange step b: encode under the lock; SET only a changed request.
EncodeRequest ==
  /\ ex.pc = "encode" /\ lock = "free"
  /\ LET data == EncodeServiceRequest(table)
     IN ex' = IF data # lastSent THEN [ex EXCEPT !.data = data, !.pc = "set"]
                                 ELSE [ex EXCEPT !.tries = GetTries, !.pc = "get"]
  /\ UNCHANGED <<loopKeeps, table, reserviceLast, prsBusy, lastSent, lock, coHolds>>

\* Mutant: a failed SET ends the iteration of the loop, without an SSM.
SnmpSetFailureSkipsSsm(okPc) ==
  \/ /\ coHolds' = [coHolds EXCEPT ![ex.target] = ex.data]
     /\ lastSent' = ex.data
     /\ ex' = [ex EXCEPT !.pc = okPc, !.data = <<>>, !.tries = GetTries]
  \/ /\ ex' = [ex EXCEPT !.pc = "select", !.data = <<>>]
     /\ UNCHANGED <<coHolds, lastSent>>

\* Mutant: the request counts as sent whatever the answer is.
SnmpSetRemembersAnyway(okPc) ==
  /\ coHolds' \in {coHolds, [coHolds EXCEPT ![ex.target] = ex.data]}
  /\ lastSent' = ex.data
  /\ ex' \in {[ex EXCEPT !.pc = okPc, !.data = <<>>, !.tries = GetTries],
              [ex EXCEPT !.pc = "ssm", !.data = <<>>]}

\* SnmpSet: accepted, refused, or accepted with the answer lost.
SnmpSet(okPc) ==
  \/ /\ coHolds' = [coHolds EXCEPT ![ex.target] = ex.data]
     /\ lastSent' = ex.data
     /\ ex' = [ex EXCEPT !.pc = okPc, !.data = <<>>, !.tries = GetTries]
  \/ /\ coHolds' \in {coHolds, [coHolds EXCEPT ![ex.target] = ex.data]}
     /\ ex' = [ex EXCEPT !.pc = "ssm", !.data = <<>>]
     /\ UNCHANGED lastSent

SetRequest ==
  /\ ex.pc = "set"
  /\ SnmpSet("get")
  /\ UNCHANGED <<loopKeeps, table, reserviceLast, prsBusy, lock>>

\* What a CO may report: a row it holds as idle is idle, a row is overridden only when
\* the PRS asked for it, and at most one row, not a closed one, is being served.
Reports(c) ==
  {f \in [Rows -> CoStatuses] :
     /\ \A i \in Rows : coHolds[c][i][3] = IdleStatus => f[i] = IdleStatus
     /\ \A i \in Rows : f[i] = "readyOverridden" => coHolds[c][i][3] \in {f[i], "activeOverride"}
     /\ \A i \in Rows : f[i] \in ActiveX => coHolds[c][i][3] \in ReadyX \cup {"activeOverride"}
     /\ \A i, j \in Rows : f[i] \in ActiveX /\ f[j] \in ActiveX => i = j}

\* Steps f to h: GET until the CO is not busy, at most GetTries times.  A failed GET or
\* a last busy answer ends the exchange.
GetResponse ==
  /\ ex.pc = "get"
  /\ \/ \E f \in Reports(ex.target) : ex' = [ex EXCEPT !.pc = "apply", !.report = f, !.tries = 0]
     \/ ex.tries > 1 /\ ex' = [ex EXCEPT !.tries = @ - 1]
     \/ ex' = [ex EXCEPT !.pc = "ssm", !.tries = 0]
  /\ UNCHANGED <<loopKeeps, table, reserviceLast, prsBusy, lastSent, lock, coHolds>>

\* Mutant: a report is taken for every row in use.
PrsAfterAnyReport(prs, st) == IF IdleStatus \in {prs, st} \/ st \in ActiveX THEN prs ELSE st

\* The status of a row in the PRS after the CO reported st for it.
PrsAfterReport(prs, st) ==
  IF \/ prs \in ReadyX /\ st \in ClosedX \ {"closedTimeToLiveError"}
     \/ prs = "activeOverride" /\ st \in {"closedCompleted"} \cup ReadyX
  THEN st ELSE prs

\* Step i, first half: take the lock, apply the reported statuses by row, become busy.
ApplyCoStatusUpdates ==
  /\ ex.pc = "apply" /\ lock = "free"
  /\ table' = [i \in Rows |->
                 IF Idle(table[i]) THEN table[i]
                 ELSE [table[i] EXCEPT !.co = ex.report[i],
                                       !.prs = PrsAfterReport(@, ex.report[i])]]
  /\ reserviceLast' = [t \in 1..10 |->
       IF \E i \in Rows : /\ table[i].prs \in ReadyX \cup {"activeOverride"}
                          /\ ex.report[i] = "closedCompleted"
                          /\ table[i].class[1] = t
       THEN now ELSE reserviceLast[t]]
  /\ prsBusy' = TRUE
  /\ lock' = "loop"
  /\ ex' = [ex EXCEPT !.pc = "prioritize", !.report = <<>>, !.at = now]
  /\ UNCHANGED <<loopKeeps, lastSent, coHolds>>

\* RunPrioritizationProcessing (a) and (b) for one row.
Aged(e) ==
  IF e.prs \in ReadyX \cup ClosedX /\ e.ttl > 0 /\ ex.at >= e.ttl
  THEN BlankRow
  ELSE IF ~Idle(e) /\ e.prs \notin ClosedX /\ e.ttl > 0 /\ e.tsd > e.ttl
       THEN [e EXCEPT !.prs = "closedTimeToLiveError"]
       ELSE e

ActiveRows(t) == {i \in Rows : t[i].co \in ActiveX}

\* CheckForOverride: only the first other queued row is compared with the active one.
CheckForOverride(t, active) ==
  LET queued == {i \in Rows \ {active} : t[i].prs = "readyQueued"}
      higher == \E i \in Rows : IsFirst(i, queued) /\ MoreImportant(t[i].class, t[active].class)
  IN [t EXCEPT ![active].prs = IF higher THEN "activeOverride"
                               ELSE IF @ = "activeOverride" THEN "readyQueued" ELSE @]

\* Sub-steps (i) to (iv): queued rows by importance and time of service, then the
\* overridden, the closed and all others, the idle ones.
Group(e) == CASE e.prs = "readyQueued" -> 1
              [] e.prs = "readyOverridden" -> 2
              [] Idle(e) -> 4
              [] OTHER -> 3

QueuedBefore(e, f) ==
  \/ MoreImportant(e.class, f.class)
  \/ e.class = f.class /\ e.tsd < f.tsd

\* p orders the rows of t; std::sort leaves the order of equal queued rows open,
\* the other groups keep theirs.
Reorders(t, p) ==
  \A i, j \in Rows : i < j =>
    /\ Group(t[p[i]]) <= Group(t[p[j]])
    /\ Group(t[p[i]]) = Group(t[p[j]]) =>
         IF Group(t[p[i]]) = 1 THEN ~QueuedBefore(t[p[j]], t[p[i]]) ELSE p[i] < p[j]

Orders == {p \in [Rows -> Rows] : /\ \A i, j \in Rows : p[i] = p[j] => i = j
                                  /\ \A j \in Rows : \E i \in Rows : p[i] = j}

\* Step i, second half, and step j: prioritize, stop being busy, encode, unlock.
RunPrioritizationProcessing ==
  /\ ex.pc = "prioritize"
  /\ LET t == [i \in Rows |-> Aged(table[i])]
     IN \/ \E active \in Rows : /\ IsFirst(active, ActiveRows(t))
                                /\ table' = CheckForOverride(t, active)
        \/ /\ ActiveRows(t) = {}
           /\ \E p \in Orders : Reorders(t, p) /\ table' = [i \in Rows |-> t[p[i]]]
  /\ prsBusy' = FALSE
  /\ lock' = "free"
  /\ LET data == EncodeServiceRequest(table')
     IN ex' = IF data # lastSent THEN [ex EXCEPT !.data = data, !.pc = "reset", !.at = 0]
                                 ELSE [ex EXCEPT !.pc = "ssm", !.at = 0]
  /\ UNCHANGED <<loopKeeps, reserviceLast, lastSent, coHolds>>

\* Step j: SET the prioritized request.
SetPrioritized ==
  /\ ex.pc = "reset"
  /\ SnmpSet("ssm")
  /\ UNCHANGED <<loopKeeps, table, reserviceLast, prsBusy, lock>>

EffectiveStatus(e) == IF e.co \in ActiveX THEN e.co ELSE e.prs

\* BuildSsmFromTable for one row: a new status starts a new count, a status is
\* broadcast MaxBroadcasts times.
Broadcast(e) ==
  LET count == IF EffectiveStatus(e) # e.ssmLast THEN 0 ELSE e.ssmCount
  IN IF Idle(e) THEN e
     ELSE [e EXCEPT !.ssmLast = EffectiveStatus(e),
                    !.ssmCount = IF count >= MaxBroadcasts THEN count ELSE count + 1]

\* BroadcastSSMFromTable, after every exchange whatever its result; then sleep.
BroadcastSSM ==
  /\ ex.pc = "ssm" /\ lock = "free"
  /\ table' = [i \in Rows |-> Broadcast(table[i])]
  /\ ex' = [NoExchange EXCEPT !.pc = "select"]
  /\ UNCHANGED <<loopKeeps, reserviceLast, prsBusy, lastSent, lock, coHolds>>

Tick ==
  /\ now < MaxNow
  /\ now' = now + 1
  /\ UNCHANGED <<role, controllers, laneStrategy, table, reserviceLast, lastSeq, prsBusy,
                 lastSent, lock, srm, ex, coHolds, configs>>

MessageThread ==
  \/ \E cfg \in Configs : OnRegistered(cfg) \/ OnConfigChanged(cfg)
  \/ ConfigureControllers
  \/ \E m \in Messages : HandleSRM(m)
  \/ ProcessPrsPackage

ExchangeThread ==
  \/ SelectController \/ EncodeRequest \/ SetRequest \/ GetResponse
  \/ ApplyCoStatusUpdates \/ RunPrioritizationProcessing \/ SetPrioritized \/ BroadcastSSM

Next == MessageThread \/ ExchangeThread \/ Tick

Spec == Init /\ [][Next]_vars

\* Both threads run: the operating system schedules them, the lock is always
\* released, SNMP requests time out.  Nothing forces a message to arrive.
FairSpec == Spec /\ WF_vars(ExchangeThread) /\ WF_vars(ProcessPrsPackage)
                 /\ WF_vars(ConfigureControllers)

----------------------------------------------------------------------------
Row == [rid : RequestIDs \cup {0}, veh : Vehicles \cup {0}, class : (1..10) \X (1..10),
        strategy : 0..1, tsd : Int, ttl : Nat, prs : RequestStatus, co : RequestStatus,
        int : Intersections \cup {0}, seq : Nat, ssmCount : 0..MaxBroadcasts,
        ssmLast : RequestStatus]

ServiceRequest == [Rows -> (0..1) \X Int \X RequestStatus]

Message == [pc : {"idle", "register", "config", "packages"}, veh : Vehicles \cup {0},
            seq : Nat, at : Nat, busy : BOOLEAN, pkgs : Seq(Package),
            ctrls : SUBSET Intersections]

Exchange == [pc : {"unregistered", "notStarted", "select", "encode", "set", "get", "apply",
                   "prioritize", "reset", "ssm"},
             target : Intersections \cup {0}, data : ServiceRequest \cup {<<>>},
             report : [Rows -> RequestStatus] \cup {<<>>}, tries : Nat, at : Nat]

\* The types of the state, and who holds the lock when.
TypeOK ==
  /\ table \in [Rows -> Row]
  /\ controllers \subseteq Intersections
  /\ laneStrategy \in [Intersections -> 0..1]
  /\ srm \in Message
  /\ ex \in Exchange
  /\ now \in 1..MaxNow
  /\ prsBusy \in BOOLEAN /\ (prsBusy <=> lock = "loop")
  /\ lock = "loop" <=> ex.pc = "prioritize"
  /\ lock = "srm" => srm.pc = "packages"
  /\ srm.pc = "packages" => srm.pkgs # <<>> /\ srm.veh \in Vehicles
  /\ ex.pc = "apply" => ex.report \in [Rows -> RequestStatus]
  /\ srm.pc = "register" => ex.pc \in {"unregistered", "notStarted"}

\* A row that is idle is blank, so a request inherits nothing of the request that had
\* its row before: no CO status, no count of broadcasts.  ApplyPrsPackage relies on
\* it, for it leaves those fields of the row as they are.
IdleRowsBlank == \A i \in Rows : Idle(table[i]) => table[i] = BlankRow

\* A request of a vehicle has one row, whatever is inserted, reordered and expired
\* in between (the duplicates of ApplyPrsPackage become updates).
OneRowPerRequest ==
  \A i, j \in Rows :
    /\ i # j /\ ~Idle(table[i]) /\ ~Idle(table[j]) /\ table[i].strategy # 0
    => \/ table[i].rid # table[j].rid \/ table[i].veh # table[j].veh
       \/ table[i].strategy # table[j].strategy

\* The inductive invariant: a row also has the class of its vehicle, which SameRequest
\* compares, and of the active statuses the table itself uses activeOverride only.
PrsInv ==
  /\ TypeOK /\ IdleRowsBlank /\ OneRowPerRequest
  /\ \A i \in Rows : /\ ~Idle(table[i]) => table[i].class = ClassOf(table[i].veh)
                     /\ table[i].prs \notin ActiveX \ {"activeOverride"}

\* The requests that can have a row of their own, and the status of each.
Requests == Vehicles \X RequestIDs \X {1}

RowsOf(r) == {i \in Rows : /\ ~Idle(table[i]) /\ table[i].veh = r[1]
                           /\ table[i].rid = r[2] /\ table[i].strategy = r[3]}

StatusOf(r) == LET own == RowsOf(r)
               IN IF own = {} THEN IdleStatus ELSE table[CHOOSE i \in own : TRUE].prs

Lifecycle == INSTANCE RequestLifecycle WITH status <- [r \in Requests |-> StatusOf(r)]

\* The table implements the lifecycle of every request: whatever SRMs, CO reports,
\* prioritizations, failures and lost answers interleave, a request moves along the
\* edges of RequestLifecycle only.  In particular a closed or refused request is never
\* queued again in its row, unless a CO says that it is being served.
FollowsLifecycle == Lifecycle!Spec

\* Only a request that ran out of time may still be overridden: a request its CO closed
\* is closed for good, for the plugin sends a CO what changed before it reads from it
\* again.  It needs a single controller: with two, _lastSentServiceRequest says what
\* was sent to the other one, and a CO reports on rows it was never told are closed.
StaysClosed ==
  \A r \in Requests : StatusOf(r) \in ClosedX \ {"closedTimeToLiveError"}
                        => StatusOf(r)' \in {StatusOf(r), IdleStatus}

\* No step of the message thread or of the exchange loop reopens a closed request.
ClosedForGood == [][StaysClosed]_vars

\* Every stored request is reported in an SSM or leaves the table, whatever the CO
\* and the SNMP requests do, unless a configuration leaves the plugin without a loop or
\* without controllers.
RequestsReported ==
  \A i \in Rows :
    ~Idle(table[i]) /\ table[i].ssmCount = 0
      ~> \/ Idle(table[i]) \/ table[i].ssmCount > 0
         \/ controllers = {} \/ ex.pc \in {"unregistered", "notStarted"}
=============================================================================
