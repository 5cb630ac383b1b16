---------------------- MODULE PriorityRequestGenerator ----------------------
(***************************************************************************)
(* PriorityPlugin in its PRG role (NTCIP 1211 priority request generator). *)
(* Every SRM is translated, package by package, into an SNMP SET to the    *)
(* controller of the intersection: a request, an update or a cancel.  The  *)
(* plugin tracks what the controllers acknowledged; requests it tracks for *)
(* too long are swept when the next SRM arrives.  The SRM is answered with *)
(* an SSM.  Everything runs on the message thread; what interleaves is     *)
(* time, new configurations and SETs that are refused or whose answer is   *)
(* lost.                                                                   *)
(***************************************************************************)
EXTENDS Integers, Sequences

CONSTANTS
  GenVehicles,       \* vehicle IDs
  GenIntersections,  \* intersection IDs
  GenRequestIDs,     \* requestID values
  GenMessages,       \* bound: the SRMs: veh, seq, pkgs
  GenConfigs,        \* configurations: ctrls, and lanes (intersections with a strategy)
  GenTimeToLive,     \* _timeToLiveSec
  GenMaxNow          \* bound: the last second of the model

VARIABLES
  genConfig,    \* the configuration in use: the keys of _controllers, the lane strategies
  genSeq,       \* _requestorStates[v].sequenceNumber, -1 when absent
  tracked,      \* _prgTrackedRequests: state and time of the last SET, by key
  genSrm,       \* the SRM being handled and what is left of it
  answers,      \* state.requests of the requestor: one answer per package
  acked,        \* the last SET each controller acknowledged for a key ("none" at first)
  genNow        \* the clock, in seconds

genVars == <<genConfig, genSeq, tracked, genSrm, answers, acked, genNow>>

Keys == GenVehicles \X GenRequestIDs \X GenIntersections
Untracked == [state |-> "none", at |-> 0]
RequestTypes == {"new", "update", "cancel"}
\* inRange: times of service and departure within the 1..65535 s of NTCIP 1211.
GenPackage == [rid : GenRequestIDs, int : GenIntersections, type : RequestTypes,
               inRange : BOOLEAN]
NoGenSrm == [pc |-> "idle", veh |-> 0, at |-> 0, pkgs |-> <<>>]

GenInit ==
  /\ genConfig = [ctrls |-> {}, lanes |-> {}]
  /\ genSeq = [v \in GenVehicles |-> -1]
  /\ tracked = [k \in Keys |-> Untracked]
  /\ genSrm = NoGenSrm
  /\ answers = <<>>
  /\ acked = [k \in Keys |-> "none"]
  /\ genNow = 1

\* UpdateConfigSettings: the controllers and lane strategies are replaced.
GenUpdateConfigSettings(cfg) ==
  /\ genSrm.pc = "idle" /\ genConfig # cfg
  /\ genConfig' = cfg
  /\ UNCHANGED <<genSeq, tracked, genSrm, answers, acked, genNow>>

\* ClassifyStaleTrackedRequest
Classify(e) ==
  IF e.state = "none" THEN "keep"
  ELSE IF e.state = "canceled" /\ genNow - e.at >= 2 THEN "clear"
  ELSE IF genNow - e.at >= GenTimeToLive THEN "evict"
  ELSE "keep"

\* HandleSRM up to its packages: drop a repeated sequence number, sweep.  Whether a
\* controller takes a clear or not, the entry is erased.
GenHandleSRM(m) ==
  /\ genSrm.pc = "idle"
  /\ genSeq[m.veh] # m.seq
  /\ m.seq > genSeq[m.veh]   \* bound: a vehicle counts its messages upwards
  /\ genSeq' = [genSeq EXCEPT ![m.veh] = m.seq]
  /\ LET cleared == {k \in Keys : Classify(tracked[k]) = "clear"}
     IN \E taken \in SUBSET {k \in cleared : k[3] \in genConfig.ctrls} :
          acked' = [k \in Keys |-> IF k \in taken THEN "clear" ELSE acked[k]]
  /\ tracked' = [k \in Keys |-> IF Classify(tracked[k]) = "keep" THEN tracked[k] ELSE Untracked]
  /\ genSrm' = [pc |-> "packages", veh |-> m.veh, at |-> genNow, pkgs |-> m.pkgs]
  /\ answers' = <<>>
  /\ UNCHANGED <<genConfig, genNow>>

\* Mutant: an explicit update is always sent as one.
BuildPrgPackageTrusting(k, p) ==
  IF ~p.inRange \/ p.int \notin genConfig.lanes \/ p.int \notin genConfig.ctrls THEN "reject"
  ELSE IF p.type = "new" THEN IF tracked[k].state = "sent" THEN "update" ELSE "request"
  ELSE p.type

\* BuildPrgPackage: the OID a package is SET to, or "reject".
BuildPrgPackage(k, p) ==
  IF \/ ~p.inRange
     \/ p.int \notin genConfig.lanes
     \/ p.int \notin genConfig.ctrls
  THEN "reject"
  ELSE CASE p.type = "cancel" -> "cancel"
         [] p.type = "update" -> IF tracked[k].state = "none" THEN "request" ELSE "update"
         [] p.type = "new" -> IF tracked[k].state = "sent" THEN "update" ELSE "request"

\* What a successful SET does to the tracker.
Track(k, oid) ==
  IF oid # "cancel" THEN [tracked EXCEPT ![k] = [state |-> "sent", at |-> genSrm.at]]
  ELSE IF tracked[k].state = "none" THEN tracked
  ELSE [tracked EXCEPT ![k] = [state |-> "canceled", at |-> genSrm.at]]

\* ProcessPrgPackage: SET and, on success only, track.  A SET may be refused, and a
\* controller may take a SET whose answer is lost.
ProcessPrgPackage ==
  /\ genSrm.pc = "packages" /\ genSrm.pkgs # <<>>
  /\ LET p == Head(genSrm.pkgs)
         k == <<genSrm.veh, p.rid, p.int>>
         oid == BuildPrgPackage(k, p)
         answer(rej) == Append(answers, [key |-> k, oid |-> oid, rejected |-> rej])
     IN \/ /\ oid # "reject"
           /\ tracked' = Track(k, oid)
           /\ acked' = [acked EXCEPT ![k] = oid]
           /\ answers' = answer(FALSE)
        \/ /\ answers' = answer(TRUE)
           /\ acked' \in {acked} \cup (IF oid = "reject" THEN {} ELSE {[acked EXCEPT ![k] = oid]})
           /\ UNCHANGED tracked
  /\ genSrm' = [genSrm EXCEPT !.pkgs = Tail(@)]
  /\ UNCHANGED <<genConfig, genSeq, genNow>>

\* BuildSSM: one status package per answer: rejected, watchOtherTraffic or processing.
BuildSSM ==
  /\ genSrm.pc = "packages" /\ genSrm.pkgs = <<>>
  /\ genSrm' = NoGenSrm
  /\ UNCHANGED <<genConfig, genSeq, tracked, answers, acked, genNow>>

GenTick ==
  /\ genNow < GenMaxNow
  /\ genNow' = genNow + 1
  /\ UNCHANGED <<genConfig, genSeq, tracked, genSrm, answers, acked>>

GenNext ==
  \/ \E cfg \in GenConfigs : GenUpdateConfigSettings(cfg)
  \/ \E m \in GenMessages : GenHandleSRM(m)
  \/ ProcessPrgPackage \/ BuildSSM \/ GenTick

GenSpec == GenInit /\ [][GenNext]_genVars

----------------------------------------------------------------------------
\* What the plugin tracks is known at the controller: there is an entry only while the
\* last SET the controller took for the request is a request, an update or a cancel,
\* never after a clear, whatever SETs were refused and whatever answers were lost.
TrackedWasAccepted ==
  \A k \in Keys : tracked[k].state # "none" => acked[k] \notin {"none", "clear"}

\* An update or a clear is SET only for a request that some controller acknowledged
\* and that was not cleared since: the order of operations of NTCIP 1211.
UpdatesRequested ==
  \A k \in Keys : acked'[k] \in {"update", "clear"} /\ acked'[k] # acked[k]
                    => acked[k] \in {"request", "update", "cancel"}

\* No step of the generator SETs an update or a clear out of that order.
NoUpdateWithoutRequest == [][UpdatesRequested]_genVars

=============================================================================
