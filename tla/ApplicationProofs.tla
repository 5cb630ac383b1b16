------------------------- MODULE ApplicationProofs -------------------------
(***************************************************************************)
(* The applications, for any vehicles, intersections, zones, topics and    *)
(* configurations: the request tracker agrees with the controllers, every  *)
(* violation of the broadcast interval is reported, warnings are exact,    *)
(* preemption plans are turned off, trucks keep their routes, and the      *)
(* CARMA Streets plugin loses only the records in hand when it dies.       *)
(***************************************************************************)
EXTENDS PriorityRequestGenerator, BroadcastRate, CswPlugin, PreemptionPlugin, PortDrayage,
        StreetsConsumers, TLAPS

----------------------------------------------------------------------------
(* Priority request generator *)

\* The SRMs the plugin gets: of known vehicles, with well-formed packages.
MessagesTyped == \A m \in GenMessages : m.veh \in GenVehicles /\ m.pkgs \in Seq(GenPackage)

Acks == {"none", "request", "update", "cancel", "clear"}

\* The inductive invariant.
GenInv ==
  /\ tracked \in [Keys -> [state : {"none", "sent", "canceled"}, at : Int]]
  /\ acked \in [Keys -> Acks]
  /\ genNow \in Int
  /\ genSrm \in [pc : {"idle", "packages"}, veh : GenVehicles \cup {0}, at : Int,
                 pkgs : Seq(GenPackage)]
  /\ genSrm.pc = "packages" => genSrm.veh \in GenVehicles
  /\ TrackedWasAccepted

LEMMA GenInitial == GenInit => GenInv
BY DEF GenInit, GenInv, Untracked, NoGenSrm, Acks, TrackedWasAccepted

\* The conjuncts of GenInv a step on the tracker has to keep.
TrackerOK ==
  /\ tracked \in [Keys -> [state : {"none", "sent", "canceled"}, at : Int]]
  /\ acked \in [Keys -> Acks]
  /\ TrackedWasAccepted

\* The sweep: a request is cleared at the controller only when its entry is erased too.
LEMMA SweepStep ==
  ASSUME MessagesTyped, GenInv, NEW m \in GenMessages, GenHandleSRM(m)
  PROVE  GenInv' /\ UpdatesRequested
<1> DEFINE cleared == {k \in Keys : Classify(tracked[k]) = "clear"}
<1>1. PICK taken \in SUBSET cleared :
        acked' = [k \in Keys |-> IF k \in taken THEN "clear" ELSE acked[k]]
  BY Zenon DEF GenHandleSRM
<1>2. tracked' = [k \in Keys |-> IF Classify(tracked[k]) = "keep" THEN tracked[k] ELSE Untracked]
  BY Zenon DEF GenHandleSRM
<1>3. \A k \in taken : /\ k \in Keys /\ tracked[k].state # "none"
                       /\ Classify(tracked[k]) # "keep"
  BY Zenon, <1>1 DEF Classify
<1>4. acked \in [Keys -> Acks] /\ TrackedWasAccepted
      /\ tracked \in [Keys -> [state : {"none", "sent", "canceled"}, at : Int]]
  BY Zenon DEF GenInv
<1> HIDE DEF cleared
<1>5. TrackerOK'
  <2>1. (acked \in [Keys -> Acks])'
    BY Zenon, <1>1, <1>4 DEF Acks
  <2>2. (tracked \in [Keys -> [state : {"none", "sent", "canceled"}, at : Int]])'
    BY <1>2, <1>4 DEF Untracked
  <2>3. TrackedWasAccepted'
    BY Zenon, <1>1, <1>2, <1>3, <1>4 DEF TrackedWasAccepted, Untracked
  <2> QED
    BY Zenon, <2>1, <2>2, <2>3 DEF TrackerOK
<1>6. UpdatesRequested
  BY Zenon, <1>1, <1>3, <1>4 DEF UpdatesRequested, TrackedWasAccepted, Acks
<1>7. /\ genSrm' = [pc |-> "packages", veh |-> m.veh, at |-> genNow, pkgs |-> m.pkgs]
      /\ genNow' = genNow /\ genNow \in Int
  BY Zenon DEF GenHandleSRM, GenInv
<1>8. m.veh \in GenVehicles /\ m.pkgs \in Seq(GenPackage)
  BY Zenon DEF MessagesTyped
<1> QED
  BY Zenon, <1>5, <1>6, <1>7, <1>8 DEF GenInv, TrackerOK

\* A package: only what a controller acknowledged is tracked, and an update needs an entry.
LEMMA PackageStep ==
  ASSUME GenInv, ProcessPrgPackage
  PROVE  GenInv' /\ UpdatesRequested
<1> DEFINE p == Head(genSrm.pkgs)
           k == <<genSrm.veh, p.rid, p.int>>
           oid == BuildPrgPackage(k, p)
<1>1. p \in GenPackage /\ k \in Keys /\ genSrm.at \in Int
  <2>1. /\ genSrm.pkgs \in Seq(GenPackage) /\ genSrm.pkgs # <<>> /\ genSrm.at \in Int
        /\ genSrm.veh \in GenVehicles
    BY Zenon DEF GenInv, ProcessPrgPackage
  <2>2. p \in GenPackage
    BY <2>1
  <2> HIDE DEF p
  <2>3. p.rid \in GenRequestIDs /\ p.int \in GenIntersections
    BY Zenon, <2>2 DEF GenPackage
  <2> QED
    BY Zenon, <2>1, <2>2, <2>3 DEF Keys
<1>2. acked \in [Keys -> Acks] /\ TrackedWasAccepted
      /\ tracked \in [Keys -> [state : {"none", "sent", "canceled"}, at : Int]]
  BY Zenon DEF GenInv
<1>3. /\ oid \in {"reject", "request", "update", "cancel"}
      /\ oid = "update" => tracked[k].state # "none"
  BY Zenon, <1>1 DEF BuildPrgPackage, GenPackage, RequestTypes
<1>4. \/ oid # "reject" /\ tracked' = Track(k, oid) /\ acked' = [acked EXCEPT ![k] = oid]
      \/ tracked' = tracked /\ acked' = acked
      \/ oid # "reject" /\ tracked' = tracked /\ acked' = [acked EXCEPT ![k] = oid]
  BY Zenon DEF ProcessPrgPackage
<1> HIDE DEF p, k, oid
<1>5. UpdatesRequested
  BY Zenon, <1>1, <1>2, <1>3, <1>4 DEF UpdatesRequested, TrackedWasAccepted, Acks
<1>6. TrackerOK'
  <2>1. (acked \in [Keys -> Acks])'
    BY Zenon, <1>2, <1>3, <1>4 DEF Acks
  <2>2. (tracked \in [Keys -> [state : {"none", "sent", "canceled"}, at : Int]])'
    BY <1>1, <1>2, <1>4 DEF Track
  <2>3. TrackedWasAccepted'
    <3> SUFFICES ASSUME NEW j \in Keys, tracked'[j].state # "none"
                 PROVE  acked'[j] \notin {"none", "clear"}
      BY Zenon DEF TrackedWasAccepted
    <3>1. CASE tracked' = tracked /\ acked' = acked
      BY Zenon, <1>2, <3>1 DEF TrackedWasAccepted
    <3>2. CASE oid # "reject" /\ acked' = [acked EXCEPT ![k] = oid] /\ j = k
      BY Zenon, <1>2, <1>3, <3>2
    <3>3. CASE j # k /\ acked' = [acked EXCEPT ![k] = oid] /\ tracked' \in {tracked, Track(k, oid)}
      <4>1. tracked'[j] = tracked[j] /\ acked'[j] = acked[j]
        BY Zenon, <1>1, <1>2, <3>3 DEF Track
      <4> QED
        BY Zenon, <1>2, <4>1 DEF TrackedWasAccepted
    <3> QED
      BY Zenon, <1>4, <3>1, <3>2, <3>3
  <2> QED
    BY Zenon, <2>1, <2>2, <2>3 DEF TrackerOK
<1>7. /\ genSrm' = [genSrm EXCEPT !.pkgs = Tail(@)] /\ genNow' = genNow /\ genNow \in Int
      /\ genSrm.pkgs \in Seq(GenPackage) /\ genSrm.pkgs # <<>>
  BY Zenon DEF ProcessPrgPackage, GenInv
<1>8. Tail(genSrm.pkgs) \in Seq(GenPackage)
  BY <1>7
<1>9. /\ genSrm' \in [pc : {"idle", "packages"}, veh : GenVehicles \cup {0}, at : Int,
                      pkgs : Seq(GenPackage)]
      /\ genSrm'.pc = "packages" => genSrm'.veh \in GenVehicles
  BY Zenon, <1>7, <1>8 DEF GenInv
<1> QED
  BY Zenon, <1>5, <1>6, <1>7, <1>9 DEF GenInv, TrackerOK

LEMMA GenStep ==
  ASSUME MessagesTyped, GenInv, [GenNext]_genVars
  PROVE  GenInv' /\ [UpdatesRequested]_genVars
<1>1. ASSUME NEW cfg \in GenConfigs, GenUpdateConfigSettings(cfg)  PROVE GenInv' /\ UpdatesRequested
  BY Zenon, <1>1 DEF GenUpdateConfigSettings, GenInv, TrackedWasAccepted, UpdatesRequested
<1>2. ASSUME NEW m \in GenMessages, GenHandleSRM(m)  PROVE GenInv' /\ UpdatesRequested
  BY Zenon, <1>2, SweepStep
<1>3. CASE ProcessPrgPackage
  BY Zenon, <1>3, PackageStep
<1>4. CASE BuildSSM
  BY <1>4 DEF BuildSSM, NoGenSrm, GenInv, TrackedWasAccepted, UpdatesRequested
<1>5. CASE GenTick
  BY <1>5 DEF GenTick, GenInv, TrackedWasAccepted, UpdatesRequested
<1>6. CASE UNCHANGED genVars
  BY Zenon, <1>6 DEF genVars, GenInv, TrackedWasAccepted
<1> QED
  BY Zenon, <1>1, <1>2, <1>3, <1>4, <1>5, <1>6 DEF GenNext

\* What the plugin tracks, a controller has acknowledged and the plugin has not cleared.
THEOREM TrackedRequestsAreKnown ==
  ASSUME MessagesTyped
  PROVE  GenSpec => []TrackedWasAccepted
<1>1. GenInv /\ [GenNext]_genVars => GenInv'
  BY Zenon, GenStep
<1>2. GenInv => TrackedWasAccepted
  BY Zenon DEF GenInv
<1> QED
  BY <1>1, <1>2, GenInitial, PTL DEF GenSpec

\* ProcessPrgPackage and the sweep keep the order of NTCIP 1211: updates and clears
\* follow a request.
THEOREM UpdatesFollowRequests ==
  ASSUME MessagesTyped
  PROVE  GenSpec => NoUpdateWithoutRequest
<1>1. GenInv /\ [GenNext]_genVars => GenInv'
  BY GenStep
<1>2. GenInv /\ [GenNext]_genVars => [UpdatesRequested]_genVars
  BY Zenon, GenStep
<1> QED
  BY <1>1, <1>2, GenInitial, PTL DEF GenSpec, NoUpdateWithoutRequest

----------------------------------------------------------------------------
(* Broadcast rate *)

\* The configured values are numbers of milliseconds, the duration of a window is not 0.
RateTyped == Threshold \in Nat /\ WindowDuration \in Nat \ {0} /\ MaxClock \in Nat

\* The inductive invariant: without steps back, time is not before the last message, and
\* the violations of the open window are not after it.
RateInv ==
  /\ window \in [open : BOOLEAN, start : Nat, end : Nat, violations : Nat, messages : Nat,
                 source : RateSources \cup {NoSource}, mismatch : BOOLEAN]
  /\ rateNow \in Nat /\ lastAt \in Nat /\ violations \in Nat /\ reported \in Nat
  /\ stepBacks \in Nat
  /\ since \in [messages : Nat, at : SUBSET Nat]
  /\ stepBacks = 0 => lastAt <= rateNow
  /\ stepBacks = 0 /\ window.open => window.start <= rateNow
  /\ ViolationsConserved
  /\ WindowSpansItsViolations

LEMMA RateInitial == RateInit => RateInv
BY DEF RateInit, RateInv, NoWindow, NoSource, ViolationsConserved, WindowSpansItsViolations

\* Time and steps back leave the windows alone.
LEMMA ClockStep ==
  ASSUME RateInv, RateTick \/ \E t \in 1..MaxClock : StepBack(t), RateTyped
  PROVE  RateInv'
<1>1. UNCHANGED <<lastAt, window, violations, reported, since>>
  BY Zenon DEF RateTick, StepBack
<1>2. /\ rateNow' \in Nat /\ stepBacks' \in Nat
      /\ stepBacks' = 0 => stepBacks = 0 /\ rateNow' >= rateNow
  BY DEF RateInv, RateTick, StepBack, RateTyped
<1> QED
  BY <1>1, <1>2 DEF RateInv, ViolationsConserved, WindowSpansItsViolations

\* A message: the ended window is reported, the violation goes into the open window or
\* opens one.
LEMMA MessageStep ==
  ASSUME RateTyped, RateInv, NEW source \in RateSources, RecordMessage(source)
  PROVE  RateInv'
<1> DEFINE w == IF Ended THEN NoWindow ELSE window
           Window == [open : BOOLEAN, start : Nat, end : Nat, violations : Nat, messages : Nat,
                      source : RateSources \cup {NoSource}, mismatch : BOOLEAN]
<1>0. /\ window \in Window /\ rateNow \in Nat /\ lastAt \in Nat /\ violations \in Nat
      /\ reported \in Nat /\ stepBacks \in Nat /\ since \in [messages : Nat, at : SUBSET Nat]
      /\ WindowDuration \in Nat \ {0}
  BY Zenon DEF RateInv, RateTyped
<1>1. lastAt' = rateNow /\ rateNow' = rateNow /\ stepBacks' = stepBacks
  BY Zenon DEF RecordMessage
<1>2. CASE rateNow < lastAt
  <2>1. UNCHANGED <<window, violations, reported, since>>
    BY Zenon, <1>2 DEF RecordMessage
  <2> QED
    BY <1>0, <1>1, <2>1 DEF RateInv, ViolationsConserved, WindowSpansItsViolations
<1>3. CASE ~(rateNow < lastAt)
  <2>1. /\ window' = Counted(w, source)
        /\ violations' = violations + (IF Violation THEN 1 ELSE 0)
        /\ reported' = reported + (IF Ended THEN window.violations ELSE 0)
    BY Zenon, <1>3 DEF RecordMessage
  <2>2. since' = LET s == IF w.open THEN since ELSE [messages |-> 0, at |-> {}]
                 IN [messages |-> IF w.open \/ Violation THEN s.messages + 1 ELSE 0,
                     at |-> IF Violation THEN s.at \cup {rateNow} ELSE s.at]
    BY Zenon, <1>3 DEF RecordMessage
  <2>3. /\ w \in Window
        /\ w.open => ~Ended /\ w = window
        /\ ~w.open => ~window.open \/ Ended
    BY Zenon, <1>0 DEF NoWindow, NoSource
  <2>4. violations = reported + (IF Ended THEN window.violations ELSE 0)
                              + (IF w.open THEN w.violations ELSE 0)
    BY SMTT(30), <1>0, <2>3 DEF RateInv, ViolationsConserved, Ended, NoWindow
  <2>5. stepBacks = 0 /\ w.open =>
          /\ rateNow < w.end /\ w.start <= rateNow
          /\ \A t \in since.at : w.start <= t /\ t < w.end
          /\ w.messages = since.messages
    BY <1>0, <2>3 DEF RateInv, WindowSpansItsViolations, Ended
  <2> HIDE DEF w
  <2>6. CASE ~Violation
    <3>1. CASE w.open
      <4>1. window' = [w EXCEPT !.messages = @ + 1] /\ violations' = violations
            /\ since' = [messages |-> since.messages + 1, at |-> since.at]
        BY SMTT(30), <1>0, <2>1, <2>2, <2>6, <3>1 DEF Counted
      <4> QED
        BY <1>0, <1>1, <2>1, <2>3, <2>4, <2>5, <3>1, <4>1
           DEF RateInv, ViolationsConserved, WindowSpansItsViolations
    <3>2. CASE ~w.open
      <4>1. window' = w /\ violations' = violations /\ since' = [messages |-> 0, at |-> {}]
        BY SMTT(30), <1>0, <2>1, <2>2, <2>6, <3>2 DEF Counted
      <4> QED
        BY SMTT(30), <1>0, <1>1, <2>1, <2>3, <2>4, <3>2, <4>1
           DEF RateInv, ViolationsConserved, WindowSpansItsViolations
    <3> QED
      BY Zenon, <3>1, <3>2
  <2>7. CASE Violation
    <3>1. CASE w.open
      <4>1. window' = [w EXCEPT !.violations = @ + 1, !.messages = @ + 1,
                                !.mismatch = @ \/ source # w.source]
            /\ violations' = violations + 1
            /\ since' = [messages |-> since.messages + 1, at |-> since.at \cup {rateNow}]
        BY Zenon, <1>0, <2>1, <2>2, <2>7, <3>1 DEF Counted
      <4>2. /\ window' \in Window /\ window'.open = w.open /\ window'.start = w.start
            /\ window'.end = w.end /\ window'.violations = w.violations + 1
            /\ window'.messages = w.messages + 1
        <5>1. w.violations + 1 \in Nat /\ w.messages + 1 \in Nat
          BY <2>3
        <5>2. (w.mismatch \/ source # w.source) \in BOOLEAN
          BY ZenonT(30)
        <5> QED
          BY Zenon, <2>3, <4>1, <5>1, <5>2
      <4> QED
        BY <1>0, <1>1, <2>1, <2>3, <2>4, <2>5, <3>1, <4>1, <4>2
           DEF RateInv, ViolationsConserved, WindowSpansItsViolations
    <3>2. CASE ~w.open
      <4>1. window' = Opened(source) /\ violations' = violations + 1
            /\ since' = [messages |-> 1, at |-> {rateNow}]
        BY SMTT(30), <1>0, <2>1, <2>2, <2>7, <3>2 DEF Counted
      <4>2. /\ window' \in Window /\ window'.open /\ window'.start = rateNow
            /\ window'.end = rateNow + WindowDuration /\ window'.violations = 1
            /\ window'.messages = 1
        BY <1>0, <4>1 DEF Opened
      <4> QED
        BY SMTT(30), <1>0, <1>1, <2>1, <2>3, <2>4, <3>2, <4>1, <4>2
           DEF RateInv, ViolationsConserved, WindowSpansItsViolations
    <3> QED
      BY <3>1, <3>2
  <2> QED
    BY Zenon, <2>6, <2>7
<1> QED
  BY Zenon, <1>2, <1>3

LEMMA RateStep ==
  ASSUME RateTyped, RateInv, [RateNext]_rateVars
  PROVE  RateInv'
<1>1. CASE UNCHANGED rateVars
  BY Zenon, <1>1 DEF rateVars, RateInv, ViolationsConserved, WindowSpansItsViolations
<1> QED
  BY Zenon, <1>1, ClockStep, MessageStep DEF RateNext

\* No violation is lost or reported twice, whatever the clock does.
THEOREM ViolationsAreConserved ==
  ASSUME RateTyped
  PROVE  RateSpec => []ViolationsConserved
<1>1. RateInv /\ [RateNext]_rateVars => RateInv'
  BY Zenon, RateStep
<1>2. RateInv => ViolationsConserved
  BY Zenon DEF RateInv
<1> QED
  BY <1>1, <1>2, RateInitial, PTL DEF RateSpec

\* Without steps back an open window spans its violations and counts every message.
THEOREM WindowsSpanTheirViolations ==
  ASSUME RateTyped
  PROVE  RateSpec => []WindowSpansItsViolations
<1>1. RateInv /\ [RateNext]_rateVars => RateInv'
  BY RateStep
<1>2. RateInv => WindowSpansItsViolations
  BY Zenon DEF RateInv
<1> QED
  BY <1>1, <1>2, RateInitial, PTL DEF RateSpec

----------------------------------------------------------------------------
(* Curve speed warning *)

\* The inductive invariant: the map holds last reports only, and while the clock was not
\* set back all that are recent and in a zone.
CswInv ==
  /\ cswNow \in Nat /\ cswNow <= MaxCswTime
  /\ clockSteps \in Nat
  /\ \A v \in DOMAIN lastReports : lastReports[v].zone \in Nat /\ lastReports[v].seen \in Nat
  /\ \A v \in DOMAIN vehicleInZone : v \in DOMAIN lastReports /\ vehicleInZone[v] = lastReports[v]
  /\ clockSteps = 0 =>
       \A v \in DOMAIN lastReports :
         /\ lastReports[v].seen <= cswNow
         /\ lastReports[v].zone # 0 /\ Since(cswNow, lastReports[v].seen) <= VehicleTimeout
              => v \in DOMAIN vehicleInZone

LEMMA SinceIsDifference ==
  ASSUME NEW now \in Nat, NEW seen \in Nat, seen <= now, now < ClockModulus
  PROVE  Since(now, seen) = now - seen
BY SMTT(30), CswAssumption DEF Since

\* What UpdateVehicleInZone and RemoveOldVehicles make of the map.
MapUpdated(left, vehicles, v, zone, speed, now) ==
  /\ \A w \in DOMAIN left : Since(now, left[w].seen) <= VehicleTimeout
  /\ \A w \in DOMAIN left \ {v} : w \in DOMAIN vehicles /\ left[w] = vehicles[w]
  /\ v \in DOMAIN left => left[v] = [zone |-> zone, speed |-> speed, seen |-> now]
  /\ \A w \in DOMAIN vehicles \ {v} :
       Since(now, vehicles[w].seen) <= VehicleTimeout => w \in DOMAIN left
  /\ zone # 0 /\ Since(now, now) <= VehicleTimeout => v \in DOMAIN left

LEMMA MapAfterBsm ==
  ASSUME NEW vehicles, NEW v, NEW zone, NEW speed, NEW now
  PROVE  MapUpdated(RemoveOldVehicles(UpdateVehicle(vehicles, v, zone, speed, now), now),
                    vehicles, v, zone, speed, now)
<1> DEFINE known == UpdateVehicle(vehicles, v, zone, speed, now)
           left == RemoveOldVehicles(known, now)
<1>1. /\ \A w \in DOMAIN known \ {v} : w \in DOMAIN vehicles /\ known[w] = vehicles[w]
      /\ v \in DOMAIN known => known[v] = [zone |-> zone, speed |-> speed, seen |-> now]
      /\ \A w \in DOMAIN vehicles \ {v} : w \in DOMAIN known
      /\ zone # 0 => v \in DOMAIN known
  BY Zenon DEF UpdateVehicle, Restrict
<1>2. /\ DOMAIN left = {w \in DOMAIN known : Since(now, known[w].seen) <= VehicleTimeout}
      /\ \A w \in DOMAIN left : left[w] = known[w]
  BY Zenon DEF RemoveOldVehicles, Restrict
<1> HIDE DEF known, left
<1>3. \A w \in DOMAIN left : Since(now, left[w].seen) <= VehicleTimeout
  BY Zenon, <1>2
<1>4. \A w \in DOMAIN left \ {v} : w \in DOMAIN vehicles /\ left[w] = vehicles[w]
  BY Zenon, <1>1, <1>2
<1>5. v \in DOMAIN left => left[v] = [zone |-> zone, speed |-> speed, seen |-> now]
  BY Zenon, <1>1, <1>2
<1>6. ASSUME NEW w \in DOMAIN vehicles \ {v}, Since(now, vehicles[w].seen) <= VehicleTimeout
      PROVE  w \in DOMAIN left
  BY Zenon, <1>1, <1>2, <1>6
<1>7. ASSUME zone # 0, Since(now, now) <= VehicleTimeout
      PROVE  v \in DOMAIN left
  <2>1. v \in DOMAIN known /\ known[v] = [zone |-> zone, speed |-> speed, seen |-> now]
    BY Zenon, <1>1, <1>7
  <2>2. [zone |-> zone, speed |-> speed, seen |-> now].seen = now
    OBVIOUS
  <2>3. known[v].seen = now
    BY ZenonT(30), <2>1, <2>2
  <2> QED
    BY Zenon, <1>2, <1>7, <2>1, <2>3
<1>8. MapUpdated(left, vehicles, v, zone, speed, now)
  BY Zenon, <1>3, <1>4, <1>5, <1>6, <1>7 DEF MapUpdated
<1> QED
  BY Zenon, <1>8 DEF known, left

\* The sign's test: a speeding vehicle in zone 1, 2 or 3.
LEMMA WarningZone ==
  ASSUME NEW vehicles, NEW limit, \A v \in DOMAIN vehicles : vehicles[v].zone \in Nat
  PROVE  HighestPriorityZone(vehicles, limit) \in 1..3 <=>
           \E v \in DOMAIN vehicles : vehicles[v].zone \in 1..3 /\ vehicles[v].speed > limit
<1> DEFINE speeding == {vehicles[v].zone : v \in {w \in DOMAIN vehicles :
                          vehicles[w].zone # 0 /\ vehicles[w].speed > limit}}
           lowest == {z \in speeding : \A y \in speeding : z <= y}
<1>1. HighestPriorityZone(vehicles, limit) = IF lowest = {} THEN 0 ELSE CHOOSE z \in lowest : TRUE
  BY Zenon DEF HighestPriorityZone
<1>2. \A z \in Nat : z \in speeding <=> z # 0 /\ \E v \in DOMAIN vehicles :
                                               vehicles[v].zone = z /\ vehicles[v].speed > limit
  BY Zenon
<1>3. speeding \subseteq Nat \ {0}
  BY Zenon
<1> HIDE DEF speeding
<1>4. ASSUME HighestPriorityZone(vehicles, limit) \in 1..3
      PROVE  \E z \in 1..3 : z \in speeding
  BY <1>1, <1>4
<1>5. ASSUME NEW z \in 1..3, z \in speeding
      PROVE  HighestPriorityZone(vehicles, limit) \in 1..3
  <2>1. lowest # {}
    <3>1. CASE 1 \in speeding
      BY SMTT(30), <1>3, <3>1
    <3>2. CASE 1 \notin speeding /\ 2 \in speeding
      BY <1>3, <3>2
    <3>3. CASE 1 \notin speeding /\ 2 \notin speeding
      <4>1. 3 \in speeding /\ \A y \in speeding : 3 <= y
        BY <1>3, <1>5, <3>3
      <4> QED
        BY Zenon, <4>1
    <3> QED
      BY Zenon, <3>1, <3>2, <3>3
  <2>2. (CHOOSE x \in lowest : TRUE) \in lowest
    BY Zenon, <2>1
  <2>3. \A x \in lowest : x \in 1..3
    BY <1>3, <1>5
  <2> HIDE DEF lowest
  <2> QED
    BY Zenon, <1>1, <2>1, <2>2, <2>3
<1> QED
  BY <1>2, <1>4, <1>5

LEMMA BsmStep ==
  ASSUME CswInv, HandleBsm
  PROVE  CswInv' /\ WarnsExactly
<1>1. PICK v \in CswVehicles, zone \in Zones, speed \in Speeds :
        /\ vehicleInZone' = RemoveOldVehicles(
                              UpdateVehicle(vehicleInZone, v, zone, speed, cswNow), cswNow)
        /\ lastMsgIdSent' = IF HighestPriorityZone(vehicleInZone', speedLimit) \in 1..3 THEN 3 ELSE 0
        /\ lastReports' = [w \in DOMAIN lastReports \cup {v} |->
                             IF w = v THEN [zone |-> zone, speed |-> speed, seen |-> cswNow]
                             ELSE lastReports[w]]
        /\ UNCHANGED <<speedLimit, timLoaded, cswNow, clockSteps>>
  BY SMTT(30) DEF HandleBsm
<1>a. MapUpdated(vehicleInZone', vehicleInZone, v, zone, speed, cswNow)
  BY Zenon, <1>1, MapAfterBsm
<1>2. /\ \A w \in DOMAIN vehicleInZone' : Since(cswNow, vehicleInZone'[w].seen) <= VehicleTimeout
      /\ \A w \in DOMAIN vehicleInZone' \ {v} :
           w \in DOMAIN vehicleInZone /\ vehicleInZone'[w] = vehicleInZone[w]
      /\ v \in DOMAIN vehicleInZone' =>
           vehicleInZone'[v] = [zone |-> zone, speed |-> speed, seen |-> cswNow]
      /\ \A w \in DOMAIN vehicleInZone \ {v} :
           Since(cswNow, vehicleInZone[w].seen) <= VehicleTimeout => w \in DOMAIN vehicleInZone'
      /\ zone # 0 /\ Since(cswNow, cswNow) <= VehicleTimeout => v \in DOMAIN vehicleInZone'
  BY Zenon, <1>a DEF MapUpdated
<1>3. /\ DOMAIN lastReports' = DOMAIN lastReports \cup {v}
      /\ lastReports'[v] = [zone |-> zone, speed |-> speed, seen |-> cswNow]
      /\ \A w \in DOMAIN lastReports \ {v} : lastReports'[w] = lastReports[w]
  BY Zenon, <1>1
<1>4. zone \in Nat /\ cswNow \in Nat
  BY ZenonT(30), CswAssumption DEF CswInv
<1>b. /\ [zone |-> zone, speed |-> speed, seen |-> cswNow].zone = zone
      /\ [zone |-> zone, speed |-> speed, seen |-> cswNow].seen = cswNow
  OBVIOUS
<1>c. lastReports'[v].zone = zone /\ lastReports'[v].seen = cswNow
  BY Zenon, <1>3, <1>b
<1>5. \A w \in DOMAIN lastReports' : lastReports'[w].zone \in Nat /\ lastReports'[w].seen \in Nat
  <2> SUFFICES ASSUME NEW w \in DOMAIN lastReports'
               PROVE  lastReports'[w].zone \in Nat /\ lastReports'[w].seen \in Nat
    BY Zenon
  <2>1. CASE w = v
    BY ZenonT(30), <1>4, <1>c, <2>1
  <2>2. CASE w # v
    BY Zenon, <1>3, <2>2 DEF CswInv
  <2> QED
    BY Zenon, <2>1, <2>2
<1>6. \A w \in DOMAIN vehicleInZone' : w \in DOMAIN lastReports' /\ vehicleInZone'[w] = lastReports'[w]
  BY Zenon, <1>2, <1>3 DEF CswInv
<1>7. ASSUME clockSteps = 0, NEW w \in DOMAIN lastReports'
      PROVE  /\ lastReports'[w].seen <= cswNow
             /\ lastReports'[w].zone # 0 /\ Since(cswNow, lastReports'[w].seen) <= VehicleTimeout
                  => w \in DOMAIN vehicleInZone'
  <2>1. CASE w = v
    BY <1>2, <1>3, <1>4, <2>1
  <2>2. CASE w # v
    BY ZenonT(30), <1>2, <1>3, <1>7, <2>2 DEF CswInv
  <2> QED
    BY Zenon, <2>1, <2>2
<1>8. CswInv'
  BY ZenonT(30), <1>1, <1>5, <1>6, <1>7 DEF CswInv
<1>9. lastMsgIdSent' = 3 <=> \E w \in DOMAIN vehicleInZone' :
                               vehicleInZone'[w].zone \in 1..3 /\ vehicleInZone'[w].speed > speedLimit
  <2>1. \A w \in DOMAIN vehicleInZone' : vehicleInZone'[w].zone \in Nat
    BY Zenon, <1>5, <1>6
  <2> QED
    BY <1>1, <2>1, WarningZone
<1>10. ASSUME lastMsgIdSent' = 3  PROVE Warned(cswNow) # {}
  BY Zenon, <1>2, <1>6, <1>9, <1>10 DEF Warned
<1>11. ASSUME Warned(cswNow) # {}, clockSteps = 0  PROVE lastMsgIdSent' = 3
  BY <1>6, <1>7, <1>9, <1>11 DEF Warned
<1> QED
  BY Zenon, <1>8, <1>10, <1>11 DEF WarnsExactly

LEMMA CswStep ==
  ASSUME CswInv, [CswNext]_cswVars
  PROVE  CswInv' /\ [WarnsExactly]_cswVars
<1>1. CASE UNCHANGED cswVars
  BY Zenon, <1>1 DEF cswVars, CswInv
<1>2. CASE HandleBsm
  BY Zenon, <1>2, BsmStep
<1>3. CASE LoadTim
  BY Zenon, <1>3 DEF LoadTim, CswInv, WarnsExactly
<1>4. CASE CswTick
  <2>1. /\ cswNow' = cswNow + 1 /\ cswNow \in Nat /\ cswNow < MaxCswTime
        /\ UNCHANGED <<vehicleInZone, lastReports, bsms, clockSteps>>
    BY Zenon, <1>4 DEF CswTick, CswInv
  <2>2. ASSUME clockSteps = 0, NEW v \in DOMAIN lastReports
        PROVE  /\ lastReports[v].seen <= cswNow'
               /\ lastReports[v].zone # 0 /\ Since(cswNow', lastReports[v].seen) <= VehicleTimeout
                    => v \in DOMAIN vehicleInZone
    <3>1. lastReports[v].seen \in Nat /\ lastReports[v].seen <= cswNow
      BY Zenon, <2>2 DEF CswInv
    <3>2. /\ Since(cswNow', lastReports[v].seen) = cswNow' - lastReports[v].seen
          /\ Since(cswNow, lastReports[v].seen) = cswNow - lastReports[v].seen
      BY SMTT(30), <2>1, <3>1, SinceIsDifference, CswAssumption
    <3> QED
      BY <2>1, <2>2, <3>1, <3>2, CswAssumption DEF CswInv
  <2> QED
    BY <2>1, <2>2, CswAssumption DEF CswInv, WarnsExactly
<1>5. CASE CswClockBack
  <2>1. /\ clockSteps' = clockSteps + 1 /\ clockSteps \in Nat /\ cswNow' \in 1..(cswNow - 1)
        /\ cswNow \in Nat /\ cswNow <= MaxCswTime
        /\ UNCHANGED <<vehicleInZone, lastReports, bsms>>
    BY Zenon, <1>5 DEF CswClockBack, CswInv
  <2> QED
    BY <2>1, CswAssumption DEF CswInv, WarnsExactly
<1> QED
  BY Zenon, <1>1, <1>2, <1>3, <1>4, <1>5 DEF CswNext

\* For any vehicles, zones, speeds and limits, and any timeout and snap interval.
THEOREM WarningIsExact == CswSpec => WarningExact
<1>1. CswInit => CswInv
  BY CswAssumption DEF CswInit, CswInv
<1>2. CswInv /\ [CswNext]_cswVars => CswInv' /\ [WarnsExactly]_cswVars
  BY Zenon, CswStep
<1> QED
  BY <1>1, <1>2, PTL DEF CswSpec, WarningExact

----------------------------------------------------------------------------
(* Preemption *)

\* Turning a vehicle's plan off leaves the plans of the others with them.
LEMMA PreemptStep ==
  ASSUME NoPlanLeftOn, [PreemptNext]_preemptVars
  PROVE  NoPlanLeftOn'
<1> SUFFICES ASSUME NEW plan \in commanded' \ forgotten'
             PROVE  \E v \in DOMAIN preemptionMap' : preemptionMap'[v] = plan
  BY Zenon DEF NoPlanLeftOn
<1>1. CASE UNCHANGED preemptVars
  BY Zenon, <1>1 DEF NoPlanLeftOn, preemptVars
<1>2. ASSUME NEW v \in EmergencyVehicles, NEW p \in Plans, v \notin DOMAIN preemptionMap, TurnOn(v, p)
      PROVE  \E w \in DOMAIN preemptionMap' : preemptionMap'[w] = plan
  <2>1. CASE plan = p
    BY Zenon, <1>2, <2>1 DEF TurnOn
  <2>2. CASE plan # p
    <3>1. PICK w \in DOMAIN preemptionMap : preemptionMap[w] = plan
      BY Zenon, <1>2, <2>2 DEF TurnOn, SendOid, NoPlanLeftOn
    <3> QED
      BY Zenon, <1>2, <3>1 DEF TurnOn
  <2> QED
    BY Zenon, <2>1, <2>2
<1>3. ASSUME NEW v \in DOMAIN preemptionMap, TurnOff(v)
      PROVE  \E w \in DOMAIN preemptionMap' : preemptionMap'[w] = plan
  <2>1. plan # preemptionMap[v]
    BY Zenon, <1>3 DEF TurnOff, SendOid
  <2>2. PICK w \in DOMAIN preemptionMap : preemptionMap[w] = plan
    BY Zenon, <1>3, <2>1 DEF TurnOff, SendOid, NoPlanLeftOn
  <2> QED
    BY Zenon, <1>3, <2>1, <2>2 DEF TurnOff, Restrict
<1>4. CASE PluginExits
  BY Zenon, <1>4 DEF PluginExits
<1> QED
  BY Zenon, <1>1, <1>2, <1>3, <1>4 DEF PreemptNext, VehicleInside, VehicleOutside

\* However the vehicles' messages interleave, whichever requests are lost, and however
\* often the plugin is restarted.
THEOREM NoPlanIsLeftOn == PreemptSpec => []NoPlanLeftOn
<1>1. PreemptInit => NoPlanLeftOn
  BY Zenon DEF PreemptInit, NoPlanLeftOn
<1>2. NoPlanLeftOn /\ [PreemptNext]_preemptVars => NoPlanLeftOn'
  BY Zenon, PreemptStep
<1> QED
  BY <1>1, <1>2, PTL DEF PreemptSpec

----------------------------------------------------------------------------
(* Port drayage *)

FreightRows == [veh : Trucks, op : Operations, next : Ids \cup {NoAction}]

\* The table: no row leads out of it but to the end of a route.
TableInv ==
  /\ Actions \subseteq DOMAIN freight /\ DOMAIN freight \subseteq Ids
  /\ freight \in [DOMAIN freight -> FreightRows]
  /\ \A i \in DOMAIN freight : freight[i].next \in DOMAIN freight \cup {NoAction}
  /\ \A i \in DOMAIN freight : freight[i].op = "PORT_CHECKPOINT" => freight[i].next \in DOMAIN freight
  /\ RouteKept

\* What a truck says, or was told, is what the table holds of its action.
TrueMessage(m) ==
  \/ m.id = NoAction /\ m.op = "none"
  \/ m.id \in DOMAIN freight /\ freight[m.id].veh = m.veh /\ freight[m.id].op = m.op

DrayMessages == [veh : Trucks, id : Ids \cup {NoAction}, op : Operations \cup {"none"}]

MessagesInv ==
  /\ inbox \in Seq(DrayMessages)
  /\ thread # "idle" => message \in DrayMessages
  /\ DOMAIN told = Trucks
  /\ \A k \in 1..Len(inbox) : TrueMessage(inbox[k])
  /\ TrueMessage(message)
  /\ \A v \in Trucks : told[v] # NoAction => told[v] \in DOMAIN freight /\ freight[told[v]].veh = v
  /\ thread = "hold" => message.op = "PORT_CHECKPOINT"

\* The inductive invariant: a truck that is sent to the holding area is at the checkpoint
\* whose row it names.
DrayInv == TableInv /\ MessagesInv

\* A step that adds row h after checkpoint c keeps the routes: whatever is closed after the
\* step was closed before it, less row h.
LEMMA SplicedTable ==
  ASSUME TableInv, NEW c \in DOMAIN freight, NEW h \in HoldIds,
         freight[c].next \in DOMAIN freight, h \notin DOMAIN freight,
         DOMAIN freight' = DOMAIN freight \cup {h},
         \A i \in DOMAIN freight : i # c => freight'[i] = freight[i],
         freight'[h] = [veh |-> freight[c].veh, op |-> "HOLDING_AREA", next |-> freight[c].next],
         freight' \in [DOMAIN freight' -> FreightRows],
         freight'[c].veh = freight[c].veh, freight'[c].op = freight[c].op,
         NEW n, n = freight'[c].next,
         \/ n = freight[c].next
         \/ /\ n \in DOMAIN freight' /\ n # c
            /\ freight'[n].next = freight[c].next /\ freight'[n].veh = freight[c].veh
  PROVE  TableInv'
<1>1. DOMAIN freight \subseteq DOMAIN freight' /\ c # h /\ n \in DOMAIN freight'
  BY Zenon
<1>2. Actions \subseteq DOMAIN freight' /\ DOMAIN freight' \subseteq Ids
  BY Zenon DEF TableInv, Ids
<1>3. ASSUME NEW i \in DOMAIN freight'
      PROVE  /\ freight'[i].next \in DOMAIN freight' \cup {NoAction}
             /\ freight'[i].op = "PORT_CHECKPOINT" => freight'[i].next \in DOMAIN freight'
  <2>1. CASE i = h
    BY <2>1
  <2>2. CASE i = c
    BY Zenon, <1>1, <2>2
  <2>3. CASE i # h /\ i # c
    BY <2>3 DEF TableInv
  <2> QED
    BY Zenon, <2>1, <2>2, <2>3
<1>4. ASSUME NEW S \in SUBSET (DOMAIN freight' \cup {NoAction}), ClosedRoute(S)',
             NEW i \in S \cap Actions
      PROVE  Freight0[i].next \in S
  <2> DEFINE T == S \cap (DOMAIN freight \cup {NoAction})
  <2>1. ASSUME NEW j \in T \cap DOMAIN freight  PROVE freight[j].next \in T
    <3>1. freight'[j].next \in S
      BY Zenon, <1>4 DEF ClosedRoute
    <3>2. CASE j # c
      BY Zenon, <3>1, <3>2 DEF TableInv
    <3>3. CASE j = c
      <4>1. n \in S /\ n \in DOMAIN freight'
        BY Zenon, <1>1, <3>1, <3>3
      <4>2. freight'[n].next \in S
        BY Zenon, <1>4, <4>1 DEF ClosedRoute
      <4> QED
        BY Zenon, <3>3, <4>1, <4>2
    <3> QED
      BY Zenon, <3>2, <3>3
  <2>2. T \in SUBSET (DOMAIN freight \cup {NoAction}) /\ ClosedRoute(T)
    BY Zenon, <2>1 DEF ClosedRoute
  <2>3. i \in T \cap Actions
    BY Zenon DEF TableInv
  <2>4. Freight0[i].next \in T
    BY Zenon, <2>2, <2>3 DEF TableInv, RouteKept
  <2> QED
    BY Zenon, <2>4
<1>5. ASSUME NEW i \in DOMAIN freight', freight'[i].next \in DOMAIN freight'
      PROVE  freight'[freight'[i].next].veh = freight'[i].veh
  <2>1. \A j \in DOMAIN freight : freight'[j].veh = freight[j].veh
    BY Zenon
  <2>2. freight[freight[c].next].veh = freight[c].veh
    BY Zenon DEF TableInv, RouteKept
  <2>3. CASE i = h
    BY <2>1, <2>2, <2>3
  <2>4. CASE i = c
    BY Zenon, <2>1, <2>2, <2>4
  <2>5. CASE i # h /\ i # c
    <3>1. i \in DOMAIN freight /\ freight'[i] = freight[i]
      BY Zenon, <2>5
    <3>2. freight[i].next \in DOMAIN freight
      BY <1>5, <3>1, FreightAssumption DEF TableInv, Ids
    <3> QED
      BY <2>1, <3>1, <3>2 DEF TableInv, RouteKept
  <2> QED
    BY Zenon, <2>3, <2>4, <2>5
<1>6. RouteKept'
  BY Zenon, <1>4, <1>5 DEF RouteKept
<1> QED
  BY Zenon, <1>2, <1>3, <1>6 DEF TableInv

\* Rows keep their truck and their operation, so messages stay true.
LEMMA MessagesStayTrue ==
  ASSUME MessagesInv, UNCHANGED <<told, inbox, message>>,
         DOMAIN freight \subseteq DOMAIN freight',
         \A i \in DOMAIN freight : freight'[i].veh = freight[i].veh /\ freight'[i].op = freight[i].op,
         thread' # "idle" => thread # "idle",
         thread' = "hold" => message.op = "PORT_CHECKPOINT"
  PROVE  MessagesInv'
<1>1. \A m : TrueMessage(m) => TrueMessage(m)'
  BY Zenon DEF TrueMessage
<1>2. (\A k \in 1..Len(inbox) : TrueMessage(inbox[k]))'
  <2> SUFFICES ASSUME NEW k \in 1..Len(inbox)  PROVE TrueMessage(inbox[k])'
    BY Zenon
  <2>1. TrueMessage(inbox[k])
    BY Zenon DEF MessagesInv
  <2> QED
    BY Zenon, <2>1 DEF TrueMessage
<1>3. TrueMessage(message)'
  BY Zenon, <1>1 DEF MessagesInv, TrueMessage
<1>4. \A v \in Trucks : told'[v] # NoAction => told'[v] \in DOMAIN freight' /\ freight'[told'[v]].veh = v
  BY Zenon DEF MessagesInv
<1> QED
  BY Zenon, <1>2, <1>3, <1>4 DEF MessagesInv

LEMMA InsertStep ==
  ASSUME DrayInv, InsertHoldingAction
  PROVE  DrayInv'
<1> DEFINE c == message.id
           next == NextAction(c)
           row == [veh |-> message.veh, op |-> "HOLDING_AREA", next |-> next]
           added(h) == [i \in DOMAIN freight \cup {h} |-> IF i = h THEN row ELSE freight[i]]
<1>1. /\ c \in DOMAIN freight /\ freight[c].veh = message.veh /\ freight[c].op = "PORT_CHECKPOINT"
      /\ next \in DOMAIN freight /\ next = freight[c].next
  <2>1. message.op = "PORT_CHECKPOINT" /\ TrueMessage(message)
    BY Zenon DEF InsertHoldingAction, DrayInv, MessagesInv
  <2>2. c \in DOMAIN freight /\ freight[c].veh = message.veh /\ freight[c].op = "PORT_CHECKPOINT"
    BY Zenon, <2>1 DEF TrueMessage
  <2>3. freight[c].next \in DOMAIN freight
    BY Zenon, <2>2 DEF DrayInv, TableInv
  <2> QED
    BY Zenon, <2>2, <2>3 DEF NextAction
<1>2. UNCHANGED <<told, inbox, message>> /\ thread' = "reply" /\ thread # "idle"
  BY Zenon DEF InsertHoldingAction
<1>3. PICK h \in HoldIds \ DOMAIN freight :
        \/ \E found \in RowsBefore(next, "HOLDING_AREA") \cup {h} :
             freight' = [i \in DOMAIN added(h) |->
                           IF i = c THEN [added(h)[i] EXCEPT !.next = found] ELSE added(h)[i]]
        \/ freight' \in {freight, added(h)}
  BY Zenon DEF InsertHoldingAction
<1>4. /\ freight \in [DOMAIN freight -> FreightRows]
      /\ c # h /\ DOMAIN freight \subseteq Ids /\ h \in Ids
  BY Zenon, <1>1 DEF DrayInv, TableInv, Ids
<1>5. row \in FreightRows /\ row.next = next /\ row.veh = freight[c].veh
  <2>1. freight[c] \in FreightRows /\ next \in Ids
    BY Zenon, <1>1, <1>4
  <2>2. message.veh \in Trucks
    BY Zenon, <1>1, <2>1 DEF FreightRows
  <2>3. \A v \in Trucks, n \in Ids : [veh |-> v, op |-> "HOLDING_AREA", next |-> n] \in FreightRows
    BY Zenon DEF FreightRows, Operations
  <2>4. row \in FreightRows
    BY Zenon, <2>1, <2>2, <2>3
  <2> QED
    BY Zenon, <1>1, <2>4
<1> HIDE DEF row
<1>6. /\ added(h) \in [DOMAIN freight \cup {h} -> FreightRows] /\ added(h)[h] = row
      /\ \A i \in DOMAIN freight : added(h)[i] = freight[i]
  BY Zenon, <1>3, <1>4, <1>5
<1>7. CASE freight' = freight
  BY Zenon, <1>2, <1>7, MessagesStayTrue DEF DrayInv, TableInv, RouteKept, ClosedRoute
<1> HIDE DEF added
<1>8. CASE freight' = added(h)
  <2>1. /\ DOMAIN freight' = DOMAIN freight \cup {h}
        /\ freight'[c] = freight[c]
        /\ freight' \in [DOMAIN freight' -> FreightRows]
    BY Zenon, <1>1, <1>6, <1>8
  <2>2. TableInv'
    BY Zenon, <1>1, <1>3, <1>6, <1>8, <2>1, SplicedTable DEF DrayInv, row
  <2>3. MessagesInv'
    BY Zenon, <1>2, <1>6, <1>8, <2>1, MessagesStayTrue DEF DrayInv
  <2> QED
    BY Zenon, <2>2, <2>3 DEF DrayInv
<1>9. ASSUME NEW found \in RowsBefore(next, "HOLDING_AREA") \cup {h},
             freight' = [i \in DOMAIN added(h) |->
                           IF i = c THEN [added(h)[i] EXCEPT !.next = found] ELSE added(h)[i]]
      PROVE  DrayInv'
  <2>1. DOMAIN freight' = DOMAIN freight \cup {h}
    BY Zenon, <1>6, <1>9
  <2>2. /\ found \in DOMAIN freight \cup {h} /\ found # c
        /\ added(h)[found].next = next /\ added(h)[found].veh = freight[c].veh
    <3>1. CASE found = h
      BY Zenon, <1>4, <1>5, <1>6, <3>1
    <3>2. CASE found # h
      <4>1. found \in DOMAIN freight /\ freight[found].next = next /\ freight[found].op = "HOLDING_AREA"
        BY Zenon, <1>9, <3>2 DEF RowsBefore
      <4>2. freight[next].veh = freight[found].veh /\ freight[next].veh = freight[c].veh
        BY Zenon, <1>1, <4>1 DEF DrayInv, TableInv, RouteKept
      <4> QED
        BY Zenon, <1>1, <1>6, <4>1, <4>2
    <3> QED
      BY Zenon, <3>1, <3>2
  <2>3. /\ freight'[c] = [freight[c] EXCEPT !.next = found]
        /\ \A i \in DOMAIN freight : i # c => freight'[i] = freight[i]
        /\ freight'[h] = added(h)[h] /\ freight'[found] = added(h)[found]
    BY Zenon, <1>1, <1>3, <1>4, <1>6, <1>9, <2>2
  <2>4. /\ freight'[c].next = found /\ freight'[c].veh = freight[c].veh
        /\ freight'[c].op = freight[c].op
        /\ freight'[c] \in FreightRows
    <3>1. freight[c] \in FreightRows /\ found \in Ids
      BY Zenon, <1>1, <1>4, <2>2
    <3> QED
      BY Zenon, <2>3, <3>1 DEF FreightRows
  <2>5. freight' \in [DOMAIN freight' -> FreightRows]
    BY Zenon, <1>6, <1>9, <2>1, <2>4
  <2>6. TableInv'
    <3>1. freight'[h] = [veh |-> freight[c].veh, op |-> "HOLDING_AREA", next |-> freight[c].next]
      BY Zenon, <1>1, <1>6, <2>3 DEF row
    <3>2. /\ freight'[c].next \in DOMAIN freight' /\ freight'[c].next # c
          /\ freight'[freight'[c].next].next = freight[c].next
          /\ freight'[freight'[c].next].veh = freight[c].veh
      BY Zenon, <1>1, <2>1, <2>2, <2>3, <2>4
    <3> QED
      BY ZenonT(30), <1>1, <1>3, <2>1, <2>3, <2>4, <2>5, <3>1, <3>2, SplicedTable DEF DrayInv
  <2>7. MessagesInv'
    <3>1. \A i \in DOMAIN freight : freight'[i].veh = freight[i].veh /\ freight'[i].op = freight[i].op
      BY Zenon, <2>3, <2>4
    <3> QED
      BY Zenon, <1>2, <2>1, <3>1, MessagesStayTrue DEF DrayInv
  <2> QED
    BY Zenon, <2>6, <2>7 DEF DrayInv
<1> QED
  BY Zenon, <1>3, <1>7, <1>8, <1>9

LEMMA BroadcastStep ==
  ASSUME DrayInv, BroadcastNextAction
  PROVE  MessagesInv'
<1> DEFINE next == IF message.id = NoAction THEN FirstAction[message.veh] ELSE NextAction(message.id)
<1>1. /\ told' = (IF next = NoAction THEN told ELSE [told EXCEPT ![freight[next].veh] = next])
      /\ thread = "reply" /\ thread' = "idle" /\ message' = NoMessage /\ UNCHANGED <<freight, inbox>>
  BY Zenon DEF BroadcastNextAction
<1>2. next # NoAction => next \in DOMAIN freight
  <2>1. CASE message.id = NoAction
    <3>1. message.veh \in Trucks
      BY Zenon, <1>1 DEF DrayInv, MessagesInv, DrayMessages
    <3> QED
      BY Zenon, <2>1, <3>1, FreightAssumption DEF DrayInv, TableInv
  <2>2. CASE message.id # NoAction
    BY Zenon, <2>2 DEF NextAction
  <2> QED
    BY Zenon, <2>1, <2>2
<1> HIDE DEF next
<1>3. DOMAIN told' = Trucks
  BY Zenon, <1>1 DEF DrayInv, MessagesInv
<1>4. ASSUME NEW v \in Trucks, told'[v] # NoAction
      PROVE  told'[v] \in DOMAIN freight /\ freight[told'[v]].veh = v
  <2>1. CASE next # NoAction /\ freight[next].veh = v
    <3>1. told'[v] = next
      BY Zenon, <1>1, <2>1 DEF DrayInv, MessagesInv
    <3> QED
      BY Zenon, <1>2, <2>1, <3>1
  <2>2. CASE ~(next # NoAction /\ freight[next].veh = v)
    <3>1. told'[v] = told[v]
      BY Zenon, <1>1, <2>2 DEF DrayInv, MessagesInv
    <3> QED
      BY Zenon, <1>4, <3>1 DEF DrayInv, MessagesInv
  <2> QED
    BY Zenon, <2>1, <2>2
<1>5. TrueMessage(message)'
  BY Zenon, <1>1 DEF TrueMessage, NoMessage
<1>6. inbox' \in Seq(DrayMessages) /\ (\A k \in 1..Len(inbox) : TrueMessage(inbox[k]))'
  BY Zenon, <1>1 DEF DrayInv, MessagesInv, TrueMessage
<1> QED
  BY Zenon, <1>1, <1>3, <1>4, <1>5, <1>6 DEF MessagesInv

\* A message joins the queue.
LEMMA QueuedMessage ==
  ASSUME MessagesInv, NEW m \in DrayMessages, TrueMessage(m), inbox' = Append(inbox, m),
         UNCHANGED <<freight, message, thread>>,
         DOMAIN told' = Trucks, \A v \in Trucks : told'[v] \in {told[v], NoAction}
  PROVE  MessagesInv'
<1>1. inbox' \in Seq(DrayMessages)
  BY SMTT(30) DEF MessagesInv
<1>2. ASSUME NEW k \in 1..Len(inbox')  PROVE TrueMessage(inbox'[k])
  <2>1. inbox \in Seq(DrayMessages) /\ Len(inbox') = Len(inbox) + 1
    BY DEF MessagesInv
  <2>2. CASE k \in 1..Len(inbox)
    <3>1. inbox'[k] = inbox[k]
      BY <2>1, <2>2
    <3> QED
      BY Zenon, <2>2, <3>1 DEF MessagesInv
  <2>3. CASE k = Len(inbox) + 1
    <3>1. inbox'[k] = m
      BY <2>1, <2>3
    <3> QED
      BY Zenon, <3>1
  <2> QED
    BY <2>1, <2>2, <2>3
<1>3. (\A k \in 1..Len(inbox) : TrueMessage(inbox[k]))'
  BY Zenon, <1>2 DEF TrueMessage
<1>4. TrueMessage(message)'
  BY Zenon DEF MessagesInv, TrueMessage
<1>5. (\A v \in Trucks : told[v] # NoAction => told[v] \in DOMAIN freight /\ freight[told[v]].veh = v)'
  BY Zenon DEF MessagesInv
<1> QED
  BY ZenonT(30), <1>1, <1>3, <1>4, <1>5 DEF MessagesInv

LEMMA DrayStep ==
  DrayInv /\ [DrayNext]_drayVars => DrayInv'
<1> SUFFICES ASSUME DrayInv, [DrayNext]_drayVars  PROVE DrayInv'
  BY Zenon
<1>a. UNCHANGED freight => TableInv'
  BY Zenon DEF DrayInv, TableInv, RouteKept, ClosedRoute
<1>b. ASSUME UNCHANGED <<freight, told, inbox, message>>, thread' # "idle" => thread # "idle",
             thread' = "hold" => message.op = "PORT_CHECKPOINT"
      PROVE  DrayInv'
  BY Zenon, <1>a, <1>b, MessagesStayTrue DEF DrayInv
<1>1. CASE OperatorDone \/ ProceedToHolding \/ UiactionReset \/ UNCHANGED drayVars
  <2>1. UNCHANGED <<freight, told, inbox, message, thread>>
    BY Zenon, <1>1 DEF OperatorDone, UnloadingStep, StartCurrentAction, CompleteCurrentAction,
       CompleteInspection, ProceedToHolding, UiactionReset, ByOperator, drayVars
  <2> QED
    BY Zenon, <1>b, <2>1 DEF DrayInv, MessagesInv
<1>2. ASSUME NEW v \in Trucks, Enter(v)  PROVE DrayInv'
  <2> DEFINE m == [veh |-> v, id |-> NoAction, op |-> "none"]
  <2>1. inbox' = Append(inbox, m) /\ UNCHANGED <<freight, told, message, thread>>
    BY Zenon, <1>2 DEF Enter
  <2>2. m \in DrayMessages /\ TrueMessage(m)
    BY Zenon DEF DrayMessages, TrueMessage
  <2> HIDE DEF m
  <2>3. DOMAIN told' = Trucks /\ \A u \in Trucks : told'[u] \in {told[u], NoAction}
    BY Zenon, <2>1 DEF DrayInv, MessagesInv
  <2> QED
    BY Zenon, <1>a, <2>1, <2>2, <2>3, QueuedMessage DEF DrayInv
<1>3. ASSUME NEW v \in Trucks, CompleteAction(v)  PROVE DrayInv'
  <2> DEFINE m == [veh |-> v, id |-> told[v], op |-> freight[told[v]].op]
  <2>1. /\ inbox' = Append(inbox, m) /\ told' = [told EXCEPT ![v] = NoAction]
        /\ told[v] # NoAction /\ UNCHANGED <<freight, message, thread>>
    BY Zenon, <1>3 DEF CompleteAction
  <2>2. told[v] \in DOMAIN freight /\ freight[told[v]].veh = v
    BY Zenon, <2>1 DEF DrayInv, MessagesInv
  <2>3. freight[told[v]] \in FreightRows /\ told[v] \in Ids
    BY Zenon, <2>2 DEF DrayInv, TableInv
  <2>4. m \in DrayMessages
    BY Zenon, <2>3 DEF DrayMessages, FreightRows
  <2>5. TrueMessage(m)
    BY Zenon, <2>2 DEF TrueMessage
  <2> HIDE DEF m
  <2>6. DOMAIN told' = Trucks /\ \A u \in Trucks : told'[u] \in {told[u], NoAction}
    BY Zenon, <2>1 DEF DrayInv, MessagesInv
  <2> QED
    BY Zenon, <1>a, <2>1, <2>4, <2>5, <2>6, QueuedMessage DEF DrayInv
<1>4. CASE HandleMobilityOperationMessage
  <2>1. /\ inbox # <<>> /\ message' = Head(inbox) /\ inbox' = Tail(inbox)
        /\ thread' \in {"post", "reply"} /\ UNCHANGED <<freight, told>>
    BY Zenon, <1>4 DEF HandleMobilityOperationMessage
  <2>2. /\ inbox \in Seq(DrayMessages) /\ Len(inbox) > 0 /\ Head(inbox) = inbox[1]
        /\ inbox' \in Seq(DrayMessages) /\ message' \in DrayMessages
    BY <2>1 DEF DrayInv, MessagesInv
  <2>3. TrueMessage(message)'
    <3>1. TrueMessage(inbox[1])
      BY <2>2 DEF DrayInv, MessagesInv
    <3> QED
      BY Zenon, <2>1, <2>2, <3>1 DEF TrueMessage
  <2>4. (\A k \in 1..Len(inbox) : TrueMessage(inbox[k]))'
    <3> SUFFICES ASSUME NEW k \in 1..Len(inbox')  PROVE TrueMessage(inbox[k])'
      BY Zenon
    <3>1. inbox'[k] = inbox[k + 1] /\ k + 1 \in 1..Len(inbox)
      BY <2>1, <2>2
    <3>2. TrueMessage(inbox[k + 1])
      BY Zenon, <3>1 DEF DrayInv, MessagesInv
    <3> QED
      BY Zenon, <2>1, <3>1, <3>2 DEF TrueMessage
  <2>5. thread' # "hold"
    BY Zenon, <2>1
  <2>6. MessagesInv'
    BY Zenon, <2>1, <2>2, <2>3, <2>4, <2>5 DEF DrayInv, MessagesInv
  <2> QED
    BY Zenon, <1>a, <2>1, <2>6 DEF DrayInv
<1>5. CASE Post \/ PollContainerAction
  <2>1. /\ UNCHANGED <<freight, told, inbox, message>> /\ thread' # "hold" /\ thread # "idle"
    BY Zenon, <1>5 DEF Post, PollContainerAction
  <2> QED
    BY Zenon, <1>b, <2>1
<1>6. CASE PollInspectionAction
  <2>1. thread = "poll" /\ UNCHANGED <<freight, told>>
    BY Zenon, <1>6 DEF PollInspectionAction
  <2>2. CASE last'["inspection"] = NoStatus
    <3>1. thread' = "idle" /\ message' = NoMessage /\ inbox' = <<>>
      BY Zenon, <1>6, <2>2 DEF PollInspectionAction
    <3>2. TrueMessage(message)'
      BY Zenon, <3>1 DEF TrueMessage, NoMessage
    <3>3. inbox' \in Seq(DrayMessages) /\ (\A k \in 1..Len(inbox) : TrueMessage(inbox[k]))'
      BY <3>1
    <3>4. MessagesInv'
      BY Zenon, <2>1, <3>1, <3>2, <3>3 DEF DrayInv, MessagesInv
    <3> QED
      BY Zenon, <1>a, <2>1, <3>4 DEF DrayInv
  <2>3. CASE last'["inspection"] # NoStatus
    <3>1. thread' = AfterInspection(last'["inspection"]) /\ UNCHANGED <<message, inbox>>
      BY Zenon, <1>6, <2>3 DEF PollInspectionAction
    <3>2. thread' = "hold" => message.op = "PORT_CHECKPOINT"
      BY Zenon, <3>1 DEF AfterInspection
    <3> QED
      BY Zenon, <1>b, <2>1, <3>1, <3>2
  <2> QED
    BY Zenon, <2>2, <2>3
<1>7. CASE InsertHoldingAction
  BY Zenon, <1>7, InsertStep
<1>8. CASE BroadcastNextAction
  BY Zenon, <1>8, <1>a, BroadcastStep DEF DrayInv, BroadcastNextAction
<1> QED
  BY Zenon, <1>1, <1>2, <1>3, <1>4, <1>5, <1>6, <1>7, <1>8 DEF DrayNext, TruckStep, PluginStep

\* However many trucks and holding rows there are, and whichever statement of a splice
\* fails, every truck still comes to the action that followed in the freight table.
THEOREM RoutesAreKept == DraySpec => []RouteKept
<1>1. DrayInit => DrayInv
  <2> SUFFICES ASSUME DrayInit  PROVE DrayInv
    BY Zenon
  <2>1. freight = Freight0 /\ DOMAIN freight = Actions
    BY Zenon, FreightAssumption DEF DrayInit
  <2>2. \A i \in Actions : Freight0[i] \in FreightRows
    BY Zenon, FreightAssumption DEF FreightRows, Ids
  <2>3. freight \in [DOMAIN freight -> FreightRows]
    BY Zenon, <2>1, <2>2, FreightAssumption
  <2>4. RouteKept
    BY Zenon, <2>1, FreightAssumption DEF RouteKept, ClosedRoute
  <2>5. TableInv
    BY ZenonT(30), <2>1, <2>3, <2>4, FreightAssumption DEF TableInv, Ids
  <2>6. MessagesInv
    BY DEF DrayInit, MessagesInv, TrueMessage, NoMessage
  <2> QED
    BY Zenon, <2>5, <2>6 DEF DrayInv
<1>2. DrayInv => RouteKept
  BY Zenon DEF DrayInv, TableInv
<1> QED
  BY <1>1, <1>2, DrayStep, PTL DEF DraySpec

----------------------------------------------------------------------------
(* CARMA Streets consumers *)

ConsTypeOK ==
  /\ log \in [Topics -> Seq(PlanRecords \cup ItemRecords)]
  /\ position \in [Topics -> Nat] /\ committed \in [Topics -> Nat \cup {NoOffset}]
  /\ consumer \in [Topics -> {"new", "running", "stopped"}]
  /\ inHand \in [Topics -> BOOLEAN]
  /\ DOMAIN handled = Topics /\ DOMAIN jumped = Topics

\* Every record up to offset n was dealt with, jumped, or in hand when the plugin died.
Accounted(t, n) == \A o \in 1..n : o \in handled[t] \cup jumped[t] \cup dropped[t]

\* The last offset consumer t is done with.
DoneWith(t) == IF inHand[t] THEN position[t] - 1 ELSE position[t]

\* The inductive invariant: the records are accounted for up to where the consumer is, or
\* will start again.
TopicInv(t) ==
  /\ inHand[t] => consumer[t] = "running" /\ position[t] > 0
  /\ consumer[t] = "new" => Accounted(t, committed[t])
  /\ consumer[t] # "new" => committed[t] <= position[t] /\ Accounted(t, DoneWith(t))

ConsInv == ConsTypeOK /\ \A t \in Topics : TopicInv(t)

LEMMA OtherTopics ==
  ASSUME ConsInv, NEW u \in Topics,
         /\ position'[u] = position[u] /\ committed'[u] = committed[u]
         /\ consumer'[u] = consumer[u] /\ inHand'[u] = inHand[u]
         /\ handled'[u] = handled[u] /\ jumped'[u] = jumped[u] /\ dropped'[u] = dropped[u]
  PROVE  TopicInv(u)'
BY Zenon DEF ConsInv, TopicInv, DoneWith, Accounted

LEMMA DieStep ==
  ASSUME ConsInv, Die, UNCHANGED <<log, committed, handled, jumped>>
  PROVE  ConsInv'
<1>1. ConsTypeOK'
  BY Zenon DEF ConsInv, ConsTypeOK, Die
<1>2. ASSUME NEW t \in Topics  PROVE TopicInv(t)'
  <2>1. /\ consumer'[t] = "new" /\ ~inHand'[t]
        /\ dropped'[t] = dropped[t] \cup (IF inHand[t] THEN {position[t]} ELSE {})
        /\ committed'[t] = committed[t] /\ handled'[t] = handled[t] /\ jumped'[t] = jumped[t]
    BY Zenon DEF Die, RecordInHand
  <2>2. TopicInv(t) /\ position[t] \in Nat /\ committed[t] \in Nat \cup {NoOffset}
    BY ZenonT(30) DEF ConsInv, ConsTypeOK
  <2>3. Accounted(t, committed[t])'
    BY <2>1, <2>2 DEF TopicInv, Accounted, DoneWith, NoOffset
  <2> QED
    BY Zenon, <2>1, <2>3 DEF TopicInv
<1> QED
  BY Zenon, <1>1, <1>2 DEF ConsInv

LEMMA SubscribeStep ==
  ASSUME ConsInv, NEW t \in Topics, Subscribe(t)
  PROVE  ConsInv'
<1>1. /\ consumer' = [consumer EXCEPT ![t] = "running"] /\ consumer[t] = "new"
      /\ position' = [position EXCEPT ![t] = StartOffset(t)]
      /\ jumped' = [jumped EXCEPT ![t] = @ \cup (IF committed[t] = NoOffset
                                                 THEN 1..Len(log[t]) ELSE {})]
      /\ UNCHANGED <<log, committed, inHand, handled, dropped>>
  BY Zenon DEF Subscribe
<1>2. Len(log[t]) \in Nat /\ TopicInv(t) /\ committed[t] \in Nat \cup {NoOffset}
  BY DEF ConsInv, ConsTypeOK
<1>3. StartOffset(t) \in Nat
  BY Zenon, <1>2 DEF StartOffset
<1>4. ConsTypeOK'
  BY Zenon, <1>1, <1>3 DEF ConsInv, ConsTypeOK
<1>5. /\ position'[t] = StartOffset(t) /\ consumer'[t] = "running" /\ ~inHand[t]
      /\ jumped'[t] = jumped[t] \cup (IF committed[t] = NoOffset THEN 1..Len(log[t]) ELSE {})
  BY ZenonT(30), <1>1, <1>2 DEF ConsInv, ConsTypeOK, TopicInv
<1>6. TopicInv(t)'
  BY <1>1, <1>2, <1>3, <1>5 DEF TopicInv, Accounted, DoneWith, StartOffset, NoOffset
<1>7. ASSUME NEW u \in Topics, u # t  PROVE TopicInv(u)'
  <2>1. position'[u] = position[u] /\ consumer'[u] = consumer[u] /\ jumped'[u] = jumped[u]
    BY Zenon, <1>1, <1>7 DEF ConsInv, ConsTypeOK
  <2> QED
    BY Zenon, <1>1, <2>1, OtherTopics
<1> QED
  BY Zenon, <1>4, <1>6, <1>7 DEF ConsInv

LEMMA ConsumeStep ==
  ASSUME ConsInv, NEW t \in Topics, Consume(t)
  PROVE  ConsInv'
<1>1. /\ consumer[t] = "running" /\ ~inHand[t]
      /\ position' = [position EXCEPT ![t] = @ + 1] /\ inHand' = [inHand EXCEPT ![t] = TRUE]
      /\ UNCHANGED <<log, committed, consumer, handled, jumped, dropped>>
  BY Zenon DEF Consume
<1>2. TopicInv(t) /\ position[t] \in Nat /\ committed[t] \in Nat \cup {NoOffset}
  BY ZenonT(30) DEF ConsInv, ConsTypeOK
<1>3. ConsTypeOK' /\ position'[t] = position[t] + 1 /\ inHand'[t]
  BY SMTT(30), <1>1, <1>2 DEF ConsInv, ConsTypeOK
<1>4. TopicInv(t)'
  BY <1>1, <1>2, <1>3 DEF TopicInv, Accounted, DoneWith, NoOffset
<1>5. ASSUME NEW u \in Topics, u # t  PROVE TopicInv(u)'
  <2>1. position'[u] = position[u] /\ inHand'[u] = inHand[u]
    BY Zenon, <1>1, <1>5 DEF ConsInv, ConsTypeOK
  <2> QED
    BY Zenon, <1>1, <2>1, OtherTopics
<1> QED
  BY Zenon, <1>3, <1>4, <1>5 DEF ConsInv

LEMMA HandledStep ==
  ASSUME ConsInv, NEW t \in Topics, inHand[t],
         handled' = [handled EXCEPT ![t] = @ \cup {position[t]}],
         inHand' = [inHand EXCEPT ![t] = FALSE],
         UNCHANGED <<log, committed, position, consumer, jumped, dropped>>
  PROVE  ConsInv'
<1>1. TopicInv(t) /\ position[t] \in Nat
  BY Zenon DEF ConsInv, ConsTypeOK
<1>2. ConsTypeOK' /\ handled'[t] = handled[t] \cup {position[t]} /\ ~inHand'[t]
  BY ZenonT(30) DEF ConsInv, ConsTypeOK
<1>3. TopicInv(t)'
  BY <1>1, <1>2 DEF TopicInv, Accounted, DoneWith
<1>4. ASSUME NEW u \in Topics, u # t  PROVE TopicInv(u)'
  <2>1. handled'[u] = handled[u] /\ inHand'[u] = inHand[u]
    BY Zenon, <1>4 DEF ConsInv, ConsTypeOK
  <2> QED
    BY Zenon, <2>1, OtherTopics
<1> QED
  BY Zenon, <1>2, <1>3, <1>4 DEF ConsInv

LEMMA ConsStep ==
  ConsInv /\ [ConsNext]_consVars => ConsInv'
<1> SUFFICES ASSUME ConsInv, [ConsNext]_consVars  PROVE ConsInv'
  BY Zenon
<1>1. ASSUME NEW t \in Topics, HandleRecord(t)  PROVE ConsInv'
  BY Zenon, <1>1, DieStep, HandledStep DEF HandleRecord
<1>2. ASSUME NEW t \in Topics, ConsumeError(t)  PROVE ConsInv'
  <2>1. /\ consumer[t] = "running" /\ ~inHand[t] /\ consumer' = [consumer EXCEPT ![t] = "stopped"]
        /\ UNCHANGED <<log, committed, position, inHand, handled, jumped, dropped>>
    BY Zenon, <1>2 DEF ConsumeError
  <2>2. ConsTypeOK' /\ consumer'[t] = "stopped" /\ TopicInv(t)
    BY Zenon, <2>1 DEF ConsInv, ConsTypeOK
  <2>3. TopicInv(t)'
    BY Zenon, <2>1, <2>2 DEF TopicInv, DoneWith, Accounted
  <2>4. ASSUME NEW u \in Topics, u # t  PROVE TopicInv(u)'
    <3>1. consumer'[u] = consumer[u]
      BY Zenon, <2>1, <2>4 DEF ConsInv, ConsTypeOK
    <3> QED
      BY Zenon, <2>1, <3>1, OtherTopics
  <2> QED
    BY Zenon, <2>2, <2>3, <2>4 DEF ConsInv
<1>3. ASSUME NEW t \in Topics, PublishRecord(t)  PROVE ConsInv'
  <2>1. PICK r \in PlanRecords \cup ItemRecords : log' = [log EXCEPT ![t] = Append(@, r)]
    BY Zenon, <1>3 DEF PublishRecord
  <2>2. UNCHANGED <<committed, position, consumer, inHand, handled, jumped, dropped>>
    BY ZenonT(30), <1>3 DEF PublishRecord
  <2>3. Append(log[t], r) \in Seq(PlanRecords \cup ItemRecords)
    BY DEF ConsInv, ConsTypeOK
  <2>4. log' \in [Topics -> Seq(PlanRecords \cup ItemRecords)]
    BY Zenon, <2>1, <2>3 DEF ConsInv, ConsTypeOK
  <2>5. ConsTypeOK'
    BY Zenon, <2>2, <2>4 DEF ConsInv, ConsTypeOK
  <2> QED
    BY Zenon, <2>2, <2>5, OtherTopics DEF ConsInv
<1>4. ASSUME NEW t \in Topics, AutoCommit(t)  PROVE ConsInv'
  <2>1. /\ consumer[t] # "new" /\ committed' = [committed EXCEPT ![t] = position[t]]
        /\ UNCHANGED <<log, position, consumer, inHand, handled, jumped, dropped>>
    BY Zenon, <1>4 DEF AutoCommit
  <2>2. /\ ConsTypeOK' /\ committed'[t] = position[t]
        /\ TopicInv(t) /\ position[t] \in Nat
    BY ZenonT(30), <2>1 DEF ConsInv, ConsTypeOK
  <2>3. TopicInv(t)'
    BY <2>1, <2>2 DEF TopicInv, DoneWith, Accounted
  <2>4. ASSUME NEW u \in Topics, u # t  PROVE TopicInv(u)'
    <3>1. committed'[u] = committed[u]
      BY Zenon, <2>1, <2>4 DEF ConsInv, ConsTypeOK
    <3> QED
      BY Zenon, <2>1, <3>1, OtherTopics
  <2> QED
    BY Zenon, <2>2, <2>3, <2>4 DEF ConsInv
<1>5. CASE Killed
  BY Zenon, <1>5, DieStep DEF Killed
<1>6. CASE Restart \/ UNCHANGED consVars
  <2>1. UNCHANGED <<log, committed, position, consumer, inHand, handled, jumped, dropped>>
    BY Zenon, <1>6 DEF Restart, consVars
  <2> QED
    BY Zenon, <2>1 DEF ConsInv, ConsTypeOK, TopicInv, DoneWith, Accounted
<1> QED
  BY Zenon, <1>1, <1>2, <1>3, <1>4, <1>5, <1>6, SubscribeStep, ConsumeStep
     DEF ConsNext, ConsumerThread

\* However often the plugin dies and is restarted, and whatever its consumers had
\* committed by then, a death costs a topic at most the record in hand (LostOnlyInHand):
\* the offset is committed ahead of the work by no more than that record.
THEOREM OnlyTheRecordInHandIsLost == ConsSpec => []LostOnlyInHand
<1>1. ConsInit => ConsInv
  <2> SUFFICES ASSUME ConsInit  PROVE ConsInv
    BY Zenon
  <2>1. ConsTypeOK
    BY DEF ConsInit, ConsTypeOK, NoOffset
  <2>2. ASSUME NEW t \in Topics  PROVE TopicInv(t)
    BY DEF ConsInit, TopicInv, Accounted, NoOffset
  <2> QED
    BY Zenon, <2>1, <2>2 DEF ConsInv
<1>2. ConsInv => LostOnlyInHand
  <2> SUFFICES ASSUME ConsInv, NEW t \in Topics, consumer[t] = "running"
               PROVE  Unhandled(t) \subseteq dropped[t] \cup RecordInHand(t)
    BY Zenon DEF LostOnlyInHand
  <2>1. TopicInv(t) /\ position[t] \in Nat
    BY Zenon DEF ConsInv, ConsTypeOK
  <2> QED
    BY <2>1 DEF TopicInv, Accounted, DoneWith, Unhandled, RecordInHand
<1> QED
  BY <1>1, <1>2, ConsStep, PTL DEF ConsSpec

============================================================================
