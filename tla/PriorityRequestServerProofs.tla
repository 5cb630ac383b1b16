-------------------- MODULE PriorityRequestServerProofs --------------------
(***************************************************************************)
(* The priority request table keeps one row per request and implements the *)
(* lifecycle of RequestLifecycle, for any number of rows, vehicles, COs    *)
(* and whatever the COs report.  The lemmas are about a table t and the    *)
(* table u a step makes of it; the steps of the two threads then only have *)
(* to say what they do to a row.  Where there is one controller, a request *)
(* its CO closed is not opened again.                                      *)
(***************************************************************************)
EXTENDS PriorityRequestServer, TLAPS

\* What PrsInv says of one row, and of two.
RowOK(e) ==
  /\ e \in Row
  /\ Idle(e) => e = BlankRow
  /\ ~Idle(e) => e.class = ClassOf(e.veh)
  /\ e.prs \notin ActiveX \ {"activeOverride"}

Alike(e, f) ==
  /\ ~Idle(e) /\ ~Idle(f) /\ e.strategy # 0
  /\ e.rid = f.rid /\ e.veh = f.veh /\ e.strategy = f.strategy

TableOK(t) ==
  /\ t \in [Rows -> Row]
  /\ \A i \in Rows : RowOK(t[i])
  /\ \A i, j \in Rows : i # j => ~Alike(t[i], t[j])

\* The row e may become u in one step, the request of the row staying the same.
Moves(e, u) ==
  /\ RowOK(u)
  /\ u.prs = e.prs \/ Lifecycle!Edge(e.prs, u.prs)
  /\ ~Idle(u) => ~Idle(e) /\ u.rid = e.rid /\ u.veh = e.veh /\ u.strategy = e.strategy

OfRequest(e, r) == ~Idle(e) /\ e.veh = r[1] /\ e.rid = r[2] /\ e.strategy = r[3]

StatusIn(t, r) ==
  LET own == {i \in Rows : OfRequest(t[i], r)}
  IN IF own = {} THEN IdleStatus ELSE t[CHOOSE i \in own : TRUE].prs

StatusMoves(t, u) ==
  \A r \in Requests : \/ StatusIn(u, r) = StatusIn(t, r)
                      \/ Lifecycle!Edge(StatusIn(t, r), StatusIn(u, r))

\* The row of a request has its status: it is the only one.
LEMMA StatusOfRow ==
  ASSUME NEW t, TableOK(t), NEW r \in Requests, NEW i \in Rows, OfRequest(t[i], r)
  PROVE  StatusIn(t, r) = t[i].prs
<1>1. \A j \in Rows : OfRequest(t[j], r) => j = i
  BY DEF TableOK, Alike, OfRequest, Requests
<1>2. {j \in Rows : OfRequest(t[j], r)} = {i}
  BY Zenon, <1>1
<1> QED
  BY Zenon, <1>2 DEF StatusIn

\* A request without a row is idle.
LEMMA StatusOfNone ==
  ASSUME NEW t, NEW r, \A i \in Rows : ~OfRequest(t[i], r)
  PROVE  StatusIn(t, r) = IdleStatus
<1>1. {i \in Rows : OfRequest(t[i], r)} = {}
  BY Zenon
<1> QED
  BY Zenon, <1>1 DEF StatusIn

\* Rows that move one by one keep the table in order and move their requests only.
LEMMA RowsMove ==
  ASSUME NEW t, TableOK(t), NEW u \in [Rows -> Row], \A i \in Rows : Moves(t[i], u[i])
  PROVE  TableOK(u) /\ StatusMoves(t, u)
<1>1. TableOK(u)
  <2>1. \A i \in Rows : RowOK(u[i])
    BY Zenon DEF Moves
  <2>2. ASSUME NEW i \in Rows, NEW j \in Rows, i # j, Alike(u[i], u[j])  PROVE FALSE
    <3>1. Alike(t[i], t[j])
      BY Zenon, <2>2 DEF Moves, Alike
    <3> QED
      BY Zenon, <2>2, <3>1 DEF TableOK
  <2> QED
    BY Zenon, <2>1, <2>2 DEF TableOK
<1>2. ASSUME NEW r \in Requests
      PROVE  \/ StatusIn(u, r) = StatusIn(t, r)
             \/ Lifecycle!Edge(StatusIn(t, r), StatusIn(u, r))
  <2>1. \A i \in Rows : OfRequest(u[i], r) => OfRequest(t[i], r)
    BY Zenon DEF Moves, OfRequest
  <2>2. CASE \A i \in Rows : ~OfRequest(t[i], r)
    BY Zenon, <2>1, <2>2, StatusOfNone
  <2>3. CASE \E i \in Rows : OfRequest(t[i], r)
    <3>1. PICK i \in Rows : OfRequest(t[i], r)
      BY Zenon, <2>3
    <3>2. StatusIn(t, r) = t[i].prs
      BY Zenon, <3>1, StatusOfRow
    <3>3. StatusIn(u, r) = u[i].prs
      <4>1. CASE OfRequest(u[i], r)
        BY Zenon, <1>1, <4>1, StatusOfRow
      <4>2. CASE ~OfRequest(u[i], r)
        <5>1. \A j \in Rows : ~OfRequest(u[j], r)
          <6> SUFFICES ASSUME NEW j \in Rows, OfRequest(u[j], r)  PROVE FALSE
            BY Zenon
          <6>1. OfRequest(t[j], r) /\ j # i
            BY Zenon, <2>1, <4>2
          <6>2. Alike(t[i], t[j])
            BY <3>1, <6>1 DEF OfRequest, Alike, Requests
          <6> QED
            BY Zenon, <6>1, <6>2 DEF TableOK
        <5>2. Idle(u[i])
          BY Zenon, <3>1, <4>2 DEF Moves, OfRequest
        <5> QED
          BY Zenon, <5>1, <5>2, StatusOfNone DEF Idle
      <4> QED
        BY Zenon, <4>1, <4>2
    <3> QED
      BY Zenon, <3>2, <3>3 DEF Moves
  <2> QED
    BY Zenon, <2>2, <2>3
<1> QED
  BY Zenon, <1>1, <1>2 DEF StatusMoves

\* Rows that change places keep the table in order and every status.
LEMMA RowsReorder ==
  ASSUME NEW t, TableOK(t), NEW p \in Orders
  PROVE  LET u == [i \in Rows |-> t[p[i]]]
         IN TableOK(u) /\ \A r \in Requests : StatusIn(u, r) = StatusIn(t, r)
<1> DEFINE u == [i \in Rows |-> t[p[i]]]
<1>0. /\ \A i \in Rows : p[i] \in Rows /\ u[i] = t[p[i]]
      /\ \A i, j \in Rows : p[i] = p[j] => i = j
      /\ \A j \in Rows : \E i \in Rows : p[i] = j
  BY Zenon DEF Orders
<1>1. u \in [Rows -> Row]
  BY Zenon, <1>0 DEF TableOK
<1> HIDE DEF u
<1>2. TableOK(u)
  BY <1>0, <1>1 DEF TableOK
<1>3. ASSUME NEW r \in Requests  PROVE StatusIn(u, r) = StatusIn(t, r)
  <2>1. CASE \E j \in Rows : OfRequest(t[j], r)
    <3>1. PICK j \in Rows : OfRequest(t[j], r)
      BY Zenon, <2>1
    <3>2. PICK i \in Rows : p[i] = j
      BY Zenon, <1>0
    <3>3. OfRequest(u[i], r) /\ u[i] = t[j]
      BY Zenon, <1>0, <3>1, <3>2
    <3>4. StatusIn(t, r) = t[j].prs
      BY Zenon, <3>1, StatusOfRow
    <3>5. StatusIn(u, r) = u[i].prs
      BY Zenon, <1>2, <3>3, StatusOfRow
    <3> QED
      BY Zenon, <3>3, <3>4, <3>5
  <2>2. CASE \A j \in Rows : ~OfRequest(t[j], r)
    <3>1. \A i \in Rows : ~OfRequest(u[i], r)
      BY Zenon, <1>0, <2>2
    <3> QED
      BY Zenon, <2>2, <3>1, StatusOfNone
  <2> QED
    BY Zenon, <2>1, <2>2
<1> QED
  BY Zenon, <1>2, <1>3 DEF u

\* A row that stays is a row that moves.
LEMMA RowStays == \A e : RowOK(e) => Moves(e, e)
BY Zenon DEF Moves, RowOK

\* A new request in an idle row, the other rows moving, keeps the table in order.
LEMMA RowInserted ==
  ASSUME NEW t, TableOK(t), NEW u \in [Rows -> Row], NEW slot \in Rows,
         Idle(t[slot]), RowOK(u[slot]), ~Idle(u[slot]),
         \A j \in Rows \ {slot} : Moves(t[j], u[j]),
         \A j \in Rows : ~Alike(u[slot], t[j]),
         u[slot].strategy # 0 => Lifecycle!Edge(IdleStatus, u[slot].prs)
  PROVE  TableOK(u) /\ StatusMoves(t, u)
<1> DEFINE w == [u EXCEPT ![slot] = t[slot]]
<1>1. w \in [Rows -> Row] /\ w[slot] = t[slot] /\ \A j \in Rows \ {slot} : w[j] = u[j]
  BY Zenon DEF TableOK
<1> HIDE DEF w
<1>2. \A j \in Rows : Moves(t[j], w[j])
  BY Zenon, <1>1, RowStays DEF TableOK
<1>3. TableOK(w) /\ StatusMoves(t, w)
  BY Zenon, <1>1, <1>2, RowsMove
<1>4. TableOK(u)
  <2>1. ASSUME NEW j \in Rows \ {slot}  PROVE ~Alike(u[slot], u[j]) /\ ~Alike(u[j], u[slot])
    <3>1. ~Alike(u[slot], t[j]) /\ Moves(t[j], u[j])
      BY Zenon, <2>1
    <3> QED
      BY Zenon, <3>1 DEF Alike, Moves
  <2>2. ASSUME NEW i \in Rows, NEW j \in Rows, i # j  PROVE ~Alike(u[i], u[j])
    BY Zenon, <1>1, <1>3, <2>1, <2>2 DEF TableOK
  <2>3. \A i \in Rows : RowOK(u[i])
    BY Zenon, <1>1, <1>3 DEF TableOK
  <2> QED
    BY Zenon, <2>2, <2>3 DEF TableOK
<1>5. ASSUME NEW r \in Requests
      PROVE  \/ StatusIn(u, r) = StatusIn(t, r)
             \/ Lifecycle!Edge(StatusIn(t, r), StatusIn(u, r))
  <2>1. CASE OfRequest(u[slot], r)
    <3>1. \A j \in Rows : ~OfRequest(t[j], r)
      BY <2>1 DEF OfRequest, Alike, Requests
    <3>2. StatusIn(t, r) = IdleStatus
      BY Zenon, <3>1, StatusOfNone
    <3>3. StatusIn(u, r) = u[slot].prs
      BY Zenon, <1>4, <2>1, StatusOfRow
    <3>4. u[slot].strategy # 0
      BY <2>1 DEF OfRequest, Requests
    <3> QED
      BY Zenon, <3>2, <3>3, <3>4
  <2>2. CASE ~OfRequest(u[slot], r)
    <3>1. StatusIn(u, r) = StatusIn(w, r)
      <4>1. \A j \in Rows : OfRequest(u[j], r) <=> OfRequest(w[j], r)
        <5>1. ~OfRequest(w[slot], r)
          BY Zenon, <1>1 DEF OfRequest
        <5> QED
          BY Zenon, <1>1, <2>2, <5>1
      <4>2. CASE \E j \in Rows : OfRequest(u[j], r)
        <5>1. PICK j \in Rows : OfRequest(u[j], r)
          BY Zenon, <4>2
        <5>2. StatusIn(u, r) = u[j].prs
          BY Zenon, <1>4, <5>1, StatusOfRow
        <5>3. StatusIn(w, r) = w[j].prs
          BY Zenon, <1>3, <4>1, <5>1, StatusOfRow
        <5>4. u[j] = w[j]
          BY Zenon, <1>1, <2>2, <5>1
        <5> QED
          BY Zenon, <5>2, <5>3, <5>4
      <4>3. CASE \A j \in Rows : ~OfRequest(u[j], r)
        BY Zenon, <4>1, <4>3, StatusOfNone
      <4> QED
        BY Zenon, <4>2, <4>3
    <3> QED
      BY Zenon, <1>3, <3>1 DEF StatusMoves
  <2> QED
    BY Zenon, <2>1, <2>2
<1> QED
  BY Zenon, <1>4, <1>5 DEF StatusMoves

-----------------------------------------------------------------------------
\* What the two threads make of one row.

\* A row is overridden only while it holds a request.
LEMMA OverriddenRow ==
  ASSUME NEW e, RowOK(e), ~Idle(e)
  PROVE  Moves(e, [e EXCEPT !.prs = "activeOverride"])
<1> DEFINE u == [e EXCEPT !.prs = "activeOverride"]
<1>1. /\ u \in Row /\ u.prs = "activeOverride"
      /\ u.rid = e.rid /\ u.veh = e.veh /\ u.strategy = e.strategy /\ u.class = e.class
  BY DEF RowOK, Row, RequestStatus, ActiveX
<1>2. e.prs = "activeOverride" \/ Lifecycle!Edge(e.prs, "activeOverride")
  BY Zenon DEF RowOK, Row, RequestStatus, ActiveX, ReadyX, ClosedX, Idle, IdleStatus,
         Lifecycle!Edge, Lifecycle!Ready, Lifecycle!Closed
<1> HIDE DEF u
<1>3. RowOK(u)
  BY Zenon, <1>1 DEF RowOK, Idle, IdleStatus
<1> QED
  BY Zenon, <1>1, <1>2, <1>3 DEF Moves, u

\* An update changes the time of service and the message of a request.
LEMMA UpdatedRow ==
  ASSUME NEW e, RowOK(e), ~Idle(e), NEW x \in Int, NEW n \in Nat
  PROVE  Moves(e, [e EXCEPT !.tsd = x, !.seq = n])
<1> DEFINE u == [e EXCEPT !.tsd = x, !.seq = n]
<1>1. /\ u \in Row /\ u.prs = e.prs
      /\ u.rid = e.rid /\ u.veh = e.veh /\ u.strategy = e.strategy /\ u.class = e.class
  BY Zenon DEF RowOK, Row
<1> HIDE DEF u
<1>2. RowOK(u)
  BY Zenon, <1>1 DEF RowOK, Idle
<1> QED
  BY Zenon, <1>1, <1>2 DEF Moves, u

\* A broadcast only counts.
LEMMA BroadcastRow ==
  ASSUME NEW e, RowOK(e)
  PROVE  Moves(e, Broadcast(e))
<1>1. CASE Idle(e)
  BY Zenon, <1>1, RowStays DEF Broadcast
<1>2. CASE ~Idle(e)
  <2> DEFINE u == Broadcast(e)
  <2>1. EffectiveStatus(e) \in RequestStatus
    BY Zenon DEF EffectiveStatus, RowOK, Row
  <2>2. /\ u \in Row /\ u.prs = e.prs
        /\ u.rid = e.rid /\ u.veh = e.veh /\ u.strategy = e.strategy /\ u.class = e.class
    <3> DEFINE count == IF EffectiveStatus(e) # e.ssmLast THEN 0 ELSE e.ssmCount
               more == IF count >= MaxBroadcasts THEN count ELSE count + 1
    <3>1. count \in 0..MaxBroadcasts
      BY PrsAssumption DEF RowOK, Row
    <3>2. u = [e EXCEPT !.ssmLast = EffectiveStatus(e), !.ssmCount = more]
      BY Zenon, <1>2 DEF Broadcast
    <3> HIDE DEF count, u
    <3>3. more \in 0..MaxBroadcasts
      BY <3>1, PrsAssumption
    <3> HIDE DEF more
    <3> QED
      BY Zenon, <2>1, <3>2, <3>3 DEF RowOK, Row
  <2> HIDE DEF u
  <2>3. RowOK(u)
    BY Zenon, <1>2, <2>2 DEF RowOK, Idle
  <2> QED
    BY Zenon, <1>2, <2>2, <2>3 DEF Moves, u
<1> QED
  BY Zenon, <1>1, <1>2

\* The status a CO reports is stored, and taken over where ApplyCoStatusUpdates says.
LEMMA ReportedRow ==
  ASSUME NEW e, RowOK(e), NEW st \in RequestStatus
  PROVE  Moves(e, IF Idle(e) THEN e
                  ELSE [e EXCEPT !.co = st, !.prs = PrsAfterReport(@, st)])
<1>1. CASE Idle(e)
  BY Zenon, <1>1, RowStays
<1>2. CASE ~Idle(e)
  <2> DEFINE prs == PrsAfterReport(e.prs, st)
             u == [e EXCEPT !.co = st, !.prs = prs]
  <2>1. /\ prs \in RequestStatus /\ prs # IdleStatus
        /\ prs \notin ActiveX \ {"activeOverride"}
    BY <1>2 DEF PrsAfterReport, RowOK, Row, RequestStatus, Idle, IdleStatus, ActiveX,
                ReadyX, ClosedX
  <2>2. prs = e.prs \/ Lifecycle!Edge(e.prs, prs)
    BY Zenon
       DEF PrsAfterReport, ReadyX, ClosedX, Lifecycle!Edge, Lifecycle!Ready, Lifecycle!Closed
  <2> HIDE DEF prs
  <2>3. /\ u \in Row /\ u.prs = prs
        /\ u.rid = e.rid /\ u.veh = e.veh /\ u.strategy = e.strategy /\ u.class = e.class
    BY Zenon, <2>1 DEF RowOK, Row
  <2> HIDE DEF u
  <2>4. RowOK(u)
    BY Zenon, <1>2, <2>1, <2>3 DEF RowOK, Idle
  <2>5. Moves(e, u)
    BY Zenon, <1>2, <2>2, <2>3, <2>4 DEF Moves
  <2> QED
    BY Zenon, <1>2, <2>5 DEF u, prs
<1> QED
  BY Zenon, <1>1, <1>2

\* A row is one when it is blank.
LEMMA BlankRowOK == RowOK(BlankRow) /\ Idle(BlankRow) /\ BlankRow.co \notin ActiveX
<1>1. BlankRow \in Row
  BY PrsAssumption DEF BlankRow, Row, RequestStatus, IdleStatus
<1> QED
  BY Zenon, <1>1 DEF RowOK, BlankRow, Idle, IdleStatus, ActiveX

\* A row that is aged expires, runs out of time or stays.
LEMMA AgedRow ==
  ASSUME NEW e, RowOK(e)
  PROVE  /\ Moves(e, Aged(e))
         /\ \/ Aged(e) = BlankRow
            \/ Aged(e) = e
            \/ ~Idle(e) /\ e.prs \notin ClosedX
               /\ Aged(e) = [e EXCEPT !.prs = "closedTimeToLiveError"]
<1> DEFINE late == [e EXCEPT !.prs = "closedTimeToLiveError"]
<1>1. CASE e.prs \in ReadyX \cup ClosedX /\ e.ttl > 0 /\ ex.at >= e.ttl
  <2>1. Aged(e) = BlankRow
    BY Zenon, <1>1 DEF Aged
  <2>2. Lifecycle!Edge(e.prs, BlankRow.prs)
    BY Zenon, <1>1 DEF BlankRow, IdleStatus, ReadyX, ClosedX, Lifecycle!Edge, Lifecycle!Ready,
                Lifecycle!Closed
  <2> QED
    BY Zenon, <2>1, <2>2, BlankRowOK DEF Moves
<1>2. CASE ~Idle(e) /\ e.prs \notin ClosedX /\ Aged(e) = late
  <2>1. /\ late \in Row /\ late.prs = "closedTimeToLiveError"
        /\ late.rid = e.rid /\ late.veh = e.veh /\ late.strategy = e.strategy
        /\ late.class = e.class
    BY DEF RowOK, Row, RequestStatus, ClosedX
  <2>2. Lifecycle!Edge(e.prs, "closedTimeToLiveError")
    BY Zenon, <1>2 DEF RowOK, Row, RequestStatus, ActiveX, ReadyX, ClosedX, Idle, IdleStatus,
                Lifecycle!Edge, Lifecycle!Ready, Lifecycle!Closed
  <2> HIDE DEF late
  <2>3. RowOK(late)
    BY Zenon, <1>2, <2>1 DEF RowOK, Idle, IdleStatus, ActiveX
  <2>4. Moves(e, late)
    BY Zenon, <1>2, <2>1, <2>2, <2>3 DEF Moves
  <2> QED
    BY Zenon, <1>2, <2>4 DEF late
<1>3. CASE Aged(e) = e
  BY Zenon, <1>3, RowStays
<1> QED
  BY Zenon, <1>1, <1>2, <1>3 DEF Aged

\* CheckForOverride on a row that is aged and still served.
LEMMA CheckedRow ==
  ASSUME NEW e, RowOK(e), Aged(e).co \in ActiveX, NEW higher \in BOOLEAN
  PROVE  Moves(e, [Aged(e) EXCEPT !.prs = IF higher THEN "activeOverride"
                                          ELSE IF @ = "activeOverride" THEN "readyQueued"
                                          ELSE @])
<1> DEFINE a == Aged(e)
           prs == IF higher THEN "activeOverride"
                  ELSE IF a.prs = "activeOverride" THEN "readyQueued" ELSE a.prs
           u == [a EXCEPT !.prs = prs]
<1>1. /\ RowOK(a) /\ Moves(e, a) /\ ~Idle(a) /\ ~Idle(e)
      /\ a.rid = e.rid /\ a.veh = e.veh /\ a.strategy = e.strategy
  BY Zenon, AgedRow, BlankRowOK DEF Moves, RowOK
<1>2. a.prs = e.prs \/ (e.prs \notin ClosedX /\ a.prs = "closedTimeToLiveError")
  BY <1>1, AgedRow, BlankRowOK DEF RowOK, Row
<1> HIDE DEF a
<1>3. /\ prs \in RequestStatus /\ prs # IdleStatus
      /\ prs \notin ActiveX \ {"activeOverride"}
  BY <1>1 DEF RowOK, Row, RequestStatus, Idle, IdleStatus, ActiveX, ReadyX
<1>4. prs = e.prs \/ Lifecycle!Edge(e.prs, prs)
  <2>1. CASE prs = a.prs
    BY Zenon, <1>1, <2>1 DEF Moves
  <2>2. CASE prs = "activeOverride"
    BY Zenon, <1>1, <2>2
       DEF RowOK, Row, RequestStatus, ActiveX, ReadyX, ClosedX, Idle, IdleStatus,
           Lifecycle!Edge, Lifecycle!Ready, Lifecycle!Closed
  <2>3. CASE prs = "readyQueued" /\ a.prs = "activeOverride"
    <3>1. e.prs = "activeOverride"
      BY Zenon, <1>2, <2>3
    <3> QED
      BY Zenon, <2>3, <3>1 DEF Lifecycle!Edge, Lifecycle!Ready
  <2> QED
    BY Zenon, <2>1, <2>2, <2>3
<1> HIDE DEF prs
<1>5. /\ u \in Row /\ u.prs = prs
      /\ u.rid = a.rid /\ u.veh = a.veh /\ u.strategy = a.strategy /\ u.class = a.class
  BY <1>1, <1>3 DEF RowOK, Row
<1> HIDE DEF u
<1>6. RowOK(u)
  BY Zenon, <1>1, <1>3, <1>5 DEF RowOK, Idle
<1>7. Moves(e, u)
  BY Zenon, <1>1, <1>4, <1>5, <1>6 DEF Moves
<1> QED
  BY Zenon, <1>7 DEF u, prs, a

\* A vehicle class is a pair of a type and a level.
LEMMA ClassTyped == \A v : ClassOf(v) \in (1..10) \X (1..10)
<1> SUFFICES ASSUME NEW r  PROVE MapVehicleClass(r) \in (1..10) \X (1..10)
  BY Zenon DEF ClassOf
<1> DEFINE ranked == <<<<6, 12, 13, 14, 5, 7, 11>>, <<>>, <<1, 16>>, <<>>, <<15, 4>>,
                       <<>>, <<3, 2, 9, 17, 18>>>>
           at == {c \in (1..7) \X (1..7) : c[2] \in DOMAIN ranked[c[1]] /\ ranked[c[1]][c[2]] = r}
<1>1. MapVehicleClass(r) = IF at = {} THEN <<10, 1>> ELSE CHOOSE c \in at : TRUE
  BY Zenon DEF MapVehicleClass
<1>2. at \subseteq (1..7) \X (1..7)
  BY Zenon
<1> HIDE DEF at
<1>3. CASE at = {}
  BY <1>1, <1>3
<1>4. CASE at # {}
  <2>1. (CHOOSE c \in at : TRUE) \in at
    BY Zenon, <1>4
  <2> QED
    BY <1>1, <1>2, <1>4, <2>1
<1> QED
  BY Zenon, <1>3, <1>4

\* The row of a new request: queued, refused, or closed when the lane has no strategy.
LEMMA NewRowOK ==
  ASSUME TypeOK, srm.pc = "packages", NEW p \in Package, NEW e, RowOK(e), Idle(e)
  PROVE  LET n == NewRow(p, e)
         IN /\ RowOK(n) /\ ~Idle(n)
            /\ n.rid = p.rid /\ n.veh = srm.veh /\ n.strategy = laneStrategy[p.int]
            /\ n.strategy # 0 => Lifecycle!Edge(IdleStatus, n.prs)
<1> DEFINE prs == IF laneStrategy[p.int] = 0 THEN "closedStrategyError"
                  ELSE IF ReserviceBlocked(ClassOf(srm.veh)[1]) THEN "reserviceError"
                  ELSE "readyQueued"
           n == NewRow(p, e)
<1>1. /\ srm.veh \in Vehicles /\ srm.at \in Nat /\ srm.seq \in Nat
      /\ laneStrategy[p.int] \in 0..1 /\ p.rid \in RequestIDs /\ p.int \in Intersections
      /\ srm.at + p.off \in Int /\ srm.at + TimeToLiveSec \in Nat
  BY SMTT(30), PrsAssumption DEF TypeOK, Message, Package
<1>2. /\ prs \in RequestStatus /\ prs # IdleStatus
      /\ prs \notin ActiveX \ {"activeOverride"}
      /\ laneStrategy[p.int] # 0 => prs \in {"reserviceError", "readyQueued"}
  BY Zenon DEF RequestStatus, IdleStatus, ActiveX, ReadyX, ClosedX
<1>3. n = [e EXCEPT !.rid = p.rid, !.veh = srm.veh, !.class = ClassOf(srm.veh),
                    !.strategy = laneStrategy[p.int], !.tsd = srm.at + p.off,
                    !.ttl = srm.at + TimeToLiveSec, !.int = p.int, !.seq = srm.seq,
                    !.prs = prs]
  BY Zenon DEF NewRow
<1> HIDE DEF prs, n
<1>4. /\ n \in Row /\ n.rid = p.rid /\ n.veh = srm.veh /\ n.class = ClassOf(srm.veh)
      /\ n.strategy = laneStrategy[p.int] /\ n.prs = prs
  <2>1. ClassOf(srm.veh) \in (1..10) \X (1..10)
    BY Zenon, ClassTyped
  <2> QED
    BY Zenon, <1>1, <1>2, <1>3, <2>1 DEF RowOK, Row
<1>5. RowOK(n) /\ ~Idle(n)
  BY Zenon, <1>2, <1>4 DEF RowOK, Idle
<1>6. n.strategy # 0 => Lifecycle!Edge(IdleStatus, n.prs)
  BY Zenon, <1>2, <1>4 DEF IdleStatus, Lifecycle!Edge
<1> QED
  BY Zenon, <1>4, <1>5, <1>6 DEF n

-----------------------------------------------------------------------------
\* What the steps make of the table.

LEMMA TableStays == \A t : StatusMoves(t, t)
BY Zenon DEF StatusMoves

\* A package of an SRM is an update, is dropped, or gets a row.
LEMMA PackageStep ==
  ASSUME TypeOK, TableOK(table), srm.pc = "packages", NEW p \in Package, ApplyPrsPackage(p)
  PROVE  TableOK(table') /\ StatusMoves(table, table')
<1> DEFINE same == {i \in Rows : SameRequest(table[i], p)}
           free == {i \in Rows : Idle(table[i])}
<1>0. \A i \in Rows : RowOK(table[i])
  BY Zenon DEF TableOK
<1>1. ASSUME NEW i \in Rows, IsFirst(i, same),
             table' = [table EXCEPT ![i].tsd = srm.at + p.off, ![i].seq = srm.seq]
      PROVE  TableOK(table') /\ StatusMoves(table, table')
  <2>1. ~Idle(table[i])
    BY Zenon, <1>1 DEF IsFirst, SameRequest
  <2>2. srm.at + p.off \in Int /\ srm.seq \in Nat
    BY DEF TypeOK, Message, Package
  <2>3. Moves(table[i], [table[i] EXCEPT !.tsd = srm.at + p.off, !.seq = srm.seq])
    BY Zenon, <1>0, <2>1, <2>2, UpdatedRow
  <2>4. /\ table' = [table EXCEPT ![i] = [table[i] EXCEPT !.tsd = srm.at + p.off, !.seq = srm.seq]]
        /\ table \in [Rows -> Row]
    BY Zenon, <1>1 DEF TableOK
  <2>5. table' \in [Rows -> Row] /\ \A j \in Rows : Moves(table[j], table'[j])
    BY Zenon, <1>0, <2>3, <2>4, RowStays DEF Moves, RowOK
  <2> QED
    BY Zenon, <2>5, RowsMove
<1>2. ASSUME table' = table  PROVE TableOK(table') /\ StatusMoves(table, table')
  BY Zenon, <1>2, TableStays
<1>3. ASSUME same = {}, NEW slot \in Rows, IsFirst(slot, free), NEW new, new = NewRow(p, table[slot]),
             table' = [i \in Rows |-> IF i = slot THEN new
                                      ELSE IF Overridden(table[i], new)
                                           THEN [table[i] EXCEPT !.prs = "activeOverride"]
                                           ELSE table[i]]
      PROVE  TableOK(table') /\ StatusMoves(table, table')
  <2>1. Idle(table[slot])
    BY Zenon, <1>3 DEF IsFirst
  <2>2. /\ RowOK(new) /\ ~Idle(new)
        /\ new.rid = p.rid /\ new.veh = srm.veh /\ new.strategy = laneStrategy[p.int]
        /\ new.strategy # 0 => Lifecycle!Edge(IdleStatus, new.prs)
    BY Zenon, <1>0, <1>3, <2>1, NewRowOK
  <2>3. ASSUME NEW i \in Rows \ {slot}  PROVE Moves(table[i], table'[i])
    <3>1. CASE Overridden(table[i], new)
      <4>1. ~Idle(table[i])
        <5>1. table[i].co # BlankRow.co
          BY Zenon, <3>1 DEF Overridden, BlankRow, IdleStatus
        <5> QED
          BY Zenon, <1>0, <5>1 DEF RowOK
      <4> QED
        BY Zenon, <1>0, <1>3, <3>1, <4>1, OverriddenRow
    <3>2. CASE ~Overridden(table[i], new)
      BY Zenon, <1>0, <1>3, <3>2, RowStays
    <3> QED
      BY Zenon, <3>1, <3>2
  <2>4. table'[slot] = new
    BY Zenon, <1>3
  <2>5. table' \in [Rows -> Row]
    <3>1. \A i \in Rows : table'[i] \in Row
      BY Zenon, <2>2, <2>3, <2>4 DEF Moves, RowOK
    <3> QED
      BY Zenon, <1>3, <3>1
  <2>6. ASSUME NEW j \in Rows, Alike(new, table[j])  PROVE FALSE
    <3>1. ~SameRequest(table[j], p)
      BY Zenon, <1>3
    <3>2. table[j].class = ClassOf(srm.veh)
      BY ZenonT(30), <1>0, <2>2, <2>6 DEF Alike, RowOK
    <3> QED
      BY Zenon, <2>2, <2>6, <3>1, <3>2 DEF Alike, SameRequest
  <2> QED
    BY Zenon, <2>1, <2>2, <2>3, <2>4, <2>5, <2>6, RowInserted
<1> QED
  BY Zenon, <1>1, <1>2, <1>3 DEF ApplyPrsPackage

\* The reports of a CO, row by row.
LEMMA ReportStep ==
  ASSUME TypeOK, TableOK(table), ApplyCoStatusUpdates
  PROVE  TableOK(table') /\ StatusMoves(table, table')
<1>1. \A i \in Rows : RowOK(table[i]) /\ ex.report[i] \in RequestStatus
  BY Zenon DEF TypeOK, TableOK, ApplyCoStatusUpdates
<1>2. table' = [i \in Rows |-> IF Idle(table[i]) THEN table[i]
                               ELSE [table[i] EXCEPT !.co = ex.report[i],
                                                     !.prs = PrsAfterReport(@, ex.report[i])]]
  BY Zenon DEF ApplyCoStatusUpdates
<1>3. \A i \in Rows : Moves(table[i], table'[i])
  BY Zenon, <1>1, <1>2, ReportedRow
<1>4. table' \in [Rows -> Row]
  BY Zenon, <1>2, <1>3 DEF Moves, RowOK
<1> QED
  BY Zenon, <1>3, <1>4, RowsMove

\* The broadcast of an SSM, row by row.
LEMMA BroadcastStep ==
  ASSUME TableOK(table), BroadcastSSM
  PROVE  TableOK(table') /\ StatusMoves(table, table')
<1>1. table' = [i \in Rows |-> Broadcast(table[i])]
  BY Zenon DEF BroadcastSSM
<1>2. \A i \in Rows : Moves(table[i], table'[i])
  BY Zenon, <1>1, BroadcastRow DEF TableOK
<1>3. table' \in [Rows -> Row]
  BY Zenon, <1>1, <1>2 DEF Moves, RowOK
<1> QED
  BY Zenon, <1>2, <1>3, RowsMove

\* The prioritization: rows are aged, then the active one is checked for an override or
\* all change places.
LEMMA PrioritizeStep ==
  ASSUME TableOK(table), RunPrioritizationProcessing
  PROVE  TableOK(table') /\ StatusMoves(table, table')
<1> DEFINE t == [i \in Rows |-> Aged(table[i])]
<1>0. \A i \in Rows : RowOK(table[i])
  BY Zenon DEF TableOK
<1>1. ASSUME NEW active \in Rows, IsFirst(active, ActiveRows(t)),
             table' = CheckForOverride(t, active)
      PROVE  TableOK(table') /\ StatusMoves(table, table')
  <2> DEFINE queued == {i \in Rows \ {active} : t[i].prs = "readyQueued"}
             higher == \E i \in Rows : IsFirst(i, queued)
                                        /\ MoreImportant(t[i].class, t[active].class)
             after == [t[active] EXCEPT !.prs = IF higher THEN "activeOverride"
                                                ELSE IF @ = "activeOverride" THEN "readyQueued"
                                                ELSE @]
  <2>1. table' = [t EXCEPT ![active] = after]
    BY Zenon, <1>1 DEF CheckForOverride
  <2>2. Aged(table[active]).co \in ActiveX
    BY Zenon, <1>1 DEF IsFirst, ActiveRows
  <2>3. higher \in BOOLEAN
    BY Zenon
  <2> HIDE DEF higher
  <2>4. Moves(table[active], after)
    BY Zenon, <1>0, <2>2, <2>3, CheckedRow
  <2> HIDE DEF after
  <2>5. \A i \in Rows : Moves(table[i], table'[i])
    BY Zenon, <1>0, <2>1, <2>4, AgedRow
  <2>6. table' \in [Rows -> Row]
    BY Zenon, <2>1, <2>5 DEF Moves, RowOK
  <2> QED
    BY Zenon, <2>5, <2>6, RowsMove
<1>2. ASSUME NEW p \in Orders, table' = [i \in Rows |-> t[p[i]]]
      PROVE  TableOK(table') /\ StatusMoves(table, table')
  <2>1. \A i \in Rows : Moves(table[i], t[i])
    BY Zenon, <1>0, AgedRow
  <2>2. t \in [Rows -> Row]
    BY Zenon, <2>1 DEF Moves, RowOK
  <2> HIDE DEF t
  <2>3. TableOK(t) /\ StatusMoves(table, t)
    BY Zenon, <2>1, <2>2, RowsMove
  <2>4. TableOK(table') /\ \A r \in Requests : StatusIn(table', r) = StatusIn(t, r)
    BY Zenon, <1>2, <2>3, RowsReorder
  <2> QED
    BY Zenon, <2>3, <2>4 DEF StatusMoves
<1> QED
  BY Zenon, <1>1, <1>2 DEF RunPrioritizationProcessing

\* Every step of the two threads.
LEMMA TableStep ==
  ASSUME TypeOK, TableOK(table), [Next]_vars
  PROVE  TableOK(table') /\ StatusMoves(table, table')
<1>1. CASE ProcessPrsPackage
  <2>1. Head(srm.pkgs) \in Package /\ srm.pc = "packages" /\ ApplyPrsPackage(Head(srm.pkgs))
    BY <1>1 DEF ProcessPrsPackage, TypeOK, Message
  <2> QED
    BY Zenon, <2>1, PackageStep
<1>2. CASE ApplyCoStatusUpdates
  BY Zenon, <1>2, ReportStep
<1>3. CASE RunPrioritizationProcessing
  BY Zenon, <1>3, PrioritizeStep
<1>4. CASE BroadcastSSM
  BY <1>4, BroadcastStep
<1>5. CASE UNCHANGED table
  BY Zenon, <1>5, TableStays
<1>6. ASSUME [Next]_vars
      PROVE  \/ ProcessPrsPackage \/ ApplyCoStatusUpdates \/ RunPrioritizationProcessing
             \/ BroadcastSSM \/ UNCHANGED table
  BY Zenon, <1>6 DEF Next, MessageThread, ExchangeThread, OnRegistered, OnConfigChanged,
      UpdateConfigSettings, ConfigureControllers, HandleSRM, SelectController, EncodeRequest,
      SetRequest, GetResponse, SetPrioritized, Tick, vars
<1> QED
  BY Zenon, <1>1, <1>2, <1>3, <1>4, <1>5, <1>6

-----------------------------------------------------------------------------
\* The types of what the threads keep beside the table.

LEMMA EncodeTyped ==
  ASSUME NEW t \in [Rows -> Row]
  PROVE  EncodeServiceRequest(t) \in ServiceRequest
BY Zenon DEF EncodeServiceRequest, ServiceRequest, Row

\* What is left of a sequence with more than one element.
LEMMA LongTail ==
  ASSUME NEW S, NEW s \in Seq(S), s # <<>>, Len(s) # 1
  PROVE  Tail(s) \in Seq(S) /\ Tail(s) # <<>>
<1>1. Len(s) \in Nat /\ Len(s) # 0 /\ Tail(s) \in Seq(S) /\ Len(Tail(s)) = Len(s) - 1
  OBVIOUS
<1>2. Len(Tail(s)) # 0
  BY <1>1
<1> QED
  BY <1>1, <1>2

\* The conjuncts of TypeOK that speak of one thread, and of the lock.
MessageOK ==
  /\ srm \in Message
  /\ srm.pc = "packages" => srm.pkgs # <<>> /\ srm.veh \in Vehicles

ExchangeOK ==
  /\ ex \in Exchange
  /\ ex.pc = "apply" => ex.report \in [Rows -> RequestStatus]

LockOK ==
  /\ prsBusy \in BOOLEAN /\ (prsBusy <=> lock = "loop")
  /\ lock = "loop" <=> ex.pc = "prioritize"
  /\ lock = "srm" => srm.pc = "packages"
  /\ srm.pc = "register" => ex.pc \in {"unregistered", "notStarted"}

SettingsOK ==
  /\ controllers \subseteq Intersections
  /\ laneStrategy \in [Intersections -> 0..1]
  /\ now \in 1..MaxNow

LEMMA TypeGroups ==
  TypeOK <=> table \in [Rows -> Row] /\ MessageOK /\ ExchangeOK /\ LockOK /\ SettingsOK
BY Zenon DEF TypeOK, MessageOK, ExchangeOK, LockOK, SettingsOK

\* Steps of the message thread.
LEMMA MessageTypes ==
  ASSUME TypeOK, MessageThread
  PROVE  MessageOK' /\ ExchangeOK' /\ LockOK' /\ SettingsOK'
<1>0. MessageOK /\ ExchangeOK /\ LockOK /\ SettingsOK
  BY Zenon, TypeGroups
<1>1. ASSUME NEW cfg \in Configs, NEW pc \in {"register", "config"},
             UpdateConfigSettings(pc, cfg),
             pc = "register" => ex.pc \in {"unregistered", "notStarted"}
      PROVE  MessageOK' /\ ExchangeOK' /\ LockOK' /\ SettingsOK'
  <2>1. cfg.lanes \in [Intersections -> 0..1] /\ cfg.ctrls \subseteq Intersections
    BY Zenon, PrsAssumption
  <2>2. MessageOK' /\ srm'.pc = pc
    BY Zenon, <1>0, <1>1, <2>1 DEF UpdateConfigSettings, Message, MessageOK
  <2>3. ExchangeOK'
    BY Zenon, <1>0, <1>1 DEF UpdateConfigSettings, ExchangeOK
  <2>4. LockOK'
    <3>1. lock # "srm" /\ UNCHANGED <<prsBusy, lock, ex>>
      BY Zenon, <1>0, <1>1 DEF UpdateConfigSettings, LockOK
    <3> QED
      BY Zenon, <1>0, <1>1, <2>2, <3>1 DEF LockOK
  <2>5. SettingsOK'
    BY Zenon, <1>0, <1>1, <2>1 DEF UpdateConfigSettings, SettingsOK
  <2> QED
    BY Zenon, <2>2, <2>3, <2>4, <2>5
<1>2. CASE ConfigureControllers
  <2>1. MessageOK' /\ srm'.pc = "idle"
    BY <1>2 DEF ConfigureControllers, NoSRM, Message, MessageOK
  <2>2. SettingsOK'
    BY Zenon, <1>0, <1>2 DEF ConfigureControllers, Message, MessageOK, SettingsOK
  <2>3. UNCHANGED <<prsBusy, lock>> /\ lock # "srm"
    BY Zenon, <1>0, <1>2 DEF ConfigureControllers, LockOK
  <2>4. CASE srm.pc = "config"
    <3>1. ex' = ex
      BY Zenon, <1>2, <2>4 DEF ConfigureControllers
    <3> QED
      BY Zenon, <1>0, <2>1, <2>2, <2>3, <3>1 DEF ExchangeOK, LockOK
  <2>5. CASE srm.pc = "register"
    <3>1. ex' = [ex EXCEPT !.pc = IF role = "PRS" THEN "select" ELSE "notStarted"]
      BY Zenon, <1>2, <2>5 DEF ConfigureControllers
    <3>2. ex' \in Exchange /\ ex'.pc \in {"select", "notStarted"}
      BY Zenon, <1>0, <3>1 DEF ExchangeOK, Exchange
    <3>3. ex.pc # "prioritize"
      BY Zenon, <1>0, <2>5 DEF LockOK
    <3> QED
      BY Zenon, <1>0, <2>1, <2>2, <2>3, <3>2, <3>3 DEF ExchangeOK, LockOK
  <2> QED
    BY Zenon, <1>2, <2>4, <2>5 DEF ConfigureControllers
<1>3. ASSUME NEW m \in Messages, HandleSRM(m)
      PROVE  MessageOK' /\ ExchangeOK' /\ LockOK' /\ SettingsOK'
  <2>1. m.veh \in Vehicles /\ m.seq \in Nat /\ m.pkgs \in Seq(Package) /\ m.pkgs # <<>>
    BY Zenon, PrsAssumption
  <2>2. now \in Nat /\ prsBusy \in BOOLEAN
    BY <1>0 DEF SettingsOK, LockOK
  <2>3. /\ srm' = [srm EXCEPT !.pc = "packages", !.veh = m.veh, !.seq = m.seq, !.at = now,
                              !.busy = prsBusy, !.pkgs = m.pkgs]
        /\ UNCHANGED <<controllers, laneStrategy, prsBusy, lock, ex, now>>
    BY Zenon, <1>3 DEF HandleSRM
  <2>4. MessageOK' /\ srm'.pc = "packages"
    BY Zenon, <1>0, <2>1, <2>2, <2>3 DEF Message, MessageOK
  <2> QED
    BY Zenon, <1>0, <2>3, <2>4 DEF ExchangeOK, LockOK, SettingsOK
<1>4. CASE ProcessPrsPackage
  <2>1. srm.pkgs \in Seq(Package) /\ srm.pkgs # <<>> /\ srm.pc = "packages"
    BY Zenon, <1>0, <1>4 DEF ProcessPrsPackage, Message, MessageOK
  <2>2. lock # "loop" /\ UNCHANGED <<controllers, laneStrategy, prsBusy, ex, now>>
    BY Zenon, <1>4 DEF ProcessPrsPackage
  <2>3. ExchangeOK' /\ SettingsOK'
    BY Zenon, <1>0, <2>2 DEF ExchangeOK, SettingsOK
  <2>4. CASE Len(srm.pkgs) = 1
    <3>1. lock' = "free" /\ srm' = NoSRM
      BY Zenon, <1>4, <2>4 DEF ProcessPrsPackage
    <3>2. MessageOK' /\ srm'.pc = "idle"
      BY <3>1 DEF NoSRM, Message, MessageOK
    <3> QED
      BY Zenon, <1>0, <2>2, <2>3, <3>1, <3>2 DEF LockOK
  <2>5. CASE Len(srm.pkgs) # 1
    <3>1. lock' = "srm" /\ srm' = [srm EXCEPT !.pkgs = Tail(@)]
      BY Zenon, <1>4, <2>5 DEF ProcessPrsPackage
    <3>2. Tail(srm.pkgs) \in Seq(Package) /\ Tail(srm.pkgs) # <<>>
      BY Zenon, <2>1, <2>5, LongTail
    <3>3. MessageOK' /\ srm'.pc = "packages"
      BY Zenon, <1>0, <2>1, <3>1, <3>2 DEF Message, MessageOK
    <3> QED
      BY Zenon, <1>0, <2>2, <2>3, <3>1, <3>3 DEF LockOK
  <2> QED
    BY Zenon, <2>4, <2>5
<1> QED
  BY Zenon, <1>1, <1>2, <1>3, <1>4 DEF MessageThread, OnRegistered, OnConfigChanged

\* What a step of the exchange thread does to the types: only ex, the lock and prsBusy
\* may change.
LEMMA ExchangeTypes ==
  ASSUME TypeOK, table' \in [Rows -> Row], ExchangeThread
  PROVE  MessageOK' /\ ExchangeOK' /\ LockOK' /\ SettingsOK'
<1>0. MessageOK /\ ExchangeOK /\ LockOK /\ SettingsOK /\ ex \in Exchange
      /\ table \in [Rows -> Row]
  BY Zenon, TypeGroups DEF ExchangeOK
<1>1. MessageOK' /\ SettingsOK' /\ srm' = srm
  <2>1. UNCHANGED loopKeeps
    BY Zenon DEF ExchangeThread, SelectController, EncodeRequest, SetRequest, GetResponse,
           ApplyCoStatusUpdates, RunPrioritizationProcessing, SetPrioritized, BroadcastSSM
  <2> QED
    BY Zenon, <1>0, <2>1 DEF loopKeeps, MessageOK, SettingsOK
<1>2. ASSUME UNCHANGED <<lock, prsBusy>>, ex'.pc # "prioritize", ex.pc # "prioritize",
             ex.pc \notin {"unregistered", "notStarted"}
      PROVE  LockOK'
  BY Zenon, <1>0, <1>1, <1>2 DEF LockOK
<1>3. CASE SelectController
  <2>1. PICK n \in Intersections : ex' = [ex EXCEPT !.pc = "encode", !.target = n]
    BY Zenon, <1>0, <1>3 DEF SelectController, SettingsOK, IsFirst
  <2>2. ex' \in Exchange /\ ex'.pc = "encode"
    BY Zenon, <1>0, <2>1 DEF Exchange
  <2> QED
    BY Zenon, <1>1, <1>2, <1>3, <2>2 DEF SelectController, ExchangeOK
<1>4. CASE EncodeRequest
  <2>1. EncodeServiceRequest(table) \in ServiceRequest /\ GetTries \in Nat
    BY Zenon, <1>0, EncodeTyped, PrsAssumption
  <2>2. ex' \in Exchange /\ ex'.pc \in {"set", "get"}
    BY Zenon, <1>0, <1>4, <2>1 DEF EncodeRequest, Exchange
  <2> QED
    BY Zenon, <1>1, <1>2, <1>4, <2>2 DEF EncodeRequest, ExchangeOK
<1>5. ASSUME NEW pc \in {"get", "ssm"}, SnmpSet(pc)
      PROVE  ex' \in Exchange /\ ex'.pc \in {"get", "ssm"}
  <2>1. GetTries \in Nat
    BY Zenon, PrsAssumption
  <2> QED
    BY Zenon, <1>0, <1>5, <2>1 DEF SnmpSet, Exchange
<1>6. CASE SetRequest
  <2>1. ex' \in Exchange /\ ex'.pc \in {"get", "ssm"}
    BY Zenon, <1>5, <1>6 DEF SetRequest
  <2> QED
    BY Zenon, <1>1, <1>2, <1>6, <2>1 DEF SetRequest, ExchangeOK
<1>7. CASE SetPrioritized
  <2>1. ex' \in Exchange /\ ex'.pc \in {"get", "ssm"}
    BY Zenon, <1>5, <1>7 DEF SetPrioritized
  <2> QED
    BY Zenon, <1>1, <1>2, <1>7, <2>1 DEF SetPrioritized, ExchangeOK
<1>8. CASE GetResponse
  <2>1. ASSUME NEW r \in Reports(ex.target),
               ex' = [ex EXCEPT !.pc = "apply", !.report = r, !.tries = 0]
        PROVE  ExchangeOK' /\ ex'.pc = "apply"
    <3>1. r \in [Rows -> RequestStatus]
      BY Zenon, PrsAssumption DEF Reports
    <3> QED
      BY Zenon, <1>0, <2>1, <3>1 DEF Exchange, ExchangeOK
  <2>2. ASSUME ex.tries > 1, ex' = [ex EXCEPT !.tries = @ - 1]
        PROVE  ExchangeOK' /\ ex'.pc = "get"
    <3>0. ex.pc = "get" /\ ex.tries \in Nat
      BY Zenon, <1>0, <1>8 DEF GetResponse, Exchange
    <3>1. ex.pc = "get" /\ ex.tries - 1 \in Nat
      BY <2>2, <3>0
    <3>2. ex' \in Exchange /\ ex'.pc = "get"
      BY Zenon, <1>0, <2>2, <3>1 DEF Exchange
    <3> QED
      BY Zenon, <3>2 DEF ExchangeOK
  <2>3. ASSUME ex' = [ex EXCEPT !.pc = "ssm", !.tries = 0]
        PROVE  ExchangeOK' /\ ex'.pc = "ssm"
    BY Zenon, <1>0, <2>3 DEF Exchange, ExchangeOK
  <2>4. ExchangeOK' /\ ex'.pc # "prioritize"
    BY Zenon, <1>8, <2>1, <2>2, <2>3 DEF GetResponse
  <2> QED
    BY Zenon, <1>1, <1>2, <1>8, <2>4 DEF GetResponse
<1>9. CASE ApplyCoStatusUpdates
  <2>1. now \in Nat
    BY <1>0 DEF SettingsOK
  <2>2. ex' \in Exchange /\ ex'.pc = "prioritize"
    BY Zenon, <1>0, <1>9, <2>1 DEF ApplyCoStatusUpdates, Exchange
  <2>3. prsBusy' = TRUE /\ lock' = "loop" /\ srm.pc # "register"
    BY Zenon, <1>0, <1>9 DEF ApplyCoStatusUpdates, LockOK
  <2> QED
    BY Zenon, <1>1, <2>2, <2>3 DEF ExchangeOK, LockOK
<1>10. CASE RunPrioritizationProcessing
  <2>1. EncodeServiceRequest(table') \in ServiceRequest
    BY Zenon, EncodeTyped
  <2>2. ex' \in Exchange /\ ex'.pc \in {"reset", "ssm"}
    BY Zenon, <1>0, <1>10, <2>1 DEF RunPrioritizationProcessing, Exchange
  <2>3. prsBusy' = FALSE /\ lock' = "free" /\ srm.pc # "register"
    BY Zenon, <1>0, <1>10 DEF RunPrioritizationProcessing, LockOK
  <2> QED
    BY Zenon, <1>1, <2>2, <2>3 DEF ExchangeOK, LockOK
<1>11. CASE BroadcastSSM
  <2>1. ex' \in Exchange /\ ex'.pc = "select"
    BY Zenon, <1>11 DEF BroadcastSSM, NoExchange, Exchange
  <2> QED
    BY Zenon, <1>1, <1>2, <1>11, <2>1 DEF BroadcastSSM, ExchangeOK
<1> QED
  BY Zenon, <1>3, <1>4, <1>6, <1>7, <1>8, <1>9, <1>10, <1>11 DEF ExchangeThread

-----------------------------------------------------------------------------
LEMMA InvIsTable == PrsInv <=> TypeOK /\ TableOK(table)
<1>1. ASSUME PrsInv  PROVE TypeOK /\ TableOK(table)
  <2>1. TypeOK /\ table \in [Rows -> Row]
    BY Zenon, <1>1 DEF PrsInv, TypeOK
  <2>2. \A i \in Rows : RowOK(table[i])
    BY Zenon, <1>1, <2>1 DEF PrsInv, RowOK, IdleRowsBlank
  <2>3. \A i, j \in Rows : i # j => ~Alike(table[i], table[j])
    BY Zenon, <1>1 DEF PrsInv, OneRowPerRequest, Alike
  <2> QED
    BY Zenon, <2>1, <2>2, <2>3 DEF TableOK
<1>2. ASSUME TypeOK, TableOK(table)  PROVE PrsInv
  <2>1. OneRowPerRequest
    BY Zenon, <1>2 DEF TableOK, OneRowPerRequest, Alike
  <2>2. IdleRowsBlank
    BY Zenon, <1>2 DEF TableOK, RowOK, IdleRowsBlank
  <2> QED
    BY Zenon, <1>2, <2>1, <2>2 DEF PrsInv, TableOK, RowOK
<1> QED
  BY Zenon, <1>1, <1>2

LEMMA PrsInit == Init => PrsInv
<1> SUFFICES ASSUME Init  PROVE TypeOK /\ TableOK(table)
  BY Zenon, InvIsTable
<1>1. table = [i \in Rows |-> BlankRow] /\ BlankRow \in Row
  BY Zenon, BlankRowOK DEF Init, RowOK
<1>2. TableOK(table)
  BY Zenon, <1>1, BlankRowOK DEF TableOK, Alike
<1>3. MessageOK
  BY DEF Init, MessageOK, NoSRM, Message
<1>4. ExchangeOK
  BY Zenon DEF Init, ExchangeOK, NoExchange, Exchange
<1>5. LockOK
  BY Zenon DEF Init, LockOK, NoSRM, NoExchange
<1>6. SettingsOK
  BY PrsAssumption DEF Init, SettingsOK
<1> QED
  BY Zenon, <1>1, <1>2, <1>3, <1>4, <1>5, <1>6, TypeGroups

\* A step keeps the invariant and moves every request along its lifecycle.
LEMMA PrsStep == PrsInv /\ [Next]_vars => PrsInv' /\ StatusMoves(table, table')
<1> SUFFICES ASSUME TypeOK, TableOK(table), [Next]_vars
             PROVE  TypeOK' /\ TableOK(table)' /\ StatusMoves(table, table')
  <2>1. (TypeOK /\ TableOK(table))' => PrsInv'
    BY InvIsTable, PTL
  <2> QED
    BY Zenon, <2>1, InvIsTable
<1>0. (table \in [Rows -> Row])' /\ MessageOK' /\ ExchangeOK' /\ LockOK' /\ SettingsOK' => TypeOK'
  BY TypeGroups, PTL
<1>1. TableOK(table)' /\ StatusMoves(table, table') /\ table' \in [Rows -> Row]
  BY Zenon, TableStep DEF TableOK
<1>2. CASE MessageThread
  BY Zenon, <1>0, <1>1, <1>2, MessageTypes
<1>3. CASE ExchangeThread
  BY Zenon, <1>0, <1>1, <1>3, ExchangeTypes
<1>4. CASE Tick
  <2>1. now' \in 1..MaxNow
    BY <1>4, PrsAssumption DEF Tick, TypeOK
  <2> QED
    BY Zenon, <1>1, <1>4, <2>1 DEF Tick, TypeOK
<1>5. CASE UNCHANGED vars
  BY Zenon, <1>1, <1>5 DEF vars, TypeOK
<1> QED
  BY Zenon, <1>1, <1>2, <1>3, <1>4, <1>5 DEF Next

\* The invariant of the priority request server, for any number of rows, vehicles,
\* requests and controllers, and whatever the COs report.
THEOREM PrsCorrect == Spec => []PrsInv
BY PrsInit, PrsStep, PTL DEF Spec

\* The types of the table and of the two threads, and the lock: the exchange thread
\* holds it exactly from ApplyCoStatusUpdates to the end of the prioritization.
THEOREM PrsTypes == Spec => []TypeOK
<1>1. PrsInv => TypeOK
  BY Zenon DEF PrsInv
<1> QED
  BY <1>1, PrsCorrect, PTL

\* A request that gets a row inherits nothing of the one that had it before:
\* ApplyPrsPackage may leave the fields it does not assign.
THEOREM IdleRowsAreBlank == Spec => []IdleRowsBlank
<1>1. PrsInv => IdleRowsBlank
  BY Zenon DEF PrsInv
<1> QED
  BY <1>1, PrsCorrect, PTL

\* A request never gets a second row.
THEOREM RequestsHaveOneRow == Spec => []OneRowPerRequest
<1>1. PrsInv => OneRowPerRequest
  BY Zenon DEF PrsInv
<1> QED
  BY <1>1, PrsCorrect, PTL

\* The table implements the lifecycle: RunPrioritizationProcessing,
\* ApplyCoStatusUpdates, ApplyPrsPackage and the broadcasts move a request along the
\* edges of RequestLifecycle only.
THEOREM PrsImplementsLifecycle == Spec => FollowsLifecycle
<1> DEFINE status == [r \in Requests |-> StatusOf(r)]
<1>1. \A r \in Requests : StatusOf(r) = StatusIn(table, r)
  BY DEF StatusOf, RowsOf, StatusIn, OfRequest
<1>2. \A r \in Requests : StatusOf(r)' = StatusIn(table', r)
  BY DEF StatusOf, RowsOf, StatusIn, OfRequest
<1>3. Init => Lifecycle!Init
  <2> SUFFICES ASSUME Init, NEW r \in Requests  PROVE StatusOf(r) = "idleNotValid"
    BY Zenon DEF Lifecycle!Init
  <2>1. \A i \in Rows : ~OfRequest(table[i], r)
    BY Zenon, BlankRowOK DEF Init, OfRequest
  <2> QED
    BY Zenon, <1>1, <2>1, StatusOfNone DEF IdleStatus
<1>4. PrsInv /\ [Next]_vars => Lifecycle!Next
  <2> SUFFICES ASSUME PrsInv, [Next]_vars, NEW r \in Requests
               PROVE  \/ StatusOf(r)' = StatusOf(r)
                      \/ Lifecycle!Edge(StatusOf(r), StatusOf(r)')
    BY Zenon DEF Lifecycle!Next
  <2>1. StatusMoves(table, table')
    BY Zenon, PrsStep
  <2> QED
    BY Zenon, <1>1, <1>2, <2>1 DEF StatusMoves
<1> QED
  BY <1>3, <1>4, PrsCorrect, PTL DEF Spec, FollowsLifecycle, Lifecycle!Spec

-----------------------------------------------------------------------------
(* One controller: what its CO closed stays closed *)

\* What a CO may serve, and what it may not: a row that is idle, or closed by its CO.
OpenX == ReadyX \cup {"activeOverride"}
ClosedByCo == ClosedX \ {"closedTimeToLiveError"}
QuietX == ClosedByCo \cup {IdleStatus}

\* The inductive invariant of a single CO: it never holds open what the table holds
\* closed.
\* - A closed row is not being served.
\* - What was sent last as idle or closed, and is so still, the CO does not hold open,
\*   though a later request whose answer was lost may have reached it.
\* - Neither does the request that is about to be sent ...
\* - ... nor the one the CO answers, so that its report serves no closed row, nor one
\*   that an SRM adds in the meantime.
CoInv ==
  /\ DOMAIN coHolds = Intersections
  /\ ex.pc \in {"encode", "set", "get", "apply", "prioritize", "reset"} => ex.target \in Intersections
  /\ \A i \in Rows : table[i].prs \in ClosedByCo => table[i].co \notin ActiveX
  /\ \A i \in Rows :
       lastSent # <<>> /\ lastSent[i][3] \in QuietX
       /\ (ex.pc \in {"get", "apply", "prioritize"} \/ table[i].prs \in {lastSent[i][3], IdleStatus})
         => \A c \in Intersections : coHolds[c][i][3] \notin OpenX
  /\ ex.pc \in {"set", "reset"} =>
       \A i \in Rows : table[i].prs \in QuietX => ex.data[i][3] \notin OpenX
  /\ ex.pc = "get" =>
       \A i \in Rows : table[i].prs \in QuietX =>
         \A c \in Intersections : coHolds[c][i][3] \notin OpenX
  /\ ex.pc = "apply" =>
       \A i \in Rows : table[i].prs \in QuietX => ex.report[i] \notin ActiveX

\* Of one row: whether it is quiet after a step only if it was, and is not served when closed.
QuietRow(e, u) ==
  /\ u.prs \in QuietX => e.prs \in {u.prs, IdleStatus}
  /\ u.prs \in ClosedByCo => u.co \notin ActiveX

\* Whether a step overrides a request only if it is, or the CO serves it.
OverridesServed(e, u) ==
  u.prs = "activeOverride" => /\ u.rid = e.rid /\ u.veh = e.veh /\ u.strategy = e.strategy
                              /\ e.prs = "activeOverride" \/ e.co \in ActiveX

LEMMA RowSame ==
  ASSUME NEW e, NEW u, e.prs \in ClosedByCo => e.co \notin ActiveX, u.prs = e.prs, u.co = e.co,
         u.rid = e.rid, u.veh = e.veh, u.strategy = e.strategy
  PROVE  QuietRow(e, u) /\ OverridesServed(e, u)
BY Zenon DEF QuietRow, OverridesServed

\* A package of an SRM opens or closes no row but an idle one, and overrides a row that is
\* being served.
LEMMA PackageRows ==
  ASSUME TypeOK, TableOK(table), CoInv, srm.pc = "packages", NEW p \in Package, ApplyPrsPackage(p),
         NEW i \in Rows
  PROVE  QuietRow(table[i], table'[i]) /\ OverridesServed(table[i], table'[i])
<1> DEFINE same == {j \in Rows : SameRequest(table[j], p)}
           free == {j \in Rows : Idle(table[j])}
<1>0. RowOK(table[i]) /\ table \in [Rows -> Row] /\ table[i] \in Row
  BY Zenon DEF TableOK, RowOK
<1>1. table[i].prs \in ClosedByCo => table[i].co \notin ActiveX
  BY Zenon DEF CoInv
<1>2. ASSUME NEW k \in Rows,
             table' = [table EXCEPT ![k].tsd = srm.at + p.off, ![k].seq = srm.seq]
      PROVE  /\ table'[i].prs = table[i].prs /\ table'[i].co = table[i].co
             /\ table'[i].rid = table[i].rid /\ table'[i].veh = table[i].veh
             /\ table'[i].strategy = table[i].strategy
  BY Zenon, <1>0, <1>2 DEF Row
<1>3. ASSUME NEW slot \in Rows, IsFirst(slot, free), NEW new, new = NewRow(p, table[slot]),
             table' = [j \in Rows |-> IF j = slot THEN new
                                      ELSE IF Overridden(table[j], new)
                                           THEN [table[j] EXCEPT !.prs = "activeOverride"]
                                           ELSE table[j]]
      PROVE  QuietRow(table[i], table'[i]) /\ OverridesServed(table[i], table'[i])
  <2>1. CASE i = slot
    <3>1. Idle(table[i]) /\ table'[i] = NewRow(p, table[i])
      BY Zenon, <1>3, <2>1 DEF IsFirst
    <3>2. table[i].prs = IdleStatus /\ table[i].co = IdleStatus
      BY <1>0, <3>1 DEF RowOK, BlankRow, Idle
    <3>3. table'[i].co = table[i].co /\ table'[i].prs # "activeOverride"
      BY Zenon, <1>0, <3>1 DEF NewRow, Row
    <3> QED
      BY Zenon, <3>2, <3>3 DEF QuietRow, OverridesServed, IdleStatus, ActiveX
  <2>2. CASE i # slot /\ Overridden(table[i], new)
    <3>1. table'[i] = [table[i] EXCEPT !.prs = "activeOverride"] /\ table[i].co \in ActiveX
      BY Zenon, <1>3, <2>2 DEF Overridden, ActiveX
    <3>2. /\ table'[i].prs = "activeOverride"
          /\ table'[i].rid = table[i].rid /\ table'[i].veh = table[i].veh
          /\ table'[i].strategy = table[i].strategy
      BY Zenon, <1>0, <3>1 DEF Row
    <3> QED
      BY Zenon, <3>1, <3>2
         DEF QuietRow, OverridesServed, QuietX, ClosedByCo, ClosedX, IdleStatus
  <2>3. CASE i # slot /\ ~Overridden(table[i], new)
    BY Zenon, <1>1, <1>3, <2>3, RowSame
  <2> QED
    BY Zenon, <2>1, <2>2, <2>3
<1> QED
  BY Zenon, <1>1, <1>2, <1>3, RowSame DEF ApplyPrsPackage

\* A report closes the row or leaves it; the CO does not serve the rows it closes.
LEMMA ReportRows ==
  ASSUME TypeOK, TableOK(table), CoInv, ApplyCoStatusUpdates, NEW i \in Rows
  PROVE  /\ table'[i].prs \in ClosedByCo => table'[i].co \notin ActiveX
         /\ OverridesServed(table[i], table'[i])
<1> DEFINE st == ex.report[i]
<1>0. RowOK(table[i]) /\ table \in [Rows -> Row] /\ table[i] \in Row /\ ex.pc = "apply"
  BY Zenon DEF TableOK, RowOK, ApplyCoStatusUpdates
<1>1. table'[i] = IF Idle(table[i]) THEN table[i]
                  ELSE [table[i] EXCEPT !.co = st, !.prs = PrsAfterReport(table[i].prs, st)]
  BY Zenon DEF ApplyCoStatusUpdates
<1>2. table[i].prs \in ClosedByCo => table[i].co \notin ActiveX /\ st \notin ActiveX
  BY Zenon, <1>0 DEF CoInv, QuietX
<1>3. CASE Idle(table[i])
  BY Zenon, <1>1, <1>2, <1>3, RowSame DEF QuietRow
<1>4. CASE ~Idle(table[i])
  <2>1. /\ table'[i].co = st /\ table'[i].prs = PrsAfterReport(table[i].prs, st)
        /\ table'[i].rid = table[i].rid /\ table'[i].veh = table[i].veh
        /\ table'[i].strategy = table[i].strategy
    BY Zenon, <1>0, <1>1, <1>4 DEF Row
  <2>2. /\ PrsAfterReport(table[i].prs, st) # table[i].prs
             => st \notin ActiveX /\ PrsAfterReport(table[i].prs, st) # "activeOverride"
    BY Zenon DEF PrsAfterReport, ActiveX, ClosedX, ReadyX
  <2> QED
    BY Zenon, <1>2, <2>1, <2>2 DEF OverridesServed
<1> QED
  BY Zenon, <1>3, <1>4

\* So does the aging of a row ...
LEMMA AgedServed ==
  ASSUME NEW e, RowOK(e), e.prs \in ClosedByCo => e.co \notin ActiveX
  PROVE  /\ Aged(e).prs \in ClosedByCo => Aged(e).co \notin ActiveX
         /\ Aged(e).co \in ActiveX => /\ Aged(e).co = e.co /\ Aged(e).rid = e.rid
                                      /\ Aged(e).veh = e.veh /\ Aged(e).strategy = e.strategy
         /\ OverridesServed(e, Aged(e))
<1>1. CASE Aged(e) = BlankRow
  BY Zenon, <1>1, BlankRowOK DEF OverridesServed, Idle, IdleStatus
<1>2. CASE Aged(e) = e
  BY Zenon, <1>2 DEF OverridesServed
<1>3. CASE Aged(e) = [e EXCEPT !.prs = "closedTimeToLiveError"]
  <2>1. /\ Aged(e).prs = "closedTimeToLiveError" /\ Aged(e).co = e.co
        /\ Aged(e).rid = e.rid /\ Aged(e).veh = e.veh /\ Aged(e).strategy = e.strategy
    BY Zenon, <1>3 DEF RowOK, Row
  <2> QED
    BY Zenon, <2>1 DEF ClosedByCo, OverridesServed
<1> QED
  BY Zenon, <1>1, <1>2, <1>3, AgedRow
\* ... the check for an override, for a closed row is not served ...
LEMMA CheckedServed ==
  ASSUME NEW e, e \in Row, e.co \in ActiveX, e.prs \notin ClosedByCo, NEW higher \in BOOLEAN
  PROVE  LET u == [e EXCEPT !.prs = IF higher THEN "activeOverride"
                                    ELSE IF @ = "activeOverride" THEN "readyQueued" ELSE @]
         IN u.prs \notin ClosedByCo /\ OverridesServed(e, u)
<1> DEFINE prs == IF higher THEN "activeOverride"
                  ELSE IF e.prs = "activeOverride" THEN "readyQueued" ELSE e.prs
           u == [e EXCEPT !.prs = prs]
<1>1. prs \notin ClosedByCo
  BY Zenon DEF ClosedByCo, ClosedX
<1>2. u.prs = prs /\ u.rid = e.rid /\ u.veh = e.veh /\ u.strategy = e.strategy
  BY Zenon DEF Row
<1> HIDE DEF prs
<1>3. u.prs \notin ClosedByCo /\ OverridesServed(e, u)
  BY Zenon, <1>1, <1>2 DEF OverridesServed
<1> QED
  BY Zenon, <1>3 DEF prs

\* ... and the rest of the prioritization, which only moves rows.
LEMMA PrioritizedRows ==
  ASSUME TableOK(table), CoInv, RunPrioritizationProcessing, NEW j \in Rows
  PROVE  /\ table'[j].prs \in ClosedByCo => table'[j].co \notin ActiveX
         /\ \E i \in Rows : OverridesServed(table[i], table'[j])
<1> DEFINE t == [i \in Rows |-> Aged(table[i])]
<1>1. \A i \in Rows : /\ t[i].prs \in ClosedByCo => t[i].co \notin ActiveX
                      /\ t[i].co \in ActiveX =>
                           /\ t[i].co = table[i].co /\ t[i].rid = table[i].rid
                           /\ t[i].veh = table[i].veh /\ t[i].strategy = table[i].strategy
                      /\ OverridesServed(table[i], t[i])
                      /\ t[i] \in Row
  <2> SUFFICES ASSUME NEW i \in Rows
               PROVE  /\ Aged(table[i]).prs \in ClosedByCo => Aged(table[i]).co \notin ActiveX
                      /\ Aged(table[i]).co \in ActiveX =>
                           /\ Aged(table[i]).co = table[i].co /\ Aged(table[i]).rid = table[i].rid
                           /\ Aged(table[i]).veh = table[i].veh
                           /\ Aged(table[i]).strategy = table[i].strategy
                      /\ OverridesServed(table[i], Aged(table[i]))
                      /\ Aged(table[i]) \in Row
    BY Zenon
  <2>1. RowOK(table[i]) /\ (table[i].prs \in ClosedByCo => table[i].co \notin ActiveX)
    BY Zenon DEF TableOK, CoInv
  <2> QED
    BY Zenon, <2>1, AgedServed, AgedRow DEF Moves, RowOK
<1>2. ASSUME NEW active \in Rows, IsFirst(active, ActiveRows(t)),
             table' = CheckForOverride(t, active)
      PROVE  /\ table'[j].prs \in ClosedByCo => table'[j].co \notin ActiveX
             /\ OverridesServed(table[j], table'[j])
  <2> DEFINE queued == {i \in Rows \ {active} : t[i].prs = "readyQueued"}
             higher == \E i \in Rows : IsFirst(i, queued)
                                        /\ MoreImportant(t[i].class, t[active].class)
             after == [t[active] EXCEPT !.prs = IF higher THEN "activeOverride"
                                                ELSE IF @ = "activeOverride" THEN "readyQueued"
                                                ELSE @]
  <2>1. table' = [t EXCEPT ![active] = after]
    BY Zenon, <1>2 DEF CheckForOverride
  <2>2. t[active].co \in ActiveX
    BY Zenon, <1>2 DEF IsFirst, ActiveRows
  <2>3. higher \in BOOLEAN
    BY Zenon
  <2> HIDE DEF higher, t
  <2>4. after.prs \notin ClosedByCo /\ OverridesServed(t[active], after)
    BY Zenon, <1>1, <2>2, <2>3, CheckedServed
  <2>5. DOMAIN t = Rows
    BY Zenon DEF t
  <2> HIDE DEF after
  <2>6. CASE j = active
    <3>1. table'[j] = after
      BY Zenon, <2>1, <2>5, <2>6
    <3>2. OverridesServed(table[j], after)
      <4>1. t[j].prs = "activeOverride" => table[j].prs = "activeOverride" \/ table[j].co \in ActiveX
        BY Zenon, <1>1 DEF OverridesServed
      <4> QED
        BY Zenon, <1>1, <2>2, <2>4, <2>6, <4>1 DEF OverridesServed
    <3> QED
      BY Zenon, <2>4, <3>1, <3>2
  <2>7. CASE j # active
    <3>1. table'[j] = t[j]
      BY Zenon, <2>1, <2>5, <2>7
    <3> QED
      BY Zenon, <1>1, <3>1
  <2> QED
    BY Zenon, <2>6, <2>7
<1>3. ASSUME NEW p \in Orders, table' = [i \in Rows |-> t[p[i]]]
      PROVE  /\ table'[j].prs \in ClosedByCo => table'[j].co \notin ActiveX
             /\ OverridesServed(table[p[j]], table'[j]) /\ p[j] \in Rows
  <2>1. p[j] \in Rows /\ table'[j] = t[p[j]]
    BY Zenon, <1>3 DEF Orders
  <2> HIDE DEF t
  <2> QED
    BY Zenon, <1>1, <2>1
<1> QED
  BY Zenon, <1>2, <1>3 DEF RunPrioritizationProcessing

LEMMA QuietIsNotOpen == \A s \in QuietX : s \notin OpenX
BY Zenon DEF QuietX, ClosedByCo, ClosedX, IdleStatus, OpenX, ReadyX

\* The conjuncts of CoInv that a step that leaves the table of the CO and what was sent
\* last keeps: those that are about rows that are quiet.
LEMMA QuietRowsKeep ==
  ASSUME CoInv, UNCHANGED <<lastSent, coHolds, ex>>,
         \A i \in Rows : QuietRow(table[i], table'[i])
  PROVE  CoInv'
<1>1. \A i \in Rows : table'[i].prs \in ClosedByCo => table'[i].co \notin ActiveX
  BY Zenon DEF QuietRow
<1>2. \A i \in Rows : table'[i].prs \in QuietX => table[i].prs \in QuietX
  BY Zenon DEF QuietRow, QuietX
<1>3. ASSUME NEW i \in Rows, lastSent # <<>>, lastSent[i][3] \in QuietX,
             ex.pc \in {"get", "apply", "prioritize"} \/ table'[i].prs \in {lastSent[i][3], IdleStatus},
             NEW c \in Intersections
      PROVE  coHolds[c][i][3] \notin OpenX
  <2>1. table'[i].prs \in {lastSent[i][3], IdleStatus} => table[i].prs \in {lastSent[i][3], IdleStatus}
    BY Zenon, <1>3 DEF QuietRow, QuietX
  <2> QED
    BY Zenon, <1>3, <2>1 DEF CoInv
<1> QED
  BY Zenon, <1>1, <1>2, <1>3 DEF CoInv

\* A request is sent: the CO has it, unless the answer says that it has not.
LEMMA SentStep ==
  ASSUME \A c, d \in Intersections : c = d, TypeOK, CoInv, NEW okPc \in {"get", "ssm"},
         ex.pc \in {"set", "reset"}, SnmpSet(okPc), UNCHANGED table
  PROVE  CoInv'
<1>0. ex \in Exchange /\ ex.target \in Intersections /\ DOMAIN coHolds = Intersections
  BY Zenon DEF TypeOK, CoInv
<1>1. \A i \in Rows : table[i].prs \in QuietX => ex.data[i][3] \notin OpenX
  BY Zenon DEF CoInv
<1>2. ASSUME coHolds' = [coHolds EXCEPT ![ex.target] = ex.data]
      PROVE  DOMAIN coHolds' = Intersections /\ \A c \in Intersections : coHolds'[c] = ex.data
  BY Zenon, <1>0, <1>2
<1>3. CASE /\ coHolds' = [coHolds EXCEPT ![ex.target] = ex.data] /\ lastSent' = ex.data
           /\ ex' = [ex EXCEPT !.pc = okPc, !.data = <<>>, !.tries = GetTries]
  <2>1. ex'.pc = okPc /\ ex'.target = ex.target
    BY Zenon, <1>0, <1>3 DEF Exchange
  <2> QED
    BY Zenon, <1>0, <1>1, <1>2, <1>3, <2>1, QuietIsNotOpen DEF CoInv
<1>4. CASE /\ coHolds' \in {coHolds, [coHolds EXCEPT ![ex.target] = ex.data]}
           /\ ex' = [ex EXCEPT !.pc = "ssm", !.data = <<>>] /\ UNCHANGED lastSent
  <2>1. ex'.pc = "ssm"
    BY Zenon, <1>0, <1>4 DEF Exchange
  <2>2. CASE coHolds' = coHolds
    BY Zenon, <1>4, <2>1, <2>2 DEF CoInv
  <2>3. CASE coHolds' = [coHolds EXCEPT ![ex.target] = ex.data]
    <3>1. ASSUME NEW i \in Rows, lastSent[i][3] \in QuietX,
                 table[i].prs \in {lastSent[i][3], IdleStatus}
          PROVE  ex.data[i][3] \notin OpenX
      BY Zenon, <1>1, <3>1 DEF QuietX
    <3> QED
      BY Zenon, <1>2, <1>4, <2>1, <2>3, <3>1 DEF CoInv
  <2> QED
    BY Zenon, <1>4, <2>2, <2>3
<1> QED
  BY Zenon, <1>3, <1>4 DEF SnmpSet

LEMMA BroadcastKeeps ==
  ASSUME NEW e \in Row
  PROVE  /\ Broadcast(e).prs = e.prs /\ Broadcast(e).co = e.co
         /\ Broadcast(e).rid = e.rid /\ Broadcast(e).veh = e.veh
         /\ Broadcast(e).strategy = e.strategy
<1>1. CASE Idle(e)
  BY Zenon, <1>1 DEF Broadcast
<1>2. CASE ~Idle(e)
  BY Zenon, <1>2 DEF Broadcast, Row
<1> QED
  BY Zenon, <1>1, <1>2

LEMMA CoStep ==
  ASSUME \A c, d \in Intersections : c = d, TypeOK, TableOK(table), CoInv, [Next]_vars
  PROVE  CoInv'
<1>0. ex \in Exchange /\ controllers \subseteq Intersections /\ table \in [Rows -> Row]
  BY Zenon DEF TypeOK
<1>1. CASE ProcessPrsPackage
  <2>1. Head(srm.pkgs) \in Package /\ srm.pc = "packages" /\ ApplyPrsPackage(Head(srm.pkgs))
    BY <1>1 DEF ProcessPrsPackage, TypeOK, Message
  <2>2. UNCHANGED <<lastSent, coHolds, ex>>
    BY Zenon, <1>1 DEF ProcessPrsPackage
  <2> QED
    BY Zenon, <2>1, <2>2, PackageRows, QuietRowsKeep
<1>2. CASE SelectController
  <2>1. UNCHANGED <<table, lastSent, coHolds>> /\ ex.pc = "select"
    BY Zenon, <1>2 DEF SelectController
  <2>2. PICK n \in controllers : ex' = [ex EXCEPT !.pc = "encode", !.target = n]
    BY Zenon, <1>2 DEF SelectController, IsFirst
  <2>3. ex'.pc = "encode" /\ ex'.target \in Intersections
    BY Zenon, <1>0, <2>2 DEF Exchange
  <2> QED
    BY Zenon, <2>1, <2>3 DEF CoInv
<1>3. CASE EncodeRequest
  <2> DEFINE data == EncodeServiceRequest(table)
  <2>1. ex.pc = "encode" /\ UNCHANGED <<table, lastSent, coHolds>>
    BY Zenon, <1>3 DEF EncodeRequest
  <2>2. \A i \in Rows : data[i][3] = table[i].prs
    BY Zenon DEF EncodeServiceRequest
  <2>3. CASE data # lastSent
    <3>1. ex'.pc = "set" /\ ex'.data = data /\ ex'.target = ex.target
      BY Zenon, <1>0, <1>3, <2>3 DEF EncodeRequest, Exchange
    <3> QED
      BY Zenon, <2>1, <2>2, <3>1, QuietIsNotOpen DEF CoInv
  <2>4. CASE data = lastSent
    <3>1. ex'.pc = "get" /\ ex'.target = ex.target
      BY Zenon, <1>0, <1>3, <2>4 DEF EncodeRequest, Exchange
    <3>2. ASSUME NEW i \in Rows  PROVE lastSent # <<>> /\ lastSent[i][3] = table[i].prs
      BY <2>2, <2>4 DEF EncodeServiceRequest
    <3> QED
      BY Zenon, <2>1, <3>1, <3>2 DEF CoInv
  <2> QED
    BY Zenon, <2>3, <2>4
<1>4. CASE SetRequest
  BY Zenon, <1>4, SentStep DEF SetRequest
<1>5. CASE SetPrioritized
  BY Zenon, <1>5, SentStep DEF SetPrioritized
<1>6. CASE GetResponse
  <2>1. ex.pc = "get" /\ UNCHANGED <<table, lastSent, coHolds>>
    BY Zenon, <1>6 DEF GetResponse
  <2>2. ASSUME NEW f \in Reports(ex.target), ex' = [ex EXCEPT !.pc = "apply", !.report = f, !.tries = 0]
        PROVE  CoInv'
    <3>1. ex'.pc = "apply" /\ ex'.target = ex.target /\ ex'.report = f
      BY Zenon, <1>0, <2>2 DEF Exchange
    <3>2. ASSUME NEW i \in Rows, table[i].prs \in QuietX  PROVE f[i] \notin ActiveX
      <4>1. coHolds[ex.target][i][3] \notin OpenX
        BY Zenon, <2>1, <3>2 DEF CoInv
      <4> QED
        BY Zenon, <2>2, <4>1 DEF Reports, OpenX
    <3> QED
      BY Zenon, <2>1, <3>1, <3>2 DEF CoInv
  <2>3. CASE ex' = [ex EXCEPT !.tries = @ - 1] \/ ex' = [ex EXCEPT !.pc = "ssm", !.tries = 0]
    <3>1. ex'.target = ex.target /\ ex'.pc \in {"get", "ssm"}
      BY Zenon, <1>0, <2>1, <2>3 DEF Exchange
    <3> QED
      BY Zenon, <2>1, <3>1 DEF CoInv
  <2>4. \/ \E f \in Reports(ex.target) : ex' = [ex EXCEPT !.pc = "apply", !.report = f, !.tries = 0]
        \/ ex' = [ex EXCEPT !.tries = @ - 1]
        \/ ex' = [ex EXCEPT !.pc = "ssm", !.tries = 0]
    BY Zenon, <1>6 DEF GetResponse
  <2> QED
    BY Zenon, <2>2, <2>3, <2>4
<1>7. CASE ApplyCoStatusUpdates
  <2>1. ex.pc = "apply" /\ UNCHANGED <<lastSent, coHolds>>
    BY Zenon, <1>7 DEF ApplyCoStatusUpdates
  <2>2. ex' = [ex EXCEPT !.pc = "prioritize", !.report = <<>>, !.at = now]
    BY Zenon, <1>7 DEF ApplyCoStatusUpdates
  <2>3. ex'.pc = "prioritize" /\ ex'.target = ex.target
    BY Zenon, <1>0, <2>2 DEF Exchange
  <2>4. \A i \in Rows : table'[i].prs \in ClosedByCo => table'[i].co \notin ActiveX
    BY Zenon, <1>7, ReportRows
  <2> QED
    BY Zenon, <2>1, <2>3, <2>4 DEF CoInv
<1>8. CASE RunPrioritizationProcessing
  <2> DEFINE data == EncodeServiceRequest(table')
  <2>1. /\ ex.pc = "prioritize" /\ UNCHANGED <<lastSent, coHolds>>
        /\ \/ ex' = [ex EXCEPT !.data = data, !.pc = "reset", !.at = 0]
           \/ ex' = [ex EXCEPT !.pc = "ssm", !.at = 0]
    BY Zenon, <1>8 DEF RunPrioritizationProcessing
  <2>2. \A i \in Rows : data[i][3] = table'[i].prs
    BY Zenon DEF EncodeServiceRequest
  <2>3. /\ ex'.target = ex.target /\ ex'.pc \in {"reset", "ssm"}
        /\ ex'.pc = "reset" => ex'.data = data
    BY Zenon, <1>0, <2>1 DEF Exchange
  <2>4. \A i \in Rows : table'[i].prs \in ClosedByCo => table'[i].co \notin ActiveX
    BY Zenon, <1>8, PrioritizedRows
  <2> HIDE DEF data
  <2> QED
    BY Zenon, <2>1, <2>2, <2>3, <2>4, QuietIsNotOpen DEF CoInv
<1>9. CASE BroadcastSSM
  <2>1. /\ ex.pc = "ssm" /\ UNCHANGED <<lastSent, coHolds>> /\ ex'.pc = "select"
        /\ table' = [i \in Rows |-> Broadcast(table[i])]
    BY Zenon, <1>9 DEF BroadcastSSM, NoExchange
  <2>2. \A i \in Rows : table'[i].prs = table[i].prs /\ table'[i].co = table[i].co
    BY Zenon, <1>0, <2>1, BroadcastKeeps
  <2> QED
    BY Zenon, <2>1, <2>2 DEF CoInv
<1>10. CASE /\ UNCHANGED <<table, lastSent, coHolds>>
            /\ ex' = ex \/ (ex'.pc \in {"select", "notStarted"} /\ ex.pc \in {"unregistered", "notStarted"})
  BY Zenon, <1>10 DEF CoInv
<1>11. \/ ProcessPrsPackage \/ ExchangeThread
       \/ /\ UNCHANGED <<table, lastSent, coHolds>>
          /\ ex' = ex \/ (ex'.pc \in {"select", "notStarted"} /\ ex.pc \in {"unregistered", "notStarted"})
  <2>1. CASE ConfigureControllers
    BY Zenon, <1>0, <2>1 DEF ConfigureControllers, TypeOK, Exchange
  <2>2. CASE ~ConfigureControllers
    BY Zenon, <2>2 DEF Next, MessageThread, OnRegistered, OnConfigChanged, UpdateConfigSettings,
        HandleSRM, Tick, vars
  <2> QED
    BY Zenon, <2>1, <2>2
<1> QED
  BY Zenon, <1>1, <1>2, <1>3, <1>4, <1>5, <1>6, <1>7, <1>8, <1>9, <1>10, <1>11
     DEF ExchangeThread

\* Every row that a step leaves overridden was overridden or being served.
LEMMA OverrideStep ==
  ASSUME TypeOK, TableOK(table), CoInv, [Next]_vars, NEW j \in Rows
  PROVE  \E i \in Rows : OverridesServed(table[i], table'[j])
<1>0. table \in [Rows -> Row]
  BY Zenon DEF TypeOK
<1>1. CASE ProcessPrsPackage
  <2>1. Head(srm.pkgs) \in Package /\ srm.pc = "packages" /\ ApplyPrsPackage(Head(srm.pkgs))
    BY <1>1 DEF ProcessPrsPackage, TypeOK, Message
  <2> QED
    BY Zenon, <2>1, PackageRows
<1>2. CASE ApplyCoStatusUpdates
  BY Zenon, <1>2, ReportRows
<1>3. CASE RunPrioritizationProcessing
  BY Zenon, <1>3, PrioritizedRows
<1>4. CASE BroadcastSSM
  <2>1. table' = [i \in Rows |-> Broadcast(table[i])]
    BY Zenon, <1>4 DEF BroadcastSSM
  <2> QED
    BY Zenon, <1>0, <2>1, BroadcastKeeps DEF OverridesServed
<1>5. CASE UNCHANGED table
  BY Zenon, <1>5 DEF OverridesServed
<1>6. \/ ProcessPrsPackage \/ ApplyCoStatusUpdates \/ RunPrioritizationProcessing
      \/ BroadcastSSM \/ UNCHANGED table
  BY Zenon DEF Next, MessageThread, ExchangeThread, OnRegistered, OnConfigChanged,
      UpdateConfigSettings, ConfigureControllers, HandleSRM, SelectController, EncodeRequest,
      SetRequest, GetResponse, SetPrioritized, Tick, vars
<1> QED
  BY Zenon, <1>1, <1>2, <1>3, <1>4, <1>5, <1>6

LEMMA ClosedStep ==
  ASSUME TypeOK, TableOK(table), CoInv, [Next]_vars
  PROVE  StaysClosed
<1> SUFFICES ASSUME NEW r \in Requests, StatusOf(r) \in ClosedByCo
             PROVE  StatusOf(r)' \in {StatusOf(r), IdleStatus}
  BY Zenon DEF StaysClosed, ClosedByCo
<1>1. StatusOf(r) = StatusIn(table, r) /\ StatusOf(r)' = StatusIn(table', r)
  BY DEF StatusOf, RowsOf, StatusIn, OfRequest
<1>2. TableOK(table') /\ StatusMoves(table, table')
  BY Zenon, TableStep
<1>3. \/ StatusIn(table', r) \in {StatusIn(table, r), IdleStatus}
      \/ StatusIn(table', r) = "activeOverride"
  <2>1. StatusIn(table, r) \in ClosedX
    BY Zenon, <1>1 DEF ClosedByCo
  <2>2. \/ StatusIn(table', r) = StatusIn(table, r)
        \/ Lifecycle!Edge(StatusIn(table, r), StatusIn(table', r))
    BY Zenon, <1>2 DEF StatusMoves
  <2> QED
    BY Zenon, <2>1, <2>2
       DEF Lifecycle!Edge, Lifecycle!Ready, Lifecycle!Closed, ClosedX, IdleStatus
<1>4. ASSUME StatusIn(table', r) = "activeOverride"  PROVE FALSE
  <2>1. PICK j \in Rows : OfRequest(table'[j], r)
    BY Zenon, <1>4, StatusOfNone DEF IdleStatus
  <2>2. table'[j].prs = "activeOverride"
    BY Zenon, <1>2, <1>4, <2>1, StatusOfRow
  <2>3. PICK i \in Rows : OverridesServed(table[i], table'[j])
    BY Zenon, OverrideStep
  <2>4. /\ table'[j].rid = table[i].rid /\ table'[j].veh = table[i].veh
        /\ table'[j].strategy = table[i].strategy
        /\ table[i].prs = "activeOverride" \/ table[i].co \in ActiveX
    BY Zenon, <2>2, <2>3 DEF OverridesServed
  <2>5. ~Idle(table[i])
    <3>1. RowOK(table[i])
      BY Zenon DEF TableOK
    <3> QED
      BY Zenon, <2>4, <3>1, BlankRowOK DEF RowOK, Idle, IdleStatus
  <2>6. OfRequest(table[i], r)
    BY Zenon, <2>1, <2>4, <2>5 DEF OfRequest
  <2>7. table[i].prs \in ClosedByCo
    BY Zenon, <1>1, <2>6, StatusOfRow
  <2>8. table[i].co \notin ActiveX /\ table[i].prs # "activeOverride"
    BY Zenon, <2>7 DEF CoInv, ClosedByCo, ClosedX
  <2> QED
    BY Zenon, <2>4, <2>8
<1> QED
  BY Zenon, <1>1, <1>3, <1>4

\* With one controller, a request its CO closed, or that was refused for its strategy, is
\* never served again: whatever SETs fail or are answered too late, the CO holds no request
\* as open that the table holds as closed when its statuses are applied.
THEOREM ClosedRequestsStayClosed ==
  ASSUME \A c, d \in Intersections : c = d
  PROVE  Spec => ClosedForGood
<1>1. Init => CoInv
  <2> SUFFICES ASSUME Init  PROVE CoInv
    BY Zenon
  <2>1. /\ DOMAIN coHolds = Intersections /\ ex.pc = "unregistered" /\ lastSent = <<>>
        /\ table = [i \in Rows |-> BlankRow]
    BY Zenon DEF Init, NoExchange
  <2> QED
    BY Zenon, <2>1, BlankRowOK DEF CoInv
<1>2. PrsInv /\ CoInv /\ [Next]_vars => CoInv'
  BY Zenon, InvIsTable, CoStep
<1>3. PrsInv /\ CoInv /\ [Next]_vars => [StaysClosed]_vars
  BY Zenon, InvIsTable, ClosedStep
<1> QED
  BY <1>1, <1>2, <1>3, PrsCorrect, PTL DEF Spec, ClosedForGood
=============================================================================
