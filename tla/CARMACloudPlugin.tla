-------------------------- MODULE CARMACloudPlugin --------------------------
(***************************************************************************)
(* CARMACloudPlugin: traffic control requests (TCR) of vehicles go to      *)
(* CARMA Cloud, the traffic control messages (TCM) it answers with are     *)
(* broadcast and repeated until a vehicle acknowledges them or a timeout   *)
(* passes.  Three threads: the plugin's message thread (TCRs and           *)
(* acknowledgements), the web service (TCMs) and the repeating thread.     *)
(* A TCM is a pair of request id and message number.                       *)
(***************************************************************************)
EXTENDS Integers, Sequences, SequencesExt, FiniteSets, Functions

CONSTANTS
  ReqIds,       \* request ids
  MsgNums,      \* message numbers
  RepeatTimes,  \* _TCMRepeatedlyBroadCastTotalTimes
  TimeOut,      \* _TCMRepeatedlyBroadcastTimeOut, in ticks
  MaxResponses  \* bound: TCM lists sent by the cloud

Tcms == ReqIds \X MsgNums
NotStarted == -1

VARIABLES
  asked,       \* request ids the cloud knows
  responses,   \* TCM lists received (bound)
  webTcms,     \* the web service: TCMs of the list left, and whether the first was broadcast
  notAcked,    \* _not_ACK_TCMs, as a sequence
  age,         \* time since _tcm_broadcast_starting_time[id], at most TimeOut + 1
  times,       \* _tcm_broadcast_times
  repeater,    \* the repeating thread: "sleep", "repeat" or "clear"
  heard        \* TCMs that were broadcast at least once

cloudVars == <<asked, responses, webTcms, notAcked, age, times, repeater, heard>>

CloudInit ==
  /\ asked = {} /\ responses = 0
  /\ webTcms = [sent |-> FALSE, left |-> <<>>]
  /\ notAcked = <<>>
  /\ age = [r \in ReqIds |-> NotStarted]
  /\ times = [t \in Tcms |-> 0]
  /\ repeater = "sleep"
  /\ heard = {}

Pending(t) == t \in Range(notAcked)

\* HandleCARMARequest: POST to the cloud; a failure is only logged.
HandleCARMARequest(r) ==
  /\ asked' \in {asked, asked \cup {r}}
  /\ UNCHANGED <<responses, webTcms, notAcked, age, times, repeater, heard>>

----------------------------------------------------------------------------
(* The web service: CARMAResponseHandler *)

\* A TCM list of the cloud (FilterTCMs splits it).
ReceiveTcms(r, tcms) ==
  /\ webTcms.left = <<>> /\ r \in asked /\ responses < MaxResponses
  /\ webTcms' = [sent |-> FALSE, left |-> tcms]
  /\ responses' = responses + 1
  /\ UNCHANGED <<asked, notAcked, age, times, repeater, heard>>

\* The next TCM is broadcast first ...
BroadcastFirst ==
  /\ webTcms.left # <<>> /\ ~webTcms.sent
  /\ heard' = heard \cup {Head(webTcms.left)}
  /\ webTcms' = [webTcms EXCEPT !.sent = TRUE]
  /\ UNCHANGED <<asked, responses, notAcked, age, times, repeater>>

\* ... and then stored, under the lock.
InsertTcm ==
  /\ webTcms.sent
  /\ notAcked' = Append(notAcked, Head(webTcms.left))
  /\ webTcms' = [sent |-> FALSE, left |-> Tail(webTcms.left)]
  /\ UNCHANGED <<asked, responses, age, times, repeater, heard>>

----------------------------------------------------------------------------
\* HandleMobilityOperationMessage: an acknowledgement of a TCM removes one copy of it.
\* A negative one is also sent to the cloud.
HandleAcknowledgement(t) ==
  /\ t \in heard
  /\ IF Pending(t)
     THEN notAcked' = RemoveFirst(notAcked, t)
     ELSE UNCHANGED notAcked
  /\ UNCHANGED <<asked, responses, webTcms, age, times, repeater, heard>>

----------------------------------------------------------------------------
(* The repeating thread: TCMAckCheckAndRebroadcastTCM *)

\* It wakes up and looks at the size of the map without the lock.
WakeUp ==
  /\ repeater = "sleep"
  /\ repeater' = IF notAcked # <<>> THEN "repeat" ELSE "clear"
  /\ UNCHANGED <<asked, responses, webTcms, notAcked, age, times, heard>>

\* Mutant: the timeout is looked at only for TCMs that are still being repeated.
ExpiredIfRepeated(r) == age[r] > TimeOut /\ \E m \in MsgNums : times[<<r, m>>] < RepeatTimes

Expired(r) == age[r] > TimeOut

\* IsSkipBroadcastCurTCM over the n copies of a TCM: how many are broadcast.
Rebroadcasts(t, n) ==
  IF times[t] >= RepeatTimes THEN 0
  ELSE IF times[t] + n <= RepeatTimes THEN n ELSE RepeatTimes - times[t]

Copies(t) == Cardinality({i \in DOMAIN notAcked : notAcked[i] = t})

\* One pass under the lock: start the clock of new ids, repeat what may be repeated,
\* then report and drop the expired ids.
Repeat ==
  LET expired == {r \in ReqIds : Expired(r) /\ \E m \in MsgNums : Pending(<<r, m>>)}
      sent(t) == IF Pending(t) /\ t[1] \notin expired THEN Rebroadcasts(t, Copies(t)) ELSE 0
  IN /\ repeater = "repeat"
     /\ age' = [r \in ReqIds |->
                  IF r \in expired THEN NotStarted
                  ELSE IF age[r] = NotStarted /\ \E m \in MsgNums : Pending(<<r, m>>) THEN 0
                  ELSE age[r]]
     /\ times' = [t \in Tcms |-> IF t[1] \in expired THEN 0 ELSE times[t] + sent(t)]
     /\ notAcked' = SelectSeq(notAcked, LAMBDA t : t[1] \notin expired)
     /\ repeater' = "sleep"
     /\ UNCHANGED <<asked, responses, webTcms, heard>>

\* Nothing was stored when it looked: forget all counts and times, without the lock.
ClearTracking ==
  /\ repeater = "clear"
  /\ age' = [r \in ReqIds |-> NotStarted]
  /\ times' = [t \in Tcms |-> 0]
  /\ repeater' = "sleep"
  /\ UNCHANGED <<asked, responses, webTcms, notAcked, heard>>

Later(n) == IF n \in 0..TimeOut THEN n + 1 ELSE n

CloudTick ==
  /\ age' = [r \in ReqIds |-> Later(age[r])]
  /\ UNCHANGED <<asked, responses, webTcms, notAcked, times, repeater, heard>>

WebStep == BroadcastFirst \/ InsertTcm
RepeaterStep == WakeUp \/ Repeat \/ ClearTracking

CloudNext ==
  \/ \E r \in ReqIds : HandleCARMARequest(r)
  \/ \E r \in ReqIds : \E tcms \in SeqOf({r} \X MsgNums, 2) \ {<<>>} : ReceiveTcms(r, tcms)
  \/ WebStep
  \/ \E t \in Tcms : HandleAcknowledgement(t)
  \/ RepeaterStep
  \/ CloudTick

----------------------------------------------------------------------------

\* Every TCM the cloud sends is acknowledged by a vehicle or reported to the cloud as
\* not acknowledged: none stays in the map for ever.
TcmAnswered == \A t \in Tcms : Pending(t) ~> ~Pending(t)
=============================================================================
