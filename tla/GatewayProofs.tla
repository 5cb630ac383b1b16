--------------------------- MODULE GatewayProofs ---------------------------
(***************************************************************************)
(* What passes between the hub and the outside, for any sessions, plugins, *)
(* files, topics and intersections: the portals of the command plugin show *)
(* the current telemetry, skip no event and use no buffer of a closed      *)
(* session; each Kafka topic gets its records in order; intersection       *)
(* validation flags no publisher that keeps to the rule.                   *)
(***************************************************************************)
EXTENDS CommandTelemetry, CommandEvents, CommandUploads, StreetsProducer, RevisionValidation,
        TLAPS

----------------------------------------------------------------------------
(* Uploads *)

\* The inductive invariant: types, and what is shown.
UploadsInv ==
  /\ level \in [UploadSessions -> Closed..SystemAdministrator]
  /\ uploads \in [UploadFiles -> [request : Nat, buffer : UploadSessions \cup {NoBuffer},
                                  uploading : BOOLEAN]]
  /\ requested \in Nat
  /\ NoDanglingBuffer

LEMMA UploadsInitial == UploadsInit => UploadsInv
BY DEF UploadsInit, UploadsInv, NoDanglingBuffer, NoUpload, Closed, SystemAdministrator

\* A session opens, logs in or out: it is open afterwards.
LEMMA SessionOpens ==
  ASSUME UploadsInv, NEW s \in UploadSessions,
         \/ Established(s) \/ Logout(s)
         \/ \E l \in ReadOnly..SystemAdministrator : Login(s, l)
  PROVE  UploadsInv'
<1>1. UNCHANGED <<uploads, requested>>
  BY Zenon DEF Established, Login, Logout
<1>2. PICK l \in NotAuthorized..SystemAdministrator : level' = [level EXCEPT ![s] = l]
  BY DEF Established, Login, Logout, ReadOnly, NotAuthorized, SystemAdministrator
<1>3. l # Closed /\ l \in Closed..SystemAdministrator
  BY <1>2 DEF Closed, NotAuthorized, SystemAdministrator
<1> QED
  BY Zenon, <1>1, <1>2, <1>3, NoBufferAssumption DEF UploadsInv, NoDanglingBuffer

\* A session closes: nothing points to its buffer afterwards.
LEMMA SessionCloses ==
  ASSUME UploadsInv, NEW s \in UploadSessions, ClosedSession(s)
  PROVE  UploadsInv'
<1> DEFINE Upload == [request : Nat, buffer : UploadSessions \cup {NoBuffer}, uploading : BOOLEAN]
<1>1. \A f \in UploadFiles : /\ uploads'[f] \in Upload
                             /\ uploads'[f].buffer \in {NoBuffer, uploads[f].buffer} \ {s}
  BY Zenon, NoBufferAssumption DEF ClosedSession, AfterClose, NoUpload, Present, UploadsInv
<1>2. uploads' \in [UploadFiles -> Upload] /\ requested' = requested
  BY Zenon, <1>1 DEF ClosedSession
<1>3. level' = [level EXCEPT ![s] = Closed] /\ Closed \in Closed..SystemAdministrator
  BY DEF ClosedSession, Closed, SystemAdministrator
<1> QED
  BY Zenon, <1>1, <1>2, <1>3 DEF UploadsInv, NoDanglingBuffer

\* A file is announced, for the buffer of a session with a level.
LEMMA FileAnnounced ==
  ASSUME UploadsInv, NEW s \in UploadSessions, NEW f \in UploadFiles, UploadFile(s, f)
  PROVE  UploadsInv'
<1>1. /\ level' = level /\ requested' \in Nat /\ level[s] # Closed
      /\ \A g \in UploadFiles :
           uploads'[g] \in {[request |-> requested', buffer |-> s, uploading |-> FALSE],
                            NoUpload, uploads[g]}
  BY DEF UploadFile, UploadsInv, Closed, SystemAdministrator
<1>2. uploads' \in [UploadFiles -> [request : Nat, buffer : UploadSessions \cup {NoBuffer},
                                    uploading : BOOLEAN]]
  BY Zenon, <1>1 DEF UploadFile, UploadsInv, NoUpload
<1> QED
  BY <1>1, <1>2 DEF UploadsInv, NoDanglingBuffer, NoUpload

\* The transfers only drop requests, or mark them as uploading.
LEMMA TransferKeeps ==
  ASSUME UploadsInv, NEW h \in Transfers, TransferStep(h)
  PROVE  UploadsInv'
<1>1. level' = level /\ requested' = requested
  BY Zenon DEF TransferStep, Open, Content, FinalContent, Drop
<1>2. \/ uploads' = uploads
      \/ \E f : uploads' = [uploads EXCEPT ![f] = NoUpload]
      \/ \E f \in UploadFiles : uploads' = [uploads EXCEPT ![f].uploading = TRUE]
  BY Zenon DEF TransferStep, Open, Content, FinalContent, Drop, DropProtocol
<1>3. ASSUME NEW g \in UploadFiles
      PROVE  /\ uploads'[g] \in [request : Nat, buffer : UploadSessions \cup {NoBuffer},
                                  uploading : BOOLEAN]
             /\ uploads'[g].buffer \in {NoBuffer, uploads[g].buffer}
  <2>1. uploads[g] \in [request : Nat, buffer : UploadSessions \cup {NoBuffer},
                        uploading : BOOLEAN]
    BY Zenon DEF UploadsInv
  <2>2. uploads'[g] \in {uploads[g], NoUpload, [uploads[g] EXCEPT !.uploading = TRUE]}
    BY Zenon, <1>2 DEF UploadsInv
  <2>3. CASE uploads'[g] = [uploads[g] EXCEPT !.uploading = TRUE]
    BY Zenon, <2>1, <2>3
  <2>4. CASE uploads'[g] = NoUpload
    BY <2>4 DEF NoUpload
  <2> QED
    BY Zenon, <2>1, <2>2, <2>3, <2>4
<1>4. uploads' = [g \in UploadFiles |-> uploads'[g]]
  BY Zenon, <1>2 DEF UploadsInv
<1> QED
  BY Zenon, <1>1, <1>3, <1>4 DEF UploadsInv, NoDanglingBuffer

LEMMA UploadsStep ==
  ASSUME UploadsInv, [UploadsNext]_uploadVars
  PROVE  UploadsInv'
<1>1. CASE UNCHANGED uploadVars
  BY Zenon, <1>1 DEF uploadVars, UploadsInv, NoDanglingBuffer
<1> QED
  BY Zenon, <1>1, SessionOpens, SessionCloses, FileAnnounced, TransferKeeps
     DEF UploadsNext, SessionStep

\* FileUploadCB and the drop callback write only to the buffers of open sessions: CLOSED
\* takes a freed buffer out of every request, whatever is on its way.
THEOREM BuffersAreLive == UploadsSpec => []NoDanglingBuffer
<1>1. UploadsInv /\ [UploadsNext]_uploadVars => UploadsInv'
  BY Zenon, UploadsStep
<1>2. UploadsInv => NoDanglingBuffer
  BY Zenon DEF UploadsInv
<1> QED
  BY <1>1, <1>2, UploadsInitial, PTL DEF UploadsSpec

----------------------------------------------------------------------------
(* Telemetry *)

Telemetry == [Names -> Data \cup {Absent}]

TeleTypeOK ==
  /\ db \in Telemetry /\ pluginsJSON \in Telemetry
  /\ updatesJSON \in SUBSET Names /\ removeJSON \in SUBSET Names
  /\ haveData \in BOOLEAN /\ lastUpdate \in Nat /\ cycles \in Nat /\ losses \in Nat
  /\ portal \in [Portals -> {"closed", "open", "authorized"}]
  /\ sendFull \in [Portals -> BOOLEAN] /\ behind \in [Portals -> BOOLEAN]
  /\ lastSend \in [Portals -> Nat]
  /\ view \in [Portals -> Telemetry]

\* A session that got its full telemetry and every change since.
Following(s) == portal[s] = "authorized" /\ ~sendFull[s] /\ ~behind[s]

\* It shows the current data, or will with the changes of the last cycle, which it has
\* not been sent yet.  A session that is not logged in waits for its full telemetry.
PortalInv(s) ==
  /\ portal[s] = "open" => sendFull[s]
  /\ Following(s) =>
       /\ lastSend[s] <= lastUpdate
       /\ lastSend[s] < lastUpdate /\ haveData => Merged(view[s]) = pluginsJSON
       /\ lastSend[s] = lastUpdate \/ ~haveData => view[s] = pluginsJSON

\* The inductive invariant: the cycles are ahead of every session.
TeleInv ==
  /\ TeleTypeOK
  /\ lastUpdate <= cycles
  /\ \A s \in Portals : PortalInv(s)

LEMMA TeleInitial == TeleInit => TeleInv
<1> SUFFICES ASSUME TeleInit
             PROVE  TeleInv
  BY Zenon
<1>1. NoTelemetry \in Telemetry
  BY Zenon DEF NoTelemetry, Telemetry
<1>2. TeleTypeOK
  BY Zenon, <1>1 DEF TeleInit, TeleTypeOK, Telemetry
<1>3. \A s \in Portals : PortalInv(s)
  BY Zenon DEF TeleInit, PortalInv, Following
<1> QED
  BY <1>2, <1>3 DEF TeleInit, TeleInv

\* The changes of a cycle lead from the data of the cycle before to its own.
LEMMA ChangesLead ==
  ASSUME TeleTypeOK, TelemetryRead, NEW v \in Telemetry, v = pluginsJSON
  PROVE  Merged(v)' = pluginsJSON'
<1>1. /\ updatesJSON' = {p \in Names : db[p] # Absent /\ db[p] # pluginsJSON[p]}
      /\ removeJSON' = {p \in Names : db[p] = Absent /\ pluginsJSON[p] # Absent}
      /\ pluginsJSON' = db
  BY Zenon DEF TelemetryRead
<1>2. Merged(v)' = [p \in Names |-> IF p \in updatesJSON' THEN pluginsJSON'[p]
                                    ELSE IF p \in removeJSON' THEN Absent ELSE v[p]]
  BY Zenon DEF Merged
<1>3. db \in Telemetry /\ pluginsJSON \in Telemetry
  BY Zenon DEF TeleTypeOK
<1>4. \A p \in Names : Merged(v)'[p] = db[p]
  BY Zenon, <1>1, <1>2
<1> QED
  BY Zenon, <1>1, <1>2, <1>3, <1>4 DEF Telemetry

\* A cycle: a session that follows has the data before it, one that has not is behind.
LEMMA CycleStep ==
  ASSUME TeleInv, GetTelemetry
  PROVE  TeleInv'
<1>1. /\ cycles' = cycles + 1 /\ lastUpdate' = cycles' /\ cycles \in Nat /\ lastUpdate \in Nat
      /\ lastUpdate <= cycles
  BY Zenon DEF GetTelemetry, TeleInv, TeleTypeOK
<1>2. UNCHANGED <<portal, sendFull, lastSend, view, db>>
  BY Zenon DEF GetTelemetry, SessionsUnchanged
<1>3. behind' = [s \in Portals |-> behind[s] \/ /\ portal[s] = "authorized"
                                                /\ ~sendFull[s] /\ lastSend[s] < lastUpdate]
  BY Zenon DEF GetTelemetry
<1>4. TeleTypeOK'
  <2>1. /\ pluginsJSON' \in Telemetry /\ updatesJSON' \in SUBSET Names
        /\ removeJSON' \in SUBSET Names /\ haveData' \in BOOLEAN /\ losses' \in Nat
    <3>1. CASE TelemetryRead /\ UNCHANGED losses
      BY SMTT(30), <3>1 DEF TelemetryRead, TeleInv, TeleTypeOK
    <3>2. CASE /\ losses' = losses + 1 /\ haveData' = FALSE
               /\ UNCHANGED <<pluginsJSON, updatesJSON, removeJSON>>
      <4>1. losses' \in Nat
        BY <3>2 DEF TeleInv, TeleTypeOK
      <4> QED
        BY Zenon, <3>2, <4>1 DEF TeleInv, TeleTypeOK
    <3> QED
      BY Zenon, <3>1, <3>2 DEF GetTelemetry
  <2>2. behind' \in [Portals -> BOOLEAN]
    BY Zenon, <1>3
  <2> QED
    BY <1>1, <1>2, <2>1, <2>2 DEF TeleInv, TeleTypeOK
<1>5. (\A s \in Portals : PortalInv(s))'
  <2> SUFFICES ASSUME NEW s \in Portals
               PROVE  PortalInv(s)'
    BY Zenon
  <2>1. PortalInv(s) /\ lastSend[s] \in Nat /\ view[s] \in Telemetry
    BY Zenon DEF TeleInv, TeleTypeOK
  <2>2. Following(s)' => Following(s) /\ ~(lastSend[s] < lastUpdate)
    BY Zenon, <1>2, <1>3 DEF Following
  <2>3. Following(s)' => lastSend[s] = lastUpdate /\ view[s] = pluginsJSON
    BY <1>1, <2>1, <2>2 DEF PortalInv
  <2>4. Following(s)' => lastSend'[s] < lastUpdate'
    BY <1>1, <1>2, <2>3
  <2>5. Following(s)' /\ haveData' => Merged(view[s])' = pluginsJSON'
    <3>1. haveData' => TelemetryRead
      BY Zenon DEF GetTelemetry
    <3>2. ASSUME NEW v \in Telemetry, v = pluginsJSON, TelemetryRead
          PROVE  Merged(v)' = pluginsJSON'
      BY Zenon, <3>2, ChangesLead DEF TeleInv
    <3> QED
      BY Zenon, <1>2, <2>1, <2>3, <3>1, <3>2 DEF Merged
  <2>6. Following(s)' /\ ~haveData' => view'[s] = pluginsJSON'
    BY Zenon, <1>2, <2>3 DEF GetTelemetry, TelemetryRead
  <2> QED
    BY <1>1, <1>2, <2>1, <2>4, <2>5, <2>6 DEF PortalInv
<1> QED
  BY <1>1, <1>4, <1>5 DEF TeleInv

\* The sessions a callback of session s does not touch are as they were.
LEMMA OtherPortals ==
  ASSUME TeleInv, NEW s \in Portals, NEW t \in Portals, t # s,
         CacheUnchanged,
         /\ portal'[t] = portal[t] /\ sendFull'[t] = sendFull[t] /\ lastSend'[t] = lastSend[t]
         /\ view'[t] = view[t] /\ behind'[t] = behind[t]
  PROVE  PortalInv(t)'
<1>1. PortalInv(t)
  BY Zenon DEF TeleInv
<1> QED
  BY Zenon, <1>1 DEF CacheUnchanged, PortalInv, Following, Merged

LEMMA ClosedStep ==
  ASSUME TeleInv, NEW s \in Portals, PortalClosed(s)
  PROVE  TeleInv'
<1>1. /\ portal' = [portal EXCEPT ![s] = "closed"] /\ portal[s] # "closed"
      /\ UNCHANGED <<sendFull, lastSend, view, behind, db, losses, cycles>>
  BY Zenon DEF PortalClosed, CacheUnchanged
<1>2. NoTelemetry \in Telemetry
  BY Zenon DEF NoTelemetry, Telemetry
<1>3. CASE Connected = {s}
  <2>1. /\ pluginsJSON' = NoTelemetry /\ updatesJSON' = {} /\ removeJSON' = {}
        /\ haveData' = FALSE /\ lastUpdate' = 0
    BY Zenon, <1>3 DEF PortalClosed
  <2>2. TeleTypeOK'
    BY Zenon, <1>1, <1>2, <2>1 DEF TeleInv, TeleTypeOK
  <2>3. \A t \in Portals : portal'[t] = "closed"
    BY Zenon, <1>1, <1>3 DEF Connected, TeleInv, TeleTypeOK
  <2>4. (\A t \in Portals : PortalInv(t))'
    BY Zenon, <2>3 DEF PortalInv, Following
  <2> QED
    BY <1>1, <2>1, <2>2, <2>4 DEF TeleInv, TeleTypeOK
<1>4. CASE Connected # {s}
  <2>1. CacheUnchanged
    BY Zenon, <1>4 DEF PortalClosed
  <2>2. TeleTypeOK'
    BY Zenon, <1>1, <2>1 DEF TeleInv, TeleTypeOK, CacheUnchanged
  <2>3. portal'[s] = "closed" /\ \A t \in Portals \ {s} : portal'[t] = portal[t]
    BY Zenon, <1>1 DEF TeleInv, TeleTypeOK
  <2>4. PortalInv(s)'
    BY Zenon, <2>3 DEF PortalInv, Following
  <2>5. (\A t \in Portals : PortalInv(t))'
    BY Zenon, <1>1, <2>1, <2>3, <2>4, OtherPortals
  <2> QED
    BY Zenon, <2>1, <2>2, <2>5 DEF TeleInv, CacheUnchanged
<1> QED
  BY Zenon, <1>3, <1>4

\* A session opens, logs in or logs out: what it shows is not looked at until it got its
\* full telemetry.
LEMMA SessionStepKeeps ==
  ASSUME TeleInv, NEW s \in Portals, PortalEstablished(s) \/ PortalLogin(s) \/ PortalLogout(s)
  PROVE  TeleInv'
<1>1. CacheUnchanged /\ UNCHANGED <<db, losses>>
  BY Zenon DEF PortalEstablished, PortalLogin, PortalLogout
<1>2. TeleTypeOK'
  <2>1. NoTelemetry \in Telemetry
    BY Zenon DEF NoTelemetry, Telemetry
  <2>2. /\ portal' \in [Portals -> {"closed", "open", "authorized"}]
        /\ lastSend' \in [Portals -> Nat] /\ view' \in [Portals -> Telemetry]
    BY <2>1 DEF PortalEstablished, PortalLogin, PortalLogout, TeleInv, TeleTypeOK
  <2>3. sendFull' \in [Portals -> BOOLEAN] /\ behind' \in [Portals -> BOOLEAN]
    BY Zenon DEF PortalEstablished, PortalLogin, PortalLogout, TeleInv, TeleTypeOK
  <2> QED
    BY Zenon, <1>1, <2>2, <2>3 DEF CacheUnchanged, TeleInv, TeleTypeOK
<1>3. \A t \in Portals \ {s} :
        /\ portal'[t] = portal[t] /\ sendFull'[t] = sendFull[t] /\ lastSend'[t] = lastSend[t]
        /\ view'[t] = view[t] /\ behind'[t] = behind[t]
  BY Zenon DEF PortalEstablished, PortalLogin, PortalLogout, TeleInv, TeleTypeOK
<1>4. PortalInv(s)'
  <2>1. sendFull'[s]
    BY Zenon DEF PortalEstablished, PortalLogin, PortalLogout, TeleInv, TeleTypeOK, PortalInv
  <2> QED
    BY Zenon, <2>1 DEF PortalInv, Following
<1> QED
  BY Zenon, <1>1, <1>2, <1>3, <1>4, OtherPortals DEF TeleInv, CacheUnchanged

\* The telemetry sent brings the session up to date, or the session is behind.
LEMMA WritableStep ==
  ASSUME TeleInv, NEW s \in Portals, Writable(s)
  PROVE  TeleInv'
<1>1. CacheUnchanged /\ UNCHANGED <<portal, db>>
  BY Zenon DEF Writable
<1>2. PICK shows : /\ \/ view' = [view EXCEPT ![s] = shows] /\ losses' = losses
                      \/ view' = view /\ losses' = losses
                      \/ view' = view /\ losses' = losses + 1
                   /\ shows \in Telemetry
  <2>1. pluginsJSON \in Telemetry /\ view[s] \in Telemetry
    BY Zenon DEF TeleInv, TeleTypeOK
  <2>2. Merged(view[s]) \in Telemetry
    BY Zenon, <2>1 DEF Merged, Telemetry
  <2> QED
    BY Zenon, <2>1, <2>2 DEF Writable, BuildFullTelemetry, BuildUpdateTelemetry, Written
<1>3. /\ lastSend' = [lastSend EXCEPT ![s] = lastUpdate]
      /\ sendFull' = [sendFull EXCEPT ![s] = FALSE] \/ sendFull' = sendFull
      /\ \E b \in BOOLEAN : behind' = [behind EXCEPT ![s] = b]
  <2>1. ASSUME BuildFullTelemetry(s)
        PROVE  \E b \in BOOLEAN : behind' = [behind EXCEPT ![s] = b]
    <3>1. (~haveData \/ losses' > losses) \in BOOLEAN
      BY Zenon
    <3> QED
      BY Zenon, <2>1, <3>1 DEF BuildFullTelemetry
  <2>2. ASSUME BuildUpdateTelemetry(s)
        PROVE  \E b \in BOOLEAN : behind' = [behind EXCEPT ![s] = b]
    <3>1. (behind[s] \/ losses' > losses) \in BOOLEAN
      BY Zenon
    <3> QED
      BY Zenon, <2>2, <3>1 DEF BuildUpdateTelemetry
  <2> QED
    BY Zenon, <2>1, <2>2 DEF Writable, BuildFullTelemetry, BuildUpdateTelemetry
<1>4. TeleTypeOK'
  <2>1. losses' \in Nat /\ view' \in [Portals -> Telemetry]
    BY <1>2 DEF TeleInv, TeleTypeOK
  <2>2. lastSend' \in [Portals -> Nat]
    BY Zenon, <1>3 DEF TeleInv, TeleTypeOK
  <2>3. sendFull' \in [Portals -> BOOLEAN] /\ behind' \in [Portals -> BOOLEAN]
    BY Zenon, <1>3 DEF TeleInv, TeleTypeOK
  <2> QED
    BY Zenon, <1>1, <2>1, <2>2, <2>3 DEF CacheUnchanged, TeleInv, TeleTypeOK
<1>5. \A t \in Portals \ {s} :
        /\ portal'[t] = portal[t] /\ sendFull'[t] = sendFull[t] /\ lastSend'[t] = lastSend[t]
        /\ view'[t] = view[t] /\ behind'[t] = behind[t]
  BY Zenon, <1>1, <1>2, <1>3 DEF TeleInv, TeleTypeOK
<1>6. PortalInv(s)'
  <2>1. /\ lastSend'[s] = lastUpdate' /\ lastUpdate' = lastUpdate /\ lastUpdate \in Nat
        /\ portal'[s] = "authorized" /\ pluginsJSON' = pluginsJSON /\ losses \in Nat
    BY Zenon, <1>1, <1>3 DEF Writable, CacheUnchanged, TeleInv, TeleTypeOK
  <2>2. ASSUME ~behind'[s]  PROVE view'[s] = pluginsJSON
    <3>1. CASE BuildFullTelemetry(s)
      <4>1. ~(~haveData \/ losses' > losses)
        BY Zenon, <2>2, <3>1 DEF BuildFullTelemetry, TeleInv, TeleTypeOK
      <4>2. Written(s, pluginsJSON) /\ ~(losses' > losses)
        BY Zenon, <3>1, <4>1 DEF BuildFullTelemetry
      <4>3. view' = [view EXCEPT ![s] = pluginsJSON]
        BY <2>1, <4>2 DEF Written
      <4> QED
        BY Zenon, <4>3 DEF TeleInv, TeleTypeOK
    <3>2. CASE BuildUpdateTelemetry(s)
      <4>1. ~behind[s] /\ ~(losses' > losses)
        BY Zenon, <2>2, <3>2 DEF BuildUpdateTelemetry, TeleInv, TeleTypeOK
      <4>2. Following(s) /\ lastSend[s] < lastUpdate /\ PortalInv(s)
        BY Zenon, <3>2, <4>1 DEF Following, BuildUpdateTelemetry, Writable, TeleInv
      <4>3. CASE haveData
        <5>1. Written(s, Merged(view[s])) /\ Merged(view[s]) = pluginsJSON
          BY Zenon, <3>2, <4>2, <4>3 DEF BuildUpdateTelemetry, PortalInv
        <5>2. view' = [view EXCEPT ![s] = pluginsJSON]
          BY <2>1, <4>1, <5>1 DEF Written
        <5> QED
          BY <5>2 DEF TeleInv, TeleTypeOK
      <4>4. CASE ~haveData
        BY Zenon, <3>2, <4>2, <4>4 DEF BuildUpdateTelemetry, PortalInv
      <4> QED
        BY Zenon, <4>3, <4>4
    <3> QED
      BY Zenon, <3>1, <3>2 DEF Writable
  <2> QED
    BY <2>1, <2>2 DEF PortalInv, Following
<1> QED
  BY Zenon, <1>1, <1>4, <1>5, <1>6, OtherPortals DEF TeleInv, CacheUnchanged

LEMMA TeleStep ==
  ASSUME TeleInv, [TeleNext]_teleVars
  PROVE  TeleInv'
<1>1. CASE UNCHANGED teleVars
  BY Zenon, <1>1 DEF teleVars, TeleInv, TeleTypeOK, PortalInv, Following, Merged
<1>2. CASE DbChange
  <2>1. db' \in Telemetry
    BY Zenon, <1>2 DEF DbChange, TeleInv, TeleTypeOK, Telemetry
  <2>2. CacheUnchanged /\ SessionsUnchanged /\ UNCHANGED <<behind, losses>>
    BY Zenon, <1>2 DEF DbChange
  <2> QED
    BY Zenon, <2>1, <2>2 DEF CacheUnchanged, SessionsUnchanged, TeleInv, TeleTypeOK, PortalInv,
                      Following, Merged
<1> QED
  BY Zenon, <1>1, <1>2, CycleStep, ClosedStep, SessionStepKeeps, WritableStep DEF TeleNext

\* A portal that was sent every cycle's changes since its full telemetry shows what the
\* plugin read last, for any number of portals, plugins and cycles, failed queries and
\* choked sockets.
THEOREM PortalsShowCurrentData == TeleSpec => []ViewCurrent
<1>1. TeleInv /\ [TeleNext]_teleVars => TeleInv'
  BY TeleStep
<1>2. TeleInv => ViewCurrent
  BY Zenon DEF TeleInv, PortalInv, Following, ViewCurrent
<1> QED
  BY <1>1, <1>2, TeleInitial, PTL DEF TeleSpec

----------------------------------------------------------------------------
(* Events *)

\* Some position is the first of the events newer than the last time read.
NewerLast ==
  \E i \in 1 .. Len(eventLog) + 1 :
    \A j \in DOMAIN eventLog : eventLog[j][1] > lastEventTime <=> j >= i

\* The inductive invariant: the log is in order of time, and neither it nor the last
\* time read is ahead of the clock.
EventsInv ==
  /\ eventLog \in Seq(Nat \X Nat)
  /\ second \in Nat /\ lastEventTime \in Nat /\ logged \in Nat
  /\ lastEventTime <= second
  /\ \A i \in DOMAIN eventLog : 0 < eventLog[i][1] /\ eventLog[i][1] <= second
  /\ \A i, j \in DOMAIN eventLog : i <= j => eventLog[i][1] <= eventLog[j][1]
  /\ 0 < second
  /\ NewerLast
  /\ NoneSkipped

\* The newer events are exactly those from FirstSince on.
LEMMA NewerAreLast ==
  ASSUME EventsInv
  PROVE  /\ FirstSince \in 1 .. Len(eventLog) + 1
         /\ \A j \in DOMAIN eventLog : eventLog[j][1] > lastEventTime <=> j >= FirstSince
BY Zenon DEF EventsInv, NewerLast, FirstSince

\* What a query returns: the events from some position on, all newer ones among them.
LEMMA EventsOfQuery ==
  ASSUME EventsInv
  PROVE  \E i \in 1 .. Len(eventLog) + 1 :
           /\ Events = SubSeq(eventLog, i, Len(eventLog))
           /\ lastEventTime # 0 => \A j \in DOMAIN eventLog : eventLog[j][1] > lastEventTime => j >= i
<1>1. FirstOfLatest \in 1 .. Len(eventLog) + 1
  <2>1. Len(eventLog) \in Nat
    BY DEF EventsInv
  <2> QED
    BY <2>1, EventRowLimitAssumption DEF FirstOfLatest
<1> QED
  BY Zenon, <1>1, NewerAreLast DEF Events, EventsSince, LatestEvents

LEMMA QueryStep ==
  ASSUME EventsInv, GetEventTelemetry
  PROVE  EventsInv'
<1>1. PICK i \in 1 .. Len(eventLog) + 1 :
        /\ Events = SubSeq(eventLog, i, Len(eventLog))
        /\ lastEventTime # 0 => \A j \in DOMAIN eventLog : eventLog[j][1] > lastEventTime => j >= i
  BY Zenon, EventsOfQuery
<1>2. /\ UNCHANGED <<eventLog, second, logged>>
      /\ read' = read \cup Range(Events)
      /\ excused' = IF lastEventTime = 0 THEN Range(eventLog) \ Range(Events) ELSE excused
      /\ lastEventTime' = IF Events = <<>> THEN lastEventTime ELSE Events[Len(Events)][1]
  BY Zenon DEF GetEventTelemetry
<1>3. /\ Len(eventLog) \in Nat /\ DOMAIN eventLog = 1 .. Len(eventLog)
      /\ \A j \in DOMAIN eventLog : eventLog[j][1] \in Nat /\ eventLog[j][1] <= second
      /\ lastEventTime \in Nat
  BY DEF EventsInv
<1>4. /\ DOMAIN Events = 1 .. (Len(eventLog) - i + 1)
      /\ Len(Events) = Len(eventLog) - i + 1
      /\ \A k \in 1 .. (Len(eventLog) - i + 1) : Events[k] = eventLog[i + k - 1]
  BY SMTT(30), <1>1, <1>3 DEF EventsInv
<1>5. \A j \in DOMAIN eventLog : j >= i => eventLog[j] \in Range(Events)
  <2> SUFFICES ASSUME NEW j \in DOMAIN eventLog, j >= i
               PROVE  eventLog[j] \in Range(Events)
    BY Zenon
  <2> DEFINE k == j - i + 1
  <2>1. k \in 1 .. (Len(eventLog) - i + 1) /\ i + k - 1 = j
    BY <1>3
  <2>2. k \in DOMAIN Events /\ Events[k] = eventLog[j]
    BY ONLY <1>4, <2>1
  <2> QED
    BY Zenon, <2>2 DEF Range
<1>6. \A j \in DOMAIN eventLog :
        eventLog[j][1] <= lastEventTime => eventLog[j] \in read' \cup excused'
  <2> SUFFICES ASSUME NEW j \in DOMAIN eventLog, eventLog[j][1] <= lastEventTime
               PROVE  eventLog[j] \in read' \cup excused'
    BY Zenon
  <2>1. eventLog[j] \in Range(eventLog)
    BY Zenon DEF Range
  <2>2. eventLog[j] \in read \cup excused
    BY Zenon, <2>1 DEF EventsInv, NoneSkipped
  <2>3. lastEventTime # 0
    BY SMTT(30) DEF EventsInv
  <2> QED
    BY Zenon, <1>2, <2>2, <2>3
<1>7. CASE Events = <<>>
  <2>1. lastEventTime' = lastEventTime
    BY Zenon, <1>2, <1>7
  <2>2. NoneSkipped'
    BY Zenon, <1>2, <1>6, <2>1 DEF NoneSkipped, Range
  <2>3. NewerLast'
    BY Zenon, <1>2, <2>1 DEF EventsInv, NewerLast
  <2> QED
    BY Zenon, <1>2, <2>1, <2>2, <2>3 DEF EventsInv
<1>8. CASE Events # <<>>
  <2>1. i <= Len(eventLog)
    BY SMTT(30), <1>1, <1>3, <1>8
  <2>2. eventLog[Len(eventLog)] \in Range(Events) /\ Len(eventLog) \in DOMAIN eventLog
    BY <1>3, <1>5, <2>1
  <2>3. Events[Len(Events)] = eventLog[Len(eventLog)]
    <3> DEFINE k == Len(eventLog) - i + 1
    <3>1. k \in 1 .. (Len(eventLog) - i + 1) /\ i + k - 1 = Len(eventLog)
      BY <1>3, <2>1
    <3> QED
      BY ONLY <1>4, <3>1
  <2>4. lastEventTime' = eventLog[Len(eventLog)][1]
    BY Zenon, <1>2, <1>8, <2>3
  <2>5. lastEventTime' \in Nat /\ lastEventTime' <= second
    BY Zenon, <1>3, <2>2, <2>4
  <2>6. NoneSkipped'
    <3> SUFFICES ASSUME NEW j \in DOMAIN eventLog
                 PROVE  eventLog[j] \in read' \cup excused'
      BY Zenon, <1>2 DEF NoneSkipped, Range
    <3>1. CASE lastEventTime = 0
      BY Zenon, <1>2, <3>1 DEF Range
    <3>2. CASE lastEventTime # 0
      <4>1. CASE eventLog[j][1] > lastEventTime
        BY Zenon, <1>1, <1>2, <1>5, <3>2, <4>1
      <4>2. CASE ~(eventLog[j][1] > lastEventTime)
        <5>1. eventLog[j][1] <= lastEventTime
          BY <1>3, <4>2
        <5> QED
          BY Zenon, <1>6, <5>1
      <4> QED
        BY Zenon, <4>1, <4>2
    <3> QED
      BY Zenon, <3>1, <3>2
  <2>7. NewerLast'
    <3>1. \A j \in DOMAIN eventLog : ~(eventLog[j][1] > lastEventTime') /\ ~(j >= Len(eventLog) + 1)
      <4>1. \A j \in DOMAIN eventLog : eventLog[j][1] <= eventLog[Len(eventLog)][1]
        BY SMTT(30), <1>3, <2>2 DEF EventsInv
      <4> QED
        BY SMTT(30), <1>3, <2>2, <2>4, <4>1
    <3>2. Len(eventLog) + 1 \in 1 .. Len(eventLog) + 1
      BY <1>3
    <3> QED
      BY Zenon, <1>2, <3>1, <3>2 DEF NewerLast
  <2> QED
    BY Zenon, <1>2, <2>5, <2>6, <2>7 DEF EventsInv
<1> QED
  BY Zenon, <1>7, <1>8

LEMMA EventStep ==
  ASSUME EventsInv, AnEvent
  PROVE  EventsInv'
<1>1. /\ logged' = logged + 1 /\ eventLog' = Append(eventLog, <<second, logged'>>)
      /\ excused' = IF second = lastEventTime THEN excused \cup {<<second, logged'>>} ELSE excused
      /\ UNCHANGED <<second, lastEventTime, read>>
  BY Zenon DEF AnEvent
<1>2. /\ eventLog \in Seq(Nat \X Nat) /\ Len(eventLog) \in Nat /\ <<second, logged'>> \in Nat \X Nat
      /\ DOMAIN eventLog = 1 .. Len(eventLog) /\ logged' \in Nat
  BY <1>1 DEF EventsInv
<1>3. /\ eventLog' \in Seq(Nat \X Nat)
      /\ DOMAIN eventLog' = 1 .. Len(eventLog) + 1
      /\ \A i \in DOMAIN eventLog : eventLog'[i] = eventLog[i]
      /\ eventLog'[Len(eventLog) + 1] = <<second, logged'>>
  BY <1>1, <1>2
<1>4. NoneSkipped'
  <2> SUFFICES ASSUME NEW i \in DOMAIN eventLog', eventLog'[i][1] <= lastEventTime
               PROVE  eventLog'[i] \in read' \cup excused'
    BY ZenonT(30), <1>1 DEF NoneSkipped, Range
  <2>1. CASE i \in DOMAIN eventLog
    <3>1. eventLog[i] \in read \cup excused
      BY Zenon, <1>1, <1>3, <2>1 DEF EventsInv, NoneSkipped, Range
    <3> QED
      BY Zenon, <1>1, <1>3, <2>1, <3>1
  <2>2. CASE i = Len(eventLog) + 1
    BY SMTT(30), <1>1, <1>3, <2>2 DEF EventsInv
  <2> QED
    BY <1>2, <1>3, <2>1, <2>2
<1>5. \A i \in DOMAIN eventLog' : 0 < eventLog'[i][1] /\ eventLog'[i][1] <= second
  <2> SUFFICES ASSUME NEW i \in DOMAIN eventLog'
               PROVE  0 < eventLog'[i][1] /\ eventLog'[i][1] <= second
    BY Zenon
  <2>1. i \in DOMAIN eventLog \/ i = Len(eventLog) + 1
    BY <1>2, <1>3
  <2> QED
    BY SMTT(30), <1>3, <2>1 DEF EventsInv
<1>6. \A i, j \in DOMAIN eventLog' : i <= j => eventLog'[i][1] <= eventLog'[j][1]
  <2> SUFFICES ASSUME NEW i \in DOMAIN eventLog', NEW j \in DOMAIN eventLog', i <= j
               PROVE  eventLog'[i][1] <= eventLog'[j][1]
    BY Zenon
  <2>1. CASE j \in DOMAIN eventLog
    <3>1. i \in DOMAIN eventLog
      BY <1>2, <1>3, <2>1
    <3> QED
      BY Zenon, <1>3, <2>1, <3>1 DEF EventsInv
  <2>2. CASE j = Len(eventLog) + 1
    BY SMTT(30), <1>3, <1>5, <2>2
  <2> QED
    BY <1>2, <1>3, <2>1, <2>2
<1>7. NewerLast'
  <2>1. PICK i \in 1 .. Len(eventLog) + 1 :
          \A j \in DOMAIN eventLog : eventLog[j][1] > lastEventTime <=> j >= i
    BY Zenon DEF EventsInv, NewerLast
  <2>2. Len(eventLog') = Len(eventLog) + 1
    BY <1>1, <1>2
  <2>3. CASE second = lastEventTime
    <3>1. \A j \in DOMAIN eventLog' : ~(eventLog'[j][1] > lastEventTime) /\ ~(j >= Len(eventLog) + 2)
      BY SMTT(30), <1>2, <1>3, <1>5, <2>3
    <3>2. Len(eventLog) + 2 \in 1 .. Len(eventLog') + 1
      BY <1>2, <2>2
    <3> QED
      BY ZenonT(30), <1>1, <3>1, <3>2 DEF NewerLast
  <2>4. CASE second # lastEventTime
    <3>1. second > lastEventTime
      BY <2>4 DEF EventsInv
    <3>2. ASSUME NEW j \in DOMAIN eventLog'
          PROVE  eventLog'[j][1] > lastEventTime <=> j >= i
      <4>1. CASE j \in DOMAIN eventLog
        BY Zenon, <1>3, <2>1, <4>1
      <4>2. CASE j = Len(eventLog) + 1
        <5>1. eventLog'[j][1] = second /\ j >= i
          BY <1>2, <1>3, <4>2
        <5> QED
          BY Zenon, <3>1, <5>1
      <4> QED
        BY SMTT(30), <1>2, <1>3, <4>1, <4>2
    <3>3. i \in 1 .. Len(eventLog') + 1
      BY <1>2, <2>2
    <3> QED
      BY Zenon, <1>1, <3>2, <3>3 DEF NewerLast
  <2> QED
    BY Zenon, <2>3, <2>4
<1> QED
  BY Zenon, <1>1, <1>2, <1>3, <1>4, <1>5, <1>6, <1>7 DEF EventsInv

LEMMA EventsStep ==
  ASSUME EventsInv, [EventsNext]_eventVars
  PROVE  EventsInv'
<1>1. CASE UNCHANGED eventVars
  BY Zenon, <1>1 DEF eventVars, EventsInv, NoneSkipped, NewerLast
<1>2. CASE ASecond
  BY SMTT(30), <1>2 DEF ASecond, EventsInv, NoneSkipped, NewerLast
<1>3. CASE ClearLog
  <2>1. eventLog' = <<>> /\ Range(eventLog') = {}
    BY <1>3 DEF ClearLog, Range
  <2>2. NewerLast'
    BY <2>1 DEF NewerLast
  <2> QED
    BY <1>3, <2>1, <2>2 DEF ClearLog, EventsInv, NoneSkipped
<1>4. CASE LastSessionCloses
  <2>1. lastEventTime' = 0 /\ UNCHANGED <<eventLog, second, logged>>
    BY Zenon, <1>4 DEF LastSessionCloses
  <2>2. \A j \in DOMAIN eventLog : eventLog[j][1] > 0 /\ j >= 1
    BY DEF EventsInv
  <2>3. NewerLast'
    <3>1. 1 \in 1 .. Len(eventLog) + 1
      BY DEF EventsInv
    <3> QED
      BY Zenon, <2>1, <2>2, <3>1 DEF NewerLast
  <2>4. NoneSkipped'
    BY <2>1, <2>2 DEF NoneSkipped, Range, EventsInv
  <2> QED
    BY <2>1, <2>3, <2>4 DEF EventsInv
<1> QED
  BY Zenon, <1>1, <1>2, <1>3, <1>4, QueryStep, EventStep DEF EventsNext

\* No event is skipped between the queries, whatever the row limit, the pace of the
\* events and the clearing of the log: the events that are passed over are the ones the
\* property names.
THEOREM EventsAreRead == EventsSpec => []NoneSkipped
<1>1. EventsInit => EventsInv
  BY DEF EventsInit, EventsInv, NoneSkipped, NewerLast, Range
<1>2. EventsInv /\ [EventsNext]_eventVars => EventsInv'
  BY EventsStep
<1>3. EventsInv => NoneSkipped
  BY Zenon DEF EventsInv
<1> QED
  BY <1>1, <1>2, <1>3, PTL DEF EventsSpec

----------------------------------------------------------------------------
(* The producer of the CARMA Streets plugin *)

Records == [topic : KafkaTopics, id : Nat \X Nat]

ProdTypeOK ==
  /\ toSend \in Seq(Records)
  /\ sending = <<>> \/ \E r \in Records : sending = <<r>>
  /\ rdQueue \in [KafkaTopics -> Seq(Records)]
  /\ settled \in [KafkaTopics -> Seq(Records)]
  /\ produced \in [KafkaTopics -> Seq(Records)]
  /\ hubCount \in Nat

\* The inductive invariant: while a record is being sent, the handle is that of its topic.
ProdInv ==
  /\ ProdTypeOK
  /\ sending # <<>> => topicHandle = sending[1].topic
  /\ EachTopicInOrder

\* A record moves from one sequence to the next, and the order of the whole stays.
LEMMA SentRecord ==
  ASSUME NEW a \in Seq(Records), NEW q \in Seq(Records), NEW r \in Records
  PROVE  (a \o q) \o <<r>> = Append((a \o q) \o <<>>, r)
OBVIOUS

LEMMA QueuedRecord ==
  ASSUME NEW a \in Seq(Records), NEW q \in Seq(Records), NEW r \in Records
  PROVE  (a \o Append(q, r)) \o <<>> = (a \o q) \o <<r>>
OBVIOUS

LEMMA RefusedRecord ==
  ASSUME NEW a \in Seq(Records), NEW q \in Seq(Records), NEW r \in Records
  PROVE  /\ (a \o q) \o <<>> \in Seq(Records)
         /\ SubSeq((a \o q) \o <<r>>, 1, Len((a \o q) \o <<r>>) - 1) = (a \o q) \o <<>>
<1>1. ASSUME NEW b \in Seq(Records)
      PROVE  SubSeq(Append(b, r), 1, Len(Append(b, r)) - 1) = b
  OBVIOUS
<1>2. (a \o q) \o <<>> \in Seq(Records)
  OBVIOUS
<1>3. (a \o q) \o <<r>> = Append((a \o q) \o <<>>, r)
  BY Zenon, SentRecord
<1> QED
  BY Zenon, <1>1, <1>2, <1>3

LEMMA DeliveredRecord ==
  ASSUME NEW a \in Seq(Records), NEW q \in Seq(Records), NEW s, q # <<>>
  PROVE  (Append(a, Head(q)) \o Tail(q)) \o s = (a \o q) \o s
<1>1. Len(Append(a, Head(q)) \o Tail(q)) = Len(a \o q)
  OBVIOUS
<1>2. ASSUME NEW i \in 1..Len(a \o q)
      PROVE  (Append(a, Head(q)) \o Tail(q))[i] = (a \o q)[i]
  OBVIOUS
<1>3. Append(a, Head(q)) \o Tail(q) \in Seq(Records) /\ a \o q \in Seq(Records)
  OBVIOUS
<1>4. Append(a, Head(q)) \o Tail(q) = a \o q
  BY SMTT(30), <1>1, <1>2, <1>3
<1> QED
  BY Zenon, <1>4

LEMMA RecordTopic ==
  ASSUME NEW r \in Records
  PROVE  r.topic \in KafkaTopics
BY Zenon DEF Records

LEMMA TopicTypes ==
  ASSUME ProdInv, NEW t \in KafkaTopics
  PROVE  /\ settled[t] \in Seq(Records)
         /\ rdQueue[t] \in Seq(Records)
         /\ produced[t] \in Seq(Records)
         /\ (settled[t] \o rdQueue[t]) \o SendingFor(t) = produced[t]
BY Zenon DEF ProdInv, ProdTypeOK, EachTopicInOrder

LEMMA SendToTopicStep ==
  ASSUME ProdInv, SendToTopic
  PROVE  ProdInv'
<1>1. PICK r \in Records : r = Head(toSend)
  BY DEF ProdInv, ProdTypeOK, SendToTopic
<1>2. Tail(toSend) \in Seq(Records)
  BY DEF ProdInv, ProdTypeOK, SendToTopic
<1>3. /\ sending = <<>> /\ sending' = <<r>>
      /\ topicHandle' = r.topic
      /\ produced' = [produced EXCEPT ![r.topic] = Append(@, r)]
      /\ rdQueue' = rdQueue /\ settled' = settled /\ hubCount' = hubCount
      /\ toSend' = Tail(toSend)
  BY Zenon, <1>1 DEF SendToTopic, HandleFor
<1>4. r.topic \in KafkaTopics
  BY Zenon, RecordTopic
<1>5. produced' \in [KafkaTopics -> Seq(Records)]
  BY <1>3, <1>4 DEF ProdInv, ProdTypeOK
<1>6. ProdTypeOK'
  BY Zenon, <1>2, <1>3, <1>5 DEF ProdInv, ProdTypeOK
<1>7. ASSUME NEW t \in KafkaTopics
      PROVE  (settled[t] \o rdQueue[t]) \o SendingFor(t)' = produced'[t]
  <2>1. SendingFor(t) = <<>>
    BY Zenon, <1>3 DEF SendingFor
  <2>2. (settled[t] \o rdQueue[t]) \o <<>> = produced[t]
    BY Zenon, <2>1, TopicTypes
  <2>3. CASE t = r.topic
    <3>1. SendingFor(t)' = <<r>>
      BY Zenon, <1>3, <2>3 DEF SendingFor
    <3>2. produced'[t] = Append(produced[t], r)
      BY Zenon, <1>3, <2>3 DEF ProdInv, ProdTypeOK
    <3>3. (settled[t] \o rdQueue[t]) \o <<r>> = Append((settled[t] \o rdQueue[t]) \o <<>>, r)
      BY Zenon, TopicTypes, SentRecord
    <3> QED
      BY Zenon, <2>2, <3>1, <3>2, <3>3
  <2>4. CASE t # r.topic
    <3>1. SendingFor(t)' = <<>>
      BY Zenon, <1>3, <2>4 DEF SendingFor
    <3>2. produced'[t] = produced[t]
      BY Zenon, <1>3, <2>4 DEF ProdInv, ProdTypeOK
    <3> QED
      BY Zenon, <2>2, <3>1, <3>2
  <2> QED
    BY Zenon, <2>3, <2>4
<1>8. EachTopicInOrder'
  BY Zenon, <1>3, <1>7 DEF EachTopicInOrder
<1>9. topicHandle' = sending'[1].topic
  BY Zenon, <1>3
<1> QED
  BY Zenon, <1>6, <1>8, <1>9 DEF ProdInv

LEMMA SendStep ==
  ASSUME ProdInv, Send
  PROVE  ProdInv'
<1>1. PICK r \in Records : sending = <<r>>
  BY Zenon DEF ProdInv, ProdTypeOK, Send
<1>2. sending[1] = r /\ sending # <<>>
  BY Zenon, <1>1
<1>3. topicHandle = r.topic
  BY Zenon, <1>2 DEF ProdInv
<1>4. r.topic \in KafkaTopics
  BY RecordTopic
<1>5. toSend' = toSend /\ topicHandle' = topicHandle /\ settled' = settled /\ hubCount' = hubCount
  BY Zenon DEF Send
<1>6. ASSUME NEW t \in KafkaTopics
      PROVE  SendingFor(t) = IF t = r.topic THEN <<r>> ELSE <<>>
  BY Zenon, <1>1, <1>2 DEF SendingFor
<1>7. CASE sending' = <<>> /\ Queued /\ produced' = produced
  <2>1. rdQueue' = [rdQueue EXCEPT ![r.topic] = Append(@, r)]
    BY Zenon, <1>2, <1>3, <1>7 DEF Queued
  <2>2. rdQueue' \in [KafkaTopics -> Seq(Records)]
    BY <1>4, <2>1 DEF ProdInv, ProdTypeOK
  <2>3. ProdTypeOK'
    BY Zenon, <1>5, <1>7, <2>2 DEF ProdInv, ProdTypeOK
  <2>4. ASSUME NEW t \in KafkaTopics
        PROVE  (settled[t] \o rdQueue'[t]) \o SendingFor(t)' = produced[t]
    <3>1. SendingFor(t)' = <<>>
      BY Zenon, <1>7 DEF SendingFor
    <3>2. CASE t = r.topic
      <4>1. rdQueue'[t] = Append(rdQueue[t], r)
        BY Zenon, <2>1, <3>2 DEF ProdInv, ProdTypeOK
      <4>2. (settled[t] \o Append(rdQueue[t], r)) \o <<>> = (settled[t] \o rdQueue[t]) \o <<r>>
        BY Zenon, TopicTypes, QueuedRecord
      <4>3. (settled[t] \o rdQueue[t]) \o <<r>> = produced[t]
        BY Zenon, <1>6, <3>2, TopicTypes
      <4> QED
        BY Zenon, <3>1, <4>1, <4>2, <4>3
    <3>3. CASE t # r.topic
      <4>1. rdQueue'[t] = rdQueue[t]
        BY Zenon, <2>1, <3>3 DEF ProdInv, ProdTypeOK
      <4>2. (settled[t] \o rdQueue[t]) \o <<>> = produced[t]
        BY Zenon, <1>6, <3>3, TopicTypes
      <4> QED
        BY Zenon, <3>1, <4>1, <4>2
    <3> QED
      BY Zenon, <3>2, <3>3
  <2>5. EachTopicInOrder'
    BY Zenon, <1>5, <1>7, <2>4 DEF EachTopicInOrder
  <2> QED
    BY Zenon, <1>7, <2>3, <2>5 DEF ProdInv
<1>8. CASE UNCHANGED <<sending, rdQueue, produced>>
  <2>1. sending' = sending /\ rdQueue' = rdQueue /\ produced' = produced
    BY Zenon, <1>8
  <2>2. \A t : SendingFor(t)' = SendingFor(t)
    BY Zenon, <2>1 DEF SendingFor
  <2> QED
    BY Zenon, <1>5, <2>1, <2>2 DEF ProdInv, ProdTypeOK, EachTopicInOrder
<1>9. CASE sending' = <<>> /\ GivenUp /\ rdQueue' = rdQueue
  <2>1. produced' = [produced EXCEPT ![r.topic] = SubSeq(@, 1, Len(@) - 1)]
    BY Zenon, <1>2, <1>9 DEF GivenUp
  <2>2. ASSUME NEW t \in KafkaTopics
        PROVE  /\ (settled[t] \o rdQueue[t]) \o <<>> = produced'[t]
               /\ produced'[t] \in Seq(Records)
    <3>1. CASE t = r.topic
      <4>1. produced'[t] = SubSeq(produced[t], 1, Len(produced[t]) - 1)
        BY Zenon, <2>1, <3>1 DEF ProdInv, ProdTypeOK
      <4>2. (settled[t] \o rdQueue[t]) \o <<r>> = produced[t]
        BY Zenon, <1>6, <3>1, TopicTypes
      <4>3. settled[t] \in Seq(Records) /\ rdQueue[t] \in Seq(Records)
        BY Zenon, TopicTypes
      <4>4. PICK p : p = (settled[t] \o rdQueue[t]) \o <<r>>
        BY Zenon
      <4>5. /\ SubSeq(p, 1, Len(p) - 1) = (settled[t] \o rdQueue[t]) \o <<>>
            /\ (settled[t] \o rdQueue[t]) \o <<>> \in Seq(Records)
        BY Zenon, <4>3, <4>4, RefusedRecord
      <4> QED
        BY Zenon, <4>1, <4>2, <4>4, <4>5
    <3>2. CASE t # r.topic
      <4>1. produced'[t] = produced[t]
        BY Zenon, <2>1, <3>2 DEF ProdInv, ProdTypeOK
      <4> QED
        BY Zenon, <1>6, <3>2, <4>1, TopicTypes
    <3> QED
      BY Zenon, <3>1, <3>2
  <2>3. produced' \in [KafkaTopics -> Seq(Records)]
    <3>1. produced' = [t \in KafkaTopics |-> produced'[t]]
      BY Zenon, <2>1 DEF ProdInv, ProdTypeOK
    <3> QED
      BY Zenon, <2>2, <3>1
  <2>4. ProdTypeOK'
    BY Zenon, <1>5, <1>9, <2>3 DEF ProdInv, ProdTypeOK
  <2>5. \A t : SendingFor(t)' = <<>>
    BY Zenon, <1>9 DEF SendingFor
  <2>6. EachTopicInOrder'
    BY Zenon, <1>5, <1>9, <2>2, <2>5 DEF EachTopicInOrder
  <2> QED
    BY Zenon, <1>9, <2>4, <2>6 DEF ProdInv
<1> QED
  BY Zenon, <1>7, <1>8, <1>9 DEF Send

LEMMA DeliverStep ==
  ASSUME ProdInv, Deliver
  PROVE  ProdInv'
<1>1. PICK u \in KafkaTopics :
        /\ rdQueue[u] # <<>>
        /\ settled' = [settled EXCEPT ![u] = Append(@, Head(rdQueue[u]))]
        /\ rdQueue' = [rdQueue EXCEPT ![u] = Tail(@)]
        /\ toSend' = toSend /\ sending' = sending /\ topicHandle' = topicHandle
        /\ produced' = produced /\ hubCount' = hubCount
  BY Zenon DEF Deliver
<1>2. rdQueue[u] \in Seq(Records) /\ settled[u] \in Seq(Records)
  BY Zenon, TopicTypes
<1>3. Append(settled[u], Head(rdQueue[u])) \in Seq(Records) /\ Tail(rdQueue[u]) \in Seq(Records)
  BY <1>1, <1>2
<1>4. settled' \in [KafkaTopics -> Seq(Records)] /\ rdQueue' \in [KafkaTopics -> Seq(Records)]
  BY Zenon, <1>1, <1>3 DEF ProdInv, ProdTypeOK
<1>5. ProdTypeOK'
  BY Zenon, <1>1, <1>4 DEF ProdInv, ProdTypeOK
<1>6. ASSUME NEW t \in KafkaTopics
      PROVE  (settled'[t] \o rdQueue'[t]) \o SendingFor(t) = produced[t]
  <2>1. CASE t = u
    <3>1. settled'[t] = Append(settled[t], Head(rdQueue[t])) /\ rdQueue'[t] = Tail(rdQueue[t])
      BY Zenon, <1>1, <2>1 DEF ProdInv, ProdTypeOK
    <3>2. (Append(settled[t], Head(rdQueue[t])) \o Tail(rdQueue[t])) \o SendingFor(t)
            = (settled[t] \o rdQueue[t]) \o SendingFor(t)
      BY ZenonT(30), <1>1, <1>2, <2>1, DeliveredRecord
    <3> QED
      BY Zenon, <3>1, <3>2, TopicTypes
  <2>2. CASE t # u
    <3>1. settled'[t] = settled[t] /\ rdQueue'[t] = rdQueue[t]
      BY Zenon, <1>1, <2>2 DEF ProdInv, ProdTypeOK
    <3> QED
      BY Zenon, <3>1, TopicTypes
  <2> QED
    BY Zenon, <2>1, <2>2
<1>7. \A t : SendingFor(t)' = SendingFor(t)
  BY Zenon, <1>1 DEF SendingFor
<1>8. EachTopicInOrder'
  BY Zenon, <1>1, <1>6, <1>7 DEF EachTopicInOrder
<1> QED
  BY Zenon, <1>1, <1>5, <1>8 DEF ProdInv

LEMMA HandleMessageStep ==
  ASSUME ProdInv, NEW k \in Kinds, HandleMessage(k)
  PROVE  ProdInv'
<1>1. PICK n \in RecordsOf(k) :
        toSend' = [i \in 1..n |-> [topic |-> TopicOf[k], id |-> <<hubCount, i>>]]
  BY Zenon DEF HandleMessage
<1>2. k \in {"bsm", "operation", "path", "map", "srm", "sensor", "time"}
  BY Zenon, KindsAssumption DEF TopicOf
<1>3. n \in Nat
  BY <1>2 DEF RecordsOf, HandleMobilityOperationMessage, HandleMobilityPathMessage,
              HandleSRMMessage, HandleBasicSafetyMessage, HandleMapMessage,
              HandleSimulatedSensorDetectedMessage, HandleTimeSyncMessage
<1>4. PICK topic \in KafkaTopics : topic = TopicOf[k]
  BY Zenon DEF KafkaTopics
<1>5. \A i \in 1..n : [topic |-> topic, id |-> <<hubCount, i>>] \in Records
  BY <1>3 DEF ProdInv, ProdTypeOK, Records
<1>6. toSend' \in Seq(Records)
  BY <1>1, <1>3, <1>4, <1>5
<1>7. /\ sending' = sending /\ topicHandle' = topicHandle /\ rdQueue' = rdQueue
      /\ settled' = settled /\ produced' = produced /\ hubCount' = hubCount + 1
  BY Zenon DEF HandleMessage
<1>8. hubCount' \in Nat
  BY <1>7 DEF ProdInv, ProdTypeOK
<1>9. \A t : SendingFor(t)' = SendingFor(t)
  BY Zenon, <1>7 DEF SendingFor
<1> QED
  BY Zenon, <1>6, <1>7, <1>8, <1>9 DEF ProdInv, ProdTypeOK, EachTopicInOrder

\* Every topic gets its records once and in order (EachTopicInOrder), for every choice of
\* the kinds, the limit of the queue and the number of messages.
THEOREM TopicsGetTheirRecords == ProdSpec => []EachTopicInOrder
<1>1. ProdInit => ProdInv
  <2> SUFFICES ASSUME ProdInit PROVE ProdInv
    BY Zenon
  <2>1. ProdTypeOK
    BY DEF ProdInit, ProdTypeOK
  <2>2. ASSUME NEW t \in KafkaTopics
        PROVE  settled[t] = <<>> /\ rdQueue[t] = <<>> /\ SendingFor(t) = <<>> /\ produced[t] = <<>>
    BY Zenon DEF ProdInit, SendingFor
  <2>3. (<<>> \o <<>>) \o <<>> = <<>>
    OBVIOUS
  <2>4. EachTopicInOrder
    BY Zenon, <2>2, <2>3 DEF EachTopicInOrder
  <2> QED
    BY Zenon, <2>1, <2>4 DEF ProdInit, ProdInv
<1>2. ProdInv /\ [ProdNext]_prodVars => ProdInv'
  <2> SUFFICES ASSUME ProdInv, [ProdNext]_prodVars PROVE ProdInv'
    BY Zenon
  <2>1. CASE UNCHANGED prodVars
    <3>1. /\ sending' = sending /\ topicHandle' = topicHandle /\ rdQueue' = rdQueue
          /\ settled' = settled /\ produced' = produced /\ hubCount' = hubCount /\ toSend' = toSend
      BY Zenon, <2>1 DEF prodVars
    <3>2. \A t : SendingFor(t)' = SendingFor(t)
      BY Zenon, <3>1 DEF SendingFor
    <3> QED
      BY Zenon, <3>1, <3>2 DEF ProdInv, ProdTypeOK, EachTopicInOrder
  <2> QED
    BY Zenon, <2>1, HandleMessageStep, SendToTopicStep, SendStep, DeliverStep DEF ProdNext
<1>3. ProdInv => EachTopicInOrder
  BY Zenon DEF ProdInv
<1> QED
  BY <1>1, <1>2, <1>3, PTL DEF ProdSpec

----------------------------------------------------------------------------
(* Intersection validation *)

Revisions(msg) == \A i \in DOMAIN msg : msg[i].rev \in 0..127

\* The issue revision of the publisher's last message.
LastIssue == IF published[kind].ints = NoIntersections THEN NoRevision ELSE published[kind].issue

\* The inductive invariant: as long as nothing is lost the plugin compares with exactly
\* what the publisher sent last.
RevInv ==
  /\ kind \in MessageKinds /\ missed \in Nat
  /\ DOMAIN published = MessageKinds /\ DOMAIN seen = MessageKinds
  /\ \A k \in MessageKinds : Revisions(published[k].ints) /\ published[k].issue \in 0..127
  /\ missed = 0 => /\ seen[kind] = published[kind].ints
                   /\ kind = "MAP" => seenIssue = LastIssue
  /\ HonestNotFlagged

LEMMA Next128Property ==
  ASSUME NEW n \in 0..127
  PROVE  Next128(n) \in 0..127 /\ Next128(n) # n
BY DEF Next128

\* The rule satisfies the three comparisons of one intersection.
LEMMA RulePasses ==
  ASSUME NEW prev, NEW msg, Revisions(prev), RevisionRule(prev, msg), NEW i \in DOMAIN msg
  PROVE  /\ ~RevisionViolation(prev, i, msg)
         /\ ~SpatProgressionViolation(prev, i, msg)
         /\ i \in DOMAIN prev /\ ContentChanged(prev, i, msg) =>
              ProperIncrement(prev[i].rev, msg[i].rev)
<1>1. CASE i \notin DOMAIN prev
  BY Zenon, <1>1 DEF RevisionViolation, SpatProgressionViolation
<1>2. CASE i \in DOMAIN prev
  <2>1. prev[i].rev \in 0..127
    BY Zenon, <1>2 DEF Revisions
  <2>2. msg[i].rev = Step(prev[i].rev, prev[i].content # msg[i].content)
    BY Zenon, <1>2 DEF RevisionRule
  <2>3. Next128(prev[i].rev) # prev[i].rev
    BY Zenon, <2>1, Next128Property
  <2> QED
    BY Zenon, <1>2, <2>2, <2>3 DEF RevisionViolation, SpatProgressionViolation, ContentChanged,
                            ProperIncrement, Step
<1> QED
  BY Zenon, <1>1, <1>2

\* ... and those of the issue revision.
LEMMA IssueRulePasses ==
  ASSUME NEW prev, NEW msg, NEW issue, seenIssue \in 0..127 \cup {NoRevision},
         IssueRule(prev, msg, seenIssue, issue)
  PROVE  /\ ~IssueViolation(prev, msg, issue)
         /\ AnyChanged(prev, msg) /\ seenIssue # NoRevision => ProperIncrement(seenIssue, issue)
<1>1. CASE seenIssue = NoRevision
  BY Zenon, <1>1 DEF IssueViolation
<1>2. CASE seenIssue # NoRevision
  <2>1. Next128(seenIssue) # seenIssue
    BY Zenon, <1>2, Next128Property
  <2>2. issue = Step(seenIssue, AnyChanged(prev, msg))
    BY Zenon, <1>2 DEF IssueRule
  <2>3. CASE AnyChanged(prev, msg)
    BY Zenon, <1>2, <2>1, <2>2, <2>3 DEF IssueViolation, ProperIncrement, Step
  <2>4. CASE ~AnyChanged(prev, msg)
    <3>1. issue = seenIssue
      BY Zenon, <2>2, <2>4 DEF Step
    <3>2. AnyChanged(prev, msg) = FALSE
      BY Zenon, <2>4 DEF AnyChanged
    <3> QED
      BY Zenon, <2>4, <3>1, <3>2 DEF IssueViolation
  <2> QED
    BY Zenon, <2>3, <2>4
<1> QED
  BY Zenon, <1>1, <1>2

LEMMA RevisedMessage ==
  ASSUME RevInv, NEW ids \in (SUBSET IntersectionIds) \ {{}},
         NEW d \in [ids -> 0..2], NEW c \in [ids -> Contents]
  PROVE  DOMAIN Revised(d, c) # {} /\ Revisions(Revised(d, c))
<1>1. DOMAIN Revised(d, c) = ids /\ ids # {}
  BY Zenon DEF Revised
<1>2. ASSUME NEW i \in ids  PROVE Revised(d, c)[i].rev \in 0..127
  <2> DEFINE prev == IF i \in DOMAIN published[kind].ints THEN published[kind].ints[i].rev
                     ELSE FirstRevision
  <2>1. prev \in 0..127
    BY Zenon, FirstRevisionAssumption DEF RevInv, Revisions
  <2>2. Revised(d, c)[i].rev = (prev + d[i]) % 128 /\ d[i] \in 0..2
    BY Zenon, <1>1 DEF Revised
  <2> HIDE DEF prev
  <2> QED
    BY SMTT(30), <2>1, <2>2
<1> QED
  BY Zenon, <1>1, <1>2 DEF Revisions

LEMMA UpdatedRevisions ==
  ASSUME NEW prev, NEW msg, Revisions(prev), Revisions(msg), DOMAIN msg # {}
  PROVE  Revisions(Updated(prev, msg)) /\ Updated(prev, msg) # NoIntersections
<1>1. DOMAIN Updated(prev, msg) # {} /\ DOMAIN NoIntersections = {}
  BY Zenon DEF Updated, NoIntersections
<1> QED
  BY Zenon, <1>1 DEF Updated, Revisions

\* A message by the rule is not flagged, if the plugin compares it with what the publisher
\* sent last.
LEMMA SpatPasses ==
  ASSUME NEW prev, NEW msg, Revisions(prev), RevisionRule(prev, msg), seen["SPaT"] = prev,
         HandleSpatMessage(msg)
  PROVE  ~verdict'.flagged
<1>1. ~\E i \in DOMAIN msg : \/ RevisionViolation(prev, i, msg)
                             \/ SpatProgressionViolation(prev, i, msg)
  BY Zenon, RulePasses
<1> QED
  BY Zenon, <1>1 DEF HandleSpatMessage

LEMMA MapPasses ==
  ASSUME NEW prev, NEW msg, NEW issue, Revisions(prev), RevisionRule(prev, msg),
         seen["MAP"] = prev, seenIssue \in 0..127 \cup {NoRevision},
         IssueRule(prev, msg, seenIssue, issue), HandleMapDataMessage(msg, issue)
  PROVE  ~verdict'.flagged
<1>1. /\ ~IssueViolation(prev, msg, issue)
      /\ AnyChanged(prev, msg) /\ seenIssue # NoRevision => ProperIncrement(seenIssue, issue)
  BY Zenon, IssueRulePasses
<1>2. ASSUME NEW i \in DOMAIN msg
      PROVE  ~RevisionViolation(prev, i, msg) /\ ~MapProgressionViolation(prev, i, msg, issue)
  <2>1. ContentChanged(prev, i, msg) => AnyChanged(prev, msg)
    BY Zenon DEF AnyChanged
  <2> QED
    BY Zenon, <1>1, <2>1, RulePasses DEF MapProgressionViolation
<1> QED
  BY Zenon, <1>1, <1>2 DEF HandleMapDataMessage

LEMMA PublishStep ==
  ASSUME RevInv, NEW msg, Revisions(msg), DOMAIN msg # {}, NEW issue \in 0..127,
         Publish(msg, issue)
  PROVE  RevInv'
<1>1. PICK prev : prev = published[kind].ints
  BY Zenon
<1>2. Revisions(prev) /\ published[kind].issue \in 0..127 /\ kind \in MessageKinds
  BY Zenon, <1>1 DEF RevInv
<1>3. /\ kind' = kind
      /\ published' = [published EXCEPT ![kind] = [ints |-> Updated(prev, msg), issue |-> issue]]
      /\ honest' = (honest /\ Follows(prev, msg, LastIssue, issue))
  BY Zenon, <1>1 DEF Publish, LastIssue
<1>4. Revisions(Updated(prev, msg)) /\ Updated(prev, msg) # NoIntersections
  BY Zenon, <1>2, UpdatedRevisions
<1>5. /\ DOMAIN published' = MessageKinds
      /\ \A k \in MessageKinds : Revisions(published'[k].ints) /\ published'[k].issue \in 0..127
      /\ published'[kind].ints = Updated(prev, msg) /\ LastIssue' = issue
  BY Zenon, <1>2, <1>3, <1>4 DEF RevInv, LastIssue
<1>6. CASE missed' = missed + 1 /\ UNCHANGED <<seen, seenIssue, verdict, forwarded>>
  <2>1. missed' \in Nat /\ missed' # 0
    BY <1>6 DEF RevInv
  <2> QED
    BY ZenonT(30), <1>3, <1>5, <1>6, <2>1 DEF RevInv, HonestNotFlagged
<1>7. ASSUME honest', missed = 0
      PROVE  /\ honest /\ seen[kind] = prev /\ RevisionRule(prev, msg)
             /\ kind = "MAP" => seenIssue = LastIssue /\ IssueRule(prev, msg, seenIssue, issue)
  BY Zenon, <1>1, <1>3, <1>7 DEF RevInv, Follows
<1>8. CASE kind = "SPaT" /\ HandleSpatMessage(msg) /\ UNCHANGED missed
  <2>1. DOMAIN seen' = MessageKinds /\ seen'[kind] = Updated(seen[kind], msg)
    BY Zenon, <1>8 DEF HandleSpatMessage, RevInv, MessageKinds
  <2>2. ASSUME honest', missed' = 0  PROVE ~verdict'.flagged
    BY Zenon, <1>2, <1>7, <1>8, <2>2, SpatPasses
  <2> QED
    BY Zenon, <1>1, <1>3, <1>5, <1>8, <2>1, <2>2 DEF RevInv, HonestNotFlagged
<1>9. CASE kind = "MAP" /\ HandleMapDataMessage(msg, issue) /\ UNCHANGED missed
  <2>1. DOMAIN seen' = MessageKinds /\ seen'[kind] = Updated(seen[kind], msg) /\ seenIssue' = issue
    BY Zenon, <1>9 DEF HandleMapDataMessage, RevInv, MessageKinds
  <2>2. LastIssue \in 0..127 \cup {NoRevision}
    BY Zenon, <1>2 DEF LastIssue
  <2>3. ASSUME honest', missed' = 0  PROVE ~verdict'.flagged
    BY ZenonT(30), <1>2, <1>7, <1>9, <2>2, <2>3, MapPasses
  <2> QED
    BY Zenon, <1>1, <1>3, <1>5, <1>9, <2>1, <2>3 DEF RevInv, HonestNotFlagged
<1> QED
  BY Zenon, <1>6, <1>8, <1>9 DEF Publish

LEMMA Modulo128 ==
  ASSUME NEW n \in 0..127, NEW e \in 0..2
  PROVE  (n + e) % 128 \in 0..127
OBVIOUS

LEMMA RevStep ==
  ASSUME RevInv, [RevNext]_revVars
  PROVE  RevInv'
<1>1. CASE UNCHANGED revVars
  BY Zenon, <1>1 DEF revVars, RevInv, HonestNotFlagged, LastIssue
<1>2. ASSUME NEW ids \in (SUBSET IntersectionIds) \ {{}}, NEW d \in [ids -> 0..2],
             NEW c \in [ids -> Contents], NEW e \in 0..2,
             Publish(Revised(d, c), (published[kind].issue + e) % 128)
      PROVE  RevInv'
  <2>1. published[kind].issue \in 0..127
    BY Zenon DEF RevInv
  <2>2. (published[kind].issue + e) % 128 \in 0..127
    BY Zenon, <2>1, Modulo128
  <2> QED
    BY ZenonT(30), <1>2, <2>2, RevisedMessage, PublishStep
<1> QED
  BY <1>1, <1>2 DEF RevNext

\* For any intersections, contents and number of messages: the validation accepts what
\* the CTI 4501 rule allows, across the wrap of the counters.
THEOREM HonestPublisherPasses == RevSpec => []HonestNotFlagged
<1>1. RevInit => RevInv
  <2> SUFFICES ASSUME RevInit
               PROVE  RevInv
    BY Zenon
  <2>1. Revisions(NoIntersections)
    BY Zenon DEF NoIntersections, Revisions
  <2>2. /\ DOMAIN published = MessageKinds
        /\ \A k \in MessageKinds : Revisions(published[k].ints) /\ published[k].issue \in 0..127
        /\ seen[kind] = published[kind].ints /\ LastIssue = NoRevision
    BY Zenon, <2>1, FirstRevisionAssumption DEF RevInit, LastIssue
  <2>3. ~verdict.flagged
    BY Zenon DEF RevInit
  <2> QED
    BY Zenon, <2>2, <2>3 DEF RevInit, RevInv, HonestNotFlagged
<1>2. RevInv /\ [RevNext]_revVars => RevInv'
  BY Zenon, RevStep
<1>3. RevInv => HonestNotFlagged
  BY Zenon DEF RevInv
<1> QED
  BY <1>1, <1>2, <1>3, PTL DEF RevSpec

============================================================================
