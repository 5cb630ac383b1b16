--------------------------- MODULE CommandUploads ---------------------------
(***************************************************************************)
(* File uploads of the command plugin.  A web socket session announces a   *)
(* file (uploadfile), the browser then posts it over HTTP, and the outcome *)
(* is written to the output buffer of the session.  One thread serves all  *)
(* callbacks, so each is one step; a request holds a pointer to the buffer *)
(* of its session, which is freed when the session closes.                 *)
(***************************************************************************)
EXTENDS Integers, FiniteSets

CONSTANTS
  UploadSessions,  \* web socket sessions; a session's buffer has its name
  UploadFiles,     \* _uploadRequests' keys
  Transfers,       \* HTTP connections
  NoBuffer,        \* NULL
  MaxRequests      \* bound: uploadfile commands

ASSUME NoBufferAssumption == NoBuffer \notin UploadSessions

Closed == -1
NotAuthorized == 0
ReadOnly == 1
ApplicationAdministrator == 2
SystemAdministrator == 3

VARIABLES
  level,      \* of each session: Closed, NotAuthorized or its authorizationLevel
  uploads,    \* _uploadRequests
  http,       \* each HTTP connection: its state, and the file it carries
  answer,     \* the final answer each request got: "none", "success" or "failed"
  requested   \* the number of requests so far; a request's id is its number

uploadVars == <<level, uploads, http, answer, requested>>

NoUpload == [request |-> 0, buffer |-> NoBuffer, uploading |-> FALSE]
Idle(f) == [state |-> "idle", file |-> f]
AnyFile == CHOOSE f \in UploadFiles : TRUE

UploadsInit ==
  /\ level = [s \in UploadSessions |-> Closed]
  /\ uploads = [f \in UploadFiles |-> NoUpload]
  /\ http = [h \in Transfers |-> Idle(AnyFile)]
  /\ answer = [r \in 1..MaxRequests |-> "none"]
  /\ requested = 0

Present(f) == uploads[f] # NoUpload

----------------------------------------------------------------------------
(* The web socket: sessions and their commands *)

Established(s) ==
  /\ level[s] = Closed
  /\ level' = [level EXCEPT ![s] = NotAuthorized]
  /\ UNCHANGED <<uploads, http, answer, requested>>

Login(s, l) ==
  /\ level[s] = NotAuthorized
  /\ level' = [level EXCEPT ![s] = l]
  /\ UNCHANGED <<uploads, http, answer, requested>>

Logout(s) ==
  /\ level[s] > NotAuthorized
  /\ level' = [level EXCEPT ![s] = NotAuthorized]
  /\ UNCHANGED <<uploads, http, answer, requested>>

\* Mutant: a file on its way keeps the buffer.
AfterCloseKeepsBuffer(s, u) == IF u.buffer = s /\ ~u.uploading THEN NoUpload ELSE u

\* The session's own announced files go; the rest lose their buffer.
AfterClose(s, u) ==
  IF u.buffer = s /\ ~u.uploading THEN NoUpload ELSE [u EXCEPT !.buffer = NoBuffer]

ClosedSession(s) ==
  /\ level[s] # Closed
  /\ level' = [level EXCEPT ![s] = Closed]
  /\ uploads' = [f \in UploadFiles |-> IF Present(f) THEN AfterClose(s, uploads[f]) ELSE NoUpload]
  /\ UNCHANGED <<http, answer, requested>>

UploadFile(s, f) ==
  /\ level[s] >= SystemAdministrator
  /\ requested < MaxRequests /\ requested' = requested + 1
  /\ uploads' = [g \in UploadFiles |->
       CASE g = f -> [request |-> requested', buffer |-> s, uploading |-> FALSE]
         [] g # f /\ uploads[g].buffer = s /\ ~uploads[g].uploading -> NoUpload
         [] OTHER -> uploads[g]]
  /\ UNCHANGED <<level, http, answer>>

----------------------------------------------------------------------------
(* HTTP: FileUploadCB and WSCallbackHTTP *)

\* LWS_CALLBACK_HTTP_DROP_PROTOCOL: answer, and forget the request.
DropProtocol(h, f, outcome) ==
  /\ answer' = IF uploads[f].buffer # NoBuffer
               THEN [answer EXCEPT ![uploads[f].request] = outcome] ELSE answer
  /\ uploads' = [uploads EXCEPT ![f] = NoUpload]
  /\ http' = [http EXCEPT ![h] = Idle(f)]

\* LWS_UFS_OPEN.  Without a request the transfer is refused; with one the file is
\* created, which may fail.
Open(h, f) ==
  /\ http[h].state = "idle"
  /\ \/ /\ Present(f)
        /\ uploads' = [uploads EXCEPT ![f].uploading = TRUE]
        /\ http' = [http EXCEPT ![h] = [state |-> "open", file |-> f]]
        /\ UNCHANGED answer
     \/ DropProtocol(h, f, "failed")
  /\ UNCHANGED <<level, requested>>

HasSession(f) == uploads[f].buffer # NoBuffer

\* A part of the file: refused when the session is gone (or when another transfer of
\* the same file has ended), or when the file is too large.
Content(h) ==
  LET f == http[h].file IN
  /\ http[h].state = "open"
  /\ DropProtocol(h, f, "failed")
  /\ UNCHANGED <<level, requested>>

\* LWS_UFS_FINAL_CONTENT.  Copying to the destination, or removing the copied file, may
\* fail.
FinalContent(h) ==
  LET f == http[h].file IN
  /\ http[h].state = "open" /\ HasSession(f)
  /\ \/ /\ http' = [http EXCEPT ![h].state = "done"]
        /\ UNCHANGED <<uploads, answer>>
     \/ DropProtocol(h, f, "failed")
  /\ UNCHANGED <<level, requested>>

\* The connection ends: after the page was sent, or before (the client is gone).
Drop(h) ==
  LET f == http[h].file IN
  /\ http[h].state # "idle"
  /\ DropProtocol(h, f, "success")
  /\ UNCHANGED <<level, requested>>

SessionStep(s) ==
  \/ Established(s) \/ Logout(s) \/ ClosedSession(s)
  \/ \E l \in ReadOnly..SystemAdministrator : Login(s, l)
  \/ \E f \in UploadFiles : UploadFile(s, f)

TransferStep(h) ==
  \/ \E f \in UploadFiles : Open(h, f)
  \/ Content(h) \/ FinalContent(h) \/ Drop(h)

UploadsNext == (\E s \in UploadSessions : SessionStep(s)) \/ (\E h \in Transfers : TransferStep(h))

UploadsSpec == UploadsInit /\ [][UploadsNext]_uploadVars

----------------------------------------------------------------------------
(* Properties *)

\* The buffer a request points to is the buffer of an open session: FileUploadCB and the
\* drop callback write to it without any further test, and CLOSED frees it.
NoDanglingBuffer ==
  \A f \in UploadFiles : uploads[f].buffer # NoBuffer => level[uploads[f].buffer] # Closed

=============================================================================
