----------------------------- MODULE DmsPlugin -----------------------------
(***************************************************************************)
(* The dynamic message sign plugin.  The message thread takes requests for *)
(* a sign message and new message texts; Main sends texts to the sign's    *)
(* memory and tries again what failed.  Only SetRequestedMessage holds a   *)
(* lock.  Message 0 blanks the sign.                                       *)
(***************************************************************************)
EXTENDS Integers

CONSTANTS
  MsgIds,     \* ids of messages with a text, numbers from 1 on
  Texts,      \* message texts
  MaxAsks,    \* bound: requests and configuration changes
  MaxFailed   \* bound: exchanges with the sign that fail

None == -1
Ids == {0} \cup MsgIds
Unknown == 99  \* an id that was never configured
Threads == {"message", "main"}

VARIABLES
  dmsText,    \* DmsText
  textSent,   \* IsDmsTextInitialized
  allSent,    \* _isSignMessagesInitialized
  enableDms,  \* _enableDms
  requested,  \* _msgIdRequested
  shown,      \* _msgIdShown
  signLock,   \* _mutexSetRequested: the thread that holds it, or "free"
  at,         \* where each thread is
  arg,        \* its argument: a message id
  memory,     \* the sign: the text stored under each id, or None
  display,    \* the sign: what it displays
  asks,       \* requests and changes so far (bound)
  disabled,   \* the sign was disabled at some time
  failed      \* failed exchanges so far (bound)

dmsVars == <<dmsText, textSent, allSent, enableDms, requested, shown, signLock, at, arg,
             memory, display, asks, disabled, failed>>

DmsInit ==
  /\ dmsText \in [MsgIds -> Texts]
  /\ textSent = [m \in MsgIds |-> FALSE]
  /\ allSent = FALSE
  /\ enableDms \in BOOLEAN
  /\ requested = 0 /\ shown = None
  /\ signLock = "free"
  /\ at = [t \in Threads |-> "idle"]
  /\ arg = [t \in Threads |-> 0]
  /\ memory = [m \in MsgIds |-> None]
  /\ display = [id |-> None, text |-> None]
  /\ asks = 0 /\ failed = 0 /\ disabled = FALSE

Go(t, pc) == at' = [at EXCEPT ![t] = pc]
SignUnchanged == UNCHANGED <<memory, display, failed>>

----------------------------------------------------------------------------
(* SetRequestedMessage, called by either thread with arg[t] *)

LockAndRequest(t) ==
  /\ at[t] = "request" /\ signLock = "free"
  /\ requested' = arg[t]
  /\ IF arg[t] = shown
     THEN Go(t, "idle") /\ UNCHANGED signLock
     ELSE Go(t, "show") /\ signLock' = t
  /\ UNCHANGED <<dmsText, textSent, allSent, enableDms, shown, arg, asks, disabled>>
  /\ SignUnchanged

\* What the sign displays once it activates a message.
Activated(m) ==
  IF m = 0 THEN [id |-> 0, text |-> None] ELSE [id |-> m, text |-> memory[m]]

Activatable(m) == IF m = 0 THEN TRUE ELSE memory[m] # None

\* ActivateMessage: the sign displays the message if its memory holds a text; it may
\* have done so although the answer is lost.  Blanking notes message number 1.
ActivateMessage(t) ==
  \/ /\ Activatable(arg[t])
     /\ display' = Activated(arg[t])
     /\ shown' = IF arg[t] = 0 THEN 1 ELSE arg[t]
     /\ Go(t, "note") /\ UNCHANGED <<failed, signLock>>
  \/ /\ ~Activatable(arg[t])
     /\ Go(t, "idle") /\ signLock' = "free" /\ UNCHANGED <<shown, display, failed>>
  \/ /\ failed < MaxFailed /\ failed' = failed + 1
     /\ display' \in {display, IF Activatable(arg[t]) THEN Activated(arg[t]) ELSE display}
     /\ Go(t, "idle") /\ signLock' = "free" /\ UNCHANGED shown

\* ShowSignMessage.
ShowSignMessage(t) ==
  /\ at[t] = "show"
  /\ IF ~allSent \/ arg[t] \notin Ids
     THEN Go(t, "idle") /\ signLock' = "free" /\ UNCHANGED <<shown, display, failed>>
     ELSE IF enableDms THEN ActivateMessage(t)
     ELSE Go(t, "note") /\ UNCHANGED <<signLock, shown, display, failed>>
  /\ UNCHANGED <<dmsText, textSent, allSent, enableDms, requested, arg, memory, asks, disabled>>

\* The rest of SetRequestedMessage after a success.
NoteShown(t) ==
  /\ at[t] = "note"
  /\ shown' = arg[t]
  /\ signLock' = "free" /\ Go(t, "idle")
  /\ UNCHANGED <<dmsText, textSent, allSent, enableDms, requested, arg, asks, disabled>>
  /\ SignUnchanged

----------------------------------------------------------------------------
(* AssignMessageOnSign, called by either thread with arg[t] *)

\* A message that changes on the sign is no longer shown.
ForgetShown(t) ==
  /\ at[t] = "assign"
  /\ shown' = IF requested = arg[t] THEN None ELSE shown
  /\ Go(t, "store")
  /\ UNCHANGED <<dmsText, textSent, allSent, enableDms, requested, signLock, arg, asks, disabled>>
  /\ SignUnchanged

\* The text goes to the sign's memory; a failure half way leaves no valid text there.
StoreText(t) ==
  /\ at[t] = "store"
  /\ \/ /\ memory' = [memory EXCEPT ![arg[t]] = dmsText[arg[t]]]
        /\ textSent' = [textSent EXCEPT ![arg[t]] = TRUE]
        /\ Go(t, IF t = "main" THEN "initialize" ELSE "idle")
        /\ UNCHANGED <<failed, allSent>>
     \/ /\ failed < MaxFailed /\ failed' = failed + 1
        /\ memory' \in {memory, [memory EXCEPT ![arg[t]] = None]}
        /\ IF t = "main" THEN allSent' = FALSE ELSE UNCHANGED allSent
        /\ Go(t, "idle")
        /\ UNCHANGED textSent
  /\ UNCHANGED <<dmsText, enableDms, requested, shown, signLock, arg, display, asks, disabled>>

----------------------------------------------------------------------------
(* The message thread *)

\* OnMessageReceived, or OnConfigChanged with Force Message ID.
OnMessageReceived(m) ==
  /\ at["message"] = "idle" /\ asks < MaxAsks
  /\ asks' = asks + 1
  /\ arg' = [arg EXCEPT !["message"] = m] /\ Go("message", "request")
  /\ UNCHANGED <<dmsText, textSent, allSent, enableDms, requested, shown, signLock, disabled>>
  /\ SignUnchanged

\* UpdateConfig and AddSignMessage: a new text is stored, and sent if the sign is enabled.
AddSignMessage(m, text) ==
  /\ at["message"] = "idle" /\ asks < MaxAsks /\ dmsText[m] # text
  /\ asks' = asks + 1
  /\ dmsText' = [dmsText EXCEPT ![m] = text]
  /\ textSent' = [textSent EXCEPT ![m] = FALSE]
  /\ allSent' = FALSE
  /\ arg' = [arg EXCEPT !["message"] = m]
  /\ Go("message", IF enableDms THEN "assign" ELSE "idle")
  /\ UNCHANGED <<enableDms, requested, shown, signLock, disabled>>
  /\ SignUnchanged

\* UpdateConfig: the sign is enabled or disabled.
EnableDms ==
  /\ at["message"] = "idle" /\ asks < MaxAsks
  /\ asks' = asks + 1 /\ enableDms' = ~enableDms
  /\ disabled' = (disabled \/ enableDms)
  /\ UNCHANGED <<dmsText, textSent, allSent, requested, shown, signLock, at, arg>>
  /\ SignUnchanged

----------------------------------------------------------------------------
(* Main *)

\* Mutant: what was requested is not tried again.
MainLoopNoRetry ==
  /\ at["main"] = "idle" /\ ~allSent /\ enableDms
  /\ Go("main", "initialize")
  /\ UNCHANGED <<dmsText, textSent, allSent, enableDms, requested, shown, signLock, arg,
                 asks, disabled>>
  /\ SignUnchanged

\* Once a second: try again to show what was requested, or to send the texts.  The
\* argument is read here, before the lock.
MainLoop ==
  /\ at["main"] = "idle"
  /\ IF allSent
     THEN requested # shown /\ Go("main", "request") /\ arg' = [arg EXCEPT !["main"] = requested]
     ELSE enableDms /\ Go("main", "initialize") /\ UNCHANGED arg
  /\ UNCHANGED <<dmsText, textSent, allSent, enableDms, requested, shown, signLock, asks, disabled>>
  /\ SignUnchanged

\* InitializeSignMessages: the next text not sent yet, or none is left.
InitializeSignMessages ==
  /\ at["main"] = "initialize"
  /\ \/ /\ \A m \in MsgIds : textSent[m]
        /\ Go("main", "initialized") /\ UNCHANGED arg
     \/ \E m \in MsgIds : /\ ~textSent[m]
                          /\ arg' = [arg EXCEPT !["main"] = m]
                          /\ Go("main", "assign")
  /\ UNCHANGED <<dmsText, textSent, allSent, enableDms, requested, shown, signLock, asks, disabled>>
  /\ SignUnchanged

\* Its result is assigned to _isSignMessagesInitialized.
Initialized ==
  /\ at["main"] = "initialized"
  /\ allSent' = TRUE /\ Go("main", "idle")
  /\ UNCHANGED <<dmsText, textSent, enableDms, requested, shown, signLock, arg, asks, disabled>>
  /\ SignUnchanged

ThreadStep(t) == LockAndRequest(t) \/ ShowSignMessage(t) \/ NoteShown(t)
                 \/ ForgetShown(t) \/ StoreText(t)
MainStep == MainLoop \/ InitializeSignMessages \/ Initialized \/ ThreadStep("main")

DmsNext ==
  \/ \E m \in Ids \cup {Unknown} : OnMessageReceived(m)
  \/ \E m \in MsgIds, text \in Texts : AddSignMessage(m, text)
  \/ EnableDms
  \/ MainStep
  \/ ThreadStep("message")

----------------------------------------------------------------------------

\* With a sign that answers, what is requested is displayed in the end.
RequestShown ==
  \A m \in Ids :
    requested = m ~> (display.id = m \/ requested # m \/ failed > 0 \/ disabled \/ ~enableDms)
=============================================================================
