----------------------------- MODULE TimPlugin -----------------------------
(***************************************************************************)
(* The TIM plugin (v2i-hub/TimPlugin): a traveler information message      *)
(* (TIM) comes from a configured file or from an HTTP POST, and Main       *)
(* broadcasts it while it is active.  The receive thread, the web service  *)
(* thread and Main share _timMsgPtr, _isTimFileNew and _isTimUpdated;      *)
(* Main holds _timFileLock while it sends and while it sleeps after that.  *)
(*                                                                         *)
(* A TIM is a model value with a phase: before, during or after its time.  *)
(***************************************************************************)
EXTENDS Integers

CONSTANTS
    FileTims,         \* TIMs that configured files hold
    PostTims,         \* TIMs that are posted
    NoTim,            \* no message
    MaxTimFiles,      \* bound on configuration updates
    MaxPosts          \* bound on POST requests

Tims == FileTims \cup PostTims

VARIABLES
    timPhase,         \* TIM -> "future", "active", "over"
    timFile,          \* what the file _timFile holds
    timFileNew,       \* _isTimFileNew
    timMsg,           \* _timMsgPtr
    timUpdated,       \* _isTimUpdated
    timAt,            \* where Main is
    timPost,          \* the POST request waiting for _timFileLock
    timAnswers,       \* answers of the web service: <<TIM, status>>
    timSent,          \* the TIM broadcast last
    timFiles, posts

timVars == <<timPhase, timFile, timFileNew, timMsg, timUpdated, timAt, timPost,
             timAnswers, timSent, timFiles, posts>>

TimInit ==
    /\ timPhase \in [Tims -> {"future", "active"}]
    /\ timFile = NoTim
    /\ timFileNew = FALSE
    /\ timMsg = NoTim
    /\ timUpdated = FALSE
    /\ timAt = "top"
    /\ timPost = NoTim
    /\ timAnswers = {}
    /\ timSent = NoTim
    /\ timFiles = 0
    /\ posts = 0

IsTimActive(m) == m # NoTim /\ timPhase[m] = "active"

TimTimePasses ==
    /\ \E m \in Tims :
         /\ timPhase[m] # "over"
         /\ timPhase' = [timPhase EXCEPT ![m] = IF @ = "future" THEN "active" ELSE "over"]
    /\ UNCHANGED <<timFile, timFileNew, timMsg, timUpdated, timAt, timPost, timAnswers,
                   timSent, timFiles, posts>>

\* UpdateConfigSettings in the receive thread, for a file that exists.
UpdateTimSettings ==
    /\ timFiles < MaxTimFiles /\ timAt # "terminated"
    /\ timFiles' = timFiles + 1
    /\ timFile' \in FileTims
    /\ timFileNew' = TRUE
    /\ UNCHANGED <<timPhase, timMsg, timUpdated, timAt, timPost, timAnswers, timSent, posts>>

-----------------------------------------------------------------------------
(* The web service thread.                                                 *)

\* A POST request arrives; an empty one is answered at once.
TimRequest ==
    /\ timPost = NoTim
    /\ posts < MaxPosts
    /\ posts' = posts + 1
    /\ timPost' \in PostTims
    /\ UNCHANGED <<timPhase, timFile, timFileNew, timMsg, timUpdated, timAt, timAnswers,
                   timSent, timFiles>>

\* TimRequestHandler under _timFileLock: the message is replaced, or kept when its
\* XML is refused.
TimRequestHandler ==
    /\ timPost # NoTim
    /\ timAt \notin {"locked", "terminated"}
    /\ \/ /\ timMsg' = timPost
          /\ timUpdated' = TRUE
          /\ timAnswers' = timAnswers \cup {<<timPost, "Created">>}
       \/ /\ timAnswers' = timAnswers \cup {<<timPost, "BadRequest">>}
          /\ UNCHANGED <<timMsg, timUpdated>>
    /\ timPost' = NoTim
    /\ UNCHANGED <<timPhase, timFile, timFileNew, timAt, timSent, timFiles, posts>>

-----------------------------------------------------------------------------
(* Main.                                                                   *)

\* A new file is read when the outer loop comes round.  readTimFile throws for a file
\* that is gone or cannot be read, and Main ends with the exception.
ReadTimFile ==
    /\ timAt = "top"
    /\ timFileNew
    /\ timFileNew' = FALSE
    /\ \/ timMsg' = timFile /\ timAt' = "check"
       \/ timMsg' = timMsg /\ timAt' = "terminated"
    /\ UNCHANGED <<timPhase, timFile, timUpdated, timPost, timAnswers, timSent,
                   timFiles, posts>>

NoNewTimFile ==
    /\ timAt = "top"
    /\ ~timFileNew
    /\ timAt' = "check"
    /\ UNCHANGED <<timPhase, timFile, timFileNew, timMsg, timUpdated, timPost, timAnswers,
                   timSent, timFiles, posts>>

\* The condition of the inner loop, evaluated without the lock; when it fails Main
\* sleeps and goes back to the outer loop.
CheckTimActive ==
    /\ timAt = "check"
    /\ timAt' = IF IsTimActive(timMsg) THEN "enter" ELSE "top"
    /\ UNCHANGED <<timPhase, timFile, timFileNew, timMsg, timUpdated, timPost, timAnswers,
                   timSent, timFiles, posts>>

BroadcastTimUpdated ==
    /\ timAt = "enter"
    /\ timUpdated' = FALSE
    /\ timSent' = IF timUpdated THEN timMsg ELSE timSent
    /\ timAt' = "locked"
    /\ UNCHANGED <<timPhase, timFile, timFileNew, timMsg, timPost, timAnswers, timFiles,
                   posts>>

\* The body of the inner loop: with the lock, the current message is broadcast.
BroadcastTim ==
    /\ timAt = "enter"
    /\ timUpdated' = FALSE
    /\ timSent' = timMsg
    /\ timAt' = "locked"
    /\ UNCHANGED <<timPhase, timFile, timFileNew, timMsg, timPost, timAnswers, timFiles,
                   posts>>

\* The sleep of the inner loop, still with the lock, and its release.
SleepTimInterval ==
    /\ timAt = "locked"
    /\ timAt' = "check"
    /\ UNCHANGED <<timPhase, timFile, timFileNew, timMsg, timUpdated, timPost, timAnswers,
                   timSent, timFiles, posts>>

TimMain ==
    \/ ReadTimFile \/ NoNewTimFile \/ CheckTimActive \/ BroadcastTim \/ SleepTimInterval

TimNext ==
    \/ TimTimePasses \/ UpdateTimSettings \/ TimRequest \/ TimRequestHandler \/ TimMain

TimSpec == TimInit /\ [][TimNext]_timVars

-----------------------------------------------------------------------------
(* Properties.                                                             *)

\* A message that stays the current one and stays active is what the plugin
\* broadcasts in the end, whether it was posted or read from a file and however
\* the threads interleave.
CurrentTimSent ==
    \A m \in Tims :
        <>[](timMsg = m /\ IsTimActive(m) /\ timAt # "terminated") => <>[](timSent = m)

=============================================================================
