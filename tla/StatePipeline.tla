--------------------------- MODULE StatePipeline ---------------------------
(***************************************************************************)
(* TmxControl::save_state and upload_state.  The caller spawns three       *)
(* processes that are joined by two pipes (mysqldump, gzip, openssl, or    *)
(* openssl, gunzip, mysql) and waits for them in that order.  A reader     *)
(* sees the end of its pipe when nobody holds the write end, a writer is   *)
(* killed when nobody holds the read end, so it matters who holds what.    *)
(***************************************************************************)
EXTENDS Integers, FiniteSets

CONSTANTS
  Blocks,       \* the length of the dump
  PipeSize,     \* the capacity of a pipe (external)
  MaxFailures   \* bound: processes that fail on their own

Ends == {"r1", "w1", "r2", "w2"}   \* pipe1[0], pipe1[1], pipe2[0], pipe2[1]
Children == 1..3

VARIABLES
  call,      \* "save" or "upload"
  at,        \* the next step of the caller
  result,    \* what it returned: "none", "true" or "false"
  holds,     \* who holds which ends; 0 is the caller
  child,     \* each process: "none", "running", "ok" or "failed"
  pipe,      \* the blocks in each pipe
  carried,   \* blocks read by the second process and not yet written
  sent,      \* blocks written by the first process
  arrived,   \* blocks read by the third
  failures

pipelineVars == <<call, at, result, holds, child, pipe, carried, sent, arrived, failures>>

PipelineInit ==
  /\ call \in {"save", "upload"}
  /\ at = "validate" /\ result = "none"
  /\ holds = [p \in 0..3 |-> IF p = 0 THEN Ends ELSE {}]
  /\ child = [c \in Children |-> "none"]
  /\ pipe = [p \in 1..2 |-> 0]
  /\ carried = 0 /\ sent = 0 /\ arrived = 0 /\ failures = 0

DataUnchanged == UNCHANGED <<pipe, carried, sent, arrived>>

----------------------------------------------------------------------------
(* The caller *)

\* The ends a process uses as its input and output.
Uses(c) == CASE c = 1 -> {"w1"} [] c = 2 -> {"r1", "w2"} [] c = 3 -> {"r2"}

\* The ends its file actions close, the ones it uses apart.
SaveClosesInChild(c) == Ends
UploadClosesInChild(c) == IF c = 3 THEN {"r2"} ELSE {"r1", "r2", "w2"}
ClosesInChild(c) == IF call = "save" THEN SaveClosesInChild(c) ELSE UploadClosesInChild(c)

\* Mutant: the caller keeps the write end of the second pipe.
SaveClosesLess(c) == CASE c = 1 -> {"w1"} [] c = 2 -> {"r1"} [] c = 3 -> {"r2"}

\* The ends the caller closes once the process is spawned.
SaveCloses(c) == CASE c = 1 -> {"w1"} [] c = 2 -> {"r1", "w2"} [] c = 3 -> {"r2"}
UploadCloses(c) == CASE c = 1 -> {"w1"} [] c = 2 -> {"r1", "w2"} [] c = 3 -> {}
ClosesAfterSpawn(c) == IF call = "save" THEN SaveCloses(c) ELSE UploadCloses(c)

Fail ==
  /\ at' = "returned" /\ result' = "false"
  /\ holds' = [holds EXCEPT ![0] = {}]

\* Arguments with illegal characters, or a file that does not exist.
Validate ==
  /\ at = "validate"
  /\ \/ at' = "spawn1" /\ UNCHANGED <<result, holds>>
     \/ Fail
  /\ DataUnchanged /\ UNCHANGED <<call, child, failures>>

SpawnStep(c) == CASE c = 1 -> "spawn1" [] c = 2 -> "spawn2" [] c = 3 -> "spawn3"
WaitStep(c) == CASE c = 1 -> "wait1" [] c = 2 -> "wait2" [] c = 3 -> "wait3"
AfterSpawn(c) == IF c = 3 THEN "wait1" ELSE SpawnStep(c + 1)

Spawn(c) ==
  /\ at = SpawnStep(c) /\ at' = AfterSpawn(c)
  /\ \/ /\ child' = [child EXCEPT ![c] = "running"]
        /\ holds' = [holds EXCEPT ![0] = @ \ ClosesAfterSpawn(c),
                                  ![c] = Uses(c) \cup (holds[0] \ ClosesInChild(c))]
        /\ UNCHANGED failures
     \/ /\ failures < MaxFailures /\ failures' = failures + 1
        /\ child' = [child EXCEPT ![c] = "failed"]
        /\ holds' = [holds EXCEPT ![0] = @ \ ClosesAfterSpawn(c)]
  /\ DataUnchanged /\ UNCHANGED <<call, result>>

\* save_state cannot create its output file.
OpenFails ==
  /\ call = "save" /\ at = "spawn3"
  /\ Fail
  /\ DataUnchanged /\ UNCHANGED <<call, child, failures>>

AfterWait(c) == IF c = 3 THEN "returned" ELSE WaitStep(c + 1)

\* check_posix_process_status
WaitFor(c) ==
  /\ at = WaitStep(c) /\ child[c] # "running"
  /\ IF child[c] = "failed" THEN Fail
     ELSE /\ at' = AfterWait(c)
          /\ result' = IF c = 3 THEN "true" ELSE result
          /\ holds' = IF c = 3 THEN [holds EXCEPT ![0] = {}] ELSE holds
  /\ DataUnchanged /\ UNCHANGED <<call, child, failures>>

Caller == Validate \/ OpenFails \/ (\E c \in Children : Spawn(c) \/ WaitFor(c))

----------------------------------------------------------------------------
(* The processes and the pipes (external) *)

Held(e) == \E p \in 0..3 : e \in holds[p]

Exit(c, how) ==
  /\ child' = [child EXCEPT ![c] = how]
  /\ holds' = [holds EXCEPT ![c] = {}]

ReadEnd(p) == IF p = 1 THEN "r1" ELSE "r2"

\* A write blocks while the pipe is full, and kills when it has no reader.
Write(c, p) ==
  IF ~Held(ReadEnd(p)) THEN Exit(c, "failed") /\ UNCHANGED pipe
  ELSE /\ pipe[p] < PipeSize
       /\ pipe' = [pipe EXCEPT ![p] = @ + 1]
       /\ UNCHANGED <<child, holds>>

First ==
  /\ child[1] = "running"
  /\ IF sent = Blocks THEN Exit(1, "ok") /\ UNCHANGED <<pipe, sent>>
     ELSE Write(1, 1) /\ sent' = sent + 1
  /\ UNCHANGED <<carried, arrived>>

Second ==
  /\ child[2] = "running"
  /\ CASE carried > 0 -> Write(2, 2) /\ carried' = 0
       [] carried = 0 /\ pipe[1] > 0 ->
            pipe' = [pipe EXCEPT ![1] = @ - 1] /\ carried' = 1 /\ UNCHANGED <<child, holds>>
       [] carried = 0 /\ pipe[1] = 0 ->
            ~Held("w1") /\ Exit(2, "ok") /\ UNCHANGED <<pipe, carried>>
  /\ UNCHANGED <<sent, arrived>>

Third ==
  /\ child[3] = "running"
  /\ IF pipe[2] > 0
     THEN /\ pipe' = [pipe EXCEPT ![2] = @ - 1] /\ arrived' = arrived + 1
          /\ UNCHANGED <<child, holds>>
     ELSE ~Held("w2") /\ Exit(3, "ok") /\ UNCHANGED <<pipe, arrived>>
  /\ UNCHANGED <<sent, carried>>

Process(c) ==
  /\ CASE c = 1 -> First [] c = 2 -> Second [] c = 3 -> Third
  /\ UNCHANGED <<call, at, result, failures>>

\* A process ends with an error: no access to the database, a wrong passphrase, ...
ProcessFails(c) ==
  /\ child[c] = "running"
  /\ failures < MaxFailures /\ failures' = failures + 1
  /\ Exit(c, "failed")
  /\ DataUnchanged /\ UNCHANGED <<call, at, result>>

PipelineNext == Caller \/ (\E c \in Children : Process(c) \/ ProcessFails(c))

----------------------------------------------------------------------------
(* Properties *)

\* save_state returns, whatever process fails, with no end of a pipe kept open; so does
\* upload_state, unless mysql fails while the caller itself still holds the read end of
\* its input.
StateCallReturns ==
  <>(at = "returned" \/ (call = "upload" /\ child[3] = "failed"))
=============================================================================
