----------------------------- MODULE SandboxRun -----------------------------
(***************************************************************************)
(* One testcase in the sandbox: judgeOneTestcase compiles the program,     *)
(* spawns it with the input on its stdin and classifies what comes back.   *)
(* The timer, the output limit, the spawn error, the end of the program    *)
(* and an error of the stdin pipe race; the first of them settles the run. *)
(***************************************************************************)
EXTENDS Naturals

CONSTANTS
  Compiled,  \* the language is compiled
  MayHold,   \* the program may leave a process that keeps its output open
  BigInput   \* the input is larger than the pipe to the program can hold

VARIABLES
  pc,        \* "compile", "spawn", "running", "classify", "cleanup", "done", "crashed"
  child,     \* "none", "alive", "killed", "ended" or "closed"
  cause,     \* how the program ended: "none", "exit", "signal", "term", "oom",
             \* "kill"
  held,      \* its output stays open after its end
  unread,    \* input it has not read
  output,    \* "none", "right", "wrong" or "huge" (over the output limit)
  late,      \* the time limit of the problem has passed
  armed,     \* the timer, set to the time limit and half a second, is on
  settled,   \* of the promise: "none", "resolved", "timeLimit" or "error"
  verdict,   \* what judgeOneTestcase returns, "thrown" if it throws
  workDir    \* the working directory exists

vars == <<pc, child, cause, held, unread, output, late, armed, settled, verdict, workDir>>

Init ==
  /\ pc = "compile" /\ child = "none" /\ cause = "none"
  /\ held \in {FALSE, MayHold} /\ unread = BigInput
  /\ output = "none" /\ late = FALSE /\ armed = FALSE
  /\ settled = "none" /\ verdict = "none" /\ workDir = TRUE

Return(v) == pc' = "cleanup" /\ verdict' = v

(* compileIfNeeded reads the compiler's stderr only: a compiler that       *)
(* cannot be started counts as one that found no error. One that does not  *)
(* end in time throws, outside the try block of runTestcase.               *)
Compile ==
  /\ pc = "compile"
  /\ \/ pc' = "spawn" /\ verdict' = verdict
     \/ Compiled /\ Return("COMPILE_ERROR")
     \/ Compiled /\ Return("thrown")
  /\ UNCHANGED <<child, cause, held, unread, output, late, armed, settled, workDir>>

Spawn ==
  /\ pc = "spawn" /\ pc' = "running"
  /\ child' = "alive" /\ armed' = TRUE
  /\ UNCHANGED <<cause, held, unread, output, late, settled, verdict, workDir>>

(* `finish`: the first event settles the promise and stops the timer.      *)
Settle(o) ==
  IF settled = "none"
  THEN settled' = o /\ armed' = FALSE /\ pc' = "classify"
  ELSE UNCHANGED <<settled, armed, pc>>

(* The binary is missing, or was never made: the 'error' event.            *)
SpawnError ==
  /\ pc = "spawn" /\ Settle("error")
  /\ UNCHANGED <<child, cause, held, unread, output, late, verdict, workDir>>

----------------------------------------------------------------------------
(* The program and the operating system.                                   *)

Running == child \in {"alive", "killed"}

TimePasses ==
  /\ pc = "running" /\ ~late /\ late' = TRUE
  /\ UNCHANGED <<pc, child, cause, held, unread, output, armed, settled, verdict, workDir>>

ReadInput ==
  /\ Running /\ unread /\ unread' = FALSE
  /\ UNCHANGED <<pc, child, cause, held, output, late, armed, settled, verdict, workDir>>

End(c) ==
  /\ Running /\ child' = "ended" /\ cause' = c
  /\ UNCHANGED <<pc, held, unread, output, late, armed, settled, verdict, workDir>>

(* It returns from main, dies of a signal of its own or of a SIGTERM sent  *)
(* by whomever, is killed by the kernel for want of memory, or the SIGKILL *)
(* sent to it takes effect.                                                *)
ProgramEnds == \E c \in {"exit", "signal", "term", "oom"} : End(c)
KillEnds == child = "killed" /\ End("kill")

----------------------------------------------------------------------------
(* The event handlers of execWithStdin.                                    *)

Kill == child' = IF child = "alive" THEN "killed" ELSE child

(* Output may be read after the end of the program that wrote it; over the *)
(* limit it is never the expected one.                                     *)
OnData(o) ==
  /\ Running \/ child = "ended"
  /\ output = "none" /\ output' = o
  /\ IF o = "huge" THEN Kill ELSE UNCHANGED child
  /\ UNCHANGED <<pc, cause, held, unread, late, armed, settled, verdict, workDir>>

\* Mutant: the timer only kills, and leaves the rest to the close event.
OnTimeoutKillOnly ==
  /\ armed /\ late /\ Kill /\ armed' = FALSE
  /\ UNCHANGED <<pc, cause, held, unread, output, late, settled, verdict, workDir>>

OnTimeout ==
  /\ armed /\ late /\ Kill /\ Settle("timeLimit")
  /\ UNCHANGED <<cause, held, unread, output, late, verdict, workDir>>

\* Mutant: the signal is not looked at.
OnCloseAnySignal ==
  /\ child = "ended" /\ ~held /\ child' = "closed"
  /\ Settle("resolved")
  /\ UNCHANGED <<cause, held, unread, output, late, verdict, workDir>>

(* The close event waits for the output to be closed by everyone. A        *)
(* SIGKILL or SIGTERM, whosever it was, counts as the time limit; any      *)
(* other end resolves.                                                     *)
OnClose ==
  /\ child = "ended" /\ ~held /\ child' = "closed"
  /\ Settle(IF cause \in {"term", "oom", "kill"} THEN "timeLimit" ELSE "resolved")
  /\ UNCHANGED <<cause, held, unread, output, late, verdict, workDir>>

(* Nobody listens to errors of child.stdin: writing to a program that has  *)
(* ended raises an uncaught exception, unless the close event is first.    *)
OnStdinError ==
  /\ child = "ended" /\ unread /\ pc # "crashed" /\ pc' = "crashed"
  /\ UNCHANGED <<child, cause, held, unread, output, late, armed, settled, verdict, workDir>>

----------------------------------------------------------------------------
(* runTestcase: the exit code and the signal play no part.                 *)
Classify ==
  /\ pc = "classify"
  /\ Return(CASE settled = "timeLimit" -> "TIME_LIMIT_EXCEEDED"
              [] settled = "error" -> "RUNTIME_ERROR"
              [] settled = "resolved" /\ late -> "TIME_LIMIT_EXCEEDED"
              [] settled = "resolved" /\ ~late /\ output = "right" -> "ACCEPTED"
              [] OTHER -> "WRONG_ANSWER")
  /\ UNCHANGED <<child, cause, held, unread, output, late, armed, settled, workDir>>

RemoveDir ==
  /\ pc = "cleanup" /\ pc' = "done" /\ workDir' = FALSE
  /\ UNCHANGED <<child, cause, held, unread, output, late, armed, settled, verdict>>

Program ==
  \/ ReadInput \/ ProgramEnds
  \/ \E o \in {"right", "wrong", "huge"} : OnData(o)

Node ==
  \/ Compile \/ Spawn \/ SpawnError \/ OnTimeout \/ OnClose \/ Classify \/ RemoveDir

Alive == pc # "crashed"
Next ==
  /\ Alive
  /\ Program \/ KillEnds \/ TimePasses \/ Node \/ OnStdinError

(* Time passes, a SIGKILL takes effect, and Node runs its handlers; the    *)
(* program may loop for ever.                                              *)
Spec == Init /\ [][Next]_vars
FairSpec ==
  Spec /\ WF_vars(Alive /\ Node) /\ WF_vars(Alive /\ TimePasses) /\ WF_vars(Alive /\ KillEnds)

----------------------------------------------------------------------------
(* Whatever races (the timer against the end of the program, the output    *)
(* limit against the timer), the first event decides and no later one      *)
(* changes it.                                                             *)
SettledOnce == [][settled # "none" => settled' = settled]_vars

(* A testcase is accepted only if the program ended by itself, within the  *)
(* time limit, and what it wrote is what was expected: none is accepted    *)
(* for the part it wrote before it was killed.                             *)
AcceptedHonest ==
  verdict = "ACCEPTED" => output = "right" /\ ~late /\ cause \in {"exit", "signal"}

(* Every run comes to a verdict or an exception and removes its directory, *)
(* also when the program loops or leaves a process that keeps its output   *)
(* open.                                                                   *)
EveryRunEnds == <>(pc = "crashed" \/ (pc = "done" /\ ~workDir))
=============================================================================
