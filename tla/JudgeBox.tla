------------------------------ MODULE JudgeBox ------------------------------
(***************************************************************************)
(* JudgeRun and SandboxRun together: the loop of runJob hands one testcase *)
(* after another to judgeOneTestcase, and goes on when the sandbox has     *)
(* come to a verdict, stops the job when it throws, and is gone with the   *)
(* process when an error of the stdin pipe ends it.                        *)
(***************************************************************************)
EXTENDS JudgeRun

CONSTANTS Compiled, MayHold, BigInput   \* of SandboxRun

VARIABLES
  boxPc,      \* pc of the sandbox, "idle" outside of a testcase
  boxVerdict, \* what judgeOneTestcase returns
  child, cause, held, unread, output, late, armed, settled, workDir

Box == INSTANCE SandboxRun WITH pc <- boxPc, verdict <- boxVerdict

boxVars == <<boxPc, boxVerdict, child, cause, held, unread, output, late, armed, settled, workDir>>
allVars == <<vars, boxVars>>

Idle == boxPc = "idle"
LeaveBox ==
  /\ boxPc' = "idle" /\ boxVerdict' = "none"
  /\ child' = "none" /\ cause' = "none" /\ held' = FALSE /\ unread' = FALSE
  /\ output' = "none" /\ late' = FALSE /\ armed' = FALSE /\ settled' = "none"
  /\ workDir' = FALSE

BoxInit ==
  /\ Init
  /\ boxPc = "idle" /\ boxVerdict = "none" /\ child = "none" /\ cause = "none"
  /\ held = FALSE /\ unread = FALSE /\ output = "none" /\ late = FALSE
  /\ armed = FALSE /\ settled = "none" /\ workDir = FALSE

(* judgeOneTestcase is called: the state that SandboxRun starts from.      *)
EnterBox ==
  /\ pc = "judge" /\ test \in Tests /\ Idle
  /\ boxPc' = "compile" /\ workDir' = TRUE
  /\ held' \in {FALSE, MayHold} /\ unread' = BigInput
  /\ UNCHANGED <<vars, boxVerdict, child, cause, output, late, armed, settled>>

BoxStep == ~Idle /\ Box!Next /\ UNCHANGED vars

TakeVerdict ==
  /\ boxPc = "done" /\ boxVerdict \in Codes
  /\ JudgeOne /\ verdict' = mapVerdict(boxVerdict)
  /\ LeaveBox

BoxThrows == boxPc = "done" /\ boxVerdict = "thrown" /\ Throw /\ LeaveBox

(* The process of the worker dies, of the pipe's error or of anything.     *)
BoxCrashes == Crash /\ LeaveBox

Outside ==
  /\ Idle
  /\ Start \/ Store \/ Complete \/ Publish \/ Throw \/ Rejudge
  /\ UNCHANGED boxVars

BoxNext == EnterBox \/ BoxStep \/ TakeVerdict \/ BoxThrows \/ BoxCrashes \/ Outside

BoxFairness ==
  /\ WF_allVars(~Idle /\ Box!Alive /\ Box!Node /\ UNCHANGED vars)
  /\ WF_allVars(~Idle /\ Box!Alive /\ Box!TimePasses /\ UNCHANGED vars)
  /\ WF_allVars(~Idle /\ Box!Alive /\ Box!KillEnds /\ UNCHANGED vars)

BoxSpec == BoxInit /\ [][BoxNext]_allVars /\ BoxFairness

-----------------------------------------------------------------------------
(* A testcase is accepted only if the program ended by itself, within the  *)
(* time limit, and wrote what was expected: none is for what it wrote      *)
(* before it was killed.                                                   *)
AcceptedHonest == Box!AcceptedHonest

(* Every testcase comes to a verdict or an exception and its directory is  *)
(* removed, unless the process dies, also when the program loops or leaves *)
(* a process that keeps its output open.                                   *)
EveryRunEnds ==
  ~Idle ~> (boxPc \in {"idle", "crashed"} \/ (boxPc = "done" /\ ~workDir))
=============================================================================
