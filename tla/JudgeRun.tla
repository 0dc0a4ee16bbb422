------------------------------ MODULE JudgeRun ------------------------------
(***************************************************************************)
(* One submission judged by JudgeWorkerService.runJob: the loop over the   *)
(* testcases, the totals it keeps in local variables, the rows it writes   *)
(* one by one, and the final status and score. The job may be run again    *)
(* from the start (its worker died and BullMQ redelivered it), over the    *)
(* rows the earlier run has left; a rejudge resets them first.             *)
(***************************************************************************)
EXTENDS Integers, FiniteSets

CONSTANTS
  NTests,      \* number of testcases of the problem
  Points,      \* the score of each of them
  Codes,       \* the verdicts the sandbox may return
  MaxRuns,     \* bound: how often the job is taken by a worker
  MaxRejudges  \* bound: how often a rejudge is asked for

Tests == 1..NTests
VerdictCodes == {"ACCEPTED", "WRONG_ANSWER", "TIME_LIMIT_EXCEEDED", "MEMORY_LIMIT_EXCEEDED",
                 "RUNTIME_ERROR", "COMPILE_ERROR", "SYSTEM_ERROR"}
TestcaseVerdicts == VerdictCodes \ {"SYSTEM_ERROR"}

ASSUME RunAssumption ==
  /\ NTests \in Nat /\ Points \in [Tests -> Nat] /\ Codes \subseteq VerdictCodes
  /\ MaxRuns \in Nat /\ MaxRejudges \in Nat

VARIABLES
  mode,       \* submissions.judge_mode
  status,     \* submissions.status
  score,      \* submissions.score
  rows,       \* submission_testcase_results.verdict, per testcase
  rowScore,   \* submission_testcase_results.score
  pc,         \* the job: "queued", "judge", "store", "finish", "publish", "done", "failed"
  test,       \* the testcase the loop is at
  verdict,    \* its verdict, not yet stored
  totalScore, \* the totals of the loop
  allAc,
  firstFail,
  runs,       \* how often the job has been taken
  rejudges    \* how often a rejudge has been queued

subVars == <<mode, status, score>>
rowVars == <<rows, rowScore>>
sumVars == <<totalScore, allAc, firstFail>>
boundVars == <<runs, rejudges>>
vars == <<subVars, rowVars, pc, test, verdict, sumVars, boundVars>>

NoScore == -1
ResetRows ==
  /\ rows' = [t \in Tests |-> "PENDING"]
  /\ rowScore' = [t \in Tests |-> 0]

Init ==
  /\ mode \in {"ACM", "OI"} /\ status = "QUEUED" /\ score = NoScore
  /\ rows = [t \in Tests |-> "PENDING"] /\ rowScore = [t \in Tests |-> 0]
  /\ pc = "queued" /\ test = 1 /\ verdict = "ACCEPTED"
  /\ totalScore = 0 /\ allAc = TRUE /\ firstFail = "none"
  /\ runs = 0 /\ rejudges = 0

(* A worker takes the job; the locals start afresh, the rows do not.       *)
Start ==
  /\ pc = "queued" /\ runs < MaxRuns
  /\ pc' = "judge" /\ test' = 1 /\ runs' = runs + 1
  /\ totalScore' = 0 /\ allAc' = TRUE /\ firstFail' = "none"
  /\ status' = IF status = "REJUDGE_QUEUED" THEN "REJUDGING" ELSE "JUDGING"
  /\ UNCHANGED <<mode, score, rowVars, verdict, rejudges>>

mapVerdict(code) == IF code = "SYSTEM_ERROR" THEN "RUNTIME_ERROR" ELSE code
PointsFor(v, t) == IF v = "ACCEPTED" THEN Points[t] ELSE 0

\* Mutant: the last failure is remembered, not the first.
JudgeOneLastFail ==
  /\ pc = "judge" /\ test \in Tests
  /\ \E code \in Codes :
       LET v == mapVerdict(code)
       IN  /\ verdict' = v
           /\ totalScore' = totalScore + PointsFor(v, test)
           /\ allAc' = (allAc /\ v = "ACCEPTED")
           /\ firstFail' = IF v # "ACCEPTED" THEN v ELSE firstFail
  /\ pc' = "store"
  /\ UNCHANGED <<subVars, rowVars, test, boundVars>>

JudgeOne ==
  /\ pc = "judge" /\ test \in Tests
  /\ \E code \in Codes :
       LET v == mapVerdict(code)
       IN  /\ verdict' = v
           /\ totalScore' = totalScore + PointsFor(v, test)
           /\ allAc' = (allAc /\ v = "ACCEPTED")
           /\ firstFail' = IF v # "ACCEPTED" /\ firstFail = "none" THEN v ELSE firstFail
  /\ pc' = "store"
  /\ UNCHANGED <<subVars, rowVars, test, boundVars>>

(* ACM mode leaves the loop after the first failure.                       *)
Store ==
  /\ pc = "store"
  /\ rows' = [rows EXCEPT ![test] = verdict]
  /\ rowScore' = [rowScore EXCEPT ![test] = PointsFor(verdict, test)]
  /\ pc' = IF mode = "ACM" /\ ~allAc THEN "finish" ELSE "judge"
  /\ test' = test + 1
  /\ UNCHANGED <<subVars, verdict, sumVars, boundVars>>

LoopDone == pc = "finish" \/ (pc = "judge" /\ test \notin Tests)

Category(v) ==
  IF v \in {"TIME_LIMIT_EXCEEDED", "COMPILE_ERROR", "MEMORY_LIMIT_EXCEEDED", "RUNTIME_ERROR"}
  THEN v ELSE "WRONG_ANSWER"

FinalStatus ==
  CASE allAc -> "ACCEPTED"
    [] ~allAc /\ mode = "OI" /\ totalScore > 0 -> "WRONG_ANSWER"
    [] OTHER -> Category(firstFail)

\* Mutant: partial points in ACM mode too.
FinalScorePartial == totalScore
FinalScore == IF mode = "OI" \/ allAc THEN totalScore ELSE 0

Complete ==
  /\ LoopDone /\ pc' = "publish"
  /\ status' = FinalStatus /\ score' = FinalScore
  /\ UNCHANGED <<mode, rowVars, test, verdict, sumVars, boundVars>>

Publish ==
  /\ pc = "publish" /\ pc' = "done"
  /\ UNCHANGED <<subVars, rowVars, test, verdict, sumVars, boundVars>>

InRun == pc \in {"judge", "store", "finish", "publish"}

(* Anything throws (storage, sandbox, database, Redis): failSubmission     *)
(* writes the status and leaves the score.                                 *)
Throw ==
  /\ InRun /\ pc' = "failed" /\ status' = "SYSTEM_ERROR"
  /\ UNCHANGED <<mode, score, rowVars, test, verdict, sumVars, boundVars>>

(* The worker dies before BullMQ knows the outcome; the job is redelivered. *)
Crash ==
  /\ pc # "queued" /\ pc' = "queued"
  /\ UNCHANGED <<subVars, rowVars, test, verdict, sumVars, boundVars>>

(* enqueueRejudge of a terminal submission.                                *)
Rejudge ==
  /\ pc \in {"done", "failed"} /\ rejudges < MaxRejudges
  /\ pc' = "queued" /\ rejudges' = rejudges + 1 /\ runs' = 0
  /\ status' = "REJUDGE_QUEUED" /\ score' = NoScore
  /\ ResetRows
  /\ UNCHANGED <<mode, test, verdict, sumVars>>

----------------------------------------------------------------------------
(* What the page of the submission shows. *)
Passed == {t \in Tests : rows[t] = "ACCEPTED"}

isSubmissionTerminal(s) == s \in VerdictCodes \union {"SECURITY_ERROR"}

(* getDetailByNumber: the rows come in no order of the code's.             *)
Detail == [status |-> status, mode |-> mode, results |-> {<<t, rows[t]>> : t \in Tests}]

ResultStatus ==
  CASE ~isSubmissionTerminal(Detail.status) -> "judging"
    [] Detail.status = "ACCEPTED" -> "success"
    [] Detail.status \in TestcaseVerdicts \ {"ACCEPTED"} -> "warning"
    [] Detail.status \in {"SYSTEM_ERROR", "SECURITY_ERROR"} -> "error"

(* TestcaseResultTable: in ACM mode the first row that is not accepted, if *)
(* there is one, one that was never judged included.                       *)
ResultTables ==
  LET failed == {r \in Detail.results : r[2] # "ACCEPTED"}
  IN  IF Detail.mode = "OI" THEN {Detail.results}
      ELSE IF failed = {} THEN {{}} ELSE {{r} : r \in failed}

(* formatOiScore, rounded as Math.round does.                              *)
OiPercent == (200 * Cardinality(Passed) + NTests) \div (2 * NTests)

----------------------------------------------------------------------------
Next == Start \/ JudgeOne \/ Store \/ Complete \/ Publish \/ Throw \/ Crash \/ Rejudge

Spec == Init /\ [][Next]_vars

----------------------------------------------------------------------------
Judged == pc \in {"publish", "done"}
FirstFailed(t) == t \in Tests \ Passed /\ \A u \in 1..(t - 1) : u \in Passed

(* The status a run writes is the one its rows call for, whatever an       *)
(* earlier, interrupted run has left in them: accepted if every testcase   *)
(* is, otherwise the verdict of the first failed one; in OI mode a partial *)
(* success is a wrong answer.                                              *)
VerdictOfRows ==
  Judged =>
    IF Passed = Tests THEN status = "ACCEPTED"
    ELSE IF mode = "OI" /\ \E t \in Passed : Points[t] > 0 THEN status = "WRONG_ANSWER"
    ELSE \E t \in Tests : FirstFailed(t) /\ status = rows[t]

PartialSums(f) == LET s[n \in 0..NTests] == IF n = 0 THEN 0 ELSE s[n - 1] + f[n] IN s
Total(f) == PartialSums(f)[NTests]

(* The score is the sum of the points of the passed testcases, which are   *)
(* also those of the rows; in ACM mode all of them or none. The page of    *)
(* the submission, which computes its own from the rows, agrees: success   *)
(* with nothing in the table of ACM mode, 100 percent in OI mode (of a     *)
(* submission without testcases it shows no percentage).                   *)
ScoreOfRows ==
  Judged =>
    /\ IF mode = "OI"
       THEN /\ score = Total([t \in Tests |-> IF t \in Passed THEN Points[t] ELSE 0])
            /\ score = Total(rowScore)
            /\ Tests # {} /\ Passed = Tests => OiPercent = 100
       ELSE /\ score = IF Passed = Tests THEN Total(Points) ELSE 0
            /\ \A table \in ResultTables : table = {} <=> Passed = Tests
    /\ ResultStatus = IF Passed = Tests THEN "success" ELSE "warning"
=============================================================================
