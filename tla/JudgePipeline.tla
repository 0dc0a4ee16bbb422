--------------------------- MODULE JudgePipeline ---------------------------
(***************************************************************************)
(* The judging pipeline: HTTP handlers and the start-up recovery of the    *)
(* API process prepare a submission, take a token of the global in-flight  *)
(* counter and put a job on the BullMQ queue; worker slots of the judge    *)
(* processes take jobs, write verdicts and give the token back.            *)
(*                                                                         *)
(* Every await of the code ends an action: two actions of different        *)
(* callers or workers may be interleaved between any two awaits.           *)
(***************************************************************************)
EXTENDS Integers, FiniteSets

CONSTANTS
  Subs,         \* submissions that may be created
  Users,        \* concurrent POST /submissions handlers
  Admins,       \* concurrent admin rejudge handlers
  Boot,         \* the start-up recovery pass of the API process
  NoJob,        \* the job of an idle handler or an idle worker slot
  Workers,      \* worker slots: judge processes times JUDGE_WORKER_CONCURRENCY
  NTests,       \* number of testcases of the problem
  AcmSubs,      \* the submissions judged in ACM mode, the others in OI mode
  MaxInflight,  \* JUDGE_GLOBAL_MAX_INFLIGHT
  MaxRejudges,  \* bound: rejudges an administrator starts for one submission
  FaultKinds,   \* the kinds of fault the environment may inject
  MaxFaults     \* bound: how many of them

Calls == Users \cup Admins \cup {Boot}

(* A job id is the submission, the path that made it and a number:        *)
(* `id`, `id:rejudge:<count>` or `id:recover:<time>`.                     *)
JobIds == Subs \X {"first", "rejudge", "recover"} \X Nat
SubOf(j)  == j[1]
PathOf(j) == j[2]
NumOf(j)  == j[3]

ASSUME ConstantsAssumption ==
  /\ IsFiniteSet(Subs) /\ IsFiniteSet(Calls) /\ IsFiniteSet(Workers)
  /\ Users \cap Admins = {} /\ Boot \notin Users \cup Admins
  /\ NTests \in Nat /\ MaxInflight \in Nat
  /\ MaxRejudges \in Nat /\ MaxFaults \in Nat
  /\ AcmSubs \subseteq Subs
  /\ NoJob \notin JobIds

VARIABLES
  status,       \* submissions.status, "none" before the row exists
  scored,       \* submissions.score IS NOT NULL
  rejudgeCount, \* submissions.rejudge_count
  rows,         \* submission_testcase_results.verdict, per testcase
  waiting,      \* BullMQ: ids of the jobs waiting to be taken
  active,       \* BullMQ: ids of the jobs a worker has taken
  finished,     \* BullMQ: ids of the completed and failed jobs still kept
  stalledOnce,  \* BullMQ: ids of the jobs redelivered once (maxStalledCount 1)
  inflight,     \* the Redis in-flight counter
  call,         \* the handlers of the API process
  todo,         \* submissions the recovery pass has still to re-enqueue
  boot,         \* number of restarts of the API process
  worker,       \* the worker slots
  seen,         \* the kinds of fault that have happened
  nfaults       \* how many faults have happened

subVars   == <<status, scored, rejudgeCount, rows>>
queueVars == <<waiting, active, finished, stalledOnce>>
apiVars   == <<call, todo, boot>>
faultVars == <<seen, nfaults>>
vars == <<subVars, queueVars, inflight, apiVars, worker, faultVars>>

Tests == 1..NTests

\* Mutant: the list of terminal statuses has one too many.
TerminalWithJudging == {"ACCEPTED", "REJECTED", "SYSTEM_ERROR", "JUDGING"}

(* REJECTED stands for the five verdicts other than ACCEPTED and          *)
(* SYSTEM_ERROR; which of them it is, is the matter of JudgeRun.          *)
Terminal == {"ACCEPTED", "REJECTED", "SYSTEM_ERROR"}
InFlight == {"QUEUED", "JUDGING", "REJUDGE_QUEUED", "REJUDGING"}
Statuses == Terminal \cup InFlight \cup {"none"}

QueueStatus(j) == IF PathOf(j) = "rejudge" THEN "REJUDGE_QUEUED" ELSE "QUEUED"

Held(j) == \E w \in Workers : worker[w].lock /\ worker[w].job = j
InQueue == waiting \cup active \cup finished

CallPcs == {"idle", "list", "created", "check", "load", "prepare", "setqueued",
            "acquire", "undo", "enqueue", "add", "release", "clamp"}
WorkerPcs == {"idle", "read", "mark", "test", "publish", "failing",
              "release", "reread", "clamp", "ack"}

(* The faults that come too late to be undone: a token is given back for a *)
(* job that stays in the queue.                                            *)
LateFaults == {"lateCrash", "lockLost", "lostReply"}
AllFaultKinds == {"apiCrash", "crash", "enqueueError", "jobError",
                  "persistError"} \cup LateFaults

Fault(k) ==
  /\ k \in FaultKinds /\ nfaults < MaxFaults
  /\ seen' = seen \cup {k}
  /\ nfaults' = nfaults + 1

IdleWorker == [pc |-> "idle", job |-> NoJob, lock |-> FALSE,
               target |-> "JUDGING", test |-> 1, ok |-> TRUE]

Init ==
  /\ status = [s \in Subs |-> "none"]
  /\ scored = [s \in Subs |-> FALSE]
  /\ rejudgeCount = [s \in Subs |-> 0]
  /\ rows = [s \in Subs |-> [t \in Tests |-> "none"]]
  /\ waiting = {} /\ active = {} /\ finished = {} /\ stalledOnce = {}
  /\ inflight = 0
  /\ call = [c \in Calls |-> [pc |-> "idle", job |-> NoJob]]
  /\ todo = {} /\ boot = 0
  /\ worker = [w \in Workers |-> IdleWorker]
  /\ seen = {} /\ nfaults = 0

----------------------------------------------------------------------------
(* The API process: POST /submissions, admin rejudge, start-up recovery.   *)

CallAt(c, p) == call[c].pc = p
GoCall(c, p) == call' = [call EXCEPT ![c].pc = p]
CallDone(c)  == call' = [call EXCEPT ![c] = [pc |-> "idle", job |-> NoJob]]
StartCall(c, p, j) ==
  /\ CallAt(c, "idle")
  /\ call' = [call EXCEPT ![c] = [pc |-> p, job |-> j]]

(* SubmissionsService.create has checked the request and inserts the       *)
(* submission, already QUEUED, without its testcase rows.                  *)
Submit(u, s) ==
  /\ status[s] = "none"
  /\ StartCall(u, "created", <<s, "first", 0>>)
  /\ status' = [status EXCEPT ![s] = "QUEUED"]
  /\ UNCHANGED <<scored, rejudgeCount, rows, queueVars, inflight, todo, boot,
                 worker, faultVars>>

(* ... and then the rows; enqueueNewSubmission follows.                    *)
CreateRows(u) ==
  /\ CallAt(u, "created") /\ GoCall(u, "prepare")
  /\ rows' = [rows EXCEPT ![SubOf(call[u].job)] = [t \in Tests |-> "PENDING"]]
  /\ UNCHANGED <<status, scored, rejudgeCount, queueVars, inflight, todo, boot,
                 worker, faultVars>>

(* RejudgeService.partitionEligible keeps the submissions found terminal.  *)
RejudgeSelect(a, s) ==
  /\ status[s] \in Terminal /\ rejudgeCount[s] < MaxRejudges
  /\ StartCall(a, "check", <<s, "rejudge", 0>>)
  /\ UNCHANGED <<subVars, queueVars, inflight, todo, boot, worker, faultVars>>

(* rejudgeOne reads the status again, and skips what is not terminal now.  *)
RejudgeCheck(a) ==
  /\ CallAt(a, "check")
  /\ IF status[SubOf(call[a].job)] \in Terminal
     THEN GoCall(a, "load") ELSE CallDone(a)
  /\ UNCHANGED <<subVars, queueVars, inflight, todo, boot, worker, faultVars>>

(* enqueueRejudge loads the submission and numbers the job after the       *)
(* rejudge count it read; the status is not looked at again.               *)
RejudgeLoad(a) ==
  /\ CallAt(a, "load")
  /\ LET s == SubOf(call[a].job)
     IN  call' = [call EXCEPT ![a] =
                    [pc |-> "prepare", job |-> <<s, "rejudge", rejudgeCount[s] + 1>>]]
  /\ UNCHANGED <<subVars, queueVars, inflight, todo, boot, worker, faultVars>>

\* Mutant: the recovery pass overlooks interrupted rejudges.
ListFirstRunsOnly ==
  /\ CallAt(Boot, "list") /\ CallDone(Boot)
  /\ todo' = {s \in Subs : status[s] \in {"QUEUED", "JUDGING"}}
  /\ UNCHANGED <<subVars, queueVars, inflight, boot, worker, faultVars>>

(* recoverStuckSubmissions lists every submission that is not terminal by  *)
(* then, those of requests made since the start included.                  *)
ListStuck ==
  /\ CallAt(Boot, "list") /\ CallDone(Boot)
  /\ todo' = {s \in Subs : status[s] \in InFlight}
  /\ UNCHANGED <<subVars, queueVars, inflight, boot, worker, faultVars>>

(* recoverSubmission of the next submission the recovery pass listed: the  *)
(* status it has now, not the listed one, picks the path, a terminal one   *)
(* included. The time in the job id is unique to the pass.                 *)
RecoverOne(s) ==
  /\ s \in todo /\ todo' = todo \ {s}
  /\ StartCall(Boot, "prepare",
       IF status[s] \in {"REJUDGE_QUEUED", "REJUDGING"}
       THEN <<s, "rejudge", rejudgeCount[s] + 1>>
       ELSE <<s, "recover", boot>>)
  /\ UNCHANGED <<subVars, queueVars, inflight, boot, worker, faultVars>>

(* enqueuePrepared, step by step: the testcase rows are completed and      *)
(* reset ...                                                               *)
PrepareRows(c) ==
  /\ CallAt(c, "prepare") /\ GoCall(c, "setqueued")
  /\ rows' = [rows EXCEPT ![SubOf(call[c].job)] = [t \in Tests |-> "PENDING"]]
  /\ UNCHANGED <<status, scored, rejudgeCount, queueVars, inflight, todo, boot,
                 worker, faultVars>>

\* Mutant: the score of the earlier run is kept.
SetQueuedKeepScore(c) ==
  /\ CallAt(c, "setqueued") /\ GoCall(c, "acquire")
  /\ LET j == call[c].job
         s == SubOf(j)
     IN  /\ status' = [status EXCEPT ![s] = QueueStatus(j)]
         /\ rejudgeCount' = [rejudgeCount EXCEPT
                              ![s] = IF PathOf(j) = "rejudge" THEN NumOf(j) ELSE @]
  /\ UNCHANGED <<scored, rows, queueVars, inflight, todo, boot, worker, faultVars>>

(* ... the submission is marked queued, its score cleared unless it is a   *)
(* first run, its rejudge count set from the number read before ...        *)
SetQueued(c) ==
  /\ CallAt(c, "setqueued") /\ GoCall(c, "acquire")
  /\ LET j == call[c].job
         s == SubOf(j)
     IN  /\ status' = [status EXCEPT ![s] = QueueStatus(j)]
         /\ scored' = [scored EXCEPT ![s] = @ /\ PathOf(j) = "first"]
         /\ rejudgeCount' = [rejudgeCount EXCEPT
                              ![s] = IF PathOf(j) = "rejudge" THEN NumOf(j) ELSE @]
  /\ UNCHANGED <<rows, queueVars, inflight, todo, boot, worker, faultVars>>

\* Mutant: the limit is compared with the count before the increment.
AcquireOldCount(c) ==
  /\ CallAt(c, "acquire")
  /\ inflight' = inflight + 1
  /\ GoCall(c, IF inflight > MaxInflight THEN "undo" ELSE "enqueue")
  /\ UNCHANGED <<subVars, queueVars, todo, boot, worker, faultVars>>

(* ... InflightService.acquire increments the counter and looks at the     *)
(* result; over the limit it decrements it again and throws, and nothing   *)
(* undoes the status written before ...                                    *)
Acquire(c) ==
  /\ CallAt(c, "acquire")
  /\ inflight' = inflight + 1
  /\ GoCall(c, IF inflight' > MaxInflight THEN "undo" ELSE "enqueue")
  /\ UNCHANGED <<subVars, queueVars, todo, boot, worker, faultVars>>

\* Mutant: the refused handler does not take its increment back.
UndoAcquireForgotten(c) ==
  /\ CallAt(c, "undo") /\ CallDone(c)
  /\ UNCHANGED <<subVars, queueVars, inflight, todo, boot, worker, faultVars>>

UndoAcquire(c) ==
  /\ CallAt(c, "undo") /\ CallDone(c)
  /\ inflight' = inflight - 1
  /\ UNCHANGED <<subVars, queueVars, todo, boot, worker, faultVars>>

(* ... JudgeQueueService.enqueue removes a job of the same id, which       *)
(* fails, and is ignored, while a worker holds its lock ...                *)
RemoveOldJob(c) ==
  /\ CallAt(c, "enqueue") /\ GoCall(c, "add")
  /\ LET old == {j \in InQueue : j = call[c].job /\ ~Held(j)}
     IN  /\ waiting' = waiting \ old
         /\ active' = active \ old
         /\ finished' = finished \ old
         /\ stalledOnce' = stalledOnce \ old
  /\ UNCHANGED <<subVars, inflight, todo, boot, worker, faultVars>>

(* ... and adds the job; BullMQ ignores an id it still knows.              *)
AddJob(c) ==
  /\ CallAt(c, "add") /\ CallDone(c)
  /\ waiting' = IF call[c].job \in InQueue THEN waiting
                ELSE waiting \cup {call[c].job}
  /\ UNCHANGED <<subVars, active, finished, stalledOnce, inflight, todo, boot,
                 worker, faultVars>>

(* Redis fails while the job is enqueued: the token is given back, by      *)
(* InflightService.release, and the error rethrown.                        *)
EnqueueError(c) ==
  /\ call[c].pc \in {"enqueue", "add"} /\ GoCall(c, "release")
  /\ Fault("enqueueError")
  /\ UNCHANGED <<subVars, queueVars, inflight, todo, boot, worker>>

(* The job is added, and only the answer is lost.                          *)
LostReply(c) ==
  /\ CallAt(c, "add") /\ GoCall(c, "release")
  /\ waiting' = IF call[c].job \in InQueue THEN waiting
                ELSE waiting \cup {call[c].job}
  /\ Fault("lostReply")
  /\ UNCHANGED <<subVars, active, finished, stalledOnce, inflight, todo, boot, worker>>

ReleaseCall(c) ==
  /\ CallAt(c, "release")
  /\ inflight' = inflight - 1
  /\ IF inflight' < 0 THEN GoCall(c, "clamp") ELSE CallDone(c)
  /\ UNCHANGED <<subVars, queueVars, todo, boot, worker, faultVars>>

ClampCall(c) ==
  /\ CallAt(c, "clamp") /\ CallDone(c)
  /\ inflight' = 0
  /\ UNCHANGED <<subVars, queueVars, todo, boot, worker, faultVars>>

(* The API process dies and starts again: its handlers are gone, what      *)
(* they had written stays, and the recovery pass is started, as it is when *)
(* JUDGE_RECOVER_ON_STARTUP is not set. Nobody waits for it.               *)
ApiRestart ==
  /\ Fault("apiCrash")
  /\ call' = [c \in Calls |-> [pc |-> IF c = Boot THEN "list" ELSE "idle", job |-> NoJob]]
  /\ todo' = {}
  /\ boot' = boot + 1
  /\ UNCHANGED <<subVars, queueVars, inflight, worker>>

----------------------------------------------------------------------------
----------------------------------------------------------------------------
(* The worker slots: JudgeWorkerService.runJob, and the part of BullMQ     *)
(* that hands out jobs, takes their outcome and redelivers stalled ones.   *)

At(w, p) == worker[w].pc = p
Go(w, p) == worker' = [worker EXCEPT ![w].pc = p]
JobSub(w) == SubOf(worker[w].job)

TakeJob(w, j) ==
  /\ At(w, "idle") /\ j \in waiting
  /\ waiting' = waiting \ {j}
  /\ active' = active \cup {j}
  /\ worker' = [worker EXCEPT ![w] = [IdleWorker EXCEPT
                  !.pc = "read", !.job = j, !.lock = TRUE]]
  /\ UNCHANGED <<subVars, finished, stalledOnce, inflight, apiVars, faultVars>>

(* The status read decides which active status is written ...              *)
ReadStatus(w) ==
  /\ At(w, "read")
  /\ worker' = [worker EXCEPT ![w].pc = "mark",
       ![w].target = IF status[JobSub(w)] = "REJUDGE_QUEUED"
                     THEN "REJUDGING" ELSE "JUDGING"]
  /\ UNCHANGED <<subVars, queueVars, inflight, apiVars, faultVars>>

(* ... in a later step.                                                    *)
MarkActive(w) ==
  /\ At(w, "mark") /\ Go(w, "test")
  /\ status' = [status EXCEPT ![JobSub(w)] = worker[w].target]
  /\ UNCHANGED <<scored, rejudgeCount, rows, queueVars, inflight, apiVars, faultVars>>

(* The loop over the testcases; ACM mode leaves it at the first failure.   *)
MoreTests(w) ==
  /\ worker[w].test \in Tests
  /\ worker[w].ok \/ JobSub(w) \notin AcmSubs

\* Mutant: the last testcase decides, not all of them.
JudgeTestLastWins(w) ==
  /\ At(w, "test") /\ MoreTests(w)
  /\ \E v \in {"AC", "FAIL"} :
       /\ rows' = [rows EXCEPT ![JobSub(w)][worker[w].test] = v]
       /\ worker' = [worker EXCEPT ![w].test = @ + 1, ![w].ok = v = "AC"]
  /\ UNCHANGED <<status, scored, rejudgeCount, queueVars, inflight, apiVars, faultVars>>

JudgeTest(w) ==
  /\ At(w, "test") /\ MoreTests(w)
  /\ \E v \in {"AC", "FAIL"} :
       /\ rows' = [rows EXCEPT ![JobSub(w)][worker[w].test] = v]
       /\ worker' = [worker EXCEPT ![w].test = @ + 1,
                                   ![w].ok = @ /\ v = "AC"]
  /\ UNCHANGED <<status, scored, rejudgeCount, queueVars, inflight, apiVars, faultVars>>

Finish(w) ==
  /\ At(w, "test") /\ ~MoreTests(w) /\ Go(w, "publish")
  /\ status' = [status EXCEPT ![JobSub(w)] =
                  IF worker[w].ok THEN "ACCEPTED" ELSE "REJECTED"]
  /\ scored' = [scored EXCEPT ![JobSub(w)] = TRUE]
  /\ UNCHANGED <<rejudgeCount, rows, queueVars, inflight, apiVars, faultVars>>

PublishDone(w) ==
  /\ At(w, "publish") /\ Go(w, "release")
  /\ UNCHANGED <<subVars, queueVars, inflight, apiVars, faultVars>>

(* Anything in the try block may throw, the last publish included: then    *)
(* failSubmission writes SYSTEM_ERROR, or fails to and logs it.            *)
JobError(w) ==
  /\ worker[w].pc \in {"read", "mark", "test", "publish"} /\ Go(w, "failing")
  /\ Fault("jobError")
  /\ UNCHANGED <<subVars, queueVars, inflight, apiVars>>

FailSubmission(w) ==
  /\ At(w, "failing") /\ Go(w, "release")
  /\ status' = [status EXCEPT ![JobSub(w)] = "SYSTEM_ERROR"]
  /\ UNCHANGED <<scored, rejudgeCount, rows, queueVars, inflight, apiVars, faultVars>>

(* The fault that made the job fail may well make this write fail too: it  *)
(* does not count against MaxFaults.                                       *)
PersistError(w) ==
  /\ At(w, "failing") /\ Go(w, "release")
  /\ "persistError" \in FaultKinds /\ seen' = seen \cup {"persistError"}
  /\ UNCHANGED <<subVars, queueVars, inflight, apiVars, nfaults>>

(* releaseInflight, in the finally block: DECR, GET, and SET 0 if the      *)
(* value read is negative.                                                 *)
ReleaseJob(w) ==
  /\ At(w, "release") /\ Go(w, "reread")
  /\ inflight' = inflight - 1
  /\ UNCHANGED <<subVars, queueVars, apiVars, faultVars>>

\* Mutant: the counter is not clamped.
RereadCounterNoClamp(w) ==
  /\ At(w, "reread") /\ Go(w, "ack")
  /\ UNCHANGED <<subVars, queueVars, inflight, apiVars, faultVars>>

RereadCounter(w) ==
  /\ At(w, "reread") /\ Go(w, IF inflight < 0 THEN "clamp" ELSE "ack")
  /\ UNCHANGED <<subVars, queueVars, inflight, apiVars, faultVars>>

ClampJob(w) ==
  /\ At(w, "clamp") /\ Go(w, "ack")
  /\ inflight' = 0
  /\ UNCHANGED <<subVars, queueVars, apiVars, faultVars>>

(* BullMQ moves the job to completed or failed if the slot still holds     *)
(* its lock; otherwise the outcome is refused.                             *)
AckJob(w) ==
  /\ At(w, "ack")
  /\ worker' = [worker EXCEPT ![w] = IdleWorker]
  /\ LET done == {j \in active : j = worker[w].job /\ worker[w].lock}
     IN  /\ active' = active \ done
         /\ finished' = finished \cup done
  /\ UNCHANGED <<subVars, waiting, stalledOnce, inflight, apiVars, faultVars>>

(* A judge process dies; after the release, the token of its job is gone.  *)
AfterRelease == {"reread", "clamp", "ack"}

WorkerCrash(w) ==
  /\ ~At(w, "idle")
  /\ worker' = [worker EXCEPT ![w] = IdleWorker]
  /\ Fault(IF worker[w].pc \in AfterRelease THEN "lateCrash" ELSE "crash")
  /\ UNCHANGED <<subVars, queueVars, inflight, apiVars>>

(* A slot cannot renew its lock in time (a blocked process, Redis out of   *)
(* reach), and goes on judging.                                            *)
LockLost(w) ==
  /\ worker[w].lock
  /\ worker' = [worker EXCEPT ![w].lock = FALSE]
  /\ Fault("lockLost")
  /\ UNCHANGED <<subVars, queueVars, inflight, apiVars>>

(* BullMQ puts an active job without a lock back, once; the second time    *)
(* it fails the job, and no code of the judge runs.                        *)
Redeliver(j) ==
  /\ j \in active /\ ~Held(j)
  /\ active' = active \ {j}
  /\ IF j \in stalledOnce
     THEN /\ finished' = finished \cup {j}
          /\ UNCHANGED <<waiting, stalledOnce>>
     ELSE /\ waiting' = waiting \cup {j}
          /\ stalledOnce' = stalledOnce \cup {j}
          /\ UNCHANGED finished
  /\ UNCHANGED <<subVars, inflight, apiVars, worker, faultVars>>

----------------------------------------------------------------------------
EnqueueStep(c) ==
  \/ PrepareRows(c) \/ SetQueued(c) \/ Acquire(c) \/ UndoAcquire(c)
  \/ RemoveOldJob(c) \/ AddJob(c) \/ ReleaseCall(c) \/ ClampCall(c)

RejudgeStep(a) == RejudgeCheck(a) \/ RejudgeLoad(a)

(* What the API process does without being asked.                          *)
ApiStep(c) ==
  \/ EnqueueStep(c)
  \/ c \in Users /\ CreateRows(c)
  \/ c \in Admins /\ RejudgeStep(c)

Recovery == ListStuck \/ \E s \in Subs : RecoverOne(s)

JobStep(w) ==
  \/ ReadStatus(w) \/ MarkActive(w) \/ JudgeTest(w) \/ Finish(w)
  \/ PublishDone(w) \/ FailSubmission(w)
  \/ ReleaseJob(w) \/ RereadCounter(w) \/ ClampJob(w) \/ AckJob(w)

WorkerStep(w) == JobStep(w) \/ \E j \in waiting : TakeJob(w, j)

StalledCheck == \E j \in active : Redeliver(j)

Requests ==
  \/ \E u \in Users, s \in Subs : Submit(u, s)
  \/ \E a \in Admins, s \in Subs : RejudgeSelect(a, s)

Faults ==
  \/ ApiRestart
  \/ \E c \in Calls : EnqueueError(c) \/ LostReply(c)
  \/ \E w \in Workers :
       JobError(w) \/ PersistError(w) \/ WorkerCrash(w) \/ LockLost(w)

Next ==
  \/ Requests
  \/ \E c \in Calls : ApiStep(c)
  \/ Recovery
  \/ \E w \in Workers : WorkerStep(w)
  \/ StalledCheck
  \/ Faults

Spec == Init /\ [][Next]_vars

(* Node runs every continuation whose promise has settled, and BullMQ      *)
(* keeps fetching jobs and checking for stalled ones: each handler, the    *)
(* recovery pass, each worker slot and the stalled check make progress.    *)
(* Users, administrators and faults owe nothing.                           *)
Fairness ==
  /\ \A c \in Calls : WF_vars(ApiStep(c))
  /\ WF_vars(Recovery)
  /\ \A w \in Workers : WF_vars(WorkerStep(w))
  /\ WF_vars(StalledCheck)

FairSpec == Spec /\ Fairness

----------------------------------------------------------------------------
(* Properties.                                                             *)

TypeOK ==
  /\ status \in [Subs -> Statuses]
  /\ scored \in [Subs -> BOOLEAN]
  /\ rejudgeCount \in [Subs -> Nat]
  /\ rows \in [Subs -> [Tests -> {"none", "PENDING", "AC", "FAIL"}]]
  /\ waiting \in SUBSET JobIds /\ active \in SUBSET JobIds
  /\ finished \in SUBSET JobIds /\ stalledOnce \in SUBSET JobIds
  /\ inflight \in Int
  /\ call \in [Calls -> [pc : CallPcs, job : JobIds \cup {NoJob}]]
  /\ todo \in SUBSET Subs /\ boot \in Nat
  /\ worker \in [Workers -> [pc : WorkerPcs, job : JobIds \cup {NoJob},
                   lock : BOOLEAN, target : {"JUDGING", "REJUDGING"},
                   test : Nat, ok : BOOLEAN]]
  /\ seen \in SUBSET AllFaultKinds /\ nfaults \in Nat

(* The jobs whose token has not been given back, and the handlers that     *)
(* hold a token for a job not yet added.                                   *)
Released(j) == \E w \in Workers : worker[w].job = j /\ worker[w].pc \in AfterRelease
Owed == waiting \cup {j \in active : ~Released(j)}
Holding == {c \in Calls : call[c].pc \in {"enqueue", "add", "release"}}
Undoing == {c \in Calls : call[c].pc = "undo"}

(* The site-wide cap of JUDGE_GLOBAL_MAX_INFLIGHT: the jobs waiting and    *)
(* being judged are never more than the limit, whatever handlers race,     *)
(* restart or fail, and whichever workers die while judging. It needs the  *)
(* two faults that give a token back twice not to have happened.           *)
CapHolds ==
  seen \cap LateFaults = {} => Cardinality(Owed) + Cardinality(Holding) <= MaxInflight

(* No token is lost and none is invented: without a fault the Redis        *)
(* counter is exactly the number of jobs not yet judged and of handlers    *)
(* between increment and hand-over. A lost token would shrink the queue    *)
(* for ever; nothing in the code gives it back.                            *)
ExactCounter ==
  seen = {} => inflight = Cardinality(Owed) + Cardinality(Holding) + Cardinality(Undoing)

Judging(w, s) == worker[w].pc \in {"mark", "test", "failing"} /\ JobSub(w) = s

(* A submission is judged by one worker slot at a time: two runs at once   *)
(* would interleave their testcase rows and their verdicts. Handlers that  *)
(* fail or lose their answer change nothing of it. A restart of the API    *)
(* queues again what is being judged; a job that loses its worker or its   *)
(* lock after the verdict runs again beside the rejudge that has begun, and*)
(* one whose last message fails writes its failure over it.                *)
HandlerFaults == {"enqueueError", "lostReply"}
OneRunAtATime ==
  seen \subseteq HandlerFaults =>
    \A v, w \in Workers, s \in Subs : Judging(v, s) /\ Judging(w, s) => v = w

(* The per-testcase breakdown agrees with the verdict: an accepted         *)
(* submission has every row accepted, a rejected one a failed row, also    *)
(* when handlers fail. Between the reset of the rows and the change of     *)
(* status, a rejudge shows neither; and two runs at once reset the rows    *)
(* under each other.                                                       *)
Preparing(s) == \E c \in Calls : CallAt(c, "setqueued") /\ SubOf(call[c].job) = s
RowsAgree ==
  seen \subseteq HandlerFaults => \A s \in Subs : ~Preparing(s) =>
    /\ status[s] = "ACCEPTED" => \A t \in Tests : rows[s][t] = "AC"
    /\ status[s] = "REJECTED" => \E t \in Tests : rows[s][t] = "FAIL"

(* The pipeline as SubmissionLifecycle describes it. It implements that    *)
(* description, with handlers that fail or lose their answers, as long as  *)
(* no job fails, is redelivered, is queued again by a recovery pass or is  *)
(* asked for by two administrators at once.                                *)
Phase(st) ==
  CASE st = "none" -> "none"
    [] st \in {"QUEUED", "REJUDGE_QUEUED"} -> "queued"
    [] st \in {"JUDGING", "REJUDGING"} -> "judging"
    [] OTHER -> "done"
Lifecycle == INSTANCE SubmissionLifecycle WITH
  phase <- [s \in Subs |-> Phase(status[s])], shown <- scored, round <- rejudgeCount
ImplementsLifecycle ==
  Lifecycle!Init
  /\ [][seen' \subseteq HandlerFaults => Lifecycle!Next]_(Lifecycle!vars)

(* With room in the queue, every submission is judged in the end: a        *)
(* handler carries it to the queue, or dies and the recovery pass does.    *)
EverySubmissionJudged ==
  \A s \in Subs : status[s] \in InFlight ~> status[s] \in Terminal

(* The counter comes back to zero: everything that took a token has given  *)
(* it back, so the limit is the limit again for the submissions to come. A *)
(* job that is judged twice gives back twice, which the clamp repairs; only*)
(* a restart of the API loses a token for good.                            *)
CounterDrains == <>[]("apiCrash" \notin seen => inflight = 0)
============================================================================
