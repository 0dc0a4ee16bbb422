------------------------- MODULE JudgePipelineProofs -------------------------
(***************************************************************************)
(* Proofs about JudgePipeline for every set of submissions, handlers and   *)
(* worker slots, every limit and every number of faults: its types, the    *)
(* cap on running judgements, and the life of a submission, which one      *)
(* handler, one job or one slot carries on at a time, so that its runs do  *)
(* not overlap, its rows agree with its verdict, and the pipeline          *)
(* implements SubmissionLifecycle.                                         *)
(***************************************************************************)
EXTENDS JudgePipeline, FiniteSetTheorems, TLAPS

----------------------------------------------------------------------------
(* The type invariant, in the parts that an action touches together. A     *)
(* handler or a slot that is busy has a job.                               *)

SubsOK ==
  /\ status \in [Subs -> Statuses]
  /\ scored \in [Subs -> BOOLEAN]
  /\ rejudgeCount \in [Subs -> Nat]
  /\ rows \in [Subs -> [Tests -> {"none", "PENDING", "AC", "FAIL"}]]

QueueOK ==
  /\ waiting \in SUBSET JobIds /\ active \in SUBSET JobIds
  /\ finished \in SUBSET JobIds /\ stalledOnce \in SUBSET JobIds

CallsOK ==
  /\ call \in [Calls -> [pc : CallPcs, job : JobIds \cup {NoJob}]]
  /\ \A c \in Calls : call[c].pc \notin {"idle", "list"} => call[c].job \in JobIds

ApiOK == todo \in SUBSET Subs /\ boot \in Nat

WorkersOK ==
  /\ worker \in [Workers -> [pc : WorkerPcs, job : JobIds \cup {NoJob},
                   lock : BOOLEAN, target : {"JUDGING", "REJUDGING"},
                   test : Nat, ok : BOOLEAN]]
  /\ \A w \in Workers : worker[w].pc # "idle" => worker[w].job \in JobIds

FaultsOK == seen \in SUBSET AllFaultKinds /\ nfaults \in Nat

TypeInv ==
  SubsOK /\ QueueOK /\ CallsOK /\ ApiOK /\ WorkersOK /\ FaultsOK /\ inflight \in Int

LEMMA TypeInvTypeOK == TypeInv => TypeOK
BY DEF TypeInv, SubsOK, QueueOK, CallsOK, ApiOK, WorkersOK, FaultsOK, TypeOK

(* What an action does not touch keeps its type.                           *)
LEMMA KeepSubs == ASSUME SubsOK, UNCHANGED subVars PROVE SubsOK'
BY DEF SubsOK, subVars
LEMMA KeepQueue == ASSUME QueueOK, UNCHANGED queueVars PROVE QueueOK'
BY DEF QueueOK, queueVars
LEMMA KeepCalls == ASSUME CallsOK, UNCHANGED call PROVE CallsOK'
BY DEF CallsOK
LEMMA KeepApi == ASSUME ApiOK, UNCHANGED <<todo, boot>> PROVE ApiOK'
BY DEF ApiOK
LEMMA KeepWorkers == ASSUME WorkersOK, UNCHANGED worker PROVE WorkersOK'
BY DEF WorkersOK
LEMMA KeepFaults == ASSUME FaultsOK, UNCHANGED faultVars PROVE FaultsOK'
BY DEF FaultsOK, faultVars

LEMMA JobIdsType ==
  /\ \A s \in Subs, n \in Nat : /\ <<s, "first", n>> \in JobIds
                                /\ <<s, "rejudge", n>> \in JobIds
                                /\ <<s, "recover", n>> \in JobIds
  /\ \A j \in JobIds : SubOf(j) \in Subs /\ NumOf(j) \in Nat
BY DEF JobIds, SubOf, NumOf

(* The ways a handler moves.                                               *)
LEMMA GoCallType ==
  ASSUME CallsOK, NEW c \in Calls, NEW p \in CallPcs, call[c].pc \notin {"idle", "list"},
         GoCall(c, p)
  PROVE  CallsOK'
BY DEF CallsOK, GoCall

LEMMA CallDoneType ==
  ASSUME CallsOK, NEW c \in Calls, CallDone(c)
  PROVE  CallsOK'
BY DEF CallsOK, CallDone, CallPcs

LEMMA SetCallType ==
  ASSUME CallsOK, NEW c \in Calls, NEW p \in CallPcs, NEW j \in JobIds,
         call' = [call EXCEPT ![c] = [pc |-> p, job |-> j]]
  PROVE  CallsOK'
BY DEF CallsOK

(* The way a worker slot moves on with its job.                            *)
LEMMA GoType ==
  ASSUME WorkersOK, NEW w \in Workers, NEW p \in WorkerPcs, worker[w].pc # "idle", Go(w, p)
  PROVE  WorkersOK'
BY DEF WorkersOK, Go

LEMMA TargetType ==
  ASSUME WorkersOK, NEW w \in Workers, NEW p \in WorkerPcs, worker[w].pc # "idle",
         NEW t \in {"JUDGING", "REJUDGING"},
         worker' = [worker EXCEPT ![w].pc = p, ![w].target = t]
  PROVE  WorkersOK'
BY DEF WorkersOK

LEMMA TestedType ==
  ASSUME WorkersOK, NEW w \in Workers, worker[w].pc # "idle",
         NEW n \in Nat, NEW b \in BOOLEAN,
         worker' = [worker EXCEPT ![w].test = n, ![w].ok = b]
  PROVE  WorkersOK'
BY DEF WorkersOK

LEMMA FaultType ==
  ASSUME FaultsOK, NEW k \in AllFaultKinds, Fault(k)
  PROVE  FaultsOK'
BY DEF FaultsOK, Fault

LEMMA InitType == Init => TypeInv
BY DEF Init, TypeInv, SubsOK, QueueOK, CallsOK, ApiOK, WorkersOK, FaultsOK,
       Statuses, IdleWorker, CallPcs, WorkerPcs

----------------------------------------------------------------------------
(* Every action keeps the types.                                           *)

LEMMA RequestsType == ASSUME TypeInv, Requests PROVE TypeInv'
<1> USE DEF TypeInv
<1>1. ASSUME NEW u \in Users, NEW s \in Subs, Submit(u, s) PROVE TypeInv'
  <2>1. u \in Calls /\ "created" \in CallPcs /\ <<s, "first", 0>> \in JobIds
    BY JobIdsType DEF Calls, CallPcs
  <2>2. CallsOK'
    BY <1>1, <2>1, SetCallType DEF Submit, StartCall
  <2>3. SubsOK'
    BY <1>1 DEF Submit, SubsOK, Statuses, InFlight
  <2>4. QED
    BY <1>1, <2>2, <2>3, KeepQueue, KeepApi, KeepWorkers, KeepFaults DEF Submit
<1>2. ASSUME NEW a \in Admins, NEW s \in Subs, RejudgeSelect(a, s) PROVE TypeInv'
  <2>1. a \in Calls /\ "check" \in CallPcs /\ <<s, "rejudge", 0>> \in JobIds
    BY JobIdsType DEF Calls, CallPcs
  <2>2. CallsOK'
    BY <1>2, <2>1, SetCallType DEF RejudgeSelect, StartCall
  <2>3. QED
    BY <1>2, <2>2, KeepSubs, KeepQueue, KeepApi, KeepWorkers, KeepFaults DEF RejudgeSelect
<1>3. QED BY <1>1, <1>2 DEF Requests

LEMMA CreateRowsType ==
  ASSUME TypeInv, NEW u \in Calls, CreateRows(u) PROVE TypeInv'
<1>1. CallsOK'
  BY GoCallType DEF TypeInv, CreateRows, CallAt, CallPcs
<1>2. SubsOK'
  BY DEF TypeInv, CreateRows, SubsOK
<1>3. QED
  BY <1>1, <1>2, KeepQueue, KeepApi, KeepWorkers, KeepFaults DEF TypeInv, CreateRows

LEMMA RejudgeType ==
  ASSUME TypeInv, NEW a \in Calls, RejudgeStep(a) PROVE TypeInv'
<1>1. CASE RejudgeCheck(a)
  <2>1. CallsOK'
    BY <1>1, GoCallType, CallDoneType DEF TypeInv, RejudgeCheck, CallAt, CallPcs
  <2>2. QED
    BY <1>1, <2>1, KeepSubs, KeepQueue, KeepApi, KeepWorkers, KeepFaults
    DEF TypeInv, RejudgeCheck
<1>2. CASE RejudgeLoad(a)
  <2> DEFINE s == SubOf(call[a].job)
  <2>1. call[a].job \in JobIds
    BY <1>2 DEF RejudgeLoad, CallAt, TypeInv, CallsOK
  <2>2. rejudgeCount[s] + 1 \in Nat /\ s \in Subs
    BY <2>1, JobIdsType DEF TypeInv, SubsOK
  <2>3. <<s, "rejudge", rejudgeCount[s] + 1>> \in JobIds /\ "prepare" \in CallPcs
    BY <2>2, JobIdsType DEF CallPcs
  <2>4. CallsOK'
    BY <1>2, <2>3, SetCallType DEF RejudgeLoad, TypeInv
  <2>5. QED
    BY <1>2, <2>4, KeepSubs, KeepQueue, KeepApi, KeepWorkers, KeepFaults
    DEF TypeInv, RejudgeLoad
<1>3. QED BY <1>1, <1>2 DEF RejudgeStep

LEMMA ListType == ASSUME TypeInv, ListStuck PROVE TypeInv'
<1>1. CallsOK'
  BY CallDoneType DEF ListStuck, TypeInv, Calls
<1>2. ApiOK'
  BY DEF TypeInv, ApiOK, ListStuck
<1>3. QED
  BY <1>1, <1>2, KeepSubs, KeepQueue, KeepWorkers, KeepFaults DEF TypeInv, ListStuck

LEMMA RecoveryType == ASSUME TypeInv, NEW s \in Subs, RecoverOne(s) PROVE TypeInv'
<1> DEFINE j == IF status[s] \in {"REJUDGE_QUEUED", "REJUDGING"}
                THEN <<s, "rejudge", rejudgeCount[s] + 1>>
                ELSE <<s, "recover", boot>>
<1>1. rejudgeCount[s] + 1 \in Nat /\ boot \in Nat
  BY DEF TypeInv, SubsOK, ApiOK
<1>2. j \in JobIds /\ Boot \in Calls /\ "prepare" \in CallPcs
  BY <1>1, JobIdsType DEF Calls, CallPcs
<1>3. CallsOK'
  BY <1>2, SetCallType DEF RecoverOne, StartCall, TypeInv
<1>4. ApiOK'
  BY DEF TypeInv, ApiOK, RecoverOne
<1>5. QED
  BY <1>3, <1>4, KeepSubs, KeepQueue, KeepWorkers, KeepFaults DEF TypeInv, RecoverOne

LEMMA EnqueueType ==
  ASSUME TypeInv, NEW c \in Calls, EnqueueStep(c) PROVE TypeInv'
<1> USE DEF TypeInv
<1>1. CASE PrepareRows(c)
  <2>1. CallsOK'
    BY <1>1, GoCallType DEF PrepareRows, CallAt, CallPcs
  <2>2. SubsOK'
    BY <1>1 DEF PrepareRows, SubsOK
  <2>3. QED
    BY <1>1, <2>1, <2>2, KeepQueue, KeepApi, KeepWorkers, KeepFaults DEF PrepareRows
<1>2. CASE SetQueued(c)
  <2> DEFINE j == call[c].job
  <2>1. j \in JobIds /\ SubOf(j) \in Subs /\ NumOf(j) \in Nat
    BY <1>2, JobIdsType DEF SetQueued, CallAt, CallsOK
  <2>2. QueueStatus(j) \in Statuses
    BY DEF QueueStatus, Statuses, InFlight
  <2>3. /\ status' = [status EXCEPT ![SubOf(j)] = QueueStatus(j)]
        /\ scored' = [scored EXCEPT ![SubOf(j)] = @ /\ PathOf(j) = "first"]
        /\ rejudgeCount' = [rejudgeCount EXCEPT
             ![SubOf(j)] = IF PathOf(j) = "rejudge" THEN NumOf(j) ELSE @]
        /\ rows' = rows
    BY <1>2 DEF SetQueued
  <2> HIDE DEF j
  <2>4. /\ status' \in [Subs -> Statuses]
        /\ rejudgeCount' \in [Subs -> Nat]
        /\ rows' \in [Subs -> [Tests -> {"none", "PENDING", "AC", "FAIL"}]]
    BY <2>1, <2>2, <2>3 DEF SubsOK
  <2>5. scored' \in [Subs -> BOOLEAN]
    BY <2>1, <2>3 DEF SubsOK
  <2>6. SubsOK'
    BY <2>4, <2>5 DEF SubsOK
  <2>7. CallsOK'
    BY <1>2, GoCallType DEF SetQueued, CallAt, CallPcs
  <2>8. QED
    BY <1>2, <2>6, <2>7, KeepQueue, KeepApi, KeepWorkers, KeepFaults DEF SetQueued
<1>3. CASE Acquire(c)
  <2>1. CallsOK'
    BY <1>3, GoCallType DEF Acquire, CallAt, CallPcs
  <2>2. inflight' \in Int
    BY <1>3 DEF Acquire
  <2>3. QED
    BY <1>3, <2>1, <2>2, KeepSubs, KeepQueue, KeepApi, KeepWorkers, KeepFaults DEF Acquire
<1>4. CASE UndoAcquire(c)
  <2>1. CallsOK' /\ inflight' \in Int
    BY <1>4, CallDoneType DEF UndoAcquire
  <2>2. QED
    BY <1>4, <2>1, KeepSubs, KeepQueue, KeepApi, KeepWorkers, KeepFaults DEF UndoAcquire
<1>5. CASE RemoveOldJob(c)
  <2>1. CallsOK'
    BY <1>5, GoCallType DEF RemoveOldJob, CallAt, CallPcs
  <2>2. QueueOK'
    BY <1>5 DEF RemoveOldJob, QueueOK
  <2>3. QED
    BY <1>5, <2>1, <2>2, KeepSubs, KeepApi, KeepWorkers, KeepFaults DEF RemoveOldJob
<1>6. CASE AddJob(c)
  <2>1. CallsOK'
    BY <1>6, CallDoneType DEF AddJob
  <2>2. call[c].job \in JobIds
    BY <1>6 DEF AddJob, CallAt, CallsOK
  <2>3. QueueOK'
    BY <1>6, <2>2 DEF AddJob, QueueOK
  <2>4. QED
    BY <1>6, <2>1, <2>3, KeepSubs, KeepApi, KeepWorkers, KeepFaults DEF AddJob
<1>7. CASE ReleaseCall(c)
  <2>1. CallsOK'
    BY <1>7, GoCallType, CallDoneType DEF ReleaseCall, CallAt, CallPcs
  <2>2. inflight' \in Int
    BY <1>7 DEF ReleaseCall
  <2>3. QED
    BY <1>7, <2>1, <2>2, KeepSubs, KeepQueue, KeepApi, KeepWorkers, KeepFaults DEF ReleaseCall
<1>8. CASE ClampCall(c)
  <2>1. CallsOK' /\ inflight' \in Int
    BY <1>8, CallDoneType DEF ClampCall
  <2>2. QED
    BY <1>8, <2>1, KeepSubs, KeepQueue, KeepApi, KeepWorkers, KeepFaults DEF ClampCall
<1>9. QED
  BY <1>1, <1>2, <1>3, <1>4, <1>5, <1>6, <1>7, <1>8 DEF EnqueueStep

LEMMA TakeJobType ==
  ASSUME TypeInv, NEW w \in Workers, NEW j \in waiting, TakeJob(w, j) PROVE TypeInv'
<1>1. j \in JobIds
  BY DEF TypeInv, QueueOK
<1>2. WorkersOK'
  BY <1>1 DEF TakeJob, IdleWorker, TypeInv, WorkersOK, WorkerPcs
<1>3. QueueOK'
  BY <1>1 DEF TakeJob, TypeInv, QueueOK
<1>4. QED
  BY <1>2, <1>3, KeepSubs, KeepCalls, KeepApi, KeepFaults DEF TakeJob, TypeInv, apiVars

LEMMA JobStepType ==
  ASSUME TypeInv, NEW w \in Workers, JobStep(w) PROVE TypeInv'
<1> USE DEF TypeInv, apiVars
<1>1. CASE ReadStatus(w)
  <2>1. WorkersOK'
    BY <1>1, TargetType DEF ReadStatus, At, WorkerPcs
  <2>2. QED
    BY <1>1, <2>1, KeepSubs, KeepQueue, KeepCalls, KeepApi, KeepFaults DEF ReadStatus
<1>2. CASE MarkActive(w)
  <2>1. WorkersOK'
    BY <1>2, GoType DEF MarkActive, At, WorkerPcs
  <2>2. worker[w].target \in Statuses
    BY DEF WorkersOK, Statuses, InFlight
  <2>3. SubsOK'
    BY <1>2, <2>2 DEF MarkActive, SubsOK
  <2>4. QED
    BY <1>2, <2>1, <2>3, KeepQueue, KeepCalls, KeepApi, KeepFaults DEF MarkActive
<1>3. CASE JudgeTest(w)
  <2> PICK v \in {"AC", "FAIL"} :
        /\ rows' = [rows EXCEPT ![JobSub(w)][worker[w].test] = v]
        /\ worker' = [worker EXCEPT ![w].test = @ + 1, ![w].ok = @ /\ v = "AC"]
    BY <1>3 DEF JudgeTest
  <2>1. SubsOK'
    BY <1>3 DEF JudgeTest, SubsOK
  <2>2. (worker[w].ok /\ v = "AC") \in BOOLEAN /\ worker[w].test + 1 \in Nat
    BY DEF WorkersOK
  <2>3. WorkersOK'
    BY <1>3, <2>2, TestedType DEF JudgeTest, At
  <2>4. QED
    BY <1>3, <2>1, <2>3, KeepQueue, KeepCalls, KeepApi, KeepFaults DEF JudgeTest
<1>4. CASE Finish(w)
  <2>1. WorkersOK'
    BY <1>4, GoType DEF Finish, At, WorkerPcs
  <2>2. SubsOK'
    BY <1>4 DEF Finish, SubsOK, Statuses, Terminal
  <2>3. QED
    BY <1>4, <2>1, <2>2, KeepQueue, KeepCalls, KeepApi, KeepFaults DEF Finish
<1>5. CASE PublishDone(w)
  <2>1. WorkersOK'
    BY <1>5, GoType DEF PublishDone, At, WorkerPcs
  <2>2. QED
    BY <1>5, <2>1, KeepSubs, KeepQueue, KeepCalls, KeepApi, KeepFaults DEF PublishDone
<1>6. CASE FailSubmission(w)
  <2>1. WorkersOK'
    BY <1>6, GoType DEF FailSubmission, At, WorkerPcs
  <2>2. SubsOK'
    BY <1>6 DEF FailSubmission, SubsOK, Statuses, Terminal
  <2>3. QED
    BY <1>6, <2>1, <2>2, KeepQueue, KeepCalls, KeepApi, KeepFaults DEF FailSubmission
<1>7. CASE ReleaseJob(w)
  <2>1. WorkersOK'
    BY <1>7, GoType DEF ReleaseJob, At, WorkerPcs
  <2>2. inflight' \in Int
    BY <1>7 DEF ReleaseJob
  <2>3. QED
    BY <1>7, <2>1, <2>2, KeepSubs, KeepQueue, KeepCalls, KeepApi, KeepFaults DEF ReleaseJob
<1>8. CASE RereadCounter(w)
  <2>1. WorkersOK'
    BY <1>8, GoType DEF RereadCounter, At, WorkerPcs
  <2>2. QED
    BY <1>8, <2>1, KeepSubs, KeepQueue, KeepCalls, KeepApi, KeepFaults DEF RereadCounter
<1>9. CASE ClampJob(w)
  <2>1. WorkersOK'
    BY <1>9, GoType DEF ClampJob, At, WorkerPcs
  <2>2. inflight' \in Int
    BY <1>9 DEF ClampJob
  <2>3. QED
    BY <1>9, <2>1, <2>2, KeepSubs, KeepQueue, KeepCalls, KeepApi, KeepFaults DEF ClampJob
<1>10. CASE AckJob(w)
  <2>1. WorkersOK'
    BY <1>10 DEF AckJob, IdleWorker, WorkersOK, WorkerPcs
  <2>2. QueueOK'
    BY <1>10 DEF AckJob, QueueOK
  <2>3. QED
    BY <1>10, <2>1, <2>2, KeepSubs, KeepCalls, KeepApi, KeepFaults DEF AckJob
<1>11. QED
  BY <1>1, <1>2, <1>3, <1>4, <1>5, <1>6, <1>7, <1>8, <1>9, <1>10 DEF JobStep

LEMMA RedeliverType ==
  ASSUME TypeInv, NEW j \in active, Redeliver(j) PROVE TypeInv'
<1>1. QueueOK'
  BY DEF Redeliver, TypeInv, QueueOK
<1>2. QED
  BY <1>1, KeepSubs, KeepCalls, KeepApi, KeepWorkers, KeepFaults
  DEF Redeliver, TypeInv, apiVars

LEMMA FaultsType == ASSUME TypeInv, Faults PROVE TypeInv'
<1> USE DEF TypeInv, apiVars
<1>1. CASE ApiRestart
  <2>1. CallsOK' /\ ApiOK'
    BY <1>1 DEF ApiRestart, CallsOK, ApiOK, CallPcs
  <2>2. QED
    BY <1>1, <2>1, KeepSubs, KeepQueue, KeepWorkers, FaultType DEF ApiRestart, AllFaultKinds
<1>2. ASSUME NEW c \in Calls, EnqueueError(c) PROVE TypeInv'
  <2>1. CallsOK'
    BY <1>2, GoCallType DEF EnqueueError, CallPcs
  <2>2. QED
    BY <1>2, <2>1, KeepSubs, KeepQueue, KeepApi, KeepWorkers, FaultType
    DEF EnqueueError, AllFaultKinds
<1>3. ASSUME NEW w \in Workers, JobError(w) PROVE TypeInv'
  <2>1. WorkersOK'
    BY <1>3, GoType DEF JobError, WorkerPcs
  <2>2. QED
    BY <1>3, <2>1, KeepSubs, KeepQueue, KeepCalls, KeepApi, FaultType
    DEF JobError, AllFaultKinds
<1>4. ASSUME NEW w \in Workers, PersistError(w) PROVE TypeInv'
  <2>1. WorkersOK'
    BY <1>4, GoType DEF PersistError, At, WorkerPcs
  <2>2. FaultsOK'
    BY <1>4 DEF PersistError, FaultsOK, AllFaultKinds
  <2>3. QED
    BY <1>4, <2>1, <2>2, KeepSubs, KeepQueue, KeepCalls, KeepApi DEF PersistError
<1>5. ASSUME NEW w \in Workers, WorkerCrash(w) PROVE TypeInv'
  <2>1. WorkersOK'
    BY <1>5 DEF WorkerCrash, IdleWorker, WorkersOK, WorkerPcs
  <2>2. QED
    BY <1>5, <2>1, KeepSubs, KeepQueue, KeepCalls, KeepApi, FaultType
    DEF WorkerCrash, AllFaultKinds, LateFaults
<1>6. ASSUME NEW w \in Workers, LockLost(w) PROVE TypeInv'
  <2>1. WorkersOK'
    BY <1>6 DEF LockLost, WorkersOK
  <2>2. QED
    BY <1>6, <2>1, KeepSubs, KeepQueue, KeepCalls, KeepApi, FaultType
    DEF LockLost, AllFaultKinds, LateFaults
<1>7. ASSUME NEW c \in Calls, LostReply(c) PROVE TypeInv'
  <2>1. CallsOK'
    BY <1>7, GoCallType DEF LostReply, CallPcs, CallAt
  <2>2. call[c].job \in JobIds
    BY <1>7 DEF LostReply, CallAt, CallsOK
  <2>3. QueueOK'
    BY <1>7, <2>2 DEF LostReply, QueueOK
  <2>4. QED
    BY <1>7, <2>1, <2>3, KeepSubs, KeepApi, KeepWorkers, FaultType
    DEF LostReply, AllFaultKinds, LateFaults
<1>8. QED
  BY <1>1, <1>2, <1>3, <1>4, <1>5, <1>6, <1>7 DEF Faults

LEMMA NextType == TypeInv /\ [Next]_vars => TypeInv'
<1> SUFFICES ASSUME TypeInv, [Next]_vars PROVE TypeInv'
  OBVIOUS
<1>1. CASE Requests
  BY <1>1, RequestsType
<1>2. ASSUME NEW c \in Calls, ApiStep(c) PROVE TypeInv'
  BY <1>2, EnqueueType, CreateRowsType, RejudgeType DEF ApiStep
<1>3. CASE Recovery
  BY <1>3, ListType, RecoveryType DEF Recovery
<1>4. ASSUME NEW w \in Workers, WorkerStep(w) PROVE TypeInv'
  BY <1>4, JobStepType, TakeJobType DEF WorkerStep
<1>5. CASE StalledCheck
  BY <1>5, RedeliverType DEF StalledCheck
<1>6. CASE Faults
  BY <1>6, FaultsType
<1>7. CASE UNCHANGED vars
  BY <1>7, KeepSubs, KeepQueue, KeepCalls, KeepApi, KeepWorkers, KeepFaults
  DEF TypeInv, vars, apiVars
<1>8. QED
  BY <1>1, <1>2, <1>3, <1>4, <1>5, <1>6, <1>7 DEF Next

(* The variables keep their types, for all constants: in particular no     *)
(* step of runJob or enqueuePrepared writes a status the schema lacks.     *)
THEOREM TypeCorrect == Spec => []TypeOK
<1>1. Spec => []TypeInv
  BY InitType, NextType, PTL DEF Spec
<1>2. QED
  BY <1>1, TypeInvTypeOK, PTL

----------------------------------------------------------------------------
(* The site-wide cap on judging. The invariant behind CapHolds relates     *)
(* three things the code never compares: the Redis counter, the jobs       *)
(* BullMQ keeps, and where every handler and every worker slot stands      *)
(* between its awaits.                                                     *)

(* Counting. O are the jobs that owe a token, H the handlers that hold     *)
(* one, U the refused handlers about to give one back, n the counter.      *)

Fits(O, H, U, n) ==
  /\ IsFiniteSet(O) /\ IsFiniteSet(H) /\ IsFiniteSet(U)
  /\ Cardinality(O) + Cardinality(H) + Cardinality(U) <= n
  /\ Cardinality(O) + Cardinality(H) <= MaxInflight

(* A set may only lose elements.                                           *)
LEMMA FitsSubset ==
  ASSUME NEW O, NEW H, NEW U, NEW n \in Int, Fits(O, H, U, n),
         NEW P \in SUBSET O, NEW I \in SUBSET H, NEW V \in SUBSET U
  PROVE  Fits(P, I, V, n)
<1>1. /\ IsFiniteSet(P) /\ Cardinality(P) <= Cardinality(O)
      /\ IsFiniteSet(I) /\ Cardinality(I) <= Cardinality(H)
      /\ IsFiniteSet(V) /\ Cardinality(V) <= Cardinality(U)
  BY FS_Subset DEF Fits
<1>2. /\ Cardinality(O) \in Nat /\ Cardinality(H) \in Nat /\ Cardinality(U) \in Nat
      /\ Cardinality(P) \in Nat /\ Cardinality(I) \in Nat /\ Cardinality(V) \in Nat
  BY <1>1, FS_CardinalityType DEF Fits
<1>3. QED BY <1>1, <1>2, ConstantsAssumption DEF Fits

LEMMA AddBound ==
  ASSUME NEW S, IsFiniteSet(S), NEW x
  PROVE  /\ IsFiniteSet(S \cup {x})
         /\ Cardinality(S) \in Nat /\ Cardinality(S \cup {x}) \in Nat
         /\ Cardinality(S \cup {x}) <= Cardinality(S) + 1
<1>1. /\ IsFiniteSet(S \cup {x})
      /\ Cardinality(S \cup {x}) = IF x \in S THEN Cardinality(S) ELSE Cardinality(S) + 1
  BY FS_AddElement
<1>2. Cardinality(S) \in Nat /\ Cardinality(S \cup {x}) \in Nat
  BY <1>1, FS_CardinalityType
<1>3. QED BY <1>1, <1>2

(* A handler hands its token over to a job.                                *)
LEMMA FitsHandOver ==
  ASSUME NEW O, NEW H, NEW U, NEW n \in Int, Fits(O, H, U, n), NEW c \in H, NEW j
  PROVE  Fits(O \cup {j}, H \ {c}, U, n)
<1>1. /\ IsFiniteSet(O \cup {j}) /\ Cardinality(O \cup {j}) <= Cardinality(O) + 1
      /\ IsFiniteSet(H \ {c}) /\ Cardinality(H \ {c}) = Cardinality(H) - 1
  BY AddBound, FS_RemoveElement DEF Fits
<1>2. /\ Cardinality(O) \in Nat /\ Cardinality(H) \in Nat /\ Cardinality(U) \in Nat
      /\ Cardinality(O \cup {j}) \in Nat /\ Cardinality(H \ {c}) \in Nat
  BY <1>1, FS_CardinalityType DEF Fits
<1>3. QED BY <1>1, <1>2, ConstantsAssumption DEF Fits

(* A handler increments the counter, within the limit ...                  *)
LEMMA FitsAcquire ==
  ASSUME NEW O, NEW H, NEW U, NEW n \in Int, Fits(O, H, U, n), NEW c,
         n + 1 <= MaxInflight
  PROVE  Fits(O, H \cup {c}, U, n + 1)
<1>1. IsFiniteSet(H \cup {c}) /\ Cardinality(H \cup {c}) <= Cardinality(H) + 1
  BY AddBound DEF Fits
<1>2. /\ Cardinality(O) \in Nat /\ Cardinality(H) \in Nat /\ Cardinality(U) \in Nat
      /\ Cardinality(H \cup {c}) \in Nat
  BY <1>1, FS_CardinalityType DEF Fits
<1>3. QED BY <1>1, <1>2, ConstantsAssumption DEF Fits

(* ... or over it.                                                         *)
LEMMA FitsRefuse ==
  ASSUME NEW O, NEW H, NEW U, NEW n \in Int, Fits(O, H, U, n), NEW c
  PROVE  Fits(O, H, U \cup {c}, n + 1)
<1>1. IsFiniteSet(U \cup {c}) /\ Cardinality(U \cup {c}) <= Cardinality(U) + 1
  BY AddBound DEF Fits
<1>2. /\ Cardinality(O) \in Nat /\ Cardinality(H) \in Nat /\ Cardinality(U) \in Nat
      /\ Cardinality(U \cup {c}) \in Nat
  BY <1>1, FS_CardinalityType DEF Fits
<1>3. QED BY <1>1, <1>2, ConstantsAssumption DEF Fits

(* A token comes back, from any of the three; the counter stays natural.   *)
LEMMA FitsRelease ==
  ASSUME NEW O, NEW H, NEW U, NEW n \in Int, Fits(O, H, U, n)
  PROVE  /\ n \in Nat
         /\ \A j \in O : Fits(O \ {j}, H, U, n - 1)
         /\ \A c \in H : Fits(O, H \ {c}, U, n - 1)
         /\ \A c \in U : Fits(O, H, U \ {c}, n - 1)
         /\ O \cup H \cup U # {} => n - 1 \in Nat
<1>1. Cardinality(O) \in Nat /\ Cardinality(H) \in Nat /\ Cardinality(U) \in Nat
  BY FS_CardinalityType DEF Fits
<1>2. n \in Nat
  BY <1>1 DEF Fits
<1>3. ASSUME NEW j \in O PROVE Fits(O \ {j}, H, U, n - 1)
  <2>1. IsFiniteSet(O \ {j}) /\ Cardinality(O \ {j}) = Cardinality(O) - 1
    BY FS_RemoveElement DEF Fits
  <2>2. QED BY <1>1, <2>1, ConstantsAssumption DEF Fits
<1>4. ASSUME NEW c \in H PROVE Fits(O, H \ {c}, U, n - 1)
  <2>1. IsFiniteSet(H \ {c}) /\ Cardinality(H \ {c}) = Cardinality(H) - 1
    BY FS_RemoveElement DEF Fits
  <2>2. QED BY <1>1, <2>1, ConstantsAssumption DEF Fits
<1>5. ASSUME NEW c \in U PROVE Fits(O, H, U \ {c}, n - 1)
  <2>1. IsFiniteSet(U \ {c}) /\ Cardinality(U \ {c}) = Cardinality(U) - 1
    BY FS_RemoveElement DEF Fits
  <2>2. QED BY <1>1, <2>1, ConstantsAssumption DEF Fits
<1>6. ASSUME O \cup H \cup U # {} PROVE n - 1 \in Nat
  <2>1. Cardinality(O) # 0 \/ Cardinality(H) # 0 \/ Cardinality(U) # 0
    BY <1>6, FS_EmptySet DEF Fits
  <2>2. QED BY <1>1, <1>2, <2>1 DEF Fits
<1>7. QED BY <1>2, <1>3, <1>4, <1>5, <1>6

----------------------------------------------------------------------------
(* The inductive invariant. While no token was given back twice, a busy    *)
(* slot holds the lock of a job no other slot has, that job is active and  *)
(* not waiting, and nobody is about to reset the counter; the tokens fit.  *)

LocksOK ==
  /\ \A w \in Workers : worker[w].lock <=> worker[w].pc # "idle"
  /\ \A w \in Workers : worker[w].pc # "idle" => worker[w].job \in active
  /\ \A v, w \in Workers :
       worker[v].pc # "idle" /\ worker[w].pc # "idle" /\ worker[v].job = worker[w].job
         => v = w
  /\ waiting \cap active = {}

NoClamp ==
  /\ \A w \in Workers : worker[w].pc # "clamp"
  /\ \A c \in Calls : call[c].pc # "clamp"

Sound == LocksOK /\ NoClamp /\ Fits(Owed, Holding, Undoing, inflight)

CapInv == seen \cap LateFaults = {} => Sound

LEMMA CapInvCapHolds == TypeInv /\ CapInv => CapHolds
BY DEF CapInv, Sound, Fits, CapHolds

LEMMA InitCap == Init => CapInv
<1> SUFFICES ASSUME Init PROVE Sound
  BY DEF CapInv
<1>1. Owed = {} /\ Holding = {} /\ Undoing = {} /\ inflight = 0
  BY DEF Init, Owed, Holding, Undoing
<1>2. Fits({}, {}, {}, 0)
  BY FS_EmptySet, ConstantsAssumption DEF Fits
<1>3. LocksOK /\ NoClamp
  BY DEF Init, LocksOK, NoClamp, IdleWorker
<1>4. QED BY <1>1, <1>2, <1>3 DEF Sound

(* What a step leaves of the tokens: everything.                           *)
Kept == Owed' = Owed /\ Holding' = Holding /\ Undoing' = Undoing /\ inflight' = inflight

(* Steps of the API process leave the slots and the active jobs alone,     *)
(* but for the removal of a stale job; so only the handlers' sets and the  *)
(* counter have to be followed.                                            *)
LEMMA HandlerMoves ==
  ASSUME TypeInv, Sound, NEW c \in Calls, UNCHANGED <<queueVars, worker>>,
         \A d \in Calls \ {c} : call'[d] = call[d], call'[c].pc # "clamp",
         call' \in [Calls -> [pc : CallPcs, job : JobIds \cup {NoJob}]]
  PROVE  /\ LocksOK' /\ NoClamp' /\ Owed' = Owed
         /\ Holding' = IF call'[c].pc \in {"enqueue", "add", "release"}
                       THEN Holding \cup {c} ELSE Holding \ {c}
         /\ Undoing' = IF call'[c].pc = "undo" THEN Undoing \cup {c} ELSE Undoing \ {c}
<1>1. LocksOK'
  BY DEF Sound, LocksOK, queueVars
<1>2. NoClamp'
  BY DEF Sound, NoClamp
<1>3. Owed' = Owed
  BY DEF Owed, Released, queueVars
<1>4. Holding' = IF call'[c].pc \in {"enqueue", "add", "release"}
                 THEN Holding \cup {c} ELSE Holding \ {c}
  BY DEF Holding
<1>5. Undoing' = IF call'[c].pc = "undo" THEN Undoing \cup {c} ELSE Undoing \ {c}
  BY DEF Undoing
<1>6. QED BY <1>1, <1>2, <1>3, <1>4, <1>5

(* A handler that neither takes nor gives a token back: it holds what it   *)
(* held, or nothing any more.                                              *)
LEMMA HandlerQuiet ==
  ASSUME TypeInv, TypeInv', Sound, NEW c \in Calls,
         UNCHANGED <<queueVars, worker, inflight>>,
         \A d \in Calls \ {c} : call'[d] = call[d],
         call[c].pc \notin {"enqueue", "add", "release", "undo"},
         call'[c].pc \notin {"enqueue", "add", "release", "undo", "clamp"}
  PROVE  Sound' /\ Kept
<1>1. call' \in [Calls -> [pc : CallPcs, job : JobIds \cup {NoJob}]]
  BY DEF TypeInv, CallsOK
<1>2. /\ LocksOK' /\ NoClamp' /\ Owed' = Owed
      /\ Holding' = Holding \ {c} /\ Undoing' = Undoing \ {c}
  BY <1>1, HandlerMoves
<1>3. c \notin Holding /\ c \notin Undoing
  BY DEF Holding, Undoing
<1>4. Holding' = Holding /\ Undoing' = Undoing
  BY <1>2, <1>3
<1>5. QED BY <1>2, <1>4 DEF Sound, Kept

LEMMA OtherCalls ==
  ASSUME TypeInv, NEW c \in Calls
  PROVE  /\ \A p \in CallPcs : GoCall(c, p) =>
              (\A d \in Calls \ {c} : call'[d] = call[d]) /\ call'[c].pc = p
         /\ CallDone(c) =>
              (\A d \in Calls \ {c} : call'[d] = call[d]) /\ call'[c].pc = "idle"
         /\ \A p \in CallPcs : \A j : StartCall(c, p, j) =>
              (\A d \in Calls \ {c} : call'[d] = call[d]) /\ call'[c].pc = p
BY DEF TypeInv, CallsOK, GoCall, CallDone, StartCall

LEMMA RequestsCap == ASSUME TypeInv, TypeInv', Sound, Requests PROVE Sound' /\ Kept
<1>1. ASSUME NEW u \in Users, NEW s \in Subs, Submit(u, s) PROVE Sound' /\ Kept
  <2>1. u \in Calls /\ "created" \in CallPcs
    BY DEF Calls, CallPcs
  <2>2. (\A d \in Calls \ {u} : call'[d] = call[d]) /\ call'[u].pc = "created"
    BY <1>1, <2>1, OtherCalls DEF Submit
  <2>3. call[u].pc = "idle" /\ UNCHANGED <<queueVars, worker, inflight>>
    BY <1>1 DEF Submit, StartCall, CallAt
  <2>4. QED BY <2>1, <2>2, <2>3, HandlerQuiet
<1>2. ASSUME NEW a \in Admins, NEW s \in Subs, RejudgeSelect(a, s) PROVE Sound' /\ Kept
  <2>1. a \in Calls /\ "check" \in CallPcs
    BY DEF Calls, CallPcs
  <2>2. (\A d \in Calls \ {a} : call'[d] = call[d]) /\ call'[a].pc = "check"
    BY <1>2, <2>1, OtherCalls DEF RejudgeSelect
  <2>3. call[a].pc = "idle" /\ UNCHANGED <<queueVars, worker, inflight>>
    BY <1>2 DEF RejudgeSelect, StartCall, CallAt
  <2>4. QED BY <2>1, <2>2, <2>3, HandlerQuiet
<1>3. QED BY <1>1, <1>2 DEF Requests

LEMMA PrepareCap ==
  ASSUME TypeInv, TypeInv', Sound, NEW c \in Calls,
         CreateRows(c) \/ RejudgeStep(c) \/ PrepareRows(c) \/ SetQueued(c)
  PROVE  Sound' /\ Kept
<1>1. call[c].pc \in {"created", "check", "load", "prepare", "setqueued"}
  BY DEF CreateRows, RejudgeStep, RejudgeCheck, RejudgeLoad, PrepareRows, SetQueued, CallAt
<1>2. UNCHANGED <<queueVars, worker, inflight>>
  BY DEF CreateRows, RejudgeStep, RejudgeCheck, RejudgeLoad, PrepareRows, SetQueued
<1>3. /\ \A d \in Calls \ {c} : call'[d] = call[d]
      /\ call'[c].pc \in {"idle", "load", "prepare", "setqueued", "acquire"}
  <2>1. {"idle", "load", "prepare", "setqueued", "acquire"} \subseteq CallPcs
    BY DEF CallPcs
  <2>2. CASE RejudgeLoad(c)
    BY <2>2 DEF RejudgeLoad, TypeInv, CallsOK
  <2>3. CASE ~RejudgeLoad(c)
    BY <2>1, <2>3, OtherCalls
    DEF CreateRows, RejudgeStep, RejudgeCheck, PrepareRows, SetQueued
  <2>4. QED BY <2>2, <2>3
<1>4. QED BY <1>1, <1>2, <1>3, HandlerQuiet

LEMMA ListCap ==
  ASSUME TypeInv, TypeInv', Sound, ListStuck PROVE Sound'
<1>1. Boot \in Calls
  BY DEF Calls
<1>2. (\A d \in Calls \ {Boot} : call'[d] = call[d]) /\ call'[Boot].pc = "idle"
  BY <1>1, OtherCalls DEF ListStuck
<1>3. call[Boot].pc = "list" /\ UNCHANGED <<queueVars, worker, inflight>>
  BY DEF ListStuck, CallAt
<1>4. QED BY <1>1, <1>2, <1>3, HandlerQuiet

LEMMA RecoveryCap ==
  ASSUME TypeInv, TypeInv', Sound, NEW s \in Subs, RecoverOne(s) PROVE Sound'
<1>1. Boot \in Calls /\ "prepare" \in CallPcs
  BY DEF Calls, CallPcs
<1>2. (\A d \in Calls \ {Boot} : call'[d] = call[d]) /\ call'[Boot].pc = "prepare"
  BY <1>1, OtherCalls DEF RecoverOne
<1>3. call[Boot].pc = "idle" /\ UNCHANGED <<queueVars, worker, inflight>>
  BY DEF RecoverOne, StartCall, CallAt
<1>4. QED BY <1>1, <1>2, <1>3, HandlerQuiet

LEMMA TokenCap ==
  ASSUME TypeInv, TypeInv', Sound, NEW c \in Calls,
         Acquire(c) \/ UndoAcquire(c) \/ ReleaseCall(c) \/ ClampCall(c)
  PROVE  Sound'
<1> DEFINE H == {"enqueue", "add", "release"}
<1>1. /\ UNCHANGED <<queueVars, worker>>
      /\ call' \in [Calls -> [pc : CallPcs, job : JobIds \cup {NoJob}]]
      /\ inflight \in Int
  BY DEF Acquire, UndoAcquire, ReleaseCall, ClampCall, TypeInv, CallsOK
<1>2. CASE Acquire(c)
  <2>1. c \notin Holding /\ c \notin Undoing
    BY <1>2 DEF Acquire, CallAt, Holding, Undoing
  <2>2. CASE inflight + 1 > MaxInflight
    <3>1. (\A d \in Calls \ {c} : call'[d] = call[d]) /\ call'[c].pc = "undo"
      BY <1>2, <2>2, OtherCalls DEF Acquire, CallPcs
    <3>2. LocksOK' /\ NoClamp' /\ Owed' = Owed /\ Holding' = Holding
          /\ Undoing' = Undoing \cup {c}
      BY <1>1, <2>1, <3>1, HandlerMoves
    <3>3. Fits(Owed, Holding, Undoing \cup {c}, inflight + 1)
      BY <1>1, FitsRefuse DEF Sound
    <3>4. QED BY <1>2, <3>2, <3>3 DEF Sound, Acquire
  <2>3. CASE ~(inflight + 1 > MaxInflight)
    <3>1. (\A d \in Calls \ {c} : call'[d] = call[d]) /\ call'[c].pc = "enqueue"
      BY <1>2, <2>3, OtherCalls DEF Acquire, CallPcs
    <3>2. LocksOK' /\ NoClamp' /\ Owed' = Owed /\ Holding' = Holding \cup {c}
          /\ Undoing' = Undoing
      BY <1>1, <2>1, <3>1, HandlerMoves
    <3>3. Fits(Owed, Holding \cup {c}, Undoing, inflight + 1)
      <4>1. inflight + 1 <= MaxInflight /\ inflight \in Int
        BY <1>1, <2>3, ConstantsAssumption
      <4>2. QED BY <4>1, FitsAcquire DEF Sound
    <3>4. QED BY <1>2, <3>2, <3>3 DEF Sound, Acquire
  <2>4. QED BY <2>2, <2>3
<1>3. CASE UndoAcquire(c)
  <2>1. c \in Undoing /\ c \notin Holding
    BY <1>3 DEF UndoAcquire, CallAt, Holding, Undoing
  <2>2. (\A d \in Calls \ {c} : call'[d] = call[d]) /\ call'[c].pc = "idle"
    BY <1>3, OtherCalls DEF UndoAcquire
  <2>3. LocksOK' /\ NoClamp' /\ Owed' = Owed /\ Holding' = Holding
        /\ Undoing' = Undoing \ {c}
    BY <1>1, <2>1, <2>2, HandlerMoves
  <2>4. Fits(Owed, Holding, Undoing \ {c}, inflight - 1)
    BY <1>1, <2>1, FitsRelease DEF Sound
  <2>5. QED BY <1>3, <2>3, <2>4 DEF Sound, UndoAcquire
<1>4. CASE ReleaseCall(c)
  <2>1. c \in Holding /\ c \notin Undoing
    BY <1>4 DEF ReleaseCall, CallAt, Holding, Undoing
  <2>2. inflight - 1 \in Nat /\ Fits(Owed, Holding \ {c}, Undoing, inflight - 1)
    BY <1>1, <2>1, FitsRelease DEF Sound
  <2>3. ~(inflight' < 0)
    BY <1>4, <2>2 DEF ReleaseCall
  <2>4. (\A d \in Calls \ {c} : call'[d] = call[d]) /\ call'[c].pc = "idle"
    BY <1>4, <2>3, OtherCalls DEF ReleaseCall
  <2>5. LocksOK' /\ NoClamp' /\ Owed' = Owed /\ Holding' = Holding \ {c}
        /\ Undoing' = Undoing
    BY <1>1, <2>1, <2>4, HandlerMoves
  <2>6. QED BY <1>4, <2>2, <2>5 DEF Sound, ReleaseCall
<1>5. CASE ClampCall(c)
  BY <1>5 DEF ClampCall, CallAt, Sound, NoClamp
<1>6. QED BY <1>2, <1>3, <1>4, <1>5

(* The job removed is held by nobody: the slots keep theirs.               *)
LEMMA RemoveCap ==
  ASSUME TypeInv, TypeInv', Sound, NEW c \in Calls, RemoveOldJob(c) PROVE Sound'
<1>1. /\ call[c].pc = "enqueue" /\ call'[c].pc = "add"
      /\ \A d \in Calls \ {c} : call'[d] = call[d]
  BY OtherCalls DEF RemoveOldJob, CallAt, CallPcs
<1>2. Holding' = Holding /\ Undoing' = Undoing
  BY <1>1 DEF Holding, Undoing
<1>3. /\ waiting' \subseteq waiting /\ active' \subseteq active
      /\ \A j \in active : Held(j) => j \in active'
      /\ worker' = worker /\ inflight' = inflight
  BY DEF RemoveOldJob
<1>4. LocksOK'
  <2>1. \A w \in Workers : worker[w].pc # "idle" => Held(worker[w].job)
    BY DEF Sound, LocksOK, Held
  <2>2. QED BY <1>3, <2>1 DEF Sound, LocksOK
<1>5. NoClamp'
  BY <1>1, <1>3 DEF Sound, NoClamp
<1>6. Owed' \subseteq Owed
  BY <1>3 DEF Owed, Released
<1>7. Fits(Owed', Holding', Undoing', inflight')
  BY <1>2, <1>3, <1>6, FitsSubset DEF Sound, TypeInv
<1>8. QED BY <1>4, <1>5, <1>7 DEF Sound

LEMMA AddCap ==
  ASSUME TypeInv, TypeInv', Sound, NEW c \in Calls, AddJob(c) PROVE Sound'
<1> DEFINE j == call[c].job
<1>1. /\ call[c].pc = "add" /\ call'[c].pc = "idle"
      /\ \A d \in Calls \ {c} : call'[d] = call[d]
  BY OtherCalls DEF AddJob, CallAt
<1>2. c \in Holding /\ Holding' = Holding \ {c} /\ Undoing' = Undoing
  BY <1>1 DEF Holding, Undoing
<1>3. /\ active' = active /\ worker' = worker /\ inflight' = inflight
      /\ waiting' = waiting \/ (waiting' = waiting \cup {j} /\ j \notin active)
  BY DEF AddJob, InQueue
<1>4. LocksOK' /\ NoClamp'
  BY <1>1, <1>3 DEF Sound, LocksOK, NoClamp
<1>5. Owed' \subseteq Owed \cup {j}
  <2>1. {i \in active : ~Released(i)}' = {i \in active : ~Released(i)}
    BY <1>3 DEF Released
  <2>2. QED BY <1>3, <2>1 DEF Owed
<1>6. Fits(Owed \cup {j}, Holding \ {c}, Undoing, inflight)
  BY <1>2, FitsHandOver DEF Sound, TypeInv
<1>7. Fits(Owed', Holding', Undoing', inflight')
  BY <1>2, <1>3, <1>5, <1>6, FitsSubset DEF TypeInv
<1>8. QED BY <1>4, <1>7 DEF Sound

(* Steps of a slot leave the handlers alone.                               *)
LEMMA SlotMoves ==
  ASSUME TypeInv, Sound, NEW w \in Workers, UNCHANGED call,
         \A v \in Workers \ {w} : worker'[v] = worker[v],
         worker' \in [Workers -> [pc : WorkerPcs, job : JobIds \cup {NoJob},
                        lock : BOOLEAN, target : {"JUDGING", "REJUDGING"},
                        test : Nat, ok : BOOLEAN]],
         worker'[w].pc # "clamp"
  PROVE  Holding' = Holding /\ Undoing' = Undoing /\ NoClamp'
BY DEF Holding, Undoing, NoClamp, Sound

(* A slot that goes on with its job, on the same side of the release.      *)
LEMMA SlotQuiet ==
  ASSUME TypeInv, TypeInv', Sound, NEW w \in Workers,
         UNCHANGED <<queueVars, call, inflight>>,
         \A v \in Workers \ {w} : worker'[v] = worker[v],
         worker[w].pc # "idle", worker'[w].pc \notin {"idle", "clamp"},
         worker'[w].job = worker[w].job, worker'[w].lock = worker[w].lock,
         worker[w].pc \in AfterRelease <=> worker'[w].pc \in AfterRelease
  PROVE  Sound' /\ Kept
<1>1. Holding' = Holding /\ Undoing' = Undoing /\ NoClamp'
  BY SlotMoves DEF TypeInv, WorkersOK
<1>2. LocksOK'
  BY DEF Sound, LocksOK, queueVars
<1>3. Owed' = Owed
  <2>1. \A j : Released(j)' <=> Released(j)
    BY DEF Released
  <2>2. {j \in active : ~Released(j)}' = {j \in active : ~Released(j)}
    BY <2>1 DEF queueVars
  <2>3. QED BY <2>2 DEF Owed, queueVars
<1>4. QED BY <1>1, <1>2, <1>3 DEF Sound, Kept

LEMMA OtherSlots ==
  ASSUME TypeInv, NEW w \in Workers, NEW p \in WorkerPcs, Go(w, p)
  PROVE  /\ \A v \in Workers \ {w} : worker'[v] = worker[v]
         /\ worker'[w].pc = p /\ worker'[w].job = worker[w].job
         /\ worker'[w].lock = worker[w].lock
BY DEF TypeInv, WorkersOK, Go

LEMMA JudgeCap ==
  ASSUME TypeInv, TypeInv', Sound, NEW w \in Workers,
         \/ ReadStatus(w) \/ MarkActive(w) \/ JudgeTest(w) \/ Finish(w)
         \/ PublishDone(w) \/ FailSubmission(w) \/ RereadCounter(w)
         \/ JobError(w) \/ PersistError(w)
  PROVE  Sound' /\ Kept
<1>1. UNCHANGED <<queueVars, call, inflight>>
  BY DEF ReadStatus, MarkActive, JudgeTest, Finish, PublishDone, FailSubmission,
         RereadCounter, JobError, PersistError, apiVars
<1>2. CASE RereadCounter(w)
  <2>1. inflight >= 0
    BY FitsRelease DEF Sound, TypeInv
  <2>2. worker[w].pc = "reread" /\ Go(w, "ack") /\ "ack" \in WorkerPcs
    BY <1>2, <2>1 DEF RereadCounter, At, TypeInv, WorkerPcs
  <2>3. QED BY <1>1, <2>2, OtherSlots, SlotQuiet DEF AfterRelease
<1>3. CASE ReadStatus(w)
  <2>1. /\ \A v \in Workers \ {w} : worker'[v] = worker[v]
        /\ worker[w].pc = "read" /\ worker'[w].pc = "mark"
        /\ worker'[w].job = worker[w].job /\ worker'[w].lock = worker[w].lock
    BY <1>3 DEF ReadStatus, At, TypeInv, WorkersOK
  <2>2. QED BY <1>1, <2>1, SlotQuiet DEF AfterRelease
<1>4. CASE JudgeTest(w)
  <2>1. /\ \A v \in Workers \ {w} : worker'[v] = worker[v]
        /\ worker[w].pc = "test" /\ worker'[w].pc = "test"
        /\ worker'[w].job = worker[w].job /\ worker'[w].lock = worker[w].lock
    BY <1>4 DEF JudgeTest, At, TypeInv, WorkersOK
  <2>2. QED BY <1>1, <2>1, SlotQuiet DEF AfterRelease
<1>5. CASE MarkActive(w) \/ Finish(w) \/ PublishDone(w) \/ FailSubmission(w)
           \/ JobError(w) \/ PersistError(w)
  <2>1. /\ worker[w].pc \in {"read", "mark", "test", "publish", "failing"}
        /\ \E p \in {"test", "publish", "release", "failing"} : Go(w, p)
    BY <1>5 DEF MarkActive, Finish, PublishDone, FailSubmission, JobError, PersistError, At
  <2>2. PICK p \in {"test", "publish", "release", "failing"} : Go(w, p)
    BY <2>1
  <2>3. /\ \A v \in Workers \ {w} : worker'[v] = worker[v]
        /\ worker'[w].pc = p /\ worker'[w].job = worker[w].job
        /\ worker'[w].lock = worker[w].lock
    BY <2>2, OtherSlots DEF WorkerPcs
  <2>4. QED BY <1>1, <2>1, <2>3, SlotQuiet DEF AfterRelease
<1>6. QED BY <1>2, <1>3, <1>4, <1>5

LEMMA TakeCap ==
  ASSUME TypeInv, TypeInv', Sound, NEW w \in Workers, NEW j \in waiting, TakeJob(w, j)
  PROVE  Sound' /\ Kept
<1>1. /\ \A v \in Workers \ {w} : worker'[v] = worker[v]
      /\ worker[w].pc = "idle" /\ worker'[w].pc = "read"
      /\ worker'[w].job = j /\ worker'[w].lock
      /\ waiting' = waiting \ {j} /\ active' = active \cup {j}
      /\ UNCHANGED <<call, inflight>>
  BY DEF TakeJob, At, IdleWorker, TypeInv, WorkersOK, apiVars
<1>2. Holding' = Holding /\ Undoing' = Undoing /\ NoClamp'
  BY <1>1, SlotMoves DEF TypeInv, WorkersOK
<1>3. j \notin active /\ \A v \in Workers : worker[v].pc # "idle" => worker[v].job # j
  BY DEF Sound, LocksOK
<1>4. LocksOK'
  <2>1. \A v \in Workers : worker'[v].lock <=> worker'[v].pc # "idle"
    BY <1>1 DEF Sound, LocksOK
  <2>2. \A v \in Workers : worker'[v].pc # "idle" => worker'[v].job \in active'
    BY <1>1 DEF Sound, LocksOK
  <2>3. \A u, v \in Workers :
          worker'[u].pc # "idle" /\ worker'[v].pc # "idle" /\ worker'[u].job = worker'[v].job
            => u = v
    BY <1>1, <1>3 DEF Sound, LocksOK
  <2>4. waiting' \cap active' = {}
    BY <1>1 DEF Sound, LocksOK
  <2>5. QED BY <2>1, <2>2, <2>3, <2>4 DEF LocksOK
<1>5. \A i : Released(i)' <=> Released(i)
  BY <1>1 DEF Released, AfterRelease
<1>6. ~Released(j)
  BY <1>3 DEF Released, AfterRelease
<1>7. {i \in active : ~Released(i)}' = {i \in active : ~Released(i)} \cup {j}
  BY <1>1, <1>5, <1>6
<1>8. Owed' = Owed
  BY <1>1, <1>7 DEF Owed
<1>9. QED BY <1>1, <1>2, <1>4, <1>8 DEF Sound, Kept

LEMMA ReleaseCap ==
  ASSUME TypeInv, TypeInv', Sound, NEW w \in Workers, ReleaseJob(w)
  PROVE  /\ Sound'
         /\ \E j \in Owed : Owed' = Owed \ {j}
         /\ Holding' = Holding /\ Undoing' = Undoing /\ inflight' = inflight - 1
<1> DEFINE j == worker[w].job
<1>1. /\ \A v \in Workers \ {w} : worker'[v] = worker[v]
      /\ worker[w].pc = "release" /\ worker'[w].pc = "reread"
      /\ worker'[w].job = j /\ worker'[w].lock = worker[w].lock
  BY OtherSlots DEF ReleaseJob, At, WorkerPcs
<1>2. UNCHANGED <<queueVars, call>> /\ inflight' = inflight - 1
  BY DEF ReleaseJob, apiVars
<1>3. Holding' = Holding /\ Undoing' = Undoing /\ NoClamp'
  BY <1>1, <1>2, SlotMoves DEF TypeInv, WorkersOK
<1>4. LocksOK'
  BY <1>1, <1>2 DEF Sound, LocksOK, queueVars
<1>5. j \in active /\ j \notin waiting /\ \A v \in Workers \ {w} :
        worker[v].pc # "idle" => worker[v].job # j
  BY <1>1 DEF Sound, LocksOK
<1>6. ~Released(j)
  BY <1>1, <1>5 DEF Released, AfterRelease
<1>7. \A i : Released(i)' <=> Released(i) \/ i = j
  BY <1>1 DEF Released, AfterRelease
<1>8. {i \in active : ~Released(i)}' = {i \in active : ~Released(i)} \ {j}
  BY <1>2, <1>7 DEF queueVars
<1>9. j \in Owed /\ Owed' = Owed \ {j}
  BY <1>2, <1>5, <1>6, <1>8 DEF Owed, queueVars
<1>10. Fits(Owed \ {j}, Holding, Undoing, inflight - 1)
  BY <1>9, FitsRelease DEF Sound, TypeInv
<1>11. QED BY <1>2, <1>3, <1>4, <1>9, <1>10 DEF Sound

LEMMA AckCap ==
  ASSUME TypeInv, TypeInv', Sound, NEW w \in Workers, AckJob(w)
  PROVE  Sound' /\ Kept
<1> DEFINE j == worker[w].job
<1>1. /\ \A v \in Workers \ {w} : worker'[v] = worker[v]
      /\ worker[w].pc = "ack" /\ worker'[w].pc = "idle" /\ ~worker'[w].lock
      /\ UNCHANGED <<call, inflight, waiting>>
  BY DEF AckJob, At, IdleWorker, TypeInv, WorkersOK, apiVars
<1>2. active' = active \ {j}
  BY <1>1 DEF AckJob, Sound, LocksOK
<1>3. Holding' = Holding /\ Undoing' = Undoing /\ NoClamp'
  BY <1>1, SlotMoves DEF TypeInv, WorkersOK
<1>4. \A v \in Workers \ {w} : worker[v].pc # "idle" => worker[v].job # j
  BY <1>1 DEF Sound, LocksOK
<1>5. LocksOK'
  BY <1>1, <1>2, <1>4 DEF Sound, LocksOK
<1>6. Released(j) /\ \A i : i # j => (Released(i)' <=> Released(i))
  BY <1>1 DEF Released, AfterRelease
<1>7. {i \in active : ~Released(i)}' = {i \in active : ~Released(i)}
  BY <1>2, <1>6
<1>8. Owed' = Owed
  BY <1>1, <1>7 DEF Owed
<1>9. QED BY <1>1, <1>3, <1>5, <1>8 DEF Sound, Kept

LEMMA RedeliverCap ==
  ASSUME TypeInv, TypeInv', Sound, NEW j \in active, Redeliver(j)
  PROVE  Sound'
<1>1. /\ active' = active \ {j} /\ waiting' \subseteq waiting \cup {j}
      /\ UNCHANGED <<call, worker, inflight>>
  BY DEF Redeliver, apiVars
<1>2. Holding' = Holding /\ Undoing' = Undoing /\ NoClamp'
  BY <1>1 DEF Holding, Undoing, NoClamp, Sound
<1>3. \A w \in Workers : worker[w].pc # "idle" => worker[w].job # j
  BY DEF Redeliver, Held, Sound, LocksOK
<1>4. LocksOK'
  BY <1>1, <1>3 DEF Sound, LocksOK
<1>5. ~Released(j) /\ \A i : Released(i)' <=> Released(i)
  BY <1>1, <1>3 DEF Released, AfterRelease
<1>6. j \in Owed
  BY <1>5 DEF Owed
<1>7. {i \in active : ~Released(i)}' \subseteq {i \in active : ~Released(i)}
  BY <1>1, <1>5
<1>8. Owed' \subseteq Owed
  BY <1>1, <1>6, <1>7 DEF Owed
<1>9. Fits(Owed', Holding', Undoing', inflight')
  BY <1>1, <1>2, <1>8, FitsSubset DEF Sound, TypeInv
<1>10. QED BY <1>2, <1>4, <1>9 DEF Sound

(* A slot that dies before the release leaves its job active and owing.    *)
LEMMA CrashCap ==
  ASSUME TypeInv, TypeInv', Sound, NEW w \in Workers, WorkerCrash(w),
         worker[w].pc \notin AfterRelease
  PROVE  Sound'
<1>1. /\ \A v \in Workers \ {w} : worker'[v] = worker[v]
      /\ worker'[w].pc = "idle" /\ ~worker'[w].lock
      /\ UNCHANGED <<queueVars, call, inflight>>
  BY DEF WorkerCrash, IdleWorker, TypeInv, WorkersOK, apiVars
<1>2. Holding' = Holding /\ Undoing' = Undoing /\ NoClamp'
  BY <1>1, SlotMoves DEF TypeInv, WorkersOK
<1>3. LocksOK'
  BY <1>1 DEF Sound, LocksOK, queueVars
<1>4. \A i : Released(i)' <=> Released(i)
  BY <1>1 DEF Released, AfterRelease
<1>5. {i \in active : ~Released(i)}' = {i \in active : ~Released(i)}
  BY <1>1, <1>4 DEF queueVars
<1>6. Owed' = Owed
  BY <1>1, <1>5 DEF Owed, queueVars
<1>7. QED BY <1>1, <1>2, <1>3, <1>6 DEF Sound

LEMMA EnqueueErrorCap ==
  ASSUME TypeInv, TypeInv', Sound, NEW c \in Calls, EnqueueError(c)
  PROVE  Sound'
<1>1. /\ call[c].pc \in {"enqueue", "add"} /\ call'[c].pc = "release"
      /\ \A d \in Calls \ {c} : call'[d] = call[d]
      /\ UNCHANGED <<queueVars, worker, inflight>>
  BY OtherCalls DEF EnqueueError, CallPcs
<1>2. c \in Holding
  BY <1>1 DEF Holding
<1>3. c \notin Undoing
  BY <1>1 DEF Undoing
<1>4. /\ LocksOK' /\ NoClamp' /\ Owed' = Owed /\ Holding' = Holding \cup {c}
      /\ Undoing' = Undoing \ {c}
  BY <1>1, HandlerMoves DEF TypeInv, CallsOK
<1>5. Holding' = Holding /\ Undoing' = Undoing
  BY <1>2, <1>3, <1>4
<1>6. QED BY <1>1, <1>4, <1>5 DEF Sound

(* The tokens of the handlers that die with the API process stay counted:  *)
(* they are lost to the queue, and the cap errs on the safe side.          *)
LEMMA RestartCap ==
  ASSUME TypeInv, TypeInv', Sound, ApiRestart PROVE Sound'
<1>1. /\ \A c \in Calls : call'[c].pc \in {"idle", "list"}
      /\ UNCHANGED <<queueVars, worker, inflight>>
  BY DEF ApiRestart
<1>2. Holding' = {} /\ Undoing' = {}
  BY <1>1 DEF Holding, Undoing
<1>3. LocksOK' /\ NoClamp'
  BY <1>1 DEF Sound, LocksOK, NoClamp, queueVars
<1>4. {j \in active : ~Released(j)}' = {j \in active : ~Released(j)}
  BY <1>1 DEF Released, queueVars
<1>5. Owed' = Owed
  BY <1>1, <1>4 DEF Owed, queueVars
<1>6. Fits(Owed', Holding', Undoing', inflight')
  BY <1>1, <1>2, <1>5, FitsSubset DEF Sound, TypeInv
<1>7. QED BY <1>3, <1>6 DEF Sound

----------------------------------------------------------------------------

LEMMA FaultsCap ==
  ASSUME TypeInv, TypeInv', Sound, Faults, seen' \cap LateFaults = {}
  PROVE  Sound'
<1>1. CASE ApiRestart
  BY <1>1, RestartCap
<1>2. ASSUME NEW c \in Calls, EnqueueError(c) PROVE Sound'
  BY <1>2, EnqueueErrorCap
<1>3. ASSUME NEW w \in Workers, JobError(w) \/ PersistError(w) PROVE Sound'
  BY <1>3, JudgeCap
<1>4. ASSUME NEW w \in Workers, WorkerCrash(w) PROVE Sound'
  <2>1. worker[w].pc \notin AfterRelease
    BY <1>4 DEF WorkerCrash, Fault, LateFaults
  <2>2. QED BY <1>4, <2>1, CrashCap
<1>5. ASSUME NEW w \in Workers, LockLost(w) PROVE FALSE
  BY <1>5 DEF LockLost, Fault, LateFaults
<1>6. ASSUME NEW c \in Calls, LostReply(c) PROVE FALSE
  BY <1>6 DEF LostReply, Fault, LateFaults
<1>7. QED BY <1>1, <1>2, <1>3, <1>4, <1>5, <1>6 DEF Faults

(* A fault that has happened is not forgotten.                             *)
LEMMA SeenGrows == ASSUME [Next]_vars PROVE seen \subseteq seen'
<1>1. CASE Faults
  BY <1>1 DEF Faults, Fault, ApiRestart, EnqueueError, LostReply, JobError,
              PersistError, WorkerCrash, LockLost
<1>2. CASE ~Faults
  <2>1. CASE Requests
    BY <2>1 DEF Requests, Submit, RejudgeSelect, faultVars
  <2>2. ASSUME NEW c \in Calls, ApiStep(c) PROVE seen' = seen
    BY <2>2 DEF ApiStep, EnqueueStep, RejudgeStep, CreateRows, RejudgeCheck, RejudgeLoad,
                PrepareRows, SetQueued, Acquire, UndoAcquire, RemoveOldJob, AddJob,
                ReleaseCall, ClampCall, faultVars
  <2>3. ASSUME NEW s \in Subs, RecoverOne(s) PROVE seen' = seen
    BY <2>3 DEF RecoverOne, faultVars
  <2>4. ASSUME NEW w \in Workers, JobStep(w) PROVE seen' = seen
    BY <2>4 DEF JobStep, ReadStatus, MarkActive, JudgeTest, Finish, PublishDone,
                FailSubmission, ReleaseJob, RereadCounter, ClampJob, AckJob, faultVars
  <2>5. ASSUME NEW w \in Workers, NEW j \in waiting, TakeJob(w, j) PROVE seen' = seen
    BY <2>5 DEF TakeJob, faultVars
  <2>6. ASSUME NEW j \in active, Redeliver(j) PROVE seen' = seen
    BY <2>6 DEF Redeliver, faultVars
  <2>7. CASE ListStuck \/ UNCHANGED vars
    BY <2>7 DEF ListStuck, vars, faultVars
  <2>8. QED
    BY <1>2, <2>1, <2>2, <2>3, <2>4, <2>5, <2>6, <2>7
    DEF Next, Recovery, WorkerStep, StalledCheck
<1>3. QED BY <1>1, <1>2

LEMMA NextCap == TypeInv /\ TypeInv' /\ CapInv /\ [Next]_vars => CapInv'
<1> SUFFICES ASSUME TypeInv, TypeInv', CapInv, [Next]_vars, seen' \cap LateFaults = {}
             PROVE  Sound'
  BY DEF CapInv
<1>1. seen \subseteq seen'
  BY SeenGrows
<1>2. Sound
  BY <1>1 DEF CapInv
<1>3. CASE Requests
  BY <1>2, <1>3, RequestsCap
<1>4. ASSUME NEW c \in Calls, ApiStep(c) PROVE Sound'
  BY <1>2, <1>4, PrepareCap, TokenCap, RemoveCap, AddCap DEF ApiStep, EnqueueStep
<1>5. CASE Recovery
  BY <1>2, <1>5, ListCap, RecoveryCap DEF Recovery
<1>6. ASSUME NEW w \in Workers, WorkerStep(w) PROVE Sound'
  <2>1. ~ClampJob(w)
    BY <1>2 DEF ClampJob, At, Sound, NoClamp
  <2>2. QED
    BY <1>2, <1>6, <2>1, JudgeCap, TakeCap, ReleaseCap, AckCap DEF WorkerStep, JobStep
<1>7. CASE StalledCheck
  BY <1>2, <1>7, RedeliverCap DEF StalledCheck
<1>8. CASE Faults
  BY <1>2, <1>8, FaultsCap
<1>9. CASE UNCHANGED vars
  <2>1. LocksOK' /\ NoClamp'
    BY <1>2, <1>9 DEF vars, queueVars, apiVars, Sound, LocksOK, NoClamp
  <2>2. Owed' = Owed
    <3>1. {j \in active : ~Released(j)}' = {j \in active : ~Released(j)}
      BY <1>9 DEF vars, queueVars, Released
    <3>2. QED BY <1>9, <3>1 DEF vars, queueVars, Owed
  <2>3. Holding' = Holding /\ Undoing' = Undoing /\ inflight' = inflight
    BY <1>9 DEF vars, apiVars, Holding, Undoing
  <2>4. QED BY <1>2, <2>1, <2>2, <2>3 DEF Sound
<1>10. QED
  BY <1>3, <1>4, <1>5, <1>6, <1>7, <1>8, <1>9 DEF Next

(* JUDGE_GLOBAL_MAX_INFLIGHT caps the jobs waiting and being judged, for   *)
(* any number of handlers, workers, restarts, crashes before the release   *)
(* and Redis errors while enqueuing: InflightService and releaseInflight   *)
(* never let a job in without a token, as long as none is returned twice.  *)
THEOREM SiteCap == Spec => []CapHolds
<1>1. Spec => []TypeInv
  BY InitType, NextType, PTL DEF Spec
<1>2. Spec => []CapInv
  BY <1>1, InitCap, NextCap, PTL DEF Spec
<1>3. QED
  BY <1>1, <1>2, CapInvCapHolds, PTL

(* And then nobody resets the counter either: the clamp to zero, which     *)
(* could wipe out the tokens of handlers that increment between its read   *)
(* and its write, is reached only after a token has been returned twice.   *)
NoReset == seen \cap LateFaults = {} => NoClamp /\ inflight >= 0

THEOREM CounterNeverReset == Spec => []NoReset
<1>1. Spec => []TypeInv
  BY InitType, NextType, PTL DEF Spec
<1>2. Spec => []CapInv
  BY <1>1, InitCap, NextCap, PTL DEF Spec
<1>3. TypeInv /\ CapInv => NoReset
  BY FitsRelease DEF CapInv, Sound, NoReset, TypeInv
<1>4. QED
  BY <1>1, <1>2, <1>3, PTL

----------------------------------------------------------------------------
(* Two administrators do not choose the same submission at once: from the  *)
(* look at its status to the write of the new one. rejudge.service.ts does *)
(* not see to it.                                                          *)
Choosing == {"check", "load", "prepare", "setqueued"}
Apart ==
  \A a, b \in Admins :
    /\ call[a].pc \in Choosing /\ call[b].pc \in Choosing
    /\ SubOf(call[a].job) = SubOf(call[b].job)
    => a = b

(* What carries a submission on: a handler up to the hand-over, a waiting  *)
(* job, or a slot up to its verdict.                                       *)
Carrying == Choosing \cup {"created", "acquire", "enqueue", "add"}
Carries(c, s) == call[c].pc \in Carrying /\ SubOf(call[c].job) = s
Waits(j, s) == j \in waiting /\ SubOf(j) = s
Runs(w, s) == worker[w].pc \in {"read", "mark", "test"} /\ SubOf(worker[w].job) = s

OneCarrier(s) ==
  /\ \A c, d \in Calls : Carries(c, s) /\ Carries(d, s) => c = d
  /\ \A j, k \in waiting : SubOf(j) = s /\ SubOf(k) = s => j = k
  /\ \A v, w \in Workers : Runs(v, s) /\ Runs(w, s) => v = w
  /\ (\E c \in Calls : Carries(c, s)) => \A j \in waiting : SubOf(j) # s
  /\ (\E w \in Workers : Runs(w, s)) =>
       /\ \A c \in Calls : ~Carries(c, s)
       /\ \A j \in waiting : SubOf(j) # s

Queued == {"QUEUED", "REJUDGE_QUEUED"}

CarrierOK(c, s) ==
  LET pc == call[c].pc
      j == call[c].job
  IN  \/ /\ PathOf(j) = "first" /\ pc \notin {"check", "load"}
         /\ status[s] = "QUEUED" /\ j \notin InQueue
      \/ /\ PathOf(j) = "rejudge" /\ c \in Admins /\ pc # "created"
         /\ pc \in Choosing => status[s] \in Terminal
         /\ pc \in {"prepare", "setqueued"} => NumOf(j) = rejudgeCount[s] + 1
         /\ pc \in {"acquire", "enqueue", "add"} =>
              status[s] = "REJUDGE_QUEUED" /\ NumOf(j) = rejudgeCount[s] /\ j \notin InQueue

RunOK(w, s) ==
  /\ worker[w].pc \in {"read", "mark"} =>
       status[s] \in Queued /\ worker[w].test = 1 /\ worker[w].ok
  /\ worker[w].pc = "test" =>
       /\ status[s] \in {"JUDGING", "REJUDGING"} /\ worker[w].test \in 1..(NTests + 1)
       /\ worker[w].ok => \A t \in 1..(worker[w].test - 1) : rows[s][t] = "AC"
       /\ ~worker[w].ok => \E t \in 1..(worker[w].test - 1) : rows[s][t] = "FAIL"

JobOK(j) ==
  /\ status[SubOf(j)] # "none"
  /\ PathOf(j) = "rejudge" => NumOf(j) <= rejudgeCount[SubOf(j)]
  /\ j \in waiting => status[SubOf(j)] \in Queued

VerdictOK(s) ==
  ~Preparing(s) =>
    /\ status[s] = "ACCEPTED" => \A t \in Tests : rows[s][t] = "AC"
    /\ status[s] = "REJECTED" => \E t \in Tests : rows[s][t] = "FAIL"

LifeOf(s) ==
  /\ OneCarrier(s)
  /\ \A c \in Calls : Carries(c, s) => CarrierOK(c, s)
  /\ \A w \in Workers : Runs(w, s) => RunOK(w, s)
  /\ VerdictOK(s)

LocksHeld ==
  /\ \A w \in Workers : worker[w].lock <=> worker[w].pc # "idle"
  /\ \A w \in Workers : worker[w].pc # "idle" => worker[w].job \in active
  /\ \A v, w \in Workers :
       worker[v].pc # "idle" /\ worker[w].pc # "idle" /\ worker[v].job = worker[w].job
         => v = w
  /\ waiting \cap active = {}
  /\ \A j \in active : Held(j)
  /\ \A w \in Workers : worker[w].pc # "failing"

Life ==
  /\ todo = {} /\ call[Boot].pc = "idle"
  /\ LocksHeld
  /\ \A j \in InQueue : JobOK(j)
  /\ \A s \in Subs : LifeOf(s)

LifeInv == seen \subseteq HandlerFaults => Life

LEMMA InitLife == Init => LifeInv
<1> SUFFICES ASSUME Init PROVE Life
  BY DEF LifeInv
<1>1. /\ todo = {} /\ call[Boot].pc = "idle" /\ InQueue = {} /\ waiting = {} /\ active = {}
      /\ \A c \in Calls : call[c].pc = "idle"
      /\ \A w \in Workers : worker[w].pc = "idle" /\ ~worker[w].lock
  BY DEF Init, IdleWorker, InQueue, Calls
<1>2. LocksHeld
  BY <1>1 DEF LocksHeld
<1>3. ASSUME NEW s \in Subs PROVE LifeOf(s)
  <2>1. \A c \in Calls : ~Carries(c, s)
    BY <1>1 DEF Carries, Carrying, Choosing
  <2>2. \A w \in Workers : ~Runs(w, s)
    BY <1>1 DEF Runs
  <2>3. VerdictOK(s)
    BY DEF VerdictOK, Init
  <2>4. QED BY <1>1, <2>1, <2>2, <2>3 DEF LifeOf, OneCarrier
<1>4. QED BY <1>1, <1>2, <1>3 DEF Life

(* What is none of an action's business stays as it is.                    *)
LEMMA FrameLife ==
  ASSUME NEW s \in Subs, LifeOf(s),
         status'[s] = status[s], rejudgeCount'[s] = rejudgeCount[s], rows'[s] = rows[s],
         \A c \in Calls : call'[c] = call[c] \/ (~Carries(c, s) /\ ~Carries(c, s)'),
         \A w \in Workers : worker'[w] = worker[w] \/ (~Runs(w, s) /\ ~Runs(w, s)'),
         \A j : SubOf(j) = s => (j \in waiting' <=> j \in waiting) /\ (j \in InQueue' <=> j \in InQueue)
  PROVE  LifeOf(s)'
<1>1. \A c \in Calls : Carries(c, s)' <=> Carries(c, s)
  BY DEF Carries
<1>2. \A w \in Workers : Runs(w, s)' <=> Runs(w, s)
  BY DEF Runs
<1>3. OneCarrier(s)'
  BY <1>1, <1>2 DEF LifeOf, OneCarrier
<1>4. ASSUME NEW c \in Calls, Carries(c, s)' PROVE CarrierOK(c, s)'
  <2>1. Carries(c, s) /\ call'[c] = call[c] /\ CarrierOK(c, s) /\ SubOf(call[c].job) = s
    BY <1>1, <1>4 DEF LifeOf, Carries
  <2>2. call[c].job \in InQueue' <=> call[c].job \in InQueue
    BY <2>1
  <2>3. QED BY <2>1, <2>2 DEF CarrierOK
<1>5. ASSUME NEW w \in Workers, Runs(w, s)' PROVE RunOK(w, s)'
  <2>1. Runs(w, s) /\ worker'[w] = worker[w] /\ RunOK(w, s)
    BY <1>2, <1>5 DEF LifeOf
  <2>2. QED BY <2>1 DEF RunOK
<1>6. VerdictOK(s)'
  <2>1. Preparing(s)' <=> Preparing(s)
    BY DEF Preparing, CallAt, Carries, Carrying, Choosing
  <2>2. QED BY <2>1 DEF LifeOf, VerdictOK
<1>7. QED BY <1>3, <1>4, <1>5, <1>6 DEF LifeOf

LEMMA FrameJobs ==
  ASSUME \A j \in InQueue : JobOK(j), InQueue' \subseteq InQueue,
         waiting' \subseteq waiting,
         \A j \in InQueue : /\ status'[SubOf(j)] # "none"
                            /\ rejudgeCount'[SubOf(j)] >= rejudgeCount[SubOf(j)]
                            /\ j \in waiting => status'[SubOf(j)] \in Queued,
         \A j \in InQueue : NumOf(j) \in Nat /\ rejudgeCount[SubOf(j)] \in Nat
                            /\ rejudgeCount'[SubOf(j)] \in Nat
  PROVE  \A j \in InQueue' : JobOK(j)'
<1> TAKE j \in InQueue'
<1>1. j \in InQueue /\ JobOK(j)
  OBVIOUS
<1>2. QED BY <1>1 DEF JobOK

LEMMA FrameLocks ==
  ASSUME LocksHeld, UNCHANGED <<waiting, active, worker>>
  PROVE  LocksHeld'
BY DEF LocksHeld, Held

----------------------------------------------------------------------------
(* A step of a handler on the way to the hand-over.                        *)

NoneElse(c, s) ==
  /\ \A d \in Calls \ {c} : ~Carries(d, s)
  /\ \A j \in waiting : SubOf(j) # s
  /\ \A w \in Workers : ~Runs(w, s)

LEMMA CarrierAlone ==
  ASSUME NEW s, NEW c \in Calls, OneCarrier(s), Carries(c, s)
  PROVE  NoneElse(c, s)
BY DEF OneCarrier, NoneElse

(* Which rows of the table a step leaves alone.                            *)
OthersKept(s) ==
  \A r \in Subs \ {s} :
    status'[r] = status[r] /\ rejudgeCount'[r] = rejudgeCount[r] /\ rows'[r] = rows[r]

LEMMA HandlerLife ==
  ASSUME Life, NEW c \in Calls, NEW s \in Subs, NoneElse(c, s), OthersKept(s),
         UNCHANGED <<queueVars, worker, todo>>,
         \A d \in Calls \ {c} : call'[d] = call[d],
         SubOf(call[c].job) = s \/ call[c].pc = "idle",
         SubOf(call'[c].job) = s \/ call'[c].pc = "idle",
         c # Boot,
         Carries(c, s)' => CarrierOK(c, s)',
         VerdictOK(s)',
         status[s] # "none" => status'[s] # "none",
         rejudgeCount'[s] >= rejudgeCount[s],
         TypeInv, TypeInv'
  PROVE  Life'
<1>1. InQueue' = InQueue /\ waiting' = waiting /\ active' = active
  BY DEF InQueue, queueVars
<1>2. LocksHeld'
  BY <1>1, FrameLocks DEF Life
<1>3. \A j \in InQueue' : JobOK(j)'
  <2>1. ASSUME NEW j \in InQueue
        PROVE  /\ status'[SubOf(j)] # "none"
               /\ rejudgeCount'[SubOf(j)] >= rejudgeCount[SubOf(j)]
               /\ j \in waiting => status'[SubOf(j)] \in Queued
               /\ NumOf(j) \in Nat /\ rejudgeCount[SubOf(j)] \in Nat
               /\ rejudgeCount'[SubOf(j)] \in Nat
    <3>1. j \in JobIds /\ SubOf(j) \in Subs /\ NumOf(j) \in Nat
      BY JobIdsType DEF InQueue, TypeInv, QueueOK
    <3>2. JobOK(j)
      BY DEF Life
    <3>3. rejudgeCount[SubOf(j)] \in Nat /\ rejudgeCount'[SubOf(j)] \in Nat
      BY <3>1 DEF TypeInv, SubsOK
    <3>4. CASE SubOf(j) = s
      BY <3>1, <3>2, <3>3, <3>4 DEF NoneElse, JobOK
    <3>5. CASE SubOf(j) # s
      BY <3>1, <3>2, <3>3, <3>5 DEF OthersKept, JobOK
    <3>6. QED BY <3>4, <3>5
  <2>2. QED BY <1>1, <2>1, FrameJobs DEF Life
<1>4. ASSUME NEW r \in Subs \ {s} PROVE LifeOf(r)'
  <2>1. ~Carries(c, r) /\ ~Carries(c, r)'
    BY DEF Carries, Carrying, Choosing
  <2>2. LifeOf(r)
    BY DEF Life
  <2>3. QED BY <1>1, <2>1, <2>2, FrameLife DEF OthersKept
<1>5. LifeOf(s)'
  <2>1. \A d \in Calls \ {c} : ~Carries(d, s)'
    BY DEF NoneElse, Carries
  <2>2. \A w \in Workers : ~Runs(w, s)'
    BY DEF NoneElse, Runs
  <2>3. \A j \in waiting' : SubOf(j) # s
    BY <1>1 DEF NoneElse
  <2>4. OneCarrier(s)'
    BY <2>1, <2>2, <2>3 DEF OneCarrier
  <2>5. QED BY <2>1, <2>2, <2>4 DEF LifeOf
<1>6. todo' = {} /\ call'[Boot].pc = "idle"
  BY DEF Life, Calls
<1>7. QED BY <1>2, <1>3, <1>4, <1>5, <1>6 DEF Life

(* What is terminal or new has nobody but an administrator about it.       *)
LEMMA NobodyCarries ==
  ASSUME Life, TypeInv, NEW s \in Subs, status[s] \notin InFlight
  PROVE  /\ \A j \in waiting : SubOf(j) # s
         /\ \A w \in Workers : ~Runs(w, s)
         /\ \A c \in Calls : Carries(c, s) =>
              c \in Admins /\ call[c].pc \in Choosing /\ status[s] \in Terminal
<1>1. LifeOf(s) /\ \A j \in InQueue : JobOK(j)
  BY DEF Life
<1>2. \A j \in waiting : SubOf(j) # s
  BY <1>1 DEF InQueue, JobOK, Queued, InFlight
<1>3. \A w \in Workers : ~Runs(w, s)
  BY <1>1 DEF LifeOf, Runs, RunOK, Queued, InFlight
<1>4. ASSUME NEW c \in Calls, Carries(c, s)
      PROVE  c \in Admins /\ call[c].pc \in Choosing /\ status[s] \in Terminal
  <2>1. CarrierOK(c, s) /\ call[c].pc \in Carrying
    BY <1>1, <1>4 DEF LifeOf, Carries
  <2>2. QED BY <2>1 DEF CarrierOK, Carrying, Choosing, InFlight
<1>5. QED BY <1>2, <1>3, <1>4

LEMMA CarrierFacts ==
  ASSUME Life, TypeInv, NEW c \in Calls, call[c].pc \in Carrying
  PROVE  LET s == SubOf(call[c].job)
         IN  /\ s \in Subs /\ NumOf(call[c].job) \in Nat /\ c # Boot
             /\ NoneElse(c, s) /\ CarrierOK(c, s) /\ VerdictOK(s) /\ status[s] # "none"
<1> DEFINE s == SubOf(call[c].job)
<1>1. call[c].job \in JobIds
  BY DEF TypeInv, CallsOK, Carrying, Choosing
<1>2. s \in Subs /\ NumOf(call[c].job) \in Nat
  BY <1>1, JobIdsType
<1>3. Carries(c, s) /\ LifeOf(s)
  BY <1>2 DEF Carries, Life
<1>4. c # Boot
  BY DEF Life, Carrying, Choosing
<1>5. NoneElse(c, s)
  BY <1>3, CarrierAlone DEF LifeOf
<1>6. CarrierOK(c, s) /\ VerdictOK(s)
  BY <1>3 DEF LifeOf
<1>7. status[s] # "none"
  BY <1>6 DEF CarrierOK, Carrying, Terminal
<1>8. QED BY <1>2, <1>4, <1>5, <1>6, <1>7

LEMMA RequestsLife ==
  ASSUME Life, TypeInv, TypeInv', Apart', Requests PROVE Life'
<1>1. ASSUME NEW u \in Users, NEW s \in Subs, Submit(u, s) PROVE Life'
  <2>1. /\ u \in Calls /\ u # Boot /\ status[s] = "none"
        /\ call' = [call EXCEPT ![u] = [pc |-> "created", job |-> <<s, "first", 0>>]]
        /\ call[u].pc = "idle" /\ status' = [status EXCEPT ![s] = "QUEUED"]
        /\ UNCHANGED <<rejudgeCount, rows, queueVars, worker, todo>>
    BY <1>1, ConstantsAssumption DEF Submit, StartCall, CallAt, Calls
  <2>2. /\ \A d \in Calls \ {u} : call'[d] = call[d]
        /\ call'[u] = [pc |-> "created", job |-> <<s, "first", 0>>]
    BY <2>1 DEF TypeInv, CallsOK
  <2>3. NoneElse(u, s)
    BY <2>1, NobodyCarries DEF NoneElse, InFlight, Terminal
  <2>4. status'[s] = "QUEUED" /\ OthersKept(s)
    BY <2>1 DEF TypeInv, SubsOK, OthersKept
  <2>5. <<s, "first", 0>> \notin InQueue'
    BY <2>1 DEF Life, JobOK, SubOf, InQueue, queueVars
  <2>6. CarrierOK(u, s)'
    BY <2>2, <2>4, <2>5 DEF CarrierOK, PathOf
  <2>7. VerdictOK(s)'
    BY <2>4 DEF VerdictOK
  <2>8. rejudgeCount'[s] >= rejudgeCount[s]
    BY <2>1 DEF TypeInv, SubsOK
  <2>9. SubOf(call'[u].job) = s
    BY <2>2 DEF SubOf
  <2>10. QED
    BY <2>1, <2>2, <2>3, <2>4, <2>6, <2>7, <2>8, <2>9, HandlerLife
<1>2. ASSUME NEW a \in Admins, NEW s \in Subs, RejudgeSelect(a, s) PROVE Life'
  <2>1. /\ a \in Calls /\ a # Boot /\ status[s] \in Terminal
        /\ call' = [call EXCEPT ![a] = [pc |-> "check", job |-> <<s, "rejudge", 0>>]]
        /\ call[a].pc = "idle"
        /\ UNCHANGED <<status, rejudgeCount, rows, queueVars, worker, todo>>
    BY <1>2, ConstantsAssumption DEF RejudgeSelect, StartCall, CallAt, Calls, subVars
  <2>2. /\ \A d \in Calls \ {a} : call'[d] = call[d]
        /\ call'[a] = [pc |-> "check", job |-> <<s, "rejudge", 0>>]
    BY <2>1 DEF TypeInv, CallsOK
  <2>3. SubOf(call'[a].job) = s
    BY <2>2 DEF SubOf
  <2>4. ASSUME NEW d \in Calls \ {a}, Carries(d, s) PROVE FALSE
    <3>1. d \in Admins /\ call[d].pc \in Choosing /\ SubOf(call[d].job) = s
      BY <2>1, <2>4, NobodyCarries DEF Terminal, InFlight, Carries
    <3>2. call'[d].pc \in Choosing /\ SubOf(call'[d].job) = SubOf(call'[a].job)
      BY <2>2, <2>3, <3>1
    <3>3. call'[a].pc \in Choosing
      BY <2>2 DEF Choosing
    <3>4. QED BY <3>1, <3>2, <3>3 DEF Apart
  <2>5. NoneElse(a, s)
    BY <2>1, <2>4, NobodyCarries DEF NoneElse, InFlight, Terminal
  <2>6. CarrierOK(a, s)'
    BY <2>1, <2>2 DEF CarrierOK, PathOf, Choosing
  <2>7. VerdictOK(s)'
    <3>1. Preparing(s)' <=> Preparing(s)
      BY <2>1, <2>2 DEF Preparing, CallAt
    <3>2. QED BY <2>1, <3>1 DEF VerdictOK, Life, LifeOf
  <2>8. rejudgeCount'[s] >= rejudgeCount[s] /\ OthersKept(s)
    BY <2>1 DEF TypeInv, SubsOK, OthersKept
  <2>9. QED
    BY <2>1, <2>2, <2>3, <2>5, <2>6, <2>7, <2>8, HandlerLife
<1>3. QED BY <1>1, <1>2 DEF Requests

(* A handler that goes on with its submission without a word to the table  *)
(* but for the rows it resets.                                             *)
LEMMA PrepareLife ==
  ASSUME Life, TypeInv, TypeInv', NEW c \in Calls,
         CreateRows(c) \/ RejudgeStep(c) \/ PrepareRows(c)
  PROVE  Life'
<1> SUFFICES ASSUME NEW j, NEW s, j = call[c].job, s = SubOf(j) PROVE Life'
  OBVIOUS
<1>1. call[c].pc \in Carrying
  BY DEF CreateRows, RejudgeStep, RejudgeCheck, RejudgeLoad, PrepareRows, CallAt,
         Carrying, Choosing
<1>2. /\ s \in Subs /\ NumOf(j) \in Nat /\ c # Boot
      /\ NoneElse(c, s) /\ CarrierOK(c, s) /\ VerdictOK(s) /\ status[s] # "none"
  BY <1>1, CarrierFacts
<1>3. /\ UNCHANGED <<status, rejudgeCount, queueVars, worker, todo>>
      /\ \A r \in Subs \ {s} : rows'[r] = rows[r]
  BY DEF CreateRows, RejudgeStep, RejudgeCheck, RejudgeLoad, PrepareRows, subVars,
         TypeInv, SubsOK
<1>4. rejudgeCount[s] \in Nat /\ InQueue' = InQueue
  BY <1>2, <1>3 DEF TypeInv, SubsOK, InQueue, queueVars
<1>5. OthersKept(s) /\ rejudgeCount'[s] >= rejudgeCount[s]
  BY <1>3, <1>4 DEF OthersKept
<1>6. \A d \in Calls \ {c} : call'[d] = call[d]
  BY DEF CreateRows, RejudgeStep, RejudgeCheck, RejudgeLoad, PrepareRows, GoCall,
         CallDone, TypeInv, CallsOK
<1>7. CASE CreateRows(c)
  <2>1. call[c].pc = "created" /\ call'[c] = [call[c] EXCEPT !.pc = "prepare"]
    BY <1>7 DEF CreateRows, CallAt, GoCall, TypeInv, CallsOK
  <2>2. PathOf(j) = "first" /\ status[s] = "QUEUED" /\ j \notin InQueue
    BY <1>2, <2>1 DEF CarrierOK
  <2>3. CarrierOK(c, s)' /\ SubOf(call'[c].job) = s
    BY <1>3, <1>4, <2>1, <2>2 DEF CarrierOK
  <2>4. VerdictOK(s)'
    BY <1>3, <2>2 DEF VerdictOK
  <2>5. QED BY <1>2, <1>3, <1>5, <1>6, <2>3, <2>4, HandlerLife
<1>8. CASE RejudgeCheck(c)
  <2>1. /\ call[c].pc = "check" /\ rows' = rows
        /\ \/ call'[c].pc = "load" /\ call'[c].job = j
           \/ call'[c].pc = "idle"
    BY <1>8 DEF RejudgeCheck, CallAt, GoCall, CallDone, TypeInv, CallsOK, subVars
  <2>2. PathOf(j) = "rejudge" /\ c \in Admins /\ status[s] \in Terminal
    BY <1>2, <2>1 DEF CarrierOK, Choosing
  <2>3. SubOf(call'[c].job) = s \/ call'[c].pc = "idle"
    BY <2>1
  <2>4. Carries(c, s)' => CarrierOK(c, s)'
    BY <1>3, <2>1, <2>2 DEF CarrierOK, Carries, Carrying, Choosing
  <2>5. VerdictOK(s)'
    <3>1. Preparing(s)' <=> Preparing(s)
      BY <1>6, <2>1 DEF Preparing, CallAt
    <3>2. QED BY <1>2, <1>3, <2>1, <3>1 DEF VerdictOK
  <2>6. QED BY <1>2, <1>3, <1>5, <1>6, <2>3, <2>4, <2>5, HandlerLife
<1>9. CASE RejudgeLoad(c)
  <2>1. /\ call[c].pc = "load" /\ rows' = rows
        /\ call'[c] = [pc |-> "prepare", job |-> <<s, "rejudge", rejudgeCount[s] + 1>>]
    BY <1>9 DEF RejudgeLoad, CallAt, TypeInv, CallsOK, subVars
  <2>2. c \in Admins /\ status[s] \in Terminal
    BY <1>2, <2>1 DEF CarrierOK, Choosing
  <2>3. SubOf(call'[c].job) = s /\ PathOf(call'[c].job) = "rejudge"
        /\ NumOf(call'[c].job) = rejudgeCount[s] + 1
    BY <2>1 DEF SubOf, PathOf, NumOf
  <2>4. CarrierOK(c, s)'
    BY <1>3, <2>1, <2>2, <2>3 DEF CarrierOK
  <2>5. VerdictOK(s)'
    <3>1. Preparing(s)' <=> Preparing(s)
      BY <1>6, <2>1 DEF Preparing, CallAt
    <3>2. QED BY <1>2, <1>3, <2>1, <3>1 DEF VerdictOK
  <2>6. QED BY <1>2, <1>3, <1>5, <1>6, <2>3, <2>4, <2>5, HandlerLife
<1>10. CASE PrepareRows(c)
  <2>1. call[c].pc = "prepare" /\ call'[c].pc = "setqueued" /\ call'[c].job = j
    BY <1>10 DEF PrepareRows, CallAt, GoCall, TypeInv, CallsOK
  <2>2. CarrierOK(c, s)' /\ SubOf(call'[c].job) = s
    BY <1>2, <1>3, <1>4, <2>1 DEF CarrierOK, Choosing
  <2>3. Preparing(s)'
    BY <2>1, <2>2 DEF Preparing, CallAt
  <2>4. VerdictOK(s)'
    BY <2>3 DEF VerdictOK
  <2>5. QED BY <1>2, <1>3, <1>5, <1>6, <2>2, <2>4, HandlerLife
<1>11. QED BY <1>7, <1>8, <1>9, <1>10 DEF RejudgeStep

(* ... the word to the table: a job of this number has never been queued.  *)
LEMMA SetQueuedLife ==
  ASSUME Life, TypeInv, TypeInv', NEW c \in Calls, SetQueued(c)
  PROVE  Life'
<1> SUFFICES ASSUME NEW j, NEW s, j = call[c].job, s = SubOf(j) PROVE Life'
  OBVIOUS
<1>1. call[c].pc = "setqueued" /\ call[c].pc \in Carrying
  BY DEF SetQueued, CallAt, Carrying, Choosing
<1>2. /\ s \in Subs /\ NumOf(j) \in Nat /\ c # Boot
      /\ NoneElse(c, s) /\ CarrierOK(c, s) /\ VerdictOK(s) /\ status[s] # "none"
  BY <1>1, CarrierFacts
<1>3. /\ UNCHANGED <<rows, queueVars, worker, todo>>
      /\ status' = [status EXCEPT ![s] = QueueStatus(j)]
      /\ rejudgeCount' = [rejudgeCount EXCEPT
                            ![s] = IF PathOf(j) = "rejudge" THEN NumOf(j) ELSE @]
      /\ call' = [call EXCEPT ![c].pc = "acquire"]
  BY DEF SetQueued, GoCall
<1>4. /\ OthersKept(s) /\ status'[s] = QueueStatus(j)
      /\ rejudgeCount'[s] = IF PathOf(j) = "rejudge" THEN NumOf(j) ELSE rejudgeCount[s]
      /\ rejudgeCount[s] \in Nat
      /\ \A d \in Calls \ {c} : call'[d] = call[d]
      /\ call'[c] = [call[c] EXCEPT !.pc = "acquire"]
  BY <1>2, <1>3 DEF OthersKept, TypeInv, SubsOK, CallsOK
<1>5. InQueue' = InQueue
  BY <1>3 DEF InQueue, queueVars
<1>6. CASE PathOf(j) = "first"
  <2>1. status[s] = "QUEUED" /\ j \notin InQueue
    BY <1>2, <1>6 DEF CarrierOK
  <2>2. status'[s] = "QUEUED" /\ rejudgeCount'[s] >= rejudgeCount[s]
    BY <1>4, <1>6 DEF QueueStatus
  <2>3. CarrierOK(c, s)' /\ SubOf(call'[c].job) = s
    BY <1>4, <1>5, <1>6, <2>1, <2>2 DEF CarrierOK
  <2>4. VerdictOK(s)'
    BY <2>2 DEF VerdictOK
  <2>5. QED BY <1>2, <1>3, <1>4, <2>2, <2>3, <2>4, HandlerLife
<1>7. CASE PathOf(j) # "first"
  <2>1. PathOf(j) = "rejudge" /\ c \in Admins /\ NumOf(j) = rejudgeCount[s] + 1
    BY <1>1, <1>2, <1>7 DEF CarrierOK
  <2>2. /\ status'[s] = "REJUDGE_QUEUED" /\ rejudgeCount'[s] = NumOf(j)
        /\ rejudgeCount'[s] >= rejudgeCount[s]
    BY <1>4, <2>1 DEF QueueStatus
  <2>3. j \notin InQueue
    <3>1. SUFFICES ASSUME j \in InQueue PROVE FALSE
      OBVIOUS
    <3>2. JobOK(j)
      BY <3>1 DEF Life
    <3>3. QED BY <1>4, <2>1, <3>2 DEF JobOK
  <2>4. CarrierOK(c, s)' /\ SubOf(call'[c].job) = s
    BY <1>4, <1>5, <2>1, <2>2, <2>3 DEF CarrierOK, Choosing
  <2>5. VerdictOK(s)'
    BY <2>2 DEF VerdictOK
  <2>6. QED BY <1>2, <1>3, <1>4, <2>2, <2>4, <2>5, HandlerLife
<1>8. QED BY <1>6, <1>7

(* The old job of a carrier's number is never there to be removed.         *)
LEMMA NothingRemoved ==
  ASSUME Life, TypeInv, NEW c \in Calls, RemoveOldJob(c)
  PROVE  UNCHANGED queueVars /\ call[c].job \notin InQueue
<1>1. call[c].pc = "enqueue" /\ call[c].pc \in Carrying
  BY DEF RemoveOldJob, CallAt, Carrying
<1>2. CarrierOK(c, SubOf(call[c].job))
  BY <1>1, CarrierFacts
<1>3. call[c].job \notin InQueue
  BY <1>1, <1>2 DEF CarrierOK
<1>4. {j \in InQueue : j = call[c].job /\ ~Held(j)} = {}
  BY <1>3
<1>5. QED BY <1>3, <1>4 DEF RemoveOldJob, queueVars

LEMMA TokenLife ==
  ASSUME Life, TypeInv, TypeInv', NEW c \in Calls,
         Acquire(c) \/ RemoveOldJob(c) \/ EnqueueError(c)
  PROVE  Life'
<1> SUFFICES ASSUME NEW j, NEW s, j = call[c].job, s = SubOf(j) PROVE Life'
  OBVIOUS
<1>1. call[c].pc \in {"acquire", "enqueue", "add"} /\ call[c].pc \in Carrying
  BY DEF Acquire, RemoveOldJob, EnqueueError, CallAt, Carrying
<1>2. /\ s \in Subs /\ NumOf(j) \in Nat /\ c # Boot
      /\ NoneElse(c, s) /\ CarrierOK(c, s) /\ VerdictOK(s) /\ status[s] # "none"
  BY <1>1, CarrierFacts
<1>3. UNCHANGED <<status, rejudgeCount, rows, worker, todo>>
  BY DEF Acquire, RemoveOldJob, EnqueueError, subVars
<1>4. UNCHANGED queueVars
  BY NothingRemoved DEF Acquire, EnqueueError
<1>5. /\ \A d \in Calls \ {c} : call'[d] = call[d]
      /\ call'[c].job = j
      /\ call'[c].pc \in {"undo", "enqueue", "add", "release"}
  BY DEF Acquire, RemoveOldJob, EnqueueError, GoCall, TypeInv, CallsOK
<1>6. InQueue' = InQueue /\ rejudgeCount[s] \in Nat
  BY <1>2, <1>4 DEF InQueue, queueVars, TypeInv, SubsOK
<1>7. OthersKept(s) /\ rejudgeCount'[s] >= rejudgeCount[s]
  BY <1>3, <1>6 DEF OthersKept
<1>8. status[s] \in Queued
  BY <1>1, <1>2 DEF CarrierOK, Queued
<1>9. VerdictOK(s)'
  BY <1>3, <1>8 DEF VerdictOK, Queued
<1>10. Carries(c, s)' => CarrierOK(c, s)'
  BY <1>1, <1>2, <1>3, <1>5, <1>6 DEF CarrierOK, Choosing
<1>11. QED BY <1>2, <1>3, <1>4, <1>5, <1>7, <1>9, <1>10, HandlerLife

(* Steps that leave the table and the jobs alone, and a handler that       *)
(* carries nothing any more.                                               *)
LEMMA SameJobs ==
  ASSUME \A j \in InQueue : JobOK(j), UNCHANGED <<status, rejudgeCount, waiting>>,
         InQueue' = InQueue
  PROVE  \A j \in InQueue' : JobOK(j)'
BY DEF JobOK

LEMMA UndoLife ==
  ASSUME Life, TypeInv, NEW c \in Calls, UndoAcquire(c) \/ ReleaseCall(c) \/ ClampCall(c)
  PROVE  Life'
<1>1. UNCHANGED <<status, rejudgeCount, rows, queueVars, worker, todo>>
  BY DEF UndoAcquire, ReleaseCall, ClampCall, subVars
<1>2. /\ \A d \in Calls \ {c} : call'[d] = call[d]
      /\ call[c].pc \notin Carrying \cup {"idle"} /\ call'[c].pc \in {"idle", "clamp"}
  BY DEF UndoAcquire, ReleaseCall, ClampCall, CallAt, GoCall, CallDone, TypeInv, CallsOK,
         Carrying, Choosing
<1>3. InQueue' = InQueue /\ waiting' = waiting /\ active' = active
  BY <1>1 DEF InQueue, queueVars
<1>4. ASSUME NEW s \in Subs PROVE LifeOf(s)'
  <2>1. ~Carries(c, s) /\ ~Carries(c, s)'
    BY <1>2 DEF Carries, Carrying, Choosing
  <2>2. QED BY <1>1, <1>2, <1>3, <2>1, FrameLife DEF Life
<1>5. LocksHeld' /\ \A j \in InQueue' : JobOK(j)'
  BY <1>1, <1>3, FrameLocks, SameJobs DEF Life
<1>6. todo' = {} /\ call'[Boot].pc = "idle"
  BY <1>1, <1>2 DEF Life, Calls
<1>7. QED BY <1>4, <1>5, <1>6 DEF Life

(* The hand-over: the job carries the submission on, whether the handler   *)
(* learns of it or not.                                                    *)
LEMMA HandOverLife ==
  ASSUME Life, TypeInv, TypeInv', NEW c \in Calls, AddJob(c) \/ LostReply(c)
  PROVE  Life'
<1> SUFFICES ASSUME NEW j, NEW s, j = call[c].job, s = SubOf(j) PROVE Life'
  OBVIOUS
<1>1. call[c].pc = "add" /\ call[c].pc \in Carrying
  BY DEF AddJob, LostReply, CallAt, Carrying
<1>2. /\ s \in Subs /\ NumOf(j) \in Nat /\ c # Boot
      /\ NoneElse(c, s) /\ CarrierOK(c, s) /\ VerdictOK(s) /\ status[s] # "none"
  BY <1>1, CarrierFacts
<1>3. UNCHANGED <<status, rejudgeCount, rows, active, finished, worker, todo>>
  BY DEF AddJob, LostReply, subVars
<1>4. /\ j \notin InQueue /\ status[s] \in Queued
      /\ PathOf(j) = "rejudge" => NumOf(j) <= rejudgeCount[s]
  <2>1. rejudgeCount[s] \in Nat
    BY <1>2 DEF TypeInv, SubsOK
  <2>2. QED BY <1>1, <1>2, <2>1 DEF CarrierOK, Queued
<1>5. waiting' = waiting \cup {j} /\ InQueue' = InQueue \cup {j}
  BY <1>3, <1>4 DEF AddJob, LostReply, InQueue
<1>6. /\ \A d \in Calls \ {c} : call'[d] = call[d]
      /\ call'[c].pc \in {"idle", "release"}
  BY DEF AddJob, LostReply, GoCall, CallDone, TypeInv, CallsOK
<1>7. LocksHeld'
  BY <1>3, <1>4, <1>5 DEF Life, LocksHeld, InQueue, Held
<1>8. ASSUME NEW i \in InQueue' PROVE JobOK(i)'
  <2>1. CASE i = j
    BY <1>2, <1>3, <1>4, <2>1 DEF JobOK
  <2>2. CASE i # j
    BY <1>3, <1>5, <2>2 DEF Life, JobOK
  <2>3. QED BY <2>1, <2>2
<1>9. ASSUME NEW r \in Subs \ {s} PROVE LifeOf(r)'
  <2>1. ~Carries(c, r) /\ ~Carries(c, r)'
    BY <1>6 DEF Carries, Carrying, Choosing
  <2>2. LifeOf(r)
    BY DEF Life
  <2>3. QED BY <1>3, <1>5, <1>6, <2>1, <2>2, FrameLife
<1>10. LifeOf(s)'
  <2>1. \A d \in Calls : ~Carries(d, s)'
    BY <1>2, <1>6 DEF NoneElse, Carries, Carrying, Choosing
  <2>2. \A w \in Workers : ~Runs(w, s)'
    BY <1>2, <1>3 DEF NoneElse, Runs
  <2>3. \A i \in waiting' : SubOf(i) = s => i = j
    BY <1>2, <1>5 DEF NoneElse
  <2>4. VerdictOK(s)'
    BY <1>3, <1>4 DEF VerdictOK, Queued
  <2>5. QED BY <2>1, <2>2, <2>3, <2>4 DEF LifeOf, OneCarrier
<1>11. todo' = {} /\ call'[Boot].pc = "idle"
  BY <1>2, <1>3, <1>6 DEF Life, Calls
<1>12. QED BY <1>7, <1>8, <1>9, <1>10, <1>11 DEF Life

LEMMA ApiLife ==
  ASSUME Life, TypeInv, TypeInv', NEW c \in Calls, ApiStep(c) PROVE Life'
BY PrepareLife, SetQueuedLife, TokenLife, HandOverLife, UndoLife DEF ApiStep, EnqueueStep

----------------------------------------------------------------------------
(* The slots.                                                              *)

LEMMA GoLocks ==
  ASSUME LocksHeld, NEW w \in Workers, UNCHANGED <<waiting, active>>,
         \A v \in Workers \ {w} : worker'[v] = worker[v],
         worker[w].pc # "idle", worker'[w].pc \notin {"idle", "failing"},
         worker'[w].job = worker[w].job, worker'[w].lock = worker[w].lock
  PROVE  LocksHeld'
<1>1. \A v \in Workers : worker'[v].lock = worker[v].lock /\ worker'[v].job = worker[v].job
                         /\ (worker'[v].pc # "idle" <=> worker[v].pc # "idle")
  OBVIOUS
<1>2. \A j : Held(j)' <=> Held(j)
  BY <1>1 DEF Held
<1>3. QED BY <1>1, <1>2 DEF LocksHeld

(* A step of the slot that runs the submission, or takes its job: nothing  *)
(* else carries it.                                                        *)
LEMMA SlotLife ==
  ASSUME Life, NEW w \in Workers, NEW s \in Subs, OthersKept(s),
         UNCHANGED <<rejudgeCount, call, todo>>,
         \A v \in Workers \ {w} : worker'[v] = worker[v] /\ ~Runs(v, s),
         SubOf(worker[w].job) = s \/ worker[w].pc = "idle",
         SubOf(worker'[w].job) = s,
         \A c \in Calls : ~Carries(c, s),
         InQueue' = InQueue, waiting' \subseteq waiting,
         \A j \in waiting : j \in waiting' \/ SubOf(j) = s,
         \A j \in waiting' : SubOf(j) # s,
         LocksHeld', TypeInv, TypeInv',
         Runs(w, s)' => RunOK(w, s)',
         VerdictOK(s)', status'[s] # "none"
  PROVE  Life'
<1>1. ASSUME NEW j \in InQueue' PROVE JobOK(j)'
  <2>1. JobOK(j) /\ SubOf(j) \in Subs
    BY JobIdsType DEF Life, InQueue, TypeInv, QueueOK
  <2>2. QED BY <2>1 DEF OthersKept, JobOK
<1>2. ASSUME NEW r \in Subs \ {s} PROVE LifeOf(r)'
  <2>1. ~Runs(w, r) /\ ~Runs(w, r)'
    BY DEF Runs
  <2>2. LifeOf(r)
    BY DEF Life
  <2>3. QED BY <2>1, <2>2, FrameLife DEF OthersKept
<1>3. LifeOf(s)'
  <2>1. \A v \in Workers \ {w} : ~Runs(v, s)'
    BY DEF Runs
  <2>2. \A c \in Calls : ~Carries(c, s)'
    BY DEF Carries
  <2>3. OneCarrier(s)'
    BY <2>1, <2>2 DEF OneCarrier
  <2>4. QED BY <2>1, <2>2, <2>3 DEF LifeOf
<1>4. QED BY <1>1, <1>2, <1>3 DEF Life

LEMMA RunnerFacts ==
  ASSUME Life, TypeInv, NEW w \in Workers, worker[w].pc \in {"read", "mark", "test"}
  PROVE  LET s == SubOf(worker[w].job)
         IN  /\ s \in Subs /\ RunOK(w, s) /\ VerdictOK(s)
             /\ \A v \in Workers \ {w} : ~Runs(v, s)
             /\ \A c \in Calls : ~Carries(c, s)
             /\ \A j \in waiting : SubOf(j) # s
<1>1. SubOf(worker[w].job) \in Subs
  BY JobIdsType DEF TypeInv, WorkersOK
<1>2. Runs(w, SubOf(worker[w].job)) /\ LifeOf(SubOf(worker[w].job))
  BY <1>1 DEF Runs, Life
<1>3. QED BY <1>1, <1>2 DEF LifeOf, OneCarrier

LEMMA RunLife ==
  ASSUME Life, TypeInv, TypeInv', NEW w \in Workers,
         ReadStatus(w) \/ MarkActive(w) \/ JudgeTest(w) \/ Finish(w)
  PROVE  Life'
<1> SUFFICES ASSUME NEW s, s = SubOf(worker[w].job) PROVE Life'
  OBVIOUS
<1>1. worker[w].pc \in {"read", "mark", "test"}
  BY DEF ReadStatus, MarkActive, JudgeTest, Finish, At
<1>2. /\ s \in Subs /\ RunOK(w, s) /\ VerdictOK(s)
      /\ \A v \in Workers \ {w} : ~Runs(v, s)
      /\ \A c \in Calls : ~Carries(c, s)
      /\ \A j \in waiting : SubOf(j) # s
  BY <1>1, RunnerFacts
<1>3. /\ UNCHANGED <<rejudgeCount, queueVars, call, todo>>
      /\ \A v \in Workers \ {w} : worker'[v] = worker[v]
      /\ worker'[w].job = worker[w].job /\ worker'[w].lock = worker[w].lock
      /\ worker'[w].pc \in {"mark", "test", "publish"}
  BY DEF ReadStatus, MarkActive, JudgeTest, Finish, Go, At, subVars, apiVars,
         TypeInv, WorkersOK
<1>4. OthersKept(s)
  BY <1>2 DEF ReadStatus, MarkActive, JudgeTest, Finish, subVars, JobSub, OthersKept,
              TypeInv, SubsOK
<1>5. InQueue' = InQueue /\ waiting' = waiting /\ active' = active
  BY <1>3 DEF InQueue, queueVars
<1>6. LocksHeld'
  BY <1>1, <1>3, <1>5, GoLocks DEF Life
<1>7. /\ worker[w].test \in Nat /\ worker[w].ok \in BOOLEAN /\ NTests \in Nat
      /\ rows \in [Subs -> [Tests -> {"none", "PENDING", "AC", "FAIL"}]]
  BY ConstantsAssumption DEF TypeInv, SubsOK, WorkersOK
<1>8. CASE ReadStatus(w)
  <2>1. /\ worker[w].pc = "read" /\ UNCHANGED <<status, rows>>
        /\ worker'[w].pc = "mark" /\ worker'[w].test = worker[w].test
        /\ worker'[w].ok = worker[w].ok
    BY <1>8 DEF ReadStatus, At, subVars, TypeInv, WorkersOK
  <2>2. RunOK(w, s)' /\ status'[s] \in Queued
    BY <1>2, <2>1 DEF RunOK
  <2>3. VerdictOK(s)'
    BY <2>2 DEF VerdictOK, Queued
  <2>4. QED BY <1>2, <1>3, <1>4, <1>5, <1>6, <2>2, <2>3, SlotLife DEF Queued
<1>9. CASE MarkActive(w)
  <2>1. /\ worker[w].pc = "mark" /\ rows' = rows /\ status'[s] = worker[w].target
        /\ worker'[w].pc = "test" /\ worker'[w].test = worker[w].test
        /\ worker'[w].ok = worker[w].ok
    BY <1>2, <1>9 DEF MarkActive, At, Go, JobSub, TypeInv, SubsOK, WorkersOK
  <2>2. status'[s] \in {"JUDGING", "REJUDGING"}
    BY <2>1 DEF TypeInv, WorkersOK
  <2>3. RunOK(w, s)'
    <3>1. worker'[w].test = 1 /\ worker'[w].ok
      BY <1>2, <2>1 DEF RunOK
    <3>2. QED BY <1>7, <2>1, <2>2, <3>1 DEF RunOK
  <2>4. VerdictOK(s)'
    BY <2>2 DEF VerdictOK
  <2>5. QED BY <1>2, <1>3, <1>4, <1>5, <1>6, <2>2, <2>3, <2>4, SlotLife
<1>10. CASE JudgeTest(w)
  <2>1. PICK v \in {"AC", "FAIL"} :
          /\ rows' = [rows EXCEPT ![JobSub(w)][worker[w].test] = v]
          /\ worker' = [worker EXCEPT ![w].test = @ + 1, ![w].ok = @ /\ v = "AC"]
    BY <1>10 DEF JudgeTest
  <2>2. /\ worker[w].pc = "test" /\ worker[w].test \in Tests /\ status' = status
    BY <1>10 DEF JudgeTest, MoreTests, At
  <2>3. /\ worker'[w].pc = "test" /\ worker'[w].test = worker[w].test + 1
        /\ worker'[w].ok = (worker[w].ok /\ v = "AC")
    BY <2>1, <2>2 DEF TypeInv, WorkersOK
  <2>4. /\ rows'[s][worker[w].test] = v
        /\ \A t \in 1..(worker[w].test - 1) : rows'[s][t] = rows[s][t]
    BY <1>2, <1>7, <2>1, <2>2 DEF JobSub, Tests
  <2>5. /\ status[s] \in {"JUDGING", "REJUDGING"}
        /\ worker[w].ok => \A t \in 1..(worker[w].test - 1) : rows[s][t] = "AC"
        /\ ~worker[w].ok => \E t \in 1..(worker[w].test - 1) : rows[s][t] = "FAIL"
    BY <1>2, <2>2 DEF RunOK
  <2>6. worker'[w].ok => \A t \in 1..worker[w].test : rows'[s][t] = "AC"
    <3>1. SUFFICES ASSUME worker'[w].ok, NEW t \in 1..worker[w].test PROVE rows'[s][t] = "AC"
      OBVIOUS
    <3>2. worker[w].ok /\ v = "AC"
      BY <2>3, <3>1
    <3>3. t = worker[w].test \/ t \in 1..(worker[w].test - 1)
      BY <1>7
    <3>4. QED BY <2>4, <2>5, <3>2, <3>3
  <2>7. ~worker'[w].ok => \E t \in 1..worker[w].test : rows'[s][t] = "FAIL"
    <3>1. SUFFICES ASSUME ~worker'[w].ok PROVE \E t \in 1..worker[w].test : rows'[s][t] = "FAIL"
      OBVIOUS
    <3>2. CASE v = "FAIL"
      <4>1. worker[w].test \in 1..worker[w].test
        BY <2>2, <1>7 DEF Tests
      <4>2. QED BY <2>4, <3>2, <4>1
    <3>3. CASE ~worker[w].ok
      <4>1. PICK t \in 1..(worker[w].test - 1) : rows[s][t] = "FAIL"
        BY <2>5, <3>3
      <4>2. t \in 1..worker[w].test
        BY <1>7
      <4>3. QED BY <2>4, <4>1, <4>2
    <3>4. QED BY <2>3, <3>1, <3>2, <3>3
  <2>8. worker'[w].test \in 1..(NTests + 1) /\ worker'[w].test - 1 = worker[w].test
    BY <1>7, <2>2, <2>3 DEF Tests
  <2>9. RunOK(w, s)'
    BY <2>2, <2>3, <2>5, <2>6, <2>7, <2>8 DEF RunOK
  <2>10. VerdictOK(s)'
    BY <2>2, <2>5 DEF VerdictOK
  <2>11. QED BY <1>2, <1>3, <1>4, <1>5, <1>6, <2>2, <2>5, <2>9, <2>10, SlotLife
<1>11. CASE Finish(w)
  <2>1. /\ worker[w].pc = "test" /\ worker'[w].pc = "publish" /\ rows' = rows
        /\ status'[s] = IF worker[w].ok THEN "ACCEPTED" ELSE "REJECTED"
        /\ ~MoreTests(w)
    BY <1>2, <1>11 DEF Finish, At, Go, JobSub, TypeInv, SubsOK, WorkersOK
  <2>2. /\ worker[w].test \in 1..(NTests + 1)
        /\ worker[w].ok => \A t \in 1..(worker[w].test - 1) : rows[s][t] = "AC"
        /\ ~worker[w].ok => \E t \in 1..(worker[w].test - 1) : rows[s][t] = "FAIL"
    BY <1>2, <2>1 DEF RunOK
  <2>3. worker[w].ok => 1..(worker[w].test - 1) = Tests
    <3>1. worker[w].ok => worker[w].test \notin Tests
      BY <2>1 DEF MoreTests
    <3>2. worker[w].ok => worker[w].test = NTests + 1
      BY <1>7, <2>2, <3>1 DEF Tests
    <3>3. QED BY <1>7, <3>2 DEF Tests
  <2>4. 1..(worker[w].test - 1) \subseteq Tests
    BY <1>7, <2>2 DEF Tests
  <2>5. VerdictOK(s)'
    <3>1. status'[s] = "ACCEPTED" => \A t \in Tests : rows'[s][t] = "AC"
      BY <2>1, <2>2, <2>3
    <3>2. status'[s] = "REJECTED" => \E t \in Tests : rows'[s][t] = "FAIL"
      BY <2>1, <2>2, <2>4
    <3>3. QED BY <3>1, <3>2 DEF VerdictOK
  <2>6. ~Runs(w, s)' /\ status'[s] # "none"
    BY <2>1 DEF Runs
  <2>7. QED BY <1>2, <1>3, <1>4, <1>5, <1>6, <2>5, <2>6, SlotLife
<1>12. QED BY <1>8, <1>9, <1>10, <1>11

LEMMA TakeLife ==
  ASSUME Life, TypeInv, TypeInv', NEW w \in Workers, NEW j \in waiting, TakeJob(w, j)
  PROVE  Life'
<1> SUFFICES ASSUME NEW s, s = SubOf(j) PROVE Life'
  OBVIOUS
<1>1. /\ \A v \in Workers \ {w} : worker'[v] = worker[v]
      /\ worker[w].pc = "idle" /\ worker'[w].pc = "read" /\ worker'[w].job = j
      /\ worker'[w].lock /\ worker'[w].test = 1 /\ worker'[w].ok
      /\ waiting' = waiting \ {j} /\ active' = active \cup {j}
      /\ UNCHANGED <<status, rejudgeCount, rows, finished, call, todo>>
  BY DEF TakeJob, At, IdleWorker, TypeInv, WorkersOK, apiVars, subVars
<1>2. s \in Subs /\ InQueue' = InQueue /\ j \in InQueue
  BY <1>1, JobIdsType DEF TypeInv, QueueOK, InQueue
<1>3. LifeOf(s) /\ JobOK(j) /\ LocksHeld
  BY <1>2 DEF Life
<1>4. /\ \A v \in Workers : ~Runs(v, s)
      /\ \A c \in Calls : ~Carries(c, s)
      /\ \A i \in waiting : SubOf(i) = s => i = j
  BY <1>3 DEF LifeOf, OneCarrier
<1>5. LocksHeld'
  <2>1. j \notin active /\ \A v \in Workers : worker[v].pc # "idle" => worker[v].job # j
    BY <1>3 DEF LocksHeld
  <2>2. \A v \in Workers : worker'[v].lock <=> worker'[v].pc # "idle"
    BY <1>1, <1>3 DEF LocksHeld
  <2>3. \A v \in Workers : worker'[v].pc # "idle" => worker'[v].job \in active'
    BY <1>1, <1>3 DEF LocksHeld
  <2>4. \A u, v \in Workers :
          worker'[u].pc # "idle" /\ worker'[v].pc # "idle" /\ worker'[u].job = worker'[v].job
            => u = v
    BY <1>1, <1>3, <2>1 DEF LocksHeld
  <2>5. waiting' \cap active' = {}
    BY <1>1, <1>3 DEF LocksHeld
  <2>6. \A i \in active' : Held(i)'
    <3>1. \A i \in active : Held(i)'
      <4>1. ASSUME NEW i \in active PROVE Held(i)'
        <5>1. PICK v \in Workers : worker[v].lock /\ worker[v].job = i
          BY <1>3 DEF LocksHeld, Held
        <5>2. v # w
          BY <1>1, <1>3, <5>1 DEF LocksHeld
        <5>3. QED BY <1>1, <5>1, <5>2 DEF Held
      <4>2. QED BY <4>1
    <3>2. Held(j)'
      BY <1>1 DEF Held
    <3>3. QED BY <1>1, <3>1, <3>2
  <2>7. \A v \in Workers : worker'[v].pc # "failing"
    BY <1>1, <1>3 DEF LocksHeld
  <2>8. QED BY <2>2, <2>3, <2>4, <2>5, <2>6, <2>7 DEF LocksHeld
<1>6. status[s] \in Queued
  BY <1>3 DEF JobOK
<1>7. RunOK(w, s)' /\ VerdictOK(s)' /\ status'[s] # "none"
  BY <1>1, <1>6 DEF RunOK, VerdictOK, Queued
<1>8. OthersKept(s)
  BY <1>1 DEF OthersKept
<1>9. QED BY <1>1, <1>2, <1>4, <1>5, <1>7, <1>8, SlotLife

(* After the verdict, the slot carries nothing any more.                   *)
LEMMA CloseLife ==
  ASSUME Life, TypeInv, TypeInv', NEW w \in Workers,
         PublishDone(w) \/ ReleaseJob(w) \/ RereadCounter(w) \/ ClampJob(w) \/ AckJob(w)
  PROVE  Life'
<1>1. /\ UNCHANGED <<status, rejudgeCount, rows, call, todo, waiting>>
      /\ \A v \in Workers \ {w} : worker'[v] = worker[v]
      /\ worker[w].pc \in {"publish", "release", "reread", "clamp", "ack"}
      /\ worker'[w].pc \in {"release", "reread", "clamp", "ack", "idle"}
  BY DEF PublishDone, ReleaseJob, RereadCounter, ClampJob, AckJob, At, Go, subVars,
         queueVars, apiVars, IdleWorker, TypeInv, WorkersOK
<1>2. LocksHeld' /\ InQueue' = InQueue
  <2>1. CASE AckJob(w)
    <3>1. /\ worker[w].pc = "ack" /\ worker'[w].pc = "idle" /\ ~worker'[w].lock
          /\ worker[w].lock /\ worker[w].job \in active
          /\ active' = active \ {worker[w].job} /\ finished' = finished \cup {worker[w].job}
      BY <2>1 DEF AckJob, At, IdleWorker, TypeInv, WorkersOK, Life, LocksHeld
    <3>2. \A v \in Workers \ {w} : worker[v].pc # "idle" => worker[v].job # worker[w].job
      BY <3>1 DEF Life, LocksHeld
    <3>3. \A i \in active' : Held(i)'
      <4>1. SUFFICES ASSUME NEW i \in active' PROVE Held(i)'
        OBVIOUS
      <4>2. PICK v \in Workers : worker[v].lock /\ worker[v].job = i
        BY <3>1 DEF Life, LocksHeld, Held
      <4>3. v # w
        BY <3>1, <4>2
      <4>4. QED BY <1>1, <4>2, <4>3 DEF Held
    <3>4. LocksHeld'
      BY <1>1, <3>1, <3>2, <3>3 DEF Life, LocksHeld
    <3>5. QED BY <1>1, <3>1, <3>4 DEF InQueue
  <2>2. CASE ~AckJob(w)
    <3>1. /\ UNCHANGED queueVars /\ worker'[w].pc # "idle"
          /\ worker'[w].job = worker[w].job /\ worker'[w].lock = worker[w].lock
      BY <2>2 DEF PublishDone, ReleaseJob, RereadCounter, ClampJob, Go, TypeInv, WorkersOK
    <3>2. LocksHeld'
      BY <1>1, <3>1, GoLocks DEF queueVars, Life
    <3>3. QED BY <3>1, <3>2 DEF queueVars, InQueue
  <2>3. QED BY <2>1, <2>2
<1>3. ASSUME NEW s \in Subs PROVE LifeOf(s)'
  <2>1. ~Runs(w, s) /\ ~Runs(w, s)'
    BY <1>1 DEF Runs
  <2>2. QED BY <1>1, <1>2, <2>1, FrameLife DEF Life
<1>4. \A j \in InQueue' : JobOK(j)'
  BY <1>1, <1>2, SameJobs DEF Life
<1>5. QED BY <1>1, <1>2, <1>3, <1>4 DEF Life

LEMMA WorkerLife ==
  ASSUME Life, TypeInv, TypeInv', NEW w \in Workers, WorkerStep(w) PROVE Life'
<1>1. ~FailSubmission(w)
  BY DEF FailSubmission, At, Life, LocksHeld
<1>2. QED BY <1>1, RunLife, TakeLife, CloseLife DEF WorkerStep, JobStep

LEMMA StutterLife == ASSUME Life, UNCHANGED vars PROVE Life'
<1>1. /\ UNCHANGED <<status, rejudgeCount, rows, waiting, active, worker, call, todo>>
      /\ InQueue' = InQueue
  BY DEF vars, subVars, queueVars, apiVars, InQueue
<1>2. LocksHeld' /\ \A j \in InQueue' : JobOK(j)'
  BY <1>1, FrameLocks, SameJobs DEF Life
<1>3. \A s \in Subs : LifeOf(s)'
  BY <1>1, FrameLife DEF Life
<1>4. QED BY <1>1, <1>2, <1>3 DEF Life

LEMMA FaultsLife ==
  ASSUME Life, TypeInv, TypeInv', Faults, seen' \subseteq HandlerFaults PROVE Life'
<1>1. ASSUME NEW c \in Calls, EnqueueError(c) \/ LostReply(c) PROVE Life'
  BY <1>1, TokenLife, HandOverLife
<1>2. ~ApiRestart
  BY DEF ApiRestart, Fault, HandlerFaults
<1>3. ASSUME NEW w \in Workers,
             JobError(w) \/ PersistError(w) \/ WorkerCrash(w) \/ LockLost(w)
      PROVE  FALSE
  BY <1>3 DEF JobError, PersistError, WorkerCrash, LockLost, Fault, HandlerFaults
<1>4. QED BY <1>1, <1>2, <1>3 DEF Faults

LEMMA NextLife == TypeInv /\ TypeInv' /\ Apart' /\ LifeInv /\ [Next]_vars => LifeInv'
<1> SUFFICES ASSUME TypeInv, TypeInv', Apart', LifeInv, [Next]_vars,
                    seen' \subseteq HandlerFaults
             PROVE  Life'
  BY DEF LifeInv
<1>1. Life
  BY SeenGrows DEF LifeInv
<1>2. CASE Requests
  BY <1>1, <1>2, RequestsLife
<1>3. ASSUME NEW c \in Calls, ApiStep(c) PROVE Life'
  BY <1>1, <1>3, ApiLife
<1>4. CASE Recovery
  BY <1>1, <1>4 DEF Recovery, ListStuck, RecoverOne, CallAt, Life
<1>5. ASSUME NEW w \in Workers, WorkerStep(w) PROVE Life'
  BY <1>1, <1>5, WorkerLife
<1>6. CASE StalledCheck
  BY <1>1, <1>6 DEF StalledCheck, Redeliver, Life, LocksHeld
<1>7. CASE Faults
  BY <1>1, <1>7, FaultsLife
<1>8. CASE UNCHANGED vars
  BY <1>1, <1>8, StutterLife
<1>9. QED BY <1>2, <1>3, <1>4, <1>5, <1>6, <1>7, <1>8 DEF Next

LEMMA LifeAlways == Spec /\ []Apart => []LifeInv
<1>1. Spec => []TypeInv
  BY InitType, NextType, PTL DEF Spec
<1>2. QED BY <1>1, InitLife, NextLife, PTL DEF Spec

LEMMA LifeOneRun == TypeInv /\ LifeInv => OneRunAtATime
<1> SUFFICES ASSUME TypeInv, LifeInv, seen \subseteq HandlerFaults,
                    NEW v \in Workers, NEW w \in Workers, NEW s \in Subs,
                    Judging(v, s), Judging(w, s)
             PROVE  v = w
  BY DEF OneRunAtATime
<1>1. Life
  BY DEF LifeInv
<1>2. worker[v].pc # "failing" /\ worker[w].pc # "failing"
  BY <1>1 DEF Life, LocksHeld
<1>3. Runs(v, s) /\ Runs(w, s)
  BY <1>2 DEF Judging, Runs, JobSub
<1>4. QED BY <1>1, <1>3 DEF Life, LifeOf, OneCarrier

LEMMA LifeRowsAgree == LifeInv => RowsAgree
BY DEF LifeInv, Life, LifeOf, VerdictOK, RowsAgree

----------------------------------------------------------------------------
(* A submission is judged by one slot at a time, for any number of         *)
(* handlers, administrators and slots, while only handlers fail and        *)
(* administrators keep apart: enqueueRejudge numbers a job past all the    *)
(* jobs of its submission, so that it is added, and added once.            *)
THEOREM OneRun == Spec /\ []Apart => []OneRunAtATime
<1>1. Spec => []TypeInv
  BY InitType, NextType, PTL DEF Spec
<1>2. QED BY <1>1, LifeAlways, LifeOneRun, PTL

(* The rows shown with a verdict are the rows of the run that gave it:     *)
(* enqueuePrepared resets them before the status, runJob writes them all   *)
(* before the verdict, and nothing comes between.                          *)
THEOREM RowsOfTheVerdict == Spec /\ []Apart => []RowsAgree
BY LifeAlways, LifeRowsAgree, PTL

----------------------------------------------------------------------------
(* The pipeline implements SubmissionLifecycle, step by step. Only four    *)
(* actions write what the description shows.                               *)

PhaseOf == [s \in Subs |-> Phase(status[s])]

LEMMA PhaseUpdate ==
  ASSUME NEW s \in Subs, NEW p, Phase(status'[s]) = p,
         \A r \in Subs \ {s} : status'[r] = status[r]
  PROVE  PhaseOf' = [PhaseOf EXCEPT ![s] = p]
BY DEF PhaseOf

LEMMA Phases ==
  /\ Phase("none") = "none" /\ Phase("QUEUED") = "queued"
  /\ Phase("REJUDGE_QUEUED") = "queued"
  /\ Phase("JUDGING") = "judging" /\ Phase("REJUDGING") = "judging"
  /\ \A t \in Terminal : Phase(t) = "done"
BY DEF Phase, Terminal

LEMMA SubmitCreates ==
  ASSUME TypeInv, NEW u \in Users, NEW s \in Subs, Submit(u, s)
  PROVE  Lifecycle!Create(s)
<1>1. /\ status[s] = "none" /\ status' = [status EXCEPT ![s] = "QUEUED"]
      /\ UNCHANGED <<scored, rejudgeCount>>
  BY DEF Submit
<1>2. PhaseOf' = [PhaseOf EXCEPT ![s] = "queued"]
  <2>1. status'[s] = "QUEUED" /\ \A r \in Subs \ {s} : status'[r] = status[r]
    BY <1>1 DEF TypeInv, SubsOK
  <2>2. QED BY <2>1, PhaseUpdate, Phases
<1>3. PhaseOf[s] = "none"
  BY <1>1, Phases DEF PhaseOf
<1>4. QED BY <1>1, <1>2, <1>3 DEF Lifecycle!Create, PhaseOf

LEMMA MarkStarts ==
  ASSUME TypeInv, Life, NEW w \in Workers, MarkActive(w)
  PROVE  Lifecycle!Start(SubOf(worker[w].job))
<1> SUFFICES ASSUME NEW s, s = SubOf(worker[w].job) PROVE Lifecycle!Start(s)
  OBVIOUS
<1>1. /\ worker[w].pc = "mark" /\ status' = [status EXCEPT ![s] = worker[w].target]
      /\ UNCHANGED <<scored, rejudgeCount>>
  BY DEF MarkActive, At, JobSub
<1>2. s \in Subs /\ RunOK(w, s)
  BY <1>1, RunnerFacts
<1>3. status[s] \in Queued /\ worker[w].target \in {"JUDGING", "REJUDGING"}
  BY <1>1, <1>2 DEF RunOK, TypeInv, WorkersOK
<1>4. Phase(status[s]) = "queued" /\ Phase(worker[w].target) = "judging"
  BY <1>3, Phases DEF Queued
<1>5. PhaseOf' = [PhaseOf EXCEPT ![s] = "judging"]
  <2>1. status'[s] = worker[w].target /\ \A r \in Subs \ {s} : status'[r] = status[r]
    BY <1>1, <1>2 DEF TypeInv, SubsOK
  <2>2. QED BY <1>2, <1>4, <2>1, PhaseUpdate
<1>6. PhaseOf[s] = "queued"
  BY <1>2, <1>4 DEF PhaseOf
<1>7. QED BY <1>1, <1>5, <1>6 DEF Lifecycle!Start, PhaseOf

LEMMA FinishCompletes ==
  ASSUME TypeInv, Life, NEW w \in Workers, Finish(w)
  PROVE  Lifecycle!Complete(SubOf(worker[w].job))
<1> SUFFICES ASSUME NEW s, s = SubOf(worker[w].job) PROVE Lifecycle!Complete(s)
  OBVIOUS
<1> DEFINE v == IF worker[w].ok THEN "ACCEPTED" ELSE "REJECTED"
<1>1. /\ worker[w].pc = "test" /\ status' = [status EXCEPT ![s] = v]
      /\ scored' = [scored EXCEPT ![s] = TRUE] /\ UNCHANGED rejudgeCount
  BY DEF Finish, At, JobSub
<1>2. s \in Subs /\ RunOK(w, s)
  BY <1>1, RunnerFacts
<1>3. status[s] \in {"JUDGING", "REJUDGING"} /\ v \in Terminal
  BY <1>1, <1>2 DEF RunOK, Terminal
<1>4. Phase(status[s]) = "judging" /\ Phase(v) = "done"
  BY <1>3, Phases
<1> HIDE DEF v
<1>5. PhaseOf' = [PhaseOf EXCEPT ![s] = "done"]
  <2>1. status'[s] = v /\ \A r \in Subs \ {s} : status'[r] = status[r]
    BY <1>1, <1>2 DEF TypeInv, SubsOK
  <2>2. QED BY <1>2, <1>4, <2>1, PhaseUpdate
<1>6. PhaseOf[s] = "judging"
  BY <1>2, <1>4 DEF PhaseOf
<1>7. QED BY <1>1, <1>5, <1>6 DEF Lifecycle!Complete, PhaseOf

LEMMA SetQueuedRejudges ==
  ASSUME TypeInv, Life, NEW c \in Calls, SetQueued(c)
  PROVE  Lifecycle!Rejudge(SubOf(call[c].job)) \/ UNCHANGED <<status, scored, rejudgeCount>>
<1> SUFFICES ASSUME NEW j, NEW s, j = call[c].job, s = SubOf(j)
             PROVE  Lifecycle!Rejudge(s) \/ UNCHANGED <<status, scored, rejudgeCount>>
  OBVIOUS
<1>1. call[c].pc = "setqueued" /\ call[c].pc \in Carrying
  BY DEF SetQueued, CallAt, Carrying, Choosing
<1>2. s \in Subs /\ CarrierOK(c, s)
  BY <1>1, CarrierFacts
<1>3. /\ status' = [status EXCEPT ![s] = QueueStatus(j)]
      /\ scored' = [scored EXCEPT ![s] = @ /\ PathOf(j) = "first"]
      /\ rejudgeCount' = [rejudgeCount EXCEPT
                            ![s] = IF PathOf(j) = "rejudge" THEN NumOf(j) ELSE @]
  BY DEF SetQueued
<1>4. CASE PathOf(j) = "first"
  <2>1. status[s] = "QUEUED"
    BY <1>2, <1>4 DEF CarrierOK
  <2>2. status' = status /\ rejudgeCount' = rejudgeCount
    BY <1>2, <1>3, <1>4, <2>1 DEF QueueStatus, TypeInv, SubsOK
  <2>3. scored[s] \in BOOLEAN
    BY <1>2 DEF TypeInv, SubsOK
  <2>4. (scored[s] /\ PathOf(j) = "first") = scored[s]
    BY <1>4, <2>3
  <2>5. scored' = scored
    BY <1>2, <1>3, <2>4 DEF TypeInv, SubsOK
  <2>6. QED BY <2>2, <2>5
<1>5. CASE PathOf(j) # "first"
  <2>1. /\ PathOf(j) = "rejudge" /\ NumOf(j) = rejudgeCount[s] + 1
        /\ status[s] \in Terminal
    BY <1>1, <1>2, <1>5 DEF CarrierOK, Choosing
  <2>2. status' = [status EXCEPT ![s] = "REJUDGE_QUEUED"]
    BY <1>3, <2>1 DEF QueueStatus
  <2>3. rejudgeCount' = [rejudgeCount EXCEPT ![s] = @ + 1]
    BY <1>2, <1>3, <2>1 DEF TypeInv, SubsOK
  <2>4. (scored[s] /\ PathOf(j) = "first") = FALSE
    BY <1>5
  <2>5. scored' = [scored EXCEPT ![s] = FALSE]
    BY <1>3, <2>4
  <2>6. PhaseOf' = [PhaseOf EXCEPT ![s] = "queued"]
    <3>1. /\ status'[s] = "REJUDGE_QUEUED"
          /\ \A r \in Subs \ {s} : status'[r] = status[r]
      BY <1>2, <2>2 DEF TypeInv, SubsOK
    <3>2. QED BY <1>2, <3>1, PhaseUpdate, Phases
  <2>7. PhaseOf[s] = "done"
    BY <1>2, <2>1, Phases DEF PhaseOf
  <2>8. QED BY <2>3, <2>5, <2>6, <2>7 DEF Lifecycle!Rejudge, PhaseOf
<1>6. QED BY <1>4, <1>5

LEMMA ShownSame ==
  ASSUME UNCHANGED <<status, scored, rejudgeCount>> PROVE UNCHANGED Lifecycle!vars
BY DEF Lifecycle!vars

LEMMA StepImplements ==
  ASSUME TypeInv, LifeInv, [Next]_vars
  PROVE  [seen' \subseteq HandlerFaults => Lifecycle!Next]_(Lifecycle!vars)
<1> SUFFICES ASSUME seen' \subseteq HandlerFaults
             PROVE  Lifecycle!Next \/ UNCHANGED Lifecycle!vars
  OBVIOUS
<1>1. Life
  BY SeenGrows DEF LifeInv
<1>2. ASSUME NEW u \in Users, NEW s \in Subs, Submit(u, s) PROVE Lifecycle!Next
  BY <1>2, SubmitCreates DEF Lifecycle!Next
<1>3. ASSUME NEW a \in Admins, NEW s \in Subs, RejudgeSelect(a, s)
      PROVE  UNCHANGED Lifecycle!vars
  BY <1>3, ShownSame DEF RejudgeSelect, subVars
<1>4. ASSUME NEW c \in Calls, ApiStep(c) PROVE Lifecycle!Next \/ UNCHANGED Lifecycle!vars
  <2>1. CASE SetQueued(c)
    <3>1. SubOf(call[c].job) \in Subs
      BY <1>1, <2>1, CarrierFacts DEF SetQueued, CallAt, Carrying, Choosing
    <3>2. QED BY <1>1, <2>1, <3>1, SetQueuedRejudges, ShownSame DEF Lifecycle!Next
  <2>2. CASE ~SetQueued(c)
    <3>1. UNCHANGED <<status, scored, rejudgeCount>>
      BY <1>4, <2>2
      DEF ApiStep, EnqueueStep, RejudgeStep, CreateRows, RejudgeCheck, RejudgeLoad,
          PrepareRows, Acquire, UndoAcquire, RemoveOldJob, AddJob, ReleaseCall, ClampCall,
          subVars
    <3>2. QED BY <3>1, ShownSame
  <2>3. QED BY <2>1, <2>2
<1>5. CASE Recovery
  BY <1>1, <1>5 DEF Recovery, ListStuck, RecoverOne, CallAt, Life
<1>6. ASSUME NEW w \in Workers, WorkerStep(w)
      PROVE  Lifecycle!Next \/ UNCHANGED Lifecycle!vars
  <2>1. CASE MarkActive(w)
    <3>1. SubOf(worker[w].job) \in Subs
      BY <1>1, <2>1, RunnerFacts DEF MarkActive, At
    <3>2. QED BY <1>1, <2>1, <3>1, MarkStarts DEF Lifecycle!Next
  <2>2. CASE Finish(w)
    <3>1. SubOf(worker[w].job) \in Subs
      BY <1>1, <2>2, RunnerFacts DEF Finish, At
    <3>2. QED BY <1>1, <2>2, <3>1, FinishCompletes DEF Lifecycle!Next
  <2>3. CASE ~MarkActive(w) /\ ~Finish(w)
    <3>1. ~FailSubmission(w)
      BY <1>1 DEF FailSubmission, At, Life, LocksHeld
    <3>2. UNCHANGED <<status, scored, rejudgeCount>>
      BY <1>6, <2>3, <3>1
      DEF WorkerStep, JobStep, TakeJob, ReadStatus, JudgeTest, PublishDone, ReleaseJob,
          RereadCounter, ClampJob, AckJob, subVars
    <3>3. QED BY <3>2, ShownSame
  <2>4. QED BY <2>1, <2>2, <2>3
<1>7. CASE StalledCheck \/ Faults \/ UNCHANGED vars
  <2>1. UNCHANGED <<status, scored, rejudgeCount>>
    BY <1>7
    DEF StalledCheck, Redeliver, Faults, ApiRestart, EnqueueError, LostReply, JobError,
        PersistError, WorkerCrash, LockLost, vars, subVars
  <2>2. QED BY <2>1, ShownSame
<1>8. QED
  BY <1>2, <1>3, <1>4, <1>5, <1>6, <1>7 DEF Next, Requests

(* The pipeline implements SubmissionLifecycle: a submission is queued,    *)
(* started, completed and rejudged in that order, and nothing else ever    *)
(* shows in its status, its score or its rejudge count.                    *)
THEOREM PipelineImplementsLifecycle == Spec /\ []Apart => ImplementsLifecycle
<1>1. Spec => []TypeInv
  BY InitType, NextType, PTL DEF Spec
<1>2. Init => Lifecycle!Init
  BY Phases DEF Init, Lifecycle!Init
<1>3. TypeInv /\ LifeInv /\ [Next]_vars
        => [seen' \subseteq HandlerFaults => Lifecycle!Next]_(Lifecycle!vars)
  BY StepImplements
<1>4. QED BY <1>1, <1>2, <1>3, LifeAlways, PTL DEF Spec, ImplementsLifecycle

----------------------------------------------------------------------------
(* No token is lost: the counter is the number of tokens, step by step.    *)

Tokens(O, H, U) == Cardinality(O) + Cardinality(H) + Cardinality(U)
Exact == inflight = Tokens(Owed, Holding, Undoing)

LEMMA CountUp ==
  ASSUME NEW S, IsFiniteSet(S), NEW x, x \notin S
  PROVE  Cardinality(S) \in Nat /\ Cardinality(S \cup {x}) = Cardinality(S) + 1
BY FS_AddElement, FS_CardinalityType

LEMMA CountDown ==
  ASSUME NEW S, IsFiniteSet(S), NEW x \in S
  PROVE  Cardinality(S) \in Nat /\ Cardinality(S \ {x}) = Cardinality(S) - 1
BY FS_RemoveElement, FS_CardinalityType

LEMMA FiniteTokens ==
  ASSUME Sound
  PROVE  /\ IsFiniteSet(Owed) /\ IsFiniteSet(Holding) /\ IsFiniteSet(Undoing)
         /\ Cardinality(Owed) \in Nat /\ Cardinality(Holding) \in Nat
         /\ Cardinality(Undoing) \in Nat
BY FS_CardinalityType DEF Sound, Fits

LEMMA KeptExact == ASSUME Exact, Kept PROVE Exact'
BY DEF Exact, Kept

LEMMA TokenExact ==
  ASSUME TypeInv, TypeInv', Sound, Exact, NEW c \in Calls,
         Acquire(c) \/ UndoAcquire(c) \/ ReleaseCall(c) \/ ClampCall(c)
  PROVE  Exact'
<1>1. /\ UNCHANGED <<queueVars, worker>>
      /\ call' \in [Calls -> [pc : CallPcs, job : JobIds \cup {NoJob}]]
      /\ inflight \in Int
  BY DEF Acquire, UndoAcquire, ReleaseCall, ClampCall, TypeInv, CallsOK
<1>2. CASE Acquire(c)
  <2>1. c \notin Holding /\ c \notin Undoing /\ inflight' = inflight + 1
    BY <1>2 DEF Acquire, CallAt, Holding, Undoing
  <2>2. /\ \A d \in Calls \ {c} : call'[d] = call[d]
        /\ call'[c].pc \in {"undo", "enqueue"}
    BY <1>2, OtherCalls DEF Acquire, CallPcs
  <2>3. /\ Owed' = Owed
        /\ \/ Holding' = Holding \cup {c} /\ Undoing' = Undoing
           \/ Holding' = Holding /\ Undoing' = Undoing \cup {c}
    BY <1>1, <2>1, <2>2, HandlerMoves
  <2>4. QED BY <2>1, <2>3, FiniteTokens, CountUp DEF Exact, Tokens
<1>3. CASE UndoAcquire(c)
  <2>1. c \in Undoing /\ c \notin Holding /\ inflight' = inflight - 1
    BY <1>3 DEF UndoAcquire, CallAt, Holding, Undoing
  <2>2. (\A d \in Calls \ {c} : call'[d] = call[d]) /\ call'[c].pc = "idle"
    BY <1>3, OtherCalls DEF UndoAcquire
  <2>3. Owed' = Owed /\ Holding' = Holding /\ Undoing' = Undoing \ {c}
    BY <1>1, <2>1, <2>2, HandlerMoves
  <2>4. QED BY <2>1, <2>3, FiniteTokens, CountDown DEF Exact, Tokens
<1>4. CASE ReleaseCall(c)
  <2>1. c \in Holding /\ c \notin Undoing /\ inflight' = inflight - 1
    BY <1>4 DEF ReleaseCall, CallAt, Holding, Undoing
  <2>2. ~(inflight' < 0)
    BY <1>1, <2>1, FitsRelease DEF Sound
  <2>3. (\A d \in Calls \ {c} : call'[d] = call[d]) /\ call'[c].pc = "idle"
    BY <1>4, <2>2, OtherCalls DEF ReleaseCall
  <2>4. Owed' = Owed /\ Holding' = Holding \ {c} /\ Undoing' = Undoing
    BY <1>1, <2>1, <2>3, HandlerMoves
  <2>5. QED BY <2>1, <2>4, FiniteTokens, CountDown DEF Exact, Tokens
<1>5. CASE ClampCall(c)
  BY <1>5 DEF ClampCall, CallAt, Sound, NoClamp
<1>6. QED BY <1>2, <1>3, <1>4, <1>5

LEMMA RemoveExact ==
  ASSUME TypeInv, TypeInv', Life, Sound, Exact, NEW c \in Calls, RemoveOldJob(c)
  PROVE  Exact'
<1>1. /\ call[c].pc = "enqueue" /\ call'[c].pc = "add"
      /\ \A d \in Calls \ {c} : call'[d] = call[d]
      /\ worker' = worker /\ inflight' = inflight
  BY OtherCalls DEF RemoveOldJob, CallAt, CallPcs
<1>2. UNCHANGED queueVars
  BY NothingRemoved
<1>3. c \in Holding /\ c \notin Undoing
  BY <1>1 DEF Holding, Undoing
<1>4. Owed' = Owed /\ Holding' = Holding \cup {c} /\ Undoing' = Undoing \ {c}
  BY <1>1, <1>2, HandlerMoves DEF TypeInv, CallsOK
<1>5. Kept
  BY <1>1, <1>3, <1>4 DEF Kept
<1>6. QED BY <1>5, KeptExact

(* The token goes over to a job that was not in the queue.                 *)
LEMMA AddExact ==
  ASSUME TypeInv, TypeInv', Life, Sound, Exact, NEW c \in Calls, AddJob(c)
  PROVE  Exact'
<1> SUFFICES ASSUME NEW j, j = call[c].job PROVE Exact'
  OBVIOUS
<1>1. /\ call[c].pc = "add" /\ call'[c].pc = "idle"
      /\ \A d \in Calls \ {c} : call'[d] = call[d]
      /\ active' = active /\ worker' = worker /\ inflight' = inflight
  BY OtherCalls DEF AddJob, CallAt
<1>2. j \notin InQueue
  <2>1. CarrierOK(c, SubOf(j))
    BY <1>1, CarrierFacts DEF Carrying
  <2>2. QED BY <1>1, <2>1 DEF CarrierOK
<1>3. c \in Holding /\ Holding' = Holding \ {c} /\ Undoing' = Undoing
  BY <1>1 DEF Holding, Undoing
<1>4. waiting' = waiting \cup {j}
  BY <1>2 DEF AddJob
<1>5. {i \in active : ~Released(i)}' = {i \in active : ~Released(i)}
  BY <1>1 DEF Released
<1>6. j \notin Owed /\ Owed' = Owed \cup {j}
  BY <1>2, <1>4, <1>5 DEF Owed, InQueue
<1>7. /\ Cardinality(Owed') = Cardinality(Owed) + 1
      /\ Cardinality(Holding') = Cardinality(Holding) - 1
  BY <1>3, <1>6, FiniteTokens, CountUp, CountDown
<1>8. QED BY <1>1, <1>3, <1>7, FiniteTokens DEF Exact, Tokens

LEMMA WorkerExact ==
  ASSUME TypeInv, TypeInv', Life, Sound, Exact, NEW w \in Workers, WorkerStep(w)
  PROVE  Exact'
<1>1. CASE ReleaseJob(w)
  <2>1. /\ \E j \in Owed : Owed' = Owed \ {j}
        /\ Holding' = Holding /\ Undoing' = Undoing /\ inflight' = inflight - 1
    BY <1>1, ReleaseCap
  <2>2. Cardinality(Owed') = Cardinality(Owed) - 1
    BY <2>1, FiniteTokens, CountDown
  <2>3. QED BY <2>1, <2>2, FiniteTokens DEF Exact, Tokens
<1>2. CASE ~ReleaseJob(w)
  <2>1. ~ClampJob(w)
    BY DEF ClampJob, At, Sound, NoClamp
  <2>2. Kept
    BY <1>2, <2>1, JudgeCap, TakeCap, AckCap DEF WorkerStep, JobStep
  <2>3. QED BY <2>2, KeptExact
<1>3. QED BY <1>1, <1>2

ExactInv == seen = {} => Exact

LEMMA NextExact ==
  TypeInv /\ TypeInv' /\ CapInv /\ LifeInv /\ ExactInv /\ [Next]_vars => ExactInv'
<1> SUFFICES ASSUME TypeInv, TypeInv', CapInv, LifeInv, ExactInv, [Next]_vars, seen' = {}
             PROVE  Exact'
  BY DEF ExactInv
<1>1. seen = {} /\ Sound /\ Life /\ Exact
  BY SeenGrows DEF CapInv, LifeInv, ExactInv
<1>2. CASE Requests
  BY <1>1, <1>2, RequestsCap, KeptExact
<1>3. ASSUME NEW c \in Calls, ApiStep(c) PROVE Exact'
  BY <1>1, <1>3, PrepareCap, KeptExact, TokenExact, RemoveExact, AddExact
  DEF ApiStep, EnqueueStep
<1>4. CASE Recovery
  BY <1>1, <1>4 DEF Recovery, ListStuck, RecoverOne, CallAt, Life
<1>5. ASSUME NEW w \in Workers, WorkerStep(w) PROVE Exact'
  BY <1>1, <1>5, WorkerExact
<1>6. CASE StalledCheck
  BY <1>1, <1>6 DEF StalledCheck, Redeliver, Life, LocksHeld
<1>7. CASE Faults
  BY <1>7 DEF Faults, Fault, ApiRestart, EnqueueError, LostReply, JobError,
              PersistError, WorkerCrash, LockLost
<1>8. CASE UNCHANGED vars
  <2>1. {j \in active : ~Released(j)}' = {j \in active : ~Released(j)}
    BY <1>8 DEF vars, queueVars, Released
  <2>2. Kept
    BY <1>8, <2>1 DEF vars, queueVars, apiVars, Owed, Holding, Undoing, Kept
  <2>3. QED BY <1>1, <2>2, KeptExact
<1>9. QED BY <1>2, <1>3, <1>4, <1>5, <1>6, <1>7, <1>8 DEF Next

LEMMA InitExact == Init => ExactInv
<1> SUFFICES ASSUME Init PROVE Exact
  BY DEF ExactInv
<1>1. Owed = {} /\ Holding = {} /\ Undoing = {} /\ inflight = 0
  BY DEF Init, Owed, Holding, Undoing
<1>2. QED BY <1>1, FS_EmptySet DEF Exact, Tokens

(* No token of the in-flight counter is lost and none invented: what       *)
(* acquire took, one job owes or one handler holds, and releaseInflight    *)
(* gives it back once, however many handlers and slots there are.          *)
THEOREM NoTokenLost == Spec /\ []Apart => []ExactCounter
<1>1. Spec => []TypeInv
  BY InitType, NextType, PTL DEF Spec
<1>2. Spec => []CapInv
  BY <1>1, InitCap, NextCap, PTL DEF Spec
<1>3. Spec /\ []Apart => []ExactInv
  BY <1>1, <1>2, LifeAlways, InitExact, NextExact, PTL DEF Spec
<1>4. ExactInv => ExactCounter
  BY DEF ExactInv, Exact, Tokens, ExactCounter
<1>5. QED BY <1>3, <1>4, PTL

(* One administrator is apart from himself: what the hypothesis asks is    *)
(* what the code gives when rejudges are not asked for at once.            *)
THEOREM OneAdminApart ==
  ASSUME \A a, b \in Admins : a = b
  PROVE  Spec => [](OneRunAtATime /\ RowsAgree /\ ExactCounter) /\ ImplementsLifecycle
<1>1. Apart
  BY DEF Apart
<1>2. QED BY <1>1, OneRun, RowsOfTheVerdict, NoTokenLost, PipelineImplementsLifecycle, PTL

============================================================================
