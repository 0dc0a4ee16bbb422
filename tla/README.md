# Verification of epoch-judge

epoch-judge is an online judge: users submit programs over HTTP, an API process
stores them in MySQL and queues them in Redis (BullMQ), judge processes take the
jobs, run the program on every testcase in a sandbox and write the verdicts
back; browsers follow the progress over server-sent events. This directory holds
TLA+ models of the parts of the system where something can go wrong that a test
would hardly reach, the TLC configurations that check them, and TLAPS proofs of
what matters most.

## 1. The system

| Component (source) | State | Operations | Talks to |
|---|---|---|---|
| Submission creation (`apps/api/src/submissions`) | rows of `submissions`, `submission_testcase_results` | `create`, list, detail | contests (access), judge task service |
| Judge task hand-over (`judge/judge-task`, `judge-queue`, `inflight`) | status, score, rejudge count, rows; Redis counter `judge:inflight`; BullMQ queue `judge-tasks` | `enqueueNewSubmission`, `enqueueRejudge`, `recoverSubmission`, `acquire`, `release` | database, Redis |
| Start-up recovery (`judge-recovery`) | the list of the pass | `recoverStuckSubmissions` | judge task service |
| Admin rejudge (`admin/rejudge`) | none | `preview`, `execute` | judge task service |
| Judge worker (`apps/judge/src/judge-worker`) | running jobs, an LRU cache of testcases | `runJob`, `failSubmission`, `releaseInflight` | BullMQ, database, sandbox, pub/sub |
| Sandbox (`packages/judge-sandbox`) | a working directory, a child process | `judgeOneTestcase`, `runTestcase`, `execWithStdin` | operating system |
| Testcase caches (`problem-testcases-cache`, the worker's LRU) | a list of testcases per problem | fill, invalidate | database |
| SSE streams (`sse-connection`, `submissions.controller`) | a sorted set per user, a map of streams per process | register, evict, close | Redis |
| Contests (`contests`, `problem-access`) | contests, registrations, problems of a contest | update, register, password, access, scoreboard | submissions, problems |
| Problems (`problems`) | problems, testcases, assets, stored files | editing, import | storage, testcase cache |
| Users, auth (`users`, `auth`, `web/src/api/auth-session`) | users; a token in local storage | editing, register, login, refresh, reset | database, browser |
| Discussions, recommendations, homework, classes, stats, announcements | their tables and Redis caches | editing, votes, hourly aggregation | database, Redis |
| Web client (`apps/web`) | a session per browser, query cache and forms per tab | pages | API |
| Deployment (`docker-compose.yml`, `scripts/`) | containers, `.env`, schema, Redis data | `deploy.sh`, `deploy-remote-judge.sh` | all |

`PROJECT.json` lists every component with its status, and every hazard with its
line and the properties that cover it.

**What is hard here.**

* Every `await` of a handler or a worker is a point where any other may run. The
  judging pipeline has no transaction and no lock, nor have most handlers:
  a row is read, decided on and written by different statements.
* Three stores must agree (MySQL, the Redis counter, BullMQ), and a process may
  die between any two writes; BullMQ redelivers a job whose worker is gone.
* Limits are enforced by a counter that is incremented first and compared after.
* Caches are filled from what was read before they are invalidated.
* A page holds fields filled by one answer while another answer, or another
  page, changes what they should be.

**What makes each component correct.** Pipeline: never more than the limit of
jobs; no token lost; one run of a submission at a time; rows and verdict agree;
what is queued is judged. Worker and sandbox: the verdict is that of the rows, and
an accepted testcase really ran to its end in time. Caches: an edit is seen by
later submissions. Streams: counted while they are open, no more counted than the
limit, ended by the judge. Contests: only who may, submits; the board ranks by the
rules and hides what is frozen. Problems: rows and files agree. Users: an
administrator remains, a token is its owner's, the password from before a reset is
of no use. Pages: a form saves what was read from its row and picked by its user.
Deployment: a lost queue is found again, tables are there.

## 2. Plan

All modules of the plan are on disk.

1. `SubmissionLifecycle`, what the pipeline promises; `JudgePipeline`, which
   implements it; `JudgePipelineProofs`.
2. `JudgeRun` (the loop of one job) and `SandboxRun` (one testcase), and
   `JudgeBox`, which composes them and implements `JudgeRun`; `VerdictProofs` holds
   the proofs about all three, and about the board computed from the verdicts.
3. `ContestScoreboard`; `ContestGate` (who gets in), with `ContestGateProofs`.
4. `SseStreams`; `ProblemCatalogue` (testcases, files, the two caches); with
   `ProblemCatalogueProofs`.
5. `UserAccounts`, with `UserAccountsProofs`.
6. `Campus` (discussions, classes, recommendations, statistics, who has solved
   what), with `CampusProofs`.
7. `WebClient` (session, calls, panels); `Preferences`, `RejudgePanel`,
   `ContestForm`, composed by `WebPages`; `WebProofs` holds the proofs about all.
8. `Deployment`; `RedisProofs` holds the proofs about it and about `SseStreams`.

Worth adding: e-mail addresses and the editing of classes.

The number of TLC runs is kept at a dozen, so that all of them are run on every
change: eleven that pass, and one, `evictions`, that shows what the code breaks.

## 3. The modules and the code

Everywhere one action is what happens between two awaits, a request carries what
it has read, and a variable marked *ghost* only remembers what the code forgets.

### JudgePipeline

| Variables | Code |
|---|---|
| `status`, `scored`, `rejudgeCount`, `rows` | the columns of `submissions`, and the verdicts of `submission_testcase_results` |
| `waiting`, `active`, `finished`, `stalledOnce` | the BullMQ queue `judge-tasks`: jobs by id |
| `inflight` | the Redis key `judge:inflight` |
| `call` | a handler of the API process, or its recovery pass: where it is, and the job it prepares |
| `todo`, `boot` | what the recovery pass has listed and not yet done, the number of starts |
| `worker` | a worker slot (process times concurrency): where it is, its job, whether it holds the lock, the status it writes, the loop variables |
| `seen`, `nfaults` | ghost: which faults have happened |

`Submit`, `CreateRows` are `SubmissionsService.create`; `RejudgeSelect`,
`RejudgeCheck`, `RejudgeLoad` are `RejudgeService` and the head of
`enqueueRejudge`; `ListStuck` is the query of the recovery pass, which runs beside the
first requests after a start, `RecoverOne` is `recoverSubmission`; `PrepareRows` to `ClampCall`
are their common tail `enqueuePrepared` with `InflightService` and
`JudgeQueueService`; `ReadStatus` to `ClampJob` are `runJob` with `failSubmission`
and `releaseInflight`. `TakeJob`, `AckJob`, `Redeliver` are BullMQ as the code
configures and relies on it (`maxStalledCount` 1, job ids deduplicated, a locked
job not removable) and are marked external.

Faults are actions, each only if its kind is in `FaultKinds`, together at most
`MaxFaults`: the API restarts (`ApiRestart`), Redis fails while a job is added
(`EnqueueError`) or only its answer is lost (`LostReply`), a job throws (`JobError`)
and even the write of SYSTEM_ERROR fails (`PersistError`, which comes with the error
and is not counted), a judge process dies (`WorkerCrash`; "lateCrash" after the
token went back), a slot loses its lock and goes on (`LockLost`).

Abstracted: one problem, the same number of testcases for all submissions; six
verdicts are one status REJECTED; the score is set or not set; the lists of the
rejudge filter are one eligible submission at a time (they are in `RejudgePanel`);
the recovery pass is switched on (`JUDGE_RECOVER_ON_STARTUP`, its default).

`SubmissionLifecycle` is what the pipeline promises: queued, judged, done; a
rejudge starts from done and takes the score away. `Phase` maps the statuses.

### JudgeRun, SandboxRun, JudgeBox

`JudgeRun` is `runJob` for one submission with its locals `totalScore`, `allAc`,
`firstFail`: a verdict is decided (`JudgeOne`) and stored (`Store`) in two steps; the
job may throw, be interrupted at any step and start again over the rows the
first run left, or be rejudged. Both modes, testcases with any points, 0
included. What the detail page tells (its table, its first failing testcase, its
percentage) are operators over the same rows.

`SandboxRun` is one call of `judgeOneTestcase`: compile, spawn, then the race of
the timer, the output, the close event, the spawn error and the error of the stdin
pipe, settled by `finish` (`Settle`) and classified by `runTestcase` (`Classify`);
a program ended by SIGKILL or SIGTERM is over the time limit, whoever sent it. The
program is external: it may loop for ever, end by itself, by a signal or for want
of memory, read its input or not, leave a process behind that holds its output.

`JudgeBox` runs them together: `JudgeOne` happens when the sandbox has come to a
verdict, `Throw` when it throws, `Crash` also when an unhandled error of the pipe
takes the process along.

### ContestScoreboard

`subs` is the list of submissions of one contest in the order of their creation,
with the mode they were made in. `Register`, `SetStar`, `UpdateContest`, `Submit`,
`SetVerdict`, `ClearVerdict`, `Tick` are all that changes what `scoreboard` reads; the
board is the operators `Counted`, `Try`, `AcmRow`, `OiRow`, `Listed`, `Board`, in the
order the method computes them, the loop over the attempts being the recursive
function `After`. Time is counted in ticks, `Minute` of them to the minute,
since the penalty rounds down.

### ContestGate

One contest: the row, the registrations, the time, requests with what they have
read. `ReadUpdate`/`WriteUpdate` is `updateAdmin`, `CountSubmissions`/`DeleteContest` is
`deleteAdmin`, `Register`, `VerifyPassword`, `FindRegistration`, `WriteRegistration`,
`UpdateRegistration`, `SetStar`, `UpsertRegistration` are the ways a registration comes
to be, `Submit` to `InsertSubmission` the checks of `create`. The functions that
decide on access are operators: `EntryAccess`, `ContestAccess`, `Locked`, `LockedIds`,
`CanView`, `SubmitAccess`, `ActiveForSubmit`, and the pages and routes built on them.
Left out: creators of problems, titles, modes.

### ProblemCatalogue

The testcases of a problem: `rows`, `file` (two per testcase), the API's `cache`, the
worker's `workerCache`, one asset, requests of editors (create, update, delete,
import, cut into storage and database steps), submissions with the list they
were queued with. The content of a file is the name of the request that wrote it.
Faults: a storage or database error, or a restart, at any step.

### SseStreams

Streams of one user on several API processes; every Redis command is a step, an
instance's commands run in the order it sent them. `Zadd` to `Publish` are
`registerConnection`, `Zrem` is `unregisterConnection`, `DeliverEviction` is
`handleLocalEviction`; the member is taken apart at its first colon as the code
does (`ParseMember`). The score of a member is the clock of its process before the
command, so `Zadd` puts it at any place of the sorted set; the ghost `evicted`
holds what has been taken out to make room. An instance that stops just dies:
shutdown hooks are not enabled.

### UserAccounts

Accounts with a role, the person whose password they have, whether it must be
reset; requests of every handler of `UsersService` and `AuthService` that writes,
each cut at its reads, its hashing and its write; the token of every person.
`MCCentre` runs it beside `Deployment`: both begin with the account of the first
administrator that the seed creates, and share nothing else.

### Campus

`posts`, `votes` and the class with find and write as separate steps in one pool
of requests; submissions that come, are judged and rejudged; `recs` and `stats`,
cached for `TTL` from their storing, with the time they took from computing to
storing; the hourly `cron`. Time passes between any two steps. The seven places
that tell what a user has solved (`SolvedIds`, `MyStats`, `FirstAccepted`,
`PassStatus`, `HomeworkOf`, `HomeworkStats` and the pages on top of them) are
operators over the same submissions, the two loops with a step each, `KeepFirst`
and `KeepBest`. A behaviour keeps to one record of `Bounds`, chosen at the start.

### WebClient

A browser: the `token` its tabs share, `call`s split where `api()` awaits (refresh,
answer), pages with their list, their editor and the row in the address. `Editors`
are the panels of problems, contests, testcases, users and announcements, `Lists`
those of classes, homework, discussions and registrations, `Watched` the
submission pages that poll. A form knows the row its fields came from, a list how
many changes it has seen. An account may be deleted (a bound), and then a fresh
token is refused as well. A behaviour keeps to one record of `Bounds`.

### Preferences, RejudgePanel, ContestForm, WebPages

The settings page and the submit page over one row of preferences; the rejudge
panel with its scopes, filters, ticks, preview and the server's second look-up;
the contest editor with its durations and offsets, its list of problems and its
late answers. `WebPages` lets a behaviour be that of one of them, since they share
nothing but parts of the server.

### Deployment

The two scripts command by command (`Deploy`, `UpRedis`, `UpApi`, `UpJudge`,
`HostMigrates`, `Seed`; `DeployRemote`), what compose recreates (`Up`), the start of the
API and of judges with `prisma migrate deploy` (`Start`), `.env` as far as passwords
and the credential check go. Faults: a script cut off (`CutOff`), a container that
dies (`Dies`), MySQL away (`DatabaseAway`), Redis lost (`RedisDies`).

## 4. The runs

| Run | Instance | States | Shows |
|---|---|---|---|
| `pipeline` | 2 submissions (one ACM, one OI), 2 handlers, 1 administrator, 2 slots, limit 2, any one of four faults | 1.8 M | The cap; one run at a time; rows agree with verdicts; the counter is exact; `SubmissionLifecycle` is implemented. |
| `live` | 1 submission, limit 3, 2 slots, any one of six faults, fairness | 94 k | Every submission is judged; the counter drains. |
| `box` | 2 testcases in the sandbox, 5 verdict codes, 2 runs of the job, 1 rejudge, fairness | 334 k | Status and score are those of the rows; nothing late or killed is accepted; every testcase ends. |
| `board` | 1 user who is an administrator, 2 problems, 3 submissions, 4 moments | 122 k | The penalty is that of the rules; an accepted verdict is never a loss; nothing made after the freeze shows. |
| `streams` | 2 streams, 2 processes, limit 1, one expiry, one death, fairness | 212 k | Nothing closed stays counted; a registration by itself leaves no more counted than the limit, and every open stream counted but the evicted ones; a stream that hears the judge ends. |
| `evictions` | the same without expiry, no fairness | violated | Two registrations, one after the other, leave two streams open where one is allowed: the evicted stream is never closed (section 6). |
| `centre` | accounts: 2 requests, 2 names, 2 people, 3 ids; deployment: 2 of the centre, 1 remote, 2 edits, 2 sources, 1 fault | 2.4 M | An administrator remains unless two removals overlap; a token is its owner's; the password from before a reset lets nobody in. A lost queue is recovered; tables are never behind what runs. |
| `catalogue` | 2 requests, imports of 0, 1 or 3 testcases, 1 submission, 1 rejudge, 1 fault | 1.1 M | Cache, files and checksums agree with the rows but in named cases; no verdict rests on a stale list. |
| `gate` | an administrator, a user, a request without token, 1 problem, 2 requests, 3 moments | 421 k | Registered and verified mean what they say; those who decide on access agree. |
| `campus` | 3 requests at once, or 2 requests and 2 submissions over an hour and a half, or 3 submissions to 2 problems with a class | 1.8 M | Answered votes toggle; all agree on what is solved; caches are at most an hour, and the time they took to store, old. |
| `web` | two tabs with ageing tokens, or one tab at work in one of twelve panels, accounts of users deleted meanwhile in one of them, fairness | 521 k | A session is that of who logged in; a form saves its own row; pages catch up. |
| `pages` | 2 choices; 3 submissions and 3 clicks; a form of 2 problems and 2 inputs | 2.7 M | Settings converge; code is in its language; a rejudge takes what was ticked; what was not touched is kept. |

### The bounds, and why they are enough

* Two submissions and two handlers fill and overfill a queue of two; a third adds
  more of the same refusals. Two slots are needed for two runs at once, and a job
  has at most two at a time because it is redelivered once. `NTests` is 2 where
  rows matter (a first and a last one), 1 in `live`. The cap has also been checked
  with restarts of the API at the limit 2 (11.3 million states), and the rest with
  two rejudges and failing handlers (4.0 million); `SiteCap` is proved for any.
* One fault at a time: two multiply the states tenfold.
* In `live` one submission suffices because the properties are about one
  submission or the counter. The limit leaves room for the handlers of all paths:
  with a full queue liveness fails by the code's own decision, because a refused
  recovery is not tried again (section 6).
* In `board` the rows of different users do not depend on one another. Three
  submissions over two problems give every order of a failure, an acceptance and
  a pending attempt, on one problem or on both.
* Where requests interleave (`centre`, `catalogue`, `gate`, `campus`) every hazard is
  of two requests: one that looked, one that wrote in between. The third of
  `campus` makes the row that the first has seen, and needs no time to do so. `gate`
  needs a moment before, in and after the contest, `campus` an hour, a computation
  before it and one after, with half an hour passing in the middle of a request.
* Two streams with a limit of one is the smallest eviction; two processes the
  smallest that do not share a connection.
* `web`: a race needs two calls, those of two tabs or of one; a third call only
  repeats. An error is one of the two calls. Editors are alike but in how they
  take answers, which is why each panel has a behaviour of its own.
* `pages`: `Preferences` has also been checked with three choices. A batch limit of
  2 over 3 submissions cuts one off; hours of 2 minutes keep 1 minute, 1 hour and
  "not a whole hour" apart.
* `centre`, of deployments: two give one before and one after an edit; the second may
  be cut off and followed by the first's containers.

Symmetry: handlers, administrators, slots and submissions of one mode in
`JudgePipeline`, requests, problems and verdicts elsewhere, in runs without
liveness only. Deadlock is not checked: all these systems may rightly come to
rest when nothing more is asked of them.

### Conditions in the properties

Several properties hold but for named circumstances, and the name is part of the
property: `seen ⊆ HandlerFaults` (a restart of the API queues again what is being
judged, so two runs may overlap), `~overlap` (streams, accounts), `evicted`
(streams), `cacheLate`, `torn`, `dropped`, `crossed` (catalogue), `raced` and
`crossed` (web). Each circumstance was found by checking the property without it,
and section 6 tells what happens in it.

### Fairness

`JudgePipeline!Fairness` is weak fairness of each handler, of the recovery pass, of
each slot and of the stalled check: Node runs every continuation whose promise has
settled, BullMQ workers fetch whenever a slot is free and check for stalled jobs on
a timer. Requests and faults have none. An await that never returns is not
modelled: the Redis and database clients fail rather than wait for ever.
`JudgeBox` has weak fairness of Node's handlers, of time and of SIGKILL; the judged
program owes nothing. `SseStreams!Fairness`: a subscription takes effect, an event is
delivered, and what is submitted is judged, which `live` shows. `WebClient!FairSpec`:
calls are answered or fail, browsers run what is due and poll on their timers; no
one has to click and no token has to age.

## 5. What is proved

TLAPS checks the proofs for all values of the constants that satisfy the `ASSUME` of
each module: any number of submissions, handlers, slots, accounts, requests, users
and problems, any limit, any fault kinds and number of faults, any number of
testcases with any points, any length of the hour.

| Theorem | Statement | Argument |
|---|---|---|
| `JudgePipelineProofs!TypeCorrect` | `Spec => []TypeOK` | `TypeInv` adds that a handler or slot that is not idle has a job; without it `SubOf(call[c].job)` has no value to reason with. |
| `SiteCap` | `Spec => []CapHolds` | `CapHolds` is not inductive: it does not mention the counter the code tests. `Sound` is three facts that hold until a late fault: a slot at work holds the lock of an active job that no other slot has (`LocksOK`), nobody clamps (`NoClamp`), and the tokens of jobs, of handlers that hold one and of handlers about to undo one add up to at most the counter, of which those of the first two to at most the limit (`Fits`). An increment that is accepted has compared the counter after it, so all earlier tokens leave room. |
| `CounterNeverReset` | without a late fault no one clamps the counter to zero | A release gives back a token that was counted, so the counter stays a natural number. |
| `OneRun` | `Spec /\ []Apart => []OneRunAtATime` | `LifeInv`, as long as only handlers have failed: one handler, one waiting job or one slot carries a submission on (`OneCarrier`), and its status tells which of them it may be (`CarrierOK`, `RunOK`, `JobOK`). A rejudge starts from a final status, where nobody carries the submission, and every later step hands it over: handler to queue, queue to slot. `Apart` is needed where two rejudges have both seen the final status. |
| `RowsOfTheVerdict` | `Spec /\ []Apart => []RowsAgree` | Also from `LifeInv`: a slot's loop variables say what the rows it has written are (`RunOK`), and nobody else writes them until its verdict (`VerdictOK`). |
| `PipelineImplementsLifecycle` | `Spec /\ []Apart => ImplementsLifecycle` | Four actions write what the description shows; by `LifeInv` each finds the status the description's step starts from, every other action stutters. |
| `NoTokenLost` | `Spec /\ []Apart => []ExactCounter` | `ExactInv`: the counter is the number of the three kinds of token, and each action moves one from kind to kind, or changes the counter and one of the three sets by one. |
| `OneAdminApart` | with at most one administrator the four conclusions above hold of `Spec` itself | `Apart` is then trivial. |
| `VerdictProofs!VerdictCorrect` | `Spec => []VerdictOfRows` | `RunInv` says what the totals mean in the middle of the loop (`TotalsAgree`): `allAc`, `firstFail` and the sign of `totalScore` are those of the rows counted so far, a row decided and not yet stored included. |
| `ScoreCorrect` | `Spec => []ScoreOfRows` | The totals are partial sums of the points of the rows counted so far (`ScoreInv`); a stored row adds its term. The lemmas on sums (of functions that agree, of one more term, of nothing lost in ACM mode) rest on the well-ordering of the naturals: a smallest index at which they fail has no predecessor. |
| `AcceptedIsHonest`, `SettledOnlyOnce` | `Spec => []AcceptedHonest`, `Spec => SettledOnce` of `SandboxRun` | `HonestInv`: the promise resolves only at the close event of a program that ended by itself; every handler settles through `finish`, which tests first. |
| `BoxImplementsRun` | `BoxSpec => Spec` of `JudgeRun` | Every step of the composition is a step of `JudgeRun` or leaves its variables alone. |
| `BoxVerdictCorrect`, `BoxScoreCorrect`, `BoxAcceptedHonest` | the three promises hold of the composition | The first two by the refinement; the third from `HonestInv`, which the start of the next testcase establishes anew. |
| `PenaltyOfTheRules` | `BoardSpec => []PenaltyByTheRules` | `BoardInv`: submissions come in the order of their times, none later than now. `LoopFinds` says what the loop has found after any number of submissions (`LoopAt`): nothing yet and the failures so far, or the first accepted one and the failures before it. Its induction is `AllNumbers`, on the well-ordering of the naturals. |
| `AcceptanceCounts` | `BoardSpec => AcceptedNeverSetsBack` | With the rules in place of the loop: the first accepted submission of a problem can only become an earlier one, with fewer failures before it; minutes grow with time (`MinutesGrow`); a sum of smaller terms is not greater (`SumMono`, by the number of terms). In OI mode the best score cannot fall. |
| `FrozenBoardStays` | `BoardSpec => FreezeHolds` | What counts on the public board is what was made up to the freeze (`FreezeStep`), and the step leaves that alone. |
| `RedisProofs!NoGhosts` | `Spec => []NoGhostCounted` | A connection is added by one command and taken out by one that comes after it in the queue of the same process (`QueueInv`); what is counted was added once, so its stream is open or the second command is still to come. |
| `CountIsLimited` | `Spec => []CountHoldsAlone` | `AloneInv`: while no two overlap, one process has commands under way, those of one registration or of closings. What it executes next fixes how many are counted: at most the limit, one more between the adding and the eviction. An open stream leaves the sorted set only by an eviction, which remembers it, or with the key. |
| `ProblemCatalogueProofs!CacheIsCurrent` | `Spec => []CacheAgrees` | `CacheInv`: a list that a submission has read and not yet cached is that of the rows, or marked late by the change in between (`Late`), so what it caches is. |
| `FilesAreThere`, `ChecksumIsOfTheInput` | `Spec => []RowHasFiles`, `Spec => []ChecksumAgrees` | `FileInv`, `AssetInv`, `SumInv` say of every request what it has written so far and not yet entered; ids are given once, so a creation meets nobody; a row that no update has torn has at most one under way, whose checksum is that of the input it has written (`SumAt`). |
| `StaleListNeverScores` | `Spec => []StaleNeverScores` | `ResultInv`: results are of testcases that have a row, since a row with results cannot be deleted; and the worker's loop fails at a testcase the submission has no result for. |
| `RedisProofs!QueueIsRecovered` | `DeploymentSpec => []QueueLossRecovered` | `RecoveryInv`: between the start of Redis and that of the API the deploy has the Redis of `.env`, which is not edited meanwhile; otherwise an API that is there has the password Redis has, but for a deploy cut off between the two. |
| `SchemaIsOfTheCentre` | `DeploymentSpec => []SchemaOfTheCentre` | `MigratedInv`: only containers of the centre migrate, before they listen, to their own source, which is at most that of the checkout. |
| `UserAccountsProofs!AdminRemains` | `Spec => []AdminRemainsAlone` | While no two removals overlap, a request about to remove an administrator has counted another one that is still there. |
| `UserAccountsProofs!TokensAreOwn` | `Spec => []TokenOfOwnAccount` | Ids are never used twice, so what a token names is what its owner was let into. |
| `UserAccountsProofs!OldPasswordRefused` | `Spec => OldPasswordIsUseless` | A reset account has nobody's password, and only a change, a registration or an import gives it one; entering a reset account takes a registration, which ends the reset, or a token that already names it. |
| `CampusProofs!VotesToggle` | `Spec => []EveryAnswerToggles` | With `FreshUnvoted`: a discussion that is not there yet has no votes and no answers. A request writes row and answer together, and only over the row it has found. |
| `CampusProofs!CachesAreRecent` | `Spec => []ServedIsRecent` | `RecsInv`: what a request carries was unsolved when it was computed (`at`); what is cached until `till`, after `took`, was unsolved at `till - TTL - took`. `StatsInv` says the same of counts; submissions are only ever added (`TotalStep`). |
| `CampusProofs!ViewsOfSolvedAgree` | `Spec => []SolvedViewsAgree` | The two loops, from the first submission on and from the latest on, keep what any of the rows seen says (`FirstIsSolved`, `PassIsSolved`, by their rounds: `LoopExists`, `LoopUnique`); the rest are sets with the same members, and shares whose rounding is bounded (`AllIsHundred`, `NotAllIsLess`). `TaskInv`: homework is never empty. |
| `ContestGateProofs!SubmittersAreRegistered`, `VerifiedHaveEntered` | `Spec => []SubmitterRegistered`, `Spec => []VerifiedByPassword` | `Submitting`: a request that passed the gate is of one registered as long as the contest is there (registrations go only with it, and it never returns); `Verifying`: a request that will verify is of one who has entered. |
| `ContestGateProofs!ListsAgree`, `SubmittersSee` | `Spec => []ListAgrees`, `Spec => []SubmitterSees` | From the types of the state alone: the rules of the gate imply those of the page, the problem, the editor and the board. |
| `WebProofs!SessionIsKept` | `Spec => []SessionIsWhoLoggedIn` | `SessionInv`: unless `raced`, the token, and what any tab's refresh will bring, are of who logged in last. Every step keeps the token and asks for none but its own user's, or ends the session, or begins one (`SessionKept`). |
| `FormIsOfItsRow` | `Spec => []FormOfItsRow` | `FormInv` says what the details awaited are worth: of problems only the one asked for last counts (`OneLoad`), and it is of the open row (`LoadsRow`); a form of the other panels that was opened when nothing was awaited awaits its own row only, and nothing once it is filled. |
| `SettingsShowTheRow` | `PagesSpec => []SettingsConverge` | `ShownInv`: what is shown is what the data say, or the last call not yet done, or, when all are done, the row. `DataInv`: with no call left the data are the row, unless the query is running, and then its answer is. |
| `CodeGoesWithItsLanguage` | `PagesSpec => []CodeInItsLanguage` | `CodeInv`: the form is refilled and changed as a whole. |
| `RejudgeAsPicked` | `PagesSpec => []OnlyWhatWasPicked` | `WorkInv` ties what the server is looping over to the body, the body to the panel as it was confirmed (`Asked`), and each submission found to the rows read (`Found`). |
| `EditorKeepsTheRest` | `PagesSpec => []UntouchedKept` | `ContestInv`: the form keeps what is not touched of the row loaded (`Keeps`); `FreezeIs`, `DurationIs`: an offset in hours or minutes turns back into the date it came from. |

`Apart` says that no two administrators have chosen the same submission, from the
look at its status to the write of the new one; `rejudge.service.ts:267` does not
see to it, and section 6 says what two do. It is a condition on behaviours, not on
constants, and the run `pipeline` checks the same four properties with one
administrator, for whom `OneAdminApart` discharges it.

Attempts at a proof have corrected the model and a property. The branch of
`WriteRow` in `ProblemCatalogue` for an import whose row is refused left a variable both primed
and unchanged, so it was never taken; it is now, and all properties hold with it.
`Without` in `SseStreams` and the sums of `JudgeRun` were operators with an operator
argument, out of the provers' reach; they are now the removal of the one place of
a member (a sorted set has each once) and partial sums, defined as a function. For
the same reason the loop of `ContestScoreboard` is a recursive function of the number
of submissions seen, compared with rules about sets of positions, and the two loops
of `Campus` are functions of the same kind. `SolvedViewsAgree` said that a pass rate of 100
percent means that all tried problems are solved; TLC agreed, but the rate is
rounded, and the proof needs that fewer than 2000 were tried (section 6).

The specifications of `WebPages`, `Deployment` and `ContestScoreboard` are named
`PagesSpec`, `DeploymentSpec` and `BoardSpec`, so that a module of proofs can extend
them beside `WebClient`, `SseStreams` and `JudgeBox`.

Every invariant and action property of the runs is now the subject of a theorem.
Model-checked only: liveness, which is out of TLAPS's reach under fairness. The
bounds records of `Campus` and `WebClient` are part of the model, so the theorems
are about behaviours of any bounds.

## 6. Where the code and its documents disagree, and what else was met

Judging:

* Two administrators may rejudge one submission at once (`rejudge.service.ts:267`);
  both see it terminal, the second queues it while it is queued
  (`openspec/specs/submissions/spec.md:62`: one in flight is not rejudged again until
  it is terminal).
* A rejudge refused because the queue is full ("try again later",
  `inflight.service.ts:29`) has already been marked REJUDGE_QUEUED
  (`judge-task.service.ts:138`) and cannot be tried again until the API restarts.
* A restart of the API queues again what is being judged: two runs at once.
* A worker that dies after the verdict, or whose final publish fails, overlaps the
  rejudge that has begun; in the latter case SYSTEM_ERROR is written over
  REJUDGE_QUEUED.
* A worker that dies between giving its token back and BullMQ's record of the job
  has the job run again without a token: the limit is exceeded
  (`judge-worker.service.ts:384`, `docs/deploy.md:245`).
* A redelivered rejudge runs as JUDGING (`judge-worker.service.ts:241`,
  `openspec/specs/submissions/spec.md:47`); rows after the first failure in ACM mode
  stay PENDING (`judge-worker.service.ts:335`), and the page of a submission, which
  reads rows without an order, may show one of them as the first failure.
* A program killed for want of memory is reported as over the time limit
  (`exec.ts:65`, `docs/security-tests.md:16`); one that ends without reading a large
  input makes the write to its stdin fail, and no one listens to that error
  (`exec.ts:78`).
* The heartbeat never takes a node offline (`judge-worker.service.ts:121`), and its
  rejection is not handled: an outage of MySQL ends every worker.

Contests:

* The OI board ranks by the best single submission (`contests.service.ts:711`), not by
  the total over the problems (`openspec/specs/contests/spec.md:65`).
* Registering again, also by an administrator, resets the verification
  (`contests.service.ts:609`). One who registers while a password is being set is
  verified without it. Two updates that each move one end may leave a contest
  that ends before it starts. A submission inserted between count and delete
  loses its contest. At exactly `endAt` problems are unlocked while submitting is
  still allowed.
* The client has no button to register: a public contest without password offers
  links to submit that the server refuses to those an administrator has not
  registered (`openspec/specs/contests/spec.md:19`).

Problems:

* An import of 3 testcases computes scores of 100/3, which the integer column
  refuses after the old rows are gone; scores count an `.in` that lacks its `.out`.
* `deleteTestcase` removes the files before the row, and the row cannot go once a
  submission refers to it. A re-import meets the same refusal after the fields of
  the problem were changed. A failed import leaves the API's cache stale.
* The worker's list is never invalidated (`judge-worker.service.ts:171`,
  `openspec/specs/judge-engine/spec.md:33`).
* Two overlapping imports may leave an asset's row without its file.

Streams: the member is taken apart at the first colon, which is inside
`host:pid`, so the eviction signal reaches no process and an evicted stream is never
closed (`sse-connection.service.ts:155`). Only the count is limited: registrations
one after another leave any number of streams open, against
`openspec/specs/sse-connection-limit/spec.md:19` and `:52`, as the run `evictions` shows.
Overlapping registrations evict the same one; a stream opened after 'done' never
completes.

Accounts: a reset ends no session: whoever holds a token keeps the account and
renews it, since neither `refresh` (`auth.service.ts:113`) nor `JwtStrategy` looks at
`mustResetPassword`. A change of password in flight undoes the reset, after which
the user need not set a new one (`docs/user-manual/admin.md:75`); two registrations on a
reset account both succeed; an import leaves `mustResetPassword`, so that the
imported password does not log in; overlapping demotions may leave no
administrator.

Campus: a vote on a reply is always refused (the controller passes the discussion
along); two pins at once are one; recommendations ignore the locks of contests and
are cached whatever the limit asked for; the profile of one who has solved 1999 of
2000 problems shows a rate of 100 percent (`users.service.ts:293`); a class's
teacher sees `memberCount` empty; the trend of the statistics compares two formats
of a date.

Web client: a refresh answered after a logout brings the session back, a failed one
ends a newer session; the contest and testcase editors take a late answer for
another row, the problem editor shows the old row's values until its own come,
and Save is not disabled meanwhile; the answer of a saved problem pulls a tab that
has left back to the administration; a rejudge after the shown verdict is not
polled for; each choice in the settings sends both fields; the code typed is lost
when its language changes; saving a contest always clears its password; a freeze
at the end becomes one 30 minutes before; a duration that is no whole number of
hours is shown as that many hours.

Deployment: `ENFORCE_SECURE_CREDENTIALS=true` keeps the compose API from starting,
since compose itself sets a default password; changing `DB_PASSWORD` makes the
host's migration fail; `--no-judge` leaves an old judge running; a change of the
Redis password recreates Redis and may lose the queue, recovered only by the API
started after it; no container has a restart policy except the remote judge.

## 7. What is not modelled

* The gRPC and monitoring end points, the language and security scan, markdown,
  localisation, S3: reads, text, or input and output. The smoke tests under
  `scripts/` are tests.
* `isolate.ts`: not called by the judge. The mock judge: a configuration for
  development.
* Fields that nothing else depends on: titles, texts, tags, e-mail addresses,
  avatars; paging and filters of lists.
* Trends, popular problems and the distribution of languages in the statistics;
  the part of `getMyStats` about contests. `getMyStats` reads in six queries, which
  are one step here.
* Replacing the problems of a contest on the server beyond the update itself, the
  removal of a registration, the editing of classes, the zip export: single
  statements.
* The batch limits of the rejudge's look-ups (200 when none is ticked, 2000 of
  problems or contests, `rejudge.service.ts:181`, `:211`, `:230`) and its refusals
  of what is not found: they only reduce what is queued.
* `JUDGE_RECOVER_ON_STARTUP=false`: nothing is then recovered at a start.
* Building, the web server and storage settings of a deployment.
