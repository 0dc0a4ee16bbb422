------------------------------- MODULE Campus -------------------------------
(***************************************************************************)
(* What surrounds the judge: the discussions of a problem with their       *)
(* votes, a class with its members and homework, recommendations, the      *)
(* platform statistics, and the places that tell which problems a user has *)
(* solved, each from the submissions and each in its own way.              *)
(*                                                                         *)
(* A handler looks at the database in one statement and writes in a later  *)
(* one. The requests of all kinds share one pool. Submissions come, are    *)
(* judged and rejudged as in JudgePipeline; here only their verdicts count.*)
(* Titles, contents, tags, deadlines and paging are left out.              *)
(***************************************************************************)
EXTENDS Integers, FiniteSets, SequencesExt

CONSTANTS
  Users, Discussions, Problems,
  Handlers,              \* requests, each served once
  TTL,                   \* an hour: what a recommendation or a statistic is cached for
  Bounds                 \* what a behaviour is limited to: one of the records
                         \*   requests     requests served,
                         \*   problems     problems submitted to and set as homework,
                         \*   submissions  submissions of one user,
                         \*   horizon      last time considered

ASSUME CampusAssumption ==
  /\ TTL \in Nat \ {0} /\ IsFiniteSet(Users) /\ IsFiniteSet(Problems)
  /\ Bounds \subseteq [requests : Nat, problems : SUBSET Problems, submissions : Nat, horizon : Nat]

VARIABLES
  bound,      \* the bounds of this behaviour
  posts,      \* discussions: on, pinned, number of replies
  votes,      \* rows of discussion_votes: user, discussion -> id, 0 for none
  nextVote,   \* the next id
  answered,   \* ghost: an odd number of votes of a user have been answered
  members, homework,   \* of the class; homework is a set of sets of problems
  subs,       \* the submissions of every user, oldest first
  recs,       \* Redis: the recommendations cached for every user
  stats,      \* Redis: the platform statistics
  cron,       \* the hourly aggregation
  req, now,
  solvedAt,   \* ghost: when a user came to have solved a problem
  lastAt      \* ghost: when the last submission was made

social == <<posts, votes, nextVote, answered>>
class == <<members, homework>>
judged == <<subs, solvedAt, lastAt>>
caches == <<recs, stats, cron>>
time == <<now, bound>>
vars == <<social, class, judged, caches, time, req>>

None == [on |-> FALSE]

Init ==
  /\ bound \in Bounds
  /\ posts = [d \in Discussions |-> [on |-> FALSE, pinned |-> FALSE, replies |-> 0]]
  /\ votes = [u \in Users |-> [d \in Discussions |-> 0]] /\ nextVote = 1
  /\ answered = [u \in Users |-> [d \in Discussions |-> FALSE]]
  /\ members = {} /\ homework = {}
  /\ subs = [u \in Users |-> <<>>]
  /\ solvedAt = [u \in Users |-> [p \in Problems |-> 0]]
  /\ recs = [u \in Users |-> None] /\ stats = None /\ cron = None
  /\ req = [h \in Handlers |-> [pc |-> "new"]]
  /\ now = 0 /\ lastAt = 0

Begin(h, q) ==
  /\ req[h].pc = "new" /\ Cardinality({x \in Handlers : req[x].pc # "new"}) < bound.requests
  /\ req' = [req EXCEPT ![h] = q]
At(h, pc) == req[h].pc = pc
Finish(h) == req' = [req EXCEPT ![h] = [pc |-> "done"]]

-----------------------------------------------------------------------------
(* Discussions. *)

CreateDiscussion(d) ==
  /\ ~posts[d].on /\ posts[d].replies = 0
  /\ posts' = [posts EXCEPT ![d].on = TRUE]
  /\ UNCHANGED <<votes, nextVote, answered, class, judged, caches, time, req>>

(* createReply, pin and delete look for the discussion first.              *)
FindDiscussion(h, d, op) ==
  /\ Begin(h, IF ~posts[d].on THEN [pc |-> "done"]
              ELSE IF op = "pin" THEN [pc |-> op, on |-> d, pinned |-> posts[d].pinned]
              ELSE [pc |-> op, on |-> d])
  /\ UNCHANGED <<social, class, judged, caches, time>>

WriteReply(h) ==
  LET d == req[h].on IN
  /\ At(h, "reply")
  /\ IF posts[d].on THEN Finish(h) /\ posts' = [posts EXCEPT ![d].replies = @ + 1]
                    ELSE Finish(h) /\ UNCHANGED posts
  /\ UNCHANGED <<votes, nextVote, answered, class, judged, caches, time>>

WritePin(h) ==
  LET d == req[h].on IN
  /\ At(h, "pin")
  /\ IF posts[d].on
     THEN Finish(h) /\ posts' = [posts EXCEPT ![d].pinned = ~req[h].pinned]
     ELSE Finish(h) /\ UNCHANGED posts
  /\ UNCHANGED <<votes, nextVote, answered, class, judged, caches, time>>

(* The replies and the votes go with the discussion; its id never returns, *)
(* which a discussion with replies = -1 stands for.                        *)
DeleteDiscussion(h) ==
  LET d == req[h].on IN
  /\ At(h, "delete")
  /\ IF posts[d].on
     THEN /\ Finish(h)
          /\ posts' = [posts EXCEPT ![d] = [on |-> FALSE, pinned |-> FALSE, replies |-> -1]]
          /\ votes' = [u \in Users |-> [votes[u] EXCEPT ![d] = 0]]
     ELSE Finish(h) /\ UNCHANGED <<posts, votes>>
  /\ UNCHANGED <<nextVote, answered, class, judged, caches, time>>

(* vote looks for the row of this user; it is given the discussion of the  *)
(* path also when a reply is meant, and then refuses both.                 *)
FindVote(h, u, d, isReply) ==
  /\ Begin(h, IF isReply THEN [pc |-> "done"]
              ELSE [pc |-> "vote", user |-> u, on |-> d, found |-> votes[u][d]])
  /\ UNCHANGED <<social, class, judged, caches, time>>

Answer(h, u, d) == Finish(h) /\ answered' = [answered EXCEPT ![u][d] = ~@]

RemoveIfThere(h) ==           \* mutant: a vote that is gone already counts as removed
  LET q == req[h] IN
  /\ At(h, "vote") /\ q.found # 0
  /\ Answer(h, q.user, q.on)
  /\ votes' = IF votes[q.user][q.on] = q.found
              THEN [votes EXCEPT ![q.user][q.on] = 0] ELSE votes
  /\ UNCHANGED <<posts, nextVote, class, judged, caches, time>>

(* A row that was found is deleted by its id; the request fails without it.*)
RemoveVote(h) ==
  LET q == req[h] IN
  /\ At(h, "vote") /\ q.found # 0
  /\ IF votes[q.user][q.on] = q.found
     THEN /\ Answer(h, q.user, q.on)
          /\ votes' = [votes EXCEPT ![q.user][q.on] = 0]
     ELSE Finish(h) /\ UNCHANGED <<votes, answered>>
  /\ UNCHANGED <<posts, nextVote, class, judged, caches, time>>

(* A new row needs the discussion, and that no other has been made.        *)
AddVote(h) ==
  LET q == req[h] IN
  /\ At(h, "vote") /\ q.found = 0
  /\ IF posts[q.on].on /\ votes[q.user][q.on] = 0
     THEN /\ Answer(h, q.user, q.on)
          /\ votes' = [votes EXCEPT ![q.user][q.on] = nextVote]
          /\ nextVote' = nextVote + 1
     ELSE Finish(h) /\ UNCHANGED <<votes, nextVote, answered>>
  /\ UNCHANGED <<posts, class, judged, caches, time>>

-----------------------------------------------------------------------------
(* The class and its homework. *)

FindMember(h, u) ==
  /\ Begin(h, IF u \in members THEN [pc |-> "done"] ELSE [pc |-> "join", user |-> u])
  /\ UNCHANGED <<social, class, judged, caches, time>>

AddMember(h) ==
  /\ At(h, "join")
  /\ Finish(h)
  /\ members' = members \union {req[h].user}
  /\ UNCHANGED <<homework, social, judged, caches, time>>

(* By the teacher or an administrator. *)
FindMemberToRemove(h, u) ==
  /\ Begin(h, IF u \in members THEN [pc |-> "remove", user |-> u] ELSE [pc |-> "done"])
  /\ UNCHANGED <<social, class, judged, caches, time>>

RemoveMember(h) ==
  /\ At(h, "remove")
  /\ Finish(h)
  /\ members' = members \ {req[h].user}
  /\ UNCHANGED <<homework, social, judged, caches, time>>

(* By the teacher; the problems and the homework are one nested create.    *)
CreateHomework(h, problems) ==
  /\ Begin(h, [pc |-> "done"])
  /\ homework' = homework \union {problems}
  /\ UNCHANGED <<members, social, judged, caches, time>>

-----------------------------------------------------------------------------
(* Submissions, and those who ask which problems a user has solved.        *)

Solves(s) == s.status = "ACCEPTED"
Verdicts == {"ACCEPTED", "WRONG_ANSWER"}
Terminal(s) == s.status \in Verdicts

(* getUserSolvedProblemIds: distinct rows.                                 *)
SolvedIds(u) == {s.problem : s \in {s \in ToSet(subs[u]) : Solves(s)}}

Rounded(part, whole) ==      \* Math.round of a share, 0 of nothing
  IF whole = 0 THEN 0 ELSE (2 * part + whole) \div (2 * whole)

(* The summary and the verdicts of getMyStats; the pass rate in tenths.    *)
MyStats(u) ==
  LET rows(status) == {n \in DOMAIN subs[u] : subs[u][n].status = status}
      attempted == {s.problem : s \in {s \in ToSet(subs[u]) : Terminal(s)}}
  IN [solved |-> Cardinality(SolvedIds(u)), attempted |-> Cardinality(attempted),
      passRate |-> Rounded(1000 * Cardinality(SolvedIds(u)), Cardinality(attempted)),
      verdicts |-> [status \in Verdicts |-> Cardinality(rows(status))]]

(* listMySolvedProblems keeps the first accepted submission of a problem.  *)
KeepFirst(first, s, n) ==
  IF Solves(s) /\ first[s.problem] = 0 THEN [first EXCEPT ![s.problem] = n] ELSE first

FirstAccepted(u) ==
  LET first[n \in 0..Len(subs[u])] ==
        IF n = 0 THEN [p \in Problems |-> 0] ELSE KeepFirst(first[n - 1], subs[u][n], n)
  IN first[Len(subs[u])]

(* The passStatus of the list of problems, from the latest one on.         *)
KeepLatest(pass, s) ==          \* mutant: the latest verdict decides
  IF Terminal(s) /\ pass[s.problem] = "NONE"
  THEN [pass EXCEPT ![s.problem] = IF Solves(s) THEN "PASSED" ELSE "FAILED"] ELSE pass

KeepBest(pass, s) ==
  CASE Solves(s) -> [pass EXCEPT ![s.problem] = "PASSED"]
    [] Terminal(s) /\ ~Solves(s) /\ pass[s.problem] = "NONE" ->
         [pass EXCEPT ![s.problem] = "FAILED"]
    [] OTHER -> pass

PassStatus(u) ==
  LET pass[n \in 0..Len(subs[u])] ==
        IF n = 0 THEN [p \in Problems |-> "NONE"]
        ELSE KeepBest(pass[n - 1], subs[u][Len(subs[u]) + 1 - n])
  IN pass[Len(subs[u])]

(* A student's list of homework: the completed problems of each.           *)
HomeworkOf(u) ==
  IF u \notin members THEN {}
  ELSE LET accepted == SolvedIds(u) \intersect UNION homework
       IN {[problems |-> w, completed |-> w \intersect accepted] : w \in homework}

(* The teacher's statistics of one homework.                               *)
HomeworkStats(w) ==
  LET done(u) == {p \in w : \E s \in ToSet(subs[u]) : Solves(s) /\ s.problem = p}
  IN [completed |-> [u \in members |-> Cardinality(done(u))],
      rate |-> [u \in members |-> Rounded(100 * Cardinality(done(u)), Cardinality(w))],
      notSubmitted |-> {u \in members : done(u) = {}}]

(* What the pages show of it: the tag of a problem, the profile, the       *)
(* progress of a student, the colours of the teacher's table.              *)
ProblemsPage(u) == [p \in Problems |-> PassStatus(u)[p]]

ProfileStatsPanel(u) ==
  LET mine == MyStats(u)
      tags == {status \in Verdicts : mine.verdicts[status] > 0}
      items == {p \in Problems : FirstAccepted(u)[p] # 0}
  IN [summary |-> mine, tags |-> tags, items |-> items]

HomeworkListPage(u) ==
  {[problems |-> w.problems, done |-> w.completed,
    percent |-> Rounded(100 * Cardinality(w.completed), Cardinality(w.problems))]
     : w \in HomeworkOf(u)}

HomeworkStatsPage(w) ==
  LET rate == HomeworkStats(w).rate
  IN [u \in members |-> IF rate[u] >= 80 THEN "success"
                        ELSE IF rate[u] >= 50 THEN "warning" ELSE "error"]

Submit(u, p) ==
  /\ p \in bound.problems /\ Len(subs[u]) < bound.submissions
  /\ subs' = [subs EXCEPT ![u] = Append(@, [problem |-> p, status |-> "QUEUED"])]
  /\ lastAt' = now
  /\ UNCHANGED <<solvedAt, social, class, caches, time, req>>

(* A verdict is written, or a rejudge takes it back for a while.           *)
Verdict(u, n, status) ==
  LET s == subs[u][n] IN
  /\ (status = "QUEUED") # (s.status = "QUEUED")
  /\ subs' = [subs EXCEPT ![u][n].status = status]
  /\ solvedAt' = IF status = "ACCEPTED" /\ s.problem \notin SolvedIds(u)
                 THEN [solvedAt EXCEPT ![u][s.problem] = now] ELSE solvedAt
  /\ UNCHANGED <<lastAt, social, class, caches, time, req>>

-----------------------------------------------------------------------------
(* Recommendations and statistics, cached for an hour from when they are   *)
(* stored; took (ghost) is how long ago they had been computed by then.    *)

Cached(value, at) == [on |-> TRUE, value |-> value, till |-> now + TTL, took |-> now - at]
Live(entry) == entry.on /\ now < entry.till

(* getRecommendations: a cached list is the answer. Redis may fail.        *)
ReadCachedRecs(h, u) ==
  /\ \/ Live(recs[u]) /\ Begin(h, [pc |-> "done"])
     \/ Begin(h, [pc |-> "compute", user |-> u])
  /\ UNCHANGED <<social, class, judged, caches, time>>

(* Popular easy problems, or those of the profile: all of them unsolved.   *)
ComputeRecs(h) ==
  /\ At(h, "compute")
  /\ \E list \in SUBSET (bound.problems \ SolvedIds(req[h].user)) :
       req' = [req EXCEPT ![h] = [pc |-> "store", user |-> req[h].user, list |-> list, at |-> now]]
  /\ UNCHANGED <<social, class, judged, caches, time>>

StoreForEver(h) ==              \* mutant: SET without a time to live
  /\ At(h, "store")
  /\ recs' = [recs EXCEPT ![req[h].user] =
                [Cached(req[h].list, req[h].at) EXCEPT !.till = bound.horizon + 1]]
  /\ Finish(h)
  /\ UNCHANGED <<stats, cron, social, class, judged, time>>

StoreRecs(h) ==
  /\ At(h, "store")
  /\ \/ recs' = [recs EXCEPT ![req[h].user] = Cached(req[h].list, req[h].at)]
     \/ UNCHANGED recs
  /\ Finish(h)
  /\ UNCHANGED <<stats, cron, social, class, judged, time>>

Submitted == {x \in Users \X (1..bound.submissions) : x[2] <= Len(subs[x[1]])}
Total == Cardinality(Submitted)

(* aggregateStats counts, and stores what it has counted, or fails.        *)
CountStats ==
  /\ cron.on /\ ~cron.counted
  /\ cron' = [on |-> TRUE, counted |-> TRUE, total |-> Total, at |-> now]
  /\ UNCHANGED <<recs, stats, social, class, judged, time, req>>

StoreStats ==
  /\ cron.on /\ cron.counted
  /\ stats' = Cached(cron.total, cron.at) \/ UNCHANGED stats
  /\ cron' = None
  /\ UNCHANGED <<recs, social, class, judged, time, req>>

(* getStats: what is cached, or else what is counted now.                  *)
ServedTotal == IF Live(stats) THEN stats.value ELSE Total

(* A part of an hour passes, also in the middle of requests and of an      *)
(* aggregation. One is due every hour, and takes less than that. Entries   *)
(* past their time are gone from Redis.                                    *)
Due == (now + 1) % TTL = 0
Tick ==
  /\ now < bound.horizon /\ (Due => ~cron.on)
  /\ now' = now + 1
  /\ cron' = IF Due THEN [on |-> TRUE, counted |-> FALSE] ELSE cron
  /\ recs' = [u \in Users |-> IF recs[u].on /\ recs[u].till <= now + 1 THEN None ELSE recs[u]]
  /\ stats' = IF stats.on /\ stats.till <= now + 1 THEN None ELSE stats
  /\ UNCHANGED <<bound, social, class, judged, req>>

-----------------------------------------------------------------------------
Next ==
  \/ \E h \in Handlers, d \in Discussions :
       \/ \E op \in {"reply", "pin", "delete"} : FindDiscussion(h, d, op)
       \/ \E u \in Users, isReply \in BOOLEAN : FindVote(h, u, d, isReply)
  \/ \E d \in Discussions : CreateDiscussion(d)
  \/ \E h \in Handlers, u \in Users :
       FindMember(h, u) \/ FindMemberToRemove(h, u) \/ ReadCachedRecs(h, u)
  \/ \E h \in Handlers, w \in (SUBSET bound.problems) \ {{}} : CreateHomework(h, w)
  \/ \E h \in Handlers :
       \/ WriteReply(h) \/ WritePin(h) \/ DeleteDiscussion(h)
       \/ RemoveVote(h) \/ AddVote(h) \/ AddMember(h) \/ RemoveMember(h)
       \/ ComputeRecs(h) \/ StoreRecs(h)
  \/ \E u \in Users : \/ \E p \in Problems : Submit(u, p)
                      \/ \E n \in 1..Len(subs[u]), status \in {"QUEUED", "ACCEPTED", "WRONG_ANSWER"} :
                           Verdict(u, n, status)
  \/ CountStats \/ StoreStats \/ Tick

Spec == Init /\ [][Next]_vars

-----------------------------------------------------------------------------
(* Every vote that is answered has toggled the row, also when the clicks   *)
(* of one user overlap: vote looks first and toggles later, and a request  *)
(* that finds the world changed must fail rather than answer.              *)
EveryAnswerToggles ==
  \A u \in Users, d \in Discussions : posts[d].on => (votes[u][d] # 0) = answered[u][d]

(* All who tell which problems a user has solved agree, through rejudges   *)
(* and mixed verdicts: the tags of the list of problems, the profile's     *)
(* counts, rate, tags and list, the student's progress in the homework and *)
(* the teacher's statistics of it. The pass rate is rounded: who has solved *)
(* all but one problem is shown 100 percent from the 2000th problem on.    *)
SolvedByTag(u) == {p \in Problems : ProblemsPage(u)[p] = "PASSED"}
TriedByTag(u) == {p \in Problems : ProblemsPage(u)[p] # "NONE"}
ProfileAgrees(u, solved, tried) ==
  LET profile == ProfileStatsPanel(u) IN
  /\ profile.items = solved
  /\ profile.summary.solved = Cardinality(solved)
  /\ profile.summary.attempted = Cardinality(tried)
  /\ solved = tried /\ tried # {} => profile.summary.passRate = 1000
  /\ profile.summary.passRate = 1000 /\ Cardinality(tried) < 2000 =>
       solved = tried /\ tried # {}
  /\ "ACCEPTED" \in profile.tags <=> solved # {}
  /\ profile.tags = {} <=> tried = {}
HomeworkAgrees(u, solved) ==
  \A w \in HomeworkListPage(u) :
    LET teacher == HomeworkStats(w.problems) IN
    /\ w.done = w.problems \intersect solved
    /\ teacher.completed[u] = Cardinality(w.done) /\ teacher.rate[u] = w.percent
    /\ u \in teacher.notSubmitted <=> w.done = {}
    /\ w.done = w.problems => HomeworkStatsPage(w.problems)[u] = "success"
    /\ w.done = {} => HomeworkStatsPage(w.problems)[u] = "error"
SolvedViewsAgree ==
  \A u \in Users : /\ SolvedIds(u) = SolvedByTag(u)
                   /\ ProfileAgrees(u, SolvedByTag(u), TriedByTag(u))
                   /\ HomeworkAgrees(u, SolvedByTag(u))

(* What is served from a cache was true an hour ago, or the hour and what  *)
(* lay between its computation and its storing: a problem still            *)
(* recommended was unsolved then, and the statistics count no more         *)
(* submissions than were made, and all but those made since.               *)
ServedIsRecent ==
  /\ \A u \in Users : Live(recs[u]) =>
       \A p \in recs[u].value \intersect SolvedIds(u) :
         now - solvedAt[u][p] < TTL + recs[u].took
  /\ ServedTotal <= Total
  /\ ServedTotal < Total => now - lastAt < TTL + stats.took
=============================================================================
