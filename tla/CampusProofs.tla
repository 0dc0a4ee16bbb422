---------------------------- MODULE CampusProofs ----------------------------
(***************************************************************************)
(* For any number of users, requests and problems: every vote answered has *)
(* toggled its row, what is served from a cache is of an hour ago, and     *)
(* all who tell what is solved agree.                                      *)
(***************************************************************************)
EXTENDS Campus, FiniteSetTheorems, WellFoundedInduction, TLAPS

Post == [on : BOOLEAN, pinned : BOOLEAN, replies : Int]
Submission == [problem : Problems, status : {"QUEUED"} \union Verdicts]

(* What a handler carries from one statement to the next.                  *)
Carries(q) ==
  /\ q.pc \in {"reply", "pin", "delete", "vote"} => q.on \in Discussions
  /\ q.pc \in {"vote", "compute", "store"} => q.user \in Users
  /\ q.pc = "pin" => q.pinned \in BOOLEAN

TypeOK ==
  /\ bound \in Bounds
  /\ posts \in [Discussions -> Post]
  /\ votes \in [Users -> [Discussions -> Nat]] /\ nextVote \in Nat \ {0}
  /\ answered \in [Users -> [Discussions -> BOOLEAN]]
  /\ subs \in [Users -> Seq(Submission)]
  /\ solvedAt \in [Users -> [Problems -> Nat]]
  /\ now \in Nat /\ lastAt \in Nat
  /\ req = [h \in Handlers |-> req[h]] /\ \A h \in Handlers : Carries(req[h])
  /\ recs = [u \in Users |-> recs[u]]

(* A discussion that is not there yet has no votes.                        *)
FreshUnvoted ==
  \A u \in Users, d \in Discussions :
    ~posts[d].on /\ posts[d].replies = 0 => votes[u][d] = 0 /\ ~answered[u][d]
VoteInv == EveryAnswerToggles /\ FreshUnvoted

(* A recommended problem was unsolved when the list was computed: an hour  *)
(* before it is gone, and as long before as its storing took.              *)
Since(u, list, t) ==
  \A p \in Problems : p \in list /\ p \in SolvedIds(u) => solvedAt[u][p] >= t
Times(entry) ==
  entry.till \in Int /\ entry.took \in Nat /\ entry.till - TTL - entry.took <= now
Computed(entry) == entry.till - TTL - entry.took
RecsInv ==
  /\ \A u \in Users : recs[u].on =>
       Times(recs[u]) /\ Since(u, recs[u].value, Computed(recs[u]))
  /\ \A h \in Handlers : At(h, "store") =>
       req[h].at \in Nat /\ req[h].at <= now /\ Since(req[h].user, req[h].list, req[h].at)

(* What was counted is missed by at most what was submitted since.         *)
Counted(total, t) ==
  total \in Nat /\ total <= Total /\ (total < Total => lastAt >= t)
StatsInv ==
  /\ cron.on /\ cron.counted =>
       cron.at \in Nat /\ cron.at <= now /\ Counted(cron.total, cron.at)
  /\ stats.on => Times(stats) /\ Counted(stats.value, Computed(stats))

Inv == TypeOK /\ VoteInv /\ RecsInv /\ StatsInv

-----------------------------------------------------------------------------
(* Submissions are finitely many.                                          *)
LEMMA SubmittedFinite ==
  ASSUME TypeOK PROVE IsFiniteSet(Submitted) /\ Total \in Nat
<1>1. bound.submissions \in Nat
  BY CampusAssumption DEF TypeOK
<1>2. IsFiniteSet(Users \X (1..bound.submissions))
  <2>1. IsFiniteSet(1..bound.submissions)
    BY <1>1, FS_Interval
  <2>2. IsFiniteSet(Users)
    BY CampusAssumption
  <2> QED BY <2>1, <2>2, FS_Product
<1>3. Submitted \subseteq Users \X (1..bound.submissions)
  BY DEF Submitted
<1>4. IsFiniteSet(Submitted)
  BY <1>2, <1>3, FS_Subset
<1> QED BY <1>4, FS_CardinalityType DEF Total

(* Init: no votes, no submissions, nothing cached.                         *)
LEMMA InvInit == Init => Inv
<1> SUFFICES ASSUME Init PROVE Inv
  OBVIOUS
<1>1. TypeOK
  <2>1. posts \in [Discussions -> Post]
    BY DEF Init, Post
  <2>2. req = [h \in Handlers |-> req[h]] /\ \A h \in Handlers : req[h] = [pc |-> "new"]
    BY DEF Init
  <2>3. \A h \in Handlers : Carries(req[h])
    BY <2>2 DEF Carries
  <2>4. recs = [u \in Users |-> recs[u]] /\ subs \in [Users -> Seq(Submission)]
    BY DEF Init
  <2> QED BY <2>1, <2>2, <2>3, <2>4 DEF Init, TypeOK
<1>2. VoteInv
  BY DEF Init, VoteInv, EveryAnswerToggles, FreshUnvoted
<1>3. RecsInv
  BY DEF Init, RecsInv, None, At
<1>4. StatsInv
  BY DEF Init, StatsInv, None
<1> QED BY <1>1, <1>2, <1>3, <1>4 DEF Inv

-----------------------------------------------------------------------------
(* A reply more leaves a discussion a discussion.                          *)
LEMMA OneMore ==
  ASSUME NEW p \in Post PROVE [p EXCEPT !.replies = @ + 1] \in Post
<1>1. p.replies + 1 \in Int
  BY DEF Post
<1> QED BY <1>1 DEF Post

(* A request that begins, goes on or ends leaves the other ones alone, and *)
(* what it writes are votes, verdicts and times.                           *)
LEMMA TypeStep ==
  ASSUME TypeOK, [Next]_vars
  PROVE  TypeOK'
<1> USE DEF TypeOK
<1>1. ASSUME NEW h \in Handlers, NEW q, Carries(q), req' = [req EXCEPT ![h] = q]
      PROVE  req' = [x \in Handlers |-> req'[x]] /\ \A x \in Handlers : Carries(req'[x])
  BY <1>1
<1>2. ASSUME NEW h \in Handlers, Finish(h)
      PROVE  req' = [x \in Handlers |-> req'[x]] /\ \A x \in Handlers : Carries(req'[x])
  <2>1. Carries([pc |-> "done"])
    BY DEF Carries
  <2> QED BY <1>1, <1>2, <2>1 DEF Finish
<1>3. ASSUME NEW h \in Handlers, NEW d \in Discussions, NEW op \in {"reply", "pin", "delete"},
             FindDiscussion(h, d, op)
      PROVE  TypeOK'
  <2> DEFINE q == IF ~posts[d].on THEN [pc |-> "done"]
                  ELSE IF op = "pin" THEN [pc |-> op, on |-> d, pinned |-> posts[d].pinned]
                  ELSE [pc |-> op, on |-> d]
  <2>1. Carries(q)
    BY DEF Carries, Post
  <2>2. req' = [req EXCEPT ![h] = q]
    BY <1>3 DEF FindDiscussion, Begin
  <2> HIDE DEF q
  <2> QED BY <1>1, <1>3, <2>1, <2>2 DEF FindDiscussion, social, class, judged, caches, time
<1>4. ASSUME NEW h \in Handlers, NEW d \in Discussions, NEW u \in Users, NEW isReply \in BOOLEAN,
             FindVote(h, u, d, isReply)
      PROVE  TypeOK'
  <2> DEFINE q == IF isReply THEN [pc |-> "done"]
                  ELSE [pc |-> "vote", user |-> u, on |-> d, found |-> votes[u][d]]
  <2>1. Carries(q)
    BY DEF Carries
  <2>2. req' = [req EXCEPT ![h] = q]
    BY <1>4 DEF FindVote, Begin
  <2> HIDE DEF q
  <2> QED BY <1>1, <1>4, <2>1, <2>2 DEF FindVote, social, class, judged, caches, time
<1>5. ASSUME NEW d \in Discussions, CreateDiscussion(d) PROVE TypeOK'
  BY <1>5 DEF CreateDiscussion, Post, class, judged, caches, time
<1>6. ASSUME NEW h \in Handlers, NEW u \in Users, FindMember(h, u) \/ FindMemberToRemove(h, u)
      PROVE  TypeOK'
  <2>1. \A pc \in {"join", "remove"} : Carries([pc |-> pc, user |-> u]) /\ Carries([pc |-> "done"])
    BY DEF Carries
  <2>2. \E q : Carries(q) /\ req' = [req EXCEPT ![h] = q]
    BY <1>6, <2>1 DEF FindMember, FindMemberToRemove, Begin
  <2> QED BY <1>1, <1>6, <2>2
      DEF FindMember, FindMemberToRemove, social, class, judged, caches, time
<1>7. ASSUME NEW h \in Handlers, NEW u \in Users, ReadCachedRecs(h, u) PROVE TypeOK'
  <2>1. Carries([pc |-> "compute", user |-> u]) /\ Carries([pc |-> "done"])
    BY DEF Carries
  <2>2. \E q : Carries(q) /\ req' = [req EXCEPT ![h] = q]
    BY <1>7, <2>1 DEF ReadCachedRecs, Begin
  <2> QED BY <1>1, <1>7, <2>2 DEF ReadCachedRecs, social, class, judged, caches, time
<1>8. ASSUME NEW h \in Handlers, NEW w \in SUBSET bound.problems, CreateHomework(h, w)
      PROVE  TypeOK'
  <2>1. Carries([pc |-> "done"])
    BY DEF Carries
  <2> QED BY <1>1, <1>8, <2>1 DEF CreateHomework, Begin, social, judged, caches, time
<1>9. ASSUME NEW h \in Handlers, WriteReply(h) \/ WritePin(h) PROVE TypeOK'
  <2>1. req' = [x \in Handlers |-> req'[x]] /\ \A x \in Handlers : Carries(req'[x])
    BY <1>2, <1>9 DEF WriteReply, WritePin
  <2>2. posts' \in [Discussions -> Post]
    <3>1. req[h].on \in Discussions /\ posts[req[h].on] \in Post
      BY <1>9 DEF WriteReply, WritePin, At, Carries
    <3>2. CASE WriteReply(h)
      <4>1. [posts[req[h].on] EXCEPT !.replies = @ + 1] \in Post
        BY <3>1, OneMore
      <4>2. posts' = posts \/ posts' = [posts EXCEPT ![req[h].on] =
                                          [posts[req[h].on] EXCEPT !.replies = @ + 1]]
        BY <3>2 DEF WriteReply
      <4> QED BY <4>1, <4>2
    <3>3. CASE WritePin(h)
      <4>1. [posts[req[h].on] EXCEPT !.pinned = ~req[h].pinned] \in Post
        BY <3>1, <3>3 DEF Post, WritePin, At, Carries
      <4>2. posts' = posts \/ posts' = [posts EXCEPT ![req[h].on] =
                                          [posts[req[h].on] EXCEPT !.pinned = ~req[h].pinned]]
        BY <3>3 DEF WritePin
      <4> QED BY <4>1, <4>2
    <3> QED BY <1>9, <3>2, <3>3
  <2> QED BY <1>9, <2>1, <2>2 DEF WriteReply, WritePin, class, judged, caches, time
<1>10. ASSUME NEW h \in Handlers, DeleteDiscussion(h) PROVE TypeOK'
  <2>1. req' = [x \in Handlers |-> req'[x]] /\ \A x \in Handlers : Carries(req'[x])
    BY <1>2, <1>10 DEF DeleteDiscussion
  <2>2. req[h].on \in Discussions
    BY <1>10 DEF DeleteDiscussion, At, Carries
  <2>3. posts' \in [Discussions -> Post]
    <3>1. [on |-> FALSE, pinned |-> FALSE, replies |-> -1] \in Post
      BY DEF Post
    <3> QED BY <1>10, <2>2, <3>1 DEF DeleteDiscussion
  <2>4. votes' \in [Users -> [Discussions -> Nat]]
    <3>1. \A u \in Users : [votes[u] EXCEPT ![req[h].on] = 0] \in [Discussions -> Nat]
      BY <2>2
    <3>2. \/ votes' = votes
          \/ votes' = [u \in Users |-> [votes[u] EXCEPT ![req[h].on] = 0]]
      BY <1>10 DEF DeleteDiscussion
    <3>3. CASE votes' = votes
      BY <3>3
    <3>4. CASE votes' = [u \in Users |-> [votes[u] EXCEPT ![req[h].on] = 0]]
      BY <3>1, <3>4
    <3> QED BY <3>2, <3>3, <3>4
  <2> QED BY <1>10, <2>1, <2>3, <2>4 DEF DeleteDiscussion, class, judged, caches, time
<1>11. ASSUME NEW h \in Handlers, RemoveVote(h) \/ AddVote(h) PROVE TypeOK'
  <2>1. req' = [x \in Handlers |-> req'[x]] /\ \A x \in Handlers : Carries(req'[x])
    BY <1>2, <1>11 DEF RemoveVote, AddVote, Answer
  <2>2. req[h].user \in Users /\ req[h].on \in Discussions
    BY <1>11 DEF RemoveVote, AddVote, At, Carries
  <2>3. /\ \A n \in Nat : [votes EXCEPT ![req[h].user][req[h].on] = n]
                              \in [Users -> [Discussions -> Nat]]
        /\ [answered EXCEPT ![req[h].user][req[h].on] = ~@] \in [Users -> [Discussions -> BOOLEAN]]
    <3>1. \A n \in Nat : [votes[req[h].user] EXCEPT ![req[h].on] = n] \in [Discussions -> Nat]
      BY <2>2
    <3>2. [answered[req[h].user] EXCEPT ![req[h].on] = ~@] \in [Discussions -> BOOLEAN]
      BY <2>2
    <3> QED BY <2>2, <3>1, <3>2
  <2>4. /\ answered' = answered
           \/ answered' = [answered EXCEPT ![req[h].user][req[h].on] = ~@]
        /\ nextVote' \in Nat \ {0}
        /\ \/ votes' = votes
           \/ \E n \in Nat : votes' = [votes EXCEPT ![req[h].user][req[h].on] = n]
    <3>1. CASE RemoveVote(h)
      BY <3>1 DEF RemoveVote, Answer
    <3>2. CASE AddVote(h)
      <4>1. nextVote \in Nat /\ nextVote + 1 \in Nat \ {0}
        OBVIOUS
      <4>2. CASE posts[req[h].on].on /\ votes[req[h].user][req[h].on] = 0
        BY <3>2, <4>1, <4>2 DEF AddVote, Answer
      <4>3. CASE ~(posts[req[h].on].on /\ votes[req[h].user][req[h].on] = 0)
        BY <3>2, <4>1, <4>3 DEF AddVote
      <4> QED BY <4>2, <4>3
    <3> QED BY <1>11, <3>1, <3>2
  <2>5. votes' \in [Users -> [Discussions -> Nat]] /\ answered' \in [Users -> [Discussions -> BOOLEAN]]
    <3>1. votes' \in [Users -> [Discussions -> Nat]]
      <4>1. CASE votes' = votes
        BY <4>1
      <4>2. ASSUME NEW n \in Nat, votes' = [votes EXCEPT ![req[h].user][req[h].on] = n]
            PROVE  votes' \in [Users -> [Discussions -> Nat]]
        BY <2>3, <4>2
      <4> QED BY <2>4, <4>1, <4>2
    <3>2. answered' \in [Users -> [Discussions -> BOOLEAN]]
      <4>1. CASE answered' = answered
        BY <4>1
      <4>2. CASE answered' = [answered EXCEPT ![req[h].user][req[h].on] = ~@]
        BY <2>3, <4>2
      <4> QED BY <2>4, <4>1, <4>2
    <3> QED BY <3>1, <3>2
  <2>6. posts' = posts /\ UNCHANGED <<class, judged, caches, time>>
    BY <1>11 DEF RemoveVote, AddVote
  <2> QED BY <2>1, <2>4, <2>5, <2>6 DEF class, judged, caches, time
<1>12. ASSUME NEW h \in Handlers, AddMember(h) \/ RemoveMember(h) PROVE TypeOK'
  BY <1>2, <1>12 DEF AddMember, RemoveMember, social, judged, caches, time
<1>13. ASSUME NEW h \in Handlers, ComputeRecs(h) PROVE TypeOK'
  <2>1. PICK list \in SUBSET (bound.problems \ SolvedIds(req[h].user)) :
          req' = [req EXCEPT ![h] =
                    [pc |-> "store", user |-> req[h].user, list |-> list, at |-> now]]
    BY <1>13 DEF ComputeRecs
  <2>2. Carries([pc |-> "store", user |-> req[h].user, list |-> list, at |-> now])
    BY <1>13 DEF ComputeRecs, At, Carries
  <2> QED BY <1>1, <1>13, <2>1, <2>2 DEF ComputeRecs, social, class, judged, caches, time
<1>14. ASSUME NEW h \in Handlers, StoreRecs(h) PROVE TypeOK'
  BY <1>2, <1>14 DEF StoreRecs, social, class, judged, time
<1>15. ASSUME NEW u \in Users, NEW p \in Problems, Submit(u, p) PROVE TypeOK'
  <2>1. [problem |-> p, status |-> "QUEUED"] \in Submission
    BY DEF Submission
  <2>2. Append(subs[u], [problem |-> p, status |-> "QUEUED"]) \in Seq(Submission)
    BY <2>1
  <2>3. subs' \in [Users -> Seq(Submission)] /\ lastAt' \in Nat
    BY <1>15, <2>2 DEF Submit
  <2> QED BY <1>15, <2>3 DEF Submit, social, class, caches, time
<1>16. ASSUME NEW u \in Users, NEW n \in 1..Len(subs[u]),
              NEW status \in {"QUEUED", "ACCEPTED", "WRONG_ANSWER"}, Verdict(u, n, status)
       PROVE  TypeOK'
  <2>0. subs[u] \in Seq(Submission)
    OBVIOUS
  <2>1. subs[u][n] \in Submission /\ [subs[u][n] EXCEPT !.status = status] \in Submission
    <3>1. subs[u][n] \in Submission
      BY <2>0
    <3> QED BY <3>1 DEF Submission, Verdicts
  <2>2. subs' \in [Users -> Seq(Submission)]
    <3>1. [subs[u] EXCEPT ![n] = [subs[u][n] EXCEPT !.status = status]] \in Seq(Submission)
      BY <2>0, <2>1
    <3>2. subs' = [subs EXCEPT ![u] = [subs[u] EXCEPT ![n] = [subs[u][n] EXCEPT !.status = status]]]
      BY <1>16 DEF Verdict
    <3> QED BY <3>1, <3>2
  <2>3. solvedAt' \in [Users -> [Problems -> Nat]]
    BY <1>16, <2>1 DEF Verdict, Submission
  <2> QED BY <1>16, <2>2, <2>3 DEF Verdict, social, class, caches, time
<1>17. CASE CountStats \/ StoreStats
  BY <1>17 DEF CountStats, StoreStats, social, class, judged, time
<1>18. CASE Tick
  BY <1>18 DEF Tick, social, class, judged
<1>19. CASE UNCHANGED vars
  BY <1>19 DEF vars, social, class, judged, caches, time
<1> QED BY <1>3, <1>4, <1>5, <1>6, <1>7, <1>8, <1>9, <1>10, <1>11, <1>12, <1>13, <1>14,
           <1>15, <1>16, <1>17, <1>18, <1>19 DEF Next

-----------------------------------------------------------------------------
(* A vote is answered together with the toggle of its row, or not at all;  *)
(* all other actions leave votes and answers alone.                        *)
LEMMA VoteStep ==
  ASSUME TypeOK, VoteInv, [Next]_vars
  PROVE  VoteInv'
<1> USE DEF VoteInv, EveryAnswerToggles, FreshUnvoted
<1>1. ASSUME UNCHANGED <<posts, votes, answered>> PROVE VoteInv'
  BY <1>1
<1>2. ASSUME NEW d \in Discussions, CreateDiscussion(d) PROVE VoteInv'
  BY <1>2 DEF CreateDiscussion, TypeOK, Post
<1>3. ASSUME NEW h \in Handlers, WriteReply(h) \/ WritePin(h) PROVE VoteInv'
  <2>1. req[h].on \in Discussions
    BY <1>3 DEF WriteReply, WritePin, At, TypeOK, Carries
  <2>2. UNCHANGED <<votes, answered>>
    BY <1>3 DEF WriteReply, WritePin
  <2>3. CASE posts' = posts
    BY <2>2, <2>3
  <2>4. CASE posts' # posts
    <3>1. posts[req[h].on].on /\ posts[req[h].on] \in Post
      BY <1>3, <2>1, <2>4 DEF WriteReply, WritePin, TypeOK
    <3>2. PICK p \in Post : p.on /\ posts' = [posts EXCEPT ![req[h].on] = p]
      <4> DEFINE r == [posts[req[h].on] EXCEPT !.replies = @ + 1]
                 q == [posts[req[h].on] EXCEPT !.pinned = ~req[h].pinned]
      <4>1. r \in Post /\ r.on
        BY <3>1, OneMore DEF Post
      <4>2. CASE WriteReply(h)
        <5>1. posts' = [posts EXCEPT ![req[h].on] = r]
          BY <2>4, <4>2 DEF WriteReply
        <5> QED BY <4>1, <5>1
      <4>3. CASE WritePin(h)
        <5>1. posts' = [posts EXCEPT ![req[h].on] = q]
          BY <2>4, <4>3 DEF WritePin
        <5>2. q \in Post /\ q.on
          BY <3>1, <4>3 DEF Post, WritePin, At, TypeOK, Carries
        <5> QED BY <5>1, <5>2
      <4> QED BY <1>3, <4>2, <4>3
    <3>3. /\ posts'[req[h].on].on
          /\ \A d \in Discussions \ {req[h].on} : posts'[d] = posts[d]
      BY <2>1, <3>2 DEF TypeOK
    <3> QED BY <2>1, <2>2, <3>1, <3>3
  <2> QED BY <2>3, <2>4
<1>4. ASSUME NEW h \in Handlers, DeleteDiscussion(h) PROVE VoteInv'
  <2>1. req[h].on \in Discussions /\ answered' = answered
    BY <1>4 DEF DeleteDiscussion, At, TypeOK, Carries
  <2>2. CASE UNCHANGED <<posts, votes>>
    BY <1>1, <2>1, <2>2
  <2>3. CASE ~UNCHANGED <<posts, votes>>
    <3>1. /\ posts' = [posts EXCEPT ![req[h].on] = [on |-> FALSE, pinned |-> FALSE, replies |-> -1]]
          /\ votes' = [u \in Users |-> [votes[u] EXCEPT ![req[h].on] = 0]]
      BY <1>4, <2>3 DEF DeleteDiscussion
    <3>2. /\ ~posts'[req[h].on].on /\ posts'[req[h].on].replies # 0
          /\ \A d \in Discussions \ {req[h].on} : posts'[d] = posts[d]
      BY <2>1, <3>1 DEF TypeOK
    <3>3. \A u \in Users, d \in Discussions \ {req[h].on} : votes'[u][d] = votes[u][d]
      BY <2>1, <3>1 DEF TypeOK
    <3> QED BY <2>1, <3>2, <3>3
  <2> QED BY <2>2, <2>3
<1>5. ASSUME NEW h \in Handlers, RemoveVote(h) \/ AddVote(h) PROVE VoteInv'
  <2>1. req[h].user \in Users /\ req[h].on \in Discussions /\ posts' = posts
    BY <1>5 DEF RemoveVote, AddVote, At, TypeOK, Carries
  <2>2. CASE UNCHANGED <<votes, answered>>
    BY <1>1, <2>1, <2>2
  <2>3. CASE ~UNCHANGED <<votes, answered>>
    <3>1. answered' = [answered EXCEPT ![req[h].user][req[h].on] = ~@]
      BY <1>5, <2>3 DEF RemoveVote, AddVote, Answer
    <3>2. PICK n \in Nat : /\ votes' = [votes EXCEPT ![req[h].user][req[h].on] = n]
                           /\ (n = 0) <=> (votes[req[h].user][req[h].on] # 0)
                           /\ n # 0 => posts[req[h].on].on
      <4>1. CASE RemoveVote(h)
        BY <2>1, <2>3, <4>1 DEF RemoveVote
      <4>2. CASE AddVote(h)
        BY <2>1, <2>3, <4>2 DEF AddVote, TypeOK
      <4> QED BY <1>5, <4>1, <4>2
    <3>3. /\ votes \in [Users -> [Discussions -> Nat]]
          /\ answered \in [Users -> [Discussions -> BOOLEAN]]
      BY DEF TypeOK
    <3>4. \A u \in Users, d \in Discussions :
            votes'[u][d] = IF u = req[h].user /\ d = req[h].on THEN n ELSE votes[u][d]
      <4>1. votes' = [votes EXCEPT ![req[h].user][req[h].on] = n]
        BY <3>2
      <4> QED BY <2>1, <3>3, <4>1
    <3>5. \A u \in Users, d \in Discussions :
            answered'[u][d] = IF u = req[h].user /\ d = req[h].on THEN ~answered[u][d]
                              ELSE answered[u][d]
      BY <2>1, <3>1, <3>3
    <3>6. ASSUME NEW u \in Users, NEW d \in Discussions
          PROVE  /\ posts[d].on => (votes'[u][d] # 0) = answered'[u][d]
                 /\ ~posts[d].on /\ posts[d].replies = 0 => votes'[u][d] = 0 /\ ~answered'[u][d]
      <4>1. answered[u][d] \in BOOLEAN
        BY <3>3
      <4>2. CASE u = req[h].user /\ d = req[h].on
        <5>1. /\ votes'[u][d] = n /\ answered'[u][d] = ~answered[u][d]
              /\ (n = 0) <=> (votes[u][d] # 0)
              /\ n # 0 => posts[d].on
          BY <3>2, <3>4, <3>5, <4>2
        <5>2. CASE posts[d].on
          <6>1. (votes[u][d] # 0) <=> answered[u][d]
            BY <4>1, <5>2
          <6>2. (votes'[u][d] # 0) <=> answered'[u][d]
            BY <5>1, <6>1
          <6> QED BY <4>1, <5>1, <5>2, <6>2
        <5>3. CASE ~posts[d].on
          BY <5>1, <5>3
        <5> QED BY <5>2, <5>3
      <4>3. CASE ~(u = req[h].user /\ d = req[h].on)
        BY <3>4, <3>5, <4>3
      <4> QED BY <4>2, <4>3
    <3> QED BY <2>1, <3>6
  <2> QED BY <2>2, <2>3
<1>6. ASSUME NEW h \in Handlers,
             \/ AddMember(h) \/ RemoveMember(h) \/ ComputeRecs(h) \/ StoreRecs(h)
      PROVE  VoteInv'
  BY <1>1, <1>6 DEF AddMember, RemoveMember, ComputeRecs, StoreRecs, social
<1>7. CASE CountStats \/ StoreStats \/ Tick \/ UNCHANGED vars
  BY <1>1, <1>7 DEF CountStats, StoreStats, Tick, vars, social
<1>8. ASSUME NEW u \in Users, NEW p \in Problems, Submit(u, p)
      PROVE  VoteInv'
  BY <1>1, <1>8 DEF Submit, social
<1>9. ASSUME NEW u \in Users, NEW n \in 1..Len(subs[u]),
             NEW status \in {"QUEUED", "ACCEPTED", "WRONG_ANSWER"}, Verdict(u, n, status)
      PROVE  VoteInv'
  BY <1>1, <1>9 DEF Verdict, social
<1>10. ASSUME NEW h \in Handlers, NEW d \in Discussions, NEW u, NEW op, NEW isReply,
              \/ FindDiscussion(h, d, op) \/ FindVote(h, u, d, isReply)
       PROVE  VoteInv'
  BY <1>1, <1>10 DEF FindDiscussion, FindVote, social
<1>11. ASSUME NEW h \in Handlers, NEW u \in Users,
              FindMember(h, u) \/ FindMemberToRemove(h, u) \/ ReadCachedRecs(h, u)
       PROVE  VoteInv'
  BY <1>1, <1>11 DEF FindMember, FindMemberToRemove, ReadCachedRecs, social
<1>12. ASSUME NEW h \in Handlers, NEW w, CreateHomework(h, w)
       PROVE  VoteInv'
  BY <1>1, <1>12 DEF CreateHomework, social
<1> HIDE DEF VoteInv, EveryAnswerToggles, FreshUnvoted
<1>13. ASSUME NEW h \in Handlers, NEW d \in Discussions,
              \/ \E op \in {"reply", "pin", "delete"} : FindDiscussion(h, d, op)
              \/ \E u \in Users, isReply \in BOOLEAN : FindVote(h, u, d, isReply)
       PROVE  VoteInv'
  BY <1>10, <1>13
<1>14. ASSUME NEW h \in Handlers,
              \/ WriteReply(h) \/ WritePin(h) \/ DeleteDiscussion(h)
              \/ RemoveVote(h) \/ AddVote(h) \/ AddMember(h) \/ RemoveMember(h)
              \/ ComputeRecs(h) \/ StoreRecs(h)
       PROVE  VoteInv'
  BY <1>3, <1>4, <1>5, <1>6, <1>14
<1>15. ASSUME NEW u \in Users,
              \/ \E p \in Problems : Submit(u, p)
              \/ \E n \in 1..Len(subs[u]), status \in {"QUEUED", "ACCEPTED", "WRONG_ANSWER"} :
                   Verdict(u, n, status)
       PROVE  VoteInv'
  BY <1>8, <1>9, <1>15
<1> QED BY <1>2, <1>7, <1>11, <1>12, <1>13, <1>14, <1>15 DEF Next

-----------------------------------------------------------------------------
(* What is solved: a problem with an accepted row.                         *)
LEMMA SolvedBy ==
  ASSUME NEW u \in Users, NEW p
  PROVE  p \in SolvedIds(u) <=>
           \E n \in DOMAIN subs[u] : subs[u][n].status = "ACCEPTED" /\ subs[u][n].problem = p
BY DEF SolvedIds, ToSet, Solves

(* The same of the next state.                                             *)
SolvedNext(u) == {s.problem : s \in {s \in ToSet(subs'[u]) : Solves(s)}}
LEMMA SolvedByNext ==
  ASSUME NEW u \in Users, NEW p
  PROVE  p \in SolvedNext(u) <=>
           \E n \in DOMAIN subs'[u] : subs'[u][n].status = "ACCEPTED" /\ subs'[u][n].problem = p
BY DEF SolvedNext, ToSet, Solves

(* A problem that comes to be solved is so since now.                      *)
Newly == \A u \in Users, p \in Problems : p \in SolvedNext(u) =>
           \/ p \in SolvedIds(u) /\ solvedAt'[u][p] = solvedAt[u][p]
           \/ solvedAt'[u][p] = now

(* A submission is queued first and so solves nothing.                     *)
LEMMA SubmitNewly ==
  ASSUME TypeOK, NEW u \in Users, NEW p \in Problems, Submit(u, p)
  PROVE  Newly
<1>1. solvedAt' = solvedAt /\ subs \in [Users -> Seq(Submission)]
  BY DEF Submit, TypeOK
<1>2. ASSUME NEW v \in Users, NEW n \in DOMAIN subs'[v], subs'[v][n].status = "ACCEPTED"
      PROVE  n \in DOMAIN subs[v] /\ subs'[v][n] = subs[v][n]
  <2>1. CASE v # u
    BY <1>1, <1>2, <2>1 DEF Submit
  <2>2. CASE v = u
    <3> DEFINE row == [problem |-> p, status |-> "QUEUED"]
    <3>1. subs'[u] = Append(subs[u], row) /\ subs[u] \in Seq(Submission) /\ row \in Submission
      BY <1>1 DEF Submit, Submission
    <3>2. n \in 1 .. Len(subs[u]) + 1
      BY <1>2, <2>2, <3>1
    <3>3. n # Len(subs[u]) + 1
      BY <1>2, <2>2, <3>1
    <3> QED BY <2>2, <3>1, <3>2, <3>3
  <2> QED BY <2>1, <2>2
<1> QED BY <1>1, <1>2, SolvedBy, SolvedByNext DEF Newly

(* A verdict changes one row; a problem it solves for the first time is    *)
(* solved now, and no problem is solved by taking a verdict back.          *)
LEMMA VerdictNewly ==
  ASSUME TypeOK, NEW u \in Users, NEW n \in 1..Len(subs[u]),
         NEW status \in {"QUEUED", "ACCEPTED", "WRONG_ANSWER"}, Verdict(u, n, status)
  PROVE  Newly
<1> DEFINE q == subs[u][n].problem
<1>1. /\ subs \in [Users -> Seq(Submission)] /\ solvedAt \in [Users -> [Problems -> Nat]]
      /\ q \in Problems
  <2>1. subs[u] \in Seq(Submission)
    BY DEF TypeOK
  <2>2. subs[u][n] \in Submission
    BY <2>1
  <2>3. q \in Problems
    BY <2>2 DEF Submission
  <2> QED BY <2>3 DEF TypeOK
<1>2. subs' = [subs EXCEPT ![u] = [subs[u] EXCEPT ![n] = [subs[u][n] EXCEPT !.status = status]]]
  BY DEF Verdict
<1>3. ASSUME NEW v \in Users, NEW m \in DOMAIN subs'[v]
      PROVE  /\ m \in DOMAIN subs[v] /\ subs'[v][m].problem = subs[v][m].problem
             /\ ~(v = u /\ m = n) => subs'[v][m] = subs[v][m]
             /\ v = u /\ m = n => subs'[v][m].status = status
  <2>1. CASE v # u
    BY <1>1, <1>2, <2>1
  <2>2. CASE v = u
    <3>1. subs'[u] = [subs[u] EXCEPT ![n] = [subs[u][n] EXCEPT !.status = status]]
      BY <1>1, <1>2
    <3>2. subs[u] \in Seq(Submission) /\ subs[u][n] \in Submission
      BY <1>1
    <3>3. [subs[u][n] EXCEPT !.status = status].problem = q
          /\ [subs[u][n] EXCEPT !.status = status].status = status
      BY <3>2 DEF Submission
    <3> QED BY <2>2, <3>1, <3>2, <3>3
  <2> QED BY <2>1, <2>2
<1>4. \/ solvedAt' = solvedAt /\ (status = "ACCEPTED" => q \in SolvedIds(u))
      \/ solvedAt' = [solvedAt EXCEPT ![u][q] = now]
  BY DEF Verdict
<1>5. ASSUME NEW v \in Users, NEW p \in Problems, p \in SolvedNext(v)
      PROVE  \/ p \in SolvedIds(v) /\ solvedAt'[v][p] = solvedAt[v][p]
             \/ solvedAt'[v][p] = now
  <2>1. PICK m \in DOMAIN subs'[v] : subs'[v][m].status = "ACCEPTED" /\ subs'[v][m].problem = p
    BY <1>5, SolvedByNext
  <2>2. CASE v = u /\ m = n
    BY <1>1, <1>3, <1>4, <2>1, <2>2
  <2>3. CASE ~(v = u /\ m = n)
    <3>1. p \in SolvedIds(v)
      BY <1>3, <2>1, <2>3, SolvedBy
    <3>2. solvedAt'[v][p] = solvedAt[v][p] \/ solvedAt'[v][p] = now
      <4>1. CASE solvedAt' = solvedAt
        BY <4>1
      <4>2. CASE solvedAt' = [solvedAt EXCEPT ![u][q] = now]
        <5> HIDE DEF q
        <5> QED BY <1>1, <4>2
      <4> QED BY <1>4, <4>1, <4>2
    <3> QED BY <3>1, <3>2
  <2> QED BY <2>2, <2>3
<1> QED BY <1>5 DEF Newly

-----------------------------------------------------------------------------
(* What RecsInv says of the next state.                                    *)
SinceNext(u, list, t) ==
  \A p \in Problems : p \in list /\ p \in SolvedNext(u) => solvedAt'[u][p] >= t
TimesNext(entry) ==
  entry.till \in Int /\ entry.took \in Nat /\ entry.till - TTL - entry.took <= now'
StaysSince(u, entry) == TimesNext(entry) /\ SinceNext(u, entry.value, Computed(entry))
StaysCarried(q) ==
  q.at \in Nat /\ q.at <= now' /\ SinceNext(q.user, q.list, q.at)
CachedSince == \A u \in Users : recs'[u].on => StaysSince(u, recs'[u])
CarriedSince == \A h \in Handlers : req'[h].pc = "store" => StaysCarried(req'[h])
LEMMA RecsNext == CachedSince /\ CarriedSince => RecsInv'
BY DEF CachedSince, CarriedSince, StaysSince, StaysCarried, RecsInv, Times, TimesNext, Computed,
       Since, SinceNext, SolvedIds, SolvedNext, At

(* What was unsolved at some time stays so, up to what is solved now.      *)
LEMMA SinceStep ==
  ASSUME TypeOK, Newly, NEW u \in Users, NEW list, NEW t \in Int, t <= now, Since(u, list, t)
  PROVE  SinceNext(u, list, t)
<1> SUFFICES ASSUME NEW p \in Problems, p \in list, p \in SolvedNext(u)
             PROVE  solvedAt'[u][p] >= t
  BY DEF SinceNext
<1>1. CASE solvedAt'[u][p] = now
  BY <1>1 DEF TypeOK
<1>2. CASE p \in SolvedIds(u) /\ solvedAt'[u][p] = solvedAt[u][p]
  BY <1>2 DEF Since
<1> QED BY <1>1, <1>2 DEF Newly

(* Submissions that are left alone are those of before.                    *)
LEMMA NothingNew ==
  ASSUME UNCHANGED <<subs, solvedAt>> PROVE Newly
BY DEF Newly, SolvedIds, SolvedNext

(* The lists cached before a step, and those requests had computed, are as *)
(* recent after it, whatever is submitted and judged and also when time    *)
(* passes.                                                                 *)
LEMMA RecsKept ==
  ASSUME TypeOK, RecsInv, Newly, now' \in Nat, now <= now'
  PROVE  /\ \A u \in Users : recs[u].on => StaysSince(u, recs[u])
         /\ \A h \in Handlers : req[h].pc = "store" => StaysCarried(req[h])
<1>0. now \in Nat /\ TTL \in Nat
  BY CampusAssumption DEF TypeOK
<1>1. ASSUME NEW u \in Users, recs[u].on PROVE StaysSince(u, recs[u])
  <2>1. Times(recs[u]) /\ Since(u, recs[u].value, Computed(recs[u]))
    BY <1>1 DEF RecsInv
  <2>2. Computed(recs[u]) \in Int /\ Computed(recs[u]) <= now
    BY <1>0, <2>1 DEF Times, Computed
  <2>3. SinceNext(u, recs[u].value, Computed(recs[u]))
    BY <2>1, <2>2, SinceStep
  <2>4. TimesNext(recs[u])
    BY <1>0, <2>1 DEF Times, TimesNext
  <2> QED BY <2>3, <2>4 DEF StaysSince
<1>2. ASSUME NEW h \in Handlers, req[h].pc = "store" PROVE StaysCarried(req[h])
  <2>1. req[h].user \in Users
    BY <1>2 DEF TypeOK, Carries
  <2>2. req[h].at \in Nat /\ req[h].at <= now /\ Since(req[h].user, req[h].list, req[h].at)
    BY <1>2 DEF RecsInv, At
  <2>3. SinceNext(req[h].user, req[h].list, req[h].at)
    BY <2>1, <2>2, SinceStep
  <2> QED BY <1>0, <2>2, <2>3 DEF StaysCarried
<1> QED BY <1>1, <1>2

(* A list is stored with what was unsolved when it was computed; it is     *)
(* gone from the cache an hour later.                                      *)
LEMMA RecsStep ==
  ASSUME TypeOK, RecsInv, [Next]_vars
  PROVE  RecsInv'
<1>0. TTL \in Nat /\ TTL > 0 /\ now \in Nat
  BY CampusAssumption DEF TypeOK
<1>1. ASSUME Newly, UNCHANGED <<recs, now>>,
             \A h \in Handlers : req'[h].pc = "store" => req'[h] = req[h]
      PROVE  RecsInv'
  <2>1. CachedSince
    BY <1>0, <1>1, RecsKept DEF CachedSince
  <2>2. CarriedSince
    BY <1>0, <1>1, RecsKept DEF CarriedSince
  <2> QED BY <2>1, <2>2, RecsNext
<1>2. ASSUME NEW h \in Handlers, NEW q, q.pc # "store", req' = [req EXCEPT ![h] = q]
      PROVE  \A x \in Handlers : req'[x].pc = "store" => req'[x] = req[x]
  BY <1>2 DEF TypeOK
<1>3. ASSUME NEW h \in Handlers, Finish(h)
      PROVE  \A x \in Handlers : req'[x].pc = "store" => req'[x] = req[x]
  BY <1>2, <1>3 DEF Finish
<1>4. ASSUME NEW h \in Handlers, NEW d \in Discussions, NEW op \in {"reply", "pin", "delete"},
             FindDiscussion(h, d, op)
      PROVE  RecsInv'
  <2> DEFINE q == IF ~posts[d].on THEN [pc |-> "done"]
                  ELSE IF op = "pin" THEN [pc |-> op, on |-> d, pinned |-> posts[d].pinned]
                  ELSE [pc |-> op, on |-> d]
  <2>1. q.pc # "store"
    OBVIOUS
  <2>2. req' = [req EXCEPT ![h] = q]
    BY <1>4 DEF FindDiscussion, Begin
  <2> HIDE DEF q
  <2> QED BY <1>1, <1>2, <1>4, <2>1, <2>2, NothingNew DEF FindDiscussion, judged, caches, time
<1>5. ASSUME NEW h \in Handlers, NEW d \in Discussions, NEW u \in Users, NEW isReply \in BOOLEAN,
             FindVote(h, u, d, isReply)
      PROVE  RecsInv'
  <2> DEFINE q == IF isReply THEN [pc |-> "done"]
                  ELSE [pc |-> "vote", user |-> u, on |-> d, found |-> votes[u][d]]
  <2>1. q.pc # "store"
    OBVIOUS
  <2>2. req' = [req EXCEPT ![h] = q]
    BY <1>5 DEF FindVote, Begin
  <2> HIDE DEF q
  <2> QED BY <1>1, <1>2, <1>5, <2>1, <2>2, NothingNew DEF FindVote, judged, caches, time
<1>6. ASSUME NEW h \in Handlers, NEW u \in Users,
             FindMember(h, u) \/ FindMemberToRemove(h, u) \/ ReadCachedRecs(h, u)
      PROVE  RecsInv'
  <2>1. \E q : q.pc # "store" /\ req' = [req EXCEPT ![h] = q]
    <3>1. /\ [pc |-> "done"].pc # "store"
          /\ \A pc \in {"join", "remove", "compute"} : [pc |-> pc, user |-> u].pc # "store"
      OBVIOUS
    <3> QED BY <1>6, <3>1 DEF FindMember, FindMemberToRemove, ReadCachedRecs, Begin
  <2>2. UNCHANGED <<recs, subs, solvedAt, now>>
    BY <1>6 DEF FindMember, FindMemberToRemove, ReadCachedRecs, judged, caches, time
  <2> QED BY <1>1, <1>2, <2>1, <2>2, NothingNew
<1>7. ASSUME NEW h \in Handlers, NEW w \in SUBSET bound.problems, CreateHomework(h, w)
      PROVE  RecsInv'
  <2>1. req' = [req EXCEPT ![h] = [pc |-> "done"]] /\ UNCHANGED <<recs, subs, solvedAt, now>>
    BY <1>7 DEF CreateHomework, Begin, judged, caches, time
  <2> QED BY <1>1, <1>2, <2>1, NothingNew
<1>8. ASSUME NEW h \in Handlers,
             \/ WriteReply(h) \/ WritePin(h) \/ DeleteDiscussion(h)
             \/ RemoveVote(h) \/ AddVote(h) \/ AddMember(h) \/ RemoveMember(h)
      PROVE  RecsInv'
  <2>1. Finish(h)
    BY <1>8 DEF WriteReply, WritePin, DeleteDiscussion, RemoveVote, AddVote, AddMember,
                RemoveMember, Answer
  <2>2. UNCHANGED <<recs, subs, solvedAt, now>>
    BY <1>8 DEF WriteReply, WritePin, DeleteDiscussion, RemoveVote, AddVote, AddMember,
                RemoveMember, judged, caches, time
  <2> QED BY <1>1, <1>3, <2>1, <2>2, NothingNew
<1>9. ASSUME (\E d \in Discussions : CreateDiscussion(d)) \/ CountStats \/ StoreStats \/ UNCHANGED vars
      PROVE  RecsInv'
  <2>1. UNCHANGED <<recs, subs, solvedAt, now, req>>
    BY <1>9 DEF CreateDiscussion, CountStats, StoreStats, vars, judged, caches, time
  <2> QED BY <1>1, <2>1, NothingNew
<1>10. ASSUME NEW h \in Handlers, ComputeRecs(h)
       PROVE  RecsInv'
  <2>1. PICK list \in SUBSET (bound.problems \ SolvedIds(req[h].user)) :
          req' = [req EXCEPT ![h] =
                    [pc |-> "store", user |-> req[h].user, list |-> list, at |-> now]]
    BY <1>10 DEF ComputeRecs
  <2>2. UNCHANGED <<recs, subs, solvedAt, now>>
    BY <1>10 DEF ComputeRecs, judged, caches, time
  <2>3. CachedSince
    BY <1>0, <2>2, NothingNew, RecsKept DEF CachedSince
  <2>4. CarriedSince
    <3>1. req'[h].user = req[h].user /\ req'[h].list = list /\ req'[h].at = now
      BY <2>1 DEF TypeOK
    <3>2. SinceNext(req'[h].user, req'[h].list, req'[h].at)
      BY <2>1, <2>2, <3>1 DEF SinceNext, SolvedNext, SolvedIds
    <3>3. StaysCarried(req'[h])
      BY <1>0, <2>2, <3>1, <3>2 DEF StaysCarried
    <3>4. \A x \in Handlers \ {h} : req'[x] = req[x]
      BY <2>1 DEF TypeOK
    <3> QED BY <1>0, <2>2, <3>3, <3>4, NothingNew, RecsKept DEF CarriedSince
  <2> QED BY <2>3, <2>4, RecsNext
<1>11. ASSUME NEW h \in Handlers, StoreRecs(h)
       PROVE  RecsInv'
  <2>1. UNCHANGED <<subs, solvedAt, now>> /\ Finish(h) /\ req[h].user \in Users
    BY <1>11 DEF StoreRecs, At, TypeOK, Carries, judged, time
  <2>2. CASE UNCHANGED recs
    BY <1>1, <1>3, <2>1, <2>2, NothingNew
  <2>3. CASE recs' = [recs EXCEPT ![req[h].user] = Cached(req[h].list, req[h].at)]
    <3> DEFINE u == req[h].user
               t == req[h].at
    <3>1. recs'[u] = [on |-> TRUE, value |-> req[h].list, till |-> now + TTL, took |-> now - t]
      BY <2>1, <2>3 DEF Cached, TypeOK
    <3>2. t \in Nat /\ t <= now /\ SinceNext(u, req[h].list, t)
      <4>1. StaysCarried(req[h])
        BY <1>0, <1>11, <2>1, NothingNew, RecsKept DEF StoreRecs, At
      <4> QED BY <2>1, <4>1 DEF StaysCarried
    <3>3. StaysSince(u, recs'[u])
      <4> HIDE DEF t
      <4>1. /\ recs'[u].till = now + TTL /\ recs'[u].took = now - t
            /\ recs'[u].value = req[h].list
        BY <3>1
      <4>2. recs'[u].till - TTL - recs'[u].took = t
        BY <1>0, <3>2, <4>1
      <4>3. TimesNext(recs'[u])
        BY <1>0, <2>1, <3>2, <4>1, <4>2 DEF TimesNext
      <4> QED BY <3>2, <4>1, <4>2, <4>3 DEF StaysSince, Computed
    <3>4. \A v \in Users \ {u} : recs'[v] = recs[v]
      BY <2>3 DEF TypeOK
    <3>5. CachedSince
      BY <1>0, <2>1, <3>3, <3>4, NothingNew, RecsKept DEF CachedSince
    <3>6. CarriedSince
      BY <1>0, <1>3, <2>1, NothingNew, RecsKept DEF CarriedSince
    <3> QED BY <3>5, <3>6, RecsNext
  <2> QED BY <1>11, <2>2, <2>3 DEF StoreRecs
<1>12. CASE Tick
  <2>1. /\ UNCHANGED <<subs, solvedAt, req>> /\ now' = now + 1
        /\ recs' = [u \in Users |-> IF recs[u].on /\ recs[u].till <= now + 1 THEN None ELSE recs[u]]
    BY <1>12 DEF Tick, judged
  <2>2. now' \in Nat /\ now <= now'
    BY <1>0, <2>1
  <2>3. \A u \in Users : recs'[u].on => recs'[u] = recs[u]
    BY <2>1 DEF None
  <2>4. CachedSince
    BY <2>1, <2>2, <2>3, NothingNew, RecsKept DEF CachedSince
  <2>5. CarriedSince
    BY <2>1, <2>2, NothingNew, RecsKept DEF CarriedSince
  <2> QED BY <2>4, <2>5, RecsNext
<1>13. ASSUME NEW u \in Users, NEW p \in Problems, Submit(u, p) PROVE RecsInv'
  BY <1>1, <1>13, SubmitNewly DEF Submit, caches, time
<1>14. ASSUME NEW u \in Users, NEW n \in 1..Len(subs[u]),
              NEW status \in {"QUEUED", "ACCEPTED", "WRONG_ANSWER"}, Verdict(u, n, status)
       PROVE  RecsInv'
  BY <1>1, <1>14, VerdictNewly DEF Verdict, caches, time
<1> QED BY <1>4, <1>5, <1>6, <1>7, <1>8, <1>9, <1>10, <1>11, <1>12, <1>13, <1>14 DEF Next

-----------------------------------------------------------------------------
(* Submissions are only ever added, and one that is added is the last.     *)
LEMMA TotalStep ==
  ASSUME TypeOK, [Next]_vars
  PROVE  /\ Total \in Nat /\ Total' \in Nat /\ Total <= Total'
         /\ \/ Total' = Total /\ lastAt' = lastAt
            \/ lastAt' = now
<1>0. Total \in Nat /\ IsFiniteSet(Submitted)
  BY SubmittedFinite
<1>1. ASSUME bound' = bound, \A u \in Users : Len(subs'[u]) = Len(subs[u]), lastAt' = lastAt
      PROVE  Total' = Total /\ lastAt' = lastAt
  <2>1. Submitted' = Submitted
    BY <1>1 DEF Submitted
  <2> QED BY <1>1, <2>1 DEF Total
<1>2. ASSUME NEW u \in Users, NEW p \in Problems, Submit(u, p)
      PROVE  Total' \in Nat /\ Total <= Total' /\ lastAt' = now
  <2>1. bound' = bound /\ lastAt' = now
    BY <1>2 DEF Submit, time
  <2>2. IsFiniteSet(Submitted')
    <3>1. bound.submissions \in Nat
      BY CampusAssumption DEF TypeOK
    <3>2. IsFiniteSet(1..bound.submissions) /\ IsFiniteSet(Users)
      BY <3>1, FS_Interval, CampusAssumption
    <3>3. IsFiniteSet(Users \X (1..bound.submissions))
      BY <3>2, FS_Product
    <3>4. Submitted' \subseteq Users \X (1..bound.submissions)
      BY <2>1 DEF Submitted
    <3> QED BY <3>3, <3>4, FS_Subset
  <2>3. \A v \in Users : Len(subs[v]) \in Nat /\ Len(subs'[v]) \in Nat /\ Len(subs[v]) <= Len(subs'[v])
    <3>1. ASSUME NEW v \in Users
          PROVE  Len(subs[v]) \in Nat /\ Len(subs'[v]) \in Nat /\ Len(subs[v]) <= Len(subs'[v])
      <4> DEFINE row == [problem |-> p, status |-> "QUEUED"]
      <4>1. subs[v] \in Seq(Submission) /\ row \in Submission
        BY DEF TypeOK, Submission
      <4>2. subs'[v] = subs[v] \/ subs'[v] = Append(subs[v], row)
        BY <1>2 DEF Submit, TypeOK
      <4>3. Len(Append(subs[v], row)) = Len(subs[v]) + 1
        BY <4>1
      <4> QED BY <4>1, <4>2, <4>3
    <3> QED BY <3>1
  <2>4. Submitted \subseteq Submitted'
    <3>1. ASSUME NEW x \in Submitted PROVE x \in Submitted'
      <4>1. x \in Users \X (1..bound.submissions) /\ x[2] <= Len(subs[x[1]])
        BY DEF Submitted
      <4>2. bound.submissions \in Nat
        BY CampusAssumption DEF TypeOK
      <4>3. x[1] \in Users /\ x[2] \in Nat
        BY <4>1, <4>2
      <4>4. x[2] <= Len(subs'[x[1]])
        BY <2>3, <4>1, <4>3
      <4> QED BY <2>1, <4>1, <4>4 DEF Submitted
    <3> QED BY <3>1
  <2>5. Cardinality(Submitted') \in Nat /\ Cardinality(Submitted) <= Cardinality(Submitted')
    BY <2>2, <2>4, FS_Subset, FS_CardinalityType
  <2> QED BY <2>1, <2>5 DEF Total
<1>3. ASSUME NEW u \in Users, NEW n \in 1..Len(subs[u]),
             NEW status \in {"QUEUED", "ACCEPTED", "WRONG_ANSWER"}, Verdict(u, n, status)
      PROVE  Total' = Total /\ lastAt' = lastAt
  <2>1. subs' = [subs EXCEPT ![u] = [subs[u] EXCEPT ![n] = [subs[u][n] EXCEPT !.status = status]]]
    BY <1>3 DEF Verdict
  <2>2. subs \in [Users -> Seq(Submission)]
    BY DEF TypeOK
  <2>3. ASSUME NEW v \in Users PROVE Len(subs'[v]) = Len(subs[v])
    <3>1. CASE v # u
      BY <2>1, <2>2, <3>1
    <3>2. CASE v = u
      <4>1. subs[u] \in Seq(Submission)
        BY <2>2
      <4>2. Len([subs[u] EXCEPT ![n] = [subs[u][n] EXCEPT !.status = status]]) = Len(subs[u])
        BY <4>1
      <4> QED BY <2>1, <2>2, <3>2, <4>2
    <3> QED BY <3>1, <3>2
  <2> QED BY <1>1, <1>3, <2>3 DEF Verdict, time
<1>4. ASSUME UNCHANGED <<bound, subs, lastAt>> PROVE Total' = Total /\ lastAt' = lastAt
  BY <1>1, <1>4
<1>5. ASSUME NEW h \in Handlers, NEW d \in Discussions,
             \/ \E op \in {"reply", "pin", "delete"} : FindDiscussion(h, d, op)
             \/ \E u \in Users, isReply \in BOOLEAN : FindVote(h, u, d, isReply)
      PROVE  UNCHANGED <<bound, subs, lastAt>>
  BY <1>5 DEF FindDiscussion, FindVote, judged, time
<1>6. ASSUME NEW h \in Handlers, NEW u \in Users,
             FindMember(h, u) \/ FindMemberToRemove(h, u) \/ ReadCachedRecs(h, u)
      PROVE  UNCHANGED <<bound, subs, lastAt>>
  BY <1>6 DEF FindMember, FindMemberToRemove, ReadCachedRecs, judged, time
<1>7. ASSUME NEW h \in Handlers, NEW w, CreateHomework(h, w)
      PROVE  UNCHANGED <<bound, subs, lastAt>>
  BY <1>7 DEF CreateHomework, judged, time
<1>8. ASSUME NEW h \in Handlers,
             \/ WriteReply(h) \/ WritePin(h) \/ DeleteDiscussion(h) \/ RemoveVote(h) \/ AddVote(h)
             \/ AddMember(h) \/ RemoveMember(h) \/ ComputeRecs(h) \/ StoreRecs(h)
      PROVE  UNCHANGED <<bound, subs, lastAt>>
  BY <1>8 DEF WriteReply, WritePin, DeleteDiscussion, RemoveVote, AddVote, AddMember,
              RemoveMember, ComputeRecs, StoreRecs, judged, time
<1>9. ASSUME \/ \E d \in Discussions : CreateDiscussion(d)
             \/ CountStats \/ StoreStats \/ Tick \/ UNCHANGED vars
      PROVE  UNCHANGED <<bound, subs, lastAt>>
  BY <1>9 DEF CreateDiscussion, CountStats, StoreStats, Tick, vars, judged, time
<1>10. \/ UNCHANGED <<bound, subs, lastAt>>
       \/ \E u \in Users, p \in Problems : Submit(u, p)
       \/ \E u \in Users : \E n \in 1..Len(subs[u]), status \in {"QUEUED", "ACCEPTED", "WRONG_ANSWER"} :
            Verdict(u, n, status)
  BY <1>5, <1>6, <1>7, <1>8, <1>9 DEF Next
<1> QED BY <1>0, <1>2, <1>3, <1>4, <1>10

(* What counted all submissions of some time misses only later ones.       *)
CountedNext(total, t) ==
  total \in Nat /\ total <= Total' /\ (total < Total' => lastAt' >= t)
LEMMA CountedStep ==
  ASSUME TypeOK, [Next]_vars, NEW total, NEW t \in Int, t <= now, Counted(total, t)
  PROVE  CountedNext(total, t)
<1>1. total \in Nat /\ total <= Total /\ (total < Total => lastAt >= t) /\ now \in Nat
  BY DEF Counted, TypeOK
<1>2. CASE Total' = Total /\ lastAt' = lastAt
  BY <1>1, <1>2 DEF CountedNext
<1>3. CASE lastAt' = now
  BY <1>1, <1>3, TotalStep DEF CountedNext
<1> QED BY <1>2, <1>3, TotalStep

(* What the aggregation counted is stored with the time it was counted at. *)
LEMMA StatsStep ==
  ASSUME TypeOK, StatsInv, [Next]_vars
  PROVE  StatsInv'
<1> DEFINE CronNext == cron'.on /\ cron'.counted =>
                         cron'.at \in Nat /\ cron'.at <= now' /\ CountedNext(cron'.total, cron'.at)
           StatsNext == stats'.on => TimesNext(stats') /\ CountedNext(stats'.value, Computed(stats'))
<1>0. TTL \in Nat /\ TTL > 0 /\ now \in Nat
  BY CampusAssumption DEF TypeOK
<1>1. SUFFICES CronNext /\ StatsNext
  BY DEF StatsInv, Times, TimesNext, Computed, Counted, CountedNext
<1>2. ASSUME cron' = cron, now' = now \/ now' = now + 1 PROVE CronNext
  BY <1>0, <1>2, CountedStep DEF StatsInv
<1>3. ASSUME stats' = stats, now' = now \/ now' = now + 1 PROVE StatsNext
  <2> SUFFICES ASSUME stats.on
               PROVE  TimesNext(stats) /\ CountedNext(stats.value, Computed(stats))
    BY <1>3
  <2>1. Times(stats) /\ Counted(stats.value, Computed(stats))
    BY DEF StatsInv
  <2>2. Computed(stats) \in Int /\ Computed(stats) <= now
    BY <1>0, <2>1 DEF Times, Computed
  <2>3. TimesNext(stats)
    BY <1>0, <1>3, <2>1 DEF Times, TimesNext
  <2> QED BY <2>1, <2>2, <2>3, CountedStep
<1>4. CASE CountStats
  <2>1. cron'.total = Total /\ cron'.at = now /\ UNCHANGED <<subs, bound, lastAt, stats, now>>
    BY <1>4 DEF CountStats, judged, time
  <2>2. CountedNext(cron'.total, cron'.at)
    <3>1. Counted(Total, now)
      BY SubmittedFinite DEF Counted
    <3>2. CountedNext(Total, now)
      BY <1>0, <3>1, CountedStep
    <3> QED BY <2>1, <3>2
  <2> QED BY <1>0, <1>3, <2>1, <2>2
<1>5. CASE StoreStats
  <2>1. cron.on /\ cron.counted /\ ~cron'.on /\ now' = now
    BY <1>5 DEF StoreStats, None, time
  <2>2. CASE stats' = stats
    BY <1>3, <2>1, <2>2
  <2>3. CASE stats' = Cached(cron.total, cron.at)
    <3> DEFINE t == cron.at
    <3>1. t \in Nat /\ t <= now /\ CountedNext(cron.total, t)
      BY <1>0, <2>1, CountedStep DEF StatsInv
    <3> HIDE DEF t
    <3>2. stats'.value = cron.total /\ stats'.till = now + TTL /\ stats'.took = now - t
      BY <2>3 DEF Cached, t
    <3>3. stats'.till - TTL - stats'.took = t
      BY <1>0, <3>1, <3>2
    <3>4. TimesNext(stats')
      BY <1>0, <2>1, <3>1, <3>2, <3>3 DEF TimesNext
    <3> QED BY <2>1, <3>1, <3>2, <3>3, <3>4 DEF Computed
  <2> QED BY <1>5, <2>2, <2>3 DEF StoreStats
<1>6. CASE Tick
  <2>1. ~(cron'.on /\ cron'.counted) \/ cron' = cron
    BY <1>6 DEF Tick
  <2>2. now' = now + 1 /\ (stats' = stats \/ ~stats'.on)
    BY <1>6 DEF Tick, None
  <2>3. CronNext
    BY <1>2, <2>1, <2>2
  <2>4. StatsNext
    BY <1>3, <2>2
  <2> QED BY <2>3, <2>4
<1>7. ASSUME UNCHANGED <<cron, stats, now>> PROVE CronNext /\ StatsNext
  BY <1>2, <1>3, <1>7
<1>8. ASSUME NEW h \in Handlers, NEW d \in Discussions,
             \/ \E op \in {"reply", "pin", "delete"} : FindDiscussion(h, d, op)
             \/ \E u \in Users, isReply \in BOOLEAN : FindVote(h, u, d, isReply)
      PROVE  UNCHANGED <<cron, stats, now>>
  BY <1>8 DEF FindDiscussion, FindVote, caches, time
<1>9. ASSUME NEW h \in Handlers, NEW u \in Users,
             FindMember(h, u) \/ FindMemberToRemove(h, u) \/ ReadCachedRecs(h, u)
      PROVE  UNCHANGED <<cron, stats, now>>
  BY <1>9 DEF FindMember, FindMemberToRemove, ReadCachedRecs, caches, time
<1>10. ASSUME NEW h \in Handlers, NEW w, CreateHomework(h, w)
       PROVE  UNCHANGED <<cron, stats, now>>
  BY <1>10 DEF CreateHomework, caches, time
<1>11. ASSUME NEW h \in Handlers,
              \/ WriteReply(h) \/ WritePin(h) \/ DeleteDiscussion(h) \/ RemoveVote(h) \/ AddVote(h)
              \/ AddMember(h) \/ RemoveMember(h) \/ ComputeRecs(h) \/ StoreRecs(h)
       PROVE  UNCHANGED <<cron, stats, now>>
  BY <1>11 DEF WriteReply, WritePin, DeleteDiscussion, RemoveVote, AddVote, AddMember,
               RemoveMember, ComputeRecs, StoreRecs, caches, time
<1>12. ASSUME (\E d \in Discussions : CreateDiscussion(d)) \/ UNCHANGED vars
       PROVE  UNCHANGED <<cron, stats, now>>
  BY <1>12 DEF CreateDiscussion, vars, caches, time
<1>13. ASSUME NEW u \in Users,
              \/ \E p \in Problems : Submit(u, p)
              \/ \E n \in 1..Len(subs[u]), status \in {"QUEUED", "ACCEPTED", "WRONG_ANSWER"} :
                   Verdict(u, n, status)
       PROVE  UNCHANGED <<cron, stats, now>>
  BY <1>13 DEF Submit, Verdict, caches, time
<1>14. UNCHANGED <<cron, stats, now>> \/ CountStats \/ StoreStats \/ Tick
  BY <1>8, <1>9, <1>10, <1>11, <1>12, <1>13 DEF Next
<1> QED BY <1>4, <1>5, <1>6, <1>7, <1>14

-----------------------------------------------------------------------------
(* Inv is inductive.                                                       *)
LEMMA Inductive == Inv /\ [Next]_vars => Inv'
BY TypeStep, VoteStep, RecsStep, StatsStep DEF Inv

(* Every vote that is answered has toggled the row of its user, however    *)
(* many requests of vote, pin and remove overlap: EveryAnswerToggles.      *)
THEOREM VotesToggle == Spec => []EveryAnswerToggles
<1>1. Inv => EveryAnswerToggles
  BY DEF Inv, VoteInv
<1> QED BY <1>1, InvInit, Inductive, PTL DEF Spec

(* Inv says of every entry that is served when it was computed.            *)
LEMMA RecentEnough == Inv => ServedIsRecent
<1> SUFFICES ASSUME Inv PROVE ServedIsRecent
  OBVIOUS
<1>0. TTL \in Nat /\ now \in Nat /\ lastAt \in Nat /\ Total \in Nat /\ TTL > 0
  BY CampusAssumption, SubmittedFinite DEF Inv, TypeOK
<1>1. ASSUME NEW u \in Users, Live(recs[u]), NEW p \in recs[u].value \intersect SolvedIds(u)
      PROVE  now - solvedAt[u][p] < TTL + recs[u].took
  <2>1. p \in Problems
    <3>1. PICK n \in DOMAIN subs[u] : subs[u][n].problem = p
      BY <1>1, SolvedBy
    <3>2. subs[u] \in Seq(Submission)
      BY DEF Inv, TypeOK
    <3>3. subs[u][n] \in Submission
      BY <3>1, <3>2
    <3> QED BY <3>1, <3>3 DEF Submission
  <2>2. solvedAt[u][p] \in Nat
    BY <2>1 DEF Inv, TypeOK
  <2>3. /\ recs[u].till \in Int /\ recs[u].took \in Nat /\ now < recs[u].till
        /\ solvedAt[u][p] >= recs[u].till - TTL - recs[u].took
    BY <1>1, <2>1 DEF Inv, RecsInv, Times, Computed, Since, Live
  <2> QED BY <1>0, <2>2, <2>3
<1>2. ServedTotal <= Total /\ (ServedTotal < Total => now - lastAt < TTL + stats.took)
  <2>1. CASE Live(stats)
    <3>1. /\ stats.till \in Int /\ stats.took \in Nat /\ now < stats.till
          /\ stats.value \in Nat /\ stats.value <= Total
          /\ stats.value < Total => lastAt >= stats.till - TTL - stats.took
      BY <2>1 DEF Inv, StatsInv, Times, Computed, Counted, Live
    <3> QED BY <1>0, <2>1, <3>1 DEF ServedTotal
  <2>2. CASE ~Live(stats)
    BY <1>0, <2>2 DEF ServedTotal
  <2> QED BY <2>1, <2>2
<1> QED BY <1>1, <1>2 DEF ServedIsRecent

(* What is served from a cache was true an hour ago, or the hour and what  *)
(* its storing took, whatever is submitted and rejudged meanwhile:         *)
(* recommendations and platform totals.                                    *)
THEOREM CachesAreRecent == Spec => []ServedIsRecent
BY InvInit, Inductive, RecentEnough, PTL DEF Spec

-----------------------------------------------------------------------------
(* A loop over n submissions. What holds of 0 and passes from one number   *)
(* to the next holds of all: a least number without it has no predecessor. *)
Less == {x \in Nat \X Nat : x[1] < x[2]}

LEMMA AllNumbers ==
  ASSUME NEW N \in Nat, NEW T \in SUBSET (0..N), 0 \in T,
         \A n \in 1..N : n - 1 \in T => n \in T
  PROVE  T = 0..N
<1> SUFFICES ASSUME (0..N) \ T # {} PROVE FALSE
  OBVIOUS
<1>1. OpToRel(<, Nat) = Less
  BY DEF OpToRel, Less
<1>2. IsWellFoundedOn(Less, Nat)
  BY <1>1, NatLessThanWellFounded
<1>3. PICK n \in (0..N) \ T : \A m \in (0..N) \ T : ~(<<m, n>> \in Less)
  <2>1. (0..N) \ T \in SUBSET Nat
    OBVIOUS
  <2> QED BY <1>2, <2>1, WFMin
<1>4. n \in Nat /\ n # 0 /\ n \in 0..N
  BY <1>3
<1>5. n - 1 \in 0..N /\ n \in 1..N /\ n - 1 \in Nat /\ n - 1 < n
  BY <1>4
<1>6. n - 1 \notin T
  BY <1>3, <1>5
<1>7. <<n - 1, n>> \in Less
  <2>1. <<n - 1, n>> \in Nat \X Nat /\ <<n - 1, n>>[1] < <<n - 1, n>>[2]
    BY <1>4, <1>5
  <2> QED BY <2>1 DEF Less
<1> QED BY <1>3, <1>5, <1>6, <1>7

(* A loop from a on, whose n-th round takes x to f[n][x], has its values.  *)
Loop(g, N, a, f) == g[0] = a /\ \A n \in 1..N : g[n] = f[n][g[n - 1]]

LEMMA LoopExists ==
  ASSUME NEW N \in Nat, NEW S, NEW a \in S, NEW f, \A n \in 1..N : \A x \in S : f[n][x] \in S
  PROVE  \E g \in [0..N -> S] : Loop(g, N, a, f)
<1> DEFINE T == {k \in 0..N : \E g \in [0..k -> S] : Loop(g, k, a, f)}
<1>1. 0 \in T
  <2>1. [n \in 0..0 |-> a] \in [0..0 -> S] /\ Loop([n \in 0..0 |-> a], 0, a, f)
    BY DEF Loop
  <2> QED BY <2>1
<1>2. ASSUME NEW k \in 1..N, k - 1 \in T PROVE k \in T
  <2>1. PICK g \in [0..(k - 1) -> S] : Loop(g, k - 1, a, f)
    BY <1>2
  <2>2. k \in Nat /\ k - 1 \in 0..(k - 1) /\ k \in 0..N
    OBVIOUS
  <2> DEFINE v == f[k][g[k - 1]]
             h == [n \in 0..k |-> IF n = k THEN v ELSE g[n]]
  <2>3. v \in S
    BY <2>2
  <2> HIDE DEF v
  <2>4. h \in [0..k -> S] /\ h[k] = v /\ \A n \in 0..(k - 1) : h[n] = g[n]
    BY <2>2, <2>3
  <2> HIDE DEF h
  <2>5. h[0] = a
    BY <2>1, <2>2, <2>4 DEF Loop
  <2>6. ASSUME NEW n \in 1..k PROVE h[n] = f[n][h[n - 1]]
    <3>1. CASE n = k
      BY <2>2, <2>4, <3>1 DEF v
    <3>2. CASE n # k
      <4>1. n \in 1..(k - 1) /\ n \in 0..(k - 1) /\ n - 1 \in 0..(k - 1)
        BY <2>2, <3>2
      <4> QED BY <2>1, <2>4, <4>1 DEF Loop
    <3> QED BY <3>1, <3>2
  <2>7. Loop(h, k, a, f)
    BY <2>5, <2>6 DEF Loop
  <2> QED BY <2>2, <2>4, <2>7
<1>3. T = 0..N
  <2> HIDE DEF T
  <2>1. T \in SUBSET (0..N)
    BY DEF T
  <2> QED BY <1>1, <1>2, <2>1, AllNumbers
<1>4. N \in T
  BY <1>3
<1> QED BY <1>4

(* Only one function goes through the rounds of a loop.                    *)
LEMMA LoopUnique ==
  ASSUME NEW N \in Nat, NEW g, NEW h, h[0] = g[0],
         \A n \in 1..N : h[n - 1] = g[n - 1] => h[n] = g[n]
  PROVE  \A n \in 0..N : h[n] = g[n]
<1> DEFINE T == {n \in 0..N : h[n] = g[n]}
<1>1. 0 \in T /\ \A n \in 1..N : n - 1 \in T => n \in T
  OBVIOUS
<1> HIDE DEF T
<1>2. T \in SUBSET (0..N)
  BY DEF T
<1>3. T = 0..N
  BY <1>1, <1>2, AllNumbers
<1> QED BY <1>3 DEF T

-----------------------------------------------------------------------------
(* Which problems a user has solved, and which have been tried.            *)
IsSolved(u, p) == \E n \in DOMAIN subs[u] : subs[u][n].problem = p /\ Solves(subs[u][n])
IsTried(u, p) == \E n \in DOMAIN subs[u] : subs[u][n].problem = p /\ Terminal(subs[u][n])

LEMMA RowsAre ==
  ASSUME TypeOK, NEW u \in Users
  PROVE  /\ Len(subs[u]) \in Nat /\ DOMAIN subs[u] = 1..Len(subs[u])
         /\ \A n \in 1..Len(subs[u]) : subs[u][n].problem \in Problems
<1>1. subs[u] \in Seq(Submission)
  BY DEF TypeOK
<1>2. /\ Len(subs[u]) \in Nat /\ DOMAIN subs[u] = 1..Len(subs[u])
      /\ \A n \in 1..Len(subs[u]) : subs[u][n] \in Submission
  BY <1>1
<1> QED BY <1>2 DEF Submission

(* The profile's list keeps the first accepted submission of each problem: *)
(* after n submissions, of those that one of the first n has solved.       *)
Firsts == [Problems -> Nat]
KeepsFirst(u) ==
  [n \in 1..Len(subs[u]) |-> [x \in Firsts |-> KeepFirst(x, subs[u][n], n)]]

LEMMA FirstLoop ==
  ASSUME TypeOK, NEW u \in Users
  PROVE  \E g \in [0..Len(subs[u]) -> Firsts] :
           /\ Loop(g, Len(subs[u]), [p \in Problems |-> 0], KeepsFirst(u))
           /\ FirstAccepted(u) = g[Len(subs[u])]
<1> DEFINE N == Len(subs[u])
           zero == [p \in Problems |-> 0]
           f == KeepsFirst(u)
           Eq(g) == g = [n \in 0..N |-> IF n = 0 THEN zero ELSE KeepFirst(g[n - 1], subs[u][n], n)]
<1>1. N \in Nat /\ \A n \in 1..N : subs[u][n].problem \in Problems
  BY RowsAre
<1>2. ASSUME NEW n \in 1..N, NEW x \in Firsts
      PROVE  f[n][x] = KeepFirst(x, subs[u][n], n) /\ KeepFirst(x, subs[u][n], n) \in Firsts
  <2>1. f[n][x] = KeepFirst(x, subs[u][n], n)
    BY DEF KeepsFirst
  <2>2. n \in Nat
    BY <1>1
  <2>3. KeepFirst(x, subs[u][n], n) \in Firsts
    BY <2>2 DEF KeepFirst, Firsts
  <2> QED BY <2>1, <2>3
<1>3. zero \in Firsts
  BY DEF Firsts
<1> HIDE DEF f, N, zero
<1>4. PICK g \in [0..N -> Firsts] : Loop(g, N, zero, f)
  <2>1. \A n \in 1..N : \A x \in Firsts : f[n][x] \in Firsts
    BY <1>2
  <2> HIDE DEF Eq
  <2> QED BY <1>1, <1>3, <2>1, LoopExists
<1>5. \A n \in 1..N : g[n - 1] \in Firsts /\ g[n] = KeepFirst(g[n - 1], subs[u][n], n)
  <2> HIDE DEF Eq
  <2>1. \A n \in 1..N : n - 1 \in 0..N
    BY <1>1
  <2>2. \A n \in 1..N : g[n - 1] \in Firsts /\ g[n] = f[n][g[n - 1]]
    BY <1>4, <2>1 DEF Loop
  <2> QED BY <1>2, <2>2
<1>6. Eq(g)
  <2>1. \A n \in 0..N : n # 0 => n \in 1..N
    BY <1>1
  <2>2. \A n \in 0..N : g[n] = IF n = 0 THEN zero ELSE KeepFirst(g[n - 1], subs[u][n], n)
    BY <1>4, <1>5, <2>1 DEF Loop
  <2> QED BY <1>4, <2>2
<1> DEFINE h == CHOOSE x : Eq(x)
<1>7. Eq(h)
  <2> HIDE DEF Eq
  <2> QED BY <1>6
<1>8. FirstAccepted(u) = h[N]
  BY DEF FirstAccepted, N, zero
<1> HIDE DEF h
<1>9. h[0] = g[0] /\ \A n \in 1..N : h[n] = KeepFirst(h[n - 1], subs[u][n], n)
  <2>1. \A n \in 0..N : h[n] = IF n = 0 THEN zero ELSE KeepFirst(h[n - 1], subs[u][n], n)
    BY <1>7
  <2>2. 0 \in 0..N /\ \A n \in 1..N : n \in 0..N /\ n # 0
    BY <1>1
  <2> QED BY <1>4, <2>1, <2>2 DEF Loop
<1>10. h[N] = g[N]
  <2>1. \A n \in 1..N : h[n - 1] = g[n - 1] => h[n] = g[n]
    BY <1>5, <1>9
  <2> HIDE DEF Eq
  <2>2. \A n \in 0..N : h[n] = g[n]
    BY <1>1, <1>9, <2>1, LoopUnique
  <2> QED BY <1>1, <2>2
<1> QED BY <1>4, <1>8, <1>10 DEF N, zero, f

LEMMA FirstIsSolved ==
  ASSUME TypeOK, NEW u \in Users
  PROVE  \A p \in Problems : FirstAccepted(u)[p] # 0 <=> IsSolved(u, p)
<1> DEFINE N == Len(subs[u])
           By(n, p) == \E m \in 1..n : subs[u][m].problem = p /\ Solves(subs[u][m])
<1>1. N \in Nat /\ DOMAIN subs[u] = 1..N /\ \A n \in 1..N : subs[u][n].problem \in Problems
  BY RowsAre
<1>2. PICK g \in [0..N -> Firsts] :
        Loop(g, N, [p \in Problems |-> 0], KeepsFirst(u)) /\ FirstAccepted(u) = g[N]
  BY FirstLoop
<1>3. /\ g[0] = [p \in Problems |-> 0]
      /\ \A n \in 1..N : g[n - 1] \in Firsts /\ g[n] = KeepFirst(g[n - 1], subs[u][n], n)
  <2>1. \A n \in 1..N : n - 1 \in 0..N
    BY <1>1
  <2>2. \A n \in 1..N : g[n - 1] \in Firsts /\ g[n] = KeepsFirst(u)[n][g[n - 1]]
    BY <1>2, <2>1 DEF Loop
  <2>3. \A n \in 1..N : \A x \in Firsts :
          KeepsFirst(u)[n][x] = KeepFirst(x, subs[u][n], n)
    BY DEF KeepsFirst
  <2>4. g[0] = [p \in Problems |-> 0]
    BY <1>2 DEF Loop
  <2> HIDE DEF N
  <2> QED BY <2>2, <2>3, <2>4
<1> DEFINE T == {n \in 0..N : \A p \in Problems : g[n][p] # 0 <=> By(n, p)}
<1>4. 0 \in T
  BY <1>1, <1>3
<1>5. ASSUME NEW n \in 1..N, n - 1 \in T PROVE n \in T
  <2>1. n \in Nat /\ n # 0 /\ n \in 0..N
    BY <1>1
  <2> DEFINE x == g[n - 1]
             q == subs[u][n].problem
  <2>2. x \in Firsts /\ g[n] = KeepFirst(x, subs[u][n], n) /\ q \in Problems
    BY <1>1, <1>3
  <2>3. ASSUME NEW p \in Problems
        PROVE  By(n, p) <=> By(n - 1, p) \/ (q = p /\ Solves(subs[u][n]))
    <3>1. \A m : m \in 1..n <=> m \in 1..(n - 1) \/ m = n
      BY <2>1
    <3> QED BY <3>1
  <2>4. \A p \in Problems : x[p] # 0 <=> By(n - 1, p)
    BY <1>5
  <2> HIDE DEF x, By
  <2>5. ASSUME NEW p \in Problems
        PROVE  KeepFirst(x, subs[u][n], n)[p] # 0 <=> x[p] # 0 \/ (q = p /\ Solves(subs[u][n]))
    BY <2>1, <2>2 DEF KeepFirst, Firsts
  <2> HIDE DEF q
  <2>6. \A p \in Problems : g[n][p] # 0 <=> By(n, p)
    BY <2>2, <2>3, <2>4, <2>5
  <2> QED BY <2>1, <2>6
<1>6. T = 0..N
  <2> HIDE DEF T
  <2>1. T \in SUBSET (0..N)
    BY DEF T
  <2> QED BY <1>1, <1>4, <1>5, <2>1, AllNumbers
<1>7. N \in T
  BY <1>1, <1>6
<1> QED BY <1>1, <1>2, <1>7 DEF IsSolved

(* The tags of the list of problems go through the submissions from the    *)
(* latest one on.                                                          *)
Passes == [Problems -> {"NONE", "PASSED", "FAILED"}]
Latest(u, n) == subs[u][Len(subs[u]) + 1 - n]
KeepsBest(u) ==
  [n \in 1..Len(subs[u]) |-> [x \in Passes |-> KeepBest(x, Latest(u, n))]]

LEMMA LatestIs ==
  ASSUME TypeOK, NEW u \in Users
  PROVE  /\ Len(subs[u]) \in Nat
         /\ \A n \in 1..Len(subs[u]) : Latest(u, n).problem \in Problems
         /\ \A p : IsSolved(u, p) <=>
              \E n \in 1..Len(subs[u]) : Latest(u, n).problem = p /\ Solves(Latest(u, n))
         /\ \A p : IsTried(u, p) <=>
              \E n \in 1..Len(subs[u]) : Latest(u, n).problem = p /\ Terminal(Latest(u, n))
<1> DEFINE N == Len(subs[u])
<1>1. N \in Nat /\ DOMAIN subs[u] = 1..N /\ \A n \in 1..N : subs[u][n].problem \in Problems
  BY RowsAre
<1> HIDE DEF N
<1>2. ASSUME NEW n \in 1..N PROVE N + 1 - n \in 1..N /\ N + 1 - (N + 1 - n) = n
  BY <1>1
<1>3. \A n \in 1..N : Latest(u, n) = subs[u][N + 1 - n]
  BY DEF Latest, N
<1>4. \A n \in 1..N : subs[u][n] = Latest(u, N + 1 - n)
  BY <1>2, <1>3
<1>5. \A n \in 1..N : Latest(u, n).problem \in Problems
  BY <1>1, <1>2, <1>3
<1>6. ASSUME NEW p
      PROVE  IsSolved(u, p) <=> \E n \in 1..N : Latest(u, n).problem = p /\ Solves(Latest(u, n))
  <2>1. ASSUME NEW n \in 1..N, subs[u][n].problem = p, Solves(subs[u][n])
        PROVE  \E m \in 1..N : Latest(u, m).problem = p /\ Solves(Latest(u, m))
    BY <1>2, <1>4, <2>1
  <2>2. ASSUME NEW n \in 1..N, Latest(u, n).problem = p, Solves(Latest(u, n))
        PROVE  \E m \in 1..N : subs[u][m].problem = p /\ Solves(subs[u][m])
    BY <1>2, <1>3, <2>2
  <2> QED BY <1>1, <2>1, <2>2 DEF IsSolved
<1>7. ASSUME NEW p
      PROVE  IsTried(u, p) <=> \E n \in 1..N : Latest(u, n).problem = p /\ Terminal(Latest(u, n))
  <2>1. ASSUME NEW n \in 1..N, subs[u][n].problem = p, Terminal(subs[u][n])
        PROVE  \E m \in 1..N : Latest(u, m).problem = p /\ Terminal(Latest(u, m))
    BY <1>2, <1>4, <2>1
  <2>2. ASSUME NEW n \in 1..N, Latest(u, n).problem = p, Terminal(Latest(u, n))
        PROVE  \E m \in 1..N : subs[u][m].problem = p /\ Terminal(subs[u][m])
    BY <1>2, <1>3, <2>2
  <2> QED BY <1>1, <2>1, <2>2 DEF IsTried
<1> QED BY <1>1, <1>5, <1>6, <1>7 DEF N

LEMMA PassLoop ==
  ASSUME TypeOK, NEW u \in Users
  PROVE  \E g \in [0..Len(subs[u]) -> Passes] :
           /\ Loop(g, Len(subs[u]), [p \in Problems |-> "NONE"], KeepsBest(u))
           /\ PassStatus(u) = g[Len(subs[u])]
<1> DEFINE N == Len(subs[u])
           none == [p \in Problems |-> "NONE"]
           f == KeepsBest(u)
           Eq(g) == g = [n \in 0..N |-> IF n = 0 THEN none ELSE KeepBest(g[n - 1], Latest(u, n))]
<1>1. N \in Nat /\ \A n \in 1..N : Latest(u, n).problem \in Problems
  BY LatestIs
<1>2. ASSUME NEW n \in 1..N, NEW x \in Passes
      PROVE  f[n][x] = KeepBest(x, Latest(u, n)) /\ KeepBest(x, Latest(u, n)) \in Passes
  <2>1. f[n][x] = KeepBest(x, Latest(u, n))
    BY DEF KeepsBest
  <2>2. n \in Nat
    BY <1>1
  <2>3. KeepBest(x, Latest(u, n)) \in Passes
    BY <2>2 DEF KeepBest, Passes
  <2> QED BY <2>1, <2>3
<1>3. none \in Passes
  BY DEF Passes
<1> HIDE DEF f, N, none
<1>4. PICK g \in [0..N -> Passes] : Loop(g, N, none, f)
  <2>1. \A n \in 1..N : \A x \in Passes : f[n][x] \in Passes
    BY <1>2
  <2> HIDE DEF Eq
  <2> QED BY <1>1, <1>3, <2>1, LoopExists
<1>5. \A n \in 1..N : g[n - 1] \in Passes /\ g[n] = KeepBest(g[n - 1], Latest(u, n))
  <2> HIDE DEF Eq
  <2>1. \A n \in 1..N : n - 1 \in 0..N
    BY <1>1
  <2>2. \A n \in 1..N : g[n - 1] \in Passes /\ g[n] = f[n][g[n - 1]]
    BY <1>4, <2>1 DEF Loop
  <2> QED BY <1>2, <2>2
<1>6. Eq(g)
  <2>1. \A n \in 0..N : n # 0 => n \in 1..N
    BY <1>1
  <2>2. \A n \in 0..N : g[n] = IF n = 0 THEN none ELSE KeepBest(g[n - 1], Latest(u, n))
    BY <1>4, <1>5, <2>1 DEF Loop
  <2> QED BY <1>4, <2>2
<1> DEFINE h == CHOOSE x : Eq(x)
<1>7. Eq(h)
  <2> HIDE DEF Eq
  <2> QED BY <1>6
<1>8. PassStatus(u) = h[N]
  BY DEF PassStatus, Latest, N, none
<1> HIDE DEF h
<1>9. h[0] = g[0] /\ \A n \in 1..N : h[n] = KeepBest(h[n - 1], Latest(u, n))
  <2>1. \A n \in 0..N : h[n] = IF n = 0 THEN none ELSE KeepBest(h[n - 1], Latest(u, n))
    BY <1>7
  <2>2. 0 \in 0..N /\ \A n \in 1..N : n \in 0..N /\ n # 0
    BY <1>1
  <2> QED BY <1>4, <2>1, <2>2 DEF Loop
<1>10. h[N] = g[N]
  <2>1. \A n \in 1..N : h[n - 1] = g[n - 1] => h[n] = g[n]
    BY <1>5, <1>9
  <2> HIDE DEF Eq
  <2>2. \A n \in 0..N : h[n] = g[n]
    BY <1>1, <1>9, <2>1, LoopUnique
  <2> QED BY <1>1, <2>2
<1> QED BY <1>4, <1>8, <1>10 DEF N, none, f

LEMMA PassIsSolved ==
  ASSUME TypeOK, NEW u \in Users
  PROVE  \A p \in Problems : /\ PassStatus(u)[p] = "PASSED" <=> IsSolved(u, p)
                             /\ PassStatus(u)[p] # "NONE" <=> IsTried(u, p)
<1> DEFINE N == Len(subs[u])
           By(n, p) == \E m \in 1..n : Latest(u, m).problem = p /\ Solves(Latest(u, m))
           Told(n, p) == \E m \in 1..n : Latest(u, m).problem = p /\ Terminal(Latest(u, m))
<1>1. N \in Nat /\ \A n \in 1..N : Latest(u, n).problem \in Problems
  BY LatestIs
<1>2. PICK g \in [0..N -> Passes] :
        Loop(g, N, [p \in Problems |-> "NONE"], KeepsBest(u)) /\ PassStatus(u) = g[N]
  BY PassLoop
<1>3. /\ g[0] = [p \in Problems |-> "NONE"]
      /\ \A n \in 1..N : g[n - 1] \in Passes /\ g[n] = KeepBest(g[n - 1], Latest(u, n))
  <2>1. \A n \in 1..N : n - 1 \in 0..N
    BY <1>1
  <2>2. \A n \in 1..N : g[n - 1] \in Passes /\ g[n] = KeepsBest(u)[n][g[n - 1]]
    BY <1>2, <2>1 DEF Loop
  <2>3. \A n \in 1..N : \A x \in Passes : KeepsBest(u)[n][x] = KeepBest(x, Latest(u, n))
    BY DEF KeepsBest
  <2>4. g[0] = [p \in Problems |-> "NONE"]
    BY <1>2 DEF Loop
  <2> HIDE DEF N
  <2> QED BY <2>2, <2>3, <2>4
<1> DEFINE Ok(n, p) == (g[n][p] = "PASSED" <=> By(n, p)) /\ (g[n][p] # "NONE" <=> Told(n, p))
           T == {n \in 0..N : \A p \in Problems : Ok(n, p)}
<1>4. 0 \in T
  <2>1. \A p \in Problems : ~By(0, p) /\ ~Told(0, p) /\ g[0][p] = "NONE"
    BY <1>3
  <2>2. \A p \in Problems : Ok(0, p)
    BY <2>1
  <2> QED BY <1>1, <2>2
<1>5. ASSUME NEW n \in 1..N, n - 1 \in T PROVE n \in T
  <2>1. n \in Nat /\ n # 0 /\ n \in 0..N
    BY <1>1
  <2> DEFINE x == g[n - 1]
             s == Latest(u, n)
  <2>2. x \in Passes /\ g[n] = KeepBest(x, s) /\ s.problem \in Problems
    BY <1>1, <1>3
  <2>3. \A m : m \in 1..n <=> m \in 1..(n - 1) \/ m = n
    BY <2>1
  <2>4. ASSUME NEW p \in Problems
        PROVE  By(n, p) <=> By(n - 1, p) \/ (s.problem = p /\ Solves(s))
    BY <2>3
  <2>5. ASSUME NEW p \in Problems
        PROVE  Told(n, p) <=> Told(n - 1, p) \/ (s.problem = p /\ Terminal(s))
    BY <2>3
  <2>6. ASSUME NEW p \in Problems PROVE Ok(n - 1, p)
    BY <1>5
  <2> HIDE DEF x, s, By, Told
  <2>7. ASSUME NEW p \in Problems
        PROVE  /\ KeepBest(x, s)[p] = "PASSED" <=> x[p] = "PASSED" \/ (s.problem = p /\ Solves(s))
               /\ KeepBest(x, s)[p] # "NONE" <=> x[p] # "NONE" \/ (s.problem = p /\ Terminal(s))
    <3>1. Solves(s) => Terminal(s)
      BY DEF Solves, Terminal, Verdicts
    <3>2. CASE Solves(s)
      <4>1. KeepBest(x, s) = [x EXCEPT ![s.problem] = "PASSED"]
        BY <3>2 DEF KeepBest
      <4> QED BY <2>2, <3>1, <3>2, <4>1 DEF Passes
    <3>3. CASE ~Solves(s) /\ Terminal(s) /\ x[s.problem] = "NONE"
      <4>1. KeepBest(x, s) = [x EXCEPT ![s.problem] = "FAILED"]
        BY <3>3 DEF KeepBest
      <4> QED BY <2>2, <3>3, <4>1 DEF Passes
    <3>4. CASE ~Solves(s) /\ ~(Terminal(s) /\ x[s.problem] = "NONE")
      <4>1. KeepBest(x, s) = x
        BY <3>4 DEF KeepBest
      <4> QED BY <3>4, <4>1
    <3> QED BY <3>2, <3>3, <3>4
  <2>8. ASSUME NEW p \in Problems PROVE Ok(n, p)
    <3>1. (x[p] = "PASSED" <=> By(n - 1, p)) /\ (x[p] # "NONE" <=> Told(n - 1, p))
      BY <2>6 DEF x
    <3> QED BY <2>2, <2>4, <2>5, <2>7, <3>1
  <2> HIDE DEF Ok
  <2> QED BY <2>1, <2>8
<1>6. T = 0..N
  <2> HIDE DEF T
  <2>1. T \in SUBSET (0..N)
    BY DEF T
  <2> QED BY <1>1, <1>4, <1>5, <2>1, AllNumbers
<1>7. \A p \in Problems : Ok(N, p)
  BY <1>1, <1>6
<1> QED BY <1>2, <1>7, LatestIs

-----------------------------------------------------------------------------
(* Shares rounded to the nearest, as the pages show them.                  *)
LEMMA QuotientIs ==
  ASSUME NEW x \in Nat, NEW m \in Nat \ {0}
  PROVE  x \div m \in Nat /\ m * (x \div m) <= x /\ x < m * (x \div m) + m
OBVIOUS

LEMMA NoneIsNothing == ASSUME NEW b \in Nat PROVE Rounded(0, b) = 0
<1>1. CASE b = 0
  BY <1>1 DEF Rounded
<1>2. CASE b # 0
  <2> DEFINE r == b \div (2 * b)
  <2>1. 2 * b \in Nat \ {0}
    BY <1>2
  <2>2. r \in Nat /\ (2 * b) * r <= b
    BY <2>1, QuotientIs
  <2>3. Rounded(0, b) = r
    BY <1>2 DEF Rounded
  <2> HIDE DEF r
  <2>4. r >= 1 => (2 * b) * r >= 2 * b
    BY <2>1, <2>2
  <2>5. ~(2 * b <= b)
    BY <1>2
  <2>6. r = 0
    BY <1>2, <2>1, <2>2, <2>4, <2>5
  <2> QED BY <2>3, <2>6
<1> QED BY <1>1, <1>2

LEMMA AllIsHundred ==
  ASSUME NEW b \in Nat \ {0} PROVE Rounded(100 * b, b) = 100 /\ Rounded(1000 * b, b) = 1000
<1>1. ASSUME NEW k \in {100, 1000} PROVE Rounded(k * b, b) = k
  <2> DEFINE x == 2 * (k * b) + b
             r == x \div (2 * b)
  <2>1. 2 * b \in Nat \ {0} /\ k \in Nat /\ x \in Nat
    OBVIOUS
  <2>2. r \in Nat /\ (2 * b) * r <= x /\ x < (2 * b) * r + 2 * b
    BY <2>1, QuotientIs
  <2>3. Rounded(k * b, b) = r
    BY DEF Rounded
  <2>4. x = (2 * b) * k + b
    OBVIOUS
  <2> HIDE DEF x, r
  <2>5. ~(r >= k + 1)
    <3>1. r >= k + 1 => (2 * b) * r >= (2 * b) * k + 2 * b
      BY <2>1, <2>2
    <3> QED BY <2>1, <2>2, <2>4, <3>1
  <2>6. ~(r + 1 <= k)
    <3>1. r + 1 <= k => (2 * b) * r + 2 * b <= (2 * b) * k
      BY <2>1, <2>2
    <3> QED BY <2>1, <2>2, <2>4, <3>1
  <2> QED BY <2>1, <2>2, <2>3, <2>5, <2>6
<1> QED BY <1>1

LEMMA NotAllIsLess ==
  ASSUME NEW a \in Nat, NEW b \in Nat, a < b, b < 2000 PROVE Rounded(1000 * a, b) # 1000
<1> DEFINE x == 2 * (1000 * a) + b
           r == x \div (2 * b)
<1>1. 2 * b \in Nat \ {0} /\ x \in Nat
  OBVIOUS
<1>2. r \in Nat /\ (2 * b) * r <= x
  <2> DEFINE m == 2 * b
  <2>1. m \in Nat \ {0} /\ x \in Nat
    BY <1>1
  <2> HIDE DEF m, x
  <2>2. x \div m \in Nat /\ m * (x \div m) <= x
    BY <2>1, QuotientIs
  <2> QED BY <2>2 DEF m
<1>3. Rounded(1000 * a, b) = r
  BY DEF Rounded
<1>4. x < (2 * b) * 1000
  OBVIOUS
<1> HIDE DEF x, r
<1>5. r # 1000
  BY <1>1, <1>2, <1>4
<1> QED BY <1>3, <1>5

-----------------------------------------------------------------------------
(* Homework is set, and of problems.                                       *)
TaskInv == \A w \in homework : w # {} /\ w \subseteq Problems

LEMMA TaskStep == ASSUME TypeOK, TaskInv, [Next]_vars PROVE TaskInv'
<1>1. bound.problems \subseteq Problems
  BY CampusAssumption DEF TypeOK
<1>2. ASSUME NEW h \in Handlers, NEW w \in (SUBSET bound.problems) \ {{}}, CreateHomework(h, w)
      PROVE  TaskInv'
  <2>1. homework' = homework \union {w}
    BY <1>2 DEF CreateHomework
  <2>2. w # {} /\ w \subseteq Problems
    BY <1>1
  <2> QED BY <2>1, <2>2 DEF TaskInv
<1>3. CASE UNCHANGED homework
  BY <1>3 DEF TaskInv
<1>4. CASE UNCHANGED vars
  BY <1>3, <1>4 DEF vars, class
<1>5. CASE Next
  <2>1. ASSUME NEW h \in Handlers, NEW u \in Users,
               FindMember(h, u) \/ FindMemberToRemove(h, u) \/ ReadCachedRecs(h, u)
        PROVE  UNCHANGED homework
    BY <2>1 DEF FindMember, FindMemberToRemove, ReadCachedRecs, class
  <2>2. ASSUME NEW h \in Handlers, NEW d \in Discussions,
               \/ \E op \in {"reply", "pin", "delete"} : FindDiscussion(h, d, op)
               \/ \E u \in Users, isReply \in BOOLEAN : FindVote(h, u, d, isReply)
        PROVE  UNCHANGED homework
    BY <2>2 DEF FindDiscussion, FindVote, class
  <2>3. ASSUME NEW d \in Discussions, CreateDiscussion(d) PROVE UNCHANGED homework
    BY <2>3 DEF CreateDiscussion, class
  <2>4. ASSUME NEW h \in Handlers,
               \/ WriteReply(h) \/ WritePin(h) \/ DeleteDiscussion(h)
               \/ RemoveVote(h) \/ AddVote(h) \/ AddMember(h) \/ RemoveMember(h)
               \/ ComputeRecs(h) \/ StoreRecs(h)
        PROVE  UNCHANGED homework
    BY <2>4 DEF WriteReply, WritePin, DeleteDiscussion, RemoveVote, AddVote, AddMember,
                RemoveMember, ComputeRecs, StoreRecs, class
  <2>5. ASSUME NEW u \in Users,
               \/ \E p \in Problems : Submit(u, p)
               \/ \E n \in 1..Len(subs[u]), status \in {"QUEUED", "ACCEPTED", "WRONG_ANSWER"} :
                    Verdict(u, n, status)
        PROVE  UNCHANGED homework
    BY <2>5 DEF Submit, Verdict, class
  <2>6. CountStats \/ StoreStats \/ Tick => UNCHANGED homework
    BY DEF CountStats, StoreStats, Tick, class
  <2> QED BY <1>2, <1>3, <1>5, <2>1, <2>2, <2>3, <2>4, <2>5, <2>6 DEF Next
<1> QED BY <1>4, <1>5

LEMMA ViewsAgree == ASSUME TypeOK, TaskInv PROVE SolvedViewsAgree
<1> SUFFICES ASSUME NEW u \in Users
             PROVE  /\ SolvedIds(u) = SolvedByTag(u)
                    /\ ProfileAgrees(u, SolvedByTag(u), TriedByTag(u))
                    /\ HomeworkAgrees(u, SolvedByTag(u))
  BY DEF SolvedViewsAgree
<1> DEFINE S == {p \in Problems : IsSolved(u, p)}
           R == {p \in Problems : IsTried(u, p)}
           profile == ProfileStatsPanel(u)
<1>1. SolvedByTag(u) = S /\ TriedByTag(u) = R
  BY PassIsSolved DEF SolvedByTag, TriedByTag, ProblemsPage
<1>2. /\ Len(subs[u]) \in Nat /\ DOMAIN subs[u] = 1..Len(subs[u])
      /\ \A n \in DOMAIN subs[u] : subs[u][n].problem \in Problems
  BY RowsAre
<1>3. SolvedIds(u) = S
  BY <1>2 DEF SolvedIds, ToSet, IsSolved
<1>4. {s.problem : s \in {s \in ToSet(subs[u]) : Terminal(s)}} = R
  BY <1>2 DEF ToSet, IsTried
<1>5. S \subseteq R
  BY DEF IsSolved, IsTried, Solves, Terminal, Verdicts
<1>6. /\ IsFiniteSet(S) /\ IsFiniteSet(R) /\ Cardinality(S) \in Nat /\ Cardinality(R) \in Nat
      /\ Cardinality(S) <= Cardinality(R) /\ (Cardinality(S) = Cardinality(R) => S = R)
  <2>1. IsFiniteSet(R) /\ IsFiniteSet(S)
    BY CampusAssumption, FS_Subset
  <2> QED BY <1>5, <2>1, FS_Subset, FS_CardinalityType
<1>7. profile.items = S
  BY FirstIsSolved DEF ProfileStatsPanel
<1>8. /\ profile.summary.solved = Cardinality(S) /\ profile.summary.attempted = Cardinality(R)
      /\ profile.summary.passRate = Rounded(1000 * Cardinality(S), Cardinality(R))
  <2> DEFINE tried == {s.problem : s \in {s \in ToSet(subs[u]) : Terminal(s)}}
  <2>1. profile.summary = MyStats(u)
    BY DEF ProfileStatsPanel
  <2>2. /\ MyStats(u).solved = Cardinality(SolvedIds(u))
        /\ MyStats(u).attempted = Cardinality(tried)
        /\ MyStats(u).passRate = Rounded(1000 * Cardinality(SolvedIds(u)), Cardinality(tried))
    BY DEF MyStats
  <2>3. tried = R
    BY <1>4
  <2> HIDE DEF tried, S, R, profile
  <2> QED BY <1>3, <2>1, <2>2, <2>3
<1> DEFINE rows(status) == {n \in DOMAIN subs[u] : subs[u][n].status = status}
<1>9. profile.tags = {status \in Verdicts : rows(status) # {}}
  <2>1. ASSUME NEW status PROVE IsFiniteSet(rows(status))
    <3>1. IsFiniteSet(1..Len(subs[u]))
      BY <1>2, FS_Interval
    <3>2. rows(status) \in SUBSET (1..Len(subs[u]))
      BY <1>2
    <3> QED BY <3>1, <3>2, FS_Subset
  <2>2. \A status : Cardinality(rows(status)) > 0 <=> rows(status) # {}
    BY <2>1, FS_CardinalityType, FS_EmptySet
  <2>3. profile.tags = {status \in Verdicts : Cardinality(rows(status)) > 0}
    BY DEF ProfileStatsPanel, MyStats
  <2> HIDE DEF rows, profile
  <2> QED BY <2>2, <2>3
<1>10. "ACCEPTED" \in profile.tags <=> S # {}
  <2>1. rows("ACCEPTED") # {} <=> S # {}
    BY <1>2 DEF IsSolved, Solves
  <2> HIDE DEF rows, profile, S
  <2> QED BY <1>9, <2>1 DEF Verdicts
<1>11. profile.tags = {} <=> R = {}
  <2>1. (\E status \in Verdicts : rows(status) # {}) <=> R # {}
    BY <1>2 DEF IsTried, Terminal
  <2> HIDE DEF rows, profile, R
  <2> QED BY <1>9, <2>1
<1>12. S = R /\ R # {} => profile.summary.passRate = 1000
  <2>1. R # {} => Cardinality(R) # 0
    BY <1>6, FS_EmptySet
  <2> HIDE DEF S, R, profile
  <2> QED BY <1>6, <1>8, <2>1, AllIsHundred
<1>13. profile.summary.passRate = 1000 /\ Cardinality(R) < 2000 => S = R /\ R # {}
  <2>1. R = {} => S = {} /\ Cardinality(R) = 0
    BY <1>5, FS_EmptySet
  <2>2. R = {} => profile.summary.passRate = 0
    BY <1>8, <2>1 DEF Rounded
  <2> HIDE DEF S, R, profile
  <2>3. Cardinality(S) < Cardinality(R) /\ Cardinality(R) < 2000 =>
          profile.summary.passRate # 1000
    BY <1>6, <1>8, NotAllIsLess
  <2> QED BY <1>6, <2>2, <2>3
<1>14. ProfileAgrees(u, S, R)
  BY <1>7, <1>8, <1>10, <1>11, <1>12, <1>13 DEF ProfileAgrees
<1>15. ASSUME NEW w \in HomeworkListPage(u)
       PROVE  LET teacher == HomeworkStats(w.problems) IN
              /\ w.done = w.problems \intersect S
              /\ teacher.completed[u] = Cardinality(w.done) /\ teacher.rate[u] = w.percent
              /\ u \in teacher.notSubmitted <=> w.done = {}
              /\ w.done = w.problems => HomeworkStatsPage(w.problems)[u] = "success"
              /\ w.done = {} => HomeworkStatsPage(w.problems)[u] = "error"
  <2>1. PICK v \in HomeworkOf(u) :
          w = [problems |-> v.problems, done |-> v.completed,
               percent |-> Rounded(100 * Cardinality(v.completed), Cardinality(v.problems))]
    BY <1>15 DEF HomeworkListPage
  <2>2. u \in members
    BY <2>1 DEF HomeworkOf
  <2>3. PICK x \in homework :
          v = [problems |-> x, completed |-> x \intersect (SolvedIds(u) \intersect UNION homework)]
    BY <2>2 DEF HomeworkOf
  <2>4. x # {} /\ x \subseteq Problems /\ v.problems = x /\ v.completed = x \intersect S
    BY <1>3, <2>3 DEF TaskInv
  <2> DEFINE d == x \intersect S
  <2>5. w.problems = x /\ w.done = d /\ w.percent = Rounded(100 * Cardinality(d), Cardinality(x))
    BY <2>1, <2>4
  <2>6. {p \in x : \E s \in ToSet(subs[u]) : Solves(s) /\ s.problem = p} = d
    BY <1>2, <2>4 DEF ToSet, IsSolved
  <2>7. /\ IsFiniteSet(x) /\ Cardinality(x) \in Nat /\ Cardinality(x) # 0
        /\ IsFiniteSet(d) /\ Cardinality(d) \in Nat
    <3>1. IsFiniteSet(x) /\ IsFiniteSet(d)
      BY <2>4, CampusAssumption, FS_Subset
    <3> QED BY <2>4, <3>1, FS_CardinalityType, FS_EmptySet
  <2>8. /\ HomeworkStats(x).completed[u] = Cardinality(d)
        /\ HomeworkStats(x).rate[u] = Rounded(100 * Cardinality(d), Cardinality(x))
        /\ u \in HomeworkStats(x).notSubmitted <=> d = {}
    BY <2>2, <2>6 DEF HomeworkStats
  <2>9. HomeworkStatsPage(x)[u] = IF HomeworkStats(x).rate[u] >= 80 THEN "success"
                                  ELSE IF HomeworkStats(x).rate[u] >= 50 THEN "warning" ELSE "error"
    <3>1. HomeworkStats(x).rate =
            [m \in members |-> HomeworkStats(x).rate[m]]
      BY DEF HomeworkStats
    <3> QED BY <2>2 DEF HomeworkStatsPage
  <2> HIDE DEF d
  <2>10. d = x => HomeworkStatsPage(x)[u] = "success"
    <3>1. d = x => HomeworkStats(x).rate[u] = 100
      BY <2>7, <2>8, AllIsHundred
    <3> QED BY <2>9, <3>1
  <2>11. d = {} => HomeworkStatsPage(x)[u] = "error"
    <3>1. d = {} => Cardinality(d) = 0
      BY FS_EmptySet
    <3>2. d = {} => HomeworkStats(x).rate[u] = 0
      BY <2>7, <2>8, <3>1, NoneIsNothing
    <3> QED BY <2>9, <3>2
  <2> QED BY <2>5, <2>8, <2>10, <2>11 DEF d
<1>16. HomeworkAgrees(u, S)
  BY <1>15 DEF HomeworkAgrees
<1> HIDE DEF S, R
<1> QED BY <1>1, <1>3, <1>14, <1>16

(* All who tell which problems a user has solved agree, for any number of  *)
(* submissions with any verdicts and rejudges, and any homework.           *)
THEOREM ViewsOfSolvedAgree == Spec => []SolvedViewsAgree
<1>1. Init => TaskInv
  BY DEF Init, TaskInv
<1>2. Inv /\ TaskInv /\ [Next]_vars => TaskInv'
  BY TaskStep DEF Inv
<1>3. Inv /\ TaskInv => SolvedViewsAgree
  BY ViewsAgree DEF Inv
<1> QED BY <1>1, <1>2, <1>3, InvInit, Inductive, PTL DEF Spec
=============================================================================
