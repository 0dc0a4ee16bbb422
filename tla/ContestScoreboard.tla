-------------------------- MODULE ContestScoreboard --------------------------
(***************************************************************************)
(* The scoreboard of one contest: ContestsService.scoreboard computes it   *)
(* from the submissions at every request, while submissions arrive, are    *)
(* judged in any order and rejudged, the public board freezes, and the     *)
(* administrator moves the freeze, changes the judge mode and marks star   *)
(* teams.                                                                  *)
(***************************************************************************)
EXTENDS Integers, Sequences, FiniteSetsExt

CONSTANTS
  Users, Problems,
  Admins,      \* the users with role ADMIN, who submit without registration
  EndAt,       \* the contest lasts from time 0 to EndAt
  Minute,      \* clock ticks per minute
  FullScore,   \* the score of a problem
  NoTime,      \* null: no freeze, no accepted submission
  MaxSubs,     \* bound: number of submissions
  Horizon      \* bound: last time considered

ASSUME ScoreboardAssumption ==
  /\ Admins \subseteq Users /\ IsFiniteSet(Problems)
  /\ EndAt \in Nat /\ Minute \in Nat \ {0}
  /\ FullScore \in Nat /\ MaxSubs \in Nat /\ Horizon \in Nat /\ NoTime \notin Nat

VARIABLES
  judgeMode,  \* contests.judge_mode
  freezeAt,   \* contests.freeze_at
  now,        \* the time
  reg,        \* contest_registrations: "none", "official" or "star"
  subs        \* the submissions of the contest, in the order of created_at,
              \* each with the judge mode of the contest when it was made

boardVars == <<judgeMode, freezeAt, now, reg, subs>>

(* status is one of "IN_FLIGHT", "ACCEPTED" and "FAILED".                  *)
Failed(s) == s.status = "FAILED"   \* isSubmissionTerminal, and not ACCEPTED
Accepted(s) == s.status = "ACCEPTED"

BoardInit ==
  /\ judgeMode \in {"ACM", "OI"} /\ freezeAt \in (0..EndAt) \cup {NoTime}
  /\ now = 0 /\ reg = [u \in Users |-> "none"] /\ subs = <<>>

----------------------------------------------------------------------------
Tick ==
  /\ now < Horizon /\ now' = now + 1
  /\ UNCHANGED <<judgeMode, freezeAt, reg, subs>>

Register(u) ==
  /\ reg[u] = "none" /\ reg' = [reg EXCEPT ![u] = "official"]
  /\ UNCHANGED <<judgeMode, freezeAt, now, subs>>

(* upsertRegistrationAdmin, updateRegistrationAdmin.                       *)
SetStar(u, isStarTeam) ==
  /\ reg' = [reg EXCEPT ![u] = IF isStarTeam THEN "star" ELSE "official"]
  /\ UNCHANGED <<judgeMode, freezeAt, now, subs>>

(* updateAdmin: the freeze must lie within the contest. The start, the end *)
(* and the problems of the contest stay as they are.                       *)
UpdateContest(m, f) ==
  /\ judgeMode' = m /\ freezeAt' = f
  /\ UNCHANGED <<now, reg, subs>>

(* assertSubmitAccess, isActiveForSubmit, and the insert. Two submissions  *)
(* of a user have different creation times.                                *)
Submit(u, p) ==
  /\ reg[u] # "none" \/ u \in Admins
  /\ now <= EndAt /\ Len(subs) < MaxSubs
  /\ \A i \in DOMAIN subs : subs[i].user = u => subs[i].at < now
  /\ subs' = Append(subs, [user |-> u, problem |-> p, at |-> now, mode |-> judgeMode,
                           status |-> "IN_FLIGHT", score |-> 0])
  /\ UNCHANGED <<judgeMode, freezeAt, now, reg>>

(* A worker writes the verdict. Partial scores exist in OI mode only, and  *)
(* the mode is that of the submission, not that of the contest now.        *)
SetVerdict(i, st, sc) ==
  /\ subs[i].status = "IN_FLIGHT"
  /\ IF st = "ACCEPTED" THEN sc = FullScore ELSE subs[i].mode = "ACM" => sc = 0
  /\ subs' = [subs EXCEPT ![i].status = st, ![i].score = sc]
  /\ UNCHANGED <<judgeMode, freezeAt, now, reg>>

(* A rejudge clears the score; the scoreboard reads null as 0.             *)
ClearVerdict(i) ==
  /\ subs[i].status # "IN_FLIGHT"
  /\ subs' = [subs EXCEPT ![i].status = "IN_FLIGHT", ![i].score = 0]
  /\ UNCHANGED <<judgeMode, freezeAt, now, reg>>

BoardNext ==
  \/ Tick
  \/ \E u \in Users : Register(u) \/ \E b \in BOOLEAN : SetStar(u, b)
  \/ \E m \in {"ACM", "OI"}, f \in (0..EndAt) \cup {NoTime} : UpdateContest(m, f)
  \/ \E u \in Users, p \in Problems : Submit(u, p)
  \/ \E i \in DOMAIN subs, st \in {"ACCEPTED", "FAILED"}, sc \in 0..FullScore :
       SetVerdict(i, st, sc)
  \/ \E i \in DOMAIN subs : ClearVerdict(i)

BoardSpec == BoardInit /\ [][BoardNext]_boardVars

----------------------------------------------------------------------------
(* scoreboard(): full is the administrator's board.                        *)

Frozen == freezeAt # NoTime /\ now >= freezeAt

\* Mutant: the frozen board takes in the submissions of the freeze.
CountedNoFreeze(s, full) == TRUE
Counted(s, full) == Frozen /\ ~full => s.at <= freezeAt

Attempts(u, p, full) ==
  {i \in DOMAIN subs : Counted(subs[i], full) /\ subs[i].user = u /\ subs[i].problem = p}

\* Mutant: whatever is not accepted is a failure, what is being judged too.
TryPending(acc, s) ==
  CASE acc.ac # NoTime -> acc
    [] acc.ac = NoTime /\ Accepted(s) -> [acc EXCEPT !.ac = s.at]
    [] OTHER -> [acc EXCEPT !.failed = @ + 1]

\* Mutant: the loop ends at the last accepted submission.
TryLast(acc, s) ==
  CASE Accepted(s) -> [acc EXCEPT !.ac = s.at]
    [] Failed(s) -> [acc EXCEPT !.failed = @ + 1]
    [] OTHER -> acc

(* The loop over the attempts on a problem, which ends at the first        *)
(* accepted one.                                                           *)
Try(acc, s) ==
  CASE acc.ac # NoTime -> acc
    [] acc.ac = NoTime /\ Accepted(s) -> [acc EXCEPT !.ac = s.at]
    [] acc.ac = NoTime /\ Failed(s) -> [acc EXCEPT !.failed = @ + 1]
    [] OTHER -> acc

After(u, p, full) ==
  LET after[n \in 0..Len(subs)] ==
        CASE n = 0 -> [ac |-> NoTime, failed |-> 0]
          [] n > 0 /\ n \in Attempts(u, p, full) -> Try(after[n - 1], subs[n])
          [] OTHER -> after[n - 1]
  IN  after
Tried(u, p, full) == After(u, p, full)[Len(subs)]

SumOver(f) == MapThenSumSet(LAMBDA x : f[x], DOMAIN f)

AcmRow(u, full) ==
  LET tried == [p \in Problems |-> Tried(u, p, full)]
      solved == {p \in Problems : tried[p].ac # NoTime}
  IN  [solved |-> Cardinality(solved),
       penalty |-> SumOver([p \in solved |-> tried[p].ac \div Minute + 20 * tried[p].failed])]

Scores(u, full) ==
  {subs[i].score : i \in {j \in DOMAIN subs : Counted(subs[j], full) /\ subs[j].user = u}}
OiRow(u, full) == [score |-> Max(Scores(u, full))]

(* Who has a row: in OI mode everyone who has submitted, in ACM mode       *)
(* everyone who has solved a problem.                                      *)
Listed(full) ==
  {u \in Users : IF judgeMode = "OI" THEN Scores(u, full) # {}
                 ELSE AcmRow(u, full).solved > 0}
Row(u, full) == IF judgeMode = "OI" THEN OiRow(u, full) ELSE AcmRow(u, full)

Better(r, s) ==
  IF judgeMode = "OI" THEN r.score > s.score
  ELSE r.solved > s.solved \/ (r.solved = s.solved /\ r.penalty < s.penalty)

(* The rows of the official teams, ranked by position; equal rows may come *)
(* in either order. Star teams follow without rank, score or penalty.      *)
Official(full) == {u \in Listed(full) : reg[u] # "star"}
Board(full) == [u \in Official(full) |-> Row(u, full)]

----------------------------------------------------------------------------
(* The penalty is that of the contest rules, as openspec/specs/contests    *)
(* states them without a loop: for every solved problem the minutes to the *)
(* first accepted submission and 20 for every failed one before it.        *)
AcceptedOf(u, p, full) == {i \in Attempts(u, p, full) : Accepted(subs[i])}
Solved(u, full) == {p \in Problems : AcceptedOf(u, p, full) # {}}
FirstAc(u, p, full) == Min(AcceptedOf(u, p, full))
FailedFirst(u, p, full) ==
  {i \in Attempts(u, p, full) : i < FirstAc(u, p, full) /\ Failed(subs[i])}
IcpcPenalty(u, full) ==
  SumOver([p \in Solved(u, full) |-> subs[FirstAc(u, p, full)].at \div Minute
                                       + 20 * Cardinality(FailedFirst(u, p, full))])
PenaltyByTheRules ==
  \A u \in Users, full \in BOOLEAN :
    AcmRow(u, full) = [solved |-> Cardinality(Solved(u, full)), penalty |-> IcpcPenalty(u, full)]

(* An accepted verdict never sets its team back, in whatever order the     *)
(* verdicts of its attempts arrive: the row after it is not worse than the *)
(* row before it, on either board.                                         *)
JudgedAccepted(u) ==
  \E i \in DOMAIN subs : /\ subs[i].user = u
                         /\ SetVerdict(i, "ACCEPTED", FullScore)
AcceptedNeverSetsBack ==
  [][\A u \in Users, full \in BOOLEAN :
       JudgedAccepted(u) /\ u \in Listed(full) =>
         u \in Listed(full)' /\ ~Better(Row(u, full), Row(u, full)')]_boardVars

(* The public board is frozen: once the contest has passed the freeze,     *)
(* neither a new submission nor the verdict or the rejudge of one made     *)
(* after the freeze changes it.                                            *)
MadeAfterFreeze(i) == i > Len(subs) \/ subs[i].at > freezeAt
FreezeHolds ==
  [][/\ freezeAt # NoTime /\ now > freezeAt
     /\ UNCHANGED <<judgeMode, freezeAt, reg>>
     /\ \A i \in DOMAIN subs' : MadeAfterFreeze(i) \/ subs'[i] = subs[i]
     => Board(FALSE)' = Board(FALSE)]_boardVars
=============================================================================
