--------------------------- MODULE VerdictProofs ----------------------------
(***************************************************************************)
(* The run of a submission, its testcases in the sandbox, and the two      *)
(* together. What is proved of the job and of the sandbox apart holds of   *)
(* JudgeBox: every step of it is a step of JudgeRun or changes nothing of  *)
(* it, and the sandbox goes through the steps of SandboxRun from the state *)
(* each call of judgeOneTestcase puts it in. The last part is about the    *)
(* scoreboard of a contest, which is computed from the verdicts.           *)
(***************************************************************************)
EXTENDS JudgeBox, ContestScoreboard, FiniteSetTheorems, SequenceTheorems,
        WellFoundedInduction, TLAPS

-----------------------------------------------------------------------------
(* The job: the verdict of a run is that of its rows, for any number of    *)
(* testcases, any points, any verdicts of the sandbox and any runs.        *)

Failures == TestcaseVerdicts \ {"ACCEPTED"}

RunTypes ==
  /\ mode \in {"ACM", "OI"}
  /\ rows \in [Tests -> TestcaseVerdicts \cup {"PENDING"}]
  /\ verdict \in TestcaseVerdicts
  /\ test \in 1..(NTests + 1) /\ totalScore \in Nat /\ allAc \in BOOLEAN
  /\ firstFail \in Failures \cup {"none"}
  /\ pc \in {"queued", "judge", "store", "finish", "publish", "done", "failed"}
  /\ pc = "store" => test \in Tests

(* The testcases the totals account for, and the verdict each of them has: *)
(* between judging and storing, the last one is not in the rows yet.       *)
CountedRows == 1..(IF pc = "store" THEN test ELSE test - 1)
VerdictOf(t) == IF pc = "store" /\ t = test THEN verdict ELSE rows[t]

(* The totals are what a reader of the verdicts so far would compute.      *)
TotalsAgree ==
  /\ allAc => \A t \in CountedRows : VerdictOf(t) = "ACCEPTED"
  /\ allAc => firstFail = "none"
  /\ ~allAc => \E t \in CountedRows :
       /\ VerdictOf(t) = firstFail /\ firstFail \in Failures
       /\ \A u \in 1..(t - 1) : VerdictOf(u) = "ACCEPTED"
  /\ totalScore > 0 => \E t \in CountedRows : VerdictOf(t) = "ACCEPTED" /\ Points[t] > 0
  /\ (\E t \in CountedRows : VerdictOf(t) = "ACCEPTED" /\ Points[t] > 0) => totalScore > 0

(* The loop has ended: at the last testcase, or at an ACM failure.         *)
Ended == test = NTests + 1 \/ (mode = "ACM" /\ ~allAc)

RunInv ==
  /\ RunTypes
  /\ pc \in {"judge", "store", "finish", "publish", "done"} => TotalsAgree
  /\ pc \in {"finish", "publish", "done"} => Ended
  /\ Judged => status = FinalStatus

LEMMA InitRun == Init => RunInv
BY RunAssumption DEF Init, RunInv, RunTypes, Judged, Tests, TestcaseVerdicts, VerdictCodes

LEMMA StartRun == ASSUME RunInv, Start PROVE RunInv'
<1>1. RunTypes' /\ pc' = "judge" /\ test' = 1 /\ allAc' /\ totalScore' = 0 /\ firstFail' = "none"
  BY RunAssumption DEF RunInv, RunTypes, Start, subVars, rowVars, Tests
<1>2. CountedRows' = {}
  BY <1>1 DEF CountedRows
<1>3. TotalsAgree'
  BY <1>1, <1>2 DEF TotalsAgree
<1>4. QED BY <1>1, <1>3 DEF RunInv, Judged

(* A verdict joins the totals. *)
LEMMA JudgeOneRun == ASSUME RunInv, JudgeOne PROVE RunInv'
<1> USE DEF JudgeOne, subVars, rowVars, boundVars
<1>1. PICK code \in Codes :
        /\ verdict' = mapVerdict(code)
        /\ totalScore' = totalScore + PointsFor(mapVerdict(code), test)
        /\ allAc' = (allAc /\ mapVerdict(code) = "ACCEPTED")
        /\ firstFail' = IF mapVerdict(code) # "ACCEPTED" /\ firstFail = "none"
                        THEN mapVerdict(code) ELSE firstFail
  OBVIOUS
<1>2. mapVerdict(code) \in TestcaseVerdicts
  BY RunAssumption DEF mapVerdict, TestcaseVerdicts, VerdictCodes
<1>3. PointsFor(verdict', test) \in Nat /\ Points[test] \in Nat
  BY RunAssumption DEF PointsFor
<1>4. RunTypes'
  BY <1>1, <1>2, <1>3 DEF RunInv, RunTypes, Failures
<1>5. /\ CountedRows = 1..(test - 1) /\ CountedRows' = 1..test /\ test \in Tests /\ test \in Nat
      /\ \A u \in CountedRows : u # test /\ VerdictOf(u)' = VerdictOf(u)
      /\ VerdictOf(test)' = verdict'
  BY DEF CountedRows, VerdictOf, RunInv, RunTypes, Tests
<1>6. CountedRows' = CountedRows \cup {test}
  BY <1>5 DEF Tests
<1>7. TotalsAgree
  BY DEF RunInv
<1>8. TotalsAgree'
  <2>1. allAc' => /\ \A t \in CountedRows' : VerdictOf(t)' = "ACCEPTED"
                  /\ firstFail' = "none"
    BY <1>1, <1>5, <1>6, <1>7 DEF TotalsAgree, RunInv, RunTypes
  <2>2. ASSUME ~allAc'
        PROVE  \E t \in CountedRows' :
                 /\ VerdictOf(t)' = firstFail' /\ firstFail' \in Failures
                 /\ \A u \in 1..(t - 1) : VerdictOf(u)' = "ACCEPTED"
    <3>1. CASE allAc
      <4>1. firstFail' = verdict' /\ verdict' \in Failures /\ VerdictOf(test)' = firstFail'
        BY <1>1, <1>2, <1>5, <1>7, <2>2, <3>1 DEF TotalsAgree, Failures
      <4>2. \A u \in 1..(test - 1) : VerdictOf(u)' = "ACCEPTED"
        BY <1>5, <1>7, <3>1 DEF TotalsAgree
      <4>3. QED BY <1>6, <4>1, <4>2
    <3>2. CASE ~allAc
      <4>1. PICK t \in CountedRows : /\ VerdictOf(t) = firstFail /\ firstFail \in Failures
                                 /\ \A u \in 1..(t - 1) : VerdictOf(u) = "ACCEPTED"
        BY <1>7, <3>2 DEF TotalsAgree
      <4>2. firstFail' = firstFail
        <5>1. "none" \notin Failures
          BY DEF Failures, TestcaseVerdicts, VerdictCodes
        <5>2. QED BY <1>1, <4>1, <5>1
      <4>3. 1..(t - 1) \subseteq CountedRows
        BY <1>5, <4>1 DEF Tests
      <4>4. QED BY <1>5, <1>6, <4>1, <4>2, <4>3
    <3>3. QED BY <3>1, <3>2
  <2>3. /\ verdict' = "ACCEPTED" => totalScore' = totalScore + Points[test]
        /\ verdict' # "ACCEPTED" => totalScore' = totalScore
        /\ totalScore \in Nat
    BY <1>1 DEF PointsFor, RunInv, RunTypes
  <2>4. totalScore' > 0 <=> totalScore > 0 \/ (verdict' = "ACCEPTED" /\ Points[test] > 0)
    BY <1>3, <2>3
  <2>5. totalScore > 0 <=> \E t \in CountedRows : VerdictOf(t) = "ACCEPTED" /\ Points[t] > 0
    BY <1>7 DEF TotalsAgree
  <2>6. totalScore' > 0 <=> \E t \in CountedRows' : VerdictOf(t)' = "ACCEPTED" /\ Points[t] > 0
    BY <1>5, <1>6, <2>4, <2>5
  <2>7. QED BY <2>1, <2>2, <2>6 DEF TotalsAgree
<1>9. QED BY <1>4, <1>8 DEF RunInv, Judged

(* The verdict moves into its row; what is counted stays the same.         *)
LEMMA StoreRun == ASSUME RunInv, Store PROVE RunInv'
<1> USE DEF Store, subVars, sumVars, boundVars
<1>1. /\ test \in Tests /\ test \in Nat /\ test' = test + 1
      /\ pc' \in {"finish", "judge"}
      /\ rows' = [rows EXCEPT ![test] = verdict]
      /\ rows \in [Tests -> TestcaseVerdicts \cup {"PENDING"}]
  BY DEF RunInv, RunTypes, Tests
<1>2. RunTypes'
  BY <1>1, RunAssumption DEF RunInv, RunTypes, Tests
<1>3. CountedRows' = CountedRows /\ CountedRows = 1..test
  BY <1>1 DEF CountedRows
<1>4. \A u \in CountedRows : VerdictOf(u)' = VerdictOf(u)
  <2>1. CountedRows \subseteq Tests
    BY <1>1, <1>3, RunAssumption DEF Tests
  <2>2. QED BY <1>1, <2>1 DEF VerdictOf
<1>5. TotalsAgree'
  <2>1. \A t \in CountedRows : 1..(t - 1) \subseteq CountedRows
    BY <1>1, <1>3
  <2>2. TotalsAgree
    BY DEF RunInv
  <2>3. QED BY <1>3, <1>4, <2>1, <2>2 DEF TotalsAgree
<1>6. pc' = "finish" => Ended'
  BY DEF Ended
<1>7. QED BY <1>1, <1>2, <1>5, <1>6 DEF RunInv, Judged

LEMMA CompleteRun == ASSUME RunInv, Complete PROVE RunInv'
<1> USE DEF Complete, rowVars, sumVars, boundVars
<1>1. pc \in {"finish", "judge"} /\ pc' = "publish" /\ UNCHANGED <<rows, test, verdict, mode>>
  BY DEF LoopDone
<1>2. RunTypes'
  BY <1>1 DEF RunInv, RunTypes
<1>3. TotalsAgree'
  BY <1>1 DEF RunInv, TotalsAgree, CountedRows, VerdictOf
<1>4. Ended'
  <2>1. CASE pc = "finish"
    BY <2>1, <1>1 DEF RunInv, Ended
  <2>2. CASE pc = "judge"
    BY <2>2, <1>1, RunAssumption DEF RunInv, RunTypes, Ended, LoopDone, Tests
  <2>3. QED BY <1>1, <2>1, <2>2
<1>5. status' = FinalStatus'
  BY <1>1 DEF FinalStatus
<1>6. QED BY <1>1, <1>2, <1>3, <1>4, <1>5 DEF RunInv

LEMMA PublishRun == ASSUME RunInv, Publish PROVE RunInv'
BY DEF Publish, subVars, rowVars, sumVars, boundVars, RunInv, RunTypes, TotalsAgree,
       CountedRows, VerdictOf, Ended, Judged, FinalStatus

LEMMA OtherRun == ASSUME RunInv, Throw \/ Crash \/ Rejudge PROVE RunInv'
BY DEF Throw, Crash, Rejudge, ResetRows, InRun, subVars, rowVars, sumVars, boundVars,
       RunInv, RunTypes, Judged

LEMMA StutterRun == ASSUME RunInv, UNCHANGED vars PROVE RunInv'
BY DEF vars, subVars, rowVars, sumVars, boundVars, RunInv, RunTypes, TotalsAgree,
       CountedRows, VerdictOf, Ended, Judged, FinalStatus

LEMMA RunInvariant == Spec => []RunInv
<1>1. RunInv /\ [Next]_vars => RunInv'
  BY StartRun, JudgeOneRun, StoreRun, CompleteRun, PublishRun, OtherRun, StutterRun DEF Next
<1>2. QED BY <1>1, InitRun, PTL DEF Spec

(* What the totals say of the rows once the loop has ended.                *)
LEMMA VerdictFollows == RunInv => VerdictOfRows
<1> SUFFICES ASSUME RunInv, Judged PROVE VerdictOfRows
  BY DEF VerdictOfRows
<1>1. /\ TotalsAgree /\ Ended /\ status = FinalStatus /\ RunTypes
      /\ CountedRows = 1..(test - 1) /\ \A t : VerdictOf(t) = rows[t]
  BY DEF RunInv, Judged, CountedRows, VerdictOf
<1>2. CountedRows \subseteq Tests
  BY <1>1, RunAssumption DEF RunTypes, Tests
<1>3. CASE allAc
  <2>1. CountedRows = Tests
    BY <1>1, <1>3, RunAssumption DEF Ended, RunTypes, Tests
  <2>2. Passed = Tests
    BY <1>1, <1>3, <2>1 DEF TotalsAgree, Passed
  <2>3. QED BY <1>1, <1>3, <2>2 DEF FinalStatus, VerdictOfRows
<1>4. CASE ~allAc
  <2>1. PICK t \in CountedRows : /\ rows[t] = firstFail /\ firstFail \in Failures
                             /\ \A u \in 1..(t - 1) : rows[u] = "ACCEPTED"
    BY <1>1, <1>4 DEF TotalsAgree
  <2>2. FirstFailed(t) /\ t \in Tests
    BY <1>2, <2>1, RunAssumption DEF FirstFailed, Passed, Tests, Failures
  <2>3. Passed # Tests
    BY <2>2 DEF FirstFailed
  <2>4. Category(firstFail) = firstFail
    BY <2>1 DEF Category, Failures, TestcaseVerdicts, VerdictCodes
  <2>5. CASE mode = "OI"
    <3>1. CountedRows = Tests
      BY <1>1, <2>5, RunAssumption DEF Ended, RunTypes, Tests
    <3>2. totalScore > 0 <=> \E u \in Passed : Points[u] > 0
      BY <1>1, <3>1 DEF TotalsAgree, Passed
    <3>3. QED BY <1>1, <1>4, <2>1, <2>2, <2>3, <2>4, <2>5, <3>2
              DEF FinalStatus, VerdictOfRows
  <2>6. CASE mode # "OI"
    BY <1>1, <1>4, <2>1, <2>2, <2>3, <2>4, <2>6 DEF FinalStatus, VerdictOfRows
  <2>7. QED BY <2>5, <2>6
<1>5. QED BY <1>3, <1>4

(* A run ends with the status its rows call for.                           *)
THEOREM VerdictCorrect == Spec => []VerdictOfRows
BY RunInvariant, VerdictFollows, PTL

-----------------------------------------------------------------------------
(* Sums of points. A set of numbers has a least one, which is the induction *)
(* the lemmas about sums rest on.                                          *)

LessNat == {p \in Nat \X Nat : p[1] < p[2]}

LEMMA LeastNat ==
  ASSUME NEW S \in SUBSET Nat, S # {} PROVE \E n \in S : \A m \in S : n <= m
<1>1. OpToRel(<, Nat) = LessNat
  BY DEF OpToRel, LessNat
<1>2. IsWellFoundedOn(LessNat, Nat)
  BY <1>1, NatLessThanWellFounded
<1>3. PICK n \in S : \A m \in S : ~(<<m, n>> \in LessNat)
  BY <1>2, WFMin
<1>4. ASSUME NEW m \in S, m < n PROVE FALSE
  <2>1. <<m, n>> \in Nat \X Nat /\ <<m, n>>[1] < <<m, n>>[2]
    BY <1>4
  <2>2. QED BY <1>3, <2>1 DEF LessNat
<1>5. QED BY <1>4

(* What holds of 0 and passes from one number to the next holds of all.    *)
LEMMA AllNumbers ==
  ASSUME NEW N \in Nat, NEW T \in SUBSET (0..N), 0 \in T,
         \A n \in 1..N : n - 1 \in T => n \in T
  PROVE  T = 0..N
<1>1. SUFFICES ASSUME (0..N) \ T # {} PROVE FALSE
  OBVIOUS
<1>2. PICK n \in (0..N) \ T : \A m \in (0..N) \ T : n <= m
  <2>1. (0..N) \ T \in SUBSET Nat
    OBVIOUS
  <2>2. QED BY <1>1, <2>1, LeastNat
<1>3. n \in 1..N /\ n - 1 \in 0..N /\ n \in Nat
  <2>1. n \in 0..N /\ n # 0
    BY <1>2
  <2>2. QED BY <2>1
<1>4. n - 1 \in T
  <2>1. CASE n - 1 \in (0..N) \ T
    BY <1>2, <1>3, <2>1
  <2>2. QED BY <1>3, <2>1
<1>5. QED BY <1>2, <1>3, <1>4

IsSums(s, f, k) ==
  /\ s \in [0..k -> Nat]
  /\ s[0] = 0 /\ \A n \in 1..k : s[n] = s[n - 1] + f[n]

LEMMA SumsExist ==
  ASSUME NEW f \in [Tests -> Nat] PROVE \E s : IsSums(s, f, NTests)
<1> DEFINE T == {k \in 0..NTests : \E s : IsSums(s, f, k)}
<1>1. 0 \in T
  <2>1. IsSums([n \in 0..0 |-> 0], f, 0)
    BY DEF IsSums
  <2>2. QED BY <2>1, RunAssumption
<1>2. ASSUME NEW k \in 1..NTests, k - 1 \in T PROVE k \in T
  <2>1. PICK s : IsSums(s, f, k - 1)
    BY <1>2
  <2>2. f[k] \in Nat /\ k \in Nat /\ s[k - 1] \in Nat
    BY <2>1, RunAssumption DEF Tests, IsSums
  <2> DEFINE g == [n \in 0..k |-> IF n = k THEN s[k - 1] + f[k] ELSE s[n]]
  <2>3. g \in [0..k -> Nat]
    BY <2>1, <2>2 DEF IsSums
  <2>4. g[0] = 0 /\ \A n \in 1..k : g[n] = g[n - 1] + f[n]
    <3>1. g[0] = 0 /\ g[k] = g[k - 1] + f[k]
      BY <2>1, <2>2 DEF IsSums
    <3>2. ASSUME NEW n \in 1..k, n # k PROVE g[n] = g[n - 1] + f[n]
      <4>1. n \in 1..(k - 1) /\ n - 1 \in 0..k /\ n - 1 # k /\ n \in 0..k
        BY <3>2, <2>2
      <4>2. s[n] = s[n - 1] + f[n]
        BY <2>1, <4>1 DEF IsSums
      <4>3. QED BY <3>2, <4>1, <4>2
    <3>3. QED BY <3>1, <3>2
  <2>5. IsSums(g, f, k)
    BY <2>3, <2>4 DEF IsSums
  <2>6. QED BY <2>5
<1>3. T = 0..NTests
  BY <1>1, <1>2, AllNumbers, RunAssumption
<1>4. QED BY <1>3, RunAssumption

LEMMA SumsOf ==
  ASSUME NEW f \in [Tests -> Nat] PROVE IsSums(PartialSums(f), f, NTests)
<1> DEFINE Eq(s) == s = [n \in 0..NTests |-> IF n = 0 THEN 0 ELSE s[n - 1] + f[n]]
<1>1. PICK s : IsSums(s, f, NTests)
  BY SumsExist
<1>2. Eq(s)
  BY <1>1, RunAssumption DEF IsSums
<1>3. PartialSums(f) = CHOOSE x : Eq(x)
  BY DEF PartialSums
<1>4. Eq(PartialSums(f))
  <2> HIDE DEF Eq
  <2>1. \E x : Eq(x)
    BY <1>2
  <2>2. Eq(CHOOSE x : Eq(x))
    BY <2>1
  <2>3. QED BY <1>3, <2>2
<1>5. QED
  <2> DEFINE p == PartialSums(f)
  <2> HIDE DEF p
  <2>1. p = [n \in 0..NTests |-> IF n = 0 THEN 0 ELSE p[n - 1] + f[n]]
    BY <1>4 DEF p
  <2>2. p[0] = 0 /\ \A n \in 1..NTests : p[n] = p[n - 1] + f[n]
    BY <2>1, RunAssumption
  <2> DEFINE T == {n \in 0..NTests : p[n] \in Nat}
  <2>3. T = 0..NTests
    <3>1. 0 \in T
      BY <2>2, RunAssumption
    <3>2. ASSUME NEW n \in 1..NTests, n - 1 \in T PROVE n \in T
      <4>1. f[n] \in Nat /\ n \in 0..NTests
        BY RunAssumption DEF Tests
      <4>2. QED BY <2>2, <3>2, <4>1
    <3>3. QED BY <3>1, <3>2, AllNumbers, RunAssumption
  <2>4. p \in [0..NTests -> Nat]
    BY <2>1, <2>3
  <2>5. QED BY <2>2, <2>4 DEF IsSums, p

(* Sums of functions that agree up to a number agree there.                *)
LEMMA SumsAgree ==
  ASSUME NEW f \in [Tests -> Nat], NEW g \in [Tests -> Nat], NEW k \in 0..NTests,
         \A t \in 1..k : f[t] = g[t]
  PROVE  PartialSums(f)[k] = PartialSums(g)[k]
<1> DEFINE p == PartialSums(f)
           q == PartialSums(g)
           T == {n \in 0..k : p[n] = q[n]}
<1>1. IsSums(p, f, NTests) /\ IsSums(q, g, NTests)
  BY SumsOf
<1> HIDE DEF p, q
<1>2. k \in Nat /\ k <= NTests /\ NTests \in Nat
  BY RunAssumption
<1>3. 0 \in T
  BY <1>1, <1>2 DEF IsSums
<1>4. ASSUME NEW n \in 1..k, n - 1 \in T PROVE n \in T
  <2>1. n \in 1..NTests /\ n \in 0..k /\ f[n] = g[n] /\ p[n - 1] = q[n - 1]
    BY <1>2, <1>4
  <2>2. p[n] = p[n - 1] + f[n] /\ q[n] = q[n - 1] + g[n]
    BY <1>1, <2>1 DEF IsSums
  <2>3. QED BY <2>1, <2>2
<1>5. T = 0..k
  BY <1>2, <1>3, <1>4, AllNumbers
<1>6. QED BY <1>2, <1>5 DEF p, q

(* The total is the sum of what the testcases counted so far have gained,  *)
(* and the rows stored in this run have the points of their verdicts.      *)
GainOf(t) == PointsFor(VerdictOf(t), t)
Gained == [t \in Tests |-> GainOf(t)]
LastCounted == IF pc = "store" THEN test ELSE test - 1

ScoreInv ==
  /\ rowScore \in [Tests -> Nat]
  /\ pc \in {"judge", "store", "finish", "publish", "done"} =>
       /\ totalScore = PartialSums(Gained)[LastCounted]
       /\ \A t \in 1..(test - 1) : rowScore[t] = PointsFor(rows[t], t)
  /\ Judged => score = FinalScore

LEMMA GainedType == Gained \in [Tests -> Nat] /\ Gained' \in [Tests -> Nat]
BY RunAssumption DEF Gained, GainOf, PointsFor

LEMMA NoSum == ASSUME NEW f \in [Tests -> Nat] PROVE PartialSums(f)[0] = 0
BY SumsOf DEF IsSums

(* What is counted, and its verdicts, stay: the sum stays.                 *)
LEMMA KeepSum ==
  ASSUME NEW k \in 0..NTests, \A t \in 1..k : GainOf(t)' = GainOf(t)
  PROVE  PartialSums(Gained)'[k] = PartialSums(Gained)[k]
<1> DEFINE f == Gained
           g == Gained'
<1>1. f \in [Tests -> Nat] /\ g \in [Tests -> Nat]
  BY GainedType
<1>2. \A t \in 1..k : t \in Tests /\ f[t] = g[t]
  BY RunAssumption DEF Gained, Tests
<1> HIDE DEF f, g
<1>3. PartialSums(f)[k] = PartialSums(g)[k]
  BY <1>1, <1>2, SumsAgree
<1>4. PartialSums(Gained)' = PartialSums(g)
  BY DEF g, PartialSums
<1>5. QED BY <1>3, <1>4 DEF f

LEMMA InitScore == Init => ScoreInv
BY DEF Init, ScoreInv, Judged

LEMMA StartScore == ASSUME RunInv, RunInv', ScoreInv, Start PROVE ScoreInv'
<1>1. /\ pc' = "judge" /\ test' = 1 /\ totalScore' = 0 /\ rowScore' = rowScore
  BY DEF Start, rowVars
<1>2. PartialSums(Gained)'[0] = 0
  <2> DEFINE g == Gained'
  <2>1. g \in [Tests -> Nat]
    BY GainedType
  <2> HIDE DEF g
  <2>2. PartialSums(g)[0] = 0
    BY <2>1, NoSum
  <2>3. QED BY <2>2 DEF g, PartialSums
<1>3. LastCounted' = 0 /\ 1..(test' - 1) = {}
  BY <1>1 DEF LastCounted
<1>4. totalScore' = PartialSums(Gained)'[LastCounted']
  BY <1>1, <1>2, <1>3
<1>5. QED BY <1>1, <1>3, <1>4 DEF ScoreInv, Judged

LEMMA JudgeOneScore == ASSUME RunInv, RunInv', ScoreInv, JudgeOne PROVE ScoreInv'
<1>1. /\ pc = "judge" /\ pc' = "store" /\ test' = test /\ test \in Tests /\ test \in 1..NTests
      /\ test \in Nat /\ NTests \in Nat
      /\ UNCHANGED <<rows, rowScore, score>>
      /\ totalScore' = totalScore + PointsFor(verdict', test)
      /\ totalScore = PartialSums(Gained)[test - 1]
  BY RunAssumption DEF JudgeOne, subVars, rowVars, boundVars, ScoreInv, LastCounted, Tests
<1>2. \A t \in 1..(test - 1) : GainOf(t)' = GainOf(t)
  BY <1>1 DEF GainOf, PointsFor, VerdictOf
<1>3. PartialSums(Gained)'[test - 1] = PartialSums(Gained)[test - 1]
  <2>1. test - 1 \in 0..NTests
    BY <1>1
  <2>2. QED BY <1>2, <2>1, KeepSum
<1>4. PartialSums(Gained)'[test] = PartialSums(Gained)'[test - 1] + GainOf(test)'
  <2> DEFINE g == Gained'
  <2>1. g \in [Tests -> Nat]
    BY GainedType
  <2>2. g[test] = GainOf(test)'
    BY <1>1 DEF Gained, GainOf, VerdictOf, PointsFor
  <2> HIDE DEF g
  <2>3. PartialSums(g)[test] = PartialSums(g)[test - 1] + g[test]
    BY <1>1, <2>1, SumsOf DEF IsSums
  <2>4. PartialSums(Gained)' = PartialSums(g)
    BY DEF g, PartialSums
  <2>5. QED BY <2>2, <2>3, <2>4
<1>5. GainOf(test)' = PointsFor(verdict', test)
  BY <1>1 DEF GainOf, VerdictOf, PointsFor
<1>6. totalScore' = PartialSums(Gained)'[LastCounted']
  BY <1>1, <1>3, <1>4, <1>5 DEF LastCounted
<1>7. QED BY <1>1, <1>6 DEF ScoreInv, Judged, PointsFor

LEMMA StoreScore == ASSUME RunInv, RunInv', ScoreInv, Store PROVE ScoreInv'
<1>1. /\ pc = "store" /\ pc' \in {"judge", "finish"} /\ test' = test + 1
      /\ test \in 1..NTests /\ test \in Tests /\ test \in Nat /\ NTests \in Nat
      /\ rows' = [rows EXCEPT ![test] = verdict]
      /\ rowScore' = [rowScore EXCEPT ![test] = PointsFor(verdict, test)]
      /\ rows \in [Tests -> TestcaseVerdicts \cup {"PENDING"}]
      /\ rowScore \in [Tests -> Nat]
      /\ totalScore' = totalScore /\ totalScore = PartialSums(Gained)[test]
      /\ \A t \in 1..(test - 1) : rowScore[t] = PointsFor(rows[t], t)
  BY RunAssumption
  DEF Store, subVars, sumVars, boundVars, RunInv, RunTypes, ScoreInv, LastCounted, Tests
<1>2. \A t \in 1..test : t \in Tests /\ GainOf(t)' = GainOf(t)
  BY <1>1 DEF GainOf, PointsFor, VerdictOf, Tests
<1>3. PartialSums(Gained)'[test] = PartialSums(Gained)[test]
  <2>1. test \in 0..NTests
    BY <1>1
  <2>2. QED BY <1>2, <2>1, KeepSum
<1>4. LastCounted' = test /\ test' - 1 = test
  BY <1>1 DEF LastCounted
<1>5. \A t \in 1..test : rowScore'[t] = PointsFor(rows'[t], t)
  BY <1>1, <1>2 DEF PointsFor
<1>6. rowScore' \in [Tests -> Nat]
  BY <1>1, RunAssumption DEF PointsFor
<1>7. QED BY <1>1, <1>3, <1>4, <1>5, <1>6 DEF ScoreInv, Judged, PointsFor

LEMMA CompleteScore == ASSUME RunInv, RunInv', ScoreInv, Complete \/ Publish PROVE ScoreInv'
<1>1. /\ pc \in {"judge", "finish", "publish"} /\ pc' \in {"publish", "done"}
      /\ UNCHANGED <<test, rows, rowScore, verdict, totalScore, allAc, mode>>
      /\ score' = FinalScore \/ (pc = "publish" /\ score' = score)
      /\ test \in 1..(NTests + 1)
  BY DEF Complete, Publish, LoopDone, rowVars, sumVars, subVars, boundVars, RunInv, RunTypes
<1>2. score' = FinalScore'
  BY <1>1 DEF ScoreInv, Judged, FinalScore
<1>3. \A t \in Tests : GainOf(t)' = GainOf(t)
  BY <1>1 DEF GainOf, VerdictOf, PointsFor
<1>4. LastCounted' = LastCounted /\ LastCounted \in 0..NTests /\ LastCounted \in Nat
  BY <1>1, RunAssumption DEF LastCounted
<1>5. PartialSums(Gained)'[LastCounted] = PartialSums(Gained)[LastCounted]
  <2>1. \A t \in 1..LastCounted : GainOf(t)' = GainOf(t)
    BY <1>3, <1>4, RunAssumption DEF Tests
  <2>2. QED BY <1>4, <2>1, KeepSum
<1>6. totalScore' = PartialSums(Gained)'[LastCounted']
  BY <1>1, <1>4, <1>5 DEF ScoreInv
<1>7. QED BY <1>1, <1>2, <1>6 DEF ScoreInv, PointsFor

LEMMA OtherScore ==
  ASSUME RunInv, ScoreInv, Throw \/ Crash \/ Rejudge PROVE ScoreInv'
BY DEF Throw, Crash, Rejudge, ResetRows, rowVars, ScoreInv, Judged

LEMMA StutterScore == ASSUME RunInv, RunInv', ScoreInv, UNCHANGED vars PROVE ScoreInv'
<1>1. /\ UNCHANGED <<mode, status, score, rows, rowScore, pc, test, verdict>>
      /\ UNCHANGED <<totalScore, allAc, firstFail>>
  BY DEF vars, subVars, rowVars, sumVars, boundVars
<1>2. Gained' = Gained
  BY <1>1 DEF Gained, GainOf, VerdictOf, PointsFor
<1>3. PartialSums(Gained)' = PartialSums(Gained)
  BY <1>2 DEF PartialSums
<1>4. QED
  BY <1>1, <1>3 DEF ScoreInv, Judged, FinalScore, LastCounted, PointsFor

LEMMA ScoreInvariant == Spec => []ScoreInv
<1>1. RunInv /\ RunInv' /\ ScoreInv /\ [Next]_vars => ScoreInv'
  BY StartScore, JudgeOneScore, StoreScore, CompleteScore, OtherScore, StutterScore DEF Next
<1>2. QED BY <1>1, InitScore, RunInvariant, PTL DEF Spec

LEMMA AllPassedPercent ==
  ASSUME Passed = Tests, Tests # {} PROVE OiPercent = 100
<1>1. NTests \in Nat /\ NTests > 0
  BY RunAssumption DEF Tests
<1>2. Cardinality(Passed) = NTests
  BY <1>1, FS_Interval DEF Tests
<1>3. OiPercent = (200 * NTests + NTests) \div (2 * NTests)
  BY <1>2 DEF OiPercent
<1>4. \A n \in Nat : n > 0 => (200 * n + n) \div (2 * n) = 100
  OBVIOUS
<1>5. QED BY <1>1, <1>3, <1>4

(* What the page shows follows from the rows and the status alone.         *)
LEMMA TablesOfRows ==
  ASSUME mode # "OI", NEW table \in ResultTables PROVE table = {} <=> Passed = Tests
<1> DEFINE failed == {r \in Detail.results : r[2] # "ACCEPTED"}
<1>1. failed = {} <=> Passed = Tests
  <2>1. \A t \in Tests : <<t, rows[t]>> \in Detail.results
    BY DEF Detail
  <2>2. \A r \in Detail.results : \E t \in Tests : r = <<t, rows[t]>>
    BY DEF Detail
  <2>3. ASSUME failed = {} PROVE Passed = Tests
    <3>1. \A t \in Tests : <<t, rows[t]>>[2] = "ACCEPTED"
      BY <2>1, <2>3
    <3>2. QED BY <3>1 DEF Passed
  <2>4. ASSUME Passed = Tests PROVE failed = {}
    BY <2>2, <2>4 DEF Passed
  <2>5. QED BY <2>3, <2>4
<1>2. Detail.mode # "OI" /\ table \in (IF failed = {} THEN {{}} ELSE {{r} : r \in failed})
  BY DEF ResultTables, Detail
<1>3. QED BY <1>1, <1>2

LEMMA StatusOfRows ==
  /\ status = "ACCEPTED" => ResultStatus = "success"
  /\ status \in Failures => ResultStatus = "warning"
<1>1. Detail.status = status
  BY DEF Detail
<1>2. CASE status = "ACCEPTED"
  BY <1>1, <1>2
  DEF ResultStatus, isSubmissionTerminal, VerdictCodes, Failures, TestcaseVerdicts
<1>3. CASE status \in Failures
  BY <1>1, <1>3
  DEF ResultStatus, isSubmissionTerminal, VerdictCodes, Failures, TestcaseVerdicts
<1>4. QED BY <1>2, <1>3

LEMMA ScoreFromRows == RunInv /\ ScoreInv => ScoreOfRows
<1> SUFFICES ASSUME RunInv, ScoreInv, Judged PROVE ScoreOfRows
  BY DEF ScoreOfRows
<1>1. /\ pc \in {"publish", "done"} /\ pc # "store" /\ mode \in {"ACM", "OI"}
      /\ TotalsAgree /\ Ended /\ status = FinalStatus /\ score = FinalScore
      /\ totalScore = PartialSums(Gained)[test - 1] /\ rowScore \in [Tests -> Nat]
      /\ \A t \in 1..(test - 1) : rowScore[t] = PointsFor(rows[t], t)
      /\ allAc \in BOOLEAN /\ test \in 1..(NTests + 1) /\ NTests \in Nat
  BY RunAssumption DEF RunInv, RunTypes, ScoreInv, LastCounted, Judged
<1>2. CountedRows = 1..(test - 1) /\ \A t \in Tests : VerdictOf(t) = rows[t]
  BY <1>1 DEF CountedRows, VerdictOf
<1>3. mode = "OI" \/ allAc => test - 1 = NTests /\ 1..(test - 1) = Tests
  BY <1>1 DEF Ended, Tests
<1>4. allAc <=> Passed = Tests
  <2>1. ASSUME allAc PROVE Passed = Tests
    BY <1>1, <1>2, <1>3, <2>1 DEF TotalsAgree, Passed
  <2>2. ASSUME ~allAc PROVE Passed # Tests
    <3>1. PICK t \in CountedRows : VerdictOf(t) = firstFail /\ firstFail \in Failures
      BY <1>1, <2>2 DEF TotalsAgree
    <3>2. t \in Tests /\ rows[t] # "ACCEPTED"
      BY <1>1, <1>2, <3>1 DEF Failures, Tests
    <3>3. QED BY <3>2 DEF Passed
  <2>3. QED BY <1>1, <2>1, <2>2
<1>5. \A t \in Tests : Gained[t] = (IF t \in Passed THEN Points[t] ELSE 0)
  BY <1>2 DEF Gained, GainOf, PointsFor, Passed
<1>6. /\ Gained = [t \in Tests |-> IF t \in Passed THEN Points[t] ELSE 0]
      /\ Passed = Tests => Gained = Points
  BY <1>5, RunAssumption DEF Gained
<1>7. mode = "OI" \/ allAc => score = Total(Gained)
  BY <1>1, <1>3 DEF FinalScore, Total
<1>8. ASSUME mode = "OI" PROVE rowScore = Gained
  <2>1. \A t \in Tests : rowScore[t] = GainOf(t)
    BY <1>1, <1>2, <1>3, <1>8 DEF GainOf
  <2>2. QED BY <1>1, <2>1 DEF Gained
<1>9. ASSUME mode = "OI"
      PROVE  /\ score = Total([t \in Tests |-> IF t \in Passed THEN Points[t] ELSE 0])
             /\ score = Total(rowScore)
             /\ Tests # {} /\ Passed = Tests => OiPercent = 100
  BY <1>6, <1>7, <1>8, <1>9, AllPassedPercent
<1>10. ASSUME mode # "OI"
       PROVE  /\ score = IF Passed = Tests THEN Total(Points) ELSE 0
              /\ \A table \in ResultTables : table = {} <=> Passed = Tests
  <2>1. score = IF Passed = Tests THEN Total(Points) ELSE 0
    <3>1. CASE allAc
      BY <1>4, <1>6, <1>7, <3>1
    <3>2. CASE ~allAc
      BY <1>1, <1>4, <1>10, <3>2 DEF FinalScore
    <3>3. QED BY <3>1, <3>2
  <2>2. QED BY <1>10, <2>1, TablesOfRows
<1>11. ResultStatus = IF Passed = Tests THEN "success" ELSE "warning"
  <2>1. CASE allAc
    BY <1>1, <1>4, <2>1, StatusOfRows DEF FinalStatus
  <2>2. CASE ~allAc
    <3>1. PICK t \in CountedRows : VerdictOf(t) = firstFail /\ firstFail \in Failures
      BY <1>1, <2>2 DEF TotalsAgree
    <3>2. status \in Failures
      BY <1>1, <2>2, <3>1 DEF FinalStatus, Category, Failures, TestcaseVerdicts, VerdictCodes
    <3>3. QED BY <1>4, <2>2, <3>2, StatusOfRows
  <2>3. QED BY <1>1, <2>1, <2>2
<1>12. QED BY <1>9, <1>10, <1>11 DEF ScoreOfRows

(* The score a run writes is the sum of the points its rows call for, and  *)
(* the page of the submission, which computes its own, agrees with both.   *)
THEOREM ScoreCorrect == Spec => []ScoreOfRows
BY ScoreFromRows, ScoreInvariant, RunInvariant, PTL

-----------------------------------------------------------------------------
(* The sandbox: a run is settled by its first event, and what is accepted  *)
(* has earned it, whatever the order of the events.                        *)

(* A promise that resolved did so at the close event of a program that     *)
(* nobody killed, and an accepted verdict comes from such a promise and    *)
(* from the output and the time it had then. The handlers settle a promise *)
(* only while the run is waiting for it, so no verdict is there yet.       *)
HonestInv ==
  /\ boxPc \in {"compile", "spawn"} => child = "none"
  /\ boxPc \in {"compile", "spawn", "running"} => settled = "none"
  /\ boxPc \in {"compile", "spawn", "running", "classify"} => boxVerdict = "none"
  /\ armed => boxPc \in {"running", "crashed"}
  /\ child # "none" /\ settled = "none" => boxPc \in {"running", "crashed"}
  /\ child \in {"ended", "closed"} => cause \in {"exit", "signal", "term", "oom", "kill"}
  /\ settled = "resolved" => child = "closed" /\ cause \in {"exit", "signal"}
  /\ boxVerdict = "ACCEPTED" => settled = "resolved" /\ output = "right" /\ ~late

LEMMA HonestInit == Box!Init => HonestInv
BY DEF Box!Init, HonestInv

LEMMA HonestNext == ASSUME HonestInv, [Box!Next]_(Box!vars) PROVE HonestInv'
<1> USE DEF HonestInv
<1>1. CASE Box!Compile
  BY <1>1 DEF Box!Compile, Box!Return
<1>2. CASE Box!Spawn
  BY <1>2 DEF Box!Spawn
<1>3. CASE Box!SpawnError
  BY <1>3 DEF Box!SpawnError, Box!Settle
<1>4. ASSUME Box!Alive, Box!OnTimeout PROVE HonestInv'
  BY <1>4 DEF Box!Alive, Box!OnTimeout, Box!Settle, Box!Kill
<1>5. ASSUME Box!Alive, Box!OnClose PROVE HonestInv'
  BY <1>5 DEF Box!Alive, Box!OnClose, Box!Settle
<1>6. CASE Box!Classify
  BY <1>6 DEF Box!Classify, Box!Return
<1>7. CASE Box!RemoveDir
  BY <1>7 DEF Box!RemoveDir
<1>8. CASE Box!ReadInput
  BY <1>8 DEF Box!ReadInput
<1>9. ASSUME NEW c \in {"exit", "signal", "term", "oom", "kill"}, Box!End(c) PROVE HonestInv'
  BY <1>9 DEF Box!End, Box!Running
<1>10. ASSUME NEW o \in {"right", "wrong", "huge"}, Box!OnData(o) PROVE HonestInv'
  BY <1>10 DEF Box!OnData, Box!Running, Box!Kill
<1>11. CASE Box!TimePasses
  BY <1>11 DEF Box!TimePasses
<1>12. CASE Box!OnStdinError
  BY <1>12 DEF Box!OnStdinError
<1>13. CASE UNCHANGED Box!vars
  BY <1>13 DEF Box!vars
<1>14. QED
  BY <1>1, <1>2, <1>3, <1>4, <1>5, <1>6, <1>7, <1>8, <1>9, <1>10, <1>11, <1>12, <1>13
     DEF Box!Next, Box!Program, Box!Node, Box!ProgramEnds, Box!KillEnds

(* No testcase is accepted for what it wrote before it was killed, or      *)
(* after its time.                                                         *)
THEOREM AcceptedIsHonest == Box!Spec => []AcceptedHonest
<1>1. HonestInv => AcceptedHonest
  BY DEF HonestInv, AcceptedHonest, Box!AcceptedHonest
<1>2. QED BY <1>1, HonestInit, HonestNext, PTL DEF Box!Spec

(* No later event changes the outcome of a run.                            *)
THEOREM SettledOnlyOnce == Box!Spec => Box!SettledOnce
<1>1. ASSUME HonestInv, [Box!Next]_(Box!vars)
      PROVE  [settled # "none" => settled' = settled]_(Box!vars)
  <2> SUFFICES ASSUME settled # "none" PROVE settled' = settled
    OBVIOUS
  <2>1. boxPc # "spawn"
    BY <1>1 DEF HonestInv
  <2>2. QED
    BY <1>1, <2>1
    DEF Box!Next, Box!Program, Box!Node, Box!ProgramEnds, Box!KillEnds, Box!End,
        Box!Compile, Box!Return, Box!Spawn, Box!SpawnError, Box!Settle, Box!OnTimeout,
        Box!OnClose, Box!Classify, Box!RemoveDir, Box!ReadInput, Box!OnData,
        Box!TimePasses, Box!OnStdinError, Box!vars
<1>2. QED BY <1>1, HonestInit, HonestNext, PTL DEF Box!Spec, Box!SettledOnce

-----------------------------------------------------------------------------
(* The two together.                                                       *)

LEMMA BoxImplementsStep == ASSUME [BoxNext]_allVars PROVE [Next]_vars
BY DEF BoxNext, allVars, vars, EnterBox, BoxStep, TakeVerdict, BoxThrows, BoxCrashes, Outside, Next

(* The job in the sandbox behaves as JudgeRun says, with the verdicts the  *)
(* sandbox comes to.                                                       *)
THEOREM BoxImplementsRun == BoxSpec => Spec
<1>1. BoxInit => Init
  BY DEF BoxInit
<1>2. QED BY <1>1, BoxImplementsStep, PTL DEF BoxSpec, Spec

(* The status written is the one the rows call for.                        *)
THEOREM BoxVerdictCorrect == BoxSpec => []VerdictOfRows
BY BoxImplementsRun, VerdictCorrect, PTL

(* So is the score, and the page shows it.                                 *)
THEOREM BoxScoreCorrect == BoxSpec => []ScoreOfRows
BY BoxImplementsRun, ScoreCorrect, PTL

-----------------------------------------------------------------------------
(* Between two testcases nothing is left of the sandbox that the next call *)
(* could take for its own.                                                 *)
BoxInv ==
  /\ HonestInv
  /\ Idle => child = "none" /\ settled = "none" /\ boxVerdict = "none" /\ ~armed

LEMMA BoxInvInit == BoxInit => BoxInv
BY DEF BoxInit, BoxInv, Idle, HonestInv

LEMMA BoxInvNext == ASSUME BoxInv, [BoxNext]_allVars PROVE BoxInv'
<1>1. CASE EnterBox
  BY <1>1 DEF EnterBox, BoxInv, Idle, HonestInv
<1>2. CASE BoxStep
  <2>1. Box!Next
    BY <1>2 DEF BoxStep
  <2>2. HonestInv'
    BY <2>1, HonestNext DEF BoxInv
  <2>3. boxPc' # "idle"
    BY <1>2 DEF BoxStep, Idle, Box!Next, Box!Alive, Box!Program, Box!Node, Box!ReadInput,
       Box!ProgramEnds, Box!End, Box!OnData, Box!KillEnds, Box!TimePasses, Box!Compile,
       Box!Return, Box!Spawn, Box!SpawnError, Box!Settle, Box!OnTimeout, Box!OnClose,
       Box!Classify, Box!RemoveDir, Box!OnStdinError
  <2>4. QED BY <2>2, <2>3 DEF BoxInv, Idle
<1>3. ASSUME LeaveBox PROVE BoxInv'
  BY <1>3 DEF LeaveBox, BoxInv, Idle, HonestInv
<1>4. CASE Outside \/ UNCHANGED allVars
  BY <1>4 DEF Outside, allVars, boxVars, BoxInv, Idle, HonestInv
<1>5. QED BY <1>1, <1>2, <1>3, <1>4 DEF BoxNext, TakeVerdict, BoxThrows, BoxCrashes

(* In a job, no testcase is accepted for what the program wrote before it  *)
(* was killed, or after its time.                                          *)
THEOREM BoxAcceptedHonest == BoxSpec => []AcceptedHonest
<1>1. BoxInv => AcceptedHonest
  BY DEF BoxInv, AcceptedHonest, Box!AcceptedHonest, HonestInv
<1>2. QED BY <1>1, BoxInvInit, BoxInvNext, PTL DEF BoxSpec

-----------------------------------------------------------------------------
(* The scoreboard, for any users, problems and bounds. The invariant is    *)
(* the shape of the list of submissions: they come in the order of their   *)
(* times, none of them later than now.                                     *)

(* What a row of submissions holds; they come in the order of their times. *)
Submissions ==
  [user : Users, problem : Problems, at : Nat, mode : {"ACM", "OI"},
   status : {"IN_FLIGHT", "ACCEPTED", "FAILED"}, score : 0..FullScore]
BoardInv ==
  /\ judgeMode \in {"ACM", "OI"} /\ freezeAt \in Nat \cup {NoTime} /\ now \in Nat
  /\ subs \in Seq(Submissions)
  /\ \A i \in DOMAIN subs : subs[i].at <= now
  /\ \A i, j \in DOMAIN subs : i <= j => subs[i].at <= subs[j].at

(* A verdict changes status and score of one submission, no more.          *)
OneChanged(i, st, sc) ==
  /\ DOMAIN subs' = DOMAIN subs /\ subs' \in Seq(Submissions)
  /\ subs'[i] = [subs[i] EXCEPT !.status = st, !.score = sc]
  /\ \A j \in DOMAIN subs : j # i => subs'[j] = subs[j]
  /\ \A j \in DOMAIN subs : /\ subs'[j].at = subs[j].at /\ subs'[j].user = subs[j].user
                            /\ subs'[j].problem = subs[j].problem

LEMMA SubsAre ==
  ASSUME BoardInv
  PROVE  /\ Len(subs) \in Nat /\ DOMAIN subs = 1..Len(subs)
         /\ \A i \in DOMAIN subs : subs[i] \in Submissions /\ subs[i].at \in Nat
<1>1. /\ Len(subs) \in Nat /\ DOMAIN subs = 1..Len(subs)
      /\ \A i \in 1..Len(subs) : subs[i] \in Submissions
  BY DEF BoardInv
<1>2. QED BY <1>1 DEF Submissions

LEMMA ChangedIs ==
  ASSUME BoardInv, NEW i \in DOMAIN subs, NEW st \in {"IN_FLIGHT", "ACCEPTED", "FAILED"},
         NEW sc \in 0..FullScore,
         subs' = [subs EXCEPT ![i].status = st, ![i].score = sc]
  PROVE  OneChanged(i, st, sc)
<1> DEFINE e == [subs[i] EXCEPT !.status = st, !.score = sc]
<1>1. /\ DOMAIN subs = 1..Len(subs) /\ Len(subs) \in Nat
      /\ \A j \in DOMAIN subs : subs[j] \in Submissions
  BY SubsAre
<1>2. /\ e \in Submissions /\ e.at = subs[i].at
      /\ e.user = subs[i].user /\ e.problem = subs[i].problem
  BY <1>1 DEF Submissions
<1>3. subs' = [subs EXCEPT ![i] = e]
  BY <1>1
<1> HIDE DEF e
<1>4. /\ DOMAIN subs' = DOMAIN subs /\ subs'[i] = e
      /\ \A j \in DOMAIN subs : j # i => subs'[j] = subs[j]
  BY <1>1, <1>3
<1>5. subs' \in Seq(Submissions)
  <2>1. subs \in Seq(Submissions) /\ i \in 1..Len(subs)
    BY <1>1 DEF BoardInv
  <2>2. e \in Submissions
    BY <1>2
  <2>3. [subs EXCEPT ![i] = e] \in Seq(Submissions)
    BY <2>1, <2>2, ExceptSeq
  <2>4. QED BY <1>3, <2>3
<1>6. QED BY <1>2, <1>4, <1>5 DEF OneChanged, e

LEMMA BoardStart == ASSUME BoardInit PROVE BoardInv
BY ScoreboardAssumption DEF BoardInit, BoardInv

LEMMA BoardStep == ASSUME BoardInv, [BoardNext]_boardVars PROVE BoardInv'
<1>1. CASE \/ Tick
           \/ \E u \in Users : Register(u) \/ \E b \in BOOLEAN : SetStar(u, b)
           \/ \E m \in {"ACM", "OI"}, f \in (0..EndAt) \cup {NoTime} : UpdateContest(m, f)
           \/ UNCHANGED boardVars
  <2>1. subs' = subs /\ now' \in Nat /\ now <= now'
    BY <1>1 DEF Tick, Register, SetStar, UpdateContest, boardVars, BoardInv
  <2>2. judgeMode' \in {"ACM", "OI"} /\ freezeAt' \in Nat \cup {NoTime}
    BY <1>1, ScoreboardAssumption DEF Tick, Register, SetStar, UpdateContest, boardVars, BoardInv
  <2>3. \A i \in DOMAIN subs : subs[i].at \in Nat
    BY SubsAre
  <2>4. QED BY <2>1, <2>2, <2>3 DEF BoardInv
<1>2. ASSUME NEW u \in Users, NEW p \in Problems, Submit(u, p) PROVE BoardInv'
  <2> DEFINE s == [user |-> u, problem |-> p, at |-> now, mode |-> judgeMode,
                   status |-> "IN_FLIGHT", score |-> 0]
  <2>1. s \in Submissions /\ s.at = now
    BY ScoreboardAssumption DEF Submissions, BoardInv
  <2>2. subs' = Append(subs, s) /\ UNCHANGED <<judgeMode, freezeAt, now>>
    BY <1>2 DEF Submit
  <2> HIDE DEF s
  <2>3. /\ subs' \in Seq(Submissions) /\ DOMAIN subs' = DOMAIN subs \cup {Len(subs) + 1}
        /\ DOMAIN subs = 1..Len(subs) /\ Len(subs) \in Nat
        /\ subs'[Len(subs) + 1] = s /\ \A i \in DOMAIN subs : subs'[i] = subs[i]
    BY <2>1, <2>2 DEF BoardInv
  <2>4. now \in Nat /\ \A i \in DOMAIN subs : subs[i].at \in Nat
    BY SubsAre DEF BoardInv
  <2>5. \A i \in DOMAIN subs' : subs'[i].at <= now'
    BY <2>1, <2>2, <2>3, <2>4 DEF BoardInv
  <2>6. \A i, j \in DOMAIN subs' : i <= j => subs'[i].at <= subs'[j].at
    <3>1. ASSUME NEW i \in DOMAIN subs', NEW j \in DOMAIN subs', i <= j
          PROVE  subs'[i].at <= subs'[j].at
      <4>1. CASE j \in DOMAIN subs
        <5>1. i \in DOMAIN subs
          BY <2>3, <3>1, <4>1
        <5>2. QED BY <2>3, <3>1, <4>1, <5>1 DEF BoardInv
      <4>2. CASE j = Len(subs) + 1
        BY <2>1, <2>2, <2>3, <2>5, <4>2
      <4>3. QED BY <2>3, <4>1, <4>2
    <3>2. QED BY <3>1
  <2>7. QED BY <2>2, <2>3, <2>5, <2>6 DEF BoardInv
<1>3. ASSUME NEW i \in DOMAIN subs,
             \/ \E st \in {"ACCEPTED", "FAILED"}, sc \in 0..FullScore : SetVerdict(i, st, sc)
             \/ ClearVerdict(i)
      PROVE  BoardInv'
  <2>1. PICK st \in {"IN_FLIGHT", "ACCEPTED", "FAILED"}, sc \in 0..FullScore :
          subs' = [subs EXCEPT ![i].status = st, ![i].score = sc]
    <3>1. CASE ClearVerdict(i)
      <4>1. 0 \in 0..FullScore
        BY ScoreboardAssumption
      <4>2. QED BY <3>1, <4>1 DEF ClearVerdict
    <3>2. ASSUME NEW st \in {"ACCEPTED", "FAILED"}, NEW sc \in 0..FullScore, SetVerdict(i, st, sc)
          PROVE  \E t \in {"IN_FLIGHT", "ACCEPTED", "FAILED"}, x \in 0..FullScore :
                   subs' = [subs EXCEPT ![i].status = t, ![i].score = x]
      BY <3>2 DEF SetVerdict
    <3>3. QED BY <1>3, <3>1, <3>2
  <2>2. OneChanged(i, st, sc)
    BY <2>1, ChangedIs
  <2>3. UNCHANGED <<judgeMode, freezeAt, now>>
    BY <1>3 DEF SetVerdict, ClearVerdict
  <2>4. QED BY <2>2, <2>3 DEF OneChanged, BoardInv
<1>4. QED BY <1>1, <1>2, <1>3 DEF BoardNext

-----------------------------------------------------------------------------
(* The loop over the attempts, one submission after another.               *)
Tally == [ac : Nat \cup {NoTime}, failed : Nat]
NoTries == [ac |-> NoTime, failed |-> 0]
Loops(a, k, u, p, full) ==
  /\ a \in [0..k -> Tally] /\ a[0] = NoTries
  /\ \A n \in 1..k : a[n] = IF n \in Attempts(u, p, full) THEN Try(a[n - 1], subs[n])
                            ELSE a[n - 1]

LEMMA TryIs ==
  ASSUME NEW acc \in Tally, NEW s \in Submissions
  PROVE  /\ Try(acc, s) \in Tally
         /\ acc.ac # NoTime => Try(acc, s) = acc
         /\ acc.ac = NoTime /\ Accepted(s) =>
              Try(acc, s).ac = s.at /\ Try(acc, s).failed = acc.failed
         /\ acc.ac = NoTime /\ Failed(s) =>
              Try(acc, s).ac = NoTime /\ Try(acc, s).failed = acc.failed + 1
         /\ acc.ac = NoTime /\ ~Accepted(s) /\ ~Failed(s) => Try(acc, s) = acc
BY DEF Try, Tally, Accepted, Failed, Submissions

LEMMA LoopExists ==
  ASSUME BoardInv, NEW u, NEW p, NEW full
  PROVE  \E a : Loops(a, Len(subs), u, p, full)
<1> DEFINE N == Len(subs)
           T == {k \in 0..N : \E a : Loops(a, k, u, p, full)}
<1>1. N \in Nat /\ \A n \in 1..N : subs[n] \in Submissions
  BY SubsAre
<1>2. 0 \in T
  <2>1. Loops([n \in 0..0 |-> NoTries], 0, u, p, full)
    BY DEF Loops, NoTries, Tally
  <2>2. QED BY <1>1, <2>1
<1> HIDE DEF N
<1>3. ASSUME NEW k \in 1..N, k - 1 \in T PROVE k \in T
  <2>1. PICK a : Loops(a, k - 1, u, p, full)
    BY <1>3
  <2> DEFINE v == IF k \in Attempts(u, p, full) THEN Try(a[k - 1], subs[k]) ELSE a[k - 1]
             b == [n \in 0..k |-> IF n = k THEN v ELSE a[n]]
  <2>2. k \in Nat /\ k - 1 \in 0..(k - 1) /\ a[k - 1] \in Tally /\ a \in [0..(k - 1) -> Tally]
    BY <1>1, <2>1 DEF Loops
  <2>3. v \in Tally
    BY <1>1, <2>2, TryIs
  <2> HIDE DEF v
  <2>4. b \in [0..k -> Tally] /\ b[k] = v /\ \A n \in 0..(k - 1) : b[n] = a[n]
    BY <2>2, <2>3
  <2> HIDE DEF b
  <2>5. ASSUME NEW n \in 1..k
        PROVE  b[n] = IF n \in Attempts(u, p, full) THEN Try(b[n - 1], subs[n]) ELSE b[n - 1]
    <3>1. CASE n = k
      BY <2>2, <2>4, <3>1 DEF v
    <3>2. CASE n # k
      <4>1. n \in 1..(k - 1) /\ n \in 0..(k - 1) /\ n - 1 \in 0..(k - 1)
        BY <2>2, <3>2
      <4>2. QED BY <2>1, <2>4, <4>1 DEF Loops
    <3>3. QED BY <3>1, <3>2
  <2>6. Loops(b, k, u, p, full)
    <3>1. b[0] = NoTries
      BY <2>1, <2>2, <2>4 DEF Loops
    <3>2. QED BY <2>4, <2>5, <3>1 DEF Loops
  <2>7. QED BY <1>3, <2>6
<1>4. T = 0..N
  BY <1>1, <1>2, <1>3, AllNumbers
<1>5. QED BY <1>1, <1>4 DEF N

LEMMA AfterIs ==
  ASSUME BoardInv, NEW u, NEW p, NEW full
  PROVE  Loops(After(u, p, full), Len(subs), u, p, full)
<1> DEFINE N == Len(subs)
           A == Attempts(u, p, full)
           Eq(a) == a = [n \in 0..N |->
                           CASE n = 0 -> NoTries
                             [] n > 0 /\ n \in A -> Try(a[n - 1], subs[n])
                             [] OTHER -> a[n - 1]]
<1>1. PICK a : Loops(a, N, u, p, full)
  BY LoopExists
<1>2. N \in Nat /\ \A n \in 1..N : subs[n] \in Submissions
  BY SubsAre
<1>3. Eq(a)
  <2> HIDE DEF A, N
  <2>1. a \in [0..N -> Tally] /\ a[0] = NoTries
        /\ \A n \in 1..N : a[n] = IF n \in A THEN Try(a[n - 1], subs[n]) ELSE a[n - 1]
    BY <1>1 DEF Loops, A, N
  <2>2. \A n \in 0..N : n = 0 \/ (n > 0 /\ n \in 1..N)
    BY <1>2
  <2>3. \A n \in 0..N : a[n] = CASE n = 0 -> NoTries
                                 [] n > 0 /\ n \in A -> Try(a[n - 1], subs[n])
                                 [] OTHER -> a[n - 1]
    BY <2>1, <2>2
  <2>4. QED BY <2>1, <2>3
<1>4. After(u, p, full) = CHOOSE x : Eq(x)
  BY DEF After, NoTries
<1>5. Eq(After(u, p, full))
  <2> HIDE DEF Eq
  <2>1. Eq(CHOOSE x : Eq(x))
    BY <1>3
  <2>2. QED BY <1>4, <2>1
<1> DEFINE b == After(u, p, full)
<1> HIDE DEF b
<1>6. b = [n \in 0..N |-> CASE n = 0 -> NoTries
                            [] n > 0 /\ n \in A -> Try(b[n - 1], subs[n])
                            [] OTHER -> b[n - 1]]
  BY <1>5 DEF b
<1> HIDE DEF A, N, Eq
<1>7. b[0] = NoTries /\ \A n \in 1..N : b[n] = IF n \in A THEN Try(b[n - 1], subs[n]) ELSE b[n - 1]
  <2>1. b[0] = NoTries
    BY <1>2, <1>6
  <2>2. ASSUME NEW n \in 1..N PROVE b[n] = IF n \in A THEN Try(b[n - 1], subs[n]) ELSE b[n - 1]
    <3>1. n \in 0..N /\ n # 0 /\ n > 0
      BY <1>2
    <3>2. b[n] = CASE n = 0 -> NoTries
                   [] n > 0 /\ n \in A -> Try(b[n - 1], subs[n])
                   [] OTHER -> b[n - 1]
      BY <1>6, <3>1
    <3>3. QED BY <3>1, <3>2
  <2>3. QED BY <2>1, <2>2
<1> DEFINE T == {n \in 0..N : b[n] \in Tally}
<1>8. T = 0..N
  <2>1. 0 \in T
    BY <1>2, <1>7 DEF NoTries, Tally
  <2>2. ASSUME NEW n \in 1..N, n - 1 \in T PROVE n \in T
    <3>1. b[n - 1] \in Tally /\ subs[n] \in Submissions /\ n \in 0..N
      BY <1>2, <2>2
    <3>2. Try(b[n - 1], subs[n]) \in Tally
      BY <3>1, TryIs
    <3>3. QED BY <1>7, <3>1, <3>2
  <2>3. QED BY <1>2, <2>1, <2>2, AllNumbers
<1>9. b \in [0..N -> Tally]
  BY <1>6, <1>8
<1>10. QED BY <1>7, <1>9 DEF Loops, b, A, N

(* What the loop has found so far, without it.                             *)
FailedBefore(n, u, p, full) == {i \in Attempts(u, p, full) : i < n /\ Failed(subs[i])}
LoopAt(k, u, p, full) ==
  LET a == After(u, p, full)[k]
  IN  /\ (\A i \in AcceptedOf(u, p, full) : i > k) =>
           a.ac = NoTime /\ a.failed = Cardinality(FailedBefore(k + 1, u, p, full))
      /\ \A m \in AcceptedOf(u, p, full) :
           m <= k /\ (\A i \in AcceptedOf(u, p, full) : m <= i) =>
             a.ac = subs[m].at /\ a.failed = Cardinality(FailedBefore(m, u, p, full))

LEMMA AttemptsAre ==
  ASSUME BoardInv, NEW u, NEW p, NEW full
  PROVE  /\ Attempts(u, p, full) \subseteq 1..Len(subs)
         /\ AcceptedOf(u, p, full) \subseteq 1..Len(subs)
         /\ \A n \in Nat : IsFiniteSet(FailedBefore(n, u, p, full))
<1>1. Attempts(u, p, full) \subseteq 1..Len(subs) /\ Len(subs) \in Nat
  BY SubsAre DEF Attempts
<1>2. IsFiniteSet(1..Len(subs))
  BY <1>1, FS_Interval
<1>3. ASSUME NEW n \in Nat PROVE IsFiniteSet(FailedBefore(n, u, p, full))
  <2>1. FailedBefore(n, u, p, full) \in SUBSET (1..Len(subs))
    BY <1>1 DEF FailedBefore
  <2>2. QED BY <1>2, <2>1, FS_Subset
<1>4. QED BY <1>1, <1>3 DEF AcceptedOf

LEMMA LoopFinds ==
  ASSUME BoardInv, NEW u, NEW p, NEW full
  PROVE  \A k \in 0..Len(subs) : LoopAt(k, u, p, full)
<1> DEFINE N == Len(subs)
           A == Attempts(u, p, full)
           Ac == AcceptedOf(u, p, full)
           FB(n) == FailedBefore(n, u, p, full)
           a == After(u, p, full)
           T == {k \in 0..N : LoopAt(k, u, p, full)}
<1>1. /\ N \in Nat /\ \A n \in 1..N : subs[n] \in Submissions /\ subs[n].at \in Nat
      /\ A \subseteq 1..N /\ Ac \subseteq 1..N /\ \A n \in Nat : IsFiniteSet(FB(n))
  BY SubsAre, AttemptsAre
<1>2. /\ a \in [0..N -> Tally] /\ a[0] = NoTries
      /\ \A n \in 1..N : a[n] = IF n \in A THEN Try(a[n - 1], subs[n]) ELSE a[n - 1]
  BY AfterIs DEF Loops
<1>3. \A i \in A : i \in Ac <=> Accepted(subs[i])
  BY DEF AcceptedOf
<1>4. Ac \subseteq A
  BY DEF AcceptedOf
<1>5. \A n : FB(n) = {i \in A : i < n /\ Failed(subs[i])}
  BY DEF FailedBefore
<1>6. \A k : LoopAt(k, u, p, full) <=>
        /\ (\A i \in Ac : i > k) => a[k].ac = NoTime /\ a[k].failed = Cardinality(FB(k + 1))
        /\ \A m \in Ac : m <= k /\ (\A i \in Ac : m <= i) =>
             a[k].ac = subs[m].at /\ a[k].failed = Cardinality(FB(m))
  BY DEF LoopAt
<1> HIDE DEF N, A, Ac, FB, a
<1>7. 0 \in T
  <2>1. FB(1) = {}
    <3>1. FB(1) = {i \in A : i < 1 /\ Failed(subs[i])}
      BY <1>5
    <3>2. \A i \in A : ~(i < 1)
      BY <1>1
    <3>3. QED BY <3>1, <3>2
  <2>2. a[0].ac = NoTime /\ a[0].failed = Cardinality(FB(0 + 1))
    <3>1. a[0].ac = NoTime /\ a[0].failed = 0
      BY <1>2 DEF NoTries
    <3>2. Cardinality(FB(0 + 1)) = 0
      <4>1. 0 + 1 = 1
        OBVIOUS
      <4>2. QED BY <2>1, <4>1, FS_EmptySet
    <3>3. QED BY <3>1, <3>2
  <2>3. \A m \in Ac : ~(m <= 0)
    BY <1>1
  <2>4. QED BY <1>1, <1>6, <2>2, <2>3
<1>8. ASSUME NEW k \in 1..N, k - 1 \in T PROVE k \in T
  <2>1. /\ k \in Nat /\ k - 1 \in 0..N /\ k \in 0..N /\ (k - 1) + 1 = k
        /\ subs[k] \in Submissions /\ subs[k].at \in Nat
        /\ a[k - 1] \in Tally
    BY <1>1, <1>2
  <2>2. /\ a[k - 1].ac # NoTime => a[k] = a[k - 1]
        /\ a[k - 1].ac = NoTime /\ k \in Ac =>
             a[k].ac = subs[k].at /\ a[k].failed = a[k - 1].failed
        /\ a[k - 1].ac = NoTime /\ k \in A /\ k \notin Ac /\ Failed(subs[k]) =>
             a[k].ac = NoTime /\ a[k].failed = a[k - 1].failed + 1
        /\ a[k - 1].ac = NoTime /\ k \notin Ac /\ ~(k \in A /\ Failed(subs[k])) => a[k] = a[k - 1]
    <3>1. a[k] = IF k \in A THEN Try(a[k - 1], subs[k]) ELSE a[k - 1]
      BY <1>2
    <3>2. CASE k \notin A
      BY <1>4, <3>1, <3>2
    <3>3. CASE k \in A
      <4>1. a[k] = Try(a[k - 1], subs[k])
        BY <3>1, <3>3
      <4>2. k \in Ac <=> Accepted(subs[k])
        BY <1>3, <3>3
      <4>3. QED BY <2>1, <3>3, <4>1, <4>2, TryIs
    <3>4. QED BY <3>2, <3>3
  <2>3. ASSUME \A i \in Ac : i > k - 1
        PROVE  a[k - 1].ac = NoTime /\ a[k - 1].failed = Cardinality(FB(k))
    BY <1>6, <1>8, <2>1, <2>3
  <2>4. ASSUME NEW m \in Ac, m <= k - 1, \A i \in Ac : m <= i
        PROVE  a[k - 1].ac = subs[m].at /\ a[k - 1].failed = Cardinality(FB(m))
    BY <1>6, <1>8, <2>4
  <2>5. ASSUME \A i \in Ac : i > k
        PROVE  a[k].ac = NoTime /\ a[k].failed = Cardinality(FB(k + 1))
    <3>1. k \notin Ac /\ \A i \in Ac : i > k - 1
      BY <1>1, <2>1, <2>5
    <3>2. a[k - 1].ac = NoTime /\ a[k - 1].failed = Cardinality(FB(k))
      BY <2>3, <3>1
    <3>3. CASE k \in A /\ Failed(subs[k])
      <4>1. FB(k + 1) = FB(k) \cup {k} /\ k \notin FB(k)
        <5>1. FB(k + 1) = {i \in A : i < k + 1 /\ Failed(subs[i])}
              /\ FB(k) = {i \in A : i < k /\ Failed(subs[i])}
          BY <1>5
        <5>2. \A i \in A : i < k + 1 <=> i < k \/ i = k
          BY <1>1, <2>1
        <5>3. ~(k < k)
          BY <2>1
        <5>4. QED BY <3>3, <5>1, <5>2, <5>3
      <4>2. Cardinality(FB(k + 1)) = Cardinality(FB(k)) + 1
        BY <1>1, <2>1, <4>1, FS_AddElement
      <4>3. QED BY <2>2, <3>1, <3>2, <3>3, <4>2
    <3>4. CASE ~(k \in A /\ Failed(subs[k]))
      <4>1. FB(k + 1) = FB(k)
        <5>1. \A i \in A : i < k + 1 <=> i < k \/ i = k
          BY <1>1, <2>1
        <5>2. FB(k + 1) = {i \in A : i < k + 1 /\ Failed(subs[i])}
              /\ FB(k) = {i \in A : i < k /\ Failed(subs[i])}
          BY <1>5
        <5>3. \A i \in A : (i < k + 1 /\ Failed(subs[i])) <=> (i < k /\ Failed(subs[i]))
          BY <3>4, <5>1, Zenon
        <5>4. QED BY <5>2, <5>3
      <4>2. QED BY <2>2, <3>1, <3>2, <3>4, <4>1
    <3>5. QED BY <3>3, <3>4
  <2>6. ASSUME NEW m \in Ac, m <= k, \A i \in Ac : m <= i
        PROVE  a[k].ac = subs[m].at /\ a[k].failed = Cardinality(FB(m))
    <3>1. m \in 1..N /\ m \in Nat
      BY <1>1, <2>6
    <3>2. CASE m = k
      <4>1. \A i \in Ac : i \in Nat
        BY <1>1
      <4>2. \A i \in Ac : k <= i
        BY <2>6, <3>2
      <4>3. \A i \in Ac : i > k - 1
        BY <2>1, <4>1, <4>2
      <4>4. QED BY <2>2, <2>3, <2>6, <3>2, <4>3
    <3>3. CASE m # k
      <4>1. m <= k - 1
        BY <2>1, <2>6, <3>1, <3>3
      <4>2. a[k - 1].ac = subs[m].at /\ a[k - 1].failed = Cardinality(FB(m))
        BY <2>4, <2>6, <4>1
      <4>3. subs[m].at # NoTime
        BY <1>1, <3>1, ScoreboardAssumption
      <4>4. QED BY <2>2, <4>2, <4>3
    <3>4. QED BY <3>2, <3>3
  <2>7. QED BY <1>6, <2>1, <2>5, <2>6
<1>9. T = 0..N
  <2> HIDE DEF T
  <2>1. T \in SUBSET (0..N)
    BY DEF T
  <2>2. QED BY <1>1, <1>7, <1>8, <2>1, AllNumbers
<1>10. QED BY <1>9 DEF N

LEMMA FirstIs ==
  ASSUME BoardInv, NEW u, NEW p, NEW full, AcceptedOf(u, p, full) # {}
  PROVE  /\ FirstAc(u, p, full) \in AcceptedOf(u, p, full)
         /\ \A i \in AcceptedOf(u, p, full) : FirstAc(u, p, full) <= i
<1> DEFINE Ac == AcceptedOf(u, p, full)
           P(m) == m \in Ac /\ \A i \in Ac : m <= i
<1>1. Ac \in SUBSET Nat
  BY AttemptsAre, SubsAre
<1>2. \E m : P(m)
  BY <1>1, LeastNat
<1>3. FirstAc(u, p, full) = CHOOSE m : P(m)
  BY DEF FirstAc, Min
<1> HIDE DEF P
<1>4. P(FirstAc(u, p, full))
  BY <1>2, <1>3
<1>5. QED BY <1>4 DEF P

LEMMA TriedIs ==
  ASSUME BoardInv, NEW u, NEW p, NEW full
  PROVE  /\ AcceptedOf(u, p, full) = {} => Tried(u, p, full).ac = NoTime
         /\ AcceptedOf(u, p, full) # {} =>
              /\ Tried(u, p, full).ac # NoTime
              /\ Tried(u, p, full).ac = subs[FirstAc(u, p, full)].at
              /\ Tried(u, p, full).failed = Cardinality(FailedFirst(u, p, full))
<1>1. LoopAt(Len(subs), u, p, full) /\ Len(subs) \in Nat
  BY LoopFinds, SubsAre
<1>2. AcceptedOf(u, p, full) \subseteq 1..Len(subs)
  BY AttemptsAre
<1>3. CASE AcceptedOf(u, p, full) = {}
  BY <1>1, <1>3 DEF LoopAt, Tried
<1>4. CASE AcceptedOf(u, p, full) # {}
  <2> DEFINE m == FirstAc(u, p, full)
  <2>1. m \in AcceptedOf(u, p, full) /\ \A i \in AcceptedOf(u, p, full) : m <= i
    BY <1>4, FirstIs
  <2>2. m \in 1..Len(subs) /\ m <= Len(subs) /\ subs[m].at \in Nat
    BY <1>1, <1>2, <2>1, SubsAre
  <2>3. FailedFirst(u, p, full) = FailedBefore(m, u, p, full)
    BY DEF FailedFirst, FailedBefore
  <2> HIDE DEF m
  <2>4. Tried(u, p, full).ac = subs[m].at
        /\ Tried(u, p, full).failed = Cardinality(FailedBefore(m, u, p, full))
    BY <1>1, <2>1, <2>2 DEF LoopAt, Tried
  <2>5. subs[m].at # NoTime
    BY <2>2, ScoreboardAssumption
  <2>6. QED BY <1>4, <2>3, <2>4, <2>5 DEF m
<1>5. QED BY <1>3, <1>4

(* The cost of a solved problem by the rules.                              *)
Costs(u, full) ==
  [p \in Solved(u, full) |-> subs[FirstAc(u, p, full)].at \div Minute
                              + 20 * Cardinality(FailedFirst(u, p, full))]

LEMMA RowIs ==
  ASSUME BoardInv, NEW u, NEW full
  PROVE  AcmRow(u, full) = [solved |-> Cardinality(Solved(u, full)),
                            penalty |-> SumOver(Costs(u, full))]
<1> DEFINE t == [p \in Problems |-> Tried(u, p, full)]
           S == {p \in Problems : t[p].ac # NoTime}
           c == [p \in S |-> t[p].ac \div Minute + 20 * t[p].failed]
<1>1. AcmRow(u, full) = [solved |-> Cardinality(S), penalty |-> SumOver(c)]
  BY DEF AcmRow
<1>2. S = Solved(u, full)
  BY TriedIs DEF Solved
<1>3. \A p \in S : t[p].ac = subs[FirstAc(u, p, full)].at
                   /\ t[p].failed = Cardinality(FailedFirst(u, p, full))
  BY <1>2, TriedIs DEF Solved
<1> HIDE DEF t, S
<1>4. c = Costs(u, full)
  BY <1>2, <1>3 DEF Costs
<1> HIDE DEF c
<1>5. QED BY <1>1, <1>2, <1>4

LEMMA PenaltyIs == ASSUME BoardInv PROVE PenaltyByTheRules
BY RowIs DEF PenaltyByTheRules, IcpcPenalty, Costs

(* The penalty of a team is what the rules say, for any submissions in any *)
(* state, any problems and any freeze: of every solved problem the minutes *)
(* to the first accepted submission and 20 for each failed one before it.  *)
THEOREM PenaltyOfTheRules == BoardSpec => []PenaltyByTheRules
<1>1. BoardInv => PenaltyByTheRules
  BY PenaltyIs
<1>2. QED BY <1>1, BoardStart, BoardStep, PTL DEF BoardSpec


-----------------------------------------------------------------------------
(* Sums over a finite set, built up from its smaller subsets to its larger *)
(* ones: a set adds the value of one of its members to the sum of the rest. *)
OneOf(S) == CHOOSE x \in S : TRUE
UpTo(D, k) == {S \in SUBSET D : Cardinality(S) <= k}
Adds(s, f, S) == s[S] = IF S = {} THEN 0 ELSE f[OneOf(S)] + s[S \ {OneOf(S)}]

LEMMA RestIs ==
  ASSUME NEW D, IsFiniteSet(D), NEW k \in Nat, NEW S \in UpTo(D, k), S # {}
  PROVE  /\ OneOf(S) \in S /\ OneOf(S) \in D
         /\ k # 0 /\ S \ {OneOf(S)} \in UpTo(D, k - 1) /\ S \ {OneOf(S)} \in SUBSET D
<1>1. OneOf(S) \in S
  BY DEF OneOf
<1>2. S \in SUBSET D /\ IsFiniteSet(S) /\ Cardinality(S) <= k
  BY FS_Subset DEF UpTo
<1>3. Cardinality(S \ {OneOf(S)}) = Cardinality(S) - 1
  BY <1>1, <1>2, FS_RemoveElement
<1>4. Cardinality(S) \in Nat /\ Cardinality(S) # 0
  BY <1>2, FS_CardinalityType, FS_EmptySet
<1>5. Cardinality(S \ {OneOf(S)}) <= k - 1 /\ k # 0
  BY <1>2, <1>3, <1>4
<1>6. QED BY <1>1, <1>2, <1>5 DEF UpTo

LEMMA UpToAll ==
  ASSUME NEW D, IsFiniteSet(D)
  PROVE  Cardinality(D) \in Nat /\ UpTo(D, Cardinality(D)) = SUBSET D
<1>1. \A S \in SUBSET D : Cardinality(S) <= Cardinality(D)
  BY FS_Subset
<1>2. QED BY <1>1, FS_CardinalityType DEF UpTo

LEMMA TotalsExist ==
  ASSUME NEW D, IsFiniteSet(D), NEW f \in [D -> Nat]
  PROVE  \E s \in [SUBSET D -> Nat] : \A S \in SUBSET D : Adds(s, f, S)
<1> DEFINE N == Cardinality(D)
           T == {k \in 0..N : \E s \in [UpTo(D, k) -> Nat] : \A S \in UpTo(D, k) : Adds(s, f, S)}
<1>1. N \in Nat /\ UpTo(D, N) = SUBSET D
  BY UpToAll
<1> HIDE DEF N
<1>2. 0 \in T
  <2> DEFINE s == [S \in UpTo(D, 0) |-> 0]
  <2>1. s \in [UpTo(D, 0) -> Nat]
    OBVIOUS
  <2>2. \A S \in UpTo(D, 0) : S = {}
    BY RestIs
  <2>3. \A S \in UpTo(D, 0) : Adds(s, f, S)
    BY <2>2 DEF Adds
  <2>4. QED BY <1>1, <2>1, <2>3
<1>3. ASSUME NEW k \in 1..N, k - 1 \in T PROVE k \in T
  <2>1. k \in Nat /\ k - 1 \in Nat
    BY <1>1
  <2>2. PICK r \in [UpTo(D, k - 1) -> Nat] : \A S \in UpTo(D, k - 1) : Adds(r, f, S)
    BY <1>3
  <2> DEFINE s == [S \in UpTo(D, k) |->
                     IF S \in UpTo(D, k - 1) THEN r[S] ELSE f[OneOf(S)] + r[S \ {OneOf(S)}]]
  <2>3. {} \in UpTo(D, k - 1)
    BY <2>1, FS_EmptySet DEF UpTo
  <2>4. \A S \in UpTo(D, k) : S # {} => OneOf(S) \in D /\ S \ {OneOf(S)} \in UpTo(D, k - 1)
    BY <2>1, RestIs
  <2>5. UpTo(D, k - 1) \subseteq UpTo(D, k)
    <3>1. ASSUME NEW S \in UpTo(D, k - 1) PROVE S \in UpTo(D, k)
      <4>1. S \in SUBSET D /\ Cardinality(S) <= k - 1
        BY DEF UpTo
      <4>2. Cardinality(S) \in Nat
        BY <4>1, FS_Subset, FS_CardinalityType
      <4>3. QED BY <2>1, <4>1, <4>2 DEF UpTo
    <3>2. QED BY <3>1
  <2>6. s \in [UpTo(D, k) -> Nat]
    <3>1. ASSUME NEW S \in UpTo(D, k), S \notin UpTo(D, k - 1)
          PROVE  f[OneOf(S)] + r[S \ {OneOf(S)}] \in Nat
      <4>1. f[OneOf(S)] \in Nat /\ r[S \ {OneOf(S)}] \in Nat
        BY <2>3, <2>4, <3>1
      <4>2. QED BY <4>1
    <3>2. QED BY <3>1
  <2>7. \A S \in UpTo(D, k - 1) : s[S] = r[S]
    BY <2>5
  <2>8. ASSUME NEW S \in UpTo(D, k) PROVE Adds(s, f, S)
    <3>1. CASE S \in UpTo(D, k - 1)
      <4>1. S # {} => S \ {OneOf(S)} \in UpTo(D, k - 1)
        BY <2>4
      <4>2. Adds(r, f, S)
        BY <2>2, <3>1
      <4> HIDE DEF s
      <4>3. QED BY <2>7, <3>1, <4>1, <4>2 DEF Adds
    <3>2. CASE S \notin UpTo(D, k - 1)
      <4>1. S # {} /\ S \ {OneOf(S)} \in UpTo(D, k - 1)
        BY <2>3, <2>4, <3>2
      <4>2. s[S] = f[OneOf(S)] + r[S \ {OneOf(S)}]
        BY <3>2
      <4> HIDE DEF s
      <4>3. s[S] = f[OneOf(S)] + s[S \ {OneOf(S)}]
        BY <2>7, <4>1, <4>2
      <4>4. QED BY <4>1, <4>3 DEF Adds
    <3>3. QED BY <3>1, <3>2
  <2> HIDE DEF s
  <2>9. QED BY <1>3, <2>6, <2>8
<1>4. T = 0..N
  <2> HIDE DEF T
  <2>1. T \in SUBSET (0..N)
    BY DEF T
  <2>2. QED BY <1>1, <1>2, <1>3, <2>1, AllNumbers
<1>5. N \in T
  BY <1>1, <1>4
<1>6. QED BY <1>1, <1>5

(* SumOver is such a sum.                                                  *)
Totals(f) ==
  CHOOSE s : s = [S \in SUBSET DOMAIN f |-> IF S = {} THEN 0 ELSE f[OneOf(S)] + s[S \ {OneOf(S)}]]

LEMMA SumIsTotal == ASSUME NEW f PROVE SumOver(f) = Totals(f)[DOMAIN f]
BY DEF SumOver, MapThenSumSet, MapThenFoldSet, Totals, OneOf

LEMMA TotalsAdd ==
  ASSUME NEW D, IsFiniteSet(D), NEW f \in [D -> Nat]
  PROVE  \A S \in SUBSET D : Adds(Totals(f), f, S)
<1> DEFINE Eq(s) == s = [S \in SUBSET D |->
                           IF S = {} THEN 0 ELSE f[OneOf(S)] + s[S \ {OneOf(S)}]]
<1>1. PICK s \in [SUBSET D -> Nat] : \A S \in SUBSET D : Adds(s, f, S)
  BY TotalsExist
<1>2. Eq(s)
  BY <1>1 DEF Adds
<1>3. Totals(f) = CHOOSE x : Eq(x)
  BY DEF Totals
<1>4. Eq(Totals(f))
  <2> HIDE DEF Eq
  <2>1. Eq(CHOOSE x : Eq(x))
    BY <1>2
  <2>2. QED BY <1>3, <2>1
<1> DEFINE t == Totals(f)
<1> HIDE DEF t
<1>5. t = [S \in SUBSET D |-> IF S = {} THEN 0 ELSE f[OneOf(S)] + t[S \ {OneOf(S)}]]
  BY <1>4 DEF t
<1>6. \A S \in SUBSET D : Adds(t, f, S)
  BY <1>5 DEF Adds
<1>7. QED BY <1>6 DEF t

(* A sum of numbers that are not greater is not greater.                   *)
LEMMA SumMono ==
  ASSUME NEW D, IsFiniteSet(D), NEW f \in [D -> Nat], NEW g \in [D -> Nat],
         \A x \in D : f[x] <= g[x]
  PROVE  SumOver(f) <= SumOver(g) /\ SumOver(f) \in Nat /\ SumOver(g) \in Nat
<1> DEFINE N == Cardinality(D)
           a == Totals(f)
           b == Totals(g)
           Le(S) == a[S] \in Nat /\ b[S] \in Nat /\ a[S] <= b[S]
           T == {k \in 0..N : \A S \in UpTo(D, k) : Le(S)}
<1>1. N \in Nat /\ UpTo(D, N) = SUBSET D
  BY UpToAll
<1>2. (\A S \in SUBSET D : Adds(a, f, S)) /\ \A S \in SUBSET D : Adds(b, g, S)
  BY TotalsAdd
<1>3. \A k : UpTo(D, k) \subseteq SUBSET D
  BY DEF UpTo
<1> HIDE DEF N, a, b
<1>4. Le({})
  <2>1. {} \in SUBSET D
    OBVIOUS
  <2>2. Adds(a, f, {}) /\ Adds(b, g, {})
    BY <1>2, <2>1
  <2>3. a[{}] = 0 /\ b[{}] = 0
    BY <2>2 DEF Adds
  <2>4. QED BY <2>3
<1>5. 0 \in T
  <2>1. \A S \in UpTo(D, 0) : S = {}
    BY RestIs
  <2> HIDE DEF Le
  <2>2. \A S \in UpTo(D, 0) : Le(S)
    BY <1>4, <2>1
  <2>3. QED BY <1>1, <2>2
<1>6. ASSUME NEW k \in 1..N, k - 1 \in T PROVE k \in T
  <2>1. k \in Nat
    BY <1>1
  <2>2. ASSUME NEW S \in UpTo(D, k), S # {} PROVE Le(S)
    <3> DEFINE x == OneOf(S)
               R == S \ {x}
    <3>1. x \in D /\ R \in UpTo(D, k - 1)
      BY <2>1, <2>2, RestIs
    <3>2. Le(R)
      BY <1>6, <3>1
    <3>3. S \in SUBSET D
      BY <1>3, <2>2
    <3>4. a[S] = f[x] + a[R] /\ b[S] = g[x] + b[R]
      BY <1>2, <2>2, <3>3 DEF Adds
    <3>5. f[x] \in Nat /\ g[x] \in Nat /\ f[x] <= g[x]
      BY <3>1
    <3> HIDE DEF x, R
    <3>6. QED BY <3>2, <3>4, <3>5
  <2> HIDE DEF Le
  <2>3. \A S \in UpTo(D, k) : Le(S)
    BY <1>4, <2>2
  <2>4. k \in 0..N
    BY <1>1
  <2>5. QED BY <2>3, <2>4
<1>7. T = 0..N
  <2> HIDE DEF T
  <2>1. T \in SUBSET (0..N)
    BY DEF T
  <2>2. QED BY <1>1, <1>5, <1>6, <2>1, AllNumbers
<1>8. Le(D)
  <2>1. N \in T
    BY <1>1, <1>7
  <2>2. QED BY <1>1, <2>1
<1>9. DOMAIN f = D /\ DOMAIN g = D
  OBVIOUS
<1>10. SumOver(f) = a[D] /\ SumOver(g) = b[D]
  BY <1>9, SumIsTotal DEF a, b
<1>11. QED BY <1>8, <1>10

-----------------------------------------------------------------------------
(* What the two action properties need to know of a row, before the step   *)
(* and after it: its solved problems and their costs by the rules, and in  *)
(* OI mode its best score.                                                 *)
RowFacts(u, full) ==
  /\ AcmRow(u, full) = [solved |-> Cardinality(Solved(u, full)),
                        penalty |-> SumOver(Costs(u, full))]
  /\ \A p \in Solved(u, full) :
       /\ FirstAc(u, p, full) \in AcceptedOf(u, p, full)
       /\ \A i \in AcceptedOf(u, p, full) : FirstAc(u, p, full) <= i
       /\ FirstAc(u, p, full) \in DOMAIN subs /\ subs[FirstAc(u, p, full)].at \in Nat
       /\ IsFiniteSet(FailedFirst(u, p, full)) /\ Cardinality(FailedFirst(u, p, full)) \in Nat
  /\ Scores(u, full) \subseteq 0..FullScore
  /\ Scores(u, full) # {} => /\ Max(Scores(u, full)) \in Scores(u, full)
                             /\ \A x \in Scores(u, full) : x <= Max(Scores(u, full))
BoardFacts == BoardInv /\ \A u \in Users, full \in BOOLEAN : RowFacts(u, full)

LEMMA GreatestIs ==
  ASSUME NEW S \in SUBSET (0..FullScore), S # {}
  PROVE  Max(S) \in S /\ \A x \in S : x <= Max(S)
<1> DEFINE B == {b \in 0..FullScore : \A x \in S : x <= b}
           P(m) == m \in S /\ \A x \in S : m >= x
<1>1. FullScore \in Nat /\ FullScore \in B /\ B \in SUBSET Nat
  BY ScoreboardAssumption
<1>2. PICK b \in B : \A c \in B : b <= c
  <2> HIDE DEF B
  <2>1. B # {}
    BY <1>1
  <2>2. QED BY <1>1, <2>1, LeastNat
<1>3. b \in S
  <2>1. SUFFICES ASSUME b \notin S PROVE FALSE
    OBVIOUS
  <2>2. PICK x \in S : TRUE
    OBVIOUS
  <2>3. \A y \in S : y \in Nat /\ y <= b /\ y # b
    BY <1>2, <2>1
  <2>4. b \in Nat /\ b <= FullScore
    BY <1>1, <1>2
  <2>5. b - 1 \in 0..FullScore /\ \A y \in S : y <= b - 1
    BY <1>1, <2>2, <2>3, <2>4
  <2>6. QED BY <1>2, <2>4, <2>5
<1>4. \E m : P(m)
  <2>1. \A x \in S : b >= x
    BY <1>2
  <2>2. QED BY <1>3, <2>1
<1>5. Max(S) = CHOOSE m : P(m)
  BY DEF Max
<1> HIDE DEF P
<1>6. P(Max(S))
  BY <1>4, <1>5
<1>7. QED BY <1>6 DEF P

LEMMA FirstAndFailed ==
  ASSUME BoardInv, NEW u, NEW full, NEW p \in Solved(u, full),
         FirstAc(u, p, full) \in AcceptedOf(u, p, full)
  PROVE  /\ FirstAc(u, p, full) \in DOMAIN subs /\ subs[FirstAc(u, p, full)].at \in Nat
         /\ IsFiniteSet(FailedFirst(u, p, full)) /\ Cardinality(FailedFirst(u, p, full)) \in Nat
<1>1. FirstAc(u, p, full) \in 1..Len(subs) /\ Len(subs) \in Nat
  BY AttemptsAre, SubsAre
<1>2. FailedFirst(u, p, full) = FailedBefore(FirstAc(u, p, full), u, p, full)
  BY DEF FailedFirst, FailedBefore
<1>3. FirstAc(u, p, full) \in Nat
  BY <1>1
<1>4. IsFiniteSet(FailedFirst(u, p, full))
  BY <1>2, <1>3, AttemptsAre
<1>5. Cardinality(FailedFirst(u, p, full)) \in Nat
  BY <1>4, FS_CardinalityType
<1>6. subs[FirstAc(u, p, full)].at \in Nat
  BY <1>1, SubsAre
<1>7. QED BY <1>1, <1>4, <1>5, <1>6, SubsAre

LEMMA RowFactsHold == ASSUME BoardInv PROVE BoardFacts
<1>1. ASSUME NEW u \in Users, NEW full \in BOOLEAN PROVE RowFacts(u, full)
  <2>1. AcmRow(u, full) = [solved |-> Cardinality(Solved(u, full)),
                           penalty |-> SumOver(Costs(u, full))]
    BY RowIs
  <2>2. \A p \in Solved(u, full) :
          /\ FirstAc(u, p, full) \in AcceptedOf(u, p, full)
          /\ \A i \in AcceptedOf(u, p, full) : FirstAc(u, p, full) <= i
          /\ FirstAc(u, p, full) \in DOMAIN subs /\ subs[FirstAc(u, p, full)].at \in Nat
          /\ IsFiniteSet(FailedFirst(u, p, full)) /\ Cardinality(FailedFirst(u, p, full)) \in Nat
    BY FirstIs, FirstAndFailed DEF Solved
  <2>3. Scores(u, full) \subseteq 0..FullScore
    BY SubsAre DEF Scores, Submissions
  <2>4. Scores(u, full) # {} => /\ Max(Scores(u, full)) \in Scores(u, full)
                                /\ \A x \in Scores(u, full) : x <= Max(Scores(u, full))
    BY <2>3, GreatestIs
  <2>5. QED BY <2>1, <2>2, <2>3, <2>4 DEF RowFacts
<1>2. QED BY <1>1 DEF BoardFacts

LEMMA MinutesGrow ==
  ASSUME NEW a \in Nat, NEW b \in Nat, a <= b
  PROVE  a \div Minute \in Nat /\ b \div Minute \in Nat /\ a \div Minute <= b \div Minute
BY ScoreboardAssumption

LEMMA AcceptedStep ==
  ASSUME BoardFacts, BoardFacts', NEW u \in Users, NEW full \in BOOLEAN,
         JudgedAccepted(u), u \in Listed(full)
  PROVE  u \in Listed(full)' /\ ~Better(Row(u, full), Row(u, full)')
<1>1. PICK i \in DOMAIN subs : subs[i].user = u /\ SetVerdict(i, "ACCEPTED", FullScore)
  BY DEF JudgedAccepted
<1>2. /\ UNCHANGED <<judgeMode, freezeAt, now, reg>> /\ subs[i].status = "IN_FLIGHT"
      /\ subs' = [subs EXCEPT ![i].status = "ACCEPTED", ![i].score = FullScore]
  BY <1>1 DEF SetVerdict
<1>3. BoardInv /\ RowFacts(u, full) /\ RowFacts(u, full)' /\ judgeMode \in {"ACM", "OI"}
  BY DEF BoardFacts, BoardInv
<1>4. OneChanged(i, "ACCEPTED", FullScore)
  <2>1. FullScore \in 0..FullScore
    BY ScoreboardAssumption
  <2>2. QED BY <1>2, <1>3, <2>1, ChangedIs
<1>5. /\ subs[i] \in Submissions /\ subs[i].score \in 0..FullScore
      /\ subs'[i].status = "ACCEPTED" /\ subs'[i].score = FullScore
      /\ \A j \in DOMAIN subs : j \in Nat
  BY <1>3, <1>4, SubsAre DEF OneChanged, Submissions
<1>6. \A j \in DOMAIN subs : /\ Accepted(subs[j]) => Accepted(subs'[j])
                             /\ Failed(subs[j]) <=> Failed(subs'[j])
  BY <1>2, <1>4, <1>5 DEF OneChanged, Accepted, Failed
<1>7. \A j \in DOMAIN subs : Counted(subs[j], full)' <=> Counted(subs[j], full)
  BY <1>2, <1>4 DEF OneChanged, Counted, Frozen
<1>8. ASSUME NEW p
      PROVE  /\ Attempts(u, p, full)' = Attempts(u, p, full)
             /\ AcceptedOf(u, p, full) \subseteq AcceptedOf(u, p, full)'
  <2>1. Attempts(u, p, full)' = Attempts(u, p, full)
    BY <1>4, <1>7 DEF Attempts, OneChanged
  <2>2. Attempts(u, p, full) \subseteq DOMAIN subs
    BY DEF Attempts
  <2>3. /\ AcceptedOf(u, p, full) = {j \in Attempts(u, p, full) : Accepted(subs[j])}
        /\ AcceptedOf(u, p, full)' = {j \in Attempts(u, p, full)' : Accepted(subs'[j])}
    BY DEF AcceptedOf
  <2>4. \A j \in Attempts(u, p, full) : Accepted(subs[j]) => Accepted(subs'[j])
    BY <1>6, <2>2 DEF Accepted
  <2>5. QED BY <2>1, <2>3, <2>4
<1>9. Solved(u, full) \subseteq Solved(u, full)' /\ Solved(u, full)' \subseteq Problems
  BY <1>8 DEF Solved
<1>10. ASSUME NEW p \in Solved(u, full)
       PROVE  Costs(u, full)'[p] <= Costs(u, full)[p]
              /\ Costs(u, full)'[p] \in Nat /\ Costs(u, full)[p] \in Nat
  <2> DEFINE m == FirstAc(u, p, full)
             n == FirstAc(u, p, full)'
             F == FailedFirst(u, p, full)
             G == FailedFirst(u, p, full)'
  <2>1. /\ m \in AcceptedOf(u, p, full) /\ m \in DOMAIN subs /\ subs[m].at \in Nat
        /\ IsFiniteSet(F) /\ Cardinality(F) \in Nat
    BY <1>3 DEF RowFacts
  <2>2. p \in Solved(u, full)'
    BY <1>9
  <2>3. /\ \A j \in AcceptedOf(u, p, full)' : n <= j
        /\ n \in DOMAIN subs' /\ subs'[n].at \in Nat
        /\ IsFiniteSet(G) /\ Cardinality(G) \in Nat
    BY <1>3, <2>2 DEF RowFacts
  <2>4. n <= m /\ n \in DOMAIN subs /\ n \in Nat /\ m \in Nat
    BY <1>4, <1>5, <1>8, <2>1, <2>3 DEF OneChanged
  <2>5. subs'[n].at <= subs[m].at
    <3>1. subs[n].at <= subs[m].at
      BY <1>3, <2>1, <2>4 DEF BoardInv
    <3>2. QED BY <1>4, <2>4, <3>1 DEF OneChanged
  <2>6. F = {j \in Attempts(u, p, full) : j < m /\ Failed(subs[j])}
        /\ G = {j \in Attempts(u, p, full)' : j < n /\ Failed(subs'[j])}
    BY DEF FailedFirst
  <2>7. Costs(u, full)[p] = subs[m].at \div Minute + 20 * Cardinality(F)
        /\ Costs(u, full)'[p] = subs'[n].at \div Minute + 20 * Cardinality(G)
    BY <2>2 DEF Costs
  <2>8. Attempts(u, p, full) \subseteq DOMAIN subs
    BY DEF Attempts
  <2> HIDE DEF m, n, F, G
  <2>9. \A j \in DOMAIN subs : j < n => j < m
    BY <1>5, <2>4
  <2>10. G \subseteq F
    <3>1. \A j \in Attempts(u, p, full) : j < n /\ Failed(subs'[j]) => j < m /\ Failed(subs[j])
      BY <1>6, <2>8, <2>9 DEF Failed
    <3>2. Attempts(u, p, full)' = Attempts(u, p, full)
      BY <1>8
    <3>3. QED BY <2>6, <3>1, <3>2
  <2>11. Cardinality(G) <= Cardinality(F)
    BY <2>1, <2>10, FS_Subset
  <2>12. subs'[n].at \div Minute \in Nat /\ subs[m].at \div Minute \in Nat
         /\ subs'[n].at \div Minute <= subs[m].at \div Minute
    BY <2>1, <2>3, <2>5, MinutesGrow
  <2>13. QED BY <2>1, <2>3, <2>7, <2>11, <2>12
<1>11. CASE judgeMode = "OI"
  <2> DEFINE S == Scores(u, full)
             R == Scores(u, full)'
  <2>1. S # {} /\ judgeMode' = "OI"
    BY <1>2, <1>11 DEF Listed
  <2>2. /\ S = {subs[j].score :
                 j \in {k \in DOMAIN subs : Counted(subs[k], full) /\ subs[k].user = u}}
        /\ R = {subs'[j].score :
                 j \in {k \in DOMAIN subs : Counted(subs[k], full) /\ subs[k].user = u}}
    BY <1>4, <1>7 DEF Scores, OneChanged
  <2>3. /\ S \subseteq 0..FullScore /\ R \subseteq 0..FullScore
        /\ Max(S) \in S /\ (R # {} => \A x \in R : x <= Max(R)) /\ (R # {} => Max(R) \in R)
    BY <1>3, <2>1 DEF RowFacts
  <2> HIDE DEF S, R
  <2>4. \A x \in S : \E y \in R : x <= y
    <3>1. ASSUME NEW j \in DOMAIN subs PROVE subs[j].score <= subs'[j].score
      <4>1. subs[j].score \in 0..FullScore /\ FullScore \in Nat
        BY <1>3, SubsAre, ScoreboardAssumption DEF Submissions
      <4>2. CASE j = i
        BY <1>5, <4>1, <4>2
      <4>3. CASE j # i
        BY <1>4, <4>1, <4>3 DEF OneChanged
      <4>4. QED BY <4>2, <4>3
    <3>2. QED BY <2>2, <3>1
  <2>5. R # {} /\ Max(S) <= Max(R) /\ Max(S) \in Nat /\ Max(R) \in Nat
    <3>1. PICK y \in R : Max(S) <= y
      BY <2>3, <2>4
    <3>2. y <= Max(R) /\ Max(R) \in R
      BY <2>3
    <3>3. Max(S) \in 0..FullScore /\ Max(R) \in 0..FullScore /\ y \in 0..FullScore
      BY <2>3, <3>2
    <3>4. Max(S) \in Nat /\ Max(R) \in Nat /\ y \in Nat
      BY <3>3, ScoreboardAssumption
    <3>5. QED BY <3>1, <3>2, <3>4
  <2>6. u \in Listed(full)'
    BY <2>1, <2>5 DEF Listed, R
  <2>7. Row(u, full).score = Max(S) /\ Row(u, full)'.score = Max(R)
    BY <1>11, <2>1 DEF Row, OiRow, S, R
  <2>8. QED BY <1>11, <2>5, <2>6, <2>7 DEF Better
<1>12. CASE judgeMode = "ACM"
  <2> DEFINE S == Solved(u, full)
             R == Solved(u, full)'
             c == Costs(u, full)
             d == Costs(u, full)'
  <2>1. judgeMode' = "ACM" /\ Row(u, full) = AcmRow(u, full) /\ Row(u, full)' = AcmRow(u, full)'
    BY <1>2, <1>12 DEF Row
  <2>2. AcmRow(u, full).solved = Cardinality(S) /\ AcmRow(u, full).penalty = SumOver(c)
    BY <1>3 DEF RowFacts
  <2>3. AcmRow(u, full)'.solved = Cardinality(R) /\ AcmRow(u, full)'.penalty = SumOver(d)
    BY <1>3 DEF RowFacts
  <2>4. S \subseteq R /\ IsFiniteSet(R) /\ IsFiniteSet(S)
    BY <1>9, FS_Subset, ScoreboardAssumption
  <2>5. /\ Cardinality(S) <= Cardinality(R) /\ Cardinality(S) \in Nat /\ Cardinality(R) \in Nat
        /\ Cardinality(S) = Cardinality(R) => S = R
    BY <2>4, FS_Subset, FS_CardinalityType
  <2>6. Cardinality(S) > 0
    BY <1>12, <2>2 DEF Listed
  <2>7. u \in Listed(full)'
    BY <2>1, <2>3, <2>5, <2>6 DEF Listed
  <2>8. ASSUME S = R PROVE SumOver(d) <= SumOver(c) /\ SumOver(d) \in Nat /\ SumOver(c) \in Nat
    <3>1. c \in [S -> Nat] /\ d \in [S -> Nat]
      <4>1. DOMAIN c = S /\ c = [p \in S |-> c[p]] /\ DOMAIN d = S /\ d = [p \in S |-> d[p]]
        BY <2>8 DEF Costs
      <4> HIDE DEF c, d, S, R
      <4>2. \A p \in S : c[p] \in Nat /\ d[p] \in Nat
        BY <1>10 DEF c, d, S
      <4>3. QED BY <4>1, <4>2
    <3>2. \A p \in S : d[p] <= c[p]
      BY <1>10
    <3> HIDE DEF c, d, S, R
    <3>3. QED BY <2>4, <3>1, <3>2, SumMono
  <2> HIDE DEF c, d, S, R
  <2>9. QED BY <1>12, <2>1, <2>2, <2>3, <2>5, <2>7, <2>8 DEF Better
<1>13. QED BY <1>3, <1>11, <1>12

-----------------------------------------------------------------------------
(* A step keeps who submitted what and when, and adds a submission of now. *)
LEMMA StepKeeps ==
  ASSUME BoardInv, [BoardNext]_boardVars
  PROVE  /\ now \in Nat /\ now' \in Nat /\ now <= now'
         /\ \A j \in DOMAIN subs :
              /\ j \in DOMAIN subs' /\ subs'[j].at = subs[j].at
              /\ subs'[j].user = subs[j].user /\ subs'[j].problem = subs[j].problem
         /\ \A j \in DOMAIN subs' : j \notin DOMAIN subs => subs'[j].at = now
<1>1. now \in Nat
  BY DEF BoardInv
<1>2. CASE \/ Tick
           \/ \E u \in Users : Register(u) \/ \E b \in BOOLEAN : SetStar(u, b)
           \/ \E m \in {"ACM", "OI"}, f \in (0..EndAt) \cup {NoTime} : UpdateContest(m, f)
           \/ UNCHANGED boardVars
  <2>1. subs' = subs /\ now' \in Nat /\ now <= now'
    BY <1>1, <1>2 DEF Tick, Register, SetStar, UpdateContest, boardVars
  <2>2. QED BY <1>1, <2>1
<1>3. ASSUME NEW u \in Users, NEW p \in Problems, Submit(u, p)
      PROVE  /\ now' = now
             /\ \A j \in DOMAIN subs : j \in DOMAIN subs' /\ subs'[j] = subs[j]
             /\ \A j \in DOMAIN subs' : j \notin DOMAIN subs => subs'[j].at = now
  <2> DEFINE s == [user |-> u, problem |-> p, at |-> now, mode |-> judgeMode,
                   status |-> "IN_FLIGHT", score |-> 0]
  <2>1. s \in Submissions /\ s.at = now
    BY ScoreboardAssumption DEF Submissions, BoardInv
  <2>2. subs' = Append(subs, s) /\ UNCHANGED now
    BY <1>3 DEF Submit
  <2> HIDE DEF s
  <2>3. /\ DOMAIN subs' = DOMAIN subs \cup {Len(subs) + 1}
        /\ subs'[Len(subs) + 1] = s /\ \A j \in DOMAIN subs : subs'[j] = subs[j]
    BY <2>1, <2>2 DEF BoardInv
  <2>4. QED BY <2>1, <2>2, <2>3
<1>4. ASSUME NEW i \in DOMAIN subs,
             \/ \E st \in {"ACCEPTED", "FAILED"}, sc \in 0..FullScore : SetVerdict(i, st, sc)
             \/ ClearVerdict(i)
      PROVE  /\ now' = now /\ DOMAIN subs' = DOMAIN subs
             /\ \A j \in DOMAIN subs :
                  /\ subs'[j].at = subs[j].at
                  /\ subs'[j].user = subs[j].user /\ subs'[j].problem = subs[j].problem
  <2>1. PICK st \in {"IN_FLIGHT", "ACCEPTED", "FAILED"}, sc \in 0..FullScore :
          subs' = [subs EXCEPT ![i].status = st, ![i].score = sc]
    <3>1. CASE ClearVerdict(i)
      <4>1. 0 \in 0..FullScore
        BY ScoreboardAssumption
      <4>2. QED BY <3>1, <4>1 DEF ClearVerdict
    <3>2. ASSUME NEW st \in {"ACCEPTED", "FAILED"}, NEW sc \in 0..FullScore, SetVerdict(i, st, sc)
          PROVE  \E t \in {"IN_FLIGHT", "ACCEPTED", "FAILED"}, x \in 0..FullScore :
                   subs' = [subs EXCEPT ![i].status = t, ![i].score = x]
      BY <3>2 DEF SetVerdict
    <3>3. QED BY <1>4, <3>1, <3>2
  <2>2. OneChanged(i, st, sc)
    BY <2>1, ChangedIs
  <2>3. now' = now
    BY <1>4 DEF SetVerdict, ClearVerdict
  <2>4. QED BY <2>2, <2>3 DEF OneChanged
<1>5. CASE \E u \in Users, p \in Problems : Submit(u, p)
  BY <1>1, <1>3, <1>5
<1>6. CASE \E i \in DOMAIN subs : \/ \E st \in {"ACCEPTED", "FAILED"}, sc \in 0..FullScore :
                                       SetVerdict(i, st, sc)
                                  \/ ClearVerdict(i)
  BY <1>1, <1>4, <1>6
<1>7. QED BY <1>2, <1>5, <1>6 DEF BoardNext

LEMMA FreezeStep ==
  ASSUME BoardFacts, BoardFacts', [BoardNext]_boardVars,
         freezeAt # NoTime, now > freezeAt, UNCHANGED <<judgeMode, freezeAt, reg>>,
         \A i \in DOMAIN subs' : MadeAfterFreeze(i) \/ subs'[i] = subs[i]
  PROVE  Board(FALSE)' = Board(FALSE)
<1> DEFINE K == {j \in DOMAIN subs : Counted(subs[j], FALSE)}
           L == {j \in DOMAIN subs : Counted(subs[j], FALSE)}'
<1>1. BoardInv /\ freezeAt \in Nat /\ \A u \in Users : RowFacts(u, FALSE) /\ RowFacts(u, FALSE)'
  BY DEF BoardFacts, BoardInv
<1>2. /\ now \in Nat /\ now' \in Nat /\ now <= now'
      /\ \A j \in DOMAIN subs : j \in DOMAIN subs' /\ subs'[j].at = subs[j].at
      /\ \A j \in DOMAIN subs' : j \notin DOMAIN subs => subs'[j].at = now
  BY <1>1, StepKeeps
<1>3. /\ K = {j \in DOMAIN subs : subs[j].at <= freezeAt}
      /\ L = {j \in DOMAIN subs' : subs'[j].at <= freezeAt}
  <2>1. Frozen /\ Frozen' /\ freezeAt' = freezeAt
    BY <1>1, <1>2 DEF Frozen
  <2>2. QED BY <2>1 DEF Counted
<1>4. \A j \in DOMAIN subs : j \in Nat /\ ~(j > Len(subs)) /\ subs[j].at \in Nat
  BY <1>1, SubsAre
<1> HIDE DEF K, L
<1>5. ~(now <= freezeAt)
  BY <1>1, <1>2
<1>6. K = L
  BY <1>2, <1>3, <1>5
<1>7. \A j \in K : j \in DOMAIN subs /\ j \in DOMAIN subs' /\ subs'[j] = subs[j]
  <2>1. \A j \in K : j \in DOMAIN subs /\ j \in DOMAIN subs' /\ subs[j].at <= freezeAt
    BY <1>2, <1>3
  <2>2. \A j \in K : ~MadeAfterFreeze(j)
    BY <1>1, <1>4, <2>1 DEF MadeAfterFreeze
  <2>3. QED BY <2>1, <2>2
<1>8. ASSUME NEW u, NEW p
      PROVE  /\ Attempts(u, p, FALSE) \subseteq K
             /\ Attempts(u, p, FALSE)' = Attempts(u, p, FALSE)
  <2>1. Attempts(u, p, FALSE) = {j \in K : subs[j].user = u /\ subs[j].problem = p}
    BY DEF Attempts, K
  <2>2. Attempts(u, p, FALSE)' = {j \in L : subs'[j].user = u /\ subs'[j].problem = p}
    BY DEF Attempts, L
  <2>3. QED BY <1>6, <1>7, <2>1, <2>2
<1>9. ASSUME NEW u, NEW p
      PROVE  AcceptedOf(u, p, FALSE)' = AcceptedOf(u, p, FALSE)
             /\ AcceptedOf(u, p, FALSE) \subseteq K
  <2>1. /\ AcceptedOf(u, p, FALSE) = {j \in Attempts(u, p, FALSE) : Accepted(subs[j])}
        /\ AcceptedOf(u, p, FALSE)' = {j \in Attempts(u, p, FALSE)' : Accepted(subs'[j])}
    BY DEF AcceptedOf
  <2>2. QED BY <1>7, <1>8, <2>1
<1>10. ASSUME NEW u, NEW p
       PROVE  FirstAc(u, p, FALSE)' = FirstAc(u, p, FALSE)
              /\ FailedFirst(u, p, FALSE)' = FailedFirst(u, p, FALSE)
  <2>1. FirstAc(u, p, FALSE)' = FirstAc(u, p, FALSE)
    BY <1>9 DEF FirstAc
  <2>2. /\ FailedFirst(u, p, FALSE) =
             {j \in Attempts(u, p, FALSE) : j < FirstAc(u, p, FALSE) /\ Failed(subs[j])}
        /\ FailedFirst(u, p, FALSE)' =
             {j \in Attempts(u, p, FALSE)' : j < FirstAc(u, p, FALSE)' /\ Failed(subs'[j])}
    BY DEF FailedFirst
  <2>3. QED BY <1>7, <1>8, <2>1, <2>2
<1>11. ASSUME NEW u \in Users
       PROVE  AcmRow(u, FALSE)' = AcmRow(u, FALSE)
  <2>1. Solved(u, FALSE)' = Solved(u, FALSE)
    BY <1>9 DEF Solved
  <2>2. \A p \in Solved(u, FALSE) : subs'[FirstAc(u, p, FALSE)] = subs[FirstAc(u, p, FALSE)]
    <3>1. \A p \in Solved(u, FALSE) : FirstAc(u, p, FALSE) \in AcceptedOf(u, p, FALSE)
      BY <1>1 DEF RowFacts
    <3>2. QED BY <1>7, <1>9, <3>1
  <2>3. Costs(u, FALSE)' = Costs(u, FALSE)
    BY <1>10, <2>1, <2>2 DEF Costs
  <2>4. /\ AcmRow(u, FALSE) = [solved |-> Cardinality(Solved(u, FALSE)),
                               penalty |-> SumOver(Costs(u, FALSE))]
        /\ AcmRow(u, FALSE)' = [solved |-> Cardinality(Solved(u, FALSE)'),
                                penalty |-> SumOver(Costs(u, FALSE)')]
    BY <1>1 DEF RowFacts
  <2>5. QED BY <2>1, <2>3, <2>4
<1>12. ASSUME NEW u
       PROVE  Scores(u, FALSE)' = Scores(u, FALSE)
  <2>1. Scores(u, FALSE) = {subs[j].score : j \in {k \in K : subs[k].user = u}}
    BY DEF Scores, K
  <2>2. Scores(u, FALSE)' = {subs'[j].score : j \in {k \in L : subs'[k].user = u}}
    BY DEF Scores, L
  <2>3. {k \in L : subs'[k].user = u} = {k \in K : subs[k].user = u}
    BY <1>6, <1>7
  <2>4. QED BY <1>7, <2>1, <2>2, <2>3
<1>13. ASSUME NEW u \in Users
       PROVE  Row(u, FALSE)' = Row(u, FALSE)
  BY <1>11, <1>12 DEF Row, OiRow
<1>14. Listed(FALSE)' = Listed(FALSE)
  <2> DEFINE Has(u) == IF judgeMode = "OI" THEN Scores(u, FALSE) # {}
                       ELSE AcmRow(u, FALSE).solved > 0
  <2>1. Listed(FALSE) = {u \in Users : Has(u)} /\ Listed(FALSE)' = {u \in Users : Has(u)'}
    BY DEF Listed
  <2>2. ASSUME NEW u \in Users PROVE Has(u)' <=> Has(u)
    BY <1>11, <1>12
  <2> HIDE DEF Has
  <2>3. QED BY <2>1, <2>2
<1>15. Official(FALSE)' = Official(FALSE) /\ Official(FALSE) \subseteq Users
  BY <1>14 DEF Official, Listed
<1>16. QED BY <1>13, <1>15 DEF Board

-----------------------------------------------------------------------------
LEMMA BoardAlways == BoardSpec => []BoardInv
BY BoardStart, BoardStep, PTL DEF BoardSpec

(* In any contest, whatever the order in which the verdicts come, and with *)
(* rejudges between them: a verdict ACCEPTED leaves its team on the board, *)
(* with a row that is not worse, on the public board and on the full one.  *)
THEOREM AcceptanceCounts == BoardSpec => AcceptedNeverSetsBack
<1>1. BoardInv => BoardFacts
  BY RowFactsHold
<1>2. BoardFacts /\ BoardFacts' =>
        \A u \in Users, full \in BOOLEAN :
          JudgedAccepted(u) /\ u \in Listed(full) =>
            u \in Listed(full)' /\ ~Better(Row(u, full), Row(u, full)')
  BY AcceptedStep
<1>3. QED BY <1>1, <1>2, BoardAlways, PTL DEF AcceptedNeverSetsBack

(* The public board stays frozen in any contest: past the freeze a step    *)
(* that touches only submissions made after it leaves the board as it is.  *)
THEOREM FrozenBoardStays == BoardSpec => FreezeHolds
<1>1. BoardInv => BoardFacts
  BY RowFactsHold
<1>2. BoardFacts /\ BoardFacts' /\ [BoardNext]_boardVars =>
        (/\ freezeAt # NoTime /\ now > freezeAt
         /\ UNCHANGED <<judgeMode, freezeAt, reg>>
         /\ \A i \in DOMAIN subs' : MadeAfterFreeze(i) \/ subs'[i] = subs[i]
         => Board(FALSE)' = Board(FALSE))
  BY FreezeStep
<1>3. QED BY <1>1, <1>2, BoardAlways, PTL DEF FreezeHolds, BoardSpec
=============================================================================
