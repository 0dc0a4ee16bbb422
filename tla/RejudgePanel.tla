----------------------------- MODULE RejudgePanel -----------------------------
(***************************************************************************)
(* The rejudge panel of an administrator and RejudgeService behind it. The *)
(* administrator chooses a scope, problems or contests in it, verdicts to  *)
(* filter by, ticks rows of the list that answers, and confirms. The list  *)
(* is that of the last answer: submissions are judged, rejudged and made   *)
(* meanwhile. The server finds the submissions again from what it is sent, *)
(* and takes one after the other.                                          *)
(***************************************************************************)
EXTENDS Naturals, FiniteSets

CONSTANTS
  Subs, ProblemOf, ContestOf,  \* submissions; the problem, and the contest or None, of each
  None,
  Verdicts,                    \* terminal statuses
  MaxBatch,                    \* REJUDGE_BATCH_MAX
  MaxClicks                    \* bound: choices of scope, ids, verdicts; confirmations;
                               \* verdicts that come in

ProblemIds == {ProblemOf[s] : s \in Subs}
ContestIds == {ContestOf[s] : s \in Subs} \ {None}
Scopes == {"submission", "problem", "contest"}

PanelAssumption == MaxBatch \in Nat /\ MaxClicks \in Nat /\ {"none", "waiting"} \cap Verdicts = {}

VARIABLES
  status,  \* of every submission: a verdict, "waiting" for one, or "none": not made yet
  panel,   \* scope, ids (scopeIds), filter (statusFilter), picked (selectedRowKeys)
  lists,   \* the query cache: answers by key, [key, rows]
  fetch,   \* keys being asked for
  work,    \* the confirmation under way: None, or a record
  clicks,
  seen     \* ghost: rows that have been shown under the scope, ids and filter of now

vars == <<status, panel, lists, fetch, work, clicks, seen>>

Key(p) == [scope |-> p.scope, ids |-> p.ids, filter |-> p.filter]
Rows(k) == UNION {l.rows : l \in {x \in lists : x.key = k}}
Shown == Rows(Key(panel))
Enabled(k) == k.scope = "submission" \/ k.ids # {}

NewPanel(scope) == [scope |-> scope, ids |-> {}, filter |-> {}, picked |-> {}]

Init ==
  /\ status \in [Subs -> Verdicts \union {"none"}]
  /\ panel = NewPanel("submission")
  /\ lists = {} /\ fetch = {Key(panel)} /\ work = None
  /\ clicks = 0 /\ seen = {}

Click == clicks < MaxClicks /\ clicks' = clicks + 1

-----------------------------------------------------------------------------
(* The server. *)

\* Verdicts that are none are left out; with none left, all are meant.
statusFilter(statuses) == IF statuses = {} THEN Verdicts ELSE statuses

Belongs(s, scope, ids) ==
  CASE scope = "problem" -> ProblemOf[s] \in ids
    [] scope = "contest" -> ContestOf[s] \in ids
    [] scope = "submission" -> ids = {} \/ s \in ids

(* Of submissions without ids, all are meant; of problems or contests      *)
(* without ids, none. The code takes at most the last 200, of problems and *)
(* contests the last 2000, and refuses all of an id that is not found: less*)
(* is shown and queued then than here, never more.                         *)
resolveSubmissions(scope, ids, only, statuses) ==
  {s \in Subs : /\ Belongs(s, scope, ids) /\ status[s] \in statusFilter(statuses)
                /\ only = {} \/ s \in only}

(* partitionEligible finds nothing to skip: all that was resolved is final.*)
Eligible(body) == resolveSubmissions(body.scope, body.ids, body.only, body.statuses)

ListCandidates(k) ==
  resolveSubmissions(k.scope, k.ids, {}, k.filter)

(* execute takes one submission after the other, and skips what has been   *)
(* queued in the meantime.                                                 *)
Resolve ==
  /\ work # None /\ work.pc = "sent"
  /\ LET found == Eligible(work.body) IN
     IF Cardinality(found) > MaxBatch
     THEN work' = None
     ELSE work' = [work EXCEPT !.pc = "loop", !.todo = found,
                               !.was = {[sub |-> s, status |-> status[s]] : s \in found}]
  /\ UNCHANGED <<status, panel, lists, fetch, clicks, seen>>

rejudgeOne(s) ==
  /\ work # None /\ work.pc = "loop" /\ s \in work.todo
  /\ IF status[s] \in Verdicts
     THEN /\ status' = [status EXCEPT ![s] = "waiting"]
          /\ work' = [work EXCEPT !.todo = @ \ {s}, !.queued = @ \union {s}]
     ELSE /\ work' = [work EXCEPT !.todo = @ \ {s}]
          /\ UNCHANGED status
  /\ UNCHANGED <<panel, lists, fetch, clicks, seen>>

(* Submissions are made, judged, and rejudged by other administrators.     *)
Rejudged(s) ==
  /\ status[s] \in Verdicts /\ Click
  /\ status' = [status EXCEPT ![s] = "waiting"]
  /\ UNCHANGED <<panel, lists, fetch, work, seen>>

Made(s) ==
  /\ status[s] = "none" /\ Click
  /\ status' = [status EXCEPT ![s] = "waiting"]
  /\ UNCHANGED <<panel, lists, fetch, work, seen>>

Judged(s, v) ==
  /\ status[s] = "waiting" /\ Click
  /\ status' = [status EXCEPT ![s] = v]
  /\ UNCHANGED <<panel, lists, fetch, work, seen>>

-----------------------------------------------------------------------------
(* The panel. *)

(* A query with another key shows what the cache has for it, and asks.     *)
Turn(p) ==
  /\ panel' = p
  /\ fetch' = IF Enabled(Key(p)) THEN fetch \union {Key(p)} ELSE fetch
  /\ seen' = Rows(Key(p))
  /\ UNCHANGED <<status, lists, work>>

ChooseScope(scope) == scope # panel.scope /\ Click /\ Turn(NewPanel(scope))

ChooseIds(ids) ==
  /\ panel.scope # "submission" /\ ids # panel.ids /\ Click
  /\ ids \subseteq (IF panel.scope = "problem" THEN ProblemIds ELSE ContestIds)
  /\ Turn([panel EXCEPT !.ids = ids, !.picked = {}])

\* Mutant: the ticks outlive another choice of verdicts.
ChooseFilterKeeping(filter) ==
  /\ filter # panel.filter /\ Click
  /\ Turn([panel EXCEPT !.filter = filter])

ChooseFilter(filter) ==
  /\ filter # panel.filter /\ Click
  /\ Turn([panel EXCEPT !.filter = filter, !.picked = {}])

Answered(k) ==
  /\ k \in fetch
  /\ fetch' = fetch \ {k}
  /\ lists' = {l \in lists : l.key # k} \union {[key |-> k, rows |-> ListCandidates(k)]}
  /\ seen' = IF k = Key(panel) THEN seen \union ListCandidates(k) ELSE seen
  /\ UNCHANGED <<status, panel, work, clicks>>

Unanswered(k) ==
  /\ k \in fetch
  /\ fetch' = fetch \ {k}
  /\ UNCHANGED <<status, panel, lists, work, clicks, seen>>

Focus ==
  /\ Enabled(Key(panel)) /\ Key(panel) \notin fetch
  /\ fetch' = fetch \union {Key(panel)}
  /\ UNCHANGED <<status, panel, lists, work, clicks, seen>>

(* A tick drops those of rows that are not shown any more; without one     *)
(* they stay.                                                              *)
Tick(s) ==
  /\ s \in Shown
  /\ LET kept == panel.picked \intersect Shown
     IN panel' = [panel EXCEPT !.picked = IF s \in kept THEN kept \ {s} ELSE kept \union {s}]
  /\ UNCHANGED <<status, lists, fetch, work, clicks, seen>>

SelectAll ==
  /\ Shown # {} /\ panel' = [panel EXCEPT !.picked = Shown]
  /\ UNCHANGED <<status, lists, fetch, work, clicks, seen>>

ClearAll ==
  /\ panel' = [panel EXCEPT !.picked = {}]
  /\ UNCHANGED <<status, lists, fetch, work, clicks, seen>>

canPreview == IF panel.scope = "submission" THEN panel.picked # {} ELSE panel.ids # {}

requestBody ==
  [scope |-> panel.scope,
   ids |-> IF panel.scope = "submission" THEN panel.picked ELSE panel.ids,
   only |-> IF panel.scope = "submission" THEN {} ELSE panel.picked,
   statuses |-> panel.filter]

(* One confirmation at a time. What it was given for is kept beside it.    *)
Confirm ==
  /\ canPreview /\ work = None /\ Click
  /\ work' = [pc |-> "sent", body |-> requestBody, todo |-> {}, queued |-> {}, was |-> {},
              panel |-> panel, seen |-> seen]
  /\ UNCHANGED <<status, panel, lists, fetch, seen>>

(* The answer shows the result, and the list of now is asked for again,    *)
(* also one that is not enabled.                                           *)
Executed ==
  /\ work # None /\ work.pc = "loop" /\ work.todo = {}
  /\ work' = None /\ fetch' = fetch \union {Key(panel)}
  /\ UNCHANGED <<status, panel, lists, clicks, seen>>

(* The call fails before it is served.                                     *)
NotExecuted ==
  /\ work # None /\ work.pc = "sent" /\ work' = None
  /\ UNCHANGED <<status, panel, lists, fetch, clicks, seen>>

Next ==
  \/ Resolve \/ SelectAll \/ ClearAll \/ Confirm \/ Executed \/ NotExecuted \/ Focus
  \/ \E s \in Subs : rejudgeOne(s) \/ Rejudged(s) \/ Made(s) \/ Tick(s) \/ \E v \in Verdicts : Judged(s, v)
  \/ \E scope \in Scopes : ChooseScope(scope)
  \/ \E ids \in (SUBSET ProblemIds) \union (SUBSET ContestIds) : ChooseIds(ids)
  \/ \E filter \in SUBSET Verdicts : ChooseFilter(filter)
  \/ \E k \in fetch : Answered(k) \/ Unanswered(k)

Spec == Init /\ [][Next]_vars

-----------------------------------------------------------------------------
(* A confirmation queues what the administrator has ticked in a list shown *)
(* for the scope, ids and verdicts of the moment (or, with nothing ticked, *)
(* what belongs to the chosen problems or contests), with a verdict that   *)
(* passes the filter still, and nothing else.                              *)
OnlyWhatWasPicked ==
  work # None =>
    \A s \in work.queued :
      /\ IF work.panel.picked = {}
         THEN /\ work.panel.scope # "submission"
              /\ Belongs(s, work.panel.scope, work.panel.ids)
         ELSE s \in work.panel.picked /\ s \in work.seen
      /\ \E w \in work.was : w.sub = s /\ w.status \in statusFilter(work.panel.filter)
=============================================================================
