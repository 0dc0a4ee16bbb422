------------------------ MODULE SubmissionLifecycle ------------------------
(***************************************************************************)
(* What the judging pipeline promises for a submission, without queue,     *)
(* worker or counter: it is queued, judged and done; done, it may be       *)
(* queued again for a rejudge, which takes its score away; a verdict never *)
(* changes otherwise, and a run never starts that was not queued.          *)
(***************************************************************************)
EXTENDS Naturals

CONSTANT Subs

VARIABLES
  phase,   \* "none", "queued", "judging" or "done"
  shown,   \* a score is shown
  round    \* how often the submission has been queued for a rejudge

vars == <<phase, shown, round>>

Init ==
  /\ phase = [s \in Subs |-> "none"]
  /\ shown = [s \in Subs |-> FALSE]
  /\ round = [s \in Subs |-> 0]

Create(s) ==
  /\ phase[s] = "none"
  /\ phase' = [phase EXCEPT ![s] = "queued"]
  /\ UNCHANGED <<shown, round>>

Start(s) ==
  /\ phase[s] = "queued"
  /\ phase' = [phase EXCEPT ![s] = "judging"]
  /\ UNCHANGED <<shown, round>>

Complete(s) ==
  /\ phase[s] = "judging"
  /\ phase' = [phase EXCEPT ![s] = "done"]
  /\ shown' = [shown EXCEPT ![s] = TRUE]
  /\ UNCHANGED round

(* The run could not be carried out: no score.                             *)
Abort(s) ==
  /\ phase[s] \in {"queued", "judging"}
  /\ phase' = [phase EXCEPT ![s] = "done"]
  /\ UNCHANGED <<shown, round>>

Rejudge(s) ==
  /\ phase[s] = "done"
  /\ phase' = [phase EXCEPT ![s] = "queued"]
  /\ shown' = [shown EXCEPT ![s] = FALSE]
  /\ round' = [round EXCEPT ![s] = @ + 1]

Next == \E s \in Subs : Create(s) \/ Start(s) \/ Complete(s) \/ Abort(s) \/ Rejudge(s)

Spec == Init /\ [][Next]_vars
============================================================================
