----------------------------- MODULE ContestForm -----------------------------
(***************************************************************************)
(* The editor of the contest panel: one form, in the local state of the    *)
(* panel, for a new contest or for the row of an old one, which it is      *)
(* filled from when the server answers. The end follows the start by a     *)
(* duration, the freeze precedes the end by an offset, both in minutes or  *)
(* hours; the problems are a list that is added to, taken from and put in  *)
(* order. Closing the editor, opening another and saving may come at any   *)
(* time between.                                                           *)
(*                                                                         *)
(* Times are minutes. The title, the description, the visibility and the   *)
(* judge mode are plain fields and left out.                               *)
(***************************************************************************)
EXTENDS Integers, Sequences, SequencesExt

CONSTANTS
  Hour,          \* minutes of an hour
  NewHours,      \* length of a new contest (3), in hours
  NewFreeze,     \* minutes shown for a freeze that is not before the end (30)
  Horizon,       \* bound: last minute
  Picks,         \* minutes that are chosen as the start or the end
  Amounts,       \* numbers that are typed
  Problems,
  None,          \* null, undefined
  MaxInputs      \* bound: inputs of the administrator into the form

FormAssumption ==
  /\ Hour \in Nat \ {0, 1} /\ NewHours \in Nat \ {0} /\ NewFreeze \in Nat \ {0}
  /\ Picks \subseteq 0..Horizon /\ Amounts \subseteq Nat \ {0} /\ Horizon \in Nat
  /\ None \notin Nat \union Problems /\ MaxInputs \in Nat

VARIABLES
  stored,  \* the row: start, end, freeze, password, problems
  form,    \* fields of the form, open, editing (the row, or a new one), loading
  adding,  \* addProblemId
  drag,    \* dragIndex, from 1, 0 for none
  details, \* answers with the row under way, no more than two
  saving,  \* what is being saved: None, or a record
  inputs,
  loaded,  \* ghost: the row as the form was filled with it
  touched  \* ghost: what has been changed in the form since

ghosts == <<inputs, loaded, touched>>
vars == <<stored, form, adding, drag, details, saving, ghosts>>

Window(start, end, freeze) == start < end /\ (freeze # None => start <= freeze /\ freeze <= end)

Minutes(value, unit) == IF unit = "hour" THEN value * Hour ELSE value

\* What is more than an hour and no whole hours is shown as that many hours,
\* and no duration as the default.
durationBetween(start, end) ==
  LET m == end - start IN
  IF m > 0 /\ m % Hour = 0 THEN [value |-> m \div Hour, unit |-> "hour"]
  ELSE [value |-> IF m <= 0 THEN NewHours * Hour ELSE m,
        unit |-> IF m >= Hour THEN "hour" ELSE "minute"]

freezeOffsetFromEnd(end, freeze) ==
  LET m == end - freeze IN
  CASE freeze = None -> [value |-> None, unit |-> "minute"]
    [] freeze # None /\ m <= 0 -> [value |-> NewFreeze, unit |-> "minute"]
    [] freeze # None /\ m > 0 /\ m % Hour = 0 -> [value |-> m \div Hour, unit |-> "hour"]
    [] OTHER -> [value |-> m, unit |-> "minute"]

freezeFromOffset(end, value, unit) == IF value = None THEN None ELSE end - Minutes(value, unit)

NewForm(now) ==
  [open |-> TRUE, editing |-> FALSE, loading |-> FALSE,
   start |-> now, end |-> now + NewHours * Hour, value |-> NewHours, unit |-> "hour",
   freezeValue |-> None, freezeUnit |-> "minute", password |-> "", problems |-> <<>>]

Windows == {w \in Picks \X Picks \X (Picks \union {None}) : Window(w[1], w[2], w[3])}

Init ==
  /\ \E w \in Windows :
       stored = [start |-> w[1], end |-> w[2], freeze |-> w[3], password |-> "old",
                  problems |-> SetToSeq(Problems)]
  /\ form = [NewForm(0) EXCEPT !.open = FALSE]
  /\ adding = None /\ drag = 0 /\ details = 0 /\ saving = None
  /\ inputs = 0 /\ loaded = None /\ touched = {}

Editable == form.open /\ ~form.loading
MayInput == inputs < MaxInputs /\ inputs' = inputs + 1
Choice == MayInput /\ UNCHANGED <<loaded, touched>>
Input(what) == MayInput /\ touched' = touched \union {what} /\ UNCHANGED loaded

-----------------------------------------------------------------------------
(* Opening and closing. *)

openCreate(now) ==
  /\ ~form.open
  /\ form' = [NewForm(now) EXCEPT !.loading = form.loading]
  /\ adding' = None /\ loaded' = None /\ touched' = {}
  /\ UNCHANGED <<stored, drag, details, saving, inputs>>

(* The form is shown as it was left, until it is filled.                   *)
openEdit ==
  /\ ~form.open /\ details < 2
  /\ form' = [form EXCEPT !.open = TRUE, !.editing = TRUE, !.loading = TRUE]
  /\ details' = details + 1
  /\ UNCHANGED <<stored, adding, drag, saving, ghosts>>

\* Mutant: the unit of the freeze stays what it was.
FilledKeepingUnit(row) ==
  LET d == durationBetween(row.start, row.end)
      f == freezeOffsetFromEnd(row.end, row.freeze)
  IN [form EXCEPT !.loading = FALSE, !.start = row.start, !.end = row.end,
        !.value = d.value, !.unit = d.unit, !.freezeValue = f.value,
        !.password = "", !.problems = row.problems]

(* The password is not in the answer: the field stays empty.               *)
Filled(row) ==
  LET d == durationBetween(row.start, row.end)
      f == freezeOffsetFromEnd(row.end, row.freeze)
  IN [form EXCEPT !.loading = FALSE, !.start = row.start, !.end = row.end,
        !.value = d.value, !.unit = d.unit, !.freezeValue = f.value, !.freezeUnit = f.unit,
        !.password = "", !.problems = row.problems]

(* The answer fills whatever form is there.                                *)
DetailArrives ==
  /\ details > 0 /\ details' = details - 1
  /\ form' = Filled(stored)
  /\ loaded' = stored /\ touched' = {}
  /\ UNCHANGED <<stored, adding, drag, saving, inputs>>

DetailFails ==
  /\ details > 0 /\ details' = details - 1
  /\ form' = [form EXCEPT !.open = FALSE, !.loading = FALSE]
  /\ UNCHANGED <<stored, adding, drag, saving, ghosts>>

Close ==
  /\ form.open
  /\ form' = [form EXCEPT !.open = FALSE, !.editing = FALSE]
  /\ UNCHANGED <<stored, adding, drag, details, saving, ghosts>>

-----------------------------------------------------------------------------
(* The window. *)

EndAfter(start, value, unit) == start + Minutes(value, unit)

onStartChange(start) ==
  /\ Editable /\ Input("window")
  /\ EndAfter(start, form.value, form.unit) <= Horizon
  /\ form' = [form EXCEPT !.start = start, !.end = EndAfter(start, form.value, form.unit)]
  /\ UNCHANGED <<stored, adding, drag, details, saving>>

(* An end before the start is warned of and not taken.                     *)
onEndPickerChange(end) ==
  LET d == durationBetween(form.start, end) IN
  /\ Editable /\ end >= form.start /\ Input("window")
  /\ form' = [form EXCEPT !.end = end, !.value = d.value, !.unit = d.unit]
  /\ UNCHANGED <<stored, adding, drag, details, saving>>

onDurationChange(value, unit) ==
  /\ Editable /\ Input("window")
  /\ EndAfter(form.start, value, unit) <= Horizon
  /\ form' = [form EXCEPT !.end = EndAfter(form.start, value, unit), !.value = value, !.unit = unit]
  /\ UNCHANGED <<stored, adding, drag, details, saving>>

FreezeChange(value, unit) ==
  /\ Editable /\ Input("freeze")
  /\ form' = [form EXCEPT !.freezeValue = value, !.freezeUnit = unit]
  /\ UNCHANGED <<stored, adding, drag, details, saving>>

PasswordChange ==
  /\ Editable /\ Input("password")
  /\ form' = [form EXCEPT !.password = "new"]
  /\ UNCHANGED <<stored, adding, drag, details, saving>>

-----------------------------------------------------------------------------
(* The problems. Moving and removing are not held back by the loading.     *)

(* splice: what is taken from behind the end is undefined.                 *)
Move(list, from, to) ==
  IF from \in DOMAIN list
  THEN InsertAt(RemoveAt(list, from), to, list[from])
  ELSE InsertAt(list, to, None)

SetProblems(list) ==
  /\ Input("problems")
  /\ form' = [form EXCEPT !.problems = list]
  /\ UNCHANGED <<stored, details, saving>>

moveProblem(from, to) ==
  /\ form.open /\ {from, to} \subseteq DOMAIN form.problems /\ to \in {from - 1, from + 1}
  /\ SetProblems(Move(form.problems, from, to))
  /\ UNCHANGED <<adding, drag>>

DragStart(i) ==
  /\ form.open /\ i \in DOMAIN form.problems
  /\ drag' = i /\ Choice
  /\ UNCHANGED <<stored, form, adding, details, saving>>

(* The index of the drag is that of the list it began in.                  *)
Drop(i) ==
  /\ form.open /\ i \in DOMAIN form.problems /\ drag # 0
  /\ SetProblems(Move(form.problems, drag, i))
  /\ drag' = 0
  /\ UNCHANGED adding

RemoveProblem(i) ==
  /\ form.open /\ i \in DOMAIN form.problems
  /\ SetProblems(SelectSeq(form.problems, LAMBDA p : p # form.problems[i]))
  /\ UNCHANGED <<adding, drag>>

ChooseProblem(p) ==
  /\ Editable /\ p \notin Range(form.problems)
  /\ adding' = p /\ Choice
  /\ UNCHANGED <<stored, form, drag, details, saving>>

AddProblem ==
  /\ Editable /\ adding # None /\ Len(form.problems) <= 2
  /\ SetProblems(Append(form.problems, adding))
  /\ adding' = None
  /\ UNCHANGED drag

-----------------------------------------------------------------------------
(* Saving. *)

Body ==
  [start |-> form.start, end |-> form.end,
   freeze |-> freezeFromOffset(form.end, form.freezeValue, form.freezeUnit),
   password |-> form.password, problems |-> form.problems]

Save ==
  /\ Editable /\ saving = None
  /\ saving' = [editing |-> form.editing, body |-> Body, loaded |-> loaded, touched |-> touched]
  /\ UNCHANGED <<stored, form, adding, drag, details, ghosts>>

(* The server refuses a window that is none, and a list with a problem     *)
(* twice or with none in it. What is saved closes the editor, whichever    *)
(* form is in it by now.                                                   *)
Accepts(body) ==
  /\ Window(body.start, body.end, body.freeze)
  /\ IsInjective(body.problems) /\ None \notin Range(body.problems)

Saved ==
  /\ saving # None /\ saving' = None /\ Accepts(saving.body)
  /\ stored' = IF saving.editing THEN saving.body ELSE stored
  /\ form' = [form EXCEPT !.open = FALSE, !.editing = FALSE]
  /\ UNCHANGED <<adding, drag, details, ghosts>>

NotSaved ==
  /\ saving # None /\ saving' = None
  /\ UNCHANGED <<stored, form, adding, drag, details, ghosts>>

(* Another administrator has saved the same contest.                       *)
Elsewhere ==
  /\ Choice
  /\ \E w \in Windows : stored' = [stored EXCEPT !.start = w[1], !.end = w[2], !.freeze = w[3]]
  /\ UNCHANGED <<form, adding, drag, details, saving>>

Units == {"minute", "hour"}
Next ==
  \/ openEdit \/ DetailArrives \/ DetailFails \/ Close \/ Save \/ Saved \/ NotSaved \/ Elsewhere
  \/ AddProblem \/ PasswordChange
  \/ \E t \in Picks : openCreate(t) \/ onStartChange(t) \/ onEndPickerChange(t)
  \/ \E n \in Amounts, u \in Units : onDurationChange(n, u) \/ FreezeChange(n, u)
  \/ \E u \in Units : FreezeChange(None, u)
  \/ \E i, j \in 1..3 : moveProblem(i, j)
  \/ \E i \in 1..3 : DragStart(i) \/ Drop(i) \/ RemoveProblem(i)
  \/ \E p \in Problems : ChooseProblem(p)

Spec == Init /\ [][Next]_vars

-----------------------------------------------------------------------------
(* What an administrator has not touched is saved as the form was filled   *)
(* with it, through all the conversions of times into amounts and back,    *)
(* and whatever the form held before. A freeze at the very end is not, and *)
(* the password never is.                                                  *)
UntouchedKept ==
  saving # None /\ saving.editing =>
    LET was == saving.loaded  is == saving.body  Kept(what) == what \notin saving.touched IN
    /\ Kept("window") => is.start = was.start /\ is.end = was.end
    /\ Kept("window") /\ Kept("freeze") /\ was.freeze # was.end => is.freeze = was.freeze
    /\ Kept("problems") => is.problems = was.problems
=============================================================================
