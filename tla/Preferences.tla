----------------------------- MODULE Preferences -----------------------------
(***************************************************************************)
(* The preferred language and judge mode of one user: the row in the       *)
(* database, the settings page that shows and changes them, and the submit *)
(* page in another tab, whose form is a template made of them, or of the   *)
(* contest it submits to. A page keeps its fields in local state; answers  *)
(* of a query overwrite them when they differ from the last ones, and come *)
(* when they come. Calls under way at once reach the server in any order.  *)
(*                                                                         *)
(* Code is the language it is written in.                                  *)
(***************************************************************************)
EXTENDS Naturals

CONSTANTS
  Langs, Modes,
  DefaultLang, DefaultMode,  \* what stands for a preference never chosen
  Null,                      \* no data, no preference, nothing under way
  MaxChoices                 \* bound: choices made on the two pages and by
                             \* the administrator of the contest

(* What a row holds, and what a query of the profile answers.              *)
PrefRows == [lang : Langs \union {Null}, mode : Modes \union {Null}]
Queries == [value : PrefRows \union {Null}]

PreferencesAssumption ==
  /\ DefaultLang \in Langs /\ DefaultMode \in Modes
  /\ Null \notin Langs \union Modes \union Queries /\ MaxChoices \in Nat

VARIABLES
  prefs,       \* users.preferred_language, preferred_judge_mode
  contestMode, \* contests.judge_mode
  settings,    \* the settings page: lang, mode, data (of the query), ready
  profile,     \* the query of the profile: Null, or [value], read or not
  patches,     \* calls of PATCH /users/me under way: [n, lang, mode, done]
  submit,      \* the submit page: lang, mode, code, data
  context,     \* the query of the submit context: Null, or [value]
  contest,     \* the submit page is that of a contest
  sent,        \* the submission under way: Null, or what the form had
  choices,     \* choices made
  amiss        \* ghost: calls were done out of order, or one has failed

settingsVars == <<settings, profile, patches>>
submitVars == <<submit, context, sent>>
vars == <<prefs, contestMode, settingsVars, submitVars, contest, choices, amiss>>

Or(pref, default) == IF pref = Null THEN default ELSE pref
NewQuery == [value |-> Null]

Init ==
  /\ prefs \in [lang : {Null}, mode : Modes \union {Null}]
  /\ contestMode \in Modes
  /\ settings = [lang |-> DefaultLang, mode |-> DefaultMode, data |-> Null, ready |-> FALSE]
  /\ profile = NewQuery /\ patches = {}
  /\ submit = [lang |-> DefaultLang, mode |-> DefaultMode, code |-> DefaultLang, data |-> Null]
  /\ context = NewQuery /\ contest \in BOOLEAN /\ sent = Null
  /\ choices = 0 /\ amiss = FALSE

MayChoose == choices < MaxChoices /\ choices' = choices + 1

-----------------------------------------------------------------------------
(* The settings page. *)

(* getProfile answers with the row as it is.                               *)
ReadProfile ==
  /\ profile # Null /\ profile.value = Null
  /\ profile' = [value |-> prefs]
  /\ UNCHANGED <<prefs, contestMode, settings, patches, submitVars, contest, choices, amiss>>

(* The effect on profile.data runs only for data that differ; an event of  *)
(* the user cannot come between it and its microtask.                      *)
ProfileArrives ==
  /\ profile # Null /\ profile.value # Null
  /\ profile' = Null
  /\ settings' = IF profile.value = settings.data THEN settings
                 ELSE [lang |-> Or(profile.value.lang, DefaultLang),
                       mode |-> Or(profile.value.mode, DefaultMode),
                       data |-> profile.value, ready |-> TRUE]
  /\ UNCHANGED <<prefs, contestMode, patches, submitVars, contest, choices, amiss>>

(* A page that has the focus again asks, unless it is asking.              *)
FocusSettings ==
  /\ profile = Null /\ profile' = NewQuery
  /\ UNCHANGED <<prefs, contestMode, settings, patches, submitVars, contest, choices, amiss>>

Under == {p.n : p \in patches}

(* Each choice shows at once, and sends both fields as they are shown.     *)
Choose(field, v) ==
  /\ settings[field] # v /\ MayChoose
  /\ settings' = [settings EXCEPT ![field] = v]
  /\ patches' = IF ~settings.ready THEN patches
                ELSE patches \union {[n |-> choices, lang |-> settings'.lang,
                                      mode |-> settings'.mode, done |-> FALSE]}
  /\ UNCHANGED <<prefs, contestMode, profile, submitVars, contest, amiss>>

updateProfile(p) ==
  /\ p \in patches /\ ~p.done
  /\ prefs' = [lang |-> p.lang, mode |-> p.mode]
  /\ patches' = (patches \ {p}) \union {[p EXCEPT !.done = TRUE]}
  /\ amiss' = (amiss \/ \E q \in patches : ~q.done /\ q.n < p.n)
  /\ UNCHANGED <<contestMode, settings, profile, submitVars, contest, choices>>

\* Mutant: a query that is already under way is left to answer.
PatchAnsweredKeepsQuery(p) ==
  /\ p \in patches /\ p.done
  /\ patches' = patches \ {p}
  /\ profile' = IF profile = Null THEN NewQuery ELSE profile
  /\ UNCHANGED <<prefs, contestMode, settings, submitVars, contest, choices, amiss>>

(* onSuccess: the query starts again, whatever was under way is dropped.   *)
PatchAnswered(p) ==
  /\ p \in patches /\ p.done
  /\ patches' = patches \ {p}
  /\ profile' = NewQuery
  /\ UNCHANGED <<prefs, contestMode, settings, submitVars, contest, choices, amiss>>

(* onError: a message. The call may have been done all the same.           *)
PatchFails(p) ==
  /\ p \in patches
  /\ patches' = patches \ {p} /\ amiss' = TRUE
  /\ UNCHANGED <<prefs, contestMode, settings, profile, submitVars, contest, choices>>

ProfileFails ==
  /\ profile # Null
  /\ profile' = Null /\ amiss' = TRUE
  /\ UNCHANGED <<prefs, contestMode, settings, patches, submitVars, contest, choices>>

-----------------------------------------------------------------------------
(* The submit page. *)

(* getSubmitOptions: the mode of the contest overrides the preferred one.  *)
SubmitOptions ==
  [lang |-> Or(prefs.lang, DefaultLang),
   mode |-> IF contest THEN contestMode ELSE Or(prefs.mode, DefaultMode)]

ReadContext ==
  /\ context # Null /\ context.value = Null
  /\ context' = [value |-> SubmitOptions]
  /\ UNCHANGED <<prefs, contestMode, settingsVars, submit, contest, sent, choices, amiss>>

Template(c) == [lang |-> c.lang, mode |-> c.mode, code |-> c.lang, data |-> c]

\* Mutant: code that has been typed is not replaced.
FilledKeepingCode(c) == [Template(c) EXCEPT !.code = IF submit.data = Null THEN @ ELSE submit.code]

Filled(c) == Template(c)

ContextArrives ==
  /\ context # Null /\ context.value # Null
  /\ context' = Null
  /\ submit' = IF context.value = submit.data THEN submit ELSE Filled(context.value)
  /\ UNCHANGED <<prefs, contestMode, settingsVars, contest, sent, choices, amiss>>

FocusSubmit ==
  /\ context = Null /\ context' = NewQuery
  /\ UNCHANGED <<prefs, contestMode, settingsVars, submit, contest, sent, choices, amiss>>

(* Another language brings its template, whatever has been typed.          *)
ChooseLang(l) ==
  /\ submit.data # Null /\ submit.lang # l /\ MayChoose
  /\ submit' = [submit EXCEPT !.lang = l, !.code = l]
  /\ UNCHANGED <<prefs, contestMode, settingsVars, context, contest, sent, amiss>>

ChooseMode(m) ==
  /\ submit.data # Null /\ submit.mode # m /\ ~contest /\ MayChoose
  /\ submit' = [submit EXCEPT !.mode = m]
  /\ UNCHANGED <<prefs, contestMode, settingsVars, context, contest, sent, amiss>>

(* One submission at a time; the form may go on changing.                  *)
Send ==
  /\ submit.data # Null /\ sent = Null
  /\ sent' = [lang |-> submit.lang, mode |-> submit.mode, code |-> submit.code]
  /\ UNCHANGED <<prefs, contestMode, settingsVars, submit, context, contest, choices, amiss>>

(* resolveForSubmit refuses another mode than the contest's. What it       *)
(* accepts takes the user to another page; coming back starts anew, from   *)
(* the data that is still there.                                           *)
resolveForSubmit ==
  /\ sent # Null /\ sent' = Null
  /\ IF contest /\ sent.mode # contestMode
     THEN UNCHANGED <<submit, context>>
     ELSE submit' = Template(submit.data) /\ context' = NewQuery
  /\ UNCHANGED <<prefs, contestMode, settingsVars, contest, choices, amiss>>

(* The administrator changes the mode of the contest.                      *)
ChangeContest ==
  /\ MayChoose
  /\ contestMode' \in Modes \ {contestMode}
  /\ UNCHANGED <<prefs, settingsVars, submitVars, contest, amiss>>

Next ==
  \/ ReadProfile \/ ProfileArrives \/ FocusSettings \/ ProfileFails
  \/ \E l \in Langs : Choose("lang", l) \/ ChooseLang(l)
  \/ \E m \in Modes : Choose("mode", m) \/ ChooseMode(m)
  \/ \E p \in patches : updateProfile(p) \/ PatchAnswered(p) \/ PatchFails(p)
  \/ ReadContext \/ ContextArrives \/ FocusSubmit \/ Send \/ resolveForSubmit
  \/ ChangeContest

Spec == Init /\ [][Next]_vars

-----------------------------------------------------------------------------
(* When nothing is under way the settings page shows what is stored,       *)
(* however choices, their calls and the queries they start have mixed,     *)
(* unless a call has failed or overtaken an earlier one.                   *)
SettingsConverge ==
  profile = Null /\ patches = {} /\ settings.ready /\ ~amiss =>
    /\ settings.lang = Or(prefs.lang, DefaultLang)
    /\ settings.mode = Or(prefs.mode, DefaultMode)

(* What is submitted is written in the language it is submitted as, even   *)
(* when an answer changes the form that is being filled.                   *)
CodeInItsLanguage == sent # Null => sent.code = sent.lang
=============================================================================
