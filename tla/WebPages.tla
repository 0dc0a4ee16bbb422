------------------------------ MODULE WebPages ------------------------------
(***************************************************************************)
(* Three pages that keep fields of their own between the answers that fill *)
(* them and the calls that save them: the preferences of a user (in the    *)
(* settings and in the submit form), the rejudge panel and the contest     *)
(* editor. Each has its module; they share no state but the server's, of   *)
(* which each uses another part, so a behaviour is that of one of them,    *)
(* with the others not mounted.                                            *)
(***************************************************************************)
EXTENDS Naturals

CONSTANTS
  Langs, Modes, DefaultLang, DefaultMode, Null, MaxChoices,          \* Preferences
  Subs, ProblemOf, ContestOf, Verdicts, MaxBatch, MaxClicks,         \* RejudgePanel
  Hour, NewHours, NewFreeze, Horizon, Picks, Amounts, Problems,      \* ContestForm
  MaxInputs

VARIABLES
  page,  \* which of the pages is mounted
  prefs, contestMode, settings, profile, patches, submit, context, contest,
  sent, choices, amiss,
  status, panel, lists, fetch, work, clicks, seen,
  stored, form, adding, drag, details, saving, inputs, loaded, touched

Prefs == INSTANCE Preferences
Rejudge == INSTANCE RejudgePanel WITH None <- Null
Contest == INSTANCE ContestForm WITH None <- Null

ASSUME PagesAssumption ==
  Prefs!PreferencesAssumption /\ Rejudge!PanelAssumption /\ Contest!FormAssumption

prefsVars == <<prefs, contestMode, settings, profile, patches, submit, context,
               contest, sent, choices, amiss>>
rejudgeVars == <<status, panel, lists, fetch, work, clicks, seen>>
contestVars == <<stored, form, adding, drag, details, saving, inputs, loaded, touched>>
pagesVars == <<page, prefsVars, rejudgeVars, contestVars>>

NoPrefs ==
  /\ prefs = Null /\ contestMode = Null /\ settings = Null /\ profile = Null
  /\ patches = Null /\ submit = Null /\ context = Null /\ contest = Null
  /\ sent = Null /\ choices = Null /\ amiss = Null
NoRejudge ==
  /\ status = Null /\ panel = Null /\ lists = Null /\ fetch = Null /\ work = Null
  /\ clicks = Null /\ seen = Null
NoContest ==
  /\ stored = Null /\ form = Null /\ adding = Null /\ drag = Null /\ details = Null
  /\ saving = Null /\ inputs = Null /\ loaded = Null /\ touched = Null

PagesInit ==
  \/ page = "preferences" /\ Prefs!Init /\ NoRejudge /\ NoContest
  \/ page = "rejudge" /\ Rejudge!Init /\ NoPrefs /\ NoContest
  \/ page = "contest" /\ Contest!Init /\ NoPrefs /\ NoRejudge

PagesNext ==
  \/ page = "preferences" /\ Prefs!Next /\ UNCHANGED <<page, rejudgeVars, contestVars>>
  \/ page = "rejudge" /\ Rejudge!Next /\ UNCHANGED <<page, prefsVars, contestVars>>
  \/ page = "contest" /\ Contest!Next /\ UNCHANGED <<page, prefsVars, rejudgeVars>>

PagesSpec == PagesInit /\ [][PagesNext]_pagesVars

-----------------------------------------------------------------------------
(* When nothing is under way the settings page shows what is stored,       *)
(* however choices, their calls and the queries they start have mixed.     *)
SettingsConverge == page = "preferences" => Prefs!SettingsConverge

(* What is submitted is written in the language it is submitted as, even   *)
(* when an answer changes the form that is being filled.                   *)
CodeInItsLanguage == page = "preferences" => Prefs!CodeInItsLanguage

(* A confirmed rejudge queues what has been ticked in a list shown for the *)
(* scope, ids and verdicts of the moment, and nothing else.                *)
OnlyWhatWasPicked == page = "rejudge" => Rejudge!OnlyWhatWasPicked

(* What an administrator has not touched of a contest is saved as the form *)
(* was filled with it.                                                     *)
UntouchedKept == page = "contest" => Contest!UntouchedKept
=============================================================================
