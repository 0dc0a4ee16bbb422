----------------------------- MODULE WebClient -----------------------------
(***************************************************************************)
(* The web client: the session that the tabs of a browser share in its     *)
(* local storage, the calls they make of the API, and the pages that show  *)
(* what a query has answered and change it with forms.                     *)
(*                                                                         *)
(* A tab runs one piece of JavaScript at a time; a call of api() is split  *)
(* where it awaits: a refresh of the token, the answer of the server. The  *)
(* rows of the panels are told apart, their contents are not: a form knows *)
(* which row its fields were filled from, a list how many changes it has   *)
(* seen. The page of a tab that is left drops what it showed.              *)
(***************************************************************************)
EXTENDS Naturals, FiniteSets

CONSTANTS
  Users,       \* accounts that log in, all of them administrators
  Rows,        \* rows that the lists of the panels show
  Tabs,        \* tabs of the browser
  Slots,       \* pairs <<tab, n>>: places for the calls of a tab under way
  None,        \* no token, call, row or data
  Bounds       \* what a behaviour is limited to: one of the records
               \*   users    those who log in,
               \*   slots    the calls under way,
               \*   reach    the pages a tab is taken to,
               \*   changes  the changes made with the forms,
               \*   errors   the calls that fail, at most react-query's retries,
               \*   ages     whether a token comes near its end,
               \*   deletes  whether accounts are deleted

Editors == {"problems", "contests", "testcases", "users", "announcements"}
Lists == {"classes", "members", "homework", "discussions", "registrations"}
Watched == {"submission", "submissions"}
Pages == Editors \cup Lists \cup Watched \cup {"login"}

(* A call of api(): what it is for, the page it was made from, whether that  *)
(* page still waits for it; the row it is about and the row the fields were *)
(* filled from; how far it is, and its answer.                             *)
Ops == {"login", "query", "load", "save", "change", "create"}
Values == Users \cup Rows \cup Nat \cup {"judging", "final", None}
Calls ==
  [op : Ops, page : Pages \cup {None}, live : BOOLEAN, row : Values, of : Values,
   crossed : BOOLEAN, pc : {"new", "waiting", "sent", "retrying", "answered"},
   auth : {"none", "fresh", "due"}, retried : BOOLEAN,
   ans : {"none", "ok", "401", "error"}, data : Values]

ASSUME WebAssumption ==
  /\ Slots \subseteq Tabs \X Nat /\ None \notin Calls
  /\ Bounds \subseteq [users : SUBSET Users, slots : SUBSET Slots,
                        reach : [Tabs -> SUBSET Pages],
                        changes : Nat, errors : 0 .. 3, ages : BOOLEAN, deletes : BOOLEAN]

VARIABLES
  bound,    \* the bounds of this behaviour
  token,    \* epoch.token: None, or [user, life]
  refresh,  \* refreshInFlight of each tab: None, or the user of the token sent
  tab,      \* of each tab: page, edit (row in the URL), leaving, shown,
            \* mine (own change), failed
  editor,   \* the form of a panel: open, row (editing), of, loading, crossed
  call,     \* calls of api() under way
  verdict,  \* of the submission that is looked at: "judging", "final"
  changes,  \* changes the server has made
  errors,   \* calls that have failed
  who,      \* ghost: who has logged in last and not logged out
  raced     \* ghost: a refresh was under way when somebody logged in or out

vars == <<bound, token, refresh, tab, editor, call, verdict, changes, errors, who, raced>>
server == <<verdict, changes, errors>>
ghosts == <<bound, who, raced>>

NoEditor == [open |-> FALSE, row |-> None, of |-> None, loading |-> FALSE,
             crossed |-> FALSE]
ShowsRow(p, r) == [page |-> p, edit |-> r, leaving |-> FALSE, shown |-> None,
                   mine |-> 0, failed |-> FALSE]
Shows(p) == ShowsRow(p, None)

Init ==
  /\ bound \in Bounds
  /\ token = None
  /\ refresh = [t \in Tabs |-> None]
  /\ tab = [t \in Tabs |-> Shows("login")]
  /\ editor = [t \in Tabs |-> NoEditor]
  /\ call = [s \in Slots |-> None]
  /\ verdict = "judging"
  /\ changes = 0 /\ errors = 0
  /\ who = None /\ raced = FALSE

Under(t, op) == {s \in Slots : /\ s[1] = t /\ call[s] # None
                               /\ call[s].op = op /\ call[s].live}
Free(t) ==   \* the first place free, if any
  LET free == {s \in bound.slots : s[1] = t /\ call[s] = None}
  IN {s \in free : \A x \in free : s[2] <= x[2]}
At(t, p) == tab[t].page = p /\ ~tab[t].leaving

-----------------------------------------------------------------------------
(* The session. *)

tokenNeedsProactiveRefresh(k) == k # None /\ k.life # "fresh"

Sent(c, k) ==
  [c EXCEPT !.pc = "sent", !.auth = IF k = None THEN "none" ELSE k.life]

\* One refresh at a time in a tab: a second caller waits for the first.
tryRefreshToken(t) == [refresh EXCEPT ![t] = IF @ = None THEN token.user ELSE @]

(* api() is entered: it waits for a refresh when the token is near its end.*)
Entered(c) == IF tokenNeedsProactiveRefresh(token)
              THEN [c EXCEPT !.pc = "waiting"] ELSE Sent(c, token)

Api(s, c, others) ==
  /\ call' = [others EXCEPT ![s] = Entered(c)]
  /\ refresh' = IF tokenNeedsProactiveRefresh(token) THEN tryRefreshToken(s[1]) ELSE refresh

NewCall(p, op, row) ==
  [op |-> op, page |-> p, live |-> TRUE, row |-> row, of |-> None, crossed |-> FALSE,
   pc |-> "new", auth |-> "none", retried |-> FALSE, ans |-> "none", data |-> None]

\* Mutant: a tab on the login page returns before the token is removed.
clearOffTheLoginPage(t) ==
  /\ token' = IF tab[t].page = "login" THEN token ELSE None
  /\ tab' = [tab EXCEPT ![t].leaving = @ \/ tab[t].page # "login"]

(* The token goes first; on a login page there is nowhere to be sent to.   *)
clearSessionAndRedirect(t) ==
  /\ token' = None
  /\ tab' = [tab EXCEPT ![t].leaving = @ \/ tab[t].page # "login"]

Unload(t) ==
  /\ tab[t].leaving
  /\ tab' = [tab EXCEPT ![t] = Shows("login")]
  /\ editor' = [editor EXCEPT ![t] = NoEditor]
  /\ call' = [s \in Slots |-> IF s[1] = t THEN None ELSE call[s]]
  /\ refresh' = [refresh EXCEPT ![t] = None]
  /\ UNCHANGED <<token, server, ghosts>>

(* A refresh is answered with a token, and those who waited send; or it is *)
(* not, and a call that had been refused ends the session.                 *)
Refreshed(t) ==
  /\ refresh[t] # None
  /\ token' = [user |-> refresh[t], life |-> "fresh"]
  /\ refresh' = [refresh EXCEPT ![t] = None]
  /\ call' = [s \in Slots |->
       IF s[1] = t /\ call[s] # None /\ call[s].pc \in {"waiting", "retrying"}
       THEN Sent([call[s] EXCEPT !.retried = @ \/ call[s].pc = "retrying"], token')
       ELSE call[s]]
  /\ UNCHANGED <<tab, editor, server, ghosts>>

RefreshFailed(t) ==
  LET Waiting(pc) == {s \in Slots : s[1] = t /\ call[s] # None /\ call[s].pc = pc}
  IN /\ refresh[t] # None
     /\ refresh' = [refresh EXCEPT ![t] = None]
     /\ IF Waiting("retrying") = {} THEN UNCHANGED <<token, tab>>
        ELSE clearSessionAndRedirect(t)
     /\ call' = [s \in Slots |-> IF s \in Waiting("retrying") THEN None
                                 ELSE IF s \in Waiting("waiting") THEN Sent(call[s], token)
                                 ELSE call[s]]
     /\ UNCHANGED <<editor, server, ghosts>>

Raced == raced \/ \E t \in Tabs : refresh[t] # None

Logout(t) ==
  /\ token # None /\ ~tab[t].leaving /\ bound.reach[t] # {}
  /\ clearSessionAndRedirect(t)
  /\ who' = None /\ raced' = Raced /\ UNCHANGED bound
  /\ UNCHANGED <<refresh, editor, call, server>>

SubmitLogin(t, u) ==
  /\ At(t, "login")
  /\ \E s \in Free(t) : Api(s, NewCall("login", "login", u), call)
  /\ UNCHANGED <<token, tab, editor, server, ghosts>>

Age ==
  /\ bound.ages /\ token # None /\ token.life = "fresh"
  /\ token' = [token EXCEPT !.life = "due"]
  /\ UNCHANGED <<refresh, tab, editor, call, server, ghosts>>

-----------------------------------------------------------------------------
(* Pages and their queries. *)

\* What the page that goes has started is answered to nobody, but for what
\* a change does when it is done, and a problem that cannot be loaded.
Dropped(c) == IF c.op \in {"save", "change", "create"} THEN [c EXCEPT !.live = FALSE]
              ELSE [c EXCEPT !.live = FALSE, !.page = None, !.row = None, !.data = None]
Left(c) == IF c.op = "load" /\ c.live THEN [Dropped(c) EXCEPT !.page = c.page] ELSE Dropped(c)
Unmounted(t) == [s \in Slots |-> IF s[1] = t /\ call[s] # None /\ call[s].op # "login"
                                 THEN Left(call[s]) ELSE call[s]]

Show(t, p) ==
  /\ ~tab[t].leaving /\ tab[t].page # p
  /\ tab' = [tab EXCEPT ![t] = Shows(p)]
  /\ editor' = [editor EXCEPT ![t] = NoEditor]
  /\ UNCHANGED <<token, server, ghosts>>

(* A page behind the guard needs a token that has not expired. A token     *)
(* that is due may be past its end, and anyone may go back to the login:   *)
(* ToLogin stands for the guard's redirection too.                         *)
Navigate(t, p) ==
  /\ token # None
  /\ Show(t, p)
  /\ \E s \in Free(t) : Api(s, NewCall(p, "query", None), Unmounted(t))

ToLogin(t) == Show(t, "login") /\ call' = Unmounted(t) /\ UNCHANGED refresh

Fetch(t) ==
  /\ Under(t, "query") = {}
  /\ \E s \in Free(t) : Api(s, NewCall(tab[t].page, "query", None), call)
  /\ UNCHANGED <<token, tab, editor, server, ghosts>>

(* A submission, or a list of them with one that is not judged yet.        *)
refetchInterval(t) == tab[t].shown = "judging"
Poll(t) == tab[t].page \in Watched /\ ~tab[t].leaving /\ refetchInterval(t) /\ Fetch(t)
Focus(t) == tab[t].failed /\ ~tab[t].leaving /\ Fetch(t)

\* Mutant: a query under way is left to finish, whether or not it is the first.
joinQueries(t, s) ==
  IF Under(t, "query") # {}
  THEN call' = [call EXCEPT ![s] = None] /\ UNCHANGED refresh
  ELSE Api(s, NewCall(tab[t].page, "query", None), call)

(* The list is fetched anew, and what was under way is dropped, unless it  *)
(* is the first answer the page waits for: then that one will do.          *)
invalidateQueries(t, s) ==
  LET q == Under(t, "query")
  IN IF tab[t].shown = None /\ q # {}
     THEN call' = [call EXCEPT ![s] = None] /\ UNCHANGED refresh
     ELSE Api(s, NewCall(tab[t].page, "query", None),
              [x \in Slots |-> IF x \in q THEN Dropped(call[x]) ELSE call[x]])

(* closeEdit and openEdit write the URL of the admin page, also when that  *)
(* page has been left by then: they take the tab back to it.               *)
PulledBack(t, s, r) ==
  /\ tab' = [tab EXCEPT ![t] = ShowsRow("problems", r)]
  /\ editor' = [editor EXCEPT ![t] = NoEditor]
  /\ Api(s, NewCall("problems", "query", None), Unmounted(t))

PullsBack(t, c) ==
  c.page = "problems" /\ ~c.live /\ ~tab[t].leaving /\ tab[t].page # "problems" /\ token # None

-----------------------------------------------------------------------------
(* The forms of the panels. *)

CanEdit(t, p) == At(t, p) /\ ~editor[t].open /\ tab[t].shown # None
CanSave(t, p) == At(t, p) /\ editor[t].open /\ Under(t, "save") = {} /\ changes < bound.changes

Load(t, r, others) ==
  /\ \E s \in Free(t) : Api(s, NewCall(tab[t].page, "load", r), others)
  /\ UNCHANGED <<token, tab, server, ghosts>>

Fill(t, r) ==
  /\ editor' = [editor EXCEPT ![t] = [NoEditor EXCEPT !.open = TRUE, !.row = r, !.of = r]]
  /\ UNCHANGED <<token, refresh, tab, call, server, ghosts>>

Save(t, crossed) ==
  /\ \E s \in Free(t) : Api(s, [NewCall(tab[t].page, "save", editor[t].row) EXCEPT
                                  !.of = editor[t].of, !.crossed = crossed], call)
  /\ UNCHANGED <<token, tab, editor, server, ghosts>>

(* Problems: a detail that is not the last one asked for is ignored; the   *)
(* fields keep what they held until it comes, and may be saved.            *)
NotSuperseded(t) == call   \* mutant: loadSeq is not compared
Superseded(t) == [s \in Slots |-> IF s \in Under(t, "load")
                                  THEN Dropped(call[s]) ELSE call[s]]

ProblemOpened(t, r) ==
  /\ editor' = [editor EXCEPT ![t].open = TRUE, ![t].row = r]
  /\ tab' = [tab EXCEPT ![t].edit = None]
  /\ UNCHANGED <<token, server, ghosts>>

OpenProblem(t, r) ==
  /\ CanEdit(t, "problems") /\ ProblemOpened(t, r)
  /\ \E s \in Free(t) : Api(s, NewCall("problems", "load", r), Superseded(t))

ProblemClosed(t) == [editor EXCEPT ![t].open = FALSE, ![t].row = None]

CloseProblem(t) ==
  /\ At(t, "problems") /\ editor[t].open
  /\ editor' = ProblemClosed(t)
  /\ call' = Superseded(t)
  /\ tab' = [tab EXCEPT ![t].edit = None]
  /\ UNCHANGED <<token, refresh, server, ghosts>>

(* A problem is created in a form of its own; then its editor opens.       *)
CreateProblem(t) ==
  /\ CanEdit(t, "problems") /\ Under(t, "create") = {} /\ changes < bound.changes
  /\ \E s \in Free(t) : Api(s, NewCall("problems", "create", None), call)
  /\ UNCHANGED <<token, tab, editor, server, ghosts>>

(* A row that the URL names is opened when the list shows it, over another.*)
RestoreProblem(t) ==
  /\ At(t, "problems") /\ tab[t].edit # None
  /\ tab[t].shown # None /\ tab[t].edit <= tab[t].shown
  /\ ProblemOpened(t, tab[t].edit)
  /\ \E s \in Free(t) : Api(s, NewCall("problems", "load", tab[t].edit), Superseded(t))

SaveProblem(t) ==
  CanSave(t, "problems") /\ editor[t].of # None /\ Save(t, Under(t, "load") # {})

(* Contests, testcases: nothing is saved while a detail is awaited, and    *)
(* the first one that comes fills the form, whichever row it is of.        *)
OpenDetail(t, r) ==
  /\ editor' = [editor EXCEPT ![t].open = TRUE, ![t].row = r, ![t].loading = TRUE,
                              ![t].crossed = Under(t, "load") # {}]
  /\ Load(t, r, call)

OpenContest(t, r) == CanEdit(t, "contests") /\ OpenDetail(t, r)
OpenTestcase(t, r) == CanEdit(t, "testcases") /\ OpenDetail(t, r)

NewDetail(t) ==
  /\ editor' = [editor EXCEPT ![t].open = TRUE, ![t].row = None, ![t].of = None,
                              ![t].crossed = Under(t, "load") # {}]
  /\ UNCHANGED <<token, refresh, tab, call, server, ghosts>>

NewContest(t) == CanEdit(t, "contests") /\ NewDetail(t)
NewTestcase(t) == CanEdit(t, "testcases") /\ NewDetail(t)

SaveContest(t) ==
  CanSave(t, "contests") /\ ~editor[t].loading /\ Save(t, editor[t].crossed)
SaveTestcase(t) ==
  CanSave(t, "testcases") /\ ~editor[t].loading /\ Save(t, editor[t].crossed)

(* Users, announcements: the form is filled from the row of the list.      *)
OpenUser(t, r) == CanEdit(t, "users") /\ Fill(t, r)
OpenAnnouncement(t, r) == CanEdit(t, "announcements") /\ Fill(t, r)
SaveUser(t) == CanSave(t, "users") /\ Save(t, FALSE)
SaveAnnouncement(t) == CanSave(t, "announcements") /\ Save(t, FALSE)

Cancel(t) ==
  /\ editor[t].open /\ ~tab[t].leaving /\ tab[t].page # "problems"
  /\ editor' = [editor EXCEPT ![t].open = FALSE, ![t].row = None]
  /\ UNCHANGED <<token, refresh, tab, call, server, ghosts>>

(* Deleting, resetting a password, importing: a change without a form.     *)
Change(t) ==
  /\ tab[t].page \in Editors /\ CanEdit(t, tab[t].page) /\ changes < bound.changes
  /\ Under(t, "save") = {}
  /\ \E s \in Free(t) : Api(s, NewCall(tab[t].page, "change", None), call)
  /\ UNCHANGED <<token, tab, editor, server, ghosts>>

(* Lists with a form to add to them, or a button in a row: a class is      *)
(* created, a member removed, homework or a discussion posted, somebody    *)
(* registered for a contest or made a star.                                *)
ChangeOf(t, p) ==
  /\ At(t, p) /\ changes < bound.changes
  /\ \E s \in Free(t) : Api(s, NewCall(p, "change", None), call)
  /\ UNCHANGED <<token, tab, editor, server, ghosts>>

One(t) == Under(t, "change") = {}
CreateClass(t) == One(t) /\ ChangeOf(t, "classes")
RemoveMember(t) == tab[t].shown # None /\ ChangeOf(t, "members")
CreateHomework(t) == One(t) /\ ChangeOf(t, "homework")
PostDiscussion(t) == One(t) /\ ChangeOf(t, "discussions")
ChangeRegistration(t) == ChangeOf(t, "registrations")

-----------------------------------------------------------------------------
(* The server. *)

Answered(s, ans, data) ==
  call' = [call EXCEPT ![s].pc = "answered", ![s].ans = ans, ![s].data = data,
                       ![s].auth = "none"]

ServeOk(s) ==
  LET c == call[s]
  IN /\ call[s] # None /\ call[s].pc = "sent"
     /\ c.op # "login" => c.auth \in {"fresh", "due"}
     /\ changes' = IF c.op \in {"save", "change", "create"} THEN changes + 1 ELSE changes
     /\ Answered(s, "ok", IF c.op \in {"login", "load"} \/ (c.op = "query" /\ ~c.live) THEN None
                          ELSE IF c.page \in Watched THEN verdict ELSE changes')
     /\ UNCHANGED <<token, refresh, tab, editor, verdict, errors, ghosts>>

(* A wrong password is refused, and a token that has run out; a fresh one  *)
(* of an account that has been deleted meanwhile.                          *)
ServeUnauthorized(s) ==
  /\ call[s] # None /\ call[s].pc = "sent"
  /\ call[s].op = "login" \/ call[s].auth # "fresh" \/ bound.deletes
  /\ Answered(s, "401", None)
  /\ UNCHANGED <<token, refresh, tab, editor, server, ghosts>>

ServeError(s) ==
  /\ call[s] # None /\ call[s].pc = "sent" /\ errors < bound.errors
  /\ errors' = errors + 1
  /\ Answered(s, "error", None)
  /\ UNCHANGED <<token, refresh, tab, editor, verdict, changes, ghosts>>

Judged ==
  /\ verdict = "judging" /\ \E t \in Tabs : Watched \cap bound.reach[t] # {}
  /\ verdict' = "final"
  /\ UNCHANGED <<token, refresh, tab, editor, call, changes, errors, ghosts>>

-----------------------------------------------------------------------------
(* Answers. *)

Has(s, op, ans) == /\ call[s] # None /\ call[s].pc = "answered"
                   /\ call[s].op \in op /\ call[s].ans = ans
Done(s) == [call EXCEPT ![s] = None]

(* Refused: the token is refreshed and the call is made again, once.       *)
Refused(s) ==
  LET t == s[1]
  IN /\ Has(s, {"query", "load", "save", "change", "create"}, "401") /\ token # None
     /\ IF call[s].retried
        THEN /\ clearSessionAndRedirect(t)
             /\ call' = Done(s) /\ UNCHANGED refresh
        ELSE /\ call' = [call EXCEPT ![s].pc = "retrying", ![s].ans = "none"]
             /\ refresh' = tryRefreshToken(t) /\ UNCHANGED <<token, tab>>
     /\ UNCHANGED <<editor, server, ghosts>>

Failing(s, op) == Has(s, op, "error") \/ (Has(s, op, "401") /\ token = None)

LoginFails(s) ==
  /\ Has(s, {"login"}, "401") \/ Has(s, {"login"}, "error")
  /\ call' = Done(s)
  /\ UNCHANGED <<token, refresh, tab, editor, server, ghosts>>

ChangeFails(s) ==
  /\ Failing(s, {"save", "change", "create"})
  /\ call' = Done(s)
  /\ UNCHANGED <<token, refresh, tab, editor, server, ghosts>>

(* A query is tried again, but for a tab whose session is gone: its tries  *)
(* are all refused.                                                        *)
QueryFails(s) ==
  /\ Failing(s, {"query"})
  /\ IF call[s].live /\ call[s].ans = "error"
     THEN Api(s, NewCall(call[s].page, "query", None), call) /\ UNCHANGED tab
     ELSE /\ call' = Done(s)
          /\ tab' = [tab EXCEPT ![s[1]].failed = @ \/ (call[s].live /\ tab[s[1]].page \notin Watched)]
          /\ UNCHANGED refresh
  /\ UNCHANGED <<token, editor, server, ghosts>>

LoadFails(s) ==
  LET t == s[1]
  IN /\ Failing(s, {"load"})
     /\ IF PullsBack(t, call[s]) THEN PulledBack(t, s, None)
        ELSE /\ call' = Done(s)
             /\ editor' = IF ~call[s].live THEN editor
                          ELSE [editor EXCEPT ![t].open = FALSE, ![t].loading = FALSE,
                                  ![t].row = IF tab[t].page = "contests" THEN @ ELSE None]
             /\ tab' = IF ~call[s].live THEN tab ELSE [tab EXCEPT ![t].edit = None]
             /\ UNCHANGED refresh
     /\ UNCHANGED <<token, server, ghosts>>

QueryAnswered(s) ==
  /\ Has(s, {"query"}, "ok")
  /\ call' = Done(s)
  /\ tab' = IF ~call[s].live THEN tab
            ELSE [tab EXCEPT ![s[1]].shown = call[s].data, ![s[1]].failed = FALSE]
  /\ UNCHANGED <<token, refresh, editor, server, ghosts>>

LoadAnswered(s) ==
  LET t == s[1]
  IN /\ Has(s, {"load"}, "ok")
     /\ call' = Done(s)
     /\ editor' = IF ~call[s].live THEN editor
                  ELSE [editor EXCEPT ![t].of = call[s].row, ![t].loading = FALSE]
     /\ UNCHANGED <<token, refresh, tab, server, ghosts>>

Known(t, n) ==    \* what the page should come to show, if it shows a list
  [tab EXCEPT ![t].mine = IF tab[t].shown = None THEN @ ELSE n, ![t].edit = None]

Invalidated(t, s) ==
  IF At(t, call[s].page)
  THEN invalidateQueries(t, s) /\ tab' = Known(t, call[s].data)
  ELSE call' = Done(s) /\ UNCHANGED <<refresh, tab>>

(* The form closes, whatever it shows by now, and the list is invalidated; *)
(* a change of a page that is gone invalidates what that page queried.     *)
Changed(s) ==
  LET t == s[1]
      c == call[s]
  IN /\ Has(s, {"save", "change"}, "ok")
     /\ IF c.op = "save" /\ PullsBack(t, c) THEN PulledBack(t, s, None)
        ELSE /\ Invalidated(t, s)
             /\ editor' = IF ~c.live \/ c.op = "change" THEN editor
                          ELSE [editor EXCEPT ![t].open = FALSE, ![t].row = None,
                                  ![t].of = IF c.page \in {"problems", "contests"} THEN @ ELSE None]
     /\ UNCHANGED <<token, server, ghosts>>

(* The list is invalidated, and the new problem opened, over another one   *)
(* if that has been opened meanwhile; by the URL if the page was left.     *)
Created(s) ==
  LET t == s[1]
      c == call[s]
  IN /\ Has(s, {"create"}, "ok")
     /\ \/ PullsBack(t, c) /\ PulledBack(t, s, c.data)
        \/ /\ c.live /\ At(t, "problems")
           /\ editor' = [editor EXCEPT ![t].open = TRUE, ![t].row = c.data]
           /\ tab' = Known(t, c.data)
           /\ \E x \in Free(t) :
                Api(s, NewCall("problems", "query", None),
                    [y \in Slots |->
                       IF y = x THEN Entered(NewCall("problems", "load", c.data))
                       ELSE IF y \in Under(t, "load") \cup Under(t, "query")
                       THEN Dropped(call[y]) ELSE call[y]])
        \/ /\ ~c.live /\ At(t, "problems")
           /\ invalidateQueries(t, s)
           /\ tab' = [Known(t, c.data) EXCEPT ![t].edit = c.data]
           /\ UNCHANGED editor
        \/ /\ ~PullsBack(t, c) /\ ~At(t, "problems")
           /\ call' = Done(s) /\ UNCHANGED <<refresh, tab, editor>>
     /\ UNCHANGED <<token, server, ghosts>>

(* Somebody is logged in, and the page they wanted is shown.               *)
LoggedIn(s, p) ==
  LET t == s[1]
      u == call[s].row
      k == [user |-> u, life |-> "fresh"]
  IN /\ Has(s, {"login"}, "ok")
     /\ token' = k
     /\ who' = u /\ raced' = Raced /\ UNCHANGED bound
     /\ IF At(t, "login")
        THEN /\ tab' = [tab EXCEPT ![t] = Shows(p)]
             /\ call' = [Unmounted(t) EXCEPT ![s] = Sent(NewCall(p, "query", None), k)]
        ELSE call' = Done(s) /\ UNCHANGED tab
     /\ UNCHANGED <<refresh, editor, server>>

-----------------------------------------------------------------------------
Serve(s) == ServeOk(s) \/ ServeUnauthorized(s) \/ ServeError(s)
EndRefresh(t) == Refreshed(t) \/ RefreshFailed(t)
Deliver(s) ==
  \/ Refused(s) \/ LoginFails(s) \/ ChangeFails(s) \/ QueryFails(s) \/ LoadFails(s)
  \/ QueryAnswered(s) \/ LoadAnswered(s) \/ Changed(s) \/ Created(s)
  \/ \E p \in bound.reach[s[1]] \ {"login"} : LoggedIn(s, p)

Form(t) ==
  \/ \E r \in Rows :
       \/ OpenProblem(t, r) \/ OpenContest(t, r) \/ OpenTestcase(t, r)
       \/ OpenUser(t, r) \/ OpenAnnouncement(t, r)
  \/ Change(t) \/ NewContest(t) \/ NewTestcase(t) \/ CloseProblem(t) \/ Cancel(t)
  \/ SaveProblem(t) \/ SaveContest(t) \/ SaveTestcase(t)
  \/ SaveUser(t) \/ SaveAnnouncement(t) \/ CreateProblem(t) \/ RestoreProblem(t)
  \/ CreateClass(t) \/ RemoveMember(t) \/ CreateHomework(t) \/ PostDiscussion(t)
  \/ ChangeRegistration(t)

Next ==
  \/ \E s \in Slots : Serve(s) \/ Deliver(s)
  \/ \E t \in Tabs :
       \/ EndRefresh(t) \/ Unload(t) \/ Logout(t) \/ Poll(t) \/ Focus(t) \/ Form(t)
       \/ \E u \in bound.users : SubmitLogin(t, u)
       \/ \E p \in bound.reach[t] \ {"login"} : Navigate(t, p)
       \/ ToLogin(t)
  \/ Age \/ Judged

Spec == Init /\ [][Next]_vars

(* Requests are answered or fail, browsers run what is due, judges judge;  *)
(* nobody has to click, and no token has to age.                           *)
FairSpec ==
  /\ Spec
  /\ \A s \in Slots : WF_vars(Serve(s) \/ Deliver(s))
  /\ \A t \in Tabs : WF_vars(EndRefresh(t)) /\ WF_vars(Unload(t)) /\ WF_vars(Poll(t))
  /\ WF_vars(Judged)

-----------------------------------------------------------------------------
(* A tab holds the session of who logged in last, or none, and none comes  *)
(* back after a logout, unless a refresh was under way in some tab when    *)
(* somebody logged in or out (auth-session.ts, api()).                     *)
SessionIsWhoLoggedIn ==
  ~raced /\ token # None => token.user = who

(* What a form saves to a row was read from that row, however details are  *)
(* answered, unless it was opened while an earlier detail was awaited      *)
(* (contests, testcases) or saved before its own came (problems).          *)
FormOfItsRow ==
  \A s \in Slots : call[s] # None /\ call[s].op = "save" /\ ~call[s].crossed
                     => call[s].of = call[s].row

Behind(t) ==
  /\ ~tab[t].leaving /\ token # None /\ tab[t].shown # None
  /\ \/ tab[t].page \in Watched /\ tab[t].shown = "judging"
     \/ tab[t].page \in Editors \cup Lists /\ tab[t].shown < tab[t].mine /\ ~tab[t].failed

(* A page that shows a submission in judging comes to show its verdict, a  *)
(* list comes to show what was changed in its panel, while the page stays  *)
(* and the session lasts (refetchInterval, invalidateQueries).             *)
PagesCatchUp == \A t \in Tabs : Behind(t) ~> ~Behind(t)
=============================================================================
