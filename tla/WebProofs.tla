----------------------------- MODULE WebProofs -----------------------------
(***************************************************************************)
(* Proofs about the web client, for every set of users, tabs, rows and     *)
(* calls: first of WebClient, then of the three pages of WebPages.         *)
(***************************************************************************)
EXTENDS WebClient, WebPages, Integers, TLAPS

-----------------------------------------------------------------------------
Editor == [open : BOOLEAN, row : Values, of : Values, loading : BOOLEAN, crossed : BOOLEAN]
TabType == [page : Pages, edit : Values, leaving : BOOLEAN, shown : Values, mine : Values,
            failed : BOOLEAN]
ClientTypes ==
  /\ bound \in Bounds
  /\ token = None \/ token \in [user : Values, life : {"fresh", "due"}]
  /\ refresh \in [Tabs -> Values]
  /\ tab \in [Tabs -> TabType]
  /\ editor \in [Tabs -> Editor]
  /\ call \in [Slots -> Calls \cup {None}]
  /\ verdict \in {"judging", "final"} /\ changes \in Nat

(* Whoever has a token, or will get one from a refresh, has logged in last,*)
(* but when somebody did so or logged out during a refresh.                *)
SessionInv ==
  ~raced =>
    /\ token # None => token.user = who
    /\ \A t \in Tabs : refresh[t] # None => refresh[t] = who

(* The details that a tab awaits are of its page. Of problems only the one *)
(* asked for last counts. A form of the other panels that was opened when  *)
(* nothing was awaited awaits its own row, and nothing once it is filled.  *)
DetailPages == {"problems", "contests", "testcases"}
Loads(s) == call[s] # None /\ call[s].op = "load" /\ call[s].live
LoadsOf(t) == {s \in Slots : s[1] = t /\ Loads(s)}
OneLoad(t) == \A s, x \in LoadsOf(t) : s = x
LoadsRow(t) == \A s \in LoadsOf(t) : call[s].row = editor[t].row
OfItsRow(t) == LoadsOf(t) = {} /\ editor[t].of = editor[t].row
FormOf(t) ==
  /\ \A s \in LoadsOf(t) :
       call[s].page = tab[t].page /\ tab[t].page \in DetailPages
  /\ tab[t].page \notin DetailPages => ~editor[t].crossed /\ ~editor[t].loading
  /\ tab[t].page = "problems" /\ ~tab[t].leaving =>
       /\ OneLoad(t)
       /\ editor[t].open => LoadsRow(t)
       /\ editor[t].open /\ editor[t].of # None /\ LoadsOf(t) = {} => OfItsRow(t)
  /\ tab[t].page # "problems" /\ editor[t].open /\ ~editor[t].crossed =>
       OneLoad(t) /\ LoadsRow(t) /\ (~editor[t].loading => OfItsRow(t))
SaveOf(s) == call[s] # None /\ call[s].op = "save"
  /\ ~call[s].crossed => call[s].of = call[s].row
FormInv == (\A t \in Tabs : FormOf(t)) /\ (\A s \in Slots : SaveOf(s))

-----------------------------------------------------------------------------
(* What a step does to the calls under way.                                *)
Same(a, b) == /\ a.op = b.op /\ a.page = b.page /\ a.live = b.live
              /\ a.row = b.row /\ a.of = b.of /\ a.crossed = b.crossed

LEMMA EnteredSame ==
  ASSUME ClientTypes, NEW c \in Calls PROVE Entered(c) \in Calls /\ Same(Entered(c), c)
BY DEF Entered, Sent, Same, Calls, ClientTypes

LEMMA SentSame ==
  ASSUME NEW c \in Calls, NEW k, k = None \/ k \in [user : Values, life : {"fresh", "due"}]
  PROVE  Sent(c, k) \in Calls /\ Same(Sent(c, k), c)
BY DEF Sent, Same, Calls

LEMMA NewCallIs ==
  ASSUME NEW p \in Pages \cup {None}, NEW op \in Ops, NEW r \in Values
  PROVE  LET c == NewCall(p, op, r)
         IN  /\ c \in Calls /\ c.op = op /\ c.page = p /\ c.live /\ c.row = r
             /\ c.of = None /\ ~c.crossed
BY DEF NewCall, Calls, Values

LEMMA DroppedIs ==
  ASSUME NEW c \in Calls
  PROVE  /\ Dropped(c) \in Calls /\ ~Dropped(c).live /\ Dropped(c).op = c.op
         /\ c.op = "save" => /\ Dropped(c).row = c.row /\ Dropped(c).of = c.of
                             /\ Dropped(c).crossed = c.crossed
BY DEF Dropped, Calls, Values

LEMMA LeftIs ==
  ASSUME NEW c \in Calls
  PROVE  /\ Left(c) \in Calls /\ ~Left(c).live /\ Left(c).op = c.op
         /\ c.op = "save" => /\ Left(c).row = c.row /\ Left(c).of = c.of
                             /\ Left(c).crossed = c.crossed
<1>1. ASSUME NEW d \in Calls, NEW p \in Pages \cup {None}
      PROVE  /\ [d EXCEPT !.page = p] \in Calls
             /\ [d EXCEPT !.page = p].live = d.live /\ [d EXCEPT !.page = p].op = d.op
             /\ [d EXCEPT !.page = p].row = d.row /\ [d EXCEPT !.page = p].of = d.of
             /\ [d EXCEPT !.page = p].crossed = d.crossed
  BY DEF Calls
<1>2. c.page \in Pages \cup {None}
  BY DEF Calls
<1>3. QED BY <1>1, <1>2, DroppedIs DEF Left

LEMMA FreeSlot ==
  ASSUME ClientTypes, NEW t \in Tabs, NEW s \in Free(t)
  PROVE  s \in Slots /\ s[1] = t /\ call[s] = None
BY WebAssumption DEF Free, ClientTypes

LEMMA SlotTab == ASSUME NEW s \in Slots PROVE s[1] \in Tabs
BY WebAssumption

LEMMA UnderLoad == ASSUME NEW t PROVE Under(t, "load") = LoadsOf(t)
BY DEF Under, LoadsOf, Loads

LEMMA ApiIs ==
  ASSUME ClientTypes, NEW s \in Slots, NEW c \in Calls,
         NEW others \in [Slots -> Calls \cup {None}], Api(s, c, others)
  PROVE  /\ call' \in [Slots -> Calls \cup {None}] /\ call'[s] \in Calls
         /\ call'[s] # None /\ Same(call'[s], c)
         /\ \A x \in Slots \ {s} : call'[x] = others[x]
         /\ refresh' \in [Tabs -> Values]
<1>1. call' = [others EXCEPT ![s] = Entered(c)] /\ Entered(c) \in Calls /\ Same(Entered(c), c)
  BY EnteredSame DEF Api
<1>2. refresh' \in [Tabs -> Values]
  BY SlotTab DEF Api, tryRefreshToken, tokenNeedsProactiveRefresh, ClientTypes
<1>3. QED BY <1>1, <1>2, WebAssumption

(* A tab stays as it is, or begins anew.                                   *)
Quiet(s) ==
  /\ Loads(s)' <=> Loads(s)
  /\ Loads(s) => call'[s].row = call[s].row /\ call'[s].page = call[s].page

LEMMA TabKept ==
  ASSUME NEW t \in Tabs, FormOf(t), editor'[t] = editor[t], tab'[t].page = tab[t].page,
         tab[t].leaving => tab'[t].leaving,
         \A s \in Slots : s[1] = t => Quiet(s)
  PROVE  FormOf(t)'
<1>1. LoadsOf(t)' = LoadsOf(t)
  BY DEF LoadsOf, Quiet
<1>2. \A s \in LoadsOf(t) : call'[s].row = call[s].row /\ call'[s].page = call[s].page
  BY DEF LoadsOf, Quiet
<1>3. /\ OneLoad(t)' <=> OneLoad(t)
      /\ LoadsRow(t)' <=> LoadsRow(t)
      /\ OfItsRow(t)' <=> OfItsRow(t)
  BY <1>1, <1>2 DEF OneLoad, LoadsRow, OfItsRow
<1>4. QED BY <1>1, <1>2, <1>3 DEF FormOf

LEMMA TabNew ==
  ASSUME NEW t \in Tabs, editor'[t] = NoEditor, \A s \in Slots : s[1] = t => ~Loads(s)'
  PROVE  FormOf(t)'
<1>1. LoadsOf(t)' = {} /\ ~editor'[t].open /\ ~editor'[t].crossed /\ ~editor'[t].loading
  BY DEF LoadsOf, NoEditor
<1>2. QED BY <1>1 DEF FormOf, OneLoad

(* The slots of the other tabs and the calls they hold.                    *)
LEMMA OneTab ==
  ASSUME FormInv, NEW t \in Tabs, FormOf(t)', \A s \in Slots : SaveOf(s)',
         \A u \in Tabs \ {t} : editor'[u] = editor[u] /\ tab'[u] = tab[u],
         \A s \in Slots : s[1] # t => Quiet(s)
  PROVE  FormInv'
<1>1. ASSUME NEW u \in Tabs \ {t} PROVE FormOf(u)'
  BY <1>1, TabKept DEF FormInv
<1>2. QED BY <1>1 DEF FormInv

LEMMA AllQuiet ==
  ASSUME FormInv, editor' = editor,
         \A t \in Tabs : tab'[t].page = tab[t].page /\ (tab[t].leaving => tab'[t].leaving),
         \A s \in Slots : Quiet(s) /\ SaveOf(s)'
  PROVE  FormInv'
BY TabKept DEF FormInv

Inv == ClientTypes /\ FormInv

-----------------------------------------------------------------------------
(* Steps that leave the forms alone, and those that save one.              *)
LEMMA ValuesHave == /\ None \in Values /\ Nat \subseteq Values /\ Users \subseteq Values
                    /\ Rows \subseteq Values /\ {"judging", "final"} \subseteq Values
BY DEF Values

LEMMA CallIs ==
  ASSUME ClientTypes, NEW s \in Slots, call[s] # None
  PROVE  call[s] \in Calls
BY DEF ClientTypes

LEMMA ToTypes ==
  ASSUME ClientTypes, call' \in [Slots -> Calls \cup {None}], editor' \in [Tabs -> Editor],
         tab' \in [Tabs -> TabType], refresh' \in [Tabs -> Values],
         token' = None \/ token' \in [user : Values, life : {"fresh", "due"}],
         bound' = bound, verdict' \in {"judging", "final"}, changes' \in Nat
  PROVE  ClientTypes'
BY DEF ClientTypes

(* A call is begun.                                                        *)
LEMMA BeginIs ==
  ASSUME Inv, NEW t \in Tabs, NEW s \in Free(t), NEW c \in Calls, Api(s, c, call)
  PROVE  /\ call' \in [Slots -> Calls \cup {None}] /\ refresh' \in [Tabs -> Values]
         /\ s \in Slots /\ s[1] = t /\ ~Loads(s) /\ call'[s] # None /\ Same(call'[s], c)
         /\ \A x \in Slots \ {s} : Quiet(x) /\ SaveOf(x)' /\ call'[x] = call[x]
<1>1. s \in Slots /\ s[1] = t /\ call[s] = None /\ call \in [Slots -> Calls \cup {None}]
  BY FreeSlot DEF Inv, ClientTypes
<1>2. /\ call' \in [Slots -> Calls \cup {None}] /\ refresh' \in [Tabs -> Values]
      /\ call'[s] # None /\ Same(call'[s], c)
      /\ \A x \in Slots \ {s} : call'[x] = call[x]
  BY <1>1, ApiIs DEF Inv
<1>3. \A x \in Slots \ {s} : Quiet(x) /\ SaveOf(x)'
  BY <1>2 DEF Inv, FormInv, Quiet, Loads, SaveOf
<1>4. QED BY <1>1, <1>2, <1>3 DEF Loads

LEMMA BeginKeeps ==
  ASSUME Inv, NEW t \in Tabs, NEW s \in Free(t), NEW c \in Calls, c.op # "load",
         c.op = "save" /\ ~c.crossed => c.of = c.row,
         Api(s, c, call), UNCHANGED <<token, tab, editor, server, bound>>
  PROVE  Inv'
<1>1. /\ call' \in [Slots -> Calls \cup {None}] /\ refresh' \in [Tabs -> Values]
      /\ s \in Slots /\ s[1] = t /\ ~Loads(s) /\ call'[s] # None /\ Same(call'[s], c)
      /\ \A x \in Slots \ {s} : Quiet(x) /\ SaveOf(x)' /\ call'[x] = call[x]
  BY BeginIs
<1>2. Quiet(s) /\ SaveOf(s)'
  BY <1>1 DEF Quiet, Loads, SaveOf, Same
<1>3. FormInv'
  BY <1>1, <1>2, AllQuiet DEF Inv
<1>4. ClientTypes'
  BY <1>1 DEF Inv, ClientTypes, server
<1>5. QED BY <1>3, <1>4 DEF Inv

LEMMA FetchKeeps == ASSUME Inv, NEW t \in Tabs, Fetch(t) PROVE Inv'
<1>1. tab[t].page \in Pages /\ None \in Values
  BY ValuesHave DEF Inv, ClientTypes, TabType
<1>2. PICK s \in Free(t) : Api(s, NewCall(tab[t].page, "query", None), call)
  BY DEF Fetch
<1>3. QED
  BY <1>1, <1>2, NewCallIs, BeginKeeps DEF Fetch, ghosts, Ops

LEMMA LoginKeeps ==
  ASSUME Inv, NEW t \in Tabs, NEW u \in bound.users, SubmitLogin(t, u)
  PROVE  Inv'
<1>1. u \in Values /\ "login" \in Pages
  BY WebAssumption, ValuesHave DEF Inv, ClientTypes, Pages
<1>2. PICK s \in Free(t) : Api(s, NewCall("login", "login", u), call)
  BY DEF SubmitLogin
<1>3. QED
  BY <1>1, <1>2, NewCallIs, BeginKeeps DEF SubmitLogin, ghosts, Ops

LEMMA ChangeKeeps ==
  ASSUME Inv, NEW t \in Tabs, NEW p \in Pages, NEW op \in {"change", "create"},
         \E s \in Free(t) : Api(s, NewCall(p, op, None), call),
         UNCHANGED <<token, tab, editor, server, ghosts>>
  PROVE  Inv'
<1>1. op \in Ops /\ None \in Values
  BY ValuesHave DEF Ops
<1>2. PICK s \in Free(t) : Api(s, NewCall(p, op, None), call)
  OBVIOUS
<1>3. QED
  BY <1>1, <1>2, NewCallIs, BeginKeeps DEF ghosts

(* What is saved without being marked is of the row it is saved to.        *)
LEMMA SaveKeeps ==
  ASSUME Inv, NEW t \in Tabs, NEW crossed \in BOOLEAN, Save(t, crossed),
         ~crossed => editor[t].of = editor[t].row
  PROVE  Inv'
<1> DEFINE n == NewCall(tab[t].page, "save", editor[t].row)
           c == [n EXCEPT !.of = editor[t].of, !.crossed = crossed]
<1>1. tab[t].page \in Pages /\ editor[t].row \in Values /\ editor[t].of \in Values
  BY DEF Inv, ClientTypes, TabType, Editor
<1>2. n \in Calls /\ n.op = "save" /\ n.row = editor[t].row
  BY <1>1, NewCallIs DEF Ops
<1>3. /\ c \in Calls /\ c.op = "save" /\ c.row = editor[t].row /\ c.of = editor[t].of
      /\ c.crossed = crossed
  <2> HIDE DEF n
  <2> QED BY <1>1, <1>2 DEF Calls
<1>4. PICK s \in Free(t) : Api(s, c, call)
  BY DEF Save
<1> HIDE DEF c
<1>5. QED BY <1>3, <1>4, BeginKeeps DEF Save, ghosts

LEMMA Saves ==
  ASSUME Inv, NEW t \in Tabs,
         \/ SaveProblem(t) \/ SaveContest(t) \/ SaveTestcase(t) \/ SaveUser(t)
         \/ SaveAnnouncement(t)
  PROVE  Inv'
<1>1. FormOf(t) /\ editor[t].crossed \in BOOLEAN
  BY DEF Inv, FormInv, ClientTypes, Editor
<1>2. CASE SaveProblem(t)
  BY <1>1, <1>2, SaveKeeps, UnderLoad DEF SaveProblem, CanSave, At, FormOf, OfItsRow
<1>3. ASSUME NEW p \in {"contests", "testcases"}, CanSave(t, p), ~editor[t].loading,
             Save(t, editor[t].crossed)
      PROVE  Inv'
  BY <1>1, <1>3, SaveKeeps DEF CanSave, At, FormOf, OfItsRow, DetailPages
<1>4. ASSUME NEW p \in {"users", "announcements"}, CanSave(t, p), Save(t, FALSE)
      PROVE  Inv'
  BY <1>1, <1>4, SaveKeeps DEF CanSave, At, FormOf, OfItsRow, DetailPages
<1>5. QED
  BY <1>2, <1>3, <1>4 DEF SaveContest, SaveTestcase, SaveUser, SaveAnnouncement

-----------------------------------------------------------------------------
(* Steps that change the form of one tab.                                  *)
LEMMA EditorStep ==
  ASSUME Inv, NEW t \in Tabs, NEW e \in Editor, editor' = [editor EXCEPT ![t] = e],
         UNCHANGED <<tab, call, token, refresh, verdict, changes, bound>>,
         LoadsOf(t)' = LoadsOf(t) => FormOf(t)'
  PROVE  Inv'
<1>1. \A s \in Slots : Quiet(s) /\ SaveOf(s)'
  BY DEF Inv, FormInv, SaveOf, Quiet, Loads
<1>2. \A u \in Tabs \ {t} : editor'[u] = editor[u] /\ tab'[u] = tab[u]
  BY DEF Inv, ClientTypes
<1>3. LoadsOf(t)' = LoadsOf(t)
  BY DEF LoadsOf, Loads
<1>4. FormInv'
  BY <1>1, <1>2, <1>3, OneTab DEF Inv
<1>5. ClientTypes'
  BY DEF Inv, ClientTypes
<1>6. QED BY <1>4, <1>5 DEF Inv

LEMMA FillKeeps ==
  ASSUME Inv, NEW t \in Tabs, NEW r \in Rows, Fill(t, r),
         tab[t].page \in Editors \ DetailPages
  PROVE  Inv'
<1> DEFINE e == [NoEditor EXCEPT !.open = TRUE, !.row = r, !.of = r]
<1>1. NoEditor \in Editor /\ r \in Values /\ ~NoEditor.loading /\ ~NoEditor.crossed
  BY ValuesHave DEF NoEditor, Editor
<1>2. /\ e \in Editor /\ e.row = r /\ e.of = r
      /\ e.loading = NoEditor.loading /\ e.crossed = NoEditor.crossed
  <2> HIDE DEF NoEditor
  <2> QED BY <1>1 DEF Editor
<1>3. editor' = [editor EXCEPT ![t] = e] /\ UNCHANGED <<tab, call, token, refresh>>
        /\ UNCHANGED <<verdict, changes, bound>>
  BY DEF Fill, server, ghosts
<1>4. editor'[t] = e /\ FormOf(t)
  BY <1>3 DEF Inv, FormInv, ClientTypes
<1> HIDE DEF e
<1>5. ASSUME LoadsOf(t)' = LoadsOf(t) PROVE FormOf(t)'
  BY <1>1, <1>2, <1>3, <1>4, <1>5 DEF FormOf, DetailPages, OneLoad, LoadsRow, OfItsRow
<1>6. QED BY <1>2, <1>3, <1>5, EditorStep

LEMMA CancelKeeps == ASSUME Inv, NEW t \in Tabs, Cancel(t) PROVE Inv'
<1> DEFINE e == [editor[t] EXCEPT !.open = FALSE, !.row = None]
<1>1. editor[t] \in Editor /\ None \in Values
  BY ValuesHave DEF Inv, ClientTypes
<1>2. /\ e \in Editor /\ ~e.open /\ e.loading = editor[t].loading
      /\ e.crossed = editor[t].crossed
  BY <1>1 DEF Editor
<1>3. /\ editor' = [editor EXCEPT ![t] = e] /\ tab[t].page # "problems"
      /\ UNCHANGED <<tab, call, token, refresh, verdict, changes, bound>>
  BY DEF Cancel, server, ghosts
<1> HIDE DEF e
<1>4. editor'[t] = e /\ FormOf(t)
  BY <1>3 DEF Inv, FormInv, ClientTypes
<1>5. ASSUME LoadsOf(t)' = LoadsOf(t) PROVE FormOf(t)'
  BY <1>2, <1>3, <1>4, <1>5 DEF FormOf
<1>6. QED BY <1>2, <1>3, <1>5, EditorStep

LEMMA NewDetailKeeps ==
  ASSUME Inv, NEW t \in Tabs, NewDetail(t), tab[t].page \in {"contests", "testcases"}
  PROVE  Inv'
<1> DEFINE e == [editor[t] EXCEPT !.open = TRUE, !.row = None, !.of = None,
                                  !.crossed = Under(t, "load") # {}]
<1>1. editor[t] \in Editor /\ None \in Values
  BY ValuesHave DEF Inv, ClientTypes
<1>2. e \in Editor /\ e.row = None /\ e.of = None /\ e.crossed = (LoadsOf(t) # {})
  BY <1>1, UnderLoad DEF Editor
<1>3. /\ editor' = [editor EXCEPT ![t] = e]
      /\ UNCHANGED <<tab, call, token, refresh, verdict, changes, bound>>
  BY <1>1 DEF NewDetail, server, ghosts
<1> HIDE DEF e
<1>4. editor'[t] = e /\ FormOf(t)
  BY <1>3 DEF Inv, FormInv, ClientTypes
<1>5. ASSUME LoadsOf(t)' = LoadsOf(t) PROVE FormOf(t)'
  BY <1>2, <1>3, <1>4, <1>5 DEF FormOf, OneLoad, LoadsRow, OfItsRow, DetailPages
<1>6. QED BY <1>2, <1>3, <1>5, EditorStep

(* Details that were asked for are dropped.                                *)
LEMMA SupersededIs ==
  ASSUME Inv, NEW t \in Tabs
  PROVE  /\ Superseded(t) \in [Slots -> Calls \cup {None}]
         /\ \A x \in Slots : x \notin LoadsOf(t) => Superseded(t)[x] = call[x]
         /\ \A x \in LoadsOf(t) : Superseded(t)[x] = Dropped(call[x])
<1>1. Superseded(t) = [x \in Slots |-> IF x \in LoadsOf(t) THEN Dropped(call[x]) ELSE call[x]]
  BY UnderLoad DEF Superseded
<1>2. \A x \in LoadsOf(t) : x \in Slots /\ call[x] \in Calls
  BY CallIs DEF LoadsOf, Loads, Inv
<1>3. QED BY <1>1, <1>2, DroppedIs DEF Inv, ClientTypes

LEMMA SupersededKeeps ==
  ASSUME Inv, NEW t \in Tabs, NEW x \in Slots, call'[x] = Superseded(t)[x]
  PROVE  SaveOf(x)' /\ (x[1] # t => Quiet(x)) /\ (x[1] = t => ~Loads(x)')
<1>1. CASE x \in LoadsOf(t)
  <2>1. call[x] \in Calls /\ x[1] = t /\ call[x].op = "load"
    BY <1>1, CallIs DEF LoadsOf, Loads, Inv
  <2>2. call'[x] = Dropped(call[x])
    BY <1>1, SupersededIs
  <2>3. QED BY <2>1, <2>2, DroppedIs DEF SaveOf, Loads
<1>2. CASE x \notin LoadsOf(t)
  <2>1. call'[x] = call[x]
    BY <1>2, SupersededIs
  <2>2. QED BY <1>2, <2>1 DEF Inv, FormInv, SaveOf, Quiet, Loads, LoadsOf
<1>3. QED BY <1>1, <1>2

LEMMA CloseKeeps == ASSUME Inv, NEW t \in Tabs, CloseProblem(t) PROVE Inv'
<1>1. call' = Superseded(t) /\ editor' = ProblemClosed(t)
        /\ tab' = [tab EXCEPT ![t].edit = None]
      /\ UNCHANGED <<token, refresh, verdict, changes, bound>>
  BY DEF CloseProblem, server, ghosts
<1>2. \A x \in Slots : SaveOf(x)' /\ (x[1] # t => Quiet(x)) /\ (x[1] = t => ~Loads(x)')
  BY <1>1, SupersededKeeps
<1>3. editor[t] \in Editor /\ tab[t] \in TabType /\ None \in Values
  BY ValuesHave DEF Inv, ClientTypes
<1> DEFINE e == [editor[t] EXCEPT !.open = FALSE, !.row = None]
<1>4. /\ e \in Editor /\ ~e.open /\ e.crossed = editor[t].crossed
      /\ e.loading = editor[t].loading /\ editor' = [editor EXCEPT ![t] = e]
  BY <1>1, <1>3 DEF ProblemClosed, Editor
<1> HIDE DEF e
<1>5. /\ editor' \in [Tabs -> Editor] /\ ~editor'[t].open
      /\ editor'[t].crossed = editor[t].crossed /\ editor'[t].loading = editor[t].loading
      /\ \A u \in Tabs \ {t} : editor'[u] = editor[u]
  BY <1>3, <1>4 DEF Editor, Inv, ClientTypes
<1>6. /\ tab' \in [Tabs -> TabType] /\ tab'[t].page = tab[t].page
      /\ \A u \in Tabs \ {t} : tab'[u] = tab[u]
  BY <1>1, <1>3 DEF TabType, Inv, ClientTypes
<1>7. LoadsOf(t)' = {} /\ FormOf(t)
  BY <1>2 DEF LoadsOf, Inv, FormInv
<1>8. FormOf(t)'
  BY <1>5, <1>6, <1>7 DEF FormOf, OneLoad
<1>9. FormInv'
  BY <1>2, <1>5, <1>6, <1>8, OneTab DEF Inv
<1>10. ClientTypes'
  BY <1>1, <1>5, <1>6, SupersededIs DEF Inv, ClientTypes
<1>11. QED BY <1>9, <1>10 DEF Inv

-----------------------------------------------------------------------------
(* Steps that ask for the details of a row.                                *)
LEMMA OneNewLoad ==
  ASSUME NEW t \in Tabs, NEW s \in Slots, s[1] = t, Loads(s)',
         \A x \in Slots \ {s} : x[1] = t => ~Loads(x)'
  PROVE  LoadsOf(t)' = {s}
BY DEF LoadsOf

LEMMA LoadProblemKeeps ==
  ASSUME Inv, NEW t \in Tabs, NEW s \in Free(t), NEW r \in Values,
         tab[t].page = "problems", ProblemOpened(t, r),
         Api(s, NewCall("problems", "load", r), Superseded(t))
  PROVE  Inv'
<1>1. /\ s \in Slots /\ s[1] = t /\ call[s] = None
  BY FreeSlot DEF Inv
<1> DEFINE c == NewCall("problems", "load", r)
<1>2. /\ c \in Calls /\ c.op = "load" /\ c.page = "problems" /\ c.live /\ c.row = r
  <2>1. "load" \in Ops /\ "problems" \in Pages \cup {None}
    BY DEF Ops, Pages, Editors
  <2>2. QED BY <2>1, NewCallIs
<1>3. /\ call' \in [Slots -> Calls \cup {None}] /\ refresh' \in [Tabs -> Values]
      /\ call'[s] # None /\ Same(call'[s], c)
      /\ \A x \in Slots \ {s} : call'[x] = Superseded(t)[x]
  BY <1>1, <1>2, ApiIs, SupersededIs DEF Inv
<1> HIDE DEF c
<1>4. \A x \in Slots \ {s} : SaveOf(x)' /\ (x[1] # t => Quiet(x)) /\ (x[1] = t => ~Loads(x)')
  BY <1>3, SupersededKeeps
<1>5. Loads(s)' /\ SaveOf(s)' /\ call'[s].row = r /\ call'[s].page = "problems"
  BY <1>2, <1>3 DEF Loads, SaveOf, Same
<1>6. LoadsOf(t)' = {s}
  BY <1>1, <1>4, <1>5, OneNewLoad
<1> DEFINE e == [editor[t] EXCEPT !.open = TRUE, !.row = r]
<1>7. editor[t] \in Editor /\ tab[t] \in TabType /\ None \in Values
  BY ValuesHave DEF Inv, ClientTypes
<1>8. e \in Editor /\ e.row = r
  BY <1>7 DEF Editor
<1>9. editor' = [editor EXCEPT ![t] = e]
  BY <1>7 DEF ProblemOpened, Editor
<1> HIDE DEF e
<1>10. /\ editor' \in [Tabs -> Editor] /\ editor'[t].row = r
       /\ \A u \in Tabs \ {t} : editor'[u] = editor[u]
  BY <1>8, <1>9 DEF Inv, ClientTypes
<1>11. /\ tab' \in [Tabs -> TabType] /\ tab'[t].page = "problems"
       /\ \A u \in Tabs \ {t} : tab'[u] = tab[u]
  BY <1>7 DEF ProblemOpened, TabType, Inv, ClientTypes
<1>12. FormOf(t)'
  BY <1>5, <1>6, <1>10, <1>11 DEF FormOf, OneLoad, LoadsRow, DetailPages
<1>13. FormInv'
  BY <1>1, <1>4, <1>5, <1>10, <1>11, <1>12, OneTab DEF Inv
<1>14. ClientTypes'
  BY <1>3, <1>10, <1>11 DEF Inv, ClientTypes, ProblemOpened, server, ghosts
<1>15. QED BY <1>13, <1>14 DEF Inv

LEMMA OpenProblems ==
  ASSUME Inv, NEW t \in Tabs,
         RestoreProblem(t) \/ \E r \in Rows : OpenProblem(t, r)
  PROVE  Inv'
<1>1. ASSUME NEW r \in Rows, OpenProblem(t, r) PROVE Inv'
  BY <1>1, LoadProblemKeeps, ValuesHave DEF OpenProblem, CanEdit, At
<1>2. CASE RestoreProblem(t)
  <2>1. tab[t].edit \in Values
    BY DEF Inv, ClientTypes, TabType
  <2>2. QED BY <1>2, <2>1, LoadProblemKeeps DEF RestoreProblem, At
<1>3. QED BY <1>1, <1>2

LEMMA OpenDetailKeeps ==
  ASSUME Inv, NEW t \in Tabs, NEW r \in Rows, OpenDetail(t, r),
         tab[t].page \in {"contests", "testcases"}
  PROVE  Inv'
<1> DEFINE c == NewCall(tab[t].page, "load", r)
<1>1. r \in Values /\ tab[t].page \in Pages
  BY ValuesHave DEF Inv, ClientTypes, TabType
<1>2. /\ c \in Calls /\ c.op = "load" /\ c.page = tab[t].page /\ c.live /\ c.row = r
  BY <1>1, NewCallIs DEF Ops
<1>3. PICK s \in Free(t) : Api(s, c, call)
  BY DEF OpenDetail, Load
<1> HIDE DEF c
<1>4. /\ call' \in [Slots -> Calls \cup {None}] /\ refresh' \in [Tabs -> Values]
      /\ s \in Slots /\ s[1] = t /\ ~Loads(s) /\ call'[s] # None /\ Same(call'[s], c)
      /\ \A x \in Slots \ {s} : Quiet(x) /\ SaveOf(x)' /\ call'[x] = call[x]
  BY <1>2, <1>3, BeginIs
<1>5. Loads(s)' /\ SaveOf(s)' /\ call'[s].row = r /\ call'[s].page = tab[t].page
  BY <1>2, <1>4 DEF Loads, SaveOf, Same
<1>6. /\ LoadsOf(t)' = LoadsOf(t) \cup {s}
      /\ \A x \in LoadsOf(t) : x # s /\ call'[x] = call[x]
  BY <1>4, <1>5 DEF LoadsOf, Quiet
<1> DEFINE e == [editor[t] EXCEPT !.open = TRUE, !.row = r, !.loading = TRUE,
                                  !.crossed = Under(t, "load") # {}]
<1>7. editor[t] \in Editor
  BY DEF Inv, ClientTypes
<1>8. e \in Editor /\ e.row = r /\ e.loading /\ e.crossed = (LoadsOf(t) # {})
  BY <1>1, <1>7, UnderLoad DEF Editor
<1>9. editor' = [editor EXCEPT ![t] = e] /\ UNCHANGED <<token, tab, verdict, changes, bound>>
  BY <1>7 DEF OpenDetail, Load, Editor, server, ghosts
<1> HIDE DEF e
<1>10. /\ editor' \in [Tabs -> Editor] /\ editor'[t] = e
       /\ \A u \in Tabs \ {t} : editor'[u] = editor[u]
  BY <1>8, <1>9 DEF Inv, ClientTypes
<1>11. FormOf(t)
  BY DEF Inv, FormInv
<1>12. FormOf(t)'
  BY <1>5, <1>6, <1>8, <1>9, <1>10, <1>11 DEF FormOf, OneLoad, LoadsRow, DetailPages
<1>13. FormInv'
  BY <1>4, <1>5, <1>9, <1>10, <1>12, OneTab DEF Inv
<1>14. ClientTypes'
  BY <1>4, <1>9, <1>10 DEF Inv, ClientTypes
<1>15. QED BY <1>13, <1>14 DEF Inv

LEMMA FormKeeps == ASSUME Inv, NEW t \in Tabs, Form(t) PROVE Inv'
<1>1. CASE \E r \in Rows : \/ OpenProblem(t, r) \/ OpenContest(t, r) \/ OpenTestcase(t, r)
                           \/ OpenUser(t, r) \/ OpenAnnouncement(t, r)
  <2>1. PICK r \in Rows : \/ OpenProblem(t, r) \/ OpenContest(t, r) \/ OpenTestcase(t, r)
                          \/ OpenUser(t, r) \/ OpenAnnouncement(t, r)
    BY <1>1
  <2>2. CASE OpenProblem(t, r)
    BY <2>2, OpenProblems
  <2>3. CASE OpenContest(t, r) \/ OpenTestcase(t, r)
    BY <2>3, OpenDetailKeeps DEF OpenContest, OpenTestcase, CanEdit, At
  <2>4. CASE OpenUser(t, r) \/ OpenAnnouncement(t, r)
    BY <2>4, FillKeeps DEF OpenUser, OpenAnnouncement, CanEdit, At, Editors, DetailPages
  <2>5. QED BY <2>1, <2>2, <2>3, <2>4
<1>2. CASE \/ SaveProblem(t) \/ SaveContest(t) \/ SaveTestcase(t) \/ SaveUser(t)
           \/ SaveAnnouncement(t)
  BY <1>2, Saves
<1>3. CASE NewContest(t) \/ NewTestcase(t)
  BY <1>3, NewDetailKeeps DEF NewContest, NewTestcase, CanEdit, At
<1>4. CASE CloseProblem(t) \/ Cancel(t) \/ RestoreProblem(t)
  BY <1>4, CloseKeeps, CancelKeeps, OpenProblems
<1>5. CASE Change(t)
  <2>1. tab[t].page \in Pages
    BY DEF Inv, ClientTypes, TabType
  <2>2. QED BY <1>5, <2>1, ChangeKeeps DEF Change
<1>6. CASE CreateProblem(t)
  BY <1>6, ChangeKeeps DEF CreateProblem, Pages, Editors
<1>7. ASSUME NEW p \in Lists, ChangeOf(t, p) PROVE Inv'
  BY <1>7, ChangeKeeps DEF ChangeOf, Pages
<1>8. CASE \/ CreateClass(t) \/ RemoveMember(t) \/ CreateHomework(t) \/ PostDiscussion(t)
           \/ ChangeRegistration(t)
  BY <1>7, <1>8
  DEF CreateClass, RemoveMember, CreateHomework, PostDiscussion, ChangeRegistration, Lists
<1>9. QED
  BY <1>1, <1>2, <1>3, <1>4, <1>5, <1>6, <1>8 DEF Form

-----------------------------------------------------------------------------
(* Steps that take a tab to another page.                                  *)
LEMMA UnmountedKeeps ==
  ASSUME Inv, NEW t \in Tabs
  PROVE  /\ Unmounted(t) \in [Slots -> Calls \cup {None}]
         /\ \A x \in Slots : call'[x] = Unmounted(t)[x] =>
              SaveOf(x)' /\ (x[1] # t => Quiet(x)) /\ (x[1] = t => ~Loads(x)')
<1>1. \A x \in Slots : call[x] # None => call[x] \in Calls
  BY CallIs DEF Inv
<1>2. \A x \in Slots : Unmounted(t)[x] = IF x[1] = t /\ call[x] # None /\ call[x].op # "login"
                                         THEN Left(call[x]) ELSE call[x]
  BY DEF Unmounted
<1>3. Unmounted(t) \in [Slots -> Calls \cup {None}]
  BY <1>1, LeftIs DEF Unmounted
<1>4. ASSUME NEW x \in Slots, call'[x] = Unmounted(t)[x]
      PROVE  SaveOf(x)' /\ (x[1] # t => Quiet(x)) /\ (x[1] = t => ~Loads(x)')
  <2>1. CASE x[1] = t /\ call[x] # None /\ call[x].op # "login"
    <3>1. call'[x] = Left(call[x]) /\ call[x] \in Calls
      BY <1>1, <1>2, <1>4, <2>1
    <3>2. SaveOf(x)
      BY DEF Inv, FormInv
    <3>3. QED BY <2>1, <3>1, <3>2, LeftIs DEF SaveOf, Loads
  <2>2. CASE ~(x[1] = t /\ call[x] # None /\ call[x].op # "login")
    <3>1. call'[x] = call[x]
      BY <1>2, <1>4, <2>2
    <3>2. QED BY <2>2, <3>1 DEF Inv, FormInv, SaveOf, Quiet, Loads
  <2>3. QED BY <2>1, <2>2
<1>5. QED BY <1>3, <1>4

LEMMA PageStep ==
  ASSUME Inv, NEW t \in Tabs, ClientTypes', editor'[t] = NoEditor,
         \A u \in Tabs \ {t} : editor'[u] = editor[u] /\ tab'[u] = tab[u],
         \A x \in Slots : SaveOf(x)' /\ (x[1] # t => Quiet(x)) /\ (x[1] = t => ~Loads(x)')
  PROVE  Inv'
<1>1. FormOf(t)'
  BY TabNew
<1>2. FormInv'
  BY <1>1, OneTab DEF Inv
<1>3. QED BY <1>2 DEF Inv

LEMMA NewTab ==
  ASSUME Inv, NEW t \in Tabs, NEW p \in Pages, NEW r \in Values,
         editor' = [editor EXCEPT ![t] = NoEditor],
         tab' = [tab EXCEPT ![t] = ShowsRow(p, r)]
  PROVE  /\ editor' \in [Tabs -> Editor] /\ tab' \in [Tabs -> TabType]
         /\ editor'[t] = NoEditor
         /\ \A u \in Tabs \ {t} : editor'[u] = editor[u] /\ tab'[u] = tab[u]
<1>1. NoEditor \in Editor /\ ShowsRow(p, r) \in TabType
  BY ValuesHave DEF NoEditor, Editor, ShowsRow, TabType
<1> HIDE DEF NoEditor
<1>2. QED BY <1>1 DEF Inv, ClientTypes

(* The calls of a tab that changes its page, and one that it begins.       *)
LEMMA PageCalls ==
  ASSUME Inv, NEW t \in Tabs, NEW s \in Slots, s[1] = t, NEW p \in Pages,
         Api(s, NewCall(p, "query", None), Unmounted(t))
  PROVE  /\ call' \in [Slots -> Calls \cup {None}] /\ refresh' \in [Tabs -> Values]
         /\ \A x \in Slots : SaveOf(x)' /\ (x[1] # t => Quiet(x)) /\ (x[1] = t => ~Loads(x)')
<1> DEFINE c == NewCall(p, "query", None)
<1>1. c \in Calls /\ c.op = "query"
  BY NewCallIs, ValuesHave DEF Ops
<1> HIDE DEF c
<1>2. /\ call' \in [Slots -> Calls \cup {None}] /\ refresh' \in [Tabs -> Values]
      /\ call'[s] # None /\ Same(call'[s], c)
      /\ \A x \in Slots \ {s} : call'[x] = Unmounted(t)[x]
  BY <1>1, ApiIs, UnmountedKeeps DEF Inv, c
<1>3. SaveOf(s)' /\ ~Loads(s)'
  BY <1>1, <1>2 DEF SaveOf, Loads, Same
<1>4. QED BY <1>2, <1>3, UnmountedKeeps

LEMMA PulledBackKeeps ==
  ASSUME Inv, NEW t \in Tabs, NEW s \in Slots, s[1] = t, NEW r \in Values,
         PulledBack(t, s, r),
         UNCHANGED <<token, server, ghosts>>
  PROVE  Inv'
<1>1. "problems" \in Pages
  BY DEF Pages, Editors
<1>2. /\ call' \in [Slots -> Calls \cup {None}] /\ refresh' \in [Tabs -> Values]
      /\ \A x \in Slots : SaveOf(x)' /\ (x[1] # t => Quiet(x)) /\ (x[1] = t => ~Loads(x)')
  BY <1>1, PageCalls DEF PulledBack
<1>3. /\ editor' \in [Tabs -> Editor] /\ tab' \in [Tabs -> TabType]
      /\ editor'[t] = NoEditor
      /\ \A u \in Tabs \ {t} : editor'[u] = editor[u] /\ tab'[u] = tab[u]
  BY <1>1, NewTab DEF PulledBack
<1>4. ClientTypes'
  BY <1>2, <1>3 DEF Inv, ClientTypes, server, ghosts
<1>5. QED BY <1>2, <1>3, <1>4, PageStep

LEMMA ShowKeeps ==
  ASSUME Inv, NEW t \in Tabs,
         ToLogin(t) \/ \E p \in Pages : Navigate(t, p)
  PROVE  Inv'
<1>1. ASSUME NEW p \in Pages, Show(t, p),
             /\ call' \in [Slots -> Calls \cup {None}] /\ refresh' \in [Tabs -> Values]
             /\ \A x \in Slots : SaveOf(x)' /\ (x[1] # t => Quiet(x))
                /\ (x[1] = t => ~Loads(x)')
      PROVE  Inv'
  <2>1. /\ editor' \in [Tabs -> Editor] /\ tab' \in [Tabs -> TabType]
        /\ editor'[t] = NoEditor
        /\ \A u \in Tabs \ {t} : editor'[u] = editor[u] /\ tab'[u] = tab[u]
    BY <1>1, NewTab, ValuesHave DEF Show, Shows
  <2>2. ClientTypes'
    BY <1>1, <2>1 DEF Inv, ClientTypes, Show, server, ghosts
  <2>3. QED BY <1>1, <2>1, <2>2, PageStep
<1>2. CASE ToLogin(t)
  <2>1. call' = Unmounted(t) /\ refresh' = refresh /\ "login" \in Pages
    BY <1>2 DEF ToLogin, Pages
  <2>2. refresh' \in [Tabs -> Values]
    BY <2>1 DEF Inv, ClientTypes
  <2>3. QED BY <1>1, <1>2, <2>1, <2>2, UnmountedKeeps DEF ToLogin
<1>3. ASSUME NEW p \in Pages, Navigate(t, p) PROVE Inv'
  <2>1. PICK s \in Free(t) : Api(s, NewCall(p, "query", None), Unmounted(t))
    BY <1>3 DEF Navigate
  <2>2. s \in Slots /\ s[1] = t
    BY FreeSlot DEF Inv
  <2>3. /\ call' \in [Slots -> Calls \cup {None}] /\ refresh' \in [Tabs -> Values]
        /\ \A x \in Slots : SaveOf(x)' /\ (x[1] # t => Quiet(x)) /\ (x[1] = t => ~Loads(x)')
    BY <2>1, <2>2, PageCalls
  <2>4. QED BY <1>1, <1>3, <2>3 DEF Navigate
<1>4. QED BY <1>2, <1>3

LEMMA UnloadKeeps == ASSUME Inv, NEW t \in Tabs, Unload(t) PROVE Inv'
<1>1. /\ call' \in [Slots -> Calls \cup {None}] /\ refresh' \in [Tabs -> Values]
      /\ \A x \in Slots : call'[x] = IF x[1] = t THEN None ELSE call[x]
  BY ValuesHave DEF Unload, Inv, ClientTypes
<1>2. \A x \in Slots : SaveOf(x)' /\ (x[1] # t => Quiet(x)) /\ (x[1] = t => ~Loads(x)')
  BY <1>1 DEF SaveOf, Quiet, Loads, Inv, FormInv
<1>3. /\ editor' \in [Tabs -> Editor] /\ tab' \in [Tabs -> TabType]
      /\ editor'[t] = NoEditor
      /\ \A u \in Tabs \ {t} : editor'[u] = editor[u] /\ tab'[u] = tab[u]
  BY NewTab, ValuesHave DEF Unload, Shows, Pages
<1>4. ClientTypes'
  BY <1>1, <1>3 DEF Inv, ClientTypes, Unload, server, ghosts
<1>5. QED BY <1>2, <1>3, <1>4, PageStep

(* A login shows another page, with an empty form that awaits nothing, and *)
(* the session it begins is that of the user who logged in last.           *)
LEMMA LoggedInKeeps ==
  ASSUME Inv, NEW s \in Slots, NEW p \in Pages, LoggedIn(s, p) PROVE Inv'
<1> DEFINE t == s[1]
           k == [user |-> call[s].row, life |-> "fresh"]
           c == NewCall(p, "query", None)
<1>1. t \in Tabs /\ call[s] # None /\ call[s] \in Calls /\ call[s].op = "login"
  BY SlotTab, CallIs DEF LoggedIn, Has, Inv
<1>2. k \in [user : Values, life : {"fresh", "due"}] /\ token' = k
  BY <1>1 DEF LoggedIn, Calls
<1>3. UNCHANGED <<bound, refresh, editor, verdict, changes>>
  BY DEF LoggedIn, server
<1>4. CASE At(t, "login")
  <2>1. /\ tab' = [tab EXCEPT ![t] = Shows(p)]
        /\ call' = [Unmounted(t) EXCEPT ![s] = Sent(c, k)]
    BY <1>4 DEF LoggedIn
  <2>2. c \in Calls /\ c.op = "query"
    BY NewCallIs, ValuesHave DEF Ops
  <2> HIDE DEF c, k
  <2>3. Sent(c, k) \in Calls /\ Same(Sent(c, k), c)
    BY <1>2, <2>2, SentSame
  <2>4. /\ call' \in [Slots -> Calls \cup {None}] /\ call'[s] = Sent(c, k)
        /\ \A x \in Slots \ {s} : call'[x] = Unmounted(t)[x]
    BY <1>1, <2>1, <2>3, UnmountedKeeps
  <2>5. SaveOf(s)' /\ ~Loads(s)'
    BY <2>2, <2>3, <2>4 DEF SaveOf, Loads, Same
  <2>6. \A x \in Slots : SaveOf(x)' /\ (x[1] # t => Quiet(x)) /\ (x[1] = t => ~Loads(x)')
    BY <1>1, <2>4, <2>5, UnmountedKeeps
  <2>7. Shows(p) \in TabType
    BY ValuesHave DEF Shows, ShowsRow, TabType
  <2>8. tab' \in [Tabs -> TabType] /\ \A u \in Tabs \ {t} : tab'[u] = tab[u]
    BY <1>1, <2>1, <2>7 DEF Inv, ClientTypes
  <2>9. LoadsOf(t)' = {}
    BY <2>6 DEF LoadsOf
  <2>10. FormOf(t) /\ tab[t].page = "login"
    BY <1>1, <1>4 DEF Inv, FormInv, At
  <2>11. FormOf(t)'
    BY <1>3, <2>9, <2>10 DEF FormOf, OneLoad, LoadsRow, OfItsRow, DetailPages
  <2>12. FormInv'
    BY <1>1, <1>3, <2>6, <2>8, <2>11, OneTab DEF Inv
  <2>13. ClientTypes'
    BY <1>2, <1>3, <2>4, <2>8 DEF Inv, ClientTypes
  <2>14. QED BY <2>12, <2>13 DEF Inv
<1>5. CASE ~At(t, "login")
  <2>1. call' = [call EXCEPT ![s] = None] /\ tab' = tab
    BY <1>5 DEF LoggedIn, Done
  <2>2. \A x \in Slots : Quiet(x) /\ SaveOf(x)'
    BY <1>1, <2>1 DEF Quiet, SaveOf, Loads, Inv, FormInv, ClientTypes
  <2>3. FormInv'
    BY <1>3, <2>1, <2>2, AllQuiet DEF Inv
  <2>4. ClientTypes'
    BY <1>2, <1>3, <2>1 DEF Inv, ClientTypes
  <2>5. QED BY <2>3, <2>4 DEF Inv
<1>6. QED BY <1>4, <1>5

-----------------------------------------------------------------------------
(* Steps of the server, and the ends of calls that no form waits for.      *)
LEMMA CallsOnly ==
  ASSUME Inv, editor' = editor, call' \in [Slots -> Calls \cup {None}],
         \A x \in Slots : Quiet(x) /\ SaveOf(x)', tab' \in [Tabs -> TabType],
         \A t \in Tabs : tab'[t].page = tab[t].page /\ (tab[t].leaving => tab'[t].leaving),
         refresh' \in [Tabs -> Values],
         token' = None \/ token' \in [user : Values, life : {"fresh", "due"}],
         bound' = bound, verdict' \in {"judging", "final"}, changes' \in Nat
  PROVE  Inv'
<1>1. FormInv'
  BY AllQuiet DEF Inv
<1>2. ClientTypes'
  BY DEF Inv, ClientTypes
<1>3. QED BY <1>1, <1>2 DEF Inv

LEMMA SameCall ==
  ASSUME Inv, NEW x \in Slots,
         call[x] # None => call'[x] # None /\ Same(call'[x], call[x]),
         call[x] = None => call'[x] = None
  PROVE  Quiet(x) /\ SaveOf(x)'
BY DEF Inv, FormInv, Quiet, SaveOf, Loads, Same

LEMMA ServeKeeps == ASSUME Inv, NEW s \in Slots, Serve(s) PROVE Inv'
<1>1. ASSUME call[s] # None, NEW a \in {"ok", "401", "error"}, NEW d \in Values,
             Answered(s, a, d), UNCHANGED <<token, refresh, tab, editor, bound>>,
             verdict' = verdict, changes' \in Nat
      PROVE  Inv'
  <2> DEFINE e == [call[s] EXCEPT !.pc = "answered", !.ans = a, !.data = d, !.auth = "none"]
  <2>1. call[s] \in Calls
    BY <1>1, CallIs DEF Inv
  <2>2. e \in Calls /\ Same(e, call[s])
    BY <2>1 DEF Calls, Same
  <2>3. call' = [call EXCEPT ![s] = e]
    BY <1>1, <2>1 DEF Answered, Calls
  <2> HIDE DEF e
  <2>4. /\ call' \in [Slots -> Calls \cup {None}] /\ call'[s] = e /\ e # None
        /\ \A x \in Slots \ {s} : call'[x] = call[x]
    BY <2>2, <2>3, WebAssumption DEF Inv, ClientTypes
  <2>5. \A x \in Slots : Quiet(x) /\ SaveOf(x)'
    BY <1>1, <2>2, <2>4, SameCall DEF Same
  <2>6. QED BY <1>1, <2>4, <2>5, CallsOnly DEF Inv, ClientTypes
<1>2. changes \in Nat /\ verdict \in Values /\ None \in Values
  BY ValuesHave DEF Inv, ClientTypes
<1>3. CASE ServeOk(s)
  <2>1. changes' \in Nat /\ changes' \in Values
    BY <1>2, <1>3, ValuesHave DEF ServeOk
  <2>2. PICK d \in Values : Answered(s, "ok", d)
    BY <1>2, <1>3, <2>1 DEF ServeOk
  <2>3. QED BY <1>1, <1>3, <2>1, <2>2 DEF ServeOk, ghosts
<1>4. CASE ServeUnauthorized(s)
  BY <1>1, <1>2, <1>4 DEF ServeUnauthorized, server, ghosts
<1>5. CASE ServeError(s)
  BY <1>1, <1>2, <1>5 DEF ServeError, ghosts
<1>6. QED BY <1>3, <1>4, <1>5 DEF Serve

LEMMA DoneIs ==
  ASSUME Inv, NEW s \in Slots, ~Loads(s), call' = Done(s)
  PROVE  call' \in [Slots -> Calls \cup {None}] /\ \A x \in Slots : Quiet(x) /\ SaveOf(x)'
BY DEF Done, Inv, FormInv, ClientTypes, Quiet, SaveOf, Loads

LEMMA TimeKeeps == ASSUME Inv, Age \/ Judged PROVE Inv'
<1>1. \A x \in Slots : call' = call => Quiet(x) /\ SaveOf(x)'
  BY SameCall DEF Same
<1>2. CASE Age
  <2>1. token' \in [user : Values, life : {"fresh", "due"}] /\ call' = call
    BY <1>2 DEF Age, Inv, ClientTypes
  <2>2. QED BY <1>1, <1>2, <2>1, CallsOnly DEF Age, server, ghosts, Inv, ClientTypes
<1>3. CASE Judged
  BY <1>1, <1>3, CallsOnly DEF Judged, ghosts, Inv, ClientTypes
<1>4. QED BY <1>2, <1>3

(* The tab may be sent away from its page.                                 *)
LEMMA ClearedIs ==
  ASSUME Inv, NEW t \in Tabs, clearSessionAndRedirect(t)
  PROVE  /\ token' = None /\ tab' \in [Tabs -> TabType]
         /\ \A u \in Tabs : tab'[u].page = tab[u].page /\ (tab[u].leaving => tab'[u].leaving)
         /\ \A u \in Tabs \ {t} : tab'[u] = tab[u]
         /\ tab[t].page # "login" => tab'[t].leaving
<1> DEFINE e == [tab[t] EXCEPT !.leaving = @ \/ tab[t].page # "login"]
<1>1. tab[t] \in TabType
  BY DEF Inv, ClientTypes
<1>2. e \in TabType /\ e.page = tab[t].page /\ e.leaving = (tab[t].leaving \/ tab[t].page # "login")
  BY <1>1 DEF TabType
<1>3. tab' = [tab EXCEPT ![t] = e] /\ token' = None
  BY <1>1 DEF clearSessionAndRedirect, TabType
<1> HIDE DEF e
<1>4. QED BY <1>2, <1>3 DEF Inv, ClientTypes

LEMMA LogoutKeeps == ASSUME Inv, NEW t \in Tabs, Logout(t) PROVE Inv'
<1>1. \A x \in Slots : call' = call => Quiet(x) /\ SaveOf(x)'
  BY SameCall DEF Same
<1>2. QED BY <1>1, ClearedIs, CallsOnly DEF Logout, server, Inv, ClientTypes

LEMMA EndsKeep ==
  ASSUME Inv, NEW s \in Slots, LoginFails(s) \/ ChangeFails(s) \/ QueryAnswered(s)
  PROVE  Inv'
<1>1. /\ call[s] # None /\ call[s] \in Calls /\ ~Loads(s) /\ call' = Done(s)
      /\ s[1] \in Tabs /\ tab[s[1]] \in TabType
  BY CallIs, SlotTab
  DEF LoginFails, ChangeFails, QueryAnswered, Failing, Has, Loads, Inv, ClientTypes
<1>2. call' \in [Slots -> Calls \cup {None}] /\ \A x \in Slots : Quiet(x) /\ SaveOf(x)'
  BY <1>1, DoneIs
<1>3. /\ tab' \in [Tabs -> TabType]
      /\ \A t \in Tabs : tab'[t].page = tab[t].page /\ (tab[t].leaving => tab'[t].leaving)
  <2>1. CASE tab' = tab
    BY <2>1 DEF Inv, ClientTypes
  <2>2. CASE QueryAnswered(s) /\ tab' # tab
    <3> DEFINE e == [tab[s[1]] EXCEPT !.shown = call[s].data, !.failed = FALSE]
    <3>1. call[s].data \in Values
      BY <1>1 DEF Calls
    <3>2. e \in TabType /\ e.page = tab[s[1]].page /\ e.leaving = tab[s[1]].leaving
      BY <1>1, <3>1 DEF TabType
    <3>3. tab' = [tab EXCEPT ![s[1]] = e]
      BY <1>1, <2>2 DEF QueryAnswered, TabType
    <3> HIDE DEF e
    <3>4. QED BY <1>1, <3>2, <3>3 DEF Inv, ClientTypes
  <2>3. QED BY <2>1, <2>2 DEF LoginFails, ChangeFails
<1>4. QED
  BY <1>2, <1>3, CallsOnly
  DEF LoginFails, ChangeFails, QueryAnswered, server, ghosts, Inv, ClientTypes

-----------------------------------------------------------------------------
(* Steps after which a tab may await less.                                 *)
Fewer(t) ==
  \A s \in Slots : s[1] = t /\ Loads(s)' =>
    Loads(s) /\ call'[s].row = call[s].row /\ call'[s].page = call[s].page

LEMMA FewerIs ==
  ASSUME NEW t \in Tabs, Fewer(t)
  PROVE  /\ LoadsOf(t)' \subseteq LoadsOf(t)
         /\ \A s \in LoadsOf(t)' : call'[s].row = call[s].row /\ call'[s].page = call[s].page
BY DEF Fewer, LoadsOf

LEMMA FormLeft ==
  ASSUME NEW t \in Tabs, FormOf(t), editor'[t] = editor[t], tab'[t].page = tab[t].page,
         tab'[t].leaving \/ tab[t].page \notin DetailPages, Fewer(t)
  PROVE  FormOf(t)'
<1>1. /\ LoadsOf(t)' \subseteq LoadsOf(t)
      /\ \A s \in LoadsOf(t)' : call'[s].row = call[s].row /\ call'[s].page = call[s].page
  BY FewerIs
<1>2. /\ OneLoad(t) => OneLoad(t)'
      /\ LoadsRow(t) => LoadsRow(t)'
      /\ OfItsRow(t) => OfItsRow(t)'
  BY <1>1 DEF OneLoad, LoadsRow, OfItsRow
<1>3. QED BY <1>1, <1>2 DEF FormOf, DetailPages

LEMMA FormClosed ==
  ASSUME NEW t \in Tabs, FormOf(t), ~editor'[t].open,
         editor'[t].crossed = editor[t].crossed,
         editor'[t].loading => editor[t].loading,
         tab'[t].page = tab[t].page, tab[t].leaving => tab'[t].leaving, Fewer(t)
  PROVE  FormOf(t)'
<1>1. /\ LoadsOf(t)' \subseteq LoadsOf(t)
      /\ \A s \in LoadsOf(t)' : call'[s].page = call[s].page
  BY FewerIs
<1>2. OneLoad(t) => OneLoad(t)'
  BY <1>1 DEF OneLoad
<1>3. QED BY <1>1, <1>2 DEF FormOf

LEMMA DroppedCalls ==
  ASSUME Inv, NEW t \in Tabs, editor' = editor, call' \in [Slots -> Calls \cup {None}],
         \A s \in Slots : SaveOf(s)' /\ (s[1] # t => Quiet(s)), Fewer(t),
         clearSessionAndRedirect(t),
         refresh' \in [Tabs -> Values], UNCHANGED <<bound, verdict, changes>>
  PROVE  Inv'
<1>1. /\ token' = None /\ tab' \in [Tabs -> TabType]
      /\ \A u \in Tabs : tab'[u].page = tab[u].page /\ (tab[u].leaving => tab'[u].leaving)
      /\ \A u \in Tabs \ {t} : tab'[u] = tab[u]
      /\ tab[t].page # "login" => tab'[t].leaving
  BY ClearedIs
<1>2. FormOf(t)'
  BY <1>1, FormLeft DEF Inv, FormInv, DetailPages
<1>3. FormInv'
  BY <1>1, <1>2, OneTab DEF Inv
<1>4. ClientTypes'
  BY <1>1 DEF Inv, ClientTypes
<1>5. QED BY <1>3, <1>4 DEF Inv

LEMMA RefusedKeeps == ASSUME Inv, NEW s \in Slots, Refused(s) PROVE Inv'
<1>1. /\ call[s] # None /\ call[s] \in Calls /\ s[1] \in Tabs
      /\ editor' = editor /\ UNCHANGED <<bound, verdict, changes>>
      /\ refresh \in [Tabs -> Values]
  BY CallIs, SlotTab DEF Refused, Has, server, ghosts, Inv, ClientTypes
<1>2. CASE call[s].retried
  <2>1. clearSessionAndRedirect(s[1]) /\ call' = [call EXCEPT ![s] = None]
          /\ refresh' = refresh
    BY <1>2 DEF Refused, Done
  <2>2. call' \in [Slots -> Calls \cup {None}] /\ call'[s] = None
        /\ \A x \in Slots \ {s} : call'[x] = call[x]
    BY <2>1 DEF Inv, ClientTypes
  <2>3. \A x \in Slots : SaveOf(x)' /\ (x # s => Quiet(x))
    BY <2>2 DEF Inv, FormInv, SaveOf, Quiet, Loads
  <2>4. Fewer(s[1])
    BY <2>2 DEF Fewer, Loads
  <2>5. QED BY <1>1, <2>1, <2>2, <2>3, <2>4, DroppedCalls
<1>3. CASE ~call[s].retried
  <2> DEFINE e == [call[s] EXCEPT !.pc = "retrying", !.ans = "none"]
  <2>1. /\ call' = [call EXCEPT ![s].pc = "retrying", ![s].ans = "none"]
        /\ refresh' = tryRefreshToken(s[1]) /\ UNCHANGED <<token, tab>> /\ token # None
    BY <1>3 DEF Refused
  <2>2. e \in Calls /\ Same(e, call[s])
    BY <1>1 DEF Calls, Same
  <2>3. call' = [call EXCEPT ![s] = e]
    BY <1>1, <2>1 DEF Calls
  <2> HIDE DEF e
  <2>4. /\ call' \in [Slots -> Calls \cup {None}] /\ call'[s] = e /\ e # None
        /\ \A x \in Slots \ {s} : call'[x] = call[x]
    BY <2>2, <2>3, WebAssumption DEF Inv, ClientTypes
  <2>5. \A x \in Slots : Quiet(x) /\ SaveOf(x)'
    BY <1>1, <2>2, <2>4, SameCall DEF Same
  <2>6. refresh' \in [Tabs -> Values]
    BY <1>1, <2>1 DEF tryRefreshToken, Inv, ClientTypes
  <2>7. QED BY <1>1, <2>1, <2>4, <2>5, <2>6, CallsOnly DEF Inv, ClientTypes
<1>4. QED BY <1>2, <1>3

LEMMA RefreshEnds == ASSUME Inv, NEW t \in Tabs, EndRefresh(t) PROVE Inv'
<1>1. /\ \A x \in Slots : call[x] # None => call[x] \in Calls
      /\ refresh \in [Tabs -> Values] /\ None \in Values
      /\ token = None \/ token \in [user : Values, life : {"fresh", "due"}]
  BY CallIs, ValuesHave DEF Inv, ClientTypes
<1>2. refresh' \in [Tabs -> Values]
  BY <1>1 DEF EndRefresh, Refreshed, RefreshFailed
<1>3. CASE Refreshed(t)
  <2>1. token' \in [user : Values, life : {"fresh", "due"}]
    BY <1>1, <1>3 DEF Refreshed
  <2> DEFINE e(x) == [call[x] EXCEPT !.retried = @ \/ call[x].pc = "retrying"]
  <2>2. \A x \in Slots : call[x] # None => e(x) \in Calls /\ Same(e(x), call[x])
    BY <1>1 DEF Calls, Same
  <2>3. \A x \in Slots : call'[x] =
          IF x[1] = t /\ call[x] # None /\ call[x].pc \in {"waiting", "retrying"}
          THEN Sent(e(x), token') ELSE call[x]
    BY <1>3 DEF Refreshed
  <2> HIDE DEF e
  <2>4. ASSUME NEW x \in Slots, call[x] # None
        PROVE  Sent(e(x), token') \in Calls /\ Same(Sent(e(x), token'), call[x])
    <3>1. e(x) \in Calls /\ Same(e(x), call[x])
      BY <2>2, <2>4
    <3>2. Sent(e(x), token') \in Calls /\ Same(Sent(e(x), token'), e(x))
      BY <2>1, <3>1, SentSame
    <3>3. QED BY <3>1, <3>2 DEF Same
  <2>5. \A x \in Slots : /\ call[x] # None => call'[x] \in Calls /\ Same(call'[x], call[x])
                         /\ call[x] = None => call'[x] = None
    BY <1>1, <2>4, <2>3 DEF Same
  <2>6. call' \in [Slots -> Calls \cup {None}]
    BY <1>3, <2>5 DEF Refreshed
  <2>7. \A x \in Slots : Quiet(x) /\ SaveOf(x)'
    BY <2>5, SameCall, WebAssumption
  <2>8. QED
    BY <1>2, <1>3, <2>1, <2>6, <2>7, CallsOnly
    DEF Refreshed, server, ghosts, Inv, ClientTypes
<1>4. CASE RefreshFailed(t)
  <2> DEFINE R == {s \in Slots : s[1] = t /\ call[s] # None /\ call[s].pc = "retrying"}
             W == {s \in Slots : s[1] = t /\ call[s] # None /\ call[s].pc = "waiting"}
  <2>1. /\ call' = [s \in Slots |-> IF s \in R THEN None
                                    ELSE IF s \in W THEN Sent(call[s], token) ELSE call[s]]
        /\ IF R = {} THEN UNCHANGED <<token, tab>> ELSE clearSessionAndRedirect(t)
        /\ editor' = editor /\ UNCHANGED <<bound, verdict, changes>>
    BY <1>4 DEF RefreshFailed, server, ghosts
  <2>2. R \subseteq Slots /\ (\A s \in R : s[1] = t) /\ (\A s \in W : call[s] # None)
    OBVIOUS
  <2> HIDE DEF R, W
  <2>3. \A x \in Slots : call[x] # None =>
          Sent(call[x], token) \in Calls /\ Same(Sent(call[x], token), call[x])
    BY <1>1, SentSame
  <2>4. \A x \in Slots : /\ x \in R => call'[x] = None
                         /\ x \notin R /\ call[x] # None => call'[x] \in Calls
                            /\ Same(call'[x], call[x])
                         /\ x \notin R /\ call[x] = None => call'[x] = None
    BY <1>1, <2>1, <2>2, <2>3 DEF Same
  <2>5. call' \in [Slots -> Calls \cup {None}]
    BY <2>1, <2>4
  <2>6. \A x \in Slots \ R : Quiet(x) /\ SaveOf(x)'
    BY <2>4, SameCall, WebAssumption
  <2>7. CASE R = {}
    BY <1>1, <1>2, <2>1, <2>5, <2>6, <2>7, CallsOnly DEF Inv, ClientTypes
  <2>8. CASE R # {}
    <3>1. \A x \in Slots : SaveOf(x)' /\ (x[1] # t => Quiet(x))
      BY <2>2, <2>4, <2>6 DEF SaveOf
    <3>2. Fewer(t)
      BY <2>4, <2>6 DEF Fewer, Quiet, Loads
    <3>3. QED BY <1>2, <2>1, <2>5, <2>8, <3>1, <3>2, DroppedCalls
  <2>9. QED BY <2>7, <2>8
<1>5. QED BY <1>3, <1>4 DEF EndRefresh

-----------------------------------------------------------------------------
(* Steps that end a call and may begin another in its place.               *)
LEMMA AgainIs ==
  ASSUME Inv, NEW s \in Slots, ~Loads(s), NEW p \in Pages \cup {None},
         NEW others \in [Slots -> Calls \cup {None}],
         Api(s, NewCall(p, "query", None), others),
         \A x \in Slots \ {s} : call'[x] = others[x] => Quiet(x) /\ SaveOf(x)'
  PROVE  /\ call' \in [Slots -> Calls \cup {None}] /\ refresh' \in [Tabs -> Values]
         /\ \A x \in Slots : Quiet(x) /\ SaveOf(x)'
<1> DEFINE c == NewCall(p, "query", None)
<1>1. "query" \in Ops /\ None \in Values
  BY ValuesHave DEF Ops
<1>2. c \in Calls /\ c.op = "query" /\ Api(s, c, others)
  BY <1>1, NewCallIs
<1> HIDE DEF c
<1>3. /\ call' \in [Slots -> Calls \cup {None}] /\ refresh' \in [Tabs -> Values]
      /\ call'[s] # None /\ Same(call'[s], c)
      /\ \A x \in Slots \ {s} : call'[x] = others[x]
  BY <1>2, ApiIs DEF Inv
<1>4. Quiet(s) /\ SaveOf(s)'
  BY <1>2, <1>3 DEF Quiet, SaveOf, Loads, Same
<1>5. QED BY <1>3, <1>4

LEMMA InvalidatedIs ==
  ASSUME Inv, NEW s \in Slots, ~Loads(s), invalidateQueries(s[1], s)
  PROVE  /\ call' \in [Slots -> Calls \cup {None}] /\ refresh' \in [Tabs -> Values]
         /\ \A x \in Slots : Quiet(x) /\ SaveOf(x)'
<1> DEFINE t == s[1]
           q == Under(t, "query")
           others == [x \in Slots |-> IF x \in q THEN Dropped(call[x]) ELSE call[x]]
<1>1. /\ \A x \in Slots : call[x] # None => call[x] \in Calls
      /\ refresh \in [Tabs -> Values] /\ t \in Tabs
  BY CallIs, SlotTab DEF Inv, ClientTypes
<1>2. CASE call' = [call EXCEPT ![s] = None] /\ UNCHANGED refresh
  BY <1>1, <1>2, DoneIs DEF Done
<1>3. CASE Api(s, NewCall(tab[t].page, "query", None), others)
  <2>1. \A x \in q : call[x] \in Calls /\ call[x].op = "query"
    BY <1>1 DEF Under
  <2>2. \A x \in q : /\ Dropped(call[x]) \in Calls /\ Dropped(call[x]).op = "query"
    BY <2>1, DroppedIs
  <2> HIDE DEF q
  <2>3. others \in [Slots -> Calls \cup {None}]
    BY <1>1, <2>2
  <2>4. ASSUME NEW x \in Slots, call'[x] = others[x] PROVE Quiet(x) /\ SaveOf(x)'
    <3>1. CASE x \in q
      BY <2>1, <2>2, <2>4, <3>1 DEF Quiet, SaveOf, Loads
    <3>2. CASE x \notin q
      BY <2>4, <3>2, SameCall DEF Same
    <3>3. QED BY <3>1, <3>2
  <2> HIDE DEF others
  <2>5. tab[t].page \in Pages \cup {None}
    BY <1>1 DEF Inv, ClientTypes, TabType
  <2>6. QED BY <1>3, <2>3, <2>4, <2>5, AgainIs
<1>4. QED BY <1>2, <1>3 DEF invalidateQueries

LEMMA KnownIs ==
  ASSUME Inv, NEW t \in Tabs, NEW n \in Values
  PROVE  /\ Known(t, n) \in [Tabs -> TabType]
         /\ \A u \in Tabs : Known(t, n)[u].page = tab[u].page
            /\ Known(t, n)[u].leaving = tab[u].leaving
         /\ \A u \in Tabs \ {t} : Known(t, n)[u] = tab[u]
<1> DEFINE e == [tab[t] EXCEPT !.mine = IF tab[t].shown = None THEN @ ELSE n, !.edit = None]
<1>1. tab[t] \in TabType /\ None \in Values
  BY ValuesHave DEF Inv, ClientTypes
<1>2. e \in TabType /\ e.page = tab[t].page /\ e.leaving = tab[t].leaving
  BY <1>1 DEF TabType
<1>3. Known(t, n) = [tab EXCEPT ![t] = e]
  BY <1>1 DEF Known, TabType
<1> HIDE DEF e
<1>4. QED BY <1>2, <1>3 DEF Inv, ClientTypes

LEMMA QueryFailsKeeps == ASSUME Inv, NEW s \in Slots, QueryFails(s) PROVE Inv'
<1>1. /\ call[s] # None /\ call[s] \in Calls /\ ~Loads(s) /\ s[1] \in Tabs
         /\ tab[s[1]] \in TabType
      /\ UNCHANGED <<token, editor, verdict, changes, bound>>
  BY CallIs, SlotTab DEF QueryFails, Failing, Has, Loads, server, ghosts, Inv, ClientTypes
<1>2. CASE Api(s, NewCall(call[s].page, "query", None), call) /\ UNCHANGED tab
  <2>1. call[s].page \in Pages \cup {None} /\ call \in [Slots -> Calls \cup {None}]
    BY <1>1 DEF Calls, Inv, ClientTypes
  <2>2. \A x \in Slots \ {s} : call'[x] = call[x] => Quiet(x) /\ SaveOf(x)'
    BY SameCall DEF Same
  <2>3. /\ call' \in [Slots -> Calls \cup {None}] /\ refresh' \in [Tabs -> Values]
        /\ \A x \in Slots : Quiet(x) /\ SaveOf(x)'
    BY <1>1, <1>2, <2>1, <2>2, AgainIs
  <2>4. QED BY <1>1, <1>2, <2>3, CallsOnly DEF Inv, ClientTypes
<1>3. CASE /\ call' = Done(s) /\ UNCHANGED refresh
           /\ tab' = [tab EXCEPT ![s[1]].failed = @ \/ (call[s].live /\ tab[s[1]].page \notin Watched)]
  <2> DEFINE e == [tab[s[1]] EXCEPT !.failed = @ \/ (call[s].live /\ tab[s[1]].page \notin Watched)]
  <2>1. call[s].live \in BOOLEAN
    BY <1>1 DEF Calls
  <2>2. e \in TabType /\ e.page = tab[s[1]].page /\ e.leaving = tab[s[1]].leaving
    BY <1>1, <2>1 DEF TabType
  <2>3. tab' = [tab EXCEPT ![s[1]] = e]
    BY <1>1, <1>3 DEF TabType
  <2> HIDE DEF e
  <2>4. /\ tab' \in [Tabs -> TabType]
        /\ \A t \in Tabs : tab'[t].page = tab[t].page /\ tab'[t].leaving = tab[t].leaving
    BY <1>1, <2>2, <2>3 DEF Inv, ClientTypes
  <2>5. call' \in [Slots -> Calls \cup {None}] /\ \A x \in Slots : Quiet(x) /\ SaveOf(x)'
    BY <1>1, <1>3, DoneIs
  <2>6. QED BY <1>1, <1>3, <2>4, <2>5, CallsOnly DEF Inv, ClientTypes
<1>4. QED BY <1>2, <1>3 DEF QueryFails

(* A call of a detail that is done with.                                   *)
LEMMA LoadDone ==
  ASSUME Inv, NEW s \in Slots, call' = Done(s)
  PROVE  /\ call' \in [Slots -> Calls \cup {None}] /\ LoadsOf(s[1])' = LoadsOf(s[1]) \ {s}
         /\ \A x \in Slots \ {s} : call'[x] = call[x]
         /\ \A x \in Slots : SaveOf(x)' /\ (x # s => Quiet(x))
         /\ Fewer(s[1])
<1>1. /\ call' \in [Slots -> Calls \cup {None}] /\ call'[s] = None
      /\ \A x \in Slots \ {s} : call'[x] = call[x]
  BY DEF Inv, ClientTypes, Done
<1>2. \A x \in Slots : SaveOf(x)' /\ (x # s => Quiet(x))
  BY <1>1 DEF Inv, FormInv, SaveOf, Quiet, Loads
<1>3. Fewer(s[1]) /\ LoadsOf(s[1])' = LoadsOf(s[1]) \ {s}
  BY <1>1 DEF Fewer, LoadsOf, Loads
<1>4. QED BY <1>1, <1>2, <1>3

LEMMA LoadFailsKeeps == ASSUME Inv, NEW s \in Slots, LoadFails(s) PROVE Inv'
<1> DEFINE t == s[1]
<1>1. /\ t \in Tabs /\ None \in Values /\ UNCHANGED <<token, verdict, changes, bound>>
      /\ call[s] # None /\ call[s].op = "load"
      /\ editor[t] \in Editor /\ tab[t] \in TabType
  BY SlotTab, ValuesHave DEF LoadFails, Failing, Has, server, ghosts, Inv, ClientTypes
<1>2. CASE PulledBack(t, s, None)
  BY <1>1, <1>2, PulledBackKeeps DEF LoadFails
<1>3. CASE call' = Done(s) /\ editor' = editor /\ tab' = tab /\ refresh' = refresh
           /\ ~call[s].live
  <2>1. ~Loads(s)
    BY <1>3 DEF Loads
  <2>2. QED BY <1>1, <1>3, <2>1, DoneIs, CallsOnly DEF Inv, ClientTypes
<1>4. CASE /\ call' = Done(s) /\ refresh' = refresh
           /\ editor' = [editor EXCEPT ![t].open = FALSE, ![t].loading = FALSE,
                           ![t].row = IF tab[t].page = "contests" THEN @ ELSE None]
           /\ tab' = [tab EXCEPT ![t].edit = None]
  <2> DEFINE e == [editor[t] EXCEPT !.open = FALSE, !.loading = FALSE,
                     !.row = IF tab[t].page = "contests" THEN @ ELSE None]
             b == [tab[t] EXCEPT !.edit = None]
  <2>1. e \in Editor /\ ~e.open /\ ~e.loading /\ e.crossed = editor[t].crossed
    BY <1>1 DEF Editor
  <2>2. b \in TabType /\ b.page = tab[t].page /\ b.leaving = tab[t].leaving
    BY <1>1 DEF TabType
  <2>3. editor' = [editor EXCEPT ![t] = e]
    BY <1>1, <1>4 DEF Editor
  <2>4. tab' = [tab EXCEPT ![t] = b]
    BY <1>1, <1>4 DEF TabType
  <2> HIDE DEF e, b
  <2>5. /\ editor' \in [Tabs -> Editor] /\ editor'[t] = e
        /\ tab' \in [Tabs -> TabType] /\ tab'[t] = b
        /\ \A u \in Tabs \ {t} : editor'[u] = editor[u] /\ tab'[u] = tab[u]
    BY <1>1, <2>1, <2>2, <2>3, <2>4 DEF Inv, ClientTypes
  <2>6. /\ call' \in [Slots -> Calls \cup {None}]
        /\ \A x \in Slots : SaveOf(x)' /\ (x # s => Quiet(x))
        /\ Fewer(t)
    BY <1>4, LoadDone
  <2>7. FormOf(t)'
    BY <1>1, <2>1, <2>2, <2>5, <2>6, FormClosed DEF Inv, FormInv
  <2>8. FormInv'
    BY <1>1, <2>5, <2>6, <2>7, OneTab DEF Inv
  <2>9. ClientTypes'
    BY <1>1, <1>4, <2>5, <2>6 DEF Inv, ClientTypes
  <2>10. QED BY <2>8, <2>9 DEF Inv
<1>5. QED BY <1>2, <1>3, <1>4 DEF LoadFails

(* The detail that is shown is the one awaited, where it counts.           *)
LEMMA LoadAnsweredKeeps == ASSUME Inv, NEW s \in Slots, LoadAnswered(s) PROVE Inv'
<1> DEFINE t == s[1]
<1>1. /\ t \in Tabs /\ call' = Done(s) /\ call[s] # None /\ call[s].op = "load"
      /\ UNCHANGED <<token, refresh, tab, verdict, changes, bound>>
      /\ call[s] \in Calls /\ editor[t] \in Editor
  BY SlotTab, CallIs DEF LoadAnswered, Has, server, ghosts, Inv, ClientTypes
<1>2. CASE editor' = editor /\ ~call[s].live
  <2>1. ~Loads(s)
    BY <1>2 DEF Loads
  <2>2. QED BY <1>1, <1>2, <2>1, DoneIs, CallsOnly DEF Inv, ClientTypes
<1>3. CASE /\ call[s].live
           /\ editor' = [editor EXCEPT ![t].of = call[s].row, ![t].loading = FALSE]
  <2> DEFINE e == [editor[t] EXCEPT !.of = call[s].row, !.loading = FALSE]
  <2>1. call[s].row \in Values
    BY <1>1 DEF Calls
  <2>2. /\ e \in Editor /\ e.of = call[s].row /\ ~e.loading /\ e.row = editor[t].row
        /\ e.open = editor[t].open /\ e.crossed = editor[t].crossed
    BY <1>1, <2>1 DEF Editor
  <2>3. editor' = [editor EXCEPT ![t] = e]
    BY <1>1, <1>3 DEF Editor
  <2> HIDE DEF e
  <2>4. /\ editor' \in [Tabs -> Editor] /\ editor'[t] = e
        /\ \A u \in Tabs \ {t} : editor'[u] = editor[u]
    BY <1>1, <2>2, <2>3 DEF Inv, ClientTypes
  <2>5. /\ call' \in [Slots -> Calls \cup {None}] /\ LoadsOf(t)' = LoadsOf(t) \ {s}
        /\ \A x \in Slots \ {s} : call'[x] = call[x]
        /\ \A x \in Slots : SaveOf(x)' /\ (x # s => Quiet(x))
    BY <1>1, LoadDone
  <2>6. FormOf(t) /\ s \in LoadsOf(t) /\ LoadsOf(t) \subseteq Slots
    BY <1>1, <1>3 DEF Inv, FormInv, LoadsOf, Loads
  <2>7. /\ OneLoad(t) => LoadsOf(t)' = {} /\ OneLoad(t)'
        /\ LoadsRow(t) => LoadsRow(t)' /\ e.of = e.row
    BY <2>2, <2>4, <2>5, <2>6 DEF OneLoad, LoadsRow
  <2>8. \A x \in LoadsOf(t)' : call'[x].page = tab[t].page /\ tab[t].page \in DetailPages
    BY <2>5, <2>6 DEF FormOf
  <2>9. FormOf(t)'
    BY <1>1, <2>2, <2>4, <2>6, <2>7, <2>8 DEF FormOf, OfItsRow
  <2>10. FormInv'
    BY <1>1, <2>4, <2>5, <2>9, OneTab DEF Inv
  <2>11. ClientTypes'
    BY <1>1, <2>4, <2>5 DEF Inv, ClientTypes
  <2>12. QED BY <2>10, <2>11 DEF Inv
<1>4. QED BY <1>2, <1>3 DEF LoadAnswered

LEMMA InvalidatedKeeps ==
  ASSUME Inv, NEW s \in Slots, call[s] # None, ~Loads(s), Invalidated(s[1], s)
  PROVE  /\ call' \in [Slots -> Calls \cup {None}] /\ refresh' \in [Tabs -> Values]
         /\ \A x \in Slots : Quiet(x) /\ SaveOf(x)'
         /\ tab' \in [Tabs -> TabType]
         /\ \A u \in Tabs : tab'[u].page = tab[u].page /\ tab'[u].leaving = tab[u].leaving
         /\ \A u \in Tabs \ {s[1]} : tab'[u] = tab[u]
<1>1. call[s].data \in Values /\ s[1] \in Tabs
  BY SlotTab, CallIs DEF Calls, Inv
<1>2. CASE invalidateQueries(s[1], s) /\ tab' = Known(s[1], call[s].data)
  BY <1>1, <1>2, InvalidatedIs, KnownIs
<1>3. CASE call' = Done(s) /\ UNCHANGED <<refresh, tab>>
  BY <1>3, DoneIs DEF Inv, ClientTypes
<1>4. QED BY <1>2, <1>3 DEF Invalidated

LEMMA ChangedKeeps == ASSUME Inv, NEW s \in Slots, Changed(s) PROVE Inv'
<1> DEFINE t == s[1]
           c == call[s]
<1>1. /\ t \in Tabs /\ c # None /\ ~Loads(s) /\ None \in Values
      /\ UNCHANGED <<token, verdict, changes, bound>>
      /\ editor[t] \in Editor
  BY SlotTab, ValuesHave DEF Changed, Has, Loads, server, ghosts, Inv, ClientTypes
<1>2. CASE PulledBack(t, s, None)
  BY <1>1, <1>2, PulledBackKeeps DEF Changed
<1>3. CASE Invalidated(t, s) /\ editor' = editor
  BY <1>1, <1>3, InvalidatedKeeps, CallsOnly DEF Inv, ClientTypes
<1>4. CASE /\ Invalidated(t, s)
           /\ editor' = [editor EXCEPT ![t].open = FALSE, ![t].row = None,
                           ![t].of = IF c.page \in {"problems", "contests"} THEN @ ELSE None]
  <2> DEFINE e == [editor[t] EXCEPT !.open = FALSE, !.row = None,
                     !.of = IF c.page \in {"problems", "contests"} THEN @ ELSE None]
  <2>1. /\ e \in Editor /\ ~e.open /\ e.loading = editor[t].loading
        /\ e.crossed = editor[t].crossed
    BY <1>1 DEF Editor
  <2>2. editor' = [editor EXCEPT ![t] = e]
    BY <1>1, <1>4 DEF Editor
  <2> HIDE DEF e
  <2>3. /\ editor' \in [Tabs -> Editor] /\ editor'[t] = e
        /\ \A u \in Tabs \ {t} : editor'[u] = editor[u]
    BY <1>1, <2>1, <2>2 DEF Inv, ClientTypes
  <2>4. /\ call' \in [Slots -> Calls \cup {None}] /\ refresh' \in [Tabs -> Values]
        /\ \A x \in Slots : Quiet(x) /\ SaveOf(x)'
        /\ tab' \in [Tabs -> TabType]
        /\ \A u \in Tabs : tab'[u].page = tab[u].page /\ tab'[u].leaving = tab[u].leaving
        /\ \A u \in Tabs \ {t} : tab'[u] = tab[u]
    BY <1>1, <1>4, InvalidatedKeeps
  <2>5. Fewer(t)
    BY <2>4 DEF Fewer, Quiet
  <2>6. FormOf(t)'
    BY <1>1, <2>1, <2>3, <2>4, <2>5, FormClosed DEF Inv, FormInv
  <2>7. FormInv'
    BY <1>1, <2>3, <2>4, <2>6, OneTab DEF Inv
  <2>8. ClientTypes'
    BY <1>1, <2>3, <2>4 DEF Inv, ClientTypes
  <2>9. QED BY <2>7, <2>8 DEF Inv
<1>5. QED BY <1>2, <1>3, <1>4 DEF Changed

(* The new problem is opened, and its detail the only one awaited.         *)
LEMMA CreatedLive ==
  ASSUME Inv, NEW s \in Slots, call[s] # None, call[s].op = "create",
         At(s[1], "problems"), NEW x \in Free(s[1]), NEW n \in Values,
         editor' = [editor EXCEPT ![s[1]].open = TRUE, ![s[1]].row = n],
         tab' = Known(s[1], n),
         Api(s, NewCall("problems", "query", None),
             [y \in Slots |->
                IF y = x THEN Entered(NewCall("problems", "load", n))
                ELSE IF y \in Under(s[1], "load") \cup Under(s[1], "query")
                THEN Dropped(call[y]) ELSE call[y]]),
         UNCHANGED <<token, server, ghosts>>
  PROVE  Inv'
<1> DEFINE t == s[1]
           a == NewCall("problems", "query", None)
           b == NewCall("problems", "load", n)
           q == Under(t, "load") \cup Under(t, "query")
           others == [y \in Slots |-> IF y = x THEN Entered(b)
                                      ELSE IF y \in q THEN Dropped(call[y]) ELSE call[y]]
<1>1. /\ t \in Tabs /\ editor[t] \in Editor /\ tab[t].page = "problems"
      /\ x \in Slots /\ x[1] = t /\ call[x] = None /\ x # s
      /\ \A y \in Slots : call[y] # None => call[y] \in Calls
  BY SlotTab, FreeSlot, CallIs DEF Inv, ClientTypes, At
<1>2. /\ "problems" \in Pages \cup {None} /\ "query" \in Ops /\ "load" \in Ops
         /\ None \in Values
  BY ValuesHave DEF Pages, Editors, Ops
<1>3. a \in Calls /\ a.op = "query" /\ Api(s, a, others)
  BY <1>2, NewCallIs
<1>4. b \in Calls /\ b.op = "load" /\ b.live /\ b.row = n /\ b.page = "problems"
  BY <1>2, NewCallIs
<1>5. Entered(b) \in Calls /\ Same(Entered(b), b)
  BY <1>4, EnteredSame DEF Inv
<1>6. \A y \in q : /\ y \in Slots /\ y[1] = t /\ call[y] \in Calls
                   /\ call[y].op \in {"load", "query"}
  BY <1>1 DEF Under
<1>7. \A y \in Slots \ q : y[1] = t => ~Loads(y)
  BY <1>1 DEF Under, Loads
<1> HIDE DEF a, b, q
<1>8. \A y \in q : /\ Dropped(call[y]) \in Calls /\ ~Dropped(call[y]).live
                   /\ Dropped(call[y]).op = call[y].op
  BY <1>6, DroppedIs
<1>9. /\ others \in [Slots -> Calls \cup {None}] /\ others[x] = Entered(b)
      /\ \A y \in Slots \ {x} : others[y] = IF y \in q THEN Dropped(call[y]) ELSE call[y]
  BY <1>1, <1>5, <1>8
<1> HIDE DEF others
<1>10. /\ call' \in [Slots -> Calls \cup {None}] /\ refresh' \in [Tabs -> Values]
       /\ call'[s] # None /\ Same(call'[s], a)
       /\ \A y \in Slots \ {s} : call'[y] = others[y]
  BY <1>3, <1>9, ApiIs DEF Inv
<1>11. SaveOf(s)' /\ ~Loads(s)'
  BY <1>3, <1>10 DEF SaveOf, Loads, Same
<1>12. call'[x] # None /\ SaveOf(x)' /\ Loads(x)' /\ call'[x].row = n
         /\ call'[x].page = "problems"
  BY <1>1, <1>4, <1>5, <1>9, <1>10, WebAssumption DEF SaveOf, Loads, Same
<1>13. \A y \in Slots \ {s, x} : SaveOf(y)' /\ (y[1] # t => Quiet(y))
         /\ (y[1] = t => ~Loads(y)')
  <2>1. ASSUME NEW y \in Slots \ {s, x}
        PROVE  SaveOf(y)' /\ (y[1] # t => Quiet(y)) /\ (y[1] = t => ~Loads(y)')
    <3>1. CASE y \in q
      BY <1>6, <1>8, <1>9, <1>10, <3>1 DEF SaveOf, Loads
    <3>2. CASE y \notin q
      <4>1. call'[y] = call[y]
        BY <1>9, <1>10, <3>2
      <4>2. SaveOf(y)' /\ Quiet(y)
        BY <4>1, SameCall DEF Same
      <4>3. QED BY <1>7, <3>2, <4>2 DEF Quiet
    <3>3. QED BY <3>1, <3>2
  <2>2. QED BY <2>1
<1>14. LoadsOf(t)' = {x}
  BY <1>1, <1>11, <1>12, <1>13, OneNewLoad
<1> DEFINE e == [editor[t] EXCEPT !.open = TRUE, !.row = n]
<1>15. e \in Editor /\ e.row = n
  BY <1>1 DEF Editor
<1>16. editor' = [editor EXCEPT ![t] = e]
  BY <1>1 DEF Editor
<1> HIDE DEF e
<1>17. /\ editor' \in [Tabs -> Editor] /\ editor'[t].row = n
       /\ \A u \in Tabs \ {t} : editor'[u] = editor[u]
  BY <1>1, <1>15, <1>16 DEF Inv, ClientTypes
<1>18. /\ tab' \in [Tabs -> TabType] /\ tab'[t].page = "problems"
       /\ \A u \in Tabs \ {t} : tab'[u] = tab[u]
  BY <1>1, KnownIs
<1>19. FormOf(t)'
  BY <1>12, <1>14, <1>17, <1>18 DEF FormOf, OneLoad, LoadsRow, DetailPages
<1>20. FormInv'
  BY <1>1, <1>11, <1>12, <1>13, <1>17, <1>18, <1>19, OneTab DEF Inv
<1>21. ClientTypes'
  BY <1>10, <1>17, <1>18 DEF Inv, ClientTypes, server, ghosts
<1>22. QED BY <1>20, <1>21 DEF Inv

LEMMA CreatedKeeps == ASSUME Inv, NEW s \in Slots, Created(s) PROVE Inv'
<1> DEFINE t == s[1]
           c == call[s]
<1>1. /\ t \in Tabs /\ c # None /\ c.op = "create" /\ ~Loads(s) /\ c.data \in Values
      /\ UNCHANGED <<token, server, ghosts>> /\ UNCHANGED <<verdict, changes, bound>>
  BY SlotTab, CallIs DEF Created, Has, Loads, server, ghosts, Inv, Calls
<1>2. CASE PulledBack(t, s, c.data)
  BY <1>1, <1>2, PulledBackKeeps
<1>3. CASE /\ c.live /\ At(t, "problems")
           /\ editor' = [editor EXCEPT ![t].open = TRUE, ![t].row = c.data]
           /\ tab' = Known(t, c.data)
           /\ \E x \in Free(t) :
                Api(s, NewCall("problems", "query", None),
                    [y \in Slots |->
                       IF y = x THEN Entered(NewCall("problems", "load", c.data))
                       ELSE IF y \in Under(t, "load") \cup Under(t, "query")
                       THEN Dropped(call[y]) ELSE call[y]])
  BY <1>1, <1>3, CreatedLive
<1>4. CASE /\ invalidateQueries(t, s)
           /\ tab' = [Known(t, c.data) EXCEPT ![t].edit = c.data]
           /\ UNCHANGED editor
  <2> DEFINE k == Known(t, c.data)
             e == [k[t] EXCEPT !.edit = c.data]
  <2>1. /\ k \in [Tabs -> TabType]
        /\ \A u \in Tabs : k[u].page = tab[u].page /\ k[u].leaving = tab[u].leaving
        /\ tab' = [k EXCEPT ![t].edit = c.data]
    BY <1>1, <1>4, KnownIs
  <2> HIDE DEF k
  <2>2. e \in TabType /\ e.page = k[t].page /\ e.leaving = k[t].leaving
    BY <1>1, <2>1 DEF TabType
  <2>3. tab' = [k EXCEPT ![t] = e]
    BY <1>1, <2>1 DEF TabType
  <2> HIDE DEF e
  <2>4. /\ tab' \in [Tabs -> TabType]
        /\ \A u \in Tabs : tab'[u].page = tab[u].page /\ tab'[u].leaving = tab[u].leaving
    BY <1>1, <2>1, <2>2, <2>3
  <2>5. QED BY <1>1, <1>4, <2>4, InvalidatedIs, CallsOnly DEF Inv, ClientTypes
<1>5. CASE call' = Done(s) /\ UNCHANGED <<refresh, tab, editor>>
  BY <1>1, <1>5, DoneIs, CallsOnly DEF Inv, ClientTypes
<1>6. QED BY <1>2, <1>3, <1>4, <1>5 DEF Created

-----------------------------------------------------------------------------
(* The session. Most steps keep it, or end it, or ask for a token for it.  *)
Asks(u) == \/ refresh'[u] = refresh[u] \/ refresh'[u] = None
           \/ token # None /\ refresh'[u] = token.user
SessionKept ==
  /\ who' = who /\ raced' = raced
  /\ token' # None => token # None /\ token'.user = token.user
  /\ \A u \in Tabs : Asks(u)

LEMMA SessionStep == ASSUME SessionInv, SessionKept PROVE SessionInv'
BY DEF SessionInv, SessionKept, Asks

LEMMA TryAsks ==
  ASSUME ClientTypes, NEW t \in Tabs, token # None, refresh' = tryRefreshToken(t)
  PROVE  \A u \in Tabs : Asks(u)
BY DEF Asks, tryRefreshToken, ClientTypes

LEMMA ApiAsks ==
  ASSUME ClientTypes, NEW s \in Slots, NEW c, NEW others, Api(s, c, others)
  PROVE  \A u \in Tabs : Asks(u)
<1>1. CASE refresh' = refresh
  BY <1>1 DEF Asks
<1>2. CASE refresh' = tryRefreshToken(s[1]) /\ token # None
  BY <1>2, SlotTab, TryAsks
<1>3. QED BY <1>1, <1>2 DEF Api, tokenNeedsProactiveRefresh

LEMMA ApiSession ==
  ASSUME ClientTypes, UNCHANGED <<token, ghosts>>,
         UNCHANGED refresh \/ \E s \in Slots : \E c, others : Api(s, c, others)
  PROVE  SessionKept
<1>1. ASSUME NEW s \in Slots, NEW c, NEW others, Api(s, c, others)
      PROVE  \A u \in Tabs : Asks(u)
  BY <1>1, ApiAsks
<1>2. \A u \in Tabs : Asks(u)
  BY <1>1 DEF Asks
<1>3. QED BY <1>2 DEF SessionKept, ghosts

LEMMA FormSession == ASSUME ClientTypes, NEW t \in Tabs, Form(t) PROVE SessionKept
<1>1. \A s \in Free(t) : s \in Slots
  BY FreeSlot
<1>2. UNCHANGED <<token, ghosts>>
  BY DEF Form, OpenProblem, OpenContest, OpenTestcase, OpenUser, OpenAnnouncement, Change,
         NewContest, NewTestcase, CloseProblem, Cancel, SaveProblem, SaveContest,
           SaveTestcase,
         SaveUser, SaveAnnouncement, CreateProblem, RestoreProblem, CreateClass, RemoveMember,
         CreateHomework, PostDiscussion, ChangeRegistration, ChangeOf, NewDetail, OpenDetail,
         Load, Save, Fill, ProblemOpened
<1>3. UNCHANGED refresh \/ \E s \in Free(t) : \E c, others : Api(s, c, others)
  BY DEF Form, OpenProblem, OpenContest, OpenTestcase, OpenUser, OpenAnnouncement, Change,
         NewContest, NewTestcase, CloseProblem, Cancel, SaveProblem, SaveContest,
           SaveTestcase,
         SaveUser, SaveAnnouncement, CreateProblem, RestoreProblem, CreateClass, RemoveMember,
         CreateHomework, PostDiscussion, ChangeRegistration, ChangeOf, NewDetail, OpenDetail,
         Load, Save, Fill
<1>4. QED BY <1>1, <1>2, <1>3, ApiSession

LEMMA PageSession ==
  ASSUME ClientTypes, NEW t \in Tabs,
         \/ Poll(t) \/ Focus(t) \/ ToLogin(t)
         \/ \E u \in bound.users : SubmitLogin(t, u)
         \/ \E p \in Pages : Navigate(t, p)
  PROVE  SessionKept
<1>1. \A s \in Free(t) : s \in Slots
  BY FreeSlot
<1>2. UNCHANGED <<token, ghosts>>
  BY DEF Poll, Focus, Fetch, ToLogin, Show, SubmitLogin, Navigate
<1>3. UNCHANGED refresh \/ \E s \in Free(t) : \E c, others : Api(s, c, others)
  BY DEF Poll, Focus, Fetch, ToLogin, SubmitLogin, Navigate
<1>4. QED BY <1>1, <1>2, <1>3, ApiSession

LEMMA AnswerSession ==
  ASSUME ClientTypes, NEW s \in Slots,
         \/ Serve(s) \/ LoginFails(s) \/ ChangeFails(s) \/ QueryFails(s) \/ LoadFails(s)
         \/ QueryAnswered(s) \/ LoadAnswered(s) \/ Changed(s) \/ Created(s)
  PROVE  SessionKept
<1>1. UNCHANGED <<token, ghosts>>
  BY DEF Serve, ServeOk, ServeUnauthorized, ServeError, LoginFails, ChangeFails, QueryFails,
         LoadFails, QueryAnswered, LoadAnswered, Changed, Created
<1>2. UNCHANGED refresh \/ \E c, others : Api(s, c, others)
  BY DEF Serve, ServeOk, ServeUnauthorized, ServeError, LoginFails, ChangeFails, QueryFails,
         LoadFails, QueryAnswered, LoadAnswered, Changed, Created, PulledBack, Invalidated,
         invalidateQueries
<1>3. QED BY <1>1, <1>2, ApiSession

LEMMA RefusedSession == ASSUME ClientTypes, NEW s \in Slots, Refused(s) PROVE SessionKept
<1>1. who' = who /\ raced' = raced /\ token # None /\ s[1] \in Tabs
  BY SlotTab DEF Refused, ghosts
<1>2. CASE token' = None /\ refresh' = refresh
  BY <1>1, <1>2 DEF SessionKept, Asks
<1>3. CASE token' = token /\ refresh' = tryRefreshToken(s[1])
  BY <1>1, <1>3, TryAsks DEF SessionKept
<1>4. QED BY <1>2, <1>3 DEF Refused, clearSessionAndRedirect

LEMMA TabSession ==
  ASSUME ClientTypes, NEW t \in Tabs, RefreshFailed(t) \/ Unload(t) \/ Age \/ Judged
  PROVE  SessionKept
<1>1. who' = who /\ raced' = raced
  BY DEF RefreshFailed, Unload, Age, Judged, ghosts
<1>2. token' # None => token # None /\ token'.user = token.user
  BY DEF RefreshFailed, Unload, Age, Judged, clearSessionAndRedirect, ClientTypes
<1>3. \A u \in Tabs : Asks(u)
  BY DEF RefreshFailed, Unload, Age, Judged, Asks, ClientTypes
<1>4. QED BY <1>1, <1>2, <1>3 DEF SessionKept

(* The steps that begin a session, end it, or bring the token asked for.   *)
LEMMA NewSession ==
  ASSUME ClientTypes, SessionInv, NEW t \in Tabs,
         Refreshed(t) \/ Logout(t) \/ \E s \in Slots : \E p \in Pages : LoggedIn(s, p)
  PROVE  SessionInv'
<1>1. CASE Refreshed(t)
  <2>1. /\ token' = [user |-> refresh[t], life |-> "fresh"] /\ refresh[t] # None
        /\ refresh' = [refresh EXCEPT ![t] = None] /\ who' = who /\ raced' = raced
    BY <1>1 DEF Refreshed, ghosts
  <2>2. token'.user = refresh[t]
    BY <2>1
  <2>3. \A u \in Tabs : refresh'[u] # None => refresh'[u] = refresh[u]
    BY <2>1 DEF ClientTypes
  <2>4. QED BY <2>1, <2>2, <2>3 DEF SessionInv
<1>2. CASE Logout(t)
  BY <1>2 DEF Logout, clearSessionAndRedirect, SessionInv, Raced
<1>3. ASSUME NEW s \in Slots, NEW p \in Pages, LoggedIn(s, p) PROVE SessionInv'
  BY <1>3 DEF LoggedIn, SessionInv, Raced
<1>4. QED BY <1>1, <1>2, <1>3

-----------------------------------------------------------------------------
ClientInv == Inv /\ SessionInv

LEMMA InitClient == ASSUME Init PROVE ClientInv
<1>1. Shows("login") \in TabType /\ NoEditor \in Editor
  BY ValuesHave DEF Shows, ShowsRow, TabType, NoEditor, Editor, Pages
<1>2. ClientTypes
  <2> HIDE DEF Shows, NoEditor
  <2> QED BY <1>1, ValuesHave DEF Init, ClientTypes
<1>3. \A t \in Tabs : /\ tab[t].page = "login" /\ LoadsOf(t) = {}
                      /\ ~editor[t].open /\ ~editor[t].crossed /\ ~editor[t].loading
  BY DEF Init, Shows, ShowsRow, NoEditor, LoadsOf, Loads
<1>4. FormInv
  BY <1>3 DEF Init, FormInv, FormOf, SaveOf, OneLoad
<1>5. SessionInv
  BY DEF Init, SessionInv
<1>6. QED BY <1>2, <1>4, <1>5 DEF ClientInv, Inv

LEMMA NextClient == ASSUME ClientInv, [Next]_vars PROVE ClientInv'
<1>1. ClientTypes /\ Inv /\ SessionInv
  BY DEF ClientInv, Inv
<1>2. bound.reach \in [Tabs -> SUBSET Pages]
  BY <1>1, WebAssumption DEF ClientTypes
<1>3. ASSUME NEW s \in Slots, Serve(s) PROVE ClientInv'
  BY <1>1, <1>3, ServeKeeps, AnswerSession, SessionStep DEF ClientInv
<1>4. ASSUME NEW s \in Slots, Deliver(s) PROVE ClientInv'
  <2>1. CASE Refused(s)
    BY <1>1, <2>1, RefusedKeeps, RefusedSession, SessionStep DEF ClientInv
  <2>2. CASE LoginFails(s) \/ ChangeFails(s) \/ QueryAnswered(s)
    BY <1>1, <2>2, EndsKeep, AnswerSession, SessionStep DEF ClientInv
  <2>3. CASE QueryFails(s) \/ LoadFails(s) \/ LoadAnswered(s)
    BY <1>1, <2>3, QueryFailsKeeps, LoadFailsKeeps, LoadAnsweredKeeps, AnswerSession,
       SessionStep
    DEF ClientInv
  <2>4. CASE Changed(s) \/ Created(s)
    BY <1>1, <2>4, ChangedKeeps, CreatedKeeps, AnswerSession, SessionStep DEF ClientInv
  <2>5. ASSUME NEW p \in bound.reach[s[1]], LoggedIn(s, p) PROVE ClientInv'
    <3>1. p \in Pages
      BY <1>2, SlotTab
    <3>2. SessionInv'
      BY <1>1, <2>5, <3>1, SlotTab, NewSession
    <3>3. QED BY <1>1, <2>5, <3>1, <3>2, LoggedInKeeps DEF ClientInv
  <2>6. QED BY <1>4, <2>1, <2>2, <2>3, <2>4, <2>5 DEF Deliver
<1>5. ASSUME NEW t \in Tabs, EndRefresh(t) PROVE ClientInv'
  BY <1>1, <1>5, RefreshEnds, TabSession, NewSession, SessionStep DEF ClientInv, EndRefresh
<1>6. ASSUME NEW t \in Tabs, Unload(t) \/ Logout(t) PROVE ClientInv'
  BY <1>1, <1>6, UnloadKeeps, LogoutKeeps, TabSession, NewSession, SessionStep DEF ClientInv
<1>7. ASSUME NEW t \in Tabs, Poll(t) \/ Focus(t) PROVE ClientInv'
  BY <1>1, <1>7, FetchKeeps, PageSession, SessionStep DEF ClientInv, Poll, Focus
<1>8. ASSUME NEW t \in Tabs, Form(t) PROVE ClientInv'
  BY <1>1, <1>8, FormKeeps, FormSession, SessionStep DEF ClientInv
<1>9. ASSUME NEW t \in Tabs, NEW u \in bound.users, SubmitLogin(t, u) PROVE ClientInv'
  BY <1>1, <1>9, LoginKeeps, PageSession, SessionStep DEF ClientInv
<1>10. ASSUME NEW t \in Tabs, ToLogin(t) \/ \E p \in bound.reach[t] : Navigate(t, p)
       PROVE  ClientInv'
  <2>1. ToLogin(t) \/ \E p \in Pages : Navigate(t, p)
    BY <1>2, <1>10
  <2>2. QED BY <1>1, <2>1, ShowKeeps, PageSession, SessionStep DEF ClientInv
<1>11. CASE Age \/ Judged
  <2>1. SessionKept
    BY <1>1, <1>11 DEF SessionKept, Asks, Age, Judged, ghosts, ClientTypes
  <2>2. QED BY <1>1, <1>11, <2>1, TimeKeeps, SessionStep DEF ClientInv
<1>12. CASE UNCHANGED vars
  <2>1. Inv'
    <3>1. \A x \in Slots : call' = call => Quiet(x) /\ SaveOf(x)'
      BY <1>1, SameCall DEF Same
    <3>2. QED BY <1>1, <1>12, <3>1, CallsOnly DEF vars, ClientTypes
  <2>2. SessionKept
    BY <1>12 DEF vars, SessionKept, Asks
  <2>3. QED BY <1>1, <2>1, <2>2, SessionStep DEF ClientInv
<1>13. QED
  BY <1>3, <1>4, <1>5, <1>6, <1>7, <1>8, <1>9, <1>10, <1>11, <1>12 DEF Next

(* Whoever the stored token belongs to is the user who logged in last, in  *)
(* whatever tab and however refreshes and answers interleave, unless the   *)
(* session changed hands while a refresh was under way.                    *)
THEOREM SessionIsKept == Spec => []SessionIsWhoLoggedIn
<1>1. ClientInv => SessionIsWhoLoggedIn
  BY DEF ClientInv, SessionInv, SessionIsWhoLoggedIn
<1>2. QED BY <1>1, InitClient, NextClient, PTL DEF Spec

(* What a form saves to a row are fields that were filled from that row,   *)
(* unless it was opened while an earlier detail was awaited, in a page that *)
(* does not tell the answers apart, or saved before its own came.          *)
THEOREM FormIsOfItsRow == Spec => []FormOfItsRow
<1>1. ClientInv => FormOfItsRow
  BY DEF ClientInv, Inv, FormInv, SaveOf, FormOfItsRow
<1>2. QED BY <1>1, InitClient, NextClient, PTL DEF Spec

-----------------------------------------------------------------------------
(* The two fields of the row, of the settings page, of a call: one shape.  *)
Patch == [n : Nat, lang : Langs, mode : Modes, done : BOOLEAN]
PrefsTypes ==
  /\ prefs \in Prefs!PrefRows /\ contestMode \in Modes
  /\ settings \in [lang : Langs, mode : Modes, data : Prefs!PrefRows \cup {Null},
                   ready : BOOLEAN]
  /\ patches \subseteq Patch /\ choices \in Nat
  /\ profile = Null \/ profile \in Prefs!Queries
  /\ context = Null \/ context \in [value : [lang : Langs, mode : Modes] \cup {Null}]
  /\ submit \in [lang : Langs, mode : Modes, code : Langs,
                 data : [lang : Langs, mode : Modes] \cup {Null}]

(* The form has code of its language, and nothing is sent before it is     *)
(* filled.                                                                 *)
CodeInv ==
  /\ submit.code = submit.lang
  /\ sent # Null => sent.code = sent.lang /\ submit.data # Null

(* Calls are numbered. What the page shows is what came last, or what the  *)
(* row holds when all that has been sent is done.                          *)
ShowsRowOf(v) == settings.lang = Prefs!Or(v.lang, DefaultLang)
  /\ settings.mode = Prefs!Or(v.mode, DefaultMode)
Undone == {p \in patches : ~p.done}
LastSent(p) == p \in Undone /\ \A q \in Undone : q.n <= p.n
NumberInv ==
  /\ \A p \in patches : p.n < choices
  /\ \A p, q \in patches : p.n = q.n => p = q
ShownInv ==
  settings.ready /\ ~amiss =>
    \/ ShowsRowOf(settings.data)
    \/ Undone = {} /\ ShowsRowOf(prefs)
    \/ \E p \in Undone : LastSent(p) /\ p.lang = settings.lang /\ p.mode = settings.mode

(* With no call under way the data of the page are the row, unless they    *)
(* are being asked for; what has answered is the row as it is.             *)
DataInv ==
  /\ settings.ready <=> settings.data # Null
  /\ patches = {} /\ ~amiss =>
       /\ profile = Null /\ settings.ready => settings.data = prefs
       /\ profile # Null => profile.value \in {prefs, Null}

PrefsInv == PrefsTypes /\ CodeInv /\ NumberInv /\ ShownInv /\ DataInv

LEMMA NullIs == ASSUME Prefs!PreferencesAssumption
  PROVE Null \notin Langs /\ Null \notin Modes /\ Null \notin Prefs!Queries
        /\ DefaultLang \in Langs /\ DefaultMode \in Modes
BY DEF Prefs!PreferencesAssumption

LEMMA PrefsInit == ASSUME Prefs!PreferencesAssumption , Prefs!Init PROVE PrefsInv
BY NullIs
DEF Prefs!Init, PrefsInv, PrefsTypes, CodeInv, NumberInv, ShownInv, DataInv,
    Prefs!NewQuery, Prefs!PrefRows,
  Prefs!Queries, Patch

LEMMA CodeStep == ASSUME Prefs!PreferencesAssumption,
   PrefsInv, [Prefs!Next]_(Prefs!vars) PROVE CodeInv'
<1> USE NullIs DEF PrefsInv, CodeInv, PrefsTypes
<1>1. CASE UNCHANGED <<submit, sent>>
  BY <1>1
<1>2. CASE Prefs!ContextArrives
  BY <1>2 DEF Prefs!ContextArrives, Prefs!Filled, Prefs!Template
<1>3. CASE \E l \in Langs : Prefs!ChooseLang(l)
  BY <1>3 DEF Prefs!ChooseLang
<1>4. CASE \E m \in Modes : Prefs!ChooseMode(m)
  BY <1>4 DEF Prefs!ChooseMode
<1>5. CASE Prefs!Send
  BY <1>5 DEF Prefs!Send
<1>6. CASE Prefs!resolveForSubmit
  BY <1>6 DEF Prefs!resolveForSubmit, Prefs!Template
<1>7. QED
  BY <1>1, <1>2, <1>3, <1>4, <1>5, <1>6
  DEF Prefs!Next, Prefs!vars, Prefs!submitVars, Prefs!settingsVars,
      Prefs!ReadProfile, Prefs!ProfileArrives, Prefs!FocusSettings,
      Prefs!ProfileFails, Prefs!Choose,
      Prefs!updateProfile, Prefs!PatchAnswered, Prefs!PatchFails,
        Prefs!ReadContext, Prefs!FocusSubmit, Prefs!ChangeContest

LEMMA ShownStays ==
  ASSUME ShownInv, UNCHANGED <<settings, prefs, amiss>>, Undone' = Undone PROVE ShownInv'
BY DEF ShownInv, ShowsRowOf, LastSent

LEMMA QueryIs == ASSUME Prefs!PreferencesAssumption,
  NEW v \in Prefs!PrefRows \cup {Null}
  PROVE [value |-> v] \in Prefs!Queries /\ [value |-> v] # Null /\ [value |-> v].value = v
BY NullIs DEF Prefs!Queries

LEMMA ChooseStep ==
  ASSUME Prefs!PreferencesAssumption, PrefsInv,
         (\E l \in Langs : Prefs!Choose("lang", l))
           \/ (\E m \in Modes : Prefs!Choose("mode", m))
  PROVE  PrefsTypes' /\ NumberInv' /\ ShownInv' /\ DataInv'
<1>1. PICK n \in Patch :
        /\ settings' = [lang |-> n.lang, mode |-> n.mode, data |-> settings.data,
                        ready |-> settings.ready]
        /\ n.n = choices /\ ~n.done
        /\ patches' = IF settings.ready THEN patches \cup {n} ELSE patches
  <2>1. ASSUME NEW l \in Langs, Prefs!Choose("lang", l)
        PROVE \E n \in Patch :
        /\ settings' = [lang |-> n.lang, mode |-> n.mode, data |-> settings.data,
                        ready |-> settings.ready]
        /\ n.n = choices /\ ~n.done
        /\ patches' = IF settings.ready THEN patches \cup {n} ELSE patches
    <3>1. settings' = [lang |-> l, mode |-> settings.mode, data |-> settings.data,
                       ready |-> settings.ready]
      BY <2>1 DEF Prefs!Choose, PrefsInv, PrefsTypes
    <3>2. [n |-> choices, lang |-> l, mode |-> settings.mode, done |-> FALSE] \in Patch
      BY DEF PrefsInv, PrefsTypes, Patch
    <3>3. QED BY <2>1, <3>1, <3>2 DEF Prefs!Choose
  <2>2. ASSUME NEW l \in Modes, Prefs!Choose("mode", l)
        PROVE \E n \in Patch :
        /\ settings' = [lang |-> n.lang, mode |-> n.mode, data |-> settings.data,
                        ready |-> settings.ready]
        /\ n.n = choices /\ ~n.done
        /\ patches' = IF settings.ready THEN patches \cup {n} ELSE patches
    <3>1. settings' = [lang |-> settings.lang, mode |-> l, data |-> settings.data,
                       ready |-> settings.ready]
      BY <2>2 DEF Prefs!Choose, PrefsInv, PrefsTypes
    <3>2. [n |-> choices, lang |-> settings.lang, mode |-> l, done |-> FALSE] \in Patch
      BY DEF PrefsInv, PrefsTypes, Patch
    <3>3. QED BY <2>2, <3>1, <3>2 DEF Prefs!Choose
  <2>3. QED BY <2>1, <2>2
<1>2. choices' = choices + 1 /\ UNCHANGED <<prefs, contestMode, profile, submit, context,
                                            sent, contest, amiss>>
  BY DEF Prefs!Choose, Prefs!MayChoose, Prefs!submitVars
<1>3. PrefsTypes' /\ NumberInv' /\ DataInv'
  BY <1>1, <1>2 DEF PrefsInv, PrefsTypes, NumberInv, DataInv, Patch
<1>4. ShownInv'
  <2>1. CASE settings.ready
    BY <1>1, <1>2, <2>1
    DEF PrefsInv, PrefsTypes, NumberInv, ShownInv, Patch, LastSent, Undone
  <2>2. CASE ~settings.ready
    BY <1>1, <1>2, <2>2 DEF ShownInv
  <2>3. QED BY <2>1, <2>2
<1>5. QED BY <1>3, <1>4

LEMMA UpdateStep ==
  ASSUME Prefs!PreferencesAssumption, PrefsInv, NEW p \in patches,
         Prefs!updateProfile(p)
  PROVE  PrefsTypes' /\ NumberInv' /\ ShownInv' /\ DataInv'
<1> DEFINE d == [p EXCEPT !.done = TRUE]
<1>1. /\ p \in Patch /\ ~p.done /\ p \in Undone
      /\ prefs' = [lang |-> p.lang, mode |-> p.mode]
      /\ patches' = (patches \ {p}) \cup {d}
      /\ amiss' = (amiss \/ \E q \in patches : ~q.done /\ q.n < p.n)
      /\ UNCHANGED <<contestMode, settings, profile, submit, context, choices>>
  BY DEF Prefs!updateProfile, Prefs!submitVars, PrefsInv, PrefsTypes, Undone
<1>2. d \in Patch /\ d.n = p.n /\ d.done
  BY <1>1 DEF Patch
<1> HIDE DEF d
<1>3. prefs' \in Prefs!PrefRows /\ prefs'.lang = p.lang /\ prefs'.mode = p.mode
  BY <1>1 DEF Patch, Prefs!PrefRows
<1>4. PrefsTypes'
  BY <1>1, <1>2, <1>3 DEF PrefsInv, PrefsTypes
<1>5. NumberInv'
  BY <1>1, <1>2 DEF PrefsInv, NumberInv
<1>6. Undone' = Undone \ {p}
  BY <1>1, <1>2 DEF Undone
<1>7. DataInv'
  BY <1>1 DEF PrefsInv, DataInv
<1>8. ASSUME settings.ready, ~amiss' PROVE ShownInv'
  <2>1. ~amiss /\ \A q \in Undone : ~(q.n < p.n)
    BY <1>1, <1>8 DEF Undone
  <2>2. CASE ShowsRowOf(settings.data)
    BY <1>1, <2>2 DEF ShownInv, ShowsRowOf
  <2>3. ASSUME NEW w \in Undone, LastSent(w), w.lang = settings.lang, w.mode = settings.mode
        PROVE  ShownInv'
    <3>1. CASE w # p
      <4>1. w \in Undone' /\ LastSent(w)'
        BY <1>6, <2>3, <3>1 DEF LastSent
      <4>2. QED BY <1>1, <2>3, <4>1 DEF ShownInv
    <3>2. CASE w = p
      <4>1. \A q \in Undone : q \in patches /\ q.n \in Nat /\ q.n <= p.n
        BY <2>3, <3>2 DEF LastSent, Undone, PrefsInv, PrefsTypes, Patch
      <4>2. \A q \in Undone : q.n = p.n
        BY <1>1, <2>1, <4>1 DEF Patch
      <4>3. Undone' = {}
        BY <1>1, <1>6, <4>1, <4>2 DEF PrefsInv, NumberInv
      <4>4. ShowsRowOf(prefs)'
        BY <1>1, <1>3, <2>3, <3>2, NullIs DEF ShowsRowOf, Prefs!Or, Patch
      <4>5. QED BY <4>3, <4>4 DEF ShownInv
    <3>3. QED BY <3>1, <3>2
  <2>4. QED BY <1>1, <1>8, <2>1, <2>2, <2>3 DEF PrefsInv, ShownInv
<1>9. QED BY <1>1, <1>4, <1>5, <1>7, <1>8 DEF ShownInv

LEMMA SettingsStep ==
  ASSUME Prefs!PreferencesAssumption, PrefsInv,
         \/ Prefs!ReadProfile \/ Prefs!ProfileArrives \/ Prefs!FocusSettings
            \/ Prefs!ProfileFails
         \/ \E p \in patches : Prefs!PatchAnswered(p) \/ Prefs!PatchFails(p)
  PROVE  PrefsTypes' /\ NumberInv' /\ ShownInv' /\ DataInv'
<1>1. CASE Prefs!ReadProfile
  <2>1. /\ profile' = [value |-> prefs] /\ profile # Null /\ profile.value = Null
        /\ UNCHANGED <<prefs, contestMode, settings, patches, submit, context, choices,
                       amiss>>
    BY <1>1 DEF Prefs!ReadProfile, Prefs!submitVars
  <2>2. profile' \in Prefs!Queries /\ profile' # Null /\ profile'.value = prefs
    BY <2>1, QueryIs DEF PrefsInv, PrefsTypes
  <2>3. ShownInv'
    BY <2>1, ShownStays DEF PrefsInv, Undone
  <2>4. PrefsTypes' /\ NumberInv' /\ DataInv'
    BY <2>1, <2>2 DEF PrefsInv, PrefsTypes, NumberInv, DataInv
  <2>5. QED BY <2>3, <2>4
<1>2. CASE Prefs!ProfileArrives
  <2>1. /\ profile # Null /\ profile.value # Null /\ profile' = Null
        /\ UNCHANGED <<prefs, contestMode, patches, submit, context, choices, amiss>>
    BY <1>2 DEF Prefs!ProfileArrives, Prefs!submitVars
  <2>2. profile.value \in Prefs!PrefRows
    BY <2>1 DEF PrefsInv, PrefsTypes, Prefs!Queries
  <2>3. CASE settings' = settings /\ profile.value = settings.data
    BY <2>1, <2>2, <2>3 DEF PrefsInv, PrefsTypes, NumberInv, ShownInv, DataInv,
       ShowsRowOf, Undone, LastSent
  <2>4. CASE settings' = [lang |-> Prefs!Or(profile.value.lang, DefaultLang),
                          mode |-> Prefs!Or(profile.value.mode, DefaultMode),
                          data |-> profile.value, ready |-> TRUE]
    <3>1. /\ settings' \in [lang : Langs, mode : Modes,
                            data : Prefs!PrefRows \cup {Null}, ready : BOOLEAN]
          /\ settings'.data = profile.value /\ settings'.ready /\ ShowsRowOf(settings.data)'
      BY <2>2, <2>4, NullIs DEF Prefs!Or, Prefs!PrefRows, ShowsRowOf
    <3>2. PrefsTypes' /\ NumberInv' /\ DataInv' /\ ShownInv'
      BY <2>1, <2>2, <3>1 DEF PrefsInv, PrefsTypes, NumberInv, DataInv, ShownInv
    <3>3. QED BY <3>2
  <2>5. QED BY <1>2, <2>3, <2>4 DEF Prefs!ProfileArrives
<1>3. CASE Prefs!FocusSettings
  <2>1. /\ profile' = [value |-> Null]
        /\ UNCHANGED <<prefs, contestMode, settings, patches, submit, context, choices,
                       amiss>>
    BY <1>3 DEF Prefs!FocusSettings, Prefs!NewQuery, Prefs!submitVars
  <2>2. profile' \in Prefs!Queries /\ profile' # Null /\ profile'.value = Null
    BY <2>1, QueryIs
  <2>3. ShownInv'
    BY <2>1, ShownStays DEF PrefsInv, Undone
  <2>4. PrefsTypes' /\ NumberInv' /\ DataInv'
    BY <2>1, <2>2 DEF PrefsInv, PrefsTypes, NumberInv, DataInv
  <2>5. QED BY <2>3, <2>4
<1>4. CASE Prefs!ProfileFails
  BY <1>4
  DEF Prefs!ProfileFails, PrefsInv, PrefsTypes, NumberInv, ShownInv, DataInv,
      Prefs!submitVars
<1>5. ASSUME NEW p \in patches, Prefs!PatchAnswered(p)
      PROVE  PrefsTypes' /\ NumberInv' /\ ShownInv' /\ DataInv'
  <2>1. Undone' = Undone
    BY <1>5 DEF Prefs!PatchAnswered, Undone
  <2>2. /\ profile' = [value |-> Null] /\ patches' \subseteq patches
        /\ UNCHANGED <<prefs, contestMode, settings, submit, context, choices, amiss>>
    BY <1>5 DEF Prefs!PatchAnswered, Prefs!NewQuery, Prefs!submitVars
  <2>3. profile' \in Prefs!Queries /\ profile' # Null /\ profile'.value = Null
    BY <2>2, QueryIs
  <2>4. PrefsTypes' /\ NumberInv'
    BY <2>2, <2>3 DEF PrefsInv, PrefsTypes, NumberInv
  <2>5. ShownInv'
    BY <2>1, <2>2, ShownStays DEF PrefsInv
  <2>6. DataInv'
    BY <2>2, <2>3 DEF PrefsInv, DataInv
  <2>7. QED BY <2>4, <2>5, <2>6
<1>6. ASSUME NEW p \in patches, Prefs!PatchFails(p)
      PROVE  PrefsTypes' /\ NumberInv' /\ ShownInv' /\ DataInv'
  BY <1>6
  DEF Prefs!PatchFails, PrefsInv, PrefsTypes, NumberInv, ShownInv, DataInv,
      Prefs!submitVars
<1>7. QED BY <1>1, <1>2, <1>3, <1>4, <1>5, <1>6

SubmitNext ==
  \/ Prefs!ReadContext \/ Prefs!ContextArrives \/ Prefs!FocusSubmit
     \/ Prefs!Send \/ Prefs!resolveForSubmit \/ Prefs!ChangeContest
  \/ \E l \in Langs : Prefs!ChooseLang(l)
  \/ \E m \in Modes : Prefs!ChooseMode(m)
  \/ UNCHANGED Prefs!vars

LEMMA SubmitStep ==
  ASSUME Prefs!PreferencesAssumption, PrefsInv, SubmitNext
  PROVE  PrefsTypes' /\ NumberInv' /\ ShownInv' /\ DataInv'
<1>1. UNCHANGED <<prefs, settings, profile, patches, amiss>>
  BY DEF SubmitNext, Prefs!ReadContext, Prefs!ContextArrives,
     Prefs!FocusSubmit, Prefs!Send, Prefs!resolveForSubmit,
     Prefs!ChangeContest,
         Prefs!ChooseLang, Prefs!ChooseMode, Prefs!settingsVars, Prefs!vars
<1>2. choices' \in Nat /\ choices <= choices'
  <2>1. choices' = choices \/ choices' = choices + 1
    BY Zenon
    DEF SubmitNext, Prefs!ReadContext, Prefs!ContextArrives,
        Prefs!FocusSubmit, Prefs!Send, Prefs!resolveForSubmit,
       Prefs!ChangeContest, Prefs!ChooseLang, Prefs!ChooseMode,
         Prefs!MayChoose, Prefs!vars
  <2>2. choices \in Nat
    BY DEF PrefsInv, PrefsTypes
  <2>3. QED BY <2>1, <2>2
<1>3. NumberInv'
  BY <1>1, <1>2 DEF PrefsInv, PrefsTypes, NumberInv, Patch
<1>4. ShownInv' /\ DataInv'
  BY <1>1, ShownStays DEF PrefsInv, DataInv, Undone
<1>5. CASE Prefs!ReadContext
  <2>1. Prefs!SubmitOptions \in [lang : Langs, mode : Modes]
    BY NullIs
    DEF Prefs!SubmitOptions, Prefs!Or, PrefsInv, PrefsTypes, Prefs!PrefRows
  <2>2. PrefsTypes'
    BY <1>1, <1>2, <1>5, <2>1 DEF Prefs!ReadContext, PrefsInv, PrefsTypes
  <2>3. QED BY <1>3, <1>4, <2>2
<1>6. CASE Prefs!ContextArrives
  <2>1. PrefsTypes'
    BY <1>1, <1>2, <1>6
    DEF Prefs!ContextArrives, Prefs!Filled, Prefs!Template, PrefsInv, PrefsTypes
  <2>2. QED BY <1>3, <1>4, <2>1
<1>7. CASE Prefs!FocusSubmit \/ Prefs!resolveForSubmit
  <2>1. PrefsTypes'
    BY <1>1, <1>2, <1>7
    DEF Prefs!FocusSubmit, Prefs!resolveForSubmit, Prefs!Template,
        Prefs!NewQuery, PrefsInv, PrefsTypes, CodeInv
  <2>2. QED BY <1>3, <1>4, <2>1
<1>8. CASE Prefs!Send \/ Prefs!ChangeContest \/ UNCHANGED Prefs!vars
  <2>1. PrefsTypes'
    BY <1>1, <1>2, <1>8
    DEF Prefs!Send, Prefs!ChangeContest, Prefs!vars, Prefs!submitVars,
        PrefsInv, PrefsTypes
  <2>2. QED BY <1>3, <1>4, <2>1
<1>9. CASE (\E l \in Langs : Prefs!ChooseLang(l))
           \/ (\E m \in Modes : Prefs!ChooseMode(m))
  <2>1. PrefsTypes'
    BY <1>1, <1>2, <1>9 DEF Prefs!ChooseLang, Prefs!ChooseMode, PrefsInv, PrefsTypes
  <2>2. QED BY <1>3, <1>4, <2>1
<1>10. QED BY <1>5, <1>6, <1>7, <1>8, <1>9 DEF SubmitNext

LEMMA PrefsStep ==
  ASSUME Prefs!PreferencesAssumption, PrefsInv, [Prefs!Next]_(Prefs!vars)
  PROVE  PrefsInv'
<1>1. CodeInv'
  BY CodeStep
<1>2. CASE \E l \in Langs : Prefs!Choose("lang", l) \/ Prefs!ChooseLang(l)
  BY <1>1, <1>2, ChooseStep, SubmitStep DEF PrefsInv, SubmitNext
<1>3. CASE \E m \in Modes : Prefs!Choose("mode", m) \/ Prefs!ChooseMode(m)
  BY <1>1, <1>3, ChooseStep, SubmitStep DEF PrefsInv, SubmitNext
<1>4. CASE \E p \in patches : Prefs!updateProfile(p) \/ Prefs!PatchAnswered(p)
           \/ Prefs!PatchFails(p)
  BY <1>1, <1>4, UpdateStep, SettingsStep DEF PrefsInv
<1>5. CASE Prefs!ReadProfile \/ Prefs!ProfileArrives \/ Prefs!FocusSettings
           \/ Prefs!ProfileFails
  BY <1>1, <1>5, SettingsStep DEF PrefsInv
<1>6. CASE \/ Prefs!ReadContext \/ Prefs!ContextArrives \/ Prefs!FocusSubmit
              \/ Prefs!Send \/ Prefs!resolveForSubmit
           \/ Prefs!ChangeContest \/ UNCHANGED Prefs!vars
  BY <1>1, <1>6, SubmitStep DEF PrefsInv, SubmitNext
<1>7. QED BY <1>2, <1>3, <1>4, <1>5, <1>6 DEF Prefs!Next

LEMMA PrefsHold ==
  ASSUME Prefs!PreferencesAssumption, PrefsInv
  PROVE  Prefs!SettingsConverge /\ Prefs!CodeInItsLanguage
<1>1. Prefs!CodeInItsLanguage
  BY DEF PrefsInv, CodeInv, Prefs!CodeInItsLanguage
<1>2. ASSUME profile = Null, patches = {}, settings.ready, ~amiss
      PROVE  settings.lang = Prefs!Or(prefs.lang, DefaultLang)
            /\ settings.mode = Prefs!Or(prefs.mode, DefaultMode)
  BY <1>2 DEF PrefsInv, ShownInv, DataInv, ShowsRowOf, Undone
<1>3. QED BY <1>1, <1>2 DEF Prefs!SettingsConverge

-----------------------------------------------------------------------------
Panels == [scope : Rejudge!Scopes,
           ids : SUBSET (Rejudge!ProblemIds \cup Rejudge!ContestIds),
           filter : SUBSET Verdicts, picked : SUBSET Subs]
Bodies == [scope : Rejudge!Scopes,
           ids : SUBSET (Rejudge!ProblemIds \cup Rejudge!ContestIds \cup Subs),
           only : SUBSET Subs, statuses : SUBSET Verdicts]
Work == [pc : {"sent", "loop"}, body : Bodies, todo : SUBSET Subs, queued : SUBSET Subs,
         was : SUBSET [sub : Subs, status : Verdicts], panel : Panels, seen : SUBSET Subs]
PanelTypes ==
  /\ panel \in Panels
  /\ work = Null \/ work \in Work
  /\ \A l \in lists : l.rows \subseteq Subs

(* What is ticked, and all that a list has for what is chosen, was shown.  *)
SeenInv == panel.picked \subseteq seen /\ Rejudge!Shown \subseteq seen
  /\ seen \subseteq Subs

(* What a confirmation may queue: it is what is asked of the server, that  *)
(* of the panel when it was given, and what it found.                      *)
Asked(w) ==
  /\ w.body.statuses = w.panel.filter
  /\ w.panel.picked \subseteq w.seen
  /\ \/ /\ w.panel.scope = "submission" /\ w.panel.picked # {}
        /\ w.body.scope = "submission" /\ w.body.ids = w.panel.picked
     \/ /\ w.panel.scope # "submission"
        /\ w.body.scope = w.panel.scope /\ w.body.ids = w.panel.ids
        /\ w.body.only = w.panel.picked
Found(w) ==
  /\ w.pc = "sent" => w.queued = {}
  /\ \A s \in w.todo \cup w.queued :
       /\ Rejudge!Belongs(s, w.body.scope, w.body.ids)
       /\ w.body.only = {} \/ s \in w.body.only
       /\ \E v \in w.was : v.sub = s /\ v.status \in Rejudge!statusFilter(w.body.statuses)
WorkInv == work # Null => Asked(work) /\ Found(work)

RejudgeInv == PanelTypes /\ SeenInv /\ WorkInv

LEMMA RejudgeInit == ASSUME Rejudge!Init PROVE RejudgeInv
<1>1. panel \in Panels /\ panel.picked = {}
  BY DEF Rejudge!Init, Rejudge!NewPanel, Panels, Rejudge!Scopes
<1>2. Rejudge!Shown = {}
  BY DEF Rejudge!Init, Rejudge!Shown, Rejudge!Rows
<1>3. QED BY <1>1, <1>2 DEF Rejudge!Init, RejudgeInv, PanelTypes, SeenInv, WorkInv

LEMMA PanelStep ==
  ASSUME RejudgeInv,
         \/ Rejudge!SelectAll \/ Rejudge!ClearAll \/ Rejudge!Focus
         \/ \E s \in Subs : Rejudge!Rejudged(s) \/ Rejudge!Made(s)
            \/ Rejudge!Tick(s) \/ \E v \in Verdicts : Rejudge!Judged(s, v)
         \/ \E k \in fetch : Rejudge!Answered(k) \/ Rejudge!Unanswered(k)
         \/ UNCHANGED Rejudge!vars
  PROVE  RejudgeInv'
<1>1. work' = work
  BY DEF Rejudge!SelectAll, Rejudge!ClearAll, Rejudge!Focus,
     Rejudge!Rejudged, Rejudge!Made, Rejudge!Tick, Rejudge!Judged,
     Rejudge!Answered, Rejudge!Unanswered, Rejudge!vars
<1>2. WorkInv'
  BY <1>1
  DEF RejudgeInv, WorkInv, Asked, Found, Rejudge!Belongs, Rejudge!statusFilter
<1>3. CASE panel' = panel /\ UNCHANGED <<lists, seen>>
  BY <1>1, <1>2, <1>3
  DEF RejudgeInv, PanelTypes, SeenInv, Rejudge!Shown, Rejudge!Rows, Rejudge!Key
<1>4. CASE Rejudge!SelectAll \/ Rejudge!ClearAll
           \/ \E s \in Subs : Rejudge!Tick(s)
  <2>1. PICK q \in SUBSET (Rejudge!Shown \cup panel.picked) :
          panel' = [panel EXCEPT !.picked = q]
    BY <1>4 DEF Rejudge!SelectAll, Rejudge!ClearAll, Rejudge!Tick
  <2>2. q \subseteq seen /\ q \in SUBSET Subs /\ panel \in Panels
    BY <2>1 DEF RejudgeInv, SeenInv, PanelTypes
  <2>3. panel' \in Panels /\ panel'.picked = q
          /\ Rejudge!Key(panel)' = Rejudge!Key(panel)
    BY <2>1, <2>2 DEF Panels, Rejudge!Key
  <2>4. UNCHANGED <<lists, seen>>
    BY <1>4 DEF Rejudge!SelectAll, Rejudge!ClearAll, Rejudge!Tick
  <2>5. Rejudge!Shown' = Rejudge!Shown
    BY <2>3, <2>4 DEF Rejudge!Shown, Rejudge!Rows
  <2>6. QED BY <1>1, <1>2, <2>2, <2>3, <2>4, <2>5 DEF RejudgeInv, PanelTypes, SeenInv
<1>5. ASSUME NEW k \in fetch, Rejudge!Answered(k) PROVE RejudgeInv'
  <2>1. /\ lists' = {l \in lists : l.key # k}
                    \cup {[key |-> k, rows |-> Rejudge!ListCandidates(k)]}
        /\ seen' = IF k = Rejudge!Key(panel)
                   THEN seen \cup Rejudge!ListCandidates(k) ELSE seen
        /\ panel' = panel
    BY <1>5 DEF Rejudge!Answered
  <2>2. Rejudge!ListCandidates(k) \subseteq Subs
    BY DEF Rejudge!ListCandidates, Rejudge!resolveSubmissions
  <2>3. ASSUME NEW s \in Rejudge!Shown' PROVE s \in seen'
    <3>1. PICK l \in lists' : l.key = Rejudge!Key(panel) /\ s \in l.rows
      BY <2>1 DEF Rejudge!Shown, Rejudge!Rows, Rejudge!Key
    <3>2. CASE l \in lists
      <4>1. s \in Rejudge!Shown
        BY <3>1, <3>2 DEF Rejudge!Shown, Rejudge!Rows
      <4>2. QED BY <2>1, <4>1 DEF RejudgeInv, SeenInv
    <3>3. CASE l = [key |-> k, rows |-> Rejudge!ListCandidates(k)]
      BY <2>1, <3>1, <3>3
    <3>4. QED BY <2>1, <3>2, <3>3
  <2>4. seen \subseteq seen' /\ seen' \subseteq Subs
    BY <2>1, <2>2 DEF RejudgeInv, SeenInv
  <2>5. panel.picked \subseteq seen' /\ \A l \in lists' : l.rows \subseteq Subs
    BY <2>1, <2>2, <2>4 DEF RejudgeInv, PanelTypes, SeenInv
  <2>6. QED BY <1>1, <1>2, <2>1, <2>3, <2>4, <2>5 DEF RejudgeInv, PanelTypes, SeenInv
<1>6. QED
  BY <1>3, <1>4, <1>5
  DEF Rejudge!Focus, Rejudge!Rejudged, Rejudge!Made, Rejudge!Judged,
      Rejudge!Unanswered, Rejudge!vars

LEMMA TurnStep ==
  ASSUME RejudgeInv, NEW p \in Panels, p.picked = {}, Rejudge!Turn(p)
  PROVE  RejudgeInv'
<1>1. panel' = p /\ UNCHANGED <<lists, work>> /\ seen' = Rejudge!Rows(Rejudge!Key(p))
  BY DEF Rejudge!Turn
<1>2. Rejudge!Shown' = seen'
  BY <1>1 DEF Rejudge!Shown, Rejudge!Rows, Rejudge!Key
<1>3. WorkInv'
  BY <1>1
  DEF RejudgeInv, WorkInv, Asked, Found, Rejudge!Belongs, Rejudge!statusFilter
<1>4. seen' \subseteq Subs
  BY <1>1 DEF Rejudge!Rows, RejudgeInv, PanelTypes
<1>5. QED BY <1>1, <1>2, <1>3, <1>4 DEF RejudgeInv, PanelTypes, SeenInv

LEMMA ChoiceStep ==
  ASSUME RejudgeInv,
         \/ \E scope \in Rejudge!Scopes : Rejudge!ChooseScope(scope)
         \/ \E ids \in (SUBSET Rejudge!ProblemIds) \cup (SUBSET Rejudge!ContestIds) :
               Rejudge!ChooseIds(ids)
         \/ \E filter \in SUBSET Verdicts : Rejudge!ChooseFilter(filter)
  PROVE  RejudgeInv'
<1>1. panel \in Panels
  BY DEF RejudgeInv, PanelTypes
<1>2. ASSUME NEW scope \in Rejudge!Scopes, Rejudge!ChooseScope(scope)
      PROVE  RejudgeInv'
  <2> DEFINE p == Rejudge!NewPanel(scope)
  <2>1. p \in Panels /\ p.picked = {}
    BY DEF Rejudge!NewPanel, Panels
  <2>2. Rejudge!Turn(p)
    BY <1>2 DEF Rejudge!ChooseScope
  <2> HIDE DEF p
  <2>3. QED BY <2>1, <2>2, TurnStep
<1>3. ASSUME NEW ids \in (SUBSET Rejudge!ProblemIds)
                          \cup (SUBSET Rejudge!ContestIds),
             Rejudge!ChooseIds(ids)
      PROVE  RejudgeInv'
  <2> DEFINE p == [panel EXCEPT !.ids = ids, !.picked = {}]
  <2>1. p \in Panels /\ p.picked = {}
    BY <1>1 DEF Panels
  <2>2. Rejudge!Turn(p)
    BY <1>3 DEF Rejudge!ChooseIds
  <2> HIDE DEF p
  <2>3. QED BY <2>1, <2>2, TurnStep
<1>4. ASSUME NEW filter \in SUBSET Verdicts, Rejudge!ChooseFilter(filter)
      PROVE  RejudgeInv'
  <2> DEFINE p == [panel EXCEPT !.filter = filter, !.picked = {}]
  <2>1. p \in Panels /\ p.picked = {}
    BY <1>1 DEF Panels
  <2>2. Rejudge!Turn(p)
    BY <1>4 DEF Rejudge!ChooseFilter
  <2> HIDE DEF p
  <2>3. QED BY <2>1, <2>2, TurnStep
<1>5. QED BY <1>2, <1>3, <1>4

(* Steps of a confirmation.                                                *)
LEMMA WorkOnly ==
  ASSUME RejudgeInv, UNCHANGED <<panel, lists, seen>>, work' = Null \/ work' \in Work,
         work' # Null => Asked(work') /\ Found(work')
  PROVE  RejudgeInv'
<1>1. WorkInv'
  BY DEF WorkInv, Asked, Found, Rejudge!Belongs, Rejudge!statusFilter
<1>2. QED BY <1>1
          DEF RejudgeInv, PanelTypes, SeenInv, Rejudge!Shown, Rejudge!Rows,
              Rejudge!Key

LEMMA ConfirmStep == ASSUME RejudgeInv, Rejudge!Confirm PROVE RejudgeInv'
<1> DEFINE w == [pc |-> "sent", body |-> Rejudge!requestBody, todo |-> {},
                 queued |-> {}, was |-> {},
                 panel |-> panel, seen |-> seen]
<1>1. work' = w /\ UNCHANGED <<panel, lists, seen>> /\ Rejudge!canPreview
        /\ panel \in Panels
  BY DEF Rejudge!Confirm, RejudgeInv, PanelTypes
<1>2. panel.picked \subseteq seen /\ seen \subseteq Subs
  BY DEF RejudgeInv, SeenInv
<1>3. /\ Rejudge!requestBody \in Bodies /\ Rejudge!requestBody.scope = panel.scope
      /\ Rejudge!requestBody.ids =
           (IF panel.scope = "submission" THEN panel.picked ELSE panel.ids)
      /\ Rejudge!requestBody.only =
           (IF panel.scope = "submission" THEN {} ELSE panel.picked)
      /\ Rejudge!requestBody.statuses = panel.filter
  BY <1>1 DEF Rejudge!requestBody, Bodies, Panels
<1>4. /\ w \in Work /\ w.body = Rejudge!requestBody /\ w.todo = {} /\ w.queued = {}
      /\ w.panel = panel /\ w.seen = seen
  <2> HIDE DEF Rejudge!requestBody
  <2> QED BY <1>1, <1>2, <1>3 DEF Work
<1> HIDE DEF w
<1>5. Asked(w) /\ Found(w)
  BY <1>1, <1>2, <1>3, <1>4 DEF Asked, Found, Rejudge!canPreview
<1>6. QED BY <1>1, <1>4, <1>5, WorkOnly

LEMMA ResolveStep == ASSUME RejudgeInv, Rejudge!Resolve PROVE RejudgeInv'
<1> DEFINE found == Rejudge!Eligible(work.body)
           was == {[sub |-> s, status |-> status[s]] : s \in found}
           w == [work EXCEPT !.pc = "loop", !.todo = found, !.was = was]
<1>1. /\ work # Null /\ work \in Work /\ Asked(work) /\ Found(work)
      /\ UNCHANGED <<panel, lists, seen>>
      /\ work' = Null \/ (work' = w /\ work.pc = "sent")
  BY DEF Rejudge!Resolve, RejudgeInv, PanelTypes, WorkInv
<1>2. /\ found \subseteq Subs
      /\ \A s \in found : /\ Rejudge!Belongs(s, work.body.scope, work.body.ids)
                          /\ work.body.only = {} \/ s \in work.body.only
                          /\ status[s] \in Rejudge!statusFilter(work.body.statuses)
  BY DEF Rejudge!Eligible, Rejudge!resolveSubmissions
<1>3. Rejudge!statusFilter(work.body.statuses) \subseteq Verdicts
  BY <1>1 DEF Rejudge!statusFilter, Work, Bodies
<1> HIDE DEF found
<1>4. was \subseteq [sub : Subs, status : Verdicts]
  BY <1>2, <1>3
<1>5. \A s \in found : \E v \in was : v.sub = s /\ v.status = status[s]
  <2>1. ASSUME NEW s \in found PROVE \E v \in was : v.sub = s /\ v.status = status[s]
    <3>1. [sub |-> s, status |-> status[s]] \in was
      OBVIOUS
    <3>2. QED BY <3>1
  <2>2. QED BY <2>1
<1> HIDE DEF was
<1>6. /\ w \in Work /\ w.todo = found /\ w.was = was
      /\ w.body = work.body /\ w.panel = work.panel /\ w.seen = work.seen
         /\ w.queued = work.queued
      /\ w.pc = "loop"
  BY <1>1, <1>2, <1>4 DEF Work
<1> HIDE DEF w
<1>7. Asked(w)
  BY <1>1, <1>6 DEF Asked
<1>8. work.pc = "sent" => Found(w)
  BY <1>1, <1>2, <1>5, <1>6 DEF Found
<1>9. QED BY <1>1, <1>6, <1>7, <1>8, WorkOnly

LEMMA RejudgeOneStep ==
  ASSUME RejudgeInv, NEW s \in Subs, Rejudge!rejudgeOne(s)
  PROVE  RejudgeInv'
<1> DEFINE v == [work EXCEPT !.todo = @ \ {s}, !.queued = @ \cup {s}]
           w == [work EXCEPT !.todo = @ \ {s}]
<1>1. /\ work \in Work /\ work # Null /\ Asked(work) /\ Found(work)
      /\ work.pc = "loop" /\ s \in work.todo
      /\ UNCHANGED <<panel, lists, seen>>
      /\ work' = v \/ work' = w
  BY DEF Rejudge!rejudgeOne, RejudgeInv, PanelTypes, WorkInv
<1>2. /\ v \in Work /\ v.pc = "loop" /\ v.body = work.body /\ v.panel = work.panel
         /\ v.seen = work.seen
      /\ v.was = work.was /\ v.todo \subseteq work.todo /\ v.queued = work.queued \cup {s}
  BY <1>1 DEF Work
<1>3. /\ w \in Work /\ w.pc = "loop" /\ w.body = work.body /\ w.panel = work.panel
         /\ w.seen = work.seen
      /\ w.was = work.was /\ w.todo \subseteq work.todo /\ w.queued = work.queued
  BY <1>1 DEF Work
<1> HIDE DEF v, w
<1>4. Asked(v) /\ Asked(w)
  BY <1>1, <1>2, <1>3 DEF Asked
<1>5. Found(v) /\ Found(w)
  BY <1>1, <1>2, <1>3 DEF Found
<1>6. QED BY <1>1, <1>2, <1>3, <1>4, <1>5, WorkOnly

LEMMA RejudgeStep ==
  ASSUME RejudgeInv, [Rejudge!Next]_(Rejudge!vars)
  PROVE  RejudgeInv'
<1>1. CASE Rejudge!Executed \/ Rejudge!NotExecuted
  <2>1. work' = Null /\ UNCHANGED <<panel, lists, seen>>
    BY <1>1 DEF Rejudge!Executed, Rejudge!NotExecuted
  <2>2. QED BY <2>1, WorkOnly
<1>2. QED
  BY <1>1, ConfirmStep, ResolveStep, RejudgeOneStep, PanelStep, ChoiceStep
  DEF Rejudge!Next

LEMMA RejudgeHolds == ASSUME RejudgeInv PROVE Rejudge!OnlyWhatWasPicked
<1>1. ASSUME work # Null, NEW s \in work.queued
      PROVE  /\ IF work.panel.picked = {}
                THEN /\ work.panel.scope # "submission"
                     /\ Rejudge!Belongs(s, work.panel.scope, work.panel.ids)
                ELSE s \in work.panel.picked /\ s \in work.seen
             /\ \E w \in work.was :
                    w.sub = s /\ w.status \in Rejudge!statusFilter(work.panel.filter)
  <2>1. Asked(work) /\ Found(work)
    BY <1>1 DEF RejudgeInv, WorkInv
  <2>2. /\ Rejudge!Belongs(s, work.body.scope, work.body.ids)
        /\ work.body.only = {} \/ s \in work.body.only
        /\ \E w \in work.was :
               w.sub = s /\ w.status \in Rejudge!statusFilter(work.panel.filter)
    BY <1>1, <2>1 DEF Asked, Found
  <2>3. CASE work.panel.scope = "submission"
    BY <2>1, <2>2, <2>3 DEF Asked, Rejudge!Belongs
  <2>4. CASE work.panel.scope # "submission"
    BY <2>1, <2>2, <2>4 DEF Asked
  <2>5. QED BY <2>2, <2>3, <2>4
<1>2. QED BY <1>1 DEF Rejudge!OnlyWhatWasPicked

-----------------------------------------------------------------------------
LEMMA WholeHours ==
  ASSUME Contest!FormAssumption, NEW m \in Nat, m % Hour = 0
  PROVE  (m \div Hour) * Hour = m
<1>1. Hour \in Nat /\ Hour > 0
  BY DEF Contest!FormAssumption
<1>2. QED BY <1>1, SMTT(30)

LEMMA HoursAre ==
  ASSUME Contest!FormAssumption, NEW m \in Nat
  PROVE  m \div Hour \in Nat
<1>1. Hour \in Nat /\ Hour > 0
  BY DEF Contest!FormAssumption
<1>2. QED BY <1>1, SMTT(30)

LEMMA MinutesAre ==
  ASSUME Contest!FormAssumption, NEW v \in Nat, NEW u
  PROVE  Contest!Minutes(v, u) \in Nat
<1>1. Hour \in Nat /\ Hour > 0
  BY DEF Contest!FormAssumption
<1>2. v * Hour \in Nat
  BY <1>1, SMTT(30)
<1>3. QED BY <1>2 DEF Contest!Minutes

(* The types that the proof needs; nothing of the password and the list.   *)
AForm(f) ==
  f \in [open : BOOLEAN, editing : BOOLEAN, loading : BOOLEAN, start : Nat, end : Nat,
         value : Nat, unit : Contest!Units, freezeValue : Nat \cup {Null},
           freezeUnit : Contest!Units,
         password : {f.password}, problems : {f.problems}]
ARow(r) ==
  r \in [start : Nat, end : Nat, freeze : Int \cup {Null}, password : {r.password},
         problems : {r.problems}]

(* What the form keeps of a row it was filled with.                        *)
Keeps(f, row, changed) ==
  /\ "window" \notin changed => f.start = row.start /\ f.end = row.end
  /\ "window" \notin changed /\ "freeze" \notin changed /\ row.freeze # row.end =>
       Contest!freezeFromOffset(f.end, f.freezeValue, f.freezeUnit) = row.freeze
  /\ "problems" \notin changed => f.problems = row.problems

ContestInv ==
  /\ AForm(form)
  /\ ARow(stored) /\ Contest!Window(stored.start, stored.end, stored.freeze)
  /\ saving # Null => ARow(saving.body)
  /\ form.open /\ form.editing /\ ~form.loading => Keeps(form, loaded, touched)
  /\ Contest!UntouchedKept

LEMMA WindowIs == ASSUME Contest!FormAssumption, NEW w \in Contest!Windows
  PROVE w[1] \in Nat /\ w[2] \in Nat /\ w[3] \in Int \cup {Null}
        /\ Contest!Window(w[1], w[2], w[3])
<1>1. Picks \subseteq Nat
  BY DEF Contest!FormAssumption
<1>2. w[1] \in Picks /\ w[2] \in Picks /\ w[3] \in Picks \cup {Null}
        /\ Contest!Window(w[1], w[2], w[3])
  BY DEF Contest!Windows
<1>3. w[1] \in Nat /\ w[2] \in Nat
  BY <1>1, <1>2
<1>4. w[3] \in Int \cup {Null}
  <2>1. Picks \cup {Null} \subseteq Int \cup {Null}
    <3>1. Nat \subseteq Int
      OBVIOUS
    <3>2. QED BY <1>1, <3>1, Zenon
  <2>2. QED BY <1>2, <2>1, Zenon
<1>5. QED BY <1>2, <1>3, <1>4

LEMMA NewFormIs == ASSUME Contest!FormAssumption, NEW t \in Nat
  PROVE AForm(Contest!NewForm(t)) /\ Contest!NewForm(t).editing = FALSE
<1>1. NewHours * Hour \in Nat /\ NewHours \in Nat
  BY SMTT(30) DEF Contest!FormAssumption
<1>2. t + NewHours * Hour \in Nat
  BY <1>1
<1> DEFINE e == t + NewHours * Hour
<1> HIDE DEF e
<1>3. QED BY <1>1, <1>2 DEF AForm, Contest!NewForm, Contest!Units, e

LEMMA DurationIs == ASSUME Contest!FormAssumption, NEW a \in Nat, NEW b \in Nat
  PROVE Contest!durationBetween(a, b) \in [value : Nat, unit : Contest!Units]
<1> DEFINE m == b - a
<1>1. NewHours * Hour \in Nat
  BY SMTT(30) DEF Contest!FormAssumption
<1>2. m > 0 => m \in Nat /\ m \div Hour \in Nat
  BY HoursAre
<1>3. m <= 0 \/ m > 0
  OBVIOUS
<1> HIDE DEF m
<1>4. m \in Int
  BY DEF m
<1>5. QED BY <1>1, <1>2, <1>3, <1>4 DEF Contest!durationBetween, Contest!Units, m

LEMMA FreezeIs == ASSUME Contest!FormAssumption, NEW e \in Nat,
  NEW f \in Int \cup {Null}, f # Null => f <= e
  PROVE /\ Contest!freezeOffsetFromEnd(e, f)
              \in [value : Nat \cup {Null}, unit : Contest!Units]
        /\ f # e => LET o == Contest!freezeOffsetFromEnd(e, f)
                    IN  Contest!freezeFromOffset(e, o.value, o.unit) = f
<1> DEFINE m == e - f
           o == Contest!freezeOffsetFromEnd(e, f)
<1>1. NewFreeze \in Nat /\ Null \notin Nat
  BY DEF Contest!FormAssumption
<1>2. CASE f = Null
  <2>1. o = [value |-> Null, unit |-> "minute"]
    BY <1>2 DEF Contest!freezeOffsetFromEnd
  <2>2. QED BY <1>2, <2>1 DEF Contest!Units, Contest!freezeFromOffset
<1>3. CASE f # Null /\ m <= 0
  <2>1. o = [value |-> NewFreeze, unit |-> "minute"]
    BY <1>3 DEF Contest!freezeOffsetFromEnd
  <2>2. f = e
    BY <1>3
  <2>3. QED BY <1>1, <2>1, <2>2 DEF Contest!Units
<1>4. CASE f # Null /\ m > 0 /\ m % Hour = 0
  <2>1. o = [value |-> m \div Hour, unit |-> "hour"]
    BY <1>4 DEF Contest!freezeOffsetFromEnd
  <2>2. m \in Nat /\ m \div Hour \in Nat /\ (m \div Hour) * Hour = m
    BY <1>4, HoursAre, WholeHours
  <2>3. Contest!Minutes(m \div Hour, "hour") = m
    BY <2>2 DEF Contest!Minutes
  <2>4. Contest!freezeFromOffset(e, m \div Hour, "hour") = f
    <3>1. Contest!freezeFromOffset(e, m \div Hour, "hour") = e - m
      BY <1>1, <2>2, <2>3 DEF Contest!freezeFromOffset
    <3>2. QED BY <1>4, <3>1
  <2>5. o.value = m \div Hour /\ o.unit = "hour"
          /\ o \in [value : Nat \cup {Null}, unit : Contest!Units]
    BY <2>1, <2>2 DEF Contest!Units
  <2>6. QED BY <2>4, <2>5
<1>5. CASE f # Null /\ m > 0 /\ m % Hour # 0
  <2>1. o = [value |-> m, unit |-> "minute"]
    BY <1>5 DEF Contest!freezeOffsetFromEnd
  <2>2. m \in Nat
    BY <1>5
  <2>3. Contest!freezeFromOffset(e, m, "minute") = e - m
    BY <1>1, <2>2 DEF Contest!freezeFromOffset, Contest!Minutes
  <2>4. QED BY <1>5, <2>1, <2>2, <2>3 DEF Contest!Units
<1>6. f # Null => m <= 0 \/ m > 0
  OBVIOUS
<1>7. QED BY <1>2, <1>3, <1>4, <1>5, <1>6

(* A row as the form is filled with it.                                    *)
LEMMA FilledIs ==
  ASSUME Contest!FormAssumption, AForm(form), NEW row, ARow(row),
         Contest!Window(row.start, row.end, row.freeze)
  PROVE  /\ AForm(Contest!Filled(row)) /\ Keeps(Contest!Filled(row), row, {})
         /\ Contest!Filled(row).open = form.open
            /\ Contest!Filled(row).editing = form.editing
<1> DEFINE d == Contest!durationBetween(row.start, row.end)
           o == Contest!freezeOffsetFromEnd(row.end, row.freeze)
           f == Contest!Filled(row)
<1>1. row.start \in Nat /\ row.end \in Nat /\ row.freeze \in Int \cup {Null}
      /\ (row.freeze # Null => row.freeze <= row.end)
  BY DEF ARow, Contest!Window
<1>2. d \in [value : Nat, unit : Contest!Units]
  BY <1>1, DurationIs
<1>3. /\ o \in [value : Nat \cup {Null}, unit : Contest!Units]
      /\ row.freeze # row.end =>
            Contest!freezeFromOffset(row.end, o.value, o.unit) = row.freeze
  BY <1>1, FreezeIs
<1>4. f = [form EXCEPT !.loading = FALSE, !.start = row.start, !.end = row.end,
             !.value = d.value, !.unit = d.unit, !.freezeValue = o.value,
               !.freezeUnit = o.unit,
             !.password = "", !.problems = row.problems]
  BY DEF Contest!Filled
<1> HIDE DEF d, o, f
<1>5. /\ f.open = form.open /\ f.editing = form.editing /\ f.loading = FALSE
      /\ f.start = row.start /\ f.end = row.end /\ f.value = d.value /\ f.unit = d.unit
      /\ f.freezeValue = o.value /\ f.freezeUnit = o.unit /\ f.password = ""
         /\ f.problems = row.problems
  BY <1>4 DEF AForm
<1>6. AForm(f)
  BY <1>1, <1>2, <1>3, <1>4 DEF AForm
<1>7. Keeps(f, row, {})
  BY <1>3, <1>5 DEF Keeps
<1>8. QED BY <1>5, <1>6, <1>7 DEF f

(* Steps that leave the row, and what is being saved.                      *)
LEMMA FormOnly ==
  ASSUME ContestInv, UNCHANGED <<stored, saving>>, AForm(form'),
         form'.open /\ form'.editing /\ ~form'.loading => Keeps(form', loaded', touched')
  PROVE  ContestInv'
<1>1. Contest!UntouchedKept'
  BY DEF ContestInv, Contest!UntouchedKept
<1>2. QED BY <1>1
          DEF ContestInv, AForm, ARow, Keeps, Contest!Window,
              Contest!freezeFromOffset, Contest!Minutes

(* Inputs change one thing and say so.                                     *)
LEMMA InputStep ==
  ASSUME ContestInv, form.open /\ ~form.loading, NEW what, touched' = touched \cup {what},
         loaded' = loaded,
         UNCHANGED <<stored, saving>>,
         AForm(form'), form'.editing = form.editing,
         what # "window" => form'.start = form.start /\ form'.end = form.end,
         what \notin {"window", "freeze"} => /\ form'.freezeValue = form.freezeValue
                                             /\ form'.freezeUnit = form.freezeUnit,
         what # "problems" => form'.problems = form.problems
  PROVE  ContestInv'
<1>1. form.editing => Keeps(form, loaded, touched)
  BY DEF ContestInv
<1>2. form.editing => Keeps(form', loaded', touched')
  BY <1>1 DEF Keeps
<1>3. QED BY <1>2, FormOnly

LEMMA FormParts ==
  ASSUME AForm(form)
  PROVE  /\ form.start \in Nat /\ form.end \in Nat /\ form.value \in Nat
         /\ form.freezeValue \in Nat \cup {Null}
BY DEF AForm

LEMMA WindowSteps ==
  ASSUME Contest!FormAssumption, ContestInv,
         \/ \E t \in Picks : Contest!onStartChange(t) \/ Contest!onEndPickerChange(t)
         \/ \E n \in Amounts, u \in Contest!Units : Contest!onDurationChange(n, u)
  PROVE  ContestInv'
<1>1. AForm(form) /\ form.start \in Nat /\ form.end \in Nat /\ form.value \in Nat
  BY FormParts DEF ContestInv
<1>2. Picks \subseteq Nat /\ Amounts \subseteq Nat
  BY DEF Contest!FormAssumption
<1>3. \A a, v \in Nat, u \in Contest!Units : Contest!EndAfter(a, v, u) \in Nat
  BY MinutesAre DEF Contest!EndAfter
<1>4. ASSUME NEW t \in Picks, Contest!onStartChange(t) PROVE ContestInv'
  <2> DEFINE e == Contest!EndAfter(t, form.value, form.unit)
  <2>1. /\ form' = [form EXCEPT !.start = t, !.end = e] /\ form.open /\ ~form.loading
        /\ touched' = touched \cup {"window"} /\ loaded' = loaded
           /\ UNCHANGED <<stored, saving>>
    BY <1>4 DEF Contest!onStartChange, Contest!Editable, Contest!Input
  <2>2. e \in Nat /\ t \in Nat
    <3>1. form.unit \in Contest!Units
      BY <1>1 DEF AForm
    <3>2. QED BY <1>1, <1>2, <1>3, <3>1
  <2> HIDE DEF e
  <2>3. /\ AForm(form') /\ form'.editing = form.editing /\ form'.problems = form.problems
        /\ form'.freezeValue = form.freezeValue /\ form'.freezeUnit = form.freezeUnit
    BY <1>1, <2>1, <2>2 DEF AForm
  <2>4. QED BY <2>1, <2>3, InputStep
<1>5. ASSUME NEW t \in Picks, Contest!onEndPickerChange(t) PROVE ContestInv'
  <2> DEFINE d == Contest!durationBetween(form.start, t)
  <2>1. /\ form' = [form EXCEPT !.end = t, !.value = d.value, !.unit = d.unit]
        /\ form.open /\ ~form.loading
        /\ touched' = touched \cup {"window"} /\ loaded' = loaded
           /\ UNCHANGED <<stored, saving>>
    BY <1>5 DEF Contest!onEndPickerChange, Contest!Editable, Contest!Input
  <2>2. t \in Nat /\ d \in [value : Nat, unit : Contest!Units]
    BY <1>1, <1>2, DurationIs
  <2> HIDE DEF d
  <2>3. /\ AForm(form') /\ form'.editing = form.editing /\ form'.problems = form.problems
        /\ form'.freezeValue = form.freezeValue /\ form'.freezeUnit = form.freezeUnit
    BY <1>1, <2>1, <2>2 DEF AForm
  <2>4. QED BY <2>1, <2>3, InputStep
<1>6. ASSUME NEW n \in Amounts, NEW u \in Contest!Units,
             Contest!onDurationChange(n, u)
      PROVE  ContestInv'
  <2> DEFINE e == Contest!EndAfter(form.start, n, u)
  <2>1. /\ form' = [form EXCEPT !.end = e, !.value = n, !.unit = u] /\ form.open
           /\ ~form.loading
        /\ touched' = touched \cup {"window"} /\ loaded' = loaded
           /\ UNCHANGED <<stored, saving>>
    BY <1>6 DEF Contest!onDurationChange, Contest!Editable, Contest!Input
  <2>2. e \in Nat /\ n \in Nat
    BY <1>1, <1>2, <1>3
  <2> HIDE DEF e
  <2>3. /\ AForm(form') /\ form'.editing = form.editing /\ form'.problems = form.problems
        /\ form'.freezeValue = form.freezeValue /\ form'.freezeUnit = form.freezeUnit
    BY <1>1, <2>1, <2>2 DEF AForm
  <2>4. QED BY <2>1, <2>3, InputStep
<1>7. QED BY <1>4, <1>5, <1>6

LEMMA FieldSteps ==
  ASSUME Contest!FormAssumption, ContestInv,
         \/ Contest!PasswordChange
         \/ \E n \in Amounts \cup {Null},
            u \in Contest!Units : Contest!FreezeChange(n, u)
  PROVE  ContestInv'
<1>1. AForm(form)
  BY DEF ContestInv
<1>2. ASSUME Contest!PasswordChange PROVE ContestInv'
  <2>1. /\ form' = [form EXCEPT !.password = "new"] /\ form.open /\ ~form.loading
        /\ touched' = touched \cup {"password"} /\ loaded' = loaded
           /\ UNCHANGED <<stored, saving>>
    BY <1>2 DEF Contest!PasswordChange, Contest!Editable, Contest!Input
  <2>2. /\ AForm(form') /\ form'.editing = form.editing /\ form'.problems = form.problems
        /\ form'.freezeValue = form.freezeValue /\ form'.freezeUnit = form.freezeUnit
        /\ form'.start = form.start /\ form'.end = form.end
    BY <1>1, <2>1 DEF AForm
  <2>3. QED BY <2>1, <2>2, InputStep
<1>3. ASSUME NEW n \in Amounts \cup {Null}, NEW u \in Contest!Units,
             Contest!FreezeChange(n, u) PROVE ContestInv'
  <2>1. /\ form' = [form EXCEPT !.freezeValue = n, !.freezeUnit = u] /\ form.open
           /\ ~form.loading
        /\ touched' = touched \cup {"freeze"} /\ loaded' = loaded
           /\ UNCHANGED <<stored, saving>>
    BY <1>3 DEF Contest!FreezeChange, Contest!Editable, Contest!Input
  <2>2. n \in Nat \cup {Null}
    BY DEF Contest!FormAssumption
  <2>3. /\ AForm(form') /\ form'.editing = form.editing /\ form'.problems = form.problems
        /\ form'.start = form.start /\ form'.end = form.end
    BY <1>1, <2>1, <2>2 DEF AForm
  <2>4. QED BY <2>1, <2>3, InputStep
<1>4. QED BY <1>2, <1>3

LEMMA ProblemSteps ==
  ASSUME ContestInv,
         \/ Contest!AddProblem
         \/ \E i, j \in 1..3 : Contest!moveProblem(i, j)
         \/ \E i \in 1..3 : Contest!Drop(i) \/ Contest!RemoveProblem(i)
  PROVE  ContestInv'
<1>1. PICK list : Contest!SetProblems(list) /\ form.open
  BY DEF Contest!AddProblem, Contest!moveProblem, Contest!Drop,
     Contest!RemoveProblem, Contest!Editable
<1>2. /\ form' = [form EXCEPT !.problems = list]
      /\ touched' = touched \cup {"problems"} /\ loaded' = loaded
         /\ UNCHANGED <<stored, saving>>
  BY <1>1 DEF Contest!SetProblems, Contest!Input
<1>3. /\ AForm(form') /\ form'.editing = form.editing /\ form'.loading = form.loading
      /\ form'.freezeValue = form.freezeValue /\ form'.freezeUnit = form.freezeUnit
      /\ form'.start = form.start /\ form'.end = form.end
  BY <1>2 DEF ContestInv, AForm
<1>4. CASE form.loading
  BY <1>2, <1>3, <1>4, FormOnly
<1>5. CASE ~form.loading
  BY <1>1, <1>2, <1>3, <1>5, InputStep
<1>6. QED BY <1>4, <1>5

LEMMA OpenSteps ==
  ASSUME Contest!FormAssumption, ContestInv,
         \/ \E t \in Picks : Contest!openCreate(t)
         \/ Contest!openEdit \/ Contest!DetailArrives \/ Contest!DetailFails
            \/ Contest!Close
         \/ \E i \in 1..3 : Contest!DragStart(i)
         \/ \E p \in Problems : Contest!ChooseProblem(p)
         \/ Contest!NotSaved \/ UNCHANGED Contest!vars
  PROVE  ContestInv'
<1>1. AForm(form) /\ ARow(stored) /\ Contest!Window(stored.start, stored.end,
                                                        stored.freeze)
  BY DEF ContestInv
<1>2. ASSUME NEW t \in Picks, Contest!openCreate(t) PROVE ContestInv'
  <2> DEFINE f == Contest!NewForm(t)
  <2>1. t \in Nat
    BY DEF Contest!FormAssumption
  <2>2. AForm(f) /\ f.editing = FALSE
    BY <2>1, NewFormIs
  <2>3. form' = [f EXCEPT !.loading = form.loading] /\ UNCHANGED <<stored, saving>>
    BY <1>2 DEF Contest!openCreate
  <2> HIDE DEF f
  <2>4. AForm(form') /\ form'.editing = FALSE
    BY <1>1, <2>2, <2>3 DEF AForm
  <2>5. QED BY <2>3, <2>4, FormOnly
<1>3. CASE Contest!openEdit \/ Contest!DetailFails \/ Contest!Close
  <2>1. /\ AForm(form') /\ (form'.open => form'.loading) /\ UNCHANGED <<stored, saving>>
    BY <1>1, <1>3
    DEF Contest!openEdit, Contest!DetailFails, Contest!Close, AForm
  <2>2. QED BY <2>1, FormOnly
<1>4. CASE Contest!DetailArrives
  <2>1. form' = Contest!Filled(stored) /\ loaded' = stored /\ touched' = {}
          /\ UNCHANGED <<stored, saving>>
    BY <1>4 DEF Contest!DetailArrives
  <2>2. AForm(Contest!Filled(stored)) /\ Keeps(Contest!Filled(stored), stored, {})
    BY <1>1, FilledIs
  <2>3. QED BY <2>1, <2>2, FormOnly
<1>5. CASE /\ UNCHANGED <<stored, form, loaded, touched>>
           /\ saving' = saving \/ saving' = Null
  BY <1>5
  DEF ContestInv, AForm, ARow, Keeps, Contest!Window, Contest!UntouchedKept,
      Contest!freezeFromOffset, Contest!Minutes
<1>6. QED
  BY <1>2, <1>3, <1>4, <1>5
  DEF Contest!DragStart, Contest!ChooseProblem, Contest!Choice,
      Contest!NotSaved, Contest!vars, Contest!ghosts

LEMMA SaveStep ==
  ASSUME Contest!FormAssumption, ContestInv, Contest!Save
  PROVE  ContestInv'
<1> DEFINE w == [editing |-> form.editing, body |-> Contest!Body, loaded |-> loaded,
                 touched |-> touched]
<1>1. /\ form.open /\ ~form.loading /\ saving' = w
      /\ UNCHANGED <<stored, form, loaded, touched>>
  BY DEF Contest!Save, Contest!Editable, Contest!ghosts
<1>2. AForm(form) /\ (form.editing => Keeps(form, loaded, touched))
  BY <1>1 DEF ContestInv
<1>3. /\ Contest!Body.start = form.start /\ Contest!Body.end = form.end
         /\ Contest!Body.problems = form.problems
      /\ Contest!Body.freeze = Contest!freezeFromOffset(form.end, form.freezeValue,
                                                                form.freezeUnit)
  BY DEF Contest!Body
<1>4. Contest!freezeFromOffset(form.end, form.freezeValue,
                                   form.freezeUnit) \in Int \cup {Null}
  BY <1>2, FormParts, MinutesAre DEF Contest!freezeFromOffset
<1> DEFINE z == Contest!freezeFromOffset(form.end, form.freezeValue, form.freezeUnit)
<1>5. Contest!Body = [start |-> form.start, end |-> form.end, freeze |-> z,
                          password |-> form.password,
              problems |-> form.problems]
  BY DEF Contest!Body
<1> HIDE DEF z
<1>6. ARow(Contest!Body)
  BY <1>2, <1>4, <1>5, FormParts DEF ARow, z
<1>7. /\ w.editing = form.editing /\ w.body = Contest!Body /\ w.loaded = loaded
         /\ w.touched = touched
  OBVIOUS
<1> HIDE DEF w
<1>8. Contest!UntouchedKept'
  BY <1>1, <1>2, <1>3, <1>7 DEF Contest!UntouchedKept, Keeps
<1>9. QED BY <1>1, <1>6, <1>7, <1>8
  DEF ContestInv, AForm, ARow, Keeps, Contest!Window, Contest!freezeFromOffset,
      Contest!Minutes

LEMMA StoreSteps ==
  ASSUME Contest!FormAssumption, ContestInv, Contest!Saved \/ Contest!Elsewhere
  PROVE  ContestInv'
<1>1. AForm(form) /\ ARow(stored) /\ Contest!Window(stored.start, stored.end,
                                                        stored.freeze)
  BY DEF ContestInv
<1>2. CASE Contest!Saved
  <2>1. /\ saving # Null /\ saving' = Null /\ ARow(saving.body)
        /\ Contest!Window(saving.body.start, saving.body.end, saving.body.freeze)
        /\ stored' = stored \/ stored' = saving.body
        /\ form' = [form EXCEPT !.open = FALSE, !.editing = FALSE]
    BY <1>2 DEF Contest!Saved, Contest!Accepts, ContestInv
  <2>2. AForm(form') /\ ~form'.open
    BY <1>1, <2>1 DEF AForm
  <2>3. ARow(stored') /\ Contest!Window(stored'.start, stored'.end, stored'.freeze)
    BY <1>1, <2>1
  <2>4. QED
    BY <2>1, <2>2, <2>3
    DEF ContestInv, AForm, ARow, Keeps, Contest!Window, Contest!UntouchedKept
<1>3. CASE Contest!Elsewhere
  <2>1. PICK w \in Contest!Windows : stored' = [stored EXCEPT !.start = w[1],
                                                    !.end = w[2], !.freeze = w[3]]
    BY <1>3 DEF Contest!Elsewhere
  <2>2. UNCHANGED <<form, saving, loaded, touched>>
    BY <1>3 DEF Contest!Elsewhere, Contest!Choice
  <2>3. w[1] \in Nat /\ w[2] \in Nat /\ w[3] \in Int \cup {Null}
          /\ Contest!Window(w[1], w[2], w[3])
    BY WindowIs
  <2>4. ARow(stored') /\ stored'.start = w[1] /\ stored'.end = w[2] /\ stored'.freeze = w[3]
    BY <1>1, <2>1, <2>3 DEF ARow
  <2>5. Contest!Window(stored'.start, stored'.end, stored'.freeze)
    BY <2>3, <2>4
  <2>6. QED
    BY <2>2, <2>4, <2>5
    DEF ContestInv, AForm, ARow, Keeps, Contest!Window, Contest!UntouchedKept,
        Contest!freezeFromOffset, Contest!Minutes
<1>4. QED BY <1>2, <1>3

LEMMA ContestInit == ASSUME Contest!FormAssumption, Contest!Init PROVE ContestInv
<1>1. PICK w \in Contest!Windows :
        stored = [start |-> w[1], end |-> w[2], freeze |-> w[3], password |-> "old",
                  problems |-> stored.problems]
  BY DEF Contest!Init
<1>2. w[1] \in Nat /\ w[2] \in Nat /\ w[3] \in Int \cup {Null}
        /\ Contest!Window(w[1], w[2], w[3])
  BY WindowIs
<1>3. ARow(stored) /\ Contest!Window(stored.start, stored.end, stored.freeze)
  BY <1>1, <1>2 DEF ARow
<1> DEFINE f == Contest!NewForm(0)
<1>4. AForm(f)
  BY NewFormIs
<1>5. form = [f EXCEPT !.open = FALSE] /\ saving = Null
  BY DEF Contest!Init
<1> HIDE DEF f
<1>6. AForm(form) /\ ~form.open
  BY <1>4, <1>5 DEF AForm
<1>7. QED BY <1>3, <1>5, <1>6 DEF ContestInv, Contest!UntouchedKept

LEMMA ContestStep ==
  ASSUME Contest!FormAssumption, ContestInv, [Contest!Next]_(Contest!vars)
  PROVE  ContestInv'
<1>1. CASE Contest!openEdit \/ Contest!DetailArrives \/ Contest!DetailFails
           \/ Contest!Close \/ Contest!NotSaved \/ UNCHANGED Contest!vars
  BY <1>1, OpenSteps
<1>2. CASE Contest!Save \/ Contest!Saved \/ Contest!Elsewhere
  BY <1>2, SaveStep, StoreSteps
<1>3. CASE \E t \in Picks : Contest!openCreate(t) \/ Contest!onStartChange(t)
           \/ Contest!onEndPickerChange(t)
  BY <1>3, OpenSteps, WindowSteps
<1>4. CASE \/ \E n \in Amounts, u \in Contest!Units :
                 Contest!onDurationChange(n, u) \/ Contest!FreezeChange(n, u)
           \/ \E u \in Contest!Units : Contest!FreezeChange(Null, u)
           \/ Contest!PasswordChange
  BY <1>4, WindowSteps, FieldSteps
<1>5. CASE \/ Contest!AddProblem
           \/ \E i, j \in 1..3 : Contest!moveProblem(i, j)
           \/ \E i \in 1..3 : Contest!DragStart(i) \/ Contest!Drop(i)
              \/ Contest!RemoveProblem(i)
           \/ \E p \in Problems : Contest!ChooseProblem(p)
  BY <1>5, ProblemSteps, OpenSteps
<1>6. QED BY <1>1, <1>2, <1>3, <1>4, <1>5 DEF Contest!Next

-----------------------------------------------------------------------------
(***************************************************************************)
(* The three pages together: of the invariants, the one of the page that   *)
(* is mounted.                                                             *)
(***************************************************************************)
PagesInv ==
  /\ page = "preferences" => PrefsInv
  /\ page = "rejudge" => RejudgeInv
  /\ page = "contest" => ContestInv

LEMMA PagesStart == ASSUME PagesInit PROVE PagesInv
<1>1. CASE page = "preferences" /\ Prefs!Init
  BY <1>1, PrefsInit, PagesAssumption DEF PagesInv, PagesAssumption
<1>2. CASE page = "rejudge" /\ Rejudge!Init
  BY <1>2, RejudgeInit DEF PagesInv
<1>3. CASE page = "contest" /\ Contest!Init
  BY <1>3, ContestInit, PagesAssumption DEF PagesInv, PagesAssumption
<1>4. QED BY <1>1, <1>2, <1>3 DEF PagesInit

LEMMA PagesStep ==
  ASSUME PagesInv, [PagesNext]_pagesVars
  PROVE  PagesInv'
<1>1. CASE page = "preferences" /\ Prefs!Next /\ page' = page
  BY <1>1, PrefsStep, PagesAssumption DEF PagesInv, PagesAssumption
<1>2. CASE page = "rejudge" /\ Rejudge!Next /\ page' = page
  BY <1>2, RejudgeStep DEF PagesInv
<1>3. CASE page = "contest" /\ Contest!Next /\ page' = page
  BY <1>3, ContestStep, PagesAssumption DEF PagesInv, PagesAssumption
<1>4. CASE UNCHANGED pagesVars
  <2>1. page' = page /\ UNCHANGED Prefs!vars /\ UNCHANGED Rejudge!vars
        /\ UNCHANGED Contest!vars
    BY <1>4 DEF pagesVars, prefsVars, rejudgeVars, contestVars,
                Prefs!vars, Prefs!settingsVars, Prefs!submitVars,
                Rejudge!vars, Contest!vars, Contest!ghosts
  <2>2. QED BY <2>1, PrefsStep, RejudgeStep, ContestStep, PagesAssumption DEF PagesInv, PagesAssumption
<1>5. QED BY <1>1, <1>2, <1>3, <1>4 DEF PagesNext

LEMMA PagesKept == PagesSpec => []PagesInv
<1>1. PagesInit => PagesInv
  BY PagesStart
<1>2. PagesInv /\ [PagesNext]_pagesVars => PagesInv'
  BY PagesStep
<1>3. QED BY <1>1, <1>2, PTL DEF PagesSpec

(* When no choice, call or query is under way the settings page shows what *)
(* the server stores, whatever order the answers came in (ShownInv says    *)
(* what is shown while they are under way).                                *)
THEOREM SettingsShowTheRow ==
  PagesSpec => []SettingsConverge
<1>1. PagesInv => SettingsConverge
  BY PrefsHold, PagesAssumption DEF PagesInv, SettingsConverge, PagesAssumption
<1>2. QED BY <1>1, PagesKept, PTL

(* What a user submits is code of the language it is submitted as, also    *)
(* when an answer fills the submit form under the user's hands.            *)
THEOREM CodeGoesWithItsLanguage ==
  PagesSpec => []CodeInItsLanguage
<1>1. PagesInv => CodeInItsLanguage
  BY PrefsHold, PagesAssumption DEF PagesInv, CodeInItsLanguage, PagesAssumption
<1>2. QED BY <1>1, PagesKept, PTL

(* A confirmed rejudge queues only what an administrator has ticked in a   *)
(* list that the panel showed.                                             *)
THEOREM RejudgeAsPicked ==
  PagesSpec => []OnlyWhatWasPicked
<1>1. PagesInv => OnlyWhatWasPicked
  BY RejudgeHolds DEF PagesInv, OnlyWhatWasPicked
<1>2. QED BY <1>1, PagesKept, PTL

(* The contest editor saves what has not been touched as it was loaded:    *)
(* dates, duration and freeze survive being turned into fields and back.   *)
THEOREM EditorKeepsTheRest ==
  PagesSpec => []UntouchedKept
<1>1. PagesInv => UntouchedKept
  BY DEF PagesInv, ContestInv, UntouchedKept
<1>2. QED BY <1>1, PagesKept, PTL
=============================================================================
