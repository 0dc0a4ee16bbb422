----------------------------- MODULE ContestGate -----------------------------
(***************************************************************************)
(* Who gets into one contest and sees its problems: ContestsService,       *)
(* ProblemAccessService and the checks of SubmissionsService.create. The   *)
(* contest is created, moved, given another password, other problems, and  *)
(* deleted, while users register, give the password and submit. Handlers   *)
(* look at the contest and at the registration in one statement each, and  *)
(* write in a later one; the time goes on in between.                      *)
(*                                                                         *)
(* A password is a number, 0 for none. Titles, judge modes, star teams and *)
(* the creators of problems are left out; the administrators created the   *)
(* contest. The scoreboard is ContestScoreboard's.                         *)
(***************************************************************************)
EXTENDS Naturals, FiniteSets

CONSTANTS
  Users, Admins, Editors,  \* roles ADMIN and PROBLEM_EDITOR; the others are USER
  Anyone,                  \* a request without a token
  Problems, PublicProblems,
  Handlers,                \* requests to the handlers that write, each served once
  NoTime,                  \* null: no freeze
  MaxPassword,             \* bound: passwords in the life of the contest
  Horizon                  \* bound: last time considered

ASSUME GateAssumption ==
  /\ Admins \subseteq Users /\ Editors \subseteq Users /\ Anyone \notin Users
  /\ PublicProblems \subseteq Problems
  /\ NoTime \notin Nat /\ MaxPassword \in Nat /\ Horizon \in Nat

VARIABLES
  contest,   \* the row of the contest, with its problems
  reg,       \* contest_registrations: "none", "unverified", "verified"
  now,       \* the time
  req,       \* the state of every request
  subs,      \* the users with a submission in the contest
  entered    \* ghost: users who gave a password, or registered when none was needed

vars == <<contest, reg, now, req, subs, entered>>

Times == 0..Horizon
Window(start, end, freeze) ==
  start < end /\ (freeze # NoTime => start <= freeze /\ freeze <= end)

NoContest == [on |-> FALSE, start |-> 0, end |-> 0, freeze |-> NoTime, password |-> 0,
              problems |-> {}, public |-> TRUE]

Init ==
  /\ contest = NoContest
  /\ reg = [u \in Users |-> "none"]
  /\ now = 0
  /\ req = [h \in Handlers |-> [pc |-> "new"]]
  /\ subs = {} /\ entered = {}

Tick ==
  /\ now < Horizon /\ now' = now + 1
  /\ UNCHANGED <<contest, reg, req, subs, entered>>

NeedsPassword == contest.password # 0

(* resolveByNumber: a contest that is not there is not found.              *)
Found == contest.on

(* The guards of the routes: the token of an administrator, any token.     *)
AdminRoute(u) == u \in Admins
UserRoute(u) == u # Anyone

-----------------------------------------------------------------------------
(* What a request sees, at one moment. *)

Preview(u) == now >= contest.start \/ u \in Admins

(* hasContestEntryAccess, for the page of the contest.                     *)
EntryAccess(u) ==
  /\ contest.on /\ Preview(u)
  /\ \/ u \in Admins \/ ~NeedsPassword
     \/ u # Anyone /\ reg[u] = "verified"

AccessAfterStart(u) ==          \* mutant: the moment of the start is not yet in the contest
  /\ u # Anyone
  /\ \/ u \in Admins
     \/ /\ contest.on /\ now > contest.start
        /\ NeedsPassword => reg[u] = "verified"
        /\ contest.public \/ reg[u] # "none"

(* hasContestAccess, for its problems.                                     *)
ContestAccess(u) ==
  /\ u # Anyone
  /\ \/ u \in Admins
     \/ /\ contest.on /\ Preview(u)
        /\ NeedsPassword => reg[u] = "verified"
        /\ contest.public \/ reg[u] # "none"

IsStaff(u) == u \in Admins \union Editors

LockedRunning(p) ==             \* mutant: problems are locked from the start on
  contest.on /\ p \in contest.problems /\ contest.start <= now /\ contest.end > now

(* isLockedByActiveContest and getLockedProblemIds                         *)
Locked(p) == contest.on /\ p \in contest.problems /\ contest.end > now
LockedIds == {p \in Problems : contest.on /\ p \in contest.problems /\ contest.end > now}

(* canView, with the context of the contest or without.                    *)
CanView(p, u, inContest) ==
  \/ IsStaff(u)
  \/ inContest /\ contest.on /\ p \in contest.problems /\ ContestAccess(u)
  \/ ~Locked(p) /\ p \in PublicProblems

(* The list of problems, and the problems on the page of the contest.      *)
ListProblems(u, publicOnly) ==
  IF IsStaff(u) /\ ~publicOnly THEN Problems ELSE PublicProblems \ LockedIds
ContestProblems(u) ==
  IF EntryAccess(u) THEN {p \in contest.problems : CanView(p, u, TRUE)} ELSE {}

(* contestListStatus, the list of the administrators, the public list, and *)
(* the tags the page of the contests shows them with.                      *)
Status == IF now < contest.start THEN "upcoming"
          ELSE IF now > contest.end THEN "ended" ELSE "running"
AdminList == {c \in {contest} : c.on}
List == {[status |-> Status, locked |-> NeedsPassword] : c \in {d \in AdminList : d.public}}
ContestsPage == {<<row.status, IF row.locked THEN "password" ELSE "open">> : row \in List}

(* What the page of the contest is told, and what it shows: the request    *)
(* for the password, the links to the problems and those to submit.        *)
Detail(u) ==
  LET granted == EntryAccess(u)
  IN  [granted |-> granted,
       denied |-> IF granted THEN "no" ELSE IF now < contest.start THEN "notStarted"
                  ELSE "password",
       canSubmit |-> granted /\ contest.start <= now /\ now <= contest.end,
       problems |-> ContestProblems(u)]

ContestPage(u) ==
  LET d == Detail(u)
  IN  [asksPassword |-> d.denied = "password" /\ UserRoute(u),
       opens |-> IF d.granted THEN d.problems ELSE {},
       offers |-> IF d.granted /\ d.canSubmit THEN d.problems ELSE {}]

(* The page of a problem reached from there, what its editor is filled     *)
(* from, and the scoreboard of the contest.                                *)
ProblemPage(p, u) ==
  IF CanView(p, u, TRUE) THEN IF IsStaff(u) THEN "withTestcases" ELSE "withSamples"
  ELSE "notFound"
SubmitContext(p, u) == UserRoute(u) /\ CanView(p, u, TRUE) /\ Found /\ p \in contest.problems
BoardAccess(u) ==
  CASE EntryAccess(u) -> "granted"
    [] ~EntryAccess(u) /\ now < contest.start -> "notStarted"
    [] OTHER -> "denied"

-----------------------------------------------------------------------------
(* The administrators. *)

CreateAdmin(start, end, freeze, password, problems, public) ==
  /\ ~contest.on /\ contest = NoContest /\ reg = [u \in Users |-> "none"]
  /\ \A h \in Handlers : req[h].pc = "new"
  /\ Window(start, end, freeze)
  /\ contest' = [on |-> TRUE, start |-> start, end |-> end, freeze |-> freeze,
                 password |-> password, problems |-> problems, public |-> public]
  /\ UNCHANGED <<reg, now, req, subs, entered>>

Start(h, q) == req[h].pc = "new" /\ req' = [req EXCEPT ![h] = q]
Updating(h) == req[h].pc = "write" /\ req[h].op = "update"

WindowChecked(start, end, freeze, given) == Window(start, end, freeze)

(* updateAdmin takes what the request does not give from the row it reads, *)
(* checks the window, hashes the password, and writes what was given.      *)
ReadUpdate(h, given, start, end, freeze, password, problems, public) ==
  LET s == IF "start" \in given THEN start ELSE contest.start
      e == IF "end" \in given THEN end ELSE contest.end
      f == IF "freeze" \in given THEN freeze ELSE contest.freeze
  IN
  /\ contest.on
  /\ Start(h, IF WindowChecked(s, e, f, given)
              THEN [pc |-> "write", op |-> "update", given |-> given, start |-> s, end |-> e,
                    freeze |-> f, password |-> password, problems |-> problems,
                    public |-> public]
              ELSE [pc |-> "refused"])
  /\ UNCHANGED <<contest, reg, now, subs, entered>>

Done(h) == req' = [req EXCEPT ![h] = [pc |-> "ok"]]
Refuse(h) == req' = [req EXCEPT ![h] = [pc |-> "refused"]]

WriteUpdate(h) ==
  LET q == req[h]
      New(field, name, value) == IF name \in q.given THEN value ELSE field
  IN
  /\ Updating(h)
  /\ \/ /\ contest.on
        /\ contest' = [contest EXCEPT
             !.start = New(@, "start", q.start), !.end = New(@, "end", q.end),
             !.freeze = New(@, "freeze", q.freeze),
             !.password = New(@, "password", q.password),
             !.problems = New(@, "problems", q.problems),
             !.public = New(@, "visibility", q.public)]
        /\ Done(h)
     \/ ~contest.on /\ Refuse(h) /\ UNCHANGED contest
  /\ UNCHANGED <<reg, now, subs, entered>>

(* deleteAdmin counts the submissions, and deletes; the registrations go   *)
(* with the contest, and a submission made in between is left without one. *)
CountSubmissions(h) ==
  /\ contest.on
  /\ Start(h, IF subs = {} THEN [pc |-> "write", op |-> "delete"] ELSE [pc |-> "refused"])
  /\ UNCHANGED <<contest, reg, now, subs, entered>>

DeleteContest(h) ==
  /\ req[h].pc = "write" /\ req[h].op = "delete"
  /\ contest' = [contest EXCEPT !.on = FALSE]
  /\ reg' = [u \in Users |-> "none"]
  /\ subs' = {}
  /\ Done(h)
  /\ UNCHANGED <<now, entered>>

-----------------------------------------------------------------------------
(* Registration: register, or upsertRegistrationAdmin for somebody else.   *)

Register(h, u) ==
  /\ Found
  /\ Start(h, [pc |-> "find", op |-> "register", user |-> u, verified |-> ~NeedsPassword])
  /\ entered' = IF NeedsPassword THEN entered ELSE entered \union {u}
  /\ UNCHANGED <<contest, reg, now, subs>>

VerifyPassword(h, u, password) ==
  /\ Found
  /\ \/ /\ ~NeedsPassword
        /\ Start(h, [pc |-> "ok"]) /\ UNCHANGED entered
     \/ /\ NeedsPassword /\ password = contest.password
        /\ Start(h, [pc |-> "find", op |-> "verify", user |-> u, verified |-> TRUE])
        /\ entered' = entered \union {u}
     \/ /\ NeedsPassword /\ password # contest.password
        /\ Start(h, [pc |-> "refused"]) /\ UNCHANGED entered
  /\ UNCHANGED <<contest, reg, now, subs>>

(* updateRegistrationAdmin changes whether a registration found is a star  *)
(* team's, and falls back to upsertRegistrationAdmin.                      *)
UpdateRegistration(h, u) ==
  /\ Start(h, IF reg[u] # "none" THEN [pc |-> "star", op |-> "star", user |-> u]
              ELSE [pc |-> "upsert", op |-> "star", user |-> u])
  /\ UNCHANGED <<contest, reg, now, subs, entered>>

SetStar(h) ==
  /\ req[h].pc = "star"
  /\ IF reg[req[h].user] # "none" THEN Done(h) ELSE Refuse(h)
  /\ UNCHANGED <<contest, reg, now, subs, entered>>

UpsertRegistration(h) ==
  /\ req[h].pc = "upsert"
  /\ \/ /\ Found
        /\ req' = [req EXCEPT ![h] = [pc |-> "find", op |-> "register", user |-> req[h].user,
                                      verified |-> ~NeedsPassword]]
        /\ entered' = IF NeedsPassword THEN entered ELSE entered \union {req[h].user}
     \/ ~Found /\ Refuse(h) /\ UNCHANGED entered
  /\ UNCHANGED <<contest, reg, now, subs>>

(* ensureRegistration: findUnique, then an update or a create.             *)
FindRegistration(h) ==
  /\ req[h].pc = "find"
  /\ req' = [req EXCEPT ![h] = [pc |-> "write", op |-> "register", user |-> req[h].user,
                                verified |-> req[h].verified,
                                exists |-> reg[req[h].user] # "none"]]
  /\ UNCHANGED <<contest, reg, now, subs, entered>>

Registered(verified) == IF verified THEN "verified" ELSE "unverified"

CreateVerified(h) ==            \* mutant: a new registration counts as verified
  LET q == req[h]
      exists == reg[q.user] # "none"
  IN
  /\ q.pc = "write" /\ q.op = "register"
  /\ IF contest.on /\ exists = q.exists
     THEN Done(h) /\ reg' = [reg EXCEPT ![q.user] = Registered(q.verified \/ ~q.exists)]
     ELSE Refuse(h) /\ UNCHANGED reg
  /\ UNCHANGED <<contest, now, subs, entered>>

(* An update needs its row, a create that there is none, and the contest.  *)
WriteRegistration(h) ==
  LET q == req[h]
      exists == reg[q.user] # "none"
  IN
  /\ q.pc = "write" /\ q.op = "register"
  /\ IF contest.on /\ exists = q.exists
     THEN Done(h) /\ reg' = [reg EXCEPT ![q.user] = Registered(q.verified)]
     ELSE Refuse(h) /\ UNCHANGED reg
  /\ UNCHANGED <<contest, now, subs, entered>>

-----------------------------------------------------------------------------
(* A submission to the contest. *)

SubmitAccessVerified(u) ==      \* mutant: only the password is looked at
  u \in Admins \/ (NeedsPassword => reg[u] = "verified")

(* assertSubmitAccess                                                      *)
SubmitAccess(u) ==
  u \in Admins \/ (reg[u] # "none" /\ (NeedsPassword => reg[u] = "verified"))
ActiveForSubmit == contest.on /\ contest.start <= now /\ now <= contest.end

Submit(h, u, p) ==
  /\ Found
  /\ Start(h, IF SubmitAccess(u)
              THEN [pc |-> "active", op |-> "submit", user |-> u, problem |-> p]
              ELSE [pc |-> "refused"])
  /\ UNCHANGED <<contest, reg, now, subs, entered>>

(* isActiveForSubmit, and resolveForSubmit, which looks for the problem.   *)
CheckActive(h) ==
  /\ req[h].pc = "active"
  /\ IF ActiveForSubmit THEN req' = [req EXCEPT ![h].pc = "mode"] ELSE Refuse(h)
  /\ UNCHANGED <<contest, reg, now, subs, entered>>

CheckMode(h) ==
  /\ req[h].pc = "mode"
  /\ IF contest.on /\ req[h].problem \in contest.problems
     THEN req' = [req EXCEPT ![h].pc = "insert"] ELSE Refuse(h)
  /\ UNCHANGED <<contest, reg, now, subs, entered>>

InsertSubmission(h) ==
  /\ req[h].pc = "insert"
  /\ \/ contest.on /\ Done(h) /\ subs' = subs \union {req[h].user}
     \/ ~contest.on /\ Refuse(h) /\ UNCHANGED subs
  /\ UNCHANGED <<contest, reg, now, entered>>

-----------------------------------------------------------------------------
Passwords == 0..MaxPassword

(* An update is one of the window, or one of what is behind it.            *)
UpdateAny(h) ==
  \/ \E given \in SUBSET {"start", "end", "freeze"}, s, e \in Times,
        f \in Times \union {NoTime} :
       ReadUpdate(h, given, s, e, f, 0, {}, TRUE)
  \/ \E password \in Passwords : ReadUpdate(h, {"password"}, 0, 0, NoTime, password, {}, TRUE)
  \/ \E problems \in SUBSET Problems :
       ReadUpdate(h, {"problems"}, 0, 0, NoTime, 0, problems, TRUE)
  \/ \E public \in BOOLEAN : ReadUpdate(h, {"visibility"}, 0, 0, NoTime, 0, {}, public)

AdminNext ==
  \E u \in Users \union {Anyone} :
    /\ AdminRoute(u)
    /\ \/ \E s, e \in Times, f \in Times \union {NoTime}, password \in Passwords,
            problems \in SUBSET Problems, public \in BOOLEAN :
            CreateAdmin(s, e, f, password, problems, public)
       \/ \E h \in Handlers :
            \/ UpdateAny(h) \/ WriteUpdate(h) \/ CountSubmissions(h) \/ DeleteContest(h)
            \/ \E v \in Users : Register(h, v) \/ UpdateRegistration(h, v)

UserNext ==
  \E u \in Users \union {Anyone}, h \in Handlers :
    /\ UserRoute(u)
    /\ \/ Register(h, u)
       \/ \E password \in Passwords : VerifyPassword(h, u, password)
       \/ \E p \in Problems : Submit(h, u, p)

Next ==
  \/ Tick \/ AdminNext \/ UserNext
  \/ \E h \in Handlers :
       \/ SetStar(h) \/ UpsertRegistration(h) \/ FindRegistration(h) \/ WriteRegistration(h)
       \/ CheckActive(h) \/ CheckMode(h) \/ InsertSubmission(h)

Spec == Init /\ [][Next]_vars

-----------------------------------------------------------------------------
(* The type of every variable. *)
TypeOK ==
  /\ contest \in [on : BOOLEAN, start : Times, end : Times, freeze : Times \union {NoTime},
                   password : Passwords, problems : SUBSET Problems, public : BOOLEAN]
  /\ reg \in [Users -> {"none", "unverified", "verified"}]
  /\ now \in Times
  /\ subs \subseteq Users /\ entered \subseteq Users

(* Who has submitted in the contest is registered for it (or ADMIN),       *)
(* also when the contest is deleted between the checks and the insert: a   *)
(* team on the scoreboard has a registration to be shown with.             *)
SubmitterRegistered == \A u \in subs : u \in Admins \/ reg[u] # "none"

(* A registration is verified for those only who gave a password of the    *)
(* contest or registered when none was needed, whatever is registered,     *)
(* verified and changed at the same time.                                  *)
VerifiedByPassword == \A u \in Users : reg[u] = "verified" => u \in entered

(* The list of problems and the page of a problem agree, for those who are *)
(* not staff: each computes for itself which problems a contest locks.     *)
ListAgrees ==
  \A u \in (Users \union {Anyone}) \ (Admins \union Editors) :
    ListProblems(u, TRUE) = {p \in Problems : CanView(p, u, FALSE)}

(* Whoever may submit to the contest sees all its problems, on the page   *)
(* of the contest and each for itself, with a link to submit and an editor *)
(* that can be filled, and reads the scoreboard; the list tags the contest *)
(* as running. The other way round, when there is a password the page      *)
(* offers only what the server accepts, and asks for the password only who *)
(* has not given it. Eight functions look at the window, the password, the *)
(* visibility and the registration, each in its own way.                   *)
SubmitterSees ==
  \A u \in Users :
    /\ ActiveForSubmit /\ SubmitAccess(u) =>
         /\ ContestProblems(u) = contest.problems
         /\ ContestPage(u).offers = contest.problems
         /\ \A p \in contest.problems :
              ProblemPage(p, u) # "notFound" /\ SubmitContext(p, u)
         /\ BoardAccess(u) = "granted"
         /\ \A row \in ContestsPage : row[1] = "running"
    /\ NeedsPassword /\ ContestPage(u).offers # {} => ActiveForSubmit /\ SubmitAccess(u)
    /\ Found /\ ContestPage(u).asksPassword => reg[u] # "verified"
=============================================================================
