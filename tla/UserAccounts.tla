---------------------------- MODULE UserAccounts ----------------------------
(***************************************************************************)
(* Accounts and who is in them: UsersService and AuthService of the API.   *)
(* A handler reads the account, hashes or compares a password (which takes *)
(* long), and writes without a transaction, so that handlers interleave    *)
(* between their statements. A session is a signed token that names the    *)
(* account by its id.                                                      *)
(*                                                                         *)
(* Every person has one password of their own; an administrator who sets a *)
(* password sets that of the person the account is meant for. E-mail       *)
(* addresses and profiles are left out.                                    *)
(***************************************************************************)
EXTENDS Naturals, FiniteSets

CONSTANTS
  Names,     \* usernames
  NoName,    \* the username of a row that does not exist
  People,    \* those who use the system, each with a password
  Nobody,    \* the owner of the random password of a reset
  Requests,  \* requests to the handlers that write, each served once
  MaxIds,    \* bound: accounts ever created
  Authors    \* accounts with rows (submissions, discussions, ...) that
             \* refuse the deletion of their user

Ids == 1..MaxIds

ASSUME AccountAssumption ==
  /\ MaxIds \in Nat \ {0, 1} /\ Nobody \notin People /\ Authors \subseteq Ids
  /\ NoName \notin Names

VARIABLES
  users,    \* the table of users; role "none" is an id without a row
  created,  \* number of ids given
  req,      \* the state of every request
  token,    \* the account each person holds a token of, 0 for none
  opened,   \* ghost: the accounts each person has entered by a password
  overlap,  \* ghost: two requests were about to remove an administrator
  reset     \* ghost: accounts reset and not given another password since

vars == <<users, created, req, token, opened, overlap, reset>>

Roles == {"USER", "ADMIN"}
User == [name : Names \union {NoName}, role : Roles \union {"none"}, pw : People \union {Nobody},
         must : BOOLEAN]
Op == {"update", "delete", "reset", "change", "create", "register", "claim", "import"}
Request == [pc : {"new", "read", "count", "write", "ok", "refused"}, op : Op,
            by : People \union {Nobody}, id : 0..MaxIds, name : Names \union {NoName},
            role : Roles \union {"same"}, pw : People \union {Nobody, "same"},
            must : BOOLEAN]

Live(i) == users[i].role # "none"
Admins == {i \in Ids : users[i].role = "ADMIN"}
Named(n) == {i \in Ids : Live(i) /\ users[i].name = n}

(* JwtStrategy.validate and RolesGuard look the account up.                *)
Authenticated(p) == token[p] # 0 /\ Live(token[p])
IsAdmin(p) == Authenticated(p) /\ users[token[p]].role = "ADMIN"

Row(name, role, pw) == [name |-> name, role |-> role, pw |-> pw, must |-> FALSE]
NoUser == [name |-> NoName, role |-> "none", pw |-> Nobody, must |-> FALSE]
NewRequest == [pc |-> "new", op |-> "update", by |-> Nobody, id |-> 0,
               name |-> NoName, role |-> "same", pw |-> "same",
               must |-> FALSE]

(* The seed creates the first administrator; a second account may exist.   *)
Init ==
  /\ created \in 1..2
  /\ \E m, n \in Names, p, q \in People, role \in Roles :
       /\ m # n
       /\ users = [i \in Ids |->
            IF i = 1 THEN Row(m, "ADMIN", p)
            ELSE IF i <= created THEN Row(n, role, q) ELSE NoUser]
  /\ req = [r \in Requests |-> NewRequest]
  /\ token = [p \in People |-> 0]
  /\ opened = [p \in People |-> {}]
  /\ overlap = FALSE
  /\ reset = {}

-----------------------------------------------------------------------------
(* Sessions: each of these reads the account once. *)

Login(p, i) ==
  /\ Live(i) /\ ~users[i].must /\ users[i].pw = p
  /\ token' = [token EXCEPT ![p] = i]
  /\ opened' = [opened EXCEPT ![p] = @ \union {i}]
  /\ UNCHANGED <<users, created, req, overlap, reset>>

RefreshByName(p) ==             \* mutant: the account is looked up by its username
  /\ token[p] # 0
  /\ \E i \in Named(users[token[p]].name) : token' = [token EXCEPT ![p] = i]
  /\ UNCHANGED <<users, created, req, opened, overlap, reset>>

(* An expired token is renewed for the id it carries as long as that       *)
(* account exists; when it does not, the browser drops the token.          *)
Refresh(p) ==
  /\ token[p] # 0
  /\ token' = [token EXCEPT ![p] = IF Live(@) THEN @ ELSE 0]
  /\ UNCHANGED <<users, created, req, opened, overlap, reset>>

-----------------------------------------------------------------------------
(* The guards of the controllers, and the handler up to its first await. *)

Begin(r, p, q) ==
  /\ req[r].pc = "new"
  /\ req' = [req EXCEPT ![r] = [q EXCEPT !.pc = "read", !.by = p]]
  /\ UNCHANGED <<users, created, token, opened, overlap, reset>>

(* PATCH users/:id, of which an administrator may be the target.           *)
BeginUpdate(r, p, i, role, pw) ==
  /\ IsAdmin(p) /\ role # pw
  /\ Begin(r, p, [NewRequest EXCEPT !.op = "update", !.id = i, !.role = role, !.pw = pw])

(* DELETE users/:id and POST users/:id/reset-password, not for oneself.    *)
BeginDelete(r, p, i) ==
  /\ IsAdmin(p) /\ i # token[p]
  /\ Begin(r, p, [NewRequest EXCEPT !.op = "delete", !.id = i])

BeginReset(r, p, i) ==
  /\ IsAdmin(p) /\ i # token[p]
  /\ Begin(r, p, [NewRequest EXCEPT !.op = "reset", !.id = i, !.pw = Nobody])

(* POST users and POST users/import; an import is here one row of a file.  *)
BeginCreate(r, p, n, role, pw) ==
  /\ IsAdmin(p)
  /\ Begin(r, p, [NewRequest EXCEPT !.op = "create", !.name = n, !.role = role, !.pw = pw])

BeginImport(r, p, n, pw) ==
  /\ IsAdmin(p)
  /\ Begin(r, p, [NewRequest EXCEPT !.op = "import", !.name = n, !.role = "USER", !.pw = pw])

(* PATCH users/me/password: p keeps the account for themselves.            *)
BeginChange(r, p) ==
  /\ Authenticated(p)
  /\ Begin(r, p, [NewRequest EXCEPT !.op = "change", !.id = token[p], !.pw = p])

(* POST auth/register, open to everyone.                                   *)
BeginRegister(r, p, n) ==
  Begin(r, p, [NewRequest EXCEPT !.op = "register", !.name = n, !.role = "USER", !.pw = p])

-----------------------------------------------------------------------------
(* The statements of the handlers, one action each. *)

Removes(q) == q.op = "delete" \/ (q.op = "update" /\ q.role = "USER")
Removing(r) == req[r].pc = "write" /\ Removes(req[r])

GoTo(r, pc) ==
  /\ req' = [req EXCEPT ![r].pc = pc]
  /\ overlap' = (overlap \/ (pc = "write" /\ Removes(req[r])
                              /\ \E s \in Requests \ {r} : Removing(s)))

(* findUnique by id. The last administrator is protected by a count.       *)
ReadById(r) ==
  LET q == req[r] IN
  /\ q.pc = "read" /\ q.op \in {"update", "delete", "reset", "change"}
  /\ IF ~Live(q.id) \/ (q.op = "change" /\ users[q.id].pw # q.by)
     THEN GoTo(r, "refused")
     ELSE \/ /\ Removes(q) /\ users[q.id].role = "ADMIN"
             /\ GoTo(r, "count")
          \/ /\ ~(Removes(q) /\ users[q.id].role = "ADMIN")
             /\ GoTo(r, "write")
  /\ UNCHANGED <<users, created, token, opened, reset>>

CountOrNone(r) ==               \* mutant: refused when no administrator is left
  /\ req[r].pc = "count"
  /\ GoTo(r, IF Cardinality(Admins) < 1 THEN "refused" ELSE "write")
  /\ UNCHANGED <<users, created, token, opened, reset>>

Count(r) ==
  /\ req[r].pc = "count"
  /\ GoTo(r, IF Cardinality(Admins) <= 1 THEN "refused" ELSE "write")
  /\ UNCHANGED <<users, created, token, opened, reset>>

(* findUnique by username: createUser refuses a name that is taken, and so *)
(* does register unless the account waits for a new password.              *)
ReadByName(r) ==
  LET q == req[r] IN
  /\ q.pc = "read" /\ q.op \in {"create", "register"}
  /\ \/ Named(q.name) = {} /\ GoTo(r, "write")
     \/ /\ q.op = "register"
        /\ \E i \in Named(q.name) :
             users[i].must /\ req' = [req EXCEPT ![r].pc = "write", ![r].op = "claim",
                                                 ![r].id = i]
        /\ UNCHANGED overlap
     \/ /\ \E i \in Named(q.name) : q.op = "create" \/ ~users[i].must
        /\ GoTo(r, "refused")
  /\ UNCHANGED <<users, created, token, opened, reset>>

-----------------------------------------------------------------------------
(* The writes. An update or a delete whose row has gone fails. *)

Enter(p, i) ==
  /\ token' = [token EXCEPT ![p] = i]
  /\ opened' = [opened EXCEPT ![p] = @ \union {i}]

SetPassword(i, pw, must) ==
  users' = [users EXCEPT ![i].pw = pw, ![i].must = must]

Gone(r) ==
  /\ req[r].pc = "write" /\ req[r].op \notin {"create", "register", "import"}
  /\ ~Live(req[r].id)
  /\ GoTo(r, "refused")
  /\ UNCHANGED <<users, created, token, opened, reset>>

WriteUpdate(r) ==
  LET q == req[r] IN
  /\ q.pc = "write" /\ q.op = "update" /\ Live(q.id)
  /\ users' = [users EXCEPT ![q.id].role = IF q.role = "same" THEN @ ELSE q.role,
                            ![q.id].pw = IF q.pw = "same" THEN @ ELSE q.pw]
  /\ reset' = IF q.pw = "same" THEN reset ELSE reset \ {q.id}
  /\ GoTo(r, "ok")
  /\ UNCHANGED <<created, token, opened>>

WriteDelete(r) ==
  LET q == req[r] IN
  /\ q.pc = "write" /\ q.op = "delete" /\ Live(q.id)
  /\ IF q.id \in Authors
     THEN GoTo(r, "refused") /\ UNCHANGED <<users, reset>>
     ELSE GoTo(r, "ok") /\ users' = [users EXCEPT ![q.id].role = "none"]
                       /\ reset' = reset \ {q.id}
  /\ UNCHANGED <<created, token, opened>>

WriteResetFlagOnly(r) ==        \* mutant: the old password stays
  LET q == req[r] IN
  /\ q.pc = "write" /\ q.op = "reset" /\ Live(q.id)
  /\ SetPassword(q.id, users[q.id].pw, TRUE)
  /\ reset' = reset \union {q.id}
  /\ GoTo(r, "ok")
  /\ UNCHANGED <<created, token, opened>>

WriteReset(r) ==
  LET q == req[r] IN
  /\ q.pc = "write" /\ q.op = "reset" /\ Live(q.id)
  /\ SetPassword(q.id, Nobody, TRUE)
  /\ reset' = reset \union {q.id}
  /\ GoTo(r, "ok")
  /\ UNCHANGED <<created, token, opened>>

WriteChange(r) ==
  LET q == req[r] IN
  /\ q.pc = "write" /\ q.op = "change" /\ Live(q.id)
  /\ SetPassword(q.id, q.pw, FALSE)
  /\ reset' = reset \ {q.id}
  /\ GoTo(r, "ok")
  /\ UNCHANGED <<created, token, opened>>

(* register takes over the account that waited for a password.             *)
WriteClaim(r) ==
  LET q == req[r] IN
  /\ q.pc = "write" /\ q.op = "claim" /\ Live(q.id)
  /\ SetPassword(q.id, q.pw, FALSE)
  /\ reset' = reset \ {q.id}
  /\ Enter(q.by, q.id)
  /\ GoTo(r, "ok")
  /\ UNCHANGED created

Insert(q) ==
  /\ created < MaxIds
  /\ created' = created + 1
  /\ users' = [users EXCEPT ![created + 1] = Row(q.name, q.role, q.pw)]

(* users.username is unique.                                               *)
WriteCreate(r) ==
  LET q == req[r] IN
  /\ q.pc = "write" /\ q.op \in {"create", "register"}
  /\ \/ /\ Named(q.name) = {} /\ Insert(q)
        /\ IF q.op = "register" THEN Enter(q.by, created + 1)
           ELSE UNCHANGED <<token, opened>>
        /\ GoTo(r, "ok")
     \/ /\ Named(q.name) # {} /\ GoTo(r, "refused")
        /\ UNCHANGED <<users, created, token, opened>>
  /\ UNCHANGED reset

(* batchImport reads nothing: the upsert sets the password of an account   *)
(* that exists and leaves its flag and its role.                           *)
UpsertImport(r) ==
  LET q == req[r] IN
  /\ q.pc = "read" /\ q.op = "import"
  /\ \/ Named(q.name) = {} /\ Insert(q) /\ UNCHANGED reset
     \/ \E i \in Named(q.name) : /\ SetPassword(i, q.pw, users[i].must)
                                  /\ reset' = reset \ {i}
                                  /\ UNCHANGED created
  /\ GoTo(r, "ok")
  /\ UNCHANGED <<token, opened>>

-----------------------------------------------------------------------------
Write(r) ==
  Gone(r) \/ WriteUpdate(r) \/ WriteDelete(r) \/ WriteReset(r) \/ WriteChange(r)
  \/ WriteClaim(r) \/ WriteCreate(r) \/ UpsertImport(r)

BeginAny(r, p) ==
  \/ \E i \in 1..created :
       \/ \E role \in Roles \union {"same"}, pw \in People \union {"same"} :
            BeginUpdate(r, p, i, role, pw)
       \/ BeginDelete(r, p, i) \/ BeginReset(r, p, i)
  \/ \E n \in Names :
       \/ \E pw \in People : BeginImport(r, p, n, pw)
                              \/ \E role \in Roles : BeginCreate(r, p, n, role, pw)
       \/ BeginRegister(r, p, n)
  \/ BeginChange(r, p)

Next ==
  \/ \E p \in People : Refresh(p) \/ \E i \in Ids : Login(p, i)
  \/ \E r \in Requests : \/ \E p \in People : BeginAny(r, p)
                          \/ ReadById(r) \/ ReadByName(r) \/ Count(r) \/ Write(r)

Spec == Init /\ [][Next]_vars

-----------------------------------------------------------------------------
(* The type of every variable. *)
TypeOK ==
  /\ users \in [Ids -> User] /\ created \in Ids
  /\ req \in [Requests -> Request]
  /\ token \in [People -> 0..MaxIds]
  /\ opened \in [People -> SUBSET Ids]
  /\ overlap \in BOOLEAN /\ reset \in SUBSET Ids

(* As long as no two requests are about to remove an administrator (by     *)
(* deletion or by demotion) at the same time, one is left: the count of    *)
(* the one request is still good when it writes, whatever else was written *)
(* since, promotions included.                                             *)
AdminRemainsAlone == ~overlap => Admins # {}

(* A session leads only into accounts its owner has entered with a         *)
(* password or has registered: deleting an account and creating another    *)
(* of the same name does not pass it on to the old tokens.                 *)
TokenOfOwnAccount == \A p \in People : token[p] # 0 => token[p] \in opened[p]

(* As long as an account stays reset its old password is of no use: nobody *)
(* comes into the account who was not in it, and a change of password is   *)
(* refused unless it had checked the old one before the reset was written. *)
(* Such a change undoes the reset. Nor does a reset put anybody out: the   *)
(* tokens given before stay good and are renewed, since neither Refresh    *)
(* nor Authenticated looks at the flag.                                    *)
Inside(i) == {p \in People : token[p] = i}
Checks(r) == req[r].pc = "read" /\ req[r].op = "change" /\ req[r].id \in reset
OldPasswordIsUseless ==
  [][/\ \A i \in reset \intersect reset' : Inside(i)' \subseteq Inside(i)
     /\ \A r \in Requests : Checks(r) /\ req'[r].pc # "read" => req'[r].pc = "refused"]_vars
=============================================================================
