------------------------- MODULE UserAccountsProofs -------------------------
(***************************************************************************)
(* For any number of accounts, people and requests: an administrator is    *)
(* left, a token leads only where its owner has entered, and a reset takes *)
(* the account away.                                                       *)
(***************************************************************************)
EXTENDS UserAccounts, FiniteSetTheorems, TLAPS

USE AccountAssumption DEF Ids

(* What a handler carries from one statement to the next.                  *)
WellFormed(q) ==
  /\ q.op \in {"create", "register", "import"} => q.name \in Names /\ q.role \in Roles
  /\ q.op \notin {"update", "delete"} => q.pw \in People \union {Nobody}
  /\ q.op \in {"update", "delete", "reset", "change", "claim"} /\ q.pc # "new" =>
       q.id \in 1 .. created
  /\ q.op \in {"change", "register", "claim"} => q.by \in People
RequestsOK == \A r \in Requests : WellFormed(req[r])

(* Rows have an id that was given, and so do the accounts that were reset. *)
RowsOK ==
  /\ \A i \in Ids : Live(i) => i <= created
  /\ \A i \in reset : i <= created
TypeInv == TypeOK /\ RequestsOK /\ RowsOK

(* Of several requests about to remove an administrator each may count the *)
(* other's. One by itself leaves an administrator that is not its target.  *)
OthersLeft ==
  /\ Admins # {}
  /\ \A r \in Requests : Removing(r) => \E i \in Admins : i # req[r].id
  /\ \A r, s \in Requests : Removing(r) /\ Removing(s) => r = s
AdminInv == ~overlap => OthersLeft

LEMMA RowType ==
  ASSUME NEW n \in Names, NEW role \in Roles, NEW pw \in People \union {Nobody}
  PROVE  /\ Row(n, role, pw) \in User /\ Row(n, role, pw).role = role
         /\ Row(n, role, pw).pw = pw
BY DEF Row, User

LEMMA TypeInit == Init => TypeInv
<1> SUFFICES ASSUME Init PROVE TypeInv
  OBVIOUS
<1>1. /\ created \in Ids /\ token \in [People -> 0 .. MaxIds]
      /\ opened \in [People -> SUBSET Ids] /\ overlap = FALSE /\ reset = {}
  BY DEF Init
<1>2. req = [r \in Requests |-> NewRequest]
  BY DEF Init
<1>3. req \in [Requests -> Request]
  BY <1>2 DEF NewRequest, Request, Op, Roles
<1>4. PICK m, n \in Names, p, q \in People, role \in Roles :
        /\ m # n
        /\ users = [i \in Ids |-> IF i = 1 THEN Row(m, "ADMIN", p)
                                  ELSE IF i <= created THEN Row(n, role, q) ELSE NoUser]
  BY DEF Init
<1>5. /\ users \in [Ids -> User]
      /\ \A i \in Ids : Live(i) => i <= created
  <2>1. NoUser \in User /\ NoUser.role = "none"
    BY DEF NoUser, User
  <2>2. Row(m, "ADMIN", p) \in User /\ Row(n, role, q) \in User
    BY RowType DEF Roles
  <2>3. 1 <= created
    BY <1>1
  <2>4. QED BY <1>4, <2>1, <2>2, <2>3 DEF Live
<1>6. RequestsOK
  BY <1>2 DEF RequestsOK, WellFormed, NewRequest
<1>7. QED BY <1>1, <1>3, <1>5, <1>6 DEF TypeInv, TypeOK, RowsOK

-----------------------------------------------------------------------------
(* The actions by what they change.                                        *)

(* A handler that begins changes nothing but its request.                  *)
Begun(r, p) ==
  /\ UNCHANGED <<users, created, token, opened, overlap, reset>>
  /\ req[r].pc = "new"
  /\ \E q \in Request : /\ req' = [req EXCEPT ![r] = q]
                        /\ WellFormed(q) /\ q.pc = "read" /\ q.op # "claim"

LEMMA BeginKeeps ==
  ASSUME TypeInv, NEW r \in Requests, NEW p \in People, BeginAny(r, p)
  PROVE  Begun(r, p)
<1> USE DEF WellFormed, NewRequest, Request, Op, Roles
<1>0. /\ 1 .. created \subseteq 0 .. MaxIds /\ 0 \in 0 .. MaxIds
      /\ Authenticated(p) => token[p] \in 1 .. created
  BY DEF TypeInv, TypeOK, RowsOK, Authenticated
<1>1. ASSUME NEW q \in Request, Begin(r, p, q), q.op # "claim",
             WellFormed([q EXCEPT !.pc = "read", !.by = p])
      PROVE  Begun(r, p)
  <2> DEFINE w == [q EXCEPT !.pc = "read", !.by = p]
  <2>1. w \in Request /\ w.pc = "read" /\ w.op # "claim"
    BY <1>1
  <2>2. /\ req' = [req EXCEPT ![r] = w] /\ req[r].pc = "new"
        /\ UNCHANGED <<users, created, token, opened, overlap, reset>>
    BY <1>1 DEF Begin
  <2> HIDE DEF w
  <2>3. QED BY <1>1, <2>1, <2>2 DEF Begun, w
<1>2. ASSUME NEW i \in 1 .. created, NEW role \in Roles \union {"same"},
             NEW pw \in People \union {"same"}, BeginUpdate(r, p, i, role, pw)
      PROVE Begun(r, p)
  <2> DEFINE q == [NewRequest EXCEPT !.op = "update", !.id = i, !.role = role, !.pw = pw]
  <2>1. q \in Request /\ q.op # "claim" /\ WellFormed([q EXCEPT !.pc = "read", !.by = p])
    BY <1>2, <1>0
  <2>2. Begin(r, p, q)
    BY <1>2 DEF BeginUpdate
  <2>3. QED BY <2>1, <2>2, <1>1
<1>3. ASSUME NEW i \in 1 .. created, BeginDelete(r, p, i) PROVE Begun(r, p)
  <2> DEFINE q == [NewRequest EXCEPT !.op = "delete", !.id = i]
  <2>1. q \in Request /\ q.op # "claim" /\ WellFormed([q EXCEPT !.pc = "read", !.by = p])
    BY <1>3, <1>0
  <2>2. Begin(r, p, q)
    BY <1>3 DEF BeginDelete
  <2>3. QED BY <2>1, <2>2, <1>1
<1>4. ASSUME NEW i \in 1 .. created, BeginReset(r, p, i) PROVE Begun(r, p)
  <2> DEFINE q == [NewRequest EXCEPT !.op = "reset", !.id = i, !.pw = Nobody]
  <2>1. q \in Request /\ q.op # "claim" /\ WellFormed([q EXCEPT !.pc = "read", !.by = p])
    BY <1>4, <1>0
  <2>2. Begin(r, p, q)
    BY <1>4 DEF BeginReset
  <2>3. QED BY <2>1, <2>2, <1>1
<1>5. ASSUME NEW n \in Names, NEW pw \in People, BeginImport(r, p, n, pw) PROVE Begun(r, p)
  <2> DEFINE q == [NewRequest EXCEPT !.op = "import", !.name = n, !.role = "USER", !.pw = pw]
  <2>1. q \in Request /\ q.op # "claim" /\ WellFormed([q EXCEPT !.pc = "read", !.by = p])
    BY <1>5, <1>0
  <2>2. Begin(r, p, q)
    BY <1>5 DEF BeginImport
  <2>3. QED BY <2>1, <2>2, <1>1
<1>6. ASSUME NEW n \in Names, NEW pw \in People, NEW role \in Roles,
             BeginCreate(r, p, n, role, pw)
      PROVE Begun(r, p)
  <2> DEFINE q == [NewRequest EXCEPT !.op = "create", !.name = n, !.role = role, !.pw = pw]
  <2>1. q \in Request /\ q.op # "claim" /\ WellFormed([q EXCEPT !.pc = "read", !.by = p])
    BY <1>6, <1>0
  <2>2. Begin(r, p, q)
    BY <1>6 DEF BeginCreate
  <2>3. QED BY <2>1, <2>2, <1>1
<1>7. ASSUME NEW n \in Names, BeginRegister(r, p, n) PROVE Begun(r, p)
  <2> DEFINE q == [NewRequest EXCEPT !.op = "register", !.name = n, !.role = "USER", !.pw = p]
  <2>1. q \in Request /\ q.op # "claim" /\ WellFormed([q EXCEPT !.pc = "read", !.by = p])
    BY <1>7, <1>0
  <2>2. Begin(r, p, q)
    BY <1>7 DEF BeginRegister
  <2>3. QED BY <2>1, <2>2, <1>1
<1>8. ASSUME BeginChange(r, p) PROVE Begun(r, p)
  <2> DEFINE q == [NewRequest EXCEPT !.op = "change", !.id = token[p], !.pw = p]
  <2>1. q \in Request /\ q.op # "claim" /\ WellFormed([q EXCEPT !.pc = "read", !.by = p])
    BY <1>8, <1>0 DEF BeginChange
  <2>2. Begin(r, p, q)
    BY <1>8 DEF BeginChange
  <2>3. QED BY <2>1, <2>2, <1>1
<1>9. QED BY <1>2, <1>3, <1>4, <1>5, <1>6, <1>7, <1>8 DEF BeginAny

(* A statement of a handler moves its request on, and leaves the others.   *)
LEMMA GoToKeeps ==
  ASSUME TypeInv, NEW r \in Requests, NEW pc \in {"count", "write", "ok", "refused"},
         req[r].pc # "new", GoTo(r, pc), created' \in Ids, created <= created'
  PROVE  /\ req' \in [Requests -> Request] /\ RequestsOK' /\ overlap' \in BOOLEAN
<1> USE DEF TypeInv, TypeOK, Request
<1>0. req' = [req EXCEPT ![r].pc = pc]
  BY DEF GoTo
<1>1. req' \in [Requests -> Request]
  <2>1. req \in [Requests -> Request]
    OBVIOUS
  <2>2. [req[r] EXCEPT !.pc = pc] \in Request
    BY <2>1
  <2>3. QED BY <1>0, <2>1, <2>2
<1>2. overlap' \in BOOLEAN
  BY DEF GoTo
<1>3. ASSUME NEW s \in Requests PROVE WellFormed(req[s])'
  <2>1. /\ req'[s].op = req[s].op /\ req'[s].name = req[s].name /\ req'[s].pw = req[s].pw
        /\ req'[s].role = req[s].role /\ req'[s].id = req[s].id /\ req'[s].by = req[s].by
        /\ req[s].pc = "new" => req'[s].pc = "new"
    BY <1>0
  <2>2. 1 .. created \subseteq 1 .. created'
    OBVIOUS
  <2>3. QED BY <2>1, <2>2 DEF RequestsOK, WellFormed
<1>4. QED BY <1>1, <1>2, <1>3 DEF RequestsOK

(* One row is written, and it is a row.                                    *)
RowWritten(i, u) ==
  /\ i \in 1 .. created' /\ u \in User /\ users' = [users EXCEPT ![i] = u]
  /\ created' \in Ids /\ created <= created'

LEMMA RowKeeps ==
  ASSUME TypeInv, NEW i, NEW u, RowWritten(i, u)
  PROVE  /\ users' \in [Ids -> User]
         /\ \A j \in Ids : Live(j)' => j <= created'
BY DEF RowWritten, TypeInv, TypeOK, RowsOK, Live

LEMMA TypeNext == ASSUME TypeInv, [Next]_vars PROVE TypeInv'
<1>1. ASSUME NEW p \in People, Refresh(p) PROVE TypeInv'
  BY <1>1 DEF Refresh, TypeInv, TypeOK, RequestsOK, WellFormed, RowsOK, Live
<1>2. ASSUME NEW p \in People, NEW i \in Ids, Login(p, i) PROVE TypeInv'
  BY <1>2 DEF Login, TypeInv, TypeOK, RequestsOK, WellFormed, RowsOK, Live
<1>3. ASSUME NEW r \in Requests, NEW p \in People, BeginAny(r, p) PROVE TypeInv'
  <2>1. PICK q \in Request : /\ req' = [req EXCEPT ![r] = q]
                             /\ WellFormed(q)
    BY <1>3, BeginKeeps DEF Begun
  <2>2. UNCHANGED <<users, created, token, opened, overlap, reset>>
    BY <1>3, BeginKeeps DEF Begun
  <2>3. ASSUME NEW s \in Requests PROVE WellFormed(req[s])'
    BY <2>1, <2>2 DEF TypeInv, TypeOK, RequestsOK, WellFormed
  <2>4. QED BY <2>1, <2>2, <2>3 DEF TypeInv, TypeOK, RequestsOK, RowsOK, Live
<1>4. ASSUME NEW r \in Requests, ReadById(r) \/ Count(r) PROVE TypeInv'
  <2>1. /\ \E pc \in {"count", "write", "ok", "refused"} : req[r].pc # "new" /\ GoTo(r, pc)
        /\ UNCHANGED <<users, created, token, opened, reset>>
    BY <1>4 DEF ReadById, Count
  <2>2. QED BY <2>1, GoToKeeps DEF TypeInv, TypeOK, RowsOK, Live
<1>5. ASSUME NEW r \in Requests, ReadByName(r) PROVE TypeInv'
  <2>1. CASE \E pc \in {"count", "write", "ok", "refused"} : req[r].pc # "new" /\ GoTo(r, pc)
    BY <1>5, <2>1, GoToKeeps DEF ReadByName, TypeInv, TypeOK, RowsOK, Live
  <2>2. ASSUME NEW i \in Named(req[r].name), req[r].op = "register", req[r].pc = "read",
               req' = [req EXCEPT ![r].pc = "write", ![r].op = "claim", ![r].id = i],
               UNCHANGED <<users, created, token, opened, overlap, reset>>
        PROVE  TypeInv'
    <3>1. i \in 1 .. created
      BY DEF Named, TypeInv, TypeOK, RowsOK
    <3>2. req' \in [Requests -> Request]
      BY <2>2, <3>1 DEF TypeInv, TypeOK, Request, Op
    <3>3. ASSUME NEW s \in Requests PROVE WellFormed(req[s])'
      BY <2>2, <3>1 DEF TypeInv, TypeOK, Request, RequestsOK, WellFormed
    <3>4. QED BY <2>2, <3>2, <3>3 DEF TypeInv, TypeOK, RowsOK, RequestsOK, Live
  <2>3. QED BY <1>5, <2>1, <2>2 DEF ReadByName
<1>6. ASSUME NEW r \in Requests, Gone(r) PROVE TypeInv'
  BY <1>6, GoToKeeps DEF Gone, TypeInv, TypeOK, RowsOK, Live
<1>7. ASSUME NEW r \in Requests, WriteUpdate(r) PROVE TypeInv'
  <2> DEFINE q == req[r]
             u == [users[q.id] EXCEPT !.role = IF q.role = "same" THEN @ ELSE q.role,
                                      !.pw = IF q.pw = "same" THEN @ ELSE q.pw]
  <2>1. q \in Request /\ q.id \in 1 .. created /\ q.id \in Ids /\ users[q.id] \in User
    BY <1>7 DEF WriteUpdate, TypeInv, TypeOK, RequestsOK, WellFormed, Request
  <2>2. u \in User
    BY <2>1 DEF User, Request
  <2>3. /\ users' = [users EXCEPT ![q.id] = u] /\ created' = created
        /\ reset' \subseteq reset /\ UNCHANGED <<token, opened>>
        /\ q.pc = "write" /\ GoTo(r, "ok")
    BY <1>7, <2>1 DEF WriteUpdate, User, TypeInv, TypeOK
  <2> HIDE DEF q, u
  <2>4. RowWritten(q.id, u)
    BY <2>1, <2>2, <2>3 DEF RowWritten, TypeInv, TypeOK
  <2>5. QED BY <2>3, <2>4, RowKeeps, GoToKeeps DEF q, TypeInv, TypeOK, RowsOK
<1>8. ASSUME NEW r \in Requests, WriteDelete(r) PROVE TypeInv'
  <2> DEFINE q == req[r]
             u == [users[q.id] EXCEPT !.role = "none"]
  <2>1. /\ q.id \in 1 .. created /\ q.id \in Ids /\ users[q.id] \in User
        /\ q.pc = "write" /\ UNCHANGED <<created, token, opened>> /\ reset' \subseteq reset
        /\ GoTo(r, "ok") \/ GoTo(r, "refused")
        /\ users' = users \/ users' = [users EXCEPT ![q.id] = u]
    BY <1>8 DEF WriteDelete, TypeInv, TypeOK, RequestsOK, WellFormed
  <2>2. u \in User
    BY <2>1 DEF User
  <2> HIDE DEF q, u
  <2>3. CASE users' = users
    BY <2>1, <2>3, GoToKeeps DEF q, TypeInv, TypeOK, RowsOK, Live
  <2>4. CASE users' = [users EXCEPT ![q.id] = u]
    <3>1. RowWritten(q.id, u)
      BY <2>1, <2>2, <2>4 DEF RowWritten, TypeInv, TypeOK
    <3>2. QED BY <2>1, <3>1, RowKeeps, GoToKeeps DEF q, TypeInv, TypeOK, RowsOK
  <2>5. QED BY <2>1, <2>3, <2>4
<1>9. ASSUME NEW r \in Requests, NEW i \in 1 .. created, NEW pw \in People \union {Nobody},
             NEW must \in BOOLEAN, SetPassword(i, pw, must), reset' \subseteq reset \union {i},
             created' = created, token' \in [People -> 0 .. MaxIds],
             opened' \in [People -> SUBSET Ids], req[r].pc # "new", GoTo(r, "ok")
      PROVE  TypeInv'
  <2> DEFINE u == [users[i] EXCEPT !.pw = pw, !.must = must]
  <2>1. i \in Ids /\ users[i] \in User
    BY DEF TypeInv, TypeOK
  <2>2. u \in User
    BY <2>1 DEF User
  <2>3. users' = [users EXCEPT ![i] = u]
    BY <1>9, <2>1 DEF SetPassword, User, TypeInv, TypeOK
  <2> HIDE DEF u
  <2>4. RowWritten(i, u)
    BY <1>9, <2>1, <2>2, <2>3 DEF RowWritten, TypeInv, TypeOK
  <2>5. QED BY <1>9, <2>1, <2>4, RowKeeps, GoToKeeps DEF TypeInv, TypeOK, RowsOK
<1>10. ASSUME NEW r \in Requests, WriteReset(r) \/ WriteChange(r) \/ WriteClaim(r) PROVE TypeInv'
  <2> DEFINE q == req[r]
  <2>1. /\ q.id \in 1 .. created /\ q.pw \in People \union {Nobody} /\ q.pc = "write"
        /\ \E must \in BOOLEAN, pw \in People \union {Nobody} : SetPassword(q.id, pw, must)
        /\ reset' \subseteq reset \union {q.id} /\ created' = created /\ GoTo(r, "ok")
    BY <1>10 DEF WriteReset, WriteChange, WriteClaim, TypeInv, RequestsOK, WellFormed
  <2>2. token' \in [People -> 0 .. MaxIds] /\ opened' \in [People -> SUBSET Ids]
    <3>1. CASE UNCHANGED <<token, opened>>
      BY <3>1 DEF TypeInv, TypeOK
    <3>2. CASE Enter(q.by, q.id) /\ q.op = "claim"
      <4>1. q.by \in People /\ q.id \in Ids
        BY <2>1, <3>2 DEF TypeInv, TypeOK, RequestsOK, WellFormed
      <4>2. QED BY <3>2, <4>1 DEF Enter, TypeInv, TypeOK
    <3>3. QED BY <1>10, <3>1, <3>2 DEF WriteReset, WriteChange, WriteClaim
  <2> HIDE DEF q
  <2>3. QED BY <2>1, <2>2, <1>9 DEF q
<1>11. ASSUME NEW r \in Requests, req[r].op \in {"create", "register", "import"},
              req[r].pc # "new", Insert(req[r]), GoTo(r, "ok"), reset' = reset,
              token' \in [People -> 0 .. MaxIds], opened' \in [People -> SUBSET Ids]
       PROVE  TypeInv'
  <2> DEFINE u == Row(req[r].name, req[r].role, req[r].pw)
  <2>1. u \in User
    BY <1>11, RowType DEF TypeInv, RequestsOK, WellFormed
  <2>2. created' = created + 1 /\ created' \in Ids /\ users' = [users EXCEPT ![created + 1] = u]
    BY <1>11 DEF Insert, TypeInv, TypeOK
  <2> HIDE DEF u
  <2>3. RowWritten(created + 1, u)
    BY <2>1, <2>2 DEF RowWritten, TypeInv, TypeOK
  <2>4. QED BY <1>11, <2>2, <2>3, RowKeeps, GoToKeeps DEF TypeInv, TypeOK, RowsOK
<1>12. ASSUME NEW r \in Requests, WriteCreate(r) PROVE TypeInv'
  <2>1. CASE Insert(req[r]) /\ GoTo(r, "ok")
    <3>1. token' \in [People -> 0 .. MaxIds] /\ opened' \in [People -> SUBSET Ids]
      BY <1>12, <2>1 DEF WriteCreate, Enter, Insert, TypeInv, TypeOK
    <3>2. QED BY <1>12, <2>1, <3>1, <1>11 DEF WriteCreate
  <2>2. CASE GoTo(r, "refused") /\ UNCHANGED <<users, created, token, opened, reset>>
    BY <1>12, <2>2, GoToKeeps DEF WriteCreate, TypeInv, TypeOK, RowsOK, Live
  <2>3. QED BY <1>12, <2>1, <2>2 DEF WriteCreate
<1>13. ASSUME NEW r \in Requests, UpsertImport(r) PROVE TypeInv'
  <2>1. CASE Insert(req[r]) /\ reset' = reset
    BY <1>13, <2>1, <1>11 DEF UpsertImport, TypeInv, TypeOK
  <2>2. ASSUME NEW i \in Named(req[r].name), SetPassword(i, req[r].pw, users[i].must),
               reset' = reset \ {i}, created' = created
        PROVE  TypeInv'
    <3>1. i \in 1 .. created /\ users[i].must \in BOOLEAN /\ req[r].pw \in People \union {Nobody}
      BY <1>13 DEF UpsertImport, Named, TypeInv, TypeOK, RowsOK, User, RequestsOK, WellFormed
    <3>2. QED BY <1>13, <2>2, <3>1, <1>9 DEF UpsertImport, TypeInv, TypeOK
  <2>3. QED BY <1>13, <2>1, <2>2 DEF UpsertImport
<1>14. CASE UNCHANGED vars
  BY <1>14 DEF vars, TypeInv, TypeOK, RowsOK, RequestsOK, WellFormed, Live
<1>15. QED
  BY <1>1, <1>2, <1>3, <1>4, <1>5, <1>6, <1>7, <1>8, <1>10, <1>12, <1>13, <1>14 DEF Next, Write

THEOREM TypeCorrect == Spec => []TypeOK
<1>1. TypeInv => TypeOK
  BY DEF TypeInv
<1>2. QED BY <1>1, TypeInit, TypeNext, PTL DEF Spec

-----------------------------------------------------------------------------
(* An administrator is left.                                               *)

LEMMA CountLeaves ==
  ASSUME TypeInv, ~(Cardinality(Admins) <= 1), NEW t
  PROVE  \E i \in Admins : i # t
<1> SUFFICES ASSUME Admins \subseteq {t} PROVE FALSE
  OBVIOUS
<1>1. IsFiniteSet({t}) /\ Cardinality({t}) = 1
  BY FS_Singleton
<1>2. Cardinality(Admins) <= 1 /\ Cardinality(Admins) \in Nat
  BY <1>1, FS_Subset, FS_CardinalityType
<1>3. QED BY <1>2

(* Nobody new is about to remove an administrator, and none has gone.      *)
Quiet ==
  /\ \A s \in Requests : Removing(s)' => Removing(s) /\ req'[s].id = req[s].id
  /\ Admins \subseteq Admins' /\ overlap' = overlap

LEMMA QuietKeeps == ASSUME AdminInv, Quiet PROVE AdminInv'
<1>1. CASE overlap
  BY <1>1 DEF AdminInv, Quiet
<1>2. CASE ~overlap
  <2>1. OthersLeft
    BY <1>2 DEF AdminInv
  <2>2. Admins' # {}
    BY <2>1 DEF OthersLeft, Quiet
  <2>3. ASSUME NEW s \in Requests, Removing(s)' PROVE \E i \in Admins' : i # req'[s].id
    BY <2>1, <2>3 DEF OthersLeft, Quiet
  <2>4. ASSUME NEW s \in Requests, NEW t \in Requests, Removing(s)', Removing(t)'
        PROVE  s = t
    BY <2>1, <2>4 DEF OthersLeft, Quiet
  <2>5. QED BY <2>2, <2>3, <2>4 DEF AdminInv, OthersLeft
<1>3. QED BY <1>1, <1>2

(* A request that is not about to remove an administrator: it ends, or it  *)
(* never will.                                                             *)
LEMMA HarmlessIsQuiet ==
  ASSUME TypeInv, NEW r \in Requests, NEW pc \in {"count", "write", "ok", "refused"},
         GoTo(r, pc), pc = "write" => ~Removes(req[r]), Admins \subseteq Admins'
  PROVE  Quiet
<1>1. req' = [req EXCEPT ![r].pc = pc] /\ req \in [Requests -> Request]
  BY DEF GoTo, TypeInv, TypeOK
<1>2. overlap' = overlap
  BY DEF GoTo, TypeInv, TypeOK
<1>3. ASSUME NEW s \in Requests PROVE Removing(s)' => Removing(s) /\ req'[s].id = req[s].id
  BY <1>1 DEF Removing, Removes, Request
<1>4. QED BY <1>2, <1>3 DEF Quiet

(* The one request that is about to remove an administrator does so.       *)
LEMMA RemovalLeaves ==
  ASSUME TypeInv, AdminInv, NEW r \in Requests, NEW pc \in {"ok", "refused"},
         Removing(r), GoTo(r, pc), Admins \ {req[r].id} \subseteq Admins'
  PROVE  AdminInv'
<1>1. req' = [req EXCEPT ![r].pc = pc] /\ req \in [Requests -> Request]
  BY DEF GoTo, TypeInv, TypeOK
<1>2. overlap' = overlap
  BY DEF GoTo, TypeInv, TypeOK
<1>3. SUFFICES ASSUME ~overlap PROVE OthersLeft'
  BY <1>2 DEF AdminInv
<1>4. OthersLeft
  BY <1>3 DEF AdminInv
<1>5. Admins' # {}
  BY <1>4 DEF OthersLeft
<1>6. ASSUME NEW s \in Requests PROVE ~Removing(s)'
  BY <1>1, <1>4 DEF OthersLeft, Removing, Removes, Request
<1>7. QED BY <1>5, <1>6 DEF OthersLeft

(* A request comes to the point of removing an administrator.              *)
LEMMA ArrivalLeaves ==
  ASSUME TypeInv, AdminInv, NEW r \in Requests, GoTo(r, "write"), Removes(req[r]),
         req[r].pc # "write", UNCHANGED users,
         Admins # {} => \E i \in Admins : i # req[r].id
  PROVE  AdminInv'
<1>1. req' = [req EXCEPT ![r].pc = "write"] /\ req \in [Requests -> Request]
  BY DEF GoTo, TypeInv, TypeOK
<1>2. Admins' = Admins
  BY DEF Admins
<1>3. SUFFICES ASSUME ~overlap' PROVE OthersLeft'
  BY DEF AdminInv
<1>4. ~overlap /\ \A s \in Requests \ {r} : ~Removing(s)
  BY <1>3 DEF GoTo
<1>5. OthersLeft
  BY <1>4 DEF AdminInv
<1>6. ASSUME NEW s \in Requests, Removing(s)' PROVE s = r
  BY <1>1, <1>4, <1>6 DEF Removing, Removes, Request
<1>7. req'[r].id = req[r].id
  BY <1>1 DEF Request
<1>8. QED BY <1>2, <1>5, <1>6, <1>7 DEF OthersLeft

LEMMA AdminInit == Init => AdminInv
<1> SUFFICES ASSUME Init PROVE OthersLeft
  BY DEF AdminInv
<1>1. PICK m, n \in Names, p, q \in People, role \in Roles :
        /\ m # n
        /\ users = [i \in Ids |-> IF i = 1 THEN Row(m, "ADMIN", p)
                                  ELSE IF i <= created THEN Row(n, role, q) ELSE NoUser]
  BY DEF Init
<1>2. 1 \in Ids /\ users[1] = Row(m, "ADMIN", p)
  BY <1>1
<1>3. Admins # {}
  BY <1>2, RowType DEF Admins, Roles
<1>4. ASSUME NEW r \in Requests PROVE ~Removing(r)
  BY DEF Init, Removing, NewRequest
<1>5. QED BY <1>3, <1>4 DEF OthersLeft

LEMMA AdminNext == ASSUME TypeInv, AdminInv, [Next]_vars PROVE AdminInv'
<1>1. CASE UNCHANGED <<users, req, overlap>>
  BY <1>1, QuietKeeps DEF Quiet, Removing, Admins
<1>2. ASSUME NEW r \in Requests, NEW p \in People, BeginAny(r, p) PROVE AdminInv'
  <2>1. PICK q \in Request : req' = [req EXCEPT ![r] = q] /\ q.pc = "read"
    BY <1>2, BeginKeeps DEF Begun
  <2>2. UNCHANGED <<users, overlap>>
    BY <1>2, BeginKeeps DEF Begun
  <2>3. ASSUME NEW s \in Requests PROVE Removing(s)' => Removing(s) /\ req'[s].id = req[s].id
    BY <2>1 DEF Removing, TypeInv, TypeOK
  <2>4. QED BY <2>2, <2>3, QuietKeeps DEF Quiet, Admins
<1>3. ASSUME NEW r \in Requests, ReadById(r) PROVE AdminInv'
  <2>1. UNCHANGED users /\ req[r].pc = "read" /\ Admins' = Admins
    BY <1>3 DEF ReadById, Admins
  <2>2. CASE GoTo(r, "refused") \/ GoTo(r, "count")
    BY <2>1, <2>2, HarmlessIsQuiet, QuietKeeps
  <2>3. CASE GoTo(r, "write") /\ ~Removes(req[r])
    BY <2>1, <2>3, HarmlessIsQuiet, QuietKeeps
  <2>4. CASE GoTo(r, "write") /\ users[req[r].id].role # "ADMIN" /\ Removes(req[r])
    <3>1. req[r].id \notin Admins
      BY <2>4 DEF Admins
    <3>2. QED BY <2>1, <2>4, <3>1, ArrivalLeaves
  <2>5. QED BY <1>3, <2>2, <2>3, <2>4 DEF ReadById
<1>4. ASSUME NEW r \in Requests, Count(r) PROVE AdminInv'
  <2>1. UNCHANGED users /\ req[r].pc = "count" /\ Admins' = Admins
    BY <1>4 DEF Count, Admins
  <2>2. CASE GoTo(r, "refused")
    BY <2>1, <2>2, HarmlessIsQuiet, QuietKeeps
  <2>3. CASE GoTo(r, "write") /\ ~Removes(req[r])
    BY <2>1, <2>3, HarmlessIsQuiet, QuietKeeps
  <2>4. CASE GoTo(r, "write") /\ Removes(req[r]) /\ ~(Cardinality(Admins) <= 1)
    BY <2>1, <2>4, CountLeaves, ArrivalLeaves
  <2>5. QED BY <1>4, <2>2, <2>3, <2>4 DEF Count
<1>5. ASSUME NEW r \in Requests, ReadByName(r) PROVE AdminInv'
  <2>1. /\ UNCHANGED users /\ Admins' = Admins
        /\ req[r].op \in {"create", "register"} /\ ~Removes(req[r])
    BY <1>5 DEF ReadByName, Admins, Removes
  <2>2. CASE GoTo(r, "write") \/ GoTo(r, "refused")
    BY <2>1, <2>2, HarmlessIsQuiet, QuietKeeps
  <2>3. ASSUME NEW i \in Ids, overlap' = overlap,
               req' = [req EXCEPT ![r].pc = "write", ![r].op = "claim", ![r].id = i]
        PROVE  AdminInv'
    <3>1. ASSUME NEW s \in Requests PROVE Removing(s)' => Removing(s) /\ req'[s].id = req[s].id
      BY <2>3 DEF Removing, Removes, TypeInv, TypeOK, Request
    <3>2. QED BY <2>1, <2>3, <3>1, QuietKeeps DEF Quiet
  <2>4. QED BY <1>5, <2>2, <2>3 DEF ReadByName, Named
<1>6. ASSUME NEW r \in Requests, Gone(r) PROVE AdminInv'
  BY <1>6, HarmlessIsQuiet, QuietKeeps DEF Gone, Admins
<1>7. ASSUME NEW r \in Requests, WriteUpdate(r) PROVE AdminInv'
  <2>1. /\ req[r].pc = "write" /\ req[r].op = "update" /\ GoTo(r, "ok")
        /\ req[r].role \in Roles \union {"same"}
    BY <1>7 DEF WriteUpdate, TypeInv, TypeOK, Request
  <2>2. ASSUME NEW i \in Ids
        PROVE  users'[i].role = IF i = req[r].id /\ req[r].role # "same"
                                THEN req[r].role ELSE users[i].role
    BY <1>7, <2>2 DEF WriteUpdate, TypeInv, TypeOK, User
  <2>3. CASE req[r].role = "USER"
    <3>1. Removing(r) /\ Admins \ {req[r].id} \subseteq Admins'
      BY <2>1, <2>2, <2>3 DEF Removing, Removes, Admins
    <3>2. QED BY <2>1, <3>1, RemovalLeaves
  <2>4. CASE req[r].role # "USER"
    <3>1. Admins \subseteq Admins'
      BY <2>1, <2>2, <2>4 DEF Admins, Roles
    <3>2. QED BY <2>1, <3>1, HarmlessIsQuiet, QuietKeeps
  <2>5. QED BY <2>3, <2>4
<1>8. ASSUME NEW r \in Requests, WriteDelete(r) PROVE AdminInv'
  <2>1. Removing(r) /\ (GoTo(r, "ok") \/ GoTo(r, "refused"))
    BY <1>8 DEF WriteDelete, Removing, Removes
  <2>2. Admins \ {req[r].id} \subseteq Admins'
    BY <1>8 DEF WriteDelete, Admins, TypeInv, TypeOK, User
  <2>3. QED BY <2>1, <2>2, RemovalLeaves
<1>9. ASSUME NEW r \in Requests, NEW i, NEW pw, NEW must, SetPassword(i, pw, must), GoTo(r, "ok")
      PROVE  AdminInv'
  <2>1. Admins' = Admins
    BY <1>9 DEF SetPassword, Admins, TypeInv, TypeOK, User
  <2>2. QED BY <1>9, <2>1, HarmlessIsQuiet, QuietKeeps
<1>10. ASSUME NEW r \in Requests, WriteReset(r) \/ WriteChange(r) \/ WriteClaim(r) PROVE AdminInv'
  BY <1>9, <1>10 DEF WriteReset, WriteChange, WriteClaim
<1>11. ASSUME NEW r \in Requests, Insert(req[r]), GoTo(r, "ok") PROVE AdminInv'
  <2>1. created + 1 \notin Admins
    BY <1>11 DEF Insert, Admins, TypeInv, TypeOK, RowsOK, Live
  <2>2. Admins \subseteq Admins'
    BY <1>11, <2>1 DEF Insert, Admins, TypeInv, TypeOK
  <2>3. QED BY <1>11, <2>2, HarmlessIsQuiet, QuietKeeps
<1>12. ASSUME NEW r \in Requests, WriteCreate(r) PROVE AdminInv'
  <2>1. CASE GoTo(r, "refused") /\ UNCHANGED users
    BY <2>1, HarmlessIsQuiet, QuietKeeps DEF Admins
  <2>2. QED BY <1>11, <1>12, <2>1 DEF WriteCreate
<1>13. ASSUME NEW r \in Requests, UpsertImport(r) PROVE AdminInv'
  BY <1>9, <1>11, <1>13 DEF UpsertImport
<1>14. QED
  BY <1>1, <1>2, <1>3, <1>4, <1>5, <1>6, <1>7, <1>8, <1>10, <1>12, <1>13
     DEF Next, Write, Refresh, Login, vars

(* One administrator is left, as long as no two removals overlap: the      *)
(* count of UsersService is good enough for one request at a time.         *)
THEOREM AdminRemains == Spec => []AdminRemainsAlone
<1>1. AdminInv => AdminRemainsAlone
  BY DEF AdminInv, OthersLeft, AdminRemainsAlone
<1>2. QED BY <1>1, TypeInit, TypeNext, AdminInit, AdminNext, PTL DEF Spec

-----------------------------------------------------------------------------
(* Tokens.                                                                 *)

LEMMA EnterKeeps ==
  ASSUME TypeInv, TokenOfOwnAccount, NEW p \in People, NEW i, Enter(p, i)
  PROVE  TokenOfOwnAccount'
BY DEF Enter, TokenOfOwnAccount, TypeInv, TypeOK

LEMMA TokenNext == ASSUME TypeInv, TokenOfOwnAccount, [Next]_vars PROVE TokenOfOwnAccount'
<1>1. CASE UNCHANGED <<token, opened>>
  BY <1>1 DEF TokenOfOwnAccount
<1>2. ASSUME NEW p \in People, Refresh(p) PROVE TokenOfOwnAccount'
  BY <1>2 DEF Refresh, TokenOfOwnAccount, TypeInv, TypeOK
<1>3. ASSUME NEW p \in People, NEW i \in Ids, Login(p, i) PROVE TokenOfOwnAccount'
  BY <1>3, EnterKeeps DEF Login, Enter
<1>4. ASSUME NEW r \in Requests, WriteClaim(r) \/ WriteCreate(r) PROVE TokenOfOwnAccount'
  <2>1. req[r].op \in {"register", "claim"} => req[r].by \in People
    BY DEF TypeInv, RequestsOK, WellFormed
  <2>2. QED BY <1>1, <1>4, <2>1, EnterKeeps DEF WriteClaim, WriteCreate
<1>5. ASSUME NEW r \in Requests, NEW p \in People, BeginAny(r, p) PROVE UNCHANGED <<token, opened>>
  BY <1>5, BeginKeeps DEF Begun
<1>6. QED
  BY <1>1, <1>2, <1>3, <1>4, <1>5 DEF Next, Write, ReadById, ReadByName, Count, Gone, WriteUpdate,
     WriteDelete, WriteReset, WriteChange, UpsertImport, vars

(* A token leads only where its owner has been let in.                     *)
THEOREM TokensAreOwn == Spec => []TokenOfOwnAccount
<1>1. Init => TokenOfOwnAccount
  BY DEF Init, TokenOfOwnAccount
<1>2. QED BY <1>1, TypeInit, TypeNext, TokenNext, PTL DEF Spec

-----------------------------------------------------------------------------
(* Resets.                                                                 *)

(* An account that was reset has a password that nobody knows.             *)
ResetInv == \A i \in reset : users[i].pw = Nobody

LEMMA SetPasswordKeeps ==
  ASSUME TypeInv, ResetInv, NEW i \in Ids, NEW pw, NEW must, SetPassword(i, pw, must),
         reset' \subseteq (reset \ {i}) \union (IF pw = Nobody THEN {i} ELSE {})
  PROVE  ResetInv'
BY DEF SetPassword, ResetInv, TypeInv, TypeOK, User

LEMMA InsertKeeps ==
  ASSUME TypeInv, ResetInv, NEW q, Insert(q), reset' = reset
  PROVE  ResetInv'
BY DEF Insert, ResetInv, TypeInv, TypeOK, RowsOK

LEMMA ResetNext == ASSUME TypeInv, ResetInv, [Next]_vars PROVE ResetInv'
<1>1. CASE UNCHANGED <<users, reset>>
  BY <1>1 DEF ResetInv
<1>2. ASSUME NEW r \in Requests, WriteUpdate(r) PROVE ResetInv'
  <2>1. req[r].id \in Ids
    BY <1>2 DEF WriteUpdate, TypeInv, TypeOK, RequestsOK, WellFormed
  <2>2. ASSUME NEW i \in Ids
        PROVE  users'[i].pw = IF i = req[r].id /\ req[r].pw # "same"
                              THEN req[r].pw ELSE users[i].pw
    BY <1>2, <2>1 DEF WriteUpdate, TypeInv, TypeOK, User
  <2>3. QED BY <1>2, <2>1, <2>2 DEF WriteUpdate, ResetInv, TypeInv, TypeOK
<1>3. ASSUME NEW r \in Requests, WriteDelete(r) PROVE ResetInv'
  BY <1>3 DEF WriteDelete, ResetInv, TypeInv, TypeOK, User
<1>4. ASSUME NEW r \in Requests, WriteReset(r) \/ WriteChange(r) \/ WriteClaim(r) PROVE ResetInv'
  <2>1. req[r].op \in {"reset", "change", "claim"} /\ req[r].pc = "write"
    BY <1>4 DEF WriteReset, WriteChange, WriteClaim
  <2>2. req[r].id \in Ids
    BY <2>1 DEF TypeInv, TypeOK, RequestsOK, WellFormed
  <2>3. QED BY <1>4, <2>2, SetPasswordKeeps DEF WriteReset, WriteChange, WriteClaim
<1>5. ASSUME NEW r \in Requests, WriteCreate(r) PROVE ResetInv'
  BY <1>1, <1>5, InsertKeeps DEF WriteCreate
<1>6. ASSUME NEW r \in Requests, UpsertImport(r) PROVE ResetInv'
  BY <1>6, InsertKeeps, SetPasswordKeeps DEF UpsertImport, Named
<1>7. ASSUME NEW r \in Requests, NEW p \in People, BeginAny(r, p) PROVE UNCHANGED <<users, reset>>
  BY <1>7, BeginKeeps DEF Begun
<1>8. QED
  BY <1>1, <1>2, <1>3, <1>4, <1>5, <1>6, <1>7 DEF Next, Write, ReadById, ReadByName, Count, Gone,
     Login, Refresh, vars

(* The change that checks the password after the reset is refused.         *)
LEMMA ResetRefuses ==
  ASSUME TypeInv, ResetInv, [Next]_vars, NEW r \in Requests, Checks(r), req'[r].pc # "read"
  PROVE  req'[r].pc = "refused"
<1> DEFINE Other(s) == s # r => req'[r] = req[r]
<1>1. /\ req \in [Requests -> Request] /\ req[r].pc = "read" /\ req[r].op = "change"
      /\ req[r].id \in reset /\ req[r].by \in People /\ req[r].by # Nobody
  BY DEF Checks, TypeInv, TypeOK, RequestsOK, WellFormed
<1>2. ASSUME NEW s \in Requests, NEW pc, GoTo(s, pc) PROVE Other(s)
  BY <1>1, <1>2 DEF GoTo
<1>3. CASE ReadById(r)
  <2>1. users[req[r].id].pw # req[r].by
    BY <1>1 DEF ResetInv
  <2>2. GoTo(r, "refused")
    BY <1>1, <1>3, <2>1 DEF ReadById
  <2>3. QED BY <1>1, <2>2 DEF GoTo, Request
<1>4. ASSUME NEW s \in Requests, NEW p \in People, BeginAny(s, p) PROVE s # r /\ Other(s)
  BY <1>1, <1>4, BeginKeeps DEF Begun
<1>5. ASSUME NEW s \in Requests, ReadByName(s) PROVE s # r /\ Other(s)
  BY <1>1, <1>2, <1>5 DEF ReadByName
<1>6. ASSUME NEW s \in Requests, Count(s) \/ Write(s) PROVE s # r /\ Other(s)
  BY <1>1, <1>2, <1>6 DEF Count, Write, Gone, WriteUpdate, WriteDelete, WriteReset, WriteChange,
     WriteClaim, WriteCreate, UpsertImport
<1>7. ASSUME NEW s \in Requests, ReadById(s) PROVE Other(s)
  BY <1>2, <1>7 DEF ReadById
<1>8. CASE UNCHANGED req
  BY <1>1, <1>8
<1> HIDE DEF Other
<1>9. req'[r] # req[r]
  BY <1>1
<1>10. QED BY <1>3, <1>4, <1>5, <1>6, <1>7, <1>9 DEF Other, Next, Login, Refresh, vars

(* Nobody comes into an account that was reset and stays it: no password   *)
(* opens it, and registering for it ends the reset.                        *)
LEMMA ResetKeepsOut ==
  ASSUME TypeInv, ResetInv, [Next]_vars, NEW i \in reset, i \in reset', NEW p \in People,
         token'[p] = i
  PROVE  token[p] = i
<1>1. token \in [People -> 0..MaxIds] /\ i \in Ids /\ i # 0 /\ i <= created
  BY DEF TypeInv, TypeOK, RowsOK, Ids
<1>2. CASE UNCHANGED token
  BY <1>2
<1>3. ASSUME NEW q \in People, Refresh(q) PROVE token[p] = i
  BY <1>1, <1>3 DEF Refresh
<1>4. ASSUME NEW q \in People, NEW j \in Ids, Login(q, j) PROVE token[p] = i
  <2>1. users[i].pw = Nobody /\ q # Nobody
    BY AccountAssumption DEF ResetInv
  <2>2. j # i
    BY <1>4, <2>1 DEF Login
  <2>3. QED BY <1>1, <1>4, <2>2 DEF Login
<1>5. ASSUME NEW r \in Requests, WriteClaim(r) PROVE token[p] = i
  <2>1. req[r].id # i
    BY <1>5 DEF WriteClaim
  <2>2. QED BY <1>1, <1>5, <2>1 DEF WriteClaim, Enter
<1>6. ASSUME NEW r \in Requests, WriteCreate(r) PROVE token[p] = i
  <2>1. created \in Nat /\ created + 1 # i
    BY <1>1 DEF TypeInv, TypeOK, Ids
  <2>2. QED BY <1>1, <1>6, <2>1 DEF WriteCreate, Enter
<1>7. ASSUME NEW r \in Requests, NEW q \in People, BeginAny(r, q) PROVE UNCHANGED token
  BY <1>7, BeginKeeps DEF Begun
<1>8. QED
  BY <1>2, <1>3, <1>4, <1>5, <1>6, <1>7 DEF Next, Write, ReadById, ReadByName, Count, Gone,
     WriteUpdate, WriteDelete, WriteReset, WriteChange, UpsertImport, vars

(* After a reset nobody new comes in and no change of password gets        *)
(* through that checks the old one, until the account has another.         *)
THEOREM OldPasswordRefused == Spec => OldPasswordIsUseless
<1>1. Init => ResetInv
  BY DEF Init, ResetInv
<1>2. ASSUME TypeInv, ResetInv, [Next]_vars
      PROVE  [/\ \A i \in reset \intersect reset' : Inside(i)' \subseteq Inside(i)
              /\ \A r \in Requests : Checks(r) /\ req'[r].pc # "read"
                                     => req'[r].pc = "refused"]_vars
  <2>1. \A i \in reset \intersect reset' : Inside(i)' \subseteq Inside(i)
    BY <1>2, ResetKeepsOut DEF Inside
  <2>2. \A r \in Requests : Checks(r) /\ req'[r].pc # "read" => req'[r].pc = "refused"
    BY <1>2, ResetRefuses
  <2>3. QED BY <2>1, <2>2
<1>3. QED BY <1>1, <1>2, TypeInit, TypeNext, ResetNext, PTL DEF Spec, OldPasswordIsUseless
=============================================================================
