------------------------- MODULE ContestGateProofs -------------------------
(***************************************************************************)
(* For any number of users, administrators, problems and requests, any     *)
(* passwords and any length of a contest: who is registered, verified and  *)
(* let in is so by the rules, and those who decide on it agree.            *)
(***************************************************************************)
EXTENDS ContestGate, TLAPS

(* What a request carries from one statement to the next.                  *)
IsUpdate(q) == q.pc = "write" /\ q.op = "update"
IsRegistration(q) == q.pc = "find" \/ (q.pc = "write" /\ q.op = "register")
IsSubmission(q) == q.pc \in {"active", "mode", "insert"}
Carries(q) ==
  /\ IsUpdate(q) => /\ q.start \in Times /\ q.end \in Times /\ q.freeze \in Times \union {NoTime}
                    /\ q.password \in Passwords /\ q.problems \in SUBSET Problems
                    /\ q.public \in BOOLEAN
  /\ IsRegistration(q) \/ IsSubmission(q) \/ q.pc \in {"star", "upsert"} => q.user \in Users
  /\ IsSubmission(q) =>
       q = [pc |-> q.pc, op |-> q.op, user |-> q.user, problem |-> q.problem]
Requests == /\ req = [h \in Handlers |-> req[h]]
            /\ \A h \in Handlers : Carries(req[h])

(* A request that will verify a registration is of one who has entered.    *)
Verifying == \A h \in Handlers :
  IsRegistration(req[h]) /\ req[h].verified => req[h].user \in entered

(* A request to submit that has passed the gate is of one who is           *)
(* registered: registrations only go with the contest, which then is gone. *)
Submitting == \A h \in Handlers :
  contest.on /\ IsSubmission(req[h]) =>
    req[h].user \in Admins \/ reg[req[h].user] # "none"

Inv == /\ TypeOK /\ Requests
       /\ Verifying /\ VerifiedByPassword
       /\ Submitting /\ SubmitterRegistered

-----------------------------------------------------------------------------
(* Init: no contest, nobody registered, no request begun.                  *)
LEMMA InvInit == Init => Inv
<1> SUFFICES ASSUME Init PROVE Inv
  OBVIOUS
<1>1. TypeOK
  BY GateAssumption DEF Init, TypeOK, NoContest, Times, Passwords
<1>2. req = [h \in Handlers |-> req[h]] /\ \A h \in Handlers : req[h] = [pc |-> "new"]
  BY DEF Init
<1>3. Requests /\ Verifying /\ Submitting
  BY <1>2 DEF Requests, Carries, Verifying, Submitting, IsUpdate, IsRegistration, IsSubmission
<1> QED BY <1>1, <1>3 DEF Init, Inv, VerifiedByPassword, SubmitterRegistered

(* A request goes on with what it carries; the others stay.                *)
LEMMA GoesOn ==
  ASSUME Inv, NEW h \in Handlers, NEW q, req' = [req EXCEPT ![h] = q], Carries(q),
         UNCHANGED <<contest, reg, subs>>, now' \in Times,
         entered \subseteq entered', entered' \subseteq Users,
         IsRegistration(q) /\ q.verified => q.user \in entered',
         contest.on /\ IsSubmission(q) => q.user \in Admins \/ reg[q.user] # "none"
  PROVE  Inv'
<1>1. req' = [x \in Handlers |-> req'[x]] /\ \A x \in Handlers : req'[x] = IF x = h THEN q ELSE req[x]
  BY DEF Inv, Requests
<1>2. TypeOK'
  BY DEF Inv, TypeOK
<1>3. Requests'
  BY <1>1 DEF Inv, Requests
<1>4. Verifying'
  BY <1>1 DEF Inv, Verifying
<1>5. Submitting'
  BY <1>1 DEF Inv, Submitting
<1>6. VerifiedByPassword' /\ SubmitterRegistered'
  BY DEF Inv, VerifiedByPassword, SubmitterRegistered
<1> QED BY <1>2, <1>3, <1>4, <1>5, <1>6 DEF Inv

(* A request that ends carries nothing.                                    *)
LEMMA Ends ==
  ASSUME NEW pc \in {"ok", "refused"}
  PROVE  /\ Carries([pc |-> pc]) /\ ~IsRegistration([pc |-> pc]) /\ ~IsSubmission([pc |-> pc])
BY DEF Carries, IsUpdate, IsRegistration, IsSubmission

(* A request that ends and changes nothing disturbs nothing.               *)
LEMMA DoneOrRefused ==
  ASSUME Inv, NEW h \in Handlers, Done(h) \/ Refuse(h),
         UNCHANGED <<contest, reg, subs, now, entered>>
  PROVE  Inv'
<1>1. PICK pc \in {"ok", "refused"} : req' = [req EXCEPT ![h] = [pc |-> pc]]
  BY DEF Done, Refuse
<1>2. now' \in Times /\ entered' \subseteq Users
  BY DEF Inv, TypeOK
<1> QED BY <1>1, <1>2, Ends, GoesOn

-----------------------------------------------------------------------------
(* The contest is created, updated and deleted. An update writes what it   *)
(* has been given or has read; what goes with the contest goes at once.    *)
LEMMA CreateStep ==
  ASSUME Inv, NEW s \in Times, NEW e \in Times, NEW f \in Times \union {NoTime},
         NEW password \in Passwords, NEW problems \in SUBSET Problems, NEW public \in BOOLEAN,
         CreateAdmin(s, e, f, password, problems, public)
  PROVE  Inv'
<1>1. TypeOK'
  BY DEF Inv, TypeOK, CreateAdmin
<1>2. \A h \in Handlers : req'[h].pc = "new"
  BY DEF CreateAdmin
<1>3. Requests' /\ Verifying' /\ Submitting'
  BY <1>2 DEF Inv, CreateAdmin, Requests, Verifying, Submitting, IsRegistration, IsSubmission
<1> QED BY <1>1, <1>3 DEF Inv, CreateAdmin, VerifiedByPassword, SubmitterRegistered

(* The window that is checked is that of the request and of the row read.  *)
LEMMA ReadUpdateStep ==
  ASSUME Inv, NEW h \in Handlers, NEW given, NEW s \in Times, NEW e \in Times,
         NEW f \in Times \union {NoTime}, NEW password \in Passwords,
         NEW problems \in SUBSET Problems, NEW public \in BOOLEAN,
         ReadUpdate(h, given, s, e, f, password, problems, public)
  PROVE  Inv'
<1> DEFINE s1 == IF "start" \in given THEN s ELSE contest.start
           e1 == IF "end" \in given THEN e ELSE contest.end
           f1 == IF "freeze" \in given THEN f ELSE contest.freeze
           q == [pc |-> "write", op |-> "update", given |-> given, start |-> s1, end |-> e1,
                 freeze |-> f1, password |-> password, problems |-> problems, public |-> public]
<1>1. s1 \in Times /\ e1 \in Times /\ f1 \in Times \union {NoTime}
  BY DEF Inv, TypeOK
<1>2. Carries(q) /\ ~IsRegistration(q) /\ ~IsSubmission(q)
  <2> HIDE DEF s1, e1, f1
  <2> QED BY <1>1 DEF Carries, IsUpdate, IsRegistration, IsSubmission
<1>3. /\ UNCHANGED <<contest, reg, now, subs, entered>>
      /\ req' = [req EXCEPT ![h] = q] \/ req' = [req EXCEPT ![h] = [pc |-> "refused"]]
  BY DEF ReadUpdate, Start
<1>4. now' \in Times /\ entered' \subseteq Users
  BY <1>3 DEF Inv, TypeOK
<1>5. CASE req' = [req EXCEPT ![h] = q]
  <2> HIDE DEF q
  <2> QED BY <1>2, <1>3, <1>4, <1>5, GoesOn
<1>6. CASE req' = [req EXCEPT ![h] = [pc |-> "refused"]]
  BY <1>3, <1>6, DoneOrRefused DEF Refuse
<1> QED BY <1>3, <1>5, <1>6

(* Whatever an update writes, the contest stays one, is there as before,   *)
(* and no registration is touched.                                         *)
LEMMA WriteUpdateStep ==
  ASSUME Inv, NEW h \in Handlers, WriteUpdate(h)
  PROVE  Inv'
<1> DEFINE q == req[h]
           New(field, name, value) == IF name \in q.given THEN value ELSE field
           s1 == New(contest.start, "start", q.start)
           e1 == New(contest.end, "end", q.end)
           f1 == New(contest.freeze, "freeze", q.freeze)
           w1 == New(contest.password, "password", q.password)
           p1 == New(contest.problems, "problems", q.problems)
           v1 == New(contest.public, "visibility", q.public)
           c == [contest EXCEPT !.start = s1, !.end = e1, !.freeze = f1, !.password = w1,
                                !.problems = p1, !.public = v1]
<1>1. CASE ~contest.on /\ Refuse(h) /\ UNCHANGED contest
  BY <1>1, DoneOrRefused DEF WriteUpdate
<1>2. CASE contest.on /\ contest' = c /\ Done(h)
  <2>1. /\ q.start \in Times /\ q.end \in Times /\ q.freeze \in Times \union {NoTime}
        /\ q.password \in Passwords /\ q.problems \in SUBSET Problems /\ q.public \in BOOLEAN
    BY DEF WriteUpdate, Updating, Inv, Requests, Carries, IsUpdate
  <2>2. c \in [on : BOOLEAN, start : Times, end : Times, freeze : Times \union {NoTime},
               password : Passwords, problems : SUBSET Problems, public : BOOLEAN]
        /\ c.on
    <3>1. /\ s1 \in Times /\ e1 \in Times /\ f1 \in Times \union {NoTime}
          /\ w1 \in Passwords /\ p1 \in SUBSET Problems /\ v1 \in BOOLEAN
      <4> HIDE DEF q
      <4> QED BY <2>1 DEF Inv, TypeOK
    <3> HIDE DEF s1, e1, f1, w1, p1, v1
    <3> QED BY <1>2, <3>1 DEF Inv, TypeOK
  <2>3. UNCHANGED <<reg, now, subs, entered>> /\ contest'.on
    BY <1>2, <2>2 DEF WriteUpdate
  <2>4. TypeOK'
    BY <1>2, <2>2, <2>3 DEF Inv, TypeOK
  <2>5. \A x \in Handlers : req'[x] = IF x = h THEN [pc |-> "ok"] ELSE req[x]
    BY <1>2 DEF Done, Inv, Requests
  <2>6. req' = [x \in Handlers |-> req'[x]]
    BY <1>2 DEF Done, Inv, Requests
  <2>7. Requests' /\ Verifying' /\ Submitting'
    BY <1>2, <2>3, <2>5, <2>6, Ends DEF Inv, Requests, Verifying, Submitting
  <2> QED BY <2>3, <2>4, <2>7 DEF Inv, VerifiedByPassword, SubmitterRegistered
<1> QED BY <1>1, <1>2 DEF WriteUpdate

(* With the contest its registrations and submissions go, and it stays off.*)
LEMMA DeleteStep ==
  ASSUME Inv, NEW h \in Handlers, CountSubmissions(h) \/ DeleteContest(h)
  PROVE  Inv'
<1>1. CASE CountSubmissions(h)
  <2> DEFINE q == IF subs = {} THEN [pc |-> "write", op |-> "delete"] ELSE [pc |-> "refused"]
  <2>1. Carries(q) /\ ~IsRegistration(q) /\ ~IsSubmission(q)
    BY DEF Carries, IsUpdate, IsRegistration, IsSubmission
  <2>2. req' = [req EXCEPT ![h] = q] /\ UNCHANGED <<contest, reg, now, subs, entered>>
    BY <1>1 DEF CountSubmissions, Start
  <2>3. now' \in Times /\ entered' \subseteq Users
    BY <2>2 DEF Inv, TypeOK
  <2> HIDE DEF q
  <2> QED BY <2>1, <2>2, <2>3, GoesOn
<1>2. CASE DeleteContest(h)
  <2>1. ~contest'.on /\ TypeOK' /\ entered' = entered
    BY <1>2 DEF DeleteContest, Inv, TypeOK
  <2>2. \A x \in Handlers : req'[x] = IF x = h THEN [pc |-> "ok"] ELSE req[x]
    BY <1>2 DEF DeleteContest, Done, Inv, Requests
  <2>3. req' = [x \in Handlers |-> req'[x]]
    BY <1>2 DEF DeleteContest, Done, Inv, Requests
  <2>4. Requests' /\ Verifying' /\ Submitting'
    BY <2>1, <2>2, <2>3, Ends DEF Inv, Requests, Verifying, Submitting
  <2>5. VerifiedByPassword' /\ SubmitterRegistered'
    BY <1>2 DEF DeleteContest, VerifiedByPassword, SubmitterRegistered
  <2> QED BY <2>1, <2>4, <2>5 DEF Inv
<1> QED BY <1>1, <1>2

-----------------------------------------------------------------------------
(* Registrations. What a request verifies was decided when the contest was *)
(* read; the ghost took note of it then.                                   *)
LEMMA RegisterStep ==
  ASSUME Inv, NEW h \in Handlers, NEW u \in Users,
         Register(h, u) \/ UpdateRegistration(h, u)
  PROVE  Inv'
<1>1. CASE Register(h, u)
  <2> DEFINE q == [pc |-> "find", op |-> "register", user |-> u, verified |-> ~NeedsPassword]
  <2>1. Carries(q) /\ ~IsSubmission(q)
    BY DEF Carries, IsUpdate, IsRegistration, IsSubmission
  <2>2. q.verified = ~NeedsPassword /\ q.user = u
    OBVIOUS
  <2>3. req' = [req EXCEPT ![h] = q] /\ UNCHANGED <<contest, reg, now, subs>>
    BY <1>1 DEF Register, Start
  <2>4. /\ now' \in Times /\ entered \subseteq entered' /\ entered' \subseteq Users
        /\ ~NeedsPassword => u \in entered'
    BY <1>1, <2>3 DEF Register, Inv, TypeOK
  <2> HIDE DEF q
  <2> QED BY <2>1, <2>2, <2>3, <2>4, GoesOn
<1>2. CASE UpdateRegistration(h, u)
  <2>1. PICK pc \in {"star", "upsert"} : req' = [req EXCEPT ![h] = [pc |-> pc, op |-> "star", user |-> u]]
    BY <1>2 DEF UpdateRegistration, Start
  <2> DEFINE q == [pc |-> pc, op |-> "star", user |-> u]
  <2>2. Carries(q) /\ ~IsRegistration(q) /\ ~IsSubmission(q)
    BY DEF Carries, IsUpdate, IsRegistration, IsSubmission
  <2>3. UNCHANGED <<contest, reg, now, subs, entered>>
    BY <1>2 DEF UpdateRegistration
  <2>4. now' \in Times /\ entered' \subseteq Users
    BY <2>3 DEF Inv, TypeOK
  <2> HIDE DEF q
  <2>5. req' = [req EXCEPT ![h] = q]
    BY <2>1 DEF q
  <2> QED BY <2>2, <2>3, <2>4, <2>5, GoesOn
<1> QED BY <1>1, <1>2

(* A password that fits is taken note of before the registration is looked *)
(* for; one that does not, or is not needed, changes nothing.              *)
LEMMA PasswordStep ==
  ASSUME Inv, NEW h \in Handlers, NEW u \in Users, NEW password, VerifyPassword(h, u, password)
  PROVE  Inv'
<1> DEFINE q == [pc |-> "find", op |-> "verify", user |-> u, verified |-> TRUE]
<1>1. UNCHANGED <<contest, reg, now, subs>> /\ now' \in Times
  BY DEF VerifyPassword, Inv, TypeOK
<1>2. \/ entered' = entered /\ (Done(h) \/ Refuse(h))
      \/ entered' = entered \union {u} /\ req' = [req EXCEPT ![h] = q]
  BY DEF VerifyPassword, Start, Done, Refuse
<1>3. CASE entered' = entered /\ (Done(h) \/ Refuse(h))
  BY <1>1, <1>3, DoneOrRefused
<1>4. CASE entered' = entered \union {u} /\ req' = [req EXCEPT ![h] = q]
  <2>1. Carries(q) /\ ~IsSubmission(q) /\ q.user = u
    BY DEF Carries, IsUpdate, IsRegistration, IsSubmission
  <2>2. entered' \subseteq Users
    BY <1>4 DEF Inv, TypeOK
  <2> HIDE DEF q
  <2> QED BY <1>1, <1>4, <2>1, <2>2, GoesOn
<1> QED BY <1>2, <1>3, <1>4

(* The ways of an administrator lead through the same search.              *)
LEMMA UpsertStep ==
  ASSUME Inv, NEW h \in Handlers, SetStar(h) \/ UpsertRegistration(h) \/ FindRegistration(h)
  PROVE  Inv'
<1>0. now \in Times /\ entered \subseteq Users
  BY DEF Inv, TypeOK
<1>1. CASE SetStar(h)
  BY <1>1, DoneOrRefused DEF SetStar
<1>2. CASE UpsertRegistration(h)
  <2>1. CASE ~Found /\ Refuse(h) /\ UNCHANGED entered
    BY <1>2, <2>1, DoneOrRefused DEF UpsertRegistration
  <2>2. CASE ~(~Found /\ Refuse(h) /\ UNCHANGED entered)
    <3> DEFINE q == [pc |-> "find", op |-> "register", user |-> req[h].user,
                     verified |-> ~NeedsPassword]
    <3>1. req[h].user \in Users
      BY <1>2 DEF UpsertRegistration, Inv, Requests, Carries
    <3>2. /\ Carries(q) /\ ~IsSubmission(q)
          /\ q.verified = ~NeedsPassword /\ q.user = req[h].user
      BY <3>1 DEF Carries, IsUpdate, IsRegistration, IsSubmission
    <3>3. /\ req' = [req EXCEPT ![h] = q] /\ UNCHANGED <<contest, reg, now, subs>>
          /\ entered' = IF NeedsPassword THEN entered ELSE entered \union {req[h].user}
      BY <1>2, <2>2 DEF UpsertRegistration
    <3>4. entered \subseteq entered' /\ entered' \subseteq Users /\ (~NeedsPassword => q.user \in entered')
      BY <1>0, <3>1, <3>2, <3>3
    <3> HIDE DEF q
    <3> QED BY <1>0, <3>2, <3>3, <3>4, GoesOn
  <2> QED BY <2>1, <2>2
<1>3. CASE FindRegistration(h)
  <2> DEFINE q == [pc |-> "write", op |-> "register", user |-> req[h].user,
                   verified |-> req[h].verified, exists |-> reg[req[h].user] # "none"]
  <2>1. IsRegistration(req[h]) /\ req[h].user \in Users
    BY <1>3 DEF FindRegistration, Inv, Requests, Carries, IsRegistration
  <2>2. /\ Carries(q) /\ ~IsSubmission(q)
        /\ q.verified = req[h].verified /\ q.user = req[h].user
    BY <2>1 DEF Carries, IsUpdate, IsRegistration, IsSubmission
  <2>3. req' = [req EXCEPT ![h] = q] /\ UNCHANGED <<contest, reg, now, subs, entered>>
    BY <1>3 DEF FindRegistration
  <2>4. q.verified => q.user \in entered'
    BY <2>1, <2>2, <2>3 DEF Inv, Verifying
  <2> HIDE DEF q
  <2> QED BY <1>0, <2>2, <2>3, <2>4, GoesOn
<1> QED BY <1>1, <1>2, <1>3

(* The row that is written says what the request carries.                  *)
LEMMA WriteRegistrationStep ==
  ASSUME Inv, NEW h \in Handlers, WriteRegistration(h)
  PROVE  Inv'
<1> DEFINE u == req[h].user
<1>1. UNCHANGED <<contest, now, subs, entered>> /\ IsRegistration(req[h]) /\ u \in Users
  BY DEF WriteRegistration, Inv, Requests, Carries, IsRegistration
<1>2. CASE Refuse(h) /\ UNCHANGED reg
  BY <1>1, <1>2, DoneOrRefused
<1>3. CASE Done(h) /\ reg' = [reg EXCEPT ![u] = Registered(req[h].verified)]
  <2>1. /\ reg'[u] \in {"verified", "unverified"} /\ (reg'[u] = "verified" => req[h].verified)
        /\ \A v \in Users \ {u} : reg'[v] = reg[v]
        /\ reg' \in [Users -> {"none", "unverified", "verified"}]
    BY <1>1, <1>3 DEF Registered, Inv, TypeOK
  <2>2. \A v \in Users : reg[v] # "none" => reg'[v] # "none"
    BY <2>1
  <2>3. \A x \in Handlers : req'[x] = IF x = h THEN [pc |-> "ok"] ELSE req[x]
    BY <1>3 DEF Done, Inv, Requests
  <2>4. req' = [x \in Handlers |-> req'[x]]
    BY <1>3 DEF Done, Inv, Requests
  <2>5. Requests' /\ Verifying'
    BY <1>1, <2>3, <2>4, Ends DEF Inv, Requests, Verifying
  <2>6. Submitting'
    <3> SUFFICES ASSUME NEW x \in Handlers, contest.on, IsSubmission(req'[x])
                 PROVE  req'[x].user \in Admins \/ reg'[req'[x].user] # "none"
      BY <1>1 DEF Submitting
    <3>1. x # h /\ req'[x] = req[x]
      BY <2>3, Ends
    <3>2. req[x].user \in Users
      BY <3>1 DEF Inv, Requests, Carries
    <3> QED BY <2>2, <3>1, <3>2 DEF Inv, Submitting
  <2>7. VerifiedByPassword'
    <3>1. req[h].verified => u \in entered
      BY <1>1 DEF Inv, Verifying
    <3> QED BY <1>1, <2>1, <3>1 DEF Inv, VerifiedByPassword
  <2>8. SubmitterRegistered'
    BY <1>1, <2>2 DEF Inv, TypeOK, SubmitterRegistered
  <2>9. TypeOK'
    BY <1>1, <2>1 DEF Inv, TypeOK
  <2> QED BY <2>5, <2>6, <2>7, <2>8, <2>9 DEF Inv
<1> QED BY <1>2, <1>3 DEF WriteRegistration

-----------------------------------------------------------------------------
(* A submission: what the gate has seen is still so at the insert.         *)
LEMMA SubmitStep ==
  ASSUME Inv, NEW h \in Handlers, NEW u \in Users, NEW p, Submit(h, u, p)
  PROVE  Inv'
<1> DEFINE q == [pc |-> "active", op |-> "submit", user |-> u, problem |-> p]
<1>1. UNCHANGED <<contest, reg, now, subs, entered>> /\ now' \in Times /\ entered' \subseteq Users
  BY DEF Submit, Inv, TypeOK
<1>2. CASE Refuse(h)
  BY <1>1, <1>2, DoneOrRefused
<1>3. CASE SubmitAccess(u) /\ req' = [req EXCEPT ![h] = q]
  <2>1. Carries(q) /\ ~IsRegistration(q) /\ q.user = u
    BY DEF Carries, IsUpdate, IsRegistration, IsSubmission
  <2>2. u \in Admins \/ reg[u] # "none"
    BY <1>3 DEF SubmitAccess
  <2> HIDE DEF q
  <2> QED BY <1>1, <1>3, <2>1, <2>2, GoesOn
<1> QED BY <1>2, <1>3 DEF Submit, Start, Refuse

(* Checks of the window and the mode leave the request what it carried.    *)
LEMMA CheckStep ==
  ASSUME Inv, NEW h \in Handlers, CheckActive(h) \/ CheckMode(h)
  PROVE  Inv'
<1>1. UNCHANGED <<contest, reg, now, subs, entered>> /\ now' \in Times /\ entered' \subseteq Users
  BY DEF CheckActive, CheckMode, Inv, TypeOK
<1>2. CASE Refuse(h)
  BY <1>1, <1>2, DoneOrRefused
<1>3. CASE ~Refuse(h)
  <2>1. PICK pc \in {"mode", "insert"} : req' = [req EXCEPT ![h].pc = pc]
    BY <1>3 DEF CheckActive, CheckMode
  <2> DEFINE q == [req[h] EXCEPT !.pc = pc]
  <2>2. IsSubmission(req[h])
    BY DEF CheckActive, CheckMode, IsSubmission
  <2>3. /\ req[h] = [pc |-> req[h].pc, op |-> req[h].op, user |-> req[h].user,
                     problem |-> req[h].problem]
        /\ req[h].user \in Users
    BY <2>2 DEF Inv, Requests, Carries
  <2>4. q = [pc |-> pc, op |-> req[h].op, user |-> req[h].user, problem |-> req[h].problem]
    BY <2>3
  <2>5. Carries(q) /\ ~IsRegistration(q) /\ q.user = req[h].user
    <3> HIDE DEF q
    <3> QED BY <2>3, <2>4 DEF Carries, IsUpdate, IsRegistration, IsSubmission
  <2>6. contest.on => q.user \in Admins \/ reg[q.user] # "none"
    BY <2>2, <2>5 DEF Inv, Submitting
  <2>7. req' = [req EXCEPT ![h] = q]
    BY <2>1
  <2> HIDE DEF q
  <2> QED BY <1>1, <2>5, <2>6, <2>7, GoesOn
<1> QED BY <1>2, <1>3

(* While the contest is there, so is the registration that was seen.       *)
LEMMA InsertStep ==
  ASSUME Inv, NEW h \in Handlers, InsertSubmission(h)
  PROVE  Inv'
<1>1. UNCHANGED <<contest, reg, now, entered>>
  BY DEF InsertSubmission
<1>2. CASE ~contest.on /\ Refuse(h) /\ UNCHANGED subs
  BY <1>1, <1>2, DoneOrRefused
<1>3. CASE contest.on /\ Done(h) /\ subs' = subs \union {req[h].user}
  <2>1. /\ req[h].user \in Users
        /\ req[h].user \in Admins \/ reg[req[h].user] # "none"
    BY <1>3 DEF InsertSubmission, Inv, Requests, Carries, Submitting, IsSubmission
  <2>2. /\ req' = [x \in Handlers |-> req'[x]]
        /\ \A x \in Handlers : req'[x] = IF x = h THEN [pc |-> "ok"] ELSE req[x]
    BY <1>3 DEF Done, Inv, Requests
  <2>3. Requests' /\ Verifying' /\ Submitting'
    BY <1>1, <2>2, Ends DEF Inv, Requests, Verifying, Submitting
  <2>4. TypeOK'
    BY <1>1, <1>3, <2>1 DEF Inv, TypeOK
  <2>5. VerifiedByPassword' /\ SubmitterRegistered'
    BY <1>1, <1>3, <2>1 DEF Inv, VerifiedByPassword, SubmitterRegistered
  <2> QED BY <2>3, <2>4, <2>5 DEF Inv
<1> QED BY <1>2, <1>3 DEF InsertSubmission

-----------------------------------------------------------------------------
(* Inv is inductive.                                                       *)
LEMMA Inductive == Inv /\ [Next]_vars => Inv'
<1> SUFFICES ASSUME Inv, [Next]_vars PROVE Inv'
  OBVIOUS
<1>1. CASE Tick
  <2>1. now' \in Times /\ UNCHANGED <<contest, reg, req, subs, entered>>
    BY <1>1, GateAssumption DEF Tick, Inv, TypeOK, Times
  <2> QED BY <2>1 DEF Inv, TypeOK, Requests, Verifying, VerifiedByPassword, Submitting,
                      SubmitterRegistered
<1>2. CASE AdminNext
  <2>1. ASSUME NEW h \in Handlers, UpdateAny(h) PROVE Inv'
    <3>1. 0 \in Times /\ 0 \in Passwords
      BY GateAssumption DEF Times, Passwords
    <3> QED BY <2>1, <3>1, ReadUpdateStep DEF UpdateAny
  <2> QED BY <1>2, <2>1, CreateStep, WriteUpdateStep, DeleteStep, RegisterStep DEF AdminNext
<1>3. CASE UserNext
  <2>1. PICK u \in Users, h \in Handlers :
          \/ Register(h, u)
          \/ \E password \in Passwords : VerifyPassword(h, u, password)
          \/ \E p \in Problems : Submit(h, u, p)
    BY <1>3 DEF UserNext, UserRoute
  <2> QED BY <2>1, RegisterStep, PasswordStep, SubmitStep
<1>4. ASSUME NEW h \in Handlers,
             \/ SetStar(h) \/ UpsertRegistration(h) \/ FindRegistration(h) \/ WriteRegistration(h)
             \/ CheckActive(h) \/ CheckMode(h) \/ InsertSubmission(h)
      PROVE  Inv'
  BY <1>4, UpsertStep, WriteRegistrationStep, CheckStep, InsertStep
<1>5. CASE UNCHANGED vars
  BY <1>5 DEF vars, Inv, TypeOK, Requests, Verifying, VerifiedByPassword, Submitting,
              SubmitterRegistered
<1> QED BY <1>1, <1>2, <1>3, <1>4, <1>5 DEF Next

(* Who has submitted in the contest is registered for it or administers    *)
(* it, however deletions, registrations and submissions interleave.        *)
THEOREM SubmittersAreRegistered == Spec => []SubmitterRegistered
<1>1. Inv => SubmitterRegistered
  BY DEF Inv
<1> QED BY <1>1, InvInit, Inductive, PTL DEF Spec

(* Nobody is verified who has not given a password of the contest, or      *)
(* registered when none was needed.                                        *)
THEOREM VerifiedHaveEntered == Spec => []VerifiedByPassword
<1>1. Inv => VerifiedByPassword
  BY DEF Inv
<1> QED BY <1>1, InvInit, Inductive, PTL DEF Spec

(* The two functions that lock problems lock the same ones: the list of    *)
(* problems and the page of a problem agree for everybody but the staff.   *)
THEOREM ListsAgree == Spec => []ListAgrees
<1>1. ListAgrees
  BY GateAssumption DEF ListAgrees, ListProblems, CanView, IsStaff, LockedIds, Locked
<1> QED BY <1>1, PTL

(* Whoever may submit is shown everything it takes: the rules of the gate  *)
(* to submissions imply those of the page, of each problem, of the editor  *)
(* and of the board, and with a password the page promises no more.        *)
LEMMA GateImpliesPage == Inv => SubmitterSees
<1> SUFFICES ASSUME Inv, NEW u \in Users
             PROVE  /\ ActiveForSubmit /\ SubmitAccess(u) =>
                         /\ ContestProblems(u) = contest.problems
                         /\ ContestPage(u).offers = contest.problems
                         /\ \A p \in contest.problems :
                              ProblemPage(p, u) # "notFound" /\ SubmitContext(p, u)
                         /\ BoardAccess(u) = "granted"
                         /\ \A row \in ContestsPage : row[1] = "running"
                    /\ NeedsPassword /\ ContestPage(u).offers # {} => ActiveForSubmit /\ SubmitAccess(u)
                    /\ Found /\ ContestPage(u).asksPassword => reg[u] # "verified"
  BY DEF SubmitterSees
<1>1. /\ u # Anyone /\ now \in Nat /\ contest.start \in Nat /\ contest.end \in Nat
      /\ contest.on \in BOOLEAN /\ contest.problems \in SUBSET Problems
  BY GateAssumption DEF Inv, TypeOK, Times
<1>2. ASSUME ActiveForSubmit, SubmitAccess(u)
      PROVE  /\ EntryAccess(u)
             /\ \A p \in contest.problems : CanView(p, u, TRUE)
             /\ ContestProblems(u) = contest.problems
             /\ Status = "running" /\ Found
  <2>1. contest.on /\ contest.start <= now /\ now <= contest.end
    BY <1>2 DEF ActiveForSubmit
  <2>2. EntryAccess(u) /\ ContestAccess(u)
    BY <1>1, <1>2, <2>1 DEF SubmitAccess, EntryAccess, ContestAccess, Preview
  <2>3. \A p \in contest.problems : CanView(p, u, TRUE)
    BY <2>1, <2>2 DEF CanView
  <2>4. ContestProblems(u) = contest.problems
    BY <2>2, <2>3 DEF ContestProblems
  <2>5. Status = "running"
    <3>1. ~(now < contest.start) /\ ~(now > contest.end)
      BY <1>1, <2>1
    <3> QED BY <3>1 DEF Status
  <2> QED BY <2>1, <2>2, <2>3, <2>4, <2>5 DEF Found
<1>3. ASSUME ActiveForSubmit, SubmitAccess(u)
      PROVE  /\ ContestProblems(u) = contest.problems
             /\ ContestPage(u).offers = contest.problems
             /\ \A p \in contest.problems :
                  ProblemPage(p, u) # "notFound" /\ SubmitContext(p, u)
             /\ BoardAccess(u) = "granted"
             /\ \A row \in ContestsPage : row[1] = "running"
  <2>1. ContestPage(u).offers = contest.problems
    BY <1>2, <1>3 DEF ContestPage, Detail, ActiveForSubmit
  <2>2. \A p \in contest.problems : ProblemPage(p, u) # "notFound" /\ SubmitContext(p, u)
    BY <1>1, <1>2, <1>3 DEF ProblemPage, SubmitContext, UserRoute
  <2>3. \A row \in ContestsPage : row[1] = "running"
    BY <1>2, <1>3 DEF ContestsPage, List
  <2>4. BoardAccess(u) = "granted"
    BY <1>2, <1>3 DEF BoardAccess
  <2> QED BY <1>2, <1>3, <2>1, <2>2, <2>3, <2>4
<1>4. ASSUME NeedsPassword, ContestPage(u).offers # {}
      PROVE  ActiveForSubmit /\ SubmitAccess(u)
  <2>1. EntryAccess(u) /\ contest.start <= now /\ now <= contest.end
    BY <1>4 DEF ContestPage, Detail
  <2> QED BY <1>4, <2>1 DEF EntryAccess, ActiveForSubmit, SubmitAccess
<1>5. ASSUME Found, ContestPage(u).asksPassword
      PROVE  reg[u] # "verified"
  <2>1. ~EntryAccess(u) /\ ~(now < contest.start)
    BY <1>5 DEF ContestPage, Detail
  <2> QED BY <1>1, <1>5, <2>1 DEF EntryAccess, Preview, Found
<1> QED BY <1>3, <1>4, <1>5

(* Those who decide who sees a problem agree with those who take           *)
(* submissions, at every moment of the contest.                            *)
THEOREM SubmittersSee == Spec => []SubmitterSees
BY InvInit, Inductive, GateImpliesPage, PTL DEF Spec
=============================================================================
