---------------------------- MODULE MCWebClient ----------------------------
(* WebClient for TLC: two tabs and their session, or one tab and its work. *)
EXTENDS WebClient, TLC

CONSTANTS t1, t2, alice, bob

TwoCallsAndOne == {<<t1, 1>>, <<t1, 2>>, <<t2, 1>>}

\* Two tabs that share a session while its token ages.
Sessions ==
  [users |-> Users, slots |-> {<<t1, 1>>, <<t2, 1>>},
   reach |-> [t \in Tabs |-> {"login", "users"}],
   changes |-> 0, errors |-> 0, ages |-> TRUE, deletes |-> FALSE]

\* One tab at its work in a page.
Work(p, calls, errs, aging) ==
  [users |-> {alice}, slots |-> {t1} \X (1 .. calls),
   reach |-> t1 :> {"login", p} @@ t2 :> {},
   changes |-> 1, errors |-> errs, ages |-> aging, deletes |-> FALSE]

\* A problem is created, and it or another one is saved.
CreateAndSave == [Work("problems", 2, 0, FALSE) EXCEPT !.changes = 2]

\* An account is deleted while it is used.
Deleted(p) == [Work(p, 2, 0, FALSE) EXCEPT !.deletes = TRUE]

SessionsOrWork ==
  {Sessions, CreateAndSave, Work("submission", 2, 0, TRUE), Work("users", 1, 1, TRUE)}
    \cup {Deleted("users")}
    \cup {Work(p, 2, 1, FALSE) : p \in {"problems", "users"}}
    \cup {Work(p, 2, 0, FALSE) : p \in Lists \cup
         {"contests", "testcases", "announcements", "submissions"}}
============================================================================
