------------------------------ MODULE MCCampus ------------------------------
(* Campus for TLC: three requests that overlap, or an hour and a half that *)
(* passes around and between two of them, or submissions to two problems   *)
(* seen through a homework and a class.                                    *)
EXTENDS Campus

One == {CHOOSE p \in Problems : TRUE}
Overlaps == [requests |-> 3, problems |-> One, submissions |-> 1, horizon |-> 0]
Hours == [requests |-> 2, problems |-> One, submissions |-> 2, horizon |-> 3]
Progress == [requests |-> 2, problems |-> Problems, submissions |-> 3, horizon |-> 0]
OverlapsHoursOrProgress == {Overlaps, Hours, Progress}

Symmetry == Permutations(Handlers)
=============================================================================
