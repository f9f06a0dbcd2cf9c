------------------------------- MODULE MCAuth -------------------------------
(* Instances of Auth for TLC: two workers, one email, two passwords. *)
EXTENDS Auth, TLC

CONSTANTS w1, w2, e1, p1, p2

MCWorkers == {w1, w2}
MCEmails == {e1}
MCPasswords == {p1, p2}

Symmetry == Permutations(MCWorkers)
=============================================================================
