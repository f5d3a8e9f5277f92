------------------------------ MODULE MCEppLogin ------------------------------
(***************************************************************************)
(* Instance for TLC: two registrars, two threads of rifd, two passwords.   *)
(***************************************************************************)
EXTENDS EppLogin, TLC

CONSTANTS r1, r2, t1, t2, p1, p2

MCRegistrars == {r1, r2}
MCThreads == {t1, t2}
MCPasswords == {p1, p2}
MCLanguages == {0}

Symmetry ==
    Permutations(MCRegistrars) \cup Permutations(MCThreads) \cup Permutations(MCPasswords)
=============================================================================
