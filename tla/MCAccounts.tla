------------------------------ MODULE MCAccounts ------------------------------
(* Instances of Accounts for TLC. *)
EXTENDS Accounts, TLC

CONSTANTS e1, e2, s1, s2

\* Google changes the address of one subject, and gives it to another one.
Reassigned == {<<s1, e1>>, <<s1, e2>>, <<s2, e2>>}

MCSymmetry == Permutations(Reqs) \cup Permutations(Phones)
===============================================================================
