------------------------------ MODULE MCSessions ------------------------------
(* Instances of Sessions for TLC. *)
EXTENDS Sessions, TLC

CONSTANTS u1, u2, s1

\* The first session is of one user, the others of another.
TwoUsers == [s \in Sessions |-> IF s = s1 THEN u1 ELSE u2]

MCSymmetry == Permutations(Reqs) \cup Permutations(Tokens) \cup Permutations(Links)
===============================================================================
