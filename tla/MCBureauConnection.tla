-------------------------- MODULE MCBureauConnection --------------------------
(* Instances of BureauConnection for TLC. *)
EXTENDS BureauConnection, TLC

CONSTANT u1

\* Every slot's requests come from one user: two slots are two overlapping requests.
OneUser == [r \in Reqs |-> u1]

MCSymmetry == Permutations(Reqs) \cup Permutations(Keys)
===============================================================================
