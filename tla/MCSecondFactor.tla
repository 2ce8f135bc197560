---------------------------- MODULE MCSecondFactor ----------------------------
(* Instances of SecondFactor for TLC. *)
EXTENDS SecondFactor, TLC

MCSymmetry ==
  Permutations(Users) \cup Permutations(Reqs) \cup Permutations(Secrets) \cup Permutations(Codes)
===============================================================================
