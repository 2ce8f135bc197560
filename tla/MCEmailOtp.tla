------------------------------ MODULE MCEmailOtp ------------------------------
(* Instances of EmailOtp for TLC. *)
EXTENDS EmailOtp, TLC

MCSymmetry == Permutations(Users) \cup Permutations(Reqs) \cup Permutations(Codes)
===============================================================================
