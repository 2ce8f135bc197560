------------------------------ MODULE MCPasskeys ------------------------------
(* Instances of Passkeys for TLC. *)
EXTENDS Passkeys, TLC

MCSymmetry == Permutations(Reqs)
===============================================================================
