----------------------------- MODULE MCEncDriver -----------------------------
(***************************************************************************)
(* Instances of EncDriver for TLC.  The two users are interchangeable.      *)
(***************************************************************************)
EXTENDS EncDriver, TLC

MCSymmetry == Permutations(Users)

=============================================================================
