--------------------------- MODULE MCVerification ---------------------------
(* Small instances of Verification for TLC.                                *)
EXTENDS Verification, TLC

Symmetry == Permutations(Jobs) \cup Permutations(Channels)
=============================================================================
