-------------------------- MODULE MCOrganisations --------------------------
(* Small instances of Organisations for TLC.                               *)
EXTENDS Organisations, TLC

Symmetry == Permutations(Handlers)
=============================================================================
