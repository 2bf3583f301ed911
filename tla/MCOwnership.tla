---------------------------- MODULE MCOwnership ----------------------------
(* Small instances of Ownership for TLC.                                   *)
EXTENDS Ownership, TLC

\* Requests that name one user or two.
TwoUsers == {<<n>> : n \in Names} \cup {<<m, n>> : m, n \in Names}

Symmetry == Permutations(Names) \cup Permutations(Handlers)
=============================================================================
