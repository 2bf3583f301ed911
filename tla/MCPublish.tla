----------------------------- MODULE MCPublish -----------------------------
(* Small instances of Publish for TLC: a value of Lower and a symmetry set. *)
EXTENDS Publish, TLC

\* Every name is spelt in lower case.
Plain == [s \in Spellings |-> s]

Symmetry == Permutations(Requests) \cup Permutations(Users \ Admins)
=============================================================================
