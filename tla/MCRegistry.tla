----------------------------- MODULE MCRegistry -----------------------------
(* Small instances of Registry for TLC.                                    *)
EXTENDS Registry, TLC

\* Every name is spelt in lower case.
Plain == [s \in Spellings |-> s]

Symmetry == Permutations(Requests) \cup Permutations(Slots) \cup Permutations(Channels)
                \cup Permutations(Users \ (Admins \cup Moderators))
                \cup Permutations(Contents \ Infected)
=============================================================================
