----------------------------- MODULE MCListing ------------------------------
(* Small instances of Listing for TLC: a value of Lower and a symmetry set. *)
EXTENDS Listing, TLC

\* One name has two spellings, every other name one.
TwoNames ==
    LET lower   == CHOOSE s \in Spellings : TRUE
        variant == CHOOSE s \in Spellings \ {lower} : TRUE
    IN  [s \in Spellings |-> IF s = variant THEN lower ELSE s]

Symmetry == Permutations(Users \ Admins)

\* The total of a search need not be the number of packages with versions, which it
\* is meant to be: a package that never had one counts, once the first one has ...
ASSUME Total({1, 2}, {[package_id |-> 1, id |-> 1]}) = 2

\* ... and a package with two versions does not, once package 1 is deleted.
ASSUME Total({2}, {[package_id |-> 2, id |-> 3], [package_id |-> 2, id |-> 4]}) = 0
=============================================================================
