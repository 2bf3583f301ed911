------------------------------ MODULE Verdict ------------------------------
(***************************************************************************)
(* What CI verification promises of the versions of one package, without   *)
(* its tasks, counters and flags: a source version that some CI image      *)
(* applies to is pending until the pipelines have voted, public only by a  *)
(* unanimous vote, and rejected for good by the first vote against it.     *)
(***************************************************************************)
CONSTANTS Channels, Platforms

VARIABLES
    row,     \* the status of the version in each channel
    ballot   \* how each pipeline voted on it: "out" takes no part

vvars == <<row, ballot>>

Init ==
    /\ row    = [c \in Channels |-> "none"]
    /\ ballot = [c \in Channels |-> [p \in Platforms |-> "out"]]

\* The version is listed and the pipelines S are asked to vote.
Open(c, S) ==
    /\ row[c] = "none"
    /\ row' = [row EXCEPT ![c] = IF S = {} THEN "published" ELSE "pending"]
    /\ ballot' = [ballot EXCEPT ![c] =
                    [p \in Platforms |-> IF p \in S THEN "open" ELSE "out"]]

Cast(c, p, vote) ==
    /\ ballot[c][p] = "open"
    /\ ballot' = [ballot EXCEPT ![c][p] = vote]
    /\ UNCHANGED row

Accept(c) ==
    /\ row[c] = "pending"
    /\ \A p \in Platforms : ballot[c][p] \in {"out", "yes"}
    /\ row' = [row EXCEPT ![c] = "published"]
    /\ UNCHANGED ballot

Reject(c) ==
    /\ row[c] = "pending"
    /\ \E p \in Platforms : ballot[c][p] = "no"
    /\ row' = [row EXCEPT ![c] = "rejected"]
    /\ UNCHANGED ballot

\* The package is deleted, and its version with it.
Withdraw(c) ==
    /\ row[c] # "none"
    /\ row' = [row EXCEPT ![c] = "none"]
    /\ ballot' = [ballot EXCEPT ![c] = [p \in Platforms |-> "out"]]

Next ==
    \E c \in Channels :
        \/ \E S \in SUBSET Platforms : Open(c, S)
        \/ \E p \in Platforms, vote \in {"yes", "no"} : Cast(c, p, vote)
        \/ Accept(c)
        \/ Reject(c)
        \/ Withdraw(c)

Spec == Init /\ [][Next]_vvars
=============================================================================
