------------------------------ MODULE MCLockout ------------------------------
(* The instance of Lockout for TLC: the code's limits, in minutes.         *)
EXTENDS Lockout

\* FAILURE_WINDOW and LOCKOUT_DURATION of rate_limit.rs.
TenMinutes     == 10
FifteenMinutes == 15
=============================================================================
