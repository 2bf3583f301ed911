------------------------------- MODULE Lockout -------------------------------
(***************************************************************************)
(* The per-username login lockout: LoginLimiter in src/src/rate_limit.rs   *)
(* and the login handler that asks it and reports to it                    *)
(* (src/src/api/login.rs), for one username and concurrent logins.         *)
(*                                                                         *)
(* Each call of the limiter holds its mutex, so it is one action; a login  *)
(* makes two of them, with the database and the password hash in between.  *)
(* The code compares instants with now, so the model keeps what the        *)
(* comparisons see: the age of the failure window and the time a lock has  *)
(* left.                                                                   *)
(***************************************************************************)
EXTENDS Integers, FiniteSets

CONSTANTS
    Handlers,          \* slots for concurrent logins with this username
    MaxFailures,       \* MAX_FAILURES
    FailureWindow,     \* FAILURE_WINDOW, in ticks
    LockoutDuration,   \* LOCKOUT_DURATION, in ticks
    NULL

ASSUME LimitsAssumption ==
    /\ IsFiniteSet(Handlers)
    /\ MaxFailures \in Nat \ {0}
    /\ FailureWindow \in Nat
    /\ LockoutDuration \in Nat
    /\ LockoutDuration > FailureWindow
    /\ NULL \notin Nat

VARIABLES
    failures,  \* LoginState.failures, 0 without an entry in the map
    age,       \* now - window_start, not told apart once it exceeds the window
    lock,      \* locked_until - now, 0 once it has passed, NULL for None
    pc         \* per slot: the limiter call the login makes next

vars == <<failures, age, lock, pc>>

Calls == {"idle", "verify", "record_failure", "record_success"}

Goto(h, call) == pc' = [pc EXCEPT ![h] = call]

NoEntry == failures' = 0 /\ age' = 0 /\ lock' = NULL

-----------------------------------------------------------------------------

\* Mutant: a lock that has passed still counts.
IsLockedOnceSet == lock # NULL

IsLocked == lock # NULL /\ lock > 0

Expired == age > FailureWindow

\* Mutant: the login does not ask.
CheckLockNever(h) ==
    /\ pc[h] = "idle"
    /\ Goto(h, "verify")
    /\ UNCHANGED <<failures, age, lock>>

\* A locked username is answered 429 without a look at the password.
CheckLock(h) ==
    /\ pc[h] = "idle"
    /\ ~IsLocked
    /\ Goto(h, "verify")
    /\ UNCHANGED <<failures, age, lock>>

\* The user row and the password: an unknown user and a wrong second factor end
\* the login without a word to the limiter.
Verify(h) ==
    /\ pc[h] = "verify"
    /\ \E call \in {"idle", "record_failure", "record_success"} : Goto(h, call)
    /\ UNCHANGED <<failures, age, lock>>

\* Mutant: the lock comes one failure late.
LocksOneLate(count) == count > MaxFailures

Locks(count) == count >= MaxFailures

RecordFailure(h) ==
    /\ pc[h] = "record_failure"
    /\ LET fresh == failures = 0 \/ Expired
           count == IF fresh THEN 1 ELSE failures + 1
       IN  /\ failures' = count
           /\ age' = IF fresh THEN 0 ELSE age
           /\ lock' = IF Locks(count) THEN LockoutDuration
                      ELSE IF fresh THEN NULL ELSE lock
    /\ Goto(h, "idle")

\* The entry goes; the tokens the login then creates are no matter of the limiter.
RecordSuccess(h) ==
    /\ pc[h] = "record_success"
    /\ NoEntry
    /\ Goto(h, "idle")

\* The monotonic clock.
Tick ==
    /\ age' = IF failures # 0 /\ ~Expired THEN age + 1 ELSE age
    /\ lock' = IF lock \in Nat \ {0} THEN lock - 1 ELSE lock
    /\ UNCHANGED <<failures, pc>>

\* The map is in memory.
Restart ==
    /\ NoEntry
    /\ pc' = [h \in Handlers |-> "idle"]

-----------------------------------------------------------------------------

Init ==
    /\ failures = 0
    /\ age = 0
    /\ lock = NULL
    /\ pc = [h \in Handlers |-> "idle"]

Login(h) == CheckLock(h) \/ Verify(h) \/ RecordFailure(h) \/ RecordSuccess(h)

Next == (\E h \in Handlers : Login(h)) \/ Tick \/ Restart

Spec == Init /\ [][Next]_vars

\* Time passes.  Logins need neither come nor end.
FairSpec == Spec /\ WF_vars(Tick)

-----------------------------------------------------------------------------
(* Types. *)

\* The entry keeps its type, and without failures there is no lock.
TypeOK ==
    /\ failures \in Nat
    /\ age \in 0..(FailureWindow + 1)
    /\ lock \in 0..LockoutDuration \cup {NULL}
    /\ failures = 0 => lock = NULL
    /\ pc \in [Handlers -> Calls]

-----------------------------------------------------------------------------
(* Safety. *)

\* is_locked and record_failure are two calls, so logins that were let in before
\* the lock still count their failures after it: but between two clearings of
\* the counter fewer than MAX_FAILURES plus the number of slots get in.
GuessesAreBounded == failures < MaxFailures + Cardinality(Handlers)

\* Whoever waits until a lock has passed starts from nothing: the window the
\* failures were counted in is over too, whichever login recorded the last of
\* them, so the next failure does not lock again at once.
PassedLockForgets == failures >= MaxFailures /\ ~IsLocked => Expired

-----------------------------------------------------------------------------
(* The inductive strengthening the proofs use. *)

InFlight == {h \in Handlers : pc[h] # "idle"}

LockHasCause == lock # NULL => failures >= MaxFailures

\* A lock lasts longer than what is left of the window.
LockOutlastsWindow ==
    failures >= MaxFailures => lock # NULL /\ age + lock > FailureWindow

\* Under a lock only logins let in before can add failures.
LockedGuesses ==
    IsLocked =>
        failures + Cardinality(InFlight) < MaxFailures + Cardinality(Handlers)

Inv ==
    /\ TypeOK /\ LockHasCause /\ LockOutlastsWindow /\ LockedGuesses
    /\ GuessesAreBounded

-----------------------------------------------------------------------------
(* Liveness. *)

\* A locked username is let in again, although logins that were on their way may
\* renew the lock.
LockEnds == IsLocked ~> ~IsLocked

=============================================================================
