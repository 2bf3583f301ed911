---------------------------- MODULE LockoutProofs ----------------------------
(***************************************************************************)
(* What module Lockout guarantees for any number of concurrent logins and  *)
(* any limits with a lockout longer than the failure window.               *)
(***************************************************************************)
EXTENDS Lockout, FiniteSetTheorems, TLAPS

USE LimitsAssumption

-----------------------------------------------------------------------------
(* The logins in flight are counted. *)

\* The logins under way are some of the slots.
LEMMA InFlightIsFinite ==
    /\ Cardinality(Handlers) \in Nat
    /\ IsFiniteSet(InFlight)
    /\ Cardinality(InFlight) \in Nat
    /\ Cardinality(InFlight) <= Cardinality(Handlers)
    /\ InFlight = Handlers => Cardinality(InFlight) = Cardinality(Handlers)
    /\ InFlight # Handlers => Cardinality(InFlight) < Cardinality(Handlers)
<1>1. InFlight \subseteq Handlers
  BY DEF InFlight
<1> QED
  BY <1>1, FS_Subset, FS_CardinalityType

\* A login that ends leaves one fewer in flight.
LEMMA InFlightAfterReturn ==
    ASSUME TypeOK, NEW h \in Handlers, pc[h] # "idle", Goto(h, "idle")
    PROVE  Cardinality(InFlight') = Cardinality(InFlight) - 1
<1>1. h \in InFlight /\ InFlight' = InFlight \ {h}
  BY DEF InFlight, Goto, TypeOK
<1> QED
  BY <1>1, InFlightIsFinite, FS_RemoveElement

\* A step from call to call keeps the login in flight.
LEMMA InFlightAfterCall ==
    ASSUME TypeOK, NEW h \in Handlers, pc[h] # "idle", NEW call \in Calls,
           Goto(h, call)
    PROVE  Cardinality(InFlight') <= Cardinality(InFlight)
<1>1. CASE call = "idle"
  BY <1>1, InFlightAfterReturn, InFlightIsFinite
<1>2. CASE call # "idle"
  <2>1. InFlight' = InFlight
    BY <1>2 DEF InFlight, Goto, TypeOK
  <2> QED
    BY <2>1, InFlightIsFinite
<1> QED
  BY <1>1, <1>2

-----------------------------------------------------------------------------
(* The inductive invariant. *)

LEMMA InitInv == Init => Inv
<1> SUFFICES ASSUME Init PROVE Inv
  OBVIOUS
<1>1. TypeOK /\ LockHasCause /\ LockOutlastsWindow /\ ~IsLocked
  BY DEF Init, TypeOK, LockHasCause, LockOutlastsWindow, IsLocked, Calls
<1>2. GuessesAreBounded
  BY InFlightIsFinite DEF Init, GuessesAreBounded
<1> QED
  BY <1>1, <1>2 DEF Inv, LockedGuesses

\* The entry is removed: what is left holds of no failures.
LEMMA ClearedInv ==
    ASSUME TypeOK, NoEntry, pc' \in [Handlers -> Calls]
    PROVE  Inv'
<1>1. TypeOK' /\ LockHasCause' /\ LockOutlastsWindow' /\ LockedGuesses'
  BY DEF NoEntry, TypeOK, LockHasCause, LockOutlastsWindow, LockedGuesses, IsLocked
<1>2. GuessesAreBounded'
  BY InFlightIsFinite DEF NoEntry, GuessesAreBounded
<1> QED
  BY <1>1, <1>2 DEF Inv

LEMMA CheckLockInv ==
    ASSUME Inv, NEW h \in Handlers, CheckLock(h)
    PROVE  Inv'
<1> USE DEF CheckLock, Goto
<1>1. TypeOK'
  BY DEF Inv, TypeOK, Calls
<1>2. LockHasCause' /\ LockOutlastsWindow' /\ GuessesAreBounded'
  BY DEF Inv, LockHasCause, LockOutlastsWindow, GuessesAreBounded
<1>3. LockedGuesses'
  BY DEF LockedGuesses, IsLocked
<1> QED
  BY <1>1, <1>2, <1>3 DEF Inv

LEMMA VerifyInv ==
    ASSUME Inv, NEW h \in Handlers, Verify(h)
    PROVE  Inv'
<1>1. PICK call \in {"idle", "record_failure", "record_success"} : Goto(h, call)
  BY DEF Verify
<1>2. TypeOK'
  BY <1>1 DEF Inv, TypeOK, Calls, Verify, Goto
<1>3. LockHasCause' /\ LockOutlastsWindow' /\ GuessesAreBounded'
  BY DEF Inv, LockHasCause, LockOutlastsWindow, GuessesAreBounded, Verify
<1>4. Cardinality(InFlight') <= Cardinality(InFlight)
  BY <1>1, InFlightAfterCall DEF Verify, Inv, Calls
<1>5. Cardinality(InFlight') \in Nat
  <2>1. InFlight' \subseteq Handlers
    BY DEF InFlight
  <2> QED
    BY <2>1, FS_Subset, FS_CardinalityType
<1>6. LockedGuesses'
  BY <1>4, <1>5, InFlightIsFinite DEF LockedGuesses, IsLocked, Verify, Inv, TypeOK
<1> QED
  BY <1>2, <1>3, <1>6 DEF Inv

\* A failure either starts a window, or is one of at most MaxFailures of this
\* window, or comes from a login that was let in before the lock.
LEMMA RecordFailureInv ==
    ASSUME Inv, NEW h \in Handlers, RecordFailure(h)
    PROVE  Inv'
<1> DEFINE fresh == failures = 0 \/ Expired
           count == IF fresh THEN 1 ELSE failures + 1
<1>1. /\ failures' = count
      /\ age' = IF fresh THEN 0 ELSE age
      /\ lock' = IF Locks(count) THEN LockoutDuration
                 ELSE IF fresh THEN NULL ELSE lock
  BY DEF RecordFailure
<1>2. Goto(h, "idle") /\ pc[h] # "idle"
  BY DEF RecordFailure
<1>3. count \in Nat \ {0}
  BY DEF Inv, TypeOK
<1> HIDE DEF count, fresh
<1>4. age' \in 0..(FailureWindow + 1) /\ lock' \in 0..LockoutDuration \cup {NULL}
  BY <1>1 DEF Inv, TypeOK
<1>5. TypeOK'
  BY <1>1, <1>2, <1>3, <1>4 DEF Inv, TypeOK, Calls, Goto
<1>6. ~Locks(count) /\ ~fresh => lock = NULL
  BY <1>3 DEF Inv, TypeOK, LockHasCause, Locks, count
<1>7. LockHasCause'
  BY <1>1, <1>6 DEF LockHasCause, Locks
<1>8. LockOutlastsWindow'
  BY <1>1, <1>4 DEF LockOutlastsWindow, Locks
<1>9. /\ Cardinality(InFlight') = Cardinality(InFlight) - 1
      /\ Cardinality(InFlight) \in Nat \ {0}
      /\ Cardinality(InFlight) <= Cardinality(Handlers)
  <2>1. h \in InFlight
    BY <1>2 DEF InFlight
  <2> QED
    BY <1>2, <2>1, InFlightAfterReturn, InFlightIsFinite, FS_EmptySet DEF Inv
<1>10. count + Cardinality(InFlight') < MaxFailures + Cardinality(Handlers)
  <2>1. CASE fresh
    BY <2>1, <1>9, InFlightIsFinite DEF count
  <2>2. CASE ~fresh /\ IsLocked
    BY <2>2, <1>9, InFlightIsFinite DEF Inv, LockedGuesses, TypeOK, count
  <2>3. CASE ~fresh /\ ~IsLocked
    <3>1. failures < MaxFailures
      BY <2>3 DEF Inv, TypeOK, LockOutlastsWindow, IsLocked, Expired, fresh
    <3> QED
      BY <2>3, <3>1, <1>9, InFlightIsFinite DEF Inv, TypeOK, count
  <2> QED
    BY <2>1, <2>2, <2>3
<1>11. LockedGuesses'
  BY <1>1, <1>10 DEF LockedGuesses
<1>12. GuessesAreBounded'
  BY <1>1, <1>3, <1>9, <1>10, InFlightIsFinite DEF GuessesAreBounded
<1> QED
  BY <1>5, <1>7, <1>8, <1>11, <1>12 DEF Inv

LEMMA TickInv ==
    ASSUME Inv, Tick
    PROVE  Inv'
<1>1. TypeOK'
  BY DEF Inv, TypeOK, Tick, Expired
<1>2. LockHasCause'
  BY DEF Inv, TypeOK, LockHasCause, Tick
<1>3. LockOutlastsWindow'
  BY DEF Inv, TypeOK, LockOutlastsWindow, Tick, Expired
<1>4. InFlight' = InFlight
  BY DEF Tick, InFlight
<1>5. LockedGuesses' /\ GuessesAreBounded'
  BY <1>4 DEF Inv, TypeOK, LockedGuesses, GuessesAreBounded, IsLocked, Tick
<1> QED
  BY <1>1, <1>2, <1>3, <1>5 DEF Inv

LEMMA StepInv == Inv /\ [Next]_vars => Inv'
<1> SUFFICES ASSUME Inv, [Next]_vars PROVE Inv'
  OBVIOUS
<1>1. ASSUME NEW h \in Handlers, Login(h) PROVE Inv'
  <2>1. CASE RecordSuccess(h)
    BY <2>1, ClearedInv DEF RecordSuccess, Goto, Inv, TypeOK, Calls
  <2> QED
    BY <1>1, <2>1, CheckLockInv, VerifyInv, RecordFailureInv DEF Login
<1>2. CASE Restart
  BY <1>2, ClearedInv DEF Restart, Inv, Calls
<1>3. CASE UNCHANGED vars
  <2>1. InFlight' = InFlight
    BY <1>3 DEF vars, InFlight
  <2> QED
    BY <1>3, <2>1 DEF vars, Inv, TypeOK, LockHasCause, LockOutlastsWindow,
                      LockedGuesses, GuessesAreBounded, IsLocked
<1> QED
  BY <1>1, <1>2, <1>3, TickInv DEF Next

THEOREM LockoutInvariance == Spec => []Inv
  BY InitInv, StepInv, PTL DEF Spec

-----------------------------------------------------------------------------

THEOREM LockoutTypes == Spec => []TypeOK
<1>1. Inv => TypeOK
  BY DEF Inv
<1> QED
  BY <1>1, LockoutInvariance, PTL

\* However many logins pass the check together, the failures counted between two
\* clearings stay below MAX_FAILURES plus the number of slots.
THEOREM GuessesBounded == Spec => []GuessesAreBounded
<1>1. Inv => GuessesAreBounded
  BY DEF Inv
<1> QED
  BY <1>1, LockoutInvariance, PTL

\* When a lock has passed, the window of the failures that led to it has too.
THEOREM PassedLocksForget == Spec => []PassedLockForgets
<1>1. Inv => PassedLockForgets
  BY DEF Inv, TypeOK, LockOutlastsWindow, PassedLockForgets, IsLocked, Expired
<1> QED
  BY <1>1, LockoutInvariance, PTL
=============================================================================
