----------------------------- MODULE DelayTTASLocker ----------------------------
(***************************************************************************)
(* DelayTTASLocker.java: SimpleTTASLocker with an exponential back-off: a  *)
(* test that finds the lock taken counts a failure and sleeps for a random *)
(* multiple of WAIT_CONST below 2^fail - 1. How long a sleep lasts is left *)
(* open; that the bound handed to nextInt is positive is not.              *)
(***************************************************************************)
EXTENDS Locker

VARIABLES locked,  (* AtomicBoolean locked                               *)
          fail     (* the local variable fail of lock(), 0 outside of it *)

vars == <<lockerVars, locked, fail>>

Init ==
    /\ LockerInit
    /\ locked = FALSE
    /\ fail = [t \in Thread |-> 0]

(* (int) Math.pow(2, fail) - 1: the conversion saturates at the largest int. *)
IntMax == 2147483647
NextIntBound(n) == (IF n >= 31 THEN IntMax ELSE 2^n) - 1

(* lock: if (!locked.get()) *)
Test(t) ==
    /\ Goto(t, "lock", "cas")
    /\ ~locked
    /\ UNCHANGED <<driverVars, countVars, locked, fail>>

(* lock: else { fail++; Thread.sleep(WAIT_CONST * rand.nextInt(...)) }. Past
   MaxFail the counter stands still: only NextIntBound depends on it. *)
BackOff(t) ==
    /\ Goto(t, "lock", "sleep")
    /\ locked
    /\ fail' = [fail EXCEPT ![t] = IF @ < MaxFail THEN @ + 1 ELSE @]
    /\ UNCHANGED <<driverVars, countVars, locked>>

WakeUp(t) ==
    /\ Goto(t, "sleep", "lock")
    /\ UNCHANGED <<driverVars, countVars, locked, fail>>

(* lock: acquired = locked.compareAndSet(false, true); a failed one is not
   counted in fail, a successful one ends the loop. *)
CompareAndSet(t) ==
    /\ Goto(t, "cas", IF locked THEN "lock" ELSE "read")
    /\ locked' = TRUE
    /\ fail' = [fail EXCEPT ![t] = IF locked THEN @ ELSE 0]
    /\ UNCHANGED <<driverVars, countVars>>

(* unlock: locked.set(false) *)
UnlockNothing(t) ==
    /\ Goto(t, "unlock", "account")
    /\ UNCHANGED <<driverVars, countVars, locked, fail>>

Unlock(t) ==
    /\ Goto(t, "unlock", "account")
    /\ locked' = FALSE
    /\ UNCHANGED <<driverVars, countVars, fail>>

ThreadStep(t) ==
    \/ DriverStep(t) /\ UNCHANGED <<locked, fail>>
    \/ Test(t) \/ BackOff(t) \/ WakeUp(t) \/ CompareAndSet(t) \/ Unlock(t)

MainStep == (Join \/ Returned) /\ UNCHANGED <<locked, fail>>

Next == MainStep \/ \E t \in Thread : ThreadStep(t)

Spec == Init /\ [][Next]_vars

---------------------------------------------------------------------------------

TypeOK ==
    /\ LockerTypeOK
    /\ pc \in [Thread -> {"new", "loop", "lock", "cas", "sleep", "account", "done"}
                         \cup Owning]
    /\ locked \in BOOLEAN
    /\ fail \in [Thread -> 0..MaxFail]

(* Random.nextInt throws IllegalArgumentException for a bound that is not
   positive, and the exception would leave lock() without the lock. *)
SleepBoundPositive ==
    \A t \in Thread : pc[t] = "sleep" => NextIntBound(fail[t]) > 0
=================================================================================
