---------------------------- MODULE SimpleTTASLocker ----------------------------
(***************************************************************************)
(* SimpleTTASLocker.java: test-and-test-and-set on an AtomicBoolean.       *)
(***************************************************************************)
EXTENDS Locker

VARIABLE locked  (* AtomicBoolean locked *)

vars == <<lockerVars, locked>>

Init == LockerInit /\ locked = FALSE

(* lock: if (!locked.get()). A test that finds TRUE is repeated: nothing changes. *)
Test(t) ==
    /\ Goto(t, "lock", "cas")
    /\ ~locked
    /\ UNCHANGED <<driverVars, countVars, locked>>

(* lock: acquired = locked.compareAndSet(false, true) *)
SetAfterTest(t) ==
    /\ Goto(t, "cas", "read")
    /\ locked' = TRUE
    /\ UNCHANGED <<driverVars, countVars>>

CompareAndSet(t) ==
    /\ Goto(t, "cas", IF locked THEN "lock" ELSE "read")
    /\ locked' = TRUE
    /\ UNCHANGED <<driverVars, countVars>>

(* unlock: locked.set(false) *)
Unlock(t) ==
    /\ Goto(t, "unlock", "account")
    /\ locked' = FALSE
    /\ UNCHANGED <<driverVars, countVars>>

ThreadStep(t) ==
    \/ DriverStep(t) /\ UNCHANGED locked
    \/ Test(t) \/ CompareAndSet(t) \/ Unlock(t)

MainStep == (Join \/ Returned) /\ UNCHANGED locked

Next == MainStep \/ \E t \in Thread : ThreadStep(t)

Spec == Init /\ [][Next]_vars

---------------------------------------------------------------------------------

TypeOK ==
    /\ LockerTypeOK
    /\ pc \in [Thread -> {"new", "loop", "lock", "cas", "account", "done"} \cup Owning]
    /\ locked \in BOOLEAN
=================================================================================
