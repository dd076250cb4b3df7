---------------------------- MODULE SynchronizedLock ----------------------------
(***************************************************************************)
(* SynchronizedLock.java: a flag tested and set under the object's         *)
(* monitor. Both methods are `synchronized` and touch nothing outside the  *)
(* object, so each is one step. lock() returns -1 when the flag is set and *)
(* LockerThread.run calls it again.                                        *)
(***************************************************************************)
EXTENDS Locker

VARIABLE locked  (* the field locked *)

vars == <<lockerVars, locked>>

Init == LockerInit /\ locked = FALSE

(* lock(), the refusal: `return -1`; new_counter stays -1 and the loop repeats. *)
Refuse(t) ==
    /\ Goto(t, "lock", "lock")
    /\ locked
    /\ new_counter' = [new_counter EXCEPT ![t] = -1]
    /\ UNCHANGED <<driverVars, lock_granted, reg, locked>>

(* lock(), the grant: the counter is incremented inside the monitor. *)
GrantUnflagged(t) ==
    /\ Goto(t, "lock", "unlock")
    /\ ~locked
    /\ lock_granted' = lock_granted + 1
    /\ new_counter' = [new_counter EXCEPT ![t] = lock_granted + 1]
    /\ UNCHANGED <<driverVars, reg, locked>>

Grant(t) ==
    /\ Goto(t, "lock", "unlock")
    /\ ~locked
    /\ locked' = TRUE
    /\ lock_granted' = lock_granted + 1
    /\ new_counter' = [new_counter EXCEPT ![t] = lock_granted + 1]
    /\ UNCHANGED <<driverVars, reg>>

Unlock(t) ==
    /\ Goto(t, "unlock", "account")
    /\ locked' = FALSE
    /\ UNCHANGED <<driverVars, countVars>>

LockerStep(t) == (Start(t) \/ Loop(t) \/ Finish(t) \/ Account(t)) /\ UNCHANGED locked

ThreadStep(t) == LockerStep(t) \/ Refuse(t) \/ Grant(t) \/ Unlock(t)

MainStep == (Join \/ Returned) /\ UNCHANGED locked

Next == MainStep \/ \E t \in Thread : ThreadStep(t)

Spec == Init /\ [][Next]_vars

---------------------------------------------------------------------------------

TypeOK ==
    /\ LockerTypeOK
    /\ pc \in [Thread -> {"new", "loop", "lock", "unlock", "account", "done"}]
    /\ locked \in BOOLEAN
=================================================================================
