------------------------------ MODULE AbstractLock ------------------------------
(***************************************************************************)
(* What every subclass of Locker promises to LockerThread.run              *)
(* (Comp 409/Assignment 1/src/lock/Locker.java): a lock() that returns a   *)
(* number other than -1 has granted the lock to one thread, the number is  *)
(* "the total number of granted locks", and nobody else is granted the     *)
(* lock before that thread calls unlock().                                 *)
(***************************************************************************)
EXTENDS Naturals

CONSTANTS Thread,  (* the threads that request the lock *)
          Nobody   (* the holder of a free lock         *)

VARIABLES holder,  (* the thread that was granted the lock and has not released it *)
          granted  (* how many times the lock was granted                          *)

absVars == <<holder, granted>>

Init ==
    /\ holder = Nobody
    /\ granted = 0

Acquire(t) ==
    /\ holder = Nobody
    /\ holder' = t
    /\ granted' = granted + 1

Release(t) ==
    /\ holder = t
    /\ holder' = Nobody
    /\ UNCHANGED granted

Next == \E t \in Thread : Acquire(t) \/ Release(t)

Spec == Init /\ [][Next]_absVars
=================================================================================
