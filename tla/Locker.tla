--------------------------------- MODULE Locker ---------------------------------
(***************************************************************************)
(* The abstract class Locker (Comp 409/Assignment 1/src/lock/Locker.java): *)
(* the field lock_granted that every subclass increments while it holds    *)
(* the lock, the benchmark thread LockerThread.run, and the main thread    *)
(* that starts the benchmark threads, joins them and returns the largest   *)
(* delay. The subclasses extend this module and add the steps of lock()    *)
(* and unlock(): from pc "lock" to pc "read" (the lock is taken, the       *)
(* counter is not incremented yet) and from pc "unlock" to pc "account".   *)
(***************************************************************************)
EXTENDS Integers, FiniteSets

CONSTANTS Thread,  (* the benchmark threads; their number is Locker.thread_nb *)
          N,       (* Locker.n: how often each thread takes the lock          *)
          MaxFail, (* bound on the failures a locker with a back-off counts   *)
          Nobody   (* the holder of a free lock                               *)

ASSUME LockerAssumption ==
    /\ N \in Nat
    /\ MaxFail \in Nat \ {0}
    /\ IsFiniteSet(Thread)
    /\ Thread # {}
    /\ Nobody \notin Thread

VARIABLES pc,            (* the control point of each thread                       *)
          i,             (* LockerThread.run: the loop counter                     *)
          new_counter,   (* LockerThread.run: what lock() returned                 *)
          last_counter,  (* LockerThread.run: what it returned one iteration ago   *)
          max_delay,     (* LockerThread.max_delay                                 *)
          lock_granted,  (* Locker.lock_granted                                    *)
          reg,           (* the value ++lock_granted has read and not written back *)
          result         (* what Locker.run returned to LockBench, -1 before       *)

driverVars == <<i, last_counter, max_delay, result>>
countVars  == <<new_counter, lock_granted, reg>>
lockerVars == <<pc, driverVars, countVars>>

LockerInit ==
    /\ pc = [t \in Thread |-> "new"]
    /\ i = [t \in Thread |-> 0]
    /\ new_counter = [t \in Thread |-> -1]
    /\ last_counter = [t \in Thread |-> 0]
    /\ max_delay = [t \in Thread |-> 0]
    /\ lock_granted = 0
    /\ reg = [t \in Thread |-> 0]
    /\ result = -1

Goto(t, from, to) ==
    /\ pc[t] = from
    /\ pc' = [pc EXCEPT ![t] = to]

(* Locker.run: threads[i].start(). Threads are alike, so the order in which
   they are created does not matter, only that they need not start together. *)
Start(t) ==
    /\ Goto(t, "new", "loop")
    /\ UNCHANGED <<driverVars, countVars>>

(* LockerThread.run: the loop test, then new_counter = -1. *)
Loop(t) ==
    /\ i[t] < N
    /\ Goto(t, "loop", "lock")
    /\ new_counter' = [new_counter EXCEPT ![t] = -1]
    /\ UNCHANGED <<driverVars, lock_granted, reg>>

Finish(t) ==
    /\ i[t] >= N
    /\ Goto(t, "loop", "done")
    /\ UNCHANGED <<driverVars, countVars>>

(* `return ++lock_granted` on a plain int field reads the field, adds one to
   the value read and writes the sum back: two accesses to shared memory. *)
GrantRead(t) ==
    /\ Goto(t, "read", "write")
    /\ reg' = [reg EXCEPT ![t] = lock_granted]
    /\ UNCHANGED <<driverVars, new_counter, lock_granted>>

GrantWrite(t) ==
    /\ Goto(t, "write", "unlock")
    /\ lock_granted' = reg[t] + 1
    /\ new_counter' = [new_counter EXCEPT ![t] = reg[t] + 1]
    /\ UNCHANGED <<driverVars, reg>>

(* LockerThread.run, after unlock(): the delay since this thread's last turn.
   Everything it touches belongs to the thread. *)
Account(t) ==
    LET new_delay == new_counter[t] - last_counter[t] - 1
    IN  /\ Goto(t, "account", "loop")
        /\ max_delay' = [max_delay EXCEPT ![t] = IF new_delay > @ THEN new_delay ELSE @]
        /\ last_counter' = [last_counter EXCEPT ![t] = new_counter[t]]
        /\ i' = [i EXCEPT ![t] = @ + 1]
        /\ UNCHANGED <<countVars, result>>

(* Locker.run: thread.join() on every thread, then the maximum over the
   runnables, starting from 0. *)
Join ==
    /\ result = -1
    /\ \A t \in Thread : pc[t] = "done"
    /\ result' \in {0} \cup {max_delay[t] : t \in Thread}
    /\ \A t \in Thread : max_delay[t] <= result'
    /\ UNCHANGED <<pc, i, last_counter, max_delay, countVars>>

(* LockBench.main prints the result and goes on: the locker rests. *)
Returned ==
    /\ result # -1
    /\ UNCHANGED lockerVars

(* The steps of a thread that no subclass overrides. *)
DriverStep(t) ==
    Start(t) \/ Loop(t) \/ Finish(t) \/ GrantRead(t) \/ GrantWrite(t) \/ Account(t)

---------------------------------------------------------------------------------

(* The control points at which a thread owns the lock. *)
Owning == {"read", "write", "unlock"}

(* The fields have the values their Java types and the loop bounds allow. *)
LockerTypeOK ==
    /\ i \in [Thread -> 0..N]
    /\ new_counter \in [Thread -> Nat \cup {-1}]
    /\ last_counter \in [Thread -> Nat]
    /\ max_delay \in [Thread -> Nat]
    /\ lock_granted \in Nat
    /\ reg \in [Thread -> Nat]
    /\ result \in Nat \cup {-1}

(* Between the end of a lock() that granted and the matching unlock() there is
   at most one thread: "Acquires the lock" in the contract of Locker.lock. *)
MutualExclusion ==
    \A t, u \in Thread : pc[t] \in Owning /\ pc[u] \in Owning => t = u

(* The delay Locker.run reports is one that n turns of each thread can cause.
   A thread that never waits behind another still has to be ranked among the
   first grants of all the threads, so the maximum is at least thread_nb - 1;
   and between two turns of a thread the others have at most n turns each.
   It fails as soon as one ++lock_granted is lost or counted twice. *)
DelayBounds ==
    result # -1 /\ N > 0 =>
        result \in (Cardinality(Thread) - 1)..(N * (Cardinality(Thread) - 1))

(* Locker.run returns: join() comes back for every thread. *)
Termination == <>(result # -1)

(* The abstract lock that LockerThread.run relies on: the lock is acquired when
   the counter is written and released in unlock(). *)
Holder ==
    IF \E t \in Thread : pc[t] = "unlock"
      THEN CHOOSE t \in Thread : pc[t] = "unlock"
      ELSE Nobody

Lock == INSTANCE AbstractLock WITH holder <- Holder, granted <- lock_granted
=================================================================================
