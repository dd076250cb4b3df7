-------------------------------- MODULE LockBench -------------------------------
(***************************************************************************)
(* LockBench.java: getLocker(q) makes a locker of one class and main runs  *)
(* the benchmark on it. (For q = -1 main repeats this for every class with *)
(* a fresh object; nothing is carried over.) Questions 1 to 3 are here;    *)
(* question 4, the queue lock, promises more, in a module of its own.      *)
(***************************************************************************)
EXTENDS Locker

VARIABLES q, locked, fail

Monitor  == INSTANCE SynchronizedLock
TTAS     == INSTANCE SimpleTTASLocker
Delaying == INSTANCE DelayTTASLocker

vars == <<q, lockerVars, locked, fail>>

(* getLocker *)
Init ==
    /\ q \in 1..3
    /\ Delaying!Init

ThreadStep(t) ==
    /\ UNCHANGED q
    /\ \/ q = 1 /\ Monitor!ThreadStep(t) /\ UNCHANGED fail
       \/ q = 2 /\ TTAS!ThreadStep(t) /\ UNCHANGED fail
       \/ q = 3 /\ Delaying!ThreadStep(t)

MainStep ==
    /\ Join \/ Returned
    /\ UNCHANGED <<q, locked, fail>>

Next == MainStep \/ \E t \in Thread : ThreadStep(t)

Spec == Init /\ [][Next]_vars

(* The threads run on the JVM's preemptive scheduler and main is in join(). A
   thread whose test keeps failing is running too: nothing makes a free lock
   wait for it, so weak fairness is all that can be assumed. *)
FairSpec == Spec /\ WF_vars(MainStep) /\ \A t \in Thread : WF_vars(ThreadStep(t))

---------------------------------------------------------------------------------

(* The fields of each locker and the counters of its threads keep their types. *)
TypeOK ==
    \/ q = 1 /\ Monitor!TypeOK /\ fail = [t \in Thread |-> 0]
    \/ q = 2 /\ TTAS!TypeOK /\ fail = [t \in Thread |-> 0]
    \/ q = 3 /\ Delaying!TypeOK

(* In each class the flag is set exactly while one thread has the lock, what
   that thread reads of lock_granted is still there when it writes the sum back
   and is still the count when lock() returns it; and a thread never sleeps for
   a random time whose bound Random.nextInt would refuse. *)
FlagInv ==
    /\ locked <=> \E t \in Thread : pc[t] \in Owning
    /\ MutualExclusion
    /\ \A t \in Thread :
          /\ pc[t] = "write" => reg[t] = lock_granted
          /\ pc[t] = "unlock" => new_counter[t] = lock_granted
    /\ q = 3 => Delaying!SleepBoundPositive

(* Every class is an AbstractLock. *)
LockSpec == Lock!Spec
=================================================================================
