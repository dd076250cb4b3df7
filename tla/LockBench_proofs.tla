---------------------------- MODULE LockBench_proofs ----------------------------
(***************************************************************************)
(* The monitor, the test-and-test-and-set lock and the one with back-off   *)
(* implement AbstractLock, for any number of threads, turns and failures.  *)
(***************************************************************************)
EXTENDS LockBench, TLAPS

USE DEF driverVars, countVars

(* The types and the control points that do not depend on the class, with the
   bounds that the loop guards. *)
BaseInv ==
    /\ q \in 1..3
    /\ LockerTypeOK
    /\ pc \in [Thread -> {"new", "loop", "lock", "cas", "sleep", "account", "done"}
                         \cup Owning]
    /\ locked \in BOOLEAN
    /\ fail \in [Thread -> Nat]
    /\ \A t \in Thread : pc[t] \notin {"new", "loop", "done"} => i[t] < N
    /\ \A t \in Thread : pc[t] \in {"unlock", "account"} => new_counter[t] \in Nat

(* What holds of the owner of the lock in each class. *)
OwnerInv ==
    /\ locked <=> \E t \in Thread : pc[t] \in Owning
    /\ MutualExclusion
    /\ \A t \in Thread :
          /\ pc[t] = "write" => reg[t] = lock_granted
          /\ pc[t] = "unlock" => new_counter[t] = lock_granted

(* The first sleep of a call follows a first failure. *)
SleepInv ==
    q = 3 => \A t \in Thread : pc[t] = "sleep" => fail[t] > 0

Ind == BaseInv /\ OwnerInv /\ SleepInv

---------------------------------------------------------------------------------

LEMMA InitInd == Init => Ind
<1> SUFFICES ASSUME Init PROVE Ind
    OBVIOUS
<1> USE LockerAssumption DEF Init, Delaying!Init, Delaying!LockerInit
<1>1. BaseInv
  <2>1. LockerTypeOK
    BY DEF LockerTypeOK
  <2>2. pc \in [Thread -> {"new", "loop", "lock", "cas", "sleep", "account", "done"}
                         \cup Owning]
    BY DEF Owning
  <2>3. q \in 1..3 /\ locked \in BOOLEAN /\ fail \in [Thread -> Nat]
    OBVIOUS
  <2>4. \A t \in Thread : pc[t] = "new"
    OBVIOUS
  <2> QED
    BY <2>1, <2>2, <2>3, <2>4 DEF BaseInv
<1>2. OwnerInv
    BY DEF OwnerInv, MutualExclusion, Owning
<1>3. SleepInv
    BY DEF SleepInv
<1> QED
    BY <1>1, <1>2, <1>3 DEF Ind

(* The steps of LockerThread.run outside of lock() and unlock(). *)
LEMMA DriverInd ==
    ASSUME Ind, NEW t \in Thread, DriverStep(t), UNCHANGED <<q, locked, fail>>
    PROVE  Ind'
<1> USE LockerAssumption DEF Ind, Goto
<1>1. CASE Start(t) \/ Finish(t)
  <2>1. BaseInv'
    BY <1>1 DEF BaseInv, LockerTypeOK, Start, Finish
  <2>2. OwnerInv'
    BY <1>1 DEF BaseInv, OwnerInv, MutualExclusion, Owning, Start, Finish
  <2>3. SleepInv'
    BY <1>1 DEF BaseInv, SleepInv, Start, Finish
  <2> QED
    BY <2>1, <2>2, <2>3
<1>2. CASE Loop(t)
  <2>1. BaseInv'
    BY <1>2 DEF BaseInv, LockerTypeOK, Loop
  <2>2. OwnerInv'
    BY <1>2 DEF BaseInv, OwnerInv, MutualExclusion, Owning, Loop
  <2>3. SleepInv'
    BY <1>2 DEF BaseInv, SleepInv, Loop
  <2> QED
    BY <2>1, <2>2, <2>3
<1>3. CASE GrantRead(t)
  <2>1. BaseInv'
    BY <1>3 DEF BaseInv, LockerTypeOK, Owning, GrantRead
  <2>2. OwnerInv'
    BY <1>3 DEF BaseInv, LockerTypeOK, OwnerInv, MutualExclusion, Owning, GrantRead
  <2>3. SleepInv'
    BY <1>3 DEF BaseInv, SleepInv, GrantRead
  <2> QED
    BY <2>1, <2>2, <2>3
<1>4. CASE GrantWrite(t)
  <2>1. BaseInv'
    BY <1>4 DEF BaseInv, LockerTypeOK, Owning, GrantWrite
  <2>2. OwnerInv'
    BY <1>4 DEF BaseInv, LockerTypeOK, OwnerInv, MutualExclusion, Owning, GrantWrite
  <2>3. SleepInv'
    BY <1>4 DEF BaseInv, SleepInv, GrantWrite
  <2> QED
    BY <2>1, <2>2, <2>3
<1>5. CASE Account(t)
  <2>1. BaseInv'
    BY <1>5 DEF BaseInv, LockerTypeOK, Account
  <2>2. OwnerInv'
    BY <1>5 DEF BaseInv, OwnerInv, MutualExclusion, Owning, Account
  <2>3. SleepInv'
    BY <1>5 DEF BaseInv, SleepInv, Account
  <2> QED
    BY <2>1, <2>2, <2>3
<1> QED
    BY <1>1, <1>2, <1>3, <1>4, <1>5 DEF DriverStep

(* SynchronizedLock: lock() grants in one step or returns -1. *)
LEMMA MonitorInd ==
    ASSUME Ind, NEW t \in Thread, UNCHANGED <<q, fail>>, Monitor!ThreadStep(t)
    PROVE  Ind'
<1> USE LockerAssumption DEF Ind, Monitor!Goto, Monitor!driverVars, Monitor!countVars
<1>1. CASE Monitor!LockerStep(t)
    BY <1>1, DriverInd
    DEF Monitor!LockerStep, Monitor!Start, Monitor!Loop, Monitor!Finish, Monitor!Account,
        DriverStep, Start, Loop, Finish, Account, Goto
<1>2. CASE Monitor!Refuse(t)
  <2>1. BaseInv'
    BY <1>2 DEF BaseInv, LockerTypeOK, Monitor!Refuse
  <2>2. OwnerInv'
    BY <1>2 DEF BaseInv, OwnerInv, MutualExclusion, Owning, Monitor!Refuse
  <2>3. SleepInv'
    BY <1>2 DEF BaseInv, SleepInv, Monitor!Refuse
  <2> QED
    BY <2>1, <2>2, <2>3
<1>3. CASE Monitor!Grant(t)
  <2>1. BaseInv'
    BY <1>3 DEF BaseInv, LockerTypeOK, Owning, Monitor!Grant
  <2>2. OwnerInv'
    BY <1>3 DEF BaseInv, LockerTypeOK, OwnerInv, MutualExclusion, Owning, Monitor!Grant
  <2>3. SleepInv'
    BY <1>3 DEF BaseInv, SleepInv, Monitor!Grant
  <2> QED
    BY <2>1, <2>2, <2>3
<1>4. CASE Monitor!Unlock(t)
  <2>1. BaseInv'
    BY <1>4 DEF BaseInv, LockerTypeOK, Monitor!Unlock
  <2>2. OwnerInv'
    BY <1>4 DEF BaseInv, OwnerInv, MutualExclusion, Owning, Monitor!Unlock
  <2>3. SleepInv'
    BY <1>4 DEF BaseInv, SleepInv, Monitor!Unlock
  <2> QED
    BY <2>1, <2>2, <2>3
<1> QED
    BY <1>1, <1>2, <1>3, <1>4 DEF Monitor!ThreadStep

(* SimpleTTASLocker: only the compareAndSet that finds FALSE takes the lock. *)
LEMMA TTASInd ==
    ASSUME Ind, NEW t \in Thread, UNCHANGED <<q, fail>>, TTAS!ThreadStep(t)
    PROVE  Ind'
<1> USE LockerAssumption DEF Ind, TTAS!Goto, TTAS!driverVars, TTAS!countVars
<1>1. CASE TTAS!DriverStep(t) /\ UNCHANGED locked
    BY <1>1, DriverInd
    DEF TTAS!DriverStep, TTAS!Start, TTAS!Loop, TTAS!Finish, TTAS!GrantRead, TTAS!GrantWrite,
        TTAS!Account, DriverStep, Start, Loop, Finish, GrantRead, GrantWrite, Account, Goto
<1>2. CASE TTAS!Test(t)
  <2>1. BaseInv'
    BY <1>2 DEF BaseInv, LockerTypeOK, Owning, TTAS!Test
  <2>2. OwnerInv'
    BY <1>2 DEF BaseInv, LockerTypeOK, OwnerInv, MutualExclusion, Owning, TTAS!Test
  <2>3. SleepInv'
    BY <1>2 DEF BaseInv, SleepInv, TTAS!Test
  <2> QED
    BY <2>1, <2>2, <2>3
<1>3. CASE TTAS!CompareAndSet(t)
  <2>1. BaseInv'
    BY <1>3 DEF BaseInv, LockerTypeOK, Owning, TTAS!CompareAndSet
  <2>2. OwnerInv'
    BY <1>3 DEF BaseInv, LockerTypeOK, OwnerInv, MutualExclusion, Owning, TTAS!CompareAndSet
  <2>3. SleepInv'
    BY <1>3 DEF BaseInv, SleepInv, TTAS!CompareAndSet
  <2> QED
    BY <2>1, <2>2, <2>3
<1>4. CASE TTAS!Unlock(t)
  <2>1. BaseInv'
    BY <1>4 DEF BaseInv, LockerTypeOK, Owning, TTAS!Unlock
  <2>2. OwnerInv'
    BY <1>4 DEF BaseInv, LockerTypeOK, OwnerInv, MutualExclusion, Owning, TTAS!Unlock
  <2>3. SleepInv'
    BY <1>4 DEF BaseInv, SleepInv, TTAS!Unlock
  <2> QED
    BY <2>1, <2>2, <2>3
<1> QED
    BY <1>1, <1>2, <1>3, <1>4 DEF TTAS!ThreadStep

(* DelayTTASLocker: the same, and the first sleep follows a failure. *)
LEMMA DelayingInd ==
    ASSUME Ind, NEW t \in Thread, UNCHANGED q, Delaying!ThreadStep(t)
    PROVE  Ind'
<1> USE LockerAssumption DEF Ind, Delaying!Goto, Delaying!driverVars, Delaying!countVars
<1>1. CASE Delaying!DriverStep(t) /\ UNCHANGED <<locked, fail>>
    BY <1>1, DriverInd
    DEF Delaying!DriverStep, Delaying!Start, Delaying!Loop, Delaying!Finish,
        Delaying!GrantRead, Delaying!GrantWrite, Delaying!Account,
        DriverStep, Start, Loop, Finish, GrantRead, GrantWrite, Account, Goto
<1>2. CASE Delaying!Test(t)
  <2>1. BaseInv'
    BY <1>2 DEF BaseInv, LockerTypeOK, Owning, Delaying!Test
  <2>2. OwnerInv'
    BY <1>2 DEF BaseInv, LockerTypeOK, OwnerInv, MutualExclusion, Owning, Delaying!Test
  <2>3. SleepInv'
    BY <1>2 DEF BaseInv, SleepInv, Delaying!Test
  <2> QED
    BY <2>1, <2>2, <2>3
<1>3. CASE Delaying!BackOff(t)
  <2>1. BaseInv'
    BY <1>3 DEF BaseInv, LockerTypeOK, Owning, Delaying!BackOff
  <2>2. OwnerInv'
    BY <1>3 DEF BaseInv, LockerTypeOK, OwnerInv, MutualExclusion, Owning, Delaying!BackOff
  <2>3. SleepInv'
    BY <1>3, LockerAssumption DEF BaseInv, SleepInv, Delaying!BackOff
  <2> QED
    BY <2>1, <2>2, <2>3
<1>4. CASE Delaying!WakeUp(t)
  <2>1. BaseInv'
    BY <1>4 DEF BaseInv, LockerTypeOK, Owning, Delaying!WakeUp
  <2>2. OwnerInv'
    BY <1>4 DEF BaseInv, LockerTypeOK, OwnerInv, MutualExclusion, Owning, Delaying!WakeUp
  <2>3. SleepInv'
    BY <1>4 DEF BaseInv, SleepInv, Delaying!WakeUp
  <2> QED
    BY <2>1, <2>2, <2>3
<1>5. CASE Delaying!CompareAndSet(t)
  <2>1. BaseInv'
    BY <1>5 DEF BaseInv, LockerTypeOK, Owning, Delaying!CompareAndSet
  <2>2. OwnerInv'
    BY <1>5 DEF BaseInv, LockerTypeOK, OwnerInv, MutualExclusion, Owning, Delaying!CompareAndSet
  <2>3. SleepInv'
    BY <1>5 DEF BaseInv, SleepInv, Delaying!CompareAndSet
  <2> QED
    BY <2>1, <2>2, <2>3
<1>6. CASE Delaying!Unlock(t)
  <2>1. BaseInv'
    BY <1>6 DEF BaseInv, LockerTypeOK, Owning, Delaying!Unlock
  <2>2. OwnerInv'
    BY <1>6 DEF BaseInv, LockerTypeOK, OwnerInv, MutualExclusion, Owning, Delaying!Unlock
  <2>3. SleepInv'
    BY <1>6 DEF BaseInv, SleepInv, Delaying!Unlock
  <2> QED
    BY <2>1, <2>2, <2>3
<1> QED
    BY <1>1, <1>2, <1>3, <1>4, <1>5, <1>6 DEF Delaying!ThreadStep

LEMMA NextInd == Ind /\ [Next]_vars => Ind'
<1> SUFFICES ASSUME Ind, [Next]_vars PROVE Ind'
    OBVIOUS
<1>1. ASSUME NEW t \in Thread, ThreadStep(t) PROVE Ind'
    BY <1>1, MonitorInd, TTASInd, DelayingInd DEF ThreadStep
<1>2. CASE MainStep
  <2>1. /\ UNCHANGED <<q, pc, i, last_counter, max_delay, countVars, locked, fail>>
        /\ result' \in Nat \cup {-1}
    BY <1>2 DEF MainStep, Join, Returned, lockerVars, Ind, BaseInv, LockerTypeOK
  <2> QED
    BY <2>1 DEF Ind, BaseInv, LockerTypeOK, OwnerInv, MutualExclusion, SleepInv
<1>3. CASE UNCHANGED vars
    BY <1>3 DEF vars, lockerVars, Ind, BaseInv, LockerTypeOK, OwnerInv, MutualExclusion, SleepInv
<1> QED
    BY <1>1, <1>2, <1>3 DEF Next

THEOREM Inductive == Spec => []Ind
<1> QED
    BY InitInd, NextInd, PTL DEF Spec

(* At most one thread is between the end of a lock() that granted and the end
   of unlock(), whatever the class of the locker. *)
THEOREM MutexCorrect == Spec => []MutualExclusion
<1>1. Ind => MutualExclusion
    BY DEF Ind, OwnerInv
<1> QED
    BY <1>1, Inductive, PTL

---------------------------------------------------------------------------------

LEMMA HolderIs ==
    ASSUME MutualExclusion, NEW t \in Thread, pc[t] = "unlock"
    PROVE  Holder = t
BY DEF MutualExclusion, Holder, Owning

LEMMA HolderNobody ==
    ASSUME \A t \in Thread : pc[t] # "unlock"
    PROVE  Holder = Nobody
BY DEF Holder

LEMMA NextHolderIs ==
    ASSUME MutualExclusion', NEW t \in Thread, pc'[t] = "unlock"
    PROVE  Holder' = t
BY DEF MutualExclusion, Holder, Owning

LEMMA NextHolderNobody ==
    ASSUME \A t \in Thread : pc'[t] # "unlock"
    PROVE  Holder' = Nobody
BY DEF Holder

(* A step of the abstract lock is a step into or out of pc "unlock"; which class
   takes it does not matter. *)
LEMMA AcquireStep ==
    ASSUME Ind, Ind', NEW t \in Thread, pc' = [pc EXCEPT ![t] = "unlock"],
           \A u \in Thread : pc[u] # "unlock", lock_granted' = lock_granted + 1
    PROVE  Lock!Acquire(t)
<1>1. Holder = Nobody
    BY HolderNobody
<1>2. Holder' = t
    BY NextHolderIs DEF Ind, BaseInv, OwnerInv
<1> QED
    BY <1>1, <1>2 DEF Lock!Acquire

LEMMA ReleaseStep ==
    ASSUME Ind, NEW t \in Thread, pc[t] = "unlock", pc' = [pc EXCEPT ![t] = "account"],
           UNCHANGED lock_granted
    PROVE  Lock!Release(t)
<1>1. Holder = t
    BY HolderIs DEF Ind, OwnerInv
<1>2. \A u \in Thread : pc'[u] # "unlock"
    BY DEF Ind, BaseInv, OwnerInv, MutualExclusion, Owning
<1> QED
    BY <1>1, <1>2, NextHolderNobody DEF Lock!Release

LEMMA StutterStep ==
    ASSUME Ind, Ind', UNCHANGED lock_granted,
           \A t \in Thread : (pc'[t] = "unlock") <=> (pc[t] = "unlock")
    PROVE  UNCHANGED Lock!absVars
<1>1. CASE \E t \in Thread : pc[t] = "unlock"
    BY <1>1, HolderIs, NextHolderIs DEF Lock!absVars, Ind, OwnerInv
<1>2. CASE \A t \in Thread : pc[t] # "unlock"
    BY <1>2, HolderNobody, NextHolderNobody DEF Lock!absVars
<1> QED
    BY <1>1, <1>2

LEMMA MonitorLock ==
    ASSUME Ind, Ind', NEW t \in Thread, Monitor!ThreadStep(t)
    PROVE  [Lock!Next]_(Lock!absVars)
<1> USE DEF Ind, BaseInv, Monitor!Goto, Monitor!driverVars, Monitor!countVars
<1>1. CASE Monitor!Grant(t)
  <2>1. \A u \in Thread : pc[u] # "unlock"
    BY <1>1 DEF OwnerInv, Owning, Monitor!Grant
  <2> QED
    BY <1>1, <2>1, AcquireStep DEF Monitor!Grant, Lock!Next
<1>2. CASE Monitor!Unlock(t)
    BY <1>2, ReleaseStep DEF Monitor!Unlock, Lock!Next
<1>3. CASE Monitor!Refuse(t)
    BY <1>3, StutterStep DEF Monitor!Refuse
<1>4. CASE Monitor!LockerStep(t)
    BY <1>4, StutterStep
    DEF Monitor!LockerStep, Monitor!Start, Monitor!Loop, Monitor!Finish, Monitor!Account
<1> QED
    BY <1>1, <1>2, <1>3, <1>4 DEF Monitor!ThreadStep

(* The test-and-set lockers acquire, for the abstract lock, when they write the
   counter: nothing can come between that and their compareAndSet. *)
LEMMA TTASLock ==
    ASSUME Ind, Ind', NEW t \in Thread, TTAS!ThreadStep(t)
    PROVE  [Lock!Next]_(Lock!absVars)
<1> USE DEF Ind, BaseInv, TTAS!Goto, TTAS!driverVars, TTAS!countVars
<1>1. CASE TTAS!GrantWrite(t)
  <2>1. \A u \in Thread : pc[u] # "unlock"
    BY <1>1 DEF OwnerInv, MutualExclusion, Owning, TTAS!GrantWrite
  <2>2. lock_granted' = lock_granted + 1
    BY <1>1 DEF OwnerInv, TTAS!GrantWrite
  <2> QED
    BY <1>1, <2>1, <2>2, AcquireStep DEF TTAS!GrantWrite, Lock!Next
<1>2. CASE TTAS!Unlock(t)
    BY <1>2, ReleaseStep DEF TTAS!Unlock, Lock!Next
<1>3. CASE TTAS!Test(t) \/ TTAS!CompareAndSet(t)
    BY <1>3, StutterStep DEF TTAS!Test, TTAS!CompareAndSet
<1>4. CASE TTAS!Start(t) \/ TTAS!Loop(t) \/ TTAS!Finish(t) \/ TTAS!GrantRead(t) \/ TTAS!Account(t)
    BY <1>4, StutterStep
    DEF TTAS!Start, TTAS!Loop, TTAS!Finish, TTAS!GrantRead, TTAS!Account
<1> QED
    BY <1>1, <1>2, <1>3, <1>4 DEF TTAS!ThreadStep, TTAS!DriverStep

LEMMA DelayingLock ==
    ASSUME Ind, Ind', NEW t \in Thread, Delaying!ThreadStep(t)
    PROVE  [Lock!Next]_(Lock!absVars)
<1> USE DEF Ind, BaseInv, Delaying!Goto, Delaying!driverVars, Delaying!countVars
<1>1. CASE Delaying!GrantWrite(t)
  <2>1. \A u \in Thread : pc[u] # "unlock"
    BY <1>1 DEF OwnerInv, MutualExclusion, Owning, Delaying!GrantWrite
  <2>2. lock_granted' = lock_granted + 1
    BY <1>1 DEF OwnerInv, Delaying!GrantWrite
  <2> QED
    BY <1>1, <2>1, <2>2, AcquireStep DEF Delaying!GrantWrite, Lock!Next
<1>2. CASE Delaying!Unlock(t)
    BY <1>2, ReleaseStep DEF Delaying!Unlock, Lock!Next
<1>3. CASE Delaying!Test(t) \/ Delaying!CompareAndSet(t)
    BY <1>3, StutterStep DEF Delaying!Test, Delaying!CompareAndSet
<1>4. CASE Delaying!BackOff(t) \/ Delaying!WakeUp(t)
    BY <1>4, StutterStep DEF Delaying!BackOff, Delaying!WakeUp
<1>5. CASE \/ Delaying!Start(t) \/ Delaying!Loop(t) \/ Delaying!Finish(t)
           \/ Delaying!GrantRead(t) \/ Delaying!Account(t)
    BY <1>5, StutterStep
    DEF Delaying!Start, Delaying!Loop, Delaying!Finish, Delaying!GrantRead, Delaying!Account
<1> QED
    BY <1>1, <1>2, <1>3, <1>4, <1>5 DEF Delaying!ThreadStep, Delaying!DriverStep

(* Whatever the class, LockerThread.run gets the lock that the contract of
   Locker.lock describes: exclusive, and counted without loss. *)
THEOREM LockCorrect == Spec => LockSpec
<1>1. Init => Lock!Init
    BY HolderNobody DEF Init, Delaying!Init, Delaying!LockerInit, Lock!Init
<1>2. ASSUME Ind, Ind', [Next]_vars PROVE [Lock!Next]_(Lock!absVars)
  <2>1. ASSUME NEW t \in Thread, ThreadStep(t) PROVE [Lock!Next]_(Lock!absVars)
    BY <1>2, <2>1, MonitorLock, TTASLock, DelayingLock DEF ThreadStep
  <2>2. CASE MainStep \/ UNCHANGED vars
    BY <1>2, <2>2, StutterStep DEF MainStep, Join, Returned, vars, lockerVars
  <2> QED
    BY <1>2, <2>1, <2>2 DEF Next
<1> QED
    BY <1>1, <1>2, Inductive, PTL DEF Spec, LockSpec, Lock!Spec
=================================================================================
