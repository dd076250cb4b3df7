------------------------------ MODULE MCBenchmarks ------------------------------
(* Three benchmarks of Comp 409, of which one is run: the queue lock and the other
   locks with three threads that take the lock twice each, so that every node is
   recycled and a thread can queue again while its first node is being watched; and
   the elimination stack with three threads that make one call each. *)
EXTENDS CLHLocker

CONSTANTS t1, t2, t3, v1, v2, Main, Empty, noItem

MCThread == {t1, t2, t3}
MCNumbers == <<{v1, v2}>>

VARIABLES
    program,
    q, fail, bPc, bI, bNew, bLast, bDelay, bGranted, bReg, bResult, bLocked,
    ePc, top, next, value, made, arg, oldTop, newTop, ret, slot, xpc, at, myItem,
    yrItem, expired, currentRange, ops, pushCount, popCount, returned

Bench == INSTANCE LockBench WITH
    pc <- bPc, i <- bI, new_counter <- bNew, last_counter <- bLast,
    max_delay <- bDelay, lock_granted <- bGranted, reg <- bReg, result <- bResult,
    locked <- bLocked
Elimination == INSTANCE EliminationStack WITH
    OperationAmount <- 1, Numbers <- MCNumbers, Capacity <- 2, null <- noItem,
    pc <- ePc

benchVars == <<q, fail, bPc, bI, bNew, bLast, bDelay, bGranted, bReg, bResult, bLocked>>
stackVars == <<ePc, top, next, value, made, arg, oldTop, newTop, ret, slot, xpc, at,
               myItem, yrItem, expired, currentRange, ops, pushCount, popCount, returned>>
allVars == <<program, vars, benchVars, stackVars>>

AnyInit ==
    /\ program \in {"CLHLocker", "LockBench", "EliminationStack"}
    /\ Init /\ Bench!Init /\ Elimination!Init

Queue(Step) ==
    program = "CLHLocker" /\ Step /\ UNCHANGED <<program, benchVars, stackVars>>
Others(Step) ==
    program = "LockBench" /\ Step /\ UNCHANGED <<program, vars, stackVars>>
Stack(Step) ==
    program = "EliminationStack" /\ Step /\ UNCHANGED <<program, vars, benchVars>>

AnyNext == Queue(Next) \/ Others(Bench!Next) \/ Stack(Elimination!Next)

(* Each of the programs is as fair as it is alone. *)
AnySpec ==
    /\ AnyInit /\ [][AnyNext]_allVars
    /\ WF_allVars(Queue(MainStep))
    /\ WF_allVars(Others(Bench!MainStep))
    /\ WF_allVars(Stack(Elimination!MainStep))
    /\ \A t \in Thread :
          /\ WF_allVars(Queue(ThreadStep(t)))
          /\ WF_allVars(Others(Bench!ThreadStep(t)))
          /\ WF_allVars(Stack(Elimination!ThreadStep(t)))
          /\ WF_allVars(Stack(Elimination!Exchange!Expire(t) /\ Elimination!ThreadStep(t)))

(* All four locks: the fields of lockers and counters have their types; the flag is
   that of the owner, no count is lost, and the delay that is reported is one that
   the turns can cause. *)
CountInv ==
    /\ TypeOK /\ Bench!TypeOK
    /\ Bench!FlagInv
    /\ DelayBounds /\ Bench!DelayBounds

(* LockBench: each class is an AbstractLock. *)
LockSpec == Bench!LockSpec

(* Locker.run and Engine.run return: every thread ends and is joined. *)
BenchmarkEnds == <>(result # -1 \/ bResult # -1 \/ returned)
=================================================================================
