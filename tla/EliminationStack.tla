---------------------------- MODULE EliminationStack ----------------------------
(***************************************************************************)
(* EliminationStack.java with RangePolicy.java, and the benchmark of       *)
(* Main.java around it (Comp 409/Assignment 3/src/question1): a push or    *)
(* pop that loses the race for the top of the list tries to meet a call    *)
(* of the other kind in the elimination array.                             *)
(***************************************************************************)
EXTENDS Naturals, FiniteSets, Functions

CONSTANTS
    Thread,            (* the benchmark threads                         *)
    Main,              (* the main thread                               *)
    OperationAmount,   (* Engine.operationAmount                        *)
    Numbers,           (* the numbers a thread may push in its k-th call *)
    Capacity,          (* Engine.eliminationArrayCapacity               *)
    null, Empty

ASSUME EngineAssumption ==
    /\ OperationAmount \in Nat /\ Capacity \in Nat \ {0}
    /\ IsFiniteSet(Thread) /\ Main \notin Thread
    /\ DOMAIN Numbers = 1..OperationAmount
    /\ Empty # null
    /\ null \notin (Thread \cup {Main}) \X (1..OperationAmount)
    /\ \A k \in 1..OperationAmount : null \notin Numbers[k] /\ Empty \notin Numbers[k]

Process == Thread \cup {Main}
Value   == UNION {Numbers[k] : k \in 1..OperationAmount}
Item    == Value \cup {null}

VARIABLES
    pc, top, next, value, made, arg, oldTop, newTop, ret,   (* LockFreeStack       *)
    slot, xpc, at, myItem, yrItem, expired,                 (* EliminationArray    *)
    currentRange,   (* RangePolicy.currentRange of each thread                      *)
    ops,            (* StackThread.run: the loop counter                            *)
    pushCount, popCount,   (* StackThread's counts; Main's popCount is the count of
                              removeRemaining                                       *)
    returned        (* whether Engine.run has printed its totals                    *)

List     == INSTANCE LockFreeStack WITH MaxNode <- OperationAmount
Exchange == INSTANCE EliminationArray

listVars   == <<top, next, value, made>>
localVars  == <<arg, oldTop, newTop, ret>>
arrayVars  == <<slot, xpc, at, myItem, yrItem, expired>>
policyVars == <<currentRange>>
engineVars == <<ops, pushCount, popCount, returned>>
vars == <<pc, listVars, localVars, arrayVars, policyVars, engineVars>>

Init ==
    /\ List!Init
    /\ Exchange!Init
    /\ currentRange = [p \in Process |-> 1]
    /\ ops = [p \in Process |-> 0]
    /\ pushCount = [p \in Process |-> 0]
    /\ popCount = [p \in Process |-> 0]
    /\ returned = FALSE

---------------------------------------------------------------------------------
(* push and pop *)

recordEliminationSuccess(p) ==
    currentRange' = [currentRange EXCEPT ![p] = IF @ < Capacity THEN @ + 1 ELSE @]

recordEliminationTimeout(p) ==
    currentRange' = [currentRange EXCEPT ![p] = IF @ > 1 THEN @ - 1 ELSE @]

Try(p) ==
    /\ List!TryPush(p) \/ List!TryPop(p)
    /\ UNCHANGED <<arrayVars, policyVars, engineVars>>

(* eliminationArray.visit(value, rangePolicy.getRange()), in pop visit(null, ..) *)
Visit(p) ==
    /\ List!Goto(p, "retry", "visit")
    /\ Exchange!Visit(p, arg[p], currentRange[p])
    /\ UNCHANGED <<listVars, localVars, policyVars, engineVars>>

Wait(p) ==
    /\ Exchange!Inside(p)
    /\ UNCHANGED <<pc, listVars, localVars, policyVars, engineVars>>

Again(p) == List!Goto(p, "visit", IF arg[p] = null THEN "pop" ELSE "push")

(* A push that gets an item takes its visit for a success as well. *)
OpposedToAny(p, item) == item = null \/ arg[p] # null

(* A push has met a pop when it gets null, a pop has met a push when it gets an
   item; otherwise the call starts again. *)
Opposed(p, item) == (item = null) # (arg[p] = null)

Met(p) ==
    \E item \in Item :
        /\ Exchange!Exchanged(p, item)
        /\ \/ /\ Opposed(p, item)
              /\ List!Goto(p, "visit", "done")
              /\ ret' = [ret EXCEPT ![p] = item]
              /\ recordEliminationSuccess(p)
           \/ /\ ~Opposed(p, item)
              /\ Again(p)
              /\ UNCHANGED <<ret, policyVars>>
        /\ UNCHANGED <<listVars, arg, oldTop, newTop, engineVars>>

TimedOut(p) ==
    /\ Exchange!TimedOut(p)
    /\ Again(p)
    /\ recordEliminationTimeout(p)
    /\ UNCHANGED <<listVars, localVars, engineVars>>

Operation(p) == Try(p) \/ Visit(p) \/ Wait(p) \/ Met(p) \/ TimedOut(p)

---------------------------------------------------------------------------------
(* Main.java *)

(* StackThread.run: a push of some number, new or popped before, or a pop. *)
Call(t) ==
    /\ ops[t] < OperationAmount
    /\ List!CallPop(t) \/ \E v \in Numbers[ops[t] + 1] : List!CallPush(t, v)
    /\ UNCHANGED <<arrayVars, policyVars, engineVars>>

Incremented(count, p, really) == [count EXCEPT ![p] = IF really THEN @ + 1 ELSE @]

(* The call is over: pushCount++, popCount++, or the exception is ignored. *)
Return(t) ==
    /\ List!Goto(t, "done", "idle")
    /\ pushCount' = Incremented(pushCount, t, arg[t] # null)
    /\ popCount' = Incremented(popCount, t, ret[t] \in Value)
    /\ ops' = [ops EXCEPT ![t] = @ + 1]
    /\ List!Leave(t)
    /\ UNCHANGED <<arrayVars, policyVars, returned>>

(* Engine.run: join on every thread, then removeRemaining pops until one of its
   calls throws. *)
Drain ==
    /\ \A t \in Thread : ops[t] = OperationAmount
    /\ ~returned
    /\ List!CallPop(Main)
    /\ UNCHANGED <<arrayVars, policyVars, engineVars>>

Drained ==
    /\ List!Goto(Main, "done", "idle")
    /\ popCount' = Incremented(popCount, Main, ret[Main] \in Value)
    /\ returned' = (ret[Main] = Empty)
    /\ List!Leave(Main)
    /\ UNCHANGED <<arrayVars, policyVars, ops, pushCount>>

Over == returned /\ UNCHANGED vars

MainStep == Drain \/ Drained \/ Operation(Main)

ThreadStep(t) == Call(t) \/ Operation(t) \/ Return(t)

Next == MainStep \/ Over \/ \E t \in Thread : ThreadStep(t)

Spec == Init /\ [][Next]_vars

(* The JVM's scheduler lets every thread run, and the clock runs as well. *)
FairSpec ==
    /\ Spec
    /\ WF_vars(MainStep)
    /\ \A t \in Thread : WF_vars(ThreadStep(t)) /\ WF_vars(Exchange!Expire(t) /\ ThreadStep(t))

---------------------------------------------------------------------------------

(* The fields have their types, and a thread never visits a slot that does not
   exist. *)
TypeOK ==
    /\ List!StackTypeOK
    /\ Exchange!TypeOK
    /\ pc \in [Process -> {"idle", "push", "pushCas", "pop", "popNext", "popCas", "retry", "visit", "done"}]
    /\ currentRange \in [Process -> 1..Capacity]
    /\ ops \in [Process -> 0..OperationAmount]
    /\ pushCount \in [Process -> Nat] /\ popCount \in [Process -> Nat]
    /\ \A p \in Process : pc[p] = "visit" <=> xpc[p] # "out"

(* EliminationArray's slots belong to one waiting thread each. *)
SlotInv == Exchange!SlotInv

(* The array is used as it is meant to be: a thread visits only slots that exist, and
   meets at most one other there. *)
ArrayInv == TypeOK /\ SlotInv

(* What Engine.run prints: nothing that was pushed is lost and nothing is popped
   twice, whether it went through the list or through the array. *)
Conservation ==
    returned => FoldFunction(+, 0, pushCount) = FoldFunction(+, 0, popCount)

(* Whether the caller's visit is decided although it does not know it yet: it
   waits in a slot that the other caller has made BUSY. *)
Decided(p) == xpc[p] \in {"await", "collect", "clear"} /\ slot[at[p]].stamp = "BUSY"

Answered(p) == pc[p] = "done" \/ (Decided(p) /\ Opposed(p, slot[at[p]].item))

Answer(p) == IF pc[p] = "done" THEN ret[p] ELSE slot[at[p]].item

Calls == INSTANCE AbstractStack WITH stack <- <<>>, call <- <<>>

StackCall(p) ==
    IF pc[p] = "idle" THEN Calls!Idle
    ELSE IF arg[p] # null
      THEN IF Answered(p) THEN Calls!Pushed ELSE Calls!Pushing(arg[p])
      ELSE IF Answered(p) THEN Calls!Popped(Answer(p)) ELSE Calls!Popping

Abstract == INSTANCE AbstractStack WITH
    stack <- List!Contents,
    call  <- [p \in Process |-> StackCall(p)]

(* Every push and pop takes effect at one moment between its call and its return,
   as on a stack that is used by one thread at a time. *)
StackSpec == Abstract!Spec

(* The benchmark ends: no thread loses every race, or waits for a partner for
   ever. *)
Termination == <>returned
=================================================================================
