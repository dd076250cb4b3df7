------------------------- MODULE EliminationStack_proofs ------------------------
(***************************************************************************)
(* The types of EliminationStack, the ownership of the slots of the        *)
(* elimination array, that the whole implements AbstractStack, and that it *)
(* counts as many pops as pushes, for any number of threads, calls,        *)
(* numbers and slots.                                                      *)
(***************************************************************************)
EXTENDS EliminationStack, FiniteSetTheorems, SequenceTheorems,
        WellFoundedInduction, TLAPS

USE DEF listVars, localVars, arrayVars, policyVars, engineVars, Process, Item,
        List!listVars, List!localVars

(* What TypeOK rests on: a call keeps its argument and its node until it returns,
   and a thread in a call has not done all its calls. *)
CallInv ==
    \A p \in Process :
        /\ pc[p] = "visit" <=> xpc[p] # "out"
        /\ pc[p] \in {"push", "pushCas"} => arg[p] # null
        /\ arg[p] # null => made[p] > 0
        /\ pc[p] \in {"popNext", "popCas"} => oldTop[p] \in List!Node
        /\ p \in Thread /\ pc[p] # "idle" => ops[p] < OperationAmount

EngineTypes ==
    /\ pc \in [Process -> {"idle", "push", "pushCas", "pop", "popNext", "popCas", "retry", "visit", "done"}]
    /\ currentRange \in [Process -> 1..Capacity]
    /\ ops \in [Process -> 0..OperationAmount]
    /\ pushCount \in [Process -> Nat] /\ popCount \in [Process -> Nat]

TypeInv == List!StackTypeOK /\ Exchange!TypeOK /\ EngineTypes /\ CallInv

LEMMA TypeInvImplies == TypeInv => TypeOK
BY DEF TypeInv, EngineTypes, CallInv, TypeOK

LEMMA InitTypes == Init => TypeInv
<1> SUFFICES ASSUME Init PROVE TypeInv
    OBVIOUS
<1> USE EngineAssumption DEF Init, List!Init, Exchange!Init
<1>1. List!StackTypeOK
    BY DEF List!StackTypeOK
<1>2. Exchange!TypeOK
    BY DEF Exchange!TypeOK, Exchange!Slot, Exchange!Free, Exchange!Holds
<1>3. EngineTypes
    BY DEF EngineTypes
<1>4. CallInv
    BY DEF CallInv
<1> QED
    BY <1>1, <1>2, <1>3, <1>4 DEF TypeInv

---------------------------------------------------------------------------------
(* The steps of tryPush and tryPop. *)

LEMMA TryTypes == ASSUME TypeInv, NEW p \in Process, Try(p) PROVE TypeInv'
<1> USE EngineAssumption DEF TypeInv, Try
<1>1. CASE List!ReadTopToPush(p)
  <2> USE <1>1 DEF List!ReadTopToPush, List!Goto
  <2>1. List!StackTypeOK'
    <3>1. /\ oldTop' = [oldTop EXCEPT ![p] = top] /\ next' = [next EXCEPT ![List!NodeOf(p)] = top]
          /\ UNCHANGED <<top, value, made, arg, newTop, ret>>
        OBVIOUS
    <3>2. List!StackTypeOK
        OBVIOUS
    <3> QED
        BY ONLY <3>1, <3>2 DEF List!StackTypeOK
  <2>2. Exchange!TypeOK' /\ EngineTypes'
    <3>1. UNCHANGED <<arrayVars, policyVars, engineVars>> /\ pc' = [pc EXCEPT ![p] = "pushCas"]
        OBVIOUS
    <3>2. Exchange!TypeOK /\ EngineTypes
        OBVIOUS
    <3>3. Exchange!TypeOK'
        BY ONLY <3>1, <3>2 DEF Exchange!TypeOK
    <3>4. EngineTypes'
        BY ONLY <3>1, <3>2 DEF EngineTypes
    <3> QED
        BY ONLY <3>3, <3>4
  <2>3. CallInv'
    <3>1. /\ pc[p] = "push" /\ pc' = [pc EXCEPT ![p] = "pushCas"] /\ oldTop' = [oldTop EXCEPT ![p] = top]
          /\ UNCHANGED <<arg, made, xpc, ops>>
        OBVIOUS
    <3>2. pc'[p] = "pushCas" /\ \A q \in Process : q # p => pc'[q] = pc[q] /\ oldTop'[q] = oldTop[q]
        BY <3>1 DEF EngineTypes, List!StackTypeOK
    <3>3. CallInv
        OBVIOUS
    <3> QED
        BY ONLY <3>1, <3>2, <3>3 DEF CallInv
  <2> QED
      BY <2>1, <2>2, <2>3
<1>2. CASE List!PushCas(p)
  <2> USE <1>2 DEF List!PushCas, List!Goto
  <2>1. List!NodeOf(p) \in List!Node
      BY DEF List!NodeOf, List!Node, CallInv, List!StackTypeOK
  <2>2. List!StackTypeOK'
      BY <2>1 DEF List!StackTypeOK
  <2>3. Exchange!TypeOK' /\ EngineTypes'
      BY DEF Exchange!TypeOK, EngineTypes
  <2>4. CallInv'
      BY DEF CallInv, EngineTypes, List!StackTypeOK
  <2> QED
      BY <2>2, <2>3, <2>4
<1>3. CASE List!ReadTopToPop(p)
  <2> USE <1>3 DEF List!ReadTopToPop, List!Goto
  <2>1. List!StackTypeOK'
      BY DEF List!StackTypeOK
  <2>2. Exchange!TypeOK' /\ EngineTypes'
      BY DEF Exchange!TypeOK, EngineTypes
  <2>3. CallInv'
      BY DEF CallInv, EngineTypes, List!StackTypeOK
  <2> QED
      BY <2>1, <2>2, <2>3
<1>4. CASE List!ReadNext(p)
  <2> USE <1>4 DEF List!ReadNext, List!Goto
  <2>1. List!StackTypeOK'
      BY DEF List!StackTypeOK, CallInv
  <2>2. Exchange!TypeOK' /\ EngineTypes'
      BY DEF Exchange!TypeOK, EngineTypes
  <2>3. CallInv'
      BY DEF CallInv, EngineTypes, List!StackTypeOK
  <2> QED
      BY <2>1, <2>2, <2>3
<1>5. CASE List!PopCas(p)
  <2> USE <1>5 DEF List!PopCas, List!Goto
  <2>1. List!StackTypeOK'
    <3>1. /\ oldTop' = [oldTop EXCEPT ![p] = null] /\ newTop' = [newTop EXCEPT ![p] = null]
          /\ top' \in {top, newTop[p]} /\ UNCHANGED <<next, value, made, arg>>
          /\ ret' = ret \/ ret' = [ret EXCEPT ![p] = value[oldTop[p]]]
        OBVIOUS
    <3>2. List!StackTypeOK /\ oldTop[p] \in List!Node
        BY DEF CallInv
    <3> QED
        BY ONLY p \in Process, <3>1, <3>2 DEF List!StackTypeOK
  <2>2. Exchange!TypeOK' /\ EngineTypes'
      BY DEF Exchange!TypeOK, EngineTypes
  <2>3. CallInv'
      BY DEF CallInv, EngineTypes, List!StackTypeOK
  <2> QED
      BY <2>1, <2>2, <2>3
<1> QED
    BY <1>1, <1>2, <1>3, <1>4, <1>5 DEF List!TryPush, List!TryPop

---------------------------------------------------------------------------------
(* The steps of the elimination array. *)

LEMMA VisitTypes == ASSUME TypeInv, NEW p \in Process, Visit(p) PROVE TypeInv'
<1> USE EngineAssumption DEF TypeInv, Visit, List!Goto, Exchange!Visit, Exchange!Goto
<1>1. List!StackTypeOK'
    BY DEF List!StackTypeOK
<1>2. Exchange!TypeOK'
    BY DEF Exchange!TypeOK, List!StackTypeOK
<1>3. EngineTypes'
    BY DEF EngineTypes
<1>4. CallInv'
    BY DEF CallInv, EngineTypes, Exchange!TypeOK
<1> QED
    BY <1>1, <1>2, <1>3, <1>4

(* What every step inside of a visit leaves alone. *)
LEMMA WaitTypes == ASSUME TypeInv, NEW p \in Process, Wait(p) PROVE TypeInv'
<1> USE EngineAssumption DEF TypeInv, Wait
<1>1. List!StackTypeOK' /\ EngineTypes'
    BY DEF List!StackTypeOK, EngineTypes
<1>2. Exchange!TypeOK' /\ \A q \in Process : xpc'[q] # "out" <=> xpc[q] # "out"
  <2> USE DEF Exchange!TypeOK, Exchange!Goto, Exchange!SetSlot, Exchange!Holds
  <2>1. CASE Exchange!Look(p)
      BY <2>1 DEF Exchange!Look
  <2>2. CASE Exchange!Offer(p)
      BY <2>2 DEF Exchange!Offer
  <2>3. CASE Exchange!Await(p)
      BY <2>3 DEF Exchange!Await
  <2>4. CASE Exchange!TooLate(p)
      BY <2>4 DEF Exchange!TooLate
  <2>5. CASE Exchange!Collect(p)
      BY <2>5 DEF Exchange!Collect
  <2>6. CASE Exchange!Missed(p)
      BY <2>6 DEF Exchange!Missed
  <2>7. CASE Exchange!Expire(p)
      BY <2>7 DEF Exchange!Expire
  <2> QED
      BY <2>1, <2>2, <2>3, <2>4, <2>5, <2>6, <2>7 DEF Exchange!Inside
<1>3. CallInv'
    BY <1>2 DEF CallInv
<1> QED
    BY <1>1, <1>2, <1>3

(* The end of a visit: the caller is out, the slot has been set or left alone. *)
LEMMA LeaveTypes ==
    ASSUME TypeInv, NEW p \in Process, NEW from \in {"look", "take", "await", "clear"},
           Exchange!Leave(p, from),
           slot' = slot \/ \E item \in Item, stamp \in {"EMPTY", "BUSY"} : Exchange!SetSlot(p, item, stamp)
    PROVE  /\ Exchange!TypeOK'
           /\ xpc[p] # "out" /\ xpc' = [xpc EXCEPT ![p] = "out"]
<1> USE EngineAssumption DEF TypeInv, Exchange!TypeOK
<1>1. slot' \in [Exchange!Slot -> [item : Item, stamp : {"EMPTY", "WAITING", "BUSY"}]]
  <2>1. CASE slot' = slot
      BY <2>1
  <2>2. ASSUME NEW item \in Item, NEW stamp \in {"EMPTY", "BUSY"}, Exchange!SetSlot(p, item, stamp)
        PROVE  slot' \in [Exchange!Slot -> [item : Item, stamp : {"EMPTY", "WAITING", "BUSY"}]]
    <3>1. Exchange!Holds(item, stamp) \in [item : Item, stamp : {"EMPTY", "WAITING", "BUSY"}]
        BY DEF Exchange!Holds
    <3> QED
        BY <2>2, <3>1 DEF Exchange!SetSlot
  <2> QED
      BY <2>1, <2>2
<1>2. /\ xpc' \in [Process -> {"out", "look", "offer", "take", "await", "collect", "clear"}]
      /\ xpc[p] # "out" /\ xpc' = [xpc EXCEPT ![p] = "out"]
    BY DEF Exchange!Leave, Exchange!Goto
<1>3. at' \in [Process -> Exchange!Slot] /\ expired' \in [Process -> BOOLEAN]
    BY DEF Exchange!Leave, Exchange!Slot
<1>4. myItem' \in [Process -> Item] /\ yrItem' \in [Process -> Item]
    BY DEF Exchange!Leave
<1> QED
    BY <1>1, <1>2, <1>3, <1>4

LEMMA MetTypes == ASSUME TypeInv, NEW p \in Process, Met(p) PROVE TypeInv'
<1> USE EngineAssumption DEF TypeInv
<1>0. PICK item \in Item :
        /\ Exchange!Exchanged(p, item)
        /\ \/ List!Goto(p, "visit", "done") /\ ret' = [ret EXCEPT ![p] = item] /\ recordEliminationSuccess(p)
           \/ Again(p) /\ UNCHANGED <<ret, policyVars>>
        /\ UNCHANGED <<listVars, arg, oldTop, newTop, engineVars>>
    BY DEF Met
<1>1. /\ Exchange!TypeOK'
      /\ xpc[p] # "out" /\ xpc' = [xpc EXCEPT ![p] = "out"]
  <2>1. CASE Exchange!Clear(p)
      BY <2>1, LeaveTypes DEF Exchange!Clear
  <2>2. CASE Exchange!Take(p)
      BY <2>2, LeaveTypes DEF Exchange!Take, Exchange!TypeOK
  <2> QED
      BY <1>0, <2>1, <2>2 DEF Exchange!Exchanged
<1>2. List!StackTypeOK'
    BY <1>0 DEF List!StackTypeOK
<1>3. EngineTypes'
  <2>1. currentRange' \in [Process -> 1..Capacity]
    <3>1. CASE UNCHANGED currentRange
        BY <3>1 DEF EngineTypes
    <3>2. CASE recordEliminationSuccess(p)
        BY <3>2 DEF EngineTypes, recordEliminationSuccess
    <3> QED
        BY <1>0, <3>1, <3>2
  <2>2. pc' \in [Process -> {"idle", "push", "pushCas", "pop", "popNext", "popCas", "retry", "visit", "done"}]
      BY <1>0 DEF EngineTypes, Again, List!Goto
  <2> QED
      BY <1>0, <2>1, <2>2 DEF EngineTypes
<1>4. CallInv'
  <2>1. /\ pc[p] = "visit" /\ pc'[p] \in {"pop", "push", "done"}
        /\ pc'[p] = "push" => arg[p] # null
        /\ \A q \in Process : q # p => pc'[q] = pc[q]
      BY <1>0 DEF EngineTypes, Again, List!Goto
  <2>2. xpc'[p] = "out" /\ \A q \in Process : q # p => xpc'[q] = xpc[q]
      BY <1>1 DEF Exchange!TypeOK
  <2>3. UNCHANGED <<arg, made, oldTop, ops>>
      BY <1>0
  <2>4. CallInv
      OBVIOUS
  <2> QED
      BY ONLY <2>1, <2>2, <2>3, <2>4 DEF CallInv
<1> QED
    BY <1>1, <1>2, <1>3, <1>4

LEMMA TimedOutTypes == ASSUME TypeInv, NEW p \in Process, TimedOut(p) PROVE TypeInv'
<1> USE EngineAssumption DEF TypeInv, TimedOut
<1>1. /\ Exchange!TypeOK'
      /\ xpc[p] # "out" /\ xpc' = [xpc EXCEPT ![p] = "out"]
  <2>1. CASE Exchange!NoSlot(p)
      BY <2>1, LeaveTypes DEF Exchange!NoSlot
  <2>2. CASE Exchange!Withdraw(p)
      BY <2>2, LeaveTypes DEF Exchange!Withdraw
  <2> QED
      BY <2>1, <2>2 DEF Exchange!TimedOut
<1>2. List!StackTypeOK'
    BY DEF List!StackTypeOK
<1>3. EngineTypes'
  <2>1. currentRange' \in [Process -> 1..Capacity]
      BY DEF EngineTypes, recordEliminationTimeout
  <2>2. pc' \in [Process -> {"idle", "push", "pushCas", "pop", "popNext", "popCas", "retry", "visit", "done"}]
      BY DEF EngineTypes, Again, List!Goto
  <2> QED
      BY <2>1, <2>2 DEF EngineTypes
<1>4. CallInv'
    BY <1>1 DEF CallInv, EngineTypes, Again, List!Goto, Exchange!TypeOK
<1> QED
    BY <1>1, <1>2, <1>3, <1>4
---------------------------------------------------------------------------------
(* The benchmark. *)

LEMMA CallTypes == ASSUME TypeInv, NEW t \in Thread, Call(t) PROVE TypeInv'
<1> USE EngineAssumption DEF TypeInv, Call, List!Goto
<1>1. CASE List!CallPop(t)
  <2> USE <1>1 DEF List!CallPop
  <2>1. List!StackTypeOK' /\ Exchange!TypeOK' /\ EngineTypes'
      BY DEF List!StackTypeOK, Exchange!TypeOK, EngineTypes
  <2>2. CallInv'
      BY DEF CallInv, EngineTypes
  <2> QED
      BY <2>1, <2>2
<1>2. CASE \E v \in Numbers[ops[t] + 1] : List!CallPush(t, v)
  <2>0. PICK v \in Numbers[ops[t] + 1] : List!CallPush(t, v)
      BY <1>2
  <2> USE <2>0 DEF List!CallPush, List!Node
  <2>1. ops[t] + 1 \in 1..OperationAmount
      BY DEF EngineTypes
  <2>2. v \in Value /\ v # null
      BY <2>1 DEF Value
  <2>3. List!StackTypeOK'
      BY <2>2 DEF List!StackTypeOK
  <2>4. Exchange!TypeOK' /\ EngineTypes'
      BY DEF Exchange!TypeOK, EngineTypes
  <2>5. CallInv'
    <3> SUFFICES ASSUME NEW q \in Process PROVE CallInv!(q)'
        BY DEF CallInv
    <3>1. CASE q = t
      <4>1. /\ pc[t] = "idle" /\ pc'[t] = "push" /\ arg'[t] # null /\ made'[t] > 0
            /\ ops'[t] < OperationAmount /\ xpc' = xpc
          BY <2>2 DEF EngineTypes, List!StackTypeOK
      <4>2. CallInv
          OBVIOUS
      <4> QED
          BY ONLY t \in Process, <3>1, <4>1, <4>2 DEF CallInv
    <3>2. CASE q # t
        BY <3>2 DEF CallInv, EngineTypes, List!StackTypeOK
    <3> QED
        BY <3>1, <3>2
  <2> QED
      BY <2>3, <2>4, <2>5
<1> QED
    BY <1>1, <1>2

(* What the end of a call changes, of a benchmark thread or of main. *)
LEMMA ReturnTypes ==
    ASSUME TypeInv, NEW p \in Process, List!Goto(p, "done", "idle"), List!Leave(p),
           UNCHANGED <<arrayVars, policyVars>>,
           ops' \in [Process -> 0..OperationAmount],
           pushCount' \in [Process -> Nat], popCount' \in [Process -> Nat],
           \A q \in Process : q # p => ops'[q] = ops[q]
    PROVE  TypeInv'
<1> USE EngineAssumption DEF TypeInv, List!Goto, List!Leave
<1>1. List!StackTypeOK'
    BY DEF List!StackTypeOK
<1>2. Exchange!TypeOK' /\ EngineTypes'
    BY DEF Exchange!TypeOK, EngineTypes
<1>3. CallInv'
    BY DEF CallInv, EngineTypes, List!StackTypeOK
<1> QED
    BY <1>1, <1>2, <1>3

LEMMA NextTypes == TypeInv /\ [Next]_vars => TypeInv'
<1> SUFFICES ASSUME TypeInv, [Next]_vars PROVE TypeInv'
    OBVIOUS
<1>1. ASSUME NEW p \in Process, Operation(p) PROVE TypeInv'
    BY <1>1, TryTypes, VisitTypes, WaitTypes, MetTypes, TimedOutTypes DEF Operation
<1>2. ASSUME NEW t \in Thread, Call(t) PROVE TypeInv'
    BY <1>2, CallTypes
<1>3. ASSUME NEW t \in Thread, Return(t) PROVE TypeInv'
  <2>1. ops[t] < OperationAmount
      BY <1>3 DEF TypeInv, CallInv, Return, List!Goto
  <2>2. ops' \in [Process -> 0..OperationAmount]
      BY <1>3, <2>1, EngineAssumption DEF TypeInv, EngineTypes, Return
  <2>3. pushCount' \in [Process -> Nat] /\ popCount' \in [Process -> Nat]
      BY <1>3 DEF TypeInv, EngineTypes, Return, Incremented
  <2> QED
      BY <1>3, <2>2, <2>3, ReturnTypes DEF Return, TypeInv, EngineTypes
<1>4. CASE Drain
  <2> USE <1>4, EngineAssumption DEF Drain, List!CallPop, List!Goto, TypeInv
  <2>1. List!StackTypeOK' /\ Exchange!TypeOK' /\ EngineTypes'
      BY DEF List!StackTypeOK, Exchange!TypeOK, EngineTypes
  <2>2. CallInv'
      BY DEF CallInv, EngineTypes
  <2> QED
      BY <2>1, <2>2
<1>5. CASE Drained
  <2>1. popCount' \in [Process -> Nat]
      BY <1>5 DEF TypeInv, EngineTypes, Drained, Incremented
  <2> QED
      BY <1>5, <2>1, ReturnTypes DEF Drained, TypeInv, EngineTypes
<1>6. CASE UNCHANGED vars
    BY <1>6 DEF vars, TypeInv, List!StackTypeOK, Exchange!TypeOK, EngineTypes, CallInv
<1> QED
    BY <1>1, <1>2, <1>3, <1>4, <1>5, <1>6 DEF Next, MainStep, ThreadStep, Over

(* EliminationStack's fields and locals keep their types; in particular a thread
   never visits a slot that RangePolicy does not allow. *)
THEOREM TypeCorrect == Spec => []TypeOK
<1>1. Init => TypeInv
    BY InitTypes
<1>2. TypeInv /\ [Next]_vars => TypeInv'
    BY NextTypes
<1>3. TypeInv => TypeOK
    BY TypeInvImplies
<1> QED
    BY <1>1, <1>2, <1>3, PTL DEF Spec
---------------------------------------------------------------------------------
(* The slots. *)

(* A step of p that changes no slot, and p neither starts nor ends to wait. *)
LEMMA NothingWaited ==
    ASSUME Exchange!TypeOK, SlotInv, NEW p \in Process,
           xpc[p] \notin {"await", "collect", "clear"},
           xpc'[p] \notin {"await", "collect", "clear"},
           UNCHANGED slot,
           \A q \in Process : q # p => xpc'[q] = xpc[q] /\ at'[q] = at[q]
                                       /\ myItem'[q] = myItem[q] /\ yrItem'[q] = yrItem[q]
    PROVE  SlotInv'
<1> SUFFICES ASSUME NEW s \in Exchange!Slot PROVE Exchange!SlotOK(s)'
    BY DEF SlotInv, Exchange!SlotInv, Exchange!Slot
<1>1. Exchange!SlotOK(s)
    BY DEF SlotInv, Exchange!SlotInv
<1>2. Exchange!Waiting(s)' = Exchange!Waiting(s) /\ p \notin Exchange!Waiting(s)
    BY DEF Exchange!Waiting
<1> QED
    BY <1>1, <1>2 DEF Exchange!SlotOK, Exchange!Free, Exchange!Holds, Exchange!Waiting

(* A step of p in its slot s that leaves every other slot and caller alone. *)
OnlyIn(p, s) ==
    /\ \A r \in Exchange!Slot : r # s => slot'[r] = slot[r]
    /\ at[p] = s
    /\ \A q \in Process : q # p => xpc'[q] = xpc[q] /\ at'[q] = at[q]
                                   /\ myItem'[q] = myItem[q] /\ yrItem'[q] = yrItem[q]
    /\ at'[p] = s \/ xpc'[p] = "out"

LEMMA OtherSlots ==
    ASSUME Exchange!TypeOK, SlotInv, NEW p \in Process, NEW s \in Exchange!Slot, OnlyIn(p, s),
           NEW r \in Exchange!Slot, r # s
    PROVE  Exchange!SlotOK(r)'
<1>1. Exchange!SlotOK(r)
    BY DEF SlotInv, Exchange!SlotInv
<1>2. Exchange!Waiting(r)' = Exchange!Waiting(r) /\ p \notin Exchange!Waiting(r)
    BY DEF OnlyIn, Exchange!Waiting
<1> QED
    BY <1>1, <1>2 DEF OnlyIn, Exchange!SlotOK, Exchange!Free, Exchange!Holds, Exchange!Waiting

LEMMA WaitSlots == ASSUME TypeInv, SlotInv, NEW p \in Process, Wait(p) PROVE SlotInv'
<1> USE DEF Wait, TypeInv, Exchange!TypeOK
<1>1. CASE Exchange!Look(p)
    BY <1>1, NothingWaited DEF Exchange!Look, Exchange!Goto
<1>2. CASE Exchange!Missed(p)
    BY <1>2, NothingWaited DEF Exchange!Missed, Exchange!Goto
<1>3. CASE Exchange!Expire(p)
    BY <1>3 DEF Exchange!Expire, SlotInv, Exchange!SlotInv, Exchange!SlotOK, Exchange!Waiting
<1> PICK s \in Exchange!Slot : s = at[p]
    OBVIOUS
<1>0. s \in Exchange!Slot /\ s = at[p] /\ Exchange!SlotOK(s)
    BY DEF SlotInv, Exchange!SlotInv
<1>4. CASE Exchange!Offer(p) /\ slot' # slot
  <2>1. OnlyIn(p, s)
      BY <1>0, <1>4 DEF OnlyIn, Exchange!Offer, Exchange!SetSlot, Exchange!Goto
  <2>2. /\ slot[s].stamp = "EMPTY" /\ slot'[s] = Exchange!Holds(myItem[p], "WAITING")
        /\ xpc'[p] = "await" /\ at' = at /\ myItem' = myItem
      BY <1>0, <1>4 DEF Exchange!Offer, Exchange!SetSlot, Exchange!Goto, Exchange!Matches, Exchange!Holds
  <2>3. Exchange!Waiting(s) = {} /\ Exchange!Waiting(s)' = {p}
      BY <1>0, <2>1, <2>2 DEF Exchange!SlotOK, Exchange!Waiting, OnlyIn
  <2>4. Exchange!SlotOK(s)'
      BY <2>2, <2>3 DEF Exchange!SlotOK, Exchange!Holds
  <2> QED
      BY <1>0, <2>1, <2>4, OtherSlots DEF SlotInv, Exchange!SlotInv, Exchange!Slot
<1>5. CASE Exchange!Offer(p) /\ slot' = slot
  <2>1. CASE Exchange!Matches(p, yrItem[p], "EMPTY")
    <3>1. slot[s].stamp = "EMPTY" /\ slot'[s].stamp = "WAITING"
        BY <1>0, <1>5, <2>1 DEF Exchange!Offer, Exchange!Matches, Exchange!SetSlot, Exchange!Holds
    <3> QED
        BY <3>1, <1>5
  <2>2. CASE ~Exchange!Matches(p, yrItem[p], "EMPTY")
      BY <1>5, <2>2, NothingWaited DEF Exchange!Offer, Exchange!Goto
  <2> QED
      BY <2>1, <2>2
(* The waiter has seen that its slot is BUSY. *)
<1>6. ASSUME slot[s].stamp = "BUSY", p \in Exchange!Waiting(s), UNCHANGED <<slot, at, myItem>>,
             xpc' = [xpc EXCEPT ![p] = "collect"] \/ xpc' = [xpc EXCEPT ![p] = "clear"],
             yrItem' = yrItem \/ yrItem' = [yrItem EXCEPT ![p] = slot[s].item],
             xpc'[p] = "clear" => yrItem'[p] = slot[s].item
      PROVE  SlotInv'
  <2>1. OnlyIn(p, s)
      BY <1>0, <1>6 DEF OnlyIn
  <2>2. Exchange!Waiting(s)' = Exchange!Waiting(s) /\ Exchange!Waiting(s) = {p}
      BY <1>0, <1>6 DEF Exchange!Waiting, Exchange!SlotOK
  <2>3. slot[s] = Exchange!Holds(slot[s].item, "BUSY")
      BY <1>0, <1>6 DEF Exchange!Holds
  <2>4. Exchange!SlotOK(s)'
      BY <1>6, <2>2, <2>3 DEF Exchange!SlotOK
  <2> QED
      BY <1>0, <2>1, <2>4, OtherSlots DEF SlotInv, Exchange!SlotInv, Exchange!Slot
<1>7. CASE Exchange!Await(p)
    BY <1>6, <1>7 DEF Exchange!Await, Exchange!Goto, Exchange!Waiting
<1>8. CASE Exchange!TooLate(p)
  <2>1. p \in Exchange!Waiting(s) /\ xpc[p] = "await"
      BY <1>8 DEF Exchange!TooLate, Exchange!Goto, Exchange!Waiting
  <2>2. slot[s].stamp # "EMPTY"
      BY <1>0, <2>1 DEF Exchange!SlotOK
  <2>3. slot[s].stamp # "WAITING"
      BY <1>0, <1>8, <2>1 DEF Exchange!SlotOK, Exchange!TooLate, Exchange!Matches, Exchange!Holds
  <2>4. slot[s].stamp = "BUSY"
      BY <1>0, <2>2, <2>3
  <2> QED
      BY <1>6, <1>8, <2>1, <2>4 DEF Exchange!TooLate, Exchange!Goto
<1>9. CASE Exchange!Collect(p)
  <2>1. p \in Exchange!Waiting(s) /\ slot[s].stamp = "BUSY"
      BY <1>0, <1>9 DEF Exchange!Collect, Exchange!Goto, Exchange!Waiting, Exchange!SlotOK
  <2> QED
      BY <1>6, <1>9, <2>1 DEF Exchange!Collect, Exchange!Goto
<1> QED
    BY <1>1, <1>2, <1>3, <1>4, <1>5, <1>7, <1>8, <1>9 DEF Exchange!Inside

(* The waiter empties its slot: with the answer in hand, or before there is one. *)
LEMMA EmptiedSlots ==
    ASSUME Exchange!TypeOK, SlotInv, NEW p \in Process, NEW from \in {"await", "clear"},
           Exchange!SetSlot(p, null, "EMPTY"), Exchange!Leave(p, from)
    PROVE  SlotInv'
<1> USE DEF Exchange!TypeOK, Exchange!Leave, Exchange!Goto, Exchange!SetSlot
<1> PICK s \in Exchange!Slot : s = at[p]
    OBVIOUS
<1>0. s \in Exchange!Slot /\ s = at[p] /\ Exchange!SlotOK(s) /\ p \in Exchange!Waiting(s)
    BY DEF SlotInv, Exchange!SlotInv, Exchange!Waiting
<1>1. OnlyIn(p, s)
    BY <1>0 DEF OnlyIn
<1>2. Exchange!Waiting(s)' = {}
    BY <1>0, <1>1 DEF Exchange!SlotOK, Exchange!Waiting, OnlyIn
<1>3. slot'[s] = Exchange!Free
    BY <1>0 DEF Exchange!Free, Exchange!Holds
<1>4. Exchange!SlotOK(s)'
    BY <1>2, <1>3 DEF Exchange!SlotOK, Exchange!Free, Exchange!Holds
<1> QED
    BY <1>0, <1>1, <1>4, OtherSlots DEF SlotInv, Exchange!SlotInv, Exchange!Slot

(* The second caller's step: the waiter is at "await" and stays there. *)
LEMMA TakenSlots ==
    ASSUME Exchange!TypeOK, SlotInv, NEW p \in Process, Exchange!Take(p) PROVE SlotInv'
<1> USE DEF Exchange!TypeOK, Exchange!Take, Exchange!Leave, Exchange!Goto, Exchange!SetSlot
<1> PICK s \in Exchange!Slot : s = at[p]
    OBVIOUS
<1>0. s \in Exchange!Slot /\ s = at[p] /\ Exchange!SlotOK(s)
    BY DEF SlotInv, Exchange!SlotInv
<1>1. OnlyIn(p, s)
    BY <1>0 DEF OnlyIn
<1>2. slot[s].stamp = "WAITING" /\ slot'[s].stamp = "BUSY"
    BY <1>0 DEF Exchange!Matches, Exchange!Holds
<1>3. PICK w \in Exchange!Waiting(s) : xpc[w] = "await"
    BY <1>0, <1>2 DEF Exchange!SlotOK
<1>4. w # p /\ Exchange!Waiting(s) = {w} /\ Exchange!Waiting(s)' = {w} /\ xpc'[w] = "await"
    BY <1>0, <1>1, <1>3 DEF Exchange!SlotOK, Exchange!Waiting, OnlyIn
<1>5. Exchange!SlotOK(s)'
    BY <1>2, <1>4 DEF Exchange!SlotOK
<1> QED
    BY <1>0, <1>1, <1>5, OtherSlots DEF SlotInv, Exchange!SlotInv, Exchange!Slot

LEMMA NextSlots == TypeInv /\ SlotInv /\ [Next]_vars => SlotInv'
<1> SUFFICES ASSUME TypeInv, SlotInv, [Next]_vars PROVE SlotInv'
    OBVIOUS
<1>0. Exchange!TypeOK
    BY DEF TypeInv
<1>1. ASSUME UNCHANGED arrayVars PROVE SlotInv'
    BY <1>1 DEF SlotInv, Exchange!SlotInv, Exchange!SlotOK, Exchange!Waiting
<1>2. ASSUME NEW p \in Process, Operation(p) PROVE SlotInv'
  <2>1. CASE Try(p)
      BY <1>1, <2>1 DEF Try
  <2>2. CASE Visit(p)
      BY <1>0, <2>2, NothingWaited DEF Visit, Exchange!Visit, Exchange!Goto, Exchange!TypeOK
  <2>3. CASE Wait(p)
      BY <2>3, WaitSlots
  <2>4. CASE Met(p)
      BY <1>0, <2>4, EmptiedSlots, TakenSlots DEF Met, Exchange!Exchanged, Exchange!Clear
  <2>5. CASE TimedOut(p)
    <3>1. CASE Exchange!NoSlot(p)
        BY <1>0, <3>1, NothingWaited DEF Exchange!NoSlot, Exchange!Leave, Exchange!Goto, Exchange!TypeOK
    <3>2. CASE Exchange!Withdraw(p)
        BY <1>0, <3>2, EmptiedSlots DEF Exchange!Withdraw
    <3> QED
        BY <2>5, <3>1, <3>2 DEF TimedOut, Exchange!TimedOut
  <2> QED
      BY <1>2, <2>1, <2>2, <2>3, <2>4, <2>5 DEF Operation
<1>3. ASSUME NEW t \in Thread, Call(t) \/ Return(t) PROVE SlotInv'
    BY <1>1, <1>3 DEF Call, Return
<1>4. CASE Drain \/ Drained \/ UNCHANGED vars
    BY <1>1, <1>4 DEF Drain, Drained, vars
<1> QED
    BY <1>2, <1>3, <1>4 DEF Next, MainStep, ThreadStep, Over

(* Each slot of the elimination array belongs to at most one waiting thread,
   and what a second thread puts there stays until the first has read it. *)
THEOREM SlotsCorrect == Spec => []SlotInv
<1>1. Init => TypeInv /\ SlotInv
  <2>1. Init => SlotInv
      BY DEF Init, Exchange!Init, SlotInv, Exchange!SlotInv, Exchange!SlotOK, Exchange!Waiting,
             Exchange!Free, Exchange!Holds
  <2> QED
      BY <2>1, InitTypes
<1>2. TypeInv /\ SlotInv /\ [Next]_vars => (TypeInv /\ SlotInv)'
    BY NextTypes, NextSlots
<1> QED
    BY <1>1, <1>2, PTL DEF Spec

(* Every slot a thread visits exists and belongs to at most one waiting thread, for any
   number of threads, calls and slots. *)
THEOREM ArrayCorrect == Spec => []ArrayInv
<1>1. TypeOK /\ SlotInv => ArrayInv
    BY DEF ArrayInv
<1> QED
    BY <1>1, TypeCorrect, SlotsCorrect, PTL

---------------------------------------------------------------------------------
(* The list: what Contents computes by walking from top. *)

(* Induction, for a set: a smallest number outside of it would follow one inside. *)
LEMMA Induction ==
    ASSUME NEW S, 0 \in S, \A n \in Nat : n \in S => n + 1 \in S
    PROVE  Nat \subseteq S
<1> DEFINE R == {ss \in Nat \X Nat : ss[1] < ss[2]}
<1> SUFFICES ASSUME Nat \ S # {} PROVE FALSE
    OBVIOUS
<1>1. IsWellFoundedOn(R, Nat)
    BY NatLessThanWellFounded DEF OpToRel
<1>2. PICK m \in Nat \ S : \A k \in Nat \ S : <<k, m>> \notin R
    BY <1>1, WFMin
<1>3. m # 0 /\ m - 1 \in Nat
    BY <1>2
<1>4. <<m - 1, m>> \in R
    BY <1>3
<1>5. m - 1 \in S
    BY <1>2, <1>3, <1>4
<1> QED
    BY <1>2, <1>3, <1>5

(* The nodes s[1], .., s[n] are the list from first on. *)
IsList(n, s, first, after) ==
    /\ n \in Nat
    /\ s \in [1..n -> List!Node]
    /\ \A i, j \in 1..n : s[i] = s[j] => i = j
    /\ first = IF n = 0 THEN null ELSE s[1]
    /\ \A i \in 1..n : after[s[i]] = IF i = n THEN null ELSE s[i + 1]

(* The cardinalities that LockFreeStack takes are the library's. *)
LEMMA SameCardinality == ASSUME NEW S PROVE List!Cardinality(S) = Cardinality(S)
    BY DEF List!Cardinality, Cardinality

LEMMA ListFits ==
    ASSUME NEW n, NEW s, NEW first, NEW after, IsList(n, s, first, after)
    PROVE  List!Depth \in Nat /\ n <= List!Depth
<1>0. n \in Nat /\ IsFiniteSet(Thread) /\ IsFiniteSet({Main})
    BY EngineAssumption, FS_Singleton DEF IsList
<1>1. IsFiniteSet(Process) /\ IsFiniteSet(1..OperationAmount)
  <2>1. IsFiniteSet(Process)
      BY <1>0, FS_Union DEF Process
  <2>2. IsFiniteSet(1..OperationAmount)
    <3>1. 1 \in Int /\ OperationAmount \in Int
        BY EngineAssumption
    <3> QED
        BY ONLY <3>1, FS_Interval
  <2> QED
      BY <2>1, <2>2
<1>2. IsFiniteSet(List!Node)
    BY ONLY <1>1, FS_Product DEF List!Node
<1>3. s \in Injection(1..n, List!Node)
    BY DEF IsList, Injection, IsInjective
<1>4. Cardinality(1..n) <= Cardinality(List!Node)
    BY <1>2, <1>3, FS_Injection
<1>5. Cardinality(1..n) = n
  <2>1. 1 \in Int /\ n \in Int
      BY <1>0
  <2> QED
      BY <1>0, <2>1, FS_Interval
<1>6. Cardinality(List!Node) \in Nat
    BY <1>2, FS_CardinalityType
<1>7. n <= Cardinality(List!Node)
    BY ONLY <1>4, <1>5
<1>8. List!Depth = Cardinality(List!Node)
    BY SameCardinality DEF List!Depth
<1> QED
    BY ONLY <1>6, <1>7, <1>8

LEMMA LinkedNodes ==
    ASSUME NEW n, NEW s, NEW first, NEW after, IsList(n, s, first, after)
    PROVE  \A k \in 0..List!Depth :
               List!Linked(first, after)[k] = IF k < n THEN s[k + 1] ELSE null
<1> DEFINE D == List!Depth
           Walks(f) == f = [k \in 0..D |->
                               IF k = 0 THEN first
                               ELSE IF f[k - 1] = null THEN null ELSE after[f[k - 1]]]
           g == [k \in 0..D |-> IF k < n THEN s[k + 1] ELSE null]
<1>0. D \in Nat /\ n \in Nat /\ n <= D
  <2>1. n \in Nat
      BY DEF IsList
  <2> QED
      BY <2>1, ListFits
<1> HIDE DEF D
<1>1. \A k \in 0..D : k < n => s[k + 1] \in List!Node /\ s[k + 1] # null
    BY <1>0, EngineAssumption DEF IsList, List!Node, Process
<1>2. \A k \in 0..D :
        g[k] = IF k = 0 THEN first ELSE IF g[k - 1] = null THEN null ELSE after[g[k - 1]]
  <2> SUFFICES ASSUME NEW k \in 0..D
               PROVE  g[k] = IF k = 0 THEN first
                             ELSE IF g[k - 1] = null THEN null ELSE after[g[k - 1]]
      OBVIOUS
  <2>1. CASE k = 0
      BY <1>0, <2>1 DEF IsList
  <2>2. CASE k # 0 /\ k <= n
    <3>1. k \in 1..n /\ k - 1 \in 0..D /\ k - 1 < n /\ k - 1 + 1 = k
        BY <1>0, <2>2
    <3>3. g[k - 1] = s[k] /\ s[k] # null
        BY <1>1, <3>1
    <3>2. after[s[k]] = IF k = n THEN null ELSE s[k + 1]
        BY <3>1 DEF IsList
    <3> QED
        BY <1>0, <2>2, <3>1, <3>2, <3>3
  <2>3. CASE k # 0 /\ k > n
      BY <1>0, <2>3
  <2> QED
      BY <1>0, <2>1, <2>2, <2>3
<1>3. Walks(g)
  <2>1. g = [k \in 0..D |-> g[k]]
      OBVIOUS
  <2> HIDE DEF g
  <2> QED
      BY <1>2, <2>1
<1>4. PICK f : f = CHOOSE x : Walks(x)
    OBVIOUS
<1>5. Walks(f)
  <2> HIDE DEF Walks, g
  <2> QED
      BY <1>3, <1>4
<1>6. List!Linked(first, after) = f
    BY <1>4 DEF List!Linked, D
<1>7. \A k \in 0..D :
        f[k] = IF k = 0 THEN first ELSE IF f[k - 1] = null THEN null ELSE after[f[k - 1]]
    BY <1>5
<1> DEFINE S == {k \in Nat : k <= D => f[k] = g[k]}
<1> HIDE DEF g, Walks
<1>8. 0 \in S
    BY <1>0, <1>2, <1>7
<1>9. ASSUME NEW k \in Nat, k \in S PROVE k + 1 \in S
  <2>1. CASE k + 1 <= D
    <3>1. f[k] = g[k] /\ k + 1 \in 0..D /\ k + 1 # 0 /\ k + 1 - 1 = k
        BY <1>0, <1>9, <2>1
    <3>2. f[k + 1] = g[k + 1]
        BY <1>2, <1>7, <3>1
    <3> QED
        BY <3>2
  <2>2. CASE ~(k + 1 <= D)
      BY <2>2
  <2> QED
      BY <2>1, <2>2
<1>10. Nat \subseteq S
  <2> HIDE DEF S
  <2> QED
      BY <1>8, <1>9, Induction
<1>11. \A k \in 0..D : f[k] = g[k]
    BY <1>0, <1>10
<1> QED
    BY <1>6, <1>11 DEF g, D

(* What Contents is, whatever the values of the nodes are. *)
LEMMA LinkedContents ==
    ASSUME NEW n, NEW s, NEW first, NEW after, NEW vals, IsList(n, s, first, after)
    PROVE  LET chain  == List!Linked(first, after)
               linked == {k \in 0..(List!Depth - 1) : chain[k] # null}
           IN  [k \in 1..Cardinality(linked) |-> vals[chain[k - 1]]] = [k \in 1..n |-> vals[s[k]]]
<1> DEFINE chain  == List!Linked(first, after)
           linked == {k \in 0..(List!Depth - 1) : chain[k] # null}
<1>1. List!Depth \in Nat /\ n \in Nat /\ n <= List!Depth
  <2>1. n \in Nat
      BY DEF IsList
  <2> QED
      BY <2>1, ListFits
<1>2. \A k \in 0..List!Depth : chain[k] = IF k < n THEN s[k + 1] ELSE null
    BY LinkedNodes
<1>3. \A k \in 1..n : s[k] # null
    BY EngineAssumption DEF IsList, List!Node, Process
<1> HIDE DEF chain
<1>4. linked = 0..(n - 1)
    BY <1>1, <1>2, <1>3
<1>5. Cardinality(linked) = n
  <2>1. 0 \in Int /\ n - 1 \in Int
      BY <1>1
  <2>2. Cardinality(0..(n - 1)) = IF 0 > n - 1 THEN 0 ELSE n - 1 - 0 + 1
      BY <2>1, FS_Interval
  <2>3. n = IF 0 > n - 1 THEN 0 ELSE n - 1 - 0 + 1
      BY <1>1
  <2> QED
      BY ONLY <1>4, <2>2, <2>3
<1>6. \A k \in 1..n : chain[k - 1] = s[k]
    BY <1>1, <1>2
<1> HIDE DEF linked
<1>7. [k \in 1..Cardinality(linked) |-> vals[chain[k - 1]]] = [k \in 1..n |-> vals[s[k]]]
    BY <1>5, <1>6
<1> QED
    BY <1>7 DEF chain, linked

(* The values from the top, now and after a step. *)
LEMMA ContentsOf ==
    ASSUME NEW n, NEW s, IsList(n, s, top, next)
    PROVE  List!Contents = [k \in 1..n |-> value[s[k]]]
BY LinkedContents, SameCardinality DEF List!Contents

LEMMA ContentsNext ==
    ASSUME NEW n, NEW s, IsList(n, s, top', next')
    PROVE  List!Contents' = [k \in 1..n |-> value'[s[k]]]
BY LinkedContents, SameCardinality DEF List!Contents

---------------------------------------------------------------------------------
(* What StackSpec rests on. *)

(* p's push has a node that nobody else sees. *)
Own(p) == pc[p] \in {"push", "pushCas", "retry", "visit"} /\ arg[p] # null

(* The other nodes are or were on the list, or were never needed: nobody will change
   them. *)
Public(n) == n[2] <= IF Own(n[1]) THEN made[n[1]] - 1 ELSE made[n[1]]

ListInv ==
    \E n, s : IsList(n, s, top, next) /\ \A i \in 1..n : Public(s[i])

(* What a call has read is still so when its compareAndSet succeeds. *)
ReadInv(p) ==
    /\ pc[p] \in {"idle", "pop", "popNext", "popCas"} => arg[p] = null
    /\ Own(p) => value[List!NodeOf(p)] = arg[p]
    /\ pc[p] = "pushCas" => next[List!NodeOf(p)] = oldTop[p]
    /\ pc[p] \in {"popNext", "popCas"} => Public(oldTop[p])
    /\ pc[p] = "popCas" => newTop[p] = next[oldTop[p]]
    /\ pc[p] = "visit" => myItem[p] = arg[p]

ReadsInv == \A p \in Process : ReadInv(p)

Inv == TypeInv /\ SlotInv /\ ListInv /\ ReadsInv

LEMMA InitInv == Init => Inv /\ Abstract!Init
<1> SUFFICES ASSUME Init PROVE Inv /\ Abstract!Init
    OBVIOUS
<1> USE DEF Init, List!Init, Exchange!Init
<1>1. TypeInv /\ SlotInv
    BY InitTypes DEF SlotInv, Exchange!SlotInv, Exchange!SlotOK, Exchange!Waiting,
                     Exchange!Free, Exchange!Holds
<1>2. IsList(0, <<>>, top, next)
    BY DEF IsList
<1>3. ListInv
    BY <1>2 DEF ListInv
<1>4. ReadsInv
    BY DEF ReadsInv, ReadInv, Own
<1>5. List!Contents = <<>>
  <2>1. List!Contents = [k \in 1..0 |-> value[(<<>>)[k]]]
      BY <1>2, ContentsOf
  <2> QED
      BY <2>1
<1>6. [p \in Process |-> StackCall(p)] = [p \in Process |-> Abstract!Idle]
    BY DEF StackCall, Calls!Idle, Abstract!Idle
<1> QED
    BY <1>1, <1>3, <1>4, <1>5, <1>6 DEF Inv, Abstract!Init

---------------------------------------------------------------------------------
(* A step of p leaves the other calls alone, and the nodes of the others and of
   everybody. *)
Local(p) ==
    /\ \A q \in Process : q # p =>
         /\ pc'[q] = pc[q] /\ arg'[q] = arg[q] /\ ret'[q] = ret[q] /\ made'[q] = made[q]
         /\ oldTop'[q] = oldTop[q] /\ newTop'[q] = newTop[q]
         /\ xpc'[q] = xpc[q] /\ at'[q] = at[q] /\ myItem'[q] = myItem[q]
    /\ made'[p] >= made[p]
    /\ Own(p)' => made'[p] > made[p] \/ Own(p)
    /\ \A n \in List!Node : n[1] # p \/ Public(n) => next'[n] = next[n] /\ value'[n] = value[n]

LEMMA PublicStays ==
    ASSUME TypeInv, TypeInv', NEW p \in Process, Local(p), NEW n \in List!Node, Public(n)
    PROVE  Public(n)'
<1>1. /\ n[1] \in Process /\ n[2] \in Int
      /\ made[n[1]] \in Int /\ made'[n[1]] \in Int
    BY EngineAssumption DEF List!Node, TypeInv, List!StackTypeOK
<1>2. CASE n[1] = p
    BY <1>1, <1>2 DEF Local, Public
<1>3. CASE n[1] # p
    BY <1>1, <1>3 DEF Local, Public, Own
<1> QED
    BY <1>2, <1>3

LEMMA OthersRead ==
    ASSUME TypeInv, TypeInv', ReadsInv, NEW p \in Process, Local(p), NEW q \in Process, q # p
    PROVE  ReadInv(q)'
<1>1. ReadInv(q)
    BY DEF ReadsInv
<1>2. /\ pc'[q] = pc[q] /\ arg'[q] = arg[q] /\ made'[q] = made[q]
      /\ oldTop'[q] = oldTop[q] /\ newTop'[q] = newTop[q] /\ myItem'[q] = myItem[q]
    BY DEF Local
<1>3. arg[q] # null => List!NodeOf(q) \in List!Node /\ List!NodeOf(q)[1] = q
    BY EngineAssumption DEF List!NodeOf, List!Node, TypeInv, CallInv, List!StackTypeOK
<1>4. List!NodeOf(q)' = List!NodeOf(q) /\ Own(q)' = Own(q)
    BY <1>2 DEF List!NodeOf, Own
<1>5. arg[q] # null => /\ next'[List!NodeOf(q)] = next[List!NodeOf(q)]
                       /\ value'[List!NodeOf(q)] = value[List!NodeOf(q)]
    BY <1>3 DEF Local
<1>6. pc[q] \in {"popNext", "popCas"} =>
        Public(oldTop[q])' /\ next'[oldTop[q]] = next[oldTop[q]]
  <2> SUFFICES ASSUME pc[q] \in {"popNext", "popCas"}
               PROVE  Public(oldTop[q])' /\ next'[oldTop[q]] = next[oldTop[q]]
      OBVIOUS
  <2>1. PICK n \in List!Node : n = oldTop[q] /\ Public(n)
      BY <1>1 DEF ReadInv, TypeInv, CallInv
  <2>2. Public(n)' /\ next'[n] = next[n]
      BY <2>1, PublicStays DEF Local
  <2> QED
      BY <1>2, <2>1, <2>2 DEF Public
<1>7. pc[q] = "pushCas" => arg[q] # null
    BY DEF TypeInv, CallInv
<1> QED
  <2>1. Own(q) => arg[q] # null
      BY DEF Own
  <2>2. pc[q] = "popCas" => next'[oldTop[q]] = next[oldTop[q]]
      BY <1>6
  <2>3. pc[q] \in {"popNext", "popCas"} => Public(oldTop[q])'
      BY <1>6
  <2> QED
      BY <1>1, <1>2, <1>4, <1>5, <1>7, <2>1, <2>2, <2>3 DEF ReadInv

LEMMA ListKept ==
    ASSUME TypeInv, TypeInv', ListInv, NEW p \in Process, Local(p), UNCHANGED top
    PROVE  ListInv' /\ List!Contents' = List!Contents
<1>1. PICK n, s : IsList(n, s, top, next) /\ \A i \in 1..n : Public(s[i])
    BY DEF ListInv
<1>2. \A i \in 1..n : /\ s[i] \in List!Node /\ Public(s[i])'
                      /\ next'[s[i]] = next[s[i]] /\ value'[s[i]] = value[s[i]]
  <2> SUFFICES ASSUME NEW i \in 1..n
               PROVE  /\ s[i] \in List!Node /\ Public(s[i])'
                      /\ next'[s[i]] = next[s[i]] /\ value'[s[i]] = value[s[i]]
      OBVIOUS
  <2>1. PICK m \in List!Node : m = s[i] /\ Public(m)
      BY <1>1 DEF IsList
  <2>2. Public(m)' /\ next'[m] = next[m] /\ value'[m] = value[m]
      BY <2>1, PublicStays DEF Local
  <2> QED
      BY <2>1, <2>2
<1>3. IsList(n, s, top', next')
    BY <1>1, <1>2 DEF IsList
<1>4. ListInv'
    BY <1>2, <1>3 DEF ListInv
<1>5. List!Contents' = [k \in 1..n |-> value'[s[k]]]
    BY <1>3, ContentsNext
<1>6. List!Contents = [k \in 1..n |-> value[s[k]]]
    BY <1>1, ContentsOf
<1> QED
    BY <1>2, <1>4, <1>5, <1>6

(* The answer of another call depends on its slot only. *)
LEMMA SameCall ==
    ASSUME NEW q \in Process, pc'[q] = pc[q], arg'[q] = arg[q], ret'[q] = ret[q], at'[q] = at[q],
           Decided(q)' = Decided(q), Decided(q) => slot'[at[q]] = slot[at[q]]
    PROVE  StackCall(q)' = StackCall(q)
<1>1. Answered(q)' = Answered(q)
    BY DEF Answered, Decided, Opposed
<1>2. Answered(q) => Answer(q)' = Answer(q)
    BY DEF Answer, Answered
<1> QED
    BY <1>1, <1>2 DEF StackCall, Calls!Idle, Calls!Pushed, Calls!Pushing, Calls!Popped, Calls!Popping

---------------------------------------------------------------------------------
(* The steps of the calls, and what they are on the abstract stack. *)

Point == {"idle", "push", "pushCas", "pop", "popNext", "popCas", "retry", "visit", "done"}

USE DEF Point

Step == Abstract!Next \/ UNCHANGED Abstract!absVars

Promised == ListInv' /\ ReadsInv' /\ Step

LEMMA Fields ==
    ASSUME Inv
    PROVE  /\ pc \in [Process -> Point] /\ arg \in [Process -> Item] /\ value \in [List!Node -> Item]
           /\ ret \in [Process -> Value \cup {null, Empty}]
           /\ oldTop \in [Process -> List!Node \cup {null}] /\ newTop \in [Process -> List!Node \cup {null}]
           /\ \A p \in Process : made[p] \in Int
           /\ xpc \in [Process -> {"out", "look", "offer", "take", "await", "collect", "clear"}]
           /\ slot \in [Exchange!Slot -> [item : Item, stamp : {"EMPTY", "WAITING", "BUSY"}]]
           /\ at \in [Process -> Exchange!Slot] /\ myItem \in [Process -> Item]
<1>1. EngineTypes /\ List!StackTypeOK /\ Exchange!TypeOK
    BY DEF Inv, TypeInv
<1>2. /\ pc \in [Process -> Point] /\ arg \in [Process -> Item] /\ value \in [List!Node -> Item]
      /\ ret \in [Process -> Value \cup {null, Empty}]
      /\ oldTop \in [Process -> List!Node \cup {null}] /\ newTop \in [Process -> List!Node \cup {null}]
      /\ made \in [Process -> 0..OperationAmount]
    BY ONLY <1>1 DEF EngineTypes, List!StackTypeOK
<1>3. \A p \in Process : made[p] \in Int
    BY <1>2, EngineAssumption
<1>4. /\ xpc \in [Process -> {"out", "look", "offer", "take", "await", "collect", "clear"}]
      /\ slot \in [Exchange!Slot -> [item : Item, stamp : {"EMPTY", "WAITING", "BUSY"}]]
      /\ at \in [Process -> Exchange!Slot] /\ myItem \in [Process -> Item]
    BY ONLY <1>1 DEF Exchange!TypeOK
<1> QED
    BY ONLY <1>2, <1>3, <1>4

(* p is not inside a visit, so the array does not answer it. *)
LEMMA NotDecided == ASSUME TypeInv, NEW p \in Process, pc[p] # "visit" PROVE ~Decided(p)
BY DEF TypeInv, CallInv, Decided

LEMMA NotDecidedNext == ASSUME TypeInv', NEW p \in Process, pc'[p] # "visit" PROVE ~Decided(p)'
BY DEF TypeInv, CallInv, Decided

LEMMA OtherCalls ==
    ASSUME NEW p \in Process, Local(p), UNCHANGED slot, NEW q \in Process, q # p
    PROVE  StackCall(q)' = StackCall(q)
BY SameCall DEF Local, Decided

LEMMA AllRead ==
    ASSUME Inv, TypeInv', NEW p \in Process, Local(p), ReadInv(p)'
    PROVE  ReadsInv'
BY OthersRead DEF Inv, ReadsInv

(* A step that nobody sees. *)
LEMMA Hidden ==
    ASSUME Inv, TypeInv', NEW p \in Process, Local(p), ReadInv(p)', UNCHANGED top,
           \A q \in Process : StackCall(q)' = StackCall(q)
    PROVE  Promised
<1>1. ListInv' /\ List!Contents' = List!Contents
    BY ListKept DEF Inv
<1>2. ReadsInv'
    BY AllRead
<1>3. [q \in Process |-> StackCall(q)]' = [q \in Process |-> StackCall(q)]
    OBVIOUS
<1> QED
    BY <1>1, <1>2, <1>3 DEF Promised, Step, Abstract!absVars

(* Only the call of p changes. *)
LEMMA Changed ==
    ASSUME NEW p \in Process, NEW to, StackCall(p)' = to,
           \A q \in Process : q # p => StackCall(q)' = StackCall(q)
    PROVE  Abstract!Becomes(p, to)
BY DEF Abstract!Becomes

LEMMA ReadTopToPushStep ==
    ASSUME Inv, TypeInv', NEW p \in Process, Try(p), List!ReadTopToPush(p) PROVE Promised
<1> USE DEF Try, List!ReadTopToPush, List!Goto
<1>0. /\ pc[p] = "push" /\ pc' = [pc EXCEPT ![p] = "pushCas"] /\ arg[p] # null
      /\ pc \in [Process -> Point]
      /\ oldTop \in [Process -> List!Node \cup {null}] /\ next \in [List!Node -> List!Node \cup {null}]
    BY DEF Inv, TypeInv, CallInv, EngineTypes, List!StackTypeOK
<1>1. List!NodeOf(p) \in List!Node /\ ~Public(List!NodeOf(p)) /\ List!NodeOf(p)[1] = p
    BY <1>0, EngineAssumption DEF Inv, TypeInv, CallInv, List!StackTypeOK, List!NodeOf, List!Node, Public, Own
<1>2. Local(p)
  <2>1. made[p] \in Int
      BY EngineAssumption DEF Inv, TypeInv, List!StackTypeOK
  <2> QED
      BY <1>0, <1>1, <2>1 DEF Local, Own
<1>3. ReadInv(p)'
    BY <1>0, <1>1 DEF Inv, ReadsInv, ReadInv, Own, List!NodeOf
<1>4. StackCall(p)' = StackCall(p)
    BY <1>0, NotDecided, NotDecidedNext DEF Inv, StackCall, Answered, Calls!Pushing
<1> QED
    BY <1>2, <1>3, <1>4, OtherCalls, Hidden

LEMMA OneMore ==
    ASSUME NEW T, NEW v \in T, NEW n \in Nat, NEW c \in [1..n -> T], NEW d \in [1..(n + 1) -> T],
           d[1] = v, \A i \in 1..n : d[i + 1] = c[i]
    PROVE  d = <<v>> \o c /\ d # <<>> /\ Head(d) = v /\ Tail(d) = c
<1>1. c \in Seq(T) /\ Len(c) = n /\ d \in Seq(T) /\ Len(d) = n + 1
    OBVIOUS
<1>2. <<v>> \in Seq(T) /\ Len(<<v>>) = 1 /\ (<<v>>)[1] = v
    OBVIOUS
<1>3. d = <<v>> \o c
  <2>1. /\ <<v>> \o c \in Seq(T) /\ Len(<<v>> \o c) = 1 + n
        /\ \A i \in 1..(1 + n) : (<<v>> \o c)[i] = IF i <= 1 THEN (<<v>>)[i] ELSE c[i - 1]
      BY <1>1, <1>2, ConcatProperties
  <2>2. ASSUME NEW i \in 1..(n + 1) PROVE d[i] = (<<v>> \o c)[i]
    <3>1. CASE i = 1
        BY <1>2, <2>1, <3>1
    <3>2. CASE i # 1
      <4>1. i - 1 \in 1..n /\ i - 1 + 1 = i
          BY <3>2
      <4>2. d[i] = c[i - 1]
          BY <4>1
      <4>3. i \in 1..(1 + n) /\ ~(i <= 1)
          BY <3>2
      <4> QED
          BY <2>1, <4>2, <4>3
    <3> QED
        BY <3>1, <3>2
  <2> HIDE DEF IsList
  <2> QED
      BY ONLY <1>1, <2>1, <2>2, SeqEqual, n \in Nat
<1>4. d # <<>>
    BY <1>1
<1>5. Head(d) = v
    BY <1>1
<1>6. Tail(d) = c
  <2>1. /\ Tail(d) \in Seq(T) /\ Len(Tail(d)) = Len(d) - 1
        /\ \A i \in 1..Len(Tail(d)) : Tail(d)[i] = d[i + 1]
      BY <1>1, <1>4, HeadTailProperties
  <2>2. Len(Tail(d)) = n
      BY <1>1, <2>1
  <2>3. \A i \in 1..Len(Tail(d)) : Tail(d)[i] = c[i]
      BY <2>1, <2>2
  <2> QED
      BY ONLY <1>1, <2>1, <2>2, <2>3, SeqEqual
<1> QED
    BY <1>3, <1>4, <1>5, <1>6

(* The node of p's push becomes the first of the list. *)
LEMMA PushStep ==
    ASSUME Inv, TypeInv', NEW p \in Process, Try(p), List!PushCas(p), top = oldTop[p] PROVE Promised
<1> USE DEF Try, List!PushCas, List!Goto
<1>0. /\ pc[p] = "pushCas" /\ pc' = [pc EXCEPT ![p] = "done"] /\ arg[p] # null
      /\ pc \in [Process -> Point]
      /\ value \in [List!Node -> Item]
    BY DEF Inv, TypeInv, CallInv, EngineTypes, List!StackTypeOK
<1> PICK node : node = List!NodeOf(p)
    OBVIOUS
<1>1. node \in List!Node /\ ~Public(node) /\ node[1] = p /\ node[2] = made[p] /\ made[p] \in Int
    BY <1>0, EngineAssumption DEF Inv, TypeInv, CallInv, List!StackTypeOK, List!NodeOf, List!Node, Public, Own
<1>2. Local(p)
    BY <1>0, <1>1 DEF Local, Own
<1>3. ReadInv(p)'
    BY <1>0 DEF Inv, ReadsInv, ReadInv, Own
<1>4. value[node] = arg[p] /\ next[node] = top /\ top' = node
    BY <1>0 DEF Inv, ReadsInv, ReadInv, Own
<1>5. StackCall(p) = Abstract!Pushing(arg[p]) /\ StackCall(p)' = Abstract!Pushed
    BY <1>0, NotDecided DEF Inv, StackCall, Answered, Calls!Pushing, Calls!Pushed, Abstract!Pushing, Abstract!Pushed
<1>6. PICK n, s : IsList(n, s, top, next) /\ \A i \in 1..n : Public(s[i])
    BY DEF Inv, ListInv
<1> PICK r : r = [i \in 1..(n + 1) |-> IF i = 1 THEN node ELSE s[i - 1]]
    OBVIOUS
<1>7. n \in Nat /\ \A i \in 1..n : s[i] \in List!Node /\ s[i] # node
    BY <1>1, <1>6 DEF IsList
<1>8. r[1] = node /\ \A i \in 1..n : r[i + 1] = s[i]
    BY <1>7
<1>9. r \in [1..(n + 1) -> List!Node] /\ \A i \in 1..(n + 1) : i = 1 \/ (i - 1 \in 1..n /\ r[i] = s[i - 1])
    BY <1>1, <1>7
<1>10. IsList(n + 1, r, top', next')
  <2>1. \A i, j \in 1..(n + 1) : r[i] = r[j] => i = j
    <3> SUFFICES ASSUME NEW i \in 1..(n + 1), NEW j \in 1..(n + 1), r[i] = r[j] PROVE i = j
        OBVIOUS
    <3>1. CASE i = 1 \/ j = 1
        BY <1>7, <1>8, <1>9, <3>1
    <3>2. CASE i # 1 /\ j # 1
      <4>1. i - 1 \in 1..n /\ j - 1 \in 1..n /\ s[i - 1] = s[j - 1]
          BY <1>9, <3>2
      <4>2. i - 1 = j - 1
          BY <1>6, <4>1 DEF IsList
      <4> QED
          BY <4>2
    <3> QED
        BY <3>1, <3>2
  <2>2. \A i \in 1..(n + 1) : next[r[i]] = IF i = n + 1 THEN null ELSE r[i + 1]
    <3> SUFFICES ASSUME NEW i \in 1..(n + 1)
                 PROVE  next[r[i]] = IF i = n + 1 THEN null ELSE r[i + 1]
        OBVIOUS
    <3>1. CASE i = 1
      <4>1. next[r[i]] = IF n = 0 THEN null ELSE s[1]
          BY <1>4, <1>6, <1>8, <3>1 DEF IsList
      <4>2. n # 0 => r[2] = s[1]
          BY <1>7, <1>8
      <4> QED
          BY <1>7, <3>1, <4>1, <4>2
    <3>2. CASE i # 1
      <4>1. i - 1 \in 1..n /\ r[i] = s[i - 1]
          BY <1>9, <3>2
      <4>2. next[r[i]] = IF i - 1 = n THEN null ELSE s[i - 1 + 1]
          BY <1>6, <4>1 DEF IsList
      <4>3. i # n + 1 => i \in 1..n /\ r[i + 1] = s[i]
          BY <1>7, <1>8
      <4> QED
          BY <1>7, <4>2, <4>3
    <3> QED
        BY <3>1, <3>2
  <2> QED
      BY <1>4, <1>7, <1>8, <1>9, <2>1, <2>2 DEF IsList
<1>11. \A i \in 1..(n + 1) : Public(r[i])'
  <2>1. Public(node)'
      BY <1>0, <1>1 DEF Public, Own
  <2>2. \A i \in 1..n : Public(s[i])'
      BY <1>2, <1>6, <1>7, PublicStays DEF Inv
  <2> QED
      BY <1>8, <1>9, <2>1, <2>2 DEF Public
<1>12. ListInv'
    BY <1>10, <1>11 DEF ListInv
<1>13. List!Contents = [k \in 1..n |-> value[s[k]]]
    BY <1>6, ContentsOf
<1>14. List!Contents' = [k \in 1..(n + 1) |-> value[r[k]]]
  <2>1. List!Contents' = [k \in 1..(n + 1) |-> value'[r[k]]]
      BY ONLY <1>10, ContentsNext
  <2>2. value' = value
      OBVIOUS
  <2> QED
      BY ONLY <2>1, <2>2
<1>15. List!Contents' = <<arg[p]>> \o List!Contents
  <2> PICK c, d : c = List!Contents /\ d = List!Contents'
      OBVIOUS
  <2>1. arg[p] \in Item /\ c \in [1..n -> Item] /\ d \in [1..(n + 1) -> Item]
      BY <1>0, <1>1, <1>4, <1>7, <1>9, <1>13, <1>14
  <2>2. d[1] = arg[p] /\ \A i \in 1..n : d[i + 1] = c[i]
      BY <1>4, <1>7, <1>8, <1>13, <1>14
  <2> QED
      BY <1>7, <2>1, <2>2, OneMore
<1>16. Abstract!Push(p)
  <2>1. Abstract!Becomes(p, Abstract!Pushed)
      BY <1>2, <1>5, OtherCalls, Changed DEF Abstract!Pushed
  <2>2. [q \in Process |-> StackCall(q)][p] = Abstract!Pushing(arg[p])
      BY <1>5
  <2>3. Abstract!Pushing(arg[p]).at = "push" /\ Abstract!Pushing(arg[p]).value = arg[p]
      BY DEF Abstract!Pushing
  <2> QED
      BY <1>15, <2>1, <2>2, <2>3 DEF Abstract!Push
<1> QED
    BY <1>2, <1>3, <1>12, <1>16, AllRead DEF Promised, Step, Abstract!Next

(* The steps of tryPush and tryPop that lose the race, or only read. *)
LEMMA LosingSteps ==
    ASSUME Inv, TypeInv', NEW p \in Process, Try(p),
           \/ List!PushCas(p) /\ top # oldTop[p]
           \/ List!ReadTopToPop(p) /\ top # null
           \/ List!ReadNext(p)
           \/ List!PopCas(p) /\ top # oldTop[p]
    PROVE  Promised
<1> USE DEF Try, List!Goto
<1>0. /\ pc \in [Process -> Point]
      /\ oldTop \in [Process -> List!Node \cup {null}] /\ newTop \in [Process -> List!Node \cup {null}]
      /\ made[p] \in Int
    BY Fields
<1>1. ASSUME pc[p] \notin {"idle", "visit", "done"}, pc'[p] \notin {"idle", "visit", "done"}, arg' = arg
      PROVE  StackCall(p)' = StackCall(p)
    BY <1>1, NotDecided, NotDecidedNext DEF Inv, StackCall, Answered, Calls!Pushing, Calls!Popping
<1>2. ReadInv(p)
    BY DEF Inv, ReadsInv
<1>3. CASE List!PushCas(p) /\ top # oldTop[p]
  <2> USE <1>3 DEF List!PushCas
  <2>1. Local(p)
      BY <1>0 DEF Local, Own
  <2>2. ReadInv(p)' /\ StackCall(p)' = StackCall(p)
      BY <1>0, <1>1, <1>2 DEF ReadInv, Own, List!NodeOf
  <2> QED
      BY <2>1, <2>2, OtherCalls, Hidden
<1>4. CASE List!ReadTopToPop(p) /\ top # null
  <2> USE <1>4 DEF List!ReadTopToPop
  <2>1. Local(p)
      BY <1>0 DEF Local, Own
  <2>2. PICK n, s : IsList(n, s, top, next) /\ \A i \in 1..n : Public(s[i])
      BY DEF Inv, ListInv
  <2>3. n # 0 /\ 1 \in 1..n /\ s[1] = top /\ top \in List!Node
      BY <2>2 DEF IsList
  <2>4. Public(top)'
      BY <2>1, <2>2, <2>3, PublicStays DEF Inv
  <2>5. ReadInv(p)' /\ StackCall(p)' = StackCall(p)
      BY <1>0, <1>1, <1>2, <2>4 DEF ReadInv, Own, Public
  <2> QED
      BY <2>1, <2>5, OtherCalls, Hidden
<1>5. CASE List!ReadNext(p)
  <2> USE <1>5 DEF List!ReadNext
  <2>1. Local(p)
      BY <1>0 DEF Local, Own
  <2>2. ReadInv(p)' /\ StackCall(p)' = StackCall(p)
      BY <1>0, <1>1, <1>2 DEF ReadInv, Own, Public
  <2> QED
      BY <2>1, <2>2, OtherCalls, Hidden
<1>6. CASE List!PopCas(p) /\ top # oldTop[p]
  <2> USE <1>6 DEF List!PopCas
  <2>0. UNCHANGED <<top, ret, next, value, made, arg, slot, xpc, at, myItem>>
      OBVIOUS
  <2>1. Local(p)
      BY <1>0, <1>2, <2>0 DEF Local, Own, ReadInv
  <2>2. ReadInv(p)' /\ StackCall(p)' = StackCall(p)
      BY <1>0, <1>1, <1>2 DEF ReadInv, Own
  <2> QED
      BY <2>1, <2>2, OtherCalls, Hidden
<1> QED
    BY <1>3, <1>4, <1>5, <1>6

(* The exception: the list was empty when top was read. *)
LEMMA PopEmptyStep ==
    ASSUME Inv, TypeInv', NEW p \in Process, Try(p), List!ReadTopToPop(p), top = null PROVE Promised
<1> USE DEF Try, List!Goto, List!ReadTopToPop
<1>0. /\ pc[p] = "pop" /\ pc' = [pc EXCEPT ![p] = "done"] /\ ret' = [ret EXCEPT ![p] = Empty]
      /\ pc \in [Process -> Point]
      /\ ret \in [Process -> Value \cup {null, Empty}] /\ arg[p] = null /\ made[p] \in Int
    BY EngineAssumption DEF Inv, TypeInv, EngineTypes, List!StackTypeOK, ReadsInv, ReadInv
<1>1. Local(p)
    BY <1>0 DEF Local, Own
<1>2. ReadInv(p)'
    BY <1>0 DEF ReadInv, Own
<1>3. StackCall(p) = Abstract!Popping /\ StackCall(p)' = Abstract!Popped(Empty)
    BY <1>0, NotDecided DEF Inv, StackCall, Answered, Answer, Calls!Popping, Calls!Popped,
                            Abstract!Popping, Abstract!Popped
<1>4. List!Contents = <<>>
  <2>1. PICK n, s : IsList(n, s, top, next)
      BY DEF Inv, ListInv
  <2>2. n = 0
      BY <2>1, EngineAssumption DEF IsList, List!Node
  <2>3. List!Contents = [k \in 1..n |-> value[s[k]]]
      BY <2>1, ContentsOf
  <2> QED
      BY <2>2, <2>3
<1>5. ListInv' /\ List!Contents' = List!Contents
    BY <1>1, ListKept DEF Inv
<1>6. Abstract!PopEmpty(p)
  <2>1. Abstract!Becomes(p, Abstract!Popped(Empty))
      BY <1>1, <1>3, OtherCalls, Changed DEF Abstract!Popped
  <2> QED
      BY <1>3, <1>4, <1>5, <2>1 DEF Abstract!PopEmpty
<1> QED
    BY <1>1, <1>2, <1>5, <1>6, AllRead DEF Promised, Step, Abstract!Next

(* The first node leaves the list; the node behind it is the one that was read. *)
LEMMA PopStep ==
    ASSUME Inv, TypeInv', NEW p \in Process, Try(p), List!PopCas(p), top = oldTop[p] PROVE Promised
<1> USE DEF Try, List!Goto, List!PopCas
<1>0. /\ pc[p] = "popCas" /\ pc' = [pc EXCEPT ![p] = "done"] /\ ret' = [ret EXCEPT ![p] = value[top]]
      /\ pc \in [Process -> Point]
      /\ ret \in [Process -> Value \cup {null, Empty}] /\ arg[p] = null /\ made[p] \in Int
      /\ value \in [List!Node -> Item] /\ top \in List!Node
    BY EngineAssumption DEF Inv, TypeInv, CallInv, EngineTypes, List!StackTypeOK, ReadsInv, ReadInv
<1>1. Local(p)
    BY <1>0 DEF Local, Own
<1>2. ReadInv(p)'
    BY <1>0 DEF ReadInv, Own
<1>3. top' = next[top]
    BY <1>0 DEF Inv, ReadsInv, ReadInv
<1>4. StackCall(p) = Abstract!Popping /\ StackCall(p)' = Abstract!Popped(value[top])
    BY <1>0, NotDecided DEF Inv, StackCall, Answered, Answer, Calls!Popping, Calls!Popped,
                            Abstract!Popping, Abstract!Popped
<1>5. PICK n, s : IsList(n, s, top, next) /\ \A i \in 1..n : Public(s[i])
    BY DEF Inv, ListInv
<1>6. PICK r : r = [i \in 1..(n - 1) |-> s[i + 1]]
    OBVIOUS
<1>7. n \in Nat /\ n # 0 /\ n - 1 \in Nat /\ s[1] = top /\ \A i \in 1..n : s[i] \in List!Node
    BY <1>0, <1>5, EngineAssumption DEF IsList, List!Node
<1>8. /\ r \in [1..(n - 1) -> List!Node]
      /\ \A i \in 1..(n - 1) : i + 1 \in 1..n /\ r[i] = s[i + 1]
    BY <1>6, <1>7
<1>9. IsList(n - 1, r, top', next')
  <2>1. \A i, j \in 1..(n - 1) : r[i] = r[j] => i = j
    <3> SUFFICES ASSUME NEW i \in 1..(n - 1), NEW j \in 1..(n - 1), r[i] = r[j] PROVE i = j
        OBVIOUS
    <3>1. i + 1 \in 1..n /\ j + 1 \in 1..n /\ s[i + 1] = s[j + 1]
        BY <1>8
    <3>2. i + 1 = j + 1
        BY <1>5, <3>1 DEF IsList
    <3> QED
        BY <3>2
  <2>2. \A i \in 1..(n - 1) : next[r[i]] = IF i = n - 1 THEN null ELSE r[i + 1]
    <3> SUFFICES ASSUME NEW i \in 1..(n - 1)
                 PROVE  next[r[i]] = IF i = n - 1 THEN null ELSE r[i + 1]
        OBVIOUS
    <3>1. i + 1 \in 1..n /\ r[i] = s[i + 1]
        BY <1>8
    <3>2. next[s[i + 1]] = IF i + 1 = n THEN null ELSE s[i + 1 + 1]
        BY <1>5, <3>1 DEF IsList
    <3>3. i # n - 1 => r[i + 1] = s[i + 1 + 1]
        BY <1>7, <1>8
    <3> QED
        BY <1>7, <3>1, <3>2, <3>3
  <2>3. top' = IF n - 1 = 0 THEN null ELSE r[1]
    <3>1. next[top] = IF n = 1 THEN null ELSE s[2]
        BY <1>5, <1>7 DEF IsList
    <3>2. n # 1 => r[1] = s[2]
        BY <1>7, <1>8
    <3> QED
        BY <1>3, <1>7, <3>1, <3>2
  <2> QED
      BY <1>7, <1>8, <2>1, <2>2, <2>3 DEF IsList
<1>10. \A i \in 1..n : Public(s[i])'
    BY <1>1, <1>5, <1>7, PublicStays DEF Inv
<1>11. \A i \in 1..(n - 1) : Public(r[i])'
    BY <1>8, <1>10 DEF Public
<1>12. ListInv'
    BY <1>9, <1>11 DEF ListInv
<1>13. List!Contents = [k \in 1..n |-> value[s[k]]]
    BY <1>5, ContentsOf
<1>14. List!Contents' = [k \in 1..(n - 1) |-> value[r[k]]]
  <2>1. List!Contents' = [k \in 1..(n - 1) |-> value'[r[k]]]
      BY ONLY <1>9, ContentsNext
  <2>2. value' = value
      OBVIOUS
  <2> QED
      BY ONLY <2>1, <2>2
<1>15. List!Contents # <<>> /\ Head(List!Contents) = value[top] /\ List!Contents' = Tail(List!Contents)
  <2> PICK m, c, d : m = n - 1 /\ c = List!Contents' /\ d = List!Contents
      OBVIOUS
  <2>1. m \in Nat /\ m + 1 = n /\ value[top] \in Item
      BY <1>0, <1>7
  <2>2. c \in [1..m -> Item] /\ d \in [1..(m + 1) -> Item]
      BY <1>0, <1>7, <1>8, <1>13, <1>14, <2>1
  <2>3. d[1] = value[top] /\ \A i \in 1..m : d[i + 1] = c[i]
      BY <1>7, <1>8, <1>13, <1>14, <2>1
  <2> QED
      BY <2>1, <2>2, <2>3, OneMore
<1>16. Abstract!Pop(p)
  <2>1. Abstract!Becomes(p, Abstract!Popped(value[top]))
      BY <1>1, <1>4, OtherCalls, Changed DEF Abstract!Popped
  <2> QED
      BY <1>4, <1>15, <2>1 DEF Abstract!Pop
<1> QED
    BY <1>1, <1>2, <1>12, <1>16, AllRead DEF Promised, Step, Abstract!Next

LEMMA TrySteps == ASSUME Inv, TypeInv', NEW p \in Process, Try(p) PROVE Promised
BY ReadTopToPushStep, PushStep, LosingSteps, PopEmptyStep, PopStep DEF Try, List!TryPush, List!TryPop

---------------------------------------------------------------------------------
(* The steps of a visit. *)

LEMMA VisitStep == ASSUME Inv, TypeInv', NEW p \in Process, Visit(p) PROVE Promised
<1> USE DEF Visit, List!Goto, Exchange!Visit, Exchange!Goto
<1>0. /\ pc[p] = "retry" /\ pc' = [pc EXCEPT ![p] = "visit"] /\ xpc' = [xpc EXCEPT ![p] = "look"]
      /\ pc \in [Process -> Point]
      /\ xpc \in [Process -> {"out", "look", "offer", "take", "await", "collect", "clear"}]
      /\ myItem \in [Process -> Item] /\ at \in [Process -> Exchange!Slot] /\ made[p] \in Int
    BY EngineAssumption DEF Inv, TypeInv, EngineTypes, List!StackTypeOK, Exchange!TypeOK
<1>1. Local(p)
    BY <1>0 DEF Local, Own
<1>2. ReadInv(p)' /\ UNCHANGED top
    BY <1>0 DEF Inv, ReadsInv, ReadInv, Own, List!NodeOf
<1>3. StackCall(p)' = StackCall(p)
  <2>1. ~Decided(p) /\ ~Decided(p)'
      BY <1>0, NotDecided DEF Inv, Decided
  <2> QED
      BY <1>0, <2>1 DEF StackCall, Answered, Calls!Pushing, Calls!Popping
<1> QED
    BY <1>1, <1>2, <1>3, OtherCalls, Hidden

(* Who waits in the slot in which another caller waits is that caller. *)
LEMMA OneWaiter ==
    ASSUME SlotInv, NEW p \in Process, NEW q \in Process, at[p] = at[q], at[p] \in Exchange!Slot,
           xpc[p] \in {"await", "collect", "clear"}, xpc[q] \in {"await", "collect", "clear"}
    PROVE  p = q
BY DEF SlotInv, Exchange!SlotInv, Exchange!SlotOK, Exchange!Waiting

LEMMA WaitStep == ASSUME Inv, TypeInv', NEW p \in Process, Wait(p) PROVE Promised
<1> USE DEF Wait, Exchange!Goto
<1>0. /\ xpc \in [Process -> {"out", "look", "offer", "take", "await", "collect", "clear"}]
      /\ slot \in [Exchange!Slot -> [item : Item, stamp : {"EMPTY", "WAITING", "BUSY"}]]
      /\ at[p] \in Exchange!Slot /\ made[p] \in Int /\ \A q \in Process : at[q] \in Exchange!Slot
    BY EngineAssumption DEF Inv, TypeInv, EngineTypes, List!StackTypeOK, Exchange!TypeOK
<1>1. /\ at' = at /\ myItem' = myItem /\ xpc[p] # "out"
      /\ \A q \in Process : q # p => xpc'[q] = xpc[q]
    BY <1>0 DEF Exchange!Inside, Exchange!Look, Exchange!Offer, Exchange!Await, Exchange!TooLate,
                Exchange!Collect, Exchange!Missed, Exchange!Expire
<1>2. Local(p)
    BY <1>0, <1>1 DEF Local, Own
<1>3. ReadInv(p)'
    BY <1>1 DEF Inv, ReadsInv, ReadInv, Own, Public, List!NodeOf
<1>4. \A q \in Process : Decided(q)' = Decided(q) /\ (Decided(q) => slot'[at[q]] = slot[at[q]])
  <2>1. CASE slot' = slot /\ xpc' = xpc
      BY <1>1, <2>1 DEF Decided
  <2>2. CASE /\ slot' = slot /\ xpc[p] \in {"look", "offer", "take"}
             /\ xpc'[p] \in {"look", "offer", "take"}
      BY <1>1, <2>2 DEF Decided
  <2>3. CASE /\ slot' = slot /\ xpc[p] \in {"await", "collect", "clear"}
             /\ xpc'[p] \in {"await", "collect", "clear"}
      BY <1>1, <2>3 DEF Decided
  <2>4. CASE /\ Exchange!Matches(p, yrItem[p], "EMPTY") /\ xpc[p] = "offer"
             /\ Exchange!SetSlot(p, myItem[p], "WAITING")
    <3>1. slot[at[p]].stamp = "EMPTY" /\ slot'[at[p]].stamp = "WAITING"
        BY <1>0, <2>4 DEF Exchange!Matches, Exchange!SetSlot, Exchange!Holds
    <3>2. \A s \in Exchange!Slot : s # at[p] => slot'[s] = slot[s]
        BY <1>0, <2>4 DEF Exchange!SetSlot
    <3>3. ASSUME NEW q \in Process, at[q] = at[p] PROVE Decided(q)' = Decided(q) /\ ~Decided(q)
        BY <1>1, <3>1, <3>3 DEF Decided
    <3>4. ASSUME NEW q \in Process, at[q] # at[p]
          PROVE  Decided(q)' = Decided(q) /\ slot'[at[q]] = slot[at[q]]
        BY <1>0, <1>1, <3>2, <3>4 DEF Decided
    <3> QED
        BY <3>3, <3>4
  <2> QED
      BY <1>0, <2>1, <2>2, <2>3, <2>4
      DEF Exchange!Inside, Exchange!Look, Exchange!Offer, Exchange!Await, Exchange!TooLate,
          Exchange!Collect, Exchange!Missed, Exchange!Expire
<1>5. \A q \in Process : StackCall(q)' = StackCall(q)
    BY <1>1, <1>4, SameCall
<1> QED
    BY <1>2, <1>3, <1>5, Hidden

(* The end of a visit that has not met anybody of use, or did not wait. *)
LEMMA TimedOutStep == ASSUME Inv, TypeInv', NEW p \in Process, TimedOut(p) PROVE Promised
<1> USE DEF TimedOut, Again, List!Goto
<1>a. pc[p] = "visit" /\ pc' = [pc EXCEPT ![p] = IF arg[p] = null THEN "pop" ELSE "push"]
    OBVIOUS
<1>0. /\ pc[p] = "visit" /\ pc' = [pc EXCEPT ![p] = IF arg[p] = null THEN "pop" ELSE "push"]
      /\ pc \in [Process -> Point]
      /\ xpc \in [Process -> {"out", "look", "offer", "take", "await", "collect", "clear"}]
      /\ slot \in [Exchange!Slot -> [item : Item, stamp : {"EMPTY", "WAITING", "BUSY"}]]
      /\ made[p] \in Int /\ at \in [Process -> Exchange!Slot] /\ myItem \in [Process -> Item]
    BY <1>a, Fields
<1>1. \E from \in {"look", "await"} : Exchange!Leave(p, from)
    BY DEF Exchange!TimedOut, Exchange!NoSlot, Exchange!Withdraw
<1>2. Local(p)
    BY <1>0, <1>1 DEF Local, Own, Exchange!Leave, Exchange!Goto
<1>3. ReadInv(p)' /\ UNCHANGED <<top, arg, ret>>
    BY <1>0 DEF Inv, ReadsInv, ReadInv, Own, List!NodeOf
<1>4. ~Decided(p) /\ ~Decided(p)'
  <2>1. CASE Exchange!NoSlot(p)
      BY <1>0, <2>1 DEF Exchange!NoSlot, Exchange!Leave, Exchange!Goto, Decided
  <2>2. CASE Exchange!Withdraw(p)
      BY <1>0, <2>2 DEF Exchange!Withdraw, Exchange!Leave, Exchange!Goto, Exchange!Matches, Exchange!Holds, Decided
  <2> QED
      BY <2>1, <2>2 DEF Exchange!TimedOut
<1>5. StackCall(p)' = StackCall(p)
    BY <1>0, <1>3, <1>4 DEF StackCall, Answered, Calls!Pushing, Calls!Popping
<1>6. ASSUME NEW q \in Process, q # p PROVE StackCall(q)' = StackCall(q)
  <2>1. CASE Exchange!NoSlot(p)
      BY <1>2, <1>6, <2>1, OtherCalls DEF Exchange!NoSlot
  <2>2. CASE Exchange!Withdraw(p)
    <3>1. xpc[p] = "await" /\ slot' = [slot EXCEPT ![at[p]] = Exchange!Holds(null, "EMPTY")]
        BY <2>2 DEF Exchange!Withdraw, Exchange!Leave, Exchange!Goto, Exchange!SetSlot
    <3>2. xpc[q] \in {"await", "collect", "clear"} => at[q] # at[p]
        BY <1>0, <1>6, <3>1, OneWaiter DEF Inv
    <3>3. xpc'[q] = xpc[q] /\ at'[q] = at[q]
        BY <1>2, <1>6 DEF Local
    <3>4. xpc[q] \in {"await", "collect", "clear"} => slot'[at[q]] = slot[at[q]]
        BY <1>0, <3>1, <3>2
    <3>5. Decided(q)' = Decided(q) /\ (Decided(q) => slot'[at[q]] = slot[at[q]])
        BY <3>3, <3>4 DEF Decided
    <3> QED
        BY <1>2, <1>6, <3>5, SameCall DEF Local
  <2> QED
      BY <2>1, <2>2 DEF Exchange!TimedOut
<1> QED
    BY <1>2, <1>3, <1>5, <1>6, Hidden

(* The waiter leaves with the item that the other caller has put in its slot. *)
LEMMA ClearStep ==
    ASSUME Inv, TypeInv', NEW p \in Process, NEW item \in Item, yrItem[p] = item, Exchange!Clear(p),
           UNCHANGED <<listVars, arg, oldTop, newTop, engineVars>>,
           \/ /\ Opposed(p, item) /\ List!Goto(p, "visit", "done")
              /\ ret' = [ret EXCEPT ![p] = item]
           \/ ~Opposed(p, item) /\ Again(p) /\ UNCHANGED ret
    PROVE  Promised
<1> USE DEF Again, List!Goto
<1>0. /\ pc[p] = "visit" /\ xpc[p] = "clear" /\ pc'[p] \in {"pop", "push", "done"}
      /\ \A q \in Process : q # p => pc'[q] = pc[q] /\ ret'[q] = ret[q]
      /\ pc \in [Process -> Point]
      /\ xpc \in [Process -> {"out", "look", "offer", "take", "await", "collect", "clear"}]
      /\ slot \in [Exchange!Slot -> [item : Item, stamp : {"EMPTY", "WAITING", "BUSY"}]]
      /\ ret \in [Process -> Value \cup {null, Empty}]
      /\ made[p] \in Int /\ at \in [Process -> Exchange!Slot] /\ myItem \in [Process -> Item]
  <2>1. /\ pc \in [Process -> Point] /\ ret \in [Process -> Value \cup {null, Empty}] /\ made[p] \in Int
        /\ xpc \in [Process -> {"out", "look", "offer", "take", "await", "collect", "clear"}]
        /\ slot \in [Exchange!Slot -> [item : Item, stamp : {"EMPTY", "WAITING", "BUSY"}]]
        /\ at \in [Process -> Exchange!Slot] /\ myItem \in [Process -> Item]
      BY Fields
  <2>2. xpc[p] = "clear"
      BY DEF Exchange!Clear, Exchange!Leave, Exchange!Goto
  <2>3. pc[p] = "visit" /\ pc'[p] \in {"pop", "push", "done"}
      BY <2>1
  <2>4. \A q \in Process : q # p => pc'[q] = pc[q] /\ ret'[q] = ret[q]
      BY <2>1
  <2> QED
      BY <2>1, <2>2, <2>3, <2>4
<1>1. /\ slot' = [slot EXCEPT ![at[p]] = Exchange!Holds(null, "EMPTY")] /\ xpc' = [xpc EXCEPT ![p] = "out"]
      /\ \A q \in Process : q # p => at'[q] = at[q] /\ myItem'[q] = myItem[q]
    BY <1>0 DEF Exchange!Clear, Exchange!SetSlot, Exchange!Leave, Exchange!Goto
<1>2. Local(p)
    BY <1>0, <1>1 DEF Local, Own
<1>3. ReadInv(p)
    BY DEF Inv, ReadsInv
<1>4. arg[p] = null => pc'[p] # "push"
    BY <1>0
<1>5. ReadInv(p)' /\ UNCHANGED <<top, arg>>
    BY <1>0, <1>3 DEF ReadInv, Own, List!NodeOf
<1>6. slot[at[p]] = Exchange!Holds(item, "BUSY")
    BY <1>0 DEF Inv, SlotInv, Exchange!SlotInv, Exchange!SlotOK, Exchange!Waiting
<1>7. Decided(p) /\ slot[at[p]].item = item /\ ~Decided(p)'
    BY <1>0, <1>1, <1>6 DEF Decided, Exchange!Holds
<1>8. StackCall(p)' = StackCall(p)
  <2>1. CASE Opposed(p, item) /\ pc' = [pc EXCEPT ![p] = "done"] /\ ret' = [ret EXCEPT ![p] = item]
      BY <1>0, <1>5, <1>7, <2>1 DEF StackCall, Answered, Answer, Calls!Pushed, Calls!Popped
  <2>2. CASE ~Opposed(p, item) /\ pc'[p] # "done"
      BY <1>0, <1>5, <1>7, <2>2 DEF StackCall, Answered, Calls!Pushing, Calls!Popping
  <2> QED
      BY <1>0, <2>1, <2>2
<1>9. ASSUME NEW q \in Process, q # p PROVE StackCall(q)' = StackCall(q)
  <2>1. xpc[q] \in {"await", "collect", "clear"} => at[q] # at[p]
      BY <1>0, <1>9, OneWaiter DEF Inv
  <2>2. xpc'[q] = xpc[q] /\ at'[q] = at[q]
      BY <1>2, <1>9 DEF Local
  <2>3. xpc[q] \in {"await", "collect", "clear"} => slot'[at[q]] = slot[at[q]]
      BY <1>0, <1>1, <2>1
  <2>4. Decided(q)' = Decided(q) /\ (Decided(q) => slot'[at[q]] = slot[at[q]])
      BY <2>2, <2>3 DEF Decided
  <2> QED
      BY <1>2, <1>9, <2>4, SameCall DEF Local
<1> QED
    BY <1>2, <1>5, <1>8, <1>9, Hidden

(* Two calls meet. If one is a push and the other a pop, both take effect here,
   although the waiter does not know it yet. *)
LEMMA TakeStep ==
    ASSUME Inv, TypeInv', NEW p \in Process, NEW item \in Item, yrItem[p] = item, Exchange!Take(p),
           UNCHANGED <<listVars, arg, oldTop, newTop, engineVars>>,
           \/ /\ Opposed(p, item) /\ List!Goto(p, "visit", "done")
              /\ ret' = [ret EXCEPT ![p] = item]
           \/ ~Opposed(p, item) /\ Again(p) /\ UNCHANGED ret
    PROVE  Promised
<1> USE DEF Again, List!Goto
<1>1. /\ pc \in [Process -> Point]
      /\ xpc \in [Process -> {"out", "look", "offer", "take", "await", "collect", "clear"}]
      /\ slot \in [Exchange!Slot -> [item : Item, stamp : {"EMPTY", "WAITING", "BUSY"}]]
      /\ ret \in [Process -> Value \cup {null, Empty}]
      /\ made[p] \in Int /\ at \in [Process -> Exchange!Slot] /\ myItem \in [Process -> Item]
    BY Fields
<1>2. /\ pc[p] = "visit" /\ pc'[p] \in {"pop", "push", "done"}
      /\ \A q \in Process : q # p => pc'[q] = pc[q] /\ ret'[q] = ret[q]
    BY <1>1
<1>3. xpc[p] = "take"
    BY DEF Exchange!Take, Exchange!Leave, Exchange!Goto
<1>4. /\ slot' = [slot EXCEPT ![at[p]] = Exchange!Holds(myItem[p], "BUSY")] /\ xpc' = [xpc EXCEPT ![p] = "out"]
      /\ \A q \in Process : q # p => at'[q] = at[q] /\ myItem'[q] = myItem[q]
      /\ slot[at[p]] = Exchange!Holds(item, "WAITING")
    BY <1>1, <1>2, <1>3 DEF Exchange!Take, Exchange!SetSlot, Exchange!Leave, Exchange!Goto, Exchange!Matches
<1>5. Local(p)
    BY <1>1, <1>2, <1>3, <1>4 DEF Local, Own
<1>6. ReadInv(p) /\ myItem[p] = arg[p]
    BY <1>1, <1>2, <1>3 DEF Inv, ReadsInv, ReadInv
<1>7. ReadInv(p)' /\ UNCHANGED <<top, arg>>
    BY <1>1, <1>2, <1>3, <1>6 DEF ReadInv, Own, List!NodeOf
<1>8. ~Decided(p) /\ ~Decided(p)'
    BY <1>1, <1>2, <1>3, <1>4 DEF Decided
<1>9. PICK w \in Process : at[w] = at[p] /\ xpc[w] = "await" /\ myItem[w] = item
    BY <1>1, <1>2, <1>3, <1>4 DEF Inv, SlotInv, Exchange!SlotInv, Exchange!SlotOK, Exchange!Waiting, Exchange!Holds
<1>10. w # p /\ pc[w] = "visit" /\ arg[w] = item
    BY <1>1, <1>2, <1>3, <1>9 DEF Inv, TypeInv, CallInv, ReadsInv, ReadInv
<1>11. ~Decided(w) /\ Decided(w)' /\ slot'[at'[w]].item = arg[p]
    BY <1>1, <1>2, <1>3, <1>4, <1>6, <1>9, <1>10 DEF Decided, Exchange!Holds
<1>12. pc'[w] = "visit" /\ arg'[w] = item /\ arg' = arg
    BY <1>5, <1>7, <1>10 DEF Local
<1>13. ASSUME NEW q \in Process, q # p, q # w PROVE StackCall(q)' = StackCall(q)
  <2>1. xpc[q] \in {"await", "collect", "clear"} => at[q] # at[p]
      BY <1>1, <1>2, <1>3, <1>9, <1>13, OneWaiter DEF Inv
  <2>2. xpc'[q] = xpc[q] /\ at'[q] = at[q]
      BY <1>5, <1>13 DEF Local
  <2>3. xpc[q] \in {"await", "collect", "clear"} => slot'[at[q]] = slot[at[q]]
      BY <1>1, <1>2, <1>3, <1>4, <2>1
  <2>4. Decided(q)' = Decided(q) /\ (Decided(q) => slot'[at[q]] = slot[at[q]])
      BY <2>2, <2>3 DEF Decided
  <2> QED
      BY <1>5, <1>13, <2>4, SameCall DEF Local
<1>14. CASE ~Opposed(p, item) /\ pc'[p] # "done"
  <2>1. StackCall(p)' = StackCall(p)
      BY <1>1, <1>2, <1>3, <1>7, <1>8, <1>14 DEF StackCall, Answered, Calls!Pushing, Calls!Popping
  <2>2. ~Answered(w) /\ ~Answered(w)'
      BY <1>10, <1>11, <1>12, <1>14 DEF Answered, Opposed
  <2>3. StackCall(w)' = StackCall(w)
      BY <1>10, <1>12, <2>2 DEF StackCall, Calls!Pushing, Calls!Popping
  <2> QED
      BY <1>5, <1>7, <1>13, <2>1, <2>3, Hidden
<1>15. CASE Opposed(p, item) /\ pc' = [pc EXCEPT ![p] = "done"] /\ ret' = [ret EXCEPT ![p] = item]
  <2>1. (item = null) # (arg[p] = null)
      BY <1>15 DEF Opposed
  <2>2. Answered(p)' /\ Answered(w)' /\ ~Answered(p) /\ ~Answered(w)
      BY <1>1, <1>2, <1>3, <1>8, <1>10, <1>11, <1>12, <1>15, <2>1 DEF Answered, Opposed
  <2>3. Answer(p)' = item /\ Answer(w)' = arg[p]
      BY <1>1, <1>2, <1>3, <1>11, <1>12, <1>15 DEF Answer
  <2>4. pc[p] # "idle" /\ pc[w] # "idle" /\ pc'[p] # "idle" /\ pc'[w] # "idle"
      BY <1>1, <1>2, <1>3, <1>10, <1>12
  <2>5. ListInv' /\ List!Contents' = List!Contents
      BY <1>5, <1>7, ListKept DEF Inv
  <2>6. CASE arg[p] # null
    <3>1. /\ StackCall(p) = Abstract!Pushing(arg[p]) /\ StackCall(p)' = Abstract!Pushed
          /\ StackCall(w) = Abstract!Popping /\ StackCall(w)' = Abstract!Popped(arg[p])
        BY <1>10, <1>12, <2>1, <2>2, <2>3, <2>4, <2>6
        DEF StackCall, Calls!Pushing, Calls!Pushed, Calls!Popping, Calls!Popped,
            Abstract!Pushing, Abstract!Pushed, Abstract!Popping, Abstract!Popped
    <3>2. Abstract!Pushing(arg[p]).at = "push" /\ Abstract!Pushing(arg[p]).value = arg[p]
        BY DEF Abstract!Pushing
    <3>3. [q \in Process |-> StackCall(q)]' =
            [[q \in Process |-> StackCall(q)] EXCEPT ![p] = Abstract!Pushed, ![w] = Abstract!Popped(arg[p])]
        BY <1>10, <1>13, <3>1
    <3>4. Abstract!Eliminate(p, w) /\ StackCall(p).at = "push"
        BY <2>5, <3>1, <3>2, <3>3 DEF Abstract!Eliminate
    <3> QED
        BY <1>5, <1>7, <2>5, <3>4, AllRead DEF Promised, Step, Abstract!Next
  <2>7. CASE arg[p] = null
    <3>1. /\ StackCall(w) = Abstract!Pushing(item) /\ StackCall(w)' = Abstract!Pushed
          /\ StackCall(p) = Abstract!Popping /\ StackCall(p)' = Abstract!Popped(item)
        BY <1>7, <1>10, <1>12, <2>1, <2>2, <2>3, <2>4, <2>7
        DEF StackCall, Calls!Pushing, Calls!Pushed, Calls!Popping, Calls!Popped,
            Abstract!Pushing, Abstract!Pushed, Abstract!Popping, Abstract!Popped
    <3>2. Abstract!Pushing(item).at = "push" /\ Abstract!Pushing(item).value = item
        BY DEF Abstract!Pushing
    <3>3. [q \in Process |-> StackCall(q)]' =
            [[q \in Process |-> StackCall(q)] EXCEPT ![w] = Abstract!Pushed, ![p] = Abstract!Popped(item)]
        BY <1>10, <1>13, <3>1
    <3>4. Abstract!Eliminate(w, p) /\ StackCall(w).at = "push"
        BY <2>5, <3>1, <3>2, <3>3 DEF Abstract!Eliminate
    <3> QED
        BY <1>5, <1>7, <2>5, <3>4, AllRead DEF Promised, Step, Abstract!Next
  <2> QED
      BY <2>6, <2>7
<1> QED
    BY <1>1, <1>2, <1>3, <1>14, <1>15

LEMMA MetStep == ASSUME Inv, TypeInv', NEW p \in Process, Met(p) PROVE Promised
<1>1. PICK item \in Item :
        /\ Exchange!Exchanged(p, item)
        /\ \/ /\ Opposed(p, item) /\ List!Goto(p, "visit", "done")
              /\ ret' = [ret EXCEPT ![p] = item]
           \/ ~Opposed(p, item) /\ Again(p) /\ UNCHANGED ret
        /\ UNCHANGED <<listVars, arg, oldTop, newTop, engineVars>>
    BY DEF Met
<1>2. yrItem[p] = item /\ (Exchange!Clear(p) \/ Exchange!Take(p))
    BY <1>1 DEF Exchange!Exchanged
<1>3. CASE Exchange!Clear(p)
    BY ONLY Inv, TypeInv', p \in Process, item \in Item, <1>1, <1>2, <1>3, ClearStep
<1>4. CASE Exchange!Take(p)
    BY ONLY Inv, TypeInv', p \in Process, item \in Item, <1>1, <1>2, <1>4, TakeStep
<1> QED
    BY <1>2, <1>3, <1>4

---------------------------------------------------------------------------------
(* The benchmark's steps. *)

LEMMA CallPopStep ==
    ASSUME Inv, TypeInv', NEW p \in Process, List!CallPop(p), UNCHANGED arrayVars PROVE Promised
<1> USE DEF List!CallPop, List!Goto
<1>0. /\ pc[p] = "idle" /\ pc' = [pc EXCEPT ![p] = "pop"] /\ made[p] \in Int
      /\ pc \in [Process -> Point]
    BY EngineAssumption DEF Inv, TypeInv, EngineTypes, List!StackTypeOK
<1>1. Local(p)
    BY <1>0 DEF Local, Own
<1>2. ReadInv(p)' /\ arg[p] = null /\ arg' = arg
    BY <1>0 DEF Inv, ReadsInv, ReadInv, Own
<1>3. StackCall(p) = Abstract!Idle /\ StackCall(p)' = Abstract!Popping
  <2>1. ~Answered(p)'
      BY <1>0, NotDecidedNext DEF Answered
  <2> QED
      BY <1>0, <1>2, <2>1 DEF StackCall, Calls!Idle, Calls!Popping, Abstract!Idle, Abstract!Popping
<1>4. ListInv' /\ List!Contents' = List!Contents
    BY <1>1, ListKept DEF Inv
<1>5. Abstract!Call(p)
  <2>1. Abstract!Becomes(p, Abstract!Popping)
      BY <1>1, <1>3, OtherCalls, Changed DEF Abstract!Popping
  <2> QED
      BY <1>3, <1>4, <2>1 DEF Abstract!Call
<1> QED
    BY <1>1, <1>2, <1>4, <1>5, AllRead DEF Promised, Step, Abstract!Next

LEMMA CallPushStep ==
    ASSUME Inv, TypeInv', NEW p \in Process, NEW v \in Value, v # null, List!CallPush(p, v),
           UNCHANGED arrayVars
    PROVE  Promised
<1> USE DEF List!CallPush, List!Goto
<1> PICK n : n = <<p, made[p] + 1>>
    OBVIOUS
<1>1. /\ pc \in [Process -> Point]
      /\ made \in [Process -> 0..OperationAmount] /\ value \in [List!Node -> Item] /\ arg \in [Process -> Item]
    BY DEF Inv, TypeInv, EngineTypes, List!StackTypeOK
<1>2. /\ pc[p] = "idle" /\ pc' = [pc EXCEPT ![p] = "push"] /\ made[p] \in Int /\ n \in List!Node
      /\ made' = [made EXCEPT ![p] = @ + 1] /\ value' = [value EXCEPT ![n] = v]
      /\ arg' = [arg EXCEPT ![p] = v]
    BY <1>1, EngineAssumption
<1>3. ~Public(n) /\ n[1] = p /\ made'[p] = made[p] + 1
    BY <1>2, <1>1 DEF Public, Own
<1>4. Local(p)
    BY <1>2, <1>1, <1>3 DEF Local, Own
<1>5. ReadInv(p)' /\ UNCHANGED top
  <2>1. List!NodeOf(p)' = n /\ value'[n] = v /\ arg'[p] = v
      BY <1>2, <1>1, <1>3 DEF List!NodeOf
  <2> QED
      BY <1>2, <1>1, <2>1 DEF ReadInv, Own
<1>6. StackCall(p) = Abstract!Idle /\ StackCall(p)' = Abstract!Pushing(v)
  <2>1. ~Answered(p)'
      BY <1>2, <1>1, NotDecidedNext DEF Answered
  <2> QED
      BY <1>2, <1>1, <2>1 DEF StackCall, Calls!Idle, Calls!Pushing, Abstract!Idle, Abstract!Pushing
<1>7. ListInv' /\ List!Contents' = List!Contents
    BY <1>4, <1>5, ListKept DEF Inv
<1>8. Abstract!Call(p)
  <2>1. Abstract!Becomes(p, Abstract!Pushing(v))
      BY <1>4, <1>6, OtherCalls, Changed DEF Abstract!Pushing
  <2> QED
      BY <1>6, <1>7, <2>1 DEF Abstract!Call
<1> QED
    BY <1>4, <1>5, <1>7, <1>8, AllRead DEF Promised, Step, Abstract!Next

LEMMA ReturnStep ==
    ASSUME Inv, TypeInv', NEW p \in Process, List!Goto(p, "done", "idle"), List!Leave(p),
           UNCHANGED arrayVars
    PROVE  Promised
<1> USE DEF List!Goto, List!Leave
<1>1. /\ pc \in [Process -> Point]
      /\ arg \in [Process -> Item] /\ ret \in [Process -> Value \cup {null, Empty}]
    BY DEF Inv, TypeInv, EngineTypes, List!StackTypeOK
<1>2. made[p] \in Int
    BY EngineAssumption DEF Inv, TypeInv, List!StackTypeOK
<1>3. pc[p] = "done" /\ pc' = [pc EXCEPT ![p] = "idle"]
    BY <1>1
<1>4. Local(p)
    BY <1>3, <1>1, <1>2 DEF Local, Own
<1>5. ReadInv(p)' /\ UNCHANGED top
    BY <1>3, <1>1 DEF ReadInv, Own
<1>6. StackCall(p) \in {Abstract!Pushed, Abstract!Popped(ret[p])} /\ StackCall(p)' = Abstract!Idle
    BY <1>3, <1>1 DEF StackCall, Answered, Answer, Calls!Idle, Calls!Pushed, Calls!Popped,
                Abstract!Idle, Abstract!Pushed, Abstract!Popped
<1>7. StackCall(p).at \in {"pushed", "popped"}
    BY <1>6 DEF Abstract!Pushed, Abstract!Popped
<1>8. ListInv' /\ List!Contents' = List!Contents
    BY <1>4, <1>5, ListKept DEF Inv
<1>9. Abstract!Return(p)
  <2>1. Abstract!Becomes(p, Abstract!Idle)
      BY <1>4, <1>6, OtherCalls, Changed DEF Abstract!Idle
  <2> QED
      BY <1>7, <1>8, <2>1 DEF Abstract!Return
<1> QED
    BY <1>4, <1>5, <1>8, <1>9, AllRead DEF Promised, Step, Abstract!Next

LEMMA NextPromised == Inv /\ [Next]_vars => Inv' /\ Step
<1> SUFFICES ASSUME Inv, [Next]_vars PROVE Inv' /\ Step
    OBVIOUS
<1>1. TypeInv' /\ SlotInv'
    BY NextTypes, NextSlots DEF Inv
<1>2. ASSUME NEW p \in Process, Operation(p) PROVE Promised
    BY <1>1, <1>2, TrySteps, VisitStep, WaitStep, MetStep, TimedOutStep DEF Operation
<1>3. ASSUME NEW t \in Thread, Call(t) PROVE Promised
  <2>1. CASE List!CallPop(t)
      BY <1>1, <1>3, <2>1, CallPopStep DEF Call
  <2>2. ASSUME NEW v \in Numbers[ops[t] + 1], List!CallPush(t, v) PROVE Promised
    <3>1. ops[t] + 1 \in 1..OperationAmount
        BY <1>3, EngineAssumption DEF Call, Inv, TypeInv, EngineTypes
    <3>2. v \in Value /\ v # null
        BY <3>1, EngineAssumption DEF Value
    <3> QED
        BY <1>1, <1>3, <2>2, <3>2, CallPushStep DEF Call
  <2> QED
      BY <1>3, <2>1, <2>2 DEF Call
<1>4. ASSUME NEW t \in Thread, Return(t) PROVE Promised
    BY <1>1, <1>4, ReturnStep DEF Return
<1>5. ASSUME Drain PROVE Promised
    BY <1>1, <1>5, CallPopStep DEF Drain
<1>6. ASSUME Drained PROVE Promised
    BY <1>1, <1>6, ReturnStep DEF Drained
<1>7. ASSUME UNCHANGED vars PROVE Promised
  <2> USE <1>7 DEF vars
  <2>1. ListInv' /\ ReadsInv'
      BY DEF Inv, ListInv, ReadsInv, ReadInv, Public, Own, List!NodeOf
  <2>2. \A q \in Process : StackCall(q)' = StackCall(q)
      BY SameCall DEF Decided
  <2>3. List!Contents' = List!Contents
      BY DEF List!Contents
  <2> QED
      BY <2>1, <2>2, <2>3 DEF Promised, Step, Abstract!absVars
<1>8. Promised
    BY <1>2, <1>3, <1>4, <1>5, <1>6, <1>7 DEF Next, MainStep, ThreadStep, Over
<1> QED
    BY <1>1, <1>8 DEF Inv, Promised

(* EliminationStack is a linearizable stack: every push and pop takes effect at one
   moment between its call and its return, in the list or in a slot where two calls
   meet. *)
THEOREM Linearizable == Spec => StackSpec
<1>1. Init => Inv /\ Abstract!Init
    BY InitInv
<1>2. Inv /\ [Next]_vars => Inv' /\ [Abstract!Next]_(Abstract!absVars)
    BY NextPromised DEF Step
<1> QED
    BY <1>1, <1>2, PTL DEF Spec, StackSpec, Abstract!Spec

---------------------------------------------------------------------------------
(* Sums of counts, with an element of each set that CHOOSE picks. *)

Total(f) == FoldFunction(+, 0, f)
Pick(s) == CHOOSE x \in s : TRUE
Partial(f, g, s) == IF s = {} THEN 0 ELSE f[Pick(s)] + g[s \ {Pick(s)}]

Sums(S, f, g) ==
    /\ g \in [SUBSET S -> Nat] /\ Total(f) = g[S]
    /\ \A s \in SUBSET S : g[s] = Partial(f, g, s)

LEMMA NoneLeft == ASSUME NEW s, IsFiniteSet(s) PROVE Cardinality(s) \in Nat /\ (Cardinality(s) = 0 <=> s = {})
    BY FS_EmptySet, FS_CardinalityType

LEMMA PickOne ==
    ASSUME NEW s, IsFiniteSet(s), s # {}
    PROVE  /\ Pick(s) \in s /\ IsFiniteSet(s \ {Pick(s)})
           /\ Cardinality(s) \in Nat \ {0} /\ Cardinality(s \ {Pick(s)}) = Cardinality(s) - 1
<1>1. Pick(s) \in s
    BY DEF Pick
<1> QED
    BY <1>1, FS_RemoveElement, FS_CardinalityType, NoneLeft

(* The recursive definition of the fold is its equation. *)
LEMMA SumSteps ==
    ASSUME NEW S, IsFiniteSet(S), NEW f \in [S -> Nat]
    PROVE  \E g : Sums(S, f, g)
<1> DEFINE P(g) == g = [s \in SUBSET S |-> Partial(f, g, s)]
           Q(g, n) == \A s \in SUBSET S : Cardinality(s) <= n => g[s] = Partial(f, g, s)
           T == {n \in Nat : \E g \in [SUBSET S -> Nat] : Q(g, n)}
<1>1. \A s \in SUBSET S : IsFiniteSet(s) /\ Cardinality(s) \in Nat /\ Cardinality(s) <= Cardinality(S)
    BY FS_Subset, FS_CardinalityType
<1>2. \A s \in SUBSET S : s # {} => /\ Pick(s) \in S /\ s \ {Pick(s)} \in SUBSET S
                                    /\ Cardinality(s \ {Pick(s)}) = Cardinality(s) - 1
    BY <1>1, PickOne
<1>3. 0 \in T
  <2> DEFINE g == [s \in SUBSET S |-> 0]
  <2>1. \A s \in SUBSET S : Cardinality(s) <= 0 => s = {}
      BY <1>1, NoneLeft
  <2>2. Q(g, 0)
      BY <2>1 DEF Partial
  <2> QED
      BY <2>2
<1>4. ASSUME NEW n \in Nat, n \in T PROVE n + 1 \in T
  <2>1. PICK g \in [SUBSET S -> Nat] : Q(g, n)
      BY <1>4
  <2> DEFINE G == [s \in SUBSET S |-> IF Cardinality(s) <= n THEN g[s] ELSE Partial(f, g, s)]
  <2>2. ASSUME NEW s \in SUBSET S PROVE Partial(f, g, s) \in Nat
    <3>1. CASE s = {}
        BY <3>1 DEF Partial
    <3>2. CASE s # {}
      <4>1. f[Pick(s)] \in Nat /\ g[s \ {Pick(s)}] \in Nat
          BY <1>2, <3>2
      <4> QED
          BY <3>2, <4>1 DEF Partial
    <3> QED
        BY <3>1, <3>2
  <2>3. G \in [SUBSET S -> Nat]
      BY <2>2
  <2>4. ASSUME NEW s \in SUBSET S, Cardinality(s) <= n + 1 PROVE G[s] = Partial(f, G, s)
    <3>1. Partial(f, G, s) = Partial(f, g, s)
      <4>1. CASE s = {}
          BY <4>1 DEF Partial
      <4>2. CASE s # {}
        <5>1. s \ {Pick(s)} \in SUBSET S /\ Cardinality(s \ {Pick(s)}) <= n
            BY <1>1, <1>2, <2>4, <4>2
        <5>2. G[s \ {Pick(s)}] = g[s \ {Pick(s)}]
            BY <5>1
        <5> HIDE DEF G
        <5> QED
            BY <4>2, <5>2 DEF Partial
      <4> QED
          BY <4>1, <4>2
    <3>2. G[s] = Partial(f, g, s)
        BY <2>1
    <3> QED
        BY <3>1, <3>2
  <2>5. Q(G, n + 1)
      BY <2>4
  <2> HIDE DEF G, Q
  <2> QED
      BY <2>3, <2>5
<1>5. \E g \in [SUBSET S -> Nat] : Q(g, Cardinality(S))
  <2>1. Nat \subseteq T
    <3> HIDE DEF T
    <3> QED
        BY <1>3, <1>4, Induction
  <2>2. Cardinality(S) \in T
      BY <2>1, FS_CardinalityType
  <2> QED
      BY <2>2
<1>6. PICK g \in [SUBSET S -> Nat] : Q(g, Cardinality(S))
    BY <1>5
<1>7. P(g)
  <2>1. \A s \in SUBSET S : g[s] = Partial(f, g, s)
      BY <1>1, <1>6
  <2> QED
      BY <2>1
<1> DEFINE iter == CHOOSE h : P(h)
<1>8. P(iter)
    BY <1>7
<1>9. Total(f) = iter[S]
  <2>1. DOMAIN f = S
      OBVIOUS
  <2> QED
      BY <2>1 DEF Total, FoldFunction, FoldFunctionOnSet, MapThenFoldSet, Partial, Pick
<1>10. iter = g
  <2> DEFINE E == {n \in Nat : \A s \in SUBSET S : Cardinality(s) = n => iter[s] = g[s]}
  <2> HIDE DEF iter
  <2>1. \A s \in SUBSET S : iter[s] = Partial(f, iter, s) /\ g[s] = Partial(f, g, s)
      BY <1>7, <1>8
  <2>2. 0 \in E
    <3>1. \A s \in SUBSET S : Cardinality(s) = 0 => s = {}
        BY <1>1, NoneLeft
    <3> QED
        BY <2>1, <3>1 DEF Partial
  <2>3. ASSUME NEW n \in Nat, n \in E PROVE n + 1 \in E
    <3>1. ASSUME NEW s \in SUBSET S, Cardinality(s) = n + 1 PROVE iter[s] = g[s]
      <4>1. s # {}
          BY <2>3, <3>1, <1>1, NoneLeft
      <4>2. s \ {Pick(s)} \in SUBSET S /\ Cardinality(s \ {Pick(s)}) = n
          BY <1>2, <3>1, <4>1
      <4>3. iter[s \ {Pick(s)}] = g[s \ {Pick(s)}]
          BY <2>3, <4>2
      <4> QED
          BY <2>1, <4>1, <4>3 DEF Partial
    <3> QED
        BY <3>1
  <2>4. Nat \subseteq E
    <3> HIDE DEF E
    <3> QED
        BY <2>2, <2>3, Induction
  <2>5. \A s \in SUBSET S : iter[s] = g[s]
      BY <1>1, <2>4
  <2>6. iter = [s \in SUBSET S |-> iter[s]] /\ g = [s \in SUBSET S |-> g[s]]
      BY <1>7, <1>8
  <2> QED
      BY <2>5, <2>6
<1> HIDE DEF iter, P, Q
<1> QED
    BY <1>6, <1>9, <1>10, <1>7 DEF P, Sums

LEMMA SumOfZeros ==
    ASSUME NEW S, IsFiniteSet(S)
    PROVE  Total([c \in S |-> 0]) = 0
<1> DEFINE f == [c \in S |-> 0]
<1>1. PICK g : Sums(S, f, g)
  <2>1. f \in [S -> Nat]
      OBVIOUS
  <2> HIDE DEF f
  <2> QED
      BY <2>1, SumSteps
<1> DEFINE T == {n \in Nat : \A s \in SUBSET S : Cardinality(s) = n => g[s] = 0}
<1>2. \A s \in SUBSET S : IsFiniteSet(s) /\ Cardinality(s) \in Nat
    BY FS_Subset, FS_CardinalityType
<1>3. 0 \in T
  <2>1. \A s \in SUBSET S : Cardinality(s) = 0 => s = {}
      BY <1>2, NoneLeft
  <2> QED
      BY <1>1, <2>1 DEF Sums, Partial
<1>4. ASSUME NEW n \in Nat, n \in T PROVE n + 1 \in T
  <2>1. ASSUME NEW s \in SUBSET S, Cardinality(s) = n + 1 PROVE g[s] = 0
    <3>1. s # {}
        BY <1>2, <1>4, <2>1, NoneLeft
    <3>2. Pick(s) \in S /\ s \ {Pick(s)} \in SUBSET S /\ Cardinality(s \ {Pick(s)}) = n
        BY <1>2, <2>1, <3>1, PickOne
    <3>3. g[s \ {Pick(s)}] = 0 /\ f[Pick(s)] = 0
        BY <1>4, <3>2
    <3>4. g[s] = f[Pick(s)] + g[s \ {Pick(s)}]
        BY <1>1, <3>1 DEF Sums, Partial
    <3> QED
        BY <3>3, <3>4
  <2> QED
      BY <2>1
<1>5. Nat \subseteq T
  <2> HIDE DEF T
  <2> QED
      BY <1>3, <1>4, Induction
<1>6. Cardinality(S) \in Nat
    BY FS_CardinalityType
<1> QED
    BY <1>1, <1>5, <1>6 DEF Sums

(* Where one of the numbers grows, the sum grows with it. *)
LEMMA SumOneMore ==
    ASSUME NEW S, IsFiniteSet(S), NEW f \in [S -> Nat], NEW c \in S
    PROVE  /\ Total(f) \in Nat
           /\ Total([f EXCEPT ![c] = @ + 1]) = Total(f) + 1
<1> DEFINE h == [f EXCEPT ![c] = @ + 1]
<1>1. h \in [S -> Nat] /\ h[c] = f[c] + 1 /\ \A d \in S : d # c => h[d] = f[d]
    OBVIOUS
<1>2. PICK g : Sums(S, f, g)
    BY SumSteps
<1> HIDE DEF h
<1>3. PICK k : Sums(S, h, k)
    BY <1>1, SumSteps
<1> DEFINE T == {n \in Nat : \A s \in SUBSET S : Cardinality(s) = n =>
                                k[s] = g[s] + IF c \in s THEN 1 ELSE 0}
<1>4. \A s \in SUBSET S : IsFiniteSet(s) /\ Cardinality(s) \in Nat /\ g[s] \in Nat
    BY <1>2, FS_Subset, FS_CardinalityType DEF Sums
<1>5. 0 \in T
  <2>1. \A s \in SUBSET S : Cardinality(s) = 0 => s = {}
      BY <1>4, NoneLeft
  <2>2. {} \in SUBSET S /\ c \notin {}
      OBVIOUS
  <2>3. k[{}] = 0 /\ g[{}] = 0
      BY <1>2, <1>3, <2>2 DEF Sums, Partial
  <2> QED
      BY <2>1, <2>2, <2>3
<1>6. ASSUME NEW n \in Nat, n \in T PROVE n + 1 \in T
  <2>1. ASSUME NEW s \in SUBSET S, Cardinality(s) = n + 1
        PROVE  k[s] = g[s] + IF c \in s THEN 1 ELSE 0
    <3> DEFINE p == Pick(s)
               r == s \ {p}
    <3>1. s # {}
        BY <1>4, <1>6, <2>1, NoneLeft
    <3>2. p \in s /\ p \in S /\ r \in SUBSET S /\ Cardinality(r) = n
        BY <1>4, <2>1, <3>1, PickOne
    <3>3. k[r] = g[r] + IF c \in r THEN 1 ELSE 0
        BY <1>6, <3>2
    <3>4. g[s] = f[p] + g[r] /\ k[s] = h[p] + k[r]
        BY <1>2, <1>3, <3>1 DEF Sums, Partial
    <3>5. f[p] \in Nat /\ g[r] \in Nat
        BY <1>4, <3>2
    <3>6. CASE p = c
      <4>1. c \notin r /\ c \in s /\ h[p] = f[p] + 1
          BY <1>1, <3>2, <3>6
      <4> HIDE DEF p, r
      <4> QED
          BY <3>3, <3>4, <3>5, <4>1
    <3>7. CASE p # c
      <4>1. (c \in r <=> c \in s) /\ h[p] = f[p]
          BY <1>1, <3>2, <3>7
      <4> HIDE DEF p, r
      <4> QED
          BY <3>3, <3>4, <3>5, <4>1
    <3> QED
        BY <3>6, <3>7
  <2> QED
      BY <2>1
<1>7. Nat \subseteq T
  <2> HIDE DEF T
  <2> QED
      BY <1>5, <1>6, Induction
<1>8. Cardinality(S) \in Nat
    BY FS_CardinalityType
<1>9. k[S] = g[S] + 1
    BY <1>7, <1>8
<1> QED
    BY <1>2, <1>3, <1>4, <1>9 DEF h, Sums

(* The same for a function that differs in one place. *)
LEMMA SumGrows ==
    ASSUME NEW S, IsFiniteSet(S), NEW f \in [S -> Nat], NEW h \in [S -> Nat], NEW c \in S,
           h[c] = f[c] + 1, \A d \in S : d # c => h[d] = f[d]
    PROVE  Total(f) \in Nat /\ Total(h) = Total(f) + 1
<1>1. h = [f EXCEPT ![c] = @ + 1]
    OBVIOUS
<1> QED
    BY <1>1, SumOneMore

---------------------------------------------------------------------------------
(* The pushes and the pops that have taken effect, counted by their threads or not
   yet, and what they left on the stack. *)

PushesOf(n, calls) == [p \in Process |-> n[p] + IF calls[p] = Calls!Pushed THEN 1 ELSE 0]

PopsOf(n, calls) ==
    [p \in Process |-> n[p] + IF \E v \in Value : calls[p] = Calls!Popped(v) THEN 1 ELSE 0]

Balance(n, m, calls, s) ==
    /\ s \in Seq(Value)
    /\ Total(PushesOf(n, calls)) = Total(PopsOf(m, calls)) + Len(s)

CallsNow == [p \in Process |-> StackCall(p)]

Kept == Balance(pushCount, popCount, CallsNow, List!Contents)

LEMMA FiniteProcess == IsFiniteSet(Process)
BY EngineAssumption, FS_AddElement

LEMMA CountTypes ==
    ASSUME NEW n \in [Process -> Nat], NEW c
    PROVE  PushesOf(n, c) \in [Process -> Nat] /\ PopsOf(n, c) \in [Process -> Nat]
BY DEF PushesOf, PopsOf

LEMMA TotalTypes ==
    ASSUME NEW n \in [Process -> Nat], NEW c
    PROVE  Total(PushesOf(n, c)) \in Nat /\ Total(PopsOf(n, c)) \in Nat
<1>1. Process # {}
    OBVIOUS
<1> QED
    BY <1>1, CountTypes, FiniteProcess, SumOneMore

(* Where the sums do not change. *)
LEMMA Same ==
    ASSUME NEW n, NEW m, NEW k, NEW l, NEW c, NEW d, NEW s, Balance(n, m, c, s),
           \A p \in Process :
              /\ k[p] + (IF d[p] = Calls!Pushed THEN 1 ELSE 0)
                    = n[p] + IF c[p] = Calls!Pushed THEN 1 ELSE 0
              /\ l[p] + (IF \E v \in Value : d[p] = Calls!Popped(v) THEN 1 ELSE 0)
                    = m[p] + IF \E v \in Value : c[p] = Calls!Popped(v) THEN 1 ELSE 0
    PROVE  Balance(k, l, d, s)
<1>1. PushesOf(k, d) = PushesOf(n, c) /\ PopsOf(l, d) = PopsOf(m, c)
    BY DEF PushesOf, PopsOf
<1> QED
    BY <1>1 DEF Balance

(* One push more, one pop more. *)
LEMMA PushCounted ==
    ASSUME NEW n \in [Process -> Nat], NEW c, NEW d, NEW p \in Process,
           c[p] # Calls!Pushed, d[p] = Calls!Pushed,
           \A q \in Process : q # p => (d[q] = Calls!Pushed <=> c[q] = Calls!Pushed)
    PROVE  Total(PushesOf(n, d)) = Total(PushesOf(n, c)) + 1
<1>1. /\ PushesOf(n, d)[p] = PushesOf(n, c)[p] + 1
      /\ \A q \in Process : q # p => PushesOf(n, d)[q] = PushesOf(n, c)[q]
    BY DEF PushesOf
<1>2. PushesOf(n, c) \in [Process -> Nat] /\ PushesOf(n, d) \in [Process -> Nat]
    BY CountTypes
<1> QED
    BY ONLY p \in Process, <1>1, <1>2, FiniteProcess, SumGrows

LEMMA PopCounted ==
    ASSUME NEW n \in [Process -> Nat], NEW c, NEW d, NEW p \in Process,
           ~\E v \in Value : c[p] = Calls!Popped(v), \E v \in Value : d[p] = Calls!Popped(v),
           \A q \in Process : q # p => d[q] = c[q] \/ ~\E v \in Value : d[q] = Calls!Popped(v) \/ c[q] = Calls!Popped(v)
    PROVE  Total(PopsOf(n, d)) = Total(PopsOf(n, c)) + 1
<1>1. /\ PopsOf(n, d)[p] = PopsOf(n, c)[p] + 1
      /\ \A q \in Process : q # p => PopsOf(n, d)[q] = PopsOf(n, c)[q]
    BY DEF PopsOf
<1>2. PopsOf(n, c) \in [Process -> Nat] /\ PopsOf(n, d) \in [Process -> Nat]
    BY CountTypes
<1> QED
    BY ONLY p \in Process, <1>1, <1>2, FiniteProcess, SumGrows

LEMMA PopsStay ==
    ASSUME NEW n, NEW c, NEW d,
           \A q \in Process : d[q] = c[q] \/ ~\E v \in Value : d[q] = Calls!Popped(v) \/ c[q] = Calls!Popped(v)
    PROVE  PopsOf(n, d) = PopsOf(n, c)
BY DEF PopsOf

LEMMA PushesStay ==
    ASSUME NEW n, NEW c, NEW d,
           \A q \in Process : d[q] = Calls!Pushed <=> c[q] = Calls!Pushed
    PROVE  PushesOf(n, d) = PushesOf(n, c)
BY DEF PushesOf

LEMMA DifferentCalls ==
    /\ Calls!Idle # Calls!Pushed /\ Calls!Popping # Calls!Pushed
    /\ \A v : /\ Calls!Pushing(v) # Calls!Pushed /\ Calls!Popped(v) # Calls!Pushed
              /\ Calls!Popped(v) \notin {Calls!Idle, Calls!Popping, Calls!Pushed}
              /\ \A w : Calls!Popped(v) # Calls!Pushing(w)
              /\ \A w : Calls!Popped(v) = Calls!Popped(w) => v = w
<1>1. /\ Calls!Idle.at = "idle" /\ Calls!Popping.at = "pop" /\ Calls!Pushed.at = "pushed"
      /\ \A v : /\ Calls!Pushing(v).at = "push" /\ Calls!Popped(v).at = "popped"
                /\ Calls!Popped(v).value = v
    BY DEF Calls!Idle, Calls!Popping, Calls!Pushed, Calls!Pushing, Calls!Popped
<1> QED
    BY <1>1

LEMMA CalledCounted ==
    ASSUME NEW n, NEW m, NEW c, NEW d, NEW s, NEW p \in Process, Balance(n, m, c, s),
           c[p] = Calls!Idle, d[p] = Calls!Popping \/ \E v \in Value : d[p] = Calls!Pushing(v),
           \A q \in Process : q # p => d[q] = c[q]
    PROVE  Balance(n, m, d, s)
<1>1. d[p] # Calls!Pushed /\ c[p] # Calls!Pushed
    BY DifferentCalls
<1>2. ~\E v \in Value : d[p] = Calls!Popped(v) \/ c[p] = Calls!Popped(v)
    BY DifferentCalls
<1>3. PushesOf(n, d) = PushesOf(n, c)
    BY <1>1, PushesStay
<1>4. PopsOf(m, d) = PopsOf(m, c)
    BY <1>2, PopsStay
<1> QED
    BY <1>3, <1>4 DEF Balance

LEMMA PushedCounted ==
    ASSUME NEW n \in [Process -> Nat], NEW m \in [Process -> Nat], NEW c, NEW d, NEW s, NEW z,
           NEW p \in Process, NEW v \in Value, Balance(n, m, c, s),
           c[p] = Calls!Pushing(v), d[p] = Calls!Pushed, z = <<v>> \o s,
           \A q \in Process : q # p => d[q] = c[q]
    PROVE  Balance(n, m, d, z)
<1>1. Total(PushesOf(n, d)) = Total(PushesOf(n, c)) + 1
  <2>1. c[p] # Calls!Pushed
      BY DifferentCalls
  <2>2. \A q \in Process : q # p => (d[q] = Calls!Pushed <=> c[q] = Calls!Pushed)
      OBVIOUS
  <2> QED
      BY ONLY n \in [Process -> Nat], p \in Process, d[p] = Calls!Pushed, <2>1, <2>2, PushCounted
<1>2. PopsOf(m, d) = PopsOf(m, c)
  <2>1. ~\E w \in Value : d[p] = Calls!Popped(w) \/ c[p] = Calls!Popped(w)
      BY DifferentCalls
  <2> QED
      BY <2>1, PopsStay
<1>3. z \in Seq(Value) /\ Len(z) = Len(s) + 1 /\ Len(s) \in Nat
    BY DEF Balance
<1>4. Total(PushesOf(n, c)) \in Nat /\ Total(PopsOf(m, c)) \in Nat
    BY TotalTypes
<1>5. Total(PushesOf(n, c)) = Total(PopsOf(m, c)) + Len(s)
    BY DEF Balance
<1> QED
    BY ONLY <1>1, <1>2, <1>3, <1>4, <1>5 DEF Balance

LEMMA PoppedCounted ==
    ASSUME NEW n \in [Process -> Nat], NEW m \in [Process -> Nat], NEW c, NEW d, NEW s, NEW z,
           NEW p \in Process, Balance(n, m, c, s),
           c[p] = Calls!Popping, s # <<>>, d[p] = Calls!Popped(Head(s)), z = Tail(s),
           \A q \in Process : q # p => d[q] = c[q]
    PROVE  Balance(n, m, d, z)
<1>1. Head(s) \in Value /\ z \in Seq(Value) /\ Len(z) = Len(s) - 1 /\ Len(s) \in Nat
    BY DEF Balance
<1>2. PushesOf(n, d) = PushesOf(n, c)
  <2>1. c[p] # Calls!Pushed /\ d[p] # Calls!Pushed
      BY DifferentCalls
  <2> QED
      BY <2>1, PushesStay
<1>3. Total(PopsOf(m, d)) = Total(PopsOf(m, c)) + 1
  <2>1. ~\E v \in Value : c[p] = Calls!Popped(v)
      BY DifferentCalls
  <2>2. \E v \in Value : d[p] = Calls!Popped(v)
      BY <1>1
  <2> QED
      BY <2>1, <2>2, PopCounted
<1>4. Total(PushesOf(n, c)) \in Nat /\ Total(PopsOf(m, c)) \in Nat
    BY TotalTypes
<1>5. Total(PushesOf(n, c)) = Total(PopsOf(m, c)) + Len(s)
    BY DEF Balance
<1> QED
    BY ONLY <1>1, <1>2, <1>3, <1>4, <1>5 DEF Balance

LEMMA EmptyCounted ==
    ASSUME NEW n, NEW m, NEW c, NEW d, NEW s, NEW p \in Process, Balance(n, m, c, s),
           c[p] = Calls!Popping, d[p] = Calls!Popped(Empty),
           \A q \in Process : q # p => d[q] = c[q]
    PROVE  Balance(n, m, d, s)
<1>1. d[p] # Calls!Pushed /\ c[p] # Calls!Pushed
    BY DifferentCalls
<1>2. Empty \notin Value
    BY EngineAssumption DEF Value
<1>3. ~\E v \in Value : d[p] = Calls!Popped(v) \/ c[p] = Calls!Popped(v)
    BY <1>2, DifferentCalls
<1>4. PushesOf(n, d) = PushesOf(n, c)
    BY <1>1, PushesStay
<1>5. PopsOf(m, d) = PopsOf(m, c)
    BY <1>3, PopsStay
<1> QED
    BY <1>4, <1>5 DEF Balance

LEMMA EliminatedCounted ==
    ASSUME NEW n \in [Process -> Nat], NEW m \in [Process -> Nat], NEW c, NEW d, NEW s,
           NEW p \in Process, NEW w \in Process, NEW v \in Value, Balance(n, m, c, s),
           c[p] = Calls!Pushing(v), c[w] = Calls!Popping, p # w,
           d[p] = Calls!Pushed, d[w] = Calls!Popped(v),
           \A q \in Process : q # p /\ q # w => d[q] = c[q]
    PROVE  Balance(n, m, d, s)
<1>1. Total(PushesOf(n, d)) = Total(PushesOf(n, c)) + 1
  <2>1. c[p] # Calls!Pushed /\ c[w] # Calls!Pushed /\ d[w] # Calls!Pushed
      BY DifferentCalls
  <2>2. \A q \in Process : q # p => (d[q] = Calls!Pushed <=> c[q] = Calls!Pushed)
      BY <2>1
  <2> QED
      BY <2>1, <2>2, PushCounted
<1>2. Total(PopsOf(m, d)) = Total(PopsOf(m, c)) + 1
  <2>1. ~\E u \in Value : c[w] = Calls!Popped(u)
      BY DifferentCalls
  <2>2. ~\E u \in Value : d[p] = Calls!Popped(u) \/ c[p] = Calls!Popped(u)
      BY DifferentCalls
  <2>3. \A q \in Process : q # w =>
            d[q] = c[q] \/ ~\E u \in Value : d[q] = Calls!Popped(u) \/ c[q] = Calls!Popped(u)
      BY <2>2
  <2>4. \E u \in Value : d[w] = Calls!Popped(u)
      OBVIOUS
  <2> QED
      BY <2>1, <2>3, <2>4, PopCounted
<1>3. s \in Seq(Value) /\ Len(s) \in Nat
    BY DEF Balance
<1>4. Total(PushesOf(n, c)) \in Nat /\ Total(PopsOf(m, c)) \in Nat
    BY TotalTypes
<1>5. Total(PushesOf(n, c)) = Total(PopsOf(m, c)) + Len(s)
    BY DEF Balance
<1> QED
    BY ONLY <1>1, <1>2, <1>3, <1>4, <1>5 DEF Balance

---------------------------------------------------------------------------------
(* What the main thread prints. *)

Idle(p) == pc[p] = "idle"

(* Only a pop that is over has an answer; the main thread does not push, and begins
   when the other threads are at their end; its last pop found nothing. *)
EndInv ==
    /\ \A p \in Process : pc[p] # "done" \/ arg[p] # null => ret[p] = null
    /\ arg[Main] = null
    /\ ~Idle(Main) \/ returned => \A t \in Thread : ops[t] = OperationAmount
    /\ ret[Main] = Empty \/ returned => top = null
    /\ returned => Idle(Main)

CountedInv == EndInv /\ Kept

(* When every call is over and the list is empty, what the threads counted is what
   took effect. *)
LEMMA CountsAtEnd == Inv /\ CountedInv => Conservation
<1>0. (returned => Total(pushCount) = Total(popCount)) => Conservation
    BY ONLY Zenon DEF Conservation, Total
<1> SUFFICES ASSUME Inv, CountedInv, returned PROVE Total(pushCount) = Total(popCount)
    BY <1>0
<1>1. \A p \in Process : Idle(p)
    BY EngineAssumption DEF CountedInv, EndInv, Inv, TypeInv, CallInv, Idle
<1>2. \A p \in Process : CallsNow[p] = Calls!Idle
    BY <1>1 DEF CallsNow, StackCall, Idle
<1>3. pushCount \in [Process -> Nat] /\ popCount \in [Process -> Nat]
    BY DEF Inv, TypeInv, EngineTypes
<1>4. PushesOf(pushCount, CallsNow) = pushCount /\ PopsOf(popCount, CallsNow) = popCount
  <2>1. \A p \in Process : CallsNow[p] # Calls!Pushed /\ ~\E v \in Value : CallsNow[p] = Calls!Popped(v)
      BY <1>2, DifferentCalls
  <2> QED
      BY <1>3, <2>1 DEF PushesOf, PopsOf
<1>5. Len(List!Contents) = 0
  <2>1. IsList(0, <<>>, top, next)
      BY DEF CountedInv, EndInv, IsList
  <2>2. List!Contents = [k \in 1..0 |-> value[(<<>>)[k]]]
      BY <2>1, ContentsOf
  <2> QED
      BY <2>2
<1>6. Total(pushCount) = Total(popCount) + Len(List!Contents)
    BY <1>4 DEF CountedInv, Kept, Balance
<1>7. Total(popCount) \in Nat
    BY <1>3, <1>4, TotalTypes
<1> QED
    BY ONLY <1>5, <1>6, <1>7

LEMMA InitCounted == Init => CountedInv
<1> SUFFICES ASSUME Init PROVE CountedInv
    OBVIOUS
<1>1. EndInv
    BY EngineAssumption DEF Init, List!Init, EndInv, Idle
<1>2. Inv /\ List!Contents = <<>> /\ CallsNow = [p \in Process |-> Abstract!Idle]
    BY InitInv DEF Abstract!Init, CallsNow
<1>3. \A p \in Process : CallsNow[p] = Calls!Idle
    BY <1>2 DEF Abstract!Idle, Calls!Idle
<1>4. /\ PushesOf(pushCount, CallsNow) = [p \in Process |-> 0]
      /\ PopsOf(popCount, CallsNow) = [p \in Process |-> 0]
    BY <1>3, DifferentCalls DEF Init, PushesOf, PopsOf
<1>5. Total([p \in Process |-> 0]) = 0
    BY FiniteProcess, SumOfZeros
<1> QED
    BY <1>1, <1>2, <1>4, <1>5 DEF CountedInv, Kept, Balance

(* A step of the abstract stack, while no call returns. *)
LEMMA AbstractCounted ==
    ASSUME Inv, Kept, Step, UNCHANGED <<pushCount, popCount>>,
           \A p \in Process : pc'[p] = "idle" => pc[p] = "idle"
    PROVE  Kept'
<1> PICK c : c = CallsNow
    OBVIOUS
<1> PICK d : d = CallsNow'
    OBVIOUS
<1> PICK s : s = List!Contents
    OBVIOUS
<1> PICK z : z = List!Contents'
    OBVIOUS
<1> PICK n : n = pushCount
    OBVIOUS
<1> PICK m : m = popCount
    OBVIOUS
<1>1. n \in [Process -> Nat] /\ m \in [Process -> Nat]
    BY DEF Inv, TypeInv, EngineTypes
<1>2. Balance(n, m, c, s)
    BY DEF Kept
<1>3. /\ c = [p \in Process |-> StackCall(p)]
      /\ d = [p \in Process |-> StackCall(p)]'
    BY DEF CallsNow
<1>4. DOMAIN c = Process
    BY <1>3
<1>5. \A p \in Process : c[p].at = "push" => c[p].value \in Value /\ c[p] = Calls!Pushing(c[p].value)
  <2>1. arg \in [Process -> Item]
      BY DEF Inv, TypeInv, List!StackTypeOK
  <2> QED
      BY <1>3, <2>1 DEF StackCall, Calls!Idle, Calls!Pushing, Calls!Popping, Calls!Pushed, Calls!Popped
<1>6. \A p \in Process : c[p].at \in {"pushed", "popped"} => d[p] # Calls!Idle
  <2>1. ASSUME NEW p \in Process, c[p].at \in {"pushed", "popped"} PROVE pc[p] # "idle"
      BY <1>3, <2>1 DEF StackCall, Calls!Idle
  <2>2. ASSUME NEW p \in Process, pc'[p] # "idle" PROVE StackCall(p)' # Calls!Idle
      BY <2>2 DEF StackCall, Calls!Idle, Calls!Pushing, Calls!Popping, Calls!Pushed, Calls!Popped
  <2> QED
      BY <1>3, <2>1, <2>2
<1>7. /\ Abstract!Idle = Calls!Idle /\ Abstract!Popping = Calls!Popping /\ Abstract!Pushed = Calls!Pushed
      /\ \A v : Abstract!Pushing(v) = Calls!Pushing(v) /\ Abstract!Popped(v) = Calls!Popped(v)
    BY DEF Abstract!Idle, Abstract!Popping, Abstract!Pushed, Abstract!Pushing, Abstract!Popped,
           Calls!Idle, Calls!Popping, Calls!Pushed, Calls!Pushing, Calls!Popped
<1>8. ASSUME NEW p \in Process, NEW to, Abstract!Becomes(p, to)
      PROVE  d[p] = to /\ \A q \in Process : q # p => d[q] = c[q]
    BY <1>3, <1>8 DEF Abstract!Becomes
<1>9. ASSUME NEW p \in Process, Abstract!Call(p) PROVE Balance(n, m, d, z)
  <2>1. c[p] = Calls!Idle /\ z = s
      BY <1>3, <1>7, <1>9 DEF Abstract!Call
  <2>2. d[p] = Calls!Popping \/ \E v \in Value : d[p] = Calls!Pushing(v)
      BY <1>7, <1>8, <1>9 DEF Abstract!Call
  <2>3. \A q \in Process : q # p => d[q] = c[q]
      BY <1>8, <1>9 DEF Abstract!Call
  <2>4. Balance(n, m, d, s)
      BY ONLY <1>2, <2>1, <2>2, <2>3, CalledCounted
  <2> QED
      BY <2>1, <2>4
<1>10. ASSUME NEW p \in Process, Abstract!Push(p) PROVE Balance(n, m, d, z)
  <2>1. c[p].at = "push" /\ z = <<c[p].value>> \o s
      BY <1>3, <1>10 DEF Abstract!Push
  <2>2. PICK v \in Value : v = c[p].value /\ c[p] = Calls!Pushing(v)
      BY <1>5, <2>1
  <2>3. d[p] = Calls!Pushed /\ \A q \in Process : q # p => d[q] = c[q]
      BY <1>7, <1>8, <1>10 DEF Abstract!Push
  <2>4. z = <<v>> \o s
      BY <2>1, <2>2
  <2> QED
      BY ONLY <1>1, <1>2, <2>2, <2>3, <2>4, PushedCounted
<1>11. ASSUME NEW p \in Process, Abstract!Pop(p) PROVE Balance(n, m, d, z)
  <2>1. c[p] = Calls!Popping /\ s # <<>> /\ z = Tail(s)
      BY <1>3, <1>7, <1>11 DEF Abstract!Pop
  <2>2. d[p] = Calls!Popped(Head(s)) /\ \A q \in Process : q # p => d[q] = c[q]
      BY <1>7, <1>8, <1>11 DEF Abstract!Pop
  <2> QED
      BY ONLY <1>1, <1>2, <2>1, <2>2, PoppedCounted
<1>12. ASSUME NEW p \in Process, Abstract!PopEmpty(p) PROVE Balance(n, m, d, z)
  <2>1. c[p] = Calls!Popping /\ z = s
      BY <1>3, <1>7, <1>12 DEF Abstract!PopEmpty
  <2>2. d[p] = Calls!Popped(Empty) /\ \A q \in Process : q # p => d[q] = c[q]
      BY <1>7, <1>8, <1>12 DEF Abstract!PopEmpty
  <2>3. Balance(n, m, d, s)
      BY ONLY <1>2, <2>1, <2>2, EmptyCounted
  <2> QED
      BY <2>1, <2>3
<1>13. ASSUME NEW p \in Process, Abstract!Return(p) PROVE FALSE
  <2>1. c[p].at \in {"pushed", "popped"}
      BY <1>3, <1>13 DEF Abstract!Return
  <2>2. d[p] = Calls!Idle
      BY <1>7, <1>8, <1>13 DEF Abstract!Return
  <2> QED
      BY <1>6, <2>1, <2>2
<1>14. ASSUME NEW p \in Process, NEW w \in Process, c[p].at = "push", Abstract!Eliminate(p, w)
       PROVE  Balance(n, m, d, z)
  <2>1. c[w] = Calls!Popping /\ z = s
      BY <1>3, <1>7, <1>14 DEF Abstract!Eliminate
  <2>2. PICK v \in Value : v = c[p].value /\ c[p] = Calls!Pushing(v)
      BY <1>5, <1>14
  <2>3. d = [c EXCEPT ![p] = Abstract!Pushed, ![w] = Abstract!Popped(c[p].value)]
      BY <1>3, <1>14 DEF Abstract!Eliminate
  <2>4. p # w
      BY <1>14, <2>1 DEF Calls!Popping
  <2>5. /\ d[p] = Calls!Pushed /\ d[w] = Calls!Popped(v)
        /\ \A q \in Process : q # p /\ q # w => d[q] = c[q]
      BY <1>4, <1>7, <2>2, <2>3, <2>4
  <2>6. Balance(n, m, d, s)
      BY ONLY <1>1, <1>2, <2>1, <2>2, <2>4, <2>5, EliminatedCounted
  <2> QED
      BY <2>1, <2>6
<1>15. ASSUME UNCHANGED Abstract!absVars PROVE Balance(n, m, d, z)
  <2>1. d = c /\ z = s
      BY <1>3, <1>15 DEF Abstract!absVars
  <2> QED
      BY <1>2, <2>1
<1>16. ASSUME Abstract!Next PROVE Balance(n, m, d, z)
  <2>1. PICK p \in Process :
            \/ Abstract!Call(p) \/ Abstract!Push(p) \/ Abstract!Pop(p) \/ Abstract!PopEmpty(p) \/ Abstract!Return(p)
            \/ StackCall(p).at = "push" /\ \E w \in Process : Abstract!Eliminate(p, w)
      BY <1>16 DEF Abstract!Next
  <2>2. c[p] = StackCall(p)
      BY <1>3
  <2> QED
      BY <1>9, <1>10, <1>11, <1>12, <1>13, <1>14, <2>1, <2>2
<1>17. Balance(n, m, d, z)
    BY <1>15, <1>16 DEF Step
<1> QED
    BY <1>17 DEF Kept

(* A call returns: what it did is counted by its thread instead. *)
LEMMA ReturnCounted ==
    ASSUME Inv, TypeInv', CountedInv, NEW p \in Process, List!Goto(p, "done", "idle"), List!Leave(p),
           UNCHANGED arrayVars,
           popCount' = Incremented(popCount, p, ret[p] \in Value),
           pushCount' = Incremented(pushCount, p, arg[p] # null)
    PROVE  Kept'
<1> USE DEF List!Goto, List!Leave
<1>1. /\ pc \in [Process -> Point] /\ pushCount \in [Process -> Nat] /\ popCount \in [Process -> Nat]
      /\ arg \in [Process -> Item] /\ ret \in [Process -> Value \cup {null, Empty}]
    BY DEF Inv, TypeInv, EngineTypes, List!StackTypeOK
<1>2. /\ pc[p] = "done" /\ pc'[p] = "idle"
      /\ \A q \in Process : q # p => /\ pc'[q] = pc[q] /\ arg'[q] = arg[q] /\ ret'[q] = ret[q]
                                     /\ pushCount'[q] = pushCount[q] /\ popCount'[q] = popCount[q]
    BY <1>1 DEF Incremented
<1>3. List!Contents' = List!Contents
    BY DEF List!Contents
<1>4. \A q \in Process : q # p => StackCall(q)' = StackCall(q)
    BY <1>2, SameCall DEF Decided
<1>5. StackCall(p)' = Calls!Idle
    BY <1>2 DEF StackCall
<1>6. null \notin Value
    BY EngineAssumption DEF Value
<1>7. /\ StackCall(p) = Calls!Pushed <=> arg[p] # null
      /\ (\E v \in Value : StackCall(p) = Calls!Popped(v)) <=> ret[p] \in Value
  <2>1. StackCall(p) = IF arg[p] # null THEN Calls!Pushed ELSE Calls!Popped(ret[p])
      BY <1>2 DEF StackCall, Answered, Answer
  <2>2. CASE arg[p] # null
    <3>1. ret[p] = null
        BY <2>2 DEF CountedInv, EndInv
    <3> QED
        BY <1>6, <2>1, <2>2, <3>1, DifferentCalls
  <2>3. CASE arg[p] = null
      BY <2>1, <2>3, DifferentCalls
  <2> QED
      BY <2>2, <2>3
<1> PICK c : c = CallsNow
    OBVIOUS
<1> PICK d : d = CallsNow'
    OBVIOUS
<1>8. /\ \A q \in Process : q # p => d[q] = c[q]
      /\ d[p] = Calls!Idle /\ c[p] = StackCall(p)
    BY <1>4, <1>5 DEF CallsNow
<1> PICK s : s = List!Contents
    OBVIOUS
<1> PICK n : n = pushCount
    OBVIOUS
<1> PICK m : m = popCount
    OBVIOUS
<1> PICK k : k = pushCount'
    OBVIOUS
<1> PICK l : l = popCount'
    OBVIOUS
<1>9. Balance(n, m, c, s)
    BY DEF CountedInv, Kept
<1>10. /\ k[p] = (n[p] + IF c[p] = Calls!Pushed THEN 1 ELSE 0) /\ d[p] # Calls!Pushed
       /\ l[p] = (m[p] + IF \E v \in Value : c[p] = Calls!Popped(v) THEN 1 ELSE 0)
       /\ ~\E v \in Value : d[p] = Calls!Popped(v)
       /\ k[p] \in Nat /\ l[p] \in Nat
  <2>1. k[p] = IF arg[p] # null THEN n[p] + 1 ELSE n[p]
      BY <1>1 DEF Incremented
  <2>2. l[p] = IF ret[p] \in Value THEN m[p] + 1 ELSE m[p]
      BY <1>1 DEF Incremented
  <2>3. n[p] \in Nat /\ m[p] \in Nat
      BY <1>1
  <2>4. d[p] # Calls!Pushed /\ ~\E v \in Value : d[p] = Calls!Popped(v)
      BY <1>8, DifferentCalls
  <2> QED
      BY <1>7, <1>8, <2>1, <2>2, <2>3, <2>4
<1>11. ASSUME NEW q \in Process
       PROVE  /\ k[q] + (IF d[q] = Calls!Pushed THEN 1 ELSE 0)
                    = n[q] + IF c[q] = Calls!Pushed THEN 1 ELSE 0
              /\ l[q] + (IF \E v \in Value : d[q] = Calls!Popped(v) THEN 1 ELSE 0)
                    = m[q] + IF \E v \in Value : c[q] = Calls!Popped(v) THEN 1 ELSE 0
  <2>1. CASE q = p
      BY <1>10, <2>1
  <2>2. CASE q # p
    <3>1. k[q] = n[q] /\ l[q] = m[q] /\ d[q] = c[q]
        BY <1>2, <1>8, <2>2
    <3> QED
        BY ONLY <3>1
  <2> QED
      BY <2>1, <2>2
<1>12. Balance(k, l, d, s)
    BY ONLY <1>9, <1>11, Same
<1> QED
    BY <1>3, <1>12 DEF Kept

---------------------------------------------------------------------------------
(* The main thread and the answers. *)

LEMMA OperationEnds == ASSUME Inv, CountedInv, NEW p \in Process, Operation(p) PROVE EndInv'
<1>1. /\ pc \in [Process -> Point] /\ arg \in [Process -> Item]
      /\ ret \in [Process -> Value \cup {null, Empty}] /\ value \in [List!Node -> Item]
      /\ Main \in Process /\ Empty \notin Item
    BY EngineAssumption DEF Inv, TypeInv, EngineTypes, List!StackTypeOK, Value
<1>2. pc[p] \notin {"idle", "done"} /\ \A q \in Process : q # p => pc'[q] = pc[q] /\ ret'[q] = ret[q]
  <2> USE DEF List!Goto
  <2>1. CASE Try(p)
      BY <1>1, <2>1 DEF Try, List!TryPush, List!TryPop, List!ReadTopToPush, List!PushCas,
                        List!ReadTopToPop, List!ReadNext, List!PopCas
  <2>2. CASE Visit(p)
      BY <1>1, <2>2 DEF Visit
  <2>3. CASE Wait(p)
    <3>1. xpc[p] # "out"
        BY <2>3 DEF Wait, Exchange!Goto, Exchange!Inside, Exchange!Look, Exchange!Offer, Exchange!Await,
                    Exchange!TooLate, Exchange!Collect, Exchange!Missed, Exchange!Expire
    <3>2. pc[p] = "visit"
        BY <3>1 DEF Inv, TypeInv, CallInv
    <3> QED
        BY <2>3, <3>2 DEF Wait
  <2>4. CASE Met(p)
      BY <1>1, <2>4 DEF Met, Again
  <2>5. CASE TimedOut(p)
      BY <1>1, <2>5 DEF TimedOut, Again
  <2> QED
      BY <2>1, <2>2, <2>3, <2>4, <2>5 DEF Operation
<1>3. arg' = arg /\ ops' = ops /\ returned' = returned
    BY DEF Operation, Try, Visit, Wait, Met, TimedOut, List!TryPush, List!TryPop, List!ReadTopToPush,
           List!PushCas, List!ReadTopToPop, List!ReadNext, List!PopCas
<1>4. ret[p] = null
    BY <1>2 DEF CountedInv, EndInv
<1>5. ReadInv(p) /\ (pc[p] = "popCas" => oldTop[p] \in List!Node)
    BY DEF Inv, ReadsInv, TypeInv, CallInv
<1>6. /\ pc'[p] # "done" \/ arg[p] # null => ret'[p] = null
      /\ ret'[p] = Empty => top' = null
  <2> USE DEF List!Goto
  <2>1. CASE List!TryPush(p)
      BY <1>1, <1>4, <2>1, EngineAssumption DEF List!TryPush, List!ReadTopToPush, List!PushCas
  <2>2. CASE List!ReadTopToPop(p)
      BY <1>1, <1>5, <2>2, EngineAssumption DEF List!ReadTopToPop, ReadInv
  <2>3. CASE List!ReadNext(p)
      BY <1>1, <1>4, <2>3, EngineAssumption DEF List!ReadNext
  <2>4. CASE List!PopCas(p)
    <3>1. value[oldTop[p]] \in Item /\ arg[p] = null
        BY <1>1, <1>5, <2>4 DEF List!PopCas, ReadInv
    <3> QED
        BY <1>1, <1>4, <2>4, <3>1, EngineAssumption DEF List!PopCas
  <2>5. CASE Visit(p) \/ Wait(p) \/ TimedOut(p)
      BY <1>4, <2>5, EngineAssumption DEF Visit, Wait, TimedOut
  <2>6. CASE Met(p)
    <3>1. PICK item \in Item :
            \/ Opposed(p, item) /\ ret' = [ret EXCEPT ![p] = item] /\ pc' = [pc EXCEPT ![p] = "done"]
            \/ ret' = ret
        BY <2>6 DEF Met
    <3>2. CASE ret' = ret
        BY <1>4, <3>2, EngineAssumption
    <3>3. CASE Opposed(p, item) /\ ret' = [ret EXCEPT ![p] = item] /\ pc' = [pc EXCEPT ![p] = "done"]
        BY <1>1, <3>3 DEF Opposed
    <3> QED
        BY <3>1, <3>2, <3>3
  <2> QED
      BY <2>1, <2>2, <2>3, <2>4, <2>5, <2>6 DEF Operation, Try, List!TryPop
<1>7. p \in Thread => ops[p] < OperationAmount /\ ops[p] # OperationAmount
    BY <1>2, EngineAssumption DEF Inv, TypeInv, CallInv, EngineTypes
<1>8. ~returned /\ (p # Main => Idle(Main) /\ Main # p /\ ret[Main] # Empty)
  <2>1. CASE p = Main
      BY <1>2, <2>1 DEF CountedInv, EndInv, Idle
  <2>2. CASE p # Main
    <3>1. Idle(Main) /\ ~returned
        BY <1>7, <2>2 DEF CountedInv, EndInv
    <3>2. ret[Main] = null
        BY <1>1, <3>1 DEF CountedInv, EndInv, Idle
    <3> QED
        BY <2>2, <3>1, <3>2, EngineAssumption
  <2> QED
      BY <2>1, <2>2
<1>9. \A q \in Process : pc'[q] # "done" \/ arg'[q] # null => ret'[q] = null
    BY <1>2, <1>3, <1>6 DEF CountedInv, EndInv
<1>10. ~Idle(Main)' => \A t \in Thread : ops'[t] = OperationAmount
  <2>1. CASE p = Main
      BY <1>2, <1>3, <2>1 DEF CountedInv, EndInv, Idle
  <2>2. CASE p # Main
      BY <1>1, <1>2, <1>8, <2>2 DEF Idle
  <2> QED
      BY <2>1, <2>2
<1>11. ret'[Main] = Empty => top' = null
    BY <1>1, <1>2, <1>6, <1>8
<1>12. arg'[Main] = null /\ ~returned'
    BY <1>3, <1>8 DEF CountedInv, EndInv
<1> QED
    BY <1>9, <1>10, <1>11, <1>12 DEF EndInv

LEMMA NextEnds == ASSUME Inv, CountedInv, Next PROVE EndInv'
<1>0. /\ pc \in [Process -> Point] /\ arg \in [Process -> Item]
      /\ ret \in [Process -> Value \cup {null, Empty}] /\ ops \in [Process -> 0..OperationAmount]
      /\ Main \in Process /\ Main \notin Thread /\ null # Empty
    BY EngineAssumption DEF Inv, TypeInv, EngineTypes, List!StackTypeOK
<1> USE DEF List!Goto
<1>1. ASSUME NEW t \in Thread, Call(t) PROVE EndInv'
  <2>1. ops[t] < OperationAmount /\ ops[t] # OperationAmount /\ t # Main
      BY <1>0, <1>1, EngineAssumption DEF Call
  <2>2. Idle(Main) /\ ~returned
      BY <2>1 DEF CountedInv, EndInv
  <2>3. /\ pc[t] = "idle" /\ \A q \in Process : q # t => pc'[q] = pc[q] /\ arg'[q] = arg[q]
        /\ pc'[t] # "done" /\ ret' = ret /\ top' = top /\ ops' = ops /\ returned' = returned
      BY <1>0, <1>1 DEF Call, List!CallPop, List!CallPush
  <2>4. ret[t] = null /\ ret[Main] = null
      BY <1>0, <2>2, <2>3 DEF CountedInv, EndInv, Idle
  <2>5. \A q \in Process : pc'[q] # "done" \/ arg'[q] # null => ret'[q] = null
      BY <2>3, <2>4 DEF CountedInv, EndInv
  <2>6. Idle(Main)' /\ arg'[Main] = null
      BY <1>0, <2>1, <2>2, <2>3 DEF CountedInv, EndInv, Idle
  <2> QED
      BY <1>0, <2>2, <2>3, <2>4, <2>5, <2>6 DEF EndInv
<1>2. ASSUME NEW p \in Process, pc[p] = "done", pc' = [pc EXCEPT ![p] = "idle"], List!Leave(p)
      PROVE  /\ \A q \in Process : pc'[q] # "done" \/ arg'[q] # null => ret'[q] = null
             /\ arg'[Main] = null /\ top' = top
             /\ p # Main => pc'[Main] = pc[Main] /\ ret'[Main] = ret[Main]
             /\ p = Main => pc'[Main] = "idle" /\ ret'[Main] = null
    BY <1>0, <1>2 DEF List!Leave, CountedInv, EndInv
<1>3. ASSUME NEW t \in Thread, Return(t) PROVE EndInv'
  <2>1. pc[t] = "done" /\ pc' = [pc EXCEPT ![t] = "idle"] /\ List!Leave(t) /\ t \in Process /\ t # Main
      BY <1>0, <1>3 DEF Return
  <2>2. ops[t] # OperationAmount
      BY <1>0, <2>1, EngineAssumption DEF Inv, TypeInv, CallInv
  <2>3. Idle(Main) /\ ~returned
      BY <2>2 DEF CountedInv, EndInv
  <2>4. ret[Main] = null
      BY <1>0, <2>3 DEF CountedInv, EndInv, Idle
  <2>5. Idle(Main)' /\ ~returned' /\ ret'[Main] = null
      BY <1>2, <1>3, <2>1, <2>3, <2>4 DEF Return, Idle
  <2> QED
      BY <1>0, <1>2, <2>1, <2>5 DEF EndInv
<1>4. ASSUME Drain PROVE EndInv'
  <2>1. /\ \A t \in Thread : ops'[t] = OperationAmount
        /\ ~returned' /\ arg' = arg /\ ret' = ret /\ top' = top
        /\ pc[Main] = "idle" /\ pc' = [pc EXCEPT ![Main] = "pop"]
      BY <1>4 DEF Drain, List!CallPop
  <2>2. \A q \in Process : pc'[q] # "done" \/ arg'[q] # null => ret'[q] = null
      BY <1>0, <2>1 DEF CountedInv, EndInv
  <2> QED
      BY <2>1, <2>2 DEF CountedInv, EndInv
<1>5. ASSUME Drained PROVE EndInv'
  <2>1. /\ pc[Main] = "done" /\ pc' = [pc EXCEPT ![Main] = "idle"] /\ List!Leave(Main)
        /\ ops' = ops /\ returned' = (ret[Main] = Empty)
      BY <1>5 DEF Drained
  <2>2. \A t \in Thread : ops[t] = OperationAmount
      BY <2>1 DEF CountedInv, EndInv, Idle
  <2>3. returned' => top = null
      BY <2>1 DEF CountedInv, EndInv
  <2>4. pc'[Main] = "idle" /\ ret'[Main] = null /\ top' = top /\ arg'[Main] = null
      BY <1>0, <1>2, <2>1
  <2> QED
      BY <1>0, <1>2, <2>1, <2>2, <2>3, <2>4 DEF EndInv, Idle
<1>6. ASSUME Over PROVE EndInv'
    BY <1>6 DEF Over, vars, CountedInv, EndInv, Idle
<1> QED
    BY <1>0, <1>1, <1>3, <1>4, <1>5, <1>6, OperationEnds DEF Next, MainStep, ThreadStep

LEMMA NextCounted == Inv /\ CountedInv /\ [Next]_vars => CountedInv'
<1> SUFFICES ASSUME Inv, CountedInv, [Next]_vars PROVE CountedInv'
    OBVIOUS
<1>0. Inv' /\ Step /\ TypeInv'
    BY NextPromised DEF Inv
<1>1. CASE UNCHANGED vars
  <2>1. EndInv'
      BY <1>1 DEF vars, CountedInv, EndInv, Idle
  <2>2. UNCHANGED <<pushCount, popCount, pc>>
      BY <1>1 DEF vars
  <2>3. Kept'
      BY <1>0, <2>2, AbstractCounted DEF CountedInv
  <2> QED
      BY <2>1, <2>3 DEF CountedInv
<1>2. CASE Next
  <2>1. EndInv'
      BY <1>2, NextEnds
  <2>2. ASSUME NEW p \in Process, Operation(p) PROVE Kept'
    <3>1. UNCHANGED <<pushCount, popCount>>
        BY <2>2 DEF Operation, Try, Visit, Wait, Met, TimedOut
    <3>2. \A q \in Process : pc'[q] = "idle" => pc[q] = "idle"
      <4>1. pc \in [Process -> Point]
          BY DEF Inv, TypeInv, EngineTypes
      <4> QED
          BY <2>2, <4>1 DEF Operation, Try, Visit, Wait, Met, TimedOut, Again, List!Goto, List!TryPush,
                            List!TryPop, List!ReadTopToPush, List!PushCas, List!ReadTopToPop,
                            List!ReadNext, List!PopCas
    <3> QED
        BY <1>0, <3>1, <3>2, AbstractCounted DEF CountedInv
  <2>3. ASSUME NEW p \in Process, List!CallPop(p) \/ \E v \in Value : List!CallPush(p, v),
               UNCHANGED engineVars
        PROVE  Kept'
    <3>1. pc \in [Process -> Point]
        BY DEF Inv, TypeInv, EngineTypes
    <3>2. \A q \in Process : pc'[q] = "idle" => pc[q] = "idle"
        BY <2>3, <3>1 DEF List!CallPop, List!CallPush, List!Goto
    <3> QED
        BY <1>0, <2>3, <3>2, AbstractCounted DEF CountedInv
  <2>4. ASSUME NEW t \in Thread, Call(t) PROVE Kept'
    <3>1. ops[t] + 1 \in 1..OperationAmount
        BY <2>4, EngineAssumption DEF Call, Inv, TypeInv, EngineTypes
    <3>2. Numbers[ops[t] + 1] \subseteq Value
        BY <3>1 DEF Value
    <3> QED
        BY <2>3, <2>4, <3>2 DEF Call
  <2>5. ASSUME NEW t \in Thread, Return(t) PROVE Kept'
      BY <1>0, <2>5, ReturnCounted DEF Return
  <2>6. ASSUME Drain PROVE Kept'
      BY <2>3, <2>6 DEF Drain
  <2>7. ASSUME Drained PROVE Kept'
    <3>1. arg[Main] = null
        BY DEF CountedInv, EndInv
    <3>2. pushCount' = Incremented(pushCount, Main, arg[Main] # null)
        BY <2>7, <3>1 DEF Drained, Incremented, Inv, TypeInv, EngineTypes
    <3> QED
        BY <1>0, <2>7, <3>2, ReturnCounted DEF Drained
  <2>8. ASSUME Over PROVE Kept'
    <3>1. UNCHANGED <<pushCount, popCount, pc>>
        BY <2>8 DEF Over, vars
    <3> QED
        BY <1>0, <3>1, AbstractCounted DEF CountedInv
  <2>9. Kept'
      BY <1>2, <2>2, <2>4, <2>5, <2>6, <2>7, <2>8 DEF Next, MainStep, ThreadStep
  <2> QED
      BY <2>1, <2>9 DEF CountedInv
<1> QED
    BY <1>1, <1>2

(* What the benchmark prints: when it is over, as many pops as pushes are counted, so
   nothing that was pushed is lost and nothing is popped twice, whether it went
   through the list or through the array. *)
THEOREM NothingLost == Spec => []Conservation
<1>1. Init => Inv /\ CountedInv
    BY InitInv, InitCounted
<1>2. Inv /\ CountedInv /\ [Next]_vars => (Inv /\ CountedInv)'
    BY NextPromised, NextCounted
<1>3. Inv /\ CountedInv => Conservation
    BY CountsAtEnd
<1> QED
    BY <1>1, <1>2, <1>3, PTL DEF Spec
=================================================================================
