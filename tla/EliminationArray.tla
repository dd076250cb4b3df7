---------------------------- MODULE EliminationArray ----------------------------
(***************************************************************************)
(* EliminationArray.java and its LockFreeExchangers (Comp 409/Assignment   *)
(* 3/src/question1): a caller of visit offers its item in one slot and     *)
(* waits there for a second caller, or takes the offer it finds, or gives  *)
(* up when its time is over. An AtomicStampedReference holds an item and   *)
(* a stamp, read and compared together.                                    *)
(***************************************************************************)
EXTENDS Naturals

CONSTANTS Process,   (* the callers                              *)
          Item,      (* what is exchanged                        *)
          null,      (* the item of a caller that has none       *)
          Capacity   (* EliminationStack.exchangerCapacity       *)

Slot == 0..(Capacity - 1)

VARIABLES slot,     (* LockFreeExchanger.slot: item and stamp                 *)
          xpc,      (* the control point of each caller, "out" of visit       *)
          at,       (* visit: slot                                            *)
          myItem,   (* exchange: myItem                                       *)
          yrItem,   (* exchange: yrItem                                       *)
          expired   (* exchange: whether nanoTime() has passed timeBound      *)

vars == <<slot, xpc, at, myItem, yrItem, expired>>

Holds(item, stamp) == [item |-> item, stamp |-> stamp]
Free == Holds(null, "EMPTY")

Init ==
    /\ slot = [s \in Slot |-> Free]
    /\ xpc = [p \in Process |-> "out"]
    /\ at = [p \in Process |-> 0]
    /\ myItem = [p \in Process |-> null]
    /\ yrItem = [p \in Process |-> null]
    /\ expired = [p \in Process |-> FALSE]

Goto(p, from, to) ==
    /\ xpc[p] = from
    /\ xpc' = [xpc EXCEPT ![p] = to]

SetSlot(p, item, stamp) == slot' = [slot EXCEPT ![at[p]] = Holds(item, stamp)]

(* compareAndSet(expectedItem, newItem, expectedStamp, newStamp) succeeds. *)
Matches(p, item, stamp) == slot[at[p]] = Holds(item, stamp)

(* visit(item, range): random.nextInt(range), and exchange begins. *)
Visit(p, item, range) ==
    /\ Goto(p, "out", "look")
    /\ \E s \in Slot : s < range /\ at' = [at EXCEPT ![p] = s]
    /\ myItem' = [myItem EXCEPT ![p] = item]
    /\ UNCHANGED <<slot, yrItem, expired>>

(* Time passes. *)
Expire(p) ==
    /\ xpc[p] # "out"
    /\ ~expired[p]
    /\ expired' = [expired EXCEPT ![p] = TRUE]
    /\ UNCHANGED <<slot, xpc, at, myItem, yrItem>>

(* exchange: the time is not over, slot.get, and the switch over the stamp. *)
Look(p) ==
    /\ ~expired[p]
    /\ \/ slot[at[p]].stamp = "EMPTY" /\ Goto(p, "look", "offer")
       \/ slot[at[p]].stamp = "WAITING" /\ Goto(p, "look", "take")
    /\ yrItem' = [yrItem EXCEPT ![p] = slot[at[p]].item]
    /\ UNCHANGED <<slot, at, myItem, expired>>

(* case EMPTY: compareAndSet(yrItem, myItem, EMPTY, WAITING) *)
Offer(p) ==
    /\ Goto(p, "offer", IF Matches(p, yrItem[p], "EMPTY") THEN "await" ELSE "look")
    /\ IF Matches(p, yrItem[p], "EMPTY") THEN SetSlot(p, myItem[p], "WAITING") ELSE UNCHANGED slot
    /\ yrItem' = [yrItem EXCEPT ![p] = null]
    /\ UNCHANGED <<at, myItem, expired>>

(* while (System.nanoTime() < timeBound): slot.get until the stamp is BUSY. *)
Await(p) ==
    /\ ~expired[p]
    /\ slot[at[p]].stamp = "BUSY"
    /\ Goto(p, "await", "clear")
    /\ yrItem' = [yrItem EXCEPT ![p] = slot[at[p]].item]
    /\ UNCHANGED <<slot, at, myItem, expired>>

(* The time is over while somebody may be taking the offer: compareAndSet(myItem,
   null, WAITING, EMPTY) fails, and the answer is there. *)
TooLate(p) ==
    /\ expired[p]
    /\ ~Matches(p, myItem[p], "WAITING")
    /\ Goto(p, "await", "collect")
    /\ UNCHANGED <<slot, at, myItem, yrItem, expired>>

Collect(p) ==
    /\ Goto(p, "collect", "clear")
    /\ yrItem' = [yrItem EXCEPT ![p] = slot[at[p]].item]
    /\ UNCHANGED <<slot, at, myItem, expired>>

(* case WAITING: compareAndSet(yrItem, myItem, WAITING, BUSY) fails. *)
Missed(p) ==
    /\ ~Matches(p, yrItem[p], "WAITING")
    /\ Goto(p, "take", "look")
    /\ yrItem' = [yrItem EXCEPT ![p] = null]
    /\ UNCHANGED <<slot, at, myItem, expired>>

(* The end of exchange; its locals are gone. *)
Leave(p, from) ==
    /\ Goto(p, from, "out")
    /\ at' = [at EXCEPT ![p] = 0]
    /\ myItem' = [myItem EXCEPT ![p] = null]
    /\ yrItem' = [yrItem EXCEPT ![p] = null]
    /\ expired' = [expired EXCEPT ![p] = FALSE]

(* slot.set(null, EMPTY), and the item of the other caller is returned. *)
Clear(p) ==
    /\ SetSlot(p, null, "EMPTY")
    /\ Leave(p, "clear")

(* A set instead of compareAndSet. *)
TakeBlind(p) ==
    /\ SetSlot(p, myItem[p], "BUSY")
    /\ Leave(p, "take")

(* compareAndSet(yrItem, myItem, WAITING, BUSY) succeeds. *)
Take(p) ==
    /\ Matches(p, yrItem[p], "WAITING")
    /\ SetSlot(p, myItem[p], "BUSY")
    /\ Leave(p, "take")

(* exchange returns: item is what the caller gets. *)
Exchanged(p, item) == yrItem[p] = item /\ (Clear(p) \/ Take(p))

(* The offer is taken back by a set instead of compareAndSet. *)
WithdrawBlind(p) ==
    /\ expired[p]
    /\ SetSlot(p, null, "EMPTY")
    /\ Leave(p, "await")

(* The time is over before a slot was found, or with the offer still there:
   compareAndSet(myItem, null, WAITING, EMPTY) succeeds. *)
NoSlot(p) ==
    /\ expired[p]
    /\ Leave(p, "look")
    /\ UNCHANGED slot

Withdraw(p) ==
    /\ expired[p]
    /\ Matches(p, myItem[p], "WAITING")
    /\ SetSlot(p, null, "EMPTY")
    /\ Leave(p, "await")

(* The time is looked at before an offer is made, and not while it waits. *)
TimedOut(p) == NoSlot(p) \/ Withdraw(p)

Inside(p) ==
    Look(p) \/ Offer(p) \/ Await(p) \/ TooLate(p) \/ Collect(p) \/ Missed(p) \/ Expire(p)

Next ==
    \E p \in Process :
        \/ \E item \in Item, range \in 1..Capacity : Visit(p, item, range)
        \/ Inside(p)
        \/ \E item \in Item : Exchanged(p, item)
        \/ TimedOut(p)

Spec == Init /\ [][Next]_vars

---------------------------------------------------------------------------------

(* The fields have their types. *)
TypeOK ==
    /\ slot \in [Slot -> [item : Item, stamp : {"EMPTY", "WAITING", "BUSY"}]]
    /\ xpc \in [Process -> {"out", "look", "offer", "take", "await", "collect", "clear"}]
    /\ at \in [Process -> Slot]
    /\ myItem \in [Process -> Item]
    /\ yrItem \in [Process -> Item]
    /\ expired \in [Process -> BOOLEAN]

(* The callers that wait in slot s, whether they know the answer or not. *)
Waiting(s) == {p \in Process : xpc[p] \in {"await", "collect", "clear"} /\ at[p] = s}

SlotOK(s) ==
    /\ \A p, q \in Waiting(s) : p = q
    /\ slot[s].stamp = "EMPTY" => slot[s] = Free /\ Waiting(s) = {}
    /\ slot[s].stamp = "WAITING" => \E p \in Waiting(s) : slot[s].item = myItem[p] /\ xpc[p] = "await"
    /\ slot[s].stamp = "BUSY" => Waiting(s) # {}
    /\ \A p \in Waiting(s) : xpc[p] = "clear" => slot[s] = Holds(yrItem[p], "BUSY")
    /\ \A p \in Waiting(s) : xpc[p] = "collect" => slot[s].stamp = "BUSY"

(* A slot belongs to the one caller that waits in it: it is EMPTY while nobody
   does, WAITING with that caller's item until a second caller comes, and BUSY
   with the second caller's item until the first has read it; so no item is
   overwritten or delivered to a third caller, although the time of the first
   can run out at any moment. *)
SlotInv == \A s \in Slot : SlotOK(s)
=================================================================================
