---------------------------- MODULE CLHLocker_proofs ----------------------------
(***************************************************************************)
(* CLHLocker for any number of threads and turns: the linked list of nodes *)
(* is a queue (Ind), so the lock is held by one thread at a time and       *)
(* granted first come, first served.                                       *)
(***************************************************************************)
EXTENDS CLHLocker, TLAPS

(* Where a thread is in its loop and in `++lock_granted`. *)
LoopInv ==
    /\ \A t \in Thread : pc[t] \notin {"new", "loop", "done"} => i[t] < N
    /\ \A t \in Thread : pc[t] \in {"unlock", "account"} => new_counter[t] \in Nat

(* Only the head of the queue owns the lock, and the counter is one ahead of
   the releases from its write to its unlock. *)
GrantInv ==
    /\ \A t \in Thread : pc[t] \in Owning => ticket[t] = released + 1
    /\ \A t \in Thread : pc[t] = "write" => reg[t] = released
    /\ \A t \in Thread : pc[t] = "unlock" => lock_granted = released + 1
    /\ (\A t \in Thread : pc[t] # "unlock") => lock_granted = released

(* QueueInv says that the prev pointers form the queue; that is only inductive
   together with who may own the lock. *)
Ind == TypeOK /\ LoopInv /\ QueueInv /\ GrantInv

---------------------------------------------------------------------------------

LEMMA InitInd == Init => Ind
<1> SUFFICES ASSUME Init PROVE Ind
    OBVIOUS
<1> USE LockerAssumption, CLHAssumption
       DEF Init, LockerInit
<1>1. TypeOK
    BY DEF TypeOK, LockerTypeOK, Node, Owning, null
<1>2. LoopInv
    BY DEF LoopInv
<1>3. QueueInv
    BY DEF QueueInv, Queued, Node, Owning
<1>4. GrantInv
    BY DEF GrantInv, Owning
<1> QED
    BY <1>1, <1>2, <1>3, <1>4 DEF Ind

(* Every step that is not a step of lock() or unlock(): the queue is untouched. *)
LEMMA DriverInd ==
    ASSUME Ind, NEW t \in Thread, DriverStep(t), UNCHANGED clhVars
    PROVE  Ind'
<1> USE LockerAssumption DEF Ind, clhVars
<1>1. CASE Start(t) \/ Finish(t)
  <2>1. TypeOK'
    BY <1>1 DEF TypeOK, LockerTypeOK, Start, Finish, Goto, driverVars, countVars
  <2>2. LoopInv'
    BY <1>1 DEF LoopInv, TypeOK, LockerTypeOK, Start, Finish, Goto, driverVars, countVars
  <2>3. Queued' = Queued /\ \A u \in Thread : pc'[u] = "swap" => pc[u] = "swap"
    BY <1>1 DEF Queued, Owning, TypeOK, Start, Finish, Goto
  <2>4. QueueInv'
    BY <2>3 DEF QueueInv
  <2>5. GrantInv'
    BY <1>1 DEF GrantInv, Owning, TypeOK, Start, Finish, Goto, driverVars, countVars
  <2> QED
    BY <2>1, <2>2, <2>4, <2>5
<1>2. CASE Loop(t)
  <2>1. TypeOK'
    BY <1>2 DEF TypeOK, LockerTypeOK, Loop, Goto, driverVars
  <2>2. LoopInv'
    BY <1>2 DEF LoopInv, TypeOK, LockerTypeOK, Loop, Goto, driverVars
  <2>3. Queued' = Queued /\ \A u \in Thread : pc'[u] = "swap" => pc[u] = "swap"
    BY <1>2 DEF Queued, Owning, TypeOK, Loop, Goto
  <2>4. QueueInv'
    BY <2>3 DEF QueueInv
  <2>5. GrantInv'
    BY <1>2 DEF GrantInv, Owning, TypeOK, Loop, Goto, driverVars
  <2> QED
    BY <2>1, <2>2, <2>4, <2>5
<1>3. CASE GrantRead(t)
  <2>1. TypeOK'
    BY <1>3 DEF TypeOK, LockerTypeOK, Owning, GrantRead, Goto, driverVars
  <2>2. LoopInv'
    BY <1>3 DEF LoopInv, TypeOK, LockerTypeOK, GrantRead, Goto, driverVars
  <2>3. Queued' = Queued /\ \A u \in Thread : pc'[u] = "swap" => pc[u] = "swap"
    BY <1>3 DEF Queued, Owning, TypeOK, GrantRead, Goto
  <2>4. QueueInv'
    BY <2>3 DEF QueueInv
  <2>5. \A u \in Thread : pc[u] # "unlock"
    BY <1>3 DEF GrantInv, QueueInv, Queued, Owning, GrantRead, Goto
  <2>6. GrantInv'
    BY <1>3, <2>5 DEF GrantInv, Owning, TypeOK, LockerTypeOK, GrantRead, Goto, driverVars
  <2> QED
    BY <2>1, <2>2, <2>4, <2>6
<1>4. CASE GrantWrite(t)
  <2>1. TypeOK'
    BY <1>4 DEF TypeOK, LockerTypeOK, Owning, GrantWrite, Goto, driverVars
  <2>2. LoopInv'
    BY <1>4 DEF LoopInv, TypeOK, LockerTypeOK, GrantWrite, Goto, driverVars
  <2>3. Queued' = Queued /\ \A u \in Thread : pc'[u] = "swap" => pc[u] = "swap"
    BY <1>4 DEF Queued, Owning, TypeOK, GrantWrite, Goto
  <2>4. QueueInv'
    BY <2>3 DEF QueueInv
  <2>5. GrantInv'
    BY <1>4 DEF GrantInv, Owning, TypeOK, LockerTypeOK, GrantWrite, Goto, driverVars
  <2> QED
    BY <2>1, <2>2, <2>4, <2>5
<1>5. CASE Account(t)
  <2>1. TypeOK'
    BY <1>5 DEF TypeOK, LockerTypeOK, LoopInv, Account, Goto, countVars
  <2>2. LoopInv'
    BY <1>5 DEF LoopInv, TypeOK, LockerTypeOK, Account, Goto, countVars
  <2>3. Queued' = Queued /\ \A u \in Thread : pc'[u] = "swap" => pc[u] = "swap"
    BY <1>5 DEF Queued, Owning, TypeOK, Account, Goto
  <2>4. QueueInv'
    BY <2>3 DEF QueueInv
  <2>5. GrantInv'
    BY <1>5 DEF GrantInv, Owning, TypeOK, Account, Goto, countVars
  <2> QED
    BY <2>1, <2>2, <2>4, <2>5
<1> QED
    BY <1>1, <1>2, <1>3, <1>4, <1>5 DEF DriverStep

LEMMA PublishInd ==
    ASSUME Ind, NEW t \in Thread, Publish(t)
    PROVE  Ind'
<1> USE LockerAssumption DEF Ind, Publish, Goto, driverVars, countVars
<1>1. TypeOK'
    BY DEF TypeOK, LockerTypeOK, Node
<1>2. LoopInv'
    BY DEF LoopInv, TypeOK
<1>3. Queued' = Queued /\ t \notin Queued
    BY DEF Queued, Owning, TypeOK
<1>4. \A m \in Node : m # node[t] => locked'[m] = locked[m]
    BY DEF TypeOK
<1>5. locked'[node[t]]
    BY DEF TypeOK
<1>6. QueueInv'
  <2>1. \A u \in Queued : locked'[node[u]]
    BY <1>4, <1>5 DEF QueueInv, TypeOK, Queued
  <2>2. \A u \in Queued : ticket[u] = released + 1 => ~locked'[prev[u]]
    BY <1>4 DEF QueueInv, TypeOK, Queued
  <2>3. arrivals = released => ~locked'[tail]
    BY <1>4 DEF QueueInv, TypeOK
  <2>4. \A u \in Thread : pc'[u] = "swap" => locked'[node[u]]
    BY <1>4, <1>5 DEF QueueInv, TypeOK
  <2> QED
    BY <1>3, <2>1, <2>2, <2>3, <2>4 DEF QueueInv
<1>7. GrantInv'
    BY DEF GrantInv, Owning, TypeOK
<1> QED
    BY <1>1, <1>2, <1>6, <1>7

LEMMA SwapInd ==
    ASSUME Ind, NEW t \in Thread, Swap(t)
    PROVE  Ind'
<1> USE LockerAssumption DEF Ind, Swap, Goto, driverVars, countVars
<1>1. TypeOK'
    BY DEF TypeOK, LockerTypeOK, Node
<1>2. LoopInv'
    BY DEF LoopInv, TypeOK
<1>3. Queued' = Queued \cup {t} /\ t \notin Queued
    BY DEF Queued, Owning, TypeOK
<1>4. /\ ticket'[t] = arrivals + 1 /\ arrivals' = arrivals + 1 /\ released' = released
      /\ prev'[t] = tail /\ tail' = node[t] /\ locked' = locked /\ node' = node
      /\ \A u \in Queued : ticket'[u] = ticket[u] /\ prev'[u] = prev[u]
    BY <1>3 DEF TypeOK, Queued
<1>5. released \in Nat /\ arrivals \in Nat /\ released <= arrivals
    BY DEF TypeOK, QueueInv
<1>6. QueueInv'
  <2>1. \A u \in Queued' : ticket'[u] \in (released' + 1)..arrivals'
    BY <1>3, <1>4, <1>5 DEF QueueInv
  <2>2. \A k \in (released' + 1)..arrivals' : \E u \in Queued' : ticket'[u] = k
    BY <1>3, <1>4, <1>5 DEF QueueInv
  <2>3. \A u, v \in Queued' : ticket'[u] = ticket'[v] => u = v
    BY <1>3, <1>4, <1>5 DEF QueueInv
  <2>4. \A u \in Queued' : prev'[u] \in Node
    BY <1>3, <1>4 DEF QueueInv, TypeOK
  <2>5. \A u \in Queued' : ticket'[u] = released' + 1 =>
           ~locked'[prev'[u]] /\ \A v \in Thread : node'[v] # prev'[u]
    BY <1>3, <1>4, <1>5 DEF QueueInv
  <2>6. \A u, v \in Queued' : ticket'[u] = ticket'[v] + 1 => prev'[u] = node'[v]
    BY <1>3, <1>4, <1>5 DEF QueueInv
  <2>7. \A u \in Queued' : locked'[node'[u]] /\ (ticket'[u] = arrivals' => tail' = node'[u])
    BY <1>3, <1>4, <1>5 DEF QueueInv
  <2>8. \A u \in Thread : pc'[u] = "swap" => locked'[node'[u]]
    BY <1>4 DEF QueueInv, TypeOK
  <2> QED
    BY <1>4, <1>5, <2>1, <2>2, <2>3, <2>4, <2>5, <2>6, <2>7, <2>8 DEF QueueInv
<1>7. GrantInv'
    BY DEF GrantInv, Owning, TypeOK
<1> QED
    BY <1>1, <1>2, <1>6, <1>7

(* Only the head of the queue can see its prev unlocked: everybody else watches
   the node of a queued thread. *)
LEMMA SpinInd ==
    ASSUME Ind, NEW t \in Thread, Spin(t)
    PROVE  Ind'
<1> USE LockerAssumption DEF Ind, Spin, Goto, driverVars, countVars, clhVars
<1>1. TypeOK'
    BY DEF TypeOK, LockerTypeOK, Owning
<1>2. LoopInv'
    BY DEF LoopInv, TypeOK
<1>3. Queued' = Queued /\ t \in Queued /\ \A u \in Thread : pc'[u] = "swap" => pc[u] = "swap"
    BY DEF Queued, Owning, TypeOK
<1>4. QueueInv'
    BY <1>3 DEF QueueInv
<1>5. ticket[t] = released + 1
  <2>1. SUFFICES ASSUME ticket[t] # released + 1 PROVE FALSE
    OBVIOUS
  <2>2. ticket[t] - 1 \in (released + 1)..arrivals
    BY <1>3, <2>1 DEF QueueInv, TypeOK
  <2>3. PICK u \in Queued : ticket[u] = ticket[t] - 1
    BY <2>2 DEF QueueInv
  <2>4. prev[t] = node[u]
    BY <1>3, <2>3 DEF QueueInv, TypeOK, Queued
  <2> QED
    BY <2>4 DEF QueueInv
<1>6. GrantInv'
    BY <1>5 DEF GrantInv, Owning, TypeOK
<1> QED
    BY <1>1, <1>2, <1>4, <1>6

LEMMA UnlockInd ==
    ASSUME Ind, NEW t \in Thread, Unlock(t)
    PROVE  Ind'
<1> USE LockerAssumption DEF Ind, Unlock, Goto, driverVars, countVars
<1>1. t \in Queued /\ ticket[t] = released + 1 /\ prev[t] \in Node
    BY DEF Queued, Owning, GrantInv, QueueInv
<1>2. TypeOK'
    BY <1>1 DEF TypeOK, LockerTypeOK, Owning
<1>3. LoopInv'
    BY DEF LoopInv, TypeOK
<1>4. Queued' = Queued \ {t}
    BY DEF Queued, Owning, TypeOK
<1>5. /\ released' = released + 1 /\ arrivals' = arrivals /\ ticket' = ticket
      /\ prev' = prev /\ tail' = tail
      /\ node'[t] = prev[t] /\ \A u \in Thread : u # t => node'[u] = node[u]
      /\ ~locked'[node[t]] /\ \A m \in Node : m # node[t] => locked'[m] = locked[m]
    BY DEF TypeOK
<1>6. /\ released \in Nat /\ arrivals \in Nat /\ ticket \in [Thread -> Nat]
      /\ node \in [Thread -> Node] /\ tail \in Node
    BY DEF TypeOK
<1>7. \A u \in Thread : node[u] # prev[t]
    BY <1>1 DEF QueueInv
<1>8. \A u \in Queued' : u \in Queued /\ u # t /\ ticket[u] # released + 1
    BY <1>1, <1>4 DEF QueueInv
<1>9. QueueInv'
  <2>1. released' <= arrivals' /\ \A u \in Queued' : ticket'[u] \in (released' + 1)..arrivals'
    BY <1>1, <1>5, <1>6, <1>8 DEF QueueInv
  <2>2. \A k \in (released' + 1)..arrivals' : \E u \in Queued' : ticket'[u] = k
    <3> SUFFICES ASSUME NEW k \in (released' + 1)..arrivals'
                 PROVE  \E u \in Queued' : ticket'[u] = k
      OBVIOUS
    <3>1. PICK u \in Queued : ticket[u] = k
      BY <1>5, <1>6 DEF QueueInv
    <3> QED
      BY <1>1, <1>4, <1>5, <1>6, <3>1
  <2>3. \A u, v \in Queued' : ticket'[u] = ticket'[v] => u = v
    BY <1>5, <1>8 DEF QueueInv
  <2>4. \A u \in Queued' : prev'[u] \in Node
    BY <1>5, <1>8 DEF QueueInv
  <2>5. \A u \in Queued' : ticket'[u] = released' + 1 =>
           ~locked'[prev'[u]] /\ \A v \in Thread : node'[v] # prev'[u]
    <3> SUFFICES ASSUME NEW u \in Queued', ticket'[u] = released' + 1
                 PROVE  ~locked'[prev'[u]] /\ \A v \in Thread : node'[v] # prev'[u]
      OBVIOUS
    <3>1. prev[u] = node[t]
      BY <1>1, <1>5, <1>6, <1>8 DEF QueueInv
    <3>2. \A v \in Thread : node'[v] # node[t]
      BY <1>5, <1>7 DEF QueueInv
    <3> QED
      BY <1>5, <3>1, <3>2
  <2>6. \A u, v \in Queued' : ticket'[u] = ticket'[v] + 1 => prev'[u] = node'[v]
    BY <1>5, <1>8 DEF QueueInv, Queued
  <2>7. \A u \in Queued' : locked'[node'[u]] /\ (ticket'[u] = arrivals' => tail' = node'[u])
    BY <1>5, <1>6, <1>8 DEF QueueInv, Queued
  <2>8. \A u, v \in Thread : node'[u] = node'[v] => u = v
    BY <1>5, <1>7 DEF QueueInv
  <2>9. arrivals' = released' => ~locked'[tail'] /\ \A u \in Thread : node'[u] # tail'
    <3> SUFFICES ASSUME arrivals = released + 1
                 PROVE  ~locked'[tail'] /\ \A u \in Thread : node'[u] # tail'
      BY <1>5
    <3>1. tail = node[t]
      BY <1>1 DEF QueueInv
    <3> QED
      BY <1>5, <1>7, <3>1 DEF QueueInv
  <2>10. \A u \in Thread : pc'[u] = "swap" => locked'[node'[u]]
    <3> SUFFICES ASSUME NEW u \in Thread, pc'[u] = "swap"
                 PROVE  locked'[node'[u]]
      OBVIOUS
    <3>1. u # t /\ pc[u] = "swap"
      BY DEF TypeOK
    <3> QED
      BY <1>5, <1>6, <3>1 DEF QueueInv
  <2> QED
    BY <2>1, <2>2, <2>3, <2>4, <2>5, <2>6, <2>7, <2>8, <2>9, <2>10 DEF QueueInv
<1>10. GrantInv'
  <2>1. \A u \in Thread : u # t => pc'[u] = pc[u] /\ pc[u] \notin Owning
    BY <1>1, <1>8, <1>4 DEF GrantInv, Queued, Owning, TypeOK
  <2>2. pc'[t] = "account"
    BY DEF TypeOK
  <2> QED
    BY <1>5, <2>1, <2>2 DEF GrantInv, Owning
<1> QED
    BY <1>2, <1>3, <1>9, <1>10

LEMMA NextInd == Ind /\ [Next]_vars => Ind'
<1> SUFFICES ASSUME Ind, [Next]_vars PROVE Ind'
    OBVIOUS
<1>1. ASSUME NEW t \in Thread, ThreadStep(t) PROVE Ind'
    BY <1>1, DriverInd, PublishInd, SwapInd, SpinInd, UnlockInd DEF ThreadStep, LockerStep
<1>2. CASE MainStep
  <2>1. /\ UNCHANGED <<pc, i, last_counter, max_delay, countVars, clhVars>>
        /\ result' \in Nat \cup {-1}
    BY <1>2 DEF MainStep, Join, Returned, lockerVars, driverVars, Ind, TypeOK, LockerTypeOK
  <2> QED
    BY <2>1 DEF Ind, TypeOK, LockerTypeOK, LoopInv, QueueInv, Queued, GrantInv, countVars, clhVars
<1>3. CASE UNCHANGED vars
    BY <1>3 DEF vars, lockerVars, driverVars, countVars, clhVars, Ind, TypeOK, LockerTypeOK,
                LoopInv, QueueInv, Queued, GrantInv
<1> QED
    BY <1>1, <1>2, <1>3 DEF Next

THEOREM Inductive == Spec => []Ind
<1> QED
    BY InitInd, NextInd, PTL DEF Spec

---------------------------------------------------------------------------------

(* The fields of CLHLocker and the locals of LockerThread.run keep their types:
   in particular a thread that spins has a node to spin on, never null. *)
THEOREM TypeCorrect == Spec => []TypeOK
<1>1. Ind => TypeOK
    BY DEF Ind
<1> QED
    BY <1>1, Inductive, PTL

(* The nodes that unlock() passes from thread to thread always form one queue. *)
THEOREM QueueCorrect == Spec => []QueueInv
<1>1. Ind => QueueInv
    BY DEF Ind
<1> QED
    BY <1>1, Inductive, PTL

LEMMA OneOwner == Ind => MutualExclusion
BY DEF Ind, QueueInv, GrantInv, MutualExclusion, Queued, Owning

(* At most one thread is between the end of lock() and the end of unlock(). *)
THEOREM MutexCorrect == Spec => []MutualExclusion
<1> QED
    BY OneOwner, Inductive, PTL

(* While a thread has been granted the lock it is the Holder. *)
LEMMA HolderIs ==
    ASSUME MutualExclusion, NEW t \in Thread, pc[t] = "unlock"
    PROVE  Holder = t
BY DEF MutualExclusion, Holder, Owning

LEMMA HolderNobody ==
    ASSUME \A t \in Thread : pc[t] # "unlock"
    PROVE  Holder = Nobody
BY DEF Holder

LEMMA NextHolderIs ==
    ASSUME MutualExclusion', NEW t \in Thread, pc'[t] = "unlock"
    PROVE  Holder' = t
BY DEF MutualExclusion, Holder, Owning

LEMMA NextHolderNobody ==
    ASSUME \A t \in Thread : pc'[t] # "unlock"
    PROVE  Holder' = Nobody
BY DEF Holder

LEMMA FairInit == Init => Fair!Init
BY HolderNobody DEF Init, LockerInit, Fair!Init

(* getAndSet on tail is the arrival of a request, the write of lock_granted its
   grant, the write of node.locked its release; every other step stutters. *)
LEMMA FairStep ==
    ASSUME Ind, Ind', [Next]_vars
    PROVE  [Fair!Next]_(Fair!fairVars)
<1> DEFINE Waiting == {u \in Thread : pc[u] \in {"spin", "read", "write"}}
<1> USE LockerAssumption
<1>1. MutualExclusion /\ MutualExclusion' /\ pc = [u \in Thread |-> pc[u]]
    BY OneOwner DEF Ind, TypeOK, QueueInv, GrantInv, MutualExclusion, Queued, Owning
<1>2. ASSUME NEW t \in Thread, Swap(t) PROVE Fair!Arrive(t)
  <2>1. Waiting' = Waiting \cup {t} /\ t \notin Waiting
    BY <1>1, <1>2 DEF Swap, Goto
  <2>2. Holder' = Holder /\ Holder # t
    <3>1. \A u \in Thread : (pc'[u] = "unlock") <=> (pc[u] = "unlock")
      BY <1>1, <1>2 DEF Swap, Goto
    <3>2. CASE \E u \in Thread : pc[u] = "unlock"
      BY <1>1, <1>2, <3>1, <3>2, HolderIs, NextHolderIs DEF Swap, Goto
    <3>3. CASE \A u \in Thread : pc[u] # "unlock"
      BY <3>1, <3>3, HolderNobody, NextHolderNobody
    <3> QED
      BY <3>2, <3>3
  <2> QED
    BY <1>2, <2>1, <2>2 DEF Fair!Arrive, Swap, countVars
<1>3. ASSUME NEW t \in Thread, GrantWrite(t), UNCHANGED clhVars PROVE Fair!Grant(t)
  <2>1. Waiting' = Waiting \ {t} /\ t \in Waiting
    BY <1>1, <1>3 DEF GrantWrite, Goto
  <2>2. \A u \in Thread : pc[u] # "unlock"
    BY <1>1, <1>3 DEF MutualExclusion, Owning, GrantWrite, Goto
  <2>3. Holder = Nobody /\ Holder' = t
    BY <1>1, <1>3, <2>2, HolderNobody, NextHolderIs DEF GrantWrite, Goto
  <2>4. ticket[t] = lock_granted + 1 /\ lock_granted' = lock_granted + 1
    BY <1>3, <2>2 DEF Ind, GrantInv, Owning, GrantWrite, Goto
  <2> QED
    BY <1>3, <2>1, <2>3, <2>4 DEF Fair!Grant, clhVars
<1>4. ASSUME NEW t \in Thread, Unlock(t) PROVE Fair!Release(t)
  <2>1. Waiting' = Waiting
    BY <1>1, <1>4 DEF Unlock, Goto
  <2>2. Holder = t
    BY <1>1, <1>4, HolderIs DEF Unlock, Goto
  <2>3. \A u \in Thread : pc'[u] # "unlock"
    BY <1>1, <1>4 DEF MutualExclusion, Owning, Unlock, Goto
  <2> QED
    BY <1>4, <2>1, <2>2, <2>3, NextHolderNobody DEF Fair!Release, Unlock, countVars
<1>5. ASSUME /\ Waiting' = Waiting
             /\ \A u \in Thread : (pc'[u] = "unlock") <=> (pc[u] = "unlock")
             /\ UNCHANGED <<lock_granted, arrivals, ticket>>
      PROVE  UNCHANGED Fair!fairVars
  <2>1. Holder' = Holder
    <3>1. CASE \E u \in Thread : pc[u] = "unlock"
      BY <1>1, <1>5, <3>1, HolderIs, NextHolderIs
    <3>2. CASE \A u \in Thread : pc[u] # "unlock"
      BY <1>5, <3>2, HolderNobody, NextHolderNobody
    <3> QED
      BY <3>1, <3>2
  <2> QED
    BY <1>5, <2>1 DEF Fair!fairVars
<1>6. ASSUME NEW t \in Thread, ThreadStep(t), ~Swap(t), ~Unlock(t),
             ~(GrantWrite(t) /\ UNCHANGED clhVars)
      PROVE  UNCHANGED Fair!fairVars
  <2>1. CASE Publish(t) \/ Spin(t)
    BY <1>1, <1>5, <2>1 DEF Publish, Spin, Goto, countVars, clhVars
  <2>2. CASE (Start(t) \/ Loop(t) \/ Finish(t)) /\ UNCHANGED clhVars
    BY <1>1, <1>5, <2>2 DEF Start, Loop, Finish, Goto, countVars, clhVars
  <2>3. CASE (GrantRead(t) \/ Account(t)) /\ UNCHANGED clhVars
    BY <1>1, <1>5, <2>3 DEF GrantRead, Account, Goto, countVars, clhVars
  <2> QED
    BY <1>6, <2>1, <2>2, <2>3 DEF ThreadStep, LockerStep, DriverStep
<1>7. CASE MainStep \/ UNCHANGED vars
    BY <1>5, <1>7 DEF MainStep, Join, Returned, vars, lockerVars, countVars, clhVars
<1> QED
    BY <1>2, <1>3, <1>4, <1>6, <1>7 DEF Next, Fair!Next, LockerStep

(* CLHLocker implements a lock that grants requests in the order of their
   arrival, one at a time, and returns k from the k-th lock() to arrive. *)
THEOREM CLHIsFair == Spec => FairLockSpec
<1>1. Ind /\ Ind' /\ [Next]_vars => [Fair!Next]_(Fair!fairVars)
    BY FairStep
<1> QED
    BY <1>1, FairInit, Inductive, PTL DEF Spec, FairLockSpec, Fair!Spec
=================================================================================
