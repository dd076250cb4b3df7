-------------------------------- MODULE CLHLocker -------------------------------
(***************************************************************************)
(* CLHLocker.java: a queue lock. A thread publishes a node, swaps it into  *)
(* tail and spins on the node it took out; on release it keeps that old    *)
(* node for its next request, because its own may still be watched.        *)
(***************************************************************************)
EXTENDS Locker

CONSTANT FirstNode  (* the node the constructor puts into tail *)

ASSUME CLHAssumption == FirstNode \notin Thread

(* One Node object per thread (the initial value of the thread local) and the
   one made for tail: no other is ever created. A thread's first node is named
   after the thread. *)
Node == Thread \cup {FirstNode}

VARIABLES node,    (* ThreadLocal<Node> node                      *)
          prev,    (* ThreadLocal<Node> prev                      *)
          tail,    (* AtomicReference<Node> tail                  *)
          locked,  (* the volatile field locked of each Node      *)
          (* History: the requests in the order of their getAndSet. *)
          arrivals, ticket, released

clhVars == <<node, prev, tail, locked, arrivals, ticket, released>>
vars    == <<lockerVars, clhVars>>

null == "null"

Init ==
    /\ LockerInit
    /\ node = [t \in Thread |-> t]
    /\ prev = [t \in Thread |-> null]
    /\ tail = FirstNode
    /\ locked = [m \in Node |-> FALSE]
    /\ arrivals = 0
    /\ ticket = [t \in Thread |-> 0]
    /\ released = 0

(* lock: node.locked = true *)
PublishNothing(t) ==
    /\ Goto(t, "lock", "swap")
    /\ UNCHANGED <<driverVars, countVars, clhVars>>

Publish(t) ==
    /\ Goto(t, "lock", "swap")
    /\ locked' = [locked EXCEPT ![node[t]] = TRUE]
    /\ UNCHANGED <<driverVars, countVars, node, prev, tail, arrivals, ticket, released>>

(* lock: prev = tail.getAndSet(node), remembered in the thread local *)
SwapReadFirst(t) ==
    /\ Goto(t, "swap", "spin")
    /\ tail' = node[t]
    /\ prev' = [prev EXCEPT ![t] = IF prev[t] = null THEN tail ELSE prev[t]]
    /\ arrivals' = arrivals + 1
    /\ ticket' = [ticket EXCEPT ![t] = arrivals + 1]
    /\ UNCHANGED <<driverVars, countVars, node, locked, released>>

Swap(t) ==
    /\ Goto(t, "swap", "spin")
    /\ tail' = node[t]
    /\ prev' = [prev EXCEPT ![t] = tail]
    /\ arrivals' = arrivals + 1
    /\ ticket' = [ticket EXCEPT ![t] = arrivals + 1]
    /\ UNCHANGED <<driverVars, countVars, node, locked, released>>

(* lock: while (prev.locked) { } *)
Spin(t) ==
    /\ Goto(t, "spin", "read")
    /\ ~locked[prev[t]]
    /\ UNCHANGED <<driverVars, countVars, clhVars>>

(* unlock: node.locked = false, and the thread's node is now its old prev.
   Only the first is visible to another thread. *)
Unlock(t) ==
    /\ Goto(t, "unlock", "account")
    /\ locked' = [locked EXCEPT ![node[t]] = FALSE]
    /\ node' = [node EXCEPT ![t] = prev[t]]
    /\ released' = released + 1
    /\ UNCHANGED <<driverVars, countVars, prev, tail, arrivals, ticket>>

LockerStep(t) == DriverStep(t) /\ UNCHANGED clhVars

ThreadStep(t) ==
    LockerStep(t) \/ Publish(t) \/ Swap(t) \/ Spin(t) \/ Unlock(t)

MainStep == (Join \/ Returned) /\ UNCHANGED clhVars

Next == MainStep \/ \E t \in Thread : ThreadStep(t)

Spec == Init /\ [][Next]_vars

(* The threads run on the JVM's preemptive scheduler and main is in join():
   each of them keeps running while it can. *)
FairSpec == Spec /\ WF_vars(MainStep) /\ \A t \in Thread : WF_vars(ThreadStep(t))

---------------------------------------------------------------------------------

(* The nodes, thread locals and counters have the types of CLHLocker.java: a node is
   null or one that a lock() has made. *)
TypeOK ==
    /\ LockerTypeOK
    /\ pc \in [Thread -> {"new", "loop", "lock", "swap", "spin", "account", "done"} \cup Owning]
    /\ node \in [Thread -> Node]
    /\ prev \in [Thread -> Node \cup {null}]
    /\ tail \in Node
    /\ locked \in [Node -> BOOLEAN]
    /\ arrivals \in Nat
    /\ ticket \in [Thread -> Nat]
    /\ released \in Nat

(* The threads between getAndSet and the end of unlock. *)
Queued == {t \in Thread : pc[t] \in {"spin"} \cup Owning}

(* The linked list that only exists in the prev pointers: the queued threads
   carry the tickets released+1 .. arrivals, each watches the node of the one
   before it, the first watches an unlocked node, the last one's node is tail,
   and no node is reachable from two places, although nodes migrate between
   threads at every unlock(). *)
QueueInv ==
    /\ released <= arrivals
    /\ \A t \in Queued : ticket[t] \in (released + 1)..arrivals
    /\ \A k \in (released + 1)..arrivals : \E t \in Queued : ticket[t] = k
    /\ \A t, u \in Queued : ticket[t] = ticket[u] => t = u
    /\ \A t \in Queued :
          /\ prev[t] \in Node
          /\ ticket[t] = released + 1 =>
                ~locked[prev[t]] /\ \A u \in Thread : node[u] # prev[t]
          /\ \A u \in Queued : ticket[t] = ticket[u] + 1 => prev[t] = node[u]
    /\ \A t \in Queued : locked[node[t]] /\ (ticket[t] = arrivals => tail = node[t])
    /\ \A t, u \in Thread : node[t] = node[u] => t = u
    /\ arrivals = released => ~locked[tail] /\ \A t \in Thread : node[t] # tail
    /\ \A t \in Thread : pc[t] = "swap" => locked[node[t]]

(* Requests are granted in the order of their getAndSet on tail, one at a time,
   and the k-th grant returns k from lock(). *)
Fair == INSTANCE FairLock WITH
    holder  <- Holder,
    granted <- lock_granted,
    waiting <- {t \in Thread : pc[t] \in {"spin", "read", "write"}}

FairLockSpec == Fair!Spec
=================================================================================
