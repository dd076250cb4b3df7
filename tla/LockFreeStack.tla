------------------------------ MODULE LockFreeStack -----------------------------
(***************************************************************************)
(* LockFreeStack.java and Node.java (Comp 409/Assignment 3/src/question1): *)
(* tryPush and tryPop on a linked list with one AtomicReference. A call    *)
(* that loses the race for top is left at "retry"; what it does then is    *)
(* the subclass's business. (LockFreeStack's own push and pop, which back  *)
(* off, are overridden and never run.)                                     *)
(***************************************************************************)
EXTENDS Naturals, FiniteSets

CONSTANTS Process,   (* the threads of the program          *)
          Value,     (* what they push                      *)
          MaxNode,   (* bound on the pushes of a thread     *)
          null,      (* no node, no item                    *)
          Empty      (* the exception "Its empty!"          *)

(* `new Node` never returns an object that is in use, and a popped node is not
   used again: a node is named by the call of push that made it. *)
Node == Process \X (1..MaxNode)

VARIABLES pc,      (* the control point of each thread                     *)
          top,     (* AtomicReference<Node<T>> top                         *)
          next,    (* Node.next                                            *)
          value,   (* Node.value                                           *)
          made,    (* how many nodes each thread has made                  *)
          arg,     (* the argument of push, null in pop                    *)
          oldTop,  (* tryPush and tryPop: oldTop                           *)
          newTop,  (* tryPop: newTop                                       *)
          ret      (* what pop returns or throws, null in push             *)

listVars  == <<top, next, value, made>>
localVars == <<arg, oldTop, newTop, ret>>
stackVars == <<pc, listVars, localVars>>

Init ==
    /\ pc = [p \in Process |-> "idle"]
    /\ top = null
    /\ next = [n \in Node |-> null]
    /\ value = [n \in Node |-> null]
    /\ made = [p \in Process |-> 0]
    /\ arg = [p \in Process |-> null]
    /\ oldTop = [p \in Process |-> null]
    /\ newTop = [p \in Process |-> null]
    /\ ret = [p \in Process |-> null]

Goto(p, from, to) ==
    /\ pc[p] = from
    /\ pc' = [pc EXCEPT ![p] = to]

(* push: node = new Node(value) *)
NodeOf(p) == <<p, made[p]>>

CallPush(p, v) ==
    LET n == <<p, made[p] + 1>>
    IN  /\ Goto(p, "idle", "push")
        /\ n \in Node
        /\ made' = [made EXCEPT ![p] = @ + 1]
        /\ value' = [value EXCEPT ![n] = v]
        /\ arg' = [arg EXCEPT ![p] = v]
        /\ UNCHANGED <<top, next, oldTop, newTop, ret>>

CallPop(p) ==
    /\ Goto(p, "idle", "pop")
    /\ UNCHANGED <<listVars, localVars>>

(* tryPush: oldTop = top.get(), node.next = oldTop. Nobody else sees the node. *)
ReadTopToPush(p) ==
    /\ Goto(p, "push", "pushCas")
    /\ oldTop' = [oldTop EXCEPT ![p] = top]
    /\ next' = [next EXCEPT ![NodeOf(p)] = top]
    /\ UNCHANGED <<top, value, made, arg, newTop, ret>>

(* tryPush: top.compareAndSet(oldTop, node) *)
PushCas(p) ==
    /\ Goto(p, "pushCas", IF top = oldTop[p] THEN "done" ELSE "retry")
    /\ top' = IF top = oldTop[p] THEN NodeOf(p) ELSE top
    /\ oldTop' = [oldTop EXCEPT ![p] = null]
    /\ UNCHANGED <<next, value, made, arg, newTop, ret>>

(* tryPop: oldTop = top.get(), or the exception. *)
ReadTopToPop(p) ==
    /\ Goto(p, "pop", IF top = null THEN "done" ELSE "popNext")
    /\ oldTop' = [oldTop EXCEPT ![p] = top]
    /\ ret' = [ret EXCEPT ![p] = IF top = null THEN Empty ELSE null]
    /\ UNCHANGED <<listVars, arg, newTop>>

(* tryPop: newTop = oldTop.next *)
ReadNext(p) ==
    /\ Goto(p, "popNext", "popCas")
    /\ newTop' = [newTop EXCEPT ![p] = next[oldTop[p]]]
    /\ UNCHANGED <<listVars, arg, oldTop, ret>>

(* tryPop: top.compareAndSet(oldTop, newTop) *)
PopCas(p) ==
    /\ Goto(p, "popCas", IF top = oldTop[p] THEN "done" ELSE "retry")
    /\ IF top = oldTop[p]
         THEN /\ top' = newTop[p]
              /\ ret' = [ret EXCEPT ![p] = value[oldTop[p]]]
         ELSE UNCHANGED <<top, ret>>
    /\ oldTop' = [oldTop EXCEPT ![p] = null]
    /\ newTop' = [newTop EXCEPT ![p] = null]
    /\ UNCHANGED <<next, value, made, arg>>

TryPush(p) == ReadTopToPush(p) \/ PushCas(p)
TryPop(p)  == ReadTopToPop(p) \/ ReadNext(p) \/ PopCas(p)

(* The call returns to its caller, and its locals are gone. *)
Leave(p) ==
    /\ arg' = [arg EXCEPT ![p] = null]
    /\ ret' = [ret EXCEPT ![p] = null]
    /\ UNCHANGED <<listVars, oldTop, newTop>>

---------------------------------------------------------------------------------

(* The fields and locals have their types. *)
StackTypeOK ==
    /\ top \in Node \cup {null}
    /\ next \in [Node -> Node \cup {null}]
    /\ value \in [Node -> Value \cup {null}]
    /\ made \in [Process -> 0..MaxNode]
    /\ arg \in [Process -> Value \cup {null}]
    /\ oldTop \in [Process -> Node \cup {null}]
    /\ newTop \in [Process -> Node \cup {null}]
    /\ ret \in [Process -> Value \cup {null, Empty}]

(* The nodes from first on, and null behind the last of them. *)
Depth == Cardinality(Node)

Linked(first, after) ==
    LET chain[k \in 0..Depth] ==
            IF k = 0 THEN first
            ELSE IF chain[k - 1] = null THEN null ELSE after[chain[k - 1]]
    IN  chain

(* The values on the stack, the top first. *)
Contents ==
    LET chain  == Linked(top, next)
        linked == {k \in 0..(Depth - 1) : chain[k] # null}
    IN  [k \in 1..Cardinality(linked) |-> value[chain[k - 1]]]
=================================================================================
