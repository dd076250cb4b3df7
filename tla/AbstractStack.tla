------------------------------ MODULE AbstractStack -----------------------------
(***************************************************************************)
(* What EliminationStack (Comp 409/Assignment 3/src/question1) promises:   *)
(* every push and every pop takes effect at one moment between its call    *)
(* and its return, as on a stack that one process uses at a time. Two      *)
(* calls may take effect at the same moment, the push before the pop, when *)
(* they meet in the elimination array.                                     *)
(***************************************************************************)
EXTENDS Sequences

CONSTANTS Process,  (* the callers                           *)
          Value,    (* what is pushed                        *)
          Empty     (* "Its empty!": what pop throws         *)

VARIABLES stack,  (* the values, the top first                                  *)
          call    (* per caller: what it has asked for, or what it was answered *)

absVars == <<stack, call>>

Idle        == [at |-> "idle"]
Pushing(v)  == [at |-> "push", value |-> v]
Popping     == [at |-> "pop"]
Pushed      == [at |-> "pushed"]
Popped(v)   == [at |-> "popped", value |-> v]

Init ==
    /\ stack = <<>>
    /\ call = [p \in Process |-> Idle]

Becomes(p, to) == call' = [call EXCEPT ![p] = to]

Call(p) ==
    /\ call[p] = Idle
    /\ Becomes(p, Popping) \/ \E v \in Value : Becomes(p, Pushing(v))
    /\ UNCHANGED stack

Push(p) ==
    /\ call[p].at = "push"
    /\ Becomes(p, Pushed)
    /\ stack' = <<call[p].value>> \o stack

Pop(p) ==
    /\ call[p] = Popping
    /\ stack # <<>>
    /\ Becomes(p, Popped(Head(stack)))
    /\ stack' = Tail(stack)

PopEmpty(p) ==
    /\ call[p] = Popping
    /\ stack = <<>>
    /\ Becomes(p, Popped(Empty))
    /\ UNCHANGED stack

Eliminate(p, q) ==
    /\ call[q] = Popping
    /\ call' = [call EXCEPT ![p] = Pushed, ![q] = Popped(call[p].value)]
    /\ UNCHANGED stack

Return(p) ==
    /\ call[p].at \in {"pushed", "popped"}
    /\ Becomes(p, Idle)
    /\ UNCHANGED stack

Next ==
    \E p \in Process :
        \/ Call(p) \/ Push(p) \/ Pop(p) \/ PopEmpty(p) \/ Return(p)
        \/ call[p].at = "push" /\ \E q \in Process : Eliminate(p, q)

Spec == Init /\ [][Next]_absVars
=================================================================================
