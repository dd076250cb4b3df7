-------------------------------- MODULE FairLock --------------------------------
(***************************************************************************)
(* A lock that grants requests in the order in which they arrived: the     *)
(* promise of a queue lock such as CLHLocker.java, and the reason to       *)
(* prefer it to test-and-set. The k-th thread to arrive draws ticket k and *)
(* receives the k-th grant.                                                *)
(***************************************************************************)
EXTENDS Naturals

CONSTANTS Thread, Nobody

VARIABLES holder,    (* as in AbstractLock                            *)
          granted,   (* as in AbstractLock                            *)
          waiting,   (* the threads that arrived and hold no grant    *)
          arrivals,  (* how many requests have arrived                *)
          ticket     (* the number of each thread's latest request    *)

fairVars == <<holder, granted, waiting, arrivals, ticket>>

Init ==
    /\ holder = Nobody
    /\ granted = 0
    /\ waiting = {}
    /\ arrivals = 0
    /\ ticket = [t \in Thread |-> 0]

Arrive(t) ==
    /\ t \notin waiting
    /\ holder # t
    /\ waiting' = waiting \cup {t}
    /\ arrivals' = arrivals + 1
    /\ ticket' = [ticket EXCEPT ![t] = arrivals + 1]
    /\ UNCHANGED <<holder, granted>>

Grant(t) ==
    /\ t \in waiting
    /\ holder = Nobody
    /\ ticket[t] = granted + 1
    /\ holder' = t
    /\ granted' = granted + 1
    /\ waiting' = waiting \ {t}
    /\ UNCHANGED <<arrivals, ticket>>

Release(t) ==
    /\ holder = t
    /\ holder' = Nobody
    /\ UNCHANGED <<granted, waiting, arrivals, ticket>>

Next == \E t \in Thread : Arrive(t) \/ Grant(t) \/ Release(t)

Spec == Init /\ [][Next]_fairVars
=================================================================================
