---------------------------------- MODULE Lift ----------------------------------
(***************************************************************************)
(* What the elevator simulation promises its passengers: the engine starts *)
(* only when no door is open or opening, a door starts to open or to shut  *)
(* only where the car rests, and a person gets in or out only through the  *)
(* door of the floor where the car rests, before it starts to shut.        *)
(* A door that has started to shut may still be shutting when the engine   *)
(* starts: nothing waits for it.                                           *)
(***************************************************************************)
EXTENDS Naturals

CONSTANTS Person, Floor, Trips,
          Inside,  (* where a person in the car is           *)
          Rest     (* where the car that rests is brought to *)

VARIABLES at,      (* the floor of the car, or the one it has left       *)
          to,      (* the floor the engine brings it to, or Rest         *)
          door,    (* what the door of each floor is doing               *)
          where,   (* the floor of each person, or Inside                *)
          trips    (* the trips each person has still to make            *)

vars == <<at, to, door, where, trips>>

Init ==
    /\ at = 0
    /\ to = Rest
    /\ door = [f \in Floor |-> "closed"]
    /\ where \in [Person -> Floor]
    /\ trips = [p \in Person |-> Trips]

Open == {f \in Floor : door[f] \in {"opening", "open"}}

Start ==
    /\ to = Rest
    /\ Open = {}
    /\ to' \in Floor
    /\ UNCHANGED <<at, door, where, trips>>

Stop ==
    /\ to # Rest
    /\ at' = to
    /\ to' = Rest
    /\ UNCHANGED <<door, where, trips>>

BeginToOpen ==
    /\ to = Rest
    /\ Open = {} /\ door[at] = "closed"
    /\ door' = [door EXCEPT ![at] = "opening"]
    /\ UNCHANGED <<at, to, where, trips>>

BeginToClose ==
    /\ to = Rest
    /\ door[at] = "open"
    /\ door' = [door EXCEPT ![at] = "closing"]
    /\ UNCHANGED <<at, to, where, trips>>

Opened(f) ==
    /\ to = Rest /\ f = at
    /\ door[f] = "opening"
    /\ door' = [door EXCEPT ![f] = "open"]
    /\ UNCHANGED <<at, to, where, trips>>

(* Also while the car moves, or has stopped at another floor. *)
Closed(f) ==
    /\ door[f] = "closing"
    /\ door' = [door EXCEPT ![f] = "closed"]
    /\ UNCHANGED <<at, to, where, trips>>

Board(p) ==
    /\ trips[p] > 0
    /\ to = Rest /\ at \in Open
    /\ where[p] = at
    /\ where' = [where EXCEPT ![p] = Inside]
    /\ UNCHANGED <<at, to, door, trips>>

Alight(p) ==
    /\ to = Rest /\ at \in Open
    /\ where[p] = Inside
    /\ where' = [where EXCEPT ![p] = at]
    /\ trips' = [trips EXCEPT ![p] = @ - 1]
    /\ UNCHANGED <<at, to, door>>

Next ==
    \/ Start \/ Stop \/ BeginToOpen \/ BeginToClose
    \/ \E f \in Floor : Opened(f) \/ Closed(f)
    \/ \E p \in Person : Board(p) \/ Alight(p)

Spec == Init /\ [][Next]_vars
=================================================================================
