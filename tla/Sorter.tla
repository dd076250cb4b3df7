---------------------------------- MODULE Sorter --------------------------------
(* Comp 409/Assignment 1/src/graham/Sorter.java: a quicksort of an array by the
   threads of a pool. A thread that has split a large part hands the left side to
   the pool; main waits until the count of parts that are being sorted is 0.
   The orders on points are those of Point.java. *)
EXTENDS Integers, Sequences, FiniteSets, SequencesExt

CONSTANTS Points,       \* the points the generator may draw
          N,            \* how many it draws
          sorter_nb     \* thread_nb, the threads of the pool

ASSUME SorterAssumption ==
    /\ N \in Nat \ {0} /\ sorter_nb \in 1..N
    /\ \A p \in Points : p.x \in Int /\ p.y \in Int /\ <<p.x, p.y>> # <<0, 0>>

VARIABLES points,       \* the array
          tasks,        \* the queue of the pool: the parts no thread has begun
          sorter,       \* per thread of the pool: the parts it has still to sort
          runningThreads,
          sorting,      \* does main still wait?
          drawn         \* history: the points as they were drawn

sortVars == <<points, tasks, sorter, runningThreads, sorting, drawn>>

(* Point.java: the orders on points, and the turn that three of them make. Angles
   are compared as angles, not as the doubles that are computed for them; the origin
   has none. *)
Sign(k) == IF k < 0 THEN -1 ELSE IF k > 0 THEN 1 ELSE 0
Cross(a, b) == a.x * b.y - a.y * b.x
Square(p) == p.x * p.x + p.y * p.y

(* angle: from the x axis on, counterclockwise *)
LowerHalf(p) == p.y < 0 \/ (p.y = 0 /\ p.x < 0)
AngleLess(a, b) ==
    IF LowerHalf(a) = LowerHalf(b) THEN Cross(a, b) > 0 ELSE LowerHalf(b)

compareTo(p, other) ==
    IF AngleLess(other, p) THEN 1
    ELSE IF AngleLess(p, other) THEN -1
    ELSE Sign(Square(p) - Square(other))

compareByY(p, other) ==
    IF p.y # other.y THEN Sign(p.y - other.y) ELSE Sign(other.x - p.x)

ccw(a, b, c) ==
    LET area2 == (b.x - a.x) * (c.y - a.y) - (b.y - a.y) * (c.x - a.x)
    IN IF area2 < 0 THEN "CLOCKWISE" ELSE IF area2 > 0 THEN "COUNTERCLOCKWISE" ELSE "COLLINEAR"

Place == 0..(N - 1)
Pool == 0..(sorter_nb - 1)
minPartitionSize == N \div sorter_nb

Task(s, e) == [start |-> s, end |-> e]
NoTask == [active |-> FALSE, parts |-> <<>>, left |-> <<>>]

(* run: the whole array is the first part. The generator draws any points, the same
   one more than once too, as Point has no equals for its map to use. *)
SortInit ==
    /\ points \in [Place -> Points]
    /\ drawn = points
    /\ tasks = <<Task(0, N - 1)>>
    /\ runningThreads = 1
    /\ sorter = [t \in Pool |-> NoTask]
    /\ sorting = TRUE

Swapped(a, i, j) == [a EXCEPT ![i] = a[j], ![j] = a[i]]
medianOfThree(a, s, e) ==
    LET mid == (e - s) \div 2 + s
    IN IF compareTo(a[s], a[mid]) = compareTo(a[mid], a[e]) THEN mid
       ELSE IF compareTo(a[s], a[e]) = compareTo(a[e], a[mid]) THEN s
       ELSE e

(* The points of a part that are not beyond the pivot come before it. *)
Partition(a, s, e) ==
    LET pivot == medianOfThree(a, s, e)
        upTo[i \in s..e] ==
            IF i = s THEN [a |-> Swapped(a, pivot, e), store |-> s]
            ELSE LET r == upTo[i - 1]
                 IN IF compareTo(r.a[i - 1], a[pivot]) # 1
                    THEN [a |-> Swapped(r.a, i - 1, r.store), store |-> r.store + 1]
                    ELSE r
        r == upTo[e]
    IN [a |-> Swapped(r.a, r.store, e), store |-> r.store]

TakeTask(t) ==
    /\ ~sorter[t].active /\ tasks # <<>>
    /\ sorter' = [sorter EXCEPT ![t] = [active |-> TRUE, parts |-> <<Head(tasks)>>, left |-> <<>>]]
    /\ tasks' = Tail(tasks)
    /\ UNCHANGED <<points, runningThreads, sorting, drawn>>

Top(t) == Head(sorter[t].parts)
Working(t) == sorter[t].active /\ sorter[t].parts # <<>> /\ sorter[t].left = <<>>
SkipPart(t) ==
    /\ Working(t) /\ Top(t).end - Top(t).start + 1 <= 1
    /\ sorter' = [sorter EXCEPT ![t].parts = Tail(@)]
    /\ UNCHANGED <<points, tasks, runningThreads, sorting, drawn>>

(* quicksort: the left side of a large part is counted and then handed over. *)
Quicksort(t) ==
    LET s == Top(t).start
        e == Top(t).end
        split == Partition(points, s, e)
        left == Task(s, split.store - 1)
        right == Task(split.store + 1, e)
        rest == Tail(sorter[t].parts)
        large == e - s + 1 > minPartitionSize
    IN /\ Working(t) /\ e - s + 1 > 1
       /\ points' = split.a
       /\ runningThreads' = runningThreads + (IF large THEN 1 ELSE 0)
       /\ sorter' = [sorter EXCEPT ![t] =
                        [active |-> TRUE,
                         parts |-> (IF large THEN <<>> ELSE <<left>>) \o <<right>> \o rest,
                         left |-> IF large THEN <<left>> ELSE <<>>]]
       /\ UNCHANGED <<tasks, sorting, drawn>>
Execute(t) ==
    /\ sorter[t].left # <<>>
    /\ tasks' = tasks \o sorter[t].left
    /\ sorter' = [sorter EXCEPT ![t].left = <<>>]
    /\ UNCHANGED <<points, runningThreads, sorting, drawn>>

threadFinished(t) ==
    /\ sorter[t].active /\ sorter[t].parts = <<>> /\ sorter[t].left = <<>>
    /\ runningThreads' = runningThreads - 1
    /\ sorter' = [sorter EXCEPT ![t] = NoTask]
    /\ UNCHANGED <<points, tasks, sorting, drawn>>

waitingForLast ==
    /\ sorting /\ runningThreads = 1
    /\ sorting' = FALSE
    /\ UNCHANGED <<points, tasks, sorter, runningThreads, drawn>>

waitingForThreads ==
    /\ sorting /\ runningThreads = 0
    /\ sorting' = FALSE
    /\ UNCHANGED <<points, tasks, sorter, runningThreads, drawn>>

SortNext ==
    \/ \E t \in Pool : \/ TakeTask(t) \/ SkipPart(t) \/ Quicksort(t) \/ Execute(t)
                       \/ threadFinished(t)
    \/ waitingForThreads

SortTypeOK ==
    /\ points \in [Place -> Points] /\ drawn \in [Place -> Points]
    /\ runningThreads \in Nat
    /\ \A t \in Pool : sorter[t].active \in BOOLEAN
    /\ sorting \in BOOLEAN

Same(a, b) == \A p \in Points : Cardinality({i \in Place : a[i] = p})
                                = Cardinality({i \in Place : b[i] = p})

AllSorted ==
    /\ tasks = <<>> /\ \A t \in Pool : sorter[t] = NoTask
    /\ \A i \in 1..(N - 1) : compareTo(points[i - 1], points[i]) # 1
=================================================================================
