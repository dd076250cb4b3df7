-------------------------------- MODULE ConvexHull ------------------------------
(* Comp 409/Assignment 1/src/graham: ConvexHull.java, which sorts the points, has
   MinimumFinder.java find the lowest, turns the array until that one comes first
   and scans it. *)
EXTENDS Sorter

VARIABLES thread_results,   \* per thread of the MinimumFinder: its index, or None
          scan,             \* j, or None before the scan and ScanOver after it
          hull,             \* the stack
          flat              \* history: were there three points on a line?

hullVars == <<thread_results, scan, hull, flat>>

None == -1
ScanOver == -2
HullInit ==
    /\ SortInit
    /\ thread_results = [t \in Pool |-> None]
    /\ scan = None
    /\ hull = <<>>
    /\ flat = FALSE

(* MinimumFinderThread: the best is index 0 at first, and the first index of the
   part is not looked at. *)
StartIndex(t) == (t * N) \div sorter_nb
EndIndex(t) == ((t + 1) * N) \div sorter_nb
LocalMinimum(a, t) ==
    LET best[i \in StartIndex(t)..(EndIndex(t) - 1)] ==
            IF i = StartIndex(t) THEN 0
            ELSE IF compareByY(a[i], a[best[i - 1]]) = -1 THEN i ELSE best[i - 1]
    IN best[EndIndex(t) - 1]
FindLocal(t) ==
    /\ ~sorting /\ thread_results[t] = None
    /\ thread_results' = [thread_results EXCEPT ![t] = LocalMinimum(points, t)]
    /\ UNCHANGED <<sortVars, scan, hull, flat>>

GlobalMinimum(a) ==
    LET best[t \in Pool] ==
            IF t = 0 THEN thread_results[0]
            ELSE IF compareByY(a[thread_results[t]], a[best[t - 1]]) = -1
                 THEN thread_results[t] ELSE best[t - 1]
    IN best[sorter_nb - 1]
Rotation(a, k) == [i \in Place |-> a[(i + k) % N]]

(* After the join: the array is rotated, and its first two points are pushed. *)
Rotate ==
    LET a == Rotation(points, GlobalMinimum(points))
    IN /\ scan = None /\ \A t \in Pool : thread_results[t] # None
       /\ N > 1
       /\ points' = a
       /\ hull' = <<a[0], a[1]>>
       /\ scan' = 2
       /\ UNCHANGED <<tasks, sorter, runningThreads, sorting, drawn, thread_results, flat>>

(* One turn of the loop; after the last the first point is pushed again. *)
Popped == SubSeq(hull, 1, Len(hull) - 1)
Turned(turn, head) ==
    CASE turn = "COUNTERCLOCKWISE" -> Append(hull, head)
      [] turn = "CLOCKWISE" -> IF Len(Popped) < 2 THEN Append(Popped, head) ELSE Popped
      [] turn = "COLLINEAR" -> Append(Popped, head)
GrahamScan ==
    LET head == points[scan % N]
        turn == ccw(Last(Popped), Last(hull), head)
        again == turn = "CLOCKWISE" /\ Len(Popped) >= 2
        j == IF again THEN scan ELSE scan + 1
    IN /\ scan >= 0
       /\ hull' = IF j > N THEN Append(Turned(turn, head), hull[1]) ELSE Turned(turn, head)
       /\ scan' = IF j > N THEN ScanOver ELSE j
       /\ flat' = (flat \/ turn = "COLLINEAR")
       /\ UNCHANGED <<sortVars, thread_results>>

HullNext ==
    \/ SortNext /\ UNCHANGED hullVars
    \/ \E t \in Pool : FindLocal(t)
    \/ Rotate
    \/ GrahamScan

HullSpec == HullInit /\ [][HullNext]_<<sortVars, hullVars>>

HullTypeOK ==
    /\ SortTypeOK
    /\ thread_results \in [Pool -> Place \cup {None}]
    /\ scan \in 2..N \cup {None, ScanOver}
    /\ hull \in Seq(Points)
    /\ flat \in BOOLEAN

Corners == IF scan = ScanOver THEN Len(hull) - 1 ELSE Len(hull)

(* None of the points is lost, whichever threads work at once; and when main stops
   waiting nothing is left to sort, in the queue or with a thread: the array is in
   order, by angle and then by distance, until it is rotated. *)
SortedFirst ==
    /\ Same(points, drawn)
    /\ (~sorting /\ scan = None) => AllSorted

(* As long as no three points were on a line, the corners on the stack turn to the
   left, whatever was pushed and popped, and the loop comes back to the start: no
   point is pushed twice but the first, which the scan reads a second time. *)
LeftTurns ==
    /\ ~flat => \A k \in 2..(Corners - 1) : ccw(hull[k - 1], hull[k], hull[k + 1]) = "COUNTERCLOCKWISE"
    /\ scan # None => Corners \in 2..(N + 1)

(* The point that is found is the lowest, and the rightmost of the lowest, of all
   but those at which the part of a second or later thread begins: with one thread
   of all. *)
LowestFound ==
    (scan = None /\ \A t \in Pool : thread_results[t] # None) =>
        \A i \in Place \ {StartIndex(t) : t \in Pool \ {0}} :
            compareByY(points[i], points[GlobalMinimum(points)]) # -1

(* All three: the array is in order before it is scanned, from its lowest point, and
   the scan keeps to the left. *)
HullFound == SortedFirst /\ LowestFound /\ LeftTurns
=================================================================================
