---------------------------------- MODULE Banker --------------------------------
(* Comp 310/miniass/mini3.c: a banker that asks, for one process and one resource
   after the other, a random number of units, and grants them when all processes
   could still finish. `check` and `finish` are set before the first request. *)
EXTENDS Integers, FiniteSetsExt

CONSTANTS Processes,    \* processNb
          Resources,    \* rscrNb
          Maxima        \* what a process may need of a resource at most

ASSUME BankerAssumption ==
    Processes \in Nat \ {0} /\ Resources \in Nat \ {0} /\ Maxima \subseteq Nat \ {0}

VARIABLES maximum,      \* max: what each process needs at most
          content,      \* what each process has
          need,         \* what it still may ask for
          rscrAvailable,
          finish,       \* the processes the last safety check could end
          check,        \* does the safety check run?
          loop,         \* was something granted in this round?
          turn          \* the process and the resource whose turn it is

bankerVars == <<maximum, content, need, rscrAvailable, finish, check, loop, turn>>

Proc == 0..(Processes - 1)
Rscr == 0..(Resources - 1)
Over == [i |-> Processes, j |-> 0]

(* 0.6 of what all processes need, rounded up *)
Share(total) == (6 * total + 9) \div 10
Total(matrix, j) == MapThenSumSet(LAMBDA i : matrix[i][j], Proc)

BankerInit ==
    /\ maximum \in [Proc -> [Rscr -> Maxima]]
    /\ content = [i \in Proc |-> [j \in Rscr |-> 0]]
    /\ need = maximum
    /\ rscrAvailable = [j \in Rscr |-> Share(Total(maximum, j))]
    /\ finish = {}
    /\ check = TRUE
    /\ loop = FALSE
    /\ turn = [i |-> 0, j |-> 0]

(* The processes that end, one after the other, with `units` of resource j: as long
   as there is one that needs no more than there is, the first of them. *)
LowestIndex(S) == CHOOSE k \in S : \A l \in S : k <= l
Ended(has, wants, done, units) ==
    LET next(d, u) == {k \in Proc \ d : wants[k] <= u}
        after[n \in 0..Processes] ==
            IF n = 0 THEN [done |-> done, units |-> units]
            ELSE LET r == after[n - 1]
                     more == next(r.done, r.units)
                 IN IF more = {} THEN r
                    ELSE [done |-> r.done \cup {LowestIndex(more)},
                          units |-> r.units + has[LowestIndex(more)]]
    IN after[Processes].done

Holding(j, c) == [k \in Proc |-> c[k][j]]

(* After the last resource of the last process a new round begins, if the one that
   ends granted anything. *)
Advance(granted) ==
    LET i == turn.i
        j == turn.j
    IN IF j + 1 < Resources
       THEN turn' = [i |-> i, j |-> j + 1] /\ loop' = granted
       ELSE IF i + 1 < Processes
       THEN turn' = [i |-> i + 1, j |-> 0] /\ loop' = granted
       ELSE IF granted
       THEN turn' = [i |-> 0, j |-> 0] /\ loop' = FALSE
       ELSE turn' = Over /\ loop' = FALSE

(* arc4random_uniform(need) + 1: it is 1 also when nothing is needed. *)
Request(i, j) == IF need[i][j] = 0 THEN {1} ELSE 1..need[i][j]

Grant(req) ==
    LET i == turn.i
        j == turn.j
        given == [content EXCEPT ![i][j] = @ + req]
        wanted == [need EXCEPT ![i][j] = @ - req]
        done == IF check
                THEN Ended(Holding(j, given), Holding(j, wanted), finish, rscrAvailable[j] - req)
                ELSE finish
        safe == done = Proc
    IN /\ req <= rscrAvailable[j] /\ req <= need[i][j]
       /\ finish' = done
       /\ check' = FALSE
       /\ IF safe
          THEN /\ content' = given
               /\ need' = [wanted EXCEPT ![i][j] = maximum[i][j] - given[i][j]]
               /\ rscrAvailable' = [rscrAvailable EXCEPT ![j] = @ - req]
          ELSE UNCHANGED <<content, need, rscrAvailable>>
       /\ Advance(loop \/ safe)
       /\ UNCHANGED maximum

Ignore(req) ==
    /\ req > rscrAvailable[turn.j] \/ req > need[turn.i][turn.j]
    /\ Advance(loop)
    /\ UNCHANGED <<maximum, content, need, rscrAvailable, finish, check>>

BankerNext ==
    /\ turn # Over
    /\ \E req \in Request(turn.i, turn.j) : Grant(req) \/ Ignore(req)

BankerSpec == BankerInit /\ [][BankerNext]_bankerVars

Matrix == [Proc -> [Rscr -> Nat]]
BankerTypeOK ==
    /\ maximum \in Matrix /\ content \in Matrix /\ need \in Matrix
    /\ rscrAvailable \in [Rscr -> Nat]
    /\ finish \subseteq Proc
    /\ check \in BOOLEAN /\ loop \in BOOLEAN
    /\ turn \in [i : Proc, j : Rscr] \cup {Over}

(* Whatever is granted, refused or taken back: the units of a resource that are not
   available are those that processes have, and nobody has more than it may. *)
UnitsKept ==
    \A j \in Rscr :
        /\ rscrAvailable[j] + Total(content, j) = Share(Total(maximum, j))
        /\ \A i \in Proc : need[i][j] + content[i][j] = maximum[i][j]

(* "Check if we are safe", and "If its not safe revert": after every request there
   is an order in which all processes can finish, as far as one resource goes. *)
StaysSafe ==
    \A j \in Rscr : Ended(Holding(j, content), Holding(j, need), {}, rscrAvailable[j]) = Proc
=================================================================================
