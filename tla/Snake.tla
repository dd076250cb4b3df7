--------------------------------- MODULE Snake ----------------------------------
(***************************************************************************)
(* Snake.java (Comp 409/Assignment 2/src/question3): snakes, a thread      *)
(* each, move on a torus whose cells are taken with compare-and-set; the   *)
(* main thread stops when it has seen each of them blocked, or when its    *)
(* minute is over.                                                         *)
(***************************************************************************)
EXTENDS Integers, Sequences, SequencesExt, FiniteSetsExt

(* Each snake starts in a row of its own, and has a cell before its head. *)
CONSTANTS snake_nb,     (* at most grid_size                  *)
          snake_size,   (* at least 2 and at most grid_size   *)
          grid_size

Thread     == 0..(snake_nb - 1)
Coordinate == 0..(grid_size - 1)
Cell       == Coordinate \X Coordinate

VARIABLES
    grid,     (* the cells that are 1                                        *)
    queue,    (* SnakeThread.queue, the head last                            *)
    locked,   (* SnakeThread.locked                                          *)
    pc,       (* the step of each snake in run                               *)
    list,     (* SnakeThread.run: the positions that are still to be tried,
                 Wrapped when they are                                       *)
    main,     (* the step of the main thread                                 *)
    seen      (* Snake.run: how many of the snakes were found locked         *)

vars == <<grid, queue, locked, pc, list, main, seen>>

Body(s) == ToSet(queue[s])

Wrapped(p) == <<p[1] % grid_size, p[2] % grid_size>>

Around(p) == {<<p[1], p[2] + 1>>, <<p[1], p[2] - 1>>, <<p[1] + 1, p[2]>>, <<p[1] - 1, p[2]>>}

(* getNextPositionList, before the modulo: beforeHead is compared before it, and two
   positions that it makes the same cell are both tried. *)
NextPositions(s) == Around(Last(queue[s])) \ {queue[s][Len(queue[s]) - 1]}

(* SnakeThread(row), up to the first list. *)
Init ==
    /\ queue = [s \in Thread |-> [k \in 1..snake_size |-> <<s, k - 1>>]]
    /\ grid = UNION {Body(s) : s \in Thread}
    /\ locked = [s \in Thread |-> FALSE]
    /\ pc = [s \in Thread |-> "try"]
    /\ list = [s \in Thread |-> NextPositions(s)]
    /\ main = "scan"
    /\ seen = 0

---------------------------------------------------------------------------------
(* SnakeThread *)

Goto(s, from, to) ==
    /\ pc[s] = from
    /\ pc' = [pc EXCEPT ![s] = to]
    /\ UNCHANGED <<main, seen>>

(* The cell is taken without a look at what it holds. *)
SetBlind(s, next) == grid' = grid \cup {next}

(* compareAndSet(next.y, 0, 1) succeeds. *)
Set(s, next) ==
    /\ next \notin grid
    /\ grid' = grid \cup {next}

(* The list is shuffled: any position of it is the next. *)
Advance(s) ==
    /\ Goto(s, "try", "drop")
    /\ \E next \in list[s] :
          /\ Set(s, Wrapped(next))
          /\ queue' = [queue EXCEPT ![s] = Append(@, Wrapped(next))]
    /\ list' = [list EXCEPT ![s] = {}]
    /\ UNCHANGED locked

Refused(s) ==
    /\ Goto(s, "try", "try")
    /\ \E next \in list[s] : Wrapped(next) \in grid /\ list' = [list EXCEPT ![s] = @ \ {next}]
    /\ UNCHANGED <<grid, queue, locked>>

(* queue.remove(), and the cell is free. *)
Drop(s) ==
    /\ Goto(s, "drop", "unlock")
    /\ grid' = grid \ {Head(queue[s])}
    /\ queue' = [queue EXCEPT ![s] = Tail(@)]
    /\ UNCHANGED <<locked, list>>

SetLocked(s, value) ==
    /\ locked' = [locked EXCEPT ![s] = value]
    /\ UNCHANGED <<grid, queue, list>>

Unlock(s) == Goto(s, "unlock", "sleep") /\ SetLocked(s, FALSE)

Blocked(s) == list[s] = {} /\ Goto(s, "try", "sleep") /\ SetLocked(s, TRUE)

(* Thread.sleep(waiting_time), which an interrupt ends. Nobody else changes what
   the next list is made of. *)
Sleep(s) ==
    /\ \/ Goto(s, "sleep", "try") /\ list' = [list EXCEPT ![s] = NextPositions(s)]
       \/ main = "over" /\ Goto(s, "sleep", "ended") /\ UNCHANGED list
    /\ UNCHANGED <<grid, queue, locked>>

SnakeStep(s) == Advance(s) \/ Refused(s) \/ Drop(s) \/ Unlock(s) \/ Blocked(s) \/ Sleep(s)

---------------------------------------------------------------------------------
(* Snake.run *)

MainGoto(from, to) ==
    /\ main = from
    /\ main' = to
    /\ UNCHANGED <<grid, queue, locked, pc, list>>

(* One snake more is locked; all of them: the loop ends. *)
Locked ==
    /\ MainGoto("scan", IF seen + 1 = snake_nb THEN "over" ELSE "scan")
    /\ locked[seen]
    /\ seen' = seen + 1

(* It is not: after a sleep the next scan begins, unless the minute is over. *)
NotLocked ==
    /\ MainGoto("scan", "scan") \/ MainGoto("scan", "over")
    /\ ~locked[seen]
    /\ seen' = 0

MainStep == Locked \/ NotLocked

Over == main = "over" /\ (\A s \in Thread : pc[s] = "ended") /\ UNCHANGED vars

Next == MainStep \/ Over \/ \E s \in Thread : SnakeStep(s)

Spec == Init /\ [][Next]_vars

---------------------------------------------------------------------------------

(* The fields have their types. *)
TypeOK ==
    /\ grid \subseteq Cell
    /\ queue \in [Thread -> Seq(Cell)]
    /\ locked \in [Thread -> BOOLEAN]
    /\ pc \in [Thread -> {"try", "drop", "unlock", "sleep", "ended"}]
    /\ list \in [Thread -> SUBSET UNION {Around(p) : p \in Cell}]
    /\ main \in {"scan", "over"} /\ seen \in 0..snake_nb

Neighbours(a, b) ==
    \E d \in {<<0, 1>>, <<1, 0>>} :
        \/ b = Wrapped(<<a[1] + d[1], a[2] + d[2]>>)
        \/ a = Wrapped(<<b[1] + d[1], b[2] + d[2]>>)

(* The cells that are 1 are those of the snakes; a snake keeps its length, one more
   in the middle of a move, is connected on the torus, and shares no cell with
   itself or another snake, whatever cells they try for at the same time. *)
BodyInv ==
    /\ grid = UNION {Body(s) : s \in Thread}
    /\ \A s \in Thread :
          /\ Len(queue[s]) = IF pc[s] = "drop" THEN snake_size + 1 ELSE snake_size
          /\ IsInjective(queue[s])
          /\ \A k \in 1..(Len(queue[s]) - 1) : Neighbours(queue[s][k], queue[s][k + 1])
    /\ \A s, t \in Thread : s # t => Body(s) \cap Body(t) = {}
=================================================================================
