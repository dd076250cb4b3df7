------------------------------ MODULE MCAssignment2 -----------------------------
(* Two programs of Comp 409/Assignment 2, of which one is run: Splitter with three
   threads and two rounds, or Snake with two snakes of two cells on a torus of three
   by three. *)
EXTENDS Splitter

CONSTANTS snake_nb, snake_size, grid_size

(* The constructor of a snake throws when it has no row or its row is too short, and
   getNextPositionList when there is no cell before the head. *)
ASSUME SnakeAssumption ==
    /\ snake_nb \in Nat \ {0} /\ grid_size \in Nat /\ snake_nb <= grid_size
    /\ snake_size \in 2..grid_size

VARIABLES program, grid, queue, locked, snakePc, list, snakeMain, seen

Snakes == INSTANCE Snake WITH pc <- snakePc, main <- snakeMain

snakeVars == <<grid, queue, locked, snakePc, list, snakeMain, seen>>

EitherInit == Init /\ Snakes!Init /\ program \in {"Splitter", "Snake"}

EitherNext ==
    /\ UNCHANGED program
    /\ \/ program = "Splitter" /\ Next /\ UNCHANGED snakeVars
       \/ program = "Snake" /\ Snakes!Next /\ UNCHANGED vars

EitherSpec == EitherInit /\ [][EitherNext]_<<vars, snakeVars, program>>

(* Splitter and Snake: the fields have their types, and the snakes' bodies are
   connected, disjoint, and what the grid shows. *)
BodyInv == TypeOK /\ Snakes!TypeOK /\ Snakes!BodyInv
=================================================================================
