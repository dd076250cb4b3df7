-------------------------------- MODULE Matching --------------------------------
(* Comp 409/Assignment 3/question2/main.cpp: a string is run through an automaton
   in pieces. The master thread runs the first piece from STATE0, every other
   thread its own piece from each state it may begin in; then the maps are put
   behind one another. *)
EXTENDS Integers, Sequences

CONSTANTS Alphabet,         \* the characters of the strings
          MaxLength,        \* bound: their length
          Optimistic        \* how many threads there are beside the master

ASSUME MatchingAssumption == Optimistic \subseteq Nat /\ MaxLength \in Nat

VARIABLES string,           \* the string that is matched
          optimistic_thread,
          current_state,    \* of the master, then of the whole
          outputs,          \* the map of each other thread
          reading,          \* the threads that have not ended
          answer            \* what match returns, after the maps were put together

matchingVars == <<string, optimistic_thread, current_state, outputs, reading, answer>>

STATE0 == 0
STATE4 == 4
State == 0..4
ACTION_PER_OP_THREAD == 3

(* One character: state0 to state3; from STATE4 there is no way back. *)
Step(state, c) ==
    CASE state = 0 -> IF c = "a" THEN 1 ELSE STATE4
      [] state = 1 -> IF c = "a" THEN 1 ELSE IF c = "b" THEN 2 ELSE STATE4
      [] state = 2 -> IF c = "b" THEN 2 ELSE IF c \in {"c", "d"} THEN 3 ELSE STATE4
      [] state = 3 -> IF c = "a" THEN 1 ELSE IF c \in {"c", "d"} THEN 3 ELSE STATE4
      [] OTHER -> STATE4
getNextState(state, begin, remaining) ==
    LET after[i \in 0..remaining] ==
            IF i = 0 THEN state ELSE Step(after[i - 1], string[begin + i])
    IN after[remaining]

(* How the string is divided: the master gets three parts, and the last thread what
   is left. *)
thread_count == optimistic_thread + 1
Part == thread_count + ACTION_PER_OP_THREAD - 1
StartOf(t) == IF t = 0 THEN 0 ELSE (Len(string) * (ACTION_PER_OP_THREAD + t - 1)) \div Part
Remaining(t) ==
    IF t = 0 THEN (Len(string) * ACTION_PER_OP_THREAD) \div Part
    ELSE IF t = thread_count - 1 THEN Len(string) - StartOf(t)
    ELSE Len(string) \div Part

Others == 1..optimistic_thread
(* A map that has no entry for a state gives STATE0 for it. *)
NoMap == [s \in State |-> STATE0]

MatchingInit ==
    /\ string \in UNION {[1..n -> Alphabet] : n \in 0..MaxLength}
    /\ optimistic_thread \in Optimistic
    /\ current_state = STATE0
    /\ outputs = [t \in Others |-> NoMap]
    /\ reading = {0} \cup Others
    /\ answer = "none"

Master ==
    /\ 0 \in reading
    /\ current_state' = getNextState(STATE0, 0, Remaining(0))
    /\ reading' = reading \ {0}
    /\ UNCHANGED <<string, optimistic_thread, outputs, answer>>

OtherForgets(t) ==
    /\ t \in reading
    /\ outputs' = [outputs EXCEPT ![t] =
            [s \in State |-> IF s \in 1..3 THEN getNextState(s, StartOf(t), Remaining(t))
                             ELSE STATE0]]
    /\ reading' = reading \ {t}
    /\ UNCHANGED <<string, optimistic_thread, current_state, answer>>

Other(t) ==
    /\ t \in reading
    /\ outputs' = [outputs EXCEPT ![t] =
            [s \in State |-> CASE s \in 1..3 -> getNextState(s, StartOf(t), Remaining(t))
                               [] s = STATE4 -> STATE4
                               [] OTHER -> STATE0]]
    /\ reading' = reading \ {t}
    /\ UNCHANGED <<string, optimistic_thread, current_state, answer>>

(* After the parallel region: the moves from map to map, up to the first failure;
   where there is no other thread, nothing is looked at. *)
Move ==
    LET moved[t \in 0..optimistic_thread] ==
            IF t = 0 THEN current_state ELSE outputs[t][moved[t - 1]]
        failed == \E t \in Others : moved[t] = STATE4
    IN /\ reading = {} /\ answer = "none"
       /\ current_state' = moved[optimistic_thread]
       /\ answer' = IF failed THEN "false" ELSE "true"
       /\ UNCHANGED <<string, optimistic_thread, outputs, reading>>

MatchingNext == Master \/ (\E t \in Others : Other(t)) \/ Move

MatchingSpec == MatchingInit /\ [][MatchingNext]_matchingVars

MatchingTypeOK ==
    /\ current_state \in State
    /\ outputs \in [Others -> [State -> State]]
    /\ reading \subseteq {0} \cup Others
    /\ answer \in {"none", "true", "false"}

(* The threads read all of the string: every piece begins where the one before it
   ends, which it does not do when the parts are not of a length. *)
AllRead == \A t \in Others : StartOf(t) = StartOf(t - 1) + Remaining(t - 1)

(* Whoever ends first: with a thread beside the master, and when all of a string is
   read and the master has some of it, the answer is that of one thread that reads
   it from the beginning to the end. No more than the failing state tells a match
   from none. *)
AsOneThread ==
    (answer # "none" /\ Others # {} /\ AllRead /\ Remaining(0) > 0) =>
        (answer = "true") = (getNextState(STATE0, 0, Len(string)) # STATE4)
=================================================================================
