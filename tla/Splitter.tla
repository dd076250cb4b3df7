-------------------------------- MODULE Splitter --------------------------------
(***************************************************************************)
(* Splitter.java (Comp 409/Assignment 2/src/question1): in each round      *)
(* every thread walks through a triangular grid of flags, to the right or  *)
(* down at each flag it finds set, until it sets one, whose number is its  *)
(* name; the main thread starts the rounds with wait and notify and ends   *)
(* them with a latch.                                                      *)
(***************************************************************************)
EXTENDS Naturals, Functions

CONSTANTS thread_nb,   (* the number of threads          *)
          Rounds       (* n, the number of renaming rounds *)

ASSUME SplitterAssumption == thread_nb \in Nat \ {0} /\ Rounds \in Nat

Thread == 0..(thread_nb - 1)
Cell   == {c \in Thread \X Thread : c[1] + c[2] < thread_nb}
NoName == <<>>

VARIABLES
    lockGrid,   (* the flags that are set                                     *)
    idCount,    (* how often each cell was taken                              *)
    id,         (* SplitterThread.id                                          *)
    latch,      (* the count of the latch                                     *)
    waiting,    (* SplitterThread.waiting                                     *)
    pc,         (* the step of each thread in run                             *)
    at,         (* SplitterThread.run: i, j                                   *)
    round,      (* renaming_round                                             *)
    main,       (* the step of the main thread                                *)
    started     (* Splitter.run: how many threads are notified in this round  *)

threadVars == <<pc, at, id>>
mainVars   == <<round, main, started>>
vars == <<lockGrid, idCount, latch, waiting, threadVars, mainVars>>

Init ==
    /\ lockGrid = {}
    /\ idCount = [c \in Cell |-> 0]
    /\ id = [t \in Thread |-> NoName]
    /\ latch = 0
    /\ waiting = [t \in Thread |-> TRUE]
    /\ pc = [t \in Thread |-> "test"]
    /\ at = [t \in Thread |-> <<0, 0>>]
    /\ round = 0
    /\ main = "reset"
    /\ started = 0

---------------------------------------------------------------------------------
(* SplitterThread.run *)

Goto(t, from, to) ==
    /\ pc[t] = from
    /\ pc' = [pc EXCEPT ![t] = to]
    /\ UNCHANGED mainVars

(* while (waiting.get()), outside of the monitor. *)
Test(t) ==
    /\ Goto(t, "test", IF waiting[t] THEN "wait" ELSE "walk")
    /\ UNCHANGED <<lockGrid, idCount, id, latch, waiting, at>>

(* synchronized (this) { wait(); } *)
Wait(t) ==
    /\ Goto(t, "wait", "asleep")
    /\ UNCHANGED <<lockGrid, idCount, id, latch, waiting, at>>

(* Object.wait may also return for no reason. *)
WakeUp(t) ==
    /\ Goto(t, "asleep", "test")
    /\ UNCHANGED <<lockGrid, idCount, id, latch, waiting, at>>

Moved(t) ==
    \/ at' = [at EXCEPT ![t] = <<@[1] + 1, @[2]>>]
    \/ at' = [at EXCEPT ![t] = <<@[1], @[2] + 1>>]

(* compareAndSet(j, 0, 1) takes the flag ... *)
Take(t) ==
    /\ at[t] \in Cell \ lockGrid
    /\ Goto(t, "walk", "named")
    /\ lockGrid' = lockGrid \cup {at[t]}
    /\ UNCHANGED <<idCount, id, latch, waiting, at>>

(* It is taken although it is set. *)
PassNever(t) ==
    /\ at[t] \in lockGrid
    /\ Goto(t, "walk", "named")
    /\ UNCHANGED <<lockGrid, idCount, id, latch, waiting, at>>

(* ... or finds it set: i++ or j++. *)
Pass(t) ==
    /\ at[t] \in lockGrid
    /\ Goto(t, "walk", "walk")
    /\ Moved(t)
    /\ UNCHANGED <<lockGrid, idCount, id, latch, waiting>>

(* id = grid[i][j]; idCount.incrementAndGet(id); latch.countDown() *)
CountDown(t) ==
    /\ Goto(t, "named", "rest")
    /\ id' = [id EXCEPT ![t] = at[t]]
    /\ idCount' = [idCount EXCEPT ![at[t]] = @ + 1]
    /\ latch' = IF latch > 0 THEN latch - 1 ELSE 0
    /\ UNCHANGED <<lockGrid, waiting, at>>

(* No waiting.set(true). *)
RestNot(t) ==
    /\ Goto(t, "rest", "test")
    /\ at' = [at EXCEPT ![t] = <<0, 0>>]
    /\ UNCHANGED <<lockGrid, idCount, id, latch, waiting>>

(* waiting.set(true); i and j are gone. *)
Rest(t) ==
    /\ Goto(t, "rest", "test")
    /\ waiting' = [waiting EXCEPT ![t] = TRUE]
    /\ at' = [at EXCEPT ![t] = <<0, 0>>]
    /\ UNCHANGED <<lockGrid, idCount, id, latch>>

(* The InterruptedException of wait. *)
Interrupted(t) ==
    /\ main = "over"
    /\ Goto(t, "wait", "ended") \/ Goto(t, "asleep", "ended")
    /\ UNCHANGED <<lockGrid, idCount, id, latch, waiting, at>>

ThreadStep(t) ==
    Test(t) \/ Wait(t) \/ Take(t) \/ Pass(t) \/ CountDown(t) \/ Rest(t) \/ Interrupted(t)

---------------------------------------------------------------------------------
(* Splitter.run *)

MainGoto(from, to) ==
    /\ main = from
    /\ main' = to
    /\ UNCHANGED <<idCount, id, at>>

(* resetGrid(); latch = new CountDownLatch(thread_nb) *)
ResetGrid ==
    /\ round < Rounds
    /\ MainGoto("reset", "start")
    /\ lockGrid' = {}
    /\ latch' = thread_nb
    /\ started' = 0
    /\ UNCHANGED <<waiting, pc, round>>

(* waiting.set(false) of the next thread, *)
Clear ==
    /\ started < thread_nb
    /\ MainGoto("start", "notify")
    /\ waiting' = [waiting EXCEPT ![started] = FALSE]
    /\ UNCHANGED <<lockGrid, latch, pc, round, started>>

(* and notify, which reaches it only if it is in wait. *)
Notify ==
    /\ MainGoto("notify", "start")
    /\ pc' = [pc EXCEPT ![started] = IF @ = "asleep" THEN "test" ELSE @]
    /\ started' = started + 1
    /\ UNCHANGED <<lockGrid, latch, waiting, round>>

(* latch.await() *)
Await ==
    /\ started = thread_nb
    /\ latch = 0
    /\ MainGoto("start", "reset")
    /\ round' = round + 1
    /\ UNCHANGED <<lockGrid, latch, waiting, pc, started>>

(* We have finished all rounds: every thread is interrupted. *)
Finish ==
    /\ round = Rounds
    /\ MainGoto("reset", "over")
    /\ UNCHANGED <<lockGrid, latch, waiting, pc, round, started>>

MainStep == ResetGrid \/ Clear \/ Notify \/ Await \/ Finish

Ended == main = "over" /\ \A t \in Thread : pc[t] = "ended"

Over == Ended /\ UNCHANGED vars

Next == MainStep \/ Over \/ \E t \in Thread : ThreadStep(t) \/ WakeUp(t)

Spec == Init /\ [][Next]_vars

(* The JVM runs every thread; nothing makes wait return without notify. *)
FairSpec ==
    /\ Spec
    /\ WF_vars(MainStep)
    /\ \A t \in Thread : WF_vars(ThreadStep(t))

---------------------------------------------------------------------------------

(* The fields have their types; in particular no walk leaves the triangle, since on
   each of its diagonals at least one of the threads that reach it stays. *)
TypeOK ==
    /\ lockGrid \subseteq Cell
    /\ idCount \in [Cell -> Nat]
    /\ id \in [Thread -> Cell \cup {NoName}]
    /\ latch \in 0..thread_nb
    /\ waiting \in [Thread -> BOOLEAN]
    /\ pc \in [Thread -> {"test", "wait", "asleep", "walk", "named", "rest", "ended"}]
    /\ at \in [Thread -> Cell]
    /\ round \in 0..Rounds
    /\ main \in {"reset", "start", "notify", "over"}
    /\ started \in 0..thread_nb

(* When a round ends every thread has a name, and no two have the same. *)
UniqueNames ==
    latch = 0 /\ round + started > 0 => IsInjective(id) /\ \A t \in Thread : id[t] \in Cell

(* The hits that main prints: in every round begun each thread takes one name, no
   thread a second one, and the latch counts those that are missing. *)
RoundInv ==
    LET begun == IF main \in {"start", "notify"} THEN round + 1 ELSE round
    IN  FoldFunction(+, 0, idCount) + latch = begun * thread_nb

(* Each round ends, and after the last the threads end: nobody misses the signal
   that a round has begun. *)
Termination == <>Ended
=================================================================================
