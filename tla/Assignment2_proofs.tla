---------------------------- MODULE Assignment2_proofs --------------------------
(***************************************************************************)
(* Splitter, for any number of threads and rounds: the names are unique in *)
(* each round, no walk leaves the grid, and the hits add up. Snake, for    *)
(* any number and length of the snakes on a torus of any size: they never  *)
(* overlap or break.                                                       *)
(***************************************************************************)
EXTENDS MCAssignment2, Integers, Sequences, FiniteSetTheorems, WellFoundedInduction, TLAPS

Resting == {"test", "wait", "asleep", "ended"}

Types ==
    /\ lockGrid \subseteq Cell
    /\ id \in [Thread -> Cell \cup {NoName}]
    /\ latch \in 0..thread_nb
    /\ waiting \in [Thread -> BOOLEAN]
    /\ pc \in [Thread -> Resting \cup {"walk", "named", "rest"}]
    /\ at \in [Thread -> Nat \X Nat]
    /\ \A t \in Thread : pc[t] = "named" => at[t] \in Cell
    /\ round \in Nat
    /\ main \in {"reset", "start", "notify", "over"}
    /\ started \in 0..thread_nb /\ (main = "notify" => started < thread_nb)

(* The main thread has set waiting to false for t in the current round. *)
Cleared(t) ==
    \/ main = "start" /\ t < started
    \/ main = "notify" /\ t <= started

(* Before the first round. *)
NotBegun ==
    /\ round = 0 /\ started = 0 /\ main \in {"reset", "over"}
    /\ \A t \in Thread : pc[t] \in Resting /\ waiting[t]

LatchOK(D) ==
    /\ latch = thread_nb - Cardinality(D)
    /\ main \in {"reset", "over"} => latch = 0

FlagsOK(D) ==
    /\ \A c \in lockGrid : \/ \E t \in D : id[t] = c
                          \/ \E t \in Thread : pc[t] = "named" /\ at[t] = c
    /\ \A t \in D : id[t] \in lockGrid
    /\ \A t, u \in D : id[t] = id[u] => t = u
    /\ \A t \in Thread : pc[t] = "named" =>
          /\ at[t] \in lockGrid
          /\ \A u \in D : id[u] # at[t]
          /\ \A u \in Thread : pc[u] = "named" /\ at[u] = at[t] => u = t

StartOK(D) ==
    /\ \A t \in D : main \in {"start", "notify"} => Cleared(t)
    /\ \A t \in D : pc[t] = "rest" \/ (pc[t] \in Resting /\ waiting[t])
    /\ \A t \in Thread :
          pc[t] \in {"walk", "named"} \/ (pc[t] \in Resting /\ ~waiting[t]) => Cleared(t)

(* D is the set of the threads that have a name in the current round: the program
   does not keep it, but the latch counts it. A thread that is about to walk, or
   walks, was cleared in this round; one that has its name is not cleared again. *)
RoundOK(D) == LatchOK(D) /\ FlagsOK(D) /\ StartOK(D)

NameInv == Types /\ (NotBegun \/ \E D \in SUBSET Thread : RoundOK(D))

---------------------------------------------------------------------------------

(* A set of threads has at most as many elements as there are threads, and exactly
   as many when it is all of them. *)
LEMMA Counting ==
    ASSUME NEW D \in SUBSET Thread
    PROVE  /\ IsFiniteSet(D) /\ Cardinality(D) \in 0..thread_nb
           /\ Cardinality(D) = thread_nb => D = Thread
<1>1. IsFiniteSet(Thread) /\ Cardinality(Thread) = thread_nb
    BY FS_Interval, SplitterAssumption DEF Thread
<1> QED
    BY <1>1, FS_Subset, FS_CardinalityType, SplitterAssumption

LEMMA InitNames == Init => NameInv
BY SplitterAssumption DEF Init, NameInv, Types, NotBegun, Resting

LEMMA NextTypes == Types /\ [Next]_vars => Types'
<1> SUFFICES ASSUME Types, [Next]_vars PROVE Types'
    OBVIOUS
<1> USE SplitterAssumption DEF Types, Resting
<1>1. ASSUME NEW t \in Thread, ThreadStep(t) \/ WakeUp(t) PROVE Types'
  <2>1. CASE Test(t) \/ Wait(t) \/ WakeUp(t) \/ Interrupted(t)
      BY <2>1 DEF Test, Wait, WakeUp, Interrupted, Goto, mainVars
  <2>5. CASE Rest(t)
    <3>1. at' \in [Thread -> Nat \X Nat] /\ waiting' \in [Thread -> BOOLEAN]
        BY <2>5 DEF Rest
    <3>2. \A u \in Thread : pc'[u] = "named" => u # t /\ pc[u] = "named" /\ at'[u] = at[u]
        BY <2>5 DEF Rest, Goto
    <3> QED
        BY <3>1, <3>2, <2>5 DEF Rest, Goto, mainVars
  <2>2. CASE Take(t)
      BY <2>2 DEF Take, Goto, mainVars
  <2>3. CASE Pass(t)
    <3>1. at' \in [Thread -> Nat \X Nat]
        BY <2>3 DEF Pass, Moved
    <3>2. \A u \in Thread : pc'[u] = "named" => u # t /\ pc[u] = "named" /\ at'[u] = at[u]
        BY <2>3 DEF Pass, Moved, Goto
    <3> QED
        BY <3>1, <3>2, <2>3 DEF Pass, Goto, mainVars
  <2>4. CASE CountDown(t)
      BY <2>4 DEF CountDown, Goto, mainVars
  <2> QED
      BY <1>1, <2>1, <2>2, <2>3, <2>4, <2>5 DEF ThreadStep
<1>2. CASE MainStep
  <2>1. CASE ResetGrid
      BY <2>1 DEF ResetGrid, MainGoto
  <2>2. CASE Clear
      BY <2>2 DEF Clear, MainGoto
  <2>3. CASE Notify
    <3>1. started \in Thread /\ started + 1 \in 0..thread_nb
        BY <2>3 DEF Notify, MainGoto, Thread
    <3> QED
        BY <3>1, <2>3 DEF Notify, MainGoto
  <2>4. CASE Await \/ Finish
      BY <2>4 DEF Await, Finish, MainGoto
  <2> QED
      BY <1>2, <2>1, <2>2, <2>3, <2>4 DEF MainStep
<1>3. CASE Over \/ UNCHANGED vars
    BY <1>3 DEF Over, vars, threadVars, mainVars
<1> QED
    BY <1>1, <1>2, <1>3 DEF Next

(* When the latch is open everybody has a name. *)
LEMMA AllNamed ==
    ASSUME Types, NEW D \in SUBSET Thread, RoundOK(D), latch = 0
    PROVE  D = Thread
<1>1. Cardinality(D) \in 0..thread_nb /\ (Cardinality(D) = thread_nb => D = Thread)
    BY Counting
<1>2. thread_nb - Cardinality(D) = 0
    BY DEF RoundOK, LatchOK
<1> QED
    BY <1>1, <1>2, SplitterAssumption

(* A step of a thread that neither takes nor counts. *)
LEMMA QuietStep ==
    ASSUME Types, NEW D \in SUBSET Thread, RoundOK(D), NEW t \in Thread,
           Test(t) \/ Wait(t) \/ WakeUp(t) \/ Rest(t) \/ Interrupted(t) \/ Pass(t)
    PROVE  RoundOK(D)'
<1> USE SplitterAssumption DEF Types, Resting
<1>1. /\ UNCHANGED <<lockGrid, id, latch, round, main, started>>
      /\ \A u \in Thread : u # t => pc'[u] = pc[u] /\ at'[u] = at[u] /\ waiting'[u] = waiting[u]
      /\ pc[t] # "named" /\ pc'[t] # "named"
      /\ pc'[t] \in Resting \cup {"walk", "rest"}
    BY DEF Test, Wait, WakeUp, Rest, Interrupted, Pass, Moved, Goto, mainVars
<1>2. Cleared(t)' <=> Cleared(t)
    BY <1>1 DEF Cleared
<1>3. \A u \in Thread : Cleared(u)' <=> Cleared(u)
    BY <1>1 DEF Cleared
<1>4. t \in D => pc'[t] = "rest" \/ (pc'[t] \in Resting /\ waiting'[t])
    BY DEF RoundOK, StartOK, Test, Wait, WakeUp, Rest, Interrupted, Pass, Goto
<1>5. pc'[t] = "walk" \/ (pc'[t] \in Resting /\ ~waiting'[t]) => Cleared(t)
    BY DEF RoundOK, StartOK, Test, Wait, WakeUp, Rest, Interrupted, Pass, Goto
<1>6. LatchOK(D)'
    BY <1>1 DEF RoundOK, LatchOK
<1>7. FlagsOK(D)'
  <2>1. \A u \in Thread : pc'[u] = "named" => u # t /\ pc[u] = "named" /\ at'[u] = at[u]
      BY <1>1
  <2> QED
      BY <1>1, <2>1 DEF RoundOK, FlagsOK
<1>8. StartOK(D)'
    BY <1>1, <1>3, <1>4, <1>5 DEF RoundOK, StartOK
<1> QED
    BY <1>6, <1>7, <1>8 DEF RoundOK

(* A thread that walks, or has its flag, was cleared and has no name yet. *)
LEMMA Unnamed ==
    ASSUME Types, NEW D \in SUBSET Thread, RoundOK(D), NEW t \in Thread,
           pc[t] \in {"walk", "named"}
    PROVE  t \notin D /\ Cleared(t) /\ main \in {"start", "notify"}
<1>1. StartOK(D)
    BY DEF RoundOK
<1>2. Cleared(t)
    BY <1>1 DEF StartOK
<1>3. t \notin D
    BY <1>1 DEF StartOK, Resting
<1> QED
    BY <1>2, <1>3 DEF Cleared

LEMMA TakeStep ==
    ASSUME Types, NEW D \in SUBSET Thread, RoundOK(D), NEW t \in Thread, Take(t)
    PROVE  RoundOK(D)'
<1>0. pc[t] = "walk" /\ pc' = [pc EXCEPT ![t] = "named"] /\ pc \in [Thread -> Resting \cup {"walk", "named", "rest"}]
    BY DEF Take, Goto, Types
<1>1. t \notin D /\ Cleared(t)
    BY <1>0, Unnamed
<1>2. \A u \in Thread : Cleared(u)' <=> Cleared(u)
    BY DEF Cleared, Take, Goto, mainVars
<1>3. \A u \in Thread : pc'[u] = IF u = t THEN "named" ELSE pc[u]
    BY <1>0
<1>4. at[t] \notin lockGrid /\ lockGrid' = lockGrid \cup {at[t]}
      /\ UNCHANGED <<id, latch, waiting, at, main, started>>
    BY DEF Take, Goto, mainVars
<1>5. \A u \in Thread : pc[u] = "named" => at[u] # at[t]
    BY <1>4 DEF RoundOK, FlagsOK
<1>6. LatchOK(D)'
    BY <1>4 DEF RoundOK, LatchOK
<1>7. FlagsOK(D)'
    BY <1>3, <1>4, <1>5 DEF RoundOK, FlagsOK
<1>8. StartOK(D)'
    BY <1>1, <1>2, <1>3, <1>4 DEF RoundOK, StartOK
<1> QED
    BY <1>6, <1>7, <1>8 DEF RoundOK

LEMMA CountStep ==
    ASSUME Types, NEW D \in SUBSET Thread, RoundOK(D), NEW t \in Thread, CountDown(t)
    PROVE  RoundOK(D \cup {t})'
<1> DEFINE E == D \cup {t}
<1>0. pc[t] = "named" /\ pc' = [pc EXCEPT ![t] = "rest"] /\ id' = [id EXCEPT ![t] = at[t]]
      /\ UNCHANGED <<lockGrid, waiting, at, main, started>>
    BY DEF CountDown, Goto, mainVars
<1>1. t \notin D /\ Cleared(t) /\ main \in {"start", "notify"}
    BY <1>0, Unnamed
<1>2. Cardinality(E) = Cardinality(D) + 1
    BY <1>1, Counting, FS_AddElement
<1>3. Cardinality(D) \in 0..thread_nb /\ Cardinality(E) \in 0..thread_nb
    BY Counting
<1>4. latch' = thread_nb - Cardinality(E)
    BY <1>2, <1>3, SplitterAssumption DEF RoundOK, LatchOK, CountDown
<1>5. \A u \in Thread : Cleared(u)' <=> Cleared(u)
    BY <1>0 DEF Cleared
<1>6. /\ \A u \in Thread : pc'[u] = IF u = t THEN "rest" ELSE pc[u]
      /\ \A u \in Thread : id'[u] = IF u = t THEN at[t] ELSE id[u]
    BY <1>0 DEF Types
<1>7. LatchOK(E)'
    BY <1>0, <1>1, <1>4 DEF LatchOK
<1>8. FlagsOK(E)'
    BY <1>0, <1>1, <1>6 DEF RoundOK, FlagsOK
<1>9. StartOK(E)'
  <2>1. \A u \in E : main' \in {"start", "notify"} => Cleared(u)'
      BY <1>0, <1>1, <1>5 DEF RoundOK, StartOK
  <2>2. \A u \in E : pc'[u] = "rest" \/ (pc'[u] \in Resting /\ waiting'[u])
      BY <1>0, <1>6 DEF RoundOK, StartOK
  <2>3. \A u \in Thread :
           pc'[u] \in {"walk", "named"} \/ (pc'[u] \in Resting /\ ~waiting'[u]) => Cleared(u)'
      BY <1>0, <1>1, <1>5, <1>6 DEF RoundOK, StartOK
  <2> QED
      BY <2>1, <2>2, <2>3 DEF StartOK
<1> QED
    BY <1>7, <1>8, <1>9 DEF RoundOK

(* A round begins when everybody has a name, or at the start: nobody has one in it. *)
LEMMA ResetStep ==
    ASSUME Types, NotBegun \/ \E D \in SUBSET Thread : RoundOK(D), ResetGrid
    PROVE  RoundOK({})'
<1>1. main = "reset" /\ main' = "start" /\ started' = 0 /\ lockGrid' = {} /\ latch' = thread_nb
      /\ UNCHANGED <<pc, waiting>>
    BY DEF ResetGrid, MainGoto
<1>2. \A t \in Thread : pc[t] = "rest" \/ (pc[t] \in Resting /\ waiting[t])
  <2>1. CASE NotBegun
      BY <2>1 DEF NotBegun
  <2>2. ASSUME NEW D \in SUBSET Thread, RoundOK(D)
        PROVE  \A t \in Thread : pc[t] = "rest" \/ (pc[t] \in Resting /\ waiting[t])
    <3>1. latch = 0
        BY <1>1, <2>2 DEF RoundOK, LatchOK
    <3>2. D = Thread
        BY <2>2, <3>1, AllNamed
    <3> QED
        BY <2>2, <3>2 DEF RoundOK, StartOK
  <2> QED
      BY <2>1, <2>2
<1>3. \A t \in Thread : ~(pc'[t] \in {"walk", "named"} \/ (pc'[t] \in Resting /\ ~waiting'[t]))
    BY <1>1, <1>2 DEF Resting
<1>4. LatchOK({})'
    BY <1>1, FS_EmptySet, SplitterAssumption DEF LatchOK
<1>5. FlagsOK({})'
    BY <1>1, <1>3 DEF FlagsOK
<1>6. StartOK({})'
    BY <1>3 DEF StartOK
<1> QED
    BY <1>4, <1>5, <1>6 DEF RoundOK

LEMMA MainKeeps ==
    ASSUME Types, NEW D \in SUBSET Thread, RoundOK(D), Clear \/ Notify \/ Await \/ Finish
    PROVE  RoundOK(D)'
<1>1. UNCHANGED <<lockGrid, latch, id, at>>
    BY DEF Clear, Notify, Await, Finish, MainGoto
<1>2. \A t \in Thread : pc'[t] = pc[t] \/ (pc[t] = "asleep" /\ pc'[t] = "test")
    BY DEF Clear, Notify, Await, Finish, MainGoto, Types
<1>3. FlagsOK(D)'
  <2>1. \A t \in Thread : pc'[t] = "named" <=> pc[t] = "named"
      BY <1>2
  <2> QED
      BY <1>1, <2>1 DEF RoundOK, FlagsOK
<1>4. LatchOK(D)'
    BY <1>1 DEF RoundOK, LatchOK, Clear, Notify, Await, Finish, MainGoto
<1>5. CASE Clear
  <2>1. main = "start" /\ main' = "notify" /\ started \in Thread
        /\ waiting' = [waiting EXCEPT ![started] = FALSE] /\ UNCHANGED <<pc, started>>
      BY <1>5, SplitterAssumption DEF Clear, MainGoto, Types, Thread
  <2>2. \A t \in Thread : Cleared(t)' <=> Cleared(t) \/ t = started
      BY <2>1, SplitterAssumption DEF Cleared, Thread
  <2>3. started \notin D
      BY <2>1, SplitterAssumption DEF RoundOK, StartOK, Cleared, Thread
  <2>4. \A t \in Thread : t # started => waiting'[t] = waiting[t]
      BY <2>1 DEF Types
  <2>5. StartOK(D)'
      BY <2>1, <2>2, <2>3, <2>4 DEF RoundOK, StartOK
  <2> QED
      BY <1>3, <1>4, <2>5 DEF RoundOK
<1>6. CASE Notify
  <2>1. main = "notify" /\ main' = "start" /\ started' = started + 1 /\ UNCHANGED waiting
      BY <1>6 DEF Notify, MainGoto
  <2>2. \A t \in Thread : Cleared(t)' <=> Cleared(t)
      BY <2>1, SplitterAssumption DEF Cleared, Thread, Types
  <2>5. StartOK(D)'
      BY <1>2, <2>1, <2>2 DEF RoundOK, StartOK, Resting
  <2> QED
      BY <1>3, <1>4, <2>5 DEF RoundOK
<1>7. CASE Await \/ Finish
  <2>1. latch = 0 /\ UNCHANGED <<pc, waiting>> /\ main' \in {"reset", "over"}
      BY <1>7 DEF Await, Finish, MainGoto, RoundOK, LatchOK
  <2>2. D = Thread
      BY <2>1, AllNamed
  <2>3. \A t \in Thread : pc[t] = "rest" \/ (pc[t] \in Resting /\ waiting[t])
      BY <2>2 DEF RoundOK, StartOK
  <2>4. \A t \in Thread : ~(pc[t] \in {"walk", "named"} \/ (pc[t] \in Resting /\ ~waiting[t]))
      BY <2>3 DEF Resting
  <2>5. StartOK(D)'
      BY <2>1, <2>3, <2>4 DEF StartOK
  <2> QED
      BY <1>3, <1>4, <2>5 DEF RoundOK
<1> QED
    BY <1>5, <1>6, <1>7

(* Before the first round the threads only go to sleep. *)
LEMMA NotBegunStep ==
    ASSUME Types, NotBegun, Next, ~ResetGrid
    PROVE  NotBegun'
<1> USE DEF NotBegun, Types, Resting
<1>1. ASSUME NEW t \in Thread, ThreadStep(t) \/ WakeUp(t) PROVE NotBegun'
  <2>1. Test(t) \/ Wait(t) \/ WakeUp(t) \/ Interrupted(t)
      BY <1>1 DEF ThreadStep, Take, Pass, CountDown, Rest, Goto
  <2> QED
      BY <2>1 DEF Test, Wait, WakeUp, Interrupted, Goto, mainVars
<1>2. CASE MainStep
    BY <1>2 DEF MainStep, Clear, Notify, Await, Finish, MainGoto
<1>3. CASE Over
    BY <1>3 DEF Over, vars, threadVars, mainVars
<1> QED
    BY <1>1, <1>2, <1>3 DEF Next

LEMMA NextNames == NameInv /\ [Next]_vars => NameInv'
<1> SUFFICES ASSUME NameInv, [Next]_vars PROVE NameInv'
    OBVIOUS
<1>1. Types /\ Types'
    BY NextTypes DEF NameInv
<1> SUFFICES NotBegun' \/ \E D \in SUBSET Thread : RoundOK(D)'
    BY <1>1 DEF NameInv
<1>2. CASE UNCHANGED vars
    BY <1>2 DEF NameInv, NotBegun, RoundOK, LatchOK, FlagsOK, StartOK, Cleared, vars, threadVars, mainVars
<1>3. CASE ResetGrid
    BY <1>1, <1>3, ResetStep DEF NameInv
<1>4. CASE Next /\ ~ResetGrid /\ NotBegun
    BY <1>1, <1>4, NotBegunStep
<1>5. ASSUME Next, ~ResetGrid, NEW D \in SUBSET Thread, RoundOK(D)
      PROVE  \E E \in SUBSET Thread : RoundOK(E)'
  <2>1. ASSUME NEW t \in Thread, ThreadStep(t) \/ WakeUp(t)
        PROVE  \E E \in SUBSET Thread : RoundOK(E)'
    <3>1. CASE Take(t)
        BY <1>1, <1>5, <3>1, TakeStep
    <3>2. CASE CountDown(t)
      <4>1. RoundOK(D \cup {t})'
          BY <1>1, <1>5, <3>2, CountStep
      <4>2. D \cup {t} \in SUBSET Thread
          OBVIOUS
      <4> QED
          BY <4>1, <4>2
    <3> QED
        BY <1>1, <1>5, <2>1, <3>1, <3>2, QuietStep DEF ThreadStep
  <2>2. CASE MainStep
      BY <1>1, <1>5, <2>2, MainKeeps DEF MainStep
  <2>3. CASE Over
      BY <1>2, <1>5, <2>3 DEF Over, RoundOK, LatchOK, FlagsOK, StartOK, Cleared, vars, threadVars, mainVars
  <2> QED
      BY <1>5, <2>1, <2>2, <2>3 DEF Next
<1> QED
    BY <1>1, <1>2, <1>3, <1>4, <1>5 DEF NameInv

LEMMA NamesInvariant == NameInv => UniqueNames
<1> SUFFICES ASSUME NameInv, latch = 0, round + started > 0
             PROVE  IsInjective(id) /\ \A t \in Thread : id[t] \in Cell
    BY DEF UniqueNames
<1>1. PICK D \in SUBSET Thread : RoundOK(D)
    BY DEF NameInv, NotBegun
<1>2. D = Thread
    BY <1>1, AllNamed DEF NameInv
<1>3. id \in [Thread -> Cell \cup {NoName}] /\ lockGrid \subseteq Cell
    BY DEF NameInv, Types
<1> QED
    BY <1>1, <1>2, <1>3 DEF RoundOK, FlagsOK, IsInjective

(* Whatever the number of threads and of rounds, and whichever way the scheduler
   and the spurious wake-ups interleave them, at the end of a round every thread
   has a name of the grid and no two have the same. *)
THEOREM NamesUnique == Spec => []UniqueNames
<1>1. Init => NameInv
    BY InitNames
<1>2. NameInv /\ [Next]_vars => NameInv'
    BY NextNames
<1>3. NameInv => UniqueNames
    BY NamesInvariant
<1> QED
    BY <1>1, <1>2, <1>3, PTL DEF Spec
---------------------------------------------------------------------------------

(* A set of numbers that is not empty has a smallest. *)
LEMMA Smallest == ASSUME NEW T, T \subseteq Nat, T # {} PROVE \E m \in T : \A k \in T : m <= k
<1> DEFINE R == {ss \in Nat \X Nat : ss[1] < ss[2]}
<1>1. IsWellFoundedOn(R, Nat)
    BY NatLessThanWellFounded DEF OpToRel
<1>2. PICK x \in T : \A y \in T : ~(<<y, x>> \in R)
    BY <1>1, WFMin
<1>3. ASSUME NEW y \in T PROVE x <= y
  <2>1. <<y, x>> \notin R /\ x \in Nat /\ y \in Nat
    BY <1>2
  <2>2. <<y, x>> \in Nat \X Nat /\ <<y,x>>[1] = y /\ <<y,x>>[2] = x
    BY <2>1
  <2>3. ~(y < x)
    BY <2>1, <2>2, Zenon
  <2> QED BY <2>1, <2>3
<1> QED BY <1>3

(* Induction, for a set. *)
LEMMA Induction ==
    ASSUME NEW S, 0 \in S, \A n \in Nat : n \in S => n + 1 \in S
    PROVE  Nat \subseteq S
<1> SUFFICES ASSUME Nat \ S # {} PROVE FALSE
    OBVIOUS
<1>1. PICK m \in Nat \ S : \A k \in Nat \ S : m <= k
    BY Smallest
<1>2. m # 0 /\ m - 1 \in Nat
    BY <1>1
<1>3. m - 1 \in S
    BY <1>1, <1>2
<1> QED BY <1>1, <1>2, <1>3

(* Sums over functions, with an element of each set that CHOOSE picks *)
Total(f) == FoldFunction(+, 0, f)
Pick(s) == CHOOSE x \in s : TRUE
Partial(f, g, s) == IF s = {} THEN 0 ELSE f[Pick(s)] + g[s \ {Pick(s)}]

Sums(S, f, g) ==
    /\ g \in [SUBSET S -> Nat] /\ Total(f) = g[S]
    /\ \A s \in SUBSET S : g[s] = Partial(f, g, s)

LEMMA NoneLeft == ASSUME NEW s, IsFiniteSet(s) PROVE Cardinality(s) \in Nat /\ (Cardinality(s) = 0 <=> s = {})
    BY FS_EmptySet, FS_CardinalityType

LEMMA PickOne ==
    ASSUME NEW s, IsFiniteSet(s), s # {}
    PROVE  /\ Pick(s) \in s /\ IsFiniteSet(s \ {Pick(s)})
           /\ Cardinality(s) \in Nat \ {0} /\ Cardinality(s \ {Pick(s)}) = Cardinality(s) - 1
<1>1. Pick(s) \in s
    BY DEF Pick
<1> QED
    BY <1>1, FS_RemoveElement, FS_CardinalityType, NoneLeft

(* The recursive definition of the fold is its equation. *)
LEMMA SumSteps ==
    ASSUME NEW S, IsFiniteSet(S), NEW f \in [S -> Nat]
    PROVE  \E g : Sums(S, f, g)
<1> DEFINE P(g) == g = [s \in SUBSET S |-> Partial(f, g, s)]
           Q(g, n) == \A s \in SUBSET S : Cardinality(s) <= n => g[s] = Partial(f, g, s)
           T == {n \in Nat : \E g \in [SUBSET S -> Nat] : Q(g, n)}
<1>1. \A s \in SUBSET S : IsFiniteSet(s) /\ Cardinality(s) \in Nat /\ Cardinality(s) <= Cardinality(S)
    BY FS_Subset, FS_CardinalityType
<1>2. \A s \in SUBSET S : s # {} => /\ Pick(s) \in S /\ s \ {Pick(s)} \in SUBSET S
                                    /\ Cardinality(s \ {Pick(s)}) = Cardinality(s) - 1
    BY <1>1, PickOne
<1>3. 0 \in T
  <2> DEFINE g == [s \in SUBSET S |-> 0]
  <2>1. \A s \in SUBSET S : Cardinality(s) <= 0 => s = {}
      BY <1>1, NoneLeft
  <2>2. Q(g, 0)
      BY <2>1 DEF Partial
  <2> QED
      BY <2>2
<1>4. ASSUME NEW n \in Nat, n \in T PROVE n + 1 \in T
  <2>1. PICK g \in [SUBSET S -> Nat] : Q(g, n)
      BY <1>4
  <2> DEFINE G == [s \in SUBSET S |-> IF Cardinality(s) <= n THEN g[s] ELSE Partial(f, g, s)]
  <2>2. ASSUME NEW s \in SUBSET S PROVE Partial(f, g, s) \in Nat
    <3>1. CASE s = {}
        BY <3>1 DEF Partial
    <3>2. CASE s # {}
      <4>1. f[Pick(s)] \in Nat /\ g[s \ {Pick(s)}] \in Nat
          BY <1>2, <3>2
      <4> QED
          BY <3>2, <4>1 DEF Partial
    <3> QED
        BY <3>1, <3>2
  <2>3. G \in [SUBSET S -> Nat]
      BY <2>2
  <2>4. ASSUME NEW s \in SUBSET S, Cardinality(s) <= n + 1 PROVE G[s] = Partial(f, G, s)
    <3>1. Partial(f, G, s) = Partial(f, g, s)
      <4>1. CASE s = {}
          BY <4>1 DEF Partial
      <4>2. CASE s # {}
        <5>1. s \ {Pick(s)} \in SUBSET S /\ Cardinality(s \ {Pick(s)}) <= n
            BY <1>1, <1>2, <2>4, <4>2
        <5>2. G[s \ {Pick(s)}] = g[s \ {Pick(s)}]
            BY <5>1
        <5> HIDE DEF G
        <5> QED
            BY <4>2, <5>2 DEF Partial
      <4> QED
          BY <4>1, <4>2
    <3>2. G[s] = Partial(f, g, s)
        BY <2>1
    <3> QED
        BY <3>1, <3>2
  <2>5. Q(G, n + 1)
      BY <2>4
  <2> HIDE DEF G, Q
  <2> QED
      BY <2>3, <2>5
<1>5. \E g \in [SUBSET S -> Nat] : Q(g, Cardinality(S))
  <2>1. Nat \subseteq T
    <3> HIDE DEF T
    <3> QED
        BY <1>3, <1>4, Induction
  <2>2. Cardinality(S) \in T
      BY <2>1, FS_CardinalityType
  <2> QED
      BY <2>2
<1>6. PICK g \in [SUBSET S -> Nat] : Q(g, Cardinality(S))
    BY <1>5
<1>7. P(g)
  <2>1. \A s \in SUBSET S : g[s] = Partial(f, g, s)
      BY <1>1, <1>6
  <2> QED
      BY <2>1
<1> DEFINE iter == CHOOSE h : P(h)
<1>8. P(iter)
    BY <1>7
<1>9. Total(f) = iter[S]
  <2>1. DOMAIN f = S
      OBVIOUS
  <2> QED
      BY <2>1 DEF Total, FoldFunction, FoldFunctionOnSet, MapThenFoldSet, Partial, Pick
<1>10. iter = g
  <2> DEFINE E == {n \in Nat : \A s \in SUBSET S : Cardinality(s) = n => iter[s] = g[s]}
  <2> HIDE DEF iter
  <2>1. \A s \in SUBSET S : iter[s] = Partial(f, iter, s) /\ g[s] = Partial(f, g, s)
      BY <1>7, <1>8
  <2>2. 0 \in E
    <3>1. \A s \in SUBSET S : Cardinality(s) = 0 => s = {}
        BY <1>1, NoneLeft
    <3> QED
        BY <2>1, <3>1 DEF Partial
  <2>3. ASSUME NEW n \in Nat, n \in E PROVE n + 1 \in E
    <3>1. ASSUME NEW s \in SUBSET S, Cardinality(s) = n + 1 PROVE iter[s] = g[s]
      <4>1. s # {}
          BY <2>3, <3>1, <1>1, NoneLeft
      <4>2. s \ {Pick(s)} \in SUBSET S /\ Cardinality(s \ {Pick(s)}) = n
          BY <1>2, <3>1, <4>1
      <4>3. iter[s \ {Pick(s)}] = g[s \ {Pick(s)}]
          BY <2>3, <4>2
      <4> QED
          BY <2>1, <4>1, <4>3 DEF Partial
    <3> QED
        BY <3>1
  <2>4. Nat \subseteq E
    <3> HIDE DEF E
    <3> QED
        BY <2>2, <2>3, Induction
  <2>5. \A s \in SUBSET S : iter[s] = g[s]
      BY <1>1, <2>4
  <2>6. iter = [s \in SUBSET S |-> iter[s]] /\ g = [s \in SUBSET S |-> g[s]]
      BY <1>7, <1>8
  <2> QED
      BY <2>5, <2>6
<1> HIDE DEF iter, P, Q
<1> QED
    BY <1>6, <1>9, <1>10, <1>7 DEF P, Sums

LEMMA SumOfZeros ==
    ASSUME NEW S, IsFiniteSet(S)
    PROVE  Total([c \in S |-> 0]) = 0
<1> DEFINE f == [c \in S |-> 0]
<1>1. PICK g : Sums(S, f, g)
  <2>1. f \in [S -> Nat]
      OBVIOUS
  <2> HIDE DEF f
  <2> QED
      BY <2>1, SumSteps
<1> DEFINE T == {n \in Nat : \A s \in SUBSET S : Cardinality(s) = n => g[s] = 0}
<1>2. \A s \in SUBSET S : IsFiniteSet(s) /\ Cardinality(s) \in Nat
    BY FS_Subset, FS_CardinalityType
<1>3. 0 \in T
  <2>1. \A s \in SUBSET S : Cardinality(s) = 0 => s = {}
      BY <1>2, NoneLeft
  <2> QED
      BY <1>1, <2>1 DEF Sums, Partial
<1>4. ASSUME NEW n \in Nat, n \in T PROVE n + 1 \in T
  <2>1. ASSUME NEW s \in SUBSET S, Cardinality(s) = n + 1 PROVE g[s] = 0
    <3>1. s # {}
        BY <1>2, <1>4, <2>1, NoneLeft
    <3>2. Pick(s) \in S /\ s \ {Pick(s)} \in SUBSET S /\ Cardinality(s \ {Pick(s)}) = n
        BY <1>2, <2>1, <3>1, PickOne
    <3>3. g[s \ {Pick(s)}] = 0 /\ f[Pick(s)] = 0
        BY <1>4, <3>2
    <3>4. g[s] = f[Pick(s)] + g[s \ {Pick(s)}]
        BY <1>1, <3>1 DEF Sums, Partial
    <3> QED
        BY <3>3, <3>4
  <2> QED
      BY <2>1
<1>5. Nat \subseteq T
  <2> HIDE DEF T
  <2> QED
      BY <1>3, <1>4, Induction
<1>6. Cardinality(S) \in Nat
    BY FS_CardinalityType
<1> QED
    BY <1>1, <1>5, <1>6 DEF Sums

(* Where one of the numbers grows, the sum grows with it. *)
LEMMA SumOneMore ==
    ASSUME NEW S, IsFiniteSet(S), NEW f \in [S -> Nat], NEW c \in S
    PROVE  /\ Total(f) \in Nat
           /\ Total([f EXCEPT ![c] = @ + 1]) = Total(f) + 1
<1> DEFINE h == [f EXCEPT ![c] = @ + 1]
<1>1. h \in [S -> Nat] /\ h[c] = f[c] + 1 /\ \A d \in S : d # c => h[d] = f[d]
    OBVIOUS
<1>2. PICK g : Sums(S, f, g)
    BY SumSteps
<1> HIDE DEF h
<1>3. PICK k : Sums(S, h, k)
    BY <1>1, SumSteps
<1> DEFINE T == {n \in Nat : \A s \in SUBSET S : Cardinality(s) = n =>
                                k[s] = g[s] + IF c \in s THEN 1 ELSE 0}
<1>4. \A s \in SUBSET S : IsFiniteSet(s) /\ Cardinality(s) \in Nat /\ g[s] \in Nat
    BY <1>2, FS_Subset, FS_CardinalityType DEF Sums
<1>5. 0 \in T
  <2>1. \A s \in SUBSET S : Cardinality(s) = 0 => s = {}
      BY <1>4, NoneLeft
  <2>2. {} \in SUBSET S /\ c \notin {}
      OBVIOUS
  <2>3. k[{}] = 0 /\ g[{}] = 0
      BY <1>2, <1>3, <2>2 DEF Sums, Partial
  <2> QED
      BY <2>1, <2>2, <2>3
<1>6. ASSUME NEW n \in Nat, n \in T PROVE n + 1 \in T
  <2>1. ASSUME NEW s \in SUBSET S, Cardinality(s) = n + 1
        PROVE  k[s] = g[s] + IF c \in s THEN 1 ELSE 0
    <3> DEFINE p == Pick(s)
               r == s \ {p}
    <3>1. s # {}
        BY <1>4, <1>6, <2>1, NoneLeft
    <3>2. p \in s /\ p \in S /\ r \in SUBSET S /\ Cardinality(r) = n
        BY <1>4, <2>1, <3>1, PickOne
    <3>3. k[r] = g[r] + IF c \in r THEN 1 ELSE 0
        BY <1>6, <3>2
    <3>4. g[s] = f[p] + g[r] /\ k[s] = h[p] + k[r]
        BY <1>2, <1>3, <3>1 DEF Sums, Partial
    <3>5. f[p] \in Nat /\ g[r] \in Nat
        BY <1>4, <3>2
    <3>6. CASE p = c
      <4>1. c \notin r /\ c \in s /\ h[p] = f[p] + 1
          BY <1>1, <3>2, <3>6
      <4> HIDE DEF p, r
      <4> QED
          BY <3>3, <3>4, <3>5, <4>1
    <3>7. CASE p # c
      <4>1. (c \in r <=> c \in s) /\ h[p] = f[p]
          BY <1>1, <3>2, <3>7
      <4> HIDE DEF p, r
      <4> QED
          BY <3>3, <3>4, <3>5, <4>1
    <3> QED
        BY <3>6, <3>7
  <2> QED
      BY <2>1
<1>7. Nat \subseteq T
  <2> HIDE DEF T
  <2> QED
      BY <1>5, <1>6, Induction
<1>8. Cardinality(S) \in Nat
    BY FS_CardinalityType
<1>9. k[S] = g[S] + 1
    BY <1>7, <1>8
<1> QED
    BY <1>2, <1>3, <1>4, <1>9 DEF h, Sums

---------------------------------------------------------------------------------

(* How deep a thread is in the grid *)
Depth(c) == c[1] + c[2]

(* A walk begins in the corner, and behind a thread that walks there is a flag on every
   diagonal, since it went on only from flags that were set. *)
Walks ==
    /\ at \in [Thread -> Cell]
    /\ \A t \in Thread : pc[t] \in Resting => at[t] = <<0, 0>>
    /\ \A t \in Thread : pc[t] = "walk" =>
          \A d \in Nat : d < Depth(at[t]) => \E c \in lockGrid : Depth(c) = d

LEMMA Cells == /\ <<0, 0>> \in Cell /\ Depth(<<0, 0>>) = 0
               /\ \A c \in Cell : Depth(c) \in 0..(thread_nb - 1)
<1>1. thread_nb \in Nat /\ thread_nb >= 1
    BY SplitterAssumption
<1>2. <<0, 0>> \in Cell /\ Depth(<<0, 0>>) = 0
    BY <1>1 DEF Cell, Thread, Depth
<1>3. \A c \in Cell : Depth(c) \in 0..(thread_nb - 1)
    BY <1>1 DEF Cell, Thread, Depth
<1> QED
    BY <1>2, <1>3

(* Each flag has a thread of its own that set it, and a thread that walks has set none: so
   there are more threads than diagonals behind it, also when it finds the next flag set. *)
LEMMA RoomToWalk ==
    ASSUME Types, Walks, NEW D \in SUBSET Thread, RoundOK(D), NEW t \in Thread,
           pc[t] = "walk", at[t] \in lockGrid
    PROVE  Depth(at[t]) + 1 < thread_nb
<1> DEFINE e == Depth(at[t])
           flag(u) == IF pc[u] = "named" THEN at[u] ELSE id[u]
           holder == [d \in 0..e |-> CHOOSE u \in Thread \ {t} : Depth(flag(u)) = d]
<1>1. e \in Nat /\ thread_nb \in Nat
    BY Cells, SplitterAssumption DEF Walks
<1>2. t \notin D
    BY Unnamed
<1>3. \A u \in D : pc[u] # "named"
    BY DEF RoundOK, StartOK, Resting
<1>4. ASSUME NEW d \in 0..e PROVE \E u \in Thread \ {t} : Depth(flag(u)) = d
  <2>1. PICK c \in lockGrid : Depth(c) = d
    <3>1. CASE d = e
        BY <3>1
    <3>2. CASE d # e
      <4>1. d \in Nat /\ d < e
          BY <1>1, <3>2
      <4> QED
          BY <4>1 DEF Walks
    <3> QED
        BY <3>1, <3>2
  <2>2. CASE \E u \in D : id[u] = c
    <3>1. PICK u \in D : id[u] = c
        BY <2>2
    <3>2. u \in Thread \ {t} /\ flag(u) = c
        BY <1>2, <1>3, <3>1
    <3> QED
        BY <2>1, <3>2
  <2>3. CASE \E u \in Thread : pc[u] = "named" /\ at[u] = c
    <3>1. PICK u \in Thread : pc[u] = "named" /\ at[u] = c
        BY <2>3
    <3>2. u \in Thread \ {t} /\ flag(u) = c
        BY <3>1
    <3> QED
        BY <2>1, <3>2
  <2> QED
      BY <2>2, <2>3 DEF RoundOK, FlagsOK
<1> HIDE DEF flag
<1>5. \A d \in 0..e : holder[d] \in Thread \ {t} /\ Depth(flag(holder[d])) = d
    BY <1>4
<1>6. holder \in [0..e -> Thread \ {t}]
    BY <1>5
<1> HIDE DEF holder
<1>7. IsFiniteSet(0..e) /\ Cardinality(0..e) = e + 1
  <2> HIDE DEF e
  <2> QED
      BY <1>1, FS_Interval
<1>8. IsFiniteSet(Thread) /\ Cardinality(Thread) = thread_nb
    BY FS_Interval, SplitterAssumption DEF Thread
<1>9. IsFiniteSet(Thread \ {t}) /\ Cardinality(Thread \ {t}) = thread_nb - 1
    BY <1>8, FS_RemoveElement
<1>10. ASSUME thread_nb - 1 < e + 1 PROVE FALSE
  <2>1. PICK x \in 0..e, y \in 0..e : x # y /\ holder[x] = holder[y]
    <3> DEFINE S == 0..e
               T == Thread \ {t}
    <3>1. Cardinality(T) < Cardinality(S)
        BY <1>7, <1>9, <1>10
    <3>2. IsFiniteSet(S) /\ IsFiniteSet(T) /\ holder \in [S -> T]
        BY <1>6, <1>7, <1>9
    <3>3. \E x, y \in S : x # y /\ holder[x] = holder[y]
      <4> HIDE DEF S, T
      <4> QED
          BY <3>1, <3>2, FS_PigeonHole
    <3> QED
        BY <3>3
  <2> QED
      BY <1>5, <2>1
<1> QED
    BY <1>1, <1>10

LEMMA InitWalks == Init => Walks
    BY Cells DEF Init, Walks, Resting

LEMMA NextWalks ==
    ASSUME NameInv, Walks, [Next]_vars
    PROVE  Walks'
<1>1. Types
    BY DEF NameInv
<1>2. ASSUME NEW t \in Thread, ThreadStep(t) \/ WakeUp(t) PROVE Walks'
  <2>1. \A u \in Thread : u # t => pc'[u] = pc[u] /\ at'[u] = at[u]
      BY <1>1, <1>2 DEF ThreadStep, Test, Wait, WakeUp, Take, Pass, Moved, CountDown, Rest, Interrupted, Goto, Types
  <2>2. lockGrid \subseteq lockGrid'
      BY <1>2 DEF ThreadStep, Test, Wait, WakeUp, Take, Pass, CountDown, Rest, Interrupted, Goto
  <2>3. CASE Test(t) \/ Wait(t) \/ WakeUp(t) \/ Interrupted(t)
    <3>1. at' = at /\ lockGrid' = lockGrid /\ pc[t] \in Resting /\ pc'[t] \in Resting \cup {"walk"}
        BY <1>1, <2>3 DEF Test, Wait, WakeUp, Interrupted, Goto, Resting, Types
    <3>2. at[t] = <<0, 0>> /\ Depth(at[t]) = 0
        BY <3>1, Cells DEF Walks
    <3>3. pc'[t] = "walk" => \A d \in Nat : d < Depth(at'[t]) => \E c \in lockGrid' : Depth(c) = d
        BY <3>1, <3>2
    <3> QED
        BY <2>1, <3>1, <3>2, <3>3 DEF Walks
  <2>4. CASE Take(t) \/ CountDown(t)
    <3>1. at' = at /\ pc'[t] \in {"named", "rest"}
        BY <1>1, <2>4 DEF Take, CountDown, Goto, Types
    <3> QED
        BY <2>1, <2>2, <3>1 DEF Walks, Resting
  <2>5. CASE Rest(t)
    <3>1. at' = [at EXCEPT ![t] = <<0, 0>>] /\ lockGrid' = lockGrid /\ pc'[t] = "test"
        BY <1>1, <2>5 DEF Rest, Goto, Types
    <3>2. at' \in [Thread -> Cell] /\ at'[t] = <<0, 0>>
        BY <3>1, Cells DEF Walks
    <3> QED
        BY <2>1, <3>1, <3>2 DEF Walks
  <2>6. CASE Pass(t)
    <3>1. pc[t] = "walk" /\ pc'[t] = "walk" /\ at[t] \in lockGrid /\ lockGrid' = lockGrid
        BY <1>1, <2>6 DEF Pass, Goto, Types
    <3>2. PICK D \in SUBSET Thread : RoundOK(D)
        BY <3>1 DEF NameInv, NotBegun, Resting
    <3>3. Depth(at[t]) + 1 < thread_nb
        BY <1>1, <3>1, <3>2, RoomToWalk
    <3>4. PICK c : at' = [at EXCEPT ![t] = c] /\ c \in Cell /\ Depth(c) = Depth(at[t]) + 1
      <4> DEFINE p == at[t]
      <4>1. p \in Thread \X Thread /\ p[1] \in Nat /\ p[2] \in Nat /\ p[1] + p[2] + 1 < thread_nb
          BY <3>3 DEF Walks, Cell, Thread, Depth
      <4>2. \/ at' = [at EXCEPT ![t] = <<p[1] + 1, p[2]>>]
            \/ at' = [at EXCEPT ![t] = <<p[1], p[2] + 1>>]
          BY <2>6 DEF Pass, Moved
      <4> HIDE DEF p
      <4>3. /\ <<p[1] + 1, p[2]>> \in Cell /\ Depth(<<p[1] + 1, p[2]>>) = p[1] + p[2] + 1
            /\ <<p[1], p[2] + 1>> \in Cell /\ Depth(<<p[1], p[2] + 1>>) = p[1] + p[2] + 1
          BY <4>1, SplitterAssumption DEF Cell, Thread, Depth
      <4> QED
          BY <4>2, <4>3 DEF p, Depth
    <3>5. at' \in [Thread -> Cell] /\ at'[t] = c
        BY <3>4 DEF Walks
    <3>6. ASSUME NEW d \in Nat, d < Depth(c) PROVE \E b \in lockGrid : Depth(b) = d
      <4>1. CASE d = Depth(at[t])
          BY <3>1, <4>1
      <4>2. CASE d < Depth(at[t])
          BY <3>1, <4>2 DEF Walks
      <4>3. Depth(at[t]) \in Nat
          BY Cells DEF Walks
      <4> QED
          BY <3>4, <3>6, <4>1, <4>2, <4>3
    <3> QED
        BY <2>1, <3>1, <3>5, <3>6 DEF Walks, Resting
  <2> QED
      BY <1>2, <2>3, <2>4, <2>5, <2>6 DEF ThreadStep
<1>3. CASE ResetGrid
  <2>1. \A t \in Thread : pc'[t] # "walk"
    <3>1. RoundOK({})'
        BY <1>1, <1>3, ResetStep DEF NameInv
    <3>2. main' = "start" /\ started' = 0
        BY <1>3 DEF ResetGrid, MainGoto
    <3>3. \A t \in Thread : ~Cleared(t)'
        BY <3>2, SplitterAssumption DEF Cleared, Thread
    <3> QED
        BY <3>1, <3>3 DEF RoundOK, StartOK
  <2> QED
      BY <1>3, <2>1 DEF ResetGrid, MainGoto, Walks
<1>4. CASE Clear \/ Notify \/ Await \/ Finish
  <2>1. UNCHANGED <<lockGrid, at>>
      BY <1>4 DEF Clear, Notify, Await, Finish, MainGoto
  <2>2. \A t \in Thread : pc'[t] = pc[t] \/ (pc[t] = "asleep" /\ pc'[t] = "test")
      BY <1>1, <1>4 DEF Clear, Notify, Await, Finish, MainGoto, Types
  <2> QED
      BY <2>1, <2>2 DEF Walks, Resting
<1>5. CASE Over \/ UNCHANGED vars
    BY <1>5 DEF Over, vars, threadVars, Walks
<1> QED
    BY <1>2, <1>3, <1>4, <1>5 DEF Next, MainStep

(* The hits of the rounds begun, as Total instead of the fold *)
Begun == IF main \in {"start", "notify"} THEN round + 1 ELSE round
Hits ==
    /\ idCount \in [Cell -> Nat]
    /\ round <= Rounds /\ (main \in {"start", "notify"} => round < Rounds)
    /\ main \in {"reset", "over"} => latch = 0
    /\ Total(idCount) + latch = Begun * thread_nb

LEMMA CellsFinite == IsFiniteSet(Cell)
<1>1. IsFiniteSet(Thread)
    BY FS_Interval, SplitterAssumption DEF Thread
<1>2. IsFiniteSet(Thread \X Thread)
    BY <1>1, FS_Product
<1> QED
    BY <1>2, FS_Subset DEF Cell

LEMMA InitHits == Init => Hits
<1> SUFFICES ASSUME Init PROVE Hits
    OBVIOUS
<1>1. idCount = [c \in Cell |-> 0] /\ latch = 0 /\ round = 0 /\ main = "reset"
    BY DEF Init
<1>2. Total(idCount) = 0
    BY <1>1, CellsFinite, SumOfZeros
<1> QED
    BY <1>1, <1>2, SplitterAssumption DEF Hits, Begun

LEMMA NextHits ==
    ASSUME NameInv, Walks, Hits, [Next]_vars
    PROVE  Hits'
<1>1. /\ Types /\ idCount \in [Cell -> Nat] /\ latch \in 0..thread_nb /\ round \in Nat
      /\ thread_nb \in Nat \ {0} /\ Rounds \in Nat
    BY SplitterAssumption DEF NameInv, Types, Hits
<1>2. Total(idCount) + latch = Begun * thread_nb
    BY DEF Hits
<1>3. ASSUME NEW t \in Thread, CountDown(t) PROVE Hits'
  <2>1. pc[t] = "named" /\ idCount' = [idCount EXCEPT ![at[t]] = @ + 1] /\ UNCHANGED <<main, round>>
      BY <1>3 DEF CountDown, Goto, mainVars
  <2>2. PICK D \in SUBSET Thread : RoundOK(D)
      BY <2>1 DEF NameInv, NotBegun, Resting
  <2>3. t \notin D /\ main \in {"start", "notify"}
      BY <1>1, <2>1, <2>2, Unnamed
  <2>4. latch > 0
    <3>1. Cardinality(D) \in 0..thread_nb /\ (Cardinality(D) = thread_nb => D = Thread)
        BY Counting
    <3>2. latch = thread_nb - Cardinality(D)
        BY <2>2 DEF RoundOK, LatchOK
    <3>3. Cardinality(D) # thread_nb
        BY <2>3, <3>1
    <3> QED
        BY <1>1, <3>1, <3>2, <3>3
  <2>5. latch' = latch - 1
      BY <1>3, <2>4 DEF CountDown
  <2>6. at[t] \in Cell
      BY DEF Walks
  <2>7. Total(idCount) \in Nat /\ Total(idCount') = Total(idCount) + 1
      BY <1>1, <2>1, <2>6, CellsFinite, SumOneMore
  <2>8. idCount' \in [Cell -> Nat]
      BY <1>1, <2>1, <2>6
  <2>9. Begun' = Begun
      BY <2>1 DEF Begun
  <2>10. Total(idCount') + latch' = Begun' * thread_nb
      BY <1>1, <1>2, <2>5, <2>7, <2>9
  <2> QED
      BY <2>1, <2>3, <2>8, <2>10 DEF Hits
<1>4. ASSUME NEW t \in Thread, ThreadStep(t) \/ WakeUp(t), ~CountDown(t) PROVE Hits'
  <2>1. UNCHANGED <<idCount, latch, main, round>>
      BY <1>4 DEF ThreadStep, Test, Wait, WakeUp, Take, Pass, Rest, Interrupted, Goto, mainVars
  <2> QED
      BY <2>1 DEF Hits, Begun
<1>5. CASE ResetGrid
  <2>1. main = "reset" /\ main' = "start" /\ round < Rounds /\ latch' = thread_nb /\ UNCHANGED <<idCount, round>>
      BY <1>5 DEF ResetGrid, MainGoto
  <2>2. latch = 0 /\ Begun = round /\ Begun' = round + 1
      BY <2>1 DEF Hits, Begun
  <2>3. (round + 1) * thread_nb = round * thread_nb + thread_nb
      BY <1>1
  <2>4. Total(idCount) \in Nat
    <3>1. <<0, 0>> \in Cell
        BY Cells
    <3> QED
        BY <1>1, <3>1, CellsFinite, SumOneMore
  <2>5. Total(idCount') + latch' = Begun' * thread_nb
      BY <1>1, <1>2, <2>1, <2>2, <2>3, <2>4
  <2> QED
      BY <1>1, <2>1, <2>5 DEF Hits
<1>6. CASE Clear \/ Notify
  <2>1. UNCHANGED <<idCount, latch, round>> /\ main \in {"start", "notify"} /\ main' \in {"start", "notify"}
      BY <1>6 DEF Clear, Notify, MainGoto
  <2> QED
      BY <2>1 DEF Hits, Begun
<1>7. CASE Await
  <2>1. UNCHANGED <<idCount, latch>> /\ latch = 0 /\ main = "start" /\ main' = "reset" /\ round' = round + 1
      BY <1>7 DEF Await, MainGoto
  <2>2. Begun' = Begun /\ round' <= Rounds
      BY <1>1, <2>1 DEF Hits, Begun
  <2> QED
      BY <2>1, <2>2 DEF Hits
<1>8. CASE Finish
  <2>1. UNCHANGED <<idCount, latch, round>> /\ main = "reset" /\ main' = "over"
      BY <1>8 DEF Finish, MainGoto
  <2> QED
      BY <2>1 DEF Hits, Begun
<1>9. CASE Over \/ UNCHANGED vars
    BY <1>9 DEF Over, vars, mainVars, Hits, Begun
<1> QED
    BY <1>3, <1>4, <1>5, <1>6, <1>7, <1>8, <1>9 DEF Next, MainStep

GridInv == NameInv /\ Walks /\ Hits

LEMMA NextGrid == GridInv /\ [Next]_vars => GridInv'
BY NextNames, NextWalks, NextHits DEF GridInv

LEMMA Inductive == Spec => []GridInv
<1>1. Init => GridInv
    BY InitNames, InitWalks, InitHits DEF GridInv
<1> QED
    BY <1>1, NextGrid, PTL DEF Spec

LEMMA GridTypes == GridInv => TypeOK
<1> SUFFICES ASSUME GridInv PROVE TypeOK
    OBVIOUS
<1>1. started \in 0..thread_nb /\ round \in 0..Rounds
    BY SplitterAssumption DEF GridInv, NameInv, Types, Hits
<1> QED
    BY <1>1 DEF GridInv, NameInv, Types, Walks, Hits, TypeOK, Resting

(* The fields have their types. In particular no index leaves the triangle, although
   nothing in the loop of run checks it: behind a thread that walks there is a thread
   on every diagonal. *)
THEOREM WalksInside == Spec => []TypeOK
BY Inductive, GridTypes, PTL

(* The hits that main prints and the latch account for all threads in all rounds begun. *)
THEOREM HitsCounted == Spec => []RoundInv
<1>1. GridInv => RoundInv
  <2> SUFFICES ASSUME GridInv PROVE RoundInv
      OBVIOUS
  <2>1. Total(idCount) + latch = Begun * thread_nb
      BY DEF GridInv, Hits
  <2> QED
      BY <2>1 DEF RoundInv, Total, Begun, FoldFunction, FoldFunctionOnSet, MapThenFoldSet
<1> QED
    BY <1>1, Inductive, PTL

---------------------------------------------------------------------------------
(* Snake *)

(* The coordinates that a step can lead to, and where they come back onto the torus. *)
LEMMA Modulo ==
    ASSUME NEW x \in -1..grid_size
    PROVE  x % grid_size = IF x = -1 THEN grid_size - 1 ELSE IF x = grid_size THEN 0 ELSE x
<1>1. grid_size \in Nat /\ grid_size >= 2
    BY SnakeAssumption
<1> QED
    BY <1>1

(* A position beside a cell becomes a cell that is its neighbour on the torus. *)
LEMMA OnTorus ==
    ASSUME NEW c \in Snakes!Cell, NEW p \in Snakes!Around(c)
    PROVE  Snakes!Wrapped(p) \in Snakes!Cell /\ Snakes!Neighbours(c, Snakes!Wrapped(p))
<1>1. grid_size \in Nat /\ grid_size >= 2
    BY SnakeAssumption
<1>2. PICK x \in 0..(grid_size - 1), y \in 0..(grid_size - 1) : c = <<x, y>>
    BY DEF Snakes!Cell, Snakes!Coordinate
<1> DEFINE Back(z) == IF z = -1 THEN grid_size - 1 ELSE IF z = grid_size THEN 0 ELSE z
<1>3. \A z \in -1..grid_size : z % grid_size = Back(z) /\ Back(z) \in 0..(grid_size - 1)
    BY <1>1, Modulo
<1> HIDE DEF Back
<1>4. \A a, b \in -1..grid_size : Snakes!Wrapped(<<a, b>>) = <<Back(a), Back(b)>>
    BY <1>3 DEF Snakes!Wrapped
<1>5. ASSUME NEW a \in -1..grid_size, NEW b \in -1..grid_size
      PROVE  Snakes!Wrapped(<<a, b>>) \in Snakes!Cell
  <2>1. Back(a) \in Snakes!Coordinate /\ Back(b) \in Snakes!Coordinate
      BY <1>3 DEF Snakes!Coordinate
  <2> QED
      BY <1>4, <2>1 DEF Snakes!Cell
<1>6. p \in {<<x, y + 1>>, <<x, y - 1>>, <<x + 1, y>>, <<x - 1, y>>}
    BY <1>2 DEF Snakes!Around
<1>7. x \in -1..grid_size /\ y \in -1..grid_size /\ x + 1 \in -1..grid_size /\ y + 1 \in -1..grid_size
      /\ x - 1 \in -1..grid_size /\ y - 1 \in -1..grid_size
    BY <1>1, <1>2
<1>8. Snakes!Wrapped(p) \in Snakes!Cell
    BY <1>5, <1>6, <1>7
<1>9. CASE p = <<x, y + 1>>
  <2>1. p = <<c[1] + <<0, 1>>[1], c[2] + <<0, 1>>[2]>>
      BY <1>2, <1>9
  <2> QED
      BY <1>8, <2>1 DEF Snakes!Neighbours
<1>10. CASE p = <<x + 1, y>>
  <2>1. p = <<c[1] + <<1, 0>>[1], c[2] + <<1, 0>>[2]>>
      BY <1>2, <1>10
  <2> QED
      BY <1>8, <2>1 DEF Snakes!Neighbours
<1>11. CASE p = <<x, y - 1>>
  <2>1. PICK b : b = Snakes!Wrapped(p) /\ b = <<x, Back(y - 1)>>
    <3>1. Back(x) = x
        BY <1>1, <1>2 DEF Back
    <3> QED
        BY <3>1, <1>4, <1>7, <1>11
  <2>2. <<b[1] + <<0, 1>>[1], b[2] + <<0, 1>>[2]>> = <<x, Back(y - 1) + 1>>
      BY <1>2, <2>1
  <2>3. Back(y - 1) + 1 \in -1..grid_size /\ Back(Back(y - 1) + 1) = y /\ Back(x) = x
      BY <1>1, <1>2 DEF Back
  <2>4. c = Snakes!Wrapped(<<b[1] + <<0, 1>>[1], b[2] + <<0, 1>>[2]>>)
      BY <1>2, <1>4, <1>7, <2>2, <2>3
  <2> QED
      BY <1>8, <2>1, <2>4 DEF Snakes!Neighbours
<1>12. CASE p = <<x - 1, y>>
  <2>1. PICK b : b = Snakes!Wrapped(p) /\ b = <<Back(x - 1), y>>
    <3>1. Back(y) = y
        BY <1>1, <1>2 DEF Back
    <3> QED
        BY <3>1, <1>4, <1>7, <1>12
  <2>2. <<b[1] + <<1, 0>>[1], b[2] + <<1, 0>>[2]>> = <<Back(x - 1) + 1, y>>
      BY <1>2, <2>1
  <2>3. Back(x - 1) + 1 \in -1..grid_size /\ Back(Back(x - 1) + 1) = x /\ Back(y) = y
      BY <1>1, <1>2 DEF Back
  <2>4. c = Snakes!Wrapped(<<b[1] + <<1, 0>>[1], b[2] + <<1, 0>>[2]>>)
      BY <1>2, <1>4, <1>7, <2>2, <2>3
  <2> QED
      BY <1>8, <2>1, <2>4 DEF Snakes!Neighbours
<1> QED
    BY <1>6, <1>9, <1>10, <1>11, <1>12

---------------------------------------------------------------------------------

(* A body of n cells, no cell twice, each one beside the one before it. *)
Connected(q, n) ==
    /\ q \in Seq(Snakes!Cell) /\ Len(q) = n
    /\ Snakes!IsInjective(q)
    /\ \A k \in 1..(n - 1) : Snakes!Neighbours(q[k], q[k + 1])

LEMMA Grown ==
    ASSUME NEW n \in Nat \ {0}, NEW q, Connected(q, n), NEW c \in Snakes!Cell, c \notin Snakes!ToSet(q),
           Snakes!Neighbours(Snakes!Last(q), c)
    PROVE  /\ Connected(Append(q, c), n + 1)
           /\ Snakes!ToSet(Append(q, c)) = Snakes!ToSet(q) \cup {c}
<1>1. q \in Seq(Snakes!Cell) /\ Len(q) = n /\ DOMAIN q = 1..n
    BY DEF Connected
<1>2. PICK r : r = Append(q, c) /\ r \in Seq(Snakes!Cell) /\ Len(r) = n + 1 /\ DOMAIN r = 1..(n + 1)
               /\ (\A k \in 1..n : r[k] = q[k]) /\ r[n + 1] = c
  <2>1. Append(q, c) \in Seq(Snakes!Cell) /\ Len(Append(q, c)) = n + 1
      BY <1>1
  <2>2. DOMAIN Append(q, c) = 1..(n + 1)
      BY <2>1
  <2>3. \A k \in 1..n : Append(q, c)[k] = q[k]
      BY <1>1
  <2>4. Append(q, c)[n + 1] = c
      BY <1>1
  <2> QED
      BY <2>1, <2>2, <2>3, <2>4
<1>3. \A k \in 1..n : q[k] # c
    BY <1>1 DEF Snakes!ToSet
<1>4. Snakes!IsInjective(r)
  <2>1. \A i, k \in 1..n : q[i] = q[k] => i = k
      BY <1>1 DEF Connected, Snakes!IsInjective
  <2>2. \A i \in 1..(n + 1) : i \in 1..n \/ i = n + 1
      OBVIOUS
  <2> QED
      BY <1>2, <1>3, <2>1, <2>2 DEF Snakes!IsInjective
<1>5. ASSUME NEW k \in 1..n PROVE Snakes!Neighbours(r[k], r[k + 1])
  <2>1. CASE k = n
      BY <1>1, <1>2, <2>1 DEF Snakes!Last
  <2>2. CASE k # n
    <3>1. k \in 1..(n - 1) /\ k + 1 \in 1..n
        BY <2>2
    <3> QED
        BY <1>2, <3>1 DEF Connected
  <2> QED
      BY <2>1, <2>2
<1>6. Snakes!ToSet(r) = Snakes!ToSet(q) \cup {c}
    BY <1>1, <1>2 DEF Snakes!ToSet
<1> QED
    BY <1>2, <1>4, <1>5, <1>6 DEF Connected

LEMMA Shrunk ==
    ASSUME NEW n \in Nat \ {0}, NEW q, Connected(q, n + 1)
    PROVE  /\ Connected(Tail(q), n)
           /\ Head(q) \in Snakes!ToSet(q)
           /\ Snakes!ToSet(Tail(q)) = Snakes!ToSet(q) \ {Head(q)}
<1>1. q \in Seq(Snakes!Cell) /\ Len(q) = n + 1 /\ DOMAIN q = 1..(n + 1)
    BY DEF Connected
<1>2. PICK r : r = Tail(q) /\ r \in Seq(Snakes!Cell) /\ Len(r) = n /\ DOMAIN r = 1..n
               /\ (\A k \in 1..n : r[k] = q[k + 1])
  <2>1. q # <<>>
      BY <1>1
  <2>2. Tail(q) \in Seq(Snakes!Cell) /\ Len(Tail(q)) = n
      BY <1>1, <2>1
  <2>3. DOMAIN Tail(q) = 1..n
      BY <2>2
  <2>4. \A k \in 1..n : Tail(q)[k] = q[k + 1]
      BY <1>1, <2>1
  <2> QED
      BY <2>2, <2>3, <2>4
<1>3. \A i, k \in 1..(n + 1) : q[i] = q[k] => i = k
    BY <1>1 DEF Connected, Snakes!IsInjective
<1>4. \A k \in 1..n : k + 1 \in 1..(n + 1)
    OBVIOUS
<1>5. Snakes!IsInjective(r)
  <2>1. ASSUME NEW i \in 1..n, NEW k \in 1..n, r[i] = r[k] PROVE i = k
    <3>1. i + 1 = k + 1
        BY <1>2, <1>3, <1>4, <2>1
    <3> QED
        BY <3>1
  <2> QED
      BY <1>2, <2>1 DEF Snakes!IsInjective
<1>6. ASSUME NEW k \in 1..(n - 1) PROVE Snakes!Neighbours(r[k], r[k + 1])
  <2>1. k \in 1..n /\ k + 1 \in 1..n /\ k + 1 \in 1..(n + 1 - 1)
      OBVIOUS
  <2>2. Snakes!Neighbours(q[k + 1], q[k + 1 + 1])
      BY <2>1 DEF Connected
  <2> QED
      BY <1>2, <2>1, <2>2
<1>7. Head(q) = q[1] /\ 1 \in 1..(n + 1)
    BY <1>1
<1>8. Snakes!ToSet(r) = Snakes!ToSet(q) \ {q[1]}
  <2>1. \A k \in 1..(n + 1) : k = 1 \/ (k - 1 \in 1..n /\ k = (k - 1) + 1)
      OBVIOUS
  <2>2. \A k \in 1..n : k + 1 # 1
      OBVIOUS
  <2>3. ASSUME NEW k \in 1..n PROVE r[k] \in Snakes!ToSet(q) \ {q[1]}
    <3>1. k + 1 \in 1..(n + 1) /\ k + 1 # 1 /\ r[k] = q[k + 1]
        BY <1>2, <1>4, <2>2
    <3>2. q[k + 1] # q[1]
        BY <1>3, <1>7, <3>1
    <3> QED
        BY <1>1, <3>1, <3>2 DEF Snakes!ToSet
  <2>4. ASSUME NEW k \in 1..(n + 1), k # 1 PROVE q[k] \in Snakes!ToSet(r)
    <3>1. k - 1 \in 1..n /\ q[k] = r[k - 1]
        BY <1>2, <2>1, <2>4
    <3> QED
        BY <1>2, <3>1 DEF Snakes!ToSet
  <2>5. Snakes!ToSet(q) = {q[k] : k \in 1..(n + 1)} /\ Snakes!ToSet(r) = {r[k] : k \in 1..n}
      BY <1>1, <1>2 DEF Snakes!ToSet
  <2>6. ASSUME NEW c \in Snakes!ToSet(q), c # q[1] PROVE c \in Snakes!ToSet(r)
      BY <2>4, <2>5, <2>6
  <2>7. ASSUME NEW c \in Snakes!ToSet(r) PROVE c \in Snakes!ToSet(q) \ {q[1]}
      BY <2>3, <2>5
  <2> QED
      BY <2>6, <2>7
<1>9. Connected(r, n)
    BY <1>2, <1>5, <1>6 DEF Connected
<1>10. Head(q) \in Snakes!ToSet(q)
    BY <1>1, <1>7 DEF Snakes!ToSet
<1> QED
    BY <1>2, <1>7, <1>8, <1>9, <1>10

---------------------------------------------------------------------------------

SnakeLen(s) == IF snakePc[s] = "drop" THEN snake_size + 1 ELSE snake_size

(* BodyInv in terms of Connected, with what keeps it: a snake only tries for positions
   beside its head, and the main thread only reads the flags of snakes that exist. *)
SnakeTypes ==
    /\ Snakes!TypeOK
    /\ snakeMain = "scan" => seen < snake_nb

Bodies ==
    /\ grid = UNION {Snakes!ToSet(queue[s]) : s \in Snakes!Thread}
    /\ \A s \in Snakes!Thread : Connected(queue[s], SnakeLen(s))
    /\ \A s, t \in Snakes!Thread :
          s # t => Snakes!ToSet(queue[s]) \cap Snakes!ToSet(queue[t]) = {}

Tries ==
    \A s \in Snakes!Thread :
        snakePc[s] = "try" => list[s] \subseteq Snakes!Around(Snakes!Last(queue[s]))

SnakeInv == SnakeTypes /\ Bodies /\ Tries

LEMMA LastCell ==
    ASSUME NEW n \in Nat \ {0}, NEW q, Connected(q, n)
    PROVE  Snakes!Last(q) \in Snakes!Cell
BY DEF Connected, Snakes!Last

LEMMA InitSnakes == Snakes!Init => SnakeInv
<1> SUFFICES ASSUME Snakes!Init PROVE SnakeInv
    OBVIOUS
<1>1. /\ snake_nb \in Nat /\ snake_nb >= 1 /\ grid_size \in Nat /\ snake_nb <= grid_size
      /\ snake_size \in Nat /\ snake_size >= 2 /\ snake_size <= grid_size
    BY SnakeAssumption
<1>2. ASSUME NEW s \in Snakes!Thread
      PROVE  /\ Connected(queue[s], snake_size)
             /\ \A c \in Snakes!ToSet(queue[s]) : c \in Snakes!Cell /\ c[1] = s
  <2>1. PICK q : q = queue[s] /\ q = [k \in 1..snake_size |-> <<s, k - 1>>]
      BY DEF Snakes!Init
  <2>2. \A k \in 1..snake_size : <<s, k - 1>> \in Snakes!Cell
      BY <1>1 DEF Snakes!Thread, Snakes!Cell, Snakes!Coordinate
  <2>3. q \in Seq(Snakes!Cell) /\ Len(q) = snake_size /\ DOMAIN q = 1..snake_size
      BY <1>1, <2>1, <2>2
  <2>4. Snakes!IsInjective(q)
    <3>1. ASSUME NEW i \in 1..snake_size, NEW k \in 1..snake_size, q[i] = q[k] PROVE i = k
      <4>1. i - 1 = k - 1
          BY <2>1, <3>1
      <4> QED
          BY <1>1, <4>1
    <3> QED
        BY <2>3, <3>1 DEF Snakes!IsInjective
  <2>5. ASSUME NEW k \in 1..(snake_size - 1) PROVE Snakes!Neighbours(q[k], q[k + 1])
    <3>1. k \in 1..snake_size /\ k + 1 \in 1..snake_size /\ (k + 1) - 1 = k /\ (k - 1) + 1 = k
        BY <1>1
    <3>2. q[k] \in Snakes!Cell /\ q[k + 1] = <<s, k>> /\ q[k] = <<s, k - 1>>
        BY <2>1, <2>2, <3>1
    <3>3. s \in -1..grid_size /\ k \in -1..grid_size /\ s # -1 /\ s # grid_size /\ k # -1 /\ k # grid_size
        BY <1>1 DEF Snakes!Thread
    <3>4. s % grid_size = s /\ k % grid_size = k
        BY <3>3, Modulo
    <3>5. q[k + 1] = Snakes!Wrapped(<<q[k][1] + <<0, 1>>[1], q[k][2] + <<0, 1>>[2]>>)
      <4>1. q[k][1] + <<0, 1>>[1] = s /\ q[k][2] + <<0, 1>>[2] = k
          BY <1>1, <3>1, <3>2 DEF Snakes!Thread
      <4> QED
          BY <3>2, <3>4, <4>1 DEF Snakes!Wrapped
    <3> QED
        BY <3>5 DEF Snakes!Neighbours
  <2>6. \A c \in Snakes!ToSet(q) : c \in Snakes!Cell /\ c[1] = s
      BY <2>1, <2>2, <2>3 DEF Snakes!ToSet
  <2> QED
      BY <2>1, <2>3, <2>4, <2>5, <2>6 DEF Connected
<1>3. /\ grid = UNION {Snakes!ToSet(queue[s]) : s \in Snakes!Thread}
      /\ DOMAIN queue = Snakes!Thread
      /\ snakePc = [s \in Snakes!Thread |-> "try"]
      /\ \A s \in Snakes!Thread : list[s] \subseteq Snakes!Around(Snakes!Last(queue[s]))
      /\ list = [s \in Snakes!Thread |-> list[s]] /\ queue = [s \in Snakes!Thread |-> queue[s]]
      /\ snakeMain = "scan" /\ seen = 0 /\ locked \in [Snakes!Thread -> BOOLEAN]
    BY DEF Snakes!Init, Snakes!Body, Snakes!NextPositions
<1>4. Bodies
  <2>1. \A s, t \in Snakes!Thread : s # t => Snakes!ToSet(queue[s]) \cap Snakes!ToSet(queue[t]) = {}
      BY <1>2
  <2>2. \A s \in Snakes!Thread : SnakeLen(s) = snake_size
      BY <1>3 DEF SnakeLen
  <2> QED
      BY <1>2, <1>3, <2>1, <2>2 DEF Bodies
<1>5. Snakes!TypeOK
  <2>1. grid \subseteq Snakes!Cell
      BY <1>2, <1>3
  <2>2. queue \in [Snakes!Thread -> Seq(Snakes!Cell)]
      BY <1>2, <1>3 DEF Connected
  <2>3. \A s \in Snakes!Thread : Snakes!Last(queue[s]) \in Snakes!Cell
      BY <1>1, <1>2, LastCell
  <2>4. list \in [Snakes!Thread -> SUBSET UNION {Snakes!Around(p) : p \in Snakes!Cell}]
    <3>1. \A s \in Snakes!Thread : list[s] \subseteq UNION {Snakes!Around(p) : p \in Snakes!Cell}
        BY <1>3, <2>3
    <3> QED
        BY <1>3, <3>1
  <2> QED
      BY <1>1, <1>3, <2>1, <2>2, <2>4 DEF Snakes!TypeOK
<1> QED
    BY <1>1, <1>3, <1>4, <1>5 DEF SnakeInv, SnakeTypes, Tries

(* Two snakes that want the same cell: one of them finds it in the grid. What the move of
   one snake does to its body and to the grid. *)
LEMMA BodyChanges ==
    ASSUME Bodies, NEW s \in Snakes!Thread, NEW taken, NEW left,
           \A t \in Snakes!Thread : t # s => queue'[t] = queue[t] /\ SnakeLen(t)' = SnakeLen(t),
           Connected(queue'[s], SnakeLen(s)'),
           Snakes!ToSet(queue'[s]) = (Snakes!ToSet(queue[s]) \cup taken) \ left,
           grid' = (grid \cup taken) \ left,
           taken \cap grid = {}, left \subseteq Snakes!ToSet(queue[s])
    PROVE  Bodies'
<1>1. \A t \in Snakes!Thread : Connected(queue'[t], SnakeLen(t)')
    BY DEF Bodies
<1>2. \A t \in Snakes!Thread : Snakes!ToSet(queue[t]) \subseteq grid
    BY DEF Bodies
<1>3. \A t \in Snakes!Thread : t # s => Snakes!ToSet(queue[s]) \cap Snakes!ToSet(queue[t]) = {}
    BY DEF Bodies
<1>4. \A t \in Snakes!Thread : t # s => Snakes!ToSet(queue'[t]) = Snakes!ToSet(queue[t])
    OBVIOUS
<1>5. \A t \in Snakes!Thread : t # s => Snakes!ToSet(queue'[s]) \cap Snakes!ToSet(queue'[t]) = {}
    BY <1>2, <1>3, <1>4
<1>6. \A t, u \in Snakes!Thread : t # u => Snakes!ToSet(queue'[t]) \cap Snakes!ToSet(queue'[u]) = {}
  <2> SUFFICES ASSUME NEW t \in Snakes!Thread, NEW u \in Snakes!Thread, t # u
               PROVE  Snakes!ToSet(queue'[t]) \cap Snakes!ToSet(queue'[u]) = {}
      OBVIOUS
  <2>1. CASE t = s
      BY <1>5, <2>1
  <2>2. CASE u = s
      BY <1>5, <2>2
  <2>3. CASE t # s /\ u # s
      BY <1>4, <2>3 DEF Bodies
  <2> QED
      BY <2>1, <2>2, <2>3
<1>7. grid' = UNION {Snakes!ToSet(queue'[t]) : t \in Snakes!Thread}
  <2>1. ASSUME NEW c \in grid' PROVE \E t \in Snakes!Thread : c \in Snakes!ToSet(queue'[t])
    <3>1. CASE c \in taken
        BY <2>1, <3>1
    <3>2. CASE c \notin taken
      <4>1. c \in grid /\ c \notin left
          BY <2>1, <3>2
      <4>2. PICK t \in Snakes!Thread : c \in Snakes!ToSet(queue[t])
          BY <4>1 DEF Bodies
      <4> QED
          BY <1>4, <4>1, <4>2
    <3> QED
        BY <3>1, <3>2
  <2>2. ASSUME NEW t \in Snakes!Thread, NEW c \in Snakes!ToSet(queue'[t]) PROVE c \in grid'
    <3>1. CASE t = s
        BY <1>2, <2>2, <3>1
    <3>2. CASE t # s
      <4>1. c \in Snakes!ToSet(queue[t])
          BY <1>4, <2>2, <3>2
      <4> QED
          BY <1>2, <1>3, <3>2, <4>1
    <3> QED
        BY <3>1, <3>2
  <2> QED
      BY <2>1, <2>2
<1> QED
    BY <1>1, <1>6, <1>7 DEF Bodies

(* The move of a snake: the cell is taken, *)
LEMMA AdvanceStep == ASSUME SnakeInv, NEW s \in Snakes!Thread, Snakes!Advance(s) PROVE SnakeInv'
<1>1. PICK p \in list[s] :
         /\ Snakes!Wrapped(p) \notin grid
         /\ grid' = grid \cup {Snakes!Wrapped(p)}
         /\ queue' = [queue EXCEPT ![s] = Append(@, Snakes!Wrapped(p))]
    BY DEF Snakes!Advance, Snakes!Set
<1>2. /\ snakePc[s] = "try" /\ snakePc' = [snakePc EXCEPT ![s] = "drop"]
      /\ list' = [list EXCEPT ![s] = {}] /\ UNCHANGED <<locked, snakeMain, seen>>
    BY DEF Snakes!Advance, Snakes!Goto
<1>3. PICK c : c = Snakes!Wrapped(p)
    OBVIOUS
<1>4. Snakes!TypeOK
    BY DEF SnakeInv, SnakeTypes
<1>5. snake_size \in Nat \ {0} /\ SnakeLen(s) = snake_size /\ Connected(queue[s], snake_size)
    BY <1>2, SnakeAssumption DEF SnakeInv, Bodies, SnakeLen
<1>6. p \in Snakes!Around(Snakes!Last(queue[s])) /\ Snakes!Last(queue[s]) \in Snakes!Cell
    BY <1>2, <1>5, LastCell DEF SnakeInv, Tries
<1>7. c \in Snakes!Cell /\ Snakes!Neighbours(Snakes!Last(queue[s]), c)
    BY <1>3, <1>6, OnTorus
<1>8. c \notin Snakes!ToSet(queue[s])
    BY <1>1, <1>3 DEF SnakeInv, Bodies
<1>9. /\ Connected(Append(queue[s], c), snake_size + 1)
      /\ Snakes!ToSet(Append(queue[s], c)) = Snakes!ToSet(queue[s]) \cup {c}
    BY <1>5, <1>7, <1>8, Grown
<1>10. /\ queue'[s] = Append(queue[s], c) /\ snakePc'[s] = "drop" /\ list'[s] = {}
       /\ \A t \in Snakes!Thread : t # s =>
             queue'[t] = queue[t] /\ snakePc'[t] = snakePc[t] /\ list'[t] = list[t]
    BY <1>1, <1>2, <1>3, <1>4 DEF Snakes!TypeOK
<1>11. Bodies'
  <2>1. \A t \in Snakes!Thread : t # s => queue'[t] = queue[t] /\ SnakeLen(t)' = SnakeLen(t)
      BY <1>10 DEF SnakeLen
  <2>2. SnakeLen(s)' = snake_size + 1
      BY <1>10 DEF SnakeLen
  <2>3. Connected(queue'[s], SnakeLen(s)')
      BY <1>9, <1>10, <2>2
  <2>4. Snakes!ToSet(queue'[s]) = (Snakes!ToSet(queue[s]) \cup {c}) \ {} /\ grid' = (grid \cup {c}) \ {}
      BY <1>1, <1>3, <1>9, <1>10
  <2>5. {c} \cap grid = {} /\ {} \subseteq Snakes!ToSet(queue[s])
      BY <1>1, <1>3
  <2> QED
      BY <2>1, <2>3, <2>4, <2>5, BodyChanges DEF SnakeInv
<1>12. SnakeTypes'
  <2>1. grid' \subseteq Snakes!Cell
      BY <1>1, <1>3, <1>4, <1>7 DEF Snakes!TypeOK
  <2>2. queue' \in [Snakes!Thread -> Seq(Snakes!Cell)]
    <3>1. Append(queue[s], c) \in Seq(Snakes!Cell)
        BY <1>9 DEF Connected
    <3> QED
        BY <1>1, <1>3, <1>4, <3>1 DEF Snakes!TypeOK
  <2> QED
      BY <1>2, <1>4, <2>1, <2>2 DEF Snakes!TypeOK, SnakeInv, SnakeTypes
<1>13. Tries'
    BY <1>10 DEF SnakeInv, Tries
<1> QED
    BY <1>11, <1>12, <1>13 DEF SnakeInv

(* and the last one is left. *)
LEMMA DropStep == ASSUME SnakeInv, NEW s \in Snakes!Thread, Snakes!Drop(s) PROVE SnakeInv'
<1>1. /\ snakePc[s] = "drop" /\ snakePc' = [snakePc EXCEPT ![s] = "unlock"]
      /\ grid' = grid \ {Head(queue[s])}
      /\ queue' = [queue EXCEPT ![s] = Tail(@)]
      /\ UNCHANGED <<list, locked, snakeMain, seen>>
    BY DEF Snakes!Drop, Snakes!Goto
<1>4. Snakes!TypeOK
    BY DEF SnakeInv, SnakeTypes
<1>5. snake_size \in Nat \ {0} /\ Connected(queue[s], snake_size + 1)
    BY <1>1, SnakeAssumption DEF SnakeInv, Bodies, SnakeLen
<1>9. /\ Connected(Tail(queue[s]), snake_size)
      /\ Head(queue[s]) \in Snakes!ToSet(queue[s])
      /\ Snakes!ToSet(Tail(queue[s])) = Snakes!ToSet(queue[s]) \ {Head(queue[s])}
    BY <1>5, Shrunk
<1>10. /\ queue'[s] = Tail(queue[s]) /\ snakePc'[s] = "unlock"
       /\ \A t \in Snakes!Thread : t # s =>
             queue'[t] = queue[t] /\ snakePc'[t] = snakePc[t] /\ list'[t] = list[t]
    BY <1>1, <1>4 DEF Snakes!TypeOK
<1>11. Bodies'
  <2>1. \A t \in Snakes!Thread : t # s => queue'[t] = queue[t] /\ SnakeLen(t)' = SnakeLen(t)
      BY <1>10 DEF SnakeLen
  <2>2. SnakeLen(s)' = snake_size
      BY <1>10 DEF SnakeLen
  <2>3. Connected(queue'[s], SnakeLen(s)')
      BY <1>9, <1>10, <2>2
  <2>4. /\ Snakes!ToSet(queue'[s]) = (Snakes!ToSet(queue[s]) \cup {}) \ {Head(queue[s])}
        /\ grid' = (grid \cup {}) \ {Head(queue[s])}
      BY <1>1, <1>9, <1>10
  <2>5. {} \cap grid = {} /\ {Head(queue[s])} \subseteq Snakes!ToSet(queue[s])
      BY <1>9
  <2> QED
      BY <2>1, <2>3, <2>4, <2>5, BodyChanges DEF SnakeInv
<1>12. SnakeTypes'
  <2>1. grid' \subseteq Snakes!Cell
      BY <1>1, <1>4 DEF Snakes!TypeOK
  <2>2. queue' \in [Snakes!Thread -> Seq(Snakes!Cell)]
    <3>1. Tail(queue[s]) \in Seq(Snakes!Cell)
        BY <1>9 DEF Connected
    <3> QED
        BY <1>1, <1>4, <3>1 DEF Snakes!TypeOK
  <2> QED
      BY <1>1, <1>4, <2>1, <2>2 DEF Snakes!TypeOK, SnakeInv, SnakeTypes
<1>13. Tries'
    BY <1>10 DEF SnakeInv, Tries
<1> QED
    BY <1>11, <1>12, <1>13 DEF SnakeInv

(* The steps that leave bodies and grid alone: the next list is what is beside the head. *)
LEMMA OtherSteps ==
    ASSUME SnakeInv, NEW s \in Snakes!Thread,
           Snakes!Refused(s) \/ Snakes!Unlock(s) \/ Snakes!Blocked(s) \/ Snakes!Sleep(s)
    PROVE  SnakeInv'
<1>1. /\ UNCHANGED <<grid, queue, snakeMain, seen>>
      /\ snakePc[s] \in {"try", "unlock", "sleep"}
      /\ \E to \in {"try", "sleep", "ended"} : snakePc' = [snakePc EXCEPT ![s] = to]
      /\ locked' = locked \/ \E b \in BOOLEAN : locked' = [locked EXCEPT ![s] = b]
    BY DEF Snakes!Refused, Snakes!Unlock, Snakes!Blocked, Snakes!Sleep, Snakes!SetLocked, Snakes!Goto
<1>2. \/ list' = list /\ snakePc'[s] # "try"
      \/ \E new : /\ list' = [list EXCEPT ![s] = new]
                  /\ \/ new \subseteq list[s] /\ snakePc[s] = "try"
                     \/ new \subseteq Snakes!Around(Snakes!Last(queue[s]))
  <2>1. CASE Snakes!Refused(s)
    <3>1. PICK p \in list[s] : list' = [list EXCEPT ![s] = list[s] \ {p}]
        BY <2>1 DEF Snakes!Refused
    <3> QED
        BY ZenonT(40), <2>1, <3>1 DEF Snakes!Refused, Snakes!Goto
  <2>2. CASE Snakes!Unlock(s) \/ Snakes!Blocked(s)
      BY <2>2 DEF Snakes!Unlock, Snakes!Blocked, Snakes!SetLocked, Snakes!Goto, SnakeInv, SnakeTypes, Snakes!TypeOK
  <2>3. CASE Snakes!Sleep(s)
    <3>1. CASE list' = [list EXCEPT ![s] = Snakes!NextPositions(s)]
        BY <3>1 DEF Snakes!NextPositions
    <3>2. CASE list' = list /\ snakePc' = [snakePc EXCEPT ![s] = "ended"]
        BY <3>2 DEF SnakeInv, SnakeTypes, Snakes!TypeOK
    <3> QED
        BY <2>3, <3>1, <3>2 DEF Snakes!Sleep, Snakes!Goto
  <2> QED
      BY <2>1, <2>2, <2>3
<1>3. Snakes!TypeOK
    BY DEF SnakeInv, SnakeTypes
<1>4. \A t \in Snakes!Thread : t # s => snakePc'[t] = snakePc[t] /\ list'[t] = list[t]
    BY <1>1, <1>2, <1>3 DEF Snakes!TypeOK
<1>5. snakePc[s] # "drop" /\ snakePc'[s] # "drop"
    BY <1>1, <1>3 DEF Snakes!TypeOK
<1>6. Bodies'
  <2>1. \A t \in Snakes!Thread : SnakeLen(t)' = SnakeLen(t)
      BY <1>4, <1>5 DEF SnakeLen
  <2> QED
      BY <1>1, <2>1 DEF Bodies, SnakeInv
<1>7. Snakes!Last(queue[s]) \in Snakes!Cell
  <2>1. snake_size \in Nat \ {0} /\ Connected(queue[s], snake_size)
      BY <1>5, SnakeAssumption DEF SnakeInv, Bodies, SnakeLen
  <2> QED
      BY <2>1, LastCell
<1>8. snakePc'[s] = "try" => list'[s] \subseteq Snakes!Around(Snakes!Last(queue[s]))
    BY <1>2, <1>3 DEF SnakeInv, Tries, Snakes!TypeOK
<1>9. list' \in [Snakes!Thread -> SUBSET UNION {Snakes!Around(p) : p \in Snakes!Cell}]
  <2> DEFINE Places == UNION {Snakes!Around(p) : p \in Snakes!Cell}
  <2>1. list \in [Snakes!Thread -> SUBSET Places]
      BY <1>3 DEF Snakes!TypeOK
  <2>2. Snakes!Around(Snakes!Last(queue[s])) \subseteq Places
      BY <1>7
  <2> HIDE DEF Places
  <2>3. list' \in [Snakes!Thread -> SUBSET Places]
      BY <1>2, <2>1, <2>2
  <2> QED
      BY <2>3 DEF Places
<1>10. SnakeTypes'
    BY <1>1, <1>3, <1>9 DEF SnakeInv, SnakeTypes, Snakes!TypeOK
<1>11. Tries'
    BY <1>1, <1>4, <1>8 DEF SnakeInv, Tries
<1> QED
    BY <1>6, <1>10, <1>11 DEF SnakeInv

LEMMA MainKeepsSnakes == ASSUME SnakeInv, Snakes!MainStep PROVE SnakeInv'
<1>1. UNCHANGED <<grid, queue, locked, snakePc, list>> /\ snakeMain = "scan" /\ snakeMain' \in {"scan", "over"}
    BY DEF Snakes!MainStep, Snakes!Locked, Snakes!NotLocked, Snakes!MainGoto
<1>2. seen' \in 0..snake_nb /\ (snakeMain' = "scan" => seen' < snake_nb)
  <2>1. seen \in 0..snake_nb /\ seen < snake_nb /\ snake_nb \in Nat /\ snake_nb >= 1
      BY <1>1, SnakeAssumption DEF SnakeInv, SnakeTypes, Snakes!TypeOK
  <2>2. CASE Snakes!Locked
      BY <2>1, <2>2 DEF Snakes!Locked, Snakes!MainGoto
  <2>3. CASE Snakes!NotLocked
      BY <2>1, <2>3 DEF Snakes!NotLocked
  <2> QED
      BY <2>2, <2>3 DEF Snakes!MainStep
<1>3. SnakeTypes'
    BY <1>1, <1>2 DEF SnakeInv, SnakeTypes, Snakes!TypeOK
<1>4. Bodies' /\ Tries'
    BY <1>1 DEF SnakeInv, Bodies, Tries, SnakeLen
<1> QED
    BY <1>3, <1>4 DEF SnakeInv

LEMMA NextSnakes == SnakeInv /\ [Snakes!Next]_snakeVars => SnakeInv'
<1> SUFFICES ASSUME SnakeInv, [Snakes!Next]_snakeVars PROVE SnakeInv'
    OBVIOUS
<1>1. CASE UNCHANGED snakeVars
    BY <1>1 DEF snakeVars, SnakeInv, SnakeTypes, Snakes!TypeOK, Bodies, Tries, SnakeLen
<1>2. CASE Snakes!Over
  <2>1. UNCHANGED snakeVars
      BY <1>2 DEF Snakes!Over, Snakes!vars, snakeVars
  <2> QED
      BY <1>1, <2>1
<1>3. CASE \E s \in Snakes!Thread : Snakes!SnakeStep(s)
    BY <1>3, AdvanceStep, DropStep, OtherSteps DEF Snakes!SnakeStep
<1> QED
    BY <1>1, <1>2, <1>3, MainKeepsSnakes DEF Snakes!Next

(* Whatever the number and length of the snakes and the size of the torus: a snake is
   connected and keeps its length, one more in the middle of a move, shares no cell with
   itself or another one, and the grid shows exactly the cells of the snakes. In both
   programs the fields have their types. *)
THEOREM BodiesApart == EitherSpec => []BodyInv
<1>1. EitherInit => GridInv /\ SnakeInv
    BY InitNames, InitWalks, InitHits, InitSnakes DEF EitherInit, GridInv
<1>2. GridInv /\ SnakeInv /\ [EitherNext]_<<vars, snakeVars, program>> => GridInv' /\ SnakeInv'
  <2>1. [EitherNext]_<<vars, snakeVars, program>> => [Next]_vars /\ [Snakes!Next]_snakeVars
      BY DEF EitherNext
  <2> QED
      BY <2>1, NextGrid, NextSnakes
<1>3. GridInv => TypeOK
    BY GridTypes
<1>4. SnakeInv => Snakes!TypeOK /\ Snakes!BodyInv
  <2> SUFFICES ASSUME SnakeInv PROVE Snakes!TypeOK /\ Snakes!BodyInv
      OBVIOUS
  <2>1. \A s \in Snakes!Thread : Connected(queue[s], SnakeLen(s))
      BY DEF SnakeInv, Bodies
  <2>2. \A s \in Snakes!Thread :
           /\ Len(queue[s]) = IF snakePc[s] = "drop" THEN snake_size + 1 ELSE snake_size
           /\ Snakes!IsInjective(queue[s])
           /\ \A k \in 1..(Len(queue[s]) - 1) : Snakes!Neighbours(queue[s][k], queue[s][k + 1])
      BY <2>1 DEF Connected, SnakeLen
  <2> QED
      BY <2>2 DEF SnakeInv, SnakeTypes, Bodies, Snakes!BodyInv, Snakes!Body
<1> QED
    BY <1>1, <1>2, <1>3, <1>4, PTL DEF EitherSpec, BodyInv
=================================================================================
