------------------------ MODULE MyThreads_proofs -----------------------
(***************************************************************************)
(* The thread library of Comp 310/ass1 for any number of threads, rounds   *)
(* and slots and any initial value of the semaphore, as long as SIGALRM    *)
(* arrives in the threads' functions only: whoever is in the lines of      *)
(* switch_thread that semaphore_signal runs unmasked, or in the loop of    *)
(* runthreads, is not interrupted. MyThreadsReentry.cfg shows that without *)
(* this hypothesis SwitchRunsHead is false.                                *)
(*                                                                         *)
(* Sched, the inductive invariant of the scheduler, says which flow may be *)
(* where, what each slot holds, whose turn it is and in which one place    *)
(* every thread that is not finished waits. SemaphoreInv and CountedInv    *)
(* are inductive relative to it. A queue is reasoned about as the set of   *)
(* its members and the fact that none is in it twice.                      *)
(***************************************************************************)
EXTENDS MyThreads, FiniteSetTheorems, TLAPS

(* What a queue holds, and that nothing is in it twice. *)
Members(s) == {s[k] : k \in DOMAIN s}
NoTwice(s) == \A j, k \in DOMAIN s : s[j] = s[k] => j = k

(* The control points of main, and the ends of a thread's function. *)
MainPoints == {"create", "enter", "loop", "pop", "returned"}
Finished(t) == pc[t] \in {"exited", "gone"}
(* A thread is between the assignment of current_thread and swapcontext. *)
Switching == cpu \in Thread /\ pc[cpu] \in {"append", "swap"}
Loaded == runQueue # <<>>

(* Which flows may be at which control points: a thread runs only while main
   is saved in the loop of runthreads, only the running one is inside
   switch_thread or spinning, and a thread that was not created has not moved. *)
FlowInv ==
    /\ pc[Main] \in MainPoints
    /\ \A t \in Thread : pc[t] \notin MainPoints
    /\ cpu # Garbage
    /\ cpu \in Thread => cpu \in Created /\ pc[cpu] # "gone" /\ pc[Main] = "loop"
    /\ pc[Main] \in {"loop", "pop"} => mainSaved
    /\ \A t \in Thread : pc[t] \in YieldPoints => t = cpu
    /\ \A t \in spinning : t = cpu /\ pc[t] = "spin"
    /\ \A t \in Thread \ Created : pc[t] = "wait" /\ round[t] = 0
    /\ pc[Main] = "create" => \A t \in Thread : pc[t] = "wait"
    /\ \A t \in Thread : pc[t] \notin {"wait", "exited", "gone"} => round[t] < Rounds

(* A slot holds the thread it belongs to or nothing that may be resumed, and it
   holds the thread whenever that is neither running nor finished. *)
SlotInv ==
    /\ \A t \in Thread : context[t] \in {t, Garbage}
    /\ \A t \in Created : t # cpu /\ ~Finished(t) => context[t] = t

(* The running thread is current_thread, but in the lines that switch, where it
   is old_thread; there, and before main enters, current_thread is fit to run.
   The tests of the run queue still hold where they are relied on. *)
TurnInv ==
    /\ cpu \in Thread /\ ~Switching => cpu = current_thread
    /\ Switching => old[cpu] = cpu /\ cpu # current_thread
    /\ Switching \/ pc[Main] = "enter" =>
          current_thread \in Created /\ Alive(current_thread) /\ ~Finished(current_thread)
    /\ cpu \in Thread => (pc[cpu] = "shift" => Loaded) /\ (pc[cpu] = "swapmain" => ~Loaded)
    /\ pc[Main] = "pop" => Loaded
    /\ pc[Main] = "returned" => ~Loaded
    /\ cpu = Main /\ pc[Main] \in {"loop", "pop"} /\ Loaded => Finished(current_thread)

(* A thread that is created and not finished is in the run queue, is blocked in
   the queue of the semaphore, or runs, and never in both queues or twice in one;
   the state in its slot says which. *)
PlaceInv ==
    /\ NoTwice(runQueue) /\ NoTwice(semQueue)
    /\ pc[Main] = "create" => Members(runQueue) = Created
    /\ \A t \in Members(runQueue) :
        /\ t \in Created /\ Alive(t) /\ ~Finished(t)
        /\ pc[Main] # "create" => t # current_thread
        /\ t = cpu => pc[t] = "swap"
    /\ \A t \in Thread : pc[t] = "swap" => t \in Members(runQueue)
    /\ \A t \in Members(semQueue) : t \in Created /\ pc[t] = "spin" /\ (t = cpu => t \in spinning)
    /\ pc[Main] # "returned" => \A t \in Thread :
        /\ t \in Members(semQueue) <=> state[t] = "BLOCKED"
        /\ Finished(t) <=> state[t] = "EXIT"
    /\ \A t \in Created : state[t] # "NEW"
    /\ \A t \in Created : ~Finished(t) =>
        t \in Members(runQueue) \cup Members(semQueue) \cup {current_thread, cpu}

Sched == TypeOK /\ FlowInv /\ SlotInv /\ TurnInv /\ PlaceInv

USE DEF table, sema, app

(* The slots are numbers, 0 is one of them, and neither main nor the context out
   of date is a thread. *)
LEMMA Constants ==
    /\ Thread \subseteq Nat /\ 0 \in Thread
    /\ Main \notin Thread /\ Garbage \notin Thread /\ Main # Garbage
    /\ Rounds \in Nat /\ Initial \in Nat
    BY ThreadsAssumption DEF Thread

(* The members of a queue; of what list_shift_int leaves; of what
   list_append_int makes. *)
LEMMA MembersType ==
    ASSUME NEW S, NEW s \in Seq(S)
    PROVE  /\ Members(s) \subseteq S
           /\ s = <<>> <=> Members(s) = {}
<1>1. s = <<>> <=> DOMAIN s = {}
    OBVIOUS
<1> QED
    BY <1>1 DEF Members

LEMMA HeadTail ==
    ASSUME NEW S, NEW s \in Seq(S), s # <<>>
    PROVE  /\ Head(s) \in S /\ Head(s) \in Members(s)
           /\ Tail(s) \in Seq(S) /\ Len(Tail(s)) = Len(s) - 1
           /\ NoTwice(s) => NoTwice(Tail(s)) /\ Members(Tail(s)) = Members(s) \ {Head(s)}
<1>1. /\ Head(s) = s[1] /\ Len(s) \in Nat \ {0}
      /\ DOMAIN s = 1..Len(s)
      /\ Tail(s) \in Seq(S) /\ Len(Tail(s)) = Len(s) - 1
      /\ DOMAIN Tail(s) = 1..(Len(s) - 1)
      /\ \A k \in 1..(Len(s) - 1) : Tail(s)[k] = s[k + 1]
    OBVIOUS
<1>2. Head(s) \in S /\ Head(s) \in Members(s)
    BY <1>1 DEF Members
<1>3. ASSUME NoTwice(s)
      PROVE  NoTwice(Tail(s)) /\ Members(Tail(s)) = Members(s) \ {Head(s)}
  <2>1. NoTwice(Tail(s))
    BY <1>1, <1>3 DEF NoTwice
  <2>2. ASSUME NEW x \in Members(Tail(s))
        PROVE  x \in Members(s) \ {Head(s)}
    <3>1. PICK k \in 1..(Len(s) - 1) : x = s[k + 1]
        BY <1>1, <2>2 DEF Members
    <3>2. k + 1 \in 1..Len(s) /\ k + 1 # 1 /\ 1 \in 1..Len(s)
        BY <1>1
    <3> QED
        BY <1>1, <1>3, <3>1, <3>2 DEF Members, NoTwice
  <2>3. ASSUME NEW x \in Members(s) \ {Head(s)}
        PROVE  x \in Members(Tail(s))
    <3>1. PICK k \in 1..Len(s) : x = s[k] /\ k # 1
        BY <1>1, <2>3 DEF Members
    <3>2. k - 1 \in 1..(Len(s) - 1) /\ (k - 1) + 1 = k
        BY <1>1, <3>1
    <3>3. x = Tail(s)[k - 1]
        BY <1>1, <3>1, <3>2
    <3> QED
        BY <1>1, <3>2, <3>3 DEF Members
  <2> QED
    BY <2>1, <2>2, <2>3
<1> QED
    BY <1>1, <1>2, <1>3

LEMMA AppendMembers ==
    ASSUME NEW S, NEW s \in Seq(S), NEW e \in S
    PROVE  /\ Append(s, e) \in Seq(S) /\ Append(s, e) # <<>>
           /\ Len(Append(s, e)) = Len(s) + 1
           /\ Members(Append(s, e)) = Members(s) \cup {e}
           /\ NoTwice(s) /\ e \notin Members(s) => NoTwice(Append(s, e))
<1>1. /\ Len(s) \in Nat /\ DOMAIN s = 1..Len(s)
      /\ Append(s, e) \in Seq(S) /\ Len(Append(s, e)) = Len(s) + 1
      /\ DOMAIN Append(s, e) = 1..(Len(s) + 1)
      /\ \A k \in 1..Len(s) : Append(s, e)[k] = s[k]
      /\ Append(s, e)[Len(s) + 1] = e
    OBVIOUS
<1>2. 1..(Len(s) + 1) = 1..Len(s) \cup {Len(s) + 1}
    BY <1>1
<1>3. Members(Append(s, e)) = Members(s) \cup {e}
    BY <1>1, <1>2 DEF Members
<1>4. ASSUME NoTwice(s), e \notin Members(s)
      PROVE  NoTwice(Append(s, e))
    BY <1>1, <1>2, <1>4 DEF NoTwice, Members
<1>5. Append(s, e) # <<>>
    BY <1>1
<1> QED
    BY <1>1, <1>3, <1>4, <1>5

(* The flow that runs, outside of the lines that switch. *)
LEMMA Running ==
    ASSUME Sched, cpu \in Thread, pc[cpu] \notin {"append", "swap"}
    PROVE  /\ cpu = current_thread /\ cpu \in Created
           /\ cpu \notin Members(runQueue)
           /\ pc[cpu] # "spin" => cpu \notin Members(semQueue)
           /\ pc[cpu] \notin {"spin", "exited"} => Alive(cpu)
           /\ pc[Main] = "loop" /\ mainSaved
           /\ \A u \in Thread : u # cpu => pc[u] \notin YieldPoints
<1> USE Constants DEF Sched
<1>1. cpu = current_thread
    BY DEF TurnInv, Switching
<1>2. cpu \in Created /\ pc[cpu] # "gone" /\ pc[Main] = "loop" /\ mainSaved
    BY DEF FlowInv
<1>3. cpu \notin Members(runQueue) /\ (pc[cpu] # "spin" => cpu \notin Members(semQueue))
    BY DEF PlaceInv
<1>4. ASSUME pc[cpu] \notin {"spin", "exited"}
      PROVE  Alive(cpu)
  <2>1. state[cpu] \in {"NEW", "RUNNING", "RUNNABLE", "BLOCKED", "EXIT"}
    BY DEF TypeOK
  <2>2. state[cpu] \notin {"NEW", "BLOCKED", "EXIT"}
    BY <1>2, <1>3, <1>4 DEF PlaceInv, Finished
  <2> QED
    BY <2>1, <2>2 DEF Alive
<1>5. \A u \in Thread : u # cpu => pc[u] \notin YieldPoints
    BY DEF FlowInv
<1> QED
    BY <1>1, <1>2, <1>3, <1>4, <1>5

(* An assignment to the control point of one flow. *)
LEMMA Jump ==
    ASSUME TypeOK, NEW f \in Thread \cup {Main}, NEW q, pc' = [pc EXCEPT ![f] = q]
    PROVE  /\ pc'[f] = q
           /\ \A u \in Thread \cup {Main} : u # f => pc'[u] = pc[u]
    BY DEF TypeOK

(* A step of a thread that moves it on and changes neither a queue nor a state. *)
LEMMA LocalStep ==
    ASSUME Sched, NEW t \in Thread, NEW q \in {"read", "write", "signal", "wait", "shift", "swapmain"},
           cpu = t, pc[t] \in {"spin", "read", "write", "next", "test"},
           pc[t] = "spin" => t \notin spinning,
           q = "shift" => Loaded, q = "swapmain" => ~Loaded,
           pc' = [pc EXCEPT ![t] = q],
           UNCHANGED <<table, semQueue, cpu, old>>,
           spinning' \in {spinning, {}},
           TypeOK', \A u \in Thread : u # t => round'[u] = round[u],
           q = "wait" \/ round'[t] < Rounds
    PROVE  Sched'
<1> USE Constants
<1>1. /\ t = current_thread /\ t \in Created /\ t \notin Members(runQueue)
      /\ pc[t] # "spin" => t \notin Members(semQueue)
      /\ pc[Main] = "loop" /\ mainSaved
      /\ \A u \in Thread : u # t => pc[u] \notin YieldPoints
    BY Running
<1>2. t \notin Members(semQueue)
    BY <1>1 DEF Sched, PlaceInv
<1>4. /\ pc'[t] = q /\ pc'[Main] = "loop"
      /\ \A u \in Thread : u # t => pc'[u] = pc[u]
    BY <1>1, Jump DEF Sched
<1>5. spinning' = {} \/ spinning' = spinning
    OBVIOUS
<1>6. FlowInv'
    BY <1>1, <1>4 DEF Sched, FlowInv, MainPoints, YieldPoints, Created
<1>7. SlotInv'
    BY <1>4 DEF Sched, SlotInv, Created, Finished
<1>8. TurnInv'
  <2>1. cpu' = t /\ current_thread' = t /\ t # Main /\ ~Switching' /\ Loaded' = Loaded
    BY <1>1, <1>4 DEF Switching, Loaded
  <2> QED
    BY <1>4, <2>1 DEF TurnInv
<1>9. PlaceInv'
    BY <1>1, <1>2, <1>4 DEF Sched, PlaceInv, Created, Finished, Alive
<1> QED
    BY <1>6, <1>7, <1>8, <1>9 DEF Sched

(* main: the calls of mythread_create, then runthreads up to its swapcontext. *)
LEMMA CreateStep == ASSUME Sched, Create PROVE Sched'
<1> USE Constants
<1> DEFINE n == threadCounter
<1>1. /\ pc[Main] = "create" /\ cpu = Main /\ pc' = pc
      /\ n \in Thread /\ n \notin Created /\ Created \subseteq Thread /\ Created' = Created \cup {n}
      /\ Members(runQueue) = Created
  <2>1. pc' = pc /\ pc[Main] = "create" /\ cpu = Main /\ n < THREAD_MAX_SIZE /\ n \in Nat
    BY DEF Create, Goto, Sched, TypeOK
  <2>2. n \in Thread
    BY <2>1, ThreadsAssumption DEF Thread
  <2>3. threadCounter' = n + 1
    BY DEF Create
  <2>4. n \notin Created /\ Created \subseteq Thread
    BY <2>1 DEF Created
  <2>5. ASSUME NEW t \in Thread PROVE t < n + 1 <=> t < n \/ t = n
    BY <2>1
  <2>6. Created' = Created \cup {n}
    BY <2>2, <2>3, <2>5 DEF Created
  <2>7. Members(runQueue) = Created
    BY <2>1 DEF Sched, PlaceInv
  <2> QED
    BY <2>1, <2>2, <2>4, <2>6, <2>7
<1>2. /\ runQueue' = Append(runQueue, n)
      /\ runQueue' \in Seq(Thread) /\ NoTwice(runQueue') /\ Members(runQueue') = Created'
  <2>1. runQueue' = Append(runQueue, n) /\ runQueue \in Seq(Thread) /\ NoTwice(runQueue)
    BY DEF Create, Sched, TypeOK, PlaceInv
  <2> QED
    BY <1>1, <2>1, AppendMembers
<1>3. /\ state' \in [Thread -> {"NEW", "RUNNING", "RUNNABLE", "BLOCKED", "EXIT"}]
      /\ context' \in [Thread -> Thread \cup {Main, Garbage}]
      /\ state'[n] = "RUNNABLE" /\ context'[n] = n
      /\ \A t \in Thread : t # n => state'[t] = state[t] /\ context'[t] = context[t]
    BY <1>1 DEF Create, Sched, TypeOK
<1>4. threadCounter' \in 0..THREAD_MAX_SIZE
    BY ThreadsAssumption DEF Create, Sched, TypeOK
<1>5. UNCHANGED <<current_thread, mainSaved, sema, cpu, old, app>> /\ n # Main
    BY <1>1 DEF Create
<1> HIDE DEF n
<1>6. TypeOK'
    BY <1>1, <1>2, <1>3, <1>4, <1>5 DEF Sched, TypeOK
<1>7. FlowInv'
    BY <1>1, <1>5 DEF Sched, FlowInv
<1>8. SlotInv'
    BY <1>1, <1>3, <1>5 DEF Sched, SlotInv, Finished
<1>9. TurnInv'
    BY <1>1, <1>5 DEF Sched, TurnInv, Switching
<1>10. PlaceInv'
  <2>1. \A t \in Thread : pc[t] = "wait"
    BY <1>1 DEF Sched, FlowInv
  <2>2. \A t \in Members(semQueue) : t \in Created /\ pc[t] = "spin"
    BY DEF Sched, PlaceInv
  <2>3. Members(semQueue) = {}
    BY <1>1, <2>1, <2>2 DEF Created
  <2>4. \A t \in Created : t \in Thread /\ t # n /\ Alive(t)
    BY <1>1 DEF Created, Sched, PlaceInv
  <2>5. \A t \in Thread : ~Finished(t)' /\ ~Finished(t)
    BY <1>1, <2>1 DEF Finished
  <2>6. \A t \in Created' : Alive(t)' /\ state'[t] # "NEW" /\ t # cpu
    BY <1>1, <1>3, <2>4 DEF Alive
  <2>7. \A t \in Thread : (t \in Members(semQueue) <=> state[t] = "BLOCKED") /\ state[t] # "EXIT"
    BY <1>1, <2>5 DEF Sched, PlaceInv
  <2>8. \A t \in Thread : (t \in Members(semQueue) <=> state[t] = "BLOCKED")' /\ state'[t] # "EXIT"
    BY <1>1, <1>3, <1>5, <2>3, <2>7
  <2>9. semQueue' = semQueue /\ NoTwice(semQueue')
    BY <1>5 DEF Sched, PlaceInv
  <2> QED
    BY <1>1, <1>2, <1>5, <2>1, <2>3, <2>5, <2>6, <2>8, <2>9 DEF PlaceInv
<1> QED
    BY <1>6, <1>7, <1>8, <1>9, <1>10 DEF Sched

LEMMA RunThreadsStep == ASSUME Sched, RunThreads PROVE Sched'
<1> USE Constants
<1>0. pc[Main] = "create" /\ cpu = Main
    BY DEF RunThreads, Goto
<1>1. /\ Members(runQueue) = Created /\ runQueue \in Seq(Thread) /\ NoTwice(runQueue)
      /\ \A t \in Thread : pc[t] = "wait"
      /\ \A t \in Members(runQueue) : Alive(t) /\ ~Finished(t)
      /\ UNCHANGED <<threadCounter, context, mainSaved, sema, cpu, old, app>>
    BY <1>0 DEF RunThreads, Sched, TypeOK, FlowInv, PlaceInv
<1>2. CASE threadCounter = 0
  <2>1. Created = {}
    BY <1>2 DEF Created, Thread
  <2>2. UNCHANGED <<current_thread, runQueue, state>> /\ pc' = [pc EXCEPT ![Main] = "returned"]
    BY <1>2 DEF RunThreads, Goto
  <2>3. pc'[Main] = "returned" /\ \A t \in Thread : pc'[t] = pc[t]
    BY <2>2, Jump DEF Sched
  <2>4. ~Loaded /\ Created' = {}
    BY <1>1, <2>1, MembersType DEF Loaded, Created
  <2>5. TypeOK'
    BY <1>1, <2>2 DEF Sched, TypeOK
  <2>6. FlowInv'
    BY <1>0, <1>1, <2>1, <2>2, <2>3, <2>4 DEF Sched, FlowInv, MainPoints
  <2>7. SlotInv'
    BY <1>0, <1>1, <2>1, <2>2, <2>3, <2>4 DEF Sched, SlotInv
  <2>8. TurnInv'
    BY <1>0, <1>1, <2>1, <2>2, <2>3, <2>4 DEF Sched, TurnInv, Switching, Loaded
  <2>9. PlaceInv'
    BY <1>0, <1>1, <2>1, <2>2, <2>3, <2>4 DEF Sched, PlaceInv
  <2> QED
    BY <2>5, <2>6, <2>7, <2>8, <2>9 DEF Sched
<1>3. CASE threadCounter # 0
  <2>1. 0 \in Created
    BY <1>3 DEF Created, Sched, TypeOK
  <2>2. runQueue # <<>>
    BY <1>1, <2>1, MembersType
  <2> DEFINE h == Head(runQueue)
  <2>3. /\ h \in Created /\ h \in Thread /\ Tail(runQueue) \in Seq(Thread)
        /\ NoTwice(Tail(runQueue)) /\ Members(Tail(runQueue)) = Created \ {h}
    BY <1>1, <2>2, HeadTail
  <2>4. current_thread' = h /\ runQueue' = Tail(runQueue) /\ state' = [state EXCEPT ![h] = "RUNNING"]
        /\ pc' = [pc EXCEPT ![Main] = "enter"]
    BY <1>3 DEF RunThreads, Goto
  <2>5. pc'[Main] = "enter" /\ \A t \in Thread : pc'[t] = pc[t]
    BY <2>4, Jump DEF Sched
  <2>6. state'[h] = "RUNNING" /\ \A t \in Thread : t # h => state'[t] = state[t]
    BY <2>3, <2>4 DEF Sched, TypeOK
  <2>7. Created' = Created
    BY <1>1 DEF Created
  <2>8. TypeOK'
    BY <1>1, <2>3, <2>4 DEF Sched, TypeOK
  <2> HIDE DEF h
  <2>9. FlowInv'
    BY <1>0, <1>1, <2>5, <2>7 DEF Sched, FlowInv, MainPoints
  <2>10. SlotInv'
    BY <1>0, <1>1, <2>5, <2>7 DEF Sched, SlotInv, Finished
  <2>11. TurnInv'
    BY <1>0, <1>1, <2>3, <2>4, <2>5, <2>6, <2>7 DEF Sched, TurnInv, Switching, Alive, Finished
  <2>12. PlaceInv'
    BY <1>0, <1>1, <2>3, <2>4, <2>5, <2>6, <2>7 DEF Sched, PlaceInv, Alive, Finished, Created
  <2> QED
    BY <2>8, <2>9, <2>10, <2>11, <2>12 DEF Sched
<1> QED
    BY <1>2, <1>3

(* What swapcontext and setcontext do when the slots hold what they should. *)
LEMMA SwapRuns ==
    ASSUME Sched, NEW s \in Thread, NEW t \in Thread, s # t, cpu = s, context[t] = t,
           SwapToThread(s, t)
    PROVE  /\ cpu' = t /\ mainSaved' = mainSaved
           /\ context' \in [Thread -> Thread \cup {Main, Garbage}]
           /\ context'[t] = Garbage /\ context'[s] = s
           /\ \A u \in Thread : u \notin {s, t} => context'[u] = context[u]
<1> USE Constants
<1> DEFINE saved == [context EXCEPT ![s] = cpu]
<1>1. /\ saved \in [Thread -> Thread \cup {Main, Garbage}]
      /\ saved[s] = s /\ saved[t] = t
      /\ \A u \in Thread : u # s => saved[u] = context[u]
    BY DEF Sched, TypeOK
<1>2. /\ cpu' = t /\ mainSaved' = mainSaved
      /\ context' = [u \in Thread |-> IF saved[u] = t THEN Garbage ELSE saved[u]]
    BY <1>1 DEF SwapToThread, Resumed
<1>3. \A u \in Thread : context[u] \in {u, Garbage}
    BY DEF Sched, SlotInv
<1> HIDE DEF saved
<1> QED
    BY <1>1, <1>2, <1>3

LEMMA MainRuns ==
    ASSUME mainSaved, NEW slots \in [Thread -> Thread \cup {Garbage}], ResumeMain(slots)
    PROVE  cpu' = Main /\ mainSaved' = mainSaved /\ context' = slots
    BY Constants DEF ResumeMain, Resumed

(* main in runthreads: its first swapcontext, and its loop. *)
LEMMA EnterStep == ASSUME Sched, Enter PROVE Sched'
<1> USE Constants
<1> DEFINE c == current_thread
<1>1. /\ cpu = Main /\ pc[Main] = "enter" /\ c \in Created /\ c \in Thread
      /\ Alive(c) /\ ~Finished(c) /\ context[c] = c /\ Created \subseteq Thread
  <2>1. cpu = Main /\ pc[Main] = "enter"
    BY DEF Enter, Goto
  <2>2. c \in Created /\ c \in Thread /\ Alive(c) /\ ~Finished(c) /\ Created \subseteq Thread
    BY <2>1 DEF Sched, TurnInv, Created
  <2> QED
    BY <2>1, <2>2 DEF Sched, SlotInv
<1>2. /\ mainSaved' = TRUE /\ cpu' = c /\ context' = Resumed(context, c)
      /\ UNCHANGED <<threadCounter, runQueue, current_thread, state, sema, old, app>>
      /\ pc' = [pc EXCEPT ![Main] = "loop"] /\ Created' = Created
    BY <1>1 DEF Enter, Goto, Created
<1>3. /\ context' \in [Thread -> Thread \cup {Main, Garbage}]
      /\ context'[c] = Garbage
      /\ \A u \in Thread : u # c => context'[u] = context[u]
    BY <1>1, <1>2 DEF Sched, TypeOK, SlotInv, Resumed
<1>4. pc'[Main] = "loop" /\ \A u \in Thread : pc'[u] = pc[u]
    BY <1>2, Jump DEF Sched
<1>5. TypeOK'
    BY <1>1, <1>2, <1>3 DEF Sched, TypeOK
<1>6. FlowInv'
  <2>1. \A u \in Thread : pc[u] \notin YieldPoints /\ u \notin spinning
    BY <1>1 DEF Sched, FlowInv
  <2>2. spinning' = {}
    BY <1>2, <2>1 DEF Sched, TypeOK
  <2> QED
    BY <1>1, <1>2, <1>4, <2>1, <2>2 DEF Sched, FlowInv, MainPoints, Finished
<1>7. SlotInv'
    BY <1>1, <1>2, <1>3, <1>4 DEF Sched, SlotInv, Finished
<1>8. TurnInv'
  <2>1. pc[c] \notin YieldPoints
    BY <1>1 DEF Sched, FlowInv
  <2> QED
    BY <1>1, <1>2, <1>4, <2>1 DEF TurnInv, Switching, YieldPoints
<1>9. PlaceInv'
  <2>1. c \notin Members(runQueue) /\ c \notin Members(semQueue)
    BY <1>1 DEF Sched, PlaceInv, Alive
  <2> QED
    BY <1>1, <1>2, <1>4, <2>1 DEF Sched, PlaceInv, Finished, Alive
<1> QED
    BY <1>5, <1>6, <1>7, <1>8, <1>9 DEF Sched

LEMMA PopStep == ASSUME Sched, Pop PROVE Sched'
<1> USE Constants
<1> DEFINE h == Head(runQueue)
<1>1. cpu = Main /\ pc[Main] = "pop" /\ runQueue # <<>> /\ Finished(current_thread)
    BY DEF Pop, Goto, Sched, TurnInv, Loaded
<1>2. /\ h \in Members(runQueue) /\ h \in Thread /\ Tail(runQueue) \in Seq(Thread)
      /\ NoTwice(Tail(runQueue)) /\ Members(Tail(runQueue)) = Members(runQueue) \ {h}
    BY <1>1, HeadTail DEF Sched, TypeOK, PlaceInv
<1>3. /\ current_thread' = h /\ runQueue' = Tail(runQueue) /\ state' = [state EXCEPT ![h] = "RUNNING"]
      /\ pc' = [pc EXCEPT ![Main] = "enter"]
      /\ UNCHANGED <<threadCounter, context, mainSaved, sema, cpu, old, app>> /\ Created' = Created
    BY <1>1 DEF Pop, Goto, Shifted, Rest, Created
<1>4. pc'[Main] = "enter" /\ \A u \in Thread : pc'[u] = pc[u]
    BY <1>3, Jump DEF Sched
<1>5. state'[h] = "RUNNING" /\ \A t \in Thread : t # h => state'[t] = state[t]
    BY <1>2, <1>3 DEF Sched, TypeOK
<1>6. TypeOK'
    BY <1>2, <1>3 DEF Sched, TypeOK
<1>7. h \in Created /\ Created \subseteq Thread /\ Alive(h) /\ ~Finished(h)
    BY <1>2 DEF Sched, PlaceInv, Created
<1> HIDE DEF h
<1>8. FlowInv'
    BY <1>1, <1>3, <1>4 DEF Sched, FlowInv, MainPoints
<1>9. SlotInv'
    BY <1>3, <1>4 DEF Sched, SlotInv, Finished, Created
<1>10. TurnInv'
    BY <1>1, <1>3, <1>4, <1>5, <1>7 DEF Sched, TurnInv, Switching, Alive, Finished
<1>11. PlaceInv'
  <2>1. \A u \in Thread : pc[u] # "swap"
    BY <1>1 DEF Sched, FlowInv, YieldPoints
  <2>2. \A u \in Thread : (Finished(u)' <=> Finished(u)) /\ (Alive(u)' <=> Alive(u))
    BY <1>4, <1>5, <1>7 DEF Finished, Alive
  <2> QED
    BY <1>1, <1>2, <1>3, <1>4, <1>5, <1>7, <2>1, <2>2 DEF Sched, PlaceInv, Alive
<1> QED
    BY <1>6, <1>8, <1>9, <1>10, <1>11 DEF Sched

LEMMA LoopStep == ASSUME Sched, LoopTest \/ Return PROVE Sched'
<1> USE Constants
<1>1. cpu = Main /\ pc[Main] = "loop" /\ Created \subseteq Thread
    BY DEF LoopTest, Return, Goto, Created
<1>2. UNCHANGED <<threadCounter, runQueue, current_thread, context, mainSaved, sema, cpu, old, app>>
      /\ Created' = Created
    BY DEF LoopTest, Return, Created
<1>3. CASE LoopTest
  <2>1. runQueue # <<>> /\ pc' = [pc EXCEPT ![Main] = "pop"] /\ state' = state
    BY <1>3 DEF LoopTest, Goto
  <2>2. pc'[Main] = "pop" /\ \A u \in Thread : pc'[u] = pc[u]
    BY <2>1, Jump DEF Sched
  <2>3. TypeOK'
    BY <1>2, <2>1 DEF Sched, TypeOK
  <2>4. FlowInv'
    BY <1>1, <1>2, <2>2 DEF Sched, FlowInv, MainPoints
  <2>5. SlotInv'
    BY <1>1, <1>2, <2>2 DEF Sched, SlotInv, Finished
  <2>6. TurnInv'
    BY <1>1, <1>2, <2>1, <2>2 DEF Sched, TurnInv, Switching, Finished, Alive, Loaded
  <2>7. PlaceInv'
    BY <1>1, <1>2, <2>1, <2>2 DEF Sched, PlaceInv, Finished, Alive
  <2> QED
    BY <2>3, <2>4, <2>5, <2>6, <2>7 DEF Sched
<1>4. CASE Return
  <2>1. /\ runQueue = <<>> /\ pc' = [pc EXCEPT ![Main] = "returned"]
        /\ state' = [t \in Thread |-> IF t < threadCounter THEN "EXIT" ELSE state[t]]
    BY <1>4 DEF Return, Goto
  <2>2. pc'[Main] = "returned" /\ \A u \in Thread : pc'[u] = pc[u]
    BY <2>1, Jump DEF Sched
  <2>3. TypeOK'
    BY <1>2, <2>1 DEF Sched, TypeOK
  <2>4. FlowInv'
    BY <1>1, <1>2, <2>2 DEF Sched, FlowInv, MainPoints
  <2>5. SlotInv'
    BY <1>1, <1>2, <2>2 DEF Sched, SlotInv, Finished
  <2>6. TurnInv'
    BY <1>1, <1>2, <2>1, <2>2 DEF Sched, TurnInv, Switching, Finished, Alive, Loaded
  <2>7. \A t \in Created : state'[t] # "NEW"
    BY <1>1, <2>1 DEF Created
  <2>8. Members(runQueue) = {}
    BY <2>1, MembersType DEF Sched, TypeOK
  <2>9. PlaceInv'
    BY <1>1, <1>2, <2>1, <2>2, <2>7, <2>8 DEF Sched, PlaceInv, Finished
  <2> QED
    BY <2>3, <2>4, <2>5, <2>6, <2>9 DEF Sched
<1> QED
    BY <1>3, <1>4

(* mythread_exit, and the return of the thread's function. *)
LEMMA ExitStep == ASSUME Sched, NEW t \in Thread, Exit(t) PROVE Sched'
<1> USE Constants
<1>1. /\ cpu = t /\ pc[t] = "wait" /\ t = current_thread /\ t \in Created
      /\ t \notin Members(runQueue) /\ t \notin Members(semQueue)
      /\ pc[Main] = "loop" /\ mainSaved /\ Created \subseteq Thread
    BY Running DEF Exit, Goto, Created
<1>2. /\ state' = [state EXCEPT ![t] = "EXIT"] /\ pc' = [pc EXCEPT ![t] = "exited"]
      /\ UNCHANGED <<threadCounter, runQueue, current_thread, context, mainSaved, sema, cpu, old, app>>
      /\ Created' = Created
    BY <1>1 DEF Exit, Goto, Created
<1>3. pc'[t] = "exited" /\ pc'[Main] = "loop" /\ \A u \in Thread : u # t => pc'[u] = pc[u]
    BY <1>1, <1>2, Jump DEF Sched
<1>4. state'[t] = "EXIT" /\ \A u \in Thread : u # t => state'[u] = state[u]
    BY <1>2 DEF Sched, TypeOK
<1>5. TypeOK'
    BY <1>2 DEF Sched, TypeOK
<1>6. FlowInv'
    BY <1>1, <1>2, <1>3 DEF Sched, FlowInv, MainPoints, YieldPoints
<1>7. SlotInv'
    BY <1>1, <1>2, <1>3 DEF Sched, SlotInv, Finished
<1>8. TurnInv'
    BY <1>1, <1>2, <1>3 DEF TurnInv, Switching
<1>9. PlaceInv'
    BY <1>1, <1>2, <1>3, <1>4 DEF Sched, PlaceInv, Finished, Alive
<1> QED
    BY <1>5, <1>6, <1>7, <1>8, <1>9 DEF Sched

LEMMA FinishStep == ASSUME Sched, NEW t \in Thread, Finish(t) PROVE Sched'
<1> USE Constants
<1>1. /\ cpu = t /\ pc[t] = "exited" /\ t = current_thread /\ t \in Created
      /\ t \notin Members(runQueue) /\ t \notin Members(semQueue)
      /\ pc[Main] = "loop" /\ mainSaved /\ Created \subseteq Thread
      /\ \A u \in Thread : u # t => pc[u] \notin YieldPoints
    BY Running DEF Finish, Created
<1>2. /\ pc' = [pc EXCEPT ![Main] = "loop", ![t] = "gone"]
      /\ UNCHANGED <<threadCounter, runQueue, current_thread, state, sema, old, app>>
      /\ Created' = Created /\ ResumeMain(context)
    BY <1>1 DEF Finish, MainResumesAt, Created
<1>3. context \in [Thread -> Thread \cup {Garbage}]
    BY DEF Sched, TypeOK, SlotInv
<1>4. cpu' = Main /\ mainSaved' = mainSaved /\ context' = context
    BY <1>1, <1>2, <1>3, MainRuns
<1>5. pc'[t] = "gone" /\ pc'[Main] = "loop" /\ \A u \in Thread : u # t => pc'[u] = pc[u]
    BY <1>2 DEF Sched, TypeOK
<1>6. TypeOK'
    BY <1>2, <1>4 DEF Sched, TypeOK
<1>7. spinning = {}
    BY <1>1 DEF Sched, FlowInv
<1>8. FlowInv'
    BY <1>1, <1>2, <1>4, <1>5, <1>7 DEF Sched, FlowInv, MainPoints, YieldPoints
<1>9. SlotInv'
    BY <1>1, <1>2, <1>4, <1>5 DEF Sched, SlotInv, Finished
<1>10. TurnInv'
    BY <1>1, <1>2, <1>4, <1>5 DEF TurnInv, Switching, Finished
<1>11. PlaceInv'
    BY ZenonT(40), <1>1, <1>2, <1>4, <1>5 DEF Sched, PlaceInv, Finished, Alive
<1> QED
    BY <1>6, <1>8, <1>9, <1>10, <1>11 DEF Sched

(* semaphore_wait, and the masked half of semaphore_signal. *)
LEMMA WaitStep == ASSUME Sched, NEW t \in Thread, Wait(t) PROVE Sched'
<1> USE Constants
<1>1. /\ cpu = t /\ pc[t] = "wait" /\ t = current_thread /\ t \in Created
      /\ t \notin Members(runQueue) /\ t \notin Members(semQueue)
      /\ pc[Main] = "loop" /\ mainSaved /\ Created \subseteq Thread
      /\ \A u \in Thread : u # t => pc[u] \notin YieldPoints
    BY Running DEF Wait, Goto, Created
<1>2. /\ pc' = [pc EXCEPT ![t] = "spin"] /\ round[t] < Rounds
      /\ spinning' = spinning \cup {t} /\ semValue' \in Int
      /\ UNCHANGED <<threadCounter, runQueue, current_thread, context, mainSaved, cpu, old, app>>
      /\ Created' = Created
  <2>1. semValue \in Int
    BY DEF Sched, TypeOK
  <2>2. semValue' = semValue - 1
    BY DEF Wait
  <2> QED
    BY <1>1, <2>1, <2>2 DEF Wait, Goto, Created
<1>3. pc'[t] = "spin" /\ pc'[Main] = "loop" /\ \A u \in Thread : u # t => pc'[u] = pc[u]
    BY ZenonT(40), <1>1, <1>2, Jump DEF Sched
<1>4. spinning' = {t}
    BY <1>1, <1>2 DEF Sched, FlowInv
<1>5. \/ UNCHANGED <<state, semQueue>>
      \/ /\ semQueue' = Append(semQueue, t)
         /\ state' = [state EXCEPT ![t] = "BLOCKED"]
    BY <1>1 DEF Wait
<1>6. FlowInv'
    BY <1>1, <1>2, <1>3, <1>4 DEF Sched, FlowInv, MainPoints, YieldPoints
<1>7. SlotInv'
    BY <1>1, <1>2, <1>3 DEF Sched, SlotInv, Finished
<1>8. TurnInv'
    BY <1>1, <1>2, <1>3 DEF TurnInv, Switching
<1>9. CASE UNCHANGED <<state, semQueue>>
  <2>1. TypeOK'
    BY <1>2, <1>9 DEF Sched, TypeOK
  <2>2. \A u \in Thread : Finished(u)' <=> Finished(u)
    BY <1>1, <1>3 DEF Finished
  <2>3. \A u \in Thread : Alive(u)' <=> Alive(u)
    BY <1>9 DEF Alive
  <2>4. PlaceInv'
    BY ZenonT(40), <1>1, <1>2, <1>3, <1>4, <1>9, <2>2, <2>3 DEF Sched, PlaceInv
  <2> QED
    BY <1>6, <1>7, <1>8, <2>1, <2>4 DEF Sched
<1>10. CASE semQueue' = Append(semQueue, t) /\ state' = [state EXCEPT ![t] = "BLOCKED"]
  <2>1. /\ semQueue' \in Seq(Thread) /\ NoTwice(semQueue')
        /\ Members(semQueue') = Members(semQueue) \cup {t}
    BY <1>1, <1>10, AppendMembers DEF Sched, TypeOK, PlaceInv
  <2>2. state'[t] = "BLOCKED" /\ \A u \in Thread : u # t => state'[u] = state[u]
    BY <1>10 DEF Sched, TypeOK
  <2>3. TypeOK'
    BY <1>2, <1>10, <2>1 DEF Sched, TypeOK
  <2>4. \A u \in Thread : Finished(u)' <=> Finished(u)
    BY <1>1, <1>3 DEF Finished
  <2>5. \A u \in Thread : u # t => (Alive(u)' <=> Alive(u))
    BY <2>2 DEF Alive
  <2>6. ~Finished(t)
    BY <1>1 DEF Finished
  <2>7. \A u \in Thread :
           /\ u \in Members(semQueue') <=> state'[u] = "BLOCKED"
           /\ Finished(u)' <=> state'[u] = "EXIT"
    BY <1>1, <2>1, <2>2, <2>4, <2>6 DEF Sched, PlaceInv
  <2>8. \A u \in Members(semQueue') : u \in Created /\ pc'[u] = "spin" /\ (u = cpu => u \in spinning')
    BY <1>1, <1>3, <1>4, <2>1 DEF Sched, PlaceInv
  <2>9. \A u \in Members(runQueue) :
           u \in Created /\ Alive(u)' /\ ~Finished(u)' /\ u # current_thread /\ u # cpu
    BY <1>1, <2>4, <2>5 DEF Sched, PlaceInv
  <2>10. /\ NoTwice(runQueue) /\ \A u \in Created : state'[u] # "NEW"
         /\ \A u \in Created : ~Finished(u)' =>
               u \in Members(runQueue) \cup Members(semQueue') \cup {current_thread, cpu}
    BY <1>1, <2>1, <2>2, <2>4 DEF Sched, PlaceInv
  <2>11. \A u \in Thread : pc'[u] # "swap"
    BY <1>1, <1>3 DEF YieldPoints
  <2>12. PlaceInv'
    BY <1>1, <1>2, <1>3, <2>1, <2>7, <2>8, <2>9, <2>10, <2>11 DEF PlaceInv
  <2> QED
    BY <1>6, <1>7, <1>8, <2>3, <2>12 DEF Sched
<1> QED
    BY <1>5, <1>9, <1>10

LEMMA SignalStep ==
    ASSUME Sched, SemaphoreInv, NEW t \in Thread, Signal(t)
    PROVE  Sched'
<1> USE Constants
<1>1. /\ cpu = t /\ pc[t] = "signal" /\ t = current_thread /\ t \in Created
      /\ t \notin Members(runQueue) /\ t \notin Members(semQueue)
      /\ pc[Main] = "loop" /\ mainSaved /\ Created \subseteq Thread
      /\ \A u \in Thread : u # t => pc[u] \notin YieldPoints
    BY Running DEF Signal, Goto, Created
<1>2. /\ pc' = [pc EXCEPT ![t] = "test"] /\ semValue' \in Int
      /\ UNCHANGED <<threadCounter, current_thread, context, mainSaved, spinning, cpu, old, app>>
      /\ Created' = Created
  <2>1. semValue \in Int
    BY DEF Sched, TypeOK
  <2>2. semValue' = semValue + 1
    BY DEF Signal
  <2> QED
    BY <1>1, <2>1, <2>2 DEF Signal, Goto, Created
<1>3. pc'[t] = "test" /\ pc'[Main] = "loop" /\ \A u \in Thread : u # t => pc'[u] = pc[u]
    BY ZenonT(40), <1>1, <1>2, Jump DEF Sched
<1>4. FlowInv'
    BY <1>1, <1>2, <1>3 DEF Sched, FlowInv, MainPoints, YieldPoints
<1>5. SlotInv'
    BY <1>1, <1>2, <1>3 DEF Sched, SlotInv, Finished
<1>6. TurnInv'
    BY <1>1, <1>2, <1>3 DEF TurnInv, Switching
<1>7. CASE semValue + 1 <= 0
  <2> DEFINE h == Head(semQueue)
  <2>1. semQueue # <<>>
    <3>1. semValue \in Int /\ Len(semQueue) = IF semValue < 0 THEN -semValue ELSE 0
        BY DEF SemaphoreInv, Sched, TypeOK
    <3>2. Len(semQueue) # 0
        BY <1>7, <3>1
    <3> QED
        BY <3>2
  <2>2. /\ state' = [state EXCEPT ![h] = "RUNNABLE"]
        /\ runQueue' = Append(runQueue, h) /\ semQueue' = Tail(semQueue)
    BY <1>7, <2>1 DEF Signal, Shifted, Rest
  <2>3. /\ h \in Members(semQueue) /\ h \in Thread /\ Tail(semQueue) \in Seq(Thread)
        /\ NoTwice(Tail(semQueue)) /\ Members(Tail(semQueue)) = Members(semQueue) \ {h}
    BY <2>1, HeadTail DEF Sched, TypeOK, PlaceInv
  <2>4. h \in Created /\ pc[h] = "spin" /\ h # t /\ h \notin Members(runQueue) /\ ~Finished(h)
    BY <1>1, <2>3 DEF Sched, PlaceInv, Alive, Finished
  <2>5. /\ runQueue' \in Seq(Thread) /\ NoTwice(runQueue')
        /\ Members(runQueue') = Members(runQueue) \cup {h}
    BY <2>2, <2>3, <2>4, AppendMembers DEF Sched, TypeOK, PlaceInv
  <2>6. state'[h] = "RUNNABLE" /\ \A u \in Thread : u # h => state'[u] = state[u]
    BY <2>2, <2>3 DEF Sched, TypeOK
  <2> HIDE DEF h
  <2>7. TypeOK'
    BY <1>2, <2>2, <2>3, <2>5 DEF Sched, TypeOK, YieldPoints
  <2>8. PlaceInv'
    BY <1>1, <1>2, <1>3, <2>2, <2>3, <2>4, <2>5, <2>6 DEF Sched, PlaceInv, Finished, Alive
  <2> QED
    BY <1>4, <1>5, <1>6, <2>7, <2>8 DEF Sched
<1>8. CASE ~(semValue + 1 <= 0)
  <2>1. UNCHANGED <<state, runQueue, semQueue>>
    BY <1>8 DEF Signal
  <2>2. TypeOK'
    BY <1>2, <2>1 DEF Sched, TypeOK, YieldPoints
  <2>3. PlaceInv'
    BY <1>1, <1>2, <1>3, <2>1 DEF Sched, PlaceInv, Finished, Alive
  <2> QED
    BY <1>4, <1>5, <1>6, <2>2, <2>3 DEF Sched
<1> QED
    BY <1>7, <1>8

(* The handler of SIGALRM, in a thread's function. *)
LEMMA HandlerStep ==
    ASSUME Sched, Handler, cpu \in Thread, pc[cpu] \notin YieldPoints
    PROVE  Sched'
<1> USE Constants
<1> DEFINE c == current_thread
<1>1. /\ cpu = c /\ c \in Thread /\ c \in Created /\ c \notin Members(runQueue)
      /\ pc[c] # "spin" => c \notin Members(semQueue)
      /\ pc[c] \notin {"spin", "exited"} => Alive(c)
      /\ pc[Main] = "loop" /\ mainSaved /\ Created \subseteq Thread
      /\ \A u \in Thread : pc[u] \notin YieldPoints
    BY Running DEF Created, YieldPoints
<1>2. /\ UNCHANGED <<threadCounter, state, semValue, semQueue, old, app>>
      /\ spinning' = {} /\ Created' = Created
    BY DEF Handler, Created
<1>3. context \in [Thread -> Thread \cup {Garbage}] /\ Main \notin Thread
    BY DEF Sched, TypeOK, SlotInv
<1>4. CASE runQueue = <<>>
  <2>1. PICK slots \in [Thread -> Thread \cup {Garbage}] :
           /\ ResumeMain(slots)
           /\ \A u \in Thread : u # c => slots[u] = context[u]
           /\ slots[c] \in {context[c], c}
           /\ slots[c] # c => state[c] = "EXIT"
    <3>1. CASE state[c] = "EXIT"
      <4>1. ResumeMain(context)
        BY <1>4, <3>1 DEF Handler
      <4> QED
        BY <1>3, <3>1, <4>1
    <3>2. CASE state[c] # "EXIT"
      <4>1. ResumeMain([context EXCEPT ![c] = c])
        BY <1>1, <1>4, <3>2 DEF Handler
      <4>2. [context EXCEPT ![c] = c] \in [Thread -> Thread \cup {Garbage}]
        BY <1>1, <1>3
      <4> QED
        BY <1>1, <1>3, <4>1, <4>2
    <3> QED
      BY <3>1, <3>2
  <2>2. cpu' = Main /\ mainSaved' = mainSaved /\ context' = slots
    BY <1>1, <2>1, MainRuns
  <2>3. pc' = [pc EXCEPT ![Main] = "loop"] /\ UNCHANGED <<runQueue, current_thread>>
    BY <1>4 DEF Handler, MainResumesAt
  <2>4. pc'[Main] = "loop" /\ \A u \in Thread : pc'[u] = pc[u]
    BY <2>3, Jump DEF Sched
  <2>5. TypeOK'
    BY <1>2, <2>2, <2>3 DEF Sched, TypeOK
  <2>6. FlowInv'
    BY <1>1, <1>2, <2>2, <2>4 DEF Sched, FlowInv, MainPoints
  <2>7. SlotInv'
    <3>1. ~Finished(c) => context'[c] = c
        BY <1>1, <2>1, <2>2 DEF Sched, PlaceInv
    <3> QED
        BY <1>1, <1>2, <2>1, <2>2, <2>4, <3>1 DEF Sched, SlotInv, Finished
  <2>8. TurnInv'
    BY <1>4, <2>2, <2>3, <2>4 DEF TurnInv, Switching, Loaded
  <2>9. PlaceInv'
    BY <1>1, <1>2, <2>2, <2>3, <2>4 DEF Sched, PlaceInv, Alive, Finished
  <2> QED
    BY <2>5, <2>6, <2>7, <2>8, <2>9 DEF Sched
<1>5. CASE runQueue # <<>>
  <2> DEFINE h == Head(runQueue)
             rest == Tail(runQueue)
  <2>1. /\ h \in Members(runQueue) /\ h \in Thread /\ rest \in Seq(Thread)
        /\ NoTwice(rest) /\ Members(rest) = Members(runQueue) \ {h}
    BY <1>5, HeadTail DEF Sched, TypeOK, PlaceInv
  <2>2. /\ current_thread' = h /\ runQueue' = Requeue(rest, c)
        /\ SwapToThread(c, h) /\ pc' = pc
    BY <1>5 DEF Handler
  <2>3. h \in Created /\ h # c /\ Alive(h) /\ ~Finished(h) /\ context[h] = h
    BY <1>1, <2>1 DEF Sched, PlaceInv, SlotInv
  <2>4. /\ cpu' = h /\ mainSaved' = mainSaved
        /\ context' \in [Thread -> Thread \cup {Main, Garbage}]
        /\ context'[h] = Garbage /\ context'[c] = c
        /\ \A u \in Thread : u \notin {h, c} => context'[u] = context[u]
    BY ZenonT(40), <1>1, <2>1, <2>2, <2>3, SwapRuns
  <2>5. /\ runQueue' \in Seq(Thread) /\ NoTwice(runQueue')
        /\ Members(runQueue') = IF Alive(c) THEN (Members(runQueue) \ {h}) \cup {c}
                                            ELSE Members(runQueue) \ {h}
    <3>1. CASE Alive(c)
      <4>1. runQueue' = Append(rest, c) /\ c \notin Members(rest)
        BY <1>1, <2>1, <2>2, <3>1 DEF Requeue
      <4> HIDE DEF rest, h
      <4> QED
        BY <1>1, <2>1, <3>1, <4>1, AppendMembers
    <3>2. CASE ~Alive(c)
        BY <2>1, <2>2, <3>2 DEF Requeue
    <3> QED
        BY <3>1, <3>2
  <2> HIDE DEF h, rest
  <2>6. TypeOK'
    BY <1>2, <2>1, <2>2, <2>4, <2>5 DEF Sched, TypeOK
  <2>7. FlowInv'
    BY <1>1, <1>2, <2>1, <2>2, <2>3, <2>4 DEF Sched, FlowInv, Finished
  <2>8. SlotInv'
    BY <1>1, <1>2, <2>2, <2>3, <2>4 DEF Sched, SlotInv, Finished
  <2>9. TurnInv'
    <3>1. ~Switching' /\ pc'[cpu'] \notin YieldPoints /\ cpu' # Main /\ pc'[Main] = "loop"
        BY <1>1, <2>1, <2>2, <2>4 DEF Switching, YieldPoints
    <3> QED
        BY <2>2, <2>4, <3>1 DEF TurnInv, YieldPoints
  <2>10. PlaceInv'
    <3>1. \A u \in Thread : (Finished(u)' <=> Finished(u)) /\ (Alive(u)' <=> Alive(u))
        BY <1>2, <2>2 DEF Finished, Alive
    <3>2. ~Alive(c) /\ ~Finished(c) => c \in Members(semQueue)
      <4>1. ~Finished(c) => pc[c] = "spin" \/ Alive(c)
        BY <1>1 DEF Finished
      <4>2. state[c] \in {"NEW", "RUNNING", "RUNNABLE", "BLOCKED", "EXIT"} /\ state[c] # "NEW"
        BY <1>1 DEF Sched, TypeOK, PlaceInv
      <4> QED
        BY <1>1, <4>2 DEF Sched, PlaceInv, Alive
    <3>3. Alive(c) => ~Finished(c)
        BY <1>1 DEF Sched, PlaceInv, Alive
    <3>4. \A u \in Members(runQueue') :
             u \in Created /\ Alive(u)' /\ ~Finished(u)' /\ u # h
        BY ZenonT(40), <1>1, <2>3, <2>5, <3>1, <3>3 DEF Sched, PlaceInv
    <3>5. h \notin Members(semQueue)
        BY <1>1, <2>1, <2>3 DEF Sched, PlaceInv, Alive
    <3>6. \A u \in Created : ~Finished(u)' =>
             u \in Members(runQueue') \cup Members(semQueue) \cup {h}
        BY <1>1, <2>5, <3>1, <3>2 DEF Sched, PlaceInv
    <3>7. \A u \in Thread : pc[u] # "swap"
        BY <1>1 DEF YieldPoints
    <3> QED
        BY <1>1, <1>2, <2>2, <2>4, <2>5, <3>1, <3>4, <3>5, <3>6, <3>7 DEF Sched, PlaceInv
  <2> QED
    BY <2>6, <2>7, <2>8, <2>9, <2>10 DEF Sched
<1> QED
    BY <1>4, <1>5

(* The call of switch_thread in semaphore_signal. *)
LEMMA YieldShiftStep == ASSUME Sched, NEW t \in Thread, YieldShift(t) PROVE Sched'
<1> USE Constants
<1> DEFINE h == Head(runQueue)
<1>1. /\ cpu = t /\ pc[t] = "shift" /\ t = current_thread /\ t \in Created
      /\ t \notin Members(runQueue) /\ t \notin Members(semQueue) /\ Alive(t)
      /\ pc[Main] = "loop" /\ mainSaved /\ Created \subseteq Thread
      /\ \A u \in Thread : u # t => pc[u] \notin YieldPoints
    BY Running DEF YieldShift, Goto, Created
<1>2. runQueue # <<>>
    BY <1>1 DEF Sched, TurnInv, Loaded
<1>3. /\ h \in Members(runQueue) /\ h \in Thread /\ Tail(runQueue) \in Seq(Thread)
      /\ NoTwice(Tail(runQueue)) /\ Members(Tail(runQueue)) = Members(runQueue) \ {h}
    BY <1>2, HeadTail DEF Sched, TypeOK, PlaceInv
<1>4. /\ pc' = [pc EXCEPT ![t] = "append"] /\ old' = [old EXCEPT ![t] = t]
      /\ current_thread' = h /\ runQueue' = Tail(runQueue)
      /\ UNCHANGED <<threadCounter, state, context, mainSaved, sema, cpu, app>>
      /\ Created' = Created
    BY <1>1, <1>2 DEF YieldShift, Goto, Shifted, Rest, Created
<1>5. pc'[t] = "append" /\ pc'[Main] = "loop" /\ \A u \in Thread : u # t => pc'[u] = pc[u]
    BY ZenonT(40), <1>1, <1>4, Jump DEF Sched
<1>6. h \in Created /\ h # t /\ Alive(h) /\ ~Finished(h)
    BY <1>1, <1>3 DEF Sched, PlaceInv
<1>7. old'[t] = t
    BY <1>4 DEF Sched, TypeOK
<1> HIDE DEF h
<1>8. TypeOK'
    BY <1>3, <1>4 DEF Sched, TypeOK, YieldPoints
<1>9. FlowInv'
    BY <1>1, <1>4, <1>5 DEF Sched, FlowInv, MainPoints, YieldPoints
<1>10. SlotInv'
    BY <1>1, <1>4, <1>5 DEF Sched, SlotInv, Finished
<1>11. TurnInv'
    BY <1>1, <1>4, <1>5, <1>6, <1>7 DEF TurnInv, Switching, Alive, Finished
<1>12. PlaceInv'
  <2>1. \A u \in Thread : (Finished(u)' <=> Finished(u)) /\ (Alive(u)' <=> Alive(u))
    BY <1>1, <1>4, <1>5 DEF Finished, Alive
  <2>2. \A u \in Thread : pc'[u] # "swap"
    BY <1>1, <1>5 DEF YieldPoints
  <2>3. \A u \in Members(semQueue) : u \in Created /\ pc'[u] = "spin" /\ u # t
    BY <1>1, <1>5 DEF Sched, PlaceInv
  <2> QED
    BY <1>1, <1>3, <1>4, <1>5, <1>6, <2>1, <2>2, <2>3 DEF Sched, PlaceInv
<1> QED
    BY <1>8, <1>9, <1>10, <1>11, <1>12 DEF Sched

(* In the lines between the shift and the swap. *)
LEMMA SwitchingFacts ==
    ASSUME Sched, NEW t \in Thread, cpu = t, pc[t] \in {"append", "swap"}
    PROVE  /\ old[t] = t /\ t \in Created /\ t # current_thread
           /\ current_thread \in Created /\ Alive(current_thread) /\ ~Finished(current_thread)
           /\ current_thread \notin Members(runQueue) /\ current_thread \notin Members(semQueue)
           /\ context[current_thread] = current_thread
           /\ pc[Main] = "loop" /\ mainSaved /\ Created \subseteq Thread
           /\ \A u \in Thread : u # t => pc[u] \notin YieldPoints
           /\ t \notin Members(semQueue) /\ Alive(t) /\ (pc[t] = "append" => t \notin Members(runQueue))
<1> USE Constants
<1>1. Switching /\ Created \subseteq Thread
    BY DEF Switching, Created
<1>2. /\ old[t] = t /\ t # current_thread
      /\ current_thread \in Created /\ Alive(current_thread) /\ ~Finished(current_thread)
    BY <1>1 DEF Sched, TurnInv
<1>3. /\ t \in Created /\ pc[Main] = "loop" /\ mainSaved
      /\ \A u \in Thread : u # t => pc[u] \notin YieldPoints
    BY DEF Sched, FlowInv
<1>4. /\ current_thread \notin Members(runQueue) /\ current_thread \notin Members(semQueue)
      /\ t \notin Members(semQueue) /\ (pc[t] = "append" => t \notin Members(runQueue))
    BY <1>1, <1>2, <1>3 DEF Sched, PlaceInv, Alive
<1>5. context[current_thread] = current_thread
    BY <1>2 DEF Sched, SlotInv
<1>6. Alive(t)
  <2>1. state[t] \in {"NEW", "RUNNING", "RUNNABLE", "BLOCKED", "EXIT"}
    BY DEF Sched, TypeOK
  <2>2. state[t] \notin {"NEW", "BLOCKED", "EXIT"}
    BY <1>3, <1>4 DEF Sched, PlaceInv, Finished
  <2> QED
    BY <2>1, <2>2 DEF Alive
<1> QED
    BY <1>1, <1>2, <1>3, <1>4, <1>5, <1>6

LEMMA YieldAppendStep == ASSUME Sched, NEW t \in Thread, YieldAppend(t) PROVE Sched'
<1> USE Constants
<1>1. /\ cpu = t /\ pc[t] = "append" /\ pc' = [pc EXCEPT ![t] = "swap"]
      /\ runQueue' = Requeue(runQueue, old[t])
      /\ UNCHANGED <<threadCounter, current_thread, state, context, mainSaved, sema, cpu, old, app>>
      /\ Created' = Created
    BY DEF YieldAppend, Goto, Created
<1>2. /\ old[t] = t /\ t \in Created /\ t # current_thread
      /\ current_thread \in Created /\ Alive(current_thread) /\ ~Finished(current_thread)
      /\ pc[Main] = "loop" /\ mainSaved /\ Created \subseteq Thread
      /\ \A u \in Thread : u # t => pc[u] \notin YieldPoints
      /\ t \notin Members(semQueue) /\ Alive(t) /\ t \notin Members(runQueue)
    BY <1>1, SwitchingFacts
<1>3. pc'[t] = "swap" /\ pc'[Main] = "loop" /\ \A u \in Thread : u # t => pc'[u] = pc[u]
    BY ZenonT(40), <1>1, <1>2, Jump DEF Sched
<1>4. /\ runQueue' \in Seq(Thread) /\ NoTwice(runQueue')
      /\ Members(runQueue') = Members(runQueue) \cup {t}
    BY <1>1, <1>2, AppendMembers DEF Requeue, Sched, TypeOK, PlaceInv
<1>5. TypeOK'
    BY <1>1, <1>4 DEF Sched, TypeOK, YieldPoints
<1>6. FlowInv'
    BY <1>1, <1>2, <1>3 DEF Sched, FlowInv, MainPoints, YieldPoints
<1>7. SlotInv'
    BY <1>1, <1>2, <1>3 DEF Sched, SlotInv, Finished
<1>8. TurnInv'
    BY <1>1, <1>2, <1>3 DEF TurnInv, Switching, Alive, Finished
<1>9. PlaceInv'
  <2>1. \A u \in Thread : (Finished(u)' <=> Finished(u)) /\ (Alive(u)' <=> Alive(u))
    BY <1>1, <1>3 DEF Finished, Alive
  <2>2. ~Finished(t)
    BY <1>1 DEF Finished
  <2>3. \A u \in Members(runQueue') :
           u \in Created /\ Alive(u)' /\ ~Finished(u)' /\ u # current_thread /\ (u = t => pc'[u] = "swap")
    BY ZenonT(40), <1>2, <1>3, <1>4, <2>1, <2>2 DEF Sched, PlaceInv
  <2>4. \A u \in Members(semQueue) : u \in Created /\ pc'[u] = "spin" /\ u # t
    BY <1>2, <1>3 DEF Sched, PlaceInv
  <2>5. \A u \in Created : ~Finished(u)' =>
           u \in Members(runQueue') \cup Members(semQueue) \cup {current_thread, cpu}
    BY <1>2, <1>4, <2>1 DEF Sched, PlaceInv
  <2> QED
    BY <1>1, <1>2, <1>3, <1>4, <2>1, <2>3, <2>4, <2>5 DEF Sched, PlaceInv
<1> QED
    BY <1>5, <1>6, <1>7, <1>8, <1>9 DEF Sched

LEMMA YieldSwapStep == ASSUME Sched, NEW t \in Thread, YieldSwap(t) PROVE Sched'
<1> USE Constants
<1> DEFINE c == current_thread
<1>1. /\ cpu = t /\ pc[t] = "swap" /\ pc' = [pc EXCEPT ![t] = "next"]
      /\ SwapToThread(old[t], c)
      /\ UNCHANGED <<threadCounter, runQueue, current_thread, state, sema, old, app>>
      /\ Created' = Created
    BY DEF YieldSwap, Created
<1>2. /\ old[t] = t /\ t \in Created /\ t # c
      /\ c \in Created /\ c \in Thread /\ Alive(c) /\ ~Finished(c)
      /\ c \notin Members(runQueue) /\ c \notin Members(semQueue) /\ context[c] = c
      /\ pc[Main] = "loop" /\ mainSaved /\ Created \subseteq Thread
      /\ \A u \in Thread : u # t => pc[u] \notin YieldPoints
      /\ t \notin Members(semQueue) /\ Alive(t)
    BY <1>1, SwitchingFacts
<1>3. /\ cpu' = c /\ mainSaved' = mainSaved
      /\ context' \in [Thread -> Thread \cup {Main, Garbage}]
      /\ context'[c] = Garbage /\ context'[t] = t
      /\ \A u \in Thread : u \notin {t, c} => context'[u] = context[u]
    BY ZenonT(40), <1>1, <1>2, SwapRuns
<1>4. pc'[t] = "next" /\ pc'[Main] = "loop" /\ \A u \in Thread : u # t => pc'[u] = pc[u]
  <2>1. pc' = [pc EXCEPT ![t] = "next"] /\ pc[Main] = "loop" /\ TypeOK
    BY <1>1, <1>2 DEF Sched
  <2> QED
    BY <2>1, Jump
<1>5. \A u \in Thread : pc'[u] \notin YieldPoints
    BY <1>2, <1>4 DEF YieldPoints
<1>6. spinning = {}
    BY <1>1 DEF Sched, FlowInv
<1> HIDE DEF c
<1>7. TypeOK'
    BY <1>1, <1>2, <1>3 DEF Sched, TypeOK
<1>8. FlowInv'
    BY <1>1, <1>2, <1>3, <1>4, <1>5, <1>6 DEF Sched, FlowInv, MainPoints, YieldPoints, Finished
<1>9. SlotInv'
    BY <1>1, <1>2, <1>3, <1>4 DEF Sched, SlotInv, Finished
<1>10. TurnInv'
    BY <1>1, <1>2, <1>3, <1>4, <1>5 DEF TurnInv, Switching, YieldPoints, c
<1>11. PlaceInv'
  <2>1. \A u \in Thread : (Finished(u)' <=> Finished(u)) /\ (Alive(u)' <=> Alive(u))
    BY <1>1, <1>4 DEF Finished, Alive
  <2>2. \A u \in Members(runQueue) : u \in Created /\ Alive(u) /\ ~Finished(u) /\ u # c
    BY <1>2 DEF Sched, PlaceInv
  <2>3. \A u \in Members(semQueue) : u \in Created /\ pc'[u] = "spin" /\ u # c
    BY <1>2, <1>4 DEF Sched, PlaceInv
  <2>4. t \in Members(runQueue)
    BY <1>1 DEF Sched, PlaceInv
  <2>5. \A u \in Created : ~Finished(u) =>
           u \in Members(runQueue) \cup Members(semQueue) \cup {c}
    BY <1>1, <1>2, <2>4 DEF Sched, PlaceInv, c
  <2> QED
    BY ZenonT(40), <1>1, <1>2, <1>3, <1>4, <2>1, <2>2, <2>3, <2>5 DEF Sched, PlaceInv, c
<1> QED
    BY <1>7, <1>8, <1>9, <1>10, <1>11 DEF Sched

LEMMA YieldToMainStep == ASSUME Sched, NEW t \in Thread, YieldToMain(t) PROVE Sched'
<1> USE Constants
<1>1. /\ cpu = t /\ pc[t] = "swapmain" /\ t = current_thread /\ t \in Created
      /\ t \notin Members(runQueue) /\ t \notin Members(semQueue) /\ Alive(t)
      /\ pc[Main] = "loop" /\ mainSaved /\ Created \subseteq Thread
      /\ \A u \in Thread : u # t => pc[u] \notin YieldPoints
    BY Running DEF YieldToMain, Created
<1> DEFINE slots == [context EXCEPT ![t] = t]
<1>2. /\ pc' = [pc EXCEPT ![Main] = "loop", ![t] = "next"] /\ ResumeMain(slots)
      /\ UNCHANGED <<threadCounter, runQueue, current_thread, state, sema, old, app>>
      /\ Created' = Created
    BY <1>1 DEF YieldToMain, MainResumesAt, Created
<1>3. /\ slots \in [Thread -> Thread \cup {Garbage}] /\ slots[t] = t
      /\ \A u \in Thread : u # t => slots[u] = context[u]
    BY DEF Sched, TypeOK, SlotInv
<1> HIDE DEF slots
<1>4. cpu' = Main /\ mainSaved' = mainSaved /\ context' = slots
    BY <1>1, <1>2, <1>3, MainRuns
<1>5. pc'[t] = "next" /\ pc'[Main] = "loop" /\ \A u \in Thread : u # t => pc'[u] = pc[u]
    BY <1>2 DEF Sched, TypeOK
<1>6. spinning = {} /\ runQueue = <<>>
    BY <1>1 DEF Sched, FlowInv, TurnInv, Loaded
<1>7. TypeOK'
    BY <1>2, <1>3, <1>4 DEF Sched, TypeOK
<1>8. FlowInv'
    BY <1>1, <1>2, <1>4, <1>5, <1>6 DEF Sched, FlowInv, MainPoints, YieldPoints
<1>9. SlotInv'
    BY <1>1, <1>2, <1>3, <1>4, <1>5 DEF Sched, SlotInv, Finished
<1>10. TurnInv'
    BY <1>2, <1>4, <1>5, <1>6 DEF TurnInv, Switching, Loaded
<1>11. PlaceInv'
  <2>1. \A u \in Thread : (Finished(u)' <=> Finished(u)) /\ (Alive(u)' <=> Alive(u))
    BY <1>1, <1>2, <1>5 DEF Finished, Alive
  <2> QED
    BY <1>1, <1>2, <1>4, <1>5, <2>1 DEF Sched, PlaceInv
<1> QED
    BY <1>7, <1>8, <1>9, <1>10, <1>11 DEF Sched

---------------------------------------------------------------------------------

(* Sched holds in the initial states and is kept by every step. *)
LEMMA SchedInit == Init => Sched
<1> SUFFICES ASSUME Init PROVE Sched
    OBVIOUS
<1> USE Constants
<1>1. /\ threadCounter = 0 /\ runQueue = <<>> /\ semQueue = <<>> /\ current_thread = 0
      /\ cpu = Main /\ pc[Main] = "create" /\ spinning = {}
      /\ \A t \in Thread : pc[t] = "wait" /\ state[t] = "NEW" /\ context[t] = Garbage /\ round[t] = 0
    BY DEF Init
<1>2. Created = {}
  <2>1. \A t \in Thread : ~(t < threadCounter)
    BY <1>1
  <2> QED
    BY <2>1 DEF Created
<1>3. Members(runQueue) = {} /\ Members(semQueue) = {} /\ NoTwice(runQueue) /\ NoTwice(semQueue)
    BY <1>1, MembersType DEF Members, NoTwice
<1>4. TypeOK
    BY ThreadsAssumption DEF Init, TypeOK
<1>5. FlowInv
    BY <1>1, <1>2 DEF FlowInv, MainPoints, YieldPoints
<1>6. SlotInv
    BY <1>1, <1>2 DEF SlotInv
<1>7. TurnInv
    BY <1>1 DEF TurnInv, Switching
<1>8. PlaceInv
    BY <1>1, <1>2, <1>3 DEF PlaceInv, Finished
<1> QED
    BY <1>4, <1>5, <1>6, <1>7, <1>8 DEF Sched

LEMMA ApplicationStep ==
    ASSUME Sched, NEW t \in Thread,
           Spin(t) \/ ReadCounter(t) \/ WriteCounter(t) \/ NextRound(t) \/ YieldTest(t)
    PROVE  Sched'
<1> USE Constants
<1>1. CASE Spin(t)
  <2>1. TypeOK'
    BY <1>1 DEF Spin, Goto, Sched, TypeOK
  <2>2. round[t] < Rounds
    BY <1>1 DEF Spin, Goto, Sched, FlowInv
  <2> QED
    BY <1>1, <2>1, <2>2, LocalStep DEF Spin, Goto
<1>2. CASE ReadCounter(t)
  <2>1. TypeOK'
    BY <1>2 DEF ReadCounter, Goto, Sched, TypeOK
  <2>2. round[t] < Rounds
    BY <1>2 DEF ReadCounter, Goto, Sched, FlowInv
  <2> QED
    BY <1>2, <2>1, <2>2, LocalStep DEF ReadCounter, Goto
<1>3. CASE WriteCounter(t)
  <2>1. counter' \in Nat
    BY <1>3 DEF WriteCounter, Sched, TypeOK
  <2>2. TypeOK'
    BY <1>3, <2>1 DEF WriteCounter, Goto, Sched, TypeOK
  <2>3. round[t] < Rounds
    BY <1>3 DEF WriteCounter, Goto, Sched, FlowInv
  <2> QED
    BY <1>3, <2>2, <2>3, LocalStep DEF WriteCounter, Goto
<1>4. CASE NextRound(t)
  <2>1. round[t] < Rounds /\ round[t] \in 0..Rounds
    BY <1>4 DEF NextRound, Goto, Sched, FlowInv, TypeOK
  <2>2. round' = [round EXCEPT ![t] = round[t] + 1] /\ round[t] + 1 \in 0..Rounds
    BY <1>4, <2>1 DEF NextRound
  <2>3. round' \in [Thread -> 0..Rounds] /\ \A u \in Thread : u # t => round'[u] = round[u]
    BY <2>2 DEF Sched, TypeOK
  <2>4. TypeOK'
    BY <1>4, <2>3 DEF NextRound, Goto, Sched, TypeOK
  <2> QED
    BY <1>4, <2>3, <2>4, LocalStep DEF NextRound, Goto
<1>5. CASE YieldTest(t)
  <2>1. pc' = [pc EXCEPT ![t] = IF runQueue = <<>> THEN "swapmain" ELSE "shift"]
        /\ cpu = t /\ pc[t] = "test" /\ spinning' = {}
        /\ UNCHANGED <<table, semValue, semQueue, cpu, old, app>>
    BY <1>5 DEF YieldTest, Goto
  <2>2. TypeOK'
    BY <2>1 DEF Sched, TypeOK, YieldPoints
  <2>3. round[t] < Rounds
    BY <2>1 DEF Sched, FlowInv
  <2>4. CASE runQueue = <<>>
    BY <2>1, <2>2, <2>3, <2>4, LocalStep DEF Loaded
  <2>5. CASE runQueue # <<>>
    BY <2>1, <2>2, <2>3, <2>5, LocalStep DEF Loaded
  <2> QED
    BY <2>4, <2>5
<1> QED
    BY <1>1, <1>2, <1>3, <1>4, <1>5

(* Where SIGALRM arrives in this run of the system. *)
LEMMA AlarmWindow ==
    ASSUME Windows \subseteq {"thread"}, Alarm
    PROVE  cpu \in Thread /\ pc[cpu] \notin YieldPoints /\ Handler
    BY Constants DEF Alarm, Window

LEMMA SchedNext ==
    ASSUME Windows \subseteq {"thread"}, Sched, SemaphoreInv, [Next]_vars
    PROVE  Sched'
<1>1. CASE MainStep
    BY <1>1, CreateStep, RunThreadsStep, EnterStep, LoopStep, PopStep DEF MainStep
<1>2. CASE Alarm
    BY <1>2, AlarmWindow, HandlerStep
<1>3. ASSUME NEW t \in Thread, ThreadStep(t)
      PROVE  Sched'
    BY <1>3, WaitStep, SignalStep, ApplicationStep, YieldShiftStep, YieldAppendStep, YieldSwapStep,
       YieldToMainStep, ExitStep, FinishStep DEF ThreadStep
<1>4. CASE UNCHANGED vars
    BY <1>4 DEF Sched, TypeOK, FlowInv, SlotInv, TurnInv, PlaceInv, vars, Created, Finished, Alive,
                Switching, Loaded
<1> QED
    BY <1>1, <1>2, <1>3, <1>4 DEF Next, Over

---------------------------------------------------------------------------------
(* The semaphore and the counter *)

(* The control points from the call of semaphore_wait to that of
   semaphore_signal, and those after counter++ in a round. *)
Region == {"spin", "read", "write", "signal"}
Counted == {"signal", "next"} \cup YieldPoints

(* The counter of the test program, when one thread at a time is let in. *)
CountedInv ==
    Initial <= 1 =>
        /\ counter = Cardinality(Increments)
        /\ \A t \in Thread : pc[t] = "write" => local[t] = counter

LEMMA FiniteThreads == IsFiniteSet(Thread) /\ IsFiniteSet(Thread \X (0..Rounds))
<1>1. IsFiniteSet(Thread)
    BY FS_Interval, ThreadsAssumption DEF Thread
<1>2. IsFiniteSet(0..Rounds)
    BY FS_Interval, ThreadsAssumption
<1> QED
    BY <1>1, <1>2, FS_Product

(* Granted and Increments as finite sets over the constants. *)
GrantedSet ==
    /\ IsFiniteSet(Granted) /\ Cardinality(Granted) \in Nat
    /\ Granted = {t \in Thread : pc[t] \in Region /\ t \notin Members(semQueue)}

LEMMA GrantedFacts == Sched => GrantedSet
<1> SUFFICES ASSUME Sched PROVE GrantedSet
    OBVIOUS
<1>1. \A t \in Thread : InSemQueue(t) <=> t \in Members(semQueue)
    BY DEF InSemQueue, Members
<1>2. \A t \in Thread : pc[t] \in Region => t \in Created
    BY DEF Sched, FlowInv, Region
<1>3. Granted = {t \in Thread : pc[t] \in Region /\ t \notin Members(semQueue)}
    BY <1>1, <1>2 DEF Granted, Region, Created
<1>4. Granted \in SUBSET Thread
    BY <1>3
<1>5. IsFiniteSet(Granted)
    BY <1>4, FiniteThreads, FS_Subset
<1> QED
    BY <1>3, <1>5, FS_CardinalityType DEF GrantedSet

IncrementSet ==
    /\ IsFiniteSet(Increments) /\ Cardinality(Increments) \in Nat
    /\ Increments = {e \in Thread \X (0..Rounds) :
                       e[2] < round[e[1]] \/ (e[2] = round[e[1]] /\ pc[e[1]] \in Counted)}

LEMMA IncrementsFacts == Sched => IncrementSet
<1> SUFFICES ASSUME Sched PROVE IncrementSet
    OBVIOUS
<1>1. \A t \in Thread \ Created : pc[t] = "wait" /\ round[t] = 0
    BY DEF Sched, FlowInv
<1>2. "wait" \notin Counted
    BY DEF Counted, YieldPoints
<1>3. ASSUME NEW e \in Thread \X (0..Rounds),
             e[2] < round[e[1]] \/ (e[2] = round[e[1]] /\ pc[e[1]] \in Counted)
      PROVE  e \in Created \X (0..Rounds)
  <2>1. e[1] \in Thread /\ e[2] \in 0..Rounds /\ e = <<e[1], e[2]>>
    BY <1>3
  <2>2. ~(e[2] < 0)
    BY <2>1
  <2>3. e[1] \in Created
    BY <1>1, <1>2, <1>3, <2>1, <2>2
  <2> QED
    BY <2>1, <2>3
<1>4. Increments = {e \in Thread \X (0..Rounds) :
                      e[2] < round[e[1]] \/ (e[2] = round[e[1]] /\ pc[e[1]] \in Counted)}
  <2>1. Created \X (0..Rounds) \subseteq Thread \X (0..Rounds)
    BY DEF Created
  <2>2. Increments = {e \in Created \X (0..Rounds) :
                        e[2] < round[e[1]] \/ (e[2] = round[e[1]] /\ pc[e[1]] \in Counted)}
    BY DEF Increments, Counted
  <2> QED
    BY <1>3, <2>1, <2>2
<1>5. Increments \in SUBSET (Thread \X (0..Rounds))
    BY <1>4
<1>6. IsFiniteSet(Increments)
    BY <1>5, FiniteThreads, FS_Subset
<1> QED
    BY <1>4, <1>6, FS_CardinalityType DEF IncrementSet

(* No more threads than the semaphore lets in are in the region. *)
LEMMA CriticalBound ==
    ASSUME Sched, SemaphoreInv
    PROVE  /\ IsFiniteSet(Critical) /\ Cardinality(Critical) <= Initial
           /\ Initial <= 1 => \A t, u \in Critical : t = u
<1>1. Critical \in SUBSET Granted
    BY GrantedFacts DEF GrantedSet, Critical, Region, Sched, PlaceInv
<1>2. /\ IsFiniteSet(Critical) /\ Cardinality(Critical) <= Cardinality(Granted)
      /\ Cardinality(Critical) \in Nat /\ Cardinality(Granted) \in Nat
    BY <1>1, GrantedFacts, FS_Subset, FS_CardinalityType DEF GrantedSet
<1>3. semValue = Initial - Cardinality(Granted) - Len(semQueue) /\ semValue \in Int
      /\ Len(semQueue) = IF semValue < 0 THEN -semValue ELSE 0
    BY DEF SemaphoreInv, Sched, TypeOK
<1>4. Cardinality(Critical) <= Initial
    BY <1>2, <1>3, Constants
<1>5. ASSUME Initial <= 1, NEW t \in Critical, NEW u \in Critical, t # u
      PROVE  FALSE
  <2>1. IsFiniteSet({t}) /\ Cardinality({t}) = 1
    BY FS_Singleton
  <2>2. IsFiniteSet({t} \cup {u}) /\ Cardinality({t} \cup {u}) = 2
    BY <1>5, <2>1, FS_AddElement
  <2>3. Cardinality({t} \cup {u}) <= Cardinality(Critical)
    BY <1>2, <2>2, FS_Subset
  <2> QED
    BY <1>2, <1>4, <1>5, <2>2, <2>3, Constants
<1> QED
    BY <1>2, <1>4, <1>5

(* What the steps do to the region and to the counter that are none of the
   semaphore's and none of the counter's. *)
Bystander ==
    /\ UNCHANGED <<semValue, semQueue, round, local, counter>>
    /\ \A u \in Thread :
          /\ pc'[u] \in Region <=> pc[u] \in Region
          /\ pc'[u] \in Counted <=> pc[u] \in Counted
          /\ pc'[u] = "write" <=> pc[u] = "write"

LEMMA Bystanders ==
    ASSUME Sched, Sched',
           \/ MainStep
           \/ cpu \in Thread /\ Handler
           \/ \E t \in Thread :
                 \/ Spin(t) \/ YieldTest(t) \/ YieldShift(t) \/ YieldAppend(t) \/ YieldSwap(t)
                 \/ YieldToMain(t) \/ Exit(t) \/ Finish(t)
           \/ UNCHANGED vars
    PROVE  Bystander
<1> USE Constants
<1>1. CASE MainStep
  <2>1. PICK q : pc' = [pc EXCEPT ![Main] = q]
    BY <1>1 DEF MainStep, Create, RunThreads, Enter, LoopTest, Pop, Return, Goto
  <2>2. \A u \in Thread : pc'[u] = pc[u]
    BY <2>1, Jump DEF Sched
  <2>3. UNCHANGED <<semValue, semQueue, round, local, counter>>
    BY <1>1 DEF MainStep, Create, RunThreads, Enter, LoopTest, Pop, Return
  <2> QED
    BY <2>2, <2>3 DEF Bystander
<1>2. CASE Handler
  <2>1. \A u \in Thread : pc'[u] = pc[u]
    BY <1>2 DEF Handler, MainResumesAt, Sched, TypeOK
  <2>2. UNCHANGED <<semValue, semQueue, round, local, counter>>
    BY <1>2 DEF Handler
  <2> QED
    BY <2>1, <2>2 DEF Bystander
<1>3. ASSUME NEW t \in Thread,
             \/ Spin(t) \/ YieldTest(t) \/ YieldShift(t) \/ YieldAppend(t) \/ YieldSwap(t)
             \/ YieldToMain(t) \/ Exit(t) \/ Finish(t)
      PROVE  Bystander
  <2>1. UNCHANGED <<semValue, semQueue, round, local, counter>>
    BY <1>3 DEF Spin, YieldTest, YieldShift, YieldAppend, YieldSwap, YieldToMain, Exit, Finish
  <2>2. /\ \A u \in Thread : u # t => pc'[u] = pc[u]
        /\ \/ pc[t] = "spin" /\ pc'[t] = "read"
           \/ pc[t] \in YieldPoints /\ pc'[t] \in YieldPoints \cup {"next"}
           \/ pc[t] \in {"wait", "exited"} /\ pc'[t] \in {"exited", "gone"}
    <3>1. \/ pc[t] = "spin" /\ pc' = [pc EXCEPT ![t] = "read"]
          \/ pc[t] \in YieldPoints /\ \E q \in YieldPoints \cup {"next"} : pc' = [pc EXCEPT ![t] = q]
          \/ pc[t] \in YieldPoints /\ pc' = [pc EXCEPT ![Main] = "loop", ![t] = "next"]
          \/ pc[t] = "wait" /\ pc' = [pc EXCEPT ![t] = "exited"]
          \/ pc[t] = "exited" /\ pc' = [pc EXCEPT ![Main] = "loop", ![t] = "gone"]
        BY <1>3 DEF Spin, YieldTest, YieldShift, YieldAppend, YieldSwap, YieldToMain, Exit, Finish,
                    Goto, MainResumesAt, YieldPoints
    <3>2. ASSUME NEW q, pc' = [pc EXCEPT ![t] = q] \/ pc' = [pc EXCEPT ![Main] = "loop", ![t] = q]
          PROVE  pc'[t] = q /\ \A u \in Thread : u # t => pc'[u] = pc[u]
        BY <3>2 DEF Sched, TypeOK
    <3> QED
        BY <3>1, <3>2
  <2> QED
    BY <2>1, <2>2 DEF Bystander, Region, Counted, YieldPoints
<1>4. CASE UNCHANGED vars
    BY <1>4 DEF vars, Bystander
<1> QED
    BY <1>1, <1>2, <1>3, <1>4

LEMMA FactsNext == Sched' => GrantedSet' /\ IncrementSet'
    BY GrantedFacts, IncrementsFacts, PTL

LEMMA SameIncrements ==
    ASSUME Sched, Sched', round' = round,
           \A u \in Thread : pc'[u] \in Counted <=> pc[u] \in Counted
    PROVE  Increments' = Increments
    BY IncrementsFacts, FactsNext DEF IncrementSet

LEMMA BystanderKeeps ==
    ASSUME Sched, Sched', SemaphoreInv, CountedInv, Bystander
    PROVE  SemaphoreInv' /\ CountedInv'
<1>1. Granted' = Granted
    BY GrantedFacts, FactsNext DEF GrantedSet, Bystander
<1>2. Increments' = Increments
    BY SameIncrements DEF Bystander
<1>3. SemaphoreInv'
    BY <1>1 DEF SemaphoreInv, Bystander
<1>4. CountedInv'
    BY <1>2 DEF CountedInv, Bystander
<1> QED
    BY <1>3, <1>4

(* The value of the semaphore against the grants and the blocked threads. *)
Balance(v, g, l) ==
    /\ v = Initial - g - l
    /\ l = IF v < 0 THEN 0 - v ELSE 0

LEMMA Balances ==
    ASSUME NEW v \in Int, NEW g \in Nat, NEW l \in Nat, Balance(v, g, l)
    PROVE  /\ v - 1 < 0 => Balance(v - 1, g, l + 1)
           /\ ~(v - 1 < 0) => Balance(v - 1, g + 1, l)
           /\ v + 1 <= 0 => l # 0 /\ Balance(v + 1, (g - 1) + 1, l - 1)
           /\ ~(v + 1 <= 0) => Balance(v + 1, g - 1, l)
    BY Constants DEF Balance

LEMMA SemaphoreBalance ==
    ASSUME Sched
    PROVE  /\ semValue \in Int /\ Len(semQueue) \in Nat /\ Cardinality(Granted) \in Nat
           /\ semQueue \in Seq(Thread) /\ NoTwice(semQueue)
           /\ SemaphoreInv <=> Balance(semValue, Cardinality(Granted), Len(semQueue))
<1>1. semValue \in Int /\ semQueue \in Seq(Thread) /\ NoTwice(semQueue)
    BY DEF Sched, TypeOK, PlaceInv
<1>2. Len(semQueue) \in Nat
    BY <1>1
<1>3. -semValue = 0 - semValue
    BY <1>1
<1> QED
    BY <1>1, <1>2, <1>3, GrantedFacts DEF GrantedSet, SemaphoreInv, Balance

LEMMA BalanceNext ==
    ASSUME Sched', Balance(semValue', Cardinality(Granted'), Len(semQueue'))
    PROVE  SemaphoreInv'
<1>1. semValue' \in Int
    BY DEF Sched, TypeOK
<1>2. -semValue' = 0 - semValue'
    BY <1>1
<1> QED
    BY <1>2 DEF SemaphoreInv, Balance

LEMMA WaitKeeps ==
    ASSUME Sched, Sched', SemaphoreInv, CountedInv, NEW t \in Thread, Wait(t)
    PROVE  SemaphoreInv' /\ CountedInv'
<1> USE Constants
<1>1. /\ cpu = t /\ pc[t] = "wait" /\ t = current_thread /\ t \notin Members(semQueue)
      /\ pc' = [pc EXCEPT ![t] = "spin"] /\ semValue' = semValue - 1
      /\ UNCHANGED <<round, local, counter>>
    BY Running DEF Wait, Goto
<1>2. pc'[t] = "spin" /\ \A u \in Thread : u # t => pc'[u] = pc[u]
    BY <1>1, Jump DEF Sched
<1>3. Increments' = Increments
    BY <1>1, <1>2, SameIncrements DEF Counted, YieldPoints
<1>4. CountedInv'
    BY <1>1, <1>2, <1>3 DEF CountedInv
<1> DEFINE g == Cardinality(Granted)
<1>5. /\ semValue \in Int /\ Len(semQueue) \in Nat /\ g \in Nat
      /\ semQueue \in Seq(Thread) /\ NoTwice(semQueue)
      /\ Balance(semValue, g, Len(semQueue))
    BY SemaphoreBalance
<1>6. t \notin Granted
    BY <1>1, GrantedFacts DEF GrantedSet, Region
<1>7. CASE semValue - 1 < 0
  <2>1. semQueue' = Append(semQueue, t)
    BY <1>1, <1>7 DEF Wait
  <2>2. Len(semQueue') = Len(semQueue) + 1 /\ Members(semQueue') = Members(semQueue) \cup {t}
    BY <1>5, <2>1, AppendMembers
  <2>3. Granted' = Granted
    BY <1>1, <1>2, <2>2, GrantedFacts, FactsNext DEF GrantedSet, Region
  <2>4. Cardinality(Granted') = g
    BY <2>3
  <2> HIDE DEF g
  <2>5. Balance(semValue - 1, g, Len(semQueue) + 1)
    BY <1>5, <1>7, Balances
  <2> QED
    BY <1>1, <1>4, <2>2, <2>4, <2>5, BalanceNext
<1>8. CASE ~(semValue - 1 < 0)
  <2>1. semQueue' = semQueue
    BY <1>1, <1>8 DEF Wait
  <2>2. Granted' = Granted \cup {t}
    BY <1>1, <1>2, <2>1, GrantedFacts, FactsNext DEF GrantedSet, Region
  <2>3. Cardinality(Granted') = g + 1
    BY <1>6, <2>2, GrantedFacts, FS_AddElement DEF GrantedSet
  <2> HIDE DEF g
  <2>4. Balance(semValue - 1, g + 1, Len(semQueue))
    BY <1>5, <1>8, Balances
  <2> QED
    BY <1>1, <1>4, <2>1, <2>3, <2>4, BalanceNext
<1> QED
    BY <1>7, <1>8

LEMMA SignalKeeps ==
    ASSUME Sched, Sched', SemaphoreInv, CountedInv, NEW t \in Thread, Signal(t)
    PROVE  SemaphoreInv' /\ CountedInv'
<1> USE Constants
<1>1. /\ cpu = t /\ pc[t] = "signal" /\ t \notin Members(semQueue)
      /\ pc' = [pc EXCEPT ![t] = "test"] /\ semValue' = semValue + 1
      /\ UNCHANGED <<round, local, counter>>
    BY Running DEF Signal, Goto
<1>2. pc'[t] = "test" /\ \A u \in Thread : u # t => pc'[u] = pc[u]
    BY <1>1, Jump DEF Sched
<1>3. Increments' = Increments
    BY <1>1, <1>2, SameIncrements DEF Counted, YieldPoints
<1>4. CountedInv'
    BY <1>1, <1>2, <1>3 DEF CountedInv
<1> DEFINE g == Cardinality(Granted)
<1>5. /\ semValue \in Int /\ Len(semQueue) \in Nat /\ g \in Nat
      /\ semQueue \in Seq(Thread) /\ NoTwice(semQueue)
      /\ Balance(semValue, g, Len(semQueue))
    BY SemaphoreBalance
<1>6. t \in Granted /\ IsFiniteSet(Granted \ {t}) /\ Cardinality(Granted \ {t}) = g - 1
    BY <1>1, GrantedFacts, FS_RemoveElement DEF GrantedSet, Region
<1>7. CASE semValue + 1 <= 0
  <2> DEFINE h == Head(semQueue)
  <2>1. semQueue # <<>>
    <3>1. Len(semQueue) # 0
        BY <1>5, <1>7, Balances
    <3> QED
        BY <3>1
  <2>2. semQueue' = Tail(semQueue)
    BY <1>1, <1>7, <2>1 DEF Signal, Rest
  <2>3. /\ h \in Members(semQueue) /\ h \in Thread /\ Len(semQueue') = Len(semQueue) - 1
        /\ Members(semQueue') = Members(semQueue) \ {h}
    BY <1>5, <2>1, <2>2, HeadTail
  <2>4. h # t /\ pc[h] = "spin" /\ h \notin Granted
    BY <1>1, <2>3, GrantedFacts DEF GrantedSet, Sched, PlaceInv
  <2> HIDE DEF h
  <2>5. Granted' = (Granted \ {t}) \cup {h}
    BY <1>1, <1>2, <2>3, <2>4, GrantedFacts, FactsNext DEF GrantedSet, Region
  <2> HIDE DEF g
  <2>6. Cardinality(Granted') = (g - 1) + 1
    BY <1>6, <2>4, <2>5, FS_AddElement
  <2>7. Balance(semValue + 1, (g - 1) + 1, Len(semQueue) - 1)
    BY <1>5, <1>7, Balances
  <2> QED
    BY <1>1, <1>4, <2>3, <2>6, <2>7, BalanceNext
<1>8. CASE ~(semValue + 1 <= 0)
  <2>1. semQueue' = semQueue
    BY <1>1, <1>8 DEF Signal
  <2>2. Granted' = Granted \ {t}
    BY <1>1, <1>2, <2>1, GrantedFacts, FactsNext DEF GrantedSet, Region
  <2>3. Cardinality(Granted') = g - 1
    BY <1>6, <2>2
  <2> HIDE DEF g
  <2>4. Balance(semValue + 1, g - 1, Len(semQueue))
    BY <1>5, <1>8, Balances
  <2> QED
    BY <1>1, <1>4, <2>1, <2>3, <2>4, BalanceNext
<1> QED
    BY <1>7, <1>8

(* The two halves of counter++, and i++. *)
LEMMA CounterKeeps ==
    ASSUME Sched, Sched', SemaphoreInv, CountedInv, NEW t \in Thread,
           ReadCounter(t) \/ WriteCounter(t) \/ NextRound(t)
    PROVE  SemaphoreInv' /\ CountedInv'
<1> USE Constants
<1>1. UNCHANGED <<semValue, semQueue>>
    BY DEF ReadCounter, WriteCounter, NextRound
<1>2. /\ \A u \in Thread : u # t => pc'[u] = pc[u]
      /\ \/ pc[t] = "read" /\ pc'[t] = "write"
         \/ pc[t] = "write" /\ pc'[t] = "signal"
         \/ pc[t] = "next" /\ pc'[t] = "wait"
    BY Jump DEF ReadCounter, WriteCounter, NextRound, Goto, Sched
<1>3. Granted' = Granted
    BY <1>1, <1>2, GrantedFacts, FactsNext DEF GrantedSet, Region
<1>4. SemaphoreInv'
    BY <1>1, <1>3 DEF SemaphoreInv
<1>5. ASSUME Initial <= 1
      PROVE  /\ counter' = Cardinality(Increments')
             /\ \A u \in Thread : pc'[u] = "write" => local'[u] = counter'
  <2>0. /\ counter = Cardinality(Increments)
        /\ \A u \in Thread : pc[u] = "write" => local[u] = counter
    BY <1>5 DEF CountedInv
  <2>1. CASE ReadCounter(t)
    <3>1. pc[t] = "read" /\ pc'[t] = "write" /\ round' = round /\ counter' = counter
          /\ local' = [local EXCEPT ![t] = counter]
        BY <1>2, <2>1 DEF ReadCounter, Goto
    <3>2. Increments' = Increments
        BY <1>2, <3>1, SameIncrements DEF Counted, YieldPoints
    <3>3. local'[t] = counter /\ \A u \in Thread : u # t => local'[u] = local[u]
        BY <3>1 DEF Sched, TypeOK
    <3> QED
        BY <1>2, <2>0, <3>1, <3>2, <3>3
  <2>2. CASE WriteCounter(t)
    <3>1. pc[t] = "write" /\ pc'[t] = "signal" /\ round' = round /\ counter' = local[t] + 1
        BY <1>2, <2>2 DEF WriteCounter, Goto
    <3> DEFINE e == <<t, round[t]>>
    <3>2. e \in Thread \X (0..Rounds) /\ e[1] = t /\ e[2] = round[t] /\ round[t] \in Nat
        BY DEF Sched, TypeOK
    <3>3. e \notin Increments
        BY <3>1, <3>2, IncrementsFacts DEF IncrementSet, Counted, YieldPoints
    <3>4. Increments' = Increments \cup {e}
      <4>1. \A x \in Thread \X (0..Rounds) : x[1] = t /\ x[2] = round[t] <=> x = e
        OBVIOUS
      <4>2. \A u \in Thread : pc'[u] \in Counted <=> pc[u] \in Counted \/ u = t
        BY <1>2, <3>1 DEF Counted, YieldPoints
      <4> HIDE DEF e
      <4>3. \A x \in Thread \X (0..Rounds) : x[1] \in Thread
        OBVIOUS
      <4>4. \A x \in Thread \X (0..Rounds) :
               (x[2] < round'[x[1]] \/ (x[2] = round'[x[1]] /\ pc'[x[1]] \in Counted))
               <=> \/ x[2] < round[x[1]] \/ (x[2] = round[x[1]] /\ pc[x[1]] \in Counted)
                   \/ x = e
        BY <3>1, <4>1, <4>2, <4>3
      <4> QED
        BY <3>2, <4>4, IncrementsFacts, FactsNext DEF IncrementSet
    <3>5. Cardinality(Increments') = Cardinality(Increments) + 1
        BY <3>3, <3>4, IncrementsFacts, FS_AddElement DEF IncrementSet
    <3>6. \A u \in Thread : pc'[u] # "write"
      <4>1. \A u \in Thread : pc[u] = "write" => u = t
        BY <1>5, <3>1, CriticalBound DEF Critical
      <4> QED
        BY <1>2, <3>1, <4>1
    <3> QED
        BY <2>0, <3>1, <3>5, <3>6
  <2>3. CASE NextRound(t)
    <3>1. pc[t] = "next" /\ pc'[t] = "wait" /\ counter' = counter /\ local' = local
          /\ round' = [round EXCEPT ![t] = @ + 1]
        BY <1>2, <2>3 DEF NextRound, Goto
    <3>2. round'[t] = round[t] + 1 /\ round[t] \in Nat /\ \A u \in Thread : u # t => round'[u] = round[u]
        BY <3>1 DEF Sched, TypeOK
    <3>3. \A k \in 0..Rounds : k < round'[t] <=> k < round[t] \/ k = round[t]
        BY <3>2
    <3>4. /\ \A k \in 0..Rounds : k = round'[t] => ~(k < round[t])
          /\ pc[t] \in Counted /\ pc'[t] \notin Counted
        BY <3>1, <3>2 DEF Counted, YieldPoints
    <3>5. ASSUME NEW x \in Thread \X (0..Rounds)
          PROVE  (x[2] < round'[x[1]] \/ (x[2] = round'[x[1]] /\ pc'[x[1]] \in Counted))
                 <=> (x[2] < round[x[1]] \/ (x[2] = round[x[1]] /\ pc[x[1]] \in Counted))
      <4>1. x[1] \in Thread /\ x[2] \in 0..Rounds
        OBVIOUS
      <4> QED
        BY <1>2, <3>2, <3>3, <3>4, <4>1
    <3>6. Increments' = Increments
        BY <3>5, IncrementsFacts, FactsNext DEF IncrementSet
    <3> QED
        BY <1>2, <2>0, <3>1, <3>6
  <2> QED
    BY <2>1, <2>2, <2>3
<1> QED
    BY <1>4, <1>5 DEF CountedInv

---------------------------------------------------------------------------------

(* The inductive invariant. *)
Ind == Sched /\ SemaphoreInv /\ CountedInv

LEMMA IndInit == Init => Ind
<1> SUFFICES ASSUME Init PROVE Ind
    OBVIOUS
<1> USE Constants
<1>1. Sched
    BY SchedInit
<1>2. /\ semValue = Initial /\ semQueue = <<>> /\ counter = 0
      /\ \A t \in Thread : pc[t] = "wait" /\ round[t] = 0
    BY DEF Init
<1>3. Granted = {}
    BY <1>1, <1>2, GrantedFacts DEF GrantedSet, Region
<1>4. Increments = {}
  <2>1. "wait" \notin Counted
    BY DEF Counted, YieldPoints
  <2>2. \A e \in Thread \X (0..Rounds) : e[1] \in Thread /\ ~(e[2] < 0)
    OBVIOUS
  <2> QED
    BY <1>1, <1>2, <2>1, <2>2, IncrementsFacts DEF IncrementSet
<1>5. SemaphoreInv
  <2>1. Cardinality(Granted) = 0 /\ Len(semQueue) = 0
    BY <1>2, <1>3, FS_EmptySet
  <2>2. Balance(semValue, Cardinality(Granted), Len(semQueue))
    BY <1>2, <2>1 DEF Balance
  <2> QED
    BY <1>1, <2>2, SemaphoreBalance
<1>6. CountedInv
    BY <1>2, <1>4, FS_EmptySet DEF CountedInv
<1> QED
    BY <1>1, <1>5, <1>6 DEF Ind

LEMMA IndNext ==
    ASSUME Windows \subseteq {"thread"}, Ind, [Next]_vars
    PROVE  Ind'
<1>1. Sched /\ SemaphoreInv /\ CountedInv
    BY DEF Ind
<1>2. Sched'
    BY <1>1, SchedNext
<1>3. CASE MainStep \/ Alarm \/ UNCHANGED vars
    BY <1>1, <1>2, <1>3, AlarmWindow, Bystanders, BystanderKeeps DEF Ind
<1>4. ASSUME NEW t \in Thread, ThreadStep(t)
      PROVE  Ind'
  <2>1. CASE Wait(t) \/ Signal(t) \/ ReadCounter(t) \/ WriteCounter(t) \/ NextRound(t)
    BY <1>1, <1>2, <2>1, WaitKeeps, SignalKeeps, CounterKeeps DEF Ind
  <2>2. CASE \/ Spin(t) \/ YieldTest(t) \/ YieldShift(t) \/ YieldAppend(t) \/ YieldSwap(t)
             \/ YieldToMain(t) \/ Exit(t) \/ Finish(t)
    BY <1>1, <1>2, <2>2, Bystanders, BystanderKeeps DEF Ind
  <2> QED
    BY <1>4, <2>1, <2>2 DEF ThreadStep
<1> QED
    BY <1>3, <1>4 DEF Next, Over

(* The inductive invariant holds in every reachable state: the scheduler, the
   semaphore and the counter of the test program (mythreads.c, ass1.c). *)
THEOREM Inductive == ASSUME Windows \subseteq {"thread"} PROVE Spec => []Ind
<1>1. Init => Ind
    BY IndInit
<1>2. Ind /\ [Next]_vars => Ind'
    BY IndNext
<1> QED
    BY <1>1, <1>2, PTL DEF Spec

(* The processor executes current_thread, and every thread that is neither running
   nor finished is saved in its own slot: no swapcontext or setcontext of
   mythreads.c resumes a context that is out of date. *)
THEOREM Contexts == ASSUME Windows \subseteq {"thread"} PROVE Spec => []ContextInv
<1>1. Ind => ContextInv
  <2>1. SUFFICES ASSUME Sched PROVE ContextInv
    BY DEF Ind
  <2> QED
    BY <2>1, Constants DEF Sched, FlowInv, SlotInv, TurnInv, Switching, ContextInv, Created, Finished, TypeOK
<1> QED
    BY <1>1, Inductive, PTL

(* No thread is twice in a queue or in both: what mythread_create, switch_thread,
   semaphore_wait and semaphore_signal append and shift keeps a thread runnable
   or blocked, never lost between the two and never scheduled twice. *)
THEOREM Queues == ASSUME Windows \subseteq {"thread"} PROVE Spec => []QueueInv
<1>1. Ind => QueueInv
  <2>1. SUFFICES ASSUME Sched PROVE QueueInv
    BY DEF Ind
  <2>2. \A t \in Thread : /\ InRunQueue(t) <=> t \in Members(runQueue)
                          /\ InSemQueue(t) <=> t \in Members(semQueue)
    BY DEF InRunQueue, InSemQueue, Members
  <2> QED
    BY <2>1, <2>2 DEF Sched, PlaceInv, NoTwice, QueueInv
<1> QED
    BY <1>1, Inductive, PTL

(* The value of the semaphore is the initial one less the threads let in and those
   queued, and is negative exactly by the number of those queued: semaphore_signal
   loses no grant and hands none out twice, although a blocked thread spins. *)
THEOREM Semaphore == ASSUME Windows \subseteq {"thread"} PROVE Spec => []SemaphoreInv
<1>1. Ind => SemaphoreInv
    BY DEF Ind
<1> QED
    BY <1>1, Inductive, PTL

(* No more threads than the semaphore was created with are between semaphore_wait
   and semaphore_signal, and if that is one at a time the counter of ass1.c is the
   number of counter++ that were executed: no update is lost. *)
THEOREM Counter == ASSUME Windows \subseteq {"thread"} PROVE Spec => []CounterExact
<1>1. Ind => CounterExact
    BY CriticalBound DEF Ind, CounterExact, CountedInv
<1> QED
    BY <1>1, Inductive, PTL

(* When runthreads returns, a thread that has not exited is blocked in the queue of
   the semaphore or was the last to run. *)
THEOREM Abandoned == ASSUME Windows \subseteq {"thread"} PROVE Spec => []OnlyLastAbandoned
<1>1. Ind => OnlyLastAbandoned
  <2> USE Constants
  <2>1. SUFFICES ASSUME Sched, pc[Main] = "returned", NEW t \in Created, ~Finished(t)
                 PROVE  InSemQueue(t) \/ t = current_thread
    BY DEF Ind, OnlyLastAbandoned, Finished
  <2>2. t \in Members(runQueue) \cup Members(semQueue) \cup {current_thread, cpu}
    BY <2>1 DEF Sched, PlaceInv
  <2>3. Members(runQueue) = {} /\ cpu \notin Thread /\ t \in Thread
    BY <2>1, MembersType DEF Sched, TypeOK, FlowInv, TurnInv, Loaded, Created
  <2> QED
    BY <2>2, <2>3 DEF Members, InSemQueue
<1> QED
    BY <1>1, Inductive, PTL
========================================================================
