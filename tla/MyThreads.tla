-------------------------------- MODULE MyThreads -------------------------------
(***************************************************************************)
(* The user-level thread library Comp 310/ass1/mythreads.c under its test  *)
(* program ass1.c: threads share one processor, switch_thread runs as the  *)
(* handler of a periodic SIGALRM and is also called by semaphore_signal,   *)
(* and a context of ucontext.h is a slot into which the flow of control    *)
(* that happens to execute swapcontext is saved.                           *)
(*                                                                         *)
(* A flow is the execution of one thread's function on its own stack, or   *)
(* main. The signal is masked inside the handler, inside semaphore_wait    *)
(* and in the first half of semaphore_signal: each of these is one step.   *)
(* The call of switch_thread in semaphore_signal and the loop of           *)
(* runthreads run unmasked and are several steps.                          *)
(***************************************************************************)
EXTENDS Integers, Sequences, FiniteSets

CONSTANTS
    Threads,          (* how many threads main creates: thread_num             *)
    THREAD_MAX_SIZE,  (* the slots of thread_table                             *)
    Rounds,           (* how often each thread enters the critical region      *)
    Initial,          (* what main passes to create_semaphore                  *)
    Main, Garbage,    (* the flow of main; the flow of a context that is out of
                         date: resuming it is undefined                        *)
    Windows           (* where SIGALRM may arrive: in the threads' functions
                         ("thread"), in the call of switch_thread that
                         semaphore_signal makes ("yield"), in the loop of
                         runthreads ("main")                                   *)

ASSUME ThreadsAssumption ==
    /\ Threads \in Nat /\ THREAD_MAX_SIZE \in Nat \ {0} /\ Rounds \in Nat
    /\ Initial \in Nat
    /\ Main \notin Nat /\ Garbage \notin Nat /\ Main # Garbage
    /\ Windows \subseteq {"thread", "yield", "main"}

Thread == 0..(THREAD_MAX_SIZE - 1)

VARIABLES
    threadCounter, runQueue, current_thread,
    state,      (* thread_table[t].state                                            *)
    context,    (* thread_table[t].context: the flow saved in the slot              *)
    mainSaved,  (* whether uctx_main was ever filled in                             *)
    semValue, semQueue,  (* semaphore_table[counter_mutex]                          *)
    spinning,   (* the threads in semaphore_wait whose old_switch_ctr is switch_ctr *)
    cpu,        (* the flow that is executing                                       *)
    pc,         (* the control point of each flow                                   *)
    old,        (* old_thread in the call of switch_thread that a thread makes      *)
    round,      (* the loop counter of the thread's function                        *)
    local,      (* the value of counter a thread has read for counter++             *)
    counter     (* ass1.c: counter                                                  *)

table == <<threadCounter, runQueue, current_thread, state, context, mainSaved>>
sema  == <<semValue, semQueue, spinning>>
app   == <<round, local, counter>>
vars  == <<table, sema, cpu, pc, old, app>>

(* mythread_init and create_semaphore, called by main before anything runs. *)
Init ==
    /\ threadCounter = 0
    /\ runQueue = <<>>
    /\ current_thread = 0
    /\ state = [t \in Thread |-> "NEW"]
    /\ context = [t \in Thread |-> Garbage]
    /\ mainSaved = FALSE
    /\ semValue = Initial
    /\ semQueue = <<>>
    /\ spinning = {}
    /\ cpu = Main
    /\ pc = [f \in Thread \cup {Main} |-> IF f = Main THEN "create" ELSE "wait"]
    /\ old = [t \in Thread |-> 0]
    /\ round = [t \in Thread |-> 0]
    /\ local = [t \in Thread |-> 0]
    /\ counter = 0

Goto(f, from, to) ==
    /\ cpu = f
    /\ pc[f] = from
    /\ pc' = [pc EXCEPT ![f] = to]

(* list_shift_int on an empty list of libslack returns a null pointer as an int. *)
Shifted(queue) == IF queue = <<>> THEN 0 ELSE Head(queue)
Rest(queue)    == IF queue = <<>> THEN <<>> ELSE Tail(queue)

---------------------------------------------------------------------------------
(* Contexts. The slots are a function from slot to flow; once a flow runs again
   every copy of its registers is out of date. *)

Resumed(ctx, f) == [s \in Thread |-> IF ctx[s] = f THEN Garbage ELSE ctx[s]]

(* swapcontext(&thread_table[s].context, &thread_table[t].context) *)
SwapToThread(s, t) ==
    LET saved == [context EXCEPT ![s] = cpu]
    IN  /\ cpu' = saved[t]
        /\ context' = Resumed(saved, saved[t])
        /\ UNCHANGED mainSaved

(* setcontext(&uctx_main) with these slots: main goes on after its swapcontext,
   or nowhere at all when there has not been one. *)
ResumeMain(slots) ==
    /\ cpu' = IF mainSaved THEN Main ELSE Garbage
    /\ context' = Resumed(slots, Main)
    /\ UNCHANGED mainSaved

MainResumesAt(at) == [pc EXCEPT ![Main] = at]

---------------------------------------------------------------------------------
(* main *)

(* mythread_create, called thread_num times; it returns -1 when the table is full. *)
Create ==
    /\ Goto(Main, "create", "create")
    /\ threadCounter < Threads
    /\ threadCounter < THREAD_MAX_SIZE
    /\ state' = [state EXCEPT ![threadCounter] = "RUNNABLE"]
    /\ context' = [context EXCEPT ![threadCounter] = threadCounter]
    /\ runQueue' = Append(runQueue, threadCounter)
    /\ threadCounter' = threadCounter + 1
    /\ UNCHANGED <<current_thread, mainSaved, sema, cpu, old, app>>

(* runthreads up to the first swapcontext: all masked. With no thread it returns. *)
RunThreads ==
    /\ Goto(Main, "create", IF threadCounter = 0 THEN "returned" ELSE "enter")
    /\ threadCounter = Threads \/ threadCounter = THREAD_MAX_SIZE
    /\ IF threadCounter = 0
         THEN UNCHANGED <<current_thread, runQueue, state>>
         ELSE /\ current_thread' = Head(runQueue)
              /\ runQueue' = Tail(runQueue)
              /\ state' = [state EXCEPT ![Head(runQueue)] = "RUNNING"]
    /\ UNCHANGED <<threadCounter, context, mainSaved, sema, cpu, old, app>>

(* swapcontext(&uctx_main, &thread_table[current_thread].context) *)
Enter ==
    /\ Goto(Main, "enter", "loop")
    /\ mainSaved' = TRUE
    /\ cpu' = context[current_thread]
    /\ context' = Resumed(context, context[current_thread])
    /\ UNCHANGED <<threadCounter, runQueue, current_thread, state, sema, old, app>>

(* while(!list_empty(runQueue)) *)
LoopTest ==
    /\ runQueue # <<>>
    /\ Goto(Main, "loop", "pop")
    /\ UNCHANGED <<table, sema, cpu, old, app>>

(* current_thread = list_shift_int(runQueue), and its state *)
Pop ==
    /\ Goto(Main, "pop", "enter")
    /\ current_thread' = Shifted(runQueue)
    /\ runQueue' = Rest(runQueue)
    /\ state' = [state EXCEPT ![Shifted(runQueue)] = "RUNNING"]
    /\ UNCHANGED <<threadCounter, context, mainSaved, sema, cpu, old, app>>

(* runthreads: the loop is over; masked again, every thread is marked EXIT. *)
Return ==
    /\ runQueue = <<>>
    /\ Goto(Main, "loop", "returned")
    /\ state' = [t \in Thread |-> IF t < threadCounter THEN "EXIT" ELSE state[t]]
    /\ UNCHANGED <<threadCounter, runQueue, current_thread, context, mainSaved, sema, cpu, old, app>>

MainStep == Create \/ RunThreads \/ Enter \/ LoopTest \/ Pop \/ Return

---------------------------------------------------------------------------------
(* switch_thread *)

(* A thread that has not been dispatched by runthreads is never "RUNNING". *)
AliveRunnable(t) == state[t] = "RUNNABLE"

(* if(thread_table[old_thread].state == RUNNABLE || ... == RUNNING) *)
Alive(t) == state[t] \in {"RUNNABLE", "RUNNING"}

RequeueUnlessExit(queue, t) == IF state[t] # "EXIT" THEN Append(queue, t) ELSE queue

Requeue(queue, t) == IF Alive(t) THEN Append(queue, t) ELSE queue

(* switch_thread as the handler of SIGALRM: one step of the flow that the signal
   interrupted, which later goes on where it was. *)
Handler ==
    /\ spinning' = {}
    /\ \/ /\ runQueue = <<>> /\ state[current_thread] = "EXIT"
          /\ ResumeMain(context)
          /\ pc' = MainResumesAt("loop")
          /\ UNCHANGED <<runQueue, current_thread>>
       \/ /\ runQueue # <<>>
          /\ current_thread' = Head(runQueue)
          /\ runQueue' = Requeue(Tail(runQueue), current_thread)
          /\ SwapToThread(current_thread, Head(runQueue))
          /\ UNCHANGED pc
       \/ /\ runQueue = <<>> /\ state[current_thread] # "EXIT"
          /\ ResumeMain([context EXCEPT ![current_thread] = cpu])
          /\ pc' = MainResumesAt("loop")
          /\ UNCHANGED <<runQueue, current_thread>>
    /\ UNCHANGED <<threadCounter, state, semValue, semQueue, old, app>>

YieldPoints == {"test", "shift", "append", "swap", "swapmain"}

(* Where the flow that executes is. What runthreads does before it unmasks the
   signal for its first swapcontext, and after its loop, is not interrupted. *)
Window ==
    CASE cpu \in Thread -> IF pc[cpu] \in YieldPoints THEN "yield" ELSE "thread"
      [] cpu = Main /\ pc[Main] \in {"loop", "pop", "enter"} -> "main"
      [] OTHER -> "none"

(* A SIGALRM reaches the process at a point where it is not masked. *)
Alarm ==
    /\ Window \in Windows
    /\ Handler

(* switch_thread as semaphore_signal calls it. (The caller is not EXIT: the
   branch for that is the handler's.) *)
YieldTest(t) ==
    /\ Goto(t, "test", IF runQueue = <<>> THEN "swapmain" ELSE "shift")
    /\ spinning' = {}
    /\ UNCHANGED <<table, semValue, semQueue, cpu, old, app>>

YieldShift(t) ==
    /\ Goto(t, "shift", "append")
    /\ old' = [old EXCEPT ![t] = current_thread]
    /\ current_thread' = Shifted(runQueue)
    /\ runQueue' = Rest(runQueue)
    /\ UNCHANGED <<threadCounter, state, context, mainSaved, sema, cpu, app>>

YieldAppend(t) ==
    /\ Goto(t, "append", "swap")
    /\ runQueue' = Requeue(runQueue, old[t])
    /\ UNCHANGED <<threadCounter, current_thread, state, context, mainSaved, sema, cpu, old, app>>

(* The thread's own flow goes on, when it is resumed, after semaphore_signal. *)
YieldSwapReversed(t) ==
    /\ cpu = t /\ pc[t] = "swap"
    /\ pc' = [pc EXCEPT ![t] = "next"]
    /\ SwapToThread(current_thread, old[t])
    /\ UNCHANGED <<threadCounter, runQueue, current_thread, state, sema, old, app>>

YieldSwap(t) ==
    /\ cpu = t /\ pc[t] = "swap"
    /\ pc' = [pc EXCEPT ![t] = "next"]
    /\ SwapToThread(old[t], current_thread)
    /\ UNCHANGED <<threadCounter, runQueue, current_thread, state, sema, old, app>>

YieldToMain(t) ==
    /\ cpu = t /\ pc[t] = "swapmain"
    /\ pc' = [MainResumesAt("loop") EXCEPT ![t] = "next"]
    /\ ResumeMain([context EXCEPT ![current_thread] = t])
    /\ UNCHANGED <<threadCounter, runQueue, current_thread, state, sema, old, app>>

---------------------------------------------------------------------------------
(* The semaphore, and the thread function of ass1.c around it. *)

(* semaphore_wait, masked: every caller then spins until the next switch. *)
WaitTestsOldValue(t) ==
    /\ Goto(t, "wait", "spin")
    /\ round[t] < Rounds
    /\ semValue' = semValue - 1
    /\ spinning' = spinning \cup {t}
    /\ IF semValue < 0
         THEN /\ state' = [state EXCEPT ![current_thread] = "BLOCKED"]
              /\ semQueue' = Append(semQueue, current_thread)
         ELSE UNCHANGED <<state, semQueue>>
    /\ UNCHANGED <<threadCounter, runQueue, current_thread, context, mainSaved, cpu, old, app>>

Wait(t) ==
    /\ Goto(t, "wait", "spin")
    /\ round[t] < Rounds
    /\ semValue' = semValue - 1
    /\ spinning' = spinning \cup {t}
    /\ IF semValue' < 0
         THEN /\ state' = [state EXCEPT ![current_thread] = "BLOCKED"]
              /\ semQueue' = Append(semQueue, current_thread)
         ELSE UNCHANGED <<state, semQueue>>
    /\ UNCHANGED <<threadCounter, runQueue, current_thread, context, mainSaved, cpu, old, app>>

(* while(old_switch_ctr == switch_ctr) *)
Spin(t) ==
    /\ Goto(t, "spin", "read")
    /\ t \notin spinning
    /\ UNCHANGED <<table, sema, cpu, old, app>>

(* The critical region: counter++ reads and writes. *)
ReadCounter(t) ==
    /\ Goto(t, "read", "write")
    /\ local' = [local EXCEPT ![t] = counter]
    /\ UNCHANGED <<table, sema, cpu, old, round, counter>>

WriteCounter(t) ==
    /\ Goto(t, "write", "signal")
    /\ counter' = local[t] + 1
    /\ UNCHANGED <<table, sema, cpu, old, round, local>>

(* semaphore_signal, its masked half. *)
SignalStrict(t) ==
    /\ Goto(t, "signal", "test")
    /\ semValue' = semValue + 1
    /\ IF semValue' < 0
         THEN /\ state' = [state EXCEPT ![Shifted(semQueue)] = "RUNNABLE"]
              /\ runQueue' = Append(runQueue, Shifted(semQueue))
              /\ semQueue' = Rest(semQueue)
         ELSE UNCHANGED <<state, runQueue, semQueue>>
    /\ UNCHANGED <<threadCounter, current_thread, context, mainSaved, spinning, cpu, old, app>>

Signal(t) ==
    /\ Goto(t, "signal", "test")
    /\ semValue' = semValue + 1
    /\ IF semValue' <= 0
         THEN /\ state' = [state EXCEPT ![Shifted(semQueue)] = "RUNNABLE"]
              /\ runQueue' = Append(runQueue, Shifted(semQueue))
              /\ semQueue' = Rest(semQueue)
         ELSE UNCHANGED <<state, runQueue, semQueue>>
    /\ UNCHANGED <<threadCounter, current_thread, context, mainSaved, spinning, cpu, old, app>>

(* i++ *)
NextRound(t) ==
    /\ Goto(t, "next", "wait")
    /\ round' = [round EXCEPT ![t] = @ + 1]
    /\ UNCHANGED <<table, sema, cpu, old, local, counter>>

(* mythread_exit; the loop is over. *)
Exit(t) ==
    /\ Goto(t, "wait", "exited")
    /\ round[t] >= Rounds
    /\ state' = [state EXCEPT ![current_thread] = "EXIT"]
    /\ UNCHANGED <<threadCounter, runQueue, current_thread, context, mainSaved, sema, cpu, old, app>>

(* The function returns: uc_link is uctx_main. *)
FinishUnlinked(t) ==
    /\ Goto(t, "exited", "gone")
    /\ cpu' = Garbage
    /\ UNCHANGED <<table, sema, old, app>>

Finish(t) ==
    /\ cpu = t /\ pc[t] = "exited"
    /\ pc' = [MainResumesAt("loop") EXCEPT ![t] = "gone"]
    /\ ResumeMain(context)
    /\ UNCHANGED <<threadCounter, runQueue, current_thread, state, sema, old, app>>

ThreadStep(t) ==
    \/ Wait(t) \/ Spin(t) \/ ReadCounter(t) \/ WriteCounter(t) \/ Signal(t)
    \/ YieldTest(t) \/ YieldShift(t) \/ YieldAppend(t) \/ YieldSwap(t) \/ YieldToMain(t)
    \/ NextRound(t) \/ Exit(t) \/ Finish(t)

(* runthreads is over, or nothing can be said of the process any more. *)
Over == (pc[Main] = "returned" \/ cpu = Garbage) /\ UNCHANGED vars

Next == MainStep \/ Alarm \/ Over \/ \E t \in Thread : ThreadStep(t)

Spec == Init /\ [][Next]_vars

(* The timer is periodic, and a quantum is long enough for a thread that gets
   the processor again and again to make a step at last. *)
FairSpec ==
    /\ Spec
    /\ WF_vars(MainStep) /\ WF_vars(Alarm)
    /\ \A t \in Thread : SF_vars(ThreadStep(t))

---------------------------------------------------------------------------------

Created == {t \in Thread : t < threadCounter}

(* mythreads.c's tables, queues and counters have the C types the code gives them. *)
TypeOK ==
    /\ threadCounter \in 0..THREAD_MAX_SIZE
    /\ runQueue \in Seq(Thread)
    /\ current_thread \in Thread
    /\ state \in [Thread -> {"NEW", "RUNNING", "RUNNABLE", "BLOCKED", "EXIT"}]
    /\ context \in [Thread -> Thread \cup {Main, Garbage}]
    /\ mainSaved \in BOOLEAN
    /\ semValue \in Int
    /\ semQueue \in Seq(Thread)
    /\ spinning \subseteq Thread
    /\ cpu \in Thread \cup {Main, Garbage}
    /\ pc \in [Thread \cup {Main} -> {"create", "enter", "loop", "pop", "returned", "wait", "spin",
                                     "read", "write", "signal", "next", "exited", "gone"}
                                    \cup YieldPoints]
    /\ old \in [Thread -> Thread]
    /\ round \in [Thread -> 0..Rounds]
    /\ local \in [Thread -> Nat]
    /\ counter \in Nat

InRunQueue(t) == \E k \in DOMAIN runQueue : runQueue[k] = t
InSemQueue(t) == \E k \in DOMAIN semQueue : semQueue[k] = t

(* The processor executes current_thread, outside of the lines of switch_thread
   that are about to make that true; a thread that is neither running nor
   finished is saved in its own slot; and no slot can be resumed that holds a
   context out of date. *)
ContextInv ==
    /\ cpu # Garbage
    /\ cpu \in Thread /\ pc[cpu] \notin {"append", "swap"} => cpu = current_thread
    /\ \A t \in Created : t # cpu /\ pc[t] \notin {"exited", "gone"} => context[t] = t
    /\ \A t \in Created : context[t] \in {t, Garbage}

(* "Switch thread with the first in the queue" (mythreads.c:97): the flow that
   gets the processor is that of the thread taken from the queue. *)
SwitchRunsHead ==
    [][cpu' # cpu /\ cpu' # Main => cpu' = current_thread']_vars

(* The fields have their types, and a thread waits in one place: it is once in the run queue and not blocked, or
   once in the queue of the semaphore and blocked. *)
QueueInv ==
    /\ TypeOK
    /\ \A j, k \in DOMAIN runQueue : runQueue[j] = runQueue[k] => j = k
    /\ \A j, k \in DOMAIN semQueue : semQueue[j] = semQueue[k] => j = k
    /\ \A t \in Thread : InRunQueue(t) => Alive(t) /\ t \in Created
    /\ pc[Main] # "returned" => \A t \in Thread : InSemQueue(t) <=> state[t] = "BLOCKED"

(* The threads that semaphore_wait has let through, or will let through at the
   next switch, and that have not signalled. *)
Granted ==
    {t \in Created : pc[t] \in {"spin", "read", "write", "signal"} /\ ~InSemQueue(t)}

(* The value of the semaphore counts the grants that are left, or the threads
   that are blocked: no signal is lost and none is handed out twice, although a
   blocked thread goes on spinning and any switch ends the spinning. *)
SemaphoreInv ==
    /\ semValue = Initial - Cardinality(Granted) - Len(semQueue)
    /\ Len(semQueue) = IF semValue < 0 THEN -semValue ELSE 0

(* The region that ass1.c protects with the semaphore. *)
Critical == {t \in Thread : pc[t] \in {"read", "write", "signal"}}

(* One element for each counter++ that has been executed. *)
Increments ==
    {e \in Created \X (0..Rounds) :
        \/ e[2] < round[e[1]]
        \/ e[2] = round[e[1]] /\ pc[e[1]] \in {"signal", "next"} \cup YieldPoints}

(* "With this protection, you should always be able to see" the same result
   (ass1.c:98): no more threads than the semaphore lets in are between wait and
   signal, and if it lets in one at a time no counter++ is lost. *)
CounterExact ==
    /\ Cardinality(Critical) <= Initial
    /\ Initial <= 1 => counter = Cardinality(Increments)

(* Who can be unfinished when runthreads returns: the threads blocked for a
   signal that nobody sends any more, and the one that was running last. *)
OnlyLastAbandoned ==
    pc[Main] = "returned" =>
        \A t \in Created : pc[t] \notin {"exited", "gone"} => InSemQueue(t) \/ t = current_thread

(* "When this function returns, all threads should have exited." (ass1.c:72) *)
AllThreadsExited ==
    pc[Main] = "returned" => \A t \in Created : pc[t] \in {"exited", "gone"}

(* runthreads returns, whatever the threads wait for: the switch that finds the
   run queue empty hands the processor to main. *)
RunthreadsReturns == <>(pc[Main] = "returned")
=================================================================================
