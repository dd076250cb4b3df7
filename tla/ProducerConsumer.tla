----------------------------- MODULE ProducerConsumer ----------------------------
(* Comp 310/miniass/mini2.c: producers append to an array that a consumer reads,
   under a mutex and a condition variable, or, with -nosync, under nothing. The
   program ends when the producers are done, whatever the consumer has left. *)
EXTENDS Integers, Sequences

CONSTANTS Producer,     \* the ten producer threads
          ItemsEach     \* n: how many items a producer makes

ASSUME ProducerAssumption == ItemsEach \in Nat \ {0}

Nobody == "nobody"
Reader == "consumer"

VARIABLES thSync,       \* is the mutex used?
          queue,        \* the array, from index 0
          queueStart,   \* how far the consumer has read
          queueEnd,     \* how far the producers have written
          mutex,        \* who holds the mutex
          signalled,    \* was the waiting consumer woken?
          maker,        \* where each producer is, what it has made and read
          taker,        \* where the consumer is
          joined,       \* has main joined all producers, and ended?
          taken,        \* history: what the consumer read
          entered,      \* history: what was put into the queue
          spurious      \* history: did the consumer wake without a signal?

miniVars == <<thSync, queue, queueStart, queueEnd, mutex, signalled, maker, taker,
              joined, taken, entered, spurious>>

Nothing == <<"nothing", 0>>
ProducerInit ==
    /\ thSync \in BOOLEAN
    /\ queue = <<>>
    /\ queueStart = 0 /\ queueEnd = 0
    /\ mutex = Nobody
    /\ signalled = FALSE
    /\ maker = [p \in Producer |-> [pc |-> "make", i |-> 0, end |-> 0]]
    /\ taker = "lock"
    /\ joined = FALSE
    /\ taken = <<>>
    /\ entered = <<>>
    /\ spurious = FALSE

(* queue[index]: the elements that were never written are 0. *)
At(index) == IF index < Len(queue) THEN queue[index + 1] ELSE Nothing
Written(index, item) ==
    [k \in 1..(IF index < Len(queue) THEN Len(queue) ELSE index + 1) |->
        IF k = index + 1 THEN item ELSE At(k - 1)]

Running == ~joined
Stands(p, pc) == Running /\ maker[p].pc = pc
GoOn(p, pc) == maker' = [maker EXCEPT ![p].pc = pc]

(* With the mutex the steps between lock and unlock are one. *)
Produce(p) ==
    /\ thSync /\ Stands(p, "make") /\ maker[p].i < ItemsEach /\ mutex = Nobody
    /\ LET item == <<p, maker[p].i>>
       IN /\ queue' = Written(queueEnd, item)
          /\ entered' = Append(entered, item)
    /\ queueEnd' = queueEnd + 1
    /\ signalled' = (signalled \/ taker = "wait")
    /\ maker' = [maker EXCEPT ![p].i = @ + 1]
    /\ UNCHANGED <<thSync, queueStart, mutex, taker, joined, taken, spurious>>

(* Without it the element is written and the end is read and written in turn. *)
Write(p) ==
    /\ ~thSync /\ Stands(p, "make") /\ maker[p].i < ItemsEach
    /\ queue' = Written(queueEnd, <<p, maker[p].i>>)
    /\ entered' = Append(entered, <<p, maker[p].i>>)
    /\ GoOn(p, "read")
    /\ UNCHANGED <<thSync, queueStart, queueEnd, mutex, signalled, taker, joined, taken, spurious>>
ReadEnd(p) ==
    /\ Stands(p, "read")
    /\ maker' = [maker EXCEPT ![p].pc = "add", ![p].end = queueEnd]
    /\ UNCHANGED <<thSync, queue, queueStart, queueEnd, mutex, signalled, taker, joined, taken,
                   entered, spurious>>
AddEnd(p) ==
    /\ Stands(p, "add")
    /\ queueEnd' = maker[p].end + 1
    /\ maker' = [maker EXCEPT ![p].pc = "make", ![p].i = @ + 1]
    /\ UNCHANGED <<thSync, queue, queueStart, mutex, signalled, taker, joined, taken, entered, spurious>>

(* The consumer: it tests for an empty queue with an if before it waits. *)
LockUntested ==
    /\ Running /\ thSync /\ taker = "lock" /\ mutex = Nobody
    /\ taker' = "take" /\ mutex' = Reader
    /\ UNCHANGED <<thSync, queue, queueStart, queueEnd, signalled, maker, joined, taken, entered, spurious>>
LockAndTest ==
    /\ Running /\ thSync /\ taker = "lock" /\ mutex = Nobody
    /\ IF queueEnd = queueStart
       THEN taker' = "wait" /\ mutex' = Nobody /\ signalled' = FALSE
       ELSE taker' = "take" /\ mutex' = Reader /\ UNCHANGED signalled
    /\ UNCHANGED <<thSync, queue, queueStart, queueEnd, maker, joined, taken, entered, spurious>>
(* pthread_cond_wait returns, with the mutex, after a signal, or after none. *)
Wake ==
    /\ Running /\ taker = "wait" /\ mutex = Nobody
    /\ spurious' = (spurious \/ ~signalled)
    /\ taker' = "take" /\ mutex' = Reader
    /\ UNCHANGED <<thSync, queue, queueStart, queueEnd, signalled, maker, joined, taken, entered>>
Spin ==
    /\ Running /\ ~thSync /\ taker = "lock"
    /\ queueEnd # queueStart
    /\ taker' = "take"
    /\ UNCHANGED <<thSync, queue, queueStart, queueEnd, mutex, signalled, maker, joined, taken,
                   entered, spurious>>
(* The reads of the array go on past what was ever written; Bounded ends them. *)
Bounded == queueStart <= Len(queue)
Take ==
    /\ Running /\ taker = "take" /\ Bounded
    /\ taken' = Append(taken, At(queueStart))
    /\ queueStart' = queueStart + 1
    /\ mutex' = Nobody
    /\ taker' = "lock"
    /\ UNCHANGED <<thSync, queue, queueEnd, signalled, maker, joined, entered, spurious>>

(* main joins the producers, prints the two counters and ends all threads. *)
JoinAll ==
    /\ Running
    /\ \A p \in Producer : maker[p].pc = "make" /\ maker[p].i = ItemsEach
    /\ joined' = TRUE
    /\ UNCHANGED <<thSync, queue, queueStart, queueEnd, mutex, signalled, maker, taker, taken,
                   entered, spurious>>

ProducerNext ==
    \/ \E p \in Producer : Produce(p) \/ Write(p) \/ ReadEnd(p) \/ AddEnd(p)
    \/ LockAndTest \/ Wake \/ Spin \/ Take \/ JoinAll

ProducerSpec == ProducerInit /\ [][ProducerNext]_miniVars

Item == (Producer \X (0..ItemsEach)) \cup {Nothing}
ProducerTypeOK ==
    /\ thSync \in BOOLEAN /\ signalled \in BOOLEAN /\ joined \in BOOLEAN /\ spurious \in BOOLEAN
    /\ queueStart \in Nat /\ queueEnd \in Nat
    /\ queue \in Seq(Item) /\ taken \in Seq(Item) /\ entered \in Seq(Item)
    /\ mutex \in {Nobody, Reader}
    /\ maker \in [Producer -> [pc : {"make", "read", "add"}, i : 0..ItemsEach, end : Nat]]
    /\ taker \in {"lock", "wait", "take"}

(* With the mutex, and unless the wait returns without a signal, the consumer takes
   what the producers put in, in their order and each item once; and whatever it
   does, no item is written over: the counters that main prints at the end differ
   by what is left in the array. *)
InOrder ==
    thSync => /\ queue = entered /\ queueEnd = Len(entered)
              /\ ~spurious => /\ taken = SubSeq(entered, 1, queueStart)
                              /\ taker = "take" => queueStart < queueEnd
=================================================================================
