------------------------------- MODULE FileQueue --------------------------------
(* Comp 206/ASS3/server.c: a producer and a consumer in two processes, which pass
   the values of data.txt to each other in the file values.txt. The file exists
   as soon as it is opened and has its contents when it is closed; that it is
   gone tells the producer to go on, and terminated.txt tells the consumer to
   stop. The program can be killed and started again among its files. *)
EXTENDS Integers, Sequences, FiniteSets

CONSTANTS Data,         \* the numbers in data.txt
          MaxStarts     \* bound: how often the program is started

ASSUME QueueAssumption == (Data \in Seq(Nat)) /\ MaxStarts \in Nat

VARIABLES data,         \* does data.txt exist?
          values,       \* contents of values.txt, or NoFile
          terminated,   \* does terminated.txt exist?
          main,         \* main and the fork of the two processes
          producer,     \* where the producer is, and in which line
          consumer,     \* where the consumer is, and what it has tested
          printed,      \* what the consumer prints for each file
          starts,       \* how often the program was started
          left          \* history: what values.txt held at the start

queueVars == <<data, values, terminated, main, producer, consumer, printed, starts, left>>

NoFile == <<-1>>
Idle == [pc |-> "idle", i |-> 1]
Unborn == [pc |-> "idle", term |-> FALSE, text |-> <<>>]

(* The values for a number of data.txt, and what is printed of them: value is 0
   when there is nothing to scan. *)
Batch(n) == [k \in 1..(n + 1) |-> n + 1 - k]
Report(text) ==
    LET scanned == IF text = <<>> THEN <<0>> ELSE text
    IN [values |-> scanned, odd |-> Cardinality({k \in DOMAIN scanned : scanned[k] % 2 = 1})]

QueueInit ==
    /\ data = FALSE
    /\ values = NoFile
    /\ terminated = FALSE
    /\ main = "off"
    /\ producer = Idle
    /\ consumer = Unborn
    /\ printed = <<>>
    /\ starts = 0
    /\ left = <<>>
--------------------------------------------------------------------------------
ProvideData ==
    /\ ~data
    /\ data' = TRUE
    /\ UNCHANGED <<values, terminated, main, producer, consumer, printed, starts, left>>

(* main, up to system("rm terminated.txt"). *)
Start ==
    /\ main = "off"
    /\ starts < MaxStarts
    /\ main' = "wait"
    /\ terminated' = FALSE
    /\ printed' = <<>>
    /\ left' = IF values = NoFile THEN <<>> ELSE <<values>>
    /\ starts' = starts + 1
    /\ UNCHANGED <<data, values, producer, consumer>>

Fork ==
    /\ main = "wait"
    /\ data
    /\ main' = "waitpid"
    /\ producer' = [Idle EXCEPT !.pc = "poll"]
    /\ consumer' = [Unborn EXCEPT !.pc = "term"]
    /\ UNCHANGED <<data, values, terminated, printed, starts, left>>

ProducerGoto(pc, i) == producer' = [pc |-> pc, i |-> i]

(* The loop over the lines is done. *)
Terminate ==
    /\ producer.pc = "poll"
    /\ producer.i > Len(Data)
    /\ terminated' = TRUE
    /\ ProducerGoto("idle", producer.i)
    /\ UNCHANGED <<data, values, main, consumer, printed, starts, left>>

PollNothing ==
    /\ producer.pc = "poll"
    /\ producer.i <= Len(Data)
    /\ ProducerGoto("open", producer.i)
    /\ UNCHANGED <<data, values, terminated, main, consumer, printed, starts, left>>

(* values.txt was looked for in vain ... *)
Poll ==
    /\ producer.pc = "poll"
    /\ producer.i <= Len(Data)
    /\ values = NoFile
    /\ ProducerGoto("open", producer.i)
    /\ UNCHANGED <<data, values, terminated, main, consumer, printed, starts, left>>

(* ... and is created, empty ... *)
OpenValues ==
    /\ producer.pc = "open"
    /\ values' = <<>>
    /\ ProducerGoto("close", producer.i)
    /\ UNCHANGED <<data, terminated, main, consumer, printed, starts, left>>

(* ... and filled, if nobody has removed it: then what is written is nowhere. *)
CloseValues ==
    /\ producer.pc = "close"
    /\ values' = IF values = NoFile THEN NoFile ELSE Batch(Data[producer.i])
    /\ ProducerGoto("poll", producer.i + 1)
    /\ UNCHANGED <<data, terminated, main, consumer, printed, starts, left>>
--------------------------------------------------------------------------------
TestTerminated ==
    /\ consumer.pc = "term"
    /\ consumer' = [consumer EXCEPT !.pc = "values", !.term = terminated]
    /\ UNCHANGED <<data, values, terminated, main, producer, printed, starts, left>>

FindValues ==
    /\ consumer.pc = "values"
    /\ values # NoFile
    /\ consumer' = [consumer EXCEPT !.pc = "scan"]
    /\ UNCHANGED <<data, values, terminated, main, producer, printed, starts, left>>

FindNothing ==
    /\ consumer.pc = "values"
    /\ values = NoFile
    /\ ~consumer.term
    /\ consumer' = [consumer EXCEPT !.pc = "term"]
    /\ UNCHANGED <<data, values, terminated, main, producer, printed, starts, left>>

(* exit, which ends the wait of main too. *)
Stopping == consumer.pc = "values" /\ values = NoFile /\ consumer.term

Leave ==
    /\ Stopping
    /\ consumer' = Unborn
    /\ main' = "off"
    /\ UNCHANGED <<data, values, terminated, producer, printed, starts, left>>

(* The file is scanned to the end it has now. *)
Scan ==
    /\ consumer.pc = "scan"
    /\ printed' = Append(printed, Report(values))
    /\ consumer' = [consumer EXCEPT !.pc = "remove"]
    /\ UNCHANGED <<data, values, terminated, main, producer, starts, left>>

RemoveValues ==
    /\ consumer.pc = "remove"
    /\ values' = NoFile
    /\ consumer' = [consumer EXCEPT !.pc = "term"]
    /\ UNCHANGED <<data, terminated, main, producer, printed, starts, left>>

(* All processes of the program are killed. *)
KillAll ==
    /\ main # "off"
    /\ main' = "off"
    /\ producer' = Idle
    /\ consumer' = Unborn
    /\ UNCHANGED <<data, values, terminated, printed, starts, left>>

ProducerStep == Terminate \/ Poll \/ OpenValues \/ CloseValues
ConsumerStep == TestTerminated \/ FindValues \/ FindNothing \/ Leave \/ Scan \/ RemoveValues
QueueNext == ProvideData \/ Start \/ Fork \/ ProducerStep \/ ConsumerStep \/ KillAll

QueueSpec == QueueInit /\ [][QueueNext]_queueVars
--------------------------------------------------------------------------------
QueueTypeOK ==
    /\ {data, terminated} \subseteq BOOLEAN
    /\ values = NoFile \/ values = <<>> \/ \E k \in DOMAIN Data : values = Batch(Data[k])
    /\ main \in {"off", "wait", "waitpid"}
    /\ producer.pc \in {"idle", "poll", "open", "close"}
    /\ producer.i \in 1..(Len(Data) + 1)
    /\ consumer.pc \in {"idle", "term", "values", "scan", "remove"}
    /\ starts \in 0..MaxStarts

(* What there is to print: what was left from before, then the batches. *)
Due == left \o [k \in DOMAIN Data |-> Batch(Data[k])]

(* The consumer prints one report for each file that was there for it, in order:
   of the whole batch, or, when it was quicker than the producer's fclose, of an
   empty file, and that batch is lost. No batch is reported twice, and none is
   left out when the consumer stops by itself. *)
OneReportEach ==
    /\ Len(printed) <= Len(Due)
    /\ \A k \in DOMAIN printed : printed[k] \in {Report(Due[k]), Report(<<>>)}
    /\ Stopping => Len(printed) = Len(Due)
================================================================================
