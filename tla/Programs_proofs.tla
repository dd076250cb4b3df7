------------------------------ MODULE Programs_proofs -----------------------------
(* Theorems about the small programs: the reports of the consumer of server.c, for any
   contents of data.txt and any number of starts; the items of mini2, for any number of
   producers and items; and the lines that clients send to the server of port.csv, for
   any number of clients, any length of its array and any number of kills; the text that
   rserver writes, for any number of clients and any size of its buffer; the users
   in password.csv, for any number of processes and any size of the arrays; and the
   answer of the parallel matching, for any number of threads and any string. *)
EXTENDS FileQueue, ProducerConsumer, PortServer, SocketServer, PassDatabase, Matching,
        SequenceTheorems, WellFoundedInduction, TLAPS

(* A set of numbers that is not empty has a smallest. *)
LEMMA Smallest == ASSUME NEW T, T \subseteq Nat, T # {} PROVE \E m \in T : \A k \in T : m <= k
<1> DEFINE R == {ss \in Nat \X Nat : ss[1] < ss[2]}
<1>1. IsWellFoundedOn(R, Nat)
  BY NatLessThanWellFounded DEF OpToRel
<1>2. PICK x \in T : \A y \in T : ~(<<y, x>> \in R)
  BY <1>1, WFMin
<1>3. ASSUME NEW y \in T PROVE x <= y
  <2>1. <<y, x>> \notin R /\ x \in Nat /\ y \in Nat
    BY <1>2
  <2>2. <<y, x>> \in Nat \X Nat /\ <<y,x>>[1] = y /\ <<y,x>>[2] = x
    BY <2>1
  <2>3. ~(y < x)
    BY <2>1, <2>2, Zenon
  <2> QED BY <2>1, <2>3
<1> QED BY <1>3

(* Induction, for a set. *)
LEMMA Induction ==
    ASSUME NEW S, 0 \in S, \A n \in Nat : n \in S => n + 1 \in S
    PROVE  Nat \subseteq S
<1> SUFFICES ASSUME Nat \ S # {} PROVE FALSE
  OBVIOUS
<1>1. PICK m \in Nat \ S : \A k \in Nat \ S : m <= k
  BY Smallest
<1>2. m # 0 /\ m - 1 \in Nat
  BY <1>1
<1>3. m - 1 \in S
  BY <1>1, <1>2
<1> QED BY <1>1, <1>2, <1>3

(* Comp 206: the message server over files *)

Text == Seq(Int)
Printout == {Report(text) : text \in Text}
ProducerState == [pc : {"idle", "poll", "open", "close"}, i : 1..(Len(Data) + 1)]
ConsumerState ==
    [pc : {"idle", "term", "values", "scan", "remove"}, term : BOOLEAN, text : {<<>>}]
QueueTyped ==
    /\ main \in {"off", "wait", "waitpid"}
    /\ producer \in ProducerState
    /\ consumer \in ConsumerState
    /\ terminated \in BOOLEAN
    /\ values \in Text
    /\ left \in Seq(Text) /\ Len(left) <= 1
    /\ printed \in Seq(Printout)

(* Files that the producer has made and files that the consumer has removed *)
FilesMade == producer.i - 1 + (IF producer.pc = "close" THEN 1 ELSE 0)
FilesRemoved == Len(printed) - (IF consumer.pc = "remove" THEN 1 ELSE 0)

Before ==
    /\ main # "waitpid" => producer.pc = "idle" /\ consumer.pc = "idle"
    /\ main = "wait" => /\ printed = <<>> /\ ~terminated
                        /\ left = (IF values = NoFile THEN <<>> ELSE <<values>>)
(* While both run, there is at most one file more that was made than were removed:
   the one that is there, which is empty or has the batch of its number. *)
Between ==
    main = "waitpid" =>
        /\ Len(left) + FilesMade = FilesRemoved + (IF values = NoFile THEN 0 ELSE 1)
        /\ values # NoFile => values \in {<<>>, Due[Len(left) + FilesMade]}
        /\ consumer.pc \in {"scan", "remove"} => values # NoFile
        /\ producer.pc = "open" => values = NoFile
        /\ producer.pc \in {"open", "close"} => producer.i <= Len(Data)
        /\ terminated => producer.pc = "idle" /\ producer.i = Len(Data) + 1
        /\ consumer.term => terminated
Reported ==
    /\ Len(printed) <= Len(left) + Len(Data)
    /\ \A k \in 1..Len(printed) : printed[k] \in {Report(Due[k]), Report(<<>>)}

(* The inductive invariant *)
QueueInv == QueueTyped /\ Before /\ Between /\ Reported

(* A batch is a text, and no text of a file that is missing: the numbers count down to 0. *)
LEMMA BatchText == ASSUME NEW n \in Nat PROVE Batch(n) \in Text /\ Batch(n) # NoFile
<1>1. Batch(n) \in [1..(n + 1) -> Int]
  BY DEF Batch
<1>2. Batch(n)[1] = n /\ n # -1
  BY DEF Batch
<1>3. NoFile[1] = -1
  BY DEF NoFile
<1> QED BY <1>1, <1>2, <1>3 DEF Text

(* What is due: what was left, then one batch for each line. *)
LEMMA DueAt ==
    ASSUME QueueTyped
    PROVE  /\ Len(Due) = Len(left) + Len(Data) /\ Len(left) \in Nat /\ Len(Data) \in Nat
           /\ \A k \in 1..Len(Data) : Due[Len(left) + k] = Batch(Data[k])
           /\ \A k \in 1..Len(left) : Due[k] = left[k]
<1> DEFINE batches == [k \in DOMAIN Data |-> Batch(Data[k])]
<1>1. Len(Data) \in Nat /\ DOMAIN Data = 1..Len(Data) /\ \A k \in 1..Len(Data) : Data[k] \in Nat
  BY QueueAssumption
<1>2. batches \in [1..Len(Data) -> Text]
  BY <1>1, BatchText
<1>3. batches \in Seq(Text) /\ Len(batches) = Len(Data)
  BY <1>1, <1>2
<1>4. \A k \in 1..Len(Data) : batches[k] = Batch(Data[k])
  BY <1>1
<1>5. Due = left \o batches
  BY DEF Due
<1>6. left \in Seq(Text) /\ Len(left) \in Nat
  BY DEF QueueTyped
<1> HIDE DEF batches
<1>7. /\ Len(left \o batches) = Len(left) + Len(batches)
      /\ \A k \in 1..(Len(left) + Len(batches)) :
            (left \o batches)[k] = IF k <= Len(left) THEN left[k] ELSE batches[k - Len(left)]
  BY <1>3, <1>6, ConcatProperties
<1>8. ASSUME NEW k \in 1..Len(Data) PROVE Due[Len(left) + k] = Batch(Data[k])
  <2>1. /\ Len(left) + k \in 1..(Len(left) + Len(batches))
        /\ ~(Len(left) + k <= Len(left)) /\ (Len(left) + k) - Len(left) = k
    BY <1>1, <1>3, <1>6
  <2> QED BY <1>4, <1>5, <1>7, <2>1
<1>9. ASSUME NEW k \in 1..Len(left) PROVE Due[k] = left[k]
  <2>1. k \in 1..(Len(left) + Len(batches)) /\ k <= Len(left)
    BY <1>1, <1>3, <1>6
  <2> QED BY <1>5, <1>7, <2>1
<1>10. Len(Due) = Len(left) + Len(Data)
  BY <1>3, <1>5, <1>7
<1> QED BY <1>1, <1>6, <1>8, <1>9, <1>10

(* Before the first start nothing is there. *)
LEMMA QueueStarts == QueueInit => QueueInv
<1> SUFFICES ASSUME QueueInit PROVE QueueInv
  OBVIOUS
<1>1. QueueTyped
  <2>1. Len(Data) \in Nat
    BY QueueAssumption
  <2>2. Idle \in ProducerState /\ Unborn \in ConsumerState
    BY <2>1 DEF Idle, Unborn, ProducerState, ConsumerState
  <2>3. NoFile \in Text
    BY DEF NoFile, Text
  <2>4. printed = <<>> /\ printed \in Seq(Printout)
    BY DEF QueueInit
  <2>5. left = <<>> /\ left \in Seq(Text) /\ Len(left) <= 1
    BY DEF QueueInit
  <2>6. main = "off" /\ terminated = FALSE /\ values = NoFile
    BY DEF QueueInit
  <2>7. producer = Idle /\ consumer = Unborn
    BY DEF QueueInit
  <2> QED BY <2>2, <2>3, <2>4, <2>5, <2>6, <2>7 DEF QueueTyped
<1>2. Before /\ Between
  BY DEF QueueInit, Before, Between, Idle, Unborn
<1>3. Reported
  BY QueueAssumption DEF QueueInit, Reported
<1> QED BY <1>1, <1>2, <1>3 DEF QueueInv

(* A step that moves neither a file nor a report keeps what is said of them. *)
LEMMA ReportsKept ==
    ASSUME QueueInv, QueueTyped', UNCHANGED <<printed, left>>
    PROVE  Reported'
  BY DEF QueueInv, Reported, Due

(* A start finds at most one file, which is then the first that is due. *)
LEMMA StartKeeps == ASSUME QueueInv, Start PROVE QueueInv'
<1>1. QueueTyped'
  <2>1. left' \in Seq(Text) /\ Len(left') <= 1
    BY DEF Start, QueueInv, QueueTyped
  <2>2. /\ main' = "wait" /\ terminated' = FALSE /\ printed' = <<>>
        /\ UNCHANGED <<producer, consumer, values>>
    BY DEF Start
  <2>3. printed' \in Seq(Printout)'
    BY <2>2
  <2>4. producer' \in ProducerState' /\ consumer' \in ConsumerState' /\ values' \in Text'
    BY <2>2 DEF QueueInv, QueueTyped, ProducerState, ConsumerState, Text
  <2> QED BY <2>1, <2>2, <2>3, <2>4 DEF QueueTyped
<1>2. Before' /\ Between'
  BY DEF Start, QueueInv, Before, Between
<1>3. Reported'
  BY <1>1, QueueAssumption DEF Start, Reported, QueueTyped
<1> QED BY <1>1, <1>2, <1>3 DEF QueueInv

(* The two processes begin with the file that was left, or with none. *)
LEMMA ForkKeeps == ASSUME QueueInv, Fork PROVE QueueInv'
<1>1. QueueTyped'
  <2>1. Len(Data) \in Nat
    BY QueueAssumption
  <2>2. producer' = [pc |-> "poll", i |-> 1] /\ producer' \in ProducerState
    BY <2>1 DEF Fork, Idle, ProducerState
  <2>3. /\ consumer' = [pc |-> "term", term |-> FALSE, text |-> <<>>]
        /\ consumer' \in ConsumerState
    BY DEF Fork, Unborn, ConsumerState
  <2>4. /\ main' = "waitpid" /\ UNCHANGED <<values, terminated, printed, left>>
    BY DEF Fork
  <2>5. producer' \in ProducerState' /\ consumer' \in ConsumerState'
    BY <2>2, <2>3 DEF ProducerState, ConsumerState
  <2>6. QueueTyped
    BY DEF QueueInv
  <2>7. values' \in Text' /\ terminated' \in BOOLEAN
    BY <2>4, <2>6 DEF QueueTyped, Text
  <2>8. left' \in Seq(Text)' /\ Len(left') <= 1 /\ printed' \in Seq(Printout)'
    BY <2>4, <2>6 DEF QueueTyped, Text, Printout, Report
  <2> QED BY <2>4, <2>5, <2>7, <2>8 DEF QueueTyped
<1>2. Reported'
  BY <1>1, ReportsKept DEF Fork
<1>3. Before'
  BY DEF Fork, Before
<1>4. Between'
  <2>1. /\ printed = <<>> /\ ~terminated
        /\ left = (IF values = NoFile THEN <<>> ELSE <<values>>)
    BY DEF Fork, QueueInv, Before
  <2>2. FilesMade' = 0 /\ FilesRemoved' = 0 /\ Due' = Due
    BY <2>1 DEF Fork, Idle, Unborn, FilesMade, FilesRemoved, Due
  <2>3. values # NoFile => Due[Len(left)] = values /\ Len(left) = 1
    BY <2>1, DueAt DEF QueueInv
  <2> QED BY <2>1, <2>2, <2>3 DEF Fork, Between, Idle, Unborn
<1> QED BY <1>1, <1>2, <1>3, <1>4 DEF QueueInv

(* The producer: a file is made only when there is none, and gets the batch. *)
LEMMA ProducerKeeps == ASSUME QueueInv, ProducerStep PROVE QueueInv'
<1>1. main = "waitpid" /\ main' = main /\ UNCHANGED <<left, printed, consumer>> /\ Due' = Due
  BY DEF ProducerStep, Terminate, Poll, OpenValues, CloseValues, QueueInv, Before, Due
<1>2. /\ producer \in ProducerState /\ Len(Data) \in Nat /\ values \in Text
      /\ Len(left) \in Nat
  BY QueueAssumption DEF QueueInv, QueueTyped
<1>3. Between
  BY DEF QueueInv
<1>4. Before'
  BY <1>1 DEF Before
<1>5. CASE Terminate
  <2>1. producer' = [pc |-> "idle", i |-> producer.i] /\ producer.i = Len(Data) + 1
    BY <1>2, <1>5 DEF Terminate, ProducerGoto, ProducerState
  <2>2. QueueTyped'
    BY <1>1, <1>2, <1>5, <2>1 DEF Terminate, QueueInv, QueueTyped, ProducerState
  <2>3. FilesMade' = FilesMade /\ FilesRemoved' = FilesRemoved
    BY <1>1, <1>5, <2>1 DEF Terminate, FilesMade, FilesRemoved
  <2>4. Between'
    BY <1>1, <1>3, <1>5, <2>1, <2>3 DEF Terminate, Between
  <2> QED BY <1>1, <1>4, <2>2, <2>4, ReportsKept DEF QueueInv
<1>6. CASE Poll
  <2>1. producer' = [pc |-> "open", i |-> producer.i]
    BY <1>6 DEF Poll, ProducerGoto
  <2>2. QueueTyped'
    BY <1>1, <1>2, <1>6, <2>1 DEF Poll, QueueInv, QueueTyped, ProducerState
  <2>3. FilesMade' = FilesMade /\ FilesRemoved' = FilesRemoved
    BY <1>1, <1>6, <2>1 DEF Poll, FilesMade, FilesRemoved
  <2>4. Between'
    BY <1>1, <1>3, <1>6, <2>1, <2>3 DEF Poll, Between
  <2> QED BY <1>1, <1>4, <2>2, <2>4, ReportsKept DEF QueueInv
<1>7. CASE OpenValues
  <2>1. producer' = [pc |-> "close", i |-> producer.i] /\ values = NoFile /\ values' = <<>>
    BY <1>1, <1>3, <1>7 DEF OpenValues, ProducerGoto, Between
  <2>2. QueueTyped'
    BY <1>1, <1>2, <1>7, <2>1 DEF OpenValues, QueueInv, QueueTyped, ProducerState, Text
  <2>3. FilesMade' = FilesMade + 1 /\ FilesRemoved' = FilesRemoved
    BY <1>1, <1>2, <1>7, <2>1 DEF OpenValues, FilesMade, FilesRemoved, ProducerState
  <2>4. <<>> # NoFile
    BY DEF NoFile
  <2>5. Len(left) + FilesMade' = FilesRemoved' + 1
    BY <1>1, <1>2, <1>3, <2>1, <2>3 DEF Between, FilesMade, FilesRemoved, ProducerState
  <2>6. Between'
    BY <1>1, <1>3, <1>7, <2>1, <2>4, <2>5 DEF OpenValues, Between
  <2> QED BY <1>1, <1>4, <2>2, <2>6, ReportsKept DEF QueueInv
<1>8. CASE CloseValues
  <2>1. /\ producer.pc = "close" /\ producer.i \in 1..Len(Data)
        /\ producer' = [pc |-> "poll", i |-> producer.i + 1]
    BY <1>1, <1>2, <1>3, <1>8 DEF CloseValues, ProducerGoto, Between, ProducerState
  <2>2. /\ Batch(Data[producer.i]) \in Text /\ Batch(Data[producer.i]) # NoFile
        /\ Due[Len(left) + producer.i] = Batch(Data[producer.i])
    BY <2>1, QueueAssumption, BatchText, DueAt DEF QueueInv
  <2>3. QueueTyped'
    BY <1>1, <1>2, <1>8, <2>1, <2>2 DEF CloseValues, QueueInv, QueueTyped, ProducerState
  <2>4. FilesMade = producer.i /\ FilesMade' = FilesMade /\ FilesRemoved' = FilesRemoved
    BY <1>1, <1>2, <2>1 DEF FilesMade, FilesRemoved, ProducerState
  <2>5. Between'
    BY <1>1, <1>3, <1>8, <2>1, <2>2, <2>4 DEF CloseValues, Between
  <2> QED BY <1>1, <1>4, <2>3, <2>5, ReportsKept DEF QueueInv
<1> QED BY <1>5, <1>6, <1>7, <1>8 DEF ProducerStep

(* The consumer's tests change nothing; it believes that the producer has ended only
   when it has. *)
LEMMA TestsKeep == ASSUME QueueInv, TestTerminated \/ FindValues \/ FindNothing PROVE QueueInv'
<1>1. /\ main = "waitpid" /\ UNCHANGED <<main, left, printed, producer, values, terminated>>
      /\ Due' = Due
  BY DEF TestTerminated, FindValues, FindNothing, QueueInv, Before, Due
<1>2. consumer \in ConsumerState /\ terminated \in BOOLEAN
  BY DEF QueueInv, QueueTyped
<1>3. Between
  BY DEF QueueInv
<1>4. CASE TestTerminated
  <2>1. /\ consumer.pc = "term"
        /\ consumer' = [consumer EXCEPT !.pc = "values", !.term = terminated]
    BY <1>4 DEF TestTerminated
  <2>2. /\ consumer' \in ConsumerState /\ consumer'.pc = "values"
        /\ consumer'.term = terminated
    BY <1>2, <2>1 DEF ConsumerState
  <2>3. QueueTyped'
    BY <1>1, <2>2 DEF QueueInv, QueueTyped, ProducerState
  <2>4. FilesMade' = FilesMade /\ FilesRemoved' = FilesRemoved
    BY <1>1, <2>1, <2>2 DEF FilesMade, FilesRemoved
  <2>5. Before' /\ Between'
    BY <1>1, <1>3, <2>2, <2>4 DEF Before, Between
  <2> QED BY <1>1, <2>3, <2>5, ReportsKept DEF QueueInv
<1>5. CASE FindValues
  <2>1. /\ consumer.pc = "values" /\ consumer' = [consumer EXCEPT !.pc = "scan"]
        /\ values # NoFile
    BY <1>5 DEF FindValues
  <2>2. /\ consumer' \in ConsumerState /\ consumer'.pc = "scan"
        /\ consumer'.term = consumer.term
    BY <1>2, <2>1 DEF ConsumerState
  <2>3. QueueTyped'
    BY <1>1, <2>2 DEF QueueInv, QueueTyped, ProducerState
  <2>4. FilesMade' = FilesMade /\ FilesRemoved' = FilesRemoved
    BY <1>1, <2>1, <2>2 DEF FilesMade, FilesRemoved
  <2>5. Before' /\ Between'
    BY <1>1, <1>3, <2>1, <2>2, <2>4 DEF Before, Between
  <2> QED BY <1>1, <2>3, <2>5, ReportsKept DEF QueueInv
<1>6. CASE FindNothing
  <2>1. consumer.pc = "values" /\ consumer' = [consumer EXCEPT !.pc = "term"]
    BY <1>6 DEF FindNothing
  <2>2. /\ consumer' \in ConsumerState /\ consumer'.pc = "term"
        /\ consumer'.term = consumer.term
    BY <1>2, <2>1 DEF ConsumerState
  <2>3. QueueTyped'
    BY <1>1, <2>2 DEF QueueInv, QueueTyped, ProducerState
  <2>4. FilesMade' = FilesMade /\ FilesRemoved' = FilesRemoved
    BY <1>1, <2>1, <2>2 DEF FilesMade, FilesRemoved
  <2>5. Before' /\ Between'
    BY <1>1, <1>3, <2>2, <2>4 DEF Before, Between
  <2> QED BY <1>1, <2>3, <2>5, ReportsKept DEF QueueInv
<1> QED BY <1>4, <1>5, <1>6

(* The file that is scanned is the one whose turn it is. *)
LEMMA ScanKeeps == ASSUME QueueInv, Scan PROVE QueueInv'
<1>1. /\ main = "waitpid" /\ UNCHANGED <<main, left, producer, values, terminated>>
      /\ Due' = Due
  BY DEF Scan, QueueInv, Before, Due
<1>2. /\ consumer \in ConsumerState /\ values \in Text /\ printed \in Seq(Printout)
      /\ producer \in ProducerState /\ Len(left) \in Nat /\ Len(Data) \in Nat
  BY QueueAssumption DEF QueueInv, QueueTyped
<1>3. Between
  BY DEF QueueInv
<1>4. /\ consumer.pc = "scan" /\ consumer' = [consumer EXCEPT !.pc = "remove"]
      /\ printed' = Append(printed, Report(values))
  BY DEF Scan
<1>5. /\ consumer' \in ConsumerState /\ consumer'.pc = "remove"
      /\ consumer'.term = consumer.term
  BY <1>2, <1>4 DEF ConsumerState
<1>6. Report(values) \in Printout
  BY <1>2 DEF Printout
<1>7. /\ printed' \in Seq(Printout) /\ Len(printed') = Len(printed) + 1
      /\ \A k \in 1..Len(printed) : printed'[k] = printed[k]
      /\ printed'[Len(printed) + 1] = Report(values)
      /\ Len(printed) \in Nat
  BY <1>2, <1>4, <1>6, AppendProperties, LenProperties
<1>8. QueueTyped'
  BY <1>1, <1>5, <1>7 DEF QueueInv, QueueTyped, ProducerState
<1>9. FilesMade' = FilesMade /\ FilesRemoved' = FilesRemoved /\ FilesRemoved = Len(printed)
  BY <1>1, <1>4, <1>5, <1>7 DEF FilesMade, FilesRemoved
<1>10. values # NoFile
  BY <1>1, <1>3, <1>4 DEF Between
<1>11. Before' /\ Between'
  BY <1>1, <1>3, <1>5, <1>9, <1>10 DEF Before, Between
<1>12. FilesMade \in 0..Len(Data)
  BY <1>1, <1>2, <1>3 DEF FilesMade, ProducerState, Between
<1>13. Len(left) + FilesMade = Len(printed) + 1
  BY <1>1, <1>3, <1>9, <1>10 DEF Between
<1>14. values \in {<<>>, Due[Len(printed) + 1]}
  BY <1>1, <1>3, <1>10, <1>13 DEF Between
<1>15. Reported'
  <2>1. Len(printed') <= Len(left) + Len(Data)
    BY <1>2, <1>7, <1>12, <1>13
  <2>2. \A k \in 1..Len(printed) : printed'[k] \in {Report(Due[k]), Report(<<>>)}
    BY <1>7 DEF QueueInv, Reported
  <2>3. printed'[Len(printed) + 1] \in {Report(Due[Len(printed) + 1]), Report(<<>>)}
    BY <1>7, <1>14
  <2> QED BY <1>1, <1>7, <2>1, <2>2, <2>3 DEF Reported
<1> QED BY <1>8, <1>11, <1>15 DEF QueueInv

(* After the removal as many files were removed as were made. *)
LEMMA RemoveKeeps == ASSUME QueueInv, RemoveValues PROVE QueueInv'
<1>1. /\ main = "waitpid" /\ UNCHANGED <<main, left, printed, producer, terminated>>
      /\ Due' = Due
  BY DEF RemoveValues, QueueInv, Before, Due
<1>2. /\ consumer \in ConsumerState /\ Len(printed) \in Nat /\ NoFile \in Text
      /\ producer \in ProducerState /\ Len(left) \in Nat
  BY LenProperties DEF QueueInv, QueueTyped, NoFile, Text
<1>3. Between
  BY DEF QueueInv
<1>4. /\ consumer.pc = "remove" /\ consumer' = [consumer EXCEPT !.pc = "term"]
      /\ values' = NoFile /\ values # NoFile
  BY <1>1, <1>3 DEF RemoveValues, Between
<1>5. /\ consumer' \in ConsumerState /\ consumer'.pc = "term"
      /\ consumer'.term = consumer.term
  BY <1>2, <1>4 DEF ConsumerState
<1>6. QueueTyped'
  BY <1>1, <1>2, <1>4, <1>5 DEF QueueInv, QueueTyped, ProducerState
<1>7. FilesMade' = FilesMade /\ FilesRemoved' = FilesRemoved + 1
  BY <1>1, <1>2, <1>4, <1>5 DEF FilesMade, FilesRemoved
<1>8. FilesMade \in Int /\ FilesRemoved \in Int
  BY <1>2 DEF FilesMade, FilesRemoved, ProducerState
<1>9. Before' /\ Between'
  BY <1>1, <1>2, <1>3, <1>4, <1>5, <1>7, <1>8 DEF Before, Between
<1> QED BY <1>1, <1>6, <1>9, ReportsKept DEF QueueInv

(* The end of the program, by itself or not: its files stay. *)
LEMMA EndKeeps == ASSUME QueueInv, Leave \/ KillAll PROVE QueueInv'
<1>1. /\ main' = "off" /\ consumer' = Unborn
      /\ UNCHANGED <<left, printed, values, terminated>>
      /\ producer' \in ProducerState /\ producer'.pc = "idle"
  <2>1. CASE Leave
    BY <2>1 DEF Leave, Stopping, QueueInv, QueueTyped, Before, Between
  <2>2. CASE KillAll
    BY <2>2, QueueAssumption DEF KillAll, Idle, QueueInv, ProducerState
  <2> QED BY <2>1, <2>2
<1>2. QueueTyped'
  BY <1>1 DEF QueueInv, QueueTyped, Unborn, ConsumerState, ProducerState
<1>3. Before' /\ Between'
  BY <1>1 DEF Before, Between, Unborn
<1> QED BY <1>1, <1>2, <1>3, ReportsKept DEF QueueInv

(* What happens to data.txt is of no account once the program runs. *)
LEMMA OthersKeep == ASSUME QueueInv, ProvideData \/ UNCHANGED queueVars PROVE QueueInv'
<1>1. UNCHANGED <<values, terminated, main, producer, consumer, printed, left>>
  BY DEF ProvideData, queueVars
<1> QED BY <1>1 DEF QueueInv, QueueTyped, ProducerState, ConsumerState, Before, Between, Reported,
           FilesMade, FilesRemoved, Due

(* OneReportEach: whatever data.txt holds and however often the program was killed
   and started among its files, each file is reported at most once and in its turn,
   with its batch or empty, and every file is when the consumer ends by itself. *)
THEOREM ReportsInTurn == QueueSpec => []OneReportEach
<1>1. QueueInit => QueueInv
  BY QueueStarts
<1>2. QueueInv /\ [QueueNext]_queueVars => QueueInv'
  BY StartKeeps, ForkKeeps, ProducerKeeps, TestsKeep, ScanKeeps, RemoveKeeps, EndKeeps,
     OthersKeep DEF QueueNext, ConsumerStep
<1>3. QueueInv => OneReportEach
  <2> SUFFICES ASSUME QueueInv PROVE OneReportEach
    OBVIOUS
  <2>1. Len(Due) = Len(left) + Len(Data) /\ Len(left) \in Nat /\ Len(Data) \in Nat
    BY DueAt DEF QueueInv
  <2>2. Len(printed) \in Nat /\ DOMAIN printed = 1..Len(printed)
    BY LenProperties DEF QueueInv, QueueTyped
  <2>3. ASSUME Stopping PROVE Len(printed) = Len(Due)
    <3>1. main = "waitpid"
      BY <2>3 DEF Stopping, QueueInv, QueueTyped, Before
    <3>2. consumer.pc = "values" /\ values = NoFile /\ terminated /\ Between
      BY <2>3, <3>1 DEF Stopping, QueueInv, Between
    <3>3. producer.pc = "idle" /\ producer.i = Len(Data) + 1
      BY <3>1, <3>2 DEF Between
    <3>4. FilesMade = Len(Data) /\ FilesRemoved = Len(printed)
      BY <2>2, <3>2, <3>3, QueueAssumption DEF FilesMade, FilesRemoved
    <3>5. Len(left) + FilesMade = FilesRemoved + 0
      BY <3>1, <3>2 DEF Between
    <3>6. Len(printed) \in Nat
      BY <2>2
    <3>7. Len(left) + Len(Data) = Len(printed) + 0
      BY <3>4, <3>5
    <3>8. Len(left) + Len(Data) = Len(printed)
      BY <3>6, <3>7
    <3> QED BY <2>1, <3>8
  <2> QED BY <2>1, <2>2, <2>3 DEF QueueInv, Reported, OneReportEach
<1> QED BY <1>1, <1>2, <1>3, PTL DEF QueueSpec

---------------------------------------------------------------------------------
(* Comp 310: producers and consumer *)

(* The consumer holds the mutex from its test to its unlock; it takes only what is
   there, unless it woke up without a signal. *)
Orderly ==
    /\ mutex = (IF taker = "take" THEN Reader ELSE Nobody)
    /\ \A p \in Producer : maker[p].pc = "make"
    /\ queue = entered
    /\ queueEnd = Len(entered)
    /\ ~spurious => /\ queueStart <= queueEnd
                    /\ taken = SubSeq(entered, 1, queueStart)
                    /\ (taker = "take" \/ (taker = "wait" /\ signalled)) => queueStart < queueEnd

MakerState == [pc : {"make", "read", "add"}, i : Nat, end : Nat]
ArrayTyped ==
    /\ thSync \in BOOLEAN
    /\ taker \in {"lock", "wait", "take"}
    /\ entered \in Seq(Producer \X Int)
    /\ queueStart \in Nat /\ queueEnd \in Nat
    /\ maker \in [Producer -> MakerState]

(* The inductive invariant *)
ArrayInv == ArrayTyped /\ (thSync => Orderly)

(* Writing at the end of the array is appending to it. *)
LEMMA WrittenAtEnd ==
    ASSUME NEW T, NEW item \in T, queue \in Seq(T)
    PROVE  Written(Len(queue), item) = Append(queue, item)
<1> DEFINE w == Written(Len(queue), item)
           a == Append(queue, item)
<1>1. Len(queue) \in Nat /\ \A k \in 1..Len(queue) : queue[k] \in T
  BY LenProperties
<1>2. w = [k \in 1..(Len(queue) + 1) |-> IF k = Len(queue) + 1 THEN item ELSE At(k - 1)]
  BY <1>1 DEF Written
<1>3. \A k \in 1..Len(queue) : At(k - 1) = queue[k]
  BY <1>1 DEF At
<1>4. w \in [1..(Len(queue) + 1) -> T]
  BY <1>1, <1>2, <1>3
<1>5. w \in Seq(T) /\ Len(w) = Len(queue) + 1
  BY <1>1, <1>4
<1>6. /\ a \in Seq(T) /\ Len(a) = Len(queue) + 1
      /\ \A k \in 1..Len(queue) : a[k] = queue[k]
      /\ a[Len(queue) + 1] = item
  BY AppendProperties
<1>7. \A k \in 1..Len(w) : w[k] = a[k]
  BY <1>1, <1>2, <1>3, <1>5, <1>6
<1> HIDE DEF w, a
<1>8. w = a
  BY <1>5, <1>6, <1>7, SeqEqual
<1> QED BY <1>8 DEF w, a

(* The consumer's items grow by the one it takes, and those before it stay. *)
LEMMA NextItem ==
    ASSUME NEW T, NEW s \in Seq(T), NEW n \in Nat, n < Len(s)
    PROVE  SubSeq(s, 1, n + 1) = Append(SubSeq(s, 1, n), s[n + 1])
  OBVIOUS

(* What was put in before keeps its place. *)
LEMMA PrefixKept ==
    ASSUME NEW T, NEW s \in Seq(T), NEW x \in T, NEW n \in Nat, n <= Len(s)
    PROVE  SubSeq(Append(s, x), 1, n) = SubSeq(s, 1, n)
  OBVIOUS

(* A producer that has made an item goes on to the next. *)
LEMMA MadeOne ==
    ASSUME NEW r \in MakerState, NEW n \in Nat
    PROVE  [r EXCEPT !.pc = "make", !.i = n] \in MakerState
  BY DEF MakerState

(* The array is empty at first. *)
LEMMA ArrayStarts == ProducerInit => ArrayInv
<1> SUFFICES ASSUME ProducerInit PROVE ArrayInv
  OBVIOUS
<1>1. ArrayTyped
  BY DEF ProducerInit, ArrayTyped, MakerState
<1>2. SubSeq(entered, 1, 0) = <<>>
  BY DEF ProducerInit
<1>3. Orderly
  BY <1>2 DEF ProducerInit, Orderly, Nobody
<1> QED BY <1>1, <1>3 DEF ArrayInv

(* A producer's critical section puts one item at the end. *)
LEMMA ProduceKeeps ==
    ASSUME ArrayInv, NEW p \in Producer, Produce(p)
    PROVE  ArrayInv'
<1> DEFINE item == <<p, maker[p].i>>
<1>1. item \in Producer \X Int
  BY DEF ArrayInv, ArrayTyped, MakerState
<1>2. /\ thSync /\ Orderly /\ ArrayTyped /\ taker # "take"
      /\ thSync' = thSync
  BY DEF ArrayInv, Produce, Orderly, Nobody, Reader
<1>3. queue' = Append(entered, item) /\ entered' = Append(entered, item)
  BY <1>1, <1>2, WrittenAtEnd DEF Orderly, ArrayTyped, Produce
<1>4. ArrayTyped'
  <2>1. entered' \in Seq(Producer \X Int)
    BY <1>1, <1>2, <1>3 DEF ArrayTyped
  <2>2. maker' = [maker EXCEPT ![p] = [@ EXCEPT !.i = maker[p].i + 1]]
    BY DEF Produce
  <2>3. maker[p] \in MakerState
    BY <1>2 DEF ArrayTyped
  <2>5. [maker[p] EXCEPT !.i = maker[p].i + 1] \in MakerState
    BY <2>3 DEF MakerState
  <2>4. maker' \in [Producer -> MakerState]
    BY <1>2, <2>2, <2>5 DEF ArrayTyped
  <2> QED BY <1>2, <2>1, <2>4 DEF ArrayTyped, Produce
<1>5. Len(entered') = Len(entered) + 1 /\ Len(entered) \in Nat
  BY <1>1, <1>2, <1>3 DEF ArrayTyped
<1>6. ASSUME ~spurious'
      PROVE  /\ queueStart' <= queueEnd'
             /\ taken' = SubSeq(entered', 1, queueStart')
             /\ queueStart' < queueEnd'
  <2>1. /\ ~spurious /\ queueStart <= Len(entered)
        /\ taken = SubSeq(entered, 1, queueStart)
    BY <1>2, <1>6 DEF Orderly, Produce
  <2>2. SubSeq(entered', 1, queueStart) = SubSeq(entered, 1, queueStart)
    BY <1>1, <1>2, <1>3, <2>1, PrefixKept DEF ArrayTyped
  <2> QED BY <1>2, <1>5, <2>1, <2>2 DEF Produce, Orderly, ArrayTyped
<1>7. \A r \in Producer : maker'[r].pc = "make"
  BY <1>2 DEF ArrayTyped, Orderly, Produce
<1> QED BY <1>2, <1>3, <1>4, <1>5, <1>6, <1>7 DEF ArrayInv, Orderly, Produce

(* Without the mutex only the types are kept, and with it these steps do not occur. *)
LEMMA UnsafeKeeps ==
    ASSUME ArrayInv, NEW p \in Producer, Write(p) \/ ReadEnd(p) \/ AddEnd(p)
    PROVE  ArrayInv'
<1>1. CASE Write(p)
  <2>1. ~thSync /\ ~thSync' /\ <<p, maker[p].i>> \in Producer \X Int
    BY <1>1 DEF Write, ArrayInv, ArrayTyped, MakerState
  <2>2. ArrayTyped'
    <3>1. entered' \in Seq(Producer \X Int)
      BY <1>1, <2>1 DEF Write, ArrayInv, ArrayTyped
    <3>2. maker' \in [Producer -> MakerState]
      BY <1>1 DEF Write, ArrayInv, ArrayTyped, GoOn, MakerState
    <3> QED BY <1>1, <3>1, <3>2 DEF Write, ArrayInv, ArrayTyped
  <2> QED BY <2>1, <2>2 DEF ArrayInv
<1>2. CASE ReadEnd(p) \/ AddEnd(p)
  <2>1. ~thSync /\ ~thSync'
    BY <1>2 DEF ReadEnd, AddEnd, Stands, ArrayInv, Orderly, ArrayTyped
  <2>2. maker[p] \in MakerState /\ queueEnd \in Nat
    BY DEF ArrayInv, ArrayTyped
  <2>3. maker' \in [Producer -> MakerState]
    <3>1. CASE ReadEnd(p)
      <4>1. maker' = [maker EXCEPT ![p] = [@ EXCEPT !.pc = "add", !.end = queueEnd]]
        BY <3>1 DEF ReadEnd
      <4>2. [maker[p] EXCEPT !.pc = "add", !.end = queueEnd] \in MakerState
        BY <2>2 DEF MakerState
      <4> QED BY <4>1, <4>2 DEF ArrayInv, ArrayTyped
    <3>2. CASE AddEnd(p)
      <4>1. maker' = [maker EXCEPT ![p] = [@ EXCEPT !.pc = "make", !.i = maker[p].i + 1]]
        BY <3>2 DEF AddEnd
      <4>2. [maker[p] EXCEPT !.pc = "make", !.i = maker[p].i + 1] \in MakerState
        <5>1. maker[p].i + 1 \in Nat
          BY <2>2 DEF MakerState
        <5> QED BY <2>2, <5>1, MadeOne
      <4> QED BY <4>1, <4>2 DEF ArrayInv, ArrayTyped
    <3> QED BY <1>2, <3>1, <3>2
  <2>4. ArrayTyped'
    BY <1>2, <2>2, <2>3 DEF ReadEnd, AddEnd, ArrayInv, ArrayTyped, MakerState
  <2> QED BY <2>1, <2>4 DEF ArrayInv
<1> QED BY <1>1, <1>2

(* The consumer waits or is about to take something that is there. *)
LEMMA TakerKeeps ==
    ASSUME ArrayInv, LockAndTest \/ Wake \/ Spin \/ JoinAll \/ UNCHANGED miniVars
    PROVE  ArrayInv'
<1>1. CASE LockAndTest
  BY <1>1 DEF LockAndTest, ArrayInv, ArrayTyped, Orderly
<1>2. CASE Wake
  BY <1>2 DEF Wake, ArrayInv, ArrayTyped, Orderly
<1>3. CASE Spin
  BY <1>3 DEF Spin, ArrayInv, ArrayTyped
<1>4. CASE JoinAll
  BY <1>4 DEF JoinAll, ArrayInv, ArrayTyped, Orderly
<1>5. CASE UNCHANGED miniVars
  BY <1>5 DEF miniVars, ArrayInv, ArrayTyped, Orderly
<1> QED BY <1>1, <1>2, <1>3, <1>4, <1>5

(* What the consumer takes is the item it has come to. *)
LEMMA TakeKeeps ==
    ASSUME ArrayInv, Take
    PROVE  ArrayInv'
<1>1. ArrayTyped'
  BY DEF Take, ArrayInv, ArrayTyped
<1>2. SUFFICES ASSUME thSync PROVE Orderly'
  BY <1>1 DEF ArrayInv, Take
<1>3. Orderly /\ ArrayTyped /\ taker = "take"
  BY <1>2 DEF ArrayInv, Take
<1>4. ASSUME ~spurious'
      PROVE  queueStart' <= queueEnd' /\ taken' = SubSeq(entered', 1, queueStart')
  <2>1. /\ ~spurious /\ queueStart < Len(entered)
        /\ taken = SubSeq(entered, 1, queueStart)
    BY <1>3, <1>4 DEF Orderly, Take
  <2>2. At(queueStart) = entered[queueStart + 1]
    BY <1>3, <2>1 DEF At, Orderly
  <2>3. taken' = SubSeq(entered, 1, queueStart + 1)
    BY <1>3, <2>1, <2>2, NextItem DEF Take, ArrayTyped
  <2>4. entered' = entered /\ queueStart' = queueStart + 1 /\ queueEnd' = Len(entered)
    BY <1>3 DEF Take, Orderly
  <2>5. queueStart \in Nat /\ Len(entered) \in Nat
    BY <1>3 DEF ArrayTyped
  <2> QED BY <2>1, <2>3, <2>4, <2>5
<1> QED BY <1>3, <1>4 DEF Take, Orderly, ArrayTyped

(* InOrder: under the mutex items leave in the order in which they came, each once,
   as long as pthread_cond_wait returns only after a signal. *)
THEOREM ItemsInOrder == ProducerSpec => []InOrder
<1>1. ProducerInit => ArrayInv
  BY ArrayStarts
<1>2. ArrayInv /\ [ProducerNext]_miniVars => ArrayInv'
  BY ProduceKeeps, UnsafeKeeps, TakerKeeps, TakeKeeps DEF ProducerNext
<1>3. ArrayInv => InOrder
  BY DEF ArrayInv, ArrayTyped, Orderly, InOrder
<1> QED BY <1>1, <1>2, <1>3, PTL DEF ProducerSpec

(* Comp 206: the server that reads lines of its port *)

Line == [to : {"server", "otherserver", "", "no file"}, from : Sender,
         cmd : {"text", "long", "quit", ""}, id : Nat]
ServerState == [pc : {"wait", "clear", "write", "off"}, commands : Seq(Line), running : BOOLEAN]
Past == [foreign : SUBSET Nat, late : SUBSET Nat, unread : SUBSET Nat, dropped : SUBSET Nat]
PortTyped ==
    /\ port \in Seq(Line)
    /\ server \in ServerState
    /\ outbox \in [Sender -> Seq(Nat)]
    /\ lines \in Nat
    /\ past \in Past

(* A line with a number comes from a client, and what is for another server counts as
   foreign; a command has no number when it is what the stack held. *)
Posted(line, n, foreign) ==
    /\ line.id <= n
    /\ line.id = 0 <=> line.from = Junk
    /\ line.from = "wrongsender" => line.to # "server"
    /\ line.id # 0 /\ line.to # "server" => line.id \in foreign
Accepted(line, n) ==
    /\ line.id <= n
    /\ line.id = 0 <=> line.from = Junk
    /\ line.from # "wrongsender"
LinesTyped ==
    /\ \A i \in 1..Len(port) : Posted(port[i], lines, past.foreign)
    /\ \A i \in 1..Len(server.commands) : Accepted(server.commands[i], lines)
    /\ server.pc \in {"wait", "off"} => server.commands = <<>>

(* The numbers grow from what is written to the commands, and from both to the port,
   of which the commands are a copy until it is cleared. *)
Rising(text) ==
    \A i, j \in 1..Len(text) : i < j /\ text[i].id # 0 /\ text[j].id # 0 => text[i].id < text[j].id
Behind(ids, text) ==
    \A i \in 1..Len(ids) : \A j \in 1..Len(text) : text[j].id # 0 => ids[i] < text[j].id
After(text, other) ==
    \A i \in 1..Len(other) : \A j \in 1..Len(text) :
        other[i].id # 0 /\ text[j].id # 0 => other[i].id < text[j].id
LinesRise ==
    /\ Rising(port) /\ Rising(server.commands)
    /\ Increasing(outbox["client1"]) /\ outbox["wrongsender"] = <<>>
    /\ \A i \in 1..Len(outbox["client1"]) : outbox["client1"][i] <= lines
    /\ Behind(outbox["client1"], port) /\ Behind(outbox["client1"], server.commands)
    /\ server.pc = "write" => After(port, server.commands)

(* Where a line may be, also while the port is about to be cleared *)
In(n, text) == \E i \in 1..Len(text) : text[i].id = n
Among(n, ids) == \E i \in 1..Len(ids) : ids[i] = n
Excused(n, gone) == n \in gone.foreign \cup gone.late \cup gone.unread \cup gone.dropped
LinesFound ==
    /\ \A n \in 1..lines :
          Excused(n, past) \/ In(n, port) \/ Among(n, outbox["client1"]) \/ (server.pc = "write" /\ In(n, server.commands))
    /\ server.pc = "clear" =>
          \A i \in 1..Len(port) :
              port[i].id = 0 \/ In(port[i].id, server.commands) \/ Excused(port[i].id, past)

(* The inductive invariant *)
PortInv == PortTyped /\ LinesTyped /\ LinesRise /\ LinesFound

(* What is in a text is a line, with a number and a sender. *)
LEMMA LineAt ==
    ASSUME NEW text \in Seq(Line), NEW i \in 1..Len(text)
    PROVE  text[i] \in Line /\ text[i].id \in Nat /\ text[i].from \in Sender
<1>1. text[i] \in Line
  OBVIOUS
<1> QED BY <1>1 DEF Line

(* A line without text and a file that is not there have number 0. *)
LEMMA NoLine ==
    /\ NoText \in Line /\ NoText.id = 0 /\ NoText.from = Junk
    /\ NoPort \in Seq(Line) /\ Len(NoPort) = 1 /\ NoPort[1].id = 0 /\ NoPort[1].from = Junk
<1> DEFINE l == [NoText EXCEPT !.to = "no file"]
<1>1. NoText \in Line /\ NoText.id = 0 /\ NoText.from = Junk
  BY DEF NoText, Line, Sender
<1>2. l \in Line /\ l.id = 0 /\ l.from = Junk
  BY <1>1 DEF Line
<1>3. NoPort = <<l>>
  BY DEF NoPort
<1> HIDE DEF l
<1> QED BY <1>1, <1>2, <1>3

(* The invariant of the port holds before anything is sent. *)
LEMMA PortStarts == PortInit => PortInv
<1> SUFFICES ASSUME PortInit PROVE PortInv
  OBVIOUS
<1> USE DEF PortInit
<1>1. NoPort \in Seq(Line) /\ Len(NoPort) = 1 /\ NoPort[1].id = 0 /\ NoPort[1].from = Junk
  BY NoLine
<1>2. PortTyped
  BY <1>1, EmptySeq DEF PortTyped, ServerState, Past
<1>3. LinesTyped
  BY <1>1 DEF LinesTyped, Posted, Accepted, Junk
<1>4. LinesRise
  <2>1. outbox["client1"] = <<>> /\ outbox["wrongsender"] = <<>>
    BY DEF Sender
  <2>2. Rising(port) /\ Rising(server.commands)
    BY <1>1 DEF Rising
  <2> QED BY <2>1, <2>2 DEF LinesRise, Behind, After, Increasing
<1>5. LinesFound
  BY DEF LinesFound
<1> QED BY <1>2, <1>3, <1>4, <1>5 DEF PortInv

(* What a client appends to: no line of a port that is missing. *)
LEMMA LinesThere ==
    ASSUME PortInv
    PROVE  /\ Lines \in Seq(Line)
           /\ \A i \in 1..Len(Lines) : i \in 1..Len(port) /\ Lines[i] = port[i]
           /\ \A i \in 1..Len(port) : port[i].id # 0 => i \in 1..Len(Lines)
<1>1. port \in Seq(Line)
  BY DEF PortInv, PortTyped
<1>2. CASE port = NoPort
  <2>1. Len(port) = 1 /\ port[1].id = 0
    BY <1>2 DEF NoPort, NoText
  <2>2. Lines = <<>>
    BY <1>2 DEF Lines
  <2> QED BY <2>1, <2>2, EmptySeq
<1>3. CASE port # NoPort
  <2>1. Lines = port
    BY <1>3 DEF Lines
  <2> QED BY <2>1, <1>1
<1> QED BY <1>2, <1>3

(* A line that is sent gets the highest number. *)
LEMMA SendKeeps ==
    ASSUME PortInv, NEW p \in Client \cup Stranger, NEW cmd \in {"text", "long", "quit"}, SendCommand(p, cmd)
    PROVE  PortInv'
<1> DEFINE new == SentLine(p, cmd)
           k == Len(Lines)
<1>1. /\ Lines \in Seq(Line)
      /\ \A i \in 1..k : i \in 1..Len(port) /\ Lines[i] = port[i]
      /\ \A i \in 1..Len(port) : port[i].id # 0 => i \in 1..k
  BY LinesThere
<1>2. lines \in Nat /\ port \in Seq(Line) /\ server \in ServerState /\ outbox \in [Sender -> Seq(Nat)] /\ past \in Past
  BY DEF PortInv, PortTyped
<1>3. /\ new \in Line /\ new.id = lines + 1 /\ new.from # Junk
      /\ new.from = "wrongsender" => new.to # "server"
      /\ new.to # "server" => p \in Stranger
  <2> DEFINE to == IF p \in Client THEN "server" ELSE "otherserver"
             from == IF p \in Client THEN "client1" ELSE "wrongsender"
  <2>1. to \in {"server", "otherserver"} /\ from \in {"client1", "wrongsender"}
    OBVIOUS
  <2>2. from = "wrongsender" <=> to # "server"
    OBVIOUS
  <2>3. to # "server" => p \in Stranger
    OBVIOUS
  <2>4. new = [to |-> to, from |-> from, cmd |-> cmd, id |-> lines + 1]
    BY DEF SentLine
  <2> HIDE DEF to, from, new
  <2>5. from \in Sender /\ from # Junk /\ lines + 1 \in Nat
    BY <2>1, <1>2 DEF Sender, Junk
  <2> QED BY <2>1, <2>2, <2>3, <2>4, <2>5 DEF Line
<1>4. NoText \in Line /\ NoText.id = 0 /\ NoText.from = Junk
  BY DEF NoText, Line, Sender
<1>5. /\ port' = Lines \o (IF cmd = "long" THEN <<new, NoText>> ELSE <<new>>)
      /\ lines' = lines + 1
      /\ past' = [past EXCEPT !.foreign = @ \cup IF p \in Stranger THEN {lines + 1} ELSE {},
                              !.late = @ \cup IF server.pc = "clear" THEN {lines + 1} ELSE {}]
      /\ UNCHANGED <<server, outbox>>
  BY DEF SendCommand
<1> HIDE DEF new
<1>6. /\ port' \in Seq(Line) /\ k \in Nat
      /\ Len(port') \in {k + 1, k + 2}
      /\ \A i \in 1..k : port'[i] = Lines[i]
      /\ port'[k + 1] = new
      /\ Len(port') = k + 2 => port'[k + 2] = NoText
  BY <1>1, <1>3, <1>4, <1>5
<1>7. \A i \in 1..Len(port') : \/ i \in 1..k /\ i \in 1..Len(port) /\ port'[i] = port[i]
                               \/ i = k + 1 /\ port'[i] = new
                               \/ i = k + 2 /\ port'[i] = NoText
  BY <1>1, <1>6
<1>8. /\ past' \in Past
      /\ past'.foreign = past.foreign \cup (IF p \in Stranger THEN {lines + 1} ELSE {})
      /\ past'.late = past.late \cup (IF server.pc = "clear" THEN {lines + 1} ELSE {})
      /\ past'.unread = past.unread /\ past'.dropped = past.dropped
    <2> DEFINE F == IF p \in Stranger THEN {lines + 1} ELSE {}
             L == IF server.pc = "clear" THEN {lines + 1} ELSE {}
  <2>1. F \subseteq Nat /\ L \subseteq Nat
    BY <1>2
  <2>2. past' = [past EXCEPT !.foreign = @ \cup F, !.late = @ \cup L]
    BY <1>5
  <2> HIDE DEF F, L
  <2>3. past'.foreign = past.foreign \cup F /\ past'.late = past.late \cup L
    BY <1>2, <2>1, <2>2 DEF Past
  <2>4. past' \in Past /\ past'.unread = past.unread /\ past'.dropped = past.dropped
    BY <1>2, <2>1, <2>2 DEF Past
  <2> QED BY <2>3, <2>4 DEF F, L
<1>9. PortTyped'
  BY <1>2, <1>5, <1>6, <1>8 DEF PortTyped
<1>10. LinesTyped'
  <2>1. /\ \A i \in 1..Len(port) : Posted(port[i], lines, past.foreign)
        /\ \A i \in 1..Len(server.commands) : Accepted(server.commands[i], lines)
        /\ server.pc \in {"wait", "off"} => server.commands = <<>>
    BY DEF PortInv, LinesTyped
  <2>2. ASSUME NEW i \in 1..Len(port') PROVE Posted(port'[i], lines + 1, past'.foreign)
    <3>1. CASE i \in 1..Len(port) /\ port'[i] = port[i]
      <4>1. port[i].id \in Nat
        BY <3>1, <1>2, LineAt
      <4>2. Posted(port[i], lines, past.foreign)
        BY <2>1, <3>1
      <4>3. port[i].id <= lines + 1
        BY <4>1, <4>2, <1>2 DEF Posted
      <4>4. past.foreign \subseteq past'.foreign
        BY <1>8
      <4>5. Posted(port[i], lines + 1, past'.foreign)
        BY <4>2, <4>3, <4>4 DEF Posted
      <4> QED BY <3>1, <4>5
    <3>2. CASE port'[i] = new
      BY <3>2, <1>2, <1>3, <1>8 DEF Posted
    <3>3. CASE port'[i] = NoText
      <4>1. 0 <= lines + 1
        BY <1>2
      <4>2. Posted(NoText, lines + 1, past'.foreign)
        BY <1>4, <4>1 DEF Posted, Junk
      <4> QED BY <3>3, <4>2
    <3> QED BY <1>7, <3>1, <3>2, <3>3
  <2>3. ASSUME NEW i \in 1..Len(server.commands) PROVE Accepted(server.commands[i], lines + 1)
    <3>1. server.commands[i].id \in Nat
      BY <1>2, LineAt DEF ServerState
    <3> QED BY <2>1, <3>1, <1>2 DEF Accepted
  <2> QED BY <2>1, <2>2, <2>3, <1>5 DEF LinesTyped
<1>11. LinesRise'
  <2>1. /\ Rising(port) /\ Rising(server.commands)
        /\ Increasing(outbox["client1"]) /\ outbox["wrongsender"] = <<>>
        /\ \A i \in 1..Len(outbox["client1"]) : outbox["client1"][i] <= lines
        /\ Behind(outbox["client1"], port) /\ Behind(outbox["client1"], server.commands)
        /\ server.pc = "write" => After(port, server.commands)
    BY DEF PortInv, LinesRise
  <2>2. outbox["client1"] \in Seq(Nat)
    BY <1>2 DEF Sender
  <2>3. \A i \in 1..Len(port) : port[i].id \in Nat /\ port[i].id <= lines
    BY <1>2, LineAt DEF PortInv, LinesTyped, Posted
  <2>4. \A i \in 1..Len(server.commands) : server.commands[i].id \in Nat /\ server.commands[i].id <= lines
    BY <1>2, LineAt DEF PortInv, LinesTyped, Accepted, ServerState
  <2>5. Rising(port')
    <3> SUFFICES ASSUME NEW i \in 1..Len(port'), NEW j \in 1..Len(port'), i < j,
                        port'[i].id # 0, port'[j].id # 0
                 PROVE  port'[i].id < port'[j].id
      BY DEF Rising
    <3>1. /\ i \in 1..k /\ i \in 1..Len(port) /\ port'[i] = port[i]
          /\ \/ j \in 1..Len(port) /\ port'[j] = port[j]
             \/ port'[j] = new
      BY <1>7, <1>4, <1>6
    <3>2. CASE j \in 1..Len(port) /\ port'[j] = port[j]
      BY <3>1, <3>2, <2>1 DEF Rising
    <3>3. CASE port'[j] = new
      BY <3>1, <3>3, <2>3, <1>3, <1>2
    <3> QED BY <3>1, <3>2, <3>3
  <2>6. Behind(outbox["client1"], port')
    <3> SUFFICES ASSUME NEW i \in 1..Len(outbox["client1"]), NEW j \in 1..Len(port'), port'[j].id # 0
                 PROVE  outbox["client1"][i] < port'[j].id
      BY DEF Behind
    <3>1. CASE j \in 1..Len(port) /\ port'[j] = port[j]
      BY <3>1, <2>1 DEF Behind
    <3>2. CASE port'[j] = new
      <4>1. outbox["client1"][i] \in Nat /\ outbox["client1"][i] <= lines
        BY <2>1, <2>2
      <4> QED BY <4>1, <3>2, <1>2, <1>3
    <3> QED BY <3>1, <3>2, <1>4, <1>7
  <2>7. server.pc = "write" => After(port', server.commands)
    <3> SUFFICES ASSUME server.pc = "write", NEW i \in 1..Len(server.commands), NEW j \in 1..Len(port'),
                        server.commands[i].id # 0, port'[j].id # 0
                 PROVE  server.commands[i].id < port'[j].id
      BY DEF After
    <3>1. CASE j \in 1..Len(port) /\ port'[j] = port[j]
      BY <3>1, <2>1 DEF After
    <3>2. CASE port'[j] = new
      BY <2>4, <3>2, <1>2, <1>3
    <3> QED BY <3>1, <3>2, <1>4, <1>7
  <2>8. \A i \in 1..Len(outbox["client1"]) : outbox["client1"][i] <= lines + 1
    <3> TAKE i \in 1..Len(outbox["client1"])
    <3>1. outbox["client1"][i] \in Nat /\ outbox["client1"][i] <= lines
      BY <2>1, <2>2
    <3> QED BY <3>1, <1>2
  <2> QED BY <2>1, <2>5, <2>6, <2>7, <2>8, <1>5 DEF LinesRise
<1>12. LinesFound'
  <2>1. /\ \A n \in 1..lines :
              Excused(n, past) \/ In(n, port) \/ Among(n, outbox["client1"]) \/ (server.pc = "write" /\ In(n, server.commands))
        /\ server.pc = "clear" =>
              \A i \in 1..Len(port) :
                  port[i].id = 0 \/ In(port[i].id, server.commands) \/ Excused(port[i].id, past)
    BY DEF PortInv, LinesFound
  <2>2. \A n : Excused(n, past) => Excused(n, past')
    BY <1>5, <1>8 DEF Excused
  <2>3. server.pc = "clear" => Excused(lines + 1, past')
    BY <1>5, <1>8 DEF Excused
  <2>4. ASSUME NEW n \in 1..(lines + 1)
        PROVE  Excused(n, past') \/ In(n, port') \/ Among(n, outbox["client1"]) \/ (server.pc = "write" /\ In(n, server.commands))
    <3>1. CASE n = lines + 1
      BY <3>1, <1>3, <1>6 DEF In
    <3>2. CASE n \in 1..lines
      <4>1. ASSUME In(n, port) PROVE In(n, port')
        <5>1. PICK i \in 1..Len(port) : port[i].id = n
          BY <4>1 DEF In
        <5>2. i \in 1..k /\ i \in 1..Len(port') /\ port'[i] = port[i]
          BY <5>1, <3>2, <1>1, <1>6
        <5> QED BY <5>1, <5>2 DEF In
      <4> QED BY <3>2, <4>1, <2>1, <2>2
    <3> QED BY <3>1, <3>2, <1>2
  <2>5. ASSUME server.pc = "clear", NEW i \in 1..Len(port')
        PROVE  port'[i].id = 0 \/ In(port'[i].id, server.commands) \/ Excused(port'[i].id, past')
    <3>1. CASE i \in 1..Len(port) /\ port'[i] = port[i]
      <4>1. port[i].id = 0 \/ In(port[i].id, server.commands) \/ Excused(port[i].id, past)
        BY <3>1, <2>1, <2>5
      <4>2. Excused(port[i].id, past) => port[i].id \in past'.foreign \cup past'.late \cup past'.unread \cup past'.dropped
        BY <1>8 DEF Excused
      <4> QED BY <3>1, <4>1, <4>2 DEF Excused
    <3>2. CASE port'[i] = new
      BY <3>2, <1>3, <1>8, <2>5 DEF Excused
    <3> QED BY <3>1, <3>2, <1>4, <1>7
  <2> QED BY <2>4, <2>5, <1>5 DEF LinesFound
<1> QED BY <1>9, <1>10, <1>11, <1>12 DEF PortInv

(* The loop of readCommands: what it has kept of the first n lines. *)
Kept(all, text, extra, n) ==
    /\ all \in Seq(Line)
    /\ \A i \in 1..Len(all) : \E j \in 1..n : all[i] = text[j] /\ (text[j].to = "server" \/ j \in extra)
    /\ \A i, k \in 1..Len(all) : i < k => \E j, l \in 1..n : j < l /\ all[i] = text[j] /\ all[k] = text[l]
    /\ \A j \in 1..n : text[j].to = "server" => \E i \in 1..Len(all) : all[i] = text[j]

(* One more line is looked at for the server. *)
LEMMA OneMoreKept ==
    ASSUME NEW text \in Seq(Line), NEW extra, NEW n \in Nat, n < Len(text),
           NEW all, Kept(all, text, extra, n),
           NEW more, more = IF text[n + 1].to = "server" \/ n + 1 \in extra THEN Append(all, text[n + 1]) ELSE all
    PROVE  Kept(more, text, extra, n + 1)
<1> DEFINE m == Len(all)
<1>1. all \in Seq(Line) /\ m \in Nat
  BY DEF Kept
<1>2. n + 1 \in 1..Len(text) /\ text[n + 1] \in Line
  OBVIOUS
<1>3. CASE text[n + 1].to = "server" \/ n + 1 \in extra
  <2>1. /\ more \in Seq(Line) /\ Len(more) = m + 1 /\ more[m + 1] = text[n + 1]
        /\ \A i \in 1..m : more[i] = all[i]
    BY <1>1, <1>2, <1>3
  <2> HIDE DEF m
  <2>2. \A i \in 1..(m + 1) : i \in 1..m \/ i = m + 1
    BY <1>1
  <2>3. \A j \in 1..(n + 1) : j \in 1..n \/ j = n + 1
    OBVIOUS
  <2>4. \A j \in 1..n : j \in 1..(n + 1) /\ j < n + 1
    OBVIOUS
  <2>5. ASSUME NEW i \in 1..(m + 1)
        PROVE  \E j \in 1..(n + 1) : more[i] = text[j] /\ (text[j].to = "server" \/ j \in extra)
    <3>1. CASE i \in 1..m
      BY <2>1, <2>4, <3>1 DEF Kept, m
    <3>2. CASE i = m + 1
      BY <2>1, <3>2, <1>3
    <3> QED BY <2>2, <3>1, <3>2
  <2>6. ASSUME NEW i \in 1..(m + 1), NEW k \in 1..(m + 1), i < k
        PROVE  \E j, l \in 1..(n + 1) : j < l /\ more[i] = text[j] /\ more[k] = text[l]
    <3>1. i \in 1..m /\ more[i] = all[i]
      BY <2>1, <2>6, <1>1
    <3>2. CASE k \in 1..m
      <4>1. PICK j \in 1..n, l \in 1..n : j < l /\ all[i] = text[j] /\ all[k] = text[l]
        BY <2>6, <3>1, <3>2 DEF Kept, m
      <4> QED BY <2>1, <2>4, <3>1, <3>2, <4>1
    <3>3. CASE k = m + 1
      <4>1. PICK j \in 1..n : all[i] = text[j]
        BY <3>1 DEF Kept, m
      <4> QED BY <2>1, <2>4, <3>1, <3>3, <4>1
    <3> QED BY <2>2, <3>2, <3>3
  <2>7. ASSUME NEW j \in 1..(n + 1), text[j].to = "server" PROVE \E i \in 1..(m + 1) : more[i] = text[j]
    <3>1. CASE j \in 1..n
      <4>1. PICK i \in 1..m : all[i] = text[j]
        BY <2>7, <3>1 DEF Kept, m
      <4>2. i \in 1..(m + 1)
        BY <4>1, <1>1
      <4> QED BY <2>1, <4>1, <4>2
    <3>2. CASE j = n + 1
      <4>1. m + 1 \in 1..(m + 1)
        BY <1>1
      <4> QED BY <2>1, <3>2, <4>1
    <3> QED BY <2>3, <3>1, <3>2
  <2>8. Len(more) = m + 1
    BY <2>1
  <2>9. \A i \in 1..Len(more) : \E j \in 1..(n + 1) : more[i] = text[j] /\ (text[j].to = "server" \/ j \in extra)
    BY <2>5, <2>8
  <2>10. \A i, k \in 1..Len(more) : i < k =>
             \E j, l \in 1..(n + 1) : j < l /\ more[i] = text[j] /\ more[k] = text[l]
    <3> SUFFICES ASSUME NEW i \in 1..Len(more), NEW k \in 1..Len(more), i < k
                 PROVE  \E j, l \in 1..(n + 1) : j < l /\ more[i] = text[j] /\ more[k] = text[l]
      BY Zenon
    <3>1. i \in 1..(m + 1) /\ k \in 1..(m + 1)
      BY <2>8
    <3> QED BY <2>6, <3>1, Zenon
  <2>11. \A j \in 1..(n + 1) : text[j].to = "server" => \E i \in 1..Len(more) : more[i] = text[j]
    BY <2>7, <2>8
  <2> QED BY <2>1, <2>9, <2>10, <2>11, Zenon DEF Kept
<1>4. CASE ~(text[n + 1].to = "server" \/ n + 1 \in extra)
  <2>1. more = all
    BY <1>4
  <2>2. \A j \in 1..(n + 1) : j \in 1..n \/ j = n + 1
    OBVIOUS
  <2>3. \A j \in 1..n : j \in 1..(n + 1)
    OBVIOUS
  <2>4. \A i \in 1..m : \E j \in 1..(n + 1) : all[i] = text[j] /\ (text[j].to = "server" \/ j \in extra)
    BY <2>3 DEF Kept
  <2>5. \A i, k \in 1..m : i < k => \E j, l \in 1..(n + 1) : j < l /\ all[i] = text[j] /\ all[k] = text[l]
    BY <2>3 DEF Kept
  <2>6. \A j \in 1..(n + 1) : text[j].to = "server" => \E i \in 1..m : all[i] = text[j]
    BY <1>4, <2>2 DEF Kept
  <2> QED BY <1>1, <2>1, <2>4, <2>5, <2>6 DEF Kept
<1> QED BY <1>3, <1>4

(* The lines for the server, in the order of the port. *)
LEMMA ForServerKeeps ==
    ASSUME NEW text \in Seq(Line), NEW extra
    PROVE  Kept(ForServer(text, extra), text, extra, Len(text))
<1> DEFINE step(n, all) == IF text[n].to = "server" \/ n \in extra THEN Append(all, text[n]) ELSE all
           Q(g, m) == g = [n \in 0..m |-> IF n = 0 THEN <<>> ELSE step(n, g[n - 1])]
           S == {m \in Nat : \E g : Q(g, m)}
<1>1. 0 \in S
  <2>1. Q([n \in 0..0 |-> <<>>], 0)
    OBVIOUS
  <2> QED BY <2>1
<1>2. ASSUME NEW m \in Nat, m \in S PROVE m + 1 \in S
  <2>1. PICK g : Q(g, m)
    BY <1>2
  <2> DEFINE G == [n \in 0..(m + 1) |-> IF n \in 0..m THEN g[n] ELSE step(m + 1, g[m])]
  <2> HIDE DEF step
  <2>2. \A n \in 0..m : G[n] = g[n] /\ n \in 0..(m + 1)
    OBVIOUS
  <2>3. \A n \in 0..m : g[n] = IF n = 0 THEN <<>> ELSE step(n, g[n - 1])
    BY <2>1
  <2>4. \A n \in 0..(m + 1) : G[n] = IF n = 0 THEN <<>> ELSE step(n, G[n - 1])
    <3>1. ASSUME NEW n \in 0..m PROVE G[n] = IF n = 0 THEN <<>> ELSE step(n, G[n - 1])
      <4>1. n # 0 => n - 1 \in 0..m
        OBVIOUS
      <4> HIDE DEF G
      <4> QED BY <2>2, <2>3, <4>1
    <3>2. G[m + 1] = step(m + 1, g[m]) /\ G[m] = g[m] /\ m + 1 # 0 /\ m + 1 - 1 = m
      OBVIOUS
    <3> HIDE DEF G
    <3> QED BY <3>1, <3>2
  <2>5. Q(G, m + 1)
    <3>1. G = [n \in 0..(m + 1) |-> G[n]]
      OBVIOUS
    <3> HIDE DEF G
    <3> QED BY <2>4, <3>1
  <2> HIDE DEF Q, G
  <2> QED BY <2>5
<1>3. Len(text) \in Nat
  OBVIOUS
<1>4. \E g : Q(g, Len(text))
  <2>1. Nat \subseteq S
    <3> HIDE DEF S
    <3>1. 0 \in S /\ \A m \in Nat : m \in S => m + 1 \in S
      BY ONLY <1>1, <1>2
    <3> QED BY ONLY <3>1, Induction
  <2> QED BY <1>3, <2>1
<1> DEFINE got == CHOOSE g : Q(g, Len(text))
<1>5. ForServer(text, extra) = got[Len(text)]
  BY DEF ForServer
<1>6. Q(got, Len(text))
  BY Zenon, <1>4
<1> HIDE DEF got, step
<1>7. \A n \in 0..Len(text) : got[n] = IF n = 0 THEN <<>> ELSE step(n, got[n - 1])
  BY <1>3, <1>6
<1> DEFINE R == {n \in Nat : n <= Len(text) => Kept(got[n], text, extra, n)}
<1>8. 0 \in R
  <2>1. got[0] = <<>>
    BY <1>3, <1>7
  <2>2. <<>> \in Seq(Line) /\ Len(<<>>) = 0 /\ 1..0 = {}
    OBVIOUS
  <2>3. Kept(<<>>, text, extra, 0)
    BY <2>2 DEF Kept
  <2> QED BY <2>1, <2>3
<1>9. ASSUME NEW n \in Nat, n \in R PROVE n + 1 \in R
  <2> SUFFICES ASSUME n + 1 <= Len(text) PROVE Kept(got[n + 1], text, extra, n + 1)
    OBVIOUS
  <2>1. n < Len(text) /\ n + 1 \in 0..Len(text) /\ n + 1 # 0 /\ n + 1 - 1 = n
    BY <1>3
  <2>2. Kept(got[n], text, extra, n)
    BY <1>9, <2>1, <1>3
  <2>3. got[n + 1] = step(n + 1, got[n])
    BY <1>7, <2>1
  <2>4. got[n + 1] = IF text[n + 1].to = "server" \/ n + 1 \in extra
                       THEN Append(got[n], text[n + 1]) ELSE got[n]
    BY <2>3 DEF step
  <2> HIDE DEF R, Q
  <2> QED BY <2>1, <2>2, <2>4, OneMoreKept
<1>10. Nat \subseteq R
  <2> HIDE DEF R
  <2> QED BY <1>8, <1>9, Induction
<1> QED BY <1>3, <1>5, <1>10

(* The first commands of a list. *)
Cut(some, all) ==
    some \in Seq(Line) /\ Len(some) <= Len(all) /\ \A i \in 1..Len(some) : some[i] = all[i]

(* The first lines are cut from all. *)
LEMMA FirstCut ==
    ASSUME NEW all \in Seq(Line), NEW m \in 0..Len(all)
    PROVE  Cut(SubSeq(all, 1, m), all)
<1>1. SubSeq(all, 1, m) \in Seq(Line) /\ Len(SubSeq(all, 1, m)) = m
  OBVIOUS
<1>2. \A i \in 1..m : SubSeq(all, 1, m)[i] = all[i]
  OBVIOUS
<1> QED BY <1>1, <1>2 DEF Cut

(* So are those up to a quit. *)
LEMMA QuitCuts == ASSUME NEW all \in Seq(Line) PROVE Cut(UpToQuit(all), all)
<1> DEFINE quits == {i \in DOMAIN all : all[i].cmd = "quit"}
           first == CHOOSE i \in quits : \A j \in quits : i <= j
<1>1. CASE quits = {}
  BY <1>1 DEF UpToQuit, Cut
<1>2. CASE quits # {}
  <2>1. quits \subseteq Nat /\ quits \subseteq 0..Len(all)
    OBVIOUS
  <2>2. \E i \in quits : \A j \in quits : i <= j
    <3> HIDE DEF quits
    <3> QED BY <1>2, <2>1, Smallest
  <2>3. first \in quits
    <3> HIDE DEF quits
    <3> QED BY <2>2
  <2>4. UpToQuit(all) = SubSeq(all, 1, first)
    BY <1>2 DEF UpToQuit
  <2> HIDE DEF quits, first
  <2> QED BY <2>1, <2>3, <2>4, FirstCut
<1> QED BY <1>1, <1>2

(* What is cut from the lines that were kept can be written. *)
LEMMA CutFacts ==
    ASSUME PortInv, NEW extra, \A i \in extra : port[i] = NoText,
           NEW all, Kept(all, port, extra, Len(port)), NEW some, Cut(some, all)
    PROVE  /\ some \in Seq(Line)
           /\ \A i \in 1..Len(some) : Accepted(some[i], lines)
           /\ Rising(some) /\ Behind(outbox["client1"], some)
<1>1. port \in Seq(Line) /\ Len(port) \in Nat
  BY DEF PortInv, PortTyped
<1>2. /\ \A i \in 1..Len(port) : Posted(port[i], lines, past.foreign)
      /\ Rising(port) /\ Behind(outbox["client1"], port)
  BY DEF PortInv, LinesTyped, LinesRise
<1>3. some \in Seq(Line) /\ \A i \in 1..Len(some) : i \in 1..Len(all) /\ some[i] = all[i]
  BY DEF Cut, Kept
<1>4. \A i \in 1..Len(some) : \E j \in 1..Len(port) : some[i] = port[j] /\ (port[j].to = "server" \/ j \in extra)
  BY <1>3 DEF Kept
<1>5. \A i, k \in 1..Len(some) : i < k => \E j, l \in 1..Len(port) : j < l /\ some[i] = port[j] /\ some[k] = port[l]
  BY <1>3 DEF Kept
<1>6. ASSUME NEW i \in 1..Len(some) PROVE Accepted(some[i], lines)
  <2>1. PICK j \in 1..Len(port) : some[i] = port[j] /\ (port[j].to = "server" \/ j \in extra)
    BY <1>4
  <2>2. Posted(port[j], lines, past.foreign)
    BY <1>2
  <2>3. CASE port[j].to = "server"
    BY <2>1, <2>2, <2>3 DEF Posted, Accepted
  <2>4. CASE j \in extra
    <3>1. port[j].from # "wrongsender"
      BY <2>4, NoLine DEF Junk
    <3> QED BY <2>1, <2>2, <3>1 DEF Posted, Accepted
  <2> QED BY <2>1, <2>3, <2>4
<1>7. Rising(some)
  <2> SUFFICES ASSUME NEW i \in 1..Len(some), NEW k \in 1..Len(some), i < k,
                      some[i].id # 0, some[k].id # 0
               PROVE  some[i].id < some[k].id
    BY Zenon DEF Rising
  <2>1. PICK j \in 1..Len(port), l \in 1..Len(port) : j < l /\ some[i] = port[j] /\ some[k] = port[l]
    BY <1>5
  <2> QED BY <2>1, <1>2 DEF Rising
<1>8. Behind(outbox["client1"], some)
  BY <1>2, <1>4 DEF Behind
<1> QED BY <1>3, <1>6, <1>7, <1>8

(* The server reads the port: its commands are a copy of the head. *)
LEMMA ReadKeeps == ASSUME PortInv, ReadCommands PROVE PortInv'
<1>1. PICK extra \in SUBSET {i \in DOMAIN port : port[i] = NoText} :
         LET all == ForServer(port, extra)
             commands == UpToQuit(all)
             kept == IF Len(commands) > MaxCommands THEN AsFirst(commands) ELSE commands
         IN /\ server' = [pc |-> "clear", commands |-> kept, running |-> ~HasQuit(commands)]
            /\ past' = [past EXCEPT !.unread = @ \cup (Ids(all) \ Ids(kept))]
  BY Zenon DEF ReadCommands
<1> DEFINE all == ForServer(port, extra)
           commands == UpToQuit(all)
           kept == IF Len(commands) > MaxCommands THEN AsFirst(commands) ELSE commands
           lost == Ids(all) \ Ids(kept)
<1>2. server' = [pc |-> "clear", commands |-> kept, running |-> ~HasQuit(commands)]
  BY <1>1
<1>3. past' = [past EXCEPT !.unread = @ \cup lost]
  BY <1>1
<1>4. UNCHANGED <<port, outbox, lines>> /\ server.pc = "wait"
  BY DEF ReadCommands
<1>5. /\ port \in Seq(Line) /\ server \in ServerState /\ outbox \in [Sender -> Seq(Nat)]
      /\ lines \in Nat /\ past \in Past
  BY DEF PortInv, PortTyped
<1>6. Kept(all, port, extra, Len(port))
  BY <1>5, ForServerKeeps
<1>7. Cut(commands, all)
  BY <1>6, QuitCuts DEF Kept
<1>8. Cut(kept, all)
  <2> HIDE DEF all, commands
  <2>1. CASE Len(commands) > MaxCommands
    <3>1. MaxCommands \in 0..Len(commands) /\ commands \in Seq(Line)
      BY <1>7, <2>1, PortAssumption DEF Cut
    <3>2. Cut(SubSeq(commands, 1, MaxCommands), commands)
      BY <3>1, FirstCut
    <3>3. Cut(kept, commands)
      BY <2>1, <3>2 DEF AsFirst
    <3> HIDE DEF kept
    <3>4. kept \in Seq(Line) /\ Len(kept) <= Len(commands) /\ Len(commands) <= Len(all)
      BY <3>3, <1>7 DEF Cut
    <3>5. Len(kept) \in Nat /\ Len(commands) \in Nat /\ Len(all) \in Nat
      BY <3>1, <3>4, <1>6 DEF Kept
    <3>6. Len(kept) <= Len(all)
      BY <3>4, <3>5
    <3>7. ASSUME NEW i \in 1..Len(kept) PROVE kept[i] = all[i]
      <4>1. i \in 1..Len(commands)
        BY <3>4, <3>5
      <4> QED BY <4>1, <3>3, <1>7 DEF Cut
    <3> QED BY <3>4, <3>6, <3>7 DEF Cut
  <2>2. CASE ~(Len(commands) > MaxCommands)
    BY <1>7, <2>2
  <2> QED BY <2>1, <2>2
<1> HIDE DEF all, commands, kept, lost
<1>9. /\ kept \in Seq(Line)
      /\ \A i \in 1..Len(kept) : Accepted(kept[i], lines)
      /\ Rising(kept) /\ Behind(outbox["client1"], kept)
  <2>1. \A i \in extra : port[i] = NoText
    BY <1>1
  <2> QED BY <1>6, <1>8, <2>1, CutFacts
<1>10. all \in Seq(Line)
  BY <1>6 DEF Kept
<1>11. lost \subseteq Nat
  <2>1. Ids(all) \subseteq Nat
    BY <1>10, LineAt DEF Ids
  <2> QED BY <2>1 DEF lost
<1>12. /\ past' \in Past /\ past'.unread = past.unread \cup lost
       /\ past'.foreign = past.foreign /\ past'.late = past.late /\ past'.dropped = past.dropped
  BY <1>3, <1>5, <1>11 DEF Past
<1>13. PortTyped'
  <2>1. HasQuit(commands) \in BOOLEAN
    BY DEF HasQuit
  <2>2. server' \in ServerState
    BY <1>2, <1>9, <2>1 DEF ServerState
  <2> QED BY <1>4, <1>5, <1>12, <2>2 DEF PortTyped
<1>14. server'.pc = "clear" /\ server'.commands = kept
  BY <1>2
<1>15. LinesTyped'
  BY <1>4, <1>9, <1>12, <1>14 DEF PortInv, LinesTyped
<1>16. LinesRise'
  BY <1>4, <1>9, <1>14 DEF PortInv, LinesRise
<1>17. \A n : Excused(n, past) => Excused(n, past')
  BY <1>12 DEF Excused
<1>18. \A n \in lost : Excused(n, past')
  BY <1>12 DEF Excused
<1>19. ASSUME NEW i \in 1..Len(port) PROVE port[i].id = 0 \/ In(port[i].id, kept) \/ Excused(port[i].id, past')
  <2>1. CASE port[i].to = "server" /\ port[i].id # 0
    <3>1. PICK k \in 1..Len(all) : all[k] = port[i]
      BY <1>6, <2>1 DEF Kept
    <3>2. port[i].id \in Ids(all)
      BY <1>10, <2>1, <3>1 DEF Ids
    <3>3. CASE port[i].id \in Ids(kept)
      BY <1>9, <3>3 DEF Ids, In
    <3>4. CASE port[i].id \notin Ids(kept)
      BY <1>18, <3>2, <3>4 DEF lost
    <3> QED BY <3>3, <3>4
  <2>2. CASE port[i].to # "server" /\ port[i].id # 0
    <3>1. port[i].id \in past.foreign
      BY <2>2 DEF PortInv, LinesTyped, Posted
    <3> QED BY <3>1, <1>12 DEF Excused
  <2> QED BY <2>1, <2>2
<1>20. \A n \in 1..lines : Excused(n, past') \/ In(n, port) \/ Among(n, outbox["client1"])
  BY <1>4, <1>17 DEF PortInv, LinesFound
<1>21. LinesFound'
  BY <1>4, <1>14, <1>19, <1>20 DEF LinesFound
<1> QED BY <1>13, <1>15, <1>16, <1>21 DEF PortInv

(* Steps of the server that only move it on, with nothing to write. *)
LEMMA StandsStill ==
    ASSUME PortInv, UNCHANGED <<port, outbox, lines, past>>, server.commands = <<>>,
           server' \in ServerState, server'.commands = <<>>, server'.pc \in {"wait", "off"}
    PROVE  PortInv'
<1>1. Len(<<>>) = 0 /\ 1..0 = {}
  OBVIOUS
<1>2. PortTyped' 
  BY DEF PortInv, PortTyped
<1>3. LinesTyped'
  BY <1>1 DEF PortInv, LinesTyped
<1>4. LinesRise'
  BY <1>1 DEF PortInv, LinesRise, Rising, Behind, After
<1>5. LinesFound'
  <2>1. \A n : ~In(n, server.commands)
    BY <1>1 DEF In
  <2> QED BY <2>1 DEF PortInv, LinesFound
<1> QED BY <1>2, <1>3, <1>4, <1>5 DEF PortInv

(* The server goes on or is started. *)
LEMMA LoopKeeps == ASSUME PortInv, LoopOrQuit \/ Launch PROVE PortInv'
<1>1. server \in ServerState /\ server.commands = <<>>
  BY DEF PortInv, PortTyped, LinesTyped, LoopOrQuit, Launch
<1>2. UNCHANGED <<port, outbox, lines, past>>
  BY DEF LoopOrQuit, Launch
<1>3. /\ server' \in ServerState /\ server'.commands = <<>>
      /\ server'.pc \in {"wait", "off"}
  <2>1. CASE LoopOrQuit
    BY <1>1, <2>1 DEF LoopOrQuit, ServerState
  <2>2. CASE Launch
    BY <2>2, EmptySeq DEF Launch, ServerState
  <2> QED BY <2>1, <2>2
<1> QED BY <1>1, <1>2, <1>3, StandsStill

(* There is no port to read. *)
LEMMA NoCommandsKeeps == ASSUME PortInv, NoCommands PROVE PortInv'
<1>1. PICK commands \in {<<>>, <<NoText>>} :
          server' = [pc |-> "clear", commands |-> commands, running |-> TRUE]
  BY DEF NoCommands
<1>2. UNCHANGED <<port, outbox, lines, past>> /\ server.pc = "wait" /\ port = NoPort
  BY DEF NoCommands
<1>3. commands \in Seq(Line) /\ \A i \in 1..Len(commands) : commands[i] = NoText
  <2>1. CASE commands = <<>>
    BY <2>1, EmptySeq
  <2>2. CASE commands = <<NoText>>
    BY <2>2, NoLine
  <2> QED BY <1>1, <2>1, <2>2
<1>4. server' \in ServerState /\ server'.commands = commands /\ server'.pc = "clear"
  BY <1>1, <1>3 DEF ServerState
<1>5. PortTyped'
  BY <1>2, <1>4 DEF PortInv, PortTyped
<1>6. LinesTyped'
  <2>1. \A i \in 1..Len(commands) : Accepted(commands[i], lines)
    BY <1>3, NoLine DEF PortInv, PortTyped, Accepted, Junk
  <2> QED BY <2>1, <1>2, <1>4 DEF PortInv, LinesTyped
<1>7. LinesRise'
  <2>1. Rising(commands) /\ Behind(outbox["client1"], commands)
    BY <1>3, NoLine DEF Rising, Behind
  <2> QED BY <2>1, <1>2, <1>4 DEF PortInv, LinesRise
<1>8. LinesFound'
  <2>1. \A i \in 1..Len(port) : port[i].id = 0
    BY <1>2, NoLine
  <2> QED BY <2>1, <1>2, <1>4 DEF PortInv, LinesFound
<1> QED BY <1>5, <1>6, <1>7, <1>8 DEF PortInv

(* The port is emptied, with the lines that came meanwhile. *)
LEMMA ClearKeeps == ASSUME PortInv, ClearPort PROVE PortInv'
<1>1. UNCHANGED <<outbox, lines, past>> /\ server.pc = "clear" /\ port' = <<>>
  BY DEF ClearPort
<1>2. server \in ServerState
  BY DEF PortInv, PortTyped
<1>3. server' \in ServerState /\ server'.commands = server.commands /\ server'.pc = "write"
  BY <1>2 DEF ClearPort, ServerState
<1>4. port' \in Seq(Line) /\ Len(port') = 0 /\ 1..0 = {}
  BY <1>1
<1>5. PortTyped'
  BY <1>1, <1>3, <1>4 DEF PortInv, PortTyped
<1>6. LinesTyped'
  BY <1>1, <1>3, <1>4 DEF PortInv, LinesTyped
<1>7. LinesRise'
  <2>1. Rising(port') /\ Behind(outbox["client1"], port') /\ After(port', server.commands)
    BY <1>4 DEF Rising, Behind, After
  <2> QED BY <2>1, <1>1, <1>3 DEF PortInv, LinesRise
<1>8. LinesFound'
  <2>1. \A n \in 1..lines : Excused(n, past) \/ In(n, port) \/ Among(n, outbox["client1"])
    BY <1>1 DEF PortInv, LinesFound
  <2>2. \A i \in 1..Len(port) :
            port[i].id = 0 \/ In(port[i].id, server.commands) \/ Excused(port[i].id, past)
    BY <1>1 DEF PortInv, LinesFound
  <2>3. ASSUME NEW n \in 1..lines, In(n, port) PROVE In(n, server.commands) \/ Excused(n, past)
    <3>1. PICK i \in 1..Len(port) : port[i].id = n
      BY <2>3 DEF In
    <3>2. n # 0
      OBVIOUS
    <3> QED BY <2>2, <3>1, <3>2
  <2> QED BY <2>1, <2>3, <1>1, <1>3 DEF LinesFound
<1> QED BY <1>5, <1>6, <1>7, <1>8 DEF PortInv

(* A command is written. *)
LEMMA WriteKeeps == ASSUME PortInv, WriteCommand PROVE PortInv'
<1> DEFINE c == server.commands
           out == outbox["client1"]
           first == Head(c)
           rest == Tail(c)
<1>1. /\ server.pc = "write" /\ c # <<>>
      /\ outbox' = [outbox EXCEPT ![first.from] = Append(@, first.id)]
      /\ server' = [server EXCEPT !.commands = rest]
      /\ UNCHANGED <<port, lines, past>>
  BY DEF WriteCommand
<1>2. /\ port \in Seq(Line) /\ server \in ServerState /\ outbox \in [Sender -> Seq(Nat)]
      /\ lines \in Nat /\ past \in Past
  BY DEF PortInv, PortTyped
<1>3. c \in Seq(Line) /\ out \in Seq(Nat)
  BY <1>2 DEF ServerState, Sender
<1>4. server' \in ServerState /\ server'.pc = "write" /\ server'.commands = rest
  <2>1. rest \in Seq(Line)
    BY <1>1, <1>3
  <2> HIDE DEF rest
  <2> QED BY <1>1, <1>2, <2>1 DEF ServerState
<1>5. /\ rest \in Seq(Line) /\ Len(c) \in Nat \ {0} /\ Len(rest) = Len(c) - 1
      /\ \A i \in 1..Len(rest) : i + 1 \in 1..Len(c) /\ rest[i] = c[i + 1]
      /\ first = c[1] /\ 1 \in 1..Len(c)
  BY <1>1, <1>3
<1>6. /\ \A i \in 1..Len(c) : Accepted(c[i], lines)
      /\ Rising(c) /\ Increasing(out) /\ Behind(out, c) /\ After(port, c) /\ Rising(port)
      /\ outbox["wrongsender"] = <<>> /\ \A i \in 1..Len(out) : out[i] <= lines
      /\ Behind(out, port)
  BY <1>1 DEF PortInv, LinesTyped, LinesRise
<1>7. first \in Line /\ first.id \in Nat /\ first.from \in Sender /\ Accepted(first, lines)
  BY <1>3, <1>5, <1>6, LineAt
<1> HIDE DEF first, rest, c, out
<1>8. outbox' \in [Sender -> Seq(Nat)]
  BY <1>1, <1>2, <1>7
<1>9. PortTyped'
  BY <1>1, <1>2, <1>4, <1>8 DEF PortTyped
<1>10. LinesTyped'
  <2>1. \A i \in 1..Len(rest) : Accepted(rest[i], lines)
    BY <1>5, <1>6
  <2> QED BY <2>1, <1>1, <1>4 DEF PortInv, LinesTyped
<1>11. Rising(rest) /\ After(port, rest)
  <2>1. ASSUME NEW i \in 1..Len(rest), NEW j \in 1..Len(rest), i < j, rest[i].id # 0, rest[j].id # 0
        PROVE  rest[i].id < rest[j].id
    <3>1. i + 1 < j + 1
      BY <2>1, <1>5
    <3> QED BY <2>1, <3>1, <1>5, <1>6 DEF Rising
  <2>2. After(port, rest)
    BY <1>5, <1>6 DEF After
  <2> QED BY <2>1, <2>2 DEF Rising
<1>12. outbox'["wrongsender"] = <<>>
  BY <1>1, <1>2, <1>6, <1>7 DEF Accepted, Sender
<1>13. CASE first.from = Junk
  <2>1. first.id = 0 /\ outbox'["client1"] = out
    BY <1>1, <1>2, <1>7, <1>13 DEF Accepted, Sender, Junk, out
  <2>2. Behind(out, rest)
    BY <1>5, <1>6 DEF Behind
  <2>3. LinesRise'
    BY <1>1, <1>4, <1>6, <1>11, <1>12, <2>1, <2>2 DEF LinesRise
  <2>4. ASSUME NEW n \in 1..lines, In(n, c) PROVE In(n, rest)
    <3>1. PICK i \in 1..Len(c) : c[i].id = n
      BY <2>4 DEF In
    <3>2. i # 1
      BY <3>1, <2>1, <1>5
    <3>3. i - 1 \in 1..Len(rest) /\ rest[i - 1] = c[i]
      BY <3>2, <1>5
    <3> QED BY <3>1, <3>3 DEF In
  <2>5. LinesFound'
    BY <1>1, <1>4, <2>1, <2>4 DEF PortInv, LinesFound, out, c
  <2> QED BY <1>9, <1>10, <2>3, <2>5 DEF PortInv
<1>14. CASE first.from = "client1"
  <2> DEFINE more == Append(out, first.id)
  <2>1. first.id # 0 /\ first.id <= lines
    BY <1>7, <1>14 DEF Accepted, Junk
  <2>2. outbox'["client1"] = more
    BY <1>1, <1>2, <1>14 DEF Sender, out
  <2>3. /\ more \in Seq(Nat) /\ Len(more) = Len(out) + 1 /\ more[Len(out) + 1] = first.id
        /\ \A i \in 1..Len(out) : more[i] = out[i] /\ out[i] \in Nat
        /\ Len(out) \in Nat
    BY <1>3, <1>7
  <2> HIDE DEF more
  <2>4. \A i \in 1..Len(more) : (i \in 1..Len(out) /\ more[i] = out[i]) \/ (i = Len(out) + 1 /\ more[i] = first.id)
    BY <2>3
  <2>5. Increasing(more)
    <3> SUFFICES ASSUME NEW i \in 1..Len(more), NEW j \in 1..Len(more), i < j PROVE more[i] < more[j]
      BY <2>3 DEF Increasing
    <3>1. i \in 1..Len(out) /\ more[i] = out[i]
      BY <2>3, <2>4
    <3>2. CASE j \in 1..Len(out) /\ more[j] = out[j]
      BY <1>3, <1>6, <3>1, <3>2 DEF Increasing
    <3>3. CASE more[j] = first.id
      BY <1>5, <1>6, <2>1, <3>1, <3>3 DEF Behind
    <3> QED BY <2>4, <3>2, <3>3
  <2>6. \A i \in 1..Len(more) : more[i] <= lines
    BY <1>6, <2>1, <2>4
  <2>7. Behind(more, port)
    <3> SUFFICES ASSUME NEW i \in 1..Len(more), NEW j \in 1..Len(port), port[j].id # 0
                 PROVE  more[i] < port[j].id
      BY DEF Behind
    <3>1. CASE i \in 1..Len(out) /\ more[i] = out[i]
      BY <1>6, <3>1 DEF Behind
    <3>2. CASE more[i] = first.id
      BY <1>5, <1>6, <2>1, <3>2 DEF After
    <3> QED BY <2>4, <3>1, <3>2
  <2>8. Behind(more, rest)
    <3> SUFFICES ASSUME NEW i \in 1..Len(more), NEW j \in 1..Len(rest), rest[j].id # 0
                 PROVE  more[i] < rest[j].id
      BY DEF Behind
    <3>1. j + 1 \in 1..Len(c) /\ rest[j] = c[j + 1] /\ 1 < j + 1
      BY <1>5
    <3>2. CASE i \in 1..Len(out) /\ more[i] = out[i]
      BY <1>6, <3>1, <3>2 DEF Behind
    <3>3. CASE more[i] = first.id
      BY <1>5, <1>6, <2>1, <3>1, <3>3 DEF Rising
    <3> QED BY <2>4, <3>2, <3>3
  <2>9. LinesRise'
    BY <1>1, <1>4, <1>6, <1>11, <1>12, <2>2, <2>5, <2>6, <2>7, <2>8 DEF LinesRise
  <2>10. ASSUME NEW n \in 1..lines, In(n, c) PROVE In(n, rest) \/ Among(n, more)
    <3>1. PICK i \in 1..Len(c) : c[i].id = n
      BY <2>10 DEF In
    <3>2. CASE i = 1
      BY <3>1, <3>2, <1>5, <2>3 DEF Among
    <3>3. CASE i # 1
      <4>1. i - 1 \in 1..Len(rest) /\ rest[i - 1] = c[i]
        BY <3>3, <1>5
      <4> QED BY <3>1, <4>1 DEF In
    <3> QED BY <3>2, <3>3
  <2>11. \A n : Among(n, out) => Among(n, more)
    <3>1. \A i \in 1..Len(out) : i \in 1..Len(more)
      BY <2>3
    <3> QED BY <2>3, <3>1 DEF Among
  <2>12. \A n \in 1..lines : Excused(n, past) \/ In(n, port) \/ Among(n, out) \/ In(n, c)
    BY DEF PortInv, LinesFound, out, c
  <2>13. LinesFound'
    BY <1>1, <1>4, <2>2, <2>10, <2>11, <2>12 DEF LinesFound
  <2> QED BY <1>9, <1>10, <2>9, <2>13 DEF PortInv
<1> QED BY <1>7, <1>13, <1>14 DEF Accepted, Sender

(* The server is killed with the commands it holds. *)
LEMMA KillKeeps == ASSUME PortInv, KillServer PROVE PortInv'
<1> DEFINE dead == IF server.pc = "write" THEN Ids(server.commands) ELSE {}
<1>1. /\ server' = [pc |-> "off", commands |-> <<>>, running |-> FALSE]
      /\ past' = [past EXCEPT !.dropped = @ \cup dead]
      /\ UNCHANGED <<port, outbox, lines>>
  BY DEF KillServer
<1>2. /\ port \in Seq(Line) /\ server \in ServerState /\ outbox \in [Sender -> Seq(Nat)]
      /\ lines \in Nat /\ past \in Past
  BY DEF PortInv, PortTyped
<1>3. server.commands \in Seq(Line)
  BY <1>2 DEF ServerState
<1>4. dead \subseteq Nat
  BY <1>3, LineAt DEF Ids
<1>5. \A n \in 1..lines : server.pc = "write" /\ In(n, server.commands) => n \in dead
  BY <1>3 DEF Ids, In
<1> HIDE DEF dead
<1>6. /\ past' \in Past /\ past'.dropped = past.dropped \cup dead
      /\ past'.foreign = past.foreign /\ past'.late = past.late /\ past'.unread = past.unread
  BY <1>1, <1>2, <1>4 DEF Past
<1>7. server' \in ServerState /\ server'.pc = "off" /\ server'.commands = <<>>
  BY <1>1, EmptySeq DEF ServerState
<1>8. Len(<<>>) = 0 /\ 1..0 = {}
  OBVIOUS
<1>9. PortTyped'
  BY <1>1, <1>2, <1>6, <1>7 DEF PortTyped
<1>10. LinesTyped'
  BY <1>1, <1>6, <1>7, <1>8 DEF PortInv, LinesTyped
<1>11. LinesRise'
  <2>1. Rising(<<>>) /\ Behind(outbox["client1"], <<>>)
    BY <1>8 DEF Rising, Behind
  <2> QED BY <2>1, <1>1, <1>7 DEF PortInv, LinesRise
<1>12. LinesFound'
  <2>1. \A n : Excused(n, past) \/ n \in dead => Excused(n, past')
    BY <1>6 DEF Excused
  <2> QED BY <2>1, <1>1, <1>5, <1>7 DEF PortInv, LinesFound
<1> QED BY <1>9, <1>10, <1>11, <1>12 DEF PortInv

(* However the server is killed and launched again, no line is inFile twice or out of
   order, and each line that was sent is in the port, read, inFile, or gone for one of
   the three reasons: for every length of the array and any number of clients. *)
THEOREM NoLineTwice == PortSpec => []LinesKept
<1>1. PortInv /\ [PortNext]_portVars => PortInv'
  <2> SUFFICES ASSUME PortInv, [PortNext]_portVars PROVE PortInv'
    OBVIOUS
  <2>1. ASSUME NEW p \in Client \cup Stranger, NEW cmd \in {"text", "long", "quit"}, SendCommand(p, cmd)
        PROVE  PortInv'
    BY <2>1, SendKeeps
  <2>2. CASE UNCHANGED portVars
    BY <2>2 DEF portVars, PortInv, PortTyped, LinesTyped, LinesRise, LinesFound
  <2> QED BY <2>1, <2>2, ReadKeeps, NoCommandsKeeps, ClearKeeps, WriteKeeps, LoopKeeps, KillKeeps DEF PortNext
<1>2. PortInv => LinesKept
  <2> SUFFICES ASSUME PortInv PROVE LinesKept
    OBVIOUS
  <2>1. AtMostOnce
    BY DEF PortInv, LinesRise, AtMostOnce
  <2>2. /\ \A i \in 1..Len(port) : port[i].id # 0 => i \in 1..Len(Lines) /\ Lines[i] = port[i]
        /\ Lines \in Seq(Line)
    BY LinesThere
  <2>3. Accounted
    <3> DEFINE waiting == {Lines[i].id : i \in DOMAIN Lines}
               inFile == ToSet(outbox["client1"])
               held == IF server.pc = "write" THEN Ids(server.commands) ELSE {}
    <3> SUFFICES ASSUME NEW n \in 1..lines, n \notin past.foreign
                 PROVE  n \in waiting \cup held \cup inFile \cup past.late \cup past.unread \cup past.dropped
      BY Zenon DEF Accounted
    <3>1. /\ outbox["client1"] \in Seq(Nat) /\ server.commands \in Seq(Line) /\ n # 0
      BY DEF PortInv, PortTyped, ServerState, Sender
    <3>2. Excused(n, past) \/ In(n, port) \/ Among(n, outbox["client1"])
             \/ (server.pc = "write" /\ In(n, server.commands))
      BY DEF PortInv, LinesFound
    <3>3. CASE In(n, port)
      <4>1. PICK i \in 1..Len(port) : port[i].id = n
        BY <3>3 DEF In
      <4>2. i \in DOMAIN Lines /\ Lines[i].id = n
        BY <2>2, <3>1, <4>1
      <4> QED BY <4>2
    <3>4. CASE Among(n, outbox["client1"])
      <4>1. n \in inFile
        BY <3>1, <3>4 DEF Among, ToSet
      <4> HIDE DEF inFile, waiting, held
      <4> QED BY <4>1
    <3>5. CASE server.pc = "write" /\ In(n, server.commands)
      <4>1. n \in held
        BY <3>1, <3>5 DEF In, Ids
      <4> HIDE DEF inFile, waiting, held
      <4> QED BY <4>1
    <3>6. CASE Excused(n, past)
      <4> HIDE DEF inFile, waiting, held
      <4> QED BY <3>6 DEF Excused
    <3> QED BY <3>2, <3>3, <3>4, <3>5, <3>6
  <2> QED BY <2>1, <2>3 DEF LinesKept
<1> QED BY <1>1, <1>2, PortStarts, PTL DEF PortSpec

---------------------------------------------------------------------------------
(* Comp 206: the socket server *)

(* The recursive definition in FlattenSeq is its equation. *)
LEMMA FlattenSteps ==
    ASSUME NEW seqs, NEW n \in Nat, Len(seqs) = n, n # 0
    PROVE  \E g : /\ FlattenSeq(seqs) = g[n] /\ g[1] = seqs[1]
                  /\ \A i \in 2..n : g[i] = g[i - 1] \o seqs[i]
<1> DEFINE Q(g, m) == g = [i \in 1..m |-> IF i = 1 THEN seqs[i] ELSE g[i - 1] \o seqs[i]]
           S == {m \in Nat : \E g : Q(g, m)}
<1>1. 0 \in S
  <2>1. Q([i \in 1..0 |-> 0], 0)
    OBVIOUS
  <2> QED BY <2>1
<1>2. ASSUME NEW m \in Nat, m \in S PROVE m + 1 \in S
  <2>1. PICK g : Q(g, m)
    BY <1>2
  <2> DEFINE G == [i \in 1..(m + 1) |-> IF i \in 1..m THEN g[i]
                                         ELSE IF i = 1 THEN seqs[i] ELSE g[m] \o seqs[i]]
  <2>2. \A i \in 1..m : G[i] = g[i] /\ i \in 1..(m + 1)
    OBVIOUS
  <2>3. \A i \in 1..m : g[i] = IF i = 1 THEN seqs[i] ELSE g[i - 1] \o seqs[i]
    BY <2>1
  <2>4. \A i \in 1..(m + 1) : G[i] = IF i = 1 THEN seqs[i] ELSE G[i - 1] \o seqs[i]
    <3>1. ASSUME NEW i \in 1..m PROVE G[i] = IF i = 1 THEN seqs[i] ELSE G[i - 1] \o seqs[i]
      <4>1. i # 1 => i - 1 \in 1..m
        OBVIOUS
      <4> HIDE DEF G
      <4> QED BY <2>2, <2>3, <4>1
    <3>2. /\ G[m + 1] = IF m + 1 = 1 THEN seqs[m + 1] ELSE g[m] \o seqs[m + 1]
          /\ m + 1 # 1 => m \in 1..m /\ m + 1 - 1 = m
      OBVIOUS
    <3> HIDE DEF G
    <3>3. m + 1 # 1 => G[m] = g[m]
      BY <2>2, <3>2
    <3>4. G[m + 1] = IF m + 1 = 1 THEN seqs[m + 1] ELSE G[m] \o seqs[m + 1]
      BY <3>2, <3>3
    <3>5. ASSUME NEW i \in 1..(m + 1), i \notin 1..m PROVE i = m + 1 /\ i - 1 = m
      BY <3>5
    <3>6. ASSUME NEW i \in 1..(m + 1) PROVE G[i] = IF i = 1 THEN seqs[i] ELSE G[i - 1] \o seqs[i]
      <4>1. CASE i \in 1..m
        BY <3>1, <4>1
      <4>2. CASE i \notin 1..m
        BY <3>4, <3>5, <4>2
      <4> QED BY <4>1, <4>2
    <3> QED BY <3>6
  <2>5. Q(G, m + 1)
    <3>1. G = [i \in 1..(m + 1) |-> G[i]]
      OBVIOUS
    <3> HIDE DEF G
    <3> QED BY <2>4, <3>1
  <2> HIDE DEF Q, G
  <2> QED BY <2>5
<1>3. Nat \subseteq S
  <2> HIDE DEF S
  <2> QED BY <1>1, <1>2, Induction
<1>4. \E g : Q(g, n)
  BY <1>3
<1>5. PICK g : g = CHOOSE x : Q(x, n)
  OBVIOUS
<1>6. Q(g, n)
  BY <1>4, <1>5
<1>7. FlattenSeq(seqs) = g[n]
  BY <1>5 DEF FlattenSeq
<1>8. \A i \in 1..n : g[i] = IF i = 1 THEN seqs[i] ELSE g[i - 1] \o seqs[i]
  BY <1>6
<1>9. g[1] = seqs[1] /\ \A i \in 2..n : g[i] = g[i - 1] \o seqs[i]
  <2>1. 1 \in 1..n /\ \A i \in 2..n : i \in 1..n /\ i # 1
    OBVIOUS
  <2> QED BY <1>8, <2>1
<1> QED BY <1>7, <1>9

(* One chunk more, at the end. *)
LEMMA FlattenMore ==
    ASSUME NEW S, NEW w \in Seq(Seq(S)), NEW c \in Seq(S)
    PROVE  FlattenSeq(w) \in Seq(S) /\ FlattenSeq(Append(w, c)) = FlattenSeq(w) \o c
<1>0. PICK n \in Nat : n = Len(w)
  <2>1. Len(w) \in Nat
    BY LenProperties
  <2> QED BY <2>1
<1>1. PICK v : n = Len(w) /\ v = Append(w, c)
  BY <1>0
<1>2. Len(v) = n + 1 /\ v[n + 1] = c /\ \A i \in 1..n : v[i] = w[i] /\ w[i] \in Seq(S)
  BY <1>1, AppendProperties
<1>3. PICK G : /\ FlattenSeq(v) = G[n + 1] /\ G[1] = v[1]
               /\ \A i \in 2..(n + 1) : G[i] = G[i - 1] \o v[i]
  <2>1. n + 1 \in Nat /\ n + 1 # 0 /\ Len(v) = n + 1
    BY <1>2
  <2>2. PICK l \in Nat : l = n + 1
    BY <2>1
  <2>3. Len(v) = l /\ l # 0
    BY <2>1, <2>2
  <2>4. \E G : FlattenSeq(v) = G[l] /\ G[1] = v[1] /\ \A i \in 2..l : G[i] = G[i - 1] \o v[i]
    BY <2>3, FlattenSteps
  <2> QED BY <2>2, <2>4
<1>4. CASE n = 0
  <2>1. w = <<>> /\ Len(w) = 0
    BY <1>1, <1>4, EmptySeq
  <2>2. FlattenSeq(w) = <<>>
    BY <2>1 DEF FlattenSeq
  <2>3. FlattenSeq(v) = c
    BY <1>2, <1>3, <1>4
  <2>4. <<>> \o c = c /\ <<>> \in Seq(S)
    BY ConcatEmptySeq, EmptySeq
  <2> QED BY <1>1, <2>2, <2>3, <2>4
<1>5. CASE n # 0
  <2>1. PICK g : FlattenSeq(w) = g[n] /\ g[1] = w[1] /\ \A i \in 2..n : g[i] = g[i - 1] \o w[i]
    BY <1>1, <1>5, FlattenSteps
  <2> DEFINE T == {k \in Nat : k + 1 <= n => g[k + 1] = G[k + 1] /\ g[k + 1] \in Seq(S)}
  <2>2. 0 \in T
    <3>1. 1 \in 1..n /\ 0 + 1 = 1
      BY <1>5
    <3> QED BY <1>2, <1>3, <2>1, <3>1
  <2>3. ASSUME NEW k \in Nat, k \in T PROVE k + 1 \in T
    <3> SUFFICES ASSUME k + 1 + 1 <= n PROVE g[k + 1 + 1] = G[k + 1 + 1] /\ g[k + 1 + 1] \in Seq(S)
      OBVIOUS
    <3>1. PICK i \in 2..n : i = k + 1 + 1
      OBVIOUS
    <3>2. i - 1 = k + 1 /\ i \in 1..n /\ i \in 2..(n + 1) /\ k + 1 <= n
      BY <3>1
    <3>3. g[i - 1] = G[i - 1] /\ g[i - 1] \in Seq(S)
      BY <2>3, <3>2
    <3>4. g[i] = g[i - 1] \o w[i] /\ G[i] = G[i - 1] \o v[i] /\ v[i] = w[i] /\ w[i] \in Seq(S)
      BY <1>2, <1>3, <2>1, <3>1, <3>2
    <3>5. g[i] = G[i] /\ g[i] \in Seq(S)
      BY <3>3, <3>4, ConcatProperties
    <3> QED BY <3>1, <3>5
  <2>4. Nat \subseteq T
    <3> HIDE DEF T
    <3> QED BY <2>2, <2>3, Induction
  <2>5. n - 1 \in T
    <3>1. n - 1 \in Nat
      BY <1>5
    <3> HIDE DEF T
    <3> QED BY <2>4, <3>1
  <2>6. g[n] = G[n] /\ g[n] \in Seq(S)
    <3>1. n - 1 + 1 = n
      OBVIOUS
    <3> QED BY <2>5, <3>1
  <2>7. G[n + 1] = G[n] \o c
    <3>1. n + 1 \in 2..(n + 1) /\ n + 1 - 1 = n
      BY <1>5
    <3>2. PICK i \in 2..(n + 1) : i = n + 1 /\ i - 1 = n
      BY <3>1
    <3>3. G[i] = G[i - 1] \o v[i]
      BY <1>3
    <3> QED BY <1>2, <3>2, <3>3
  <2> QED BY <1>1, <1>3, <2>1, <2>6, <2>7
<1> QED BY <1>4, <1>5

(* The types of the variables *)
SocketMessage == [from : Caller, cmd : {"text", "quit"}, id : Nat]
SocketTyped ==
    /\ listener \in {"socket", "accept", "greet", "recv", "off"}
    /\ served \in Caller \cup {NoOne}
    /\ caller \in [Caller -> {"off", "connected", "typing", "closed"}]
    /\ stream \in [Caller -> Seq(SocketMessage)]
    /\ written \in Seq(Seq(SocketMessage))
    /\ sent \in [Caller -> Seq(SocketMessage)]

(* Only the client that was accepted types, and nothing after a quit. *)
OneTypes ==
    /\ listener \in {"socket", "accept"} => served = NoOne
    /\ listener \in {"greet", "recv"} => served \in Caller
    /\ listener = "greet" => caller[served] = "connected"
    /\ \A c \in Caller : caller[c] = "typing" => c = served
    /\ \A c \in Caller \ {served} : sent[c] = <<>> /\ stream[c] = <<>>
    /\ \A c \in Caller : \A k \in 1..Len(sent[c]) :
          sent[c][k].cmd = "quit" => k = Len(sent[c]) /\ caller[c] = "closed"

(* What was written and what is on its way is what was sent. *)
Streamed ==
    IF served \in Caller /\ served \notin Misdirected
    THEN /\ sent[served] = FlattenSeq(written) \o stream[served]
         /\ listener = "off" => /\ stream[served] = <<>> /\ Len(sent[served]) # 0
                                /\ sent[served][Len(sent[served])].cmd = "quit"
    ELSE /\ written = <<>>
         /\ listener = "off" => served = NoOne

SocketInv == SocketTyped /\ OneTypes /\ Streamed

(* It holds when the server starts. *)
LEMMA SocketStarts == SocketInit => SocketInv
<1> SUFFICES ASSUME SocketInit PROVE SocketInv
  OBVIOUS
<1>1. /\ listener = "socket" /\ served = NoOne /\ written = <<>> /\ NoOne \notin Caller
      /\ caller = [c \in Caller |-> "off"]
      /\ stream = [c \in Caller |-> <<>>] /\ sent = [c \in Caller |-> <<>>]
  BY SocketAssumption DEF SocketInit
<1>2. /\ <<>> \in Seq(SocketMessage) /\ <<>> \in Seq(Seq(SocketMessage))
  BY EmptySeq
<1>3. SocketTyped
  BY <1>1, <1>2 DEF SocketTyped
<1>4. \A c \in Caller : sent[c] = <<>> /\ stream[c] = <<>> /\ caller[c] = "off"
  BY <1>1
<1>5. \A c \in Caller : \A k : k \notin 1..Len(sent[c])
  BY <1>4
<1>6. OneTypes
  BY <1>1, <1>4, <1>5 DEF OneTypes
<1>7. Streamed
  BY <1>1 DEF Streamed
<1> QED BY <1>3, <1>6, <1>7 DEF SocketInv

(* Steps that send and write nothing. *)
LEMMA QuietKeeps ==
    ASSUME SocketInv,
           \/ Listen \/ Greet \/ ReceiveNothing \/ (\E c \in Caller : Connect(c) \/ HangUp(c) \/ Reset(c))
           \/ UNCHANGED socketVars
    PROVE  SocketInv'
<1>0. /\ SocketTyped /\ OneTypes /\ Streamed /\ NoOne \notin Caller
  BY SocketAssumption DEF SocketInv
<1>1. UNCHANGED <<served, stream, written, sent>>
  <2>1. CASE Listen
    BY <2>1 DEF Listen
  <2>2. CASE Greet
    BY <2>2 DEF Greet
  <2>3. CASE ReceiveNothing
    BY <2>3 DEF ReceiveNothing
  <2>4. ASSUME NEW c \in Caller, Connect(c) \/ HangUp(c) \/ Reset(c) PROVE UNCHANGED <<served, stream, written, sent>>
    BY <2>4 DEF Connect, HangUp, Reset
  <2>5. CASE UNCHANGED socketVars
    BY <2>5 DEF socketVars
  <2> QED BY <2>1, <2>2, <2>3, <2>4, <2>5
<1>2. /\ listener' \in {"socket", "accept", "greet", "recv", "off"}
      /\ listener' \in {"socket", "accept"} => served = NoOne
      /\ listener' \in {"greet", "recv"} => served \in Caller
      /\ listener' = "off" => listener = "off" \/ served = NoOne
  <2>1. CASE Listen
    BY <1>0, <2>1 DEF Listen, OneTypes
  <2>2. CASE Greet
    BY <1>0, <2>2 DEF Greet, OneTypes
  <2>3. CASE listener' = listener
    BY <1>0, <2>3 DEF OneTypes, SocketTyped
  <2>4. Listen \/ Greet \/ listener' = listener
    BY DEF ReceiveNothing, Connect, HangUp, Reset, socketVars
  <2> QED BY <2>1, <2>2, <2>3, <2>4
<1>3. /\ caller' \in [Caller -> {"off", "connected", "typing", "closed"}]
      /\ \A c \in Caller : /\ caller'[c] = "typing" => c = served
                           /\ caller[c] = "closed" => caller'[c] = "closed"
  <2>0. /\ caller \in [Caller -> {"off", "connected", "typing", "closed"}]
        /\ \A c \in Caller : caller[c] = "typing" => c = served
    BY <1>0 DEF SocketTyped, OneTypes
  <2>1. CASE Greet
    <3>1. caller' = [caller EXCEPT ![served] = "typing"]
      BY <2>1 DEF Greet
    <3>2. served \in Caller /\ caller[served] = "connected"
      BY <1>0, <2>1 DEF Greet, OneTypes
    <3> QED BY <2>0, <3>1, <3>2
  <2>2. ASSUME NEW c \in Caller, Connect(c) \/ HangUp(c) \/ Reset(c)
        PROVE  \E pc \in {"connected", "closed"} : caller' = [caller EXCEPT ![c] = pc] /\ (caller[c] = "closed" => pc = "closed")
    BY <2>2 DEF Connect, HangUp, Reset
  <2>3. ASSUME NEW c \in Caller, Connect(c) \/ HangUp(c) \/ Reset(c)
        PROVE  /\ caller' \in [Caller -> {"off", "connected", "typing", "closed"}]
               /\ \A d \in Caller : /\ caller'[d] = "typing" => d = served
                                    /\ caller[d] = "closed" => caller'[d] = "closed"
    BY <2>0, <2>2, <2>3
  <2>4. CASE caller' = caller
    BY <2>0, <2>4
  <2>5. Greet \/ caller' = caller \/ \E c \in Caller : Connect(c) \/ HangUp(c) \/ Reset(c)
    BY DEF Listen, ReceiveNothing, socketVars
  <2> QED BY <2>1, <2>3, <2>4, <2>5
<1>7. listener' = "greet" => caller'[served] = "connected"
  <2> SUFFICES ASSUME listener' = "greet" PROVE caller'[served] = "connected"
    OBVIOUS
  <2>1. listener = "greet"
    BY DEF Listen, Greet, ReceiveNothing, Connect, HangUp, Reset, socketVars
  <2>2. caller[served] = "connected" /\ served \in Caller /\ caller \in [Caller -> {"off", "connected", "typing", "closed"}]
    BY <1>0, <2>1 DEF OneTypes, SocketTyped
  <2>3. ASSUME NEW c \in Caller, Connect(c) \/ HangUp(c) \/ Reset(c) PROVE caller'[served] = "connected"
    <3>1. CASE Connect(c)
      BY <2>2, <3>1 DEF Connect
    <3>2. CASE HangUp(c)
      BY <2>2, <3>2 DEF HangUp
    <3>3. ~Reset(c)
      BY <2>1 DEF Reset
    <3> QED BY <2>3, <3>1, <3>2, <3>3
  <2>4. ~Listen /\ ~Greet
    BY <2>1 DEF Listen, Greet
  <2>5. CASE caller' = caller
    BY <2>2, <2>5
  <2>6. caller' = caller \/ \E c \in Caller : Connect(c) \/ HangUp(c) \/ Reset(c)
    BY <2>4 DEF ReceiveNothing, socketVars
  <2> QED BY <2>3, <2>5, <2>6
<1>4. SocketTyped'
  BY <1>0, <1>1, <1>2, <1>3 DEF SocketTyped
<1>5. OneTypes'
  BY <1>0, <1>1, <1>2, <1>3, <1>7 DEF OneTypes
<1>6. Streamed'
  BY <1>0, <1>1, <1>2 DEF Streamed
<1> QED BY <1>4, <1>5, <1>6 DEF SocketInv

(* Nothing has been written when a client is accepted, nor has it sent anything. *)
LEMMA AcceptKeeps == ASSUME SocketInv, Accept PROVE SocketInv'
<1>0. /\ SocketTyped /\ OneTypes /\ Streamed /\ NoOne \notin Caller
  BY SocketAssumption DEF SocketInv
<1>1. /\ listener = "accept" /\ listener' = "greet" /\ served' \in Caller /\ caller[served'] = "connected"
      /\ UNCHANGED <<caller, stream, written, ghosts, sent>>
  BY DEF Accept
<1>2. served = NoOne
  BY <1>0, <1>1 DEF OneTypes
<1>3. sent[served'] = <<>> /\ stream[served'] = <<>> /\ written = <<>>
  BY <1>0, <1>1, <1>2 DEF OneTypes, Streamed
<1>4. SocketTyped'
  BY <1>0, <1>1 DEF SocketTyped
<1>5. OneTypes'
  BY <1>0, <1>1, <1>2, <1>3 DEF OneTypes
<1>6. Streamed'
  <2>1. FlattenSeq(<<>>) = <<>>
    BY DEF FlattenSeq
  <2>2. <<>> \o <<>> = <<>>
    BY EmptySeq, ConcatEmptySeq
  <2>3. written' = <<>> /\ sent'[served'] = FlattenSeq(written') \o stream'[served'] /\ listener' # "off"
    BY <1>1, <1>3, <2>1, <2>2
  <2> QED BY <2>3 DEF Streamed
<1> QED BY <1>4, <1>5, <1>6 DEF SocketInv

(* A message joins the end of both. *)
LEMMA SendStreams == ASSUME SocketInv, NEW c \in Caller, NEW cmd \in {"text", "quit"}, Send(c, cmd) PROVE SocketInv'
<1>0. /\ SocketTyped /\ OneTypes /\ Streamed /\ NoOne \notin Caller
  BY SocketAssumption DEF SocketInv
<1>1. PICK m : m = [from |-> c, cmd |-> cmd, id |-> Len(sent[c]) + 1]
  OBVIOUS
<1>2. /\ caller[c] = "typing" /\ UNCHANGED <<listener, served, written>>
      /\ stream' = [stream EXCEPT ![c] = Append(@, m)] /\ sent' = [sent EXCEPT ![c] = Append(@, m)]
      /\ caller' = IF cmd = "quit" THEN [caller EXCEPT ![c] = "closed"] ELSE caller
  BY <1>1 DEF Send
<1>3. c = served
  BY <1>0, <1>2 DEF OneTypes
<1>4. PICK all, rest : all = sent[c] /\ rest = stream[c]
  OBVIOUS
<1>5. /\ all \in Seq(SocketMessage) /\ rest \in Seq(SocketMessage) /\ Len(all) \in Nat
      /\ written \in Seq(Seq(SocketMessage))
  BY <1>0, <1>4 DEF SocketTyped
<1>6. m \in SocketMessage /\ m.cmd = cmd
  BY <1>1, <1>4, <1>5 DEF SocketMessage
<1>7. /\ Append(all, m) \in Seq(SocketMessage) /\ Append(rest, m) \in Seq(SocketMessage)
      /\ Len(Append(all, m)) = Len(all) + 1 /\ Append(all, m)[Len(all) + 1] = m
      /\ \A k \in 1..Len(all) : Append(all, m)[k] = all[k]
  BY <1>5, <1>6, AppendProperties
<1>8. sent'[c] = Append(all, m) /\ stream'[c] = Append(rest, m)
      /\ \A d \in Caller \ {c} : sent'[d] = sent[d] /\ stream'[d] = stream[d]
  BY <1>0, <1>2, <1>4 DEF SocketTyped
<1>9. /\ caller' \in [Caller -> {"off", "connected", "typing", "closed"}]
      /\ \A d \in Caller \ {c} : caller'[d] = caller[d]
      /\ cmd = "quit" => caller'[c] = "closed"
      /\ caller'[c] \in {"typing", "closed"}
  BY <1>0, <1>2 DEF SocketTyped
<1>10. listener # "greet"
  BY <1>0, <1>2, <1>3 DEF OneTypes
<1>11. SocketTyped'
  <2>1. sent' \in [Caller -> Seq(SocketMessage)] /\ stream' \in [Caller -> Seq(SocketMessage)]
    BY <1>0, <1>2, <1>4, <1>7 DEF SocketTyped
  <2> QED BY <1>0, <1>2, <1>9, <2>1 DEF SocketTyped
<1>12. \A d \in Caller : \A k \in 1..Len(sent'[d]) :
          sent'[d][k].cmd = "quit" => k = Len(sent'[d]) /\ caller'[d] = "closed"
  <2> SUFFICES ASSUME NEW d \in Caller, NEW k \in 1..Len(sent'[d]), sent'[d][k].cmd = "quit"
               PROVE  k = Len(sent'[d]) /\ caller'[d] = "closed"
    OBVIOUS
  <2>1. CASE d # c
    BY <1>0, <1>8, <1>9, <2>1 DEF OneTypes
  <2>2. CASE d = c
    <3>1. k \in 1..(Len(all) + 1) /\ Append(all, m)[k].cmd = "quit"
      BY <1>7, <1>8, <2>2
    <3>2. k \notin 1..Len(all)
      <4> SUFFICES ASSUME k \in 1..Len(all) PROVE FALSE
        OBVIOUS
      <4>1. all[k].cmd = "quit"
        BY <1>7, <3>1
      <4>2. caller[c] = "closed"
        BY <1>0, <1>4, <4>1 DEF OneTypes
      <4> QED BY <1>2, <4>2
    <3>3. k = Len(all) + 1
      BY <1>5, <3>1, <3>2
    <3>4. cmd = "quit"
      BY <1>6, <1>7, <3>1, <3>3
    <3> QED BY <1>7, <1>8, <1>9, <2>2, <3>3, <3>4
  <2> QED BY <2>1, <2>2
<1>13. OneTypes'
  BY <1>0, <1>2, <1>3, <1>8, <1>9, <1>10, <1>12 DEF OneTypes
<1>14. Streamed'
  <2>1. CASE served \in Caller /\ served \notin Misdirected
    <3>1. PICK w : w = FlattenSeq(written)
      OBVIOUS
    <3>2. w \in Seq(SocketMessage)
      <4>1. <<>> \in Seq(SocketMessage)
        BY EmptySeq
      <4> QED BY <1>5, <3>1, <4>1, FlattenMore
    <3>3. all = w \o rest
      BY <1>0, <1>3, <1>4, <2>1, <3>1 DEF Streamed
    <3>4. Append(all, m) = w \o Append(rest, m)
      <4>1. <<m>> \in Seq(SocketMessage)
        BY <1>6
      <4>2. (w \o rest) \o <<m>> = w \o (rest \o <<m>>)
        BY <1>5, <3>2, <4>1, ConcatAssociative
      <4>3. Append(all, m) = all \o <<m>> /\ Append(rest, m) = rest \o <<m>>
        BY <1>5, <1>6, AppendIsConcat
      <4> QED BY <3>3, <4>2, <4>3
    <3>5. listener # "off"
      <4> SUFFICES ASSUME listener = "off" PROVE FALSE
        OBVIOUS
      <4>1. Len(all) # 0 /\ all[Len(all)].cmd = "quit"
        BY <1>0, <1>3, <1>4, <2>1 DEF Streamed
      <4>2. Len(all) \in 1..Len(all)
        BY <1>5, <4>1
      <4>3. caller[c] = "closed"
        BY <1>0, <1>4, <4>1, <4>2 DEF OneTypes
      <4> QED BY <1>2, <4>3
    <3> QED BY <1>2, <1>3, <1>8, <2>1, <3>1, <3>4, <3>5 DEF Streamed
  <2>2. CASE ~(served \in Caller /\ served \notin Misdirected)
    BY <1>0, <1>2, <2>2 DEF Streamed
  <2> QED BY <2>1, <2>2
<1> QED BY <1>11, <1>13, <1>14 DEF SocketInv

(* A chunk goes from what is on its way to what was written; a quit is the last message
   that was sent, and so nothing is behind it. *)
LEMMA ReceiveKeeps == ASSUME SocketInv, Receive PROVE SocketInv'
<1>0. /\ SocketTyped /\ OneTypes /\ Streamed /\ NoOne \notin Caller
  BY SocketAssumption DEF SocketInv
<1>1. listener = "recv" /\ served \in Caller /\ UNCHANGED <<served, caller, ghosts, sent>>
  BY <1>0 DEF Receive, OneTypes
<1>2. PICK rest : rest = stream[served]
  OBVIOUS
<1>3. rest \in Seq(SocketMessage) /\ Len(rest) \in Nat
  BY <1>0, <1>1, <1>2 DEF SocketTyped
<1>4. PICK k \in 1..Len(rest) :
          LET chunk == SubSeq(rest, 1, k) IN
          /\ stream' = [stream EXCEPT ![served] = SubSeq(@, k + 1, Len(@))]
          /\ written' = Writes(chunk)
          /\ listener' = IF ForUs /\ IsQuit(chunk) THEN "off" ELSE "recv"
  BY <1>2 DEF Receive
<1>5. PICK chunk, after : chunk = SubSeq(rest, 1, k) /\ after = SubSeq(rest, k + 1, Len(rest))
  OBVIOUS
<1>6. /\ chunk \in Seq(SocketMessage) /\ Len(chunk) = k /\ k \in Nat /\ k # 0
      /\ \A i \in 1..k : chunk[i] = rest[i]
  <2>1. \A i \in 1..k : rest[i] \in SocketMessage
    <3>1. \A i \in 1..k : i \in 1..Len(rest)
      BY <1>3
    <3> QED BY <1>3, <3>1
  <2>2. /\ SubSeq(rest, 1, k) \in Seq(SocketMessage) /\ Len(SubSeq(rest, 1, k)) = (IF 1 <= k THEN k - 1 + 1 ELSE 0)
        /\ \A i \in 1..(k - 1 + 1) : SubSeq(rest, 1, k)[i] = rest[1 + i - 1]
    BY <2>1, SubSeqProperties
  <2> QED BY <1>5, <2>2
<1>7. /\ after \in Seq(SocketMessage) /\ Len(after) = Len(rest) - k
  <2>1. k + 1 \in Int /\ Len(rest) \in Int
    BY <1>3
  <2>2. \A i \in (k + 1)..Len(rest) : rest[i] \in SocketMessage
    <3>1. \A i \in (k + 1)..Len(rest) : i \in 1..Len(rest)
      BY <1>3
    <3> QED BY <1>3, <3>1
  <2>3. /\ SubSeq(rest, k + 1, Len(rest)) \in Seq(SocketMessage)
        /\ Len(SubSeq(rest, k + 1, Len(rest))) = IF k + 1 <= Len(rest) THEN Len(rest) - (k + 1) + 1 ELSE 0
    BY ONLY <2>1, <2>2, SubSeqProperties
  <2> QED BY <1>3, <1>5, <2>3
<1>8. rest = chunk \o after
  <2>1. 1 \in 1..(Len(rest) + 1) /\ k \in (1 - 1)..Len(rest) /\ Len(rest) \in k..Len(rest)
    BY <1>3
  <2>2. SubSeq(rest, 1, k) \o SubSeq(rest, k + 1, Len(rest)) = SubSeq(rest, 1, Len(rest))
    BY <1>3, <2>1, ConcatAdjacentSubSeq
  <2>3. SubSeq(rest, 1, Len(rest)) = rest
    BY <1>3, SubSeqFull
  <2> QED BY <1>5, <2>2, <2>3
<1>9. /\ stream'[served] = after /\ stream' \in [Caller -> Seq(SocketMessage)]
      /\ \A d \in Caller \ {served} : stream'[d] = stream[d]
  <2>1. stream \in [Caller -> Seq(SocketMessage)] /\ stream' = [stream EXCEPT ![served] = after]
    BY <1>0, <1>2, <1>4, <1>5 DEF SocketTyped
  <2> QED BY <1>1, <1>7, <2>1
<1>10. /\ written' = Writes(chunk) /\ listener' = IF ForUs /\ IsQuit(chunk) THEN "off" ELSE "recv"
  BY <1>4, <1>5
<1>11. written \in Seq(Seq(SocketMessage)) /\ written' \in Seq(Seq(SocketMessage))
  <2>1. written \in Seq(Seq(SocketMessage))
    BY <1>0 DEF SocketTyped
  <2> QED BY <1>6, <1>10, <2>1, AppendProperties DEF Writes
<1>12. SocketTyped'
  BY <1>0, <1>1, <1>9, <1>10, <1>11 DEF SocketTyped
<1>13. OneTypes'
  BY <1>0, <1>1, <1>9, <1>10 DEF OneTypes
<1>14. CASE served \in Misdirected
  <2>1. written' = written /\ listener' = "recv"
    BY <1>10, <1>14 DEF Writes, ForUs
  <2> QED BY <1>0, <1>1, <1>12, <1>13, <1>14, <2>1 DEF Streamed, SocketInv
<1>15. CASE served \notin Misdirected
  <2>1. written' = Append(written, chunk)
    BY <1>10, <1>15 DEF Writes, ForUs
  <2>2. PICK w, all : w = FlattenSeq(written) /\ all = sent[served]
    OBVIOUS
  <2>3. w \in Seq(SocketMessage) /\ FlattenSeq(written') = w \o chunk
    BY <1>6, <1>11, <2>1, <2>2, FlattenMore
  <2>4. all = w \o rest /\ all \in Seq(SocketMessage)
    BY <1>0, <1>1, <1>2, <1>15, <2>2 DEF Streamed, SocketTyped
  <2>5. all = (w \o chunk) \o after
    <3>1. (w \o chunk) \o after = w \o (chunk \o after)
      <4>1. w \in Seq(SocketMessage) /\ chunk \in Seq(SocketMessage) /\ after \in Seq(SocketMessage)
        BY <1>6, <1>7, <2>3
      <4> QED BY <4>1, ConcatAssociative
    <3> QED BY <1>8, <2>4, <3>1
  <2>6. ASSUME listener' = "off" PROVE after = <<>> /\ Len(all) # 0 /\ all[Len(all)].cmd = "quit"
    <3>1. k = 1 /\ rest[1].cmd = "quit"
      <4>1. IsQuit(chunk)
        BY <1>10, <2>6
      <4> QED BY <1>6, <4>1 DEF IsQuit
    <3>2. PICK l \in Nat : l = Len(w)
      BY <2>3, LenProperties
    <3>3. Len(all) = l + Len(rest) /\ all[l + 1] = rest[1]
      <4>1. Len(all) = l + Len(rest) /\ \A i \in 1..(l + Len(rest)) : all[i] = IF i <= l THEN w[i] ELSE rest[i - l]
        BY <1>3, <2>3, <2>4, <3>2, ConcatProperties
      <4>2. l + 1 \in 1..(l + Len(rest)) /\ ~(l + 1 <= l) /\ l + 1 - l = 1
        BY <1>3
      <4> QED BY <4>1, <4>2
    <3>4. l + 1 \in 1..Len(all)
      BY <1>3, <3>3
    <3>5. l + 1 = Len(all)
      BY <1>0, <1>1, <2>2, <3>1, <3>3, <3>4 DEF OneTypes
    <3>6. Len(rest) = 1 /\ Len(after) = 0
      BY <1>3, <1>7, <3>1, <3>3, <3>5
    <3>7. after = <<>>
      BY <1>7, <3>6, EmptySeq
    <3> QED BY <3>1, <3>3, <3>5, <3>7
  <2>7. Streamed'
    BY <1>1, <1>9, <1>15, <2>2, <2>3, <2>5, <2>6 DEF Streamed
  <2> QED BY <1>12, <1>13, <2>7 DEF SocketInv
<1> QED BY <1>14, <1>15

(* However the stream of client and server is cut into chunks, the file of client1 has
   what was sent to the server up to what is on its way, in order; and when a quit has
   stopped the server, there is nothing on its way. *)
THEOREM StreamWritten == SocketSpec => []StreamKept
<1>1. SocketInit => SocketInv
  BY SocketStarts
<1>2. ASSUME SocketInv, [SocketNext]_socketVars PROVE SocketInv'
  <2>1. CASE Listen \/ Greet \/ ReceiveNothing \/ UNCHANGED socketVars
    BY <1>2, <2>1, QuietKeeps
  <2>2. ASSUME NEW c \in Caller, Connect(c) \/ HangUp(c) \/ Reset(c) PROVE SocketInv'
    BY <1>2, <2>2, QuietKeeps
  <2>3. CASE Accept
    BY <1>2, <2>3, AcceptKeeps
  <2>4. CASE Receive
    BY <1>2, <2>4, ReceiveKeeps
  <2>5. ASSUME NEW c \in Caller, NEW cmd \in {"text", "quit"}, Send(c, cmd) PROVE SocketInv'
    BY <1>2, <2>5, SendStreams
  <2> QED BY <1>2, <2>1, <2>2, <2>3, <2>4, <2>5 DEF SocketNext
<1>3. ASSUME SocketInv PROVE StreamKept
  <2>1. SocketTyped /\ OneTypes /\ Streamed /\ NoOne \notin Caller
    BY <1>3, SocketAssumption DEF SocketInv
  <2>2. served # NoOne <=> served \in Caller
    BY <2>1 DEF SocketTyped
  <2>3. (served # NoOne /\ ForUs) => sent[served] = FlattenSeq(written) \o stream[served]
    BY <2>1, <2>2 DEF Streamed, ForUs
  <2>4. (served = NoOne \/ ~ForUs) => written = <<>>
    BY <2>1, <2>2 DEF Streamed, ForUs
  <2>5. (served # NoOne /\ listener = "off") => Last(sent[served]).cmd = "quit" /\ stream[served] = <<>>
    BY <2>1, <2>2 DEF Streamed, Last
  <2>6. \A c \in Caller \ {served} : sent[c] = <<>>
    BY <2>1 DEF OneTypes
  <2> QED BY <2>3, <2>4, <2>5, <2>6 DEF StreamKept
<1> QED BY <1>1, <1>2, <1>3, PTL DEF SocketSpec

---------------------------------------------------------------------------------
(* Comp 206: the password database *)

Row == {r \in Seq(Int) : Len(r) >= 2}
Single == {t \in Seq(Int) : Len(t) = 1}
PlainUser == [name : Single, pass : Single, type : Seq(Int)]
AnyUser == [name : Seq(Int) \ {<<>>}, pass : Seq(Int) \ {<<>>}, type : Seq(Int)]

(* A function on 1..n is a sequence. *)
LEMMA Listed ==
    ASSUME NEW S, NEW n \in Nat, NEW f \in [1..n -> S]
    PROVE  f \in Seq(S) /\ Len(f) = n /\ DOMAIN f = 1..n
OBVIOUS

(* A plain user is a user, and a user makes a row. *)
LEMMA PlainIsUser == PlainUser \subseteq AnyUser /\ JunkUser \in PlainUser
<1>1. \A t \in Single : t \in Seq(Int) \ {<<>>}
  <2> SUFFICES ASSUME NEW t \in Single PROVE t # <<>>
    BY DEF Single
  <2>1. Len(<<>>) = 0
    OBVIOUS
  <2>2. Len(t) = 1
    BY DEF Single
  <2> QED BY ONLY <2>1, <2>2
<1>2. <<0>> \in Seq(Int) /\ Len(<<0>>) = 1
  OBVIOUS
<1> QED BY <1>1, <1>2 DEF PlainUser, AnyUser, JunkUser, Single

(* The parts of a merged line. *)
LEMMA MergedLine ==
    ASSUME NEW u \in AnyUser
    PROVE  /\ MergeLine(u) \in Row
           /\ u \in PlainUser => /\ Len(MergeLine(u)) = 2 + Len(u.type)
                                 /\ MergeLine(u)[1] = u.name[1] /\ MergeLine(u)[2] = u.pass[1]
                                 /\ \A i \in 1..Len(u.type) : MergeLine(u)[2 + i] = u.type[i]
<1>1. PICK a, b, c : a = u.name /\ b = u.pass /\ c = u.type
  OBVIOUS
<1>2. a \in Seq(Int) /\ a # <<>> /\ b \in Seq(Int) /\ b # <<>> /\ c \in Seq(Int)
  BY <1>1 DEF AnyUser
<1>3. PICK la \in Nat, lb \in Nat, lc \in Nat : la = Len(a) /\ lb = Len(b) /\ lc = Len(c) /\ la # 0 /\ lb # 0
  <2>1. Len(a) \in Nat \ {0} /\ Len(b) \in Nat \ {0} /\ Len(c) \in Nat
    BY <1>2, EmptySeq, LenProperties
  <2> QED BY <2>1
<1>4. /\ a \o b \in Seq(Int) /\ Len(a \o b) = la + lb
      /\ \A i \in 1..(la + lb) : (a \o b)[i] = IF i <= la THEN a[i] ELSE b[i - la]
  BY <1>2, <1>3, ConcatProperties
<1>5. PICK ab : ab = a \o b
  OBVIOUS
<1>6. /\ ab \o c \in Seq(Int) /\ Len(ab \o c) = la + lb + lc
      /\ \A i \in 1..(la + lb + lc) : (ab \o c)[i] = IF i <= la + lb THEN ab[i] ELSE c[i - (la + lb)]
  BY <1>2, <1>3, <1>4, <1>5, ConcatProperties
<1>7. MergeLine(u) = ab \o c
  BY <1>1, <1>5 DEF MergeLine
<1>8. MergeLine(u) \in Row
  BY <1>3, <1>6, <1>7 DEF Row
<1>9. ASSUME u \in PlainUser
      PROVE  /\ Len(ab \o c) = 2 + lc /\ (ab \o c)[1] = a[1] /\ (ab \o c)[2] = b[1]
             /\ \A i \in 1..lc : (ab \o c)[2 + i] = c[i]
  <2>1. la = 1 /\ lb = 1
    BY <1>1, <1>3, <1>9 DEF PlainUser, Single
  <2>2. (ab \o c)[1] = a[1] /\ (ab \o c)[2] = b[1]
    <3>1. 1 \in 1..(la + lb + lc) /\ 2 \in 1..(la + lb + lc) /\ 1 <= la + lb /\ 2 <= la + lb
      BY <2>1
    <3>2. (ab \o c)[1] = ab[1] /\ (ab \o c)[2] = ab[2]
      BY <1>6, <3>1
    <3>3. 1 \in 1..(la + lb) /\ 2 \in 1..(la + lb) /\ 1 <= la /\ ~(2 <= la) /\ 2 - la = 1
      BY <2>1
    <3>4. ab[1] = a[1] /\ ab[2] = b[1]
      BY <1>4, <1>5, <3>3
    <3> QED BY <3>2, <3>4
  <2>3. ASSUME NEW i \in 1..lc PROVE (ab \o c)[2 + i] = c[i]
    <3>1. 2 + i \in 1..(la + lb + lc) /\ ~(2 + i <= la + lb) /\ 2 + i - (la + lb) = i
      BY <2>1
    <3> QED BY <1>6, <3>1
  <2>4. Len(ab \o c) = 2 + lc
    BY <1>6, <2>1
  <2> QED BY <2>2, <2>3, <2>4
<1> QED BY <1>1, <1>3, <1>7, <1>8, <1>9

(* The cipher keeps rows rows. *)
LEMMA Ciphered ==
    ASSUME NEW r \in Row
    PROVE  /\ EncryptRow(r) \in Row /\ DecryptRow(r) \in Row /\ DecryptRow(EncryptRow(r)) = r
<1>1. PICK n \in Nat : n = Len(r) /\ n >= 2 /\ r \in [1..n -> Int] /\ DOMAIN r = 1..n /\ r \in Seq(Int)
  <2>1. r \in Seq(Int) /\ Len(r) >= 2
    BY DEF Row
  <2> QED BY <2>1, LenProperties
<1>2. EncryptRow(r) = [i \in 1..n |-> r[i] + 1] /\ DecryptRow(r) = [i \in 1..n |-> r[i] - 1]
  BY <1>1 DEF EncryptRow, DecryptRow, SHIFT
<1>3. PICK e, d : e = [i \in 1..n |-> r[i] + 1] /\ d = [i \in 1..n |-> r[i] - 1]
  OBVIOUS
<1>4. e \in [1..n -> Int] /\ d \in [1..n -> Int]
  BY <1>1, <1>3
<1>5. e \in Row /\ d \in Row /\ DOMAIN e = 1..n
  BY <1>1, <1>4, Listed DEF Row
<1>6. DecryptRow(e) = r
  <2>1. DecryptRow(e) = [i \in 1..n |-> e[i] - 1]
    BY <1>5 DEF DecryptRow, SHIFT
  <2>2. \A i \in 1..n : e[i] - 1 = r[i]
    BY <1>1, <1>3
  <2>3. r = [i \in 1..n |-> r[i]]
    BY <1>1
  <2> QED BY <2>1, <2>2, <2>3
<1> QED BY <1>2, <1>3, <1>5, <1>6

(* A row makes a user without commas. *)
LEMMA SplitRow ==
    ASSUME NEW r \in Row
    PROVE  /\ SplitLine(r) \in PlainUser
           /\ SplitLine(r).name = <<r[1]>> /\ SplitLine(r).pass = <<r[2]>>
           /\ Len(SplitLine(r).type) = Len(r) - 2
           /\ \A i \in 1..(Len(r) - 2) : SplitLine(r).type[i] = r[2 + i]
<1>1. PICK n \in Nat : n = Len(r) /\ n >= 2 /\ r \in Seq(Int)
  <2>1. r \in Seq(Int) /\ Len(r) >= 2
    BY DEF Row
  <2> QED BY <2>1, LenProperties
<1>2. \A i \in 1..n : r[i] \in Int
  BY <1>1
<1>3. PICK t : t = SubSeq(r, 3, n)
  OBVIOUS
<1>4. t \in Seq(Int) /\ Len(t) = n - 2 /\ \A i \in 1..(n - 2) : t[i] = r[2 + i]
  <2>1. \A i \in 3..n : r[i] \in Int
    BY <1>2
  <2>2. /\ t \in Seq(Int) /\ Len(t) = (IF 3 <= n THEN n - 3 + 1 ELSE 0)
        /\ \A i \in 1..(n - 3 + 1) : t[i] = r[3 + i - 1]
    BY <1>3, <2>1, SubSeqProperties
  <2>3. /\ (IF 3 <= n THEN n - 3 + 1 ELSE 0) = n - 2 /\ n - 3 + 1 = n - 2
        /\ \A i \in 1..(n - 2) : 3 + i - 1 = 2 + i
    BY <1>1
  <2> QED BY <2>2, <2>3
<1>5. <<r[1]>> \in Single /\ <<r[2]>> \in Single
  <2>1. r[1] \in Int /\ r[2] \in Int
    BY <1>1, <1>2
  <2> QED BY <2>1 DEF Single
<1> QED BY <1>1, <1>3, <1>4, <1>5 DEF SplitLine, PlainUser

(* What is written of a user without commas is what is read. *)
LEMMA ThereAndBack ==
    ASSUME NEW u \in PlainUser
    PROVE  SplitLine(DecryptRow(EncryptRow(MergeLine(u)))) = u
<1>1. PICK r : r = MergeLine(u)
  OBVIOUS
<1>2. u \in AnyUser
  BY PlainIsUser
<1>3. /\ r \in Row /\ Len(r) = 2 + Len(u.type) /\ r[1] = u.name[1] /\ r[2] = u.pass[1]
      /\ \A i \in 1..Len(u.type) : r[2 + i] = u.type[i]
  BY <1>1, <1>2, MergedLine
<1>4. DecryptRow(EncryptRow(r)) = r
  BY <1>3, Ciphered
<1>5. PICK v : v = SplitLine(r)
  OBVIOUS
<1>6. /\ v \in PlainUser /\ v.name = <<r[1]>> /\ v.pass = <<r[2]>>
      /\ Len(v.type) = Len(r) - 2 /\ \A i \in 1..(Len(r) - 2) : v.type[i] = r[2 + i]
  BY <1>3, <1>5, SplitRow
<1>7. u.name \in Single /\ u.pass \in Single /\ u.type \in Seq(Int) /\ v.type \in Seq(Int) /\ Len(u.type) \in Nat
  <2>1. u.name \in Single /\ u.pass \in Single /\ u.type \in Seq(Int) /\ v.type \in Seq(Int)
    BY <1>6 DEF PlainUser
  <2> QED BY <2>1, LenProperties
<1>8. v.name = u.name /\ v.pass = u.pass
  BY <1>3, <1>6, <1>7 DEF Single
<1>9. v.type = u.type
  <2>1. Len(v.type) = Len(u.type) /\ \A i \in 1..Len(v.type) : v.type[i] = u.type[i]
    BY <1>3, <1>6, <1>7
  <2> QED BY <1>7, <2>1, SeqEqual
<1>10. v = u
  BY <1>6, <1>8, <1>9 DEF PlainUser
<1> QED BY <1>1, <1>4, <1>5, <1>10

(* A table that is written and read again. *)
LEMMA WrittenTable ==
    ASSUME NEW T \in Seq(AnyUser)
    PROVE  ToMatrix(T) \in Seq(Row) /\ Len(ToMatrix(T)) = Len(T)
<1>1. PICK n \in Nat : n = Len(T) /\ DOMAIN T = 1..n
  BY LenProperties
<1>2. \A i \in 1..n : EncryptRow(MergeLine(T[i])) \in Row
  <2> SUFFICES ASSUME NEW i \in 1..n PROVE EncryptRow(MergeLine(T[i])) \in Row
    OBVIOUS
  <2>1. T[i] \in AnyUser
    BY <1>1, ElementOfSeq
  <2> QED BY <2>1, MergedLine, Ciphered
<1>3. PICK m : m = [i \in 1..n |-> EncryptRow(MergeLine(T[i]))]
  OBVIOUS
<1>4. m \in [1..n -> Row]
  BY <1>2, <1>3
<1>5. m \in Seq(Row) /\ Len(m) = n
  BY <1>4, Listed
<1> QED BY <1>1, <1>3, <1>5 DEF ToMatrix

(* What is read of a file is a table of users without commas. *)
LEMMA ReadTable ==
    ASSUME NEW M \in Seq(Row)
    PROVE  /\ ToUserList(M) \in Seq(PlainUser) /\ Len(ToUserList(M)) = Len(M)
           /\ DOMAIN M = 1..Len(M) /\ DOMAIN ToUserList(M) = 1..Len(M)
<1>1. PICK n \in Nat : n = Len(M) /\ DOMAIN M = 1..n
  BY LenProperties
<1>2. \A i \in 1..n : SplitLine(DecryptRow(M[i])) \in PlainUser
  <2> SUFFICES ASSUME NEW i \in 1..n PROVE SplitLine(DecryptRow(M[i])) \in PlainUser
    OBVIOUS
  <2>1. M[i] \in Row
    BY <1>1, ElementOfSeq
  <2> QED BY <2>1, SplitRow, Ciphered
<1>3. PICK m : m = [i \in 1..n |-> SplitLine(DecryptRow(M[i]))]
  OBVIOUS
<1>4. m \in [1..n -> PlainUser]
  BY <1>2, <1>3
<1>5. m \in Seq(PlainUser) /\ Len(m) = n /\ DOMAIN m = 1..n
  BY <1>4, Listed
<1> QED BY <1>1, <1>3, <1>5 DEF ToUserList

(* What is written of users without commas is what is read. *)
LEMMA SameTable ==
    ASSUME NEW T \in Seq(PlainUser)
    PROVE  ToUserList(ToMatrix(T)) = T
<1>1. PICK n \in Nat : n = Len(T) /\ DOMAIN T = 1..n /\ T = [i \in 1..n |-> T[i]]
  <2>1. Len(T) \in Nat /\ T \in [1..Len(T) -> PlainUser] /\ DOMAIN T = 1..Len(T)
    BY LenProperties
  <2> QED BY <2>1
<1>2. \A i \in 1..n : SplitLine(DecryptRow(EncryptRow(MergeLine(T[i])))) = T[i]
  <2> SUFFICES ASSUME NEW i \in 1..n PROVE SplitLine(DecryptRow(EncryptRow(MergeLine(T[i])))) = T[i]
    OBVIOUS
  <2>1. T[i] \in PlainUser
    BY <1>1, ElementOfSeq
  <2> QED BY <2>1, ThereAndBack
<1>3. PICK m : m = [i \in 1..n |-> EncryptRow(MergeLine(T[i]))]
  OBVIOUS
<1>4. ToMatrix(T) = m /\ DOMAIN m = 1..n /\ \A i \in 1..n : m[i] = EncryptRow(MergeLine(T[i]))
  BY <1>1, <1>3 DEF ToMatrix
<1>5. ToUserList(m) = [i \in 1..n |-> SplitLine(DecryptRow(m[i]))]
  BY <1>4 DEF ToUserList
<1>6. ToUserList(m) = [i \in 1..n |-> T[i]]
  BY <1>2, <1>4, <1>5
<1> QED BY <1>1, <1>4, <1>6

(* The file that is not there is no table. *)
LEMMA NoTable == ASSUME NEW T \in Seq(AnyUser) PROVE ToMatrix(T) # Absent
<1> SUFFICES ASSUME ToMatrix(T) = Absent PROVE FALSE
  OBVIOUS
<1>1. Absent \in Seq(Row) /\ Len(Absent) = 1
  BY WrittenTable DEF Absent
<1>2. Absent[1] \in Row /\ Absent[1] = <<>>
  <2>1. 1 \in 1..Len(Absent)
    BY <1>1
  <2> QED BY <1>1, <2>1, ElementOfSeq DEF Absent
<1>3. Len(<<>>) = 0
  OBVIOUS
<1> QED BY <1>2, <1>3 DEF Row

(* No name twice, in a table that is not too long for add and del. *)
Distinct(T) == \A i, j \in 1..Len(T) : T[i].name = T[j].name => i = j
Good(T) == T \in Seq(PlainUser) /\ (Len(T) <= Shift => Distinct(T))

(* A table for set S of users *)
TableOf(T, S) ==
    /\ T \in Seq(PlainUser) /\ Len(T) <= Shift /\ Distinct(T)
    /\ S = {T[i] : i \in 1..Len(T)}

(* The first of some rows is one of them. *)
LEMMA FirstFound ==
    ASSUME NEW n \in Nat, NEW I, I \subseteq 1..n, I # {}
    PROVE  First(I) \in I
<1>1. I \subseteq Nat
  OBVIOUS
<1>2. \E i \in I : \A j \in I : i <= j
  BY <1>1, Smallest
<1> QED BY <1>2 DEF First

(* A sequence without its k-th element *)
LEMMA Removing ==
    ASSUME NEW S, NEW s \in Seq(S), NEW n \in Nat, n = Len(s), NEW k \in 1..n
    PROVE  /\ RemoveAt(s, k) \in Seq(S) /\ Len(RemoveAt(s, k)) = n - 1
           /\ \A i \in 1..(n - 1) : RemoveAt(s, k)[i] = IF i < k THEN s[i] ELSE s[i + 1]
<1>1. \A i \in 1..n : s[i] \in S
  BY ElementOfSeq
<1>2. PICK a, b : a = SubSeq(s, 1, k - 1) /\ b = SubSeq(s, k + 1, n)
  OBVIOUS
<1>3. a \in Seq(S) /\ Len(a) = k - 1 /\ \A i \in 1..(k - 1) : a[i] = s[i]
  <2>1. \A i \in 1..(k - 1) : s[i] \in S
    BY <1>1
  <2>2. /\ a \in Seq(S) /\ Len(a) = (IF 1 <= k - 1 THEN k - 1 - 1 + 1 ELSE 0)
        /\ \A i \in 1..(k - 1 - 1 + 1) : a[i] = s[1 + i - 1]
    BY <1>2, <2>1, SubSeqProperties
  <2>3. /\ (IF 1 <= k - 1 THEN k - 1 - 1 + 1 ELSE 0) = k - 1 /\ k - 1 - 1 + 1 = k - 1
        /\ \A i \in 1..(k - 1) : 1 + i - 1 = i
    OBVIOUS
  <2> QED BY <2>2, <2>3
<1>4. b \in Seq(S) /\ Len(b) = n - k /\ \A i \in 1..(n - k) : b[i] = s[k + i]
  <2>1. \A i \in (k + 1)..n : s[i] \in S
    BY <1>1
  <2>2. /\ b \in Seq(S) /\ Len(b) = (IF k + 1 <= n THEN n - (k + 1) + 1 ELSE 0)
        /\ \A i \in 1..(n - (k + 1) + 1) : b[i] = s[k + 1 + i - 1]
    BY <1>2, <2>1, SubSeqProperties
  <2>3. /\ (IF k + 1 <= n THEN n - (k + 1) + 1 ELSE 0) = n - k /\ n - (k + 1) + 1 = n - k
        /\ \A i \in 1..(n - k) : k + 1 + i - 1 = k + i
    OBVIOUS
  <2> QED BY <2>2, <2>3
<1>5. /\ a \o b \in Seq(S) /\ Len(a \o b) = Len(a) + Len(b)
      /\ \A i \in 1..(Len(a) + Len(b)) : (a \o b)[i] = IF i <= Len(a) THEN a[i] ELSE b[i - Len(a)]
  BY <1>3, <1>4, ConcatProperties
<1>6. Len(a) + Len(b) = n - 1
  BY <1>3, <1>4
<1>7. ASSUME NEW i \in 1..(n - 1) PROVE (a \o b)[i] = IF i < k THEN s[i] ELSE s[i + 1]
  <2>1. CASE i < k
    <3>1. i \in 1..(k - 1) /\ i <= k - 1
      BY <2>1
    <3> QED BY <1>3, <1>5, <1>6, <2>1, <3>1
  <2>2. CASE ~(i < k)
    <3>1. i - (k - 1) \in 1..(n - k) /\ ~(i <= k - 1) /\ k + (i - (k - 1)) = i + 1
      BY <2>2
    <3>2. (a \o b)[i] = b[i - (k - 1)]
      BY <1>3, <1>5, <1>6, <3>1
    <3> QED BY <1>4, <2>2, <3>1, <3>2
  <2> QED BY <2>1, <2>2
<1> QED BY <1>2, <1>5, <1>6, <1>7 DEF RemoveAt

(* The tables that add leaves *)
LEMMA AddedRows ==
    ASSUME NEW S, JunkUser \in S, NEW T \in Seq(S), NEW u \in S, NEW U \in Added(T, u)
    PROVE  /\ U \in Seq(S)
           /\ Len(U) <= Shift => Len(T) < Shift
           /\ Len(T) < Shift => U = Append(T, u)
<1>0. PICK n \in Nat : n = Len(T)
  BY LenProperties
<1>1. Size \in Nat /\ Shift \in Nat /\ Shift < Size
  BY PassAssumption
<1>2. CASE n = Size
  <2>1. U = T
    BY <1>0, <1>2 DEF Added
  <2>2. ~(n <= Shift) /\ ~(n < Shift)
    BY <1>1, <1>2
  <2> QED BY <1>0, <2>1, <2>2
<1>3. CASE n # Size
  <2>1. PICK m \in (IF n < Shift THEN {0} ELSE 0..(Size - n - 1)) : U = Append(T, u) \o [i \in 1..m |-> JunkUser]
    BY <1>0, <1>3 DEF Added
  <2>2. m \in Nat /\ (n < Shift => m = 0)
    BY <1>0, <1>1, <2>1
  <2>3. PICK A, J : A = Append(T, u) /\ J = [i \in 1..m |-> JunkUser]
    OBVIOUS
  <2>4. A \in Seq(S) /\ Len(A) = n + 1
    BY <1>0, <2>3, AppendProperties
  <2>5. J \in Seq(S) /\ Len(J) = m
    <3>1. J \in [1..m -> S]
      BY <2>3
    <3> QED BY <2>2, <3>1, Listed
  <2>6. U = A \o J /\ A \o J \in Seq(S) /\ Len(A \o J) = n + 1 + m
    <3>1. A \o J \in Seq(S) /\ Len(A \o J) = Len(A) + Len(J)
      BY <2>4, <2>5, ConcatProperties
    <3>2. Len(A) + Len(J) = n + 1 + m
      BY <2>4, <2>5
    <3> QED BY <2>1, <2>3, <3>1, <3>2
  <2>7. n < Shift => U = A
    <3> SUFFICES ASSUME n < Shift PROVE U = A
      OBVIOUS
    <3>1. J = <<>>
      BY <2>2, <2>5, EmptySeq
    <3>2. A \o <<>> = A
      BY <2>4, ConcatEmptySeq
    <3> QED BY <2>6, <3>1, <3>2
  <2>8. Len(U) <= Shift => n < Shift
    BY <1>1, <2>2, <2>6
  <2> QED BY <1>0, <2>3, <2>6, <2>7, <2>8
<1> QED BY <1>2, <1>3

(* The tables that del leaves *)
LEMMA RemovedRows ==
    ASSUME NEW S, NEW T \in Seq(S), NEW k \in 1..Len(T)
    PROVE  /\ Removed(T, k) \in Seq(S)
           /\ Len(Removed(T, k)) <= Shift => Len(T) <= Shift
           /\ Len(T) <= Shift => Removed(T, k) = RemoveAt(T, k)
<1>0. PICK n \in Nat : n = Len(T) /\ DOMAIN T = 1..n /\ \A i \in 1..n : T[i] \in S
  BY LenProperties, ElementOfSeq
<1>1. Size \in Nat /\ Shift \in Nat /\ k \in 1..n
  BY <1>0, PassAssumption
<1>2. CASE n <= Shift
  <2>1. Removed(T, k) = RemoveAt(T, k)
    BY <1>0, <1>2 DEF Removed
  <2> QED BY <1>0, <1>1, <1>2, <2>1, Removing
<1>3. CASE ~(n <= Shift)
  <2>1. PICK R : R = [i \in 1..n |-> IF i \in k..Shift THEN T[i + 1] ELSE T[i]]
    OBVIOUS
  <2>2. Removed(T, k) = R
    BY <1>0, <1>3, <2>1 DEF Removed
  <2>3. \A i \in 1..n : i \in k..Shift => i + 1 \in 1..n
    BY <1>1, <1>3
  <2>4. R \in [1..n -> S]
    BY <1>0, <2>1, <2>3
  <2>5. R \in Seq(S) /\ Len(R) = n
    BY <2>4, Listed
  <2> QED BY <1>0, <1>3, <2>2, <2>5
<1> QED BY <1>2, <1>3

Kinds == {"add", "del", "edit", "verify"}

(* What a table may become *)
LEMMA ResultCases ==
    ASSUME NEW S, NEW T \in Seq(S), NEW op, op.kind \in Kinds, NEW U \in Results(T, op)
    PROVE  \/ op.kind = "add" /\ Named(T, op.new.name) = {} /\ U \in Added(T, op.new)
           \/ op.kind = "del" /\ Named(T, op.old.name) = {} /\ U = T
           \/ op.kind = "del" /\ \E k \in Named(T, op.old.name) : U = Removed(T, k)
           \/ op.kind = "edit" /\ Named(T, op.new.name) = {} /\ Matching(T, op.old) = {} /\ U = T
           \/ op.kind = "edit" /\ Named(T, op.new.name) = {}
              /\ \E k \in Matching(T, op.old) : U = [T EXCEPT ![k] = op.new]
<1>0. PICK n \in Nat : n = Len(T) /\ DOMAIN T = 1..n
  BY LenProperties
<1>1. CASE op.kind = "add"
  BY <1>1 DEF Results, AddResults
<1>2. CASE op.kind = "del"
  <2>1. U \in DelResults(T, op)
    BY <1>2 DEF Results
  <2>2. PICK I : I = Named(T, op.old.name) /\ I \subseteq 1..n
    BY <1>0 DEF Named
  <2>3. I # {} => First(I) \in I
    BY <2>2, FirstFound
  <2> QED BY <1>2, <2>1, <2>2, <2>3 DEF DelResults
<1>3. CASE op.kind = "edit"
  <2>1. U \in EditResults(T, op)
    BY <1>3 DEF Results
  <2>2. PICK I : I = Matching(T, op.old) /\ I \subseteq 1..n
    BY <1>0 DEF Matching, Named
  <2>3. I # {} => First(I) \in I
    BY <2>2, FirstFound
  <2> QED BY <1>3, <2>1, <2>2, <2>3 DEF EditResults
<1>4. CASE op.kind = "verify"
  BY <1>4 DEF Results
<1> QED BY <1>1, <1>2, <1>3, <1>4 DEF Kinds

(* The new user that op puts into a table is one of S. *)
NewIn(op, S) == op.kind \in {"add", "edit"} => op.new \in S

(* What a table may become is a table. *)
LEMMA ResultTyped ==
    ASSUME NEW S, JunkUser \in S, NEW T \in Seq(S), NEW op, op.kind \in Kinds, NewIn(op, S), NEW U \in Results(T, op)
    PROVE  U \in Seq(S)
<1>0. PICK n \in Nat : n = Len(T) /\ DOMAIN T = 1..n
  BY LenProperties
<1>1. CASE op.kind = "add" /\ U \in Added(T, op.new)
  <2>1. op.new \in S
    BY <1>1 DEF NewIn
  <2> QED BY <1>1, <2>1, AddedRows
<1>2. ASSUME NEW k \in Named(T, op.old.name), U = Removed(T, k) PROVE U \in Seq(S)
  <2>1. k \in 1..Len(T)
    BY <1>0 DEF Named
  <2> QED BY <1>2, <2>1, RemovedRows
<1>3. ASSUME op.kind = "edit", NEW k \in Matching(T, op.old), U = [T EXCEPT ![k] = op.new] PROVE U \in Seq(S)
  <2>1. k \in 1..Len(T) /\ op.new \in S
    BY <1>0, <1>3 DEF Matching, Named, NewIn
  <2> QED BY <1>3, <2>1, ExceptSeq
<1> QED BY <1>1, <1>2, <1>3, ResultCases

(* No operation puts a name twice into a table that has none twice. *)
LEMMA ResultGood ==
    ASSUME NEW T, Good(T), NEW op, op.kind \in Kinds, NewIn(op, PlainUser), NEW U \in Results(T, op)
    PROVE  Good(U)
<1>0. PICK n \in Nat : n = Len(T) /\ DOMAIN T = 1..n /\ T \in Seq(PlainUser) /\ JunkUser \in PlainUser
  BY LenProperties, PlainIsUser DEF Good
<1>1. U \in Seq(PlainUser)
  BY <1>0, ResultTyped
<1>2. ASSUME Len(U) <= Shift PROVE Distinct(U)
  <2>0. Shift \in Nat
    BY PassAssumption
  <2>1. CASE op.kind = "add" /\ Named(T, op.new.name) = {} /\ U \in Added(T, op.new)
    <3>0. op.new \in PlainUser
      BY <2>1 DEF NewIn
    <3>1. Len(T) < Shift /\ U = Append(T, op.new)
      BY <1>0, <1>2, <2>1, <3>0, AddedRows
    <3>2. Distinct(T)
      BY <1>0, <2>0, <3>1 DEF Good
    <3>3. Len(U) = n + 1 /\ U[n + 1] = op.new /\ \A i \in 1..n : U[i] = T[i]
      BY <1>0, <3>0, <3>1, AppendProperties
    <3>4. \A i \in 1..n : T[i].name # op.new.name
      BY <1>0, <2>1 DEF Named
    <3>5. ASSUME NEW i \in 1..Len(U), i \notin 1..n PROVE i = n + 1
      BY <3>3, <3>5
    <3>6. ASSUME NEW i \in 1..Len(U), NEW j \in 1..Len(U), U[i].name = U[j].name PROVE i = j
      <4>1. CASE i \in 1..n /\ j \in 1..n
        BY <1>0, <3>2, <3>3, <3>6, <4>1 DEF Distinct
      <4>2. CASE i \in 1..n /\ j \notin 1..n
        BY <3>3, <3>4, <3>5, <3>6, <4>2
      <4>3. CASE i \notin 1..n /\ j \in 1..n
        BY <3>3, <3>4, <3>5, <3>6, <4>3
      <4>4. CASE i \notin 1..n /\ j \notin 1..n
        BY <3>5, <4>4
      <4> QED BY <4>1, <4>2, <4>3, <4>4
    <3> QED BY <3>6 DEF Distinct
  <2>2. CASE U = T
    BY <1>2, <2>2 DEF Good
  <2>3. ASSUME NEW k \in Named(T, op.old.name), U = Removed(T, k) PROVE Distinct(U)
    <3>1. k \in 1..n
      BY <1>0 DEF Named
    <3>2. Len(T) <= Shift /\ U = RemoveAt(T, k)
      BY <1>0, <1>2, <2>3, <3>1, RemovedRows
    <3>3. Len(U) = n - 1 /\ \A i \in 1..(n - 1) : U[i] = IF i < k THEN T[i] ELSE T[i + 1]
      <4>1. /\ Len(RemoveAt(T, k)) = n - 1
            /\ \A i \in 1..(n - 1) : RemoveAt(T, k)[i] = IF i < k THEN T[i] ELSE T[i + 1]
        <5>1. T \in Seq(PlainUser) /\ n \in Nat /\ n = Len(T) /\ k \in 1..n
          BY <1>0, <3>1
        <5>2. Len(RemoveAt(T, k)) = n - 1
          BY <5>1, Removing
        <5>3. \A i \in 1..(n - 1) : RemoveAt(T, k)[i] = IF i < k THEN T[i] ELSE T[i + 1]
          BY <5>1, Removing
        <5> QED BY <5>2, <5>3
      <4> QED BY <3>2, <4>1
    <3>4. \A i, j \in 1..n : T[i].name = T[j].name => i = j
      BY <1>0, <3>2 DEF Good, Distinct
    <3>5. ASSUME NEW i \in 1..(n - 1), NEW j \in 1..(n - 1), U[i].name = U[j].name PROVE i = j
      <4>1. PICK x \in 1..n, y \in 1..n : /\ x = IF i < k THEN i ELSE i + 1
                                         /\ y = IF j < k THEN j ELSE j + 1
        OBVIOUS
      <4>2. U[i] = T[x] /\ U[j] = T[y]
        BY <3>3, <4>1
      <4>3. x = y
        BY <3>4, <3>5, <4>2
      <4>4. i \in Int /\ j \in Int /\ k \in Int
        BY <3>1
      <4> QED BY ONLY <4>1, <4>3, <4>4
    <3> QED BY <3>3, <3>5 DEF Distinct
  <2>4. ASSUME op.kind = "edit", Named(T, op.new.name) = {}, NEW k \in Matching(T, op.old), U = [T EXCEPT ![k] = op.new]
        PROVE  Distinct(U)
    <3>1. k \in 1..n /\ op.new \in PlainUser
      BY <1>0, <2>4 DEF Matching, Named, NewIn
    <3>2. Len(U) = n /\ \A i \in 1..n : U[i] = IF i = k THEN op.new ELSE T[i]
      BY <1>0, <2>4, <3>1, ExceptSeq
    <3>3. \A i \in 1..n : T[i].name # op.new.name
      BY <1>0, <2>4 DEF Named
    <3>4. \A i, j \in 1..n : T[i].name = T[j].name => i = j
      BY <1>0, <1>2, <3>2 DEF Good, Distinct
    <3> QED BY <3>2, <3>3, <3>4 DEF Distinct
  <2> QED BY <1>0, <2>1, <2>2, <2>3, <2>4, ResultCases
<1> QED BY <1>1, <1>2 DEF Good

(* The users in a table *)
Users(T) == {T[i] : i \in 1..Len(T)}

(* Without row k the user in it is gone, since no other row has the name. *)
LEMMA OthersRemain ==
    ASSUME NEW T \in Seq(PlainUser), Distinct(T), NEW n \in Nat, n = Len(T), NEW k \in 1..n
    PROVE  {T[i] : i \in (1..n) \ {k}} = Users(T) \ {T[k]}
<1>1. \A i \in 1..n : T[i] = T[k] => i = k
  BY DEF Distinct
<1> QED BY <1>1 DEF Users

(* A change makes of the users in a table without a name twice what it promises. *)
LEMMA ResultPromised ==
    ASSUME NEW T, Good(T), Len(T) <= Shift, NEW op, op.kind \in Kinds, NewIn(op, PlainUser),
           op.kind = "add" => Len(T) < Shift, NEW U \in Results(T, op)
    PROVE  Good(U) /\ Len(U) <= Shift /\ Users(U) = Promise(Users(T), op)
<1>0. PICK n \in Nat : n = Len(T) /\ DOMAIN T = 1..n /\ T \in Seq(PlainUser) /\ JunkUser \in PlainUser /\ Distinct(T)
  BY LenProperties, PlainIsUser DEF Good
<1>1. Good(U) /\ Shift \in Nat
  BY ResultGood, PassAssumption
<1>2. PICK S : S = Users(T) /\ S = {T[i] : i \in 1..n}
  BY <1>0 DEF Users
<1>3. PICK same, match : /\ same = {u \in S : u.name = op.new.name}
                         /\ match = {u \in S : u.name = op.old.name /\ u.pass = op.old.pass}
  OBVIOUS
<1>4. /\ op.kind = "add" => Promise(S, op) = IF same = {} THEN S \cup {op.new} ELSE S
      /\ op.kind = "del" => Promise(S, op) = {u \in S : u.name # op.old.name}
      /\ op.kind = "edit" => Promise(S, op) = IF same = {} /\ match # {} THEN (S \ match) \cup {op.new} ELSE S
  BY <1>3 DEF Promise
<1>5. Named(T, op.new.name) = {} => same = {}
  BY <1>0, <1>2, <1>3 DEF Named
<1>6. CASE op.kind = "add" /\ Named(T, op.new.name) = {} /\ U \in Added(T, op.new)
  <2>0. op.new \in PlainUser
    BY <1>6 DEF NewIn
  <2>1. U = Append(T, op.new)
    BY <1>0, <1>6, <2>0, AddedRows
  <2>2. Len(U) = n + 1 /\ U[n + 1] = op.new /\ \A i \in 1..n : U[i] = T[i]
    BY <1>0, <2>0, <2>1, AppendProperties
  <2>3. Users(U) = S \cup {op.new}
    <3>1. 1..(n + 1) = (1..n) \cup {n + 1}
      OBVIOUS
    <3>2. Users(U) = {U[i] : i \in (1..n) \cup {n + 1}}
      BY <2>2, <3>1 DEF Users
    <3> QED BY <1>2, <2>2, <3>2
  <2>4. Len(U) <= Shift
    BY <1>0, <1>1, <1>6, <2>2
  <2> QED BY <1>1, <1>2, <1>4, <1>5, <1>6, <2>3, <2>4
<1>7. CASE op.kind = "del" /\ Named(T, op.old.name) = {} /\ U = T
  <2>1. {u \in S : u.name # op.old.name} = S
    BY <1>0, <1>2, <1>7 DEF Named
  <2> QED BY <1>1, <1>2, <1>4, <1>7, <2>1
<1>8. ASSUME op.kind = "del", NEW k \in Named(T, op.old.name), U = Removed(T, k)
      PROVE  Len(U) <= Shift /\ Users(U) = Promise(S, op)
  <2>1. k \in 1..n /\ T[k].name = op.old.name
    BY <1>0 DEF Named
  <2>2. U = RemoveAt(T, k)
    BY <1>0, <1>8, <2>1, RemovedRows
  <2>3. Len(U) = n - 1 /\ \A i \in 1..(n - 1) : U[i] = IF i < k THEN T[i] ELSE T[i + 1]
    <3>1. /\ Len(RemoveAt(T, k)) = n - 1
          /\ \A i \in 1..(n - 1) : RemoveAt(T, k)[i] = IF i < k THEN T[i] ELSE T[i + 1]
      <4>1. T \in Seq(PlainUser) /\ n \in Nat /\ n = Len(T) /\ k \in 1..n
        BY <1>0, <2>1
      <4>2. Len(RemoveAt(T, k)) = n - 1
        BY <4>1, Removing
      <4>3. \A i \in 1..(n - 1) : RemoveAt(T, k)[i] = IF i < k THEN T[i] ELSE T[i + 1]
        BY ZenonT(40), <4>1, Removing
      <4> QED BY <4>2, <4>3
    <3> QED BY <2>2, <3>1
  <2>4. Users(U) = {T[i] : i \in (1..n) \ {k}}
    <3>1. ASSUME NEW i \in 1..(n - 1) PROVE \E x \in (1..n) \ {k} : U[i] = T[x]
      <4>1. CASE i < k
        <5>1. i \in (1..n) \ {k}
          BY <2>1, <4>1
        <5> QED BY <2>3, <4>1, <5>1
      <4>2. CASE ~(i < k)
        <5>1. i + 1 \in (1..n) \ {k}
          BY <2>1, <4>2
        <5> QED BY <2>3, <4>2, <5>1
      <4> QED BY <4>1, <4>2
    <3>2. ASSUME NEW x \in (1..n) \ {k} PROVE \E i \in 1..(n - 1) : U[i] = T[x]
      <4>1. CASE x < k
        <5>1. x \in 1..(n - 1)
          BY <2>1, <4>1
        <5> QED BY <2>3, <4>1, <5>1
      <4>2. CASE ~(x < k)
        <5>1. x - 1 \in 1..(n - 1) /\ ~(x - 1 < k) /\ (x - 1) + 1 = x
          BY <2>1, <4>2
        <5> QED BY <2>3, <5>1
      <4> QED BY <4>1, <4>2
    <3>3. Users(U) = {U[i] : i \in 1..(n - 1)}
      BY <2>3 DEF Users
    <3>4. {U[i] : i \in 1..(n - 1)} = {T[x] : x \in (1..n) \ {k}}
      <4>1. PICK I, X : I = 1..(n - 1) /\ X = (1..n) \ {k}
        OBVIOUS
      <4>2. \A i \in I : \E x \in X : U[i] = T[x]
        BY <3>1, <4>1
      <4>3. \A x \in X : \E i \in I : U[i] = T[x]
        BY <3>2, <4>1
      <4>4. {U[i] : i \in I} = {T[x] : x \in X}
        <5>1. {U[i] : i \in I} \subseteq {T[x] : x \in X}
          BY ONLY <4>2
        <5>2. {T[x] : x \in X} \subseteq {U[i] : i \in I}
          BY ONLY <4>3
        <5> QED BY <5>1, <5>2
      <4> QED BY <4>1, <4>4
    <3> QED BY <3>3, <3>4
  <2>5. Users(U) = S \ {T[k]}
    <3>1. T \in Seq(PlainUser) /\ Distinct(T) /\ n \in Nat /\ n = Len(T) /\ k \in 1..n
      BY <1>0, <2>1
    <3>2. {T[i] : i \in (1..n) \ {k}} = Users(T) \ {T[k]}
      BY <3>1, OthersRemain
    <3> QED BY <1>2, <2>4, <3>2
  <2>6. {u \in S : u.name # op.old.name} = S \ {T[k]}
    <3>1. \A i \in 1..n : T[i].name = op.old.name => i = k
      BY <1>0, <2>1 DEF Distinct
    <3> QED BY <1>2, <2>1, <3>1
  <2>7. Len(U) <= Shift
    BY <1>0, <1>1, <2>3
  <2> QED BY <1>4, <1>8, <2>5, <2>6, <2>7
<1>9. CASE op.kind = "edit" /\ Named(T, op.new.name) = {} /\ Matching(T, op.old) = {} /\ U = T
  <2>1. match = {}
    BY <1>0, <1>2, <1>3, <1>9 DEF Matching, Named
  <2> QED BY <1>1, <1>2, <1>4, <1>9, <2>1
<1>10. ASSUME op.kind = "edit", Named(T, op.new.name) = {}, NEW k \in Matching(T, op.old), U = [T EXCEPT ![k] = op.new]
       PROVE  Len(U) <= Shift /\ Users(U) = Promise(S, op)
  <2>1. k \in 1..n /\ T[k].name = op.old.name /\ T[k].pass = op.old.pass /\ op.new \in PlainUser
    BY <1>0, <1>10 DEF Matching, Named, NewIn
  <2>2. Len(U) = n /\ \A i \in 1..n : U[i] = IF i = k THEN op.new ELSE T[i]
    BY <1>0, <1>10, <2>1, ExceptSeq
  <2>3. match = {T[k]}
    <3>1. \A i \in 1..n : T[i].name = op.old.name => i = k
      BY <1>0, <2>1 DEF Distinct
    <3> QED BY <1>2, <1>3, <2>1, <3>1
  <2>4. Users(U) = {T[i] : i \in (1..n) \ {k}} \cup {op.new}
    BY <2>1, <2>2 DEF Users
  <2>5. Users(U) = (S \ {T[k]}) \cup {op.new}
    <3>1. T \in Seq(PlainUser) /\ Distinct(T) /\ n \in Nat /\ n = Len(T) /\ k \in 1..n
      BY <1>0, <2>1
    <3>2. {T[i] : i \in (1..n) \ {k}} = Users(T) \ {T[k]}
      BY <3>1, OthersRemain
    <3> QED BY <1>2, <2>4, <3>2
  <2> QED BY <1>0, <1>4, <1>5, <1>10, <2>2, <2>3, <2>5
<1> QED BY <1>0, <1>1, <1>2, <1>6, <1>7, <1>8, <1>9, <1>10, ResultCases

LoginOp == [NoOperation EXCEPT !.kind = "login"]
Process == [pc : {"off", "menu", "open", "create", "change", "try", "exit"},
            menu : BOOLEAN, op : Operation \cup {NoOperation, LoginOp},
            users : Seq(PlainUser), out : Seq(Seq(Row)), stale : BOOLEAN, tries : Nat]

(* Only passweb changes the file, and login has nothing to flush. *)
Standing(s) ==
    /\ s.pc = "change" => s.op \in Operation
    /\ s.pc \in {"open", "create"} => s.op # NoOperation
    /\ s.pc \in {"off", "try"} \/ s.op = LoginOp => s.out = <<>>

PassTyped ==
    /\ passwords \in Seq(Row) \cup {Absent}
    /\ session \in [Session -> Process]
    /\ \A p \in Session : Standing(session[p])
    /\ plain \in BOOLEAN /\ calm \in BOOLEAN

(* As long as no text has a comma every table is good: the one in the file, those
   that are about to be changed and those that wait in a stream. *)
GoodTables ==
    plain => /\ passwords # Absent => Good(ToUserList(passwords))
             /\ \A p \in Session :
                   /\ session[p].pc = "change" => Good(session[p].users)
                   /\ \A k \in DOMAIN session[p].out : Good(ToUserList(session[p].out[k]))

(* As long as it is calm at most one process has a table to flush, which is the only
   one, and the table in the file, that one, and those that are not out of date hold
   the users that should be there. *)
CalmTables ==
    calm => /\ (\A p \in Session : ~Unflushed(p)) =>
                  \/ passwords = Absent /\ truth = {}
                  \/ passwords # Absent /\ TableOf(ToUserList(passwords), truth)
            /\ \A p \in Session : Unflushed(p) =>
                  /\ passwords = <<>> /\ Len(session[p].out) = 1
                  /\ TableOf(ToUserList(session[p].out[1]), truth)
                  /\ \A q \in Session : Unflushed(q) => q = p
            /\ \A p \in Session : session[p].pc = "change" /\ ~session[p].stale =>
                  /\ \A q \in Session : ~Unflushed(q)
                  /\ TableOf(session[p].users, truth)

PassInv == PassTyped /\ GoodTables /\ CalmTables

(* An empty table is good and has no users. *)
LEMMA EmptyTable == /\ <<>> \in Seq(Row) /\ <<>> # Absent /\ ToUserList(<<>>) = <<>>
                    /\ Good(<<>>) /\ TableOf(<<>>, {})
<1>1. <<>> \in Seq(Row) /\ <<>> \in Seq(PlainUser) /\ Len(<<>>) = 0 /\ Shift \in Nat
  BY PassAssumption
<1>2. ToUserList(<<>>) = <<>>
  <2>1. ToUserList(<<>>) \in Seq(PlainUser) /\ Len(ToUserList(<<>>)) = 0
    BY <1>1, ReadTable
  <2> QED BY <2>1, EmptySeq
<1>3. Distinct(<<>>)
  BY <1>1 DEF Distinct
<1>4. {<<>>[i] : i \in 1..Len(<<>>)} = {}
  BY <1>1
<1>5. <<>> # Absent
  <2>1. Len(Absent) = 1
    BY DEF Absent
  <2> QED BY <1>1, <2>1
<1> QED BY <1>1, <1>2, <1>3, <1>4, <1>5 DEF Good, TableOf

(* The invariant holds when there is no file. *)
LEMMA PassStarts == PassInit => PassInv
<1> SUFFICES ASSUME PassInit PROVE PassInv
  OBVIOUS
<1>1. /\ passwords = Absent /\ plain = TRUE /\ calm = TRUE /\ truth = {}
      /\ session = [p \in Session |-> Off]
  BY DEF PassInit
<1>2. Off \in Process /\ Off.out = <<>> /\ Off.pc = "off" /\ Off.op = NoOperation
  BY DEF Off, Process
<1>3. \A p \in Session : session[p] = Off
  BY <1>1
<1>4. PassTyped
  BY <1>1, <1>2, <1>3 DEF PassTyped, Standing
<1>5. GoodTables
  BY <1>1, <1>2, <1>3 DEF GoodTables
<1>6. CalmTables
  BY <1>1, <1>2, <1>3 DEF CalmTables, Unflushed
<1> QED BY <1>4, <1>5, <1>6 DEF PassInv

(* Steps that write nothing and load no table that will be changed. *)
LEMMA QuietSession ==
    ASSUME PassInv, UNCHANGED <<passwords, plain, calm, truth>>, NEW p \in Session,
           session' \in [Session -> Process],
           \A q \in Session : q # p => session'[q] = session[q],
           session'[p].out = session[p].out, session'[p].pc # "change", Standing(session'[p])
    PROVE  PassInv'
<1>0. PassTyped /\ GoodTables /\ CalmTables
  BY DEF PassInv
<1>1. \A q \in Session : session'[q].out = session[q].out /\ (session'[q].pc = "change" => session'[q] = session[q])
  OBVIOUS
<1>2. PassTyped'
  <2>1. \A q \in Session : Standing(session'[q])
    BY <1>0 DEF PassTyped
  <2> QED BY <1>0, <2>1 DEF PassTyped
<1>3. GoodTables'
  BY <1>0, <1>1 DEF GoodTables
<1>4. CalmTables'
  <2>1. \A q \in Session : Unflushed(q)' = Unflushed(q)
    BY <1>1 DEF Unflushed
  <2> QED BY <1>0, <1>1, <2>1 DEF CalmTables
<1> QED BY <1>2, <1>3, <1>4 DEF PassInv

(* The operations of passweb *)
LEMMA Operations ==
    ASSUME NEW op \in Operation
    PROVE  /\ op.kind \in Kinds /\ NewIn(op, AnyUser) /\ op # NoOperation /\ op # LoginOp
           /\ ~HasComma(op) => NewIn(op, PlainUser)
<1>1. op.kind \in Kinds
  BY DEF Operation, Kinds
<1>2. op # NoOperation /\ op # LoginOp
  <2>1. NoOperation.kind = "none" /\ LoginOp.kind = "login"
    BY DEF NoOperation, LoginOp
  <2> QED BY <1>1, <2>1 DEF Kinds
<1>3. ASSUME op.kind \in {"add", "edit"}
      PROVE  op.new \in AnyUser /\ (~HasComma(op) => op.new \in PlainUser)
  <2>1. op.new \in User
    BY <1>3 DEF Operation
  <2>2. PICK a, b, c : a = op.new.name /\ b = op.new.pass /\ c = op.new.type
    OBVIOUS
  <2>3. /\ a \in Seq(Int) /\ a # <<>> /\ b \in Seq(Int) /\ b # <<>> /\ c \in Seq(Int)
        /\ op.new = [name |-> a, pass |-> b, type |-> c]
    BY <2>1, <2>2, PassAssumption DEF User
  <2>4. Len(a) \in Nat /\ Len(a) # 0 /\ Len(b) \in Nat /\ Len(b) # 0
    BY <2>3, EmptySeq, LenProperties
  <2>5. op.new \in AnyUser
    BY <2>3 DEF AnyUser
  <2>6. ASSUME ~HasComma(op) PROVE op.new \in PlainUser
    <3>1. Len(a) = 1 /\ Len(b) = 1
      <4>1. ~(Len(a) > 1) /\ ~(Len(b) > 1)
        BY <1>3, <2>2, <2>6, Zenon DEF HasComma
      <4>2. \A x \in Nat : x # 0 /\ ~(x > 1) => x = 1
        OBVIOUS
      <4> QED BY <2>4, <4>1, <4>2, Zenon
    <3>2. a \in Single /\ b \in Single
      BY <2>3, <3>1 DEF Single
    <3> QED BY <2>3, <3>2 DEF PlainUser
  <2> QED BY <2>5, <2>6
<1> QED BY <1>1, <1>2, <1>3 DEF NewIn

(* A task is begun, the menu is entered or left, a file is missing, an operation is
   refused, a password is verified, login reads its list and asks, a process exits. *)
LEMMA QuietSteps ==
    ASSUME PassInv, NEW p \in Session,
           \/ Command(p) \/ LoginSim(p) \/ Menu(p) \/ Select(p) \/ LeaveMenu(p) \/ Login(p)
           \/ LoadList(p) \/ Missing(p) \/ Refuse(p) \/ Verify(p) \/ Exit(p)
           \/ \E user \in User : Try(p, user)
    PROVE  PassInv'
<1>0. /\ PassTyped
      /\ session \in [Session -> Process] /\ session[p] \in Process /\ Standing(session[p])
  BY DEF PassInv, PassTyped
<1>1. PICK s : s = session[p]
  OBVIOUS
<1>2. s \in Process /\ Standing(s)
  BY <1>0, <1>1
<1> DEFINE Quiet(t) == /\ session' = [session EXCEPT ![p] = t] /\ t \in Process
                       /\ t.out = s.out /\ t.pc # "change" /\ Standing(t)
                       /\ UNCHANGED <<passwords, plain, calm, truth>>
<1>3. ASSUME NEW t, Quiet(t) PROVE PassInv'
  <2>1. session'[p] = t /\ session' \in [Session -> Process] /\ \A q \in Session : q # p => session'[q] = session[q]
    BY <1>0, <1>3
  <2> QED BY <1>1, <1>3, <2>1, QuietSession
<1>4. ASSUME NEW op \in Operation \cup {LoginOp}, Begin(p, op), s.pc \in {"off", "menu"}, op = LoginOp => s.pc = "off"
      PROVE  PassInv'
  <2>1. PICK t : t = [s EXCEPT !.pc = "open", !.op = op]
    OBVIOUS
  <2>2. session' = [session EXCEPT ![p] = t] /\ UNCHANGED <<passwords, plain, calm, truth>>
    BY <1>0, <1>1, <1>4, <2>1 DEF Begin
  <2>3. t \in Process /\ t.out = s.out /\ t.pc = "open" /\ t.op = op
    BY <1>2, <2>1 DEF Process
  <2>4. op # NoOperation
    BY Operations DEF LoginOp, NoOperation
  <2>5. Standing(t)
    BY <1>2, <1>4, <2>3, <2>4, Operations DEF Standing
  <2> QED BY <1>3, <2>2, <2>3, <2>5
<1>5. CASE Command(p)
  BY <1>1, <1>4, <1>5, Operations DEF Command
<1>6. CASE LoginSim(p)
  BY <1>1, <1>4, <1>6, Operations DEF LoginSim
<1>7. CASE Select(p)
  BY <1>1, <1>4, <1>7, Operations DEF Select
<1>8. CASE Login(p)
  <2>1. Begin(p, LoginOp) /\ s.pc = "off"
    BY <1>1, <1>8 DEF Login, LoginOp
  <2> QED BY <1>4, <2>1
<1>9. CASE Menu(p)
  <2>1. PICK t : t = [s EXCEPT !.pc = "menu", !.menu = TRUE]
    OBVIOUS
  <2>2. session' = [session EXCEPT ![p] = t] /\ UNCHANGED <<passwords, plain, calm, truth>> /\ s.pc = "off"
    BY <1>0, <1>1, <1>9, <2>1 DEF Menu
  <2>3. t \in Process /\ t.out = s.out /\ t.pc = "menu" /\ t.op = s.op
    BY <1>2, <2>1 DEF Process
  <2>4. Standing(t)
    BY <1>2, <2>2, <2>3 DEF Standing
  <2> QED BY <1>3, <2>2, <2>3, <2>4
<1>10. CASE LeaveMenu(p)
  <2>1. PICK t : t = [s EXCEPT !.pc = "exit"]
    OBVIOUS
  <2>2. session' = [session EXCEPT ![p] = t] /\ UNCHANGED <<passwords, plain, calm, truth>>
    BY <1>0, <1>1, <1>10, <2>1 DEF LeaveMenu
  <2>3. t \in Process /\ t.out = s.out /\ t.pc = "exit" /\ t.op = s.op
    BY <1>2, <2>1 DEF Process
  <2>4. Standing(t)
    BY <1>2, <2>3 DEF Standing
  <2> QED BY <1>3, <2>2, <2>3, <2>4
<1>11. CASE LoadList(p)
  <2>1. PICK list : list = LoginList(ToUserList(passwords))
    OBVIOUS
  <2>2. PICK t : t = [s EXCEPT !.pc = "try", !.users = list]
    OBVIOUS
  <2>3. session' = [session EXCEPT ![p] = t] /\ UNCHANGED <<passwords, plain, calm, truth>>
    BY <1>0, <1>1, <1>11, <2>1, <2>2 DEF LoadList
  <2>4. s.pc = "open" /\ s.op.kind = "login" /\ passwords # Absent
    BY <1>1, <1>11 DEF LoadList
  <2>5. PICK all : all = ToUserList(passwords) /\ all \in Seq(PlainUser)
    BY <1>0, <2>4, ReadTable DEF PassTyped
  <2>6. list \in Seq(PlainUser)
    <3>1. CASE Len(all) > Linked
      <4>0. Linked \in Int /\ Len(all) \in Nat
        BY <2>5, PassAssumption, LenProperties
      <4>1. \A i \in 1..Linked : all[i] \in PlainUser
        BY <2>5, <3>1, <4>0, ElementOfSeq
      <4>2. SubSeq(all, 1, Linked) \in Seq(PlainUser)
        BY <4>0, <4>1, SubSeqProperties
      <4> QED BY <2>1, <2>5, <3>1, <4>2 DEF LoginList
    <3>2. CASE ~(Len(all) > Linked)
      BY <2>1, <2>5, <3>2 DEF LoginList
    <3> QED BY <3>1, <3>2
  <2>7. t \in Process /\ t.out = s.out /\ t.pc = "try" /\ t.op = s.op
    BY <1>2, <2>2, <2>6 DEF Process
  <2>8. s.op = LoginOp
    <3>1. s.op \in Operation \cup {NoOperation, LoginOp}
      BY <1>2 DEF Process
    <3>2. NoOperation.kind # "login"
      BY DEF NoOperation
    <3>3. s.op \notin Operation
      BY <2>4, Operations DEF Kinds
    <3> QED BY <2>4, <3>1, <3>2, <3>3
  <2>9. Standing(t)
    BY <1>2, <2>7, <2>8 DEF Standing
  <2> QED BY <1>3, <2>3, <2>7, <2>9
<1>12. CASE Missing(p)
  <2>1. PICK t : t = [s EXCEPT !.pc = "create"]
    OBVIOUS
  <2>2. session' = [session EXCEPT ![p] = t] /\ UNCHANGED <<passwords, plain, calm, truth>> /\ s.pc = "open"
    BY <1>0, <1>1, <1>12, <2>1 DEF Missing
  <2>3. t \in Process /\ t.out = s.out /\ t.pc = "create" /\ t.op = s.op
    BY <1>2, <2>1 DEF Process
  <2>4. Standing(t)
    BY <1>2, <2>2, <2>3 DEF Standing
  <2> QED BY <1>3, <2>2, <2>3, <2>4
<1>13. Returned(s) \in Process /\ Returned(s).out = s.out /\ Returned(s).op = NoOperation
       /\ Returned(s).pc \in {"menu", "exit"}
  <2>1. <<>> \in Seq(PlainUser) /\ s.menu \in BOOLEAN
    BY <1>2, EmptySeq DEF Process
  <2> QED BY <1>2, <2>1 DEF Returned, Process
<1>14. NoOperation # LoginOp
  BY DEF NoOperation, LoginOp
<1>15. CASE Refuse(p)
  <2>1. session' = [session EXCEPT ![p] = Returned(s)] /\ UNCHANGED <<passwords, plain, calm, truth>>
    BY <1>1, <1>15 DEF Refuse
  <2>2. Standing(Returned(s))
    BY <1>13, <1>14 DEF Standing
  <2> QED BY <1>3, <1>13, <2>1, <2>2
<1>16. CASE Verify(p)
  <2>1. PICK t : t = [Returned(s) EXCEPT !.pc = "exit"]
    OBVIOUS
  <2>2. session' = [session EXCEPT ![p] = t] /\ UNCHANGED <<passwords, plain, calm, truth>>
    BY <1>1, <1>16, <2>1 DEF Verify
  <2>3. t \in Process /\ t.out = s.out /\ t.pc = "exit" /\ t.op = NoOperation
    BY <1>13, <2>1 DEF Process
  <2>4. Standing(t)
    BY <1>14, <2>3 DEF Standing
  <2> QED BY <1>3, <2>2, <2>3, <2>4
<1>17. Off \in Process /\ Off.out = <<>> /\ Off.pc = "off" /\ Off.op = NoOperation
  BY DEF Off, Process
<1>18. CASE Exit(p)
  <2>1. session' = [session EXCEPT ![p] = Off] /\ UNCHANGED <<passwords, plain, calm, truth>> /\ s.out = <<>>
    BY <1>1, <1>18 DEF Exit, Unflushed
  <2>2. Standing(Off)
    BY <1>14, <1>17 DEF Standing
  <2> QED BY <1>3, <1>17, <2>1, <2>2
<1>19. ASSUME NEW user \in User, Try(p, user) PROVE PassInv'
  <2>1. PICK t : t \in {[Off EXCEPT !.pc = "exit"], [s EXCEPT !.tries = @ + 1]}
                 /\ session' = [session EXCEPT ![p] = t] /\ UNCHANGED <<passwords, plain, calm, truth>>
    BY <1>1, <1>19 DEF Try
  <2>2. s.pc = "try" /\ s.out = <<>>
    BY <1>1, <1>2, <1>19 DEF Try, Standing
  <2>3. CASE t = [Off EXCEPT !.pc = "exit"]
    <3>1. t \in Process /\ t.out = s.out /\ t.pc = "exit" /\ t.op = NoOperation
      BY <1>17, <2>2, <2>3 DEF Process
    <3>2. Standing(t)
      BY <1>14, <3>1 DEF Standing
    <3> QED BY <1>3, <2>1, <3>1, <3>2
  <2>4. CASE t = [s EXCEPT !.tries = @ + 1]
    <3>1. t \in Process /\ t.out = s.out /\ t.pc = "try" /\ t.op = s.op
      BY <1>2, <2>2, <2>4 DEF Process
    <3>2. Standing(t)
      BY <2>2, <3>1 DEF Standing
    <3> QED BY <1>3, <2>1, <3>1, <3>2
  <2> QED BY <2>1, <2>3, <2>4
<1> QED BY <1>5, <1>6, <1>7, <1>8, <1>9, <1>10, <1>11, <1>12, <1>15, <1>16, <1>18, <1>19

(* A table is loaded, as it is in the file or as if it were empty. *)
LEMMA LoadKeeps == ASSUME PassInv, NEW p \in Session, Load(p) PROVE PassInv'
<1>0. /\ PassTyped /\ GoodTables /\ CalmTables
      /\ session \in [Session -> Process] /\ session[p] \in Process /\ Standing(session[p])
  BY DEF PassInv, PassTyped
<1>1. PICK s, all : s = session[p] /\ all = ToUserList(passwords)
  OBVIOUS
<1>2. PICK seen, old : /\ seen \in {all, <<>>} /\ old = (seen # all \/ \E q \in Session : Unflushed(q))
                       /\ session' = [session EXCEPT ![p].pc = "change", ![p].users = seen, ![p].stale = old]
  BY <1>1 DEF Load
<1>3. /\ s.pc = "open" /\ s.op.kind # "login" /\ passwords # Absent
      /\ UNCHANGED <<passwords, plain, calm, truth>>
  BY <1>1 DEF Load
<1>4. PICK t : t = [s EXCEPT !.pc = "change", !.users = seen, !.stale = old]
  OBVIOUS
<1>5. session' = [session EXCEPT ![p] = t]
  BY <1>0, <1>1, <1>2, <1>4
<1>6. passwords \in Seq(Row) /\ all \in Seq(PlainUser) /\ seen \in Seq(PlainUser) /\ old \in BOOLEAN
  <2>1. passwords \in Seq(Row)
    BY <1>0, <1>3 DEF PassTyped
  <2>2. all \in Seq(PlainUser) /\ <<>> \in Seq(PlainUser)
    BY <1>1, <2>1, ReadTable, EmptySeq
  <2> QED BY <1>2, <2>1, <2>2
<1>7. t \in Process /\ t.pc = "change" /\ t.users = seen /\ t.stale = old /\ t.out = s.out /\ t.op = s.op
  BY <1>0, <1>1, <1>4, <1>6 DEF Process
<1>8. s.op \in Operation
  <2>1. s.op \in Operation \cup {NoOperation, LoginOp} /\ s.op # NoOperation
    BY <1>0, <1>1, <1>3 DEF Process, Standing
  <2>2. LoginOp.kind = "login"
    BY DEF LoginOp, NoOperation
  <2> QED BY <1>3, <2>1, <2>2
<1>9. Standing(t)
  <2>1. s.op # NoOperation /\ s.op # LoginOp
    BY <1>8, Operations
  <2> QED BY <1>7, <1>8, <2>1 DEF Standing
<1>10. session'[p] = t /\ session' \in [Session -> Process] /\ \A q \in Session : q # p => session'[q] = session[q]
  BY <1>0, <1>5, <1>7
<1>11. \A q \in Session : session'[q].out = session[q].out
  BY <1>1, <1>7, <1>10
<1>12. PassTyped'
  <2>1. \A q \in Session : Standing(session'[q])
    BY <1>0, <1>9, <1>10 DEF PassTyped
  <2> QED BY <1>0, <1>3, <1>10, <2>1 DEF PassTyped
<1>13. GoodTables'
  <2>1. ASSUME plain PROVE Good(seen)
    BY <1>0, <1>1, <1>2, <1>3, <2>1, EmptyTable DEF GoodTables
  <2>2. \A q \in Session : session'[q].pc = "change" => (q = p /\ session'[q].users = seen) \/ session'[q] = session[q]
    BY <1>7, <1>10
  <2> QED BY <1>0, <1>3, <1>11, <2>1, <2>2 DEF GoodTables
<1>14. CalmTables'
  <2>1. \A q \in Session : Unflushed(q)' = Unflushed(q)
    BY <1>11 DEF Unflushed
  <2>2. ASSUME calm, ~old PROVE (\A q \in Session : ~Unflushed(q)) /\ TableOf(seen, truth)
    <3>1. seen = all /\ \A q \in Session : ~Unflushed(q)
      BY <1>2, <2>2
    <3>2. TableOf(all, truth)
      BY <1>0, <1>1, <1>3, <2>2, <3>1 DEF CalmTables
    <3> QED BY <3>1, <3>2
  <2>3. \A q \in Session : session'[q].pc = "change" =>
            (q = p /\ session'[q].users = seen /\ session'[q].stale = old) \/ session'[q] = session[q]
    BY <1>7, <1>10
  <2> QED BY <1>0, <1>3, <1>11, <2>1, <2>2, <2>3 DEF CalmTables
<1> QED BY <1>12, <1>13, <1>14 DEF PassInv

(* A file is created; it is calm as long as nothing was in it. *)
LEMMA CreateKeeps == ASSUME PassInv, NEW p \in Session, Create(p) PROVE PassInv'
<1>0. /\ PassTyped /\ GoodTables /\ CalmTables
      /\ session \in [Session -> Process] /\ session[p] \in Process /\ Standing(session[p])
  BY DEF PassInv, PassTyped
<1>1. PICK s, t : s = session[p] /\ t = [s EXCEPT !.pc = "open"]
  OBVIOUS
<1>2. /\ s.pc = "create" /\ passwords' = <<>> /\ calm' = (calm /\ passwords \in {Absent, <<>>})
      /\ session' = [session EXCEPT ![p] = t] /\ UNCHANGED <<plain, truth>>
  BY <1>0, <1>1 DEF Create
<1>3. t \in Process /\ t.pc = "open" /\ t.out = s.out /\ t.op = s.op
  BY <1>0, <1>1 DEF Process
<1>4. Standing(t)
  BY <1>0, <1>1, <1>2, <1>3 DEF Standing
<1>5. session'[p] = t /\ session' \in [Session -> Process] /\ \A q \in Session : q # p => session'[q] = session[q]
  BY <1>0, <1>2, <1>3
<1>6. \A q \in Session : session'[q].out = session[q].out /\ (session'[q].pc = "change" => session'[q] = session[q])
  BY <1>1, <1>3, <1>5
<1>7. PassTyped'
  <2>1. \A q \in Session : Standing(session'[q])
    BY <1>0, <1>4, <1>5 DEF PassTyped
  <2>2. calm' \in BOOLEAN /\ plain' \in BOOLEAN
    BY <1>0, <1>2 DEF PassTyped
  <2>3. passwords' \in Seq(Row) \cup {Absent}
    BY <1>2, EmptyTable
  <2> QED BY <1>5, <2>1, <2>2, <2>3 DEF PassTyped
<1>8. GoodTables'
  <2>1. Good(ToUserList(passwords'))
    BY <1>2, EmptyTable
  <2> QED BY <1>0, <1>2, <1>6, <2>1 DEF GoodTables
<1>9. CalmTables'
  <2>1. \A q \in Session : Unflushed(q)' = Unflushed(q)
    BY <1>6 DEF Unflushed
  <2> SUFFICES ASSUME calm' PROVE CalmTables'
    BY DEF CalmTables
  <2>2. calm /\ passwords \in {Absent, <<>>}
    BY <1>2
  <2>3. ASSUME \A q \in Session : ~Unflushed(q) PROVE passwords' # Absent /\ TableOf(ToUserList(passwords'), truth)
    <3>1. CASE passwords = Absent
      <4>1. truth = {}
        BY <1>0, <2>2, <2>3, <3>1 DEF CalmTables
      <4> QED BY <1>2, <4>1, EmptyTable
    <3>2. CASE passwords = <<>>
      BY <1>0, <1>2, <2>2, <2>3, <3>2, EmptyTable DEF CalmTables
    <3> QED BY <2>2, <3>1, <3>2
  <2> QED BY <1>0, <1>2, <1>6, <2>1, <2>2, <2>3 DEF CalmTables
<1> QED BY <1>7, <1>8, <1>9 DEF PassInv

(* A process is killed; it is calm as long as it had nothing to flush. *)
LEMMA KillCalms == ASSUME PassInv, NEW p \in Session, Kill(p) PROVE PassInv'
<1>0. /\ PassTyped /\ GoodTables /\ CalmTables
      /\ session \in [Session -> Process] /\ session[p] \in Process /\ Standing(session[p])
  BY DEF PassInv, PassTyped
<1>1. /\ calm' = (calm /\ ~Unflushed(p)) /\ truth' = (IF calm' THEN truth ELSE {})
      /\ session' = [session EXCEPT ![p] = Off] /\ UNCHANGED <<passwords, plain>>
  BY DEF Kill
<1>2. Off \in Process /\ Off.out = <<>> /\ Off.pc = "off" /\ Off.op = NoOperation /\ NoOperation # LoginOp
  BY DEF Off, Process, NoOperation, LoginOp
<1>3. session'[p] = Off /\ session' \in [Session -> Process] /\ \A q \in Session : q # p => session'[q] = session[q]
  BY <1>0, <1>1, <1>2
<1>4. PassTyped'
  <2>1. Standing(Off)
    BY <1>2 DEF Standing
  <2>2. \A q \in Session : Standing(session'[q])
    BY <1>0, <1>3, <2>1 DEF PassTyped
  <2>3. calm' \in BOOLEAN /\ plain' \in BOOLEAN /\ passwords' \in Seq(Row) \cup {Absent}
    BY <1>0, <1>1 DEF PassTyped
  <2> QED BY <1>3, <2>2, <2>3 DEF PassTyped
<1>5. GoodTables'
  <2>1. \A k : k \notin DOMAIN Off.out
    BY <1>2
  <2>2. \A q \in Session : q = p \/ session'[q] = session[q]
    BY <1>3
  <2> QED BY <1>0, <1>1, <1>2, <1>3, <2>1, <2>2 DEF GoodTables
<1>6. CalmTables'
  <2> SUFFICES ASSUME calm' PROVE CalmTables'
    BY DEF CalmTables
  <2>1. calm /\ ~Unflushed(p) /\ truth' = truth /\ passwords' = passwords
    BY <1>1
  <2>2. \A q \in Session : session'[q].out = session[q].out
    BY <1>2, <1>3, <2>1 DEF Unflushed
  <2>3. \A q \in Session : Unflushed(q)' = Unflushed(q)
    BY <2>2 DEF Unflushed
  <2>4. \A q \in Session : session'[q].pc = "change" => session'[q] = session[q]
    BY <1>2, <1>3
  <2> QED BY <1>0, <2>1, <2>2, <2>3, <2>4 DEF CalmTables
<1> QED BY <1>4, <1>5, <1>6 DEF PassInv

(* The sessions after a step of p that makes the tables of the others old *)
LEMMA OthersOutdated ==
    ASSUME PassTyped, NEW p \in Session, NEW t \in Process, session' = [Outdated(p) EXCEPT ![p] = t]
    PROVE  /\ session' \in [Session -> Process] /\ session'[p] = t
           /\ \A q \in Session : q # p =>
                 /\ session'[q].pc = session[q].pc /\ session'[q].op = session[q].op
                 /\ session'[q].out = session[q].out /\ session'[q].users = session[q].users
                 /\ session'[q].pc = "change" => session'[q].stale
<1>0. session \in [Session -> Process]
  BY DEF PassTyped
<1>1. PICK O : O = [q \in Session |-> [session[q] EXCEPT !.stale = (q # p /\ session[q].pc = "change") \/ @]]
  OBVIOUS
<1>2. session' = [O EXCEPT ![p] = t]
  BY <1>1 DEF Outdated
<1>3. ASSUME NEW q \in Session
      PROVE  /\ O[q] \in Process
             /\ O[q].pc = session[q].pc /\ O[q].op = session[q].op
             /\ O[q].out = session[q].out /\ O[q].users = session[q].users
             /\ q # p /\ O[q].pc = "change" => O[q].stale
  <2>1. PICK s, old : s = session[q] /\ old = ((q # p /\ session[q].pc = "change") \/ session[q].stale)
    OBVIOUS
  <2>2. O[q] = [s EXCEPT !.stale = old]
    BY <1>1, <2>1
  <2>3. s \in Process /\ old \in BOOLEAN
    BY <1>0, <2>1 DEF Process
  <2>4. /\ O[q] \in Process /\ O[q].pc = s.pc /\ O[q].op = s.op
        /\ O[q].out = s.out /\ O[q].users = s.users /\ O[q].stale = old
    BY <2>2, <2>3 DEF Process
  <2> QED BY <2>1, <2>4
<1>4. O \in [Session -> Process]
  <2>1. \A q \in Session : O[q] \in Process
    BY <1>3
  <2>2. DOMAIN O = Session /\ O = [q \in Session |-> O[q]]
    BY <1>1
  <2> QED BY <2>1, <2>2
<1>5. session' \in [Session -> Process] /\ session'[p] = t /\ \A q \in Session : q # p => session'[q] = O[q]
  BY <1>2, <1>4
<1> QED BY <1>3, <1>5

(* One element of what Removing leaves. *)
LEMMA AfterRemoving ==
    ASSUME NEW S, NEW s \in Seq(S), NEW k \in 1..Len(s), NEW i \in 1..(Len(s) - 1)
    PROVE  RemoveAt(s, k)[i] = IF i < k THEN s[i] ELSE s[i + 1]
<1>1. PICK n \in Nat : n = Len(s)
  BY LenProperties
<1>2. k \in 1..n /\ i \in 1..(n - 1)
  BY <1>1
<1>3. \A j \in 1..(n - 1) : RemoveAt(s, k)[j] = IF j < k THEN s[j] ELSE s[j + 1]
  BY <1>1, <1>2, Removing
<1> QED BY <1>2, <1>3

(* A stream is flushed. *)
LEMMA FlushKeeps == ASSUME PassInv, NEW p \in Session, Flush(p) PROVE PassInv'
<1>0. /\ PassTyped /\ GoodTables /\ CalmTables
      /\ session \in [Session -> Process] /\ session[p] \in Process /\ Standing(session[p])
  BY DEF PassInv, PassTyped
<1>1. PICK s, out : s = session[p] /\ out = s.out
  OBVIOUS
<1>2. PICK k \in DOMAIN out : /\ passwords' = out[k]
                              /\ session' = [Outdated(p) EXCEPT ![p].out = RemoveAt(out, k)]
  BY <1>1 DEF Flush
<1>3. s.pc = "exit" /\ UNCHANGED <<plain, calm, truth>>
  BY <1>1 DEF Flush
<1>4. PICK n \in Nat : n = Len(out) /\ DOMAIN out = 1..n /\ out \in Seq(Seq(Row)) /\ k \in 1..n
  <2>1. out \in Seq(Seq(Row))
    BY <1>0, <1>1 DEF Process
  <2> QED BY <1>2, <2>1, LenProperties
<1>5. PICK rest : rest = RemoveAt(out, k)
  OBVIOUS
<1>6. /\ rest \in Seq(Seq(Row)) /\ Len(rest) = n - 1 /\ DOMAIN rest = 1..(n - 1)
      /\ \A i \in 1..(n - 1) : rest[i] = IF i < k THEN out[i] ELSE out[i + 1]
  <2>1. rest \in Seq(Seq(Row)) /\ Len(rest) = n - 1
    <3>1. RemoveAt(out, k) \in Seq(Seq(Row)) /\ Len(RemoveAt(out, k)) = n - 1
      BY ONLY <1>4, Removing
    <3> QED BY ONLY <1>5, <3>1
  <2>2. ASSUME NEW i \in 1..(n - 1) PROVE rest[i] = IF i < k THEN out[i] ELSE out[i + 1]
    <3>1. RemoveAt(out, k)[i] = IF i < k THEN out[i] ELSE out[i + 1]
      <4>1. out \in Seq(Seq(Row)) /\ k \in 1..Len(out) /\ i \in 1..(Len(out) - 1)
        BY <1>4
      <4> QED BY ONLY <4>1, AfterRemoving
    <3> QED BY ONLY <1>5, <3>1
  <2> QED BY <2>1, <2>2, LenProperties
<1>7. PICK t : t = [s EXCEPT !.out = rest]
  OBVIOUS
<1>8. t \in Process /\ t.out = rest /\ t.pc = "exit" /\ t.op = s.op
  BY <1>0, <1>1, <1>3, <1>6, <1>7 DEF Process
<1>9. session' = [Outdated(p) EXCEPT ![p] = t]
  <2>1. Outdated(p) = [q \in Session |-> [session[q] EXCEPT !.stale = (q # p /\ session[q].pc = "change") \/ @]]
    BY DEF Outdated
  <2>2. Outdated(p)[p] = [s EXCEPT !.stale = (p # p /\ s.pc = "change") \/ @]
    BY <1>1, <2>1
  <2>3. ((p # p /\ s.pc = "change") \/ s.stale) = s.stale
    BY <1>0, <1>1 DEF Process
  <2>4. Outdated(p)[p] = s
    BY <1>0, <1>1, <2>2, <2>3 DEF Process
  <2> QED BY <1>2, <1>5, <1>7, <2>4
<1>10. /\ session' \in [Session -> Process] /\ session'[p] = t
       /\ \A q \in Session : q # p =>
             /\ session'[q].pc = session[q].pc /\ session'[q].op = session[q].op
             /\ session'[q].out = session[q].out /\ session'[q].users = session[q].users
             /\ session'[q].pc = "change" => session'[q].stale
  BY <1>0, <1>8, <1>9, OthersOutdated
<1>11. passwords' \in Seq(Row) /\ passwords' # Absent
  <2>1. passwords' \in Seq(Row)
    BY <1>2, <1>4, ElementOfSeq
  <2>2. Absent \notin Seq(Row)
    <3>1. Absent = <<<<>>>> /\ Len(Absent) = 1 /\ Absent[1] = <<>> /\ 1 \in 1..1
      BY DEF Absent
    <3>2. ASSUME Absent \in Seq(Row) PROVE <<>> \in Row
      BY <3>1, <3>2, ElementOfSeq
    <3>3. Len(<<>>) = 0
      OBVIOUS
    <3> QED BY <3>2, <3>3 DEF Row
  <2> QED BY <2>1, <2>2
<1>12. PassTyped'
  <2>1. Standing(t)
    <3>1. s.op # LoginOp
      BY <1>0, <1>1, <1>4 DEF Standing
    <3> QED BY <1>8, <3>1 DEF Standing
  <2>2. \A q \in Session : Standing(session'[q])
    BY <1>0, <1>10, <2>1 DEF PassTyped, Standing
  <2> QED BY <1>0, <1>3, <1>10, <1>11, <2>2 DEF PassTyped
<1>13. GoodTables'
  <2> SUFFICES ASSUME plain PROVE GoodTables'
    BY <1>3 DEF GoodTables
  <2>1. \A i \in 1..n : Good(ToUserList(out[i]))
    BY <1>0, <1>1, <1>4 DEF GoodTables
  <2>2. Good(ToUserList(passwords'))
    BY <1>2, <1>4, <2>1
  <2>3. ASSUME NEW i \in DOMAIN rest PROVE Good(ToUserList(rest[i]))
    <3>1. i \in 1..(n - 1) /\ i \in 1..n /\ i + 1 \in 1..n
      BY <1>6
    <3> QED BY <1>6, <2>1, <3>1
  <2> QED BY <1>0, <1>8, <1>10, <2>2, <2>3 DEF GoodTables
<1>14. CalmTables'
  <2> SUFFICES ASSUME calm PROVE CalmTables'
    BY <1>3 DEF CalmTables
  <2>1. Unflushed(p)
    <3>1. Len(<<>>) = 0
      OBVIOUS
    <3> QED BY <1>1, <1>4, <3>1 DEF Unflushed
  <2>2. n = 1 /\ TableOf(ToUserList(out[1]), truth) /\ \A q \in Session : Unflushed(q) => q = p
    BY <1>0, <1>1, <1>4, <2>1 DEF CalmTables
  <2>3. k = 1 /\ rest = <<>>
    BY <1>4, <1>6, <2>2, EmptySeq
  <2>4. \A q \in Session : ~Unflushed(q)'
    BY <1>8, <1>10, <2>2, <2>3 DEF Unflushed
  <2>5. TableOf(ToUserList(passwords'), truth')
    BY <1>2, <1>3, <2>2, <2>3
  <2>6. \A q \in Session : session'[q].pc = "change" => session'[q].stale
    BY <1>8, <1>10
  <2> QED BY <1>11, <2>4, <2>5, <2>6 DEF CalmTables
<1> QED BY <1>12, <1>13, <1>14 DEF PassInv

(* A table is written: the next one that is made of one that was good. *)
LEMMA RewriteKeeps == ASSUME PassInv, NEW p \in Session, Rewrite(p) PROVE PassInv'
<1>0. /\ PassTyped /\ GoodTables /\ CalmTables
      /\ session \in [Session -> Process] /\ session[p] \in Process /\ Standing(session[p])
  BY DEF PassInv, PassTyped
<1>1. PICK s, op, T, out : s = session[p] /\ op = s.op /\ T = s.users /\ out = s.out
  OBVIOUS
<1>2. PICK U \in Results(T, op) :
          session' = [Outdated(p) EXCEPT ![p] = [Returned(s) EXCEPT !.out = Append(@, ToMatrix(U))]]
  BY <1>1 DEF Rewrite
<1>3. /\ s.pc = "change" /\ passwords' = <<>> /\ plain' = (plain /\ ~HasComma(op))
      /\ calm' = (calm /\ ~s.stale /\ ~HasComma(op) /\ (op.kind = "add" => Len(T) < Shift))
      /\ truth' = IF calm' THEN Promise(truth, op) ELSE {}
  BY <1>1 DEF Rewrite
<1>4. /\ op \in Operation /\ op.kind \in Kinds /\ NewIn(op, AnyUser)
      /\ ~HasComma(op) => NewIn(op, PlainUser)
  BY <1>0, <1>1, <1>3, Operations DEF Standing
<1>5. T \in Seq(PlainUser) /\ out \in Seq(Seq(Row))
  BY <1>0, <1>1 DEF Process
<1>6. U \in Seq(AnyUser)
  <2>1. T \in Seq(AnyUser) /\ JunkUser \in AnyUser
    <3>1. \A i \in 1..Len(T) : T[i] \in AnyUser
      BY <1>5, PlainIsUser, ElementOfSeq
    <3>2. T \in [1..Len(T) -> AnyUser] /\ Len(T) \in Nat
      BY <1>5, <3>1, LenProperties
    <3> QED BY <3>2, PlainIsUser, IsASeq
  <2> QED BY <1>2, <1>4, <2>1, ResultTyped
<1>7. PICK M : M = ToMatrix(U) /\ M \in Seq(Row)
  BY <1>6, WrittenTable
<1>8. PICK n \in Nat : n = Len(out) /\ DOMAIN out = 1..n
  BY <1>5, LenProperties
<1>9. PICK more : more = Append(out, M)
  OBVIOUS
<1>10. /\ more \in Seq(Seq(Row)) /\ Len(more) = n + 1 /\ DOMAIN more = 1..(n + 1)
       /\ more[n + 1] = M /\ \A i \in 1..n : more[i] = out[i]
  <2>1. /\ more \in Seq(Seq(Row)) /\ Len(more) = n + 1
        /\ more[n + 1] = M /\ \A i \in 1..n : more[i] = out[i]
    BY <1>5, <1>7, <1>8, <1>9, AppendProperties
  <2> QED BY <2>1, LenProperties
<1>11. PICK t : t = [Returned(s) EXCEPT !.out = Append(@, M)]
  OBVIOUS
<1>12. t \in Process /\ t.out = more /\ t.op = NoOperation /\ t.pc \in {"menu", "exit"}
  <2>1. <<>> \in Seq(PlainUser) /\ s.menu \in BOOLEAN
    BY <1>0, <1>1, EmptySeq DEF Process
  <2>2. /\ Returned(s) \in Process /\ Returned(s).out = out /\ Returned(s).op = NoOperation
        /\ Returned(s).pc \in {"menu", "exit"}
    BY <1>0, <1>1, <2>1 DEF Returned, Process
  <2>3. t = [Returned(s) EXCEPT !.out = more]
    BY <1>9, <1>11, <2>2 DEF Process
  <2> QED BY <1>10, <2>2, <2>3 DEF Process
<1>13. /\ session' \in [Session -> Process] /\ session'[p] = t
       /\ \A q \in Session : q # p =>
             /\ session'[q].pc = session[q].pc /\ session'[q].op = session[q].op
             /\ session'[q].out = session[q].out /\ session'[q].users = session[q].users
             /\ session'[q].pc = "change" => session'[q].stale
  <2>1. session' = [Outdated(p) EXCEPT ![p] = t]
    BY <1>2, <1>7, <1>11
  <2> QED BY <1>0, <1>12, <2>1, OthersOutdated
<1>14. PassTyped'
  <2>1. Standing(t)
    <3>1. NoOperation # LoginOp
      BY DEF NoOperation, LoginOp
    <3> QED BY <1>12, <3>1 DEF Standing
  <2>2. \A q \in Session : Standing(session'[q])
    BY <1>0, <1>13, <2>1 DEF PassTyped, Standing
  <2>3. calm' \in BOOLEAN /\ plain' \in BOOLEAN /\ passwords' \in Seq(Row) \cup {Absent}
    BY <1>0, <1>3, EmptyTable DEF PassTyped
  <2> QED BY <1>13, <2>2, <2>3 DEF PassTyped
<1>15. GoodTables'
  <2> SUFFICES ASSUME plain' PROVE GoodTables'
    BY DEF GoodTables
  <2>1. plain /\ NewIn(op, PlainUser)
    BY <1>3, <1>4
  <2>2. Good(T)
    BY <1>0, <1>1, <1>3, <2>1 DEF GoodTables
  <2>3. Good(U)
    BY <1>2, <1>4, <2>1, <2>2, ResultGood
  <2>4. Good(ToUserList(M))
    <3>1. U \in Seq(PlainUser)
      BY <2>3 DEF Good
    <3>2. ToUserList(ToMatrix(U)) = U
      BY <3>1, SameTable
    <3> QED BY <1>7, <2>3, <3>2
  <2>5. \A i \in DOMAIN out : Good(ToUserList(out[i]))
    BY <1>0, <1>1, <2>1 DEF GoodTables
  <2>6. ASSUME NEW i \in DOMAIN more PROVE Good(ToUserList(more[i]))
    <3>1. i \in 1..n \/ i = n + 1
      BY <1>10
    <3> QED BY <1>8, <1>10, <2>4, <2>5, <3>1
  <2>7. Good(ToUserList(passwords'))
    BY <1>3, EmptyTable
  <2> QED BY <1>0, <1>12, <1>13, <2>1, <2>6, <2>7 DEF GoodTables
<1>16. CalmTables'
  <2> SUFFICES ASSUME calm' PROVE CalmTables'
    BY DEF CalmTables
  <2>1. calm /\ ~s.stale /\ NewIn(op, PlainUser) /\ (op.kind = "add" => Len(T) < Shift) /\ truth' = Promise(truth, op)
    BY <1>3, <1>4
  <2>2. (\A q \in Session : ~Unflushed(q)) /\ TableOf(T, truth)
    BY <1>0, <1>1, <1>3, <2>1 DEF CalmTables
  <2>3. Good(T) /\ Len(T) <= Shift /\ Users(T) = truth
    BY <2>2 DEF TableOf, Good, Users
  <2>4. Good(U) /\ Len(U) <= Shift /\ Users(U) = truth'
    <3>1. Good(U) /\ Len(U) <= Shift /\ Users(U) = Promise(Users(T), op)
      BY <1>2, <1>4, <2>1, <2>3, ResultPromised
    <3> QED BY <2>1, <2>3, <3>1
  <2>5. TableOf(U, truth')
    BY <2>4 DEF Good, Users, TableOf
  <2>6. ToUserList(M) = U
    <3>1. U \in Seq(PlainUser)
      BY <2>4 DEF Good
    <3> QED BY <1>7, <3>1, SameTable
  <2>7. n = 0 /\ Len(more) = 1 /\ more[1] = M
    <3>1. out = <<>>
      BY <1>1, <2>2 DEF Unflushed
    <3>2. n = 0
      BY <1>8, <3>1
    <3> QED BY <1>10, <3>2
  <2>8. \A q \in Session : q # p => ~Unflushed(q)'
    BY <1>13, <2>2 DEF Unflushed
  <2>9. Unflushed(p)'
    <3>1. Len(<<>>) = 0
      OBVIOUS
    <3>2. more # <<>>
      BY <2>7, <3>1
    <3>3. session'[p].out = more
      BY <1>12, <1>13
    <3> QED BY <3>2, <3>3 DEF Unflushed
  <2>10. \A q \in Session : session'[q].pc = "change" => session'[q].stale
    BY <1>12, <1>13
  <2>11. \A q \in Session : Unflushed(q)' =>
            /\ Len(session'[q].out) = 1 /\ TableOf(ToUserList(session'[q].out[1]), truth')
            /\ \A r \in Session : Unflushed(r)' => r = q
    BY <1>12, <1>13, <2>5, <2>6, <2>7, <2>8
  <2> QED BY <1>3, <2>9, <2>10, <2>11 DEF CalmTables
<1> QED BY <1>14, <1>15, <1>16 DEF PassInv

(* However the processes interleave, are killed or use the menu, with tables of any
   size: no name is in password.csv twice unless a text had a comma or the table has
   outgrown add and del, and as long as no change was lost or made to an old table the
   file holds what the changes make of an empty set of users one after the other. *)
THEOREM NamesAndChangesKept == PassSpec => []TableKept
<1>1. PassInv /\ [PassNext]_passVars => PassInv'
  <2> SUFFICES ASSUME PassInv, [PassNext]_passVars PROVE PassInv'
    OBVIOUS
  <2>1. CASE UNCHANGED passVars
    BY <2>1 DEF passVars, PassInv, PassTyped, GoodTables, CalmTables, Unflushed
  <2>2. ASSUME NEW p \in Session, SessionStep(p) PROVE PassInv'
    BY <2>2, QuietSteps, LoadKeeps, CreateKeeps, RewriteKeeps, FlushKeeps, KillCalms DEF SessionStep
  <2> QED BY <2>1, <2>2 DEF PassNext
<1>2. PassInv => TableKept
  <2> SUFFICES ASSUME PassInv PROVE TableKept
    OBVIOUS
  <2>0. PassTyped /\ GoodTables /\ CalmTables
    BY DEF PassInv
  <2>1. NamesUnique
    <3> SUFFICES ASSUME plain, passwords # Absent, Len(passwords) <= Shift,
                        NEW i \in DOMAIN passwords, NEW j \in DOMAIN passwords,
                        ToUserList(passwords)[i].name = ToUserList(passwords)[j].name
                 PROVE  i = j
      BY DEF NamesUnique
    <3>1. passwords \in Seq(Row) /\ Good(ToUserList(passwords))
      BY <2>0 DEF PassTyped, GoodTables
    <3>2. Len(ToUserList(passwords)) = Len(passwords) /\ DOMAIN passwords = 1..Len(passwords)
      BY <3>1, ReadTable
    <3> QED BY <3>1, <3>2 DEF Good, Distinct
  <2>2. SerialTable
    <3> SUFFICES ASSUME calm, \A p \in Session : ~Unflushed(p)
                 PROVE  truth = (IF passwords = Absent THEN {} ELSE ToSet(ToUserList(passwords)))
      BY DEF SerialTable
    <3>1. CASE passwords = Absent
      <4>1. ASSUME passwords # Absent PROVE FALSE
        BY <3>1, <4>1
      <4> QED BY <2>0, <3>1, <4>1 DEF CalmTables
    <3>2. CASE passwords # Absent
      <4>1. PICK T : T = ToUserList(passwords) /\ TableOf(T, truth)
        BY <2>0, <3>2 DEF CalmTables
      <4>2. DOMAIN T = 1..Len(T) /\ truth = {T[i] : i \in 1..Len(T)}
        BY <4>1, LenProperties DEF TableOf
      <4>3. ToSet(T) = truth
        BY <4>2 DEF ToSet
      <4> QED BY <3>2, <4>1, <4>3
    <3> QED BY <3>1, <3>2
  <2> QED BY <2>1, <2>2 DEF TableKept
<1> QED BY <1>1, <1>2, PassStarts, PTL DEF PassSpec

---------------------------------------------------------------------------------
(* Comp 409: parallel matching *)

(* The loop of getNextState, unrolled: one state after each character. *)
LEMMA ReadSteps ==
    ASSUME NEW state, NEW begin, NEW m \in Nat
    PROVE  \E f : /\ getNextState(state, begin, m) = f[m] /\ f[0] = state
                  /\ \A i \in 1..m : f[i] = Step(f[i - 1], string[begin + i])
<1> DEFINE Q(f, k) == f = [i \in 0..k |-> IF i = 0 THEN state
                                          ELSE Step(f[i - 1], string[begin + i])]
           S == {k \in Nat : \E f : Q(f, k)}
<1>1. 0 \in S
  <2>1. Q([i \in 0..0 |-> state], 0)
    OBVIOUS
  <2> QED BY <2>1
<1>2. ASSUME NEW k \in Nat, k \in S PROVE k + 1 \in S
  <2>1. PICK g : Q(g, k)
    BY <1>2
  <2> DEFINE G == [i \in 0..(k + 1) |-> IF i \in 0..k THEN g[i]
                                         ELSE Step(g[k], string[begin + i])]
  <2>2. (\A i \in 0..k : G[i] = g[i]) /\ G[k + 1] = Step(g[k], string[begin + (k + 1)])
    OBVIOUS
  <2>3. \A i \in 0..k : g[i] = IF i = 0 THEN state ELSE Step(g[i - 1], string[begin + i])
    BY <2>1
  <2> HIDE DEF Q
  <2>4. ASSUME NEW i \in 0..(k + 1)
        PROVE  G[i] = IF i = 0 THEN state ELSE Step(G[i - 1], string[begin + i])
    <3> HIDE DEF G
    <3>1. CASE i = 0
      BY <2>2, <2>3, <3>1
    <3>2. CASE i # 0 /\ i \in 0..k
      <4>1. i - 1 \in 0..k
        BY <3>2
      <4> QED BY <2>2, <2>3, <3>2, <4>1
    <3>3. CASE i = k + 1
      <4>1. i - 1 = k /\ k \in 0..k /\ i # 0
        BY <3>3
      <4> QED BY <2>2, <3>3, <4>1
    <3>4. i \in 0..k \/ i = k + 1
      OBVIOUS
    <3> QED BY <3>1, <3>2, <3>3, <3>4
  <2>5. Q(G, k + 1)
    <3>1. G = [i \in 0..(k + 1) |-> G[i]]
      OBVIOUS
    <3> HIDE DEF G
    <3> QED BY <2>4, <3>1 DEF Q
  <2> HIDE DEF G
  <2> QED BY <2>5
<1>3. Nat \subseteq S
  <2> HIDE DEF S
  <2> QED BY <1>1, <1>2, Induction
<1>4. \E f : Q(f, m)
  BY <1>3
<1>5. PICK f : f = CHOOSE x : Q(x, m)
  OBVIOUS
<1>6. Q(f, m)
  BY <1>4, <1>5
<1>7. getNextState(state, begin, m) = f[m]
  BY <1>5 DEF getNextState
<1>8. \A i \in 0..m : f[i] = IF i = 0 THEN state ELSE Step(f[i - 1], string[begin + i])
  BY <1>6
<1>9. f[0] = state /\ \A i \in 1..m : f[i] = Step(f[i - 1], string[begin + i])
  <2>1. 0 \in 0..m /\ \A i \in 1..m : i \in 0..m /\ i # 0
    OBVIOUS
  <2> QED BY <1>8, <2>1
<1> QED BY <1>7, <1>9

(* A character leads to one of the states behind the first, and from STATE4 nowhere. *)
LEMMA OneStep == \A s, c : Step(s, c) \in 1..4 /\ Step(STATE4, c) = STATE4
BY DEF Step, STATE4

LEMMA ReadType ==
    ASSUME NEW s \in State, NEW begin, NEW m \in Nat
    PROVE  getNextState(s, begin, m) \in State /\ (m # 0 => getNextState(s, begin, m) \in 1..4)
<1>1. PICK f : /\ getNextState(s, begin, m) = f[m] /\ f[0] = s
               /\ \A i \in 1..m : f[i] = Step(f[i - 1], string[begin + i])
  BY ONLY m \in Nat, ReadSteps
<1>2. m # 0 => m \in 1..m
  OBVIOUS
<1>3. m # 0 => f[m] \in 1..4
  BY <1>1, <1>2, OneStep
<1> QED BY <1>1, <1>3 DEF State

LEMMA ReadStuck ==
    ASSUME NEW begin, NEW m \in Nat
    PROVE  getNextState(STATE4, begin, m) = STATE4
<1>1. PICK f : /\ getNextState(STATE4, begin, m) = f[m] /\ f[0] = STATE4
               /\ \A i \in 1..m : f[i] = Step(f[i - 1], string[begin + i])
  BY ReadSteps
<1> DEFINE S == {i \in Nat : i <= m => f[i] = STATE4}
<1>2. 0 \in S
  BY <1>1
<1>3. ASSUME NEW i \in Nat, i \in S PROVE i + 1 \in S
  <2> SUFFICES ASSUME i + 1 <= m PROVE f[i + 1] = STATE4
    OBVIOUS
  <2>1. i + 1 \in 1..m /\ i + 1 - 1 = i /\ f[i] = STATE4
    BY <1>3
  <2> QED BY <1>1, <2>1, OneStep
<1>4. Nat \subseteq S
  <2> HIDE DEF S
  <2> QED BY <1>2, <1>3, Induction
<1> QED BY <1>1, <1>4

(* A piece that is read on after the beginning of the string. *)
LEMMA ReadOn ==
    ASSUME NEW m \in Nat, NEW r \in Nat
    PROVE  getNextState(getNextState(STATE0, 0, m), m, r) = getNextState(STATE0, 0, m + r)
<1>0. PICK n \in Nat : n = m + r
  OBVIOUS
<1>1. PICK f : /\ getNextState(STATE0, 0, n) = f[n] /\ f[0] = STATE0
               /\ \A i \in 1..n : f[i] = Step(f[i - 1], string[0 + i])
  BY ReadSteps
<1>2. PICK g : /\ getNextState(STATE0, 0, m) = g[m] /\ g[0] = STATE0
               /\ \A i \in 1..m : g[i] = Step(g[i - 1], string[0 + i])
  BY ReadSteps
<1>3. PICK h : /\ getNextState(g[m], m, r) = h[r] /\ h[0] = g[m]
               /\ \A i \in 1..r : h[i] = Step(h[i - 1], string[m + i])
  BY ReadSteps
<1> DEFINE S == {i \in Nat : i <= m => g[i] = f[i]}
           R == {i \in Nat : i <= r => h[i] = f[m + i]}
<1>4. 0 \in S
  BY <1>1, <1>2
<1>5. ASSUME NEW i \in Nat, i \in S PROVE i + 1 \in S
  <2> SUFFICES ASSUME i + 1 <= m PROVE g[i + 1] = f[i + 1]
    OBVIOUS
  <2>1. i + 1 \in 1..m /\ i + 1 \in 1..n /\ i + 1 - 1 = i /\ g[i] = f[i]
    BY <1>0, <1>5
  <2>2. PICK j : j = i + 1 /\ j \in 1..m /\ j \in 1..n /\ j - 1 = i
    BY <2>1
  <2>3. f[j] = Step(f[j - 1], string[0 + j])
    BY <1>1, <2>2
  <2>4. g[j] = Step(g[j - 1], string[0 + j])
    BY <1>2, <2>2
  <2> QED BY <2>1, <2>2, <2>3, <2>4
<1>6. Nat \subseteq S
  <2> HIDE DEF S
  <2> QED BY <1>4, <1>5, Induction
<1>7. 0 \in R
  <2>1. g[m] = f[m] /\ m + 0 = m
    BY <1>6
  <2> QED BY <1>3, <2>1
<1>8. ASSUME NEW i \in Nat, i \in R PROVE i + 1 \in R
  <2> SUFFICES ASSUME i + 1 <= r PROVE h[i + 1] = f[m + (i + 1)]
    OBVIOUS
  <2>1. /\ i + 1 \in 1..r /\ i + 1 - 1 = i /\ h[i] = f[m + i]
        /\ m + (i + 1) \in 1..n /\ m + (i + 1) - 1 = m + i
    BY <1>0, <1>8
  <2>2. m + (i + 1) = 0 + (m + (i + 1))
    OBVIOUS
  <2> QED BY <1>1, <1>3, <2>1, <2>2
<1>9. Nat \subseteq R
  <2> HIDE DEF R
  <2> QED BY <1>7, <1>8, Induction
<1>10. h[r] = f[m + r]
  BY <1>9
<1> QED BY <1>0, <1>1, <1>2, <1>3, <1>10

---------------------------------------------------------------------------------

LEMMA DivisionOf ==
    ASSUME NEW a \in Nat, NEW b \in Nat \ {0}
    PROVE  /\ a \div b \in Nat
           /\ \A l \in Nat : a <= l * b => a \div b <= l
<1>1. PICK q, r : q = a \div b /\ r = a % b
  OBVIOUS
<1>2. q \in Nat /\ r \in 0..(b - 1) /\ a = b * q + r
  BY <1>1
<1>3. ASSUME NEW l \in Nat, a <= l * b, q > l PROVE FALSE
  <2>1. PICK d \in Nat : q = l + 1 + d
    <3>1. q - l - 1 \in Nat /\ q = l + 1 + (q - l - 1)
      BY <1>2, <1>3
    <3> QED BY <3>1
  <2>2. b * q = l * b + b + b * d /\ b * d \in Nat /\ l * b \in Nat
    BY <2>1
  <2>3. PICK x \in Nat, y \in Nat : x = l * b /\ y = b * d
    BY <2>2
  <2>4. a = x + b + y + r /\ a <= x
    BY <1>2, <1>3, <2>2, <2>3
  <2> QED BY <1>2, <2>4
<1> QED BY <1>1, <1>2, <1>3

(* The parts: also what is left for the last thread is not less than nothing. *)
LEMMA PartTypes ==
    ASSUME Len(string) \in Nat, optimistic_thread \in Nat, NEW t \in 0..optimistic_thread
    PROVE  /\ StartOf(t) \in Nat /\ Remaining(t) \in Nat
           /\ t = optimistic_thread /\ t # 0 => StartOf(t) + Remaining(t) = Len(string)
<1>1. PICK l \in Nat, o \in Nat : l = Len(string) /\ o = optimistic_thread
  OBVIOUS
<1>2. thread_count - 1 = o /\ Part = o + 3
  BY <1>1 DEF thread_count, Part, ACTION_PER_OP_THREAD
<1>3. StartOf(t) \in Nat
  <2>1. l * (3 + t - 1) \in Nat /\ o + 3 \in Nat \ {0}
    BY <1>1
  <2>2. (l * (3 + t - 1)) \div (o + 3) \in Nat
    BY <2>1, DivisionOf
  <2> QED BY <1>1, <1>2, <2>2 DEF StartOf, ACTION_PER_OP_THREAD
<1>4. CASE t = 0
  <2>1. l * 3 \in Nat /\ o + 3 \in Nat \ {0}
    OBVIOUS
  <2>2. (l * 3) \div (o + 3) \in Nat
    BY <2>1, DivisionOf
  <2> QED BY <1>1, <1>2, <1>3, <1>4, <2>2 DEF Remaining, ACTION_PER_OP_THREAD
<1>5. CASE t # 0 /\ t # o
  <2>1. o + 3 \in Nat \ {0}
    OBVIOUS
  <2>2. l \div (o + 3) \in Nat
    BY <2>1, DivisionOf
  <2> QED BY <1>1, <1>2, <1>3, <1>5, <2>2 DEF Remaining
<1>6. CASE t # 0 /\ t = o
  <2>1. 3 + t - 1 = o + 2 /\ l * (o + 2) \in Nat /\ l * (o + 3) = l * (o + 2) + l /\ o + 3 \in Nat \ {0}
    BY <1>6
  <2>2. l * (o + 2) <= l * (o + 3)
    BY <2>1
  <2>3. (l * (o + 2)) \div (o + 3) <= l
    BY <2>1, <2>2, DivisionOf
  <2>4. StartOf(t) = (l * (o + 2)) \div (o + 3)
    BY <1>1, <1>2, <1>6, <2>1 DEF StartOf, ACTION_PER_OP_THREAD
  <2>5. Remaining(t) = l - StartOf(t)
    BY <1>1, <1>2, <1>6 DEF Remaining
  <2> QED BY <1>1, <1>3, <2>3, <2>4, <2>5
<1> QED BY <1>1, <1>4, <1>5, <1>6

(* What each thread has found, once it has ended. *)
MatchInv ==
    /\ Len(string) \in Nat /\ optimistic_thread \in Nat
    /\ reading \subseteq {0} \cup Others /\ answer \in {"none", "true", "false"}
    /\ outputs \in [Others -> [State -> State]]
    /\ current_state \in State
    /\ answer = "none" /\ 0 \notin reading => current_state = getNextState(STATE0, 0, Remaining(0))
    /\ \A t \in Others \ reading :
          /\ \A s \in 1..3 : outputs[t][s] = getNextState(s, StartOf(t), Remaining(t))
          /\ outputs[t][STATE4] = STATE4
    /\ answer # "none" => reading = {}
    /\ AsOneThread

(* The moves from map to map, and the loop unrolled. *)
Moves(o, first, maps) ==
    LET moved[t \in 0..o] == IF t = 0 THEN first ELSE maps[t][moved[t - 1]]
    IN  moved

LEMMA MoveSteps ==
    ASSUME NEW o \in Nat, NEW first, NEW maps
    PROVE  /\ Moves(o, first, maps)[0] = first
           /\ \A t \in 1..o : Moves(o, first, maps)[t] = maps[t][Moves(o, first, maps)[t - 1]]
<1> DEFINE Q(f, k) == f = [t \in 0..k |-> IF t = 0 THEN first ELSE maps[t][f[t - 1]]]
           S == {k \in Nat : \E f : Q(f, k)}
<1>1. 0 \in S
  <2>1. Q([t \in 0..0 |-> first], 0)
    OBVIOUS
  <2> QED BY <2>1
<1>2. ASSUME NEW k \in Nat, k \in S PROVE k + 1 \in S
  <2>1. PICK g : Q(g, k)
    BY <1>2
  <2> DEFINE G == [t \in 0..(k + 1) |-> IF t \in 0..k THEN g[t] ELSE maps[t][g[k]]]
  <2>2. (\A t \in 0..k : G[t] = g[t]) /\ G[k + 1] = maps[k + 1][g[k]]
    OBVIOUS
  <2>3. \A t \in 0..k : g[t] = IF t = 0 THEN first ELSE maps[t][g[t - 1]]
    BY <2>1
  <2> HIDE DEF Q
  <2>4. ASSUME NEW t \in 0..(k + 1) PROVE G[t] = IF t = 0 THEN first ELSE maps[t][G[t - 1]]
    <3> HIDE DEF G
    <3>1. CASE t = 0
      BY <2>2, <2>3, <3>1
    <3>2. CASE t # 0 /\ t \in 0..k
      <4>1. t - 1 \in 0..k
        BY <3>2
      <4> QED BY <2>2, <2>3, <3>2, <4>1
    <3>3. CASE t = k + 1
      <4>1. t - 1 = k /\ k \in 0..k /\ t # 0
        BY <3>3
      <4> QED BY <2>2, <3>3, <4>1
    <3>4. t \in 0..k \/ t = k + 1
      OBVIOUS
    <3> QED BY <3>1, <3>2, <3>3, <3>4
  <2>5. Q(G, k + 1)
    <3>1. G = [t \in 0..(k + 1) |-> G[t]]
      OBVIOUS
    <3> HIDE DEF G
    <3> QED BY <2>4, <3>1 DEF Q
  <2> HIDE DEF G
  <2> QED BY <2>5
<1>3. Nat \subseteq S
  <2> HIDE DEF S
  <2> QED BY <1>1, <1>2, Induction
<1>4. \E f : Q(f, o)
  BY <1>3
<1>5. PICK f : f = CHOOSE x : Q(x, o)
  OBVIOUS
<1>6. Q(f, o)
  BY <1>4, <1>5
<1>7. Moves(o, first, maps) = f
  BY <1>5 DEF Moves
<1>8. \A t \in 0..o : f[t] = IF t = 0 THEN first ELSE maps[t][f[t - 1]]
  BY <1>6
<1>9. f[0] = first /\ \A t \in 1..o : f[t] = maps[t][f[t - 1]]
  <2>1. 0 \in 0..o /\ \A t \in 1..o : t \in 0..o /\ t # 0
    OBVIOUS
  <2> QED BY <1>8, <2>1
<1> QED BY <1>7, <1>9

(* When all have ended: after t moves the state is that of one thread that has read
   the pieces of 0..t. *)
LEMMA MovesRead ==
    ASSUME MatchInv, reading = {}, answer = "none", AllRead, Remaining(0) > 0,
           NEW f, f[0] = current_state, \A t \in Others : f[t] = outputs[t][f[t - 1]]
    PROVE  \A t \in 0..optimistic_thread :
              f[t] = getNextState(STATE0, 0, StartOf(t) + Remaining(t)) /\ f[t] \in 1..4
<1>0. PICK o \in Nat : o = optimistic_thread /\ Others = 1..o
  BY DEF MatchInv, Others
<1>1. \A t \in 0..o : StartOf(t) \in Nat /\ Remaining(t) \in Nat
  BY <1>0, PartTypes DEF MatchInv
<1>2. 0 \in State
  BY DEF State
<1> DEFINE End(t) == StartOf(t) + Remaining(t)
           Read(t) == f[t] = getNextState(STATE0, 0, End(t)) /\ f[t] \in 1..4
           S == {t \in Nat : t <= o => Read(t)}
<1>3. 0 \in S
  <2>1. StartOf(0) = 0 /\ Remaining(0) \in Nat /\ Remaining(0) # 0
    BY <1>0, <1>1 DEF StartOf
  <2>2. f[0] = getNextState(STATE0, 0, Remaining(0))
    BY <1>0 DEF MatchInv
  <2>3. End(0) = Remaining(0)
    BY <2>1
  <2>4. f[0] \in 1..4
    BY <1>2, <2>1, <2>2, ReadType DEF STATE0
  <2> QED BY <2>2, <2>3, <2>4
<1>4. ASSUME NEW t \in Nat, t \in S PROVE t + 1 \in S
  <2> SUFFICES ASSUME t + 1 <= o PROVE Read(t + 1)
    OBVIOUS
  <2>1. t \in 0..o /\ t + 1 \in 0..o /\ t + 1 \in 1..o /\ t + 1 - 1 = t
    OBVIOUS
  <2>2. Read(t)
    BY <1>4, <2>1
  <2>3. PICK e \in Nat, r \in Nat : e = End(t) /\ r = Remaining(t + 1)
    BY <1>1, <2>1
  <2>4. StartOf(t + 1) = e /\ End(t + 1) = e + r
    BY <1>0, <2>1, <2>3 DEF AllRead
  <2>5. f[t + 1] = outputs[t + 1][f[t]]
    BY <1>0, <2>1
  <2>6. t + 1 \in Others \ reading
    BY <1>0, <2>1
  <2>7. f[t + 1] = getNextState(f[t], e, r)
    <3>1. CASE f[t] = STATE4
      <4>1. f[t + 1] = STATE4
        BY <2>5, <2>6, <3>1 DEF MatchInv
      <4> QED BY <3>1, <4>1, ReadStuck
    <3>2. CASE f[t] # STATE4
      <4>1. f[t] \in 1..3
        BY <2>2, <3>2 DEF STATE4
      <4>2. outputs[t + 1][f[t]] = getNextState(f[t], StartOf(t + 1), Remaining(t + 1))
        BY <2>6, <4>1 DEF MatchInv
      <4> QED BY <2>3, <2>4, <2>5, <4>2
    <3> QED BY <3>1, <3>2
  <2>8. getNextState(getNextState(STATE0, 0, e), e, r) = getNextState(STATE0, 0, e + r)
    BY ReadOn
  <2>9. f[t + 1] = getNextState(STATE0, 0, e + r)
    BY <2>2, <2>3, <2>7, <2>8
  <2>10. f[t + 1] \in 1..4
    <3>1. e + r # 0 /\ e + r \in Nat
      <4>1. e # 0
        <5>1. CASE e = 0
          <6>1. getNextState(STATE0, 0, 0) = STATE0
            <7>1. PICK g : getNextState(STATE0, 0, 0) = g[0] /\ g[0] = STATE0
              BY ReadSteps
            <7> QED BY <7>1
          <6> QED BY <2>2, <2>3, <5>1, <6>1 DEF STATE0
        <5> QED BY <5>1
      <4> QED BY <4>1
    <3> QED BY <1>2, <2>9, <3>1, ReadType DEF STATE0
  <2> QED BY <2>4, <2>9, <2>10
<1>5. Nat \subseteq S
  <2> HIDE DEF S
  <2> QED BY <1>3, <1>4, Induction
<1> QED BY <1>0, <1>5

LEMMA MoveStep == ASSUME MatchInv, Move PROVE MatchInv'
<1>0. PICK o \in Nat : o = optimistic_thread /\ Others = 1..o
  BY DEF MatchInv, Others
<1>a. PICK f : f = Moves(o, current_state, outputs)
  OBVIOUS
<1>1. f[0] = current_state /\ \A t \in 1..o : f[t] = outputs[t][f[t - 1]]
  BY <1>a, MoveSteps
<1>2. /\ reading = {} /\ answer = "none" /\ current_state' = f[o]
      /\ answer' = IF \E t \in Others : f[t] = STATE4 THEN "false" ELSE "true"
      /\ UNCHANGED <<string, optimistic_thread, outputs, reading>>
  BY <1>0, <1>a DEF Move, Moves
<1>3. f[o] \in State
  <2> DEFINE S == {t \in Nat : t <= o => f[t] \in State}
  <2>1. 0 \in S
    BY <1>1 DEF MatchInv
  <2>2. ASSUME NEW t \in Nat, t \in S PROVE t + 1 \in S
    <3> SUFFICES ASSUME t + 1 <= o PROVE f[t + 1] \in State
      OBVIOUS
    <3>1. t + 1 \in 1..o /\ t + 1 - 1 = t /\ f[t] \in State
      BY <2>2
    <3>2. outputs[t + 1] \in [State -> State]
      BY <1>0, <3>1 DEF MatchInv
    <3>3. f[t + 1] = outputs[t + 1][f[t]]
      BY <1>1, <3>1
    <3> QED BY ONLY <3>1, <3>2, <3>3
  <2>3. Nat \subseteq S
    <3> HIDE DEF S
    <3> QED BY <2>1, <2>2, Induction
  <2> QED BY <2>3
<1>4. Others' = Others
  BY <1>2 DEF Others
<1>5. AsOneThread'
  <2> SUFFICES ASSUME Others # {}, AllRead, Remaining(0) > 0
               PROVE  (answer' = "true") = (getNextState(STATE0, 0, Len(string)) # STATE4)
    BY <1>2, <1>4 DEF AsOneThread, AllRead, StartOf, Remaining, thread_count, Part, getNextState
  <2>1. \A t \in 0..o : f[t] = getNextState(STATE0, 0, StartOf(t) + Remaining(t))
    BY <1>0, <1>1, <1>2, MovesRead
  <2>2. o # 0 /\ o \in 0..o /\ o \in Others
    BY <1>0
  <2>3. StartOf(o) + Remaining(o) = Len(string)
    BY <1>0, <2>2, PartTypes DEF MatchInv
  <2>4. f[o] = getNextState(STATE0, 0, Len(string))
    BY <2>1, <2>2, <2>3
  <2>5. ASSUME NEW t \in Others, f[t] = STATE4 PROVE f[o] = STATE4
    <3> DEFINE S == {k \in Nat : t + k <= o => f[t + k] = STATE4}
    <3>0. t \in 1..o
      BY <1>0
    <3>1. 0 \in S
      BY <2>5, <3>0
    <3>2. ASSUME NEW k \in Nat, k \in S PROVE k + 1 \in S
      <4> SUFFICES ASSUME t + (k + 1) <= o PROVE f[t + (k + 1)] = STATE4
        OBVIOUS
      <4>1. t + (k + 1) \in 1..o /\ t + (k + 1) - 1 = t + k /\ t + k <= o
        BY <3>0
      <4>2. f[t + k] = STATE4
        BY <3>2, <4>1
      <4>3. outputs[t + (k + 1)][STATE4] = STATE4
        BY <1>0, <1>2, <4>1 DEF MatchInv
      <4>4. f[t + (k + 1)] = outputs[t + (k + 1)][f[t + (k + 1) - 1]]
        <5>1. PICK j \in 1..o : j = t + (k + 1)
          BY <4>1
        <5>2. f[j] = outputs[j][f[j - 1]]
          BY <1>1
        <5>3. j - 1 = t + (k + 1) - 1
          BY <3>0, <5>1
        <5> QED BY <5>1, <5>2, <5>3
      <4> QED BY ONLY <4>1, <4>2, <4>3, <4>4
    <3>3. Nat \subseteq S
      <4> HIDE DEF S
      <4> QED BY <3>1, <3>2, Induction
    <3>4. o - t \in Nat /\ t + (o - t) = o /\ t + (o - t) <= o
      BY <3>0
    <3>5. o - t \in S
      BY <3>3, <3>4
    <3> QED BY <3>4, <3>5
  <2>6. (\E t \in Others : f[t] = STATE4) <=> f[o] = STATE4
    BY <2>2, <2>5
  <2> QED BY <1>2, <2>4, <2>6
<1>6. \A t : StartOf(t)' = StartOf(t) /\ Remaining(t)' = Remaining(t)
  BY <1>2 DEF StartOf, Remaining, thread_count, Part
<1>7. \A s, b, m : getNextState(s, b, m)' = getNextState(s, b, m)
  BY <1>2 DEF getNextState
<1>8. answer' \in {"true", "false"}
  BY <1>2
<1>9. /\ Len(string)' \in Nat /\ optimistic_thread' \in Nat
      /\ reading' \subseteq {0} \cup Others' /\ answer' \in {"none", "true", "false"}
      /\ outputs' \in [Others' -> [State -> State]] /\ current_state' \in State
  BY <1>2, <1>3, <1>4, <1>8 DEF MatchInv
<1>10. \A t \in Others' \ reading' :
          /\ \A s \in 1..3 : outputs'[t][s] = getNextState(s, StartOf(t), Remaining(t))
          /\ outputs'[t][STATE4] = STATE4
  BY <1>2, <1>4 DEF MatchInv
<1> QED BY <1>2, <1>5, <1>6, <1>7, <1>8, <1>9, <1>10 DEF MatchInv

LEMMA ThreadEnds ==
    ASSUME MatchInv, Master \/ \E t \in Others : Other(t)
    PROVE  MatchInv'
<1>1. UNCHANGED <<string, optimistic_thread, answer>> /\ answer = "none"
  BY DEF MatchInv, Master, Other
<1>2. /\ Others' = Others
      /\ \A t : StartOf(t)' = StartOf(t) /\ Remaining(t)' = Remaining(t)
      /\ \A s, b, m : getNextState(s, b, m)' = getNextState(s, b, m)
  BY <1>1 DEF Others, StartOf, Remaining, thread_count, Part, getNextState
<1>3. \A t \in 0..optimistic_thread : Remaining(t) \in Nat
  BY PartTypes DEF MatchInv
<1>4. 0 \in 0..optimistic_thread /\ \A t \in Others : t \in 0..optimistic_thread /\ t # 0
  BY DEF MatchInv, Others
<1>5. AsOneThread'
  BY <1>1 DEF AsOneThread
<1>6. CASE Master
  <2>1. /\ current_state' = getNextState(STATE0, 0, Remaining(0))
        /\ reading' = reading \ {0} /\ UNCHANGED outputs
    BY <1>6 DEF Master
  <2>2. STATE0 \in State
    BY DEF State, STATE0
  <2>3. current_state' \in State
    BY <1>3, <1>4, <2>1, <2>2, ReadType
  <2>4. Others \ reading' = Others \ reading
    BY <1>4, <2>1
  <2> QED BY <1>1, <1>2, <1>5, <2>1, <2>3, <2>4 DEF MatchInv
<1>7. ASSUME NEW t \in Others, Other(t) PROVE MatchInv'
  <2>1. PICK map : /\ map = [s \in State |-> CASE s \in 1..3 -> getNextState(s, StartOf(t), Remaining(t))
                                               [] s = STATE4 -> STATE4
                                               [] OTHER -> STATE0]
                   /\ outputs' = [outputs EXCEPT ![t] = map]
                   /\ reading' = reading \ {t} /\ UNCHANGED current_state
    BY <1>7 DEF Other
  <2>2. \A s \in 1..3 : s \in State /\ s # STATE4
    BY DEF State, STATE4
  <2>3. \A s \in 1..3 : map[s] = getNextState(s, StartOf(t), Remaining(t))
    BY <2>1, <2>2
  <2>4. STATE4 \in State /\ STATE4 \notin 1..3 /\ STATE0 \in State
    BY DEF State, STATE4, STATE0
  <2>5. map[STATE4] = STATE4
    BY <2>1, <2>4
  <2>6. map \in [State -> State]
    <3>1. \A s \in 1..3 : getNextState(s, StartOf(t), Remaining(t)) \in State
      BY <1>3, <1>4, <2>2, ReadType
    <3> QED BY <2>1, <2>4, <3>1
  <2>7. outputs' \in [Others -> [State -> State]]
    BY <2>1, <2>6 DEF MatchInv
  <2>8. outputs'[t] = map /\ \A u \in Others : u # t => outputs'[u] = outputs[u]
    BY <2>1 DEF MatchInv
  <2>9. ASSUME NEW u \in Others, u \notin reading'
        PROVE  /\ \A s \in 1..3 : outputs'[u][s] = getNextState(s, StartOf(u), Remaining(u))
               /\ outputs'[u][STATE4] = STATE4
    <3>1. CASE u = t
      BY <2>3, <2>5, <2>8, <3>1
    <3>2. CASE u # t
      BY <2>1, <2>8, <2>9, <3>2 DEF MatchInv
    <3> QED BY <3>1, <3>2
  <2>10. 0 \notin reading' => 0 \notin reading
    BY <1>4, <2>1
  <2>11. /\ Len(string)' \in Nat /\ optimistic_thread' \in Nat
         /\ reading' \subseteq {0} \cup Others' /\ answer' \in {"none", "true", "false"}
         /\ outputs' \in [Others' -> [State -> State]] /\ current_state' \in State
    BY <1>1, <1>2, <2>1, <2>7 DEF MatchInv
  <2>12. 0 \notin reading' => current_state' = getNextState(STATE0, 0, Remaining(0))
    BY <1>1, <2>1, <2>10 DEF MatchInv
  <2> QED BY <1>1, <1>2, <1>5, <2>9, <2>11, <2>12 DEF MatchInv
<1> QED BY <1>6, <1>7

(* Whatever the alphabet and the length of the string, the number of threads and the
   order in which they end: with a thread beside the master, when the pieces leave out
   nothing of the string and the master's is not empty, match answers as one thread
   does that reads it from the beginning to the end. *)
THEOREM MatchesAsOne == MatchingSpec => []AsOneThread
<1>1. MatchingInit => MatchInv
  <2> SUFFICES ASSUME MatchingInit PROVE MatchInv
    OBVIOUS
  <2>1. Len(string) \in Nat
    BY MatchingAssumption DEF MatchingInit
  <2>2. optimistic_thread \in Nat
    BY MatchingAssumption DEF MatchingInit
  <2>3. outputs \in [Others -> [State -> State]] /\ current_state \in State
    BY DEF MatchingInit, NoMap, State, STATE0
  <2> QED BY <2>1, <2>2, <2>3 DEF MatchInv, MatchingInit, AsOneThread
<1>2. MatchInv /\ [MatchingNext]_matchingVars => MatchInv'
  <2> SUFFICES ASSUME MatchInv, [MatchingNext]_matchingVars PROVE MatchInv'
    OBVIOUS
  <2>1. CASE UNCHANGED matchingVars
    <3>1. UNCHANGED <<string, optimistic_thread, current_state, outputs, reading, answer>>
      BY <2>1 DEF matchingVars
    <3>2. /\ Others' = Others /\ Remaining(0)' = Remaining(0)
          /\ \A t : StartOf(t)' = StartOf(t) /\ Remaining(t)' = Remaining(t)
      BY <3>1 DEF Others, StartOf, Remaining, thread_count, Part
    <3>3. \A s, b, m : getNextState(s, b, m)' = getNextState(s, b, m)
      BY <3>1 DEF getNextState
    <3>4. AsOneThread' <=> AsOneThread
      BY <3>1, <3>2, <3>3 DEF AsOneThread, AllRead
    <3> QED BY <3>1, <3>2, <3>3, <3>4 DEF MatchInv
  <2> QED BY <2>1, MoveStep, ThreadEnds DEF MatchingNext
<1>3. MatchInv => AsOneThread
  BY DEF MatchInv
<1> QED BY <1>1, <1>2, <1>3, PTL DEF MatchingSpec
================================================================================
