------------------------------- MODULE MCPrograms -------------------------------
(* The small programs, of which one is run. Comp 206: two sessions on a table of four
   rows, a queue of three batches, a server with an array of two commands, two
   callers and one that means another server, a matrix of three by three. Comp 310:
   a heap of 21 words, tables of four entries, two producers of two items each, three
   processes that share two resources. Comp 409 and 251: two threads that look for
   primes, strings of up to six letters, the hull of four of five points with a pool
   of two sorters, and up to three disjunctions of three variables. *)
EXTENDS PassDatabase, FileQueue, PortServer, SocketServer, TextCipher,
        MallocTables, ProducerConsumer, Banker,
        PrimeFinder, Matching, ConvexHull, TwoSat

CONSTANTS p1, p2, c1, c2, s1, maker1, maker2

MCSession == {p1, p2}
MCName == {<<1>>, <<1, 2>>}
MCPassword == {<<3>>}
MCType == {<<4>>}
MCData == <<2, 0, 1>>
MCClient == {c1, c2}
MCStranger == {s1}
MCCaller == {c1, c2, s1}
MCTyped == {Blank, LetterA, LetterA + 2}
MCNumbers == {-1, 4}
MCProducer == {maker1, maker2}
MCToFactor == {2, 9, 15, 81, 90, 105, 225}
MCPoints == {[x |-> 2, y |-> 1], [x |-> -1, y |-> 2], [x |-> -1, y |-> -2],
             [x |-> 1, y |-> -1], [x |-> 3, y |-> 3]}
MCPairs == {<<1, 2>>, <<-1, 2>>, <<1, -2>>, <<-1, -1>>, <<-2, -3>>}

VARIABLES program, policy, mem, brk, live, crashed, clean, requests

Allocator == INSTANCE MyMalloc WITH
    Sizes <- {1, 2, 5}, Values <- {1, 7}, TRIM <- 9, Words <- 21, MaxCalls <- 7,
    calls <- requests

mallocVars == <<policy, mem, brk, live, crashed, clean, requests>>
graphVars == <<sortVars, hullVars>>
comp206Vars == <<passVars, queueVars, portVars, socketVars, cipherVars>>
comp310Vars == <<mallocVars, tablesVars, miniVars, bankerVars>>
javaVars == <<primeVars, matchingVars, graphVars, satVars>>

(* A program that is not run starts in one of its states. *)
OneInit ==
    /\ program \in {"passweb", "server.c", "Server", "rserver", "cipher", "mymalloc",
                    "mymallocOld", "mini2", "mini3", "PrimeFinder", "matching",
                    "ConvexHull", "Assig2"}
    /\ PassInit /\ QueueInit /\ PortInit /\ SocketInit /\ CipherInit
    /\ Allocator!MallocInit /\ TablesInit
    /\ ProducerInit /\ (program = "mini2" \/ thSync)
    /\ BankerInit /\ (program = "mini3" \/ \A i \in Proc, j \in Rscr : maximum[i][j] = 2)
    /\ PrimeInit /\ (program = "PrimeFinder" \/ n = 2)
    /\ MatchingInit /\ (program = "matching" \/ (string = <<>> /\ optimistic_thread = 0))
    /\ HullInit
    /\ program = "ConvexHull" \/ points = [i \in Place |-> [x |-> 3, y |-> 3]]
    /\ SatInit /\ (program = "Assig2" \/ (disjunctions = <<>> /\ bruteForce))

Comp206Next ==
    \/ /\ program = "passweb" /\ PassNext
       /\ UNCHANGED <<queueVars, portVars, socketVars, cipherVars>>
    \/ /\ program = "server.c" /\ QueueNext
       /\ UNCHANGED <<passVars, portVars, socketVars, cipherVars>>
    \/ /\ program = "Server" /\ PortNext
       /\ UNCHANGED <<passVars, queueVars, socketVars, cipherVars>>
    \/ /\ program = "rserver" /\ SocketNext
       /\ UNCHANGED <<passVars, queueVars, portVars, cipherVars>>
    \/ /\ program = "cipher" /\ CipherNext
       /\ UNCHANGED <<passVars, queueVars, portVars, socketVars>>

Comp310Next ==
    \/ /\ program = "mymalloc" /\ Allocator!MallocNext
       /\ UNCHANGED <<tablesVars, miniVars, bankerVars>>
    \/ /\ program = "mymallocOld" /\ TablesNext
       /\ UNCHANGED <<mallocVars, miniVars, bankerVars>>
    \/ /\ program = "mini2" /\ ProducerNext
       /\ UNCHANGED <<mallocVars, tablesVars, bankerVars>>
    \/ /\ program = "mini3" /\ BankerNext
       /\ UNCHANGED <<mallocVars, tablesVars, miniVars>>

JavaNext ==
    \/ /\ program = "PrimeFinder" /\ PrimeNext
       /\ UNCHANGED <<matchingVars, graphVars, satVars>>
    \/ /\ program = "matching" /\ MatchingNext
       /\ UNCHANGED <<primeVars, graphVars, satVars>>
    \/ /\ program = "ConvexHull" /\ HullNext
       /\ UNCHANGED <<primeVars, matchingVars, satVars>>
    \/ /\ program = "Assig2" /\ SatNext
       /\ UNCHANGED <<primeVars, matchingVars, graphVars>>

OneNext ==
    /\ UNCHANGED program
    /\ \/ Comp206Next /\ UNCHANGED <<comp310Vars, javaVars>>
       \/ Comp310Next /\ UNCHANGED <<comp206Vars, javaVars>>
       \/ JavaNext /\ UNCHANGED <<comp206Vars, comp310Vars>>

OneSpec == OneInit /\ [][OneNext]_<<program, comp206Vars, comp310Vars, javaVars>>

(* The fields of the program that is run have their types, and in mini3 the units of
   a resource that nobody has are those that are available. *)
FieldTypes ==
    CASE program = "passweb" -> PassTypeOK
      [] program = "server.c" -> QueueTypeOK
      [] program = "Server" -> PortTypeOK
      [] program = "rserver" -> SocketTypeOK
      [] program = "cipher" -> CipherTypeOK
      [] program = "mymalloc" -> Allocator!MallocTypeOK
      [] program = "mymallocOld" -> TablesTypeOK
      [] program = "mini2" -> ProducerTypeOK
      [] program = "mini3" -> BankerTypeOK /\ UnitsKept
      [] program = "PrimeFinder" -> PrimeTypeOK
      [] program = "matching" -> MatchingTypeOK
      [] program = "ConvexHull" -> HullTypeOK
      [] program = "Assig2" -> SatTypeOK

=================================================================================
