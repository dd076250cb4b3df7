--------------------------------- MODULE TwoSat ---------------------------------
(* Comp 251/Assignments/assig2: is there a valuation that makes each of the
   disjunctions of two literals true? BruteForceSolver.java tries all of them;
   SmartSolver.java builds the graph of the implications (ConnectionGraph.java) and
   looks for a variable that has a component in common with its negation
   (Tarjan.java). Assig2.java runs one or the other. *)
EXTENDS Integers, Sequences, FiniteSets

CONSTANTS numV,         \* the variables are 1..numV, their negations -numV..-1
          Pairs,        \* the disjunctions a formula may have
          MaxPairs      \* bound: how many it has

Literal == (-numV..-1) \cup (1..numV)
ASSUME TwoSatAssumption == numV \in Nat \ {0} /\ Pairs \subseteq Literal \X Literal

VARIABLES disjunctions, \* the formula
          graph,        \* the edges of the ConnectionGraph, as they were added
          bruteForce,   \* is there no -nobrute?
          tried,        \* the valuation of the BruteForceSolver
          node,         \* index and lowlink of each node, -1 as long as it was not visited
          index,        \* the next index
          stack,        \* the nodes that are in no component yet
          SCC,          \* the components
          recursion,    \* the recursion of tarjan under way: a node and its next edge
          solved        \* YES or NO, at the end

satVars == <<disjunctions, graph, bruteForce, tried, node, index, stack, SCC, recursion, solved>>

(* generateGraph: -b => a and -a => b, disjunction after disjunction *)
generateGraph ==
    [k \in 1..(2 * Len(disjunctions)) |->
        LET pair == disjunctions[(k + 1) \div 2]
        IN IF k % 2 = 1 THEN <<-pair[2], pair[1]>> ELSE <<-pair[1], pair[2]>>]
KeySet == {graph[k][1] : k \in DOMAIN graph} \cup {graph[k][2] : k \in DOMAIN graph}
getLinkedEdge(v) ==
    LET of(edge) == edge[1] = v
        from == SelectSeq(graph, of)
    IN [k \in DOMAIN from |-> from[k][2]]

SatInit ==
    /\ disjunctions \in UNION {[1..n -> Pairs] : n \in 0..MaxPairs}
    /\ graph = generateGraph
    /\ bruteForce \in BOOLEAN
    /\ tried = [i \in 1..numV |-> TRUE]
    /\ node = [v \in Literal |-> [index |-> -1, lowlink |-> -1]]
    /\ index = 0
    /\ stack = <<>>
    /\ SCC = {}
    /\ recursion = <<>>
    /\ solved = "open"

getValue(valuation, var) == IF var < 0 THEN ~valuation[-var] ELSE valuation[var]
testValues(valuation) ==
    \A k \in DOMAIN disjunctions :
        getValue(valuation, disjunctions[k][1]) \/ getValue(valuation, disjunctions[k][2])

(* incrementArray: TRUE is the digit 0, and the first variable the lowest digit. *)
Zeros == {i \in 1..numV : tried[i]}
incrementArray ==
    LET first == CHOOSE i \in Zeros : \A j \in Zeros : i <= j
    IN [i \in 1..numV |-> IF i < first THEN TRUE ELSE IF i = first THEN FALSE ELSE tried[i]]

BruteForce ==
    /\ bruteForce /\ solved = "open"
    /\ IF testValues(tried) THEN solved' = "YES" /\ UNCHANGED tried
       ELSE IF Zeros = {} THEN solved' = "NO" /\ tried' = [i \in 1..numV |-> TRUE]
       ELSE tried' = incrementArray /\ UNCHANGED solved
    /\ UNCHANGED <<disjunctions, graph, bruteForce, node, index, stack, SCC, recursion>>

(* tarjan: the call of a node, which gets the next index and goes on the stack *)
Visit(v, callers) ==
    /\ node' = [node EXCEPT ![v] = [index |-> index, lowlink |-> index]]
    /\ index' = index + 1
    /\ stack' = <<v>> \o stack
    /\ recursion' = <<[v |-> v, next |-> 1]>> \o callers
    /\ UNCHANGED <<disjunctions, graph, bruteForce, tried, SCC, solved>>

(* The nodes are tried in the order of a hash map, which is any. *)
Root ==
    /\ ~bruteForce /\ solved = "open" /\ recursion = <<>>
    /\ \E v \in KeySet : node[v].index = -1 /\ Visit(v, <<>>)

LowerAlways(v, low) == [node EXCEPT ![v].lowlink = low]
Lower(v, low) == [node EXCEPT ![v].lowlink = IF low < @ THEN low ELSE @]
Following(frames) == [frames EXCEPT ![1].next = @ + 1]
Edge ==
    /\ recursion # <<>>
    /\ LET v == recursion[1].v
           edges == getLinkedEdge(v)
           n == edges[recursion[1].next]
       IN /\ recursion[1].next <= Len(edges)
          /\ \/ node[n].index = -1 /\ Visit(n, recursion)
             \/ /\ node[n].index # -1
                /\ node' = IF \E k \in DOMAIN stack : stack[k] = n
                           THEN Lower(v, node[n].index) ELSE node
                /\ recursion' = Following(recursion)
                /\ UNCHANGED <<disjunctions, graph, bruteForce, tried, index, stack, SCC, solved>>

(* The end of a call: what is above the node makes a component with it, if no edge
   leads further down; the caller goes on behind the edge that made the call. *)
Return ==
    /\ recursion # <<>>
    /\ LET v == recursion[1].v
           callers == Tail(recursion)
           depth == CHOOSE k \in DOMAIN stack : stack[k] = v
           root == node[v].lowlink = node[v].index
       IN /\ recursion[1].next > Len(getLinkedEdge(v))
          /\ SCC' = IF root THEN SCC \cup {{stack[k] : k \in 1..depth}} ELSE SCC
          /\ stack' = IF root THEN SubSeq(stack, depth + 1, Len(stack)) ELSE stack
          /\ node' = IF callers = <<>> THEN node ELSE Lower(callers[1].v, node[v].lowlink)
          /\ recursion' = IF callers = <<>> THEN <<>> ELSE Following(callers)
    /\ UNCHANGED <<disjunctions, graph, bruteForce, tried, index, solved>>

(* SmartSolver.solve, after the last call *)
Solve ==
    /\ ~bruteForce /\ solved = "open" /\ recursion = <<>>
    /\ \A v \in KeySet : node[v].index # -1
    /\ solved' = IF \E c \in SCC, i \in 1..numV : i \in c /\ -i \in c THEN "NO" ELSE "YES"
    /\ UNCHANGED <<disjunctions, graph, bruteForce, tried, node, index, stack, SCC, recursion>>

SatNext == BruteForce \/ Root \/ Edge \/ Return \/ Solve

SatSpec == SatInit /\ [][SatNext]_satVars

SatTypeOK ==
    /\ graph \in Seq(Literal \X Literal)
    /\ tried \in [1..numV -> BOOLEAN]
    /\ node \in [Literal -> [index : Int, lowlink : Int]]
    /\ index \in 0..(2 * numV)
    /\ stack \in Seq(Literal)
    /\ SCC \subseteq SUBSET Literal
    /\ solved \in {"open", "YES", "NO"}

(* Both solvers, and the smart one for every order in which a hash map gives its
   nodes, say YES of the formulas that some valuation makes true, and of no others. *)
SolversAgree ==
    solved # "open" =>
        (solved = "YES") = (\E valuation \in [1..numV -> BOOLEAN] : testValues(valuation))

LinkedTo(v) == {graph[k][2] : k \in {k \in DOMAIN graph : graph[k][1] = v}}
Reaches(v) ==
    LET within[k \in 0..(2 * numV)] ==
            IF k = 0 THEN {v}
            ELSE LET near == within[k - 1] IN near \cup UNION {LinkedTo(m) : m \in near}
    IN within[2 * numV]

(* What Tarjan's algorithm takes off its stack is a component: all the nodes that a
   node of it reaches and that reach it. And a node that was visited is on the
   stack or in one component, never in both. *)
ComponentsStrong ==
    /\ \A c \in SCC : LET v == CHOOSE v \in c : TRUE
                       IN c = {w \in Reaches(v) : v \in Reaches(w)}
    /\ \A v \in KeySet : node[v].index # -1 =>
          Cardinality({c \in SCC : v \in c}) + Cardinality({k \in DOMAIN stack : stack[k] = v}) = 1

(* Both of these: the components are right at every step, and so is the answer. *)
SatDecided == ComponentsStrong /\ SolversAgree
=================================================================================
