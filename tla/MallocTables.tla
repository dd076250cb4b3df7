------------------------------- MODULE MallocTables -----------------------------
(* Comp 310/ass2/mymallocOld.c, the allocator that mymalloc.c replaced: what is in
   use and what is free is kept in two tables of fixed length beside the heap.
   A search that is done with the table reads the size behind its end. *)
EXTENDS Integers

CONSTANTS Entries,      \* 500: the length of both tables
          Requests,     \* the sizes callers ask for, none of them 0
          HeapSize,     \* bound: memory above the first break
          MaxTurnover   \* bound: calls of my_malloc and my_free

ASSUME TablesAssumption == Entries \in Nat \ {0} /\ Requests \subseteq Nat \ {0}

VARIABLES allocations,  \* the blocks in use
          freeSpaces,   \* the blocks that can be used again
          fit,          \* _policy
          heap,         \* sbrk(0), counted from the first break
          held,         \* what my_malloc gave to callers and my_free did not get back
          turnover      \* how many calls there were

tablesVars == <<allocations, freeSpaces, fit, heap, held, turnover>>

NULL == -1
Empty == [pointer |-> NULL, size |-> 0]
Index == 0..(Entries - 1)
Used(table) == {i \in Index : table[i].pointer # NULL}
LowestOf(S) == CHOOSE i \in S : \A j \in S : i <= j
End(space) == space.pointer + space.size

TablesInit ==
    /\ allocations = [i \in Index |-> Empty]
    /\ freeSpaces = [i \in Index |-> Empty]
    /\ fit = "FIRST_FIT"
    /\ heap = 0
    /\ held = {}
    /\ turnover = 0

(* The first entry that is not in use, or that holds this pointer *)
getFirstIndex(table) ==
    IF Used(table) = Index THEN -1 ELSE LowestOf(Index \ Used(table))
getAllocationIndex(pointer) ==
    LET found == {i \in Index : allocations[i].pointer = pointer}
    IN IF found = {} THEN -1 ELSE LowestOf(found)

(* The space a request is served from: under FIRST_FIT the one with the lowest
   address, under BEST_FIT the first of the smallest. *)
LargeEnough(size) == {i \in Used(freeSpaces) : size <= freeSpaces[i].size}
FirstFit(size) ==
    CHOOSE i \in LargeEnough(size) :
        \A j \in LargeEnough(size) : /\ freeSpaces[i].pointer <= freeSpaces[j].pointer
                                     /\ freeSpaces[i].pointer = freeSpaces[j].pointer => i <= j
BestFit(size) ==
    CHOOSE i \in LargeEnough(size) :
        \A j \in LargeEnough(size) : /\ freeSpaces[i].size <= freeSpaces[j].size
                                     /\ freeSpaces[i].size = freeSpaces[j].size => i <= j

(* What is left of the space: `same` is whether the size is that of the entry
   behind the table, which no one wrote. *)
Reduced(best, size, same) ==
    [freeSpaces EXCEPT ![best] =
        [pointer |-> IF same THEN NULL ELSE @.pointer + size, size |-> @.size - size]]

(* The allocation is entered in its table; when there is no room the caller gets
   nothing, and what was taken for it is not given back. *)
Enter(pointer, size) ==
    LET index == getFirstIndex(allocations)
    IN IF index = -1
       THEN UNCHANGED <<allocations, held>>
       ELSE /\ allocations' = [allocations EXCEPT ![index] = [pointer |-> pointer, size |-> size]]
            /\ held' = held \cup {[pointer |-> pointer, size |-> size]}

Turn == turnover < MaxTurnover /\ turnover' = turnover + 1

Reuse(size) ==
    /\ Turn /\ LargeEnough(size) # {}
    /\ \E same \in BOOLEAN :
         LET best == IF fit = "FIRST_FIT" THEN FirstFit(size) ELSE BestFit(size)
         IN /\ freeSpaces' = Reduced(best, size, same)
            /\ Enter(freeSpaces[best].pointer, size)
    /\ UNCHANGED <<fit, heap>>

Grow(size) ==
    /\ Turn /\ LargeEnough(size) = {}
    /\ heap + size <= HeapSize
    /\ heap' = heap + size
    /\ Enter(heap, size)
    /\ UNCHANGED <<freeSpaces, fit>>

(* addFreeSpace, entry after entry: an entry that ends where the block begins and
   one that begins where it ends are merged with it; the second of them ends the
   search. *)
Merge(spaces, i, block, merged) ==
    LET here == spaces[i]
        more(k, n) == [spaces EXCEPT ![k].size = @ + n]
        first(table) == [spaces |-> table, merged |-> i, done |-> FALSE]
        second(table, gone) ==
            [spaces |-> [table EXCEPT ![gone] = Empty], merged |-> merged, done |-> TRUE]
    IN CASE here.pointer # NULL /\ End(here) = block.pointer ->
                IF merged = -1 THEN first(more(i, block.size))
                ELSE second(more(i, spaces[merged].size), merged)
         [] here.pointer # NULL /\ here.pointer = End(block) ->
                IF merged = -1
                THEN first([more(i, block.size) EXCEPT ![i].pointer = @ - block.size])
                ELSE second(more(merged, here.size), i)
         [] OTHER -> [spaces |-> spaces, merged |-> merged, done |-> FALSE]

Scanned(block) ==
    LET upTo[i \in 0..Entries] ==
            IF i = 0 THEN [spaces |-> freeSpaces, merged |-> -1, done |-> FALSE]
            ELSE LET r == upTo[i - 1]
                 IN IF r.done THEN r ELSE Merge(r.spaces, i - 1, block, r.merged)
    IN upTo[Entries]
addFreeSpace(block) ==
    LET r == Scanned(block)
        index == getFirstIndex(freeSpaces)
    IN IF r.merged # -1 \/ index = -1 THEN r.spaces
       ELSE [freeSpaces EXCEPT ![index] = block]

my_free_table(pointer) ==
    LET index == getAllocationIndex(pointer)
    IN /\ Turn
       /\ index # -1
       /\ freeSpaces' = addFreeSpace(allocations[index])
       /\ allocations' = [allocations EXCEPT ![index] = Empty]
       /\ held' = {h \in held : h.pointer # pointer}
       /\ UNCHANGED <<fit, heap>>

SetPolicy(p) ==
    /\ fit # p
    /\ fit' = p
    /\ UNCHANGED <<allocations, freeSpaces, heap, held, turnover>>

TablesNext ==
    \/ \E size \in Requests : Reuse(size) \/ Grow(size)
    \/ \E h \in held : my_free_table(h.pointer)
    \/ \E p \in {"FIRST_FIT", "BEST_FIT"} : SetPolicy(p)

TablesSpec == TablesInit /\ [][TablesNext]_tablesVars

Space == [pointer : NULL..HeapSize, size : 0..HeapSize]
TablesTypeOK ==
    /\ allocations \in [Index -> Space]
    /\ freeSpaces \in [Index -> Space]
    /\ fit \in {"FIRST_FIT", "BEST_FIT"}
    /\ heap \in 0..HeapSize
    /\ held \subseteq Space
    /\ turnover \in 0..MaxTurnover

Covers(space) == space.pointer..(End(space) - 1)

(* No word of the heap is in two blocks, whether in use or free, and callers hold
   the blocks that the table says, whatever is behind the end of a table: a space
   that is used up but stays in the table has no words, and is merged like any. *)
TablesApart ==
    /\ \A i, j \in Used(freeSpaces) : i # j => Covers(freeSpaces[i]) \cap Covers(freeSpaces[j]) = {}
    /\ \A h \in held, i \in Used(freeSpaces) : Covers(h) \cap Covers(freeSpaces[i]) = {}
    /\ \A h, k \in held : h # k => Covers(h) \cap Covers(k) = {}
    /\ held = {allocations[i] : i \in Used(allocations)}
    /\ \A h \in held : h.size > 0 /\ End(h) <= heap
=================================================================================
