-------------------------------- MODULE MyMalloc --------------------------------
(* Comp 310/ass2/mymalloc.c: the blocks lie one behind the other between `first`
   and the program break, each with three words of tags before its data: the block
   before it, its size, and 1 when it is free. Memory is counted in words, as on a
   machine whose pointers are as large as its integers (there the tags that are
   read are as large as the room that is made for them). *)
EXTENDS Integers

CONSTANTS Sizes,        \* the sizes callers ask for
          TRIM,         \* 128*1024*1024: the free space that is given back
          Values,       \* what callers store in their blocks
          Words,        \* bound: memory, from the first break on
          MaxCalls      \* bound: calls and stores

ALLOC_DATA_SIZE == 3
FIRST_FIT == 1
BEST_FIT == 2

VARIABLES policy,       \* _policy
          mem,          \* the words above the first break
          brk,          \* sbrk(0), counted from 0 = first
          live,         \* what callers hold: the blocks, their sizes and what was stored
          crashed,      \* did the program touch what is not there?
          clean,        \* history: nothing was done that the tags do not survive
          calls         \* how many calls there were

mallocVars == <<policy, mem, brk, live, crashed, clean, calls>>

(* First is where memory begins: its number is not one that callers store. *)
First == 10
Address == First..(First + Words)
MallocInit ==
    /\ policy = FIRST_FIT
    /\ mem = [a \in Address |-> 0]
    /\ brk = First
    /\ live = {}
    /\ crashed = FALSE
    /\ clean = TRUE
    /\ calls = 0

(* getAllocation: where the tags of a block are; and the block after it *)
SizeTag(m, b) == m[b + 1]
Flag(m, b) == m[b + 2]
After(m, b) == b + ALLOC_DATA_SIZE + SizeTag(m, b)
Tagged(b) == b \in First..(First + Words - ALLOC_DATA_SIZE)

(* The addresses a walk from `first` comes to; it ends at the break, or beyond. *)
RECURSIVE WalkFrom(_, _, _)
WalkFrom(m, top, b) ==
    {b} \cup (IF b < top /\ Tagged(b) THEN WalkFrom(m, top, After(m, b)) ELSE {})
Walk(m, top) == WalkFrom(m, top, First)
Blocks(m, top) == Walk(m, top) \ {top}
Tiled(m, top) == top \in Walk(m, top)

getPrev(m, top, pointer) ==
    LET before == {b \in Blocks(m, top) : b < pointer /\ After(m, b) = pointer}
    IN IF before = {} THEN First ELSE CHOOSE b \in before : TRUE

Fits(m, top, size) == {b \in Blocks(m, top) : b < top /\ Flag(m, b) = 1 /\ SizeTag(m, b) >= size}
allocFirstFreeSpace(m, top, size) ==
    CHOOSE b \in Fits(m, top, size) : \A c \in Fits(m, top, size) : b <= c
allocFitFreeSpace(m, top, size) ==
    CHOOSE b \in Fits(m, top, size) :
        \A c \in Fits(m, top, size) : <<SizeTag(m, b), b>> = <<SizeTag(m, c), c>>
                                      \/ SizeTag(m, b) < SizeTag(m, c)
                                      \/ (SizeTag(m, b) = SizeTag(m, c) /\ b < c)

(* The block a request is served from: one that is free, or the break. The search
   reads on beyond the break, and ends there, when the blocks do not lead to it. *)
Chosen(m, top, size) ==
    IF Fits(m, top, size) = {} THEN top
    ELSE IF policy = FIRST_FIT THEN allocFirstFreeSpace(m, top, size)
    ELSE allocFitFreeSpace(m, top, size)
Found(m, top, size) ==
    Tiled(m, top) \/ (policy = FIRST_FIT /\ Fits(m, top, size) # {})

(* my_malloc: what is left of a free block gets tags of its own, whether there is
   room for them or not, and the block behind is told of it. *)
Rest(m, b, size) == b + ALLOC_DATA_SIZE + size
SplitUntagged(m, b, size) ==
    LET rest == Rest(m, b, size)
        tagged == [m EXCEPT ![rest] = m[b], ![rest + 1] = SizeTag(m, b) - size, ![rest + 2] = 1]
    IN [tagged EXCEPT ![After(m, b)] = rest]
Split(m, b, size) ==
    LET rest == Rest(m, b, size)
        tagged == [m EXCEPT ![rest] = m[b], ![rest + 1] = SizeTag(m, b) - size - ALLOC_DATA_SIZE,
                            ![rest + 2] = 1]
    IN [tagged EXCEPT ![After(m, b)] = rest]
Taken(m, top, b, size) ==
    [m EXCEPT ![b] = getPrev(m, top, b), ![b + 1] = size, ![b + 2] = 0]

Alive == ~crashed /\ calls < MaxCalls /\ calls' = calls + 1
Crash == crashed' = TRUE /\ UNCHANGED <<policy, mem, brk, live, clean>>
Unwritten == -1
Hand(b, size) == live' = live \cup {[at |-> b + ALLOC_DATA_SIZE, size |-> size, data |-> Unwritten]}

my_malloc_grow(size) ==
    /\ Alive
    /\ Found(mem, brk, size) /\ Chosen(mem, brk, size) = brk
    /\ brk + 2 * ALLOC_DATA_SIZE + size <= First + Words
    /\ brk' = brk + ALLOC_DATA_SIZE + size
    /\ mem' = Taken(mem, brk, brk, size)
    /\ Hand(brk, size)
    /\ UNCHANGED <<policy, crashed, clean>>

my_malloc_reuse(size) ==
    /\ Alive
    /\ Found(mem, brk, size) /\ Chosen(mem, brk, size) # brk
    /\ LET b == Chosen(mem, brk, size)
           whole == SizeTag(mem, b) = size
           inside == whole \/ (Tagged(Rest(mem, b, size)) /\ After(mem, b) \in Address)
       IN IF inside
          THEN /\ mem' = Taken(IF whole THEN mem ELSE Split(mem, b, size), brk, b, size)
               /\ Hand(b, size)
               /\ clean' = (clean /\ (whole \/ SizeTag(mem, b) >= size + ALLOC_DATA_SIZE))
               /\ UNCHANGED <<policy, brk, crashed>>
          ELSE Crash

(* The search runs past the break into memory that is not there. *)
my_malloc_astray(size) ==
    /\ Alive /\ ~Found(mem, brk, size)
    /\ Crash

(* my_free: the block is merged with the one before it, as its tag tells, and with
   the one behind it; the block behind that is not where `next` says: that is in the
   block that is merged. (MergedAfterData writes into what a caller holds.) *)
MergedBefore(m, b) ==
    IF Flag(m, m[b]) = 1 THEN [m EXCEPT ![m[b] + 1] = @ + SizeTag(m, b) + ALLOC_DATA_SIZE] ELSE m
MergedAfter(m, b, merged) ==
    LET n == After(m, b)
        into == IF merged THEN m[b] ELSE b
    IN IF Flag(m, n) = 1
       THEN [[m EXCEPT ![into + 1] = @ + SizeTag(m, n) + ALLOC_DATA_SIZE]
                EXCEPT ![n + SizeTag(m, n)] = m[b]]
       ELSE IF merged THEN [m EXCEPT ![n] = m[b]] ELSE m
Freed(m, b) ==
    LET flagged == [m EXCEPT ![b + 2] = 1]
        merged == Flag(flagged, m[b]) = 1
    IN MergedAfter(MergedBefore(flagged, b), b, merged)
(* Whether all that is read and written on the way is there *)
Reachable(m, b) ==
    LET flagged == [m EXCEPT ![b + 2] = 1]
        before == MergedBefore(flagged, b)
        n == After(before, b)
    IN /\ Tagged(m[b])
       /\ Tagged(n)
       /\ Flag(before, n) = 1 => (n + SizeTag(before, n)) \in Address

(* The last block goes back when it is large. Of what lies above the new break,
   only the rest of the page is kept. *)
Trimmed(m, last) ==
    \E page \in last..brk :
        mem' = [a \in Address |-> IF a \in page..brk THEN 0 ELSE m[a]]
my_free(p) ==
    LET b == p.at - ALLOC_DATA_SIZE
        m == Freed(mem, b)
        last == getPrev(m, brk, brk)
    IN /\ Alive /\ p \in live
       /\ IF Reachable(mem, b) /\ Tiled(m, brk)
          THEN /\ live' = live \ {p}
               /\ IF Flag(m, last) = 1 /\ SizeTag(m, last) >= TRIM
                  THEN brk' = last /\ Trimmed(m, last)
                  ELSE brk' = brk /\ mem' = m
               /\ clean' = (clean /\ b # First)
               /\ UNCHANGED <<policy, crashed>>
          ELSE Crash

(* What lies behind the last block may be no memory at all. *)
my_free_at_end(p) ==
    /\ Alive /\ p \in live
    /\ After(mem, p.at - ALLOC_DATA_SIZE) >= brk
    /\ Crash

(* my_mallinfo walks over all blocks: it ends only when they lead to the break. *)
my_mallinfo ==
    /\ Alive /\ ~Tiled(mem, brk)
    /\ Crash

my_mallopt(p) ==
    /\ Alive /\ policy # p
    /\ policy' = p
    /\ UNCHANGED <<mem, brk, live, crashed, clean>>

(* A caller fills its block: a value may look like a tag. *)
Store(p, value) ==
    /\ Alive /\ p \in live
    /\ mem' = [a \in Address |-> IF a \in p.at..(p.at + p.size - 1) THEN value ELSE mem[a]]
    /\ live' = (live \ {p}) \cup {[p EXCEPT !.data = value]}
    /\ UNCHANGED <<policy, brk, crashed, clean>>

MallocNext ==
    \/ \E size \in Sizes : my_malloc_grow(size) \/ my_malloc_reuse(size) \/ my_malloc_astray(size)
    \/ \E p \in live : my_free(p) \/ my_free_at_end(p) \/ \E value \in Values : Store(p, value)
    \/ \E p \in {FIRST_FIT, BEST_FIT} : my_mallopt(p)
    \/ my_mallinfo

MallocSpec == MallocInit /\ [][MallocNext]_mallocVars

MallocTypeOK ==
    /\ policy \in {FIRST_FIT, BEST_FIT}
    /\ mem \in [Address -> Int]
    /\ brk \in Address
    /\ live \in SUBSET [at : Address, size : Sizes, data : Values \cup {Unwritten}]
    /\ crashed \in BOOLEAN /\ clean \in BOOLEAN
    /\ calls \in 0..MaxCalls

Stored(p) == p.at..(p.at + p.size - 1)

(* No two callers hold the same memory, what a caller holds is a block that the walk
   comes to and that no search takes, and its words are those the caller stored,
   whatever tags were written since: as long as the first block was not freed (it is
   its own predecessor, and is merged with itself) and no block was split that had
   no room for another's tags. *)
BlocksApart ==
    clean => /\ Tiled(mem, brk)
             /\ \A p \in live :
                  /\ (p.at - ALLOC_DATA_SIZE) \in Blocks(mem, brk)
                  /\ Flag(mem, p.at - ALLOC_DATA_SIZE) # 1
                  /\ SizeTag(mem, p.at - ALLOC_DATA_SIZE) >= p.size
                  /\ p.data # Unwritten => \A a \in Stored(p) : mem[a] = p.data
             /\ \A p, q \in live : p # q => Stored(p) \cap Stored(q) = {}
=================================================================================
