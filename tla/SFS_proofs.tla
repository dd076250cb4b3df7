--------------------------------- MODULE SFS_proofs -------------------------------
(* The file system keeps its structures sound on the disk, for any sizes, any names,
   any calls and crashes anywhere. The invariant is about three things at once: what
   memory holds, what the disk holds, and what the running call has still to write.
   Induction over the length of a chain and over the rounds of a loop is that of a
   set of numbers (Induction below). *)
EXTENDS SFS, WellFoundedInduction, SequenceTheorems, TLAPS

(* The contents of a block, the entries of the two tables, and the writes that are queued. *)
Byte == (Slot \X Nat) \cup {NoByte}
Bytes == [1..BLOCK_SIZE -> Byte]
NodeEntry == [db_index : DataBlock \cup {0, -1, EMPTY}, next : Node \cup {-1, EMPTY}]
Table == [Node -> NodeEntry]
Directory == [table : [Slot -> Entry], next_cursor : Slot]
Chains == [table : Table, next_cursor : 0..MAX_DISK]
List == [Node -> {0, 1}]
DataWrite == [at : Int, kind : {"data"}, bytes : Bytes]
PendingWrite == DataWrite \cup {Save[k] : k \in 1..3}

(* A block holds zeros, data, or one of the three structures in its place. *)
BlockType(a) ==
    LET b == disk[a] IN
    \/ b.kind = "zero"
    \/ b.kind = "data" /\ b.content \in Bytes
    \/ b.kind = "root" /\ a = 0 /\ b.content \in Directory
    \/ b.kind = "fat" /\ a = 1 /\ b.content \in Chains
    \/ b.kind = "freebl" /\ a = MAX_DISK - 1 /\ b.content \in List

(* The variables have their types, the pending writes and the blocks of the disk too. *)
Types ==
    /\ root \in Directory /\ fat \in Chains /\ freebl \in List
    /\ opened_files \in 0..MAX_FILE
    /\ phase \in {"off", "idle", "busy", "stuck", "undefined"}
    /\ DOMAIN disk = Address /\ pos \in 0..MAX_DISK
    /\ written \in [Slot -> Nat] /\ acked \in [Slot -> Nat]
    /\ todo \in Seq(PendingWrite)
    /\ \A a \in Address : BlockType(a)

(* What mksfs(0) would read. *)
Stored(a, kind, zero) == IF disk[a].kind = kind THEN disk[a].content ELSE zero
StoredRoot == Stored(0, "root", ZeroRoot)
StoredFat == Stored(1, "fat", FatOf(0, 0))
StoredList == Stored(MAX_DISK - 1, "freebl", NoneUsed)
Readable == /\ disk[0].kind # "data" /\ disk[1].kind # "data" 
            /\ disk[MAX_DISK - 1].kind # "data"

(* What a call saves of an entry. *)
SavedEntry(e) == <<e.name, e.fat_index, e.size, e.wr_ptr>>
SameDir(d, e) == d.next_cursor = e.next_cursor /\ \A f \in Slot : SavedEntry(d.table[f]) = SavedEntry(e.table[f])

(* Data blocks are written first, then directory, table and list. What is written already
   is what memory holds, and between two calls all of it is. *)
TodoInv ==
    /\ phase = "busy" <=> todo # <<>>
    /\ \A k \in 1..Len(todo) :
          IF k <= Len(todo) - 3 THEN todo[k] \in DataWrite ELSE todo[k] = Save[k - Len(todo) + 3]
    /\ phase = "busy" /\ Len(todo) <= 2 => disk[0] = [kind |-> "root", content |-> root]
    /\ phase = "busy" /\ Len(todo) <= 1 => disk[1] = [kind |-> "fat", content |-> fat]
    /\ phase = "idle" => /\ SameDir(StoredRoot, root) /\ StoredFat = fat /\ StoredList = freebl /\ Readable

(* The entries below the cursor are in use: each has a block or none, and its successor is
   a later one that follows no other. The entries from the cursor on are not in use. *)
Sound(table, cursor) ==
    /\ \A n \in Node : n < cursor => table[n].db_index \in DataBlock \cup {-1}
    /\ \A n \in Node : n < cursor /\ table[n].next # -1 => table[n].next > n /\ table[n].next < cursor
    /\ \A n \in Node : n >= cursor => table[n].db_index \in {EMPTY, 0} /\ table[n].next \in {EMPTY, 0}
    /\ \A m, n \in Node :
          m < cursor /\ n < cursor /\ table[m].next = table[n].next => m = n \/ table[m].next = -1
Within(list, table) == \A b \in Node : list[b] = 1 => b \in DataBlock /\ \E n \in Node : table[n].db_index = b

(* The table is sound, on the disk and in memory, and has every block that is marked:
   the table in memory also those of the list on the disk, since it only grows. *)
DiskInv ==
    /\ disk[MAX_DISK - 1].kind = "freebl" => disk[1].kind # "zero"
    /\ disk[1].kind = "fat" => Sound(disk[1].content.table, disk[1].content.next_cursor)
    /\ disk[1].kind = "fat" /\ disk[MAX_DISK - 1].kind = "freebl" =>
           Within(disk[MAX_DISK - 1].content, disk[1].content.table)
    /\ Running => /\ Sound(fat.table, fat.next_cursor) /\ Within(freebl, fat.table)
                  /\ disk[MAX_DISK - 1].kind = "freebl" => Within(disk[MAX_DISK - 1].content, fat.table)

(* Every entry of the directory, used or not, begins its chain at or below the cursor;
   below it as soon as a handle was given out. This is what a write of the directory
   without its table leaves, and what makes the walk along a chain stay in the table. *)
Heads(rt, cursor) == \A f \in Slot : rt.table[f].fat_index <= cursor
HeadsInv ==
   /\ Running => Heads(root, fat.next_cursor)
   /\ Running /\ opened_files > 0 => Heads(root, fat.next_cursor - 1)
   /\ disk[1].kind # "data" => Heads(StoredRoot, StoredFat.next_cursor)
   /\ Len(todo) >= 3 /\ disk[1].kind # "data" => Heads(root, StoredFat.next_cursor)

(* The agreement of the three structures, in parts. *)
Named(rt, f) == rt.table[f].name # NoName
Marked(table, cursor, list) ==
    \A n \in Node : n < cursor /\ table[n].db_index # -1 => list[table[n].db_index] = 1
BlocksApart(table, cursor) ==
    \A m, n \in Node :
        m < cursor /\ n < cursor /\ table[m].db_index = table[n].db_index => m = n \/ table[m].db_index = -1
Rooted(rt, table, cursor) ==
    \A f \in Slot : Named(rt, f) =>
        /\ rt.table[f].fat_index < cursor
        /\ \A n \in Node : n < cursor => table[n].next # rt.table[f].fat_index
HeadsApart(rt) ==
    \A f, g \in Slot : Named(rt, f) /\ Named(rt, g) /\ rt.table[f].fat_index = rt.table[g].fat_index => f = g
Agree(rt, table, cursor, list) ==
    /\ Marked(table, cursor, list)
    /\ BlocksApart(table, cursor)
    /\ Rooted(rt, table, cursor)
    /\ HeadsApart(rt)
Full(rt) == \A f \in Slot : f < rt.next_cursor => Named(rt, f)
Handles == (\A f \in Slot : Named(root, f)) \/ opened_files <= root.next_cursor

(* They agree in memory, and on the disk when the process is gone or has written none
   of the three. The handles go by the directory: the next new file overwrites the name
   of no other. *)
AgreeInv ==
    ~torn =>
      /\ Running => Agree(root, fat.table, fat.next_cursor, freebl) /\ Full(root) /\ Handles
      /\ Readable /\ (phase = "off" \/ Len(todo) >= 3) =>
             Agree(StoredRoot, StoredFat.table, StoredFat.next_cursor, StoredList) /\ Full(StoredRoot)

(* The inductive invariant. *)
IInv == Types /\ TodoInv /\ DiskInv /\ HeadsInv /\ AgreeInv

(* A set of numbers that is not empty has a smallest. *)
LEMMA Smallest == ASSUME NEW T, T \subseteq Nat, T # {} PROVE \E m \in T : \A k \in T : m <= k
<1> DEFINE R == {ss \in Nat \X Nat : ss[1] < ss[2]}
<1>1. IsWellFoundedOn(R, Nat)
  BY NatLessThanWellFounded DEF OpToRel
<1>2. PICK x \in T : \A y \in T : ~(<<y, x>> \in R)
  BY <1>1, WFMin
<1>3. ASSUME NEW y \in T PROVE x <= y
  <2>1. <<y, x>> \notin R /\ x \in Nat /\ y \in Nat
    BY <1>2
  <2>2. <<y, x>> \in Nat \X Nat /\ <<y,x>>[1] = y /\ <<y,x>>[2] = x
    BY <2>1
  <2>3. ~(y < x)
    BY <2>1, <2>2, Zenon
  <2> QED BY <2>1, <2>3
<1> QED BY <1>3

(* Induction, for a set. *)
LEMMA Induction ==
    ASSUME NEW S, 0 \in S, \A n \in Nat : n \in S => n + 1 \in S
    PROVE  Nat \subseteq S
<1> SUFFICES ASSUME Nat \ S # {} PROVE FALSE
  OBVIOUS
<1>1. PICK m \in Nat \ S : \A k \in Nat \ S : m <= k
  BY Smallest
<1>2. m # 0 /\ m - 1 \in Nat
  BY <1>1
<1>3. m - 1 \in S
  BY <1>1, <1>2
<1> QED BY <1>1, <1>2, <1>3

(* What follows from the sizes. *)
LEMMA Numbers ==
    /\ MAX_DISK \in Nat /\ MAX_DISK >= 4 /\ MAX_FILE \in Nat \ {0} /\ BLOCK_SIZE \in Nat \ {0}
    /\ Node = Address /\ DataBlock \subseteq Node /\ 0 \notin DataBlock /\ 1 \notin DataBlock
    /\ MAX_DISK - 1 \notin DataBlock /\ {0, 1, MAX_DISK - 1} \subseteq Node
    /\ -1 \notin Node /\ EMPTY \notin Node /\ EMPTY # -1 /\ Node \subseteq Nat
BY SFSAssumption DEF Node, Address, DataBlock, EMPTY

(* The searches for the first of several numbers. *)
LEMMA FreeBlockFound ==
    ASSUME NEW list \in List
    PROVE  FreeBlock(list) = -1 \/ (FreeBlock(list) \in DataBlock /\ list[FreeBlock(list)] = 0)
<1> DEFINE free == {b \in DataBlock : list[b] = 0}
<1>1. CASE free = {}
  BY <1>1 DEF FreeBlock
<1>2. CASE free # {}
  <2>1. \E m \in free : \A k \in free : m <= k
    <3>1. free \subseteq Nat
      BY Numbers
    <3> HIDE DEF free
    <3> QED BY <1>2, <3>1, Smallest
  <2>2. FreeBlock(list) = CHOOSE b \in free : \A c \in free : b <= c
    BY <1>2 DEF FreeBlock
  <2>3. FreeBlock(list) \in free
    BY <2>1, <2>2
  <2> QED BY <2>3
<1> QED BY <1>1, <1>2

(* The block found, as a number. *)
LEMMA FreeBlockType ==
    ASSUME NEW list \in List
    PROVE  FreeBlock(list) \in DataBlock \cup {-1} /\ FreeBlock(list) \in Int
<1>1. \A b \in DataBlock \cup {-1} : b \in Int
  BY DEF DataBlock
<1>2. FreeBlock(list) = -1 \/ FreeBlock(list) \in DataBlock
  BY FreeBlockFound
<1>3. FreeBlock(list) \in DataBlock \cup {-1}
  BY <1>2
<1> QED BY <1>1, <1>3

(* Marking changes one entry. *)
LEMMA TakenList ==
    ASSUME NEW list \in List, NEW b \in DataBlock \cup {-1}
    PROVE  /\ Taken(list, b) \in List
           /\ \A a \in Node : Taken(list, b)[a] = IF a = b THEN 1 ELSE list[a]
BY Numbers DEF Taken, List

(* No entry below the cursor is empty, so the cursor goes on by one even at the end. *)
LEMMA NextCursorFound ==
    ASSUME NEW table \in Table, NEW c \in Node,
           \A n \in Node : n <= c => table[n].db_index # EMPTY
    PROVE  NextCursor(table, c) = c + 1
<1>1. c + 1 < MAX_DISK \/ c + 1 = MAX_DISK
  BY Numbers DEF Node
<1>2. CASE c + 1 = MAX_DISK
  <2>1. {n \in Node : table[n].db_index = EMPTY} = {}
    BY <1>2, Numbers DEF Node
  <2> QED BY <1>2, <2>1 DEF NextCursor
<1> QED BY <1>1, <1>2 DEF NextCursor

(* The directory goes on by one, or wraps. *)
LEMMA NextEntryFound ==
    ASSUME NEW table \in [Slot -> Entry], NEW e \in Slot
    PROVE  /\ NextEntry(table, e) \in Slot \cup {MAX_FILE}
           /\ NextEntry(table, e) # e + 1 => e + 1 = MAX_FILE
<1> DEFINE nonempty == {f \in Slot : table[f].size > 0}
<1>1. e + 1 < MAX_FILE \/ e + 1 = MAX_FILE
  BY Numbers DEF Slot
<1>2. CASE e + 1 < MAX_FILE
  BY <1>2, Numbers DEF NextEntry, Slot
<1>3. CASE e + 1 = MAX_FILE /\ nonempty = {}
  BY <1>3 DEF NextEntry
<1>4. CASE e + 1 = MAX_FILE /\ nonempty # {}
  <2>1. \E m \in nonempty : \A k \in nonempty : m <= k
    <3>1. nonempty \subseteq Nat
      BY Numbers DEF Slot
    <3> HIDE DEF nonempty
    <3> QED BY <1>4, <3>1, Smallest
  <2>2. NextEntry(table, e) = CHOOSE f \in nonempty : \A g \in nonempty : f <= g
    BY <1>4, Numbers DEF NextEntry
  <2>3. NextEntry(table, e) \in nonempty
    BY <2>1, <2>2
  <2> QED BY <2>3, <1>4
<1> QED BY <1>1, <1>2, <1>3, <1>4

(* The chains *)
After(table, n) == IF n \in Node THEN table[n].next ELSE n

(* The recursive definition of a chain is its equation. *)
LEMMA NthSteps ==
    ASSUME NEW table, NEW h
    PROVE  /\ Nth(table, h)[0] = h
           /\ \A k \in 1..MAX_DISK : Nth(table, h)[k] = After(table, Nth(table, h)[k - 1])
<1> DEFINE Q(g, m) == g = [k \in 0..m |-> IF k = 0 THEN h ELSE After(table, g[k - 1])]
           S == {m \in Nat : \E g : Q(g, m)}
<1>1. 0 \in S
  <2>1. Q([k \in 0..0 |-> h], 0)
    OBVIOUS
  <2> QED BY <2>1
<1>2. ASSUME NEW m \in Nat, m \in S PROVE m + 1 \in S
  <2>1. PICK g : Q(g, m)
    BY <1>2
  <2> DEFINE G == [k \in 0..(m + 1) |-> IF k \in 0..m THEN g[k] ELSE After(table, g[m])]
  <2>2. \A k \in 0..m : G[k] = g[k] /\ k \in 0..(m + 1)
    OBVIOUS
  <2>3. \A k \in 0..m : g[k] = IF k = 0 THEN h ELSE After(table, g[k - 1])
    BY <2>1
  <2>4. \A k \in 0..(m + 1) : G[k] = IF k = 0 THEN h ELSE After(table, G[k - 1])
    <3>1. ASSUME NEW k \in 0..m PROVE G[k] = IF k = 0 THEN h ELSE After(table, G[k - 1])
      <4>1. k # 0 => k - 1 \in 0..m
        OBVIOUS
      <4> HIDE DEF G
      <4> QED BY <2>2, <2>3, <4>1
    <3>2. G[m + 1] = After(table, g[m]) /\ G[m] = g[m] /\ m + 1 # 0 /\ m + 1 - 1 = m
      OBVIOUS
    <3> HIDE DEF G
    <3> QED BY <3>1, <3>2
  <2>5. Q(G, m + 1)
    <3>1. G = [k \in 0..(m + 1) |-> G[k]]
      OBVIOUS
    <3> HIDE DEF G
    <3> QED BY <2>4, <3>1
  <2> HIDE DEF Q, G
  <2> QED BY <2>5
<1>3. Nat \subseteq S
  <2> HIDE DEF S
  <2> QED BY <1>1, <1>2, Induction
<1>4. \E g : Q(g, MAX_DISK)
  BY <1>3, Numbers
<1> DEFINE node == Nth(table, h)
<1>5. node = CHOOSE g : Q(g, MAX_DISK)
  BY DEF Nth, After
<1>6. Q(node, MAX_DISK)
  BY <1>4, <1>5
<1>8. MAX_DISK \in Nat
  BY Numbers
<1> HIDE DEF node
<1>7. \A k \in 0..MAX_DISK : node[k] = IF k = 0 THEN h ELSE After(table, node[k - 1])
  BY <1>6, <1>8
<1>9. node[0] = h /\ \A k \in 1..MAX_DISK : node[k] = After(table, node[k - 1])
  BY <1>7, <1>8
<1> QED BY <1>9 DEF node

(* Along a chain there are nodes, or the end. *)
LEMMA ChainNodes ==
    ASSUME NEW table \in Table, NEW h \in Node
    PROVE  \A k \in 0..MAX_DISK : Nth(table, h)[k] \in Node \cup {-1, EMPTY}
<1> DEFINE S == {k \in Nat : k <= MAX_DISK => Nth(table, h)[k] \in Node \cup {-1, EMPTY}}
<1>1. 0 \in S
  BY NthSteps
<1>2. ASSUME NEW k \in Nat, k \in S PROVE k + 1 \in S
  <2> SUFFICES ASSUME k + 1 <= MAX_DISK PROVE Nth(table, h)[k + 1] \in Node \cup {-1, EMPTY}
    OBVIOUS
  <2>1. k + 1 \in 1..MAX_DISK /\ k + 1 - 1 = k /\ k <= MAX_DISK
    BY Numbers
  <2>2. Nth(table, h)[k + 1] = After(table, Nth(table, h)[k])
    BY <2>1, NthSteps
  <2>3. Nth(table, h)[k] \in Node \cup {-1, EMPTY}
    BY <1>2, <2>1
  <2> HIDE DEF S
  <2> QED BY <2>2, <2>3 DEF After, Table, NodeEntry
<1>3. Nat \subseteq S
  <2> HIDE DEF S
  <2> QED BY <1>1, <1>2, Induction
<1> QED BY <1>3, Numbers

(* Past the end of a chain, and past an entry that is not in use, nothing changes. *)
LEMMA EmptyStays ==
    ASSUME NEW table \in Table, NEW h \in Node, NEW k \in 0..MAX_DISK, Nth(table, h)[k] = EMPTY
    PROVE  Nth(table, h)[MAX_DISK] = EMPTY
<1> DEFINE S == {d \in Nat : k + d <= MAX_DISK => Nth(table, h)[k + d] = EMPTY}
<1>0. MAX_DISK \in Nat /\ k \in Nat /\ k <= MAX_DISK
  BY Numbers
<1>1. 0 \in S
  BY <1>0
<1>2. ASSUME NEW d \in Nat, d \in S PROVE d + 1 \in S
  <2> SUFFICES ASSUME k + (d + 1) <= MAX_DISK PROVE Nth(table, h)[k + (d + 1)] = EMPTY
    OBVIOUS
  <2>1. k + (d + 1) \in 1..MAX_DISK /\ k + (d + 1) - 1 = k + d /\ k + d <= MAX_DISK
    BY <1>0
  <2>2. Nth(table, h)[k + (d + 1)] = After(table, Nth(table, h)[k + d])
    BY <2>1, NthSteps
  <2>3. Nth(table, h)[k + d] = EMPTY
    BY <1>2, <2>1
  <2> HIDE DEF S
  <2> QED BY <2>2, <2>3, Numbers DEF After
<1>3. Nat \subseteq S
  <2> HIDE DEF S
  <2> QED BY <1>1, <1>2, Induction
<1>4. MAX_DISK - k \in Nat /\ k + (MAX_DISK - k) = MAX_DISK
  BY <1>0
<1>5. MAX_DISK - k \in S
  BY <1>3, <1>4
<1> QED BY <1>4, <1>5, <1>0

(* A chain that ends has nodes up to its length, and each follows the one before. *)
LEMMA ChainFacts ==
    ASSUME NEW table \in Table, NEW h \in Node, Ends(table, h)
    PROVE  /\ ChainLength(table, h) \in 1..MAX_DISK
           /\ Nth(table, h)[0] = h
           /\ \A k \in 0..(ChainLength(table, h) - 1) :
                 /\ Nth(table, h)[k] \in Node
                 /\ Nth(table, h)[k + 1] = table[Nth(table, h)[k]].next
           /\ Nth(table, h)[ChainLength(table, h)] = -1
<1> DEFINE nth == Nth(table, h)
           L   == ChainLength(table, h)
           ends == {k \in 0..MAX_DISK : nth[k] = -1}
<1>0. MAX_DISK \in Nat /\ MAX_DISK >= 4 /\ -1 \notin Node /\ EMPTY \notin Node /\ EMPTY # -1
  BY Numbers
<1>1. nth[0] = h /\ \A k \in 1..MAX_DISK : nth[k] = After(table, nth[k - 1])
  BY NthSteps
<1>2. \A k \in 0..MAX_DISK : nth[k] \in Node \cup {-1, EMPTY}
  BY ChainNodes
<1>3. nth[MAX_DISK] = -1
  BY DEF Ends
<1>4. \A k \in 0..MAX_DISK : nth[k] # EMPTY
  BY <1>3, <1>0, EmptyStays
<1>5. L = CHOOSE k \in 0..MAX_DISK : nth[k] = -1 /\ \A j \in 0..(k - 1) : nth[j] # -1
  BY DEF ChainLength
<1> HIDE DEF nth, L
<1>6. \E k \in 0..MAX_DISK : nth[k] = -1 /\ \A j \in 0..(k - 1) : nth[j] # -1
  <2>1. ends \subseteq Nat /\ ends # {}
    BY <1>3, <1>0
  <2>2. PICK k \in ends : \A j \in ends : k <= j
    <3> HIDE DEF ends
    <3> QED BY <2>1, Smallest
  <2>3. \A j \in 0..(k - 1) : nth[j] # -1
    BY <2>2, <1>0
  <2> QED BY <2>2, <2>3
<1>7. L \in 0..MAX_DISK /\ nth[L] = -1 /\ \A j \in 0..(L - 1) : nth[j] # -1
  BY <1>5, <1>6, Zenon
<1>8. L # 0
  BY <1>1, <1>7, <1>0
<1>9. L \in 1..MAX_DISK
  BY <1>7, <1>8, <1>0
<1>10. ASSUME NEW k \in 0..(L - 1) PROVE nth[k] \in Node /\ nth[k + 1] = table[nth[k]].next
  <2>1. k \in 0..MAX_DISK /\ k + 1 \in 1..MAX_DISK /\ k + 1 - 1 = k
    BY <1>9, <1>0
  <2>2. nth[k] \in Node
    BY <1>2, <1>4, <1>7, <2>1
  <2>3. nth[k + 1] = After(table, nth[k])
    BY <1>1, <2>1
  <2> QED BY <2>2, <2>3 DEF After
<1> QED BY <1>1, <1>7, <1>9, <1>10 DEF nth, L

(* In a sound table the chain of a node that was allocated stays among such nodes. *)
LEMMA ChainUsed ==
    ASSUME NEW table \in Table, NEW h \in Node, Ends(table, h),
           NEW cursor \in 0..MAX_DISK, Sound(table, cursor), h < cursor
    PROVE  \A k \in 0..(ChainLength(table, h) - 1) : Nth(table, h)[k] < cursor
<1> DEFINE nth == Nth(table, h)
           L   == ChainLength(table, h)
           S == {k \in Nat : k <= L - 1 => nth[k] < cursor}
<1>0. /\ L \in Nat /\ nth[0] = h /\ -1 \notin Node
      /\ \A k \in 0..(L - 1) : nth[k] \in Node /\ nth[k + 1] = table[nth[k]].next
  BY ChainFacts, Numbers
<1> HIDE DEF nth, L
<1>1. 0 \in S
  BY <1>0
<1>2. ASSUME NEW k \in Nat, k \in S PROVE k + 1 \in S
  <2> SUFFICES ASSUME k + 1 <= L - 1 PROVE nth[k + 1] < cursor
    OBVIOUS
  <2>1. k \in 0..(L - 1) /\ k + 1 \in 0..(L - 1) /\ k <= L - 1
    BY <1>0
  <2>2. nth[k] \in Node /\ nth[k] < cursor /\ nth[k + 1] = table[nth[k]].next /\ nth[k + 1] \in Node
    BY <1>0, <1>2, <2>1
  <2>3. nth[k + 1] # -1
    BY <1>0, <2>2
  <2> HIDE DEF S
  <2> QED BY <2>2, <2>3 DEF Sound
<1>3. Nat \subseteq S
  <2> HIDE DEF S
  <2> QED BY <1>1, <1>2, Induction
<1>4. \A k \in 0..(L - 1) : nth[k] < cursor
  BY <1>3, <1>0
<1> QED BY <1>4 DEF nth, L

(* The step of sfs_open and sfs_write: one entry more at the cursor, behind last (or behind
   nothing, for a new file), with the first free block. *)
LEMMA NodeAdded ==
    ASSUME NEW table \in Table, NEW c \in Node, NEW list \in List, Sound(table, c),
           NEW last \in Node, last <= c, last # c => table[last].next = -1,
           NEW t \in Table, t[c].db_index = FreeBlock(list), t[c].next = -1,
           \A n \in Node \ {c} : /\ t[n].db_index = table[n].db_index
                                 /\ t[n].next = IF n = last THEN c ELSE table[n].next
    PROVE  /\ Sound(t, c + 1)
           /\ NextCursor(t, c) = c + 1
           /\ Taken(list, FreeBlock(list)) \in List
           /\ \A l \in List : Within(l, table) => Within(l, t)
           /\ Within(list, table) => Within(Taken(list, FreeBlock(list)), t)
           /\ Marked(table, c, list) => Marked(t, c + 1, Taken(list, FreeBlock(list)))
           /\ Marked(table, c, list) /\ BlocksApart(table, c) => BlocksApart(t, c + 1)
<1> DEFINE db == FreeBlock(list)
           list2 == Taken(list, db)
<1>0. /\ c \in Nat /\ last \in Nat /\ Node \subseteq Nat /\ -1 \notin Node /\ EMPTY \notin Node /\ EMPTY # -1
      /\ 0 \notin DataBlock /\ DataBlock \subseteq Node /\ EMPTY = -2
  BY Numbers DEF EMPTY
<1>1. db \in DataBlock \cup {-1} /\ (db # -1 => list[db] = 0)
  BY FreeBlockFound
<1>2. list2 \in List /\ \A a \in Node : list2[a] = IF a = db THEN 1 ELSE list[a]
  BY <1>1, TakenList
<1>3. \A n \in Node : n < c => table[n].db_index \in DataBlock \cup {-1}
  BY DEF Sound
<1>4. \A n \in Node : n < c /\ table[n].next # -1 => table[n].next > n /\ table[n].next < c
  BY DEF Sound
<1>5. \A n \in Node : n >= c => table[n].db_index \in {EMPTY, 0} /\ table[n].next \in {EMPTY, 0}
  BY DEF Sound
<1>6. \A m, n \in Node :
          m < c /\ n < c /\ table[m].next = table[n].next => m = n \/ table[m].next = -1
  BY DEF Sound
<1>7. \A n \in Node : n < c + 1 <=> n < c \/ n = c
  BY <1>0
<1>8. t[c].db_index = db /\ t[c].next = -1
  OBVIOUS
<1> HIDE DEF db, list2
<1>9. \A n \in Node : table[n].next \in Node \cup {-1, EMPTY} /\ table[n].db_index \in DataBlock \cup {0, -1, EMPTY}
  BY DEF Table, NodeEntry
<1>10. Sound(t, c + 1)
  <2>1. \A n \in Node : n < c + 1 => t[n].db_index \in DataBlock \cup {-1}
    BY <1>1, <1>3, <1>7, <1>8
  <2>2. ASSUME NEW n \in Node, n < c + 1, t[n].next # -1 PROVE t[n].next > n /\ t[n].next < c + 1
    <3>1. n < c
      BY <2>2, <1>7, <1>8
    <3>2. CASE n = last
      BY <3>1, <3>2, <1>0
    <3>3. CASE n # last
      <4>0. n \in Nat /\ n # c /\ n \in Node \ {c}
        BY <3>1, <1>0
      <4>1. t[n].next = table[n].next /\ n \in Nat
        BY <3>3, <4>0
      <4>2. table[n].next \in Node
        BY <4>1, <3>1, <1>0, <1>4, <1>9, <2>2
      <4>3. table[n].next > n /\ table[n].next < c /\ table[n].next \in Nat
        BY <3>1, <4>1, <4>2, <1>4, <1>0, <2>2
      <4> QED BY <4>1, <4>3, <1>0
    <3> QED BY <3>2, <3>3
  <2>3. ASSUME NEW n \in Node, n >= c + 1 PROVE t[n].db_index \in {EMPTY, 0} /\ t[n].next \in {EMPTY, 0}
    <3>1. n # c /\ n # last /\ n >= c
      BY <2>3, <1>0
    <3> QED BY <3>1, <1>5
  <2>4. ASSUME NEW m \in Node, NEW n \in Node, m < c + 1, n < c + 1, t[m].next = t[n].next, t[m].next # -1
        PROVE  m = n
    <3>1. m < c /\ n < c
      BY <2>4, <1>7, <1>8
    <3>2. m # last => t[m].next = table[m].next /\ table[m].next # c
      BY <3>1, <1>4, <1>9, <1>0, <2>4
    <3>3. n # last => t[n].next = table[n].next /\ table[n].next # c
      BY <3>1, <1>4, <1>9, <1>0, <2>4
    <3>4. CASE m = last \/ n = last
      BY <3>1, <3>2, <3>3, <3>4, <2>4, <1>0
    <3>5. CASE m # last /\ n # last
      BY <3>1, <3>2, <3>3, <3>5, <1>6, <2>4
    <3> QED BY <3>4, <3>5
  <2> QED BY <2>1, <2>2, <2>3, <2>4 DEF Sound
<1>11. NextCursor(t, c) = c + 1
  <2>1. \A n \in Node : n <= c => t[n].db_index # EMPTY
    <3>1. \A n \in Node : n <= c => n < c + 1
      BY <1>0
    <3>2. EMPTY \notin DataBlock \cup {-1}
      BY <1>0
    <3> QED BY <3>1, <3>2, <1>10 DEF Sound
  <2> QED BY <2>1, NextCursorFound
<1>12. ASSUME NEW l \in List, Within(l, table) PROVE Within(l, t)
  <2> SUFFICES ASSUME NEW b \in Node, l[b] = 1
               PROVE  b \in DataBlock /\ \E n \in Node : t[n].db_index = b
    BY DEF Within
  <2>1. b \in DataBlock /\ \E n \in Node : table[n].db_index = b
    BY <1>12 DEF Within
  <2>2. PICK n \in Node : table[n].db_index = b
    BY <2>1
  <2>3. n # c
    BY <2>1, <2>2, <1>0, <1>5
  <2>4. t[n].db_index = b
    BY <2>2, <2>3
  <2> QED BY <2>1, <2>4
<1>13. ASSUME Within(list, table) PROVE Within(list2, t)
  <2> SUFFICES ASSUME NEW b \in Node, list2[b] = 1
               PROVE  b \in DataBlock /\ \E n \in Node : t[n].db_index = b
    BY DEF Within
  <2>1. CASE b = db
    BY <2>1, <1>0, <1>1, <1>8
  <2>2. CASE b # db
    <3>1. Within(list, t) /\ list[b] = 1
      BY <1>12, <1>13, <1>2, <2>2
    <3> QED BY <3>1 DEF Within
  <2> QED BY <2>1, <2>2
<1>14. ASSUME Marked(table, c, list) PROVE Marked(t, c + 1, list2)
  <2> SUFFICES ASSUME NEW n \in Node, n < c + 1, t[n].db_index # -1
               PROVE  list2[t[n].db_index] = 1
    BY DEF Marked
  <2>1. CASE n = c
    BY <2>1, <1>0, <1>1, <1>2, <1>8
  <2>2. CASE n # c
    <3>1. n < c /\ t[n].db_index = table[n].db_index
      BY <2>2, <1>7
    <3>2. table[n].db_index \in Node /\ list[table[n].db_index] = 1
      BY <3>1, <1>0, <1>3, <1>14 DEF Marked
    <3> QED BY <3>1, <3>2, <1>2
  <2> QED BY <2>1, <2>2
<1>15. ASSUME Marked(table, c, list), BlocksApart(table, c) PROVE BlocksApart(t, c + 1)
  <2>1. \A n \in Node : n < c => table[n].db_index = -1 \/ table[n].db_index # db
    BY <1>1, <1>15 DEF Marked
  <2> SUFFICES ASSUME NEW m \in Node, NEW n \in Node, m < c + 1, n < c + 1,
                      t[m].db_index = t[n].db_index, t[m].db_index # -1
               PROVE  m = n
    BY DEF BlocksApart
  <2>2. m < c \/ m = c
    BY <1>7
  <2>3. n < c \/ n = c
    BY <1>7
  <2>4. CASE m = c \/ n = c
    BY <2>1, <2>2, <2>3, <2>4, <1>8
  <2>5. CASE m # c /\ n # c
    BY <2>2, <2>3, <2>5, <1>15 DEF BlocksApart
  <2> QED BY <2>4, <2>5
<1> QED BY <1>2, <1>10, <1>11, <1>12, <1>13, <1>14, <1>15 DEF db, list2

(* The files keep their chains when a node is added. *)
LEMMA RootedKept ==
    ASSUME NEW table \in Table, NEW c \in Node, Sound(table, c), NEW rt \in Directory, Rooted(rt, table, c),
           NEW last \in Node,
           NEW t \in Table, t[c].next = -1,
           \A n \in Node \ {c} : t[n].next = IF n = last THEN c ELSE table[n].next
    PROVE  Rooted(rt, t, c + 1)
<1>0. c \in Nat /\ Node \subseteq Nat /\ -1 \notin Node
  BY Numbers
<1> SUFFICES ASSUME NEW f \in Slot, Named(rt, f)
             PROVE  /\ rt.table[f].fat_index < c + 1
                    /\ \A n \in Node : n < c + 1 => t[n].next # rt.table[f].fat_index
  BY DEF Rooted
<1>1. /\ rt.table[f].fat_index < c
      /\ \A n \in Node : n < c => table[n].next # rt.table[f].fat_index
  BY DEF Rooted
<1>2. rt.table[f].fat_index \in Node
  BY DEF Directory, Entry
<1>3. ASSUME NEW n \in Node, n < c + 1 PROVE t[n].next # rt.table[f].fat_index
  <2>1. n < c \/ n = c
    BY <1>0, <1>3
  <2> QED BY <1>0, <1>1, <1>2, <2>1
<1>4. rt.table[f].fat_index < c + 1
  <2>1. PICK h \in Nat : h = rt.table[f].fat_index
    BY <1>0, <1>2
  <2>2. h < c
    BY <1>1, <2>1
  <2>3. h < c + 1
    BY <1>0, <2>2
  <2> QED BY <2>1, <2>3
<1> QED BY <1>3, <1>4

---------------------------------------------------------------------------------
(* Bytes and blocks *)

(* Numbers of bytes and blocks. *)
LEMMA Times == ASSUME NEW a \in Nat, NEW b \in Nat PROVE a * b \in Nat
OBVIOUS

(* Division into blocks. *)
LEMMA Quotient == ASSUME NEW a \in Nat, NEW b \in Nat \ {0} PROVE a \div b \in Nat /\ a % b \in 0..(b - 1)
OBVIOUS

(* A part of a sequence of bytes. *)
LEMMA Piece ==
    ASSUME NEW s \in Seq(Byte), NEW m \in Nat \ {0}, NEW n \in Int, n <= Len(s)
    PROVE  SubSeq(s, m, n) \in Seq(Byte)
<1>1. CASE n < m
  BY <1>1
<1>2. CASE n >= m
  BY <1>2, SubSeqProperties
<1> QED BY <1>1, <1>2

(* The file position stays on the disk. *)
LEMMA PositionTypes ==
    ASSUME NEW p \in 0..MAX_DISK, NEW a \in Int
    PROVE  Past(p, a) \in 0..MAX_DISK
BY Numbers DEF Past, Seek

(* Whatever block is read, from the disk or past its end, it holds bytes. *)
LEMMA BlockRead ==
    ASSUME NEW p \in 0..MAX_DISK, NEW a \in Int, Types
    PROVE  BytesAt(p, a) \in Bytes
<1>1. Blank \in Bytes
  BY DEF Blank, Bytes, Byte
<1>2. ASSUME NEW b \in Address, disk[b].kind = "data" PROVE disk[b].content \in Bytes
  BY <1>2 DEF Types, BlockType
<1> QED BY <1>1, <1>2 DEF BytesAt

(* A block with some bytes replaced is a block. *)
LEMMA OverlayTypes ==
    ASSUME NEW buffer \in Bytes, NEW at \in Nat, NEW bytes \in Seq(Byte)
    PROVE  Overlay(buffer, at, bytes) \in Bytes
<1>1. ASSUME NEW k \in 1..BLOCK_SIZE
      PROVE  (IF k \in (at + 1)..(at + Len(bytes)) THEN bytes[k - at] ELSE buffer[k]) \in Byte
  <2>1. CASE k \in (at + 1)..(at + Len(bytes))
    <3>1. k - at \in 1..Len(bytes)
      BY <2>1
    <3>2. bytes[k - at] \in Byte
      BY <3>1, ElementOfSeq
    <3> QED BY <2>1, <3>2
  <2>2. CASE k \notin (at + 1)..(at + Len(bytes))
    BY <2>2 DEF Bytes
  <2> QED BY <2>1, <2>2
<1> QED BY <1>1 DEF Overlay, Bytes

---------------------------------------------------------------------------------
(* The loop of sfs_write *)

(* The recursive definition of the loop of sfs_write is its equation. *)
LEMMA ExtendedSteps ==
    ASSUME NEW first, NEW bytes, NEW n0, NEW blocks \in Nat
    PROVE  /\ Extended(first, bytes, n0, blocks)[0] = first
           /\ \A k \in 1..blocks :
                 Extended(first, bytes, n0, blocks)[k] =
                 NewBlock(Extended(first, bytes, n0, blocks)[k - 1],
                          SubSeq(bytes, n0 + (k - 1) * BLOCK_SIZE + 1, Least(Len(bytes), n0 + k * BLOCK_SIZE)))
<1> DEFINE piece(k) == SubSeq(bytes, n0 + (k - 1) * BLOCK_SIZE + 1, Least(Len(bytes), n0 + k * BLOCK_SIZE))
           Q(g, m) == g = [k \in 0..m |-> IF k = 0 THEN first ELSE NewBlock(g[k - 1], piece(k))]
           S == {m \in Nat : \E g : Q(g, m)}
           loop == Extended(first, bytes, n0, blocks)
<1>0. loop = CHOOSE g : Q(g, blocks)
  BY DEF Extended
<1> HIDE DEF piece, loop
<1>1. 0 \in S
  <2>1. Q([k \in 0..0 |-> first], 0)
    OBVIOUS
  <2> QED BY <2>1
<1>2. ASSUME NEW m \in Nat, m \in S PROVE m + 1 \in S
  <2>1. PICK g : Q(g, m)
    BY <1>2
  <2> DEFINE G == [k \in 0..(m + 1) |-> IF k \in 0..m THEN g[k] ELSE NewBlock(g[m], piece(m + 1))]
  <2>2. \A k \in 0..m : G[k] = g[k] /\ k \in 0..(m + 1)
    OBVIOUS
  <2>3. \A k \in 0..m : g[k] = IF k = 0 THEN first ELSE NewBlock(g[k - 1], piece(k))
    BY <2>1
  <2>4. \A k \in 0..(m + 1) : G[k] = IF k = 0 THEN first ELSE NewBlock(G[k - 1], piece(k))
    <3>1. ASSUME NEW k \in 0..m PROVE G[k] = IF k = 0 THEN first ELSE NewBlock(G[k - 1], piece(k))
      <4>1. k # 0 => k - 1 \in 0..m
        OBVIOUS
      <4> HIDE DEF G
      <4> QED BY <2>2, <2>3, <4>1
    <3>2. G[m + 1] = NewBlock(g[m], piece(m + 1)) /\ G[m] = g[m] /\ m + 1 # 0 /\ m + 1 - 1 = m
      OBVIOUS
    <3> HIDE DEF G
    <3> QED BY <3>1, <3>2
  <2>5. Q(G, m + 1)
    <3>1. G = [k \in 0..(m + 1) |-> G[k]]
      OBVIOUS
    <3> HIDE DEF G
    <3> QED BY <2>4, <3>1
  <2> HIDE DEF Q, G
  <2> QED BY <2>5
<1>3. Nat \subseteq S
  <2> HIDE DEF S
  <2> QED BY <1>1, <1>2, Induction
<1>4. \E g : Q(g, blocks)
  BY <1>3
<1>5. Q(loop, blocks)
  BY <1>0, <1>4
<1>6. \A k \in 0..blocks : loop[k] = IF k = 0 THEN first ELSE NewBlock(loop[k - 1], piece(k))
  BY <1>5
<1>7. loop[0] = first /\ \A k \in 1..blocks : loop[k] = NewBlock(loop[k - 1], piece(k))
  BY <1>6
<1> QED BY <1>7 DEF loop, piece

(* The state of the loop. *)
LoopState ==
    [table : Table, cursor : 0..MAX_DISK, list : List, last : Node, buffer : Bytes, writes : Seq(DataWrite)]

(* What the loop keeps of a table, a cursor and a list with which it begins. *)
LoopInv(s, table, cursor, list) ==
    /\ s \in LoopState
    /\ Sound(s.table, s.cursor) /\ cursor <= s.cursor
    /\ s.last < s.cursor /\ s.table[s.last].next = -1
    /\ \A l \in List : Within(l, table) => Within(l, s.table)
    /\ Within(list, table) => Within(s.list, s.table)
    /\ Marked(table, cursor, list) /\ BlocksApart(table, cursor) =>
           Marked(s.table, s.cursor, s.list) /\ BlocksApart(s.table, s.cursor)
    /\ \A rt \in Directory : Rooted(rt, table, cursor) => Rooted(rt, s.table, s.cursor)

(* The table after one round. *)
Linked(table, last, c, db) == [table EXCEPT ![last].next = c, ![c] = [db_index |-> db, next |-> -1]]

(* It changes the successor of last and the entry at the cursor. *)
LEMMA LinkedTable ==
    ASSUME NEW table \in Table, NEW c \in Node, NEW last \in Node, last # c, NEW db \in DataBlock \cup {-1}, NEW t,
           t = Linked(table, last, c, db)
    PROVE  /\ t \in Table /\ t[c].db_index = db /\ t[c].next = -1
           /\ \A n \in Node \ {c} : /\ t[n].db_index = table[n].db_index
                                    /\ t[n].next = IF n = last THEN c ELSE table[n].next
<1>1. DOMAIN table = Node /\ \A n \in Node : table[n] \in NodeEntry
  BY DEF Table
<1>2. t = [[table EXCEPT ![last].next = c] EXCEPT ![c] = [db_index |-> db, next |-> -1]]
  BY DEF Linked
<1> DEFINE u == [table EXCEPT ![last].next = c]
<1>3. /\ DOMAIN u = Node /\ u[last] = [table[last] EXCEPT !.next = c]
      /\ \A n \in Node \ {last} : u[n] = table[n]
  BY <1>1
<1>4. u[last] = [db_index |-> table[last].db_index, next |-> c]
  BY <1>1, <1>3 DEF NodeEntry
<1> HIDE DEF u
<1>5. DOMAIN t = Node /\ t[c] = [db_index |-> db, next |-> -1] /\ \A n \in Node \ {c} : t[n] = u[n]
  BY <1>2, <1>3 DEF u
<1>6. t[c] \in NodeEntry
  BY <1>5 DEF NodeEntry
<1>7. \A n \in Node \ {c} : /\ t[n] \in NodeEntry
                            /\ t[n].db_index = table[n].db_index
                            /\ t[n].next = IF n = last THEN c ELSE table[n].next
  BY <1>1, <1>3, <1>4, <1>5 DEF NodeEntry
<1>8. t = [n \in Node |-> t[n]]
  BY <1>2, <1>5
<1>9. t \in Table
  BY <1>6, <1>7, <1>8 DEF Table
<1> QED BY <1>5, <1>7, <1>9

(* One round of the loop. *)
LEMMA NewBlockKeeps ==
    ASSUME NEW table \in Table, NEW cursor \in 0..MAX_DISK, NEW list \in List,
           NEW s, LoopInv(s, table, cursor, list), s.cursor \in Node, NEW bytes \in Seq(Byte)
    PROVE  LoopInv(NewBlock(s, bytes), table, cursor, list)
<1> DEFINE c  == s.cursor
           db == FreeBlock(s.list)
           b  == Overlay(s.buffer, 0, bytes)
           t  == [s.table EXCEPT ![s.last].next = c, ![c] = [db_index |-> db, next |-> -1]]
           r  == NewBlock(s, bytes)
<1>0. /\ s \in LoopState /\ Sound(s.table, c) /\ cursor <= c /\ s.last < c /\ s.table[s.last].next = -1
  BY DEF LoopInv
<1>1. /\ s.table \in Table /\ s.list \in List /\ s.last \in Node /\ s.buffer \in Bytes /\ s.writes \in Seq(DataWrite)
      /\ c \in Node /\ c \in Nat /\ s.last # c /\ s.last <= c /\ cursor \in Nat /\ c + 1 \in 0..MAX_DISK /\ s.last \in Nat
  BY <1>0, Numbers DEF LoopState, Node
<1>2. r = [table |-> t, cursor |-> NextCursor(t, c), list |-> Taken(s.list, db), last |-> c, buffer |-> b,
           writes |-> Append(s.writes, [at |-> db, kind |-> "data", bytes |-> b])]
  BY <1>1 DEF NewBlock
<1>3. db \in DataBlock \cup {-1} /\ db \in Int
  BY <1>1, FreeBlockType
<1>4. b \in Bytes
  BY <1>1, OverlayTypes
<1>5. [at |-> db, kind |-> "data", bytes |-> b] \in DataWrite
  BY <1>3, <1>4 DEF DataWrite
<1>6. Append(s.writes, [at |-> db, kind |-> "data", bytes |-> b]) \in Seq(DataWrite)
  BY <1>1, <1>5
<1>7. /\ t \in Table /\ t[c].db_index = db /\ t[c].next = -1
      /\ \A n \in Node \ {c} : /\ t[n].db_index = s.table[n].db_index
                               /\ t[n].next = IF n = s.last THEN c ELSE s.table[n].next
  <2> DEFINE tb == s.table
             la == s.last
  <2>1. /\ tb \in Table /\ c \in Node /\ la \in Node /\ la # c /\ db \in DataBlock \cup {-1}
        /\ t = Linked(tb, la, c, db)
    BY <1>1, <1>3 DEF Linked
  <2> HIDE DEF t, c, db, tb, la
  <2>2. /\ t \in Table /\ t[c].db_index = db /\ t[c].next = -1
        /\ \A n \in Node \ {c} : /\ t[n].db_index = tb[n].db_index
                                 /\ t[n].next = IF n = la THEN c ELSE tb[n].next
    BY <2>1, LinkedTable
  <2> QED BY <2>2 DEF tb, la
<1> HIDE DEF c, db, b, t
<1>8. /\ Sound(t, c + 1)
      /\ NextCursor(t, c) = c + 1
      /\ Taken(s.list, db) \in List
      /\ \A l \in List : Within(l, s.table) => Within(l, t)
      /\ Within(s.list, s.table) => Within(Taken(s.list, db), t)
      /\ Marked(s.table, c, s.list) => Marked(t, c + 1, Taken(s.list, db))
      /\ Marked(s.table, c, s.list) /\ BlocksApart(s.table, c) => BlocksApart(t, c + 1)
  <2> DEFINE tb == s.table
             li == s.list
             la == s.last
  <2>1. /\ tb \in Table /\ c \in Node /\ li \in List /\ Sound(tb, c) /\ la \in Node /\ la <= c /\ tb[la].next = -1
        /\ t \in Table /\ t[c].db_index = FreeBlock(li) /\ t[c].next = -1
        /\ \A n \in Node \ {c} : /\ t[n].db_index = tb[n].db_index
                                 /\ t[n].next = IF n = la THEN c ELSE tb[n].next
    BY <1>0, <1>1, <1>7 DEF db
  <2>2. db = FreeBlock(li)
    BY DEF db
  <2> HIDE DEF tb, li, la
  <2>3. /\ Sound(t, c + 1)
        /\ NextCursor(t, c) = c + 1
        /\ Taken(li, db) \in List
        /\ \A l \in List : Within(l, tb) => Within(l, t)
        /\ Within(li, tb) => Within(Taken(li, db), t)
        /\ Marked(tb, c, li) => Marked(t, c + 1, Taken(li, db))
        /\ Marked(tb, c, li) /\ BlocksApart(tb, c) => BlocksApart(t, c + 1)
    BY <2>1, <2>2, NodeAdded
  <2> QED BY <2>3 DEF tb, li
<1>9. r.table = t /\ r.cursor = c + 1 /\ r.list = Taken(s.list, db) /\ r.last = c
  BY <1>2, <1>8
<1>10. r \in LoopState
  BY <1>1, <1>2, <1>4, <1>6, <1>7, <1>8 DEF LoopState
<1>11. \A rt \in Directory : Rooted(rt, s.table, c) => Rooted(rt, t, c + 1)
  <2> SUFFICES ASSUME NEW rt \in Directory, Rooted(rt, s.table, c) PROVE Rooted(rt, t, c + 1)
    OBVIOUS
  <2>1. \A n \in Node \ {c} : t[n].next = IF n = s.last THEN c ELSE s.table[n].next
    BY <1>7
  <2> DEFINE tb == s.table
             la == s.last
  <2>2. tb \in Table /\ la \in Node /\ Sound(tb, c) /\ Rooted(rt, tb, c)
        /\ \A n \in Node \ {c} : t[n].next = IF n = la THEN c ELSE tb[n].next
    BY <1>0, <1>1, <2>1
  <2> HIDE DEF tb, la
  <2> QED BY <2>2, <1>1, <1>7, RootedKept
<1>12. /\ \A l \in List : Within(l, table) => Within(l, s.table)
       /\ Within(list, table) => Within(s.list, s.table)
       /\ Marked(table, cursor, list) /\ BlocksApart(table, cursor) =>
              Marked(s.table, c, s.list) /\ BlocksApart(s.table, c)
       /\ \A rt \in Directory : Rooted(rt, table, cursor) => Rooted(rt, s.table, c)
  BY DEF LoopInv, c
<1>13. Sound(r.table, r.cursor) /\ cursor <= r.cursor /\ r.last < r.cursor /\ r.table[r.last].next = -1
  BY <1>0, <1>1, <1>7, <1>8, <1>9
<1>14. /\ \A l \in List : Within(l, table) => Within(l, r.table)
       /\ Within(list, table) => Within(r.list, r.table)
       /\ Marked(table, cursor, list) /\ BlocksApart(table, cursor) =>
              Marked(r.table, r.cursor, r.list) /\ BlocksApart(r.table, r.cursor)
       /\ \A rt \in Directory : Rooted(rt, table, cursor) => Rooted(rt, r.table, r.cursor)
  BY <1>8, <1>9, <1>11, <1>12
<1> HIDE DEF r
<1>15. LoopInv(r, table, cursor, list)
  BY <1>10, <1>13, <1>14 DEF LoopInv
<1> QED BY <1>15 DEF r

---------------------------------------------------------------------------------
(* The inductive invariant: at the start, and in the calls that change little *)

(* The structures of a process that begins, and of a new disk. *)
LEMMA ZeroTypes ==
    /\ ZeroEntry \in Entry /\ ZeroRoot \in Directory /\ FatOf(EMPTY, EMPTY) \in Chains /\ FatOf(0, 0) \in Chains
    /\ NoneUsed \in List
    /\ ZeroRoot.next_cursor = 0 /\ \A f \in Slot : ZeroRoot.table[f] = ZeroEntry
<1>1. ZeroEntry \in Entry
  BY Numbers DEF ZeroEntry, Entry
<1>2. 0 \in Slot
  BY Numbers DEF Slot
<1>3. ZeroRoot \in Directory
  BY <1>1, <1>2 DEF ZeroRoot, Directory
<1>4. FatOf(EMPTY, EMPTY) \in Chains /\ FatOf(0, 0) \in Chains
  <2>1. [db_index |-> EMPTY, next |-> EMPTY] \in NodeEntry /\ [db_index |-> 0, next |-> 0] \in NodeEntry
    BY Numbers DEF NodeEntry
  <2>2. EMPTY + 2 = 0 /\ 0 \in 0..MAX_DISK
    BY Numbers DEF EMPTY
  <2> QED BY <2>1, <2>2 DEF FatOf, Chains, Table
<1>5. NoneUsed \in List
  BY DEF NoneUsed, List
<1> QED BY <1>1, <1>3, <1>4, <1>5 DEF ZeroRoot

(* They agree, trivially: there are no files. *)
LEMMA ZeroFacts ==
    ASSUME NEW x \in {EMPTY, 0}
    PROVE  /\ FatOf(x, x).next_cursor = 0
           /\ Sound(FatOf(x, x).table, 0)
           /\ Agree(ZeroRoot, FatOf(x, x).table, 0, NoneUsed)
           /\ Full(ZeroRoot)
           /\ Heads(ZeroRoot, 0)
           /\ \A table : Within(NoneUsed, table)
<1>1. /\ FatOf(x, x).next_cursor = 0
      /\ \A n \in Node : FatOf(x, x).table[n].db_index = x /\ FatOf(x, x).table[n].next = x
  BY DEF FatOf
<1>2. \A n \in Node : ~(n < 0) /\ n >= 0
  BY Numbers
<1>3. \A f \in Slot : ZeroRoot.table[f].name = NoName /\ ZeroRoot.table[f].fat_index = 0 /\ ~(f < 0)
  BY ZeroTypes DEF ZeroEntry, Slot
<1>4. Sound(FatOf(x, x).table, 0)
  BY <1>1, <1>2 DEF Sound
<1>5. Agree(ZeroRoot, FatOf(x, x).table, 0, NoneUsed)
  BY <1>2, <1>3 DEF Agree, Marked, BlocksApart, Rooted, HeadsApart, Named
<1>6. Full(ZeroRoot) /\ Heads(ZeroRoot, 0)
  BY <1>3, ZeroTypes DEF Full, Heads
<1>7. \A table : Within(NoneUsed, table)
  BY DEF Within, NoneUsed
<1> QED BY <1>1, <1>4, <1>5, <1>6, <1>7

(* The disk is of zeros. *)
LEMMA InitInv == Init => IInv
<1> SUFFICES ASSUME Init PROVE IInv
  OBVIOUS
<1>1. \A a \in Address : disk[a] = ZeroBlock
  BY DEF Init
<1>2. /\ {0, 1, MAX_DISK - 1} \subseteq Address /\ MAX_FILE \in Nat /\ MAX_DISK \in Nat
  BY Numbers
<1>3. disk[0].kind = "zero" /\ disk[1].kind = "zero" /\ disk[MAX_DISK - 1].kind = "zero"
  BY <1>1, <1>2 DEF ZeroBlock
<1>4. Types
  BY <1>1, <1>2, ZeroTypes DEF Init, Types, BlockType, ZeroBlock
<1>5. StoredRoot = ZeroRoot /\ StoredFat = FatOf(0, 0) /\ StoredList = NoneUsed
  BY <1>3 DEF StoredRoot, StoredFat, StoredList, Stored
<1>6. TodoInv
  BY DEF Init, TodoInv
<1>7. DiskInv
  BY <1>3 DEF Init, DiskInv, Running
<1>8. HeadsInv
  BY <1>3, <1>5, ZeroFacts DEF Init, HeadsInv, Running
<1>9. AgreeInv
  BY <1>5, ZeroFacts DEF Init, AgreeInv, Running
<1> QED BY <1>4, <1>6, <1>7, <1>8, <1>9 DEF IInv

(* What is said of the disk stays when the disk does. *)
LEMMA DiskSame ==
    ASSUME UNCHANGED disk
    PROVE  /\ StoredRoot' = StoredRoot /\ StoredFat' = StoredFat /\ StoredList' = StoredList
           /\ Readable' = Readable
           /\ (\A a \in Address : BlockType(a)) => \A a \in Address : BlockType(a)'
BY DEF StoredRoot, StoredFat, StoredList, Stored, Readable, BlockType

(* Two directories that name the same files and chains. *)
LEMMA SameFiles ==
    ASSUME NEW d, NEW e, d.next_cursor = e.next_cursor,
           \A f \in Slot : d.table[f].name = e.table[f].name /\ d.table[f].fat_index = e.table[f].fat_index
    PROVE  /\ \A table, cursor, list : Agree(e, table, cursor, list) => Agree(d, table, cursor, list)
           /\ Full(e) => Full(d)
           /\ \A cursor : Heads(e, cursor) => Heads(d, cursor)
           /\ \A f \in Slot : Named(e, f) => Named(d, f)
BY DEF Agree, Marked, BlocksApart, Rooted, HeadsApart, Named, Full, Heads

(* A call that only changes flags and read pointers. *)
LEMMA LightKeeps ==
    ASSUME IInv, phase = "idle", UNCHANGED <<disk, fat, freebl, opened_files, phase, todo, written, acked, torn>>,
           root' \in Directory, pos' \in 0..MAX_DISK,
           root'.next_cursor = root.next_cursor,
           \A f \in Slot : SavedEntry(root'.table[f]) = SavedEntry(root.table[f])
    PROVE  IInv'
<1>1. /\ StoredRoot' = StoredRoot /\ StoredFat' = StoredFat /\ StoredList' = StoredList
      /\ Readable' = Readable
      /\ \A a \in Address : BlockType(a)'
  BY DiskSame DEF IInv, Types
<1>2. Types'
  BY <1>1 DEF IInv, Types
<1>3. todo = <<>>
  BY DEF IInv, TodoInv
<1>4. TodoInv'
  BY <1>1, <1>3 DEF IInv, TodoInv, SameDir
<1>5. DiskInv'
  BY DEF IInv, DiskInv, Running
<1>6. \A f \in Slot : root'.table[f].name = root.table[f].name /\ root'.table[f].fat_index = root.table[f].fat_index
  BY DEF SavedEntry
<1>7. /\ \A table, cursor, list : Agree(root, table, cursor, list) => Agree(root', table, cursor, list)
      /\ Full(root) => Full(root')
      /\ \A cursor : Heads(root, cursor) => Heads(root', cursor)
      /\ \A f \in Slot : Named(root, f) => Named(root', f)
  BY <1>6, SameFiles
<1>8. HeadsInv'
  BY <1>1, <1>3, <1>7 DEF IInv, HeadsInv, Running
<1>9. AgreeInv'
  <2>1. Handles => Handles'
    BY <1>7 DEF Handles
  <2> QED BY <1>1, <1>3, <1>7, <2>1 DEF IInv, AgreeInv, Running
<1> QED BY <1>2, <1>4, <1>5, <1>8, <1>9 DEF IInv

(* An access out of bounds, or a loop that does not end. *)
LEMMA LostKeeps ==
    ASSUME IInv, phase = "idle", NEW how \in {"stuck", "undefined"}, Lost(how)
    PROVE  IInv'
<1>0. UNCHANGED <<diskVars, memory, todo, boots, written, acked, misplaced, torn>> /\ phase' = how /\ UNCHANGED disk
  BY DEF Lost, diskVars
<1>1. /\ StoredRoot' = StoredRoot /\ StoredFat' = StoredFat /\ StoredList' = StoredList
      /\ Readable' = Readable
      /\ \A a \in Address : BlockType(a)'
  BY <1>0, DiskSame DEF IInv, Types
<1>2. Types'
  BY <1>0, <1>1 DEF IInv, Types, diskVars, memory
<1>3. todo = <<>>
  BY DEF IInv, TodoInv
<1>4. TodoInv'
  BY <1>0, <1>3 DEF IInv, TodoInv
<1>5. DiskInv'
  BY <1>0 DEF IInv, DiskInv, Running
<1>6. HeadsInv'
  BY <1>0, <1>1, <1>3 DEF IInv, HeadsInv, Running
<1>7. AgreeInv'
  BY <1>0, <1>3 DEF IInv, AgreeInv, Running
<1> QED BY <1>2, <1>4, <1>5, <1>6, <1>7 DEF IInv

(* The process ends, between two calls or two writes; a call that has written some
   of the three structures and not all of them leaves torn behind. *)
LEMMA StopKeeps ==
    ASSUME IInv, phase \in {"idle", "busy"}, Stop, UNCHANGED <<disk, pos, written, acked>>,
           ~torn' => ~torn /\ ~(Len(todo) \in 1..2)
    PROVE  IInv'
<1>0. /\ phase' = "off" /\ todo' = <<>> /\ root' = ZeroRoot /\ fat' = FatOf(0, 0) /\ freebl' = NoneUsed
      /\ opened_files' = 0
  BY DEF Stop
<1>1. /\ StoredRoot' = StoredRoot /\ StoredFat' = StoredFat /\ StoredList' = StoredList
      /\ Readable' = Readable
      /\ \A a \in Address : BlockType(a)'
  BY <1>0, DiskSame DEF IInv, Types
<1>2. Types'
  BY <1>0, <1>1, ZeroTypes, Numbers DEF IInv, Types
<1>3. TodoInv'
  BY <1>0 DEF TodoInv
<1>4. DiskInv'
  BY <1>0 DEF IInv, DiskInv, Running
<1>5. HeadsInv'
  BY <1>0, <1>1 DEF IInv, HeadsInv, Running
<1>6. AgreeInv'
  <2> SUFFICES ASSUME ~torn', Readable'
               PROVE  Agree(StoredRoot, StoredFat.table, StoredFat.next_cursor, StoredList)' /\ Full(StoredRoot)'
    BY <1>0 DEF AgreeInv, Running
  <2>1. ~torn /\ Readable /\ ~(Len(todo) \in 1..2)
    BY <1>1
  <2>2. CASE phase = "idle"
    <3>1. /\ SameDir(StoredRoot, root) /\ StoredFat = fat /\ StoredList = freebl
          /\ Agree(root, fat.table, fat.next_cursor, freebl) /\ Full(root)
      BY <2>1, <2>2 DEF IInv, TodoInv, AgreeInv, Running
    <3>2. /\ StoredRoot.next_cursor = root.next_cursor
          /\ \A f \in Slot : /\ StoredRoot.table[f].name = root.table[f].name
                             /\ StoredRoot.table[f].fat_index = root.table[f].fat_index
      BY <3>1 DEF SameDir, SavedEntry
    <3>3. Agree(StoredRoot, StoredFat.table, StoredFat.next_cursor, StoredList) /\ Full(StoredRoot)
      BY <3>1, <3>2, SameFiles
    <3> QED BY <3>3, <1>1
  <2>3. CASE phase = "busy"
    <3>1. todo # <<>> /\ todo \in Seq(PendingWrite)
      BY <2>3 DEF IInv, TodoInv, Types
    <3>2. Len(todo) \in Nat /\ Len(todo) # 0 /\ ~(Len(todo) \in 1..2)
      BY <2>1, <3>1
    <3>4. Len(todo) >= 3
      <4>1. PICK n : n = Len(todo)
        OBVIOUS
      <4>2. n \in Nat /\ n # 0 /\ ~(n \in 1..2)
        BY <3>2, <4>1
      <4>3. n >= 3
        BY <4>2
      <4> QED BY <4>1, <4>3
    <3>3. Agree(StoredRoot, StoredFat.table, StoredFat.next_cursor, StoredList) /\ Full(StoredRoot)
      BY <3>4, <2>1 DEF IInv, AgreeInv
    <3> QED BY <3>3, <1>1
  <2> QED BY <2>2, <2>3
<1> QED BY <1>2, <1>3, <1>4, <1>5, <1>6 DEF IInv

---------------------------------------------------------------------------------
(* mksfs *)

(* What the disk holds has the types of the structures. *)
LEMMA StoredTypes ==
    ASSUME Types
    PROVE  /\ StoredRoot \in Directory /\ StoredFat \in Chains /\ StoredList \in List
           /\ disk[0].kind \in {"zero", "data", "root"} /\ disk[1].kind \in {"zero", "data", "fat"}
           /\ disk[MAX_DISK - 1].kind \in {"zero", "data", "freebl"}
<1>1. 0 \in Address /\ 1 \in Address /\ MAX_DISK - 1 \in Address /\ MAX_DISK - 1 # 0 /\ MAX_DISK - 1 # 1
  BY Numbers
<1>2. BlockType(0) /\ BlockType(1) /\ BlockType(MAX_DISK - 1)
  BY <1>1 DEF Types
<1>3. /\ disk[0].kind \in {"zero", "data", "root"} /\ (disk[0].kind = "root" => disk[0].content \in Directory)
  BY <1>1, <1>2 DEF BlockType
<1>4. /\ disk[1].kind \in {"zero", "data", "fat"} /\ (disk[1].kind = "fat" => disk[1].content \in Chains)
  BY <1>1, <1>2 DEF BlockType
<1>5. /\ disk[MAX_DISK - 1].kind \in {"zero", "data", "freebl"}
      /\ (disk[MAX_DISK - 1].kind = "freebl" => disk[MAX_DISK - 1].content \in List)
  BY <1>1, <1>2 DEF BlockType
<1> QED BY <1>3, <1>4, <1>5, ZeroTypes DEF StoredRoot, StoredFat, StoredList, Stored

(* mksfs(0) copies the disk to memory. *)
LEMMA LoadEffect ==
    ASSUME Types, Load
    PROVE  /\ root' = StoredRoot /\ fat' = StoredFat /\ freebl' = StoredList
           /\ phase' = IF Readable THEN "idle" ELSE "undefined"
           /\ pos' = MAX_DISK /\ UNCHANGED <<disk, todo>>
BY StoredTypes DEF Load, StoredRoot, StoredFat, StoredList, Stored, Readable

(* What is read back is in order, whatever has happened. *)
LEMMA StoredSound ==
    ASSUME IInv, Readable
    PROVE  /\ Sound(StoredFat.table, StoredFat.next_cursor)
           /\ Within(StoredList, StoredFat.table)
           /\ disk[MAX_DISK - 1].kind = "freebl" => Within(disk[MAX_DISK - 1].content, StoredFat.table)
           /\ Heads(StoredRoot, StoredFat.next_cursor)
<1>1. Heads(StoredRoot, StoredFat.next_cursor)
  BY DEF IInv, HeadsInv, Readable
<1>2. CASE disk[1].kind = "fat"
  <2>1. StoredFat = disk[1].content
    BY <1>2 DEF StoredFat, Stored
  <2>2. Sound(StoredFat.table, StoredFat.next_cursor)
    BY <1>2, <2>1 DEF IInv, DiskInv
  <2>3. disk[MAX_DISK - 1].kind = "freebl" => Within(disk[MAX_DISK - 1].content, StoredFat.table)
    BY <1>2, <2>1 DEF IInv, DiskInv
  <2>4. Within(StoredList, StoredFat.table)
    BY <2>3, ZeroFacts DEF StoredList, Stored
  <2> QED BY <1>1, <2>2, <2>3, <2>4
<1>3. CASE disk[1].kind = "zero"
  <2>1. StoredFat = FatOf(0, 0)
    BY <1>3 DEF StoredFat, Stored
  <2>2. disk[MAX_DISK - 1].kind # "freebl"
    BY <1>3 DEF IInv, DiskInv
  <2>3. StoredList = NoneUsed
    BY <2>2 DEF StoredList, Stored
  <2> QED BY <1>1, <2>1, <2>2, <2>3, ZeroFacts
<1> QED BY <1>2, <1>3, StoredTypes DEF IInv, Readable

(* mksfs(0), in a process that starts or one that runs. *)
LEMMA LoadKeeps ==
    ASSUME IInv, phase \in {"off", "idle"}, Load,
           UNCHANGED torn, written' \in [Slot -> Nat], acked' \in [Slot -> Nat],
           opened_files' = 0 \/ (phase = "idle" /\ opened_files' = opened_files)
    PROVE  IInv'
<1>1. /\ root' = StoredRoot /\ fat' = StoredFat /\ freebl' = StoredList
      /\ phase' = (IF Readable THEN "idle" ELSE "undefined")
      /\ pos' = MAX_DISK /\ UNCHANGED <<disk, todo>>
  BY LoadEffect DEF IInv
<1>2. /\ StoredRoot' = StoredRoot /\ StoredFat' = StoredFat /\ StoredList' = StoredList
      /\ Readable' = Readable
      /\ \A a \in Address : BlockType(a)'
  BY <1>1, DiskSame DEF IInv, Types
<1>3. Types'
  BY <1>1, <1>2, StoredTypes, Numbers DEF IInv, Types
<1>4. todo = <<>>
  BY DEF IInv, TodoInv
<1>5. TodoInv'
  BY <1>1, <1>2, <1>4 DEF TodoInv, SameDir
<1>6. ASSUME Readable PROVE phase' = "idle"
  BY <1>1, <1>6
<1>7. ASSUME ~Readable PROVE phase' = "undefined"
  BY <1>1, <1>7
<1>8. DiskInv'
  <2>1. CASE Readable
    BY <1>1, <2>1, StoredSound DEF IInv, DiskInv
  <2>2. CASE ~Readable
    BY <1>1, <2>2, <1>7 DEF IInv, DiskInv, Running
  <2> QED BY <2>1, <2>2
<1>9. phase = "idle" =>
         /\ Readable /\ StoredFat = fat /\ StoredList = freebl /\ StoredRoot.next_cursor = root.next_cursor
         /\ \A f \in Slot : /\ StoredRoot.table[f].name = root.table[f].name
                            /\ StoredRoot.table[f].fat_index = root.table[f].fat_index
  BY DEF IInv, TodoInv, SameDir, SavedEntry
<1>10. phase = "idle" =>
         /\ \A table, cursor, list : Agree(root, table, cursor, list) => Agree(StoredRoot, table, cursor, list)
         /\ Full(root) => Full(StoredRoot)
         /\ \A cursor : Heads(root, cursor) => Heads(StoredRoot, cursor)
         /\ \A f \in Slot : Named(root, f) => Named(StoredRoot, f)
  BY <1>9, SameFiles
<1>11. HeadsInv'
  <2>1. CASE ~Readable
    BY <1>1, <1>2, <1>4, <1>7, <2>1 DEF IInv, HeadsInv, Running
  <2>2. CASE Readable
    <3>1. Heads(StoredRoot, StoredFat.next_cursor)
      BY <2>2, StoredSound
    <3>2. opened_files' > 0 => Heads(StoredRoot, StoredFat.next_cursor - 1)
      BY <1>9, <1>10 DEF IInv, HeadsInv, Running
    <3> QED BY <1>1, <1>2, <1>4, <3>1, <3>2 DEF HeadsInv
  <2> QED BY <2>1, <2>2
<1>12. AgreeInv'
  <2> SUFFICES ASSUME ~torn, Readable
               PROVE  /\ Agree(StoredRoot, StoredFat.table, StoredFat.next_cursor, StoredList)
                      /\ Full(StoredRoot) /\ Handles'
    BY <1>1, <1>2, <1>4, <1>7 DEF AgreeInv, Running
  <2>1. CASE phase = "off"
    <3>1. Agree(StoredRoot, StoredFat.table, StoredFat.next_cursor, StoredList) /\ Full(StoredRoot)
      BY <2>1 DEF IInv, AgreeInv
    <3>2. opened_files' = 0 /\ StoredRoot.next_cursor \in Nat
      BY <2>1, StoredTypes DEF IInv, Directory, Slot
    <3>3. Handles'
      BY <3>2, <1>1 DEF Handles
    <3> QED BY <3>1, <3>3
  <2>2. CASE phase = "idle"
    <3>1. Agree(root, fat.table, fat.next_cursor, freebl) /\ Full(root) /\ Handles
      BY <2>2 DEF IInv, AgreeInv, Running
    <3>2. Agree(StoredRoot, StoredFat.table, StoredFat.next_cursor, StoredList) /\ Full(StoredRoot)
      BY <2>2, <1>9, <1>10, <3>1
    <3>3. StoredRoot.next_cursor \in Nat /\ opened_files \in Nat
      BY StoredTypes DEF IInv, Types, Directory, Slot
    <3>4. Handles'
      BY <1>1, <1>9, <1>10, <2>2, <3>1, <3>3 DEF Handles
    <3> QED BY <3>2, <3>4
  <2> QED BY <2>1, <2>2
<1> QED BY <1>3, <1>5, <1>8, <1>11, <1>12 DEF IInv

(* The three writes at the end of a call. *)
LEMMA SaveList ==
    /\ Len(Save) = 3
    /\ Save[1] = [at |-> 0, kind |-> "root"] /\ Save[2] = [at |-> 1, kind |-> "fat"]
    /\ Save[3] = [at |-> MAX_DISK - 1, kind |-> "freebl"]
    /\ Save \in Seq(PendingWrite)
<1>1. /\ Len(Save) = 3
      /\ Save[1] = [at |-> 0, kind |-> "root"] /\ Save[2] = [at |-> 1, kind |-> "fat"]
      /\ Save[3] = [at |-> MAX_DISK - 1, kind |-> "freebl"]
  BY DEF Save
<1>2. Save[1] \in PendingWrite /\ Save[2] \in PendingWrite /\ Save[3] \in PendingWrite
  BY DEF PendingWrite
<1>3. PICK a \in PendingWrite, b \in PendingWrite, c \in PendingWrite : Save = <<a, b, c>>
  BY <1>2 DEF Save
<1>4. Save \in Seq(PendingWrite)
  BY <1>3
<1> QED BY <1>1, <1>4

(* mksfs(1). *)
LEMMA FormatKeeps ==
    ASSUME IInv, Format, opened_files' = 0
    PROVE  IInv'
<1>1. /\ root' = ZeroRoot /\ fat' = FatOf(EMPTY, EMPTY) /\ freebl' = NoneUsed /\ todo' = Save
      /\ phase' = "busy" /\ pos' = MAX_DISK /\ torn' = FALSE
      /\ disk' = [a \in Address |-> ZeroBlock]
      /\ written' = [f \in Slot |-> 0] /\ acked' = [f \in Slot |-> 0]
  BY DEF Format
<1>2. /\ {0, 1, MAX_DISK - 1} \subseteq Address /\ MAX_FILE \in Nat /\ MAX_DISK \in Nat
  BY Numbers
<1>3. \A a \in Address : disk'[a].kind = "zero"
  BY <1>1 DEF ZeroBlock
<1>4. Len(todo') = 3 /\ todo' # <<>>
  BY <1>1, SaveList
<1>5. Types'
  <2>1. \A a \in Address : BlockType(a)'
    BY <1>3 DEF BlockType
  <2>2. DOMAIN disk' = Address
    BY <1>1
  <2> QED BY <1>1, <1>2, <2>1, <2>2, ZeroTypes, SaveList DEF Types
<1>6. StoredRoot' = ZeroRoot /\ StoredFat' = FatOf(0, 0) /\ StoredList' = NoneUsed
  BY <1>2, <1>3 DEF StoredRoot, StoredFat, StoredList, Stored
<1>7. TodoInv'
  <2>1. \A k \in 1..3 : ~(k <= 3 - 3) /\ k - 3 + 3 = k
    OBVIOUS
  <2> QED BY <1>1, <1>4, <2>1, SaveList DEF TodoInv
<1>8. DiskInv'
  BY <1>1, <1>2, <1>3, ZeroFacts DEF DiskInv
<1>9. HeadsInv'
  BY <1>1, <1>6, ZeroFacts DEF HeadsInv
<1>10. AgreeInv'
  <2>1. /\ Agree(root', fat'.table, fat'.next_cursor, freebl') /\ Full(root')
        /\ Agree(StoredRoot', StoredFat'.table, StoredFat'.next_cursor, StoredList') /\ Full(StoredRoot')
    BY <1>1, <1>6, ZeroFacts
  <2>2. Handles'
    BY <1>1, ZeroTypes DEF Handles
  <2> QED BY <2>1, <2>2 DEF AgreeInv
<1> QED BY <1>5, <1>7, <1>8, <1>9, <1>10 DEF IInv

---------------------------------------------------------------------------------
(* The block writes of a call *)

(* The writes of a call: data, then the three. *)
LEMMA Queued ==
    ASSUME NEW writes \in Seq(DataWrite)
    PROVE  /\ writes \o Save \in Seq(PendingWrite)
           /\ Len(writes \o Save) = Len(writes) + 3 /\ Len(writes) \in Nat /\ writes \o Save # <<>>
           /\ \A k \in 1..Len(writes \o Save) :
                 IF k <= Len(writes \o Save) - 3 THEN (writes \o Save)[k] \in DataWrite
                 ELSE (writes \o Save)[k] = Save[k - Len(writes \o Save) + 3]
<1> DEFINE todo1 == writes \o Save
           n == Len(writes)
<1>1. writes \in Seq(PendingWrite) /\ Save \in Seq(PendingWrite) /\ Len(Save) = 3 /\ n \in Nat
  BY SaveList DEF PendingWrite
<1>2. /\ todo1 \in Seq(PendingWrite) /\ Len(todo1) = n + 3
      /\ \A k \in 1..(n + 3) : todo1[k] = IF k <= n THEN writes[k] ELSE Save[k - n]
  <2>1. /\ todo1 \in Seq(PendingWrite) /\ Len(todo1) = Len(writes) + Len(Save)
        /\ \A k \in 1..(Len(writes) + Len(Save)) :
              todo1[k] = IF k <= Len(writes) THEN writes[k] ELSE Save[k - Len(writes)]
    BY <1>1, ConcatProperties
  <2> HIDE DEF todo1
  <2> QED BY <1>1, <2>1
<1> HIDE DEF todo1
<1>3. ASSUME NEW k \in 1..Len(todo1)
      PROVE  IF k <= Len(todo1) - 3 THEN todo1[k] \in DataWrite ELSE todo1[k] = Save[k - Len(todo1) + 3]
  <2>1. CASE k <= n
    <3>1. k \in 1..Len(writes) /\ k \in 1..(n + 3) /\ k <= Len(todo1) - 3
      BY <2>1, <1>1, <1>2
    <3>2. writes[k] \in DataWrite
      BY <3>1, ElementOfSeq
    <3>3. todo1[k] = writes[k]
      BY <3>1, <2>1, <1>2
    <3> QED BY <3>1, <3>2, <3>3
  <2>2. CASE ~(k <= n)
    <3>1. k \in 1..(n + 3) /\ ~(k <= Len(todo1) - 3) /\ k - Len(todo1) + 3 = k - n
      BY <2>2, <1>1, <1>2
    <3>2. todo1[k] = Save[k - n]
      BY <3>1, <2>2, <1>2
    <3> QED BY <3>1, <3>2
  <2> QED BY <2>1, <2>2
<1>4. todo1 # <<>>
  BY <1>1, <1>2
<1> QED BY <1>1, <1>2, <1>3, <1>4 DEF todo1

(* A call that changes memory and begins to write it. *)
LEMMA BeginKeeps ==
    ASSUME IInv, phase = "idle", phase' = "busy", UNCHANGED <<disk, torn>>,
           NEW writes \in Seq(DataWrite), todo' = writes \o Save,
           root' \in Directory, fat' \in Chains, freebl' \in List, opened_files' \in 0..MAX_FILE,
           pos' \in 0..MAX_DISK, written' \in [Slot -> Nat], acked' \in [Slot -> Nat],
           Sound(fat'.table, fat'.next_cursor),
           Within(freebl', fat'.table),
           \A l \in List : Within(l, fat.table) => Within(l, fat'.table),
           Heads(root', fat.next_cursor), Heads(root', fat'.next_cursor - 1), Heads(root', fat'.next_cursor),
           ~torn => Agree(root', fat'.table, fat'.next_cursor, freebl') /\ Full(root') /\ Handles'
    PROVE  IInv'
<1>1. /\ StoredRoot' = StoredRoot /\ StoredFat' = StoredFat /\ StoredList' = StoredList
      /\ Readable' = Readable
      /\ \A a \in Address : BlockType(a)'
  BY DiskSame DEF IInv, Types
<1>2. /\ todo' \in Seq(PendingWrite) /\ Len(todo') = Len(writes) + 3 /\ Len(writes) \in Nat /\ todo' # <<>>
      /\ \A k \in 1..Len(todo') :
            IF k <= Len(todo') - 3 THEN todo'[k] \in DataWrite ELSE todo'[k] = Save[k - Len(todo') + 3]
  BY Queued
<1>3. Types'
  <2>1. todo' \in Seq(PendingWrite')
    BY <1>2 DEF PendingWrite, DataWrite, Save, Bytes, Byte
  <2> QED BY <1>1, <2>1 DEF IInv, Types
<1>4. ~(Len(todo') <= 2) /\ ~(Len(todo') <= 1)
  BY <1>2
<1>5. /\ SameDir(StoredRoot, root) /\ StoredFat = fat /\ StoredList = freebl /\ Readable
  BY DEF IInv, TodoInv
<1>6. TodoInv'
  BY <1>2, <1>4 DEF TodoInv
<1>7. DiskInv'
  <2>1. disk[MAX_DISK - 1].kind = "freebl" => Within(disk[MAX_DISK - 1].content, fat'.table)
    <3> SUFFICES ASSUME disk[MAX_DISK - 1].kind = "freebl" PROVE Within(disk[MAX_DISK - 1].content, fat'.table)
      OBVIOUS
    <3>1. disk[MAX_DISK - 1].content = StoredList
      BY DEF StoredList, Stored
    <3>2. disk[MAX_DISK - 1].content \in List
      BY <3>1, StoredTypes DEF IInv
    <3>3. Within(disk[MAX_DISK - 1].content, fat.table)
      BY DEF IInv, DiskInv, Running
    <3> QED BY <3>2, <3>3
  <2> QED BY <2>1 DEF IInv, DiskInv
<1>8. HeadsInv'
  BY <1>1, <1>5 DEF IInv, HeadsInv
<1>9. AgreeInv'
  <2> SUFFICES ASSUME ~torn, Readable
               PROVE  Agree(StoredRoot, StoredFat.table, StoredFat.next_cursor, StoredList) /\ Full(StoredRoot)
    BY <1>1 DEF AgreeInv
  <2>1. Agree(root, fat.table, fat.next_cursor, freebl) /\ Full(root)
    BY DEF IInv, AgreeInv, Running
  <2>2. /\ StoredRoot.next_cursor = root.next_cursor
        /\ \A f \in Slot : /\ StoredRoot.table[f].name = root.table[f].name
                           /\ StoredRoot.table[f].fat_index = root.table[f].fat_index
    BY <1>5 DEF SameDir, SavedEntry
  <2> QED BY <2>1, <2>2, <1>5, SameFiles
<1> QED BY <1>3, <1>6, <1>7, <1>8, <1>9 DEF IInv

(* The write at the head of the queue. *)
LEMMA FlushFacts ==
    ASSUME IInv, Flush
    PROVE  /\ Len(todo) > 3 \/ Len(todo) = 3 \/ Len(todo) = 2 \/ Len(todo) = 1
           /\ phase = "busy" /\ Len(todo) \in Nat \ {0} /\ todo' = Tail(todo) /\ Len(todo') = Len(todo) - 1
           /\ todo' \in Seq(PendingWrite)
           /\ \A k \in 1..Len(todo') : todo'[k] = todo[k + 1]
           /\ todo' = <<>> <=> Len(todo) = 1
           /\ phase' = IF Len(todo) = 1 THEN "idle" ELSE "busy"
           /\ UNCHANGED <<root, fat, freebl, opened_files, torn, written>>
           /\ acked' \in [Slot -> Nat]
           /\ WriteBlock(todo[1].at, Image(todo[1]))
           /\ IF Len(todo) > 3 THEN todo[1] \in DataWrite ELSE todo[1] = Save[4 - Len(todo)]
           /\ \A k \in 1..Len(todo') :
                  IF k <= Len(todo') - 3 THEN todo'[k] \in DataWrite ELSE todo'[k] = Save[k - Len(todo') + 3]
<1>1. phase = "busy" /\ todo # <<>> /\ todo \in Seq(PendingWrite)
  BY DEF Flush, IInv, Types, TodoInv
<1>2. /\ todo' = Tail(todo) /\ phase' = (IF Tail(todo) = <<>> THEN "idle" ELSE "busy")
      /\ UNCHANGED <<root, fat, freebl, opened_files, torn, written>>
      /\ acked' = (IF Tail(todo) = <<>> THEN written ELSE acked)
      /\ WriteBlock(Head(todo).at, Image(Head(todo)))
  BY DEF Flush, memory
<1>3. /\ Len(todo) \in Nat /\ Len(todo) # 0 /\ Head(todo) = todo[1]
  BY <1>1
<1>4. /\ Tail(todo) \in Seq(PendingWrite) /\ Len(Tail(todo)) = Len(todo) - 1
      /\ \A k \in 1..Len(Tail(todo)) : Tail(todo)[k] = todo[k + 1]
  BY <1>1, HeadTailProperties
<1>5. Tail(todo) = <<>> <=> Len(todo) = 1
  <2>1. Tail(todo) = <<>> <=> Len(Tail(todo)) = 0
    <3>1. PICK t \in Seq(PendingWrite) : t = Tail(todo)
      BY <1>4
    <3>2. t = <<>> <=> Len(t) = 0
      BY EmptySeq
    <3> QED BY <3>1, <3>2
  <2>2. Len(Tail(todo)) = 0 <=> Len(todo) = 1
    BY <1>3, <1>4
  <2> QED BY <2>1, <2>2
<1>10. Len(todo) > 3 \/ Len(todo) = 3 \/ Len(todo) = 2 \/ Len(todo) = 1
  <2>1. PICK n \in Nat : n = Len(todo) /\ n # 0
    BY <1>3
  <2>2. n > 3 \/ n = 3 \/ n = 2 \/ n = 1
    BY <2>1
  <2> QED BY <2>1, <2>2
<1>6. acked' \in [Slot -> Nat]
  BY <1>2 DEF IInv, Types
<1>7. \A k \in 1..Len(todo) : IF k <= Len(todo) - 3 THEN todo[k] \in DataWrite ELSE todo[k] = Save[k - Len(todo) + 3]
  BY DEF IInv, TodoInv
<1>8. IF Len(todo) > 3 THEN todo[1] \in DataWrite ELSE todo[1] = Save[4 - Len(todo)]
  <2>1. 1 \in 1..Len(todo) /\ (1 <= Len(todo) - 3 <=> Len(todo) > 3) /\ 1 - Len(todo) + 3 = 4 - Len(todo)
    BY <1>3
  <2> QED BY <1>7, <2>1
<1>9. ASSUME NEW k \in 1..Len(todo')
      PROVE  IF k <= Len(todo') - 3 THEN todo'[k] \in DataWrite ELSE todo'[k] = Save[k - Len(todo') + 3]
  <2>1. /\ k + 1 \in 1..Len(todo) /\ (k + 1 <= Len(todo) - 3 <=> k <= Len(todo') - 3)
        /\ (k + 1) - Len(todo) + 3 = k - Len(todo') + 3 /\ todo'[k] = todo[k + 1]
    BY <1>2, <1>3, <1>4
  <2> QED BY <1>7, <2>1
<1> QED BY <1>1, <1>2, <1>3, <1>4, <1>5, <1>6, <1>8, <1>9, <1>10

(* A block written at an address of the disk, or nowhere. *)
LEMMA WriteEffect ==
    ASSUME Types, NEW a \in Int, NEW block, WriteBlock(a, block)
    PROVE  /\ DOMAIN disk' = Address /\ pos' \in 0..MAX_DISK
           /\ \A x \in Address : disk'[x] = disk[x] \/ disk'[x] = block
           /\ a \in Address => disk'[a] = block /\ \A x \in Address \ {a} : disk'[x] = disk[x]
<1>1. pos \in 0..MAX_DISK /\ DOMAIN disk = Address
  BY DEF Types
<1>2. pos' \in 0..MAX_DISK
  BY <1>1, PositionTypes DEF WriteBlock
<1>3. disk' = IF Seek(pos, a) \in Address THEN [disk EXCEPT ![Seek(pos, a)] = block] ELSE disk
  BY DEF WriteBlock
<1>4. a \in Address => Seek(pos, a) = a
  BY DEF Seek, Address
<1> HIDE DEF Seek
<1>5. DOMAIN disk' = Address /\ \A x \in Address : disk'[x] = disk[x] \/ disk'[x] = block
  BY <1>1, <1>3
<1>6. a \in Address => disk'[a] = block /\ \A x \in Address \ {a} : disk'[x] = disk[x]
  BY <1>1, <1>3, <1>4
<1> QED BY <1>2, <1>5, <1>6

(* What it puts on the disk. *)
LEMMA FlushDisk ==
    ASSUME IInv, Flush
    PROVE  /\ todo[1].at \in Int
           /\ Len(todo) > 3 => /\ todo[1].bytes \in Bytes
                               /\ \A x \in Address : disk'[x] = disk[x] \/ disk'[x] = Data(todo[1].bytes)
           /\ Len(todo) = 3 => /\ disk'[0] = [kind |-> "root", content |-> root]
                               /\ \A x \in Address \ {0} : disk'[x] = disk[x]
           /\ Len(todo) = 2 => /\ disk'[1] = [kind |-> "fat", content |-> fat]
                               /\ \A x \in Address \ {1} : disk'[x] = disk[x]
           /\ Len(todo) = 1 => /\ disk'[MAX_DISK - 1] = [kind |-> "freebl", content |-> freebl]
                               /\ \A x \in Address \ {MAX_DISK - 1} : disk'[x] = disk[x]
<1>1. /\ WriteBlock(todo[1].at, Image(todo[1])) /\ Len(todo) \in Nat \ {0}
      /\ IF Len(todo) > 3 THEN todo[1] \in DataWrite ELSE todo[1] = Save[4 - Len(todo)]
  BY FlushFacts
<1>2. /\ 0 \in Address /\ 1 \in Address /\ MAX_DISK - 1 \in Address /\ MAX_DISK - 1 \in Int
      /\ 4 - 3 = 1 /\ 4 - 2 = 2 /\ 4 - 1 = 3
  BY Numbers
<1>3. Types
  BY DEF IInv
<1>4. ASSUME Len(todo) > 3
      PROVE  /\ todo[1].at \in Int /\ todo[1].bytes \in Bytes
             /\ \A x \in Address : disk'[x] = disk[x] \/ disk'[x] = Data(todo[1].bytes)
  <2>1. todo[1].at \in Int /\ todo[1].kind = "data" /\ todo[1].bytes \in Bytes
    BY <1>1, <1>4 DEF DataWrite
  <2>2. Image(todo[1]) = Data(todo[1].bytes)
    BY <2>1 DEF Image
  <2> QED BY <1>1, <1>3, <2>1, <2>2, WriteEffect
<1>5. ASSUME Len(todo) = 3
      PROVE  /\ todo[1].at \in Int /\ disk'[0] = [kind |-> "root", content |-> root]
             /\ \A x \in Address \ {0} : disk'[x] = disk[x]
  <2>1. todo[1].at = 0 /\ todo[1].kind = "root"
    BY <1>1, <1>2, <1>5, SaveList
  <2>2. Image(todo[1]) = [kind |-> "root", content |-> root]
    BY <2>1 DEF Image
  <2> QED BY <1>1, <1>2, <1>3, <2>1, <2>2, WriteEffect
<1>6. ASSUME Len(todo) = 2
      PROVE  /\ todo[1].at \in Int /\ disk'[1] = [kind |-> "fat", content |-> fat]
             /\ \A x \in Address \ {1} : disk'[x] = disk[x]
  <2>1. todo[1].at = 1 /\ todo[1].kind = "fat"
    BY <1>1, <1>2, <1>6, SaveList
  <2>2. Image(todo[1]) = [kind |-> "fat", content |-> fat]
    BY <2>1 DEF Image
  <2> QED BY <1>1, <1>2, <1>3, <2>1, <2>2, WriteEffect
<1>7. ASSUME Len(todo) = 1
      PROVE  /\ todo[1].at \in Int /\ disk'[MAX_DISK - 1] = [kind |-> "freebl", content |-> freebl]
             /\ \A x \in Address \ {MAX_DISK - 1} : disk'[x] = disk[x]
  <2>1. todo[1].at = MAX_DISK - 1 /\ todo[1].kind = "freebl"
    BY <1>1, <1>2, <1>7, SaveList
  <2>2. Image(todo[1]) = [kind |-> "freebl", content |-> freebl]
    BY <2>1 DEF Image
  <2> QED BY <1>1, <1>2, <1>3, <2>1, <2>2, WriteEffect
<1>8. Len(todo) > 3 \/ Len(todo) = 3 \/ Len(todo) = 2 \/ Len(todo) = 1
  BY FlushFacts
<1> QED BY <1>4, <1>5, <1>6, <1>7, <1>8

(* The invariant, part by part. *)
LEMMA FlushTypes ==
    ASSUME IInv, Flush
    PROVE  Types'
<1>1. /\ UNCHANGED <<root, fat, freebl, opened_files, torn, written>> /\ acked' \in [Slot -> Nat]
      /\ WriteBlock(todo[1].at, Image(todo[1])) /\ todo' \in Seq(PendingWrite)
      /\ phase' \in {"idle", "busy"}
      /\ Len(todo) > 3 \/ Len(todo) = 3 \/ Len(todo) = 2 \/ Len(todo) = 1
  BY FlushFacts
<1>2. /\ root \in Directory /\ fat \in Chains /\ freebl \in List /\ opened_files \in 0..MAX_FILE
      /\ written \in [Slot -> Nat] /\ \A a \in Address : BlockType(a)
  BY DEF IInv, Types
<1>3. 0 \in Address /\ 1 \in Address /\ MAX_DISK - 1 \in Address
  BY Numbers
<1>4. \A x \in Address : disk'[x] = disk[x] \/ BlockType(x)'
  <2>1. CASE Len(todo) > 3
    BY <2>1, FlushDisk DEF BlockType, Data
  <2>2. CASE Len(todo) = 3
    <3>1. BlockType(0)'
      BY <1>2, <2>2, FlushDisk DEF BlockType
    <3> QED BY <2>2, <3>1, FlushDisk
  <2>3. CASE Len(todo) = 2
    <3>1. BlockType(1)'
      BY <1>2, <2>3, FlushDisk DEF BlockType
    <3> QED BY <2>3, <3>1, FlushDisk
  <2>4. CASE Len(todo) = 1
    <3>1. BlockType(MAX_DISK - 1)'
      BY <1>2, <2>4, FlushDisk DEF BlockType
    <3> QED BY <2>4, <3>1, FlushDisk
  <2> QED BY <1>1, <2>1, <2>2, <2>3, <2>4
<1>5. DOMAIN disk' = Address /\ pos' \in 0..MAX_DISK
  BY <1>1, FlushDisk, WriteEffect DEF IInv
<1>6. \A a \in Address : BlockType(a)'
  BY <1>2, <1>4 DEF BlockType
<1>7. todo' \in Seq(PendingWrite')
  BY <1>1 DEF PendingWrite, DataWrite, Save, Bytes, Byte
<1> QED BY <1>1, <1>2, <1>5, <1>6, <1>7 DEF Types

(* A write of data hides what it overwrites. *)
LEMMA DataWritten ==
    ASSUME IInv, Flush, Len(todo) > 3
    PROVE  /\ disk'[0].kind # "data" => disk'[0] = disk[0]
           /\ disk'[1].kind # "data" => disk'[1] = disk[1]
           /\ disk'[MAX_DISK - 1].kind # "data" => disk'[MAX_DISK - 1] = disk[MAX_DISK - 1]
<1>1. 0 \in Address /\ 1 \in Address /\ MAX_DISK - 1 \in Address
  BY Numbers
<1> QED BY <1>1, FlushDisk DEF Data

(* What remains to be written is still in its order. *)
LEMMA FlushTodo ==
    ASSUME IInv, Flush
    PROVE  TodoInv'
<1>0. /\ 0 \in Address /\ 1 \in Address /\ MAX_DISK - 1 \in Address /\ 0 # 1 /\ 0 # MAX_DISK - 1 /\ 1 # MAX_DISK - 1
  BY Numbers
<1>1. /\ Len(todo) \in Nat \ {0} /\ Len(todo') = Len(todo) - 1 /\ (todo' = <<>> <=> Len(todo) = 1)
      /\ phase' = (IF Len(todo) = 1 THEN "idle" ELSE "busy")
      /\ UNCHANGED <<root, fat, freebl>> /\ phase = "busy"
      /\ Len(todo) > 3 \/ Len(todo) = 3 \/ Len(todo) = 2 \/ Len(todo) = 1
  BY FlushFacts
<1>2. \A k \in 1..Len(todo') :
          IF k <= Len(todo') - 3 THEN todo'[k] \in DataWrite ELSE todo'[k] = Save[k - Len(todo') + 3]
  BY FlushFacts
<1>3. phase' = "busy" <=> todo' # <<>>
  BY <1>1
<1>4. /\ Len(todo) <= 2 => disk[0] = [kind |-> "root", content |-> root]
      /\ Len(todo) <= 1 => disk[1] = [kind |-> "fat", content |-> fat]
  BY <1>1 DEF IInv, TodoInv
<1>5. ASSUME Len(todo') <= 2 PROVE disk'[0] = [kind |-> "root", content |-> root]
  <2>1. Len(todo) = 3 \/ Len(todo) = 2 \/ Len(todo) = 1
    BY <1>1, <1>5
  <2>2. CASE Len(todo) = 3
    BY <2>2, FlushDisk
  <2>3. CASE Len(todo) = 2
    BY <2>3, <1>0, <1>4, FlushDisk
  <2>4. CASE Len(todo) = 1
    <3>1. disk'[0] = disk[0]
      BY <2>4, <1>0, FlushDisk
    <3> QED BY <2>4, <3>1, <1>4
  <2> QED BY <2>1, <2>2, <2>3, <2>4
<1>6. ASSUME Len(todo') <= 1 PROVE disk'[1] = [kind |-> "fat", content |-> fat]
  <2>1. Len(todo) = 2 \/ Len(todo) = 1
    BY <1>1, <1>6
  <2>2. CASE Len(todo) = 2
    BY <2>2, FlushDisk
  <2>3. CASE Len(todo) = 1
    <3>1. disk'[1] = disk[1]
      BY <2>3, <1>0, FlushDisk
    <3> QED BY <2>3, <3>1, <1>4
  <2> QED BY <2>1, <2>2, <2>3
<1>7. ASSUME phase' = "idle"
      PROVE  SameDir(StoredRoot', root) /\ StoredFat' = fat /\ StoredList' = freebl /\ Readable'
  <2>1. Len(todo) = 1 /\ Len(todo') <= 2 /\ Len(todo') <= 1
    BY <1>1, <1>7
  <2>2. /\ disk'[0] = [kind |-> "root", content |-> root] /\ disk'[1] = [kind |-> "fat", content |-> fat]
        /\ disk'[MAX_DISK - 1] = [kind |-> "freebl", content |-> freebl]
    BY <2>1, <1>5, <1>6, FlushDisk
  <2>3. StoredRoot' = root /\ StoredFat' = fat /\ StoredList' = freebl /\ Readable'
    BY <2>2 DEF StoredRoot, StoredFat, StoredList, Stored, Readable
  <2> QED BY <2>3 DEF SameDir
<1>8. \A k \in 1..Len(todo') :
          IF k <= Len(todo') - 3 THEN todo'[k] \in DataWrite' ELSE todo'[k] = Save[k - Len(todo') + 3]
  BY <1>2 DEF DataWrite, Bytes, Byte
<1> QED BY <1>1, <1>3, <1>5, <1>6, <1>7, <1>8 DEF TodoInv

(* The table on the disk is overtaken by none of the other two. *)
LEMMA FlushDiskInv ==
    ASSUME IInv, Flush
    PROVE  DiskInv'
<1>0. /\ 0 \in Address /\ 1 \in Address /\ MAX_DISK - 1 \in Address /\ 0 # 1 /\ 0 # MAX_DISK - 1 /\ 1 # MAX_DISK - 1
  BY Numbers
<1>1. /\ UNCHANGED <<root, fat, freebl>> /\ phase = "busy"
      /\ Len(todo) > 3 \/ Len(todo) = 3 \/ Len(todo) = 2 \/ Len(todo) = 1
  BY FlushFacts
<1>2. /\ Sound(fat.table, fat.next_cursor) /\ Within(freebl, fat.table)
      /\ disk[MAX_DISK - 1].kind = "freebl" => Within(disk[MAX_DISK - 1].content, fat.table)
  BY <1>1 DEF IInv, DiskInv, Running
<1>3. /\ disk[MAX_DISK - 1].kind = "freebl" => disk[1].kind # "zero"
      /\ disk[1].kind = "fat" => Sound(disk[1].content.table, disk[1].content.next_cursor)
      /\ disk[1].kind = "fat" /\ disk[MAX_DISK - 1].kind = "freebl" =>
             Within(disk[MAX_DISK - 1].content, disk[1].content.table)
  BY DEF IInv, DiskInv
<1> SUFFICES
      /\ disk'[MAX_DISK - 1].kind = "freebl" => disk'[1].kind # "zero"
      /\ disk'[1].kind = "fat" => Sound(disk'[1].content.table, disk'[1].content.next_cursor)
      /\ disk'[1].kind = "fat" /\ disk'[MAX_DISK - 1].kind = "freebl" =>
             Within(disk'[MAX_DISK - 1].content, disk'[1].content.table)
      /\ disk'[MAX_DISK - 1].kind = "freebl" => Within(disk'[MAX_DISK - 1].content, fat.table)
  BY <1>1, <1>2 DEF DiskInv
<1>4. CASE Len(todo) > 3
  <2>1. disk'[1] = disk[1] \/ disk'[1].kind = "data"
    BY <1>4, DataWritten
  <2>2. disk'[MAX_DISK - 1] = disk[MAX_DISK - 1] \/ disk'[MAX_DISK - 1].kind = "data"
    BY <1>4, DataWritten
  <2> QED BY <1>2, <1>3, <2>1, <2>2
<1>5. CASE Len(todo) = 3
  <2>1. disk'[1] = disk[1] /\ disk'[MAX_DISK - 1] = disk[MAX_DISK - 1]
    BY <1>0, <1>5, FlushDisk
  <2> QED BY <1>2, <1>3, <2>1
<1>6. CASE Len(todo) = 2
  <2>1. disk'[1] = [kind |-> "fat", content |-> fat] /\ disk'[MAX_DISK - 1] = disk[MAX_DISK - 1]
    BY <1>0, <1>6, FlushDisk
  <2>2. disk'[1].kind = "fat" /\ disk'[1].content = fat
    BY <2>1
  <2> QED BY <1>2, <2>1, <2>2
<1>7. CASE Len(todo) = 1
  <2>1. disk'[1] = disk[1] /\ disk'[MAX_DISK - 1] = [kind |-> "freebl", content |-> freebl]
    BY <1>0, <1>7, FlushDisk
  <2>2. disk[1] = [kind |-> "fat", content |-> fat]
    BY <1>1, <1>7 DEF IInv, TodoInv
  <2>3. disk'[1].kind = "fat" /\ disk'[1].content = fat /\ disk'[MAX_DISK - 1].content = freebl
    BY <2>1, <2>2
  <2> QED BY <1>2, <2>3
<1> QED BY <1>1, <1>4, <1>5, <1>6, <1>7

(* The directory may be on the disk before its table. *)
LEMMA FlushHeads ==
    ASSUME IInv, Flush
    PROVE  HeadsInv'
<1>0. /\ 0 \in Address /\ 1 \in Address /\ MAX_DISK - 1 \in Address /\ 0 # 1 /\ 0 # MAX_DISK - 1 /\ 1 # MAX_DISK - 1
  BY Numbers
<1>1. /\ UNCHANGED <<root, fat, freebl, opened_files>> /\ phase = "busy" /\ Len(todo) \in Nat /\ Len(todo') = Len(todo) - 1
      /\ Len(todo) > 3 \/ Len(todo) = 3 \/ Len(todo) = 2 \/ Len(todo) = 1
  BY FlushFacts
<1>2. /\ Heads(root, fat.next_cursor)
      /\ opened_files > 0 => Heads(root, fat.next_cursor - 1)
      /\ disk[1].kind # "data" => Heads(StoredRoot, StoredFat.next_cursor)
      /\ Len(todo) >= 3 /\ disk[1].kind # "data" => Heads(root, StoredFat.next_cursor)
  BY <1>1 DEF IInv, HeadsInv, Running
<1> SUFFICES /\ disk'[1].kind # "data" => Heads(StoredRoot', StoredFat'.next_cursor)
             /\ Len(todo') >= 3 /\ disk'[1].kind # "data" => Heads(root, StoredFat'.next_cursor)
  BY <1>1, <1>2 DEF HeadsInv
<1>3. CASE Len(todo) > 3
  <2> SUFFICES ASSUME disk'[1].kind # "data"
               PROVE  Heads(StoredRoot', StoredFat'.next_cursor) /\ Heads(root, StoredFat'.next_cursor)
    OBVIOUS
  <2>1. disk'[1] = disk[1]
    BY <1>3, DataWritten
  <2>2. StoredFat' = StoredFat
    BY <2>1 DEF StoredFat, Stored
  <2>3. Len(todo) >= 3 /\ disk[1].kind # "data"
    BY <1>1, <1>3, <2>1
  <2>4. CASE disk'[0] = disk[0]
    <3>1. StoredRoot' = StoredRoot
      BY <2>4 DEF StoredRoot, Stored
    <3> QED BY <1>2, <2>2, <2>3, <3>1
  <2>5. CASE disk'[0].kind = "data"
    <3>1. StoredRoot' = ZeroRoot
      BY <2>5 DEF StoredRoot, Stored
    <3>2. StoredFat.next_cursor \in Nat
      BY StoredTypes, Numbers DEF IInv, Chains
    <3>3. Heads(ZeroRoot, StoredFat.next_cursor)
      BY <3>2, ZeroTypes DEF Heads, ZeroEntry
    <3> QED BY <1>2, <2>2, <2>3, <3>1, <3>3
  <2> QED BY <2>4, <2>5, <1>3, DataWritten
<1>4. CASE Len(todo) = 3
  <2>1. disk'[1] = disk[1] /\ disk'[0] = [kind |-> "root", content |-> root]
    BY <1>0, <1>4, FlushDisk
  <2>2. StoredFat' = StoredFat /\ StoredRoot' = root
    BY <2>1 DEF StoredFat, StoredRoot, Stored
  <2> QED BY <1>1, <1>2, <1>4, <2>1, <2>2
<1>5. CASE Len(todo) = 2
  <2>1. disk'[1] = [kind |-> "fat", content |-> fat] /\ disk'[0] = disk[0]
    BY <1>0, <1>5, FlushDisk
  <2>2. disk[0] = [kind |-> "root", content |-> root]
    BY <1>1, <1>5 DEF IInv, TodoInv
  <2>3. StoredFat' = fat /\ StoredRoot' = root
    BY <2>1, <2>2 DEF StoredFat, StoredRoot, Stored
  <2> QED BY <1>1, <1>2, <1>5, <2>3
<1>6. CASE Len(todo) = 1
  <2>1. disk'[1] = disk[1] /\ disk'[0] = disk[0]
    BY <1>0, <1>6, FlushDisk
  <2>2. StoredFat' = StoredFat /\ StoredRoot' = StoredRoot
    BY <2>1 DEF StoredFat, StoredRoot, Stored
  <2> QED BY <1>1, <1>2, <1>6, <2>1, <2>2
<1> QED BY <1>1, <1>3, <1>4, <1>5, <1>6

(* One block write. *)
LEMMA FlushKeeps ==
    ASSUME IInv, Flush
    PROVE  IInv'
<1>1. /\ UNCHANGED <<root, fat, freebl, opened_files, torn>> /\ phase = "busy" /\ phase' # "off"
      /\ Len(todo) \in Nat /\ Len(todo') = Len(todo) - 1
  BY FlushFacts
<1>2. AgreeInv'
  <2> SUFFICES ASSUME ~torn
               PROVE  /\ Agree(root, fat.table, fat.next_cursor, freebl) /\ Full(root) /\ Handles'
                      /\ Readable' /\ Len(todo') >= 3 =>
                             /\ Agree(StoredRoot', StoredFat'.table, StoredFat'.next_cursor, StoredList')
                             /\ Full(StoredRoot')
    BY <1>1 DEF AgreeInv
  <2>1. Agree(root, fat.table, fat.next_cursor, freebl) /\ Full(root) /\ Handles
    BY <1>1 DEF IInv, AgreeInv, Running
  <2>2. Handles'
    BY <1>1, <2>1 DEF Handles
  <2>3. ASSUME Readable', Len(todo') >= 3
        PROVE  Agree(StoredRoot', StoredFat'.table, StoredFat'.next_cursor, StoredList') /\ Full(StoredRoot')
    <3>1. Len(todo) > 3 /\ Len(todo) >= 3
      BY <1>1, <2>3
    <3>2. disk'[0] = disk[0] /\ disk'[1] = disk[1] /\ disk'[MAX_DISK - 1] = disk[MAX_DISK - 1]
      BY <2>3, <3>1, DataWritten DEF Readable
    <3>3. StoredRoot' = StoredRoot /\ StoredFat' = StoredFat /\ StoredList' = StoredList /\ Readable
      BY <2>3, <3>2 DEF StoredRoot, StoredFat, StoredList, Stored, Readable
    <3>4. Agree(StoredRoot, StoredFat.table, StoredFat.next_cursor, StoredList) /\ Full(StoredRoot)
      BY <3>1, <3>3 DEF IInv, AgreeInv
    <3> QED BY <3>3, <3>4
  <2> QED BY <2>1, <2>2, <2>3
<1> QED BY <1>2, FlushTypes, FlushTodo, FlushDiskInv, FlushHeads DEF IInv

---------------------------------------------------------------------------------
(* sfs_open of a file that is there, sfs_close and sfs_read *)

(* Only the flag or the read pointer of one entry changes. *)
LEMMA FlagChanged ==
    ASSUME IInv, phase = "idle", UNCHANGED <<disk, fat, freebl, opened_files, phase, todo, written, acked, torn>>,
           pos' \in 0..MAX_DISK, NEW f \in Slot, NEW e \in Entry, SavedEntry(e) = SavedEntry(root.table[f]),
           root' = [root EXCEPT !.table[f] = e]
    PROVE  IInv'
<1>1. root \in Directory
  BY DEF IInv, Types
<1>2. /\ root' \in Directory /\ root'.next_cursor = root.next_cursor /\ root'.table[f] = e
      /\ \A g \in Slot \ {f} : root'.table[g] = root.table[g]
  BY <1>1 DEF Directory
<1>3. \A g \in Slot : SavedEntry(root'.table[g]) = SavedEntry(root.table[g])
  BY <1>2
<1> QED BY <1>2, <1>3, LightKeeps

(* The entry of a name that is there. *)
LEMMA IndexFound ==
    ASSUME NEW name, Matches(name) # {}
    PROVE  FileIndex(name) \in Matches(name) /\ FileIndex(name) \in Slot
<1>1. Matches(name) \subseteq Nat /\ Matches(name) \subseteq Slot
  BY DEF Matches, Slot
<1>2. \E f \in Matches(name) : \A g \in Matches(name) : f <= g
  BY <1>1, Smallest
<1>3. FileIndex(name) \in Matches(name)
  BY <1>2 DEF FileIndex
<1> QED BY <1>1, <1>3

(* sfs_open of a file that is there. *)
LEMMA ReopenKeeps == ASSUME IInv, NEW name \in Name, Reopen(name) PROVE IInv'
<1>1. PICK f \in Slot : f = FileIndex(name)
  BY IndexFound DEF Reopen
<1>2. root.table[f] \in Entry /\ root \in Directory /\ pos \in 0..MAX_DISK
  BY DEF IInv, Types, Directory
<1>3. PICK e : e = [root.table[f] EXCEPT !.opened = 1]
  OBVIOUS
<1>4. e \in Entry /\ SavedEntry(e) = SavedEntry(root.table[f])
  BY <1>2, <1>3 DEF Entry, SavedEntry
<1>5. /\ root' = [root EXCEPT !.table[FileIndex(name)].opened = 1] /\ phase = "idle"
      /\ UNCHANGED <<disk, pos, fat, freebl, opened_files, phase, todo, written, acked, torn>>
  BY DEF Reopen, diskVars
<1>6. root' = [root EXCEPT !.table[f] = e]
  BY <1>1, <1>3, <1>5
<1> QED BY <1>2, <1>4, <1>5, <1>6, FlagChanged

(* sfs_close. *)
LEMMA CloseKeeps == ASSUME IInv, NEW f \in Slot, Close(f) PROVE IInv'
<1>2. root.table[f] \in Entry /\ root \in Directory /\ pos \in 0..MAX_DISK
  BY DEF IInv, Types, Directory
<1>3. PICK e : e = [root.table[f] EXCEPT !.opened = 0]
  OBVIOUS
<1>4. e \in Entry /\ SavedEntry(e) = SavedEntry(root.table[f])
  BY <1>2, <1>3 DEF Entry, SavedEntry
<1>5. /\ root' = [root EXCEPT !.table[f].opened = 0] /\ phase = "idle"
      /\ UNCHANGED <<disk, pos, fat, freebl, opened_files, phase, todo, written, acked, torn>>
  BY DEF Close, diskVars
<1>6. root' = [root EXCEPT !.table[f] = e]
  BY <1>3, <1>5
<1> QED BY <1>2, <1>4, <1>5, <1>6, FlagChanged

(* The loop of sfs_read. *)
OneMore(s, b) == [pos |-> Past(s.pos, b), bytes |-> s.bytes \o BytesAt(s.pos, b)]

(* The recursive definition of the loop of sfs_read is its equation. *)
LEMMA ReadSteps ==
    ASSUME NEW first, NEW db, NEW more \in Nat
    PROVE  /\ ReadLoop(first, db, more)[0] = first
           /\ \A k \in 1..more :
                 ReadLoop(first, db, more)[k] = OneMore(ReadLoop(first, db, more)[k - 1], db[k])
<1> DEFINE one(s, k) == OneMore(s, db[k])
           Q(g, m) == g = [k \in 0..m |-> IF k = 0 THEN first ELSE one(g[k - 1], k)]
           S == {m \in Nat : \E g : Q(g, m)}
           loop == ReadLoop(first, db, more)
<1>0. loop = CHOOSE g : Q(g, more)
  BY DEF ReadLoop, OneMore
<1> HIDE DEF one, loop
<1>1. 0 \in S
  <2>1. Q([k \in 0..0 |-> first], 0)
    OBVIOUS
  <2> QED BY <2>1
<1>2. ASSUME NEW m \in Nat, m \in S PROVE m + 1 \in S
  <2>1. PICK g : Q(g, m)
    BY <1>2
  <2> DEFINE G == [k \in 0..(m + 1) |-> IF k \in 0..m THEN g[k] ELSE one(g[m], m + 1)]
  <2>2. \A k \in 0..m : G[k] = g[k] /\ k \in 0..(m + 1)
    OBVIOUS
  <2>3. \A k \in 0..m : g[k] = IF k = 0 THEN first ELSE one(g[k - 1], k)
    BY <2>1
  <2>4. \A k \in 0..(m + 1) : G[k] = IF k = 0 THEN first ELSE one(G[k - 1], k)
    <3>1. ASSUME NEW k \in 0..m PROVE G[k] = IF k = 0 THEN first ELSE one(G[k - 1], k)
      <4>1. k # 0 => k - 1 \in 0..m
        OBVIOUS
      <4> HIDE DEF G
      <4> QED BY <2>2, <2>3, <4>1
    <3>2. G[m + 1] = one(g[m], m + 1) /\ G[m] = g[m] /\ m + 1 # 0 /\ m + 1 - 1 = m
      OBVIOUS
    <3> HIDE DEF G
    <3> QED BY <3>1, <3>2
  <2>5. Q(G, m + 1)
    <3>1. G = [k \in 0..(m + 1) |-> G[k]]
      OBVIOUS
    <3> HIDE DEF G
    <3> QED BY <2>4, <3>1
  <2> HIDE DEF Q, G
  <2> QED BY <2>5
<1>3. Nat \subseteq S
  <2> HIDE DEF S
  <2> QED BY <1>1, <1>2, Induction
<1>4. \E g : Q(g, more)
  BY <1>3
<1>5. Q(loop, more)
  BY <1>0, <1>4
<1>6. \A k \in 0..more : loop[k] = IF k = 0 THEN first ELSE one(loop[k - 1], k)
  BY <1>5
<1>7. loop[0] = first /\ \A k \in 1..more : loop[k] = one(loop[k - 1], k)
  BY <1>6
<1> QED BY <1>7 DEF loop, one

(* What is read are bytes. *)
LEMMA ReadTypes ==
    ASSUME Types, NEW more \in Nat, NEW db, \A k \in 0..more : db[k] \in Int,
           NEW first, first.pos \in 0..MAX_DISK, first.bytes \in Seq(Byte)
    PROVE  /\ ReadLoop(first, db, more)[more].pos \in 0..MAX_DISK
           /\ ReadLoop(first, db, more)[more].bytes \in Seq(Byte)
<1> DEFINE loop == ReadLoop(first, db, more)
           S == {k \in Nat : k <= more => loop[k].pos \in 0..MAX_DISK /\ loop[k].bytes \in Seq(Byte)}
<1>0. /\ loop[0] = first
      /\ \A k \in 1..more : loop[k] = OneMore(loop[k - 1], db[k])
  BY ReadSteps
<1> HIDE DEF loop
<1>1. 0 \in S
  BY <1>0
<1>2. ASSUME NEW k \in Nat, k \in S PROVE k + 1 \in S
  <2> SUFFICES ASSUME k + 1 <= more
               PROVE  loop[k + 1].pos \in 0..MAX_DISK /\ loop[k + 1].bytes \in Seq(Byte)
    OBVIOUS
  <2>1. k + 1 \in 1..more /\ k + 1 \in 0..more /\ k + 1 - 1 = k /\ k <= more
    OBVIOUS
  <2>2. loop[k].pos \in 0..MAX_DISK /\ loop[k].bytes \in Seq(Byte) /\ db[k + 1] \in Int
    BY <1>2, <2>1
  <2>3. loop[k + 1] = OneMore(loop[k], db[k + 1])
    BY <1>0, <2>1
  <2>4. BytesAt(loop[k].pos, db[k + 1]) \in Seq(Byte)
    <3>1. BytesAt(loop[k].pos, db[k + 1]) \in Bytes
      BY <2>2, BlockRead
    <3> QED BY <3>1, Numbers DEF Bytes
  <2>5. Past(loop[k].pos, db[k + 1]) \in 0..MAX_DISK
    BY <2>2, PositionTypes
  <2>6. loop[k].bytes \o BytesAt(loop[k].pos, db[k + 1]) \in Seq(Byte)
    BY <2>2, <2>4
  <2> QED BY <2>3, <2>5, <2>6 DEF OneMore
<1>3. Nat \subseteq S
  <2> HIDE DEF S
  <2> QED BY <1>1, <1>2, Induction
<1>4. more \in S /\ more <= more
  BY <1>3
<1> QED BY <1>4 DEF loop

(* No more bytes are delivered than were asked for. *)
LEMMA Cut ==
    ASSUME NEW s \in Seq(Byte), NEW length \in Nat
    PROVE  Len(SubSeq(s, 1, Least(Len(s), length))) \in 0..length
<1>1. PICK n \in Nat : n = Least(Len(s), length) /\ n <= Len(s) /\ n <= length
  BY DEF Least
<1>2. \A i \in 1..n : s[i] \in Byte
  BY <1>1
<1>3. Len(SubSeq(s, 1, n)) = IF 1 <= n THEN n - 1 + 1 ELSE 0
  BY <1>2, SubSeqProperties
<1>4. Len(SubSeq(s, 1, n)) \in 0..length
  BY <1>1, <1>3
<1> QED BY <1>1, <1>4

(* A pointer is in its block, or at the end of the block before. *)
LEMMA PointerRange == ASSUME NEW ptr \in Nat PROVE Pointer(ptr) \in -1..(BLOCK_SIZE - 1)
<1>1. BLOCK_SIZE \in Nat \ {0}
  BY Numbers
<1>2. ptr % BLOCK_SIZE \in 0..(BLOCK_SIZE - 1)
  BY <1>1, Quotient
<1>3. PICK m \in 0..(BLOCK_SIZE - 1) : m = ptr % BLOCK_SIZE
  BY <1>2
<1>4. Pointer(ptr) = -1 \/ Pointer(ptr) = m
  BY <1>3 DEF Pointer
<1> QED BY <1>1, <1>4

(* sfs_read changes a read pointer only. *)
LEMMA ReadKeeps == ASSUME IInv, NEW f \in Slot, NEW length \in ReadLengths, Read(f, length) PROVE IInv'
<1> DEFINE h      == root.table[f].fat_index
           rd_ptr == root.table[f].rd_ptr
           skip   == rd_ptr \div BLOCK_SIZE
           at     == Pointer(rd_ptr)
           nth    == Nth(fat.table, h)
           last   == ChainLength(fat.table, h) - 1
           n0     == Least(BLOCK_SIZE - at, length)
           left   == (length - n0 + BLOCK_SIZE - 1) \div BLOCK_SIZE
           more   == IF skip >= last THEN 0 ELSE Least(left, last - skip - 1)
           db     == [k \in 0..more |-> fat.table[nth[skip + k]].db_index]
           block  == BytesAt(pos, db[0])
           chunk  == IF at = -1 THEN SubSeq(<<NoByte>> \o block, 1, n0) ELSE SubSeq(block, at + 1, at + n0)
           loop   == ReadLoop([pos |-> Past(pos, db[0]), bytes |-> chunk], db, more)
           bytes  == SubSeq(loop[more].bytes, 1, Least(Len(loop[more].bytes), length))
<1>1. /\ phase = "idle"
      /\ IF ~Ends(fat.table, h) THEN Lost("undefined")
         ELSE IF skip > last THEN Lost("stuck")
         ELSE \/ /\ root' = [root EXCEPT !.table[f].rd_ptr = @ + length - Len(bytes)]
                 /\ pos' = loop[more].pos
                 /\ UNCHANGED <<disk, fat, freebl, opened_files, phase, todo, written, acked, torn>>
              \/ Lost("undefined")
  BY Zenon DEF Read
<1> HIDE DEF h, rd_ptr, skip, at, nth, last, n0, left, more, db, block, chunk, loop, bytes
<1>2. /\ root.table[f] \in Entry /\ root \in Directory /\ pos \in 0..MAX_DISK /\ fat.table \in Table
      /\ Types
  BY DEF IInv, Types, Directory, Chains
<1>3. h \in Node /\ rd_ptr \in Nat /\ length \in Nat /\ length # 0 /\ BLOCK_SIZE \in Nat \ {0} /\ MAX_DISK \in Nat
  BY <1>2, SFSAssumption DEF Entry, h, rd_ptr
<1>4. skip \in Nat /\ at \in -1..(BLOCK_SIZE - 1)
  BY <1>3, Quotient, PointerRange DEF skip, at
<1>5. ASSUME Ends(fat.table, h), ~(skip > last),
             root' = [root EXCEPT !.table[f].rd_ptr = @ + length - Len(bytes)],
             pos' = loop[more].pos,
             UNCHANGED <<disk, fat, freebl, opened_files, phase, todo, written, acked, torn>>
      PROVE  IInv'
  <2>1. /\ last \in Nat /\ last + 1 \in 1..MAX_DISK
        /\ \A k \in 0..last : nth[k] \in Node
    <3>1. /\ ChainLength(fat.table, h) \in 1..MAX_DISK
          /\ \A k \in 0..(ChainLength(fat.table, h) - 1) : nth[k] \in Node
      BY <1>2, <1>3, <1>5, ChainFacts DEF nth
    <3> QED BY <1>3, <3>1 DEF last
  <2>2. n0 \in Nat /\ n0 <= BLOCK_SIZE - at /\ n0 <= length
    BY <1>3, <1>4 DEF Least, n0
  <2>3. left \in Nat
    <3>1. length - n0 + BLOCK_SIZE - 1 \in Nat
      BY <1>3, <2>2
    <3> QED BY <1>3, <3>1, Quotient DEF left
  <2>4. more \in Nat /\ \A k \in 0..more : skip + k \in 0..last
    <3>0. skip \in Nat /\ last \in Nat /\ left \in Nat /\ skip <= last
      BY <1>4, <1>5, <2>1, <2>3
    <3>1. CASE skip >= last
      BY <3>0, <3>1 DEF more
    <3>2. CASE ~(skip >= last)
      <4>1. PICK room \in Nat : room = last - skip - 1
        BY <3>0, <3>2
      <4>2. Least(left, room) \in Nat /\ Least(left, room) <= room
        BY <3>0 DEF Least
      <4>3. more \in Nat /\ more <= last - skip - 1
        BY <3>2, <4>1, <4>2 DEF more
      <4> QED BY <3>0, <4>3
    <3> QED BY <3>1, <3>2
  <2>5. \A k \in 0..more : db[k] \in Int
    <3> SUFFICES ASSUME NEW k \in 0..more PROVE db[k] \in Int
      OBVIOUS
    <3>1. nth[skip + k] \in Node
      BY <2>1, <2>4
    <3>2. fat.table[nth[skip + k]].db_index \in DataBlock \cup {0, -1, EMPTY}
      BY <1>2, <3>1 DEF Table, NodeEntry
    <3>3. db[k] = fat.table[nth[skip + k]].db_index
      BY DEF db
    <3> QED BY <3>2, <3>3 DEF DataBlock, EMPTY
  <2>6. db[0] \in Int
    BY <2>4, <2>5
  <2>7. block \in Bytes /\ block \in Seq(Byte) /\ Len(block) = BLOCK_SIZE
    <3>1. block \in Bytes
      BY <1>2, <2>6, BlockRead DEF block
    <3> QED BY <3>1, <1>3 DEF Bytes
  <2>8. chunk \in Seq(Byte)
    <3>1. CASE at = -1
      <4>1. <<NoByte>> \in Seq(Byte) /\ Len(<<NoByte>>) = 1
        BY DEF Byte
      <4>2. <<NoByte>> \o block \in Seq(Byte) /\ Len(<<NoByte>> \o block) = 1 + BLOCK_SIZE
        BY <2>7, <4>1, ConcatProperties
      <4>3. n0 <= Len(<<NoByte>> \o block) /\ n0 \in Int /\ 1 \in Nat \ {0}
        BY <1>3, <2>2, <3>1, <4>2
      <4> QED BY <3>1, <4>2, <4>3, Piece DEF chunk
    <3>2. CASE at # -1
      <4>1. at + 1 \in Nat \ {0} /\ at + n0 \in Int /\ at + n0 <= Len(block)
        BY <1>3, <1>4, <2>2, <2>7, <3>2
      <4> QED BY <2>7, <3>2, <4>1, Piece DEF chunk
    <3> QED BY <3>1, <3>2
  <2>9. PICK first : first = [pos |-> Past(pos, db[0]), bytes |-> chunk]
    OBVIOUS
  <2>10. first.pos \in 0..MAX_DISK /\ first.bytes \in Seq(Byte)
    BY <1>2, <2>6, <2>8, <2>9, PositionTypes
  <2>11. loop[more].pos \in 0..MAX_DISK /\ loop[more].bytes \in Seq(Byte)
    BY <1>2, <2>4, <2>5, <2>9, <2>10, ReadTypes DEF loop
  <2>12. Len(bytes) \in 0..length
    BY <1>3, <2>11, Cut DEF bytes
  <2>13. PICK e : e = [root.table[f] EXCEPT !.rd_ptr = @ + length - Len(bytes)]
    OBVIOUS
  <2>14. e \in Entry /\ SavedEntry(e) = SavedEntry(root.table[f])
    <3>1. root.table[f].rd_ptr + length - Len(bytes) \in Nat
      BY <1>3, <2>12 DEF rd_ptr
    <3> QED BY <1>2, <2>13, <3>1 DEF Entry, SavedEntry
  <2>15. root' = [root EXCEPT !.table[f] = e]
    BY <1>5, <2>13
  <2> QED BY <1>1, <1>5, <2>11, <2>14, <2>15, FlagChanged
<1>6. CASE Lost("undefined") \/ Lost("stuck")
  BY <1>1, <1>6, LostKeeps
<1> QED BY <1>1, <1>5, <1>6

---------------------------------------------------------------------------------
(* A new file *)

(* The directory with the descriptor and the entry of a new file. *)
Made(table, f, e, name, c) == [[table EXCEPT ![f] = Descriptor(@, name)] EXCEPT ![e] = FileEntry(@, name, c)]

(* It changes the two, which may be one and the same. *)
LEMMA EntryMade ==
    ASSUME NEW table \in [Slot -> Entry], NEW f \in Slot, NEW e \in Slot, NEW name \in Name, NEW c \in Node, NEW t,
           t = Made(table, f, e, name, c)
    PROVE  /\ t \in [Slot -> Entry]
           /\ t[f].name = name /\ t[e].name = name /\ t[e].fat_index = c
           /\ \A g \in Slot \ {e} : t[g].fat_index = table[g].fat_index
           /\ \A g \in Slot \ {e, f} : t[g].name = table[g].name
<1>0. c \in Nat
  BY Numbers DEF Node
<1>1. PICK u : u = [table EXCEPT ![f] = Descriptor(@, name)]
  OBVIOUS
<1>2. ASSUME NEW x \in Entry
      PROVE  /\ Descriptor(x, name) \in Entry
             /\ Descriptor(x, name).name = name /\ Descriptor(x, name).fat_index = x.fat_index
  BY DEF Descriptor, Entry
<1>3. ASSUME NEW x \in Entry
      PROVE  /\ FileEntry(x, name, c) \in Entry
             /\ FileEntry(x, name, c).name = name /\ FileEntry(x, name, c).fat_index = c
  BY <1>0 DEF FileEntry, Entry
<1>4. /\ u \in [Slot -> Entry] /\ u[f].name = name
      /\ \A g \in Slot : u[g].fat_index = table[g].fat_index
      /\ \A g \in Slot \ {f} : u[g].name = table[g].name
  BY <1>1, <1>2
<1>5. t = [u EXCEPT ![e] = FileEntry(@, name, c)]
  BY <1>1 DEF Made
<1> QED BY <1>3, <1>4, <1>5

(* The directory, the table and the list agree after a new file as they did before. *)
LEMMA FileAdded ==
    ASSUME NEW table \in Table, NEW c \in Node, NEW list, Sound(table, c),
           NEW rt \in Directory, NEW f \in Slot, NEW e \in Slot, e = rt.next_cursor,
           Agree(rt, table, c, list), Full(rt), (\A g \in Slot : Named(rt, g)) \/ f <= e,
           NEW t \in Table, t[c].next = -1, \A n \in Node \ {c} : t[n].next = table[n].next,
           NEW list2, Marked(t, c + 1, list2), BlocksApart(t, c + 1),
           NEW r \in Directory, NEW name \in Name,
           r.table[f].name = name, r.table[e].name = name, r.table[e].fat_index = c,
           \A g \in Slot \ {e} : r.table[g].fat_index = rt.table[g].fat_index,
           \A g \in Slot \ {e, f} : r.table[g].name = rt.table[g].name,
           r.next_cursor # e + 1 => e + 1 = MAX_FILE
    PROVE  /\ Agree(r, t, c + 1, list2) /\ Full(r)
           /\ (\A g \in Slot : Named(r, g)) \/ f + 1 <= r.next_cursor
<1>0. /\ c \in Nat /\ f \in Nat /\ e \in Nat /\ MAX_FILE \in Nat /\ NoName \notin Name /\ -1 \notin Node /\ Node \subseteq Nat
      /\ r.next_cursor \in Slot /\ \A g \in Slot : g \in Nat /\ g < MAX_FILE
  <2>1. MAX_FILE \in Nat /\ NoName \notin Name /\ -1 \notin Node /\ Node \subseteq Nat
    BY Numbers, SFSAssumption
  <2>2. ASSUME NEW g \in Slot PROVE g \in Nat /\ g < MAX_FILE
    BY <2>1 DEF Slot
  <2>3. r.next_cursor \in Slot
    BY DEF Directory
  <2> QED BY <2>1, <2>2, <2>3
<1>1. Named(r, e) /\ Named(r, f)
  BY <1>0 DEF Named
<1>2. \A g \in Slot : Named(rt, g) => Named(r, g)
  BY <1>1 DEF Named
<1>3. ASSUME NEW g \in Slot, g # e, Named(r, g) PROVE Named(rt, g)
  <2>1. CASE g # f
    BY <2>1, <1>3 DEF Named
  <2>2. CASE g = f /\ f <= e
    BY <2>2, <1>3, <1>0 DEF Full
  <2>3. CASE \A k \in Slot : Named(rt, k)
    BY <2>3
  <2> QED BY <2>1, <2>2, <2>3
<1>4. Rooted(rt, table, c) /\ HeadsApart(rt)
  BY DEF Agree
<1>5. Rooted(rt, t, c + 1)
  <2>1. \A n \in Node \ {c} : t[n].next = IF n = c THEN c ELSE table[n].next
    OBVIOUS
  <2> QED BY <2>1, <1>4, RootedKept
<1>6. \A n \in Node : n < c => table[n].next # c
  BY <1>0 DEF Sound
<1>7. Rooted(r, t, c + 1)
  <2> SUFFICES ASSUME NEW g \in Slot, Named(r, g)
               PROVE  /\ r.table[g].fat_index < c + 1
                      /\ \A n \in Node : n < c + 1 => t[n].next # r.table[g].fat_index
    BY DEF Rooted
  <2>1. CASE g = e
    <3>1. ASSUME NEW n \in Node, n < c + 1 PROVE t[n].next # c
      <4>0. n \in Nat /\ c \in Nat /\ n < c + 1
        BY <1>0, <3>1
      <4>1. n = c \/ n < c
        BY ONLY <4>0
      <4> QED BY ZenonT(60), <4>1, <1>0, <1>6
    <3> QED BY <2>1, <3>1, <1>0
  <2>2. CASE g # e
    BY <2>2, <1>3, <1>5 DEF Rooted
  <2> QED BY <2>1, <2>2
<1>8. HeadsApart(r)
  <2> SUFFICES ASSUME NEW g \in Slot, NEW k \in Slot, Named(r, g), Named(r, k),
                      r.table[g].fat_index = r.table[k].fat_index
               PROVE  g = k
    BY DEF HeadsApart
  <2>1. \A j \in Slot : j # e /\ Named(r, j) => r.table[j].fat_index < c
    BY <1>3, <1>4 DEF Rooted
  <2>2. CASE g = e \/ k = e
    BY <2>1, <2>2, <1>0
  <2>3. CASE g # e /\ k # e
    BY <2>3, <1>3, <1>4 DEF HeadsApart
  <2> QED BY <2>2, <2>3
<1>9. r.next_cursor <= e + 1
  <2>1. PICK nc : nc = r.next_cursor
    OBVIOUS
  <2>2. nc \in Nat /\ nc < MAX_FILE /\ (nc # e + 1 => e + 1 = MAX_FILE)
    BY <1>0, <2>1
  <2>3. nc <= e + 1
    BY <2>2, <1>0
  <2> QED BY <2>1, <2>3
<1>10. \A g \in Slot : g <= e => Named(r, g)
  <2> SUFFICES ASSUME NEW g \in Slot, g <= e, g # e PROVE Named(r, g)
    BY <1>1
  <2>1. g < e
    BY <1>0
  <2> QED BY <2>1, <1>2 DEF Full
<1>11. Full(r)
  <2> SUFFICES ASSUME NEW g \in Slot, g < r.next_cursor PROVE Named(r, g)
    BY DEF Full
  <2>1. g <= e
    BY <1>0, <1>9
  <2> QED BY <2>1, <1>10
<1>12. (\A g \in Slot : Named(r, g)) \/ f + 1 <= r.next_cursor
  <2>1. CASE \A g \in Slot : Named(rt, g)
    BY <2>1, <1>2
  <2>2. CASE f <= e /\ r.next_cursor = e + 1
    BY <2>2, <1>0
  <2>3. CASE e + 1 = MAX_FILE
    <3>1. \A g \in Slot : g <= e
      BY <2>3, <1>0
    <3> QED BY <3>1, <1>10
  <2> QED BY <2>1, <2>2, <2>3
<1> QED BY <1>7, <1>8, <1>11, <1>12 DEF Agree

(* sfs_open of a new file. *)
LEMMA CreateKeeps == ASSUME IInv, NEW name \in Name, Create(name) PROVE IInv'
<1>1. /\ Types /\ TodoInv /\ DiskInv /\ HeadsInv /\ AgreeInv
      /\ root \in Directory /\ fat \in Chains /\ freebl \in List /\ root.table \in [Slot -> Entry] /\ fat.table \in Table
      /\ opened_files \in 0..MAX_FILE /\ written \in [Slot -> Nat] /\ acked \in [Slot -> Nat] /\ pos \in 0..MAX_DISK
      /\ root.next_cursor \in Slot
  BY DEF IInv, Types, Directory, Chains
<1> DEFINE f == opened_files
           c == fat.next_cursor
           e == root.next_cursor
           db == FreeBlock(freebl)
           ft == [fat.table EXCEPT ![c] = [db_index |-> db, next |-> -1]]
           rt == [[root.table EXCEPT ![f] = Descriptor(@, name)] EXCEPT ![e] = FileEntry(@, name, c)]
<1>2. /\ phase = "idle"
      /\ \/ Lost("undefined")
         \/ Stop /\ UNCHANGED <<diskVars, boots, written, acked, misplaced, torn>>
         \/ /\ f \in Slot /\ c \in Node /\ NextEntry(rt, e) # MAX_FILE
            /\ fat' = [table |-> ft, next_cursor |-> NextCursor(ft, c)]
            /\ freebl' = Taken(freebl, db)
            /\ root' = [table |-> rt, next_cursor |-> NextEntry(rt, e)]
            /\ opened_files' = f + 1 /\ todo' = Save /\ phase' = "busy"
            /\ written' = [written EXCEPT ![e] = 0] /\ acked' = [acked EXCEPT ![e] = 0]
            /\ UNCHANGED <<diskVars, boots, torn>>
  BY DEF Create
<1> HIDE DEF ft, rt
<1>3. CASE Lost("undefined")
  BY <1>2, <1>3, LostKeeps
<1>4. CASE Stop /\ UNCHANGED <<diskVars, boots, written, acked, misplaced, torn>>
  <2>1. todo = <<>> /\ ~(Len(todo) \in 1..2)
    BY <1>1, <1>2, EmptySeq DEF TodoInv
  <2> QED BY <1>2, <1>4, <2>1, StopKeeps DEF diskVars
<1>5. CASE /\ f \in Slot /\ c \in Node /\ NextEntry(rt, e) # MAX_FILE
           /\ fat' = [table |-> ft, next_cursor |-> NextCursor(ft, c)]
           /\ freebl' = Taken(freebl, db)
           /\ root' = [table |-> rt, next_cursor |-> NextEntry(rt, e)]
           /\ opened_files' = f + 1 /\ todo' = Save /\ phase' = "busy"
           /\ written' = [written EXCEPT ![e] = 0] /\ acked' = [acked EXCEPT ![e] = 0]
           /\ UNCHANGED <<diskVars, boots, torn>>
  <2>0. /\ f \in Slot /\ c \in Node /\ c \in Nat /\ e \in Slot
    BY <1>1, <1>5, Numbers
  <2>1. /\ Sound(fat.table, c) /\ Within(freebl, fat.table) /\ Heads(root, c)
        /\ ~torn => Agree(root, fat.table, c, freebl) /\ Full(root) /\ Handles
    BY <1>1, <1>2 DEF DiskInv, HeadsInv, AgreeInv, Running
  <2>2. db \in DataBlock \cup {-1} /\ db \in Int
    BY <1>1, FreeBlockType
  <2>3. ft \in Table /\ ft[c].db_index = db /\ ft[c].next = -1 /\ \A n \in Node \ {c} : ft[n] = fat.table[n]
    <3>1. [db_index |-> db, next |-> -1] \in NodeEntry
      BY <2>2 DEF NodeEntry
    <3> QED BY <1>1, <2>0, <3>1 DEF ft, Table
  <2> HIDE DEF db
  <2>4. \A n \in Node \ {c} : /\ ft[n].db_index = fat.table[n].db_index
                              /\ ft[n].next = IF n = c THEN c ELSE fat.table[n].next
    BY <2>3
  <2>5. /\ Sound(ft, c + 1) /\ NextCursor(ft, c) = c + 1 /\ Taken(freebl, db) \in List
        /\ \A l \in List : Within(l, fat.table) => Within(l, ft)
        /\ Within(freebl, fat.table) => Within(Taken(freebl, db), ft)
        /\ Marked(fat.table, c, freebl) => Marked(ft, c + 1, Taken(freebl, db))
        /\ Marked(fat.table, c, freebl) /\ BlocksApart(fat.table, c) => BlocksApart(ft, c + 1)
    <3>1. c <= c /\ (c # c => fat.table[c].next = -1)
      BY <2>0
    <3>2. ft[c].db_index = FreeBlock(freebl)
      BY <2>3 DEF db
    <3>3. /\ Sound(ft, c + 1) /\ NextCursor(ft, c) = c + 1 /\ Taken(freebl, FreeBlock(freebl)) \in List
          /\ \A l \in List : Within(l, fat.table) => Within(l, ft)
          /\ Within(freebl, fat.table) => Within(Taken(freebl, FreeBlock(freebl)), ft)
          /\ Marked(fat.table, c, freebl) => Marked(ft, c + 1, Taken(freebl, FreeBlock(freebl)))
          /\ Marked(fat.table, c, freebl) /\ BlocksApart(fat.table, c) => BlocksApart(ft, c + 1)
      BY <1>1, <2>0, <2>1, <2>3, <2>4, <3>1, <3>2, NodeAdded
    <3> QED BY <3>3 DEF db
  <2>6. /\ rt \in [Slot -> Entry] /\ rt[f].name = name /\ rt[e].name = name /\ rt[e].fat_index = c
        /\ \A g \in Slot \ {e} : rt[g].fat_index = root.table[g].fat_index
        /\ \A g \in Slot \ {e, f} : rt[g].name = root.table[g].name
    <3>1. rt = Made(root.table, f, e, name, c)
      BY DEF rt, Made
    <3> DEFINE tb == root.table
    <3>2. tb \in [Slot -> Entry] /\ f \in Slot /\ e \in Slot /\ c \in Node /\ rt = Made(tb, f, e, name, c)
      BY <1>1, <2>0, <3>1
    <3> HIDE DEF f, c, e, tb
    <3>3. /\ rt \in [Slot -> Entry] /\ rt[f].name = name /\ rt[e].name = name /\ rt[e].fat_index = c
          /\ \A g \in Slot \ {e} : rt[g].fat_index = tb[g].fat_index
          /\ \A g \in Slot \ {e, f} : rt[g].name = tb[g].name
      BY <3>2, EntryMade
    <3> QED BY <3>3 DEF tb
  <2>7. /\ NextEntry(rt, e) \in Slot /\ (NextEntry(rt, e) # e + 1 => e + 1 = MAX_FILE)
    <3>1. NextEntry(rt, e) \in Slot \cup {MAX_FILE} /\ (NextEntry(rt, e) # e + 1 => e + 1 = MAX_FILE)
      BY <2>0, <2>6, NextEntryFound
    <3> QED BY <3>1, <1>5
  <2>8. /\ root' \in Directory /\ root'.table = rt /\ root'.next_cursor = NextEntry(rt, e)
    BY <1>5, <2>6, <2>7 DEF Directory
  <2>9. c + 1 \in 0..MAX_DISK /\ f + 1 \in 0..MAX_FILE /\ c \in 0..MAX_DISK
    BY <2>0, Numbers DEF Node, Slot
  <2>10. /\ fat' \in Chains /\ fat'.table = ft /\ fat'.next_cursor = c + 1
    BY <1>5, <2>3, <2>5, <2>9 DEF Chains
  <2>11. Heads(root', c)
    <3>1. \A g \in Slot : root.table[g].fat_index <= c
      BY <2>1 DEF Heads
    <3>2. \A g \in Slot : rt[g].fat_index <= c
      BY <2>0, <2>6, <3>1
    <3> QED BY <2>8, <3>2 DEF Heads
  <2>12. Heads(root', c + 1) /\ c + 1 - 1 = c
    <3>1. ASSUME NEW g \in Slot PROVE root'.table[g].fat_index <= c + 1
      <4>1. root'.table[g].fat_index \in Nat /\ root'.table[g].fat_index <= c
        BY <2>8, <2>6, <2>11, Numbers DEF Heads, Entry
      <4> QED BY <2>0, <4>1
    <3> QED BY <2>0, <3>1 DEF Heads
  <2>13. ~torn => Agree(root', ft, c + 1, freebl') /\ Full(root') /\ Handles'
    <3> SUFFICES ASSUME ~torn PROVE Agree(root', ft, c + 1, freebl') /\ Full(root') /\ Handles'
      OBVIOUS
    <3>1. /\ Agree(root, fat.table, c, freebl) /\ Full(root) /\ ((\A g \in Slot : Named(root, g)) \/ f <= e)
      BY <2>1 DEF Handles
    <3>2. Marked(ft, c + 1, freebl') /\ BlocksApart(ft, c + 1)
      BY <1>5, <2>5, <3>1 DEF Agree
    <3>3. \A n \in Node \ {c} : ft[n].next = fat.table[n].next
      BY <2>3
    <3>4. /\ root'.table[f].name = name /\ root'.table[e].name = name /\ root'.table[e].fat_index = c
          /\ \A g \in Slot \ {e} : root'.table[g].fat_index = root.table[g].fat_index
          /\ \A g \in Slot \ {e, f} : root'.table[g].name = root.table[g].name
          /\ root'.next_cursor # e + 1 => e + 1 = MAX_FILE
      BY <2>6, <2>7, <2>8
    <3> DEFINE tb    == fat.table
               d     == root
               list  == freebl
               r     == root'
               list2 == freebl'
    <3>5. /\ tb \in Table /\ c \in Node /\ Sound(tb, c) /\ d \in Directory /\ f \in Slot /\ e \in Slot
          /\ e = d.next_cursor /\ Agree(d, tb, c, list) /\ Full(d) /\ ((\A g \in Slot : Named(d, g)) \/ f <= e)
          /\ ft \in Table /\ ft[c].next = -1 /\ \A n \in Node \ {c} : ft[n].next = tb[n].next
      BY <1>1, <2>0, <2>1, <2>3, <3>1, <3>3
    <3>6. /\ Marked(ft, c + 1, list2) /\ BlocksApart(ft, c + 1) /\ r \in Directory
          /\ r.table[f].name = name /\ r.table[e].name = name /\ r.table[e].fat_index = c
          /\ \A g \in Slot \ {e} : r.table[g].fat_index = d.table[g].fat_index
          /\ \A g \in Slot \ {e, f} : r.table[g].name = d.table[g].name
          /\ r.next_cursor # e + 1 => e + 1 = MAX_FILE
      BY <2>8, <3>2, <3>4
    <3> HIDE DEF f, c, e, tb, d, list, r, list2
    <3>7. /\ Agree(r, ft, c + 1, list2) /\ Full(r) /\ ((\A g \in Slot : Named(r, g)) \/ f + 1 <= r.next_cursor)
      BY <3>5, <3>6, FileAdded
    <3> QED BY <1>5, <3>7 DEF Handles, r, list2, f, c
  <2>14. PICK w : w = <<>>
    OBVIOUS
  <2>15. w \in Seq(DataWrite) /\ todo' = w \o Save
    BY <1>5, <2>14, SaveList
  <2>16. written' \in [Slot -> Nat] /\ acked' \in [Slot -> Nat] /\ pos' \in 0..MAX_DISK /\ UNCHANGED disk
    BY <1>1, <1>5 DEF diskVars
  <2>17. Within(freebl', ft)
    BY <1>5, <2>1, <2>5
  <2>18. freebl' \in List /\ opened_files' \in 0..MAX_FILE
    BY <1>5, <2>5, <2>9
  <2>19. /\ Sound(fat'.table, fat'.next_cursor) /\ Within(freebl', fat'.table)
         /\ \A l \in List : Within(l, fat.table) => Within(l, fat'.table)
    BY <2>5, <2>10, <2>17
  <2>20. Heads(root', fat.next_cursor) /\ Heads(root', fat'.next_cursor - 1) /\ Heads(root', fat'.next_cursor)
    <3>1. fat'.next_cursor - 1 = fat.next_cursor
      BY <2>0, <2>10
    <3>2. Heads(root', fat'.next_cursor - 1)
      BY <2>11, <3>1, Zenon
    <3>3. Heads(root', fat'.next_cursor)
      BY <2>10, <2>12, Zenon
    <3> QED BY <2>11, <3>2, <3>3
  <2>21. ~torn => Agree(root', fat'.table, fat'.next_cursor, freebl') /\ Full(root') /\ Handles'
    BY <2>10, <2>13
  <2>22. phase = "idle" /\ phase' = "busy" /\ UNCHANGED <<disk, torn>> /\ root' \in Directory /\ fat' \in Chains
    BY <1>2, <1>5, <2>8, <2>10, <2>16
  <2> QED BY <2>15, <2>16, <2>18, <2>19, <2>20, <2>21, <2>22, BeginKeeps
<1> QED BY <1>2, <1>3, <1>4, <1>5

---------------------------------------------------------------------------------
(* sfs_write *)

(* The loop keeps what held when it began, for as long as the table has room. *)
LEMMA LoopAlways ==
    ASSUME NEW table \in Table, NEW cursor \in 0..MAX_DISK, NEW list \in List,
           NEW first, LoopInv(first, table, cursor, list),
           NEW bytes \in Seq(Byte), NEW n0 \in Nat, NEW blocks \in Nat,
           \A k \in 0..(blocks - 1) : Extended(first, bytes, n0, blocks)[k].cursor \in Node
    PROVE  \A k \in 0..blocks : LoopInv(Extended(first, bytes, n0, blocks)[k], table, cursor, list)
<1> DEFINE loop == Extended(first, bytes, n0, blocks)
           S    == {k \in Nat : k <= blocks => LoopInv(loop[k], table, cursor, list)}
<1>1. /\ loop[0] = first
      /\ \A k \in 1..blocks :
            loop[k] = NewBlock(loop[k - 1], SubSeq(bytes, n0 + (k - 1) * BLOCK_SIZE + 1,
                                                   Least(Len(bytes), n0 + k * BLOCK_SIZE)))
  BY ExtendedSteps
<1>2. \A k \in 0..(blocks - 1) : loop[k].cursor \in Node
  OBVIOUS
<1> HIDE DEF loop
<1>3. 0 \in S
  BY <1>1
<1>4. ASSUME NEW k \in Nat, k \in S PROVE k + 1 \in S
  <2> SUFFICES ASSUME k + 1 <= blocks PROVE LoopInv(loop[k + 1], table, cursor, list)
    OBVIOUS
  <2>1. k \in 0..(blocks - 1) /\ k + 1 \in 1..blocks /\ k <= blocks /\ k + 1 - 1 = k
    OBVIOUS
  <2>2. LoopInv(loop[k], table, cursor, list) /\ loop[k].cursor \in Node
    BY <1>2, <1>4, <2>1
  <2>3. PICK m, n : m = n0 + k * BLOCK_SIZE + 1 /\ n = Least(Len(bytes), n0 + (k + 1) * BLOCK_SIZE)
    OBVIOUS
  <2>4. loop[k + 1] = NewBlock(loop[k], SubSeq(bytes, m, n))
    <3>1. loop[k + 1] = NewBlock(loop[k + 1 - 1], SubSeq(bytes, n0 + (k + 1 - 1) * BLOCK_SIZE + 1,
                                                        Least(Len(bytes), n0 + (k + 1) * BLOCK_SIZE)))
      BY <1>1, <2>1
    <3> QED BY <2>1, <2>3, <3>1
  <2>5. m \in Nat \ {0} /\ n \in Int /\ n <= Len(bytes)
    <3>1. k * BLOCK_SIZE \in Nat /\ (k + 1) * BLOCK_SIZE \in Nat
      BY Times, Numbers
    <3>2. PICK a, b \in Nat : a = k * BLOCK_SIZE /\ b = (k + 1) * BLOCK_SIZE
      BY <3>1
    <3>3. m = n0 + a + 1 /\ n = Least(Len(bytes), n0 + b) /\ Len(bytes) \in Nat
      BY <2>3, <3>2
    <3> QED BY <3>3 DEF Least
  <2>6. PICK piece : piece = SubSeq(bytes, m, n)
    OBVIOUS
  <2>7. piece \in Seq(Byte)
    BY <2>5, <2>6, Piece
  <2> DEFINE s == loop[k]
  <2>8. LoopInv(s, table, cursor, list) /\ s.cursor \in Node /\ loop[k + 1] = NewBlock(s, piece)
    BY <2>2, <2>4, <2>6
  <2> HIDE DEF s
  <2> QED BY <2>7, <2>8, NewBlockKeeps
<1>5. Nat \subseteq S
  <2> HIDE DEF S
  <2> QED BY <1>3, <1>4, Induction
<1>6. \A k \in 0..blocks : LoopInv(loop[k], table, cursor, list)
  BY <1>5
<1> QED BY <1>6 DEF loop

(* In particular at its end. *)
LEMMA LoopHolds ==
    ASSUME NEW table \in Table, NEW cursor \in 0..MAX_DISK, NEW list \in List,
           NEW first, LoopInv(first, table, cursor, list),
           NEW bytes \in Seq(Byte), NEW n0 \in Nat, NEW blocks \in Nat,
           \A k \in 0..(blocks - 1) : Extended(first, bytes, n0, blocks)[k].cursor \in Node
    PROVE  LoopInv(Extended(first, bytes, n0, blocks)[blocks], table, cursor, list)
<1> blocks \in 0..blocks
  OBVIOUS
<1> QED BY LoopAlways

(* The loop begins behind the last block of the chain of a file. *)
LEMMA LoopBegins ==
    ASSUME NEW table \in Table, NEW cursor \in 0..MAX_DISK, NEW list \in List, Sound(table, cursor),
           NEW h \in Node, h < cursor, Ends(table, h),
           NEW buffer \in Bytes, NEW writes \in Seq(DataWrite),
           NEW s, s = [table |-> table, cursor |-> cursor, list |-> list,
                       last |-> Nth(table, h)[ChainLength(table, h) - 1], buffer |-> buffer, writes |-> writes]
    PROVE  LoopInv(s, table, cursor, list)
<1> DEFINE n   == ChainLength(table, h)
           nth == Nth(table, h)
<1>1. /\ n \in 1..MAX_DISK /\ nth[n] = -1
      /\ \A k \in 0..(n - 1) : nth[k] \in Node /\ nth[k] < cursor /\ nth[k + 1] = table[nth[k]].next
  BY ChainFacts, ChainUsed
<1> HIDE DEF n, nth
<1>2. n \in Nat /\ n - 1 \in 0..(n - 1) /\ n - 1 + 1 = n
  BY <1>1, Numbers
<1>3. nth[n - 1] \in Node /\ nth[n - 1] < cursor /\ table[nth[n - 1]].next = -1
  BY <1>1, <1>2
<1>4. s.table = table /\ s.cursor = cursor /\ s.list = list /\ s.last = nth[n - 1]
  BY DEF n, nth
<1>5. s \in LoopState
  BY <1>3 DEF LoopState, n, nth
<1>6. cursor <= cursor
  BY Numbers
<1> QED BY <1>3, <1>4, <1>5, <1>6 DEF LoopInv

(* The block whose bytes sfs_write reads first. *)
LEMMA TargetFound ==
    ASSUME NEW table \in Table, NEW h \in Node, Ends(table, h)
    PROVE  WriteTarget(table, h) \in Int
<1> DEFINE n   == ChainLength(table, h)
           nth == Nth(table, h)
<1>1. n \in 1..MAX_DISK /\ MAX_DISK \in Nat /\ \A k \in 0..(n - 1) : nth[k] \in Node
  BY ChainFacts, Numbers
<1>2. WriteTarget(table, h) = table[nth[IF n - 1 = 0 THEN 0 ELSE n - 1 - 1]].db_index
  BY DEF WriteTarget
<1> HIDE DEF n, nth
<1>3. PICK k \in 0..(n - 1) : k = IF n - 1 = 0 THEN 0 ELSE n - 1 - 1
  BY <1>1
<1>4. nth[k] \in Node
  BY <1>1
<1>5. table[nth[k]].db_index \in DataBlock \cup {0, -1, EMPTY}
  BY <1>4 DEF Table, NodeEntry
<1>6. WriteTarget(table, h) \in DataBlock \cup {0, -1, EMPTY}
  BY <1>2, <1>3, <1>5
<1>7. DataBlock \subseteq Int /\ {0, -1, EMPTY} \subseteq Int
  <2>1. DataBlock \subseteq Int
    BY Numbers
  <2>2. {0, -1, EMPTY} \subseteq Int
    BY DEF EMPTY
  <2> QED BY <2>1, <2>2
<1> QED BY <1>6, <1>7

(* sfs_write. *)
LEMMA WriteKeeps == ASSUME IInv, NEW f \in Slot, NEW length \in Lengths, Write(f, length) PROVE IInv'
<1> DEFINE h      == root.table[f].fat_index
           wr_ptr == root.table[f].wr_ptr
           target == WriteTarget(fat.table, h)
           at     == Pointer(wr_ptr)
           n0     == IF at = -1 THEN 0 ELSE Least(BLOCK_SIZE - at, length)
           bytes  == [k \in 1..length |-> <<f, written[f] + k - 1>>]
           read   == BytesAt(pos, target)
           buffer == IF at = -1 THEN read ELSE Overlay(read, at, SubSeq(bytes, 1, n0))
           blocks == (length - n0 + BLOCK_SIZE - 1) \div BLOCK_SIZE
           pending == IF at = -1 THEN <<>> ELSE <<[at |-> target, kind |-> "data", bytes |-> buffer]>>
           first  == [table |-> fat.table, cursor |-> fat.next_cursor, list |-> freebl,
                      last |-> Nth(fat.table, h)[ChainLength(fat.table, h) - 1], buffer |-> buffer,
                      writes |-> pending]
           loop   == Extended(first, bytes, n0, blocks)
           end    == loop[blocks]
           entry  == Grown(root.table[f], length)
<1>1. /\ phase = "idle" /\ f < opened_files
      /\ IF \/ ~Ends(fat.table, h)
            \/ blocks > 0 /\ \E k \in 0..(blocks - 1) : loop[k].cursor \notin Node
           THEN Lost("undefined")
           ELSE /\ fat' = [table |-> end.table, next_cursor |-> end.cursor]
                /\ freebl' = end.list
                /\ root' = [root EXCEPT !.table[f] = entry]
                /\ todo' = end.writes \o Save
                /\ phase' = "busy"
                /\ pos' = Past(pos, target)
                /\ written' = [written EXCEPT ![f] = @ + length]
                /\ UNCHANGED <<disk, opened_files, boots, acked, torn>>
  BY ZenonT(60) DEF Write
<1> HIDE DEF h, wr_ptr, target, at, n0, bytes, read, buffer, blocks, pending, first, loop, end, entry
<1>2. /\ Types /\ TodoInv /\ DiskInv /\ HeadsInv /\ AgreeInv
      /\ root \in Directory /\ root.table[f] \in Entry /\ fat \in Chains /\ fat.table \in Table /\ freebl \in List
      /\ fat.next_cursor \in 0..MAX_DISK
      /\ opened_files \in 0..MAX_FILE /\ pos \in 0..MAX_DISK /\ written \in [Slot -> Nat] /\ acked \in [Slot -> Nat]
  BY DEF IInv, Types, Directory, Chains
<1>3. /\ h \in Node /\ wr_ptr \in Nat /\ length \in Nat /\ length # 0 /\ BLOCK_SIZE \in Nat \ {0} /\ MAX_DISK \in Nat
      /\ opened_files > 0
  <2>1. f \in Nat /\ opened_files \in Nat
    BY <1>2, Numbers DEF Slot
  <2>2. opened_files > 0
    BY <1>1, <2>1
  <2> QED BY <1>2, <2>2, SFSAssumption DEF Entry, h, wr_ptr
<1>4. at \in -1..(BLOCK_SIZE - 1)
  BY <1>3, PointerRange DEF at
<1>5. CASE Lost("undefined")
  BY <1>1, <1>5, LostKeeps
<1>6. ASSUME Ends(fat.table, h), ~(blocks > 0 /\ \E k \in 0..(blocks - 1) : loop[k].cursor \notin Node),
             fat' = [table |-> end.table, next_cursor |-> end.cursor],
             freebl' = end.list,
             root' = [root EXCEPT !.table[f] = entry],
             todo' = end.writes \o Save, phase' = "busy", pos' = Past(pos, target),
             written' = [written EXCEPT ![f] = @ + length],
             UNCHANGED <<disk, opened_files, boots, acked, torn>>
      PROVE  IInv'
  <2>1. /\ Sound(fat.table, fat.next_cursor) /\ Within(freebl, fat.table)
        /\ Heads(root, fat.next_cursor) /\ Heads(root, fat.next_cursor - 1)
        /\ ~torn => Agree(root, fat.table, fat.next_cursor, freebl) /\ Full(root) /\ Handles
    BY <1>1, <1>2, <1>3 DEF DiskInv, HeadsInv, AgreeInv, Running
  <2>2. h < fat.next_cursor
    <3>1. h <= fat.next_cursor - 1
      BY <2>1 DEF Heads, h
    <3> QED BY <3>1, <1>2, <1>3, Numbers
  <2>3. target \in Int
    BY <1>2, <1>3, <1>6, TargetFound DEF target
  <2>4. n0 \in Nat /\ n0 <= length
    BY <1>3, <1>4 DEF n0, Least
  <2>5. bytes \in Seq(Byte) /\ Len(bytes) = length
    <3>1. \A k \in 1..length : <<f, written[f] + k - 1>> \in Byte
      BY <1>2, <1>3 DEF Byte
    <3> QED BY <1>3, <3>1 DEF bytes
  <2>6. read \in Bytes
    BY <1>2, <2>3, BlockRead DEF read
  <2>7. buffer \in Bytes
    <3>1. CASE at = -1
      BY <2>6, <3>1 DEF buffer
    <3>2. CASE at # -1
      <4>1. SubSeq(bytes, 1, n0) \in Seq(Byte)
        BY <2>4, <2>5, Piece
      <4>2. at \in Nat
        BY <1>3, <1>4, <3>2
      <4> QED BY <2>6, <3>2, <4>1, <4>2, OverlayTypes DEF buffer
    <3> QED BY <3>1, <3>2
  <2>8. pending \in Seq(DataWrite)
    <3>1. [at |-> target, kind |-> "data", bytes |-> buffer] \in DataWrite
      BY <2>3, <2>7 DEF DataWrite
    <3> QED BY <3>1 DEF pending
  <2>9. blocks \in Nat
    <3>1. length - n0 + BLOCK_SIZE - 1 \in Nat
      BY <1>3, <2>4
    <3> QED BY <1>3, <3>1, Quotient DEF blocks
  <2> DEFINE tb == fat.table
             cu == fat.next_cursor
             li == freebl
  <2>10. LoopInv(first, tb, cu, li)
    <3>1. /\ tb \in Table /\ cu \in 0..MAX_DISK /\ li \in List /\ Sound(tb, cu) /\ h < cu /\ Ends(tb, h)
          /\ first = [table |-> tb, cursor |-> cu, list |-> li,
                      last |-> Nth(tb, h)[ChainLength(tb, h) - 1], buffer |-> buffer, writes |-> pending]
      BY <1>2, <1>6, <2>1, <2>2 DEF first
    <3> HIDE DEF tb, cu, li
    <3> QED BY <1>3, <2>7, <2>8, <3>1, LoopBegins
  <2>11. \A k \in 0..(blocks - 1) : loop[k].cursor \in Node
    <3> SUFFICES ASSUME NEW k \in 0..(blocks - 1) PROVE loop[k].cursor \in Node
      OBVIOUS
    <3>1. blocks > 0
      BY <2>9
    <3> QED BY <1>6, <3>1
  <2>12. LoopInv(end, tb, cu, li)
    <3>1. tb \in Table /\ cu \in 0..MAX_DISK /\ li \in List
      BY <1>2
    <3> HIDE DEF tb, cu, li
    <3>2. LoopInv(loop[blocks], tb, cu, li)
      BY <2>4, <2>5, <2>9, <2>10, <2>11, <3>1, LoopHolds DEF loop
    <3> QED BY <3>2 DEF end
  <2>13. /\ end.table \in Table /\ end.cursor \in 0..MAX_DISK /\ end.list \in List /\ end.writes \in Seq(DataWrite)
         /\ Sound(end.table, end.cursor) /\ cu <= end.cursor
         /\ \A l \in List : Within(l, tb) => Within(l, end.table)
         /\ Within(end.list, end.table)
         /\ Marked(tb, cu, li) /\ BlocksApart(tb, cu) =>
                Marked(end.table, end.cursor, end.list) /\ BlocksApart(end.table, end.cursor)
         /\ \A rt \in Directory : Rooted(rt, tb, cu) => Rooted(rt, end.table, end.cursor)
    BY <2>1, <2>12 DEF LoopInv, LoopState
  <2>14. entry \in Entry /\ entry.name = root.table[f].name /\ entry.fat_index = root.table[f].fat_index
    <3>1. ASSUME NEW x \in Entry
          PROVE  Grown(x, length) \in Entry /\ Grown(x, length).name = x.name /\ Grown(x, length).fat_index = x.fat_index
      <4>1. x.size \in Nat /\ x.size + length \in Nat
        BY <1>3 DEF Entry
      <4> QED BY <4>1 DEF Entry, Grown
    <3> QED BY <1>2, <3>1 DEF entry
  <2>15. /\ root' \in Directory /\ root'.next_cursor = root.next_cursor
         /\ root'.table[f] = entry /\ \A g \in Slot \ {f} : root'.table[g] = root.table[g]
    BY <1>2, <1>6, <2>14 DEF Directory
  <2>16. \A g \in Slot : root'.table[g].name = root.table[g].name /\ root'.table[g].fat_index = root.table[g].fat_index
    BY <2>14, <2>15
  <2> DEFINE d == root
             r == root'
  <2>17. /\ \A t, c, l : Agree(d, t, c, l) => Agree(r, t, c, l)
         /\ Full(d) => Full(r)
         /\ \A c : Heads(d, c) => Heads(r, c)
         /\ \A g \in Slot : Named(d, g) => Named(r, g)
    <3>1. /\ r.next_cursor = d.next_cursor
          /\ \A g \in Slot : r.table[g].name = d.table[g].name /\ r.table[g].fat_index = d.table[g].fat_index
      BY <2>15, <2>16
    <3> HIDE DEF d, r
    <3> QED BY <3>1, SameFiles
  <2>18. fat' \in Chains /\ fat'.table = end.table /\ fat'.next_cursor = end.cursor
    BY <1>6, <2>13 DEF Chains
  <2>19. Heads(root', cu) /\ Heads(root', end.cursor - 1) /\ Heads(root', end.cursor)
    <3>1. PICK c, c2 : c = cu /\ c2 = end.cursor
      OBVIOUS
    <3>2. c \in Nat /\ c2 \in Nat /\ c <= c2
      BY <1>2, <2>13, <3>1, Numbers
    <3>3. Heads(r, c - 1)
      BY <2>1, <2>17, <3>1
    <3>4. ASSUME NEW g \in Slot
          PROVE  r.table[g].fat_index \in Nat /\ r.table[g].fat_index <= c - 1
      BY <2>15, <3>3, Numbers DEF Heads, Directory, Entry
    <3>5. Heads(r, c) /\ Heads(r, c2 - 1) /\ Heads(r, c2)
      <4>1. \A g \in Slot : /\ r.table[g].fat_index <= c /\ r.table[g].fat_index <= c2 - 1
                            /\ r.table[g].fat_index <= c2
        BY <3>2, <3>4
      <4> QED BY <4>1 DEF Heads
    <3> QED BY <3>1, <3>5
  <2>20. ~torn => Agree(root', end.table, end.cursor, end.list) /\ Full(root') /\ Handles'
    <3> SUFFICES ASSUME ~torn PROVE Agree(root', end.table, end.cursor, end.list) /\ Full(root') /\ Handles'
      OBVIOUS
    <3>1. Agree(r, tb, cu, li) /\ Full(r) /\ Handles
      BY <2>1, <2>17
    <3>2. Marked(end.table, end.cursor, end.list) /\ BlocksApart(end.table, end.cursor)
      BY <2>13, <3>1 DEF Agree
    <3>3. Rooted(r, end.table, end.cursor)
      BY <2>13, <2>15, <3>1 DEF Agree
    <3>4. Agree(r, end.table, end.cursor, end.list)
      BY <3>1, <3>2, <3>3 DEF Agree
    <3>5. Handles'
      BY <1>6, <2>15, <2>17, <3>1 DEF Handles
    <3> QED BY <3>1, <3>4, <3>5
  <2>21. pos' \in 0..MAX_DISK
    BY <1>2, <1>6, <2>3, PositionTypes
  <2>22. written' \in [Slot -> Nat] /\ acked' \in [Slot -> Nat] /\ opened_files' \in 0..MAX_FILE
    BY <1>2, <1>3, <1>6
  <2>23. /\ Sound(fat'.table, fat'.next_cursor) /\ Within(freebl', fat'.table)
         /\ \A l \in List : Within(l, fat.table) => Within(l, fat'.table)
    BY <1>6, <2>13, <2>18
  <2>24. Heads(root', fat.next_cursor) /\ Heads(root', fat'.next_cursor - 1) /\ Heads(root', fat'.next_cursor)
    BY <2>18, <2>19
  <2>25. ~torn => Agree(root', fat'.table, fat'.next_cursor, freebl') /\ Full(root') /\ Handles'
    BY <1>6, <2>18, <2>20
  <2>26. PICK w \in Seq(DataWrite) : w = end.writes
    BY <2>13
  <2>27. todo' = w \o Save
    BY <1>6, <2>26
  <2>28. freebl' \in List
    BY <1>6, <2>13
  <2> QED BY <1>1, <1>6, <2>15, <2>18, <2>21, <2>22, <2>23, <2>24, <2>25, <2>27, <2>28, BeginKeeps
<1> QED BY <1>1, <1>5, <1>6

---------------------------------------------------------------------------------
(* Every step *)

(* The end of the process. *)
LEMMA CrashKeeps == ASSUME IInv, Crash PROVE IInv'
<1>1. phase \in {"idle", "busy"} /\ Stop /\ UNCHANGED <<disk, pos, written, acked>>
  BY DEF Crash, diskVars
<1>2. ~torn' => ~torn /\ ~(Len(todo) \in 1..2)
  BY DEF Crash
<1> QED BY <1>1, <1>2, StopKeeps

(* The start of the program, and mksfs(0) in the middle of it. *)
LEMMA BootKeeps == ASSUME IInv, BootFresh \/ Boot \/ Remount PROVE IInv'
<1>1. CASE BootFresh
  BY <1>1, FormatKeeps DEF BootFresh
<1>2. CASE Boot
  <2>1. written' \in [Slot -> Nat] /\ acked' \in [Slot -> Nat]
    BY <1>2 DEF Boot, IInv, Types
  <2>2. phase \in {"off", "idle"} /\ Load /\ UNCHANGED torn /\ opened_files' = 0
    BY <1>2 DEF Boot
  <2> QED BY <2>1, <2>2, LoadKeeps
<1>3. CASE Remount
  <2>1. written' \in [Slot -> Nat] /\ acked' \in [Slot -> Nat]
    BY <1>3 DEF Remount, IInv, Types
  <2>2. phase = "idle" /\ Load /\ UNCHANGED torn /\ opened_files' = opened_files
    BY <1>3 DEF Remount
  <2> QED BY <2>1, <2>2, LoadKeeps
<1> QED BY <1>1, <1>2, <1>3

(* Nothing happens. *)
LEMMA StutterKeeps == ASSUME IInv, UNCHANGED vars PROVE IInv'
<1>1. UNCHANGED <<disk, pos, root, fat, freebl, opened_files, phase, todo, written, acked, torn>>
  BY DEF vars, diskVars, memory, history
<1>2. /\ StoredRoot' = StoredRoot /\ StoredFat' = StoredFat /\ StoredList' = StoredList /\ Readable' = Readable
      /\ \A a \in Address : BlockType(a)'
  BY <1>1, DiskSame DEF IInv, Types
<1>3. Types'
  BY <1>1, <1>2 DEF IInv, Types
<1>4. TodoInv'
  BY <1>1, <1>2 DEF IInv, TodoInv
<1>5. DiskInv'
  BY <1>1 DEF IInv, DiskInv, Running
<1>6. HeadsInv'
  BY <1>1, <1>2 DEF IInv, HeadsInv, Running
<1>7. AgreeInv'
  BY <1>1, <1>2 DEF IInv, AgreeInv, Running, Handles
<1> QED BY <1>3, <1>4, <1>5, <1>6, <1>7 DEF IInv

(* The invariant holds in every reachable state. *)
LEMMA Inductive == Spec => []IInv
<1>1. ASSUME IInv, [Next]_vars PROVE IInv'
  <2>1. CASE BootFresh \/ Boot \/ Remount
    BY <1>1, <2>1, BootKeeps
  <2>2. CASE Flush
    BY <1>1, <2>2, FlushKeeps
  <2>3. CASE Crash
    BY <1>1, <2>3, CrashKeeps
  <2>4. CASE \E name \in Name : Reopen(name) \/ Create(name)
    BY <1>1, <2>4, ReopenKeeps, CreateKeeps
  <2>5. CASE \E f \in Slot : Close(f)
    BY <1>1, <2>5, CloseKeeps
  <2>6. CASE \E f \in Slot, length \in Lengths : Write(f, length)
    BY <1>1, <2>6, WriteKeeps
  <2>7. CASE \E f \in Slot, length \in ReadLengths : Read(f, length)
    BY <1>1, <2>7, ReadKeeps
  <2>8. CASE UNCHANGED vars
    BY <1>1, <2>8, StutterKeeps
  <2> QED BY <1>1, <2>1, <2>2, <2>3, <2>4, <2>5, <2>6, <2>7, <2>8 DEF Next, Call
<1> QED BY <1>1, InitInv, PTL DEF Spec

---------------------------------------------------------------------------------
(* The length of a file *)

(* What a chain is: the nodes from h on, the last of which has no successor. *)
Follows(table, h, c, n) ==
    /\ n \in 1..MAX_DISK
    /\ c[0] = h /\ \A k \in 0..(n - 1) : c[k] \in Node
    /\ \A k \in 0..(n - 2) : table[c[k]].next = c[k + 1]
    /\ table[c[n - 1]].next = -1

(* It is what Nth and ChainLength describe. *)
LEMMA ChainIs ==
    ASSUME NEW table, NEW h, NEW c, NEW n, Follows(table, h, c, n)
    PROVE  /\ Ends(table, h) /\ ChainLength(table, h) = n
           /\ \A k \in 0..(n - 1) : Nth(table, h)[k] = c[k]
<1> DEFINE nth == Nth(table, h)
           S == {k \in Nat : k <= n - 1 => nth[k] = c[k]}
           T == {k \in Nat : n + k <= MAX_DISK => nth[n + k] = -1}
<1>0. /\ n \in Nat /\ n >= 1 /\ n <= MAX_DISK /\ MAX_DISK \in Nat /\ -1 \notin Node /\ n - 1 \in 0..(n - 1)
      /\ c[0] = h /\ (\A k \in 0..(n - 1) : c[k] \in Node)
      /\ (\A k \in 0..(n - 2) : table[c[k]].next = c[k + 1]) /\ table[c[n - 1]].next = -1
  BY Numbers DEF Follows
<1>1. nth[0] = h /\ \A k \in 1..MAX_DISK : nth[k] = After(table, nth[k - 1])
  BY NthSteps
<1>2. ChainLength(table, h) = CHOOSE k \in 0..MAX_DISK : nth[k] = -1 /\ \A j \in 0..(k - 1) : nth[j] # -1
  BY DEF ChainLength
<1> HIDE DEF nth
<1>3. 0 \in S
  BY <1>0, <1>1
<1>4. ASSUME NEW k \in Nat, k \in S PROVE k + 1 \in S
  <2> SUFFICES ASSUME k + 1 <= n - 1 PROVE nth[k + 1] = c[k + 1]
    OBVIOUS
  <2>1. k \in 0..(n - 2) /\ k \in 0..(n - 1) /\ k + 1 \in 1..MAX_DISK /\ k + 1 - 1 = k
    BY <1>0
  <2>2. nth[k] = c[k]
    BY <1>4, <2>1, <1>0
  <2>3. nth[k + 1] = After(table, c[k])
    BY <1>1, <2>1, <2>2
  <2> QED BY <1>0, <2>1, <2>3 DEF After
<1>5. Nat \subseteq S
  <2> HIDE DEF S
  <2> QED BY <1>3, <1>4, Induction
<1>6. \A k \in 0..(n - 1) : nth[k] = c[k]
  BY <1>5, <1>0
<1>7. nth[n] = -1
  <2>1. n \in 1..MAX_DISK /\ nth[n - 1] = c[n - 1] /\ c[n - 1] \in Node
    BY <1>0, <1>6
  <2>2. nth[n] = After(table, c[n - 1])
    BY <1>1, <2>1
  <2> QED BY <1>0, <2>1, <2>2 DEF After
<1>8. 0 \in T
  BY <1>0, <1>7
<1>9. ASSUME NEW k \in Nat, k \in T PROVE k + 1 \in T
  <2> SUFFICES ASSUME n + (k + 1) <= MAX_DISK PROVE nth[n + (k + 1)] = -1
    OBVIOUS
  <2>1. n + (k + 1) \in 1..MAX_DISK /\ n + (k + 1) - 1 = n + k /\ n + k <= MAX_DISK
    BY <1>0
  <2>2. nth[n + k] = -1
    BY <1>9, <2>1
  <2>3. PICK m : m = n + (k + 1)
    OBVIOUS
  <2>4. m \in 1..MAX_DISK /\ m - 1 = n + k
    BY <1>0, <2>1, <2>3
  <2>5. nth[m] = After(table, nth[m - 1])
    BY <1>1, <2>4
  <2> QED BY <1>0, <2>2, <2>3, <2>4, <2>5 DEF After
<1>10. Nat \subseteq T
  <2> HIDE DEF T
  <2> QED BY <1>8, <1>9, Induction
<1>11. nth[MAX_DISK] = -1
  <2>1. MAX_DISK - n \in Nat /\ n + (MAX_DISK - n) = MAX_DISK
    BY <1>0
  <2>2. MAX_DISK - n \in T
    BY <1>10, <2>1
  <2> QED BY <2>1, <2>2, <1>0
<1>12. \A j \in 0..(n - 1) : nth[j] # -1
  BY <1>0, <1>6
<1>13. ASSUME NEW k \in 0..MAX_DISK, nth[k] = -1, \A j \in 0..(k - 1) : nth[j] # -1
       PROVE  k = n
  <2>1. ~(k < n)
    BY <1>0, <1>12, <1>13
  <2>2. ~(n < k)
    BY <1>0, <1>7, <1>13
  <2> QED BY <1>0, <2>1, <2>2
<1>14. n \in 0..MAX_DISK
  BY <1>0
<1>15. ChainLength(table, h) = n
  BY <1>2, <1>7, <1>12, <1>13, <1>14
<1> QED BY <1>6, <1>11, <1>15 DEF Ends, nth

(* A chain none of whose nodes changes its successor stays what it is. *)
LEMMA ChainKept ==
    ASSUME NEW table \in Table, NEW t, NEW h \in Node, Ends(table, h),
           \A k \in 0..(ChainLength(table, h) - 1) : t[Nth(table, h)[k]].next = table[Nth(table, h)[k]].next
    PROVE  /\ Ends(t, h) /\ ChainLength(t, h) = ChainLength(table, h)
           /\ \A k \in 0..(ChainLength(table, h) - 1) : Nth(t, h)[k] = Nth(table, h)[k]
<1> DEFINE c == Nth(table, h)
           n == ChainLength(table, h)
<1>1. /\ n \in 1..MAX_DISK /\ c[0] = h /\ c[n] = -1
      /\ \A k \in 0..(n - 1) : c[k] \in Node /\ c[k + 1] = table[c[k]].next
  BY ChainFacts
<1>2. \A k \in 0..(n - 1) : t[c[k]].next = table[c[k]].next
  OBVIOUS
<1> HIDE DEF c, n
<1>3. n \in Nat /\ n - 1 \in 0..(n - 1) /\ n - 1 + 1 = n /\ \A k \in 0..(n - 2) : k \in 0..(n - 1)
  BY <1>1, Numbers
<1>4. t[c[n - 1]].next = -1
  BY <1>1, <1>2, <1>3
<1>5. Follows(t, h, c, n)
  BY <1>1, <1>2, <1>3, <1>4 DEF Follows
<1>6. Ends(t, h) /\ ChainLength(t, h) = n /\ \A k \in 0..(n - 1) : Nth(t, h)[k] = c[k]
  BY <1>5, ChainIs
<1> QED BY <1>6 DEF c, n

(* In a sound table the k-th node of a chain has k nodes before it. *)
LEMMA ChainClimbs ==
    ASSUME NEW table \in Table, NEW h \in Node, Ends(table, h),
           NEW cursor \in 0..MAX_DISK, Sound(table, cursor), h < cursor
    PROVE  \A k \in 0..(ChainLength(table, h) - 1) : k <= Nth(table, h)[k]
<1> DEFINE nth == Nth(table, h)
           n == ChainLength(table, h)
           S == {k \in Nat : k <= n - 1 => k <= nth[k]}
<1>1. /\ n \in Nat /\ nth[0] = h
      /\ \A k \in 0..(n - 1) : nth[k] \in Node /\ nth[k] < cursor /\ nth[k + 1] = table[nth[k]].next
  BY ChainFacts, ChainUsed, Numbers
<1> HIDE DEF nth, n
<1>2. 0 \in S
  BY <1>1, Numbers
<1>3. ASSUME NEW k \in Nat, k \in S PROVE k + 1 \in S
  <2> SUFFICES ASSUME k + 1 <= n - 1 PROVE k + 1 <= nth[k + 1]
    OBVIOUS
  <2>1. k \in 0..(n - 1) /\ k + 1 \in 0..(n - 1) /\ k <= n - 1
    BY <1>1
  <2>2. PICK x, y : x = nth[k] /\ y = nth[k + 1]
    OBVIOUS
  <2>3. x \in Node /\ y \in Node /\ x < cursor /\ y = table[x].next /\ k <= x
    BY <1>1, <1>3, <2>1, <2>2
  <2>4. y # -1
    BY <2>3, Numbers
  <2>5. y > x
    BY <2>3, <2>4 DEF Sound
  <2>6. x \in Nat /\ y \in Nat
    BY <2>3, Numbers
  <2> QED BY <2>2, <2>3, <2>5, <2>6
<1>4. Nat \subseteq S
  <2> HIDE DEF S
  <2> QED BY <1>2, <1>3, Induction
<1>5. \A k \in 0..(n - 1) : k <= nth[k]
  BY <1>1, <1>4
<1> QED BY <1>5 DEF nth, n

(* No entry below the cursor is followed by h. *)
Root(table, cursor, h) == h \in Node /\ h < cursor /\ \A n \in Node : n < cursor => table[n].next # h

(* In a sound table the chains of two roots have no node in common. *)
LEMMA ChainsApart ==
    ASSUME NEW table \in Table, NEW cursor \in 0..MAX_DISK, Sound(table, cursor),
           NEW h, NEW g, Root(table, cursor, h), Root(table, cursor, g), g # h,
           Ends(table, h), Ends(table, g)
    PROVE  \A i \in 0..(ChainLength(table, g) - 1), j \in 0..(ChainLength(table, h) - 1) :
              Nth(table, g)[i] # Nth(table, h)[j]
<1> DEFINE a == Nth(table, g)
           m == ChainLength(table, g)
           b == Nth(table, h)
           n == ChainLength(table, h)
           S == {i \in Nat : i <= m - 1 => \A j \in 0..(n - 1) : a[i] # b[j]}
<1>0. g \in Node /\ h \in Node /\ g < cursor /\ h < cursor
      /\ (\A k \in Node : k < cursor => table[k].next # h /\ table[k].next # g)
  BY DEF Root
<1>1. /\ m \in Nat /\ a[0] = g
      /\ \A k \in 0..(m - 1) : a[k] \in Node /\ a[k] < cursor /\ a[k + 1] = table[a[k]].next
  BY <1>0, ChainFacts, ChainUsed, Numbers
<1>2. /\ n \in Nat /\ b[0] = h
      /\ \A k \in 0..(n - 1) : b[k] \in Node /\ b[k] < cursor /\ b[k + 1] = table[b[k]].next
  BY <1>0, ChainFacts, ChainUsed, Numbers
<1> HIDE DEF a, b, m, n
<1>3. 0 \in S
  <2> SUFFICES ASSUME NEW j \in 0..(n - 1), b[j] = g PROVE FALSE
    BY <1>1
  <2>1. j # 0
    BY <1>2
  <2>2. j - 1 \in 0..(n - 1) /\ j - 1 + 1 = j
    BY <1>2, <2>1
  <2>3. table[b[j - 1]].next = g
    BY <1>2, <2>2
  <2> QED BY <1>0, <1>2, <2>2, <2>3
<1>4. ASSUME NEW i \in Nat, i \in S PROVE i + 1 \in S
  <2> SUFFICES ASSUME i + 1 <= m - 1, NEW j \in 0..(n - 1), a[i + 1] = b[j] PROVE FALSE
    OBVIOUS
  <2>1. i \in 0..(m - 1) /\ i + 1 \in 0..(m - 1) /\ i <= m - 1
    BY <1>1
  <2>2. PICK x, y : x = a[i] /\ y = b[j]
    OBVIOUS
  <2>3. x \in Node /\ x < cursor /\ y \in Node /\ table[x].next = y
    BY <1>1, <1>2, <2>1, <2>2
  <2>4. j # 0
    <3>1. j = 0 => y = h
      BY <1>2, <2>2
    <3> QED BY <1>0, <2>3, <3>1
  <2>5. j - 1 \in 0..(n - 1) /\ j - 1 + 1 = j
    BY <1>2, <2>4
  <2>6. PICK z : z = b[j - 1]
    OBVIOUS
  <2>7. z \in Node /\ z < cursor /\ table[z].next = y
    BY <1>2, <2>2, <2>5, <2>6
  <2>8. y # -1
    BY <2>3, Numbers
  <2>9. x = z
    BY <2>3, <2>7, <2>8 DEF Sound
  <2> QED BY <1>4, <2>1, <2>2, <2>5, <2>6, <2>9
<1>5. Nat \subseteq S
  <2> HIDE DEF S
  <2> QED BY <1>3, <1>4, Induction
<1>6. \A i \in 0..(m - 1), j \in 0..(n - 1) : a[i] # b[j]
  BY <1>1, <1>5
<1> QED BY <1>6 DEF a, b, m, n

(* One entry more at the cursor: the chain of the entry before it has one node more, every
   other chain is what it was. *)
LEMMA ChainGrows ==
    ASSUME NEW table \in Table, NEW c \in Node, Sound(table, c),
           NEW h \in Node, h < c, Ends(table, h), NEW last, last = Nth(table, h)[ChainLength(table, h) - 1],
           NEW t, t[c].next = -1,
           \A n \in Node \ {c} : t[n].next = IF n = last THEN c ELSE table[n].next
    PROVE  /\ Ends(t, h) /\ ChainLength(t, h) = ChainLength(table, h) + 1
           /\ Nth(t, h)[ChainLength(table, h)] = c
           /\ \A k \in 0..(ChainLength(table, h) - 1) : Nth(t, h)[k] = Nth(table, h)[k]
<1> DEFINE a == Nth(table, h)
           n == ChainLength(table, h)
           b == [k \in 0..n |-> IF k = n THEN c ELSE a[k]]
<1>0. c \in 0..MAX_DISK /\ c \in Nat /\ c <= MAX_DISK - 1 /\ MAX_DISK \in Nat /\ -1 \notin Node
  BY Numbers DEF Node
<1>1. /\ n \in 1..MAX_DISK /\ a[0] = h /\ a[n] = -1
      /\ \A k \in 0..(n - 1) : a[k] \in Node /\ a[k] < c /\ a[k + 1] = table[a[k]].next /\ k <= a[k]
  BY <1>0, ChainFacts, ChainUsed, ChainClimbs
<1>2. last = a[n - 1]
  OBVIOUS
<1> HIDE DEF a, n
<1>3. n \in Nat /\ n - 1 \in 0..(n - 1) /\ n - 1 + 1 = n /\ \A k \in 0..(n - 2) : k \in 0..(n - 1) /\ k + 1 \in 0..(n - 1)
  BY <1>1, <1>0
<1>4. n + 1 \in 1..MAX_DISK
  <2>1. last \in Node /\ last < c /\ n - 1 <= last
    BY <1>1, <1>2, <1>3
  <2>2. last \in Nat
    BY <2>1, Numbers
  <2> QED BY <2>1, <2>2, <1>3, <1>0
<1>5. /\ b[n] = c /\ \A k \in 0..(n - 1) : b[k] = a[k]
  BY <1>3
<1> HIDE DEF b
<1>6. \A k \in 0..(n - 1) : a[k] # c
  <2> SUFFICES ASSUME NEW k \in 0..(n - 1), a[k] = c PROVE FALSE
    OBVIOUS
  <2>1. c < c
    BY <1>1
  <2> QED BY <1>0, <2>1
<1>7. \A k \in 0..(n - 2) : t[a[k]].next = a[k + 1]
  <2> SUFFICES ASSUME NEW k \in 0..(n - 2) PROVE t[a[k]].next = a[k + 1]
    OBVIOUS
  <2>1. a[k] \in Node /\ a[k + 1] \in Node /\ a[k + 1] = table[a[k]].next /\ a[k] # c
    BY <1>1, <1>3, <1>6
  <2>2. table[last].next = -1
    BY <1>1, <1>2, <1>3
  <2>3. a[k] # last
    BY <2>1, <2>2, <1>0
  <2> QED BY <2>1, <2>3
<1>8. t[last].next = c
  BY <1>1, <1>2, <1>3, <1>6
<1>9. PICK l : l = n + 1
  OBVIOUS
<1>10. l \in 1..MAX_DISK /\ l - 1 = n
  BY <1>3, <1>4, <1>9
<1>13. Follows(t, h, b, l)
  <2>1. b[0] = h
    <3>1. 0 \in 0..(n - 1)
      BY <1>1, <1>0
    <3> QED BY <1>1, <1>5, <3>1
  <2>2. \A k \in 0..(l - 1) : b[k] \in Node
    <3>1. \A k \in 0..(l - 1) : k = n \/ k \in 0..(n - 1)
      BY <1>3, <1>10
    <3> QED BY <1>1, <1>5, <3>1
  <2>3. ASSUME NEW k \in 0..(l - 2) PROVE t[b[k]].next = b[k + 1]
    <3>1. k \in 0..(n - 1) /\ (k = n - 1 \/ k \in 0..(n - 2))
      BY <1>3, <1>9
    <3>2. CASE k = n - 1
      BY <1>2, <1>3, <1>5, <1>8, <3>1, <3>2
    <3>3. CASE k \in 0..(n - 2)
      BY <1>3, <1>5, <1>7, <3>1, <3>3
    <3> QED BY <3>1, <3>2, <3>3
  <2>4. t[b[l - 1]].next = -1
    BY <1>5, <1>10
  <2> QED BY <1>10, <2>1, <2>2, <2>3, <2>4 DEF Follows
<1>14. Ends(t, h) /\ ChainLength(t, h) = l /\ \A k \in 0..(l - 1) : Nth(t, h)[k] = b[k]
  BY <1>13, ChainIs
<1>11. \A k \in 0..(n - 1) : Nth(t, h)[k] = a[k]
  <2>1. \A k \in 0..(n - 1) : k \in 0..(l - 1)
    BY <1>3, <1>10
  <2> QED BY <1>5, <1>14, <2>1
<1>12. Nth(t, h)[n] = c
  <2>1. n \in 0..(l - 1)
    BY <1>3, <1>10
  <2> QED BY <1>5, <1>14, <2>1
<1> QED BY <1>9, <1>11, <1>12, <1>14 DEF a, n

(* Of the chains of two tables: that of file f is k nodes longer, and last is its end; those
   of the other files have their lengths. *)
Longer(t, table, rt, f, k, last) ==
    LET head(g) == rt.table[g].fat_index IN
    /\ Ends(t, head(f)) /\ ChainLength(t, head(f)) = ChainLength(table, head(f)) + k
    /\ last = Nth(t, head(f))[ChainLength(t, head(f)) - 1]
    /\ \A g \in Slot : g # f /\ Named(rt, g) /\ Ends(table, head(g)) =>
          Ends(t, head(g)) /\ ChainLength(t, head(g)) = ChainLength(table, head(g))

(* The files of a directory are roots. *)
LEMMA FileRoots ==
    ASSUME NEW rt \in Directory, NEW table, NEW cursor, Rooted(rt, table, cursor), NEW g \in Slot, Named(rt, g)
    PROVE  Root(table, cursor, rt.table[g].fat_index)
BY ZenonT(60) DEF Root, Rooted, Directory, Entry

(* One round of the loop. *)
LEMMA RoundLonger ==
    ASSUME NEW table, NEW rt \in Directory, HeadsApart(rt), NEW f \in Slot, Named(rt, f),
           NEW u \in Table, NEW c \in Node, Sound(u, c), Rooted(rt, u, c),
           NEW last, NEW k \in Nat, Longer(u, table, rt, f, k, last), ChainLength(table, rt.table[f].fat_index) \in Nat,
           NEW t, t[c].next = -1,
           \A n \in Node \ {c} : t[n].next = IF n = last THEN c ELSE u[n].next
    PROVE  Longer(t, table, rt, f, k + 1, c)
<1> DEFINE h == rt.table[f].fat_index
<1>1. Root(u, c, h) /\ h \in Node /\ h < c /\ c \in 0..MAX_DISK /\ c \in Nat
  BY FileRoots, Numbers DEF Root, Node
<1>2. /\ Ends(u, h) /\ ChainLength(u, h) = ChainLength(table, h) + k
      /\ last = Nth(u, h)[ChainLength(u, h) - 1]
  BY DEF Longer
<1>3. /\ Ends(t, h) /\ ChainLength(t, h) = ChainLength(u, h) + 1
      /\ Nth(t, h)[ChainLength(u, h)] = c
  <2> HIDE DEF h
  <2> QED BY <1>1, <1>2, ChainGrows
<1>4. PICK m \in Nat, n \in Nat : m = ChainLength(table, h) /\ n = ChainLength(u, h) /\ n = m + k
  BY <1>2
<1>5. ChainLength(t, h) = m + (k + 1) /\ c = Nth(t, h)[ChainLength(t, h) - 1]
  <2>1. ChainLength(t, h) = n + 1 /\ n + 1 - 1 = n
    BY <1>3, <1>4
  <2> QED BY <1>3, <1>4, <2>1
<1>6. ASSUME NEW g \in Slot, g # f, Named(rt, g), Ends(table, rt.table[g].fat_index)
      PROVE  /\ Ends(t, rt.table[g].fat_index)
             /\ ChainLength(t, rt.table[g].fat_index) = ChainLength(table, rt.table[g].fat_index)
  <2>1. PICK x : x = rt.table[g].fat_index
    OBVIOUS
  <2>2. Ends(u, x) /\ ChainLength(u, x) = ChainLength(table, x)
    BY <1>6, <2>1 DEF Longer
  <2>3. Root(u, c, x) /\ x \in Node /\ x < c
    BY <1>6, <2>1, FileRoots DEF Root
  <2>4. x # h
    BY <1>6, <2>1 DEF HeadsApart
  <2> DEFINE a == Nth(u, x)
             q == ChainLength(u, x)
             b == Nth(u, h)
             n1 == ChainLength(u, h)
  <2>5. \A i \in 0..(q - 1) : a[i] \in Node /\ a[i] < c
    BY <2>2, <2>3, <1>1, ChainFacts, ChainUsed
  <2>6. n1 \in 1..MAX_DISK
    <3> HIDE DEF h
    <3> QED BY <1>1, <1>2, ChainFacts
  <2>7. \A i \in 0..(q - 1), j \in 0..(n1 - 1) : a[i] # b[j]
    <3> HIDE DEF h
    <3> QED BY <1>1, <1>2, <2>2, <2>3, <2>4, ChainsApart
  <2>8. \A i \in 0..(q - 1) : t[a[i]].next = u[a[i]].next
    <3> SUFFICES ASSUME NEW i \in 0..(q - 1) PROVE t[a[i]].next = u[a[i]].next
      OBVIOUS
    <3>1. n1 - 1 \in 0..(n1 - 1) /\ last = b[n1 - 1]
      BY <1>2, <2>6, Numbers
    <3>2. a[i] # last
      BY <2>7, <3>1
    <3>3. a[i] # c
      <4>1. a[i] \in Nat /\ a[i] < c
        BY <2>5, Numbers
      <4> QED BY <1>1, <4>1
    <3> HIDE DEF a, q
    <3> QED BY <2>5, <3>2, <3>3
  <2>9. Ends(t, x) /\ ChainLength(t, x) = ChainLength(u, x)
    BY <2>2, <2>3, <2>8, ChainKept
  <2> QED BY <2>1, <2>2, <2>9
<1>7. /\ Ends(t, h) /\ ChainLength(t, h) = ChainLength(table, h) + (k + 1)
      /\ c = Nth(t, h)[ChainLength(t, h) - 1]
  BY <1>3, <1>4, <1>5
<1> QED BY <1>6, <1>7 DEF Longer

(* The loop of sfs_write. *)
LEMMA LoopLonger ==
    ASSUME NEW table \in Table, NEW cursor \in 0..MAX_DISK, NEW list \in List,
           NEW rt \in Directory, HeadsApart(rt), Rooted(rt, table, cursor), NEW f \in Slot, Named(rt, f),
           Ends(table, rt.table[f].fat_index),
           NEW first, LoopInv(first, table, cursor, list), first.table = table,
           first.last = Nth(table, rt.table[f].fat_index)[ChainLength(table, rt.table[f].fat_index) - 1],
           NEW bytes \in Seq(Byte), NEW n0 \in Nat, NEW blocks \in Nat,
           \A k \in 0..(blocks - 1) : Extended(first, bytes, n0, blocks)[k].cursor \in Node
    PROVE  Longer(Extended(first, bytes, n0, blocks)[blocks].table, table, rt, f, blocks,
                  Extended(first, bytes, n0, blocks)[blocks].last)
<1> DEFINE loop == Extended(first, bytes, n0, blocks)
           h == rt.table[f].fat_index
           S == {k \in Nat : k <= blocks => Longer(loop[k].table, table, rt, f, k, loop[k].last)}
<1>1. /\ loop[0] = first
      /\ \A k \in 1..blocks :
            loop[k] = NewBlock(loop[k - 1], SubSeq(bytes, n0 + (k - 1) * BLOCK_SIZE + 1,
                                                   Least(Len(bytes), n0 + k * BLOCK_SIZE)))
  BY ExtendedSteps
<1>2. \A k \in 0..(blocks - 1) : loop[k].cursor \in Node
  OBVIOUS
<1>3. \A k \in 0..blocks : LoopInv(loop[k], table, cursor, list)
  BY LoopAlways
<1>4. h \in Node /\ ChainLength(table, h) \in Nat
  <2>1. h \in Node
    BY DEF Directory, Entry
  <2>2. Ends(table, h)
    OBVIOUS
  <2> HIDE DEF h
  <2> QED BY <2>1, <2>2, ChainFacts, Numbers
<1> HIDE DEF loop
<1>5. 0 \in S
  <2>1. ChainLength(table, h) = ChainLength(table, h) + 0
    BY <1>4
  <2>2. loop[0].table = table /\ loop[0].last = Nth(table, h)[ChainLength(table, h) - 1] /\ Ends(table, h)
    BY <1>1
  <2>3. Longer(table, table, rt, f, 0, loop[0].last)
    BY <2>1, <2>2 DEF Longer
  <2> QED BY <2>2, <2>3
<1>6. ASSUME NEW k \in Nat, k \in S PROVE k + 1 \in S
  <2> SUFFICES ASSUME k + 1 <= blocks PROVE Longer(loop[k + 1].table, table, rt, f, k + 1, loop[k + 1].last)
    OBVIOUS
  <2>1. k \in 0..(blocks - 1) /\ k + 1 \in 1..blocks /\ k \in 0..blocks /\ k <= blocks /\ k + 1 - 1 = k
    OBVIOUS
  <2>2. /\ LoopInv(loop[k], table, cursor, list) /\ loop[k].cursor \in Node
        /\ Longer(loop[k].table, table, rt, f, k, loop[k].last)
    BY <1>2, <1>3, <1>6, <2>1
  <2>3. PICK s, r : s = loop[k] /\ r = loop[k + 1]
    OBVIOUS
  <2>4. PICK piece : r = NewBlock(s, piece)
    BY <1>1, <2>1, <2>3
  <2>5. PICK u, c, la : u = s.table /\ c = s.cursor /\ la = s.last
    OBVIOUS
  <2>6. /\ u \in Table /\ c \in Node /\ la \in Node /\ s.list \in List /\ Sound(u, c) /\ Rooted(rt, u, c)
        /\ la < c /\ Longer(u, table, rt, f, k, la)
    BY <2>2, <2>3, <2>5 DEF LoopInv, LoopState
  <2>7. la # c
    <3>1. la \in Nat /\ c \in Nat
      BY <2>6, Numbers
    <3> QED BY <2>6, <3>1
  <2>8. PICK db, t : db = FreeBlock(s.list) /\ t = Linked(u, la, c, db)
    OBVIOUS
  <2>9. db \in DataBlock \cup {-1}
    BY <2>6, <2>8, FreeBlockType
  <2>10. r.table = t /\ r.last = c
    BY <2>4, <2>5, <2>6, <2>8 DEF NewBlock, Linked
  <2>11. t[c].next = -1 /\ \A n \in Node \ {c} : t[n].next = IF n = la THEN c ELSE u[n].next
    BY <2>6, <2>7, <2>8, <2>9, LinkedTable
  <2>12. Longer(t, table, rt, f, k + 1, c)
    BY <1>4, <2>6, <2>11, RoundLonger
  <2> QED BY <2>3, <2>10, <2>12
<1>7. Nat \subseteq S
  <2> HIDE DEF S
  <2> QED BY <1>5, <1>6, Induction
<1>8. Longer(loop[blocks].table, table, rt, f, blocks, loop[blocks].last)
  BY <1>7
<1> QED BY <1>8 DEF loop

(* A chain of n blocks is as long as size bytes take. *)
Filled(size, n) == size <= n * BLOCK_SIZE /\ (n > 1 => size > (n - 1) * BLOCK_SIZE)

(* The products of two numbers of which one is larger. *)
LEMMA TimesMore ==
    ASSUME NEW a \in Nat, NEW b \in Nat, NEW k \in Nat, a < b
    PROVE  a * k + k <= b * k
<1>1. PICK d \in Nat : b = a + 1 + d
  <2>1. b - a - 1 \in Nat /\ b = a + 1 + (b - a - 1)
    OBVIOUS
  <2> QED BY <2>1
<1>2. b * k = a * k + k + d * k
  BY <1>1
<1>3. d * k \in Nat
  BY Times
<1>4. a * k \in Nat
  BY Times
<1> QED BY <1>2, <1>3, <1>4

(* The remainder is what the quotient leaves. *)
LEMMA Divided ==
    ASSUME NEW a \in Nat, NEW b \in Nat \ {0}
    PROVE  /\ a \div b \in Nat /\ a % b \in 0..(b - 1)
           /\ a = (a \div b) * b + (a % b)
BY SMT

(* The room in the last block of the chain. *)
LEMMA Room ==
    ASSUME NEW size \in Nat, NEW n \in Nat \ {0}, Filled(size, n), NEW B \in Nat, B = BLOCK_SIZE
    PROVE  /\ Pointer(size) = -1 => size = n * B
           /\ Pointer(size) # -1 => size + (B - Pointer(size)) = n * B
           /\ Pointer(size) \in -1..(B - 1)
<1>1. B # 0
  BY Numbers
<1>2. PICK q \in Nat, r \in 0..(B - 1) : q = size \div B /\ r = size % B /\ size = q * B + r
  <2>1. size \div B \in Nat /\ size % B \in 0..(B - 1) /\ size = (size \div B) * B + (size % B)
    BY <1>1, Divided
  <2>2. PICK q, r : q = size \div B /\ r = size % B
    OBVIOUS
  <2>3. q \in Nat /\ r \in 0..(B - 1) /\ size = q * B + r
    BY <2>1, <2>2
  <2> QED BY <2>2, <2>3
<1>3. Pointer(size) = IF size # 0 /\ r = 0 THEN -1 ELSE r
  BY <1>2 DEF Pointer
<1>4. size <= n * B /\ (n > 1 => size > (n - 1) * B)
  BY DEF Filled
<1>5. PICK a \in Nat, b \in Nat, c \in Nat : a = q * B /\ b = n * B /\ c = (n - 1) * B /\ b = c + B
  <2>1. n - 1 \in Nat
    OBVIOUS
  <2>2. q * B \in Nat /\ n * B \in Nat /\ (n - 1) * B \in Nat
    BY <2>1, Times
  <2>3. n * B = (n - 1) * B + B
    OBVIOUS
  <2> QED BY <2>2, <2>3
<1>6. size = a + r /\ size <= b /\ (n > 1 => size > c)
  BY <1>2, <1>4, <1>5
<1>7. /\ n < q => b + B <= a
      /\ q < n => a + B <= b
      /\ q < n - 1 => a + B <= c
      /\ q = n => a = b
      /\ q = n - 1 => a = c
  <2>1. n - 1 \in Nat
    OBVIOUS
  <2> QED BY <1>5, <2>1, TimesMore
<1>8. CASE r # 0
  <2>1. ~(n < q) /\ q # n
    BY <1>1, <1>6, <1>7, <1>8
  <2>2. ~(q < n - 1)
    <3>1. CASE n = 1
      BY <3>1
    <3>2. CASE n > 1
      BY <1>6, <1>7, <3>2
    <3> QED BY <3>1, <3>2
  <2>3. q = n - 1
    BY <2>1, <2>2
  <2> QED BY <1>3, <1>5, <1>6, <1>7, <1>8, <2>3
<1>9. CASE r = 0 /\ size = 0
  <2>1. n = 1
    BY <1>6, <1>9
  <2>2. c = 0
    BY <1>5, <2>1
  <2> QED BY <1>1, <1>3, <1>5, <1>9, <2>2
<1>10. CASE r = 0 /\ size # 0
  <2>1. ~(n < q)
    BY <1>1, <1>6, <1>7, <1>10
  <2>2. ~(q < n)
    <3>1. CASE n = 1
      <4>1. q # 0
        BY <1>2, <1>10
      <4> QED BY <3>1, <4>1
    <3>2. CASE n > 1
      <4>1. q # n - 1
        BY <1>6, <1>7, <1>10, <3>2
      <4>2. ~(q < n - 1)
        BY <1>1, <1>6, <1>7, <1>10, <3>2
      <4> QED BY <4>1, <4>2
    <3> QED BY <3>1, <3>2
  <2>3. q = n
    BY <2>1, <2>2
  <2> QED BY <1>1, <1>3, <1>5, <1>6, <1>7, <1>10, <2>3
<1> QED BY <1>8, <1>9, <1>10

(* The number of blocks that so many bytes take. *)
LEMMA Ceiling ==
    ASSUME NEW x \in Nat, NEW B \in Nat \ {0}, NEW q, q = (x + B - 1) \div B
    PROVE  q \in Nat /\ (q = 0 <=> x = 0) /\ x <= q * B /\ (q > 0 => (q - 1) * B < x)
<1>1. PICK y \in Nat : y = x + B - 1
  OBVIOUS
<1>2. PICK r \in 0..(B - 1) : q \in Nat /\ y = q * B + r
  BY <1>1, Divided
<1>3. PICK a \in Nat : a = q * B
  BY <1>2, Times
<1>4. x + B - 1 = a + r
  BY <1>1, <1>2, <1>3
<1>5. q > 0 => (q - 1) * B = a - B
  BY <1>2, <1>3
<1>6. q = 0 => a = 0
  BY <1>3
<1>7. q > 0 => B <= a
  <2>1. 0 * B = 0 /\ 0 \in Nat
    OBVIOUS
  <2> QED BY <1>2, <1>3, <2>1, TimesMore
<1>8. x <= a
  BY <1>4
<1>9. q > 0 => a - B < x
  BY <1>2, <1>4
<1>10. q = 0 <=> x = 0
  <2>1. q = 0 => x = 0
    BY <1>6, <1>8
  <2>2. q # 0 => x # 0
    BY <1>2, <1>7, <1>9
  <2> QED BY <2>1, <2>2
<1> QED BY <1>2, <1>3, <1>5, <1>8, <1>9, <1>10

(* sfs_write fills the last block and takes as many more as the rest needs. *)
LEMMA StillFilled ==
    ASSUME NEW size \in Nat, NEW n \in Nat \ {0}, Filled(size, n), NEW length \in Nat \ {0},
           NEW n0, n0 = (IF Pointer(size) = -1 THEN 0 ELSE Least(BLOCK_SIZE - Pointer(size), length)),
           NEW blocks, blocks = (length - n0 + BLOCK_SIZE - 1) \div BLOCK_SIZE
    PROVE  Filled(size + length, n + blocks)
<1>1. PICK B \in Nat \ {0} : B = BLOCK_SIZE
  BY Numbers
<1>2. PICK p \in -1..(B - 1) : /\ p = Pointer(size)
                               /\ p = -1 => size = n * B
                               /\ p # -1 => size + (B - p) = n * B
  BY <1>1, Room
<1>3. PICK b \in Nat : b = n * B
  BY <1>1, Times
<1>4. n0 = IF b - size < length THEN b - size ELSE length
  <2>1. CASE p = -1
    BY <1>2, <1>3, <2>1
  <2>2. CASE p # -1
    <3>1. B - p = b - size
      BY <1>2, <1>3, <2>2
    <3> QED BY <1>1, <1>2, <2>2, <3>1 DEF Least
  <2> QED BY <2>1, <2>2
<1>5. size <= b
  BY <1>1, <1>3 DEF Filled
<1>6. PICK x \in Nat : x = length - n0
  <2>1. length - n0 \in Nat
    BY <1>4, <1>5
  <2> QED BY <2>1
<1>7. blocks \in Nat /\ (blocks = 0 <=> x = 0) /\ x <= blocks * B /\ (blocks > 0 => (blocks - 1) * B < x)
  <2>1. blocks = (x + B - 1) \div B
    BY <1>1, <1>6
  <2> QED BY <2>1, Ceiling
<1>8. PICK d \in Nat : d = blocks * B
  BY <1>1, <1>7, Times
<1>9. (n + blocks) * B = b + d
  BY <1>3, <1>7, <1>8
<1>10. size + length <= b + d
  <2>1. x <= d
    BY <1>7, <1>8
  <2> QED BY <1>4, <1>5, <1>6, <2>1
<1>11. n + blocks > 1 => size + length > (n + blocks - 1) * B
  <2>1. CASE blocks = 0
    <3>1. n > 1 => size > (n - 1) * B
      BY <1>1 DEF Filled
    <3>2. PICK c \in Nat : c = (n - 1) * B
      <4>1. n - 1 \in Nat
        OBVIOUS
      <4> QED BY <1>1, <4>1, Times
    <3>3. n + blocks - 1 = n - 1
      BY <2>1
    <3> QED BY <2>1, <3>1, <3>2, <3>3
  <2>2. CASE blocks > 0
    <3>1. PICK c \in Nat : c = (blocks - 1) * B
      <4>1. blocks - 1 \in Nat
        BY <1>7, <2>2
      <4> QED BY <1>1, <4>1, Times
    <3>2. (n + blocks - 1) * B = b + c
      BY <1>3, <1>7, <3>1
    <3>3. c < x /\ x # 0
      BY <1>7, <2>2, <3>1
    <3>4. n0 = b - size
      BY <1>4, <1>6, <3>3
    <3>5. size + length = b + x
      BY <1>6, <3>4
    <3> QED BY <3>2, <3>3, <3>5
  <2> QED BY <1>7, <2>1, <2>2
<1> QED BY <1>1, <1>9, <1>10, <1>11 DEF Filled

(* A file has the size of what was written through its handle, which goes on at its end,
   and a chain of that size. *)
Sized(rt, table, w, f) ==
    LET e == rt.table[f] IN
    /\ Ends(table, e.fat_index)
    /\ e.size = w[f] /\ e.wr_ptr = e.size
    /\ Filled(e.size, ChainLength(table, e.fat_index))

(* In the first process handles and entries go together, and nothing was torn. *)
SizesInv ==
    /\ boots \in Nat /\ (boots = 0 => phase = "off")
    /\ boots = 1 /\ Running =>
          /\ ~torn
          /\ opened_files = root.next_cursor \/ opened_files = MAX_FILE
          /\ \A f \in Slot : f < opened_files => Named(root, f) /\ Sized(root, fat.table, written, f)

(* Flags and read pointers are no part of it. *)
LEMMA SizesSame ==
    ASSUME SizesInv, UNCHANGED <<boots, torn, opened_files, written>>, fat'.table = fat.table,
           Running, SameDir(root', root)
    PROVE  SizesInv'
<1>1. root'.next_cursor = root.next_cursor
  BY DEF SameDir
<1>2. ASSUME NEW f \in Slot
      PROVE  /\ root'.table[f].name = root.table[f].name
             /\ root'.table[f].fat_index = root.table[f].fat_index
             /\ root'.table[f].size = root.table[f].size
             /\ root'.table[f].wr_ptr = root.table[f].wr_ptr
  BY DEF SameDir, SavedEntry
<1>3. ASSUME boots = 1, NEW f \in Slot, f < opened_files
      PROVE  Named(root', f) /\ Sized(root', fat.table, written, f)
  <2>1. Named(root, f) /\ Sized(root, fat.table, written, f)
    BY <1>3 DEF SizesInv
  <2> QED BY <1>2, <2>1 DEF Named, Sized
<1>4. boots # 0
  BY DEF SizesInv, Running
<1>5. boots' = 1 /\ Running' => /\ ~torn'
                                /\ opened_files' = root'.next_cursor \/ opened_files' = MAX_FILE
  BY <1>1 DEF SizesInv
<1>6. ASSUME boots' = 1, NEW f \in Slot, f < opened_files'
      PROVE  Named(root', f) /\ Sized(root', fat'.table, written', f)
  BY <1>3, <1>6
<1>7. boots' \in Nat /\ boots' # 0
  BY <1>4 DEF SizesInv
<1> QED BY <1>5, <1>6, <1>7 DEF SizesInv

(* A process that is gone has no sizes. *)
LEMMA SizesGone == ASSUME SizesInv, UNCHANGED boots, ~Running', phase' = "off" \/ phase # "off" PROVE SizesInv'
BY DEF SizesInv

(* The start of the program. *)
LEMMA StartSizes == ASSUME IInv, SizesInv, BootFresh \/ Boot PROVE SizesInv'
<1>1. CASE BootFresh
  <2>1. boots' = 1 /\ opened_files' = 0 /\ root' = ZeroRoot /\ torn' = FALSE
    BY <1>1 DEF BootFresh, Format
  <2>2. opened_files' = root'.next_cursor
    BY <2>1 DEF ZeroRoot
  <2>3. \A f \in Slot : ~(f < opened_files')
    BY <2>1 DEF Slot
  <2> QED BY <2>1, <2>2, <2>3 DEF SizesInv
<1>2. CASE Boot
  <2>1. boots' \in Nat /\ boots' # 0 /\ boots' # 1
    BY <1>2, SFSAssumption DEF Boot
  <2> QED BY <2>1 DEF SizesInv
<1> QED BY <1>1, <1>2

(* The steps that leave names, chains, sizes and pointers alone. *)
LEMMA LightSizes ==
    ASSUME IInv, SizesInv,
           \/ Remount \/ Flush \/ Crash
           \/ \E name \in Name : Reopen(name)
           \/ \E f \in Slot : Close(f)
           \/ \E f \in Slot, length \in ReadLengths : Read(f, length)
           \/ UNCHANGED vars
    PROVE  SizesInv'
<1>0. Types /\ root \in Directory /\ root.table \in [Slot -> Entry]
  BY DEF IInv, Types, Directory
<1>1. ASSUME NEW f \in Slot, NEW e, SavedEntry(e) = SavedEntry(root.table[f]), root' = [root EXCEPT !.table[f] = e]
      PROVE  SameDir(root', root)
  <2>1. /\ root'.next_cursor = root.next_cursor /\ root'.table[f] = e
        /\ \A g \in Slot \ {f} : root'.table[g] = root.table[g]
    BY <1>0, <1>1 DEF Directory
  <2> QED BY <1>1, <2>1 DEF SameDir
<1>2. SameDir(root, root)
  BY DEF SameDir
<1>3. CASE Remount
  <2>1. phase = "idle" /\ Running /\ Load /\ UNCHANGED <<boots, torn, opened_files, written>>
    BY <1>3 DEF Remount, Running
  <2>2. root' = StoredRoot /\ fat' = StoredFat
    BY <1>0, <2>1, LoadEffect
  <2>3. SameDir(StoredRoot, root) /\ StoredFat = fat
    BY <2>1 DEF IInv, TodoInv
  <2> QED BY <2>1, <2>2, <2>3, SizesSame
<1>4. CASE Flush
  <2>1. Running /\ UNCHANGED <<boots, torn, opened_files, written, root, fat>>
    BY <1>4 DEF Flush, memory, Running
  <2> QED BY <1>2, <2>1, SizesSame
<1>5. CASE Crash
  BY <1>5, SizesGone DEF Crash, Stop, Running
<1>6. ASSUME NEW name \in Name, Reopen(name) PROVE SizesInv'
  <2>1. PICK f \in Slot : f = FileIndex(name)
    BY <1>6, IndexFound DEF Reopen
  <2>2. PICK e : e = [root.table[f] EXCEPT !.opened = 1]
    OBVIOUS
  <2>3. root.table[f] \in Entry
    BY <1>0
  <2>4. SavedEntry(e) = SavedEntry(root.table[f])
    BY <2>2, <2>3 DEF Entry, SavedEntry
  <2>5. /\ root' = [root EXCEPT !.table[FileIndex(name)].opened = 1] /\ Running
        /\ UNCHANGED <<boots, torn, opened_files, written, fat>>
    BY <1>6 DEF Reopen, Running
  <2>6. root' = [root EXCEPT !.table[f] = e]
    BY <2>1, <2>2, <2>5
  <2> QED BY <1>1, <2>4, <2>5, <2>6, SizesSame
<1>7. ASSUME NEW f \in Slot, Close(f) PROVE SizesInv'
  <2>2. PICK e : e = [root.table[f] EXCEPT !.opened = 0]
    OBVIOUS
  <2>3. root.table[f] \in Entry
    BY <1>0
  <2>4. SavedEntry(e) = SavedEntry(root.table[f])
    BY <2>2, <2>3 DEF Entry, SavedEntry
  <2>5. /\ root' = [root EXCEPT !.table[f].opened = 0] /\ Running
        /\ UNCHANGED <<boots, torn, opened_files, written, fat>>
    BY <1>7 DEF Close, Running
  <2>6. root' = [root EXCEPT !.table[f] = e]
    BY <2>2, <2>5
  <2> QED BY <1>1, <2>4, <2>5, <2>6, SizesSame
<1>8. ASSUME NEW f \in Slot, NEW length \in ReadLengths, Read(f, length) PROVE SizesInv'
  <2>1. phase = "idle" /\ UNCHANGED boots
    BY Zenon, <1>8 DEF Read, Lost
  <2>2. \/ Lost("undefined") \/ Lost("stuck")
        \/ \E n : root' = [root EXCEPT !.table[f].rd_ptr = n] /\ UNCHANGED <<boots, torn, opened_files, written, fat>>
    BY ZenonT(60), <1>8 DEF Read
  <2>3. CASE Lost("undefined") \/ Lost("stuck")
    BY <2>1, <2>3, SizesGone DEF Lost, Running
  <2>4. ASSUME NEW n, root' = [root EXCEPT !.table[f].rd_ptr = n], UNCHANGED <<boots, torn, opened_files, written, fat>>
        PROVE  SizesInv'
    <3>1. PICK e : e = [root.table[f] EXCEPT !.rd_ptr = n]
      OBVIOUS
    <3>2. root.table[f] \in Entry
      BY <1>0
    <3>3. SavedEntry(e) = SavedEntry(root.table[f])
      BY <3>1, <3>2 DEF Entry, SavedEntry
    <3>4. root' = [root EXCEPT !.table[f] = e]
      BY <2>4, <3>1
    <3>5. Running
      BY <2>1 DEF Running
    <3> QED BY <1>1, <2>4, <3>3, <3>4, <3>5, SizesSame
  <2> QED BY Zenon, <2>2, <2>3, <2>4
<1>9. CASE UNCHANGED vars
  <2>1. UNCHANGED <<boots, torn, opened_files, written, fat, root, phase>>
    BY <1>9 DEF vars, memory, history
  <2>2. CASE Running
    BY <1>2, <2>1, <2>2, SizesSame
  <2>3. CASE ~Running
    BY <2>1, <2>3 DEF SizesInv, Running
  <2> QED BY <2>2, <2>3
<1> QED BY <1>3, <1>4, <1>5, <1>6, <1>7, <1>8, <1>9

(* The entry of a new file, when the handle and the entry go together. *)
LEMMA EntryEmpty ==
    ASSUME NEW table \in [Slot -> Entry], NEW e \in Slot, NEW name \in Name, NEW c \in Node, NEW t,
           t = Made(table, e, e, name, c)
    PROVE  /\ t[e].name = name /\ t[e].fat_index = c /\ t[e].size = 0 /\ t[e].wr_ptr = 0
           /\ \A g \in Slot \ {e} : t[g] = table[g]
<1>1. PICK x \in Entry : x = table[e]
  OBVIOUS
<1>2. PICK y : y = Descriptor(x, name)
  OBVIOUS
<1>3. y = [x EXCEPT !.name = name, !.opened = 1, !.rd_ptr = 0, !.wr_ptr = 0] 
  BY <1>2 DEF Descriptor
<1>4. y.wr_ptr = 0 /\ y \in Entry
  BY <1>1, <1>3 DEF Entry
<1>5. PICK z : z = FileEntry(y, name, c)
  OBVIOUS
<1>6. z.name = name /\ z.fat_index = c /\ z.size = 0 /\ z.wr_ptr = 0
  BY <1>4, <1>5 DEF FileEntry, Entry
<1>7. PICK u : u = [table EXCEPT ![e] = Descriptor(@, name)]
  OBVIOUS
<1>8. u[e] = y /\ DOMAIN u = Slot /\ \A g \in Slot \ {e} : u[g] = table[g]
  BY <1>1, <1>2, <1>7
<1>9. t = [u EXCEPT ![e] = FileEntry(@, name, c)]
  BY <1>7 DEF Made
<1>10. t[e] = z /\ \A g \in Slot \ {e} : t[g] = table[g]
  BY <1>5, <1>8, <1>9
<1> QED BY <1>6, <1>10

(* sfs_open of a new file: its chain is one node, the others do not have the node. *)
LEMMA CreateSizes == ASSUME IInv, SizesInv, NEW name \in Name, Create(name) PROVE SizesInv'
<1>1. /\ Types /\ TodoInv /\ DiskInv /\ HeadsInv /\ AgreeInv
      /\ root \in Directory /\ fat \in Chains /\ root.table \in [Slot -> Entry] /\ fat.table \in Table
      /\ opened_files \in 0..MAX_FILE /\ written \in [Slot -> Nat] /\ root.next_cursor \in Slot
      /\ MAX_FILE \in Nat \ {0} /\ MAX_DISK \in Nat /\ MAX_DISK >= 4 /\ freebl \in List
  BY Numbers DEF IInv, Types, Directory, Chains
<1> DEFINE f == opened_files
           c == fat.next_cursor
           e == root.next_cursor
           db == FreeBlock(freebl)
           ft == [fat.table EXCEPT ![c] = [db_index |-> db, next |-> -1]]
           rt == [[root.table EXCEPT ![f] = Descriptor(@, name)] EXCEPT ![e] = FileEntry(@, name, c)]
<1>2. /\ phase = "idle"
      /\ \/ Lost("undefined")
         \/ Stop /\ UNCHANGED <<diskVars, boots, written, acked, misplaced, torn>>
         \/ /\ f \in Slot /\ c \in Node /\ NextEntry(rt, e) # MAX_FILE
            /\ fat' = [table |-> ft, next_cursor |-> NextCursor(ft, c)]
            /\ root' = [table |-> rt, next_cursor |-> NextEntry(rt, e)]
            /\ opened_files' = f + 1 /\ phase' = "busy"
            /\ written' = [written EXCEPT ![e] = 0]
            /\ UNCHANGED <<boots, torn>>
  BY DEF Create
<1> HIDE DEF ft, rt
<1>3. CASE Lost("undefined")
  BY <1>2, <1>3, SizesGone DEF Lost, Running
<1>4. CASE Stop /\ UNCHANGED <<diskVars, boots, written, acked, misplaced, torn>>
  BY <1>2, <1>4, SizesGone DEF Stop, Running
<1>5. CASE /\ f \in Slot /\ c \in Node /\ NextEntry(rt, e) # MAX_FILE
           /\ fat' = [table |-> ft, next_cursor |-> NextCursor(ft, c)]
           /\ root' = [table |-> rt, next_cursor |-> NextEntry(rt, e)]
           /\ opened_files' = f + 1 /\ phase' = "busy"
           /\ written' = [written EXCEPT ![e] = 0]
           /\ UNCHANGED <<boots, torn>>
  <2>1. Running /\ boots \in Nat /\ boots # 0 /\ boots' = boots
    BY <1>2, <1>5 DEF Running, SizesInv
  <2> SUFFICES ASSUME boots = 1
               PROVE  /\ ~torn'
                      /\ opened_files' = root'.next_cursor \/ opened_files' = MAX_FILE
                      /\ \A g \in Slot : g < opened_files' => Named(root', g) /\ Sized(root', fat'.table, written', g)
    BY <2>1 DEF SizesInv
  <2>2. ~torn /\ (f = e \/ f = MAX_FILE)
        /\ \A g \in Slot : g < f => Named(root, g) /\ Sized(root, fat.table, written, g)
    BY <2>1 DEF SizesInv
  <2>3. e = f /\ e \in Slot /\ e \in Nat /\ e < MAX_FILE
    BY <1>1, <1>5, <2>2 DEF Slot
  <2>4. rt = Made(root.table, e, e, name, c)
    BY <2>3 DEF rt, Made
  <2>5. /\ rt[e].name = name /\ rt[e].fat_index = c /\ rt[e].size = 0 /\ rt[e].wr_ptr = 0
        /\ \A g \in Slot \ {e} : rt[g] = root.table[g]
    <3> DEFINE tb == root.table
    <3>1. tb \in [Slot -> Entry] /\ e \in Slot /\ c \in Node /\ rt = Made(tb, e, e, name, c)
      BY <1>1, <1>5, <2>3, <2>4
    <3> HIDE DEF tb, e, c
    <3>2. /\ rt[e].name = name /\ rt[e].fat_index = c /\ rt[e].size = 0 /\ rt[e].wr_ptr = 0
          /\ \A g \in Slot \ {e} : rt[g] = tb[g]
      BY <3>1, EntryEmpty
    <3> QED BY <3>2 DEF tb
  <2>6. e + 1 = NextEntry(rt, e) \/ e + 1 = MAX_FILE
    <3>1. rt \in [Slot -> Entry]
      <4> DEFINE tb == root.table
      <4>1. tb \in [Slot -> Entry] /\ e \in Slot /\ c \in Node /\ rt = Made(tb, e, e, name, c)
        BY <1>1, <1>5, <2>3, <2>4
      <4> HIDE DEF tb, e, c
      <4> QED BY <4>1, EntryMade
    <3> QED BY <2>3, <3>1, NextEntryFound
  <2>7. /\ Sound(fat.table, c) /\ Rooted(root, fat.table, c)
    BY <1>1, <2>1, <2>2 DEF DiskInv, AgreeInv, Agree
  <2>8. ft[c].next = -1 /\ \A n \in Node \ {c} : ft[n] = fat.table[n]
    BY <1>1, <1>5 DEF ft, Table
  <2>9. name # NoName
    BY SFSAssumption
  <2>10. root'.table = rt /\ fat'.table = ft
    BY <1>5
  <2>11. Named(root', e) /\ Sized(root', ft, written', e)
    <3> DEFINE one == [k \in 0..0 |-> c]
    <3>1. Follows(ft, c, one, 1)
      <4>1. one[0] = c /\ 1 \in 1..MAX_DISK /\ (\A k \in 0..(1 - 1) : k = 0) /\ 0..(1 - 2) = {} /\ 1 - 1 = 0
        BY <1>1
      <4> HIDE DEF one
      <4> QED BY <1>5, <2>8, <4>1 DEF Follows
    <3>2. Ends(ft, c) /\ ChainLength(ft, c) = 1
      BY <3>1, ChainIs
    <3>3. written'[e] = 0
      BY <1>1, <1>5, <2>3
    <3>4. Filled(0, 1)
      BY Numbers DEF Filled
    <3> QED BY <2>5, <2>9, <2>10, <3>2, <3>3, <3>4 DEF Named, Sized
  <2>12. ASSUME NEW g \in Slot, g < e PROVE Named(root', g) /\ Sized(root', ft, written', g)
    <3>1. Named(root, g) /\ Sized(root, fat.table, written, g)
      BY <2>2, <2>3, <2>12
    <3>2. PICK x : x = root.table[g].fat_index
      OBVIOUS
    <3>3. x \in Node /\ x < c /\ Ends(fat.table, x) /\ c \in 0..MAX_DISK /\ c \in Nat
      <4>1. root.table[g] \in Entry
        BY <1>1
      <4>2. x \in Node
        BY <3>2, <4>1 DEF Entry
      <4>3. x < c
        BY <2>7, <3>1, <3>2 DEF Rooted
      <4>4. Ends(fat.table, x)
        BY <3>1, <3>2 DEF Sized
      <4>5. c \in 0..MAX_DISK /\ c \in Nat
        BY <1>1 DEF Chains
      <4> QED BY <4>2, <4>3, <4>4, <4>5
    <3> DEFINE a == Nth(fat.table, x)
               n == ChainLength(fat.table, x)
    <3>4. \A k \in 0..(n - 1) : a[k] \in Node /\ a[k] < c
      BY <1>1, <2>7, <3>3, ChainFacts, ChainUsed
    <3>5. \A k \in 0..(n - 1) : ft[a[k]].next = fat.table[a[k]].next
      <4> SUFFICES ASSUME NEW k \in 0..(n - 1) PROVE ft[a[k]].next = fat.table[a[k]].next
        OBVIOUS
      <4>1. PICK y \in Node : y = a[k] /\ y < c
        BY <3>4
      <4>2. y # c
        <5>1. y \in Nat
          BY <4>1, Numbers
        <5> QED BY <3>3, <4>1, <5>1
      <4> QED BY <2>8, <4>1, <4>2
    <3>6. Ends(ft, x) /\ ChainLength(ft, x) = n
      BY <1>1, <3>3, <3>5, ChainKept
    <3>7. g # e
      BY <2>3, <2>12
    <3>8. root'.table[g] = root.table[g] /\ written'[g] = written[g]
      BY <1>1, <1>5, <2>3, <2>5, <2>10, <3>7
    <3> QED BY <3>1, <3>2, <3>6, <3>8 DEF Named, Sized
  <2>13. \A g \in Slot : g < e + 1 => g = e \/ g < e
    BY <2>3 DEF Slot
  <2>14. \A g \in Slot : g < opened_files' => Named(root', g) /\ Sized(root', fat'.table, written', g)
    BY <1>5, <2>3, <2>10, <2>11, <2>12, <2>13
  <2>15. opened_files' = root'.next_cursor \/ opened_files' = MAX_FILE
    BY <1>5, <2>3, <2>6
  <2> QED BY <1>5, <2>2, <2>14, <2>15
<1> QED BY <1>2, <1>3, <1>4, <1>5

(* sfs_write: the chain of the file grows by the blocks of the loop, no other chain does. *)
LEMMA WriteSizes == ASSUME IInv, SizesInv, NEW f \in Slot, NEW length \in Lengths, Write(f, length) PROVE SizesInv'
<1> DEFINE h      == root.table[f].fat_index
           wr_ptr == root.table[f].wr_ptr
           target == WriteTarget(fat.table, h)
           at     == Pointer(wr_ptr)
           n0     == IF at = -1 THEN 0 ELSE Least(BLOCK_SIZE - at, length)
           bytes  == [k \in 1..length |-> <<f, written[f] + k - 1>>]
           read   == BytesAt(pos, target)
           buffer == IF at = -1 THEN read ELSE Overlay(read, at, SubSeq(bytes, 1, n0))
           blocks == (length - n0 + BLOCK_SIZE - 1) \div BLOCK_SIZE
           pending == IF at = -1 THEN <<>> ELSE <<[at |-> target, kind |-> "data", bytes |-> buffer]>>
           first  == [table |-> fat.table, cursor |-> fat.next_cursor, list |-> freebl,
                      last |-> Nth(fat.table, h)[ChainLength(fat.table, h) - 1], buffer |-> buffer,
                      writes |-> pending]
           loop   == Extended(first, bytes, n0, blocks)
           end    == loop[blocks]
           entry  == Grown(root.table[f], length)
<1>1. /\ phase = "idle" /\ f < opened_files
      /\ IF \/ ~Ends(fat.table, h)
            \/ blocks > 0 /\ \E k \in 0..(blocks - 1) : loop[k].cursor \notin Node
           THEN Lost("undefined")
           ELSE /\ fat' = [table |-> end.table, next_cursor |-> end.cursor]
                /\ root' = [root EXCEPT !.table[f] = entry]
                /\ written' = [written EXCEPT ![f] = @ + length]
                /\ UNCHANGED <<disk, opened_files, boots, acked, torn>>
  BY ZenonT(60) DEF Write
<1> HIDE DEF h, wr_ptr, target, at, n0, bytes, read, buffer, blocks, pending, first, loop, end, entry
<1>2. /\ Types /\ TodoInv /\ DiskInv /\ HeadsInv /\ AgreeInv
      /\ root \in Directory /\ root.table \in [Slot -> Entry] /\ root.table[f] \in Entry
      /\ fat \in Chains /\ fat.table \in Table /\ freebl \in List
      /\ fat.next_cursor \in 0..MAX_DISK
      /\ opened_files \in 0..MAX_FILE /\ pos \in 0..MAX_DISK /\ written \in [Slot -> Nat] /\ acked \in [Slot -> Nat]
  BY DEF IInv, Types, Directory, Chains
<1>3. /\ h \in Node /\ wr_ptr \in Nat /\ length \in Nat /\ length # 0 /\ BLOCK_SIZE \in Nat \ {0} /\ MAX_DISK \in Nat
  BY <1>2, SFSAssumption DEF Entry, h, wr_ptr
<1>4. at \in -1..(BLOCK_SIZE - 1)
  BY <1>3, PointerRange DEF at
<1>5. CASE Lost("undefined")
  BY <1>1, <1>5, SizesGone DEF Lost, Running
<1>6. ASSUME Ends(fat.table, h), ~(blocks > 0 /\ \E k \in 0..(blocks - 1) : loop[k].cursor \notin Node),
             fat' = [table |-> end.table, next_cursor |-> end.cursor],
             root' = [root EXCEPT !.table[f] = entry],
             written' = [written EXCEPT ![f] = @ + length],
             UNCHANGED <<disk, opened_files, boots, acked, torn>>
      PROVE  SizesInv'
  <2>1. Running /\ boots \in Nat /\ boots # 0
    BY <1>1 DEF Running, SizesInv
  <2> SUFFICES ASSUME boots = 1
               PROVE  /\ ~torn'
                      /\ opened_files' = root'.next_cursor \/ opened_files' = MAX_FILE
                      /\ \A g \in Slot : g < opened_files' => Named(root', g) /\ Sized(root', fat'.table, written', g)
    BY <1>6, <2>1 DEF SizesInv
  <2>2. /\ ~torn /\ (opened_files = root.next_cursor \/ opened_files = MAX_FILE)
        /\ \A g \in Slot : g < opened_files => Named(root, g) /\ Sized(root, fat.table, written, g)
    BY <2>1 DEF SizesInv
  <2>3. /\ Sound(fat.table, fat.next_cursor) /\ Rooted(root, fat.table, fat.next_cursor) /\ HeadsApart(root)
    BY <1>2, <2>1, <2>2 DEF DiskInv, AgreeInv, Agree
  <2>4. Named(root, f) /\ Sized(root, fat.table, written, f)
    BY <1>1, <2>2
  <2>5. h < fat.next_cursor
    BY <2>3, <2>4 DEF Rooted, h
  <2>6. target \in Int
    BY <1>2, <1>3, <1>6, TargetFound DEF target
  <2>7. n0 \in Nat /\ n0 <= length
    BY <1>3, <1>4 DEF n0, Least
  <2>8. bytes \in Seq(Byte) /\ Len(bytes) = length
    <3>1. \A k \in 1..length : <<f, written[f] + k - 1>> \in Byte
      BY <1>2, <1>3 DEF Byte
    <3> QED BY <1>3, <3>1 DEF bytes
  <2>9. read \in Bytes
    BY <1>2, <2>6, BlockRead DEF read
  <2>10. buffer \in Bytes
    <3>1. CASE at = -1
      BY <2>9, <3>1 DEF buffer
    <3>2. CASE at # -1
      <4>1. SubSeq(bytes, 1, n0) \in Seq(Byte)
        BY <2>7, <2>8, Piece
      <4>2. at \in Nat
        BY <1>3, <1>4, <3>2
      <4> QED BY <2>9, <3>2, <4>1, <4>2, OverlayTypes DEF buffer
    <3> QED BY <3>1, <3>2
  <2>11. pending \in Seq(DataWrite)
    <3>1. [at |-> target, kind |-> "data", bytes |-> buffer] \in DataWrite
      BY <2>6, <2>10 DEF DataWrite
    <3> QED BY <3>1 DEF pending
  <2>12. blocks \in Nat
    <3>1. length - n0 + BLOCK_SIZE - 1 \in Nat
      BY <1>3, <2>7
    <3> QED BY <1>3, <3>1, Quotient DEF blocks
  <2> DEFINE tb == fat.table
             cu == fat.next_cursor
             li == freebl
             rt == root
  <2>13. /\ tb \in Table /\ cu \in 0..MAX_DISK /\ li \in List /\ Sound(tb, cu) /\ h < cu /\ Ends(tb, h)
         /\ first = [table |-> tb, cursor |-> cu, list |-> li,
                     last |-> Nth(tb, h)[ChainLength(tb, h) - 1], buffer |-> buffer, writes |-> pending]
         /\ rt \in Directory /\ HeadsApart(rt) /\ Rooted(rt, tb, cu) /\ Named(rt, f) /\ h = rt.table[f].fat_index
    BY <1>2, <1>6, <2>3, <2>4, <2>5 DEF first, h
  <2>14. LoopInv(first, tb, cu, li)
    <3> HIDE DEF tb, cu, li
    <3> QED BY <1>3, <2>10, <2>11, <2>13, LoopBegins
  <2>15. \A k \in 0..(blocks - 1) : loop[k].cursor \in Node
    <3> SUFFICES ASSUME NEW k \in 0..(blocks - 1) PROVE loop[k].cursor \in Node
      OBVIOUS
    <3>1. blocks > 0
      BY <2>12
    <3> QED BY <1>6, <3>1
  <2>16. Longer(end.table, tb, rt, f, blocks, end.last)
    <3> HIDE DEF tb, cu, li, rt
    <3>1. first.table = tb /\ first.last = Nth(tb, h)[ChainLength(tb, h) - 1]
      BY ZenonT(60), <2>13
    <3>2. Longer(loop[blocks].table, tb, rt, f, blocks, loop[blocks].last)
      BY <2>7, <2>8, <2>12, <2>13, <2>14, <2>15, <3>1, LoopLonger DEF loop
    <3> QED BY <3>2 DEF end
  <2>17. /\ entry.name = root.table[f].name /\ entry.fat_index = root.table[f].fat_index
         /\ entry.size = root.table[f].size + length /\ entry.wr_ptr = root.table[f].size + length
    BY <1>2 DEF entry, Grown, Entry
  <2>18. /\ root'.next_cursor = root.next_cursor
         /\ root'.table[f] = entry /\ \A g \in Slot \ {f} : root'.table[g] = root.table[g]
    BY <1>2, <1>6 DEF Directory
  <2>19. fat'.table = end.table
    BY <1>6
  <2>20. written'[f] = written[f] + length /\ \A g \in Slot \ {f} : written'[g] = written[g]
    BY <1>2, <1>6
  <2>21. Named(root', f) /\ Sized(root', fat'.table, written', f)
    <3>1. PICK n \in Nat \ {0} : n = ChainLength(tb, h)
      <4> HIDE DEF tb
      <4> QED BY <1>3, <2>13, ChainFacts
    <3>2. PICK size \in Nat : size = root.table[f].size
      BY <1>2 DEF Entry
    <3>3. size = written[f] /\ wr_ptr = size /\ Filled(size, n)
      BY <2>4, <3>1, <3>2 DEF Sized, wr_ptr, h
    <3>4. n0 = IF Pointer(size) = -1 THEN 0 ELSE Least(BLOCK_SIZE - Pointer(size), length)
      BY <3>3 DEF n0, at
    <3>5. Filled(size + length, n + blocks)
      BY <1>3, <3>3, <3>4, StillFilled DEF blocks
    <3>6. Ends(end.table, h) /\ ChainLength(end.table, h) = n + blocks
      BY <2>16, <3>1 DEF Longer, h
    <3>7. /\ root'.table[f].fat_index = h /\ root'.table[f].size = size + length
          /\ root'.table[f].wr_ptr = size + length /\ root'.table[f].name = root.table[f].name
      BY <2>17, <2>18, <3>2 DEF h
    <3> QED BY <2>4, <2>19, <2>20, <3>2, <3>3, <3>5, <3>6, <3>7 DEF Named, Sized
  <2>22. ASSUME NEW g \in Slot, g < opened_files, g # f
         PROVE  Named(root', g) /\ Sized(root', fat'.table, written', g)
    <3>1. Named(root, g) /\ Sized(root, fat.table, written, g)
      BY <2>2, <2>22
    <3>2. PICK x : x = root.table[g].fat_index
      OBVIOUS
    <3>3. Ends(tb, x)
      BY <3>1, <3>2 DEF Sized
    <3>4. Ends(end.table, x) /\ ChainLength(end.table, x) = ChainLength(tb, x)
      BY <2>16, <2>22, <3>1, <3>2, <3>3 DEF Longer
    <3>5. root'.table[g] = root.table[g] /\ written'[g] = written[g]
      BY <2>18, <2>20, <2>22
    <3> QED BY <2>19, <3>1, <3>2, <3>4, <3>5 DEF Named, Sized
  <2>23. \A g \in Slot : g < opened_files' => Named(root', g) /\ Sized(root', fat'.table, written', g)
    BY <1>6, <2>21, <2>22
  <2>24. ~torn' /\ (opened_files' = root'.next_cursor \/ opened_files' = MAX_FILE)
    BY <1>6, <2>2, <2>18
  <2> QED BY <2>23, <2>24
<1> QED BY <1>1, <1>5, <1>6

(* The sizes hold in every reachable state. *)
LEMMA SizesHold == Spec => []SizesInv
<1>1. Init => SizesInv
  BY DEF Init, SizesInv, Running
<1>2. ASSUME IInv, SizesInv, [Next]_vars PROVE SizesInv'
  <2>1. CASE BootFresh \/ Boot
    BY <1>2, <2>1, StartSizes
  <2>2. CASE \E name \in Name : Create(name)
    BY <1>2, <2>2, CreateSizes
  <2>3. CASE \E f \in Slot, length \in Lengths : Write(f, length)
    BY <1>2, <2>3, WriteSizes
  <2>4. CASE \/ Remount \/ Flush \/ Crash
             \/ \E name \in Name : Reopen(name)
             \/ \E f \in Slot : Close(f)
             \/ \E f \in Slot, length \in ReadLengths : Read(f, length)
             \/ UNCHANGED vars
    BY <1>2, <2>4, LightSizes
  <2> QED BY <1>2, <2>1, <2>2, <2>3, <2>4 DEF Next, Call
<1> QED BY <1>1, <1>2, Inductive, PTL DEF Spec

---------------------------------------------------------------------------------
(* The contents of files *)

(* The block with byte k of the file that begins at node h. *)
Place(table, h, k) == table[Nth(table, h)[k \div BLOCK_SIZE]].db_index
Located(table, h, k) ==
    /\ k \div BLOCK_SIZE \in 0..(MAX_DISK - 1) /\ Nth(table, h)[k \div BLOCK_SIZE] \in Node
    /\ Place(table, h, k) \in DataBlock

(* Block b of the disk has v as its j-th byte, or will when the call has made its writes,
   whichever of them is the last. *)
HasByte(b, j, v) == disk[b].kind = "data" /\ disk[b].content[j] = v
Pending(b) == {i \in 1..Len(todo) : todo[i].kind = "data" /\ todo[i].at = b}
WillHold(b, j, v) ==
    /\ \A i \in Pending(b) : todo[i].bytes[j] = v
    /\ Pending(b) # {} \/ HasByte(b, j, v)

(* Byte k of file f is where the chain of node h says, or on its way there. *)
Found(table, h, f, k) ==
    Located(table, h, k) /\ HasByte(Place(table, h, k), (k % BLOCK_SIZE) + 1, <<f, k>>)
Coming(table, h, f, k) ==
    Located(table, h, k) /\ WillHold(Place(table, h, k), (k % BLOCK_SIZE) + 1, <<f, k>>)

(* The entries of a directory begin chains of their own, or at the cursor where there is
   none yet; nothing was written to a file of no bytes, which has at most one block. *)
Apart(rt, table, cursor, w) ==
    /\ HeadsApart(rt)
    /\ \A g \in Slot : Named(rt, g) =>
          LET h == rt.table[g].fat_index IN
          /\ h = cursor \/ Root(table, cursor, h)
          /\ rt.table[g].size = 0 => w[g] = 0 /\ (h < cursor => table[h].next = -1)

(* Table t has what the table has below the cursor, and its chains may go on. *)
Continues(t, table, cursor) ==
    \A n \in Node : n < cursor => /\ t[n].db_index = table[n].db_index
                                  /\ table[n].next # -1 => t[n].next = table[n].next

(* What the disk alone tells of the files, written as far as w says. *)
OnTheDisk(w) ==
    /\ Readable /\ Full(StoredRoot)
    /\ BlocksApart(StoredFat.table, StoredFat.next_cursor)
    /\ Apart(StoredRoot, StoredFat.table, StoredFat.next_cursor, w)
    /\ \A f \in Slot : w[f] > 0 =>
          /\ disk[0].kind = "root" /\ disk[1].kind = "fat" /\ Named(StoredRoot, f)
          /\ \A k \in 0..(w[f] - 1) : Found(StoredFat.table, StoredRoot.table[f].fat_index, f, k)

(* What the running process has in memory goes with what it still has to write. *)
Ahead ==
    /\ \A f \in Slot : written[f] > 0 =>
          /\ Named(root, f)
          /\ \A k \in 0..(written[f] - 1) : Coming(fat.table, root.table[f].fat_index, f, k)
InMemory ==
    /\ Full(root) /\ Handles
    /\ BlocksApart(fat.table, fat.next_cursor)
    /\ Apart(root, fat.table, fat.next_cursor, written)
    /\ opened_files > 0 => Rooted(root, fat.table, fat.next_cursor)
    /\ \A g \in Slot : g < opened_files =>
          /\ Named(root, g)
          /\ root.table[g].wr_ptr = root.table[g].size => Sized(root, fat.table, written, g)

(* Memory is never behind the disk. *)
Between ==
    /\ \A i \in 1..Len(todo) : todo[i].kind = "data" => todo[i].at \in DataBlock
    /\ \A f \in Slot : acked[f] <= written[f]
    /\ phase = "idle" => acked = written
    /\ StoredFat.next_cursor <= fat.next_cursor
    /\ Continues(fat.table, StoredFat.table, StoredFat.next_cursor)
    /\ \A f \in Slot : acked[f] > 0 => root.table[f].fat_index = StoredRoot.table[f].fat_index
    /\ Len(todo) >= 3 => Apart(root, StoredFat.table, StoredFat.next_cursor, acked)

(* Each byte of the calls that have returned is on the disk, and each byte of the running
   call in a block of its own that is on its way; as long as no call has misplaced any. *)
Contents == OnTheDisk(acked) /\ (Running => InMemory /\ Between /\ Ahead)
ContentInv == ~misplaced => Contents

(* The chain of a node that was allocated ends, since it climbs. *)
LEMMA ChainEnds ==
    ASSUME NEW table \in Table, NEW cursor \in 0..MAX_DISK, Sound(table, cursor), NEW h \in Node, h < cursor
    PROVE  Ends(table, h)
<1> DEFINE nth == Nth(table, h)
           S == {k \in Nat : k <= MAX_DISK => nth[k] = -1 \/ (nth[k] \in Node /\ nth[k] < cursor /\ k <= nth[k])}
<1>0. MAX_DISK \in Nat /\ cursor \in Nat /\ cursor <= MAX_DISK /\ -1 \notin Node /\ Node \subseteq Nat
  BY Numbers
<1>1. nth[0] = h /\ \A k \in 1..MAX_DISK : nth[k] = After(table, nth[k - 1])
  BY NthSteps
<1> HIDE DEF nth
<1>2. 0 \in S
  BY <1>0, <1>1
<1>3. ASSUME NEW k \in Nat, k \in S PROVE k + 1 \in S
  <2> SUFFICES ASSUME k + 1 <= MAX_DISK
               PROVE  nth[k + 1] = -1 \/ (nth[k + 1] \in Node /\ nth[k + 1] < cursor /\ k + 1 <= nth[k + 1])
    OBVIOUS
  <2>1. k + 1 \in 1..MAX_DISK /\ k + 1 - 1 = k /\ k <= MAX_DISK
    BY <1>0
  <2>2. PICK x, y : x = nth[k] /\ y = nth[k + 1]
    OBVIOUS
  <2>3. y = After(table, x) /\ (x = -1 \/ (x \in Node /\ x < cursor /\ k <= x))
    BY <1>1, <1>3, <2>1, <2>2
  <2>4. CASE x = -1
    BY <1>0, <2>2, <2>3, <2>4 DEF After
  <2>5. CASE x \in Node /\ x < cursor /\ k <= x
    <3>1. y = table[x].next
      BY <2>3, <2>5 DEF After
    <3>2. y # -1 => y > x /\ y < cursor
      BY <2>5, <3>1 DEF Sound
    <3>3. y \in Node \cup {-1, EMPTY}
      BY <2>5, <3>1 DEF Table, NodeEntry
    <3>4. y # -1 => y \in Node
      BY <1>0, <2>5, <3>2, <3>3 DEF EMPTY
    <3>5. y # -1 => k + 1 <= y
      <4> SUFFICES ASSUME y # -1 PROVE k + 1 <= y
        OBVIOUS
      <4>1. x \in Nat /\ y \in Nat /\ x < y /\ k <= x
        BY <1>0, <2>5, <3>2, <3>4
      <4> QED BY <4>1
    <3> QED BY <2>2, <3>2, <3>4, <3>5
  <2> QED BY <2>3, <2>4, <2>5
<1>4. Nat \subseteq S
  <2> HIDE DEF S
  <2> QED BY <1>2, <1>3, Induction
<1>5. nth[MAX_DISK] = -1
  <2>1. PICK x : x = nth[MAX_DISK]
    OBVIOUS
  <2>2. x = -1 \/ (x \in Node /\ x < cursor /\ MAX_DISK <= x)
    BY <1>0, <1>4, <2>1
  <2>3. ~(x \in Node /\ x < cursor /\ MAX_DISK <= x)
    <3> SUFFICES ASSUME x \in Node, x < cursor, MAX_DISK <= x PROVE FALSE
      OBVIOUS
    <3>1. x \in Nat
      BY <1>0
    <3> QED BY <1>0, <3>1
  <2> QED BY <2>1, <2>2, <2>3
<1> QED BY <1>5 DEF Ends, nth

(* In a table that continues another, the chains begin as they did. *)
LEMMA NodesKept ==
    ASSUME NEW table \in Table, NEW cursor \in 0..MAX_DISK, Sound(table, cursor), NEW h \in Node, h < cursor,
           NEW t, Continues(t, table, cursor),
           NEW i \in 0..(MAX_DISK - 1), Nth(table, h)[i] \in Node
    PROVE  /\ Nth(t, h)[i] = Nth(table, h)[i] /\ Nth(table, h)[i] < cursor
           /\ t[Nth(t, h)[i]].db_index = table[Nth(table, h)[i]].db_index
<1> DEFINE a == Nth(table, h)
           b == Nth(t, h)
           S == {k \in Nat : k < MAX_DISK /\ a[k] \in Node => b[k] = a[k] /\ a[k] < cursor}
<1>0. MAX_DISK \in Nat /\ cursor \in Nat /\ -1 \notin Node
  BY Numbers
<1>1. a[0] = h /\ \A k \in 1..MAX_DISK : a[k] = After(table, a[k - 1])
  BY NthSteps
<1>2. b[0] = h /\ \A k \in 1..MAX_DISK : b[k] = After(t, b[k - 1])
  BY NthSteps
<1>3. a[i] \in Node
  OBVIOUS
<1> HIDE DEF a, b
<1>4. 0 \in S
  BY <1>1, <1>2
<1>5. ASSUME NEW k \in Nat, k \in S PROVE k + 1 \in S
  <2> SUFFICES ASSUME k + 1 < MAX_DISK, a[k + 1] \in Node PROVE b[k + 1] = a[k + 1] /\ a[k + 1] < cursor
    OBVIOUS
  <2>1. k + 1 \in 1..MAX_DISK /\ k + 1 - 1 = k /\ k < MAX_DISK
    BY <1>0
  <2>2. PICK x, y : x = a[k] /\ y = a[k + 1]
    OBVIOUS
  <2>3. y = After(table, x) /\ y \in Node
    BY <1>1, <2>1, <2>2
  <2>4. x \in Node
    BY <2>3 DEF After
  <2>5. b[k] = x /\ x < cursor
    BY <1>5, <2>1, <2>2, <2>4
  <2>6. y = table[x].next /\ y # -1
    BY <1>0, <2>3, <2>4 DEF After
  <2>7. t[x].next = y /\ y < cursor
    BY <2>4, <2>5, <2>6 DEF Continues, Sound
  <2>8. b[k + 1] = After(t, x)
    BY <1>2, <2>1, <2>5
  <2> QED BY <2>2, <2>4, <2>7, <2>8 DEF After
<1>6. Nat \subseteq S
  <2> HIDE DEF S
  <2> QED BY <1>4, <1>5, Induction
<1>7. i \in Nat /\ i < MAX_DISK
  BY <1>0
<1>8. b[i] = a[i] /\ a[i] < cursor
  BY <1>3, <1>6, <1>7
<1>9. t[a[i]].db_index = table[a[i]].db_index
  BY <1>3, <1>8 DEF Continues
<1> QED BY <1>8, <1>9 DEF a, b

(* The file has a block, so its first node was allocated. *)
LEMMA HeadAllocated ==
    ASSUME NEW table \in Table, NEW cursor \in 0..MAX_DISK, Sound(table, cursor), NEW h \in Node,
           Located(table, h, 0)
    PROVE  h < cursor
<1>1. 0 \div BLOCK_SIZE = 0
  BY Numbers
<1>2. Nth(table, h)[0] = h
  BY NthSteps
<1>3. table[h].db_index \in DataBlock
  BY <1>1, <1>2 DEF Located, Place
<1>4. EMPTY \notin DataBlock /\ 0 \notin DataBlock
  BY Numbers
<1>5. ~(h >= cursor)
  BY <1>3, <1>4 DEF Sound
<1> QED BY <1>5, Numbers

(* What is located stays where it is when the table goes on. *)
LEMMA PlaceKept ==
    ASSUME NEW table \in Table, NEW cursor \in 0..MAX_DISK, Sound(table, cursor), NEW h \in Node, h < cursor,
           NEW t, Continues(t, table, cursor), NEW k \in Nat, Located(table, h, k)
    PROVE  /\ Located(t, h, k) /\ Place(t, h, k) = Place(table, h, k)
           /\ Nth(table, h)[k \div BLOCK_SIZE] < cursor
<1>1. PICK i : i = k \div BLOCK_SIZE
  OBVIOUS
<1>2. i \in 0..(MAX_DISK - 1) /\ Nth(table, h)[i] \in Node /\ table[Nth(table, h)[i]].db_index \in DataBlock
  BY <1>1 DEF Located, Place
<1>3. /\ Nth(t, h)[i] = Nth(table, h)[i] /\ Nth(table, h)[i] < cursor
      /\ t[Nth(t, h)[i]].db_index = table[Nth(table, h)[i]].db_index
  BY <1>2, NodesKept
<1> QED BY <1>1, <1>2, <1>3 DEF Located, Place

(* Flags and read pointers are no part of the contents. *)
LEMMA ContentsSame ==
    ASSUME Contents, Running, UNCHANGED <<disk, todo, opened_files, phase, fat, written, acked>>, SameDir(root', root)
    PROVE  Contents'
<1>1. root'.next_cursor = root.next_cursor
  BY DEF SameDir
<1>2. ASSUME NEW f \in Slot
      PROVE  /\ root'.table[f].name = root.table[f].name
             /\ root'.table[f].fat_index = root.table[f].fat_index
             /\ root'.table[f].size = root.table[f].size
             /\ root'.table[f].wr_ptr = root.table[f].wr_ptr
  BY DEF SameDir, SavedEntry
<1>3. /\ StoredRoot' = StoredRoot /\ StoredFat' = StoredFat /\ StoredList' = StoredList /\ Readable' = Readable
  BY DiskSame
<1>4. OnTheDisk(acked) /\ InMemory /\ Between /\ Ahead
  BY ZenonT(60) DEF Contents
<1>5. OnTheDisk(acked)'
  BY <1>3, <1>4 DEF OnTheDisk, Found, HasByte
<1>6. \A f \in Slot : Named(root', f) <=> Named(root, f)
  BY <1>2 DEF Named
<1>7. \A table, cursor, w : Apart(root, table, cursor, w) => Apart(root', table, cursor, w)
  BY <1>2, <1>6 DEF Apart, HeadsApart
<1>8. InMemory'
  <2>1. Full(root') /\ Handles'
    BY <1>1, <1>4, <1>6 DEF InMemory, Full, Handles
  <2>2. opened_files > 0 => Rooted(root', fat.table, fat.next_cursor)
    BY <1>2, <1>4, <1>6 DEF InMemory, Rooted
  <2>3. \A g \in Slot : g < opened_files =>
          /\ Named(root', g)
          /\ root'.table[g].wr_ptr = root'.table[g].size => Sized(root', fat.table, written, g)
    BY <1>2, <1>4, <1>6 DEF InMemory, Sized
  <2> QED BY <1>4, <1>7, <2>1, <2>2, <2>3 DEF InMemory
<1>9. Between'
  BY <1>2, <1>3, <1>4, <1>7 DEF Between
<1>10. Ahead'
  <2>1. \A h, f, k : Coming(fat.table, h, f, k) => Coming(fat.table, h, f, k)'
    BY DEF Coming, WillHold, Pending, HasByte
  <2>2. ASSUME NEW f \in Slot, written[f] > 0
        PROVE  /\ Named(root', f)
               /\ \A k \in 0..(written[f] - 1) : Coming(fat.table, root.table[f].fat_index, f, k)'
    <3>1. Named(root, f) /\ \A k \in 0..(written[f] - 1) : Coming(fat.table, root.table[f].fat_index, f, k)
      BY <1>4, <2>2 DEF Ahead
    <3>2. root'.table[f].fat_index = root.table[f].fat_index
      BY <1>2
    <3>3. PICK h : h = root.table[f].fat_index
      OBVIOUS
    <3>4. \A k \in 0..(written[f] - 1) : Coming(fat.table, h, f, k)'
      BY <2>1, <3>1, <3>3
    <3> QED BY <1>6, <3>1, <3>2, <3>3, <3>4
  <2> QED BY ZenonT(60), <2>2 DEF Ahead
<1> QED BY <1>5, <1>8, <1>9, <1>10 DEF Contents

(* The process is gone, and the disk is what it was. *)
LEMMA ContentsGone == ASSUME Contents, ~Running', UNCHANGED <<disk, acked>> PROVE Contents'
<1>1. /\ StoredRoot' = StoredRoot /\ StoredFat' = StoredFat /\ StoredList' = StoredList /\ Readable' = Readable
  BY DiskSame
<1>2. OnTheDisk(acked)
  BY SMTT(40) DEF Contents
<1>3. OnTheDisk(acked)'
  BY <1>1, <1>2 DEF OnTheDisk, Found, HasByte
<1> QED BY <1>3 DEF Contents

(* mksfs(1). *)
LEMMA FormatContents == ASSUME BootFresh PROVE Contents'
<1>1. /\ root' = ZeroRoot /\ fat' = FatOf(EMPTY, EMPTY) /\ todo' = Save /\ phase' = "busy" /\ opened_files' = 0
      /\ disk' = [a \in Address |-> ZeroBlock]
      /\ written' = [f \in Slot |-> 0] /\ acked' = [f \in Slot |-> 0]
  BY DEF BootFresh, Format
<1>2. 0 \in Address /\ 1 \in Address /\ MAX_DISK - 1 \in Address
  BY Numbers
<1>3. /\ disk'[0].kind = "zero" /\ disk'[1].kind = "zero" /\ disk'[MAX_DISK - 1].kind = "zero"
  BY <1>1, <1>2 DEF ZeroBlock
<1>4. StoredRoot' = ZeroRoot /\ StoredFat' = FatOf(0, 0) /\ Readable'
  BY <1>3 DEF StoredRoot, StoredFat, Stored, Readable
<1>5. \A f \in Slot : ~Named(ZeroRoot, f) /\ ~(f < ZeroRoot.next_cursor) /\ ~(f < 0)
  BY Numbers DEF Named, ZeroRoot, ZeroEntry, Slot
<1>6. \A n \in Node : ~(n < 0)
  BY Numbers DEF Node
<1>7. FatOf(EMPTY, EMPTY).next_cursor = 0 /\ FatOf(0, 0).next_cursor = 0
  BY DEF FatOf
<1>8. \A table, w : Apart(ZeroRoot, table, 0, w) /\ BlocksApart(table, 0)
  BY <1>5, <1>6 DEF Apart, HeadsApart, BlocksApart
<1>9. Full(ZeroRoot)
  BY <1>5 DEF Full
<1>10. \A f \in Slot : ~(acked'[f] > 0) /\ ~(written'[f] > 0) /\ acked'[f] <= written'[f]
  BY <1>1
<1>11. OnTheDisk(acked)'
  BY <1>4, <1>7, <1>8, <1>9, <1>10 DEF OnTheDisk
<1>12. InMemory'
  BY <1>1, <1>5, <1>7, <1>8, <1>9 DEF InMemory, Handles, ZeroRoot
<1>13. \A i \in 1..Len(todo') : todo'[i].kind # "data"
  <2>1. \A i \in 1..3 : Save[i].kind # "data"
    BY SaveList
  <2> QED BY <1>1, <2>1, SaveList
<1>14. Between'
  BY <1>1, <1>4, <1>6, <1>7, <1>8, <1>10, <1>13 DEF Between, Continues
<1>15. Ahead'
  BY <1>10 DEF Ahead
<1> QED BY <1>11, <1>12, <1>14, <1>15 DEF Contents

(* mksfs(0) in a process that starts. *)
LEMMA BootContents == ASSUME IInv, Contents, Boot PROVE Contents'
<1>1. /\ phase = "off" /\ opened_files' = 0 /\ written' = acked /\ acked' = acked /\ Load
  BY DEF Boot
<1>2. /\ root' = StoredRoot /\ fat' = StoredFat /\ UNCHANGED <<disk, todo>>
      /\ phase' = (IF Readable THEN "idle" ELSE "undefined")
  BY <1>1, LoadEffect DEF IInv
<1>3. todo = <<>> /\ Len(todo) = 0
  BY <1>1, EmptySeq DEF IInv, TodoInv
<1>4. /\ StoredRoot' = StoredRoot /\ StoredFat' = StoredFat /\ StoredList' = StoredList /\ Readable' = Readable
  BY <1>2, DiskSame
<1>5. OnTheDisk(acked)
  BY ZenonT(60) DEF Contents
<1>6. OnTheDisk(acked)'
  BY <1>1, <1>2, <1>4, <1>5 DEF OnTheDisk, Found, HasByte
<1>7. phase' = "idle"
  BY <1>2, <1>5 DEF OnTheDisk
<1>8. StoredRoot \in Directory /\ StoredFat \in Chains /\ acked \in [Slot -> Nat]
  BY StoredTypes DEF IInv, Types
<1>9. InMemory'
  <2>1. 0 <= StoredRoot.next_cursor /\ \A g \in Slot : ~(g < 0)
    BY <1>8 DEF Directory, Slot
  <2>2. Handles'
    BY <1>1, <1>2, <2>1 DEF Handles
  <2> QED BY <1>1, <1>2, <1>5, <2>1, <2>2 DEF InMemory, OnTheDisk
<1>10. Between'
  <2>1. \A f \in Slot : acked[f] <= acked[f]
    BY <1>8
  <2>2. StoredFat.next_cursor <= StoredFat.next_cursor
    BY <1>8, Numbers DEF Chains
  <2>3. Continues(StoredFat.table, StoredFat.table, StoredFat.next_cursor)
    BY DEF Continues
  <2> QED BY <1>1, <1>2, <1>3, <1>4, <2>1, <2>2, <2>3 DEF Between
<1>11. Ahead'
  <2>1. \A b : Pending(b)' = {}
    BY <1>2, <1>3 DEF Pending
  <2>2. \A table, h, f, k : Found(table, h, f, k) => Coming(table, h, f, k)'
    BY <1>2, <2>1 DEF Found, Coming, WillHold, HasByte
  <2> QED BY <1>1, <1>2, <1>5, <2>2 DEF Ahead, OnTheDisk
<1> QED BY <1>6, <1>9, <1>10, <1>11 DEF Contents

(* A byte that is on the disk already is where memory has it, too. *)
LEMMA SamePlace ==
    ASSUME IInv, Contents, Running, NEW f \in Slot, NEW k \in 0..(acked[f] - 1)
    PROVE  /\ acked[f] > 0 /\ k \in 0..(written[f] - 1) /\ k \in Nat
           /\ StoredRoot.table[f].fat_index = root.table[f].fat_index
           /\ Found(StoredFat.table, StoredRoot.table[f].fat_index, f, k)
           /\ Coming(fat.table, root.table[f].fat_index, f, k)
           /\ Place(StoredFat.table, StoredRoot.table[f].fat_index, k) = Place(fat.table, root.table[f].fat_index, k)
<1>1. OnTheDisk(acked) /\ Between /\ Ahead
  BY DEF Contents
<1>2. acked[f] \in Nat /\ written[f] \in Nat /\ root.table[f].fat_index \in Node
  BY DEF IInv, Types, Directory, Entry
<1>3. acked[f] > 0 /\ k \in Nat /\ acked[f] <= written[f]
  BY <1>1, <1>2 DEF Between
<1>4. k \in 0..(written[f] - 1) /\ written[f] > 0 /\ 0 \in 0..(acked[f] - 1)
  BY <1>2, <1>3
<1>5. PICK h \in Node : h = root.table[f].fat_index /\ h = StoredRoot.table[f].fat_index
  BY <1>1, <1>2, <1>3 DEF Between
<1>6. Found(StoredFat.table, h, f, k) /\ Found(StoredFat.table, h, f, 0)
  BY <1>1, <1>3, <1>4, <1>5 DEF OnTheDisk
<1>7. Coming(fat.table, h, f, k)
  BY <1>1, <1>4, <1>5 DEF Ahead
<1>8. PICK tb, cu : tb = StoredFat.table /\ cu = StoredFat.next_cursor
  OBVIOUS
<1>9. tb \in Table /\ cu \in 0..MAX_DISK /\ Sound(tb, cu) /\ Continues(fat.table, tb, cu)
  BY <1>1, <1>8, StoredTypes, StoredSound DEF IInv, Chains, Between, OnTheDisk
<1>10. Located(tb, h, 0) /\ Located(tb, h, k)
  BY <1>6, <1>8 DEF Found
<1>11. h < cu
  BY <1>9, <1>10, HeadAllocated
<1>12. Place(fat.table, h, k) = Place(tb, h, k)
  BY <1>3, <1>9, <1>10, <1>11, PlaceKept
<1> QED BY <1>3, <1>4, <1>5, <1>6, <1>7, <1>8, <1>12

(* A block of data reaches the disk: it has what it must. *)
LEMMA DataReaches ==
    ASSUME IInv, Contents, Flush, Len(todo) > 3
    PROVE  /\ \A x \in Address \ DataBlock : disk'[x] = disk[x]
           /\ \A x \in DataBlock : \A j, v : WillHold(x, j, v) => WillHold(x, j, v)'
           /\ \A x \in DataBlock : \A j, v : WillHold(x, j, v) /\ HasByte(x, j, v) => HasByte(x, j, v)'
<1>1. /\ phase = "busy" /\ Len(todo) \in Nat \ {0} /\ Len(todo') = Len(todo) - 1
      /\ \A k \in 1..Len(todo') : todo'[k] = todo[k + 1]
      /\ WriteBlock(todo[1].at, Image(todo[1])) /\ todo[1] \in DataWrite
  BY FlushFacts
<1>2. todo[1].kind = "data" /\ Image(todo[1]) = Data(todo[1].bytes)
  BY <1>1 DEF DataWrite, Image
<1>3. PICK b \in DataBlock : b = todo[1].at
  <2>1. Between /\ 1 \in 1..Len(todo)
    BY <1>1 DEF Contents, Running
  <2> QED BY <1>2, <2>1 DEF Between
<1>4. b \in Address /\ b \in Int /\ DataBlock \subseteq Address
  BY Numbers, FlushDisk, <1>3
<1>5. disk'[b] = Data(todo[1].bytes) /\ \A x \in Address \ {b} : disk'[x] = disk[x]
  <2>1. PICK block : block = Image(todo[1])
    OBVIOUS
  <2>2. WriteBlock(b, block) /\ Types
    BY <1>1, <1>3, <2>1 DEF IInv
  <2> QED BY <1>2, <1>4, <2>1, <2>2, WriteEffect
<1>6. ASSUME NEW x, NEW i \in Pending(x)' PROVE i + 1 \in Pending(x) /\ todo'[i] = todo[i + 1]
  BY <1>1 DEF Pending
<1>7. ASSUME NEW x, NEW i \in Pending(x), x # b PROVE i - 1 \in Pending(x)'
  <2>1. i \in 1..Len(todo) /\ todo[i].kind = "data" /\ todo[i].at = x /\ i # 1
    BY <1>3, <1>7 DEF Pending
  <2>2. i - 1 \in 1..Len(todo') /\ (i - 1) + 1 = i
    BY <1>1, <2>1
  <2>3. todo'[i - 1] = todo[i]
    <3>1. PICK l : l = i - 1
      OBVIOUS
    <3>2. l \in 1..Len(todo') /\ l + 1 = i
      BY <2>2, <3>1
    <3> QED BY <1>1, <3>1, <3>2
  <2> QED BY <2>1, <2>2, <2>3 DEF Pending
<1>8. 1 \in Pending(b)
  BY <1>1, <1>2, <1>3 DEF Pending
<1>9. \A j, v : WillHold(b, j, v) => HasByte(b, j, v)'
  BY <1>5, <1>8 DEF WillHold, HasByte, Data
<1>10. ASSUME NEW x \in DataBlock, NEW j, NEW v, HasByte(x, j, v), WillHold(x, j, v) PROVE HasByte(x, j, v)'
  <2>1. x # b => disk'[x] = disk[x]
    BY <1>4, <1>5
  <2> QED BY <1>9, <1>10, <2>1 DEF HasByte
<1>11. ASSUME NEW x \in DataBlock, NEW j, NEW v, WillHold(x, j, v) PROVE WillHold(x, j, v)'
  <2>1. \A i \in Pending(x)' : todo'[i].bytes[j] = v
    BY <1>6, <1>11 DEF WillHold
  <2>2. Pending(x)' # {} \/ HasByte(x, j, v)'
    <3>1. CASE x = b
      BY <1>9, <1>11, <3>1
    <3>2. CASE x # b /\ Pending(x) # {}
      BY <1>7, <3>2
    <3>3. CASE HasByte(x, j, v)
      BY <1>10, <1>11, <3>3
    <3> QED BY <1>11, <3>1, <3>2, <3>3 DEF WillHold
  <2> QED BY <2>1, <2>2 DEF WillHold
<1> QED BY <1>4, <1>5, <1>10, <1>11

(* One block write keeps the contents. *)
LEMMA FlushContents == ASSUME IInv, Contents, Flush PROVE Contents'
<1>0. /\ 0 \in Address \ DataBlock /\ 1 \in Address \ DataBlock /\ MAX_DISK - 1 \in Address \ DataBlock
      /\ 0 # 1 /\ 0 # MAX_DISK - 1 /\ 1 # MAX_DISK - 1 /\ DataBlock \subseteq Address
  BY Numbers
<1>1. /\ UNCHANGED <<root, fat, opened_files, written>> /\ phase = "busy" /\ Len(todo) \in Nat \ {0}
      /\ Len(todo') = Len(todo) - 1 /\ (todo' = <<>> <=> Len(todo) = 1)
      /\ phase' = (IF Len(todo) = 1 THEN "idle" ELSE "busy")
      /\ \A k \in 1..Len(todo') : todo'[k] = todo[k + 1]
      /\ Len(todo) > 3 \/ Len(todo) = 3 \/ Len(todo) = 2 \/ Len(todo) = 1
  BY FlushFacts
<1>2. acked' = IF Len(todo) = 1 THEN written ELSE acked
  BY <1>1 DEF Flush
<1>3. Running /\ Running' /\ OnTheDisk(acked) /\ InMemory /\ Between /\ Ahead
  BY <1>1 DEF Running, Contents
<1>4. acked \in [Slot -> Nat] /\ written \in [Slot -> Nat] /\ \A f \in Slot : acked[f] <= written[f]
  BY <1>3 DEF IInv, Types, Between
<1>5. InMemory'
  BY <1>1, <1>3 DEF InMemory, Handles
<1>6. \A i \in 1..Len(todo') : todo'[i].kind = "data" => todo'[i].at \in DataBlock
  <2> SUFFICES ASSUME NEW i \in 1..Len(todo') PROVE todo'[i].kind = "data" => todo'[i].at \in DataBlock
    OBVIOUS
  <2>1. i + 1 \in 1..Len(todo) /\ todo'[i] = todo[i + 1]
    BY <1>1
  <2> QED BY <1>3, <2>1 DEF Between
<1>7. CASE Len(todo) > 3
  <2>1. /\ \A x \in Address \ DataBlock : disk'[x] = disk[x]
        /\ \A x \in DataBlock : \A j, v : WillHold(x, j, v) => WillHold(x, j, v)'
        /\ \A x \in DataBlock : \A j, v : WillHold(x, j, v) /\ HasByte(x, j, v) => HasByte(x, j, v)'
    BY <1>7, DataReaches
  <2>2. disk'[0] = disk[0] /\ disk'[1] = disk[1] /\ disk'[MAX_DISK - 1] = disk[MAX_DISK - 1]
    BY <1>0, <2>1
  <2>3. StoredRoot' = StoredRoot /\ StoredFat' = StoredFat /\ Readable' = Readable
    BY <2>2 DEF StoredRoot, StoredFat, Stored, Readable
  <2>4. acked' = acked /\ phase' = "busy" /\ Len(todo) >= 3
    BY <1>1, <1>2, <1>7
  <2>5. ASSUME NEW f \in Slot, NEW k \in 0..(acked[f] - 1)
        PROVE  Found(StoredFat.table, StoredRoot.table[f].fat_index, f, k)'
    <3>1. PICK h, g, p : /\ h = StoredRoot.table[f].fat_index /\ g = root.table[f].fat_index
                         /\ p = Place(StoredFat.table, h, k)
      OBVIOUS
    <3>2. Found(StoredFat.table, h, f, k) /\ Coming(fat.table, g, f, k) /\ p = Place(fat.table, g, k)
      BY <1>3, <3>1, SamePlace
    <3>3. HasByte(p, (k % BLOCK_SIZE) + 1, <<f, k>>) /\ WillHold(p, (k % BLOCK_SIZE) + 1, <<f, k>>)
      BY <3>1, <3>2 DEF Found, Coming
    <3>4. p \in DataBlock /\ Located(StoredFat.table, h, k)
      BY <3>1, <3>2 DEF Found, Located
    <3>5. HasByte(p, (k % BLOCK_SIZE) + 1, <<f, k>>)'
      BY <2>1, <3>3, <3>4
    <3> QED BY <2>3, <3>1, <3>4, <3>5 DEF Found
  <2>6. OnTheDisk(acked)'
    BY <1>3, <2>2, <2>3, <2>4, <2>5 DEF OnTheDisk
  <2>7. Between'
    BY <1>1, <1>3, <1>6, <2>3, <2>4 DEF Between
  <2>8. \A h, f, k : Coming(fat.table, h, f, k) => Coming(fat.table, h, f, k)'
    BY <1>1, <2>1 DEF Coming, Located
  <2>9. Ahead'
    BY <1>1, <1>3, <2>8 DEF Ahead
  <2> QED BY <1>5, <2>6, <2>7, <2>9 DEF Contents
<1>8. CASE Len(todo) \in 1..3
  <2>1. \A i \in 1..Len(todo) : todo[i].kind # "data"
    <3> SUFFICES ASSUME NEW i \in 1..Len(todo) PROVE todo[i].kind # "data"
      OBVIOUS
    <3>1. ~(i <= Len(todo) - 3) /\ i - Len(todo) + 3 \in 1..3
      <4>1. PICK n \in 1..3 : n = Len(todo)
        BY <1>8
      <4>2. i \in Int /\ 1 <= i /\ i <= n
        BY <4>1
      <4>3. ~(i <= n - 3) /\ i - n + 3 \in 1..3
        BY <4>1, <4>2
      <4> QED BY <4>1, <4>3
    <3>2. todo[i] = Save[i - Len(todo) + 3]
      BY <3>1 DEF IInv, TodoInv
    <3>3. \A l \in 1..3 : Save[l].kind # "data"
      BY SaveList
    <3> QED BY <3>1, <3>2, <3>3
  <2>2. \A x : Pending(x) = {}
    BY <2>1 DEF Pending
  <2>3. \A x : Pending(x)' = {}
    <3> SUFFICES ASSUME NEW i \in 1..Len(todo') PROVE todo'[i].kind # "data"
      BY DEF Pending
    <3>1. i + 1 \in 1..Len(todo) /\ todo'[i] = todo[i + 1]
      BY <1>1
    <3> QED BY <2>1, <3>1
  <2>4. \A x \in DataBlock : disk'[x] = disk[x]
    BY <1>0, <1>8, FlushDisk
  <2>5. \A x \in DataBlock : \A j, v : HasByte(x, j, v)' = HasByte(x, j, v)
    BY <2>4 DEF HasByte
  <2>6. \A table, h, f, k : Found(table, h, f, k) => Found(table, h, f, k)'
    BY <2>5 DEF Found, Located
  <2>7. \A table, h, f, k : Coming(table, h, f, k) => Found(table, h, f, k)' /\ Coming(table, h, f, k)'
    BY <2>2, <2>3, <2>5 DEF Coming, Found, WillHold, Located
  <2>8. Ahead'
    BY <1>1, <1>3, <2>7 DEF Ahead
  <2>9. CASE Len(todo) = 3
    <3>1. disk'[0] = [kind |-> "root", content |-> root] /\ disk'[1] = disk[1] /\ disk'[MAX_DISK - 1] = disk[MAX_DISK - 1]
      BY <1>0, <2>9, FlushDisk
    <3>2. StoredRoot' = root /\ StoredFat' = StoredFat /\ Readable' /\ disk'[0].kind = "root"
      BY <1>3, <3>1 DEF StoredRoot, StoredFat, Stored, Readable, OnTheDisk
    <3>3. acked' = acked /\ phase' = "busy" /\ ~(Len(todo') >= 3)
      BY <1>1, <1>2, <2>9
    <3>4. ASSUME NEW f \in Slot, acked[f] > 0
          PROVE  /\ Named(root, f) /\ disk[1].kind = "fat"
                 /\ \A k \in 0..(acked[f] - 1) : Found(StoredFat.table, root.table[f].fat_index, f, k)
      <4>1. written[f] > 0
        BY <1>4, <3>4
      <4>2. Named(root, f) /\ disk[1].kind = "fat"
        BY <1>3, <3>4, <4>1 DEF Ahead, OnTheDisk
      <4> QED BY <1>3, <4>2, SamePlace
    <3>5. ASSUME NEW f \in Slot, acked[f] > 0, NEW k \in 0..(acked[f] - 1)
          PROVE  Found(StoredFat.table, StoredRoot.table[f].fat_index, f, k)'
      <4>1. PICK tb, h : tb = StoredFat.table /\ h = root.table[f].fat_index
        OBVIOUS
      <4>2. Found(tb, h, f, k)'
        BY <2>6, <3>4, <3>5, <4>1
      <4> QED BY <1>1, <3>2, <4>1, <4>2
    <3>6. Apart(root, StoredFat.table, StoredFat.next_cursor, acked)
      BY <1>3, <2>9 DEF Between
    <3>7. OnTheDisk(acked)'
      BY <1>1, <1>3, <3>1, <3>2, <3>3, <3>4, <3>5, <3>6 DEF OnTheDisk, InMemory
    <3>8. Between'
      BY <1>1, <1>3, <1>6, <3>2, <3>3 DEF Between
    <3> QED BY <1>5, <2>8, <3>7, <3>8 DEF Contents
  <2>10. CASE Len(todo) = 2 \/ Len(todo) = 1
    <3>1. disk[0] = [kind |-> "root", content |-> root]
      BY <1>1, <2>10 DEF IInv, TodoInv
    <3>2. /\ disk'[0] = [kind |-> "root", content |-> root] /\ disk'[1] = [kind |-> "fat", content |-> fat]
          /\ disk'[MAX_DISK - 1] = disk[MAX_DISK - 1] \/ disk'[MAX_DISK - 1] = [kind |-> "freebl", content |-> freebl]
      <4>1. CASE Len(todo) = 2
        BY <1>0, <3>1, <4>1, FlushDisk
      <4>2. CASE Len(todo) = 1
        <5>1. disk[1] = [kind |-> "fat", content |-> fat]
          BY <1>1, <4>2 DEF IInv, TodoInv
        <5> QED BY <1>0, <3>1, <4>2, <5>1, FlushDisk
      <4> QED BY <2>10, <4>1, <4>2
    <3>3. StoredRoot' = root /\ StoredFat' = fat /\ Readable' /\ disk'[0].kind = "root" /\ disk'[1].kind = "fat"
      BY <1>3, <3>2 DEF StoredRoot, StoredFat, Stored, Readable, OnTheDisk
    <3>4. /\ acked' \in [Slot -> Nat] /\ (\A f \in Slot : acked'[f] <= written[f])
          /\ (phase' = "idle" => acked' = written) /\ ~(Len(todo') >= 3)
      <4>1. \A f \in Slot : written[f] <= written[f]
        BY <1>4
      <4> QED BY SMTT(40), <1>1, <1>2, <1>4, <2>10, <4>1
    <3>5. ASSUME NEW f \in Slot, acked'[f] > 0
          PROVE  /\ Named(root, f)
                 /\ \A k \in 0..(acked'[f] - 1) : Coming(fat.table, root.table[f].fat_index, f, k)
      <4>1. PICK m \in Nat, n \in Nat : m = acked'[f] /\ n = written[f] /\ m <= n
        BY <1>4, <3>4
      <4>2. n > 0 /\ \A k \in 0..(m - 1) : k \in 0..(n - 1)
        BY <3>5, <4>1
      <4> QED BY <1>3, <4>1, <4>2 DEF Ahead
    <3>6. ASSUME NEW f \in Slot, acked'[f] > 0, NEW k \in 0..(acked'[f] - 1)
          PROVE  Found(StoredFat.table, StoredRoot.table[f].fat_index, f, k)'
      <4>1. PICK tb, h : tb = fat.table /\ h = root.table[f].fat_index
        OBVIOUS
      <4>2. Found(tb, h, f, k)'
        BY <2>7, <3>5, <3>6, <4>1
      <4> QED BY <1>1, <3>3, <4>1, <4>2
    <3>7. Apart(root, fat.table, fat.next_cursor, acked')
      <4>1. Apart(root, fat.table, fat.next_cursor, written)
        BY <1>3 DEF InMemory
      <4>2. \A f \in Slot : written[f] = 0 => acked'[f] = 0
        BY <1>4, <3>4
      <4> QED BY <4>1, <4>2 DEF Apart
    <3>8. OnTheDisk(acked)'
      BY <1>1, <1>3, <3>3, <3>5, <3>6, <3>7 DEF OnTheDisk, InMemory
    <3>9. Between'
      <4>1. fat.next_cursor <= fat.next_cursor
        BY Numbers DEF IInv, Types, Chains
      <4>2. Continues(fat.table, fat.table, fat.next_cursor)
        BY DEF Continues
      <4> QED BY <1>1, <1>6, <3>3, <3>4, <4>1, <4>2 DEF Between
    <3> QED BY <1>5, <2>8, <3>8, <3>9 DEF Contents
  <2> QED BY <1>8, <2>9, <2>10
<1> QED BY <1>1, <1>7, <1>8

(* A chain of one node. *)
LEMMA SoleNode ==
    ASSUME NEW table, NEW h \in Node, table[h].next = -1
    PROVE  Ends(table, h) /\ ChainLength(table, h) = 1
<1> DEFINE one == [k \in 0..0 |-> h]
<1>1. one[0] = h /\ 1 \in 1..MAX_DISK /\ (\A k \in 0..(1 - 1) : k = 0) /\ 0..(1 - 2) = {} /\ 1 - 1 = 0
  BY Numbers
<1> HIDE DEF one
<1>2. Follows(table, h, one, 1)
  BY <1>1 DEF Follows
<1> QED BY <1>2, ChainIs

(* The sizes and pointers of the entries of a new file. *)
LEMMA EntrySizes ==
    ASSUME NEW table \in [Slot -> Entry], NEW f \in Slot, NEW e \in Slot, NEW name \in Name, NEW c \in Node, NEW t,
           t = Made(table, f, e, name, c)
    PROVE  /\ t[e].size = 0 /\ (f = e => t[e].wr_ptr = 0) /\ (f # e => t[f].wr_ptr = 0)
           /\ \A g \in Slot \ {e} : t[g].size = table[g].size
           /\ \A g \in Slot \ {e, f} : t[g].wr_ptr = table[g].wr_ptr
<1>1. PICK u : u = [table EXCEPT ![f] = Descriptor(@, name)]
  OBVIOUS
<1>2. ASSUME NEW x \in Entry
      PROVE  /\ Descriptor(x, name) \in Entry
             /\ Descriptor(x, name).wr_ptr = 0 /\ Descriptor(x, name).size = x.size
  BY DEF Descriptor, Entry
<1>3. ASSUME NEW x \in Entry
      PROVE  FileEntry(x, name, c).size = 0 /\ FileEntry(x, name, c).wr_ptr = x.wr_ptr
  BY Numbers DEF FileEntry, Entry
<1>4. /\ u \in [Slot -> Entry] /\ u[f].wr_ptr = 0
      /\ \A g \in Slot : u[g].size = table[g].size
      /\ \A g \in Slot \ {f} : u[g] = table[g]
  BY <1>1, <1>2
<1>5. t = [u EXCEPT ![e] = FileEntry(@, name, c)]
  BY <1>1 DEF Made
<1>6. t[e] = FileEntry(u[e], name, c) /\ u[e] \in Entry /\ \A g \in Slot \ {e} : t[g] = u[g]
  BY <1>4, <1>5
<1> QED BY <1>3, <1>4, <1>6

(* What sfs_open of a new file does to the tables, when it misplaces nothing. *)
LEMMA CreateEffect ==
    ASSUME IInv, NEW name \in Name, Create(name), ~misplaced', Running'
    PROVE  \E f \in Slot, c \in Node, e \in Slot, db \in DataBlock \cup {-1} :
              /\ phase = "idle" /\ phase' = "busy" /\ todo' = Save /\ UNCHANGED disk
              /\ f = opened_files /\ c = fat.next_cursor /\ e = root.next_cursor
              /\ opened_files' = f + 1
              /\ fat'.next_cursor = c + 1
              /\ fat'.table \in Table /\ fat'.table[c].db_index = db /\ fat'.table[c].next = -1
              /\ \A n \in Node \ {c} : fat'.table[n] = fat.table[n]
              /\ db # -1 => \A n \in Node : fat.table[n].db_index # db
              /\ \A g \in Slot : Named(root, g) => root.table[g].fat_index # c
              /\ root'.table = Made(root.table, f, e, name, c)
              /\ root'.next_cursor # e + 1 => e + 1 = MAX_FILE
              /\ written' = [written EXCEPT ![e] = 0] /\ acked' = [acked EXCEPT ![e] = 0]
<1>1. /\ root \in Directory /\ fat \in Chains /\ freebl \in List /\ root.table \in [Slot -> Entry] /\ fat.table \in Table
      /\ opened_files \in 0..MAX_FILE /\ root.next_cursor \in Slot
  BY DEF IInv, Types, Directory, Chains
<1> DEFINE f == opened_files
           c == fat.next_cursor
           e == root.next_cursor
           db == FreeBlock(freebl)
           ft == [fat.table EXCEPT ![c] = [db_index |-> db, next |-> -1]]
           rt == [[root.table EXCEPT ![f] = Descriptor(@, name)] EXCEPT ![e] = FileEntry(@, name, c)]
<1>2. /\ phase = "idle"
      /\ \/ Lost("undefined")
         \/ Stop
         \/ /\ f \in Slot /\ c \in Node /\ NextEntry(rt, e) # MAX_FILE
            /\ fat' = [table |-> ft, next_cursor |-> NextCursor(ft, c)]
            /\ root' = [table |-> rt, next_cursor |-> NextEntry(rt, e)]
            /\ opened_files' = f + 1 /\ todo' = Save /\ phase' = "busy"
            /\ written' = [written EXCEPT ![e] = 0] /\ acked' = [acked EXCEPT ![e] = 0]
            /\ misplaced' = (misplaced \/ InUse(db) \/ \E g \in Files : root.table[g].fat_index = c)
            /\ UNCHANGED disk
  BY DEF Create, diskVars
<1> HIDE DEF ft, rt
<1>3. ~Lost("undefined") /\ ~Stop
  BY DEF Lost, Stop, Running
<1>4. /\ f \in Slot /\ c \in Node /\ NextEntry(rt, e) # MAX_FILE
      /\ fat' = [table |-> ft, next_cursor |-> NextCursor(ft, c)]
      /\ root' = [table |-> rt, next_cursor |-> NextEntry(rt, e)]
      /\ opened_files' = f + 1 /\ todo' = Save /\ phase' = "busy"
      /\ written' = [written EXCEPT ![e] = 0] /\ acked' = [acked EXCEPT ![e] = 0]
      /\ ~InUse(db) /\ ~\E g \in Files : root.table[g].fat_index = c
      /\ UNCHANGED disk
  BY <1>2, <1>3
<1>5. db \in DataBlock \cup {-1}
  BY <1>1, FreeBlockType
<1>6. ft \in Table /\ ft[c].db_index = db /\ ft[c].next = -1 /\ \A n \in Node \ {c} : ft[n] = fat.table[n]
  <2>1. [db_index |-> db, next |-> -1] \in NodeEntry
    BY <1>5 DEF NodeEntry
  <2> QED BY <1>1, <1>4, <2>1 DEF ft, Table
<1>7. NextCursor(ft, c) = c + 1
  <2>1. Sound(fat.table, c)
    BY <1>2 DEF IInv, DiskInv, Running
  <2>2. ASSUME NEW n \in Node, n <= c PROVE ft[n].db_index # EMPTY
    <3>1. CASE n = c
      BY <1>5, <1>6, <3>1, Numbers
    <3>2. CASE n # c
      <4>1. n < c
        <5>1. n \in Nat /\ c \in Nat
          BY <1>4, Numbers
        <5> QED BY <2>2, <3>2, <5>1
      <4>2. fat.table[n].db_index \in DataBlock \cup {-1}
        BY <2>1, <4>1 DEF Sound
      <4> QED BY <1>6, <3>2, <4>2, Numbers
    <3> QED BY <3>1, <3>2
  <2> QED BY <1>4, <1>6, <2>2, NextCursorFound
<1>8. rt = Made(root.table, f, e, name, c)
  BY DEF rt, Made
<1>9. rt \in [Slot -> Entry]
  <2> DEFINE tb == root.table
  <2>1. tb \in [Slot -> Entry] /\ f \in Slot /\ e \in Slot /\ c \in Node /\ rt = Made(tb, f, e, name, c)
    BY <1>1, <1>4, <1>8
  <2> HIDE DEF f, c, e, tb
  <2> QED BY <2>1, EntryMade
<1>10. NextEntry(rt, e) # e + 1 => e + 1 = MAX_FILE
  BY <1>1, <1>9, NextEntryFound
<1>11. db # -1 => \A n \in Node : fat.table[n].db_index # db
  BY <1>4 DEF InUse
<1>12. \A g \in Slot : Named(root, g) => root.table[g].fat_index # c
  BY <1>4 DEF Files, Named
<1> HIDE DEF db
<1> QED BY ZenonT(60), <1>1, <1>2, <1>4, <1>5, <1>6, <1>7, <1>8, <1>10, <1>11, <1>12

(* sfs_open of a new file: none of its bytes is written, and no other file moves. *)
LEMMA CreateContents == ASSUME IInv, Contents, NEW name \in Name, Create(name), ~misplaced' PROVE Contents'
<1>1. /\ Types /\ TodoInv /\ DiskInv
      /\ root \in Directory /\ fat \in Chains /\ root.table \in [Slot -> Entry] /\ fat.table \in Table
      /\ written \in [Slot -> Nat] /\ acked \in [Slot -> Nat]
  BY DEF IInv, Types, Directory, Chains
<1>2. CASE ~Running'
  <2>1. UNCHANGED <<disk, acked>>
    BY <1>2 DEF Create, Lost, diskVars, Running
  <2> QED BY <1>2, <2>1, ContentsGone
<1>3. CASE Running'
  <2>1. PICK f \in Slot, c \in Node, e \in Slot, db \in DataBlock \cup {-1} :
              /\ phase = "idle" /\ phase' = "busy" /\ todo' = Save /\ UNCHANGED disk
              /\ f = opened_files /\ c = fat.next_cursor /\ e = root.next_cursor
              /\ opened_files' = f + 1
              /\ fat'.next_cursor = c + 1
              /\ fat'.table \in Table /\ fat'.table[c].db_index = db /\ fat'.table[c].next = -1
              /\ \A n \in Node \ {c} : fat'.table[n] = fat.table[n]
              /\ db # -1 => \A n \in Node : fat.table[n].db_index # db
              /\ \A g \in Slot : Named(root, g) => root.table[g].fat_index # c
              /\ root'.table = Made(root.table, f, e, name, c)
              /\ root'.next_cursor # e + 1 => e + 1 = MAX_FILE
              /\ written' = [written EXCEPT ![e] = 0] /\ acked' = [acked EXCEPT ![e] = 0]
    BY <1>3, CreateEffect
  <2>2. PICK tb, t, d, r : tb = fat.table /\ t = fat'.table /\ d = root /\ r = root'
    OBVIOUS
  <2>3. /\ OnTheDisk(acked) /\ InMemory /\ Between /\ Ahead
        /\ todo = <<>> /\ StoredFat = fat /\ acked = written
    BY <1>1, <2>1 DEF Contents, Running, TodoInv, Between
  <2>4. /\ c \in Nat /\ c \in 0..MAX_DISK /\ c + 1 \in 0..MAX_DISK /\ Sound(tb, c) /\ tb \in Table /\ t \in Table
        /\ d \in Directory /\ d.table \in [Slot -> Entry] /\ e = d.next_cursor
        /\ \A n \in Node \ {c} : t[n] = tb[n]
        /\ t[c].next = -1 /\ t[c].db_index = db
    BY SMTT(40), <1>1, <2>1, <2>2, Numbers DEF DiskInv, Running, Node
  <2>5. r \in Directory /\ Sound(t, c + 1)
    <3>1. IInv'
      BY CreateKeeps
    <3>2. root' \in Directory /\ Sound(fat'.table, fat'.next_cursor)
      BY <1>3, <3>1 DEF IInv, Types, DiskInv
    <3> QED BY <2>1, <2>2, <3>2
  <2>6. /\ r.table[f].name = name /\ r.table[e].name = name /\ r.table[e].fat_index = c
        /\ \A g \in Slot \ {e} : r.table[g].fat_index = d.table[g].fat_index
        /\ \A g \in Slot \ {e, f} : r.table[g].name = d.table[g].name
        /\ r.table[e].size = 0 /\ (f = e => r.table[e].wr_ptr = 0) /\ (f # e => r.table[f].wr_ptr = 0)
        /\ \A g \in Slot \ {e} : r.table[g].size = d.table[g].size
        /\ \A g \in Slot \ {e, f} : r.table[g].wr_ptr = d.table[g].wr_ptr
        /\ r.next_cursor # e + 1 => e + 1 = MAX_FILE
    <3>1. PICK x, y : x = d.table /\ y = r.table
      OBVIOUS
    <3>2. x \in [Slot -> Entry] /\ y = Made(x, f, e, name, c)
      BY <2>1, <2>2, <2>4, <3>1
    <3>3. /\ y[f].name = name /\ y[e].name = name /\ y[e].fat_index = c
          /\ \A g \in Slot \ {e} : y[g].fat_index = x[g].fat_index
          /\ \A g \in Slot \ {e, f} : y[g].name = x[g].name
      BY <3>2, EntryMade
    <3>4. /\ y[e].size = 0 /\ (f = e => y[e].wr_ptr = 0) /\ (f # e => y[f].wr_ptr = 0)
          /\ \A g \in Slot \ {e} : y[g].size = x[g].size
          /\ \A g \in Slot \ {e, f} : y[g].wr_ptr = x[g].wr_ptr
      BY <3>2, EntrySizes
    <3> QED BY <2>1, <2>2, <3>1, <3>3, <3>4
  <2>7. /\ Full(d) /\ ((\A g \in Slot : Named(d, g)) \/ f <= e) /\ BlocksApart(tb, c) /\ HeadsApart(d)
        /\ \A g \in Slot : Named(d, g) => Root(tb, c, d.table[g].fat_index)
        /\ \A g \in Slot : Named(d, g) /\ d.table[g].size = 0 =>
              written[g] = 0 /\ tb[d.table[g].fat_index].next = -1
    BY <2>1, <2>2, <2>3 DEF InMemory, Apart, Handles, Root
  <2>8. Rooted(d, tb, c)
    BY <2>7 DEF Rooted, Root
  <2>9. BlocksApart(t, c + 1)
    <3> SUFFICES ASSUME NEW m \in Node, NEW n \in Node, m < c + 1, n < c + 1, m # n,
                        t[m].db_index = t[n].db_index
                 PROVE  t[m].db_index = -1
      BY DEF BlocksApart
    <3>1. (m = c \/ m < c) /\ (n = c \/ n < c)
      <4>1. m \in Nat /\ n \in Nat
        BY Numbers
      <4> QED BY <2>4, <4>1
    <3>2. CASE m = c \/ n = c
      <4>1. \A k \in Node \ {c} : t[k].db_index = tb[k].db_index
        BY <2>4
      <4> QED BY <2>1, <2>2, <2>4, <3>2, <4>1
    <3>3. CASE m # c /\ n # c
      BY <2>4, <2>7, <3>1, <3>3 DEF BlocksApart
    <3> QED BY <3>2, <3>3
  <2>10. HeadsApart(r) /\ Rooted(r, t, c + 1) /\ Full(r) /\ ((\A g \in Slot : Named(r, g)) \/ f + 1 <= r.next_cursor)
    <3>1. PICK list : list = [b \in Node |-> 1]
      OBVIOUS
    <3>2. Marked(tb, c, list) /\ Marked(t, c + 1, list)
      <4>1. \A n \in Node : n < c /\ tb[n].db_index # -1 => tb[n].db_index \in Node
        BY <2>4, Numbers DEF Sound
      <4>2. \A n \in Node : n < c + 1 /\ t[n].db_index # -1 => t[n].db_index \in Node
        BY <2>5, Numbers DEF Sound
      <4> QED BY <3>1, <4>1, <4>2 DEF Marked
    <3>3. Agree(d, tb, c, list)
      BY <2>7, <2>8, <3>2 DEF Agree
    <3>4. \A n \in Node \ {c} : t[n].next = tb[n].next
      BY <2>4
    <3>5. Agree(r, t, c + 1, list) /\ Full(r) /\ ((\A g \in Slot : Named(r, g)) \/ f + 1 <= r.next_cursor)
      <4>1. /\ tb \in Table /\ Sound(tb, c) /\ d \in Directory /\ e = d.next_cursor
            /\ Agree(d, tb, c, list) /\ Full(d) /\ ((\A g \in Slot : Named(d, g)) \/ f <= e)
            /\ t \in Table /\ t[c].next = -1 /\ \A n \in Node \ {c} : t[n].next = tb[n].next
        BY <2>4, <2>7, <3>3, <3>4
      <4>2. /\ Marked(t, c + 1, list) /\ BlocksApart(t, c + 1) /\ r \in Directory
            /\ r.table[f].name = name /\ r.table[e].name = name /\ r.table[e].fat_index = c
            /\ \A g \in Slot \ {e} : r.table[g].fat_index = d.table[g].fat_index
            /\ \A g \in Slot \ {e, f} : r.table[g].name = d.table[g].name
            /\ r.next_cursor # e + 1 => e + 1 = MAX_FILE
        BY <2>5, <2>6, <2>9, <3>2
      <4> QED BY <4>1, <4>2, FileAdded
    <3> QED BY <3>5 DEF Agree
  <2>11. \A g \in Slot : Named(d, g) => Named(r, g)
    BY <2>6, SFSAssumption DEF Named
  <2>12. ASSUME NEW g \in Slot, Named(r, g), g # e PROVE Named(d, g)
    <3>1. CASE g # f
      BY <2>6, <2>12, <3>1 DEF Named
    <3>2. CASE g = f /\ f <= e
      <4>1. f < e
        BY <2>12, <3>2 DEF Slot
      <4> QED BY <2>4, <2>7, <3>2, <4>1 DEF Full
    <3> QED BY <2>7, <3>1, <3>2
  <2>13. /\ written'[e] = 0 /\ acked'[e] = 0
         /\ \A g \in Slot \ {e} : written'[g] = written[g] /\ acked'[g] = acked[g]
         /\ \A g \in Slot : acked'[g] \in Nat /\ acked'[g] <= written'[g]
    <3>1. /\ written'[e] = 0 /\ acked'[e] = 0
          /\ \A g \in Slot \ {e} : written'[g] = written[g] /\ acked'[g] = acked[g]
      BY <1>1, <2>1
    <3>2. \A g \in Slot : acked[g] \in Nat /\ acked[g] <= acked[g]
      BY <1>1
    <3> QED BY <2>3, <3>1, <3>2
  <2>14. PICK w2, a2 : w2 = written' /\ a2 = acked'
    OBVIOUS
  <2>15. Apart(r, t, c + 1, w2)
    <3> SUFFICES ASSUME NEW g \in Slot, Named(r, g)
                 PROVE  /\ Root(t, c + 1, r.table[g].fat_index)
                        /\ r.table[g].size = 0 => w2[g] = 0 /\ t[r.table[g].fat_index].next = -1
      BY <2>10 DEF Apart
    <3>1. Root(t, c + 1, r.table[g].fat_index)
      BY <2>5, <2>10, FileRoots
    <3>2. CASE g = e
      BY <2>4, <2>6, <2>13, <2>14, <3>1, <3>2
    <3>3. CASE g # e
      <4>1. Named(d, g) /\ r.table[g].size = d.table[g].size /\ r.table[g].fat_index = d.table[g].fat_index
        BY <2>6, <2>12, <3>3
      <4>2. PICK h : h = d.table[g].fat_index
        OBVIOUS
      <4>3. h \in Node /\ h < c
        BY <2>7, <4>1, <4>2 DEF Root
      <4>4. t[h] = tb[h]
        <5>1. h # c
          BY <2>4, <4>3, Numbers
        <5> QED BY <2>4, <4>3, <5>1
      <4> QED BY <2>7, <2>13, <2>14, <3>1, <3>3, <4>1, <4>2, <4>4
    <3> QED BY <3>2, <3>3
  <2>16. ASSUME NEW g \in Slot, g < f + 1
         PROVE  Named(r, g) /\ (r.table[g].wr_ptr = r.table[g].size => Sized(r, t, w2, g))
    <3>1. Named(r, g)
      <4>1. g < f \/ g = f
        BY <2>16 DEF Slot
      <4>2. CASE g < f
        BY <2>1, <2>2, <2>3, <2>11, <4>2 DEF InMemory
      <4>3. CASE g = f
        BY <2>6, <4>3, SFSAssumption DEF Named
      <4> QED BY <4>1, <4>2, <4>3
    <3> SUFFICES ASSUME r.table[g].wr_ptr = r.table[g].size PROVE Sized(r, t, w2, g)
      BY <3>1
    <3>2. PICK h : h = r.table[g].fat_index
      OBVIOUS
    <3>3. CASE r.table[g].size = 0
      <4>1. h \in Node /\ t[h].next = -1 /\ w2[g] = 0
        <5>1. Root(t, c + 1, h)
          BY <2>5, <2>10, <3>1, <3>2, FileRoots
        <5>2. h \in Node /\ h < c + 1
          BY <5>1 DEF Root
        <5> QED BY <2>15, <3>1, <3>2, <3>3, <5>2 DEF Apart
      <4>2. Ends(t, h) /\ ChainLength(t, h) = 1
        BY <4>1, SoleNode
      <4>3. Filled(0, 1)
        BY Numbers DEF Filled
      <4> QED BY <3>2, <3>3, <4>1, <4>2, <4>3 DEF Sized
    <3>4. CASE r.table[g].size # 0
      <4>1. g # e /\ g # f
        BY <2>6, <3>4
      <4>2. g < f
        BY <2>16, <4>1 DEF Slot
      <4>3. /\ r.table[g].fat_index = d.table[g].fat_index /\ r.table[g].size = d.table[g].size
            /\ r.table[g].wr_ptr = d.table[g].wr_ptr
        BY <2>6, <4>1
      <4>4. Named(d, g) /\ Sized(d, tb, written, g)
        BY <2>1, <2>2, <2>3, <4>2, <4>3 DEF InMemory
      <4>5. h = d.table[g].fat_index /\ Ends(tb, h) /\ h \in Node /\ h < c
        BY <2>7, <3>2, <4>3, <4>4 DEF Sized, Root
      <4>6. \A k \in 0..(ChainLength(tb, h) - 1) : Nth(tb, h)[k] \in Node /\ Nth(tb, h)[k] < c
        BY <2>4, <4>5, ChainFacts, ChainUsed
      <4>7. \A k \in 0..(ChainLength(tb, h) - 1) : t[Nth(tb, h)[k]].next = tb[Nth(tb, h)[k]].next
        <5> SUFFICES ASSUME NEW k \in 0..(ChainLength(tb, h) - 1) PROVE t[Nth(tb, h)[k]] = tb[Nth(tb, h)[k]]
          OBVIOUS
        <5>1. PICK y \in Node : y = Nth(tb, h)[k] /\ y < c
          BY <4>6
        <5>2. y # c
          <6>1. y \in Nat
            BY Numbers
          <6> QED BY <2>4, <5>1, <6>1
        <5> QED BY <2>4, <5>1, <5>2
      <4>8. Ends(t, h) /\ ChainLength(t, h) = ChainLength(tb, h)
        <5>1. tb \in Table
          BY <2>4
        <5> QED BY <4>5, <4>7, <5>1, ChainKept
      <4>9. w2[g] = written[g]
        BY <2>13, <2>14, <4>1
      <4> QED BY <4>3, <4>4, <4>5, <4>8, <4>9 DEF Sized
    <3> QED BY <3>3, <3>4
  <2>17. InMemory'
    <3>1. Handles'
      BY <2>1, <2>2, <2>10 DEF Handles
    <3>2. fat'.next_cursor = c + 1 /\ opened_files' = f + 1
      BY <2>1
    <3> QED BY <2>2, <2>9, <2>10, <2>14, <2>15, <2>16, <3>1, <3>2 DEF InMemory
  <2>18. /\ StoredRoot' = StoredRoot /\ StoredFat' = StoredFat /\ StoredList' = StoredList /\ Readable' = Readable
    BY <2>1, DiskSame
  <2>19. OnTheDisk(acked)'
    <3>1. PICK rt, ta, cu : rt = StoredRoot /\ ta = StoredFat.table /\ cu = StoredFat.next_cursor
      OBVIOUS
    <3>2. Apart(rt, ta, cu, a2)
      <4>1. \A g \in Slot : acked[g] = 0 => a2[g] = 0
        BY <2>13, <2>14
      <4>2. Apart(rt, ta, cu, acked)
        BY <2>3, <3>1 DEF OnTheDisk
      <4> QED BY <4>1, <4>2 DEF Apart
    <3>3. ASSUME NEW g \in Slot, a2[g] > 0
          PROVE  /\ disk[0].kind = "root" /\ disk[1].kind = "fat" /\ Named(rt, g)
                 /\ \A k \in 0..(a2[g] - 1) : Found(ta, rt.table[g].fat_index, g, k)
      <4>1. a2[g] = acked[g]
        BY <2>13, <2>14, <3>3
      <4> QED BY <2>3, <3>1, <3>3, <4>1 DEF OnTheDisk
    <3>4. \A table, h, g, k : Found(table, h, g, k) => Found(table, h, g, k)'
      BY <2>1 DEF Found, HasByte
    <3>5. ASSUME NEW g \in Slot, a2[g] > 0, NEW k \in 0..(a2[g] - 1) PROVE Found(ta, rt.table[g].fat_index, g, k)'
      BY <3>3, <3>4, <3>5
    <3> QED BY <2>1, <2>3, <2>14, <2>18, <3>1, <3>2, <3>3, <3>5 DEF OnTheDisk
  <2>20. Continues(t, tb, c)
    <3> SUFFICES ASSUME NEW n \in Node, n < c PROVE t[n] = tb[n]
      BY DEF Continues
    <3>1. n # c
      <4>1. n \in Nat
        BY Numbers
      <4> QED BY <2>4, <4>1
    <3> QED BY <2>4, <3>1
  <2>21. Between'
    <3>1. \A i \in 1..Len(todo') : todo'[i].kind # "data"
      <4>1. \A i \in 1..3 : Save[i].kind # "data"
        BY SaveList
      <4> QED BY <2>1, <4>1, SaveList
    <3>2. phase' # "idle" /\ StoredFat.next_cursor = c /\ fat'.next_cursor = c + 1 /\ c <= c + 1 /\ StoredFat.table = tb
      BY <2>1, <2>2, <2>3, <2>4
    <3>4. ASSUME NEW g \in Slot, a2[g] > 0 PROVE r.table[g].fat_index = StoredRoot.table[g].fat_index
      <4>1. g # e /\ acked[g] > 0
        BY <2>13, <2>14, <3>4
      <4> QED BY <2>2, <2>3, <2>6, <4>1 DEF Between
    <3>5. Apart(r, tb, c, a2)
      <4> SUFFICES ASSUME NEW g \in Slot, Named(r, g)
                   PROVE  /\ r.table[g].fat_index = c \/ Root(tb, c, r.table[g].fat_index)
                          /\ r.table[g].size = 0 =>
                                a2[g] = 0 /\ (r.table[g].fat_index < c => tb[r.table[g].fat_index].next = -1)
        BY <2>10 DEF Apart
      <4>1. CASE g = e
        <5>1. ~(c < c)
          BY <2>4
        <5> QED BY <2>6, <2>13, <2>14, <4>1, <5>1
      <4>2. CASE g # e
        BY <2>3, <2>6, <2>7, <2>12, <2>13, <2>14, <4>2
      <4> QED BY <4>1, <4>2
    <3> QED BY <2>2, <2>13, <2>14, <2>18, <2>20, <3>1, <3>2, <3>4, <3>5 DEF Between
  <2>22. Ahead'
    <3>1. \A b : Pending(b)' = {}
      <4>1. \A i \in 1..3 : Save[i].kind # "data"
        BY SaveList
      <4> QED BY <2>1, <4>1, SaveList DEF Pending
    <3>2. \A b : Pending(b) = {}
      BY <2>3, EmptySeq DEF Pending
    <3>3. \A b, j, v : WillHold(b, j, v) => WillHold(b, j, v)'
      BY <2>1, <3>1, <3>2 DEF WillHold, HasByte
    <3>5. ASSUME NEW g \in Slot, written'[g] > 0
          PROVE  /\ Named(r, g)
                 /\ \A k \in 0..(written'[g] - 1) : Coming(t, r.table[g].fat_index, g, k)'
      <4>1. PICK h : h = d.table[g].fat_index
        OBVIOUS
      <4>2. g # e /\ written'[g] = written[g] /\ written[g] \in Nat /\ h \in Node
        BY <1>1, <2>4, <2>13, <3>5, <4>1 DEF Entry
      <4>3. Named(d, g) /\ \A k \in 0..(written[g] - 1) : Coming(tb, h, g, k)
        BY <2>2, <2>3, <3>5, <4>1, <4>2 DEF Ahead
      <4>4. h < c
        BY <2>7, <4>1, <4>3 DEF Root
      <4>5. ASSUME NEW k \in 0..(written[g] - 1) PROVE Coming(t, h, g, k)'
        <5>1. Coming(tb, h, g, k)
          BY <4>3, <4>5
        <5>2. k \in Nat
          BY <4>2
        <5>3. Located(t, h, k) /\ Place(t, h, k) = Place(tb, h, k)
          BY <2>4, <2>20, <4>2, <4>4, <5>1, <5>2, PlaceKept DEF Coming
        <5> QED BY <3>3, <5>1, <5>3 DEF Coming
      <4>6. r.table[g].fat_index = h
        BY <2>6, <4>1, <4>2
      <4> QED BY <2>11, <4>2, <4>3, <4>5, <4>6
    <3>6. ASSUME NEW g \in Slot, written'[g] > 0, NEW k \in 0..(written'[g] - 1)
          PROVE  Coming(fat.table, root.table[g].fat_index, g, k)'
      <4>1. PICK h : h = r.table[g].fat_index
        OBVIOUS
      <4>2. Coming(t, h, g, k)'
        BY <3>5, <3>6, <4>1
      <4> QED BY <2>2, <4>1, <4>2
    <3> QED BY <2>2, <3>5, <3>6 DEF Ahead
  <2> QED BY <2>17, <2>19, <2>21, <2>22 DEF Contents
<1> QED BY <1>2, <1>3

(* After m rounds of the loop of sfs_write: the table goes on as it was, and the nodes from
   the cursor on are the end of the chain of node h, which had n. *)
Laid(s, table, cursor, h, n, m) ==
    /\ s.cursor = cursor + m
    /\ Continues(s.table, table, cursor)
    /\ Ends(s.table, h) /\ ChainLength(s.table, h) = n + m /\ s.last = Nth(s.table, h)[n + m - 1]
    /\ \A i \in 0..(m - 1) : Nth(s.table, h)[n + i] = cursor + i

(* What is to be written: what was before the loop, then a block for each round, with the
   bytes that follow the first n0. *)
Sent(s, writes, cursor, bytes, n0, m) ==
    /\ Len(s.writes) = Len(writes) + m
    /\ \A k \in 1..Len(writes) : s.writes[k] = writes[k]
    /\ \A i \in 0..(m - 1) :
          LET x == s.writes[Len(writes) + i + 1] IN
          /\ x.at = s.table[cursor + i].db_index /\ x.kind = "data"
          /\ \A j \in 1..BLOCK_SIZE :
                n0 + i * BLOCK_SIZE + j <= Len(bytes) => x.bytes[j] = bytes[n0 + i * BLOCK_SIZE + j]

(* The new blocks, none of which is in the old table. *)
Fresh(s, table, cursor, m) ==
    /\ BlocksApart(s.table, s.cursor)
    /\ \A i \in 0..(m - 1) :
          LET b == s.table[cursor + i].db_index IN
          b \in DataBlock /\ s.list[b] = 1 /\ \A n \in Node : table[n].db_index # b

(* What a round of the loop does. *)
Advanced(r, s, bytes) ==
    /\ r.cursor = s.cursor + 1 /\ r.last = s.cursor
    /\ r.table[s.cursor].db_index = FreeBlock(s.list) /\ r.table[s.cursor].next = -1
    /\ \A n \in Node \ {s.cursor} : /\ r.table[n].db_index = s.table[n].db_index
                                    /\ r.table[n].next = IF n = s.last THEN s.cursor ELSE s.table[n].next
    /\ r.list = Taken(s.list, FreeBlock(s.list))
    /\ r.writes = Append(s.writes, [at |-> FreeBlock(s.list), kind |-> "data",
                                    bytes |-> Overlay(s.buffer, 0, bytes)])

(* It does that when the table has room. *)
LEMMA RoundDoes ==
    ASSUME NEW table \in Table, NEW cursor \in 0..MAX_DISK, NEW list \in List,
           NEW s, LoopInv(s, table, cursor, list), s.cursor \in Node, NEW bytes \in Seq(Byte),
           NEW r, r = NewBlock(s, bytes)
    PROVE  Advanced(r, s, bytes)
<1>1. PICK u, c, la, db, t : /\ u = s.table /\ c = s.cursor /\ la = s.last /\ db = FreeBlock(s.list)
                             /\ t = Linked(u, la, c, db)
  OBVIOUS
<1>2. /\ u \in Table /\ c \in Node /\ la \in Node /\ s.list \in List /\ Sound(u, c) /\ la < c /\ u[la].next = -1
  BY <1>1 DEF LoopInv, LoopState
<1>3. la # c /\ la <= c
  <2>1. la \in Nat /\ c \in Nat
    BY <1>2, Numbers
  <2> QED BY <1>2, <2>1
<1>4. db \in DataBlock \cup {-1}
  BY <1>1, <1>2, FreeBlockType
<1>5. /\ t \in Table /\ t[c].db_index = db /\ t[c].next = -1
      /\ \A n \in Node \ {c} : /\ t[n].db_index = u[n].db_index
                               /\ t[n].next = IF n = la THEN c ELSE u[n].next
  BY SMTT(40), <1>1, <1>2, <1>3, <1>4, LinkedTable
<1>6. NextCursor(t, c) = c + 1
  <2>1. PICK li : li = s.list
    OBVIOUS
  <2>2. li \in List /\ t[c].db_index = FreeBlock(li)
    BY <1>1, <1>2, <1>5, <2>1
  <2> QED BY <1>2, <1>3, <1>5, <2>2, NodeAdded
<1>7. /\ r.table = t /\ r.cursor = NextCursor(t, c) /\ r.last = c /\ r.list = Taken(s.list, db)
      /\ r.writes = Append(s.writes, [at |-> db, kind |-> "data", bytes |-> Overlay(s.buffer, 0, bytes)])
  BY <1>1, <1>2 DEF NewBlock, Linked
<1> QED BY <1>1, <1>5, <1>6, <1>7 DEF Advanced

(* Numbers from c on, n of them. *)
LEMMA Upwards ==
    ASSUME NEW c \in Nat, NEW n \in Nat, NEW top \in Nat, c + n <= top
    PROVE  \A i \in 0..(n - 1) : c + i \in 0..(top - 1) /\ c + i < c + n
OBVIOUS

(* One round more of the table. *)
LEMMA RoundLays ==
    ASSUME NEW table \in Table, NEW cursor \in 0..MAX_DISK, NEW list \in List,
           NEW s, LoopInv(s, table, cursor, list), s.cursor \in Node, NEW bytes \in Seq(Byte),
           NEW r, r = NewBlock(s, bytes),
           NEW h \in Node, h < cursor, NEW n \in Nat \ {0}, NEW m \in Nat, Laid(s, table, cursor, h, n, m)
    PROVE  Laid(r, table, cursor, h, n, m + 1)
<1>1. PICK u, c, la, t : u = s.table /\ c = s.cursor /\ la = s.last /\ t = r.table
  OBVIOUS
<1>2. /\ u \in Table /\ c \in Node /\ la \in Node /\ Sound(u, c) /\ la < c /\ u[la].next = -1 /\ cursor <= c
      /\ cursor \in Nat /\ c \in Nat
  BY <1>1, Numbers DEF LoopInv, LoopState
<1>3. /\ r.cursor = c + 1 /\ r.last = c /\ t[c].next = -1
      /\ \A k \in Node \ {c} : /\ t[k].db_index = u[k].db_index
                               /\ t[k].next = IF k = la THEN c ELSE u[k].next
  <2>1. Advanced(r, s, bytes)
    BY RoundDoes
  <2> QED BY <1>1, <2>1 DEF Advanced
<1>4. /\ c = cursor + m /\ Continues(u, table, cursor)
      /\ Ends(u, h) /\ ChainLength(u, h) = n + m /\ la = Nth(u, h)[n + m - 1]
      /\ \A i \in 0..(m - 1) : Nth(u, h)[n + i] = cursor + i
  BY <1>1 DEF Laid
<1>5. Continues(t, table, cursor)
  <2> SUFFICES ASSUME NEW k \in Node, k < cursor
               PROVE  /\ t[k].db_index = table[k].db_index
                      /\ table[k].next # -1 => t[k].next = table[k].next
    BY DEF Continues
  <2>1. k # c
    <3>1. k \in Nat
      BY Numbers
    <3> QED BY <1>2, <3>1
  <2>2. u[k].db_index = table[k].db_index /\ (table[k].next # -1 => u[k].next = table[k].next)
    BY <1>4 DEF Continues
  <2> QED BY <1>2, <1>3, <2>1, <2>2
<1>6. h < c
  <2>1. h \in Nat
    BY Numbers
  <2> QED BY <1>2, <2>1
<1>7. PICK l \in Nat : l = n + m
  OBVIOUS
<1>8. /\ Ends(t, h) /\ ChainLength(t, h) = l + 1 /\ Nth(t, h)[l] = c
      /\ \A k \in 0..(l - 1) : Nth(t, h)[k] = Nth(u, h)[k]
  <2>1. ChainLength(u, h) = l /\ la = Nth(u, h)[ChainLength(u, h) - 1] /\ Ends(u, h)
    BY <1>4, <1>7
  <2>2. \A k \in Node \ {c} : t[k].next = IF k = la THEN c ELSE u[k].next
    BY <1>3
  <2>3. /\ u \in Table /\ c \in Node /\ Sound(u, c) /\ h \in Node /\ h < c /\ Ends(u, h)
        /\ la = Nth(u, h)[ChainLength(u, h) - 1] /\ t[c].next = -1
    BY <1>2, <1>3, <1>6, <2>1
  <2>4. /\ Ends(t, h) /\ ChainLength(t, h) = ChainLength(u, h) + 1 /\ Nth(t, h)[ChainLength(u, h)] = c
        /\ \A k \in 0..(ChainLength(u, h) - 1) : Nth(t, h)[k] = Nth(u, h)[k]
    BY <2>2, <2>3, ChainGrows
  <2> QED BY <2>1, <2>4
<1>9. ASSUME NEW i \in 0..m PROVE Nth(t, h)[n + i] = cursor + i
  <2>1. CASE i = m
    BY <1>4, <1>7, <1>8, <2>1
  <2>2. CASE i # m
    <3>1. PICK k : k = n + i
      OBVIOUS
    <3>2. i \in 0..(m - 1) /\ k \in 0..(l - 1)
      BY <1>7, <2>2, <3>1
    <3> QED BY <1>4, <1>8, <3>1, <3>2
  <2> QED BY <2>1, <2>2
<1>10. l + 1 = n + (m + 1) /\ n + (m + 1) - 1 = l /\ m + 1 - 1 = m /\ r.cursor = cursor + (m + 1)
  BY <1>2, <1>3, <1>4, <1>7
<1> QED BY <1>1, <1>3, <1>5, <1>8, <1>9, <1>10 DEF Laid

(* The bytes that a new block takes from a piece of the buffer. *)
LEMMA PieceBytes ==
    ASSUME NEW buffer \in Bytes, NEW bytes \in Seq(Byte), NEW a \in Nat, NEW B \in Nat, B = BLOCK_SIZE,
           NEW j \in 1..B, a + j <= Len(bytes)
    PROVE  Overlay(buffer, 0, SubSeq(bytes, a + 1, Least(Len(bytes), a + B)))[j] = bytes[a + j]
<1>1. PICK l \in Nat, e \in Nat : l = Len(bytes) /\ e = Least(l, a + B)
  <2>1. Len(bytes) \in Nat
    OBVIOUS
  <2>2. Least(Len(bytes), a + B) \in Nat
    BY <2>1 DEF Least
  <2> QED BY <2>1, <2>2
<1>2. e <= l /\ a + j <= e
  BY <1>1 DEF Least
<1>3. PICK p : p = SubSeq(bytes, a + 1, e)
  OBVIOUS
<1>4. Len(p) = e - a /\ \A i \in 1..(e - a) : p[i] = bytes[a + i]
  <2>1. a + 1 \in 1..(e + 1) /\ a + 1 <= e
    BY <1>2
  <2>2. Len(p) = e - (a + 1) + 1 /\ \A i \in 1..(e - (a + 1) + 1) : p[i] = bytes[a + 1 + i - 1]
    <3>1. \A i \in (a + 1)..e : bytes[i] \in Byte
      <4>1. \A i \in (a + 1)..e : i \in 1..Len(bytes)
        BY <1>1, <1>2
      <4> QED BY <4>1
    <3>2. a + 1 \in Int /\ e \in Int
      OBVIOUS
    <3> QED BY SMTT(40), <1>3, <2>1, <3>1, <3>2, SubSeqProperties
  <2>3. e - (a + 1) + 1 = e - a /\ \A i \in 1..(e - a) : a + 1 + i - 1 = a + i
    OBVIOUS
  <2> QED BY <2>2, <2>3
<1>5. j \in 1..(e - a) /\ j \in 1..BLOCK_SIZE
  BY <1>2
<1>6. Overlay(buffer, 0, p)[j] = p[j]
  <2>1. j \in (0 + 1)..(0 + Len(p)) /\ j - 0 = j
    BY <1>4, <1>5
  <2> QED BY <1>5, <2>1 DEF Overlay
<1> QED BY <1>1, <1>3, <1>4, <1>5, <1>6

(* One round more of the writes. *)
LEMMA RoundSends ==
    ASSUME NEW s \in LoopState, NEW writes \in Seq(DataWrite), NEW cursor \in Nat, NEW bytes \in Seq(Byte),
           NEW n0 \in Nat, NEW m \in Nat, Sent(s, writes, cursor, bytes, n0, m),
           s.cursor = cursor + m, s.cursor \in Node,
           NEW r, Advanced(r, s, SubSeq(bytes, n0 + m * BLOCK_SIZE + 1, Least(Len(bytes), n0 + (m + 1) * BLOCK_SIZE)))
    PROVE  Sent(r, writes, cursor, bytes, n0, m + 1)
<1>1. PICK B \in Nat : B = BLOCK_SIZE
  BY Numbers
<1>2. PICK a \in Nat : a = n0 + m * B
  BY Times
<1>3. n0 + (m + 1) * B = a + B
  BY <1>2
<1>4. PICK db, x, b : /\ db = FreeBlock(s.list) /\ x = [at |-> db, kind |-> "data", bytes |-> b]
                      /\ b = Overlay(s.buffer, 0, SubSeq(bytes, a + 1, Least(Len(bytes), a + B)))
  OBVIOUS
<1>5. s.writes \in Seq(DataWrite) /\ s.buffer \in Bytes
  BY DEF LoopState
<1>6. /\ r.table[s.cursor].db_index = db /\ r.writes = Append(s.writes, x)
      /\ \A n \in Node \ {s.cursor} : r.table[n].db_index = s.table[n].db_index
  BY <1>1, <1>2, <1>3, <1>4 DEF Advanced
<1>7. PICK l \in Nat : l = Len(writes)
  OBVIOUS
<1>8. /\ Len(s.writes) = l + m /\ \A k \in 1..l : s.writes[k] = writes[k]
      /\ \A i \in 0..(m - 1) :
            /\ s.writes[l + i + 1].at = s.table[cursor + i].db_index /\ s.writes[l + i + 1].kind = "data"
            /\ \A j \in 1..BLOCK_SIZE :
                  n0 + i * BLOCK_SIZE + j <= Len(bytes) =>
                      s.writes[l + i + 1].bytes[j] = bytes[n0 + i * BLOCK_SIZE + j]
  BY <1>7 DEF Sent
<1>9. /\ Len(r.writes) = l + m + 1 /\ r.writes[l + m + 1] = x
      /\ \A k \in 1..(l + m) : r.writes[k] = s.writes[k]
  <2>1. PICK q : q = s.writes
    OBVIOUS
  <2>2. q \in Seq(DataWrite) /\ r.writes = Append(q, x) /\ Len(q) = l + m
    BY <1>5, <1>6, <1>8, <2>1
  <2>3. Len(Append(q, x)) = l + m + 1 /\ Append(q, x)[l + m + 1] = x /\ \A k \in 1..(l + m) : Append(q, x)[k] = q[k]
    BY SMTT(40), <2>2, AppendProperties
  <2> QED BY <2>1, <2>2, <2>3
<1>10. ASSUME NEW i \in 0..m
       PROVE  /\ r.writes[l + i + 1].at = r.table[cursor + i].db_index /\ r.writes[l + i + 1].kind = "data"
              /\ \A j \in 1..BLOCK_SIZE :
                    n0 + i * BLOCK_SIZE + j <= Len(bytes) =>
                        r.writes[l + i + 1].bytes[j] = bytes[n0 + i * BLOCK_SIZE + j]
  <2>1. CASE i = m
    <3>1. \A j \in 1..B : a + j <= Len(bytes) => b[j] = bytes[a + j]
      BY SMTT(40), <1>1, <1>4, <1>5, PieceBytes
    <3>2. \A j \in 1..BLOCK_SIZE : n0 + m * BLOCK_SIZE + j <= Len(bytes) => b[j] = bytes[n0 + m * BLOCK_SIZE + j]
      BY <1>1, <1>2, <3>1
    <3> QED BY SMTT(40), <1>4, <1>6, <1>9, <2>1, <3>2
  <2>2. CASE i # m
    <3>1. i \in 0..(m - 1) /\ l + i + 1 \in 1..(l + m)
      BY <2>2
    <3>2. r.table[cursor + i].db_index = s.table[cursor + i].db_index
      <4>1. cursor + i \in Node /\ cursor + i # s.cursor
        BY <3>1, Numbers DEF Node
      <4> QED BY <1>6, <4>1
    <3>3. r.writes[l + i + 1] = s.writes[l + i + 1]
      BY <1>9, <3>1
    <3> QED BY <1>8, <3>1, <3>2, <3>3
  <2> QED BY <2>1, <2>2
<1>11. \A k \in 1..l : r.writes[k] = writes[k]
  <2>1. \A k \in 1..l : k \in 1..(l + m)
    OBVIOUS
  <2> QED BY <1>8, <1>9, <2>1
<1>12. m + 1 - 1 = m /\ l + (m + 1) = l + m + 1
  OBVIOUS
<1> QED BY <1>7, <1>9, <1>10, <1>11, <1>12 DEF Sent

(* One round more of the blocks, when it finds one, and one that is not in use. *)
LEMMA RoundFresh ==
    ASSUME NEW table \in Table, NEW cursor \in Nat, NEW s \in LoopState, NEW m \in Nat, Fresh(s, table, cursor, m),
           s.cursor = cursor + m, s.cursor \in Node, Continues(s.table, table, cursor),
           FreeBlock(s.list) # -1, \A n \in Node : table[n].db_index # FreeBlock(s.list),
           NEW r, NEW bytes, Advanced(r, s, bytes)
    PROVE  Fresh(r, table, cursor, m + 1)
<1>1. PICK c, db, u, t : c = s.cursor /\ db = FreeBlock(s.list) /\ u = s.table /\ t = r.table
  OBVIOUS
<1>2. /\ t[c].db_index = db /\ r.cursor = c + 1 /\ r.list = Taken(s.list, db)
      /\ \A n \in Node \ {c} : t[n].db_index = u[n].db_index
  BY <1>1 DEF Advanced
<1>3. s.list \in List /\ c \in Node /\ c \in Nat /\ c = cursor + m
  BY <1>1 DEF LoopState
<1>4. db \in DataBlock /\ s.list[db] = 0
  <2>1. FreeBlock(s.list) = -1 \/ (FreeBlock(s.list) \in DataBlock /\ s.list[FreeBlock(s.list)] = 0)
    BY <1>3, FreeBlockFound
  <2> QED BY <1>1, <2>1
<1>5. r.list[db] = 1 /\ \A b \in DataBlock : s.list[b] = 1 => r.list[b] = 1
  <2>1. \A a \in Node : Taken(s.list, db)[a] = IF a = db THEN 1 ELSE s.list[a]
    BY <1>3, <1>4, TakenList
  <2> QED BY <1>2, <1>4, <2>1, Numbers
<1>6. /\ BlocksApart(u, c)
      /\ \A i \in 0..(m - 1) : /\ u[cursor + i].db_index \in DataBlock /\ s.list[u[cursor + i].db_index] = 1
                               /\ \A n \in Node : table[n].db_index # u[cursor + i].db_index
  BY <1>1 DEF Fresh
<1>7. ASSUME NEW n \in Node, n < c PROVE u[n].db_index # db
  <2>1. n \in Nat
    BY Numbers
  <2>2. CASE n < cursor
    BY <1>1, <2>2 DEF Continues
  <2>3. CASE ~(n < cursor)
    <3>1. PICK i : i = n - cursor
      OBVIOUS
    <3>2. i \in 0..(m - 1) /\ cursor + i = n
      BY <1>3, <1>7, <2>1, <2>3, <3>1
    <3> QED BY <1>4, <1>6, <3>2
  <2> QED BY <2>2, <2>3
<1>8. BlocksApart(t, c + 1)
  <2> SUFFICES ASSUME NEW p \in Node, NEW q \in Node, p < c + 1, q < c + 1, p # q, t[p].db_index = t[q].db_index
               PROVE  t[p].db_index = -1
    BY DEF BlocksApart
  <2>1. (p = c \/ p < c) /\ (q = c \/ q < c)
    <3>1. p \in Nat /\ q \in Nat
      BY Numbers
    <3> QED BY <1>3, <3>1
  <2>2. CASE p = c \/ q = c
    BY <1>2, <1>7, <2>1, <2>2
  <2>3. CASE p # c /\ q # c
    BY <1>2, <1>6, <2>1, <2>3 DEF BlocksApart
  <2> QED BY <2>2, <2>3
<1>9. ASSUME NEW i \in 0..m
      PROVE  /\ t[cursor + i].db_index \in DataBlock /\ r.list[t[cursor + i].db_index] = 1
             /\ \A n \in Node : table[n].db_index # t[cursor + i].db_index
  <2>1. CASE i = m
    BY <1>1, <1>2, <1>3, <1>4, <1>5, <2>1
  <2>2. CASE i # m
    <3>1. i \in 0..(m - 1) /\ cursor + i \in Node /\ cursor + i # c
      BY <1>3, <2>2, Numbers DEF Node
    <3>2. t[cursor + i].db_index = u[cursor + i].db_index
      BY <1>2, <3>1
    <3> QED BY <1>5, <1>6, <3>1, <3>2
  <2> QED BY <2>1, <2>2
<1>10. m + 1 - 1 = m
  OBVIOUS
<1> QED BY <1>1, <1>2, <1>8, <1>9, <1>10 DEF Fresh

(* What each round starts from and what it makes of it. *)
Rounds(loop, first, table, cursor, list, bytes, n0, blocks) ==
    /\ loop[0] = first
    /\ \A k \in 0..blocks : LoopInv(loop[k], table, cursor, list)
    /\ \A k \in 0..(blocks - 1) :
          \E piece \in Seq(Byte) :
             /\ piece = SubSeq(bytes, n0 + k * BLOCK_SIZE + 1, Least(Len(bytes), n0 + (k + 1) * BLOCK_SIZE))
             /\ loop[k + 1] = NewBlock(loop[k], piece) /\ Advanced(loop[k + 1], loop[k], piece)

(* The round that the loop makes from s, as the rounds are counted. *)
LEMMA LoopRounds ==
    ASSUME NEW table \in Table, NEW cursor \in 0..MAX_DISK, NEW list \in List,
           NEW first, LoopInv(first, table, cursor, list),
           NEW bytes \in Seq(Byte), NEW n0 \in Nat, NEW blocks \in Nat,
           NEW loop, loop = Extended(first, bytes, n0, blocks),
           \A k \in 0..(blocks - 1) : loop[k].cursor \in Node
    PROVE  Rounds(loop, first, table, cursor, list, bytes, n0, blocks)
<1>1. loop[0] = first
  BY ExtendedSteps
<1>2. \A k \in 0..blocks : LoopInv(loop[k], table, cursor, list)
  BY LoopAlways
<1>3. ASSUME NEW k \in 0..(blocks - 1)
      PROVE  \E piece \in Seq(Byte) :
                /\ piece = SubSeq(bytes, n0 + k * BLOCK_SIZE + 1, Least(Len(bytes), n0 + (k + 1) * BLOCK_SIZE))
                /\ loop[k + 1] = NewBlock(loop[k], piece) /\ Advanced(loop[k + 1], loop[k], piece)
  <2>1. PICK B \in Nat : B = BLOCK_SIZE
    BY Numbers
  <2>2. PICK a \in Nat, b \in Nat : a = n0 + k * B /\ b = n0 + (k + 1) * B
    <3>1. k \in Nat /\ k + 1 \in Nat
      OBVIOUS
    <3>2. k * B \in Nat /\ (k + 1) * B \in Nat
      BY <3>1, Times
    <3> QED BY <3>2
  <2>3. PICK piece : piece = SubSeq(bytes, a + 1, Least(Len(bytes), b))
    OBVIOUS
  <2>4. piece \in Seq(Byte)
    <3>1. PICK l \in Nat : l = Len(bytes)
      OBVIOUS
    <3>2. PICK e : e = Least(l, b)
      OBVIOUS
    <3>3. e \in Int /\ e <= l /\ a + 1 \in Nat \ {0}
      BY <3>2 DEF Least
    <3> QED BY <2>3, <3>1, <3>2, <3>3, Piece
  <2>5. loop[k + 1] = NewBlock(loop[k], piece)
    <3>1. PICK m : m = k + 1
      OBVIOUS
    <3>2. m \in 1..blocks /\ m - 1 = k
      BY <3>1
    <3>3. loop[m] = NewBlock(loop[m - 1], SubSeq(bytes, n0 + (m - 1) * BLOCK_SIZE + 1,
                                                 Least(Len(bytes), n0 + m * BLOCK_SIZE)))
      BY <3>2, ExtendedSteps
    <3> QED BY <2>1, <2>2, <2>3, <3>1, <3>2, <3>3
  <2>6. Advanced(loop[k + 1], loop[k], piece)
    <3>1. PICK s, r : s = loop[k] /\ r = loop[k + 1]
      OBVIOUS
    <3>2. k \in 0..blocks
      OBVIOUS
    <3>3. LoopInv(s, table, cursor, list) /\ s.cursor \in Node /\ r = NewBlock(s, piece)
      BY <1>2, <2>5, <3>1, <3>2
    <3>4. Advanced(r, s, piece)
      BY <2>4, <3>3, RoundDoes
    <3> QED BY <3>1, <3>4
  <2> QED BY <2>1, <2>2, <2>3, <2>4, <2>5, <2>6
<1> QED BY <1>1, <1>2, <1>3 DEF Rounds

(* The table and the writes after the rounds. *)
Lays(loop, writes, table, cursor, h, n, bytes, n0, blocks) ==
    \A m \in 0..blocks :
       /\ Laid(loop[m], table, cursor, h, n, m)
       /\ Sent(loop[m], writes, cursor, bytes, n0, m)
       /\ \A i \in 0..(m - 1) : cursor + i \in Node /\ loop[m].table[cursor + i].db_index = FreeBlock(loop[i].list)

(* The rounds add a node and a write each. *)
LEMMA LoopLays ==
    ASSUME NEW table \in Table, NEW cursor \in 0..MAX_DISK, NEW list \in List,
           NEW first, LoopInv(first, table, cursor, list), first.table = table, first.cursor = cursor,
           NEW h \in Node, h < cursor, Ends(table, h), NEW n \in Nat \ {0}, n = ChainLength(table, h),
           first.last = Nth(table, h)[n - 1],
           NEW bytes \in Seq(Byte), NEW n0 \in Nat, NEW blocks \in Nat,
           NEW loop, loop = Extended(first, bytes, n0, blocks),
           \A k \in 0..(blocks - 1) : loop[k].cursor \in Node
    PROVE  Lays(loop, first.writes, table, cursor, h, n, bytes, n0, blocks)
<1> DEFINE P(m) == /\ Laid(loop[m], table, cursor, h, n, m)
                   /\ Sent(loop[m], first.writes, cursor, bytes, n0, m)
                   /\ \A i \in 0..(m - 1) : /\ cursor + i \in Node
                                            /\ loop[m].table[cursor + i].db_index = FreeBlock(loop[i].list)
           S == {m \in Nat : m <= blocks => P(m)}
<1>0. cursor \in Nat
  BY Numbers
<1>1. /\ loop[0] = first
      /\ \A k \in 0..blocks : LoopInv(loop[k], table, cursor, list)
      /\ \A k \in 0..(blocks - 1) :
            \E piece \in Seq(Byte) :
               /\ piece = SubSeq(bytes, n0 + k * BLOCK_SIZE + 1, Least(Len(bytes), n0 + (k + 1) * BLOCK_SIZE))
               /\ loop[k + 1] = NewBlock(loop[k], piece) /\ Advanced(loop[k + 1], loop[k], piece)
  <2>1. Rounds(loop, first, table, cursor, list, bytes, n0, blocks)
    BY LoopRounds
  <2> QED BY <2>1 DEF Rounds
<1>2. first.writes \in Seq(DataWrite)
  BY DEF LoopInv, LoopState
<1>3. P(0)
  <2>1. Laid(first, table, cursor, h, n, 0)
    <3>1. Continues(table, table, cursor)
      BY DEF Continues
    <3>2. cursor + 0 = cursor /\ n + 0 = n /\ 0..(0 - 1) = {} /\ n + 0 - 1 = n - 1
      BY <1>0
    <3> QED BY <3>1, <3>2 DEF Laid
  <2>2. Sent(first, first.writes, cursor, bytes, n0, 0)
    <3>1. Len(first.writes) + 0 = Len(first.writes) /\ 0..(0 - 1) = {}
      BY <1>2
    <3> QED BY <3>1 DEF Sent
  <2> QED BY <1>1, <2>1, <2>2
<1>4. 0 \in S
  <2> HIDE DEF P
  <2> QED BY <1>3
<1>5. ASSUME NEW m \in Nat, m \in S PROVE m + 1 \in S
  <2> SUFFICES ASSUME m + 1 <= blocks PROVE P(m + 1)
    OBVIOUS
  <2>1. m \in 0..(blocks - 1) /\ m \in 0..blocks
    OBVIOUS
  <2>2. P(m)
    <3> HIDE DEF P
    <3> QED BY <1>5, <2>1
  <2>3. PICK piece \in Seq(Byte) :
               /\ piece = SubSeq(bytes, n0 + m * BLOCK_SIZE + 1, Least(Len(bytes), n0 + (m + 1) * BLOCK_SIZE))
               /\ loop[m + 1] = NewBlock(loop[m], piece) /\ Advanced(loop[m + 1], loop[m], piece)
    BY <1>1, <2>1
  <2>4. PICK s, r, w : s = loop[m] /\ r = loop[m + 1] /\ w = first.writes
    OBVIOUS
  <2>5. /\ LoopInv(s, table, cursor, list) /\ s.cursor \in Node /\ Laid(s, table, cursor, h, n, m)
        /\ Sent(s, w, cursor, bytes, n0, m) /\ w \in Seq(DataWrite)
        /\ r = NewBlock(s, piece) /\ Advanced(r, s, piece)
    BY <1>1, <1>2, <2>1, <2>2, <2>3, <2>4
  <2>6. s \in LoopState /\ s.cursor = cursor + m
    BY <2>5 DEF LoopInv, Laid
  <2>7. Laid(r, table, cursor, h, n, m + 1)
    BY <2>5, RoundLays
  <2>8. Sent(r, w, cursor, bytes, n0, m + 1)
    BY <1>0, <2>3, <2>5, <2>6, RoundSends
  <2>9. ASSUME NEW i \in 0..m
        PROVE  cursor + i \in Node /\ r.table[cursor + i].db_index = FreeBlock(loop[i].list)
    <3>1. CASE i = m
      BY <2>4, <2>5, <2>6, <3>1 DEF Advanced
    <3>2. CASE i # m
      <4>1. i \in 0..(m - 1)
        BY <3>2
      <4>2. cursor + i \in Node /\ s.table[cursor + i].db_index = FreeBlock(loop[i].list)
        BY <2>2, <2>4, <4>1
      <4>3. cursor + i # s.cursor
        BY <1>0, <2>6, <4>1
      <4> QED BY <2>5, <4>2, <4>3 DEF Advanced
    <3> QED BY <3>1, <3>2
  <2>10. m + 1 - 1 = m
    OBVIOUS
  <2> QED BY <2>4, <2>7, <2>8, <2>9, <2>10
<1>6. Nat \subseteq S
  <2> HIDE DEF S
  <2> QED BY <1>4, <1>5, Induction
<1>7. \A m \in 0..blocks : P(m)
  <2> HIDE DEF P
  <2> QED BY <1>6
<1> QED BY <1>7 DEF Lays

(* No round uses a block that was in use, or is used by another round. *)
LEMMA LoopFresh ==
    ASSUME NEW table \in Table, NEW cursor \in 0..MAX_DISK, NEW list \in List,
           NEW first, LoopInv(first, table, cursor, list), first.table = table, first.cursor = cursor,
           NEW bytes \in Seq(Byte), NEW n0 \in Nat, NEW blocks \in Nat,
           NEW loop, loop = Extended(first, bytes, n0, blocks),
           \A k \in 0..(blocks - 1) : loop[k].cursor \in Node,
           \A m \in 0..blocks : loop[m].cursor = cursor + m /\ Continues(loop[m].table, table, cursor),
           BlocksApart(table, cursor),
           \A k \in 0..(blocks - 1) :
              FreeBlock(loop[k].list) # -1 /\ \A x \in Node : table[x].db_index # FreeBlock(loop[k].list)
    PROVE  Fresh(loop[blocks], table, cursor, blocks)
<1> DEFINE S == {m \in Nat : m <= blocks => Fresh(loop[m], table, cursor, m)}
<1>0. cursor \in Nat
  BY Numbers
<1>1. /\ loop[0] = first
      /\ \A k \in 0..blocks : LoopInv(loop[k], table, cursor, list)
      /\ \A k \in 0..(blocks - 1) :
            \E piece \in Seq(Byte) :
               /\ piece = SubSeq(bytes, n0 + k * BLOCK_SIZE + 1, Least(Len(bytes), n0 + (k + 1) * BLOCK_SIZE))
               /\ loop[k + 1] = NewBlock(loop[k], piece) /\ Advanced(loop[k + 1], loop[k], piece)
  <2>1. Rounds(loop, first, table, cursor, list, bytes, n0, blocks)
    BY LoopRounds
  <2> QED BY <2>1 DEF Rounds
<1>2. 0 \in S
  <2>1. 0..(0 - 1) = {}
    OBVIOUS
  <2>2. Fresh(first, table, cursor, 0)
    BY <2>1 DEF Fresh
  <2> QED BY <1>1, <2>2
<1>3. ASSUME NEW m \in Nat, m \in S PROVE m + 1 \in S
  <2> SUFFICES ASSUME m + 1 <= blocks PROVE Fresh(loop[m + 1], table, cursor, m + 1)
    OBVIOUS
  <2>1. m \in 0..(blocks - 1) /\ m \in 0..blocks /\ m <= blocks
    OBVIOUS
  <2>2. PICK s, r : s = loop[m] /\ r = loop[m + 1]
    OBVIOUS
  <2>3. PICK piece : Advanced(r, s, piece)
    BY <1>1, <2>1, <2>2
  <2>4. /\ s \in LoopState /\ Fresh(s, table, cursor, m) /\ s.cursor = cursor + m /\ s.cursor \in Node
        /\ Continues(s.table, table, cursor) /\ FreeBlock(s.list) # -1
        /\ \A x \in Node : table[x].db_index # FreeBlock(s.list)
    BY <1>1, <1>3, <2>1, <2>2 DEF LoopInv
  <2>5. Fresh(r, table, cursor, m + 1)
    BY <1>0, <2>3, <2>4, RoundFresh
  <2> QED BY <2>2, <2>5
<1>4. Nat \subseteq S
  <2> HIDE DEF S
  <2> QED BY <1>2, <1>3, Induction
<1> QED BY <1>4

(* A write to file f that puts its bytes where they belong: h is the first node of the
   file, len its nodes, size its bytes; old the block of h as it was, where there is room
   in it; w what is queued for that block, and s the state at the end of the loop. *)
Wrote(f, length, h, len, size, n0, blocks, bytes, old, w, s) ==
    /\ f < opened_files /\ Named(root, f) /\ h = root.table[f].fat_index /\ h < fat.next_cursor
    /\ Ends(fat.table, h) /\ len = ChainLength(fat.table, h)
    /\ size = root.table[f].size /\ size = written[f] /\ Filled(size, len)
    /\ length \in Nat \ {0} /\ bytes = [k \in 1..length |-> <<f, size + k - 1>>]
    /\ n0 = IF Pointer(size) = -1 THEN 0 ELSE Least(BLOCK_SIZE - Pointer(size), length)
    /\ n0 <= length /\ blocks = (length - n0 + BLOCK_SIZE - 1) \div BLOCK_SIZE
    /\ IF Pointer(size) = -1 THEN w = <<>>
       ELSE LET b == fat.table[h].db_index IN
            /\ len = 1 /\ b \in DataBlock /\ old = BytesAt(pos, b)
            /\ w = <<[at |-> b, kind |-> "data", bytes |-> Overlay(old, Pointer(size), SubSeq(bytes, 1, n0))]>>
    /\ LoopInv(s, fat.table, fat.next_cursor, freebl)
    /\ Longer(s.table, fat.table, root, f, blocks, s.last)
    /\ Laid(s, fat.table, fat.next_cursor, h, len, blocks)
    /\ Sent(s, w, fat.next_cursor, bytes, n0, blocks)
    /\ Fresh(s, fat.table, fat.next_cursor, blocks)

(* What changes then. *)
Grows(f, length, size, s) ==
    /\ phase = "idle" /\ phase' = "busy"
    /\ fat'.table = s.table /\ fat'.next_cursor = s.cursor
    /\ root'.next_cursor = root.next_cursor
    /\ \A g \in Slot : root'.table[g].name = root.table[g].name /\ root'.table[g].fat_index = root.table[g].fat_index
    /\ root'.table[f].size = size + length
    /\ \A g \in Slot \ {f} : /\ root'.table[g].size = root.table[g].size
                             /\ root'.table[g].wr_ptr = root.table[g].wr_ptr
    /\ root'.table[f].wr_ptr = size + length
    /\ written' = [written EXCEPT ![f] = size + length]
    /\ todo' = s.writes \o Save
    /\ UNCHANGED <<disk, opened_files, acked>>

(* sfs_write does that, or its history says that it misplaced data. *)
LEMMA WriteRight ==
    ASSUME IInv, Contents, NEW f \in Slot, NEW length \in Lengths, Write(f, length), ~misplaced', Running'
    PROVE  \E h \in Node, len \in Nat \ {0}, size \in Nat, n0 \in Nat, blocks \in Nat, bytes \in Seq(Byte),
              old \in Bytes, w \in Seq(DataWrite), s \in LoopState :
              Wrote(f, length, h, len, size, n0, blocks, bytes, old, w, s) /\ Grows(f, length, size, s)
<1> DEFINE h      == root.table[f].fat_index
           wr_ptr == root.table[f].wr_ptr
           target == WriteTarget(fat.table, h)
           at     == Pointer(wr_ptr)
           n0     == IF at = -1 THEN 0 ELSE Least(BLOCK_SIZE - at, length)
           bytes  == [k \in 1..length |-> <<f, written[f] + k - 1>>]
           read   == BytesAt(pos, target)
           buffer == IF at = -1 THEN read ELSE Overlay(read, at, SubSeq(bytes, 1, n0))
           blocks == (length - n0 + BLOCK_SIZE - 1) \div BLOCK_SIZE
           pending == IF at = -1 THEN <<>> ELSE <<[at |-> target, kind |-> "data", bytes |-> buffer]>>
           first  == [table |-> fat.table, cursor |-> fat.next_cursor, list |-> freebl,
                      last |-> Nth(fat.table, h)[ChainLength(fat.table, h) - 1], buffer |-> buffer,
                      writes |-> pending]
           loop   == Extended(first, bytes, n0, blocks)
           end    == loop[blocks]
           entry  == Grown(root.table[f], length)
<1>1. /\ phase = "idle" /\ f < opened_files
      /\ IF \/ ~Ends(fat.table, h)
            \/ blocks > 0 /\ \E k \in 0..(blocks - 1) : loop[k].cursor \notin Node
           THEN Lost("undefined")
           ELSE /\ fat' = [table |-> end.table, next_cursor |-> end.cursor]
                /\ root' = [root EXCEPT !.table[f] = entry]
                /\ todo' = end.writes \o Save
                /\ phase' = "busy"
                /\ written' = [written EXCEPT ![f] = @ + length]
                /\ misplaced' = (\/ misplaced
                                 \/ wr_ptr # root.table[f].size
                                 \/ at # -1 /\ ChainLength(fat.table, h) > 1
                                 \/ \E k \in 1..Len(end.writes) : end.writes[k].at = -1
                                 \/ \E k \in 1..blocks : InUse(FreeBlock(loop[k - 1].list)))
                /\ UNCHANGED <<disk, opened_files, acked>>
  BY ZenonT(60) DEF Write
<1> HIDE DEF h, wr_ptr, target, at, n0, bytes, read, buffer, blocks, pending, first, loop, end, entry
<1>2. /\ Types /\ DiskInv
      /\ root \in Directory /\ root.table \in [Slot -> Entry] /\ root.table[f] \in Entry
      /\ fat \in Chains /\ fat.table \in Table /\ freebl \in List
      /\ fat.next_cursor \in 0..MAX_DISK
      /\ opened_files \in 0..MAX_FILE /\ pos \in 0..MAX_DISK /\ written \in [Slot -> Nat]
  BY DEF IInv, Types, Directory, Chains
<1>3. /\ h \in Node /\ wr_ptr \in Nat /\ length \in Nat \ {0} /\ BLOCK_SIZE \in Nat \ {0} /\ MAX_DISK \in Nat
  BY <1>2, SFSAssumption DEF Entry, h, wr_ptr
<1>4. at \in -1..(BLOCK_SIZE - 1)
  BY <1>3, PointerRange DEF at
<1>5. ~Lost("undefined")
  BY DEF Lost, Running
<1>6. /\ Ends(fat.table, h) /\ ~(blocks > 0 /\ \E k \in 0..(blocks - 1) : loop[k].cursor \notin Node)
      /\ fat' = [table |-> end.table, next_cursor |-> end.cursor]
      /\ root' = [root EXCEPT !.table[f] = entry]
      /\ todo' = end.writes \o Save /\ phase' = "busy"
      /\ written' = [written EXCEPT ![f] = @ + length]
      /\ UNCHANGED <<disk, opened_files, acked>>
  BY <1>1, <1>5
<1>7. /\ wr_ptr = root.table[f].size
      /\ ~(at # -1 /\ ChainLength(fat.table, h) > 1)
      /\ \A k \in 1..Len(end.writes) : end.writes[k].at # -1
      /\ \A k \in 1..blocks : ~InUse(FreeBlock(loop[k - 1].list))
  BY <1>1, <1>5
<1>8. InMemory
  BY <1>1 DEF Contents, Running
<1>9. /\ Sound(fat.table, fat.next_cursor) /\ BlocksApart(fat.table, fat.next_cursor)
      /\ Named(root, f) /\ HeadsApart(root) /\ Rooted(root, fat.table, fat.next_cursor) /\ h < fat.next_cursor
      /\ Sized(root, fat.table, written, f)
  <2>1. Running /\ f \in Nat /\ opened_files > 0
    BY <1>1, <1>2 DEF Running, Slot
  <2>2. /\ Named(root, f) /\ HeadsApart(root) /\ Rooted(root, fat.table, fat.next_cursor)
        /\ BlocksApart(fat.table, fat.next_cursor) /\ Sized(root, fat.table, written, f)
    BY <1>1, <1>7, <1>8, <2>1 DEF InMemory, Apart, wr_ptr
  <2> QED BY <1>2, <2>1, <2>2 DEF DiskInv, Rooted, h
<1>10. PICK size \in Nat : size = root.table[f].size /\ size = written[f] /\ size = wr_ptr
  BY <1>3, <1>7, <1>9 DEF Sized
<1>11. PICK len \in Nat \ {0} : len = ChainLength(fat.table, h) /\ Filled(size, len)
  <2>1. ChainLength(fat.table, h) \in Nat \ {0}
    BY <1>2, <1>3, <1>6, ChainFacts
  <2> QED BY <1>9, <1>10, <2>1 DEF Sized, h
<1>12. target \in Int
  BY <1>2, <1>3, <1>6, TargetFound DEF target
<1>13. n0 \in Nat /\ n0 <= length
  BY <1>3, <1>4 DEF n0, Least
<1>14. bytes \in Seq(Byte) /\ Len(bytes) = length /\ bytes = [k \in 1..length |-> <<f, size + k - 1>>]
  <2>1. \A k \in 1..length : <<f, written[f] + k - 1>> \in Byte
    BY <1>2, <1>3 DEF Byte
  <2>2. bytes \in Seq(Byte) /\ Len(bytes) = length
    BY <1>3, <2>1 DEF bytes
  <2>3. bytes = [k \in 1..length |-> <<f, size + k - 1>>]
    BY <1>10 DEF bytes
  <2> QED BY <2>2, <2>3
<1>15. read \in Bytes
  BY <1>2, <1>12, BlockRead DEF read
<1>16. buffer \in Bytes
  <2>1. CASE at = -1
    BY <1>15, <2>1 DEF buffer
  <2>2. CASE at # -1
    <3>1. SubSeq(bytes, 1, n0) \in Seq(Byte)
      <4>1. bytes \in Seq(Byte) /\ n0 \in Int /\ n0 <= Len(bytes) /\ 1 \in Nat \ {0}
        BY <1>13, <1>14
      <4> QED BY <4>1, Piece
    <3>2. at \in Nat
      BY <1>3, <1>4, <2>2
    <3> QED BY <1>15, <2>2, <3>1, <3>2, OverlayTypes DEF buffer
  <2> QED BY <2>1, <2>2
<1>17. pending \in Seq(DataWrite)
  <2>1. [at |-> target, kind |-> "data", bytes |-> buffer] \in DataWrite
    BY <1>12, <1>16 DEF DataWrite
  <2> QED BY <2>1 DEF pending
<1>18. blocks \in Nat
  <2>1. length - n0 + BLOCK_SIZE - 1 \in Nat
    BY <1>3, <1>13
  <2> QED BY <1>3, <2>1, Quotient DEF blocks
<1>19. PICK tb, cu, li, rt : tb = fat.table /\ cu = fat.next_cursor /\ li = freebl /\ rt = root
  OBVIOUS
<1>20. /\ tb \in Table /\ cu \in 0..MAX_DISK /\ li \in List /\ Sound(tb, cu) /\ h < cu /\ Ends(tb, h)
       /\ first = [table |-> tb, cursor |-> cu, list |-> li,
                   last |-> Nth(tb, h)[ChainLength(tb, h) - 1], buffer |-> buffer, writes |-> pending]
       /\ rt \in Directory /\ HeadsApart(rt) /\ Rooted(rt, tb, cu) /\ Named(rt, f) /\ h = rt.table[f].fat_index
       /\ BlocksApart(tb, cu)
  BY <1>2, <1>6, <1>9, <1>19 DEF first, h
<1>21. LoopInv(first, tb, cu, li)
  BY <1>3, <1>16, <1>17, <1>20, LoopBegins
<1>22. \A k \in 0..(blocks - 1) : loop[k].cursor \in Node
  <2> SUFFICES ASSUME NEW k \in 0..(blocks - 1) PROVE loop[k].cursor \in Node
    OBVIOUS
  <2>1. blocks > 0
    BY <1>18
  <2> QED BY <1>6, <2>1
<1>23. /\ first.table = tb /\ first.last = Nth(tb, h)[len - 1] /\ first.cursor = cu /\ first.writes = pending
       /\ len = ChainLength(tb, h)
  BY <1>11, <1>19, <1>20
<1>24. Longer(end.table, tb, rt, f, blocks, end.last)
  <2>1. first.last = Nth(tb, h)[ChainLength(tb, h) - 1]
    BY Zenon, <1>20
  <2>2. Longer(loop[blocks].table, tb, rt, f, blocks, loop[blocks].last)
    BY ZenonT(60), <1>13, <1>14, <1>18, <1>20, <1>21, <1>22, <1>23, <2>1, LoopLonger DEF loop
  <2> QED BY <2>2 DEF end
<1>25. \A k \in 0..blocks : LoopInv(loop[k], tb, cu, li)
  BY ZenonT(60), <1>13, <1>14, <1>18, <1>20, <1>21, <1>22, LoopAlways DEF loop
<1>26. \A m \in 0..blocks :
          /\ Laid(loop[m], tb, cu, h, len, m)
          /\ Sent(loop[m], pending, cu, bytes, n0, m)
          /\ \A i \in 0..(m - 1) : /\ cu + i \in Node
                                   /\ loop[m].table[cu + i].db_index = FreeBlock(loop[i].list)
  <2>1. loop = Extended(first, bytes, n0, blocks)
    BY DEF loop
  <2>2. \A m \in 0..blocks :
          /\ Laid(loop[m], tb, cu, h, len, m)
          /\ Sent(loop[m], first.writes, cu, bytes, n0, m)
          /\ \A i \in 0..(m - 1) : /\ cu + i \in Node
                                   /\ loop[m].table[cu + i].db_index = FreeBlock(loop[i].list)
    <3>1. /\ tb \in Table /\ cu \in 0..MAX_DISK /\ li \in List /\ LoopInv(first, tb, cu, li)
          /\ first.table = tb /\ first.cursor = cu /\ h \in Node /\ h < cu /\ Ends(tb, h)
          /\ len \in Nat \ {0} /\ len = ChainLength(tb, h) /\ first.last = Nth(tb, h)[len - 1]
          /\ bytes \in Seq(Byte) /\ n0 \in Nat /\ blocks \in Nat
          /\ \A k \in 0..(blocks - 1) : loop[k].cursor \in Node
      BY <1>3, <1>11, <1>13, <1>14, <1>18, <1>20, <1>21, <1>22, <1>23
    <3>2. Lays(loop, first.writes, tb, cu, h, len, bytes, n0, blocks)
      BY <2>1, <3>1, LoopLays
    <3> QED BY <3>2 DEF Lays
  <2> QED BY <1>23, <2>2
<1>27. blocks \in 0..blocks
  BY <1>18
<1>28. end \in LoopState /\ LoopInv(end, tb, cu, li) /\ Laid(end, tb, cu, h, len, blocks)
       /\ Sent(end, pending, cu, bytes, n0, blocks)
  BY <1>25, <1>26, <1>27 DEF end, LoopInv
<1>29. ASSUME NEW k \in 0..(blocks - 1)
       PROVE  FreeBlock(loop[k].list) # -1 /\ \A x \in Node : tb[x].db_index # FreeBlock(loop[k].list)
  <2>1. end.table[cu + k].db_index = FreeBlock(loop[k].list)
    BY <1>26, <1>27, <1>29 DEF end
  <2>2. /\ Len(end.writes) = Len(pending) + blocks
        /\ end.writes[Len(pending) + k + 1].at = end.table[cu + k].db_index
    BY <1>28, <1>29 DEF Sent
  <2>3. Len(pending) + k + 1 \in 1..Len(end.writes)
    <3>1. PICK l \in Nat : l = Len(pending)
      BY <1>17
    <3> QED BY <1>18, <1>29, <2>2, <3>1
  <2>4. FreeBlock(loop[k].list) # -1
    BY <1>7, <2>1, <2>2, <2>3
  <2>5. ~InUse(FreeBlock(loop[k].list))
    <3>1. k + 1 \in 1..blocks /\ (k + 1) - 1 = k
      BY <1>18, <1>29
    <3>2. \A m \in 1..blocks : ~InUse(FreeBlock(loop[m - 1].list))
      BY <1>7
    <3>3. PICK m : m = k + 1
      OBVIOUS
    <3>4. m \in 1..blocks /\ m - 1 = k
      BY <3>1, <3>3
    <3> QED BY <3>2, <3>4
  <2> QED BY <1>19, <2>4, <2>5 DEF InUse
<1>30. Fresh(end, tb, cu, blocks)
  <2>1. loop = Extended(first, bytes, n0, blocks)
    BY DEF loop
  <2>2. \A m \in 0..blocks : loop[m].cursor = cu + m /\ Continues(loop[m].table, tb, cu)
    BY <1>26 DEF Laid
  <2>3. Fresh(loop[blocks], tb, cu, blocks)
    <3>1. /\ tb \in Table /\ cu \in 0..MAX_DISK /\ li \in List /\ LoopInv(first, tb, cu, li)
          /\ first.table = tb /\ first.cursor = cu /\ BlocksApart(tb, cu)
          /\ bytes \in Seq(Byte) /\ n0 \in Nat /\ blocks \in Nat
          /\ \A k \in 0..(blocks - 1) : loop[k].cursor \in Node
      BY <1>13, <1>14, <1>18, <1>20, <1>21, <1>22, <1>23
    <3>2. \A k \in 0..(blocks - 1) :
             FreeBlock(loop[k].list) # -1 /\ \A x \in Node : tb[x].db_index # FreeBlock(loop[k].list)
      BY <1>29
    <3> QED BY <2>1, <2>2, <3>1, <3>2, LoopFresh
  <2> QED BY <2>3 DEF end
<1>31. IF Pointer(size) = -1 THEN pending = <<>>
       ELSE LET b == tb[h].db_index IN
            /\ len = 1 /\ b \in DataBlock /\ read = BytesAt(pos, b)
            /\ pending = <<[at |-> b, kind |-> "data", bytes |-> Overlay(read, Pointer(size), SubSeq(bytes, 1, n0))]>>
  <2>1. CASE at = -1
    BY <1>10, <2>1 DEF at, pending
  <2>2. CASE at # -1
    <3>1. len = 1
      BY <1>7, <1>11, <2>2
    <3>2. target = tb[h].db_index
      <4>1. Nth(tb, h)[0] = h
        BY <1>3, <1>20, ChainFacts
      <4>2. ChainLength(tb, h) - 1 = 0
        BY <1>11, <1>19, <3>1
      <4> QED BY <1>19, <4>1, <4>2 DEF target, WriteTarget
    <3>3. pending = <<[at |-> target, kind |-> "data", bytes |-> buffer]>>
      BY <2>2 DEF pending
    <3>4. target # -1
      <4>1. Len(pending) = 1 /\ pending[1].at = target
        BY <3>3
      <4>2. end.writes[1] = pending[1] /\ Len(end.writes) = 1 + blocks
        BY <1>28, <4>1 DEF Sent
      <4>3. 1 \in 1..Len(end.writes)
        BY <1>18, <4>2
      <4> QED BY <1>7, <4>1, <4>2, <4>3
    <3>5. target \in DataBlock
      BY <1>3, <1>20, <3>2, <3>4 DEF Sound
    <3>6. buffer = Overlay(read, Pointer(size), SubSeq(bytes, 1, n0))
      BY ZenonT(60), <1>10, <2>2 DEF buffer, at
    <3> QED BY <1>10, <2>2, <3>1, <3>2, <3>3, <3>5, <3>6 DEF at, read
  <2> QED BY <2>1, <2>2
<1>32. Wrote(f, length, h, len, size, n0, blocks, bytes, read, pending, end)
  <2>1. n0 = IF Pointer(size) = -1 THEN 0 ELSE Least(BLOCK_SIZE - Pointer(size), length)
    BY <1>10 DEF n0, at
  <2>2. blocks = (length - n0 + BLOCK_SIZE - 1) \div BLOCK_SIZE
    BY DEF blocks
  <2> QED BY <1>1, <1>3, <1>9, <1>10, <1>11, <1>13, <1>14, <1>19, <1>20, <1>24, <1>28, <1>30, <1>31, <2>1, <2>2 DEF Wrote
<1>33. Grows(f, length, size, end)
  <2>1. /\ entry.name = root.table[f].name /\ entry.fat_index = root.table[f].fat_index
        /\ entry.size = size + length /\ entry.wr_ptr = size + length
    BY <1>2, <1>10 DEF entry, Grown, Entry
  <2>2. /\ root'.next_cursor = root.next_cursor
        /\ root'.table[f] = entry /\ \A g \in Slot \ {f} : root'.table[g] = root.table[g]
    BY <1>2, <1>6 DEF Directory
  <2>3. written' = [written EXCEPT ![f] = size + length]
    BY <1>6, <1>10
  <2> QED BY <1>1, <1>6, <2>1, <2>2, <2>3 DEF Grows
<1> QED BY <1>3, <1>10, <1>11, <1>13, <1>14, <1>15, <1>17, <1>18, <1>28, <1>32, <1>33

(* A number of blocks and the bytes that remain are quotient and remainder. *)
LEMMA Quotients ==
    ASSUME NEW q \in Nat, NEW B \in Nat \ {0}, NEW r \in 0..(B - 1), NEW a \in Nat, a = q * B + r
    PROVE  a \div B = q /\ a % B = r
<1>1. PICK p \in Nat, x \in 0..(B - 1) : p = a \div B /\ x = a % B /\ a = p * B + x
  BY Divided
<1>2. CASE p < q
  <2>1. p * B + B <= q * B
    BY <1>2, TimesMore
  <2>2. p * B \in Nat /\ q * B \in Nat
    BY Times
  <2> QED BY <1>1, <2>1, <2>2
<1>3. CASE q < p
  <2>1. q * B + B <= p * B
    BY <1>3, TimesMore
  <2>2. p * B \in Nat /\ q * B \in Nat
    BY Times
  <2> QED BY <1>1, <2>1, <2>2
<1>4. CASE p = q
  <2>1. p * B \in Nat
    BY Times
  <2>2. x = r
    BY <1>1, <1>4, <2>1
  <2> QED BY <1>1, <1>4, <2>2
<1> QED BY <1>2, <1>3, <1>4

(* Where sfs_write puts byte j of the buffer: in the block at the pointer, as long as there
   is room, or in one of the blocks of the loop. *)
GoesTo(j, size, len, n0, blocks, B) ==
    /\ j < n0 /\ len = 1 => /\ Pointer(size) = size /\ size + j < B
                            /\ (size + j) \div B = 0 /\ (size + j) % B = size + j
    /\ j >= n0 => \E i \in 0..(blocks - 1), x \in 1..B :
                     /\ (size + j) \div B = len + i /\ (size + j) % B = x - 1
                     /\ n0 + i * B + x = j + 1

(* It goes there. *)
LEMMA BytePlace ==
    ASSUME NEW size \in Nat, NEW len \in Nat \ {0}, Filled(size, len), NEW length \in Nat \ {0},
           NEW n0 \in Nat, n0 = (IF Pointer(size) = -1 THEN 0 ELSE Least(BLOCK_SIZE - Pointer(size), length)),
           NEW blocks \in Nat, blocks = (length - n0 + BLOCK_SIZE - 1) \div BLOCK_SIZE,
           NEW B \in Nat \ {0}, B = BLOCK_SIZE, NEW j \in 0..(length - 1), n0 <= length
    PROVE  GoesTo(j, size, len, n0, blocks, B)
<1>1. /\ Pointer(size) = -1 => size = len * B
      /\ Pointer(size) # -1 => size + (B - Pointer(size)) = len * B
      /\ Pointer(size) \in -1..(B - 1)
  BY Room
<1>2. ASSUME j < n0, len = 1
      PROVE  /\ Pointer(size) = size /\ size + j < B
             /\ (size + j) \div B = 0 /\ (size + j) % B = size + j
  <2>1. Pointer(size) # -1 /\ n0 = Least(B - Pointer(size), length)
    BY <1>2
  <2>2. len * B = B
    BY <1>2
  <2>3. Pointer(size) = size
    BY <1>1, <2>1, <2>2
  <2>4. n0 <= B - size
    BY <1>1, <2>1, <2>3 DEF Least
  <2>5. PICK a \in Nat : a = size + j /\ a < B
    BY <1>2, <2>4
  <2>6. a = 0 * B + a /\ a \in 0..(B - 1)
    BY <2>5
  <2>7. a \div B = 0 /\ a % B = a
    <3>1. PICK q \in Nat : q = 0
      OBVIOUS
    <3>2. B \in Nat \ {0} /\ a \in 0..(B - 1) /\ a \in Nat /\ q \in Nat /\ a = q * B + a
      BY <2>6, <3>1
    <3>3. a \div B = q /\ a % B = a
      BY ONLY <3>2, Quotients
    <3> QED BY <3>1, <3>3
  <2> QED BY <2>3, <2>5, <2>7
<1>3. ASSUME j >= n0
      PROVE  \E i \in 0..(blocks - 1), x \in 1..B :
                /\ (size + j) \div B = len + i /\ (size + j) % B = x - 1
                /\ n0 + i * B + x = j + 1
  <2>1. size + n0 = len * B
    <3>1. CASE Pointer(size) = -1
      BY <1>1, <3>1
    <3>2. CASE Pointer(size) # -1
      <4>1. n0 = Least(B - Pointer(size), length) /\ n0 < length
        BY <1>3, <3>2
      <4>2. n0 = B - Pointer(size)
        BY <4>1 DEF Least
      <4> QED BY <1>1, <3>2, <4>2
    <3> QED BY <3>1, <3>2
  <2>2. PICK y \in Nat : y = j - n0 /\ y < length - n0
    BY <1>3
  <2>3. PICK i \in Nat, r \in 0..(B - 1) : y = i * B + r
    <3>1. y \div B \in Nat /\ y % B \in 0..(B - 1) /\ y = (y \div B) * B + (y % B)
      BY Divided
    <3> QED BY Zenon, <3>1
  <2>4. length - n0 <= blocks * B
    <3>1. PICK m \in Nat : m = length - n0
      OBVIOUS
    <3>3. blocks = (m + B - 1) \div B
      BY <3>1
    <3>2. m <= blocks * B
      BY <3>3, Ceiling
    <3> QED BY <3>1, <3>2
  <2>5. PICK iB \in Nat, bB \in Nat, lB \in Nat : iB = i * B /\ bB = blocks * B /\ lB = len * B
    BY Times
  <2>6. i < blocks
    <3> SUFFICES ASSUME blocks <= i PROVE FALSE
      OBVIOUS
    <3>1. bB <= iB
      <4>1. CASE blocks = i
        BY <2>5, <4>1
      <4>2. CASE blocks < i
        <5>1. blocks * B + B <= i * B
          BY <4>2, TimesMore
        <5> QED BY <2>5, <5>1
      <4> QED BY <4>1, <4>2
    <3> QED BY <2>2, <2>3, <2>4, <2>5, <3>1
  <2>7. size + j = (len + i) * B + r
    <3>1. (len + i) * B = len * B + i * B
      OBVIOUS
    <3> QED BY <2>1, <2>2, <2>3, <2>5, <3>1
  <2>8. (size + j) \div B = len + i /\ (size + j) % B = r
    <3>1. PICK q \in Nat, a \in Nat : q = len + i /\ a = size + j
      OBVIOUS
    <3>2. a = q * B + r
      BY <2>7, <3>1
    <3>3. a \div B = q /\ a % B = r
      <4>1. q \in Nat /\ B \in Nat \ {0} /\ r \in 0..(B - 1) /\ a \in Nat
        OBVIOUS
      <4> QED BY ONLY <3>2, <4>1, Quotients
    <3> QED BY <3>1, <3>3
  <2>9. PICK x \in 1..B : x = r + 1
    OBVIOUS
  <2>10. n0 + i * B + x = j + 1
    BY <2>2, <2>3, <2>5, <2>9
  <2>11. i \in 0..(blocks - 1) /\ r = x - 1
    BY <2>6, <2>9
  <2> QED BY <2>8, <2>10, <2>11
<1> QED BY Zenon, <1>2, <1>3 DEF GoesTo

(* The writes that are queued are those of the loop. *)
LEMMA QueuedWrites ==
    ASSUME NEW writes \in Seq(DataWrite), todo' = writes \o Save, NEW b
    PROVE  /\ Pending(b)' = {p \in 1..Len(writes) : writes[p].at = b}
           /\ \A p \in 1..Len(writes) : todo'[p] = writes[p]
<1>1. PICK l \in Nat : l = Len(writes)
  OBVIOUS
<1>2. PICK q : q = todo'
  OBVIOUS
<1>3. q = writes \o Save /\ Len(q) = l + 3
  BY <1>1, <1>2, Queued
<1>4. \A p \in 1..l : q[p] = writes[p] /\ writes[p].kind = "data"
  <2> SUFFICES ASSUME NEW p \in 1..l PROVE q[p] = writes[p] /\ writes[p].kind = "data"
    OBVIOUS
  <2>1. writes[p] \in DataWrite
    BY <1>1
  <2>2. Save \in Seq(PendingWrite)
    BY SaveList
  <2>3. q[p] = writes[p]
    BY <1>1, <1>3, <2>2
  <2> QED BY <2>1, <2>3 DEF DataWrite
<1>5. \A p \in 1..Len(q) : p \notin 1..l => q[p].kind # "data"
  <2> SUFFICES ASSUME NEW p \in 1..Len(q), p \notin 1..l PROVE q[p].kind # "data"
    OBVIOUS
  <2>1. q[p] = Save[p - Len(q) + 3] /\ p - Len(q) + 3 \in 1..3
    <3>1. ~(p <= Len(q) - 3)
      BY <1>3
    <3>2. q[p] = Save[p - Len(q) + 3]
      BY <1>3, <3>1, Queued
    <3> QED BY <1>3, <3>2
  <2>2. \A i \in 1..3 : Save[i].kind # "data"
    BY SaveList
  <2> QED BY <2>1, <2>2
<1>6. Pending(b)' = {p \in 1..Len(q) : q[p].kind = "data" /\ q[p].at = b}
  BY <1>2 DEF Pending
<1>7. {p \in 1..Len(q) : q[p].kind = "data" /\ q[p].at = b} = {p \in 1..Len(writes) : writes[p].at = b}
  BY <1>1, <1>3, <1>4, <1>5
<1> QED BY <1>1, <1>2, <1>4, <1>6, <1>7

(* No two of the writes of sfs_write go to the same block. *)
Separate(s, w, tb, cu, h, size, blocks) ==
    /\ \A i \in 0..(blocks - 1) :
          /\ s.table[cu + i].db_index \in DataBlock
          /\ Pending(s.table[cu + i].db_index)' = {Len(w) + i + 1}
    /\ Pointer(size) # -1 => Pending(tb[h].db_index)' = {1}
    /\ \A b : /\ \A i \in 0..(blocks - 1) : s.table[cu + i].db_index # b
              /\ Pointer(size) # -1 => tb[h].db_index # b
              => Pending(b)' = {}

(* sfs_write separates them, when it misplaces nothing. *)
LEMMA WritesApart ==
    ASSUME IInv, NEW f \in Slot, NEW length, NEW h \in Node, NEW len \in Nat \ {0}, NEW size \in Nat, NEW n0 \in Nat,
           NEW blocks \in Nat, NEW bytes \in Seq(Byte), NEW old \in Bytes, NEW w \in Seq(DataWrite), NEW s \in LoopState,
           Wrote(f, length, h, len, size, n0, blocks, bytes, old, w, s), Grows(f, length, size, s),
           NEW tb \in Table, tb = fat.table, NEW cu \in Nat, cu = fat.next_cursor
    PROVE  Separate(s, w, tb, cu, h, size, blocks)
<1>0. PICK w0 \in Nat : w0 = Len(w)
  OBVIOUS
<1>1. PICK q, t : q = s.writes /\ w0 = Len(w) /\ t = s.table
  BY <1>0
<1>2. q \in Seq(DataWrite) /\ todo' = q \o Save
  BY <1>1 DEF LoopState, Grows
<1>3. \A b : Pending(b)' = {p \in 1..Len(q) : q[p].at = b}
  BY <1>2, QueuedWrites
<1>4. /\ Len(q) = w0 + blocks
      /\ \A p \in 1..w0 : q[p] = w[p]
      /\ \A i \in 0..(blocks - 1) : q[w0 + i + 1].at = t[cu + i].db_index
  BY Zenon, <1>1 DEF Wrote, Sent
<1>5. /\ BlocksApart(t, s.cursor) /\ s.cursor = cu + blocks
      /\ \A i \in 0..(blocks - 1) : t[cu + i].db_index \in DataBlock /\ \A n \in Node : tb[n].db_index # t[cu + i].db_index
  BY ZenonT(60), <1>1 DEF Wrote, Fresh, Laid
<1>6. (Pointer(size) = -1 /\ w0 = 0) \/ (Pointer(size) # -1 /\ w0 = 1 /\ w[1].at = tb[h].db_index)
  <2>1. IF Pointer(size) = -1 THEN w = <<>>
        ELSE w = <<[at |-> tb[h].db_index, kind |-> "data", bytes |-> Overlay(old, Pointer(size), SubSeq(bytes, 1, n0))]>>
    BY DEF Wrote
  <2>2. CASE Pointer(size) = -1
    BY <1>1, <2>1, <2>2
  <2>3. CASE Pointer(size) # -1
    <3>1. PICK r : r = [at |-> tb[h].db_index, kind |-> "data", bytes |-> Overlay(old, Pointer(size), SubSeq(bytes, 1, n0))]
      OBVIOUS
    <3>2. w = <<r>> /\ r.at = tb[h].db_index
      BY <2>1, <2>3, <3>1
    <3>3. Len(w) = 1 /\ w[1] = r
      BY <3>2
    <3> QED BY <1>1, <2>3, <3>2, <3>3
  <2> QED BY <2>2, <2>3
<1>7. s.cursor \in 0..MAX_DISK /\ \A i \in 0..(blocks - 1) : cu + i \in Node /\ cu + i < s.cursor
  <2>1. s.cursor \in 0..MAX_DISK /\ MAX_DISK \in Nat
    BY Numbers DEF LoopState
  <2>2. s.cursor = cu + blocks /\ cu + blocks <= MAX_DISK
    BY <1>5, <2>1
  <2>3. \A i \in 0..(blocks - 1) : cu + i \in 0..(MAX_DISK - 1) /\ cu + i < cu + blocks
    BY <2>1, <2>2, Upwards
  <2> QED BY Zenon, <2>1, <2>2, <2>3 DEF Node
<1>8. \A p \in 1..Len(q) : p \in 1..w0 \/ \E i \in 0..(blocks - 1) : p = w0 + i + 1
  <2> SUFFICES ASSUME NEW p \in 1..Len(q), p \notin 1..w0 PROVE \E i \in 0..(blocks - 1) : p = w0 + i + 1
    OBVIOUS
  <2>1. PICK i \in Int : i = p - w0 - 1
    OBVIOUS
  <2>2. i \in 0..(blocks - 1) /\ p = w0 + i + 1
    BY <1>4, <2>1
  <2> QED BY <2>2
<1>9. ASSUME NEW i \in 0..(blocks - 1), NEW m \in 0..(blocks - 1), t[cu + i].db_index = t[cu + m].db_index
      PROVE  i = m
  <2>1. t[cu + i].db_index # -1
    BY <1>5, Numbers
  <2>2. cu + i = cu + m
    BY <1>5, <1>7, <1>9, <2>1 DEF BlocksApart
  <2>3. cu \in Nat /\ i \in Int /\ m \in Int
    OBVIOUS
  <2> QED BY ONLY <2>2, <2>3
<1>10. ASSUME NEW i \in 0..(blocks - 1)
       PROVE  t[cu + i].db_index \in DataBlock /\ {p \in 1..Len(q) : q[p].at = t[cu + i].db_index} = {w0 + i + 1}
  <2>1. w0 + i + 1 \in 1..Len(q) /\ q[w0 + i + 1].at = t[cu + i].db_index
    BY <1>4
  <2>2. ASSUME NEW p \in 1..Len(q), q[p].at = t[cu + i].db_index PROVE p = w0 + i + 1
    <3>1. CASE p \in 1..w0
      <4>1. q[p].at = tb[h].db_index
        <5>1. w0 = 1 /\ p = 1 /\ q[p] = w[p]
          BY <1>4, <1>6, <3>1
        <5> QED BY <1>6, <5>1
      <4> QED BY <1>5, <2>2, <4>1
    <3>2. CASE \E m \in 0..(blocks - 1) : p = w0 + m + 1
      <4>1. PICK m \in 0..(blocks - 1) : p = w0 + m + 1
        BY <3>2
      <4>2. i = m
        BY <1>4, <1>9, <2>2, <4>1
      <4> QED BY <4>1, <4>2
    <3> QED BY <1>8, <3>1, <3>2
  <2> QED BY <1>5, <2>1, <2>2
<1>11. ASSUME Pointer(size) # -1 PROVE {p \in 1..Len(q) : q[p].at = tb[h].db_index} = {1}
  <2>1. w0 = 1 /\ 1 \in 1..Len(q) /\ q[1].at = tb[h].db_index
    BY <1>4, <1>6, <1>11
  <2>2. ASSUME NEW p \in 1..Len(q), q[p].at = tb[h].db_index, p # 1 PROVE FALSE
    <3>1. PICK m \in 0..(blocks - 1) : p = w0 + m + 1
      BY <1>8, <2>1, <2>2
    <3> QED BY <1>4, <1>5, <2>2, <3>1
  <2> QED BY <2>1, <2>2
<1>12. ASSUME NEW b, \A i \in 0..(blocks - 1) : t[cu + i].db_index # b, Pointer(size) # -1 => tb[h].db_index # b
       PROVE  {p \in 1..Len(q) : q[p].at = b} = {}
  <2> SUFFICES ASSUME NEW p \in 1..Len(q), q[p].at = b PROVE FALSE
    OBVIOUS
  <2>1. CASE p \in 1..w0
    <3>1. w0 = 1 /\ p = 1 /\ q[p] = w[p]
      BY <1>4, <1>6, <2>1
    <3> QED BY <1>6, <1>12, <3>1
  <2>2. CASE \E m \in 0..(blocks - 1) : p = w0 + m + 1
    BY <1>4, <1>12, <2>2
  <2> QED BY <1>8, <2>1, <2>2
<1>13. \A i \in 0..(blocks - 1) :
          t[cu + i].db_index \in DataBlock /\ Pending(t[cu + i].db_index)' = {w0 + i + 1}
  BY <1>3, <1>10
<1>14. Pointer(size) # -1 => Pending(tb[h].db_index)' = {1}
  BY <1>3, <1>11
<1>15. \A b : /\ \A i \in 0..(blocks - 1) : t[cu + i].db_index # b
              /\ Pointer(size) # -1 => tb[h].db_index # b
              => Pending(b)' = {}
  BY <1>3, <1>12
<1> QED BY <1>1, <1>13, <1>14, <1>15 DEF Separate

(* The bytes that files had when sfs_write is called are still there, or are written
   again. *)
LEMMA OldBytes ==
    ASSUME IInv, Contents, NEW f \in Slot, NEW length, NEW h \in Node, NEW len \in Nat \ {0}, NEW size \in Nat, NEW n0 \in Nat,
           NEW blocks \in Nat, NEW bytes \in Seq(Byte), NEW old \in Bytes, NEW w \in Seq(DataWrite), NEW s \in LoopState,
           Wrote(f, length, h, len, size, n0, blocks, bytes, old, w, s), Grows(f, length, size, s),
           NEW g \in Slot, NEW k \in 0..(written[g] - 1), NEW x, x = root.table[g].fat_index
    PROVE  Coming(s.table, x, g, k)'
<1>1. PICK tb, cu, t : tb = fat.table /\ cu = fat.next_cursor /\ t = s.table
  OBVIOUS
<1>2. /\ tb \in Table /\ cu \in 0..MAX_DISK /\ cu \in Nat /\ Sound(tb, cu) /\ todo = <<>>
      /\ InMemory /\ Ahead /\ written[g] \in Nat /\ BLOCK_SIZE \in Nat \ {0} /\ MAX_DISK \in Nat
  <2>1. phase = "idle" /\ Running
    BY DEF Grows, Running
  <2>2. fat \in Chains /\ written \in [Slot -> Nat]
    BY DEF IInv, Types
  <2>3. Sound(tb, cu) /\ todo = <<>>
    BY <1>1, <2>1 DEF IInv, DiskInv, TodoInv
  <2> QED BY <1>1, <2>1, <2>2, <2>3, Numbers DEF Chains, Contents
<1>3. k \in Nat /\ written[g] > 0 /\ Named(root, g) /\ Coming(tb, x, g, k)
  <2>1. k \in Nat /\ written[g] > 0
    BY SMTT(40), <1>2
  <2> QED BY <1>1, <1>2, <2>1 DEF Ahead
<1>4. /\ Rooted(root, tb, cu) /\ HeadsApart(root) /\ BlocksApart(tb, cu) /\ x \in Node /\ x < cu
  <2>1. f \in Nat /\ opened_files \in Nat /\ f < opened_files
    BY DEF IInv, Types, Slot, Wrote
  <2>2. Rooted(root, tb, cu) /\ HeadsApart(root) /\ BlocksApart(tb, cu)
    BY <1>1, <1>2, <2>1 DEF InMemory, Apart
  <2>3. x \in Node
    BY ZenonT(60) DEF IInv, Types, Directory, Entry
  <2> QED BY <1>3, <2>2, <2>3 DEF Rooted
<1>5. Continues(t, tb, cu)
  BY <1>1 DEF Wrote, Laid
<1>6. PICK i : i = k \div BLOCK_SIZE
  OBVIOUS
<1>7. PICK y : y = Nth(tb, x)[i]
  OBVIOUS
<1>8. PICK b : b = Place(tb, x, k)
  BY Zenon
<1>9. /\ i \in 0..(MAX_DISK - 1) /\ y \in Node /\ b \in DataBlock /\ b = tb[y].db_index
      /\ WillHold(b, (k % BLOCK_SIZE) + 1, <<g, k>>) /\ Located(tb, x, k)
  BY Zenon, <1>3, <1>6, <1>7, <1>8 DEF Coming, Located, Place
<1>10. /\ Located(t, x, k) /\ Place(t, x, k) = b /\ y < cu
  <2>1. Located(t, x, k) /\ Place(t, x, k) = Place(tb, x, k) /\ Nth(tb, x)[k \div BLOCK_SIZE] < cu
    <3>1. tb \in Table /\ cu \in 0..MAX_DISK /\ Sound(tb, cu) /\ k \in Nat
      BY <1>2, <1>3
    <3>2. x \in Node /\ x < cu /\ Continues(t, tb, cu) /\ Located(tb, x, k)
      BY <1>4, <1>5, <1>9
    <3> QED BY <3>1, <3>2, PlaceKept
  <2> QED BY <1>6, <1>7, <1>8, <2>1
<1>11. HasByte(b, (k % BLOCK_SIZE) + 1, <<g, k>>)
  <2>1. Pending(b) = {}
    BY <1>2 DEF Pending
  <2> QED BY <1>9, <2>1 DEF WillHold
<1>12. HasByte(b, (k % BLOCK_SIZE) + 1, <<g, k>>)'
  <2>1. disk' = disk
    BY Zenon DEF Grows
  <2> QED BY Zenon, <1>11, <2>1 DEF HasByte
<1>13. \A m \in 0..(blocks - 1) : t[cu + m].db_index # b
  BY <1>1, <1>9 DEF Wrote, Fresh
<1>16. Separate(s, w, tb, cu, h, size, blocks)
  BY <1>1, <1>2, WritesApart
<1>14. CASE Pointer(size) # -1 /\ tb[h].db_index = b
  <2>1. h < cu /\ len = 1
    BY <1>1, <1>14 DEF Wrote
  <2>2. y = h
    <3>1. b # -1
      BY <1>9, Numbers
    <3> QED BY <1>4, <1>9, <1>10, <1>14, <2>1, <3>1 DEF BlocksApart
  <2>3. i = 0
    <3> SUFFICES ASSUME i # 0 PROVE FALSE
      OBVIOUS
    <3>1. PICK m \in 0..(MAX_DISK - 1) : i = m + 1
      <4>1. i - 1 \in 0..(MAX_DISK - 1) /\ i = (i - 1) + 1
        BY <1>2, <1>9
      <4> QED BY <4>1
    <3>2. PICK z : z = Nth(tb, x)[m]
      OBVIOUS
    <3>3. y = After(tb, z)
      <4>0. MAX_DISK \in Nat /\ m \in 0..(MAX_DISK - 1)
        BY <1>2
      <4>1. m + 1 \in 1..MAX_DISK /\ (m + 1) - 1 = m
        BY ONLY <4>0
      <4> QED BY <1>2, <1>4, <1>7, <3>1, <3>2, <4>1, NthSteps
    <3>4. z \in Node /\ tb[z].next = h
      BY <1>9, <2>2, <3>3 DEF After
    <3>5. z < cu
      <4>1. Continues(tb, tb, cu)
        BY DEF Continues
      <4> QED BY <1>2, <1>4, <3>2, <3>4, <4>1, NodesKept
    <3>6. h = root.table[f].fat_index /\ Named(root, f)
      BY DEF Wrote
    <3> QED BY <1>4, <3>4, <3>5, <3>6 DEF Rooted
  <2>4. g = f
    <3>1. Nth(tb, x)[0] = x
      BY ZenonT(60), <1>2, <1>4, NthSteps
    <3>2. x = h /\ h = root.table[f].fat_index /\ Named(root, f)
      BY <1>7, <2>2, <2>3, <3>1 DEF Wrote
    <3> QED BY <1>3, <1>4, <3>2 DEF HeadsApart
  <2>5. k < size /\ size = Pointer(size) /\ Pointer(size) \in 0..(BLOCK_SIZE - 1)
    <3>1. k < size
      BY SMTT(40), <1>2, <2>4 DEF Wrote
    <3>2. PICK B \in Nat \ {0} : B = BLOCK_SIZE
      BY <1>2
    <3>3. /\ size + (B - Pointer(size)) = len * B
          /\ Pointer(size) \in -1..(B - 1)
      <4>1. Filled(size, len)
        BY DEF Wrote
      <4> QED BY <1>14, <3>2, <4>1, Room
    <3>4. size + (B - Pointer(size)) = B
      <4>1. len * B = B
        BY <2>1
      <4> QED BY Zenon, <3>3, <4>1
    <3>5. PICK p : p = Pointer(size)
      OBVIOUS
    <3>6. p \in -1..(B - 1) /\ p # -1 /\ size + (B - p) = B /\ size \in Nat /\ B \in Nat
      BY Zenon, <1>14, <3>2, <3>3, <3>4, <3>5
    <3>7. size = p /\ p \in 0..(B - 1)
      BY ONLY <3>6
    <3> QED BY Zenon, <3>1, <3>2, <3>5, <3>7
  <2>6. k % BLOCK_SIZE = k
    <3>1. PICK q \in Nat : q = 0
      OBVIOUS
    <3>2. k \in 0..(BLOCK_SIZE - 1) /\ k = q * BLOCK_SIZE + k /\ q \in Nat /\ k \in Nat /\ BLOCK_SIZE \in Nat \ {0}
      BY <1>2, <1>3, <2>5, <3>1
    <3> QED BY ONLY <3>2, Quotients
  <2>7. Pending(b)' = {1} /\ todo'[1] = w[1] /\ w[1].bytes = Overlay(old, Pointer(size), SubSeq(bytes, 1, n0))
    <3>1. Pending(tb[h].db_index)' = {1}
      BY <1>14, <1>16 DEF Separate
    <3>2. PICK o : o = Overlay(old, Pointer(size), SubSeq(bytes, 1, n0))
      OBVIOUS
    <3>3. w = <<[at |-> tb[h].db_index, kind |-> "data", bytes |-> o]>>
      BY <1>1, <1>14, <3>2 DEF Wrote
    <3>4. Len(w) = 1 /\ w[1].bytes = o
      BY ZenonT(60), <3>3
    <3>5. s.writes[1] = w[1] /\ Len(s.writes) = 1 + blocks
      BY <3>4 DEF Wrote, Sent
    <3>6. todo'[1] = s.writes[1]
      <4>1. s.writes \in Seq(DataWrite) /\ todo' = s.writes \o Save /\ 1 \in 1..Len(s.writes)
        BY <3>5 DEF LoopState, Grows
      <4> QED BY <4>1, QueuedWrites
    <3> QED BY <1>14, <3>1, <3>2, <3>4, <3>5, <3>6
  <2>8. Overlay(old, Pointer(size), SubSeq(bytes, 1, n0))[k + 1] = <<g, k>>
    <3>1. k + 1 \in 1..BLOCK_SIZE /\ ~(Pointer(size) + 1 <= k + 1)
      BY <1>2, <1>3, <2>5
    <3>2. Overlay(old, Pointer(size), SubSeq(bytes, 1, n0))[k + 1] = old[k + 1]
      BY <3>1 DEF Overlay
    <3>3. old = BytesAt(pos, b)
      BY <1>1, <1>14 DEF Wrote
    <3>4. b \in Address /\ ~(b < 0)
      <4>1. b \in Nat /\ b \in Address
        BY <1>9, Numbers
      <4> QED BY <4>1
    <3>5. old = disk[b].content
      BY <1>11, <3>3, <3>4 DEF BytesAt, Seek, HasByte
    <3> QED BY <1>11, <2>6, <3>2, <3>5 DEF HasByte
  <2>9. WillHold(b, k + 1, <<g, k>>)'
    <3>1. \A p \in {1} : todo'[p].bytes[k + 1] = <<g, k>>
      BY <2>7, <2>8
    <3> QED BY <2>7, <3>1 DEF WillHold
  <2> QED BY <1>1, <1>10, <2>6, <2>9 DEF Coming
<1>15. CASE ~(Pointer(size) # -1 /\ tb[h].db_index = b)
  <2>1. Pending(b)' = {}
    BY <1>1, <1>13, <1>15, <1>16 DEF Separate
  <2>2. WillHold(b, (k % BLOCK_SIZE) + 1, <<g, k>>)'
    BY <1>12, <2>1 DEF WillHold
  <2> QED BY <1>1, <1>10, <2>2 DEF Coming
<1> QED BY <1>14, <1>15

(* The bytes of the call are on their way to where the chain of the file leads. *)
LEMMA NewBytes ==
    ASSUME IInv, NEW f \in Slot, NEW length, NEW h \in Node, NEW len \in Nat \ {0}, NEW size \in Nat, NEW n0 \in Nat,
           NEW blocks \in Nat, NEW bytes \in Seq(Byte), NEW old \in Bytes, NEW w \in Seq(DataWrite), NEW s \in LoopState,
           Wrote(f, length, h, len, size, n0, blocks, bytes, old, w, s), Grows(f, length, size, s),
           NEW j \in 0..(length - 1), NEW k, k = size + j
    PROVE  Coming(s.table, h, f, k)'
<1>1. PICK tb, cu, t : tb = fat.table /\ cu = fat.next_cursor /\ t = s.table
  OBVIOUS
<1>2. /\ tb \in Table /\ cu \in 0..MAX_DISK /\ cu \in Nat /\ Sound(tb, cu) /\ t \in Table
      /\ BLOCK_SIZE \in Nat \ {0} /\ MAX_DISK \in Nat
  <2>1. phase = "idle" /\ Running
    BY DEF Grows, Running
  <2>2. fat \in Chains
    BY DEF IInv, Types
  <2>3. Sound(tb, cu)
    BY <1>1, <2>1 DEF IInv, DiskInv
  <2> QED BY <1>1, <2>1, <2>2, <2>3, Numbers DEF Chains, LoopState
<1>3. Separate(s, w, tb, cu, h, size, blocks)
  BY Zenon, <1>1, <1>2, WritesApart
<1>4. PICK B \in Nat \ {0} : B = BLOCK_SIZE
  BY <1>2
<1>5. /\ length \in Nat \ {0} /\ bytes = [m \in 1..length |-> <<f, size + m - 1>>] /\ n0 <= length /\ h < cu
      /\ Continues(t, tb, cu) /\ Ends(t, h) /\ ChainLength(t, h) = len + blocks
      /\ \A i \in 0..(blocks - 1) : Nth(t, h)[len + i] = cu + i
  BY Zenon, <1>1 DEF Wrote, Laid
<1>6. k \in Nat /\ j \in Nat /\ Len(bytes) = length /\ bytes[j + 1] = <<f, k>>
  <2>1. j + 1 \in 1..length /\ size + (j + 1) - 1 = k /\ k \in Nat /\ j \in Nat
    BY <1>5
  <2>2. Len(bytes) = length
    BY <1>5
  <2>3. bytes[j + 1] = <<f, size + (j + 1) - 1>>
    BY <1>5, <2>1
  <2> QED BY <2>1, <2>2, <2>3
<1>7. /\ j < n0 /\ len = 1 => Pointer(size) = size /\ k < B /\ k \div B = 0 /\ k % B = k
      /\ j >= n0 => \E i \in 0..(blocks - 1), x \in 1..B :
                       k \div B = len + i /\ k % B = x - 1 /\ n0 + i * B + x = j + 1
  <2>1. /\ Filled(size, len) /\ n0 = (IF Pointer(size) = -1 THEN 0 ELSE Least(BLOCK_SIZE - Pointer(size), length))
        /\ blocks = (length - n0 + BLOCK_SIZE - 1) \div BLOCK_SIZE
    BY DEF Wrote
  <2>2. GoesTo(j, size, len, n0, blocks, B)
    BY <1>4, <1>5, <2>1, BytePlace
  <2> QED BY Zenon, <2>2 DEF GoesTo
<1>8. s.writes \in Seq(DataWrite) /\ \A p \in 1..Len(s.writes) : todo'[p] = s.writes[p]
  <2>1. s.writes \in Seq(DataWrite) /\ todo' = s.writes \o Save
    BY DEF LoopState, Grows
  <2> QED BY <2>1, QueuedWrites
<1>9. CASE j < n0
  <2>1. Pointer(size) # -1 /\ len = 1 /\ tb[h].db_index \in DataBlock
    <3>1. n0 = IF Pointer(size) = -1 THEN 0 ELSE Least(BLOCK_SIZE - Pointer(size), length)
      BY Zenon DEF Wrote
    <3>2. Pointer(size) # -1
      BY ONLY <1>6, <1>9, <3>1
    <3>3. Pointer(size) # -1 => len = 1 /\ fat.table[h].db_index \in DataBlock
      BY ZenonT(40) DEF Wrote
    <3> QED BY ONLY <1>1, <3>2, <3>3
  <2>2. Pointer(size) = size /\ k < B /\ k \div B = 0 /\ k % B = k
    BY <1>7, <1>9, <2>1
  <2>3. PICK b \in DataBlock : b = tb[h].db_index
    BY <2>1
  <2>4. t[h].db_index = b /\ Nth(t, h)[0] = h
    BY <1>2, <1>5, <2>3, NthSteps DEF Continues
  <2>5. Located(t, h, k) /\ Place(t, h, k) = b
    <3>1. k \div BLOCK_SIZE = 0 /\ 0 \in 0..(MAX_DISK - 1)
      BY <1>4, <2>2, Numbers
    <3> QED BY <2>4, <3>1 DEF Located, Place
  <2>6. Pending(b)' = {1}
    BY <1>3, <2>1, <2>3 DEF Separate
  <2>7. PICK o, sub : o = Overlay(old, size, sub) /\ sub = SubSeq(bytes, 1, n0)
    OBVIOUS
  <2>8. todo'[1].bytes = o
    <3>1. w = <<[at |-> b, kind |-> "data", bytes |-> o]>>
      BY Zenon, <1>1, <2>1, <2>2, <2>3, <2>7 DEF Wrote
    <3>2. Len(w) = 1 /\ w[1].bytes = o
      BY ZenonT(60), <3>1
    <3>3. s.writes[1] = w[1] /\ Len(s.writes) = 1 + blocks
      BY <3>2 DEF Wrote, Sent
    <3>4. 1 \in 1..Len(s.writes)
      BY <3>3
    <3> QED BY <1>8, <3>2, <3>3, <3>4
  <2>9. o[k + 1] = <<f, k>>
    <3>1. Len(sub) = n0 /\ sub[j + 1] = bytes[j + 1]
      <4>1. bytes \in Seq(Byte) /\ n0 \in Nat /\ n0 <= Len(bytes) /\ j \in 0..(n0 - 1) /\ sub = SubSeq(bytes, 1, n0)
        <5>1. n0 <= length /\ length \in Nat
          BY <1>5
        <5>2. Len(bytes) = length /\ j \in Nat
          BY <1>6
        <5>3. n0 <= Len(bytes) /\ j \in 0..(n0 - 1)
          BY <1>9, <5>1, <5>2
        <5> QED BY <2>7, <5>3
      <4> QED BY ONLY <4>1
    <3>2. k + 1 \in 1..BLOCK_SIZE /\ k + 1 \in (size + 1)..(size + Len(sub)) /\ k + 1 - size = j + 1
      <4>1. Len(sub) = n0 /\ k = size + j /\ j < n0 /\ j \in Nat /\ k < B
        BY <1>6, <1>9, <2>2, <3>1
      <4> QED BY <1>4, <4>1
    <3>3. o[k + 1] = sub[k + 1 - size]
      <4>1. PICK c : c = k + 1
        OBVIOUS
      <4>2. o[c] = sub[c - size]
        BY <2>7, <3>2, <4>1 DEF Overlay
      <4> QED BY <4>1, <4>2
    <3> QED BY <1>6, <3>1, <3>2, <3>3
  <2>10. WillHold(b, k + 1, <<f, k>>)'
    <3>1. \A p \in {1} : todo'[p].bytes[k + 1] = <<f, k>>
      BY <2>8, <2>9
    <3> QED BY <2>6, <3>1 DEF WillHold
  <2>11. (k % BLOCK_SIZE) + 1 = k + 1
    BY <1>4, <2>2
  <2> QED BY Zenon, <1>1, <2>5, <2>10, <2>11 DEF Coming
<1>10. CASE j >= n0
  <2>1. PICK i \in 0..(blocks - 1), x \in 1..B :
           k \div B = len + i /\ k % B = x - 1 /\ n0 + i * B + x = j + 1
    BY <1>7, <1>10
  <2>2. PICK b : b = t[cu + i].db_index
    OBVIOUS
  <2>3. b \in DataBlock /\ Pending(b)' = {Len(w) + i + 1}
    BY <1>1, <1>3, <2>2 DEF Separate
  <2>4. len + i \in 0..(len + blocks - 1) /\ len + blocks <= MAX_DISK
    <3>1. ChainLength(t, h) \in 1..MAX_DISK
      BY <1>2, <1>5, ChainFacts
    <3> QED BY <1>2, <1>5, <3>1
  <2>5. Nth(t, h)[len + i] = cu + i /\ cu + i \in Node
    <3>1. \A m \in 0..(ChainLength(t, h) - 1) : Nth(t, h)[m] \in Node
      BY <1>2, <1>5, ChainFacts
    <3>2. Nth(t, h)[len + i] \in Node
      BY <1>5, <2>4, <3>1
    <3> QED BY <1>5, <3>2
  <2>6. Located(t, h, k) /\ Place(t, h, k) = b
    <3>1. k \div BLOCK_SIZE = len + i /\ len + i \in 0..(MAX_DISK - 1)
      BY <1>2, <1>4, <2>1, <2>4
    <3> QED BY <2>2, <2>3, <2>5, <3>1 DEF Located, Place
  <2>7. PICK p : p = Len(w) + i + 1
    OBVIOUS
  <2>8. s.writes[p].bytes[x] = bytes[j + 1] /\ p \in 1..Len(s.writes)
    <3>1. /\ Len(s.writes) = Len(w) + blocks
          /\ \A y \in 1..BLOCK_SIZE :
                n0 + i * BLOCK_SIZE + y <= Len(bytes) => s.writes[p].bytes[y] = bytes[n0 + i * BLOCK_SIZE + y]
      BY <2>7 DEF Wrote, Sent
    <3>2. n0 + i * BLOCK_SIZE + x = j + 1 /\ x \in 1..BLOCK_SIZE
      BY <1>4, <2>1
    <3>3. j + 1 <= Len(bytes)
      BY <1>5, <1>6
    <3>4. s.writes[p].bytes[x] = bytes[j + 1]
      BY <3>1, <3>2, <3>3
    <3>5. PICK l \in Nat : l = Len(w)
      OBVIOUS
    <3>6. p \in 1..Len(s.writes)
      BY <2>7, <3>1, <3>5
    <3> QED BY ZenonT(60), <3>4, <3>6
  <2>9. todo'[p].bytes[x] = <<f, k>>
    BY <1>6, <1>8, <2>8
  <2>10. WillHold(b, x, <<f, k>>)'
    BY <2>3, <2>7, <2>9 DEF WillHold
  <2>11. (k % BLOCK_SIZE) + 1 = x
    BY <1>4, <2>1
  <2> QED BY <1>1, <2>6, <2>10, <2>11 DEF Coming
<1> QED BY <1>5, <1>6, <1>9, <1>10

(* sfs_write: the bytes it adds are on their way, and the others where they were. *)
LEMMA WroteContents ==
    ASSUME IInv, Contents, NEW f \in Slot, NEW length, NEW h \in Node, NEW len \in Nat \ {0}, NEW size \in Nat, NEW n0 \in Nat,
           NEW blocks \in Nat, NEW bytes \in Seq(Byte), NEW old \in Bytes, NEW w \in Seq(DataWrite), NEW s \in LoopState,
           Wrote(f, length, h, len, size, n0, blocks, bytes, old, w, s), Grows(f, length, size, s)
    PROVE  Contents'
<1>1. PICK tb, cu, t, c2, d : tb = fat.table /\ cu = fat.next_cursor /\ t = s.table /\ c2 = s.cursor /\ d = root
  OBVIOUS
<1>2. PICK r, w2 : r = root' /\ w2 = written'
  OBVIOUS
<1>3. /\ phase = "idle" /\ Running /\ d \in Directory /\ written \in [Slot -> Nat]
      /\ tb \in Table /\ cu \in 0..MAX_DISK /\ cu \in Nat /\ Sound(tb, cu)
      /\ t \in Table /\ c2 \in 0..MAX_DISK /\ c2 \in Nat
      /\ InMemory /\ Between /\ Ahead /\ OnTheDisk(acked) /\ acked = written /\ StoredFat = fat
  <2>1. phase = "idle" /\ Running
    BY DEF Grows, Running
  <2>2. fat \in Chains /\ written \in [Slot -> Nat] /\ root \in Directory
    BY DEF IInv, Types
  <2>3. Sound(tb, cu) /\ StoredFat = fat
    BY <1>1, <2>1 DEF IInv, DiskInv, TodoInv
  <2>4. InMemory /\ Between /\ Ahead /\ OnTheDisk(acked)
    BY <2>1 DEF Contents
  <2>5. acked = written
    BY <2>1, <2>4 DEF Between
  <2> QED BY <1>1, <2>1, <2>2, <2>3, <2>4, <2>5, Numbers DEF Chains, LoopState
<1>4. /\ fat'.table = t /\ fat'.next_cursor = c2 /\ phase' = "busy"
      /\ r.next_cursor = d.next_cursor
      /\ \A g \in Slot : r.table[g].name = d.table[g].name /\ r.table[g].fat_index = d.table[g].fat_index
      /\ r.table[f].size = size + length /\ r.table[f].wr_ptr = size + length
      /\ \A g \in Slot \ {f} : r.table[g].size = d.table[g].size /\ r.table[g].wr_ptr = d.table[g].wr_ptr
      /\ disk' = disk /\ opened_files' = opened_files /\ acked' = acked /\ todo' = s.writes \o Save
  BY <1>1, <1>2 DEF Grows
<1>5. w2[f] = size + length /\ \A g \in Slot \ {f} : w2[g] = written[g]
  BY Zenon, <1>2, <1>3 DEF Grows
<1>6. /\ f < opened_files /\ Named(d, f) /\ h = d.table[f].fat_index /\ h < cu
      /\ size = written[f] /\ length \in Nat \ {0}
      /\ BlocksApart(t, c2) /\ c2 = cu + blocks /\ Continues(t, tb, cu) /\ LoopInv(s, tb, cu, freebl)
      /\ Longer(t, tb, d, f, blocks, s.last)
  BY Zenon, <1>1 DEF Wrote, Fresh, Laid
<1>7. opened_files \in Nat /\ opened_files > 0
  <2>1. f \in Nat /\ opened_files \in Nat
    BY DEF IInv, Types, Slot
  <2> QED BY <1>6, <2>1
<1>8. /\ Full(d) /\ HeadsApart(d) /\ Rooted(d, tb, cu) /\ Rooted(d, t, c2)
      /\ \A g \in Slot : Named(d, g) /\ d.table[g].size = 0 =>
            written[g] = 0 /\ (d.table[g].fat_index < cu => tb[d.table[g].fat_index].next = -1)
  <2>1. /\ Full(d) /\ HeadsApart(d) /\ Rooted(d, tb, cu)
        /\ \A g \in Slot : Named(d, g) /\ d.table[g].size = 0 =>
              written[g] = 0 /\ (d.table[g].fat_index < cu => tb[d.table[g].fat_index].next = -1)
    BY <1>1, <1>3, <1>7 DEF InMemory, Apart
  <2>2. Rooted(d, t, c2)
    BY <1>1, <1>3, <1>6, <2>1 DEF LoopInv
  <2> QED BY <2>1, <2>2
<1>9. \A g \in Slot : Named(r, g) <=> Named(d, g)
  BY <1>4 DEF Named
<1>10. Full(r) /\ HeadsApart(r) /\ Rooted(r, t, c2) /\ Handles'
  <2>1. Full(r)
    BY <1>4, <1>8, <1>9 DEF Full
  <2>2. HeadsApart(r)
    BY <1>4, <1>8, <1>9 DEF HeadsApart
  <2>3. Rooted(r, t, c2)
    BY <1>4, <1>8, <1>9 DEF Rooted
  <2>4. Handles'
    <3>1. (\A g \in Slot : Named(d, g)) \/ opened_files <= d.next_cursor
      BY <1>1, <1>3 DEF InMemory, Handles
    <3>2. (\A g \in Slot : Named(r, g)) \/ opened_files' <= r.next_cursor
      BY <1>4, <1>9, <3>1
    <3> QED BY <1>2, <3>2 DEF Handles
  <2> QED BY <2>1, <2>2, <2>3, <2>4
<1>11. ASSUME NEW g \in Slot, Named(d, g), r.table[g].size = 0
       PROVE  g # f /\ d.table[g].size = 0 /\ written[g] = 0 /\ w2[g] = 0
  <2>1. size + length # 0
    BY <1>6
  <2>2. g # f
    BY <1>4, <1>11, <2>1
  <2> QED BY <1>4, <1>5, <1>8, <1>11, <2>2
<1>12. Apart(r, t, c2, w2)
  <2> SUFFICES ASSUME NEW g \in Slot, Named(r, g)
               PROVE  /\ Root(t, c2, r.table[g].fat_index)
                      /\ r.table[g].size = 0 => w2[g] = 0 /\ t[r.table[g].fat_index].next = -1
    BY <1>10 DEF Apart
  <2>1. Named(d, g)
    BY <1>9
  <2>2. PICK x : x = d.table[g].fat_index /\ x = r.table[g].fat_index
    BY <1>4
  <2>3. Root(t, c2, x)
    BY <1>3, <1>8, <2>1, <2>2, FileRoots
  <2>4. ASSUME r.table[g].size = 0 PROVE w2[g] = 0 /\ t[x].next = -1
    <3>1. g # f /\ d.table[g].size = 0 /\ w2[g] = 0
      BY <1>11, <2>1, <2>4
    <3>2. x \in Node /\ x < cu
      BY <1>8, <2>1, <2>2, <2>3 DEF Rooted, Root
    <3>3. tb[x].next = -1
      BY <1>8, <2>1, <2>2, <3>1, <3>2
    <3>4. Ends(tb, x) /\ ChainLength(tb, x) = 1
      BY <3>2, <3>3, SoleNode
    <3>5. Ends(t, x) /\ ChainLength(t, x) = 1
      BY <1>6, <2>1, <2>2, <3>1, <3>4 DEF Longer
    <3>6. /\ Nth(t, x)[0] = x /\ Nth(t, x)[1] = -1
          /\ \A k \in 0..(1 - 1) : Nth(t, x)[k + 1] = t[Nth(t, x)[k]].next
      BY <1>3, <3>2, <3>5, ChainFacts
    <3>7. Nth(t, x)[0 + 1] = t[Nth(t, x)[0]].next
      <4>1. 0 \in 0..(1 - 1)
        OBVIOUS
      <4> QED BY <3>6, <4>1
    <3> QED BY <3>1, <3>6, <3>7
  <2> QED BY <2>2, <2>3, <2>4
<1>13. ASSUME NEW g \in Slot, g < opened_files
       PROVE  Named(r, g) /\ (r.table[g].wr_ptr = r.table[g].size => Sized(r, t, w2, g))
  <2>1. Named(d, g) /\ (d.table[g].wr_ptr = d.table[g].size => Sized(d, tb, written, g))
    BY <1>1, <1>3, <1>13 DEF InMemory
  <2> SUFFICES ASSUME r.table[g].wr_ptr = r.table[g].size PROVE Sized(r, t, w2, g)
    BY <1>9, <2>1
  <2>2. PICK x : x = d.table[g].fat_index /\ x = r.table[g].fat_index
    BY SMTT(40), <1>4
  <2>3. CASE g = f
    <3>1. Ends(t, h) /\ ChainLength(t, h) = len + blocks
      BY <1>1 DEF Wrote, Laid
    <3>2. Filled(size + length, len + blocks)
      <4>1. /\ Filled(size, len) /\ n0 = (IF Pointer(size) = -1 THEN 0 ELSE Least(BLOCK_SIZE - Pointer(size), length))
            /\ blocks = (length - n0 + BLOCK_SIZE - 1) \div BLOCK_SIZE
        BY DEF Wrote
      <4> QED BY <1>6, <4>1, StillFilled
    <3> QED BY ZenonT(60), <1>4, <1>5, <1>6, <2>2, <2>3, <3>1, <3>2 DEF Sized
  <2>4. CASE g # f
    <3>1. Sized(d, tb, written, g) /\ r.table[g].wr_ptr = d.table[g].wr_ptr /\ r.table[g].size = d.table[g].size
      BY <1>4, <2>1, <2>4
    <3>2. Ends(t, x) /\ ChainLength(t, x) = ChainLength(tb, x)
      BY <1>6, <2>1, <2>2, <2>4, <3>1 DEF Longer, Sized
    <3> QED BY <1>5, <2>2, <2>4, <3>1, <3>2 DEF Sized
  <2> QED BY <2>3, <2>4
<1>14. InMemory'
  BY <1>2, <1>4, <1>6, <1>10, <1>12, <1>13 DEF InMemory
<1>15. /\ StoredRoot' = StoredRoot /\ StoredFat' = StoredFat /\ StoredList' = StoredList /\ Readable' = Readable
  BY <1>4, DiskSame
<1>16. OnTheDisk(acked)'
  <2>1. \A table, x, g, k : Found(table, x, g, k) => Found(table, x, g, k)'
    BY <1>4 DEF Found, HasByte
  <2>2. PICK rt, ta : rt = StoredRoot /\ ta = StoredFat.table
    OBVIOUS
  <2>3. ASSUME NEW g \in Slot, acked[g] > 0, NEW k \in 0..(acked[g] - 1) PROVE Found(ta, rt.table[g].fat_index, g, k)'
    BY <1>3, <2>1, <2>2, <2>3 DEF OnTheDisk
  <2> QED BY <1>3, <1>4, <1>15, <2>2, <2>3 DEF OnTheDisk
<1>17. Separate(s, w, tb, cu, h, size, blocks)
  BY <1>1, <1>3, WritesApart
<1>18. Between'
  <2>1. ASSUME NEW i \in 1..Len(todo'), todo'[i].kind = "data", todo'[i].at \notin DataBlock PROVE FALSE
    <3>1. PICK b : b = todo'[i].at
      OBVIOUS
    <3>2. i \in Pending(b)'
      BY <2>1, <3>1 DEF Pending
    <3>3. \A m \in 0..(blocks - 1) : t[cu + m].db_index # b
      BY ZenonT(60), <1>1, <1>17, <2>1, <3>1 DEF Separate
    <3>4. Pointer(size) # -1 => tb[h].db_index # b
      BY Zenon, <1>1, <2>1, <3>1 DEF Wrote
    <3>5. Pending(b)' = {}
      BY <1>1, <1>17, <3>3, <3>4 DEF Separate
    <3> QED BY <3>2, <3>5
  <2>2. \A g \in Slot : acked'[g] <= w2[g]
    <3> SUFFICES ASSUME NEW g \in Slot PROVE acked[g] <= w2[g]
      BY <1>4
    <3>1. acked[g] = written[g] /\ written[g] \in Nat
      BY <1>3
    <3> QED BY SMTT(40), <1>5, <1>6, <3>1
  <2>3. StoredFat'.next_cursor = cu /\ StoredFat'.table = tb /\ cu <= c2
    BY <1>1, <1>3, <1>6, <1>15
  <2>4. \A g \in Slot : acked'[g] > 0 => r.table[g].fat_index = StoredRoot'.table[g].fat_index
    BY <1>1, <1>3, <1>4, <1>15 DEF Between
  <2>5. Apart(r, tb, cu, acked)
    <3> SUFFICES ASSUME NEW g \in Slot, Named(r, g)
                 PROVE  /\ Root(tb, cu, r.table[g].fat_index)
                        /\ r.table[g].size = 0 =>
                              acked[g] = 0 /\ (r.table[g].fat_index < cu => tb[r.table[g].fat_index].next = -1)
      BY <1>10 DEF Apart
    <3>1. Named(d, g) /\ r.table[g].fat_index = d.table[g].fat_index
      BY <1>4, <1>9
    <3>2. Root(tb, cu, d.table[g].fat_index)
      BY <1>3, <1>8, <3>1, FileRoots
    <3> QED BY <1>3, <1>8, <1>11, <3>1, <3>2
  <2> QED BY <1>2, <1>4, <1>6, <1>15, <2>1, <2>2, <2>3, <2>4, <2>5 DEF Between
<1>19. Ahead'
  <2>1. ASSUME NEW g \in Slot, w2[g] > 0 PROVE Named(r, g)
    <3>1. CASE g = f
      BY <1>6, <1>9, <3>1
    <3>2. CASE g # f
      BY <1>1, <1>3, <1>5, <1>9, <2>1, <3>2 DEF Ahead
    <3> QED BY <3>1, <3>2
  <2>2. ASSUME NEW g \in Slot, w2[g] > 0, NEW k \in 0..(w2[g] - 1) PROVE Coming(t, r.table[g].fat_index, g, k)'
    <3>1. PICK x : x = r.table[g].fat_index /\ x = d.table[g].fat_index
      BY <1>4
    <3>2. CASE k \in 0..(written[g] - 1)
      <4>1. x = root.table[g].fat_index
        BY <1>1, <3>1
      <4>2. Coming(s.table, x, g, k)'
        BY <3>2, <4>1, OldBytes
      <4> QED BY <1>1, <3>1, <4>2
    <3>3. CASE k \notin 0..(written[g] - 1)
      <4>1. g = f
        BY <1>5, <2>2, <3>3
      <4>2. PICK j \in 0..(length - 1) : k = size + j
        <5>1. k \in 0..(size + length - 1) /\ k \notin 0..(size - 1)
          BY <1>5, <1>6, <2>2, <3>3, <4>1
          <5>0. size \in Nat /\ length \in Nat
            BY <1>6
        <5>2. k - size \in 0..(length - 1) /\ k = size + (k - size)
          BY ONLY <5>0, <5>1
        <5> QED BY <5>2
      <4>3. Coming(s.table, h, f, k)'
        BY <4>2, NewBytes
      <4>4. x = h
        BY <1>6, <3>1, <4>1
      <4> QED BY <1>1, <3>1, <4>1, <4>3, <4>4
    <3> QED BY <3>2, <3>3
  <2>3. ASSUME NEW g \in Slot, written'[g] > 0, NEW k \in 0..(written'[g] - 1)
        PROVE  Coming(fat.table, root.table[g].fat_index, g, k)'
    <3>1. PICK x : x = r.table[g].fat_index
      OBVIOUS
    <3>2. Coming(t, x, g, k)'
      BY <1>2, <2>2, <2>3, <3>1
    <3> QED BY <1>2, <1>4, <3>1, <3>2
  <2> QED BY <1>2, <2>1, <2>3 DEF Ahead
<1> QED BY <1>14, <1>16, <1>18, <1>19 DEF Contents

(* sfs_write, whatever comes of it. *)
LEMMA WriteContents ==
    ASSUME IInv, Contents, NEW f \in Slot, NEW length \in Lengths, Write(f, length), ~misplaced'
    PROVE  Contents'
<1>1. CASE Running'
  <2>1. PICK h \in Node, len \in Nat \ {0}, size \in Nat, n0 \in Nat, blocks \in Nat, bytes \in Seq(Byte),
             old \in Bytes, w \in Seq(DataWrite), s \in LoopState :
             Wrote(f, length, h, len, size, n0, blocks, bytes, old, w, s) /\ Grows(f, length, size, s)
    BY <1>1, WriteRight
  <2> QED BY <2>1, WroteContents
<1>2. CASE ~Running'
  <2>1. UNCHANGED <<disk, acked>>
    BY Zenon DEF Write, Lost, diskVars
  <2> QED BY <1>2, <2>1, ContentsGone
<1> QED BY <1>1, <1>2

(* What sfs_read leaves alone. *)
ReadLeaves(f) ==
    \/ Lost("undefined") \/ Lost("stuck")
    \/ \E n : /\ root' = [root EXCEPT !.table[f].rd_ptr = n]
              /\ UNCHANGED <<disk, fat, freebl, opened_files, phase, todo, boots, written, acked, misplaced, torn>>

(* It is most of the state. *)
LEMMA ReadChanges == ASSUME NEW f, NEW length, Read(f, length) PROVE ReadLeaves(f)
BY ZenonT(60) DEF Read, ReadLeaves

(* A call of sfs_write that misplaces data is not forgotten. *)
LEMMA WriteMarks == ASSUME NEW f, NEW length, Write(f, length), ~misplaced' PROVE ~misplaced
<1> DEFINE h      == root.table[f].fat_index
           wr_ptr == root.table[f].wr_ptr
           target == WriteTarget(fat.table, h)
           at     == Pointer(wr_ptr)
           n0     == IF at = -1 THEN 0 ELSE Least(BLOCK_SIZE - at, length)
           bytes  == [k \in 1..length |-> <<f, written[f] + k - 1>>]
           read   == BytesAt(pos, target)
           buffer == IF at = -1 THEN read ELSE Overlay(read, at, SubSeq(bytes, 1, n0))
           blocks == (length - n0 + BLOCK_SIZE - 1) \div BLOCK_SIZE
           pending == IF at = -1 THEN <<>> ELSE <<[at |-> target, kind |-> "data", bytes |-> buffer]>>
           first  == [table |-> fat.table, cursor |-> fat.next_cursor, list |-> freebl,
                      last |-> Nth(fat.table, h)[ChainLength(fat.table, h) - 1], buffer |-> buffer,
                      writes |-> pending]
           loop   == Extended(first, bytes, n0, blocks)
           end    == loop[blocks]
<1>1. \/ Lost("undefined")
      \/ misplaced' = (\/ misplaced
                       \/ wr_ptr # root.table[f].size
                       \/ at # -1 /\ ChainLength(fat.table, h) > 1
                       \/ \E k \in 1..Len(end.writes) : end.writes[k].at = -1
                       \/ \E k \in 1..blocks : InUse(FreeBlock(loop[k - 1].list)))
  BY Zenon DEF Write
<1> HIDE DEF h, wr_ptr, target, at, n0, bytes, read, buffer, blocks, pending, first, loop, end
<1>2. CASE Lost("undefined")
  BY <1>2 DEF Lost
<1> QED BY <1>1, <1>2

(* sfs_open of a file that is there, sfs_close, sfs_read and mksfs(0) leave the files as
   they are. *)
LEMMA LightContents ==
    ASSUME IInv, Contents,
           \/ Remount \/ \E name \in Name : Reopen(name)
           \/ \E f \in Slot : Close(f)
           \/ \E f \in Slot, length \in ReadLengths : Read(f, length)
    PROVE  Contents'
<1>0. Types /\ root \in Directory /\ root.table \in [Slot -> Entry]
  BY DEF IInv, Types, Directory
<1>1. ASSUME NEW f \in Slot, NEW e, SavedEntry(e) = SavedEntry(root.table[f]), root' = [root EXCEPT !.table[f] = e]
      PROVE  SameDir(root', root)
  <2>1. /\ root'.next_cursor = root.next_cursor /\ root'.table[f] = e
        /\ \A g \in Slot \ {f} : root'.table[g] = root.table[g]
    BY <1>0, <1>1 DEF Directory
  <2> QED BY <1>1, <2>1 DEF SameDir
<1>3. CASE Remount
  <2>1. /\ phase = "idle" /\ Running /\ Load
        /\ UNCHANGED <<opened_files, written, acked, disk, todo>>
    BY <1>3 DEF Remount, Running, Load
  <2>2. root' = StoredRoot /\ fat' = StoredFat /\ phase' = (IF Readable THEN "idle" ELSE "undefined")
    BY <1>0, <2>1, LoadEffect
  <2>3. SameDir(StoredRoot, root) /\ StoredFat = fat /\ Readable
    BY <2>1 DEF IInv, TodoInv
  <2> QED BY <2>1, <2>2, <2>3, ContentsSame
<1>6. ASSUME NEW name \in Name, Reopen(name) PROVE Contents'
  <2>1. PICK f \in Slot : f = FileIndex(name)
    BY <1>6, IndexFound DEF Reopen
  <2>2. PICK e : e = [root.table[f] EXCEPT !.opened = 1]
    OBVIOUS
  <2>3. root.table[f] \in Entry
    BY <1>0
  <2>4. SavedEntry(e) = SavedEntry(root.table[f])
    BY <2>2, <2>3 DEF Entry, SavedEntry
  <2>5. /\ root' = [root EXCEPT !.table[FileIndex(name)].opened = 1] /\ Running
        /\ UNCHANGED <<disk, todo, opened_files, phase, fat, written, acked>>
    BY <1>6 DEF Reopen, Running, diskVars
  <2>6. root' = [root EXCEPT !.table[f] = e]
    BY <2>1, <2>2, <2>5
  <2> QED BY <1>1, <2>4, <2>5, <2>6, ContentsSame
<1>7. ASSUME NEW f \in Slot, Close(f) PROVE Contents'
  <2>2. PICK e : e = [root.table[f] EXCEPT !.opened = 0]
    OBVIOUS
  <2>3. root.table[f] \in Entry
    BY <1>0
  <2>4. SavedEntry(e) = SavedEntry(root.table[f])
    BY <2>2, <2>3 DEF Entry, SavedEntry
  <2>5. /\ root' = [root EXCEPT !.table[f].opened = 0] /\ Running
        /\ UNCHANGED <<disk, todo, opened_files, phase, fat, written, acked>>
    BY <1>7 DEF Close, Running, diskVars
  <2>6. root' = [root EXCEPT !.table[f] = e]
    BY <2>2, <2>5
  <2> QED BY <1>1, <2>4, <2>5, <2>6, ContentsSame
<1>8. ASSUME NEW f \in Slot, NEW length \in ReadLengths, Read(f, length) PROVE Contents'
  <2>1. phase = "idle"
    BY Zenon, <1>8 DEF Read
  <2>5. ReadLeaves(f)
    BY <1>8, ReadChanges
  <2>2. \/ Lost("undefined") \/ Lost("stuck")
        \/ \E n : /\ root' = [root EXCEPT !.table[f].rd_ptr = n]
                  /\ UNCHANGED <<disk, todo, opened_files, phase, fat, written, acked>>
    BY <2>5 DEF ReadLeaves
  <2>3. CASE Lost("undefined") \/ Lost("stuck")
    BY <2>1, <2>3, ContentsGone DEF Lost, Running, diskVars
  <2>4. ASSUME NEW n, root' = [root EXCEPT !.table[f].rd_ptr = n],
               UNCHANGED <<disk, todo, opened_files, phase, fat, written, acked>>
        PROVE  Contents'
    <3>1. PICK e : e = [root.table[f] EXCEPT !.rd_ptr = n]
      OBVIOUS
    <3>2. root.table[f] \in Entry
      BY <1>0
    <3>3. SavedEntry(e) = SavedEntry(root.table[f])
      BY <3>1, <3>2 DEF Entry, SavedEntry
    <3>4. root' = [root EXCEPT !.table[f] = e]
      BY <2>4, <3>1
    <3>5. Running
      BY <2>1 DEF Running
    <3> QED BY <1>1, <2>4, <3>3, <3>4, <3>5, ContentsSame
  <2> QED BY Zenon, <2>2, <2>3, <2>4
<1> QED BY <1>3, <1>6, <1>7, <1>8

(* The disk on which nothing was written. *)
LEMMA InitContents == ASSUME Init PROVE Contents
<1>1. ~Running /\ acked = [f \in Slot |-> 0] /\ disk = [a \in Address |-> ZeroBlock]
  BY DEF Init, Running
<1>2. \A a \in Address : disk[a].kind = "zero"
  BY <1>1 DEF ZeroBlock
<1>3. StoredRoot = ZeroRoot /\ StoredFat = FatOf(0, 0) /\ Readable
  <2>1. 0 \in Address /\ 1 \in Address /\ MAX_DISK - 1 \in Address
    BY Numbers
  <2> QED BY <1>2, <2>1 DEF StoredRoot, StoredFat, Stored, Readable
<1>4. \A f \in Slot : ~Named(ZeroRoot, f)
  BY DEF Named, ZeroRoot, ZeroEntry
<1>5. Full(ZeroRoot) /\ \A table, cursor, u : Apart(ZeroRoot, table, cursor, u)
  <2>1. ZeroRoot.next_cursor = 0 /\ \A f \in Slot : ~(f < 0)
    BY DEF ZeroRoot, Slot
  <2> QED BY <1>4, <2>1 DEF Full, Apart, HeadsApart
<1>6. BlocksApart(FatOf(0, 0).table, FatOf(0, 0).next_cursor)
  <2>1. FatOf(0, 0).next_cursor = 0 /\ \A n \in Node : ~(n < 0)
    BY DEF FatOf, Node
  <2> QED BY <2>1 DEF BlocksApart
<1>7. \A f \in Slot : ~(acked[f] > 0)
  BY <1>1
<1> QED BY <1>1, <1>3, <1>5, <1>6, <1>7 DEF Contents, OnTheDisk

(* As long as no call has misplaced data, the contents are where they must be. *)
LEMMA ContentsHold == Spec => []ContentInv
<1>1. Init => ContentInv
  BY InitContents DEF ContentInv
<1>2. ASSUME IInv, ContentInv, [Next]_vars PROVE ContentInv'
  <2> SUFFICES ASSUME ~misplaced' PROVE Contents'
    BY DEF ContentInv
  <2>1. CASE BootFresh
    BY <2>1, FormatContents
  <2>2. CASE ~BootFresh
    <3>1. ~misplaced
      <4>1. CASE \E name \in Name : Create(name)
        BY Zenon, <4>1 DEF Create, Lost
      <4>2. CASE \E f \in Slot, length \in Lengths : Write(f, length)
        BY <4>2, WriteMarks
      <4>3. CASE \E f \in Slot, length \in ReadLengths : Read(f, length)
        <5>1. PICK f : ReadLeaves(f)
          BY <4>3, ReadChanges
        <5> QED BY <5>1 DEF ReadLeaves, Lost
      <4>4. CASE \/ Boot \/ Flush \/ Crash \/ Remount \/ UNCHANGED vars
                 \/ (\E name \in Name : Reopen(name)) \/ (\E f \in Slot : Close(f))
        BY <4>4 DEF Boot, Flush, Crash, Remount, Reopen, Close, vars, history
      <4> QED BY <1>2, <2>2, <4>1, <4>2, <4>3, <4>4 DEF Next, Call
    <3>2. Contents
      BY <1>2, <3>1 DEF ContentInv
    <3>3. CASE \E name \in Name : Create(name)
      BY <1>2, <3>2, <3>3, CreateContents
    <3>4. CASE \E f \in Slot, length \in Lengths : Write(f, length)
      BY <1>2, <3>2, <3>4, WriteContents
    <3>5. CASE \/ Remount \/ \E name \in Name : Reopen(name)
               \/ \E f \in Slot : Close(f)
               \/ \E f \in Slot, length \in ReadLengths : Read(f, length)
      BY <1>2, <3>2, <3>5, LightContents
    <3>6. CASE Boot
      BY <1>2, <3>2, <3>6, BootContents
    <3>7. CASE Flush
      BY <1>2, <3>2, <3>7, FlushContents
    <3>8. CASE Crash
      <4>1. ~Running' /\ UNCHANGED <<disk, acked>>
        BY <3>8 DEF Crash, Stop, Running, diskVars
      <4> QED BY <3>2, <4>1, ContentsGone
    <3>9. CASE UNCHANGED vars
      <4>1. UNCHANGED <<disk, todo, opened_files, phase, fat, root, written, acked>>
        BY <3>9 DEF vars, memory, history, diskVars
      <4>2. CASE Running
        <5>1. SameDir(root', root)
          BY <4>1 DEF SameDir
        <5> QED BY <3>2, <4>1, <4>2, <5>1, ContentsSame
      <4>3. CASE ~Running
        <5>1. ~Running'
          BY <4>1, <4>3 DEF Running
        <5> QED BY <3>2, <4>1, <5>1, ContentsGone
      <4> QED BY <4>2, <4>3
    <3> QED BY <1>2, <2>2, <3>3, <3>4, <3>5, <3>6, <3>7, <3>8, <3>9 DEF Next, Call
  <2> QED BY <2>1, <2>2
<1> QED BY <1>1, <1>2, Inductive, PTL DEF Spec

---------------------------------------------------------------------------------
(* What sfs_read delivers *)

(* The bytes of m + 1 blocks one after the other, the first of which gives n0. *)
Delivered(bytes, db, n0, m) ==
    /\ bytes \in Seq(Byte) /\ Len(bytes) = n0 + m * BLOCK_SIZE
    /\ \A i \in 0..m : \E q \in 0..MAX_DISK : \A x \in 1..BLOCK_SIZE :
          i * BLOCK_SIZE + x <= Len(bytes) => bytes[i * BLOCK_SIZE + x] = BytesAt(q, db[i])[x]

(* One round of the loop of sfs_read. *)
LEMMA OneMoreBlock ==
    ASSUME Types, NEW B \in Nat \ {0}, B = BLOCK_SIZE, NEW db, NEW m \in Nat, db[m + 1] \in Int,
           NEW s, s.pos \in 0..MAX_DISK, Delivered(s.bytes, db, B, m), NEW r, r = OneMore(s, db[m + 1])
    PROVE  Delivered(r.bytes, db, B, m + 1)
<1>1. PICK u, v : u = s.bytes /\ v = BytesAt(s.pos, db[m + 1])
  OBVIOUS
<1>2. v \in Bytes
  BY <1>1, BlockRead
<1>3. v \in Seq(Byte) /\ Len(v) = B
  BY <1>2 DEF Bytes
<1>4. PICK mB \in Nat : mB = m * B
  BY Times
<1>5. u \in Seq(Byte) /\ Len(u) = B + mB
  BY <1>1, <1>4 DEF Delivered
<1>6. (m + 1) * B = mB + B
  BY <1>4
<1>7. r.bytes = u \o v
  BY <1>1 DEF OneMore
<1>8. PICK z : z = u \o v
  OBVIOUS
<1>9. /\ z \in Seq(Byte) /\ Len(z) = B + mB + B
      /\ \A k \in 1..(B + mB) : z[k] = u[k]
      /\ \A k \in 1..B : z[B + mB + k] = v[k]
  <2>1. PICK l \in Nat : l = Len(u)
    BY <1>5
  <2>2. z \in Seq(Byte) /\ Len(z) = l + B
    BY <1>3, <1>5, <1>8, <2>1, ConcatProperties
  <2>3. \A k \in 1..(l + B) : z[k] = IF k <= l THEN u[k] ELSE v[k - l]
    BY ZenonT(60), <1>3, <1>5, <1>8, <2>1, ConcatProperties
  <2>4. ASSUME NEW k \in 1..l PROVE z[k] = u[k]
    BY <2>3
  <2>5. ASSUME NEW k \in 1..B PROVE z[l + k] = v[k]
    <3>1. l + k \in 1..(l + B) /\ ~(l + k <= l) /\ l + k - l = k
      OBVIOUS
    <3> QED BY <2>3, <3>1
  <2> QED BY <1>5, <2>1, <2>2, <2>4, <2>5
<1>10. ASSUME NEW i \in 0..(m + 1)
       PROVE  \E q \in 0..MAX_DISK : \A x \in 1..B : i * B + x <= Len(z) => z[i * B + x] = BytesAt(q, db[i])[x]
  <2>1. CASE i = m + 1
    <3>1. \A x \in 1..B : i * B + x = B + mB + x
      BY <1>6, <2>1
    <3>2. \A x \in 1..B : z[i * B + x] = BytesAt(s.pos, db[i])[x]
      BY <1>1, <1>9, <2>1, <3>1
    <3> QED BY <3>2
  <2>2. CASE i \in 0..m
    <3>1. PICK q \in 0..MAX_DISK : \A x \in 1..B : i * B + x <= Len(u) => u[i * B + x] = BytesAt(q, db[i])[x]
      BY <1>1, <2>2 DEF Delivered
    <3>2. PICK iB \in Nat : iB = i * B
      BY <2>2, Times
    <3>3. iB <= mB
      <4>1. CASE i = m
        BY <1>4, <3>2, <4>1
      <4>2. CASE i < m
        <5>1. i * B + B <= m * B
          BY <2>2, <4>2, TimesMore
        <5> QED BY <1>4, <3>2, <5>1
      <4> QED BY <2>2, <4>1, <4>2
    <3>4. \A x \in 1..B : iB + x \in 1..(B + mB) /\ iB + x <= Len(u)
      BY <1>5, <3>3
    <3>5. \A x \in 1..B : z[iB + x] = BytesAt(q, db[i])[x]
      BY <1>9, <3>1, <3>2, <3>4
    <3> QED BY <3>2, <3>5
  <2>3. i = m + 1 \/ i \in 0..m
    OBVIOUS
  <2> QED BY Zenon, <2>1, <2>2, <2>3
<1>11. Len(z) = B + (m + 1) * B
  BY <1>4, <1>6, <1>9
<1>12. \A i \in 0..(m + 1) : \E q \in 0..MAX_DISK : \A x \in 1..BLOCK_SIZE :
          i * BLOCK_SIZE + x <= Len(z) => z[i * BLOCK_SIZE + x] = BytesAt(q, db[i])[x]
  BY Zenon, <1>10
<1>13. r.bytes = z /\ z \in Seq(Byte) /\ Len(z) = B + (m + 1) * BLOCK_SIZE
  BY <1>7, <1>8, <1>9, <1>11
<1> QED BY Zenon, <1>12, <1>13 DEF Delivered

(* The loop of sfs_read. *)
LEMMA LoopDelivers ==
    ASSUME Types, NEW B \in Nat \ {0}, B = BLOCK_SIZE, NEW more \in Nat, NEW db, \A k \in 0..more : db[k] \in Int,
           NEW n0 \in Nat, more > 0 => n0 = B,
           NEW first, first.pos \in 0..MAX_DISK, Delivered(first.bytes, db, n0, 0)
    PROVE  Delivered(ReadLoop(first, db, more)[more].bytes, db, n0, more)
<1> DEFINE loop == ReadLoop(first, db, more)
           S == {m \in Nat : m <= more => loop[m].pos \in 0..MAX_DISK /\ Delivered(loop[m].bytes, db, n0, m)}
<1>0. /\ loop[0] = first
      /\ \A k \in 1..more : loop[k] = OneMore(loop[k - 1], db[k])
  BY ReadSteps
<1> HIDE DEF loop
<1>1. 0 \in S
  BY <1>0
<1>2. ASSUME NEW m \in Nat, m \in S PROVE m + 1 \in S
  <2> SUFFICES ASSUME m + 1 <= more
               PROVE  loop[m + 1].pos \in 0..MAX_DISK /\ Delivered(loop[m + 1].bytes, db, n0, m + 1)
    OBVIOUS
  <2>1. m + 1 \in 1..more /\ m + 1 \in 0..more /\ m + 1 - 1 = m /\ m <= more /\ n0 = B
    OBVIOUS
  <2>2. PICK s, r : s = loop[m] /\ r = loop[m + 1]
    OBVIOUS
  <2>3. s.pos \in 0..MAX_DISK /\ Delivered(s.bytes, db, B, m) /\ db[m + 1] \in Int
    BY <1>2, <2>1, <2>2
  <2>4. r = OneMore(s, db[m + 1])
    BY <1>0, <2>1, <2>2
  <2>5. Delivered(r.bytes, db, B, m + 1)
    <3>1. Types /\ B \in Nat \ {0} /\ B = BLOCK_SIZE /\ m \in Nat
      OBVIOUS
    <3> QED BY ONLY Zenon, <2>3, <2>4, <3>1, OneMoreBlock
  <2>6. r.pos \in 0..MAX_DISK
    BY <2>3, <2>4, PositionTypes DEF OneMore
  <2> QED BY <2>1, <2>2, <2>5, <2>6
<1>3. Nat \subseteq S
  <2> HIDE DEF S
  <2> QED BY <1>1, <1>2, Induction
<1>4. more \in S /\ more <= more
  BY <1>3
<1> QED BY <1>4 DEF loop

(* What is said of what was read last. *)
Right(g) == g.from = 0 => \A k \in 1..Len(g.bytes) : k <= acked[g.file] => g.bytes[k] = <<g.file, k - 1>>

(* From the start of a file sfs_read delivers what was written. *)
LEMMA ReadRight ==
    ASSUME IInv, Contents, NEW f \in Slot, NEW length \in ReadLengths, Read(f, length)
    PROVE  got' = NothingRead \/ Right(got')
<1> DEFINE h      == root.table[f].fat_index
           rd_ptr == root.table[f].rd_ptr
           skip   == rd_ptr \div BLOCK_SIZE
           at     == Pointer(rd_ptr)
           nth    == Nth(fat.table, h)
           last   == ChainLength(fat.table, h) - 1
           n0     == Least(BLOCK_SIZE - at, length)
           left   == (length - n0 + BLOCK_SIZE - 1) \div BLOCK_SIZE
           more   == IF skip >= last THEN 0 ELSE Least(left, last - skip - 1)
           db     == [k \in 0..more |-> fat.table[nth[skip + k]].db_index]
           block  == BytesAt(pos, db[0])
           chunk  == IF at = -1 THEN SubSeq(<<NoByte>> \o block, 1, n0) ELSE SubSeq(block, at + 1, at + n0)
           loop   == ReadLoop([pos |-> Past(pos, db[0]), bytes |-> chunk], db, more)
           bytes  == SubSeq(loop[more].bytes, 1, Least(Len(loop[more].bytes), length))
<1>1. /\ phase = "idle"
      /\ IF ~Ends(fat.table, h) THEN Lost("undefined")
         ELSE IF skip > last THEN Lost("stuck")
         ELSE \/ got' = [file |-> f, from |-> rd_ptr, bytes |-> bytes]
              \/ Lost("undefined")
  BY Zenon DEF Read
<1> HIDE DEF h, rd_ptr, skip, at, nth, last, n0, left, more, db, block, chunk, loop, bytes
<1>2. /\ root.table[f] \in Entry /\ root \in Directory /\ pos \in 0..MAX_DISK /\ fat.table \in Table
      /\ Types /\ todo = <<>> /\ written \in [Slot -> Nat]
  BY <1>1 DEF IInv, Types, TodoInv, Directory, Chains
<1>3. h \in Node /\ rd_ptr \in Nat /\ length \in Nat /\ length # 0 /\ MAX_DISK \in Nat
  BY <1>2, SFSAssumption DEF Entry, h, rd_ptr
<1>4. PICK B \in Nat \ {0} : B = BLOCK_SIZE
  BY Numbers
<1>5. acked = written /\ Ahead
  BY <1>1 DEF Contents, Between, Running
<1>6. CASE Lost("undefined") \/ Lost("stuck")
  BY <1>6 DEF Lost
<1>7. ASSUME Ends(fat.table, h), ~(skip > last), rd_ptr = 0,
             NEW k \in 1..Len(bytes), k <= acked[f]
      PROVE  bytes[k] = <<f, k - 1>>
  <2>1. skip = 0 /\ at = 0
    <3>1. PICK z \in Nat : z = 0
      OBVIOUS
    <3>2. z \in 0..(B - 1) /\ z = z * B + z /\ B \in Nat \ {0}
      BY <3>1
    <3>3. z \div B = z /\ z % B = z
      BY ONLY <3>1, <3>2, Quotients
    <3> QED BY <1>4, <1>7, <3>1, <3>3 DEF skip, at, Pointer
  <2>2. /\ last \in Nat /\ last + 1 \in 1..MAX_DISK
        /\ \A i \in 0..last : nth[i] \in Node
    <3>1. /\ ChainLength(fat.table, h) \in 1..MAX_DISK
          /\ \A i \in 0..(ChainLength(fat.table, h) - 1) : nth[i] \in Node
      BY <1>2, <1>3, <1>7, ChainFacts DEF nth
    <3> QED BY <1>3, <3>1 DEF last
  <2>3. n0 \in Nat /\ n0 <= B /\ n0 <= length /\ (n0 # B => n0 = length) /\ n0 = Least(B, length)
    BY <1>3, <1>4, <2>1 DEF Least, n0
  <2>4. left \in Nat /\ (left > 0 => n0 = B)
    <3>1. PICK m \in Nat : m = length - n0
      BY <1>3, <2>3
    <3>2. left = (m + B - 1) \div B
      BY <1>4, <3>1 DEF left
    <3>3. left \in Nat /\ (left = 0 <=> m = 0)
      BY ZenonT(60), <3>2, Ceiling
    <3> QED BY <2>3, <3>1, <3>3
  <2>5. more \in Nat /\ (more > 0 => n0 = B) /\ more <= last
    <3>1. CASE 0 >= last
      <4>1. more = 0
        BY <2>1, <3>1 DEF more
      <4> QED BY <2>2, <4>1
    <3>2. CASE ~(0 >= last)
      <4>1. PICK room \in Nat : room = last - skip - 1 /\ room <= last
        BY <2>1, <2>2, <3>2
      <4>2. more = Least(left, room)
        BY <2>1, <3>2, <4>1 DEF more
      <4>3. more \in Nat /\ more <= room /\ (more > 0 => left > 0)
        BY <2>4, <4>1, <4>2 DEF Least
      <4> QED BY <2>2, <2>4, <4>1, <4>3
    <3> QED BY <3>1, <3>2
  <2>6. \A i \in 0..more : nth[i] \in Node /\ db[i] = fat.table[nth[i]].db_index
    <3> SUFFICES ASSUME NEW i \in 0..more PROVE nth[i] \in Node /\ db[i] = fat.table[nth[i]].db_index
      OBVIOUS
    <3>1. skip + i = i /\ i \in 0..last
      BY <2>1, <2>2, <2>5
    <3> QED BY <2>2, <3>1 DEF db
  <2>7. \A i \in 0..more : db[i] \in Int
    <3> SUFFICES ASSUME NEW i \in 0..more PROVE db[i] \in Int
      OBVIOUS
    <3>1. fat.table[nth[i]].db_index \in DataBlock \cup {0, -1, EMPTY}
      BY <1>2, <2>6 DEF Table, NodeEntry
    <3> QED BY <2>6, <3>1 DEF DataBlock, EMPTY
  <2>8. db[0] \in Int
    BY <2>5, <2>7
  <2>9. block \in Bytes /\ block \in Seq(Byte) /\ Len(block) = B
    <3>1. block \in Bytes
      BY <1>2, <2>8, BlockRead DEF block
    <3> QED BY <3>1, <1>4 DEF Bytes
  <2>10. chunk = SubSeq(block, 1, n0)
    BY <2>1, <2>3 DEF chunk
  <2>11. chunk \in Seq(Byte) /\ Len(chunk) = n0 /\ \A x \in 1..n0 : chunk[x] = block[x]
    BY <2>3, <2>9, <2>10
  <2>12. Delivered(chunk, db, n0, 0)
    <3>1. \A x \in 1..B : 0 * B + x <= Len(chunk) => chunk[0 * B + x] = BytesAt(pos, db[0])[x]
      BY <2>3, <2>11 DEF block
    <3>2. Len(chunk) = n0 + 0 * B
      BY <2>3, <2>11
    <3> QED BY <1>2, <1>4, <2>11, <3>1, <3>2 DEF Delivered
  <2>13. PICK first : first = [pos |-> Past(pos, db[0]), bytes |-> chunk]
    OBVIOUS
  <2>14. first.pos \in 0..MAX_DISK /\ first.bytes = chunk
    BY <1>2, <2>8, <2>13, PositionTypes
  <2>15. PICK all : all = loop[more].bytes
    OBVIOUS
  <2>16. Delivered(all, db, n0, more)
    <3>1. Delivered(first.bytes, db, n0, 0)
      BY <2>12, <2>14
    <3> QED BY <1>2, <1>4, <2>3, <2>5, <2>7, <2>13, <2>14, <2>15, <3>1, LoopDelivers DEF loop
  <2>17. all \in Seq(Byte) /\ Len(all) = n0 + more * B
    BY <1>4, <2>16 DEF Delivered
  <2>18. k \in 1..Len(all) /\ bytes[k] = all[k]
    <3>1. PICK e : e = Least(Len(all), length)
      OBVIOUS
    <3>2. e \in Nat /\ e <= Len(all)
      BY <1>3, <2>17, <3>1 DEF Least
    <3>3. bytes = SubSeq(all, 1, e)
      BY <2>15, <3>1 DEF bytes
    <3> QED BY <1>7, <2>17, <3>2, <3>3
  <2>19. PICK o \in Nat : o = k - 1
    BY <2>18
  <2>20. PICK i \in Nat, r \in 0..(B - 1) : i = o \div B /\ r = o % B /\ o = i * B + r
    BY Divided
  <2>21. i \in 0..more
    <3>1. PICK iB \in Nat, mB \in Nat : iB = i * B /\ mB = more * B
      BY <2>5, Times
    <3>2. iB < n0 + mB
      BY <2>17, <2>18, <2>19, <2>20, <3>1
    <3> SUFFICES ASSUME more < i PROVE FALSE
      BY <2>5
    <3>3. more * B + B <= i * B
      BY <2>5, TimesMore
    <3> QED BY <2>3, <3>1, <3>2, <3>3
  <2>22. PICK x \in 1..B : x = r + 1
    OBVIOUS
  <2>23. i * B + x = k
    <3>1. PICK iB \in Nat : iB = i * B
      BY Times
    <3> QED BY <2>18, <2>19, <2>20, <2>22, <3>1
  <2>24. PICK q \in 0..MAX_DISK : all[k] = BytesAt(q, db[i])[x]
    <3>1. PICK q \in 0..MAX_DISK : \A y \in 1..BLOCK_SIZE :
             i * BLOCK_SIZE + y <= Len(all) => all[i * BLOCK_SIZE + y] = BytesAt(q, db[i])[y]
      BY <2>16, <2>21 DEF Delivered
    <3>2. i * BLOCK_SIZE + x = k /\ x \in 1..BLOCK_SIZE /\ k <= Len(all)
      BY <1>4, <2>18, <2>23
    <3> QED BY <3>1, <3>2
  <2>25. Coming(fat.table, h, f, o)
    <3>1. written[f] \in Nat /\ written[f] > 0 /\ o \in 0..(written[f] - 1)
      BY <1>2, <1>5, <1>7, <2>18, <2>19
    <3> QED BY <1>5, <3>1 DEF Ahead, h
  <2>26. PICK b \in DataBlock : b = Place(fat.table, h, o)
    BY <2>25 DEF Coming, Located
  <2>27. HasByte(b, x, <<f, o>>)
    <3>1. Pending(b) = {}
      BY <1>2 DEF Pending
    <3>2. (o % BLOCK_SIZE) + 1 = x
      BY <1>4, <2>20, <2>22
    <3> QED BY <2>25, <2>26, <3>1, <3>2 DEF Coming, WillHold
  <2>28. db[i] = b
    BY <1>4, <2>6, <2>20, <2>21, <2>26 DEF Place, nth
  <2>29. BytesAt(q, b)[x] = <<f, o>>
    <3>1. b \in Address /\ b \in Nat /\ ~(b < 0)
      <4>1. b \in Nat /\ b \in Address
        BY Numbers
      <4> QED BY <4>1
    <3> QED BY <2>27, <3>1 DEF BytesAt, Seek, HasByte
  <2> QED BY <2>18, <2>19, <2>24, <2>28, <2>29
<1>8. ASSUME Ends(fat.table, h), ~(skip > last), got' = [file |-> f, from |-> rd_ptr, bytes |-> bytes]
      PROVE  Right(got')
  <2>1. got'.file = f /\ got'.from = rd_ptr /\ got'.bytes = bytes
    BY <1>8
  <2>2. rd_ptr = 0 => \A k \in 1..Len(bytes) : k <= acked[f] => bytes[k] = <<f, k - 1>>
    BY <1>7, <1>8
  <2> QED BY <2>1, <2>2 DEF Right
<1> QED BY <1>1, <1>6, <1>8

(* What was read stays right until the next call: none that saves begins without
   forgetting it. *)
GotInv == (phase = "busy" => got = NothingRead) /\ (~misplaced => Right(got))

(* Every call but sfs_read forgets it. *)
LEMMA GotGone == ASSUME got' = NothingRead PROVE GotInv'
<1>1. got'.bytes = <<>>
  BY DEF NothingRead
<1>2. Len(got'.bytes) = 0
  BY <1>1
<1>3. Right(got)'
  BY <1>2 DEF Right
<1> QED BY <1>3 DEF GotInv

(* It holds in every reachable state. *)
LEMMA GotHolds == Spec => []GotInv
<1>1. Init => GotInv
  <2> SUFFICES ASSUME Init PROVE GotInv
    OBVIOUS
  <2>1. got = NothingRead
    BY DEF Init
  <2>2. got.bytes = <<>>
    BY <2>1 DEF NothingRead
  <2>3. Len(got.bytes) = 0
    BY <2>2
  <2> QED BY <2>1, <2>3 DEF GotInv, Right
<1>2. ASSUME IInv, ContentInv, GotInv, [Next]_vars PROVE GotInv'
  <2>1. ASSUME NEW f \in Slot, NEW length \in ReadLengths, Read(f, length) PROVE GotInv'
    <3>1. ReadLeaves(f) /\ phase = "idle"
      BY Zenon, <2>1, ReadChanges DEF Read
    <3>2. CASE got' = NothingRead
      BY <3>2, GotGone
    <3>3. CASE got' # NothingRead
      <4>1. UNCHANGED <<phase, acked, misplaced>>
        BY <3>1, <3>3 DEF ReadLeaves, Lost
      <4>2. ASSUME ~misplaced PROVE Right(got')
        BY <1>2, <2>1, <3>3, <4>2, ReadRight DEF ContentInv
      <4>3. ~misplaced' => Right(got)'
        BY <4>1, <4>2 DEF Right
      <4> QED BY <3>1, <4>1, <4>3 DEF GotInv
    <3> QED BY Zenon, <3>2, <3>3
  <2>2. CASE Flush
    <3>1. got' = NothingRead
      BY <1>2, <2>2 DEF Flush, GotInv
    <3> QED BY <3>1, GotGone
  <2>3. CASE UNCHANGED vars
    <3>1. UNCHANGED <<phase, got, acked, misplaced>>
      BY <2>3 DEF vars, history
    <3> QED BY <1>2, <3>1 DEF GotInv, Right
  <2>4. ASSUME NEW f \in Slot, NEW length \in Lengths, Write(f, length) PROVE GotInv'
    <3>1. got' = NothingRead
      BY Zenon, <2>4 DEF Write, Lost
    <3> QED BY <3>1, GotGone
  <2>5. ASSUME NEW name \in Name, Create(name) PROVE GotInv'
    <3>1. got' = NothingRead
      BY Zenon, <2>5 DEF Create, Lost, Stop
    <3> QED BY <3>1, GotGone
  <2>6. CASE \/ BootFresh \/ Boot \/ Crash \/ Remount
             \/ (\E name \in Name : Reopen(name)) \/ (\E f \in Slot : Close(f))
    <3>1. got' = NothingRead
      BY <2>6 DEF BootFresh, Boot, Crash, Stop, Remount, Reopen, Close
    <3> QED BY <3>1, GotGone
  <2> QED BY <1>2, <2>1, <2>2, <2>3, <2>4, <2>5, <2>6 DEF Next, Call
<1> QED BY <1>1, <1>2, Inductive, ContentsHold, PTL DEF Spec

---------------------------------------------------------------------------------
(* The properties *)

(* The tables in memory, their image on the disk and the pending writes keep the
   types of sfs_api.c, whatever calls are made and wherever the process stops. *)
THEOREM Typed == Spec => []TypeOK
<1>1. ASSUME IInv PROVE TypeOK
  <2>1. /\ root \in Directory /\ fat \in Chains /\ freebl \in List /\ opened_files \in 0..MAX_FILE
        /\ phase \in {"off", "idle", "busy", "stuck", "undefined"}
        /\ DOMAIN disk = Address /\ pos \in 0..MAX_DISK /\ written \in [Slot -> Nat] /\ acked \in [Slot -> Nat]
    BY <1>1 DEF IInv, Types
  <2>2. phase = "busy" <=> todo # <<>>
    BY <1>1 DEF IInv, TodoInv
  <2>3. root.table \in [Slot -> Entry] /\ root.next_cursor \in Slot
    BY <2>1 DEF Directory
  <2>4. fat.table \in Table /\ fat.next_cursor \in 0..MAX_DISK
    BY <2>1 DEF Chains
  <2> QED BY <2>1, <2>2, <2>3, <2>4 DEF TypeOK, List, Table, NodeEntry
<1> QED BY <1>1, Inductive, PTL

(* No moment, in a call or after a crash, leaves a block marked on the disk that
   the table on the disk does not have. *)
THEOREM BlocksFound == Spec => []NoBlockLost
<1>1. ASSUME IInv PROVE NoBlockLost
  BY <1>1 DEF IInv, DiskInv, Within, NoBlockLost
<1> QED BY <1>1, Inductive, PTL

(* Between two calls the disk holds what memory holds, the flags and the read
   pointers apart. *)
THEOREM Saved == Spec => []Durable
<1>1. ASSUME IInv PROVE Durable
  <2>1. phase = "idle" => SameDir(StoredRoot, root) /\ StoredFat = fat /\ StoredList = freebl
    BY <1>1 DEF IInv, TodoInv
  <2> QED BY <2>1 DEF Durable, SameDir, SavedEntry, StoredRoot, StoredFat, StoredList, Stored
<1> QED BY <1>1, Inductive, PTL

(* Unless a crash came between the writes of the three structures, the table, the
   free list and the directory agree in every running process. *)
THEOREM Allocated == Spec => []AllocationInv
<1>1. ASSUME IInv PROVE AllocationInv
  <2> SUFFICES ASSUME ~torn, Running PROVE AllocationInv
    BY DEF AllocationInv
  <2> DEFINE tb == fat.table
             cu == fat.next_cursor
  <2>1. /\ Sound(tb, cu) /\ Within(freebl, tb) /\ Agree(root, tb, cu, freebl)
        /\ tb \in Table /\ cu \in 0..MAX_DISK /\ root \in Directory /\ freebl \in List
    BY <1>1 DEF IInv, Types, DiskInv, AgreeInv, Chains
  <2>2. cu \in Nat /\ MAX_DISK \in Nat /\ Used = 0..(cu - 1)
    BY <2>1, Numbers DEF Used
  <2> HIDE DEF tb, cu
  <2>3. Used = {n \in Node : n < cu} /\ Node \subseteq Nat
    BY <2>1, <2>2 DEF Node
  <2>4. \A n \in Used : tb[n].db_index \in DataBlock \cup {-1} /\ tb[n].next \in {-1} \cup ((n + 1)..MAX_DISK \cap Used)
    <3> SUFFICES ASSUME NEW n \in Used
                 PROVE  tb[n].db_index \in DataBlock \cup {-1} /\ tb[n].next \in {-1} \cup ((n + 1)..MAX_DISK \cap Used)
      OBVIOUS
    <3>1. tb[n].db_index \in DataBlock \cup {-1} /\ (tb[n].next # -1 => tb[n].next > n /\ tb[n].next < cu)
      BY <2>1, <2>3 DEF Sound
    <3>2. PICK x : x = tb[n].next
      OBVIOUS
    <3>3. x \in Node \cup {-1, EMPTY} /\ n \in Nat
      BY <2>1, <2>3, <3>2 DEF Table, NodeEntry
    <3>4. x # -1 => x \in (n + 1)..MAX_DISK /\ x \in Node /\ x < cu
      <4> SUFFICES ASSUME x # -1 PROVE x \in (n + 1)..MAX_DISK /\ x \in Node /\ x < cu
        OBVIOUS
      <4>1. x > n /\ x < cu
        BY <3>1, <3>2
      <4>2. x \in Node
        BY <3>3, <4>1 DEF EMPTY
      <4> QED BY <2>2, <3>3, <4>1, <4>2, Numbers DEF Node
    <3> QED BY <2>3, <3>1, <3>2, <3>4
  <2>5. \A b \in Node : freebl[b] = 1 <=> \E n \in Used : tb[n].db_index = b
    <3> SUFFICES ASSUME NEW b \in Node PROVE freebl[b] = 1 <=> \E n \in Used : tb[n].db_index = b
      OBVIOUS
    <3>1. ASSUME freebl[b] = 1 PROVE \E n \in Used : tb[n].db_index = b
      <4>1. b \in DataBlock
        BY <2>1, <3>1 DEF Within
      <4>2. PICK n \in Node : tb[n].db_index = b
        BY <2>1, <3>1 DEF Within
      <4>3. n >= cu => b \in {EMPTY, 0}
        BY <2>1, <4>2 DEF Sound
      <4>4. n < cu
        BY <2>2, <2>3, <4>1, <4>3, Numbers
      <4> QED BY <2>3, <4>2, <4>4
    <3>2. ASSUME NEW n \in Used, tb[n].db_index = b PROVE freebl[b] = 1
      BY <2>1, <2>3, <3>2, Numbers DEF Agree, Marked
    <3> QED BY <3>1, <3>2
  <2>6. \A m, n \in Used : m # n => (tb[m].db_index = tb[n].db_index => tb[m].db_index = -1)
    BY <2>1, <2>3 DEF Agree, BlocksApart
  <2>7. \A m, n \in Used : m # n => (tb[m].next = tb[n].next => tb[m].next = -1)
    BY <2>1, <2>3 DEF Sound
  <2>8. \A f \in Files : /\ root.table[f].fat_index \in Used
                         /\ \A n \in Used : tb[n].next # root.table[f].fat_index
    <3> SUFFICES ASSUME NEW f \in Files
                 PROVE  /\ root.table[f].fat_index \in Used
                        /\ \A n \in Used : tb[n].next # root.table[f].fat_index
      OBVIOUS
    <3>1. f \in Slot /\ Named(root, f)
      BY DEF Files, Named
    <3>2. root.table[f].fat_index \in Node
      BY <2>1, <3>1 DEF Directory, Entry
    <3> QED BY <2>1, <2>3, <3>1, <3>2 DEF Agree, Rooted
  <2>9. \A f, g \in Files : f # g => root.table[f].fat_index # root.table[g].fat_index
    BY <2>1 DEF Agree, HeadsApart, Files, Named
  <2> QED BY <2>4, <2>5, <2>6, <2>7, <2>8, <2>9 DEF AllocationInv, tb
<1> QED BY <1>1, Inductive, PTL

(* In the first process, the size of a file is the number of bytes written to it, the next
   byte goes to its end, and its chain is as long as that takes. *)
THEOREM Sizes == Spec => []SizeInv
<1>1. ASSUME SizesInv PROVE SizeInv
  BY <1>1 DEF SizesInv, SizeInv, Sized, Filled
<1> QED BY <1>1, SizesHold, PTL

(* At every moment, in the middle of a call and after a crash as well, each byte of the
   calls of sfs_write that have returned is where the table on the disk says, as long as
   no call has put data into a wrong place. *)
THEOREM Contained == Spec => []ContentKept
<1>1. ASSUME ContentInv PROVE ContentKept
  <2> SUFFICES ASSUME ~misplaced, NEW f \in Slot, acked[f] > 0
               PROVE  /\ disk[0].kind = "root" /\ disk[1].kind = "fat"
                      /\ \A k \in 0..(acked[f] - 1) :
                            OnDisk(Nth(disk[1].content.table, disk[0].content.table[f].fat_index), k) = <<f, k>>
    BY Zenon DEF ContentKept, Kept
  <2>1. OnTheDisk(acked)
    BY <1>1 DEF ContentInv, Contents
  <2>2. disk[0].kind = "root" /\ disk[1].kind = "fat"
    BY <2>1 DEF OnTheDisk
  <2>3. StoredRoot = disk[0].content /\ StoredFat = disk[1].content
    BY Zenon, <2>2 DEF StoredRoot, StoredFat, Stored
  <2>4. ASSUME NEW k \in 0..(acked[f] - 1)
        PROVE  OnDisk(Nth(disk[1].content.table, disk[0].content.table[f].fat_index), k) = <<f, k>>
    <3>1. PICK table, h : table = disk[1].content.table /\ h = disk[0].content.table[f].fat_index
      OBVIOUS
    <3>2. Found(table, h, f, k)
      BY <2>1, <2>3, <3>1 DEF OnTheDisk
    <3>3. PICK b \in DataBlock : b = Place(table, h, k)
      BY Zenon, <3>2 DEF Found, Located
    <3>4. /\ Nth(table, h)[k \div BLOCK_SIZE] \in Node /\ b = table[Nth(table, h)[k \div BLOCK_SIZE]].db_index
          /\ disk[b].kind = "data" /\ disk[b].content[(k % BLOCK_SIZE) + 1] = <<f, k>>
      BY ZenonT(60), <3>2, <3>3 DEF Found, Located, Place, HasByte
    <3>5. BytesAt(b, b) = disk[b].content
      <4>1. b \in Address
        BY Zenon, Numbers
      <4> QED BY Zenon, <3>4, <4>1 DEF BytesAt, Seek
    <3>6. OnDisk(Nth(table, h), k) = BytesAt(b, b)[(k % BLOCK_SIZE) + 1]
      BY Zenon, <3>1, <3>4 DEF OnDisk
    <3> QED BY Zenon, <3>1, <3>4, <3>5, <3>6
  <2> QED BY <2>2, <2>4
<1> QED BY <1>1, ContentsHold, PTL

(* What sfs_read delivers from the start of a file is what was written there, as far as
   anything was, as long as no call has put data into a wrong place. *)
THEOREM Prefixed == Spec => []ReadPrefix
<1>1. ASSUME GotInv PROVE ReadPrefix
  BY Zenon, <1>1 DEF GotInv, Right, ReadPrefix
<1> QED BY <1>1, GotHolds, PTL
=================================================================================
