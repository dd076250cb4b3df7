----------------------------------- MODULE SFS ----------------------------------
(***************************************************************************)
(* The file system Comp 310/ass3/sfs_api.c on the disk of disk_emu.c. The  *)
(* root directory, the file allocation table and the free list live in     *)
(* memory; a call that changes them writes each to its own block at the    *)
(* end, one after the other, and the process can stop between any two      *)
(* block writes. mksfs(0) reads them back.                                 *)
(*                                                                         *)
(* sfs_ls changes nothing. What a call computes in memory between two      *)
(* block writes is lost in a crash, so it is one step, taken when the call *)
(* begins; the writes it makes are queued in todo and done one by one.     *)
(***************************************************************************)
EXTENDS DiskEmu, FiniteSetsExt

CONSTANTS
    MAX_FILE,   (* the entries of the root directory                           *)
    Name,       (* the file names of the clients                               *)
    NoName,     (* the name in an entry that was never used                    *)
    Lengths,    (* the lengths clients write                                   *)
    ReadLengths, (* and read                                                   *)
    MaxSize,    (* bound on the bytes in all files after a write               *)
    MaxSkip,    (* bound on the read pointer of a file before a read           *)
    MaxBoots    (* bound on the number of times the program is started again   *)

ASSUME SFSAssumption ==
    /\ MAX_DISK \in Nat /\ MAX_DISK >= 4
    /\ MAX_FILE \in Nat \ {0}
    /\ BLOCK_SIZE \in Nat \ {0}
    /\ NoName \notin Name
    /\ Lengths \subseteq Nat \ {0} /\ ReadLengths \subseteq Nat \ {0}
    /\ MaxSize \in Nat /\ MaxSkip \in Nat /\ MaxBoots \in Nat

EMPTY == -2

Slot   == 0..(MAX_FILE - 1)
Node   == 0..(MAX_DISK - 1)
DataBlock == 2..(MAX_DISK - 2)

VARIABLES
    root,          (* root.table and root.next_cursor                             *)
    fat,           (* fat.table and fat.next_cursor                               *)
    freebl,        (* freebl.list                                                 *)
    opened_files,  (* how many handles sfs_open has given out in this process     *)
    phase,         (* "idle" between calls, "busy" while one writes, "off" when
                      the process is not running; "stuck" in a loop that does not
                      end, "undefined" past an index out of bounds                *)
    todo,          (* the block writes the call still makes                       *)
    boots,         (* how often the program was started                           *)
    (* History. *)
    written,       (* per handle: bytes handed to sfs_write                       *)
    acked,         (* per handle: bytes of the sfs_write calls that returned      *)
    got,           (* what sfs_read returned last, and from where                 *)
    misplaced,     (* sfs_write has put data elsewhere than at the end of a file,
                      or a node or block that is in use was given to a new file   *)
    torn           (* a crash has left some of the three structures unwritten     *)

memory  == <<root, fat, freebl, opened_files>>
history == <<written, acked, got, misplaced, torn>>
vars    == <<diskVars, memory, phase, todo, boots, history>>

ZeroEntry == [name |-> NoName, fat_index |-> 0, size |-> 0, opened |-> 0, wr_ptr |-> 0, rd_ptr |-> 0]
ZeroRoot  == [table |-> [f \in Slot |-> ZeroEntry], next_cursor |-> 0]
FatOf(db, nxt) == [table |-> [n \in Node |-> [db_index |-> db, next |-> nxt]], next_cursor |-> 0]
NoneUsed  == [b \in Node |-> 0]
NothingRead == [file |-> 0, from |-> 0, bytes |-> <<>>]

(* The end of the calls without the write of the table. *)
SaveTwo == <<[at |-> 0, kind |-> "root"], [at |-> MAX_DISK - 1, kind |-> "freebl"]>>

(* The list written before the table. *)
SaveListFirst ==
    <<[at |-> 0, kind |-> "root"], [at |-> MAX_DISK - 1, kind |-> "freebl"], [at |-> 1, kind |-> "fat"]>>

(* The three writes at the end of mksfs, sfs_open and sfs_write; memory does not
   change before they are done. *)
Save ==
    <<[at |-> 0, kind |-> "root"], [at |-> 1, kind |-> "fat"], [at |-> MAX_DISK - 1, kind |-> "freebl"]>>

(* What is written: an image of a structure, or a block of data. *)
Image(w) ==
    CASE w.kind = "root"   -> [kind |-> "root", content |-> root]
      [] w.kind = "fat"    -> [kind |-> "fat", content |-> fat]
      [] w.kind = "freebl" -> [kind |-> "freebl", content |-> freebl]
      [] OTHER             -> Data(w.bytes)

(* mksfs(1): a disk of zeros, and the three structures on their way to it. (In
   a process that starts, root.table is zero.) *)
Format ==
    /\ root' = ZeroRoot
    /\ fat' = FatOf(EMPTY, EMPTY)
    /\ freebl' = NoneUsed
    /\ todo' = Save
    /\ phase' = "busy"
    /\ disk' = [a \in Address |-> ZeroBlock]
    /\ pos' = MAX_DISK
    /\ written' = [f \in Slot |-> 0]
    /\ acked' = [f \in Slot |-> 0]
    /\ misplaced' = FALSE
    /\ torn' = FALSE

Init ==
    /\ root = ZeroRoot
    /\ fat = FatOf(0, 0)
    /\ freebl = NoneUsed
    /\ opened_files = 0
    /\ phase = "off"
    /\ todo = <<>>
    /\ boots = 0
    /\ disk = [a \in Address |-> ZeroBlock]
    /\ pos = 0
    /\ written = [f \in Slot |-> 0]
    /\ acked = [f \in Slot |-> 0]
    /\ got = NothingRead
    /\ misplaced = FALSE
    /\ torn = FALSE

(* mksfs(0): memory is what the three blocks hold. *)
Load ==
    LET block(a, kind, zero) == IF disk[a].kind = kind THEN disk[a].content ELSE zero
        misread(a, kind) == disk[a].kind \notin {kind, "zero"}
    IN  /\ root' = block(0, "root", ZeroRoot)
        /\ fat' = block(1, "fat", FatOf(0, 0))
        /\ freebl' = block(MAX_DISK - 1, "freebl", NoneUsed)
        /\ phase' = IF misread(0, "root") \/ misread(1, "fat") \/ misread(MAX_DISK - 1, "freebl")
                      THEN "undefined" ELSE "idle"
        /\ pos' = MAX_DISK
        /\ UNCHANGED <<disk, todo>>

(* The program starts and calls mksfs(1) or mksfs(0). *)
BootFresh ==
    /\ phase = "off"
    /\ boots = 0
    /\ boots' = 1
    /\ opened_files' = 0
    /\ got' = NothingRead
    /\ Format

Boot ==
    /\ phase = "off"
    /\ boots \in 1..MaxBoots
    /\ boots' = boots + 1
    /\ opened_files' = 0
    /\ got' = NothingRead
    /\ Load
    /\ written' = acked
    /\ UNCHANGED <<acked, misplaced, torn>>

(* The program calls mksfs(0) again, as sfs_test.c does: opened_files stays. *)
Remount ==
    /\ phase = "idle"
    /\ got' = NothingRead
    /\ Load
    /\ UNCHANGED <<opened_files, boots, written, acked, misplaced, torn>>

---------------------------------------------------------------------------------
(* Block writes, and the end of the process *)

Flush ==
    /\ phase = "busy"
    /\ WriteBlock(Head(todo).at, Image(Head(todo)))
    /\ todo' = Tail(todo)
    /\ phase' = IF Tail(todo) = <<>> THEN "idle" ELSE "busy"
    /\ acked' = IF Tail(todo) = <<>> THEN written ELSE acked
    /\ UNCHANGED <<memory, boots, written, got, misplaced, torn>>

Stop == 
    /\ phase' = "off"
    /\ todo' = <<>>
    /\ root' = ZeroRoot
    /\ fat' = FatOf(0, 0)
    /\ freebl' = NoneUsed
    /\ opened_files' = 0
    /\ got' = NothingRead

(* The process exits or is killed, between two calls or between two writes. *)
Crash ==
    /\ phase \in {"idle", "busy"}
    /\ Stop
    /\ torn' = (torn \/ Len(todo) \in 1..2)
    /\ UNCHANGED <<diskVars, boots, written, acked, misplaced>>

(* An access out of bounds, or a loop that does not end. *)
Lost(how) ==
    /\ phase' = how
    /\ got' = NothingRead
    /\ UNCHANGED <<diskVars, memory, todo, boots, written, acked, misplaced, torn>>

---------------------------------------------------------------------------------
(* Directory and table *)

(* getFileIndex *)
Matches(name) == {f \in Slot : root.table[f].name = name}
FileIndex(name) == CHOOSE f \in Matches(name) : \A g \in Matches(name) : f <= g

(* One block more: the last block of the disk, where the list itself is kept. *)
FreeBlockToEnd(list) ==
    LET free == {b \in 2..(MAX_DISK - 1) : list[b] = 0}
    IN  IF free = {} THEN -1 ELSE CHOOSE b \in free : \A c \in free : b <= c

(* The loop over freebl.list: the first free data block, or -1. *)
FreeBlock(list) ==
    LET free == {b \in DataBlock : list[b] = 0}
    IN  IF free = {} THEN -1 ELSE CHOOSE b \in free : \A c \in free : b <= c

(* A loop that does not mark what it finds. *)
TakenNothing(list, b) == list

Taken(list, b) == IF b = -1 THEN list ELSE [list EXCEPT ![b] = 1]

(* For the history: the entries of files, and the blocks the table already has. *)
Files == {f \in Slot : root.table[f].name # NoName}
InUse(b) == b # -1 /\ \E n \in Node : fat.table[n].db_index = b

(* The cursor of the table after the one at c was used. *)
NextCursor(table, c) ==
    LET empty == {n \in Node : table[n].db_index = EMPTY}
    IN  IF c + 1 < MAX_DISK THEN c + 1
        ELSE IF empty = {} THEN MAX_DISK ELSE CHOOSE n \in empty : \A m \in empty : n <= m

(* The entry the root directory uses next: at the end of the table the search
   is for one that is not empty. *)
NextEntry(table, c) ==
    LET nonempty == {f \in Slot : table[f].size > 0}
    IN  IF c + 1 < MAX_FILE THEN c + 1
        ELSE IF nonempty = {} THEN MAX_FILE ELSE CHOOSE f \in nonempty : \A g \in nonempty : f <= g

---------------------------------------------------------------------------------
(* sfs_open and sfs_close. (Opening a file that is open changes nothing.) *)

Reopen(name) ==
    /\ phase = "idle"
    /\ Matches(name) # {}
    /\ root.table[FileIndex(name)].opened # 1
    /\ root' = [root EXCEPT !.table[FileIndex(name)].opened = 1]
    /\ got' = NothingRead
    /\ UNCHANGED <<diskVars, fat, freebl, opened_files, phase, todo, boots,
                   written, acked, misplaced, torn>>

Descriptor(entry, name)   == [entry EXCEPT !.name = name, !.opened = 1, !.rd_ptr = 0, !.wr_ptr = 0]
FileEntry(entry, name, c) == [entry EXCEPT !.name = name, !.fat_index = c, !.size = 0]

(* A new file: handle opened_files gets the descriptor, entry next_cursor the
   data. exit(1) when a table has no room for the file after this one. *)
Create(name) ==
    LET f  == opened_files
        c  == fat.next_cursor
        e  == root.next_cursor
        db == FreeBlock(freebl)
        ft == [fat.table EXCEPT ![c] = [db_index |-> db, next |-> -1]]
        rt == [[root.table EXCEPT ![f] = Descriptor(@, name)] EXCEPT ![e] = FileEntry(@, name, c)]
    IN  /\ phase = "idle"
        /\ Matches(name) = {}
        /\ IF f \notin Slot \/ c \notin Node THEN Lost("undefined")
           ELSE IF NextCursor(ft, c) = MAX_DISK \/ NextEntry(rt, e) = MAX_FILE
             THEN Stop /\ UNCHANGED <<diskVars, boots, written, acked, misplaced, torn>>
             ELSE /\ fat' = [table |-> ft, next_cursor |-> NextCursor(ft, c)]
                  /\ freebl' = Taken(freebl, db)
                  /\ root' = [table |-> rt, next_cursor |-> NextEntry(rt, e)]
                  /\ opened_files' = f + 1
                  /\ todo' = Save
                  /\ phase' = "busy"
                  /\ got' = NothingRead
                  /\ written' = [written EXCEPT ![e] = 0]
                  /\ acked' = [acked EXCEPT ![e] = 0]
                  /\ misplaced' = (misplaced \/ InUse(db) \/ \E g \in Files : root.table[g].fat_index = c)
                  /\ UNCHANGED <<diskVars, boots, torn>>

(* sfs_close: any handle below opened_files, open or not. *)
Close(f) ==
    /\ phase = "idle"
    /\ f < opened_files
    /\ root' = [root EXCEPT !.table[f].opened = 0]
    /\ got' = NothingRead
    /\ UNCHANGED <<diskVars, fat, freebl, opened_files, phase, todo, boots,
                   written, acked, misplaced, torn>>

---------------------------------------------------------------------------------
(* Chains. Nth(table, h)[k] is the k-th node from node h on, -1 past the end of
   the chain, and EMPTY where it runs into an entry that is not in use. *)
Nth(table, h) ==
    LET after(n) == IF n \in Node THEN table[n].next ELSE n
        node[k \in 0..MAX_DISK] == IF k = 0 THEN h ELSE after(node[k - 1])
    IN  node

ChainLength(table, h) == CHOOSE k \in 0..MAX_DISK : Nth(table, h)[k] = -1 /\
                                \A j \in 0..(k - 1) : Nth(table, h)[j] # -1
Ends(table, h) == Nth(table, h)[MAX_DISK] = -1

(* sfs_write. The buffer is the block before the last one of the chain: db_index
   is assigned before fat_index moves on. *)
WriteTarget(table, h) ==
    LET last == ChainLength(table, h) - 1
    IN  table[Nth(table, h)[IF last = 0 THEN 0 ELSE last - 1]].db_index

(* The pointer at the end of a full block taken for the start of one. *)
PointerInBlock(ptr) == ptr % BLOCK_SIZE

(* Where in its block wr_ptr or rd_ptr points, -1 at the end of a full block. *)
Pointer(ptr) == IF ptr # 0 /\ ptr % BLOCK_SIZE = 0 THEN -1 ELSE ptr % BLOCK_SIZE

Least(a, b) == IF a < b THEN a ELSE b

(* memcpy(tmp_buf + at, bytes, Len(bytes)) *)
Overlay(buffer, at, bytes) ==
    [k \in 1..BLOCK_SIZE |->
        IF k \in (at + 1)..(at + Len(bytes)) THEN bytes[k - at] ELSE buffer[k]]

(* One round of the loop over what is left: a new node at the end of the chain
   and one block. *)
NewBlock(s, bytes) ==
    LET c  == s.cursor
        db == FreeBlock(s.list)
        b  == Overlay(s.buffer, 0, bytes)
        t  == [s.table EXCEPT ![s.last].next = c, ![c] = [db_index |-> db, next |-> -1]]
    IN  IF c \notin Node THEN s
        ELSE [table |-> t, cursor |-> NextCursor(t, c), list |-> Taken(s.list, db),
              last |-> c, buffer |-> b,
              writes |-> Append(s.writes, [at |-> db, kind |-> "data", bytes |-> b])]

(* The loop, for what follows the first n0 of the bytes. *)
Extended(first, bytes, n0, blocks) ==
    LET loop[k \in 0..blocks] ==
            IF k = 0 THEN first
            ELSE NewBlock(loop[k - 1], SubSeq(bytes, n0 + (k - 1) * BLOCK_SIZE + 1,
                                              Least(Len(bytes), n0 + k * BLOCK_SIZE)))
    IN  loop

TotalSize == MapThenSumSet(LAMBDA g : root.table[g].size, Slot)

Grown(entry, n) == [entry EXCEPT !.size = @ + n, !.wr_ptr = entry.size + n]

Write(f, length) ==
    LET h      == root.table[f].fat_index
        wr_ptr == root.table[f].wr_ptr
        target == WriteTarget(fat.table, h)
        at     == Pointer(wr_ptr)
        n0     == IF at = -1 THEN 0 ELSE Least(BLOCK_SIZE - at, length)
        bytes  == [k \in 1..length |-> <<f, written[f] + k - 1>>]
        read   == BytesAt(pos, target)
        buffer == IF at = -1 THEN read ELSE Overlay(read, at, SubSeq(bytes, 1, n0))
        blocks == (length - n0 + BLOCK_SIZE - 1) \div BLOCK_SIZE
        first  == [table |-> fat.table, cursor |-> fat.next_cursor, list |-> freebl,
                   last |-> Nth(fat.table, h)[ChainLength(fat.table, h) - 1], buffer |-> buffer,
                   writes |-> IF at = -1 THEN <<>> ELSE <<[at |-> target, kind |-> "data", bytes |-> buffer]>>]
        loop   == Extended(first, bytes, n0, blocks)
        end    == loop[blocks]
    IN  /\ phase = "idle"
        /\ f < opened_files
        /\ TotalSize + length <= MaxSize
        /\ IF \/ ~Ends(fat.table, h)
              \/ blocks > 0 /\ \E k \in 0..(blocks - 1) : loop[k].cursor \notin Node
             THEN Lost("undefined")
             ELSE /\ fat' = [table |-> end.table, next_cursor |-> end.cursor]
                  /\ freebl' = end.list
                  /\ root' = [root EXCEPT !.table[f] = Grown(@, length)]
                  /\ todo' = end.writes \o Save
                  /\ phase' = "busy"
                  /\ pos' = Past(pos, target)
                  /\ written' = [written EXCEPT ![f] = @ + length]
                  /\ misplaced' =
                        \/ misplaced
                        \/ wr_ptr # root.table[f].size
                        \/ at # -1 /\ ChainLength(fat.table, h) > 1
                        \/ \E k \in 1..Len(end.writes) : end.writes[k].at = -1
                        \/ \E k \in 1..blocks : InUse(FreeBlock(loop[k - 1].list))
                  /\ got' = NothingRead
                  /\ UNCHANGED <<disk, opened_files, boots, acked, torn>>

---------------------------------------------------------------------------------
(* The position and the bytes read so far, after one block and k more. *)
ReadLoop(first, db, more) ==
    LET loop[k \in 0..more] ==
            IF k = 0 THEN first
            ELSE [pos |-> Past(loop[k - 1].pos, db[k]),
                  bytes |-> loop[k - 1].bytes \o BytesAt(loop[k - 1].pos, db[k])]
    IN  loop

(* sfs_read, from rd_ptr on: the block rd_ptr is in, then the blocks of the chain
   after it except for the last one of the chain. What is missing from length at
   the end is added to rd_ptr. *)
Read(f, length) ==
    LET h      == root.table[f].fat_index
        rd_ptr == root.table[f].rd_ptr
        skip   == rd_ptr \div BLOCK_SIZE
        at     == Pointer(rd_ptr)
        nth    == Nth(fat.table, h)
        last   == ChainLength(fat.table, h) - 1
        n0     == Least(BLOCK_SIZE - at, length)
        left   == (length - n0 + BLOCK_SIZE - 1) \div BLOCK_SIZE
        more   == IF skip >= last THEN 0 ELSE Least(left, last - skip - 1)
        db     == [k \in 0..more |-> fat.table[nth[skip + k]].db_index]
        block  == BytesAt(pos, db[0])
        chunk  == IF at = -1 THEN SubSeq(<<NoByte>> \o block, 1, n0) ELSE SubSeq(block, at + 1, at + n0)
        loop   == ReadLoop([pos |-> Past(pos, db[0]), bytes |-> chunk], db, more)
        bytes  == SubSeq(loop[more].bytes, 1, Least(Len(loop[more].bytes), length))
    IN  /\ phase = "idle"
        /\ f < opened_files \/ root.table[f].opened # 0
        /\ rd_ptr <= MaxSkip
        /\ IF ~Ends(fat.table, h) THEN Lost("undefined")
           ELSE IF skip > last THEN Lost("stuck")
           ELSE \/ /\ got' = [file |-> f, from |-> rd_ptr, bytes |-> bytes]
                   /\ root' = [root EXCEPT !.table[f].rd_ptr = @ + length - Len(bytes)]
                   /\ pos' = loop[more].pos
                   /\ UNCHANGED <<disk, fat, freebl, opened_files, phase, todo, boots,
                                  written, acked, misplaced, torn>>
                \/ (* fat.table[-1] decides whether the loop goes on. *)
                   /\ skip = last /\ n0 < length
                   /\ Lost("undefined")

Call ==
    \/ \E name \in Name : Reopen(name) \/ Create(name)
    \/ \E f \in Slot : Close(f)
    \/ \E f \in Slot, length \in Lengths : Write(f, length)
    \/ \E f \in Slot, length \in ReadLengths : Read(f, length)
    \/ Remount

Next == BootFresh \/ Boot \/ Flush \/ Crash \/ Call

Spec == Init /\ [][Next]_vars

---------------------------------------------------------------------------------

Running == phase \in {"idle", "busy"}

Entry == [name : Name \cup {NoName}, fat_index : Node, size : Nat,
          opened : {0, 1}, wr_ptr : Nat, rd_ptr : Nat]

(* The tables, the disk and the locals of the running call have the types of sfs_api.c. *)
TypeOK ==
    /\ root.table \in [Slot -> Entry] /\ root.next_cursor \in Slot
    /\ fat.table \in [Node -> [db_index : DataBlock \cup {0, -1, EMPTY}, next : Node \cup {-1, EMPTY}]]
    /\ fat.next_cursor \in 0..MAX_DISK
    /\ freebl \in [Node -> {0, 1}]
    /\ opened_files \in 0..MAX_FILE
    /\ phase \in {"off", "idle", "busy", "stuck", "undefined"}
    /\ phase = "busy" <=> todo # <<>>
    /\ DOMAIN disk = Address /\ pos \in 0..MAX_DISK
    /\ written \in [Slot -> Nat] /\ acked \in [Slot -> Nat]

(* The nodes of the table that were allocated. *)
Used  == 0..(fat.next_cursor - 1)
(* The table and the free list agree: a block is marked if and only if one node
   holds it, no block is in two nodes, no node follows two others, chains run
   upwards to their end, and every file has a chain of its own. Only a crash
   between the writes of the three structures breaks this, because the table
   is written before the free list and so the block of a new node looks free. *)
AllocationInv ==
    ~torn /\ Running =>
        LET db(n) == fat.table[n].db_index
            next(n) == fat.table[n].next
            head(f) == root.table[f].fat_index
        IN  /\ \A n \in Used : db(n) \in DataBlock \cup {-1} /\ next(n) \in {-1} \cup ((n + 1)..MAX_DISK \cap Used)
            /\ \A b \in Node : freebl[b] = 1 <=> \E n \in Used : db(n) = b
            /\ \A m, n \in Used : m # n => (db(m) = db(n) => db(m) = -1)
            /\ \A m, n \in Used : m # n => (next(m) = next(n) => next(m) = -1)
            /\ \A f \in Files : head(f) \in Used /\ \A n \in Used : next(n) # head(f)
            /\ \A f, g \in Files : f # g => head(f) # head(g)

(* Whatever happens, also to a process that goes on after a crash, a block that
   is marked on the disk is in the table on the disk: no block is lost. *)
NoBlockLost ==
    disk[1].kind = "fat" /\ disk[MAX_DISK - 1].kind = "freebl" =>
        \A b \in Node : disk[MAX_DISK - 1].content[b] = 1 =>
            \E n \in Node : disk[1].content.table[n].db_index = b

(* Between two calls mksfs(0) would find on the disk what memory holds, apart
   from the flags and read pointers that sfs_open, sfs_close and sfs_read change
   without saving. *)
Durable ==
    phase = "idle" =>
        LET stored(a, kind, zero) == IF disk[a].kind = kind THEN disk[a].content ELSE zero
            saved(e) == <<e.name, e.fat_index, e.size, e.wr_ptr>>
            dir == stored(0, "root", ZeroRoot)
        IN  /\ dir.next_cursor = root.next_cursor
            /\ \A f \in Slot : saved(dir.table[f]) = saved(root.table[f])
            /\ stored(1, "fat", FatOf(0, 0)) = fat
            /\ stored(MAX_DISK - 1, "freebl", NoneUsed) = freebl

(* The size of a file is the number of bytes written to it, the next byte goes
   to its end, and its chain is as long as that takes. (A process that starts
   later gives out its handles from 0 again and mixes up files; before the first
   new file it refuses every handle.) *)
SizeInv ==
    Running /\ boots = 1 =>
        \A f \in Slot : f < opened_files =>
            LET e == root.table[f]
                length == ChainLength(fat.table, e.fat_index)
            IN  /\ Ends(fat.table, e.fat_index)
                /\ e.size = written[f] /\ e.wr_ptr = e.size
                /\ e.size <= length * BLOCK_SIZE
                /\ length > 1 => e.size > (length - 1) * BLOCK_SIZE

(* Byte k of the file whose chain is nth, as somebody finds it who has only the
   disk. *)
OnDisk(nth, k) ==
    LET n == nth[k \div BLOCK_SIZE]
        b == disk[1].content.table[n].db_index
    IN  IF n \in Node /\ b \in DataBlock THEN BytesAt(b, b)[(k % BLOCK_SIZE) + 1] ELSE NoByte

Kept ==
    \A f \in Slot : acked[f] > 0 =>
        /\ disk[0].kind = "root" /\ disk[1].kind = "fat"
        /\ LET nth == Nth(disk[1].content.table, disk[0].content.table[f].fat_index)
           IN  \A k \in 0..(acked[f] - 1) : OnDisk(nth, k) = <<f, k>>

(* At every moment, in the middle of a call and after a crash as well, each byte
   of the calls of sfs_write that have returned is where the table on the disk
   says, unless a call has put data into a wrong place. *)
ContentKept == ~misplaced => Kept

(* "ERROR: data error at offset %d in file" (sfs_test.c:180): the test expects
   to find what it wrote, whatever the lengths of its writes. *)
ContentAlwaysKept == boots = 1 => Kept

(* What sfs_read delivers from the start of a file is what was written there,
   as far as anything was. *)
ReadPrefix ==
    ~misplaced /\ got.from = 0 =>
        \A k \in 1..Len(got.bytes) : k <= acked[got.file] => got.bytes[k] = <<got.file, k - 1>>
=================================================================================
