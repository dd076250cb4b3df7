--------------------------------- MODULE DiskEmu --------------------------------
(***************************************************************************)
(* The emulated disk, Comp 310/ass3/disk_emu.c: an image file of MAX_BLOCK *)
(* blocks. An address is an offset given to fseek: a negative one is       *)
(* refused by fseek, nobody looks at that, and the transfer happens where  *)
(* the file position is.                                                   *)
(***************************************************************************)
EXTENDS Integers, Sequences

CONSTANTS MAX_DISK,    (* blocks of the disk                        *)
          BLOCK_SIZE   (* bytes of a block                          *)

VARIABLES disk,  (* the blocks of the image                         *)
          pos    (* the position of fp, in blocks                   *)

diskVars == <<disk, pos>>

Address == 0..(MAX_DISK - 1)

(* A byte is named by the handle it was written through and its offset there. *)
NoByte == <<-1, -1>>
Blank  == [k \in 1..BLOCK_SIZE |-> NoByte]

(* A block holds file data or an image of one of the structures of sfs_api.c;
   init_fresh_disk fills the disk with zeros. *)
Data(bytes) == [kind |-> "data", content |-> bytes]
ZeroBlock   == [kind |-> "zero", content |-> Blank]

(* Where a transfer that names block a happens when the position is p, and the
   position after it. *)
Seek(p, a) == IF a < 0 THEN p ELSE a
Past(p, a) == IF Seek(p, a) < MAX_DISK THEN Seek(p, a) + 1 ELSE MAX_DISK

(* read_blocks(a, 1, buffer): what the buffer holds, as file data. *)
BytesAt(p, a) ==
    LET b == Seek(p, a)
    IN  IF b \in Address /\ disk[b].kind = "data" THEN disk[b].content ELSE Blank

(* write_blocks(a, 1, buffer). A transfer beyond the last block comes from an
   address that fseek refused: the image gets longer there. Only a read whose
   fseek fails at that very position comes back to it, so what lies there is left
   out, and such a read gives Blank: data was misplaced by then, of which no
   property of the contents speaks. *)
WriteBlock(a, block) ==
    /\ disk' = IF Seek(pos, a) \in Address THEN [disk EXCEPT ![Seek(pos, a)] = block] ELSE disk
    /\ pos' = Past(pos, a)
=================================================================================
