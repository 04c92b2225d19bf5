---------------------------- MODULE SimpleFsCore ----------------------------
(***************************************************************************)
(* fs/simplefs.c, the functions below its interface.  The file system is   *)
(* sequential: the shell and the kernel call it and wait.  A function that *)
(* changes the file system therefore takes its state s, a record, and      *)
(* returns the state it leaves, with the result of the call in s.ok.       *)
(*                                                                         *)
(* A cell is a byte of a regular file or an entry <<name, inode>> of a     *)
(* directory, and sizes are counted in cells.  A block holds a sector of   *)
(* bytes, of entries, or the table of an indirect block.  A sector that    *)
(* was filled with zeros and not written again reads as ZERO cells, and as *)
(* block numbers 0.                                                        *)
(*                                                                         *)
(* Left out: link_count, which nothing reads; the names in the table of    *)
(* open files, which are only printed; reads that fail.  The pointers of a *)
(* free inode, which nothing reads either, are always INVALID.             *)
(***************************************************************************)
EXTENDS Integers, Sequences, FiniteSetsExt

CONSTANTS
  BYTES_PER_SECTOR,           \* 512
  ENTRIES_PER_SECTOR,         \* 16
  INODES_PER_SECTOR,          \* 8
  SIMPLEFS_MAX_INODES,        \* 64
  SIMPLEFS_DATA_BLOCKS,       \* 2048
  SIMPLEFS_DIRECT_BLOCKS,     \* 6
  SIMPLEFS_INDIRECT_ENTRIES,  \* 128
  SIMPLEFS_MAX_OPEN_FILES,    \* 8
  NAMES,                      \* names valid_name accepts
  BYTES,                      \* bytes a caller writes
  ZERO,                       \* the byte 0
  INVALID                     \* SIMPLEFS_INVALID_BLOCK and SIMPLEFS_INVALID_INODE

\* A new directory, with its two entries, fits into one direct block.
ASSUME SimpleFsAssumption ==
  /\ BYTES_PER_SECTOR \in Nat \ {0} /\ ENTRIES_PER_SECTOR \in Nat \ {0, 1} /\ INODES_PER_SECTOR \in Nat \ {0}
  /\ SIMPLEFS_MAX_INODES \in Nat \ {0} /\ SIMPLEFS_DATA_BLOCKS \in Nat \ {0}
  /\ SIMPLEFS_DIRECT_BLOCKS \in Nat \ {0} /\ SIMPLEFS_INDIRECT_ENTRIES \in Nat
  /\ SIMPLEFS_MAX_OPEN_FILES \in Nat
  /\ INVALID \notin (0 .. SIMPLEFS_MAX_INODES - 1) \cup (0 .. SIMPLEFS_DATA_BLOCKS - 1)
  /\ NAMES \cap {".", "..", "/"} = {}

Inodes == 0 .. SIMPLEFS_MAX_INODES - 1
Blocks == 0 .. SIMPLEFS_DATA_BLOCKS - 1
Fds == 0 .. SIMPLEFS_MAX_OPEN_FILES - 1
SIMPLEFS_ROOT_INODE == 0
SIMPLEFS_INODE_TABLE_SECTORS == (SIMPLEFS_MAX_INODES + INODES_PER_SECTOR - 1) \div INODES_PER_SECTOR
SIMPLEFS_MAX_FILE_SIZE == BYTES_PER_SECTOR * (SIMPLEFS_DIRECT_BLOCKS + SIMPLEFS_INDIRECT_ENTRIES)
SIMPLEFS_MAX_DIRECTORY_ENTRIES == ENTRIES_PER_SECTOR * (SIMPLEFS_DIRECT_BLOCKS + SIMPLEFS_INDIRECT_ENTRIES)

clear_block_pointers == [k \in 1 .. SIMPLEFS_DIRECT_BLOCKS |-> INVALID]
NoTable == [k \in 1 .. SIMPLEFS_INDIRECT_ENTRIES |-> INVALID]
NewInode(type) ==
  [type |-> type, size |-> 0, direct_blocks |-> clear_block_pointers, indirect_block |-> INVALID]
ZeroBlock == [kind |-> "zero", v |-> <<>>]
reset_open_files == [fd \in Fds |-> [used |-> FALSE, inode_index |-> INVALID, offset |-> 0]]

SectorOf(inode) == IF inode.type = "directory" THEN ENTRIES_PER_SECTOR ELSE BYTES_PER_SECTOR
LargestOf(inode) == IF inode.type = "directory" THEN SIMPLEFS_MAX_DIRECTORY_ENTRIES ELSE SIMPLEFS_MAX_FILE_SIZE

Fail(s) == [s EXCEPT !.ok = FALSE]

\* The step that follows when s succeeded; the one that cleans up when it failed.
Then(s, Next(_)) == IF s.ok THEN Next(s) ELSE s
OnFailure(s, Undo(_)) == IF s.ok THEN s ELSE Undo(s)

Lesser(a, b) == IF a < b THEN a ELSE b

-----------------------------------------------------------------------------
(***************************************************************************)
(* The disk.  s.fault says which sector write of the call does not         *)
(* succeed: from the write number `at' on all of them when the machine     *)
(* stops; that one only when the drive reports an error or times out, and  *)
(* the sector may have reached the disk all the same ("late").             *)
(***************************************************************************)
ata_write_sector(s, image) ==
  LET fails == \/ s.fault.kind = "stop" /\ s.done >= s.fault.at
               \/ s.fault.kind \in {"lost", "late"} /\ s.done = s.fault.at IN
  [s EXCEPT !.done = @ + 1,
            !.ok = ~fails,
            !.disk = IF fails /\ s.fault.kind # "late" THEN @ ELSE image]

write_boot_block(s) == ata_write_sector(s, [s.disk EXCEPT !.boot = TRUE])

write_info_block(s) ==
  ata_write_sector(s, [s.disk EXCEPT !.info = [magic |-> TRUE, inode_bitmap |-> s.inode_bitmap,
                                               data_bitmap |-> s.data_bitmap]])

\* The table takes several sectors: the machine may stop between two of them.
write_inode_table(s) ==
  LET sector(t, n) == [t.disk EXCEPT !.inode_table =
                         [i \in Inodes |-> IF i \div INODES_PER_SECTOR = n THEN t.inode_table[i] ELSE @[i]]]
      upto[n \in 0 .. SIMPLEFS_INODE_TABLE_SECTORS] ==
        IF n = 0 THEN [s EXCEPT !.ok = TRUE]
        ELSE Then(upto[n - 1], LAMBDA t : ata_write_sector(t, sector(t, n - 1))) IN
  upto[SIMPLEFS_INODE_TABLE_SECTORS]

\* Mutant: only the info block is written back.
write_metadata_info(s) == write_info_block(s)

write_metadata(s) == Then(write_info_block(s), write_inode_table)

\* read_metadata: mounting succeeds if there is a root directory.
read_metadata(s) ==
  LET disk == s.disk IN
  IF ~disk.boot \/ ~disk.info.magic THEN Fail(s)
  ELSE [s EXCEPT !.inode_bitmap = disk.info.inode_bitmap,
                 !.data_bitmap = disk.info.data_bitmap,
                 !.inode_table = disk.inode_table,
                 !.current_directory = SIMPLEFS_ROOT_INODE,
                 !.ok = /\ SIMPLEFS_ROOT_INODE \in disk.info.inode_bitmap
                        /\ disk.inode_table[SIMPLEFS_ROOT_INODE].type = "directory"]

-----------------------------------------------------------------------------
\* Mutant: the block is not marked as in use.
allocate_data_block_unmarked(s) ==
  LET b == Min(Blocks \ s.data_bitmap) IN
  IF Blocks \subseteq s.data_bitmap THEN Fail(s)
  ELSE ata_write_sector([s EXCEPT !.block = b], [s.disk EXCEPT !.blocks[b] = ZeroBlock])

\* Blocks.  First fit; the block is filled with zeros on the disk.
allocate_data_block(s) ==
  LET b == Min(Blocks \ s.data_bitmap) IN
  IF Blocks \subseteq s.data_bitmap THEN Fail(s)
  ELSE OnFailure(ata_write_sector([s EXCEPT !.data_bitmap = @ \cup {b}, !.block = b],
                                  [s.disk EXCEPT !.blocks[b] = ZeroBlock]),
                 LAMBDA t : [t EXCEPT !.data_bitmap = @ \ {b}])

TableIn(block) ==
  IF block.kind = "zero" THEN [k \in 1 .. SIMPLEFS_INDIRECT_ENTRIES |-> 0] ELSE block.v
CellIn(block, k) == IF block.kind = "cells" THEN block.v[k] ELSE ZERO

read_indirect_block(s, inode) ==
  IF inode.indirect_block = INVALID THEN NoTable ELSE TableIn(s.disk.blocks[inode.indirect_block])

write_indirect_block(s, i) ==
  ata_write_sector(s, [s.disk EXCEPT !.blocks[s.inode_table[i].indirect_block] = [kind |-> "table", v |-> s.table]])

\* Every block an inode refers to, the indirect block included.
BlocksOf(s, inode) ==
  (Range(inode.direct_blocks) \cup Range(read_indirect_block(s, inode)) \cup {inode.indirect_block}) \ {INVALID}

free_inode_blocks(s, i) ==
  [s EXCEPT !.data_bitmap = @ \ BlocksOf(s, s.inode_table[i]),
            !.inode_table[i] = NewInode(@.type)]

-----------------------------------------------------------------------------
\* Inodes.
inode_is_open(s, i) == \E fd \in Fds : s.open_files[fd].used /\ s.open_files[fd].inode_index = i

allocate_inode(s, type) ==
  LET i == Min(Inodes \ s.inode_bitmap) IN
  IF Inodes \subseteq s.inode_bitmap THEN Fail(s)
  ELSE OnFailure(write_metadata([s EXCEPT !.inode_bitmap = @ \cup {i}, !.inode_table[i] = NewInode(type),
                                          !.touched = @ \cup {i}, !.inode = i]),
                 LAMBDA t : [t EXCEPT !.inode_bitmap = @ \ {i}, !.inode_table[i] = NewInode("free")])

release_inode(s, i) ==
  IF i \notin s.inode_bitmap \/ i = SIMPLEFS_ROOT_INODE THEN Fail(s)
  ELSE write_metadata([free_inode_blocks(s, i) EXCEPT !.inode_table[i] = NewInode("free"),
                                                      !.inode_bitmap = @ \ {i},
                                                      !.touched = @ \cup {i}])

get_file_block(s, inode, logical) ==
  IF logical < SIMPLEFS_DIRECT_BLOCKS THEN inode.direct_blocks[logical + 1]
  ELSE IF logical - SIMPLEFS_DIRECT_BLOCKS >= SIMPLEFS_INDIRECT_ENTRIES THEN INVALID
  ELSE read_indirect_block(s, inode)[logical - SIMPLEFS_DIRECT_BLOCKS + 1]

\* The cells of inode i from offset on, at most count: a missing block ends them.
read_inode_bytes(s, i, offset, count) ==
  LET inode == s.inode_table[i]
      wanted == IF offset >= inode.size THEN 0 ELSE Lesser(inode.size - offset, count)
      block(p) == get_file_block(s, inode, (offset + p) \div SectorOf(inode))
      missing == {p \in 0 .. wanted - 1 : block(p) = INVALID}
      copied == IF missing = {} THEN wanted ELSE Min(missing) IN
  [p \in 1 .. copied |-> CellIn(s.disk.blocks[block(p - 1)], ((offset + p - 1) % SectorOf(inode)) + 1)]

(***************************************************************************)
(* write_inode_data: the blocks of the file are freed, then as many as the *)
(* new contents need are allocated, written and attached one by one.  When *)
(* one of these steps fails the file is left empty.                        *)
(***************************************************************************)
\* The indirect block is allocated when the first block behind the direct ones needs it.
attach_indirect(s, i) ==
  IF s.inode_table[i].indirect_block # INVALID THEN s
  ELSE Then(allocate_data_block(s), LAMBDA t :
         write_indirect_block([t EXCEPT !.inode_table[i].indirect_block = t.block], i))

attach_block(s, i, logical, b) ==
  IF logical < SIMPLEFS_DIRECT_BLOCKS THEN [s EXCEPT !.inode_table[i].direct_blocks[logical + 1] = b]
  ELSE Then(attach_indirect(s, i), LAMBDA t : [t EXCEPT !.table[logical - SIMPLEFS_DIRECT_BLOCKS + 1] = b])

write_block(s, i, logical, cells) ==
  Then(allocate_data_block(s), LAMBDA a :
    Then(OnFailure(ata_write_sector(a, [a.disk EXCEPT !.blocks[a.block] = [kind |-> "cells", v |-> cells]]),
                   LAMBDA w : [w EXCEPT !.data_bitmap = @ \ {a.block}]),
         LAMBDA w : attach_block(w, i, logical, a.block)))

write_blocks(s, i, data) ==
  LET sector == SectorOf(s.inode_table[i])
      required == (Len(data) + sector - 1) \div sector
      cells(n) == [k \in 1 .. sector |-> IF n * sector + k <= Len(data) THEN data[n * sector + k] ELSE ZERO]
      upto[n \in 0 .. required] ==
        IF n = 0 THEN [s EXCEPT !.ok = TRUE]
        ELSE Then(upto[n - 1], LAMBDA t : write_block(t, i, n - 1, cells(n - 1))) IN
  Then(upto[required], LAMBDA t :
    IF t.inode_table[i].indirect_block # INVALID THEN write_indirect_block(t, i) ELSE t)

write_inode_data(s, i, data) ==
  IF i \notin s.inode_bitmap \/ Len(data) > LargestOf(s.inode_table[i]) THEN Fail(s)
  ELSE Then(OnFailure(write_blocks([free_inode_blocks(s, i) EXCEPT !.table = NoTable, !.touched = @ \cup {i}], i, data),
                      LAMBDA t : Fail(write_inode_table(write_info_block(free_inode_blocks(t, i))))),
            LAMBDA t : write_metadata([t EXCEPT !.inode_table[i].size = Len(data)]))

-----------------------------------------------------------------------------
\* Directories.  An unreadable directory and an empty one have no entries.
IsDirectory(s, d) == d \in s.inode_bitmap /\ s.inode_table[d].type = "directory"
IsRegular(s, i) == i \in s.inode_bitmap /\ s.inode_table[i].type = "regular"

read_directory_entries(s, d) ==
  IF IsDirectory(s, d) THEN read_inode_bytes(s, d, 0, SIMPLEFS_MAX_DIRECTORY_ENTRIES) ELSE <<>>

init_directory_file(s, d, parent) == write_inode_data(s, d, <<<<".", d>>, <<"..", parent>>>>)

\* The slots of the entries with this name; find_entry_in_directory takes the first.
SlotsOf(entries, name) == {k \in DOMAIN entries : entries[k][1] = name}
Found(s, d, name) == SlotsOf(read_directory_entries(s, d), name) # {}
find_entry_in_directory(s, d, name) ==
  LET entries == read_directory_entries(s, d) IN entries[Min(SlotsOf(entries, name))][2]

append_entry_to_directory(s, d, name, child) ==
  LET entries == read_directory_entries(s, d) IN
  IF ~IsDirectory(s, d) \/ Len(entries) >= SIMPLEFS_MAX_DIRECTORY_ENTRIES THEN Fail(s)
  ELSE write_inode_data(s, d, Append(entries, <<name, child>>))

\* The entries behind the removed one move forward.
remove_entry_from_directory(s, d, name) ==
  LET entries == read_directory_entries(s, d)
      slot == Min(SlotsOf(entries, name)) IN
  IF ~Found(s, d, name) THEN Fail(s)
  ELSE write_inode_data(s, d, SubSeq(entries, 1, slot - 1) \o SubSeq(entries, slot + 1, Len(entries)))

directory_is_empty(s, d) ==
  IsDirectory(s, d) /\ \A k \in DOMAIN read_directory_entries(s, d) :
                         read_directory_entries(s, d)[k][1] \in {".", ".."}

\* get_parent_inode, the root directory where print_path_to_inode stops.
get_parent_inode(s, d) ==
  IF d = SIMPLEFS_ROOT_INODE \/ ~Found(s, d, "..") THEN SIMPLEFS_ROOT_INODE
  ELSE find_entry_in_directory(s, d, "..")
=============================================================================
