------------------------------ MODULE SimpleFs ------------------------------
(***************************************************************************)
(* The interface of fs/simplefs.c: one action per call, made by the shell  *)
(* or by the kernel's memory log.  A call runs to its end; or one of its   *)
(* sector writes fails and the call goes on; or the machine stops at one   *)
(* of them and starts again from the disk.  After a failure of the disk or *)
(* a stop only mounting and mkfs are explored.                             *)
(***************************************************************************)
EXTENDS SimpleFsCore

CONSTANTS
  DATA,        \* bound: the texts callers write, sequences of BYTES
  OFFSETS,     \* bound: the offsets of seek
  FAULTS,      \* bound: which faults happen, a subset of {"lost", "late", "stop"}
  MAX_CALLS,   \* bound: calls that write to the disk, between two mkfs
  MAX_OPEN     \* bound: files open when a fault happens, beside the one written

ASSUME CallsAssumption ==
  /\ DATA \subseteq Seq(BYTES) /\ OFFSETS \subseteq Nat
  /\ FAULTS \subseteq {"lost", "late", "stop"} /\ MAX_OPEN \in Nat

VARIABLES
  inode_bitmap, data_bitmap,   \* info_block: what is in use
  inode_table, open_files, current_directory, fs_mounted,
  disk,    \* boot block, info block, inode table and data blocks on the disk
  doubt,   \* history: inodes a failed or interrupted call was working on, since mkfs
  fault,   \* history: what happened to that call, or "none"
  calls    \* history: the calls that wrote to the disk since mkfs

memory == <<inode_bitmap, data_bitmap, inode_table, open_files, current_directory, fs_mounted>>
fs_vars == <<memory, disk, doubt, fault, calls>>

Current(injected) ==
  [inode_bitmap |-> inode_bitmap, data_bitmap |-> data_bitmap, inode_table |-> inode_table,
   open_files |-> open_files, current_directory |-> current_directory, fs_mounted |-> fs_mounted,
   disk |-> disk, fault |-> injected, done |-> 0, ok |-> TRUE,
   block |-> INVALID, inode |-> INVALID, table |-> NoTable, out |-> <<>>, touched |-> {}]

Leave(s) ==
  /\ inode_bitmap' = s.inode_bitmap /\ data_bitmap' = s.data_bitmap
  /\ inode_table' = s.inode_table /\ open_files' = s.open_files
  /\ current_directory' = s.current_directory /\ fs_mounted' = s.fs_mounted
  /\ disk' = s.disk

NoFault == [kind |-> "none", at |-> 0]

\* simplefs_init when the machine starts: memory is empty, the disk is what it is.
simplefs_init(image) ==
  LET s == read_metadata([Current(NoFault) EXCEPT
             !.inode_bitmap = {}, !.data_bitmap = {}, !.inode_table = [i \in Inodes |-> NewInode("free")],
             !.open_files = reset_open_files, !.current_directory = SIMPLEFS_ROOT_INODE, !.disk = image]) IN
  [s EXCEPT !.fs_mounted = s.ok]

BlankDisk ==
  [boot |-> FALSE, info |-> [magic |-> FALSE, inode_bitmap |-> {}, data_bitmap |-> {}],
   inode_table |-> [i \in Inodes |-> NewInode("free")], blocks |-> [b \in Blocks |-> ZeroBlock]]

\* A disk without a file system.
FsInit ==
  /\ inode_bitmap = {} /\ data_bitmap = {}
  /\ inode_table = [i \in Inodes |-> NewInode("free")]
  /\ open_files = reset_open_files
  /\ current_directory = SIMPLEFS_ROOT_INODE
  /\ fs_mounted = FALSE
  /\ disk = BlankDisk
  /\ doubt = {} /\ fault = "none" /\ calls = 0

-----------------------------------------------------------------------------
(* The calls: the state they leave when called in s.                       *)

\* Mutant: the root inode is marked after the info block was written.
simplefs_format_late(s) ==
  LET blank == [s EXCEPT !.inode_bitmap = {}, !.data_bitmap = {}, !.touched = Inodes,
                         !.inode_table = [i \in Inodes |-> NewInode(IF i = SIMPLEFS_ROOT_INODE THEN "directory" ELSE "free")]] IN
  Then(Then(Then(write_boot_block(blank), write_metadata),
            LAMBDA m : init_directory_file([m EXCEPT !.inode_bitmap = {SIMPLEFS_ROOT_INODE}], SIMPLEFS_ROOT_INODE, SIMPLEFS_ROOT_INODE)),
       LAMBDA d : [d EXCEPT !.fs_mounted = TRUE, !.current_directory = SIMPLEFS_ROOT_INODE,
                            !.open_files = reset_open_files])

simplefs_format(s) ==
  LET blank == [s EXCEPT !.inode_bitmap = {SIMPLEFS_ROOT_INODE}, !.data_bitmap = {}, !.touched = Inodes,
                         !.inode_table = [i \in Inodes |-> NewInode(IF i = SIMPLEFS_ROOT_INODE THEN "directory" ELSE "free")]] IN
  Then(Then(Then(write_boot_block(blank), write_metadata),
            LAMBDA m : init_directory_file(m, SIMPLEFS_ROOT_INODE, SIMPLEFS_ROOT_INODE)),
       LAMBDA d : [d EXCEPT !.fs_mounted = TRUE, !.current_directory = SIMPLEFS_ROOT_INODE,
                            !.open_files = reset_open_files])

valid_name(name) == name \in NAMES

\* create and mkdir: the inode first, then the entry that names it.
simplefs_create(s, name) ==
  LET cwd == s.current_directory IN
  IF ~s.fs_mounted \/ ~valid_name(name) \/ Found(s, cwd, name) THEN Fail(s)
  ELSE Then(allocate_inode(s, "regular"), LAMBDA a :
         Then(OnFailure(append_entry_to_directory(a, cwd, name, a.inode),
                        LAMBDA e : Fail(release_inode(e, a.inode))),
              write_inode_table))

simplefs_make_dir(s, name) ==
  LET cwd == s.current_directory IN
  IF ~s.fs_mounted \/ ~valid_name(name) \/ Found(s, cwd, name) THEN Fail(s)
  ELSE Then(allocate_inode(s, "directory"), LAMBDA a :
         OnFailure(Then(init_directory_file(a, a.inode, cwd),
                        LAMBDA d : append_entry_to_directory(d, cwd, name, a.inode)),
                   LAMBDA e : Fail(release_inode(e, a.inode))))

\* Mutant: an open file is deleted.
simplefs_delete_open(s, name) ==
  LET cwd == s.current_directory
      i == find_entry_in_directory(s, cwd, name) IN
  IF ~s.fs_mounted \/ ~Found(s, cwd, name) THEN Fail(s)
  ELSE IF ~IsRegular(s, i) THEN Fail(s)
  ELSE Then(Then(remove_entry_from_directory(s, cwd, name), LAMBDA r : release_inode(r, i)),
            write_inode_table)

\* delete and rmdir: the entry first, then the inode.
simplefs_delete(s, name) ==
  LET cwd == s.current_directory
      i == find_entry_in_directory(s, cwd, name) IN
  IF ~s.fs_mounted \/ ~Found(s, cwd, name) THEN Fail(s)
  ELSE IF ~IsRegular(s, i) \/ inode_is_open(s, i) THEN Fail(s)
  ELSE Then(Then(remove_entry_from_directory(s, cwd, name), LAMBDA r : release_inode(r, i)),
            write_inode_table)

simplefs_remove_dir(s, name) ==
  LET cwd == s.current_directory
      i == find_entry_in_directory(s, cwd, name) IN
  IF ~s.fs_mounted \/ ~Found(s, cwd, name) THEN Fail(s)
  ELSE IF i = SIMPLEFS_ROOT_INODE \/ ~IsDirectory(s, i) \/ ~directory_is_empty(s, i) THEN Fail(s)
  ELSE Then(remove_entry_from_directory(s, cwd, name), LAMBDA r : release_inode(r, i))

simplefs_change_dir(s, name) ==
  LET i == find_entry_in_directory(s, s.current_directory, name) IN
  IF ~s.fs_mounted THEN Fail(s)
  ELSE IF name = "/" THEN [s EXCEPT !.current_directory = SIMPLEFS_ROOT_INODE]
  ELSE IF ~Found(s, s.current_directory, name) \/ ~IsDirectory(s, i) THEN Fail(s)
  ELSE [s EXCEPT !.current_directory = i]

\* A name of the current directory that is a regular file.
NamesFile(s, name) ==
  s.fs_mounted /\ Found(s, s.current_directory, name)
    /\ IsRegular(s, find_entry_in_directory(s, s.current_directory, name))

simplefs_read_file(s, name) ==
  LET i == find_entry_in_directory(s, s.current_directory, name) IN
  IF NamesFile(s, name) THEN [s EXCEPT !.out = read_inode_bytes(s, i, 0, SIMPLEFS_MAX_FILE_SIZE)]
  ELSE Fail(s)

simplefs_write_file(s, name, data) ==
  LET cwd == s.current_directory IN
  IF ~s.fs_mounted \/ ~valid_name(name) \/ Len(data) > SIMPLEFS_MAX_FILE_SIZE THEN Fail(s)
  ELSE Then(IF Found(s, cwd, name) THEN s ELSE simplefs_create(s, name), LAMBDA t :
         IF NamesFile(t, name) THEN write_inode_data(t, find_entry_in_directory(t, cwd, name), data)
         ELSE Fail(t))

\* The old contents are read and written again with the new ones behind them.
simplefs_append_file(s, name, data) ==
  Then(IF Found(s, s.current_directory, name) THEN simplefs_read_file(s, name) ELSE s, LAMBDA r :
    IF Len(r.out) + Len(data) > SIMPLEFS_MAX_FILE_SIZE THEN Fail(s)
    ELSE [simplefs_write_file(s, name, r.out \o data) EXCEPT !.out = <<>>])

simplefs_open(s, name) ==
  LET free == {fd \in Fds : ~s.open_files[fd].used}
      i == find_entry_in_directory(s, s.current_directory, name) IN
  IF ~NamesFile(s, name) \/ free = {} THEN Fail(s)
  ELSE [s EXCEPT !.open_files[Min(free)] = [used |-> TRUE, inode_index |-> i, offset |-> 0]]

simplefs_close(s, fd) ==
  IF ~s.open_files[fd].used THEN Fail(s)
  ELSE [s EXCEPT !.open_files[fd] = reset_open_files[fd]]

simplefs_read_fd(s, fd) ==
  LET f == s.open_files[fd]
      bytes == read_inode_bytes(s, f.inode_index, f.offset, SIMPLEFS_MAX_FILE_SIZE) IN
  IF ~s.fs_mounted \/ ~f.used THEN Fail(s)
  ELSE IF f.inode_index \notin s.inode_bitmap THEN Fail(s)
  ELSE [s EXCEPT !.open_files[fd].offset = @ + Len(bytes), !.out = bytes]

\* Mutant: the bytes behind the written ones are cut off.
Overwritten_cut(old, offset, data) ==
  [p \in 1 .. offset + Len(data) |->
     IF p > offset THEN data[p - offset] ELSE IF p <= Len(old) THEN old[p] ELSE ZERO]

\* The contents with data at offset; a hole behind the old end is zero.
Overwritten(old, offset, data) ==
  [p \in 1 .. (IF offset + Len(data) > Len(old) THEN offset + Len(data) ELSE Len(old)) |->
     IF p > offset /\ p <= offset + Len(data) THEN data[p - offset]
     ELSE IF p <= Len(old) THEN old[p] ELSE ZERO]

simplefs_write_fd(s, fd, data) ==
  LET f == s.open_files[fd]
      old == read_inode_bytes(s, f.inode_index, 0, SIMPLEFS_MAX_FILE_SIZE) IN
  IF ~s.fs_mounted \/ ~f.used THEN Fail(s)
  ELSE IF f.offset + Len(data) > SIMPLEFS_MAX_FILE_SIZE \/ f.inode_index \notin s.inode_bitmap THEN Fail(s)
  ELSE Then(write_inode_data(s, f.inode_index, Overwritten(old, f.offset, data)),
            LAMBDA w : [w EXCEPT !.open_files[fd].offset = f.offset + Len(data)])

simplefs_seek(s, fd, offset) ==
  LET f == s.open_files[fd] IN
  IF ~s.fs_mounted \/ ~f.used THEN Fail(s)
  ELSE IF f.inode_index \notin s.inode_bitmap \/ offset > s.inode_table[f.inode_index].size THEN Fail(s)
  ELSE [s EXCEPT !.open_files[fd].offset = offset]

-----------------------------------------------------------------------------
(* The state machine.                                                      *)

\* The call runs to its end.
Completes(Call(_)) ==
  LET s == Call(Current(NoFault)) IN
  /\ Leave(s)
  /\ calls' = calls + (IF s.done > 0 THEN 1 ELSE 0) /\ calls' <= MAX_CALLS
  /\ UNCHANGED <<doubt, fault>>

\* The sector writes of a call, each of which may be the one that fails.
WritesOf(Call(_)) == 0 .. Call(Current(NoFault)).done - 1

FewOpen(fds) == Cardinality({fd \in Fds \ fds : open_files[fd].used}) <= MAX_OPEN

\* One sector write that the call makes is reported as failed; the call goes on.
WriteFails(Call(_)) ==
  \E kind \in FAULTS \cap {"lost", "late"}, at \in WritesOf(Call) :
    LET s == Call(Current([kind |-> kind, at |-> at])) IN
    /\ at < s.done
    /\ Leave(s)
    /\ doubt' = s.touched /\ fault' = kind /\ UNCHANGED calls

\* The machine stops at a sector write of the call and is started again.
MachineStops(Call(_)) ==
  \E kind \in FAULTS \cap {"stop"}, at \in WritesOf(Call) :
    LET s == Call(Current([kind |-> kind, at |-> at])) IN
    /\ at < s.done
    /\ Leave(simplefs_init(s.disk))
    /\ doubt' = s.touched /\ fault' = kind /\ UNCHANGED calls

\* A call that may write, through the descriptors fds.
DoesThrough(fds, Call(_)) ==
  /\ doubt = {}
  /\ Completes(Call) \/ (FewOpen(fds) /\ (WriteFails(Call) \/ MachineStops(Call)))
Does(Call(_)) == DoesThrough({}, Call)

\* mkfs starts from nothing, whatever state the file system is in.
Format ==
  LET Call(s) == simplefs_format(s) IN
  \/ Leave(Call(Current(NoFault))) /\ doubt' = {} /\ fault' = "none" /\ calls' = 0
  \/ doubt = {} /\ FewOpen({}) /\ (WriteFails(Call) \/ MachineStops(Call))

\* The machine is switched off between two calls and started again.
Reboot == Leave(simplefs_init(disk)) /\ UNCHANGED <<doubt, fault, calls>>

Touch(name) == Does(LAMBDA s : simplefs_create(s, name))
Remove(name) == Does(LAMBDA s : simplefs_delete(s, name))
MakeDir(name) == Does(LAMBDA s : simplefs_make_dir(s, name))
RemoveDir(name) == Does(LAMBDA s : simplefs_remove_dir(s, name))
WriteFile(name, data) == Does(LAMBDA s : simplefs_write_file(s, name, data))
AppendFile(name, data) == Does(LAMBDA s : simplefs_append_file(s, name, data))

WriteFd(fd, data) == DoesThrough({fd}, LAMBDA s : simplefs_write_fd(s, fd, data))

\* The other calls write nothing.
Quiet(Call(_)) == doubt = {} /\ Completes(Call)
ChangeDir(name) == Quiet(LAMBDA s : simplefs_change_dir(s, name))
Open(name) == Quiet(LAMBDA s : simplefs_open(s, name))
Close(fd) == Quiet(LAMBDA s : simplefs_close(s, fd))
ReadFd(fd) == Quiet(LAMBDA s : simplefs_read_fd(s, fd))
Seek(fd, offset) == Quiet(LAMBDA s : simplefs_seek(s, fd, offset))

\* "." stands for the names that valid_name refuses.
FsNext ==
  \/ Format
  \/ Reboot
  \/ \E name \in NAMES \cup {"."} :
       \/ Touch(name) \/ Remove(name) \/ MakeDir(name) \/ Open(name)
       \/ \E data \in DATA : WriteFile(name, data) \/ AppendFile(name, data)
  \/ \E name \in NAMES \cup {".", "..", "/"} : RemoveDir(name) \/ ChangeDir(name)
  \/ \E fd \in Fds :
       \/ Close(fd) \/ ReadFd(fd)
       \/ \E data \in DATA : WriteFd(fd, data)
       \/ \E offset \in OFFSETS : Seek(fd, offset)

FsSpec == FsInit /\ [][FsNext]_fs_vars

-----------------------------------------------------------------------------
(* Properties.                                                             *)

Now == Current(NoFault)

\* Every variable keeps its type.
FsTypeOK ==
  /\ inode_bitmap \subseteq Inodes /\ data_bitmap \subseteq Blocks
  /\ \A i \in Inodes :
       /\ inode_table[i].type \in {"free", "regular", "directory"}
       /\ inode_table[i].size \in 0 .. LargestOf(inode_table[i])
       /\ inode_table[i].direct_blocks \in [1 .. SIMPLEFS_DIRECT_BLOCKS -> Blocks \cup {INVALID}]
       /\ inode_table[i].indirect_block \in Blocks \cup {INVALID}
  /\ open_files \in [Fds -> [used : BOOLEAN, inode_index : Inodes \cup {INVALID}, offset : 0 .. SIMPLEFS_MAX_FILE_SIZE]]
  /\ current_directory \in Inodes /\ fs_mounted \in BOOLEAN
  /\ doubt \subseteq Inodes

(***************************************************************************)
(* The files a user sees: the contents of an inode are what                *)
(* read_inode_bytes finds through bitmap, table, blocks and indirect block.*)
(***************************************************************************)
FileOf(s, i) ==
  IF i \notin s.inode_bitmap THEN [type |-> "free", data |-> <<>>]
  ELSE [type |-> s.inode_table[i].type, data |-> read_inode_bytes(s, i, 0, LargestOf(s.inode_table[i]))]

Files == [i \in Inodes |-> IF i \in doubt THEN [type |-> "unknown", data |-> <<>>] ELSE FileOf(Now, i)]

Store == INSTANCE FileStore WITH
  FILES <- Inodes, ROOT <- SIMPLEFS_ROOT_INODE, store <- Files,
  cwd <- current_directory, fds <- open_files

\* The calls implement the abstract store: a file holds exactly what was
\* written to it, through direct and indirect blocks, overwriting, holes and
\* deletions; no call touches a file it is not about, not even when the disk
\* is full, a write fails or the machine stops in the middle of a call; and a
\* machine that is started again finds what was there.
ImplementsStore == Store!Spec

\* Every block of a file is marked in data_bitmap and belongs to one file, in
\* one place: the first-fit allocation never hands out a block that is in use.
\* This also holds of the image a stopped machine finds, and after a failed
\* write, for the files the interrupted call was not working on.  One exception,
\* of the code: when the write of a new indirect block is lost, the clean-up
\* reads the zeros it was filled with as block numbers, and frees block 0.
\* (fault does not tell which sector was lost: block 0 is exempt after any lost
\* write.)
Pointers(i) ==
  {<<k, inode_table[i].direct_blocks[k]>> : k \in 1 .. SIMPLEFS_DIRECT_BLOCKS}
    \cup {<<SIMPLEFS_DIRECT_BLOCKS + k, read_indirect_block(Now, inode_table[i])[k]>> : k \in 1 .. SIMPLEFS_INDIRECT_ENTRIES}
    \cup {<<0, inode_table[i].indirect_block>>}
Attached(i) == {p \in Pointers(i) : p[2] # INVALID}
BlocksOwned ==
  LET used == inode_bitmap \ doubt IN
  /\ \A i \in used : \A p \in Attached(i) :
       p[2] \in data_bitmap \/ (fault = "lost" /\ p[2] = 0)
  /\ \A i, j \in used : \A p \in Attached(i), q \in Attached(j) :
       p[2] = q[2] => <<i, p>> = <<j, q>>

\* What is on the disk after a call is what is in memory, so that nothing is
\* lost when the machine is switched off: every call writes back all it changed.
Synced ==
  fs_mounted /\ doubt = {} =>
    /\ disk.info.inode_bitmap = inode_bitmap /\ disk.info.data_bitmap = data_bitmap
    /\ disk.inode_table = inode_table

\* A descriptor refers to a regular file that exists: a file that is open is
\* not deleted, and its inode is not given to another file.
OpenFilesAlive ==
  doubt = {} => \A fd \in Fds : open_files[fd].used => IsRegular(Now, open_files[fd].inode_index)

\* No directory has two entries with the same name.
NamesUnique ==
  \A d \in Inodes \ doubt :
    LET entries == read_directory_entries(Now, d) IN
    \A j, k \in DOMAIN entries : entries[j][1] = entries[k][1] => j = k

\* The tables are sound after every call: types, descriptors and names.
TablesSound == FsTypeOK /\ OpenFilesAlive /\ NamesUnique

\* Once there is a file system the machine always mounts it again, wherever it
\* stopped, in the middle of mkfs too.
StaysMountable == [][fs_mounted => fs_mounted']_fs_vars

\* print_path_to_inode climbs from directory to parent until it is at the root
\* directory; n steps up from d.
Climb(d, n) ==
  LET up[k \in 0 .. n] == IF k = 0 THEN d ELSE get_parent_inode(Now, up[k - 1]) IN up[n]

\* What the command list says: pwd shows the current directory.  It comes to an
\* end, as the root directory is above every directory.
WorkingDirectoryShown ==
  fs_mounted /\ doubt = {} => Climb(current_directory, SIMPLEFS_MAX_INODES) = SIMPLEFS_ROOT_INODE
=============================================================================
