--------------------------- MODULE SimpleFsProofs ---------------------------
(***************************************************************************)
(* Proofs about SimpleFs, for every geometry of the disk, every number of  *)
(* inodes, blocks and descriptors, and every fault of the disk.            *)
(***************************************************************************)
EXTENDS SimpleFs, Induction, SequenceTheorems

-----------------------------------------------------------------------------
(* The states the functions of the core work on.  V are the contents of    *)
(* data blocks.                                                            *)

Pointer == Blocks \cup {INVALID}
DirectTables == [1 .. SIMPLEFS_DIRECT_BLOCKS -> Pointer]
IndirectTables == [1 .. SIMPLEFS_INDIRECT_ENTRIES -> Pointer]
InodeSet ==
  {r \in [type : {"free", "regular", "directory"}, size : Nat,
          direct_blocks : DirectTables, indirect_block : Pointer] : r.size <= LargestOf(r)}
InodeTables == [Inodes -> InodeSet]
OpenTables == [Fds -> [used : BOOLEAN, inode_index : Inodes \cup {INVALID}, offset : 0 .. SIMPLEFS_MAX_FILE_SIZE]]
BlockSet(V) == {ZeroBlock} \cup [kind : {"table"}, v : IndirectTables] \cup [kind : {"cells"}, v : V]
Infos == [magic : BOOLEAN, inode_bitmap : SUBSET Inodes, data_bitmap : SUBSET Blocks]
Disks(V) == [boot : BOOLEAN, info : Infos, inode_table : InodeTables, blocks : [Blocks -> BlockSet(V)]]
Faults == [kind : {"none", "lost", "late", "stop"}, at : Nat]
FsStates(V) ==
  [inode_bitmap : SUBSET Inodes, data_bitmap : SUBSET Blocks, inode_table : InodeTables,
   open_files : OpenTables, current_directory : Inodes, fs_mounted : BOOLEAN,
   disk : Disks(V), fault : Faults, done : Nat, ok : BOOLEAN,
   block : Pointer, inode : Inodes \cup {INVALID}, table : IndirectTables, out : V,
   touched : SUBSET Inodes]

\* The tables in memory.
SameTables(s, t) ==
  t.inode_bitmap = s.inode_bitmap /\ t.data_bitmap = s.data_bitmap /\ t.inode_table = s.inode_table
\* What no function of the core changes.
SameCaller(s, t) ==
  /\ t.open_files = s.open_files /\ t.current_directory = s.current_directory
  /\ t.fs_mounted = s.fs_mounted /\ t.fault = s.fault /\ t.out = s.out
SameScratch(s, t) ==
  t.block = s.block /\ t.inode = s.inode /\ t.table = s.table /\ t.touched = s.touched
\* Everything but the disk and what was said of it.
SameMemory(s, t) == SameTables(s, t) /\ SameCaller(s, t) /\ SameScratch(s, t)

\* The machine has stopped: no further write changes the disk.
Stopped(s) == s.fault.kind = "stop" /\ s.done >= s.fault.at

\* The fault injected into the call.
LEMMA Faulty ==
  ASSUME NEW V, NEW s \in FsStates(V)
  PROVE  s.done \in Nat /\ s.fault.at \in Nat /\ s.fault.kind \in {"none", "lost", "late", "stop"}
BY DEF FsStates, Faults

\* A sector write: either nothing happens to the disk or it becomes the image;
\* a write that succeeds has reached it.
LEMMA WritesSector ==
  ASSUME NEW V, NEW s \in FsStates(V), NEW image \in Disks(V)
  PROVE  LET t == ata_write_sector(s, image) IN
         /\ t \in FsStates(V) /\ SameMemory(s, t) /\ t.done = s.done + 1
         /\ t.disk = s.disk \/ t.disk = image
         /\ t.ok => t.disk = image
         /\ s.fault.kind = "none" => t.ok
         /\ t.ok \/ t.disk = image \/ s.fault.kind = "lost" \/ Stopped(t)
         /\ Stopped(s) => t.disk = s.disk
<1> DEFINE fails == \/ s.fault.kind = "stop" /\ s.done >= s.fault.at
                    \/ s.fault.kind \in {"lost", "late"} /\ s.done = s.fault.at
           kept == fails /\ s.fault.kind # "late"
           t == ata_write_sector(s, image)
<1>1. t = [s EXCEPT !.done = s.done + 1, !.ok = ~fails, !.disk = IF kept THEN s.disk ELSE image]
  BY DEF ata_write_sector
<1>2. fails \in BOOLEAN /\ kept \in BOOLEAN /\ s.done + 1 \in Nat /\ s.disk \in Disks(V)
  BY DEF FsStates
<1>3. (IF kept THEN s.disk ELSE image) \in Disks(V)
  BY <1>2
<1> HIDE DEF t
<1>4. t.ok = ~fails /\ t.done = s.done + 1 /\ t.disk = IF kept THEN s.disk ELSE image
  <2> HIDE DEF fails, kept
  <2> QED BY <1>1 DEF FsStates
<1>5. SameMemory(s, t)
  <2> HIDE DEF fails, kept
  <2> QED BY <1>1 DEF FsStates, SameMemory, SameTables, SameCaller, SameScratch
<1>6. t \in FsStates(V)
  <2> HIDE DEF fails, kept
  <2> QED BY <1>1, <1>2, <1>3 DEF FsStates
<1>7. s.fault.kind = "none" => ~fails
  OBVIOUS
<1>8. (kept => s.fault.kind = "lost" \/ Stopped(s)) /\ (Stopped(s) => kept)
  BY Faulty DEF Stopped
<1>9. t.disk = s.disk \/ t.disk = image
  <2> HIDE DEF fails, kept
  <2> QED BY <1>4
<1>10. t.ok => t.disk = image
  <2>1. kept => fails
    OBVIOUS
  <2> HIDE DEF fails, kept
  <2> QED BY <1>2, <1>4, <2>1
<1>11. s.fault.kind = "none" => t.ok
  <2> HIDE DEF fails, kept
  <2> QED BY <1>2, <1>4, <1>7
<1>12. /\ t.ok \/ t.disk = image \/ s.fault.kind = "lost" \/ Stopped(t)
       /\ Stopped(s) => t.disk = s.disk
  <2>1. Stopped(s) => Stopped(t)
    <3> HIDE DEF fails, kept
    <3> QED BY <1>4, <1>5, Faulty DEF Stopped, SameMemory, SameCaller
  <2> HIDE DEF fails, kept
  <2> QED BY <1>2, <1>4, <1>8, <2>1
<1> QED BY <1>4, <1>5, <1>6, <1>9, <1>10, <1>11, <1>12 DEF t

-----------------------------------------------------------------------------
(* Writing the metadata.                                                   *)

\* The info block in memory.
InfoOf(s) == [magic |-> TRUE, inode_bitmap |-> s.inode_bitmap, data_bitmap |-> s.data_bitmap]

\* From s to t only metadata was written: the info block and the inodes on the
\* disk are old or those in memory.
MetaWritten(s, t) ==
  /\ SameMemory(s, t) /\ s.done <= t.done
  /\ t.disk.boot = s.disk.boot /\ t.disk.blocks = s.disk.blocks
  /\ t.disk.info \in {s.disk.info, InfoOf(s)}
  /\ \A i \in Inodes : t.disk.inode_table[i] \in {s.disk.inode_table[i], s.inode_table[i]}
  /\ Stopped(s) => t.disk = s.disk

\* The states and sizes, in the form in which they are used.
LEMMA FsSizes ==
  /\ BYTES_PER_SECTOR \in Nat \ {0} /\ ENTRIES_PER_SECTOR \in Nat \ {0} /\ INODES_PER_SECTOR \in Nat \ {0}
  /\ SIMPLEFS_MAX_INODES \in Nat \ {0} /\ SIMPLEFS_DATA_BLOCKS \in Nat
  /\ SIMPLEFS_DIRECT_BLOCKS \in Nat /\ SIMPLEFS_INDIRECT_ENTRIES \in Nat
  /\ INVALID \notin Inodes /\ INVALID \notin Blocks /\ SIMPLEFS_ROOT_INODE \in Inodes
  /\ Inodes \subseteq Nat /\ Blocks \subseteq Nat
BY SimpleFsAssumption DEF Inodes, Blocks, SIMPLEFS_ROOT_INODE

\* The record of a state.
LEMMA Fields ==
  ASSUME NEW V, NEW s \in FsStates(V)
  PROVE  /\ s.inode_bitmap \subseteq Inodes /\ s.data_bitmap \subseteq Blocks /\ s.inode_table \in InodeTables
         /\ s.disk \in Disks(V) /\ s.done \in Nat /\ s.ok \in BOOLEAN /\ s.fault \in Faults
         /\ s.block \in Pointer /\ s.table \in IndirectTables /\ s.touched \subseteq Inodes
         /\ s.disk.info \in Infos /\ s.disk.inode_table \in InodeTables
         /\ s.disk.blocks \in [Blocks -> BlockSet(V)] /\ s.disk.boot \in BOOLEAN
         /\ s.inode \in Inodes \cup {INVALID} /\ s.open_files \in OpenTables
         /\ s.current_directory \in Inodes /\ s.fs_mounted \in BOOLEAN
BY DEF FsStates, Disks

\* What writing metadata does, one after the other.
LEMMA MetaTransitive ==
  ASSUME NEW V, NEW r \in FsStates(V), NEW s \in FsStates(V), NEW t \in FsStates(V),
         MetaWritten(r, s), MetaWritten(s, t)
  PROVE  MetaWritten(r, t)
<1>1. SameMemory(r, t)
  BY DEF MetaWritten, SameMemory, SameTables, SameCaller, SameScratch
<1>2. InfoOf(s) = InfoOf(r) /\ s.inode_table = r.inode_table
  BY DEF MetaWritten, SameMemory, SameTables, InfoOf
<1>3. r.done <= t.done /\ (Stopped(r) => Stopped(s))
  BY Faulty DEF MetaWritten, SameMemory, SameCaller, Stopped
<1> QED BY <1>1, <1>2, <1>3 DEF MetaWritten

\* The info block.
LEMMA WritesInfo ==
  ASSUME NEW V, NEW s \in FsStates(V)
  PROVE  LET t == write_info_block(s) IN
         /\ t \in FsStates(V) /\ MetaWritten(s, t) /\ t.done = s.done + 1
         /\ t.disk.inode_table = s.disk.inode_table
         /\ t.ok => t.disk.info = InfoOf(s)
         /\ s.fault.kind = "none" => t.ok
<1> DEFINE image == [s.disk EXCEPT !.info = InfoOf(s)]
           t == write_info_block(s)
<1>1. InfoOf(s) \in Infos
  BY Fields DEF InfoOf, Infos
<1>2. image \in Disks(V) /\ image.info = InfoOf(s) /\ image.boot = s.disk.boot
      /\ image.blocks = s.disk.blocks /\ image.inode_table = s.disk.inode_table
  <2> HIDE DEF InfoOf
  <2> QED BY <1>1, Fields DEF Disks
<1>3. t = ata_write_sector(s, image)
  BY DEF write_info_block, InfoOf
<1> HIDE DEF image, t
<1>4. /\ t \in FsStates(V) /\ SameMemory(s, t) /\ t.done = s.done + 1
      /\ t.disk = s.disk \/ t.disk = image
      /\ t.ok => t.disk = image
      /\ s.fault.kind = "none" => t.ok
      /\ Stopped(s) => t.disk = s.disk
  BY <1>2, <1>3, WritesSector
<1>5. s.done <= t.done
  BY <1>4, Fields
<1>6. MetaWritten(s, t)
  BY <1>2, <1>4, <1>5 DEF MetaWritten
<1> QED BY <1>2, <1>4, <1>6 DEF t

\* Every inode is in one of the sectors.
LEMMA SectorsCover ==
  /\ SIMPLEFS_INODE_TABLE_SECTORS \in Nat
  /\ \A i \in Inodes : i \div INODES_PER_SECTOR \in 0 .. SIMPLEFS_INODE_TABLE_SECTORS - 1
<1> DEFINE P == INODES_PER_SECTOR
           a == SIMPLEFS_MAX_INODES + P - 1
           N == SIMPLEFS_INODE_TABLE_SECTORS
<1>1. P \in Nat \ {0} /\ a \in Nat /\ Inodes = 0 .. SIMPLEFS_MAX_INODES - 1 /\ SIMPLEFS_MAX_INODES \in Nat
  BY FsSizes DEF Inodes
<1>2. N = a \div P
  BY DEF SIMPLEFS_INODE_TABLE_SECTORS
<1>3. a = SIMPLEFS_MAX_INODES + P - 1
  OBVIOUS
<1> HIDE DEF a, N, P
<1>4. N \in Nat
  BY <1>1, <1>2, Division
<1>5. ASSUME NEW i \in Inodes PROVE i \div P \in 0 .. N - 1
  <2>1. i \in Nat /\ i < SIMPLEFS_MAX_INODES
    BY <1>1
  <2> DEFINE q == i \div P
             r == i % P
  <2>2. q \in Nat /\ r \in 0 .. P - 1 /\ i = P * q + r
    BY <1>1, <2>1, Division
  <2> HIDE DEF q, r
  <2>3. q < N <=> (q + 1) * P <= a
    BY <1>1, <1>2, <2>2, QuotientBound
  <2>4. (q + 1) * P = P * q + P /\ P * q \in Nat
    BY <1>1, <2>2
  <2>5. (q + 1) * P <= a
    BY <1>1, <1>3, <2>1, <2>2, <2>4
  <2> QED BY <1>4, <2>2, <2>3, <2>5 DEF q
<1> QED BY <1>4, <1>5 DEF N, P

\* One sector of the inode table, as it is in memory.
SectorImage(t, n) ==
  [t.disk EXCEPT !.inode_table =
     [i \in Inodes |-> IF i \div INODES_PER_SECTOR = n THEN t.inode_table[i] ELSE @[i]]]

\* Writing one sector of the table.
LEMMA WritesTableSector ==
  ASSUME NEW V, NEW s \in FsStates(V), NEW n
  PROVE  LET t == ata_write_sector(s, SectorImage(s, n)) IN
         /\ t \in FsStates(V) /\ MetaWritten(s, t) /\ t.done = s.done + 1
         /\ t.disk.info = s.disk.info
         /\ t.ok => \A i \in Inodes : t.disk.inode_table[i] =
              IF i \div INODES_PER_SECTOR = n THEN s.inode_table[i] ELSE s.disk.inode_table[i]
         /\ s.fault.kind = "none" => t.ok
<1> DEFINE tab == [i \in Inodes |-> IF i \div INODES_PER_SECTOR = n THEN s.inode_table[i] ELSE s.disk.inode_table[i]]
           image == SectorImage(s, n)
           t == ata_write_sector(s, image)
<1>1. tab \in InodeTables
  BY Fields DEF InodeTables
<1>2. \A i \in Inodes : tab[i] = IF i \div INODES_PER_SECTOR = n THEN s.inode_table[i] ELSE s.disk.inode_table[i]
  OBVIOUS
<1>3. image = [s.disk EXCEPT !.inode_table = tab]
  BY DEF SectorImage
<1> HIDE DEF tab, image
<1>4. image \in Disks(V) /\ image.info = s.disk.info /\ image.boot = s.disk.boot
      /\ image.blocks = s.disk.blocks /\ image.inode_table = tab
  BY <1>1, <1>3, Fields DEF Disks
<1> HIDE DEF t
<1>5. /\ t \in FsStates(V) /\ SameMemory(s, t) /\ t.done = s.done + 1
      /\ t.disk = s.disk \/ t.disk = image
      /\ t.ok => t.disk = image
      /\ s.fault.kind = "none" => t.ok
      /\ Stopped(s) => t.disk = s.disk
  BY <1>4, WritesSector DEF t
<1>6. s.done <= t.done
  BY <1>5, Fields
<1>7. MetaWritten(s, t)
  BY <1>2, <1>4, <1>5, <1>6 DEF MetaWritten
<1> QED BY <1>2, <1>4, <1>5, <1>7 DEF t, image

\* After n sectors of the table.
SectorsWritten(V, s, t, n) ==
  /\ t \in FsStates(V) /\ MetaWritten(s, t) /\ t.disk.info = s.disk.info
  /\ t.ok => \A i \in Inodes : i \div INODES_PER_SECTOR < n => t.disk.inode_table[i] = s.inode_table[i]
  /\ s.fault.kind = "none" => t.ok

\* write_inode_table.
LEMMA WritesTable ==
  ASSUME NEW V, NEW s \in FsStates(V)
  PROVE  LET t == write_inode_table(s) IN
         /\ t \in FsStates(V) /\ MetaWritten(s, t) /\ t.disk.info = s.disk.info
         /\ t.ok => t.disk.inode_table = s.inode_table
         /\ s.fault.kind = "none" => t.ok
<1> DEFINE N == SIMPLEFS_INODE_TABLE_SECTORS
           f0 == [s EXCEPT !.ok = TRUE]
           Pass(n, t) == IF t.ok THEN ata_write_sector(t, SectorImage(t, n - 1)) ELSE t
           D == [p \in (1 .. N) \X FsStates(V) |-> Pass(p[1], p[2])]
           Body(g) == [n \in 0 .. N |-> IF n = 0 THEN f0 ELSE Pass(n, g[n - 1])]
           up == CHOOSE g : g = Body(g)
<1>1. N \in Nat
  BY SectorsCover
<1>2. write_inode_table(s) = up[N]
  BY DEF write_inode_table, Then, SectorImage
<1>3. f0 \in FsStates(V) /\ SameMemory(s, f0) /\ f0.disk = s.disk /\ f0.done = s.done /\ f0.ok = TRUE
  BY DEF FsStates, SameMemory, SameTables, SameCaller, SameScratch
<1>4. ASSUME NEW t \in FsStates(V), NEW n PROVE Pass(n, t) \in FsStates(V)
  BY WritesTableSector
<1>5. IsLoopBody(D, N, FsStates(V)) /\ \A n \in 1 .. N, t \in FsStates(V) : D[<<n, t>>] = Pass(n, t)
  <2> HIDE DEF Pass, N
  <2> QED BY <1>4 DEF IsLoopBody
<1> HIDE DEF D, N, f0, Pass
<1>6. PICK g : IsLoopRun(g, f0, D, N, FsStates(V))
  BY <1>1, <1>3, <1>5, RecursionExists
<1>7. /\ g \in [0 .. N -> FsStates(V)] /\ g[0] = f0
      /\ \A n \in 1 .. N : g[n] = D[<<n, g[n - 1]>>]
  BY <1>6 DEF IsLoopRun
<1>8. g = Body(g)
  <2>1. ASSUME NEW n \in 0 .. N PROVE g[n] = IF n = 0 THEN f0 ELSE Pass(n, g[n - 1])
    <3>1. CASE n = 0
      BY <1>7, <3>1
    <3>2. CASE n # 0
      <4>1. n \in 1 .. N /\ n - 1 \in 0 .. N
        BY <1>1, <3>2
      <4>2. g[n - 1] \in FsStates(V)
        BY <1>7, <4>1
      <4> QED BY <1>5, <1>7, <3>2, <4>1, <4>2
    <3> QED BY <3>1, <3>2
  <2> QED BY <1>7, <2>1
<1>9. up = Body(up)
  <2> HIDE DEF Body
  <2> QED BY <1>8
<1> HIDE DEF up
<1>10. up[0] = f0
  BY <1>1, <1>9
<1>11. ASSUME NEW n \in 1 .. N PROVE up[n] = Pass(n, up[n - 1])
  <2>1. n \in 0 .. N /\ n # 0
    BY <1>1
  <2> QED BY <1>9, <2>1
<1> DEFINE T == {n \in 0 .. N : SectorsWritten(V, s, up[n], n)}
<1>12. 0 \in T
  <2>1. MetaWritten(s, f0)
    BY <1>3, Fields DEF MetaWritten
  <2>2. \A i \in Inodes : ~(i \div INODES_PER_SECTOR < 0)
    BY SectorsCover
  <2>3. SectorsWritten(V, s, f0, 0)
    BY <1>3, <2>1, <2>2 DEF SectorsWritten
  <2> QED BY <1>1, <1>10, <2>3
<1>13. ASSUME NEW n \in 0 .. N - 1, n \in T PROVE n + 1 \in T
  <2> DEFINE t == up[n]
             u == up[n + 1]
  <2>1. n + 1 \in 1 .. N /\ (n + 1) - 1 = n /\ n + 1 \in 0 .. N
    BY <1>1
  <2>2. u = Pass(n + 1, t)
    BY <1>11, <2>1
  <2>3. u = IF t.ok THEN ata_write_sector(t, SectorImage(t, n)) ELSE t
    BY <2>1, <2>2 DEF Pass
  <2>4. SectorsWritten(V, s, t, n)
    BY <1>13
  <2> HIDE DEF t, u
  <2> SUFFICES SectorsWritten(V, s, u, n + 1)
    BY <2>1 DEF u
  <2>5. CASE ~t.ok
    BY <2>3, <2>4, <2>5 DEF SectorsWritten
  <2>6. CASE t.ok
    <3>1. t \in FsStates(V) /\ MetaWritten(s, t) /\ t.disk.info = s.disk.info /\ t.inode_table = s.inode_table
          /\ t.fault = s.fault
      BY <2>4 DEF SectorsWritten, MetaWritten, SameMemory, SameTables, SameCaller
    <3>2. /\ u \in FsStates(V) /\ MetaWritten(t, u) /\ u.disk.info = t.disk.info
          /\ u.ok => \A i \in Inodes : u.disk.inode_table[i] =
               IF i \div INODES_PER_SECTOR = n THEN t.inode_table[i] ELSE t.disk.inode_table[i]
          /\ t.fault.kind = "none" => u.ok
      BY <2>3, <2>6, <3>1, WritesTableSector
    <3>3. MetaWritten(s, u)
      BY <3>1, <3>2, MetaTransitive
    <3>4. \A i \in Inodes : i \div INODES_PER_SECTOR \in Nat
      BY SectorsCover
    <3>5. \A i \in Inodes : i \div INODES_PER_SECTOR < n + 1 =>
            i \div INODES_PER_SECTOR = n \/ i \div INODES_PER_SECTOR < n
      BY <3>4
    <3>6. u.ok => \A i \in Inodes : i \div INODES_PER_SECTOR < n + 1 => u.disk.inode_table[i] = s.inode_table[i]
      BY <2>4, <2>6, <3>1, <3>2, <3>5 DEF SectorsWritten
    <3> QED BY <3>1, <3>2, <3>3, <3>6 DEF SectorsWritten
  <2> QED BY <2>5, <2>6
<1> HIDE DEF T
<1>14. 0 .. N \subseteq T
  BY <1>1, <1>12, <1>13, IntervalInduction
<1> DEFINE t == up[N]
<1>15. SectorsWritten(V, s, t, N)
  BY <1>1, <1>14 DEF T
<1> HIDE DEF t
<1>16. t.ok => t.disk.inode_table = s.inode_table
  <2>1. \A i \in Inodes : i \div INODES_PER_SECTOR < N
    BY <1>1, SectorsCover DEF N
  <2>2. t.ok => \A i \in Inodes : t.disk.inode_table[i] = s.inode_table[i]
    BY <1>15, <2>1 DEF SectorsWritten
  <2>3. t.disk.inode_table \in InodeTables /\ s.inode_table \in InodeTables
    BY <1>15, Fields DEF SectorsWritten
  <2> QED BY <2>2, <2>3 DEF InodeTables
<1> QED BY <1>2, <1>15, <1>16 DEF SectorsWritten, t

\* The metadata on the disk are those in memory.
Synchronous(s) ==
  /\ s.disk.info = InfoOf(s) /\ s.disk.inode_table = s.inode_table

\* write_metadata: when it succeeds the disk is up to date.
LEMMA WritesMetadata ==
  ASSUME NEW V, NEW s \in FsStates(V)
  PROVE  LET t == write_metadata(s) IN
         /\ t \in FsStates(V) /\ MetaWritten(s, t)
         /\ t.ok => Synchronous(t)
         /\ s.fault.kind = "none" => t.ok
<1> DEFINE m == write_info_block(s)
           t == write_metadata(s)
<1>1. t = IF m.ok THEN write_inode_table(m) ELSE m
  BY DEF write_metadata, Then
<1>2. /\ m \in FsStates(V) /\ MetaWritten(s, m)
      /\ m.ok => m.disk.info = InfoOf(s)
      /\ s.fault.kind = "none" => m.ok
  BY WritesInfo
<1> HIDE DEF m, t
<1>3. CASE ~m.ok
  BY <1>1, <1>2, <1>3 DEF t
<1>4. CASE m.ok
  <2>1. /\ t \in FsStates(V) /\ MetaWritten(m, t) /\ t.disk.info = m.disk.info
        /\ t.ok => t.disk.inode_table = m.inode_table
        /\ m.fault.kind = "none" => t.ok
    BY <1>1, <1>2, <1>4, WritesTable
  <2>2. MetaWritten(s, t)
    BY <1>2, <2>1, MetaTransitive
  <2>3. m.fault = s.fault
    BY <1>2 DEF MetaWritten, SameMemory, SameCaller
  <2>4. t.disk.info = InfoOf(t) /\ t.inode_table = m.inode_table
    BY <1>2, <1>4, <2>1, <2>2 DEF MetaWritten, SameMemory, SameTables, InfoOf
  <2> QED BY <2>1, <2>2, <2>3, <2>4 DEF Synchronous, t
<1> QED BY <1>3, <1>4

\* The clean-up of write_inode_data writes both whatever happens to the first.
LEMMA WritesBoth ==
  ASSUME NEW V, NEW s \in FsStates(V)
  PROVE  LET t == write_inode_table(write_info_block(s)) IN
         /\ t \in FsStates(V) /\ MetaWritten(s, t)
         /\ s.fault.kind = "none" => Synchronous(t)
<1> DEFINE m == write_info_block(s)
           t == write_inode_table(m)
<1>1. /\ m \in FsStates(V) /\ MetaWritten(s, m)
      /\ m.ok => m.disk.info = InfoOf(s)
      /\ s.fault.kind = "none" => m.ok
  BY WritesInfo
<1> HIDE DEF m
<1>2. /\ t \in FsStates(V) /\ MetaWritten(m, t) /\ t.disk.info = m.disk.info
      /\ t.ok => t.disk.inode_table = m.inode_table
      /\ m.fault.kind = "none" => t.ok
  BY <1>1, WritesTable
<1> HIDE DEF t
<1>3. MetaWritten(s, t)
  BY <1>1, <1>2, MetaTransitive
<1>4. m.fault = s.fault /\ t.inode_table = m.inode_table /\ InfoOf(t) = InfoOf(s)
  BY <1>1, <1>2, <1>3 DEF MetaWritten, SameMemory, SameCaller, SameTables, InfoOf
<1>5. s.fault.kind = "none" => Synchronous(t)
  BY <1>1, <1>2, <1>4 DEF Synchronous
<1> QED BY <1>2, <1>3, <1>5 DEF m, t

-----------------------------------------------------------------------------
(* Who owns a block.  The pointers of an inode are numbered: 0 is the      *)
(* indirect block, n + 1 the block of the n-th sector of the file, direct  *)
(* or in the table tab of the indirect block.                              *)

Keys == 0 .. SIMPLEFS_DIRECT_BLOCKS + SIMPLEFS_INDIRECT_ENTRIES
PointerOf(r, tab, k) ==
  IF k = 0 THEN r.indirect_block
  ELSE IF k <= SIMPLEFS_DIRECT_BLOCKS THEN r.direct_blocks[k]
  ELSE tab[k - SIMPLEFS_DIRECT_BLOCKS]
TableChoices == [Inodes -> IndirectTables]
Ptr(s, T, i, k) == PointerOf(s.inode_table[i], T[i], k)

\* Every pointer of an inode in use is marked, but for those to blocks of E,
\* and no two are the same.  T are the tables of the indirect blocks.
Owns(s, T, E) ==
  /\ \A i \in s.inode_bitmap, k \in Keys :
       Ptr(s, T, i, k) = INVALID \/ Ptr(s, T, i, k) \in s.data_bitmap \cup E
  /\ \A i, j \in s.inode_bitmap, k, l \in Keys :
       Ptr(s, T, i, k) = Ptr(s, T, j, l) /\ Ptr(s, T, i, k) # INVALID => i = j /\ k = l

\* The tables of the inodes of J are on the disk.
TableBlock(tab) == [kind |-> "table", v |-> tab]
Backed(s, T, J) ==
  \A i \in J : LET b == s.inode_table[i].indirect_block IN
    IF b = INVALID THEN T[i] = NoTable ELSE s.disk.blocks[b] = TableBlock(T[i])

\* Block 0 is what the clean-up after a lost indirect block may free.
Exc(s) == IF s.fault.kind = "lost" \/ Stopped(s) THEN {0} ELSE {}
LostExc(s) == IF s.fault.kind = "lost" THEN {0} ELSE {}

\* On the disk an inode the call has not touched is what it is in memory, and
\* its blocks are marked.
DiskOwns(s, T) ==
  \A i \in Inodes \ s.touched :
    /\ i \in s.disk.info.inode_bitmap <=> i \in s.inode_bitmap
    /\ s.disk.inode_table[i] = s.inode_table[i]
    /\ i \in s.inode_bitmap => \A k \in Keys :
         Ptr(s, T, i, k) = INVALID \/ Ptr(s, T, i, k) \in s.disk.info.data_bitmap \cup LostExc(s)

\* From s to t nothing happened to inodes other than i, to their blocks, and
\* to the metadata on the disk.
Elsewhere(s, t, T, i) ==
  /\ SameCaller(s, t) /\ t.inode_bitmap = s.inode_bitmap /\ t.touched = s.touched /\ t.inode = s.inode
  /\ s.done <= t.done
  /\ t.disk.boot = s.disk.boot /\ t.disk.info = s.disk.info /\ t.disk.inode_table = s.disk.inode_table
  /\ t.inode_table[i].type = s.inode_table[i].type /\ t.inode_table[i].size = s.inode_table[i].size
  /\ \A j \in Inodes \ {i} : t.inode_table[j] = s.inode_table[j]
  /\ \A j \in s.inode_bitmap \ {i}, k \in Keys :
       Ptr(s, T, j, k) # INVALID => t.disk.blocks[Ptr(s, T, j, k)] = s.disk.blocks[Ptr(s, T, j, k)]

\* The fields of an inode.
LEMMA InodeFields ==
  ASSUME NEW r \in InodeSet
  PROVE  /\ r \in [type : {"free", "regular", "directory"}, size : Nat,
                   direct_blocks : DirectTables, indirect_block : Pointer]
         /\ r.type \in {"free", "regular", "directory"} /\ r.size \in Nat
         /\ r.direct_blocks \in DirectTables /\ r.indirect_block \in Pointer
         /\ r.size <= LargestOf(r)
<1>1. r \in [type : {"free", "regular", "directory"}, size : Nat,
             direct_blocks : DirectTables, indirect_block : Pointer] /\ r.size <= LargestOf(r)
  BY DEF InodeSet
<1> QED BY <1>1

\* A pointer is a block or INVALID.
LEMMA PointerTypes ==
  ASSUME NEW r \in InodeSet, NEW tab \in IndirectTables, NEW k \in Keys
  PROVE  PointerOf(r, tab, k) \in Pointer
<1>1. r.direct_blocks \in DirectTables /\ r.indirect_block \in Pointer
  BY InodeFields
<1>2. k > SIMPLEFS_DIRECT_BLOCKS => k - SIMPLEFS_DIRECT_BLOCKS \in 1 .. SIMPLEFS_INDIRECT_ENTRIES
  BY FsSizes DEF Keys
<1>3. k # 0 /\ k <= SIMPLEFS_DIRECT_BLOCKS => k \in 1 .. SIMPLEFS_DIRECT_BLOCKS
  BY FsSizes DEF Keys
<1>4. k \in Int /\ SIMPLEFS_DIRECT_BLOCKS \in Int
  BY FsSizes DEF Keys
<1> QED BY <1>1, <1>2, <1>3, <1>4 DEF PointerOf, DirectTables, IndirectTables

\* An empty inode has no pointers.
LEMMA NoPointers ==
  /\ NoTable \in IndirectTables /\ clear_block_pointers \in DirectTables
  /\ SIMPLEFS_MAX_DIRECTORY_ENTRIES \in Nat /\ SIMPLEFS_MAX_FILE_SIZE \in Nat
  /\ \A type \in {"free", "regular", "directory"} : NewInode(type) \in InodeSet
  /\ \A type : \A k \in Keys : PointerOf(NewInode(type), NoTable, k) = INVALID
<1>1. NoTable \in IndirectTables /\ clear_block_pointers \in DirectTables /\ INVALID \in Pointer
  BY DEF NoTable, IndirectTables, clear_block_pointers, DirectTables, Pointer
<1>2. SIMPLEFS_MAX_DIRECTORY_ENTRIES \in Nat /\ SIMPLEFS_MAX_FILE_SIZE \in Nat
  <2>1. SIMPLEFS_DIRECT_BLOCKS + SIMPLEFS_INDIRECT_ENTRIES \in Nat
    BY FsSizes
  <2> QED BY <2>1, FsSizes DEF SIMPLEFS_MAX_DIRECTORY_ENTRIES, SIMPLEFS_MAX_FILE_SIZE
<1>3. ASSUME NEW type \in {"free", "regular", "directory"} PROVE NewInode(type) \in InodeSet
  <2> DEFINE r == NewInode(type)
  <2>1. r = [type |-> type, size |-> 0, direct_blocks |-> clear_block_pointers, indirect_block |-> INVALID]
    BY DEF NewInode
  <2> HIDE DEF r
  <2>2. r \in [type : {"free", "regular", "directory"}, size : Nat,
               direct_blocks : DirectTables, indirect_block : Pointer]
    BY <1>1, <2>1
  <2>3. r.size <= LargestOf(r)
    BY <1>2, <2>1 DEF LargestOf
  <2> QED BY <2>2, <2>3 DEF InodeSet, r
<1>4. ASSUME NEW type, NEW k \in Keys PROVE PointerOf(NewInode(type), NoTable, k) = INVALID
  <2>1. NewInode(type).direct_blocks = clear_block_pointers /\ NewInode(type).indirect_block = INVALID
    BY DEF NewInode
  <2>2. k > SIMPLEFS_DIRECT_BLOCKS => k - SIMPLEFS_DIRECT_BLOCKS \in 1 .. SIMPLEFS_INDIRECT_ENTRIES
    BY FsSizes DEF Keys
  <2>3. k # 0 /\ k <= SIMPLEFS_DIRECT_BLOCKS => k \in 1 .. SIMPLEFS_DIRECT_BLOCKS
    BY FsSizes DEF Keys
  <2>4. k \in Int /\ SIMPLEFS_DIRECT_BLOCKS \in Int
    BY FsSizes DEF Keys
  <2> QED BY <2>1, <2>2, <2>3, <2>4 DEF PointerOf, clear_block_pointers, NoTable
<1> QED BY <1>1, <1>2, <1>3, <1>4

\* Steps on one inode, one after the other.
LEMMA ElsewhereTransitive ==
  ASSUME NEW V, NEW r \in FsStates(V), NEW s \in FsStates(V), NEW t \in FsStates(V), NEW T, NEW i \in Inodes,
         Elsewhere(r, s, T, i), Elsewhere(s, t, T, i)
  PROVE  Elsewhere(r, t, T, i)
<1>1. SameCaller(r, t)
  BY DEF Elsewhere, SameCaller
<1>2. r.done <= t.done
  BY Fields DEF Elsewhere
<1>3. \A j \in Inodes \ {i} : s.inode_table[j] = r.inode_table[j] /\ t.inode_table[j] = r.inode_table[j]
  BY DEF Elsewhere
<1>4. r.inode_bitmap \subseteq Inodes /\ s.inode_bitmap = r.inode_bitmap
  BY Fields DEF Elsewhere
<1>5. ASSUME NEW j \in r.inode_bitmap \ {i}, NEW k \in Keys, Ptr(r, T, j, k) # INVALID
      PROVE  t.disk.blocks[Ptr(r, T, j, k)] = r.disk.blocks[Ptr(r, T, j, k)]
  <2>1. Ptr(s, T, j, k) = Ptr(r, T, j, k)
    BY <1>3, <1>4 DEF Ptr
  <2> QED BY <1>4, <1>5, <2>1 DEF Elsewhere
<1> QED BY <1>1, <1>2, <1>3, <1>4, <1>5 DEF Elsewhere

\* They keep what is on the disk of the other inodes.
LEMMA ElsewhereKeeps ==
  ASSUME NEW V, NEW s \in FsStates(V), NEW t \in FsStates(V), NEW T \in TableChoices, NEW tab \in IndirectTables,
         NEW i \in Inodes, Elsewhere(s, t, T, i)
  PROVE  /\ Backed(s, T, s.inode_bitmap \ {i}) => Backed(t, [T EXCEPT ![i] = tab], t.inode_bitmap \ {i})
         /\ i \in s.touched /\ DiskOwns(s, T) => DiskOwns(t, [T EXCEPT ![i] = tab])
<1> DEFINE U == [T EXCEPT ![i] = tab]
<1>1. \A j \in Inodes \ {i} : t.inode_table[j] = s.inode_table[j] /\ U[j] = T[j]
  BY DEF Elsewhere, TableChoices
<1> HIDE DEF U
<1>2. \A j \in Inodes \ {i} : \A k : Ptr(t, U, j, k) = Ptr(s, T, j, k)
  BY <1>1 DEF Ptr
<1>3. s.inode_bitmap \subseteq Inodes /\ t.inode_bitmap = s.inode_bitmap /\ t.touched = s.touched
      /\ t.disk.info = s.disk.info /\ t.disk.inode_table = s.disk.inode_table /\ t.fault = s.fault
  BY Fields DEF Elsewhere, SameCaller
<1>4. ASSUME Backed(s, T, s.inode_bitmap \ {i}) PROVE Backed(t, U, t.inode_bitmap \ {i})
  <2>1. ASSUME NEW j \in t.inode_bitmap \ {i}
        PROVE  LET b == t.inode_table[j].indirect_block IN
               IF b = INVALID THEN U[j] = NoTable ELSE t.disk.blocks[b] = TableBlock(U[j])
    <3> DEFINE b == s.inode_table[j].indirect_block
    <3>1. j \in Inodes \ {i} /\ j \in s.inode_bitmap \ {i} /\ t.inode_table[j].indirect_block = b /\ U[j] = T[j]
      BY <1>1, <1>3
    <3>2. IF b = INVALID THEN T[j] = NoTable ELSE s.disk.blocks[b] = TableBlock(T[j])
      BY <1>4, <3>1 DEF Backed
    <3>3. 0 \in Keys /\ Ptr(s, T, j, 0) = b
      BY FsSizes DEF Keys, Ptr, PointerOf
    <3>4. b # INVALID => t.disk.blocks[b] = s.disk.blocks[b]
      BY <3>1, <3>3 DEF Elsewhere
    <3> QED BY <3>1, <3>2, <3>4
  <2> QED BY <2>1 DEF Backed
<1>5. ASSUME i \in s.touched, DiskOwns(s, T) PROVE DiskOwns(t, U)
  <2>1. LostExc(t) = LostExc(s)
    BY <1>3 DEF LostExc
  <2> QED BY <1>1, <1>2, <1>3, <1>5, <2>1 DEF DiskOwns
<1> QED BY <1>4, <1>5 DEF U

-----------------------------------------------------------------------------
(* Blocks are allocated, written and attached.                             *)

\* First fit finds something that is free.
LEMMA FirstFit ==
  ASSUME NEW S \in SUBSET Nat, S # {}
  PROVE  Min(S) \in S /\ \A x \in S : Min(S) <= x
<1>1. \E x \in S : \A y \in S : x <= y
  BY LeastNatural
<1> QED BY <1>1 DEF Min

\* A state in which one variable was assigned.
LEMMA SetsData ==
  ASSUME NEW V, NEW s \in FsStates(V), NEW db \in SUBSET Blocks
  PROVE  LET t == [s EXCEPT !.data_bitmap = db] IN
         /\ t \in FsStates(V) /\ SameCaller(s, t) /\ SameScratch(s, t) /\ t.inode_bitmap = s.inode_bitmap
         /\ t.inode_table = s.inode_table /\ t.data_bitmap = db
         /\ t.disk = s.disk /\ t.done = s.done /\ t.ok = s.ok
BY DEF FsStates, SameCaller, SameScratch

\* The inode table.
LEMMA SetsInodes ==
  ASSUME NEW V, NEW s \in FsStates(V), NEW tab \in InodeTables
  PROVE  LET t == [s EXCEPT !.inode_table = tab] IN
         /\ t \in FsStates(V) /\ SameCaller(s, t) /\ SameScratch(s, t) /\ t.inode_bitmap = s.inode_bitmap
         /\ t.inode_table = tab /\ t.data_bitmap = s.data_bitmap
         /\ t.disk = s.disk /\ t.done = s.done /\ t.ok = s.ok
BY DEF FsStates, SameCaller, SameScratch

\* The result of the call.
LEMMA SetsOk ==
  ASSUME NEW V, NEW s \in FsStates(V), NEW k \in BOOLEAN
  PROVE  LET t == [s EXCEPT !.ok = k] IN
         t \in FsStates(V) /\ SameMemory(s, t) /\ t.disk = s.disk /\ t.done = s.done /\ t.ok = k
BY DEF FsStates, SameMemory, SameTables, SameCaller, SameScratch

\* allocate_data_block takes a block that is not marked.
LEMMA Allocates ==
  ASSUME NEW V, NEW s \in FsStates(V)
  PROVE  LET t == allocate_data_block(s) IN
         /\ t \in FsStates(V) /\ SameCaller(s, t) /\ s.done <= t.done
         /\ t.inode_bitmap = s.inode_bitmap /\ t.inode_table = s.inode_table
         /\ t.inode = s.inode /\ t.table = s.table /\ t.touched = s.touched
         /\ t.disk.boot = s.disk.boot /\ t.disk.info = s.disk.info /\ t.disk.inode_table = s.disk.inode_table
         /\ \A b \in s.data_bitmap : t.disk.blocks[b] = s.disk.blocks[b]
         /\ t.ok => /\ t.block \in Blocks \ s.data_bitmap /\ t.data_bitmap = s.data_bitmap \cup {t.block}
                    /\ t.disk.blocks[t.block] = ZeroBlock
         /\ ~t.ok => t.data_bitmap = s.data_bitmap
<1> DEFINE b == Min(Blocks \ s.data_bitmap)
           db == s.data_bitmap \cup {b}
           a == [s EXCEPT !.data_bitmap = db, !.block = b]
           image == [s.disk EXCEPT !.blocks[b] = ZeroBlock]
           w == ata_write_sector(a, image)
           t == allocate_data_block(s)
<1>1. t = IF Blocks \subseteq s.data_bitmap THEN [s EXCEPT !.ok = FALSE]
          ELSE IF w.ok THEN w ELSE [w EXCEPT !.data_bitmap = w.data_bitmap \ {b}]
  BY DEF allocate_data_block, OnFailure, Fail
<1>2. CASE Blocks \subseteq s.data_bitmap
  <2>1. t = [s EXCEPT !.ok = FALSE]
    BY <1>1, <1>2
  <2> HIDE DEF t
  <2>2. t \in FsStates(V) /\ SameMemory(s, t) /\ t.disk = s.disk /\ t.done = s.done /\ t.ok = FALSE
    BY <2>1, SetsOk
  <2>3. s.done <= t.done
    BY <2>2, Fields
  <2> QED BY <2>2, <2>3 DEF t, SameMemory, SameTables, SameScratch
<1>3. CASE ~(Blocks \subseteq s.data_bitmap)
  <2>1. b \in Blocks \ s.data_bitmap
    BY <1>3, FirstFit, FsSizes
  <2> HIDE DEF b
  <2>2. db \in SUBSET Blocks /\ b \in Pointer
    BY <2>1, Fields DEF Pointer
  <2>3. s.disk \in Disks(V) /\ s.disk.blocks \in [Blocks -> BlockSet(V)] /\ ZeroBlock \in BlockSet(V)
    BY Fields DEF BlockSet
  <2>4. /\ image \in Disks(V) /\ image.boot = s.disk.boot /\ image.info = s.disk.info
        /\ image.inode_table = s.disk.inode_table /\ image.blocks = [s.disk.blocks EXCEPT ![b] = ZeroBlock]
    <3> HIDE DEF ZeroBlock
    <3> QED BY <2>3 DEF Disks
  <2> HIDE DEF image, db
  <2>5. /\ a \in FsStates(V) /\ SameCaller(s, a) /\ a.inode_bitmap = s.inode_bitmap
        /\ a.inode_table = s.inode_table /\ a.data_bitmap = db /\ a.block = b
        /\ a.inode = s.inode /\ a.table = s.table /\ a.touched = s.touched
        /\ a.disk = s.disk /\ a.done = s.done
    <3>1. a = [s EXCEPT !.data_bitmap = db, !.block = b]
      OBVIOUS
    <3> HIDE DEF a
    <3> QED BY <2>2, <3>1 DEF FsStates, SameCaller
  <2> HIDE DEF a
  <2>6. /\ w \in FsStates(V) /\ SameMemory(a, w) /\ w.done = a.done + 1
        /\ w.disk = a.disk \/ w.disk = image
        /\ w.ok => w.disk = image
    BY <2>4, <2>5, WritesSector
  <2> HIDE DEF w
  <2>7. /\ SameCaller(s, w) /\ s.done <= w.done
        /\ w.inode_bitmap = s.inode_bitmap /\ w.inode_table = s.inode_table
        /\ w.inode = s.inode /\ w.table = s.table /\ w.touched = s.touched
        /\ w.data_bitmap = db /\ w.block = b
    BY <2>5, <2>6, Fields DEF SameMemory, SameTables, SameCaller, SameScratch
  <2>8. w.disk.boot = s.disk.boot /\ w.disk.info = s.disk.info /\ w.disk.inode_table = s.disk.inode_table
    BY <2>4, <2>5, <2>6
  <2>9. \A c \in s.data_bitmap : w.disk.blocks[c] = s.disk.blocks[c]
    <3>1. \A c \in s.data_bitmap : c # b /\ c \in Blocks
      BY <2>1, Fields
    <3> HIDE DEF ZeroBlock
    <3> QED BY <2>3, <2>4, <2>5, <2>6, <3>1
  <2>10. CASE w.ok
    <3>1. t = w
      BY <1>1, <1>3, <2>10
    <3>2. w.disk.blocks[b] = ZeroBlock
      <4> HIDE DEF ZeroBlock
      <4> QED BY <2>1, <2>3, <2>4, <2>6, <2>10
    <3> HIDE DEF t
    <3> QED BY <2>1, <2>6, <2>7, <2>8, <2>9, <2>10, <3>1, <3>2 DEF t, db
  <2>11. CASE ~w.ok
    <3> DEFINE eb == w.data_bitmap \ {b}
    <3>1. t = [w EXCEPT !.data_bitmap = eb]
      BY <1>1, <1>3, <2>11
    <3>2. eb = s.data_bitmap /\ eb \in SUBSET Blocks
      BY <2>1, <2>7, Fields DEF db
    <3> HIDE DEF t, eb
    <3>3. /\ t \in FsStates(V) /\ SameCaller(w, t) /\ SameScratch(w, t) /\ t.inode_bitmap = w.inode_bitmap
          /\ t.inode_table = w.inode_table /\ t.data_bitmap = eb
          /\ t.disk = w.disk /\ t.done = w.done /\ t.ok = w.ok
      BY <2>6, <3>1, <3>2, SetsData
    <3>4. SameCaller(s, t) /\ t.inode = s.inode /\ t.table = s.table /\ t.touched = s.touched
      BY <2>7, <3>3 DEF SameCaller, SameScratch
    <3> QED BY <2>7, <2>8, <2>9, <2>11, <3>2, <3>3, <3>4 DEF t
  <2> QED BY <2>10, <2>11
<1> QED BY <1>2, <1>3

\* Ownership is a matter of the tables in memory.
LEMMA OwnsSame ==
  ASSUME NEW s, NEW t, NEW T, NEW E, Owns(s, T, E),
         t.inode_bitmap = s.inode_bitmap, t.inode_table = s.inode_table, s.data_bitmap \subseteq t.data_bitmap
  PROVE  Owns(t, T, E)
<1>1. \A i, k : Ptr(t, T, i, k) = Ptr(s, T, i, k)
  BY DEF Ptr
<1> QED BY <1>1 DEF Owns

\* b is marked and no pointer of inode i, with its table in s.table, or of
\* another inode.
With(s, T, i) == [T EXCEPT ![i] = s.table]
Fresh(s, T, i, b) ==
  /\ b \in Blocks /\ b \in s.data_bitmap
  /\ \A j \in s.inode_bitmap, k \in Keys : Ptr(s, With(s, T, i), j, k) # b

\* A block that is no pointer of another inode is written.
LEMMA WritesBlock ==
  ASSUME NEW V, NEW s \in FsStates(V), NEW T \in TableChoices, NEW i \in Inodes, NEW b \in Blocks,
         \A j \in s.inode_bitmap \ {i}, k \in Keys : Ptr(s, T, j, k) # b,
         NEW val \in BlockSet(V)
  PROVE  LET t == ata_write_sector(s, [s.disk EXCEPT !.blocks[b] = val]) IN
         /\ t \in FsStates(V) /\ SameMemory(s, t) /\ Elsewhere(s, t, T, i)
         /\ \A c \in Blocks \ {b} : t.disk.blocks[c] = s.disk.blocks[c]
         /\ t.disk.blocks[b] \in {s.disk.blocks[b], val}
         /\ t.ok => t.disk.blocks[b] = val
         /\ t.ok \/ t.disk.blocks[b] = val \/ t.fault.kind = "lost" \/ Stopped(t)
<1> DEFINE image == [s.disk EXCEPT !.blocks[b] = val]
           t == ata_write_sector(s, image)
<1>1. s.disk \in Disks(V) /\ s.disk.blocks \in [Blocks -> BlockSet(V)]
  BY Fields
<1>2. /\ image \in Disks(V) /\ image.boot = s.disk.boot /\ image.info = s.disk.info
      /\ image.inode_table = s.disk.inode_table /\ image.blocks = [s.disk.blocks EXCEPT ![b] = val]
  BY <1>1 DEF Disks
<1> HIDE DEF image
<1>3. /\ t \in FsStates(V) /\ SameMemory(s, t) /\ t.done = s.done + 1
      /\ t.disk = s.disk \/ t.disk = image
      /\ t.ok => t.disk = image
      /\ t.ok \/ t.disk = image \/ s.fault.kind = "lost" \/ Stopped(t)
  BY <1>2, WritesSector
<1> HIDE DEF t
<1>4. image.blocks[b] = val /\ \A c \in Blocks \ {b} : image.blocks[c] = s.disk.blocks[c]
  BY <1>1, <1>2
<1>5. \A c \in Blocks \ {b} : t.disk.blocks[c] = s.disk.blocks[c]
  BY <1>3, <1>4
<1>6. \A j \in s.inode_bitmap \ {i}, k \in Keys : Ptr(s, T, j, k) # INVALID => Ptr(s, T, j, k) \in Blocks \ {b}
  <2>1. \A j \in s.inode_bitmap, k \in Keys : Ptr(s, T, j, k) \in Pointer
    BY Fields, PointerTypes DEF Ptr, InodeTables, TableChoices
  <2> QED BY <2>1 DEF Pointer
<1>7. Elsewhere(s, t, T, i)
  <2>1. s.done <= t.done
    BY <1>3, Fields
  <2>2. t.disk.boot = s.disk.boot /\ t.disk.info = s.disk.info /\ t.disk.inode_table = s.disk.inode_table
    BY <1>2, <1>3
  <2>3. t.inode_table = s.inode_table /\ t.inode_bitmap = s.inode_bitmap /\ t.touched = s.touched /\ t.inode = s.inode
        /\ SameCaller(s, t)
    BY <1>3 DEF SameMemory, SameTables, SameScratch
  <2> QED BY <1>5, <1>6, <2>1, <2>2, <2>3 DEF Elsewhere
<1>8. t.disk.blocks[b] \in {s.disk.blocks[b], val} /\ (t.ok => t.disk.blocks[b] = val)
  BY <1>3, <1>4
<1>9. t.ok \/ t.disk.blocks[b] = val \/ t.fault.kind = "lost" \/ Stopped(t)
  BY <1>3, <1>4 DEF SameMemory, SameCaller
<1> QED BY <1>3, <1>5, <1>7, <1>8, <1>9 DEF t, image

(***************************************************************************)
(* write_blocks, started in r, is at work on inode i.  While it succeeds   *)
(* the indirect block on the disk is empty: its table is written again at  *)
(* the end.  C[m] are the cells of the m-th sector.                        *)
(***************************************************************************)
Building(V, r, s, T, i) ==
  /\ s \in FsStates(V) /\ Elsewhere(r, s, T, i)
  /\ Owns(s, With(s, T, i), {})
  /\ s.inode_table[i].indirect_block = INVALID => s.table = NoTable
Indirect(s, i) == s.inode_table[i].indirect_block
Clean(s, i) == Indirect(s, i) # INVALID => s.disk.blocks[Indirect(s, i)] = TableBlock(NoTable)
Messy(s, i) ==
  Indirect(s, i) # INVALID =>
    \/ s.disk.blocks[Indirect(s, i)] \in {TableBlock(NoTable), TableBlock(s.table)}
    \/ s.disk.blocks[Indirect(s, i)] = ZeroBlock /\ Exc(s) = {0}
CellsBlock(c) == [kind |-> "cells", v |-> c]
SectorBlock(s, i, m) == PointerOf(s.inode_table[i], s.table, m + 1)
Filled(s, i, C, n) ==
  \A m \in 0 .. n - 1 :
    SectorBlock(s, i, m) # INVALID /\ s.disk.blocks[SectorBlock(s, i, m)] = CellsBlock(C[m])

\* The pointers of the inode being written.
LEMMA OwnPointers ==
  ASSUME NEW V, NEW s \in FsStates(V), NEW T \in TableChoices, NEW i \in s.inode_bitmap
  PROVE  /\ With(s, T, i) \in TableChoices /\ i \in Inodes
         /\ \A k : Ptr(s, With(s, T, i), i, k) = PointerOf(s.inode_table[i], s.table, k)
         /\ \A j \in Inodes \ {i} : \A k : Ptr(s, With(s, T, i), j, k) = Ptr(s, T, j, k)
         /\ \A j \in Inodes, k \in Keys : Ptr(s, With(s, T, i), j, k) \in Pointer
         /\ 0 \in Keys /\ PointerOf(s.inode_table[i], s.table, 0) = Indirect(s, i)
         /\ s.inode_bitmap \subseteq Inodes
<1>1. s.inode_bitmap \subseteq Inodes /\ s.inode_table \in InodeTables /\ s.table \in IndirectTables
  BY Fields
<1>2. With(s, T, i) \in TableChoices /\ With(s, T, i)[i] = s.table
      /\ \A j \in Inodes \ {i} : With(s, T, i)[j] = T[j]
  BY <1>1 DEF With, TableChoices
<1>3. \A j \in Inodes, k \in Keys : Ptr(s, With(s, T, i), j, k) \in Pointer
  BY <1>1, <1>2, PointerTypes DEF Ptr, InodeTables, TableChoices
<1>4. 0 \in Keys /\ PointerOf(s.inode_table[i], s.table, 0) = Indirect(s, i)
  BY FsSizes DEF Keys, PointerOf, Indirect
<1>5. \A k : Ptr(s, With(s, T, i), i, k) = PointerOf(s.inode_table[i], s.table, k)
  BY <1>2 DEF Ptr
<1>6. \A j \in Inodes \ {i} : \A k : Ptr(s, With(s, T, i), j, k) = Ptr(s, T, j, k)
  BY <1>2 DEF Ptr
<1> QED BY <1>1, <1>2, <1>3, <1>4, <1>5, <1>6

\* The pointers of the inode being written are marked blocks, and blocks that
\* keep their contents keep the file as far as it is written.
LEMMA KeepsFile ==
  ASSUME NEW V, NEW r, NEW s \in FsStates(V), NEW t \in FsStates(V), NEW T \in TableChoices,
         NEW i \in s.inode_bitmap, Building(V, r, s, T, i), NEW C, NEW n \in Nat, \A m \in 0 .. n - 1 : m + 1 \in Keys,
         t.inode_table = s.inode_table, t.table = s.table,
         \A c \in s.data_bitmap : (\E k \in Keys : PointerOf(s.inode_table[i], s.table, k) = c)
                                    => t.disk.blocks[c] = s.disk.blocks[c]
  PROVE  /\ Clean(s, i) => Clean(t, i)
         /\ Filled(s, i, C, n) => Filled(t, i, C, n)
<1>1. \A k \in Keys : PointerOf(s.inode_table[i], s.table, k) # INVALID =>
                        PointerOf(s.inode_table[i], s.table, k) \in s.data_bitmap
  BY OwnPointers DEF Building, Owns
<1>2. \A k \in Keys : PointerOf(s.inode_table[i], s.table, k) # INVALID =>
        t.disk.blocks[PointerOf(s.inode_table[i], s.table, k)] = s.disk.blocks[PointerOf(s.inode_table[i], s.table, k)]
  BY <1>1
<1>3. Clean(s, i) => Clean(t, i)
  <2>1. Indirect(t, i) = Indirect(s, i)
    BY DEF Indirect
  <2>2. Indirect(s, i) # INVALID => t.disk.blocks[Indirect(s, i)] = s.disk.blocks[Indirect(s, i)]
    BY <1>2, OwnPointers
  <2> QED BY <2>1, <2>2 DEF Clean
<1>4. Filled(s, i, C, n) => Filled(t, i, C, n)
  <2>1. \A m : SectorBlock(t, i, m) = SectorBlock(s, i, m)
    BY DEF SectorBlock
  <2>2. \A m \in 0 .. n - 1 : SectorBlock(s, i, m) # INVALID =>
          t.disk.blocks[SectorBlock(s, i, m)] = s.disk.blocks[SectorBlock(s, i, m)]
    BY <1>2 DEF SectorBlock
  <2> QED BY <2>1, <2>2 DEF Filled
<1> QED BY <1>3, <1>4

\* A block is allocated on the way.
LEMMA BuildAllocates ==
  ASSUME NEW V, NEW r \in FsStates(V), NEW s \in FsStates(V), NEW T \in TableChoices, NEW i \in s.inode_bitmap,
         Building(V, r, s, T, i), NEW C, NEW n \in Nat, \A m \in 0 .. n - 1 : m + 1 \in Keys
  PROVE  LET a == allocate_data_block(s) IN
         /\ a \in FsStates(V) /\ Building(V, r, a, T, i) /\ i \in a.inode_bitmap
         /\ a.inode_table = s.inode_table /\ a.table = s.table
         /\ Clean(s, i) => Clean(a, i)
         /\ Filled(s, i, C, n) => Filled(a, i, C, n)
         /\ a.ok => Fresh(a, T, i, a.block) /\ a.disk.blocks[a.block] = ZeroBlock
         /\ \A b : Fresh(s, T, i, b) => /\ Fresh(a, T, i, b) /\ a.disk.blocks[b] = s.disk.blocks[b]
                                        /\ a.ok => a.block # b
<1> DEFINE a == allocate_data_block(s)
<1>1. /\ a \in FsStates(V) /\ SameCaller(s, a) /\ s.done <= a.done
      /\ a.inode_bitmap = s.inode_bitmap /\ a.inode_table = s.inode_table
      /\ a.inode = s.inode /\ a.table = s.table /\ a.touched = s.touched
      /\ a.disk.boot = s.disk.boot /\ a.disk.info = s.disk.info /\ a.disk.inode_table = s.disk.inode_table
      /\ \A b \in s.data_bitmap : a.disk.blocks[b] = s.disk.blocks[b]
      /\ a.ok => /\ a.block \in Blocks \ s.data_bitmap /\ a.data_bitmap = s.data_bitmap \cup {a.block}
                 /\ a.disk.blocks[a.block] = ZeroBlock
      /\ ~a.ok => a.data_bitmap = s.data_bitmap
  BY Allocates
<1> HIDE DEF a
<1>2. With(a, T, i) = With(s, T, i) /\ \A U, j, k : Ptr(a, U, j, k) = Ptr(s, U, j, k)
  BY <1>1 DEF With, Ptr
<1>3. s.data_bitmap \subseteq a.data_bitmap
  <2>1. a.ok \in BOOLEAN
    BY <1>1, Fields
  <2> QED BY <1>1, <2>1
<1>4. Owns(s, With(s, T, i), {})
  BY DEF Building
<1>5. Owns(a, With(a, T, i), {})
  BY <1>1, <1>2, <1>3, <1>4, OwnsSame
<1>6. \A j \in s.inode_bitmap, k \in Keys : Ptr(s, With(s, T, i), j, k) # INVALID => Ptr(s, With(s, T, i), j, k) \in s.data_bitmap
  BY <1>4 DEF Owns
<1>7. Elsewhere(s, a, T, i)
  <2>1. \A j \in s.inode_bitmap \ {i}, k \in Keys : Ptr(s, T, j, k) # INVALID => Ptr(s, T, j, k) \in s.data_bitmap
    BY <1>6, OwnPointers
  <2> QED BY <1>1, <2>1 DEF Elsewhere
<1>8. Building(V, r, a, T, i)
  <2>1. i \in Inodes
    BY Fields
  <2>2. Elsewhere(r, a, T, i)
    BY <1>1, <1>7, <2>1, ElsewhereTransitive DEF Building
  <2> QED BY <1>1, <1>5, <2>2 DEF Building
<1>9. (Clean(s, i) => Clean(a, i)) /\ (Filled(s, i, C, n) => Filled(a, i, C, n))
  BY <1>1, KeepsFile
<1>10. a.ok => Fresh(a, T, i, a.block)
  <2> SUFFICES ASSUME a.ok PROVE Fresh(a, T, i, a.block)
    OBVIOUS
  <2>1. a.block \in Blocks \ s.data_bitmap /\ a.data_bitmap = s.data_bitmap \cup {a.block}
    BY <1>1
  <2>2. a.block # INVALID
    BY <2>1, FsSizes
  <2> QED BY <1>1, <1>2, <1>6, <2>1, <2>2 DEF Fresh
<1>11. ASSUME NEW b, Fresh(s, T, i, b)
       PROVE  /\ Fresh(a, T, i, b) /\ a.disk.blocks[b] = s.disk.blocks[b]
              /\ a.ok => a.block # b
  BY <1>1, <1>2, <1>3, <1>11 DEF Fresh
<1> QED BY <1>1, <1>8, <1>9, <1>10, <1>11 DEF a

\* A block that nobody points to is written on the way.
LEMMA BuildWrites ==
  ASSUME NEW V, NEW r \in FsStates(V), NEW s \in FsStates(V), NEW T \in TableChoices, NEW i \in s.inode_bitmap,
         Building(V, r, s, T, i), NEW C, NEW n \in Nat, \A m \in 0 .. n - 1 : m + 1 \in Keys,
         NEW b, Fresh(s, T, i, b), NEW val \in BlockSet(V)
  PROVE  LET t == ata_write_sector(s, [s.disk EXCEPT !.blocks[b] = val]) IN
         /\ t \in FsStates(V) /\ Building(V, r, t, T, i) /\ SameMemory(s, t) /\ i \in t.inode_bitmap
         /\ Clean(s, i) => Clean(t, i)
         /\ Filled(s, i, C, n) => Filled(t, i, C, n)
         /\ Fresh(t, T, i, b)
         /\ t.ok => t.disk.blocks[b] = val
<1> DEFINE t == ata_write_sector(s, [s.disk EXCEPT !.blocks[b] = val])
<1>1. b \in Blocks /\ \A j \in s.inode_bitmap, k \in Keys : Ptr(s, With(s, T, i), j, k) # b
  BY DEF Fresh
<1>2. \A j \in s.inode_bitmap \ {i}, k \in Keys : Ptr(s, T, j, k) # b
  BY <1>1, OwnPointers
<1>3. i \in Inodes
  BY Fields
<1>4. /\ t \in FsStates(V) /\ SameMemory(s, t) /\ Elsewhere(s, t, T, i)
      /\ \A c \in Blocks \ {b} : t.disk.blocks[c] = s.disk.blocks[c]
      /\ t.ok => t.disk.blocks[b] = val
  BY <1>1, <1>2, <1>3, WritesBlock
<1> HIDE DEF t
<1>5. t.inode_bitmap = s.inode_bitmap /\ t.inode_table = s.inode_table /\ t.data_bitmap = s.data_bitmap
      /\ t.table = s.table
  BY <1>4 DEF SameMemory, SameTables, SameScratch
<1>6. With(t, T, i) = With(s, T, i) /\ \A U, j, k : Ptr(t, U, j, k) = Ptr(s, U, j, k)
  BY <1>5 DEF With, Ptr
<1>7. Owns(t, With(t, T, i), {})
  BY <1>5, <1>6, OwnsSame DEF Building
<1>8. Building(V, r, t, T, i)
  <2>1. Elsewhere(r, t, T, i)
    BY <1>3, <1>4, ElsewhereTransitive DEF Building
  <2> QED BY <1>4, <1>5, <1>7, <2>1 DEF Building
<1>9. \A c \in s.data_bitmap : (\E k \in Keys : PointerOf(s.inode_table[i], s.table, k) = c) => c \in Blocks \ {b}
  <2>1. s.data_bitmap \subseteq Blocks
    BY Fields
  <2>2. \A k \in Keys : PointerOf(s.inode_table[i], s.table, k) # b
    BY <1>1, OwnPointers
  <2> QED BY <2>1, <2>2
<1>10. (Clean(s, i) => Clean(t, i)) /\ (Filled(s, i, C, n) => Filled(t, i, C, n))
  BY <1>4, <1>5, <1>9, KeepsFile
<1>11. Fresh(t, T, i, b)
  BY <1>5, <1>6 DEF Fresh
<1> QED BY <1>4, <1>5, <1>8, <1>10, <1>11 DEF t

\* A block nobody points to becomes the block of one pointer of the inode.
LEMMA Attaches ==
  ASSUME NEW V, NEW r \in FsStates(V), NEW s \in FsStates(V), NEW t \in FsStates(V), NEW T \in TableChoices,
         NEW i \in s.inode_bitmap, Building(V, r, s, T, i), NEW key \in Keys, NEW b, Fresh(s, T, i, b),
         SameCaller(s, t), t.inode_bitmap = s.inode_bitmap, t.data_bitmap = s.data_bitmap,
         t.touched = s.touched, t.inode = s.inode, t.done = s.done, t.disk = s.disk,
         t.inode_table[i].type = s.inode_table[i].type, t.inode_table[i].size = s.inode_table[i].size,
         \A j \in Inodes \ {i} : t.inode_table[j] = s.inode_table[j],
         \A k \in Keys : PointerOf(t.inode_table[i], t.table, k) =
                           IF k = key THEN b ELSE PointerOf(s.inode_table[i], s.table, k),
         t.inode_table[i].indirect_block = INVALID => t.table = NoTable
  PROVE  Building(V, r, t, T, i)
<1> DEFINE S == With(s, T, i)
           U == With(t, T, i)
<1>1. i \in t.inode_bitmap /\ i \in Inodes /\ s.inode_bitmap \subseteq Inodes
  BY Fields
<1>2. \A k \in Keys : Ptr(t, U, i, k) = IF k = key THEN b ELSE Ptr(s, S, i, k)
  BY <1>1, OwnPointers
<1>3. \A j \in s.inode_bitmap \ {i}, k \in Keys : Ptr(t, U, j, k) = Ptr(s, S, j, k) /\ Ptr(s, S, j, k) = Ptr(s, T, j, k)
  <2>1. \A j \in s.inode_bitmap \ {i}, k \in Keys : Ptr(t, T, j, k) = Ptr(s, T, j, k)
    BY <1>1 DEF Ptr
  <2> QED BY <1>1, <2>1, OwnPointers
<1>4. Owns(s, S, {}) /\ Elsewhere(r, s, T, i)
  BY DEF Building
<1>5. b \in s.data_bitmap /\ \A j \in s.inode_bitmap, k \in Keys : Ptr(s, S, j, k) # b
  BY DEF Fresh
<1> HIDE DEF S, U
<1>6. \A j \in s.inode_bitmap, k \in Keys : Ptr(t, U, j, k) = IF j = i /\ k = key THEN b ELSE Ptr(s, S, j, k)
  BY <1>2, <1>3
<1>7. Owns(t, U, {})
  <2>1. ASSUME NEW j \in t.inode_bitmap, NEW k \in Keys
        PROVE  Ptr(t, U, j, k) = INVALID \/ Ptr(t, U, j, k) \in t.data_bitmap \cup {}
    BY <1>4, <1>5, <1>6 DEF Owns
  <2>2. ASSUME NEW j \in t.inode_bitmap, NEW h \in t.inode_bitmap, NEW k \in Keys, NEW l \in Keys,
               Ptr(t, U, j, k) = Ptr(t, U, h, l), Ptr(t, U, j, k) # INVALID
        PROVE  j = h /\ k = l
    BY <1>4, <1>5, <1>6, <2>2 DEF Owns
  <2> QED BY <2>1, <2>2 DEF Owns
<1>8. Elsewhere(s, t, T, i)
  <2>1. s.done <= t.done
    BY Fields
  <2> QED BY <2>1 DEF Elsewhere
<1>9. Elsewhere(r, t, T, i)
  BY <1>1, <1>4, <1>8, ElsewhereTransitive
<1> QED BY <1>7, <1>9 DEF Building, U

\* The pointers of a sector of the file.
LEMMA SectorKey ==
  ASSUME NEW n \in Nat, n + 1 \in Keys
  PROVE  /\ n < SIMPLEFS_DIRECT_BLOCKS => n + 1 \in 1 .. SIMPLEFS_DIRECT_BLOCKS
         /\ ~(n < SIMPLEFS_DIRECT_BLOCKS) =>
              /\ n - SIMPLEFS_DIRECT_BLOCKS + 1 \in 1 .. SIMPLEFS_INDIRECT_ENTRIES
              /\ n + 1 > SIMPLEFS_DIRECT_BLOCKS /\ (n + 1) - SIMPLEFS_DIRECT_BLOCKS = n - SIMPLEFS_DIRECT_BLOCKS + 1
         /\ n + 1 # 0
BY FsSizes DEF Keys

\* The pointer to a sector is set.
EnterDirect(s, i, n, b) == [s EXCEPT !.inode_table[i].direct_blocks[n + 1] = b]
EnterIndirect(s, n, b) == [s EXCEPT !.table[n - SIMPLEFS_DIRECT_BLOCKS + 1] = b]

\* Where the pointer to the n-th sector is.
DirectSector(n) == n + 1 \in Keys /\ n < SIMPLEFS_DIRECT_BLOCKS
IndirectSector(n) == n + 1 \in Keys /\ ~(n < SIMPLEFS_DIRECT_BLOCKS)
\* One pointer of the inode is b, the others are what they were.
Entered(s, t, i, n, b) ==
  \A k \in Keys : PointerOf(t.inode_table[i], t.table, k) =
                    IF k = n + 1 THEN b ELSE PointerOf(s.inode_table[i], s.table, k)

Enters(V, r, s, t, T, i, n, b) ==
  /\ Building(V, r, t, T, i) /\ t.disk = s.disk /\ t.inode_bitmap = s.inode_bitmap /\ t.ok = s.ok
  /\ Entered(s, t, i, n, b)

\* A direct block is entered.
LEMMA AttachesDirect ==
  ASSUME NEW V, NEW r \in FsStates(V), NEW s \in FsStates(V), NEW T \in TableChoices, NEW i \in s.inode_bitmap,
         Building(V, r, s, T, i), NEW n \in Nat, DirectSector(n),
         NEW b, Fresh(s, T, i, b)
  PROVE  Enters(V, r, s, EnterDirect(s, i, n, b), T, i, n, b)
<1> DEFINE q == s.inode_table[i]
           d == [q.direct_blocks EXCEPT ![n + 1] = b]
           p == [q EXCEPT !.direct_blocks = d]
           tab == [s.inode_table EXCEPT ![i] = p]
           t == EnterDirect(s, i, n, b)
<1>1. i \in Inodes /\ s.inode_table \in InodeTables /\ q \in InodeSet
  BY Fields DEF InodeTables
<1>2. b \in Pointer /\ n + 1 \in 1 .. SIMPLEFS_DIRECT_BLOCKS
  BY SectorKey DEF DirectSector, Fresh, Pointer
<1>3. d \in DirectTables /\ d[n + 1] = b /\ \A k \in 1 .. SIMPLEFS_DIRECT_BLOCKS : k # n + 1 => d[k] = q.direct_blocks[k]
  BY <1>1, <1>2, InodeFields DEF DirectTables
<1>4. t = [s EXCEPT !.inode_table = tab]
  BY DEF EnterDirect
<1> HIDE DEF d, q
<1>5. /\ p \in [type : {"free", "regular", "directory"}, size : Nat,
                direct_blocks : DirectTables, indirect_block : Pointer]
      /\ p.type = q.type /\ p.size = q.size /\ p.indirect_block = q.indirect_block /\ p.direct_blocks = d
  BY <1>1, <1>3, InodeFields
<1> HIDE DEF p
<1>6. p \in InodeSet
  <2>1. p.size <= LargestOf(p)
    BY <1>1, <1>5, InodeFields DEF LargestOf
  <2> QED BY <1>5, <2>1 DEF InodeSet
<1>7. tab \in InodeTables /\ tab[i] = p /\ \A j \in Inodes \ {i} : tab[j] = s.inode_table[j]
  BY <1>1, <1>6 DEF InodeTables
<1> HIDE DEF t, tab
<1>8. /\ t \in FsStates(V) /\ SameCaller(s, t) /\ SameScratch(s, t) /\ t.inode_bitmap = s.inode_bitmap
      /\ t.inode_table = tab /\ t.data_bitmap = s.data_bitmap
      /\ t.disk = s.disk /\ t.done = s.done /\ t.ok = s.ok
  BY <1>4, <1>7, SetsInodes
<1>9. t.table = s.table /\ t.touched = s.touched /\ t.inode = s.inode /\ t.fault = s.fault
  BY <1>8 DEF SameScratch, SameCaller
<1>10. ASSUME NEW k \in Keys
       PROVE  PointerOf(t.inode_table[i], t.table, k) = IF k = n + 1 THEN b ELSE PointerOf(s.inode_table[i], s.table, k)
  <2>1. k # 0 /\ k <= SIMPLEFS_DIRECT_BLOCKS => k \in 1 .. SIMPLEFS_DIRECT_BLOCKS
    BY FsSizes DEF Keys
  <2>2. n + 1 # 0 /\ n + 1 <= SIMPLEFS_DIRECT_BLOCKS
    BY <1>2, FsSizes
  <2>3. t.inode_table[i] = p /\ t.table = s.table
    BY <1>7, <1>8, <1>9
  <2> QED BY <1>3, <1>5, <2>1, <2>2, <2>3 DEF PointerOf, q
<1>11. t.inode_table[i].type = s.inode_table[i].type /\ t.inode_table[i].size = s.inode_table[i].size
       /\ t.inode_table[i].indirect_block = s.inode_table[i].indirect_block
       /\ \A j \in Inodes \ {i} : t.inode_table[j] = s.inode_table[j]
  BY <1>5, <1>7, <1>8 DEF q
<1>12. t.inode_table[i].indirect_block = INVALID => t.table = NoTable
  BY <1>9, <1>11 DEF Building
<1>13. Building(V, r, t, T, i)
  BY <1>8, <1>9, <1>10, <1>11, <1>12, Attaches DEF DirectSector
<1> QED BY <1>8, <1>9, <1>10, <1>13 DEF t, Entered, Enters

\* A block of the indirect table is entered.
LEMMA AttachesIndirect ==
  ASSUME NEW V, NEW r \in FsStates(V), NEW s \in FsStates(V), NEW T \in TableChoices, NEW i \in s.inode_bitmap,
         Building(V, r, s, T, i), NEW n \in Nat, IndirectSector(n),
         NEW b, Fresh(s, T, i, b), Indirect(s, i) # INVALID
  PROVE  Enters(V, r, s, EnterIndirect(s, n, b), T, i, n, b)
<1> DEFINE x == n - SIMPLEFS_DIRECT_BLOCKS + 1
           tab == [s.table EXCEPT ![x] = b]
           t == EnterIndirect(s, n, b)
<1>1. x \in 1 .. SIMPLEFS_INDIRECT_ENTRIES /\ n + 1 > SIMPLEFS_DIRECT_BLOCKS /\ (n + 1) - SIMPLEFS_DIRECT_BLOCKS = x
      /\ n + 1 # 0
  BY SectorKey DEF IndirectSector
<1>2. b \in Pointer /\ s.table \in IndirectTables
  BY Fields DEF Fresh, Pointer
<1>3. t = [s EXCEPT !.table = tab]
  BY DEF EnterIndirect
<1> HIDE DEF x
<1>4. tab \in IndirectTables /\ tab[x] = b /\ \A k \in 1 .. SIMPLEFS_INDIRECT_ENTRIES : k # x => tab[k] = s.table[k]
  BY <1>1, <1>2 DEF IndirectTables
<1> HIDE DEF t, tab
<1>5. /\ t \in FsStates(V) /\ SameCaller(s, t) /\ SameTables(s, t) /\ t.table = tab /\ t.touched = s.touched
      /\ t.inode = s.inode /\ t.disk = s.disk /\ t.done = s.done /\ t.ok = s.ok
  BY <1>3, <1>4 DEF FsStates, SameCaller, SameTables
<1>6. ASSUME NEW k \in Keys
      PROVE  PointerOf(t.inode_table[i], t.table, k) = IF k = n + 1 THEN b ELSE PointerOf(s.inode_table[i], s.table, k)
  <2>1. /\ k > SIMPLEFS_DIRECT_BLOCKS =>
             /\ k - SIMPLEFS_DIRECT_BLOCKS \in 1 .. SIMPLEFS_INDIRECT_ENTRIES
             /\ k - SIMPLEFS_DIRECT_BLOCKS = x <=> k = n + 1
        /\ k \in Int /\ SIMPLEFS_DIRECT_BLOCKS \in Nat
    BY <1>1, FsSizes DEF Keys
  <2>2. t.inode_table[i] = s.inode_table[i] /\ t.table = tab
    BY <1>5 DEF SameTables
  <2> QED BY <1>1, <1>4, <2>1, <2>2 DEF PointerOf
<1>7. t.inode_bitmap = s.inode_bitmap /\ t.data_bitmap = s.data_bitmap /\ t.inode_table = s.inode_table
  BY <1>5 DEF SameTables
<1>8. t.inode_table[i].indirect_block # INVALID
  BY <1>7 DEF Indirect
<1>9. Building(V, r, t, T, i)
  BY <1>5, <1>6, <1>7, <1>8, Attaches DEF IndirectSector
<1> QED BY <1>5, <1>6, <1>7, <1>9 DEF t, x, Entered, Enters

\* The indirect block is allocated and written empty.
LEMMA AttachesTable ==
  ASSUME NEW V, NEW r \in FsStates(V), NEW s \in FsStates(V), NEW T \in TableChoices, NEW i \in s.inode_bitmap,
         Building(V, r, s, T, i), NEW C, NEW n \in Nat, \A m \in 0 .. n - 1 : m + 1 \in Keys,
         Clean(s, i), Filled(s, i, C, n), s.ok, NEW b, Fresh(s, T, i, b)
  PROVE  LET x == attach_indirect(s, i) IN
         /\ x \in FsStates(V) /\ Building(V, r, x, T, i) /\ i \in x.inode_bitmap
         /\ Filled(x, i, C, n) /\ Fresh(x, T, i, b) /\ x.disk.blocks[b] = s.disk.blocks[b]
         /\ x.ok => Clean(x, i) /\ Indirect(x, i) # INVALID
         /\ ~x.ok => Messy(x, i)
<1> DEFINE a == allocate_data_block(s)
           y == [a EXCEPT !.inode_table[i].indirect_block = a.block]
           z == write_indirect_block(y, i)
           x == attach_indirect(s, i)
<1>1. x = IF Indirect(s, i) # INVALID THEN s ELSE IF a.ok THEN z ELSE a
  BY DEF attach_indirect, Then, Indirect
<1>2. /\ a \in FsStates(V) /\ Building(V, r, a, T, i) /\ i \in a.inode_bitmap
      /\ a.inode_table = s.inode_table /\ a.table = s.table
      /\ Clean(a, i) /\ Filled(a, i, C, n)
      /\ a.ok => Fresh(a, T, i, a.block) /\ a.disk.blocks[a.block] = ZeroBlock
      /\ Fresh(a, T, i, b) /\ a.disk.blocks[b] = s.disk.blocks[b]
      /\ a.ok => a.block # b
  BY BuildAllocates
<1> HIDE DEF a, x
<1>3. CASE Indirect(s, i) # INVALID
  BY <1>1, <1>3 DEF x
<1>4. CASE Indirect(s, i) = INVALID /\ ~a.ok
  <2>1. x = a
    BY <1>1, <1>4
  <2> QED BY <1>2, <1>4, <2>1 DEF x, Messy, Clean
<1>5. CASE Indirect(s, i) = INVALID /\ a.ok
  <2> DEFINE q == a.inode_table[i]
             p == [q EXCEPT !.indirect_block = a.block]
             tab == [a.inode_table EXCEPT ![i] = p]
             c == a.block
  <2>1. x = z
    BY <1>1, <1>5
  <2>2. i \in Inodes /\ a.inode_table \in InodeTables /\ q \in InodeSet
    BY <1>2, Fields DEF InodeTables
  <2>3. Fresh(a, T, i, c) /\ c \in Blocks /\ c \in Pointer /\ c # INVALID /\ c # b /\ a.disk.blocks[c] = ZeroBlock
    BY <1>2, <1>5, FsSizes DEF Fresh, Pointer
  <2>4. y = [a EXCEPT !.inode_table = tab]
    OBVIOUS
  <2> HIDE DEF q, c
  <2>5. /\ p \in [type : {"free", "regular", "directory"}, size : Nat,
                  direct_blocks : DirectTables, indirect_block : Pointer]
        /\ p.type = q.type /\ p.size = q.size /\ p.indirect_block = c /\ p.direct_blocks = q.direct_blocks
    BY <2>2, <2>3, InodeFields DEF c
  <2> HIDE DEF p
  <2>6. p \in InodeSet
    <3>1. p.size <= LargestOf(p)
      BY <2>2, <2>5, InodeFields DEF LargestOf
    <3> QED BY <2>5, <3>1 DEF InodeSet
  <2>7. tab \in InodeTables /\ tab[i] = p /\ \A j \in Inodes \ {i} : tab[j] = a.inode_table[j]
    BY <2>2, <2>6 DEF InodeTables
  <2>8. z = ata_write_sector(y, [y.disk EXCEPT !.blocks[y.inode_table[i].indirect_block] = TableBlock(y.table)])
    BY DEF write_indirect_block, TableBlock
  <2> HIDE DEF y, tab, z
  <2>9. /\ y \in FsStates(V) /\ SameCaller(a, y) /\ SameScratch(a, y) /\ y.inode_bitmap = a.inode_bitmap
        /\ y.inode_table = tab /\ y.data_bitmap = a.data_bitmap
        /\ y.disk = a.disk /\ y.done = a.done
    BY <1>2, <2>4, <2>7, SetsInodes
  <2>10. y.table = a.table /\ y.touched = a.touched /\ y.inode = a.inode /\ y.inode_table[i] = p /\ y.table = NoTable
    BY <1>2, <1>5, <2>7, <2>9 DEF SameScratch, Building, Indirect
  <2>11. \A k \in Keys : PointerOf(y.inode_table[i], y.table, k) = IF k = 0 THEN c ELSE PointerOf(a.inode_table[i], a.table, k)
    BY <2>5, <2>10 DEF PointerOf, q
  <2>12. y.inode_table[i].type = a.inode_table[i].type /\ y.inode_table[i].size = a.inode_table[i].size
         /\ \A j \in Inodes \ {i} : y.inode_table[j] = a.inode_table[j]
    BY <2>5, <2>7, <2>9, <2>10 DEF q
  <2>13. 0 \in Keys
    BY FsSizes DEF Keys
  <2>14. Building(V, r, y, T, i)
    BY <1>2, <2>3, <2>9, <2>10, <2>11, <2>12, <2>13, Attaches
  <2>15. i \in y.inode_bitmap /\ Indirect(y, i) = c
    BY <1>2, <2>5, <2>9, <2>10 DEF Indirect
  <2>16. \A j \in y.inode_bitmap, k \in Keys : Ptr(y, With(y, T, i), j, k) = c => j = i /\ k = 0
    <3>1. Ptr(y, With(y, T, i), i, 0) = c
      BY <2>9, <2>11, <2>13, <2>15, OwnPointers
    <3>2. Owns(y, With(y, T, i), {})
      BY <2>14 DEF Building
    <3> QED BY <2>3, <2>13, <2>15, <3>1, <3>2 DEF Owns
  <2>17. \A j \in y.inode_bitmap \ {i}, k \in Keys : Ptr(y, T, j, k) # c
    BY <2>9, <2>15, <2>16, OwnPointers
  <2>18. TableBlock(y.table) \in BlockSet(V)
    BY <2>9, Fields DEF TableBlock, BlockSet
  <2>19. y.inode_table[i].indirect_block = c
    BY <2>15 DEF Indirect
  <2>20. /\ z \in FsStates(V) /\ SameMemory(y, z) /\ Elsewhere(y, z, T, i)
         /\ \A d \in Blocks \ {c} : z.disk.blocks[d] = y.disk.blocks[d]
         /\ z.disk.blocks[c] \in {y.disk.blocks[c], TableBlock(y.table)}
         /\ z.ok => z.disk.blocks[c] = TableBlock(y.table)
         /\ z.ok \/ z.disk.blocks[c] = TableBlock(y.table) \/ z.fault.kind = "lost" \/ Stopped(z)
    <3> HIDE DEF TableBlock
    <3> QED BY <2>2, <2>3, <2>8, <2>9, <2>17, <2>18, <2>19, WritesBlock
  <2>21. z.inode_bitmap = y.inode_bitmap /\ z.inode_table = y.inode_table /\ z.data_bitmap = y.data_bitmap
         /\ z.table = y.table
    BY <2>20 DEF SameMemory, SameTables, SameScratch
  <2>22. With(z, T, i) = With(y, T, i) /\ \A U, j, k : Ptr(z, U, j, k) = Ptr(y, U, j, k)
    BY <2>21 DEF With, Ptr
  <2>23. Building(V, r, z, T, i)
    <3>1. Elsewhere(r, z, T, i)
      BY <2>2, <2>9, <2>14, <2>20, ElsewhereTransitive DEF Building
    <3>2. Owns(z, With(z, T, i), {})
      BY <2>14, <2>21, <2>22, OwnsSame DEF Building
    <3> QED BY <2>10, <2>20, <2>21, <3>1, <3>2 DEF Building
  <2>24. Indirect(z, i) = c
    BY <2>19, <2>21 DEF Indirect
  <2>25. Filled(z, i, C, n)
    <3>1. ASSUME NEW m \in 0 .. n - 1
          PROVE  SectorBlock(z, i, m) # INVALID /\ z.disk.blocks[SectorBlock(z, i, m)] = CellsBlock(C[m])
      <4>1. m + 1 \in Keys /\ m + 1 # 0
        OBVIOUS
      <4>2. SectorBlock(z, i, m) = SectorBlock(a, i, m)
        BY <2>11, <2>21, <4>1 DEF SectorBlock
      <4>3. SectorBlock(a, i, m) # INVALID /\ a.disk.blocks[SectorBlock(a, i, m)] = CellsBlock(C[m])
        BY <1>2 DEF Filled
      <4>4. SectorBlock(a, i, m) \in Blocks \ {c}
        <5>1. SectorBlock(a, i, m) \in Pointer /\ SectorBlock(a, i, m) # c
          BY <1>2, <2>2, <2>3, <4>1, OwnPointers DEF SectorBlock, Fresh
        <5> QED BY <4>3, <5>1 DEF Pointer
      <4> QED BY <2>9, <2>20, <4>2, <4>3, <4>4
    <3> QED BY <3>1 DEF Filled
  <2>26. Fresh(z, T, i, b)
    <3>1. b \in Blocks /\ b \in z.data_bitmap
      BY <1>2, <2>9, <2>21 DEF Fresh
    <3>2. ASSUME NEW j \in z.inode_bitmap, NEW k \in Keys PROVE Ptr(z, With(z, T, i), j, k) # b
      <4>1. j \in Inodes /\ j \in a.inode_bitmap
        BY <2>9, <2>21, Fields
      <4>2. CASE j = i
        <5>1. Ptr(z, With(z, T, i), i, k) = PointerOf(y.inode_table[i], y.table, k)
          BY <2>9, <2>15, <2>22, OwnPointers
        <5>2. Ptr(a, With(a, T, i), i, k) = PointerOf(a.inode_table[i], a.table, k)
          BY <1>2, OwnPointers
        <5> QED BY <1>2, <2>3, <2>11, <4>1, <4>2, <5>1, <5>2 DEF Fresh
      <4>3. CASE j # i
        <5>1. Ptr(z, With(z, T, i), j, k) = Ptr(y, T, j, k)
          BY <2>9, <2>15, <2>22, <4>1, <4>3, OwnPointers
        <5>2. Ptr(y, T, j, k) = Ptr(a, T, j, k)
          BY <2>12, <4>1, <4>3 DEF Ptr
        <5>3. Ptr(a, With(a, T, i), j, k) = Ptr(a, T, j, k)
          BY <1>2, <4>1, <4>3, OwnPointers
        <5> QED BY <1>2, <4>1, <5>1, <5>2, <5>3 DEF Fresh
      <4> QED BY <4>2, <4>3
    <3> QED BY <3>1, <3>2 DEF Fresh
  <2>27. z.disk.blocks[b] = s.disk.blocks[b]
    BY <1>2, <2>3, <2>9, <2>20 DEF Fresh
  <2>28. z.ok => Clean(z, i)
    BY <2>10, <2>20, <2>24 DEF Clean
  <2>29. ~z.ok => Messy(z, i)
    <3>1. z.disk.blocks[c] = TableBlock(NoTable) \/ (z.disk.blocks[c] = ZeroBlock /\ (z.ok \/ z.fault.kind = "lost" \/ Stopped(z)))
      <4> HIDE DEF TableBlock, ZeroBlock
      <4> QED BY <2>3, <2>9, <2>10, <2>20
    <3> HIDE DEF TableBlock, ZeroBlock
    <3> QED BY <2>24, <3>1 DEF Messy, Exc
  <2> QED BY <2>1, <2>3, <2>15, <2>20, <2>21, <2>23, <2>24, <2>25, <2>26, <2>27, <2>28, <2>29 DEF x
<1> QED BY <1>3, <1>4, <1>5

\* One more pointer, to a block with the right cells: one more sector of the file.
LEMMA FilledNext ==
  ASSUME NEW s, NEW t, NEW i, NEW C, NEW n \in Nat, \A m \in 0 .. n : m + 1 \in Keys, Filled(s, i, C, n),
         NEW b, b # INVALID, s.disk.blocks[b] = CellsBlock(C[n]), t.disk = s.disk,
         \A k \in Keys : PointerOf(t.inode_table[i], t.table, k) =
                           IF k = n + 1 THEN b ELSE PointerOf(s.inode_table[i], s.table, k)
  PROVE  /\ Filled(t, i, C, n + 1) /\ Indirect(t, i) = Indirect(s, i)
         /\ Clean(s, i) => Clean(t, i)
<1>1. ASSUME NEW m \in 0 .. (n + 1) - 1
      PROVE  SectorBlock(t, i, m) # INVALID /\ t.disk.blocks[SectorBlock(t, i, m)] = CellsBlock(C[m])
  <2>1. CASE m = n
    BY <2>1 DEF SectorBlock
  <2>2. CASE m # n
    <3>1. m \in 0 .. n - 1 /\ m + 1 # n + 1 /\ m + 1 \in Keys
      BY <2>2
    <3>2. SectorBlock(t, i, m) = SectorBlock(s, i, m)
      BY <3>1 DEF SectorBlock
    <3> QED BY <3>1, <3>2 DEF Filled
  <2> QED BY <2>1, <2>2
<1>2. Indirect(t, i) = Indirect(s, i)
  <2>1. 0 \in Keys /\ 0 # n + 1
    BY FsSizes DEF Keys
  <2>2. PointerOf(t.inode_table[i], t.table, 0) = PointerOf(s.inode_table[i], s.table, 0)
    BY <2>1
  <2> QED BY <2>2 DEF PointerOf, Indirect
<1> QED BY <1>1, <1>2 DEF Filled, Clean

\* attach_block.
LEMMA AttachesBlock ==
  ASSUME NEW V, NEW r \in FsStates(V), NEW s \in FsStates(V), NEW T \in TableChoices, NEW i \in s.inode_bitmap,
         Building(V, r, s, T, i), NEW C, NEW n \in Nat, \A m \in 0 .. n : m + 1 \in Keys,
         Clean(s, i), Filled(s, i, C, n), s.ok, NEW b, Fresh(s, T, i, b), s.disk.blocks[b] = CellsBlock(C[n])
  PROVE  LET t == attach_block(s, i, n, b) IN
         /\ t \in FsStates(V) /\ Building(V, r, t, T, i) /\ i \in t.inode_bitmap
         /\ t.ok => Clean(t, i) /\ Filled(t, i, C, n + 1)
         /\ ~t.ok => Messy(t, i)
<1> DEFINE t == attach_block(s, i, n, b)
           x == attach_indirect(s, i)
<1>1. n + 1 \in Keys /\ (\A m \in 0 .. n - 1 : m + 1 \in Keys) /\ b # INVALID
  BY FsSizes DEF Fresh
<1>2. CASE n < SIMPLEFS_DIRECT_BLOCKS
  <2>1. t = EnterDirect(s, i, n, b)
    BY <1>2 DEF attach_block, EnterDirect
  <2> HIDE DEF t
  <2>0. DirectSector(n)
    BY <1>1, <1>2 DEF DirectSector
  <2>2. Enters(V, r, s, t, T, i, n, b)
    BY <2>0, <2>1, AttachesDirect
  <2>4. Building(V, r, t, T, i) /\ t.disk = s.disk /\ t.inode_bitmap = s.inode_bitmap /\ t.ok = s.ok
        /\ Entered(s, t, i, n, b)
    BY <2>2 DEF Enters
  <2>3. Filled(t, i, C, n + 1) /\ Clean(t, i)
    BY <1>1, <2>4, FilledNext DEF Entered
  <2> QED BY <2>3, <2>4 DEF t, Building
<1>3. CASE ~(n < SIMPLEFS_DIRECT_BLOCKS)
  <2>1. t = IF x.ok THEN EnterIndirect(x, n, b) ELSE x
    BY <1>3 DEF attach_block, Then, EnterIndirect
  <2>2. /\ x \in FsStates(V) /\ Building(V, r, x, T, i) /\ i \in x.inode_bitmap
        /\ Filled(x, i, C, n) /\ Fresh(x, T, i, b) /\ x.disk.blocks[b] = s.disk.blocks[b]
        /\ x.ok => Clean(x, i) /\ Indirect(x, i) # INVALID
        /\ ~x.ok => Messy(x, i)
    BY <1>1, AttachesTable
  <2> HIDE DEF t, x
  <2>3. CASE ~x.ok
    BY <2>1, <2>2, <2>3 DEF t
  <2>4. CASE x.ok
    <3>1. t = EnterIndirect(x, n, b)
      BY <2>1, <2>4
    <3>0. IndirectSector(n)
      BY <1>1, <1>3 DEF IndirectSector
    <3>2. Enters(V, r, x, t, T, i, n, b)
      BY <2>2, <2>4, <3>0, <3>1, AttachesIndirect
    <3>4. Building(V, r, t, T, i) /\ t.disk = x.disk /\ t.inode_bitmap = x.inode_bitmap /\ t.ok = x.ok
          /\ Entered(x, t, i, n, b)
      BY <3>2 DEF Enters
    <3>3. Filled(t, i, C, n + 1) /\ Clean(t, i)
      <4>1. x.disk.blocks[b] = CellsBlock(C[n]) /\ Clean(x, i) /\ Filled(x, i, C, n)
        BY <2>2, <2>4
      <4> QED BY <1>1, <3>4, <4>1, FilledNext DEF Entered
    <3> QED BY <2>2, <2>4, <3>3, <3>4 DEF t, Building
  <2> QED BY <2>3, <2>4
<1> QED BY <1>2, <1>3

\* write_block: one sector of the file.
LEMMA WritesFileBlock ==
  ASSUME NEW V, NEW r \in FsStates(V), NEW s \in FsStates(V), NEW T \in TableChoices, NEW i \in s.inode_bitmap,
         Building(V, r, s, T, i), NEW C, NEW n \in Nat, \A m \in 0 .. n : m + 1 \in Keys,
         Clean(s, i), Filled(s, i, C, n), C[n] \in V
  PROVE  LET t == write_block(s, i, n, C[n]) IN
         /\ t \in FsStates(V) /\ Building(V, r, t, T, i) /\ i \in t.inode_bitmap
         /\ t.ok => Clean(t, i) /\ Filled(t, i, C, n + 1)
         /\ ~t.ok => Messy(t, i)
<1> DEFINE a == allocate_data_block(s)
           b == a.block
           w == ata_write_sector(a, [a.disk EXCEPT !.blocks[b] = CellsBlock(C[n])])
           db == w.data_bitmap \ {b}
           v == IF w.ok THEN w ELSE [w EXCEPT !.data_bitmap = db]
           t == write_block(s, i, n, C[n])
<1>1. t = IF a.ok THEN (IF v.ok THEN attach_block(v, i, n, b) ELSE v) ELSE a
  BY DEF write_block, Then, OnFailure, CellsBlock
<1>2. \A m \in 0 .. n - 1 : m + 1 \in Keys
  OBVIOUS
<1>3. /\ a \in FsStates(V) /\ Building(V, r, a, T, i) /\ i \in a.inode_bitmap
      /\ Clean(a, i) /\ Filled(a, i, C, n)
      /\ a.ok => Fresh(a, T, i, b)
  BY <1>2, BuildAllocates
<1> HIDE DEF a, t, b
<1>4. CASE ~a.ok
  BY <1>1, <1>3, <1>4 DEF t, Messy, Clean
<1>5. CASE a.ok
  <2>1. CellsBlock(C[n]) \in BlockSet(V)
    BY DEF CellsBlock, BlockSet
  <2>2. /\ w \in FsStates(V) /\ Building(V, r, w, T, i) /\ SameMemory(a, w) /\ i \in w.inode_bitmap
        /\ Clean(w, i) /\ Filled(w, i, C, n) /\ Fresh(w, T, i, b)
        /\ w.ok => w.disk.blocks[b] = CellsBlock(C[n])
    <3> HIDE DEF CellsBlock
    <3> QED BY <1>2, <1>3, <1>5, <2>1, BuildWrites
  <2> HIDE DEF w
  <2>3. CASE w.ok
    <3>1. t = attach_block(w, i, n, b)
      BY <1>1, <1>5, <2>3
    <3> QED BY <2>2, <2>3, <3>1, AttachesBlock DEF t
  <2>4. CASE ~w.ok
    <3>1. v = [w EXCEPT !.data_bitmap = db]
      BY <2>4
    <3>2. db \in SUBSET Blocks
      BY <2>2, Fields
    <3> HIDE DEF v, db
    <3>3. /\ v \in FsStates(V) /\ SameCaller(w, v) /\ SameScratch(w, v) /\ v.inode_bitmap = w.inode_bitmap
          /\ v.inode_table = w.inode_table /\ v.data_bitmap = db
          /\ v.disk = w.disk /\ v.done = w.done /\ v.ok = w.ok
      BY <2>2, <3>1, <3>2, SetsData
    <3>4. t = v
      BY <1>1, <1>5, <2>4, <3>3
    <3>5. v.table = w.table /\ v.touched = w.touched /\ v.inode = w.inode
      BY <3>3 DEF SameScratch
    <3>6. With(v, T, i) = With(w, T, i) /\ \A U, j, k : Ptr(v, U, j, k) = Ptr(w, U, j, k)
      BY <3>3, <3>5 DEF With, Ptr
    <3>7. Owns(v, With(v, T, i), {})
      BY <2>2, <3>3, <3>6 DEF Owns, Building, Fresh, db
    <3>8. Elsewhere(w, v, T, i)
      <4>1. w.done <= v.done
        BY <2>2, <3>3, Fields
      <4> QED BY <3>3, <3>5, <4>1 DEF Elsewhere
    <3>9. Elsewhere(r, v, T, i)
      <4>1. i \in Inodes
        BY Fields
      <4> QED BY <2>2, <3>3, <3>8, <4>1, ElsewhereTransitive DEF Building
    <3>10. Building(V, r, v, T, i)
      BY <2>2, <3>3, <3>5, <3>7, <3>9 DEF Building
    <3>11. Messy(v, i)
      BY <2>2, <3>3, <3>5 DEF Messy, Clean, Indirect
    <3> QED BY <2>2, <2>4, <3>3, <3>4, <3>10, <3>11 DEF t
  <2> QED BY <2>3, <2>4
<1> QED BY <1>4, <1>5

(***************************************************************************)
(* The loop of write_blocks, and the table written behind it.              *)
(***************************************************************************)
\* After n sectors.
Progress(V, r, t, T, i, C, n) ==
  /\ t \in FsStates(V) /\ Building(V, r, t, T, i) /\ i \in t.inode_bitmap
  /\ t.ok => Clean(t, i) /\ Filled(t, i, C, n)
  /\ ~t.ok => Messy(t, i)
\* The cells of the n-th sector of data, in sectors of z cells.
CellsOf(data, z, n) == [k \in 1 .. z |-> IF n * z + k <= Len(data) THEN data[n * z + k] ELSE ZERO]
Sector(t, i, data, z, n) == IF t.ok THEN write_block(t, i, n - 1, CellsOf(data, z, n - 1)) ELSE t

\* One pass.
LEMMA LoopPass ==
  ASSUME NEW V, NEW r \in FsStates(V), NEW T \in TableChoices, NEW i, NEW C, NEW N \in Nat, NEW data, NEW z,
         \A m \in 0 .. N - 1 : m + 1 \in Keys /\ C[m] \in V /\ C[m] = CellsOf(data, z, m),
         NEW n \in 1 .. N, NEW t, Progress(V, r, t, T, i, C, n - 1)
  PROVE  Progress(V, r, Sector(t, i, data, z, n), T, i, C, n)
<1>1. t \in FsStates(V) /\ Building(V, r, t, T, i) /\ i \in t.inode_bitmap
      /\ (t.ok => Clean(t, i) /\ Filled(t, i, C, n - 1)) /\ (~t.ok => Messy(t, i))
  BY DEF Progress
<1>2. CASE ~t.ok
  BY <1>1, <1>2 DEF Progress, Sector
<1>3. CASE t.ok
  <2> DEFINE m == n - 1
             u == write_block(t, i, m, C[m])
  <2>1. m \in Nat /\ C[m] \in V /\ C[m] = CellsOf(data, z, m) /\ m + 1 = n /\ \A l \in 0 .. m : l + 1 \in Keys
    <3>1. m \in 0 .. N - 1 /\ m \in Nat /\ m + 1 = n /\ \A l \in 0 .. m : l \in 0 .. N - 1
      OBVIOUS
    <3> HIDE DEF m
    <3>2. C[m] \in V /\ C[m] = CellsOf(data, z, m)
      BY <3>1
    <3>3. \A l \in 0 .. m : l + 1 \in Keys
      BY <3>1
    <3> QED BY <3>1, <3>2, <3>3
  <2>2. Sector(t, i, data, z, n) = u
    BY <1>3, <2>1 DEF Sector
  <2>3. Clean(t, i) /\ Filled(t, i, C, m)
    BY <1>1, <1>3
  <2> HIDE DEF m
  <2>4. /\ u \in FsStates(V) /\ Building(V, r, u, T, i) /\ i \in u.inode_bitmap
        /\ u.ok => Clean(u, i) /\ Filled(u, i, C, m + 1)
        /\ ~u.ok => Messy(u, i)
    BY <1>1, <2>1, <2>3, WritesFileBlock
  <2> HIDE DEF u
  <2> QED BY <2>1, <2>2, <2>4 DEF Progress
<1> QED BY <1>2, <1>3

\* The loop of write_blocks.
LoopBody(g, f0, i, data, z, N) == [n \in 0 .. N |-> IF n = 0 THEN f0 ELSE Sector(g[n - 1], i, data, z, n)]
LoopRun(f0, i, data, z, N) == CHOOSE g : g = LoopBody(g, f0, i, data, z, N)

\* All passes of the loop.
LEMMA LoopSectors ==
  ASSUME NEW V, NEW r \in FsStates(V), NEW T \in TableChoices, NEW i, NEW C, NEW N \in Nat, NEW data, NEW z,
         \A m \in 0 .. N - 1 : m + 1 \in Keys /\ C[m] \in V /\ C[m] = CellsOf(data, z, m),
         NEW f0, Progress(V, r, f0, T, i, C, 0)
  PROVE  Progress(V, r, LoopRun(f0, i, data, z, N)[N], T, i, C, N)
<1> DEFINE S == FsStates(V)
           P(t, n) == Progress(V, r, t, T, i, C, n)
           Pass(n, t) == IF P(t, n - 1) THEN Sector(t, i, data, z, n) ELSE t
           D == [p \in (1 .. N) \X S |-> Pass(p[1], p[2])]
<1>1. ASSUME NEW n \in 1 .. N, NEW t, P(t, n - 1) PROVE P(Sector(t, i, data, z, n), n)
  BY <1>1, LoopPass
<1>2. \A t, n : P(t, n) => t \in S
  BY DEF Progress
<1>3. IsLoopBody(D, N, S) /\ \A n \in 1 .. N, t \in S : D[<<n, t>>] = Pass(n, t)
  <2>1. ASSUME NEW n \in 1 .. N, NEW t \in S PROVE Pass(n, t) \in S
    <3> HIDE DEF P, S
    <3> QED BY <1>1, <1>2, <2>1
  <2> HIDE DEF Pass, S
  <2> QED BY <2>1 DEF IsLoopBody
<1>4. f0 \in S /\ P(f0, 0)
  BY DEF Progress
<1> HIDE DEF D, S, P
<1>5. PICK g : IsLoopRun(g, f0, D, N, S)
  BY <1>3, <1>4, RecursionExists
<1>6. /\ g \in [0 .. N -> S] /\ g[0] = f0
      /\ \A n \in 1 .. N : g[n] = Pass(n, g[n - 1])
  <2>1. g \in [0 .. N -> S] /\ g[0] = f0 /\ \A n \in 1 .. N : g[n] = D[<<n, g[n - 1]>>]
    BY <1>5 DEF IsLoopRun
  <2>2. \A n \in 1 .. N : n - 1 \in 0 .. N
    OBVIOUS
  <2> HIDE DEF Pass
  <2> QED BY <1>3, <2>1, <2>2
<1>7. \A n \in 0 .. N : P(g[n], n)
  <2> DEFINE Q == {n \in 0 .. N : P(g[n], n)}
  <2>1. 0 \in Q
    BY <1>4, <1>6
  <2>2. ASSUME NEW n \in 0 .. N - 1, n \in Q PROVE n + 1 \in Q
    <3>1. n + 1 \in 1 .. N /\ (n + 1) - 1 = n /\ n + 1 \in 0 .. N /\ P(g[n], n)
      BY <2>2
    <3>2. g[n + 1] = Sector(g[n], i, data, z, n + 1)
      BY <1>6, <3>1
    <3>3. P(Sector(g[n], i, data, z, n + 1), n + 1)
      BY <1>1, <3>1
    <3> QED BY <3>1, <3>2, <3>3
  <2> HIDE DEF Q
  <2>3. 0 .. N \subseteq Q
    BY <2>1, <2>2, IntervalInduction
  <2> QED BY <2>3 DEF Q
<1>8. g = LoopBody(g, f0, i, data, z, N)
  <2>1. ASSUME NEW n \in 0 .. N PROVE g[n] = IF n = 0 THEN f0 ELSE Sector(g[n - 1], i, data, z, n)
    <3>1. CASE n = 0
      BY <1>6, <3>1
    <3>2. CASE n # 0
      <4>1. n \in 1 .. N /\ n - 1 \in 0 .. N
        BY <3>2
      <4>2. P(g[n - 1], n - 1)
        BY <1>7, <4>1
      <4> QED BY <1>6, <3>2, <4>1, <4>2
    <3> QED BY <3>1, <3>2
  <2> QED BY <1>6, <2>1 DEF LoopBody
<1> DEFINE up == CHOOSE h : h = LoopBody(h, f0, i, data, z, N)
<1>9. up = LoopBody(up, f0, i, data, z, N)
  BY <1>8
<1> HIDE DEF up
<1>10. up[0] = f0 /\ \A n \in 1 .. N : up[n] = Sector(up[n - 1], i, data, z, n)
  <2>1. \A n \in 1 .. N : n \in 0 .. N /\ n # 0
    OBVIOUS
  <2>2. 0 \in 0 .. N
    OBVIOUS
  <2> QED BY <1>9, <2>1, <2>2 DEF LoopBody
<1> DEFINE Q == {n \in 0 .. N : P(up[n], n)}
<1>11. 0 \in Q
  BY <1>4, <1>10
<1>12. ASSUME NEW n \in 0 .. N - 1, n \in Q PROVE n + 1 \in Q
  <2>1. n + 1 \in 1 .. N /\ (n + 1) - 1 = n /\ n + 1 \in 0 .. N /\ P(up[n], n)
    BY <1>12
  <2>2. up[n + 1] = Sector(up[n], i, data, z, n + 1)
    BY <1>10, <2>1
  <2>3. P(Sector(up[n], i, data, z, n + 1), n + 1)
    BY <1>1, <2>1
  <2> QED BY <2>1, <2>2, <2>3
<1> HIDE DEF Q
<1>13. 0 .. N \subseteq Q
  BY <1>11, <1>12, IntervalInduction
<1>14. P(up[N], N)
  <2>1. N \in 0 .. N
    OBVIOUS
  <2> QED BY <1>13, <2>1 DEF Q
<1> QED BY <1>14 DEF P, up, LoopRun

\* What write_blocks leaves.
Wrote(V, r, t, T, i, C, N) ==
  /\ t \in FsStates(V) /\ Building(V, r, t, T, i) /\ i \in t.inode_bitmap
  /\ t.ok => /\ Filled(t, i, C, N)
             /\ Indirect(t, i) # INVALID => t.disk.blocks[Indirect(t, i)] = TableBlock(t.table)
  /\ ~t.ok => Messy(t, i)

\* The table is written.
LEMMA WritesIndirect ==
  ASSUME NEW V, NEW r \in FsStates(V), NEW T \in TableChoices, NEW i, NEW C, NEW N \in Nat,
         \A m \in 0 .. N - 1 : m + 1 \in Keys, NEW t, Progress(V, r, t, T, i, C, N), t.ok, Indirect(t, i) # INVALID
  PROVE  Wrote(V, r, write_indirect_block(t, i), T, i, C, N)
<1> DEFINE c == Indirect(t, i)
           u == write_indirect_block(t, i)
<1>1. t \in FsStates(V) /\ Building(V, r, t, T, i) /\ i \in t.inode_bitmap /\ Clean(t, i) /\ Filled(t, i, C, N)
  BY DEF Progress
<1>2. Owns(t, With(t, T, i), {}) /\ Elsewhere(r, t, T, i) /\ i \in Inodes /\ t.inode_bitmap \subseteq Inodes
  BY <1>1, Fields DEF Building
<1>3. c \in Blocks
  <2>1. t.inode_table[i] \in InodeSet
    BY <1>1, <1>2, Fields DEF InodeTables
  <2> QED BY <2>1, InodeFields DEF Indirect, Pointer
<1>4. 0 \in Keys /\ Ptr(t, With(t, T, i), i, 0) = c
  BY <1>1, OwnPointers
<1> HIDE DEF c
<1>5. \A j \in t.inode_bitmap, k \in Keys : Ptr(t, With(t, T, i), j, k) = c => j = i /\ k = 0
  <2>1. c # INVALID
    BY <1>3, FsSizes
  <2> QED BY <1>1, <1>2, <1>4, <2>1 DEF Owns
<1>6. \A j \in t.inode_bitmap \ {i}, k \in Keys : Ptr(t, T, j, k) # c
  BY <1>1, <1>2, <1>5, OwnPointers
<1>7. TableBlock(t.table) \in BlockSet(V)
  BY <1>1, Fields DEF TableBlock, BlockSet
<1>8. u = ata_write_sector(t, [t.disk EXCEPT !.blocks[c] = TableBlock(t.table)])
  BY DEF write_indirect_block, TableBlock, c, Indirect
<1> HIDE DEF u
<1>9. /\ u \in FsStates(V) /\ SameMemory(t, u) /\ Elsewhere(t, u, T, i)
      /\ \A d \in Blocks \ {c} : u.disk.blocks[d] = t.disk.blocks[d]
      /\ u.disk.blocks[c] \in {t.disk.blocks[c], TableBlock(t.table)}
      /\ u.ok => u.disk.blocks[c] = TableBlock(t.table)
  <2> HIDE DEF TableBlock
  <2> QED BY <1>1, <1>2, <1>3, <1>6, <1>7, <1>8, WritesBlock
<1>10. u.inode_bitmap = t.inode_bitmap /\ u.inode_table = t.inode_table /\ u.data_bitmap = t.data_bitmap
       /\ u.table = t.table
  BY <1>9 DEF SameMemory, SameTables, SameScratch
<1>11. With(u, T, i) = With(t, T, i) /\ (\A U, j, k : Ptr(u, U, j, k) = Ptr(t, U, j, k)) /\ Indirect(u, i) = c
  BY <1>10 DEF With, Ptr, c, Indirect
<1>12. Building(V, r, u, T, i)
  <2>1. Elsewhere(r, u, T, i)
    BY <1>1, <1>2, <1>9, ElsewhereTransitive
  <2>2. Owns(u, With(u, T, i), {})
    BY <1>2, <1>10, <1>11, OwnsSame
  <2> QED BY <1>1, <1>9, <1>10, <2>1, <2>2 DEF Building
<1>13. Filled(u, i, C, N)
  <2>1. ASSUME NEW m \in 0 .. N - 1
        PROVE  SectorBlock(u, i, m) # INVALID /\ u.disk.blocks[SectorBlock(u, i, m)] = CellsBlock(C[m])
    <3>1. m + 1 \in Keys /\ m + 1 # 0
      OBVIOUS
    <3>2. SectorBlock(u, i, m) = SectorBlock(t, i, m) /\ SectorBlock(t, i, m) = Ptr(t, With(t, T, i), i, m + 1)
      BY <1>1, <1>10, OwnPointers DEF SectorBlock
    <3>3. SectorBlock(t, i, m) # INVALID /\ t.disk.blocks[SectorBlock(t, i, m)] = CellsBlock(C[m])
      BY <1>1 DEF Filled
    <3>4. SectorBlock(t, i, m) \in Blocks \ {c}
      <4>1. SectorBlock(t, i, m) \in Pointer
        BY <1>1, <1>2, <3>1, <3>2, OwnPointers
      <4> QED BY <1>1, <1>5, <3>1, <3>2, <3>3, <4>1 DEF Pointer
    <3> QED BY <1>9, <3>2, <3>3, <3>4
  <2> QED BY <2>1 DEF Filled
<1>14. ~u.ok => Messy(u, i)
  <2>1. t.disk.blocks[c] = TableBlock(NoTable)
    BY <1>1 DEF Clean, c
  <2> QED BY <1>9, <1>10, <1>11, <2>1 DEF Messy
<1> QED BY <1>1, <1>9, <1>10, <1>11, <1>12, <1>13, <1>14 DEF Wrote, u

\* How many sectors the data take.
Required(data, z) == (Len(data) + z - 1) \div z

\* They have pointers.
LEMMA RequiredFits ==
  ASSUME NEW r \in InodeSet, NEW data, Len(data) \in Nat, Len(data) <= LargestOf(r)
  PROVE  /\ Required(data, SectorOf(r)) \in Nat
         /\ \A m \in 0 .. Required(data, SectorOf(r)) - 1 : m + 1 \in Keys
<1> DEFINE z == SectorOf(r)
           p == SIMPLEFS_DIRECT_BLOCKS + SIMPLEFS_INDIRECT_ENTRIES
           a == Len(data) + z - 1
           N == Required(data, z)
<1>1. z \in Nat \ {0} /\ p \in Nat /\ Len(data) <= z * p
  BY FsSizes DEF SectorOf, LargestOf, SIMPLEFS_MAX_DIRECTORY_ENTRIES, SIMPLEFS_MAX_FILE_SIZE
<1>2. N = a \div z /\ Keys = 0 .. p
  BY DEF Required, Keys
<1>3. a = Len(data) + z - 1
  OBVIOUS
<1> HIDE DEF z, p, a, N
<1>4. a \in Nat
  BY <1>1, <1>3
<1>5. N \in Nat
  BY <1>1, <1>2, <1>4, Division
<1>6. N <= p
  <2>1. (p + 1) * z = z * p + z /\ z * p \in Nat
    BY <1>1
  <2>2. a < (p + 1) * z
    BY <1>1, <1>3, <2>1
  <2> QED BY <1>1, <1>2, <1>4, <2>2, QuotientBound
<1> QED BY <1>1, <1>2, <1>5, <1>6 DEF N, z

\* The loop in write_blocks.
LEMMA BlocksLoop ==
  ASSUME NEW s, NEW i, NEW data
  PROVE  LET z == SectorOf(s.inode_table[i])
             N == Required(data, z)
             t == LoopRun([s EXCEPT !.ok = TRUE], i, data, z, N)[N] IN
         write_blocks(s, i, data) = IF t.ok /\ Indirect(t, i) # INVALID THEN write_indirect_block(t, i) ELSE t
<1> DEFINE z == SectorOf(s.inode_table[i])
           N == Required(data, z)
           t == LoopRun([s EXCEPT !.ok = TRUE], i, data, z, N)[N]
<1>1. write_blocks(s, i, data) =
        IF t.ok THEN (IF t.inode_table[i].indirect_block # INVALID THEN write_indirect_block(t, i) ELSE t) ELSE t
  BY DEF write_blocks, Then, LoopRun, LoopBody, Sector, Required, CellsOf
<1> HIDE DEF t
<1> QED BY <1>1 DEF Indirect, t

\* write_blocks.
LEMMA WritesFile ==
  ASSUME NEW V, NEW s \in FsStates(V), NEW T \in TableChoices, NEW i \in s.inode_bitmap,
         Owns(s, With(s, T, i), {}), Indirect(s, i) = INVALID, s.table = NoTable,
         NEW data, Len(data) \in Nat, Len(data) <= LargestOf(s.inode_table[i]),
         NEW z, z = SectorOf(s.inode_table[i]), NEW N, N = Required(data, z),
         NEW C, \A m \in 0 .. N - 1 : C[m] \in V /\ C[m] = CellsOf(data, z, m)
  PROVE  Wrote(V, s, write_blocks(s, i, data), T, i, C, N)
<1> DEFINE f0 == [s EXCEPT !.ok = TRUE]
           t == LoopRun(f0, i, data, z, N)[N]
<1>1. write_blocks(s, i, data) = IF t.ok /\ Indirect(t, i) # INVALID THEN write_indirect_block(t, i) ELSE t
  BY BlocksLoop
<1>2. N \in Nat /\ \A m \in 0 .. N - 1 : m + 1 \in Keys
  <2>1. s.inode_table[i] \in InodeSet
    BY Fields DEF InodeTables
  <2> QED BY <2>1, RequiredFits
<1>3. f0 \in FsStates(V) /\ SameMemory(s, f0) /\ f0.disk = s.disk /\ f0.done = s.done /\ f0.ok = TRUE
  BY SetsOk
<1> HIDE DEF f0
<1>4. f0.inode_bitmap = s.inode_bitmap /\ f0.inode_table = s.inode_table /\ f0.data_bitmap = s.data_bitmap
      /\ f0.table = s.table /\ f0.touched = s.touched /\ f0.inode = s.inode /\ SameCaller(s, f0)
  BY <1>3 DEF SameMemory, SameTables, SameScratch
<1>5. Progress(V, s, f0, T, i, C, 0)
  <2>1. With(f0, T, i) = With(s, T, i) /\ Indirect(f0, i) = INVALID
    BY <1>4 DEF With, Indirect
  <2>2. Owns(f0, With(f0, T, i), {})
    BY <1>4, <2>1, OwnsSame
  <2>3. Elsewhere(s, f0, T, i)
    <3>1. s.done <= f0.done
      BY <1>3, Fields
    <3> QED BY <1>3, <1>4, <3>1 DEF Elsewhere
  <2>4. Filled(f0, i, C, 0) /\ Clean(f0, i)
    BY <2>1 DEF Filled, Clean
  <2> QED BY <1>3, <1>4, <2>2, <2>3, <2>4 DEF Progress, Building
<1>6. Progress(V, s, t, T, i, C, N)
  BY <1>2, <1>5, LoopSectors
<1> HIDE DEF t
<1>7. CASE t.ok /\ Indirect(t, i) # INVALID
  BY <1>1, <1>2, <1>6, <1>7, WritesIndirect
<1>8. CASE ~(t.ok /\ Indirect(t, i) # INVALID)
  BY <1>1, <1>6, <1>8 DEF Progress, Wrote
<1> QED BY <1>7, <1>8

-----------------------------------------------------------------------------
(* What the functions above the blocks keep.                               *)

\* There is a root directory, in memory; a disk that can be mounted.
Rooted(s) ==
  SIMPLEFS_ROOT_INODE \in s.inode_bitmap /\ s.inode_table[SIMPLEFS_ROOT_INODE].type = "directory"
Mountable(d) ==
  /\ d.boot /\ d.info.magic /\ SIMPLEFS_ROOT_INODE \in d.info.inode_bitmap
  /\ d.inode_table[SIMPLEFS_ROOT_INODE].type = "directory"

\* Every inode owns its blocks, and what is on the disk of the inodes the call
\* has not touched is sound.
Good(V, s, T, E) ==
  /\ s \in FsStates(V) /\ T \in TableChoices
  /\ Backed(s, T, s.inode_bitmap) /\ Owns(s, T, E) /\ DiskOwns(s, T) /\ Rooted(s)

\* More exceptions.
LEMMA OwnsWeaker ==
  ASSUME NEW s, NEW T, NEW E, NEW F, E \subseteq F, Owns(s, T, E)
  PROVE  Owns(s, T, F)
BY DEF Owns

\* The machine does not start again by itself.
LEMMA ExcGrows ==
  ASSUME NEW V, NEW s \in FsStates(V), NEW t \in FsStates(V), t.fault = s.fault, s.done <= t.done
  PROVE  Exc(s) \subseteq Exc(t) /\ LostExc(t) = LostExc(s) /\ LostExc(s) \subseteq Exc(s)
         /\ (~Stopped(s) => Exc(s) = LostExc(s))
<1>1. Stopped(s) => Stopped(t)
  BY Faulty DEF Stopped
<1> QED BY <1>1 DEF Exc, LostExc

\* Inodes that are not touched may not change.
LEMMA DiskOwnsMoves ==
  ASSUME NEW s, NEW t, NEW T, NEW U, DiskOwns(s, T), t.disk = s.disk, t.fault = s.fault, s.touched \subseteq t.touched,
         \A j \in Inodes \ t.touched : /\ t.inode_table[j] = s.inode_table[j] /\ U[j] = T[j]
                                       /\ j \in t.inode_bitmap <=> j \in s.inode_bitmap
  PROVE  DiskOwns(t, U)
<1>1. \A j \in Inodes \ t.touched : \A k : Ptr(t, U, j, k) = Ptr(s, T, j, k)
  BY DEF Ptr
<1>2. LostExc(t) = LostExc(s)
  BY DEF LostExc
<1> QED BY <1>1, <1>2 DEF DiskOwns

\* Writing metadata.
LEMMA DiskOwnsMeta ==
  ASSUME NEW V, NEW s \in FsStates(V), NEW t \in FsStates(V), NEW T, MetaWritten(s, t),
         DiskOwns(s, T), Owns(s, T, Exc(s))
  PROVE  DiskOwns(t, T)
<1>1. /\ t.inode_table = s.inode_table /\ t.inode_bitmap = s.inode_bitmap /\ t.touched = s.touched
      /\ t.fault = s.fault /\ s.done <= t.done
      /\ t.disk.info \in {s.disk.info, InfoOf(s)}
      /\ \A i \in Inodes : t.disk.inode_table[i] \in {s.disk.inode_table[i], s.inode_table[i]}
      /\ Stopped(s) => t.disk = s.disk
  BY DEF MetaWritten, SameMemory, SameTables, SameScratch, SameCaller
<1>2. \A j, k : Ptr(t, T, j, k) = Ptr(s, T, j, k)
  BY <1>1 DEF Ptr
<1>3. LostExc(t) = LostExc(s) /\ (~Stopped(s) => Exc(s) = LostExc(s))
  BY <1>1, ExcGrows
<1>4. CASE Stopped(s)
  BY <1>1, <1>4, DiskOwnsMoves
<1>5. CASE ~Stopped(s)
  <2> SUFFICES ASSUME NEW i \in Inodes \ t.touched
               PROVE  /\ i \in t.disk.info.inode_bitmap <=> i \in t.inode_bitmap
                      /\ t.disk.inode_table[i] = t.inode_table[i]
                      /\ i \in t.inode_bitmap => \A k \in Keys :
                           Ptr(t, T, i, k) = INVALID \/ Ptr(t, T, i, k) \in t.disk.info.data_bitmap \cup LostExc(t)
    BY DEF DiskOwns
  <2>1. /\ i \in s.disk.info.inode_bitmap <=> i \in s.inode_bitmap
        /\ s.disk.inode_table[i] = s.inode_table[i]
        /\ i \in s.inode_bitmap => \A k \in Keys :
             Ptr(s, T, i, k) = INVALID \/ Ptr(s, T, i, k) \in s.disk.info.data_bitmap \cup LostExc(s)
    BY <1>1 DEF DiskOwns
  <2>2. t.disk.inode_table[i] = t.inode_table[i]
    BY <1>1, <2>1
  <2>3. CASE t.disk.info = s.disk.info
    BY <1>1, <1>2, <1>3, <2>1, <2>2, <2>3
  <2>4. CASE t.disk.info = InfoOf(s)
    <3>1. t.disk.info.inode_bitmap = s.inode_bitmap /\ t.disk.info.data_bitmap = s.data_bitmap
      BY <2>4 DEF InfoOf
    <3>2. i \in s.inode_bitmap => \A k \in Keys : Ptr(s, T, i, k) = INVALID \/ Ptr(s, T, i, k) \in s.data_bitmap \cup LostExc(s)
      BY <1>3, <1>5 DEF Owns
    <3> QED BY <1>1, <1>2, <1>3, <2>2, <3>1, <3>2
  <2> QED BY <1>1, <2>3, <2>4
<1> QED BY <1>4, <1>5

\* Everything is kept.
LEMMA GoodMeta ==
  ASSUME NEW V, NEW s, NEW t \in FsStates(V), NEW T, NEW E, Good(V, s, T, E), E \subseteq Exc(s), MetaWritten(s, t)
  PROVE  /\ Good(V, t, T, E) /\ E \subseteq Exc(t)
         /\ Mountable(s.disk) => Mountable(t.disk)
<1>1. s \in FsStates(V) /\ T \in TableChoices /\ Backed(s, T, s.inode_bitmap) /\ Owns(s, T, E)
      /\ DiskOwns(s, T) /\ Rooted(s)
  BY DEF Good
<1>2. /\ t.inode_table = s.inode_table /\ t.inode_bitmap = s.inode_bitmap /\ t.data_bitmap = s.data_bitmap
      /\ t.fault = s.fault /\ s.done <= t.done /\ t.disk.blocks = s.disk.blocks /\ t.disk.boot = s.disk.boot
      /\ t.disk.info \in {s.disk.info, InfoOf(s)}
      /\ \A i \in Inodes : t.disk.inode_table[i] \in {s.disk.inode_table[i], s.inode_table[i]}
  BY DEF MetaWritten, SameMemory, SameTables, SameCaller
<1>3. Backed(t, T, t.inode_bitmap)
  BY <1>1, <1>2 DEF Backed
<1>4. Owns(t, T, E)
  BY <1>1, <1>2, OwnsSame
<1>5. DiskOwns(t, T)
  BY <1>1, OwnsWeaker, DiskOwnsMeta
<1>6. Rooted(t)
  BY <1>1, <1>2 DEF Rooted
<1>7. Mountable(s.disk) => Mountable(t.disk)
  <2>1. SIMPLEFS_ROOT_INODE \in Inodes
    BY FsSizes
  <2>2. InfoOf(s).magic = TRUE /\ InfoOf(s).inode_bitmap = s.inode_bitmap
    BY DEF InfoOf
  <2> QED BY <1>1, <1>2, <2>1, <2>2 DEF Mountable, Rooted
<1>8. E \subseteq Exc(t)
  BY <1>1, <1>2, ExcGrows
<1> QED BY <1>1, <1>3, <1>4, <1>5, <1>6, <1>7, <1>8 DEF Good

-----------------------------------------------------------------------------
(* The blocks of an inode are freed.                                       *)

\* BlocksOf finds the pointers of the inode and of the table it reads.
LEMMA PointersFound ==
  ASSUME NEW r \in InodeSet, NEW tab \in IndirectTables
  PROVE  \A b \in (Range(r.direct_blocks) \cup Range(tab) \cup {r.indirect_block}) \ {INVALID} :
           \E k \in Keys : PointerOf(r, tab, k) = b
<1>1. r.direct_blocks \in DirectTables
  BY InodeFields
<1>2. ASSUME NEW b \in Range(r.direct_blocks) PROVE \E k \in Keys : PointerOf(r, tab, k) = b
  <2>1. PICK k \in 1 .. SIMPLEFS_DIRECT_BLOCKS : b = r.direct_blocks[k]
    BY <1>1 DEF Range, DirectTables
  <2>2. k \in Keys /\ k # 0 /\ k <= SIMPLEFS_DIRECT_BLOCKS
    BY FsSizes DEF Keys
  <2> QED BY <2>1, <2>2 DEF PointerOf
<1>3. ASSUME NEW b \in Range(tab) PROVE \E k \in Keys : PointerOf(r, tab, k) = b
  <2>1. PICK k \in 1 .. SIMPLEFS_INDIRECT_ENTRIES : b = tab[k]
    BY DEF Range, IndirectTables
  <2> DEFINE l == k + SIMPLEFS_DIRECT_BLOCKS
  <2>2. l \in Keys /\ l # 0 /\ ~(l <= SIMPLEFS_DIRECT_BLOCKS) /\ l - SIMPLEFS_DIRECT_BLOCKS = k
    BY FsSizes DEF Keys
  <2> HIDE DEF l
  <2> QED BY <2>1, <2>2 DEF PointerOf
<1>4. \E k \in Keys : PointerOf(r, tab, k) = r.indirect_block
  <2>1. 0 \in Keys
    BY FsSizes DEF Keys
  <2> QED BY <2>1 DEF PointerOf
<1> QED BY <1>2, <1>3, <1>4

\* The table of an inode whose table is on the disk.
LEMMA BackedTable ==
  ASSUME NEW s, NEW T, NEW i, Backed(s, T, {i})
  PROVE  read_indirect_block(s, s.inode_table[i]) = T[i]
<1> DEFINE b == s.inode_table[i].indirect_block
<1>1. IF b = INVALID THEN T[i] = NoTable ELSE s.disk.blocks[b] = TableBlock(T[i])
  BY DEF Backed
<1>2. TableIn(TableBlock(T[i])) = T[i]
  BY DEF TableIn, TableBlock
<1> QED BY <1>1, <1>2 DEF read_indirect_block

\* Which blocks are freed.
LEMMA FreedWhenBacked ==
  ASSUME NEW V, NEW s \in FsStates(V), NEW T \in TableChoices, NEW i \in Inodes, Backed(s, T, {i})
  PROVE  \A b \in BlocksOf(s, s.inode_table[i]) : \E k \in Keys : Ptr(s, T, i, k) = b
<1>1. read_indirect_block(s, s.inode_table[i]) = T[i] /\ T[i] \in IndirectTables /\ s.inode_table[i] \in InodeSet
  BY BackedTable, Fields DEF TableChoices, InodeTables
<1> QED BY <1>1, PointersFound DEF BlocksOf, Ptr

\* After a failure the table on the disk may be another one than in memory.
LEMMA FreedWhenMessy ==
  ASSUME NEW V, NEW s \in FsStates(V), NEW T \in TableChoices, NEW i \in s.inode_bitmap, Messy(s, i),
         Indirect(s, i) = INVALID => s.table = NoTable
  PROVE  \A b \in BlocksOf(s, s.inode_table[i]) : b \in Exc(s) \/ \E k \in Keys : Ptr(s, With(s, T, i), i, k) = b
<1> DEFINE r == s.inode_table[i]
           tab == read_indirect_block(s, r)
<1>1. r \in InodeSet /\ s.table \in IndirectTables
  BY Fields DEF InodeTables
<1>2. \A b \in (Range(r.direct_blocks) \cup Range(s.table) \cup {r.indirect_block}) \ {INVALID} :
        \E k \in Keys : Ptr(s, With(s, T, i), i, k) = b
  <2>1. \A b \in (Range(r.direct_blocks) \cup Range(s.table) \cup {r.indirect_block}) \ {INVALID} :
          \E k \in Keys : PointerOf(r, s.table, k) = b
    BY <1>1, PointersFound
  <2>2. \A k : Ptr(s, With(s, T, i), i, k) = PointerOf(r, s.table, k)
    BY OwnPointers
  <2> QED BY <2>1, <2>2
<1>3. \A b \in Range(tab) \ {INVALID} : b \in Exc(s) \/ b \in Range(s.table)
  <2>1. CASE Indirect(s, i) = INVALID
    BY <2>1 DEF read_indirect_block, Indirect
  <2>2. CASE Indirect(s, i) # INVALID
    <3>1. tab = TableIn(s.disk.blocks[Indirect(s, i)])
      BY <2>2 DEF read_indirect_block, Indirect
    <3>2. CASE s.disk.blocks[Indirect(s, i)] = TableBlock(NoTable)
      <4>1. tab = NoTable
        BY <3>1, <3>2 DEF TableIn, TableBlock
      <4> QED BY <4>1 DEF NoTable, Range
    <3>3. CASE s.disk.blocks[Indirect(s, i)] = TableBlock(s.table)
      <4>1. tab = s.table
        BY <3>1, <3>3 DEF TableIn, TableBlock
      <4> QED BY <4>1
    <3>4. CASE s.disk.blocks[Indirect(s, i)] = ZeroBlock /\ Exc(s) = {0}
      <4>1. tab = [k \in 1 .. SIMPLEFS_INDIRECT_ENTRIES |-> 0]
        BY <3>1, <3>4 DEF TableIn, ZeroBlock
      <4>2. \A b \in Range(tab) : b = 0
        BY <4>1 DEF Range
      <4> QED BY <3>4, <4>2
    <3> QED BY <2>2, <3>2, <3>3, <3>4 DEF Messy
  <2> QED BY <2>1, <2>2
<1> QED BY <1>2, <1>3 DEF BlocksOf

\* The inode is empty, and its blocks are free.
Freed(V, s, u, T, i, F) ==
  /\ u \in FsStates(V) /\ SameCaller(s, u) /\ SameScratch(s, u) /\ u.inode_bitmap = s.inode_bitmap
  /\ u.disk = s.disk /\ u.done = s.done /\ u.ok = s.ok
  /\ u.inode_table[i] = NewInode(s.inode_table[i].type)
  /\ \A j \in Inodes \ {i} : u.inode_table[j] = s.inode_table[j]
  /\ Owns(u, [T EXCEPT ![i] = NoTable], F)

\* free_inode_blocks.
LEMMA FreesBlocks ==
  ASSUME NEW V, NEW s \in FsStates(V), NEW T \in TableChoices, NEW i \in s.inode_bitmap, NEW E, NEW F, E \subseteq F,
         Owns(s, T, E),
         \A b \in BlocksOf(s, s.inode_table[i]) : b \in F \/ \E k \in Keys : Ptr(s, T, i, k) = b
  PROVE  Freed(V, s, free_inode_blocks(s, i), T, i, F)
<1> DEFINE db == s.data_bitmap \ BlocksOf(s, s.inode_table[i])
           p == NewInode(s.inode_table[i].type)
           tab == [s.inode_table EXCEPT ![i] = p]
           u == free_inode_blocks(s, i)
           U == [T EXCEPT ![i] = NoTable]
<1>1. i \in Inodes /\ s.inode_table \in InodeTables /\ s.inode_table[i] \in InodeSet /\ s.inode_bitmap \subseteq Inodes
  BY Fields DEF InodeTables
<1>2. p \in InodeSet
  <2>1. s.inode_table[i].type \in {"free", "regular", "directory"}
    BY <1>1, InodeFields
  <2> QED BY <2>1, NoPointers
<1>3. u = [s EXCEPT !.data_bitmap = db, !.inode_table = tab]
  BY DEF free_inode_blocks
<1> HIDE DEF p
<1>4. tab \in InodeTables /\ tab[i] = p /\ \A j \in Inodes \ {i} : tab[j] = s.inode_table[j]
  BY <1>1, <1>2 DEF InodeTables
<1>5. db \in SUBSET Blocks
  BY Fields
<1> HIDE DEF u, tab
<1>6. /\ u \in FsStates(V) /\ SameCaller(s, u) /\ SameScratch(s, u) /\ u.inode_bitmap = s.inode_bitmap
      /\ u.disk = s.disk /\ u.done = s.done /\ u.ok = s.ok /\ u.inode_table = tab /\ u.data_bitmap = db
  <2> HIDE DEF db
  <2> QED BY <1>3, <1>4, <1>5 DEF FsStates, SameCaller, SameScratch
<1>7. U[i] = NoTable /\ \A j \in Inodes \ {i} : U[j] = T[j]
  BY <1>1 DEF TableChoices
<1> HIDE DEF U
<1>8. \A k \in Keys : Ptr(u, U, i, k) = INVALID
  BY <1>4, <1>6, <1>7, NoPointers DEF Ptr, p
<1>9. \A j \in Inodes \ {i} : \A k : Ptr(u, U, j, k) = Ptr(s, T, j, k)
  BY <1>4, <1>6, <1>7 DEF Ptr
<1>10. Owns(u, U, F)
  <2>1. ASSUME NEW j \in u.inode_bitmap, NEW k \in Keys, Ptr(u, U, j, k) # INVALID
        PROVE  Ptr(u, U, j, k) \in u.data_bitmap \cup F
    <3>1. j \in Inodes \ {i} /\ j \in s.inode_bitmap /\ Ptr(u, U, j, k) = Ptr(s, T, j, k)
      BY <1>1, <1>6, <1>8, <1>9, <2>1
    <3>2. Ptr(s, T, j, k) \in s.data_bitmap \cup E
      BY <2>1, <3>1 DEF Owns
    <3>3. \A l \in Keys : Ptr(s, T, i, l) # Ptr(s, T, j, k)
      BY <2>1, <3>1 DEF Owns
    <3> QED BY <1>6, <3>1, <3>2, <3>3
  <2>2. ASSUME NEW j \in u.inode_bitmap, NEW h \in u.inode_bitmap, NEW k \in Keys, NEW l \in Keys,
               Ptr(u, U, j, k) = Ptr(u, U, h, l), Ptr(u, U, j, k) # INVALID
        PROVE  j = h /\ k = l
    <3>1. j \in Inodes \ {i} /\ h \in Inodes \ {i} /\ j \in s.inode_bitmap /\ h \in s.inode_bitmap
      BY <1>1, <1>6, <1>8, <2>2
    <3>2. Ptr(s, T, j, k) = Ptr(s, T, h, l) /\ Ptr(s, T, j, k) # INVALID
      BY <1>9, <2>2, <3>1
    <3> QED BY <3>1, <3>2 DEF Owns
  <2> QED BY <2>1, <2>2 DEF Owns
<1> QED BY <1>4, <1>6, <1>10 DEF Freed, u, p, U

\* What a function changes: nothing the callers keep, and nothing at all
\* without noting which inode it is about; a disk that can be mounted stays
\* one; and what was changed in memory is written to a disk that works.
Changes(s, t) ==
  /\ SameCaller(s, t) /\ s.touched \subseteq t.touched /\ s.done <= t.done
  /\ Mountable(s.disk) => Mountable(t.disk)
  /\ t.touched = {} => SameTables(s, t) /\ t.disk = s.disk
  /\ s.fault.kind = "none" /\ Synchronous(s) => Synchronous(t)
\* The exceptions after a call.
After(t) == IF t.ok THEN {} ELSE Exc(t)
Sound(s, E) == \E V, T : Good(V, s, T, E)
SameTypes(s, t) ==
  t.inode_bitmap = s.inode_bitmap /\ \A j \in Inodes : t.inode_table[j].type = s.inode_table[j].type

\* A call that is refused.
LEMMA Refuses ==
  ASSUME NEW s, NEW E, Sound(s, E)
  PROVE  Sound(Fail(s), E) /\ Changes(s, Fail(s)) /\ SameTypes(s, Fail(s)) /\ ~Fail(s).ok
<1> DEFINE t == Fail(s)
<1>1. PICK V, T : Good(V, s, T, E)
  BY DEF Sound
<1>2. s \in FsStates(V)
  BY <1>1 DEF Good
<1>3. t \in FsStates(V) /\ SameMemory(s, t) /\ t.disk = s.disk /\ t.done = s.done /\ t.ok = FALSE
  BY <1>2, SetsOk DEF Fail
<1> HIDE DEF t
<1>4. /\ t.inode_table = s.inode_table /\ t.inode_bitmap = s.inode_bitmap /\ t.data_bitmap = s.data_bitmap
      /\ t.fault = s.fault /\ t.touched = s.touched /\ SameCaller(s, t) /\ SameTables(s, t)
  BY <1>3 DEF SameMemory, SameTables, SameScratch, SameCaller
<1>5. Good(V, t, T, E)
  <2>1. Backed(t, T, t.inode_bitmap)
    BY <1>1, <1>3, <1>4 DEF Backed, Good
  <2>2. Owns(t, T, E)
    BY <1>1, <1>4, OwnsSame DEF Good
  <2>3. DiskOwns(t, T)
    BY <1>1, <1>3, <1>4, DiskOwnsMoves DEF Good
  <2> QED BY <1>1, <1>3, <1>4, <2>1, <2>2, <2>3 DEF Good, Rooted
<1>6. Changes(s, t)
  <2>1. s.done <= t.done
    BY <1>2, <1>3, Fields
  <2>2. InfoOf(t) = InfoOf(s)
    BY <1>4 DEF InfoOf
  <2> QED BY <1>3, <1>4, <2>1, <2>2 DEF Changes, Synchronous
<1> QED BY <1>3, <1>4, <1>5, <1>6 DEF Sound, SameTypes, t

\* Exceptions and contents that are not used.
LEMMA SoundWeaker ==
  ASSUME NEW s, NEW E, NEW F, E \subseteq F, Sound(s, E)
  PROVE  Sound(s, F)
<1>1. PICK V, T : Good(V, s, T, E)
  BY DEF Sound
<1>2. Good(V, s, T, F)
  BY <1>1, OwnsWeaker DEF Good
<1> QED BY <1>2 DEF Sound

\* A larger set of contents.
LEMMA MoreContents ==
  ASSUME NEW V, NEW W, V \subseteq W, NEW s \in FsStates(V)
  PROVE  s \in FsStates(W)
<1>1. BlockSet(V) \subseteq BlockSet(W)
  <2>1. [kind : {"cells"}, v : V] \subseteq [kind : {"cells"}, v : W]
    OBVIOUS
  <2> QED BY <2>1 DEF BlockSet
<1>2. [Blocks -> BlockSet(V)] \subseteq [Blocks -> BlockSet(W)]
  BY <1>1
<1>3. Disks(V) \subseteq Disks(W)
  BY <1>2 DEF Disks
<1> QED BY <1>3 DEF FsStates

\* write_inode_data is at work on inode i: what it did to the rest.
Working(s, w, i) ==
  /\ SameCaller(s, w) /\ w.touched = s.touched \cup {i} /\ s.done <= w.done /\ SameTypes(s, w)
  /\ w.disk.boot = s.disk.boot /\ w.disk.info = s.disk.info /\ w.disk.inode_table = s.disk.inode_table

\* The file with its old blocks freed.
Prepared(s, i) == [free_inode_blocks(s, i) EXCEPT !.table = NoTable, !.touched = @ \cup {i}]
Begun(V, s, b, T, i) ==
  /\ b \in FsStates(V) /\ Working(s, b, i) /\ b.table = NoTable
  /\ b.inode_table[i] = NewInode(s.inode_table[i].type)
  /\ b.disk = s.disk /\ \A j \in Inodes \ {i} : b.inode_table[j] = s.inode_table[j]
  /\ Owns(b, With(b, T, i), {}) /\ Backed(b, T, b.inode_bitmap \ {i}) /\ DiskOwns(b, T)

\* The old blocks are freed.
LEMMA Prepares ==
  ASSUME NEW V, NEW s, NEW T, Good(V, s, T, {}), NEW i \in s.inode_bitmap
  PROVE  Begun(V, s, Prepared(s, i), T, i)
<1> DEFINE f == free_inode_blocks(s, i)
           b == Prepared(s, i)
           tt == f.touched \cup {i}
<1>1. s \in FsStates(V) /\ T \in TableChoices /\ Backed(s, T, s.inode_bitmap) /\ Owns(s, T, {}) /\ DiskOwns(s, T)
  BY DEF Good
<1>2. i \in Inodes /\ s.inode_bitmap \subseteq Inodes
  BY <1>1, Fields
<1>3. \A c \in BlocksOf(s, s.inode_table[i]) : \E k \in Keys : Ptr(s, T, i, k) = c
  <2>1. Backed(s, T, {i})
    BY <1>1 DEF Backed
  <2> QED BY <1>1, <1>2, <2>1, FreedWhenBacked
<1>4. Freed(V, s, f, T, i, {})
  BY <1>1, <1>3, FreesBlocks
<1> HIDE DEF f
<1>5. /\ f \in FsStates(V) /\ SameCaller(s, f) /\ SameScratch(s, f) /\ f.inode_bitmap = s.inode_bitmap
      /\ f.disk = s.disk /\ f.done = s.done
      /\ f.inode_table[i] = NewInode(s.inode_table[i].type)
      /\ \A j \in Inodes \ {i} : f.inode_table[j] = s.inode_table[j]
      /\ Owns(f, [T EXCEPT ![i] = NoTable], {})
  BY <1>4 DEF Freed
<1>6. f.touched = s.touched /\ tt \subseteq Inodes
  BY <1>2, <1>5, Fields DEF SameScratch
<1>7. b = [f EXCEPT !.table = NoTable, !.touched = tt]
  BY DEF Prepared, f
<1> HIDE DEF b, tt
<1>8. /\ b \in FsStates(V) /\ SameCaller(f, b) /\ b.inode_bitmap = f.inode_bitmap /\ b.inode_table = f.inode_table
      /\ b.data_bitmap = f.data_bitmap /\ b.disk = f.disk /\ b.done = f.done /\ b.table = NoTable /\ b.touched = tt
  <2> HIDE DEF NoTable
  <2> QED BY <1>5, <1>6, <1>7, NoPointers DEF FsStates, SameCaller
<1>9. SameCaller(s, b) /\ b.touched = s.touched \cup {i}
  BY <1>5, <1>6, <1>8 DEF SameCaller, tt
<1>10. NewInode(s.inode_table[i].type).type = s.inode_table[i].type
  BY DEF NewInode
<1>11. SameTypes(s, b)
  BY <1>5, <1>8, <1>10 DEF SameTypes
<1>12. s.done <= b.done
  BY <1>1, <1>5, <1>8, Fields
<1>13. Owns(b, With(b, T, i), {})
  <2>1. With(b, T, i) = [T EXCEPT ![i] = NoTable]
    BY <1>8 DEF With
  <2> QED BY <1>5, <1>8, <2>1, OwnsSame
<1>14. Backed(b, T, b.inode_bitmap \ {i})
  BY <1>1, <1>2, <1>5, <1>8 DEF Backed
<1>15. DiskOwns(b, T)
  <2>1. b.fault = s.fault
    BY <1>9 DEF SameCaller
  <2> QED BY <1>1, <1>5, <1>8, <1>9, <2>1, DiskOwnsMoves
<1> QED BY <1>5, <1>8, <1>9, <1>11, <1>12, <1>13, <1>14, <1>15 DEF Begun, Working, b

\* The blocks are written.
LEMMA WorksOn ==
  ASSUME NEW V, NEW s, NEW b, NEW w, NEW T \in TableChoices, NEW i \in s.inode_bitmap, Begun(V, s, b, T, i),
         NEW C, NEW N, Wrote(V, b, w, T, i, C, N), s \in FsStates(V)
  PROVE  /\ Working(s, w, i) /\ w \in FsStates(V) /\ i \in w.inode_bitmap /\ i \in w.touched
         /\ Owns(w, With(w, T, i), {}) /\ Backed(w, With(w, T, i), w.inode_bitmap \ {i}) /\ DiskOwns(w, With(w, T, i))
         /\ w.ok => Backed(w, With(w, T, i), w.inode_bitmap)
         /\ ~w.ok => Messy(w, i)
         /\ Indirect(w, i) = INVALID => w.table = NoTable
<1>1. /\ b \in FsStates(V) /\ Working(s, b, i) /\ Backed(b, T, b.inode_bitmap \ {i}) /\ DiskOwns(b, T)
      /\ i \in b.touched
  BY DEF Begun, Working
<1>2. /\ w \in FsStates(V) /\ Building(V, b, w, T, i) /\ i \in w.inode_bitmap
      /\ w.ok => (Indirect(w, i) # INVALID => w.disk.blocks[Indirect(w, i)] = TableBlock(w.table))
      /\ ~w.ok => Messy(w, i)
  BY DEF Wrote
<1>3. /\ Elsewhere(b, w, T, i) /\ Owns(w, With(w, T, i), {})
      /\ Indirect(w, i) = INVALID => w.table = NoTable
  BY <1>2 DEF Building, Indirect
<1>4. w.table \in IndirectTables /\ i \in Inodes
  BY <1>2, Fields
<1>5. Backed(w, With(w, T, i), w.inode_bitmap \ {i}) /\ DiskOwns(w, With(w, T, i))
  BY <1>1, <1>2, <1>3, <1>4, ElsewhereKeeps DEF With
<1>6. ASSUME w.ok PROVE Backed(w, With(w, T, i), w.inode_bitmap)
  <2>1. With(w, T, i)[i] = w.table
    BY <1>4 DEF With, TableChoices
  <2>2. IF Indirect(w, i) = INVALID THEN With(w, T, i)[i] = NoTable
        ELSE w.disk.blocks[Indirect(w, i)] = TableBlock(With(w, T, i)[i])
    BY <1>2, <1>3, <1>6, <2>1
  <2> HIDE DEF TableBlock
  <2> QED BY <1>5, <2>2 DEF Backed, Indirect
<1>7. Working(s, w, i)
  <2>1. SameCaller(s, w)
    BY <1>1, <1>3 DEF Working, Elsewhere, SameCaller
  <2>2. s.done <= w.done
    BY <1>1, <1>2, <1>3, Fields DEF Working, Elsewhere
  <2>3. SameTypes(s, w)
    BY <1>1, <1>3 DEF Working, SameTypes, Elsewhere
  <2> QED BY <1>1, <1>3, <2>1, <2>2, <2>3 DEF Working, Elsewhere
<1> QED BY <1>2, <1>3, <1>5, <1>6, <1>7 DEF Working

\* The file with its new size.
Sized(w, i, n) == [w EXCEPT !.inode_table[i].size = n]

\* The size is entered.
LEMMA EntersSize ==
  ASSUME NEW V, NEW w \in FsStates(V), NEW i \in w.inode_bitmap, NEW n \in Nat, n <= LargestOf(w.inode_table[i]),
         NEW T \in TableChoices, Owns(w, T, {}), Backed(w, T, w.inode_bitmap), DiskOwns(w, T), i \in w.touched, Rooted(w)
  PROVE  /\ Good(V, Sized(w, i, n), T, {}) /\ SameCaller(w, Sized(w, i, n)) /\ SameScratch(w, Sized(w, i, n))
         /\ SameTypes(w, Sized(w, i, n)) /\ Sized(w, i, n).disk = w.disk /\ Sized(w, i, n).done = w.done
<1> DEFINE q == w.inode_table[i]
           p == [q EXCEPT !.size = n]
           tab == [w.inode_table EXCEPT ![i] = p]
           x == Sized(w, i, n)
<1>1. i \in Inodes /\ w.inode_table \in InodeTables /\ q \in InodeSet /\ w.inode_bitmap \subseteq Inodes
  BY Fields DEF InodeTables
<1>2. x = [w EXCEPT !.inode_table = tab]
  BY DEF Sized
<1> HIDE DEF q
<1>3. /\ p \in [type : {"free", "regular", "directory"}, size : Nat,
                direct_blocks : DirectTables, indirect_block : Pointer]
      /\ p.type = q.type /\ p.size = n /\ p.indirect_block = q.indirect_block /\ p.direct_blocks = q.direct_blocks
  BY <1>1, InodeFields
<1> HIDE DEF p
<1>4. p \in InodeSet
  <2>1. p.size <= LargestOf(p)
    BY <1>1, <1>3, InodeFields DEF LargestOf, q
  <2> QED BY <1>3, <2>1 DEF InodeSet
<1>5. tab \in InodeTables /\ tab[i] = p /\ \A j \in Inodes \ {i} : tab[j] = w.inode_table[j]
  BY <1>1, <1>4 DEF InodeTables
<1> HIDE DEF x, tab
<1>6. /\ x \in FsStates(V) /\ SameCaller(w, x) /\ SameScratch(w, x) /\ x.inode_bitmap = w.inode_bitmap
      /\ x.inode_table = tab /\ x.data_bitmap = w.data_bitmap /\ x.disk = w.disk /\ x.done = w.done
  BY <1>2, <1>5, SetsInodes
<1>7. SameTypes(w, x)
  BY <1>3, <1>5, <1>6 DEF SameTypes, q
<1>8. \A j \in w.inode_bitmap, k \in Keys : Ptr(x, T, j, k) = Ptr(w, T, j, k)
  <2>1. \A k : PointerOf(p, T[i], k) = PointerOf(q, T[i], k)
    BY <1>3 DEF PointerOf
  <2> QED BY <1>1, <1>5, <1>6, <2>1 DEF Ptr, q
<1>9. Owns(x, T, {})
  BY <1>6, <1>8 DEF Owns
<1>10. Backed(x, T, x.inode_bitmap)
  <2>1. \A j \in w.inode_bitmap : x.inode_table[j].indirect_block = w.inode_table[j].indirect_block
    BY <1>1, <1>3, <1>5, <1>6 DEF q
  <2> QED BY <1>6, <2>1 DEF Backed
<1>11. DiskOwns(x, T)
  <2>1. x.fault = w.fault /\ x.touched = w.touched
    BY <1>6 DEF SameCaller, SameScratch
  <2> QED BY <1>5, <1>6, <2>1, DiskOwnsMoves
<1>12. Rooted(x)
  BY <1>7, FsSizes DEF Rooted, SameTypes
<1> QED BY <1>6, <1>7, <1>9, <1>10, <1>11, <1>12 DEF Good, x

\* What write_inode_data does.
Finished(s, t) == Sound(t, After(t)) /\ Changes(s, t) /\ SameTypes(s, t)

\* Everything that was written reaches the metadata on the disk.
LEMMA Finishes ==
  ASSUME NEW V, NEW s \in FsStates(V), NEW i, NEW w \in FsStates(V), Working(s, w, i),
         NEW x, NEW T, NEW E, Good(V, x, T, E), E \subseteq Exc(x),
         SameCaller(w, x), SameScratch(w, x), SameTypes(w, x), x.disk = w.disk, x.done = w.done,
         NEW t \in FsStates(V), MetaWritten(x, t), s.fault.kind = "none" => Synchronous(t)
  PROVE  Changes(s, t) /\ SameTypes(s, t) /\ Good(V, t, T, E) /\ E \subseteq Exc(t)
<1>1. Good(V, t, T, E) /\ E \subseteq Exc(t) /\ (Mountable(x.disk) => Mountable(t.disk)) /\ x \in FsStates(V)
  <2>1. x \in FsStates(V)
    BY DEF Good
  <2> QED BY <2>1, GoodMeta
<1>2. SameMemory(x, t) /\ x.done <= t.done
  BY DEF MetaWritten
<1>3. SameCaller(s, t) /\ t.touched = s.touched \cup {i}
  BY <1>2 DEF Working, SameMemory, SameCaller, SameScratch
<1>4. SameTypes(s, t)
  BY <1>2 DEF Working, SameMemory, SameTables, SameTypes
<1>5. s.done <= t.done
  BY <1>1, <1>2, Fields DEF Working
<1>6. Mountable(s.disk) => Mountable(x.disk)
  BY DEF Mountable, Working
<1> QED BY <1>1, <1>3, <1>4, <1>5, <1>6 DEF Changes

\* The types of a state.
LEMMA SoundFields ==
  ASSUME NEW s, NEW E, Sound(s, E)
  PROVE  /\ s.inode_bitmap \subseteq Inodes /\ s.data_bitmap \subseteq Blocks /\ s.inode_table \in InodeTables
         /\ s.done \in Nat /\ s.ok \in BOOLEAN /\ s.fault \in Faults /\ s.touched \subseteq Inodes
         /\ s.open_files \in OpenTables /\ s.current_directory \in Inodes /\ s.fs_mounted \in BOOLEAN
         /\ Rooted(s)
<1>1. PICK V, T : Good(V, s, T, E)
  BY DEF Sound
<1> QED BY <1>1, Fields DEF Good

\* Two functions, one after the other.
LEMMA ChangesTransitive ==
  ASSUME NEW r, NEW s, NEW t, r.done \in Nat, s.done \in Nat, t.done \in Nat, Changes(r, s), Changes(s, t)
  PROVE  Changes(r, t)
<1>1. SameCaller(r, t)
  BY DEF Changes, SameCaller
<1>2. r.touched \subseteq t.touched /\ (t.touched = {} => s.touched = {})
  BY DEF Changes
<1>3. t.touched = {} => SameTables(r, t) /\ t.disk = r.disk
  BY <1>2 DEF Changes, SameTables
<1>4. s.fault = r.fault
  BY DEF Changes, SameCaller
<1> QED BY <1>1, <1>2, <1>3, <1>4 DEF Changes

\* A failure is reported.
LEMMA FailsFinished ==
  ASSUME NEW v, Sound(v, Exc(v))
  PROVE  Finished(v, Fail(v)) /\ ~Fail(v).ok
<1> DEFINE t == Fail(v)
<1>1. Sound(t, Exc(v)) /\ Changes(v, t) /\ SameTypes(v, t) /\ ~t.ok
  BY Refuses
<1>2. PICK V, T : Good(V, v, T, Exc(v))
  BY DEF Sound
<1>3. v \in FsStates(V)
  BY <1>2 DEF Good
<1>4. t \in FsStates(V) /\ SameMemory(v, t) /\ t.disk = v.disk /\ t.done = v.done
  BY <1>3, SetsOk DEF Fail
<1> HIDE DEF t
<1>5. Exc(v) \subseteq Exc(t)
  <2>1. t.fault = v.fault
    BY <1>4 DEF SameMemory, SameCaller
  <2>2. v.done <= t.done
    BY <1>3, <1>4, Fields
  <2> QED BY <1>3, <1>4, <2>1, <2>2, ExcGrows
<1>6. Sound(t, After(t))
  BY <1>1, <1>5, SoundWeaker DEF After
<1> QED BY <1>1, <1>6 DEF Finished, t

\* write_inode_data.
LEMMA WritesInode ==
  ASSUME NEW s, Sound(s, {}), NEW i, NEW data, Len(data) \in Nat
  PROVE  Finished(s, write_inode_data(s, i, data))
<1> DEFINE t == write_inode_data(s, i, data)
<1>1. PICK V0, T : Good(V0, s, T, {})
  BY DEF Sound
<1>2. CASE i \notin s.inode_bitmap \/ Len(data) > LargestOf(s.inode_table[i])
  <2>1. t = Fail(s)
    BY <1>2 DEF write_inode_data
  <2>2. Sound(Fail(s), {}) /\ Changes(s, Fail(s)) /\ SameTypes(s, Fail(s))
    BY Refuses
  <2>3. Sound(Fail(s), After(Fail(s)))
    BY <2>2, SoundWeaker
  <2> QED BY <2>1, <2>2, <2>3 DEF Finished
<1>3. CASE ~(i \notin s.inode_bitmap \/ Len(data) > LargestOf(s.inode_table[i]))
  <2> DEFINE z == SectorOf(s.inode_table[i])
             N == Required(data, z)
             C == [m \in 0 .. N - 1 |-> CellsOf(data, z, m)]
             V == V0 \cup {C[m] : m \in 0 .. N - 1}
             b == Prepared(s, i)
             w == write_blocks(b, i, data)
             x == Sized(w, i, Len(data))
             u == free_inode_blocks(w, i)
             v == write_inode_table(write_info_block(u))
             W == With(w, T, i)
             g == Fail(v)
  <2>1. t = IF (IF w.ok THEN w ELSE g).ok
            THEN write_metadata(Sized(IF w.ok THEN w ELSE g, i, Len(data))) ELSE (IF w.ok THEN w ELSE g)
    BY <1>3 DEF write_inode_data, Then, OnFailure, Prepared, Sized
  <2>2. i \in s.inode_bitmap /\ Len(data) <= LargestOf(s.inode_table[i]) /\ s.inode_table[i] \in InodeSet
        /\ T \in TableChoices /\ s \in FsStates(V0) /\ Rooted(s) /\ i \in Inodes
    <3>1. s \in FsStates(V0) /\ T \in TableChoices /\ Rooted(s)
      BY <1>1 DEF Good
    <3>2. i \in s.inode_bitmap /\ i \in Inodes
      BY <1>3, <3>1, Fields
    <3>3. s.inode_table[i] \in InodeSet
      BY <3>1, <3>2, Fields DEF InodeTables
    <3>4. LargestOf(s.inode_table[i]) \in Nat
      BY NoPointers DEF LargestOf
    <3> QED BY <1>3, <3>1, <3>2, <3>3, <3>4
  <2>3. s \in FsStates(V) /\ Good(V, s, T, {})
    BY <1>1, <2>2, MoreContents DEF Good
  <2>4. \A m \in 0 .. N - 1 : C[m] \in V /\ C[m] = CellsOf(data, z, m)
    OBVIOUS
  <2> HIDE DEF C, V
  <2>5. Begun(V, s, b, T, i)
    BY <2>2, <2>3, Prepares
  <2> HIDE DEF b
  <2>6. b \in FsStates(V) /\ Owns(b, With(b, T, i), {}) /\ b.table = NoTable /\ i \in b.inode_bitmap
        /\ b.inode_table[i] = NewInode(s.inode_table[i].type)
    BY <2>2, <2>5 DEF Begun, Working, SameTypes
  <2>7. Indirect(b, i) = INVALID /\ LargestOf(b.inode_table[i]) = LargestOf(s.inode_table[i])
        /\ z = SectorOf(b.inode_table[i])
    BY <2>6 DEF Indirect, NewInode, LargestOf, SectorOf
  <2> HIDE DEF z
  <2>8. N = Required(data, z)
    OBVIOUS
  <2> HIDE DEF N
  <2>9. Wrote(V, b, w, T, i, C, N)
    BY <2>2, <2>4, <2>6, <2>7, <2>8, WritesFile
  <2> HIDE DEF w
  <2>10. /\ Working(s, w, i) /\ w \in FsStates(V) /\ i \in w.inode_bitmap /\ i \in w.touched
         /\ Owns(w, W, {}) /\ Backed(w, W, w.inode_bitmap \ {i}) /\ DiskOwns(w, W)
         /\ w.ok => Backed(w, W, w.inode_bitmap)
         /\ ~w.ok => Messy(w, i)
         /\ Indirect(w, i) = INVALID => w.table = NoTable
    BY <2>2, <2>3, <2>5, <2>9, WorksOn
  <2>11. W \in TableChoices /\ SameTypes(s, w) /\ w.fault = s.fault
    BY <2>2, <2>10, OwnPointers DEF Working, SameCaller
  <2>12. Rooted(w) /\ LargestOf(w.inode_table[i]) = LargestOf(s.inode_table[i])
    BY <2>2, <2>11, FsSizes DEF Rooted, SameTypes, LargestOf
  <2> HIDE DEF W
  <2>13. CASE w.ok
    <3>1. t = write_metadata(x)
      BY <2>1, <2>13
    <3>2. /\ Good(V, x, W, {}) /\ SameCaller(w, x) /\ SameScratch(w, x) /\ SameTypes(w, x)
          /\ x.disk = w.disk /\ x.done = w.done
      BY <2>2, <2>10, <2>11, <2>12, <2>13, EntersSize
    <3> HIDE DEF x, t
    <3>3. x \in FsStates(V) /\ x.fault = s.fault
      BY <2>11, <3>2 DEF Good, SameCaller
    <3>4. /\ t \in FsStates(V) /\ MetaWritten(x, t)
          /\ t.ok => Synchronous(t)
          /\ x.fault.kind = "none" => t.ok
      BY <3>1, <3>3, WritesMetadata
    <3>5. Changes(s, t) /\ SameTypes(s, t) /\ Good(V, t, W, {})
      BY <2>3, <2>10, <3>2, <3>3, <3>4, Finishes
    <3>6. Sound(t, After(t))
      <4>1. Sound(t, {})
        BY <3>5 DEF Sound
      <4> QED BY <4>1, SoundWeaker
    <3> QED BY <3>5, <3>6 DEF Finished, t
  <2>14. CASE ~w.ok
    <3> DEFINE U == [W EXCEPT ![i] = NoTable]
    <3>1. \A c \in BlocksOf(w, w.inode_table[i]) : c \in Exc(w) \/ \E k \in Keys : Ptr(w, W, i, k) = c
      BY <2>2, <2>10, <2>14, FreedWhenMessy DEF W
    <3>2. Freed(V, w, u, W, i, Exc(w))
      BY <2>10, <2>11, <3>1, FreesBlocks
    <3> HIDE DEF u
    <3>3. /\ u \in FsStates(V) /\ SameCaller(w, u) /\ SameScratch(w, u) /\ u.inode_bitmap = w.inode_bitmap
          /\ u.disk = w.disk /\ u.done = w.done
          /\ u.inode_table[i] = NewInode(w.inode_table[i].type)
          /\ \A j \in Inodes \ {i} : u.inode_table[j] = w.inode_table[j]
          /\ Owns(u, U, Exc(w))
      BY <3>2 DEF Freed
    <3>4. u.fault = w.fault /\ u.touched = w.touched
      BY <3>3 DEF SameCaller, SameScratch
    <3>5. U \in TableChoices /\ U[i] = NoTable /\ \A j \in Inodes \ {i} : U[j] = W[j]
      BY <2>2, <2>11, NoPointers DEF TableChoices
    <3> HIDE DEF U
    <3>6. SameTypes(w, u)
      <4>1. NewInode(w.inode_table[i].type).type = w.inode_table[i].type
        BY DEF NewInode
      <4> QED BY <3>3, <4>1 DEF SameTypes
    <3>7. Good(V, u, U, Exc(w))
      <4>1. Backed(u, U, u.inode_bitmap)
        <5>1. u.inode_table[i].indirect_block = INVALID
          BY <3>3 DEF NewInode
        <5>2. w.inode_bitmap \subseteq Inodes
          BY <2>10, Fields
        <5> QED BY <2>10, <3>3, <3>5, <5>1, <5>2 DEF Backed
      <4>2. DiskOwns(u, U)
        BY <2>10, <3>3, <3>4, <3>5, DiskOwnsMoves
      <4>3. Rooted(u)
        BY <2>12, <3>6, FsSizes DEF Rooted, SameTypes
      <4> QED BY <3>3, <3>5, <4>1, <4>2, <4>3 DEF Good
    <3>8. Exc(w) \subseteq Exc(u)
      <4>1. w.done <= u.done
        BY <2>10, <3>3, Fields
      <4> QED BY <2>10, <3>3, <3>4, <4>1, ExcGrows
    <3>9. v \in FsStates(V) /\ MetaWritten(u, v) /\ (u.fault.kind = "none" => Synchronous(v))
      BY <3>3, WritesBoth
    <3> HIDE DEF v
    <3>10. Changes(s, v) /\ SameTypes(s, v) /\ Good(V, v, U, Exc(w)) /\ Exc(w) \subseteq Exc(v)
      BY <2>3, <2>10, <2>11, <3>3, <3>4, <3>6, <3>7, <3>8, <3>9, Finishes
    <3>11. Sound(v, Exc(w))
      BY <3>10 DEF Sound
    <3>12. Sound(v, Exc(v)) /\ Sound(s, {})
      BY <3>10, <3>11, SoundWeaker
    <3>13. Finished(v, g) /\ ~g.ok
      BY <3>12, FailsFinished
    <3> HIDE DEF g, t
    <3>14. t = g
      BY <2>1, <2>14, <3>13
    <3>15. Sound(g, After(g)) /\ Changes(v, g) /\ SameTypes(v, g)
      BY <3>13 DEF Finished
    <3>16. Changes(s, g)
      <4>1. s.done \in Nat /\ v.done \in Nat /\ g.done \in Nat
        BY <3>12, <3>15, SoundFields
      <4> QED BY <3>10, <3>15, <4>1, ChangesTransitive
    <3>17. SameTypes(s, g)
      BY <3>10, <3>15 DEF SameTypes
    <3> QED BY <3>14, <3>15, <3>16, <3>17 DEF Finished, t
  <2> QED BY <2>13, <2>14
<1> QED BY <1>2, <1>3

-----------------------------------------------------------------------------
(* Inodes are allocated and released.                                      *)

\* The inodes of s other than those of D are what they were.
KeepsTypes(s, t, D) ==
  \A j \in s.inode_bitmap \ D : j \in t.inode_bitmap /\ t.inode_table[j].type = s.inode_table[j].type

\* An inode without blocks is added or removed.
LEMMA InodeReplaced ==
  ASSUME NEW V, NEW f \in FsStates(V), NEW t \in FsStates(V), NEW T \in TableChoices, NEW i \in Inodes, NEW E, NEW type,
         Owns(f, T, E), Backed(f, T, f.inode_bitmap \ {i}),
         t.inode_table[i] = NewInode(type), \A j \in Inodes \ {i} : t.inode_table[j] = f.inode_table[j],
         t.inode_bitmap \in {f.inode_bitmap \cup {i}, f.inode_bitmap \ {i}}, t.data_bitmap = f.data_bitmap, t.disk = f.disk
  PROVE  /\ Owns(t, [T EXCEPT ![i] = NoTable], E) /\ Backed(t, [T EXCEPT ![i] = NoTable], t.inode_bitmap)
         /\ [T EXCEPT ![i] = NoTable] \in TableChoices
<1> DEFINE U == [T EXCEPT ![i] = NoTable]
<1>1. U \in TableChoices /\ U[i] = NoTable /\ \A j \in Inodes \ {i} : U[j] = T[j]
  BY NoPointers DEF TableChoices
<1> HIDE DEF U
<1>2. t.inode_bitmap \subseteq Inodes /\ f.inode_bitmap \subseteq Inodes
      /\ \A j \in t.inode_bitmap : j # i => j \in f.inode_bitmap /\ j \in Inodes \ {i}
  BY Fields
<1>3. \A k \in Keys : Ptr(t, U, i, k) = INVALID
  BY <1>1, NoPointers DEF Ptr
<1>4. \A j \in Inodes \ {i}, k \in Keys : Ptr(t, U, j, k) = Ptr(f, T, j, k)
  BY <1>1 DEF Ptr
<1>5. Owns(t, U, E)
  <2>1. ASSUME NEW j \in t.inode_bitmap, NEW k \in Keys, Ptr(t, U, j, k) # INVALID
        PROVE  Ptr(t, U, j, k) \in t.data_bitmap \cup E
    BY <1>2, <1>3, <1>4, <2>1 DEF Owns
  <2>2. ASSUME NEW j \in t.inode_bitmap, NEW h \in t.inode_bitmap, NEW k \in Keys, NEW l \in Keys,
               Ptr(t, U, j, k) = Ptr(t, U, h, l), Ptr(t, U, j, k) # INVALID
        PROVE  j = h /\ k = l
    <3>1. j # i /\ h # i
      BY <1>3, <2>2
    <3>2. Ptr(f, T, j, k) = Ptr(f, T, h, l) /\ Ptr(f, T, j, k) # INVALID /\ j \in f.inode_bitmap /\ h \in f.inode_bitmap
      BY <1>2, <1>4, <2>2, <3>1
    <3> QED BY <3>2 DEF Owns
  <2> QED BY <2>1, <2>2 DEF Owns
<1>6. Backed(t, U, t.inode_bitmap)
  <2>1. t.inode_table[i].indirect_block = INVALID
    BY DEF NewInode
  <2> QED BY <1>1, <1>2, <2>1 DEF Backed
<1> QED BY <1>1, <1>5, <1>6 DEF U

\* What allocate_inode does, and its two changes of the tables.
Allocated(s, t, type) ==
  /\ Sound(t, After(t)) /\ Changes(s, t) /\ KeepsTypes(s, t, {})
  /\ t.ok => /\ t.inode \in Inodes \ s.inode_bitmap /\ t.inode \in t.inode_bitmap
             /\ t.inode_table[t.inode].type = type
Claimed(s, i, type) ==
  [s EXCEPT !.inode_bitmap = @ \cup {i}, !.inode_table[i] = NewInode(type), !.touched = @ \cup {i}, !.inode = i]
Unclaimed(m, i) == [m EXCEPT !.inode_bitmap = @ \ {i}, !.inode_table[i] = NewInode("free")]

\* allocate_inode.
LEMMA AllocatesInode ==
  ASSUME NEW s, Sound(s, {}), NEW type \in {"regular", "directory"}
  PROVE  Allocated(s, allocate_inode(s, type), type)
<1> DEFINE t == allocate_inode(s, type)
<1>1. PICK V, T : Good(V, s, T, {})
  BY DEF Sound
<1>2. s \in FsStates(V) /\ T \in TableChoices /\ Backed(s, T, s.inode_bitmap) /\ Owns(s, T, {})
      /\ DiskOwns(s, T) /\ Rooted(s) /\ s.inode_bitmap \subseteq Inodes
  BY <1>1, Fields DEF Good
<1>3. CASE Inodes \subseteq s.inode_bitmap
  <2>1. t = Fail(s)
    BY <1>3 DEF allocate_inode
  <2> HIDE DEF t
  <2>2. Sound(t, {}) /\ Changes(s, t) /\ SameTypes(s, t) /\ ~t.ok
    BY <2>1, Refuses
  <2>3. Sound(t, After(t))
    BY <2>2, SoundWeaker
  <2>4. KeepsTypes(s, t, {})
    BY <1>2, <2>2 DEF SameTypes, KeepsTypes
  <2> QED BY <2>2, <2>3, <2>4 DEF Allocated, t
<1>4. CASE ~(Inodes \subseteq s.inode_bitmap)
  <2> DEFINE i == Min(Inodes \ s.inode_bitmap)
             a == Claimed(s, i, type)
             m == write_metadata(a)
             x == Unclaimed(m, i)
             U == [T EXCEPT ![i] = NoTable]
             p == NewInode(type)
             bm == s.inode_bitmap \cup {i}
             tab == [s.inode_table EXCEPT ![i] = p]
             tt == s.touched \cup {i}
  <2>1. t = IF m.ok THEN m ELSE x
    BY <1>4 DEF allocate_inode, OnFailure, Claimed, Unclaimed
  <2>2. i \in Inodes \ s.inode_bitmap
    BY <1>4, FirstFit, FsSizes
  <2>3. a = [s EXCEPT !.inode_bitmap = bm, !.inode_table = tab, !.touched = tt, !.inode = i]
    BY DEF Claimed
  <2> HIDE DEF i, p
  <2>4. p \in InodeSet /\ p.type = type
    BY NoPointers DEF p, NewInode
  <2>5. bm \subseteq Inodes /\ tt \subseteq Inodes /\ tab \in InodeTables /\ tab[i] = p
        /\ \A j \in Inodes \ {i} : tab[j] = s.inode_table[j]
    BY <1>2, <2>2, <2>4, Fields DEF InodeTables
  <2>6. i # SIMPLEFS_ROOT_INODE
    BY <1>2, <2>2 DEF Rooted
  <2> HIDE DEF a, bm, tab, tt
  <2>7. /\ a \in FsStates(V) /\ SameCaller(s, a) /\ a.inode_bitmap = bm /\ a.inode_table = tab
        /\ a.data_bitmap = s.data_bitmap /\ a.disk = s.disk /\ a.done = s.done /\ a.touched = tt /\ a.inode = i
    BY <1>2, <2>2, <2>3, <2>5 DEF FsStates, SameCaller
  <2>8. Owns(a, U, {}) /\ Backed(a, U, a.inode_bitmap) /\ U \in TableChoices
    <3>1. a.inode_table[i] = NewInode(type) /\ \A j \in Inodes \ {i} : a.inode_table[j] = s.inode_table[j]
      BY <2>5, <2>7 DEF p
    <3>2. Backed(s, T, s.inode_bitmap \ {i})
      BY <1>2 DEF Backed
    <3> QED BY <1>2, <2>2, <2>7, <3>1, <3>2, InodeReplaced DEF bm
  <2>9. \A j \in Inodes \ {i} : U[j] = T[j]
    BY <1>2 DEF TableChoices
  <2> HIDE DEF U
  <2>10. Good(V, a, U, {})
    <3>1. DiskOwns(a, U)
      <4>1. a.fault = s.fault
        BY <2>7 DEF SameCaller
      <4> QED BY <1>2, <2>5, <2>7, <2>9, <4>1, DiskOwnsMoves DEF bm, tt
    <3>2. Rooted(a)
      BY <1>2, <2>5, <2>6, <2>7, FsSizes DEF Rooted, bm
    <3> QED BY <2>7, <2>8, <3>1, <3>2 DEF Good
  <2>11. m \in FsStates(V) /\ MetaWritten(a, m) /\ (m.ok => Synchronous(m)) /\ (a.fault.kind = "none" => m.ok)
    BY <2>7, WritesMetadata
  <2> HIDE DEF m
  <2>12. Good(V, m, U, {}) /\ (Mountable(a.disk) => Mountable(m.disk))
    BY <2>10, <2>11, GoodMeta
  <2>13. /\ m.inode_bitmap = bm /\ m.inode_table = tab /\ m.touched = tt /\ m.inode = i /\ SameCaller(s, m)
         /\ s.done <= m.done /\ m.fault = s.fault /\ a.fault = s.fault /\ m.data_bitmap = s.data_bitmap
    BY <2>7, <2>11 DEF MetaWritten, SameMemory, SameTables, SameScratch, SameCaller
  <2>14. CASE m.ok
    <3>1. Changes(s, m)
      BY <2>7, <2>11, <2>12, <2>13, <2>14 DEF Changes, tt
    <3>2. KeepsTypes(s, m, {})
      BY <1>2, <2>2, <2>5, <2>13 DEF KeepsTypes, bm
    <3>3. m.inode \in Inodes \ s.inode_bitmap /\ m.inode \in m.inode_bitmap /\ m.inode_table[m.inode].type = type
      BY <2>2, <2>4, <2>5, <2>13 DEF bm
    <3>4. Sound(m, {})
      BY <2>12 DEF Sound
    <3>5. Sound(m, After(m))
      BY <3>4, SoundWeaker
    <3> QED BY <2>1, <2>14, <3>1, <3>2, <3>3, <3>5 DEF Allocated
  <2>15. CASE ~m.ok
    <3> DEFINE q == NewInode("free")
               cm == m.inode_bitmap \ {i}
               tac == [m.inode_table EXCEPT ![i] = q]
               W == [U EXCEPT ![i] = NoTable]
    <3>1. x = [m EXCEPT !.inode_bitmap = cm, !.inode_table = tac]
      BY DEF Unclaimed
    <3> HIDE DEF q
    <3>2. cm \subseteq Inodes /\ q \in InodeSet
      BY <2>11, Fields, NoPointers DEF q
    <3>3. tac \in InodeTables /\ tac[i] = q /\ \A j \in Inodes \ {i} : tac[j] = m.inode_table[j]
      BY <2>2, <2>11, <3>2, Fields DEF InodeTables
    <3> HIDE DEF x, cm, tac
    <3>4. /\ x \in FsStates(V) /\ SameCaller(m, x) /\ SameScratch(m, x) /\ x.inode_bitmap = cm /\ x.inode_table = tac
          /\ x.data_bitmap = m.data_bitmap /\ x.disk = m.disk /\ x.done = m.done /\ x.ok = m.ok
      BY <2>11, <3>1, <3>2, <3>3 DEF FsStates, SameCaller, SameScratch
    <3>5. Owns(x, W, {}) /\ Backed(x, W, x.inode_bitmap) /\ W \in TableChoices
      <4>1. x.inode_table[i] = NewInode("free") /\ \A j \in Inodes \ {i} : x.inode_table[j] = m.inode_table[j]
        BY <3>3, <3>4 DEF q
      <4>2. Backed(m, U, m.inode_bitmap \ {i}) /\ Owns(m, U, {})
        BY <2>12 DEF Backed, Good
      <4> QED BY <2>2, <2>8, <2>11, <3>4, <4>1, <4>2, InodeReplaced DEF cm
    <3>6. \A j \in Inodes \ {i} : W[j] = U[j]
      BY <2>8 DEF TableChoices
    <3> HIDE DEF W
    <3>7. DiskOwns(x, W)
      <4>1. x.fault = m.fault /\ x.touched = m.touched
        BY <3>4 DEF SameCaller, SameScratch
      <4> QED BY <2>12, <2>13, <3>3, <3>4, <3>6, <4>1, DiskOwnsMoves DEF Good, cm, tt
    <3>8. Rooted(x)
      BY <2>6, <2>12, <3>3, <3>4, FsSizes DEF Rooted, Good, cm
    <3>9. Sound(x, {})
      BY <3>4, <3>5, <3>7, <3>8 DEF Good, Sound
    <3>10. Sound(x, After(x))
      BY <3>9, SoundWeaker
    <3>11. SameCaller(s, x) /\ s.done <= x.done /\ x.touched = tt
      BY <2>13, <3>4 DEF SameCaller, SameScratch
    <3>12. Changes(s, x)
      BY <2>7, <2>11, <2>12, <2>13, <2>15, <3>4, <3>11 DEF Changes, tt
    <3>13. KeepsTypes(s, x, {})
      BY <1>2, <2>2, <2>5, <2>13, <3>3, <3>4 DEF KeepsTypes, bm, cm
    <3> QED BY <2>1, <2>15, <3>4, <3>10, <3>12, <3>13 DEF Allocated
  <2> QED BY <2>14, <2>15
<1> QED BY <1>3, <1>4

\* What release_inode does, and its change of the tables.
Released(s, t, i, E) ==
  Sound(t, E) /\ E \subseteq Exc(t) /\ Changes(s, t) /\ KeepsTypes(s, t, {i}) /\ (t.ok => t.inode_bitmap = s.inode_bitmap \ {i})
Removed(s, i) ==
  [free_inode_blocks(s, i) EXCEPT !.inode_table[i] = NewInode("free"), !.inode_bitmap = @ \ {i}, !.touched = @ \cup {i}]

\* release_inode.
LEMMA ReleasesInode ==
  ASSUME NEW s, NEW E, Sound(s, E), E \subseteq Exc(s), NEW i
  PROVE  Released(s, release_inode(s, i), i, E)
<1> DEFINE t == release_inode(s, i)
<1>1. PICK V, T : Good(V, s, T, E)
  BY DEF Sound
<1>2. s \in FsStates(V) /\ T \in TableChoices /\ Backed(s, T, s.inode_bitmap) /\ Owns(s, T, E)
      /\ DiskOwns(s, T) /\ Rooted(s) /\ s.inode_bitmap \subseteq Inodes
  BY <1>1, Fields DEF Good
<1>3. CASE i \notin s.inode_bitmap \/ i = SIMPLEFS_ROOT_INODE
  <2>1. t = Fail(s)
    BY <1>3 DEF release_inode
  <2>2. t \in FsStates(V) /\ SameMemory(s, t) /\ t.done = s.done
    BY <1>2, <2>1, SetsOk DEF Fail
  <2> HIDE DEF t
  <2>3. Sound(t, E) /\ Changes(s, t) /\ SameTypes(s, t) /\ ~t.ok
    BY <2>1, Refuses
  <2>4. E \subseteq Exc(t)
    <3>1. t.fault = s.fault /\ s.done <= t.done
      BY <1>2, <2>2, Fields DEF SameMemory, SameCaller
    <3> QED BY <1>2, <2>2, <3>1, ExcGrows
  <2>5. KeepsTypes(s, t, {i})
    BY <1>2, <2>3 DEF SameTypes, KeepsTypes
  <2> QED BY <2>3, <2>4, <2>5 DEF Released, t
<1>4. CASE ~(i \notin s.inode_bitmap \/ i = SIMPLEFS_ROOT_INODE)
  <2> DEFINE f == free_inode_blocks(s, i)
             r == Removed(s, i)
             U == [T EXCEPT ![i] = NoTable]
             W == [U EXCEPT ![i] = NoTable]
             q == NewInode("free")
             cm == f.inode_bitmap \ {i}
             tac == [f.inode_table EXCEPT ![i] = q]
             tt == f.touched \cup {i}
  <2>1. i \in s.inode_bitmap /\ i \in Inodes /\ i # SIMPLEFS_ROOT_INODE
    BY <1>2, <1>4
  <2>2. t = write_metadata(r)
    BY <1>4 DEF release_inode, Removed
  <2>3. r = [f EXCEPT !.inode_table = tac, !.inode_bitmap = cm, !.touched = tt]
    BY DEF Removed
  <2>4. Freed(V, s, f, T, i, E)
    <3>1. Backed(s, T, {i})
      BY <1>2, <2>1 DEF Backed
    <3>2. \A b \in BlocksOf(s, s.inode_table[i]) : \E k \in Keys : Ptr(s, T, i, k) = b
      BY <1>2, <2>1, <3>1, FreedWhenBacked
    <3> QED BY <1>2, <2>1, <3>2, FreesBlocks
  <2> HIDE DEF f, q
  <2>5. /\ f \in FsStates(V) /\ SameCaller(s, f) /\ SameScratch(s, f) /\ f.inode_bitmap = s.inode_bitmap
        /\ f.disk = s.disk /\ f.done = s.done
        /\ \A j \in Inodes \ {i} : f.inode_table[j] = s.inode_table[j]
        /\ Owns(f, U, E)
    BY <2>4 DEF Freed
  <2>6. f.touched = s.touched /\ tt \subseteq Inodes /\ cm \subseteq Inodes /\ q \in InodeSet
    BY <1>2, <2>1, <2>5, Fields, NoPointers DEF SameScratch, q
  <2>7. tac \in InodeTables /\ tac[i] = q /\ \A j \in Inodes \ {i} : tac[j] = f.inode_table[j]
    BY <2>1, <2>5, <2>6, Fields DEF InodeTables
  <2>8. U \in TableChoices /\ \A j \in Inodes \ {i} : U[j] = T[j]
    BY <1>2, NoPointers DEF TableChoices
  <2> HIDE DEF r, cm, tac, tt, U
  <2>9. /\ r \in FsStates(V) /\ SameCaller(f, r) /\ r.inode_bitmap = cm /\ r.inode_table = tac
        /\ r.data_bitmap = f.data_bitmap /\ r.disk = f.disk /\ r.done = f.done /\ r.touched = tt
    BY <2>3, <2>5, <2>6, <2>7 DEF FsStates, SameCaller
  <2>10. Owns(r, W, E) /\ Backed(r, W, r.inode_bitmap) /\ W \in TableChoices
    <3>1. r.inode_table[i] = NewInode("free") /\ \A j \in Inodes \ {i} : r.inode_table[j] = f.inode_table[j]
      BY <2>7, <2>9 DEF q
    <3>2. Backed(f, U, f.inode_bitmap \ {i})
      BY <1>2, <2>5, <2>8 DEF Backed
    <3>3. /\ f \in FsStates(V) /\ r \in FsStates(V) /\ U \in TableChoices /\ i \in Inodes /\ Owns(f, U, E)
          /\ r.inode_bitmap = f.inode_bitmap \ {i} /\ r.data_bitmap = f.data_bitmap /\ r.disk = f.disk
      BY <2>1, <2>5, <2>8, <2>9 DEF cm
    <3> QED BY <3>1, <3>2, <3>3, InodeReplaced
  <2>11. \A j \in Inodes \ {i} : W[j] = T[j]
    BY <2>8 DEF TableChoices
  <2> HIDE DEF W
  <2>12. r.fault = s.fault /\ SameCaller(s, r) /\ s.done <= r.done /\ r.done = s.done
    BY <1>2, <2>5, <2>9, Fields DEF SameCaller
  <2>13. Good(V, r, W, E)
    <3>1. DiskOwns(r, W)
      BY <1>2, <2>5, <2>6, <2>7, <2>9, <2>11, <2>12, DiskOwnsMoves DEF cm, tt
    <3>2. Rooted(r)
      BY <1>2, <2>1, <2>5, <2>7, <2>9, FsSizes DEF Rooted, cm
    <3> QED BY <2>9, <2>10, <3>1, <3>2 DEF Good
  <2>14. E \subseteq Exc(r)
    BY <1>2, <2>9, <2>12, ExcGrows
  <2>15. t \in FsStates(V) /\ MetaWritten(r, t) /\ (t.ok => Synchronous(t)) /\ (r.fault.kind = "none" => t.ok)
    BY <2>2, <2>9, WritesMetadata
  <2> HIDE DEF t
  <2>16. Good(V, t, W, E) /\ E \subseteq Exc(t) /\ (Mountable(r.disk) => Mountable(t.disk))
    BY <2>9, <2>13, <2>14, <2>15, GoodMeta
  <2>17. /\ t.inode_bitmap = cm /\ t.inode_table = tac /\ t.touched = tt /\ SameCaller(s, t) /\ s.done <= t.done
    BY <2>9, <2>12, <2>15 DEF MetaWritten, SameMemory, SameTables, SameScratch, SameCaller
  <2>18. Changes(s, t)
    BY <2>5, <2>6, <2>9, <2>12, <2>15, <2>16, <2>17 DEF Changes, tt
  <2>19. KeepsTypes(s, t, {i})
    BY <1>2, <2>5, <2>7, <2>17 DEF KeepsTypes, cm
  <2>20. Sound(t, E)
    BY <2>16 DEF Sound
  <2> QED BY <2>5, <2>16, <2>17, <2>18, <2>19, <2>20 DEF Released, t, cm
<1> QED BY <1>3, <1>4

\* Nothing but the disk changes.
TableWritten(s, t, E) == Sound(t, E) /\ E \subseteq Exc(t) /\ Changes(s, t) /\ SameTypes(s, t)

\* write_inode_table alone.
LEMMA WritesTableOnly ==
  ASSUME NEW s, NEW E, Sound(s, E), E \subseteq Exc(s), s.touched # {}
  PROVE  TableWritten(s, write_inode_table(s), E)
<1> DEFINE t == write_inode_table(s)
<1>1. PICK V, T : Good(V, s, T, E)
  BY DEF Sound
<1>2. s \in FsStates(V)
  BY <1>1 DEF Good
<1>3. /\ t \in FsStates(V) /\ MetaWritten(s, t) /\ t.disk.info = s.disk.info
      /\ t.ok => t.disk.inode_table = s.inode_table
      /\ s.fault.kind = "none" => t.ok
  BY <1>2, WritesTable
<1> HIDE DEF t
<1>4. Good(V, t, T, E) /\ E \subseteq Exc(t) /\ (Mountable(s.disk) => Mountable(t.disk))
  BY <1>1, <1>3, GoodMeta
<1>5. SameCaller(s, t) /\ s.done <= t.done /\ t.touched = s.touched /\ SameTables(s, t)
  BY <1>3 DEF MetaWritten, SameMemory, SameScratch
<1>6. SameTypes(s, t)
  BY <1>5 DEF SameTypes, SameTables
<1>7. InfoOf(t) = InfoOf(s)
  BY <1>5 DEF SameTables, InfoOf
<1>8. s.fault.kind = "none" /\ Synchronous(s) => Synchronous(t)
  BY <1>3, <1>5, <1>7 DEF Synchronous, SameTables
<1>9. Changes(s, t)
  BY <1>4, <1>5, <1>8 DEF Changes
<1>10. Sound(t, E)
  BY <1>4 DEF Sound
<1> QED BY <1>4, <1>6, <1>9, <1>10 DEF TableWritten, t

-----------------------------------------------------------------------------
(* What is read and written: sequences.                                    *)

\* A function on 1 .. n is a sequence.
LEMMA FunctionIsSeq ==
  ASSUME NEW n \in Nat, NEW S, NEW f \in [1 .. n -> S]
  PROVE  f \in Seq(S) /\ Len(f) = n
<1>1. f \in Seq(S)
  BY SeqDef
<1>2. Len(f) \in Nat /\ DOMAIN f = 1 .. Len(f)
  BY <1>1, LenProperties
<1>3. 1 .. Len(f) = 1 .. n
  BY <1>2
<1>4. Len(f) = n
  BY <1>2, <1>3
<1> QED BY <1>1, <1>4

\* Some sequence of some values.
IsSequence(q) == \E S : q \in Seq(S)

\* It has a length.
LEMMA SequenceLength ==
  ASSUME NEW q, IsSequence(q)
  PROVE  Len(q) \in Nat
<1>1. PICK S : q \in Seq(S)
  BY DEF IsSequence
<1> QED BY <1>1, LenProperties

\* Two sequences have a common set of values.
LEMMA CommonValues ==
  ASSUME NEW p, NEW q, IsSequence(p), IsSequence(q)
  PROVE  \E S : p \in Seq(S) /\ q \in Seq(S)
<1>1. PICK P : p \in Seq(P)
  BY DEF IsSequence
<1>2. PICK Q : q \in Seq(Q)
  BY DEF IsSequence
<1>3. p \in Seq(P \cup Q)
  BY <1>1, SeqMonotonic
<1>4. q \in Seq(P \cup Q)
  BY <1>2, SeqMonotonic
<1> QED BY <1>3, <1>4

\* One behind the other.
LEMMA SequenceJoined ==
  ASSUME NEW p, NEW q, IsSequence(p), IsSequence(q)
  PROVE  IsSequence(p \o q) /\ Len(p \o q) = Len(p) + Len(q)
<1>1. PICK S : p \in Seq(S) /\ q \in Seq(S)
  BY CommonValues
<1>2. p \o q \in Seq(S) /\ Len(p \o q) = Len(p) + Len(q)
  BY <1>1, ConcatProperties
<1> QED BY <1>2 DEF IsSequence

\* One more value.
LEMMA SequenceAppended ==
  ASSUME NEW q, IsSequence(q), NEW x
  PROVE  IsSequence(Append(q, x))
<1>1. PICK S : q \in Seq(S)
  BY DEF IsSequence
<1>2. q \in Seq(S \cup {x})
  BY <1>1, SeqMonotonic
<1>3. Append(q, x) \in Seq(S \cup {x})
  BY <1>2
<1> QED BY <1>3 DEF IsSequence

\* The values before one and behind it.
LEMMA SequenceCut ==
  ASSUME NEW q, IsSequence(q), NEW k \in DOMAIN q
  PROVE  IsSequence(SubSeq(q, 1, k - 1) \o SubSeq(q, k + 1, Len(q)))
<1>1. PICK S : q \in Seq(S)
  BY DEF IsSequence
<1>2. Len(q) \in Nat /\ k \in 1 .. Len(q)
  BY <1>1, LenProperties
<1>3. \A i \in 1 .. Len(q) : q[i] \in S
  BY <1>1, ElementOfSeq
<1>4. SubSeq(q, 1, k - 1) \in Seq(S)
  <2>1. k - 1 \in Int /\ \A i \in 1 .. k - 1 : q[i] \in S
    BY <1>2, <1>3
  <2> QED BY <2>1, SubSeqProperties
<1>5. SubSeq(q, k + 1, Len(q)) \in Seq(S)
  <2>1. k + 1 \in Int /\ \A i \in k + 1 .. Len(q) : q[i] \in S
    BY <1>2, <1>3
  <2> QED BY <1>2, <2>1, SubSeqProperties
<1>6. IsSequence(SubSeq(q, 1, k - 1)) /\ IsSequence(SubSeq(q, k + 1, Len(q)))
  BY <1>4, <1>5 DEF IsSequence
<1> QED BY <1>6, SequenceJoined

\* read_inode_bytes returns at most what is asked for, within the file.
LEMMA ReadsInode ==
  ASSUME NEW s, s.inode_table \in InodeTables, NEW i \in Inodes, NEW offset \in Nat, NEW count \in Nat
  PROVE  LET bytes == read_inode_bytes(s, i, offset, count) IN
         /\ IsSequence(bytes) /\ Len(bytes) \in Nat
         /\ Len(bytes) = 0 \/ offset + Len(bytes) <= s.inode_table[i].size
<1> DEFINE inode == s.inode_table[i]
           wanted == IF offset >= inode.size THEN 0 ELSE Lesser(inode.size - offset, count)
           block(p) == get_file_block(s, inode, (offset + p) \div SectorOf(inode))
           missing == {p \in 0 .. wanted - 1 : block(p) = INVALID}
           copied == IF missing = {} THEN wanted ELSE Min(missing)
           bytes == read_inode_bytes(s, i, offset, count)
           cell(p) == CellIn(s.disk.blocks[block(p - 1)], ((offset + p - 1) % SectorOf(inode)) + 1)
<1>1. bytes = [p \in 1 .. copied |-> cell(p)]
  BY DEF read_inode_bytes
<1>2. inode.size \in Nat
  BY InodeFields DEF InodeTables
<1> HIDE DEF block, cell
<1>3. wanted \in Nat /\ (wanted = 0 \/ offset + wanted <= inode.size)
  BY <1>2 DEF Lesser
<1> HIDE DEF inode, wanted
<1>4. copied \in Nat /\ copied <= wanted
  <2>1. CASE missing = {}
    BY <1>3, <2>1
  <2>2. CASE missing # {}
    <3>1. missing \in SUBSET Nat
      BY <1>3
    <3> HIDE DEF missing
    <3>2. Min(missing) \in missing
      BY <2>2, <3>1, FirstFit
    <3>3. Min(missing) \in 0 .. wanted - 1
      BY <3>2 DEF missing
    <3> QED BY <1>3, <2>2, <3>3
  <2> QED BY <2>1, <2>2
<1> HIDE DEF copied, missing, bytes
<1>5. bytes \in [1 .. copied -> {cell(p) : p \in 1 .. copied}]
  BY <1>1
<1>6. bytes \in Seq({cell(p) : p \in 1 .. copied}) /\ Len(bytes) = copied
  BY <1>4, <1>5, FunctionIsSeq
<1>7. IsSequence(bytes)
  BY <1>6 DEF IsSequence
<1>8. Len(bytes) = 0 \/ offset + Len(bytes) <= inode.size
  BY <1>2, <1>3, <1>4, <1>6
<1> QED BY <1>4, <1>6, <1>7, <1>8 DEF bytes, inode

\* read_directory_entries.
LEMMA ReadsDirectory ==
  ASSUME NEW s, NEW E, Sound(s, E), NEW d
  PROVE  IsSequence(read_directory_entries(s, d))
<1>1. CASE IsDirectory(s, d)
  <2>1. s.inode_table \in InodeTables /\ d \in Inodes
    BY <1>1, SoundFields DEF IsDirectory
  <2>2. IsSequence(read_inode_bytes(s, d, 0, SIMPLEFS_MAX_DIRECTORY_ENTRIES))
    BY <2>1, ReadsInode, NoPointers
  <2> QED BY <1>1, <2>2 DEF read_directory_entries
<1>2. CASE ~IsDirectory(s, d)
  <2>1. <<>> \in Seq({})
    OBVIOUS
  <2> QED BY <1>2, <2>1 DEF read_directory_entries, IsSequence
<1> QED BY <1>1, <1>2

\* The contents a write at an offset leaves.
LEMMA OverwritesSequence ==
  ASSUME NEW old, NEW data, IsSequence(old), IsSequence(data), NEW offset \in Nat
  PROVE  IsSequence(Overwritten(old, offset, data))
<1> DEFINE n == IF offset + Len(data) > Len(old) THEN offset + Len(data) ELSE Len(old)
           cell(p) == IF p > offset /\ p <= offset + Len(data) THEN data[p - offset]
                      ELSE IF p <= Len(old) THEN old[p] ELSE ZERO
           q == Overwritten(old, offset, data)
<1>1. q = [p \in 1 .. n |-> cell(p)]
  BY DEF Overwritten
<1>2. n \in Nat
  BY SequenceLength
<1> HIDE DEF n, cell, q
<1>3. q \in [1 .. n -> {cell(p) : p \in 1 .. n}]
  BY <1>1
<1>4. q \in Seq({cell(p) : p \in 1 .. n})
  BY <1>2, <1>3, FunctionIsSeq
<1> QED BY <1>4 DEF IsSequence, q

-----------------------------------------------------------------------------
(* Directories.                                                            *)

\* A refusal, as the end of a function.
LEMMA RefusesFinished ==
  ASSUME NEW s, Sound(s, {})
  PROVE  Finished(s, Fail(s)) /\ ~Fail(s).ok
<1>1. Sound(Fail(s), {}) /\ Changes(s, Fail(s)) /\ SameTypes(s, Fail(s)) /\ ~Fail(s).ok
  BY Refuses
<1>2. Sound(Fail(s), After(Fail(s)))
  BY <1>1, SoundWeaker
<1> QED BY <1>1, <1>2 DEF Finished

\* init_directory_file.
LEMMA StartsDirectory ==
  ASSUME NEW s, Sound(s, {}), NEW d, NEW parent
  PROVE  Finished(s, init_directory_file(s, d, parent))
<1> DEFINE data == <<<<".", d>>, <<"..", parent>>>>
<1>1. Len(data) \in Nat
  OBVIOUS
<1> HIDE DEF data
<1>2. Finished(s, write_inode_data(s, d, data))
  BY <1>1, WritesInode
<1> QED BY <1>2 DEF init_directory_file, data

\* append_entry_to_directory.
LEMMA AddsEntry ==
  ASSUME NEW s, Sound(s, {}), NEW d, NEW name, NEW child
  PROVE  Finished(s, append_entry_to_directory(s, d, name, child))
<1> DEFINE entries == read_directory_entries(s, d)
           data == Append(entries, <<name, child>>)
           refused == ~IsDirectory(s, d) \/ Len(entries) >= SIMPLEFS_MAX_DIRECTORY_ENTRIES
<1>1. append_entry_to_directory(s, d, name, child) = IF refused THEN Fail(s) ELSE write_inode_data(s, d, data)
  BY DEF append_entry_to_directory
<1>2. IsSequence(entries)
  BY ReadsDirectory
<1> HIDE DEF entries, refused
<1>3. Len(data) \in Nat
  BY <1>2, SequenceAppended, SequenceLength
<1> HIDE DEF data
<1>4. Finished(s, write_inode_data(s, d, data)) /\ Finished(s, Fail(s))
  BY <1>3, WritesInode, RefusesFinished
<1> QED BY <1>1, <1>4

\* remove_entry_from_directory.
LEMMA RemovesEntry ==
  ASSUME NEW s, Sound(s, {}), NEW d, NEW name
  PROVE  Finished(s, remove_entry_from_directory(s, d, name))
<1> DEFINE entries == read_directory_entries(s, d)
           slots == SlotsOf(entries, name)
           slot == Min(slots)
           data == SubSeq(entries, 1, slot - 1) \o SubSeq(entries, slot + 1, Len(entries))
<1>1. remove_entry_from_directory(s, d, name) = IF ~Found(s, d, name) THEN Fail(s) ELSE write_inode_data(s, d, data)
  BY DEF remove_entry_from_directory
<1>2. IsSequence(entries) /\ (Found(s, d, name) <=> slots # {})
  BY ReadsDirectory DEF Found
<1> HIDE DEF entries
<1>3. slots \subseteq DOMAIN entries
  BY DEF SlotsOf
<1>4. ASSUME Found(s, d, name) PROVE Finished(s, write_inode_data(s, d, data))
  <2>1. PICK S : entries \in Seq(S)
    BY <1>2 DEF IsSequence
  <2>2. slots \in SUBSET Nat /\ slots # {}
    <3>1. DOMAIN entries = 1 .. Len(entries) /\ Len(entries) \in Nat
      BY <2>1, LenProperties
    <3> QED BY <1>2, <1>3, <1>4, <3>1
  <2> HIDE DEF slots
  <2>3. slot \in DOMAIN entries
    BY <1>3, <2>2, FirstFit
  <2> HIDE DEF slot
  <2>4. Len(data) \in Nat
    BY <1>2, <2>3, SequenceCut, SequenceLength
  <2> HIDE DEF data
  <2> QED BY <2>4, WritesInode
<1>5. Finished(s, Fail(s))
  BY RefusesFinished
<1> QED BY <1>1, <1>4, <1>5

-----------------------------------------------------------------------------
(* The calls.                                                              *)

\* What a call does: the state it leaves is sound but for the exceptions of its
\* fault, and the inodes of s other than those of D are still there.
Outcome(s, t, D) == Sound(t, Exc(t)) /\ Changes(s, t) /\ KeepsTypes(s, t, D)

\* Steps that end well leave no exception.
LEMMA EndsWell ==
  ASSUME NEW t, Sound(t, After(t))
  PROVE  Sound(t, Exc(t)) /\ (t.ok => Sound(t, {}))
<1>1. After(t) \subseteq Exc(t) /\ (t.ok => After(t) = {})
  BY DEF After
<1> QED BY <1>1, SoundWeaker

\* A function that keeps all types.
LEMMA FinishedOutcome ==
  ASSUME NEW s, NEW E, Sound(s, E), NEW t, Finished(s, t)
  PROVE  Outcome(s, t, {}) /\ (t.ok => Sound(t, {}))
<1>1. Sound(t, After(t)) /\ Changes(s, t) /\ SameTypes(s, t)
  BY DEF Finished
<1>2. KeepsTypes(s, t, {})
  BY <1>1, SoundFields DEF SameTypes, KeepsTypes
<1> QED BY <1>1, <1>2, EndsWell DEF Outcome

\* Two steps.
LEMMA OutcomeTransitive ==
  ASSUME NEW r, NEW s, NEW t, NEW D, NEW F, NEW E, Sound(r, E), Outcome(r, s, D), Outcome(s, t, F)
  PROVE  Outcome(r, t, D \cup F)
<1>1. r.done \in Nat /\ s.done \in Nat /\ t.done \in Nat
  BY SoundFields DEF Outcome
<1>2. Changes(r, t)
  BY <1>1, ChangesTransitive DEF Outcome
<1>3. KeepsTypes(r, t, D \cup F)
  BY DEF Outcome, KeepsTypes
<1> QED BY <1>2, <1>3 DEF Outcome

\* An inode that was not there, or more inodes, may be left out.
LEMMA OutcomeWeaker ==
  ASSUME NEW s, NEW t, NEW D, NEW F, Outcome(s, t, D), D \cap s.inode_bitmap \subseteq F
  PROVE  Outcome(s, t, F)
BY DEF Outcome, KeepsTypes

\* Whatever was reached, a failure is reported.
LEMMA OutcomeFails ==
  ASSUME NEW s, NEW t, NEW D, NEW E, Sound(s, E), Outcome(s, t, D)
  PROVE  Outcome(s, Fail(t), D)
<1>1. Finished(t, Fail(t))
  BY FailsFinished DEF Outcome
<1>2. Outcome(t, Fail(t), {})
  BY <1>1, FinishedOutcome DEF Outcome
<1>3. Outcome(s, Fail(t), D \cup {})
  BY <1>2, OutcomeTransitive
<1>4. D \cup {} = D
  OBVIOUS
<1> QED BY <1>3, <1>4

\* A call that is refused.
LEMMA OutcomeRefused ==
  ASSUME NEW s, Sound(s, {})
  PROVE  Outcome(s, Fail(s), {})
BY RefusesFinished, FinishedOutcome

\* write_inode_table, where inodes have been touched.
LEMMA OutcomeTable ==
  ASSUME NEW s, Sound(s, {}), s.touched # {}
  PROVE  Outcome(s, write_inode_table(s), {})
<1> DEFINE t == write_inode_table(s)
<1>1. TableWritten(s, t, {})
  BY WritesTableOnly
<1> HIDE DEF t
<1>2. Sound(t, {}) /\ Changes(s, t) /\ SameTypes(s, t)
  BY <1>1 DEF TableWritten
<1>3. Sound(t, Exc(t))
  BY <1>2, SoundWeaker
<1>4. KeepsTypes(s, t, {})
  BY <1>2, SoundFields DEF SameTypes, KeepsTypes
<1> QED BY <1>2, <1>3, <1>4 DEF Outcome, t

\* release_inode.
LEMMA OutcomeReleased ==
  ASSUME NEW s, Sound(s, Exc(s)), NEW i
  PROVE  Outcome(s, release_inode(s, i), {i})
<1> DEFINE t == release_inode(s, i)
<1>1. Released(s, t, i, Exc(s))
  BY ReleasesInode
<1> HIDE DEF t
<1>2. Sound(t, Exc(t))
  BY <1>1, SoundWeaker DEF Released
<1> QED BY <1>1, <1>2 DEF Released, Outcome, t

\* release_inode in a sound state, when it succeeds.
LEMMA ReleasedSound ==
  ASSUME NEW s, Sound(s, {}), NEW i
  PROVE  Outcome(s, release_inode(s, i), {i}) /\ Sound(release_inode(s, i), {})
<1> DEFINE t == release_inode(s, i)
<1>1. Released(s, t, i, {})
  BY ReleasesInode
<1>2. Sound(s, Exc(s))
  BY SoundWeaker
<1>3. Outcome(s, t, {i})
  BY <1>2, OutcomeReleased
<1> HIDE DEF t
<1> QED BY <1>1, <1>3 DEF Released, t

\* simplefs_create: the inode, its entry, and the table once more; or the inode
\* is released again.
LEMMA OutcomeCreate ==
  ASSUME NEW s, Sound(s, {}), NEW name
  PROVE  LET t == simplefs_create(s, name) IN Outcome(s, t, {}) /\ (t.ok => Sound(t, {}))
<1> DEFINE cwd == s.current_directory
           refused == ~s.fs_mounted \/ ~valid_name(name) \/ Found(s, cwd, name)
           a == allocate_inode(s, "regular")
           e == append_entry_to_directory(a, cwd, name, a.inode)
           x == release_inode(e, a.inode)
           w == write_inode_table(e)
           t == simplefs_create(s, name)
<1>1. t = IF refused THEN Fail(s)
          ELSE IF ~a.ok THEN a
          ELSE IF (IF e.ok THEN e ELSE Fail(x)).ok THEN write_inode_table(IF e.ok THEN e ELSE Fail(x))
          ELSE (IF e.ok THEN e ELSE Fail(x))
  BY DEF simplefs_create, Then, OnFailure
<1> HIDE DEF refused, cwd
<1>2. Outcome(s, Fail(s), {}) /\ ~Fail(s).ok
  BY OutcomeRefused, RefusesFinished
<1>3. Allocated(s, a, "regular")
  BY AllocatesInode
<1> HIDE DEF a
<1>4. Outcome(s, a, {}) /\ (a.ok => Sound(a, {}))
  BY <1>3, EndsWell DEF Allocated, Outcome
<1>5. ASSUME a.ok
      PROVE  /\ Outcome(s, e, {}) /\ (e.ok => Sound(e, {})) /\ e.touched # {}
             /\ Outcome(s, Fail(x), {}) /\ ~Fail(x).ok
  <2>1. Finished(a, e)
    BY <1>4, <1>5, AddsEntry
  <2> HIDE DEF e
  <2>2. Outcome(a, e, {}) /\ (e.ok => Sound(e, {}))
    BY <1>4, <1>5, <2>1, FinishedOutcome
  <2>3. Outcome(s, e, {} \cup {})
    BY <1>4, <2>2, OutcomeTransitive
  <2>4. Outcome(s, e, {})
    BY <2>3, OutcomeWeaker
  <2>5. e.touched # {}
    <3>1. a.inode \in a.inode_bitmap /\ a.inode \notin s.inode_bitmap
      BY <1>3, <1>5 DEF Allocated
    <3>2. a.touched # {}
      BY <1>4, <3>1 DEF Outcome, Changes, SameTables
    <3> QED BY <2>2, <3>2 DEF Outcome, Changes
  <2>6. Outcome(e, x, {a.inode})
    BY <2>2, OutcomeReleased DEF Outcome
  <2> HIDE DEF x
  <2>7. Outcome(s, x, {} \cup {a.inode})
    BY <2>4, <2>6, OutcomeTransitive
  <2>8. Outcome(s, x, {})
    <3>1. ({} \cup {a.inode}) \cap s.inode_bitmap \subseteq {}
      BY <1>3, <1>5 DEF Allocated
    <3> QED BY <2>7, <3>1, OutcomeWeaker
  <2>9. Outcome(s, Fail(x), {})
    BY <2>8, OutcomeFails
  <2>10. ~Fail(x).ok
    BY <2>8, FailsFinished DEF Outcome
  <2> QED BY <2>2, <2>4, <2>5, <2>9, <2>10
<1>6. ASSUME a.ok, e.ok PROVE Outcome(s, w, {}) /\ Sound(w, {})
  <2>1. Outcome(s, e, {}) /\ Sound(e, {}) /\ e.touched # {}
    BY <1>5, <1>6
  <2> HIDE DEF e
  <2>2. Outcome(e, w, {}) /\ TableWritten(e, w, {})
    BY <2>1, OutcomeTable, WritesTableOnly
  <2> HIDE DEF w
  <2>3. Outcome(s, w, {} \cup {})
    BY <2>1, <2>2, OutcomeTransitive
  <2>4. Outcome(s, w, {})
    BY <2>3, OutcomeWeaker
  <2> QED BY <2>2, <2>4 DEF TableWritten
<1>7. \/ refused /\ t = Fail(s)
      \/ ~refused /\ ~a.ok /\ t = a
      \/ ~refused /\ a.ok /\ e.ok /\ t = w
      \/ ~refused /\ a.ok /\ ~e.ok /\ t = Fail(x)
  <2>1. a.ok => ~Fail(x).ok
    BY <1>5
  <2> DEFINE y == Fail(x)
  <2>2. t = IF refused THEN Fail(s)
            ELSE IF ~a.ok THEN a
            ELSE IF (IF e.ok THEN e ELSE y).ok THEN write_inode_table(IF e.ok THEN e ELSE y)
            ELSE (IF e.ok THEN e ELSE y)
    BY <1>1
  <2>3. a.ok => ~y.ok
    BY <2>1
  <2>4. w = write_inode_table(e)
    OBVIOUS
  <2> HIDE DEF y, e, w, t
  <2>5. a.ok /\ e.ok => (IF e.ok THEN e ELSE y) = e
    OBVIOUS
  <2>6. a.ok /\ ~e.ok => (IF e.ok THEN e ELSE y) = y
    OBVIOUS
  <2>7. ~refused /\ a.ok /\ e.ok => t = w
    BY <2>2, <2>4, <2>5
  <2>8. ~refused /\ a.ok /\ ~e.ok => t = y
    BY <2>2, <2>3, <2>6
  <2>9. (refused => t = Fail(s)) /\ (~refused /\ ~a.ok => t = a)
    BY <2>2
  <2> QED BY <2>7, <2>8, <2>9 DEF y
<1> HIDE DEF e, x, w, t
<1>8. Outcome(s, t, {}) /\ (t.ok => Sound(t, {}))
  BY <1>2, <1>4, <1>5, <1>6, <1>7
<1> QED BY <1>8 DEF t

\* simplefs_make_dir.
LEMMA OutcomeMakeDir ==
  ASSUME NEW s, Sound(s, {}), NEW name
  PROVE  Outcome(s, simplefs_make_dir(s, name), {})
<1> DEFINE cwd == s.current_directory
           refused == ~s.fs_mounted \/ ~valid_name(name) \/ Found(s, cwd, name)
           a == allocate_inode(s, "directory")
           d == init_directory_file(a, a.inode, cwd)
           e == append_entry_to_directory(d, cwd, name, a.inode)
           t == simplefs_make_dir(s, name)
           y == IF d.ok THEN e ELSE d
           x == release_inode(y, a.inode)
<1>1. t = IF refused THEN Fail(s)
          ELSE IF ~a.ok THEN a
          ELSE IF y.ok THEN y ELSE Fail(x)
  BY DEF simplefs_make_dir, Then, OnFailure
<1> HIDE DEF refused, cwd
<1>2. Outcome(s, Fail(s), {})
  BY OutcomeRefused
<1>3. Allocated(s, a, "directory")
  BY AllocatesInode
<1> HIDE DEF a
<1>4. Outcome(s, a, {}) /\ (a.ok => Sound(a, {}))
  BY <1>3, EndsWell DEF Allocated, Outcome
<1>5. ASSUME a.ok PROVE Outcome(s, y, {}) /\ Outcome(s, Fail(x), {})
  <2>1. Finished(a, d)
    BY <1>4, <1>5, StartsDirectory
  <2> HIDE DEF d
  <2>2. Outcome(a, d, {}) /\ (d.ok => Sound(d, {}))
    BY <1>4, <1>5, <2>1, FinishedOutcome
  <2>3. Outcome(s, d, {} \cup {})
    BY <1>4, <2>2, OutcomeTransitive
  <2>4. ASSUME d.ok PROVE Outcome(s, e, {} \cup {})
    <3>1. Finished(d, e)
      BY <2>2, <2>4, AddsEntry
    <3> HIDE DEF e
    <3>2. Outcome(d, e, {}) /\ {} \cup {} = {}
      BY <2>2, <2>4, <3>1, FinishedOutcome
    <3>3. Outcome(s, d, {})
      BY <2>3, OutcomeWeaker
    <3> QED BY <3>2, <3>3, OutcomeTransitive
  <2> HIDE DEF e
  <2>5. Outcome(s, y, {} \cup {})
    BY <2>3, <2>4
  <2> HIDE DEF y
  <2>6. Outcome(s, y, {})
    BY <2>5, OutcomeWeaker
  <2>7. Outcome(y, x, {a.inode})
    BY <2>6, OutcomeReleased DEF Outcome
  <2> HIDE DEF x
  <2>8. Outcome(s, x, {} \cup {a.inode})
    BY <2>6, <2>7, OutcomeTransitive
  <2>9. Outcome(s, x, {})
    <3>1. ({} \cup {a.inode}) \cap s.inode_bitmap \subseteq {}
      BY <1>3, <1>5 DEF Allocated
    <3> QED BY <2>8, <3>1, OutcomeWeaker
  <2>10. Outcome(s, Fail(x), {})
    BY <2>9, OutcomeFails
  <2> QED BY <2>6, <2>10
<1> HIDE DEF y, x, t
<1>6. Outcome(s, t, {})
  BY <1>1, <1>2, <1>4, <1>5
<1> QED BY <1>6 DEF t

\* What the file system keeps of the open files.
OpenKept(s, t) == \A j : IsRegular(s, j) /\ inode_is_open(s, j) => IsRegular(t, j)

\* The effect of a call that may write.
Effect(s, t) == Sound(t, Exc(t)) /\ Changes(s, t) /\ OpenKept(s, t)

\* A call that keeps all inodes, or all but one that is not an open file.
LEMMA EffectOf ==
  ASSUME NEW s, NEW t, NEW i, Outcome(s, t, {i}), ~(IsRegular(s, i) /\ inode_is_open(s, i))
  PROVE  Effect(s, t)
<1>1. ASSUME NEW j, IsRegular(s, j), inode_is_open(s, j) PROVE IsRegular(t, j)
  <2>1. j # i
    BY <1>1
  <2>2. j \in s.inode_bitmap /\ s.inode_table[j].type = "regular"
    BY <1>1 DEF IsRegular
  <2>3. j \in t.inode_bitmap /\ t.inode_table[j].type = s.inode_table[j].type
    BY <2>1, <2>2 DEF Outcome, KeepsTypes
  <2> QED BY <2>2, <2>3 DEF IsRegular
<1> QED BY <1>1 DEF Outcome, Effect, OpenKept

\* A call that keeps all inodes.
LEMMA EffectKeeping ==
  ASSUME NEW s, NEW t, Outcome(s, t, {})
  PROVE  Effect(s, t)
<1>1. ASSUME NEW j, IsRegular(s, j) PROVE IsRegular(t, j)
  BY <1>1 DEF IsRegular, Outcome, KeepsTypes
<1> QED BY <1>1 DEF Outcome, Effect, OpenKept

\* The entry is removed, then the inode.
LEMMA OutcomeRemoval ==
  ASSUME NEW s, Sound(s, {}), NEW d, NEW name, NEW i
  PROVE  LET r == remove_entry_from_directory(s, d, name)
             x == release_inode(r, i) IN
         Outcome(s, r, {i}) /\ (r.ok => Outcome(s, x, {i}) /\ Sound(x, {}))
<1> DEFINE r == remove_entry_from_directory(s, d, name)
           x == release_inode(r, i)
<1>1. Finished(s, r)
  BY RemovesEntry
<1> HIDE DEF r
<1>2. Outcome(s, r, {}) /\ (r.ok => Sound(r, {}))
  BY <1>1, FinishedOutcome
<1>3. Outcome(s, r, {i})
  BY <1>2, OutcomeWeaker
<1>4. ASSUME r.ok PROVE Outcome(s, x, {i}) /\ Sound(x, {})
  <2>1. Outcome(r, x, {i}) /\ Sound(x, {})
    BY <1>2, <1>4, ReleasedSound
  <2> HIDE DEF x
  <2>2. Outcome(s, x, {} \cup {i}) /\ {} \cup {i} = {i}
    BY <1>2, <2>1, OutcomeTransitive
  <2> QED BY <2>1, <2>2
<1> QED BY <1>3, <1>4 DEF r, x

\* simplefs_delete: only a file that is not open goes.
LEMMA EffectDelete ==
  ASSUME NEW s, Sound(s, {}), NEW name
  PROVE  Effect(s, simplefs_delete(s, name))
<1> DEFINE cwd == s.current_directory
           i == find_entry_in_directory(s, cwd, name)
           refused == \/ ~s.fs_mounted \/ ~Found(s, cwd, name)
                      \/ ~IsRegular(s, i) \/ inode_is_open(s, i)
           r == remove_entry_from_directory(s, cwd, name)
           x == release_inode(r, i)
           w == write_inode_table(x)
           y == IF r.ok THEN x ELSE r
           t == simplefs_delete(s, name)
<1>1. t = IF refused THEN Fail(s) ELSE IF y.ok THEN write_inode_table(y) ELSE y
  BY DEF simplefs_delete, Then
<1>2. refused => Outcome(s, Fail(s), {})
  BY OutcomeRefused
<1>3. CASE refused
  <2>1. Effect(s, Fail(s))
    BY <1>2, <1>3, EffectKeeping
  <2> QED BY <1>1, <1>3, <2>1
<1>4. CASE ~refused
  <2>1. IsRegular(s, i) /\ ~inode_is_open(s, i)
    BY <1>4
  <2>2. t = IF y.ok THEN write_inode_table(y) ELSE y
    BY <1>1, <1>4
  <2>3. Outcome(s, r, {i}) /\ (r.ok => Outcome(s, x, {i}) /\ Sound(x, {}))
    BY OutcomeRemoval
  <2>4. r.ok => Released(r, x, i, {})
    <3>1. r.ok => Sound(r, {})
      BY RemovesEntry, FinishedOutcome
    <3> QED BY <3>1, ReleasesInode
  <2> HIDE DEF i, t
  <2>5. r.ok /\ x.ok => x.touched # {}
    <3>1. SameTypes(s, r)
      BY RemovesEntry DEF Finished
    <3> HIDE DEF r, x
    <3>2. r.ok /\ x.ok => x.inode_bitmap = s.inode_bitmap \ {i}
      BY <2>4, <3>1 DEF Released, SameTypes
    <3>3. i \in s.inode_bitmap
      BY <2>1 DEF IsRegular
    <3> QED BY <2>3, <3>2, <3>3 DEF Outcome, Changes, SameTables
  <2> HIDE DEF r, x
  <2>6. Outcome(s, y, {i}) /\ (r.ok => y = x)
    BY <2>3
  <2>7. y.ok /\ ~r.ok => y = r
    OBVIOUS
  <2> HIDE DEF y
  <2>8. ASSUME y.ok PROVE Outcome(s, write_inode_table(y), {i})
    <3>1. r.ok
      BY <2>7, <2>8
    <3>2. Sound(y, {}) /\ y.touched # {}
      BY <2>3, <2>5, <2>6, <2>8, <3>1
    <3>3. Outcome(y, write_inode_table(y), {})
      BY <3>2, OutcomeTable
    <3> DEFINE z == write_inode_table(y)
    <3> HIDE DEF z
    <3>4. Outcome(s, z, {i} \cup {}) /\ {i} \cup {} = {i}
      BY <2>6, <3>3, OutcomeTransitive DEF z
    <3> QED BY <3>4 DEF z
  <2>9. Outcome(s, t, {i})
    BY <2>2, <2>6, <2>8
  <2> QED BY <2>1, <2>9, EffectOf DEF t
<1> QED BY <1>3, <1>4

\* simplefs_remove_dir: only a directory goes.
LEMMA EffectRemoveDir ==
  ASSUME NEW s, Sound(s, {}), NEW name
  PROVE  Effect(s, simplefs_remove_dir(s, name))
<1> DEFINE cwd == s.current_directory
           i == find_entry_in_directory(s, cwd, name)
           refused == \/ ~s.fs_mounted \/ ~Found(s, cwd, name)
                      \/ i = SIMPLEFS_ROOT_INODE \/ ~IsDirectory(s, i) \/ ~directory_is_empty(s, i)
           r == remove_entry_from_directory(s, cwd, name)
           x == release_inode(r, i)
           t == simplefs_remove_dir(s, name)
<1>1. t = IF refused THEN Fail(s) ELSE IF r.ok THEN x ELSE r
  BY DEF simplefs_remove_dir, Then
<1>2. Outcome(s, r, {i}) /\ (r.ok => Outcome(s, x, {i}))
  BY OutcomeRemoval
<1>3. Effect(s, Fail(s))
  BY OutcomeRefused, EffectKeeping
<1>4. ~refused => ~IsRegular(s, i)
  BY DEF IsDirectory, IsRegular
<1> HIDE DEF r, x, t, i, refused
<1>5. ~refused => Outcome(s, t, {i})
  BY <1>1, <1>2
<1>6. Effect(s, t)
  BY <1>1, <1>3, <1>4, <1>5, EffectOf
<1> QED BY <1>6 DEF t

\* simplefs_write_file: the file is created when it is not there.
LEMMA OutcomeWriteFile ==
  ASSUME NEW s, Sound(s, {}), NEW name, NEW data, IsSequence(data)
  PROVE  Outcome(s, simplefs_write_file(s, name, data), {})
<1> DEFINE cwd == s.current_directory
           refused == ~s.fs_mounted \/ ~valid_name(name) \/ Len(data) > SIMPLEFS_MAX_FILE_SIZE
           c == simplefs_create(s, name)
           y == IF Found(s, cwd, name) THEN s ELSE c
           i == find_entry_in_directory(y, cwd, name)
           w == IF NamesFile(y, name) THEN write_inode_data(y, i, data) ELSE Fail(y)
           t == simplefs_write_file(s, name, data)
<1>1. t = IF refused THEN Fail(s) ELSE IF y.ok THEN w ELSE y
  BY DEF simplefs_write_file, Then
<1>2. Outcome(s, Fail(s), {})
  BY OutcomeRefused
<1>3. Outcome(s, c, {}) /\ (c.ok => Sound(c, {}))
  BY OutcomeCreate
<1>4. Outcome(s, s, {})
  <2>1. Changes(s, s)
    BY SoundFields DEF Changes, SameCaller, SameTables
  <2> QED BY <2>1, SoundWeaker DEF Outcome, KeepsTypes
<1> HIDE DEF c
<1>5. Outcome(s, y, {}) /\ (y.ok => Sound(y, {}))
  BY <1>3, <1>4
<1> HIDE DEF y, i
<1>6. ASSUME y.ok PROVE Outcome(s, w, {})
  <2>1. Finished(y, write_inode_data(y, i, data)) /\ Finished(y, Fail(y))
    BY <1>5, <1>6, SequenceLength, WritesInode, RefusesFinished
  <2>2. Finished(y, w)
    BY <2>1
  <2> HIDE DEF w
  <2>3. Outcome(y, w, {})
    BY <1>5, <1>6, <2>2, FinishedOutcome
  <2>4. Outcome(s, w, {} \cup {}) /\ {} \cup {} = {}
    BY <1>5, <2>3, OutcomeTransitive
  <2> QED BY <2>4
<1> HIDE DEF w, t, refused
<1>7. Outcome(s, t, {})
  BY <1>1, <1>2, <1>5, <1>6
<1> QED BY <1>7 DEF t

\* simplefs_append_file: read and write again.
LEMMA OutcomeAppendFile ==
  ASSUME NEW s, Sound(s, {}), s.ok, s.out = <<>>, NEW name, NEW data, IsSequence(data)
  PROVE  Outcome(s, simplefs_append_file(s, name, data), {})
<1> DEFINE cwd == s.current_directory
           i == find_entry_in_directory(s, cwd, name)
           bytes == read_inode_bytes(s, i, 0, SIMPLEFS_MAX_FILE_SIZE)
           read == [s EXCEPT !.out = bytes]
           r == IF Found(s, cwd, name) THEN (IF NamesFile(s, name) THEN read ELSE Fail(s)) ELSE s
           large == Len(r.out) + Len(data) > SIMPLEFS_MAX_FILE_SIZE
           w == simplefs_write_file(s, name, r.out \o data)
           t == simplefs_append_file(s, name, data)
<1>1. t = IF r.ok THEN (IF large THEN Fail(s) ELSE [w EXCEPT !.out = <<>>]) ELSE r
  BY DEF simplefs_append_file, simplefs_read_file, Then
<1>2. Outcome(s, Fail(s), {}) /\ ~Fail(s).ok
  BY OutcomeRefused, RefusesFinished
<1>3. PICK V, T : Good(V, s, T, {})
  BY DEF Sound
<1>4. s \in FsStates(V)
  BY <1>3 DEF Good
<1>5. NamesFile(s, name) => IsSequence(bytes)
  <2>1. s.inode_table \in InodeTables /\ (NamesFile(s, name) => i \in Inodes)
    BY <1>4, Fields DEF NamesFile, IsRegular
  <2> QED BY <2>1, NoPointers, ReadsInode
<1> HIDE DEF bytes
<1>6. read.out = bytes /\ read.ok = s.ok
  BY <1>4 DEF FsStates
<1> HIDE DEF read
<1>7. IsSequence(<<>>)
  <2>1. <<>> \in Seq({})
    OBVIOUS
  <2> QED BY <2>1 DEF IsSequence
<1>8. (r.ok => IsSequence(r.out)) /\ (~r.ok => r = Fail(s))
  <2>1. CASE Found(s, cwd, name) /\ NamesFile(s, name)
    <3>1. r = read
      BY <2>1
    <3> QED BY <1>5, <1>6, <2>1, <3>1
  <2>2. CASE Found(s, cwd, name) /\ ~NamesFile(s, name)
    <3>1. r = Fail(s)
      BY <2>2
    <3> QED BY <1>2, <3>1
  <2>3. CASE ~Found(s, cwd, name)
    <3>1. r = s
      BY <2>3
    <3> QED BY <1>7, <3>1
  <2> QED BY <2>1, <2>2, <2>3
<1> HIDE DEF r, large, i
<1>9. ASSUME r.ok PROVE Outcome(s, w, {}) /\ [w EXCEPT !.out = <<>>] = w
  <2>1. IsSequence(r.out \o data)
    BY <1>8, <1>9, SequenceJoined
  <2>2. Outcome(s, w, {})
    BY <2>1, OutcomeWriteFile
  <2> HIDE DEF w
  <2>3. w.out = <<>>
    BY <2>2 DEF Outcome, Changes, SameCaller
  <2>4. PICK W, U : Good(W, w, U, Exc(w))
    BY <2>2 DEF Outcome, Sound
  <2>5. w \in FsStates(W)
    BY <2>4 DEF Good
  <2>6. [w EXCEPT !.out = <<>>] = w
    BY <2>3, <2>5 DEF FsStates
  <2> QED BY <2>2, <2>6
<1> HIDE DEF w, t
<1>10. Outcome(s, t, {})
  <2>1. CASE ~r.ok
    BY <1>1, <1>2, <1>8, <2>1
  <2>2. CASE r.ok /\ large
    BY <1>1, <1>2, <2>2
  <2>3. CASE r.ok /\ ~large
    <3>1. t = w
      BY <1>1, <1>9, <2>3
    <3> QED BY <1>9, <2>3, <3>1
  <2> QED BY <2>1, <2>2, <2>3
<1> QED BY <1>10 DEF t

-----------------------------------------------------------------------------
(* Between two calls.                                                      *)

\* No call is under way: everything is sound, on the disk and mountable, and the
\* descriptors in use refer to files.
AliveIn(s) == \A fd \in Fds : s.open_files[fd].used => IsRegular(s, s.open_files[fd].inode_index)
Ready(s) == Sound(s, {}) /\ Synchronous(s) /\ Mountable(s.disk) /\ AliveIn(s)

\* What is sound and on the disk stays so, whatever happens to the rest.
LEMMA Resumes ==
  ASSUME NEW V, NEW s, NEW T, Good(V, s, T, {}), Synchronous(s),
         NEW W, NEW t \in FsStates(W), SameTables(s, t), t.disk = s.disk
  PROVE  Good(W, t, T, {}) /\ Synchronous(t)
<1>1. s \in FsStates(V) /\ T \in TableChoices /\ Backed(s, T, s.inode_bitmap) /\ Owns(s, T, {}) /\ Rooted(s)
  BY DEF Good
<1>2. InfoOf(t) = InfoOf(s)
  BY DEF SameTables, InfoOf
<1>3. Synchronous(t)
  BY <1>2 DEF Synchronous, SameTables
<1>4. Owns(t, T, {}) /\ Backed(t, T, t.inode_bitmap) /\ Rooted(t)
  <2>1. Owns(t, T, {})
    BY <1>1 DEF Owns, Ptr, SameTables
  <2>2. Backed(t, T, t.inode_bitmap) /\ Rooted(t)
    BY <1>1 DEF Backed, Rooted, SameTables
  <2> QED BY <2>1, <2>2
<1>5. DiskOwns(t, T)
  <2>1. t.disk.info.inode_bitmap = t.inode_bitmap /\ t.disk.info.data_bitmap = t.data_bitmap
        /\ t.disk.inode_table = t.inode_table
    BY <1>3 DEF Synchronous, InfoOf
  <2>2. \A i \in t.inode_bitmap, k \in Keys : Ptr(t, T, i, k) = INVALID \/ Ptr(t, T, i, k) \in t.data_bitmap
    BY <1>4 DEF Owns
  <2> QED BY <2>1, <2>2 DEF DiskOwns
<1> QED BY <1>1, <1>3, <1>4, <1>5 DEF Good

\* A call that only changes what belongs to the caller.
LEMMA StaysReady ==
  ASSUME NEW s, Ready(s), NEW W, NEW t \in FsStates(W), SameTables(s, t), t.disk = s.disk, AliveIn(t)
  PROVE  Ready(t)
<1>1. PICK V, T : Good(V, s, T, {})
  BY DEF Ready, Sound
<1>2. Good(W, t, T, {}) /\ Synchronous(t)
  BY <1>1, Resumes DEF Ready
<1> QED BY <1>2 DEF Ready, Sound

\* A call that may write, without a fault.
LEMMA EffectReady ==
  ASSUME NEW s, Ready(s), s.fault.kind = "none", NEW t, Effect(s, t)
  PROVE  Ready(t) /\ t.fs_mounted = s.fs_mounted
<1>1. SameCaller(s, t) /\ Synchronous(t) /\ Mountable(t.disk)
  BY DEF Effect, Changes, Ready
<1>2. t.fault.kind = "none"
  BY <1>1 DEF SameCaller
<1>3. Sound(t, {})
  BY <1>2 DEF Effect, Exc, Stopped
<1>4. AliveIn(t)
  <2>1. ASSUME NEW fd \in Fds, t.open_files[fd].used PROVE IsRegular(t, t.open_files[fd].inode_index)
    <3>1. s.open_files[fd].used /\ s.open_files[fd] = t.open_files[fd]
      BY <1>1, <2>1 DEF SameCaller
    <3>2. IsRegular(s, s.open_files[fd].inode_index) /\ inode_is_open(s, s.open_files[fd].inode_index)
      BY <3>1 DEF Ready, AliveIn, inode_is_open
    <3> QED BY <3>1, <3>2 DEF Effect, OpenKept
  <2> QED BY <2>1 DEF AliveIn
<1> QED BY <1>1, <1>3, <1>4 DEF Ready, SameCaller

\* An entry of the table of open files is changed, or the offset in it.
OpenFiles == [used : BOOLEAN, inode_index : Inodes \cup {INVALID}, offset : 0 .. SIMPLEFS_MAX_FILE_SIZE]
Described(s, fd, f, out) == [s EXCEPT !.open_files = [s.open_files EXCEPT ![fd] = f], !.out = out]
Entry(s, fd, f) == [s EXCEPT !.open_files[fd] = f]
Shifted(s, fd, offset) == [s EXCEPT !.open_files[fd].offset = offset]
ShiftedRead(s, fd, offset, out) == [s EXCEPT !.open_files[fd].offset = offset, !.out = out]
At(f, offset) == [used |-> f.used, inode_index |-> f.inode_index, offset |-> offset]

\* The table of open files with one entry changed.
LEMMA ChangesDescriptor ==
  ASSUME NEW s, Ready(s), NEW fd \in Fds, NEW f \in OpenFiles, f.used => IsRegular(s, f.inode_index), NEW out
  PROVE  Ready(Described(s, fd, f, out)) /\ Described(s, fd, f, out).fs_mounted = s.fs_mounted
<1> DEFINE t == Described(s, fd, f, out)
           tab == [s.open_files EXCEPT ![fd] = f]
<1>1. PICK V, T : Good(V, s, T, {})
  BY DEF Ready, Sound
<1>2. s \in FsStates(V)
  BY <1>1 DEF Good
<1>3. s \in FsStates(V \cup {out})
  BY <1>2, MoreContents
<1>4. s.open_files \in OpenTables
  BY <1>2, Fields
<1>5. tab \in OpenTables /\ tab[fd] = f /\ \A g \in Fds \ {fd} : tab[g] = s.open_files[g]
  BY <1>4 DEF OpenTables, OpenFiles
<1>6. t = [s EXCEPT !.open_files = tab, !.out = out]
  BY DEF Described
<1> HIDE DEF tab, t
<1>7. /\ t \in FsStates(V \cup {out}) /\ SameTables(s, t) /\ t.disk = s.disk /\ t.open_files = tab
      /\ t.fs_mounted = s.fs_mounted
  BY <1>3, <1>5, <1>6 DEF FsStates, SameTables
<1>8. AliveIn(t)
  <2>1. ASSUME NEW g \in Fds, t.open_files[g].used PROVE IsRegular(t, t.open_files[g].inode_index)
    <3>1. CASE g = fd
      BY <1>5, <1>7, <2>1, <3>1 DEF IsRegular, SameTables
    <3>2. CASE g # fd
      <4>1. IsRegular(s, s.open_files[g].inode_index) /\ t.open_files[g] = s.open_files[g]
        BY <1>5, <1>7, <2>1, <3>2 DEF Ready, AliveIn
      <4> QED BY <1>7, <4>1 DEF IsRegular, SameTables
    <3> QED BY <3>1, <3>2
  <2> QED BY <2>1 DEF AliveIn
<1>9. Ready(t)
  BY <1>7, <1>8, StaysReady
<1> QED BY <1>7, <1>9 DEF t

\* The forms in which the calls change an entry.
LEMMA EntrySet ==
  ASSUME NEW V, NEW s \in FsStates(V), NEW fd \in Fds, NEW f
  PROVE  Entry(s, fd, f) = Described(s, fd, f, s.out)
<1> DEFINE tab == [s.open_files EXCEPT ![fd] = f]
<1>1. Entry(s, fd, f) = [s EXCEPT !.open_files = tab]
  BY DEF Entry
<1> HIDE DEF tab
<1>2. [s EXCEPT !.open_files = tab] = [s EXCEPT !.open_files = tab, !.out = s.out]
  BY DEF FsStates
<1> QED BY <1>1, <1>2 DEF tab, Described

\* An entry, and one with another offset.
LEMMA EntryAt ==
  ASSUME NEW V, NEW s \in FsStates(V), NEW fd \in Fds
  PROVE  /\ s.open_files[fd] \in OpenFiles
         /\ s.open_files[fd].used \in BOOLEAN /\ s.open_files[fd].inode_index \in Inodes \cup {INVALID}
         /\ s.open_files[fd].offset \in 0 .. SIMPLEFS_MAX_FILE_SIZE
         /\ \A x \in 0 .. SIMPLEFS_MAX_FILE_SIZE :
              /\ At(s.open_files[fd], x) \in OpenFiles
              /\ At(s.open_files[fd], x).used = s.open_files[fd].used
              /\ At(s.open_files[fd], x).inode_index = s.open_files[fd].inode_index
<1>1. s.open_files \in OpenTables
  BY Fields
<1>2. s.open_files[fd] \in OpenFiles
  BY <1>1 DEF OpenTables, OpenFiles
<1> QED BY <1>2 DEF OpenFiles, At

\* The offset changes, and what was read is returned.
LEMMA EntryShifted ==
  ASSUME NEW V, NEW s \in FsStates(V), NEW fd \in Fds, NEW x, NEW out
  PROVE  /\ ShiftedRead(s, fd, x, out) = Described(s, fd, At(s.open_files[fd], x), out)
         /\ Shifted(s, fd, x) = Described(s, fd, At(s.open_files[fd], x), s.out)
<1> DEFINE f == s.open_files[fd]
           g == At(f, x)
           tab == [s.open_files EXCEPT ![fd] = g]
<1>1. f \in OpenFiles
  BY EntryAt
<1>2. [f EXCEPT !.offset = x] = g
  BY <1>1 DEF OpenFiles, At
<1>3. [s.open_files EXCEPT ![fd].offset = x] = tab
  BY <1>2
<1> HIDE DEF g, tab
<1>4. ShiftedRead(s, fd, x, out) = [s EXCEPT !.open_files = tab, !.out = out]
  BY <1>3 DEF ShiftedRead
<1>5. Shifted(s, fd, x) = [s EXCEPT !.open_files = tab]
  BY <1>3 DEF Shifted
<1>6. [s EXCEPT !.open_files = tab] = [s EXCEPT !.open_files = tab, !.out = s.out]
  BY DEF FsStates
<1> QED BY <1>4, <1>5, <1>6 DEF g, tab, Described

\* The states of the calls on descriptors.
LEMMA ReadyFields ==
  ASSUME NEW s, Ready(s)
  PROVE  /\ \E V : s \in FsStates(V)
         /\ Sound(s, {}) /\ s.inode_table \in InodeTables /\ s.inode_bitmap \subseteq Inodes
         /\ s.open_files \in OpenTables /\ s.fs_mounted \in BOOLEAN
         /\ \A i : IsRegular(s, i) =>
              i \in Inodes /\ s.inode_table[i].size \in Nat /\ s.inode_table[i].size <= SIMPLEFS_MAX_FILE_SIZE
<1>1. Sound(s, {}) /\ \E V : s \in FsStates(V)
  BY DEF Ready, Sound, Good
<1>2. s.inode_table \in InodeTables /\ s.inode_bitmap \subseteq Inodes /\ s.open_files \in OpenTables
      /\ s.fs_mounted \in BOOLEAN
  BY <1>1, SoundFields
<1>3. ASSUME NEW i, IsRegular(s, i)
      PROVE  i \in Inodes /\ s.inode_table[i].size \in Nat /\ s.inode_table[i].size <= SIMPLEFS_MAX_FILE_SIZE
  <2>1. i \in Inodes /\ s.inode_table[i].type = "regular" /\ s.inode_table[i] \in InodeSet
    BY <1>2, <1>3 DEF IsRegular, InodeTables
  <2> QED BY <2>1, InodeFields DEF LargestOf
<1> QED BY <1>1, <1>2, <1>3

\* A call that fails leaves the state as it is.
LEMMA RefusedReady ==
  ASSUME NEW s, Ready(s)
  PROVE  Ready(Fail(s)) /\ Fail(s).fs_mounted = s.fs_mounted
<1>1. PICK V : s \in FsStates(V)
  BY ReadyFields
<1> DEFINE t == Fail(s)
<1>2. t \in FsStates(V) /\ SameMemory(s, t) /\ t.disk = s.disk
  BY <1>1, SetsOk DEF Fail
<1> HIDE DEF t
<1>3. AliveIn(t)
  BY <1>2 DEF Ready, AliveIn, IsRegular, SameMemory, SameTables, SameCaller
<1>4. Ready(t)
  BY <1>2, <1>3, StaysReady DEF SameMemory
<1> QED BY <1>2, <1>4 DEF SameMemory, SameCaller, t

\* simplefs_open.
LEMMA OpenReady ==
  ASSUME NEW s, Ready(s), NEW name
  PROVE  Ready(simplefs_open(s, name)) /\ simplefs_open(s, name).fs_mounted = s.fs_mounted
<1> DEFINE free == {fd \in Fds : ~s.open_files[fd].used}
           i == find_entry_in_directory(s, s.current_directory, name)
           f == [used |-> TRUE, inode_index |-> i, offset |-> 0]
           x == Entry(s, Min(free), f)
           refused == ~NamesFile(s, name) \/ free = {}
<1>1. simplefs_open(s, name) = IF refused THEN Fail(s) ELSE x
  BY DEF simplefs_open, Entry
<1>2. NamesFile(s, name) => IsRegular(s, i)
  BY DEF NamesFile
<1> HIDE DEF i
<1>3. ASSUME ~refused PROVE Ready(x) /\ x.fs_mounted = s.fs_mounted
  <2>1. IsRegular(s, i) /\ i \in Inodes /\ free # {} /\ free \subseteq Fds
    BY <1>2, <1>3, ReadyFields
  <2>2. Fds \subseteq Nat
    BY SimpleFsAssumption DEF Fds
  <2> HIDE DEF free
  <2>3. Min(free) \in Fds
    BY <2>1, <2>2, FirstFit
  <2>4. PICK V : s \in FsStates(V)
    BY ReadyFields
  <2>5. f \in OpenFiles /\ f.inode_index = i
    BY <2>1, NoPointers DEF OpenFiles
  <2> HIDE DEF f
  <2>6. x = Described(s, Min(free), f, s.out)
    BY <2>3, <2>4, EntrySet
  <2> HIDE DEF x
  <2> QED BY <2>1, <2>3, <2>5, <2>6, ChangesDescriptor
<1>4. Ready(Fail(s)) /\ Fail(s).fs_mounted = s.fs_mounted
  BY RefusedReady
<1> HIDE DEF x, refused
<1> QED BY <1>1, <1>3, <1>4

\* simplefs_close.
LEMMA CloseReady ==
  ASSUME NEW s, Ready(s), NEW fd \in Fds
  PROVE  Ready(simplefs_close(s, fd)) /\ simplefs_close(s, fd).fs_mounted = s.fs_mounted
<1> DEFINE f == [used |-> FALSE, inode_index |-> INVALID, offset |-> 0]
           x == Entry(s, fd, f)
<1>1. reset_open_files[fd] = f
  BY DEF reset_open_files
<1>2. simplefs_close(s, fd) = IF ~s.open_files[fd].used THEN Fail(s) ELSE x
  BY <1>1 DEF simplefs_close, Entry
<1>3. PICK V : s \in FsStates(V)
  BY ReadyFields
<1>4. f \in OpenFiles /\ ~f.used
  BY NoPointers DEF OpenFiles
<1> HIDE DEF f
<1>5. x = Described(s, fd, f, s.out)
  BY <1>3, EntrySet
<1> HIDE DEF x
<1>6. Ready(x) /\ x.fs_mounted = s.fs_mounted
  BY <1>4, <1>5, ChangesDescriptor
<1>7. Ready(Fail(s)) /\ Fail(s).fs_mounted = s.fs_mounted
  BY RefusedReady
<1> QED BY <1>2, <1>6, <1>7

\* simplefs_read_fd: the offset stays within the file.
LEMMA ReadReady ==
  ASSUME NEW s, Ready(s), NEW fd \in Fds
  PROVE  Ready(simplefs_read_fd(s, fd)) /\ simplefs_read_fd(s, fd).fs_mounted = s.fs_mounted
<1> DEFINE f == s.open_files[fd]
           bytes == read_inode_bytes(s, f.inode_index, f.offset, SIMPLEFS_MAX_FILE_SIZE)
           offset == f.offset + Len(bytes)
           x == ShiftedRead(s, fd, offset, bytes)
           refused == ~s.fs_mounted \/ ~f.used \/ f.inode_index \notin s.inode_bitmap
<1>1. simplefs_read_fd(s, fd) = IF refused THEN Fail(s) ELSE x
  BY DEF simplefs_read_fd, ShiftedRead
<1>2. PICK V : s \in FsStates(V)
  BY ReadyFields
<1>3. f.used \in BOOLEAN /\ f.inode_index \in Inodes \cup {INVALID} /\ f.offset \in 0 .. SIMPLEFS_MAX_FILE_SIZE
  BY <1>2, EntryAt
<1>4. ASSUME ~refused PROVE Ready(x) /\ x.fs_mounted = s.fs_mounted
  <2>1. f.used /\ IsRegular(s, f.inode_index)
    BY <1>4 DEF Ready, AliveIn
  <2>2. f.inode_index \in Inodes /\ s.inode_table \in InodeTables /\ s.inode_table[f.inode_index].size \in Nat
        /\ s.inode_table[f.inode_index].size <= SIMPLEFS_MAX_FILE_SIZE
    BY <2>1, ReadyFields
  <2>3. SIMPLEFS_MAX_FILE_SIZE \in Nat /\ f.offset \in Nat
    BY <1>3, NoPointers
  <2>4. Len(bytes) \in Nat /\ (Len(bytes) = 0 \/ f.offset + Len(bytes) <= s.inode_table[f.inode_index].size)
    BY <2>2, <2>3, ReadsInode
  <2> HIDE DEF bytes
  <2>5. offset \in 0 .. SIMPLEFS_MAX_FILE_SIZE
    BY <1>3, <2>2, <2>3, <2>4
  <2> HIDE DEF offset
  <2>6. x = Described(s, fd, At(f, offset), bytes)
    BY <1>2, EntryShifted
  <2>7. At(f, offset) \in OpenFiles /\ At(f, offset).used = f.used /\ At(f, offset).inode_index = f.inode_index
    BY <1>2, <2>5, EntryAt
  <2> HIDE DEF x, f
  <2> QED BY <2>1, <2>6, <2>7, ChangesDescriptor
<1>5. Ready(Fail(s)) /\ Fail(s).fs_mounted = s.fs_mounted
  BY RefusedReady
<1> HIDE DEF x, refused
<1> QED BY <1>1, <1>4, <1>5

\* simplefs_seek.
LEMMA SeekReady ==
  ASSUME NEW s, Ready(s), NEW fd \in Fds, NEW offset \in Nat
  PROVE  Ready(simplefs_seek(s, fd, offset)) /\ simplefs_seek(s, fd, offset).fs_mounted = s.fs_mounted
<1> DEFINE f == s.open_files[fd]
           x == Shifted(s, fd, offset)
           refused == \/ ~s.fs_mounted \/ ~f.used
                      \/ f.inode_index \notin s.inode_bitmap \/ offset > s.inode_table[f.inode_index].size
<1>1. simplefs_seek(s, fd, offset) = IF refused THEN Fail(s) ELSE x
  BY DEF simplefs_seek, Shifted
<1>2. PICK V : s \in FsStates(V)
  BY ReadyFields
<1>3. f.used \in BOOLEAN /\ f.inode_index \in Inodes \cup {INVALID} /\ f.offset \in 0 .. SIMPLEFS_MAX_FILE_SIZE
  BY <1>2, EntryAt
<1>4. ASSUME ~refused PROVE Ready(x) /\ x.fs_mounted = s.fs_mounted
  <2>1. f.used /\ IsRegular(s, f.inode_index)
    BY <1>4 DEF Ready, AliveIn
  <2>2. s.inode_table[f.inode_index].size \in Nat /\ s.inode_table[f.inode_index].size <= SIMPLEFS_MAX_FILE_SIZE
    BY <2>1, ReadyFields
  <2>3. offset \in 0 .. SIMPLEFS_MAX_FILE_SIZE
    BY <1>4, <2>2, NoPointers
  <2>4. x = Described(s, fd, At(f, offset), s.out)
    BY <1>2, EntryShifted
  <2>5. At(f, offset) \in OpenFiles /\ At(f, offset).used = f.used /\ At(f, offset).inode_index = f.inode_index
    BY <1>2, <2>3, EntryAt
  <2> HIDE DEF x, f
  <2> QED BY <2>1, <2>4, <2>5, ChangesDescriptor
<1>5. Ready(Fail(s)) /\ Fail(s).fs_mounted = s.fs_mounted
  BY RefusedReady
<1> HIDE DEF x, refused
<1> QED BY <1>1, <1>4, <1>5

\* simplefs_change_dir.
LEMMA ChangeDirReady ==
  ASSUME NEW s, Ready(s), NEW name
  PROVE  Ready(simplefs_change_dir(s, name)) /\ simplefs_change_dir(s, name).fs_mounted = s.fs_mounted
<1> DEFINE i == find_entry_in_directory(s, s.current_directory, name)
           x(d) == [s EXCEPT !.current_directory = d]
           t == simplefs_change_dir(s, name)
<1>1. \/ t = Fail(s) \/ t = x(SIMPLEFS_ROOT_INODE)
      \/ IsDirectory(s, i) /\ t = x(i)
  BY DEF simplefs_change_dir
<1>2. IsDirectory(s, i) => i \in Inodes
  BY ReadyFields DEF IsDirectory
<1>3. PICK V : s \in FsStates(V)
  BY ReadyFields
<1> HIDE DEF i, t
<1>4. ASSUME NEW d \in Inodes PROVE Ready(x(d)) /\ x(d).fs_mounted = s.fs_mounted
  <2>1. /\ x(d) \in FsStates(V) /\ SameTables(s, x(d)) /\ x(d).disk = s.disk /\ x(d).open_files = s.open_files
        /\ x(d).fs_mounted = s.fs_mounted
    BY <1>3 DEF FsStates, SameTables
  <2> HIDE DEF x
  <2>2. AliveIn(x(d))
    BY <2>1 DEF Ready, AliveIn, IsRegular, SameTables
  <2> QED BY <2>1, <2>2, StaysReady
<1>5. Ready(Fail(s)) /\ Fail(s).fs_mounted = s.fs_mounted
  BY RefusedReady
<1> HIDE DEF x
<1>6. Ready(t) /\ t.fs_mounted = s.fs_mounted
  BY <1>1, <1>2, <1>4, <1>5, FsSizes
<1> QED BY <1>6 DEF t

\* simplefs_write_fd.
LEMMA WriteReady ==
  ASSUME NEW s, Ready(s), s.fault.kind = "none", NEW fd \in Fds, NEW data, IsSequence(data)
  PROVE  Ready(simplefs_write_fd(s, fd, data)) /\ simplefs_write_fd(s, fd, data).fs_mounted = s.fs_mounted
<1> DEFINE f == s.open_files[fd]
           old == read_inode_bytes(s, f.inode_index, 0, SIMPLEFS_MAX_FILE_SIZE)
           w == write_inode_data(s, f.inode_index, Overwritten(old, f.offset, data))
           offset == f.offset + Len(data)
           x == Shifted(w, fd, offset)
           refused == \/ ~s.fs_mounted \/ ~f.used
                      \/ offset > SIMPLEFS_MAX_FILE_SIZE \/ f.inode_index \notin s.inode_bitmap
<1>1. simplefs_write_fd(s, fd, data) = IF refused THEN Fail(s) ELSE IF w.ok THEN x ELSE w
  BY DEF simplefs_write_fd, Then, Shifted
<1>2. PICK V : s \in FsStates(V)
  BY ReadyFields
<1>3. f.used \in BOOLEAN /\ f.inode_index \in Inodes \cup {INVALID} /\ f.offset \in 0 .. SIMPLEFS_MAX_FILE_SIZE
  BY <1>2, EntryAt
<1>4. ASSUME ~refused PROVE /\ Ready(w) /\ w.fs_mounted = s.fs_mounted
                            /\ Ready(x) /\ x.fs_mounted = s.fs_mounted
  <2>1. f.used /\ f.inode_index \in Inodes /\ s.inode_table \in InodeTables
    BY <1>4, ReadyFields
  <2>2. SIMPLEFS_MAX_FILE_SIZE \in Nat /\ f.offset \in Nat /\ 0 \in Nat
    BY <1>3, NoPointers
  <2>3. IsSequence(old)
    BY <2>1, <2>2, ReadsInode
  <2> HIDE DEF old
  <2>4. Len(Overwritten(old, f.offset, data)) \in Nat
    BY <2>2, <2>3, OverwritesSequence, SequenceLength
  <2>5. Finished(s, w)
    BY <2>4, WritesInode DEF Ready
  <2> HIDE DEF w
  <2>6. Outcome(s, w, {})
    BY <2>5, FinishedOutcome DEF Ready
  <2>7. Effect(s, w)
    BY <2>6, EffectKeeping
  <2>8. Ready(w) /\ w.fs_mounted = s.fs_mounted
    BY <2>7, EffectReady
  <2>9. w.open_files = s.open_files
    BY <2>7 DEF Effect, Changes, SameCaller
  <2>10. IsRegular(w, f.inode_index)
    BY <2>1, <2>8, <2>9 DEF Ready, AliveIn
  <2>11. offset \in 0 .. SIMPLEFS_MAX_FILE_SIZE
    BY <1>4, <2>2, SequenceLength
  <2>12. PICK W : w \in FsStates(W)
    BY <2>8, ReadyFields
  <2> HIDE DEF offset
  <2>13. x = Described(w, fd, At(f, offset), w.out)
    BY <2>9, <2>12, EntryShifted
  <2>14. At(f, offset) \in OpenFiles /\ At(f, offset).used = f.used /\ At(f, offset).inode_index = f.inode_index
    BY <1>2, <2>11, EntryAt
  <2> HIDE DEF x, f
  <2>15. Ready(x) /\ x.fs_mounted = w.fs_mounted
    BY <2>8, <2>10, <2>13, <2>14, ChangesDescriptor
  <2> QED BY <2>8, <2>15
<1>5. Ready(Fail(s)) /\ Fail(s).fs_mounted = s.fs_mounted
  BY RefusedReady
<1> HIDE DEF x, w, refused
<1> QED BY <1>1, <1>4, <1>5

-----------------------------------------------------------------------------
(* A call to which a fault happens does not succeed: a sector write that   *)
(* fails is reported by every function above it.                           *)

\* The fault f is still to come: no sector write has failed.
Unstruck(f, t) == t.fault = f /\ t.done \in Nat /\ (f.kind # "none" => t.done <= f.at)
HasFields(t) == {"ok", "done", "fault"} \subseteq DOMAIN t
Reports(f, t) == HasFields(t) /\ (t.ok => Unstruck(f, t))

\* A sector write.
LEMMA SectorReports ==
  ASSUME NEW f, f.at \in Nat, f.kind \in {"none", "lost", "late", "stop"},
         NEW s, HasFields(s), NEW image
  PROVE  LET t == ata_write_sector(s, image) IN
         HasFields(t) /\ (Unstruck(f, s) => Reports(f, t))
<1> DEFINE fails == \/ s.fault.kind = "stop" /\ s.done >= s.fault.at
                    \/ s.fault.kind \in {"lost", "late"} /\ s.done = s.fault.at
           kept == fails /\ s.fault.kind # "late"
           t == ata_write_sector(s, image)
<1>1. t = [s EXCEPT !.done = s.done + 1, !.ok = ~fails, !.disk = IF kept THEN s.disk ELSE image]
  BY DEF ata_write_sector
<1> HIDE DEF t
<1>2. HasFields(t) /\ t.ok = ~fails /\ t.done = s.done + 1 /\ t.fault = s.fault
  <2> HIDE DEF fails, kept
  <2> QED BY <1>1 DEF HasFields
<1>3. ASSUME Unstruck(f, s), ~fails PROVE Unstruck(f, t)
  BY <1>2, <1>3 DEF Unstruck
<1> HIDE DEF fails
<1> QED BY <1>2, <1>3 DEF Reports, t

\* What keeps the fields.
LEMMA ReportsSame ==
  ASSUME NEW f, NEW s, NEW t, Reports(f, s), HasFields(t),
         t.ok = s.ok, t.done = s.done, t.fault = s.fault
  PROVE  Reports(f, t)
BY DEF Reports, Unstruck

\* allocate_data_block.
LEMMA AllocateReports ==
  ASSUME NEW f, f.at \in Nat, f.kind \in {"none", "lost", "late", "stop"},
         NEW s, HasFields(s), Unstruck(f, s)
  PROVE  Reports(f, allocate_data_block(s))
<1> DEFINE b == Min(Blocks \ s.data_bitmap)
           a == [s EXCEPT !.data_bitmap = s.data_bitmap \cup {b}, !.block = b]
           w == ata_write_sector(a, [s.disk EXCEPT !.blocks[b] = ZeroBlock])
           u == [w EXCEPT !.data_bitmap = w.data_bitmap \ {b}]
<1>1. allocate_data_block(s) = IF Blocks \subseteq s.data_bitmap THEN Fail(s) ELSE IF w.ok THEN w ELSE u
  BY DEF allocate_data_block, OnFailure
<1>2. Reports(f, Fail(s))
  BY DEF Fail, Reports, HasFields
<1> HIDE DEF b
<1>3. HasFields(a) /\ a.done = s.done /\ a.fault = s.fault
  BY DEF HasFields
<1>4. Unstruck(f, a)
  BY <1>3 DEF Unstruck
<1> HIDE DEF a
<1>5. Reports(f, w)
  BY <1>3, <1>4, SectorReports
<1> HIDE DEF w
<1>6. HasFields(u) /\ u.ok = w.ok /\ u.done = w.done /\ u.fault = w.fault
  BY <1>5 DEF HasFields, Reports
<1> HIDE DEF u
<1>7. Reports(f, u)
  BY <1>5, <1>6, ReportsSame
<1> QED BY <1>1, <1>2, <1>5, <1>7

\* attach_block.
LEMMA AttachReports ==
  ASSUME NEW f, f.at \in Nat, f.kind \in {"none", "lost", "late", "stop"},
         NEW s, HasFields(s), Unstruck(f, s), NEW i, NEW n, NEW b
  PROVE  Reports(f, attach_block(s, i, n, b))
<1> DEFINE x == [s EXCEPT !.inode_table[i].direct_blocks[n + 1] = b]
           a == allocate_data_block(s)
           c == [a EXCEPT !.inode_table[i].indirect_block = a.block]
           w == write_indirect_block(c, i)
           t == IF s.inode_table[i].indirect_block # INVALID THEN s ELSE IF a.ok THEN w ELSE a
           u == [t EXCEPT !.table[n - SIMPLEFS_DIRECT_BLOCKS + 1] = b]
<1>1. attach_block(s, i, n, b) = IF n < SIMPLEFS_DIRECT_BLOCKS THEN x ELSE IF t.ok THEN u ELSE t
  BY DEF attach_block, attach_indirect, Then
<1>2. Reports(f, s)
  BY DEF Reports
<1>3. Reports(f, x)
  <2>1. HasFields(x) /\ x.ok = s.ok /\ x.done = s.done /\ x.fault = s.fault
    BY DEF HasFields
  <2> HIDE DEF x
  <2> QED BY <1>2, <2>1, ReportsSame
<1>4. Reports(f, a)
  BY AllocateReports
<1>5. ASSUME a.ok PROVE Reports(f, w)
  <2> HIDE DEF a
  <2>1. HasFields(c) /\ c.done = a.done /\ c.fault = a.fault
    BY <1>4 DEF HasFields, Reports
  <2>2. Unstruck(f, c)
    BY <1>4, <1>5, <2>1 DEF Unstruck, Reports
  <2> HIDE DEF c
  <2> QED BY <2>1, <2>2, SectorReports DEF write_indirect_block
<1> HIDE DEF a, w
<1>6. Reports(f, t)
  BY <1>2, <1>4, <1>5
<1> HIDE DEF t
<1>7. Reports(f, u)
  <2>1. HasFields(u) /\ u.ok = t.ok /\ u.done = t.done /\ u.fault = t.fault
    BY <1>6 DEF HasFields, Reports
  <2> HIDE DEF u
  <2> QED BY <1>6, <2>1, ReportsSame
<1> HIDE DEF x, u
<1> QED BY <1>1, <1>3, <1>6, <1>7

\* write_block.
LEMMA BlockReports ==
  ASSUME NEW f, f.at \in Nat, f.kind \in {"none", "lost", "late", "stop"},
         NEW s, HasFields(s), Unstruck(f, s), NEW i, NEW n, NEW cells
  PROVE  Reports(f, write_block(s, i, n, cells))
<1> DEFINE a == allocate_data_block(s)
           w == ata_write_sector(a, [a.disk EXCEPT !.blocks[a.block] = [kind |-> "cells", v |-> cells]])
           u == [w EXCEPT !.data_bitmap = w.data_bitmap \ {a.block}]
           t == IF w.ok THEN w ELSE u
<1>1. write_block(s, i, n, cells) = IF a.ok THEN IF t.ok THEN attach_block(t, i, n, a.block) ELSE t ELSE a
  BY DEF write_block, Then, OnFailure
<1>2. Reports(f, a)
  BY AllocateReports
<1> HIDE DEF a
<1>3. ASSUME a.ok PROVE Reports(f, w)
  BY <1>2, <1>3, SectorReports DEF Reports
<1> HIDE DEF w
<1>4. ASSUME a.ok PROVE Reports(f, t)
  <2>1. Reports(f, w)
    BY <1>3, <1>4
  <2>2. HasFields(u) /\ u.ok = w.ok /\ u.done = w.done /\ u.fault = w.fault
    BY <2>1 DEF HasFields, Reports
  <2> HIDE DEF u
  <2>3. Reports(f, u)
    BY <2>1, <2>2, ReportsSame
  <2> QED BY <2>1, <2>3
<1> HIDE DEF t
<1>5. ASSUME a.ok, t.ok PROVE Reports(f, attach_block(t, i, n, a.block))
  BY <1>4, <1>5, AttachReports DEF Reports
<1> QED BY <1>1, <1>2, <1>4, <1>5

\* The loop of write_blocks runs, whatever it works on.
LEMMA LoopRuns ==
  ASSUME NEW f0, NEW i, NEW data, NEW z, NEW N \in Nat
  PROVE  LET g == LoopRun(f0, i, data, z, N) IN
         g[0] = f0 /\ \A n \in 1 .. N : g[n] = Sector(g[n - 1], i, data, z, n)
<1> DEFINE T == {n \in 0 .. N : \E g : g = LoopBody(g, f0, i, data, z, n)}
<1>1. 0 \in T
  <2> DEFINE g == [n \in 0 .. 0 |-> f0]
  <2>1. LoopBody(g, f0, i, data, z, 0) = g
    BY DEF LoopBody
  <2> HIDE DEF g
  <2> QED BY <2>1
<1>2. ASSUME NEW n \in 0 .. N - 1, n \in T PROVE n + 1 \in T
  <2>1. PICK g : g = LoopBody(g, f0, i, data, z, n)
    BY <1>2
  <2> DEFINE last == Sector(g[n], i, data, z, n + 1)
             h == [k \in 0 .. n + 1 |-> IF k <= n THEN g[k] ELSE last]
  <2>2. \A k \in 0 .. n : h[k] = g[k]
    OBVIOUS
  <2>3. h[n + 1] = last
    OBVIOUS
  <2>4. \A k \in 0 .. n : g[k] = IF k = 0 THEN f0 ELSE Sector(g[k - 1], i, data, z, k)
    BY <2>1 DEF LoopBody
  <2>5. ASSUME NEW k \in 0 .. n + 1 PROVE h[k] = IF k = 0 THEN f0 ELSE Sector(h[k - 1], i, data, z, k)
    <3>1. CASE k = n + 1
      <4>1. k - 1 = n /\ k # 0 /\ n \in 0 .. n
        BY <3>1
      <4>2. h[k - 1] = g[n]
        BY <2>2, <4>1
      <4> HIDE DEF h
      <4> QED BY <2>3, <3>1, <4>1, <4>2
    <3>2. CASE k # n + 1
      <4>1. k \in 0 .. n /\ (k # 0 => k - 1 \in 0 .. n)
        BY <3>2
      <4> HIDE DEF h
      <4> QED BY <2>2, <2>4, <4>1
    <3> QED BY <3>1, <3>2
  <2>6. h = LoopBody(h, f0, i, data, z, n + 1)
    <3>1. h = [k \in 0 .. n + 1 |-> h[k]]
      OBVIOUS
    <3> HIDE DEF h
    <3> QED BY <2>5, <3>1 DEF LoopBody
  <2> QED BY <2>6
<1> HIDE DEF T
<1>3. 0 .. N \subseteq T
  BY <1>1, <1>2, IntervalInduction
<1>4. \E g : g = LoopBody(g, f0, i, data, z, N)
  BY <1>3 DEF T
<1> DEFINE g == LoopRun(f0, i, data, z, N)
<1>5. g = LoopBody(g, f0, i, data, z, N)
  BY <1>4 DEF LoopRun
<1> HIDE DEF g
<1>6. \A n \in 1 .. N : n \in 0 .. N /\ n # 0
  OBVIOUS
<1>7. 0 \in 0 .. N
  OBVIOUS
<1>8. g[0] = f0 /\ \A n \in 1 .. N : g[n] = Sector(g[n - 1], i, data, z, n)
  BY <1>5, <1>6, <1>7 DEF LoopBody
<1> QED BY <1>8 DEF g

\* write_blocks.
LEMMA BlocksReport ==
  ASSUME NEW f, f.at \in Nat, f.kind \in {"none", "lost", "late", "stop"},
         NEW s, HasFields(s), Unstruck(f, s), NEW i, NEW data, Len(data) \in Nat
  PROVE  Reports(f, write_blocks(s, i, data))
<1> DEFINE z == SectorOf(s.inode_table[i])
           N == Required(data, z)
           f0 == [s EXCEPT !.ok = TRUE]
           g == LoopRun(f0, i, data, z, N)
           t == g[N]
<1>1. write_blocks(s, i, data) = IF t.ok /\ Indirect(t, i) # INVALID THEN write_indirect_block(t, i) ELSE t
  BY BlocksLoop
<1>2. N \in Nat
  <2>1. z \in Nat \ {0}
    BY FsSizes DEF SectorOf
  <2> HIDE DEF z
  <2>2. Len(data) + z - 1 \in Nat
    BY <2>1
  <2> QED BY <2>1, <2>2, Division DEF Required
<1>3. Reports(f, f0)
  <2>1. HasFields(f0) /\ f0.done = s.done /\ f0.fault = s.fault
    BY DEF HasFields
  <2> HIDE DEF f0
  <2> QED BY <2>1 DEF Reports, Unstruck
<1> HIDE DEF f0, z, N
<1>4. g[0] = f0 /\ \A n \in 1 .. N : g[n] = Sector(g[n - 1], i, data, z, n)
  BY <1>2, LoopRuns
<1> HIDE DEF g
<1> DEFINE T == {n \in 0 .. N : Reports(f, g[n])}
<1>5. 0 \in T
  BY <1>2, <1>3, <1>4
<1>6. ASSUME NEW n \in 0 .. N - 1, n \in T PROVE n + 1 \in T
  <2>1. n + 1 \in 1 .. N /\ n + 1 \in 0 .. N /\ (n + 1) - 1 = n
    BY <1>2
  <2>2. g[n + 1] = IF g[n].ok THEN write_block(g[n], i, n, CellsOf(data, z, n)) ELSE g[n]
    BY <1>4, <2>1 DEF Sector
  <2>3. Reports(f, g[n])
    BY <1>6
  <2>4. ASSUME g[n].ok PROVE Reports(f, write_block(g[n], i, n, CellsOf(data, z, n)))
    BY <2>3, <2>4, BlockReports DEF Reports
  <2> QED BY <2>1, <2>2, <2>3, <2>4
<1> HIDE DEF T
<1>7. 0 .. N \subseteq T
  BY <1>2, <1>5, <1>6, IntervalInduction
<1>8. Reports(f, t)
  BY <1>2, <1>7 DEF T
<1> HIDE DEF t
<1>9. ASSUME t.ok PROVE Reports(f, write_indirect_block(t, i))
  BY <1>8, <1>9, SectorReports DEF Reports, write_indirect_block
<1> QED BY <1>1, <1>8, <1>9

\* The loop of write_inode_table.
TablePass(t, n) == IF t.ok THEN ata_write_sector(t, SectorImage(t, n - 1)) ELSE t
TableBody(g, f0, N) == [n \in 0 .. N |-> IF n = 0 THEN f0 ELSE TablePass(g[n - 1], n)]
TableRun(f0, N) == CHOOSE g : g = TableBody(g, f0, N)

\* It runs, whatever it works on.
LEMMA TableRuns ==
  ASSUME NEW f0, NEW N \in Nat
  PROVE  LET g == TableRun(f0, N) IN
         g[0] = f0 /\ \A n \in 1 .. N : g[n] = TablePass(g[n - 1], n)
<1> DEFINE T == {n \in 0 .. N : \E g : g = TableBody(g, f0, n)}
<1>1. 0 \in T
  <2> DEFINE g == [n \in 0 .. 0 |-> f0]
  <2>1. TableBody(g, f0, 0) = g
    BY DEF TableBody
  <2> HIDE DEF g
  <2> QED BY <2>1
<1>2. ASSUME NEW n \in 0 .. N - 1, n \in T PROVE n + 1 \in T
  <2>1. PICK g : g = TableBody(g, f0, n)
    BY <1>2
  <2> DEFINE last == TablePass(g[n], n + 1)
             h == [k \in 0 .. n + 1 |-> IF k <= n THEN g[k] ELSE last]
  <2>2. \A k \in 0 .. n : h[k] = g[k]
    OBVIOUS
  <2>3. h[n + 1] = last
    OBVIOUS
  <2>4. \A k \in 0 .. n : g[k] = IF k = 0 THEN f0 ELSE TablePass(g[k - 1], k)
    BY <2>1 DEF TableBody
  <2>5. ASSUME NEW k \in 0 .. n + 1 PROVE h[k] = IF k = 0 THEN f0 ELSE TablePass(h[k - 1], k)
    <3>1. CASE k = n + 1
      <4>1. k - 1 = n /\ k # 0 /\ n \in 0 .. n
        BY <3>1
      <4>2. h[k - 1] = g[n]
        BY <2>2, <4>1
      <4> HIDE DEF h
      <4> QED BY <2>3, <3>1, <4>1, <4>2
    <3>2. CASE k # n + 1
      <4>1. k \in 0 .. n /\ (k # 0 => k - 1 \in 0 .. n)
        BY <3>2
      <4> HIDE DEF h
      <4> QED BY <2>2, <2>4, <4>1
    <3> QED BY <3>1, <3>2
  <2>6. h = TableBody(h, f0, n + 1)
    <3>1. h = [k \in 0 .. n + 1 |-> h[k]]
      OBVIOUS
    <3> HIDE DEF h
    <3> QED BY <2>5, <3>1 DEF TableBody
  <2> QED BY <2>6
<1> HIDE DEF T
<1>3. 0 .. N \subseteq T
  BY <1>1, <1>2, IntervalInduction
<1>4. \E g : g = TableBody(g, f0, N)
  BY <1>3 DEF T
<1> DEFINE g == TableRun(f0, N)
<1>5. g = TableBody(g, f0, N)
  BY <1>4 DEF TableRun
<1> HIDE DEF g
<1>6. \A n \in 1 .. N : n \in 0 .. N /\ n # 0
  OBVIOUS
<1>7. 0 \in 0 .. N
  OBVIOUS
<1>8. g[0] = f0 /\ \A n \in 1 .. N : g[n] = TablePass(g[n - 1], n)
  BY <1>5, <1>6, <1>7 DEF TableBody
<1> QED BY <1>8 DEF g

\* write_inode_table keeps the fields, and reports a fault it meets.
LEMMA TableReports ==
  ASSUME NEW f, f.at \in Nat, f.kind \in {"none", "lost", "late", "stop"}, NEW s, HasFields(s)
  PROVE  LET t == write_inode_table(s) IN
         HasFields(t) /\ (Unstruck(f, s) => Reports(f, t))
<1> DEFINE N == SIMPLEFS_INODE_TABLE_SECTORS
           f0 == [s EXCEPT !.ok = TRUE]
           g == TableRun(f0, N)
           P(t) == HasFields(t) /\ (Unstruck(f, s) => Reports(f, t))
<1>1. write_inode_table(s) = g[N]
  BY DEF write_inode_table, Then, SectorImage, TableRun, TableBody, TablePass
<1>2. N \in Nat
  BY SectorsCover
<1>3. P(f0)
  <2>1. HasFields(f0) /\ f0.done = s.done /\ f0.fault = s.fault
    BY DEF HasFields
  <2> HIDE DEF f0
  <2> QED BY <2>1 DEF Reports, Unstruck
<1> HIDE DEF f0, N
<1>4. g[0] = f0 /\ \A n \in 1 .. N : g[n] = TablePass(g[n - 1], n)
  BY <1>2, TableRuns
<1> HIDE DEF g
<1> DEFINE T == {n \in 0 .. N : P(g[n])}
<1>5. 0 \in T
  <2> HIDE DEF P
  <2> QED BY <1>2, <1>3, <1>4
<1>6. ASSUME NEW n \in 0 .. N - 1, n \in T PROVE n + 1 \in T
  <2>1. n + 1 \in 1 .. N /\ n + 1 \in 0 .. N /\ (n + 1) - 1 = n
    BY <1>2
  <2>2. g[n + 1] = IF g[n].ok THEN ata_write_sector(g[n], SectorImage(g[n], n)) ELSE g[n]
    BY <1>4, <2>1 DEF TablePass
  <2>3. P(g[n])
    BY <1>6
  <2>4. ASSUME g[n].ok PROVE P(ata_write_sector(g[n], SectorImage(g[n], n)))
    BY <2>3, <2>4, SectorReports DEF Reports
  <2> HIDE DEF P
  <2> QED BY <2>1, <2>2, <2>3, <2>4
<1> HIDE DEF T
<1>7. 0 .. N \subseteq T
  BY <1>2, <1>5, <1>6, IntervalInduction
<1>8. P(g[N])
  BY <1>2, <1>7 DEF T
<1> QED BY <1>1, <1>8

\* write_inode_data.
LEMMA InodeReports ==
  ASSUME NEW f, f.at \in Nat, f.kind \in {"none", "lost", "late", "stop"},
         NEW s, HasFields(s), Unstruck(f, s), NEW i, NEW data, Len(data) \in Nat
  PROVE  Reports(f, write_inode_data(s, i, data))
<1> DEFINE freed(t) == [t EXCEPT !.data_bitmap = t.data_bitmap \ BlocksOf(t, t.inode_table[i]),
                                 !.inode_table[i] = NewInode(t.inode_table[i].type)]
           a == [freed(s) EXCEPT !.table = NoTable, !.touched = freed(s).touched \cup {i}]
           b == write_blocks(a, i, data)
           e == write_info_block(freed(b))
           u == Fail(write_inode_table(e))
           t == IF b.ok THEN b ELSE u
           m == [t EXCEPT !.inode_table[i].size = Len(data)]
           w == write_info_block(m)
           v == IF w.ok THEN write_inode_table(w) ELSE w
<1>1. write_inode_data(s, i, data) = IF i \notin s.inode_bitmap \/ Len(data) > LargestOf(s.inode_table[i])
                                     THEN Fail(s) ELSE IF t.ok THEN v ELSE t
  BY DEF write_inode_data, write_metadata, Then, OnFailure, free_inode_blocks
<1>2. \A x : HasFields(x) => /\ HasFields(freed(x)) /\ freed(x).done = x.done /\ freed(x).fault = x.fault
                             /\ HasFields(Fail(x)) /\ Fail(x).ok = FALSE
  BY DEF HasFields, Fail
<1> HIDE DEF freed
<1>3. HasFields(a) /\ a.done = s.done /\ a.fault = s.fault
  BY <1>2 DEF HasFields
<1>4. Unstruck(f, a)
  BY <1>3 DEF Unstruck
<1> HIDE DEF a
<1>5. Reports(f, b)
  BY <1>3, <1>4, BlocksReport
<1> HIDE DEF b
<1>6. HasFields(e)
  BY <1>2, <1>5, SectorReports DEF Reports, write_info_block
<1> HIDE DEF e
<1>7. HasFields(u) /\ u.ok = FALSE
  BY <1>2, <1>6, TableReports
<1> HIDE DEF u
<1>8. Reports(f, t)
  BY <1>5, <1>7 DEF Reports
<1> HIDE DEF t
<1>9. ASSUME t.ok PROVE Reports(f, v)
  <2>1. HasFields(m) /\ m.done = t.done /\ m.fault = t.fault
    BY <1>8 DEF HasFields, Reports
  <2>2. Unstruck(f, m)
    BY <1>8, <1>9, <2>1 DEF Unstruck, Reports
  <2> HIDE DEF m
  <2>3. Reports(f, w)
    BY <2>1, <2>2, SectorReports DEF write_info_block
  <2> HIDE DEF w
  <2>4. ASSUME w.ok PROVE Reports(f, write_inode_table(w))
    BY <2>3, <2>4, TableReports DEF Reports
  <2> QED BY <2>3, <2>4
<1> HIDE DEF v
<1>10. Reports(f, Fail(s))
  BY <1>2 DEF Reports
<1> QED BY <1>1, <1>8, <1>9, <1>10

\* simplefs_write_fd, when the fault strikes one of its sector writes: it is
\* reported, the offset stays where it was, and the call has done no more than
\* write_inode_data.
LEMMA WriteStruck ==
  ASSUME NEW s, Ready(s), s.done = 0, s.fault.kind # "none", NEW fd \in Fds, NEW data, IsSequence(data),
         s.fault.at < simplefs_write_fd(s, fd, data).done
  PROVE  LET f == s.open_files[fd]
             new == Overwritten(read_inode_bytes(s, f.inode_index, 0, SIMPLEFS_MAX_FILE_SIZE), f.offset, data)
             w == write_inode_data(s, f.inode_index, new) IN
         /\ simplefs_write_fd(s, fd, data) = w
         /\ IsRegular(s, f.inode_index) /\ IsSequence(new) /\ Effect(s, w)
<1> DEFINE f == s.open_files[fd]
           old == read_inode_bytes(s, f.inode_index, 0, SIMPLEFS_MAX_FILE_SIZE)
           new == Overwritten(old, f.offset, data)
           w == write_inode_data(s, f.inode_index, new)
           offset == f.offset + Len(data)
           tab == [w.open_files EXCEPT ![fd].offset = offset]
           x == [w EXCEPT !.open_files = tab]
           t == simplefs_write_fd(s, fd, data)
           refused == \/ ~s.fs_mounted \/ ~f.used
                      \/ offset > SIMPLEFS_MAX_FILE_SIZE \/ f.inode_index \notin s.inode_bitmap
<1>1. t = IF refused THEN Fail(s) ELSE IF w.ok THEN x ELSE w
  BY DEF simplefs_write_fd, Then
<1>2. PICK V : s \in FsStates(V)
  BY ReadyFields
<1>3. s.fault.at \in Nat /\ s.fault.kind \in {"none", "lost", "late", "stop"} /\ HasFields(s)
  BY <1>2, Faulty DEF FsStates, HasFields
<1>4. ~refused
  <2>1. Fail(s).done = 0
    BY <1>2 DEF Fail, FsStates
  <2> HIDE DEF refused, t
  <2>2. refused => t.done = 0
    BY <1>1, <2>1
  <2>3. s.fault.at < t.done
    BY DEF t
  <2> QED BY <1>3, <2>2, <2>3
<1>5. f.used /\ f.inode_index \in Inodes /\ s.inode_table \in InodeTables /\ f.offset \in 0 .. SIMPLEFS_MAX_FILE_SIZE
  BY <1>2, <1>4, ReadyFields, EntryAt
<1>6. SIMPLEFS_MAX_FILE_SIZE \in Nat /\ f.offset \in Nat
  BY <1>5, NoPointers
<1>7. IsSequence(old)
  BY <1>5, <1>6, ReadsInode
<1> HIDE DEF old
<1>8. IsSequence(new) /\ Len(new) \in Nat
  BY <1>6, <1>7, OverwritesSequence, SequenceLength
<1> HIDE DEF new
<1>9. Finished(s, w)
  BY <1>8, WritesInode DEF Ready
<1>10. Reports(s.fault, w)
  <2>1. Unstruck(s.fault, s)
    BY <1>3 DEF Unstruck
  <2> QED BY <1>3, <1>8, <2>1, InodeReports
<1> HIDE DEF w
<1>11. Effect(s, w)
  BY <1>9, FinishedOutcome, EffectKeeping DEF Ready
<1>12. ~w.ok
  <2>1. ASSUME w.ok PROVE FALSE
    <3>1. w.done \in Nat /\ w.done <= s.fault.at
      BY <1>10, <2>1 DEF Reports, Unstruck
    <3>2. x.done = w.done
      <4> HIDE DEF tab
      <4> QED BY <1>10 DEF Reports, HasFields
    <3>3. s.fault.at < x.done
      <4> HIDE DEF x, refused
      <4> QED BY <1>1, <1>4, <2>1
    <3> QED BY <1>3, <3>1, <3>2, <3>3
  <2> QED BY <2>1
<1>13. t = w
  <2> HIDE DEF x, refused, t
  <2> QED BY <1>1, <1>4, <1>12
<1>14. IsRegular(s, f.inode_index)
  BY <1>5 DEF Ready, AliveIn
<1> QED BY <1>8, <1>11, <1>13, <1>14 DEF t, w, new, old

-----------------------------------------------------------------------------
(* mkfs.                                                                   *)

\* Without a fault a sector write succeeds.
LEMMA WritesWithoutFault ==
  ASSUME NEW V, NEW s \in FsStates(V), s.fault.kind = "none", NEW image
  PROVE  ata_write_sector(s, image).ok = TRUE
BY DEF ata_write_sector, FsStates

\* Without a fault a block is allocated when there is one.
LEMMA AllocatesWithoutFault ==
  ASSUME NEW V, NEW s \in FsStates(V), s.fault.kind = "none", ~(Blocks \subseteq s.data_bitmap)
  PROVE  allocate_data_block(s).ok = TRUE
<1> DEFINE b == Min(Blocks \ s.data_bitmap)
           db == s.data_bitmap \cup {b}
           a == [s EXCEPT !.data_bitmap = db, !.block = b]
           w == ata_write_sector(a, [s.disk EXCEPT !.blocks[b] = ZeroBlock])
<1>1. allocate_data_block(s) = IF w.ok THEN w ELSE [w EXCEPT !.data_bitmap = @ \ {b}]
  BY DEF allocate_data_block, OnFailure
<1>2. b \in Blocks
  BY FirstFit, FsSizes
<1> HIDE DEF b
<1>3. db \in SUBSET Blocks /\ b \in Pointer
  BY <1>2, Fields DEF Pointer
<1> HIDE DEF db
<1>4. a \in FsStates(V) /\ a.fault.kind = "none"
  BY <1>3 DEF FsStates
<1> HIDE DEF a
<1>5. w.ok = TRUE
  BY <1>4, WritesWithoutFault
<1> HIDE DEF w
<1> QED BY <1>1, <1>5

\* The loop of write_blocks for a single sector.
LEMMA LoopOnce ==
  ASSUME NEW f0, NEW i, NEW data, NEW z
  PROVE  LoopRun(f0, i, data, z, 1)[1] = Sector(f0, i, data, z, 1)
<1> DEFINE g == [n \in 0 .. 1 |-> IF n = 0 THEN f0 ELSE Sector(f0, i, data, z, 1)]
           up == LoopRun(f0, i, data, z, 1)
<1>1. g[0] = f0 /\ g[1] = Sector(f0, i, data, z, 1)
  OBVIOUS
<1>2. g = LoopBody(g, f0, i, data, z, 1)
  <2>1. ASSUME NEW n \in 0 .. 1 PROVE g[n] = IF n = 0 THEN f0 ELSE Sector(g[n - 1], i, data, z, n)
    <3>1. CASE n = 0
      BY <1>1, <3>1
    <3>2. CASE n = 1
      <4>1. n - 1 = 0
        BY <3>2
      <4> QED BY <1>1, <3>2, <4>1
    <3> QED BY <3>1, <3>2
  <2> QED BY <2>1 DEF LoopBody
<1>3. up = LoopBody(up, f0, i, data, z, 1)
  <2> HIDE DEF g
  <2> QED BY <1>2 DEF LoopRun
<1> HIDE DEF up
<1>4. 0 \in 0 .. 1 /\ 1 \in 0 .. 1 /\ 1 # 0 /\ 1 - 1 = 0
  OBVIOUS
<1>5. up[0] = f0 /\ up[1] = Sector(up[0], i, data, z, 1)
  BY <1>3, <1>4 DEF LoopBody
<1> QED BY <1>5 DEF up

\* Two entries take one sector.
LEMMA TwoEntries ==
  ASSUME NEW data, Len(data) = 2
  PROVE  Required(data, ENTRIES_PER_SECTOR) = 1 /\ 2 <= SIMPLEFS_MAX_DIRECTORY_ENTRIES
<1> DEFINE z == ENTRIES_PER_SECTOR
           n == SIMPLEFS_DIRECT_BLOCKS + SIMPLEFS_INDIRECT_ENTRIES
<1>1. z \in Nat /\ z >= 2 /\ n \in Nat /\ n >= 1
  BY SimpleFsAssumption
<1>2. SIMPLEFS_MAX_DIRECTORY_ENTRIES = z * n /\ Required(data, z) = (2 + z - 1) \div z
  BY DEF SIMPLEFS_MAX_DIRECTORY_ENTRIES, Required
<1> HIDE DEF z, n
<1>3. z * n >= z
  <2>1. n - 1 \in Nat /\ z * (n - 1) \in Nat
    BY <1>1
  <2>2. z * n = z * (n - 1) + z
    BY <1>1
  <2> QED BY <1>1, <2>1, <2>2
<1>4. (2 + z - 1) \div z = 1
  <2> DEFINE a == 2 + z - 1
  <2>1. a \in Nat /\ z \in Nat \ {0} /\ a = z * 1 + 1 /\ 1 \in 0 .. z - 1
    BY <1>1
  <2> HIDE DEF a
  <2>2. a \div z = 1
    BY <2>1, QuotientUnique
  <2> QED BY <2>2 DEF a
<1>5. 2 <= z * n
  <2>1. z * n \in Nat
    BY <1>1
  <2> QED BY <1>1, <1>3, <2>1
<1> QED BY <1>2, <1>4, <1>5 DEF z

\* Without a fault the root directory is written: there is a free block.
LEMMA RootFits ==
  ASSUME NEW V, NEW m, NEW T, Good(V, m, T, {}), m.fault.kind = "none", m.data_bitmap = {},
         m.inode_table[SIMPLEFS_ROOT_INODE] = NewInode("directory")
  PROVE  init_directory_file(m, SIMPLEFS_ROOT_INODE, SIMPLEFS_ROOT_INODE).ok
<1> DEFINE i == SIMPLEFS_ROOT_INODE
           data == <<<<".", i>>, <<"..", i>>>>
           z == ENTRIES_PER_SECTOR
           b == Prepared(m, i)
           f0 == [b EXCEPT !.ok = TRUE]
           cells == CellsOf(data, z, 1 - 1)
           a == allocate_data_block(f0)
           w == ata_write_sector(a, [a.disk EXCEPT !.blocks[a.block] = [kind |-> "cells", v |-> cells]])
           x == attach_block(w, i, 1 - 1, a.block)
           wb == write_blocks(b, i, data)
           y == Sized(wb, i, Len(data))
           g == Fail(write_inode_table(write_info_block(free_inode_blocks(wb, i))))
<1>1. Len(data) = 2 /\ 2 \in Nat
  OBVIOUS
<1>2. m \in FsStates(V) /\ i \in m.inode_bitmap /\ i \in Inodes /\ LargestOf(m.inode_table[i]) = SIMPLEFS_MAX_DIRECTORY_ENTRIES
  BY FsSizes DEF Good, Rooted, LargestOf, NewInode
<1>3. init_directory_file(m, i, i) = write_inode_data(m, i, data)
  BY DEF init_directory_file
<1> HIDE DEF data
<1>4. ~(i \notin m.inode_bitmap \/ Len(data) > LargestOf(m.inode_table[i]))
  <2>1. SIMPLEFS_MAX_DIRECTORY_ENTRIES \in Nat
    BY NoPointers
  <2> QED BY <1>1, <1>2, <2>1, TwoEntries
<1>5. write_inode_data(m, i, data) =
        IF (IF wb.ok THEN wb ELSE g).ok THEN write_metadata(Sized(IF wb.ok THEN wb ELSE g, i, Len(data)))
        ELSE (IF wb.ok THEN wb ELSE g)
  BY <1>4 DEF write_inode_data, Then, OnFailure, Prepared, Sized
<1>6. Begun(V, m, b, T, i)
  BY <1>2, Prepares
<1>7. b.data_bitmap = {}
  <2> DEFINE X == BlocksOf(m, m.inode_table[i])
             f == [m EXCEPT !.data_bitmap = m.data_bitmap \ X,
                            !.inode_table = [m.inode_table EXCEPT ![i] = NewInode(m.inode_table[i].type)]]
  <2>1. b = [f EXCEPT !.table = NoTable, !.touched = f.touched \cup {i}]
    BY DEF Prepared, free_inode_blocks
  <2> HIDE DEF X, b
  <2>2. f.data_bitmap = m.data_bitmap \ X /\ "data_bitmap" \in DOMAIN f
    BY <1>2 DEF FsStates
  <2> HIDE DEF f
  <2>3. b.data_bitmap = f.data_bitmap
    BY <2>1, <2>2
  <2> QED BY <2>2, <2>3
<1> HIDE DEF b
<1>8. b \in FsStates(V) /\ b.fault = m.fault /\ b.inode_table[i] = NewInode("directory")
  BY <1>6 DEF Begun, Working, SameCaller, NewInode
<1>9. SectorOf(b.inode_table[i]) = z
  BY <1>8 DEF SectorOf, NewInode
<1>10. f0 \in FsStates(V) /\ f0.fault.kind = "none" /\ f0.data_bitmap = {} /\ f0.inode_table = b.inode_table /\ f0.ok = TRUE
  BY <1>7, <1>8, SetsOk DEF SameMemory, SameCaller, SameTables
<1> HIDE DEF f0
<1>11. a \in FsStates(V) /\ a.ok = TRUE /\ a.inode_table = b.inode_table /\ a.fault.kind = "none"
  <2>1. ~(Blocks \subseteq f0.data_bitmap)
    <3>1. 0 \in Blocks
      BY SimpleFsAssumption DEF Blocks
    <3> QED BY <1>10, <3>1
  <2>2. a.ok = TRUE
    BY <1>10, <2>1, AllocatesWithoutFault
  <2>3. a \in FsStates(V) /\ a.inode_table = f0.inode_table /\ SameCaller(f0, a)
    BY <1>10, Allocates
  <2> QED BY <1>10, <2>2, <2>3 DEF SameCaller
<1>12. Sector(f0, i, data, z, 1) = IF w.ok THEN x ELSE [w EXCEPT !.data_bitmap = @ \ {a.block}]
  <2>1. w.ok = TRUE
    BY <1>11, WritesWithoutFault
  <2>2. Sector(f0, i, data, z, 1) = write_block(f0, i, 1 - 1, cells)
    BY <1>10 DEF Sector
  <2>3. write_block(f0, i, 1 - 1, cells) = x
    <3> HIDE DEF cells
    <3> QED BY <1>11, <2>1 DEF write_block, Then, OnFailure
  <2> QED BY <2>1, <2>2, <2>3
<1>13. /\ w.ok = TRUE /\ w.inode_table = a.inode_table
       /\ "inode_table" \in DOMAIN w /\ "ok" \in DOMAIN w
  <2> DEFINE image == [a.disk EXCEPT !.blocks[a.block] = [kind |-> "cells", v |-> cells]]
  <2>1. w = ata_write_sector(a, image)
    OBVIOUS
  <2> HIDE DEF image, w
  <2> QED BY <1>11, <2>1 DEF ata_write_sector, FsStates
<1>14. x = EnterDirect(w, i, 0, a.block)
  <2>1. 1 - 1 = 0 /\ 0 < SIMPLEFS_DIRECT_BLOCKS
    BY SimpleFsAssumption
  <2> HIDE DEF w
  <2> QED BY <2>1 DEF attach_block, EnterDirect
<1> HIDE DEF w, a
<1>15. x.ok = TRUE /\ Indirect(x, i) = INVALID
  <2> DEFINE r == b.inode_table[i]
             q == [r EXCEPT !.direct_blocks = [r.direct_blocks EXCEPT ![0 + 1] = a.block]]
             tab == [b.inode_table EXCEPT ![i] = q]
  <2>1. x = [w EXCEPT !.inode_table = tab]
    BY <1>11, <1>13, <1>14 DEF EnterDirect
  <2>2. r.indirect_block = INVALID /\ r \in InodeSet /\ b.inode_table \in InodeTables
    BY <1>2, <1>8, Fields DEF NewInode, InodeTables
  <2> HIDE DEF r
  <2>3. q.indirect_block = INVALID
    BY <2>2, InodeFields
  <2> HIDE DEF q
  <2>4. tab[i] = q
    BY <1>2, <2>2 DEF InodeTables
  <2> HIDE DEF tab, x
  <2>5. x.ok = w.ok /\ x.inode_table = tab
    BY <1>13, <2>1
  <2> QED BY <1>13, <2>3, <2>4, <2>5 DEF Indirect
<1> HIDE DEF x
<1>16. wb.ok = TRUE
  <2>1. LoopRun(f0, i, data, z, 1)[1] = x
    BY <1>12, <1>13, LoopOnce
  <2>2. Required(data, z) = 1
    BY <1>1, TwoEntries
  <2> DEFINE t == LoopRun(f0, i, data, z, Required(data, z))[Required(data, z)]
  <2>3. wb = IF t.ok /\ Indirect(t, i) # INVALID THEN write_indirect_block(t, i) ELSE t
    BY <1>9, BlocksLoop DEF f0
  <2>4. t = x
    BY <2>1, <2>2
  <2> HIDE DEF t, wb
  <2> QED BY <1>15, <2>3, <2>4
<1> DEFINE C == [n \in 0 .. 0 |-> CellsOf(data, z, n)]
           W == V \cup {C[n] : n \in 0 .. 0}
<1>17. wb \in FsStates(W) /\ i \in wb.inode_bitmap /\ wb.fault = m.fault /\ SameTypes(m, wb)
  <2>1. m \in FsStates(W) /\ Good(W, m, T, {})
    BY <1>2, MoreContents DEF Good
  <2>2. \A n \in 0 .. 0 : C[n] \in W /\ C[n] = CellsOf(data, z, n)
    OBVIOUS
  <2> HIDE DEF C, W
  <2>3. Begun(W, m, b, T, i)
    BY <1>2, <2>1, Prepares DEF b
  <2>4. /\ b \in FsStates(W) /\ T \in TableChoices /\ Owns(b, With(b, T, i), {}) /\ b.table = NoTable
        /\ i \in b.inode_bitmap /\ Indirect(b, i) = INVALID
    BY <1>2, <1>8, <2>1, <2>3 DEF Begun, Working, SameTypes, Indirect, NewInode, Good
  <2>5. Len(data) \in Nat /\ Len(data) <= LargestOf(b.inode_table[i])
    BY <1>1, <1>8, TwoEntries DEF LargestOf, NewInode
  <2>6. Required(data, z) = 1 /\ 1 - 1 = 0
    BY <1>1, TwoEntries
  <2>7. Wrote(W, b, wb, T, i, C, 1)
    <3>1. \A n \in 0 .. 1 - 1 : C[n] \in W /\ C[n] = CellsOf(data, z, n)
      BY <2>2, <2>6
    <3> QED BY <1>9, <2>4, <2>5, <2>6, <3>1, WritesFile
  <2> HIDE DEF wb
  <2>8. Working(m, wb, i) /\ wb \in FsStates(W) /\ i \in wb.inode_bitmap
    BY <1>2, <2>1, <2>3, <2>4, <2>7, WorksOn
  <2> QED BY <2>8 DEF Working, SameCaller
<1> HIDE DEF wb, W
<1>18. write_inode_data(m, i, data) = write_metadata(y)
  BY <1>5, <1>16
<1>19. y \in FsStates(W) /\ y.fault = m.fault
  <2> DEFINE p == [wb.inode_table[i] EXCEPT !.size = Len(data)]
             tab == [wb.inode_table EXCEPT ![i] = p]
  <2>1. y = [wb EXCEPT !.inode_table = tab]
    BY DEF Sized
  <2>2. wb.inode_table \in InodeTables /\ wb.inode_table[i] \in InodeSet /\ wb.inode_table[i].type = "directory"
    BY <1>2, <1>17, Fields DEF InodeTables, SameTypes, NewInode
  <2>3. Len(data) <= SIMPLEFS_MAX_DIRECTORY_ENTRIES /\ Len(data) \in Nat
    BY <1>1, TwoEntries
  <2>4. p \in [type : {"free", "regular", "directory"}, size : Nat,
               direct_blocks : DirectTables, indirect_block : Pointer]
        /\ p.type = "directory" /\ p.size = Len(data)
    BY <2>2, <2>3, InodeFields
  <2> HIDE DEF p
  <2>5. p \in InodeSet
    BY <2>3, <2>4 DEF InodeSet, LargestOf
  <2>6. tab \in InodeTables
    BY <2>2, <2>5 DEF InodeTables
  <2> HIDE DEF tab, y
  <2>7. y \in FsStates(W) /\ SameCaller(wb, y)
    BY <1>17, <2>1, <2>6, SetsInodes
  <2> QED BY <1>17, <2>7 DEF SameCaller
<1>20. write_metadata(y).ok
  BY <1>19, WritesMetadata
<1> QED BY <1>3, <1>18, <1>20

\* The tables mkfs starts from.
Blanked(s) ==
  [s EXCEPT !.inode_bitmap = {SIMPLEFS_ROOT_INODE}, !.data_bitmap = {}, !.touched = Inodes,
            !.inode_table = [i \in Inodes |-> NewInode(IF i = SIMPLEFS_ROOT_INODE THEN "directory" ELSE "free")]]
NoTables == [i \in Inodes |-> NoTable]

\* They are sound.
LEMMA BlankSound ==
  ASSUME NEW V, NEW s \in FsStates(V)
  PROVE  /\ Good(V, Blanked(s), NoTables, {}) /\ SameCaller(s, Blanked(s)) /\ Blanked(s).disk = s.disk
         /\ Blanked(s).touched = Inodes /\ Blanked(s).data_bitmap = {}
         /\ Blanked(s).inode_table[SIMPLEFS_ROOT_INODE] = NewInode("directory")
<1> DEFINE tab == [i \in Inodes |-> NewInode(IF i = SIMPLEFS_ROOT_INODE THEN "directory" ELSE "free")]
           t == Blanked(s)
           type(i) == IF i = SIMPLEFS_ROOT_INODE THEN "directory" ELSE "free"
           bm == {SIMPLEFS_ROOT_INODE}
<1>1. \A i \in Inodes : tab[i] = NewInode(type(i)) /\ type(i) \in {"free", "regular", "directory"}
  OBVIOUS
<1>2. tab \in InodeTables
  <2>1. \A i \in Inodes : NewInode(type(i)) \in InodeSet
    BY <1>1, NoPointers
  <2> QED BY <2>1 DEF InodeTables
<1>3. t = [s EXCEPT !.inode_bitmap = bm, !.data_bitmap = {}, !.touched = Inodes, !.inode_table = tab]
  BY DEF Blanked
<1>4. bm \subseteq Inodes /\ {} \subseteq Blocks
  BY FsSizes
<1> HIDE DEF tab, t, bm
<1>5. /\ t \in FsStates(V) /\ SameCaller(s, t) /\ t.disk = s.disk /\ t.touched = Inodes /\ t.data_bitmap = {}
      /\ t.inode_table = tab /\ t.inode_bitmap = bm
  BY <1>2, <1>3, <1>4 DEF FsStates, SameCaller
<1>6. NoTables \in TableChoices /\ \A i \in Inodes : NoTables[i] = NoTable
  BY NoPointers DEF TableChoices, NoTables
<1>7. \A i \in bm : /\ i \in Inodes /\ \A k \in Keys : Ptr(t, NoTables, i, k) = INVALID
                    /\ t.inode_table[i].indirect_block = INVALID
  <2>1. ASSUME NEW i \in bm PROVE i \in Inodes /\ t.inode_table[i] = NewInode(type(i)) /\ NoTables[i] = NoTable
    BY <1>1, <1>4, <1>5, <1>6
  <2>2. \A y : NewInode(y).indirect_block = INVALID
    BY DEF NewInode
  <2> HIDE DEF type
  <2>3. \A i \in bm : t.inode_table[i].indirect_block = INVALID
    BY <2>1, <2>2
  <2> QED BY <2>1, <2>3, NoPointers DEF Ptr
<1>8. Owns(t, NoTables, {})
  BY <1>5, <1>7 DEF Owns
<1>9. Backed(t, NoTables, t.inode_bitmap)
  BY <1>5, <1>6, <1>7 DEF Backed
<1>10. DiskOwns(t, NoTables)
  BY <1>5 DEF DiskOwns
<1>11. t.inode_table[SIMPLEFS_ROOT_INODE] = NewInode("directory")
  BY <1>1, <1>5, FsSizes
<1>12. Rooted(t)
  BY <1>5, <1>11 DEF Rooted, NewInode, bm
<1> QED BY <1>5, <1>6, <1>8, <1>9, <1>10, <1>11, <1>12 DEF Good, t

\* The boot block.
LEMMA WritesBoot ==
  ASSUME NEW V, NEW s, NEW T, Good(V, s, T, {}), s.touched = Inodes
  PROVE  LET t == write_boot_block(s) IN
         /\ Good(V, t, T, {}) /\ SameMemory(s, t) /\ s.done <= t.done
         /\ Mountable(s.disk) => Mountable(t.disk)
         /\ t.ok => t.disk.boot
         /\ s.fault.kind = "none" => t.ok
<1> DEFINE image == [s.disk EXCEPT !.boot = TRUE]
           t == write_boot_block(s)
<1>1. s \in FsStates(V) /\ T \in TableChoices /\ Backed(s, T, s.inode_bitmap) /\ Owns(s, T, {}) /\ Rooted(s)
  BY DEF Good
<1>2. image \in Disks(V) /\ image.boot = TRUE /\ image.info = s.disk.info /\ image.inode_table = s.disk.inode_table
      /\ image.blocks = s.disk.blocks
  BY <1>1, Fields DEF Disks
<1>3. t = ata_write_sector(s, image)
  BY DEF write_boot_block
<1> HIDE DEF image, t
<1>4. /\ t \in FsStates(V) /\ SameMemory(s, t) /\ t.done = s.done + 1
      /\ t.disk = s.disk \/ t.disk = image
      /\ t.ok => t.disk = image
      /\ s.fault.kind = "none" => t.ok
  BY <1>1, <1>2, <1>3, WritesSector
<1>5. s.done <= t.done
  BY <1>1, <1>4, Fields
<1>6. t.disk.blocks = s.disk.blocks /\ (Mountable(s.disk) => Mountable(t.disk)) /\ (t.ok => t.disk.boot)
  BY <1>2, <1>4 DEF Mountable
<1>7. Owns(t, T, {}) /\ Rooted(t) /\ Backed(t, T, t.inode_bitmap)
  <2>1. Owns(t, T, {})
    BY <1>1, <1>4, OwnsSame DEF SameMemory, SameTables
  <2>2. Rooted(t) /\ Backed(t, T, t.inode_bitmap)
    BY <1>1, <1>4, <1>6 DEF Rooted, Backed, SameMemory, SameTables
  <2> QED BY <2>1, <2>2
<1>8. DiskOwns(t, T)
  BY <1>4 DEF DiskOwns, SameMemory, SameScratch
<1> QED BY <1>1, <1>4, <1>5, <1>6, <1>7, <1>8 DEF Good, t

\* The last step of mkfs.
Mounted(d) ==
  [d EXCEPT !.fs_mounted = TRUE, !.current_directory = SIMPLEFS_ROOT_INODE, !.open_files = reset_open_files]

\* What mkfs leaves.
Formats(s, t) ==
  /\ Sound(t, Exc(t)) /\ t.touched = Inodes
  /\ Mountable(s.disk) => Mountable(t.disk)
  /\ t.fs_mounted => s.fs_mounted \/ Mountable(t.disk)
  /\ s.fs_mounted => t.fs_mounted
  /\ s.fault = t.fault
  /\ s.fault.kind = "none" => Ready(t) /\ t.fs_mounted

\* simplefs_format: whatever happens the disk stays mountable if it was, and the
\* file system is only mounted when it is; without a fault it is ready.
LEMMA FormatWorks ==
  ASSUME NEW V, NEW s \in FsStates(V)
  PROVE  Formats(s, simplefs_format(s))
<1> DEFINE i == SIMPLEFS_ROOT_INODE
           b == Blanked(s)
           p == write_boot_block(b)
           m == write_metadata(p)
           y == IF p.ok THEN m ELSE p
           d == init_directory_file(m, i, i)
           u == IF y.ok THEN init_directory_file(y, i, i) ELSE y
           x == Mounted(d)
           t == simplefs_format(s)
<1>1. t = IF u.ok THEN Mounted(u) ELSE u
  BY DEF simplefs_format, Then, Blanked, Mounted
<1>2. /\ Good(V, b, NoTables, {}) /\ SameCaller(s, b) /\ b.disk = s.disk
      /\ b.touched = Inodes /\ b.data_bitmap = {} /\ b.inode_table[i] = NewInode("directory")
  BY BlankSound
<1> HIDE DEF b
<1>3. /\ Good(V, p, NoTables, {}) /\ SameMemory(b, p) /\ b.done <= p.done
      /\ Mountable(b.disk) => Mountable(p.disk)
      /\ p.ok => p.disk.boot
      /\ b.fault.kind = "none" => p.ok
  BY <1>2, WritesBoot
<1> HIDE DEF p
<1>4. m \in FsStates(V) /\ MetaWritten(p, m) /\ (m.ok => Synchronous(m)) /\ (p.fault.kind = "none" => m.ok)
  BY <1>3, WritesMetadata DEF Good
<1> HIDE DEF m
<1>5. Good(V, m, NoTables, {}) /\ (Mountable(p.disk) => Mountable(m.disk))
  BY <1>3, <1>4, GoodMeta
<1>6. /\ p.fault = s.fault /\ m.fault = s.fault /\ p.touched = Inodes /\ m.touched = Inodes
      /\ p.fs_mounted = s.fs_mounted /\ m.fs_mounted = s.fs_mounted
      /\ m.data_bitmap = {} /\ m.inode_table[i] = NewInode("directory") /\ b.fault = s.fault
  BY <1>2, <1>3, <1>4 DEF MetaWritten, SameMemory, SameTables, SameCaller, SameScratch
<1>7. p.ok /\ m.ok => Mountable(m.disk) /\ Synchronous(m)
  <2>1. ASSUME p.ok, m.ok PROVE Mountable(m.disk)
    <3>1. m.disk.boot = p.disk.boot /\ p.disk.boot
      BY <1>3, <1>4, <2>1 DEF MetaWritten
    <3>2. m.disk.info = InfoOf(m) /\ m.disk.inode_table = m.inode_table
      BY <1>4, <2>1 DEF Synchronous
    <3>3. Rooted(m)
      BY <1>5 DEF Good
    <3> QED BY <3>1, <3>2, <3>3 DEF Mountable, InfoOf, Rooted
  <2> QED BY <1>4, <2>1
<1>8. Finished(m, d) /\ Sound(m, {})
  <2>1. Sound(m, {})
    BY <1>5 DEF Sound
  <2> QED BY <2>1, StartsDirectory
<1>9. m.fault.kind = "none" => d.ok
  BY <1>5, <1>6, RootFits
<1> HIDE DEF d
<1>10. Sound(d, After(d)) /\ Changes(m, d)
  BY <1>8 DEF Finished
<1>11. /\ d.fault = s.fault /\ d.touched = Inodes /\ d.fs_mounted = s.fs_mounted
       /\ (Mountable(s.disk) => Mountable(d.disk)) /\ (p.ok /\ m.ok => Mountable(d.disk))
       /\ (s.fault.kind = "none" => Synchronous(d))
  <2>1. d.touched \subseteq Inodes /\ m.touched \subseteq d.touched
    BY <1>10, SoundFields DEF Changes
  <2> QED BY <1>2, <1>3, <1>4, <1>5, <1>6, <1>7, <1>10, <2>1 DEF Changes, SameCaller
<1>12. Sound(d, Exc(d)) /\ (d.ok => Sound(d, {}))
  BY <1>10, EndsWell
<1>13. CASE ~(p.ok /\ m.ok)
  <2>1. t = y /\ (y = m \/ y = p)
    <3>1. u = y
      BY <1>13
    <3>2. ~y.ok
      BY <1>13
    <3> HIDE DEF u, y
    <3>3. t = y
      BY <1>1, <3>1, <3>2
    <3> QED BY <3>3 DEF y
  <2>2. Sound(p, {}) /\ Sound(m, {})
    BY <1>3, <1>5 DEF Sound
  <2>3. Sound(p, Exc(p)) /\ Sound(m, Exc(m))
    BY <2>2, SoundWeaker
  <2>4. s.fault.kind # "none"
    BY <1>3, <1>4, <1>6, <1>13
  <2>5. Formats(s, p) /\ Formats(s, m)
    BY <1>2, <1>3, <1>5, <1>6, <2>3, <2>4 DEF Formats
  <2> HIDE DEF t, y
  <2> QED BY <2>1, <2>5 DEF t
<1>14. CASE p.ok /\ m.ok /\ ~d.ok
  <2>1. y = m
    BY <1>14
  <2>2. u = d
    BY <1>14, <2>1 DEF d
  <2> HIDE DEF u, t
  <2>3. t = d
    BY <1>1, <1>14, <2>2
  <2>4. Formats(s, d)
    BY <1>6, <1>9, <1>11, <1>12, <1>14 DEF Formats
  <2> QED BY <2>3, <2>4 DEF t
<1>15. CASE p.ok /\ m.ok /\ d.ok
  <2>1. y = m
    BY <1>15
  <2>2. u = d
    BY <1>15, <2>1 DEF d
  <2> HIDE DEF u, t
  <2>3. t = x
    BY <1>1, <1>15, <2>2
  <2>4. PICK W, T : Good(W, d, T, {})
    BY <1>12, <1>15 DEF Sound
  <2>5. d \in FsStates(W)
    BY <2>4 DEF Good
  <2>6. reset_open_files \in OpenTables /\ \A fd \in Fds : ~reset_open_files[fd].used
    BY NoPointers DEF reset_open_files, OpenTables
  <2>7. /\ x \in FsStates(W) /\ SameTables(d, x) /\ SameScratch(d, x) /\ x.disk = d.disk /\ x.done = d.done
        /\ x.fault = d.fault /\ x.fs_mounted = TRUE /\ x.open_files = reset_open_files
    <3> HIDE DEF reset_open_files
    <3> QED BY <2>5, <2>6, FsSizes DEF Mounted, FsStates, SameTables, SameScratch
  <2> HIDE DEF x
  <2>8. x.touched = Inodes /\ Mountable(x.disk)
    BY <1>11, <1>15, <2>7 DEF SameScratch
  <2>9. Sound(x, Exc(x))
    <3>1. Owns(x, T, {}) /\ Backed(x, T, x.inode_bitmap) /\ Rooted(x) /\ T \in TableChoices
      <4>1. Owns(d, T, {}) /\ Backed(d, T, d.inode_bitmap) /\ Rooted(d) /\ T \in TableChoices
        BY <2>4 DEF Good
      <4>2. Owns(x, T, {})
        BY <2>7, <4>1, OwnsSame DEF SameTables
      <4> QED BY <2>7, <4>1, <4>2 DEF Backed, Rooted, SameTables
    <3>2. DiskOwns(x, T)
      BY <2>8 DEF DiskOwns
    <3>3. Sound(x, {})
      BY <2>7, <3>1, <3>2 DEF Sound, Good
    <3> QED BY <3>3, SoundWeaker
  <2>10. ASSUME s.fault.kind = "none" PROVE Ready(x)
    <3>1. Good(W, x, T, {}) /\ Synchronous(x)
      BY <1>11, <2>4, <2>7, <2>10, Resumes
    <3>2. AliveIn(x)
      BY <2>6, <2>7 DEF AliveIn
    <3> QED BY <2>8, <3>1, <3>2 DEF Ready, Sound
  <2>11. Formats(s, x)
    BY <1>11, <2>7, <2>8, <2>9, <2>10 DEF Formats
  <2> QED BY <2>3, <2>11 DEF t
<1> QED BY <1>13, <1>14, <1>15

-----------------------------------------------------------------------------
(***************************************************************************)
(* The state machine.  Its states are the records between two calls; the   *)
(* inductive invariant is stated about the record s, the inodes D in doubt *)
(* and the kind k of fault that befell the last faulty call.               *)
(***************************************************************************)
\* The record the next call starts from when a call has left t.
Resume(t) ==
  [inode_bitmap |-> t.inode_bitmap, data_bitmap |-> t.data_bitmap, inode_table |-> t.inode_table,
   open_files |-> t.open_files, current_directory |-> t.current_directory, fs_mounted |-> t.fs_mounted,
   disk |-> t.disk, fault |-> NoFault, done |-> 0, ok |-> TRUE,
   block |-> INVALID, inode |-> INVALID, table |-> NoTable, out |-> <<>>, touched |-> {}]

\* The inodes of a bitmap with the blocks marked for them.
View(ib, db, tab, d) == [inode_bitmap |-> ib, data_bitmap |-> db, inode_table |-> tab, disk |-> d]
MemoryView(s, D) == View(s.inode_bitmap \ D, s.data_bitmap, s.inode_table, s.disk)
DiskView(d, D) == View(d.info.inode_bitmap \ D, d.info.data_bitmap, d.inode_table, d)
Held(v, E) == \E T \in TableChoices : Owns(v, T, E) /\ Backed(v, T, v.inode_bitmap)
Lost(k) == IF k = "lost" THEN {0} ELSE {}

\* There is no file system.
BlankFs(s) ==
  /\ ~s.fs_mounted /\ s.inode_bitmap = {} /\ ~s.disk.boot
  /\ \A fd \in Fds : ~s.open_files[fd].used

\* The inductive invariant.
Between(s, D, k) ==
  /\ \E V : s \in FsStates(V)
  /\ D \subseteq Inodes
  /\ D = {} => (Ready(s) /\ s.fs_mounted) \/ BlankFs(s)
  /\ Held(MemoryView(s, D), Lost(k)) /\ Held(DiskView(s.disk, D), Lost(k))
  /\ s.fs_mounted => Mountable(s.disk)

\* What the next call finds.
LEMMA Resumed ==
  ASSUME NEW V, NEW t \in FsStates(V)
  PROVE  /\ Resume(t) \in FsStates(V \cup {<<>>}) /\ SameTables(t, Resume(t)) /\ Resume(t).disk = t.disk
         /\ Resume(t).open_files = t.open_files /\ Resume(t).fs_mounted = t.fs_mounted
<1>1. t \in FsStates(V \cup {<<>>})
  BY MoreContents
<1>2. NoFault \in Faults /\ NoTable \in IndirectTables /\ INVALID \in Pointer /\ <<>> \in V \cup {<<>>}
  BY NoPointers DEF NoFault, Faults, Pointer
<1>3. Resume(t) \in FsStates(V \cup {<<>>})
  <2> HIDE DEF NoFault, NoTable
  <2> QED BY <1>1, <1>2 DEF FsStates, Resume
<1> QED BY <1>3 DEF Resume, SameTables

\* The inodes a call has not touched are held, in memory and on the disk.
LEMMA HeldApart ==
  ASSUME NEW V, NEW t, NEW T, NEW E, Good(V, t, T, E), NEW D, t.touched \subseteq D
  PROVE  Held(MemoryView(t, D), E) /\ Held(DiskView(t.disk, D), LostExc(t))
<1>1. /\ t \in FsStates(V) /\ T \in TableChoices /\ Backed(t, T, t.inode_bitmap) /\ Owns(t, T, E) /\ DiskOwns(t, T)
      /\ t.disk.info.inode_bitmap \subseteq Inodes
  BY Fields DEF Good, Infos
<1> DEFINE v == MemoryView(t, D)
           w == DiskView(t.disk, D)
<1>2. v.inode_bitmap = t.inode_bitmap \ D /\ v.data_bitmap = t.data_bitmap /\ v.inode_table = t.inode_table /\ v.disk = t.disk
  BY DEF MemoryView, View
<1>3. w.inode_bitmap = t.disk.info.inode_bitmap \ D /\ w.data_bitmap = t.disk.info.data_bitmap
      /\ w.inode_table = t.disk.inode_table /\ w.disk = t.disk
  BY DEF DiskView, View
<1> HIDE DEF v, w
<1>4. Owns(v, T, E) /\ Backed(v, T, v.inode_bitmap)
  <2>1. Owns(v, T, E)
    BY <1>1, <1>2 DEF Owns, Ptr
  <2>2. Backed(v, T, v.inode_bitmap)
    BY <1>1, <1>2 DEF Backed
  <2> QED BY <2>1, <2>2
<1>5. ASSUME NEW i \in w.inode_bitmap
      PROVE  /\ i \in t.inode_bitmap /\ w.inode_table[i] = t.inode_table[i]
             /\ \A k \in Keys : /\ Ptr(w, T, i, k) = Ptr(t, T, i, k)
                                /\ Ptr(t, T, i, k) = INVALID \/ Ptr(t, T, i, k) \in w.data_bitmap \cup LostExc(t)
  <2>1. i \in Inodes \ t.touched /\ i \in t.disk.info.inode_bitmap
    BY <1>1, <1>3
  <2> QED BY <1>1, <1>3, <2>1 DEF DiskOwns, Ptr
<1>6. Owns(w, T, LostExc(t)) /\ Backed(w, T, w.inode_bitmap)
  <2>1. Owns(w, T, LostExc(t))
    <3>1. ASSUME NEW i \in w.inode_bitmap, NEW j \in w.inode_bitmap, NEW k \in Keys, NEW l \in Keys,
                 Ptr(w, T, i, k) = Ptr(w, T, j, l), Ptr(w, T, i, k) # INVALID
          PROVE  i = j /\ k = l
      <4>1. Ptr(t, T, i, k) = Ptr(t, T, j, l) /\ Ptr(t, T, i, k) # INVALID /\ i \in t.inode_bitmap /\ j \in t.inode_bitmap
        BY <1>5, <3>1
      <4> QED BY <1>1, <4>1 DEF Owns
    <3> QED BY <1>5, <3>1 DEF Owns
  <2>2. Backed(w, T, w.inode_bitmap)
    BY <1>1, <1>3, <1>5 DEF Backed
  <2> QED BY <2>1, <2>2
<1> QED BY <1>1, <1>4, <1>6 DEF Held, v, w

\* More exceptions, and no inodes at all.
LEMMA HeldWeaker ==
  ASSUME NEW v, NEW E, NEW F, E \subseteq F, Held(v, E)
  PROVE  Held(v, F)
BY OwnsWeaker DEF Held

\* A view without inodes.
LEMMA HeldNone ==
  ASSUME NEW v, NEW E, v.inode_bitmap = {}
  PROVE  Held(v, E)
<1>1. NoTables \in TableChoices
  BY NoPointers DEF TableChoices, NoTables
<1>2. Owns(v, NoTables, E) /\ Backed(v, NoTables, v.inode_bitmap)
  BY DEF Owns, Backed
<1> QED BY <1>1, <1>2 DEF Held

\* A file system that is ready.
LEMMA ReadyBetween ==
  ASSUME NEW t, Ready(t), t.fs_mounted, NEW k
  PROVE  Between(Resume(t), {}, k)
<1> DEFINE r == Resume(t)
<1>1. PICK V, T : Good(V, t, T, {})
  BY DEF Ready, Sound
<1>2. t \in FsStates(V)
  BY <1>1 DEF Good
<1>3. /\ r \in FsStates(V \cup {<<>>}) /\ SameTables(t, r) /\ r.disk = t.disk
      /\ r.open_files = t.open_files /\ r.fs_mounted = t.fs_mounted
  BY <1>2, Resumed
<1>4. r.touched = {}
  BY DEF Resume
<1> HIDE DEF r
<1>5. AliveIn(r)
  BY <1>3 DEF Ready, AliveIn, IsRegular, SameTables
<1>6. Ready(r)
  BY <1>3, <1>5, StaysReady
<1>7. PICK W, U : Good(W, r, U, {})
  BY <1>6 DEF Ready, Sound
<1>8. Held(MemoryView(r, {}), {}) /\ Held(DiskView(r.disk, {}), LostExc(r))
  BY <1>4, <1>7, HeldApart
<1>9. LostExc(r) = {}
  BY DEF r, Resume, NoFault, LostExc
<1>10. Held(MemoryView(r, {}), Lost(k)) /\ Held(DiskView(r.disk, {}), Lost(k))
  BY <1>8, <1>9, HeldWeaker
<1> QED BY <1>3, <1>6, <1>10 DEF Between, Ready, r

\* A call that goes on after a failed write.
LEMMA FaultBetween ==
  ASSUME NEW s, Ready(s), s.fs_mounted, NEW t, Effect(s, t), s.fault.kind \in {"lost", "late"}
  PROVE  Between(Resume(t), t.touched, s.fault.kind) /\ Resume(t).fs_mounted
<1> DEFINE r == Resume(t)
           k == s.fault.kind
           D == t.touched
<1>1. Sound(t, Exc(t)) /\ SameCaller(s, t) /\ (D = {} => SameTables(s, t) /\ t.disk = s.disk) /\ Mountable(t.disk)
  BY DEF Effect, Changes, Ready
<1>2. t.fault = s.fault /\ t.fs_mounted /\ t.open_files = s.open_files
  BY <1>1 DEF SameCaller
<1>3. Exc(t) = Lost(k) /\ LostExc(t) = Lost(k)
  BY <1>2 DEF Exc, Stopped, LostExc, Lost
<1>4. PICK V, T : Good(V, t, T, Lost(k))
  BY <1>1, <1>3 DEF Sound
<1>5. t \in FsStates(V) /\ D \subseteq Inodes
  BY <1>4, Fields DEF Good
<1>6. /\ r \in FsStates(V \cup {<<>>}) /\ SameTables(t, r) /\ r.disk = t.disk
      /\ r.open_files = t.open_files /\ r.fs_mounted = t.fs_mounted
  BY <1>5, Resumed
<1>7. CASE D = {}
  <2>1. AliveIn(t)
    BY <1>1, <1>2, <1>7 DEF Ready, AliveIn, IsRegular, SameTables
  <2>2. Ready(t)
    BY <1>1, <1>5, <1>7, <2>1, StaysReady
  <2> HIDE DEF k, r
  <2>3. Between(r, {}, k)
    BY <1>2, <2>2, ReadyBetween DEF r
  <2> QED BY <1>2, <1>6, <1>7, <2>3 DEF k, r
<1>8. CASE D # {}
  <2>1. Held(MemoryView(t, D), Lost(k)) /\ Held(DiskView(t.disk, D), Lost(k))
    BY <1>3, <1>4, HeldApart
  <2> HIDE DEF r, k, D
  <2>2. MemoryView(r, D) = MemoryView(t, D)
    BY <1>6 DEF MemoryView, SameTables
  <2> QED BY <1>1, <1>2, <1>5, <1>6, <1>8, <2>1, <2>2 DEF Between, r, k, D
<1> QED BY <1>7, <1>8

\* mkfs that goes on after a failed write.
LEMMA FormatBetween ==
  ASSUME NEW s, NEW t, Formats(s, t), s.fs_mounted => Mountable(s.disk), NEW k
  PROVE  Between(Resume(t), Inodes, k) /\ (s.fs_mounted => Resume(t).fs_mounted)
<1> DEFINE r == Resume(t)
<1>1. Sound(t, Exc(t)) /\ (t.fs_mounted => Mountable(t.disk)) /\ (s.fs_mounted => t.fs_mounted)
  BY DEF Formats
<1>2. PICK V, T : Good(V, t, T, Exc(t))
  BY <1>1 DEF Sound
<1>3. t \in FsStates(V)
  BY <1>2 DEF Good
<1>4. /\ r \in FsStates(V \cup {<<>>}) /\ SameTables(t, r) /\ r.disk = t.disk
      /\ r.open_files = t.open_files /\ r.fs_mounted = t.fs_mounted
  BY <1>3, Resumed
<1> HIDE DEF r
<1>5. r.inode_bitmap \subseteq Inodes /\ r.disk.info.inode_bitmap \subseteq Inodes
  BY <1>4, Fields DEF Infos
<1>6. MemoryView(r, Inodes).inode_bitmap = {} /\ DiskView(r.disk, Inodes).inode_bitmap = {}
  BY <1>5 DEF MemoryView, DiskView, View
<1>7. Held(MemoryView(r, Inodes), Lost(k)) /\ Held(DiskView(r.disk, Inodes), Lost(k))
  BY <1>6, HeldNone
<1>8. Inodes # {}
  BY FsSizes
<1> QED BY <1>1, <1>4, <1>7, <1>8 DEF Between, r

\* The machine starts from the disk d.
Boots(d, r) ==
  /\ \E V : r \in FsStates(V)
  /\ r.disk = d /\ (r.fs_mounted <=> Mountable(d)) /\ \A fd \in Fds : ~r.open_files[fd].used
  /\ IF d.boot /\ d.info.magic
     THEN r.inode_bitmap = d.info.inode_bitmap /\ r.data_bitmap = d.info.data_bitmap /\ r.inode_table = d.inode_table
     ELSE r.inode_bitmap = {}

\* simplefs_init.
LEMMA BootsFrom ==
  ASSUME NEW V, NEW d \in Disks(V), NEW U, Now \in FsStates(U)
  PROVE  Boots(d, simplefs_init(d))
<1> DEFINE W == V \cup U
           free == [i \in Inodes |-> NewInode("free")]
           x == [Now EXCEPT !.inode_bitmap = {}, !.data_bitmap = {}, !.inode_table = free,
                            !.open_files = reset_open_files, !.current_directory = SIMPLEFS_ROOT_INODE, !.disk = d]
           y == read_metadata(x)
           r == [y EXCEPT !.fs_mounted = y.ok]
<1>1. simplefs_init(d) = r
  BY DEF simplefs_init, Now
<1>2. reset_open_files \in OpenTables /\ SIMPLEFS_ROOT_INODE \in Inodes /\ free \in InodeTables
  BY NoPointers, FsSizes DEF reset_open_files, OpenTables, InodeTables
<1>3. d \in Disks(W)
  <2>1. BlockSet(V) \subseteq BlockSet(W)
    BY DEF BlockSet
  <2>2. [Blocks -> BlockSet(V)] \subseteq [Blocks -> BlockSet(W)]
    BY <2>1
  <2> QED BY <2>2 DEF Disks
<1>4. Now \in FsStates(W)
  BY MoreContents
<1> HIDE DEF free, Now, W
<1>5. x \in FsStates(W) /\ x.disk = d /\ x.inode_bitmap = {} /\ x.open_files = reset_open_files
  <2> HIDE DEF reset_open_files
  <2> QED BY <1>2, <1>3, <1>4 DEF FsStates
<1> HIDE DEF x
<1>6. d.boot \in BOOLEAN /\ d.info.magic \in BOOLEAN /\ d.info.inode_bitmap \subseteq Inodes
      /\ d.info.data_bitmap \subseteq Blocks /\ d.inode_table \in InodeTables
  BY DEF Disks, Infos
<1>7. \A fd \in Fds : ~reset_open_files[fd].used
  BY DEF reset_open_files
<1>8. CASE d.boot /\ d.info.magic
  <2> DEFINE ok == /\ SIMPLEFS_ROOT_INODE \in d.info.inode_bitmap
                   /\ d.inode_table[SIMPLEFS_ROOT_INODE].type = "directory"
  <2>1. y = [x EXCEPT !.inode_bitmap = d.info.inode_bitmap, !.data_bitmap = d.info.data_bitmap,
                      !.inode_table = d.inode_table, !.current_directory = SIMPLEFS_ROOT_INODE, !.ok = ok]
    BY <1>5, <1>8 DEF read_metadata
  <2>2. ok \in BOOLEAN /\ (ok <=> Mountable(d)) /\ SIMPLEFS_ROOT_INODE \in Inodes
    BY <1>8, FsSizes DEF Mountable
  <2> HIDE DEF ok, y
  <2>3. y.ok = ok /\ y \in FsStates(W) /\ y.disk = d /\ y.open_files = reset_open_files
        /\ y.inode_bitmap = d.info.inode_bitmap /\ y.data_bitmap = d.info.data_bitmap /\ y.inode_table = d.inode_table
    BY <1>5, <1>6, <2>1, <2>2 DEF FsStates
  <2>4. r \in FsStates(W) /\ r.disk = d /\ r.open_files = reset_open_files /\ r.fs_mounted = ok
        /\ r.inode_bitmap = d.info.inode_bitmap /\ r.data_bitmap = d.info.data_bitmap /\ r.inode_table = d.inode_table
    BY <2>2, <2>3 DEF FsStates
  <2> HIDE DEF r
  <2> QED BY <1>1, <1>7, <1>8, <2>2, <2>4 DEF Boots
<1>9. CASE ~(d.boot /\ d.info.magic)
  <2>1. y = Fail(x) /\ ~Mountable(d)
    BY <1>5, <1>9 DEF Mountable, read_metadata
  <2> HIDE DEF y
  <2>2. y.ok = FALSE /\ y \in FsStates(W) /\ y.disk = d /\ y.open_files = reset_open_files /\ y.inode_bitmap = {}
    BY <1>5, <2>1 DEF FsStates, Fail
  <2>3. r \in FsStates(W) /\ r.disk = d /\ r.open_files = reset_open_files /\ r.fs_mounted = FALSE /\ r.inode_bitmap = {}
    BY <2>2 DEF FsStates
  <2> HIDE DEF r
  <2> QED BY <1>1, <1>7, <1>9, <2>1, <2>3 DEF Boots
<1> QED BY <1>8, <1>9

\* What the machine finds when it starts from the disk d.
LEMMA BootBetween ==
  ASSUME NEW d, NEW r, Boots(d, r), NEW D \in SUBSET Inodes, NEW k, Held(DiskView(d, D), Lost(k)),
         D = {} => ~d.boot \/ \E s : Ready(s) /\ s.disk = d
  PROVE  Between(Resume(r), D, k) /\ (Mountable(d) => Resume(r).fs_mounted)
<1> DEFINE q == Resume(r)
<1>1. PICK V : r \in FsStates(V)
  BY DEF Boots
<1>2. /\ r.disk = d /\ (r.fs_mounted <=> Mountable(d)) /\ \A fd \in Fds : ~r.open_files[fd].used
      /\ (d.boot /\ d.info.magic) =>
           r.inode_bitmap = d.info.inode_bitmap /\ r.data_bitmap = d.info.data_bitmap /\ r.inode_table = d.inode_table
      /\ ~(d.boot /\ d.info.magic) => r.inode_bitmap = {}
  BY DEF Boots
<1>3. /\ q \in FsStates(V \cup {<<>>}) /\ SameTables(r, q) /\ q.disk = d
      /\ q.open_files = r.open_files /\ q.fs_mounted = r.fs_mounted
  BY <1>1, <1>2, Resumed
<1> HIDE DEF q
<1>4. q.fs_mounted <=> Mountable(d)
  BY <1>2, <1>3
<1>5. Held(MemoryView(q, D), Lost(k)) /\ Held(DiskView(q.disk, D), Lost(k))
  <2>1. CASE d.boot /\ d.info.magic
    <3>1. MemoryView(q, D) = DiskView(d, D)
      BY <1>2, <1>3, <2>1 DEF MemoryView, DiskView, SameTables
    <3> QED BY <1>3, <3>1
  <2>2. CASE ~(d.boot /\ d.info.magic)
    <3>1. MemoryView(q, D).inode_bitmap = {}
      BY <1>2, <1>3, <2>2 DEF MemoryView, View, SameTables
    <3> QED BY <1>3, <3>1, HeldNone
  <2> QED BY <2>1, <2>2
<1>6. ASSUME NEW s, Ready(s), s.disk = d PROVE Ready(q) /\ q.fs_mounted
  <2>1. Mountable(d) /\ d.info = InfoOf(s) /\ d.inode_table = s.inode_table
    BY <1>6 DEF Ready, Synchronous
  <2>2. SameTables(s, q)
    BY <1>2, <1>3, <2>1 DEF SameTables, InfoOf, Mountable
  <2>3. AliveIn(q)
    BY <1>2, <1>3 DEF AliveIn
  <2>4. Ready(q)
    BY <1>3, <1>6, <2>2, <2>3, StaysReady
  <2> QED BY <1>4, <2>1, <2>4
<1>7. ~d.boot => BlankFs(q)
  BY <1>2, <1>3 DEF BlankFs, SameTables, Mountable
<1> QED BY <1>3, <1>4, <1>5, <1>6, <1>7 DEF Between, q

\* The machine stops in the middle of a call.
LEMMA StopBetween ==
  ASSUME NEW s, Ready(s), NEW t, Effect(s, t), s.fault.kind = "stop", NEW r, Boots(t.disk, r)
  PROVE  Between(Resume(r), t.touched, "stop") /\ Resume(r).fs_mounted
<1>1. Sound(t, Exc(t)) /\ SameCaller(s, t) /\ (t.touched = {} => t.disk = s.disk) /\ Mountable(t.disk)
  BY DEF Effect, Changes, Ready
<1>2. PICK V, T : Good(V, t, T, Exc(t))
  BY <1>1 DEF Sound
<1>3. LostExc(t) = Lost("stop")
  BY <1>1 DEF SameCaller, LostExc, Lost
<1>4. t.touched \in SUBSET Inodes
  BY <1>1, SoundFields
<1>5. Held(DiskView(t.disk, t.touched), Lost("stop"))
  BY <1>2, <1>3, HeldApart
<1> QED BY <1>1, <1>4, <1>5, BootBetween

\* The machine stops in the middle of mkfs.
LEMMA FormatStops ==
  ASSUME NEW s, NEW t, Formats(s, t), s.fs_mounted => Mountable(s.disk), NEW r, Boots(t.disk, r), NEW k
  PROVE  Between(Resume(r), Inodes, k) /\ (s.fs_mounted => Resume(r).fs_mounted)
<1>1. Sound(t, Exc(t)) /\ (s.fs_mounted => Mountable(t.disk))
  BY DEF Formats
<1>2. PICK V, T : Good(V, t, T, Exc(t))
  BY <1>1 DEF Sound
<1>3. t.disk.info.inode_bitmap \subseteq Inodes
  BY <1>2, Fields DEF Good, Infos
<1>4. DiskView(t.disk, Inodes).inode_bitmap = {}
  BY <1>3 DEF DiskView, View
<1>5. Held(DiskView(t.disk, Inodes), Lost(k))
  BY <1>4, HeldNone
<1>6. Inodes # {}
  BY FsSizes
<1> QED BY <1>1, <1>5, <1>6, BootBetween

-----------------------------------------------------------------------------
(* The steps of the state machine.                                         *)

\* The inductive invariant of the state machine.
FsInv == Between(Now, doubt, fault)

\* What a step leaves is what the next call starts from.
LEMMA NowNext ==
  ASSUME NEW t, Leave(t)
  PROVE  Now' = Resume(t) /\ fs_mounted' = t.fs_mounted
BY DEF Leave, Now, Current, Resume

\* The record of the present state.
LEMMA NowFields ==
  /\ Now.inode_bitmap = inode_bitmap /\ Now.data_bitmap = data_bitmap /\ Now.inode_table = inode_table
  /\ Now.open_files = open_files /\ Now.current_directory = current_directory /\ Now.fs_mounted = fs_mounted
  /\ Now.disk = disk /\ Now.ok = TRUE /\ Now.out = <<>> /\ Now.done = 0 /\ Now.fault = NoFault
BY DEF Now, Current

\* A call that is refused leaves everything.
LEMMA FailResumes ==
  Resume(Fail(Now)) = Now
<1> DEFINE t == Fail(Now)
<1>1. /\ t.inode_bitmap = inode_bitmap /\ t.data_bitmap = data_bitmap /\ t.inode_table = inode_table
      /\ t.open_files = open_files /\ t.current_directory = current_directory /\ t.fs_mounted = fs_mounted
      /\ t.disk = disk
  BY DEF Fail, Now, Current
<1> HIDE DEF t
<1> QED BY <1>1 DEF Resume, Now, Current, t

\* The state in which a call with the fault f starts.
LEMMA InjectedState ==
  ASSUME NEW V, Now \in FsStates(V), NEW f \in Faults
  PROVE  Current(f) \in FsStates(V)
<1>1. /\ inode_bitmap \in SUBSET Inodes /\ data_bitmap \in SUBSET Blocks /\ inode_table \in InodeTables
      /\ open_files \in OpenTables /\ current_directory \in Inodes /\ fs_mounted \in BOOLEAN /\ disk \in Disks(V)
      /\ INVALID \in Pointer /\ NoTable \in IndirectTables /\ <<>> \in V
  <2>1. Now.out = <<>> /\ Now.out \in V
    BY DEF FsStates, Now, Current
  <2> HIDE DEF Now
  <2> QED BY <2>1, Fields, NowFields, NoPointers DEF Pointer
<1> HIDE DEF NoTable, Pointer
<1> QED BY <1>1 DEF FsStates, Current

\* It is ready when the present state is.
LEMMA InjectedReady ==
  ASSUME Ready(Now), NEW f \in Faults
  PROVE  /\ Ready(Current(f)) /\ Current(f).fs_mounted = fs_mounted /\ Current(f).fault = f
         /\ Current(f).ok = TRUE /\ Current(f).out = <<>>
<1> DEFINE s == Current(f)
<1>1. PICK V : Now \in FsStates(V)
  BY ReadyFields
<1>2. s \in FsStates(V)
  BY <1>1, InjectedState
<1>3. /\ s.fs_mounted = fs_mounted /\ s.fault = f /\ s.ok = TRUE /\ s.out = <<>> /\ s.disk = Now.disk
      /\ SameTables(Now, s) /\ s.open_files = Now.open_files
  BY DEF Current, Now, SameTables
<1> HIDE DEF s, Now
<1>4. AliveIn(s)
  BY <1>3 DEF Ready, AliveIn, IsRegular, SameTables
<1>5. Ready(s)
  BY <1>2, <1>3, <1>4, StaysReady
<1> QED BY <1>3, <1>5 DEF s

\* A call runs to its end.
LEMMA CompletesStep ==
  ASSUME FsInv, doubt = {}, NEW t, Ready(Now) /\ fs_mounted => Ready(t) /\ t.fs_mounted,
         BlankFs(Now) => t = Fail(Now), Leave(t), doubt' = doubt, fault' = fault
  PROVE  FsInv' /\ (fs_mounted => fs_mounted')
<1>1. (Ready(Now) /\ fs_mounted) \/ BlankFs(Now)
  BY NowFields DEF FsInv, Between
<1>2. Now' = Resume(t) /\ fs_mounted' = t.fs_mounted
  BY NowNext
<1>3. CASE Ready(Now) /\ fs_mounted
  <2>1. Between(Resume(t), {}, fault)
    BY <1>3, ReadyBetween
  <2> QED BY <1>2, <1>3, <2>1 DEF FsInv
<1>4. CASE BlankFs(Now)
  <2>1. Resume(t) = Now /\ ~fs_mounted
    BY <1>4, FailResumes, NowFields DEF BlankFs
  <2> QED BY <1>2, <2>1 DEF FsInv
<1> QED BY <1>1, <1>3, <1>4

\* The outcomes g[f] of a call, by the fault f.
Serves(g) ==
  /\ Ready(Now) /\ fs_mounted => \A f \in Faults : Effect(Current(f), g[f])
  /\ BlankFs(Now) => g[NoFault] = Fail(Now)
Performs(g) ==
  \/ Leave(g[NoFault]) /\ doubt' = doubt /\ fault' = fault
  \/ \E kind \in {"lost", "late"} : \E at \in 0 .. g[NoFault].done - 1 :
       /\ at < g[[kind |-> kind, at |-> at]].done
       /\ Leave(g[[kind |-> kind, at |-> at]])
       /\ doubt' = g[[kind |-> kind, at |-> at]].touched /\ fault' = kind
  \/ \E at \in 0 .. g[NoFault].done - 1 :
       /\ at < g[[kind |-> "stop", at |-> at]].done
       /\ Leave(simplefs_init(g[[kind |-> "stop", at |-> at]].disk))
       /\ doubt' = g[[kind |-> "stop", at |-> at]].touched /\ fault' = "stop"

\* What a call must be like, with the fault f when it strikes and without one.
Endures(g) ==
  /\ Ready(Now) /\ fs_mounted =>
       /\ Ready(g[NoFault]) /\ g[NoFault].fs_mounted
       /\ \A f \in Faults : f.kind # "none" /\ f.at < g[f].done => Effect(Current(f), g[f])
  /\ BlankFs(Now) => g[NoFault] = Fail(Now)

\* A call that serves whatever the fault endures it.
LEMMA ServesEndures ==
  ASSUME NEW g, Serves(g)
  PROVE  Endures(g)
<1>1. NoFault \in Faults /\ NoFault.kind = "none"
  BY DEF NoFault, Faults
<1>2. ASSUME Ready(Now), fs_mounted PROVE Ready(g[NoFault]) /\ g[NoFault].fs_mounted
  <2> DEFINE s == Current(NoFault)
             t == g[NoFault]
  <2>1. Ready(s) /\ s.fs_mounted = fs_mounted /\ s.fault = NoFault
    BY <1>1, <1>2, InjectedReady
  <2>2. Effect(s, t)
    BY <1>1, <1>2 DEF Serves
  <2> HIDE DEF s, t
  <2>3. Ready(t) /\ t.fs_mounted = s.fs_mounted
    BY <1>1, <2>1, <2>2, EffectReady
  <2> QED BY <1>2, <2>1, <2>3 DEF t
<1> QED BY <1>2 DEF Serves, Endures

\* A call that may write, whatever happens to it.
LEMMA DoesStep ==
  ASSUME FsInv, doubt = {}, NEW g, Endures(g), Performs(g)
  PROVE  FsInv' /\ (fs_mounted => fs_mounted')
<1>1. (Ready(Now) /\ fs_mounted) \/ BlankFs(Now)
  BY NowFields DEF FsInv, Between
<1>2. NoFault \in Faults /\ NoFault.kind = "none"
  BY DEF NoFault, Faults
<1>3. CASE Leave(g[NoFault]) /\ doubt' = doubt /\ fault' = fault
  <2>1. ASSUME Ready(Now), fs_mounted PROVE Ready(g[NoFault]) /\ g[NoFault].fs_mounted
    BY <2>1 DEF Endures
  <2>2. BlankFs(Now) => g[NoFault] = Fail(Now)
    BY DEF Endures
  <2> QED BY <1>3, <2>1, <2>2, CompletesStep
<1>4. ASSUME NEW at \in 0 .. g[NoFault].done - 1 PROVE Ready(Now) /\ fs_mounted
  <2>1. ASSUME BlankFs(Now) PROVE FALSE
    <3>1. g[NoFault].done = 0
      BY <2>1, NowFields DEF Endures, Fail, Now, Current
    <3> QED BY <1>4, <3>1
  <2> QED BY <1>1, <2>1
<1>5. ASSUME NEW kind \in {"lost", "late"}, NEW at \in 0 .. g[NoFault].done - 1,
             at < g[[kind |-> kind, at |-> at]].done,
             Leave(g[[kind |-> kind, at |-> at]]),
             doubt' = g[[kind |-> kind, at |-> at]].touched, fault' = kind
      PROVE  FsInv' /\ fs_mounted'
  <2> DEFINE f == [kind |-> kind, at |-> at]
             t == g[f]
  <2>1. f \in Faults /\ f.kind = kind /\ f.at = at
    BY DEF Faults
  <2> HIDE DEF f
  <2>2. Ready(Current(f)) /\ Current(f).fs_mounted = fs_mounted /\ Current(f).fault = f
    BY <1>4, <2>1, InjectedReady
  <2>3. Effect(Current(f), t)
    <3>1. f.kind # "none" /\ f.at < t.done
      BY <1>5, <2>1 DEF f
    <3> QED BY <1>4, <2>1, <3>1 DEF Endures
  <2>4. Leave(t) /\ doubt' = t.touched
    BY <1>5 DEF f
  <2>5. fs_mounted
    BY <1>4
  <2> HIDE DEF t
  <2>6. Between(Resume(t), t.touched, kind) /\ Resume(t).fs_mounted
    BY <2>1, <2>2, <2>3, <2>5, FaultBetween
  <2>7. Now' = Resume(t) /\ fs_mounted' = t.fs_mounted /\ Resume(t).fs_mounted = t.fs_mounted
    BY <2>4, NowNext DEF Resume
  <2> QED BY <1>5, <2>4, <2>6, <2>7 DEF FsInv
<1>6. ASSUME NEW at \in 0 .. g[NoFault].done - 1,
             at < g[[kind |-> "stop", at |-> at]].done,
             Leave(simplefs_init(g[[kind |-> "stop", at |-> at]].disk)),
             doubt' = g[[kind |-> "stop", at |-> at]].touched, fault' = "stop"
      PROVE  FsInv' /\ fs_mounted'
  <2> DEFINE f == [kind |-> "stop", at |-> at]
             t == g[f]
             r == simplefs_init(t.disk)
  <2>1. f \in Faults /\ f.kind = "stop" /\ f.at = at
    BY DEF Faults
  <2> HIDE DEF f
  <2>2. Ready(Current(f)) /\ Current(f).fault = f
    BY <1>4, <2>1, InjectedReady
  <2>3. Effect(Current(f), t)
    <3>1. f.kind # "none" /\ f.at < t.done
      BY <1>6, <2>1 DEF f
    <3> QED BY <1>4, <2>1, <3>1 DEF Endures
  <2>4. Leave(r) /\ doubt' = t.touched
    BY <1>6 DEF f
  <2> HIDE DEF t
  <2>5. PICK V : t \in FsStates(V)
    BY <2>3 DEF Effect, Sound, Good
  <2>6. PICK U : Now \in FsStates(U)
    BY DEF FsInv, Between
  <2>7. t.disk \in Disks(V)
    BY <2>5, Fields
  <2>8. Boots(t.disk, r)
    BY <2>6, <2>7, BootsFrom
  <2> HIDE DEF r
  <2>9. Between(Resume(r), t.touched, "stop") /\ Resume(r).fs_mounted
    BY <2>1, <2>2, <2>3, <2>8, StopBetween
  <2>10. Now' = Resume(r) /\ fs_mounted' = r.fs_mounted /\ Resume(r).fs_mounted = r.fs_mounted
    BY <2>4, NowNext DEF Resume
  <2> QED BY <1>6, <2>4, <2>9, <2>10 DEF FsInv
<1> QED BY <1>3, <1>5, <1>6 DEF Performs

\* Without a file system every call is refused.
LEMMA BlankRefuses ==
  ASSUME NEW s, BlankFs(s), NEW name, NEW data
  PROVE  /\ simplefs_create(s, name) = Fail(s) /\ simplefs_delete(s, name) = Fail(s)
         /\ simplefs_make_dir(s, name) = Fail(s) /\ simplefs_remove_dir(s, name) = Fail(s)
         /\ simplefs_write_file(s, name, data) = Fail(s)
         /\ simplefs_change_dir(s, name) = Fail(s) /\ simplefs_open(s, name) = Fail(s)
<1>1. ~s.fs_mounted
  BY DEF BlankFs
<1>2. simplefs_create(s, name) = Fail(s)
  BY <1>1 DEF simplefs_create
<1>3. simplefs_delete(s, name) = Fail(s)
  BY <1>1 DEF simplefs_delete
<1>4. simplefs_make_dir(s, name) = Fail(s)
  BY <1>1 DEF simplefs_make_dir
<1>5. simplefs_remove_dir(s, name) = Fail(s)
  BY <1>1 DEF simplefs_remove_dir
<1>6. simplefs_write_file(s, name, data) = Fail(s)
  BY <1>1 DEF simplefs_write_file
<1>7. simplefs_change_dir(s, name) = Fail(s)
  BY <1>1 DEF simplefs_change_dir
<1>8. simplefs_open(s, name) = Fail(s)
  BY <1>1 DEF simplefs_open, NamesFile
<1> QED BY <1>2, <1>3, <1>4, <1>5, <1>6, <1>7, <1>8

\* The calls on descriptors.
LEMMA BlankDescriptors ==
  ASSUME NEW s, BlankFs(s), NEW fd \in Fds, NEW data, NEW offset
  PROVE  /\ simplefs_close(s, fd) = Fail(s) /\ simplefs_read_fd(s, fd) = Fail(s)
         /\ simplefs_write_fd(s, fd, data) = Fail(s) /\ simplefs_seek(s, fd, offset) = Fail(s)
<1>1. ~s.fs_mounted /\ ~s.open_files[fd].used
  BY DEF BlankFs
<1>2. simplefs_close(s, fd) = Fail(s)
  BY <1>1 DEF simplefs_close
<1>3. simplefs_read_fd(s, fd) = Fail(s)
  BY <1>1 DEF simplefs_read_fd
<1>4. simplefs_write_fd(s, fd, data) = Fail(s)
  BY <1>1 DEF simplefs_write_fd
<1>5. simplefs_seek(s, fd, offset) = Fail(s)
  BY <1>1 DEF simplefs_seek
<1> QED BY <1>2, <1>3, <1>4, <1>5

\* simplefs_append_file: there is nothing to read, and the write is refused.
LEMMA BlankAppends ==
  ASSUME NEW s, BlankFs(s), NEW V, s \in FsStates(V), s.ok, s.out = <<>>, NEW name, NEW data
  PROVE  simplefs_append_file(s, name, data) = Fail(s)
<1>1. ~Found(s, s.current_directory, name)
  <2>1. ~IsDirectory(s, s.current_directory)
    BY DEF BlankFs, IsDirectory
  <2>2. read_directory_entries(s, s.current_directory) = <<>>
    BY <2>1 DEF read_directory_entries
  <2>3. SlotsOf(<<>>, name) = {}
    BY DEF SlotsOf
  <2> QED BY <2>2, <2>3 DEF Found
<1>2. simplefs_write_file(s, name, s.out \o data) = Fail(s)
  BY BlankRefuses
<1>3. [Fail(s) EXCEPT !.out = <<>>] = Fail(s)
  BY DEF Fail, FsStates
<1> QED BY <1>1, <1>2, <1>3 DEF simplefs_append_file, Then

\* The outcomes of Touch.
LEMMA TouchServes ==
  ASSUME FsInv, NEW name, Touch(name)
  PROVE  LET g == [f \in Faults |-> simplefs_create(Current(f), name)] IN doubt = {} /\ Serves(g) /\ Performs(g)
<1> DEFINE g == [f \in Faults |-> simplefs_create(Current(f), name)]
<1>1. NoFault \in Faults /\ \A kind \in {"lost", "late", "stop"} : \A at \in Nat : [kind |-> kind, at |-> at] \in Faults
  BY DEF NoFault, Faults
<1>2. Serves(g)
  <2>1. ASSUME Ready(Now), fs_mounted, NEW f \in Faults PROVE Effect(Current(f), g[f])
    <3>1. Sound(Current(f), {})
      BY <2>1, InjectedReady DEF Ready
    <3> QED BY <3>1, OutcomeCreate, EffectKeeping
  <2>2. ASSUME BlankFs(Now) PROVE g[NoFault] = Fail(Now)
    BY <1>1, <2>2, BlankRefuses DEF Now
  <2> QED BY <2>1, <2>2 DEF Serves
<1>3. doubt = {} /\ Performs(g)
  <2>1. g[NoFault] = simplefs_create(Current(NoFault), name)
    BY <1>1
  <2>2. \A kind \in {"lost", "late", "stop"} : \A at \in Nat :
          g[[kind |-> kind, at |-> at]] = simplefs_create(Current([kind |-> kind, at |-> at]), name)
    BY <1>1
  <2> HIDE DEF g
  <2> QED BY <2>1, <2>2 DEF Touch, Does, DoesThrough, Completes, WriteFails, MachineStops, WritesOf, Performs
<1> QED BY <1>2, <1>3

\* Touch.
LEMMA TouchStep ==
  ASSUME FsInv, NEW name, Touch(name)
  PROVE  FsInv' /\ (fs_mounted => fs_mounted')
<1> DEFINE g == [f \in Faults |-> simplefs_create(Current(f), name)]
<1>1. doubt = {} /\ Serves(g) /\ Performs(g)
  BY TouchServes
<1> HIDE DEF g
<1> QED BY <1>1, ServesEndures, DoesStep

\* The same in the present state.
LEMMA BlankAppendsNow ==
  ASSUME FsInv, BlankFs(Now), NEW name, NEW data
  PROVE  simplefs_append_file(Now, name, data) = Fail(Now)
<1>1. PICK V : Now \in FsStates(V)
  BY DEF FsInv, Between
<1>2. Now.ok /\ Now.out = <<>>
  BY NowFields
<1> QED BY <1>1, <1>2, BlankAppends

\* The outcomes of Remove.
LEMMA RemoveServes ==
  ASSUME FsInv, NEW name, Remove(name)
  PROVE  LET g == [f \in Faults |-> simplefs_delete(Current(f), name)] IN doubt = {} /\ Serves(g) /\ Performs(g)
<1> DEFINE g == [f \in Faults |-> simplefs_delete(Current(f), name)]
<1>1. NoFault \in Faults /\ \A kind \in {"lost", "late", "stop"} : \A at \in Nat : [kind |-> kind, at |-> at] \in Faults
  BY DEF NoFault, Faults
<1>2. Serves(g)
  <2>1. ASSUME Ready(Now), fs_mounted, NEW f \in Faults PROVE Effect(Current(f), g[f])
    <3>1. Sound(Current(f), {}) /\ Current(f).ok /\ Current(f).out = <<>>
      BY <2>1, InjectedReady DEF Ready
    <3> QED BY <3>1, EffectDelete
  <2>2. ASSUME BlankFs(Now) PROVE g[NoFault] = Fail(Now)
    BY <1>1, <2>2, BlankRefuses DEF Now
  <2> QED BY <2>1, <2>2 DEF Serves
<1>3. doubt = {} /\ Performs(g)
  <2>1. g[NoFault] = simplefs_delete(Current(NoFault), name)
    BY <1>1
  <2>2. \A kind \in {"lost", "late", "stop"} : \A at \in Nat :
          g[[kind |-> kind, at |-> at]] = simplefs_delete(Current([kind |-> kind, at |-> at]), name)
    BY <1>1
  <2> HIDE DEF g
  <2> QED BY <2>1, <2>2 DEF Remove, Does, DoesThrough, Completes, WriteFails, MachineStops, WritesOf, Performs
<1> QED BY <1>2, <1>3

\* Remove.
LEMMA RemoveStep ==
  ASSUME FsInv, NEW name, Remove(name)
  PROVE  FsInv' /\ (fs_mounted => fs_mounted')
<1> DEFINE g == [f \in Faults |-> simplefs_delete(Current(f), name)]
<1>1. doubt = {} /\ Serves(g) /\ Performs(g)
  BY RemoveServes
<1> HIDE DEF g
<1> QED BY <1>1, ServesEndures, DoesStep

\* The outcomes of MakeDir.
LEMMA MakeDirServes ==
  ASSUME FsInv, NEW name, MakeDir(name)
  PROVE  LET g == [f \in Faults |-> simplefs_make_dir(Current(f), name)] IN doubt = {} /\ Serves(g) /\ Performs(g)
<1> DEFINE g == [f \in Faults |-> simplefs_make_dir(Current(f), name)]
<1>1. NoFault \in Faults /\ \A kind \in {"lost", "late", "stop"} : \A at \in Nat : [kind |-> kind, at |-> at] \in Faults
  BY DEF NoFault, Faults
<1>2. Serves(g)
  <2>1. ASSUME Ready(Now), fs_mounted, NEW f \in Faults PROVE Effect(Current(f), g[f])
    <3>1. Sound(Current(f), {}) /\ Current(f).ok /\ Current(f).out = <<>>
      BY <2>1, InjectedReady DEF Ready
    <3> QED BY <3>1, OutcomeMakeDir, EffectKeeping
  <2>2. ASSUME BlankFs(Now) PROVE g[NoFault] = Fail(Now)
    BY <1>1, <2>2, BlankRefuses DEF Now
  <2> QED BY <2>1, <2>2 DEF Serves
<1>3. doubt = {} /\ Performs(g)
  <2>1. g[NoFault] = simplefs_make_dir(Current(NoFault), name)
    BY <1>1
  <2>2. \A kind \in {"lost", "late", "stop"} : \A at \in Nat :
          g[[kind |-> kind, at |-> at]] = simplefs_make_dir(Current([kind |-> kind, at |-> at]), name)
    BY <1>1
  <2> HIDE DEF g
  <2> QED BY <2>1, <2>2 DEF MakeDir, Does, DoesThrough, Completes, WriteFails, MachineStops, WritesOf, Performs
<1> QED BY <1>2, <1>3

\* MakeDir.
LEMMA MakeDirStep ==
  ASSUME FsInv, NEW name, MakeDir(name)
  PROVE  FsInv' /\ (fs_mounted => fs_mounted')
<1> DEFINE g == [f \in Faults |-> simplefs_make_dir(Current(f), name)]
<1>1. doubt = {} /\ Serves(g) /\ Performs(g)
  BY MakeDirServes
<1> HIDE DEF g
<1> QED BY <1>1, ServesEndures, DoesStep

\* The outcomes of RemoveDir.
LEMMA RemoveDirServes ==
  ASSUME FsInv, NEW name, RemoveDir(name)
  PROVE  LET g == [f \in Faults |-> simplefs_remove_dir(Current(f), name)] IN doubt = {} /\ Serves(g) /\ Performs(g)
<1> DEFINE g == [f \in Faults |-> simplefs_remove_dir(Current(f), name)]
<1>1. NoFault \in Faults /\ \A kind \in {"lost", "late", "stop"} : \A at \in Nat : [kind |-> kind, at |-> at] \in Faults
  BY DEF NoFault, Faults
<1>2. Serves(g)
  <2>1. ASSUME Ready(Now), fs_mounted, NEW f \in Faults PROVE Effect(Current(f), g[f])
    <3>1. Sound(Current(f), {}) /\ Current(f).ok /\ Current(f).out = <<>>
      BY <2>1, InjectedReady DEF Ready
    <3> QED BY <3>1, EffectRemoveDir
  <2>2. ASSUME BlankFs(Now) PROVE g[NoFault] = Fail(Now)
    BY <1>1, <2>2, BlankRefuses DEF Now
  <2> QED BY <2>1, <2>2 DEF Serves
<1>3. doubt = {} /\ Performs(g)
  <2>1. g[NoFault] = simplefs_remove_dir(Current(NoFault), name)
    BY <1>1
  <2>2. \A kind \in {"lost", "late", "stop"} : \A at \in Nat :
          g[[kind |-> kind, at |-> at]] = simplefs_remove_dir(Current([kind |-> kind, at |-> at]), name)
    BY <1>1
  <2> HIDE DEF g
  <2> QED BY <2>1, <2>2 DEF RemoveDir, Does, DoesThrough, Completes, WriteFails, MachineStops, WritesOf, Performs
<1> QED BY <1>2, <1>3

\* RemoveDir.
LEMMA RemoveDirStep ==
  ASSUME FsInv, NEW name, RemoveDir(name)
  PROVE  FsInv' /\ (fs_mounted => fs_mounted')
<1> DEFINE g == [f \in Faults |-> simplefs_remove_dir(Current(f), name)]
<1>1. doubt = {} /\ Serves(g) /\ Performs(g)
  BY RemoveDirServes
<1> HIDE DEF g
<1> QED BY <1>1, ServesEndures, DoesStep

\* The outcomes of WriteFile.
LEMMA WriteFileServes ==
  ASSUME FsInv, NEW name, NEW data, IsSequence(data), WriteFile(name, data)
  PROVE  LET g == [f \in Faults |-> simplefs_write_file(Current(f), name, data)] IN doubt = {} /\ Serves(g) /\ Performs(g)
<1> DEFINE g == [f \in Faults |-> simplefs_write_file(Current(f), name, data)]
<1>1. NoFault \in Faults /\ \A kind \in {"lost", "late", "stop"} : \A at \in Nat : [kind |-> kind, at |-> at] \in Faults
  BY DEF NoFault, Faults
<1>2. Serves(g)
  <2>1. ASSUME Ready(Now), fs_mounted, NEW f \in Faults PROVE Effect(Current(f), g[f])
    <3>1. Sound(Current(f), {}) /\ Current(f).ok /\ Current(f).out = <<>>
      BY <2>1, InjectedReady DEF Ready
    <3> QED BY <3>1, OutcomeWriteFile, EffectKeeping
  <2>2. ASSUME BlankFs(Now) PROVE g[NoFault] = Fail(Now)
    BY <1>1, <2>2, BlankRefuses DEF Now
  <2> QED BY <2>1, <2>2 DEF Serves
<1>3. doubt = {} /\ Performs(g)
  <2>1. g[NoFault] = simplefs_write_file(Current(NoFault), name, data)
    BY <1>1
  <2>2. \A kind \in {"lost", "late", "stop"} : \A at \in Nat :
          g[[kind |-> kind, at |-> at]] = simplefs_write_file(Current([kind |-> kind, at |-> at]), name, data)
    BY <1>1
  <2> HIDE DEF g
  <2> QED BY <2>1, <2>2 DEF WriteFile, Does, DoesThrough, Completes, WriteFails, MachineStops, WritesOf, Performs
<1> QED BY <1>2, <1>3

\* WriteFile.
LEMMA WriteFileStep ==
  ASSUME FsInv, NEW name, NEW data, IsSequence(data), WriteFile(name, data)
  PROVE  FsInv' /\ (fs_mounted => fs_mounted')
<1> DEFINE g == [f \in Faults |-> simplefs_write_file(Current(f), name, data)]
<1>1. doubt = {} /\ Serves(g) /\ Performs(g)
  BY WriteFileServes
<1> HIDE DEF g
<1> QED BY <1>1, ServesEndures, DoesStep

\* The outcomes of AppendFile.
LEMMA AppendFileServes ==
  ASSUME FsInv, NEW name, NEW data, IsSequence(data), AppendFile(name, data)
  PROVE  LET g == [f \in Faults |-> simplefs_append_file(Current(f), name, data)] IN doubt = {} /\ Serves(g) /\ Performs(g)
<1> DEFINE g == [f \in Faults |-> simplefs_append_file(Current(f), name, data)]
<1>1. NoFault \in Faults /\ \A kind \in {"lost", "late", "stop"} : \A at \in Nat : [kind |-> kind, at |-> at] \in Faults
  BY DEF NoFault, Faults
<1>2. Serves(g)
  <2>1. ASSUME Ready(Now), fs_mounted, NEW f \in Faults PROVE Effect(Current(f), g[f])
    <3>1. Sound(Current(f), {}) /\ Current(f).ok /\ Current(f).out = <<>>
      BY <2>1, InjectedReady DEF Ready
    <3> QED BY <3>1, OutcomeAppendFile, EffectKeeping
  <2>2. ASSUME BlankFs(Now) PROVE g[NoFault] = Fail(Now)
    BY <1>1, <2>2, BlankAppendsNow DEF Now
  <2> QED BY <2>1, <2>2 DEF Serves
<1>3. doubt = {} /\ Performs(g)
  <2>1. g[NoFault] = simplefs_append_file(Current(NoFault), name, data)
    BY <1>1
  <2>2. \A kind \in {"lost", "late", "stop"} : \A at \in Nat :
          g[[kind |-> kind, at |-> at]] = simplefs_append_file(Current([kind |-> kind, at |-> at]), name, data)
    BY <1>1
  <2> HIDE DEF g
  <2> QED BY <2>1, <2>2 DEF AppendFile, Does, DoesThrough, Completes, WriteFails, MachineStops, WritesOf, Performs
<1> QED BY <1>2, <1>3

\* AppendFile.
LEMMA AppendFileStep ==
  ASSUME FsInv, NEW name, NEW data, IsSequence(data), AppendFile(name, data)
  PROVE  FsInv' /\ (fs_mounted => fs_mounted')
<1> DEFINE g == [f \in Faults |-> simplefs_append_file(Current(f), name, data)]
<1>1. doubt = {} /\ Serves(g) /\ Performs(g)
  BY AppendFileServes
<1> HIDE DEF g
<1> QED BY <1>1, ServesEndures, DoesStep

\* The outcomes of WriteFd.
LEMMA WriteFdEndures ==
  ASSUME FsInv, NEW fd \in Fds, NEW data, IsSequence(data), WriteFd(fd, data)
  PROVE  LET g == [f \in Faults |-> simplefs_write_fd(Current(f), fd, data)] IN
         doubt = {} /\ Endures(g) /\ Performs(g)
<1> DEFINE g == [f \in Faults |-> simplefs_write_fd(Current(f), fd, data)]
<1>1. NoFault \in Faults /\ \A kind \in {"lost", "late", "stop"} : \A at \in Nat : [kind |-> kind, at |-> at] \in Faults
  BY DEF NoFault, Faults
<1>2. Endures(g)
  <2>1. ASSUME Ready(Now), fs_mounted PROVE Ready(g[NoFault]) /\ g[NoFault].fs_mounted
    <3>1. Now.fault.kind = "none" /\ Now.fs_mounted
      BY <2>1, NowFields DEF NoFault
    <3>2. g[NoFault] = simplefs_write_fd(Now, fd, data)
      BY <1>1 DEF Now
    <3> HIDE DEF g
    <3> QED BY <2>1, <3>1, <3>2, WriteReady
  <2>2. ASSUME Ready(Now), NEW f \in Faults, f.kind # "none", f.at < g[f].done
        PROVE  Effect(Current(f), g[f])
    <3>1. Ready(Current(f)) /\ Current(f).fault = f
      BY <2>2, InjectedReady
    <3>2. Current(f).done = 0
      BY DEF Current
    <3>3. g[f] = simplefs_write_fd(Current(f), fd, data)
      OBVIOUS
    <3> HIDE DEF g
    <3> QED BY <2>2, <3>1, <3>2, <3>3, WriteStruck
  <2>3. ASSUME BlankFs(Now) PROVE g[NoFault] = Fail(Now)
    BY <1>1, <2>3, BlankDescriptors DEF Now
  <2> HIDE DEF g
  <2> QED BY <2>1, <2>2, <2>3 DEF Endures
<1>3. doubt = {} /\ Performs(g)
  <2>1. g[NoFault] = simplefs_write_fd(Current(NoFault), fd, data)
    BY <1>1
  <2>2. \A kind \in {"lost", "late", "stop"} : \A at \in Nat :
          g[[kind |-> kind, at |-> at]] = simplefs_write_fd(Current([kind |-> kind, at |-> at]), fd, data)
    BY <1>1
  <2> HIDE DEF g
  <2> QED BY <2>1, <2>2 DEF WriteFd, DoesThrough, Completes, WriteFails, MachineStops, WritesOf, Performs
<1> QED BY <1>2, <1>3

\* WriteFd.
LEMMA WriteFdStep ==
  ASSUME FsInv, NEW fd \in Fds, NEW data, IsSequence(data), WriteFd(fd, data)
  PROVE  FsInv' /\ (fs_mounted => fs_mounted')
<1> DEFINE g == [f \in Faults |-> simplefs_write_fd(Current(f), fd, data)]
<1>1. doubt = {} /\ Endures(g) /\ Performs(g)
  BY WriteFdEndures
<1> HIDE DEF g
<1> QED BY <1>1, DoesStep

\* ChangeDir.
LEMMA ChangeDirStep ==
  ASSUME FsInv, NEW name, ChangeDir(name)
  PROVE  FsInv' /\ (fs_mounted => fs_mounted')
<1> DEFINE t == simplefs_change_dir(Now, name)
<1>1. doubt = {} /\ Leave(t) /\ doubt' = doubt /\ fault' = fault
  BY DEF ChangeDir, Quiet, Completes, Now
<1>2. ASSUME Ready(Now), fs_mounted PROVE Ready(t) /\ t.fs_mounted
  <2>1. Now.fault.kind = "none" /\ Now.fs_mounted
    BY <1>2, NowFields DEF NoFault
  <2> QED BY <1>2, <2>1, ChangeDirReady
<1>3. BlankFs(Now) => t = Fail(Now)
  BY BlankRefuses
<1> HIDE DEF t
<1> QED BY <1>1, <1>2, <1>3, CompletesStep

\* Open.
LEMMA OpenStep ==
  ASSUME FsInv, NEW name, Open(name)
  PROVE  FsInv' /\ (fs_mounted => fs_mounted')
<1> DEFINE t == simplefs_open(Now, name)
<1>1. doubt = {} /\ Leave(t) /\ doubt' = doubt /\ fault' = fault
  BY DEF Open, Quiet, Completes, Now
<1>2. ASSUME Ready(Now), fs_mounted PROVE Ready(t) /\ t.fs_mounted
  <2>1. Now.fault.kind = "none" /\ Now.fs_mounted
    BY <1>2, NowFields DEF NoFault
  <2> QED BY <1>2, <2>1, OpenReady
<1>3. BlankFs(Now) => t = Fail(Now)
  BY BlankRefuses
<1> HIDE DEF t
<1> QED BY <1>1, <1>2, <1>3, CompletesStep

\* Close.
LEMMA CloseStep ==
  ASSUME FsInv, NEW fd \in Fds, Close(fd)
  PROVE  FsInv' /\ (fs_mounted => fs_mounted')
<1> DEFINE t == simplefs_close(Now, fd)
<1>1. doubt = {} /\ Leave(t) /\ doubt' = doubt /\ fault' = fault
  BY DEF Close, Quiet, Completes, Now
<1>2. ASSUME Ready(Now), fs_mounted PROVE Ready(t) /\ t.fs_mounted
  <2>1. Now.fault.kind = "none" /\ Now.fs_mounted
    BY <1>2, NowFields DEF NoFault
  <2> QED BY <1>2, <2>1, CloseReady
<1>3. BlankFs(Now) => t = Fail(Now)
  BY BlankDescriptors
<1> HIDE DEF t
<1> QED BY <1>1, <1>2, <1>3, CompletesStep

\* ReadFd.
LEMMA ReadFdStep ==
  ASSUME FsInv, NEW fd \in Fds, ReadFd(fd)
  PROVE  FsInv' /\ (fs_mounted => fs_mounted')
<1> DEFINE t == simplefs_read_fd(Now, fd)
<1>1. doubt = {} /\ Leave(t) /\ doubt' = doubt /\ fault' = fault
  BY DEF ReadFd, Quiet, Completes, Now
<1>2. ASSUME Ready(Now), fs_mounted PROVE Ready(t) /\ t.fs_mounted
  <2>1. Now.fault.kind = "none" /\ Now.fs_mounted
    BY <1>2, NowFields DEF NoFault
  <2> QED BY <1>2, <2>1, ReadReady
<1>3. BlankFs(Now) => t = Fail(Now)
  BY BlankDescriptors
<1> HIDE DEF t
<1> QED BY <1>1, <1>2, <1>3, CompletesStep

\* Seek.
LEMMA SeekStep ==
  ASSUME FsInv, NEW fd \in Fds, NEW offset \in Nat, Seek(fd, offset)
  PROVE  FsInv' /\ (fs_mounted => fs_mounted')
<1> DEFINE t == simplefs_seek(Now, fd, offset)
<1>1. doubt = {} /\ Leave(t) /\ doubt' = doubt /\ fault' = fault
  BY DEF Seek, Quiet, Completes, Now
<1>2. ASSUME Ready(Now), fs_mounted PROVE Ready(t) /\ t.fs_mounted
  <2>1. Now.fault.kind = "none" /\ Now.fs_mounted
    BY <1>2, NowFields DEF NoFault
  <2> QED BY <1>2, <2>1, SeekReady
<1>3. BlankFs(Now) => t = Fail(Now)
  BY BlankDescriptors
<1> HIDE DEF t
<1> QED BY <1>1, <1>2, <1>3, CompletesStep

\* The outcomes of mkfs.
LEMMA FormatWays ==
  ASSUME Format
  PROVE  LET t(f) == simplefs_format(Current(f)) IN
         \/ Leave(t(NoFault)) /\ doubt' = {} /\ fault' = "none"
         \/ doubt = {} /\ \E f \in Faults : Leave(t(f)) /\ doubt' = t(f).touched
         \/ doubt = {} /\ \E f \in Faults : Leave(simplefs_init(t(f).disk)) /\ doubt' = t(f).touched
<1> DEFINE t(f) == simplefs_format(Current(f))
<1>1. \A kind \in {"lost", "late", "stop"} : \A at \in Nat : [kind |-> kind, at |-> at] \in Faults
  BY DEF Faults
<1>2. \/ Leave(t(NoFault)) /\ doubt' = {} /\ fault' = "none"
      \/ doubt = {} /\ \E f \in Faults : Leave(t(f)) /\ doubt' = t(f).touched
      \/ doubt = {} /\ \E f \in Faults : Leave(simplefs_init(t(f).disk)) /\ doubt' = t(f).touched
  <2> DEFINE writes == 0 .. simplefs_format(Current(NoFault)).done - 1
             fails == \E kind \in FAULTS \cap {"lost", "late"}, at \in writes :
                        LET u == simplefs_format(Current([kind |-> kind, at |-> at])) IN
                        Leave(u) /\ doubt' = u.touched /\ fault' = kind /\ UNCHANGED calls
             stops == \E kind \in FAULTS \cap {"stop"}, at \in writes :
                        LET u == simplefs_format(Current([kind |-> kind, at |-> at])) IN
                        Leave(simplefs_init(u.disk)) /\ doubt' = u.touched /\ fault' = kind /\ UNCHANGED calls
  <2>1. (Leave(t(NoFault)) /\ doubt' = {} /\ fault' = "none") \/ (doubt = {} /\ (fails \/ stops))
    BY DEF Format, WriteFails, MachineStops, WritesOf
  <2>2. writes \subseteq Nat
    OBVIOUS
  <2> HIDE DEF writes
  <2>3. ASSUME fails PROVE \E f \in Faults : Leave(t(f)) /\ doubt' = t(f).touched
    <3>1. PICK kind \in {"lost", "late"}, at \in writes :
            Leave(t([kind |-> kind, at |-> at])) /\ doubt' = t([kind |-> kind, at |-> at]).touched
      BY <2>3
    <3>2. [kind |-> kind, at |-> at] \in Faults
      BY <1>1, <2>2
    <3> HIDE DEF t
    <3> QED BY <3>1, <3>2
  <2>4. ASSUME stops PROVE \E f \in Faults : Leave(simplefs_init(t(f).disk)) /\ doubt' = t(f).touched
    <3>1. PICK kind \in {"stop"}, at \in writes :
            Leave(simplefs_init(t([kind |-> kind, at |-> at]).disk)) /\ doubt' = t([kind |-> kind, at |-> at]).touched
      BY <2>4
    <3>2. [kind |-> kind, at |-> at] \in Faults
      BY <1>1, <2>2
    <3> HIDE DEF t
    <3> QED BY <3>1, <3>2
  <2> QED BY <2>1, <2>3, <2>4
<1> QED BY <1>2

\* mkfs, with and without a fault.
LEMMA FormatStep ==
  ASSUME FsInv, Format
  PROVE  FsInv' /\ (fs_mounted => fs_mounted')
<1> DEFINE t(f) == simplefs_format(Current(f))
<1>1. PICK V : Now \in FsStates(V)
  BY DEF FsInv, Between
<1>2. fs_mounted => Mountable(disk)
  BY NowFields DEF FsInv, Between
<1>3. ASSUME NEW f \in Faults
      PROVE  /\ Formats(Current(f), t(f)) /\ Current(f).fault = f
             /\ Current(f).fs_mounted = fs_mounted /\ Current(f).disk = disk
  <2>1. Current(f) \in FsStates(V)
    BY <1>1, InjectedState
  <2>2. Formats(Current(f), t(f))
    BY <2>1, FormatWorks
  <2> QED BY <2>2 DEF Current
<1>4. CASE Leave(t(NoFault)) /\ doubt' = {} /\ fault' = "none"
  <2> DEFINE u == t(NoFault)
  <2>1. NoFault \in Faults /\ NoFault.kind = "none"
    BY DEF NoFault, Faults
  <2>2. Ready(u) /\ u.fs_mounted
    BY <1>3, <2>1 DEF Formats
  <2>3. Leave(u)
    BY <1>4
  <2> HIDE DEF u
  <2>4. Between(Resume(u), {}, "none")
    BY <2>2, ReadyBetween
  <2>5. Now' = Resume(u) /\ fs_mounted' = u.fs_mounted
    BY <2>3, NowNext
  <2> QED BY <1>4, <2>2, <2>4, <2>5 DEF FsInv
<1>5. ASSUME NEW f \in Faults, Leave(t(f)), doubt' = t(f).touched
      PROVE  FsInv' /\ (fs_mounted => fs_mounted')
  <2> DEFINE u == t(f)
  <2>1. Formats(Current(f), u) /\ (Current(f).fs_mounted => Mountable(Current(f).disk))
        /\ Current(f).fs_mounted = fs_mounted
    BY <1>2, <1>3
  <2>2. Leave(u) /\ doubt' = u.touched
    BY <1>5
  <2> HIDE DEF u
  <2>3. doubt' = Inodes
    BY <2>1, <2>2 DEF Formats
  <2>4. Between(Resume(u), Inodes, fault') /\ (fs_mounted => Resume(u).fs_mounted)
    BY <2>1, FormatBetween
  <2>5. Now' = Resume(u) /\ fs_mounted' = u.fs_mounted /\ Resume(u).fs_mounted = u.fs_mounted
    BY <2>2, NowNext DEF Resume
  <2> QED BY <2>3, <2>4, <2>5 DEF FsInv
<1>6. ASSUME NEW f \in Faults, Leave(simplefs_init(t(f).disk)), doubt' = t(f).touched
      PROVE  FsInv' /\ (fs_mounted => fs_mounted')
  <2> DEFINE u == t(f)
             r == simplefs_init(u.disk)
  <2>1. Formats(Current(f), u) /\ (Current(f).fs_mounted => Mountable(Current(f).disk))
        /\ Current(f).fs_mounted = fs_mounted
    BY <1>2, <1>3
  <2>2. Leave(r) /\ doubt' = u.touched
    BY <1>6
  <2> HIDE DEF u
  <2>3. doubt' = Inodes
    BY <2>1, <2>2 DEF Formats
  <2>4. PICK W : u \in FsStates(W)
    BY <2>1 DEF Formats, Sound, Good
  <2>5. u.disk \in Disks(W)
    BY <2>4, Fields
  <2>6. Boots(u.disk, r)
    BY <1>1, <2>5, BootsFrom
  <2> HIDE DEF r
  <2>7. Between(Resume(r), Inodes, fault') /\ (fs_mounted => Resume(r).fs_mounted)
    BY <2>1, <2>6, FormatStops
  <2>8. Now' = Resume(r) /\ fs_mounted' = r.fs_mounted /\ Resume(r).fs_mounted = r.fs_mounted
    BY <2>2, NowNext DEF Resume
  <2> QED BY <2>3, <2>7, <2>8 DEF FsInv
<1>8. \/ Leave(t(NoFault)) /\ doubt' = {} /\ fault' = "none"
      \/ \E f \in Faults : Leave(t(f)) /\ doubt' = t(f).touched
      \/ \E f \in Faults : Leave(simplefs_init(t(f).disk)) /\ doubt' = t(f).touched
  BY FormatWays
<1> QED BY <1>4, <1>5, <1>6, <1>8

\* The machine is switched off and on.
LEMMA RebootStep ==
  ASSUME FsInv, Reboot
  PROVE  FsInv' /\ (fs_mounted => fs_mounted')
<1> DEFINE r == simplefs_init(disk)
<1>1. PICK V : Now \in FsStates(V)
  BY DEF FsInv, Between
<1>2. /\ doubt \in SUBSET Inodes /\ Held(DiskView(disk, doubt), Lost(fault))
      /\ doubt = {} => Ready(Now) \/ BlankFs(Now)
      /\ fs_mounted => Mountable(disk)
  BY NowFields DEF FsInv, Between
<1>3. disk \in Disks(V)
  BY <1>1, Fields, NowFields
<1>4. Boots(disk, r)
  BY <1>1, <1>3, BootsFrom
<1>5. Leave(r) /\ doubt' = doubt /\ fault' = fault
  BY DEF Reboot
<1> HIDE DEF r
<1>6. doubt = {} => ~disk.boot \/ \E s : Ready(s) /\ s.disk = disk
  BY <1>2, NowFields DEF BlankFs
<1>7. Between(Resume(r), doubt, fault) /\ (Mountable(disk) => Resume(r).fs_mounted)
  BY <1>2, <1>4, <1>6, BootBetween
<1>8. Now' = Resume(r) /\ fs_mounted' = r.fs_mounted /\ Resume(r).fs_mounted = r.fs_mounted
  BY <1>5, NowNext DEF Resume
<1> QED BY <1>2, <1>5, <1>7, <1>8 DEF FsInv

\* The first state.
LEMMA InitHolds ==
  ASSUME FsInit
  PROVE  FsInv
<1> DEFINE free == [i \in Inodes |-> NewInode("free")]
           V == {<<>>}
<1>1. reset_open_files \in OpenTables /\ SIMPLEFS_ROOT_INODE \in Inodes /\ free \in InodeTables
      /\ \A fd \in Fds : ~reset_open_files[fd].used
  BY NoPointers, FsSizes DEF reset_open_files, OpenTables, InodeTables
<1> HIDE DEF free
<1>2. BlankDisk \in Disks(V) /\ ~BlankDisk.boot /\ BlankDisk.info.inode_bitmap = {}
  <2>1. BlankDisk = [boot |-> FALSE, info |-> [magic |-> FALSE, inode_bitmap |-> {}, data_bitmap |-> {}],
                     inode_table |-> free, blocks |-> [b \in Blocks |-> ZeroBlock]]
    BY DEF BlankDisk, free
  <2>2. [magic |-> FALSE, inode_bitmap |-> {}, data_bitmap |-> {}] \in Infos
    BY DEF Infos
  <2>3. [b \in Blocks |-> ZeroBlock] \in [Blocks -> BlockSet(V)]
    BY DEF BlockSet
  <2> QED BY <1>1, <2>1, <2>2, <2>3 DEF Disks
<1>3. /\ inode_bitmap = {} /\ data_bitmap = {} /\ inode_table = free /\ open_files = reset_open_files
      /\ current_directory = SIMPLEFS_ROOT_INODE /\ fs_mounted = FALSE /\ disk = BlankDisk /\ doubt = {}
  BY DEF FsInit, free
<1>4. NoFault \in Faults /\ NoTable \in IndirectTables /\ INVALID \in Pointer /\ <<>> \in V
  BY NoPointers DEF NoFault, Faults, Pointer
<1>5. Now \in FsStates(V)
  <2> HIDE DEF NoFault, NoTable, reset_open_files, SIMPLEFS_ROOT_INODE, BlankDisk
  <2> QED BY <1>1, <1>2, <1>3, <1>4 DEF FsStates, Now, Current
<1>6. BlankFs(Now)
  BY <1>1, <1>2, <1>3, NowFields DEF BlankFs
<1>7. MemoryView(Now, doubt).inode_bitmap = {} /\ DiskView(Now.disk, doubt).inode_bitmap = {}
  BY <1>2, <1>3, NowFields DEF MemoryView, DiskView, View
<1>8. Held(MemoryView(Now, doubt), Lost(fault)) /\ Held(DiskView(Now.disk, doubt), Lost(fault))
  BY <1>7, HeldNone
<1> QED BY <1>3, <1>5, <1>6, <1>8, NowFields DEF FsInv, Between

\* Every step keeps the invariant, and a mounted file system mounted.
LEMMA FsStep ==
  ASSUME FsInv, FsNext
  PROVE  FsInv' /\ (fs_mounted => fs_mounted')
<1>1. \A data \in DATA : IsSequence(data)
  BY CallsAssumption DEF IsSequence
<1>2. ASSUME NEW name, Touch(name) \/ Remove(name) \/ MakeDir(name) \/ Open(name)
                         \/ RemoveDir(name) \/ ChangeDir(name)
      PROVE  FsInv' /\ (fs_mounted => fs_mounted')
  BY <1>2, TouchStep, RemoveStep, MakeDirStep, OpenStep, RemoveDirStep, ChangeDirStep
<1>3. ASSUME NEW name, NEW data \in DATA, WriteFile(name, data) \/ AppendFile(name, data)
      PROVE  FsInv' /\ (fs_mounted => fs_mounted')
  BY <1>1, <1>3, WriteFileStep, AppendFileStep
<1>4. ASSUME NEW fd \in Fds, \/ Close(fd) \/ ReadFd(fd)
                             \/ \E data \in DATA : WriteFd(fd, data)
                             \/ \E offset \in OFFSETS : Seek(fd, offset)
      PROVE  FsInv' /\ (fs_mounted => fs_mounted')
  <2>1. ASSUME NEW data \in DATA, WriteFd(fd, data) PROVE FsInv' /\ (fs_mounted => fs_mounted')
    BY <1>1, <2>1, WriteFdStep
  <2>2. ASSUME NEW offset \in OFFSETS, Seek(fd, offset) PROVE FsInv' /\ (fs_mounted => fs_mounted')
    <3>1. offset \in Nat
      BY CallsAssumption
    <3> QED BY <2>2, <3>1, SeekStep
  <2> QED BY <1>4, <2>1, <2>2, CloseStep, ReadFdStep
<1> QED BY <1>2, <1>3, <1>4, FormatStep, RebootStep DEF FsNext

\* A step that changes nothing.
LEMMA FsStutters ==
  ASSUME FsInv, UNCHANGED fs_vars
  PROVE  FsInv' /\ (fs_mounted => fs_mounted')
BY DEF FsInv, Now, Current, fs_vars, memory

\* The tables are sound, in memory and on the disk, between any two calls and
\* after any fault: the inductive invariant of simplefs.c.
THEOREM FsInvariant == FsSpec => []FsInv
<1>1. FsInit => FsInv
  BY InitHolds
<1>2. FsInv /\ [FsNext]_fs_vars => FsInv'
  BY FsStep, FsStutters
<1> QED BY <1>1, <1>2, PTL DEF FsSpec

-----------------------------------------------------------------------------
(* What follows from it.                                                   *)

\* A pointer that BlocksOwned looks at is one of the numbered pointers.
LEMMA AttachedKeys ==
  ASSUME NEW i, NEW tab, read_indirect_block(Now, inode_table[i]) = tab, NEW p \in Attached(i)
  PROVE  \E k \in Keys : p = <<k, PointerOf(inode_table[i], tab, k)>> /\ p[2] # INVALID
<1> DEFINE r == inode_table[i]
           B == SIMPLEFS_DIRECT_BLOCKS
           N == SIMPLEFS_INDIRECT_ENTRIES
<1>1. B \in Nat /\ N \in Nat /\ Keys = 0 .. B + N
  BY FsSizes DEF Keys
<1>2. p[2] # INVALID
  BY DEF Attached
<1>3. \/ \E k \in 1 .. B : p = <<k, r.direct_blocks[k]>>
      \/ \E k \in 1 .. N : p = <<B + k, tab[k]>>
      \/ p = <<0, r.indirect_block>>
  BY DEF Attached, Pointers
<1>4. ASSUME NEW k \in 1 .. B, p = <<k, r.direct_blocks[k]>> PROVE \E l \in Keys : p = <<l, PointerOf(r, tab, l)>>
  <2>1. k \in Keys /\ k # 0 /\ k <= B
    BY <1>1
  <2>2. PointerOf(r, tab, k) = r.direct_blocks[k]
    BY <2>1 DEF PointerOf
  <2> QED BY <1>4, <2>1, <2>2
<1>5. ASSUME NEW k \in 1 .. N, p = <<B + k, tab[k]>> PROVE \E l \in Keys : p = <<l, PointerOf(r, tab, l)>>
  <2> DEFINE l == B + k
  <2>1. l \in Keys /\ l # 0 /\ ~(l <= B) /\ l - B = k
    BY <1>1
  <2> HIDE DEF l
  <2>2. PointerOf(r, tab, l) = tab[k]
    BY <2>1 DEF PointerOf
  <2>3. p = <<l, tab[k]>>
    BY <1>5 DEF l
  <2> QED BY <2>1, <2>2, <2>3
<1>6. ASSUME p = <<0, r.indirect_block>> PROVE \E l \in Keys : p = <<l, PointerOf(r, tab, l)>>
  <2>1. 0 \in Keys /\ PointerOf(r, tab, 0) = r.indirect_block
    BY <1>1 DEF PointerOf
  <2> QED BY <1>6, <2>1
<1>7. \E l \in Keys : p = <<l, PointerOf(r, tab, l)>>
  BY <1>3, <1>4, <1>5, <1>6
<1> QED BY <1>2, <1>7

\* Every block of a file is marked and belongs to one file in one place.
LEMMA BlocksHeld ==
  ASSUME FsInv
  PROVE  BlocksOwned
<1> DEFINE v == MemoryView(Now, doubt)
           used == inode_bitmap \ doubt
<1>1. Held(v, Lost(fault))
  BY DEF FsInv, Between
<1>2. v.inode_bitmap = used /\ v.data_bitmap = data_bitmap /\ v.inode_table = inode_table /\ v.disk = disk
  BY NowFields DEF MemoryView, View
<1> HIDE DEF v
<1>3. PICK T \in TableChoices : Owns(v, T, Lost(fault)) /\ Backed(v, T, v.inode_bitmap)
  BY <1>1 DEF Held
<1>4. ASSUME NEW i \in used PROVE read_indirect_block(Now, inode_table[i]) = T[i]
  <2>1. Backed(v, T, {i})
    BY <1>2, <1>3 DEF Backed
  <2>2. read_indirect_block(v, v.inode_table[i]) = T[i]
    BY <2>1, BackedTable
  <2> QED BY <1>2, <2>2, NowFields DEF read_indirect_block
<1>5. ASSUME NEW i \in used, NEW p \in Attached(i)
      PROVE  \E k \in Keys : p = <<k, Ptr(v, T, i, k)>> /\ Ptr(v, T, i, k) # INVALID
  <2>1. PICK k \in Keys : p = <<k, PointerOf(inode_table[i], T[i], k)>> /\ p[2] # INVALID
    BY <1>4, AttachedKeys
  <2>2. Ptr(v, T, i, k) = PointerOf(inode_table[i], T[i], k)
    BY <1>2 DEF Ptr
  <2> QED BY <2>1, <2>2
<1>6. ASSUME NEW i \in used, NEW p \in Attached(i)
      PROVE  p[2] \in data_bitmap \/ (fault = "lost" /\ p[2] = 0)
  <2>1. PICK k \in Keys : p = <<k, Ptr(v, T, i, k)>> /\ Ptr(v, T, i, k) # INVALID
    BY <1>5
  <2>2. Ptr(v, T, i, k) \in data_bitmap \cup Lost(fault)
    BY <1>2, <1>3, <2>1 DEF Owns
  <2> QED BY <2>1, <2>2 DEF Lost
<1>7. ASSUME NEW i \in used, NEW j \in used, NEW p \in Attached(i), NEW q \in Attached(j), p[2] = q[2]
      PROVE  <<i, p>> = <<j, q>>
  <2>1. PICK k \in Keys : p = <<k, Ptr(v, T, i, k)>> /\ Ptr(v, T, i, k) # INVALID
    BY <1>5
  <2>2. PICK l \in Keys : q = <<l, Ptr(v, T, j, l)>> /\ Ptr(v, T, j, l) # INVALID
    BY <1>5
  <2>3. Ptr(v, T, i, k) = Ptr(v, T, j, l)
    BY <1>7, <2>1, <2>2
  <2>4. i = j /\ k = l
    BY <1>2, <1>3, <2>1, <2>3 DEF Owns
  <2> QED BY <2>1, <2>2, <2>4
<1> QED BY <1>6, <1>7 DEF BlocksOwned

\* simplefs.c: the first-fit allocation never hands out a block that is in use;
\* every block of a file is marked and has one owner, after every call, failed
\* write and stop of the machine, for the files the call was not working on.
THEOREM BlocksAlwaysOwned == FsSpec => []BlocksOwned
BY FsInvariant, BlocksHeld, PTL

\* write_metadata: what is on the disk after a call is what is in memory.
THEOREM AlwaysSynced == FsSpec => []Synced
<1>1. FsInv => Synced
  <2> SUFFICES ASSUME FsInv, fs_mounted, doubt = {}
               PROVE  /\ disk.info.inode_bitmap = inode_bitmap /\ disk.info.data_bitmap = data_bitmap
                      /\ disk.inode_table = inode_table
    BY DEF Synced
  <2>1. Ready(Now)
    BY NowFields DEF FsInv, Between, BlankFs
  <2>2. disk.info = InfoOf(Now) /\ disk.inode_table = Now.inode_table
    BY <2>1, NowFields DEF Ready, Synchronous
  <2> QED BY <2>2, NowFields DEF InfoOf
<1> QED BY <1>1, FsInvariant, PTL

\* simplefs_delete and allocate_inode: a descriptor in use refers to a regular
\* file that exists.
THEOREM DescriptorsAlive == FsSpec => []OpenFilesAlive
<1>1. FsInv => OpenFilesAlive
  <2> SUFFICES ASSUME FsInv, doubt = {}, NEW fd \in Fds, open_files[fd].used
               PROVE  IsRegular(Now, open_files[fd].inode_index)
    BY DEF OpenFilesAlive
  <2>1. AliveIn(Now)
    BY NowFields DEF FsInv, Between, BlankFs, Ready
  <2> QED BY <2>1, NowFields DEF AliveIn
<1> QED BY <1>1, FsInvariant, PTL

\* Every variable keeps its type, whatever the calls and their faults: no inode
\* is larger than its blocks can hold, no pointer leaves the data region.
THEOREM FsTyped == FsSpec => []FsTypeOK
<1>1. FsInv => FsTypeOK
  <2> SUFFICES ASSUME FsInv PROVE FsTypeOK
    OBVIOUS
  <2>1. PICK V : Now \in FsStates(V)
    BY DEF FsInv, Between
  <2>2. /\ inode_bitmap \subseteq Inodes /\ data_bitmap \subseteq Blocks /\ inode_table \in InodeTables
        /\ open_files \in OpenTables /\ current_directory \in Inodes /\ fs_mounted \in BOOLEAN
    BY <2>1, Fields, NowFields
  <2>3. doubt \subseteq Inodes
    BY DEF FsInv, Between
  <2>4. ASSUME NEW i \in Inodes
        PROVE  /\ inode_table[i].type \in {"free", "regular", "directory"}
               /\ inode_table[i].size \in 0 .. LargestOf(inode_table[i])
               /\ inode_table[i].direct_blocks \in DirectTables
               /\ inode_table[i].indirect_block \in Pointer
    <3>1. inode_table[i] \in InodeSet
      BY <2>2 DEF InodeTables
    <3>2. LargestOf(inode_table[i]) \in Nat
      BY NoPointers DEF LargestOf
    <3> QED BY <3>1, <3>2, InodeFields
  <2> QED BY <2>2, <2>3, <2>4 DEF FsTypeOK, DirectTables, Pointer, OpenTables
<1> QED BY <1>1, FsInvariant, PTL

\* simplefs_init: once there is a file system the machine mounts it again,
\* wherever it stopped, in the middle of mkfs too.
THEOREM AlwaysMountable == FsSpec => StaysMountable
<1>1. FsInv /\ [FsNext]_fs_vars => (fs_mounted => fs_mounted') \/ UNCHANGED fs_vars
  BY FsStep
<1>2. FsInv /\ [FsNext]_fs_vars => [fs_mounted => fs_mounted']_fs_vars
  BY <1>1
<1> QED BY <1>2, FsInvariant, PTL DEF FsSpec, StaysMountable
=============================================================================
