-------------------------- MODULE FileStoreProofs --------------------------
(***************************************************************************)
(* What the files of SimpleFs contain, and that its calls implement the    *)
(* abstract store of FileStore, for every geometry of the disk and with    *)
(* every failed write, stop and restart.  StoreInv is inductive.           *)
(***************************************************************************)
EXTENDS SimpleFsProofs

(* What a file holds.                                                      *)

\* get_file_block finds the numbered pointers.
LEMMA FindsBlock ==
  ASSUME NEW s, NEW r \in InodeSet, NEW tab, read_indirect_block(s, r) = tab, NEW m \in Nat
  PROVE  get_file_block(s, r, m) = IF m + 1 \in Keys THEN PointerOf(r, tab, m + 1) ELSE INVALID
<1>1. SIMPLEFS_DIRECT_BLOCKS \in Nat /\ SIMPLEFS_INDIRECT_ENTRIES \in Nat
  BY FsSizes
<1>2. CASE m < SIMPLEFS_DIRECT_BLOCKS
  <2>1. m + 1 \in Keys /\ m + 1 # 0 /\ m + 1 <= SIMPLEFS_DIRECT_BLOCKS
    BY <1>1, <1>2 DEF Keys
  <2> QED
    BY <1>2, <2>1 DEF get_file_block, PointerOf
<1>3. CASE ~(m < SIMPLEFS_DIRECT_BLOCKS)
  <2>1. m - SIMPLEFS_DIRECT_BLOCKS >= SIMPLEFS_INDIRECT_ENTRIES <=> m + 1 \notin Keys
    BY <1>1, <1>3 DEF Keys
  <2>2. m + 1 # 0 /\ ~(m + 1 <= SIMPLEFS_DIRECT_BLOCKS) /\ m - SIMPLEFS_DIRECT_BLOCKS + 1 = (m + 1) - SIMPLEFS_DIRECT_BLOCKS
    BY <1>1, <1>3
  <2>3. CASE m + 1 \in Keys
    BY <1>3, <2>1, <2>2, <2>3 DEF get_file_block, PointerOf
  <2>4. CASE m + 1 \notin Keys
    BY <1>3, <2>1, <2>4 DEF get_file_block
  <2> QED
    BY <2>3, <2>4
<1> QED
  BY <1>2, <1>3

(***************************************************************************)
(* What read_inode_bytes finds in the whole of an inode r with the table   *)
(* tab: the cell at p is in the block Pointed(r, tab, p), and the first    *)
(* missing block ends the file.                                            *)
(***************************************************************************)
Pointed(r, tab, p) ==
  IF (p \div SectorOf(r)) + 1 \in Keys THEN PointerOf(r, tab, (p \div SectorOf(r)) + 1) ELSE INVALID
Gaps(r, tab) == {p \in 0 .. r.size - 1 : Pointed(r, tab, p) = INVALID}
Copied(r, tab) == IF Gaps(r, tab) = {} THEN r.size ELSE Min(Gaps(r, tab))
Cells(r, tab, blocks) ==
  [p \in 1 .. Copied(r, tab) |-> CellIn(blocks[Pointed(r, tab, p - 1)], ((p - 1) % SectorOf(r)) + 1)]
Content(s, i) == read_inode_bytes(s, i, 0, LargestOf(s.inode_table[i]))

\* The cells of an inode come out of sectors that have cells.
LEMMA SectorSize ==
  ASSUME NEW r
  PROVE  SectorOf(r) \in Nat \ {0} /\ LargestOf(r) \in Nat
BY FsSizes, NoPointers DEF SectorOf, LargestOf

\* Up to the first gap every cell has a block.
LEMMA CopiedFound ==
  ASSUME NEW r \in InodeSet, NEW tab
  PROVE  /\ Copied(r, tab) \in Nat /\ Copied(r, tab) <= r.size
         /\ \A p \in 0 .. Copied(r, tab) - 1 : p \in 0 .. r.size - 1 /\ Pointed(r, tab, p) # INVALID
<1> DEFINE P(p) == Pointed(r, tab, p)
           G == Gaps(r, tab)
<1>1. r.size \in Nat
  BY InodeFields
<1>2. G = {p \in 0 .. r.size - 1 : P(p) = INVALID}
  BY DEF Gaps
<1> HIDE DEF P, G
<1>3. CASE G = {}
  <2>1. Copied(r, tab) = r.size
    BY <1>3 DEF Copied, G
  <2>2. \A p \in 0 .. r.size - 1 : P(p) # INVALID
    BY <1>2, <1>3
  <2> QED
    BY <1>1, <2>1, <2>2 DEF P
<1>4. CASE G # {}
  <2>1. G \in SUBSET Nat
    BY <1>1, <1>2
  <2>2. Copied(r, tab) = Min(G)
    BY <1>4 DEF Copied, G
  <2>3. Min(G) \in G /\ \A x \in G : Min(G) <= x
    BY <1>4, <2>1, FirstFit
  <2>4. Min(G) \in 0 .. r.size - 1
    BY <1>2, <2>3
  <2>5. ASSUME NEW p \in 0 .. Min(G) - 1 PROVE p \in 0 .. r.size - 1 /\ P(p) # INVALID
    <3>1. p \in 0 .. r.size - 1 /\ ~(Min(G) <= p)
      BY <1>1, <2>4
    <3>2. p \notin G
      BY <2>3, <3>1
    <3> QED BY <1>2, <3>1, <3>2
  <2> QED
    BY <1>1, <2>2, <2>4, <2>5 DEF P
<1> QED
  BY <1>3, <1>4

\* read_inode_bytes on the whole of an inode.
LEMMA ContentForm ==
  ASSUME NEW s, NEW i, NEW r \in InodeSet, s.inode_table[i] = r, NEW tab, read_indirect_block(s, r) = tab
  PROVE  Content(s, i) = Cells(r, tab, s.disk.blocks)
<1> DEFINE z == SectorOf(r)
           wanted == IF 0 >= r.size THEN 0 ELSE Lesser(r.size - 0, LargestOf(r))
           block(p) == get_file_block(s, r, (0 + p) \div z)
           missing == {p \in 0 .. wanted - 1 : block(p) = INVALID}
           copied == IF missing = {} THEN wanted ELSE Min(missing)
<1>1. Content(s, i) = [p \in 1 .. copied |-> CellIn(s.disk.blocks[block(p - 1)], ((0 + p - 1) % z) + 1)]
  BY DEF Content, read_inode_bytes
<1>2. r.size \in Nat /\ r.size <= LargestOf(r) /\ LargestOf(r) \in Nat /\ z \in Nat \ {0}
  BY InodeFields, SectorSize
<1>3. wanted = r.size
  BY <1>2 DEF Lesser
<1>4. ASSUME NEW p \in Nat PROVE block(p) = Pointed(r, tab, p)
  <2>1. p \div z \in Nat
    BY <1>2, Division
  <2>2. 0 + p = p
    OBVIOUS
  <2> HIDE DEF z
  <2>3. block(p) = IF (p \div z) + 1 \in Keys THEN PointerOf(r, tab, (p \div z) + 1) ELSE INVALID
    BY <2>1, <2>2, FindsBlock
  <2> QED
    BY <2>3 DEF Pointed, z
<1> HIDE DEF block, wanted
<1>5. missing = Gaps(r, tab)
  <2>1. \A p \in 0 .. r.size - 1 : block(p) = Pointed(r, tab, p)
    BY <1>2, <1>4
  <2> QED BY <1>3, <2>1 DEF Gaps
<1> HIDE DEF missing
<1>6. copied = Copied(r, tab)
  BY <1>3, <1>5 DEF Copied
<1> HIDE DEF copied
<1>7. \A p \in 1 .. Copied(r, tab) : block(p - 1) = Pointed(r, tab, p - 1) /\ 0 + p - 1 = p - 1
  BY <1>4, CopiedFound
<1> QED
  BY <1>1, <1>6, <1>7 DEF Cells

\* Blocks an inode does not point to are not its contents.
LEMMA CellsKept ==
  ASSUME NEW r \in InodeSet, NEW tab, NEW A, NEW B,
         \A k \in Keys : PointerOf(r, tab, k) # INVALID => B[PointerOf(r, tab, k)] = A[PointerOf(r, tab, k)]
  PROVE  Cells(r, tab, B) = Cells(r, tab, A)
<1>1. ASSUME NEW p \in 1 .. Copied(r, tab) PROVE B[Pointed(r, tab, p - 1)] = A[Pointed(r, tab, p - 1)]
  <2>1. Pointed(r, tab, p - 1) # INVALID
    BY CopiedFound
  <2> QED
    BY <2>1 DEF Pointed
<1> QED
  BY <1>1 DEF Cells

\* An inode without blocks is empty.
LEMMA CellsEmpty ==
  ASSUME NEW r \in InodeSet, r.size = 0, NEW tab, NEW A
  PROVE  Cells(r, tab, A) = <<>>
<1>1. Copied(r, tab) = 0
  BY CopiedFound
<1>2. 1 .. 0 = {}
  OBVIOUS
<1>3. Cells(r, tab, A) = [p \in 1 .. 0 |-> CellIn(A[Pointed(r, tab, p - 1)], ((p - 1) % SectorOf(r)) + 1)]
  BY <1>1 DEF Cells
<1> DEFINE c(p) == CellIn(A[Pointed(r, tab, p - 1)], ((p - 1) % SectorOf(r)) + 1)
<1>4. Cells(r, tab, A) = [p \in 1 .. 0 |-> c(p)]
  BY <1>3
<1> HIDE DEF c
<1>5. Cells(r, tab, A) \in [1 .. 0 -> {}]
  BY <1>2, <1>4
<1>6. Cells(r, tab, A) \in Seq({}) /\ Len(Cells(r, tab, A)) = 0
  BY <1>5, FunctionIsSeq
<1> QED
  BY <1>6, EmptySeq

\* Where the cell p of the data is: in a sector that was written.
LEMMA CellSector ==
  ASSUME NEW n \in Nat, NEW z \in Nat \ {0}, NEW p \in 0 .. n - 1
  PROVE  /\ p \div z \in 0 .. ((n + z - 1) \div z) - 1 /\ p % z \in 0 .. z - 1
         /\ (p \div z) * z + ((p % z) + 1) = p + 1
<1>0. p \in Nat /\ n + z - 1 \in Nat
  OBVIOUS
<1>1. /\ p \div z \in Nat /\ p % z \in 0 .. z - 1 /\ p = z * (p \div z) + (p % z)
  BY <1>0, Division
<1> DEFINE a == n + z - 1
           q == p \div z
           Q == a \div z
<1>2. a \in Nat /\ Q \in Nat /\ a % z \in 0 .. z - 1 /\ a = z * Q + (a % z)
  BY <1>0, Division
<1> HIDE DEF q, Q
<1>3. q < Q
  <2>1. SUFFICES ASSUME ~(q < Q) PROVE FALSE
    OBVIOUS
  <2>2. q \in Nat /\ Q <= q
    <3>1. q \in Nat
      BY <1>1 DEF q
    <3> QED BY <1>2, <2>1, <3>1
  <2>3. z * Q <= z * q
    BY <1>2, <2>2
  <2>4. z * q <= p /\ a <= z * Q + (z - 1) /\ z * q \in Int /\ z * Q \in Int
    BY <1>0, <1>1, <1>2, <2>2 DEF q
  <2> QED
    BY <2>3, <2>4, <1>0
<1>4. q \in Nat /\ q * z = z * q
  BY <1>1 DEF q
<1> QED
  BY <1>1, <1>2, <1>3, <1>4 DEF q, Q

\* read_inode_bytes reads what write_blocks has written.
LEMMA CellsWritten ==
  ASSUME NEW r \in InodeSet, NEW tab, NEW A, NEW data, IsSequence(data), r.size = Len(data),
         NEW z, z = SectorOf(r),
         \A m \in 0 .. Required(data, z) - 1 :
           /\ m + 1 \in Keys /\ PointerOf(r, tab, m + 1) # INVALID
           /\ A[PointerOf(r, tab, m + 1)] = CellsBlock(CellsOf(data, z, m))
  PROVE  Cells(r, tab, A) = data
<1>1. z \in Nat \ {0} /\ Len(data) \in Nat
  BY SectorSize, SequenceLength
<1>2. ASSUME NEW p \in 0 .. Len(data) - 1
      PROVE  /\ Pointed(r, tab, p) # INVALID
             /\ CellIn(A[Pointed(r, tab, p)], (p % z) + 1) = data[p + 1]
  <2> DEFINE m == p \div z
             k == (p % z) + 1
  <2>1. m \in 0 .. Required(data, z) - 1 /\ k \in 1 .. z /\ m * z + k = p + 1
    <3>1. /\ p \div z \in 0 .. ((Len(data) + z - 1) \div z) - 1 /\ p % z \in 0 .. z - 1
          /\ (p \div z) * z + ((p % z) + 1) = p + 1
      BY <1>1, CellSector
    <3>2. \A x \in 0 .. z - 1 : x + 1 \in 1 .. z
      BY <1>1
    <3> QED BY <3>1, <3>2 DEF Required
  <2> HIDE DEF m, k
  <2>2. /\ m + 1 \in Keys /\ PointerOf(r, tab, m + 1) # INVALID
        /\ A[PointerOf(r, tab, m + 1)] = CellsBlock(CellsOf(data, z, m))
    BY <2>1
  <2>3. Pointed(r, tab, p) = PointerOf(r, tab, m + 1)
    BY <2>2 DEF Pointed, m
  <2>4. CellIn(A[PointerOf(r, tab, m + 1)], k) = CellsOf(data, z, m)[k]
    BY <2>2 DEF CellIn, CellsBlock
  <2>5. CellsOf(data, z, m)[k] = IF m * z + k <= Len(data) THEN data[m * z + k] ELSE ZERO
    BY <2>1 DEF CellsOf
  <2>6. p + 1 <= Len(data)
    BY <1>1
  <2>7. CellsOf(data, z, m)[k] = data[p + 1]
    BY <2>1, <2>5, <2>6
  <2> QED
    BY <2>2, <2>3, <2>4, <2>7 DEF k
<1>3. Gaps(r, tab) = {}
  BY <1>2 DEF Gaps
<1>4. Copied(r, tab) = Len(data)
  BY <1>3 DEF Copied
<1>5. ASSUME NEW p \in 1 .. Len(data) PROVE CellIn(A[Pointed(r, tab, p - 1)], ((p - 1) % z) + 1) = data[p]
  <2>1. p - 1 \in 0 .. Len(data) - 1 /\ (p - 1) + 1 = p
    BY <1>1
  <2> QED
    BY <1>2, <2>1
<1>6. Cells(r, tab, A) = [p \in 1 .. Len(data) |-> data[p]]
  BY <1>4, <1>5 DEF Cells
<1>7. PICK S : data \in Seq(S)
  BY DEF IsSequence
<1>8. data = [p \in 1 .. Len(data) |-> data[p]]
  BY <1>7, LenProperties
<1> QED
  BY <1>6, <1>8

(* The files of a state.                                                   *)

\* A file in use, and no file.
FreeFile == [type |-> "free", data |-> <<>>]
FileWith(type, data) == [type |-> type, data |-> data]

\* From s to t the inodes other than those of J are what they were, and so are
\* their blocks; T are the tables of the indirect blocks.
Spares(s, t, T, J) ==
  \A j \in Inodes \ J :
    /\ t.inode_table[j] = s.inode_table[j] /\ (j \in t.inode_bitmap <=> j \in s.inode_bitmap)
    /\ j \in s.inode_bitmap => \A k \in Keys :
         Ptr(s, T, j, k) # INVALID => t.disk.blocks[Ptr(s, T, j, k)] = s.disk.blocks[Ptr(s, T, j, k)]

\* The files other than those of J are what they were.
KeptFiles(s, t, J) == \A j \in Inodes \ J : FileOf(t, j) = FileOf(s, j)

\* An inode in use is a file.
LEMMA FileUsed ==
  ASSUME NEW s, NEW i
  PROVE  /\ i \in s.inode_bitmap => FileOf(s, i) = FileWith(s.inode_table[i].type, Content(s, i))
         /\ i \notin s.inode_bitmap => FileOf(s, i) = FreeFile
BY DEF FileOf, FileWith, FreeFile, Content

\* Inodes whose blocks are left alone keep their contents.
LEMMA SparesFiles ==
  ASSUME NEW s, NEW t, NEW T, s.inode_table \in InodeTables, s.inode_bitmap \subseteq Inodes,
         Backed(s, T, s.inode_bitmap), NEW J, Spares(s, t, T, J)
  PROVE  KeptFiles(s, t, J)
<1>1. SUFFICES ASSUME NEW j \in Inodes \ J PROVE FileOf(t, j) = FileOf(s, j)
  BY DEF KeptFiles
<1>2. CASE j \notin s.inode_bitmap
  <2>1. j \notin t.inode_bitmap
    BY <1>2 DEF Spares
  <2> QED BY <1>2, <2>1, FileUsed
<1>3. CASE j \in s.inode_bitmap
  <2> DEFINE r == s.inode_table[j]
             P(k) == PointerOf(r, T[j], k)
  <2>1. r \in InodeSet /\ t.inode_table[j] = r /\ j \in t.inode_bitmap
    BY <1>3 DEF Spares, InodeTables
  <2>2. \A k \in Keys : P(k) # INVALID => t.disk.blocks[P(k)] = s.disk.blocks[P(k)]
    BY <1>3 DEF Spares, Ptr
  <2>3. read_indirect_block(s, r) = T[j]
    <3>1. Backed(s, T, {j})
      BY <1>3 DEF Backed
    <3> QED BY <3>1, BackedTable
  <2>4. read_indirect_block(t, r) = T[j]
    <3>1. 0 \in Keys /\ P(0) = r.indirect_block
      BY FsSizes DEF Keys, PointerOf
    <3>2. CASE r.indirect_block = INVALID
      BY <2>3, <3>2 DEF read_indirect_block
    <3>3. CASE r.indirect_block # INVALID
      <4>1. t.disk.blocks[r.indirect_block] = s.disk.blocks[r.indirect_block]
        BY <2>2, <3>1, <3>3
      <4> QED BY <2>3, <3>3, <4>1 DEF read_indirect_block
    <3> QED BY <3>2, <3>3
  <2> HIDE DEF r
  <2>5. Content(s, j) = Cells(r, T[j], s.disk.blocks)
    BY <2>1, <2>3, ContentForm DEF r
  <2>6. Content(t, j) = Cells(r, T[j], t.disk.blocks)
    BY <2>1, <2>4, ContentForm
  <2>7. Cells(r, T[j], t.disk.blocks) = Cells(r, T[j], s.disk.blocks)
    BY <2>1, <2>2, CellsKept
  <2>8. Content(t, j) = Content(s, j) /\ t.inode_table[j].type = s.inode_table[j].type
    BY <2>1, <2>5, <2>6, <2>7 DEF r
  <2> QED
    BY <1>3, <2>1, <2>8, FileUsed
<1> QED
  BY <1>2, <1>3

\* The contents of a file are a matter of the tables and the blocks.
LEMMA SameFiles ==
  ASSUME NEW s, NEW t, t.inode_bitmap = s.inode_bitmap, t.inode_table = s.inode_table, t.disk.blocks = s.disk.blocks
  PROVE  \A j : FileOf(t, j) = FileOf(s, j)
<1>1. ASSUME NEW j PROVE Content(t, j) = Content(s, j)
  BY DEF Content, read_inode_bytes, get_file_block, read_indirect_block
<1> QED
  BY <1>1, FileUsed

\* A file without blocks.
LEMMA EmptyFile ==
  ASSUME NEW s, NEW i \in s.inode_bitmap, NEW type \in {"free", "regular", "directory"}, s.inode_table[i] = NewInode(type)
  PROVE  FileOf(s, i) = FileWith(type, <<>>)
<1> DEFINE tab == read_indirect_block(s, NewInode(type))
<1>1. NewInode(type) \in InodeSet /\ NewInode(type).size = 0 /\ NewInode(type).type = type
  BY NoPointers DEF NewInode
<1>2. Content(s, i) = Cells(NewInode(type), tab, s.disk.blocks)
  BY <1>1, ContentForm
<1>3. Content(s, i) = <<>>
  BY <1>1, <1>2, CellsEmpty
<1> QED
  BY <1>1, <1>3, FileUsed

\* The file is on the disk, with its table, and only its size is missing.
Assembled(w, i, data) ==
  LET r == w.inode_table[i] IN
  /\ read_indirect_block(w, r) = w.table
  /\ \A m \in 0 .. Required(data, SectorOf(r)) - 1 :
       /\ m + 1 \in Keys /\ PointerOf(r, w.table, m + 1) # INVALID
       /\ w.disk.blocks[PointerOf(r, w.table, m + 1)] = CellsBlock(CellsOf(data, SectorOf(r), m))
\* What write_blocks leaves, in terms of files.
Gathered(s, w, T, i, data) ==
  /\ Spares(s, w, T, {i}) /\ w.touched = s.touched \cup {i} /\ w.fault = s.fault
  /\ w.inode_table[i].type = s.inode_table[i].type /\ w.inode_bitmap = s.inode_bitmap
  /\ w.ok => Assembled(w, i, data)

\* write_blocks touches no other file, and assembles this one when it succeeds.
LEMMA Gathers ==
  ASSUME NEW V0, NEW s, NEW T, Good(V0, s, T, {}), NEW i \in s.inode_bitmap, NEW data, IsSequence(data),
         ~(Len(data) > LargestOf(s.inode_table[i]))
  PROVE  LET w == write_blocks(Prepared(s, i), i, data) IN
         \E V : /\ s \in FsStates(V) /\ w \in FsStates(V) /\ Gathered(s, w, T, i, data)
                /\ \A b \in BlocksOf(w, w.inode_table[i]) : b \in Exc(w) \/ \E k \in Keys : Ptr(w, With(w, T, i), i, k) = b
                /\ Owns(w, With(w, T, i), {}) /\ With(w, T, i) \in TableChoices
<1> DEFINE z == SectorOf(s.inode_table[i])
           N == Required(data, z)
           C == [m \in 0 .. N - 1 |-> CellsOf(data, z, m)]
           V == V0 \cup {C[m] : m \in 0 .. N - 1}
           b == Prepared(s, i)
           w == write_blocks(b, i, data)
<1>1. s \in FsStates(V0) /\ T \in TableChoices /\ i \in Inodes /\ s.inode_table[i] \in InodeSet
      /\ s.inode_bitmap \subseteq Inodes
  <2>1. s \in FsStates(V0) /\ T \in TableChoices
    BY DEF Good
  <2>2. i \in Inodes /\ s.inode_table \in InodeTables /\ s.inode_bitmap \subseteq Inodes
    BY <2>1, Fields
  <2> QED BY <2>1, <2>2 DEF InodeTables
<1>2. Len(data) \in Nat /\ Len(data) <= LargestOf(s.inode_table[i])
  BY SequenceLength, SectorSize
<1>3. s \in FsStates(V) /\ Good(V, s, T, {})
  BY <1>1, MoreContents DEF Good
<1>4. \A m \in 0 .. N - 1 : C[m] \in V /\ C[m] = CellsOf(data, z, m)
  OBVIOUS
<1> HIDE DEF C, V
<1>5. Begun(V, s, b, T, i)
  BY <1>3, Prepares
<1> HIDE DEF b
<1>6. /\ b \in FsStates(V) /\ Owns(b, With(b, T, i), {}) /\ b.table = NoTable /\ b.inode_bitmap = s.inode_bitmap
      /\ b.inode_table[i] = NewInode(s.inode_table[i].type) /\ b.touched = s.touched \cup {i} /\ b.fault = s.fault
      /\ b.disk = s.disk /\ \A j \in Inodes \ {i} : b.inode_table[j] = s.inode_table[j]
  BY <1>5 DEF Begun, Working, SameTypes, SameCaller
<1>7. /\ Indirect(b, i) = INVALID /\ LargestOf(b.inode_table[i]) = LargestOf(s.inode_table[i])
      /\ z = SectorOf(b.inode_table[i]) /\ b.inode_table[i].type = s.inode_table[i].type
  BY <1>6 DEF Indirect, NewInode, LargestOf, SectorOf
<1>8. N \in Nat /\ \A m \in 0 .. N - 1 : m + 1 \in Keys
  BY <1>1, <1>2, RequiredFits
<1> HIDE DEF z
<1>9. N = Required(data, z)
  OBVIOUS
<1> HIDE DEF N
<1>10. Wrote(V, b, w, T, i, C, N)
  BY <1>1, <1>2, <1>4, <1>6, <1>7, <1>9, WritesFile
<1> HIDE DEF w
<1>11. w \in FsStates(V) /\ Elsewhere(b, w, T, i) /\ (w.ok => Filled(w, i, C, N)) /\ Owns(w, With(w, T, i), {})
       /\ i \in w.inode_bitmap /\ (Indirect(w, i) = INVALID => w.table = NoTable)
       /\ (w.ok /\ Indirect(w, i) # INVALID => w.disk.blocks[Indirect(w, i)] = TableBlock(w.table))
       /\ (~w.ok => Messy(w, i))
  BY <1>10 DEF Wrote, Building, Indirect
<1>12. /\ w.inode_bitmap = b.inode_bitmap /\ w.touched = b.touched /\ w.fault = b.fault
       /\ w.inode_table[i].type = b.inode_table[i].type
       /\ \A j \in Inodes \ {i} : w.inode_table[j] = b.inode_table[j]
       /\ \A j \in b.inode_bitmap \ {i}, k \in Keys :
            Ptr(b, T, j, k) # INVALID => w.disk.blocks[Ptr(b, T, j, k)] = b.disk.blocks[Ptr(b, T, j, k)]
  BY <1>11 DEF Elsewhere, SameCaller
<1>13. Spares(s, w, T, {i})
  <2>1. SUFFICES ASSUME NEW j \in Inodes \ {i}
                 PROVE  /\ w.inode_table[j] = s.inode_table[j] /\ (j \in w.inode_bitmap <=> j \in s.inode_bitmap)
                        /\ j \in s.inode_bitmap => \A k \in Keys :
                             Ptr(s, T, j, k) # INVALID => w.disk.blocks[Ptr(s, T, j, k)] = s.disk.blocks[Ptr(s, T, j, k)]
    BY DEF Spares
  <2>2. w.inode_table[j] = s.inode_table[j] /\ b.inode_table[j] = s.inode_table[j]
    BY <1>6, <1>12
  <2>3. \A k : Ptr(b, T, j, k) = Ptr(s, T, j, k)
    BY <2>2 DEF Ptr
  <2> QED BY <1>6, <1>12, <2>2, <2>3
<1>14. ASSUME w.ok PROVE Assembled(w, i, data) /\ Backed(w, With(w, T, i), {i})
  <2>1. SectorOf(w.inode_table[i]) = z
    BY <1>7, <1>12 DEF SectorOf
  <2>2. With(w, T, i)[i] = w.table
    BY <1>1 DEF With, TableChoices
  <2>3. Backed(w, With(w, T, i), {i})
    BY <1>11, <1>14, <2>2 DEF Backed, Indirect
  <2>4. read_indirect_block(w, w.inode_table[i]) = w.table
    BY <2>2, <2>3, BackedTable
  <2>5. ASSUME NEW m \in 0 .. N - 1
        PROVE  /\ m + 1 \in Keys /\ PointerOf(w.inode_table[i], w.table, m + 1) # INVALID
               /\ w.disk.blocks[PointerOf(w.inode_table[i], w.table, m + 1)] = CellsBlock(CellsOf(data, z, m))
    BY <1>4, <1>8, <1>11, <1>14 DEF Filled, SectorBlock
  <2> QED BY <1>9, <2>1, <2>3, <2>4, <2>5 DEF Assembled
<1>15. With(w, T, i) \in TableChoices
  BY <1>1, <1>11, OwnPointers
<1>16. \A c \in BlocksOf(w, w.inode_table[i]) : c \in Exc(w) \/ \E k \in Keys : Ptr(w, With(w, T, i), i, k) = c
  <2>1. CASE ~w.ok
    BY <1>1, <1>11, <2>1, FreedWhenMessy
  <2>2. CASE w.ok
    BY <1>1, <1>11, <1>14, <1>15, <2>2, FreedWhenBacked
  <2> QED BY <2>1, <2>2
<1>17. Gathered(s, w, T, i, data)
  BY <1>6, <1>7, <1>12, <1>13, <1>14 DEF Gathered
<1> QED
  BY <1>3, <1>11, <1>15, <1>16, <1>17 DEF w, b

\* The file gets its size.
LEMMA SizedFields ==
  ASSUME NEW V, NEW w \in FsStates(V), NEW i \in Inodes, NEW n \in Nat, n <= LargestOf(w.inode_table[i])
  PROVE  LET x == Sized(w, i, n) IN
         /\ x \in FsStates(V) /\ x.inode_bitmap = w.inode_bitmap /\ x.disk = w.disk /\ x.touched = w.touched /\ x.fault = w.fault
         /\ \A j \in Inodes \ {i} : x.inode_table[j] = w.inode_table[j]
         /\ x.inode_table[i] \in InodeSet /\ x.inode_table[i].size = n
         /\ x.inode_table[i].type = w.inode_table[i].type
         /\ x.inode_table[i].direct_blocks = w.inode_table[i].direct_blocks
         /\ x.inode_table[i].indirect_block = w.inode_table[i].indirect_block
<1> DEFINE r == w.inode_table[i]
           q == [r EXCEPT !.size = n]
           tab == [w.inode_table EXCEPT ![i] = q]
<1>1. w.inode_table \in InodeTables /\ r \in InodeSet
  BY Fields DEF InodeTables
<1>2. r \in [type : {"free", "regular", "directory"}, size : Nat, direct_blocks : DirectTables, indirect_block : Pointer]
  BY <1>1, InodeFields
<1> HIDE DEF r
<1>3. /\ q \in [type : {"free", "regular", "directory"}, size : Nat, direct_blocks : DirectTables, indirect_block : Pointer]
      /\ q.size = n /\ q.type = r.type /\ q.direct_blocks = r.direct_blocks /\ q.indirect_block = r.indirect_block
  BY <1>2
<1>4. LargestOf(q) = LargestOf(r)
  BY <1>3 DEF LargestOf
<1>5. q \in InodeSet
  BY <1>3, <1>4 DEF InodeSet, r
<1>6. Sized(w, i, n) = [w EXCEPT !.inode_table = tab]
  BY DEF Sized, r
<1> HIDE DEF q
<1>7. tab \in InodeTables /\ tab[i] = q /\ \A j \in Inodes \ {i} : tab[j] = w.inode_table[j]
  BY <1>1, <1>5 DEF InodeTables
<1> HIDE DEF tab
<1>8. LET x == Sized(w, i, n) IN
      /\ x \in FsStates(V) /\ x.inode_bitmap = w.inode_bitmap /\ x.disk = w.disk /\ x.touched = w.touched /\ x.fault = w.fault
      /\ x.inode_table = tab
  BY <1>6, <1>7, SetsInodes DEF SameCaller, SameScratch
<1> QED
  BY <1>3, <1>5, <1>7, <1>8 DEF r

\* The size makes the assembled file readable.
LEMMA SizedReads ==
  ASSUME NEW V, NEW w \in FsStates(V), NEW i \in w.inode_bitmap, NEW data, IsSequence(data),
         Len(data) <= LargestOf(w.inode_table[i]), Assembled(w, i, data)
  PROVE  FileOf(Sized(w, i, Len(data)), i) = FileWith(w.inode_table[i].type, data)
<1> DEFINE x == Sized(w, i, Len(data))
           r == x.inode_table[i]
           z == SectorOf(r)
<1>1. Len(data) \in Nat /\ i \in Inodes
  BY Fields, SequenceLength
<1>2. /\ x.inode_bitmap = w.inode_bitmap /\ x.disk = w.disk
      /\ r \in InodeSet /\ r.size = Len(data) /\ r.type = w.inode_table[i].type
      /\ r.direct_blocks = w.inode_table[i].direct_blocks /\ r.indirect_block = w.inode_table[i].indirect_block
  BY <1>1, SizedFields
<1> HIDE DEF x
<1>3. /\ \A k : PointerOf(r, w.table, k) = PointerOf(w.inode_table[i], w.table, k)
      /\ read_indirect_block(x, r) = read_indirect_block(w, w.inode_table[i])
      /\ z = SectorOf(w.inode_table[i])
  BY <1>2 DEF PointerOf, read_indirect_block, SectorOf
<1> HIDE DEF z
<1>4. /\ read_indirect_block(x, r) = w.table
      /\ \A m \in 0 .. Required(data, z) - 1 :
           /\ m + 1 \in Keys /\ PointerOf(r, w.table, m + 1) # INVALID
           /\ x.disk.blocks[PointerOf(r, w.table, m + 1)] = CellsBlock(CellsOf(data, z, m))
  BY <1>2, <1>3 DEF Assembled
<1> HIDE DEF r
<1>5. Content(x, i) = Cells(r, w.table, x.disk.blocks)
  BY <1>2, <1>4, ContentForm DEF r
<1>6. z = SectorOf(r)
  BY DEF z, r
<1>7. Cells(r, w.table, x.disk.blocks) = data
  BY <1>2, <1>4, <1>6, CellsWritten
<1> QED
  BY <1>2, <1>5, <1>7, FileUsed DEF x, r

\* Metadata are no file's contents.
LEMMA MetaFiles ==
  ASSUME NEW s, NEW t, MetaWritten(s, t)
  PROVE  (\A j : FileOf(t, j) = FileOf(s, j)) /\ t.touched = s.touched /\ t.fault = s.fault
<1>1. t.inode_bitmap = s.inode_bitmap /\ t.inode_table = s.inode_table /\ t.disk.blocks = s.disk.blocks
      /\ t.touched = s.touched /\ t.fault = s.fault
  BY DEF MetaWritten, SameMemory, SameTables, SameScratch, SameCaller
<1> QED
  BY <1>1, SameFiles

\* What write_inode_data does to the files: it is about file i only, which holds
\* the data when it succeeds and is empty when the disk is full.
Stored(s, t, i, data) ==
  /\ i \in s.inode_bitmap /\ KeptFiles(s, t, {i}) /\ t.touched = s.touched \cup {i} /\ t.fault = s.fault
  /\ t.ok => FileOf(t, i) = FileWith(s.inode_table[i].type, data)
  /\ ~t.ok /\ s.fault.kind = "none" => FileOf(t, i) = FileWith(s.inode_table[i].type, <<>>)

\* write_inode_data, in terms of files.
LEMMA StoresData ==
  ASSUME NEW s, Sound(s, {}), NEW i, NEW data, IsSequence(data)
  PROVE  LET t == write_inode_data(s, i, data) IN t = Fail(s) \/ Stored(s, t, i, data)
<1> DEFINE t == write_inode_data(s, i, data)
<1>1. PICK V0, T : Good(V0, s, T, {})
  BY DEF Sound
<1>2. CASE i \notin s.inode_bitmap \/ Len(data) > LargestOf(s.inode_table[i])
  BY <1>2 DEF write_inode_data
<1>3. CASE ~(i \notin s.inode_bitmap \/ Len(data) > LargestOf(s.inode_table[i]))
  <2> DEFINE w == write_blocks(Prepared(s, i), i, data)
             x == Sized(w, i, Len(data))
             u == free_inode_blocks(w, i)
             v == write_inode_table(write_info_block(u))
             g == Fail(v)
             W == With(w, T, i)
  <2>1. t = IF (IF w.ok THEN w ELSE g).ok
            THEN write_metadata(Sized(IF w.ok THEN w ELSE g, i, Len(data))) ELSE (IF w.ok THEN w ELSE g)
    BY <1>3 DEF write_inode_data, Then, OnFailure, Prepared, Sized
  <2>2. PICK V : /\ s \in FsStates(V) /\ w \in FsStates(V) /\ Gathered(s, w, T, i, data)
                 /\ \A b \in BlocksOf(w, w.inode_table[i]) : b \in Exc(w) \/ \E k \in Keys : Ptr(w, W, i, k) = b
                 /\ Owns(w, W, {}) /\ W \in TableChoices
    BY <1>1, <1>3, Gathers
  <2> HIDE DEF w, W
  <2>3. s.inode_table \in InodeTables /\ s.inode_bitmap \subseteq Inodes /\ i \in Inodes /\ i \in s.inode_bitmap
        /\ w.inode_table[i] \in InodeSet
    <3>1. s.inode_table \in InodeTables /\ s.inode_bitmap \subseteq Inodes
      BY <2>2, Fields
    <3>2. i \in Inodes /\ i \in s.inode_bitmap
      BY <1>3, <3>1
    <3>3. w.inode_table \in InodeTables
      BY <2>2, Fields
    <3> QED BY <3>1, <3>2, <3>3 DEF InodeTables
  <2>4. /\ Spares(s, w, T, {i}) /\ w.touched = s.touched \cup {i} /\ w.fault = s.fault
        /\ w.inode_table[i].type = s.inode_table[i].type /\ w.inode_bitmap = s.inode_bitmap
        /\ w.ok => Assembled(w, i, data)
    BY <2>2 DEF Gathered
  <2>5. Backed(s, T, s.inode_bitmap)
    BY <1>1 DEF Good
  <2>6. Len(data) \in Nat /\ Len(data) <= LargestOf(w.inode_table[i])
    <3>1. LargestOf(w.inode_table[i]) = LargestOf(s.inode_table[i])
      BY <2>4 DEF LargestOf
    <3> QED BY <1>3, <3>1, SequenceLength, SectorSize
  <2>7. CASE w.ok
    <3>1. t = write_metadata(x)
      BY <2>1, <2>7
    <3>2. /\ x \in FsStates(V) /\ x.inode_bitmap = w.inode_bitmap /\ x.disk = w.disk /\ x.touched = w.touched /\ x.fault = w.fault
          /\ \A j \in Inodes \ {i} : x.inode_table[j] = w.inode_table[j]
      BY <2>2, <2>3, <2>6, SizedFields
    <3>3. FileOf(x, i) = FileWith(w.inode_table[i].type, data)
      BY <2>2, <2>3, <2>4, <2>6, <2>7, SizedReads
    <3> HIDE DEF x, t
    <3>4. Spares(s, x, T, {i})
      BY <2>4, <3>2 DEF Spares
    <3>5. KeptFiles(s, x, {i})
      BY <2>3, <2>5, <3>4, SparesFiles
    <3>6. MetaWritten(x, t) /\ (x.fault.kind = "none" => t.ok)
      BY <3>1, <3>2, WritesMetadata
    <3>7. (\A j : FileOf(t, j) = FileOf(x, j)) /\ t.touched = x.touched /\ t.fault = x.fault
      BY <3>6, MetaFiles
    <3>8. KeptFiles(s, t, {i})
      BY <3>5, <3>7 DEF KeptFiles
    <3> QED
      BY <2>3, <2>4, <3>2, <3>3, <3>6, <3>7, <3>8 DEF Stored, t
  <2>8. CASE ~w.ok
    <3>1. Freed(V, w, u, W, i, Exc(w))
      BY <2>2, <2>3, <2>4, FreesBlocks
    <3> HIDE DEF u
    <3>2. /\ u \in FsStates(V) /\ u.inode_bitmap = w.inode_bitmap /\ u.disk = w.disk
          /\ u.inode_table[i] = NewInode(w.inode_table[i].type)
          /\ \A j \in Inodes \ {i} : u.inode_table[j] = w.inode_table[j]
          /\ u.fault = w.fault /\ u.touched = w.touched
      BY <3>1 DEF Freed, SameCaller, SameScratch
    <3>3. Spares(s, u, T, {i})
      BY <2>4, <3>2 DEF Spares
    <3>4. KeptFiles(s, u, {i})
      BY <2>3, <2>5, <3>3, SparesFiles
    <3>5. w.inode_table[i].type \in {"free", "regular", "directory"}
      BY <2>3, InodeFields
    <3>6. FileOf(u, i) = FileWith(w.inode_table[i].type, <<>>)
      BY <2>3, <2>4, <3>2, <3>5, EmptyFile
    <3>7. MetaWritten(u, v)
      BY <3>2, WritesBoth
    <3> HIDE DEF v
    <3>8. (\A j : FileOf(v, j) = FileOf(u, j)) /\ v.touched = u.touched /\ v.fault = u.fault
      BY <3>7, MetaFiles
    <3>9. v \in FsStates(V)
      BY <3>2, WritesBoth DEF v
    <3>10. SameMemory(v, g) /\ g.disk = v.disk /\ g.ok = FALSE
      BY <3>9, SetsOk DEF Fail
    <3> HIDE DEF g
    <3>11. (\A j : FileOf(g, j) = FileOf(v, j)) /\ g.touched = v.touched /\ g.fault = v.fault
      BY <3>10, SameFiles DEF SameMemory, SameTables, SameScratch, SameCaller
    <3>12. t = g
      BY <2>1, <2>8, <3>10
    <3>13. KeptFiles(s, g, {i})
      BY <3>4, <3>8, <3>11 DEF KeptFiles
    <3>14. Stored(s, g, i, data)
      BY <2>3, <2>4, <3>2, <3>6, <3>8, <3>10, <3>11, <3>13 DEF Stored
    <3> QED BY <3>12, <3>14
  <2> QED
    BY <2>7, <2>8
<1> QED
  BY <1>2, <1>3

\* An inode in use is what Spares is about; the same blocks on the disk.
LEMMA SparesSameDisk ==
  ASSUME NEW s, NEW t, NEW T, NEW i, t.disk = s.disk, \A j \in Inodes \ {i} : t.inode_table[j] = s.inode_table[j],
         t.inode_bitmap \in {s.inode_bitmap, s.inode_bitmap \cup {i}, s.inode_bitmap \ {i}}
  PROVE  Spares(s, t, T, {i})
BY DEF Spares

\* What allocate_inode does to the files: a number that was free becomes an empty
\* file, or stays free when the write fails.
ClaimedFile(s, t, type, f) ==
  /\ f \in Inodes \ s.inode_bitmap /\ KeptFiles(s, t, {f}) /\ t.touched = s.touched \cup {f} /\ t.fault = s.fault
  /\ s.fault.kind = "none" => t.ok
  /\ t.ok => t.inode = f /\ FileOf(t, f) = FileWith(type, <<>>)
  /\ ~t.ok => FileOf(t, f) = FreeFile

\* allocate_inode, in terms of files.
LEMMA ClaimsFile ==
  ASSUME NEW s, Sound(s, {}), NEW type \in {"regular", "directory"}
  PROVE  LET t == allocate_inode(s, type) IN t = Fail(s) \/ \E f : ClaimedFile(s, t, type, f)
<1> DEFINE t == allocate_inode(s, type)
<1>1. PICK V, T : Good(V, s, T, {})
  BY DEF Sound
<1>2. s \in FsStates(V) /\ Backed(s, T, s.inode_bitmap) /\ s.inode_bitmap \subseteq Inodes /\ s.inode_table \in InodeTables
      /\ s.touched \subseteq Inodes
  BY <1>1, Fields DEF Good
<1>3. CASE Inodes \subseteq s.inode_bitmap
  BY <1>3 DEF allocate_inode
<1>4. CASE ~(Inodes \subseteq s.inode_bitmap)
  <2> DEFINE i == Min(Inodes \ s.inode_bitmap)
             a == Claimed(s, i, type)
             m == write_metadata(a)
             x == Unclaimed(m, i)
             p == NewInode(type)
             q == NewInode("free")
             bm == s.inode_bitmap \cup {i}
             tab == [s.inode_table EXCEPT ![i] = p]
             tt == s.touched \cup {i}
             cm == m.inode_bitmap \ {i}
             tac == [m.inode_table EXCEPT ![i] = q]
  <2>1. t = IF m.ok THEN m ELSE x
    BY <1>4 DEF allocate_inode, OnFailure, Claimed, Unclaimed
  <2>2. i \in Inodes \ s.inode_bitmap
    BY <1>4, FirstFit, FsSizes
  <2>3. a = [s EXCEPT !.inode_bitmap = bm, !.inode_table = tab, !.touched = tt, !.inode = i]
    BY DEF Claimed
  <2> HIDE DEF i, p, q
  <2>4. p \in InodeSet /\ q \in InodeSet
    BY NoPointers DEF p, q
  <2>5. bm \subseteq Inodes /\ tt \subseteq Inodes /\ tab \in InodeTables /\ tab[i] = p
        /\ \A j \in Inodes \ {i} : tab[j] = s.inode_table[j]
    BY <1>2, <2>2, <2>4 DEF InodeTables
  <2> HIDE DEF a, bm, tab, tt
  <2>6. /\ a \in FsStates(V) /\ a.inode_bitmap = bm /\ a.inode_table = tab /\ a.fault = s.fault
        /\ a.disk = s.disk /\ a.touched = tt /\ a.inode = i
    BY <1>2, <2>2, <2>3, <2>5 DEF FsStates
  <2>7. KeptFiles(s, a, {i})
    <3>1. Spares(s, a, T, {i})
      BY <2>5, <2>6, SparesSameDisk DEF bm
    <3> QED BY <1>2, <3>1, SparesFiles
  <2>8. FileOf(a, i) = FileWith(type, <<>>)
    <3>1. i \in a.inode_bitmap /\ a.inode_table[i] = NewInode(type)
      BY <2>5, <2>6 DEF bm, p
    <3> QED BY <3>1, EmptyFile
  <2>9. m \in FsStates(V) /\ MetaWritten(a, m) /\ (a.fault.kind = "none" => m.ok)
    BY <2>6, WritesMetadata
  <2> HIDE DEF m
  <2>10. (\A j : FileOf(m, j) = FileOf(a, j)) /\ m.touched = a.touched /\ m.fault = a.fault
    BY <2>9, MetaFiles
  <2>11. m.inode = i /\ m.inode_table = tab /\ m.inode_bitmap = bm
    BY <2>6, <2>9 DEF MetaWritten, SameMemory, SameScratch, SameTables
  <2>12. KeptFiles(s, m, {i})
    BY <2>7, <2>10 DEF KeptFiles
  <2>13. CASE m.ok
    <3>1. ClaimedFile(s, m, type, i)
      BY <2>2, <2>6, <2>8, <2>10, <2>11, <2>12, <2>13 DEF ClaimedFile, tt
    <3> QED BY <2>1, <2>13, <3>1
  <2>14. CASE ~m.ok
    <3>1. x = [m EXCEPT !.inode_bitmap = cm, !.inode_table = tac]
      BY DEF Unclaimed, q
    <3>2. /\ cm \subseteq Inodes /\ tac \in InodeTables /\ \A j \in Inodes \ {i} : tac[j] = m.inode_table[j]
      BY <2>2, <2>4, <2>5, <2>11 DEF InodeTables
    <3> HIDE DEF x, tac, cm
    <3>3. /\ x.inode_bitmap = cm /\ x.inode_table = tac /\ x.fault = m.fault /\ x.disk = m.disk
          /\ x.touched = m.touched /\ x.ok = m.ok
      BY <2>9, <3>1 DEF FsStates
    <3>4. FileOf(x, i) = FreeFile
      BY <3>3, FileUsed DEF cm
    <3>5. ASSUME NEW j \in Inodes \ {i} PROVE FileOf(x, j) = FileOf(m, j)
      <4>1. /\ x.inode_table[j] = m.inode_table[j] /\ (j \in x.inode_bitmap <=> j \in m.inode_bitmap)
            /\ x.disk.blocks = m.disk.blocks
        BY <3>2, <3>3 DEF cm
      <4>2. Content(x, j) = Content(m, j)
        BY <4>1 DEF Content, read_inode_bytes, get_file_block, read_indirect_block
      <4> QED BY <4>1, <4>2, FileUsed
    <3>6. KeptFiles(s, x, {i})
      BY <2>12, <3>5 DEF KeptFiles
    <3>7. ~x.ok /\ ~(s.fault.kind = "none")
      BY <2>6, <2>9, <2>14, <3>3
    <3>8. x.touched = s.touched \cup {i} /\ x.fault = s.fault
      BY <2>6, <2>10, <3>3 DEF tt
    <3>9. ClaimedFile(s, x, type, i)
      BY <2>2, <3>4, <3>6, <3>7, <3>8 DEF ClaimedFile
    <3>10. t = x
      BY <2>1, <2>14
    <3> QED BY <3>9, <3>10
  <2> QED
    BY <2>13, <2>14
<1> QED
  BY <1>3, <1>4

\* What release_inode does to the files: the file is gone, whatever is reported.
ReleasedFile(s, t, i) ==
  /\ KeptFiles(s, t, {i}) /\ t.touched = s.touched \cup {i} /\ t.fault = s.fault
  /\ FileOf(t, i) = FreeFile /\ (s.fault.kind = "none" => t.ok)

\* release_inode, in terms of files.
LEMMA ReleasesFile ==
  ASSUME NEW s, NEW E, Sound(s, E), NEW i \in s.inode_bitmap, i # SIMPLEFS_ROOT_INODE
  PROVE  ReleasedFile(s, release_inode(s, i), i)
<1> DEFINE t == release_inode(s, i)
<1>1. PICK V, T : Good(V, s, T, E)
  BY DEF Sound
<1>2. s \in FsStates(V) /\ T \in TableChoices /\ Backed(s, T, s.inode_bitmap) /\ Owns(s, T, E)
      /\ s.inode_bitmap \subseteq Inodes /\ s.inode_table \in InodeTables
  BY <1>1, Fields DEF Good
<1> DEFINE f == free_inode_blocks(s, i)
           r == Removed(s, i)
           q == NewInode("free")
           cm == f.inode_bitmap \ {i}
           tac == [f.inode_table EXCEPT ![i] = q]
           tt == f.touched \cup {i}
<1>3. i \in Inodes
  BY <1>2
<1>4. t = write_metadata(r)
  BY DEF release_inode, Removed
<1>5. r = [f EXCEPT !.inode_table = tac, !.inode_bitmap = cm, !.touched = tt]
  BY DEF Removed
<1>6. Freed(V, s, f, T, i, E)
  <2>1. Backed(s, T, {i})
    BY <1>2 DEF Backed
  <2>2. \A b \in BlocksOf(s, s.inode_table[i]) : \E k \in Keys : Ptr(s, T, i, k) = b
    BY <1>2, <1>3, <2>1, FreedWhenBacked
  <2> QED BY <1>2, <2>2, FreesBlocks
<1> HIDE DEF f, q
<1>7. /\ f \in FsStates(V) /\ f.inode_bitmap = s.inode_bitmap /\ f.touched = s.touched
      /\ f.disk = s.disk /\ f.fault = s.fault
      /\ \A j \in Inodes \ {i} : f.inode_table[j] = s.inode_table[j]
  BY <1>6 DEF Freed, SameCaller, SameScratch
<1>8. tt \subseteq Inodes /\ cm \subseteq Inodes /\ q \in InodeSet
  BY <1>2, <1>3, <1>7, Fields, NoPointers DEF q
<1>9. tac \in InodeTables /\ \A j \in Inodes \ {i} : tac[j] = f.inode_table[j]
  BY <1>3, <1>7, <1>8, Fields DEF InodeTables
<1> HIDE DEF r, cm, tac, tt
<1>10. /\ r \in FsStates(V) /\ r.inode_bitmap = cm /\ r.inode_table = tac
       /\ r.disk = f.disk /\ r.fault = f.fault /\ r.touched = tt
  BY <1>5, <1>7, <1>8, <1>9 DEF FsStates
<1>11. KeptFiles(s, r, {i})
  <2>1. Spares(s, r, T, {i})
    BY <1>7, <1>9, <1>10, SparesSameDisk DEF cm
  <2> QED BY <1>2, <2>1, SparesFiles
<1>12. FileOf(r, i) = FreeFile
  BY <1>10, FileUsed DEF cm
<1>13. MetaWritten(r, t) /\ (r.fault.kind = "none" => t.ok)
  BY <1>4, <1>10, WritesMetadata
<1> HIDE DEF t
<1>14. (\A j : FileOf(t, j) = FileOf(r, j)) /\ t.touched = r.touched /\ t.fault = r.fault
  BY <1>13, MetaFiles
<1>15. KeptFiles(s, t, {i})
  BY <1>11, <1>14 DEF KeptFiles
<1> QED
  BY <1>7, <1>10, <1>12, <1>13, <1>14, <1>15 DEF ReleasedFile, tt, t

\* write_inode_table leaves the files alone.
LEMMA TableFiles ==
  ASSUME NEW s, NEW E, Sound(s, E)
  PROVE  LET t == write_inode_table(s) IN
         /\ \A j : FileOf(t, j) = FileOf(s, j)
         /\ t.touched = s.touched /\ t.fault = s.fault /\ (s.fault.kind = "none" => t.ok)
<1>1. PICK V : s \in FsStates(V)
  BY DEF Sound, Good
<1>2. MetaWritten(s, write_inode_table(s)) /\ (s.fault.kind = "none" => write_inode_table(s).ok)
  BY <1>1, WritesTable
<1> QED
  BY <1>2, MetaFiles

\* A refusal leaves everything.
LEMMA FailFiles ==
  ASSUME NEW s, NEW E, Sound(s, E)
  PROVE  /\ \A j : FileOf(Fail(s), j) = FileOf(s, j)
         /\ Fail(s).touched = s.touched /\ Fail(s).fault = s.fault /\ ~Fail(s).ok
         /\ SameCaller(s, Fail(s)) /\ Fail(s).inode_bitmap = s.inode_bitmap /\ Fail(s).done = s.done
<1>1. PICK V : s \in FsStates(V)
  BY DEF Sound, Good
<1>2. SameMemory(s, Fail(s)) /\ Fail(s).disk = s.disk /\ Fail(s).ok = FALSE /\ Fail(s).done = s.done
  BY <1>1, SetsOk DEF Fail
<1>3. /\ Fail(s).inode_bitmap = s.inode_bitmap /\ Fail(s).inode_table = s.inode_table /\ Fail(s).touched = s.touched
      /\ Fail(s).fault = s.fault /\ SameCaller(s, Fail(s))
  BY <1>2 DEF SameMemory, SameTables, SameScratch, SameCaller
<1> QED
  BY <1>2, <1>3, SameFiles

(* The calls on files and directories.                                     *)

\* The entries of a file that is a directory.
EntriesIn(f) == IF f.type = "directory" THEN f.data ELSE <<>>

\* A record with its two fields.
LEMMA FileFields ==
  ASSUME NEW type, NEW data
  PROVE  /\ FileWith(type, data).type = type /\ FileWith(type, data).data = data
         /\ FreeFile.type = "free" /\ FreeFile.data = <<>> /\ FreeFile = FileWith("free", <<>>)
BY DEF FileWith, FreeFile

\* A file as the calls see it.
LEMMA FileFacts ==
  ASSUME NEW s, s.inode_table \in InodeTables, s.inode_bitmap \subseteq Inodes, NEW i
  PROVE  /\ IsDirectory(s, i) <=> FileOf(s, i).type = "directory"
         /\ IsRegular(s, i) <=> FileOf(s, i).type = "regular"
         /\ read_directory_entries(s, i) = EntriesIn(FileOf(s, i))
         /\ IsRegular(s, i) => read_inode_bytes(s, i, 0, SIMPLEFS_MAX_FILE_SIZE) = FileOf(s, i).data
         /\ FileOf(s, i).type \in {"free", "regular", "directory"} /\ IsSequence(FileOf(s, i).data)
         /\ FileOf(s, i) = FileWith(FileOf(s, i).type, FileOf(s, i).data)
         /\ i \in s.inode_bitmap => FileOf(s, i).type = s.inode_table[i].type
<1>1. CASE i \notin s.inode_bitmap
  <2>1. FileOf(s, i) = FreeFile
    BY <1>1, FileUsed
  <2>2. ~IsDirectory(s, i) /\ ~IsRegular(s, i)
    BY <1>1 DEF IsDirectory, IsRegular
  <2>3. read_directory_entries(s, i) = <<>>
    BY <2>2 DEF read_directory_entries
  <2>4. IsSequence(<<>>)
    <3>1. <<>> \in Seq({})
      OBVIOUS
    <3> QED BY <3>1 DEF IsSequence
  <2> QED
    BY <1>1, <2>1, <2>2, <2>3, <2>4, FileFields DEF EntriesIn
<1>2. CASE i \in s.inode_bitmap
  <2> DEFINE r == s.inode_table[i]
  <2>1. FileOf(s, i) = FileWith(r.type, Content(s, i))
    BY <1>2, FileUsed
  <2>2. i \in Inodes /\ r \in InodeSet
    BY <1>2 DEF InodeTables
  <2>3. r.type \in {"free", "regular", "directory"}
    BY <2>2, InodeFields
  <2>4. (IsDirectory(s, i) <=> r.type = "directory") /\ (IsRegular(s, i) <=> r.type = "regular")
    BY <1>2 DEF IsDirectory, IsRegular
  <2>5. IsSequence(Content(s, i))
    <3>1. LargestOf(r) \in Nat
      BY SectorSize
    <3> QED BY <2>2, <3>1, ReadsInode DEF Content
  <2>6. r.type = "directory" => Content(s, i) = read_inode_bytes(s, i, 0, SIMPLEFS_MAX_DIRECTORY_ENTRIES)
    BY DEF Content, LargestOf
  <2>7. r.type # "directory" => Content(s, i) = read_inode_bytes(s, i, 0, SIMPLEFS_MAX_FILE_SIZE)
    BY DEF Content, LargestOf
  <2>8. read_directory_entries(s, i) = IF r.type = "directory" THEN Content(s, i) ELSE <<>>
    BY <2>4, <2>6 DEF read_directory_entries
  <2>9. FileOf(s, i).type = r.type /\ FileOf(s, i).data = Content(s, i)
    BY <2>1, FileFields
  <2> QED
    BY <2>1, <2>3, <2>4, <2>5, <2>7, <2>8, <2>9 DEF EntriesIn
<1> QED
  BY <1>1, <1>2

\* The files a call touches are in s.touched, the others are what they were.
Touches(s, t) == s.touched \subseteq t.touched /\ KeptFiles(s, t, t.touched) /\ t.fault = s.fault
\* A call works on a file and on the current directory.
Works(s, t) == Touches(s, t) /\ \E f \in Inodes : t.touched \subseteq {f, s.current_directory}

\* One after the other.
LEMMA TouchesTransitive ==
  ASSUME NEW r, NEW s, NEW t, Touches(r, s), Touches(s, t)
  PROVE  Touches(r, t)
BY DEF Touches, KeptFiles

\* The functions of the core touch what they say.
LEMMA TouchesOne ==
  ASSUME NEW s, NEW t, NEW i, KeptFiles(s, t, {i}), t.touched = s.touched \cup {i}, t.fault = s.fault
  PROVE  Touches(s, t)
BY DEF Touches, KeptFiles

\* All files are kept.
LEMMA TouchesNone ==
  ASSUME NEW s, NEW t, \A j : FileOf(t, j) = FileOf(s, j), t.touched = s.touched, t.fault = s.fault
  PROVE  Touches(s, t) /\ \A J : KeptFiles(s, t, J)
BY DEF Touches, KeptFiles

\* append_entry_to_directory, in terms of files.
LEMMA EntersName ==
  ASSUME NEW s, Sound(s, {}), NEW d, NEW name, NEW child
  PROVE  LET t == append_entry_to_directory(s, d, name, child) IN
         \/ t = Fail(s)
         \/ FileOf(s, d).type = "directory" /\ Stored(s, t, d, Append(FileOf(s, d).data, <<name, child>>))
<1> DEFINE t == append_entry_to_directory(s, d, name, child)
           entries == read_directory_entries(s, d)
<1>1. s.inode_table \in InodeTables /\ s.inode_bitmap \subseteq Inodes
  BY SoundFields
<1>2. CASE ~IsDirectory(s, d) \/ Len(entries) >= SIMPLEFS_MAX_DIRECTORY_ENTRIES
  BY <1>2 DEF append_entry_to_directory
<1>3. CASE ~(~IsDirectory(s, d) \/ Len(entries) >= SIMPLEFS_MAX_DIRECTORY_ENTRIES)
  <2>1. t = write_inode_data(s, d, Append(entries, <<name, child>>))
    BY <1>3 DEF append_entry_to_directory
  <2>2. FileOf(s, d).type = "directory" /\ entries = FileOf(s, d).data /\ IsSequence(entries)
    BY <1>1, <1>3, FileFacts DEF EntriesIn
  <2> HIDE DEF entries, t
  <2>3. IsSequence(Append(entries, <<name, child>>))
    BY <2>2, SequenceAppended
  <2>4. t = Fail(s) \/ Stored(s, t, d, Append(entries, <<name, child>>))
    BY <2>1, <2>3, StoresData
  <2> QED BY <2>2, <2>4 DEF t
<1> QED
  BY <1>2, <1>3

\* The entries without the k-th.
Cut(entries, k) == SubSeq(entries, 1, k - 1) \o SubSeq(entries, k + 1, Len(entries))

\* remove_entry_from_directory, in terms of files: the first slot with the name.
LEMMA CutsName ==
  ASSUME NEW s, Sound(s, {}), NEW d, NEW name
  PROVE  LET t == remove_entry_from_directory(s, d, name)
             k == Min(SlotsOf(FileOf(s, d).data, name)) IN
         \/ t = Fail(s)
         \/ FileOf(s, d).type = "directory" /\ k \in SlotsOf(FileOf(s, d).data, name)
            /\ Stored(s, t, d, Cut(FileOf(s, d).data, k))
<1> DEFINE t == remove_entry_from_directory(s, d, name)
           entries == read_directory_entries(s, d)
           k == Min(SlotsOf(entries, name))
<1>1. s.inode_table \in InodeTables /\ s.inode_bitmap \subseteq Inodes
  BY SoundFields
<1>2. CASE ~Found(s, d, name)
  BY <1>2 DEF remove_entry_from_directory
<1>3. CASE Found(s, d, name)
  <2>1. t = write_inode_data(s, d, Cut(entries, k))
    BY <1>3 DEF remove_entry_from_directory, Cut
  <2>2. SlotsOf(entries, name) # {} /\ entries = EntriesIn(FileOf(s, d)) /\ IsSequence(entries)
    BY <1>1, <1>3, FileFacts, ReadsDirectory DEF Found
  <2>3. FileOf(s, d).type = "directory" /\ entries = FileOf(s, d).data
    <3>1. SlotsOf(<<>>, name) = {}
      BY DEF SlotsOf
    <3> QED BY <2>2, <3>1 DEF EntriesIn
  <2> HIDE DEF t, entries
  <2>4. k \in SlotsOf(entries, name) /\ k \in DOMAIN entries
    <3>1. PICK S : entries \in Seq(S)
      BY <2>2 DEF IsSequence
    <3>2. SlotsOf(entries, name) \in SUBSET Nat
      BY <3>1 DEF SlotsOf
    <3>3. k \in SlotsOf(entries, name)
      BY <2>2, <3>2, FirstFit
    <3> QED BY <3>3 DEF SlotsOf
  <2>5. IsSequence(Cut(entries, k))
    BY <2>2, <2>4, SequenceCut DEF Cut
  <2>6. t = Fail(s) \/ Stored(s, t, d, Cut(entries, k))
    BY <2>1, <2>5, StoresData
  <2> QED BY <2>3, <2>4, <2>6 DEF t
<1> QED
  BY <1>2, <1>3

\* File f, which was free, is F, and the current directory has an entry for it.
\* A directory that takes the number of a removed current directory gets the
\* entry itself.
NewEntry(s, t, f, F, name) ==
  LET cwd == s.current_directory IN
  /\ f \in Inodes \ s.inode_bitmap /\ valid_name(name) /\ ~Found(s, cwd, name)
  /\ KeptFiles(s, t, {f, cwd})
  /\ f # cwd => /\ FileOf(s, cwd).type = "directory" /\ FileOf(t, f) = F
                /\ FileOf(t, cwd) = FileWith("directory", Append(FileOf(s, cwd).data, <<name, f>>))
  /\ f = cwd => FileOf(t, f) = FileWith(F.type, Append(F.data, <<name, f>>)) /\ F.type = "directory"
\* Nothing changed, or the current directory was lost as the disk is full.
CwdLost(s, t) ==
  LET cwd == s.current_directory IN
  KeptFiles(s, t, {cwd}) /\ FileOf(t, cwd) \in {FileOf(s, cwd), FileWith(FileOf(s, cwd).type, <<>>)}
\* A file when it is made.
TwoDots(d, parent) == <<<<".", d>>, <<"..", parent>>>>
Newborn(type, f, parent) ==
  IF type = "regular" THEN FileWith("regular", <<>>) ELSE FileWith("directory", TwoDots(f, parent))
\* The calls that make a file.
Makes(s, t, type, name) ==
  /\ Touches(s, t)
  /\ \E f \in Inodes : /\ t.touched \subseteq s.touched \cup {f, s.current_directory}
                       /\ t.ok => NewEntry(s, t, f, Newborn(type, f, s.current_directory), name)
  /\ ~t.ok /\ s.fault.kind = "none" => CwdLost(s, t)

\* The inode is released again and the call fails.
GaveUp(e, t, f) ==
  /\ Touches(e, t) /\ t.touched = e.touched \cup {f} /\ t.fault = e.fault /\ ~t.ok
  /\ KeptFiles(e, t, {f}) /\ FileOf(t, f) = FreeFile

\* release_inode when a file could not be made.
LEMMA GivesUp ==
  ASSUME NEW e, Sound(e, Exc(e)), NEW f \in e.inode_bitmap, f # SIMPLEFS_ROOT_INODE
  PROVE  GaveUp(e, Fail(release_inode(e, f)), f)
<1> DEFINE x == release_inode(e, f)
           t == Fail(x)
<1>1. ReleasedFile(e, x, f)
  BY ReleasesFile
<1>2. Outcome(e, x, {f})
  BY OutcomeReleased
<1> HIDE DEF x
<1>3. Sound(x, Exc(x))
  BY <1>2 DEF Outcome
<1>4. (\A j : FileOf(t, j) = FileOf(x, j)) /\ t.touched = x.touched /\ t.fault = x.fault /\ ~t.ok
  BY <1>3, FailFiles
<1> HIDE DEF t
<1>5. /\ KeptFiles(e, t, {f}) /\ t.touched = e.touched \cup {f} /\ t.fault = e.fault /\ FileOf(t, f) = FreeFile
  BY <1>1, <1>4 DEF ReleasedFile, KeptFiles
<1>6. Touches(e, t)
  BY <1>5, TouchesOne
<1> QED
  BY <1>4, <1>5, <1>6 DEF GaveUp, t, x

\* A file number is given up after work on it and on the current directory.
LEMMA GivesUpFile ==
  ASSUME NEW s, NEW a, NEW type, NEW f, ClaimedFile(s, a, type, f), NEW e, NEW t, GaveUp(e, t, f),
         Touches(a, e), e.touched \subseteq a.touched \cup {f, s.current_directory}, s.current_directory \in Inodes,
         s.fault.kind = "none" =>
           /\ KeptFiles(a, e, {f, s.current_directory})
           /\ s.current_directory # f =>
                FileOf(e, s.current_directory) \in {FileOf(a, s.current_directory), FileWith(FileOf(a, s.current_directory).type, <<>>)}
  PROVE  /\ Touches(s, t) /\ t.touched \subseteq s.touched \cup {f, s.current_directory}
         /\ s.fault.kind = "none" => CwdLost(s, t)
<1> DEFINE cwd == s.current_directory
<1>1. f \in Inodes \ s.inode_bitmap /\ KeptFiles(s, a, {f}) /\ a.touched = s.touched \cup {f} /\ a.fault = s.fault
  BY DEF ClaimedFile
<1>2. Touches(s, a)
  BY <1>1, TouchesOne
<1>3. Touches(e, t) /\ t.touched = e.touched \cup {f} /\ KeptFiles(e, t, {f}) /\ FileOf(t, f) = FreeFile
  BY DEF GaveUp
<1>4. Touches(s, t)
  BY <1>2, <1>3, TouchesTransitive
<1>5. t.touched \subseteq s.touched \cup {f, cwd}
  BY <1>1, <1>3
<1>6. ASSUME s.fault.kind = "none" PROVE CwdLost(s, t)
  <2>1. FileOf(s, f) = FreeFile
    BY <1>1, FileUsed
  <2>2. ASSUME NEW j \in Inodes \ {cwd} PROVE FileOf(t, j) = FileOf(s, j)
    <3>1. CASE j = f
      BY <1>3, <2>1, <3>1
    <3>2. CASE j # f
      BY <1>1, <1>3, <1>6, <3>2 DEF KeptFiles
    <3> QED BY <3>1, <3>2
  <2>3. FileOf(t, cwd) \in {FileOf(s, cwd), FileWith(FileOf(s, cwd).type, <<>>)}
    <3>1. CASE cwd = f
      BY <1>3, <2>1, <3>1
    <3>2. CASE cwd # f
      <4>1. FileOf(t, cwd) = FileOf(e, cwd) /\ FileOf(a, cwd) = FileOf(s, cwd)
        BY <1>1, <1>3, <3>2 DEF KeptFiles
      <4> QED BY <1>6, <3>2, <4>1
    <3> QED BY <3>1, <3>2
  <2> QED BY <2>2, <2>3 DEF CwdLost, KeptFiles
<1> QED
  BY <1>4, <1>5, <1>6

\* The ways through simplefs_create.
LEMMA CreateWays ==
  ASSUME NEW s, Sound(s, {}), NEW name, NEW a, a = allocate_inode(s, "regular"),
         NEW e, e = append_entry_to_directory(a, s.current_directory, name, a.inode),
         a.ok => ~Fail(release_inode(e, a.inode)).ok
  PROVE  LET t == simplefs_create(s, name) IN
         \/ t = Fail(s)
         \/ /\ valid_name(name) /\ ~Found(s, s.current_directory, name)
            /\ \/ ~a.ok /\ t = a
               \/ a.ok /\ e.ok /\ t = write_inode_table(e)
               \/ a.ok /\ ~e.ok /\ t = Fail(release_inode(e, a.inode))
<1> DEFINE refused == ~s.fs_mounted \/ ~valid_name(name) \/ Found(s, s.current_directory, name)
           y == Fail(release_inode(e, a.inode))
           t == simplefs_create(s, name)
<1>1. t = IF refused THEN Fail(s)
          ELSE IF ~a.ok THEN a
          ELSE IF (IF e.ok THEN e ELSE y).ok THEN write_inode_table(IF e.ok THEN e ELSE y)
          ELSE (IF e.ok THEN e ELSE y)
  BY DEF simplefs_create, Then, OnFailure
<1>2. a.ok => ~y.ok
  OBVIOUS
<1> HIDE DEF y, t
<1>3. \/ refused /\ t = Fail(s)
      \/ ~refused /\ ~a.ok /\ t = a
      \/ ~refused /\ a.ok /\ e.ok /\ t = write_inode_table(e)
      \/ ~refused /\ a.ok /\ ~e.ok /\ t = y
  <2>1. CASE refused
    BY <1>1, <2>1
  <2>2. CASE ~refused /\ ~a.ok
    BY <1>1, <2>2
  <2>3. CASE ~refused /\ a.ok /\ e.ok
    BY <1>1, <2>3
  <2>4. CASE ~refused /\ a.ok /\ ~e.ok
    BY <1>1, <1>2, <2>4
  <2> QED BY <2>1, <2>2, <2>3, <2>4
<1> QED
  BY <1>3 DEF y, t

\* A call that is refused.
LEMMA MakesNothing ==
  ASSUME NEW s, NEW E, Sound(s, E), NEW type, NEW name
  PROVE  Makes(s, Fail(s), type, name)
<1>1. /\ \A j : FileOf(Fail(s), j) = FileOf(s, j)
      /\ Fail(s).touched = s.touched /\ Fail(s).fault = s.fault /\ ~Fail(s).ok
  BY FailFiles
<1>2. Touches(s, Fail(s)) /\ \A J : KeptFiles(s, Fail(s), J)
  BY <1>1, TouchesNone
<1>3. CwdLost(s, Fail(s))
  BY <1>1, <1>2 DEF CwdLost
<1>4. SIMPLEFS_ROOT_INODE \in Inodes
  BY FsSizes
<1> QED
  BY <1>1, <1>2, <1>3, <1>4 DEF Makes

\* allocate_inode did not succeed.
LEMMA MakesNoInode ==
  ASSUME NEW s, NEW a, NEW type, NEW f, ClaimedFile(s, a, type, f), ~a.ok, NEW name
  PROVE  Makes(s, a, type, name)
<1>1. f \in Inodes /\ KeptFiles(s, a, {f}) /\ a.touched = s.touched \cup {f} /\ a.fault = s.fault /\ ~(s.fault.kind = "none")
  BY DEF ClaimedFile
<1>2. Touches(s, a)
  BY <1>1, TouchesOne
<1> QED
  BY <1>1, <1>2 DEF Makes

\* simplefs_create, in terms of files.
LEMMA CreatesFile ==
  ASSUME NEW s, Sound(s, {}), NEW name
  PROVE  Makes(s, simplefs_create(s, name), "regular", name)
<1> DEFINE cwd == s.current_directory
           a == allocate_inode(s, "regular")
           e == append_entry_to_directory(a, cwd, name, a.inode)
           x == Fail(release_inode(e, a.inode))
           w == write_inode_table(e)
           t == simplefs_create(s, name)
<1>1. cwd \in Inodes /\ Rooted(s) /\ s.inode_table \in InodeTables /\ s.inode_bitmap \subseteq Inodes
  BY SoundFields
<1>2. Allocated(s, a, "regular")
  BY AllocatesInode
<1>3. a = Fail(s) \/ \E f : ClaimedFile(s, a, "regular", f)
  BY ClaimsFile
<1>0. a = allocate_inode(s, "regular")
  OBVIOUS
<1> HIDE DEF a
<1>4. a.ok => Sound(a, {}) /\ SameCaller(s, a)
  BY <1>2, EndsWell DEF Allocated, Changes
<1>5. CASE ~a.ok
  <2>1. a.ok => ~x.ok
    BY <1>5
  <2>2. t = Fail(s) \/ t = a
    BY <1>0, <1>5, <2>1, CreateWays
  <2>3. Makes(s, a, "regular", name)
    BY <1>3, <1>5, MakesNoInode, MakesNothing
  <2> HIDE DEF t
  <2>4. Makes(s, t, "regular", name)
    BY <2>2, <2>3, MakesNothing
  <2> QED BY <2>4 DEF t
<1>6. CASE a.ok
  <2>1. ~Fail(s).ok
    BY FailFiles
  <2>2. PICK f : ClaimedFile(s, a, "regular", f)
    BY <1>3, <1>6, <2>1
  <2>3. /\ f \in Inodes \ s.inode_bitmap /\ KeptFiles(s, a, {f}) /\ a.touched = s.touched \cup {f} /\ a.fault = s.fault
        /\ a.inode = f /\ FileOf(a, f) = FileWith("regular", <<>>)
    BY <1>6, <2>2 DEF ClaimedFile
  <2>4. f \in a.inode_bitmap /\ f # SIMPLEFS_ROOT_INODE
    BY <1>1, <1>2, <1>6, <2>3 DEF Allocated, Rooted
  <2>5. Finished(a, e)
    BY <1>4, <1>6, AddsEntry
  <2>6. \/ e = Fail(a)
        \/ FileOf(a, cwd).type = "directory" /\ Stored(a, e, cwd, Append(FileOf(a, cwd).data, <<name, f>>))
    BY <1>4, <1>6, <2>3, EntersName
  <2> HIDE DEF e
  <2>7. Sound(e, Exc(e)) /\ f \in e.inode_bitmap /\ (e.ok => Sound(e, {}))
    BY <2>4, <2>5, EndsWell DEF Finished, SameTypes
  <2>8. GaveUp(e, x, f)
    BY <2>3, <2>4, <2>7, GivesUp
  <2> HIDE DEF x
  <2>9. ~x.ok
    BY <2>8 DEF GaveUp
  <2>10. \/ t = Fail(s)
         \/ /\ valid_name(name) /\ ~Found(s, cwd, name)
            /\ \/ e.ok /\ t = w
               \/ ~e.ok /\ t = x
    <3>1. e = append_entry_to_directory(a, s.current_directory, name, a.inode)
      BY DEF e
    <3>2. x = Fail(release_inode(e, a.inode))
      BY DEF x
    <3>3. a.ok => ~Fail(release_inode(e, a.inode)).ok
      BY <2>9, <3>2
    <3> QED BY <1>0, <1>6, <3>1, <3>2, <3>3, CreateWays
  <2>11. ASSUME e.ok, valid_name(name), ~Found(s, cwd, name) PROVE Makes(s, w, "regular", name)
    <3>1. ~Fail(a).ok
      BY <1>4, <1>6, FailFiles
    <3>2. FileOf(a, cwd).type = "directory" /\ Stored(a, e, cwd, Append(FileOf(a, cwd).data, <<name, f>>))
      BY <2>6, <2>11, <3>1
    <3>3. f # cwd
      BY <2>3, <3>2, FileFields
    <3>4. /\ KeptFiles(a, e, {cwd}) /\ e.touched = a.touched \cup {cwd} /\ e.fault = a.fault /\ cwd \in a.inode_bitmap
          /\ FileOf(e, cwd) = FileWith(a.inode_table[cwd].type, Append(FileOf(a, cwd).data, <<name, f>>))
      BY <2>11, <3>2 DEF Stored
    <3>5. a.inode_table[cwd].type = "directory"
      <4>1. a.inode_table \in InodeTables /\ a.inode_bitmap \subseteq Inodes
        BY <1>4, <1>6, SoundFields
      <4> QED BY <3>2, <3>4, <4>1, FileFacts
    <3>6. /\ \A j : FileOf(w, j) = FileOf(e, j)
          /\ w.touched = e.touched /\ w.fault = e.fault /\ (e.fault.kind = "none" => w.ok)
      BY <2>7, <2>11, TableFiles
    <3> HIDE DEF w
    <3>7. FileOf(a, cwd) = FileOf(s, cwd)
      BY <1>1, <2>3, <3>3 DEF KeptFiles
    <3>8. /\ FileOf(w, f) = FileWith("regular", <<>>)
          /\ FileOf(w, cwd) = FileWith("directory", Append(FileOf(s, cwd).data, <<name, f>>))
          /\ FileOf(s, cwd).type = "directory"
      BY <2>3, <3>2, <3>3, <3>4, <3>5, <3>6, <3>7 DEF KeptFiles
    <3>9. KeptFiles(s, w, {f, cwd})
      BY <2>3, <3>4, <3>6 DEF KeptFiles
    <3>10. NewEntry(s, w, f, Newborn("regular", f, cwd), name)
      BY <2>3, <2>11, <3>3, <3>8, <3>9 DEF NewEntry, Newborn
    <3>11. Touches(s, w)
      <4>1. Touches(s, a) /\ Touches(a, e) /\ Touches(e, w)
        BY <2>3, <3>4, <3>6, TouchesOne, TouchesNone
      <4> QED BY <4>1, TouchesTransitive
    <3>12. w.touched \subseteq s.touched \cup {f, cwd}
      BY <2>3, <3>4, <3>6
    <3>13. ~w.ok => ~(s.fault.kind = "none")
      BY <2>3, <3>4, <3>6
    <3> QED
      BY <2>3, <3>10, <3>11, <3>12, <3>13 DEF Makes
  <2>12. ASSUME ~e.ok PROVE Makes(s, x, "regular", name)
    <3>1. CASE e = Fail(a)
      <4>1. (\A j : FileOf(e, j) = FileOf(a, j)) /\ e.touched = a.touched /\ e.fault = a.fault
        BY <1>4, <1>6, <3>1, FailFiles
      <4>2. Touches(a, e) /\ \A J : KeptFiles(a, e, J)
        BY <4>1, TouchesNone
      <4>3. /\ e.touched \subseteq a.touched \cup {f, cwd} /\ KeptFiles(a, e, {f, cwd})
            /\ FileOf(e, cwd) \in {FileOf(a, cwd), FileWith(FileOf(a, cwd).type, <<>>)}
        BY <4>1, <4>2
      <4>4. Touches(s, x) /\ x.touched \subseteq s.touched \cup {f, cwd} /\ (s.fault.kind = "none" => CwdLost(s, x))
        BY <1>1, <2>2, <2>8, <4>2, <4>3, GivesUpFile
      <4> QED BY <2>3, <2>9, <4>4 DEF Makes
    <3>2. CASE e # Fail(a)
      <4>1. FileOf(a, cwd).type = "directory" /\ Stored(a, e, cwd, Append(FileOf(a, cwd).data, <<name, f>>))
        BY <2>6, <3>2
      <4>2. /\ KeptFiles(a, e, {cwd}) /\ e.touched = a.touched \cup {cwd} /\ e.fault = a.fault /\ cwd \in a.inode_bitmap
            /\ s.fault.kind = "none" => FileOf(e, cwd) = FileWith(a.inode_table[cwd].type, <<>>)
        BY <2>3, <2>12, <4>1 DEF Stored
      <4>3. a.inode_table[cwd].type = FileOf(a, cwd).type
        <5>1. a.inode_table \in InodeTables /\ a.inode_bitmap \subseteq Inodes
          BY <1>4, <1>6, SoundFields
        <5> QED BY <4>2, <5>1, FileFacts
      <4>4. Touches(a, e) /\ KeptFiles(a, e, {f, cwd})
        BY <4>2, TouchesOne DEF KeptFiles
      <4>5. Touches(s, x) /\ x.touched \subseteq s.touched \cup {f, cwd} /\ (s.fault.kind = "none" => CwdLost(s, x))
        BY <1>1, <2>2, <2>8, <4>2, <4>3, <4>4, GivesUpFile
      <4> QED BY <2>3, <2>9, <4>5 DEF Makes
    <3> QED BY <3>1, <3>2
  <2> HIDE DEF t, w
  <2>13. Makes(s, t, "regular", name)
    BY <2>10, <2>11, <2>12, MakesNothing
  <2> QED BY <2>13 DEF t
<1> QED
  BY <1>5, <1>6

\* What making a directory did before it failed: at most the new directory and
\* the current one were touched.
Began(a, y, f, cwd) ==
  /\ Touches(a, y) /\ y.touched \subseteq a.touched \cup {f, cwd}
  /\ a.fault.kind = "none" =>
       /\ KeptFiles(a, y, {f, cwd})
       /\ cwd # f => FileOf(y, cwd) \in {FileOf(a, cwd), FileWith(FileOf(a, cwd).type, <<>>)}

\* Nothing was touched, or one file.
LEMMA BeganOne ==
  ASSUME NEW a, Sound(a, {}), NEW y, NEW f, NEW cwd \in Inodes, NEW data, y = Fail(a) \/ Stored(a, y, f, data)
  PROVE  Began(a, y, f, cwd)
<1>1. CASE y = Fail(a)
  <2>1. (\A j : FileOf(y, j) = FileOf(a, j)) /\ y.touched = a.touched /\ y.fault = a.fault
    BY <1>1, FailFiles
  <2>2. Touches(a, y) /\ \A J : KeptFiles(a, y, J)
    BY <2>1, TouchesNone
  <2> QED BY <2>1, <2>2 DEF Began
<1>2. CASE Stored(a, y, f, data)
  <2>1. KeptFiles(a, y, {f}) /\ y.touched = a.touched \cup {f} /\ y.fault = a.fault
    BY <1>2 DEF Stored
  <2>2. Touches(a, y)
    BY <2>1, TouchesOne
  <2> QED BY <2>1, <2>2 DEF Began, KeptFiles
<1> QED
  BY <1>1, <1>2

\* The new directory was written and then the current one could not be.
LEMMA BeganTwo ==
  ASSUME NEW a, NEW d, Sound(d, {}), NEW f, NEW cwd \in Inodes, KeptFiles(a, d, {f}), Touches(a, d), d.touched = a.touched \cup {f},
         NEW e, ~e.ok, NEW data, e = Fail(d) \/ Stored(d, e, cwd, data)
  PROVE  Began(a, e, f, cwd)
<1>1. d.fault = a.fault
  BY DEF Touches
<1>2. CASE e = Fail(d)
  <2>1. (\A j : FileOf(e, j) = FileOf(d, j)) /\ e.touched = d.touched /\ e.fault = d.fault
    BY <1>2, FailFiles
  <2>2. Touches(d, e)
    BY <2>1, TouchesNone
  <2>3. Touches(a, e)
    BY <2>2, TouchesTransitive
  <2> QED BY <2>1, <2>3 DEF Began, KeptFiles
<1>3. CASE Stored(d, e, cwd, data)
  <2>1. /\ KeptFiles(d, e, {cwd}) /\ e.touched = d.touched \cup {cwd} /\ e.fault = d.fault /\ cwd \in d.inode_bitmap
        /\ d.fault.kind = "none" => FileOf(e, cwd) = FileWith(d.inode_table[cwd].type, <<>>)
    BY <1>3 DEF Stored
  <2>2. Touches(d, e)
    BY <2>1, TouchesOne
  <2>3. Touches(a, e)
    BY <2>2, TouchesTransitive
  <2>4. d.inode_table[cwd].type = FileOf(d, cwd).type
    <3>1. d.inode_table \in InodeTables /\ d.inode_bitmap \subseteq Inodes
      BY SoundFields
    <3> QED BY <2>1, <3>1, FileFacts
  <2>5. cwd # f => FileOf(d, cwd) = FileOf(a, cwd)
    BY DEF KeptFiles
  <2>6. KeptFiles(a, e, {f, cwd})
    BY <2>1 DEF KeptFiles
  <2>7. e.touched \subseteq a.touched \cup {f, cwd}
    BY <2>1
  <2> QED BY <1>1, <2>1, <2>3, <2>4, <2>5, <2>6, <2>7 DEF Began
<1> QED
  BY <1>2, <1>3

\* Both were written.
LEMMA MadeDirectory ==
  ASSUME NEW s, NEW a, Sound(a, {}), NEW f, ClaimedFile(s, a, "directory", f), a.ok, f \in a.inode_bitmap,
         s.current_directory \in Inodes, NEW d, Sound(d, {}), d.ok, NEW cwd, cwd = s.current_directory,
         Stored(a, d, f, TwoDots(f, cwd)),
         NEW e, e.ok, NEW name, FileOf(d, cwd).type = "directory",
         Stored(d, e, cwd, Append(FileOf(d, cwd).data, <<name, f>>)),
         valid_name(name), ~Found(s, cwd, name)
  PROVE  NewEntry(s, e, f, Newborn("directory", f, cwd), name) /\ Touches(s, e)
         /\ e.touched \subseteq s.touched \cup {f, cwd}
<1>1. /\ f \in Inodes \ s.inode_bitmap /\ KeptFiles(s, a, {f}) /\ a.touched = s.touched \cup {f} /\ a.fault = s.fault
      /\ FileOf(a, f) = FileWith("directory", <<>>)
  BY DEF ClaimedFile
<1>2. a.inode_table[f].type = "directory"
  <2>1. a.inode_table \in InodeTables /\ a.inode_bitmap \subseteq Inodes
    BY SoundFields
  <2> QED BY <1>1, <2>1, FileFacts, FileFields
<1>3. /\ KeptFiles(a, d, {f}) /\ d.touched = a.touched \cup {f} /\ d.fault = a.fault
      /\ FileOf(d, f) = FileWith("directory", TwoDots(f, cwd))
  BY <1>2 DEF Stored
<1>4. d.inode_table[cwd].type = "directory"
  <2>1. d.inode_table \in InodeTables /\ d.inode_bitmap \subseteq Inodes /\ cwd \in d.inode_bitmap
    BY SoundFields DEF Stored
  <2> QED BY <2>1, FileFacts
<1>5. /\ KeptFiles(d, e, {cwd}) /\ e.touched = d.touched \cup {cwd} /\ e.fault = d.fault
      /\ FileOf(e, cwd) = FileWith("directory", Append(FileOf(d, cwd).data, <<name, f>>))
  BY <1>4 DEF Stored
<1>6. Touches(s, e)
  <2>1. Touches(s, a) /\ Touches(a, d) /\ Touches(d, e)
    BY <1>1, <1>3, <1>5, TouchesOne
  <2> QED BY <2>1, TouchesTransitive
<1>7. e.touched \subseteq s.touched \cup {f, cwd}
  BY <1>1, <1>3, <1>5
<1>8. KeptFiles(s, e, {f, cwd})
  BY <1>1, <1>3, <1>5 DEF KeptFiles
<1>9. Newborn("directory", f, cwd) = FileWith("directory", TwoDots(f, cwd))
  BY DEF Newborn
<1>10. CASE f = cwd
  <2>1. FileOf(d, cwd).data = TwoDots(f, cwd)
    BY <1>3, <1>10, FileFields
  <2>2. Newborn("directory", f, cwd).data = TwoDots(f, cwd) /\ Newborn("directory", f, cwd).type = "directory"
    BY <1>9, FileFields
  <2> QED BY <1>1, <1>5, <1>6, <1>7, <1>8, <1>10, <2>1, <2>2 DEF NewEntry
<1>11. CASE f # cwd
  <2>1. FileOf(d, cwd) = FileOf(s, cwd) /\ FileOf(e, f) = FileOf(d, f)
    BY <1>1, <1>3, <1>5, <1>11 DEF KeptFiles
  <2> QED BY <1>1, <1>3, <1>5, <1>6, <1>7, <1>8, <1>9, <1>11, <2>1 DEF NewEntry
<1> QED
  BY <1>10, <1>11

\* The ways through simplefs_make_dir.
LEMMA MakeDirWays ==
  ASSUME NEW s, NEW name, NEW a, a = allocate_inode(s, "directory"),
         NEW d, d = init_directory_file(a, a.inode, s.current_directory),
         NEW e, e = append_entry_to_directory(d, s.current_directory, name, a.inode),
         NEW y, y = (IF d.ok THEN e ELSE d)
  PROVE  LET t == simplefs_make_dir(s, name) IN
         \/ t = Fail(s)
         \/ /\ valid_name(name) /\ ~Found(s, s.current_directory, name)
            /\ \/ ~a.ok /\ t = a
               \/ a.ok /\ y.ok /\ t = y
               \/ a.ok /\ ~y.ok /\ t = Fail(release_inode(y, a.inode))
<1> DEFINE refused == ~s.fs_mounted \/ ~valid_name(name) \/ Found(s, s.current_directory, name)
           x == Fail(release_inode(y, a.inode))
           t == simplefs_make_dir(s, name)
<1>1. t = IF refused THEN Fail(s) ELSE IF ~a.ok THEN a ELSE IF y.ok THEN y ELSE x
  BY DEF simplefs_make_dir, Then, OnFailure
<1> HIDE DEF x, t
<1> QED
  BY <1>1 DEF x, t

\* simplefs_make_dir, in terms of files.
LEMMA CreatesDirectory ==
  ASSUME NEW s, Sound(s, {}), NEW name
  PROVE  Makes(s, simplefs_make_dir(s, name), "directory", name)
<1> DEFINE cwd == s.current_directory
           a == allocate_inode(s, "directory")
           d == init_directory_file(a, a.inode, cwd)
           e == append_entry_to_directory(d, cwd, name, a.inode)
           y == IF d.ok THEN e ELSE d
           x == Fail(release_inode(y, a.inode))
           t == simplefs_make_dir(s, name)
<1>1. cwd \in Inodes /\ Rooted(s) /\ s.inode_table \in InodeTables /\ s.inode_bitmap \subseteq Inodes
  BY SoundFields
<1>2. Allocated(s, a, "directory")
  BY AllocatesInode
<1>3. a = Fail(s) \/ \E f : ClaimedFile(s, a, "directory", f)
  BY ClaimsFile
<1>4. \/ t = Fail(s)
      \/ /\ valid_name(name) /\ ~Found(s, cwd, name)
         /\ \/ ~a.ok /\ t = a
            \/ a.ok /\ y.ok /\ t = y
            \/ a.ok /\ ~y.ok /\ t = x
  BY MakeDirWays
<1> HIDE DEF a, t
<1>5. a.ok => Sound(a, {}) /\ SameCaller(s, a)
  BY <1>2, EndsWell DEF Allocated, Changes
<1>6. CASE ~a.ok
  <2>1. Makes(s, a, "directory", name)
    BY <1>3, <1>6, MakesNoInode, MakesNothing
  <2>2. t = Fail(s) \/ t = a
    BY <1>4, <1>6
  <2>3. Makes(s, t, "directory", name)
    BY <2>1, <2>2, MakesNothing
  <2> QED BY <2>3 DEF t
<1>7. CASE a.ok
  <2>1. ~Fail(s).ok
    BY FailFiles
  <2>2. PICK f : ClaimedFile(s, a, "directory", f)
    BY <1>3, <1>7, <2>1
  <2>3. /\ f \in Inodes \ s.inode_bitmap /\ KeptFiles(s, a, {f}) /\ a.touched = s.touched \cup {f} /\ a.fault = s.fault
        /\ a.inode = f /\ FileOf(a, f) = FileWith("directory", <<>>)
    BY <1>7, <2>2 DEF ClaimedFile
  <2>4. f \in a.inode_bitmap /\ f # SIMPLEFS_ROOT_INODE
    BY <1>1, <1>2, <1>7, <2>3 DEF Allocated, Rooted
  <2>5. Finished(a, d)
    BY <1>5, <1>7, StartsDirectory
  <2>6. d = Fail(a) \/ Stored(a, d, f, TwoDots(f, cwd))
    <3>1. IsSequence(TwoDots(f, cwd))
      <4>1. TwoDots(f, cwd) \in Seq({<<".", f>>, <<"..", cwd>>})
        BY DEF TwoDots
      <4> QED BY <4>1 DEF IsSequence
    <3>2. d = write_inode_data(a, f, TwoDots(f, cwd))
      BY <2>3 DEF init_directory_file, TwoDots
    <3> HIDE DEF d
    <3> QED BY <1>5, <1>7, <3>1, <3>2, StoresData
  <2> HIDE DEF d
  <2>7. Sound(d, Exc(d)) /\ f \in d.inode_bitmap /\ (d.ok => Sound(d, {}))
    BY <2>4, <2>5, EndsWell DEF Finished, SameTypes
  <2>8. ASSUME d.ok
        PROVE  /\ Stored(a, d, f, TwoDots(f, cwd))
               /\ KeptFiles(a, d, {f}) /\ d.touched = a.touched \cup {f} /\ Touches(a, d)
               /\ Sound(e, Exc(e)) /\ f \in e.inode_bitmap
               /\ \/ e = Fail(d)
                  \/ FileOf(d, cwd).type = "directory" /\ Stored(d, e, cwd, Append(FileOf(d, cwd).data, <<name, f>>))
    <3>1. ~Fail(a).ok
      BY <1>5, <1>7, FailFiles
    <3>2. Stored(a, d, f, TwoDots(f, cwd))
      BY <2>6, <2>8, <3>1
    <3>3. KeptFiles(a, d, {f}) /\ d.touched = a.touched \cup {f} /\ d.fault = a.fault
      BY <3>2 DEF Stored
    <3>4. Touches(a, d)
      BY <3>3, TouchesOne
    <3>5. Finished(d, e)
      BY <2>7, <2>8, AddsEntry
    <3>6. \/ e = Fail(d)
          \/ FileOf(d, cwd).type = "directory" /\ Stored(d, e, cwd, Append(FileOf(d, cwd).data, <<name, f>>))
      BY <2>3, <2>7, <2>8, EntersName
    <3> HIDE DEF e
    <3>7. Sound(e, Exc(e)) /\ f \in e.inode_bitmap
      BY <2>7, <3>5, EndsWell DEF Finished, SameTypes
    <3> QED BY <3>2, <3>3, <3>4, <3>6, <3>7
  <2> HIDE DEF e
  <2>9. Sound(y, Exc(y)) /\ f \in y.inode_bitmap
    BY <2>7, <2>8
  <2>10. ~y.ok => Began(a, y, f, cwd)
    <3>1. CASE ~d.ok
      <4>1. y = d
        BY <3>1
      <4>2. Began(a, d, f, cwd)
        BY <1>1, <1>5, <1>7, <2>6, BeganOne
      <4> QED BY <4>1, <4>2
    <3>2. CASE d.ok
      <4>1. y = e
        BY <3>2
      <4>2. e = Fail(d) \/ Stored(d, e, cwd, Append(FileOf(d, cwd).data, <<name, f>>))
        BY <2>8, <3>2
      <4>3. Sound(d, {}) /\ KeptFiles(a, d, {f}) /\ Touches(a, d) /\ d.touched = a.touched \cup {f} /\ cwd \in Inodes
        BY <1>1, <2>7, <2>8, <3>2
      <4> HIDE DEF y, cwd
      <4>4. ~e.ok => Began(a, e, f, cwd)
        BY <4>2, <4>3, BeganTwo
      <4> QED BY <4>1, <4>4
    <3> QED BY <3>1, <3>2
  <2>11. y.ok => d.ok /\ y = e
    OBVIOUS
  <2> HIDE DEF y
  <2>12. GaveUp(y, x, f)
    BY <2>3, <2>4, <2>9, GivesUp
  <2> HIDE DEF x
  <2>13. ASSUME ~y.ok PROVE Makes(s, x, "directory", name)
    <3>1. /\ Touches(a, y) /\ y.touched \subseteq a.touched \cup {f, cwd}
          /\ s.fault.kind = "none" =>
               /\ KeptFiles(a, y, {f, cwd})
               /\ cwd # f => FileOf(y, cwd) \in {FileOf(a, cwd), FileWith(FileOf(a, cwd).type, <<>>)}
      BY <2>3, <2>10, <2>13 DEF Began
    <3>2. Touches(s, x) /\ x.touched \subseteq s.touched \cup {f, cwd} /\ (s.fault.kind = "none" => CwdLost(s, x))
      BY <1>1, <2>2, <2>12, <3>1, GivesUpFile
    <3>3. ~x.ok
      BY <2>12 DEF GaveUp
    <3> QED BY <2>3, <3>2, <3>3 DEF Makes
  <2>14. ASSUME y.ok, valid_name(name), ~Found(s, cwd, name) PROVE Makes(s, y, "directory", name)
    <3>1. d.ok /\ y = e /\ e.ok /\ Sound(d, {}) /\ Stored(a, d, f, TwoDots(f, cwd))
      BY <2>7, <2>8, <2>11, <2>14
    <3>2. ~Fail(d).ok
      BY <3>1, FailFiles
    <3>3. FileOf(d, cwd).type = "directory" /\ Stored(d, e, cwd, Append(FileOf(d, cwd).data, <<name, f>>))
      BY <2>8, <3>1, <3>2
    <3>4. NewEntry(s, e, f, Newborn("directory", f, cwd), name) /\ Touches(s, e) /\ e.touched \subseteq s.touched \cup {f, cwd}
      BY <1>1, <1>5, <1>7, <2>2, <2>4, <2>14, <3>1, <3>3, MadeDirectory
    <3> QED BY <2>3, <3>1, <3>4 DEF Makes
  <2>15. Makes(s, t, "directory", name)
    BY <1>4, <1>7, <2>13, <2>14, MakesNothing
  <2> QED BY <2>15 DEF t
<1> QED
  BY <1>6, <1>7

\* The name is gone from the current directory, and its file with it.
Dropped(s, t, i, name) ==
  LET cwd == s.current_directory
      k == Min(SlotsOf(FileOf(s, cwd).data, name)) IN
  /\ FileOf(s, cwd).type = "directory" /\ k \in SlotsOf(FileOf(s, cwd).data, name)
  /\ KeptFiles(s, t, {i, cwd}) /\ FileOf(t, i) = FreeFile
  /\ i # cwd => FileOf(t, cwd) = FileWith("directory", Cut(FileOf(s, cwd).data, k))
\* The calls that remove a file.
Removes(s, t, i, name) ==
  /\ Touches(s, t) /\ t.touched \subseteq s.touched \cup {i, s.current_directory}
  /\ s.fault.kind = "none" => CwdLost(s, t) \/ Dropped(s, t, i, name)

\* A call that is refused.
LEMMA RemovesNothing ==
  ASSUME NEW s, NEW E, Sound(s, E), NEW i, NEW name
  PROVE  Removes(s, Fail(s), i, name)
<1>1. /\ \A j : FileOf(Fail(s), j) = FileOf(s, j)
      /\ Fail(s).touched = s.touched /\ Fail(s).fault = s.fault
  BY FailFiles
<1>2. Touches(s, Fail(s)) /\ \A J : KeptFiles(s, Fail(s), J)
  BY <1>1, TouchesNone
<1>3. CwdLost(s, Fail(s))
  BY <1>1, <1>2 DEF CwdLost
<1> QED
  BY <1>1, <1>2, <1>3 DEF Removes

\* The entry is removed, then the inode.
LEMMA RemovesName ==
  ASSUME NEW s, Sound(s, {}), NEW name, NEW i \in s.inode_bitmap, i # SIMPLEFS_ROOT_INODE,
         NEW r, r = remove_entry_from_directory(s, s.current_directory, name),
         NEW x, x = release_inode(r, i)
  PROVE  Removes(s, IF r.ok THEN x ELSE r, i, name)
<1> DEFINE cwd == s.current_directory
           k == Min(SlotsOf(FileOf(s, cwd).data, name))
           data == Cut(FileOf(s, cwd).data, k)
<1>1. \/ r = Fail(s)
      \/ /\ FileOf(s, cwd).type = "directory" /\ k \in SlotsOf(FileOf(s, cwd).data, name)
         /\ Stored(s, r, cwd, data)
  BY CutsName
<1>2. Finished(s, r)
  BY RemovesEntry
<1>3. i \in r.inode_bitmap /\ (r.ok => Sound(r, {}))
  BY <1>2, EndsWell DEF Finished, SameTypes
<1>4. cwd \in Inodes /\ s.inode_table \in InodeTables /\ s.inode_bitmap \subseteq Inodes
  BY SoundFields
<1> HIDE DEF k, data
<1>5. CASE r = Fail(s)
  <2>1. ~r.ok
    BY <1>5, FailFiles
  <2> QED BY <1>5, <2>1, RemovesNothing
<1>6. CASE r # Fail(s)
  <2>1. /\ FileOf(s, cwd).type = "directory" /\ k \in SlotsOf(FileOf(s, cwd).data, name)
        /\ Stored(s, r, cwd, data)
    BY <1>1, <1>6
  <2>2. KeptFiles(s, r, {cwd}) /\ r.touched = s.touched \cup {cwd} /\ r.fault = s.fault /\ cwd \in s.inode_bitmap
    BY <2>1 DEF Stored
  <2>3. Touches(s, r)
    BY <2>2, TouchesOne
  <2>4. s.inode_table[cwd].type = "directory"
    BY <1>4, <2>1, <2>2, FileFacts
  <2>5. CASE ~r.ok
    <3>1. s.fault.kind = "none" => FileOf(r, cwd) = FileWith("directory", <<>>)
      BY <2>1, <2>4, <2>5 DEF Stored
    <3>2. s.fault.kind = "none" => CwdLost(s, r)
      BY <2>1, <2>2, <3>1 DEF CwdLost
    <3> QED BY <2>2, <2>3, <2>5, <3>2 DEF Removes
  <2>6. CASE r.ok
    <3>1. FileOf(r, cwd) = FileWith("directory", data)
      BY <2>1, <2>4, <2>6 DEF Stored
    <3>2. ReleasedFile(r, x, i)
      BY <1>3, <2>6, ReleasesFile
    <3>3. KeptFiles(r, x, {i}) /\ x.touched = r.touched \cup {i} /\ x.fault = r.fault /\ FileOf(x, i) = FreeFile
      BY <3>2 DEF ReleasedFile
    <3>4. Touches(s, x)
      <4>1. Touches(r, x)
        BY <3>3, TouchesOne
      <4> QED BY <2>3, <4>1, TouchesTransitive
    <3>5. KeptFiles(s, x, {i, cwd})
      BY <2>2, <3>3 DEF KeptFiles
    <3>6. i # cwd => FileOf(x, cwd) = FileWith("directory", data)
      BY <1>4, <3>1, <3>3 DEF KeptFiles
    <3>7. Dropped(s, x, i, name)
      BY <2>1, <3>3, <3>5, <3>6 DEF Dropped, data, k
    <3> QED BY <2>2, <2>6, <3>3, <3>4, <3>7 DEF Removes
  <2> QED BY <2>5, <2>6
<1> QED
  BY <1>5, <1>6

\* write_inode_table afterwards changes no file.
LEMMA RemovesThen ==
  ASSUME NEW s, NEW y, NEW i, NEW name, Removes(s, y, i, name), NEW E, Sound(y, E)
  PROVE  Removes(s, write_inode_table(y), i, name)
<1> DEFINE w == write_inode_table(y)
<1>1. (\A j : FileOf(w, j) = FileOf(y, j)) /\ w.touched = y.touched /\ w.fault = y.fault
  BY TableFiles
<1> HIDE DEF w
<1>2. Touches(y, w)
  BY <1>1, TouchesNone
<1>3. Touches(s, w)
  BY <1>2, TouchesTransitive DEF Removes
<1>4. (CwdLost(s, y) => CwdLost(s, w)) /\ (Dropped(s, y, i, name) => Dropped(s, w, i, name))
  BY <1>1 DEF CwdLost, Dropped, KeptFiles
<1> QED
  BY <1>1, <1>3, <1>4 DEF Removes, w

\* What delete and rmdir may remove.
Removable(s, i) ==
  /\ i \in Inodes /\ i # SIMPLEFS_ROOT_INODE
  /\ \/ FileOf(s, i).type = "regular" /\ ~inode_is_open(s, i)
     \/ FileOf(s, i).type = "directory" /\ \A k \in DOMAIN FileOf(s, i).data : FileOf(s, i).data[k][1] \in {".", ".."}
\* The file a name of the current directory stands for.
NamedFile(s, name) == FileOf(s, s.current_directory).data[Min(SlotsOf(FileOf(s, s.current_directory).data, name))][2]
\* The calls that remove the file of a name, or are refused.
RemovesFile(s, t, name) ==
  t = Fail(s) \/ (Removes(s, t, NamedFile(s, name), name) /\ Removable(s, NamedFile(s, name)))

\* find_entry_in_directory in terms of files.
LEMMA FindsName ==
  ASSUME NEW s, Sound(s, {}), NEW name, Found(s, s.current_directory, name)
  PROVE  /\ find_entry_in_directory(s, s.current_directory, name) = NamedFile(s, name)
         /\ FileOf(s, s.current_directory).type = "directory"
         /\ Min(SlotsOf(FileOf(s, s.current_directory).data, name)) \in SlotsOf(FileOf(s, s.current_directory).data, name)
<1> DEFINE cwd == s.current_directory
           entries == read_directory_entries(s, cwd)
<1>1. s.inode_table \in InodeTables /\ s.inode_bitmap \subseteq Inodes
  BY SoundFields
<1>2. SlotsOf(entries, name) # {} /\ entries = EntriesIn(FileOf(s, cwd)) /\ IsSequence(entries)
  BY <1>1, FileFacts, ReadsDirectory DEF Found
<1>3. find_entry_in_directory(s, cwd, name) = entries[Min(SlotsOf(entries, name))][2]
  BY DEF find_entry_in_directory
<1> HIDE DEF entries
<1>4. FileOf(s, cwd).type = "directory" /\ entries = FileOf(s, cwd).data
  <2>1. SlotsOf(<<>>, name) = {}
    BY DEF SlotsOf
  <2> QED BY <1>2, <2>1 DEF EntriesIn
<1>5. Min(SlotsOf(entries, name)) \in SlotsOf(entries, name)
  <2>1. PICK S : entries \in Seq(S)
    BY <1>2 DEF IsSequence
  <2>2. SlotsOf(entries, name) \in SUBSET Nat
    BY <2>1 DEF SlotsOf
  <2> QED BY <1>2, <2>2, FirstFit
<1> QED
  BY <1>3, <1>4, <1>5 DEF NamedFile

\* simplefs_delete, in terms of files.
LEMMA DeletesFile ==
  ASSUME NEW s, Sound(s, {}), NEW name
  PROVE  RemovesFile(s, simplefs_delete(s, name), name)
<1> DEFINE cwd == s.current_directory
           i == find_entry_in_directory(s, cwd, name)
           refused == \/ ~s.fs_mounted \/ ~Found(s, cwd, name)
                      \/ ~IsRegular(s, i) \/ inode_is_open(s, i)
           r == remove_entry_from_directory(s, cwd, name)
           x == release_inode(r, i)
           y == IF r.ok THEN x ELSE r
           t == simplefs_delete(s, name)
<1>1. t = IF refused THEN Fail(s) ELSE IF y.ok THEN write_inode_table(y) ELSE y
  BY DEF simplefs_delete, Then
<1>2. CASE refused
  <2>1. t = Fail(s)
    BY <1>1, <1>2
  <2> HIDE DEF t
  <2>2. RemovesFile(s, t, name)
    BY <2>1 DEF RemovesFile
  <2> QED BY <2>2 DEF t
<1>3. CASE ~refused
  <2>1. IsRegular(s, i) /\ ~inode_is_open(s, i) /\ Found(s, cwd, name)
    BY <1>3
  <2>2. t = IF y.ok THEN write_inode_table(y) ELSE y
    BY <1>1, <1>3
  <2>3. i = NamedFile(s, name)
    BY <2>1, FindsName
  <2>4. Finished(s, r)
    BY RemovesEntry
  <2>5. r = remove_entry_from_directory(s, cwd, name) /\ x = release_inode(r, i)
    OBVIOUS
  <2> HIDE DEF i, r, t
  <2>6. s.inode_table \in InodeTables /\ s.inode_bitmap \subseteq Inodes /\ Rooted(s)
    BY SoundFields
  <2>7. i \in s.inode_bitmap /\ i # SIMPLEFS_ROOT_INODE /\ i \in Inodes
    BY <2>1, <2>6 DEF IsRegular, Rooted
  <2>8. FileOf(s, i).type = "regular"
    BY <2>1, <2>6, FileFacts
  <2>9. Removable(s, i)
    BY <2>1, <2>7, <2>8 DEF Removable
  <2>10. Sound(r, Exc(r))
    BY <2>4, EndsWell DEF Finished
  <2>11. Sound(x, Exc(x))
    BY <2>10, OutcomeReleased DEF Outcome
  <2> HIDE DEF x
  <2>12. Removes(s, y, i, name)
    BY <2>5, <2>7, RemovesName
  <2>13. Sound(y, Exc(y))
    BY <2>10, <2>11
  <2> HIDE DEF y
  <2>14. Removes(s, write_inode_table(y), i, name)
    BY <2>12, <2>13, RemovesThen
  <2>15. Removes(s, t, i, name)
    BY <2>2, <2>12, <2>14
  <2> QED BY <2>3, <2>9, <2>15 DEF RemovesFile, t
<1> QED
  BY <1>2, <1>3

\* simplefs_remove_dir, in terms of files.
LEMMA DeletesDirectory ==
  ASSUME NEW s, Sound(s, {}), NEW name
  PROVE  RemovesFile(s, simplefs_remove_dir(s, name), name)
<1> DEFINE cwd == s.current_directory
           i == find_entry_in_directory(s, cwd, name)
           refused == \/ ~s.fs_mounted \/ ~Found(s, cwd, name)
                      \/ i = SIMPLEFS_ROOT_INODE \/ ~IsDirectory(s, i) \/ ~directory_is_empty(s, i)
           r == remove_entry_from_directory(s, cwd, name)
           x == release_inode(r, i)
           t == simplefs_remove_dir(s, name)
<1>1. t = IF refused THEN Fail(s) ELSE IF r.ok THEN x ELSE r
  BY DEF simplefs_remove_dir, Then
<1>2. CASE refused
  <2>1. t = Fail(s)
    BY <1>1, <1>2
  <2> HIDE DEF t
  <2>2. RemovesFile(s, t, name)
    BY <2>1 DEF RemovesFile
  <2> QED BY <2>2 DEF t
<1>3. CASE ~refused
  <2>1. IsDirectory(s, i) /\ directory_is_empty(s, i) /\ i # SIMPLEFS_ROOT_INODE /\ Found(s, cwd, name)
    BY <1>3
  <2>2. t = IF r.ok THEN x ELSE r
    BY <1>1, <1>3
  <2>3. i = NamedFile(s, name)
    BY <2>1, FindsName
  <2> HIDE DEF i
  <2>4. r = remove_entry_from_directory(s, cwd, name) /\ x = release_inode(r, i)
    OBVIOUS
  <2> HIDE DEF r, x, t
  <2>5. s.inode_table \in InodeTables /\ s.inode_bitmap \subseteq Inodes
    BY SoundFields
  <2>6. i \in s.inode_bitmap /\ i \in Inodes
    BY <2>1, <2>5 DEF IsDirectory
  <2>7. FileOf(s, i).type = "directory" /\ read_directory_entries(s, i) = FileOf(s, i).data
    BY <2>1, <2>5, FileFacts DEF EntriesIn
  <2>8. Removable(s, i)
    BY <2>1, <2>6, <2>7 DEF Removable, directory_is_empty
  <2>9. Removes(s, IF r.ok THEN x ELSE r, i, name)
    BY <2>1, <2>4, <2>6, RemovesName
  <2>10. Removes(s, t, i, name)
    BY <2>2, <2>9
  <2> QED BY <2>3, <2>8, <2>10 DEF RemovesFile, t
<1> QED
  BY <1>2, <1>3

\* The contents of a regular file were replaced, or lost as the disk is full.
Rewritten(s, t, i, data) ==
  /\ i \in Inodes /\ FileOf(s, i).type = "regular" /\ KeptFiles(s, t, {i})
  /\ FileOf(t, i) \in {FileWith("regular", data), FileWith("regular", <<>>)}
\* What write does to the file of a name, which it makes when it is not there.
Written(s, t, name, data) ==
  \/ CwdLost(s, t)
  \/ Found(s, s.current_directory, name) /\ Rewritten(s, t, NamedFile(s, name), data)
  \/ /\ ~Found(s, s.current_directory, name)
     /\ \E f, new : new \in {<<>>, data} /\ NewEntry(s, t, f, FileWith("regular", new), name)
\* The calls that write a file.
WritesName(s, t, name, data) ==
  /\ Touches(s, t) /\ \E f \in Inodes : t.touched \subseteq s.touched \cup {f, s.current_directory}
  /\ s.fault.kind = "none" => Written(s, t, name, data)

\* A call that leaves all files.
LEMMA WritesNothing ==
  ASSUME NEW s, NEW t, \A j : FileOf(t, j) = FileOf(s, j), t.touched = s.touched, t.fault = s.fault, NEW name, NEW data
  PROVE  WritesName(s, t, name, data)
<1>1. Touches(s, t) /\ \A J : KeptFiles(s, t, J)
  BY TouchesNone
<1>2. CwdLost(s, t)
  BY <1>1 DEF CwdLost
<1>3. SIMPLEFS_ROOT_INODE \in Inodes
  BY FsSizes
<1> QED
  BY <1>1, <1>2, <1>3 DEF WritesName, Written

\* The bytes are in the file, or it is what it was or empty.
BytesStored(s, t, i, data) ==
  /\ i \in Inodes /\ FileOf(s, i).type = "regular"
  /\ Touches(s, t) /\ t.touched \subseteq s.touched \cup {i} /\ KeptFiles(s, t, {i}) /\ t.fault = s.fault
  /\ t.ok => FileOf(t, i) = FileWith("regular", data)
  /\ s.fault.kind = "none" /\ ~t.ok => FileOf(t, i) \in {FileOf(s, i), FileWith("regular", <<>>)}

\* write_inode_data on a regular file.
LEMMA StoresBytes ==
  ASSUME NEW s, Sound(s, {}), NEW i, IsRegular(s, i), NEW data, IsSequence(data)
  PROVE  BytesStored(s, write_inode_data(s, i, data), i, data)
<1> DEFINE t == write_inode_data(s, i, data)
<1>1. s.inode_table \in InodeTables /\ s.inode_bitmap \subseteq Inodes
  BY SoundFields
<1>2. FileOf(s, i).type = "regular" /\ i \in Inodes /\ s.inode_table[i].type = "regular"
  BY <1>1, FileFacts DEF IsRegular
<1>3. t = Fail(s) \/ Stored(s, t, i, data)
  BY StoresData
<1> HIDE DEF t
<1>4. CASE t = Fail(s)
  <2>1. (\A j : FileOf(t, j) = FileOf(s, j)) /\ t.touched = s.touched /\ t.fault = s.fault /\ ~t.ok
    BY <1>4, FailFiles
  <2>2. Touches(s, t) /\ \A J : KeptFiles(s, t, J)
    BY <2>1, TouchesNone
  <2> QED BY <1>2, <2>1, <2>2 DEF BytesStored, t
<1>5. CASE Stored(s, t, i, data)
  <2>1. /\ KeptFiles(s, t, {i}) /\ t.touched = s.touched \cup {i} /\ t.fault = s.fault
        /\ t.ok => FileOf(t, i) = FileWith("regular", data)
        /\ s.fault.kind = "none" /\ ~t.ok => FileOf(t, i) = FileWith("regular", <<>>)
    BY <1>2, <1>5 DEF Stored
  <2>2. Touches(s, t)
    BY <2>1, TouchesOne
  <2> QED BY <1>2, <2>1, <2>2 DEF BytesStored, t
<1> QED
  BY <1>3, <1>4, <1>5

\* The last of some entries, and the only one with its name.
LEMMA LastName ==
  ASSUME NEW entries, IsSequence(entries), NEW name, SlotsOf(entries, name) = {}, NEW f
  PROVE  LET q == Append(entries, <<name, f>>) IN SlotsOf(q, name) # {} /\ q[Min(SlotsOf(q, name))][2] = f
<1> DEFINE q == Append(entries, <<name, f>>)
<1>1. PICK S : entries \in Seq(S)
  BY DEF IsSequence
<1>2. entries \in Seq(S \cup {<<name, f>>})
  BY <1>1, SeqMonotonic
<1>3. /\ DOMAIN q = 1 .. Len(entries) + 1 /\ Len(entries) \in Nat /\ DOMAIN entries = 1 .. Len(entries)
      /\ q[Len(entries) + 1] = <<name, f>> /\ \A k \in 1 .. Len(entries) : q[k] = entries[k]
  BY <1>2
<1> HIDE DEF q
<1>4. \A k \in 1 .. Len(entries) : entries[k][1] # name
  BY <1>3 DEF SlotsOf
<1>5. <<name, f>>[1] = name /\ <<name, f>>[2] = f
  OBVIOUS
<1>6. SlotsOf(q, name) = {Len(entries) + 1}
  <2>1. \A k \in DOMAIN q : q[k][1] = name <=> k = Len(entries) + 1
    BY <1>3, <1>4, <1>5
  <2>2. Len(entries) + 1 \in DOMAIN q
    BY <1>3
  <2> QED BY <2>1, <2>2 DEF SlotsOf
<1>7. Min(SlotsOf(q, name)) \in SlotsOf(q, name)
  <2>1. SlotsOf(q, name) \in SUBSET Nat /\ SlotsOf(q, name) # {}
    BY <1>3, <1>6
  <2> QED BY <2>1, FirstFit
<1> QED
  BY <1>3, <1>5, <1>6, <1>7 DEF q

\* After create the name stands for the new file.
LEMMA NamesCreated ==
  ASSUME NEW s, Sound(s, {}), NEW c, Sound(c, {}), c.current_directory = s.current_directory,
         NEW name, NEW f, NewEntry(s, c, f, FileWith("regular", <<>>), name), Found(c, c.current_directory, name)
  PROVE  /\ find_entry_in_directory(c, s.current_directory, name) = f /\ f # s.current_directory
         /\ FileOf(c, f) = FileWith("regular", <<>>)
<1> DEFINE cwd == s.current_directory
           old == FileOf(s, cwd).data
<1>1. f # cwd
  BY FileFields DEF NewEntry
<1>2. /\ FileOf(s, cwd).type = "directory" /\ FileOf(c, f) = FileWith("regular", <<>>) /\ ~Found(s, cwd, name)
      /\ FileOf(c, cwd) = FileWith("directory", Append(old, <<name, f>>))
  BY <1>1 DEF NewEntry
<1>3. s.inode_table \in InodeTables /\ s.inode_bitmap \subseteq Inodes
  BY SoundFields
<1>4. IsSequence(old) /\ SlotsOf(old, name) = {}
  BY <1>2, <1>3, FileFacts DEF Found, EntriesIn
<1> DEFINE q == Append(old, <<name, f>>)
<1>5. q[Min(SlotsOf(q, name))][2] = f
  <2> HIDE DEF old
  <2> QED BY <1>4, LastName
<1> HIDE DEF q
<1>6. NamedFile(c, name) = f
  <2>1. FileOf(c, cwd) = FileWith("directory", q)
    BY <1>2 DEF q
  <2>2. FileOf(c, cwd).data = q
    BY <2>1, FileFields
  <2> QED BY <1>5, <2>2 DEF NamedFile
<1>7. find_entry_in_directory(c, c.current_directory, name) = NamedFile(c, name)
  BY FindsName
<1> QED
  BY <1>1, <1>2, <1>6, <1>7

\* simplefs_write_file, in terms of files.
LEMMA WritesNamed ==
  ASSUME NEW s, Sound(s, {}), NEW name, NEW data, IsSequence(data)
  PROVE  WritesName(s, simplefs_write_file(s, name, data), name, data)
<1> DEFINE cwd == s.current_directory
           refused == ~s.fs_mounted \/ ~valid_name(name) \/ Len(data) > SIMPLEFS_MAX_FILE_SIZE
           c == simplefs_create(s, name)
           y == IF Found(s, cwd, name) THEN s ELSE c
           i == find_entry_in_directory(y, cwd, name)
           v == write_inode_data(y, i, data)
           w == IF NamesFile(y, name) THEN v ELSE Fail(y)
           t == simplefs_write_file(s, name, data)
<1>1. t = IF refused THEN Fail(s) ELSE IF y.ok THEN w ELSE y
  BY DEF simplefs_write_file, Then
<1>2. (\A j : FileOf(Fail(s), j) = FileOf(s, j)) /\ Fail(s).touched = s.touched /\ Fail(s).fault = s.fault
  BY FailFiles
<1>3. WritesName(s, Fail(s), name, data)
  BY <1>2, WritesNothing
<1>4. Outcome(s, c, {}) /\ (c.ok => Sound(c, {}))
  BY OutcomeCreate
<1>5. Makes(s, c, "regular", name)
  BY CreatesFile
<1>6. cwd \in Inodes
  BY SoundFields
<1> HIDE DEF c, t, refused
<1>7. CASE refused
  <2>1. t = Fail(s)
    BY <1>1, <1>7
  <2>2. WritesName(s, t, name, data)
    BY <1>3, <2>1
  <2> QED BY <2>2 DEF t
<1>8. CASE ~refused /\ Found(s, cwd, name)
  <2>1. y = s
    BY <1>8
  <2>2. t = w \/ t = s
    BY <1>1, <1>8, <2>1
  <2>3. WritesName(s, s, name, data)
    BY WritesNothing
  <2>4. CASE NamesFile(y, name)
    <3>1. IsRegular(s, i)
      BY <2>1, <2>4 DEF NamesFile
    <3>2. i = NamedFile(s, name)
      BY <1>8, <2>1, FindsName
    <3>3. v = write_inode_data(s, i, data)
      BY <2>1
    <3>4. w = v
      BY <2>4
    <3> HIDE DEF i, v
    <3>5. /\ i \in Inodes /\ FileOf(s, i).type = "regular"
          /\ Touches(s, v) /\ v.touched \subseteq s.touched \cup {i} /\ KeptFiles(s, v, {i}) /\ v.fault = s.fault
          /\ v.ok => FileOf(v, i) = FileWith("regular", data)
          /\ s.fault.kind = "none" /\ ~v.ok => FileOf(v, i) \in {FileOf(s, i), FileWith("regular", <<>>)}
      <4>1. BytesStored(s, v, i, data)
        BY <3>1, <3>3, StoresBytes
      <4> QED BY <4>1 DEF BytesStored
    <3>6. ASSUME s.fault.kind = "none" PROVE Written(s, v, name, data)
      <4>1. CASE FileOf(v, i) = FileOf(s, i)
        <5>1. CwdLost(s, v)
          BY <1>6, <3>5, <4>1 DEF CwdLost, KeptFiles
        <5> QED BY <5>1 DEF Written
      <4>2. CASE FileOf(v, i) # FileOf(s, i)
        <5>1. Rewritten(s, v, i, data)
          BY <3>5, <3>6, <4>2 DEF Rewritten
        <5> QED BY <1>8, <3>2, <5>1 DEF Written
      <4> QED BY <4>1, <4>2
    <3>7. WritesName(s, v, name, data)
      BY <3>5, <3>6 DEF WritesName
    <3>8. WritesName(s, t, name, data)
      BY <2>2, <2>3, <3>4, <3>7
    <3> QED BY <3>8 DEF t
  <2>5. CASE ~NamesFile(y, name)
    <3>1. t = Fail(s) \/ t = s
      BY <2>1, <2>2, <2>5
    <3>2. WritesName(s, t, name, data)
      BY <1>3, <2>3, <3>1
    <3> QED BY <3>2 DEF t
  <2> QED BY <2>4, <2>5
<1>9. CASE ~refused /\ ~Found(s, cwd, name)
  <2>1. y = c
    BY <1>9
  <2>2. t = IF c.ok THEN w ELSE c
    BY <1>1, <1>9, <2>1
  <2>3. PICK f \in Inodes : /\ c.touched \subseteq s.touched \cup {f, cwd}
                            /\ c.ok => NewEntry(s, c, f, FileWith("regular", <<>>), name)
    BY <1>5 DEF Makes, Newborn
  <2>4. Touches(s, c) /\ (~c.ok /\ s.fault.kind = "none" => CwdLost(s, c)) /\ c.fault = s.fault
    BY <1>5 DEF Makes, Touches
  <2>5. CASE ~c.ok
    <3>1. WritesName(s, c, name, data)
      BY <2>3, <2>4, <2>5 DEF WritesName, Written
    <3>2. WritesName(s, t, name, data)
      BY <2>2, <2>5, <3>1
    <3> QED BY <3>2 DEF t
  <2>6. CASE c.ok
    <3>1. Sound(c, {}) /\ NewEntry(s, c, f, FileWith("regular", <<>>), name) /\ c.current_directory = cwd /\ t = w
      BY <1>4, <2>2, <2>3, <2>6 DEF Outcome, Changes, SameCaller
    <3>2. CASE NamesFile(y, name)
      <4>1. Found(c, c.current_directory, name) /\ IsRegular(c, find_entry_in_directory(c, c.current_directory, name))
        BY <2>1, <3>2 DEF NamesFile
      <4>2. i = f /\ f # cwd /\ FileOf(c, f) = FileWith("regular", <<>>)
        BY <2>1, <3>1, <4>1, NamesCreated
      <4>3. IsRegular(c, f)
        BY <2>1, <3>1, <4>1, <4>2
      <4>4. v = write_inode_data(c, f, data)
        BY <2>1, <4>2
      <4>5. t = v
        BY <3>1, <3>2
      <4> HIDE DEF v, w, i
      <4>6. /\ Touches(c, v) /\ v.touched \subseteq c.touched \cup {f} /\ KeptFiles(c, v, {f})
            /\ v.ok => FileOf(v, f) = FileWith("regular", data)
            /\ s.fault.kind = "none" /\ ~v.ok => FileOf(v, f) \in {FileOf(c, f), FileWith("regular", <<>>)}
        <5>1. BytesStored(c, v, f, data)
          BY <3>1, <4>3, <4>4, StoresBytes
        <5> QED BY <2>4, <5>1 DEF BytesStored
      <4>7. Touches(s, v) /\ v.touched \subseteq s.touched \cup {f, cwd}
        BY <2>3, <2>4, <4>6, TouchesTransitive
      <4>8. ASSUME s.fault.kind = "none" PROVE Written(s, v, name, data)
        <5>1. PICK new \in {<<>>, data} : FileOf(v, f) = FileWith("regular", new)
          BY <4>2, <4>6, <4>8
        <5>2. KeptFiles(s, v, {f, cwd}) /\ FileOf(v, cwd) = FileOf(c, cwd)
          BY <1>6, <3>1, <4>2, <4>6 DEF KeptFiles, NewEntry
        <5>3. NewEntry(s, v, f, FileWith("regular", new), name)
          BY <3>1, <4>2, <5>1, <5>2 DEF NewEntry
        <5> QED BY <1>9, <5>1, <5>3 DEF Written
      <4>9. WritesName(s, v, name, data)
        BY <4>7, <4>8 DEF WritesName
      <4>10. WritesName(s, t, name, data)
        BY <4>5, <4>9
      <4> QED BY <4>10 DEF t
    <3>3. CASE ~NamesFile(y, name)
      <4>1. t = Fail(c)
        BY <2>1, <3>1, <3>3
      <4>2. (\A j : FileOf(t, j) = FileOf(c, j)) /\ t.touched = c.touched /\ t.fault = c.fault
        BY <3>1, <4>1, FailFiles
      <4>3. Touches(c, t)
        BY <4>2, TouchesNone
      <4>4. Touches(s, t) /\ t.touched \subseteq s.touched \cup {f, cwd}
        BY <2>3, <2>4, <4>2, <4>3, TouchesTransitive
      <4>5. NewEntry(s, t, f, FileWith("regular", <<>>), name)
        BY <3>1, <4>2 DEF NewEntry, KeptFiles
      <4>6. Written(s, t, name, data)
        BY <1>9, <4>5 DEF Written
      <4>7. WritesName(s, t, name, data)
        BY <4>4, <4>6 DEF WritesName
      <4> QED BY <4>7 DEF t
    <3> QED BY <3>2, <3>3
  <2> QED BY <2>5, <2>6
<1> QED
  BY <1>7, <1>8, <1>9

\* What append writes: the contents there were, and the new ones behind them.
Extended(s, name, data) ==
  IF Found(s, s.current_directory, name) THEN FileOf(s, NamedFile(s, name)).data \o data ELSE data

\* simplefs_append_file, in terms of files.
LEMMA AppendsNamed ==
  ASSUME NEW s, Sound(s, {}), s.ok, s.out = <<>>, NEW name, NEW data, IsSequence(data)
  PROVE  WritesName(s, simplefs_append_file(s, name, data), name, Extended(s, name, data))
<1> DEFINE cwd == s.current_directory
           i == find_entry_in_directory(s, cwd, name)
           bytes == read_inode_bytes(s, i, 0, SIMPLEFS_MAX_FILE_SIZE)
           read == [s EXCEPT !.out = bytes]
           r == IF Found(s, cwd, name) THEN (IF NamesFile(s, name) THEN read ELSE Fail(s)) ELSE s
           large == Len(r.out) + Len(data) > SIMPLEFS_MAX_FILE_SIZE
           w == simplefs_write_file(s, name, r.out \o data)
           t == simplefs_append_file(s, name, data)
           all == Extended(s, name, data)
<1>1. t = IF r.ok THEN (IF large THEN Fail(s) ELSE [w EXCEPT !.out = <<>>]) ELSE r
  BY DEF simplefs_append_file, simplefs_read_file, Then
<1>2. /\ (\A j : FileOf(Fail(s), j) = FileOf(s, j)) /\ Fail(s).touched = s.touched /\ Fail(s).fault = s.fault
      /\ ~Fail(s).ok
  BY FailFiles
<1>3. WritesName(s, Fail(s), name, all)
  BY <1>2, WritesNothing
<1>4. PICK V : s \in FsStates(V)
  BY DEF Sound, Good
<1>5. s.inode_table \in InodeTables /\ s.inode_bitmap \subseteq Inodes
  BY SoundFields
<1>6. NamesFile(s, name) => /\ Found(s, cwd, name) /\ i = NamedFile(s, name)
                            /\ bytes = FileOf(s, i).data /\ IsSequence(bytes)
  <2>1. NamesFile(s, name) => Found(s, cwd, name) /\ IsRegular(s, i)
    BY DEF NamesFile
  <2> HIDE DEF i
  <2>2. IsRegular(s, i) => bytes = FileOf(s, i).data /\ IsSequence(FileOf(s, i).data)
    BY <1>5, FileFacts
  <2>3. Found(s, cwd, name) => i = NamedFile(s, name)
    BY FindsName DEF i
  <2> QED BY <2>1, <2>2, <2>3
<1> HIDE DEF bytes
<1>7. read.out = bytes /\ read.ok = s.ok
  BY <1>4 DEF FsStates
<1> HIDE DEF read
<1>8. (r.ok => r.out \o data = all /\ IsSequence(all)) /\ (~r.ok => r = Fail(s))
  <2>1. CASE Found(s, cwd, name) /\ NamesFile(s, name)
    <3>1. r = read
      BY <2>1
    <3>2. all = bytes \o data
      BY <1>6, <2>1 DEF Extended
    <3>3. IsSequence(bytes \o data)
      BY <1>6, <2>1, SequenceJoined
    <3> QED BY <1>7, <3>1, <3>2, <3>3
  <2>2. CASE Found(s, cwd, name) /\ ~NamesFile(s, name)
    <3>1. r = Fail(s)
      BY <2>2
    <3> QED BY <1>2, <3>1
  <2>3. CASE ~Found(s, cwd, name)
    <3>1. r = s
      BY <2>3
    <3>2. all = data
      BY <2>3 DEF Extended
    <3>3. <<>> \o data = data
      <4>1. PICK S : data \in Seq(S)
        BY DEF IsSequence
      <4> QED BY <4>1, ConcatEmptySeq
    <3> QED BY <3>1, <3>2, <3>3
  <2> QED BY <2>1, <2>2, <2>3
<1> HIDE DEF r, large, i, all
<1>9. ASSUME r.ok PROVE WritesName(s, w, name, all) /\ [w EXCEPT !.out = <<>>] = w
  <2>1. w = simplefs_write_file(s, name, all) /\ IsSequence(all)
    BY <1>8, <1>9
  <2>2. Outcome(s, w, {}) /\ WritesName(s, w, name, all)
    BY <2>1, OutcomeWriteFile, WritesNamed
  <2> HIDE DEF w
  <2>3. w.out = <<>>
    BY <2>2 DEF Outcome, Changes, SameCaller
  <2>4. PICK W : w \in FsStates(W)
    BY <2>2 DEF Outcome, Sound, Good
  <2>5. [w EXCEPT !.out = <<>>] = w
    BY <2>3, <2>4 DEF FsStates
  <2> QED BY <2>2, <2>5
<1> HIDE DEF w, t
<1>10. WritesName(s, t, name, all)
  <2>1. CASE ~r.ok
    BY <1>1, <1>3, <1>8, <2>1
  <2>2. CASE r.ok /\ large
    BY <1>1, <1>3, <2>2
  <2>3. CASE r.ok /\ ~large
    <3>1. t = w
      BY <1>1, <1>9, <2>3
    <3> QED BY <1>9, <2>3, <3>1
  <2> QED BY <2>1, <2>2, <2>3
<1> QED BY <1>10 DEF t, all

\* What a call on a descriptor leaves of the files and of the caller.
SameView(s, t) ==
  (\A j : FileOf(t, j) = FileOf(s, j)) /\ t.current_directory = s.current_directory /\ t.open_files = s.open_files

\* What write on a descriptor does.
FdWritten(s, t, fd, data) ==
  LET f == s.open_files[fd]
      i == f.inode_index IN
  /\ t.current_directory = s.current_directory
  /\ \/ SameView(s, t)
     \/ t.open_files = s.open_files /\ Rewritten(s, t, i, <<>>)
     \/ /\ f.used /\ i \in Inodes /\ FileOf(s, i).type = "regular" /\ KeptFiles(s, t, {i})
        /\ FileOf(t, i) = FileWith("regular", Overwritten(FileOf(s, i).data, f.offset, data))
        /\ t.open_files = [s.open_files EXCEPT ![fd] = At(f, f.offset + Len(data))]

\* The table of open files is not part of the files.
LEMMA DescribedFiles ==
  ASSUME NEW V, NEW s \in FsStates(V), NEW fd \in Fds, NEW f, NEW out
  PROVE  LET t == Described(s, fd, f, out) IN
         /\ \A j : FileOf(t, j) = FileOf(s, j)
         /\ t.current_directory = s.current_directory /\ t.open_files = [s.open_files EXCEPT ![fd] = f]
<1> DEFINE t == Described(s, fd, f, out)
           tab == [s.open_files EXCEPT ![fd] = f]
<1>1. t = [s EXCEPT !.open_files = tab, !.out = out]
  BY DEF Described
<1> HIDE DEF tab, t
<1>2. /\ t.inode_bitmap = s.inode_bitmap /\ t.inode_table = s.inode_table /\ t.disk = s.disk
      /\ t.current_directory = s.current_directory /\ t.open_files = tab
  BY <1>1 DEF FsStates
<1>3. \A j : FileOf(t, j) = FileOf(s, j)
  BY <1>2, SameFiles
<1> QED BY <1>2, <1>3 DEF t, tab

\* A refusal, as the caller sees it.
LEMMA FailView ==
  ASSUME NEW s, NEW E, Sound(s, E)
  PROVE  SameView(s, Fail(s))
BY FailFiles DEF SameView, SameCaller

\* simplefs_write_fd, in terms of files.
LEMMA WritesDescriptor ==
  ASSUME NEW s, Ready(s), s.fault.kind = "none", NEW fd \in Fds, NEW data, IsSequence(data)
  PROVE  FdWritten(s, simplefs_write_fd(s, fd, data), fd, data)
<1> DEFINE f == s.open_files[fd]
           i == f.inode_index
           old == read_inode_bytes(s, i, 0, SIMPLEFS_MAX_FILE_SIZE)
           new == Overwritten(FileOf(s, i).data, f.offset, data)
           w == write_inode_data(s, i, new)
           offset == f.offset + Len(data)
           x == Shifted(w, fd, offset)
           refused == \/ ~s.fs_mounted \/ ~f.used
                      \/ offset > SIMPLEFS_MAX_FILE_SIZE \/ i \notin s.inode_bitmap
           v == write_inode_data(s, i, Overwritten(old, f.offset, data))
           t == simplefs_write_fd(s, fd, data)
<1>1. t = IF refused THEN Fail(s) ELSE IF v.ok THEN Shifted(v, fd, offset) ELSE v
  BY DEF simplefs_write_fd, Then, Shifted
<1>2. PICK V : s \in FsStates(V)
  BY ReadyFields
<1>3. f.offset \in 0 .. SIMPLEFS_MAX_FILE_SIZE
  BY <1>2, EntryAt
<1>4. Sound(s, {}) /\ s.inode_table \in InodeTables /\ s.inode_bitmap \subseteq Inodes
  BY ReadyFields
<1>5. CASE refused
  <2>1. t = Fail(s)
    BY <1>1, <1>5
  <2> HIDE DEF t
  <2>2. SameView(s, t)
    BY <1>4, <2>1, FailView
  <2> QED BY <2>2 DEF FdWritten, SameView, t
<1>6. CASE ~refused
  <2>1. f.used /\ IsRegular(s, i)
    BY <1>6 DEF Ready, AliveIn
  <2>2. old = FileOf(s, i).data /\ IsSequence(FileOf(s, i).data)
    BY <1>4, <2>1, FileFacts
  <2>3. t = IF w.ok THEN x ELSE w
    BY <1>1, <1>6, <2>2
  <2> HIDE DEF t
  <2>4. f.offset \in Nat
    BY <1>3, NoPointers
  <2>5. IsSequence(new)
    BY <2>2, <2>4, OverwritesSequence
  <2> HIDE DEF new, f
  <2>6. BytesStored(s, w, i, new)
    BY <1>4, <2>1, <2>5, StoresBytes
  <2>7. Finished(s, w)
    BY <1>4, <2>5, SequenceLength, WritesInode
  <2> HIDE DEF w
  <2>8. SameCaller(s, w) /\ \E W : w \in FsStates(W)
    BY <2>7 DEF Finished, Changes, Sound, Good
  <2>9. w.current_directory = s.current_directory /\ w.open_files = s.open_files
    BY <2>8 DEF SameCaller
  <2>10. CASE ~w.ok
    <3>1. i \in Inodes /\ FileOf(s, i).type = "regular" /\ KeptFiles(s, w, {i})
          /\ FileOf(w, i) \in {FileOf(s, i), FileWith("regular", <<>>)}
      BY <2>6, <2>10 DEF BytesStored
    <3>2. t = w
      BY <2>3, <2>10
    <3>3. CASE FileOf(w, i) = FileWith("regular", <<>>)
      <4>1. Rewritten(s, w, i, <<>>)
        BY <3>1, <3>3 DEF Rewritten
      <4> QED BY <2>9, <3>2, <4>1 DEF FdWritten, t, f
    <3>4. CASE FileOf(w, i) = FileOf(s, i)
      <4>1. \A j \in Inodes : FileOf(w, j) = FileOf(s, j)
        BY <3>1, <3>4 DEF KeptFiles
      <4>2. ASSUME NEW j PROVE FileOf(w, j) = FileOf(s, j)
        <5>1. CASE j \in Inodes
          BY <4>1, <5>1
        <5>2. CASE j \notin Inodes
          <6>1. j \notin s.inode_bitmap /\ j \notin w.inode_bitmap
            BY <1>4, <2>7, <5>2 DEF Finished, SameTypes
          <6> QED BY <6>1, FileUsed
        <5> QED BY <5>1, <5>2
      <4>3. SameView(s, w)
        BY <2>9, <4>2 DEF SameView
      <4> QED BY <2>9, <3>2, <4>3 DEF FdWritten, t
    <3> QED BY <3>1, <3>3, <3>4
  <2>11. CASE w.ok
    <3>1. i \in Inodes /\ FileOf(s, i).type = "regular" /\ KeptFiles(s, w, {i}) /\ FileOf(w, i) = FileWith("regular", new)
      BY <2>6, <2>11 DEF BytesStored
    <3>2. PICK W : w \in FsStates(W)
      BY <2>8
    <3>3. x = Described(w, fd, At(f, offset), w.out)
      BY <2>9, <3>2, EntryShifted DEF f
    <3> HIDE DEF x
    <3>4. /\ \A j : FileOf(x, j) = FileOf(w, j)
          /\ x.current_directory = w.current_directory /\ x.open_files = [w.open_files EXCEPT ![fd] = At(f, offset)]
      BY <3>2, <3>3, DescribedFiles
    <3>5. t = x
      BY <2>3, <2>11
    <3>6. KeptFiles(s, x, {i})
      BY <3>1, <3>4 DEF KeptFiles
    <3>7. FileOf(x, i) = FileWith("regular", new)
      BY <3>1, <3>4
    <3> QED BY <2>1, <2>9, <3>1, <3>4, <3>5, <3>6, <3>7 DEF FdWritten, t, f, new
  <2> QED BY <2>10, <2>11
<1> QED
  BY <1>5, <1>6

\* What the calls that open, close, read and seek do: at most one descriptor changes.
FdMoved(s, t) ==
  \/ SameView(s, t)
  \/ /\ \A j : FileOf(t, j) = FileOf(s, j)
     /\ t.current_directory = s.current_directory
     /\ \E fd \in Fds, f \in OpenFiles :
          /\ t.open_files = [s.open_files EXCEPT ![fd] = f]
          /\ f.used => /\ FileOf(s, f.inode_index).type = "regular" /\ f.inode_index \in Inodes
                       /\ \/ s.open_files[fd].used /\ f.inode_index = s.open_files[fd].inode_index
                          \/ ~s.open_files[fd].used /\ f.offset = 0

\* One entry of the table is changed.
LEMMA MovesDescriptor ==
  ASSUME NEW s, Ready(s), NEW fd \in Fds, NEW f \in OpenFiles, NEW out,
         f.used => /\ IsRegular(s, f.inode_index)
                   /\ \/ s.open_files[fd].used /\ f.inode_index = s.open_files[fd].inode_index
                      \/ ~s.open_files[fd].used /\ f.offset = 0
  PROVE  FdMoved(s, Described(s, fd, f, out))
<1> DEFINE t == Described(s, fd, f, out)
<1>1. PICK V : s \in FsStates(V)
  BY ReadyFields
<1>2. /\ \A j : FileOf(t, j) = FileOf(s, j)
      /\ t.current_directory = s.current_directory /\ t.open_files = [s.open_files EXCEPT ![fd] = f]
  BY <1>1, DescribedFiles
<1> HIDE DEF t
<1>3. f.used => FileOf(s, f.inode_index).type = "regular" /\ f.inode_index \in Inodes
  BY ReadyFields, FileFacts
<1> QED BY <1>2, <1>3 DEF FdMoved, t

\* A refusal.
LEMMA MovesNothing ==
  ASSUME NEW s, Ready(s)
  PROVE  FdMoved(s, Fail(s))
<1>1. SameView(s, Fail(s))
  BY FailView DEF Ready
<1> QED BY <1>1 DEF FdMoved

\* simplefs_open, in terms of files.
LEMMA OpensFile ==
  ASSUME NEW s, Ready(s), NEW name
  PROVE  FdMoved(s, simplefs_open(s, name))
<1> DEFINE free == {fd \in Fds : ~s.open_files[fd].used}
           i == find_entry_in_directory(s, s.current_directory, name)
           f == [used |-> TRUE, inode_index |-> i, offset |-> 0]
           x == Entry(s, Min(free), f)
           refused == ~NamesFile(s, name) \/ free = {}
           t == simplefs_open(s, name)
<1>1. t = IF refused THEN Fail(s) ELSE x
  BY DEF simplefs_open, Entry
<1>2. NamesFile(s, name) => IsRegular(s, i)
  BY DEF NamesFile
<1> HIDE DEF i, t
<1>3. ASSUME ~refused PROVE FdMoved(s, x)
  <2>1. IsRegular(s, i) /\ i \in Inodes /\ free # {} /\ free \subseteq Fds
    BY <1>2, <1>3, ReadyFields
  <2>2. Fds \subseteq Nat
    BY SimpleFsAssumption DEF Fds
  <2>3. Min(free) \in free
    <3> HIDE DEF free
    <3> QED BY <2>1, <2>2, FirstFit
  <2>4. Min(free) \in Fds /\ ~s.open_files[Min(free)].used
    BY <2>3
  <2> HIDE DEF free
  <2>5. PICK V : s \in FsStates(V)
    BY ReadyFields
  <2>6. f \in OpenFiles /\ f.inode_index = i /\ f.offset = 0
    BY <2>1, NoPointers DEF OpenFiles
  <2> HIDE DEF f
  <2>7. x = Described(s, Min(free), f, s.out)
    BY <2>4, <2>5, EntrySet
  <2> HIDE DEF x
  <2> QED BY <2>1, <2>4, <2>6, <2>7, MovesDescriptor
<1>4. FdMoved(s, Fail(s))
  BY MovesNothing
<1> HIDE DEF x, refused
<1>5. FdMoved(s, t)
  BY <1>1, <1>3, <1>4
<1> QED BY <1>5 DEF t

\* simplefs_close, in terms of files.
LEMMA ClosesFile ==
  ASSUME NEW s, Ready(s), NEW fd \in Fds
  PROVE  FdMoved(s, simplefs_close(s, fd))
<1> DEFINE f == [used |-> FALSE, inode_index |-> INVALID, offset |-> 0]
           x == Entry(s, fd, f)
           t == simplefs_close(s, fd)
<1>1. reset_open_files[fd] = f
  BY DEF reset_open_files
<1>2. t = IF ~s.open_files[fd].used THEN Fail(s) ELSE x
  BY <1>1 DEF simplefs_close, Entry
<1>3. PICK V : s \in FsStates(V)
  BY ReadyFields
<1>4. f \in OpenFiles /\ ~f.used
  BY NoPointers DEF OpenFiles
<1> HIDE DEF f, t
<1>5. x = Described(s, fd, f, s.out)
  BY <1>3, EntrySet
<1> HIDE DEF x
<1>6. FdMoved(s, x)
  BY <1>4, <1>5, MovesDescriptor
<1>7. FdMoved(s, t)
  BY <1>2, <1>6, MovesNothing
<1> QED BY <1>7 DEF t

\* An offset within the bounds.
LEMMA MovesOffset ==
  ASSUME NEW s, Ready(s), NEW fd \in Fds, s.open_files[fd].used, NEW offset \in 0 .. SIMPLEFS_MAX_FILE_SIZE, NEW out
  PROVE  FdMoved(s, ShiftedRead(s, fd, offset, out)) /\ FdMoved(s, Shifted(s, fd, offset))
<1> DEFINE f == s.open_files[fd]
           g == At(f, offset)
<1>1. PICK V : s \in FsStates(V)
  BY ReadyFields
<1>2. g \in OpenFiles /\ g.used = f.used /\ g.inode_index = f.inode_index
  BY <1>1, EntryAt
<1>3. /\ ShiftedRead(s, fd, offset, out) = Described(s, fd, g, out)
      /\ Shifted(s, fd, offset) = Described(s, fd, g, s.out)
  BY <1>1, EntryShifted
<1>4. IsRegular(s, f.inode_index)
  BY DEF Ready, AliveIn
<1> HIDE DEF g
<1>5. FdMoved(s, Described(s, fd, g, out)) /\ FdMoved(s, Described(s, fd, g, s.out))
  BY <1>2, <1>4, MovesDescriptor
<1> QED BY <1>3, <1>5

\* simplefs_read_fd and simplefs_seek, in terms of files.
LEMMA ReadsAndSeeks ==
  ASSUME NEW s, Ready(s), NEW fd \in Fds, NEW to \in Nat
  PROVE  FdMoved(s, simplefs_read_fd(s, fd)) /\ FdMoved(s, simplefs_seek(s, fd, to))
<1> DEFINE f == s.open_files[fd]
           bytes == read_inode_bytes(s, f.inode_index, f.offset, SIMPLEFS_MAX_FILE_SIZE)
           offset == f.offset + Len(bytes)
           x == ShiftedRead(s, fd, offset, bytes)
           y == Shifted(s, fd, to)
           missing == ~s.fs_mounted \/ ~f.used \/ f.inode_index \notin s.inode_bitmap
           refused == missing \/ to > s.inode_table[f.inode_index].size
           t == simplefs_read_fd(s, fd)
           u == simplefs_seek(s, fd, to)
<1>1. t = IF missing THEN Fail(s) ELSE x
  BY DEF simplefs_read_fd, ShiftedRead
<1>2. u = IF refused THEN Fail(s) ELSE y
  BY DEF simplefs_seek, Shifted
<1>3. PICK V : s \in FsStates(V)
  BY ReadyFields
<1>4. f.used \in BOOLEAN /\ f.inode_index \in Inodes \cup {INVALID} /\ f.offset \in 0 .. SIMPLEFS_MAX_FILE_SIZE
  BY <1>3, EntryAt
<1>5. ASSUME ~missing
      PROVE  /\ f.inode_index \in Inodes /\ s.inode_table \in InodeTables
             /\ s.inode_table[f.inode_index].size \in Nat /\ SIMPLEFS_MAX_FILE_SIZE \in Nat /\ f.offset \in Nat
             /\ s.inode_table[f.inode_index].size <= SIMPLEFS_MAX_FILE_SIZE
  <2>1. f.used /\ IsRegular(s, f.inode_index)
    BY <1>5 DEF Ready, AliveIn
  <2> QED BY <1>4, <2>1, ReadyFields, NoPointers
<1>6. ASSUME ~missing PROVE FdMoved(s, x)
  <2>1. Len(bytes) \in Nat /\ (Len(bytes) = 0 \/ f.offset + Len(bytes) <= s.inode_table[f.inode_index].size)
    BY <1>5, <1>6, ReadsInode
  <2> HIDE DEF bytes
  <2>2. offset \in 0 .. SIMPLEFS_MAX_FILE_SIZE
    BY <1>4, <1>5, <1>6, <2>1
  <2> HIDE DEF offset
  <2> QED BY <1>6, <2>2, MovesOffset
<1>7. ASSUME ~refused PROVE FdMoved(s, y)
  <2>1. to \in 0 .. SIMPLEFS_MAX_FILE_SIZE /\ f.used
    BY <1>5, <1>7
  <2> QED BY <2>1, MovesOffset
<1>8. FdMoved(s, Fail(s))
  BY MovesNothing
<1> HIDE DEF x, y, missing, refused, t, u
<1>9. FdMoved(s, t) /\ FdMoved(s, u)
  BY <1>1, <1>2, <1>6, <1>7, <1>8
<1> QED BY <1>9 DEF t, u

\* What change_dir does.
DirChanged(s, t, name) ==
  \/ SameView(s, t)
  \/ /\ \A j : FileOf(t, j) = FileOf(s, j)
     /\ t.open_files = s.open_files
     /\ \/ t.current_directory = SIMPLEFS_ROOT_INODE
        \/ /\ Found(s, s.current_directory, name) /\ t.current_directory = NamedFile(s, name) /\ name # "/"
           /\ t.current_directory \in Inodes /\ FileOf(s, t.current_directory).type = "directory"

\* simplefs_change_dir, in terms of files.
LEMMA ChangesDirectory ==
  ASSUME NEW s, Ready(s), NEW name
  PROVE  DirChanged(s, simplefs_change_dir(s, name), name)
<1> DEFINE cwd == s.current_directory
           i == find_entry_in_directory(s, cwd, name)
           x(d) == [s EXCEPT !.current_directory = d]
           t == simplefs_change_dir(s, name)
<1>1. \/ t = Fail(s) \/ t = x(SIMPLEFS_ROOT_INODE)
      \/ Found(s, cwd, name) /\ name # "/" /\ IsDirectory(s, i) /\ t = x(i)
  BY DEF simplefs_change_dir
<1>2. Sound(s, {}) /\ s.inode_table \in InodeTables /\ s.inode_bitmap \subseteq Inodes
  BY ReadyFields
<1>3. IsDirectory(s, i) => i \in Inodes /\ FileOf(s, i).type = "directory"
  BY <1>2, FileFacts DEF IsDirectory
<1>4. Found(s, cwd, name) => i = NamedFile(s, name)
  BY <1>2, FindsName
<1>5. PICK V : s \in FsStates(V)
  BY ReadyFields
<1> HIDE DEF i, t
<1>6. ASSUME NEW d PROVE /\ \A j : FileOf(x(d), j) = FileOf(s, j)
                         /\ x(d).open_files = s.open_files /\ x(d).current_directory = d
  <2>1. /\ x(d).inode_bitmap = s.inode_bitmap /\ x(d).inode_table = s.inode_table /\ x(d).disk = s.disk
        /\ x(d).open_files = s.open_files /\ x(d).current_directory = d
    BY <1>5 DEF FsStates
  <2> HIDE DEF x
  <2> QED BY <2>1, SameFiles
<1>7. SameView(s, Fail(s))
  BY <1>2, FailView
<1> HIDE DEF x
<1>8. CASE t = Fail(s)
  BY <1>7, <1>8 DEF DirChanged, t
<1>9. CASE t = x(SIMPLEFS_ROOT_INODE)
  BY <1>6, <1>9 DEF DirChanged, t
<1>10. CASE Found(s, cwd, name) /\ name # "/" /\ IsDirectory(s, i) /\ t = x(i)
  BY <1>3, <1>4, <1>6, <1>10 DEF DirChanged, t
<1> QED BY <1>1, <1>8, <1>9, <1>10

\* What mkfs does to the files and to the caller.
Formatted(s, t) ==
  LET root == SIMPLEFS_ROOT_INODE
      fresh == t.current_directory = root /\ \A fd \in Fds : ~t.open_files[fd].used IN
  /\ s.fault.kind = "none" =>
       /\ fresh /\ FileOf(t, root) = FileWith("directory", TwoDots(root, root))
       /\ \A j \in Inodes \ {root} : FileOf(t, j) = FreeFile
  /\ fresh \/ (t.current_directory = s.current_directory /\ t.open_files = s.open_files)

\* simplefs_format, in terms of files.
LEMMA FormatsFiles ==
  ASSUME NEW V, NEW s \in FsStates(V)
  PROVE  Formatted(s, simplefs_format(s))
<1> DEFINE i == SIMPLEFS_ROOT_INODE
           b == Blanked(s)
           p == write_boot_block(b)
           m == write_metadata(p)
           y == IF p.ok THEN m ELSE p
           d == init_directory_file(m, i, i)
           u == IF y.ok THEN init_directory_file(y, i, i) ELSE y
           x == Mounted(d)
           t == simplefs_format(s)
<1>1. t = IF u.ok THEN Mounted(u) ELSE u
  BY DEF simplefs_format, Then, Blanked, Mounted
<1>2. /\ Good(V, b, NoTables, {}) /\ SameCaller(s, b) /\ b.touched = Inodes
      /\ b.data_bitmap = {} /\ b.inode_table[i] = NewInode("directory")
  BY BlankSound
<1>3. b.inode_bitmap = {i}
  <2> DEFINE tab == [j \in Inodes |-> NewInode(IF j = SIMPLEFS_ROOT_INODE THEN "directory" ELSE "free")]
             bm == {i}
  <2>1. b = [s EXCEPT !.inode_bitmap = bm, !.data_bitmap = {}, !.touched = Inodes, !.inode_table = tab]
    BY DEF Blanked
  <2> HIDE DEF tab, b, bm
  <2>2. b.inode_bitmap = bm
    BY <2>1 DEF FsStates
  <2> QED BY <2>2 DEF bm
<1> HIDE DEF b
<1>4. Good(V, p, NoTables, {}) /\ SameMemory(b, p) /\ (b.fault.kind = "none" => p.ok)
  BY <1>2, WritesBoot
<1> HIDE DEF p
<1>5. m \in FsStates(V) /\ MetaWritten(p, m) /\ (p.fault.kind = "none" => m.ok)
  BY <1>4, WritesMetadata DEF Good
<1> HIDE DEF m
<1>6. Good(V, m, NoTables, {})
  BY <1>4, <1>5, GoodMeta
<1>7. /\ SameCaller(s, p) /\ SameCaller(s, m) /\ m.inode_bitmap = {i}
      /\ m.data_bitmap = {} /\ m.inode_table[i] = NewInode("directory") /\ b.fault = s.fault /\ p.fault = s.fault /\ m.fault = s.fault
  BY <1>2, <1>3, <1>4, <1>5 DEF MetaWritten, SameMemory, SameTables, SameCaller, SameScratch
<1>8. Sound(m, {})
  BY <1>6 DEF Sound
<1>9. Finished(m, d)
  BY <1>8, StartsDirectory
<1>10. m.fault.kind = "none" => d.ok
  BY <1>6, <1>7, RootFits
<1>11. d = Fail(m) \/ Stored(m, d, i, TwoDots(i, i))
  <2>1. IsSequence(TwoDots(i, i))
    <3>1. TwoDots(i, i) \in Seq({<<".", i>>, <<"..", i>>})
      BY DEF TwoDots
    <3> QED BY <3>1 DEF IsSequence
  <2>2. d = write_inode_data(m, i, TwoDots(i, i))
    BY DEF init_directory_file, TwoDots
  <2> HIDE DEF d, i
  <2> QED BY <1>8, <2>1, <2>2, StoresData
<1> HIDE DEF d
<1>12. SameCaller(s, d)
  BY <1>7, <1>9 DEF Finished, Changes, SameCaller
<1>13. ASSUME NEW q, SameCaller(s, q), s.fault.kind # "none", t = q PROVE Formatted(s, t)
  <2> HIDE DEF t
  <2>1. t.current_directory = s.current_directory /\ t.open_files = s.open_files
    BY <1>13 DEF SameCaller
  <2> QED BY <1>13, <2>1 DEF Formatted
<1>14. CASE ~(p.ok /\ m.ok)
  <2>1. t = y /\ (y = m \/ y = p)
    <3>1. u = y
      BY <1>14
    <3>2. ~y.ok
      BY <1>14
    <3> HIDE DEF u, y
    <3>3. t = y
      BY <1>1, <3>1, <3>2
    <3> QED BY <3>3 DEF y
  <2>2. s.fault.kind # "none"
    BY <1>4, <1>5, <1>7, <1>14
  <2> HIDE DEF t, y
  <2>3. Formatted(s, t)
    BY <1>7, <1>13, <2>1, <2>2
  <2> QED BY <2>3 DEF t
<1>15. CASE p.ok /\ m.ok
  <2>1. y = m
    BY <1>15
  <2>2. u = d
    BY <1>15, <2>1 DEF d
  <2> HIDE DEF u, t
  <2>3. t = IF d.ok THEN x ELSE d
    BY <1>1, <2>2
  <2>4. CASE ~d.ok
    <3>1. s.fault.kind # "none" /\ t = d
      BY <1>7, <1>10, <2>3, <2>4
    <3>2. Formatted(s, t)
      BY <1>12, <1>13, <3>1
    <3> QED BY <3>2 DEF t
  <2>5. CASE d.ok
    <3>1. PICK W : d \in FsStates(W)
      BY <1>9 DEF Finished, Sound, Good
    <3>2. \A fd \in Fds : ~reset_open_files[fd].used
      BY DEF reset_open_files
    <3>3. /\ x.inode_bitmap = d.inode_bitmap /\ x.inode_table = d.inode_table /\ x.disk = d.disk
          /\ x.open_files = reset_open_files /\ x.current_directory = i
      <4> HIDE DEF reset_open_files
      <4> QED BY <3>1 DEF Mounted, FsStates
    <3> HIDE DEF x
    <3>4. \A j : FileOf(x, j) = FileOf(d, j)
      BY <3>3, SameFiles
    <3>5. ~Fail(m).ok
      BY <1>8, FailFiles
    <3>6. /\ KeptFiles(m, d, {i}) /\ FileOf(d, i) = FileWith(m.inode_table[i].type, TwoDots(i, i))
      BY <1>11, <2>5, <3>5 DEF Stored
    <3>7. m.inode_table[i].type = "directory"
      BY <1>7 DEF NewInode
    <3>8. \A j \in Inodes \ {i} : FileOf(x, j) = FreeFile
      <4>1. \A j \in Inodes \ {i} : FileOf(m, j) = FreeFile
        BY <1>7, FileUsed
      <4> QED BY <3>4, <3>6, <4>1 DEF KeptFiles
    <3>9. FileOf(x, i) = FileWith("directory", TwoDots(i, i))
      BY <3>4, <3>6, <3>7
    <3>10. t = x
      BY <2>3, <2>5
    <3>11. Formatted(s, x)
      BY <3>2, <3>3, <3>8, <3>9 DEF Formatted
    <3> QED BY <3>10, <3>11 DEF t
  <2> QED BY <2>4, <2>5
<1> QED
  BY <1>14, <1>15

\* The machine starts in the root directory.
LEMMA BootsAtRoot ==
  ASSUME NEW d
  PROVE  simplefs_init(d).current_directory = SIMPLEFS_ROOT_INODE
<1> DEFINE free == [i \in Inodes |-> NewInode("free")]
           x == [Current(NoFault) EXCEPT !.inode_bitmap = {}, !.data_bitmap = {}, !.inode_table = free,
                            !.open_files = reset_open_files, !.current_directory = SIMPLEFS_ROOT_INODE, !.disk = d]
           y == read_metadata(x)
           r == [y EXCEPT !.fs_mounted = y.ok]
           ok == /\ SIMPLEFS_ROOT_INODE \in d.info.inode_bitmap
                 /\ d.inode_table[SIMPLEFS_ROOT_INODE].type = "directory"
<1>1. simplefs_init(d) = r
  BY DEF simplefs_init
<1> HIDE DEF free, ok
<1>2. x.disk = d /\ x.current_directory = SIMPLEFS_ROOT_INODE
  <2> HIDE DEF reset_open_files, NoFault, NoTable
  <2> QED BY DEF Current
<1>3. "current_directory" \in DOMAIN x
  <2> HIDE DEF reset_open_files, NoFault, NoTable
  <2> QED BY DEF Current
<1>4. y = Fail(x) \/ y = [x EXCEPT !.inode_bitmap = d.info.inode_bitmap, !.data_bitmap = d.info.data_bitmap,
                                   !.inode_table = d.inode_table, !.current_directory = SIMPLEFS_ROOT_INODE, !.ok = ok]
  <2> HIDE DEF x
  <2> QED BY <1>2 DEF read_metadata, ok
<1> HIDE DEF x, y, reset_open_files, NoFault, NoTable
<1>5. y.current_directory = SIMPLEFS_ROOT_INODE /\ "current_directory" \in DOMAIN y
  BY <1>2, <1>3, <1>4 DEF Fail
<1>6. r.current_directory = y.current_directory
  BY <1>5
<1> QED BY <1>1, <1>5, <1>6

-----------------------------------------------------------------------------
(***************************************************************************)
(* The abstract store.  Shows and ShowsNext say that the files of a record *)
(* are the store before and after a step.                                  *)
(***************************************************************************)
FileMap(s) == [j \in Inodes |-> FileOf(s, j)]
Shows(s) ==
  Files = FileMap(s) /\ current_directory = s.current_directory /\ open_files = s.open_files
ShowsNext(t) ==
  Files' = FileMap(t) /\ current_directory' = t.current_directory /\ open_files' = t.open_files
\* A record with tables the calls can work on.
Tabled(s) ==
  /\ s.inode_table \in InodeTables /\ s.inode_bitmap \subseteq Inodes /\ s.current_directory \in Inodes
  /\ s.open_files \in OpenTables

\* The state in which a call starts shows the store when nothing is in doubt.
LEMMA ShowsNow ==
  ASSUME doubt = {}, NEW f
  PROVE  Shows(Current(f))
<1> DEFINE s == Current(f)
<1>1. /\ s.inode_bitmap = Now.inode_bitmap /\ s.inode_table = Now.inode_table /\ s.disk.blocks = Now.disk.blocks
      /\ s.current_directory = current_directory /\ s.open_files = open_files
  BY DEF Current, Now
<1> HIDE DEF s
<1>2. \A j : FileOf(s, j) = FileOf(Now, j)
  BY <1>1, SameFiles
<1>3. Files = [i \in Inodes |-> FileOf(Now, i)]
  BY DEF Files
<1> QED BY <1>1, <1>2, <1>3 DEF Shows, FileMap, s

\* The files after a step.
LEMMA NextFiles ==
  ASSUME NEW t, Leave(t)
  PROVE  /\ Files' = [i \in Inodes |-> IF i \in doubt' THEN FileWith("unknown", <<>>) ELSE FileOf(t, i)]
         /\ current_directory' = t.current_directory /\ open_files' = t.open_files
<1>1. Now' = Resume(t)
  BY NowNext
<1>2. Resume(t).inode_bitmap = t.inode_bitmap /\ Resume(t).inode_table = t.inode_table /\ Resume(t).disk = t.disk
  BY DEF Resume
<1>3. \A j : FileOf(Resume(t), j) = FileOf(t, j)
  BY <1>2, SameFiles
<1>4. Files' = [i \in Inodes |-> IF i \in doubt' THEN [type |-> "unknown", data |-> <<>>] ELSE FileOf(Now', i)]
  BY DEF Files
<1>5. Files' = [i \in Inodes |-> IF i \in doubt' THEN [type |-> "unknown", data |-> <<>>] ELSE FileOf(t, i)]
  BY <1>1, <1>3, <1>4
<1>6. FileWith("unknown", <<>>) = [type |-> "unknown", data |-> <<>>]
  BY DEF FileWith
<1> QED BY <1>5, <1>6 DEF Leave

\* Nothing is in doubt after it.
LEMMA ShowsAfter ==
  ASSUME NEW t, Leave(t), doubt' = {}
  PROVE  ShowsNext(t)
<1>1. /\ Files' = [i \in Inodes |-> IF i \in doubt' THEN FileWith("unknown", <<>>) ELSE FileOf(t, i)]
      /\ current_directory' = t.current_directory /\ open_files' = t.open_files
  BY NextFiles
<1> QED BY <1>1 DEF ShowsNext, FileMap

\* What the store is when a record shows it.
LEMMA StoreFacts ==
  ASSUME NEW s, Tabled(s), Shows(s)
  PROVE  /\ \A j \in Inodes : /\ Files[j] = FileOf(s, j) /\ Files[j] = FileWith(Files[j].type, Files[j].data)
                              /\ Files[j].type \in {"free", "regular", "directory"} /\ IsSequence(Files[j].data)
         /\ Store!Sound /\ DOMAIN open_files = Fds
<1>1. \A j \in Inodes : Files[j] = FileOf(s, j)
  BY DEF Shows, FileMap
<1>2. \A j \in Inodes : /\ FileOf(s, j) = FileWith(FileOf(s, j).type, FileOf(s, j).data)
                        /\ FileOf(s, j).type \in {"free", "regular", "directory"} /\ IsSequence(FileOf(s, j).data)
  BY FileFacts DEF Tabled
<1>3. DOMAIN open_files = Fds
  BY DEF Shows, Tabled, OpenTables
<1> HIDE DEF Files
<1>4. Store!Sound
  BY <1>1, <1>2 DEF Store!Sound
<1> QED BY <1>1, <1>2, <1>3, <1>4

\* The step is refused or changes nothing.
LEMMA StoreRefused ==
  ASSUME NEW s, NEW t, Shows(s), ShowsNext(t), SameView(s, t)
  PROVE  Store!Refused
<1>1. Files' = Files /\ current_directory' = current_directory /\ open_files' = open_files
  BY DEF Shows, ShowsNext, SameView, FileMap
<1> QED BY <1>1 DEF Store!Refused

-----------------------------------------------------------------------------
(* The refinement: what each call does is a step of FileStore.           *)

\* A function is the map of the files of a record.
MapOf(F) == F = [j \in Inodes |-> F[j]] /\ DOMAIN F = Inodes
Seen(F, s) == MapOf(F) /\ \A j \in Inodes : F[j] = FileOf(s, j)
\* A step of the program, as the store sees it.
StepSeen(s, t) == Tabled(s) /\ Shows(s) /\ ShowsNext(t)
Callers(s, t) == t.current_directory = s.current_directory /\ t.open_files = s.open_files

\* The store before and after such a step.
LEMMA StepSees ==
  ASSUME NEW s, NEW t, StepSeen(s, t)
  PROVE  /\ Seen(Files, s) /\ Seen(Files', t) /\ Store!Sound /\ DOMAIN open_files = Fds
         /\ current_directory = s.current_directory /\ open_files = s.open_files
         /\ current_directory' = t.current_directory /\ open_files' = t.open_files
         /\ s.current_directory \in Inodes
<1>1. Tabled(s) /\ Shows(s) /\ ShowsNext(t)
  BY DEF StepSeen
<1>2. Store!Sound /\ DOMAIN open_files = Fds
  BY <1>1, StoreFacts
<1>3. Files = FileMap(s) /\ Files' = FileMap(t)
  BY <1>1 DEF Shows, ShowsNext
<1>4. Seen(FileMap(s), s) /\ Seen(FileMap(t), t)
  BY DEF Seen, FileMap, MapOf
<1> QED BY <1>1, <1>2, <1>3, <1>4 DEF Shows, ShowsNext, Tabled

\* A function with another record, and one with other data in a record.
Replaced(F, i, X) == [F EXCEPT ![i] = X]
Redated(F, i, new) == [F EXCEPT ![i].data = new]

\* A function in which the data of one record changed.
LEMMA MapData ==
  ASSUME NEW F, NEW G, MapOf(F), MapOf(G), NEW i \in Inodes, \A j \in Inodes \ {i} : G[j] = F[j],
         NEW type, NEW old, NEW new, F[i] = FileWith(type, old), G[i] = FileWith(type, new)
  PROVE  G = Redated(F, i, new)
<1>1. [FileWith(type, old) EXCEPT !.data = new] = FileWith(type, new)
  BY DEF FileWith
<1>2. [F EXCEPT ![i].data = new] = [F EXCEPT ![i] = FileWith(type, new)]
  BY <1>1
<1> QED BY <1>2 DEF Redated, MapOf

\* The data of one file changed.
LEMMA SeenData ==
  ASSUME NEW F, NEW G, NEW s, NEW t, Seen(F, s), Seen(G, t), NEW i \in Inodes, KeptFiles(s, t, {i}),
         NEW type, NEW old, NEW new, FileOf(s, i) = FileWith(type, old), FileOf(t, i) = FileWith(type, new)
  PROVE  G = Redated(F, i, new)
<1>1. MapOf(F) /\ MapOf(G) /\ \A j \in Inodes : F[j] = FileOf(s, j) /\ G[j] = FileOf(t, j)
  BY DEF Seen
<1>2. \A j \in Inodes \ {i} : G[j] = F[j]
  BY <1>1 DEF KeptFiles
<1>3. F[i] = FileWith(type, old) /\ G[i] = FileWith(type, new)
  BY <1>1
<1> QED BY <1>1, <1>2, <1>3, MapData

\* A record of the function was replaced, and the data of one changed.
TwoChanged(F, G, i, c, X, type, old, new) ==
  /\ MapOf(F) /\ MapOf(G) /\ i \in Inodes /\ c \in Inodes /\ \A j \in Inodes \ {i, c} : G[j] = F[j]
  /\ G[c] = FileWith(type, new)
  /\ i # c => F[c] = FileWith(type, old) /\ G[i] = X
  /\ i = c => X = FileWith(type, old)

\* Such a change in two steps.
LEMMA MapTwo ==
  ASSUME NEW F, NEW G, NEW i, NEW c, NEW X, NEW type, NEW old, NEW new, TwoChanged(F, G, i, c, X, type, old, new)
  PROVE  G = Redated(Replaced(F, i, X), c, new) /\ Replaced(F, i, X)[c].data = old
<1> DEFINE H == Replaced(F, i, X)
<1>1. H[c] = FileWith(type, old) /\ MapOf(H) /\ \A j \in Inodes \ {c} : G[j] = H[j]
  <2>1. CASE i = c
    BY <2>1 DEF Replaced, MapOf, TwoChanged
  <2>2. CASE i # c
    BY <2>2 DEF Replaced, MapOf, TwoChanged
  <2> QED BY <2>1, <2>2
<1> HIDE DEF H
<1>2. H[c].data = old
  BY <1>1, FileFields
<1>3. MapOf(G) /\ c \in Inodes /\ G[c] = FileWith(type, new)
  BY DEF TwoChanged
<1>4. G = Redated(H, c, new)
  BY <1>1, <1>3, MapData
<1> QED BY <1>2, <1>4 DEF H

\* A list with an entry more.
Grown(entries, e) == Append(entries, e)

\* A file was made and an entry added to a directory.
LEMMA MapNew ==
  ASSUME NEW F, NEW G, NEW i, NEW c, NEW X, NEW e, NEW type, NEW old, TwoChanged(F, G, i, c, X, type, old, Grown(old, e))
  PROVE  G = [[F EXCEPT ![i] = X] EXCEPT ![c].data = Append(@, e)]
<1> DEFINE H == Replaced(F, i, X)
<1>2. G = Redated(H, c, Grown(old, e)) /\ H[c].data = old
  BY MapTwo
<1> HIDE DEF H
<1>3. G = Redated(H, c, Grown(H[c].data, e))
  BY <1>2
<1>4. G = [H EXCEPT ![c].data = Append(@, e)]
  BY <1>3 DEF Redated, Grown
<1> QED BY <1>4 DEF H, Replaced

\* The step is refused, or the current directory is lost.
LEMMA StoreLost ==
  ASSUME NEW s, NEW t, StepSeen(s, t), Callers(s, t), CwdLost(s, t)
  PROVE  Store!Refused \/ Store!DirectoryLost
<1> DEFINE cwd == s.current_directory
<1>1. /\ Seen(Files, s) /\ Seen(Files', t)
      /\ current_directory = cwd /\ open_files' = open_files /\ current_directory' = current_directory
      /\ cwd \in Inodes /\ Shows(s) /\ ShowsNext(t) /\ Tabled(s)
  BY StepSees DEF Callers, StepSeen
<1>2. KeptFiles(s, t, {cwd}) /\ FileOf(t, cwd) \in {FileOf(s, cwd), FileWith(FileOf(s, cwd).type, <<>>)}
  BY DEF CwdLost
<1>3. FileOf(s, cwd) = FileWith(FileOf(s, cwd).type, FileOf(s, cwd).data)
  BY <1>1, FileFacts DEF Tabled
<1> HIDE DEF cwd
<1>4. CASE FileOf(t, cwd) = FileOf(s, cwd)
  <2>1. \A j \in Inodes : FileOf(t, j) = FileOf(s, j)
    BY <1>2, <1>4 DEF KeptFiles
  <2>2. Files' = Files
    BY <1>1, <2>1 DEF Shows, ShowsNext, FileMap
  <2> QED BY <1>1, <2>2 DEF Store!Refused
<1>5. CASE FileOf(t, cwd) = FileWith(FileOf(s, cwd).type, <<>>)
  <2>1. Files' = Redated(Files, cwd, <<>>)
    BY <1>1, <1>2, <1>3, <1>5, SeenData
  <2> QED BY <1>1, <2>1 DEF Store!DirectoryLost, Redated
<1> QED BY <1>2, <1>4, <1>5

\* The entries of the current directory are the same in the store.
LEMMA StoreEntries ==
  ASSUME NEW s, NEW t, StepSeen(s, t)
  PROVE  /\ Store!EntriesOf(current_directory) = read_directory_entries(s, s.current_directory)
         /\ Store!EntriesOf(current_directory) = EntriesIn(FileOf(s, s.current_directory))
         /\ \A name : ~Found(s, s.current_directory, name) => ~Store!Taken(name)
<1> DEFINE cwd == s.current_directory
<1>1. Seen(Files, s) /\ current_directory = cwd /\ cwd \in Inodes /\ Tabled(s)
  BY StepSees DEF StepSeen
<1>2. Files[cwd] = FileOf(s, cwd)
  BY <1>1 DEF Seen
<1>3. read_directory_entries(s, cwd) = EntriesIn(FileOf(s, cwd))
  BY <1>1, FileFacts DEF Tabled
<1>4. Store!EntriesOf(current_directory) = EntriesIn(FileOf(s, cwd))
  BY <1>1, <1>2 DEF Store!EntriesOf, EntriesIn
<1> HIDE DEF cwd
<1>5. ASSUME NEW name, ~Found(s, cwd, name)
      PROVE  ~Store!Taken(name)
  <2> DEFINE q == Store!EntriesOf(current_directory)
  <2>1. SlotsOf(q, name) = {}
    BY <1>3, <1>4, <1>5 DEF Found
  <2>2. \A k \in DOMAIN q : q[k][1] # name
    BY <2>1 DEF SlotsOf
  <2>3. \A f : \A k \in DOMAIN q : q[k] # <<name, f>>
    BY <2>2
  <2> QED BY <2>3 DEF Store!Taken, Store!Names
<1> QED BY <1>3, <1>4, <1>5 DEF cwd

\* A file was made and named.
LEMMA StoreEntered ==
  ASSUME NEW s, NEW t, StepSeen(s, t), NEW f, NEW type, NEW data, NEW name, NewEntry(s, t, f, FileWith(type, data), name)
  PROVE  /\ f \in Inodes /\ name \in NAMES /\ Files[f].type = "free" /\ ~Store!Taken(name)
         /\ Files[current_directory].type = "directory" \/ (f = current_directory /\ type = "directory")
         /\ Files' = Store!Entered(Replaced(Files, f, FileWith(type, data)), name, f)
<1> DEFINE cwd == s.current_directory
           F == FileWith(type, data)
           e == <<name, f>>
<1>1. /\ Seen(Files, s) /\ Seen(Files', t) /\ current_directory = cwd /\ cwd \in Inodes /\ Tabled(s)
  BY StepSees DEF StepSeen
<1>2. /\ f \in Inodes \ s.inode_bitmap /\ valid_name(name) /\ ~Found(s, cwd, name)
      /\ KeptFiles(s, t, {f, cwd})
      /\ f # cwd => /\ FileOf(s, cwd).type = "directory" /\ FileOf(t, f) = F
                    /\ FileOf(t, cwd) = FileWith("directory", Grown(FileOf(s, cwd).data, e))
      /\ f = cwd => FileOf(t, f) = FileWith(F.type, Grown(F.data, e)) /\ F.type = "directory"
  BY DEF NewEntry, Grown
<1>3. F.type = type /\ F.data = data /\ FreeFile.type = "free"
  BY FileFields
<1>f. F = FileWith(type, data)
  OBVIOUS
<1> HIDE DEF F, cwd, e
<1>4. /\ MapOf(Files) /\ MapOf(Files') /\ Files[f] = FileOf(s, f) /\ Files[cwd] = FileOf(s, cwd)
      /\ Files'[f] = FileOf(t, f) /\ Files'[cwd] = FileOf(t, cwd)
      /\ \A j \in Inodes \ {f, cwd} : Files'[j] = Files[j]
  BY <1>1, <1>2 DEF Seen, KeptFiles
<1>5. FileOf(s, f) = FreeFile
  BY <1>2, FileUsed
<1>6. ~Store!Taken(name)
  BY <1>2, StoreEntries DEF cwd
<1>7. Files' = [[Files EXCEPT ![f] = F] EXCEPT ![cwd].data = Append(@, e)]
  <2>1. CASE f # cwd
    <3>1. FileOf(s, cwd) = FileWith("directory", FileOf(s, cwd).data)
      BY <1>1, <1>2, <2>1, FileFacts DEF Tabled
    <3>2. TwoChanged(Files, Files', f, cwd, F, "directory", FileOf(s, cwd).data, Grown(FileOf(s, cwd).data, e))
      BY <1>1, <1>2, <1>4, <2>1, <3>1 DEF TwoChanged
    <3> QED BY <3>2, MapNew
  <2>2. CASE f = cwd
    <3>1. TwoChanged(Files, Files', f, cwd, F, type, data, Grown(data, e))
      BY <1>1, <1>2, <1>3, <1>f, <1>4, <2>2 DEF TwoChanged
    <3> QED BY <3>1, MapNew
  <2> QED BY <2>1, <2>2
<1>8. Files' = Store!Entered(Replaced(Files, f, FileWith(type, data)), name, f)
  BY <1>1, <1>7 DEF Store!Entered, e, F, Replaced
<1> QED BY <1>1, <1>2, <1>3, <1>4, <1>5, <1>6, <1>8 DEF valid_name, cwd

\* create, and write when there is no such file.
LEMMA StoreNewFile ==
  ASSUME NEW s, NEW t, StepSeen(s, t), Callers(s, t), NEW f, NEW new, NEW name,
         NewEntry(s, t, f, FileWith("regular", new), name)
  PROVE  f \in Inodes /\ name \in NAMES /\ Store!NewFile(f, name, new)
<1>1. /\ f \in Inodes /\ name \in NAMES /\ Files[f].type = "free" /\ ~Store!Taken(name)
      /\ Files[current_directory].type = "directory"
      /\ Files' = Store!Entered(Replaced(Files, f, FileWith("regular", new)), name, f)
  BY StoreEntered
<1>2. current_directory' = current_directory /\ open_files' = open_files
  BY StepSees DEF Callers
<1>3. FileWith("regular", new) = Store!Regular(new)
  BY DEF FileWith, Store!Regular
<1> QED BY <1>1, <1>2, <1>3 DEF Store!NewFile, Replaced

\* mkdir.
LEMMA StoreNewDirectory ==
  ASSUME NEW s, NEW t, StepSeen(s, t), Callers(s, t), NEW f, NEW name,
         NewEntry(s, t, f, Newborn("directory", f, s.current_directory), name)
  PROVE  f \in Inodes /\ name \in NAMES /\ Store!NewDirectory(f, name)
<1> DEFINE dots == TwoDots(f, s.current_directory)
<1>0. Newborn("directory", f, s.current_directory) = FileWith("directory", dots)
  BY DEF Newborn
<1>2. current_directory' = current_directory /\ open_files' = open_files /\ current_directory = s.current_directory
  BY StepSees DEF Callers
<1>3. FileWith("directory", dots) = Store!Directory(Store!Dots(f, current_directory))
  BY <1>2 DEF FileWith, Store!Directory, Store!Dots, TwoDots
<1> HIDE DEF dots
<1>1. /\ f \in Inodes /\ name \in NAMES /\ Files[f].type = "free" /\ ~Store!Taken(name)
      /\ Files[current_directory].type = "directory" \/ f = current_directory
      /\ Files' = Store!Entered(Replaced(Files, f, FileWith("directory", dots)), name, f)
  BY <1>0, StoreEntered
<1> QED BY <1>1, <1>2, <1>3 DEF Store!NewDirectory, Replaced

\* Entries are pairs of a name and an inode, and the names are distinct.
Paired(q) ==
  /\ \A k \in DOMAIN q : q[k] = <<q[k][1], q[k][2]>> /\ q[k][1] \in NAMES \cup {".", ".."} /\ q[k][2] \in Inodes
  /\ \A j, k \in DOMAIN q : q[j][1] = q[k][1] => j = k
ProperMap(F) == \A d \in Inodes : F[d].type = "directory" => Paired(F[d].data)
Proper == ProperMap(Files)

\* A list without one of its entries, written in two ways.
LEMMA CutWithout ==
  ASSUME NEW q, IsSequence(q), NEW k \in DOMAIN q
  PROVE  Cut(q, k) = Store!Without(q, k)
<1>1. PICK S : q \in Seq(S)
  BY DEF IsSequence
<1>2. k \in 1 .. Len(q) /\ Len(q) \in Nat
  BY <1>1
<1> DEFINE a == SubSeq(q, 1, k - 1)
           b == SubSeq(q, k + 1, Len(q))
<1>3. a \in Seq(S) /\ Len(a) = k - 1 /\ \A p \in 1 .. k - 1 : a[p] = q[p]
  BY <1>1, <1>2
<1>4. b \in Seq(S) /\ Len(b) = Len(q) - k /\ \A p \in 1 .. Len(q) - k : b[p] = q[p + k]
  BY <1>1, <1>2
<1> HIDE DEF a, b
<1>5. a \o b = [p \in 1 .. Len(q) - 1 |-> IF p < k THEN q[p] ELSE q[p + 1]]
  <2> DEFINE c == a \o b
  <2>0. /\ c \in Seq(S) /\ Len(c) = Len(a) + Len(b)
        /\ \A p \in 1 .. Len(a) + Len(b) : c[p] = IF p <= Len(a) THEN a[p] ELSE b[p - Len(a)]
    BY <1>3, <1>4, ConcatProperties
  <2> HIDE DEF c
  <2>1. c = [p \in 1 .. Len(a) + Len(b) |-> IF p <= Len(a) THEN a[p] ELSE b[p - Len(a)]]
    BY <2>0
  <2>2. Len(a) + Len(b) = Len(q) - 1
    BY <1>2, <1>3, <1>4
  <2>3. \A p \in 1 .. Len(q) - 1 :
          (IF p <= Len(a) THEN a[p] ELSE b[p - Len(a)]) = IF p < k THEN q[p] ELSE q[p + 1]
    <3> TAKE p \in 1 .. Len(q) - 1
    <3>1. CASE p < k
      BY <3>1, <1>2, <1>3
    <3>2. CASE ~(p < k)
      <4>1. p - Len(a) \in 1 .. Len(q) - k /\ (p - Len(a)) + k = p + 1 /\ ~(p <= Len(a))
        BY <3>2, <1>2, <1>3
      <4> QED BY <3>2, <4>1, <1>4
    <3> QED BY <3>1, <3>2
  <2> QED BY <2>1, <2>2, <2>3 DEF c
<1> QED BY <1>5 DEF Cut, Store!Without, a, b

\* A file was removed with its entry.
LEMMA MapDrop ==
  ASSUME NEW F, NEW G, MapOf(F), MapOf(G), NEW i \in Inodes, NEW c \in Inodes, \A j \in Inodes \ {i, c} : G[j] = F[j],
         NEW type, NEW old, NEW new, F[c] = FileWith(type, old), G[i] = FreeFile, i # c => G[c] = FileWith(type, new)
  PROVE  G = Replaced(Redated(F, c, new), i, FreeFile)
<1> DEFINE H == Redated(F, c, new)
<1>0. [FileWith(type, old) EXCEPT !.data = new] = FileWith(type, new)
  BY DEF FileWith
<1>1. H = [F EXCEPT ![c] = FileWith(type, new)]
  BY <1>0 DEF Redated
<1>2. MapOf(H) /\ H[c] = FileWith(type, new) /\ \A j \in Inodes \ {c} : H[j] = F[j]
  BY <1>1 DEF MapOf
<1> HIDE DEF H
<1>3. \A j \in Inodes \ {i} : G[j] = H[j]
  BY <1>2
<1>4. G = Replaced(H, i, FreeFile)
  BY <1>2, <1>3 DEF Replaced, MapOf
<1> QED BY <1>4 DEF H

\* delete and rmdir.
LEMMA StoreDrop ==
  ASSUME NEW s, NEW t, StepSeen(s, t), Callers(s, t), Proper, NEW name,
         Dropped(s, t, NamedFile(s, name), name), Removable(s, NamedFile(s, name))
  PROVE  NamedFile(s, name) \in Inodes /\ name \in NAMES \cup {".", ".."} /\ Store!Drop(NamedFile(s, name), name)
<1> DEFINE cwd == s.current_directory
           q == FileOf(s, cwd).data
           k == Min(SlotsOf(q, name))
           i == NamedFile(s, name)
<1>1. /\ Seen(Files, s) /\ Seen(Files', t) /\ current_directory = cwd /\ cwd \in Inodes /\ Tabled(s)
      /\ open_files = s.open_files /\ DOMAIN open_files = Fds
      /\ current_directory' = current_directory /\ open_files' = open_files
  BY StepSees DEF StepSeen, Callers
<1>2. /\ FileOf(s, cwd).type = "directory" /\ k \in SlotsOf(q, name)
      /\ KeptFiles(s, t, {i, cwd}) /\ FileOf(t, i) = FreeFile
      /\ i # cwd => FileOf(t, cwd) = FileWith("directory", Cut(q, k))
  BY DEF Dropped
<1>3. /\ i \in Inodes /\ i # SIMPLEFS_ROOT_INODE
      /\ \/ FileOf(s, i).type = "regular" /\ ~inode_is_open(s, i)
         \/ FileOf(s, i).type = "directory" /\ \A p \in DOMAIN FileOf(s, i).data : FileOf(s, i).data[p][1] \in {".", ".."}
  BY DEF Removable
<1>4. FileOf(s, cwd) = FileWith("directory", q) /\ IsSequence(q)
  BY <1>1, <1>2, FileFacts DEF Tabled
<1>5. i = q[k][2]
  BY DEF NamedFile
<1>e. Store!EntriesOf(current_directory) = q
  BY <1>2, StoreEntries DEF EntriesIn
<1>k. k \in DOMAIN q /\ q[k][1] = name
  BY <1>2 DEF SlotsOf
<1> HIDE DEF cwd, q, k, i
<1>6. /\ MapOf(Files) /\ MapOf(Files') /\ Files[i] = FileOf(s, i) /\ Files[cwd] = FileOf(s, cwd)
      /\ Files'[i] = FileOf(t, i) /\ Files'[cwd] = FileOf(t, cwd)
      /\ \A j \in Inodes \ {i, cwd} : Files'[j] = Files[j]
  BY <1>1, <1>2, <1>3 DEF Seen, KeptFiles
<1>7. Files[cwd].data = q /\ Files[cwd].type = "directory"
  BY <1>2, <1>4, <1>6, FileFields
<1>8. q[k] = <<name, i>> /\ name \in NAMES \cup {".", ".."}
  BY <1>1, <1>5, <1>k, <1>7 DEF Proper, ProperMap, Paired
<1>9. Files' = Replaced(Redated(Files, cwd, Cut(q, k)), i, FreeFile)
  BY <1>1, <1>2, <1>3, <1>4, <1>6, MapDrop
<1>10. Files' = [Files EXCEPT ![cwd].data = Store!Without(@, k), ![i] = Store!Free]
  <2>1. Cut(q, k) = Store!Without(Files[cwd].data, k)
    BY <1>4, <1>k, <1>7, CutWithout
  <2>2. FreeFile = Store!Free
    BY DEF FreeFile, Store!Free
  <2> QED BY <1>9, <2>1, <2>2 DEF Replaced, Redated
<1>11. \/ Files[i].type = "regular" /\ \A fd \in DOMAIN open_files : ~(open_files[fd].used /\ open_files[fd].inode_index = i)
       \/ Files[i].type = "directory" /\ \A p \in DOMAIN Files[i].data : Files[i].data[p][1] \in {".", ".."}
  BY <1>1, <1>3, <1>6 DEF inode_is_open
<1>12. Store!Drop(i, name)
  BY <1>1, <1>3, <1>e, <1>k, <1>8, <1>10, <1>11 DEF Store!Drop
<1> QED BY <1>3, <1>8, <1>12 DEF i

\* A file is written again from its beginning.
LEMMA StoreRewrite ==
  ASSUME NEW s, NEW t, StepSeen(s, t), Callers(s, t), NEW i, NEW new, Rewritten(s, t, i, new),
         new = <<>> \/ new \in DATA \/ \E data \in DATA : new = FileOf(s, i).data \o data
  PROVE  i \in Inodes /\ Store!Rewrite(i)
<1>1. /\ i \in Inodes /\ FileOf(s, i).type = "regular" /\ KeptFiles(s, t, {i})
      /\ FileOf(t, i) \in {FileWith("regular", new), FileWith("regular", <<>>)}
  BY DEF Rewritten
<1>2. /\ Seen(Files, s) /\ Seen(Files', t) /\ Tabled(s)
      /\ current_directory' = current_directory /\ open_files' = open_files
  BY StepSees DEF StepSeen, Callers
<1>3. PICK now : now \in {new, <<>>} /\ FileOf(t, i) = FileWith("regular", now)
  BY <1>1
<1>4. FileOf(s, i) = FileWith("regular", FileOf(s, i).data)
  BY <1>1, <1>2, FileFacts DEF Tabled
<1>5. Files[i] = FileOf(s, i) /\ Files'[i] = FileOf(t, i)
  BY <1>1, <1>2 DEF Seen
<1>6. Files'[i].data = now
  BY <1>3, <1>5, FileFields
<1>7. Files' = Redated(Files, i, Files'[i].data)
  BY <1>1, <1>2, <1>3, <1>4, <1>6, SeenData
<1>8. Store!Changed(Files[i].data, Files'[i].data)
  BY <1>3, <1>5, <1>6 DEF Store!Changed
<1> QED BY <1>1, <1>2, <1>5, <1>7, <1>8 DEF Store!Rewrite, Redated

\* The new contents are what the store promises.
LEMMA StorePut ==
  ASSUME NEW old, IsSequence(old), NEW offset \in Nat, NEW data, IsSequence(data)
  PROVE  Store!Put(old, offset, data, Overwritten(old, offset, data))
<1> DEFINE n == IF offset + Len(data) > Len(old) THEN offset + Len(data) ELSE Len(old)
           q == Overwritten(old, offset, data)
<1>1. n \in Nat
  BY SequenceLength
<1>2. q = [p \in 1 .. n |-> IF p > offset /\ p <= offset + Len(data) THEN data[p - offset]
                            ELSE IF p <= Len(old) THEN old[p] ELSE ZERO]
  BY DEF Overwritten
<1> HIDE DEF n, q
<1>3. Len(q) = n
  <2>1. q \in [1 .. n -> {q[p] : p \in 1 .. n}]
    BY <1>2
  <2> QED BY <1>1, <2>1, FunctionIsSeq
<1>4. DOMAIN q = 1 .. n /\ \A p \in 1 .. n : q[p] = IF p > offset /\ p <= offset + Len(data) THEN data[p - offset]
                            ELSE IF p <= Len(old) THEN old[p] ELSE ZERO
  BY <1>2
<1> QED BY <1>3, <1>4 DEF Store!Put, n, q

\* write on a descriptor.
LEMMA StoreWriteFd ==
  ASSUME NEW s, NEW t, StepSeen(s, t), NEW fd \in Fds, NEW data \in DATA, FdWritten(s, t, fd, data)
  PROVE  Store!Refused \/ (\E f \in Inodes : Store!Rewrite(f)) \/ Store!WriteFd(fd)
<1> DEFINE f == s.open_files[fd]
           i == f.inode_index
<1>1. /\ Seen(Files, s) /\ Seen(Files', t) /\ Tabled(s) /\ Shows(s) /\ ShowsNext(t)
      /\ current_directory = s.current_directory /\ current_directory' = t.current_directory
      /\ open_files = s.open_files /\ open_files' = t.open_files
  BY StepSees DEF StepSeen
<1>2. /\ t.current_directory = s.current_directory
      /\ \/ SameView(s, t)
         \/ t.open_files = s.open_files /\ Rewritten(s, t, i, <<>>)
         \/ /\ f.used /\ i \in Inodes /\ FileOf(s, i).type = "regular" /\ KeptFiles(s, t, {i})
            /\ FileOf(t, i) = FileWith("regular", Overwritten(FileOf(s, i).data, f.offset, data))
            /\ t.open_files = [s.open_files EXCEPT ![fd] = At(f, f.offset + Len(data))]
  BY DEF FdWritten
<1>3. CASE SameView(s, t)
  BY <1>1, <1>3, StoreRefused
<1>4. CASE t.open_files = s.open_files /\ Rewritten(s, t, i, <<>>)
  <2>1. Callers(s, t)
    BY <1>2, <1>4 DEF Callers
  <2> HIDE DEF i
  <2>2. i \in Inodes /\ Store!Rewrite(i)
    BY <1>4, <2>1, StoreRewrite
  <2> QED BY <2>2
<1>5. CASE /\ f.used /\ i \in Inodes /\ FileOf(s, i).type = "regular" /\ KeptFiles(s, t, {i})
           /\ FileOf(t, i) = FileWith("regular", Overwritten(FileOf(s, i).data, f.offset, data))
           /\ t.open_files = [s.open_files EXCEPT ![fd] = At(f, f.offset + Len(data))]
  <2>1. f \in OpenFiles /\ f.offset \in Nat
    BY <1>1 DEF Tabled, OpenTables, OpenFiles
  <2>2. [f EXCEPT !.offset = f.offset + Len(data)] = At(f, f.offset + Len(data))
    BY <2>1 DEF OpenFiles, At
  <2>3. open_files' = [open_files EXCEPT ![fd].offset = @ + Len(data)]
    BY <1>1, <1>5, <2>2
  <2>4. IsSequence(data)
    BY CallsAssumption DEF IsSequence
  <2> DEFINE old == FileOf(s, i).data
             new == Overwritten(old, f.offset, data)
  <2>5. FileOf(s, i) = FileWith("regular", old) /\ IsSequence(old)
    BY <1>1, <1>5, FileFacts DEF Tabled
  <2> HIDE DEF old
  <2>6. Store!Put(old, f.offset, data, new)
    BY <2>1, <2>4, <2>5, StorePut
  <2>7. Files[i] = FileOf(s, i) /\ Files'[i] = FileOf(t, i)
    BY <1>1, <1>5 DEF Seen
  <2>8. FileOf(t, i) = FileWith("regular", new)
    BY <1>5 DEF old
  <2> HIDE DEF new
  <2>9. Files[i].data = old /\ Files[i].type = "regular" /\ Files'[i].data = new
    BY <2>5, <2>7, <2>8, FileFields
  <2>10. Files' = Redated(Files, i, new)
    BY <1>1, <1>5, <2>5, <2>8, SeenData
  <2>11. /\ open_files[fd].used /\ open_files[fd].inode_index = i /\ open_files[fd].offset = f.offset
         /\ current_directory' = current_directory
    BY <1>1, <1>2, <1>5
  <2> HIDE DEF i, f
  <2>12. Files' = [Files EXCEPT ![i].data = Files'[i].data]
    BY <2>9, <2>10 DEF Redated
  <2>13. Store!Put(Files[i].data, f.offset, data, Files'[i].data)
    BY <2>6, <2>9
  <2> QED BY <2>3, <2>9, <2>11, <2>12, <2>13 DEF Store!WriteFd
<1> QED BY <1>2, <1>3, <1>4, <1>5

\* open, close, read and seek.
LEMMA StoreDescriptor ==
  ASSUME NEW s, NEW t, StepSeen(s, t), FdMoved(s, t)
  PROVE  Store!Refused \/ Store!Descriptor
<1>1. /\ Tabled(s) /\ Shows(s) /\ ShowsNext(t) /\ Seen(Files, s) /\ DOMAIN open_files = Fds
      /\ current_directory = s.current_directory /\ current_directory' = t.current_directory
      /\ open_files = s.open_files /\ open_files' = t.open_files
  BY StepSees DEF StepSeen
<1>2. CASE SameView(s, t)
  BY <1>1, <1>2, StoreRefused
<1>3. CASE /\ \A j : FileOf(t, j) = FileOf(s, j)
           /\ t.current_directory = s.current_directory
           /\ \E fd \in Fds, f \in OpenFiles :
                /\ t.open_files = [s.open_files EXCEPT ![fd] = f]
                /\ f.used => /\ FileOf(s, f.inode_index).type = "regular" /\ f.inode_index \in Inodes
                             /\ \/ s.open_files[fd].used /\ f.inode_index = s.open_files[fd].inode_index
                                \/ ~s.open_files[fd].used /\ f.offset = 0
  <2>1. PICK fd \in Fds, f \in OpenFiles :
                /\ t.open_files = [s.open_files EXCEPT ![fd] = f]
                /\ f.used => /\ FileOf(s, f.inode_index).type = "regular" /\ f.inode_index \in Inodes
                             /\ \/ s.open_files[fd].used /\ f.inode_index = s.open_files[fd].inode_index
                                \/ ~s.open_files[fd].used /\ f.offset = 0
    BY <1>3
  <2>2. Files' = Files
    BY <1>1, <1>3 DEF Shows, ShowsNext, FileMap
  <2>3. open_files'[fd] = f /\ \A other \in Fds \ {fd} : open_files'[other] = open_files[other]
    BY <1>1, <2>1
  <2>4. f.used => Files[f.inode_index].type = "regular"
    BY <1>1, <2>1 DEF Seen
  <2> QED BY <1>1, <1>3, <2>1, <2>2, <2>3, <2>4 DEF Store!Descriptor
<1> QED BY <1>2, <1>3 DEF FdMoved

\* cd.
LEMMA StoreChangeDir ==
  ASSUME NEW s, NEW t, StepSeen(s, t), Proper, NEW name \in NAMES \cup {".", "..", "/"}, DirChanged(s, t, name), Sound(s, {})
  PROVE  Store!Refused \/ Store!ChangeDir
<1> DEFINE cwd == s.current_directory
           q == FileOf(s, cwd).data
           k == Min(SlotsOf(q, name))
           i == t.current_directory
<1>1. /\ Tabled(s) /\ Shows(s) /\ ShowsNext(t) /\ Seen(Files, s)
      /\ current_directory = s.current_directory /\ current_directory' = t.current_directory
      /\ open_files = s.open_files /\ open_files' = t.open_files /\ cwd \in Inodes
  BY StepSees DEF StepSeen
<1>2. CASE SameView(s, t)
  BY <1>1, <1>2, StoreRefused
<1>3. CASE /\ \A j : FileOf(t, j) = FileOf(s, j)
           /\ t.open_files = s.open_files
           /\ \/ t.current_directory = SIMPLEFS_ROOT_INODE
              \/ /\ Found(s, s.current_directory, name) /\ t.current_directory = NamedFile(s, name) /\ name # "/"
                 /\ t.current_directory \in Inodes /\ FileOf(s, t.current_directory).type = "directory"
  <2>1. Files' = Files /\ open_files' = open_files
    BY <1>1, <1>3 DEF Shows, ShowsNext, FileMap
  <2>2. CASE t.current_directory = SIMPLEFS_ROOT_INODE
    BY <1>1, <2>1, <2>2 DEF Store!ChangeDir
  <2>3. CASE /\ Found(s, s.current_directory, name) /\ t.current_directory = NamedFile(s, name) /\ name # "/"
             /\ t.current_directory \in Inodes /\ FileOf(s, t.current_directory).type = "directory"
    <3>1. FileOf(s, cwd).type = "directory" /\ k \in SlotsOf(q, name) /\ i = q[k][2]
      BY <2>3, FindsName DEF NamedFile
    <3>2. k \in DOMAIN q /\ q[k][1] = name
      BY <3>1 DEF SlotsOf
    <3>3. Store!EntriesOf(current_directory) = q
      BY <3>1, StoreEntries DEF EntriesIn
    <3>4. Files[cwd] = FileOf(s, cwd) /\ Files[i] = FileOf(s, i)
      BY <1>1, <2>3 DEF Seen
    <3>5. Paired(q)
      BY <1>1, <3>1, <3>4 DEF Proper, ProperMap
    <3>i. current_directory' = i /\ name \in NAMES \cup {".", ".."}
      BY <1>1, <2>3
    <3> HIDE DEF q, k, i, cwd
    <3>6. q[k] = <<name, i>>
      BY <3>1, <3>2, <3>5 DEF Paired
    <3>7. Store!Names(i, name)
      BY <3>2, <3>3, <3>6 DEF Store!Names
    <3>8. Files[i].type = "directory"
      BY <2>3, <3>4 DEF i
    <3> QED BY <2>1, <3>7, <3>8, <3>i DEF Store!ChangeDir
  <2> QED BY <1>3, <2>2, <2>3
<1> QED BY <1>2, <1>3 DEF DirChanged

\* mkfs, to its end.
LEMMA StoreFormat ==
  ASSUME NEW s, NEW t, ShowsNext(t), t.open_files \in OpenTables, Formatted(s, t), s.fault.kind = "none"
  PROVE  Store!Format
<1> DEFINE root == SIMPLEFS_ROOT_INODE
<1>1. /\ t.current_directory = root /\ \A fd \in Fds : ~t.open_files[fd].used
      /\ FileOf(t, root) = FileWith("directory", TwoDots(root, root))
      /\ \A j \in Inodes \ {root} : FileOf(t, j) = FreeFile
  BY DEF Formatted
<1>2. /\ Files' = [j \in Inodes |-> FileOf(t, j)] /\ current_directory' = t.current_directory
      /\ open_files' = t.open_files /\ DOMAIN t.open_files = Fds
  BY DEF ShowsNext, FileMap, OpenTables
<1>3. FileWith("directory", TwoDots(root, root)) = Store!Directory(Store!Dots(root, root)) /\ FreeFile = Store!Free
  BY DEF FileWith, TwoDots, Store!Directory, Store!Dots, FreeFile, Store!Free
<1>4. \A j \in Inodes : FileOf(t, j) = IF j = root THEN Store!Directory(Store!Dots(root, root)) ELSE Store!Free
  BY <1>1, <1>3
<1>5. Files' = [j \in Inodes |-> IF j = root THEN Store!Directory(Store!Dots(root, root)) ELSE Store!Free]
  BY <1>2, <1>4
<1> QED BY <1>1, <1>2, <1>5 DEF Store!Format

\* A failure or a stop damages only files the call was working on.
LEMMA StoreDamage ==
  ASSUME NEW s, NEW t, Tabled(s), Shows(s), NEW D,
         Files' = [i \in Inodes |-> IF i \in D THEN FileWith("unknown", <<>>) ELSE FileOf(t, i)],
         KeptFiles(s, t, D), Inodes \subseteq D \/ \E f \in Inodes : D \subseteq {f, current_directory},
         \/ current_directory' = current_directory /\ open_files' = open_files
         \/ current_directory' = SIMPLEFS_ROOT_INODE /\ \A fd \in DOMAIN open_files' : ~open_files'[fd].used
  PROVE  Store!Sound /\ Store!Damage
<1>1. /\ \A j \in Inodes : Files[j] = FileOf(s, j) /\ Files[j].type \in {"free", "regular", "directory"}
      /\ Store!Sound
  BY StoreFacts
<1> DEFINE G == Files'
           lost == {f \in Inodes : Files'[f].type = "unknown"}
<1>2. FileWith("unknown", <<>>).type = "unknown"
  BY FileFields
<1>3. \A j \in Inodes : j \in D => G[j].type = "unknown"
  BY <1>2
<1>4. \A j \in Inodes : j \notin D => G[j] = Files[j] /\ G[j].type # "unknown"
  BY <1>1 DEF KeptFiles
<1> HIDE DEF G
<1>5. lost = D \cap Inodes
  BY <1>3, <1>4 DEF G
<1> HIDE DEF lost
<1>6. lost = Inodes \/ \E f \in Inodes : lost \subseteq {f, current_directory}
  BY <1>5
<1>7. \A f \in Inodes \ lost : Files'[f] = Files[f]
  BY <1>4, <1>5 DEF G
<1>8. Store!Damage
  BY <1>6, <1>7 DEF Store!Damage, lost
<1> QED BY <1>1, <1>8

-----------------------------------------------------------------------------
(* The disk and the memory.                                                *)

\* What is on the disk of the files that are not in doubt is what is in memory.
AgreeOn(s, D) ==
  \A j \in Inodes \ D :
    IF s.disk.boot /\ s.disk.info.magic
    THEN (j \in s.disk.info.inode_bitmap <=> j \in s.inode_bitmap) /\ s.disk.inode_table[j] = s.inode_table[j]
    ELSE j \notin s.inode_bitmap

\* A file whose inode and blocks are the same.
LEMMA SameFile ==
  ASSUME NEW s, NEW t, NEW j, j \in t.inode_bitmap <=> j \in s.inode_bitmap, t.inode_table[j] = s.inode_table[j],
         t.disk.blocks = s.disk.blocks
  PROVE  FileOf(t, j) = FileOf(s, j)
<1>1. Content(t, j) = Content(s, j)
  BY DEF Content, read_inode_bytes, get_file_block, read_indirect_block
<1> QED BY <1>1, FileUsed

\* The machine that starts from the disk finds those files.
LEMMA BootKeeps ==
  ASSUME NEW s, NEW r, NEW D, AgreeOn(s, D), Boots(s.disk, r)
  PROVE  KeptFiles(s, r, D) /\ AgreeOn(r, D) /\ AgreeOn(Resume(r), D)
<1> DEFINE d == s.disk
<1>1. /\ r.disk = d
      /\ d.boot /\ d.info.magic => r.inode_bitmap = d.info.inode_bitmap /\ r.inode_table = d.inode_table
      /\ ~(d.boot /\ d.info.magic) => r.inode_bitmap = {}
  BY DEF Boots
<1>2. ASSUME NEW j \in Inodes \ D PROVE FileOf(r, j) = FileOf(s, j)
  <2>1. CASE d.boot /\ d.info.magic
    <3>1. (j \in r.inode_bitmap <=> j \in s.inode_bitmap) /\ r.inode_table[j] = s.inode_table[j] /\ r.disk.blocks = s.disk.blocks
      BY <1>1, <2>1 DEF AgreeOn
    <3> QED BY <3>1, SameFile
  <2>2. CASE ~(d.boot /\ d.info.magic)
    <3>1. j \notin r.inode_bitmap /\ j \notin s.inode_bitmap
      BY <1>1, <2>2 DEF AgreeOn
    <3> QED BY <3>1, FileUsed
  <2> QED BY <2>1, <2>2
<1>3. AgreeOn(r, D)
  BY <1>1 DEF AgreeOn
<1>4. Resume(r).inode_bitmap = r.inode_bitmap /\ Resume(r).inode_table = r.inode_table /\ Resume(r).disk = r.disk
  BY DEF Resume
<1>5. AgreeOn(Resume(r), D)
  BY <1>3, <1>4 DEF AgreeOn
<1> QED BY <1>2, <1>3, <1>5 DEF KeptFiles

\* After a call, whatever happened to it.
LEMMA EffectAgrees ==
  ASSUME NEW t, NEW E, Sound(t, E), Mountable(t.disk)
  PROVE  AgreeOn(t, t.touched) /\ AgreeOn(Resume(t), t.touched)
<1>1. PICK V, T : Good(V, t, T, E)
  BY DEF Sound
<1>2. AgreeOn(t, t.touched)
  BY <1>1 DEF Good, DiskOwns, AgreeOn, Mountable
<1>4. Resume(t).inode_bitmap = t.inode_bitmap /\ Resume(t).inode_table = t.inode_table /\ Resume(t).disk = t.disk
  BY DEF Resume
<1>5. AgreeOn(Resume(t), t.touched)
  BY <1>2, <1>4 DEF AgreeOn
<1> QED BY <1>2, <1>5

-----------------------------------------------------------------------------
(* Directories of the store: pairs with distinct names.                    *)

\* No entries; the two entries of a new directory.
LEMMA PairedNew ==
  ASSUME NEW d \in Inodes, NEW p \in Inodes
  PROVE  Paired(<<>>) /\ Paired(TwoDots(d, p)) /\ IsSequence(TwoDots(d, p))
         /\ \A name \in NAMES : \A k \in DOMAIN TwoDots(d, p) : TwoDots(d, p)[k][1] # name
<1> DEFINE q == TwoDots(d, p)
<1>1. DOMAIN q = {1, 2} /\ q[1] = <<".", d>> /\ q[2] = <<"..", p>>
  BY DEF TwoDots
<1>2. q \in Seq({<<".", d>>, <<"..", p>>})
  BY DEF TwoDots
<1> HIDE DEF q
<1>3. q[1][1] = "." /\ q[2][1] = ".." /\ q[1][2] = d /\ q[2][2] = p
  BY <1>1
<1>4. Paired(q)
  BY <1>1, <1>3 DEF Paired
<1>5. \A name \in NAMES : name # "." /\ name # ".."
  BY SimpleFsAssumption
<1>6. \A name \in NAMES : \A k \in DOMAIN q : q[k][1] # name
  BY <1>1, <1>3, <1>5
<1>7. Paired(<<>>)
  BY DEF Paired
<1> QED BY <1>2, <1>4, <1>6, <1>7 DEF q, IsSequence

\* An entry with a new name.
LEMMA PairedAppend ==
  ASSUME NEW q, IsSequence(q), Paired(q), NEW name \in NAMES, \A k \in DOMAIN q : q[k][1] # name, NEW f \in Inodes
  PROVE  Paired(Append(q, <<name, f>>))
<1> DEFINE e == <<name, f>>
           a == Append(q, e)
<1>1. PICK S : q \in Seq(S)
  BY DEF IsSequence
<1>2. q \in Seq(S \cup {e})
  BY <1>1, SeqMonotonic
<1>3. /\ DOMAIN a = 1 .. Len(q) + 1 /\ Len(q) \in Nat /\ DOMAIN q = 1 .. Len(q)
      /\ a[Len(q) + 1] = e /\ \A k \in 1 .. Len(q) : a[k] = q[k]
  BY <1>2
<1>4. e = <<e[1], e[2]>> /\ e[1] = name /\ e[2] = f
  OBVIOUS
<1> HIDE DEF a, e
<1>5. \A k \in DOMAIN a : k = Len(q) + 1 \/ k \in DOMAIN q
  BY <1>3
<1>6. \A k \in DOMAIN a : a[k] = <<a[k][1], a[k][2]>> /\ a[k][1] \in NAMES \cup {".", ".."} /\ a[k][2] \in Inodes
  BY <1>3, <1>4, <1>5 DEF Paired
<1>7. ASSUME NEW j \in DOMAIN a, NEW k \in DOMAIN a, a[j][1] = a[k][1] PROVE j = k
  <2>1. CASE j \in DOMAIN q /\ k \in DOMAIN q
    BY <1>3, <1>7, <2>1 DEF Paired
  <2>2. CASE j = Len(q) + 1 \/ k = Len(q) + 1
    BY <1>3, <1>4, <1>5, <1>7, <2>2
  <2> QED BY <1>5, <2>1, <2>2
<1>8. Paired(a)
  BY <1>6, <1>7 DEF Paired
<1> QED BY <1>8 DEF a, e

\* The entries without one of them.
LEMMA PairedWithout ==
  ASSUME NEW q, IsSequence(q), Paired(q), NEW k \in DOMAIN q
  PROVE  Paired(Store!Without(q, k))
<1> DEFINE w == Store!Without(q, k)
           at(p) == IF p < k THEN p ELSE p + 1
<1>1. PICK S : q \in Seq(S)
  BY DEF IsSequence
<1>2. DOMAIN q = 1 .. Len(q) /\ Len(q) \in Nat /\ k \in 1 .. Len(q)
  BY <1>1
<1>3. DOMAIN w = 1 .. Len(q) - 1 /\ \A p \in 1 .. Len(q) - 1 : w[p] = q[at(p)]
  BY DEF Store!Without
<1> HIDE DEF w
<1>4. \A p \in DOMAIN w : at(p) \in DOMAIN q
  BY <1>2, <1>3
<1>5. \A p, r \in DOMAIN w : at(p) = at(r) => p = r
  BY <1>2, <1>3
<1> HIDE DEF at
<1>6. \A p \in DOMAIN w : w[p] = <<w[p][1], w[p][2]>> /\ w[p][1] \in NAMES \cup {".", ".."} /\ w[p][2] \in Inodes
  BY <1>3, <1>4 DEF Paired
<1>7. \A p, r \in DOMAIN w : w[p][1] = w[r][1] => p = r
  BY <1>3, <1>4, <1>5 DEF Paired
<1>8. Paired(w)
  BY <1>6, <1>7 DEF Paired
<1> QED BY <1>8 DEF w

\* The store is a function to files with sequences as their contents.
FileTyped(F) == MapOf(F) /\ \A j \in Inodes : F[j] = FileWith(F[j].type, F[j].data) /\ IsSequence(F[j].data)

\* The data of one file changed.
LEMMA ProperData ==
  ASSUME NEW F, FileTyped(F), ProperMap(F), NEW i \in Inodes, NEW new, F[i].type = "directory" => Paired(new)
  PROVE  ProperMap(Redated(F, i, new))
<1> DEFINE G == Redated(F, i, new)
<1>1. F[i] = FileWith(F[i].type, F[i].data) /\ MapOf(F)
  BY DEF FileTyped
<1>2. [FileWith(F[i].type, F[i].data) EXCEPT !.data = new] = FileWith(F[i].type, new)
  BY DEF FileWith
<1>3. G = [F EXCEPT ![i] = FileWith(F[i].type, new)]
  BY <1>1, <1>2 DEF Redated
<1>4. G[i] = FileWith(F[i].type, new) /\ \A j \in Inodes \ {i} : G[j] = F[j]
  BY <1>1, <1>3 DEF MapOf
<1> HIDE DEF G
<1>5. G[i].type = F[i].type /\ G[i].data = new
  BY <1>4, FileFields
<1>6. ProperMap(G)
  BY <1>4, <1>5 DEF ProperMap
<1> QED BY <1>6 DEF G

\* A file was replaced.
LEMMA ProperReplaced ==
  ASSUME NEW F, FileTyped(F), ProperMap(F), NEW i \in Inodes, NEW type, NEW data, IsSequence(data), type = "directory" => Paired(data)
  PROVE  LET G == Replaced(F, i, FileWith(type, data)) IN
         /\ ProperMap(G) /\ FileTyped(G) /\ G[i].type = type /\ G[i].data = data
         /\ \A j \in Inodes \ {i} : G[j] = F[j]
<1> DEFINE X == FileWith(type, data)
           G == Replaced(F, i, X)
<1>1. X.type = type /\ X.data = data
  BY FileFields
<1>2. X = FileWith(X.type, X.data)
  BY <1>1
<1> HIDE DEF X
<1>3. MapOf(G) /\ G[i] = X /\ \A j \in Inodes \ {i} : G[j] = F[j]
  BY DEF Replaced, FileTyped, MapOf
<1> HIDE DEF G
<1>4. FileTyped(G)
  BY <1>1, <1>2, <1>3 DEF FileTyped
<1>5. ProperMap(G)
  BY <1>1, <1>3 DEF ProperMap
<1> QED BY <1>1, <1>3, <1>4, <1>5 DEF G, X

\* What a name that is not taken means.
LEMMA NotTaken ==
  ASSUME FileTyped(Files), Proper, current_directory \in Inodes, NEW name, ~Store!Taken(name),
         Files[current_directory].type = "directory"
  PROVE  \A k \in DOMAIN Files[current_directory].data : Files[current_directory].data[k][1] # name
<1> DEFINE q == Files[current_directory].data
<1>1. Paired(q)
  BY DEF Proper, ProperMap
<1>2. Store!EntriesOf(current_directory) = q
  BY DEF Store!EntriesOf
<1> HIDE DEF q
<1>3. \A f \in Inodes : \A k \in DOMAIN q : q[k] # <<name, f>>
  BY <1>2 DEF Store!Taken, Store!Names
<1>4. \A k \in DOMAIN q : q[k][1] # name
  BY <1>1, <1>3 DEF Paired
<1> QED BY <1>4 DEF q

\* A file is made and named.
LEMMA ProperEntered ==
  ASSUME FileTyped(Files), Proper, current_directory \in Inodes, NEW name \in NAMES, ~Store!Taken(name), NEW f \in Inodes,
         NEW type, NEW data, IsSequence(data),
         type = "directory" => Paired(data) /\ \A k \in DOMAIN data : data[k][1] # name,
         Files' = Store!Entered(Replaced(Files, f, FileWith(type, data)), name, f)
  PROVE  Proper'
<1> DEFINE G == Replaced(Files, f, FileWith(type, data))
           c == current_directory
           q == G[c].data
           new == Append(q, <<name, f>>)
<1>1. /\ ProperMap(G) /\ FileTyped(G) /\ G[f].type = type /\ G[f].data = data
      /\ \A j \in Inodes \ {f} : G[j] = Files[j]
  BY ProperReplaced DEF Proper
<1>2. Files' = [G EXCEPT ![c].data = Append(@, <<name, f>>)]
  BY DEF Store!Entered
<1> HIDE DEF G
<1>3. Files' = Redated(G, c, new)
  BY <1>2 DEF Redated
<1>4. ASSUME G[c].type = "directory" PROVE Paired(new)
  <2>1. Paired(q) /\ IsSequence(q)
    BY <1>1, <1>4 DEF ProperMap, FileTyped
  <2>2. \A k \in DOMAIN q : q[k][1] # name
    <3>1. CASE c = f
      BY <1>1, <1>4, <3>1
    <3>2. CASE c # f
      BY <1>1, <1>4, <3>2, NotTaken
    <3> QED BY <3>1, <3>2
  <2> HIDE DEF q
  <2>3. Paired(Append(q, <<name, f>>))
    BY <2>1, <2>2, PairedAppend
  <2> QED BY <2>3
<1> HIDE DEF new, c
<1>5. ProperMap(Redated(G, c, new))
  BY <1>1, <1>4, ProperData DEF c
<1> QED BY <1>3, <1>5 DEF Proper

\* The steps that make a file.
LEMMA ProperMade ==
  ASSUME FileTyped(Files), Proper, current_directory \in Inodes, NEW name \in NAMES, NEW f \in Inodes,
         Store!NewDirectory(f, name) \/ \E data \in DATA \cup {<<>>} : Store!NewFile(f, name, data)
  PROVE  Proper'
<1>1. ASSUME Store!NewDirectory(f, name) PROVE Proper'
  <2> DEFINE dots == TwoDots(f, current_directory)
  <2>1. /\ Paired(dots) /\ IsSequence(dots) /\ \A k \in DOMAIN dots : dots[k][1] # name
    BY PairedNew
  <2>2. Store!Directory(Store!Dots(f, current_directory)) = FileWith("directory", dots)
    BY DEF Store!Directory, Store!Dots, FileWith, TwoDots
  <2> HIDE DEF dots
  <2>3. ~Store!Taken(name) /\ Files' = Store!Entered(Replaced(Files, f, FileWith("directory", dots)), name, f)
    BY <1>1, <2>2 DEF Store!NewDirectory, Replaced
  <2> QED BY <2>1, <2>3, ProperEntered
<1>2. ASSUME NEW data \in DATA \cup {<<>>}, Store!NewFile(f, name, data) PROVE Proper'
  <2>1. IsSequence(data)
    BY CallsAssumption, <<>> \in Seq(BYTES) DEF IsSequence
  <2>2. Store!Regular(data) = FileWith("regular", data)
    BY DEF Store!Regular, FileWith
  <2>3. ~Store!Taken(name) /\ Files' = Store!Entered(Replaced(Files, f, FileWith("regular", data)), name, f)
    BY <1>2, <2>2 DEF Store!NewFile, Replaced
  <2> QED BY <2>1, <2>3, ProperEntered
<1> QED BY <1>1, <1>2

\* The steps that remove a file.
LEMMA ProperDrop ==
  ASSUME FileTyped(Files), Proper, current_directory \in Inodes, NEW name, NEW f \in Inodes, Store!Drop(f, name)
  PROVE  Proper'
<1> DEFINE c == current_directory
           q == Files[c].data
<1>1. PICK k \in DOMAIN Store!EntriesOf(c) :
        Files' = [Files EXCEPT ![c].data = Store!Without(@, k), ![f] = Store!Free]
  BY DEF Store!Drop
<1>2. Files[c].type = "directory" /\ k \in DOMAIN q
  BY <1>1 DEF Store!EntriesOf
<1>3. Paired(q) /\ IsSequence(q)
  BY <1>2 DEF Proper, ProperMap, FileTyped
<1> DEFINE new == Store!Without(q, k)
           G == Redated(Files, c, new)
<1>4. Store!Free = FreeFile
  BY DEF Store!Free, FreeFile
<1>5. Files' = [G EXCEPT ![f] = FreeFile]
  BY <1>1, <1>4 DEF Redated
<1> HIDE DEF q
<1>6. Paired(new)
  BY <1>2, <1>3, PairedWithout
<1> HIDE DEF new, c
<1>7. ProperMap(G)
  BY <1>6, ProperData DEF Proper, c
<1>8. DOMAIN G = Inodes
  BY DEF Redated, FileTyped, MapOf
<1> HIDE DEF G
<1>9. Files'[f] = FreeFile /\ \A j \in Inodes \ {f} : Files'[j] = G[j]
  BY <1>5, <1>8
<1>10. FreeFile.type # "directory"
  BY FileFields
<1>11. ProperMap(Files')
  BY <1>7, <1>9, <1>10 DEF ProperMap
<1> QED BY <1>11 DEF Proper

\* Every step of the store.
LEMMA ProperNext ==
  ASSUME FileTyped(Files), Proper, current_directory \in Inodes, Store!Next,
         Store!Sound => \A fd \in DOMAIN open_files : open_files[fd].used => open_files[fd].inode_index \in Inodes
  PROVE  Proper'
<1>1. ASSUME Files' = Files PROVE Proper'
  BY <1>1 DEF Proper, ProperMap
<1>2. ASSUME NEW i \in Inodes, NEW new, Files' = Redated(Files, i, new), Files[i].type = "directory" => Paired(new)
      PROVE  Proper'
  <2>1. ProperMap(Redated(Files, i, new))
    BY <1>2, ProperData DEF Proper
  <2> QED BY <1>2, <2>1 DEF Proper
<1>3. ASSUME Store!Format PROVE Proper'
  <2> DEFINE r == SIMPLEFS_ROOT_INODE
  <2>1. r \in Inodes
    BY FsSizes
  <2>2. Files' = [f \in Inodes |-> IF f = r THEN Store!Directory(Store!Dots(r, r)) ELSE Store!Free]
    BY <1>3 DEF Store!Format
  <2>3. Store!Directory(Store!Dots(r, r)).data = TwoDots(r, r) /\ Store!Free.type = "free"
    BY DEF Store!Directory, Store!Dots, Store!Free, TwoDots
  <2>4. Paired(TwoDots(r, r))
    BY <2>1, PairedNew
  <2> HIDE DEF r
  <2>5. \A d \in Inodes : Files'[d].type = "directory" => Paired(Files'[d].data)
    BY <2>2, <2>3, <2>4
  <2> QED BY <2>5 DEF Proper, ProperMap
<1>4. ASSUME Store!DirectoryLost PROVE Proper'
  <2>1. Files' = Redated(Files, current_directory, <<>>)
    BY <1>4 DEF Store!DirectoryLost, Redated
  <2>2. Paired(<<>>)
    BY DEF Paired
  <2> QED BY <1>2, <2>1, <2>2
<1>5. ASSUME NEW f \in Inodes, Store!Rewrite(f) PROVE Proper'
  <2>1. Files' = Redated(Files, f, Files'[f].data) /\ Files[f].type = "regular"
    BY <1>5 DEF Store!Rewrite, Redated
  <2> QED BY <1>2, <2>1
<1>6. ASSUME NEW fd, Store!WriteFd(fd), open_files[fd].used => open_files[fd].inode_index \in Inodes PROVE Proper'
  <2> DEFINE f == open_files[fd].inode_index
  <2>1. Files' = Redated(Files, f, Files'[f].data) /\ Files[f].type = "regular" /\ f \in Inodes
    BY <1>6 DEF Store!WriteFd, Redated
  <2> QED BY <1>2, <2>1
<1>7. ASSUME Store!Damage PROVE Proper'
  <2>1. \A f \in Inodes : Files'[f].type = "unknown" \/ Files'[f] = Files[f]
    BY <1>7 DEF Store!Damage
  <2>2. \A d \in Inodes : Files'[d].type = "directory" => Paired(Files'[d].data)
    BY <2>1 DEF Proper, ProperMap
  <2> QED BY <2>2 DEF Proper, ProperMap
<1>8. Store!Refused \/ Store!Reboot \/ Store!ChangeDir \/ Store!Descriptor => Files' = Files
  BY DEF Store!Refused, Store!Reboot, Store!ChangeDir, Store!Descriptor
<1>9. ASSUME NEW f \in Inodes, \E name \in NAMES \cup {".", ".."} : Store!Drop(f, name) PROVE Proper'
  BY <1>9, ProperDrop
<1>10. ASSUME NEW f \in Inodes, NEW name \in NAMES,
              Store!NewDirectory(f, name) \/ \E data \in DATA \cup {<<>>} : Store!NewFile(f, name, data)
       PROVE  Proper'
  BY <1>10, ProperMade
<1> QED BY <1>1, <1>3, <1>4, <1>5, <1>6, <1>7, <1>8, <1>9, <1>10 DEF Store!Next

-----------------------------------------------------------------------------
(* The steps of the program are steps of the store.                        *)

\* The inductive invariant of the refinement.
StoreInv == FsInv /\ Proper /\ AgreeOn(Now, doubt)
\* What the steps of the program establish.
StoreStep == Store!Next /\ AgreeOn(Now, doubt)'
\* A call works on one file and on the current directory.
WorkedOn(s, t) == Touches(s, t) /\ \E f \in Inodes : t.touched \subseteq s.touched \cup {f, s.current_directory}

\* Nothing in doubt: the disk agrees with the memory.
LEMMA BetweenAgrees ==
  ASSUME NEW s, NEW D, NEW k, Between(s, D, k), D = {}
  PROVE  AgreeOn(s, D)
<1>1. (Ready(s) /\ s.fs_mounted) \/ BlankFs(s)
  BY DEF Between
<1>2. CASE Ready(s)
  BY <1>2 DEF Ready, Synchronous, InfoOf, Mountable, AgreeOn
<1>3. CASE BlankFs(s)
  BY <1>3 DEF BlankFs, AgreeOn
<1> QED BY <1>1, <1>2, <1>3

\* Nothing changes.
LEMMA StoreSame ==
  ASSUME Now' = Now, doubt' = doubt
  PROVE  Store!Next
<1>1. current_directory' = current_directory /\ open_files' = open_files
  <2>1. Now.current_directory = current_directory /\ Now.open_files = open_files
    BY NowFields
  <2>2. Now'.current_directory = current_directory' /\ Now'.open_files = open_files'
    BY DEF Now, Current
  <2> QED BY <2>1, <2>2
<1>2. Files' = Files
  BY DEF Files
<1>3. Store!Refused
  BY <1>1, <1>2 DEF Store!Refused
<1> QED BY <1>3 DEF Store!Next

\* The state in which a call starts.
LEMMA CallStarts ==
  ASSUME Ready(Now), doubt = {}, NEW f \in Faults
  PROVE  LET s == Current(f) IN
         /\ Ready(s) /\ Sound(s, {}) /\ Tabled(s) /\ Shows(s) /\ s.fault = f /\ s.ok = TRUE /\ s.out = <<>> /\ s.touched = {}
         /\ s.current_directory = current_directory /\ s.open_files = open_files /\ s.fs_mounted = fs_mounted
<1> DEFINE s == Current(f)
<1>1. Ready(s) /\ s.fs_mounted = fs_mounted /\ s.fault = f /\ s.ok = TRUE /\ s.out = <<>>
  BY InjectedReady
<1>2. s.touched = {} /\ s.current_directory = current_directory /\ s.open_files = open_files
  BY DEF Current
<1>3. Shows(s)
  BY ShowsNow
<1> HIDE DEF s
<1>4. Sound(s, {}) /\ s.inode_table \in InodeTables /\ s.inode_bitmap \subseteq Inodes /\ s.open_files \in OpenTables
      /\ \E V : s \in FsStates(V)
  BY <1>1, ReadyFields
<1>5. s.current_directory \in Inodes
  BY <1>4, Fields
<1>6. Tabled(s)
  BY <1>4, <1>5 DEF Tabled
<1> QED BY <1>1, <1>2, <1>3, <1>4, <1>6 DEF s

\* A call that ran to its end.
LEMMA CallEnds ==
  ASSUME Ready(Now), doubt = {}, NEW t, Leave(t), doubt' = doubt
  PROVE  StepSeen(Now, t)
<1>1. NoFault \in Faults
  BY DEF NoFault, Faults
<1>2. Tabled(Now) /\ Shows(Now)
  BY <1>1, CallStarts DEF Now
<1>3. ShowsNext(t)
  BY ShowsAfter
<1> QED BY <1>2, <1>3 DEF StepSeen

\* A write of the call fails, and the call goes on.
LEMMA FaultDamages ==
  ASSUME Ready(Now), doubt = {}, NEW f \in Faults, NEW t, Effect(Current(f), t), WorkedOn(Current(f), t),
         Leave(t), doubt' = t.touched
  PROVE  StoreStep
<1> DEFINE s == Current(f)
<1>1. /\ Ready(s) /\ Tabled(s) /\ Shows(s) /\ s.touched = {}
      /\ s.current_directory = current_directory /\ s.open_files = open_files
  BY CallStarts
<1>2. Effect(s, t) /\ WorkedOn(s, t)
  OBVIOUS
<1> HIDE DEF s
<1>3. Sound(t, Exc(t)) /\ SameCaller(s, t) /\ Mountable(t.disk)
  BY <1>1, <1>2 DEF Effect, Changes, Ready
<1>4. /\ Files' = [i \in Inodes |-> IF i \in doubt' THEN FileWith("unknown", <<>>) ELSE FileOf(t, i)]
      /\ current_directory' = t.current_directory /\ open_files' = t.open_files
  BY NextFiles
<1>5. current_directory' = current_directory /\ open_files' = open_files
  BY <1>1, <1>3, <1>4 DEF SameCaller
<1>6. KeptFiles(s, t, t.touched) /\ \E i \in Inodes : t.touched \subseteq {i, current_directory}
  BY <1>1, <1>2 DEF WorkedOn, Touches
<1>7. Files' = [i \in Inodes |-> IF i \in t.touched THEN FileWith("unknown", <<>>) ELSE FileOf(t, i)]
  BY <1>4
<1>8. Store!Sound /\ Store!Damage
  BY <1>1, <1>5, <1>6, <1>7, StoreDamage
<1>9. AgreeOn(Resume(t), t.touched)
  BY <1>3, EffectAgrees
<1>10. AgreeOn(Now, doubt)'
  BY <1>9, NowNext
<1>11. Store!Next
  BY <1>8 DEF Store!Next
<1> QED BY <1>10, <1>11 DEF StoreStep

\* The machine stops in the middle of the call, and starts again.
LEMMA StopDamages ==
  ASSUME Ready(Now), doubt = {}, NEW f \in Faults, NEW t, Effect(Current(f), t), WorkedOn(Current(f), t),
         Leave(simplefs_init(t.disk)), doubt' = t.touched
  PROVE  StoreStep
<1> DEFINE s == Current(f)
           r == simplefs_init(t.disk)
<1>1. /\ Ready(s) /\ Tabled(s) /\ Shows(s) /\ s.touched = {}
      /\ s.current_directory = current_directory /\ s.open_files = open_files
  BY CallStarts
<1>2. Effect(s, t) /\ WorkedOn(s, t)
  OBVIOUS
<1> HIDE DEF s
<1>3. Sound(t, Exc(t)) /\ SameCaller(s, t) /\ Mountable(t.disk)
  BY <1>1, <1>2 DEF Effect, Changes, Ready
<1>4. Boots(t.disk, r)
  <2>1. PICK V : t \in FsStates(V)
    BY <1>3 DEF Sound, Good
  <2>2. PICK U : Now \in FsStates(U)
    BY ReadyFields
  <2>3. t.disk \in Disks(V)
    BY <2>1, Fields
  <2> QED BY <2>2, <2>3, BootsFrom
<1>5. r.current_directory = SIMPLEFS_ROOT_INODE /\ Leave(r)
  BY BootsAtRoot
<1> HIDE DEF r
<1>6. /\ Files' = [i \in Inodes |-> IF i \in doubt' THEN FileWith("unknown", <<>>) ELSE FileOf(r, i)]
      /\ current_directory' = r.current_directory /\ open_files' = r.open_files
  BY <1>5, NextFiles
<1>7. \A fd \in DOMAIN open_files' : ~open_files'[fd].used
  <2>1. PICK W : r \in FsStates(W)
    BY <1>4 DEF Boots
  <2>2. DOMAIN r.open_files = Fds
    BY <2>1, Fields DEF OpenTables
  <2> QED BY <1>4, <1>6, <2>2 DEF Boots
<1>8. AgreeOn(t, t.touched)
  BY <1>3, EffectAgrees
<1>9. KeptFiles(t, r, t.touched) /\ AgreeOn(Resume(r), t.touched)
  BY <1>4, <1>8, BootKeeps
<1>10. KeptFiles(s, t, t.touched) /\ \E i \in Inodes : t.touched \subseteq {i, current_directory}
  BY <1>1, <1>2 DEF WorkedOn, Touches
<1>11. KeptFiles(s, r, t.touched)
  BY <1>9, <1>10 DEF KeptFiles
<1>12. Files' = [i \in Inodes |-> IF i \in t.touched THEN FileWith("unknown", <<>>) ELSE FileOf(r, i)]
  BY <1>6
<1>13. Store!Sound /\ Store!Damage
  BY <1>1, <1>5, <1>6, <1>7, <1>10, <1>11, <1>12, StoreDamage
<1>14. AgreeOn(Now, doubt)'
  BY <1>5, <1>9, NowNext
<1>15. Store!Next
  BY <1>13 DEF Store!Next
<1> QED BY <1>14, <1>15 DEF StoreStep

\* A call that writes nothing, or writes a descriptor.
LEMMA QuietStore ==
  ASSUME StoreInv, FsInv', doubt = {}, NEW t, BlankFs(Now) => t = Fail(Now), Leave(t), doubt' = doubt,
         Ready(Now) /\ StepSeen(Now, t) => Store!Next
  PROVE  StoreStep
<1>1. AgreeOn(Now, doubt)'
  <2>1. Between(Now', doubt', fault') /\ doubt' = {}
    BY DEF FsInv
  <2> QED BY <2>1, BetweenAgrees
<1>2. CASE Ready(Now)
  BY <1>1, <1>2, CallEnds DEF StoreStep
<1>3. CASE BlankFs(Now)
  <2>1. Now' = Now
    BY <1>3, NowNext, FailResumes
  <2> QED BY <1>1, <2>1, StoreSame DEF StoreStep
<1> QED BY <1>2, <1>3 DEF StoreInv, FsInv, Between

\* A call that may write, whatever happens to it.
LEMMA DoesStore ==
  ASSUME StoreInv, FsInv', doubt = {}, NEW g, Serves(g), Performs(g),
         Ready(Now) => \A f \in Faults : WorkedOn(Current(f), g[f]),
         Ready(Now) /\ StepSeen(Now, g[NoFault]) /\ Callers(Now, g[NoFault]) => Store!Next
  PROVE  StoreStep
<1>1. (Ready(Now) /\ fs_mounted) \/ BlankFs(Now)
  BY NowFields DEF StoreInv, FsInv, Between
<1>2. NoFault \in Faults
  BY DEF NoFault, Faults
<1>3. CASE Leave(g[NoFault]) /\ doubt' = doubt
  <2> DEFINE t == g[NoFault]
  <2>1. Leave(t) /\ (BlankFs(Now) => t = Fail(Now))
    BY <1>3 DEF Serves
  <2>2. ASSUME Ready(Now), StepSeen(Now, t) PROVE Store!Next
    <3>1. CASE fs_mounted
      <4>1. Effect(Now, t)
        BY <1>2, <2>2, <3>1 DEF Serves, Now
      <4>2. Callers(Now, t)
        BY <4>1 DEF Effect, Changes, SameCaller, Callers
      <4> QED BY <2>2, <4>2
    <3>2. CASE ~fs_mounted
      <4>1. t = Fail(Now)
        BY <1>1, <2>1, <3>2
      <4>2. Now' = Now
        BY <2>1, <4>1, NowNext, FailResumes
      <4> QED BY <1>3, <4>2, StoreSame
    <3> QED BY <3>1, <3>2
  <2> HIDE DEF t
  <2> QED BY <1>3, <2>1, <2>2, QuietStore
<1>4. ASSUME NEW at \in 0 .. g[NoFault].done - 1 PROVE Ready(Now) /\ fs_mounted
  <2>1. ASSUME BlankFs(Now) PROVE FALSE
    <3>1. g[NoFault].done = 0
      BY <2>1, NowFields DEF Serves, Fail, Now, Current
    <3> QED BY <1>4, <3>1
  <2> QED BY <1>1, <2>1
<1>5. ASSUME NEW kind \in {"lost", "late"}, NEW at \in 0 .. g[NoFault].done - 1,
             Leave(g[[kind |-> kind, at |-> at]]), doubt' = g[[kind |-> kind, at |-> at]].touched
      PROVE  StoreStep
  <2> DEFINE f == [kind |-> kind, at |-> at]
             t == g[f]
  <2>1. f \in Faults
    BY DEF Faults
  <2>2. Leave(t) /\ doubt' = t.touched
    BY <1>5
  <2> HIDE DEF f
  <2>3. Effect(Current(f), t) /\ WorkedOn(Current(f), t) /\ Ready(Now)
    BY <1>4, <2>1 DEF Serves
  <2> HIDE DEF t
  <2> QED BY <2>1, <2>2, <2>3, FaultDamages
<1>6. ASSUME NEW at \in 0 .. g[NoFault].done - 1,
             Leave(simplefs_init(g[[kind |-> "stop", at |-> at]].disk)), doubt' = g[[kind |-> "stop", at |-> at]].touched
      PROVE  StoreStep
  <2> DEFINE f == [kind |-> "stop", at |-> at]
             t == g[f]
  <2>1. f \in Faults
    BY DEF Faults
  <2>2. Leave(simplefs_init(t.disk)) /\ doubt' = t.touched
    BY <1>6
  <2> HIDE DEF f
  <2>3. Effect(Current(f), t) /\ WorkedOn(Current(f), t) /\ Ready(Now)
    BY <1>4, <2>1 DEF Serves
  <2> HIDE DEF t
  <2> QED BY <2>1, <2>2, <2>3, StopDamages
<1> QED BY <1>3, <1>5, <1>6 DEF Performs

\* A file or directory was made, or the call failed.
LEMMA MadeStore ==
  ASSUME NEW s, NEW t, StepSeen(s, t), Callers(s, t), s.fault.kind = "none",
         NEW type \in {"regular", "directory"}, NEW name, Makes(s, t, type, name)
  PROVE  Store!Next
<1>1. Store!Sound
  BY StepSees
<1>2. CASE t.ok
  <2>1. PICK f : NewEntry(s, t, f, Newborn(type, f, s.current_directory), name)
    BY <1>2 DEF Makes
  <2>2. CASE type = "regular"
    <3>1. NewEntry(s, t, f, FileWith("regular", <<>>), name)
      BY <2>1, <2>2 DEF Newborn
    <3>2. f \in Inodes /\ name \in NAMES /\ Store!NewFile(f, name, <<>>)
      BY <3>1, StoreNewFile
    <3> QED BY <1>1, <3>2 DEF Store!Next
  <2>3. CASE type = "directory"
    <3>1. f \in Inodes /\ name \in NAMES /\ Store!NewDirectory(f, name)
      BY <2>1, <2>3, StoreNewDirectory
    <3> QED BY <1>1, <3>1 DEF Store!Next
  <2> QED BY <2>2, <2>3
<1>3. CASE ~t.ok
  <2>1. Store!Refused \/ Store!DirectoryLost
    BY <1>3, StoreLost DEF Makes
  <2> QED BY <1>1, <2>1 DEF Store!Next
<1> QED BY <1>2, <1>3

\* A name was removed, or the call failed.
LEMMA RemovedStore ==
  ASSUME NEW s, NEW t, Sound(s, {}), StepSeen(s, t), Callers(s, t), s.fault.kind = "none", Proper,
         NEW name, RemovesFile(s, t, name)
  PROVE  Store!Next
<1>1. Store!Sound
  BY StepSees
<1>2. CASE t = Fail(s)
  <2>1. SameView(s, t) /\ Shows(s) /\ ShowsNext(t)
    BY <1>2, FailView DEF StepSeen
  <2>2. Store!Refused
    BY <2>1, StoreRefused
  <2> QED BY <2>2 DEF Store!Next
<1>3. CASE CwdLost(s, t)
  <2>1. Store!Refused \/ Store!DirectoryLost
    BY <1>3, StoreLost
  <2> QED BY <1>1, <2>1 DEF Store!Next
<1>4. CASE Dropped(s, t, NamedFile(s, name), name) /\ Removable(s, NamedFile(s, name))
  <2> DEFINE i == NamedFile(s, name)
  <2>1. i \in Inodes /\ name \in NAMES \cup {".", ".."} /\ Store!Drop(i, name)
    BY <1>4, StoreDrop
  <2> HIDE DEF i
  <2> QED BY <1>1, <2>1 DEF Store!Next
<1> QED BY <1>2, <1>3, <1>4 DEF RemovesFile, Removes

\* A call that removes a name works on its file and on the directory.
LEMMA RemovesWork ==
  ASSUME NEW s, NEW t, Sound(s, {}), s.current_directory \in Inodes, NEW name, RemovesFile(s, t, name)
  PROVE  WorkedOn(s, t)
<1>1. CASE t = Fail(s)
  <2>1. (\A j : FileOf(t, j) = FileOf(s, j)) /\ t.touched = s.touched /\ t.fault = s.fault
    BY <1>1, FailFiles
  <2>2. Touches(s, t)
    BY <2>1, TouchesNone
  <2> QED BY <2>1, <2>2 DEF WorkedOn
<1>2. CASE Removes(s, t, NamedFile(s, name), name) /\ Removable(s, NamedFile(s, name))
  <2> DEFINE i == NamedFile(s, name)
  <2>1. i \in Inodes /\ Touches(s, t) /\ t.touched \subseteq s.touched \cup {i, s.current_directory}
    BY <1>2 DEF Removes, Removable
  <2> QED BY <2>1 DEF WorkedOn
<1> QED BY <1>1, <1>2 DEF RemovesFile

\* A file was written, or the call failed.
LEMMA WrittenStore ==
  ASSUME NEW s, NEW t, StepSeen(s, t), Callers(s, t), s.fault.kind = "none", NEW name, NEW data \in DATA,
         NEW new, WritesName(s, t, name, new),
         new = data \/ (Found(s, s.current_directory, name) /\ new = FileOf(s, NamedFile(s, name)).data \o data)
  PROVE  Store!Next
<1>1. Store!Sound
  BY StepSees
<1>2. CASE CwdLost(s, t)
  <2>1. Store!Refused \/ Store!DirectoryLost
    BY <1>2, StoreLost
  <2> QED BY <1>1, <2>1 DEF Store!Next
<1>3. CASE Found(s, s.current_directory, name) /\ Rewritten(s, t, NamedFile(s, name), new)
  <2> DEFINE i == NamedFile(s, name)
  <2>1. Rewritten(s, t, i, new) /\ (new \in DATA \/ \E d \in DATA : new = FileOf(s, i).data \o d)
    BY <1>3
  <2> HIDE DEF i
  <2>2. i \in Inodes /\ Store!Rewrite(i)
    BY <2>1, StoreRewrite
  <2> QED BY <1>1, <2>2 DEF Store!Next
<1>4. CASE /\ ~Found(s, s.current_directory, name)
           /\ \E f, now : now \in {<<>>, new} /\ NewEntry(s, t, f, FileWith("regular", now), name)
  <2>1. PICK f, now : now \in {<<>>, new} /\ NewEntry(s, t, f, FileWith("regular", now), name)
    BY <1>4
  <2>2. f \in Inodes /\ name \in NAMES /\ Store!NewFile(f, name, now) /\ now \in DATA \cup {<<>>}
    BY <1>4, <2>1, StoreNewFile
  <2> QED BY <1>1, <2>2 DEF Store!Next
<1> QED BY <1>2, <1>3, <1>4 DEF WritesName, Written

\* touch does to the files what the store says.
LEMMA TouchStore ==
  ASSUME StoreInv, FsInv', NEW name, Touch(name)
  PROVE  StoreStep
<1> DEFINE g == [f \in Faults |-> simplefs_create(Current(f), name)]
<1>0. FsInv
  BY DEF StoreInv
<1>1. doubt = {} /\ Serves(g) /\ Performs(g)
  BY <1>0, TouchServes
<1>2. ASSUME Ready(Now), NEW f \in Faults PROVE WorkedOn(Current(f), g[f])
  <2> DEFINE s == Current(f)
             t == simplefs_create(s, name)
  <2>1. Sound(s, {}) /\ s.ok /\ s.out = <<>> /\ s.current_directory \in Inodes
    BY <1>1, <1>2, CallStarts DEF Tabled
  <2> HIDE DEF s
  <2>2. Makes(s, t, "regular", name)
    BY <2>1, CreatesFile
  <2>3. WorkedOn(s, t)
    BY <2>2 DEF Makes, WorkedOn
  <2> QED BY <2>3 DEF s
<1>3. ASSUME Ready(Now), StepSeen(Now, g[NoFault]), Callers(Now, g[NoFault]) PROVE Store!Next
  <2> DEFINE t == simplefs_create(Now, name)
  <2>1. NoFault \in Faults /\ g[NoFault] = t
    BY DEF NoFault, Faults, Now
  <2>2. Sound(Now, {}) /\ Now.ok /\ Now.out = <<>> /\ Now.fault.kind = "none" /\ Proper
    BY <1>3, NowFields DEF Ready, NoFault, StoreInv
  <2>3. StepSeen(Now, t) /\ Callers(Now, t)
    BY <1>3, <2>1
  <2>4. Makes(Now, t, "regular", name)
    BY <2>2, CreatesFile
  <2> HIDE DEF t
  <2> QED BY <2>2, <2>3, <2>4, MadeStore
<1> HIDE DEF g
<1> QED BY <1>1, <1>2, <1>3, DoesStore

\* mkdir does to the files what the store says.
LEMMA MakeDirStore ==
  ASSUME StoreInv, FsInv', NEW name, MakeDir(name)
  PROVE  StoreStep
<1> DEFINE g == [f \in Faults |-> simplefs_make_dir(Current(f), name)]
<1>0. FsInv
  BY DEF StoreInv
<1>1. doubt = {} /\ Serves(g) /\ Performs(g)
  BY <1>0, MakeDirServes
<1>2. ASSUME Ready(Now), NEW f \in Faults PROVE WorkedOn(Current(f), g[f])
  <2> DEFINE s == Current(f)
             t == simplefs_make_dir(s, name)
  <2>1. Sound(s, {}) /\ s.ok /\ s.out = <<>> /\ s.current_directory \in Inodes
    BY <1>1, <1>2, CallStarts DEF Tabled
  <2> HIDE DEF s
  <2>2. Makes(s, t, "directory", name)
    BY <2>1, CreatesDirectory
  <2>3. WorkedOn(s, t)
    BY <2>2 DEF Makes, WorkedOn
  <2> QED BY <2>3 DEF s
<1>3. ASSUME Ready(Now), StepSeen(Now, g[NoFault]), Callers(Now, g[NoFault]) PROVE Store!Next
  <2> DEFINE t == simplefs_make_dir(Now, name)
  <2>1. NoFault \in Faults /\ g[NoFault] = t
    BY DEF NoFault, Faults, Now
  <2>2. Sound(Now, {}) /\ Now.ok /\ Now.out = <<>> /\ Now.fault.kind = "none" /\ Proper
    BY <1>3, NowFields DEF Ready, NoFault, StoreInv
  <2>3. StepSeen(Now, t) /\ Callers(Now, t)
    BY <1>3, <2>1
  <2>4. Makes(Now, t, "directory", name)
    BY <2>2, CreatesDirectory
  <2> HIDE DEF t
  <2> QED BY <2>2, <2>3, <2>4, MadeStore
<1> HIDE DEF g
<1> QED BY <1>1, <1>2, <1>3, DoesStore

\* rm does to the files what the store says.
LEMMA RemoveStore ==
  ASSUME StoreInv, FsInv', NEW name, Remove(name)
  PROVE  StoreStep
<1> DEFINE g == [f \in Faults |-> simplefs_delete(Current(f), name)]
<1>0. FsInv
  BY DEF StoreInv
<1>1. doubt = {} /\ Serves(g) /\ Performs(g)
  BY <1>0, RemoveServes
<1>2. ASSUME Ready(Now), NEW f \in Faults PROVE WorkedOn(Current(f), g[f])
  <2> DEFINE s == Current(f)
             t == simplefs_delete(s, name)
  <2>1. Sound(s, {}) /\ s.ok /\ s.out = <<>> /\ s.current_directory \in Inodes
    BY <1>1, <1>2, CallStarts DEF Tabled
  <2> HIDE DEF s
  <2>2. RemovesFile(s, t, name)
    BY <2>1, DeletesFile
  <2>3. WorkedOn(s, t)
    BY <2>1, <2>2, RemovesWork
  <2> QED BY <2>3 DEF s
<1>3. ASSUME Ready(Now), StepSeen(Now, g[NoFault]), Callers(Now, g[NoFault]) PROVE Store!Next
  <2> DEFINE t == simplefs_delete(Now, name)
  <2>1. NoFault \in Faults /\ g[NoFault] = t
    BY DEF NoFault, Faults, Now
  <2>2. Sound(Now, {}) /\ Now.ok /\ Now.out = <<>> /\ Now.fault.kind = "none" /\ Proper
    BY <1>3, NowFields DEF Ready, NoFault, StoreInv
  <2>3. StepSeen(Now, t) /\ Callers(Now, t)
    BY <1>3, <2>1
  <2>4. RemovesFile(Now, t, name)
    BY <2>2, DeletesFile
  <2> HIDE DEF t
  <2> QED BY <2>2, <2>3, <2>4, RemovedStore
<1> HIDE DEF g
<1> QED BY <1>1, <1>2, <1>3, DoesStore

\* rmdir does to the files what the store says.
LEMMA RemoveDirStore ==
  ASSUME StoreInv, FsInv', NEW name, RemoveDir(name)
  PROVE  StoreStep
<1> DEFINE g == [f \in Faults |-> simplefs_remove_dir(Current(f), name)]
<1>0. FsInv
  BY DEF StoreInv
<1>1. doubt = {} /\ Serves(g) /\ Performs(g)
  BY <1>0, RemoveDirServes
<1>2. ASSUME Ready(Now), NEW f \in Faults PROVE WorkedOn(Current(f), g[f])
  <2> DEFINE s == Current(f)
             t == simplefs_remove_dir(s, name)
  <2>1. Sound(s, {}) /\ s.ok /\ s.out = <<>> /\ s.current_directory \in Inodes
    BY <1>1, <1>2, CallStarts DEF Tabled
  <2> HIDE DEF s
  <2>2. RemovesFile(s, t, name)
    BY <2>1, DeletesDirectory
  <2>3. WorkedOn(s, t)
    BY <2>1, <2>2, RemovesWork
  <2> QED BY <2>3 DEF s
<1>3. ASSUME Ready(Now), StepSeen(Now, g[NoFault]), Callers(Now, g[NoFault]) PROVE Store!Next
  <2> DEFINE t == simplefs_remove_dir(Now, name)
  <2>1. NoFault \in Faults /\ g[NoFault] = t
    BY DEF NoFault, Faults, Now
  <2>2. Sound(Now, {}) /\ Now.ok /\ Now.out = <<>> /\ Now.fault.kind = "none" /\ Proper
    BY <1>3, NowFields DEF Ready, NoFault, StoreInv
  <2>3. StepSeen(Now, t) /\ Callers(Now, t)
    BY <1>3, <2>1
  <2>4. RemovesFile(Now, t, name)
    BY <2>2, DeletesDirectory
  <2> HIDE DEF t
  <2> QED BY <2>2, <2>3, <2>4, RemovedStore
<1> HIDE DEF g
<1> QED BY <1>1, <1>2, <1>3, DoesStore

\* write does to the files what the store says.
LEMMA WriteFileStore ==
  ASSUME StoreInv, FsInv', NEW name, NEW data \in DATA, WriteFile(name, data)
  PROVE  StoreStep
<1> DEFINE g == [f \in Faults |-> simplefs_write_file(Current(f), name, data)]
<1>0. FsInv /\ IsSequence(data)
  BY CallsAssumption DEF StoreInv, IsSequence
<1>1. doubt = {} /\ Serves(g) /\ Performs(g)
  BY <1>0, WriteFileServes
<1>2. ASSUME Ready(Now), NEW f \in Faults PROVE WorkedOn(Current(f), g[f])
  <2> DEFINE s == Current(f)
             t == simplefs_write_file(s, name, data)
  <2>1. Sound(s, {}) /\ s.ok /\ s.out = <<>> /\ s.current_directory \in Inodes
    BY <1>1, <1>2, CallStarts DEF Tabled
  <2> HIDE DEF s
  <2>2. WritesName(s, t, name, data)
    BY <1>0, <2>1, WritesNamed
  <2>3. WorkedOn(s, t)
    BY <2>2 DEF WritesName, WorkedOn
  <2> QED BY <2>3 DEF s
<1>3. ASSUME Ready(Now), StepSeen(Now, g[NoFault]), Callers(Now, g[NoFault]) PROVE Store!Next
  <2> DEFINE t == simplefs_write_file(Now, name, data)
  <2>1. NoFault \in Faults /\ g[NoFault] = t
    BY DEF NoFault, Faults, Now
  <2>2. Sound(Now, {}) /\ Now.ok /\ Now.out = <<>> /\ Now.fault.kind = "none" /\ Proper
    BY <1>3, NowFields DEF Ready, NoFault, StoreInv
  <2>3. StepSeen(Now, t) /\ Callers(Now, t)
    BY <1>3, <2>1
  <2>4. WritesName(Now, t, name, data)
    BY <1>0, <2>2, WritesNamed
  <2> HIDE DEF t
  <2> QED BY <2>2, <2>3, <2>4, WrittenStore
<1> HIDE DEF g
<1> QED BY <1>1, <1>2, <1>3, DoesStore

\* append does to the files what the store says.
LEMMA AppendFileStore ==
  ASSUME StoreInv, FsInv', NEW name, NEW data \in DATA, AppendFile(name, data)
  PROVE  StoreStep
<1> DEFINE g == [f \in Faults |-> simplefs_append_file(Current(f), name, data)]
<1>0. FsInv /\ IsSequence(data)
  BY CallsAssumption DEF StoreInv, IsSequence
<1>1. doubt = {} /\ Serves(g) /\ Performs(g)
  BY <1>0, AppendFileServes
<1>2. ASSUME Ready(Now), NEW f \in Faults PROVE WorkedOn(Current(f), g[f])
  <2> DEFINE s == Current(f)
             t == simplefs_append_file(s, name, data)
  <2>1. Sound(s, {}) /\ s.ok /\ s.out = <<>> /\ s.current_directory \in Inodes
    BY <1>1, <1>2, CallStarts DEF Tabled
  <2> HIDE DEF s
  <2>2. WritesName(s, t, name, Extended(s, name, data))
    BY <1>0, <2>1, AppendsNamed
  <2>3. WorkedOn(s, t)
    BY <2>2 DEF WritesName, WorkedOn
  <2> QED BY <2>3 DEF s
<1>3. ASSUME Ready(Now), StepSeen(Now, g[NoFault]), Callers(Now, g[NoFault]) PROVE Store!Next
  <2> DEFINE t == simplefs_append_file(Now, name, data)
  <2>1. NoFault \in Faults /\ g[NoFault] = t
    BY DEF NoFault, Faults, Now
  <2>2. Sound(Now, {}) /\ Now.ok /\ Now.out = <<>> /\ Now.fault.kind = "none" /\ Proper
    BY <1>3, NowFields DEF Ready, NoFault, StoreInv
  <2>3. StepSeen(Now, t) /\ Callers(Now, t)
    BY <1>3, <2>1
  <2>4. WritesName(Now, t, name, Extended(Now, name, data))
    BY <1>0, <2>2, AppendsNamed
  <2> DEFINE new == Extended(Now, name, data)
  <2>5. new = data \/ (Found(Now, Now.current_directory, name) /\ new = FileOf(Now, NamedFile(Now, name)).data \o data)
    BY DEF Extended
  <2> HIDE DEF t, new
  <2>6. WritesName(Now, t, name, new)
    BY <2>4 DEF new
  <2> QED BY <2>2, <2>3, <2>5, <2>6, WrittenStore
<1> HIDE DEF g
<1> QED BY <1>1, <1>2, <1>3, DoesStore

\* open does to the files what the store says.
LEMMA OpenStore ==
  ASSUME StoreInv, FsInv', NEW name, Open(name)
  PROVE  StoreStep
<1> DEFINE t == simplefs_open(Now, name)
<1>1. doubt = {} /\ Leave(t) /\ doubt' = doubt
  BY DEF Open, Quiet, Completes, Now
<1>2. BlankFs(Now) => t = Fail(Now)
  BY BlankRefuses
<1>3. ASSUME Ready(Now), StepSeen(Now, t) PROVE Store!Next
  <2>1. Store!Sound
    BY <1>3, StepSees
  <2>2. FdMoved(Now, t)
    BY <1>3, OpensFile
  <2> HIDE DEF t
  <2>3. Store!Refused \/ Store!Descriptor
    BY <1>3, <2>2, StoreDescriptor
  <2> QED BY <2>1, <2>3 DEF Store!Next
<1> HIDE DEF t
<1> QED BY <1>1, <1>2, <1>3, QuietStore

\* close does to the files what the store says.
LEMMA CloseStore ==
  ASSUME StoreInv, FsInv', NEW fd \in Fds, Close(fd)
  PROVE  StoreStep
<1> DEFINE t == simplefs_close(Now, fd)
<1>1. doubt = {} /\ Leave(t) /\ doubt' = doubt
  BY DEF Close, Quiet, Completes, Now
<1>2. BlankFs(Now) => t = Fail(Now)
  BY BlankDescriptors
<1>3. ASSUME Ready(Now), StepSeen(Now, t) PROVE Store!Next
  <2>1. Store!Sound
    BY <1>3, StepSees
  <2>2. FdMoved(Now, t)
    BY <1>3, ClosesFile
  <2> HIDE DEF t
  <2>3. Store!Refused \/ Store!Descriptor
    BY <1>3, <2>2, StoreDescriptor
  <2> QED BY <2>1, <2>3 DEF Store!Next
<1> HIDE DEF t
<1> QED BY <1>1, <1>2, <1>3, QuietStore

\* read on a descriptor does to the files what the store says.
LEMMA ReadFdStore ==
  ASSUME StoreInv, FsInv', NEW fd \in Fds, ReadFd(fd)
  PROVE  StoreStep
<1> DEFINE t == simplefs_read_fd(Now, fd)
<1>1. doubt = {} /\ Leave(t) /\ doubt' = doubt
  BY DEF ReadFd, Quiet, Completes, Now
<1>2. BlankFs(Now) => t = Fail(Now)
  BY BlankDescriptors
<1>3. ASSUME Ready(Now), StepSeen(Now, t) PROVE Store!Next
  <2>1. Store!Sound
    BY <1>3, StepSees
  <2>2. FdMoved(Now, t)
    BY <1>3, ReadsAndSeeks
  <2> HIDE DEF t
  <2>3. Store!Refused \/ Store!Descriptor
    BY <1>3, <2>2, StoreDescriptor
  <2> QED BY <2>1, <2>3 DEF Store!Next
<1> HIDE DEF t
<1> QED BY <1>1, <1>2, <1>3, QuietStore

\* seek does to the files what the store says.
LEMMA SeekStore ==
  ASSUME StoreInv, FsInv', NEW fd \in Fds, NEW offset \in Nat, Seek(fd, offset)
  PROVE  StoreStep
<1> DEFINE t == simplefs_seek(Now, fd, offset)
<1>1. doubt = {} /\ Leave(t) /\ doubt' = doubt
  BY DEF Seek, Quiet, Completes, Now
<1>2. BlankFs(Now) => t = Fail(Now)
  BY BlankDescriptors
<1>3. ASSUME Ready(Now), StepSeen(Now, t) PROVE Store!Next
  <2>1. Store!Sound
    BY <1>3, StepSees
  <2>2. FdMoved(Now, t)
    BY <1>3, ReadsAndSeeks
  <2> HIDE DEF t
  <2>3. Store!Refused \/ Store!Descriptor
    BY <1>3, <2>2, StoreDescriptor
  <2> QED BY <2>1, <2>3 DEF Store!Next
<1> HIDE DEF t
<1> QED BY <1>1, <1>2, <1>3, QuietStore

\* cd does to the files what the store says.
LEMMA ChangeDirStore ==
  ASSUME StoreInv, FsInv', NEW name \in NAMES \cup {".", "..", "/"}, ChangeDir(name)
  PROVE  StoreStep
<1> DEFINE t == simplefs_change_dir(Now, name)
<1>1. doubt = {} /\ Leave(t) /\ doubt' = doubt
  BY DEF ChangeDir, Quiet, Completes, Now
<1>2. BlankFs(Now) => t = Fail(Now)
  BY BlankRefuses
<1>3. ASSUME Ready(Now), StepSeen(Now, t) PROVE Store!Next
  <2>1. Store!Sound
    BY <1>3, StepSees
  <2>2. DirChanged(Now, t, name)
    BY <1>3, ChangesDirectory
  <2>3. Sound(Now, {}) /\ Proper
    BY <1>3 DEF Ready, StoreInv
  <2> HIDE DEF t
  <2>4. Store!Refused \/ Store!ChangeDir
    BY <1>3, <2>2, <2>3, StoreChangeDir
  <2> QED BY <2>1, <2>4 DEF Store!Next
<1> HIDE DEF t
<1> QED BY <1>1, <1>2, <1>3, QuietStore

\* A fault that strikes a write on a descriptor leaves no inode in doubt but the
\* file's.
LEMMA StruckWorks ==
  ASSUME Ready(Now), doubt = {}, NEW f \in Faults, f.kind # "none", NEW fd \in Fds, NEW data, IsSequence(data),
         f.at < simplefs_write_fd(Current(f), fd, data).done
  PROVE  /\ Effect(Current(f), simplefs_write_fd(Current(f), fd, data))
         /\ WorkedOn(Current(f), simplefs_write_fd(Current(f), fd, data))
<1> DEFINE s == Current(f)
           i == s.open_files[fd].inode_index
           new == Overwritten(read_inode_bytes(s, i, 0, SIMPLEFS_MAX_FILE_SIZE), s.open_files[fd].offset, data)
           w == write_inode_data(s, i, new)
           t == simplefs_write_fd(s, fd, data)
<1>1. Ready(s) /\ Sound(s, {}) /\ s.fault = f
  BY CallStarts
<1>2. s.done = 0
  BY DEF Current
<1>3. t = w /\ IsRegular(s, i) /\ IsSequence(new) /\ Effect(s, w)
  <2> HIDE DEF s
  <2>1. s.fault.kind # "none" /\ s.fault.at < simplefs_write_fd(s, fd, data).done
    BY <1>1 DEF s
  <2> QED BY <1>1, <1>2, <2>1, WriteStruck
<1> HIDE DEF s
<1>4. BytesStored(s, w, i, new)
  <2> HIDE DEF new, i
  <2> QED BY <1>1, <1>3, StoresBytes DEF w
<1> HIDE DEF w, new, i
<1>5. WorkedOn(s, w)
  BY <1>4 DEF BytesStored, WorkedOn
<1> QED BY <1>3, <1>5 DEF t, s

\* write on a descriptor does to the files what the store says.
LEMMA WriteFdStore ==
  ASSUME StoreInv, FsInv', NEW fd \in Fds, NEW data \in DATA, WriteFd(fd, data)
  PROVE  StoreStep
<1> DEFINE g == [f \in Faults |-> simplefs_write_fd(Current(f), fd, data)]
           u == simplefs_write_fd(Now, fd, data)
<1>1. IsSequence(data)
  BY CallsAssumption DEF IsSequence
<1>2. doubt = {} /\ Performs(g)
  BY <1>1, WriteFdEndures DEF StoreInv
<1>3. NoFault \in Faults
  BY DEF NoFault, Faults
<1>4. g[NoFault] = u
  BY <1>3 DEF Now
<1>5. BlankFs(Now) => u = Fail(Now)
  BY BlankDescriptors
<1>6. ASSUME Ready(Now), StepSeen(Now, u) PROVE Store!Next
  <2>1. Store!Sound
    BY <1>6, StepSees
  <2>2. Now.fault.kind = "none"
    BY NowFields DEF NoFault
  <2>3. FdWritten(Now, u, fd, data)
    BY <1>1, <1>6, <2>2, WritesDescriptor
  <2> HIDE DEF u
  <2>4. Store!Refused \/ (\E f \in Inodes : Store!Rewrite(f)) \/ Store!WriteFd(fd)
    BY <1>6, <2>3, StoreWriteFd
  <2>5. DOMAIN open_files = Fds
    BY <1>6, NowFields DEF StepSeen, Tabled, OpenTables
  <2> QED BY <2>1, <2>4, <2>5 DEF Store!Next
<1>7. ASSUME NEW f \in Faults, f.kind # "none", Ready(Now), f.at < g[f].done
      PROVE  Effect(Current(f), g[f]) /\ WorkedOn(Current(f), g[f])
  <2>1. g[f] = simplefs_write_fd(Current(f), fd, data)
    OBVIOUS
  <2> HIDE DEF g
  <2> QED BY <1>1, <1>2, <1>7, <2>1, StruckWorks
<1> HIDE DEF g, u
<1>8. CASE Leave(g[NoFault]) /\ doubt' = doubt
  BY <1>2, <1>4, <1>5, <1>6, <1>8, QuietStore
<1>9. ASSUME NEW at \in 0 .. g[NoFault].done - 1 PROVE Ready(Now)
  <2>1. ASSUME BlankFs(Now) PROVE FALSE
    <3>1. g[NoFault].done = 0
      BY <1>4, <1>5, <2>1 DEF Fail, Now, Current
    <3> QED BY <1>9, <3>1
  <2> QED BY <1>2, <2>1 DEF StoreInv, FsInv, Between
<1>10. ASSUME NEW kind \in {"lost", "late"}, NEW at \in 0 .. g[NoFault].done - 1,
              at < g[[kind |-> kind, at |-> at]].done,
              Leave(g[[kind |-> kind, at |-> at]]), doubt' = g[[kind |-> kind, at |-> at]].touched
       PROVE  StoreStep
  <2> DEFINE f == [kind |-> kind, at |-> at]
             t == g[f]
  <2>1. f \in Faults /\ f.kind # "none" /\ f.at = at
    BY DEF Faults
  <2>2. Leave(t) /\ doubt' = t.touched /\ at < t.done
    BY <1>10
  <2> HIDE DEF f
  <2>3. Ready(Now)
    BY <1>9
  <2>4. Effect(Current(f), t) /\ WorkedOn(Current(f), t)
    BY <1>7, <2>1, <2>2, <2>3
  <2> HIDE DEF t
  <2> QED BY <1>2, <2>1, <2>2, <2>3, <2>4, FaultDamages
<1>11. ASSUME NEW at \in 0 .. g[NoFault].done - 1, at < g[[kind |-> "stop", at |-> at]].done,
              Leave(simplefs_init(g[[kind |-> "stop", at |-> at]].disk)), doubt' = g[[kind |-> "stop", at |-> at]].touched
       PROVE  StoreStep
  <2> DEFINE f == [kind |-> "stop", at |-> at]
             t == g[f]
  <2>1. f \in Faults /\ f.kind # "none" /\ f.at = at
    BY DEF Faults
  <2>2. Leave(simplefs_init(t.disk)) /\ doubt' = t.touched /\ at < t.done
    BY <1>11
  <2> HIDE DEF f
  <2>3. Ready(Now)
    BY <1>9
  <2>4. Effect(Current(f), t) /\ WorkedOn(Current(f), t)
    BY <1>7, <2>1, <2>2, <2>3
  <2> HIDE DEF t
  <2> QED BY <1>2, <2>1, <2>2, <2>3, <2>4, StopDamages
<1> QED BY <1>2, <1>8, <1>10, <1>11 DEF Performs

\* mkfs makes a new store, or loses the old one.
LEMMA FormatStore ==
  ASSUME StoreInv, FsInv', Format
  PROVE  StoreStep
<1> DEFINE t(f) == simplefs_format(Current(f))
<1>1. PICK V : Now \in FsStates(V)
  BY DEF StoreInv, FsInv, Between
<1>2. ASSUME NEW f \in Faults
      PROVE  LET s == Current(f) IN
             /\ Formats(s, t(f)) /\ Formatted(s, t(f)) /\ Tabled(s)
             /\ s.fault = f /\ s.current_directory = current_directory /\ s.open_files = open_files
  <2> DEFINE s == Current(f)
  <2>1. s \in FsStates(V)
    BY <1>1, InjectedState
  <2>2. Formats(s, simplefs_format(s)) /\ Formatted(s, simplefs_format(s))
    BY <2>1, FormatWorks, FormatsFiles
  <2>3. Tabled(s)
    BY <2>1, Fields DEF Tabled
  <2> QED BY <2>2, <2>3 DEF Current
<1>3. CASE Leave(t(NoFault)) /\ doubt' = {} /\ fault' = "none"
  <2> DEFINE u == t(NoFault)
  <2>1. NoFault \in Faults /\ NoFault.kind = "none"
    BY DEF NoFault, Faults
  <2>2. Formats(Now, u) /\ Formatted(Now, u) /\ Now.fault.kind = "none"
    BY <1>2, <2>1 DEF Now
  <2>3. Leave(u) /\ doubt' = {}
    BY <1>3
  <2> HIDE DEF u
  <2>4. ShowsNext(u)
    BY <2>3, ShowsAfter
  <2>5. u.open_files \in OpenTables
    <3>1. PICK W : u \in FsStates(W)
      BY <2>2 DEF Formats, Sound, Good
    <3> QED BY <3>1, Fields
  <2>6. Store!Format
    BY <2>2, <2>4, <2>5, StoreFormat
  <2>7. AgreeOn(Now, doubt)'
    <3>1. Between(Now', doubt', fault') /\ doubt' = {}
      BY <2>3 DEF FsInv
    <3> QED BY <3>1, BetweenAgrees
  <2> QED BY <2>6, <2>7 DEF StoreStep, Store!Next
<1>4. ASSUME doubt = {}, NEW f \in Faults, NEW r, Leave(r), doubt' = Inodes,
             \/ r.current_directory = current_directory /\ r.open_files = open_files
             \/ r.current_directory = SIMPLEFS_ROOT_INODE /\ \A fd \in DOMAIN r.open_files : ~r.open_files[fd].used
      PROVE  StoreStep
  <2> DEFINE s == Current(f)
  <2>1. Tabled(s) /\ Shows(s)
    BY <1>2, <1>4, ShowsNow
  <2>2. /\ Files' = [i \in Inodes |-> IF i \in doubt' THEN FileWith("unknown", <<>>) ELSE FileOf(r, i)]
        /\ current_directory' = r.current_directory /\ open_files' = r.open_files
    BY <1>4, NextFiles
  <2>3. Files' = [i \in Inodes |-> IF i \in Inodes THEN FileWith("unknown", <<>>) ELSE FileOf(r, i)]
    BY <1>4, <2>2
  <2>4. KeptFiles(s, r, Inodes)
    BY DEF KeptFiles
  <2> HIDE DEF s
  <2>5. Store!Sound /\ Store!Damage
    BY <1>4, <2>1, <2>2, <2>3, <2>4, StoreDamage
  <2>6. AgreeOn(Now, doubt)'
    BY <1>4 DEF AgreeOn
  <2> QED BY <2>5, <2>6 DEF StoreStep, Store!Next
<1>5. ASSUME doubt = {}, NEW f \in Faults, Leave(t(f)), doubt' = t(f).touched PROVE StoreStep
  <2> DEFINE u == t(f)
  <2>1. /\ Formats(Current(f), u) /\ Formatted(Current(f), u)
        /\ Current(f).current_directory = current_directory /\ Current(f).open_files = open_files
    BY <1>2
  <2>2. Leave(u) /\ doubt' = u.touched
    BY <1>5
  <2> HIDE DEF u
  <2>3. doubt' = Inodes
    BY <2>1, <2>2 DEF Formats
  <2>4. DOMAIN u.open_files = Fds
    <3>1. PICK W : u \in FsStates(W)
      BY <2>1 DEF Formats, Sound, Good
    <3> QED BY <3>1, Fields DEF OpenTables
  <2>5. \/ u.current_directory = current_directory /\ u.open_files = open_files
        \/ u.current_directory = SIMPLEFS_ROOT_INODE /\ \A fd \in DOMAIN u.open_files : ~u.open_files[fd].used
    BY <2>1, <2>4 DEF Formatted
  <2> QED BY <1>4, <1>5, <2>2, <2>3, <2>5
<1>6. ASSUME doubt = {}, NEW f \in Faults, Leave(simplefs_init(t(f).disk)), doubt' = t(f).touched PROVE StoreStep
  <2> DEFINE u == t(f)
             r == simplefs_init(u.disk)
  <2>1. Formats(Current(f), u)
    BY <1>2
  <2>2. Leave(r) /\ doubt' = u.touched
    BY <1>6
  <2> HIDE DEF u
  <2>3. doubt' = Inodes
    BY <2>1, <2>2 DEF Formats
  <2>4. PICK W : u \in FsStates(W)
    BY <2>1 DEF Formats, Sound, Good
  <2>5. u.disk \in Disks(W)
    BY <2>4, Fields
  <2>6. Boots(u.disk, r)
    BY <1>1, <2>5, BootsFrom
  <2>7. r.current_directory = SIMPLEFS_ROOT_INODE
    BY BootsAtRoot
  <2> HIDE DEF r
  <2>8. \A fd \in DOMAIN r.open_files : ~r.open_files[fd].used
    <3>1. PICK U : r \in FsStates(U)
      BY <2>6 DEF Boots
    <3>2. DOMAIN r.open_files = Fds
      BY <3>1, Fields DEF OpenTables
    <3> QED BY <2>6, <3>2 DEF Boots
  <2> QED BY <1>4, <1>6, <2>2, <2>3, <2>7, <2>8
<1>7. \/ Leave(t(NoFault)) /\ doubt' = {} /\ fault' = "none"
      \/ doubt = {} /\ \E f \in Faults : Leave(t(f)) /\ doubt' = t(f).touched
      \/ doubt = {} /\ \E f \in Faults : Leave(simplefs_init(t(f).disk)) /\ doubt' = t(f).touched
  BY FormatWays
<1> QED BY <1>3, <1>5, <1>6, <1>7

\* The machine is switched off and started again.
LEMMA RebootStore ==
  ASSUME StoreInv, Reboot
  PROVE  StoreStep
<1> DEFINE r == simplefs_init(disk)
<1>1. PICK V : Now \in FsStates(V)
  BY DEF StoreInv, FsInv, Between
<1>2. disk \in Disks(V) /\ Now.disk = disk
  BY <1>1, Fields, NowFields
<1>3. Boots(Now.disk, r)
  BY <1>1, <1>2, BootsFrom
<1>4. Leave(r) /\ doubt' = doubt
  BY DEF Reboot
<1>5. r.current_directory = SIMPLEFS_ROOT_INODE
  BY BootsAtRoot
<1> HIDE DEF r
<1>6. KeptFiles(Now, r, doubt) /\ AgreeOn(Resume(r), doubt)
  BY <1>3, BootKeeps DEF StoreInv
<1>7. /\ Files' = [i \in Inodes |-> IF i \in doubt' THEN FileWith("unknown", <<>>) ELSE FileOf(r, i)]
      /\ current_directory' = r.current_directory /\ open_files' = r.open_files
  BY <1>4, NextFiles
<1>8. Files' = Files
  BY <1>4, <1>6, <1>7 DEF Files, KeptFiles, FileWith
<1>9. \A fd \in DOMAIN r.open_files : ~r.open_files[fd].used
  <2>1. PICK U : r \in FsStates(U)
    BY <1>3 DEF Boots
  <2>2. DOMAIN r.open_files = Fds
    BY <2>1, Fields DEF OpenTables
  <2> QED BY <1>3, <2>2 DEF Boots
<1>10. Store!Reboot
  BY <1>5, <1>7, <1>8, <1>9 DEF Store!Reboot
<1>11. AgreeOn(Now, doubt)'
  BY <1>4, <1>6, NowNext
<1> QED BY <1>10, <1>11 DEF StoreStep, Store!Next

\* Every step of the program is a step of the store.
LEMMA StoreSteps ==
  ASSUME StoreInv, FsNext, FsInv'
  PROVE  StoreStep
<1>1. ASSUME NEW name, Touch(name) \/ Remove(name) \/ MakeDir(name) \/ Open(name) \/ RemoveDir(name)
      PROVE  StoreStep
  BY <1>1, TouchStore, RemoveStore, MakeDirStore, OpenStore, RemoveDirStore
<1>2. ASSUME NEW name \in NAMES \cup {".", "..", "/"}, ChangeDir(name) PROVE StoreStep
  BY <1>2, ChangeDirStore
<1>3. ASSUME NEW name, NEW data \in DATA, WriteFile(name, data) \/ AppendFile(name, data) PROVE StoreStep
  BY <1>3, WriteFileStore, AppendFileStore
<1>4. ASSUME NEW fd \in Fds, \/ Close(fd) \/ ReadFd(fd)
                             \/ \E data \in DATA : WriteFd(fd, data)
                             \/ \E offset \in OFFSETS : Seek(fd, offset)
      PROVE  StoreStep
  <2>1. ASSUME NEW data \in DATA, WriteFd(fd, data) PROVE StoreStep
    BY <2>1, WriteFdStore
  <2>2. ASSUME NEW offset \in OFFSETS, Seek(fd, offset) PROVE StoreStep
    <3>1. offset \in Nat
      BY CallsAssumption
    <3> QED BY <2>2, <3>1, SeekStore
  <2> QED BY <1>4, <2>1, <2>2, CloseStore, ReadFdStore
<1> QED BY <1>1, <1>2, <1>3, <1>4, FormatStore, RebootStore DEF FsNext

\* The store and its caller are what their types say.
LEMMA StoreTyped ==
  ASSUME FsInv
  PROVE  /\ FileTyped(Files) /\ current_directory \in Inodes
         /\ Store!Sound => \A fd \in DOMAIN open_files : open_files[fd].used => open_files[fd].inode_index \in Inodes
<1>1. PICK V : Now \in FsStates(V)
  BY DEF FsInv, Between
<1>2. /\ Now.inode_table \in InodeTables /\ Now.inode_bitmap \subseteq Inodes
      /\ current_directory \in Inodes /\ open_files \in OpenTables
  BY <1>1, Fields, NowFields
<1>3. FileTyped(Files)
  <2>1. \A i : /\ FileOf(Now, i) = FileWith(FileOf(Now, i).type, FileOf(Now, i).data)
               /\ FileOf(Now, i).type \in {"free", "regular", "directory"} /\ IsSequence(FileOf(Now, i).data)
    BY <1>2, FileFacts
  <2>2. IsSequence(<<>>)
    <3>1. <<>> \in Seq({})
      OBVIOUS
    <3> QED BY <3>1 DEF IsSequence
  <2>3. ASSUME NEW i \in Inodes PROVE Files[i] = FileWith(Files[i].type, Files[i].data) /\ IsSequence(Files[i].data)
    <3>1. CASE i \in doubt
      <4>1. Files[i] = FileWith("unknown", <<>>)
        BY <3>1 DEF Files, FileWith
      <4>2. Files[i].type = "unknown" /\ Files[i].data = <<>>
        BY <4>1 DEF FileWith
      <4> QED BY <2>2, <4>1, <4>2
    <3>2. CASE i \notin doubt
      <4>1. Files[i] = FileOf(Now, i)
        BY <3>2 DEF Files
      <4> QED BY <2>1, <4>1
    <3> QED BY <3>1, <3>2
  <2>4. MapOf(Files)
    BY DEF MapOf, Files
  <2> QED BY <2>3, <2>4 DEF FileTyped
<1>4. ASSUME Store!Sound, NEW fd \in DOMAIN open_files, open_files[fd].used
      PROVE  open_files[fd].inode_index \in Inodes
  <2>1. doubt = {}
    <3>1. doubt \subseteq Inodes
      BY DEF FsInv, Between
    <3> QED BY <1>4, <3>1 DEF Store!Sound, Files
  <2>2. fd \in Fds
    BY <1>2, <1>4 DEF OpenTables
  <2>3. AliveIn(Now)
    BY <2>1, NowFields DEF FsInv, Between, BlankFs, Ready, AliveIn
  <2>4. IsRegular(Now, open_files[fd].inode_index)
    BY <1>4, <2>2, <2>3, NowFields DEF AliveIn
  <2> QED BY <1>2, <2>4 DEF IsRegular
<1> QED BY <1>2, <1>3, <1>4

\* At power on the store is empty.
LEMMA StoreBegins ==
  ASSUME FsInit
  PROVE  StoreInv /\ Store!Init
<1>1. FsInv
  BY InitHolds
<1>2. Files = [i \in Inodes |-> FreeFile] /\ doubt = {}
  BY NowFields DEF FsInit, Files, FileOf, FreeFile
<1>3. Proper
  BY <1>2 DEF Proper, ProperMap, FreeFile
<1>4. AgreeOn(Now, doubt)
  <2>1. Between(Now, doubt, fault) /\ doubt = {}
    BY <1>1, <1>2 DEF FsInv
  <2> QED BY <2>1, BetweenAgrees
<1>5. \A fd \in DOMAIN open_files : ~open_files[fd].used
  BY DEF FsInit, reset_open_files
<1>6. Store!Init
  BY <1>2, <1>5 DEF Store!Init, Store!Free, FsInit, FreeFile
<1> QED BY <1>1, <1>3, <1>4, <1>6 DEF StoreInv

\* The step of the store, and of its invariant.
LEMMA StoreInvStep ==
  ASSUME StoreInv, [FsNext]_fs_vars
  PROVE  StoreInv' /\ [Store!Next]_<<Files, current_directory, open_files>>
<1>1. FsInv'
  BY FsStep, FsStutters DEF StoreInv
<1>2. StoreStep
  <2>1. CASE FsNext
    BY <1>1, <2>1, StoreSteps
  <2>2. CASE UNCHANGED fs_vars
    <3>1. Now' = Now /\ doubt' = doubt
      BY <2>2 DEF Now, Current, fs_vars, memory
    <3>2. AgreeOn(Now', doubt')
      BY <3>1 DEF StoreInv
    <3> QED BY <3>1, <3>2, StoreSame DEF StoreStep
  <2> QED BY <2>1, <2>2
<1>3. Proper'
  BY <1>2, StoreTyped, ProperNext DEF StoreInv, StoreStep
<1> QED BY <1>1, <1>2, <1>3 DEF StoreInv, StoreStep

\* Between calls the tables are sound, every directory holds pairs of a name
\* and an inode with no name twice, and disk and memory agree on every inode
\* that no interrupted call was working on.
THEOREM StoreInvariant == FsSpec => []StoreInv
<1>1. FsInit => StoreInv
  BY StoreBegins
<1>2. StoreInv /\ [FsNext]_fs_vars => StoreInv'
  BY StoreInvStep
<1> QED BY <1>1, <1>2, PTL DEF FsSpec

\* Every call of simplefs.c, with every fault of the disk, every stop of the
\* machine and every restart, does to the files what the abstract store says:
\* a file holds what was written to it, and no call touches another file.
THEOREM FsImplementsStore == FsSpec => ImplementsStore
<1>1. FsInit => Store!Init
  BY StoreBegins
<1>2. StoreInv /\ [FsNext]_fs_vars => [Store!Next]_<<Files, current_directory, open_files>>
  BY StoreInvStep
<1> QED BY <1>1, <1>2, StoreInvariant, PTL DEF FsSpec, ImplementsStore, Store!Spec

\* The tables keep their types, a descriptor refers to a file that exists, and
\* no directory names two files alike, after every call and every fault.
THEOREM TablesAlwaysSound == FsSpec => []TablesSound
<1>1. StoreInv => NamesUnique
  <2> SUFFICES ASSUME StoreInv, NEW d \in Inodes \ doubt
               PROVE  LET entries == read_directory_entries(Now, d) IN
                      \A j, k \in DOMAIN entries : entries[j][1] = entries[k][1] => j = k
    BY DEF NamesUnique
  <2> DEFINE F == FileOf(Now, d)
  <2>1. Now.inode_table \in InodeTables /\ Now.inode_bitmap \subseteq Inodes
    <3>1. PICK V : Now \in FsStates(V)
      BY DEF StoreInv, FsInv, Between
    <3> QED BY <3>1, Fields
  <2>2. read_directory_entries(Now, d) = EntriesIn(F)
    BY <2>1, FileFacts
  <2>3. Files[d] = F
    BY DEF Files
  <2>4. F.type = "directory" => Paired(F.data)
    BY <2>3 DEF StoreInv, Proper, ProperMap
  <2> HIDE DEF F
  <2>5. \A j, k \in DOMAIN EntriesIn(F) : EntriesIn(F)[j][1] = EntriesIn(F)[k][1] => j = k
    BY <2>4 DEF EntriesIn, Paired
  <2> QED BY <2>2, <2>5
<1> QED BY <1>1, StoreInvariant, FsTyped, DescriptorsAlive, PTL DEF TablesSound
=============================================================================
