---------------------------- MODULE VfsFile_proofs ----------------------------
(***************************************************************************)
(* Proofs about VfsFile: whatever the layout of the disk, the size of a    *)
(* block and the calls, files have blocks of their own for all they hold,  *)
(* and until a defect strikes they are what FileStore promises.            *)
(***************************************************************************)
EXTENDS VfsFile, NatFacts, SequenceTheorems, TLAPS

\* The lemmas about the allocator.
AP == INSTANCE Ext2Alloc_proofs
        WITH block_bitmap <- fs.block_bitmap, inode_bitmap <- fs.inode_bitmap,
             i_block <- fs.i_block, written <- {}, failed <- fs.failed, misfreed <- {}

-------------------------------------------------------------------------------
(* The allocator *)

InUse(bb, b) == A!Offset(b) \in bb[A!GroupOf(b)]
Allocated(ib, n) == A!InodeIndex(n) \in ib[A!InodeGroup(n)]

LEMMA SameOperators ==
  /\ AP!Group = A!Group /\ AP!BlockBit = A!BlockBit /\ AP!InodeBit = A!InodeBit
  /\ AP!DataBlock = A!DataBlock /\ AP!Inode = A!Inode
  /\ \A b, bb : AP!InUse(bb, b) <=> InUse(bb, b)
  /\ \A n, ib : AP!Taken(ib, n) <=> Allocated(ib, n)
  /\ \A bb, g : AP!ballocs(bb, g) = A!ballocs(bb, g)
  /\ \A ib : AP!ialloc(ib) = A!ialloc(ib)
  /\ AP!Layout = A!Layout
<1>0. \A S : A!Min(S) = Min(S) /\ AP!Min(S) = Min(S)
  BY DEF A!Min, AP!Min, Min
<1>1. AP!Group = A!Group /\ AP!BlockBit = A!BlockBit /\ AP!InodeBit = A!InodeBit
  BY DEF AP!Group, A!Group, AP!BlockBit, A!BlockBit, AP!InodeBit, A!InodeBit
<1>2. AP!DataBlock = A!DataBlock /\ AP!Inode = A!Inode
  BY <1>1 DEF AP!DataBlock, A!DataBlock, AP!Inode, A!Inode,
              AP!get_group_index, A!get_group_index
<1>3. \A b, bb : AP!InUse(bb, b) <=> InUse(bb, b)
  BY DEF AP!InUse, InUse, AP!Offset, A!Offset, AP!GroupOf, A!GroupOf
<1>4. \A n, ib : AP!Taken(ib, n) <=> Allocated(ib, n)
  BY DEF AP!Taken, Allocated, AP!InodeIndex, A!InodeIndex, AP!InodeGroup, A!InodeGroup
<1>5. ASSUME NEW bb, NEW g
      PROVE  AP!ballocs(bb, g) = A!ballocs(bb, g)
  <2>1. \A i : AP!ClearBits(bb, i) = A!ClearBits(bb, i)
    BY <1>1 DEF AP!ClearBits, A!ClearBits
  <2>2. \A k : AP!Visited(g, k) = A!Visited(g, k)
    BY DEF AP!Visited, A!Visited
  <2> DEFINE hits == {k \in 0 .. full_group_count - 2 :
                        A!ClearBits(bb, A!Visited(g, k)) # {}}
             i == A!Visited(g, Min(hits))
  <2>3. A!ballocs(bb, g) = IF g \notin A!Group \/ hits = {} THEN 0
                           ELSE i * blocks_per_group + 1 + Min(A!ClearBits(bb, i))
    BY <1>0 DEF A!ballocs, A!get_group_index, A!EXT2M_I_BLOCK_END
  <2> DEFINE hits2 == {k \in 0 .. full_group_count - 2 :
                        AP!ClearBits(bb, AP!Visited(g, k)) # {}}
             i2 == AP!Visited(g, Min(hits2))
  <2>4. AP!ballocs(bb, g) = IF g \notin AP!Group \/ hits2 = {} THEN 0
                            ELSE i2 * blocks_per_group + 1 + Min(AP!ClearBits(bb, i2))
    BY <1>0 DEF AP!ballocs, AP!get_group_index, AP!EXT2M_I_BLOCK_END
  <2>5. hits = hits2
    BY <2>1, <2>2
  <2> HIDE DEF hits, hits2
  <2>6. i = i2
    BY <2>2, <2>5
  <2> HIDE DEF i, i2
  <2> QED BY <1>1, <2>1, <2>3, <2>4, <2>5, <2>6
<1>6. ASSUME NEW ib
      PROVE  AP!ialloc(ib) = A!ialloc(ib)
  <2>1. \A i : AP!Candidates(ib, i) = A!Candidates(ib, i)
    BY <1>1 DEF AP!Candidates, A!Candidates
  <2> DEFINE open1 == {i \in A!Group : A!Candidates(ib, i) # {}}
             open2 == {i \in AP!Group : AP!Candidates(ib, i) # {}}
  <2>2. open1 = open2
    BY <1>1, <2>1
  <2>3. A!ialloc(ib) = IF open1 = {} THEN 0
          ELSE Min(A!Candidates(ib, Min(open1))) + Min(open1) * inodes_per_group + 1
    BY <1>0 DEF A!ialloc
  <2>4. AP!ialloc(ib) = IF open2 = {} THEN 0
          ELSE Min(AP!Candidates(ib, Min(open2))) + Min(open2) * inodes_per_group + 1
    BY <1>0 DEF AP!ialloc
  <2> HIDE DEF open1, open2
  <2> QED BY <2>1, <2>2, <2>3, <2>4
<1>7. AP!Layout = A!Layout
  BY DEF AP!Layout, A!Layout
<1> QED BY <1>1, <1>2, <1>3, <1>4, <1>5, <1>6, <1>7

LEMMA LayoutFacts ==
  /\ AP!Layout
  /\ blocks_per_group \in Nat \ {0} /\ reserved \in Nat /\ reserved < blocks_per_group
  /\ inodes_per_group \in Nat \ {0} /\ full_group_count \in Nat \ {0, 1}
  /\ s_first_ino \in Nat /\ s_first_ino > ROOT_INODE
  /\ ROOT_INODE \in Nat \ {0} /\ ROOT_INODE < inodes_per_group
  /\ EXT2_DIRECT_BLOCKS \in Nat \ {0}
BY LayoutAssumption, SameOperators DEF A!Layout

\* Blocks and inodes are numbers but 0.
LEMMA Numbers ==
  /\ \A b \in A!DataBlock : b \in Nat \ {0} /\ b # Junk
                           /\ A!GroupOf(b) \in A!Group /\ A!Offset(b) \in A!BlockBit
  /\ \A n \in A!Inode : n \in Nat \ {0} /\ n \div inodes_per_group \in Nat
  /\ \A n \in A!Inode : n >= s_first_ino => n - 1 \in A!Inode
<1>1. ASSUME NEW b \in A!DataBlock
      PROVE  b \in Nat \ {0} /\ b # Junk
             /\ A!GroupOf(b) \in A!Group /\ A!Offset(b) \in A!BlockBit
  BY AP!DataBlockAddress, LayoutFacts, SameOperators
     DEF Junk, AP!GroupOf, A!GroupOf, AP!Offset, A!Offset
<1>2. \A n \in A!Inode : n \in Nat \ {0} /\ n \div inodes_per_group \in Nat
  BY AP!InodeAddress, AP!InodeGroupNumber, LayoutFacts, SameOperators
<1>3. \A n \in A!Inode : n >= s_first_ino => n - 1 \in A!Inode
  BY LayoutFacts DEF A!Inode
<1> QED BY <1>1, <1>2, <1>3

\* ialloc finds an inode that is free, and setting its bit takes it alone.
LEMMA NewInode ==
  ASSUME NEW ib \in [A!Group -> SUBSET A!InodeBit], NEW n, n = A!ialloc(ib), n # 0
  PROVE  /\ n \in A!Inode /\ n >= s_first_ino /\ ~Allocated(ib, n)
         /\ A!SetInode(ib, n) \in [A!Group -> SUBSET A!InodeBit]
         /\ \A m \in A!Inode : Allocated(A!SetInode(ib, n), m) <=> Allocated(ib, m) \/ m = n
<1>1. n \in A!Inode /\ n >= s_first_ino /\ ~Allocated(ib, n)
  BY AP!IallocFindsDead, LayoutFacts, SameOperators
<1>2. A!SetInode(ib, n) = AP!SetInode(ib, n)
  BY DEF A!SetInode, AP!SetInode, A!InodeGroup, AP!InodeGroup, A!InodeIndex, AP!InodeIndex
<1>3. /\ AP!SetInode(ib, n) \in [A!Group -> SUBSET A!InodeBit]
      /\ \A m \in A!Inode : Allocated(AP!SetInode(ib, n), m) <=> Allocated(ib, m) \/ m = n
  BY <1>1, AP!SetInodeRevives, LayoutFacts, SameOperators
<1> QED BY <1>1, <1>2, <1>3

LEMMA FreedInode ==
  ASSUME NEW ib \in [A!Group -> SUBSET A!InodeBit], NEW n \in A!Inode
  PROVE  /\ A!ResetInode(ib, n) \in [A!Group -> SUBSET A!InodeBit]
         /\ \A m \in A!Inode : Allocated(A!ResetInode(ib, n), m) <=> Allocated(ib, m) /\ m # n
<1>1. A!ResetInode(ib, n) = AP!ResetInode(ib, n)
  BY DEF A!ResetInode, AP!ResetInode, A!InodeGroup, AP!InodeGroup, A!InodeIndex, AP!InodeIndex
<1>2. /\ AP!ResetInode(ib, n) \in [A!Group -> SUBSET A!InodeBit]
      /\ \A m \in A!Inode : Allocated(AP!ResetInode(ib, n), m) <=> Allocated(ib, m) /\ m # n
  BY AP!ResetInodeKills, LayoutFacts, SameOperators
<1> QED BY <1>1, <1>2

Marked(bb) == \A i \in A!Group : 0 .. reserved - 1 \subseteq bb[i]

\* ballocs finds a block that is free, and setting its bit takes it alone.
LEMMA FreeBlock ==
  ASSUME NEW bb \in [A!Group -> SUBSET A!BlockBit], Marked(bb),
         NEW g \in Nat, NEW b, b = A!ballocs(bb, g), b # A!EXT2M_I_BLOCK_END
  PROVE  /\ b \in A!DataBlock /\ ~InUse(bb, b)
         /\ A!SetBlock(bb, b) \in [A!Group -> SUBSET A!BlockBit]
         /\ Marked(A!SetBlock(bb, b))
         /\ \A c \in A!DataBlock : InUse(A!SetBlock(bb, b), c) <=> InUse(bb, c) \/ c = b
<1>1. b # AP!EXT2M_I_BLOCK_END
  BY DEF A!EXT2M_I_BLOCK_END, AP!EXT2M_I_BLOCK_END
<1>2. b \in A!DataBlock /\ ~InUse(bb, b)
  BY <1>1, AP!BallocsFindsFree, LayoutFacts, SameOperators DEF Marked
<1>3. A!SetBlock(bb, b) = AP!SetBlock(bb, b)
  BY DEF A!SetBlock, AP!SetBlock, A!GroupOf, AP!GroupOf, A!Offset, AP!Offset
<1>4. /\ AP!SetBlock(bb, b) \in [A!Group -> SUBSET A!BlockBit]
      /\ \A i \in A!Group : bb[i] \subseteq AP!SetBlock(bb, b)[i]
      /\ \A c \in A!DataBlock : InUse(AP!SetBlock(bb, b), c) <=> InUse(bb, c) \/ c = b
  BY <1>2, AP!SetBlockMarks, LayoutFacts, SameOperators
<1> QED BY <1>2, <1>3, <1>4 DEF Marked

LEMMA FreedBlocks ==
  ASSUME NEW bb \in [A!Group -> SUBSET A!BlockBit], Marked(bb), NEW S \in SUBSET A!DataBlock
  PROVE  /\ A!ResetBlocks(bb, S) \in [A!Group -> SUBSET A!BlockBit]
         /\ Marked(A!ResetBlocks(bb, S))
         /\ \A c \in A!DataBlock : InUse(A!ResetBlocks(bb, S), c) <=> InUse(bb, c) /\ c \notin S
<1>1. A!ResetBlocks(bb, S) = AP!ResetBlocks(bb, S)
  BY SameOperators DEF A!ResetBlocks, AP!ResetBlocks, A!GroupOf, AP!GroupOf, A!Offset, AP!Offset
<1>2. /\ AP!ResetBlocks(bb, S) \in [A!Group -> SUBSET A!BlockBit]
      /\ \A i \in A!Group : bb[i] \cap 0 .. reserved - 1 \subseteq AP!ResetBlocks(bb, S)[i]
      /\ \A c \in A!DataBlock : InUse(AP!ResetBlocks(bb, S), c) <=> InUse(bb, c) /\ c \notin S
  BY AP!ResetBlocksClears, LayoutFacts, SameOperators
<1> QED BY <1>1, <1>2 DEF Marked

-------------------------------------------------------------------------------
(* The inductive invariant, of a state f of the file system *)

\* A pointer block comes when no direct slot is left, and points to one block
\* at most.
PointersJunk(f) ==
  \A n \in A!Inode : f.pointers[n] # <<>> =>
    /\ ~DirectLeft(f, n)
    /\ Len(f.pointers[n]) = JunkWords
    /\ \A k \in 2 .. JunkWords : f.pointers[n][k] = Junk

\* Every name has an inode of its own, which is in use.
NamesApart(f) ==
  \A name \in Name : f.entry[name] # 0 =>
    /\ f.entry[name] >= s_first_ino
    /\ Allocated(f.inode_bitmap, f.entry[name])
    /\ \A other \in Name : f.entry[other] = f.entry[name] => other = name

Shape(f) ==
  /\ f \in FsType
  /\ \A n \in A!Inode : Len(f.i_block[n]) <= EXT2_DIRECT_BLOCKS
  /\ Marked(f.block_bitmap)
  /\ PointersJunk(f)
  /\ NamesApart(f)

\* n has blocks for its bytes and the one after them; a write that wraps may
\* leave a file with a pointer block without ...
Backing(f, n) ==
  f.i_size[n] > 0 => BlockOf(f.i_size[n]) < Len(get_inode_all_blocks(f, n))
Backed(f, n) ==
  f.pointers[n] = <<>> \/ f.defects = {} => Backing(f, n)

\* ... which are blocks of the disk.
Solid(f, n) ==
  f.i_size[n] > 0 =>
    \A k \in 0 .. BlockOf(f.i_size[n]) : get_inode_all_blocks(f, n)[k + 1] # Junk

\* The blocks all are in use, each once.
Owned(bb, all) ==
  \A j \in DOMAIN all : all[j] # Junk =>
    InUse(bb, all[j]) /\ \A k \in DOMAIN all : all[k] = all[j] => k = j

Disjoint(all, other) ==
  \A j \in DOMAIN all, k \in DOMAIN other : all[j] = other[k] => all[j] = Junk

Apart(f) ==
  \A n \in Files(f) :
    /\ Owned(f.block_bitmap, get_inode_all_blocks(f, n))
    /\ \A m \in Files(f) \ {n} : Disjoint(get_inode_all_blocks(f, n), get_inode_all_blocks(f, m))

Pointed(f) == \E n \in A!Inode : f.pointers[n] # <<>>

FsInv(f) ==
  /\ Shape(f)
  /\ f.failed = "none" => \A n \in A!Inode : Backed(f, n)
  /\ f.failed = "none" /\ f.defects = {} => Apart(f) /\ \A n \in A!Inode : Solid(f, n)
  /\ f.failed \in {"range", "bfree"} => Pointed(f)

\* A descriptor that counts as opened on a file has its inode.
Tracked ==
  \A fd \in Fd : \A name \in opened[fd] :
    IsOpen(fd) /\ fs.entry[name] = _files[fd].inode

IInv == FsInv(fs) /\ TypeOK /\ Tracked

-------------------------------------------------------------------------------
(* Block lists *)

LEMMA Sizes ==
  /\ BLOCK_SIZE \in Nat \ {0} /\ TwoTo32 \in Nat \ {0} /\ JunkWords \in Nat /\ JunkWords >= 1
  /\ \A i \in 0 .. TwoTo32 - 1 : BlockOf(i) \in Nat
  /\ \A i, j \in Nat : i <= j => BlockOf(i) <= BlockOf(j)
<1>1. BLOCK_SIZE \in Nat \ {0} /\ TwoTo32 \in Nat \ {0} /\ JunkWords \in Nat \ {0}
  BY FileAssumption
<1>2. ASSUME NEW i \in Nat, NEW j \in Nat, i <= j
      PROVE  BlockOf(i) \in Nat /\ BlockOf(i) <= BlockOf(j)
  <2>1. \A s \in Nat \ {0}, x, y \in Nat : x <= y => x \div s \in Nat /\ x \div s <= y \div s
    OBVIOUS
  <2> QED BY <1>1, <1>2, <2>1 DEF BlockOf
<1> QED BY <1>1, <1>2

LEMMA JunkSize == JunkWords \in Nat /\ JunkWords >= 1
BY Sizes

LEMMA AllBlocks ==
  ASSUME NEW f, Shape(f), NEW n \in A!Inode, NEW all, all = get_inode_all_blocks(f, n)
  PROVE  /\ all \in Seq(A!DataBlock \cup {Junk})
         /\ f.i_block[n] \in Seq(A!DataBlock) /\ Len(f.i_block[n]) \in Nat
         /\ DOMAIN f.i_block[n] = 1 .. Len(f.i_block[n])
         /\ DOMAIN all = 1 .. Len(all) /\ Len(all) \in Nat
         /\ \A j \in DOMAIN all : all[j] \in A!DataBlock \cup {Junk}
         /\ \A j \in 1 .. Len(f.i_block[n]) :
              j \in DOMAIN all /\ all[j] = f.i_block[n][j] /\ all[j] \in A!DataBlock
         /\ \A j \in DOMAIN all : j > Len(f.i_block[n]) + 1 => all[j] = Junk
         /\ f.pointers[n] = <<>> => all = f.i_block[n]
         /\ f.pointers[n] # <<>> => Len(all) = Len(f.i_block[n]) + JunkWords
                                    /\ all[Len(f.i_block[n]) + 1] = f.pointers[n][1]
<1> DEFINE d == f.i_block[n]
           p == f.pointers[n]
           W == A!DataBlock \cup {Junk}
<1>1. d \in Seq(A!DataBlock) /\ p \in Seq(W)
  BY DEF Shape, FsType
<1>2. all = d \o p
  BY DEF get_inode_all_blocks
<1>3. p # <<>> => Len(p) = JunkWords /\ \A k \in 2 .. JunkWords : p[k] = Junk
  BY DEF Shape, PointersJunk
<1> HIDE DEF d, p
<1>4. Len(d) \in Nat /\ DOMAIN d = 1 .. Len(d) /\ Len(p) \in Nat
  BY <1>1, LenProperties
<1>5. /\ d \in Seq(W)
      /\ \A j \in 1 .. Len(d) : d[j] \in A!DataBlock
  BY <1>1, ElementOfSeq, SeqMonotonic
<1>6. /\ all \in Seq(W) /\ Len(all) = Len(d) + Len(p)
      /\ \A j \in 1 .. Len(d) + Len(p) : all[j] = IF j <= Len(d) THEN d[j] ELSE p[j - Len(d)]
  BY <1>1, <1>2, <1>5, ConcatProperties
<1>7. DOMAIN all = 1 .. Len(all) /\ Len(all) \in Nat /\ \A j \in 1 .. Len(all) : all[j] \in W
  BY <1>6, LenProperties, ElementOfSeq
<1>8. \A j \in 1 .. Len(d) : j \in DOMAIN all /\ all[j] = d[j] /\ all[j] \in A!DataBlock
  BY <1>4, <1>5, <1>6, <1>7
<1>9. p = <<>> => all = d
  BY <1>1, <1>2, ConcatEmptySeq
<1>10. p # <<>> => Len(all) = Len(d) + JunkWords /\ all[Len(d) + 1] = p[1]
  BY <1>3, <1>4, <1>6, JunkSize
<1>11. ASSUME NEW j \in DOMAIN all, j > Len(d) + 1
       PROVE  all[j] = Junk
  <2>1. p # <<>>
    BY <1>4, <1>7, <1>9, <1>11
  <2>2. j - Len(d) \in 2 .. JunkWords /\ all[j] = p[j - Len(d)]
    BY <1>3, <1>4, <1>6, <1>7, <1>11, <2>1
  <2> QED BY <1>3, <2>1, <2>2
<1> QED BY <1>1, <1>4, <1>6, <1>7, <1>8, <1>9, <1>10, <1>11 DEF d, p

\* What adding blocks to a file leaves alone.
Kept(f, g) ==
  /\ g.inode_bitmap = f.inode_bitmap /\ g.i_size = f.i_size /\ g.data = f.data
  /\ g.entry = f.entry /\ g.defects = f.defects

LEMMA AllocEffect ==
  ASSUME NEW f, Shape(f), NEW n \in A!Inode, NEW g, g = Alloc(f, n),
         NEW b, b = NewBlock(f, n)
  PROVE  \/ /\ g.failed = "ballocs" /\ Shape(g) /\ Kept(f, g)
            /\ g.i_block = f.i_block /\ g.pointers = f.pointers
            /\ g.block_bitmap = f.block_bitmap /\ b = A!EXT2M_I_BLOCK_END
         \/ /\ g.failed = f.failed /\ Shape(g) /\ Kept(f, g)
            /\ g.i_block = f.i_block /\ g.pointers = f.pointers
            /\ b \in A!DataBlock /\ ~InUse(f.block_bitmap, b)
            /\ \A c \in A!DataBlock :
                 InUse(g.block_bitmap, c) <=> InUse(f.block_bitmap, c) \/ c = b
<1>1. CASE b = A!EXT2M_I_BLOCK_END
  <2>1. g = [f EXCEPT !.failed = "ballocs"]
    BY <1>1 DEF Alloc, Stop
  <2>2. f \in FsType
    BY DEF Shape
  <2>3. /\ g \in FsType /\ Kept(f, g) /\ g.failed = "ballocs"
        /\ g.i_block = f.i_block /\ g.pointers = f.pointers
        /\ g.block_bitmap = f.block_bitmap
    BY <2>1, <2>2 DEF FsType, Kept
  <2>4. Shape(g)
    BY <2>3 DEF Shape, PointersJunk, DirectLeft, NamesApart, Kept
  <2> QED BY <1>1, <2>3, <2>4
<1>2. CASE b # A!EXT2M_I_BLOCK_END
  <2>1. g = [f EXCEPT !.block_bitmap = A!SetBlock(f.block_bitmap, b)]
    BY <1>2 DEF Alloc, Taken
  <2>2. /\ b \in A!DataBlock /\ ~InUse(f.block_bitmap, b)
        /\ A!SetBlock(f.block_bitmap, b) \in [A!Group -> SUBSET A!BlockBit]
        /\ Marked(A!SetBlock(f.block_bitmap, b))
        /\ \A c \in A!DataBlock :
             InUse(A!SetBlock(f.block_bitmap, b), c) <=> InUse(f.block_bitmap, c) \/ c = b
    <3>1. n \div inodes_per_group \in Nat
      BY Numbers
    <3>2. f.block_bitmap \in [A!Group -> SUBSET A!BlockBit] /\ Marked(f.block_bitmap)
      BY DEF Shape, FsType
    <3> QED BY <1>2, <3>1, <3>2, FreeBlock DEF NewBlock
  <2>3. f \in FsType
    BY DEF Shape
  <2>4. /\ g \in FsType /\ Kept(f, g) /\ g.failed = f.failed
        /\ g.i_block = f.i_block /\ g.pointers = f.pointers
        /\ g.block_bitmap = A!SetBlock(f.block_bitmap, b)
    BY <2>1, <2>2, <2>3 DEF FsType, Kept
  <2>5. Shape(g)
    BY <2>2, <2>4 DEF Shape, PointersJunk, DirectLeft, NamesApart, Kept
  <2> QED BY <2>2, <2>4, <2>5
<1> QED BY <1>1, <1>2

\* A list of blocks that grows by at most one block, which was free.
Grows(bb, all, bb2, all2) ==
  \E b : /\ b \in A!DataBlock => ~InUse(bb, b) /\ InUse(bb2, b)
         /\ \A j \in DOMAIN all2 : \/ all2[j] = Junk
                                   \/ j \in DOMAIN all /\ all2[j] = all[j]
                                   \/ j = Len(all) + 1 /\ all2[j] = b

(* Putting another word in place of the first of a sequence.               *)
LEMMA NewHead ==
  ASSUME NEW S, NEW b \in S, NEW s \in Seq(S), s # <<>>
  PROVE  LET p == <<b>> \o Tail(s)
         IN  /\ p \in Seq(S) /\ Len(p) = Len(s) /\ p[1] = b
             /\ \A k \in 2 .. Len(s) : p[k] = s[k]
<1> DEFINE x == <<b>>
           y == Tail(s)
<1>1. x \in Seq(S) /\ Len(x) = 1 /\ x[1] = b
  OBVIOUS
<1>2. /\ y \in Seq(S) /\ Len(y) = Len(s) - 1 /\ Len(s) \in Nat \ {0}
      /\ \A k \in 1 .. Len(y) : y[k] = s[k + 1]
  BY HeadTailProperties, EmptySeq, LenProperties
<1> HIDE DEF x, y
<1>3. /\ x \o y \in Seq(S) /\ Len(x \o y) = Len(x) + Len(y)
      /\ \A k \in 1 .. Len(x) + Len(y) :
           (x \o y)[k] = IF k <= Len(x) THEN x[k] ELSE y[k - Len(x)]
  BY <1>1, <1>2, ConcatProperties
<1>4. Len(x \o y) = Len(s)
  BY <1>1, <1>2, <1>3
<1>5. (x \o y)[1] = b
  <2>1. 1 \in 1 .. Len(x) + Len(y) /\ 1 <= Len(x)
    BY <1>1, <1>2
  <2> QED BY <1>1, <1>3, <2>1
<1>6. ASSUME NEW k \in 2 .. Len(s)
      PROVE  (x \o y)[k] = s[k]
  <2>1. /\ k \in 1 .. Len(x) + Len(y) /\ ~(k <= Len(x))
        /\ k - Len(x) = k - 1 /\ k - 1 \in 1 .. Len(y) /\ (k - 1) + 1 = k
    BY <1>1, <1>2
  <2>2. (x \o y)[k] = y[k - 1]
    BY <1>3, <2>1
  <2> QED BY <1>2, <2>1, <2>2
<1> QED BY <1>3, <1>4, <1>5, <1>6 DEF x, y

\* What one call of add_block_to_inode does to the blocks of n.
LEMMA AddEffect ==
  ASSUME NEW f, Shape(f), NEW n \in A!Inode, NEW g, g = add_block_to_inode(f, n)
  PROVE  /\ Shape(g) /\ Kept(f, g)
         /\ g.failed = f.failed \/ g.failed = "ballocs"
         /\ \A m \in A!Inode \ {n} : g.i_block[m] = f.i_block[m] /\ g.pointers[m] = f.pointers[m]
         /\ \A c \in A!DataBlock : InUse(f.block_bitmap, c) => InUse(g.block_bitmap, c)
         /\ Grows(f.block_bitmap, get_inode_all_blocks(f, n),
                  g.block_bitmap, get_inode_all_blocks(g, n))
         /\ \A j \in 1 .. Len(f.i_block[n]) :
              j \in 1 .. Len(g.i_block[n]) /\ g.i_block[n][j] = f.i_block[n][j]
         /\ g.failed = "none" => g.pointers[n] # <<>> \/ Len(g.i_block[n]) = Len(f.i_block[n]) + 1
         /\ f.pointers[n] # <<>> => g.pointers[n] # <<>>
<1> DEFINE P(h) ==
      /\ Shape(h) /\ Kept(f, h)
      /\ h.failed = f.failed \/ h.failed = "ballocs"
      /\ \A m \in A!Inode \ {n} : h.i_block[m] = f.i_block[m] /\ h.pointers[m] = f.pointers[m]
      /\ \A c \in A!DataBlock : InUse(f.block_bitmap, c) => InUse(h.block_bitmap, c)
      /\ Grows(f.block_bitmap, get_inode_all_blocks(f, n),
               h.block_bitmap, get_inode_all_blocks(h, n))
      /\ \A j \in 1 .. Len(f.i_block[n]) :
           j \in 1 .. Len(h.i_block[n]) /\ h.i_block[n][j] = f.i_block[n][j]
      /\ h.failed = "none" => h.pointers[n] # <<>> \/ Len(h.i_block[n]) = Len(f.i_block[n]) + 1
      /\ f.pointers[n] # <<>> => h.pointers[n] # <<>>
<1>1. ASSUME NEW h, Shape(h), Kept(f, h), h.failed = "ballocs" \/ (h = f /\ f.failed # "none"),
             h.i_block = f.i_block, h.pointers = f.pointers,
             \A c \in A!DataBlock : InUse(f.block_bitmap, c) => InUse(h.block_bitmap, c)
      PROVE  P(h)
  <2>1. get_inode_all_blocks(h, n) = get_inode_all_blocks(f, n)
    BY <1>1 DEF get_inode_all_blocks
  <2>2. Junk \notin A!DataBlock
    BY Numbers
  <2>3. Grows(f.block_bitmap, get_inode_all_blocks(f, n),
              h.block_bitmap, get_inode_all_blocks(h, n))
    BY <2>1, <2>2 DEF Grows
  <2> QED BY <1>1, <2>3
<1> DEFINE all == get_inode_all_blocks(f, n)
           d == f.i_block[n]
<1>2. CASE f.failed # "none"
  <2>1. g = f
    BY <1>2 DEF add_block_to_inode
  <2>2. P(f)
    <3> HIDE DEF P
    <3> QED BY <1>1, <1>2 DEF Kept
  <2> QED BY <2>1, <2>2
<1> DEFINE b == NewBlock(f, n)
           g1 == Alloc(f, n)
<1>3. /\ Len(d) \in Nat /\ d \in Seq(A!DataBlock) /\ Len(d) <= EXT2_DIRECT_BLOCKS
      /\ f.pointers[n] = <<>> => all = d
      /\ DOMAIN all = 1 .. Len(all) /\ Len(all) \in Nat
      /\ \A j \in 1 .. Len(d) : j \in DOMAIN all /\ all[j] = d[j]
  BY AllBlocks DEF Shape
<1>4. ASSUME NEW h, Shape(h), h.i_block[n] = d
      PROVE  \A j \in DOMAIN get_inode_all_blocks(h, n) :
               \/ j \in DOMAIN all /\ get_inode_all_blocks(h, n)[j] = all[j]
               \/ j = Len(d) + 1
               \/ get_inode_all_blocks(h, n)[j] = Junk
  <2> DEFINE new == get_inode_all_blocks(h, n)
  <2>1. /\ DOMAIN new = 1 .. Len(new) /\ Len(new) \in Nat
        /\ \A j \in 1 .. Len(d) : new[j] = d[j]
        /\ \A j \in DOMAIN new : j > Len(d) + 1 => new[j] = Junk
    BY <1>4, AllBlocks
  <2> HIDE DEF new, d, all
  <2>2. ASSUME NEW j \in DOMAIN new
        PROVE  (j \in DOMAIN all /\ new[j] = all[j]) \/ j = Len(d) + 1 \/ new[j] = Junk
    <3>1. j \in 1 .. Len(d) \/ j = Len(d) + 1 \/ j > Len(d) + 1
      BY <1>3, <2>1
    <3> QED BY <1>3, <2>1, <3>1
  <2> QED BY <2>2 DEF new
<1>5. CASE f.failed = "none" /\ DirectLeft(f, n)
  <2>1. f.pointers[n] = <<>> /\ Len(d) < EXT2_DIRECT_BLOCKS
    BY <1>5 DEF Shape, PointersJunk, DirectLeft
  <2>2. g = IF g1.failed # "none" THEN g1 ELSE [g1 EXCEPT !.i_block[n] = Append(@, b)]
    BY <1>5 DEF add_block_to_inode
  <2>3. CASE g1.failed = "ballocs" /\ b = A!EXT2M_I_BLOCK_END
    <3>1. g = g1
      BY <2>2, <2>3
    <3> QED BY <1>1, <2>3, <3>1, AllocEffect
  <2>4. CASE ~(g1.failed = "ballocs" /\ b = A!EXT2M_I_BLOCK_END)
    <3>1. /\ g1.failed = "none" /\ Shape(g1) /\ Kept(f, g1)
          /\ g1.i_block = f.i_block /\ g1.pointers = f.pointers
          /\ b \in A!DataBlock /\ ~InUse(f.block_bitmap, b)
          /\ \A c \in A!DataBlock :
               InUse(g1.block_bitmap, c) <=> InUse(f.block_bitmap, c) \/ c = b
      BY <1>5, <2>4, AllocEffect
    <3>2. g = [g1 EXCEPT !.i_block[n] = Append(@, b)]
      BY <2>2, <3>1
    <3>3. /\ Append(d, b) \in Seq(A!DataBlock) /\ Len(Append(d, b)) = Len(d) + 1
          /\ Append(d, b)[Len(d) + 1] = b
          /\ \A j \in 1 .. Len(d) : Append(d, b)[j] = d[j]
      BY <1>3, <3>1, AppendProperties
    <3>4. g1 \in FsType /\ g1.i_block \in [A!Inode -> Seq(A!DataBlock)]
      BY <3>1 DEF Shape, FsType
    <3> HIDE DEF P, all, b, g1
    <3>5. /\ g \in FsType /\ Kept(f, g) /\ g.failed = "none"
          /\ g.block_bitmap = g1.block_bitmap /\ g.pointers = f.pointers
          /\ g.i_block = [f.i_block EXCEPT ![n] = Append(d, b)]
      <4>1. [f.i_block EXCEPT ![n] = Append(d, b)] \in [A!Inode -> Seq(A!DataBlock)]
        BY <3>1, <3>3, <3>4
      <4>2. g = [g1 EXCEPT !.i_block = [f.i_block EXCEPT ![n] = Append(d, b)]]
        BY <3>1, <3>2, <3>4 DEF FsType
      <4> QED BY <3>1, <3>4, <4>1, <4>2 DEF FsType, Kept
    <3>6. g.i_block[n] = Append(d, b) /\ \A m \in A!Inode \ {n} : g.i_block[m] = f.i_block[m]
      BY <3>1, <3>4, <3>5
    <3>7. Shape(g)
      <4>1. \A m \in A!Inode : Len(g.i_block[m]) <= EXT2_DIRECT_BLOCKS
        BY <1>3, <2>1, <3>3, <3>6, LayoutFacts DEF Shape
      <4>2. PointersJunk(g)
        BY <2>1, <3>5, <3>6 DEF Shape, PointersJunk, DirectLeft
      <4>3. NamesApart(g) /\ Marked(g.block_bitmap)
        BY <3>1, <3>5 DEF Shape, NamesApart, Kept
      <4> QED BY <3>5, <4>1, <4>2, <4>3 DEF Shape
    <3>8. get_inode_all_blocks(g, n) = Append(d, b) /\ all = d
          /\ DOMAIN Append(d, b) = 1 .. Len(d) + 1
      BY <1>3, <2>1, <3>3, <3>5, <3>6, <3>7, AllBlocks
    <3>9. Grows(f.block_bitmap, all, g.block_bitmap, Append(d, b))
      BY <1>3, <3>1, <3>3, <3>5, <3>8 DEF Grows
    <3> QED BY <1>3, <1>5, <2>1, <3>1, <3>3, <3>5, <3>6, <3>7, <3>8, <3>9 DEF all
  <2> QED BY <2>3, <2>4
<1> DEFINE ones == [k \in 1 .. JunkWords |-> Junk]
           W == A!DataBlock \cup {Junk}
<1>6. ones \in Seq(W) /\ Len(ones) = JunkWords /\ ones # <<>>
      /\ \A k \in 1 .. JunkWords : ones[k] = Junk
  <2>1. ones \in [1 .. JunkWords -> W] /\ JunkWords \in Nat /\ JunkWords >= 1
    BY Sizes
  <2>2. ones \in Seq(W) /\ Len(ones) = JunkWords
    BY <2>1, SeqDef, LenProperties
  <2> QED BY <2>1, <2>2, EmptySeq
\* Pointers that replace those of n, after blocks were allocated.
<1>7. ASSUME NEW h, Shape(h), Kept(f, h), h.failed = "none", ~DirectLeft(f, n),
             h.i_block = f.i_block, h.pointers = f.pointers,
             \A c \in A!DataBlock : InUse(f.block_bitmap, c) => InUse(h.block_bitmap, c),
             NEW p \in Seq(W), Len(p) = JunkWords, \A k \in 2 .. JunkWords : p[k] = Junk,
             p[1] # Junk => /\ f.pointers[n] = <<>>
                            /\ ~InUse(f.block_bitmap, p[1]) /\ InUse(h.block_bitmap, p[1]),
             NEW e, e = [h EXCEPT !.pointers[n] = p], f.failed = "none"
      PROVE  P(e)
  <2>1. p # <<>>
    BY <1>7, Sizes, EmptySeq
  <2>2. h \in FsType /\ h.pointers \in [A!Inode -> Seq(W)]
    BY <1>7 DEF Shape, FsType
  <2> HIDE DEF P, all, d, ones
  <2>3. /\ e \in FsType /\ Kept(f, e) /\ e.failed = "none"
        /\ e.block_bitmap = h.block_bitmap /\ e.i_block = f.i_block
        /\ e.pointers = [f.pointers EXCEPT ![n] = p]
    <3>1. [f.pointers EXCEPT ![n] = p] \in [A!Inode -> Seq(W)]
      BY <1>7, <2>2
    <3>2. e = [h EXCEPT !.pointers = [f.pointers EXCEPT ![n] = p]]
      BY <1>7, <2>2 DEF FsType
    <3> QED BY ZenonT(60), <1>7, <2>2, <3>1, <3>2 DEF FsType, Kept
  <2>4. e.pointers[n] = p /\ \A m \in A!Inode \ {n} : e.pointers[m] = f.pointers[m]
    BY <1>7, <2>2, <2>3
  <2>5. Shape(e)
    <3>1. PointersJunk(e)
      BY <1>7, <2>3, <2>4 DEF Shape, PointersJunk, DirectLeft
    <3>2. NamesApart(e) /\ Marked(e.block_bitmap)
      BY <1>7, <2>3 DEF Shape, NamesApart, Kept
    <3> QED BY <1>7, <2>3, <3>1, <3>2 DEF Shape
  <2>6. e.i_block[n] = d
    BY <2>3 DEF d
  <2> DEFINE new == get_inode_all_blocks(e, n)
  <2>7. \A j \in DOMAIN new : \/ j \in DOMAIN all /\ new[j] = all[j]
                              \/ j = Len(d) + 1 /\ new[j] = p[1]
                              \/ new[j] = Junk
    <3>1. new[Len(d) + 1] = p[1]
      BY SMTT(30), <2>1, <2>4, <2>5, <2>6, AllBlocks
    <3> QED BY <1>4, <2>5, <2>6, <3>1
  <2>8. Grows(f.block_bitmap, all, e.block_bitmap, new)
    <3>1. CASE p[1] = Junk
      <4>1. Junk \notin A!DataBlock
        BY Numbers
      <4> QED BY <2>7, <3>1, <4>1 DEF Grows
    <3>2. CASE p[1] # Junk
      <4>1. all = d
        BY <1>3, <1>7, <3>2 DEF all, d
      <4> HIDE DEF new
      <4> QED BY <1>7, <2>3, <2>7, <3>2, <4>1 DEF Grows
    <3> QED BY <3>1, <3>2
  <2> QED BY <1>3, <1>7, <2>1, <2>3, <2>4, <2>5, <2>6, <2>8 DEF P, all, d
<1>8. ASSUME f.failed = "none", ~DirectLeft(f, n)
      PROVE  P(g)
  <2>1. g = Indirect(f, n)
    BY <1>8 DEF add_block_to_inode
  <2> DEFINE b2 == NewBlock(g1, n)
             g2 == Alloc(g1, n)
  <2>2. g = IF f.pointers[n] # <<>>
            THEN IF g1.failed # "none" THEN g1 ELSE [g1 EXCEPT !.pointers[n] = ones]
            ELSE IF g2.failed # "none" THEN g2
            ELSE [g2 EXCEPT !.pointers[n] = <<b2>> \o Tail(ones)]
    BY <2>1 DEF Indirect
  <2> HIDE DEF P, all, d, ones
  <2>3. /\ Shape(g1) /\ Kept(f, g1)
        /\ g1.i_block = f.i_block /\ g1.pointers = f.pointers
        /\ \A c \in A!DataBlock : InUse(f.block_bitmap, c) => InUse(g1.block_bitmap, c)
        /\ \/ g1.failed = "none"
           \/ g1.failed = "ballocs" /\ b2 = A!EXT2M_I_BLOCK_END
    <3>1. g1.block_bitmap = f.block_bitmap => b2 = b
      BY DEF NewBlock
    <3>2. \/ /\ g1.failed = "ballocs" /\ Shape(g1) /\ Kept(f, g1)
             /\ g1.i_block = f.i_block /\ g1.pointers = f.pointers
             /\ g1.block_bitmap = f.block_bitmap /\ b = A!EXT2M_I_BLOCK_END
          \/ /\ g1.failed = f.failed /\ Shape(g1) /\ Kept(f, g1)
             /\ g1.i_block = f.i_block /\ g1.pointers = f.pointers
             /\ \A c \in A!DataBlock :
                  InUse(g1.block_bitmap, c) <=> InUse(f.block_bitmap, c) \/ c = b
      BY AllocEffect
    <3> HIDE DEF g1, b, b2
    <3> QED BY <1>8, <3>1, <3>2
  <2> HIDE DEF g1, b, b2, g2
  <2>4. CASE f.pointers[n] # <<>>
    <3>1. CASE g1.failed # "none"
      <4>1. g = g1 /\ g1.failed = "ballocs"
        BY <2>2, <2>3, <2>4, <3>1
      <4>2. P(g1)
        BY <1>1, <2>3, <4>1
      <4> QED BY <4>1, <4>2
    <3>2. CASE g1.failed = "none"
      <4>1. g = [g1 EXCEPT !.pointers[n] = ones]
        BY <2>2, <2>4, <3>2
      <4>2. ones[1] = Junk /\ \A k \in 2 .. JunkWords : ones[k] = Junk
        BY <1>6, Sizes
      <4> QED BY <1>6, <1>7, <1>8, <2>3, <3>2, <4>1, <4>2
    <3> QED BY <3>1, <3>2
  <2>5. CASE f.pointers[n] = <<>>
    <3>1. \/ /\ g2.failed = "ballocs" /\ Shape(g2) /\ Kept(g1, g2)
             /\ g2.i_block = g1.i_block /\ g2.pointers = g1.pointers
             /\ g2.block_bitmap = g1.block_bitmap /\ b2 = A!EXT2M_I_BLOCK_END
          \/ /\ g2.failed = g1.failed /\ Shape(g2) /\ Kept(g1, g2)
             /\ g2.i_block = g1.i_block /\ g2.pointers = g1.pointers
             /\ b2 \in A!DataBlock /\ ~InUse(g1.block_bitmap, b2)
             /\ \A c \in A!DataBlock :
                  InUse(g2.block_bitmap, c) <=> InUse(g1.block_bitmap, c) \/ c = b2
      BY <2>3, AllocEffect DEF g2, b2
    <3>2. /\ Shape(g2) /\ Kept(f, g2) /\ g2.failed \in {"none", "ballocs"}
          /\ g2.i_block = f.i_block /\ g2.pointers = f.pointers
          /\ \A c \in A!DataBlock : InUse(f.block_bitmap, c) => InUse(g2.block_bitmap, c)
      BY <2>3, <3>1 DEF Kept
    <3>3. CASE g2.failed # "none"
      <4>1. g = g2 /\ g2.failed = "ballocs"
        BY <2>2, <2>5, <3>2, <3>3
      <4>2. P(g2)
        BY <1>1, <3>2, <4>1
      <4> QED BY <4>1, <4>2
    <3>4. CASE g2.failed = "none"
      <4>1. b2 \in A!DataBlock /\ ~InUse(f.block_bitmap, b2) /\ InUse(g2.block_bitmap, b2)
        <5>1. A!EXT2M_I_BLOCK_END \notin A!DataBlock
          BY Numbers DEF A!EXT2M_I_BLOCK_END
        <5> QED BY <2>3, <3>1, <3>4, <5>1
      <4> DEFINE p == <<b2>> \o Tail(ones)
      <4>2. p \in Seq(W) /\ Len(p) = JunkWords /\ p[1] = b2
            /\ \A k \in 2 .. JunkWords : p[k] = Junk
        <5>1. ones # <<>>
          BY <1>6, JunkSize
        <5>2. b2 \in W
          BY <4>1
        <5> HIDE DEF ones, W
        <5>3. /\ p \in Seq(W) /\ Len(p) = Len(ones) /\ p[1] = b2
              /\ \A k \in 2 .. Len(ones) : p[k] = ones[k]
          BY <1>6, <5>1, <5>2, NewHead
        <5>4. \A k \in 2 .. JunkWords : ones[k] = Junk
          BY <1>6, JunkSize
        <5> QED BY <1>6, <5>3, <5>4
      <4>3. g = [g2 EXCEPT !.pointers[n] = p]
        BY <2>2, <2>5, <3>4
      <4> HIDE DEF p
      <4> QED BY <1>7, <1>8, <2>5, <3>2, <3>4, <4>1, <4>2, <4>3
    <3> QED BY <3>2, <3>3, <3>4
  <2> QED BY <2>4, <2>5
<1> QED BY <1>2, <1>5, <1>8

LEMMA AddKeepsApart ==
  ASSUME NEW f, Shape(f), Apart(f), NEW n \in A!Inode
  PROVE  Apart(add_block_to_inode(f, n))
<1> DEFINE g == add_block_to_inode(f, n)
           bb == f.block_bitmap
           bb2 == g.block_bitmap
<1>1. /\ Shape(g) /\ Files(g) = Files(f)
      /\ \A m \in A!Inode \ {n} : get_inode_all_blocks(g, m) = get_inode_all_blocks(f, m)
      /\ \A c \in A!DataBlock : InUse(bb, c) => InUse(bb2, c)
      /\ Grows(bb, get_inode_all_blocks(f, n), bb2, get_inode_all_blocks(g, n))
  <2>1. /\ Shape(g) /\ Kept(f, g)
        /\ \A m \in A!Inode \ {n} : g.i_block[m] = f.i_block[m] /\ g.pointers[m] = f.pointers[m]
        /\ \A c \in A!DataBlock : InUse(bb, c) => InUse(bb2, c)
        /\ Grows(bb, get_inode_all_blocks(f, n), bb2, get_inode_all_blocks(g, n))
    BY AddEffect
  <2> HIDE DEF g, bb, bb2
  <2>2. \A m \in A!Inode \ {n} : get_inode_all_blocks(g, m) = get_inode_all_blocks(f, m)
    BY <2>1 DEF get_inode_all_blocks
  <2>3. Files(g) = Files(f)
    BY <2>1 DEF Kept, Files
  <2> QED BY <2>1, <2>2, <2>3
<1> HIDE DEF g, bb, bb2
<1>2. Files(f) \subseteq A!Inode
  BY DEF Files, Shape, FsType
<1>3. ASSUME NEW m \in Files(f)
      PROVE  /\ Owned(bb, get_inode_all_blocks(f, m))
             /\ \A o \in Files(f) \ {m} :
                  Disjoint(get_inode_all_blocks(f, m), get_inode_all_blocks(f, o))
  BY DEF Apart, bb
<1>4. ASSUME NEW h, Shape(h), NEW m \in A!Inode
      PROVE  \A j \in DOMAIN get_inode_all_blocks(h, m) :
               get_inode_all_blocks(h, m)[j] \in A!DataBlock \cup {Junk}
  BY <1>4, AllBlocks
<1> DEFINE F(m) == get_inode_all_blocks(f, m)
           G(m) == get_inode_all_blocks(g, m)
<1>5. DOMAIN F(n) = 1 .. Len(F(n)) /\ Len(F(n)) \in Nat
  BY AllBlocks
<1>6. PICK b : /\ b \in A!DataBlock => ~InUse(bb, b) /\ InUse(bb2, b)
               /\ \A j \in DOMAIN G(n) : \/ G(n)[j] = Junk
                                         \/ j \in DOMAIN F(n) /\ G(n)[j] = F(n)[j]
                                         \/ j = Len(F(n)) + 1 /\ G(n)[j] = b
  BY <1>1 DEF Grows
<1>7. /\ \A m \in A!Inode \ {n} : G(m) = F(m)
      /\ \A m \in A!Inode : \A j \in DOMAIN F(m) : F(m)[j] \in A!DataBlock \cup {Junk}
      /\ \A m \in A!Inode : \A j \in DOMAIN G(m) : G(m)[j] \in A!DataBlock \cup {Junk}
  BY <1>1, <1>4
<1>8. \A m \in Files(f) : /\ Owned(bb, F(m))
                          /\ \A o \in Files(f) \ {m} : Disjoint(F(m), F(o))
  BY <1>3
<1> HIDE DEF F, G
<1>9. ASSUME NEW m \in Files(f)
      PROVE  Owned(bb2, G(m))
  <2>1. CASE m # n
    BY <1>1, <1>2, <1>7, <1>8, <2>1 DEF Owned
  <2>2. CASE m = n
    BY <1>1, <1>2, <1>5, <1>6, <1>7, <1>8, <2>2 DEF Owned
  <2> QED BY <2>1, <2>2
<1>10. ASSUME NEW m \in Files(f) \ {n}
       PROVE  n \in Files(f) => Disjoint(G(n), G(m)) /\ Disjoint(G(m), G(n))
  BY <1>2, <1>6, <1>7, <1>8, <1>10 DEF Disjoint, Owned
<1>11. ASSUME NEW m \in Files(f), NEW o \in Files(f) \ {m}
       PROVE  Disjoint(G(m), G(o))
  BY <1>2, <1>7, <1>8, <1>10
<1> QED BY <1>1, <1>9, <1>11 DEF Apart, G, g, bb2

\* What taking blocks for n has done to f.
Taking(f, n, g) ==
  /\ Shape(g) /\ Kept(f, g)
  /\ g.failed = f.failed \/ g.failed = "ballocs"
  /\ \A m \in A!Inode \ {n} : g.i_block[m] = f.i_block[m] /\ g.pointers[m] = f.pointers[m]
  /\ \A j \in 1 .. Len(f.i_block[n]) :
       j \in 1 .. Len(g.i_block[n]) /\ g.i_block[n][j] = f.i_block[n][j]
  /\ f.pointers[n] # <<>> => g.pointers[n] # <<>>
  /\ Apart(f) => Apart(g)

\* The same of any number of calls, by induction.
LEMMA GrownEffect ==
  ASSUME NEW f, Shape(f), NEW n \in A!Inode, NEW count \in Nat, NEW g, g = Grown(f, n, count)
  PROVE  /\ Taking(f, n, g)
         /\ count = 0 => g = f
         /\ g.failed = "none" => \/ g.pointers[n] # <<>>
                                 \/ Len(g.i_block[n]) = Len(f.i_block[n]) + count
<1> DEFINE T == {h \in FsType : Shape(h)}
           step == [h \in T |-> add_block_to_inode(h, n)]
           Run(r) == r = [k \in 0 .. count |-> IF k = 0 THEN f ELSE add_block_to_inode(r[k - 1], n)]
<1>1. f \in T /\ step \in [T -> T]
  <2>1. \A h \in T : add_block_to_inode(h, n) \in T
    BY AddEffect DEF Shape
  <2> HIDE DEF T
  <2>2. step \in [T -> T]
    BY <2>1
  <2> QED BY <2>2 DEF Shape, T
<1>2. \E r : Run(r)
  <2> HIDE DEF T, step
  <2>1. PICK r \in [0 .. count -> T] : Iterates(r, f, step, count)
    BY <1>1, IterationExists
  <2>2. ASSUME NEW k \in 0 .. count
        PROVE  r[k] = IF k = 0 THEN f ELSE add_block_to_inode(r[k - 1], n)
    <3>1. CASE k # 0
      <4>1. k - 1 \in 0 .. count - 1 /\ k - 1 \in 0 .. count /\ (k - 1) + 1 = k
        BY <3>1
      <4>2. r[k] = step[r[k - 1]] /\ r[k - 1] \in T
        BY <2>1, <4>1 DEF Iterates
      <4> QED BY <3>1, <4>2 DEF step
    <3> QED BY <2>1, <3>1 DEF Iterates
  <2>3. Run(r)
    <3>1. r = [k \in 0 .. count |-> r[k]]
      OBVIOUS
    <3> QED BY <2>2, <3>1
  <2> QED BY <2>3
<1> DEFINE run == CHOOSE r : Run(r)
<1>3. Run(run)
  BY <1>2
<1>4. g = run[count]
  BY DEF Grown
<1> HIDE DEF run
<1>5. run[0] = f /\ \A k \in 0 .. count - 1 : run[k + 1] = add_block_to_inode(run[k], n)
  BY <1>3
<1> DEFINE Q(h, k) == /\ Taking(f, n, h)
                      /\ k = 0 => h = f
                      /\ h.failed = "none" => \/ h.pointers[n] # <<>>
                                              \/ Len(h.i_block[n]) = Len(f.i_block[n]) + k
           S == {k \in 0 .. count : Q(run[k], k)}
<1>6. 0 \in S
  <2>1. Len(f.i_block[n]) \in Nat
    BY AllBlocks
  <2> QED BY <1>5, <2>1 DEF Taking, Kept
<1>7. ASSUME NEW k \in 0 .. count - 1, k \in S
      PROVE  k + 1 \in S
  <2> DEFINE h == run[k]
             e == run[k + 1]
  <2>1. e = add_block_to_inode(h, n) /\ Q(h, k)
    BY <1>5, <1>7
  <2> HIDE DEF h, e
  <2>2. Shape(h)
    BY <2>1 DEF Taking
  <2>3. /\ Shape(e) /\ Kept(h, e)
        /\ e.failed = h.failed \/ e.failed = "ballocs"
        /\ \A m \in A!Inode \ {n} : e.i_block[m] = h.i_block[m] /\ e.pointers[m] = h.pointers[m]
        /\ \A j \in 1 .. Len(h.i_block[n]) :
              j \in 1 .. Len(e.i_block[n]) /\ e.i_block[n][j] = h.i_block[n][j]
        /\ e.failed = "none" => e.pointers[n] # <<>> \/ Len(e.i_block[n]) = Len(h.i_block[n]) + 1
        /\ h.pointers[n] # <<>> => e.pointers[n] # <<>>
    BY SMTT(30), <2>1, <2>2, AddEffect
  <2>4. Apart(h) => Apart(e)
    BY <2>1, <2>2, AddKeepsApart
  <2>5. Taking(f, n, e)
    <3>1. Kept(f, e)
      BY <2>1, <2>3 DEF Taking, Kept
    <3> QED BY <2>1, <2>3, <2>4, <3>1 DEF Taking
  <2> DEFINE size(x) == Len(x.i_block[n])
  <2>6. size(f) \in Nat
    BY AllBlocks
  <2>7. e.failed = "none" => e.pointers[n] # <<>> \/ size(e) = size(f) + (k + 1)
    <3>1. /\ e.failed = "none" => h.failed = "none"
          /\ h.failed = "none" => h.pointers[n] # <<>> \/ size(h) = size(f) + k
          /\ e.failed = "none" => e.pointers[n] # <<>> \/ size(e) = size(h) + 1
          /\ h.pointers[n] # <<>> => e.pointers[n] # <<>>
      BY <2>1, <2>3
    <3>2. k \in Nat
      BY <1>7
    <3> HIDE DEF Q, size
    <3> QED BY <2>6, <3>1, <3>2
  <2>8. Q(e, k + 1)
    <3>1. k + 1 # 0
      BY <1>7
    <3> QED BY <2>5, <2>7, <3>1
  <2> QED BY <2>8 DEF e
<1>8. count \in S
  <2> HIDE DEF S
  <2> QED BY <1>6, <1>7, RangeInduction
<1> QED BY <1>4, <1>8

-------------------------------------------------------------------------------
(* The calls keep the invariant *)

LEMMA SameShape ==
  ASSUME NEW f, Shape(f), NEW g \in FsType, g.block_bitmap = f.block_bitmap,
         g.inode_bitmap = f.inode_bitmap, g.i_block = f.i_block, g.pointers = f.pointers,
         g.entry = f.entry
  PROVE  Shape(g)
BY DEF Shape, PointersJunk, DirectLeft, NamesApart

LEMMA InitInv == Init => FsInv(fs)
<1> SUFFICES ASSUME Init PROVE FsInv(fs)
  OBVIOUS
<1>1. /\ 0 \in A!Group /\ reserved \in reserved .. blocks_per_group - 1
      /\ ROOT_INODE \in A!Inode
  BY AP!RootInode, LayoutFacts, SameOperators DEF A!Group
<1>2. A!RootBlock \in A!DataBlock
  BY <1>1 DEF A!DataBlock, A!RootBlock
<1>3. /\ fs.block_bitmap \in [A!Group -> SUBSET A!BlockBit] /\ Marked(fs.block_bitmap)
      /\ fs.inode_bitmap \in [A!Group -> SUBSET A!InodeBit]
  BY <1>1, LayoutFacts DEF Init, A!BlockBit, Marked
<1>4. /\ fs.i_block \in [A!Inode -> Seq(A!DataBlock)]
      /\ \A n \in A!Inode : Len(fs.i_block[n]) <= EXT2_DIRECT_BLOCKS
  BY <1>1, <1>2, LayoutFacts DEF Init
<1>5. /\ fs.pointers \in [A!Inode -> Seq(A!DataBlock \cup {Junk})]
      /\ \A n \in A!Inode : fs.pointers[n] = <<>>
  BY DEF Init
<1>6. fs.i_size \in [A!Inode -> 0 .. TwoTo32 - 1]
  BY Sizes DEF Init
<1>7. /\ fs.data \in [A!DataBlock -> [0 .. BLOCK_SIZE - 1 -> Byte]]
      /\ fs.entry \in [Name -> {0} \cup A!Inode]
      /\ fs.failed \in {"none", "ballocs", "range", "bfree"}
      /\ fs.defects \in SUBSET {"misfreed", "wrapped", "stale_fd"}
  BY DEF Init, Byte
<1>8. fs \in FsType
  BY <1>3, <1>4, <1>5, <1>6, <1>7 DEF Init, FsType
<1>9. Shape(fs)
  BY <1>3, <1>4, <1>5, <1>8 DEF Init, Shape, PointersJunk, NamesApart
<1>10. Files(fs) = {} /\ \A n \in A!Inode : fs.i_size[n] = 0
  BY DEF Init, Files
<1>11. Apart(fs)
  BY <1>10 DEF Apart
<1>12. \A n \in A!Inode : Backed(fs, n) /\ Solid(fs, n)
  BY <1>10 DEF Backed, Backing, Solid
<1>13. fs.failed = "none"
  BY DEF Init
<1> QED BY <1>9, <1>11, <1>12, <1>13 DEF FsInv

\* f with a defect noted; the rest of the call may have changed bytes.
LEMMA Noted ==
  ASSUME NEW f, FsInv(f), NEW g \in FsType, g.block_bitmap = f.block_bitmap,
         g.inode_bitmap = f.inode_bitmap, g.i_block = f.i_block, g.pointers = f.pointers,
         g.i_size = f.i_size, g.entry = f.entry, f.defects \subseteq g.defects,
         \/ g.failed = f.failed
         \/ f.failed = "none" /\ g.failed \in {"range", "bfree"} /\ Pointed(f)
  PROVE  FsInv(g)
<1>1. Shape(g)
  BY SameShape DEF FsInv
<1>2. \A n \in A!Inode : get_inode_all_blocks(g, n) = get_inode_all_blocks(f, n)
  BY DEF get_inode_all_blocks
<1>3. g.failed = "none" => f.failed = "none" /\ f.defects \subseteq g.defects
  OBVIOUS
<1>4. g.failed = "none" /\ g.defects = {} => f.failed = "none" /\ f.defects = {}
  OBVIOUS
<1>5. Files(g) = Files(f) /\ Files(f) \subseteq A!Inode
  BY DEF Files, FsInv, Shape, FsType
<1>6. Pointed(f) => Pointed(g)
  BY DEF Pointed
<1>7. g.failed \in {"range", "bfree"} => Pointed(g)
  BY <1>6 DEF FsInv
<1>8. g.failed = "none" => \A n \in A!Inode : Backed(g, n)
  <2>1. \A n \in A!Inode : Backing(f, n) => Backing(g, n)
    BY <1>2 DEF Backing
  <2>2. f.failed = "none" => \A n \in A!Inode : Backed(f, n)
    BY DEF FsInv
  <2>3. g.defects = {} => f.defects = {}
    OBVIOUS
  <2> QED BY <1>3, <2>1, <2>2, <2>3 DEF Backed
<1>9. Apart(f) => Apart(g)
  BY <1>2, <1>5 DEF Apart
<1>10. \A n \in A!Inode : Solid(f, n) => Solid(g, n)
  BY <1>2 DEF Solid
<1> QED BY <1>1, <1>4, <1>7, <1>8, <1>9, <1>10 DEF FsInv

Created(f, name, id) ==
  [f EXCEPT !.inode_bitmap = A!SetInode(@, id),
            !.i_block[id] = <<>>, !.pointers[id] = <<>>, !.i_size[id] = 0,
            !.entry[name] = id]

LEMMA CreateEffect ==
  ASSUME NEW f, FsInv(f), f.failed = "none", NEW name \in Name, f.entry[name] = 0,
         NEW id, id = A!ialloc(f.inode_bitmap), id # 0,
         NEW g, g = Created(f, name, id)
  PROVE  /\ FsInv(g) /\ id \in A!Inode /\ id \notin Files(f)
         /\ \A other \in Name : f.entry[other] # id
<1>1. f \in FsType /\ NamesApart(f)
  BY DEF FsInv, Shape
<1>2. /\ id \in A!Inode /\ id >= s_first_ino /\ ~Allocated(f.inode_bitmap, id)
      /\ A!SetInode(f.inode_bitmap, id) \in [A!Group -> SUBSET A!InodeBit]
      /\ \A m \in A!Inode :
           Allocated(A!SetInode(f.inode_bitmap, id), m) <=> Allocated(f.inode_bitmap, m) \/ m = id
  BY <1>1, NewInode DEF FsType
<1>3. \A other \in Name : f.entry[other] # id
  BY <1>1, <1>2 DEF NamesApart
<1> DEFINE ib == A!SetInode(f.inode_bitmap, id)
<1> HIDE DEF ib
<1>4. g = [f EXCEPT !.inode_bitmap = ib,
                    !.i_block = [f.i_block EXCEPT ![id] = <<>>],
                    !.pointers = [f.pointers EXCEPT ![id] = <<>>],
                    !.i_size = [f.i_size EXCEPT ![id] = 0],
                    !.entry = [f.entry EXCEPT ![name] = id]]
  BY <1>1 DEF FsType, ib, Created
<1>5. TwoTo32 \in Nat /\ 0 \in 0 .. TwoTo32 - 1
  BY Sizes
<1>6. /\ [f.i_block EXCEPT ![id] = <<>>] \in [A!Inode -> Seq(A!DataBlock)]
      /\ [f.pointers EXCEPT ![id] = <<>>] \in [A!Inode -> Seq(A!DataBlock \cup {Junk})]
      /\ [f.i_size EXCEPT ![id] = 0] \in [A!Inode -> 0 .. TwoTo32 - 1]
      /\ [f.entry EXCEPT ![name] = id] \in [Name -> {0} \cup A!Inode]
  BY <1>1, <1>2, <1>5 DEF FsType
<1>7. /\ g \in FsType /\ g.inode_bitmap = ib /\ g.block_bitmap = f.block_bitmap
      /\ g.i_block = [f.i_block EXCEPT ![id] = <<>>]
      /\ g.pointers = [f.pointers EXCEPT ![id] = <<>>]
      /\ g.i_size = [f.i_size EXCEPT ![id] = 0]
      /\ g.entry = [f.entry EXCEPT ![name] = id]
      /\ g.failed = f.failed /\ g.defects = f.defects
  <2>1. ib \in [A!Group -> SUBSET A!InodeBit]
    BY <1>2 DEF ib
  <2> DEFINE lists == [f.i_block EXCEPT ![id] = <<>>]
             pointers == [f.pointers EXCEPT ![id] = <<>>]
             sizes == [f.i_size EXCEPT ![id] = 0]
             entries == [f.entry EXCEPT ![name] = id]
  <2>2. /\ lists \in [A!Inode -> Seq(A!DataBlock)]
        /\ pointers \in [A!Inode -> Seq(A!DataBlock \cup {Junk})]
        /\ sizes \in [A!Inode -> 0 .. TwoTo32 - 1]
        /\ entries \in [Name -> {0} \cup A!Inode]
    BY <1>6
  <2>3. g = [f EXCEPT !.inode_bitmap = ib, !.i_block = lists, !.pointers = pointers,
                      !.i_size = sizes, !.entry = entries]
    BY <1>4
  <2> HIDE DEF lists, pointers, sizes, entries
  <2>4. g = [block_bitmap |-> f.block_bitmap, inode_bitmap |-> ib, i_block |-> lists,
             pointers |-> pointers, i_size |-> sizes, data |-> f.data, entry |-> entries,
             failed |-> f.failed, defects |-> f.defects]
    BY <1>1, <2>3 DEF FsType
  <2>5. g \in FsType
    BY <1>1, <2>1, <2>2, <2>4 DEF FsType
  <2>6. /\ g.inode_bitmap = ib /\ g.block_bitmap = f.block_bitmap
        /\ g.i_block = lists /\ g.pointers = pointers /\ g.i_size = sizes /\ g.entry = entries
        /\ g.failed = f.failed /\ g.defects = f.defects
    BY <2>4
  <2> QED BY <2>5, <2>6 DEF lists, pointers, sizes, entries
<1>8. /\ g.i_block[id] = <<>> /\ g.pointers[id] = <<>> /\ g.i_size[id] = 0
      /\ \A m \in A!Inode \ {id} : /\ g.i_block[m] = f.i_block[m]
                                   /\ g.pointers[m] = f.pointers[m]
                                   /\ g.i_size[m] = f.i_size[m]
  BY <1>1, <1>2, <1>7 DEF FsType
<1>9. Shape(g)
  <2>1. \A n \in A!Inode : Len(g.i_block[n]) <= EXT2_DIRECT_BLOCKS
    BY <1>8, LayoutFacts DEF FsInv, Shape
  <2>2. PointersJunk(g)
    BY <1>8 DEF FsInv, Shape, PointersJunk, DirectLeft
  <2>3. NamesApart(g)
    <3>1. \A m \in A!Inode : Allocated(g.inode_bitmap, m) <=> Allocated(f.inode_bitmap, m) \/ m = id
      BY <1>2, <1>7 DEF ib
    <3>2. \A other \in Name : g.entry[other] = IF other = name THEN id ELSE f.entry[other]
      BY <1>1, <1>7 DEF FsType
    <3>3. \A other \in Name : f.entry[other] # 0 => f.entry[other] \in A!Inode
      BY <1>1 DEF FsType
    <3>4. ASSUME NEW n1 \in Name, g.entry[n1] # 0, NEW n2 \in Name, g.entry[n2] = g.entry[n1]
          PROVE  /\ g.entry[n1] >= s_first_ino /\ Allocated(g.inode_bitmap, g.entry[n1])
                 /\ n2 = n1
      <4>1. CASE n1 = name
        BY <1>2, <1>3, <3>1, <3>2, <3>4, <4>1
      <4>2. CASE n1 # name
        <5>1. /\ g.entry[n1] = f.entry[n1] /\ f.entry[n1] \in A!Inode
              /\ f.entry[n1] >= s_first_ino /\ Allocated(f.inode_bitmap, f.entry[n1])
          BY <1>1, <3>2, <3>3, <3>4, <4>2 DEF NamesApart
        <5>2. n2 # name
          BY <1>3, <3>2, <3>4, <4>2
        <5>3. n2 = n1
          BY <1>1, <3>2, <3>4, <4>2, <5>2 DEF NamesApart
        <5> QED BY <3>1, <5>1, <5>3
      <4> QED BY <4>1, <4>2
    <3> QED BY <3>4 DEF NamesApart
  <2> QED BY <1>7, <2>1, <2>2, <2>3 DEF FsInv, Shape
<1>10. /\ get_inode_all_blocks(g, id) = <<>>
       /\ \A m \in A!Inode \ {id} : get_inode_all_blocks(g, m) = get_inode_all_blocks(f, m)
  <2>1. <<>> \o <<>> = <<>>
    BY ConcatEmptySeq
  <2> QED BY <1>8, <2>1 DEF get_inode_all_blocks
<1>11. \A n \in A!Inode : Backed(g, n)
  <2>1. \A n \in A!Inode : Backed(f, n)
    BY DEF FsInv
  <2>2. ASSUME NEW n \in A!Inode, n # id
        PROVE  Backed(g, n)
    <3>1. /\ g.pointers[n] = f.pointers[n] /\ g.i_size[n] = f.i_size[n]
          /\ g.defects = f.defects
      BY <1>7, <1>8, <2>2
    <3>2. get_inode_all_blocks(g, n) = get_inode_all_blocks(f, n)
      BY <1>10, <2>2
    <3> QED BY <2>1, <3>1, <3>2 DEF Backed, Backing
  <2>3. Backed(g, id)
    BY <1>8 DEF Backed, Backing
  <2> QED BY <2>2, <2>3
<1>12. f.defects = {} => Apart(g) /\ \A n \in A!Inode : Solid(g, n)
  <2> SUFFICES ASSUME f.defects = {}
               PROVE  Apart(g) /\ \A n \in A!Inode : Solid(g, n)
    OBVIOUS
  <2>1. Apart(f) /\ \A n \in A!Inode : Solid(f, n)
    BY DEF FsInv
  <2>2. Files(g) = Files(f) \cup {id} /\ Files(f) \subseteq A!Inode
    BY <1>1, <1>7 DEF Files, FsType
  <2>3. \A bb, all : Owned(bb, <<>>) /\ Disjoint(<<>>, all) /\ Disjoint(all, <<>>)
    BY DEF Owned, Disjoint
  <2>4. Apart(g)
    <3>1. ASSUME NEW n \in Files(g)
          PROVE  Owned(f.block_bitmap, get_inode_all_blocks(g, n))
      BY <1>10, <2>1, <2>2, <2>3 DEF Apart
    <3>2. ASSUME NEW n \in Files(g), NEW m \in Files(g) \ {n}
          PROVE  Disjoint(get_inode_all_blocks(g, n), get_inode_all_blocks(g, m))
      <4>1. CASE n = id \/ m = id
        BY <1>10, <2>3, <4>1
      <4>2. CASE n # id /\ m # id
        BY <1>10, <2>1, <2>2, <3>2, <4>2 DEF Apart
      <4> QED BY <4>1, <4>2
    <3> QED BY <1>7, <3>1, <3>2 DEF Apart
  <2>5. ASSUME NEW n \in A!Inode
        PROVE  Solid(g, n)
    <3>1. CASE n = id
      BY <1>8, <3>1 DEF Solid
    <3>2. CASE n # id
      <4>1. Solid(f, n) /\ g.i_size[n] = f.i_size[n]
            /\ get_inode_all_blocks(g, n) = get_inode_all_blocks(f, n)
        BY <1>8, <1>10, <2>1, <3>2
      <4> QED BY <4>1 DEF Solid
    <3> QED BY <3>1, <3>2
  <2> QED BY <2>4, <2>5
<1>13. FsInv(g)
  BY <1>7, <1>9, <1>11, <1>12 DEF FsInv
<1> QED BY <1>2, <1>3, <1>13 DEF Files

\* unlink takes the entry away; what ifree does then is to the bitmaps alone.
Unlinked(f, name) == ifree([f EXCEPT !.entry[name] = 0], f.entry[name])

LEMMA UnlinkEffect ==
  ASSUME NEW f, FsInv(f), f.failed = "none", NEW name \in Name,
         NEW n, n = f.entry[name], n # 0, NEW g, g = Unlinked(f, name)
  PROVE  /\ FsInv(g)
         /\ g.entry = [f.entry EXCEPT ![name] = 0]
         /\ g.i_block = f.i_block /\ g.pointers = f.pointers
         /\ g.i_size = f.i_size /\ g.data = f.data
<1> DEFINE entries == [f.entry EXCEPT ![name] = 0]
           e == [f EXCEPT !.entry = entries]
<1>1. f \in FsType /\ Shape(f) /\ n \in A!Inode /\ n >= s_first_ino
  BY DEF FsInv, Shape, FsType, NamesApart
<1>2. n - 1 \in A!Inode
  BY <1>1, Numbers
<1>3. [f EXCEPT !.entry[name] = 0] = e
  BY <1>1 DEF FsType
<1>4. entries \in [Name -> {0} \cup A!Inode]
      /\ \A other \in Name : entries[other] = IF other = name THEN 0 ELSE f.entry[other]
  BY <1>1 DEF FsType
<1> HIDE DEF entries
<1>5. /\ e \in FsType /\ e.entry = entries /\ e.block_bitmap = f.block_bitmap
      /\ e.inode_bitmap = f.inode_bitmap /\ e.i_block = f.i_block /\ e.pointers = f.pointers
      /\ e.i_size = f.i_size /\ e.data = f.data /\ e.failed = f.failed /\ e.defects = f.defects
  BY <1>1, <1>4 DEF FsType
<1> DEFINE freed == ToSet(get_inode_all_blocks(e, n - 1))
           hurts == \E m \in Files(e) \ {n} : ToSet(get_inode_all_blocks(e, m)) \cap freed # {}
           bb == A!ResetBlocks(e.block_bitmap, freed)
           ib == A!ResetInode(e.inode_bitmap, n)
           r == [e EXCEPT !.block_bitmap = bb, !.inode_bitmap = ib]
<1>6. g = IF Junk \in freed THEN [e EXCEPT !.failed = "bfree"]
          ELSE IF hurts THEN [r EXCEPT !.defects = e.defects \cup {"misfreed"}] ELSE r
  <2>1. g = ifree(e, n)
    BY <1>3 DEF Unlinked
  <2> HIDE DEF e
  <2>2. g = IF Junk \in freed THEN Stop(e, "bfree")
            ELSE IF hurts THEN Struck(r, "misfreed") ELSE r
    BY <2>1 DEF ifree
  <2>3. r.defects = e.defects
    OBVIOUS
  <2> QED BY <2>2, <2>3 DEF Stop, Struck
<1> HIDE DEF e, hurts
<1>7. \A m \in A!Inode : get_inode_all_blocks(e, m) = get_inode_all_blocks(f, m)
  BY <1>5 DEF get_inode_all_blocks
<1>8. Files(e) = Files(f) \ {n} /\ Files(f) \subseteq A!Inode
  <2>1. \A other \in Name : f.entry[other] = n => other = name
    BY <1>1 DEF Shape, NamesApart
  <2> QED BY <1>1, <1>4, <1>5, <2>1 DEF Files, FsType
<1>9. NamesApart(e) /\ \A other \in Name : entries[other] # n
  BY <1>1, <1>4, <1>5 DEF Shape, NamesApart
<1>10. Shape(e)
  BY <1>1, <1>5, <1>9 DEF Shape, PointersJunk, DirectLeft
<1>12. CASE Junk \in freed
  <2>1. Pointed(e)
    <3> DEFINE all == get_inode_all_blocks(e, n - 1)
    <3>1. PICK j \in DOMAIN all : all[j] = Junk
      BY <1>12 DEF ToSet
    <3>2. e.pointers[n - 1] = <<>> => all[j] \in A!DataBlock
      <4> SUFFICES ASSUME e.pointers[n - 1] = <<>> PROVE all[j] \in A!DataBlock
        OBVIOUS
      <4>1. /\ all = e.i_block[n - 1] /\ DOMAIN all = 1 .. Len(all)
            /\ \A k \in 1 .. Len(e.i_block[n - 1]) : all[k] \in A!DataBlock
        BY <1>2, <1>10, AllBlocks
      <4> HIDE DEF all
      <4> QED BY <3>1, <4>1
    <3> QED BY <1>2, <3>1, <3>2, Numbers DEF Pointed
  <2> DEFINE s == [e EXCEPT !.failed = "bfree"]
  <2>2. /\ s \in FsType /\ s.entry = e.entry /\ s.block_bitmap = e.block_bitmap
        /\ s.inode_bitmap = e.inode_bitmap /\ s.i_block = e.i_block /\ s.pointers = e.pointers
        /\ s.i_size = e.i_size /\ s.data = e.data /\ s.failed = "bfree"
    BY <1>5 DEF FsType
  <2>3. g = s
    BY <1>6, <1>12
  <2> HIDE DEF s
  <2>4. Shape(g)
    BY <1>10, <2>2, <2>3, SameShape
  <2>5. Pointed(g)
    BY <2>1, <2>2, <2>3 DEF Pointed
  <2>6. FsInv(g)
    BY <2>2, <2>3, <2>4, <2>5 DEF FsInv
  <2> QED BY <1>5, <2>2, <2>3, <2>6 DEF entries
<1>13. CASE Junk \notin freed
  <2>1. freed \in SUBSET A!DataBlock
    <3> DEFINE all == get_inode_all_blocks(e, n - 1)
    <3>1. \A j \in DOMAIN all : all[j] \in A!DataBlock \cup {Junk}
      BY <1>2, <1>10, AllBlocks
    <3> QED BY <1>13, <3>1 DEF ToSet
  <2> HIDE DEF freed, bb, ib
  <2>2. /\ bb \in [A!Group -> SUBSET A!BlockBit] /\ Marked(bb)
        /\ \A c \in A!DataBlock : InUse(bb, c) <=> InUse(f.block_bitmap, c) /\ c \notin freed
    BY <1>1, <1>5, <2>1, FreedBlocks DEF FsType, Shape, bb
  <2>3. /\ ib \in [A!Group -> SUBSET A!InodeBit]
        /\ \A m \in A!Inode : Allocated(ib, m) <=> Allocated(f.inode_bitmap, m) /\ m # n
    <3>1. f.inode_bitmap \in [A!Group -> SUBSET A!InodeBit] /\ e.inode_bitmap = f.inode_bitmap
      BY <1>1, <1>5 DEF FsType
    <3> QED BY <1>1, <3>1, FreedInode DEF ib
  <2>4. PICK defects \in SUBSET {"misfreed", "wrapped", "stale_fd"} :
          /\ g = [e EXCEPT !.block_bitmap = bb, !.inode_bitmap = ib, !.defects = defects]
          /\ f.defects \subseteq defects /\ (hurts => defects # {})
    <3>1. CASE hurts
      <4>1. g = [e EXCEPT !.block_bitmap = bb, !.inode_bitmap = ib,
                          !.defects = e.defects \cup {"misfreed"}]
        BY <1>5, <1>6, <1>13, <3>1 DEF FsType
      <4>2. e.defects \cup {"misfreed"} \in SUBSET {"misfreed", "wrapped", "stale_fd"}
        BY <1>5 DEF FsType
      <4> QED BY <1>5, <4>1, <4>2
    <3>2. CASE ~hurts
      <4>1. g = [e EXCEPT !.block_bitmap = bb, !.inode_bitmap = ib, !.defects = e.defects]
        BY <1>5, <1>6, <1>13, <3>2 DEF FsType
      <4>2. e.defects \in SUBSET {"misfreed", "wrapped", "stale_fd"}
        BY <1>5 DEF FsType
      <4> QED BY <1>5, <3>2, <4>1, <4>2
    <3> QED BY <3>1, <3>2
  <2> HIDE DEF r
  <2>5. /\ g \in FsType /\ g.entry = entries /\ g.block_bitmap = bb
        /\ g.inode_bitmap = ib /\ g.i_block = f.i_block /\ g.pointers = f.pointers
        /\ g.i_size = f.i_size /\ g.data = f.data /\ g.failed = f.failed /\ g.defects = defects
    <3>1. g = [block_bitmap |-> bb, inode_bitmap |-> ib, i_block |-> e.i_block,
               pointers |-> e.pointers, i_size |-> e.i_size, data |-> e.data,
               entry |-> e.entry, failed |-> e.failed, defects |-> defects]
      BY ZenonT(60), <1>5, <2>4 DEF FsType
    <3>2. /\ bb \in [A!Group -> SUBSET A!BlockBit]
          /\ ib \in [A!Group -> SUBSET A!InodeBit]
          /\ e.i_block \in [A!Inode -> Seq(A!DataBlock)]
          /\ e.pointers \in [A!Inode -> Seq(A!DataBlock \cup {Junk})]
          /\ e.i_size \in [A!Inode -> 0 .. TwoTo32 - 1]
          /\ e.data \in [A!DataBlock -> [0 .. BLOCK_SIZE - 1 -> Byte]]
          /\ e.entry \in [Name -> {0} \cup A!Inode]
          /\ e.failed \in {"none", "ballocs", "range", "bfree"}
      BY <1>5, <2>2, <2>3 DEF FsType
    <3>3. g \in FsType
      BY <3>1, <3>2 DEF FsType
    <3> QED BY <1>5, <3>1, <3>3
  <2>6. NamesApart(g)
    <3>1. \A other \in Name : g.entry[other] # 0 =>
            g.entry[other] = e.entry[other] /\ g.entry[other] \in A!Inode /\ g.entry[other] # n
      BY <1>4, <1>5, <1>9, <2>5
    <3> QED BY <1>5, <1>9, <2>3, <2>5, <3>1 DEF NamesApart
  <2>7. Shape(g)
    BY <1>1, <2>2, <2>5, <2>6 DEF Shape, PointersJunk, DirectLeft
  <2>8. /\ \A m \in A!Inode : get_inode_all_blocks(g, m) = get_inode_all_blocks(f, m)
        /\ Files(g) = Files(e)
    <3>1. g.i_block = f.i_block /\ g.pointers = f.pointers /\ g.entry = e.entry
      BY <1>5, <2>5
    <3> QED BY <3>1 DEF get_inode_all_blocks, Files
  <2>9. \A m \in A!Inode : Backed(g, m)
    <3>1. \A m \in A!Inode : Backing(f, m) => Backing(g, m)
      BY <2>5, <2>8 DEF Backing
    <3>2. g.defects = {} => f.defects = {}
      BY <2>4, <2>5
    <3>3. \A m \in A!Inode : Backed(f, m)
      BY DEF FsInv
    <3> QED BY <2>5, <3>1, <3>2, <3>3 DEF Backed
  <2>10. ASSUME g.defects = {}
         PROVE  Apart(g) /\ \A m \in A!Inode : Solid(g, m)
    <3>1. ~hurts /\ f.defects = {}
      BY <2>4, <2>5, <2>10
    <3>2. Apart(f) /\ \A m \in A!Inode : Solid(f, m)
      BY <3>1 DEF FsInv
    <3>3. ASSUME NEW m \in Files(g)
          PROVE  Owned(bb, get_inode_all_blocks(g, m))
      <4> DEFINE all == get_inode_all_blocks(f, m)
      <4>1. m \in A!Inode /\ m \in Files(f) \ {n} /\ m \in Files(e) \ {n}
        BY <1>8, <2>8, <3>3
      <4>2. Owned(f.block_bitmap, all)
        BY <3>2, <4>1 DEF Apart
      <4>3. \A j \in DOMAIN all : all[j] \notin freed
        <5>1. ToSet(all) \cap freed = {}
          BY <1>7, <3>1, <4>1 DEF hurts
        <5> QED BY <5>1 DEF ToSet
      <4>4. \A j \in DOMAIN all : all[j] \in A!DataBlock \cup {Junk}
        BY <1>1, <4>1, AllBlocks
      <4>5. get_inode_all_blocks(g, m) = all
        BY <2>8, <4>1
      <4> HIDE DEF all
      <4> QED BY <2>2, <4>2, <4>3, <4>4, <4>5 DEF Owned
    <3>4. Apart(g)
      BY <1>8, <2>5, <2>8, <3>2, <3>3 DEF Apart
    <3>5. \A m \in A!Inode : Solid(g, m)
      BY <2>5, <2>8, <3>2 DEF Solid
    <3> QED BY <3>4, <3>5
  <2>11. FsInv(g)
    BY <2>5, <2>7, <2>9, <2>10 DEF FsInv
  <2> QED BY <2>5, <2>11 DEF entries
<1> QED BY <1>12, <1>13

\* Blocks are missed only behind a pointer block.
LEMMA Reachable ==
  ASSUME NEW f, Shape(f), NEW n \in A!Inode, NEW all, all = get_inode_all_blocks(f, n),
         NEW first \in Nat, NEW last \in Nat
  PROVE  /\ Unreachable(all, first, last) /\ (f.pointers[n] = <<>> => last < Len(all)) => Pointed(f)
         /\ ~Unreachable(all, first, last) =>
              \A k \in first .. last : k + 1 \in DOMAIN all /\ all[k + 1] \in A!DataBlock
<1>1. /\ DOMAIN all = 1 .. Len(all) /\ Len(all) \in Nat
      /\ \A j \in DOMAIN all : all[j] \in A!DataBlock \cup {Junk}
      /\ \A j \in 1 .. Len(f.i_block[n]) : all[j] \in A!DataBlock
      /\ f.pointers[n] = <<>> => all = f.i_block[n]
  BY AllBlocks
<1>2. ASSUME Unreachable(all, first, last), last < Len(all)
      PROVE  f.pointers[n] # <<>>
  <2>1. PICK k \in first .. last : IF k < Len(all) THEN all[k + 1] = Junk ELSE TRUE
    BY <1>2 DEF Unreachable
  <2>2. k + 1 \in 1 .. Len(all) /\ all[k + 1] = Junk
    BY <1>1, <1>2, <2>1
  <2> QED BY <1>1, <2>2, Numbers
<1>3. ASSUME ~Unreachable(all, first, last), NEW k \in first .. last
      PROVE  k + 1 \in DOMAIN all /\ all[k + 1] \in A!DataBlock
  <2>1. k < Len(all) /\ all[k + 1] # Junk
    BY <1>3 DEF Unreachable
  <2> QED BY <1>1, <2>1
<1> QED BY <1>2, <1>3 DEF Pointed

\* write gives the file its size, and then the blocks that are missing.
Sized(f, n, end) == [f EXCEPT !.i_size[n] = NewSize(@, end)]
Widened(f, n, end) ==
  Grown(Sized(f, n, end), n, Max({0, Needed(end) - Len(get_inode_all_blocks(f, n))}))

Widening(f, n, end, g) ==
  /\ Shape(g) /\ g.failed \in {"none", "ballocs"}
  /\ g.i_size = [f.i_size EXCEPT ![n] = NewSize(f.i_size[n], end)]
  /\ g.data = f.data /\ g.entry = f.entry /\ g.defects = f.defects
  /\ \A m \in A!Inode \ {n} : get_inode_all_blocks(g, m) = get_inode_all_blocks(f, m)
  /\ Apart(f) => Apart(g)
  /\ g.failed = "none" =>
       /\ g.pointers[n] = <<>> =>
            f.pointers[n] = <<>> /\ BlockOf(end) < Len(get_inode_all_blocks(g, n))
       /\ \A m \in A!Inode \ {n} : g.pointers[m] = f.pointers[m]
       /\ \A m \in A!Inode : /\ Backing(f, m)
                             /\ m = n => BlockOf(end) < Len(get_inode_all_blocks(g, n))
                             => Backing(g, m)
       /\ /\ BlockOf(end) < Len(get_inode_all_blocks(g, n))
          /\ get_inode_all_blocks(g, n)[BlockOf(end) + 1] # Junk
          => \A j \in DOMAIN get_inode_all_blocks(f, n) :
               /\ j \in DOMAIN get_inode_all_blocks(g, n)
               /\ get_inode_all_blocks(g, n)[j] = get_inode_all_blocks(f, n)[j]

LEMMA WidenedEffect ==
  ASSUME NEW f, FsInv(f), f.failed = "none", NEW n \in A!Inode, NEW end \in 0 .. TwoTo32 - 1,
         NEW g, g = Widened(f, n, end)
  PROVE  Widening(f, n, end, g)
<1> DEFINE size == NewSize(f.i_size[n], end)
           sizes == [f.i_size EXCEPT ![n] = size]
           s == Sized(f, n, end)
           missing == Needed(end) - Len(get_inode_all_blocks(f, n))
           count == Max({0, missing})
<1>1. f \in FsType /\ Shape(f) /\ f.i_size[n] \in 0 .. TwoTo32 - 1
  BY DEF FsInv, Shape, FsType
<1>2. size = IF f.i_size[n] >= end THEN f.i_size[n] ELSE end
  BY <1>1, LargerOfTwo, Sizes DEF NewSize
<1>3. sizes \in [A!Inode -> 0 .. TwoTo32 - 1]
      /\ \A m \in A!Inode : sizes[m] = IF m = n THEN size ELSE f.i_size[m]
  BY <1>1, <1>2 DEF FsType
<1> HIDE DEF size, sizes
<1>4. /\ s \in FsType /\ s.i_size = sizes /\ s.block_bitmap = f.block_bitmap
      /\ s.inode_bitmap = f.inode_bitmap /\ s.i_block = f.i_block /\ s.pointers = f.pointers
      /\ s.data = f.data /\ s.entry = f.entry /\ s.failed = f.failed /\ s.defects = f.defects
  <2>1. s = [f EXCEPT !.i_size = sizes]
    BY <1>1 DEF Sized, FsType, size, sizes
  <2> HIDE DEF s
  <2> QED BY <1>1, <1>3, <2>1 DEF FsType
<1> HIDE DEF s
<1>5. Shape(s)
  BY <1>1, <1>4, SameShape
<1>6. \A m \in A!Inode : get_inode_all_blocks(s, m) = get_inode_all_blocks(f, m)
  BY <1>4 DEF get_inode_all_blocks
<1>7. Apart(f) => Apart(s)
  <2>1. Files(s) = Files(f) /\ Files(f) \subseteq A!Inode
    BY <1>1, <1>4 DEF Files, FsType
  <2> QED BY <1>4, <1>6, <2>1 DEF Apart
<1> DEFINE F == get_inode_all_blocks(f, n)
           G == get_inode_all_blocks(g, n)
<1>8. Len(F) \in Nat /\ BlockOf(end) \in Nat
  BY <1>1, AllBlocks, Sizes
<1>9. missing = BlockOf(end) + 1 - Len(F) /\ count = IF 0 >= missing THEN 0 ELSE missing
  BY <1>8, LargerOfTwo DEF Needed
<1>10. count \in Nat
  BY <1>8, <1>9
<1>11. g = Grown(s, n, count)
  BY DEF Widened, s
<1> HIDE DEF missing, count
<1>12. /\ Taking(s, n, g)
       /\ count = 0 => g = s
       /\ g.failed = "none" => g.pointers[n] # <<>> \/ Len(g.i_block[n]) = Len(s.i_block[n]) + count
  BY <1>5, <1>10, <1>11, GrownEffect
<1>13. /\ Shape(g) /\ g.failed \in {"none", "ballocs"} /\ g.i_size = sizes
       /\ g.data = f.data /\ g.entry = f.entry /\ g.defects = f.defects
       /\ \A m \in A!Inode \ {n} : g.i_block[m] = f.i_block[m] /\ g.pointers[m] = f.pointers[m]
       /\ f.pointers[n] # <<>> => g.pointers[n] # <<>>
       /\ Apart(f) => Apart(g)
  BY <1>4, <1>7, <1>12 DEF Taking, Kept
<1>14. \A m \in A!Inode \ {n} : get_inode_all_blocks(g, m) = get_inode_all_blocks(f, m)
  BY <1>13 DEF get_inode_all_blocks
<1>15. /\ DOMAIN F = 1 .. Len(F)
       /\ f.pointers[n] = <<>> => F = f.i_block[n]
       /\ f.pointers[n] # <<>> => Len(F) = Len(f.i_block[n]) + JunkWords
       /\ Len(f.i_block[n]) \in Nat
       /\ \A j \in 1 .. Len(f.i_block[n]) : j \in DOMAIN F /\ F[j] = f.i_block[n][j]
  BY <1>1, AllBlocks
<1>16. /\ DOMAIN G = 1 .. Len(G) /\ Len(G) \in Nat /\ Len(g.i_block[n]) \in Nat
       /\ g.pointers[n] = <<>> => G = g.i_block[n]
       /\ \A j \in 1 .. Len(g.i_block[n]) : j \in DOMAIN G /\ G[j] = g.i_block[n][j]
       /\ \A j \in DOMAIN G : j > Len(g.i_block[n]) + 1 => G[j] = Junk
  BY <1>13, AllBlocks
<1>17. missing \in Int
  BY <1>8, <1>9
<1>18. 0 >= missing => G = F
  <2>1. 0 >= missing => g = s
    BY <1>9, <1>12
  <2> QED BY <1>6, <2>1
<1>19. ASSUME g.failed = "none", g.pointers[n] = <<>>
       PROVE  f.pointers[n] = <<>> /\ BlockOf(end) < Len(G)
  <2>1. f.pointers[n] = <<>>
    BY <1>13, <1>19
  <2>2. CASE 0 >= missing
    <3> HIDE DEF F, G
    <3> QED BY <1>8, <1>9, <1>18, <2>1, <2>2
  <2>3. CASE missing > 0
    <3>1. Len(G) = Len(F) + count
      BY <1>4, <1>12, <1>15, <1>16, <1>19, <2>1
    <3> HIDE DEF G, F
    <3> QED BY <1>8, <1>9, <2>1, <2>3, <3>1
  <2> QED BY <1>17, <2>2, <2>3
\* A file that has a pointer block cannot grow up to a block that it has.
<1>20. ASSUME BlockOf(end) < Len(G), G[BlockOf(end) + 1] # Junk
       PROVE  \A j \in DOMAIN F : j \in DOMAIN G /\ G[j] = F[j]
  <2>1. CASE 0 >= missing
    <3> HIDE DEF F, G
    <3> QED BY <1>18, <2>1
  <2>2. CASE missing > 0
    <3>1. Len(F) < BlockOf(end) + 1
      BY <1>8, <1>9, <2>2
    <3>2. \A j \in 1 .. Len(f.i_block[n]) :
            j \in 1 .. Len(g.i_block[n]) /\ g.i_block[n][j] = f.i_block[n][j]
      BY <1>4, <1>12 DEF Taking
    <3>3. f.pointers[n] = <<>>
      <4> SUFFICES ASSUME f.pointers[n] # <<>> PROVE FALSE
        OBVIOUS
      <4> DEFINE d == Len(f.i_block[n])
                 e == Len(g.i_block[n])
      <4>1. d = EXT2_DIRECT_BLOCKS /\ e <= EXT2_DIRECT_BLOCKS
        <5>1. ~DirectLeft(f, n) /\ d <= EXT2_DIRECT_BLOCKS /\ e <= EXT2_DIRECT_BLOCKS
          BY <1>1, <1>13 DEF Shape, PointersJunk
        <5> QED BY <1>15, <5>1, LayoutFacts DEF DirectLeft
      <4>2. Len(F) = d + JunkWords /\ d \in Nat /\ e \in Nat
        BY <1>15, <1>16
      <4>3. BlockOf(end) + 1 \in DOMAIN G
        <5> HIDE DEF G
        <5> QED BY <1>8, <1>16, <1>20
      <4>4. BlockOf(end) + 1 <= e + 1
        <5> HIDE DEF G
        <5> QED BY <1>8, <1>16, <1>20, <4>3 DEF e
      <4> HIDE DEF d, e, F
      <4> QED BY <1>8, <3>1, <4>1, <4>2, <4>4, JunkSize, LayoutFacts
    <3>4. F = f.i_block[n]
      BY <1>15, <3>3
    <3> HIDE DEF F, G
    <3> QED BY <1>15, <1>16, <3>2, <3>4
  <2> QED BY <1>17, <2>1, <2>2
<1>21. ASSUME NEW m \in A!Inode, Backing(f, m), m = n => BlockOf(end) < Len(G)
       PROVE  Backing(g, m)
  <2>1. CASE m # n
    BY <1>3, <1>13, <1>14, <1>21, <2>1 DEF Backing
  <2>2. CASE m = n
    <3>1. g.i_size[n] = size
      BY <1>3, <1>13
    <3>2. CASE f.i_size[n] >= end /\ size > 0
      <4>1. size = f.i_size[n]
        BY <1>2, <3>2
      <4>2. BlockOf(size) < Len(F)
        BY <1>21, <2>2, <3>2, <4>1 DEF Backing
      <4>3. BlockOf(end) <= BlockOf(size) /\ BlockOf(size) \in Nat
        BY <1>1, <3>2, <4>1, Sizes
      <4>4. 0 >= missing
        <5> HIDE DEF F
        <5> QED BY <1>8, <1>9, <4>2, <4>3
      <4> QED BY <1>18, <2>2, <3>1, <4>2, <4>4 DEF Backing
    <3>3. CASE ~(f.i_size[n] >= end)
      BY <1>2, <1>21, <2>2, <3>1, <3>3 DEF Backing
    <3>4. CASE ~(size > 0)
      BY <2>2, <3>1, <3>4 DEF Backing
    <3> QED BY <3>2, <3>3, <3>4
  <2> QED BY <2>1, <2>2
<1> QED BY <1>13, <1>14, <1>19, <1>20, <1>21 DEF size, sizes, Widening

\* What write makes of f, when n is the inode of the descriptor; stale says that
\* the file is removed.
Written(f, n, offset, count, stale) ==
  LET end == (offset + count) % TwoTo32
      g == Widened(f, n, end)
      all == get_inode_all_blocks(g, n)
      marked == [g EXCEPT !.data = Laid(@, all, offset, end, n),
                   !.defects = @ \cup (IF offset + count >= TwoTo32 THEN {"wrapped"} ELSE {})]
  IN  IF g.failed # "none" THEN g
      ELSE IF Unreachable(all, BlockOf(offset), BlockOf(end)) THEN Stop(g, "range")
      ELSE IF stale THEN Struck(marked, "stale_fd") ELSE marked

\* g has the blocks; r is g when bytes were laid, or the write ran into an assert.
LEMMA Finished ==
  ASSUME NEW g, Shape(g),
         NEW r \in FsType, r.block_bitmap = g.block_bitmap, r.inode_bitmap = g.inode_bitmap,
         r.i_block = g.i_block, r.pointers = g.pointers, r.i_size = g.i_size, r.entry = g.entry,
         \/ r.failed = "range" /\ Pointed(g)
         \/ /\ r.failed = "none"
            /\ \A m \in A!Inode : g.pointers[m] = <<>> \/ r.defects = {} => Backing(g, m)
            /\ r.defects = {} => Apart(g) /\ \A m \in A!Inode : Solid(g, m)
  PROVE  FsInv(r)
<1>1. Shape(r)
  BY SameShape
<1>2. \A m \in A!Inode : get_inode_all_blocks(r, m) = get_inode_all_blocks(g, m)
  BY DEF get_inode_all_blocks
<1>3. Files(r) = Files(g) /\ Files(g) \subseteq A!Inode
  BY DEF Files, Shape, FsType
<1>4. \A m \in A!Inode : (Backing(g, m) => Backing(r, m)) /\ (Solid(g, m) => Solid(r, m))
  BY <1>2 DEF Backing, Solid
<1>5. Apart(g) => Apart(r)
  BY <1>2, <1>3 DEF Apart
<1>6. Pointed(g) => Pointed(r)
  BY DEF Pointed
<1> QED BY <1>1, <1>4, <1>5, <1>6 DEF FsInv, Backed, Backing

\* Behind a block that is one of the disk's there is no other.
LEMMA SolidBelow ==
  ASSUME NEW g, Shape(g), NEW n \in A!Inode, NEW last \in Nat,
         NEW all, all = get_inode_all_blocks(g, n), last < Len(all), all[last + 1] # Junk
  PROVE  \A k \in 0 .. last : all[k + 1] # Junk
<1>1. /\ DOMAIN all = 1 .. Len(all) /\ Len(all) \in Nat
      /\ Len(g.i_block[n]) \in Nat
      /\ \A j \in 1 .. Len(g.i_block[n]) : all[j] \in A!DataBlock
      /\ \A j \in DOMAIN all : j > Len(g.i_block[n]) + 1 => all[j] = Junk
  BY AllBlocks
<1> DEFINE d == Len(g.i_block[n])
<1> HIDE DEF d
<1>2. last + 1 <= d + 1
  BY <1>1 DEF d
<1>3. ASSUME NEW k \in 0 .. last, k # last
      PROVE  all[k + 1] # Junk
  <2>1. k + 1 \in 1 .. d
    BY <1>1, <1>2, <1>3 DEF d
  <2> QED BY <1>1, <2>1, Numbers DEF d
<1> QED BY <1>3

LEMMA LaidType ==
  ASSUME NEW data \in [A!DataBlock -> [0 .. BLOCK_SIZE - 1 -> Byte]], NEW all,
         NEW offset, NEW end, NEW n \in A!Inode
  PROVE  /\ Laid(data, all, offset, end, n) \in [A!DataBlock -> [0 .. BLOCK_SIZE - 1 -> Byte]]
         /\ \A c \in A!DataBlock, k \in 0 .. BLOCK_SIZE - 1 :
              Laid(data, all, offset, end, n)[c][k] =
                IF \E i \in offset .. end - 1 : all[BlockOf(i) + 1] = c /\ i % BLOCK_SIZE = k
                THEN n ELSE data[c][k]
<1> DEFINE laid(c, k) == \E i \in offset .. end - 1 : all[BlockOf(i) + 1] = c /\ i % BLOCK_SIZE = k
<1>1. Laid(data, all, offset, end, n) =
        [c \in DOMAIN data |-> [k \in DOMAIN data[c] |-> IF laid(c, k) THEN n ELSE data[c][k]]]
  BY DEF Laid
<1> HIDE DEF laid
<1>2. n \in Byte
  BY DEF Byte
<1>3. DOMAIN data = A!DataBlock /\ \A c \in A!DataBlock : DOMAIN data[c] = 0 .. BLOCK_SIZE - 1
  OBVIOUS
<1>4. /\ Laid(data, all, offset, end, n) \in [A!DataBlock -> [0 .. BLOCK_SIZE - 1 -> Byte]]
      /\ \A c \in A!DataBlock, k \in 0 .. BLOCK_SIZE - 1 :
           Laid(data, all, offset, end, n)[c][k] = IF laid(c, k) THEN n ELSE data[c][k]
  <2> DEFINE row(c) == [k \in DOMAIN data[c] |-> IF laid(c, k) THEN n ELSE data[c][k]]
  <2>1. ASSUME NEW c \in A!DataBlock
        PROVE  /\ row(c) \in [0 .. BLOCK_SIZE - 1 -> Byte]
               /\ \A k \in 0 .. BLOCK_SIZE - 1 : row(c)[k] = IF laid(c, k) THEN n ELSE data[c][k]
    BY <1>2, <1>3
  <2>2. Laid(data, all, offset, end, n) = [c \in A!DataBlock |-> row(c)]
    BY <1>1, <1>3
  <2> HIDE DEF row
  <2> QED BY <2>1, <2>2
<1> QED BY <1>4 DEF laid

LEMMA WrittenEffect ==
  ASSUME NEW f, FsInv(f), f.failed = "none", NEW n \in A!Inode,
         NEW offset \in 0 .. TwoTo32 - 1, NEW count \in Nat \ {0}, NEW stale \in BOOLEAN,
         NEW end, end = (offset + count) % TwoTo32, NEW g, g = Widened(f, n, end),
         NEW all, all = get_inode_all_blocks(g, n),
         NEW r, r = Written(f, n, offset, count, stale)
  PROVE  /\ FsInv(r) /\ end \in 0 .. TwoTo32 - 1 /\ r.entry = f.entry
         /\ r.failed = "none" /\ r.defects = {} =>
              /\ f.defects = {} /\ ~stale /\ end = offset + count
              /\ g.failed = "none" /\ Apart(g)
              /\ ~Unreachable(all, BlockOf(offset), BlockOf(end))
              /\ r.data = Laid(f.data, all, offset, end, n)
              /\ r.i_block = g.i_block /\ r.pointers = g.pointers /\ r.i_size = g.i_size
<1>1. end \in 0 .. TwoTo32 - 1
  <2>1. \A x \in Nat, y \in Nat \ {0} : x % y \in 0 .. y - 1
    OBVIOUS
  <2>2. offset + count \in Nat
    BY Sizes
  <2> QED BY <2>1, <2>2, Sizes
<1>2. /\ Shape(g) /\ g.failed \in {"none", "ballocs"}
      /\ g.i_size = [f.i_size EXCEPT ![n] = NewSize(f.i_size[n], end)]
      /\ g.data = f.data /\ g.entry = f.entry /\ g.defects = f.defects
      /\ \A m \in A!Inode \ {n} : get_inode_all_blocks(g, m) = get_inode_all_blocks(f, m)
      /\ Apart(f) => Apart(g)
      /\ g.failed = "none" =>
           /\ g.pointers[n] = <<>> => f.pointers[n] = <<>> /\ BlockOf(end) < Len(all)
           /\ \A m \in A!Inode \ {n} : g.pointers[m] = f.pointers[m]
           /\ \A m \in A!Inode : /\ Backing(f, m)
                                 /\ m = n => BlockOf(end) < Len(all)
                                 => Backing(g, m)
           /\ /\ BlockOf(end) < Len(all)
              /\ all[BlockOf(end) + 1] # Junk
              => \A j \in DOMAIN get_inode_all_blocks(f, n) :
                   /\ j \in DOMAIN all
                   /\ all[j] = get_inode_all_blocks(f, n)[j]
  <2>1. Widening(f, n, end, g)
    BY <1>1, WidenedEffect
  <2> QED BY <2>1 DEF Widening
<1> DEFINE wrapped == IF offset + count >= TwoTo32 THEN {"wrapped"} ELSE {}
           marked == [g EXCEPT !.data = Laid(@, all, offset, end, n), !.defects = @ \cup wrapped]
           out == Unreachable(all, BlockOf(offset), BlockOf(end))
<1>3. r = IF g.failed # "none" THEN g
          ELSE IF out THEN Stop(g, "range")
          ELSE IF stale THEN Struck(marked, "stale_fd") ELSE marked
  BY DEF Written
<1> HIDE DEF out
<1>4. CASE g.failed # "none"
  BY <1>1, <1>2, <1>3, <1>4 DEF FsInv
<1>5. CASE g.failed = "none" /\ out
  <2>1. r = [g EXCEPT !.failed = "range"]
    BY <1>3, <1>5 DEF Stop
  <2>2. g \in FsType
    BY <1>2 DEF Shape
  <2>3. /\ r \in FsType /\ r.block_bitmap = g.block_bitmap /\ r.inode_bitmap = g.inode_bitmap
        /\ r.i_block = g.i_block /\ r.pointers = g.pointers /\ r.i_size = g.i_size
        /\ r.entry = g.entry /\ r.failed = "range"
    BY <2>1, <2>2 DEF FsType
  <2>4. Pointed(g)
    <3>1. BlockOf(offset) \in Nat /\ BlockOf(end) \in Nat
      BY <1>1, Sizes
    <3> QED BY <1>2, <1>5, <3>1, Reachable DEF out
  <2>5. FsInv(r)
    BY <1>2, <1>5, <2>3, <2>4, Finished
  <2> QED BY <1>1, <1>2, <2>3, <2>5
<1>6. CASE g.failed = "none" /\ ~out
  <2>1. g \in FsType
    BY <1>2 DEF Shape
  <2> DEFINE data == Laid(g.data, all, offset, end, n)
             defects == g.defects \cup wrapped \cup (IF stale THEN {"stale_fd"} ELSE {})
  <2>2. r = [g EXCEPT !.data = data, !.defects = defects]
    <3>1. CASE stale
      BY ZenonT(60), <1>3, <1>6, <2>1, <3>1 DEF Struck, FsType
    <3>2. CASE ~stale
      BY <1>3, <1>6, <2>1, <3>2 DEF FsType
    <3> QED BY <3>1, <3>2
  <2>3. data \in [A!DataBlock -> [0 .. BLOCK_SIZE - 1 -> Byte]]
    BY <2>1, LaidType DEF FsType
  <2>4. defects \in SUBSET {"misfreed", "wrapped", "stale_fd"}
    BY <2>1 DEF FsType
  <2> HIDE DEF data, defects
  <2>5. /\ r \in FsType /\ r.block_bitmap = g.block_bitmap /\ r.inode_bitmap = g.inode_bitmap
        /\ r.i_block = g.i_block /\ r.pointers = g.pointers /\ r.i_size = g.i_size
        /\ r.entry = g.entry /\ r.failed = "none" /\ r.data = data /\ r.defects = defects
    BY <1>6, <2>1, <2>2, <2>3, <2>4 DEF FsType
  <2>6. ASSUME r.defects = {}
        PROVE  /\ f.defects = {} /\ ~stale /\ end = offset + count
               /\ BlockOf(end) < Len(all) /\ all[BlockOf(end) + 1] # Junk
               /\ Apart(g) /\ \A m \in A!Inode : Solid(g, m)
    <3>1. f.defects = {} /\ ~stale /\ offset + count < TwoTo32
      <4>1. g.defects = {} /\ wrapped = {} /\ ~stale
        BY <2>5, <2>6 DEF defects
      <4> QED BY <1>2, <4>1, Sizes
    <3>2. end = offset + count
      <4>1. \A x \in Nat, y \in Nat : x < y => x % y = x
        OBVIOUS
      <4>2. offset + count \in Nat /\ TwoTo32 \in Nat
        BY Sizes
      <4> QED BY <3>1, <4>1, <4>2
    <3>3. Apart(f) /\ \A m \in A!Inode : Solid(f, m)
      BY <3>1 DEF FsInv
    <3>6. BlockOf(end) < Len(all) /\ all[BlockOf(end) + 1] # Junk
      <4>1. BlockOf(end) \in BlockOf(offset) .. BlockOf(end)
        BY <1>1, <3>2, Sizes
      <4> QED BY <1>6, <4>1 DEF out, Unreachable
    <3>4. \A m \in A!Inode \ {n} : Solid(g, m)
      <4>1. \A m \in A!Inode \ {n} : g.i_size[m] = f.i_size[m]
        BY <1>2 DEF FsInv, Shape, FsType
      <4> QED BY <1>2, <3>3, <4>1 DEF Solid
    <3>5. Solid(g, n)
      <4>1. f.i_size[n] \in 0 .. TwoTo32 - 1
            /\ g.i_size[n] = NewSize(f.i_size[n], end)
        BY <1>2 DEF FsInv, Shape, FsType
      <4>2. g.i_size[n] = IF f.i_size[n] >= end THEN f.i_size[n] ELSE end
        BY <1>1, <4>1, LargerOfTwo, Sizes DEF NewSize
      <4>3. CASE f.i_size[n] >= end
        <5>1. Solid(f, n) /\ Backing(f, n) /\ g.i_size[n] = f.i_size[n]
          BY <3>1, <3>3, <4>2, <4>3 DEF FsInv, Backed, Backing
        <5> DEFINE F == get_inode_all_blocks(f, n)
        <5>2. DOMAIN F = 1 .. Len(F) /\ Len(F) \in Nat /\ BlockOf(f.i_size[n]) \in Nat
          BY <4>1, AllBlocks, Sizes DEF FsInv
        <5>3. ASSUME g.i_size[n] > 0, NEW k \in 0 .. BlockOf(g.i_size[n])
              PROVE  all[k + 1] # Junk
          <6>1. F[k + 1] # Junk /\ BlockOf(f.i_size[n]) < Len(F)
            BY <5>1, <5>3 DEF Solid, Backing
          <6>2. k + 1 \in DOMAIN F
            <7> HIDE DEF F
            <7> QED BY <5>1, <5>2, <5>3, <6>1
          <6> QED BY <1>2, <1>6, <3>6, <6>1, <6>2
        <5> QED BY <5>3 DEF Solid
      <4>4. CASE ~(f.i_size[n] >= end)
        <5>1. BlockOf(end) \in Nat /\ BlockOf(offset) \in Nat /\ BlockOf(offset) <= BlockOf(end)
          BY <1>1, <3>2, Sizes
        <5>2. \A k \in 0 .. BlockOf(end) : all[k + 1] # Junk
          BY <1>2, <1>6, <3>6, <5>1, SolidBelow
        <5> QED BY <4>2, <4>4, <5>2 DEF Solid
      <4> QED BY <4>3, <4>4
    <3> QED BY <1>2, <3>1, <3>2, <3>3, <3>4, <3>5, <3>6
  <2>7. ASSUME NEW m \in A!Inode, g.pointers[m] = <<>> \/ r.defects = {}
        PROVE  Backing(g, m)
    <3>1. f.pointers[m] = <<>> \/ f.defects = {}
      <4>1. CASE m = n
        BY <1>2, <1>6, <2>6, <2>7, <4>1
      <4>2. CASE m # n
        BY <1>2, <1>6, <2>6, <2>7, <4>2
      <4> QED BY <4>1, <4>2
    <3>2. Backing(f, m)
      BY <3>1 DEF FsInv, Backed
    <3>3. m = n => BlockOf(end) < Len(all)
      BY <1>2, <1>6, <2>6, <2>7
    <3> QED BY <1>2, <1>6, <3>2, <3>3
  <2>8. FsInv(r)
    BY <1>2, <1>6, <2>5, <2>6, <2>7, Finished
  <2> QED BY <1>1, <1>2, <1>6, <2>5, <2>6, <2>8 DEF data, out
<1> QED BY <1>2, <1>4, <1>5, <1>6

-------------------------------------------------------------------------------
(* The invariant *)

FilesType ==
  _files \in [Fd -> [inode : {0} \cup A!Inode, offset : 0 .. TwoTo32 - 1,
                     flag : {"none"} \cup Flag]]

LEMMA TypeParts == TypeOK <=> /\ fs \in FsType
                              /\ \A n \in A!Inode : Len(fs.i_block[n]) <= EXT2_DIRECT_BLOCKS
                              /\ FilesType /\ opened \in [Fd -> SUBSET Name]
                              /\ got \in Seq(Byte)
BY DEF TypeOK, FilesType

LEMMA ByWayInv ==
  ASSUME NEW f, FsInv(f), NEW fd
  PROVE  /\ FsInv(ByWay(fd, f))
         /\ ByWay(fd, f).failed = f.failed
         /\ ByWay(fd, f).defects = {} => ByWay(fd, f) = f /\ opened[fd] # {}
         /\ ByWay(fd, f).entry = f.entry
<1> DEFINE g == Struck(f, "stale_fd")
<1>1. f \in FsType
  BY DEF FsInv, Shape
<1>2. /\ g \in FsType /\ g.block_bitmap = f.block_bitmap /\ g.inode_bitmap = f.inode_bitmap
      /\ g.i_block = f.i_block /\ g.pointers = f.pointers /\ g.i_size = f.i_size
      /\ g.entry = f.entry /\ g.defects = f.defects \cup {"stale_fd"} /\ g.failed = f.failed
  BY <1>1 DEF FsType, Struck
<1> HIDE DEF g
<1>3. FsInv(g)
  BY <1>2, Noted
<1>4. ByWay(fd, f) = IF opened[fd] # {} THEN f ELSE g
  BY DEF ByWay, g
<1> QED BY <1>2, <1>3, <1>4

\* What an open descriptor is.
LEMMA Descriptor ==
  ASSUME FilesType, NEW fd \in Fd, IsOpen(fd)
  PROVE  _files[fd].inode \in A!Inode /\ _files[fd].offset \in 0 .. TwoTo32 - 1
BY DEF FilesType, IsOpen

\* What read may ask for is there but for pointers to no block.
LEMMA ReadInv ==
  ASSUME IInv, NEW fd \in Fd, NEW count \in Count, read(fd, count)
  PROVE  FsInv(fs') /\ UNCHANGED <<_files, opened>> /\ got' \in Seq(Byte)
<1> DEFINE n == _files[fd].inode
           offset == _files[fd].offset
           real == Min({count, fs.i_size[n] - offset})
           all == get_inode_all_blocks(fs, n)
           first == BlockOf(offset)
           last == BlockOf(offset + real)
<1>1. /\ Running /\ UNCHANGED <<_files, opened>>
      /\ \/ fs' = ByWay(fd, fs) /\ got' = <<>>
         \/ /\ offset < fs.i_size[n] /\ Unreachable(all, first, last)
            /\ fs' = Stop(fs, "range") /\ got' = <<>>
         \/ /\ offset < fs.i_size[n] /\ ~Unreachable(all, first, last)
            /\ got' = [i \in 1 .. real |-> ByteAt(fs, all, offset + i - 1)]
            /\ fs' = ByWay(fd, fs)
  BY DEF read
<1>2. /\ n \in A!Inode /\ offset \in 0 .. TwoTo32 - 1 /\ FsInv(fs) /\ Shape(fs) /\ fs \in FsType
      /\ fs.i_size[n] \in 0 .. TwoTo32 - 1 /\ Backed(fs, n) /\ fs.failed = "none"
  <2>1. n \in A!Inode /\ offset \in 0 .. TwoTo32 - 1 /\ FsInv(fs) /\ Running
    BY Descriptor, TypeParts DEF IInv, read
  <2> HIDE DEF n, offset
  <2> QED BY <2>1 DEF FsInv, Shape, FsType, Running
<1>3. FsInv(ByWay(fd, fs))
  BY <1>2, ByWayInv
<1>4. <<>> \in Seq(Byte)
  OBVIOUS
<1> HIDE DEF n
<1>5. ASSUME offset < fs.i_size[n]
      PROVE  /\ real \in Nat /\ offset + real <= fs.i_size[n]
             /\ first \in Nat /\ last \in Nat /\ (fs.pointers[n] = <<>> => last < Len(all))
  <2>1. real \in Nat /\ real <= fs.i_size[n] - offset
    <3>1. count \in Nat
      BY FileAssumption, Sizes
    <3>2. fs.i_size[n] - offset \in Nat
      BY <1>2, <1>5
    <3> HIDE DEF offset
    <3> QED BY <3>1, <3>2, SmallerOfTwo
  <2> HIDE DEF real
  <2>2. offset + real \in Nat /\ offset + real <= fs.i_size[n] /\ fs.i_size[n] \in Nat
        /\ offset \in Nat
    BY <1>2, <2>1
  <2>3. last <= BlockOf(fs.i_size[n]) /\ BlockOf(fs.i_size[n]) \in Nat
        /\ first \in Nat /\ last \in Nat
    BY <1>2, <2>2, Sizes
  <2>4. fs.pointers[n] = <<>> => BlockOf(fs.i_size[n]) < Len(all)
    BY <1>2, <1>5, <2>2 DEF Backed, Backing
  <2>5. Len(all) \in Nat
    BY <1>2, AllBlocks
  <2> HIDE DEF first, last, all
  <2> QED BY <2>1, <2>2, <2>3, <2>4, <2>5
<1>6. CASE fs' = ByWay(fd, fs) /\ got' = <<>>
  BY <1>1, <1>3, <1>4, <1>6
<1>7. CASE /\ offset < fs.i_size[n] /\ Unreachable(all, first, last)
           /\ fs' = Stop(fs, "range") /\ got' = <<>>
  <2>1. Pointed(fs)
    <3> HIDE DEF first, last, offset
    <3> QED BY <1>2, <1>5, <1>7, Reachable
  <2> DEFINE g == [fs EXCEPT !.failed = "range"]
  <2>2. /\ g \in FsType /\ g.block_bitmap = fs.block_bitmap /\ g.inode_bitmap = fs.inode_bitmap
        /\ g.i_block = fs.i_block /\ g.pointers = fs.pointers /\ g.i_size = fs.i_size
        /\ g.entry = fs.entry /\ g.defects = fs.defects /\ g.failed = "range"
    BY <1>2 DEF FsType
  <2>3. fs' = g
    BY <1>7 DEF Stop
  <2> HIDE DEF g
  <2>4. FsInv(g)
    BY <1>2, <2>1, <2>2, Noted
  <2> QED BY <1>1, <1>4, <1>7, <2>3, <2>4
<1>8. CASE /\ offset < fs.i_size[n] /\ ~Unreachable(all, first, last)
           /\ got' = [i \in 1 .. real |-> ByteAt(fs, all, offset + i - 1)]
           /\ fs' = ByWay(fd, fs)
  <2>1. ASSUME NEW i \in 1 .. real
        PROVE  ByteAt(fs, all, offset + i - 1) \in Byte
    <3> DEFINE at == offset + i - 1
    <3>1. real \in Nat /\ first \in Nat /\ last \in Nat
      BY <1>5, <1>8
    <3>2. at \in Nat /\ offset \in Nat /\ offset + real \in Nat /\ offset <= at /\ at <= offset + real
      <4> HIDE DEF real
      <4> QED BY <1>2, <2>1, <3>1
    <3> HIDE DEF at, real, offset
    <3>3. BlockOf(at) \in first .. last
      <4>1. /\ BlockOf(at) \in Nat /\ BlockOf(offset) <= BlockOf(at)
            /\ BlockOf(at) <= BlockOf(offset + real)
        <5>1. at % BLOCK_SIZE \in Nat
          BY <3>2, Sizes
        <5>2. BlockOf(at) \in Nat
          BY <3>2, Sizes DEF BlockOf
        <5> QED BY <3>2, <5>2, Sizes
      <4> QED BY <3>1, <4>1
    <3>4. all[BlockOf(at) + 1] \in A!DataBlock
      <4> HIDE DEF first, last
      <4> QED BY <1>2, <1>8, <3>1, <3>3, Reachable
    <3>5. at % BLOCK_SIZE \in 0 .. BLOCK_SIZE - 1
      BY <3>2, Sizes
    <3>6. ByteAt(fs, all, at) \in Byte
      <4>1. fs.data \in [A!DataBlock -> [0 .. BLOCK_SIZE - 1 -> Byte]]
        BY <1>2 DEF FsType
      <4> DEFINE c == all[BlockOf(at) + 1]
                 k == at % BLOCK_SIZE
      <4>2. ByteAt(fs, all, at) = fs.data[c][k]
        BY DEF ByteAt
      <4>3. c \in A!DataBlock /\ k \in 0 .. BLOCK_SIZE - 1
        BY <3>4, <3>5
      <4> HIDE DEF c, k
      <4>4. fs.data[c] \in [0 .. BLOCK_SIZE - 1 -> Byte]
        BY <4>1, <4>3
      <4>5. fs.data[c][k] \in Byte
        BY <4>3, <4>4
      <4> QED BY <4>2, <4>5
    <3> QED BY <3>6 DEF at
  <2>2. real \in Nat
    BY <1>5, <1>8
  <2> HIDE DEF real, offset, all
  <2>3. got' \in [1 .. real -> Byte]
    BY <1>8, <2>1
  <2> QED BY <1>1, <1>3, <1>8, <2>2, <2>3, SeqDef
<1> QED BY <1>1, <1>6, <1>7, <1>8

LEMMA WriteIsWritten ==
  ASSUME NEW fd \in Fd, NEW count \in Count, write(fd, count),
         NEW n, n = _files[fd].inode, NEW offset, offset = _files[fd].offset
  PROVE  /\ \E stale \in BOOLEAN :
              /\ fs' = Written(fs, n, offset, count, stale)
              /\ stale <=> opened[fd] = {}
         /\ _files' = [_files EXCEPT ![fd].offset = (offset + count) % TwoTo32]
         /\ got' = <<>> /\ UNCHANGED opened
<1> DEFINE end == (offset + count) % TwoTo32
           g == Widened(fs, n, end)
           all == get_inode_all_blocks(g, n)
           marked == [g EXCEPT !.data = Laid(@, all, offset, end, n),
                        !.defects = @ \cup (IF offset + count >= TwoTo32 THEN {"wrapped"} ELSE {})]
           out == Unreachable(all, BlockOf(offset), BlockOf(end))
<1>1. /\ fs' = IF g.failed # "none" THEN g
               ELSE IF out THEN Stop(g, "range")
               ELSE ByWay(fd, marked)
      /\ _files' = [_files EXCEPT ![fd].offset = end]
      /\ got' = <<>> /\ UNCHANGED opened
  BY DEF write, Widened, Sized
<1>2. \A stale : Written(fs, n, offset, count, stale) =
                   IF g.failed # "none" THEN g
                   ELSE IF out THEN Stop(g, "range")
                   ELSE IF stale THEN Struck(marked, "stale_fd") ELSE marked
  BY DEF Written
<1>3. ByWay(fd, marked) = IF opened[fd] # {} THEN marked ELSE Struck(marked, "stale_fd")
  BY DEF ByWay
<1> HIDE DEF end, g, marked, out
<1> DEFINE stale == opened[fd] = {}
<1>4. fs' = Written(fs, n, offset, count, stale)
  BY <1>1, <1>2, <1>3
<1>5. stale \in BOOLEAN /\ (stale <=> opened[fd] = {})
  OBVIOUS
<1> HIDE DEF stale
<1> QED BY <1>1, <1>4, <1>5 DEF end

\* Only unlink takes the inode of a file from its name, and it forgets the
\* descriptors of that file.
LEMMA NextTracks ==
  ASSUME IInv, [Next]_vars
  PROVE  opened' \in [Fd -> SUBSET Name] /\ Tracked'
<1>1. /\ FsInv(fs) /\ fs \in FsType /\ FilesType /\ opened \in [Fd -> SUBSET Name] /\ Tracked
  BY TypeParts DEF IInv, FsInv, Shape
<1>2. ASSUME NEW name \in Name, create(name)
      PROVE  opened' \in [Fd -> SUBSET Name] /\ Tracked'
  <2>1. fs.entry[name] = 0 /\ fs'.entry = [fs.entry EXCEPT ![name] = A!ialloc(fs.inode_bitmap)]
        /\ UNCHANGED <<_files, opened>>
    BY <1>1, <1>2 DEF create, FsType
  <2>2. \A m \in Name : m # name => fs'.entry[m] = fs.entry[m]
    BY <1>1, <2>1 DEF FsType
  <2>3. \A fd \in Fd : name \notin opened[fd]
    BY <1>1, <2>1 DEF Tracked, IsOpen
  <2> QED BY <1>1, <2>1, <2>2, <2>3 DEF Tracked, IsOpen
<1>3. ASSUME NEW name \in Name, unlink(name)
      PROVE  opened' \in [Fd -> SUBSET Name] /\ Tracked'
  <2>1. fs.failed = "none" /\ fs.entry[name] # 0 /\ fs' = Unlinked(fs, name)
        /\ opened' = [fd \in Fd |-> opened[fd] \ {name}] /\ UNCHANGED _files
    BY <1>3 DEF unlink, Unlinked, Running
  <2>2. fs'.entry = [fs.entry EXCEPT ![name] = 0]
    BY <1>1, <2>1, UnlinkEffect
  <2>3. \A m \in Name : m # name => fs'.entry[m] = fs.entry[m]
    BY <1>1, <2>2 DEF FsType
  <2>4. \A fd \in Fd : opened'[fd] \subseteq opened[fd] /\ name \notin opened'[fd]
    BY <2>1
  <2> QED BY <1>1, <2>1, <2>3, <2>4 DEF Tracked, IsOpen
<1>4. ASSUME NEW name \in Name, NEW flag \in Flag, open(name, flag)
      PROVE  opened' \in [Fd -> SUBSET Name] /\ Tracked'
  <2> DEFINE new == get_avaiable_fd
  <2>1. /\ _files' = [_files EXCEPT ![new] = [inode |-> fs.entry[name], offset |-> 0, flag |-> flag]]
        /\ opened' = [opened EXCEPT ![new] = {name}]
        /\ UNCHANGED fs /\ fs.entry[name] # 0
    BY <1>4 DEF open
  <2> HIDE DEF new
  <2>2. ASSUME NEW fd \in Fd, NEW m \in opened'[fd]
        PROVE  (IsOpen(fd) /\ fs.entry[m] = _files[fd].inode)'
    <3>1. CASE fd = new
      BY <1>1, <2>1, <2>2, <3>1 DEF IsOpen, FilesType
    <3>2. CASE fd # new
      BY <1>1, <2>1, <2>2, <3>2 DEF IsOpen, FilesType, Tracked
    <3> QED BY <3>1, <3>2
  <2> QED BY <1>1, <2>1, <2>2 DEF Tracked
<1>5. ASSUME NEW fd \in Fd, close(fd)
      PROVE  opened' \in [Fd -> SUBSET Name] /\ Tracked'
  <2>1. /\ _files' = [_files EXCEPT ![fd] = Closed] /\ opened' = [opened EXCEPT ![fd] = {}]
        /\ UNCHANGED fs
    BY <1>5 DEF close
  <2> QED BY <1>1, <2>1 DEF Tracked, IsOpen, FilesType
<1>6. ASSUME UNCHANGED opened, fs'.entry = fs.entry,
             \A fd \in Fd : _files'[fd].inode = _files[fd].inode
      PROVE  opened' \in [Fd -> SUBSET Name] /\ Tracked'
  BY <1>1, <1>6 DEF Tracked, IsOpen
<1>7. ASSUME NEW fd \in Fd, NEW offset, _files' = [_files EXCEPT ![fd].offset = offset]
      PROVE  \A d \in Fd : _files'[d].inode = _files[d].inode
  BY <1>1, <1>7 DEF FilesType
<1>8. ASSUME NEW fd \in Fd, NEW by \in Seek, lseek(fd, by)
      PROVE  opened' \in [Fd -> SUBSET Name] /\ Tracked'
  <2>1. PICK base \in {0, _files[fd].offset, fs.i_size[_files[fd].inode]} :
          _files' = [_files EXCEPT ![fd].offset = (base + by) % TwoTo32]
    BY <1>8 DEF lseek
  <2>2. UNCHANGED <<fs, opened>>
    BY <1>8 DEF lseek
  <2> QED BY <1>6, <1>7, <2>1, <2>2
<1>9. ASSUME NEW fd \in Fd, NEW count \in Count, read(fd, count)
      PROVE  opened' \in [Fd -> SUBSET Name] /\ Tracked'
  <2>1. UNCHANGED <<_files, opened>> /\ (fs' = ByWay(fd, fs) \/ fs' = Stop(fs, "range"))
    BY <1>9 DEF read
  <2>2. ByWay(fd, fs).entry = fs.entry /\ Stop(fs, "range").entry = fs.entry
    BY <1>1, ByWayInv DEF Stop, FsType
  <2>3. fs'.entry = fs.entry
    BY <2>1, <2>2
  <2> QED BY <1>6, <2>1, <2>3
<1>10. ASSUME NEW fd \in Fd, NEW count \in Count, write(fd, count)
       PROVE  opened' \in [Fd -> SUBSET Name] /\ Tracked'
  <2> DEFINE n == _files[fd].inode
             offset == _files[fd].offset
  <2>1. n \in A!Inode /\ offset \in 0 .. TwoTo32 - 1 /\ fs.failed = "none"
    BY <1>1, <1>10, Descriptor DEF write, Running
  <2>2. count \in Nat \ {0}
    BY FileAssumption
  <2>3. /\ \E stale \in BOOLEAN : fs' = Written(fs, n, offset, count, stale)
        /\ _files' = [_files EXCEPT ![fd].offset = (offset + count) % TwoTo32]
        /\ UNCHANGED opened
    BY <1>10, WriteIsWritten
  <2>4. fs'.entry = fs.entry
    <3> HIDE DEF n, offset
    <3>1. PICK stale \in BOOLEAN : fs' = Written(fs, n, offset, count, stale)
      BY <2>3
    <3> QED BY <1>1, <2>1, <2>2, <3>1, WrittenEffect
  <2> QED BY <1>6, <1>7, <2>3, <2>4
<1>11. CASE UNCHANGED vars
  BY <1>1, <1>11 DEF vars, Tracked, IsOpen
<1> QED BY <1>2, <1>3, <1>4, <1>5, <1>8, <1>9, <1>10, <1>11 DEF Next

LEMMA NextKeepsIInv == IInv /\ [Next]_vars => IInv'
<1> SUFFICES ASSUME IInv, [Next]_vars PROVE IInv'
  OBVIOUS
<1>1. /\ FsInv(fs) /\ Shape(fs) /\ fs \in FsType /\ FilesType /\ got \in Seq(Byte)
  BY TypeParts DEF IInv, FsInv, Shape
<1>2. ASSUME FsInv(fs'), FilesType', got' \in Seq(Byte)
      PROVE  IInv'
  BY <1>2, NextTracks DEF IInv, TypeOK, FilesType, FsInv, Shape
<1>3. <<>> \in Seq(Byte)
  OBVIOUS
<1>4. ASSUME NEW fd \in Fd, NEW offset \in 0 .. TwoTo32 - 1,
             _files' = [_files EXCEPT ![fd].offset = offset]
      PROVE  FilesType'
  BY <1>1, <1>4 DEF FilesType
<1>5. \A x \in Nat : x % TwoTo32 \in 0 .. TwoTo32 - 1
  BY Sizes
<1>6. ASSUME NEW name \in Name, create(name)
      PROVE  IInv'
  <2> DEFINE id == A!ialloc(fs.inode_bitmap)
  <2>1. fs.failed = "none" /\ fs.entry[name] = 0 /\ id # 0 /\ fs' = Created(fs, name, id)
        /\ got' = <<>> /\ UNCHANGED _files
    BY <1>6 DEF create, Created, Running
  <2>2. FsInv(fs')
    BY <1>1, <2>1, CreateEffect
  <2> QED BY <1>1, <1>2, <1>3, <2>1, <2>2 DEF FilesType
<1>7. ASSUME NEW name \in Name, unlink(name)
      PROVE  IInv'
  <2>1. fs.failed = "none" /\ fs.entry[name] # 0 /\ fs' = Unlinked(fs, name)
        /\ got' = <<>> /\ UNCHANGED _files
    BY <1>7 DEF unlink, Unlinked, Running
  <2>2. FsInv(fs')
    BY <1>1, <2>1, UnlinkEffect
  <2> QED BY <1>1, <1>2, <1>3, <2>1, <2>2 DEF FilesType
<1>8. ASSUME NEW name \in Name, NEW flag \in Flag, open(name, flag)
      PROVE  IInv'
  <2>1. /\ _files' = [_files EXCEPT ![get_avaiable_fd] =
                        [inode |-> fs.entry[name], offset |-> 0, flag |-> flag]]
        /\ got' = <<>> /\ UNCHANGED fs
    BY <1>8 DEF open
  <2>2. fs.entry[name] \in {0} \cup A!Inode /\ 0 \in 0 .. TwoTo32 - 1
    BY <1>1, Sizes DEF FsType
  <2>3. FilesType'
    BY <1>1, <2>1, <2>2 DEF FilesType
  <2> QED BY <1>1, <1>2, <1>3, <2>1, <2>3
<1>9. ASSUME NEW fd \in Fd, close(fd)
      PROVE  IInv'
  <2>1. _files' = [_files EXCEPT ![fd] = Closed] /\ got' = <<>> /\ UNCHANGED fs
    BY <1>9 DEF close
  <2>2. 0 \in 0 .. TwoTo32 - 1
    BY Sizes
  <2>3. FilesType'
    BY <1>1, <2>1, <2>2 DEF FilesType, Closed
  <2> QED BY <1>1, <1>2, <1>3, <2>1, <2>3
<1>10. ASSUME NEW fd \in Fd, NEW by \in Seek, lseek(fd, by)
       PROVE  IInv'
  <2>1. PICK base \in {0, _files[fd].offset, fs.i_size[_files[fd].inode]} :
          _files' = [_files EXCEPT ![fd].offset = (base + by) % TwoTo32]
    BY <1>10 DEF lseek
  <2>2. IsOpen(fd) /\ got' = <<>> /\ UNCHANGED fs
    BY <1>10 DEF lseek
  <2>3. base \in Nat
    <3>1. _files[fd].inode \in A!Inode /\ _files[fd].offset \in 0 .. TwoTo32 - 1
      BY <1>1, <2>2, Descriptor
    <3>2. fs.i_size[_files[fd].inode] \in 0 .. TwoTo32 - 1
      BY <1>1, <3>1 DEF FsType
    <3> QED BY <2>1, <3>1, <3>2
  <2>4. base + by \in Nat
    BY <2>3, FileAssumption
  <2>5. FilesType'
    BY <1>4, <1>5, <2>1, <2>4
  <2> QED BY <1>1, <1>2, <1>3, <2>2, <2>5
<1>11. ASSUME NEW fd \in Fd, NEW count \in Count, read(fd, count)
       PROVE  IInv'
  <2>1. FsInv(fs') /\ UNCHANGED <<_files, opened>> /\ got' \in Seq(Byte)
    BY <1>11, ReadInv
  <2> QED BY <1>1, <1>2, <2>1 DEF FilesType
<1>12. ASSUME NEW fd \in Fd, NEW count \in Count, write(fd, count)
       PROVE  IInv'
  <2> DEFINE n == _files[fd].inode
             offset == _files[fd].offset
  <2>1. n \in A!Inode /\ offset \in 0 .. TwoTo32 - 1 /\ fs.failed = "none"
    BY <1>1, <1>12, Descriptor DEF write, Running
  <2>2. count \in Nat \ {0}
    BY FileAssumption
  <2> DEFINE end == (offset + count) % TwoTo32
  <2>3. /\ \E stale \in BOOLEAN : fs' = Written(fs, n, offset, count, stale)
        /\ _files' = [_files EXCEPT ![fd].offset = end]
        /\ got' = <<>>
    BY <1>12, WriteIsWritten
  <2> HIDE DEF n, offset
  <2>4. FsInv(fs') /\ end \in 0 .. TwoTo32 - 1
    BY <1>1, <2>1, <2>2, <2>3, WrittenEffect
  <2>5. FilesType'
    BY <1>4, <2>3, <2>4
  <2> QED BY <1>2, <1>3, <2>3, <2>4, <2>5
<1>13. CASE UNCHANGED vars
  BY <1>1, <1>2, <1>13 DEF vars, FilesType
<1> QED BY <1>6, <1>7, <1>8, <1>9, <1>10, <1>11, <1>12, <1>13 DEF Next

LEMMA InitKeepsIInv == Init => IInv
<1> SUFFICES ASSUME Init PROVE IInv
  OBVIOUS
<1>1. FsInv(fs) /\ fs \in FsType /\ Shape(fs)
  BY InitInv DEF FsInv, Shape
<1>2. 0 \in 0 .. TwoTo32 - 1
  BY Sizes
<1>3. FilesType /\ opened \in [Fd -> SUBSET Name] /\ Tracked /\ got \in Seq(Byte)
  BY <1>2 DEF Init, FilesType, Closed, Tracked
<1> QED BY <1>1, <1>3, TypeParts DEF IInv, Shape

\* The strengthened invariant of every state: whoever writes, seeks, removes and
\* creates in whatever order, a block list is as long as its file and one byte,
\* and a block is of one file, until the defects that are known strike.
THEOREM Invariance == Spec => []IInv
<1> QED BY InitKeepsIInv, NextKeepsIInv, PTL DEF Spec

\* The parts of the file system are what the declarations of fs.hpp and vfs.hpp
\* make them, in every state; in particular no list of direct blocks grows over
\* the entries of i_block that there are.
THEOREM TypeCorrect == Spec => []TypeOK
<1>1. IInv => TypeOK
  BY DEF IInv
<1> QED BY <1>1, Invariance, PTL

\* A file has the block that read fetches for the byte after its last one.
THEOREM EndBlocks == Spec => []EndBlockExists
<1>1. IInv => EndBlockExists
  <2> SUFFICES ASSUME IInv, Sound, NEW n \in Files(fs), fs.i_size[n] > 0
               PROVE  BlockOf(fs.i_size[n]) < Len(get_inode_all_blocks(fs, n))
    BY DEF EndBlockExists
  <2>1. n \in A!Inode
    BY DEF IInv, FsInv, Shape, FsType, Files
  <2>2. fs.failed = "none" /\ fs.defects = {}
    BY DEF Sound, Running
  <2>3. Backed(fs, n)
    BY <2>1, <2>2 DEF IInv, FsInv
  <2> QED BY <2>2, <2>3 DEF Backed, Backing
<1> QED BY <1>1, Invariance, PTL

\* No data block is of two files, or twice of one, or of a file and free.
THEOREM SeparateBlocks == Spec => []BlocksApart
<1>1. IInv => BlocksApart
  <2> SUFFICES ASSUME IInv, Sound, NEW n \in Files(fs)
               PROVE  LET all == get_inode_all_blocks(fs, n)
                          mine == ToSet(all) \ {Junk}
                      IN  /\ \A b \in mine : A!Used(b)
                          /\ \A j, k \in DOMAIN all : all[j] = all[k] /\ all[j] # Junk => j = k
                          /\ \A m \in Files(fs) \ {n} :
                               mine \cap ToSet(get_inode_all_blocks(fs, m)) = {}
    BY DEF BlocksApart
  <2> DEFINE all == get_inode_all_blocks(fs, n)
             mine == ToSet(all) \ {Junk}
  <2>1. Apart(fs)
    BY DEF IInv, FsInv, Sound, Running
  <2>2. Owned(fs.block_bitmap, all)
    BY <2>1 DEF Apart
  <2>3. \A m \in Files(fs) \ {n} : Disjoint(all, get_inode_all_blocks(fs, m))
    BY <2>1 DEF Apart
  <2> HIDE DEF all
  <2>4. \A b \in mine : A!Used(b)
    BY <2>2 DEF ToSet, Owned, InUse, A!Used
  <2>5. \A j, k \in DOMAIN all : all[j] = all[k] /\ all[j] # Junk => j = k
    BY <2>2 DEF Owned
  <2>6. \A m \in Files(fs) \ {n} : mine \cap ToSet(get_inode_all_blocks(fs, m)) = {}
    BY <2>3 DEF ToSet, Disjoint
  <2> QED BY <2>4, <2>5, <2>6 DEF all
<1> QED BY <1>1, Invariance, PTL

\* Where the asserts of read_block, of bfree and of the index into the blocks of
\* a file fail, a pointer block was written: nothing else leads there.
THEOREM AbortCauses == Spec => []AbortsHaveCauses
<1>1. IInv => AbortsHaveCauses
  BY DEF IInv, FsInv, AbortsHaveCauses, Pointed
<1> QED BY <1>1, Invariance, PTL

-------------------------------------------------------------------------------
(* The files as FileStore has them *)

ContentOf(f, n) == [i \in 1 .. f.i_size[n] |-> ByteAt(f, get_inode_all_blocks(f, n), i - 1)]
Contents(f) == [name \in {m \in Name : f.entry[m] # 0} |-> ContentOf(f, f.entry[name])]

LEMMA ContentIs == content = Contents(fs) /\ content' = Contents(fs')
BY DEF content, Contents, Content, ContentOf

LEMMA ContentOfFacts ==
  ASSUME NEW f, NEW n, f.i_size[n] \in Nat
  PROVE  /\ DOMAIN ContentOf(f, n) = 1 .. f.i_size[n] /\ Len(ContentOf(f, n)) = f.i_size[n]
         /\ \A i \in 1 .. f.i_size[n] :
              ContentOf(f, n)[i] = ByteAt(f, get_inode_all_blocks(f, n), i - 1)
BY DEF ContentOf

LEMMA SameContent ==
  ASSUME NEW f, NEW g, NEW n, g.i_size[n] = f.i_size[n], g.data = f.data,
         get_inode_all_blocks(g, n) = get_inode_all_blocks(f, n)
  PROVE  ContentOf(g, n) = ContentOf(f, n)
BY DEF ContentOf, ByteAt

\* Where the byte at i of a file is.
LEMMA Place ==
  /\ \A i \in Nat : BlockOf(i) \in Nat /\ i % BLOCK_SIZE \in 0 .. BLOCK_SIZE - 1
  /\ \A i, j \in Nat : BlockOf(i) = BlockOf(j) /\ i % BLOCK_SIZE = j % BLOCK_SIZE => i = j
<1>1. \A s \in Nat \ {0}, i \in Nat : i \div s \in Nat /\ i % s \in 0 .. s - 1
  OBVIOUS
<1>2. \A s \in Nat \ {0}, i, j \in Nat : i \div s = j \div s /\ i % s = j % s => i = j
  <2>1. \A s \in Nat \ {0}, i \in Nat : i = s * (i \div s) + (i % s)
    OBVIOUS
  <2> QED BY <2>1
<1> QED BY <1>1, <1>2, Sizes DEF BlockOf

\* The blocks under the bytes of a file, by the invariant.
LEMMA Under ==
  ASSUME NEW f, FsInv(f), f.failed = "none", f.defects = {}, NEW n \in A!Inode,
         NEW i \in 0 .. f.i_size[n] - 1, NEW all, all = get_inode_all_blocks(f, n)
  PROVE  BlockOf(i) + 1 \in DOMAIN all /\ all[BlockOf(i) + 1] \in A!DataBlock
<1>1. /\ f.i_size[n] \in 0 .. TwoTo32 - 1 /\ Backed(f, n) /\ Solid(f, n) /\ Shape(f)
  BY DEF FsInv, Shape, FsType
<1>2. /\ i \in Nat /\ f.i_size[n] \in Nat /\ f.i_size[n] > 0 /\ i <= f.i_size[n]
  BY <1>1
<1>3. /\ BlockOf(i) \in Nat /\ BlockOf(f.i_size[n]) \in Nat /\ BlockOf(i) <= BlockOf(f.i_size[n])
  BY <1>1, <1>2, Sizes, Place
<1>4. BlockOf(f.i_size[n]) < Len(all) /\ \A k \in 0 .. BlockOf(f.i_size[n]) : all[k + 1] # Junk
  BY <1>1, <1>2 DEF Backed, Backing, Solid
<1>5. /\ DOMAIN all = 1 .. Len(all) /\ Len(all) \in Nat
      /\ \A j \in DOMAIN all : all[j] \in A!DataBlock \cup {Junk}
  BY <1>1, AllBlocks
<1>6. BlockOf(i) + 1 \in DOMAIN all /\ BlockOf(i) \in 0 .. BlockOf(f.i_size[n])
  BY <1>3, <1>4, <1>5
<1> QED BY <1>4, <1>5, <1>6

\* A write that meets no defect came by a descriptor that is not stale, and
\* leaves the directory alone.
LEMMA WrittenCalm ==
  ASSUME NEW f, FsInv(f), f.failed = "none", NEW n \in A!Inode,
         NEW offset \in 0 .. TwoTo32 - 1, NEW count \in Nat \ {0}, NEW stale \in BOOLEAN,
         NEW r, r = Written(f, n, offset, count, stale), r.failed = "none", r.defects = {}
  PROVE  ~stale /\ r.entry = f.entry
<1> DEFINE end == (offset + count) % TwoTo32
           g == Widened(f, n, end)
           all == get_inode_all_blocks(g, n)
<1>1. \/ ~(r.failed = "none" /\ r.defects = {})
      \/ ~stale /\ r.entry = f.entry
  BY WrittenEffect
<1> QED BY <1>1

\* What a write that meets no defect does to the bytes of the files.
LEMMA WrittenBytes ==
  ASSUME NEW f, FsInv(f), f.failed = "none", f.defects = {}, NEW n \in Files(f),
         NEW offset \in 0 .. TwoTo32 - 1, NEW count \in Nat \ {0}, NEW stale \in BOOLEAN,
         NEW r, r = Written(f, n, offset, count, stale), r.failed = "none", r.defects = {}
  PROVE  /\ FsInv(r) /\ r.entry = f.entry /\ ~stale
         /\ Store!IsWritten(ContentOf(f, n), ContentOf(r, n), offset, count, n)
         /\ \A m \in Files(f) \ {n} : ContentOf(r, m) = ContentOf(f, m)
<1> DEFINE end == (offset + count) % TwoTo32
           g == Widened(f, n, end)
           all == get_inode_all_blocks(g, n)
           F == get_inode_all_blocks(f, n)
           laid(c, k) == \E i \in offset .. end - 1 : all[BlockOf(i) + 1] = c /\ i % BLOCK_SIZE = k
<1>1. f \in FsType /\ Files(f) \subseteq A!Inode /\ n \in A!Inode
  BY DEF FsInv, Shape, FsType, Files
<1>2. /\ FsInv(r) /\ end \in 0 .. TwoTo32 - 1
      /\ ~stale /\ end = offset + count /\ g.failed = "none" /\ Apart(g)
      /\ ~Unreachable(all, BlockOf(offset), BlockOf(end))
      /\ r.data = Laid(f.data, all, offset, end, n)
      /\ r.i_block = g.i_block /\ r.pointers = g.pointers /\ r.i_size = g.i_size
      /\ r.entry = f.entry
  <2>1. /\ end = (offset + count) % TwoTo32
        /\ g = Widened(f, n, end) /\ all = get_inode_all_blocks(g, n)
    OBVIOUS
  <2> HIDE DEF end, g, all
  <2>2. /\ FsInv(r) /\ end \in 0 .. TwoTo32 - 1 /\ r.entry = f.entry
        /\ r.failed = "none" /\ r.defects = {} =>
              /\ f.defects = {} /\ ~stale /\ end = offset + count
              /\ g.failed = "none" /\ Apart(g)
              /\ ~Unreachable(all, BlockOf(offset), BlockOf(end))
              /\ r.data = Laid(f.data, all, offset, end, n)
              /\ r.i_block = g.i_block /\ r.pointers = g.pointers /\ r.i_size = g.i_size
    BY <1>1, <2>1, WrittenEffect
  <2> QED BY <2>2
<1>3. Widening(f, n, end, g)
  BY <1>1, <1>2, WidenedEffect
<1> HIDE DEF end, g
<1>4. \A m \in A!Inode : get_inode_all_blocks(r, m) = get_inode_all_blocks(g, m)
  BY <1>2 DEF get_inode_all_blocks
<1>5. /\ Shape(g) /\ g.entry = f.entry
      /\ r.i_size = [f.i_size EXCEPT ![n] = NewSize(f.i_size[n], end)]
      /\ \A m \in A!Inode \ {n} : get_inode_all_blocks(g, m) = get_inode_all_blocks(f, m)
      /\ \A j \in DOMAIN F : j \in DOMAIN all /\ all[j] = F[j]
  <2>1. BlockOf(end) < Len(all) /\ all[BlockOf(end) + 1] # Junk
    <3>1. offset \in Nat /\ end \in Nat /\ offset <= end
      BY <1>2
    <3>2. BlockOf(end) \in BlockOf(offset) .. BlockOf(end)
      <4>1. BlockOf(offset) \in Nat /\ BlockOf(end) \in Nat /\ BlockOf(offset) <= BlockOf(end)
        BY <3>1, Sizes, Place
      <4> QED BY <4>1
    <3> HIDE DEF all
    <3> QED BY <1>2, <3>2 DEF Unreachable
  <2> QED BY <1>2, <1>3, <2>1 DEF Widening
<1> HIDE DEF F, all
<1>6. /\ f.i_size[n] \in 0 .. TwoTo32 - 1
      /\ r.i_size[n] = Max({f.i_size[n], end})
      /\ r.i_size[n] = IF f.i_size[n] >= end THEN f.i_size[n] ELSE end
      /\ \A m \in A!Inode \ {n} : r.i_size[m] = f.i_size[m]
  <2>1. f.i_size \in [A!Inode -> 0 .. TwoTo32 - 1]
    BY <1>1 DEF FsType
  <2>2. r.i_size[n] = NewSize(f.i_size[n], end)
    BY <1>1, <1>5, <2>1
  <2> QED BY <1>1, <1>2, <1>5, <2>1, <2>2, LargerOfTwo, Sizes DEF NewSize
<1>7. \A c \in A!DataBlock, k \in 0 .. BLOCK_SIZE - 1 :
        r.data[c][k] = IF laid(c, k) THEN n ELSE f.data[c][k]
  <2>1. f.data \in [A!DataBlock -> [0 .. BLOCK_SIZE - 1 -> Byte]]
    BY <1>1 DEF FsType
  <2> QED BY <1>1, <1>2, <2>1, LaidType
<1> HIDE DEF laid
\* The blocks that are written.
<1>8. ASSUME NEW i \in offset .. end - 1
      PROVE  BlockOf(i) + 1 \in DOMAIN all /\ all[BlockOf(i) + 1] \in A!DataBlock
  <2>1. i \in Nat /\ offset \in Nat /\ end \in Nat /\ offset <= i /\ i <= end
    BY <1>2
  <2>2. /\ BlockOf(i) \in Nat /\ BlockOf(offset) \in Nat /\ BlockOf(end) \in Nat
        /\ BlockOf(offset) <= BlockOf(i) /\ BlockOf(i) <= BlockOf(end)
    BY <2>1, Sizes, Place
  <2>3. BlockOf(i) \in BlockOf(offset) .. BlockOf(end)
    BY <2>2
  <2> QED BY <1>1, <1>2, <1>5, <2>2, <2>3, Reachable DEF all
\* No other byte of the file is in the place of one that is written ...
<1>9. ASSUME NEW i \in 0 .. f.i_size[n] - 1, i \notin offset .. end - 1
      PROVE  ~laid(F[BlockOf(i) + 1], i % BLOCK_SIZE)
  <2>1. BlockOf(i) + 1 \in DOMAIN F /\ F[BlockOf(i) + 1] \in A!DataBlock
    BY <1>1, Under DEF F
  <2>2. BlockOf(i) + 1 \in DOMAIN all /\ all[BlockOf(i) + 1] = F[BlockOf(i) + 1]
    BY <1>5, <2>1
  <2>3. Owned(g.block_bitmap, all)
    <3>1. n \in Files(g)
      BY <1>5 DEF Files
    <3> QED BY <1>2, <3>1 DEF Apart, all
  <2>4. ASSUME NEW j \in offset .. end - 1, all[BlockOf(j) + 1] = F[BlockOf(i) + 1],
               j % BLOCK_SIZE = i % BLOCK_SIZE
        PROVE  FALSE
    <3>1. BlockOf(j) + 1 \in DOMAIN all /\ all[BlockOf(j) + 1] \in A!DataBlock
      BY <1>8
    <3>2. BlockOf(j) + 1 = BlockOf(i) + 1
      BY <2>2, <2>3, <2>4, <3>1, Numbers DEF Owned
    <3>3. i \in Nat /\ j \in Nat
      BY <1>2, <1>6
    <3>4. BlockOf(i) \in Nat /\ BlockOf(j) \in Nat
      BY <3>3, Place
    <3>5. i = j
      BY <2>4, <3>2, <3>3, <3>4, Place
    <3> QED BY <1>9, <3>5
  <2> QED BY <2>4 DEF laid
\* ... and no byte of another file.
<1>10. ASSUME NEW m \in Files(f) \ {n}, NEW i \in 0 .. f.i_size[m] - 1
       PROVE  /\ get_inode_all_blocks(f, m)[BlockOf(i) + 1] \in A!DataBlock
              /\ ~laid(get_inode_all_blocks(f, m)[BlockOf(i) + 1], i % BLOCK_SIZE)
  <2> DEFINE M == get_inode_all_blocks(f, m)
  <2>1. BlockOf(i) + 1 \in DOMAIN M /\ M[BlockOf(i) + 1] \in A!DataBlock
    BY <1>1, Under
  <2>2. Disjoint(all, M)
    <3>1. n \in Files(g) /\ m \in Files(g) \ {n} /\ M = get_inode_all_blocks(g, m)
      BY <1>1, <1>5 DEF Files
    <3> QED BY <1>2, <3>1 DEF Apart, all
  <2> HIDE DEF M
  <2>3. ASSUME NEW j \in offset .. end - 1, all[BlockOf(j) + 1] = M[BlockOf(i) + 1]
        PROVE  FALSE
    <3>1. BlockOf(j) + 1 \in DOMAIN all /\ all[BlockOf(j) + 1] \in A!DataBlock
      BY <1>8
    <3> QED BY <2>1, <2>2, <2>3, <3>1, Numbers DEF Disjoint
  <2> QED BY <2>1, <2>3 DEF laid, M
<1>11. Store!IsWritten(ContentOf(f, n), ContentOf(r, n), offset, count, n)
  <2> DEFINE s == ContentOf(f, n)
             t == ContentOf(r, n)
             span == offset + 1 .. offset + count
  <2>1. /\ DOMAIN s = 1 .. f.i_size[n] /\ Len(s) = f.i_size[n]
        /\ \A i \in 1 .. f.i_size[n] : s[i] = ByteAt(f, F, i - 1)
    BY <1>6, ContentOfFacts DEF F
  <2>2. r.i_size[n] \in Nat
    BY <1>2, <1>6
  <2>3. /\ Len(t) = r.i_size[n]
        /\ \A i \in 1 .. r.i_size[n] : t[i] = ByteAt(r, all, i - 1)
    BY <1>1, <1>4, <2>2, ContentOfFacts DEF all
  <2> HIDE DEF s, t
  <2>4. Len(t) = Max({Len(s), offset + count})
    BY <1>2, <1>6, <2>1, <2>3
  <2>5. ASSUME NEW i \in span
        PROVE  t[i] = n
    <3>1. i - 1 \in offset .. end - 1 /\ i \in 1 .. r.i_size[n] /\ i - 1 \in Nat
      BY <1>2, <1>6, <2>5
    <3> DEFINE c == all[BlockOf(i - 1) + 1]
               k == (i - 1) % BLOCK_SIZE
    <3>2. c \in A!DataBlock /\ k \in 0 .. BLOCK_SIZE - 1
      BY <1>8, <3>1, Place
    <3>3. laid(c, k)
      BY <3>1 DEF laid
    <3>4. t[i] = r.data[c][k]
      BY <2>3, <3>1 DEF ByteAt
    <3> HIDE DEF c, k
    <3> QED BY <1>7, <3>2, <3>3, <3>4
  <2>6. ASSUME NEW i \in DOMAIN s \ span
        PROVE  t[i] = s[i]
    <3>1. /\ i - 1 \in 0 .. f.i_size[n] - 1 /\ i - 1 \notin offset .. end - 1
          /\ i \in 1 .. f.i_size[n] /\ i \in 1 .. r.i_size[n] /\ i - 1 \in Nat
      BY <1>2, <1>6, <2>1, <2>6
    <3> DEFINE b == BlockOf(i - 1) + 1
               k == (i - 1) % BLOCK_SIZE
    <3>2. b \in DOMAIN F /\ F[b] \in A!DataBlock
      BY <1>1, <3>1, Under DEF F
    <3>3. k \in 0 .. BLOCK_SIZE - 1
      BY <3>1, Place
    <3>4. t[i] = r.data[all[b]][k] /\ s[i] = f.data[F[b]][k]
      BY <2>1, <2>3, <3>1 DEF ByteAt
    <3>5. ~laid(F[b], k)
      BY <1>9, <3>1
    <3> HIDE DEF b, k
    <3>6. all[b] = F[b]
      BY <1>5, <3>2
    <3> QED BY <1>7, <3>2, <3>3, <3>4, <3>5, <3>6
  <2>7. \A S : Store!Max(S) = Max(S)
    BY DEF Store!Max, Max
  <2> QED BY <2>4, <2>5, <2>6, <2>7 DEF Store!IsWritten, s, t
<1>12. ASSUME NEW m \in Files(f) \ {n}
       PROVE  ContentOf(r, m) = ContentOf(f, m)
  <2> DEFINE M == get_inode_all_blocks(f, m)
  <2>1. m \in A!Inode \ {n} /\ r.i_size[m] = f.i_size[m] /\ get_inode_all_blocks(r, m) = M
    BY <1>1, <1>4, <1>5, <1>6
  <2>2. f.i_size[m] \in Nat
    BY <1>1, <2>1 DEF FsType
  <2>3. ASSUME NEW i \in 1 .. f.i_size[m]
        PROVE  ByteAt(r, M, i - 1) = ByteAt(f, M, i - 1)
    <3>1. i - 1 \in 0 .. f.i_size[m] - 1 /\ i - 1 \in Nat
      BY <2>2
    <3> DEFINE c == M[BlockOf(i - 1) + 1]
               k == (i - 1) % BLOCK_SIZE
    <3>2. c \in A!DataBlock /\ ~laid(c, k) /\ k \in 0 .. BLOCK_SIZE - 1
      BY <1>10, <3>1, Place
    <3>3. ByteAt(r, M, i - 1) = r.data[c][k] /\ ByteAt(f, M, i - 1) = f.data[c][k]
      BY DEF ByteAt
    <3> HIDE DEF c, k
    <3> QED BY <1>7, <3>2, <3>3
  <2> HIDE DEF M
  <2> QED BY <2>1, <2>3 DEF ContentOf, M
<1> QED BY <1>2, <1>11, <1>12

\* A read of Read: the bytes from offset on, as many as there are.
LEMMA ReadBytes ==
  ASSUME IInv, Sound, Sound', NEW fd \in Fd, NEW count \in Count, read(fd, count)
  PROVE  \/ UNCHANGED content /\ got' = <<>>
         \/ \E name \in opened[fd] : Store!Read(name, _files[fd].offset, count)
<1> DEFINE n == _files[fd].inode
           offset == _files[fd].offset
           size == fs.i_size[n]
           real == Min({count, size - offset})
           all == get_inode_all_blocks(fs, n)
<1>1. /\ \/ fs' = ByWay(fd, fs) /\ got' = <<>>
         \/ fs' = Stop(fs, "range")
         \/ /\ offset < size /\ fs' = ByWay(fd, fs)
            /\ got' = [i \in 1 .. real |-> ByteAt(fs, all, offset + i - 1)]
      /\ IsOpen(fd)
  BY DEF read
<1>2. /\ n \in A!Inode /\ offset \in 0 .. TwoTo32 - 1 /\ FsInv(fs) /\ size \in 0 .. TwoTo32 - 1
      /\ fs \in FsType
  <2>1. n \in A!Inode /\ offset \in 0 .. TwoTo32 - 1 /\ FsInv(fs)
    BY <1>1, Descriptor, TypeParts DEF IInv
  <2> HIDE DEF n, offset
  <2> QED BY <2>1 DEF FsInv, Shape, FsType
<1>3. fs' # Stop(fs, "range")
  <2>1. fs'.failed = "none"
    BY DEF Sound, Running
  <2>2. Stop(fs, "range").failed = "range"
    BY <1>2 DEF Stop, FsType
  <2> QED BY <2>1, <2>2
<1>4. fs' = ByWay(fd, fs) => fs' = fs /\ opened[fd] # {}
  BY <1>2, ByWayInv DEF Sound
<1>5. CASE fs' = ByWay(fd, fs) /\ got' = <<>>
  <2>1. UNCHANGED content
    BY <1>4, <1>5, ContentIs
  <2> QED BY <1>5, <2>1
<1>6. CASE /\ offset < size /\ fs' = ByWay(fd, fs)
           /\ got' = [i \in 1 .. real |-> ByteAt(fs, all, offset + i - 1)]
  <2>1. UNCHANGED content
    BY <1>4, <1>6, ContentIs
  <2>2. PICK name \in opened[fd] : name \in Name /\ fs.entry[name] = n /\ fs.entry[name] # 0
    BY <1>4, <1>6, TypeParts DEF IInv, Tracked, IsOpen
  <2> DEFINE s == ContentOf(fs, n)
  <2>3. content[name] = s
    <3>1. DOMAIN content = {m \in Name : fs.entry[m] # 0}
      BY ContentIs DEF Contents
    <3>2. name \in DOMAIN content
      BY <2>2, <3>1
    <3>3. content[name] = s
      BY <2>2, ContentIs DEF Contents
    <3> QED BY <3>2, <3>3
  <2> HIDE DEF n
  <2>4. /\ DOMAIN s = 1 .. size /\ Len(s) = size
        /\ \A i \in 1 .. size : s[i] = ByteAt(fs, all, i - 1)
    BY <1>2, ContentOfFacts
  <2> HIDE DEF s, size, offset, all
  <2>5. count \in Nat /\ size - offset \in Nat /\ offset \in Nat /\ size \in Nat
    BY <1>2, <1>6, FileAssumption, Sizes
  <2>6. /\ real = IF count <= size - offset THEN count ELSE size - offset
        /\ Min({offset + count, size}) = IF offset + count <= size THEN offset + count ELSE size
    BY <2>5, SmallerOfTwo
  <2> HIDE DEF real
  <2>7. Min({offset + count, size}) = offset + real /\ real \in Nat /\ offset + real <= size
    BY <2>5, <2>6
  <2>8. got' = SubSeq(s, offset + 1, offset + real)
    <3>1. SubSeq(s, offset + 1, offset + real) = [i \in 1 .. real |-> s[offset + 1 + i - 1]]
      BY <2>5, <2>7
    <3>2. \A i \in 1 .. real : /\ offset + 1 + i - 1 \in 1 .. size
                               /\ (offset + 1 + i - 1) - 1 = offset + i - 1
      BY <2>5, <2>7
    <3>3. \A i \in 1 .. real : s[offset + 1 + i - 1] = ByteAt(fs, all, offset + i - 1)
      BY <2>4, <3>2
    <3> QED BY <1>6, <3>1, <3>3
  <2>9. \A S : Store!Min(S) = Min(S)
    BY DEF Store!Min, Min
  <2>10. Store!Read(name, offset, count)
    BY <2>1, <2>3, <2>4, <2>7, <2>8, <2>9 DEF Store!Read
  <2> QED BY <2>2, <2>10 DEF offset
<1> QED BY <1>1, <1>3, <1>5, <1>6

\* A write that meets no defect is a Write of the name of its file.
LEMMA WriteBytes ==
  ASSUME IInv, Sound, Sound', NEW fd \in Fd, NEW count \in Count, write(fd, count)
  PROVE  \E name \in opened[fd] :
           Store!Write(name, _files[fd].offset, count, fs.entry[name])
<1> DEFINE n == _files[fd].inode
           offset == _files[fd].offset
<1>1. /\ n \in A!Inode /\ offset \in 0 .. TwoTo32 - 1 /\ IsOpen(fd)
      /\ FsInv(fs) /\ fs \in FsType /\ fs.failed = "none" /\ fs.defects = {}
      /\ fs'.failed = "none" /\ fs'.defects = {}
  BY Descriptor, TypeParts DEF IInv, FsInv, Shape, write, Sound, Running
<1>2. count \in Nat \ {0}
  BY FileAssumption
<1>3. PICK stale \in BOOLEAN :
        /\ fs' = Written(fs, n, offset, count, stale)
        /\ stale <=> opened[fd] = {}
  BY WriteIsWritten
<1>4. got' = <<>>
  BY WriteIsWritten
<1> HIDE DEF n, offset
<1>5. ~stale
  <2> DEFINE r == Written(fs, n, offset, count, stale)
  <2>1. fs' = r
    BY <1>3
  <2>2. r.failed = "none" /\ r.defects = {} /\ r = Written(fs, n, offset, count, stale)
    BY <1>1, <2>1
  <2> HIDE DEF r
  <2> QED BY <1>1, <1>2, <2>2, WrittenCalm
<1>7. PICK name \in opened[fd] : name \in Name /\ fs.entry[name] = n /\ n # 0
  BY <1>3, <1>5, TypeParts DEF IInv, Tracked, IsOpen, n
<1>6. /\ fs'.entry = fs.entry
      /\ Store!IsWritten(ContentOf(fs, n), ContentOf(fs', n), offset, count, n)
      /\ \A m \in Files(fs) \ {n} : ContentOf(fs', m) = ContentOf(fs, m)
  <2>1. n \in Files(fs)
    BY <1>7 DEF Files
  <2> QED BY <1>1, <1>2, <1>3, <2>1, WrittenBytes
<1>8. /\ DOMAIN content = {m \in Name : fs.entry[m] # 0} /\ DOMAIN content' = DOMAIN content
      /\ \A m \in DOMAIN content : /\ content[m] = ContentOf(fs, fs.entry[m])
                                   /\ content'[m] = ContentOf(fs', fs.entry[m])
  BY <1>6, ContentIs DEF Contents
<1>9. \A m \in DOMAIN content \ {name} : content'[m] = content[m]
  <2>1. \A m \in DOMAIN content \ {name} : fs.entry[m] \in Files(fs) \ {n}
    <3>1. NamesApart(fs)
      BY <1>1 DEF FsInv, Shape
    <3> QED BY <1>7, <1>8, <3>1 DEF NamesApart, Files
  <2> QED BY <1>6, <1>8, <2>1
<1>10. Store!IsWritten(content[name], content'[name], offset, count, n)
  BY <1>6, <1>7, <1>8
<1> QED BY <1>4, <1>7, <1>8, <1>9, <1>10 DEF Store!Write, offset

\* The files implement FileStore: as long as nothing stopped or struck, every
\* call creates an empty file, removes one, reads what is there in the file its
\* descriptor was opened on, lays bytes over that file and leaves the others, or
\* does nothing to what the files hold.  A descriptor of a removed file, whose
\* inode another file may have by now, strikes when it is used.
THEOREM Implements == Spec => ImplementsFiles
<1> DEFINE Promised == Sound /\ Sound' => Store!Stay \/ StoreStep
<1>1. IInv /\ [Next]_vars => [Promised]_vars
  <2> SUFFICES ASSUME IInv, Next, Sound, Sound' PROVE Store!Stay \/ StoreStep
    OBVIOUS
  <2>1. FsInv(fs) /\ fs \in FsType /\ fs.failed = "none" /\ fs'.failed = "none" /\ fs'.defects = {}
    BY DEF IInv, FsInv, Shape, Sound, Running
  <2>2. /\ content = Contents(fs) /\ content' = Contents(fs')
        /\ DOMAIN content = {m \in Name : fs.entry[m] # 0}
        /\ DOMAIN content' = {m \in Name : fs'.entry[m] # 0}
        /\ \A m \in DOMAIN content : content[m] = ContentOf(fs, fs.entry[m])
        /\ \A m \in DOMAIN content' : content'[m] = ContentOf(fs', fs'.entry[m])
    BY ContentIs DEF Contents
  <2>3. ASSUME NEW name \in Name, create(name)
        PROVE  Store!Create
    <3> DEFINE id == A!ialloc(fs.inode_bitmap)
    <3>1. fs.entry[name] = 0 /\ id # 0 /\ fs' = Created(fs, name, id) /\ got' = <<>>
      BY <2>3 DEF create, Created
    <3>2. id \in A!Inode /\ \A other \in Name : fs.entry[other] # id
      BY <2>1, <3>1, CreateEffect
    <3> HIDE DEF id
    <3>3. /\ fs'.entry = [fs.entry EXCEPT ![name] = id]
          /\ fs'.i_size[id] = 0 /\ fs'.data = fs.data
          /\ \A m \in A!Inode \ {id} : /\ fs'.i_block[m] = fs.i_block[m]
                                       /\ fs'.pointers[m] = fs.pointers[m]
                                       /\ fs'.i_size[m] = fs.i_size[m]
      BY <2>1, <3>1, <3>2 DEF Created, FsType
    <3>4. \A m \in Name : fs'.entry[m] = IF m = name THEN id ELSE fs.entry[m]
      BY <2>1, <3>3 DEF FsType
    <3>5. id # 0 /\ DOMAIN content' = DOMAIN content \cup {name} /\ name \notin DOMAIN content
      BY <2>2, <3>1, <3>4
    <3>6. content'[name] = <<>>
      <4>1. content'[name] = ContentOf(fs', id)
        BY <2>2, <3>4, <3>5
      <4>2. ContentOf(fs', id) = <<>>
        BY <3>3 DEF ContentOf
      <4> QED BY <4>1, <4>2
    <3>7. ASSUME NEW m \in DOMAIN content
          PROVE  content'[m] = content[m]
      <4>1. m # name /\ fs.entry[m] \in A!Inode \ {id} /\ fs'.entry[m] = fs.entry[m]
        BY <2>1, <2>2, <3>1, <3>2, <3>4 DEF FsType
      <4>2. get_inode_all_blocks(fs', fs.entry[m]) = get_inode_all_blocks(fs, fs.entry[m])
        BY <3>3, <4>1 DEF get_inode_all_blocks
      <4>3. ContentOf(fs', fs.entry[m]) = ContentOf(fs, fs.entry[m])
        BY <3>3, <4>1, <4>2, SameContent
      <4> QED BY <2>2, <3>5, <4>1, <4>3
    <3>8. content' = [m \in DOMAIN content \cup {name} |-> IF m = name THEN <<>> ELSE content[m]]
      <4>1. content' = [m \in DOMAIN content' |-> content'[m]]
        BY <2>2 DEF Contents
      <4> QED BY <3>5, <3>6, <3>7, <4>1
    <3> QED BY <3>1, <3>5, <3>8 DEF Store!Create
  <2>4. ASSUME NEW name \in Name, unlink(name)
        PROVE  Store!Unlink
    <3>1. fs.entry[name] # 0 /\ fs' = Unlinked(fs, name) /\ got' = <<>>
      BY <2>4 DEF unlink, Unlinked
    <3>2. /\ fs'.entry = [fs.entry EXCEPT ![name] = 0]
          /\ fs'.i_block = fs.i_block /\ fs'.pointers = fs.pointers
          /\ fs'.i_size = fs.i_size /\ fs'.data = fs.data
      BY <2>1, <3>1, UnlinkEffect
    <3>3. \A m \in Name : fs'.entry[m] = IF m = name THEN 0 ELSE fs.entry[m]
      BY <2>1, <3>2 DEF FsType
    <3>4. DOMAIN content' = DOMAIN content \ {name} /\ name \in DOMAIN content
      BY <2>2, <3>1, <3>3
    <3>5. ASSUME NEW m \in DOMAIN content'
          PROVE  content'[m] = content[m]
      <4>1. m \in DOMAIN content /\ fs'.entry[m] = fs.entry[m]
        BY <2>2, <3>3, <3>4
      <4>2. get_inode_all_blocks(fs', fs.entry[m]) = get_inode_all_blocks(fs, fs.entry[m])
        BY <3>2 DEF get_inode_all_blocks
      <4>3. ContentOf(fs', fs.entry[m]) = ContentOf(fs, fs.entry[m])
        BY <3>2, <4>2, SameContent
      <4> QED BY <2>2, <4>1, <4>3
    <3>6. content' = [m \in DOMAIN content \ {name} |-> content[m]]
      <4>1. content' = [m \in DOMAIN content' |-> content'[m]]
        BY <2>2 DEF Contents
      <4> QED BY <3>4, <3>5, <4>1
    <3> QED BY <3>1, <3>4, <3>6 DEF Store!Unlink
  <2>5. ASSUME UNCHANGED fs, got' = <<>>
        PROVE  Store!Stay
    <3>1. content' = content
      BY <2>2, <2>5
    <3> QED BY <2>5, <3>1 DEF Store!Stay
  <2>6. ASSUME NEW name \in Name, NEW flag \in Flag, open(name, flag)
        PROVE  Store!Stay
    BY <2>5, <2>6 DEF open
  <2>7. ASSUME NEW fd \in Fd, close(fd) \/ \E by \in Seek : lseek(fd, by)
        PROVE  Store!Stay
    BY <2>5, <2>7 DEF close, lseek
  <2>8. ASSUME NEW fd \in Fd, NEW count \in Count, read(fd, count)
        PROVE  Store!Stay \/ StoreStep
    <3>1. CASE UNCHANGED content /\ got' = <<>>
      BY <3>1 DEF Store!Stay
    <3>2. CASE \E name \in opened[fd] : Store!Read(name, _files[fd].offset, count)
      BY <3>2 DEF StoreStep
    <3> QED BY <2>8, <3>1, <3>2, ReadBytes
  <2>9. ASSUME NEW fd \in Fd, NEW count \in Count, write(fd, count)
        PROVE  StoreStep
    <3>1. \E name \in opened[fd] : Store!Write(name, _files[fd].offset, count, fs.entry[name])
      BY <2>9, WriteBytes
    <3> QED BY <3>1 DEF StoreStep
  <2>10. Store!Create \/ Store!Unlink => StoreStep
    BY DEF StoreStep
  <2> QED BY <2>3, <2>4, <2>6, <2>7, <2>8, <2>9, <2>10 DEF Next
<1> QED BY <1>1, Invariance, PTL DEF Spec, ImplementsFiles
===============================================================================
