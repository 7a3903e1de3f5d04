--------------------------- MODULE Namespace_proofs ---------------------------
(***************************************************************************)
(* Proofs about Namespace: for any disk, any names and any paths, what the *)
(* path handlers keep true of the tree, and what has to go wrong before a  *)
(* handler aborts or goes astray.                                          *)
(*                                                                         *)
(* The handlers are functions of the record fs, so the lemmas speak of a   *)
(* file system f and of the g that an operator makes of it.  A row of a    *)
(* directory is an entry at an offset of one of its blocks.  The invariant *)
(* has two layers: Sound, what no defect can take away, and Shape, the     *)
(* tree, which holds until a block is freed under its owner, a directory   *)
(* is moved, or a file becomes a directory; names and distances from the   *)
(* root are part of it until a name is doubled too.                        *)
(***************************************************************************)
EXTENDS Namespace, NatFacts, SequenceTheorems, FiniteSetTheorems, TLAPS

\* The lemmas about the allocator and about directory blocks.
AP == INSTANCE Ext2Alloc_proofs
        WITH block_bitmap <- fs.block_bitmap, inode_bitmap <- fs.inode_bitmap,
             i_block <- fs.i_block, written <- {}, failed <- fs.failed, misfreed <- {}
DP == INSTANCE DirInode_proofs
        WITH Child <- {}, self <- 0, father <- 0, blocks <- <<>>, failed <- "none"

-------------------------------------------------------------------------------
(* The allocator *)

\* The bit of block b is set.
InUse(bb, b) == A!Offset(b) \in bb[A!GroupOf(b)]
Allocated(ib, n) == A!InodeIndex(n) \in ib[A!InodeGroup(n)]
Marked(bb) == \A i \in A!Group : 0 .. reserved - 1 \subseteq bb[i]

\* The operators of Ext2Alloc that the lemmas are about are those of Namespace.
LEMMA SameAllocator ==
  /\ AP!Group = A!Group /\ AP!BlockBit = A!BlockBit /\ AP!InodeBit = A!InodeBit
  /\ AP!DataBlock = A!DataBlock /\ AP!Inode = A!Inode
  /\ \A b, bb : AP!InUse(bb, b) <=> InUse(bb, b)
  /\ \A n, ib : AP!Taken(ib, n) <=> Allocated(ib, n)
  /\ \A bb, g : AP!ballocs(bb, g) = A!ballocs(bb, g)
  /\ \A ib : AP!ialloc(ib) = A!ialloc(ib)
  /\ AP!Layout = A!Layout
<1>1. AP!Group = A!Group /\ AP!BlockBit = A!BlockBit /\ AP!InodeBit = A!InodeBit
  BY DEF AP!Group, A!Group, AP!BlockBit, A!BlockBit, AP!InodeBit, A!InodeBit
<1>2. AP!DataBlock = A!DataBlock /\ AP!Inode = A!Inode
  BY <1>1 DEF AP!DataBlock, A!DataBlock, AP!Inode, A!Inode, AP!get_group_index, A!get_group_index
<1>3. \A b, bb : AP!InUse(bb, b) <=> InUse(bb, b)
  BY DEF AP!InUse, InUse, AP!Offset, A!Offset, AP!GroupOf, A!GroupOf
<1>4. \A n, ib : AP!Taken(ib, n) <=> Allocated(ib, n)
  BY DEF AP!Taken, Allocated, AP!InodeIndex, A!InodeIndex, AP!InodeGroup, A!InodeGroup
<1>5. \A bb, g : AP!ballocs(bb, g) = A!ballocs(bb, g)
  BY DEF AP!ballocs, A!ballocs, AP!ClearBits, A!ClearBits, AP!Visited, A!Visited, AP!Min, A!Min,
         AP!Group, A!Group, AP!BlockBit, A!BlockBit, AP!get_group_index, A!get_group_index,
         AP!EXT2M_I_BLOCK_END, A!EXT2M_I_BLOCK_END
<1>6. \A ib : AP!ialloc(ib) = A!ialloc(ib)
  BY DEF AP!ialloc, A!ialloc, AP!Candidates, A!Candidates, AP!Min, A!Min,
         AP!Group, A!Group, AP!InodeBit, A!InodeBit
<1>7. AP!Layout = A!Layout
  BY DEF AP!Layout, A!Layout
<1> QED BY <1>1, <1>2, <1>3, <1>4, <1>5, <1>6, <1>7

\* What the constants say about the numbers of inodes and blocks.
LEMMA LayoutFacts ==
  /\ AP!Layout
  /\ inodes_per_group \in Nat \ {0}
  /\ s_first_ino \in Nat /\ s_first_ino > ROOT_INODE /\ s_first_ino > 3
  /\ ROOT_INODE \in A!Inode
  /\ EXT2_DIRECT_BLOCKS \in Nat \ {0}
  /\ \A n \in A!Inode : n \in Nat \ {0} /\ n \div inodes_per_group \in Nat
  /\ \A n \in A!Inode : n >= s_first_ino => n - 1 \in A!Inode
  /\ \A b \in A!DataBlock : b \in Nat \ {0}
<1>1. AP!Layout /\ A!Layout
  BY NamespaceAssumption, SameAllocator
<1>2. ROOT_INODE \in A!Inode
  BY <1>1, AP!RootInode, SameAllocator
<1>3. \A n \in A!Inode : n \in Nat \ {0} /\ n \div inodes_per_group \in Nat
  BY <1>1, AP!InodeAddress, AP!InodeGroupNumber, SameAllocator
<1>4. \A b \in A!DataBlock : b \in Nat \ {0}
  BY <1>1, AP!DataBlockAddress, SameAllocator
<1>5. \A n \in A!Inode : n >= s_first_ino => n - 1 \in A!Inode
  BY <1>1 DEF A!Inode, A!Layout
<1> QED BY <1>1, <1>2, <1>3, <1>4, <1>5, NamespaceAssumption DEF A!Layout

\* ialloc finds an inode that is free, and setting its bit takes it alone.
LEMMA NewInode ==
  ASSUME NEW ib \in [A!Group -> SUBSET A!InodeBit], NEW n, n = A!ialloc(ib), n # 0
  PROVE  /\ n \in A!Inode /\ n >= s_first_ino /\ n # ROOT_INODE /\ ~Allocated(ib, n)
         /\ A!SetInode(ib, n) \in [A!Group -> SUBSET A!InodeBit]
         /\ \A m \in A!Inode : Allocated(A!SetInode(ib, n), m) <=> Allocated(ib, m) \/ m = n
<1>1. n \in A!Inode /\ n >= s_first_ino /\ n # ROOT_INODE /\ ~Allocated(ib, n)
  BY AP!IallocFindsDead, LayoutFacts, SameAllocator
<1>2. A!SetInode(ib, n) = AP!SetInode(ib, n)
  BY DEF A!SetInode, AP!SetInode, A!InodeGroup, AP!InodeGroup, A!InodeIndex, AP!InodeIndex
<1>3. /\ AP!SetInode(ib, n) \in [A!Group -> SUBSET A!InodeBit]
      /\ \A m \in A!Inode : Allocated(AP!SetInode(ib, n), m) <=> Allocated(ib, m) \/ m = n
  BY <1>1, AP!SetInodeRevives, LayoutFacts, SameAllocator
<1> QED BY <1>1, <1>2, <1>3

\* Resetting the bit of an inode frees it alone.
LEMMA FreedInode ==
  ASSUME NEW ib \in [A!Group -> SUBSET A!InodeBit], NEW n \in A!Inode
  PROVE  /\ A!ResetInode(ib, n) \in [A!Group -> SUBSET A!InodeBit]
         /\ \A m \in A!Inode : Allocated(A!ResetInode(ib, n), m) <=> Allocated(ib, m) /\ m # n
<1>1. A!ResetInode(ib, n) = AP!ResetInode(ib, n)
  BY DEF A!ResetInode, AP!ResetInode, A!InodeGroup, AP!InodeGroup, A!InodeIndex, AP!InodeIndex
<1>2. /\ AP!ResetInode(ib, n) \in [A!Group -> SUBSET A!InodeBit]
      /\ \A m \in A!Inode : Allocated(AP!ResetInode(ib, n), m) <=> Allocated(ib, m) /\ m # n
  BY AP!ResetInodeKills, LayoutFacts, SameAllocator
<1> QED BY <1>1, <1>2

\* ballocs finds a block that is free, and setting its bit takes it alone.
LEMMA FreeBlock ==
  ASSUME NEW bb \in [A!Group -> SUBSET A!BlockBit], Marked(bb),
         NEW g \in Nat, NEW b, b = A!ballocs(bb, g), b # A!EXT2M_I_BLOCK_END
  PROVE  /\ b \in A!DataBlock /\ ~InUse(bb, b)
         /\ A!SetBlock(bb, b) \in [A!Group -> SUBSET A!BlockBit]
         /\ Marked(A!SetBlock(bb, b))
         /\ \A c \in A!DataBlock : InUse(A!SetBlock(bb, b), c) <=> InUse(bb, c) \/ c = b
<1>1. b # AP!EXT2M_I_BLOCK_END
  BY DEF A!EXT2M_I_BLOCK_END, AP!EXT2M_I_BLOCK_END
<1>2. b \in A!DataBlock /\ ~InUse(bb, b)
  BY <1>1, AP!BallocsFindsFree, LayoutFacts, SameAllocator DEF Marked
<1>3. A!SetBlock(bb, b) = AP!SetBlock(bb, b)
  BY DEF A!SetBlock, AP!SetBlock, A!GroupOf, AP!GroupOf, A!Offset, AP!Offset
<1>4. /\ AP!SetBlock(bb, b) \in [A!Group -> SUBSET A!BlockBit]
      /\ \A i \in A!Group : bb[i] \subseteq AP!SetBlock(bb, b)[i]
      /\ \A c \in A!DataBlock : InUse(AP!SetBlock(bb, b), c) <=> InUse(bb, c) \/ c = b
  BY <1>2, AP!SetBlockMarks, LayoutFacts, SameAllocator
<1> QED BY <1>2, <1>3, <1>4 DEF Marked

\* Resetting the bits of some blocks frees these alone, and no block that holds
\* a group's own data.
LEMMA FreedBlocks ==
  ASSUME NEW bb \in [A!Group -> SUBSET A!BlockBit], Marked(bb), NEW S \in SUBSET A!DataBlock
  PROVE  /\ A!ResetBlocks(bb, S) \in [A!Group -> SUBSET A!BlockBit]
         /\ Marked(A!ResetBlocks(bb, S))
         /\ \A c \in A!DataBlock : InUse(A!ResetBlocks(bb, S), c) <=> InUse(bb, c) /\ c \notin S
<1>1. A!ResetBlocks(bb, S) = AP!ResetBlocks(bb, S)
  BY SameAllocator DEF A!ResetBlocks, AP!ResetBlocks, A!GroupOf, AP!GroupOf, A!Offset, AP!Offset
<1>2. /\ AP!ResetBlocks(bb, S) \in [A!Group -> SUBSET A!BlockBit]
      /\ \A i \in A!Group : bb[i] \cap 0 .. reserved - 1 \subseteq AP!ResetBlocks(bb, S)[i]
      /\ \A c \in A!DataBlock : InUse(AP!ResetBlocks(bb, S), c) <=> InUse(bb, c) /\ c \notin S
  BY AP!ResetBlocksClears, LayoutFacts, SameAllocator
<1> QED BY <1>1, <1>2 DEF Marked

-------------------------------------------------------------------------------
(* Directory blocks *)

Wf(blk) == DP!WellFormed(blk, A!Inode)
IsDot(name) == name \in {Dot, DotDot}

\* What a block of the disk may hold.
BlockData == {Bytes} \cup {blk \in UNION {[S -> DP!EntryOf(A!Inode)] : S \in SUBSET DP!Offset} : Wf(blk)}

\* The operators of the module and those the lemmas are about are the same.
LEMMA SameBlocks ==
  /\ D!FileName = DP!FileName /\ D!Offset = DP!Offset
  /\ \A n, up : D!init_entry_block(n, up) = DP!init_entry_block(n, up)
  /\ \A blk, name : D!Gaps(blk, name) = DP!Gaps(blk, name)
  /\ \A blk, name, n : D!add_entry(blk, name, n) = DP!add_entry(blk, name, n)
  /\ \A blk, n : D!Naming(blk, n) = DP!Naming(blk, n)
  /\ \A blk, n : D!free(blk, n) = DP!free(blk, n)
  /\ \A blk, n : D!FreesDot(blk, n) <=> DP!FreesDot(blk, n)
  /\ \A bs : D!get_inode_all_entry(bs) = DP!get_inode_all_entry(bs)
  /\ \A blk, I : D!IsBlock(blk, I) <=> DP!IsBlock(blk, I)
<1>1. D!FileName = DP!FileName /\ D!Offset = DP!Offset
  BY DEF D!FileName, DP!FileName, D!Offset, DP!Offset
<1>2. \A n, up : D!init_entry_block(n, up) = DP!init_entry_block(n, up)
  BY DEF D!init_entry_block, DP!init_entry_block, D!Entry, DP!Entry
<1>3. \A blk, name : D!Gaps(blk, name) = DP!Gaps(blk, name)
  BY DEF D!Gaps, DP!Gaps, D!Remain, DP!Remain, D!EntSize, DP!EntSize, D!Starts, DP!Starts
<1>4. \A blk, name, n : D!add_entry(blk, name, n) = DP!add_entry(blk, name, n)
  BY DEF D!add_entry, DP!add_entry, D!Insert, DP!Insert, D!Gaps, DP!Gaps, D!Remain, DP!Remain,
         D!EntSize, DP!EntSize, D!Starts, DP!Starts, D!Min, DP!Min, D!Entry, DP!Entry
<1>5. \A blk, n : D!Naming(blk, n) = DP!Naming(blk, n)
  BY DEF D!Naming, DP!Naming, D!Starts, DP!Starts
<1>6. \A blk, n : D!free(blk, n) = DP!free(blk, n)
  BY DEF D!free, DP!free, D!Unlinked, DP!Unlinked, D!Preceding, DP!Preceding, D!Naming, DP!Naming,
         D!Starts, DP!Starts, D!Min, DP!Min, D!Max, DP!Max
<1>7. \A blk, n : D!FreesDot(blk, n) <=> DP!FreesDot(blk, n)
  BY DEF D!FreesDot, DP!FreesDot, D!Naming, DP!Naming, D!Starts, DP!Starts, D!Min, DP!Min
<1>8. \A bs : D!get_inode_all_entry(bs) = DP!get_inode_all_entry(bs)
  BY DEF D!get_inode_all_entry, DP!get_inode_all_entry, D!FoldLeft, DP!FoldLeft,
         D!MapThenFoldSet, DP!MapThenFoldSet, D!Max, DP!Max, D!FlattenSeq, DP!FlattenSeq,
         D!Walk, DP!Walk, D!Starts, DP!Starts, D!EndOf, DP!EndOf
<1>9. \A blk, I : D!IsBlock(blk, I) <=> DP!IsBlock(blk, I)
  BY <1>1 DEF D!IsBlock, DP!IsBlock, D!Starts, DP!Starts
<1> QED BY <1>1, <1>2, <1>3, <1>4, <1>5, <1>6, <1>7, <1>8, <1>9

\* Names, and the two that are dots.
LEMMA NameFacts ==
  /\ DP!NameAssumption /\ DP!InodeAssumption /\ DP!DirectAssumption
  /\ Dot # DotDot /\ Dot \notin Name /\ DotDot \notin Name
  /\ Dot \in D!FileName /\ DotDot \in D!FileName
  /\ \A name \in D!FileName : ~IsDot(name) <=> name \in Name
<1>1. D!NameAssumption <=> DP!NameAssumption
  BY DEF D!NameAssumption, DP!NameAssumption, D!FileName, DP!FileName, D!EntSize, DP!EntSize
<1>2. DP!InodeAssumption /\ DP!DirectAssumption
  BY NamespaceAssumption DEF DP!InodeAssumption, DP!DirectAssumption, A!Layout
<1>3. D!NameAssumption
  BY NamespaceAssumption
<1> QED BY <1>1, <1>2, <1>3 DEF D!NameAssumption, D!FileName, IsDot

\* What a well-formed block has.
LEMMA WfFacts ==
  ASSUME NEW blk, Wf(blk)
  PROVE  /\ 0 \in DOMAIN blk /\ 12 \in DOMAIN blk /\ DOMAIN blk \subseteq Nat
         /\ blk[0].name = Dot /\ blk[12].name = DotDot /\ blk # Bytes
         /\ \A o \in DOMAIN blk : blk[o].inode \in A!Inode /\ blk[o].name \in D!FileName
         /\ blk \in BlockData
<1>1. /\ 0 \in DOMAIN blk /\ 12 \in DOMAIN blk /\ blk[0].name = Dot /\ blk[12].name = DotDot
      /\ DOMAIN blk \subseteq DP!Offset /\ blk = [o \in DOMAIN blk |-> blk[o]]
      /\ \A o \in DOMAIN blk : blk[o] \in DP!EntryOf(A!Inode)
  BY DEF Wf, DP!WellFormed, DP!IsBlock, DP!Tiled, DP!Led, DP!Starts, DP!EntryOf
<1>2. blk # Bytes
  BY <1>1 DEF Bytes
<1>3. \A o \in DOMAIN blk : blk[o].inode \in A!Inode /\ blk[o].name \in D!FileName
  BY <1>1, SameBlocks DEF DP!EntryOf
<1>4. blk \in [DOMAIN blk -> DP!EntryOf(A!Inode)]
  BY <1>1
<1>5. blk \in BlockData
  BY <1>1, <1>4 DEF BlockData
<1> QED BY <1>1, <1>2, <1>3, <1>5 DEF DP!Offset

\* A block of the disk holds bytes or is well formed.
LEMMA BlockDataFacts == \A blk \in BlockData : blk = Bytes \/ Wf(blk)
BY DEF BlockData

\* A block of bytes has no entries.
LEMMA BytesData == Bytes \in BlockData /\ DOMAIN Bytes = {}
BY DEF BlockData, Bytes

\* A block with the dots only, which has room for any entry.
LEMMA FreshData ==
  ASSUME NEW n \in A!Inode, NEW up \in A!Inode, NEW b, b = D!init_entry_block(n, up)
  PROVE  /\ Wf(b) /\ DOMAIN b = {0, 12} /\ b[0].inode = n /\ b[12].inode = up
         /\ \A name \in D!FileName : D!Gaps(b, name) # {}
<1>1. /\ Wf(b) /\ DP!Starts(b) = {0, 12}
      /\ b[0] = DP!Entry(Dot, n, 12) /\ b[12] = DP!Entry(DotDot, up, BLOCK_SIZE - 12)
  BY SameBlocks, NameFacts, DP!FreshBlock DEF Wf
<1>2. ASSUME NEW name \in D!FileName PROVE 12 \in D!Gaps(b, name)
  <2>1. /\ DP!EntSize(name) \in Nat /\ 24 + DP!EntSize(name) <= BLOCK_SIZE
        /\ DP!EntSize(DotDot) = 12 /\ BLOCK_SIZE \in Nat
    BY SameBlocks, NameFacts, DP!EntrySizes
  <2>2. DP!Remain(b, 12) = BLOCK_SIZE - 12 - 12
    BY <1>1, <2>1 DEF DP!Remain, DP!Entry
  <2>3. 12 \in DP!Gaps(b, name)
    BY <1>1, <2>1, <2>2 DEF DP!Gaps
  <2> QED BY <2>3, SameBlocks
<1> QED BY <1>1, <1>2 DEF DP!Starts, DP!Entry

\* b is blk with one more entry, at o, and with one entry less.
Gains(blk, b, o, name, n) ==
  /\ o \notin DOMAIN blk /\ DOMAIN b = DOMAIN blk \cup {o}
  /\ b[o].name = name /\ b[o].inode = n
  /\ \A q \in DOMAIN blk : b[q].name = blk[q].name /\ b[q].inode = blk[q].inode
Loses(blk, b, o) ==
  /\ o \in DOMAIN blk \ {0, 12} /\ DOMAIN b = DOMAIN blk \ {o}
  /\ \A q \in DOMAIN b : b[q].name = blk[q].name /\ b[q].inode = blk[q].inode

\* add_entry keeps a block well formed and adds one entry, no dot.
LEMMA AddedEntry ==
  ASSUME NEW blk, Wf(blk), NEW name \in D!FileName, NEW n \in A!Inode, D!Gaps(blk, name) # {},
         NEW b, b = D!add_entry(blk, name, n)
  PROVE  Wf(b) /\ \E o : Gains(blk, b, o, name, n)
<1> DEFINE g == DP!Min(DP!Gaps(blk, name))
           new == g + DP!EntSize(blk[g].name)
<1>1. g \in DP!Gaps(blk, name)
  <2>1. DP!Gaps(blk, name) \in SUBSET Nat /\ DP!Gaps(blk, name) # {}
    BY WfFacts, SameBlocks DEF DP!Gaps, DP!Starts
  <2>2. g = Min(DP!Gaps(blk, name))
    BY DEF DP!Min, Min
  <2> HIDE DEF g
  <2> QED BY <2>1, <2>2, MinIsLeast
<1>2. b = DP!Insert(blk, g, name, n)
  BY SameBlocks DEF DP!add_entry
<1> HIDE DEF g
<1>3. /\ DP!WellFormed(b, A!Inode) /\ new \notin DP!Starts(blk)
      /\ DP!Starts(b) = DP!Starts(blk) \cup {new} /\ b[new].name = name /\ b[new].inode = n
      /\ \A q \in DP!Starts(blk) : b[q].name = blk[q].name /\ b[q].inode = blk[q].inode
  BY <1>1, <1>2, SameBlocks, NameFacts, DP!InsertEntry DEF Wf
<1> QED BY <1>3 DEF Wf, Gains, DP!Starts

\* free keeps a block well formed and takes one entry that named the inode.
LEMMA FreedEntry ==
  ASSUME NEW blk, Wf(blk), NEW n, D!Naming(blk, n) # {}, ~D!FreesDot(blk, n),
         NEW b, b = D!free(blk, n)
  PROVE  Wf(b) /\ blk[0].inode # n /\ \E o : Loses(blk, b, o) /\ blk[o].inode = n
<1> DEFINE o == DP!Min(DP!Naming(blk, n))
<1>1. o \in DP!Naming(blk, n) /\ \A q \in DP!Naming(blk, n) : o <= q
  <2>1. DP!Naming(blk, n) \in SUBSET Nat /\ DP!Naming(blk, n) # {}
    BY WfFacts, SameBlocks DEF DP!Naming, DP!Starts
  <2>2. o = Min(DP!Naming(blk, n))
    BY DEF DP!Min, Min
  <2> HIDE DEF o
  <2> QED BY <2>1, <2>2, MinIsLeast
<1>2. b = DP!Unlinked(blk, o) /\ ~IsDot(blk[o].name)
  BY SameBlocks DEF DP!free, DP!FreesDot, IsDot
<1> HIDE DEF o
<1>3. o \in DOMAIN blk /\ blk[o].inode = n /\ o # 0 /\ o # 12
  BY <1>1, <1>2, WfFacts DEF DP!Naming, DP!Starts, IsDot
<1>4. blk[0].inode # n
  <2>1. 0 \in DP!Naming(blk, n) => o <= 0
    BY <1>1
  <2>2. o \in Nat
    BY <1>3, WfFacts
  <2> QED BY <1>3, <2>1, <2>2, WfFacts DEF DP!Naming, DP!Starts
<1>5. /\ DP!WellFormed(b, A!Inode) /\ DP!Starts(b) = DP!Starts(blk) \ {o}
      /\ \A q \in DP!Starts(b) : b[q].name = blk[q].name /\ b[q].inode = blk[q].inode
  <2>1. o \in DP!Starts(blk) \ {0, 12} /\ DP!WellFormed(blk, A!Inode)
    BY <1>3 DEF Wf, DP!Starts
  <2> QED BY <1>2, <2>1, NameFacts, DP!UnlinkEntry
<1>6. Loses(blk, b, o)
  BY <1>3, <1>5 DEF Loses, DP!Starts
<1> QED BY <1>3, <1>4, <1>5, <1>6 DEF Wf

\* What a listing of well-formed blocks says.
Blocks(bs, len) == len \in Nat /\ DOMAIN bs = 1 .. len /\ \A k \in 1 .. len : Wf(bs[k])
ListsBlocks(listing, bs, len) ==
  /\ Len(listing) \in Nat /\ DOMAIN listing = 1 .. Len(listing)
  /\ \A i \in DOMAIN listing : \E k \in 1 .. len : \E o \in DOMAIN bs[k] : listing[i] = bs[k][o]
  /\ \A k \in 1 .. len : \A o \in DOMAIN bs[k] :
       ~IsDot(bs[k][o].name) => \E i \in DOMAIN listing : listing[i] = bs[k][o]
  /\ len > 0 => /\ 1 \in DOMAIN listing /\ 2 \in DOMAIN listing
                /\ listing[1] = bs[1][0] /\ listing[2] = bs[1][12]

LEMMA Listings ==
  ASSUME NEW bs, NEW len, Blocks(bs, len), NEW listing, listing = D!get_inode_all_entry(bs)
  PROVE  ListsBlocks(listing, bs, len)
<1>0. len \in Nat /\ DOMAIN bs = 1 .. len /\ \A k \in 1 .. len : Wf(bs[k])
  BY DEF Blocks
<1>1. \A k \in 1 .. len : DP!WellFormed(bs[k], A!Inode)
  BY <1>0 DEF Wf
<1>2. listing = DP!get_inode_all_entry(bs)
  BY SameBlocks
<1>3. listing \in Seq(DP!EntryOf(A!Inode)) /\ \E at : DP!Lists(listing, at, bs, len)
  BY <1>0, <1>1, <1>2, NameFacts, DP!Listed
<1>4. Len(listing) \in Nat /\ DOMAIN listing = 1 .. Len(listing)
  BY <1>3, LenProperties
<1>5. PICK at : DP!Lists(listing, at, bs, len)
  BY <1>3
<1>6. /\ \A i \in 1 .. Len(listing) : /\ at[i] \in (1 .. len) \X DP!Offset
                                      /\ at[i][2] \in DP!Starts(bs[at[i][1]])
                                      /\ listing[i] = bs[at[i][1]][at[i][2]]
      /\ \A k \in 1 .. len : \A o \in DP!Starts(bs[k]) :
           ~DP!IsDot(bs[k][o]) => \E i \in 1 .. Len(listing) : at[i] = <<k, o>>
      /\ len > 0 => Len(listing) >= 2 /\ at[1] = <<1, 0>> /\ at[2] = <<1, 12>>
  BY <1>5 DEF DP!Lists
<1>7. \A i \in 1 .. Len(listing) : \E k \in 1 .. len : \E o \in DOMAIN bs[k] : listing[i] = bs[k][o]
  <2> SUFFICES ASSUME NEW i \in 1 .. Len(listing)
               PROVE  \E k \in 1 .. len : \E o \in DOMAIN bs[k] : listing[i] = bs[k][o]
    OBVIOUS
  <2>1. at[i][1] \in 1 .. len /\ at[i][2] \in DOMAIN bs[at[i][1]] /\ listing[i] = bs[at[i][1]][at[i][2]]
    BY <1>6 DEF DP!Starts
  <2> QED BY <2>1
<1>8. ASSUME NEW k \in 1 .. len, NEW o \in DOMAIN bs[k], ~IsDot(bs[k][o].name)
      PROVE  \E i \in 1 .. Len(listing) : listing[i] = bs[k][o]
  <2>1. PICK i \in 1 .. Len(listing) : at[i] = <<k, o>>
    BY <1>6, <1>8 DEF DP!Starts, DP!IsDot, IsDot
  <2>2. listing[i] = bs[at[i][1]][at[i][2]]
    BY <1>6
  <2> QED BY <2>1, <2>2
<1>9. len > 0 => /\ 1 \in 1 .. Len(listing) /\ 2 \in 1 .. Len(listing)
                 /\ listing[1] = bs[1][0] /\ listing[2] = bs[1][12]
  <2> SUFFICES ASSUME len > 0
               PROVE  /\ 1 \in 1 .. Len(listing) /\ 2 \in 1 .. Len(listing)
                      /\ listing[1] = bs[1][0] /\ listing[2] = bs[1][12]
    OBVIOUS
  <2>1. 1 \in 1 .. Len(listing) /\ 2 \in 1 .. Len(listing) /\ at[1] = <<1, 0>> /\ at[2] = <<1, 12>>
    BY <1>4, <1>6
  <2>2. listing[1] = bs[at[1][1]][at[1][2]] /\ listing[2] = bs[at[2][1]][at[2][2]]
    BY <1>6, <2>1
  <2> QED BY <2>1, <2>2
<1> QED BY <1>4, <1>7, <1>8, <1>9 DEF ListsBlocks

-------------------------------------------------------------------------------
(* States of the file system *)

Reason == {"none", "ballocs", "outgrown", "astray", "file_walked", "inode_0", "no_entry",
           "dot", "not_self", "no_name", "pop_empty", "not_absolute"}
Defect == {"misfreed", "moved", "duplicate", "file_as_dir"}

BlockList == {bs \in Seq(A!DataBlock) : Len(bs) <= EXT2_DIRECT_BLOCKS}

FS == [block_bitmap : [A!Group -> SUBSET A!BlockBit],
       inode_bitmap : [A!Group -> SUBSET A!InodeBit],
       i_block : [A!Inode -> BlockList],
       mode : [A!Inode -> {"none", "file", "dir"}],
       data : [A!DataBlock -> BlockData],
       failed : Reason,
       defects : SUBSET Defect]

\* The entry at offset o of the k-th block of inode n.
Block(f, n, k) == f.data[f.i_block[n][k]]
Row(f, n, k, o) == k \in DOMAIN f.i_block[n] /\ o \in DOMAIN Block(f, n, k)
At(f, n, k, o) == Block(f, n, k)[o]

\* What stays true whatever defects strike, as long as the program runs: entries
\* name inodes that were written once, and a directory has a block.
Written(f) == \A b \in A!DataBlock : \A o \in DOMAIN f.data[b] : f.mode[f.data[b][o].inode] # "none"
Sound(f) ==
  /\ Marked(f.block_bitmap)
  /\ Written(f)
  /\ \A n \in A!Inode : f.mode[n] = "dir" => f.i_block[n] # <<>>
  /\ f.mode[ROOT_INODE] = "dir"

\* The blocks of an inode.
LEMMA BlockLists ==
  ASSUME NEW f \in FS, NEW n \in A!Inode
  PROVE  /\ Len(f.i_block[n]) \in Nat /\ DOMAIN f.i_block[n] = 1 .. Len(f.i_block[n])
         /\ f.i_block[n] # <<>> <=> Len(f.i_block[n]) > 0
         /\ f.i_block[n] \in Seq(A!DataBlock) /\ Len(f.i_block[n]) <= EXT2_DIRECT_BLOCKS
         /\ \A k \in DOMAIN f.i_block[n] : f.i_block[n][k] \in A!DataBlock /\ Block(f, n, k) \in BlockData
<1>1. f.i_block[n] \in Seq(A!DataBlock) /\ Len(f.i_block[n]) <= EXT2_DIRECT_BLOCKS
  BY DEF FS, BlockList
<1>2. /\ Len(f.i_block[n]) \in Nat /\ DOMAIN f.i_block[n] = 1 .. Len(f.i_block[n])
      /\ \A k \in DOMAIN f.i_block[n] : f.i_block[n][k] \in A!DataBlock
      /\ f.i_block[n] # <<>> <=> Len(f.i_block[n]) > 0
  BY <1>1, LenProperties, EmptySeq
<1>3. f.data \in [A!DataBlock -> BlockData]
  BY DEF FS
<1> QED BY <1>1, <1>2, <1>3 DEF Block

\* A block of an inode that holds no mere bytes is well formed.
LEMMA BlocksWf ==
  ASSUME NEW f \in FS, NEW n \in A!Inode, NEW k \in DOMAIN f.i_block[n], Block(f, n, k) # Bytes
  PROVE  Wf(Block(f, n, k))
BY BlockLists, BlockDataFacts

\* What an entry names was written once.
LEMMA RowFacts ==
  ASSUME NEW f \in FS, Sound(f), NEW n \in A!Inode, NEW k, NEW o, Row(f, n, k, o)
  PROVE  /\ k \in Nat /\ o \in Nat
         /\ At(f, n, k, o).inode \in A!Inode /\ At(f, n, k, o).name \in D!FileName
         /\ f.mode[At(f, n, k, o).inode] # "none"
<1>1. Wf(Block(f, n, k)) /\ k \in DOMAIN f.i_block[n]
  BY BlocksWf, BytesData DEF Row
<1>2. f.i_block[n][k] \in A!DataBlock /\ k \in Nat
  BY <1>1, BlockLists
<1>3. f.mode[At(f, n, k, o).inode] # "none"
  BY <1>2 DEF Sound, Written, Row, At, Block
<1> QED BY <1>1, <1>2, <1>3, WfFacts DEF Row, At

\* Every block of entries begins with the dots.
LEMMA DotRows ==
  ASSUME NEW f \in FS, NEW n \in A!Inode, NEW k \in DOMAIN f.i_block[n], Block(f, n, k) # Bytes
  PROVE  /\ Row(f, n, k, 0) /\ At(f, n, k, 0).name = Dot
         /\ Row(f, n, k, 12) /\ At(f, n, k, 12).name = DotDot
BY BlocksWf, WfFacts DEF Row, At

\* What a listing of a directory says of its rows.
ListsRows(f, n, listing) ==
  /\ DOMAIN listing = 1 .. Len(listing) /\ Len(listing) \in Nat
  /\ \A i \in DOMAIN listing : \E k, o : Row(f, n, k, o) /\ listing[i] = At(f, n, k, o)
  /\ \A k, o : Row(f, n, k, o) /\ ~IsDot(At(f, n, k, o).name)
                 => \E i \in DOMAIN listing : listing[i] = At(f, n, k, o)
  /\ f.i_block[n] # <<>> => /\ 1 \in DOMAIN listing /\ listing[1] = At(f, n, 1, 0)
                            /\ 2 \in DOMAIN listing /\ listing[2] = At(f, n, 1, 12)

\* No block of a readable inode holds mere bytes.
LEMMA ReadableBlocks ==
  ASSUME NEW f, NEW n
  PROVE  Readable(f, n) <=> \A k \in DOMAIN f.i_block[n] : Block(f, n, k) # Bytes
BY DEF Readable, Block

\* The listing of a directory has its rows, but for dots.
LEMMA ListingRows ==
  ASSUME NEW f \in FS, Sound(f), NEW n \in A!Inode, Readable(f, n)
  PROVE  ListsRows(f, n, Listing(f, n))
<1> DEFINE bs == Contents(f, n)
           len == Len(f.i_block[n])
           listing == Listing(f, n)
<1>1. len \in Nat /\ DOMAIN f.i_block[n] = 1 .. len /\ (f.i_block[n] # <<>> => len > 0)
  BY BlockLists
<1>2. DOMAIN bs = 1 .. len /\ \A k \in 1 .. len : bs[k] = Block(f, n, k)
  BY <1>1 DEF Contents, Block
<1>3. \A k \in 1 .. len : Wf(bs[k])
  BY <1>1, <1>2, BlocksWf, ReadableBlocks
<1>4. listing = D!get_inode_all_entry(bs)
  BY DEF Listing
<1> HIDE DEF bs, len, listing
<1>5. /\ Len(listing) \in Nat /\ DOMAIN listing = 1 .. Len(listing)
      /\ \A i \in DOMAIN listing : \E k \in 1 .. len : \E o \in DOMAIN bs[k] : listing[i] = bs[k][o]
      /\ \A k \in 1 .. len : \A o \in DOMAIN bs[k] :
              ~IsDot(bs[k][o].name) => \E i \in DOMAIN listing : listing[i] = bs[k][o]
      /\ len > 0 => /\ 1 \in DOMAIN listing /\ 2 \in DOMAIN listing
                       /\ listing[1] = bs[1][0] /\ listing[2] = bs[1][12]
  <2>1. Blocks(bs, len)
    BY <1>1, <1>2, <1>3 DEF Blocks
  <2>2. ListsBlocks(listing, bs, len)
    BY ONLY <1>4, <2>1, Listings
  <2> QED BY ONLY <2>2 DEF ListsBlocks
<1>6. \A k, o : Row(f, n, k, o) <=> k \in 1 .. len /\ o \in DOMAIN bs[k]
  BY <1>1, <1>2 DEF Row
<1>7. \A k \in 1 .. len : \A o : At(f, n, k, o) = bs[k][o]
  BY <1>2 DEF At
<1>8. len > 0 => 1 \in 1 .. len
  BY <1>1
<1>9. ASSUME NEW i \in DOMAIN listing
      PROVE  \E k, o : Row(f, n, k, o) /\ listing[i] = At(f, n, k, o)
  <2>1. PICK k \in 1 .. len : \E o \in DOMAIN bs[k] : listing[i] = bs[k][o]
    BY <1>5
  <2>2. PICK o \in DOMAIN bs[k] : listing[i] = bs[k][o]
    BY <2>1
  <2>3. Row(f, n, k, o) /\ At(f, n, k, o) = bs[k][o]
    BY <1>6, <1>7
  <2> QED BY <2>2, <2>3
<1>10. \A k, o : Row(f, n, k, o) /\ ~IsDot(At(f, n, k, o).name)
                 => \E i \in DOMAIN listing : listing[i] = At(f, n, k, o)
  BY <1>5, <1>6, <1>7
<1>11. f.i_block[n] # <<>> => /\ 1 \in DOMAIN listing /\ listing[1] = At(f, n, 1, 0)
                            /\ 2 \in DOMAIN listing /\ listing[2] = At(f, n, 1, 12)
  BY <1>1, <1>5, <1>7, <1>8
<1>12. ListsRows(f, n, listing)
  BY <1>5, <1>9, <1>10, <1>11 DEF ListsRows
<1> QED BY <1>12 DEF listing

\* What Lookup answers.
LEMMA LookupFacts ==
  ASSUME NEW f \in FS, Sound(f), NEW n \in A!Inode, NEW name
  PROVE  /\ Lookup(f, n, name) \in A!Inode \cup {0, Lost} /\ Lost \notin A!Inode \cup {0}
         /\ Lookup(f, n, name) = Lost <=> ~Readable(f, n)
         /\ Lookup(f, n, name) \notin {0, Lost} =>
              /\ Lookup(f, n, name) \in A!Inode /\ f.mode[Lookup(f, n, name)] # "none"
              /\ \E k, o : /\ Row(f, n, k, o) /\ At(f, n, k, o).inode = Lookup(f, n, name)
                           /\ At(f, n, k, o).name = name
         /\ Lookup(f, n, name) = 0 /\ ~IsDot(name) =>
              \A k, o : Row(f, n, k, o) => At(f, n, k, o).name # name
         /\ Readable(f, n) /\ f.i_block[n] # <<>> =>
              /\ Lookup(f, n, Dot) = At(f, n, 1, 0).inode
              /\ Lookup(f, n, DotDot) = At(f, n, 1, 12).inode
<1>a. Lost \notin A!Inode \cup {0}
  BY LayoutFacts DEF Lost
<1>b. SUFFICES ASSUME Readable(f, n)
               PROVE  /\ Lookup(f, n, name) \in A!Inode \cup {0}
                      /\ Lookup(f, n, name) # 0 =>
                           /\ Lookup(f, n, name) \in A!Inode /\ f.mode[Lookup(f, n, name)] # "none"
                           /\ \E k, o : /\ Row(f, n, k, o) /\ At(f, n, k, o).inode = Lookup(f, n, name)
                                        /\ At(f, n, k, o).name = name
                      /\ Lookup(f, n, name) = 0 /\ ~IsDot(name) =>
                           \A k, o : Row(f, n, k, o) => At(f, n, k, o).name # name
                      /\ f.i_block[n] # <<>> =>
                           /\ Lookup(f, n, Dot) = At(f, n, 1, 0).inode
                           /\ Lookup(f, n, DotDot) = At(f, n, 1, 12).inode
  <2>1. ~Readable(f, n) => Lookup(f, n, name) = Lost
    BY DEF Lookup
  <2> QED BY <1>a, <2>1
<1> DEFINE listing == Listing(f, n)
           Hits(nm) == {i \in DOMAIN listing : listing[i].name = nm}
<1>1. \A nm : Lookup(f, n, nm) = IF Hits(nm) = {} THEN 0 ELSE listing[Min(Hits(nm))].inode
  BY <1>b DEF Lookup
<1>2. ListsRows(f, n, listing)
  BY <1>b, ListingRows
<1> HIDE DEF listing
<1>3. \A nm : Hits(nm) # {} => Min(Hits(nm)) \in Hits(nm) /\ \A y \in Hits(nm) : Min(Hits(nm)) <= y
  <2> SUFFICES ASSUME NEW nm, Hits(nm) # {}
               PROVE  Min(Hits(nm)) \in Hits(nm) /\ \A y \in Hits(nm) : Min(Hits(nm)) <= y
    OBVIOUS
  <2>1. Hits(nm) \in SUBSET Nat
    BY <1>2 DEF ListsRows
  <2> HIDE DEF Hits
  <2> QED BY <2>1, MinIsLeast
<1>4. ASSUME Lookup(f, n, name) # 0
      PROVE  \E k, o : /\ Row(f, n, k, o) /\ At(f, n, k, o).inode = Lookup(f, n, name)
                       /\ At(f, n, k, o).name = name
  <2> DEFINE i == Min(Hits(name))
  <2>1. Hits(name) # {} /\ Lookup(f, n, name) = listing[i].inode
    BY <1>1, <1>4
  <2>2. i \in DOMAIN listing /\ listing[i].name = name
    BY <1>3, <2>1
  <2> HIDE DEF i
  <2> QED BY <1>2, <2>1, <2>2 DEF ListsRows
<1>5. ASSUME Lookup(f, n, name) # 0
      PROVE  Lookup(f, n, name) \in A!Inode /\ f.mode[Lookup(f, n, name)] # "none"
  BY <1>4, <1>5, RowFacts
<1>6. ASSUME Lookup(f, n, name) = 0, ~IsDot(name), NEW k, NEW o, Row(f, n, k, o),
             At(f, n, k, o).name = name
      PROVE  FALSE
  <2>1. PICK i \in DOMAIN listing : listing[i] = At(f, n, k, o)
    BY <1>2, <1>6 DEF ListsRows
  <2>2. Hits(name) # {}
    BY <1>6, <2>1
  <2> DEFINE j == Min(Hits(name))
  <2>3. j \in DOMAIN listing /\ Lookup(f, n, name) = listing[j].inode
    BY <1>1, <1>3, <2>2
  <2> HIDE DEF j
  <2>4. PICK kk, oo : Row(f, n, kk, oo) /\ listing[j] = At(f, n, kk, oo)
    BY <1>2, <2>3 DEF ListsRows
  <2>5. Lookup(f, n, name) \in A!Inode
    BY <2>3, <2>4, RowFacts
  <2> QED BY <1>6, <2>5, LayoutFacts
<1>7. ASSUME f.i_block[n] # <<>>
      PROVE  /\ Lookup(f, n, Dot) = At(f, n, 1, 0).inode
             /\ Lookup(f, n, DotDot) = At(f, n, 1, 12).inode
  <2>1. 1 \in DOMAIN f.i_block[n]
    BY <1>7, BlockLists
  <2>2. At(f, n, 1, 0).name = Dot /\ At(f, n, 1, 12).name = DotDot
    BY <1>b, <2>1, DotRows, ReadableBlocks
  <2>3. /\ 1 \in DOMAIN listing /\ listing[1] = At(f, n, 1, 0)
        /\ 2 \in DOMAIN listing /\ listing[2] = At(f, n, 1, 12)
        /\ DOMAIN listing = 1 .. Len(listing) /\ Len(listing) \in Nat
    BY <1>2, <1>7 DEF ListsRows
  <2>4. 1 \in Hits(Dot) /\ 2 \in Hits(DotDot) /\ 1 \notin Hits(DotDot)
    BY <2>2, <2>3, NameFacts
  <2>5. Min(Hits(Dot)) = 1
    <3>1. Min(Hits(Dot)) \in DOMAIN listing /\ Min(Hits(Dot)) <= 1
      BY <1>3, <2>4
    <3> HIDE DEF Hits
    <3> QED BY <2>3, <3>1
  <2>6. Min(Hits(DotDot)) = 2
    <3>1. Min(Hits(DotDot)) \in DOMAIN listing /\ Min(Hits(DotDot)) <= 2 /\ Min(Hits(DotDot)) # 1
      BY <1>3, <2>4
    <3> HIDE DEF Hits
    <3> QED BY <2>3, <3>1
  <2> QED BY <1>1, <2>3, <2>4, <2>5, <2>6
<1> QED BY <1>4, <1>5, <1>6, <1>7

-------------------------------------------------------------------------------
(* Walks along paths *)

NamePath == Seq(D!FileName)

\* The entries of V's inodes name inodes of V.
Closed(f, V) ==
  /\ V \subseteq A!Inode /\ ROOT_INODE \in V
  /\ \A n \in V : \A k, o : Row(f, n, k, o) => At(f, n, k, o).inode \in V

Walked(f, V, w) ==
  /\ w \in [idx : V \cup {0, Lost}, father : V \cup {0}]
  /\ w.idx = Lost => w.father # 0 /\ f.mode[w.father] # "none" /\ ~Readable(f, w.father)
  /\ w.idx \notin {0, Lost} =>
       /\ f.mode[w.idx] # "none"
       /\ \/ w.idx = ROOT_INODE /\ w.father = 0
          \/ w.father # 0 /\ \E k, o : Row(f, w.father, k, o) /\ At(f, w.father, k, o).inode = w.idx

\* A walk stays in any set of inodes that the entries do not leave.
LEMMA WalkFacts ==
  ASSUME NEW f \in FS, Sound(f), NEW V, Closed(f, V), NEW path \in NamePath, NEW w, w = Walk(f, path)
  PROVE  Walked(f, V, w)
<1> DEFINE n == Len(path)
           start == [idx |-> ROOT_INODE, father |-> 0]
           W == {v \in [idx : V \cup {0, Lost}, father : V \cup {0}] : Walked(f, V, v)}
           op(v, name) == IF v.idx \in {0, Lost} THEN v
                          ELSE [idx |-> Lookup(f, v.idx, name), father |-> v.idx]
           step == [vi \in W \X (1 .. n) |-> op(vi[1], path[vi[2]])]
           F(g) == g = [s \in SUBSET (1 .. n) |-> IF s = {} THEN start
                                                  ELSE op(g[s \ {Max(s)}], path[Max(s)])]
           iter == CHOOSE g : F(g)
<1>1. n \in Nat /\ DOMAIN path = 1 .. n /\ \A i \in 1 .. n : path[i] \in D!FileName
  BY LenProperties DEF NamePath
<1>2. w = iter[1 .. n]
  BY <1>1 DEF Walk, FoldLeft, MapThenFoldSet
<1> HIDE DEF n
<1>3. start \in W
  BY LayoutFacts DEF Walked, Sound, Closed, Lost
<1>4. step \in [W \X (1 .. n) -> W]
  <2>1. ASSUME NEW v \in W, NEW name PROVE op(v, name) \in W
    <3>1. CASE v.idx \in {0, Lost}
      BY <3>1
    <3>2. CASE v.idx \notin {0, Lost}
      <4>1. v.idx \in V /\ v.idx \in A!Inode
        BY <3>2 DEF Closed
      <4>2. Lookup(f, v.idx, name) \notin {0, Lost} =>
              /\ Lookup(f, v.idx, name) \in V /\ f.mode[Lookup(f, v.idx, name)] # "none"
              /\ \E k, o : Row(f, v.idx, k, o) /\ At(f, v.idx, k, o).inode = Lookup(f, v.idx, name)
        BY <4>1, LookupFacts DEF Closed
      <4>5. /\ Lookup(f, v.idx, name) \in V \cup {0, Lost}
            /\ Lookup(f, v.idx, name) = Lost => ~Readable(f, v.idx)
        BY <4>1, <4>2, LookupFacts
      <4> DEFINE u == [idx |-> Lookup(f, v.idx, name), father |-> v.idx]
      <4>3. u \in [idx : V \cup {0, Lost}, father : V \cup {0}] /\ u.father # 0
        BY <3>2, <4>1, <4>5
      <4>4. Walked(f, V, u)
        BY <3>2, <4>2, <4>3, <4>5 DEF Walked
      <4> QED BY <3>2, <4>3, <4>4
    <3> QED BY <3>1, <3>2
  <2>2. \A vi \in W \X (1 .. n) : vi[1] \in W
    OBVIOUS
  <2> HIDE DEF W, op
  <2> QED BY <2>1, <2>2
<1> HIDE DEF start, W, op
<1>5. ASSUME NEW s \in SUBSET (1 .. n), s # {} PROVE Max(s) \in 1 .. n
  <2>1. s \in SUBSET Nat /\ \A y \in s : y <= n
    BY <1>1
  <2>2. Max(s) \in s
    BY <1>1, <1>5, <2>1, MaxIsGreatest
  <2> QED BY <2>2
<1>6. F(iter)
  <2>1. PICK g \in [SUBSET (1 .. n) -> W] : PrefixStep(g, start, step, n)
    <3> HIDE DEF step
    <3> QED BY <1>1, <1>3, <1>4, PrefixRecursion
  <2>2. F(g)
    <3>1. ASSUME NEW s \in SUBSET (1 .. n), s # {}
          PROVE  step[<<g[s \ {Max(s)}], Max(s)>>] = op(g[s \ {Max(s)}], path[Max(s)])
      <4>1. Max(s) \in 1 .. n /\ g[s \ {Max(s)}] \in W
        BY <1>5, <3>1
      <4> QED BY <4>1
    <3> HIDE DEF step
    <3> QED BY <2>1, <3>1 DEF PrefixStep
  <2> HIDE DEF F
  <2> QED BY <2>2
<1> HIDE DEF iter
<1>7. SetSteps(iter, W, start, step, n)
  <2>1. {} \in SUBSET (1 .. n)
    OBVIOUS
  <2>2. iter[{}] = start
    BY <1>6, <2>1
  <2>3. ASSUME NEW s \in (SUBSET (1 .. n)) \ {{}}, iter[s \ {Max(s)}] \in W
        PROVE  iter[s] = step[<<iter[s \ {Max(s)}], Max(s)>>]
    <3>1. Max(s) \in 1 .. n /\ iter[s] = op(iter[s \ {Max(s)}], path[Max(s)])
      BY <1>5, <1>6, <2>3
    <3> QED BY <2>3, <3>1
  <2> QED BY <2>2, <2>3 DEF SetSteps
<1>8. \E g : Stepwise(g, W, start, step, n) /\ EndsAs(iter, g, n)
  <2> HIDE DEF step, F
  <2> QED BY <1>1, <1>3, <1>4, <1>7, PrefixValues
<1>9. w \in W
  <2>1. PICK g : Stepwise(g, W, start, step, n) /\ EndsAs(iter, g, n)
    BY <1>8
  <2>2. n \in 0 .. n /\ g \in [0 .. n -> W]
    BY <1>1, <2>1 DEF Stepwise
  <2> QED BY <1>2, <2>1, <2>2 DEF EndsAs
<1> QED BY <1>9 DEF W

-------------------------------------------------------------------------------
(* Adding an entry *)

Live(f) == {n \in A!Inode : LiveIn(f, n)}

\* The blocks of live inodes are in use, each in one place only.
Held(f) ==
  /\ \A n \in Live(f) : \A k \in DOMAIN f.i_block[n] : InUse(f.block_bitmap, f.i_block[n][k])
  /\ \A m, n \in Live(f) : \A j \in DOMAIN f.i_block[m], k \in DOMAIN f.i_block[n] :
       f.i_block[m][j] = f.i_block[n][k] => m = n /\ j = k

\* Inode d has the same rows in f and g.
SameRows(f, g, d) ==
  /\ g.i_block[d] = f.i_block[d]
  /\ \A k \in DOMAIN f.i_block[d] : Block(g, d, k) = Block(f, d, k)

\* In g directory n has one more entry, at o in its k-th block, which may be new.
NewRow(f, g, n, name, m, k, o) ==
  /\ Row(g, n, k, o) /\ ~Row(f, n, k, o) /\ o \notin {0, 12}
  /\ At(g, n, k, o).name = name /\ At(g, n, k, o).inode = m
  /\ \A j, q : Row(g, n, j, q) =>
       \/ Row(f, n, j, q)
       \/ j = k /\ q = o
       \/ q = 0 /\ At(g, n, j, q).name = Dot /\ At(g, n, j, q).inode = n
       \/ q = 12 /\ At(g, n, j, q).name = DotDot /\ At(g, n, j, q).inode = At(f, n, 1, 12).inode
Adds(f, g, n, name, m) ==
  /\ Readable(g, n)
  /\ DOMAIN f.i_block[n] \subseteq DOMAIN g.i_block[n]
  /\ \E k, o : NewRow(f, g, n, name, m, k, o)
  /\ \A j, q : Row(f, n, j, q) => /\ Row(g, n, j, q)
                                  /\ At(g, n, j, q).name = At(f, n, j, q).name
                                  /\ At(g, n, j, q).inode = At(f, n, j, q).inode

\* One block of directory data is written.
LEMMA PutBlock ==
  ASSUME NEW f \in FS, Sound(f), NEW b \in A!DataBlock, NEW blk, Wf(blk),
         \A o \in DOMAIN blk : f.mode[blk[o].inode] # "none",
         NEW g, g = [f EXCEPT !.data[b] = blk]
  PROVE  /\ g \in FS /\ Sound(g)
         /\ \A n \in A!Inode : Readable(f, n) => Readable(g, n)
<1>1. blk \in BlockData /\ blk # Bytes
  BY WfFacts
<1>2. g \in FS
  BY <1>1 DEF FS
<1>3. /\ g.block_bitmap = f.block_bitmap /\ g.mode = f.mode /\ g.i_block = f.i_block
      /\ \A c \in A!DataBlock : g.data[c] = IF c = b THEN blk ELSE f.data[c]
  BY DEF FS
<1>4. Written(g)
  BY <1>3 DEF Sound, Written
<1>5. \A n \in A!Inode : Readable(f, n) => Readable(g, n)
  BY <1>1, <1>3, BlockLists DEF Readable
<1> QED BY <1>2, <1>3, <1>4, <1>5 DEF Sound

\* Writing an entry block that inode n has.
LEMMA AddInBlock ==
  ASSUME NEW f \in FS, Sound(f), NEW n \in A!Inode, Readable(f, n), NEW name \in D!FileName,
         NEW m \in A!Inode, f.mode[m] # "none",
         NEW kk \in DOMAIN f.i_block[n], D!Gaps(Block(f, n, kk), name) # {},
         NEW g, g = [f EXCEPT !.data[f.i_block[n][kk]] = D!add_entry(@, name, m)]
  PROVE  /\ g \in FS /\ Sound(g)
         /\ Held(f) /\ n \in Live(f) =>
              /\ Held(g) /\ Adds(f, g, n, name, m)
              /\ \A d \in Live(f) \ {n} : SameRows(f, g, d)
<1> DEFINE b == f.i_block[n][kk]
           old == Block(f, n, kk)
           new == D!add_entry(old, name, m)
<1>1. b \in A!DataBlock /\ Wf(old)
  BY BlockLists, BlocksWf, ReadableBlocks
<1>2. Wf(new) /\ \E o : Gains(old, new, o, name, m)
  BY <1>1, AddedEntry
<1>3. PICK o : Gains(old, new, o, name, m)
  BY <1>2
<1>4. \A q \in DOMAIN new : f.mode[new[q].inode] # "none"
  BY <1>1, <1>3 DEF Gains, Sound, Written, Block
<1>5. g = [f EXCEPT !.data[b] = new]
  BY <1>1 DEF FS, Block
<1> HIDE DEF new
<1>6. g \in FS /\ Sound(g) /\ Readable(g, n)
  BY <1>1, <1>2, <1>4, <1>5, PutBlock
<1>7. /\ g.block_bitmap = f.block_bitmap /\ g.i_block = f.i_block /\ g.inode_bitmap = f.inode_bitmap
      /\ \A c \in A!DataBlock : g.data[c] = IF c = b THEN new ELSE f.data[c]
  BY <1>5 DEF FS
<1>8. ASSUME Held(f), n \in Live(f)
      PROVE  /\ Held(g) /\ Adds(f, g, n, name, m)
             /\ \A d \in Live(f) \ {n} : SameRows(f, g, d)
  <2>1. Live(g) = Live(f)
    BY <1>7 DEF Live, LiveIn
  <2>2. Held(g)
    BY <1>7, <1>8, <2>1 DEF Held
  <2>3. ASSUME NEW d \in Live(f) \ {n} PROVE SameRows(f, g, d)
    <3>1. \A k \in DOMAIN f.i_block[d] : f.i_block[d][k] # b /\ f.i_block[d][k] \in A!DataBlock
      BY <1>8, BlockLists DEF Held, Live
    <3> QED BY <1>7, <3>1 DEF SameRows, Block
  <2>4. Block(g, n, kk) = new
    BY <1>1, <1>7 DEF Block
  <2>5. \A k \in DOMAIN f.i_block[n] : k # kk => Block(g, n, k) = Block(f, n, k)
    <3>1. \A k \in DOMAIN f.i_block[n] : k # kk => f.i_block[n][k] # b /\ f.i_block[n][k] \in A!DataBlock
      BY <1>8, BlockLists DEF Held
    <3> QED BY <1>7, <3>1 DEF Block
  <2>6. 0 \in DOMAIN old /\ 12 \in DOMAIN old
    BY <1>1, WfFacts
  <2> HIDE DEF b
  <2>7. \A j, q : Row(f, n, j, q) => /\ Row(g, n, j, q)
                                     /\ At(g, n, j, q).name = At(f, n, j, q).name
                                     /\ At(g, n, j, q).inode = At(f, n, j, q).inode
    <3> SUFFICES ASSUME NEW j, NEW q, Row(f, n, j, q)
                 PROVE  /\ Row(g, n, j, q)
                        /\ At(g, n, j, q).name = At(f, n, j, q).name
                        /\ At(g, n, j, q).inode = At(f, n, j, q).inode
      OBVIOUS
    <3>1. CASE j = kk
      BY <1>3, <1>7, <2>4, <3>1 DEF Row, At, Gains
    <3>2. CASE j # kk
      BY <1>7, <2>5, <3>2 DEF Row, At
    <3> QED BY <3>1, <3>2
  <2>8. /\ Row(g, n, kk, o) /\ ~Row(f, n, kk, o) /\ o \notin {0, 12}
        /\ At(g, n, kk, o).name = name /\ At(g, n, kk, o).inode = m
    BY <1>3, <1>7, <2>4, <2>6 DEF Row, At, Gains
  <2>9. \A j, q : Row(g, n, j, q) => Row(f, n, j, q) \/ (j = kk /\ q = o)
    <3> SUFFICES ASSUME NEW j, NEW q, Row(g, n, j, q) PROVE Row(f, n, j, q) \/ (j = kk /\ q = o)
      OBVIOUS
    <3>1. CASE j = kk
      BY <1>3, <1>7, <2>4, <3>1 DEF Row, Gains
    <3>2. CASE j # kk
      BY <1>7, <2>5, <3>2 DEF Row
    <3> QED BY <3>1, <3>2
  <2>10. NewRow(f, g, n, name, m, kk, o)
    BY <2>8, <2>9 DEF NewRow
  <2>11. Adds(f, g, n, name, m)
    BY <1>6, <1>7, <2>7, <2>10 DEF Adds
  <2> QED BY <2>2, <2>3, <2>11
<1> QED BY <1>6, <1>8

\* The father that get_father_inode_num finds in a block.
FatherIn(blk) == IF blk = Bytes THEN 0 ELSE D!get_inode_all_entry(<<blk>>)[2].inode

\* get_father_inode_num reads the ".." of a block.
LEMMA FatherFacts ==
  ASSUME NEW blk \in BlockData
  PROVE  IF blk = Bytes THEN FatherIn(blk) = 0
         ELSE 12 \in DOMAIN blk /\ FatherIn(blk) = blk[12].inode /\ FatherIn(blk) \in A!Inode
<1>1. CASE blk = Bytes
  BY <1>1 DEF FatherIn
<1>2. CASE blk # Bytes
  <2> DEFINE bs == <<blk>>
             listing == D!get_inode_all_entry(bs)
  <2>1. Wf(blk)
    BY <1>2, BlockDataFacts
  <2>2. 1 \in Nat /\ DOMAIN bs = 1 .. 1 /\ \A k \in 1 .. 1 : Wf(bs[k]) /\ bs[1] = blk
    BY <2>1
  <2>3. 1 > 0 => listing[2] = bs[1][12]
    <3>1. Blocks(bs, 1)
      BY <2>2 DEF Blocks
    <3>2. listing = D!get_inode_all_entry(bs)
      OBVIOUS
    <3> HIDE DEF bs, listing
    <3>3. ListsBlocks(listing, bs, 1)
      BY ONLY <3>1, <3>2, Listings
    <3> QED BY <3>3 DEF ListsBlocks
  <2>4. listing[2] = blk[12]
    BY <2>2, <2>3
  <2>5. FatherIn(blk) = blk[12].inode
    BY <1>2, <2>4 DEF FatherIn
  <2> QED BY <1>2, <2>1, <2>5, WfFacts
<1> QED BY <1>1, <1>2

\* A block is written.
LEMMA PutInFS ==
  ASSUME NEW f \in FS, NEW b \in A!DataBlock, NEW blk \in BlockData
  PROVE  [f EXCEPT !.data[b] = blk] \in FS
BY DEF FS

\* The fields of a file system that a new block for inode n changes.
LEMMA AddNewBlock ==
  ASSUME NEW f \in FS, Sound(f), f.failed = "none", NEW n \in A!Inode, f.mode[n] # "none",
         Readable(f, n),
         NEW name \in D!FileName, NEW m \in A!Inode, f.mode[m] # "none",
         NEW g, g = NewEntryBlock(f, n, name, m)
  PROVE  /\ g \in FS
         /\ g.failed \in {"none", "ballocs", "outgrown", "file_walked"}
         /\ g.mode = f.mode /\ g.inode_bitmap = f.inode_bitmap /\ g.defects = f.defects
         /\ g.failed = "none" =>
              /\ Sound(g)
              /\ Held(f) /\ n \in Live(f) /\ f.i_block[n] # <<>> =>
                   /\ Held(g) /\ Adds(f, g, n, name, m)
                   /\ \A d \in Live(f) \ {n} : SameRows(f, g, d)
<1> DEFINE b == A!ballocs(f.block_bitmap, n \div inodes_per_group)
           h == [f EXCEPT !.block_bitmap = A!SetBlock(@, b), !.i_block[n] = Append(@, b)]
           father == get_father_inode_num(h, n)
           blk == D!add_entry(D!init_entry_block(n, father), name, m)
           full == Len(f.i_block[n]) = EXT2_DIRECT_BLOCKS
<1>1. g = IF full THEN Stop(f, "outgrown")
          ELSE IF b = A!EXT2M_I_BLOCK_END THEN Stop(f, "ballocs")
          ELSE IF father = 0 THEN Stray(h, n)
          ELSE [h EXCEPT !.data[b] = blk]
  BY DEF NewEntryBlock
<1>2. f.block_bitmap \in [A!Group -> SUBSET A!BlockBit] /\ Marked(f.block_bitmap)
      /\ n \div inodes_per_group \in Nat
  BY LayoutFacts DEF FS, Sound
<1>3. CASE full \/ b = A!EXT2M_I_BLOCK_END
  <2> DEFINE why == IF full THEN "outgrown" ELSE "ballocs"
  <2>1. g = [f EXCEPT !.failed = why]
    BY <1>1, <1>3 DEF Stop
  <2>2. g \in FS /\ g.failed \in {"outgrown", "ballocs"}
        /\ g.mode = f.mode /\ g.inode_bitmap = f.inode_bitmap /\ g.defects = f.defects
    BY <2>1 DEF FS, Reason
  <2> QED BY <2>2
<1>4. CASE ~full /\ b # A!EXT2M_I_BLOCK_END
  <2> DEFINE bb == A!SetBlock(f.block_bitmap, b)
             len == Len(f.i_block[n])
             grown == Append(f.i_block[n], b)
  <2>1. /\ b \in A!DataBlock /\ ~InUse(f.block_bitmap, b)
        /\ bb \in [A!Group -> SUBSET A!BlockBit] /\ Marked(bb)
        /\ \A c \in A!DataBlock : InUse(bb, c) <=> InUse(f.block_bitmap, c) \/ c = b
    BY <1>2, <1>4, FreeBlock
  <2> HIDE DEF b, bb
  <2>2. /\ len \in Nat /\ DOMAIN f.i_block[n] = 1 .. len
        /\ f.i_block[n] # <<>> <=> len > 0
        /\ len <= EXT2_DIRECT_BLOCKS /\ len # EXT2_DIRECT_BLOCKS /\ EXT2_DIRECT_BLOCKS \in Nat
        /\ \A k \in 1 .. len : f.i_block[n][k] \in A!DataBlock
    BY <1>4, BlockLists, LayoutFacts
  <2>3. /\ grown \in BlockList /\ DOMAIN grown = 1 .. len + 1 /\ grown[len + 1] = b
        /\ \A k \in 1 .. len : grown[k] = f.i_block[n][k]
    <3>1. f.i_block[n] \in Seq(A!DataBlock)
      BY BlockLists
    <3>2. /\ grown \in Seq(A!DataBlock) /\ Len(grown) = len + 1
          /\ DOMAIN grown = 1 .. len + 1 /\ grown[len + 1] = b
          /\ \A k \in 1 .. len : grown[k] = f.i_block[n][k]
      BY <2>1, <3>1, AppendProperties, LenProperties
    <3>3. len + 1 <= EXT2_DIRECT_BLOCKS
      BY <2>2
    <3> QED BY <3>2, <3>3 DEF BlockList
  <2>4. h = [f EXCEPT !.block_bitmap = bb, !.i_block[n] = grown]
    BY DEF FS, bb
  <2> HIDE DEF h, len, grown
  <2>5. /\ h \in FS /\ h.block_bitmap = bb /\ h.inode_bitmap = f.inode_bitmap /\ h.mode = f.mode
        /\ h.data = f.data /\ h.failed = "none" /\ h.defects = f.defects
        /\ \A d \in A!Inode : h.i_block[d] = IF d = n THEN grown ELSE f.i_block[d]
    BY <2>1, <2>3, <2>4 DEF FS
  <2> DEFINE c == grown[1]
  <2>6. c \in A!DataBlock /\ f.data[c] \in BlockData /\ (len > 0 => c = f.i_block[n][1])
        /\ father = FatherIn(f.data[c])
    <3>1. c \in A!DataBlock /\ (len > 0 => c = f.i_block[n][1])
      BY <2>1, <2>2, <2>3
    <3>2. h.data[h.i_block[n][1]] = f.data[c]
      BY <2>5
    <3> QED BY <3>1, <3>2 DEF get_father_inode_num, FatherIn, FS
  <2>7. len > 0 => f.data[c] # Bytes /\ f.data[c][12].inode = At(f, n, 1, 12).inode
    BY <2>2, <2>6 DEF Readable, Block, At
  <2>8. father = 0 => f.mode[n] = "file"
    <3>1. father = 0 => f.data[c] = Bytes
      BY <2>6, FatherFacts, LayoutFacts
    <3>2. father = 0 => f.i_block[n] = <<>>
      BY <2>2, <2>7, <3>1
    <3> QED BY <3>2 DEF FS, Sound
  <2>9. father # 0 => /\ father \in A!Inode /\ f.mode[father] # "none"
                      /\ father = f.data[c][12].inode
    BY <2>6, FatherFacts DEF Sound, Written
  <2>10. CASE father = 0
    <3>1. g = [h EXCEPT !.failed = "file_walked"]
      BY <1>1, <1>4, <2>5, <2>8, <2>10 DEF Stop, Stray
    <3>2. g \in FS /\ g.failed = "file_walked"
          /\ g.mode = f.mode /\ g.inode_bitmap = f.inode_bitmap /\ g.defects = f.defects
      BY <2>5, <3>1 DEF FS, Reason
    <3> QED BY <2>8, <2>10, <3>2
  <2>11. CASE father # 0
    <3> DEFINE fresh == D!init_entry_block(n, father)
    <3>1. /\ Wf(fresh) /\ DOMAIN fresh = {0, 12} /\ fresh[0].inode = n /\ fresh[12].inode = father
          /\ fresh[0].name = Dot /\ fresh[12].name = DotDot
          /\ D!Gaps(fresh, name) # {}
      BY <2>9, <2>11, FreshData, WfFacts
    <3> HIDE DEF fresh, father
    <3>2. Wf(blk) /\ \E o : Gains(fresh, blk, o, name, m)
      BY <3>1, AddedEntry DEF fresh
    <3>3. PICK o : Gains(fresh, blk, o, name, m)
      BY <3>2
    <3>4. /\ DOMAIN blk = {0, 12, o} /\ o \notin {0, 12}
          /\ blk[0].name = Dot /\ blk[0].inode = n
          /\ blk[12].name = DotDot /\ blk[12].inode = father
          /\ blk[o].name = name /\ blk[o].inode = m
      BY <3>1, <3>3 DEF Gains
    <3>5. g = [h EXCEPT !.data[b] = blk]
      BY <1>1, <1>4, <2>11
    <3> HIDE DEF blk
    <3>6. blk \in BlockData /\ blk # Bytes
      BY <3>2, WfFacts
    <3>7. /\ g \in FS /\ g.block_bitmap = bb /\ g.inode_bitmap = f.inode_bitmap /\ g.mode = f.mode
          /\ g.failed = "none" /\ g.defects = f.defects
          /\ \A d \in A!Inode : g.i_block[d] = IF d = n THEN grown ELSE f.i_block[d]
          /\ \A e \in A!DataBlock : g.data[e] = IF e = b THEN blk ELSE f.data[e]
      <4>1. g \in FS
        <5>1. h \in FS /\ b \in A!DataBlock /\ blk \in BlockData
          BY <2>1, <2>5, <3>6
        <5> QED BY <3>5, <5>1, PutInFS
      <4>2. /\ g.block_bitmap = h.block_bitmap /\ g.inode_bitmap = h.inode_bitmap /\ g.mode = h.mode
            /\ g.failed = h.failed /\ g.defects = h.defects /\ g.i_block = h.i_block
            /\ g.data = [h.data EXCEPT ![b] = blk]
        BY <2>5, <3>5 DEF FS
      <4>3. f.data \in [A!DataBlock -> BlockData]
        BY DEF FS
      <4> QED BY <2>1, <2>5, <4>1, <4>2, <4>3
    <3>8. Written(g)
      BY <2>9, <2>11, <3>4, <3>7 DEF Sound, Written
    <3>9. Readable(g, n)
      <4> SUFFICES ASSUME NEW k \in DOMAIN g.i_block[n] PROVE g.data[g.i_block[n][k]] # Bytes
        BY DEF Readable
      <4>1. g.i_block[n][k] = b \/ (k \in DOMAIN f.i_block[n] /\ g.i_block[n][k] = f.i_block[n][k])
        BY <2>2, <2>3, <3>7
      <4>2. g.i_block[n][k] \in A!DataBlock
        BY <3>7, BlockLists
      <4>3. k \in DOMAIN f.i_block[n] => f.data[f.i_block[n][k]] # Bytes
        BY DEF Readable
      <4> QED BY <3>6, <3>7, <4>1, <4>2, <4>3
    <3>10. \A d \in A!Inode : g.mode[d] = "dir" => g.i_block[d] # <<>>
      <4>1. grown # <<>>
        BY <2>2, <2>3
      <4> QED BY <3>7, <4>1 DEF Sound
    <3>11. Sound(g)
      BY <2>1, <3>7, <3>8, <3>10 DEF Sound
    <3>12. ASSUME Held(f), n \in Live(f), f.i_block[n] # <<>>
           PROVE  /\ Held(g) /\ Adds(f, g, n, name, m)
                  /\ \A d \in Live(f) \ {n} : SameRows(f, g, d)
      <4>1. Live(g) = Live(f) /\ Live(f) \subseteq A!Inode
        BY <3>7 DEF Live, LiveIn
      <4>2. \A d \in Live(f) : \A k \in DOMAIN f.i_block[d] :
              f.i_block[d][k] # b /\ f.i_block[d][k] \in A!DataBlock /\ InUse(f.block_bitmap, f.i_block[d][k])
        BY <2>1, <3>12, <4>1, BlockLists DEF Held
      <4>3. Held(g)
        <5>1. \A d \in Live(f) : \A k \in DOMAIN g.i_block[d] :
                \/ d = n /\ k = len + 1 /\ g.i_block[d][k] = b
                \/ k \in DOMAIN f.i_block[d] /\ g.i_block[d][k] = f.i_block[d][k]
          BY <2>2, <2>3, <3>7, <4>1
        <5>2. \A d \in Live(g) : \A k \in DOMAIN g.i_block[d] : InUse(g.block_bitmap, g.i_block[d][k])
          BY <2>1, <3>7, <4>1, <4>2, <5>1
        <5>3. ASSUME NEW d \in Live(g), NEW e \in Live(g), NEW j \in DOMAIN g.i_block[d],
                     NEW k \in DOMAIN g.i_block[e], g.i_block[d][j] = g.i_block[e][k]
              PROVE  d = e /\ j = k
          BY <3>12, <4>1, <4>2, <5>1, <5>3 DEF Held
        <5> QED BY <5>2, <5>3 DEF Held
      <4>4. ASSUME NEW d \in Live(f) \ {n} PROVE SameRows(f, g, d)
        BY <3>7, <4>1, <4>2 DEF SameRows, Block
      <4>5. /\ \A k \in 1 .. len : Block(g, n, k) = Block(f, n, k)
            /\ Block(g, n, len + 1) = blk
        BY <2>1, <2>2, <2>3, <3>7, <3>12, <4>2 DEF Block
      <4>6. DOMAIN g.i_block[n] = 1 .. len + 1 /\ DOMAIN f.i_block[n] = 1 .. len /\ len \in Nat
        BY <2>2, <2>3, <3>7
      <4>7. At(f, n, 1, 12).inode = father
        BY <2>2, <2>7, <2>9, <2>11, <3>12
      <4>8. NewRow(f, g, n, name, m, len + 1, o)
        <5>1. Row(g, n, len + 1, o) /\ ~Row(f, n, len + 1, o) /\ o \notin {0, 12}
          BY <3>4, <4>5, <4>6 DEF Row
        <5>2. At(g, n, len + 1, o).name = name /\ At(g, n, len + 1, o).inode = m
          BY <3>4, <4>5 DEF At
        <5>3. ASSUME NEW j, NEW q, Row(g, n, j, q)
              PROVE  \/ Row(f, n, j, q)
                     \/ j = len + 1 /\ q = o
                     \/ q = 0 /\ At(g, n, j, q).name = Dot /\ At(g, n, j, q).inode = n
                     \/ q = 12 /\ At(g, n, j, q).name = DotDot /\ At(g, n, j, q).inode = At(f, n, 1, 12).inode
          <6>1. CASE j = len + 1
            BY <3>4, <4>5, <4>7, <5>3, <6>1 DEF Row, At
          <6>2. CASE j # len + 1
            <7>1. j \in 1 .. len
              BY <4>6, <5>3, <6>2 DEF Row
            <7> QED BY <4>5, <4>6, <5>3, <7>1 DEF Row
          <6> QED BY <6>1, <6>2
        <5> QED BY <5>1, <5>2, <5>3 DEF NewRow
      <4>9. ASSUME NEW j, NEW q, Row(f, n, j, q)
            PROVE  /\ Row(g, n, j, q)
                   /\ At(g, n, j, q).name = At(f, n, j, q).name
                   /\ At(g, n, j, q).inode = At(f, n, j, q).inode
        BY <4>5, <4>6, <4>9 DEF Row, At
      <4>10. DOMAIN f.i_block[n] \subseteq DOMAIN g.i_block[n]
        BY <4>6
      <4>11. Adds(f, g, n, name, m)
        BY <3>9, <4>8, <4>9, <4>10 DEF Adds
      <4> QED BY <4>3, <4>4, <4>11
    <3> QED BY <3>7, <3>11, <3>12
  <2> QED BY <2>10, <2>11
<1> QED BY <1>3, <1>4

\* add_entry_to_inode as a whole.
LEMMA AddEffect ==
  ASSUME NEW f \in FS, Sound(f), f.failed = "none", NEW n \in A!Inode, f.mode[n] # "none",
         NEW name \in D!FileName, NEW m \in A!Inode, f.mode[m] # "none",
         NEW g, g = add_entry_to_inode(f, n, name, m)
  PROVE  /\ g \in FS
         /\ g.failed \in {"none", "ballocs", "outgrown", "astray", "file_walked"}
         /\ g.failed = "astray" => ~Readable(f, n) /\ f.mode[n] # "file"
         /\ g.mode = f.mode /\ g.inode_bitmap = f.inode_bitmap
         /\ g.defects = IF f.mode[n] = "file" THEN f.defects \cup {"file_as_dir"} ELSE f.defects
         /\ g.failed = "none" =>
              /\ Sound(g)
              /\ Held(f) /\ n \in Live(f) /\ f.mode[n] = "dir" =>
                   /\ Held(g) /\ Adds(f, g, n, name, m)
                   /\ \A d \in Live(f) \ {n} : SameRows(f, g, d)
<1> DEFINE c == Contents(f, n)
           roomy == {k \in DOMAIN c : D!Gaps(c[k], name) # {}}
           h == IF f.mode[n] = "file" THEN [f EXCEPT !.defects = @ \cup {"file_as_dir"}] ELSE f
           kk == Min(roomy)
<1>1. g = IF ~Readable(f, n) THEN Stray(h, n)
          ELSE IF roomy = {} THEN NewEntryBlock(h, n, name, m)
          ELSE [h EXCEPT !.data[f.i_block[n][kk]] = D!add_entry(@, name, m)]
  BY DEF add_entry_to_inode
<1>2. /\ h \in FS /\ h.failed = "none" /\ h.mode = f.mode /\ h.inode_bitmap = f.inode_bitmap
      /\ h.i_block = f.i_block /\ h.data = f.data /\ h.block_bitmap = f.block_bitmap
      /\ h.defects = IF f.mode[n] = "file" THEN f.defects \cup {"file_as_dir"} ELSE f.defects
  BY DEF FS, Defect
<1>3. Sound(h) /\ (Readable(h, n) <=> Readable(f, n))
  BY <1>2 DEF Sound, Written, Readable
<1>4. f.mode[n] = "dir" => h = f /\ f.i_block[n] # <<>>
  BY DEF Sound
<1>5. DOMAIN c = DOMAIN f.i_block[n] /\ \A k \in DOMAIN c : c[k] = Block(h, n, k)
  BY <1>2 DEF Contents, Block
<1> HIDE DEF h, c
<1>a. CASE ~Readable(f, n)
  <2> DEFINE why == IF f.mode[n] = "file" THEN "file_walked" ELSE "astray"
  <2>1. g = [h EXCEPT !.failed = why]
    BY <1>1, <1>2, <1>a DEF Stray, Stop
  <2>2. /\ g \in FS /\ g.failed = why
        /\ g.mode = h.mode /\ g.inode_bitmap = h.inode_bitmap /\ g.defects = h.defects
    BY <1>2, <2>1 DEF FS, Reason
  <2> QED BY <1>2, <1>a, <2>2
<1>6. CASE Readable(f, n) /\ roomy = {}
  <2>1. g = NewEntryBlock(h, n, name, m)
    BY <1>1, <1>6
  <2>3. h.mode[n] \in {"file", "dir"} /\ h.mode[n] # "none" /\ h.mode[m] # "none"
    BY <1>2 DEF FS
  <2> HIDE DEF roomy
  <2>4. /\ g \in FS
        /\ g.failed \in {"none", "ballocs", "outgrown", "file_walked"}
        /\ g.mode = h.mode /\ g.inode_bitmap = h.inode_bitmap /\ g.defects = h.defects
        /\ g.failed = "none" =>
             /\ Sound(g)
             /\ Held(h) /\ n \in Live(h) /\ h.i_block[n] # <<>> =>
                  /\ Held(g) /\ Adds(h, g, n, name, m)
                  /\ \A d \in Live(h) \ {n} : SameRows(h, g, d)
    BY <1>2, <1>3, <1>6, <2>1, <2>3, AddNewBlock
  <2> QED BY <1>2, <1>4, <2>4
<1>7. CASE Readable(f, n) /\ roomy # {}
  <2>1. kk \in roomy
    <3>1. roomy \in SUBSET Nat
      BY <1>5, BlockLists
    <3> HIDE DEF roomy
    <3> QED BY <1>7, <3>1, MinIsLeast
  <2>2. kk \in DOMAIN h.i_block[n] /\ D!Gaps(Block(h, n, kk), name) # {}
    BY <1>2, <1>5, <2>1
  <2> HIDE DEF roomy, kk
  <2>3. g = [h EXCEPT !.data[h.i_block[n][kk]] = D!add_entry(@, name, m)]
    BY <1>1, <1>2, <1>7
  <2>4. /\ g \in FS /\ Sound(g)
        /\ Held(h) /\ n \in Live(h) =>
             /\ Held(g) /\ Adds(h, g, n, name, m)
             /\ \A d \in Live(h) \ {n} : SameRows(h, g, d)
    BY <1>2, <1>3, <1>7, <2>2, <2>3, AddInBlock
  <2>5. /\ g.failed = "none" /\ g.mode = h.mode /\ g.inode_bitmap = h.inode_bitmap
        /\ g.defects = h.defects
    BY <1>2, <2>3 DEF FS
  <2> QED BY <1>2, <1>4, <2>4, <2>5
<1> QED BY <1>a, <1>6, <1>7

-------------------------------------------------------------------------------
(* Freeing an entry, freeing an inode, making one *)

\* In g directory n has one entry less, which named inode m.
LostRow(f, g, n, m, k, o) ==
  /\ Row(f, n, k, o) /\ o \notin {0, 12} /\ At(f, n, k, o).inode = m
  /\ \A j, q : Row(g, n, j, q) <=> Row(f, n, j, q) /\ ~(j = k /\ q = o)
Frees(f, g, n, m) ==
  /\ Readable(g, n)
  /\ g.i_block[n] = f.i_block[n]
  /\ \E k, o : LostRow(f, g, n, m, k, o)
  /\ \A j, q : Row(g, n, j, q) => /\ At(g, n, j, q).name = At(f, n, j, q).name
                                  /\ At(g, n, j, q).inode = At(f, n, j, q).inode

\* free_entry_to_inode in the block where it finds the entry.
LEMMA FreeInBlock ==
  ASSUME NEW f \in FS, Sound(f), NEW n \in A!Inode, Readable(f, n), NEW m,
         NEW kk \in DOMAIN f.i_block[n], D!Naming(Block(f, n, kk), m) # {},
         ~D!FreesDot(Block(f, n, kk), m),
         NEW g, g = [f EXCEPT !.data[f.i_block[n][kk]] = D!free(@, m)]
  PROVE  /\ g \in FS /\ Sound(g)
         /\ At(f, n, kk, 0).inode # m
         /\ Held(f) /\ n \in Live(f) =>
              /\ Held(g) /\ Frees(f, g, n, m)
              /\ \A d \in Live(f) \ {n} : SameRows(f, g, d)
<1> DEFINE b == f.i_block[n][kk]
           old == Block(f, n, kk)
           new == D!free(old, m)
<1>1. b \in A!DataBlock /\ Wf(old)
  BY BlockLists, BlocksWf, ReadableBlocks
<1>2. Wf(new) /\ old[0].inode # m /\ \E o : Loses(old, new, o) /\ old[o].inode = m
  BY <1>1, FreedEntry
<1>3. PICK o : Loses(old, new, o) /\ old[o].inode = m
  BY <1>2
<1>4. \A q \in DOMAIN new : f.mode[new[q].inode] # "none"
  BY <1>1, <1>3 DEF Loses, Sound, Written, Block
<1>5. g = [f EXCEPT !.data[b] = new]
  BY <1>1 DEF FS, Block
<1> HIDE DEF new
<1>6. g \in FS /\ Sound(g) /\ Readable(g, n)
  BY <1>1, <1>2, <1>4, <1>5, PutBlock
<1>7. /\ g.block_bitmap = f.block_bitmap /\ g.i_block = f.i_block /\ g.inode_bitmap = f.inode_bitmap
      /\ \A c \in A!DataBlock : g.data[c] = IF c = b THEN new ELSE f.data[c]
  BY <1>5 DEF FS
<1>8. ASSUME Held(f), n \in Live(f)
      PROVE  /\ Held(g) /\ Frees(f, g, n, m)
             /\ \A d \in Live(f) \ {n} : SameRows(f, g, d)
  <2>1. Live(g) = Live(f)
    BY <1>7 DEF Live, LiveIn
  <2>2. Held(g)
    BY <1>7, <1>8, <2>1 DEF Held
  <2>3. ASSUME NEW d \in Live(f) \ {n} PROVE SameRows(f, g, d)
    <3>1. \A k \in DOMAIN f.i_block[d] : f.i_block[d][k] # b /\ f.i_block[d][k] \in A!DataBlock
      BY <1>8, BlockLists DEF Held, Live
    <3> QED BY <1>7, <3>1 DEF SameRows, Block
  <2>4. Block(g, n, kk) = new
    BY <1>1, <1>7 DEF Block
  <2>5. \A k \in DOMAIN f.i_block[n] : k # kk => Block(g, n, k) = Block(f, n, k)
    <3>1. \A k \in DOMAIN f.i_block[n] : k # kk => f.i_block[n][k] # b /\ f.i_block[n][k] \in A!DataBlock
      BY <1>8, BlockLists DEF Held
    <3> QED BY <1>7, <3>1 DEF Block
  <2> HIDE DEF b
  <2>6. Row(f, n, kk, o) /\ o \notin {0, 12} /\ At(f, n, kk, o).inode = m
    BY <1>3 DEF Row, At, Loses
  <2>7. \A j, q : Row(g, n, j, q) <=> Row(f, n, j, q) /\ ~(j = kk /\ q = o)
    <3> SUFFICES ASSUME NEW j, NEW q
                 PROVE  Row(g, n, j, q) <=> Row(f, n, j, q) /\ ~(j = kk /\ q = o)
      OBVIOUS
    <3>1. CASE j = kk
      BY <1>3, <1>7, <2>4, <3>1 DEF Row, Loses
    <3>2. CASE j # kk
      BY <1>7, <2>5, <3>2 DEF Row
    <3> QED BY <3>1, <3>2
  <2>8. \A j, q : Row(g, n, j, q) => /\ At(g, n, j, q).name = At(f, n, j, q).name
                                     /\ At(g, n, j, q).inode = At(f, n, j, q).inode
    <3> SUFFICES ASSUME NEW j, NEW q, Row(g, n, j, q)
                 PROVE  /\ At(g, n, j, q).name = At(f, n, j, q).name
                        /\ At(g, n, j, q).inode = At(f, n, j, q).inode
      OBVIOUS
    <3>1. CASE j = kk
      BY <1>3, <1>7, <2>4, <3>1 DEF Row, At, Loses
    <3>2. CASE j # kk
      BY <1>7, <2>5, <3>2 DEF Row, At
    <3> QED BY <3>1, <3>2
  <2>9. LostRow(f, g, n, m, kk, o)
    BY <2>6, <2>7 DEF LostRow
  <2>10. Frees(f, g, n, m)
    BY <1>6, <1>7, <2>8, <2>9 DEF Frees
  <2> QED BY <2>2, <2>3, <2>10
<1>9. At(f, n, kk, 0).inode # m
  BY <1>2 DEF At
<1> QED BY <1>6, <1>8, <1>9

\* What free_entry_to_inode does.
LEMMA FreeEffect ==
  ASSUME NEW f \in FS, Sound(f), f.failed = "none", NEW n \in A!Inode \cup {0}, NEW m,
         NEW g, g = free_entry_to_inode(f, n, m)
  PROVE  /\ g \in FS
         /\ g.failed \in {"none", "inode_0", "astray", "file_walked", "no_entry", "dot"}
         /\ g.failed = "astray" => n # 0 /\ ~Readable(f, n) /\ f.mode[n] # "file"
         /\ g.mode = f.mode /\ g.inode_bitmap = f.inode_bitmap /\ g.defects = f.defects
         /\ g.i_block = f.i_block
         /\ g.failed = "no_entry" => n # 0 /\ \A k, o : Row(f, n, k, o) => At(f, n, k, o).inode # m
         /\ g.failed = "none" =>
              /\ n # 0 /\ Readable(f, n) /\ Sound(g)
              /\ \E k \in DOMAIN f.i_block[n] : At(f, n, k, 0).inode # m
              /\ Held(f) /\ n \in Live(f) =>
                   /\ Held(g) /\ Frees(f, g, n, m)
                   /\ \A d \in Live(f) \ {n} : SameRows(f, g, d)
<1> DEFINE c == Contents(f, n)
           naming == {k \in DOMAIN c : D!Naming(c[k], m) # {}}
           kk == Min(naming)
           Stopped(why) == [f EXCEPT !.failed = why]
           off == IF f.mode[n] = "file" THEN "file_walked" ELSE "astray"
<1>1. g = IF n = 0 THEN Stopped("inode_0")
          ELSE IF ~Readable(f, n) THEN Stopped(off)
          ELSE IF naming = {} THEN Stopped("no_entry")
          ELSE IF D!FreesDot(c[kk], m) THEN Stopped("dot")
          ELSE [f EXCEPT !.data[f.i_block[n][kk]] = D!free(@, m)]
  BY DEF free_entry_to_inode, Stop, Stray
<1>2. \A why \in {"inode_0", "astray", "file_walked", "no_entry", "dot"} :
         /\ Stopped(why) \in FS /\ Stopped(why).failed = why
         /\ Stopped(why).mode = f.mode /\ Stopped(why).inode_bitmap = f.inode_bitmap
         /\ Stopped(why).defects = f.defects /\ Stopped(why).i_block = f.i_block
  BY DEF FS, Reason
<1> HIDE DEF Stopped
<1>3. CASE n = 0
  BY <1>1, <1>2, <1>3
<1>a. CASE n # 0 /\ ~Readable(f, n)
  <2>1. off \in {"astray", "file_walked"} /\ (off = "astray" => f.mode[n] # "file")
    OBVIOUS
  <2> HIDE DEF off
  <2> QED BY <1>1, <1>2, <1>a, <2>1
<1>4. CASE n # 0 /\ Readable(f, n)
  <2>1. n \in A!Inode
    BY <1>4
  <2>2. DOMAIN c = DOMAIN f.i_block[n] /\ \A k \in DOMAIN c : c[k] = Block(f, n, k)
    BY DEF Contents, Block
  <2> HIDE DEF c
  <2>3. CASE naming = {}
    <3>1. \A k, o : Row(f, n, k, o) => At(f, n, k, o).inode # m
      BY <2>2, <2>3 DEF Row, At, D!Naming, D!Starts
    <3> QED BY <1>1, <1>2, <1>4, <2>3, <3>1
  <2>4. CASE naming # {}
    <3>1. kk \in naming
      <4>1. naming \in SUBSET Nat
        BY <2>1, <2>2, BlockLists
      <4> HIDE DEF naming
      <4> QED BY <2>4, <4>1, MinIsLeast
    <3>2. kk \in DOMAIN f.i_block[n] /\ D!Naming(Block(f, n, kk), m) # {} /\ c[kk] = Block(f, n, kk)
      BY <2>2, <3>1
    <3> HIDE DEF naming, kk
    <3>3. CASE D!FreesDot(c[kk], m)
      BY <1>1, <1>2, <1>4, <2>4, <3>3
    <3>4. CASE ~D!FreesDot(c[kk], m)
      <4>1. g = [f EXCEPT !.data[f.i_block[n][kk]] = D!free(@, m)]
        BY <1>1, <1>4, <2>4, <3>4
      <4>2. /\ g \in FS /\ Sound(g)
            /\ At(f, n, kk, 0).inode # m
            /\ Held(f) /\ n \in Live(f) =>
                 /\ Held(g) /\ Frees(f, g, n, m)
                 /\ \A d \in Live(f) \ {n} : SameRows(f, g, d)
        BY <1>4, <2>1, <3>2, <3>4, <4>1, FreeInBlock
      <4>3. /\ g.failed = "none" /\ g.mode = f.mode /\ g.inode_bitmap = f.inode_bitmap
            /\ g.defects = f.defects /\ g.i_block = f.i_block
        BY <4>1 DEF FS
      <4> QED BY <1>4, <3>2, <4>2, <4>3
    <3> QED BY <3>3, <3>4
  <2> QED BY <2>3, <2>4
<1> QED BY <1>a, <1>3, <1>4

\* What ifree does.
LEMMA IfreeEffect ==
  ASSUME NEW f \in FS, Sound(f), NEW n \in A!Inode, NEW g, g = ifree(f, n)
  PROVE  /\ g \in FS /\ Sound(g)
         /\ g.mode = f.mode /\ g.i_block = f.i_block /\ g.data = f.data /\ g.failed = f.failed
         /\ f.defects \subseteq g.defects /\ g.defects \subseteq f.defects \cup {"misfreed"}
         /\ n < s_first_ino => g = f
         /\ n >= s_first_ino => Live(g) = Live(f) \ {n}
         /\ Held(f) /\ "misfreed" \notin g.defects => Held(g)
<1>1. n \in Nat /\ s_first_ino \in Nat /\ s_first_ino > ROOT_INODE /\ ROOT_INODE \in Nat
  BY LayoutFacts
<1>2. CASE n < s_first_ino
  <2>1. g = f
    BY <1>2 DEF ifree
  <2> QED BY <1>1, <1>2, <2>1
<1>3. CASE n >= s_first_ino
  <2> DEFINE freed == ToSet(f.i_block[n - 1])
             hurts == \E m \in A!Inode \ {n} : LiveIn(f, m) /\ ToSet(f.i_block[m]) \cap freed # {}
             bb == A!ResetBlocks(f.block_bitmap, freed)
             ib == A!ResetInode(f.inode_bitmap, n)
             ds == IF hurts THEN f.defects \cup {"misfreed"} ELSE f.defects
  <2>1. g = [f EXCEPT !.block_bitmap = bb, !.inode_bitmap = ib, !.defects = ds]
    BY <1>1, <1>3 DEF ifree, FS
  <2>2. freed \in SUBSET A!DataBlock
    <3>1. n - 1 \in A!Inode
      BY <1>3, LayoutFacts
    <3>2. \A k \in DOMAIN f.i_block[n - 1] : f.i_block[n - 1][k] \in A!DataBlock
      BY <3>1, BlockLists
    <3> QED BY <3>2 DEF ToSet
  <2>3. \A m \in A!Inode : \A k \in DOMAIN f.i_block[m] : f.i_block[m][k] \in ToSet(f.i_block[m])
    BY DEF ToSet
  <2> HIDE DEF freed
  <2>4. /\ bb \in [A!Group -> SUBSET A!BlockBit] /\ Marked(bb)
        /\ \A c \in A!DataBlock : InUse(bb, c) <=> InUse(f.block_bitmap, c) /\ c \notin freed
    BY <2>2, FreedBlocks DEF FS, Sound
  <2>5. /\ ib \in [A!Group -> SUBSET A!InodeBit]
        /\ \A m \in A!Inode : Allocated(ib, m) <=> Allocated(f.inode_bitmap, m) /\ m # n
    BY FreedInode DEF FS
  <2>6. ds \in SUBSET Defect /\ f.defects \subseteq ds /\ ds \subseteq f.defects \cup {"misfreed"}
        /\ ("misfreed" \notin ds => ~hurts)
    BY DEF FS, Defect
  <2> HIDE DEF bb, ib, ds
  <2>7. /\ g \in FS /\ g.block_bitmap = bb /\ g.inode_bitmap = ib /\ g.defects = ds
        /\ g.mode = f.mode /\ g.i_block = f.i_block /\ g.data = f.data /\ g.failed = f.failed
    BY <2>1, <2>4, <2>5, <2>6 DEF FS
  <2>8. Sound(g)
    BY <2>4, <2>7 DEF Sound, Written, Block
  <2>9. Live(g) = Live(f) \ {n}
    <3>1. n # ROOT_INODE
      BY <1>1, <1>3
    <3>2. \A m \in A!Inode : LiveIn(g, m) <=> LiveIn(f, m) /\ m # n
      BY <2>5, <2>7, <3>1 DEF LiveIn, Allocated
    <3> QED BY <3>2 DEF Live
  <2>10. Held(f) /\ "misfreed" \notin g.defects => Held(g)
    <3> SUFFICES ASSUME Held(f), "misfreed" \notin g.defects PROVE Held(g)
      OBVIOUS
    <3>1. ~hurts
      BY <2>6, <2>7
    <3>2. \A m \in Live(g) : \A k \in DOMAIN f.i_block[m] :
             f.i_block[m][k] \notin freed /\ f.i_block[m][k] \in A!DataBlock
      BY <2>3, <2>9, <3>1, BlockLists DEF Live
    <3> HIDE DEF hurts
    <3> QED BY <2>4, <2>7, <2>9, <3>2 DEF Held
  <2> QED BY <1>1, <1>3, <2>6, <2>7, <2>8, <2>9, <2>10
<1> QED BY <1>1, <1>2, <1>3

\* h is f with inode id made.
Born(f, h, id) ==
  /\ id \in A!Inode \ Live(f) /\ id # ROOT_INODE /\ Live(h) = Live(f) \cup {id}
  /\ \A d \in Live(f) : h.mode[d] = f.mode[d] /\ SameRows(f, h, d)

\* The inode that ialloc finds is not live, and setting its bit makes it so.
LEMMA BornFacts ==
  ASSUME NEW f \in FS, NEW id, id = A!ialloc(f.inode_bitmap), id # 0,
         NEW ib, ib = A!SetInode(f.inode_bitmap, id)
  PROVE  /\ id \in A!Inode \ Live(f) /\ id # ROOT_INODE /\ id >= s_first_ino
         /\ ib \in [A!Group -> SUBSET A!InodeBit]
         /\ \A h : h.inode_bitmap = ib => Live(h) = Live(f) \cup {id}
<1>1. f.inode_bitmap \in [A!Group -> SUBSET A!InodeBit]
  BY DEF FS
<1>2. /\ id \in A!Inode /\ id >= s_first_ino /\ id # ROOT_INODE /\ ~Allocated(f.inode_bitmap, id)
      /\ ib \in [A!Group -> SUBSET A!InodeBit]
      /\ \A m \in A!Inode : Allocated(ib, m) <=> Allocated(f.inode_bitmap, m) \/ m = id
  BY <1>1, NewInode
<1>3. id \notin Live(f)
  BY <1>2 DEF Live, LiveIn, Allocated
<1>4. \A h : h.inode_bitmap = ib => Live(h) = Live(f) \cup {id}
  BY <1>2 DEF Live, LiveIn, Allocated
<1> QED BY <1>2, <1>3, <1>4

\* The two halves of making an inode: its own fields, and its first block.
Made(f, ib, id, l, md) == [f EXCEPT !.inode_bitmap = ib, !.i_block[id] = l, !.mode[id] = md]
BlockPut(f, bb, b, blk) == [f EXCEPT !.block_bitmap = bb, !.data[b] = blk]

\* The fields that making an inode sets have the right types.
LEMMA MadeInFS ==
  ASSUME NEW f \in FS, NEW id \in A!Inode, NEW l \in BlockList,
         NEW ib \in [A!Group -> SUBSET A!InodeBit], NEW md \in {"none", "file", "dir"}
  PROVE  Made(f, ib, id, l, md) \in FS
BY DEF FS, Made

\* The same for its first block.
LEMMA FilledInFS ==
  ASSUME NEW f \in FS, NEW b \in A!DataBlock, NEW blk \in BlockData,
         NEW bb \in [A!Group -> SUBSET A!BlockBit]
  PROVE  BlockPut(f, bb, b, blk) \in FS
BY DEF FS, BlockPut

\* What create and mkdir make of the file system before the entry is added.
FileMade(f, id) ==
  [f EXCEPT !.inode_bitmap = A!SetInode(@, id), !.i_block[id] = <<>>, !.mode[id] = "file"]
DirMade(f, id, n, b) ==
  [f EXCEPT !.inode_bitmap = A!SetInode(@, id), !.block_bitmap = A!SetBlock(@, b),
            !.i_block[id] = <<b>>, !.mode[id] = "dir", !.data[b] = D!init_entry_block(id, n)]

\* An inode is made a regular file.
LEMMA NewFile ==
  ASSUME NEW f \in FS, Sound(f), f.failed = "none", NEW id, id = A!ialloc(f.inode_bitmap), id # 0,
         NEW h, h = FileMade(f, id)
  PROVE  /\ h \in FS /\ Sound(h) /\ h.failed = "none" /\ h.defects = f.defects
         /\ Born(f, h, id) /\ h.mode[id] = "file" /\ h.i_block[id] = <<>>
         /\ \A d \in A!Inode : d # id => h.mode[d] = f.mode[d]
         /\ \A d \in A!Inode : Readable(f, d) => Readable(h, d)
         /\ Held(f) => Held(h)
<1> DEFINE ib == A!SetInode(f.inode_bitmap, id)
<1>1. /\ id \in A!Inode \ Live(f) /\ id # ROOT_INODE
      /\ ib \in [A!Group -> SUBSET A!InodeBit]
      /\ \A g : g.inode_bitmap = ib => Live(g) = Live(f) \cup {id}
  BY BornFacts
<1>2. h = [f EXCEPT !.inode_bitmap = ib, !.i_block[id] = <<>>, !.mode[id] = "file"]
  BY DEF FS, FileMade
<1> HIDE DEF ib
<1>3. /\ h.inode_bitmap = ib /\ h.block_bitmap = f.block_bitmap /\ h.data = f.data
      /\ h.failed = "none" /\ h.defects = f.defects
      /\ h.i_block = [f.i_block EXCEPT ![id] = <<>>] /\ h.mode = [f.mode EXCEPT ![id] = "file"]
  BY <1>2 DEF FS
<1>4. h \in FS
  <2> DEFINE none == <<>>
  <2>1. none \in Seq(A!DataBlock) /\ Len(none) = 0 /\ 0 <= EXT2_DIRECT_BLOCKS
    BY LayoutFacts
  <2>2. h = Made(f, ib, id, none, "file")
    BY <1>2 DEF Made
  <2> HIDE DEF none
  <2>3. none \in BlockList
    BY <2>1 DEF BlockList
  <2> QED BY <1>1, <2>2, <2>3, MadeInFS
<1>5. /\ \A d \in A!Inode : h.i_block[d] = IF d = id THEN <<>> ELSE f.i_block[d]
      /\ \A d \in A!Inode : h.mode[d] = IF d = id THEN "file" ELSE f.mode[d]
  BY <1>3 DEF FS
<1>6. DOMAIN <<>> = {}
  OBVIOUS
<1>7. Written(h)
  <2>1. \A b \in A!DataBlock : \A o \in DOMAIN f.data[b] : f.data[b][o].inode \in A!Inode
    BY BlockDataFacts, WfFacts, BytesData DEF FS
  <2> QED BY <1>3, <1>5, <2>1 DEF Sound, Written
<1>8. Sound(h)
  <2>1. Marked(h.block_bitmap)
    BY <1>3 DEF Sound
  <2>3. ASSUME NEW d \in A!Inode, h.mode[d] = "dir" PROVE h.i_block[d] # <<>>
    <3>1. d # id /\ f.mode[d] = "dir" /\ h.i_block[d] = f.i_block[d]
      BY <1>5, <2>3
    <3> QED BY <3>1 DEF Sound
  <2>4. h.mode[ROOT_INODE] = "dir"
    BY <1>1, <1>5, LayoutFacts DEF Sound
  <2> QED BY <1>7, <2>1, <2>3, <2>4 DEF Sound
<1>9. Live(h) = Live(f) \cup {id} /\ Live(f) \subseteq A!Inode
  BY <1>1, <1>3 DEF Live
<1>10. Born(f, h, id)
  BY <1>1, <1>3, <1>5, <1>9 DEF Born, SameRows, Block
<1>11. Held(f) => Held(h)
  BY <1>1, <1>3, <1>5, <1>6, <1>9 DEF Held
<1>12. \A d \in A!Inode : Readable(f, d) => Readable(h, d)
  BY <1>3, <1>5, <1>6 DEF Readable
<1> QED BY <1>1, <1>3, <1>4, <1>5, <1>8, <1>10, <1>11, <1>12

\* An inode is made a directory, in the block b.
LEMMA NewDir ==
  ASSUME NEW f \in FS, Sound(f), f.failed = "none", NEW id, id = A!ialloc(f.inode_bitmap), id # 0,
         NEW n \in A!Inode, f.mode[n] # "none",
         NEW b, b = A!ballocs(f.block_bitmap, id \div inodes_per_group), b # A!EXT2M_I_BLOCK_END,
         NEW h, h = DirMade(f, id, n, b)
  PROVE  /\ h \in FS /\ Sound(h) /\ h.failed = "none" /\ h.defects = f.defects
         /\ h.mode[id] = "dir" /\ DOMAIN h.i_block[id] = {1}
         /\ Block(h, id, 1) = D!init_entry_block(id, n)
         /\ \A d \in A!Inode : d # id => h.mode[d] = f.mode[d]
         /\ \A d \in A!Inode : Readable(f, d) => Readable(h, d)
         /\ id \in A!Inode \ Live(f) /\ id # ROOT_INODE /\ Live(h) = Live(f) \cup {id}
         /\ Held(f) => Held(h) /\ Born(f, h, id)
<1> DEFINE ib == A!SetInode(f.inode_bitmap, id)
           bb == A!SetBlock(f.block_bitmap, b)
           blk == D!init_entry_block(id, n)
           one == <<b>>
<1>1. /\ id \in A!Inode \ Live(f) /\ id # ROOT_INODE
      /\ ib \in [A!Group -> SUBSET A!InodeBit]
      /\ \A g : g.inode_bitmap = ib => Live(g) = Live(f) \cup {id}
  BY BornFacts
<1>2. /\ b \in A!DataBlock /\ ~InUse(f.block_bitmap, b)
      /\ bb \in [A!Group -> SUBSET A!BlockBit] /\ Marked(bb)
      /\ \A c \in A!DataBlock : InUse(bb, c) <=> InUse(f.block_bitmap, c) \/ c = b
  <2>1. id \div inodes_per_group \in Nat /\ f.block_bitmap \in [A!Group -> SUBSET A!BlockBit]
        /\ Marked(f.block_bitmap)
    BY <1>1, LayoutFacts DEF FS, Sound
  <2> QED BY <2>1, FreeBlock
<1>3. Wf(blk) /\ DOMAIN blk = {0, 12} /\ blk[0].inode = id /\ blk[12].inode = n
      /\ blk \in BlockData /\ blk # Bytes
  BY <1>1, FreshData, WfFacts
<1>4. h = [f EXCEPT !.inode_bitmap = ib, !.block_bitmap = bb,
                    !.i_block[id] = one, !.mode[id] = "dir", !.data[b] = blk]
  BY DEF FS, DirMade
<1>5. one \in BlockList /\ DOMAIN one = {1} /\ one[1] = b /\ one # <<>>
  <2>1. one \in Seq(A!DataBlock) /\ Len(one) = 1 /\ 1 <= EXT2_DIRECT_BLOCKS
    BY <1>2, LayoutFacts
  <2>2. DOMAIN one = {1} /\ one[1] = b /\ one # <<>>
    OBVIOUS
  <2> QED BY <2>1, <2>2 DEF BlockList
<1> HIDE DEF ib, bb, blk, one
<1>6. /\ h.inode_bitmap = ib /\ h.block_bitmap = bb
      /\ h.failed = "none" /\ h.defects = f.defects /\ h.data = [f.data EXCEPT ![b] = blk]
      /\ h.i_block = [f.i_block EXCEPT ![id] = one] /\ h.mode = [f.mode EXCEPT ![id] = "dir"]
  BY <1>4 DEF FS
<1>7. h \in FS
  <2> DEFINE g == Made(f, ib, id, one, "dir")
  <2>1. g \in FS
    BY <1>1, <1>5, MadeInFS
  <2>2. h = BlockPut(g, bb, b, blk)
    BY <1>4 DEF FS, Made, BlockPut
  <2> HIDE DEF g
  <2> QED BY <1>2, <1>3, <2>1, <2>2, FilledInFS
<1>8. /\ \A d \in A!Inode : h.i_block[d] = IF d = id THEN one ELSE f.i_block[d]
      /\ \A d \in A!Inode : h.mode[d] = IF d = id THEN "dir" ELSE f.mode[d]
      /\ \A c \in A!DataBlock : h.data[c] = IF c = b THEN blk ELSE f.data[c]
  BY <1>6 DEF FS
<1>8a. /\ h.i_block[id] = one /\ h.mode[id] = "dir" /\ h.data[b] = blk
       /\ \A d \in A!Inode : d # id => h.i_block[d] = f.i_block[d] /\ h.mode[d] = f.mode[d]
       /\ \A c \in A!DataBlock : c # b => h.data[c] = f.data[c]
  BY <1>1, <1>2, <1>8
<1>9. Written(h)
  <2>1. \A c \in A!DataBlock : \A o \in DOMAIN f.data[c] : f.data[c][o].inode \in A!Inode
    BY BlockDataFacts, WfFacts, BytesData DEF FS
  <2>2. ASSUME NEW c \in A!DataBlock, NEW o \in DOMAIN h.data[c]
        PROVE  h.mode[h.data[c][o].inode] # "none"
    <3>1. CASE c = b
      <4>1. h.data[c] = blk /\ o \in {0, 12}
        BY <1>3, <1>8a, <2>2, <3>1
      <4>2. h.data[c][o].inode \in {id, n}
        BY <1>3, <4>1
      <4>3. h.mode[id] # "none" /\ h.mode[n] # "none"
        BY <1>8a
      <4> QED BY <4>2, <4>3
    <3>2. CASE c # b
      <4>1. o \in DOMAIN f.data[c] /\ h.data[c][o].inode = f.data[c][o].inode
        BY <1>8a, <2>2, <3>2
      <4>2. f.data[c][o].inode \in A!Inode /\ f.mode[f.data[c][o].inode] # "none"
        BY <2>1, <4>1 DEF Sound, Written
      <4>3. \A d \in A!Inode : f.mode[d] # "none" => h.mode[d] # "none"
        BY <1>8a
      <4> QED BY <4>1, <4>2, <4>3
    <3> QED BY <3>1, <3>2
  <2> QED BY <2>2 DEF Written
<1>10. ASSUME NEW d \in A!Inode, Readable(f, d) PROVE Readable(h, d)
  <2> SUFFICES ASSUME NEW k \in DOMAIN h.i_block[d] PROVE h.data[h.i_block[d][k]] # Bytes
    BY DEF Readable
  <2>1. CASE d = id
    <3>1. h.i_block[d][k] = b
      BY <1>5, <1>8a, <2>1
    <3> QED BY <1>3, <1>8a, <3>1
  <2>2. CASE d # id
    <3>1. k \in DOMAIN f.i_block[d] /\ h.i_block[d][k] = f.i_block[d][k]
      BY <1>8a, <2>2
    <3>2. f.i_block[d][k] \in A!DataBlock /\ f.data[f.i_block[d][k]] # Bytes
      BY <1>10, <3>1, BlockLists DEF Readable
    <3>3. \A c \in A!DataBlock : f.data[c] # Bytes => h.data[c] # Bytes
      BY <1>3, <1>8a
    <3> QED BY <3>1, <3>2, <3>3
  <2> QED BY <2>1, <2>2
<1>11. Sound(h)
  <2>1. \A d \in A!Inode : h.mode[d] = "dir" => h.i_block[d] # <<>>
    BY <1>5, <1>8 DEF Sound
  <2>2. h.mode[ROOT_INODE] = "dir"
    BY <1>8, LayoutFacts DEF Sound
  <2>3. Marked(h.block_bitmap)
    BY <1>2, <1>6
  <2> QED BY <1>9, <2>1, <2>2, <2>3 DEF Sound
<1>12. Live(h) = Live(f) \cup {id} /\ Live(f) \subseteq A!Inode
  BY <1>1, <1>6 DEF Live
<1>13. DOMAIN h.i_block[id] = {1} /\ Block(h, id, 1) = blk /\ h.i_block[id][1] = b
  BY <1>1, <1>2, <1>5, <1>8 DEF Block
<1>14. ASSUME Held(f) PROVE Held(h) /\ Born(f, h, id)
  <2>1. \A d \in Live(f) : \A k \in DOMAIN f.i_block[d] :
          /\ f.i_block[d][k] # b /\ f.i_block[d][k] \in A!DataBlock
          /\ InUse(f.block_bitmap, f.i_block[d][k])
    BY <1>2, <1>12, <1>14, BlockLists DEF Held
  <2>2. \A d \in Live(f) : h.i_block[d] = f.i_block[d] /\ h.mode[d] = f.mode[d]
    BY <1>1, <1>8, <1>12
  <2>3. \A d \in Live(f) : SameRows(f, h, d)
    <3>1. \A c \in A!DataBlock : c # b => h.data[c] = f.data[c]
      BY <1>8a
    <3>2. \A d \in Live(f) : \A k \in DOMAIN f.i_block[d] :
             h.data[f.i_block[d][k]] = f.data[f.i_block[d][k]]
      BY <2>1, <3>1
    <3> QED BY <2>2, <3>2 DEF SameRows, Block
  <2>4. Born(f, h, id)
    BY <1>1, <1>12, <2>2, <2>3 DEF Born
  <2>5. \A d \in Live(h) : \A k \in DOMAIN h.i_block[d] : InUse(h.block_bitmap, h.i_block[d][k])
    <3> SUFFICES ASSUME NEW d \in Live(h), NEW k \in DOMAIN h.i_block[d]
                 PROVE  InUse(bb, h.i_block[d][k])
      BY <1>6
    <3>1. CASE d = id
      <4>1. h.i_block[d][k] = b
        BY <1>13, <3>1
      <4> QED BY <1>2, <4>1
    <3>2. CASE d # id
      <4>1. d \in Live(f) /\ h.i_block[d] = f.i_block[d]
        BY <1>12, <2>2, <3>2
      <4>2. f.i_block[d][k] \in A!DataBlock /\ InUse(f.block_bitmap, f.i_block[d][k])
        BY <2>1, <4>1
      <4> QED BY <1>2, <4>1, <4>2
    <3> QED BY <3>1, <3>2
  <2>6. ASSUME NEW d \in Live(h), NEW e \in Live(h), NEW j \in DOMAIN h.i_block[d],
               NEW k \in DOMAIN h.i_block[e], h.i_block[d][j] = h.i_block[e][k]
        PROVE  d = e /\ j = k
    <3>1. \A c \in Live(h) : c # id => c \in Live(f) /\ h.i_block[c] = f.i_block[c]
      BY <1>12, <2>2
    <3>2. \A i \in DOMAIN h.i_block[id] : i = 1 /\ h.i_block[id][i] = b
      BY <1>13
    <3>3. \A c \in Live(f) : \A i \in DOMAIN f.i_block[c] : f.i_block[c][i] # b
      BY <2>1
    <3>4. CASE d = id /\ e = id
      BY <3>2, <3>4
    <3>5. CASE d = id /\ e # id
      <4>1. h.i_block[d][j] = b
        BY <3>2, <3>5
      <4>2. e \in Live(f) /\ h.i_block[e] = f.i_block[e]
        BY <3>1, <3>5
      <4>3. h.i_block[e][k] # b
        BY <3>3, <4>2
      <4> QED BY <2>6, <4>1, <4>3
    <3>6. CASE d # id /\ e = id
      <4>1. h.i_block[e][k] = b
        BY <3>2, <3>6
      <4>2. d \in Live(f) /\ h.i_block[d] = f.i_block[d]
        BY <3>1, <3>6
      <4>3. h.i_block[d][j] # b
        BY <3>3, <4>2
      <4> QED BY <2>6, <4>1, <4>3
    <3>7. CASE d # id /\ e # id
      BY <1>14, <2>6, <3>1, <3>7 DEF Held
    <3> QED BY <3>4, <3>5, <3>6, <3>7
  <2> QED BY <2>4, <2>5, <2>6 DEF Held
<1> QED BY <1>1, <1>6, <1>7, <1>8, <1>10, <1>11, <1>12, <1>13, <1>14 DEF blk

-------------------------------------------------------------------------------
(* The tree *)

\* The dots of a block are at 0 and 12.
IsEntry(o) == o \notin {0, 12}

\* What the entry at o of the k-th block of directory d may be.
Fits(f, up, x, d, k, o) ==
  /\ o = 0 <=> At(f, d, k, o).name = Dot
  /\ o = 12 <=> At(f, d, k, o).name = DotDot
  /\ o = 0 => At(f, d, k, o).inode = d
  /\ o = 12 => At(f, d, k, o).inode = up[d]
  /\ IsEntry(o) => /\ At(f, d, k, o).inode \in Live(f) \ {ROOT_INODE, x}
                   /\ up[At(f, d, k, o).inode] = d

\* Inode n has an entry in d.
Named(f, d, n) == \E k, o : Row(f, d, k, o) /\ IsEntry(o) /\ At(f, d, k, o).inode = n

\* The blocks of a directory hold entries, those of a file none.
Contained(f, d) == \A k \in DOMAIN f.i_block[d] : Block(f, d, k) # Bytes <=> f.mode[d] = "dir"

\* The live inodes are a tree, up[n] the directory n is in, but for inode x
\* that is in none (0: every one is).
Tree(f, up, x) ==
  /\ up \in [A!Inode -> A!Inode] /\ up[ROOT_INODE] = ROOT_INODE
  /\ \A n \in Live(f) : Contained(f, n)
  /\ \A d \in Live(f) : \A k, o : Row(f, d, k, o) => Fits(f, up, x, d, k, o)
  /\ \A d \in Live(f) : \A j, q, k, o :
       /\ Row(f, d, j, q) /\ IsEntry(q) /\ Row(f, d, k, o) /\ IsEntry(o)
       /\ At(f, d, j, q).inode = At(f, d, k, o).inode
       => j = k /\ q = o
  /\ \A n \in Live(f) \ {ROOT_INODE, x} : up[n] \in Live(f) /\ Named(f, up[n], n)

\* No directory has two entries of one name.
Distinct(f) ==
  \A d \in Live(f) : \A j, q, k, o :
    /\ Row(f, d, j, q) /\ IsEntry(q) /\ Row(f, d, k, o) /\ IsEntry(o)
    /\ At(f, d, j, q).name = At(f, d, k, o).name
    => j = k /\ q = o

\* Going up ends at the root.
Ranks(f, up, rank) ==
  /\ rank \in [A!Inode -> Nat] /\ rank[ROOT_INODE] = 0
  /\ \A n \in Live(f) \ {ROOT_INODE} : rank[n] = rank[up[n]] + 1
Ranked(f, up) == \E rank : Ranks(f, up, rank)

\* The live inodes are inodes, and the root is one.
LEMMA LiveFacts == \A f : Live(f) \subseteq A!Inode /\ ROOT_INODE \in Live(f)
BY LayoutFacts DEF Live, LiveIn

\* A directory that did not change has the entries it had.
LEMMA SameRowFacts ==
  ASSUME NEW f, NEW g, NEW d, SameRows(f, g, d)
  PROVE  /\ \A k, o : Row(g, d, k, o) <=> Row(f, d, k, o)
         /\ \A k, o : Row(f, d, k, o) => At(g, d, k, o) = At(f, d, k, o)
BY DEF SameRows, Row, At

\* The directories of the tree can be read, and only they have entries.
LEMMA OnlyDirsHold ==
  ASSUME NEW f, NEW up, NEW x, Tree(f, up, x), NEW d \in Live(f)
  PROVE  /\ f.mode[d] = "dir" => Readable(f, d)
         /\ f.mode[d] # "dir" => \A k, o : ~Row(f, d, k, o)
<1>1. Contained(f, d)
  BY DEF Tree
<1> QED BY <1>1, ReadableBlocks, BytesData DEF Contained, Row

\* A directory of the tree names no dot but its own.
LEMMA EntryNames ==
  ASSUME NEW f, NEW up, NEW x, Tree(f, up, x), NEW d \in Live(f), NEW k, NEW o, Row(f, d, k, o)
  PROVE  IsEntry(o) <=> ~IsDot(At(f, d, k, o).name)
BY DEF Tree, Fits, IsEntry, IsDot

\* An inode that has just been made, in n but without an entry.
LEMMA TreeBorn ==
  ASSUME NEW f \in FS, NEW up, Tree(f, up, 0), NEW h \in FS, Sound(h), NEW id, Born(f, h, id),
         NEW n \in Live(f),
         \/ h.mode[id] = "file" /\ h.i_block[id] = <<>>
         \/ /\ h.mode[id] = "dir" /\ DOMAIN h.i_block[id] = {1}
            /\ Block(h, id, 1) = D!init_entry_block(id, n),
         NEW up2, up2 = [up EXCEPT ![id] = n]
  PROVE  /\ Tree(h, up2, id)
         /\ Distinct(f) => Distinct(h)
         /\ Ranked(f, up) => Ranked(h, up2)
<1>1. /\ id \in A!Inode /\ id \notin Live(f) /\ id # ROOT_INODE /\ Live(h) = Live(f) \cup {id}
      /\ n \in A!Inode /\ n # id
      /\ \A d \in Live(f) : d \in A!Inode /\ d # id /\ d # 0 /\ h.mode[d] = f.mode[d] /\ SameRows(f, h, d)
  BY LiveFacts, LayoutFacts DEF Born
<1>2. /\ up2 \in [A!Inode -> A!Inode] /\ up2[id] = n
      /\ \A d \in A!Inode : d # id => up2[d] = up[d]
  BY <1>1 DEF Tree
<1>3. \A k, o : Row(h, id, k, o) =>
         \/ o = 0 /\ At(h, id, k, o).name = Dot /\ At(h, id, k, o).inode = id
         \/ o = 12 /\ At(h, id, k, o).name = DotDot /\ At(h, id, k, o).inode = n
  <2>1. CASE h.i_block[id] = <<>>
    BY <2>1 DEF Row
  <2>2. CASE DOMAIN h.i_block[id] = {1} /\ Block(h, id, 1) = D!init_entry_block(id, n)
    <3> DEFINE fresh == D!init_entry_block(id, n)
    <3>1. /\ DOMAIN fresh = {0, 12} /\ fresh[0].inode = id /\ fresh[12].inode = n
          /\ fresh[0].name = Dot /\ fresh[12].name = DotDot
      BY <1>1, FreshData, WfFacts
    <3> HIDE DEF fresh
    <3>2. Block(h, id, 1) = fresh
      BY <2>2 DEF fresh
    <3> QED BY <2>2, <3>1, <3>2 DEF Row, At
  <2> QED BY <2>1, <2>2
<1>4. \A d \in Live(f) : \A k, o : /\ Row(h, d, k, o) <=> Row(f, d, k, o)
                                   /\ Row(f, d, k, o) => At(h, d, k, o) = At(f, d, k, o)
  BY <1>1, SameRowFacts
<1>5. Tree(h, up2, id)
  <2>1. up2[ROOT_INODE] = ROOT_INODE
    BY <1>1, <1>2, LayoutFacts DEF Tree
  <2>2. ASSUME NEW d \in Live(h) PROVE Contained(h, d)
    <3>1. CASE d # id
      BY <1>1, <2>2, <3>1 DEF Tree, Contained, SameRows
    <3>2. CASE d = id /\ h.i_block[id] = <<>>
      BY <3>2 DEF Contained
    <3>3. CASE d = id /\ h.i_block[id] # <<>>
      <4>1. D!init_entry_block(id, n) # Bytes
        BY <1>1, FreshData, WfFacts
      <4> QED BY <3>3, <4>1 DEF Contained
    <3> QED BY <3>1, <3>2, <3>3
  <2>3. ASSUME NEW d \in Live(h), NEW k, NEW o, Row(h, d, k, o)
        PROVE  Fits(h, up2, id, d, k, o)
    <3>1. CASE d = id
      BY <1>2, <1>3, <2>3, <3>1, NameFacts DEF Fits, IsEntry
    <3>2. CASE d # id
      <4>1. d \in Live(f) /\ Row(f, d, k, o) /\ At(h, d, k, o) = At(f, d, k, o)
        BY <1>1, <1>4, <2>3, <3>2
      <4>2. Fits(f, up, 0, d, k, o)
        BY <4>1 DEF Tree
      <4> QED BY <1>1, <1>2, <3>2, <4>1, <4>2 DEF Fits
    <3> QED BY <3>1, <3>2
  <2>4. ASSUME NEW d \in Live(h), NEW j, NEW q, NEW k, NEW o,
               Row(h, d, j, q) /\ IsEntry(q) /\ Row(h, d, k, o) /\ IsEntry(o),
               At(h, d, j, q).inode = At(h, d, k, o).inode
        PROVE  j = k /\ q = o
    <3>1. d # id
      BY <1>3, <2>4 DEF IsEntry
    <3> QED BY <1>1, <1>4, <2>4, <3>1 DEF Tree
  <2>5. ASSUME NEW m \in Live(h) \ {ROOT_INODE, id}
        PROVE  up2[m] \in Live(h) /\ Named(h, up2[m], m)
    <3>1. m \in Live(f) \ {ROOT_INODE, 0} /\ up2[m] = up[m]
      BY <1>1, <1>2
    <3>2. up[m] \in Live(f) /\ Named(f, up[m], m)
      BY <3>1 DEF Tree
    <3> QED BY <1>1, <1>4, <3>1, <3>2 DEF Named
  <2> QED BY <1>2, <2>1, <2>2, <2>3, <2>4, <2>5 DEF Tree
<1>6. ASSUME Distinct(f) PROVE Distinct(h)
  <2> SUFFICES ASSUME NEW d \in Live(h), NEW j, NEW q, NEW k, NEW o,
                      Row(h, d, j, q) /\ IsEntry(q) /\ Row(h, d, k, o) /\ IsEntry(o),
                      At(h, d, j, q).name = At(h, d, k, o).name
               PROVE  j = k /\ q = o
    BY DEF Distinct
  <2>1. d # id
    BY <1>3 DEF IsEntry
  <2> QED BY <1>1, <1>4, <1>6, <2>1 DEF Distinct
<1>7. ASSUME Ranked(f, up) PROVE Ranked(h, up2)
  <2>1. PICK rank : Ranks(f, up, rank)
    BY <1>7 DEF Ranked
  <2> DEFINE rank2 == [rank EXCEPT ![id] = rank[n] + 1]
  <2>2. /\ rank2 \in [A!Inode -> Nat] /\ rank2[id] = rank[n] + 1
        /\ \A d \in A!Inode : d # id => rank2[d] = rank[d]
    BY <1>1, <2>1 DEF Ranks
  <2> HIDE DEF rank2
  <2>3. ASSUME NEW m \in Live(h) \ {ROOT_INODE} PROVE rank2[m] = rank2[up2[m]] + 1
    <3>1. CASE m = id
      BY <1>1, <1>2, <2>2, <3>1
    <3>2. CASE m # id
      <4>1. m \in Live(f) \ {ROOT_INODE, 0} /\ up2[m] = up[m] /\ m \in A!Inode
        BY <1>1, <1>2, <3>2
      <4>2. up[m] \in Live(f) /\ rank[m] = rank[up[m]] + 1
        BY <2>1, <4>1 DEF Tree, Ranks
      <4> QED BY <1>1, <2>2, <3>2, <4>1, <4>2
    <3> QED BY <3>1, <3>2
  <2>4. rank2[ROOT_INODE] = 0
    BY <1>1, <2>1, <2>2, LayoutFacts DEF Ranks
  <2>5. Ranks(h, up2, rank2)
    BY <2>2, <2>3, <2>4 DEF Ranks
  <2> QED BY <2>5 DEF Ranked
<1> QED BY <1>5, <1>6, <1>7

\* A file without entry may be taken to be in any directory.
LEMMA TreeReparent ==
  ASSUME NEW f \in FS, Sound(f), NEW up, NEW x \in Live(f) \ {ROOT_INODE}, Tree(f, up, x),
         f.mode[x] # "dir", NEW n \in Live(f), n # x, NEW up2, up2 = [up EXCEPT ![x] = n]
  PROVE  /\ Tree(f, up2, x) /\ up2[x] = n
         /\ Ranked(f, up) => Ranked(f, up2)
<1>1. Live(f) \subseteq A!Inode /\ ROOT_INODE \in Live(f)
  BY LiveFacts
<1>2. /\ up2 \in [A!Inode -> A!Inode] /\ up2[x] = n
      /\ \A d \in A!Inode : d # x => up2[d] = up[d]
  BY <1>1 DEF Tree
<1>3. \A k, o : ~Row(f, x, k, o)
  BY OnlyDirsHold
<1>4. Tree(f, up2, x)
  <2>1. up2[ROOT_INODE] = ROOT_INODE
    BY <1>1, <1>2 DEF Tree
  <2>2. ASSUME NEW d \in Live(f), NEW k, NEW o, Row(f, d, k, o)
        PROVE  Fits(f, up2, x, d, k, o)
    <3>1. d # x /\ Fits(f, up, x, d, k, o)
      BY <1>3, <2>2 DEF Tree
    <3> QED BY <1>1, <1>2, <3>1 DEF Fits
  <2>3. \A m \in Live(f) \ {ROOT_INODE, x} : up2[m] \in Live(f) /\ Named(f, up2[m], m)
    BY <1>1, <1>2 DEF Tree
  <2> QED BY <1>2, <2>1, <2>2, <2>3 DEF Tree
<1>5. ASSUME Ranked(f, up) PROVE Ranked(f, up2)
  <2>1. PICK rank : Ranks(f, up, rank)
    BY <1>5 DEF Ranked
  <2> DEFINE rank2 == [rank EXCEPT ![x] = rank[n] + 1]
  <2>2. /\ rank2 \in [A!Inode -> Nat] /\ rank2[x] = rank[n] + 1
        /\ \A d \in A!Inode : d # x => rank2[d] = rank[d]
    BY <1>1, <2>1 DEF Ranks
  <2> HIDE DEF rank2
  <2>3. ASSUME NEW m \in Live(f) \ {ROOT_INODE} PROVE rank2[m] = rank2[up2[m]] + 1
    <3>1. CASE m = x
      BY <1>1, <1>2, <2>2, <3>1
    <3>2. CASE m # x
      <4>1. up2[m] = up[m] /\ m \in A!Inode
        BY <1>1, <1>2, <3>2
      <4>2. up[m] \in A!Inode /\ up[m] # x /\ rank[m] = rank[up[m]] + 1
        BY <1>1, <1>3, <2>1, <3>2 DEF Tree, Ranks, Named
      <4> QED BY <2>2, <3>2, <4>1, <4>2
    <3> QED BY <3>1, <3>2
  <2>4. rank2[ROOT_INODE] = 0
    BY <1>1, <2>1, <2>2 DEF Ranks
  <2>5. Ranks(f, up2, rank2)
    BY <2>2, <2>3, <2>4 DEF Ranks
  <2> QED BY <2>5 DEF Ranked
<1> QED BY <1>2, <1>4, <1>5

\* Inode x gets its entry.
LEMMA TreeAdd ==
  ASSUME NEW f \in FS, Sound(f), NEW up, NEW x \in Live(f) \ {ROOT_INODE}, Tree(f, up, x),
         NEW n \in Live(f), f.mode[n] = "dir", up[x] = n,
         NEW name, ~IsDot(name), NEW g \in FS, Adds(f, g, n, name, x),
         \A d \in Live(f) \ {n} : SameRows(f, g, d),
         Live(g) = Live(f), g.mode = f.mode
  PROVE  /\ Tree(g, up, 0)
         /\ Distinct(f) /\ (\A k, o : Row(f, n, k, o) => At(f, n, k, o).name # name) => Distinct(g)
         /\ Ranked(f, up) => Ranked(g, up)
<1>1. Live(f) \subseteq A!Inode /\ ROOT_INODE \in Live(f) /\ 0 \notin Live(f)
  BY LiveFacts, LayoutFacts
<1>2. \A d \in Live(g) \ {n} : \A k, o :
         /\ Row(g, d, k, o) <=> Row(f, d, k, o)
         /\ Row(f, d, k, o) => At(g, d, k, o) = At(f, d, k, o)
  BY SameRowFacts
<1>3. PICK kk, oo : NewRow(f, g, n, name, x, kk, oo)
  BY DEF Adds
<1>4. \A j, q : Row(f, n, j, q) => /\ Row(g, n, j, q)
                                   /\ At(g, n, j, q).name = At(f, n, j, q).name
                                   /\ At(g, n, j, q).inode = At(f, n, j, q).inode
  BY DEF Adds
<1>5. At(f, n, 1, 12).inode = up[n]
  <2>1. 1 \in DOMAIN f.i_block[n]
    BY <1>1, BlockLists DEF Sound
  <2>2. Row(f, n, 1, 12)
    BY <1>1, <2>1, DotRows, OnlyDirsHold, ReadableBlocks
  <2> QED BY <2>2 DEF Tree, Fits
<1>6. /\ \A j, q : Row(g, n, j, q) /\ IsEntry(q) => Row(f, n, j, q) \/ (j = kk /\ q = oo)
      /\ Row(g, n, kk, oo) /\ ~Row(f, n, kk, oo) /\ IsEntry(oo)
      /\ At(g, n, kk, oo).name = name /\ At(g, n, kk, oo).inode = x
  BY <1>3 DEF NewRow, IsEntry
<1>7. \A j, q : Row(g, n, j, q) => Fits(g, up, 0, n, j, q)
  <2> SUFFICES ASSUME NEW j, NEW q, Row(g, n, j, q) PROVE Fits(g, up, 0, n, j, q)
    OBVIOUS
  <2>1. CASE Row(f, n, j, q)
    <3>1. Fits(f, up, x, n, j, q)
      BY <2>1 DEF Tree
    <3> QED BY <1>1, <1>4, <2>1, <3>1 DEF Fits
  <2>2. CASE j = kk /\ q = oo
    BY <1>1, <1>6, <2>2 DEF Fits, IsEntry, IsDot
  <2>3. CASE q = 0 /\ At(g, n, j, q).name = Dot /\ At(g, n, j, q).inode = n
    BY <2>3, NameFacts DEF Fits, IsEntry
  <2>4. CASE q = 12 /\ At(g, n, j, q).name = DotDot /\ At(g, n, j, q).inode = At(f, n, 1, 12).inode
    BY <1>5, <2>4, NameFacts DEF Fits, IsEntry
  <2> QED BY <1>3, <2>1, <2>2, <2>3, <2>4 DEF NewRow
<1>8. ASSUME NEW d \in Live(g) PROVE Contained(g, d)
  <2>1. CASE d = n
    BY <2>1, ReadableBlocks DEF Adds, Contained
  <2>2. CASE d # n
    BY <1>8, <2>2 DEF Tree, Contained, SameRows
  <2> QED BY <2>1, <2>2
<1>9. ASSUME NEW d \in Live(g), NEW k, NEW o, Row(g, d, k, o)
      PROVE  Fits(g, up, 0, d, k, o)
  <2>1. CASE d # n
    <3>1. Row(f, d, k, o) /\ At(g, d, k, o) = At(f, d, k, o) /\ Fits(f, up, x, d, k, o)
      BY <1>2, <1>9, <2>1 DEF Tree
    <3> QED BY <1>1, <3>1 DEF Fits
  <2> QED BY <1>7, <1>9, <2>1
<1>10. ASSUME NEW d \in Live(g), NEW j, NEW q, NEW k, NEW o,
              Row(g, d, j, q) /\ IsEntry(q) /\ Row(g, d, k, o) /\ IsEntry(o),
              At(g, d, j, q).inode = At(g, d, k, o).inode
       PROVE  j = k /\ q = o
  <2>1. CASE d # n
    BY <1>2, <1>10, <2>1 DEF Tree
  <2>2. CASE d = n
    <3>1. \A i, p : Row(f, n, i, p) /\ IsEntry(p) => At(g, n, i, p).inode # x
      BY <1>4 DEF Tree, Fits
    <3>2. \A i, p : Row(f, n, i, p) => At(g, n, i, p).inode = At(f, n, i, p).inode
      BY <1>4
    <3> QED BY <1>6, <1>10, <2>2, <3>1, <3>2 DEF Tree
  <2> QED BY <2>1, <2>2
<1>11. ASSUME NEW m \in Live(g) \ {ROOT_INODE, 0}
       PROVE  up[m] \in Live(g) /\ Named(g, up[m], m)
  <2>1. CASE m = x
    BY <1>6, <2>1 DEF Named
  <2>2. CASE m # x
    <3>1. up[m] \in Live(f) /\ Named(f, up[m], m)
      BY <1>11, <2>2 DEF Tree
    <3>2. PICK k, o : Row(f, up[m], k, o) /\ IsEntry(o) /\ At(f, up[m], k, o).inode = m
      BY <3>1 DEF Named
    <3>3. Row(g, up[m], k, o) /\ At(g, up[m], k, o).inode = m
      BY <1>2, <1>4, <3>1, <3>2
    <3> QED BY <3>1, <3>2, <3>3 DEF Named
  <2> QED BY <2>1, <2>2
<1>12. Tree(g, up, 0)
  BY <1>8, <1>9, <1>10, <1>11 DEF Tree
<1>13. ASSUME Distinct(f), \A k, o : Row(f, n, k, o) => At(f, n, k, o).name # name
       PROVE  Distinct(g)
  <2> SUFFICES ASSUME NEW d \in Live(g), NEW j, NEW q, NEW k, NEW o,
                      Row(g, d, j, q) /\ IsEntry(q) /\ Row(g, d, k, o) /\ IsEntry(o),
                      At(g, d, j, q).name = At(g, d, k, o).name
               PROVE  j = k /\ q = o
    BY DEF Distinct
  <2>1. CASE d # n
    BY <1>2, <1>13, <2>1 DEF Distinct
  <2>2. CASE d = n
    <3>1. \A i, p : Row(f, n, i, p) => At(g, n, i, p).name = At(f, n, i, p).name
                                       /\ At(g, n, i, p).name # name
      BY <1>4, <1>13
    <3> QED BY <1>6, <1>13, <2>2, <3>1 DEF Distinct
  <2> QED BY <2>1, <2>2
<1>14. Ranked(f, up) => Ranked(g, up)
  BY DEF Ranked, Ranks
<1> QED BY <1>12, <1>13, <1>14

\* Inode m loses its entry.
LEMMA TreeFree ==
  ASSUME NEW f \in FS, NEW up, Tree(f, up, 0), NEW n \in Live(f), NEW m, NEW g \in FS,
         Frees(f, g, n, m), \A d \in Live(f) \ {n} : SameRows(f, g, d),
         Live(g) = Live(f), g.mode = f.mode
  PROVE  /\ m \in Live(f) \ {ROOT_INODE} /\ up[m] = n
         /\ Tree(g, up, m)
         /\ Distinct(f) => Distinct(g)
         /\ Ranked(f, up) => Ranked(g, up)
<1>1. Live(f) \subseteq A!Inode /\ ROOT_INODE \in Live(f) /\ 0 \notin Live(f)
  BY LiveFacts, LayoutFacts
<1>2. \A d \in Live(g) \ {n} : \A k, o :
         /\ Row(g, d, k, o) <=> Row(f, d, k, o)
         /\ Row(f, d, k, o) => At(g, d, k, o) = At(f, d, k, o)
  BY SameRowFacts
<1>3. PICK kk, oo : LostRow(f, g, n, m, kk, oo)
  BY DEF Frees
<1>4. /\ Row(f, n, kk, oo) /\ IsEntry(oo) /\ At(f, n, kk, oo).inode = m
      /\ \A j, q : Row(g, n, j, q) <=> Row(f, n, j, q) /\ ~(j = kk /\ q = oo)
      /\ \A j, q : Row(g, n, j, q) => /\ At(g, n, j, q).name = At(f, n, j, q).name
                                      /\ At(g, n, j, q).inode = At(f, n, j, q).inode
  BY <1>3 DEF LostRow, Frees, IsEntry
<1>5. m \in Live(f) \ {ROOT_INODE} /\ up[m] = n
  BY <1>4 DEF Tree, Fits
<1>6. \A d \in Live(g) : \A j, q : Row(g, d, j, q) =>
         /\ Row(f, d, j, q)
         /\ At(g, d, j, q).name = At(f, d, j, q).name
         /\ At(g, d, j, q).inode = At(f, d, j, q).inode
  BY <1>2, <1>4
<1>7. ASSUME NEW d \in Live(g) PROVE Contained(g, d)
  <2>1. CASE d = n
    <3>1. f.mode[n] = "dir"
      BY <1>4, OnlyDirsHold
    <3> QED BY <2>1, <3>1, ReadableBlocks DEF Frees, Contained
  <2>2. CASE d # n
    BY <1>7, <2>2 DEF Tree, Contained, SameRows
  <2> QED BY <2>1, <2>2
<1>8. ASSUME NEW d \in Live(g), NEW k, NEW o, Row(g, d, k, o)
      PROVE  Fits(g, up, m, d, k, o)
  <2>1. Row(f, d, k, o) /\ Fits(f, up, 0, d, k, o)
    BY <1>6, <1>8 DEF Tree
  <2>2. IsEntry(o) => At(f, d, k, o).inode # m
    <3> SUFFICES ASSUME IsEntry(o), At(f, d, k, o).inode = m PROVE FALSE
      OBVIOUS
    <3>1. d = n
      BY <1>5, <2>1 DEF Fits
    <3>2. k = kk /\ o = oo
      BY <1>4, <2>1, <3>1 DEF Tree
    <3> QED BY <1>4, <1>8, <3>1, <3>2
  <2> QED BY <1>6, <1>8, <2>1, <2>2 DEF Fits
<1>9. ASSUME NEW d \in Live(g), NEW j, NEW q, NEW k, NEW o,
              Row(g, d, j, q) /\ IsEntry(q) /\ Row(g, d, k, o) /\ IsEntry(o),
              At(g, d, j, q).inode = At(g, d, k, o).inode
       PROVE  j = k /\ q = o
  BY <1>6, <1>9 DEF Tree
<1>10. ASSUME NEW p \in Live(g) \ {ROOT_INODE, m}
       PROVE  up[p] \in Live(g) /\ Named(g, up[p], p)
  <2>1. up[p] \in Live(f) /\ Named(f, up[p], p)
    BY <1>1, <1>10 DEF Tree
  <2>2. PICK k, o : Row(f, up[p], k, o) /\ IsEntry(o) /\ At(f, up[p], k, o).inode = p
    BY <2>1 DEF Named
  <2>3. Row(g, up[p], k, o) /\ At(g, up[p], k, o).inode = p
    BY <1>2, <1>4, <1>10, <2>1, <2>2
  <2> QED BY <2>1, <2>2, <2>3 DEF Named
<1>11. Tree(g, up, m)
  BY <1>7, <1>8, <1>9, <1>10 DEF Tree
<1>12. Distinct(f) => Distinct(g)
  BY <1>6 DEF Distinct
<1>13. Ranked(f, up) => Ranked(g, up)
  BY DEF Ranked, Ranks
<1> QED BY <1>5, <1>11, <1>12, <1>13

\* Inode m, which has no entry and no entries, is freed.
LEMMA TreeKill ==
  ASSUME NEW f \in FS, NEW up, NEW m \in Live(f) \ {ROOT_INODE}, Tree(f, up, m),
         \A k, o : Row(f, m, k, o) => ~IsEntry(o),
         NEW g \in FS, Live(g) = Live(f) \ {m},
         g.mode = f.mode, g.i_block = f.i_block, g.data = f.data
  PROVE  /\ Tree(g, up, 0)
         /\ Distinct(f) => Distinct(g)
         /\ Ranked(f, up) => Ranked(g, up)
<1>1. \A d, k, o : (Row(g, d, k, o) <=> Row(f, d, k, o)) /\ At(g, d, k, o) = At(f, d, k, o)
  BY DEF Row, At, Block
<1>2. 0 \notin Live(f)
  BY LiveFacts, LayoutFacts
<1>3. ASSUME NEW d \in Live(g), NEW k, NEW o, Row(g, d, k, o)
      PROVE  Fits(g, up, 0, d, k, o)
  <2>1. Fits(f, up, m, d, k, o)
    BY <1>1, <1>3 DEF Tree
  <2> QED BY <1>1, <1>2, <2>1 DEF Fits
<1>4. ASSUME NEW p \in Live(g) \ {ROOT_INODE, 0}
      PROVE  up[p] \in Live(g) /\ Named(g, up[p], p)
  <2>1. up[p] \in Live(f) /\ Named(f, up[p], p)
    BY <1>4 DEF Tree
  <2> QED BY <1>1, <2>1 DEF Named
<1>5. Tree(g, up, 0)
  <2>1. \A d \in Live(g) : Contained(g, d)
    BY DEF Tree, Contained, Block
  <2>2. ASSUME NEW d \in Live(g), NEW j, NEW q, NEW k, NEW o,
               Row(g, d, j, q) /\ IsEntry(q) /\ Row(g, d, k, o) /\ IsEntry(o),
               At(g, d, j, q).inode = At(g, d, k, o).inode
        PROVE  j = k /\ q = o
    BY <1>1, <2>2 DEF Tree
  <2> QED BY <1>3, <1>4, <2>1, <2>2 DEF Tree
<1>6. Distinct(f) => Distinct(g)
  BY <1>1 DEF Distinct
<1>7. Ranked(f, up) => Ranked(g, up)
  BY DEF Ranked, Ranks
<1> QED BY <1>5, <1>6, <1>7

-------------------------------------------------------------------------------
(* The inductive invariant *)

\* No defect but a doubled name has struck.
Calm(f) == f.defects \subseteq {"duplicate"}

\* Then the live inodes are a tree, and their blocks are their own.
Shaped(f, up) == Tree(f, up, 0) /\ (f.defects = {} => Distinct(f) /\ Ranked(f, up))
Shape(f) == Held(f) /\ \E up : Shaped(f, up)

\* What the steps keep.
Good(f) ==
  /\ f \in FS
  /\ f.failed \in {"astray", "not_self", "no_entry"} => ~Calm(f)
  /\ f.failed = "none" => Sound(f) /\ (Calm(f) => Shape(f))

IInv == Good(fs) /\ ret \in {-1, 0}

\* A call that aborts.
LEMMA StopGood ==
  ASSUME NEW f, Good(f), NEW why \in Reason \ {"none"},
         why \in {"astray", "not_self", "no_entry"} => ~Calm(f)
  PROVE  Good(Stop(f, why))
<1> DEFINE g == [f EXCEPT !.failed = why]
<1>1. f \in FS /\ Stop(f, why) = g
  BY DEF Good, Stop
<1>2. g \in FS /\ g.failed = why /\ g.defects = f.defects
  BY <1>1 DEF FS
<1> HIDE DEF g
<1> QED BY <1>1, <1>2 DEF Good, Calm

\* Who walks astray in the tree walks in a regular file.
LEMMA StrayGood ==
  ASSUME NEW f, Good(f), f.failed = "none", NEW n \in A!Inode, f.mode[n] # "none",
         ~Readable(f, n), \A up : Tree(f, up, 0) => n \in Live(f)
  PROVE  Good(Stray(f, n)) /\ Stray(f, n).failed # "none"
<1> DEFINE why == IF f.mode[n] = "file" THEN "file_walked" ELSE "astray"
<1>1. Stray(f, n) = Stop(f, why) /\ why \in Reason \ {"none"}
  BY DEF Stray, Reason
<1>2. ASSUME Calm(f) PROVE f.mode[n] = "file"
  <2>1. PICK up : Tree(f, up, 0)
    BY <1>2 DEF Good, Shape, Shaped
  <2>2. f.mode[n] # "dir"
    BY <2>1, OnlyDirsHold
  <2> QED BY <2>2 DEF Good, FS
<1>3. why \in {"astray", "not_self", "no_entry"} => ~Calm(f)
  BY <1>2
<1> HIDE DEF why
<1>4. Stop(f, why).failed = why
  BY DEF Good, Stop, FS
<1> QED BY <1>1, <1>3, <1>4, StopGood

\* The fields that a history of defects leaves alone say it all.
LEMMA Struck ==
  ASSUME NEW f \in FS, NEW ds \in SUBSET Defect, NEW h, h = [f EXCEPT !.defects = ds]
  PROVE  /\ h \in FS /\ h.defects = ds /\ h.failed = f.failed /\ h.mode = f.mode
         /\ h.inode_bitmap = f.inode_bitmap /\ Live(h) = Live(f)
         /\ Sound(f) => Sound(h)
         /\ Held(f) => Held(h)
         /\ \A n, k, o : (Row(h, n, k, o) <=> Row(f, n, k, o)) /\ At(h, n, k, o) = At(f, n, k, o)
         /\ \A up, x : Tree(f, up, x) => Tree(h, up, x)
         /\ Distinct(f) => Distinct(h)
         /\ \A up : Ranked(f, up) => Ranked(h, up)
<1>1. /\ h \in FS /\ h.defects = ds /\ h.failed = f.failed /\ h.mode = f.mode
      /\ h.inode_bitmap = f.inode_bitmap /\ h.block_bitmap = f.block_bitmap
      /\ h.i_block = f.i_block /\ h.data = f.data
  BY DEF FS
<1>2. Live(h) = Live(f)
  BY <1>1 DEF Live, LiveIn
<1>3. Sound(f) => Sound(h)
  BY <1>1 DEF Sound, Written, Block
<1>4. Held(f) => Held(h)
  BY <1>1, <1>2 DEF Held
<1>5. /\ \A n, k, o : (Row(h, n, k, o) <=> Row(f, n, k, o)) /\ At(h, n, k, o) = At(f, n, k, o)
      /\ \A n : Contained(h, n) <=> Contained(f, n)
  BY <1>1 DEF Row, At, Contained, Block
<1>6. ASSUME NEW up, NEW x, Tree(f, up, x) PROVE Tree(h, up, x)
  <2>1. \A d, k, o : Fits(f, up, x, d, k, o) => Fits(h, up, x, d, k, o)
    BY <1>2, <1>5 DEF Fits
  <2>2. \A d, n : Named(f, d, n) => Named(h, d, n)
    BY <1>5 DEF Named
  <2>3. \A d \in Live(h) : \A j, q, k, o :
           /\ Row(h, d, j, q) /\ IsEntry(q) /\ Row(h, d, k, o) /\ IsEntry(o)
           /\ At(h, d, j, q).inode = At(h, d, k, o).inode
           => j = k /\ q = o
    BY <1>2, <1>5, <1>6 DEF Tree
  <2> QED BY <1>1, <1>2, <1>5, <1>6, <2>1, <2>2, <2>3 DEF Tree
<1>7. Distinct(f) => Distinct(h)
  BY <1>2, <1>5 DEF Distinct
<1>8. \A up : Ranked(f, up) => Ranked(h, up)
  BY <1>2 DEF Ranked, Ranks
<1> QED BY <1>1, <1>2, <1>3, <1>4, <1>5, <1>6, <1>7, <1>8

\* An entry for inode x, which has none, in the directory it belongs to.
LEMMA AddShape ==
  ASSUME NEW h \in FS, Sound(h), h.failed = "none", Held(h),
         NEW up, NEW x \in Live(h) \ {ROOT_INODE}, h.mode[x] # "none", Tree(h, up, x),
         NEW n \in Live(h), h.mode[n] = "dir", up[x] = n,
         NEW name \in D!FileName, ~IsDot(name),
         h.defects = {} => /\ Distinct(h) /\ Ranked(h, up)
                           /\ \A k, o : Row(h, n, k, o) => At(h, n, k, o).name # name,
         NEW g, g = add_entry_to_inode(h, n, name, x), g.failed = "none"
  PROVE  Shape(g)
<1>1. n \in A!Inode /\ x \in A!Inode /\ h.mode[n] # "none"
  BY LiveFacts
<1>2. /\ g \in FS /\ g.mode = h.mode /\ g.inode_bitmap = h.inode_bitmap /\ g.defects = h.defects
      /\ Held(g) /\ Adds(h, g, n, name, x)
      /\ \A d \in Live(h) \ {n} : SameRows(h, g, d)
  <2>1. /\ g \in FS /\ g.mode = h.mode /\ g.inode_bitmap = h.inode_bitmap
        /\ g.defects = IF h.mode[n] = "file" THEN h.defects \cup {"file_as_dir"} ELSE h.defects
        /\ g.failed = "none" =>
              /\ Sound(g)
              /\ Held(h) /\ n \in Live(h) /\ h.mode[n] = "dir" =>
                   /\ Held(g) /\ Adds(h, g, n, name, x)
                   /\ \A d \in Live(h) \ {n} : SameRows(h, g, d)
    <3>1. /\ h \in FS /\ Sound(h) /\ h.failed = "none" /\ n \in A!Inode /\ h.mode[n] # "none"
          /\ name \in D!FileName /\ x \in A!Inode /\ h.mode[x] # "none"
          /\ g = add_entry_to_inode(h, n, name, x)
      BY <1>1
    <3> QED BY ONLY <3>1, AddEffect
  <2> QED BY <2>1
<1>3. Live(g) = Live(h)
  BY <1>2 DEF Live, LiveIn
<1>4. /\ Tree(g, up, 0)
      /\ Distinct(h) /\ (\A k, o : Row(h, n, k, o) => At(h, n, k, o).name # name) => Distinct(g)
      /\ Ranked(h, up) => Ranked(g, up)
  BY <1>2, <1>3, TreeAdd
<1>5. Shaped(g, up)
  BY <1>2, <1>4 DEF Shaped
<1> QED BY <1>2, <1>5 DEF Shape

\* In the tree a name that is not found is not a dot.
LEMMA NewName ==
  ASSUME NEW f \in FS, Sound(f), NEW n \in A!Inode, f.mode[n] = "dir",
         NEW name \in D!FileName, Lookup(f, n, name) = 0
  PROVE  ~IsDot(name) /\ \A k, o : Row(f, n, k, o) => At(f, n, k, o).name # name
<1>1. 1 \in DOMAIN f.i_block[n] /\ f.i_block[n] # <<>> /\ Readable(f, n)
  BY BlockLists, LookupFacts DEF Sound
<1>2. Row(f, n, 1, 0) /\ Row(f, n, 1, 12)
  BY <1>1, DotRows, ReadableBlocks
<1>3. At(f, n, 1, 0).inode \in A!Inode /\ At(f, n, 1, 12).inode \in A!Inode
  BY <1>2, RowFacts
<1>4. Lookup(f, n, Dot) # 0 /\ Lookup(f, n, DotDot) # 0
  BY <1>1, <1>3, LookupFacts, LayoutFacts
<1>5. ~IsDot(name)
  BY <1>4 DEF IsDot
<1> QED BY <1>5, LookupFacts

\* A path from the root stays among the live inodes.
LEMMA TreeClosed ==
  ASSUME NEW f, NEW up, Tree(f, up, 0)
  PROVE  Closed(f, Live(f))
<1>1. Live(f) \subseteq A!Inode /\ ROOT_INODE \in Live(f) /\ 0 \notin Live(f)
  BY LiveFacts, LayoutFacts
<1>2. ASSUME NEW n \in Live(f), NEW k, NEW o, Row(f, n, k, o)
      PROVE  At(f, n, k, o).inode \in Live(f)
  <2>1. Fits(f, up, 0, n, k, o)
    BY <1>2 DEF Tree
  <2>2. up[n] \in Live(f)
    BY <1>1 DEF Tree
  <2> QED BY <2>1, <2>2 DEF Fits, IsEntry
<1> QED BY <1>1, <1>2 DEF Closed

\* What has an entry is a directory.
LEMMA WithRows ==
  ASSUME NEW f, NEW up, NEW x, Tree(f, up, x), NEW n \in Live(f), NEW k, NEW o, Row(f, n, k, o)
  PROVE  f.mode[n] = "dir"
BY OnlyDirsHold

\* Where a path leads.
LEMMA WalkTo ==
  ASSUME NEW f \in FS, Sound(f), NEW path \in NamePath, NEW w, w = Walk(f, path)
  PROVE  /\ w.idx \in A!Inode \cup {0, Lost} /\ w.father \in A!Inode \cup {0}
         /\ Lost \notin A!Inode \cup {0}
         /\ w.idx = Lost => w.father \in A!Inode /\ f.mode[w.father] # "none" /\ ~Readable(f, w.father)
         /\ w.idx \notin {0, Lost} =>
              /\ f.mode[w.idx] # "none"
              /\ \/ w.idx = ROOT_INODE /\ w.father = 0
                 \/ w.father # 0 /\ \E k, o : Row(f, w.father, k, o) /\ At(f, w.father, k, o).inode = w.idx
         /\ \A up : Tree(f, up, 0) =>
              /\ w.idx \notin {0, Lost} => w.idx \in Live(f)
              /\ w.father # 0 => w.father \in Live(f)
              /\ w.idx \notin {0, Lost} /\ w.father # 0 => f.mode[w.father] = "dir"
<1>1. Closed(f, A!Inode)
  BY RowFacts, LayoutFacts DEF Closed
<1>2. Walked(f, A!Inode, w)
  BY <1>1, WalkFacts
<1>3. ASSUME NEW up, Tree(f, up, 0)
      PROVE  /\ w.idx \notin {0, Lost} => w.idx \in Live(f)
             /\ w.father # 0 => w.father \in Live(f)
             /\ w.idx \notin {0, Lost} /\ w.father # 0 => f.mode[w.father] = "dir"
  <2>1. Walked(f, Live(f), w)
    BY <1>3, TreeClosed, WalkFacts
  <2>2. /\ w.idx \notin {0, Lost} => w.idx \in Live(f)
        /\ w.father # 0 => w.father \in Live(f)
    BY <2>1 DEF Walked
  <2>3. ASSUME w.idx \notin {0, Lost}, w.father # 0 PROVE f.mode[w.father] = "dir"
    <3>1. \E k, o : Row(f, w.father, k, o)
      BY <1>2, <2>3, LayoutFacts DEF Walked
    <3> QED BY <1>3, <2>2, <2>3, <3>1, WithRows
  <2> QED BY <2>2, <2>3
<1>4. Lost \notin A!Inode \cup {0}
  BY LayoutFacts DEF Lost
<1> QED BY <1>2, <1>3, <1>4 DEF Walked

-------------------------------------------------------------------------------
(* Init *)

\* The initial state: the root alone, with its dots.
LEMMA InitGood == Init => IInv
<1> SUFFICES ASSUME Init PROVE IInv
  OBVIOUS
<1> DEFINE r == A!RootBlock
           fresh == D!init_entry_block(ROOT_INODE, ROOT_INODE)
           bb == [i \in A!Group |-> IF i = 0 THEN 0 .. reserved ELSE 0 .. reserved - 1]
           ib == [i \in A!Group |-> IF i = 0 THEN {2} \cap A!InodeBit ELSE {}]
           one == <<r>>
           ibl == [n \in A!Inode |-> IF n = ROOT_INODE THEN one ELSE <<>>]
           md == [n \in A!Inode |-> IF n = ROOT_INODE THEN "dir" ELSE "none"]
           dt == [b \in A!DataBlock |-> IF b = r THEN fresh ELSE Bytes]
<1>1. /\ fs = [block_bitmap |-> bb, inode_bitmap |-> ib, i_block |-> ibl, mode |-> md,
               data |-> dt, failed |-> "none", defects |-> {}]
      /\ ret = 0
  BY DEF Init
<1>2. ROOT_INODE \in A!Inode /\ 0 \in A!Group /\ s_first_ino > 3 /\ s_first_ino \in Nat
      /\ s_first_ino > ROOT_INODE
  BY LayoutFacts, NamespaceAssumption DEF A!Layout, A!Group
<1>3. /\ reserved \in Nat /\ reserved - 1 \in Int /\ reserved \in A!BlockBit
      /\ 0 .. reserved \subseteq A!BlockBit /\ 0 .. reserved - 1 \subseteq 0 .. reserved
  BY NamespaceAssumption DEF A!BlockBit, A!Layout
<1>4. r \in A!DataBlock /\ A!GroupOf(r) = 0 /\ A!Offset(r) = reserved
  <2>1. reserved \in reserved .. blocks_per_group - 1
    BY NamespaceAssumption DEF A!Layout
  <2>2. r \in A!DataBlock
    BY <1>2, <2>1 DEF A!DataBlock, A!RootBlock
  <2>3. /\ AP!GroupOf(AP!get_group_index(0) + reserved) = 0
        /\ AP!Offset(AP!get_group_index(0) + reserved) = reserved
    BY <1>2, <1>3, AP!BlockAddress, LayoutFacts, SameAllocator
  <2>4. AP!GroupOf(r) = A!GroupOf(r) /\ AP!Offset(r) = A!Offset(r)
        /\ r = AP!get_group_index(0) + reserved
    BY DEF AP!GroupOf, A!GroupOf, AP!Offset, A!Offset, A!RootBlock, AP!get_group_index, A!get_group_index
  <2> QED BY <2>2, <2>3, <2>4
<1>5. /\ Wf(fresh) /\ DOMAIN fresh = {0, 12} /\ fresh[0].inode = ROOT_INODE
      /\ fresh[12].inode = ROOT_INODE /\ fresh[0].name = Dot /\ fresh[12].name = DotDot
      /\ fresh \in BlockData /\ fresh # Bytes
  BY <1>2, FreshData, WfFacts
<1>6. one \in BlockList /\ DOMAIN one = {1} /\ one[1] = r /\ one # <<>>
  <2>1. one \in Seq(A!DataBlock) /\ Len(one) = 1 /\ 1 <= EXT2_DIRECT_BLOCKS
    BY <1>4, LayoutFacts
  <2>2. DOMAIN one = {1} /\ one[1] = r /\ one # <<>>
    OBVIOUS
  <2> QED BY <2>1, <2>2 DEF BlockList
<1>6a. <<>> \in BlockList
  <2> DEFINE none == <<>>
  <2>1. none \in Seq(A!DataBlock) /\ Len(none) = 0 /\ 0 <= EXT2_DIRECT_BLOCKS
    BY LayoutFacts
  <2> HIDE DEF none
  <2>2. none \in BlockList
    BY <2>1 DEF BlockList
  <2> QED BY <2>2 DEF none
<1> HIDE DEF r, fresh, one
<1>7. /\ bb \in [A!Group -> SUBSET A!BlockBit] /\ ib \in [A!Group -> SUBSET A!InodeBit]
      /\ Marked(bb) /\ InUse(bb, r)
  BY <1>2, <1>3, <1>4 DEF Marked, InUse
<1>8. /\ ibl \in [A!Inode -> BlockList] /\ md \in [A!Inode -> {"none", "file", "dir"}]
      /\ dt \in [A!DataBlock -> BlockData]
      /\ ibl[ROOT_INODE] = one /\ \A n \in A!Inode : n # ROOT_INODE => ibl[n] = <<>>
      /\ md[ROOT_INODE] = "dir" /\ \A n \in A!Inode : n # ROOT_INODE => md[n] = "none"
      /\ dt[r] = fresh /\ \A b \in A!DataBlock : b # r => dt[b] = Bytes
  BY <1>2, <1>4, <1>5, <1>6, <1>6a, BytesData
<1>9. \A n \in A!Inode : A!InodeIndex(n) \in ib[A!InodeGroup(n)] => n < s_first_ino
  <2> SUFFICES ASSUME NEW n \in A!Inode, A!InodeIndex(n) \in ib[A!InodeGroup(n)]
               PROVE  n = 3
    BY <1>2
  <2>1. /\ AP!InodeGroup(n) \in AP!Group
        /\ n = AP!InodeGroup(n) * inodes_per_group + AP!InodeIndex(n) + 1
    BY AP!InodeAddress, LayoutFacts, SameAllocator
  <2>2. AP!InodeGroup(n) = A!InodeGroup(n) /\ AP!InodeIndex(n) = A!InodeIndex(n)
    BY DEF AP!InodeGroup, A!InodeGroup, AP!InodeIndex, A!InodeIndex
  <2>3. A!InodeGroup(n) = 0 /\ A!InodeIndex(n) = 2
    BY <2>1, <2>2, SameAllocator
  <2> QED BY <2>1, <2>2, <2>3, LayoutFacts
<1> HIDE DEF bb, ib, ibl, md, dt
<1>10. fs \in FS /\ fs.failed = "none" /\ fs.defects = {} /\ fs.block_bitmap = bb
       /\ fs.inode_bitmap = ib /\ fs.i_block = ibl /\ fs.mode = md /\ fs.data = dt
  BY <1>1, <1>7, <1>8 DEF FS, Reason
<1>11. Live(fs) = {ROOT_INODE}
  <2>1. \A n \in A!Inode : n \in Nat
    BY LayoutFacts
  <2>2. \A n \in A!Inode : LiveIn(fs, n) <=> n = ROOT_INODE
    BY <1>2, <1>9, <1>10, <2>1 DEF LiveIn
  <2> QED BY <1>2, <2>2 DEF Live
<1>12. Sound(fs)
  <2>1. Written(fs)
    BY <1>2, <1>5, <1>8, <1>10, BytesData DEF Written
  <2> QED BY <1>2, <1>6, <1>7, <1>8, <1>10, <2>1 DEF Sound
<1>13. Held(fs)
  BY <1>6, <1>7, <1>8, <1>10, <1>11 DEF Held
<1>14. \A k, o : Row(fs, ROOT_INODE, k, o) => /\ k = 1 /\ o \in {0, 12}
                                              /\ At(fs, ROOT_INODE, k, o) = fresh[o]
  BY <1>6, <1>8, <1>10, <1>5 DEF Row, At, Block
<1> DEFINE up == [n \in A!Inode |-> ROOT_INODE]
           rank == [n \in A!Inode |-> 0]
<1>15. Tree(fs, up, 0)
  <2>1. up \in [A!Inode -> A!Inode] /\ up[ROOT_INODE] = ROOT_INODE
    BY <1>2
  <2> HIDE DEF up
  <2>2. \A d \in Live(fs) : \A k, o : Row(fs, d, k, o) => Fits(fs, up, 0, d, k, o)
    BY <1>5, <1>11, <1>14, <2>1, NameFacts DEF Fits, IsEntry
  <2>3. \A d \in Live(fs) : Contained(fs, d)
    BY <1>5, <1>6, <1>8, <1>10, <1>11 DEF Contained, Block
  <2>4. \A d \in Live(fs) : \A k, o : Row(fs, d, k, o) => ~IsEntry(o)
    BY <1>11, <1>14 DEF IsEntry
  <2> QED BY <1>11, <2>1, <2>2, <2>3, <2>4 DEF Tree
<1>16. Distinct(fs)
  BY <1>11, <1>14 DEF Distinct, IsEntry
<1>17. Ranks(fs, up, rank)
  BY <1>2, <1>11 DEF Ranks
<1>18. Shaped(fs, up)
  <2> HIDE DEF up, rank
  <2> QED BY <1>15, <1>16, <1>17 DEF Shaped, Ranked
<1>19. Good(fs)
  BY <1>10, <1>12, <1>13, <1>18 DEF Good, Shape
<1> QED BY <1>1, <1>19 DEF IInv

-------------------------------------------------------------------------------
(* mkdir *)

\* Where the loop of mkdir_from_root is.
Making == {m \in [f : FS, idx : A!Inode, ret : {-1, 0}] :
             /\ Good(m.f)
             /\ m.f.failed = "none" => /\ m.f.mode[m.idx] = "dir"
                                       /\ Calm(m.f) => m.idx \in Live(m.f)}

\* find_dir_from_inode with creat, one component of mkdir.
LEMMA MakeDirGood ==
  ASSUME NEW f, Good(f), f.failed = "none", NEW n \in A!Inode, f.mode[n] = "dir",
         Calm(f) => n \in Live(f), NEW name \in D!FileName, Lookup(f, n, name) = 0,
         NEW id, id = A!ialloc(f.inode_bitmap), id # 0,
         NEW g, g = MakeDir(f, n, name)
  PROVE  /\ Good(g) /\ id \in A!Inode
         /\ g.failed = "none" => g.mode[id] = "dir" /\ (Calm(g) => id \in Live(g))
<1> DEFINE b == A!ballocs(f.block_bitmap, id \div inodes_per_group)
           h == DirMade(f, id, n, b)
<1>1. g = IF b = A!EXT2M_I_BLOCK_END THEN Stop(f, "ballocs") ELSE add_entry_to_inode(h, n, name, id)
  BY DEF MakeDir, DirMade
<1>2. f \in FS /\ Sound(f) /\ (Calm(f) => Shape(f))
  BY DEF Good
<1>3. id \in A!Inode
  BY <1>2, BornFacts
<1>4. CASE b = A!EXT2M_I_BLOCK_END
  <2>1. Good(g)
    BY <1>1, <1>4, StopGood DEF Reason
  <2>2. g.failed = "ballocs"
    BY <1>1, <1>2, <1>4 DEF Stop, FS
  <2> QED BY <1>3, <2>1, <2>2
<1>5. CASE b # A!EXT2M_I_BLOCK_END
  <2>1. /\ h \in FS /\ Sound(h) /\ h.failed = "none" /\ h.defects = f.defects
        /\ h.mode[id] = "dir" /\ DOMAIN h.i_block[id] = {1}
        /\ Block(h, id, 1) = D!init_entry_block(id, n)
        /\ \A d \in A!Inode : d # id => h.mode[d] = f.mode[d]
        /\ \A d \in A!Inode : Readable(f, d) => Readable(h, d)
        /\ id \in A!Inode \ Live(f) /\ id # ROOT_INODE /\ Live(h) = Live(f) \cup {id}
        /\ Held(f) => Held(h) /\ Born(f, h, id)
    <3>1. f.mode[n] # "none"
      OBVIOUS
    <3> QED BY <1>2, <1>5, <3>1, NewDir
  <2> HIDE DEF h
  <2>2. g = add_entry_to_inode(h, n, name, id)
    BY <1>1, <1>5
  <2>3. h.mode[n] = "dir" /\ Readable(h, n)
    BY <1>2, <2>1, LookupFacts
  <2>4. /\ g \in FS
        /\ g.failed \in {"none", "ballocs", "outgrown", "astray", "file_walked"}
        /\ g.failed = "astray" => ~Readable(h, n)
        /\ g.mode = h.mode /\ g.inode_bitmap = h.inode_bitmap
        /\ g.defects = IF h.mode[n] = "file" THEN h.defects \cup {"file_as_dir"} ELSE h.defects
        /\ g.failed = "none" => Sound(g)
    <3>1. /\ h \in FS /\ Sound(h) /\ h.failed = "none" /\ n \in A!Inode /\ h.mode[n] # "none"
          /\ name \in D!FileName /\ id \in A!Inode /\ h.mode[id] # "none"
          /\ g = add_entry_to_inode(h, n, name, id)
      BY <1>3, <2>1, <2>2, <2>3
    <3> QED BY ONLY <3>1, AddEffect
  <2>5. g.defects = f.defects /\ g.failed # "astray"
    BY <2>1, <2>3, <2>4
  <2>6. ASSUME g.failed = "none", Calm(g) PROVE Shape(g)
    <3>1. Calm(f) /\ n \in Live(f) /\ Held(f)
      BY <1>2, <2>5, <2>6 DEF Calm, Shape
    <3>2. PICK up : Shaped(f, up)
      BY <1>2, <3>1 DEF Shape
    <3> DEFINE up2 == [up EXCEPT ![id] = n]
    <3>3. Tree(f, up, 0) /\ (f.defects = {} => Distinct(f) /\ Ranked(f, up))
      BY <3>2 DEF Shaped
    <3>4. Held(h) /\ Born(f, h, id)
      BY <2>1, <3>1
    <3>5. /\ Tree(h, up2, id)
          /\ Distinct(f) => Distinct(h)
          /\ Ranked(f, up) => Ranked(h, up2)
      BY <1>2, <2>1, <3>1, <3>3, <3>4, TreeBorn
    <3>6. up2[id] = n
      BY <1>3, <3>3 DEF Tree
    <3> HIDE DEF up2
    <3>7. ~IsDot(name) /\ \A k, o : Row(f, n, k, o) => At(f, n, k, o).name # name
      BY <1>2, NewName
    <3>8. \A k, o : Row(h, n, k, o) => At(h, n, k, o).name # name
      BY <3>1, <3>4, <3>7, SameRowFacts DEF Born
    <3>9. h.defects = {} => /\ Distinct(h) /\ Ranked(h, up2)
                            /\ \A k, o : Row(h, n, k, o) => At(h, n, k, o).name # name
      BY <2>1, <3>3, <3>5, <3>8
    <3>10. /\ h \in FS /\ Sound(h) /\ h.failed = "none" /\ Held(h)
           /\ id \in Live(h) \ {ROOT_INODE} /\ h.mode[id] # "none" /\ Tree(h, up2, id)
           /\ n \in Live(h) /\ h.mode[n] = "dir" /\ up2[id] = n
           /\ name \in D!FileName /\ ~IsDot(name)
           /\ g = add_entry_to_inode(h, n, name, id) /\ g.failed = "none"
      BY <2>1, <2>2, <2>3, <2>6, <3>1, <3>4, <3>5, <3>6, <3>7
    <3> QED BY ONLY <3>9, <3>10, AddShape
  <2>7. Good(g)
    BY <2>4, <2>5, <2>6 DEF Good
  <2>8. Live(g) = Live(h)
    BY <2>4 DEF Live, LiveIn
  <2> QED BY <1>3, <2>1, <2>4, <2>7, <2>8
<1> QED BY <1>4, <1>5

\* mkdir: the loop over the components stays in Making.
LEMMA MkdirGood ==
  ASSUME IInv, NEW path \in NamePath, mkdir_from_root(path)
  PROVE  IInv'
<1> DEFINE n == Len(path)
           start == [f |-> fs, idx |-> ROOT_INODE, ret |-> 0]
           op(m, name) ==
             IF m.ret = -1 \/ m.f.failed # "none" THEN m
             ELSE IF Lookup(m.f, m.idx, name) = Lost THEN [m EXCEPT !.f = Stray(@, m.idx)]
             ELSE IF Lookup(m.f, m.idx, name) # 0 \/ A!ialloc(m.f.inode_bitmap) = 0
             THEN [m EXCEPT !.ret = -1]
             ELSE [m EXCEPT !.f = MakeDir(@, m.idx, name), !.idx = A!ialloc(m.f.inode_bitmap)]
           step == [mi \in Making \X (1 .. n) |-> op(mi[1], path[mi[2]])]
           F(g) == g = [s \in SUBSET (1 .. n) |-> IF s = {} THEN start
                                                  ELSE op(g[s \ {Max(s)}], path[Max(s)])]
           iter == CHOOSE g : F(g)
           end == iter[1 .. n]
<1>1. n \in Nat /\ DOMAIN path = 1 .. n /\ \A i \in 1 .. n : path[i] \in D!FileName
  BY LenProperties DEF NamePath
<1>2. fs.failed = "none" /\ fs' = end.f /\ ret' = end.ret
  BY <1>1 DEF mkdir_from_root, Running, FoldLeft, MapThenFoldSet
<1> HIDE DEF n
<1>3. start \in Making
  <2>1. fs \in FS /\ Good(fs) /\ Sound(fs)
    BY <1>2 DEF IInv, Good
  <2> QED BY <2>1, LayoutFacts, LiveFacts DEF Making, Sound
<1>4. step \in [Making \X (1 .. n) -> Making]
  <2>1. ASSUME NEW m \in Making, NEW name \in D!FileName PROVE op(m, name) \in Making
    <3> DEFINE id == A!ialloc(m.f.inode_bitmap)
               g == MakeDir(m.f, m.idx, name)
    <3>1. m \in [f : FS, idx : A!Inode, ret : {-1, 0}] /\ Good(m.f)
          /\ (m.f.failed = "none" => m.f.mode[m.idx] = "dir" /\ (Calm(m.f) => m.idx \in Live(m.f)))
      BY DEF Making
    <3>2. CASE m.ret = -1 \/ m.f.failed # "none"
      BY <3>2
    <3>a. CASE /\ ~(m.ret = -1 \/ m.f.failed # "none")
               /\ Lookup(m.f, m.idx, name) = Lost
      <4> DEFINE s == Stray(m.f, m.idx)
      <4>1. op(m, name) = [m EXCEPT !.f = s]
        BY <3>1, <3>a
      <4>2. ~Readable(m.f, m.idx)
        BY <3>1, <3>a, LookupFacts DEF Good
      <4>3. ~Calm(m.f)
        <5> SUFFICES ASSUME Calm(m.f) PROVE FALSE
          OBVIOUS
        <5>1. PICK up : Tree(m.f, up, 0)
          BY <3>1, <3>a DEF Good, Shape, Shaped
        <5> QED BY <3>1, <3>a, <4>2, <5>1, OnlyDirsHold
      <4>4. Good(s) /\ s.failed # "none"
        <5>1. s = Stop(m.f, "astray")
          BY <3>1, <3>a DEF Stray
        <5>2. Good(s)
          BY <3>1, <4>3, <5>1, StopGood DEF Reason
        <5>3. s.failed = "astray"
          BY <3>1, <5>1 DEF Stop, FS
        <5> QED BY <5>2, <5>3
      <4> HIDE DEF op, s
      <4>5. s \in FS
        BY <4>4 DEF Good
      <4> QED BY <3>1, <4>1, <4>4, <4>5 DEF Making
    <3>3. CASE /\ ~(m.ret = -1 \/ m.f.failed # "none")
               /\ Lookup(m.f, m.idx, name) # Lost
               /\ Lookup(m.f, m.idx, name) # 0 \/ id = 0
      <4>1. op(m, name) = [m EXCEPT !.ret = -1]
        BY <3>3
      <4> HIDE DEF op
      <4> QED BY <3>1, <4>1 DEF Making
    <3>4. CASE /\ ~(m.ret = -1 \/ m.f.failed # "none")
               /\ ~(Lookup(m.f, m.idx, name) # 0 \/ id = 0)
      <4>1. op(m, name) = [m EXCEPT !.f = g, !.idx = id]
        BY <3>1, <3>4 DEF Lost
      <4>2. /\ Good(g) /\ id \in A!Inode
            /\ g.failed = "none" => g.mode[id] = "dir" /\ (Calm(g) => id \in Live(g))
        BY <3>1, <3>4, MakeDirGood
      <4> HIDE DEF op, g, id
      <4>3. g \in FS
        BY <4>2 DEF Good
      <4> QED BY <3>1, <4>1, <4>2, <4>3 DEF Making
    <3> QED BY <3>2, <3>a, <3>3, <3>4
  <2>2. \A mi \in Making \X (1 .. n) : mi[1] \in Making /\ mi[2] \in 1 .. n
    OBVIOUS
  <2> HIDE DEF op
  <2> QED BY <1>1, <2>1, <2>2
<1> HIDE DEF start, op
<1>5. ASSUME NEW s \in SUBSET (1 .. n), s # {} PROVE Max(s) \in 1 .. n
  <2>1. s \in SUBSET Nat /\ \A y \in s : y <= n
    BY <1>1
  <2>2. Max(s) \in s
    BY <1>1, <1>5, <2>1, MaxIsGreatest
  <2> QED BY <2>2
<1>6. F(iter)
  <2>1. PICK g \in [SUBSET (1 .. n) -> Making] : PrefixStep(g, start, step, n)
    <3> HIDE DEF step
    <3> QED BY <1>1, <1>3, <1>4, PrefixRecursion
  <2>2. F(g)
    <3>1. ASSUME NEW s \in SUBSET (1 .. n), s # {}
          PROVE  step[<<g[s \ {Max(s)}], Max(s)>>] = op(g[s \ {Max(s)}], path[Max(s)])
      <4>1. Max(s) \in 1 .. n /\ g[s \ {Max(s)}] \in Making
        BY <1>5, <3>1
      <4> QED BY <4>1
    <3> HIDE DEF step
    <3> QED BY <2>1, <3>1 DEF PrefixStep
  <2> HIDE DEF F
  <2> QED BY <2>2
<1> HIDE DEF iter
<1>7. SetSteps(iter, Making, start, step, n)
  <2>1. {} \in SUBSET (1 .. n)
    OBVIOUS
  <2>2. iter[{}] = start
    BY <1>6, <2>1
  <2>3. ASSUME NEW s \in (SUBSET (1 .. n)) \ {{}}, iter[s \ {Max(s)}] \in Making
        PROVE  iter[s] = step[<<iter[s \ {Max(s)}], Max(s)>>]
    <3>1. Max(s) \in 1 .. n /\ iter[s] = op(iter[s \ {Max(s)}], path[Max(s)])
      BY <1>5, <1>6, <2>3
    <3> QED BY <2>3, <3>1
  <2> QED BY <2>2, <2>3 DEF SetSteps
<1>8. \E g : Stepwise(g, Making, start, step, n) /\ EndsAs(iter, g, n)
  <2> HIDE DEF step, F
  <2> QED BY <1>1, <1>3, <1>4, <1>7, PrefixValues
<1>9. end \in Making
  <2>1. PICK g : Stepwise(g, Making, start, step, n) /\ EndsAs(iter, g, n)
    BY <1>8
  <2>2. n \in 0 .. n /\ g \in [0 .. n -> Making]
    BY <1>1, <2>1 DEF Stepwise
  <2> QED BY <2>1, <2>2 DEF EndsAs
<1> HIDE DEF end
<1> QED BY <1>2, <1>9 DEF Making, IInv, Good

-------------------------------------------------------------------------------
(* The other handlers *)

\* A handler that returns, one that aborts, one that is done.
LEMMA ReturnInv == ASSUME IInv, NEW r \in {-1, 0}, Return(r) PROVE IInv'
BY DEF IInv, Return

LEMMA AbortInv ==
  ASSUME IInv, NEW why \in Reason \ {"none"},
         why \in {"astray", "not_self", "no_entry"} => ~Calm(fs),
         Abort(why)
  PROVE  IInv'
BY StopGood DEF IInv, Abort

\* One that meets a block without entries, in what it lists or on its path.
LEMMA AstrayInv ==
  ASSUME IInv, fs.failed = "none", NEW n \in A!Inode, fs.mode[n] # "none", ~Readable(fs, n),
         \A up : Tree(fs, up, 0) => n \in Live(fs), Astray(n)
  PROVE  IInv'
BY StrayGood DEF IInv, Astray

LEMMA LostInv ==
  ASSUME IInv, fs.failed = "none", NEW path \in NamePath, Walk(fs, path).idx = Lost,
         Astray(Walk(fs, path).father)
  PROVE  IInv'
<1> DEFINE w == Walk(fs, path)
<1>1. fs \in FS /\ Sound(fs)
  BY DEF IInv, Good
<1>2. /\ w.father \in A!Inode /\ fs.mode[w.father] # "none" /\ ~Readable(fs, w.father)
      /\ \A up : Tree(fs, up, 0) => w.father \in Live(fs)
  BY <1>1, WalkTo, LayoutFacts
<1> HIDE DEF w
<1>3. Astray(w.father)
  BY DEF w
<1> QED BY <1>2, <1>3, AstrayInv

LEMMA DoneInv == ASSUME NEW f, Good(f), Done(f) PROVE IInv'
BY DEF IInv, Done

\* What split makes of a path with a name.
LEMMA FrontPath ==
  ASSUME NEW path \in NamePath, path # <<>>
  PROVE  Front(path) \in NamePath /\ Last(path) \in D!FileName
<1>1. path \in Seq(D!FileName) /\ Len(path) \in Nat /\ Len(path) > 0
  BY LenProperties, EmptySeq DEF NamePath
<1>2. Last(path) \in D!FileName
  <2>1. Len(path) \in 1 .. Len(path)
    BY <1>1
  <2>2. path[Len(path)] \in D!FileName
    BY <1>1, <2>1, ElementOfSeq
  <2> QED BY <2>2 DEF Last
<1>3. Front(path) \in Seq(D!FileName)
  BY <1>1, SubSeqProperties DEF Front
<1> QED BY <1>2, <1>3 DEF NamePath

\* create.
LEMMA CreateGood ==
  ASSUME IInv, NEW path \in NamePath, create_file_from_root(path)
  PROVE  IInv'
<1> DEFINE w == Walk(fs, Front(path))
           dir == w.idx
           id == A!ialloc(fs.inode_bitmap)
           name == Last(path)
           h == FileMade(fs, id)
           g == add_entry_to_inode(h, dir, name, id)
<1>1. /\ fs.failed = "none"
      /\ IF path = <<>> THEN Abort("no_name")
         ELSE IF dir = Lost THEN Astray(w.father)
         ELSE IF dir = 0 THEN Return(-1)
         ELSE IF Lookup(fs, dir, name) = Lost THEN Astray(dir)
         ELSE IF Lookup(fs, dir, name) # 0 \/ id = 0 THEN Return(-1)
         ELSE Done(g)
  BY DEF create_file_from_root, Running, FileMade
<1>2. fs \in FS /\ Good(fs) /\ Sound(fs) /\ (Calm(fs) => Shape(fs))
  BY <1>1 DEF IInv, Good
<1>3. CASE path = <<>>
  BY <1>1, <1>3, AbortInv DEF Reason
<1>4. CASE Return(-1)
  BY <1>4, ReturnInv
<1>6. CASE path # <<>> /\ dir = Lost
  <2>1. Astray(w.father) /\ Front(path) \in NamePath
    BY <1>1, <1>6, FrontPath
  <2> QED BY <1>1, <1>6, <2>1, LostInv
<1>7. ASSUME path # <<>>, dir \notin {0, Lost}
      PROVE  /\ name \in D!FileName
             /\ dir \in A!Inode /\ fs.mode[dir] # "none"
             /\ \A up : Tree(fs, up, 0) => dir \in Live(fs)
  <2>1. Front(path) \in NamePath /\ name \in D!FileName
    BY <1>7, FrontPath
  <2> QED BY <1>2, <1>7, <2>1, WalkTo
<1>8. CASE path # <<>> /\ dir \notin {0, Lost} /\ Lookup(fs, dir, name) = Lost
  <2> HIDE DEF w, dir, name
  <2>1. Astray(dir) /\ ~Readable(fs, dir)
    BY <1>1, <1>2, <1>7, <1>8, LookupFacts
  <2> QED BY <1>1, <1>7, <1>8, <2>1, AstrayInv
<1>5. CASE path # <<>> /\ dir \notin {0, Lost} /\ id # 0 /\ Lookup(fs, dir, name) = 0
  <2> HIDE DEF w, dir, name
  <2>1. Done(g)
    BY <1>1, <1>5 DEF Lost
  <2>2. name \in D!FileName
    BY <1>5, <1>7
  <2>3. /\ dir \in A!Inode /\ fs.mode[dir] # "none"
        /\ \A up : Tree(fs, up, 0) => dir \in Live(fs)
    BY <1>5, <1>7
  <2>4. /\ h \in FS /\ Sound(h) /\ h.failed = "none" /\ h.defects = fs.defects
        /\ Born(fs, h, id) /\ h.mode[id] = "file" /\ h.i_block[id] = <<>>
        /\ \A d \in A!Inode : d # id => h.mode[d] = fs.mode[d]
        /\ \A d \in A!Inode : Readable(fs, d) => Readable(h, d)
        /\ Held(fs) => Held(h)
    <3>1. fs \in FS /\ Sound(fs) /\ fs.failed = "none" /\ id = A!ialloc(fs.inode_bitmap) /\ id # 0
          /\ h = FileMade(fs, id)
      BY <1>1, <1>2, <1>5
    <3> QED BY ONLY <3>1, NewFile
  <2> HIDE DEF h, id, g
  <2>5. id \in A!Inode \ Live(fs) /\ id # ROOT_INODE /\ Live(h) = Live(fs) \cup {id}
    BY <2>4 DEF Born
  <2>6. h.mode[dir] # "none" /\ (h.mode[dir] # "file" => dir # id /\ h.mode[dir] = fs.mode[dir])
    BY <2>3, <2>4
  <2>a. Readable(h, dir)
    BY <1>2, <1>5, <2>3, <2>4, LookupFacts
  <2>7. /\ g \in FS
        /\ g.failed \in {"none", "ballocs", "outgrown", "file_walked"}
        /\ g.defects = IF h.mode[dir] = "file" THEN h.defects \cup {"file_as_dir"} ELSE h.defects
        /\ g.failed = "none" => Sound(g)
    <3>2. /\ g \in FS
          /\ g.failed \in {"none", "ballocs", "outgrown", "astray", "file_walked"}
          /\ g.failed = "astray" => ~Readable(h, dir) /\ h.mode[dir] # "file"
          /\ g.defects = IF h.mode[dir] = "file" THEN h.defects \cup {"file_as_dir"} ELSE h.defects
          /\ g.failed = "none" => Sound(g)
      <4>1. /\ h \in FS /\ Sound(h) /\ h.failed = "none" /\ dir \in A!Inode /\ h.mode[dir] # "none"
            /\ name \in D!FileName /\ id \in A!Inode /\ h.mode[id] # "none"
            /\ g = add_entry_to_inode(h, dir, name, id)
        BY <2>2, <2>3, <2>4, <2>5, <2>6 DEF g
      <4> QED BY ONLY <4>1, AddEffect
    <3> QED BY <2>a, <3>2
  <2>8. ASSUME g.failed = "none", Calm(g) PROVE Shape(g)
    <3>1. h.mode[dir] # "file" /\ g.defects = fs.defects /\ Calm(fs) /\ Held(fs)
      BY <1>2, <2>4, <2>7, <2>8 DEF Calm, Shape
    <3>2. PICK up : Shaped(fs, up)
      BY <1>2, <3>1 DEF Shape
    <3>3. Tree(fs, up, 0) /\ (fs.defects = {} => Distinct(fs) /\ Ranked(fs, up))
      BY <3>2 DEF Shaped
    <3>4. dir \in Live(fs) /\ fs.mode[dir] = "dir" /\ h.mode[dir] = "dir"
      BY <1>2, <2>3, <2>6, <3>1, <3>3 DEF FS
    <3> DEFINE up2 == [up EXCEPT ![id] = dir]
    <3>5. /\ Tree(h, up2, id)
          /\ Distinct(fs) => Distinct(h)
          /\ Ranked(fs, up) => Ranked(h, up2)
      BY <1>2, <2>4, <3>3, <3>4, TreeBorn
    <3>6. up2[id] = dir
      BY <2>5, <3>3 DEF Tree
    <3> HIDE DEF up2
    <3>7. ~IsDot(name) /\ \A k, o : Row(fs, dir, k, o) => At(fs, dir, k, o).name # name
      BY <1>2, <1>5, <2>2, <2>3, <3>4, NewName DEF dir, name, id
    <3>8. \A k, o : Row(h, dir, k, o) => At(h, dir, k, o).name # name
      BY <2>4, <3>4, <3>7, SameRowFacts DEF Born
    <3>9. h.defects = {} => /\ Distinct(h) /\ Ranked(h, up2)
                            /\ \A k, o : Row(h, dir, k, o) => At(h, dir, k, o).name # name
      BY <2>4, <3>3, <3>5, <3>8
    <3>10. /\ h \in FS /\ Sound(h) /\ h.failed = "none" /\ Held(h)
           /\ id \in Live(h) \ {ROOT_INODE} /\ h.mode[id] # "none" /\ Tree(h, up2, id)
           /\ dir \in Live(h) /\ h.mode[dir] = "dir" /\ up2[id] = dir
           /\ name \in D!FileName /\ ~IsDot(name)
           /\ g = add_entry_to_inode(h, dir, name, id) /\ g.failed = "none"
      BY <2>2, <2>4, <2>5, <2>8, <3>1, <3>4, <3>5, <3>6, <3>7 DEF g
    <3> QED BY ONLY <3>9, <3>10, AddShape
  <2>9. Good(g)
    BY <2>7, <2>8 DEF Good
  <2> QED BY <2>1, <2>9, DoneInv
<1> QED BY <1>1, <1>3, <1>4, <1>5, <1>6, <1>8

\* rmdir and unlink, once they have found that n may go.
LEMMA EraseGood ==
  ASSUME IInv, fs.failed = "none", NEW n \in A!Inode, NEW father \in A!Inode \cup {0},
         Calm(fs) => \A up : Tree(fs, up, 0) =>
                       /\ n \in Live(fs) \ {ROOT_INODE}
                       /\ father # 0 => father = up[n]
                       /\ \A k, o : Row(fs, n, k, o) => ~IsEntry(o),
         Erase(father, n)
  PROVE  IInv'
<1> DEFINE f == free_entry_to_inode(fs, father, n)
           g == ifree(f, n)
<1>1. Done(IF f.failed = "none" THEN g ELSE f)
  BY DEF Erase
<1>2. fs \in FS /\ Good(fs) /\ Sound(fs) /\ (Calm(fs) => Shape(fs))
  BY DEF IInv, Good
<1>3. /\ f \in FS
      /\ f.failed \in {"none", "inode_0", "astray", "file_walked", "no_entry", "dot"}
      /\ f.failed = "astray" => father # 0 /\ ~Readable(fs, father) /\ fs.mode[father] # "file"
      /\ f.mode = fs.mode /\ f.inode_bitmap = fs.inode_bitmap /\ f.defects = fs.defects
      /\ f.failed = "no_entry" => father # 0 /\ \A k, o : Row(fs, father, k, o) => At(fs, father, k, o).inode # n
      /\ f.failed = "none" =>
           /\ father # 0 /\ Sound(f)
           /\ Held(fs) /\ father \in Live(fs) =>
                /\ Held(f) /\ Frees(fs, f, father, n)
                /\ \A d \in Live(fs) \ {father} : SameRows(fs, f, d)
  BY <1>2, FreeEffect
<1> HIDE DEF f
<1>4. ASSUME NEW up, Tree(fs, up, 0), Calm(fs), father # 0
      PROVE  father \in Live(fs) /\ Named(fs, father, n)
  BY <1>4, LiveFacts, LayoutFacts DEF Tree
<1>5. CASE f.failed # "none"
  <2>1. f.failed = "no_entry" => ~Calm(fs)
    <3> SUFFICES ASSUME f.failed = "no_entry", Calm(fs) PROVE FALSE
      OBVIOUS
    <3>1. PICK up : Tree(fs, up, 0)
      BY <1>2 DEF Shape, Shaped
    <3>2. Named(fs, father, n)
      BY <1>3, <1>4, <3>1
    <3> QED BY <1>3, <3>2 DEF Named
  <2>3. f.failed = "astray" => ~Calm(fs)
    <3> SUFFICES ASSUME f.failed = "astray", Calm(fs) PROVE FALSE
      OBVIOUS
    <3>1. PICK up : Tree(fs, up, 0)
      BY <1>2 DEF Shape, Shaped
    <3>2. father \in Live(fs) /\ Named(fs, father, n) /\ ~Readable(fs, father)
      BY <1>3, <1>4, <3>1
    <3> QED BY <3>1, <3>2, OnlyDirsHold, WithRows DEF Named
  <2>2. Good(f)
    BY <1>3, <1>5, <2>1, <2>3 DEF Good, Calm
  <2> QED BY <1>1, <1>5, <2>2, DoneInv
<1>6. CASE f.failed = "none"
  <2>1. /\ g \in FS /\ Sound(g)
        /\ g.mode = f.mode /\ g.i_block = f.i_block /\ g.data = f.data /\ g.failed = f.failed
        /\ f.defects \subseteq g.defects /\ g.defects \subseteq f.defects \cup {"misfreed"}
        /\ n >= s_first_ino => Live(g) = Live(f) \ {n}
        /\ Held(f) /\ "misfreed" \notin g.defects => Held(g)
    BY <1>3, <1>6, IfreeEffect
  <2> HIDE DEF g
  <2>2. ASSUME Calm(g) PROVE Shape(g)
    <3>1. Calm(fs) /\ "misfreed" \notin g.defects /\ Held(fs) /\ father # 0 /\ g.defects = fs.defects
      BY <1>2, <1>3, <1>6, <2>1, <2>2 DEF Calm, Shape
    <3>2. PICK up : Shaped(fs, up)
      BY <1>2, <3>1 DEF Shape
    <3>3. Tree(fs, up, 0) /\ (fs.defects = {} => Distinct(fs) /\ Ranked(fs, up))
      BY <3>2 DEF Shaped
    <3>4. father \in Live(fs) /\ n \in Live(fs) \ {ROOT_INODE}
          /\ \A k, o : Row(fs, n, k, o) => ~IsEntry(o)
      BY <1>4, <3>1, <3>3
    <3>5. Held(f) /\ Frees(fs, f, father, n) /\ \A d \in Live(fs) \ {father} : SameRows(fs, f, d)
      BY <1>3, <1>6, <3>1, <3>4
    <3>6. Live(f) = Live(fs)
      BY <1>3 DEF Live, LiveIn
    <3>7. /\ Tree(f, up, n)
          /\ Distinct(fs) => Distinct(f)
          /\ Ranked(fs, up) => Ranked(f, up)
      BY <1>2, <1>3, <3>3, <3>4, <3>5, <3>6, TreeFree
    <3>8. \A k, o : Row(f, n, k, o) => ~IsEntry(o)
      <4>1. CASE n = father
        BY <3>4, <3>5, <4>1 DEF Frees, LostRow
      <4>2. CASE n # father
        BY <3>4, <3>5, <4>2, SameRowFacts
      <4> QED BY <4>1, <4>2
    <3>9. Live(g) = Live(f) \ {n}
      <4>1. n >= s_first_ino
        BY <3>4 DEF Live, LiveIn
      <4> QED BY <2>1, <4>1
    <3>10. /\ Tree(g, up, 0)
           /\ Distinct(f) => Distinct(g)
           /\ Ranked(f, up) => Ranked(g, up)
      BY <1>3, <2>1, <3>4, <3>6, <3>7, <3>8, <3>9, TreeKill
    <3>11. Shaped(g, up)
      BY <3>1, <3>3, <3>7, <3>10 DEF Shaped
    <3> QED BY <2>1, <3>1, <3>5, <3>11 DEF Shape
  <2>3. Good(g)
    BY <1>6, <2>1, <2>2 DEF Good
  <2> QED BY <1>1, <1>6, <2>3, DoneInv DEF g
<1> QED BY <1>5, <1>6

\* unlink: a regular file is not a dot, so its father is the directory of the
\* walk.
LEMMA UnlinkGood ==
  ASSUME IInv, NEW path \in NamePath, unlink_from_root(path)
  PROVE  IInv'
<1> DEFINE w == Walk(fs, path)
<1>1. /\ fs.failed = "none"
      /\ IF w.idx = Lost THEN Astray(w.father)
         ELSE IF w.idx = 0 \/ fs.mode[w.idx] # "file" THEN Return(-1)
         ELSE Erase(w.father, w.idx)
  BY DEF unlink_from_root, Running
<1>2. fs \in FS /\ Good(fs) /\ Sound(fs)
  BY <1>1 DEF IInv, Good
<1>3. /\ w.idx \in A!Inode \cup {0, Lost} /\ w.father \in A!Inode \cup {0}
      /\ w.idx \notin {0, Lost} =>
           \/ w.idx = ROOT_INODE /\ w.father = 0
           \/ w.father # 0 /\ \E k, o : Row(fs, w.father, k, o) /\ At(fs, w.father, k, o).inode = w.idx
      /\ \A up : Tree(fs, up, 0) =>
           /\ w.idx \notin {0, Lost} => w.idx \in Live(fs)
           /\ w.father # 0 => w.father \in Live(fs)
           /\ w.idx \notin {0, Lost} /\ w.father # 0 => fs.mode[w.father] = "dir"
  BY <1>2, WalkTo
<1>6. CASE w.idx = Lost
  BY <1>1, <1>6, LostInv
<1> HIDE DEF w
<1>4. CASE w.idx # Lost /\ (w.idx = 0 \/ fs.mode[w.idx] # "file")
  BY <1>1, <1>4, ReturnInv
<1>5. CASE w.idx # Lost /\ ~(w.idx = 0 \/ fs.mode[w.idx] # "file")
  <2>1. Erase(w.father, w.idx) /\ w.idx \in A!Inode /\ fs.mode[w.idx] = "file"
    BY <1>1, <1>3, <1>5
  <2>2. w.idx # ROOT_INODE /\ w.father # 0
    BY <1>2, <1>3, <1>5, <2>1, LayoutFacts DEF Sound
  <2>3. ASSUME NEW up, Tree(fs, up, 0)
        PROVE  /\ w.idx \in Live(fs) \ {ROOT_INODE}
               /\ w.father = up[w.idx]
               /\ \A k, o : Row(fs, w.idx, k, o) => ~IsEntry(o)
    <3>1. w.idx \in Live(fs) \ {ROOT_INODE} /\ w.father \in Live(fs) /\ fs.mode[w.father] = "dir"
      BY <1>3, <1>5, <2>2, <2>3
    <3>2. PICK k, o : Row(fs, w.father, k, o) /\ At(fs, w.father, k, o).inode = w.idx
      BY <1>3, <1>5, <2>2
    <3>3. Fits(fs, up, 0, w.father, k, o)
      BY <2>3, <3>1, <3>2 DEF Tree
    <3>4. o # 0
      BY <2>1, <3>1, <3>2, <3>3 DEF Fits
    <3>5. o # 12
      <4> SUFFICES ASSUME o = 12 PROVE FALSE
        OBVIOUS
      <4>1. w.idx = up[w.father]
        BY <3>2, <3>3 DEF Fits
      <4>2. w.father # ROOT_INODE
        BY <2>2, <2>3, <4>1 DEF Tree
      <4>3. Named(fs, w.idx, w.father)
        BY <2>3, <3>1, <4>1, <4>2, LiveFacts, LayoutFacts DEF Tree
      <4> QED BY <2>1, <2>3, <3>1, <4>3, WithRows DEF Named
    <3>6. w.father = up[w.idx]
      BY <3>2, <3>3, <3>4, <3>5 DEF Fits, IsEntry
    <3>7. \A j, q : ~Row(fs, w.idx, j, q)
      BY <2>1, <2>3, <3>1, WithRows
    <3> QED BY <3>1, <3>6, <3>7
  <2> QED BY <1>1, <1>3, <2>1, <2>3, EraseGood
<1> QED BY <1>4, <1>5, <1>6

\* rmdir: the father is the ".." of the listing.
LEMMA RmdirGood ==
  ASSUME IInv, NEW path \in NamePath, rmdir_from_root(path)
  PROVE  IInv'
<1> DEFINE w == Walk(fs, path)
           n == w.idx
           listing == Listing(fs, n)
           alien == \E e \in ToSet(listing) : e.name = Dot /\ e.inode # n
           fathers == {i \in DOMAIN listing : listing[i].name = DotDot}
           father == IF fathers = {} THEN 0 ELSE listing[Max(fathers)].inode
<1>1. /\ fs.failed = "none"
      /\ \/ n = Lost /\ Astray(w.father)
         \/ n \notin {Lost, 0, ROOT_INODE} /\ ~Readable(fs, n) /\ Astray(n)
         \/ n \notin {Lost, 0, ROOT_INODE} /\ Readable(fs, n) /\ alien /\ Abort("not_self")
         \/ /\ n \notin {Lost, 0, ROOT_INODE} /\ Readable(fs, n)
            /\ OnlyDots(listing) /\ Erase(father, n)
         \/ Return(-1)
  BY DEF rmdir_from_root, Running
<1>2. fs \in FS /\ Good(fs) /\ Sound(fs) /\ (Calm(fs) => Shape(fs))
  BY <1>1 DEF IInv, Good
<1>3. /\ n \in A!Inode \cup {0, Lost}
      /\ n \notin {0, Lost} => fs.mode[n] # "none"
      /\ \A up : Tree(fs, up, 0) => (n \notin {0, Lost} => n \in Live(fs))
  BY <1>2, WalkTo
<1>7. CASE n = Lost /\ Astray(w.father)
  BY <1>1, <1>7, LostInv
<1> HIDE DEF w, n
<1>4. CASE Return(-1)
  BY <1>4, ReturnInv
<1>8. CASE n \notin {Lost, 0, ROOT_INODE} /\ ~Readable(fs, n) /\ Astray(n)
  BY <1>1, <1>3, <1>8, AstrayInv
<1>5. CASE n \notin {Lost, 0, ROOT_INODE} /\ Readable(fs, n) /\ alien /\ Abort("not_self")
  <2>1. n \in A!Inode
    BY <1>3, <1>5
  <2>2. ListsRows(fs, n, listing)
    BY <1>2, <1>5, <2>1, ListingRows
  <2>3. ~Calm(fs)
    <3> SUFFICES ASSUME Calm(fs) PROVE FALSE
      OBVIOUS
    <3>1. PICK up : Tree(fs, up, 0)
      BY <1>2 DEF Shape, Shaped
    <3>2. n \in Live(fs)
      BY <1>3, <1>5, <3>1
    <3>3. PICK i \in DOMAIN listing : listing[i].name = Dot /\ listing[i].inode # n
      <4> HIDE DEF listing
      <4> QED BY <1>5 DEF ToSet
    <3>4. PICK k, o : Row(fs, n, k, o) /\ listing[i] = At(fs, n, k, o)
      BY <2>2, <3>3 DEF ListsRows
    <3>5. Fits(fs, up, 0, n, k, o)
      BY <3>1, <3>2, <3>4 DEF Tree
    <3> QED BY <3>3, <3>4, <3>5 DEF Fits
  <2> QED BY <1>5, <2>3, AbortInv DEF Reason
<1>6. CASE /\ n \notin {Lost, 0, ROOT_INODE} /\ Readable(fs, n)
           /\ OnlyDots(listing) /\ Erase(father, n)
  <2>1. n \in A!Inode
    BY <1>3, <1>6
  <2>2. ListsRows(fs, n, listing)
    BY <1>2, <1>6, <2>1, ListingRows
  <2> HIDE DEF listing
  <2>3. fathers # {} => \E k, o : /\ Row(fs, n, k, o) /\ At(fs, n, k, o).name = DotDot
                                  /\ At(fs, n, k, o).inode = father
    <3> SUFFICES ASSUME fathers # {}
                 PROVE  \E k, o : /\ Row(fs, n, k, o) /\ At(fs, n, k, o).name = DotDot
                                  /\ At(fs, n, k, o).inode = father
      OBVIOUS
    <3> DEFINE last == Max(fathers)
    <3>1. fathers \in SUBSET Nat /\ Len(listing) \in Nat /\ \A y \in fathers : y <= Len(listing)
      BY <2>2 DEF ListsRows
    <3>2. last \in fathers
      <4> HIDE DEF fathers
      <4> QED BY <3>1, MaxIsGreatest
    <3>3. last \in DOMAIN listing /\ listing[last].name = DotDot /\ father = listing[last].inode
      BY <3>2
    <3> HIDE DEF last, father, fathers
    <3> QED BY <2>2, <3>3 DEF ListsRows
  <2>4. father \in A!Inode \cup {0}
    <3>1. CASE fathers = {}
      BY <3>1
    <3>2. CASE fathers # {}
      <4> HIDE DEF father, fathers
      <4> QED BY <1>2, <2>1, <2>3, <3>2, RowFacts
    <3> QED BY <3>1, <3>2
  <2>5. father # 0 => fathers # {}
    OBVIOUS
  <2> HIDE DEF father, fathers
  <2>6. ASSUME NEW up, Tree(fs, up, 0)
        PROVE  /\ n \in Live(fs) \ {ROOT_INODE}
               /\ father # 0 => father = up[n]
               /\ \A k, o : Row(fs, n, k, o) => ~IsEntry(o)
    <3>1. n \in Live(fs) \ {ROOT_INODE}
      BY <1>3, <1>6, <2>6
    <3>2. father # 0 => father = up[n]
      <4> SUFFICES ASSUME father # 0 PROVE father = up[n]
        OBVIOUS
      <4>1. PICK k, o : /\ Row(fs, n, k, o) /\ At(fs, n, k, o).name = DotDot
                        /\ At(fs, n, k, o).inode = father
        BY <2>3, <2>5
      <4>2. Fits(fs, up, 0, n, k, o)
        BY <2>6, <3>1, <4>1 DEF Tree
      <4> QED BY <4>1, <4>2 DEF Fits
    <3>3. ASSUME NEW k, NEW o, Row(fs, n, k, o) PROVE ~IsEntry(o)
      <4> SUFFICES ASSUME IsEntry(o) PROVE FALSE
        OBVIOUS
      <4>1. ~IsDot(At(fs, n, k, o).name)
        BY <2>6, <3>1, <3>3, EntryNames
      <4>2. PICK i \in DOMAIN listing : listing[i] = At(fs, n, k, o)
        BY <2>2, <3>3, <4>1 DEF ListsRows
      <4>3. listing[i].name \in {Dot, DotDot}
        BY <1>6 DEF OnlyDots, ToSet
      <4> QED BY <4>1, <4>2, <4>3 DEF IsDot
    <3> QED BY <3>1, <3>2, <3>3
  <2> QED BY <1>1, <1>6, <2>1, <2>4, <2>6, EraseGood
<1> QED BY <1>1, <1>4, <1>5, <1>6, <1>7, <1>8

\* mv: the entry goes, and comes back elsewhere; until then the inode is in no
\* directory.
LEMMA MvGood ==
  ASSUME IInv, NEW old \in NamePath, NEW new \in NamePath, mv_from_root(old, new)
  PROVE  IInv'
<1> DEFINE w == Walk(fs, old)
           n == w.idx
           t == Walk(fs, Front(new))
           target == t.idx
           rname == Last(new)
           f == free_entry_to_inode(fs, w.father, n)
           struck == (IF fs.mode[n] = "dir" /\ target # w.father THEN {"moved"} ELSE {})
                \cup (IF Lookup(f, target, rname) \notin {0, Lost} THEN {"duplicate"} ELSE {})
           h == [f EXCEPT !.defects = @ \cup struck]
           g == add_entry_to_inode(h, target, rname, n)
<1>1. /\ fs.failed = "none"
      /\ \/ Return(-1)
         \/ n = Lost /\ Astray(w.father)
         \/ new # <<>> /\ target = Lost /\ Astray(t.father)
         \/ Abort("inode_0")
         \/ /\ n \notin {0, Lost} /\ new # <<>> /\ w.father # 0
            /\ Lookup(fs, w.father, rname) = 0 /\ target \notin {0, Lost}
            /\ IF f.failed # "none" THEN Abort(f.failed) ELSE Done(g)
  BY DEF mv_from_root, Running
<1>2. fs \in FS /\ Good(fs) /\ Sound(fs) /\ (Calm(fs) => Shape(fs))
  BY <1>1 DEF IInv, Good
<1>3. /\ w.idx \in A!Inode \cup {0, Lost} /\ w.father \in A!Inode \cup {0}
      /\ w.idx \notin {0, Lost} =>
           /\ fs.mode[w.idx] # "none"
           /\ \/ w.idx = ROOT_INODE /\ w.father = 0
              \/ w.father # 0 /\ \E k, o : Row(fs, w.father, k, o) /\ At(fs, w.father, k, o).inode = w.idx
      /\ \A up : Tree(fs, up, 0) =>
           /\ w.idx \notin {0, Lost} => w.idx \in Live(fs)
           /\ w.father # 0 => w.father \in Live(fs)
           /\ w.idx \notin {0, Lost} /\ w.father # 0 => fs.mode[w.father] = "dir"
  BY <1>2, WalkTo
<1>7. CASE n = Lost /\ Astray(w.father)
  BY <1>1, <1>7, LostInv
<1>8. CASE new # <<>> /\ target = Lost /\ Astray(t.father)
  <2>1. Front(new) \in NamePath
    BY <1>8, FrontPath
  <2> QED BY <1>1, <1>8, <2>1, LostInv
<1> HIDE DEF w
<1>4. CASE Return(-1)
  BY <1>4, ReturnInv
<1>5. CASE Abort("inode_0")
  BY <1>5, AbortInv DEF Reason
<1>6. CASE /\ n \notin {0, Lost} /\ new # <<>> /\ w.father # 0
           /\ Lookup(fs, w.father, rname) = 0 /\ target \notin {0, Lost}
           /\ IF f.failed # "none" THEN Abort(f.failed) ELSE Done(g)
  <2>1. n \in A!Inode /\ w.father \in A!Inode /\ fs.mode[n] # "none"
        /\ \E k, o : Row(fs, w.father, k, o) /\ At(fs, w.father, k, o).inode = n
    BY <1>3, <1>6
  <2>2. rname \in D!FileName /\ Front(new) \in NamePath
    BY <1>6, FrontPath
  <2>3. /\ target \in A!Inode /\ fs.mode[target] # "none"
        /\ \A up : Tree(fs, up, 0) => target \in Live(fs)
    BY <1>2, <1>6, <2>2, WalkTo
  <2> HIDE DEF t, rname
  <2>4. /\ f \in FS
        /\ f.failed \in {"none", "inode_0", "astray", "file_walked", "no_entry", "dot"}
        /\ f.failed = "astray" => w.father # 0 /\ ~Readable(fs, w.father) /\ fs.mode[w.father] # "file"
        /\ f.mode = fs.mode /\ f.inode_bitmap = fs.inode_bitmap /\ f.defects = fs.defects
        /\ f.failed = "no_entry" => \A k, o : Row(fs, w.father, k, o) => At(fs, w.father, k, o).inode # n
        /\ f.failed = "none" =>
             /\ Sound(f)
             /\ Held(fs) /\ w.father \in Live(fs) =>
                  /\ Held(f) /\ Frees(fs, f, w.father, n)
                  /\ \A d \in Live(fs) \ {w.father} : SameRows(fs, f, d)
    <3>1. /\ fs \in FS /\ Sound(fs) /\ fs.failed = "none" /\ w.father \in A!Inode \cup {0}
          /\ f = free_entry_to_inode(fs, w.father, n)
      BY <1>1, <1>2, <1>3
    <3> HIDE DEF f, n
    <3> QED BY ONLY <3>1, FreeEffect
  <2> HIDE DEF f
  <2>5. CASE f.failed # "none"
    <3>1. f.failed \in {"inode_0", "file_walked", "dot"}
      <4>1. Readable(fs, w.father)
        BY <1>2, <1>6, <2>1, LookupFacts
      <4> QED BY <2>1, <2>4, <2>5, <4>1
    <3> QED BY <1>6, <2>5, <3>1, AbortInv DEF Reason
  <2>6. CASE f.failed = "none"
    <3>1. /\ struck \subseteq {"moved", "duplicate"}
          /\ fs.mode[n] = "dir" /\ target # w.father => "moved" \in struck
          /\ Lookup(f, target, rname) \notin {0, Lost} => "duplicate" \in struck
      OBVIOUS
    <3> HIDE DEF struck
    <3>2. f.defects \cup struck \in SUBSET Defect
      BY <2>4, <3>1 DEF FS, Defect
    <3>3. /\ h \in FS /\ h.defects = fs.defects \cup struck /\ h.failed = "none" /\ h.mode = fs.mode
          /\ Live(h) = Live(f) /\ Sound(h)
          /\ Held(f) => Held(h)
          /\ \A d, k, o : (Row(h, d, k, o) <=> Row(f, d, k, o)) /\ At(h, d, k, o) = At(f, d, k, o)
          /\ \A up, x : Tree(f, up, x) => Tree(h, up, x)
          /\ Distinct(f) => Distinct(h)
          /\ \A up : Ranked(f, up) => Ranked(h, up)
      <4>1. h = [f EXCEPT !.defects = f.defects \cup struck]
        OBVIOUS
      <4> HIDE DEF h
      <4> QED BY <2>4, <2>6, <3>2, <4>1, Struck
    <3>c. Readable(h, target) => Readable(f, target)
      BY <2>4 DEF FS, Readable
    <3> HIDE DEF h
    <3>4. /\ g \in FS
          /\ g.failed \in {"none", "ballocs", "outgrown", "astray", "file_walked"}
          /\ g.failed = "astray" => ~Readable(h, target) /\ h.mode[target] # "file"
          /\ g.defects = IF h.mode[target] = "file" THEN h.defects \cup {"file_as_dir"} ELSE h.defects
          /\ g.failed = "none" => Sound(g)
      <4>1. /\ h \in FS /\ Sound(h) /\ h.failed = "none" /\ target \in A!Inode /\ h.mode[target] # "none"
            /\ rname \in D!FileName /\ n \in A!Inode /\ h.mode[n] # "none"
            /\ g = add_entry_to_inode(h, target, rname, n)
        BY <2>1, <2>2, <2>3, <3>3 DEF g
      <4> HIDE DEF g
      <4> QED BY ONLY <4>1, AddEffect
    <3>a. ASSUME Calm(g)
          PROVE  /\ h.mode[target] = "dir" /\ fs.mode[w.father] = "dir"
                 /\ g.defects = h.defects /\ "moved" \notin struck
                 /\ target \in Live(h) /\ n \in Live(h) \ {ROOT_INODE} /\ Held(h)
                 /\ \E up : /\ Tree(h, up, n) /\ up[n] = w.father
                            /\ fs.defects = {} => Distinct(h) /\ Ranked(h, up)
      <4>1. /\ h.mode[target] = "dir" /\ g.defects = h.defects /\ "moved" \notin struck
            /\ Calm(fs) /\ Held(fs)
        <5> HIDE DEF g
        <5>1. h.mode[target] # "file"
          BY <3>4, <3>a DEF Calm
        <5>2. h.mode[target] = "dir"
          BY <2>3, <3>3, <5>1 DEF FS
        <5>3. fs.defects \cup struck \subseteq {"duplicate"}
          BY <3>3, <3>4, <3>a, <5>1 DEF Calm
        <5> QED BY <1>2, <3>4, <5>1, <5>2, <5>3 DEF Calm, Shape
      <4>2. PICK up : Shaped(fs, up)
        BY <1>2, <4>1 DEF Shape
      <4>3. Tree(fs, up, 0) /\ (fs.defects = {} => Distinct(fs) /\ Ranked(fs, up))
        BY <4>2 DEF Shaped
      <4>4. /\ n \in Live(fs) /\ w.father \in Live(fs) /\ fs.mode[w.father] = "dir"
            /\ target \in Live(fs)
        BY <1>3, <1>6, <2>3, <4>3
      <4>5. Held(f) /\ Frees(fs, f, w.father, n) /\ \A d \in Live(fs) \ {w.father} : SameRows(fs, f, d)
        BY <2>4, <2>6, <4>1, <4>4
      <4>6. Live(f) = Live(fs)
        BY <2>4 DEF Live, LiveIn
      <4>7. /\ n \in Live(fs) \ {ROOT_INODE} /\ up[n] = w.father
            /\ Tree(f, up, n)
            /\ Distinct(fs) => Distinct(f)
            /\ Ranked(fs, up) => Ranked(f, up)
        <5>1. fs \in FS /\ f \in FS /\ f.mode = fs.mode
          BY <1>2, <2>4
        <5> QED BY <4>3, <4>4, <4>5, <4>6, <5>1, TreeFree
      <4>8. /\ Tree(h, up, n) /\ n \in Live(h) \ {ROOT_INODE} /\ target \in Live(h) /\ Held(h)
            /\ fs.defects = {} => Distinct(h) /\ Ranked(h, up)
        BY <3>3, <4>3, <4>4, <4>5, <4>6, <4>7
      <4> QED BY <4>1, <4>4, <4>7, <4>8
    <3>b. Calm(g) => Readable(h, target)
      BY <3>a, OnlyDirsHold
    <3>5. ASSUME g.failed = "none", Calm(g) PROVE Shape(g)
      <4>1. /\ h.mode[target] = "dir" /\ fs.mode[w.father] = "dir" /\ "moved" \notin struck
            /\ target \in Live(h) /\ n \in Live(h) \ {ROOT_INODE} /\ Held(h)
        BY <3>5, <3>a
      <4>8. PICK up : /\ Tree(h, up, n) /\ up[n] = w.father
                      /\ fs.defects = {} => Distinct(h) /\ Ranked(h, up)
        BY <3>5, <3>a
      <4>9. ~IsDot(rname)
        BY <1>2, <1>6, <2>1, <2>2, <4>1, NewName
      <4>10. h.defects = {} => \A k, o : Row(h, target, k, o) => At(h, target, k, o).name # rname
        <5> SUFFICES ASSUME h.defects = {}
                     PROVE  \A k, o : Row(f, target, k, o) => At(f, target, k, o).name # rname
          BY <3>3
        <5>1. Lookup(f, target, rname) = 0
          BY <2>3, <2>4, <2>6, <3>1, <3>3, <3>5, <3>b, <3>c, LookupFacts
        <5> QED BY <2>3, <2>4, <2>6, <4>9, <5>1, LookupFacts
      <4>11. h.defects = {} => fs.defects = {}
        BY <3>3
      <4>12. /\ h \in FS /\ Sound(h) /\ h.failed = "none" /\ Held(h)
             /\ n \in Live(h) \ {ROOT_INODE} /\ h.mode[n] # "none"
             /\ target \in Live(h) /\ h.mode[target] = "dir"
             /\ rname \in D!FileName /\ ~IsDot(rname)
             /\ g = add_entry_to_inode(h, target, rname, n) /\ g.failed = "none"
        BY <2>1, <2>2, <3>3, <3>5, <4>1, <4>8, <4>9 DEF g
      <4> HIDE DEF g, n, target
      <4>13. CASE h.mode[n] = "dir"
        <5>1. up[n] = target
          BY <3>1, <3>3, <4>1, <4>8, <4>13
        <5>2. /\ Tree(h, up, n)
              /\ h.defects = {} => /\ Distinct(h) /\ Ranked(h, up)
                                   /\ \A k, o : Row(h, target, k, o) => At(h, target, k, o).name # rname
          BY <4>8, <4>10, <4>11
        <5> QED BY ONLY <4>12, <5>1, <5>2, AddShape
      <4>14. CASE h.mode[n] # "dir"
        <5>1. target # n
          BY <4>12, <4>14
        <5> DEFINE up2 == [up EXCEPT ![n] = target]
        <5>2. /\ Tree(h, up2, n) /\ up2[n] = target
              /\ Ranked(h, up) => Ranked(h, up2)
          <6>1. /\ h \in FS /\ Sound(h) /\ n \in Live(h) \ {ROOT_INODE} /\ Tree(h, up, n)
                /\ h.mode[n] # "dir" /\ target \in Live(h) /\ target # n
            BY <4>8, <4>12, <4>14, <5>1
          <6> QED BY ONLY <6>1, TreeReparent
        <5> HIDE DEF up2
        <5>3. h.defects = {} => /\ Distinct(h) /\ Ranked(h, up2)
                                /\ \A k, o : Row(h, target, k, o) => At(h, target, k, o).name # rname
          BY <4>8, <4>10, <4>11, <5>2
        <5> QED BY ONLY <4>12, <5>2, <5>3, AddShape
      <4> QED BY <4>13, <4>14
    <3>6. Good(g)
      BY <3>4, <3>5, <3>b DEF Good
    <3>7. Done(g)
      BY <1>6, <2>6
    <3> HIDE DEF g
    <3> QED BY <3>6, <3>7, DoneInv
  <2> QED BY <2>5, <2>6
<1> QED BY <1>1, <1>4, <1>5, <1>6, <1>7, <1>8

\* A tree whose live inodes have the same rows as before is the same tree.
LEMMA SameTree ==
  ASSUME NEW f, NEW g, Live(g) = Live(f), g.mode = f.mode,
         \A d \in Live(f) : /\ Contained(g, d)
                            /\ \A k, o : Row(g, d, k, o) <=> Row(f, d, k, o)
                            /\ \A k, o : Row(f, d, k, o) => At(g, d, k, o) = At(f, d, k, o),
         NEW up, Shaped(f, up), g.defects = f.defects
  PROVE  Shaped(g, up)
<1>1. Tree(f, up, 0) /\ (f.defects = {} => Distinct(f) /\ Ranked(f, up))
  BY DEF Shaped
<1>2. ASSUME NEW d \in Live(f), NEW k, NEW o, Row(g, d, k, o) PROVE Fits(g, up, 0, d, k, o)
  <2>1. Fits(f, up, 0, d, k, o) /\ At(g, d, k, o) = At(f, d, k, o)
    BY <1>1, <1>2 DEF Tree
  <2> QED BY <2>1 DEF Fits
<1>3. ASSUME NEW d \in Live(f), NEW n, Named(f, d, n) PROVE Named(g, d, n)
  BY <1>3 DEF Named
<1>4. Tree(g, up, 0)
  <2>1. \A d \in Live(g) : \A j, q, k, o :
           /\ Row(g, d, j, q) /\ IsEntry(q) /\ Row(g, d, k, o) /\ IsEntry(o)
           /\ At(g, d, j, q).inode = At(g, d, k, o).inode
           => j = k /\ q = o
    BY <1>1 DEF Tree
  <2> QED BY <1>1, <1>2, <1>3, <2>1 DEF Tree
<1>5. Distinct(f) => Distinct(g)
  BY DEF Distinct
<1>6. Ranked(f, up) => Ranked(g, up)
  BY DEF Ranked, Ranks
<1> QED BY <1>1, <1>4, <1>5, <1>6 DEF Shaped

\* A regular file gets the blocks new, its own ones or free ones.
LEMMA FilledGood ==
  ASSUME NEW f, Good(f), f.failed = "none", NEW n \in A!Inode, f.mode[n] = "file",
         NEW bb \in [A!Group -> SUBSET A!BlockBit], Marked(bb), NEW new \in BlockList,
         \A c \in A!DataBlock : InUse(f.block_bitmap, c) => InUse(bb, c),
         Calm(f) => /\ \A k \in DOMAIN new : InUse(bb, new[k])
                    /\ \A j, k \in DOMAIN new : new[j] = new[k] => j = k
                    /\ \A m \in Live(f) \ {n} : \A j \in DOMAIN f.i_block[m] :
                         f.i_block[m][j] \notin ToSet(new),
         NEW g, g = Filled([f EXCEPT !.block_bitmap = bb], n, new)
  PROVE  Good(g)
<1>1. f \in FS /\ Sound(f) /\ (Calm(f) => Shape(f))
  BY DEF Good
<1> DEFINE data == [b \in A!DataBlock |-> IF b \in ToSet(new) THEN Bytes ELSE f.data[b]]
<1>2. g = [f EXCEPT !.block_bitmap = bb, !.i_block[n] = new, !.data = data]
  BY <1>1 DEF Filled, FS
<1>3. data \in [A!DataBlock -> BlockData]
  BY <1>1, BytesData DEF FS
<1>4. /\ \A b \in A!DataBlock : b \notin ToSet(new) => data[b] = f.data[b]
      /\ \A b \in A!DataBlock : b \in ToSet(new) => data[b] = Bytes
  OBVIOUS
<1> HIDE DEF data
<1>5. /\ g \in FS /\ g.block_bitmap = bb /\ g.data = data /\ g.mode = f.mode
      /\ g.i_block = [f.i_block EXCEPT ![n] = new]
      /\ g.inode_bitmap = f.inode_bitmap /\ g.failed = "none" /\ g.defects = f.defects
  <2> DEFINE h == [f EXCEPT !.block_bitmap = bb]
             i == [h EXCEPT !.i_block[n] = new]
  <2>1. g = [i EXCEPT !.data = data]
    BY <1>2
  <2>2. h \in FS /\ h = [f EXCEPT !.block_bitmap = bb]
    BY <1>1 DEF FS
  <2>3. /\ h.block_bitmap = bb /\ h.i_block = f.i_block /\ h.mode = f.mode
        /\ h.inode_bitmap = f.inode_bitmap /\ h.failed = "none" /\ h.defects = f.defects
    BY <1>1 DEF FS
  <2> HIDE DEF h
  <2>4. i \in FS
    BY <2>2 DEF FS
  <2>5. /\ i.block_bitmap = bb /\ i.i_block = [f.i_block EXCEPT ![n] = new] /\ i.mode = f.mode
        /\ i.inode_bitmap = f.inode_bitmap /\ i.failed = "none" /\ i.defects = f.defects
    BY <2>2, <2>3 DEF FS
  <2> HIDE DEF i
  <2> QED BY <1>3, <2>1, <2>4, <2>5 DEF FS
<1>6. /\ g.i_block[n] = new /\ \A m \in A!Inode : m # n => g.i_block[m] = f.i_block[m]
      /\ Live(g) = Live(f)
  <2>1. f.i_block \in [A!Inode -> BlockList]
    BY <1>1 DEF FS
  <2>2. Live(g) = Live(f)
    BY <1>5 DEF Live, LiveIn
  <2> QED BY <1>5, <2>1, <2>2
<1>7. Sound(g)
  <2>1. Written(g)
    <3> SUFFICES ASSUME NEW b \in A!DataBlock, NEW o \in DOMAIN g.data[b]
                 PROVE  g.mode[g.data[b][o].inode] # "none"
      BY DEF Written
    <3>1. g.data[b] = f.data[b]
      BY <1>4, <1>5, BytesData
    <3> QED BY <1>1, <1>5, <3>1 DEF Sound, Written
  <2>2. \A m \in A!Inode : g.mode[m] = "dir" => g.i_block[m] # <<>>
    BY <1>1, <1>5, <1>6 DEF Sound
  <2> QED BY <1>1, <1>5, <2>1, <2>2 DEF Sound
<1>8. ASSUME Calm(g) PROVE Shape(g)
  <2>1. Calm(f) /\ Held(f)
    BY <1>1, <1>5, <1>8 DEF Calm, Shape
  <2>2. PICK up : Shaped(f, up)
    BY <1>1, <1>5, <1>8 DEF Calm, Shape
  <2>3. ASSUME NEW m \in Live(f), NEW j \in DOMAIN f.i_block[m], m # n
        PROVE  f.i_block[m][j] \in A!DataBlock \ ToSet(new)
    BY <1>1, <2>1, <2>3, LiveFacts, BlockLists
  <2>4. ASSUME NEW k \in DOMAIN new PROVE new[k] \in A!DataBlock /\ new[k] \in ToSet(new)
    BY <1>5, <1>6, BlockLists DEF ToSet
  <2>5. Held(g)
    <3>1. ASSUME NEW m \in Live(g), NEW k \in DOMAIN g.i_block[m]
          PROVE  InUse(g.block_bitmap, g.i_block[m][k])
      <4>1. CASE m = n
        BY <1>5, <1>6, <2>1, <3>1, <4>1
      <4>2. CASE m # n
        BY <1>5, <1>6, <2>1, <2>3, <3>1, <4>2, LiveFacts DEF Held
      <4> QED BY <4>1, <4>2
    <3>2. ASSUME NEW m \in Live(g), NEW p \in Live(g), NEW j \in DOMAIN g.i_block[m],
                 NEW k \in DOMAIN g.i_block[p], g.i_block[m][j] = g.i_block[p][k]
          PROVE  m = p /\ j = k
      <4>1. CASE m = n /\ p = n
        BY <1>6, <2>1, <3>2, <4>1
      <4>2. CASE m = n /\ p # n
        BY <1>6, <2>3, <2>4, <3>2, <4>2, LiveFacts
      <4>3. CASE m # n /\ p = n
        BY <1>6, <2>3, <2>4, <3>2, <4>3, LiveFacts
      <4>4. CASE m # n /\ p # n
        BY <1>6, <2>1, <3>2, <4>4, LiveFacts DEF Held
      <4> QED BY <4>1, <4>2, <4>3, <4>4
    <3> QED BY <3>1, <3>2 DEF Held
  <2>6. ASSUME NEW m \in Live(f)
        PROVE  /\ Contained(g, m)
               /\ \A k, o : Row(g, m, k, o) <=> Row(f, m, k, o)
               /\ \A k, o : Row(f, m, k, o) => At(g, m, k, o) = At(f, m, k, o)
    <3>1. m \in A!Inode
      BY LiveFacts
    <3>2. Tree(f, up, 0) /\ Contained(f, m)
      BY <2>2 DEF Shaped, Tree
    <3>3. CASE m = n
      <4>1. \A k \in DOMAIN g.i_block[m] : Block(g, m, k) = Bytes
        BY <1>4, <1>5, <1>6, <2>4, <3>3 DEF Block
      <4>2. \A k, o : ~Row(f, m, k, o)
        BY <3>2, <3>3, OnlyDirsHold
      <4>3. \A k, o : ~Row(g, m, k, o)
        BY <4>1, BytesData DEF Row
      <4> QED BY <1>5, <3>3, <4>1, <4>2, <4>3 DEF Contained
    <3>4. CASE m # n
      <4>1. g.i_block[m] = f.i_block[m] /\ \A k \in DOMAIN f.i_block[m] : Block(g, m, k) = Block(f, m, k)
        BY <1>4, <1>5, <1>6, <2>3, <3>1, <3>4 DEF Block
      <4> QED BY <1>5, <3>2, <4>1 DEF Contained, Row, At
    <3> QED BY <3>3, <3>4
  <2>7. Shaped(g, up)
    BY <1>5, <1>6, <2>2, <2>6, SameTree
  <2> QED BY <2>5, <2>7 DEF Shape
<1> QED BY <1>5, <1>7, <1>8 DEF Good

\* write: a regular file keeps its blocks, or has one more.
LEMMA WriteGood ==
  ASSUME IInv, NEW path \in NamePath, write_to_file(path)
  PROVE  IInv'
<1> DEFINE w == Walk(fs, path)
           n == w.idx
           b == A!ballocs(fs.block_bitmap, n \div inodes_per_group)
           bb == A!SetBlock(fs.block_bitmap, b)
           old == fs.i_block[n]
           h == [fs EXCEPT !.block_bitmap = bb]
<1>1. /\ fs.failed = "none"
      /\ \/ n = Lost /\ Astray(w.father)
         \/ Return(-1)
         \/ n \notin {Lost, 0} /\ fs.mode[n] = "file" /\ Done(Filled(fs, n, old))
         \/ Abort("ballocs")
         \/ /\ n \notin {Lost, 0} /\ fs.mode[n] = "file" /\ Len(old) < EXT2_DIRECT_BLOCKS
            /\ b # A!EXT2M_I_BLOCK_END /\ Done(Filled(h, n, Append(old, b)))
  <2>1. [fs EXCEPT !.block_bitmap = A!SetBlock(@, b)] = h
    OBVIOUS
  <2> QED BY <2>1 DEF write_to_file, Running
<1>2. fs \in FS /\ Good(fs) /\ Sound(fs)
  BY <1>1 DEF IInv, Good
<1>3. /\ n \in A!Inode \cup {0, Lost}
      /\ \A up : Tree(fs, up, 0) => (n \notin {0, Lost} => n \in Live(fs))
  BY <1>2, WalkTo
<1>4. CASE n = Lost /\ Astray(w.father)
  BY <1>1, <1>4, LostInv
<1> HIDE DEF w, n
<1>5. CASE Return(-1)
  BY <1>5, ReturnInv
<1>6. CASE Abort("ballocs")
  BY <1>6, AbortInv DEF Reason
<1>7. ASSUME n \in A!Inode
      PROVE  /\ old \in BlockList /\ Len(old) \in Nat /\ DOMAIN old = 1 .. Len(old)
             /\ old \in Seq(A!DataBlock) /\ \A k \in DOMAIN old : old[k] \in A!DataBlock
             /\ fs.block_bitmap \in [A!Group -> SUBSET A!BlockBit] /\ Marked(fs.block_bitmap)
  BY <1>2, <1>7, BlockLists DEF FS, Sound
<1>8. ASSUME n \notin {0, Lost}, Calm(fs)
      PROVE  /\ \A k \in DOMAIN old : InUse(fs.block_bitmap, old[k])
             /\ \A j, k \in DOMAIN old : old[j] = old[k] => j = k
             /\ \A m \in Live(fs) \ {n} : \A j \in DOMAIN fs.i_block[m] :
                  /\ InUse(fs.block_bitmap, fs.i_block[m][j])
                  /\ \A k \in DOMAIN old : fs.i_block[m][j] # old[k]
  <2>1. Held(fs) /\ \E up : Tree(fs, up, 0)
    BY <1>1, <1>2, <1>8 DEF Good, Shape, Shaped
  <2> QED BY <1>3, <1>8, <2>1 DEF Held
<1>9. CASE n \notin {Lost, 0} /\ fs.mode[n] = "file" /\ Done(Filled(fs, n, old))
  <2> DEFINE same == [fs EXCEPT !.block_bitmap = fs.block_bitmap]
             g == Filled(same, n, old)
  <2>1. same = fs
    BY <1>2 DEF FS
  <2>2. Done(g)
    BY <1>9, <2>1
  <2>3. Calm(fs) => /\ \A k \in DOMAIN old : InUse(fs.block_bitmap, old[k])
                    /\ \A j, k \in DOMAIN old : old[j] = old[k] => j = k
                    /\ \A m \in Live(fs) \ {n} : \A j \in DOMAIN fs.i_block[m] :
                         fs.i_block[m][j] \notin ToSet(old)
    BY <1>8, <1>9 DEF ToSet
  <2>4. Good(g)
    <3>1. n \in A!Inode
      BY <1>3, <1>9
    <3> HIDE DEF old
    <3> QED BY <1>1, <1>2, <1>7, <1>9, <2>3, <3>1, FilledGood
  <2> HIDE DEF g
  <2> QED BY <2>2, <2>4, DoneInv
<1>10. CASE /\ n \notin {Lost, 0} /\ fs.mode[n] = "file" /\ Len(old) < EXT2_DIRECT_BLOCKS
            /\ b # A!EXT2M_I_BLOCK_END /\ Done(Filled(h, n, Append(old, b)))
  <2> DEFINE new == Append(old, b)
             g == Filled(h, n, new)
  <2>1. n \in A!Inode /\ n \div inodes_per_group \in Nat
    BY <1>3, <1>10, LayoutFacts
  <2>2. /\ b \in A!DataBlock /\ ~InUse(fs.block_bitmap, b)
        /\ bb \in [A!Group -> SUBSET A!BlockBit] /\ Marked(bb)
        /\ \A c \in A!DataBlock : InUse(bb, c) <=> InUse(fs.block_bitmap, c) \/ c = b
    BY <1>7, <1>10, <2>1, FreeBlock
  <2>3. /\ new \in Seq(A!DataBlock) /\ Len(new) = Len(old) + 1 /\ DOMAIN new = 1 .. Len(old) + 1
        /\ \A k \in DOMAIN old : new[k] = old[k]
        /\ new[Len(old) + 1] = b
    <3> HIDE DEF b, old
    <3> QED BY <1>7, <2>1, <2>2
  <2> HIDE DEF old, new, b, bb
  <2>4. new \in BlockList
    BY <1>7, <1>10, <2>1, <2>3, LayoutFacts DEF BlockList
  <2>5. \A k \in DOMAIN new : \/ k \in DOMAIN old /\ new[k] = old[k]
                              \/ k = Len(old) + 1 /\ new[k] = b
    BY <1>7, <2>1, <2>3
  <2>6. ASSUME Calm(fs)
        PROVE  /\ \A k \in DOMAIN new : InUse(bb, new[k])
               /\ \A j, k \in DOMAIN new : new[j] = new[k] => j = k
               /\ \A m \in Live(fs) \ {n} : \A j \in DOMAIN fs.i_block[m] :
                    fs.i_block[m][j] \notin ToSet(new)
    <3>1. /\ \A k \in DOMAIN old : InUse(fs.block_bitmap, old[k]) /\ old[k] \in A!DataBlock /\ old[k] # b
          /\ \A j, k \in DOMAIN old : old[j] = old[k] => j = k
          /\ \A m \in Live(fs) \ {n} : \A j \in DOMAIN fs.i_block[m] :
               /\ fs.i_block[m][j] # b
               /\ \A k \in DOMAIN old : fs.i_block[m][j] # old[k]
      BY <1>7, <1>8, <1>10, <2>1, <2>2, <2>6
    <3>2. \A k \in DOMAIN new : InUse(bb, new[k])
      BY <2>2, <2>5, <3>1
    <3>3. \A j, k \in DOMAIN new : new[j] = new[k] => j = k
      BY <2>5, <3>1
    <3>4. \A m \in Live(fs) \ {n} : \A j \in DOMAIN fs.i_block[m] : fs.i_block[m][j] \notin ToSet(new)
      BY <2>5, <3>1 DEF ToSet
    <3> QED BY <3>2, <3>3, <3>4
  <2>7. Good(g)
    BY <1>1, <1>2, <1>10, <2>1, <2>2, <2>4, <2>6, FilledGood
  <2>8. Done(g)
    BY <1>10 DEF new
  <2> HIDE DEF g
  <2> QED BY <2>7, <2>8, DoneInv
<1> QED BY <1>1, <1>4, <1>5, <1>6, <1>9, <1>10

\* ls: what it lists it reads.
LEMMA LsGood ==
  ASSUME IInv, NEW path \in NamePath, ls_from_root(path)
  PROVE  IInv'
<1> DEFINE w == Walk(fs, path)
           n == w.idx
<1>1. /\ fs.failed = "none"
      /\ \/ n = Lost /\ Astray(w.father)
         \/ Return(-1)
         \/ n \notin {0, Lost} /\ ~Readable(fs, n) /\ Astray(n)
         \/ Return(0)
  BY DEF ls_from_root, Running
<1>2. fs \in FS /\ Sound(fs)
  BY <1>1 DEF IInv, Good
<1>3. /\ n \in A!Inode \cup {0, Lost}
      /\ n \notin {0, Lost} => fs.mode[n] # "none"
      /\ \A up : Tree(fs, up, 0) => (n \notin {0, Lost} => n \in Live(fs))
  BY <1>2, WalkTo
<1>4. CASE n = Lost /\ Astray(w.father)
  BY <1>1, <1>4, LostInv
<1> HIDE DEF w, n
<1>5. CASE Return(-1) \/ Return(0)
  BY <1>5, ReturnInv
<1>6. CASE n \notin {0, Lost} /\ ~Readable(fs, n) /\ Astray(n)
  BY <1>1, <1>3, <1>6, AstrayInv
<1> QED BY <1>1, <1>4, <1>5, <1>6
-------------------------------------------------------------------------------
(* The theorems *)

\* Every step keeps the invariant.
LEMMA NextGood == IInv /\ [Next]_vars => IInv'
<1> SUFFICES ASSUME IInv, [Next]_vars PROVE IInv'
  OBVIOUS
<1>1. Path \subseteq NamePath /\ NewPath \subseteq NamePath
  BY NamespaceAssumption DEF NamePath
<1>2. ASSUME NEW path \in Path, mkdir_from_root(path) PROVE IInv'
  BY <1>1, <1>2, MkdirGood
<1>3. ASSUME NEW path \in Path, create_file_from_root(path) PROVE IInv'
  BY <1>1, <1>3, CreateGood
<1>4. ASSUME NEW path \in Path, rmdir_from_root(path) PROVE IInv'
  BY <1>1, <1>4, RmdirGood
<1>5. ASSUME NEW path \in Path, unlink_from_root(path) PROVE IInv'
  BY <1>1, <1>5, UnlinkGood
<1>6. ASSUME NEW old \in Path, NEW new \in NewPath, mv_from_root(old, new) PROVE IInv'
  BY <1>1, <1>6, MvGood
<1>7. ASSUME NEW path \in Path, write_to_file(path) PROVE IInv'
  BY <1>1, <1>7, WriteGood
<1>8. ASSUME NEW path \in Path, ls_from_root(path) PROVE IInv'
  BY <1>1, <1>8, LsGood
<1>9. CASE UNCHANGED vars
  BY <1>9 DEF IInv, vars
<1> QED BY <1>2, <1>3, <1>4, <1>5, <1>6, <1>7, <1>8, <1>9 DEF Next

\* The inductive invariant holds in every state: what stays true of the disk
\* whatever happens, and the shape of the tree until a defect strikes.
THEOREM Invariance == Spec => []IInv
BY InitGood, NextGood, PTL DEF Spec

\* TypeOK: whatever defects strike, the bitmaps, the lists of blocks and the
\* directory blocks of the path handlers (vfs.hpp) stay what they are declared
\* to be; no block of a directory is ever left with a broken chain of entries.
THEOREM TypeCorrect == Spec => []TypeOK
<1>1. IInv => TypeOK
  <2> SUFFICES ASSUME IInv PROVE TypeOK
    OBVIOUS
  <2>1. fs \in FS /\ ret \in {-1, 0}
    BY DEF IInv, Good
  <2>3. ASSUME NEW n \in A!Inode
        PROVE  fs.i_block[n] \in Seq(A!DataBlock) /\ Len(fs.i_block[n]) <= EXT2_DIRECT_BLOCKS
    BY <2>1, BlockLists
  <2>2. ASSUME NEW blk \in BlockData PROVE blk = Bytes \/ D!IsBlock(blk, A!Inode)
    BY <2>2, SameBlocks DEF BlockData, Wf, DP!WellFormed, DP!IsBlock
  <2> QED BY <2>1, <2>2, <2>3 DEF FS, TypeOK, Reason, Defect
<1> QED BY <1>1, Invariance, PTL

\* EachDerailHasItsCause: a directory with a block of no entries, a "." that is
\* another directory's and an entry that is not there are met only after the
\* defects it names, whatever files are written in between.
THEOREM DerailCauses == Spec => []EachDerailHasItsCause
<1>1. IInv => EachDerailHasItsCause
  BY DEF IInv, Good, Calm, EachDerailHasItsCause
<1> QED BY <1>1, Invariance, PTL

-------------------------------------------------------------------------------
(* The shape of the tree, as the module states it *)

\* e is the pair of name and inode of an entry of d.
Here(d, e, k, o) == /\ Row(fs, d, k, o) /\ IsEntry(o)
                    /\ e = <<At(fs, d, k, o).name, At(fs, d, k, o).inode>>

\* The module's names for the live inodes and directories.
LEMMA LiveIsLive == LiveInodes = Live(fs) /\ Dirs = {d \in Live(fs) : fs.mode[d] = "dir"}
BY DEF LiveInodes, Live, Dirs

\* The entries of a directory are its rows but the dots.
LEMMA EntriesAre ==
  ASSUME fs \in FS, Sound(fs), NEW up, Tree(fs, up, 0), NEW d \in Live(fs)
  PROVE  \A e : e \in Entries(d) <=> \E k, o : Here(d, e, k, o)
<1>1. d \in A!Inode
  BY LiveFacts
<1>2. ASSUME NEW k, NEW o, Row(fs, d, k, o)
      PROVE  At(fs, d, k, o).name \in Name <=> IsEntry(o)
  <2>1. At(fs, d, k, o).name \in D!FileName
    BY <1>1, <1>2, RowFacts
  <2> QED BY <1>2, <2>1, EntryNames, NameFacts
<1> DEFINE In(blk) == {<<blk[o].name, blk[o].inode>> : o \in {q \in D!Starts(blk) : blk[q].name \in Name}}
<1>3. Entries(d) = UNION {In(fs.data[b]) : b \in ToSet(fs.i_block[d])}
  BY DEF Entries
<1>4. ASSUME NEW e, e \in Entries(d) PROVE \E k, o : Here(d, e, k, o)
  <2>1. PICK b \in ToSet(fs.i_block[d]) : e \in In(fs.data[b])
    BY <1>3, <1>4
  <2>2. PICK k \in DOMAIN fs.i_block[d] : b = fs.i_block[d][k]
    BY <2>1 DEF ToSet
  <2>3. PICK o \in D!Starts(fs.data[b]) : /\ fs.data[b][o].name \in Name
                                          /\ e = <<fs.data[b][o].name, fs.data[b][o].inode>>
    BY <2>1
  <2>4. Row(fs, d, k, o) /\ At(fs, d, k, o) = fs.data[b][o]
    BY <2>2, <2>3 DEF Row, At, Block, D!Starts
  <2>5. IsEntry(o)
    BY <1>2, <2>3, <2>4
  <2> QED BY <2>3, <2>4, <2>5 DEF Here
<1>5. ASSUME NEW e, NEW k, NEW o, Here(d, e, k, o) PROVE e \in Entries(d)
  <2> DEFINE b == fs.i_block[d][k]
  <2>1. /\ k \in DOMAIN fs.i_block[d] /\ o \in DOMAIN fs.data[b]
        /\ e = <<fs.data[b][o].name, fs.data[b][o].inode>>
    BY <1>5 DEF Here, Row, At, Block
  <2>2. fs.data[b][o].name \in Name
    BY <1>2, <1>5 DEF Here, At, Block
  <2>3. e \in In(fs.data[b])
    <3> HIDE DEF b
    <3> QED BY <2>1, <2>2 DEF D!Starts
  <2>4. b \in ToSet(fs.i_block[d])
    BY <2>1 DEF ToSet
  <2> HIDE DEF b, In
  <2> QED BY <1>3, <2>3, <2>4
<1> QED BY <1>4, <1>5

\* The recursion of Located.
Extend(s) == UNION {{<<Append(at[1], e[1]), e[2]>> : e \in Entries(at[2])}
                      : at \in {at \in s : at[2] \in Dirs}}
Levels(g, n) == g[0] = {<<<<>>, ROOT_INODE>>} /\ \A k \in 0 .. n - 1 : g[k + 1] = Extend(g[k])

\* The recursion exists, and its last level is reached in as many steps as there
\* are directories.
LEMMA LocatedLevels ==
  ASSUME Cardinality(Dirs) \in Nat,
         \A d \in Dirs : \A e \in Entries(d) : e[1] \in Name /\ e[2] \in A!Inode
  PROVE  \E g : Levels(g, Cardinality(Dirs)) /\ Located = UNION {g[k] : k \in 0 .. Cardinality(Dirs)}
<1> DEFINE n == Cardinality(Dirs)
           es == [d \in Dirs |-> Entries(d)]
           start == {<<<<>>, ROOT_INODE>>}
           Ext(s) == UNION {{<<Append(at[1], e[1]), e[2]>> : e \in es[at[2]]}
                              : at \in {at \in s : at[2] \in Dirs}}
           from[k \in 0 .. n] == IF k = 0 THEN start ELSE Ext(from[k - 1])
           F(g) == g = [k \in 0 .. n |-> IF k = 0 THEN start ELSE Ext(g[k - 1])]
           Place == Seq(Name) \X A!Inode
           Places == SUBSET Place
           step == [s \in Places |-> Ext(s)]
<1>1. Located = UNION {from[k] : k \in DOMAIN from}
  BY DEF Located
<1>2. ASSUME NEW s PROVE Ext(s) = Extend(s)
  <2> DEFINE In(x) == \E at \in s : /\ at[2] \in Dirs
                                    /\ \E e \in Entries(at[2]) : x = <<Append(at[1], e[1]), e[2]>>
  <2>1. \A d \in Dirs : es[d] = Entries(d)
    OBVIOUS
  <2> HIDE DEF es
  <2>2. \A x : x \in Ext(s) <=> In(x)
    BY <2>1
  <2>3. \A x : x \in Extend(s) <=> In(x)
    BY DEF Extend
  <2> HIDE DEF Ext, In
  <2> QED BY <2>2, <2>3
<1>3. start \in Places
  <2> DEFINE none == <<>>
  <2>1. none \in Seq(Name) /\ ROOT_INODE \in A!Inode
    BY LayoutFacts
  <2> HIDE DEF none
  <2>2. {<<none, ROOT_INODE>>} \in SUBSET (Seq(Name) \X A!Inode)
    BY <2>1
  <2> QED BY <2>2 DEF none
<1>4. ASSUME NEW s \in Places PROVE Ext(s) \in Places
  <2>1. ASSUME NEW at \in s, at[2] \in Dirs, NEW e \in es[at[2]]
        PROVE  <<Append(at[1], e[1]), e[2]>> \in Place
    <3>1. at[1] \in Seq(Name) /\ e[1] \in Name /\ e[2] \in A!Inode
      BY <1>4, <2>1
    <3>2. Append(at[1], e[1]) \in Seq(Name)
      BY <3>1, AppendProperties
    <3> QED BY <3>1, <3>2
  <2> HIDE DEF es, Place
  <2> QED BY <2>1
<1> HIDE DEF Ext, es
<1>5. step \in [Places -> Places]
  BY <1>4
<1>6. \E g : F(g)
  <2>1. PICK g \in [0 .. n -> Places] : Iterates(g, start, step, n)
    <3> HIDE DEF step, start, Places
    <3> QED BY <1>3, <1>5, IterationExists
  <2>2. g[0] = start /\ \A k \in 0 .. n - 1 : g[k + 1] = step[g[k]]
    BY <2>1 DEF Iterates
  <2>3. ASSUME NEW k \in 0 .. n PROVE g[k] = IF k = 0 THEN start ELSE Ext(g[k - 1])
    <3>1. CASE k = 0
      BY <2>2, <3>1
    <3>2. CASE k # 0
      <4>1. k - 1 \in 0 .. n - 1 /\ (k - 1) + 1 = k /\ k - 1 \in 0 .. n
        BY <3>2
      <4>2. g[k] = step[g[k - 1]] /\ g[k - 1] \in Places
        BY <2>1, <2>2, <4>1
      <4> QED BY <3>2, <4>2
    <3> QED BY <3>1, <3>2
  <2> HIDE DEF step, start
  <2>4. F(g)
    BY <2>1, <2>3
  <2> HIDE DEF F
  <2> QED BY <2>4
<1>7. F(from)
  <2>1. from = CHOOSE g : F(g)
    OBVIOUS
  <2> HIDE DEF F, from
  <2> QED BY <1>6, <2>1
<1> HIDE DEF from
<1>8. DOMAIN from = 0 .. n /\ \A k \in 0 .. n : from[k] = IF k = 0 THEN start ELSE Ext(from[k - 1])
  BY <1>7
<1> HIDE DEF F
<1>9. Levels(from, n)
  <2>1. from[0] = start
    BY <1>8
  <2>2. ASSUME NEW k \in 0 .. n - 1 PROVE from[k + 1] = Extend(from[k])
    <3>1. k + 1 \in 0 .. n /\ k + 1 # 0 /\ (k + 1) - 1 = k
      OBVIOUS
    <3> QED BY <1>2, <1>8, <3>1
  <2> QED BY <2>1, <2>2 DEF Levels
<1> QED BY <1>1, <1>8, <1>9

\* Every inode is at most as far from the root as there are directories.
LEMMA RankBound ==
  ASSUME fs \in FS, NEW up, Tree(fs, up, 0), NEW rank, Ranks(fs, up, rank)
  PROVE  /\ Cardinality(Dirs) \in Nat
         /\ \A n \in Live(fs) : rank[n] <= Cardinality(Dirs)
<1>1. IsFiniteSet(Dirs) /\ Cardinality(Dirs) \in Nat
  <2>1. IsFiniteSet(A!Inode)
    BY FS_Interval, LayoutFacts DEF A!Inode, AP!Layout
  <2>2. Dirs \subseteq A!Inode
    BY LiveFacts, LiveIsLive
  <2> QED BY <2>1, <2>2, FS_Subset, FS_CardinalityType
<1>2. ASSUME NEW n \in Live(fs) PROVE rank[n] <= Cardinality(Dirs)
  <2> DEFINE r == rank[n]
             image == {rank[x] : x \in Dirs}
             onto == [x \in Dirs |-> rank[x]]
             S == {k \in Nat : k < r => \E d \in Dirs : rank[d] = r - 1 - k}
  <2>1. r \in Nat /\ n \in A!Inode
    BY <1>2, LiveFacts DEF Ranks
  <2>2. ASSUME NEW m \in Live(fs), rank[m] > 0
        PROVE  up[m] \in Dirs /\ rank[up[m]] = rank[m] - 1
    <3>1. m # ROOT_INODE /\ m \in A!Inode /\ m # 0
      BY <2>2, LiveFacts, LayoutFacts DEF Ranks
    <3>2. up[m] \in Live(fs) /\ Named(fs, up[m], m) /\ rank[m] = rank[up[m]] + 1
      BY <2>2, <3>1 DEF Tree, Ranks
    <3>3. fs.mode[up[m]] = "dir"
      BY <3>2, WithRows DEF Named
    <3>4. rank[up[m]] \in Nat /\ rank[m] \in Nat
      BY <3>1, <3>2, LiveFacts DEF Ranks
    <3> QED BY <3>2, <3>3, <3>4, LiveIsLive
  <2>3. 0 \in S
    <3>1. ASSUME r > 0 PROVE \E d \in Dirs : rank[d] = r - 1
      BY <1>2, <2>2, <3>1
    <3> QED BY <2>1, <3>1
  <2>4. ASSUME NEW k \in Nat, k \in S PROVE k + 1 \in S
    <3>1. ASSUME k + 1 < r PROVE \E d \in Dirs : rank[d] = r - 1 - (k + 1)
      <4>1. PICK d \in Dirs : rank[d] = r - 1 - k
        BY <2>1, <2>4, <3>1
      <4>2. d \in Live(fs) /\ rank[d] > 0
        BY <2>1, <3>1, <4>1, LiveIsLive
      <4>3. up[d] \in Dirs /\ rank[up[d]] = r - 1 - (k + 1)
        BY <2>1, <2>2, <4>1, <4>2
      <4> QED BY <4>3
    <3> QED BY <3>1
  <2>5. \A k \in Nat : k \in S
    <3> HIDE DEF S
    <3> QED BY <2>3, <2>4, NatSetInduction
  <2>6. 0 .. r - 1 \subseteq image
    <3> SUFFICES ASSUME NEW j \in 0 .. r - 1 PROVE \E d \in Dirs : rank[d] = j
      OBVIOUS
    <3>1. r - 1 - j \in Nat /\ r - 1 - j < r /\ r - 1 - (r - 1 - j) = j
      BY <2>1
    <3>2. r - 1 - j \in S
      BY <2>5, <3>1
    <3> QED BY <3>1, <3>2
  <2>7. IsFiniteSet(image) /\ Cardinality(image) <= Cardinality(Dirs)
    <3>1. onto \in Surjection(Dirs, image)
      BY DEF Surjection
    <3> HIDE DEF onto, image
    <3> QED BY <1>1, <3>1, FS_Surjection
  <2> HIDE DEF image
  <2>8. Cardinality(0 .. r - 1) <= Cardinality(image) /\ Cardinality(image) \in Nat
    BY <2>6, <2>7, FS_Subset, FS_CardinalityType
  <2>9. Cardinality(0 .. r - 1) = r
    <3>1. 0 \in Int /\ r - 1 \in Int /\ (0 > r - 1 => r = 0) /\ (r - 1) - 0 + 1 = r
      BY <2>1
    <3> QED BY <3>1, FS_Interval
  <2> QED BY <1>1, <2>1, <2>7, <2>8, <2>9
<1> QED BY <1>1, <1>2

\* Where the paths lead: to every live inode and to no other.
LEMMA AllLocated ==
  ASSUME fs \in FS, Sound(fs), NEW up, Tree(fs, up, 0), Ranked(fs, up)
  PROVE  {at[2] : at \in Located} = Live(fs)
<1> DEFINE n == Cardinality(Dirs)
<1>1. PICK rank : Ranks(fs, up, rank)
  BY DEF Ranked
<1>2. n \in Nat /\ \A m \in Live(fs) : rank[m] <= n
  BY <1>1, RankBound
<1>3. ASSUME NEW d \in Dirs, NEW e \in Entries(d)
      PROVE  /\ e[1] \in Name /\ e[2] \in Live(fs)
             /\ \E k, o : Row(fs, d, k, o) /\ IsEntry(o) /\ e = <<At(fs, d, k, o).name, At(fs, d, k, o).inode>>
  <2>1. d \in Live(fs) /\ d \in A!Inode
    BY LiveIsLive, LiveFacts
  <2>2. PICK k, o : Here(d, e, k, o)
    BY <2>1, EntriesAre
  <2>3. Row(fs, d, k, o) /\ IsEntry(o) /\ e = <<At(fs, d, k, o).name, At(fs, d, k, o).inode>>
    BY <2>2 DEF Here
  <2>4. At(fs, d, k, o).name \in Name
    BY <2>1, <2>3, RowFacts, EntryNames, NameFacts
  <2>5. At(fs, d, k, o).inode \in Live(fs)
    BY <2>1, <2>3 DEF Tree, Fits
  <2> QED BY <2>3, <2>4, <2>5
<1>4. \A d \in Dirs : \A e \in Entries(d) : e[1] \in Name /\ e[2] \in A!Inode
  BY <1>3, LiveFacts
<1>5. PICK g : Levels(g, n) /\ Located = UNION {g[k] : k \in 0 .. n}
  BY <1>2, <1>4, LocatedLevels
<1>6. /\ g[0] = {<<<<>>, ROOT_INODE>>}
      /\ \A k \in 0 .. n - 1 : g[k + 1] = Extend(g[k])
  BY <1>5 DEF Levels
<1>7. ROOT_INODE \in Live(fs)
  BY LiveFacts
<1> HIDE DEF n
<1>8. ASSUME NEW k \in 0 .. n, NEW at \in g[k] PROVE at[2] \in Live(fs)
  <2> DEFINE S == {j \in 0 .. n : \A x \in g[j] : x[2] \in Live(fs)}
  <2>1. 0 \in S
    BY <1>2, <1>6, <1>7
  <2>2. ASSUME NEW j \in 0 .. n - 1, j \in S PROVE j + 1 \in S
    <3>1. j + 1 \in 0 .. n /\ g[j + 1] = Extend(g[j])
      BY <1>2, <1>6
    <3>2. ASSUME NEW x \in Extend(g[j]) PROVE x[2] \in Live(fs)
      <4>1. PICK y \in g[j] : /\ y[2] \in Dirs
                              /\ \E e \in Entries(y[2]) : x = <<Append(y[1], e[1]), e[2]>>
        BY DEF Extend
      <4> QED BY <1>3, <4>1
    <3> QED BY <3>1, <3>2
  <2>3. \A j \in 0 .. n : j \in S
    <3> HIDE DEF S
    <3> QED BY <1>2, <2>1, <2>2, RangeInduction
  <2> QED BY <2>3
<1>9. ASSUME NEW m \in Live(fs) PROVE \E k \in 0 .. n : \E at \in g[k] : at[2] = m
  <2> DEFINE S == {j \in 0 .. n : \A p \in Live(fs) : rank[p] = j => \E at \in g[j] : at[2] = p}
  <2>1. \A p \in Live(fs) : rank[p] \in 0 .. n
    BY <1>1, <1>2, LiveFacts DEF Ranks
  <2>2. 0 \in S
    <3>1. ASSUME NEW p \in Live(fs), rank[p] = 0 PROVE p = ROOT_INODE
      <4> SUFFICES ASSUME p # ROOT_INODE PROVE FALSE
        OBVIOUS
      <4>1. rank[p] = rank[up[p]] + 1 /\ up[p] \in A!Inode
        BY <1>1, LiveFacts DEF Ranks, Tree
      <4>2. rank[up[p]] \in Nat
        BY <1>1, <4>1 DEF Ranks
      <4> QED BY <3>1, <4>1, <4>2
    <3>2. <<<<>>, ROOT_INODE>> \in g[0] /\ <<<<>>, ROOT_INODE>>[2] = ROOT_INODE
      BY <1>6
    <3> HIDE DEF Levels
    <3>3. \E at \in g[0] : at[2] = ROOT_INODE
      BY <3>2
    <3> QED BY <1>2, <3>1, <3>3
  <2>3. ASSUME NEW j \in 0 .. n - 1, j \in S PROVE j + 1 \in S
    <3>1. j + 1 \in 0 .. n /\ g[j + 1] = Extend(g[j]) /\ j \in Nat
      BY <1>2, <1>6
    <3>2. ASSUME NEW p \in Live(fs), rank[p] = j + 1 PROVE \E at \in Extend(g[j]) : at[2] = p
      <4>1. p # ROOT_INODE /\ p \in A!Inode /\ p # 0
        BY <1>1, <3>1, <3>2, LiveFacts, LayoutFacts DEF Ranks
      <4>2. up[p] \in Live(fs) /\ Named(fs, up[p], p) /\ rank[p] = rank[up[p]] + 1
        BY <1>1, <4>1 DEF Tree, Ranks
      <4>3. rank[up[p]] = j
        BY <2>1, <3>1, <3>2, <4>2
      <4>4. up[p] \in Dirs
        BY <4>2, WithRows, LiveIsLive DEF Named
      <4>5. PICK k, o : Row(fs, up[p], k, o) /\ IsEntry(o) /\ At(fs, up[p], k, o).inode = p
        BY <4>2 DEF Named
      <4> DEFINE e == <<At(fs, up[p], k, o).name, At(fs, up[p], k, o).inode>>
      <4>6. e \in Entries(up[p]) /\ e[2] = p
        BY <4>2, <4>5, EntriesAre DEF Here
      <4>7. PICK y \in g[j] : y[2] = up[p]
        BY <2>3, <4>2, <4>3
      <4> HIDE DEF e
      <4>8. <<Append(y[1], e[1]), e[2]>> \in Extend(g[j])
        BY <4>4, <4>6, <4>7 DEF Extend
      <4> QED BY <4>6, <4>8
    <3> QED BY <3>1, <3>2
  <2>4. \A j \in 0 .. n : j \in S
    <3> HIDE DEF S
    <3> QED BY <1>2, <2>2, <2>3, RangeInduction
  <2> QED BY <2>1, <2>4
<1> QED BY <1>5, <1>8, <1>9

\* Before any defect the live inodes are a tree.
LEMMA IntactIsATree ==
  ASSUME IInv, Intact
  PROVE  /\ fs \in FS /\ Sound(fs)
         /\ \E up : Tree(fs, up, 0) /\ Distinct(fs) /\ Ranked(fs, up)
BY DEF IInv, Intact, Running, Good, Calm, Shape, Shaped

\* The tree has the shape the module states.
LEMMA ShapeOfTree == IInv => TreeShape
<1> SUFFICES ASSUME IInv, Intact PROVE TreeShape
  BY DEF TreeShape
<1>1. fs \in FS /\ Sound(fs)
  BY IntactIsATree
<1>2. PICK up : Tree(fs, up, 0) /\ Distinct(fs) /\ Ranked(fs, up)
  BY IntactIsATree
<1> DEFINE es == [d \in Dirs |-> Entries(d)]
           Holders(n) == {d \in Dirs : \E e \in es[d] : e[2] = n}
<1>3. ASSUME NEW d \in Dirs
      PROVE  /\ d \in Live(fs) /\ d \in A!Inode /\ fs.mode[d] = "dir"
             /\ \A e : e \in es[d] <=> \E k, o : Here(d, e, k, o)
  <2>1. d \in Live(fs) /\ d \in A!Inode /\ fs.mode[d] = "dir"
    BY LiveIsLive, LiveFacts
  <2>2. es[d] = Entries(d)
    OBVIOUS
  <2> HIDE DEF es
  <2> QED BY <1>1, <1>2, <2>1, <2>2, EntriesAre
<1> HIDE DEF es
<1>4. ASSUME NEW d \in Dirs, NEW k, NEW o, Row(fs, d, k, o), IsEntry(o)
      PROVE  At(fs, d, k, o).inode \in Live(fs) \ {ROOT_INODE} /\ up[At(fs, d, k, o).inode] = d
  BY <1>2, <1>3, <1>4 DEF Tree, Fits
<1>5. ASSUME NEW d \in Dirs, NEW e \in es[d]
      PROVE  e[2] \in Live(fs) \ {ROOT_INODE} /\ up[e[2]] = d
  <2>1. PICK k, o : Here(d, e, k, o)
    BY <1>3
  <2> QED BY <1>4, <2>1 DEF Here
<1>6. ASSUME NEW n \in Live(fs) \ {ROOT_INODE} PROVE \E d \in Dirs : Holders(n) = {d}
  <2>1. n \in A!Inode /\ n # 0
    BY LiveFacts, LayoutFacts
  <2>2. up[n] \in Live(fs) /\ Named(fs, up[n], n)
    BY <1>2, <2>1 DEF Tree
  <2>3. PICK k, o : Row(fs, up[n], k, o) /\ IsEntry(o) /\ At(fs, up[n], k, o).inode = n
    BY <2>2 DEF Named
  <2>4. up[n] \in Dirs
    BY <1>2, <2>2, <2>3, WithRows, LiveIsLive
  <2> DEFINE e == <<At(fs, up[n], k, o).name, At(fs, up[n], k, o).inode>>
  <2>5. e[2] = n /\ e \in es[up[n]]
    BY <1>3, <2>3, <2>4 DEF Here
  <2> HIDE DEF e
  <2>6. up[n] \in Holders(n)
    BY <2>4, <2>5
  <2>7. \A d \in Holders(n) : d = up[n]
    BY <1>5
  <2> HIDE DEF Holders
  <2> QED BY <2>4, <2>6, <2>7
<1>7. ASSUME NEW d \in Dirs, NEW e1 \in es[d], NEW e2 \in es[d], e1[1] = e2[1] \/ e1[2] = e2[2]
      PROVE  e1 = e2
  <2>1. PICK j, q : Here(d, e1, j, q)
    BY <1>3
  <2>2. PICK k, o : Here(d, e2, k, o)
    BY <1>3
  <2>3. /\ Row(fs, d, j, q) /\ IsEntry(q) /\ Row(fs, d, k, o) /\ IsEntry(o)
        /\ e1 = <<At(fs, d, j, q).name, At(fs, d, j, q).inode>>
        /\ e2 = <<At(fs, d, k, o).name, At(fs, d, k, o).inode>>
    BY <2>1, <2>2 DEF Here
  <2>4. \/ At(fs, d, j, q).name = At(fs, d, k, o).name
        \/ At(fs, d, j, q).inode = At(fs, d, k, o).inode
    BY <1>7, <2>3
  <2>5. j = k /\ q = o
    BY <1>2, <1>3, <2>3, <2>4 DEF Tree, Distinct
  <2> QED BY <2>3, <2>5
<1>8. ASSUME NEW d \in Dirs
      PROVE  Lookup(fs, d, Dot) = d /\ Lookup(fs, d, DotDot) = up[d]
  <2>1. fs.i_block[d] # <<>> /\ 1 \in DOMAIN fs.i_block[d]
    BY <1>1, <1>3, BlockLists DEF Sound
  <2>a. Readable(fs, d) /\ Block(fs, d, 1) # Bytes
    BY <1>2, <1>3, <2>1, OnlyDirsHold, ReadableBlocks
  <2>2. Row(fs, d, 1, 0) /\ Row(fs, d, 1, 12)
    BY <1>1, <1>3, <2>1, <2>a, DotRows
  <2>3. Fits(fs, up, 0, d, 1, 0) /\ Fits(fs, up, 0, d, 1, 12)
    BY <1>2, <1>3, <2>2 DEF Tree
  <2>4. Lookup(fs, d, Dot) = At(fs, d, 1, 0).inode /\ Lookup(fs, d, DotDot) = At(fs, d, 1, 12).inode
    BY <1>1, <1>3, <2>1, <2>a, LookupFacts
  <2> QED BY <2>3, <2>4 DEF Fits
<1>9. ASSUME NEW d \in Dirs, NEW h \in Holders(d) PROVE Lookup(fs, d, DotDot) = h
  BY <1>5, <1>8
<1>10. {at[2] : at \in Located} = LiveInodes
  BY <1>1, <1>2, AllLocated, LiveIsLive
<1>11. LiveInodes = Live(fs)
  BY LiveIsLive
<1> HIDE DEF Holders
<1>12. \A d \in Dirs :
         /\ \A e1, e2 \in es[d] : e1[1] = e2[1] \/ e1[2] = e2[2] => e1 = e2
         /\ \A e \in es[d] : e[2] \in LiveInodes \ {ROOT_INODE}
         /\ Lookup(fs, d, Dot) = d
         /\ \A h \in Holders(d) : Lookup(fs, d, DotDot) = h
  BY <1>5, <1>7, <1>8, <1>9, <1>11
<1>13. \A n \in LiveInodes \ {ROOT_INODE} : \E d \in Dirs : Holders(n) = {d}
  BY <1>6, <1>11
<1> HIDE DEF Intact
<1> QED BY ONLY <1>10, <1>12, <1>13 DEF TreeShape, es, Holders

\* TreeShape: any sequence of mkdir, create, rmdir, unlink, mv and write calls, however
\* long and whatever the sizes of the disk, leaves every live inode in exactly one
\* directory and reachable from the root, until one of the known defects strikes.
THEOREM ShapeHolds == Spec => []TreeShape
BY ShapeOfTree, Invariance, PTL
===============================================================================
