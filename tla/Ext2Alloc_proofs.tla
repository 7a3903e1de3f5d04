---------------------------- MODULE Ext2Alloc_proofs ----------------------------
(***************************************************************************)
(* Proofs about Ext2Alloc: whatever the layout of the disk and the calls,  *)
(* metadata is never given away, and two live inodes share a block only    *)
(* after an ifree that took it from one of them.                           *)
(***************************************************************************)
EXTENDS Ext2Alloc, NatFacts, SequenceTheorems, TLAPS

-------------------------------------------------------------------------------
(* Arithmetic of the layout *)

\* Division undoes the numbering of blocks and inodes within groups.
LEMMA DivMod ==
  ASSUME NEW s \in Nat \ {0}, NEW g \in Nat, NEW o \in 0 .. s - 1
  PROVE  (g * s + o) \div s = g /\ (g * s + o) % s = o
OBVIOUS

LEMMA BlockAddress ==
  ASSUME NEW g \in Group, NEW o \in BlockBit
  PROVE  /\ GroupOf(get_group_index(g) + o) = g
         /\ Offset(get_group_index(g) + o) = o
<1>1. blocks_per_group \in Nat \ {0} /\ g \in Nat /\ o \in 0 .. blocks_per_group - 1
  BY LayoutAssumption DEF Group, BlockBit, Layout
<1>2. (get_group_index(g) + o) - 1 = g * blocks_per_group + o
  BY <1>1 DEF get_group_index
<1>3. /\ (g * blocks_per_group + o) \div blocks_per_group = g
      /\ (g * blocks_per_group + o) % blocks_per_group = o
  BY <1>1, DivMod
<1> QED BY <1>2, <1>3 DEF GroupOf, Offset

\* A data block lies in a group, behind its metadata, and its group and offset
\* are its address.
LEMMA DataBlockAddress ==
  ASSUME NEW b \in DataBlock
  PROVE  /\ b \in Nat \ {0}
         /\ GroupOf(b) \in Group
         /\ Offset(b) \in reserved .. blocks_per_group - 1
         /\ Offset(b) \in BlockBit
         /\ b = get_group_index(GroupOf(b)) + Offset(b)
<1>1. PICK g \in Group, o \in reserved .. blocks_per_group - 1 : b = get_group_index(g) + o
  BY DEF DataBlock
<1>2. o \in BlockBit
  BY LayoutAssumption DEF BlockBit, Layout
<1>3. GroupOf(b) = g /\ Offset(b) = o
  BY <1>1, <1>2, BlockAddress
<1>4. b \in Nat \ {0}
  BY <1>1, LayoutAssumption DEF get_group_index, Group, Layout
<1> QED BY <1>1, <1>2, <1>3, <1>4

LEMMA InodeAddress ==
  ASSUME NEW n \in Inode
  PROVE  /\ n \in Nat \ {0}
         /\ InodeGroup(n) \in Group
         /\ InodeIndex(n) \in InodeBit
         /\ n = InodeGroup(n) * inodes_per_group + InodeIndex(n) + 1
<1> DEFINE s == inodes_per_group
<1>1. s \in Nat \ {0} /\ full_group_count \in Nat /\ n \in Nat \ {0}
  BY LayoutAssumption DEF Inode, Layout
<1>2. n - 1 \in Nat /\ n - 1 < full_group_count * s
  BY <1>1 DEF Inode
<1> HIDE DEF s
<1>3. /\ (n - 1) \div s \in Nat /\ (n - 1) % s \in 0 .. s - 1
      /\ n - 1 = ((n - 1) \div s) * s + ((n - 1) % s)
  <2> DEFINE k == n - 1
  <2>1. k \in Nat
    BY <1>2
  <2> HIDE DEF k
  <2>2. k \div s \in Nat /\ k % s \in 0 .. s - 1 /\ k = (k \div s) * s + (k % s)
    BY <1>1, <2>1
  <2> QED BY <2>2 DEF k
<1>4. (n - 1) \div s < full_group_count
  BY <1>1, <1>2, <1>3
<1> QED BY <1>1, <1>2, <1>3, <1>4 DEF s, InodeGroup, InodeIndex, Group, InodeBit

LEMMA RootInode == ROOT_INODE \in Inode /\ 0 \in Group
<1>1. \A f, s, r \in Nat : f >= 2 /\ r # 0 /\ r < s => r \in 1 .. f * s
  OBVIOUS
<1> QED BY <1>1, LayoutAssumption DEF Inode, Group, Layout

LEMMA InodeGroupNumber == \A n \in Inode : n \div inodes_per_group \in Nat
<1> SUFFICES ASSUME NEW n \in Inode PROVE n \div inodes_per_group \in Nat
  OBVIOUS
<1>1. n \in Nat /\ inodes_per_group \in Nat \ {0}
  BY InodeAddress, LayoutAssumption DEF Layout
<1> QED BY <1>1

-------------------------------------------------------------------------------
(* What the searches find *)

InUse(bb, b) == Offset(b) \in bb[GroupOf(b)]
Taken(ib, n) == InodeIndex(n) \in ib[InodeGroup(n)]

\* ialloc returns an inode that is not live.
LEMMA IallocFindsDead ==
  ASSUME NEW ib \in [Group -> SUBSET InodeBit], NEW n, n = ialloc(ib), n # 0
  PROVE  n \in Inode /\ n >= s_first_ino /\ n # ROOT_INODE /\ ~Taken(ib, n)
<1> DEFINE open == {i \in Group : Candidates(ib, i) # {}}
           i == Min(open)
           o == Min(Candidates(ib, i))
<1>1. s_first_ino \in Nat
  BY LayoutAssumption DEF Layout
<1>2. open # {} /\ n = o + i * inodes_per_group + 1
  BY DEF ialloc
<1>3. i \in Group /\ Candidates(ib, i) # {}
  <2>1. open \in SUBSET Nat
    BY DEF Group
  <2> QED BY <1>2, <2>1, MinIsLeast
<1>4. /\ o \in InodeBit /\ o \notin ib[i]
      /\ o + i * inodes_per_group + 1 >= s_first_ino
  <2>1. Candidates(ib, i) \in SUBSET Nat
    BY DEF Candidates, InodeBit
  <2>2. o \in Candidates(ib, i)
    BY <1>3, <2>1, MinIsLeast
  <2> QED BY <2>2 DEF Candidates
<1> HIDE DEF i, o, open
<1>5. InodeGroup(n) = i /\ InodeIndex(n) = o
  <2>1. inodes_per_group \in Nat \ {0} /\ i \in Nat /\ o \in 0 .. inodes_per_group - 1
    BY <1>3, <1>4, LayoutAssumption DEF Group, InodeBit, Layout
  <2>2. n - 1 = i * inodes_per_group + o
    BY <1>2, <2>1
  <2> QED BY <2>1, <2>2, DivMod DEF InodeGroup, InodeIndex
<1>6. n >= s_first_ino /\ n # ROOT_INODE
  BY <1>1, <1>2, <1>4, LayoutAssumption DEF Layout
<1>7. n \in Inode
  <2>1. ASSUME NEW f \in Nat, NEW s \in Nat, NEW j \in 0 .. f - 1, NEW p \in 0 .. s - 1
        PROVE  p + j * s + 1 \in 1 .. f * s
    <3>1. j * s \in Nat /\ (f - j - 1) * s \in Nat
      OBVIOUS
    <3>2. f * s = (f - j - 1) * s + j * s + s
      OBVIOUS
    <3> QED BY <3>1, <3>2
  <2> QED BY <1>2, <1>3, <1>4, <2>1, LayoutAssumption DEF Inode, Group, InodeBit, Layout
<1> QED BY <1>4, <1>5, <1>6, <1>7 DEF Taken

\* ballocs returns a data block that is not in use.
LEMMA BallocsFindsFree ==
  ASSUME NEW bb \in [Group -> SUBSET BlockBit],
         \A i \in Group : 0 .. reserved - 1 \subseteq bb[i],
         NEW g \in Nat, NEW b, b = ballocs(bb, g), b # EXT2M_I_BLOCK_END
  PROVE  b \in DataBlock /\ ~InUse(bb, b)
<1> DEFINE hits == {k \in 0 .. full_group_count - 2 :
                      ClearBits(bb, Visited(g, k)) # {}}
           k == Min(hits)
           i == Visited(g, k)
           o == Min(ClearBits(bb, i))
<1>1. hits # {} /\ b = get_group_index(i) + o
  BY DEF ballocs
<1>2. k \in 0 .. full_group_count - 2 /\ ClearBits(bb, i) # {}
  <2>1. hits \in SUBSET Nat
    BY LayoutAssumption DEF Layout
  <2>2. k \in hits
    BY <1>1, <2>1, MinIsLeast
  <2> QED BY <2>2
<1>3. i \in Group
  <2>1. \A f \in Nat \ {0}, x \in Nat : x % f \in 0 .. f - 1
    OBVIOUS
  <2>2. full_group_count \in Nat \ {0} /\ g + k \in Nat
    BY <1>2, LayoutAssumption DEF Layout
  <2>3. (g + k) % full_group_count \in 0 .. full_group_count - 1
    BY <2>1, <2>2
  <2> QED BY <2>3 DEF Visited, Group
<1>4. o \in BlockBit /\ o \notin bb[i]
  <2>1. ClearBits(bb, i) \in SUBSET Nat
    BY DEF ClearBits, BlockBit
  <2>2. o \in ClearBits(bb, i)
    BY <1>2, <2>1, MinIsLeast
  <2> QED BY <2>2 DEF ClearBits
<1> HIDE DEF hits, k, i, o
<1>5. o \in reserved .. blocks_per_group - 1
  BY <1>3, <1>4, LayoutAssumption DEF BlockBit, Layout
<1>6. b \in DataBlock
  BY <1>1, <1>3, <1>5 DEF DataBlock
<1>7. GroupOf(b) = i /\ Offset(b) = o
  BY <1>1, <1>3, <1>4, BlockAddress
<1> QED BY <1>4, <1>6, <1>7 DEF InUse

\* Marking a data block marks no other one.
LEMMA SetBlockMarks ==
  ASSUME NEW bb \in [Group -> SUBSET BlockBit],
         NEW b \in DataBlock, NEW new, new = SetBlock(bb, b)
  PROVE  /\ new \in [Group -> SUBSET BlockBit]
         /\ \A i \in Group : bb[i] \subseteq new[i]
         /\ \A c \in DataBlock : InUse(new, c) <=> InUse(bb, c) \/ c = b
<1>1. GroupOf(b) \in Group /\ Offset(b) \in BlockBit
  BY DataBlockAddress
<1>2. /\ new \in [Group -> SUBSET BlockBit]
      /\ \A i \in Group : bb[i] \subseteq new[i]
  BY <1>1 DEF SetBlock
<1>3. ASSUME NEW c \in DataBlock
      PROVE  InUse(new, c) <=> InUse(bb, c) \/ c = b
  <2>1. GroupOf(c) \in Group
    BY DataBlockAddress
  <2>2. CASE GroupOf(c) = GroupOf(b) /\ Offset(c) = Offset(b)
    <3>1. c = b
      BY <2>2, DataBlockAddress
    <3> QED BY <1>1, <3>1 DEF SetBlock, InUse
  <2>3. CASE ~(GroupOf(c) = GroupOf(b) /\ Offset(c) = Offset(b))
    BY <1>1, <2>1, <2>3 DEF SetBlock, InUse
  <2> QED BY <2>2, <2>3
<1> QED BY <1>2, <1>3

\* Clearing data blocks clears no other one, and no metadata.
LEMMA ResetBlocksClears ==
  ASSUME NEW bb \in [Group -> SUBSET BlockBit],
         NEW S \in SUBSET DataBlock, NEW new, new = ResetBlocks(bb, S)
  PROVE  /\ new \in [Group -> SUBSET BlockBit]
         /\ \A i \in Group : bb[i] \cap 0 .. reserved - 1 \subseteq new[i]
         /\ \A c \in DataBlock : InUse(new, c) <=> InUse(bb, c) /\ c \notin S
<1>1. new \in [Group -> SUBSET BlockBit]
  BY DEF ResetBlocks
<1>2. ASSUME NEW i \in Group, NEW o \in bb[i], o \in 0 .. reserved - 1
      PROVE  o \in new[i]
  <2>1. \A c \in S : Offset(c) # o
    BY <1>2, DataBlockAddress, LayoutAssumption DEF Layout
  <2> QED BY <2>1 DEF ResetBlocks
<1>3. ASSUME NEW c \in DataBlock
      PROVE  InUse(new, c) <=> InUse(bb, c) /\ c \notin S
  <2>1. GroupOf(c) \in Group
    BY DataBlockAddress
  <2>2. \A d \in S : GroupOf(d) = GroupOf(c) /\ Offset(d) = Offset(c) => d = c
    BY DataBlockAddress
  <2> QED BY <2>1, <2>2 DEF ResetBlocks, InUse
<1> QED BY <1>1, <1>2, <1>3

\* Setting the bit of a dead inode makes it live, and no other.
LEMMA SetInodeRevives ==
  ASSUME NEW ib \in [Group -> SUBSET InodeBit],
         NEW n \in Inode, NEW new, new = SetInode(ib, n)
  PROVE  /\ new \in [Group -> SUBSET InodeBit]
         /\ \A m \in Inode : Taken(new, m) <=> Taken(ib, m) \/ m = n
<1>1. InodeGroup(n) \in Group /\ InodeIndex(n) \in InodeBit
  BY InodeAddress
<1>2. new \in [Group -> SUBSET InodeBit]
  BY <1>1 DEF SetInode
<1>3. ASSUME NEW m \in Inode
      PROVE  Taken(new, m) <=> Taken(ib, m) \/ m = n
  <2>1. InodeGroup(m) \in Group
    BY InodeAddress
  <2>2. CASE InodeGroup(m) = InodeGroup(n) /\ InodeIndex(m) = InodeIndex(n)
    <3>1. m = n
      BY <2>2, InodeAddress
    <3> QED BY <1>1, <3>1 DEF SetInode, Taken
  <2>3. CASE ~(InodeGroup(m) = InodeGroup(n) /\ InodeIndex(m) = InodeIndex(n))
    BY <1>1, <2>1, <2>3 DEF SetInode, Taken
  <2> QED BY <2>2, <2>3
<1> QED BY <1>2, <1>3

LEMMA ResetInodeKills ==
  ASSUME NEW ib \in [Group -> SUBSET InodeBit],
         NEW n \in Inode, NEW new, new = ResetInode(ib, n)
  PROVE  /\ new \in [Group -> SUBSET InodeBit]
         /\ \A m \in Inode : Taken(new, m) <=> Taken(ib, m) /\ m # n
<1>1. InodeGroup(n) \in Group /\ InodeIndex(n) \in InodeBit
  BY InodeAddress
<1>2. new \in [Group -> SUBSET InodeBit]
  BY <1>1 DEF ResetInode
<1>3. ASSUME NEW m \in Inode
      PROVE  Taken(new, m) <=> Taken(ib, m) /\ m # n
  <2>1. InodeGroup(m) \in Group
    BY InodeAddress
  <2>2. CASE InodeGroup(m) = InodeGroup(n) /\ InodeIndex(m) = InodeIndex(n)
    <3>1. m = n
      BY <2>2, InodeAddress
    <3> QED BY <1>1, <3>1 DEF ResetInode, Taken
  <2>3. CASE ~(InodeGroup(m) = InodeGroup(n) /\ InodeIndex(m) = InodeIndex(n))
    <3>1. m # n
      BY <2>3
    <3> QED BY <1>1, <2>1, <2>3, <3>1 DEF ResetInode, Taken
  <2> QED BY <2>2, <2>3
<1> QED BY <1>2, <1>3

-------------------------------------------------------------------------------
(* The actions *)

LEMMA InitInvariant == Init => IInv
<1> SUFFICES ASSUME Init PROVE IInv
  OBVIOUS
<1> USE DEF Init
<1>1. reserved \in Nat /\ reserved - 1 \in Int /\ reserved \in BlockBit
      /\ 0 .. reserved \subseteq BlockBit /\ 0 .. reserved - 1 \subseteq 0 .. reserved
  BY LayoutAssumption DEF BlockBit, Layout
<1>2. 0 \in Group /\ reserved \in reserved .. blocks_per_group - 1
  BY RootInode, LayoutAssumption DEF Layout
<1>3. RootBlock \in DataBlock
  BY <1>2 DEF DataBlock, RootBlock
<1>4. i_block \in [Inode -> Seq(DataBlock)]
  BY <1>3
<1>5. block_bitmap \in [Group -> SUBSET BlockBit]
  BY <1>1
<1>6. inode_bitmap \in [Group -> SUBSET InodeBit]
  OBVIOUS
<1>7. TypeOK
  BY <1>4, <1>5, <1>6, RootInode DEF TypeOK
<1>8. MetadataReserved
  BY <1>1 DEF MetadataReserved
<1>9. Blocks(ROOT_INODE) = {RootBlock} /\ Len(i_block[ROOT_INODE]) = 1
  <2>1. i_block[ROOT_INODE] = <<RootBlock>>
    BY RootInode
  <2> QED BY <2>1 DEF Blocks, ToSet
<1>10. \A n \in Inode : n # ROOT_INODE => Blocks(n) = {} /\ i_block[n] = <<>>
  BY DEF Blocks, ToSet
<1>11. Used(RootBlock)
  <2>1. GroupOf(RootBlock) = 0 /\ Offset(RootBlock) = reserved
    BY <1>1, <1>2, BlockAddress DEF RootBlock
  <2> QED BY <1>1, <1>2, <2>1 DEF Used
<1>12. LiveBlocksUsed
  BY <1>9, <1>10, <1>11 DEF LiveBlocksUsed
<1>13. NoCrossLink
  BY <1>10 DEF NoCrossLink
<1>14. NoDoubleHold
  <2> SUFFICES ASSUME NEW n \in Inode,
                      NEW i \in DOMAIN i_block[n], NEW j \in DOMAIN i_block[n]
               PROVE  i = j
    BY DEF NoDoubleHold
  <2>1. n = ROOT_INODE
    BY <1>10
  <2> QED BY <2>1
<1> QED BY <1>7, <1>8, <1>12, <1>13, <1>14 DEF IInv

\* An inode that just became live, with no block or with one that was free,
\* leaves the other inodes alone.
LEMMA NewInodeStep ==
  ASSUME IInv, Running, Running',
         NEW n \in Inode, n = ialloc(inode_bitmap),
         inode_bitmap' = SetInode(inode_bitmap, n),
         NEW s, i_block' = [i_block EXCEPT ![n] = s], misfreed' = misfreed,
         written' = written \cup {n},
         \/ s = <<>> /\ block_bitmap' = block_bitmap
         \/ \E b \in DataBlock : /\ s = <<b>> /\ ~Used(b)
                               /\ block_bitmap' = SetBlock(block_bitmap, b)
  PROVE  IInv'
<1> USE DEF IInv
<1>1. n >= s_first_ino /\ n # ROOT_INODE /\ ~Live(n)
  <2>1. n # 0
    BY InodeAddress
  <2> QED BY <2>1, IallocFindsDead DEF TypeOK, Live, Taken
<1>2. /\ inode_bitmap' \in [Group -> SUBSET InodeBit]
      /\ \A m \in Inode : Live(m)' <=> Live(m) \/ m = n
  BY <1>1, SetInodeRevives DEF TypeOK, Live, Taken
<1> DEFINE Effect == /\ s \in Seq(DataBlock)
                     /\ block_bitmap' \in [Group -> SUBSET BlockBit]
                     /\ \A i \in Group : block_bitmap[i] \subseteq block_bitmap'[i]
                     /\ \A c \in DataBlock : Used(c)' <=> Used(c) \/ c \in ToSet(s)
                     /\ \A c \in ToSet(s) : c \in DataBlock /\ ~Used(c)
                     /\ \A i, j \in DOMAIN s : i = j
<1>3. Effect
  <2>1. CASE s = <<>> /\ block_bitmap' = block_bitmap
    <3>1. ToSet(s) = {}
      BY <2>1 DEF ToSet
    <3> QED BY <2>1, <3>1 DEF TypeOK, Used
  <2>2. ASSUME NEW b \in DataBlock, s = <<b>>, ~Used(b),
               block_bitmap' = SetBlock(block_bitmap, b)
        PROVE  Effect
    <3>1. ToSet(s) = {b} /\ s \in Seq(DataBlock)
      BY <2>2 DEF ToSet
    <3>2. \A i, j \in DOMAIN s : i = j
      BY <2>2
    <3> QED BY SMTT(30), <2>2, <3>1, <3>2, SetBlockMarks DEF TypeOK, Used, InUse
  <2> QED BY <2>1, <2>2
<1>4. i_block' \in [Inode -> Seq(DataBlock)]
      /\ i_block'[n] = s /\ \A m \in Inode \ {n} : i_block'[m] = i_block[m]
  BY <1>3 DEF TypeOK
<1>5. /\ Blocks(n)' = ToSet(s)
      /\ \A m \in Inode \ {n} : Blocks(m)' = Blocks(m)
  BY <1>4 DEF Blocks
<1>6. \A m \in Inode : Blocks(m) \subseteq DataBlock
  BY ElementOfSeq, LenProperties DEF TypeOK, Blocks, ToSet
<1>7. TypeOK'
  BY <1>2, <1>3, <1>4 DEF TypeOK, Running
<1>8. MetadataReserved'
  BY <1>3 DEF MetadataReserved, Running
<1>9. LiveBlocksUsed'
  BY <1>2, <1>3, <1>5, <1>6 DEF LiveBlocksUsed
<1>10. NoCrossLink'
  <2> SUFFICES ASSUME NEW l \in Inode, NEW m \in Inode, Live(l)', Live(m)', l # m,
                      NEW b \in Blocks(l)' \cap Blocks(m)'
               PROVE  b \in misfreed
    BY DEF NoCrossLink
  <2>1. CASE l # n /\ m # n
    BY <1>2, <1>5, <2>1 DEF NoCrossLink
  <2>2. CASE l = n \/ m = n
    <3>1. PICK k \in Inode \ {n} : Live(k) /\ b \in Blocks(k) /\ b \in ToSet(s)
      BY <1>2, <1>5, <2>2
    <3> QED BY <1>3, <3>1 DEF LiveBlocksUsed
  <2> QED BY <2>1, <2>2
<1>11. NoDoubleHold'
  <2> SUFFICES ASSUME NEW m \in Inode, Live(m)', NEW i \in DOMAIN i_block'[m],
                      NEW j \in DOMAIN i_block'[m], i # j, i_block'[m][i] = i_block'[m][j]
               PROVE  i_block'[m][i] \in misfreed
    BY DEF NoDoubleHold
  <2>1. CASE m = n
    BY <1>3, <1>4, <2>1
  <2>2. CASE m # n
    BY <1>2, <1>4, <2>2 DEF NoDoubleHold
  <2> QED BY <2>1, <2>2
<1> QED BY <1>7, <1>8, <1>9, <1>10, <1>11

\* An inode that gains a block that was free.
LEMMA GrowStep ==
  ASSUME IInv, Running, Running', NEW n \in Inode,
         NEW b \in DataBlock, ~Used(b),
         block_bitmap' = SetBlock(block_bitmap, b),
         i_block' = [i_block EXCEPT ![n] = Append(@, b)],
         inode_bitmap' = inode_bitmap, misfreed' = misfreed, written' = written
  PROVE  IInv'
<1> USE DEF IInv
<1>1. /\ block_bitmap' \in [Group -> SUBSET BlockBit]
      /\ \A i \in Group : block_bitmap[i] \subseteq block_bitmap'[i]
      /\ \A c \in DataBlock : Used(c)' <=> Used(c) \/ c = b
  BY SetBlockMarks DEF TypeOK, Used, InUse
<1>2. \A m \in Inode : Live(m)' <=> Live(m)
  BY DEF Live
<1>3. /\ i_block[n] \in Seq(DataBlock)
      /\ i_block'[n] = Append(i_block[n], b)
      /\ i_block' \in [Inode -> Seq(DataBlock)]
      /\ \A m \in Inode \ {n} : i_block'[m] = i_block[m]
  BY DEF TypeOK
<1> DEFINE L == Len(i_block[n])
<1>4. /\ L \in Nat /\ DOMAIN i_block[n] = 1 .. L
      /\ DOMAIN i_block'[n] = 1 .. L + 1
      /\ i_block'[n][L+1] = b
      /\ \A i \in 1 .. L : i_block'[n][i] = i_block[n][i]
  BY <1>3, AppendProperties, LenProperties
<1> HIDE DEF L
<1>5. /\ Blocks(n)' = Blocks(n) \cup {b}
      /\ \A m \in Inode \ {n} : Blocks(m)' = Blocks(m)
  <2>1. Blocks(n)' \subseteq Blocks(n) \cup {b}
    BY <1>4 DEF Blocks, ToSet
  <2>2. b \in Blocks(n)'
    <3>1. L + 1 \in DOMAIN i_block'[n]
      BY <1>4
    <3> QED BY <1>4, <3>1 DEF Blocks, ToSet
  <2>3. Blocks(n) \subseteq Blocks(n)'
    BY <1>4 DEF Blocks, ToSet
  <2> QED BY <1>3, <2>1, <2>2, <2>3 DEF Blocks
<1>6. \A m \in Inode : Blocks(m) \subseteq DataBlock
  BY ElementOfSeq, LenProperties DEF TypeOK, Blocks, ToSet
<1>7. \A m \in Inode : Live(m) /\ b \in Blocks(m) => b \in misfreed
  BY DEF LiveBlocksUsed
<1>8. TypeOK'
  BY <1>1, <1>3 DEF TypeOK, Running
<1>9. MetadataReserved'
  BY <1>1 DEF MetadataReserved, Running
<1>10. LiveBlocksUsed'
  BY <1>1, <1>2, <1>5, <1>6 DEF LiveBlocksUsed
<1>11. NoCrossLink'
  BY <1>2, <1>5, <1>7 DEF NoCrossLink
<1>12. NoDoubleHold'
  <2> SUFFICES ASSUME NEW m \in Inode, Live(m), NEW i \in DOMAIN i_block'[m],
                      NEW j \in DOMAIN i_block'[m], i # j, i_block'[m][i] = i_block'[m][j]
               PROVE  i_block'[m][i] \in misfreed
    BY <1>2 DEF NoDoubleHold
  <2>1. CASE m # n
    BY <1>3, <2>1 DEF NoDoubleHold
  <2>2. CASE m = n /\ i \in 1 .. L /\ j \in 1 .. L
    BY <1>4, <2>2 DEF NoDoubleHold
  <2>3. CASE m = n /\ (i = L + 1 \/ j = L + 1)
    <3>1. PICK k \in 1 .. L : i_block[n][k] = b /\ i_block'[m][i] = b
      BY <1>4, <2>3
    <3>2. b \in Blocks(n)
      BY <1>4, <3>1 DEF Blocks, ToSet
    <3> QED BY <1>7, <2>3, <3>1, <3>2
  <2> QED BY <1>4, <2>1, <2>2, <2>3
<1> QED BY <1>8, <1>9, <1>10, <1>11, <1>12

\* ifree: what it takes from live inodes is in misfreed afterwards.
LEMMA FreeStep ==
  ASSUME IInv, NEW n \in Inode, ifree(n)
  PROVE  IInv'
<1> USE DEF IInv
<1>1. n - 1 \in Inode /\ n >= s_first_ino
  BY LayoutAssumption, InodeAddress DEF ifree, Inode, Layout
<1>2. \A m \in Inode : Blocks(m) \subseteq DataBlock
  BY ElementOfSeq, LenProperties DEF TypeOK, Blocks, ToSet
<1>3. \A b \in Blocks(n - 1) : Offset(b) >= reserved
  BY <1>1, <1>2, DataBlockAddress, LayoutAssumption DEF Layout
<1>4. ~ \E b \in Blocks(n - 1) : Offset(b) < reserved
  <2>1. ASSUME NEW b \in Blocks(n - 1) PROVE Offset(b) \in Nat
    BY <1>1, <1>2, DataBlockAddress, LayoutAssumption DEF Layout
  <2> QED BY <1>3, <2>1, LayoutAssumption DEF Layout
<1>5. /\ block_bitmap' = ResetBlocks(block_bitmap, Blocks(n - 1))
      /\ inode_bitmap' = ResetInode(inode_bitmap, n)
      /\ misfreed' = misfreed \cup
           {b \in Blocks(n - 1) : \E m \in Inode \ {n} : Live(m) /\ b \in Blocks(m)}
      /\ failed' = failed /\ i_block' = i_block /\ written' = written /\ Running
  BY <1>4 DEF ifree
<1>6. /\ block_bitmap' \in [Group -> SUBSET BlockBit]
      /\ \A i \in Group : block_bitmap[i] \cap 0 .. reserved - 1 \subseteq block_bitmap'[i]
      /\ \A c \in DataBlock : Used(c)' <=> Used(c) /\ c \notin Blocks(n - 1)
  BY <1>1, <1>2, <1>5, ResetBlocksClears DEF TypeOK, Used, InUse
<1>7. /\ inode_bitmap' \in [Group -> SUBSET InodeBit]
      /\ \A m \in Inode : Live(m)' <=> Live(m) /\ m # n
  <2>1. n # ROOT_INODE
    BY <1>1, LayoutAssumption DEF Layout
  <2>2. /\ inode_bitmap' \in [Group -> SUBSET InodeBit]
        /\ \A m \in Inode : Taken(inode_bitmap', m) <=> Taken(inode_bitmap, m) /\ m # n
    BY <1>5, ResetInodeKills DEF TypeOK
  <2> QED BY <2>1, <2>2 DEF Live, Taken
<1>8. \A m \in Inode : Blocks(m)' = Blocks(m)
  BY <1>5 DEF Blocks
<1>9. TypeOK'
  BY <1>1, <1>2, <1>5, <1>6, <1>7 DEF TypeOK
<1>10. MetadataReserved'
  BY <1>5, <1>6 DEF MetadataReserved
<1>11. LiveBlocksUsed'
  <2> SUFFICES ASSUME NEW m \in Inode, Live(m), m # n, NEW b \in Blocks(m)
               PROVE  Used(b)' \/ b \in misfreed'
    BY <1>7, <1>8 DEF LiveBlocksUsed
  <2>1. b \in DataBlock /\ (Used(b) \/ b \in misfreed)
    BY <1>2, <1>5 DEF LiveBlocksUsed
  <2> QED BY <1>5, <1>6, <2>1
<1>12. NoCrossLink'
  BY <1>5, <1>7, <1>8 DEF NoCrossLink, Running
<1>13. NoDoubleHold'
  BY <1>5, <1>7 DEF NoDoubleHold, Running
<1> QED BY <1>9, <1>10, <1>11, <1>12, <1>13

\* An assert that fails in ballocs stops everything.
LEMMA FailStep ==
  ASSUME IInv, FailBallocs, inode_bitmap' \in [Group -> SUBSET InodeBit]
  PROVE  IInv'
BY DEF IInv, FailBallocs, TypeOK, MetadataReserved, LiveBlocksUsed, NoCrossLink,
       NoDoubleHold, Running

-------------------------------------------------------------------------------
(* The specification *)

\* A block ballocs answers is a free data block.
LEMMA AllocatedIsFree ==
  ASSUME IInv, NEW n \in Inode, NEW b,
         b = ballocs(block_bitmap, n \div inodes_per_group), b # EXT2M_I_BLOCK_END
  PROVE  b \in DataBlock /\ ~Used(b)
BY InodeGroupNumber, BallocsFindsFree DEF IInv, TypeOK, MetadataReserved, Used, InUse

LEMMA Inductive == IInv /\ [Next]_vars => IInv'
<1> SUFFICES ASSUME IInv, [Next]_vars PROVE IInv'
  OBVIOUS
<1>1. CASE create_file
  <2>1. PICK n \in Inode : /\ n = ialloc(inode_bitmap)
                           /\ inode_bitmap' = SetInode(inode_bitmap, n)
                           /\ i_block' = [i_block EXCEPT ![n] = <<>>]
                           /\ written' = written \cup {n}
    BY <1>1 DEF create_file
  <2>2. Running /\ Running' /\ misfreed' = misfreed /\ block_bitmap' = block_bitmap
    BY <1>1 DEF create_file, Running
  <2> QED BY <2>1, <2>2, NewInodeStep
<1>2. CASE create_dir
  <2>1. PICK n \in Inode :
          LET b == ballocs(block_bitmap, n \div inodes_per_group) IN
          /\ n = ialloc(inode_bitmap)
          /\ inode_bitmap' = SetInode(inode_bitmap, n)
          /\ \/ b = EXT2M_I_BLOCK_END /\ FailBallocs
             \/ /\ b # EXT2M_I_BLOCK_END
                /\ block_bitmap' = SetBlock(block_bitmap, b)
                /\ i_block' = [i_block EXCEPT ![n] = <<b>>]
                /\ written' = written \cup {n}
                /\ UNCHANGED <<failed, misfreed>>
    BY <1>2 DEF create_dir
  <2> DEFINE b == ballocs(block_bitmap, n \div inodes_per_group)
  <2>2. CASE FailBallocs
    <3>1. inode_bitmap' \in [Group -> SUBSET InodeBit]
      BY <2>1, InodeAddress DEF SetInode, IInv, TypeOK
    <3> QED BY <2>2, <3>1, FailStep
  <2>3. CASE /\ b # EXT2M_I_BLOCK_END
             /\ block_bitmap' = SetBlock(block_bitmap, b)
             /\ i_block' = [i_block EXCEPT ![n] = <<b>>]
             /\ written' = written \cup {n}
             /\ UNCHANGED <<failed, misfreed>>
    <3>1. b \in DataBlock /\ ~Used(b)
      BY <2>3, AllocatedIsFree
    <3>2. Running /\ Running'
      BY <1>2, <2>3 DEF create_dir, Running
    <3> HIDE DEF b
    <3> QED BY <2>1, <2>3, <3>1, <3>2, NewInodeStep
  <2> QED BY <2>1, <2>2, <2>3
<1>3. ASSUME NEW n \in Inode, add_block_to_inode(n)
      PROVE  IInv'
  <2> DEFINE b == ballocs(block_bitmap, n \div inodes_per_group)
  <2>1. inode_bitmap' = inode_bitmap /\ written' = written /\ Running
    BY <1>3 DEF add_block_to_inode
  <2>2. CASE FailBallocs
    BY <2>1, <2>2, FailStep DEF IInv, TypeOK
  <2>3. CASE /\ b # EXT2M_I_BLOCK_END
             /\ block_bitmap' = SetBlock(block_bitmap, b)
             /\ i_block' = [i_block EXCEPT ![n] = Append(@, b)]
             /\ UNCHANGED <<failed, misfreed>>
    <3>1. b \in DataBlock /\ ~Used(b)
      BY <2>3, AllocatedIsFree
    <3>2. Running'
      BY <2>1, <2>3 DEF Running
    <3> HIDE DEF b
    <3> QED BY <2>1, <2>3, <3>1, <3>2, GrowStep
  <2> QED BY <1>3, <2>2, <2>3 DEF add_block_to_inode
<1>4. ASSUME NEW n \in Inode, ifree(n)
      PROVE  IInv'
  BY <1>4, FreeStep
<1>5. CASE UNCHANGED vars
  BY <1>5 DEF IInv, TypeOK, MetadataReserved, LiveBlocksUsed, NoCrossLink, NoDoubleHold,
              Running, Live, Blocks, Used, vars
<1> QED BY <1>1, <1>2, <1>3, <1>4, <1>5 DEF Next

THEOREM Invariance == Spec => []IInv
BY InitInvariant, Inductive, PTL DEF Spec

\* Every block number in the inode table stays a data block of the disk.
THEOREM TypeCorrect == Spec => []TypeOK
<1>1. IInv => TypeOK
  BY DEF IInv
<1> QED BY <1>1, Invariance, PTL

\* No sequence of calls gives metadata away, and bfree's assert holds.
THEOREM MetadataSafe == Spec => []MetadataReserved
<1>1. IInv => MetadataReserved
  BY DEF IInv
<1> QED BY <1>1, Invariance, PTL

\* A block of a live inode is in use, but for those an ifree took from it.
THEOREM LiveBlocksMarked == Spec => []LiveBlocksUsed
<1>1. IInv => LiveBlocksUsed
  BY DEF IInv
<1> QED BY <1>1, Invariance, PTL

\* A live inode names no block twice, but for those an ifree took from it.
THEOREM HeldOnce == Spec => []NoDoubleHold
<1>1. IInv => NoDoubleHold
  BY DEF IInv
<1> QED BY <1>1, Invariance, PTL

\* Blocks of live inodes are in use and not shared, but for those an ifree
\* took from a neighbour: that defect is the only source of double use.
THEOREM OnlyIfreeCorrupts == Spec => [](LiveBlocksUsed /\ NoCrossLink /\ NoDoubleHold)
<1>1. IInv => LiveBlocksUsed /\ NoCrossLink /\ NoDoubleHold
  BY DEF IInv
<1> QED BY <1>1, Invariance, PTL
================================================================================
