------------------------------- MODULE Ext2Alloc -------------------------------
(***************************************************************************)
(* Allocation of inodes and blocks in src/ext2m.hpp, as the handlers of    *)
(* src/vfs.hpp drive it: ialloc, ballocs, add_block_to_inode (its direct   *)
(* blocks; VfsFile has the pointer block), bfree and ifree.                *)
(*                                                                         *)
(* A bitmap is the set of the bits that are set, one per group.  Inodes    *)
(* and blocks keep the numbers the code gives them.  The inode table is    *)
(* i_block: the blocks of an inode up to the first 0.  It outlives the     *)
(* inode: ifree clears a bit and never the table.                          *)
(*                                                                         *)
(* Calls are serialised by the server's mutex, so each is one step.  An    *)
(* assert that fails aborts the process; "failed" then names it and        *)
(* nothing moves any more.                                                 *)
(***************************************************************************)
EXTENDS Naturals, Sequences, SequencesExt

CONSTANTS full_group_count,   \* groups of the disk (8)
          blocks_per_group,   \* 8192
          reserved,           \* a group's blocks before its data table
          inodes_per_group,
          s_first_ino,        \* inodes below it are never allocated (11)
          ROOT_INODE,         \* 2
          EXT2_DIRECT_BLOCKS  \* 12

\* What format makes of a disk of two groups or more.
Layout ==
  /\ full_group_count \in Nat /\ full_group_count >= 2
  /\ reserved \in Nat
  /\ blocks_per_group \in Nat /\ blocks_per_group > reserved
  /\ inodes_per_group \in Nat \ {0}
  /\ ROOT_INODE \in Nat \ {0} /\ ROOT_INODE < inodes_per_group
  /\ s_first_ino \in Nat /\ s_first_ino > ROOT_INODE
  /\ EXT2_DIRECT_BLOCKS \in Nat \ {0}

ASSUME LayoutAssumption == Layout

Group == 0 .. full_group_count - 1
BlockBit == 0 .. blocks_per_group - 1
InodeBit == 0 .. inodes_per_group - 1
Inode == 1 .. full_group_count * inodes_per_group
EXT2M_I_BLOCK_END == 0

\* Slip: group 0 taken to start at block 0, not at block 1.
get_group_index_FromZero(g) == g * blocks_per_group

get_group_index(g) == g * blocks_per_group + 1
DataBlock == {get_group_index(g) + o : g \in Group, o \in reserved .. blocks_per_group - 1}

\* Where bfree and ifree look for the bit of a block and of an inode.
\* Slip: the first-data-block offset is forgotten in the group number.
GroupOf_NoFirst(b) == b \div blocks_per_group

GroupOf(b) == (b - 1) \div blocks_per_group
Offset(b) == (b - 1) % blocks_per_group
InodeGroup(n) == (n - 1) \div inodes_per_group
InodeIndex(n) == (n - 1) % inodes_per_group

VARIABLES block_bitmap,  \* per group: the offsets of the blocks in use
          inode_bitmap,  \* per group: the indexes of the inodes in use
          i_block,       \* the blocks the inode table names, per inode
          written,       \* inodes whose table entry was ever written (i_mode # 0)
          failed,        \* the assert that ended the process, or "none"
          misfreed       \* history: blocks freed while a live inode held them

vars == <<block_bitmap, inode_bitmap, i_block, written, failed, misfreed>>

Running == failed = "none"
Blocks(n) == ToSet(i_block[n])
Used(b) == Offset(b) \in block_bitmap[GroupOf(b)]
Live(n) == \/ n = ROOT_INODE
           \/ n >= s_first_ino /\ InodeIndex(n) \in inode_bitmap[InodeGroup(n)]
-------------------------------------------------------------------------------
(* Bitmaps *)

\* The inodes ialloc may take in group i: those below s_first_ino are skipped.
Candidates(ib, i) ==
  {o \in InodeBit \ ib[i] : o + i * inodes_per_group + 1 >= s_first_ino}

\* The first clear bit of the first group that has one; 0 if there is none.
ialloc(ib) ==
  LET open == {i \in Group : Candidates(ib, i) # {}}
      i == Min(open)
  IN  IF open = {} THEN 0 ELSE Min(Candidates(ib, i)) + i * inodes_per_group + 1

SetInode(ib, n) == [ib EXCEPT ![InodeGroup(n)] = @ \cup {InodeIndex(n)}]
ResetInode(ib, n) == [ib EXCEPT ![InodeGroup(n)] = @ \ {InodeIndex(n)}]

ClearBits(bb, i) == BlockBit \ bb[i]

\* The k-th group the loop of ballocs visits.
Visited(group_id, k) == (group_id + k) % full_group_count

\* ballocs(group_id, 1): the loop stops before the group that precedes
\* group_id, whether or not it has free blocks.  The answer
\* EXT2M_I_BLOCK_END stands for an assert that fails: the assert(0) after the
\* loop, or, for group_id = full_group_count (which add_block_to_inode and
\* find_dir_from_inode compute for the last inode), the range check of
\* read_block on the bitmap of a group that does not exist.
ballocs(bb, group_id) ==
  LET hits == {k \in 0 .. full_group_count - 2 : ClearBits(bb, Visited(group_id, k)) # {}}
      i == Visited(group_id, Min(hits))
  IN  IF group_id \notin Group \/ hits = {}
      THEN EXT2M_I_BLOCK_END
      ELSE get_group_index(i) + Min(ClearBits(bb, i))

SetBlock(bb, b) == [bb EXCEPT ![GroupOf(b)] = @ \cup {Offset(b)}]

\* Slip: the bit is cleared in every group's bitmap.
ResetBlocks_AllGroups(bb, S) == [i \in Group |-> bb[i] \ {Offset(b) : b \in S}]

ResetBlocks(bb, S) == [i \in Group |-> bb[i] \ {Offset(b) : b \in {c \in S : GroupOf(c) = i}}]
-------------------------------------------------------------------------------
(* Operations *)

\* format: the blocks before the data table of each group are in use, and the
\* first free one becomes the root directory's.  The bit set in the inode
\* bitmap is bit 2, the one of inode 3.
RootBlock == get_group_index(0) + reserved

Init ==
  /\ block_bitmap = [i \in Group |-> IF i = 0 THEN 0 .. reserved ELSE 0 .. reserved - 1]
  /\ inode_bitmap = [i \in Group |-> IF i = 0 THEN {2} \cap InodeBit ELSE {}]
  /\ i_block = [n \in Inode |-> IF n = ROOT_INODE THEN <<RootBlock>> ELSE <<>>]
  /\ written = {ROOT_INODE}
  /\ failed = "none"
  /\ misfreed = {}

\* create_file_from_root: an inode without blocks.
create_file ==
  /\ Running
  /\ \E n \in Inode :
        /\ n = ialloc(inode_bitmap)
        /\ inode_bitmap' = SetInode(inode_bitmap, n)
        /\ i_block' = [i_block EXCEPT ![n] = <<>>]
        /\ written' = written \cup {n}
  /\ UNCHANGED <<block_bitmap, failed, misfreed>>

\* Ends the process in ballocs.
FailBallocs == failed' = "ballocs" /\ UNCHANGED <<block_bitmap, i_block, written, misfreed>>

\* Slip: a ballocs that fails returns nothing, and its answer is used.
create_dir_NoAssert ==
  /\ Running
  /\ \E n \in Inode :
        LET b == ballocs(block_bitmap, n \div inodes_per_group) IN
        /\ n = ialloc(inode_bitmap)
        /\ inode_bitmap' = SetInode(inode_bitmap, n)
        /\ block_bitmap' = IF b = EXT2M_I_BLOCK_END THEN block_bitmap
                                                    ELSE SetBlock(block_bitmap, b)
        /\ i_block' = [i_block EXCEPT ![n] = <<b>>]
        /\ written' = written \cup {n}
        /\ UNCHANGED <<failed, misfreed>>

\* find_dir_from_inode with creat: an inode with one block, taken from group
\* newid / inodes_per_group (one inode too early).
create_dir ==
  /\ Running
  /\ \E n \in Inode :
        LET b == ballocs(block_bitmap, n \div inodes_per_group) IN
        /\ n = ialloc(inode_bitmap)
        /\ inode_bitmap' = SetInode(inode_bitmap, n)
        /\ \/ b = EXT2M_I_BLOCK_END /\ FailBallocs
           \/ /\ b # EXT2M_I_BLOCK_END
              /\ block_bitmap' = SetBlock(block_bitmap, b)
              /\ i_block' = [i_block EXCEPT ![n] = <<b>>]
              /\ written' = written \cup {n}
              /\ UNCHANGED <<failed, misfreed>>

\* Slip: the bitmap is not written back.
add_block_to_inode_NoWrite(n) ==
  LET b == ballocs(block_bitmap, n \div inodes_per_group) IN
  /\ Running
  /\ n \in written
  /\ Len(i_block[n]) < EXT2_DIRECT_BLOCKS
  /\ UNCHANGED <<inode_bitmap, block_bitmap, written>>
  /\ \/ b = EXT2M_I_BLOCK_END /\ failed' = "ballocs" /\ UNCHANGED <<i_block, misfreed>>
     \/ /\ b # EXT2M_I_BLOCK_END
        /\ i_block' = [i_block EXCEPT ![n] = Append(@, b)]
        /\ UNCHANGED <<failed, misfreed>>

\* add_block_to_inode while a direct slot is free.  The inode may be dead: a
\* file description outlives the file it was opened on.  It exists, though:
\* its entry in the inode table was written once.
add_block_to_inode(n) ==
  LET b == ballocs(block_bitmap, n \div inodes_per_group) IN
  /\ Running
  /\ n \in written
  /\ Len(i_block[n]) < EXT2_DIRECT_BLOCKS
  /\ UNCHANGED <<inode_bitmap, written>>
  /\ \/ b = EXT2M_I_BLOCK_END /\ FailBallocs
     \/ /\ b # EXT2M_I_BLOCK_END
        /\ block_bitmap' = SetBlock(block_bitmap, b)
        /\ i_block' = [i_block EXCEPT ![n] = Append(@, b)]
        /\ UNCHANGED <<failed, misfreed>>

\* ifree frees the blocks of inode n - 1, because inode_num is decremented
\* before get_inode_all_blocks decrements it again, and clears n's bit.
\* bfree refuses (asserts) a block outside the data table.
ifree(n) ==
  /\ Running
  /\ n \in written /\ n >= s_first_ino
  /\ \/ /\ \E b \in Blocks(n - 1) : Offset(b) < reserved
        /\ failed' = "bfree"
        /\ UNCHANGED <<block_bitmap, inode_bitmap, misfreed>>
     \/ /\ \A b \in Blocks(n - 1) : Offset(b) >= reserved
        /\ block_bitmap' = ResetBlocks(block_bitmap, Blocks(n - 1))
        /\ inode_bitmap' = ResetInode(inode_bitmap, n)
        /\ misfreed' = misfreed \cup
             {b \in Blocks(n - 1) : \E m \in Inode \ {n} : Live(m) /\ b \in Blocks(m)}
        /\ UNCHANGED failed
  /\ UNCHANGED <<i_block, written>>

Next == \/ create_file
        \/ create_dir
        \/ \E n \in Inode : add_block_to_inode(n)
        \/ \E n \in Inode : ifree(n)

Spec == Init /\ [][Next]_vars
-------------------------------------------------------------------------------
(* Properties *)

\* Type invariant: every block an inode names, live or not, is a data block.
TypeOK ==
  /\ block_bitmap \in [Group -> SUBSET BlockBit]
  /\ inode_bitmap \in [Group -> SUBSET InodeBit]
  /\ i_block \in [Inode -> Seq(DataBlock)]
  /\ written \subseteq Inode
  /\ failed \in {"none", "ballocs", "bfree"}
  /\ misfreed \subseteq DataBlock

\* The super block, descriptors, bitmaps and inode table of a group are never
\* given away: no sequence of calls clears a bit in front of the data table,
\* and the assert of bfree that guards it never fails.
MetadataReserved ==
  /\ \A i \in Group : 0 .. reserved - 1 \subseteq block_bitmap[i]
  /\ failed # "bfree"

\* A block of a live inode is marked in use, unless an ifree of a neighbour
\* has freed it.
LiveBlocksUsed ==
  Running => \A n \in Inode : Live(n) => \A b \in Blocks(n) : Used(b) \/ b \in misfreed

\* Two live inodes share a block only if an ifree of a neighbour freed it.
NoCrossLink ==
  Running => \A m, n \in Inode : Live(m) /\ Live(n) /\ m # n
                        => Blocks(m) \cap Blocks(n) \subseteq misfreed

\* A live inode names a block twice only after such an ifree.
NoDoubleHold ==
  Running => \A n \in Inode : Live(n) =>
    \A i, j \in DOMAIN i_block[n] : i # j /\ i_block[n][i] = i_block[n][j]
                                      => i_block[n][i] \in misfreed

\* The inductive invariant.
IInv == TypeOK /\ MetadataReserved /\ LiveBlocksUsed /\ NoCrossLink /\ NoDoubleHold

\* "just find any free block in any group" (ext2m.hpp:826): the assert(0) of
\* ballocs is reached only on a full disk.
BallocsFindsAnyFreeBlock ==
  failed = "ballocs" => \A i \in Group : ClearBits(block_bitmap, i) = {}

\* "Free an inode" (ext2m.hpp:889): freeing one inode does not free a block
\* that another live inode holds.
IfreeSparesOthers == misfreed = {}
===============================================================================
