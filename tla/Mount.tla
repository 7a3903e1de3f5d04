--------------------------------- MODULE Mount ---------------------------------
(***************************************************************************)
(* What the constructor of Ext2m does with the image it finds: mount it if *)
(* its super block is that of an ext2 image, else format it (src/ext2m.hpp)*)
(* -- and what is left of a format when the process dies in the middle.    *)
(*                                                                         *)
(* The device is the one BlockDev promises: a written block becomes        *)
(* durable at any moment until the next sync, and a crash leaves what is   *)
(* durable.  Blocks that are never read back (the boot sector, copies of   *)
(* the super block, descriptor tables) are left out.                       *)
(***************************************************************************)
EXTENDS Integers, Sequences

CONSTANTS full_group_count, blocks_per_group, reserved, inodes_per_group,
          s_first_ino, ROOT_INODE, EXT2_DIRECT_BLOCKS,    \* see Ext2Alloc
          ForeignBits,  \* bound: the bits set in group 0 of an image that is no ext2 image
          MaxCrashes    \* bound: crashes

ASSUME MountAssumption ==
  /\ full_group_count \in Nat /\ full_group_count >= 2
  /\ reserved \in Nat
  /\ blocks_per_group \in Nat /\ blocks_per_group > reserved
  /\ ForeignBits \subseteq SUBSET (0 .. blocks_per_group - 1)
  /\ MaxCrashes \in Nat

VARIABLES content,   \* what read_block returns, per block
          stable,    \* what a new process finds in the image, per block
          pc,        \* 0: the image is checked; then the step of Format; then mounted
          root,      \* root_ino.i_block[0], a local of format
          crashes,
          laid_out,  \* history: the first part of a format was passed
          completed  \* history: a format ran to its end

vars == <<content, stable, pc, root, crashes, laid_out, completed>>

block_bitmap == [g \in 0 .. full_group_count - 1 |-> content[<<"block_bitmap", g>>]]

A == INSTANCE Ext2Alloc WITH inode_bitmap <- <<>>, i_block <- <<>>, written <- {},
                             failed <- "none", misfreed <- {}

Zero == 0
Junk == -1
Dots == 1   \* a block with the dots of the root

Super == <<"super", 0>>
Bitmap(g) == <<"block_bitmap", g>>
InodeBitmap(g) == <<"inode_bitmap", g>>
Table(g) == <<"inode_table", g>>  \* where inode 2 is in group 0: its i_block[0]
Data(b) == <<"data", b>>

Block == {Super} \cup {Data(b) : b \in A!DataBlock}
         \cup UNION {{Bitmap(g), InodeBitmap(g), Table(g)} : g \in A!Group}

Init ==
  /\ \E bits \in ForeignBits, old \in {Zero, Junk} :
       content = [b \in Block |-> CASE b = Super -> FALSE
                                    [] b = Bitmap(0) -> bits
                                    [] b # Bitmap(0) /\ b[1] \in {"block_bitmap", "inode_bitmap"} -> {}
                                    [] OTHER -> old]
  /\ stable = content
  /\ pc = 0 /\ root = 0 /\ crashes = 0
  /\ laid_out = FALSE /\ completed = FALSE
-------------------------------------------------------------------------------
(* The steps of format, in order *)

Step(op, block) == [op |-> op, block |-> block]

\* The k-th step for group g, from 0: zeros from its inode bitmap to its end,
\* then the bits of the blocks in front of its data, added to what the block
\* bitmap holds.
GroupSteps == blocks_per_group - reserved + 3
GroupStep(g, k) ==
  IF k = 0 THEN Step("zero", InodeBitmap(g))
  ELSE IF k = 1 THEN Step("zero", Table(g))
  ELSE IF k < GroupSteps - 1 THEN Step("zero", Data(A!get_group_index(g) + reserved + (k - 2)))
  ELSE Step("reserve", Bitmap(g))

Layout ==
  [i \in 1 .. full_group_count * GroupSteps + 1 |->
     IF i = 1 THEN Step("magic", Super)
              ELSE GroupStep((i - 2) \div GroupSteps, (i - 2) % GroupSteps)]

Root == <<Step("root_bit", InodeBitmap(0)), Step("ballocs", Super), Step("dots", Super),
          Step("root", Table(0)), Step("sync", Super)>>

\* Slip: the super block is written when all is done.
Format_SuperLast == Tail(Layout) \o Root \o <<Step("magic", Super), Step("sync", Super)>>

\* Slip: the first of the two syncs is forgotten.
Format_OneSync == Layout \o Root

\* Slip: the last of the two syncs is forgotten.
Format_NoLastSync == Layout \o <<Step("sync", Super)>> \o SubSeq(Root, 1, Len(Root) - 1)

Format == Layout \o <<Step("sync", Super)>> \o Root

Mounted == pc = Len(Format) + 1
At(op) == pc \in DOMAIN Format /\ Format[pc].op = op
-------------------------------------------------------------------------------
(* Actions *)

\* Slip: the signature is not compared.
check_is_ext2_format_Any == TRUE

check_is_ext2_format == content[Super]

Check == /\ pc = 0
         /\ pc' = IF check_is_ext2_format THEN Len(Format) + 1 ELSE 1
         /\ UNCHANGED <<content, stable, root, crashes, laid_out, completed>>

\* Slip: the bit is taken for the number of the block.
BitOf_Number(b) == b

BitOf(b) == A!Offset(b)

\* The write of one step.
Write(op, block, value) ==
  /\ At(op)
  /\ content' = [content EXCEPT ![block] = value]
  /\ pc' = pc + 1
  /\ laid_out' = (laid_out \/ op = "root_bit")
  /\ completed' = (completed \/ pc = Len(Format))
  /\ UNCHANGED <<stable, root, crashes>>

WriteNext ==
  /\ pc \in DOMAIN Format
  /\ LET b == Format[pc].block IN
      \/ Write("magic", b, TRUE)
      \/ Write("zero", b, IF b[1] = "inode_bitmap" THEN {} ELSE Zero)
      \/ Write("reserve", b, content[b] \cup 0 .. reserved - 1)
      \/ Write("root_bit", b, content[b] \cup {2})
      \/ Write("dots", Data(root), Dots)
      \/ Write("root", b, root)

Ballocs ==
  LET b == A!ballocs(block_bitmap, 0)
  IN  /\ At("ballocs") /\ b # A!EXT2M_I_BLOCK_END
      /\ root' = b
      /\ content' = [content EXCEPT ![Bitmap(A!GroupOf(b))] = @ \cup {BitOf(b)}]
      /\ pc' = pc + 1
      /\ UNCHANGED <<stable, crashes, laid_out, completed>>

Sync == /\ At("sync")
        /\ stable' = content
        /\ pc' = pc + 1
        /\ completed' = (completed \/ pc = Len(Format))
        /\ UNCHANGED <<content, root, crashes, laid_out>>

\* A dirty block is written back: the cache holds a part of the disk only.
Evict == /\ \E b \in Block : /\ stable[b] # content[b]
                             /\ stable' = [stable EXCEPT ![b] = content[b]]
         /\ UNCHANGED <<content, pc, root, crashes, laid_out, completed>>

Restart == content' = stable /\ pc' = 0 /\ root' = 0 /\ UNCHANGED <<stable, laid_out, completed>>

\* The assert of ballocs ends the process, and someone starts it again.
Abort == /\ At("ballocs") /\ A!ballocs(block_bitmap, 0) = A!EXT2M_I_BLOCK_END
         /\ Restart /\ UNCHANGED crashes

Crash == /\ crashes < MaxCrashes
         /\ Restart /\ crashes' = crashes + 1

Mounting == Check \/ WriteNext \/ Ballocs \/ Sync \/ Abort

Next == Mounting \/ Evict \/ Crash

\* The constructor runs on, and a process that died is started again.
Fairness == WF_vars(Mounting)

Spec == Init /\ [][Next]_vars /\ Fairness
-------------------------------------------------------------------------------
(* Properties *)

\* What a block may hold.
Values(b) ==
  CASE b[1] = "super" -> BOOLEAN
    [] b[1] = "block_bitmap" -> SUBSET A!BlockBit
    [] b[1] = "inode_bitmap" -> SUBSET {2}
    [] b[1] = "inode_table" -> {Zero, Junk} \cup A!DataBlock
    [] b[1] = "data" -> {Zero, Junk, Dots}

Device(dev) == DOMAIN dev = Block /\ \A b \in Block : dev[b] \in Values(b)

\* Type invariant.
TypeOK ==
  /\ Device(content) /\ Device(stable)
  /\ pc \in 0 .. Len(Format) + 1
  /\ root \in {0} \cup A!DataBlock
  /\ crashes \in 0 .. MaxCrashes
  /\ laid_out \in BOOLEAN /\ completed \in BOOLEAN

Protected(dev) == \A g \in A!Group : 0 .. reserved - 1 \subseteq dev[Bitmap(g)]

\* A root directory: its inode names a block in use, and that has the dots.
HasRoot(dev) ==
  LET b == dev[Table(0)]
  IN  /\ b \in A!DataBlock
      /\ A!Offset(b) \in dev[Bitmap(A!GroupOf(b))]
      /\ dev[Data(b)] = Dots
      /\ 2 \in dev[InodeBitmap(0)]

\* Once a format is past its first half, every mount finds the blocks in front
\* of the data tables in use, whatever crashes came after: the sync between the
\* halves is what makes it so.
MetadataProtected == laid_out /\ Mounted => Protected(content)

\* A format that ran to its end is there for good: whatever crashes come, the
\* image is never formatted again and has its root directory, and what is in
\* the file is enough for that.
FormattedForGood ==
  completed => /\ pc \in {0, Len(Format) + 1}
               /\ \A dev \in {content, stable} : HasRoot(dev) /\ Protected(dev)

\* An image that is mounted though no format of it was completed was cut short
\* by a crash, or had no block left for a root directory.
HalfOnlyAfterCrash ==
  Mounted /\ ~completed => crashes > 0 \/ A!ballocs(block_bitmap, 0) = A!EXT2M_I_BLOCK_END

\* However often the process dies, it comes to mount the image, also one whose
\* format aborts: that one aborts once and is mounted from then on.
MountEnds == []<>Mounted

-------------------------------------------------------------------------------
(* What the program is said to do, and does not. *)

\* "Format the disk to ext2 format and add root directory" (ext2m.hpp:550): whatever
\* came between, an image that is mounted has the root directory of its format.
MountedHasRoot == Mounted => HasRoot(content)
===============================================================================
