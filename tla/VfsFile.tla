-------------------------------- MODULE VfsFile --------------------------------
(***************************************************************************)
(* Files of src/vfs.hpp: create, open, close, read, write, lseek and       *)
(* unlink, over the inodes and the block lists of src/ext2m.hpp.  Each is  *)
(* a whole call; Shell makes several of them in one critical section.      *)
(*                                                                         *)
(* The files are those of one directory whose entries have room; Namespace *)
(* has the directories.  A byte is the inode it was written for, or 0.     *)
(* Blocks hold bytes; pointer blocks are kept apart, in pointers.          *)
(***************************************************************************)
EXTENDS Integers, SequencesExt

CONSTANTS full_group_count, blocks_per_group, reserved, inodes_per_group,
          s_first_ino, ROOT_INODE, EXT2_DIRECT_BLOCKS,    \* see Ext2Alloc
          BLOCK_SIZE,   \* bytes of a block (1024)
          TwoTo32,      \* offsets are below it
          JunkWords,    \* see add_block_to_inode
          Name,         \* names of files
          MaxFd,        \* bound: descriptors 3 .. MaxFd
          Flag,         \* bound: the flags of open, of {"r", "w", "rw"}
          Seek,         \* bound: the offsets given to lseek
          Count         \* bound: the counts given to read and write, a block less than
                        \* TwoTo32 at most (a command brings 4 KB)

ASSUME FileAssumption ==
  /\ BLOCK_SIZE \in Nat \ {0}
  /\ TwoTo32 \in Nat \ {0}
  /\ JunkWords \in Nat \ {0}
  /\ MaxFd \in Nat /\ Flag \subseteq {"r", "w", "rw"}
  /\ Seek \subseteq 0 .. TwoTo32 - 1 /\ Count \subseteq 1 .. TwoTo32 - BLOCK_SIZE

VARIABLES fs,      \* bitmaps, inode table, blocks and the directory
          _files,  \* the open files, by descriptor
          opened,  \* history: the name of the file a descriptor was opened on, in a
                   \* set that is empty once that file is removed
          got      \* what the last call read

vars == <<fs, _files, opened, got>>

A == INSTANCE Ext2Alloc WITH block_bitmap <- fs.block_bitmap, inode_bitmap <- fs.inode_bitmap,
                             i_block <- fs.i_block, written <- {}, failed <- fs.failed,
                             misfreed <- {}

ASSUME LayoutAssumption == A!Layout

Junk == -1   \* a pointer to no block of the disk
Fd == 3 .. MaxFd
Closed == [inode |-> 0, offset |-> 0, flag |-> "none"]
Byte == {0} \cup A!Inode

Running == fs.failed = "none"
Stop(f, why) == [f EXCEPT !.failed = why]
Struck(f, defect) == [f EXCEPT !.defects = @ \cup {defect}]

Init ==
  /\ fs = [block_bitmap |-> [i \in A!Group |-> IF i = 0 THEN 0 .. reserved ELSE 0 .. reserved - 1],
           inode_bitmap |-> [i \in A!Group |-> IF i = 0 THEN {2} \cap A!InodeBit ELSE {}],
           i_block |-> [n \in A!Inode |-> IF n = ROOT_INODE THEN <<A!RootBlock>> ELSE <<>>],
           pointers |-> [n \in A!Inode |-> <<>>],
           i_size |-> [n \in A!Inode |-> 0],
           data |-> [b \in A!DataBlock |-> [k \in 0 .. BLOCK_SIZE - 1 |-> 0]],
           entry |-> [name \in Name |-> 0],
           failed |-> "none",
           defects |-> {}]
  /\ _files = [fd \in Fd |-> Closed]
  /\ opened = [fd \in Fd |-> {}]
  /\ got = <<>>
-------------------------------------------------------------------------------
(* Block lists (src/ext2m.hpp) *)

get_inode_all_blocks(f, n) == f.i_block[n] \o f.pointers[n]

\* Slip: the bit of the block is not set.
Taken_NoBit(f, b) == f

Taken(f, b) == [f EXCEPT !.block_bitmap = A!SetBlock(@, b)]

\* ballocs for a file of inode n.
NewBlock(f, n) == A!ballocs(f.block_bitmap, n \div inodes_per_group)
Alloc(f, n) == IF NewBlock(f, n) = A!EXT2M_I_BLOCK_END THEN Stop(f, "ballocs")
               ELSE Taken(f, NewBlock(f, n))

\* The first pointer block.  The word for the new block is written into _buf,
\* where ballocs has just left a block bitmap: behind it the pointer block has
\* the words of that bitmap, and the first of them, the blocks in front of the
\* data table, are all ones (486 blocks, JunkWords = 15 words).  A second block
\* is written behind those, and what was the first word is all ones too.  What
\* follows the ones is not part of the list here: see Unreachable.
Indirect(f, n) ==
  LET ones == [k \in 1 .. JunkWords |-> Junk]
      g == Alloc(f, n)   \* takes the pointer block, or the block
      h == Alloc(g, n)
  IN  IF f.pointers[n] # <<>>
      THEN IF g.failed # "none" THEN g ELSE [g EXCEPT !.pointers[n] = ones]
      ELSE IF h.failed # "none" THEN h
           ELSE [h EXCEPT !.pointers[n] = <<NewBlock(g, n)>> \o Tail(ones)]

\* Slip: one entry of i_block more is taken for direct.
DirectLeft_OneMore(f, n) == Len(f.i_block[n]) <= EXT2_DIRECT_BLOCKS

DirectLeft(f, n) == Len(f.i_block[n]) < EXT2_DIRECT_BLOCKS

add_block_to_inode(f, n) ==
  IF f.failed # "none" THEN f
  ELSE IF ~DirectLeft(f, n) THEN Indirect(f, n)
  ELSE LET g == Alloc(f, n)
       IN  IF g.failed # "none" THEN g
           ELSE [g EXCEPT !.i_block[n] = Append(@, NewBlock(f, n))]

\* As many blocks more.
Grown(f, n, count) ==
  LET g[k \in 0 .. count] == IF k = 0 THEN f ELSE add_block_to_inode(g[k - 1], n)
  IN  g[count]

Files(f) == {f.entry[name] : name \in Name} \ {0}

\* ifree: the blocks it frees are those of inode n - 1; bfree asserts that they
\* are blocks of the disk.
ifree(f, n) ==
  LET freed == ToSet(get_inode_all_blocks(f, n - 1))
      hurts == \E m \in Files(f) \ {n} : ToSet(get_inode_all_blocks(f, m)) \cap freed # {}
      g == [f EXCEPT !.block_bitmap = A!ResetBlocks(@, freed),
                     !.inode_bitmap = A!ResetInode(@, n)]
  IN  IF Junk \in freed THEN Stop(f, "bfree")
      ELSE IF hurts THEN Struck(g, "misfreed") ELSE g
-------------------------------------------------------------------------------
(* Names and descriptors (src/vfs.hpp) *)

\* Slip: the inode keeps the size of the file it was before.
create_KeepsSize(name) ==
  LET id == A!ialloc(fs.inode_bitmap)
  IN  /\ Running
      /\ fs.entry[name] = 0 /\ id # 0
      /\ fs' = [fs EXCEPT !.inode_bitmap = A!SetInode(@, id),
                          !.i_block[id] = <<>>, !.pointers[id] = <<>>, !.entry[name] = id]
      /\ got' = <<>> /\ UNCHANGED <<_files, opened>>

create(name) ==
  LET id == A!ialloc(fs.inode_bitmap)
  IN  /\ Running
      /\ fs.entry[name] = 0 /\ id # 0
      /\ fs' = [fs EXCEPT !.inode_bitmap = A!SetInode(@, id),
                          !.i_block[id] = <<>>, !.pointers[id] = <<>>, !.i_size[id] = 0,
                          !.entry[name] = id]
      /\ got' = <<>> /\ UNCHANGED <<_files, opened>>

\* A descriptor of the file stays open.
unlink(name) ==
  /\ Running
  /\ fs.entry[name] # 0
  /\ fs' = ifree([fs EXCEPT !.entry[name] = 0], fs.entry[name])
  /\ opened' = [fd \in Fd |-> opened[fd] \ {name}]
  /\ got' = <<>> /\ UNCHANGED _files

check_readable(flag) == flag \in {"r", "rw"}
check_writeable(flag) == flag \in {"w", "rw"}
IsOpen(fd) == _files[fd].inode # 0
get_avaiable_fd == Min({fd \in Fd : ~IsOpen(fd)})

open(name, flag) ==
  /\ Running
  /\ fs.entry[name] # 0
  /\ \E fd \in Fd : ~IsOpen(fd)
  /\ _files' = [_files EXCEPT ![get_avaiable_fd] =
                  [inode |-> fs.entry[name], offset |-> 0, flag |-> flag]]
  /\ opened' = [opened EXCEPT ![get_avaiable_fd] = {name}]
  /\ got' = <<>> /\ UNCHANGED fs

close(fd) ==
  /\ Running /\ IsOpen(fd)
  /\ _files' = [_files EXCEPT ![fd] = Closed]
  /\ opened' = [opened EXCEPT ![fd] = {}]
  /\ got' = <<>> /\ UNCHANGED fs

\* SEEK_SET, SEEK_CUR and SEEK_END.
lseek(fd, by) ==
  /\ Running /\ IsOpen(fd)
  /\ \E base \in {0, _files[fd].offset, fs.i_size[_files[fd].inode]} :
       _files' = [_files EXCEPT ![fd].offset = (base + by) % TwoTo32]
  /\ got' = <<>> /\ UNCHANGED <<fs, opened>>
-------------------------------------------------------------------------------
(* read and write *)

\* The blocks from the one of a first byte to the one of a last.
BlockOf(offset) == offset \div BLOCK_SIZE

\* The bytes of a file, those of block k of all at k * BLOCK_SIZE.
ByteAt(f, all, i) == f.data[all[BlockOf(i) + 1]][i % BLOCK_SIZE]

\* Reading or writing these blocks goes astray: the assert of read_block fails
\* for what is no block of the disk; an index past the end of all_blocks, or a
\* word behind those that are all ones, may give any number at all.  Of what
\* happens from there on nothing is said: the model stops with "range".
Unreachable(all, first, last) ==
  \E k \in first .. last : IF k < Len(all) THEN all[k + 1] = Junk ELSE TRUE

\* f, noting that descriptor fd was opened on a file that is removed, if it was.
\* Its inode may be no file's by now, or that of a file created since: the call
\* then reads or changes that one.
ByWay(fd, f) == IF opened[fd] # {} THEN f ELSE Struck(f, "stale_fd")

\* The block of offset + real_read_size is read too when no byte of it is
\* asked for; the offset of the descriptor stays.
read(fd, count) ==
  LET n == _files[fd].inode
      offset == _files[fd].offset
      real_read_size == Min({count, fs.i_size[n] - offset})
      all == get_inode_all_blocks(fs, n)
  IN  /\ Running /\ IsOpen(fd) /\ check_readable(_files[fd].flag)
      /\ UNCHANGED <<_files, opened>>
      /\ \/ /\ offset >= fs.i_size[n]
            /\ got' = <<>>
            /\ fs' = ByWay(fd, fs)
         \/ /\ offset < fs.i_size[n]
            /\ Unreachable(all, BlockOf(offset), BlockOf(offset + real_read_size))
            /\ fs' = Stop(fs, "range")
            /\ got' = <<>>
         \/ /\ offset < fs.i_size[n]
            /\ ~Unreachable(all, BlockOf(offset), BlockOf(offset + real_read_size))
            /\ got' = [i \in 1 .. real_read_size |-> ByteAt(fs, all, offset + i - 1)]
            /\ fs' = ByWay(fd, fs)

\* Slip: the block of the last byte is taken for the last one needed.
Needed_LastByte(end) == BlockOf(end - 1) + 1

\* Slip: a write ends the file.
NewSize_Truncates(size, end) == end

\* The blocks and the size a write up to end asks for.
Needed(end) == BlockOf(end) + 1
NewSize(size, end) == Max({size, end})

\* The bytes from offset up to end of the file that has the blocks all are b.
Laid(data, all, offset, end, b) ==
  [c \in DOMAIN data |-> [k \in DOMAIN data[c] |->
     IF \E i \in offset .. end - 1 : all[BlockOf(i) + 1] = c /\ i % BLOCK_SIZE = k
     THEN b ELSE data[c][k]]]

\* The size is written first, then blocks are added up to that of the offset
\* after the last byte, then the bytes are laid block by block.  The end is
\* computed modulo 2^32; one that wraps is in front of the start, and no byte
\* is written.
write(fd, count) ==
  LET n == _files[fd].inode
      offset == _files[fd].offset
      end == (offset + count) % TwoTo32
      missing == Needed(end) - Len(get_inode_all_blocks(fs, n))
      sized == [fs EXCEPT !.i_size[n] = NewSize(@, end)]
      grown == Grown(sized, n, Max({0, missing}))
      all == get_inode_all_blocks(grown, n)
      marked == [grown EXCEPT !.data = Laid(@, all, offset, end, n),
                   !.defects = @ \cup (IF offset + count >= TwoTo32 THEN {"wrapped"} ELSE {})]
  IN  /\ Running /\ IsOpen(fd) /\ check_writeable(_files[fd].flag)
      /\ fs' = IF grown.failed # "none" THEN grown
               ELSE IF Unreachable(all, BlockOf(offset), BlockOf(end)) THEN Stop(grown, "range")
               ELSE ByWay(fd, marked)
      /\ _files' = [_files EXCEPT ![fd].offset = end]
      /\ got' = <<>> /\ UNCHANGED opened

Next == \/ \E name \in Name : \/ create(name)
                              \/ unlink(name)
                              \/ \E flag \in Flag : open(name, flag)
        \/ \E fd \in Fd : \/ close(fd)
                          \/ \E by \in Seek : lseek(fd, by)
                          \/ \E count \in Count : read(fd, count) \/ write(fd, count)

Spec == Init /\ [][Next]_vars
-------------------------------------------------------------------------------
(* Properties *)

\* What a file holds, block by block, up to its size.
Content(n) == LET all == get_inode_all_blocks(fs, n)
              IN  [i \in 1 .. fs.i_size[n] |-> ByteAt(fs, all, i - 1)]

Sound == Running /\ fs.defects = {}

\* Every file has a block for each of its bytes and one for the byte after the
\* last, which read fetches even when the size is a multiple of a block: write
\* must have taken it, whatever the order of seeks and writes before.
EndBlockExists ==
  Sound => \A n \in Files(fs) :
    fs.i_size[n] > 0 => BlockOf(fs.i_size[n]) < Len(get_inode_all_blocks(fs, n))

\* No data block belongs to two files, twice to one, or to a file and to no bit
\* of the bitmap.
BlocksApart ==
  Sound => \A n \in Files(fs) :
    LET all == get_inode_all_blocks(fs, n)
        mine == ToSet(all) \ {Junk}
    IN  /\ \A b \in mine : A!Used(b)
        /\ \A j, k \in DOMAIN all : all[j] = all[k] /\ all[j] # Junk => j = k
        /\ \A m \in Files(fs) \ {n} : mine \cap ToSet(get_inode_all_blocks(fs, m)) = {}

\* An index past the blocks of a file, or a pointer to no block, is met only
\* after a write reached the pointer block: every other file has the blocks that
\* read and write go to, whatever the order of seeks and writes.  (The theorem
\* has it after writes that wrap, and after those through the descriptors of
\* removed files, as well; the run looks at no state after one of them.)
AbortsHaveCauses ==
  fs.failed \in {"range", "bfree"} => \E n \in A!Inode : fs.pointers[n] # <<>>

\* The files as FileStore has them: as long as nothing stopped or struck, every
\* call is a step of it, and a read or a write is one of the file its descriptor
\* was opened on, whichever inodes have been freed and taken since.  So no write
\* reaches a byte of another file or one it was not asked to, and every read
\* returns what was written.  A read or a write by a descriptor whose file is
\* removed strikes (stale_fd): of that one nothing is promised.
content == [name \in {m \in Name : fs.entry[m] # 0} |-> Content(fs.entry[name])]
Store == INSTANCE FileStore

StoreStep ==
  \/ Store!Create \/ Store!Unlink
  \/ \E fd \in Fd : \E name \in opened[fd], count \in Count :
        \/ Store!Read(name, _files[fd].offset, count)
        \/ Store!Write(name, _files[fd].offset, count, fs.entry[name])

ImplementsFiles ==
  [][Sound /\ Sound' => Store!Stay \/ StoreStep]_vars

\* Type invariant: what the bitmaps, the inode table, the directory and the table
\* of descriptors may hold. Direct blocks come first and are at most
\* EXT2_DIRECT_BLOCKS; the others go through the pointer block.
FsType ==
  [block_bitmap : [A!Group -> SUBSET A!BlockBit],
   inode_bitmap : [A!Group -> SUBSET A!InodeBit],
   i_block : [A!Inode -> Seq(A!DataBlock)],
   pointers : [A!Inode -> Seq(A!DataBlock \cup {Junk})],
   i_size : [A!Inode -> 0 .. TwoTo32 - 1],
   data : [A!DataBlock -> [0 .. BLOCK_SIZE - 1 -> Byte]],
   entry : [Name -> {0} \cup A!Inode],
   failed : {"none", "ballocs", "range", "bfree"},
   defects : SUBSET {"misfreed", "wrapped", "stale_fd"}]

TypeOK ==
  /\ fs \in FsType
  /\ \A n \in A!Inode : Len(fs.i_block[n]) <= EXT2_DIRECT_BLOCKS
  /\ _files \in [Fd -> [inode : {0} \cup A!Inode, offset : 0 .. TwoTo32 - 1,
                         flag : {"none"} \cup Flag]]
  /\ opened \in [Fd -> SUBSET Name]
  /\ got \in Seq(Byte)
===============================================================================
