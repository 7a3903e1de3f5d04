------------------------------- MODULE DirInode -------------------------------
(***************************************************************************)
(* The entries of one directory inode over its blocks: add_entry_to_inode, *)
(* free_entry_to_inode and get_inode_all_entry of src/ext2m.hpp.  A        *)
(* directory starts with the one block mkdir gave it, grows when no block  *)
(* has room, and never shrinks.  One block beyond the direct ones can be   *)
(* added; from then on the walks of all blocks go astray (PastDirect).     *)
(***************************************************************************)
EXTENDS DirBlock

CONSTANTS self, father,   \* inodes of the directory and of its ".."
          Child,          \* inodes of the entries
          EXT2_DIRECT_BLOCKS

ASSUME InodeAssumption == self \notin Child /\ father \notin Child
ASSUME DirectAssumption == EXT2_DIRECT_BLOCKS \in Nat \ {0}

Ino == Child \cup {self, father}

VARIABLES blocks,   \* contents of the directory's blocks, in inode order, without
                    \* what the junk words of the pointer block stand for
          failed    \* the assert that ended the process, or "none"

vars == <<blocks, failed>>

Running == failed = "none"

\* The directory has a pointer block: behind the word for its one block stand
\* the words of a block bitmap (VfsFile's Indirect).  The first of them is all
\* ones, no block of the disk, and the assert of read_block fails when a walk of
\* all blocks comes to it.
PastDirect == Len(blocks) > EXT2_DIRECT_BLOCKS
Astray == failed' = "range" /\ UNCHANGED blocks

Init == blocks = <<init_entry_block(self, father)>> /\ failed = "none"

\* The entries as the handlers of vfs.hpp think of them, the dots left out.
EntriesOf(blk) == {<<blk[o].name, blk[o].inode>> : o \in {q \in Starts(blk) : blk[q].name \in Name}}
entries == UNION {EntriesOf(blocks[k]) : k \in DOMAIN blocks}

\* Slip: no return after the first block with room.
add_entry_to_inode_NoReturn(name, n) ==
  LET roomy == {k \in DOMAIN blocks : Gaps(blocks[k], name) # {}} IN
  /\ Running
  /\ \A e \in entries : e[2] # n
  /\ \/ /\ roomy # {}
        /\ blocks' = [k \in DOMAIN blocks |-> IF k \in roomy THEN add_entry(blocks[k], name, n)
                                                             ELSE blocks[k]]
        /\ UNCHANGED failed
     \/ /\ roomy = {} /\ ~PastDirect
        /\ blocks' = Append(blocks, add_entry(init_entry_block(self, father), name, n))
        /\ UNCHANGED failed
     \/ roomy = {} /\ PastDirect /\ Astray

\* Slip: the new block's content goes to the last full block.
add_entry_to_inode_WrongBlock(name, n) ==
  LET roomy == {k \in DOMAIN blocks : Gaps(blocks[k], name) # {}}
      fresh == init_entry_block(self, father)
  IN
  /\ Running
  /\ \A e \in entries : e[2] # n
  /\ \/ /\ roomy # {}
        /\ blocks' = [blocks EXCEPT ![Min(roomy)] = add_entry(@, name, n)]
        /\ UNCHANGED failed
     \/ /\ roomy = {} /\ ~PastDirect
        /\ blocks' = Append([blocks EXCEPT ![Len(blocks)] = add_entry(fresh, name, n)], fresh)
        /\ UNCHANGED failed
     \/ roomy = {} /\ PastDirect /\ Astray

\* A handler adds an entry for an inode it has just allocated (or, mv, just
\* freed the entry of), so none of the directory names it.  A block more is
\* added when none has room; the first one past the direct ones is found again,
\* a search behind it is not.
add_entry_to_inode(name, n) ==
  LET roomy == {k \in DOMAIN blocks : Gaps(blocks[k], name) # {}} IN
  /\ Running
  /\ \A e \in entries : e[2] # n
  /\ \/ /\ roomy # {}
        /\ blocks' = [blocks EXCEPT ![Min(roomy)] = add_entry(@, name, n)]
        /\ UNCHANGED failed
     \/ /\ roomy = {} /\ ~PastDirect
        /\ blocks' = Append(blocks, add_entry(init_entry_block(self, father), name, n))
        /\ UNCHANGED failed
     \/ roomy = {} /\ PastDirect /\ Astray

\* The first entry of inode n, in any block, is freed.  Freeing a dot or an
\* inode without an entry fails an assert.
free_entry_to_inode(n) ==
  LET naming == {k \in DOMAIN blocks : Naming(blocks[k], n) # {}}
      k == Min(naming)
  IN
  /\ Running
  /\ \/ naming = {} /\ PastDirect /\ Astray
     \/ naming = {} /\ ~PastDirect /\ failed' = "no_entry" /\ UNCHANGED blocks
     \/ /\ naming # {} /\ FreesDot(blocks[k], n)
        /\ failed' = "dot" /\ UNCHANGED blocks
     \/ /\ naming # {} /\ ~FreesDot(blocks[k], n)
        /\ blocks' = [blocks EXCEPT ![k] = free(@, n)]
        /\ UNCHANGED failed

\* Of get_inode_all_entry, called by every walk of a path and by ls: a listing
\* reads all blocks, and changes nothing if it comes to their end.
list_entries == Running /\ PastDirect /\ Astray

Next == \/ \E name \in Name, n \in Child : add_entry_to_inode(name, n)
        \/ \E n \in Ino : free_entry_to_inode(n)
        \/ list_entries

Spec == Init /\ [][Next]_vars
-------------------------------------------------------------------------------
(* Properties *)

\* Type invariant.
TypeOK ==
  /\ blocks \in Seq(ToSet(blocks)) /\ blocks # <<>>
  /\ Len(blocks) <= EXT2_DIRECT_BLOCKS + 1
  /\ \A k \in DOMAIN blocks : IsBlock(blocks[k], Ino)
  /\ failed \in {"none", "no_entry", "dot", "range"}

\* "Sum of rec_len is BLOCK_SIZE." (ext2_spec.h:279), for every block and
\* whatever was added and freed before: no walk of a block ever runs past its
\* end or loops, and the assert in add_entry never fails.
BlocksTiled == \A k \in DOMAIN blocks : Tiled(blocks[k])

\* Every block starts with "." and "..", which therefore can never be freed,
\* and so every entry freed has one before it to take over its record.
Leads(blk) ==
  /\ 12 \in Starts(blk)
  /\ \A o \in Starts(blk) :
       /\ o = 0 <=> blk[o].name = Dot
       /\ o = 12 <=> blk[o].name = DotDot
       /\ o = 0 => blk[o].inode = self
       /\ o = 12 => blk[o].inode = father
       /\ o \notin {0, 12} => blk[o].inode \in Child
DotsLead == \A k \in DOMAIN blocks : Leads(blocks[k])

\* An inode has at most one entry in the whole directory.
OneEntryEach ==
  \A j, k \in DOMAIN blocks : \A o \in Starts(blocks[j]), q \in Starts(blocks[k]) :
    blocks[j][o].inode \in Child /\ blocks[j][o].inode = blocks[k][q].inode => j = k /\ o = q

\* As long as the blocks are direct ones, a listing names every entry exactly
\* once, ".." once, and "." once or twice.
ListingExact ==
  ~PastDirect =>
  LET listing == get_inode_all_entry(blocks)
      Times(name, n) == Cardinality({i \in DOMAIN listing :
                                       listing[i].name = name /\ listing[i].inode = n})
  IN  /\ \A e \in entries : Times(e[1], e[2]) = 1
      /\ Times(DotDot, father) = 1
      /\ Times(Dot, self) \in {1, 2}
      /\ Len(listing) = Cardinality(entries) + 1 + Times(Dot, self)

\* The inductive invariant.
IInv == TypeOK /\ BlocksTiled /\ DotsLead /\ OneEntryEach

Dir == INSTANCE Directory

\* Packing, splitting and merging records over several blocks, the directory
\* behaves as a set of entries: none is lost, none reappears.
ImplementsDirectory == Dir!Spec
===============================================================================
