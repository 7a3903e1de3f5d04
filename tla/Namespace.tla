------------------------------ MODULE Namespace ------------------------------
(***************************************************************************)
(* The directory tree that the path handlers of src/vfs.hpp build: mkdir,  *)
(* create, rmdir, unlink, mv and ls, each a whole call under the server's  *)
(* mutex, over the allocator (Ext2Alloc) and directory blocks (DirBlock).  *)
(* Of what files hold it is told only that it is no directory entries:     *)
(* VfsFile has the bytes.                                                  *)
(*                                                                         *)
(* Paths are sequences of names, what split makes of a string.  The whole  *)
(* file system is the record fs.  fs.failed names the assert or the        *)
(* endless loop that ends the process; fs.defects remembers which of the   *)
(* known defects of the code have struck (see Repaired).                   *)
(***************************************************************************)
EXTENDS Integers, SequencesExt

CONSTANTS full_group_count, blocks_per_group, reserved, inodes_per_group,
          s_first_ino, ROOT_INODE, EXT2_DIRECT_BLOCKS,    \* see Ext2Alloc
          Name, Dot, DotDot, NameLen, BLOCK_SIZE,         \* see DirBlock
          Path,      \* paths given to the handlers
          NewPath    \* paths given to mv as its target

VARIABLES fs, ret

vars == <<fs, ret>>

A == INSTANCE Ext2Alloc WITH block_bitmap <- fs.block_bitmap, inode_bitmap <- fs.inode_bitmap,
                             i_block <- fs.i_block, written <- {}, failed <- fs.failed,
                             misfreed <- {}
D == INSTANCE DirBlock

\* The bit that format sets in the inode bitmap is that of inode 3, which
\* ialloc never gives away.
ASSUME NamespaceAssumption ==
  /\ A!Layout /\ s_first_ino > 3 /\ D!NameAssumption
  /\ Path \subseteq Seq(D!FileName) /\ NewPath \subseteq Seq(D!FileName)

Bytes == <<>>   \* a block of a file, or of zeros: not one of entries

Running == fs.failed = "none"
Stop(f, why) == [f EXCEPT !.failed = why]

\* Whoever lists or searches inode n reads all its blocks as entries, be it a
\* directory or not.  Where a block is none, the walk takes any word for a
\* rec_len: on zeros it never ends, with the mutex held, and on other bytes it
\* may end anywhere.  Of what happens from there on nothing is said: the model
\* stops.
Readable(f, n) == \A k \in DOMAIN f.i_block[n] : f.data[f.i_block[n][k]] # Bytes
Stray(f, n) == Stop(f, IF f.mode[n] = "file" THEN "file_walked" ELSE "astray")

Contents(f, n) == [k \in DOMAIN f.i_block[n] |-> f.data[f.i_block[n][k]]]
Listing(f, n) == D!get_inode_all_entry(Contents(f, n))

Init ==
  /\ fs = [block_bitmap |-> [i \in A!Group |-> IF i = 0 THEN 0 .. reserved ELSE 0 .. reserved - 1],
           inode_bitmap |-> [i \in A!Group |-> IF i = 0 THEN {2} \cap A!InodeBit ELSE {}],
           i_block |-> [n \in A!Inode |-> IF n = ROOT_INODE THEN <<A!RootBlock>> ELSE <<>>],
           mode |-> [n \in A!Inode |-> IF n = ROOT_INODE THEN "dir" ELSE "none"],
           data |-> [b \in A!DataBlock |-> IF b = A!RootBlock
                       THEN D!init_entry_block(ROOT_INODE, ROOT_INODE) ELSE Bytes],
           failed |-> "none",
           defects |-> {}]
  /\ ret = 0
-------------------------------------------------------------------------------
(* Directories (src/ext2m.hpp) *)

Lost == -1   \* where a search that goes astray ends

\* find_dir_from_inode without creat: the first entry with that name, or 0.
Lookup(f, n, name) ==
  LET listing == Listing(f, n)
      hits == {i \in DOMAIN listing : listing[i].name = name}
  IN  IF ~Readable(f, n) THEN Lost ELSE IF hits = {} THEN 0 ELSE listing[Min(hits)].inode

\* The loop of every handler over the components of a path.  idx is 0 when
\* one is missing, Lost when a search went astray; father is the directory that
\* was searched last.
Walk(f, path) ==
  FoldLeft(LAMBDA w, name :
             IF w.idx \in {0, Lost} THEN w
             ELSE [idx |-> Lookup(f, w.idx, name), father |-> w.idx],
           [idx |-> ROOT_INODE, father |-> 0], path)

\* The ".." of the first block, or 0 when that holds no entries: a file that gets
\* its first block has what that block held before.
get_father_inode_num(f, n) ==
  LET first == f.data[f.i_block[n][1]]
  IN  IF first = Bytes THEN 0 ELSE D!get_inode_all_entry(<<first>>)[2].inode

\* add_entry_to_inode when no block has room.  One more than the direct ones
\* goes behind a pointer block full of junk, and the next listing aborts
\* (DirInode's PastDirect): here the model stops at once.
NewEntryBlock(f, n, name, ino) ==
  LET b == A!ballocs(f.block_bitmap, n \div inodes_per_group)
      g == [f EXCEPT !.block_bitmap = A!SetBlock(@, b), !.i_block[n] = Append(@, b)]
      father == get_father_inode_num(g, n)
  IN  IF Len(f.i_block[n]) = EXT2_DIRECT_BLOCKS THEN Stop(f, "outgrown")
      ELSE IF b = A!EXT2M_I_BLOCK_END THEN Stop(f, "ballocs")
      ELSE IF father = 0 THEN Stray(g, n)
      ELSE [g EXCEPT !.data[b] = D!add_entry(D!init_entry_block(n, father), name, ino)]

add_entry_to_inode(f, n, name, ino) ==
  LET c == Contents(f, n)
      roomy == {k \in DOMAIN c : D!Gaps(c[k], name) # {}}
      g == IF f.mode[n] = "file" THEN [f EXCEPT !.defects = @ \cup {"file_as_dir"}] ELSE f
  IN  IF ~Readable(f, n) THEN Stray(g, n)
      ELSE IF roomy = {} THEN NewEntryBlock(g, n, name, ino)
      ELSE [g EXCEPT !.data[f.i_block[n][Min(roomy)]] = D!add_entry(@, name, ino)]

\* free_entry_to_inode; directory 0 fails the assert of get_inode.
free_entry_to_inode(f, n, ino) ==
  LET c == Contents(f, n)
      naming == {k \in DOMAIN c : D!Naming(c[k], ino) # {}}
      k == Min(naming)
  IN  IF n = 0 THEN Stop(f, "inode_0")
      ELSE IF ~Readable(f, n) THEN Stray(f, n)
      ELSE IF naming = {} THEN Stop(f, "no_entry")
      ELSE IF D!FreesDot(c[k], ino) THEN Stop(f, "dot")
      ELSE [f EXCEPT !.data[f.i_block[n][k]] = D!free(@, ino)]

LiveIn(f, n) == \/ n = ROOT_INODE
                \/ A!InodeIndex(n) \in f.inode_bitmap[A!InodeGroup(n)] /\ n >= s_first_ino

\* ifree: the blocks it frees are those of inode n - 1.
ifree(f, n) ==
  LET freed == ToSet(f.i_block[n - 1])
      hurts == \E m \in A!Inode \ {n} : LiveIn(f, m) /\ ToSet(f.i_block[m]) \cap freed # {}
  IN  IF n < s_first_ino THEN f
      ELSE [f EXCEPT !.block_bitmap = A!ResetBlocks(@, freed),
                     !.inode_bitmap = A!ResetInode(@, n),
                     !.defects = IF hurts THEN @ \cup {"misfreed"} ELSE @]

\* Slip: the assert of ballocs is forgotten.
MakeDir_NoAssert(f, n, name) ==
  LET id == A!ialloc(f.inode_bitmap)
      b == A!ballocs(f.block_bitmap, id \div inodes_per_group)
      g == [f EXCEPT !.inode_bitmap = A!SetInode(@, id),
                     !.block_bitmap = A!SetBlock(@, b),
                     !.i_block[id] = <<b>>, !.mode[id] = "dir",
                     !.data[b] = D!init_entry_block(id, n)]
  IN  add_entry_to_inode(g, n, name, id)

\* Slip: every directory is made as if it were in the root.
MakeDir_InRoot(f, n, name) ==
  LET id == A!ialloc(f.inode_bitmap)
      b == A!ballocs(f.block_bitmap, id \div inodes_per_group)
      g == [f EXCEPT !.inode_bitmap = A!SetInode(@, id),
                     !.block_bitmap = A!SetBlock(@, b),
                     !.i_block[id] = <<b>>, !.mode[id] = "dir",
                     !.data[b] = D!init_entry_block(id, ROOT_INODE)]
  IN  IF b = A!EXT2M_I_BLOCK_END THEN Stop(f, "ballocs")
      ELSE add_entry_to_inode(g, n, name, id)

\* find_dir_from_inode with creat, when the name is not there.
MakeDir(f, n, name) ==
  LET id == A!ialloc(f.inode_bitmap)
      b == A!ballocs(f.block_bitmap, id \div inodes_per_group)
      g == [f EXCEPT !.inode_bitmap = A!SetInode(@, id),
                     !.block_bitmap = A!SetBlock(@, b),
                     !.i_block[id] = <<b>>, !.mode[id] = "dir",
                     !.data[b] = D!init_entry_block(id, n)]
  IN  IF b = A!EXT2M_I_BLOCK_END THEN Stop(f, "ballocs")
      ELSE add_entry_to_inode(g, n, name, id)
-------------------------------------------------------------------------------
(* Handlers (src/vfs.hpp) *)

Return(r) == ret' = r /\ UNCHANGED fs
Abort(why) == fs' = Stop(fs, why) /\ UNCHANGED ret
Astray(n) == fs' = Stray(fs, n) /\ UNCHANGED ret
Done(f) == fs' = f /\ ret' = 0

\* mkdir_from_root: every component must be new, and each is created in the
\* one before it; the first that exists, or no inode left, ends it with -1.
mkdir_from_root(path) ==
  LET Step(m, name) ==
        IF m.ret = -1 \/ m.f.failed # "none" THEN m
        ELSE IF Lookup(m.f, m.idx, name) = Lost THEN [m EXCEPT !.f = Stray(@, m.idx)]
        ELSE IF Lookup(m.f, m.idx, name) # 0 \/ A!ialloc(m.f.inode_bitmap) = 0
        THEN [m EXCEPT !.ret = -1]
        ELSE [m EXCEPT !.f = MakeDir(@, m.idx, name), !.idx = A!ialloc(m.f.inode_bitmap)]
      end == FoldLeft(Step, [f |-> fs, idx |-> ROOT_INODE, ret |-> 0], path)
  IN  /\ Running
      /\ fs' = end.f
      /\ ret' = end.ret

\* create_file_from_root; back() of a path without names reads before an empty
\* vector.
create_file_from_root(path) ==
  LET w == Walk(fs, Front(path))
      dir == w.idx
      id == A!ialloc(fs.inode_bitmap)
      f == [fs EXCEPT !.inode_bitmap = A!SetInode(@, id), !.i_block[id] = <<>>, !.mode[id] = "file"]
  IN  /\ Running
      /\ IF path = <<>> THEN Abort("no_name")
         ELSE IF dir = Lost THEN Astray(w.father)
         ELSE IF dir = 0 THEN Return(-1)
         ELSE IF Lookup(fs, dir, Last(path)) = Lost THEN Astray(dir)
         ELSE IF Lookup(fs, dir, Last(path)) # 0 \/ id = 0 THEN Return(-1)
         ELSE Done(add_entry_to_inode(f, dir, Last(path), id))

\* The end of rmdir and unlink: n leaves its father's entries, then is freed.
Erase(father, n) == LET f == free_entry_to_inode(fs, father, n)
                     IN  Done(IF f.failed = "none" THEN ifree(f, n) ELSE f)

\* Slip: only the first two entries are looked at.
OnlyDots_FirstTwo(listing) ==
  \A i \in DOMAIN listing : i <= 2 => listing[i].name \in {Dot, DotDot}

OnlyDots(listing) == \A e \in ToSet(listing) : e.name \in {Dot, DotDot}

\* rmdir_from_root: whatever has no entries but dots is removed, a regular
\* file too.  The father is the ".." of the listing, 0 if it has none.
rmdir_from_root(path) ==
  LET w == Walk(fs, path)
      n == w.idx
      listing == Listing(fs, n)
      alien == \E e \in ToSet(listing) : e.name = Dot /\ e.inode # n
      fathers == {i \in DOMAIN listing : listing[i].name = DotDot}
  IN  /\ Running
      /\ \/ n = Lost /\ Astray(w.father)
         \/ n \in {0, ROOT_INODE} /\ Return(-1)
         \/ n \notin {Lost, 0, ROOT_INODE} /\ ~Readable(fs, n) /\ Astray(n)
         \/ /\ n \notin {Lost, 0, ROOT_INODE} /\ Readable(fs, n)
            /\ alien /\ Abort("not_self")
         \/ /\ n \notin {Lost, 0, ROOT_INODE} /\ Readable(fs, n) /\ ~alien
            /\ IF OnlyDots(listing)
               THEN Erase(IF fathers = {} THEN 0 ELSE listing[Max(fathers)].inode, n)
               ELSE Return(-1)

\* unlink_from_root: only a regular file.
unlink_from_root(path) ==
  LET w == Walk(fs, path)
  IN  /\ Running
      /\ IF w.idx = Lost THEN Astray(w.father)
         ELSE IF w.idx = 0 \/ fs.mode[w.idx] # "file" THEN Return(-1)
         ELSE Erase(w.father, w.idx)

\* mv_from_root: the new name must be free in the old directory; nothing asks
\* whether it is free in the new one, whether that is a directory, whether it
\* lies under what moves, and the ".." of a directory that moves stays.
mv_from_root(old, new) ==
  LET w == Walk(fs, old)
      n == w.idx
      t == Walk(fs, Front(new))
      target == t.idx
      rname == Last(new)
      f == free_entry_to_inode(fs, w.father, n)
      struck == (IF fs.mode[n] = "dir" /\ target # w.father THEN {"moved"} ELSE {})
           \cup (IF Lookup(f, target, rname) \notin {0, Lost} THEN {"duplicate"} ELSE {})
  IN  /\ Running
      /\ \/ n = Lost /\ Astray(w.father)
         \/ n # Lost /\ (n = 0 \/ new = <<>>) /\ Return(-1)
         \/ n \notin {Lost, 0} /\ new # <<>> /\ w.father = 0 /\ Abort("inode_0")
         \/ /\ n \notin {Lost, 0} /\ new # <<>> /\ w.father # 0
            /\ IF Lookup(fs, w.father, rname) # 0 \/ target = 0 THEN Return(-1)
               ELSE IF target = Lost THEN Astray(t.father)
               ELSE IF f.failed # "none" THEN Abort(f.failed)
               ELSE Done(add_entry_to_inode([f EXCEPT !.defects = @ \cup struck],
                                            target, rname, n))

\* What write_to_file makes of a file that then has the blocks new.  Some of those
\* that a write adds in front of its offset keep what they held; a walk reads all
\* blocks of the file, and goes astray all the same.
Filled(f, n, new) ==
  [f EXCEPT !.i_block[n] = new,
            !.data = [b \in DOMAIN @ |-> IF b \in ToSet(new) THEN Bytes ELSE @[b]]]

\* open, write and close of a regular file, which gets one more block or none; a
\* write that adds several is several steps.  At most EXT2_DIRECT_BLOCKS (a
\* bound; VfsFile has larger files).
write_to_file(path) ==
  LET w == Walk(fs, path)
      n == w.idx
      b == A!ballocs(fs.block_bitmap, n \div inodes_per_group)
  IN  /\ Running
      /\ \/ n = Lost /\ Astray(w.father)
         \/ n = 0 /\ Return(-1)
         \/ n \notin {Lost, 0} /\ fs.mode[n] # "file" /\ Return(-1)
         \/ /\ n \notin {Lost, 0} /\ fs.mode[n] = "file" /\ fs.i_block[n] # <<>>
            /\ Done(Filled(fs, n, fs.i_block[n]))
         \/ /\ n \notin {Lost, 0} /\ fs.mode[n] = "file"
            /\ Len(fs.i_block[n]) < EXT2_DIRECT_BLOCKS
            /\ IF b = A!EXT2M_I_BLOCK_END THEN Abort("ballocs")
               ELSE Done(Filled([fs EXCEPT !.block_bitmap = A!SetBlock(@, b)], n,
                                Append(fs.i_block[n], b)))

\* ls_from_root, of a regular file too.  What stat and open do is the same but
\* for the listing at the end.
ls_from_root(path) ==
  LET w == Walk(fs, path)
  IN  /\ Running
      /\ IF w.idx = Lost THEN Astray(w.father)
         ELSE IF w.idx = 0 THEN Return(-1)
         ELSE IF ~Readable(fs, w.idx) THEN Astray(w.idx)
         ELSE Return(0)

Next == \/ \E path \in Path : \/ mkdir_from_root(path)
                              \/ create_file_from_root(path)
                              \/ rmdir_from_root(path)
                              \/ unlink_from_root(path)
                              \/ write_to_file(path)
                              \/ ls_from_root(path)
        \/ \E old \in Path, new \in NewPath : mv_from_root(old, new)

Spec == Init /\ [][Next]_vars
-------------------------------------------------------------------------------
(* Properties *)

\* Type invariant.
TypeOK ==
  /\ fs.block_bitmap \in [A!Group -> SUBSET A!BlockBit]
  /\ fs.inode_bitmap \in [A!Group -> SUBSET A!InodeBit]
  /\ \A n \in A!Inode : /\ fs.i_block[n] \in Seq(A!DataBlock)
                         /\ Len(fs.i_block[n]) <= EXT2_DIRECT_BLOCKS
  /\ fs.mode \in [A!Inode -> {"none", "file", "dir"}]
  /\ \A b \in A!DataBlock : fs.data[b] = Bytes \/ D!IsBlock(fs.data[b], A!Inode)
  /\ fs.failed \in {"none", "ballocs", "outgrown", "astray", "file_walked", "inode_0", "no_entry",
                   "dot", "not_self", "no_name"}
                \cup {"pop_empty", "not_absolute"}   \* see Shells
  /\ fs.defects \subseteq {"misfreed", "moved", "duplicate", "file_as_dir"}
  /\ ret \in {-1, 0}

\* No known defect has struck: no ifree took a live inode's block ("misfreed"),
\* no directory moved to another one ("moved"), no mv put a name where it was
\* already ("duplicate"), no entry went into a regular file ("file_as_dir").
Intact == Running /\ fs.defects = {}

\* The entries of directory n without dots.
Entries(n) == UNION {LET blk == fs.data[b]
                     IN  {<<blk[o].name, blk[o].inode>> : o \in {q \in D!Starts(blk) : blk[q].name \in Name}}
                       : b \in ToSet(fs.i_block[n])}
LiveInodes == {n \in A!Inode : LiveIn(fs, n)}
Dirs == {n \in LiveInodes : fs.mode[n] = "dir"}

\* The paths that lead somewhere, without dots, up to the length a tree of
\* this many inodes can have, and where they lead.
Located ==
  LET es == [n \in Dirs |-> Entries(n)]
      from[k \in 0 .. Cardinality(Dirs)] ==
        IF k = 0 THEN {<<<<>>, ROOT_INODE>>}
        ELSE UNION {{<<Append(at[1], e[1]), e[2]>> : e \in es[at[2]]}
                      : at \in {at \in from[k - 1] : at[2] \in Dirs}}
  IN  UNION {from[k] : k \in DOMAIN from}

\* Every live inode but the root has exactly one entry, in one live directory;
\* every entry names a live inode, and no directory has two of one name; ".."
\* is the directory that holds the entry, and every live inode can be reached
\* from the root.  All of it survives any sequence of calls until one of the
\* known defects strikes.
TreeShape ==
  Intact =>
    LET es == [d \in Dirs |-> Entries(d)]
        Holders(n) == {d \in Dirs : \E e \in es[d] : e[2] = n}
    IN  /\ \A n \in LiveInodes \ {ROOT_INODE} : \E d \in Dirs : Holders(n) = {d}
        /\ \A d \in Dirs :
             /\ \A e1, e2 \in es[d] : e1[1] = e2[1] \/ e1[2] = e2[2] => e1 = e2
             /\ \A e \in es[d] : e[2] \in LiveInodes \ {ROOT_INODE}
             /\ Lookup(fs, d, Dot) = d
             /\ \A h \in Holders(d) : Lookup(fs, d, DotDot) = h
        /\ {at[2] : at \in Located} = LiveInodes

\* A call alone derails in these ways: ballocs, or a directory outgrown; a walk
\* into a regular file that was written to; rmdir or mv on what has no father; mv
\* of a dot; create of no name.  The others need an earlier call: a directory has
\* a block without entries, its "." is another one's, or the entry to be freed is
\* missing, only after an ifree took a block, a directory moved or an entry went
\* into a regular file.
EachDerailHasItsCause ==
  fs.failed \in {"astray", "not_self", "no_entry"} => fs.defects \ {"duplicate"} # {}

tree == LET located == Located
        IN  [p \in {at[1] : at \in located} |->
               fs.mode[(CHOOSE at \in located : at[1] = p)[2]]]
T == INSTANCE Tree WITH kind <- tree

\* Until then the paths that exist, and what they are, change as those of a
\* tree do: by making a file, a chain of directories, by removing a file or an
\* empty directory, or by renaming one thing and all that is under it.
ImplementsTree == [][Intact' /\ fs' # fs => tree' \in {tree} \cup T!After(tree)]_fs

-------------------------------------------------------------------------------
(* What the program is said to do, and does not. *)

\* assert(0) at the end of free_entry_to_inode (ext2m.hpp:1031): the directory
\* that rmdir takes from ".." holds the entry.
EntryToFreeExists == fs.failed # "no_entry"
===============================================================================
