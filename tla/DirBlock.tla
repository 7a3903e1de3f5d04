------------------------------- MODULE DirBlock -------------------------------
(***************************************************************************)
(* struct entry_block of src/ext2m.hpp: the entries packed in one block of *)
(* a directory.  A block is a function from the byte offsets where entries *)
(* start to the entries; rec_len is the distance to the next one.  An      *)
(* entry freed is no longer reached, so it leaves the function.            *)
(***************************************************************************)
EXTENDS Naturals, SequencesExt

CONSTANTS Name,        \* names of entries, "." and ".." left out
          Dot, DotDot, \* the names "." and ".."
          NameLen,     \* bytes of a name
          BLOCK_SIZE   \* 1024

FileName == Name \cup {Dot, DotDot}

\* sizeof(ext2_dir_entry_2) without its name, and the terminator strcpy adds.
EntSize(name) == ((NameLen[name] + 1 + 8 + 3) \div 4) * 4

\* The longest name (EXT2_NAME_LEN) fits in a block that holds only the dots.
ASSUME NameAssumption ==
  /\ Dot # DotDot /\ Dot \notin Name /\ DotDot \notin Name
  /\ NameLen \in [FileName -> Nat]
  /\ NameLen[Dot] = 1 /\ NameLen[DotDot] = 2
  /\ BLOCK_SIZE \in Nat
  /\ \A name \in FileName : 24 + EntSize(name) <= BLOCK_SIZE

Offset == 0 .. BLOCK_SIZE - 1
Entry(name, n, len) == [inode |-> n, name |-> name, rec_len |-> len]

init_entry_block(n, father) ==
  [o \in {0, 12} |-> IF o = 0 THEN Entry(Dot, n, 12)
                              ELSE Entry(DotDot, father, BLOCK_SIZE - 12)]

Starts(blk) == DOMAIN blk
EndOf(blk, o) == o + blk[o].rec_len
Remain(blk, o) == blk[o].rec_len - EntSize(blk[o].name)

\* Where the walk of add_entry stops for an entry called name.
Gaps(blk, name) == {o \in Starts(blk) : Remain(blk, o) >= EntSize(name)}

\* Slip: the new entry takes the whole record of the one it follows.
Insert_KeepRecLen(blk, o, name, n) ==
  LET new == o + EntSize(blk[o].name)
  IN  [q \in Starts(blk) \cup {new} |->
         IF q = o THEN [blk[o] EXCEPT !.rec_len = EntSize(blk[o].name)]
         ELSE IF q = new THEN Entry(name, n, blk[o].rec_len)
         ELSE blk[q]]

\* The record of the entry at o is cut to its size, and what remains of it
\* becomes the record of the new entry.
Insert(blk, o, name, n) ==
  LET new == o + EntSize(blk[o].name)
  IN  [q \in Starts(blk) \cup {new} |->
         IF q = o THEN [blk[o] EXCEPT !.rec_len = EntSize(blk[o].name)]
         ELSE IF q = new THEN Entry(name, n, Remain(blk, o))
         ELSE blk[q]]

add_entry(blk, name, n) == Insert(blk, Min(Gaps(blk, name)), name, n)

\* Where the walk of free stops for inode n, and the entry it passed before.
Naming(blk, n) == {o \in Starts(blk) : blk[o].inode = n}
Preceding(blk, o) == Max({q \in Starts(blk) : q < o})

\* Slip: the record of the freed entry is left to nobody.
Unlinked_NoMerge(blk, o) == [q \in Starts(blk) \ {o} |-> blk[q]]

\* The entry before takes over the record of the entry at o.
Unlinked(blk, o) ==
  [q \in Starts(blk) \ {o} |->
     IF q = Preceding(blk, o) THEN [blk[q] EXCEPT !.rec_len = @ + blk[o].rec_len]
                              ELSE blk[q]]

\* free asserts that the entry it found is not "." or "..".
FreesDot(blk, n) == blk[Min(Naming(blk, n))].name \in {Dot, DotDot}
free(blk, n) == Unlinked(blk, Min(Naming(blk, n)))

\* What next_entry returns, call after call, until it answers false.
Walk(blk) ==
  LET from[o \in Starts(blk) \cup {BLOCK_SIZE}] ==
        IF o = BLOCK_SIZE THEN <<>> ELSE <<blk[o]>> \o from[EndOf(blk, o)]
  IN  from[0]

\* Slip: the dots of every block are kept.
get_inode_all_entry_AllDots(bs) == FlattenSeq([k \in DOMAIN bs |-> Walk(bs[k])])

\* get_inode_all_entry: the entries of all blocks in order.  The dots are
\* dropped once three entries have been listed, that is, not in the second
\* block when the first holds nothing else.
get_inode_all_entry(bs) ==
  FoldLeft(LAMBDA ret, e : IF Len(ret) > 2 /\ e.name \in {Dot, DotDot}
                           THEN ret ELSE Append(ret, e),
           <<>>, FlattenSeq([k \in DOMAIN bs |-> Walk(bs[k])]))

\* The records tile the block: next_entry and the loops of add_entry and free,
\* which stop at the exact end, meet every entry and then the end; and the
\* assert of add_entry, that a record has room for its entry, holds.
Tiled(blk) ==
  /\ 0 \in Starts(blk)
  /\ \A o \in Starts(blk) :
        /\ blk[o].rec_len >= EntSize(blk[o].name)
        /\ EndOf(blk, o) \in Starts(blk) \cup {BLOCK_SIZE}
        /\ \A q \in Starts(blk) : q > o => q >= EndOf(blk, o)

IsBlock(blk, Ino) ==
  /\ Starts(blk) \subseteq Offset
  /\ blk = [o \in Starts(blk) |-> blk[o]]
  /\ \A o \in Starts(blk) : blk[o] \in [inode : Ino, name : FileName, rec_len : 0 .. BLOCK_SIZE]
===============================================================================
