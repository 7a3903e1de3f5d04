------------------------------ MODULE BlockCache ------------------------------
(***************************************************************************)
(* The LRU write-back cache of src/cache.hpp and the disk image file under *)
(* it (src/disk.hpp).  Every operation of Cache runs under the server's    *)
(* single mutex, so read_block and write_block are one step each; a flush  *)
(* is one step per slot, because the process may die between two of its    *)
(* disk writes.                                                            *)
(*                                                                         *)
(* The image file is seen twice: "image" is what the FILE stream returns   *)
(* (every fwrite so far), "file" what a new process finds after this one   *)
(* dies (the fwrites that have left the stream's buffer).  fseek and       *)
(* fflush empty that buffer, and fwrite may or may not.                    *)
(***************************************************************************)
EXTENDS Naturals, Sequences, SequencesExt

CONSTANTS Block,       \* block numbers, 0 .. DISK_SIZE / BLOCK_SIZE - 1
          Data,        \* what a block may hold
          Zero,        \* a block of zero bytes
          Capacity,    \* number of slots of the cache
          FlushEvery,  \* write_block calls between two fflush (4096)
          NoBlock,     \* (size_t)-1, the block_idx of an empty slot
          NoReply      \* nothing read yet

Pos == 0 .. Capacity - 1    \* positions in _cache
NoPos == Capacity           \* stands for "not in _lru_map"

ASSUME CacheAssumption == /\ Capacity \in Nat \ {0}
                          /\ FlushEvery \in Nat
                          /\ Zero \in Data
                          /\ NoBlock \notin Block

VARIABLES cache,          \* _cache: the slots
          free_position,  \* _free_postion: the queue of empty slots
          lru_list,       \* _lru_list: used slots, most recently used first
          lru_map,        \* _lru_map: the slot of a cached block, or NoPos
          image, file,    \* the disk image: through the stream, and on disk
          cnt,            \* write_block's static counter
          flush_pos,      \* next slot flush_all will look at, NoFlush outside
          reply,          \* what the last read_block copied out
          recent          \* history: values of a block since the last flush

cacheVars == <<cache, free_position, lru_list, lru_map>>
diskVars == <<image, file, cnt>>
vars == <<cacheVars, diskVars, flush_pos, reply, recent>>

NoFlush == Capacity + 1

EmptySlot == [data |-> Zero, block_idx |-> NoBlock, dirty |-> FALSE]
Item == [data : Data, block_idx : Block \cup {NoBlock}, dirty : BOOLEAN]

Cached(b) == lru_map[b] # NoPos

\* What a client of the cache sees in block b.
Content == [b \in Block |-> IF Cached(b) THEN cache[lru_map[b]].data
                                         ELSE image[b]]
-------------------------------------------------------------------------------
(* The disk (src/disk.hpp) *)

\* fseek before a read pushes the buffered bytes into the file.
Disk_read_block == /\ file' = image
                   /\ UNCHANGED <<image, cnt>>

\* Slip: the counter is never reset.
NextCnt_NoReset == cnt + 1

NextCnt == IF cnt > FlushEvery THEN 0 ELSE cnt + 1

Disk_write_block(b, v) ==
  /\ image' = [image EXCEPT ![b] = v]
  /\ cnt' = NextCnt
  /\ \/ file' = image'
     \/ cnt <= FlushEvery /\ file' = image

Disk_sync == /\ file' = image
             /\ UNCHANGED <<image, cnt>>
-------------------------------------------------------------------------------
(* The cache (src/cache.hpp) *)

NewCache == /\ cache = [p \in Pos |-> EmptySlot]
            /\ free_position = [i \in 1 .. Capacity |-> i - 1]
            /\ lru_list = <<>>
            /\ lru_map = [b \in Block |-> NoPos]

Init == /\ NewCache
        /\ image \in [Block -> Data]
        /\ file = image
        /\ cnt = 0
        /\ flush_pos = NoFlush
        /\ reply = NoReply
        /\ recent = [b \in Block |-> {image[b]}]

\* Slip: a hit leaves the list as it is (a FIFO cache).
MoveToFront_Fifo(s, i) == s

\* erase(it); push_front(*it)
MoveToFront(s, i) == <<s[i]>> \o RemoveAt(s, i)

\* _update on a block found in the cache.
Hit(b, p) ==
  /\ lru_map[b] = p /\ p # NoPos
  /\ \E i \in 1 .. Len(lru_list) :
        /\ lru_list[i] = p
        /\ lru_list' = MoveToFront(lru_list, i)
  /\ UNCHANGED <<free_position, lru_map, image, file, cnt>>

\* Slip: the slot is used but stays in the queue.
LoadFree_NoPop(b, p) ==
  /\ ~Cached(b)
  /\ free_position # <<>> /\ p = Head(free_position)
  /\ lru_list' = <<p>> \o lru_list
  /\ lru_map' = [lru_map EXCEPT ![b] = p]
  /\ Disk_read_block
  /\ UNCHANGED free_position

\* _get_block_from_disk into a slot that was never used.
LoadFree(b, p) ==
  /\ ~Cached(b)
  /\ free_position # <<>> /\ p = Head(free_position)
  /\ free_position' = Tail(free_position)
  /\ lru_list' = <<p>> \o lru_list
  /\ lru_map' = [lru_map EXCEPT ![b] = p]
  /\ Disk_read_block

\* Slip: the victim's entry stays in _lru_map.
LoadEvict_NoErase(b, p) ==
  LET victim == cache[p] IN
  /\ ~Cached(b)
  /\ free_position = <<>> /\ lru_list # <<>> /\ p = Last(lru_list)
  /\ lru_list' = <<p>> \o Front(lru_list)
  /\ lru_map' = [lru_map EXCEPT ![b] = p]
  /\ IF victim.dirty
     THEN /\ image' = [image EXCEPT ![victim.block_idx] = victim.data]
          /\ cnt' = NextCnt
     ELSE UNCHANGED <<image, cnt>>
  /\ file' = image'
  /\ UNCHANGED free_position

\* Slip: the victim is dropped without being written back.
LoadEvict_NoWriteBack(b, p) ==
  LET victim == cache[p] IN
  /\ ~Cached(b)
  /\ free_position = <<>> /\ lru_list # <<>> /\ p = Last(lru_list)
  /\ lru_list' = <<p>> \o Front(lru_list)
  /\ lru_map' = [lru_map EXCEPT ![victim.block_idx] = NoPos, ![b] = p]
  /\ Disk_read_block
  /\ UNCHANGED free_position

\* _get_block_from_disk after _free_lru: the victim's slot is queued and
\* dequeued at once, its block written back when dirty.  The read that
\* follows moves the stream, so the write-back is in the file by then.
LoadEvict(b, p) ==
  LET victim == cache[p] IN
  /\ ~Cached(b)
  /\ free_position = <<>> /\ lru_list # <<>> /\ p = Last(lru_list)
  /\ lru_list' = <<p>> \o Front(lru_list)
  /\ lru_map' = [lru_map EXCEPT ![victim.block_idx] = NoPos, ![b] = p]
  /\ IF victim.dirty
     THEN /\ image' = [image EXCEPT ![victim.block_idx] = victim.data]
          /\ cnt' = NextCnt
     ELSE UNCHANGED <<image, cnt>>
  /\ file' = image'
  /\ UNCHANGED free_position

Locate(b, p) == Hit(b, p) \/ LoadFree(b, p) \/ LoadEvict(b, p)

\* The slot of b once it is located, before the caller touches it.
Located(b, p) == IF Cached(b)
                 THEN cache[p]
                 ELSE [data |-> image[b], block_idx |-> b, dirty |-> FALSE]

read_block(b) ==
  /\ flush_pos = NoFlush
  /\ \E p \in Pos :
        /\ Locate(b, p)
        /\ cache' = [cache EXCEPT ![p] = Located(b, p)]
        /\ reply' = Located(b, p).data
  /\ UNCHANGED <<flush_pos, recent>>

\* Slip: the written slot is not marked dirty.
write_block_NotDirty(b, v) ==
  /\ flush_pos = NoFlush
  /\ \E p \in Pos :
        /\ Locate(b, p)
        /\ cache' = [cache EXCEPT ![p] =
                       [data |-> v, block_idx |-> b, dirty |-> FALSE]]
  /\ recent' = [recent EXCEPT ![b] = @ \cup {v}]
  /\ UNCHANGED <<flush_pos, reply>>

write_block(b, v) ==
  /\ flush_pos = NoFlush
  /\ \E p \in Pos :
        /\ Locate(b, p)
        /\ cache' = [cache EXCEPT ![p] =
                       [data |-> v, block_idx |-> b, dirty |-> TRUE]]
  /\ recent' = [recent EXCEPT ![b] = @ \cup {v}]
  /\ UNCHANGED <<flush_pos, reply>>

\* _write_item_back on slot p.
WriteItemBack(p) ==
  IF cache[p].dirty /\ cache[p].block_idx # NoBlock
  THEN /\ Disk_write_block(cache[p].block_idx, cache[p].data)
       /\ cache' = [cache EXCEPT ![p].dirty = FALSE]
  ELSE UNCHANGED <<cache, diskVars>>

\* flushb asserts that the block is cached; without it the process aborts,
\* which is the Crash step.
flushb(b) ==
  /\ flush_pos = NoFlush
  /\ Cached(b)
  /\ WriteItemBack(lru_map[b])
  /\ UNCHANGED <<free_position, lru_list, lru_map, flush_pos, reply, recent>>

\* flush_all: every slot in position order, then Disk::sync.
FlushStart == /\ flush_pos = NoFlush
              /\ flush_pos' = 0
              /\ UNCHANGED <<cacheVars, diskVars, reply, recent>>

FlushItem == /\ flush_pos \in Pos
             /\ WriteItemBack(flush_pos)
             /\ flush_pos' = flush_pos + 1
             /\ UNCHANGED <<free_position, lru_list, lru_map, reply, recent>>

\* Slip: flush_all returns without the fflush of Disk::sync.
FlushEnd_NoSync == /\ flush_pos = Capacity
                   /\ flush_pos' = NoFlush
                   /\ recent' = [b \in Block |-> {Content[b]}]
                   /\ UNCHANGED <<cacheVars, diskVars, reply>>

FlushEnd == /\ flush_pos = Capacity
            /\ Disk_sync
            /\ flush_pos' = NoFlush
            /\ recent' = [b \in Block |-> {Content[b]}]
            /\ UNCHANGED <<cacheVars, reply>>

\* The process dies, in a flush or out of it, and a new one opens the image.
Crash == /\ cache' = [p \in Pos |-> EmptySlot]
         /\ free_position' = [i \in 1 .. Capacity |-> i - 1]
         /\ lru_list' = <<>>
         /\ lru_map' = [b \in Block |-> NoPos]
         /\ image' = file
         /\ UNCHANGED file
         /\ cnt' = 0
         /\ flush_pos' = NoFlush
         /\ reply' = NoReply
         /\ recent' = [b \in Block |-> {file[b]}]

Next == \/ \E b \in Block : read_block(b)
        \/ \E b \in Block, v \in Data : write_block(b, v)
        \/ \E b \in Block : flushb(b)
        \/ FlushStart
        \/ FlushItem
        \/ FlushEnd
        \/ Crash

Spec == Init /\ [][Next]_vars

\* The server's sync thread calls flush_all every ten seconds (server.cpp);
\* once begun, a flush runs to its end.
Fairness == WF_vars(FlushStart) /\ WF_vars(FlushItem) /\ WF_vars(FlushEnd)
-------------------------------------------------------------------------------
(* Properties *)

\* Type invariant of the cache and the disk.
TypeOK ==
  /\ cache \in [Pos -> Item]
  /\ free_position \in Seq(Pos)
  /\ lru_list \in Seq(Pos)
  /\ lru_map \in [Block -> Pos \cup {NoPos}]
  /\ image \in [Block -> Data]
  /\ file \in [Block -> Data]
  /\ cnt \in 0 .. FlushEvery + 1
  /\ flush_pos \in 0 .. Capacity + 1
  /\ reply \in Data \cup {NoReply}
  /\ recent \in [Block -> SUBSET Data]

\* Every slot is in exactly one of _lru_list and _free_postion, once.
SlotsPartitioned ==
  /\ IsInjective(lru_list) /\ IsInjective(free_position)
  /\ ToSet(lru_list) \cap ToSet(free_position) = {}
  /\ ToSet(lru_list) \cup ToSet(free_position) = Pos

\* _lru_map finds a block exactly in the used slot that names it; an empty
\* slot names no block.
MapMatchesSlots ==
  /\ \A b \in Block : Cached(b) => /\ lru_map[b] \in ToSet(lru_list)
                                   /\ cache[lru_map[b]].block_idx = b
  /\ \A p \in ToSet(lru_list) : /\ cache[p].block_idx \in Block
                                /\ lru_map[cache[p].block_idx] = p
  /\ \A p \in ToSet(free_position) : cache[p].block_idx = NoBlock

\* A cached block that differs from the image is marked dirty, so evicting or
\* flushing it can never lose the difference.
CleanMatchesImage ==
  \A b \in Block : Cached(b) /\ ~cache[lru_map[b]].dirty
                     => cache[lru_map[b]].data = image[b]

\* Whatever instant the process dies at, each block of the file holds a value
\* it had since the last completed flush (or at it).
CrashKeepsRecent == \A b \in Block : {file[b], image[b], Content[b]} \subseteq recent[b]

\* Slots the running flush has passed are clean: nothing dirties them behind
\* its back.
FlushedPrefixClean ==
  flush_pos \in 0 .. Capacity => \A p \in Pos : p < flush_pos => ~cache[p].dirty

\* A dirty slot holds a block, so that _write_item_back never skips it.
DirtyNamesBlock == \A p \in Pos : cache[p].dirty => cache[p].block_idx # NoBlock

\* The inductive invariant.
IInv == /\ TypeOK
        /\ SlotsPartitioned
        /\ MapMatchesSlots
        /\ CleanMatchesImage
        /\ CrashKeepsRecent
        /\ FlushedPrefixClean
        /\ DirtyNamesBlock

\* Time and again everything written so far is in the file.
DurableAgainAndAgain == []<>(\A b \in Block : file[b] = Content[b])

Device == INSTANCE BlockDev WITH content <- Content

\* The cache is a block device that keeps BlockDev's promises.
ImplementsDevice == Device!Spec
===============================================================================
