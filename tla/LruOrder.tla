------------------------------- MODULE LruOrder -------------------------------
(***************************************************************************)
(* BlockCache with a history of accesses, to say which block an eviction   *)
(* may take ("LRU CACHE FOR DISK", src/cache.hpp), and with the fairness   *)
(* of the server's sync thread.                                            *)
(***************************************************************************)
EXTENDS BlockCache

VARIABLE later   \* pairs: the first was accessed, and since any access of the second

\* b is the block accessed last of all.
Touch(b) == {r \in later : r[2] # b} \cup {b} \X (Block \ {b})

LruInit == Init /\ later = {}

Access(b) == /\ read_block(b) \/ \E v \in Data : write_block(b, v)
             /\ later' = Touch(b)

Maintain == /\ \/ \E b \in Block : flushb(b)
               \/ FlushStart
               \/ FlushItem
               \/ FlushEnd
            /\ UNCHANGED later

Restart == Crash /\ later' = {}

LruNext == (\E b \in Block : Access(b)) \/ Maintain \/ Restart

LruSpec == LruInit /\ [][LruNext]_<<vars, later>> /\ Fairness

\* The block in the i-th slot of the list.
Listed(i) == cache[lru_list[i]].block_idx

\* The list has the cached blocks in the order of their last access, and every
\* block that is not cached was accessed before all of them, or never; so an
\* eviction takes the block unused the longest.  A block once accessed is out
\* of the cache only when no slot is free.  Flushes do not count as accesses.
HoldsMostRecent ==
  /\ \A i, j \in DOMAIN lru_list : i < j => <<Listed(i), Listed(j)>> \in later
  /\ \A b \in Block : ~Cached(b) => \A i \in DOMAIN lru_list : <<Listed(i), b>> \in later
  /\ \A r \in later : Cached(r[1]) \/ free_position = <<>>
===============================================================================
