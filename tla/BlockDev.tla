------------------------------- MODULE BlockDev -------------------------------
(***************************************************************************)
(* What a write-back cached block device promises its only client, the     *)
(* file system: a read returns the last value written; a completed flush   *)
(* makes every block durable; after a crash each block holds, on its own,  *)
(* some value it had since the last completed flush.  No order between     *)
(* blocks is promised.                                                     *)
(*                                                                         *)
(* This is the abstract specification that BlockCache.tla (src/cache.hpp   *)
(* over src/disk.hpp) is shown to implement.                               *)
(***************************************************************************)
CONSTANTS Block,    \* block numbers of the device
          Data,     \* what a block may hold
          NoReply   \* no block has been read yet

VARIABLES content,  \* content[b]: what read_block(b) returns
          recent,   \* recent[b]: the values a crash may leave in block b
          reply     \* the value the last read_block returned

vars == <<content, recent, reply>>

Init == /\ content \in [Block -> Data]
        /\ recent = [b \in Block |-> {content[b]}]
        /\ reply = NoReply

Read(b) == /\ reply' = content[b]
           /\ UNCHANGED <<content, recent>>

Write(b, v) == /\ content' = [content EXCEPT ![b] = v]
               /\ recent' = [recent EXCEPT ![b] = @ \cup {v}]
               /\ UNCHANGED reply

Sync == /\ recent' = [b \in Block |-> {content[b]}]
        /\ UNCHANGED <<content, reply>>

Crash == /\ content' \in [Block -> Data]
         /\ \A b \in Block : content'[b] \in recent[b]
         /\ recent' = [b \in Block |-> {content'[b]}]
         /\ reply' = NoReply

Next == \/ \E b \in Block : Read(b)
        \/ \E b \in Block, v \in Data : Write(b, v)
        \/ Sync
        \/ Crash

Spec == Init /\ [][Next]_vars
===============================================================================
