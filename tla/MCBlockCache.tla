---------------------------- MODULE MCBlockCache ----------------------------
(* BlockCache with the history of LruOrder, on the device that the cfg gives: *)
(* three blocks in two slots, and a stream flushed at every third write.      *)
EXTENDS LruOrder
=============================================================================
