------------------------------- MODULE MCMount --------------------------------
(* Two groups; foreign bitmaps that are empty, part full and full.            *)
EXTENDS Mount

MCForeignBits == {{}, {1}, 0 .. 2}
===============================================================================
