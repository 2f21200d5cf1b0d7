------------------------------- MODULE MCPMM -------------------------------
(***************************************************************************)
(* Instance of PMM for TLC: blocks of 1, 2 and 4 frames; frame 0 is never  *)
(* usable and the last block is cut short by the end of memory, so merges  *)
(* meet an unusable buddy, a buddy beyond the end and the largest order.   *)
(***************************************************************************)
EXTENDS PMM

MCNumPages  == 10
MCMaxOrder  == 3
MCUsable    == 2 .. 9
MCBlockSize == [k \in 0 .. 3 |-> 2 ^ k]
=============================================================================
