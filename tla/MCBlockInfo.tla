----------------------------- MODULE MCBlockInfo -----------------------------
(* A window of three blocks over a chain that is three times as long. *)
EXTENDS BlockInfo

MCGaps == {1, 2}
MCOffsets == 0 .. 4
MCSizes == 0 .. 4

(* The chain of the instance ends at MaxHeight: the only state that has no *)
(* next block.                                                             *)
Ended == height = MaxHeight /\ UNCHANGED blockVars
MCSpec == BlockInit /\ [][BlockNext \/ Ended]_blockVars
===============================================================================
