------------------------- MODULE MCSequenceNumbers -------------------------
EXTENDS SequenceNumbers

CONSTANTS t1, t2

MCThreads == {t1, t2}
(* Both ends of the 64-number window, and the numbers just beyond it.      *)
MCNearSeqNums == {1, 2, 63, 64, 65, 128, 129, 130, 256}
(* A number a full turn of the uint8_t ahead, and the numbers with which   *)
(* last_committed_id climbs to it.                                         *)
MCFarSeqNums == {1, 65, 129, 193, 257}
=============================================================================
