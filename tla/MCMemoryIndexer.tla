-------------------------- MODULE MCMemoryIndexer --------------------------
(* Two paths share the queue, which overflows; one is written often enough to *)
(* be put, deleted and put again, the other only to fill queue and batch.     *)
EXTENDS MemoryIndexer, TLC

CONSTANTS p1, p2
Writes == p1 :> 3 @@ p2 :> 1
=============================================================================
