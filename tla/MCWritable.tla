----------------------------- MODULE MCWritable -----------------------------
(* Instances of Writable for TLC: the second chunk is as large as the       *)
(* high water mark of the runs.                                             *)
EXTENDS Writable

MCSize == [w \in Writes |-> IF w = 2 THEN 2 ELSE 1]
=============================================================================
