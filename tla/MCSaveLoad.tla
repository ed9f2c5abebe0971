------------------------------- MODULE MCSaveLoad -------------------------------
(* SaveLoad with an object of three blocks saved over one of one block.  In     *)
(* pieces, a size_t that ends a save early, one that memory fills to the last   *)
(* piece after its size could not be doubled any more, and one with room.       *)
EXTENDS SaveLoad

TwoSizes == [o \in {"old", "new"} |-> IF o = "old" THEN 1 ELSE 3]
NoPiece == [object |-> "unused", part |-> 0]
================================================================================
