---------------------------- MODULE MCBlockReaderMT ----------------------------
(* Small instances of BlockReaderMT: a handful of interchangeable buffers. *)
EXTENDS BlockReaderMT, TLC

\* The buffers are interchangeable, so permuting them is sound for safety.
Symmetry == Permutations(Blocks) \cup Permutations(ZBlocks)
================================================================================
