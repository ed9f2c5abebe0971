--------------------------- MODULE MCBlockCompressor ---------------------------
(* Block sizes around the chunks of the kernels (128 and 256 bytes for elements *)
(* of 8 bytes) and the size from which the heuristic samples (512 bytes here).  *)
EXTENDS BlockCompressor

ObjectPlans ==
    {<<n>> : n \in {1, 7, 8, 63, 129, 256, 511, 512, 519, 527, 640, 648}} \cup {<<660, 519>>, <<519, 1>>}
================================================================================
