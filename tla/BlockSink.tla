------------------------------- MODULE BlockSink -------------------------------
(***************************************************************************)
(* What a block writer promises the serializer, whatever threads it uses:  *)
(* the blocks submitted are stored in the order of their submission,       *)
(* nothing is lost, duplicated or altered, and finish() succeeds only when *)
(* every one of them has been stored.  Block k of the object is written k; *)
(* a block that could not be compressed is stored as a frame of size 0,    *)
(* written 0.                                                              *)
(***************************************************************************)
EXTENDS Naturals, Sequences

CONSTANTS
    MaxBlocks,       \* bound on the blocks of an object
    Endings,         \* how the serializer may end: "finish" or "limit", it throws
    CompressMayFail  \* whether a block may be lost to COMPRESSION_ERROR

VARIABLES
    total,      \* the number of blocks of the object
    ending,     \* how the serializer ends
    submitted,  \* the number of blocks handed to the writer
    stored,     \* the frames in the stream, each the block it holds
    outcome     \* "none" until the write ends

sink == <<total, ending, submitted, stored, outcome>>

Init ==
    /\ total \in 0..MaxBlocks /\ ending \in Endings
    /\ submitted = 0
    /\ stored = << >>
    /\ outcome = "none"

Submit ==
    /\ outcome = "none"
    /\ submitted < total
    /\ submitted' = submitted + 1
    /\ UNCHANGED <<total, ending, stored, outcome>>

\* The next block in order of submission reaches the stream.
Store ==
    /\ outcome = "none"
    /\ Len(stored) < submitted
    /\ \E frame \in {Len(stored) + 1} \cup (IF CompressMayFail THEN {0} ELSE {}) :
         stored' = Append(stored, frame)
    /\ UNCHANGED <<total, ending, submitted, outcome>>

\* finish() returns when all blocks are stored, or rethrows the error of the
\* stream.  How an object ends that the serializer refuses is not promised:
\* it is reported as "limit" only if the threads happen to be idle.
End ==
    /\ outcome = "none"
    /\ \/ ending = "finish" /\ outcome' = "ok" /\ submitted = total /\ Len(stored) = total
       \/ ending = "finish" /\ outcome' = "io_error" /\ submitted = total
       \/ ending = "limit" /\ outcome' \in {"limit", "undefined"}
    /\ UNCHANGED <<total, ending, submitted, stored>>

Next == Submit \/ Store \/ End

Spec == Init /\ [][Next]_sink
================================================================================
