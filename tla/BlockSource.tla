------------------------------ MODULE BlockSource ------------------------------
(***************************************************************************)
(* What a block reader promises the deserializer, whatever threads it      *)
(* uses: the blocks of the stream arrive one by one, in stream order and   *)
(* with nothing skipped, and the read ends in exactly one outcome, which   *)
(* the stream itself justifies.  BlockReaderMT is shown to implement this  *)
(* specification.                                                          *)
(*                                                                         *)
(* A stream is a sequence of frames <zsize, payload>.  All that matters of *)
(* a frame is what becomes of it:                                          *)
(*   "ok"   the payload is complete and decompresses                       *)
(*   "bad"  the payload is complete and does not decompress                *)
(*   "big"  the size word exceeds the buffer of a compressed block         *)
(*   "cut"  the stream ends before the payload does                        *)
(***************************************************************************)
EXTENDS Naturals, Sequences

CONSTANTS
    MaxFrames,  \* bound on the frames of a stream
    Endings     \* how decoding the object may end, a subset of AllEndings

\* "finish"     the object is complete: finish()
\* "malformed"  the deserializer rejects the object: cleanup_and_throw(...)
\* "limit"      a checked_r_compatible_* helper throws, without cleanup()
AllEndings == {"finish", "malformed", "limit"}

Frames == 1..MaxFrames
Kinds == {"ok", "bad", "big", "cut"}

\* Only the last frame of a stream can be cut short.
Streams ==
    UNION {{s \in [1..n -> Kinds] : \A i \in 1..n : s[i] = "cut" => i = n} :
             n \in 0..MaxFrames}

\* The reader reaches the end of the stream after n whole frames.
EndsAfter(s, n) ==
    /\ n <= Len(s)
    /\ \A i \in 1..n : s[i] \in {"ok", "bad"}
    /\ \/ n = Len(s)
       \/ s[n+1] = "cut"

Damaged(s) == \E i \in DOMAIN s : s[i] \in {"bad", "big"}

VARIABLES
    file,       \* the stream
    want,       \* the number of blocks decoding the object takes
    ending,     \* how decoding the object ends once it has them
    delivered,  \* the number of blocks handed to the deserializer
    outcome     \* "none" until the read ends

source == <<file, want, ending, delivered, outcome>>

Init ==
    /\ file \in Streams
    /\ want \in 1..(MaxFrames + 1)
    /\ ending \in Endings
    /\ delivered = 0
    /\ outcome = "none"

\* The next block of the stream is handed over.
Deliver ==
    /\ outcome = "none"
    /\ delivered < want
    /\ delivered < Len(file)
    /\ file[delivered + 1] = "ok"
    /\ delivered' = delivered + 1
    /\ UNCHANGED <<file, want, ending, outcome>>

\* Success takes every block the object needs.
Succeed ==
    /\ ending = "finish"
    /\ delivered = want
    /\ outcome' = "ok"

\* "Unexpected end of file": the stream holds no further block, and the object needs one.
EndOfStream ==
    /\ delivered < want
    /\ EndsAfter(file, delivered)
    /\ outcome' = "eof"

\* "File read / decompression error": some frame is damaged.  The frame need
\* not be among those the object needs, for the reader works ahead.
StreamError ==
    /\ Damaged(file)
    /\ outcome' = "error"

\* "Corrupted block data" and the like: the object is malformed, or the block
\* that should have come next did not decompress.
Corrupted ==
    /\ \/ ending = "malformed" /\ delivered = want
       \/ Damaged(file)
    /\ outcome' = "corrupt"

\* A length beyond the compatibility limits: the code reports it only if its
\* threads happen to be idle, so no more than this can be promised.
OverLimit ==
    /\ ending = "limit"
    /\ delivered = want
    /\ outcome' \in {"limit", "undefined"}

End ==
    /\ outcome = "none"
    /\ Succeed \/ EndOfStream \/ StreamError \/ Corrupted \/ OverLimit
    /\ UNCHANGED <<file, want, ending, delivered>>

Next == Deliver \/ End

Spec == Init /\ [][Next]_source
================================================================================
