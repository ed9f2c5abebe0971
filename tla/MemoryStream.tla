----------------------------- MODULE MemoryStream -----------------------------
(***************************************************************************)
(* The memory streams, as operators on a buffer (a sequence, whose length  *)
(* is the size of the Buffer), a position and the largest size_t.  What    *)
(* the writer has made room for and not yet written is Unused.             *)
(***************************************************************************)
EXTENDS Naturals, Sequences

CONSTANTS
    InitialCapacity,   \* initial_capacity_bytes
    Unused             \* what a resize fills the buffer with

ASSUME MemoryAssumption == InitialCapacity \in Nat \ {0}

\* Mutant of Fits: the sum is not checked.
FitsUnchecked(position, n, sizeMax) == TRUE

\* checked_required_capacity: length_error, or a sum of size_t
Fits(position, n, sizeMax) == n <= sizeMax - position

RequiredCapacity(position, n, sizeMax) == (position + n) % (sizeMax + 1)

\* ensure_capacity: doubles the size the buffer has as often as it takes, and
\* takes exactly what is required where a doubling would overflow first.
GrownSize(size, required, sizeMax) ==
    LET first == IF size > 0 THEN size ELSE InitialCapacity
        enough == {g \in required..sizeMax :
                      \E k \in 0..required : /\ g = first * 2^k
                                             /\ k = 0 \/ first * 2^(k - 1) < required}
    IN  IF enough = {} THEN required ELSE CHOOSE g \in enough : TRUE

\* resize_fn
Resized(buffer, size) ==
    [i \in 1..size |-> IF i <= Len(buffer) THEN buffer[i] ELSE Unused]

WithCapacity(buffer, required, sizeMax) ==
    IF required > Len(buffer)
      THEN Resized(buffer, GrownSize(Len(buffer), required, sizeMax))
      ELSE buffer

\* erased_memory_writer::write, of one piece
Written(buffer, position, piece, sizeMax) ==
    LET room == WithCapacity(buffer, RequiredCapacity(position, 1, sizeMax), sizeMax)
    IN  [room EXCEPT ![position + 1] = piece]

\* memory_reader::read of up to n pieces from the position, and what it leaves
\* the position at
Available(buffer, at, n) == IF n <= Len(buffer) - at THEN n ELSE Len(buffer) - at
Read(buffer, at, n) == SubSeq(buffer, at + 1, at + Available(buffer, at, n))
===============================================================================
