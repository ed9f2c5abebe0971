------------------------------ MODULE StringSlabs ------------------------------
(***************************************************************************)
(* The memory behind a string_vector.  Its records are pointers into slabs *)
(* of a fixed size, which several strings share, and the slabs belong to a *)
(* string_storage.  Two pieces of code fill slabs: string_storage_builder, *)
(* when a program makes a string_vector, and read_string_payloads of the   *)
(* deserializer, which packs them by a rule of its own.  A slab is in the  *)
(* hands of a local unique_ptr until it is moved to the storage; a slab    *)
(* that is never moved is freed, and its strings with it.                  *)
(*                                                                         *)
(* A character is named by its string and its place in it.  Sizes are      *)
(* scaled: a uint32_t holds less than Word.                                *)
(***************************************************************************)
EXTENDS Integers, Sequences

CONSTANTS
  SlabBytes,        \* default_string_storage_bytes, 2^20
  Word,             \* 2^32
  MaxStringLength,  \* max_r_compatible_string_length, 2^31 - 1
  Max8, Max16,      \* MAX_STRING_8_BIT_LENGTH, MAX_STRING_16_BIT_LENGTH
  Lengths,          \* the lengths of strings
  MaxStrings        \* bound: the strings of one vector

NALength == Word - 1  \* NA_STRING_LENGTH

ASSUME StringsAssumption ==
  /\ SlabBytes \in Nat /\ Word \in Nat \ {0}
  /\ MaxStringLength \in Nat /\ MaxStringLength < NALength
  /\ Max8 \in Nat /\ Max16 \in Nat
  /\ Lengths \subseteq Nat /\ MaxStrings \in Nat

NA == -1  \* what a program or a file gives in place of a length

VARIABLES
  filling,   \* "build" or "read"
  given,     \* the lengths of the strings so far
  records,   \* string_vector::records
  slabs,     \* every slab made so far
  storage,   \* those that string_storage owns
  current,   \* current_slab, 0 when there is none
  used, capacity,
  status     \* "open", "done" or "threw"

slabsVars == <<filling, given, records, slabs, storage, current, used, capacity, status>>

SlabsInit ==
  /\ filling \in {"build", "read"}
  /\ given = <<>> /\ records = <<>>
  /\ slabs = <<>> /\ storage = {}
  /\ current = 0 /\ used = 0 /\ capacity = 0
  /\ status = "open"

-----------------------------------------------------------------------------
Blank == [string |-> 0, char |-> 0]

\* A slab after a header and n characters have been copied to offset "at".
Filled(chars, at, header, n) ==
  [o \in DOMAIN chars |->
     IF at <= o /\ o < at + header + n
     THEN [string |-> Len(records) + 1, char |-> o - at - header]
     ELSE chars[o]]

NewSlab(bytes) == [o \in 0..(bytes - 1) |-> Blank]

\* string_ref: a pointer and a size; is_na looks at the size only.
Ref(slab, at, size) == [slab |-> slab, at |-> at, size |-> size]
IsNA(ref) == ref.size = NALength

Record(length, ref) ==
  /\ given' = Append(given, length)
  /\ records' = Append(records, ref)
  /\ UNCHANGED <<filling, status>>

\* Mutant of Kept: the slab is replaced, not moved.
KeptNot == storage

\* finish_current_slab, finalize_current_slab: what the storage then owns.
Kept == IF current = 0 THEN storage ELSE storage \cup {current}

\* Mutant of HasRoom: what has been used is not taken off.
HasRoomInAll(bytes) == current # 0 /\ capacity >= bytes

HasRoom(bytes) == current # 0 /\ capacity - used >= bytes

\* A string goes after the last one, behind a header or none.
FillCurrent(length, header) ==
  /\ HasRoom(header + length)
  /\ slabs' = [slabs EXCEPT ![current] = Filled(@, used, header, length)]
  /\ Record(length, Ref(current, used + header, length % Word))
  /\ used' = used + header + length
  /\ UNCHANGED <<storage, current, capacity>>

\* Or it begins a slab of its own or of the default size.
FillNew(length, header, bytes) ==
  /\ ~HasRoom(header + length)
  /\ storage' = Kept
  /\ slabs' = Append(slabs, Filled(NewSlab(bytes), 0, header, length))
  /\ current' = Len(slabs) + 1 /\ capacity' = bytes
  /\ Record(length, Ref(Len(slabs) + 1, header, length % Word))
  /\ used' = header + length

More == status = "open" /\ Len(given) < MaxStrings

-----------------------------------------------------------------------------
(* string_storage_builder                                                  *)

\* encode_string_header, of the length cut down to a uint32_t
HeaderSize(length) ==
  IF length % Word < Max8 THEN 1 ELSE IF length % Word < Max16 THEN 3 ELSE 5

AppendNA ==
  /\ filling = "build" /\ More
  /\ Record(NA, Ref(0, 0, NALength))
  /\ UNCHANGED <<slabs, storage, current, used, capacity>>

LargerOf(a, b) == IF a >= b THEN a ELSE b

AppendString(length) ==
  /\ filling = "build" /\ More
  /\ LET header == HeaderSize(length)
     IN \/ FillCurrent(length, header)
        \/ FillNew(length, header, LargerOf(SlabBytes, header + length))

-----------------------------------------------------------------------------
(* read_string_payloads                                                    *)

ReadNA ==
  /\ filling = "read" /\ More
  /\ Record(NA, Ref(0, 0, NALength))
  /\ UNCHANGED <<slabs, storage, current, used, capacity>>

\* Mutant of ReadEmpty: an empty string is left as the vector was made.
ReadEmptyDefault ==
  /\ filling = "read" /\ More
  /\ Record(0, Ref(0, 0, NALength))
  /\ UNCHANGED <<slabs, storage, current, used, capacity>>

ReadEmpty ==
  /\ filling = "read" /\ More /\ 0 \in Lengths
  /\ Record(0, Ref(0, 0, 0))
  /\ UNCHANGED <<slabs, storage, current, used, capacity>>

\* checked_r_compatible_string_size, or the stream ends before the characters:
\* the vector and the storage are destroyed.
ReadFails ==
  /\ filling = "read" /\ More
  /\ \E length \in Lengths : length > 0 /\ length # NALength /\ length < Word
  /\ status' = "threw" /\ records' = <<>> /\ storage' = {}
  /\ current' = 0 /\ used' = 0 /\ capacity' = 0
  /\ UNCHANGED <<filling, given, slabs>>

ReadLengths == {length \in Lengths : 0 < length /\ length <= MaxStringLength}

\* More than a default slab: a slab of its own, which ends the current one.
ReadLarge(length) ==
  /\ filling = "read" /\ More
  /\ length > SlabBytes
  /\ slabs' = Append(slabs, Filled(NewSlab(length), 0, 0, length))
  /\ storage' = Kept \cup {Len(slabs) + 1}
  /\ Record(length, Ref(Len(slabs) + 1, 0, length))
  /\ current' = 0
  /\ IF current = 0 THEN UNCHANGED <<used, capacity>> ELSE used' = 0 /\ capacity' = 0

ReadSmall(length) ==
  /\ filling = "read" /\ More
  /\ length <= SlabBytes
  /\ FillCurrent(length, 0) \/ FillNew(length, 0, SlabBytes)

-----------------------------------------------------------------------------
\* freeze, or the end of the loop: the last slab goes to the storage.
Finish ==
  /\ status = "open"
  /\ status' = "done"
  /\ storage' = Kept /\ current' = 0
  /\ IF current = 0 THEN UNCHANGED <<used, capacity>> ELSE used' = 0 /\ capacity' = 0
  /\ UNCHANGED <<filling, given, records, slabs>>

SlabsTerminated == status # "open" /\ UNCHANGED slabsVars

SlabsNext ==
  \/ AppendNA
  \/ \E length \in Lengths : AppendString(length)
  \/ ReadNA \/ ReadEmpty \/ ReadFails
  \/ \E length \in ReadLengths : ReadLarge(length) \/ ReadSmall(length)
  \/ Finish \/ SlabsTerminated

SlabsSpec == SlabsInit /\ [][SlabsNext]_slabsVars

-----------------------------------------------------------------------------
(* Properties                                                              *)

\* Types, and that capacity - used never goes below zero, which size_t would
\* turn into room for anything.
TypeOK ==
  /\ filling \in {"build", "read"}
  /\ given \in Seq(Nat \cup {NA}) /\ Len(given) <= MaxStrings
  /\ records \in Seq([slab : 0..Len(slabs), at : Nat, size : 0..NALength])
  /\ storage \subseteq 1..Len(slabs)
  /\ current \in 0..Len(slabs)
  /\ used \in Nat /\ capacity \in Nat /\ used <= capacity
  /\ status \in {"open", "done", "threw"}

\* What view() reads is memory that is still owned, within its slab, and the
\* characters of its own string: no later string is copied over an earlier
\* one, and no slab is freed while a view points to it.
ViewIsIntact(i) ==
  LET ref == records[i]
  IN ~IsNA(ref) /\ ref.size > 0 =>
       /\ ref.slab \in storage \cup {current}
       /\ \A k \in 0..(ref.size - 1) :
            /\ ref.at + k \in DOMAIN slabs[ref.slab]
            /\ slabs[ref.slab][ref.at + k] = [string |-> i, char |-> k]

ViewsIntact == \A i \in 1..Len(records) : ViewIsIntact(i)

\* The view of a string has its size, an empty string is no NA and an NA is
\* one, as long as the length is no more than a file can hold.
SizesKept ==
  \A i \in 1..Len(records) :
    /\ given[i] = NA => IsNA(records[i])
    /\ given[i] \in 0..(NALength - 1) => records[i].size = given[i]

=============================================================================
