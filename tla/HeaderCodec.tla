------------------------------- MODULE HeaderCodec -------------------------------
(***************************************************************************)
(* The headers of the format.  An object header is a tag byte that carries *)
(* a length below 32 itself, or a tag byte followed by the length in 1, 2, *)
(* 4 or 8 bytes; an object with attributes has a header of the same form   *)
(* before it that counts them.  A string header is its length in a byte,   *)
(* or one of three tags.  Each write_header_* of the serializer and each   *)
(* case of decode_object_header is a row of Tags.                          *)
(*                                                                         *)
(* A header is a sequence of PODs [bytes, value].  The reader either gets  *)
(* what the writer wrote, or a foreign stream, which may hold anything.    *)
(***************************************************************************)
EXTENDS Naturals, Sequences

CONSTANTS
    B32, B64,    \* 2^32 (MAX_32_BIT_LENGTH) and 2^64
    MaxVector,   \* max_r_compatible_vector_length
    MaxAttrs,    \* max_r_compatible_attr_count
    MaxString,   \* max_r_compatible_string_length
    Lengths      \* the lengths and counts that occur

ASSUME WidthsAssumption == B32 \in Nat /\ B64 \in Nat /\ 65536 < B32 /\ B32 < B64
ASSUME LimitsAssumption ==
    /\ MaxVector \in Nat /\ MaxVector < B64
    /\ MaxAttrs \in Nat /\ MaxAttrs < B32
    /\ MaxString \in Nat /\ MaxString < B32 - 1
    /\ Lengths \subseteq 0..(B64 - 1)

\* The types that have a length and attributes.
Vectors == {"list", "real", "integer", "logical", "string", "complex", "raw"}

\* The classes of lengths: in the tag byte, in 1, 2, 4 or 8 bytes.
Classes == 1..5
Bytes == <<0, 1, 2, 4, 8>>
Bounds == <<32, 256, 65536, B32, B64>>

\* The tag byte of each type for each class of length, 256 where there is none.
None == 256
Tags == [
    list      |-> << 32,    1,    2,  3,    4>>,
    real      |-> << 64,    5,    6,  7,    8>>,
    integer   |-> << 96,    9,   10, 11,   12>>,
    logical   |-> <<128,   13,   14, 15,   16>>,
    string    |-> <<160,   17,   18, 19,   20>>,
    complex   |-> <<None, None, None, 21,   22>>,
    raw       |-> <<None, None, None, 23,   24>>,
    attribute |-> <<224,   30, None, 31, None>>]
NilTag == 0

StringTag16 == 253
StringTag32 == 254
StringTagNA == 255
NAString == B32 - 1

VARIABLES
    foreign,                 \* whether the stream comes from elsewhere
    type, length, attrs,     \* what the writer has to write
    pods,                    \* what it has written
    stage,                   \* where the writer and the reader are
    cursor,                  \* the PODs the reader has taken
    rtype, rlength, rattrs   \* what it has read

input == <<foreign, type, length, attrs>>
output == <<rtype, rlength, rattrs>>
vars == <<input, pods, stage, cursor, output>>

Init ==
    /\ foreign \in BOOLEAN
    /\ type \in Vectors \cup {"nil", "characters", "NA"}
    /\ length \in Lengths /\ attrs \in Lengths
    /\ foreign => type = "nil"
    /\ type \in {"nil", "NA"} => length = 0
    /\ type \notin Vectors => attrs = 0
    /\ pods = << >> /\ stage = "write" /\ cursor = 0
    /\ rtype = "none" /\ rlength = 0 /\ rattrs = 0

--------------------------------------------------------------------------------
(* The writer *)

\* static_cast to an unsigned integer of w bytes that holds values below bound
Pod(w, bound, v) == [bytes |-> w, value |-> v % bound]

\* Mutant of Fits: the bounds are inclusive.
FitsInclusive(t, n, c) == Tags[t][c] # None /\ n <= Bounds[c]

\* length < MAX_5_BIT_LENGTH, ... else: the class can hold the length.
Fits(t, n, c) == Tags[t][c] # None /\ n < Bounds[c]

\* The first branch that applies.
Smallest(t, n, c) == Fits(t, n, c) /\ \A d \in 1..(c - 1) : ~Fits(t, n, d)

\* Mutant of Header: every length that follows a tag takes 8 bytes.
HeaderWide(t, n, c) ==
    IF c = 1 THEN <<Pod(1, 256, Tags[t][1] + n)>>
             ELSE <<Pod(1, 256, Tags[t][c]), Pod(8, B64, n)>>

Header(t, n, c) ==
    IF c = 1 THEN <<Pod(1, 256, Tags[t][1] + n)>>
             ELSE <<Pod(1, 256, Tags[t][c]), Pod(Bytes[c], Bounds[c], n)>>

\* write_nil
WriteNil ==
    /\ stage = "write" /\ ~foreign /\ type = "nil"
    /\ pods' = <<Pod(1, 256, NilTag)>>
    /\ stage' = "first"
    /\ UNCHANGED <<input, cursor, output>>

\* write_header_*: the header, after that of the attributes if there are any.
WriteObject ==
    /\ stage = "write" /\ ~foreign /\ type \in Vectors
    /\ length <= MaxVector /\ attrs <= MaxAttrs
    /\ \E c, d \in Classes :
         /\ Smallest(type, length, c)
         /\ IF attrs = 0
              THEN d = 1 /\ pods' = Header(type, length, c)
              ELSE /\ Smallest("attribute", attrs, d)
                   /\ pods' = Header("attribute", attrs, d) \o Header(type, length, c)
    /\ stage' = "first"
    /\ UNCHANGED <<input, cursor, output>>

\* write_string_header
WriteString ==
    /\ stage = "write" /\ ~foreign /\ type = "characters"
    /\ length <= MaxString
    /\ pods' = IF length < 253 THEN <<Pod(1, 256, length)>>
               ELSE IF length < 65536 THEN <<Pod(1, 256, StringTag16), Pod(2, 65536, length)>>
               ELSE <<Pod(1, 256, StringTag32), Pod(4, B32, length)>>
    /\ stage' = "string"
    /\ UNCHANGED <<input, cursor, output>>

\* write_string_value, where is_na
WriteNA ==
    /\ stage = "write" /\ ~foreign /\ type = "NA"
    /\ pods' = <<Pod(1, 256, StringTagNA)>>
    /\ stage' = "string"
    /\ UNCHANGED <<input, cursor, output>>

\* checked_object_length, checked_attr_count, checked_string_length
WriteOverLimit ==
    /\ stage = "write" /\ ~foreign
    /\ \/ type \in Vectors /\ (length > MaxVector \/ attrs > MaxAttrs)
       \/ type = "characters" /\ length > MaxString
    /\ stage' = "write limit"
    /\ UNCHANGED <<input, pods, cursor, output>>

\* The stream comes from somewhere else.
Foreign ==
    /\ stage = "write" /\ foreign
    /\ stage' \in {"first", "string"}
    /\ UNCHANGED <<input, pods, cursor, output>>

--------------------------------------------------------------------------------
(* The reader *)

\* The values the i-th POD from the cursor may have when w bytes are read.
Field(i, w, bound) ==
    IF foreign THEN {v \in (IF i = 1 THEN 0..255 ELSE Lengths) : v < bound}
    ELSE IF cursor + i <= Len(pods) /\ pods[cursor + i].bytes = w THEN {pods[cursor + i].value}
    ELSE {}

\* Mutant of Decoded: takes two PODs for every header.
DecodedPairs(t, n, used) ==
    /\ cursor' = IF foreign THEN 0 ELSE cursor + 2
    /\ stage' = IF t # "attribute" THEN "limits" ELSE IF stage = "first" THEN "second" ELSE "malformed"
    /\ rattrs' = IF t = "attribute" THEN n ELSE rattrs
    /\ rtype' = IF t = "attribute" THEN rtype ELSE t
    /\ rlength' = IF t = "attribute" THEN rlength ELSE n
    /\ UNCHANGED <<input, pods>>

\* read_object_header, after decode_object_header has returned a type and a
\* length from this many PODs.
Decoded(t, n, used) ==
    /\ cursor' = IF foreign THEN 0 ELSE cursor + used
    /\ IF t = "attribute"
         THEN /\ stage' = IF stage = "first" THEN "second" ELSE "malformed"
              /\ rattrs' = IF stage = "first" THEN n ELSE rattrs
              /\ UNCHANGED <<rtype, rlength>>
         ELSE /\ rtype' = t /\ rlength' = n
              /\ stage' = "limits"
              /\ UNCHANGED rattrs
    /\ UNCHANGED <<input, pods>>

DecodeNil ==
    /\ stage \in {"first", "second"}
    /\ NilTag \in Field(1, 1, 256)
    /\ Decoded("nil", 0, 1)

\* The length is in the tag byte: header_byte & bitmask_length_5.
DecodeShort ==
    /\ stage \in {"first", "second"}
    /\ \E b \in Field(1, 1, 256), t \in DOMAIN Tags :
         /\ b >= 32 /\ Tags[t][1] = b - (b % 32)
         /\ Decoded(t, b % 32, 1)

\* The length follows the tag byte.
DecodeLong ==
    /\ stage \in {"first", "second"}
    /\ \E b \in Field(1, 1, 256), t \in DOMAIN Tags, c \in 2..5 :
         /\ Tags[t][c] = b
         /\ \E n \in Field(2, Bytes[c], Bounds[c]) : Decoded(t, n, 2)

\* "Unknown qdata header type"
DecodeUnknown ==
    /\ stage \in {"first", "second"}
    /\ \E b \in Field(1, 1, 256) :
         /\ b # NilTag
         /\ \A t \in DOMAIN Tags :
              IF b >= 32 THEN Tags[t][1] # b - (b % 32) ELSE \A c \in 2..5 : Tags[t][c] # b
    /\ stage' = "unknown"
    /\ UNCHANGED <<input, pods, cursor, output>>

\* Mutant of CheckLimits: takes the attribute count as it is.
CheckVectorLimit ==
    /\ stage = "limits"
    /\ stage' = IF rtype # "nil" /\ rlength > MaxVector THEN "read limit" ELSE "ok"
    /\ UNCHANGED <<input, pods, cursor, output>>

\* checked_r_compatible_vector_size, checked_r_compatible_attr_count; nil has neither.
CheckLimits ==
    /\ stage = "limits"
    /\ stage' = IF rtype # "nil" /\ (rlength > MaxVector \/ rattrs > MaxAttrs)
                  THEN "read limit" ELSE "ok"
    /\ UNCHANGED <<input, pods, cursor, output>>

\* A string header gave length n, and UINT32_MAX is NA_STRING_LENGTH.
StringLength(n, used) ==
    /\ cursor' = cursor + used
    /\ rlength' = n
    /\ rtype' = IF n = NAString THEN "NA" ELSE "characters"
    /\ stage' = IF n # NAString /\ n > MaxString THEN "read limit" ELSE "ok"
    /\ UNCHANGED <<input, pods, rattrs>>

\* read_string_header
ReadString ==
    /\ stage = "string"
    /\ \E b \in Field(1, 1, 256) :
         \/ b < 253 /\ StringLength(b, 1)
         \/ b = StringTag16 /\ \E n \in Field(2, 2, 65536) : StringLength(n, 2)
         \/ b = StringTag32 /\ \E n \in Field(2, 4, B32) : StringLength(n, 2)
         \/ b = StringTagNA /\ StringLength(NAString, 1)

Terminated ==
    /\ stage \in {"ok", "write limit", "read limit", "unknown", "malformed"}
    /\ UNCHANGED vars

Next ==
    \/ WriteNil \/ WriteObject \/ WriteString \/ WriteNA \/ WriteOverLimit \/ Foreign
    \/ DecodeNil \/ DecodeShort \/ DecodeLong \/ DecodeUnknown \/ CheckLimits \/ ReadString
    \/ Terminated

Spec == Init /\ [][Next]_vars

--------------------------------------------------------------------------------
(* Properties *)

\* Type invariant.
TypeOK ==
    /\ foreign \in BOOLEAN /\ length \in Lengths /\ attrs \in Lengths
    /\ type \in Vectors \cup {"nil", "characters", "NA"}
    /\ pods \in Seq([bytes : {1, 2, 4, 8}, value : Nat])
    /\ stage \in {"write", "first", "second", "string", "limits", "ok", "write limit",
                  "read limit", "unknown", "malformed"}
    /\ cursor \in 0..(IF foreign THEN 2 ELSE Len(pods))
    /\ rtype \in Vectors \cup {"none", "nil", "characters", "NA"}
    /\ rlength \in Nat /\ rattrs \in Nat

\* What the writer wrote is decoded, by exactly the PODs it consists of, to
\* the type, the length and the attribute count it was written from.
HeaderRoundTrip ==
    /\ ~foreign => stage \notin {"read limit", "unknown", "malformed"}
    /\ ~foreign /\ stage = "ok" =>
         /\ rtype = type /\ rattrs = attrs /\ cursor = Len(pods)
         /\ rlength = IF type = "NA" THEN NAString ELSE length

\* "These limits apply on both read and write": an object over a limit is
\* neither written nor, out of a foreign stream, materialized.
LimitsBothSides ==
    /\ ~foreign /\ stage \notin {"write", "write limit"} =>
         /\ type \in Vectors => length <= MaxVector /\ attrs <= MaxAttrs
         /\ type = "characters" => length <= MaxString
    /\ stage = "ok" =>
         /\ rtype \in Vectors => rlength <= MaxVector /\ rattrs <= MaxAttrs
         /\ rtype = "characters" => rlength <= MaxString

\* max_qdata_object_header_bytes: a whole header, the attributes' included,
\* fits the reserve that push_pod leaves at the end of a block.
HeaderBytes(s) ==
    IF s = << >> THEN 0
    ELSE s[1].bytes + (IF Len(s) > 1 THEN s[2].bytes ELSE 0)
         + (IF Len(s) > 2 THEN s[3].bytes ELSE 0) + (IF Len(s) > 3 THEN s[4].bytes ELSE 0)
HeaderFitsReserve ==
    Len(pods) <= 4 /\ HeaderBytes(pods) <= (IF stage = "string" THEN 5 ELSE 14)
================================================================================
