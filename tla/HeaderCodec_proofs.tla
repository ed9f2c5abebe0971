---------------------------- MODULE HeaderCodec_proofs ----------------------------
(***************************************************************************)
(* The headers of HeaderCodec decode to what they were encoded from, for   *)
(* all lengths and limits, those of the program among them.                *)
(***************************************************************************)
EXTENDS HeaderCodec, TLAPS

AllTypes == DOMAIN Tags

\* A table of small numbers: the tags are bytes, or None.
LEMMA TagsType ==
    /\ AllTypes = Vectors \cup {"attribute"}
    /\ \A t \in AllTypes : Tags[t][1] \in {32, 64, 96, 128, 160, 224, None}
    /\ \A t \in AllTypes : \A c \in 2..5 : Tags[t][c] \in (1..31) \cup {None}
<1>1. AllTypes = Vectors \cup {"attribute"}
    BY DEF AllTypes, Tags, Vectors
<1>2. \A t \in AllTypes : Tags[t][1] \in {32, 64, 96, 128, 160, 224, None}
    BY DEF AllTypes, Tags, None
<1>3. \A t \in AllTypes : \A c \in 2..5 : Tags[t][c] \in (1..31) \cup {None}
  <2> SUFFICES ASSUME NEW t \in AllTypes, NEW c \in 2..5
               PROVE  Tags[t][c] \in (1..31) \cup {None}
      OBVIOUS
  <2>1. c = 2 \/ c = 3 \/ c = 4 \/ c = 5
      OBVIOUS
  <2>2. CASE c = 2 BY <2>2 DEF AllTypes, Tags, None
  <2>3. CASE c = 3 BY <2>3 DEF AllTypes, Tags, None
  <2>4. CASE c = 4 BY <2>4 DEF AllTypes, Tags, None
  <2>5. CASE c = 5 BY <2>5 DEF AllTypes, Tags, None
  <2> QED BY <2>1, <2>2, <2>3, <2>4, <2>5
<1> QED BY <1>1, <1>2, <1>3

\* No two headers share a tag.
LEMMA ShortTagsDistinct ==
    \A t, u \in AllTypes : Tags[t][1] # None /\ Tags[u][1] = Tags[t][1] => u = t
BY DEF AllTypes, Tags, None

LEMMA LongTagsDistinct ==
    \A t, u \in AllTypes : \A c, d \in 2..5 :
        Tags[t][c] # None /\ Tags[u][d] = Tags[t][c] => u = t /\ d = c
<1> SUFFICES ASSUME NEW t \in AllTypes, NEW u \in AllTypes, NEW c \in 2..5, NEW d \in 2..5,
                    Tags[t][c] # None, Tags[u][d] = Tags[t][c]
             PROVE  u = t /\ d = c
    OBVIOUS
<1>1. CASE c = 2 BY <1>1 DEF AllTypes, Tags, None
<1>2. CASE c = 3 BY <1>2 DEF AllTypes, Tags, None
<1>3. CASE c = 4 BY <1>3 DEF AllTypes, Tags, None
<1>4. CASE c = 5 BY <1>4 DEF AllTypes, Tags, None
<1> QED BY <1>1, <1>2, <1>3, <1>4

LEMMA BoundsType ==
    /\ \A c \in Classes : Bounds[c] \in Nat /\ Bounds[c] >= 32 /\ Bounds[c] <= B64
    /\ Bounds[1] = 32 /\ \A c \in 2..5 : Bytes[c] \in {1, 2, 4, 8}
BY WidthsAssumption DEF Classes, Bounds, Bytes

\* A value within the range of its integer type is stored as it is.
LEMMA Uncast == \A n, b \in Nat : n < b => n % b = n
OBVIOUS

--------------------------------------------------------------------------------
(* One header *)

\* The PODs that are read from the cursor on are those of a header of t and n.
At(t, n, c) ==
    /\ t \in AllTypes /\ c \in Classes /\ n \in Nat /\ Fits(t, n, c)
    /\ ~foreign
    /\ cursor \in Nat /\ cursor + 1 <= Len(pods)
    /\ pods[cursor + 1] = Header(t, n, c)[1]
    /\ c # 1 => cursor + 2 <= Len(pods) /\ pods[cursor + 2] = Header(t, n, c)[2]

\* A tag that carries its length is taken apart into type and length.
LEMMA ShortTag ==
    ASSUME NEW t, NEW n, At(t, n, 1)
    PROVE  /\ Field(1, 1, 256) = {Tags[t][1] + n}
           /\ Tags[t][1] + n >= 32 /\ (Tags[t][1] + n) % 32 = n
           /\ (Tags[t][1] + n) - n = Tags[t][1]
<1>1. Tags[t][1] \in {32, 64, 96, 128, 160, 224} /\ n \in 0..31
    BY TagsType, BoundsType DEF At, Fits
<1>2. (Tags[t][1] + n) % 256 = Tags[t][1] + n
    BY <1>1
<1>3. pods[cursor + 1] = [bytes |-> 1, value |-> Tags[t][1] + n]
    BY <1>2 DEF At, Header, Pod
<1>4. Field(1, 1, 256) = {Tags[t][1] + n}
    BY <1>3 DEF At, Field
<1> QED BY <1>1, <1>4

\* A tag that is followed by its length is no other type's tag.
LEMMA LongTag ==
    ASSUME NEW t, NEW n, NEW c \in 2..5, At(t, n, c)
    PROVE  /\ Field(1, 1, 256) = {Tags[t][c]} /\ Tags[t][c] \in 1..31
           /\ Field(2, Bytes[c], Bounds[c]) = {n}
<1>1. Tags[t][c] \in 1..31 /\ c # 1 /\ c \in Classes
  <2>1. t \in AllTypes /\ Tags[t][c] # None
      BY DEF At, Fits
  <2>2. Tags[t][c] \in (1..31) \cup {None}
      BY <2>1, TagsType
  <2> QED BY <2>1, <2>2 DEF Classes
<1>2. Tags[t][c] % 256 = Tags[t][c]
    BY <1>1
<1>3. n % Bounds[c] = n
    BY <1>1, BoundsType, Uncast DEF At, Fits
<1>4. /\ pods[cursor + 1] = [bytes |-> 1, value |-> Tags[t][c]]
      /\ pods[cursor + 2] = [bytes |-> Bytes[c], value |-> n]
    BY <1>1, <1>2, <1>3 DEF At, Header, Pod
<1> QED BY <1>1, <1>4 DEF At, Field

\* The reader decodes such a header to t and n, whichever way it goes.
LEMMA DecodesHeader ==
    ASSUME NEW t, NEW n, NEW c, At(t, n, c), DecodeNil \/ DecodeShort \/ DecodeLong \/ DecodeUnknown
    PROVE  Decoded(t, n, IF c = 1 THEN 1 ELSE 2)
<1> DEFINE used == IF c = 1 THEN 1 ELSE 2
<1> HIDE DEF used
<1>1. CASE c = 1
  <2>1. At(t, n, 1) BY <1>1
  <2>2. \A d \in AllTypes, e \in 2..5 : Tags[d][e] # Tags[t][1] + n
    <3>1. Tags[t][1] + n \in 32..255
      <4>1. Tags[t][1] \in {32, 64, 96, 128, 160, 224} /\ n \in 0..31
          BY <2>1, TagsType, BoundsType DEF At, Fits
      <4> QED BY <4>1
    <3>2. ASSUME NEW d \in AllTypes, NEW e \in 2..5 PROVE Tags[d][e] # Tags[t][1] + n
      <4> DEFINE x == Tags[d][e]
                 y == Tags[t][1] + n
      <4>1. x \in 1..31 \/ x = 256
          BY TagsType DEF None
      <4>2. y \in 32..255
          BY <3>1
      <4> HIDE DEF x, y
      <4>3. x # y
          BY <4>1, <4>2
      <4> QED BY <4>3 DEF x, y
    <3> QED BY <3>2
  <2>3. n \in Nat /\ t \in AllTypes /\ Tags[t][1] # None
      BY <2>1 DEF At, Fits
  <2>4. ~DecodeNil /\ ~DecodeLong
      BY <2>1, <2>2, ShortTag DEF DecodeNil, DecodeLong, NilTag, AllTypes
  <2>5. ~DecodeUnknown
      BY <2>1, <2>3, ShortTag DEF DecodeUnknown, AllTypes
  <2>6. ASSUME DecodeShort PROVE Decoded(t, n, 1)
    <3>1. PICK b \in Field(1, 1, 256), u \in DOMAIN Tags :
             b >= 32 /\ Tags[u][1] = b - (b % 32) /\ Decoded(u, b % 32, 1)
        BY <2>6 DEF DecodeShort
    <3>2. b = Tags[t][1] + n /\ b % 32 = n /\ b - n = Tags[t][1]
        BY <3>1, <2>1, ShortTag
    <3>3. u = t
        BY <3>1, <3>2, <2>3, ShortTagsDistinct DEF AllTypes
    <3> QED BY <3>1, <3>2, <3>3
  <2> QED BY <1>1, <2>4, <2>5, <2>6 DEF used
<1>2. CASE c # 1
  <2>1. c \in 2..5
      BY <1>2 DEF At, Classes
  <2>2. Field(1, 1, 256) = {Tags[t][c]} /\ Tags[t][c] \in 1..31 /\ Field(2, Bytes[c], Bounds[c]) = {n}
      BY <2>1, LongTag
  <2>3. t \in AllTypes /\ Tags[t][c] # None
      BY DEF At, Fits
  <2>4. ~DecodeNil /\ ~DecodeShort
      BY <2>2 DEF DecodeNil, DecodeShort, NilTag
  <2>5. ~DecodeUnknown
      BY <2>1, <2>2, <2>3 DEF DecodeUnknown, AllTypes
  <2>6. ASSUME DecodeLong PROVE Decoded(t, n, 2)
    <3>1. PICK b \in Field(1, 1, 256), u \in DOMAIN Tags, d \in 2..5 :
             Tags[u][d] = b /\ \E m \in Field(2, Bytes[d], Bounds[d]) : Decoded(u, m, 2)
        BY <2>6 DEF DecodeLong
    <3>2. u = t /\ d = c
        BY <3>1, <2>1, <2>2, <2>3, LongTagsDistinct DEF AllTypes
    <3> QED BY <3>1, <3>2, <2>2
  <2> QED BY <1>2, <2>4, <2>5, <2>6 DEF used
<1> QED BY <1>1, <1>2 DEF used

--------------------------------------------------------------------------------
(* The invariant *)

\* What the writer puts down for an object.
WroteObject(c, d) ==
    /\ c \in Classes /\ d \in Classes
    /\ Fits(type, length, c)
    /\ IF attrs = 0 THEN pods = Header(type, length, c)
       ELSE Fits("attribute", attrs, d) /\ pods = Header("attribute", attrs, d) \o Header(type, length, c)

\* The state of writer and reader at each stage of an object.
WriteInv == stage = "write" => cursor = 0 /\ rattrs = 0
FirstInv ==
    stage = "first" =>
      /\ cursor = 0 /\ rattrs = 0
      /\ \/ type = "nil" /\ length = 0 /\ attrs = 0 /\ pods = <<Pod(1, 256, NilTag)>>
         \/ type \in Vectors /\ length <= MaxVector /\ attrs <= MaxAttrs
            /\ \E c, d \in Classes : WroteObject(c, d)
SecondInv ==
    stage = "second" =>
      /\ type \in Vectors /\ length <= MaxVector /\ attrs <= MaxAttrs
      /\ attrs # 0 /\ rattrs = attrs
      /\ \E c, d \in Classes :
           WroteObject(c, d) /\ cursor = Len(Header("attribute", attrs, d))
Decided ==
    /\ type \in Vectors \cup {"nil"}
    /\ type \in Vectors => length <= MaxVector /\ attrs <= MaxAttrs
    /\ rtype = type /\ rlength = length /\ rattrs = attrs /\ cursor = Len(pods)
LimitsInv == stage = "limits" => Decided

\* The PODs of a string.
WroteString ==
    IF type = "NA" THEN length = 0 /\ pods = <<Pod(1, 256, StringTagNA)>>
    ELSE /\ type = "characters" /\ length <= MaxString
         /\ pods = IF length < 253 THEN <<Pod(1, 256, length)>>
                   ELSE IF length < 65536 THEN <<Pod(1, 256, StringTag16), Pod(2, 65536, length)>>
                   ELSE <<Pod(1, 256, StringTag32), Pod(4, B32, length)>>
StringInv == stage = "string" => cursor = 0 /\ rattrs = 0 /\ attrs = 0 /\ WroteString

InputInv ==
    /\ foreign \in BOOLEAN /\ length \in Lengths /\ attrs \in Lengths
    /\ type \in {"nil", "NA"} => length = 0
    /\ type \notin Vectors => attrs = 0

StageInv == WriteInv /\ FirstInv /\ SecondInv /\ LimitsInv /\ StringInv /\ HeaderRoundTrip

HInv == InputInv /\ (~foreign => StageInv)

LEMMA InputNat == InputInv => length \in Nat /\ attrs \in Nat
BY LimitsAssumption DEF InputInv

LEMMA InitHInv == Init => HInv
BY DEF Init, HInv, InputInv, StageInv, WriteInv, FirstInv, SecondInv, LimitsInv, StringInv,
       HeaderRoundTrip

LEMMA HeaderLen == \A t, n, c : Len(Header(t, n, c)) = IF c = 1 THEN 1 ELSE 2
BY DEF Header

\* The first header of an object, and the second.
LEMMA FirstAt ==
    ASSUME NEW c \in Classes, NEW d \in Classes, WroteObject(c, d), InputInv, ~foreign,
           type \in Vectors, cursor = 0
    PROVE  IF attrs = 0 THEN At(type, length, c) /\ Len(pods) = (IF c = 1 THEN 1 ELSE 2)
           ELSE At("attribute", attrs, d)
<1>1. length \in Nat /\ attrs \in Nat /\ type \in AllTypes /\ "attribute" \in AllTypes
    BY InputNat, TagsType
<1>2. CASE attrs = 0
    BY <1>1, <1>2 DEF WroteObject, At, Header
<1>3. CASE attrs # 0
    BY <1>1, <1>3 DEF WroteObject, At, Header
<1> QED BY <1>2, <1>3

LEMMA SecondAt ==
    ASSUME NEW c \in Classes, NEW d \in Classes, WroteObject(c, d), InputInv, ~foreign,
           type \in Vectors, attrs # 0, cursor = Len(Header("attribute", attrs, d))
    PROVE  At(type, length, c) /\ Len(pods) = cursor + (IF c = 1 THEN 1 ELSE 2)
<1>1. length \in Nat /\ attrs \in Nat /\ type \in AllTypes
    BY InputNat, TagsType
<1> QED BY <1>1 DEF WroteObject, At, Header

--------------------------------------------------------------------------------
(* The actions that read an object *)

\* Where a step may lead, and what it has to establish there.
LEMMA ToLimits ==
    ASSUME InputInv, ~foreign, UNCHANGED input, stage' = "limits", Decided'
    PROVE  HInv'
<1>1. InputInv' /\ ~foreign'
    BY DEF InputInv, input
<1>2. WriteInv' /\ FirstInv' /\ SecondInv' /\ StringInv' /\ LimitsInv'
    BY DEF WriteInv, FirstInv, SecondInv, StringInv, LimitsInv
<1>3. HeaderRoundTrip'
    BY DEF HeaderRoundTrip
<1> QED BY <1>1, <1>2, <1>3 DEF HInv, StageInv

LEMMA ToOk ==
    ASSUME InputInv, ~foreign, UNCHANGED input, stage' = "ok",
           rtype' = type, rattrs' = attrs, cursor' = Len(pods'),
           rlength' = IF type = "NA" THEN NAString ELSE length
    PROVE  HInv'
<1>1. InputInv' /\ ~foreign'
    BY DEF InputInv, input
<1>2. WriteInv' /\ FirstInv' /\ SecondInv' /\ StringInv' /\ LimitsInv'
    BY DEF WriteInv, FirstInv, SecondInv, StringInv, LimitsInv
<1>3. HeaderRoundTrip'
    BY DEF HeaderRoundTrip, input
<1> QED BY <1>1, <1>2, <1>3 DEF HInv, StageInv

\* read_object_header decodes the headers written.
LEMMA ReadHeaderInv ==
    ASSUME HInv, ~foreign, stage \in {"first", "second"},
           DecodeNil \/ DecodeShort \/ DecodeLong \/ DecodeUnknown
    PROVE  HInv'
<1>1. InputInv /\ length \in Nat /\ attrs \in Nat /\ FirstInv /\ SecondInv
    BY InputNat DEF HInv, StageInv
<1>2. CASE stage = "first" /\ type = "nil"
  <2>1. length = 0 /\ attrs = 0 /\ rattrs = 0 /\ cursor = 0 /\ pods = <<[bytes |-> 1, value |-> 0]>>
      BY <1>1, <1>2 DEF FirstInv, Pod, NilTag, Vectors
  <2>2. Field(1, 1, 256) = {0} /\ Len(pods) = 1
      BY <2>1 DEF Field
  <2>3. ~DecodeShort /\ ~DecodeUnknown
      BY <2>2 DEF DecodeShort, DecodeUnknown, NilTag
  <2>4. ~DecodeLong
    <3> SUFFICES ASSUME NEW t \in AllTypes, NEW c \in 2..5 PROVE Tags[t][c] # 0
        BY <2>2 DEF DecodeLong, AllTypes
    <3>1. Tags[t][c] \in (1..31) \cup {None}
        BY TagsType
    <3> QED BY <3>1 DEF None
  <2>5. Decoded("nil", 0, 1)
      BY <2>3, <2>4 DEF DecodeNil
  <2>6. /\ UNCHANGED <<input, pods>> /\ stage' = "limits"
        /\ cursor' = 1 /\ rtype' = "nil" /\ rlength' = 0 /\ rattrs' = 0
      BY <2>1, <2>5 DEF Decoded
  <2>7. Decided'
      BY <1>2, <2>1, <2>2, <2>6 DEF Decided, input, Vectors
  <2> QED BY <1>1, <2>6, <2>7, ToLimits
<1>3. CASE stage = "first" /\ type # "nil"
  <2>1. PICK c \in Classes, d \in Classes : WroteObject(c, d)
      BY <1>1, <1>3 DEF FirstInv
  <2>2. type \in Vectors /\ cursor = 0 /\ rattrs = 0 /\ length <= MaxVector /\ attrs <= MaxAttrs
      BY <1>1, <1>3 DEF FirstInv
  <2>3. CASE attrs = 0
    <3>1. Decoded(type, length, IF c = 1 THEN 1 ELSE 2) /\ Len(pods) = (IF c = 1 THEN 1 ELSE 2)
        BY <1>1, <2>1, <2>2, <2>3, FirstAt, DecodesHeader
    <3>2. type # "attribute"
        BY <2>2 DEF Vectors
    <3>3. /\ UNCHANGED <<input, pods>> /\ stage' = "limits" /\ cursor' = Len(pods)
          /\ rtype' = type /\ rlength' = length /\ rattrs' = attrs
        BY <2>2, <2>3, <3>1, <3>2 DEF Decoded
    <3>4. Decided'
        BY <2>2, <3>3 DEF Decided, input
    <3> QED BY <1>1, <3>3, <3>4, ToLimits
  <2>4. CASE attrs # 0
    <3>1. Decoded("attribute", attrs, IF d = 1 THEN 1 ELSE 2)
        BY <1>1, <2>1, <2>2, <2>4, FirstAt, DecodesHeader
    <3>2. /\ stage' = "second" /\ rattrs' = attrs /\ cursor' = Len(Header("attribute", attrs, d))
          /\ UNCHANGED <<foreign, type, length, attrs, pods>>
        BY <1>3, <2>2, <3>1, HeaderLen DEF Decoded, input
    <3>3. WroteObject(c, d)'
        BY <2>1, <3>2 DEF WroteObject
    <3>4. SecondInv'
        BY <2>2, <2>4, <3>2, <3>3 DEF SecondInv
    <3>5. WriteInv' /\ FirstInv' /\ LimitsInv' /\ StringInv' /\ HeaderRoundTrip'
        BY <3>2 DEF WriteInv, FirstInv, LimitsInv, StringInv, HeaderRoundTrip
    <3> QED BY <1>1, <3>2, <3>4, <3>5 DEF HInv, StageInv, InputInv
  <2> QED BY <2>3, <2>4
<1>4. CASE stage = "second"
  <2>1. PICK c \in Classes, d \in Classes :
           WroteObject(c, d) /\ cursor = Len(Header("attribute", attrs, d))
      BY <1>1, <1>4 DEF SecondInv
  <2>2. type \in Vectors /\ rattrs = attrs /\ length <= MaxVector /\ attrs <= MaxAttrs /\ attrs # 0
      BY <1>1, <1>4 DEF SecondInv
  <2>3. At(type, length, c) /\ Len(pods) = cursor + (IF c = 1 THEN 1 ELSE 2)
      BY <1>1, <2>1, <2>2, SecondAt
  <2>4. Decoded(type, length, IF c = 1 THEN 1 ELSE 2) /\ type # "attribute"
      BY <2>2, <2>3, DecodesHeader DEF Vectors
  <2>5. /\ UNCHANGED <<input, pods>> /\ stage' = "limits" /\ cursor' = Len(pods)
        /\ rtype' = type /\ rlength' = length /\ rattrs' = attrs
      BY <2>2, <2>3, <2>4 DEF Decoded
  <2>6. Decided'
      BY <2>2, <2>5 DEF Decided, input
  <2> QED BY <1>1, <2>5, <2>6, ToLimits
<1> QED BY <1>2, <1>3, <1>4

LEMMA StringLengthFacts ==
    ASSUME NEW n, NEW used, StringLength(n, used)
    PROVE  UNCHANGED <<input, pods, rattrs>> /\ cursor' = cursor + used /\ rlength' = n
BY DEF StringLength

\* read_string_header inverts write_string_header.
LEMMA ReadStringInv ==
    ASSUME HInv, ~foreign, ReadString
    PROVE  HInv'
<1>1. InputInv /\ length \in Nat /\ stage = "string" /\ StringInv
    BY InputNat DEF HInv, StageInv, ReadString
<1>2. cursor = 0 /\ rattrs = 0 /\ attrs = 0 /\ WroteString
    BY <1>1 DEF StringInv
<1>3. NAString \in Nat /\ MaxString \in Nat /\ MaxString < NAString
    BY WidthsAssumption, LimitsAssumption DEF NAString
<1>4. ASSUME NEW n, NEW used, StringLength(n, used), used = Len(pods),
             (type = "NA" /\ n = NAString) \/ (type # "NA" /\ n = length)
      PROVE  HInv'
  <2>1. UNCHANGED <<input, pods, rattrs>> /\ cursor' = used /\ rlength' = n
    <3>1. UNCHANGED <<input, pods, rattrs>> /\ cursor' = cursor + used /\ rlength' = n
        BY <1>4, StringLengthFacts
    <3>2. used \in Nat
        BY <1>2, <1>4 DEF WroteString
    <3> QED BY <1>2, <3>1, <3>2
  <2>2. CASE type = "NA"
    <3>1. n = NAString
        BY <1>4, <2>2
    <3>2. rtype' = "NA" /\ stage' = "ok"
        BY <1>4, <3>1 DEF StringLength
    <3> QED BY <1>1, <1>2, <1>4, <2>1, <2>2, <3>1, <3>2, ToOk
  <2>3. CASE type # "NA"
    <3>1. type = "characters" /\ length <= MaxString /\ n = length
        BY <1>2, <1>4, <2>3 DEF WroteString
    <3>2. n # NAString /\ ~(n > MaxString)
        BY <1>1, <1>3, <3>1
    <3>3. rtype' = "characters" /\ stage' = "ok"
        BY <1>4, <3>2 DEF StringLength
    <3> QED BY <1>1, <1>2, <1>4, <2>1, <2>3, <3>1, <3>3, ToOk
  <2> QED BY <2>2, <2>3
<1>5. PICK b \in Field(1, 1, 256) :
         \/ b < 253 /\ StringLength(b, 1)
         \/ b = 253 /\ \E n \in Field(2, 2, 65536) : StringLength(n, 2)
         \/ b = 254 /\ \E n \in Field(2, 4, B32) : StringLength(n, 2)
         \/ b = 255 /\ StringLength(NAString, 1)
    BY DEF ReadString, StringTag16, StringTag32, StringTagNA
<1>6. CASE type = "NA"
  <2>1. pods = <<[bytes |-> 1, value |-> 255]>>
      BY <1>2, <1>6 DEF WroteString, Pod, StringTagNA
  <2>2. b = 255 /\ Len(pods) = 1
      BY <1>2, <2>1 DEF Field
  <2> QED BY <1>4, <1>5, <1>6, <2>2
<1>7. CASE type # "NA" /\ length < 253
  <2>1. length % 256 = length
      BY <1>1, <1>7
  <2>2. pods = <<[bytes |-> 1, value |-> length]>>
      BY <1>2, <1>7, <2>1 DEF WroteString, Pod
  <2>3. b = length /\ Len(pods) = 1
      BY <1>2, <2>2 DEF Field
  <2> QED BY <1>1, <1>4, <1>5, <1>7, <2>3
<1>8. CASE type # "NA" /\ ~(length < 253) /\ length < 65536
  <2>1. length % 65536 = length
      BY <1>1, <1>8
  <2>2. pods = <<[bytes |-> 1, value |-> 253], [bytes |-> 2, value |-> length]>>
      BY <1>2, <1>8, <2>1 DEF WroteString, Pod, StringTag16
  <2>3. b = 253 /\ Field(2, 2, 65536) = {length} /\ Len(pods) = 2
      BY <1>2, <2>2 DEF Field
  <2> QED BY <1>4, <1>5, <1>8, <2>3
<1>9. CASE type # "NA" /\ ~(length < 65536)
  <2>1. length <= MaxString
      BY <1>2, <1>9 DEF WroteString
  <2>2. length < B32 /\ B32 \in Nat
      BY <2>1, <1>1, LimitsAssumption, WidthsAssumption
  <2>3. length % B32 = length /\ ~(length < 253)
      BY <2>2, <1>1, <1>9, Uncast
  <2>4. pods = <<[bytes |-> 1, value |-> 254], [bytes |-> 4, value |-> length]>>
      BY <1>2, <1>9, <2>3 DEF WroteString, Pod, StringTag32
  <2>5. b = 254 /\ Field(2, 4, B32) = {length} /\ Len(pods) = 2
      BY <1>2, <2>4 DEF Field
  <2> QED BY <1>4, <1>5, <1>9, <2>5
<1> QED BY <1>6, <1>7, <1>8, <1>9

--------------------------------------------------------------------------------
(* The theorem *)

\* What the writer puts down is what the invariant says of it.
LEMMA WriteHInv ==
    ASSUME HInv, ~foreign, WriteNil \/ WriteObject \/ WriteString \/ WriteNA
    PROVE  HInv'
<1>1. InputInv /\ WriteInv /\ stage = "write"
    BY DEF HInv, StageInv, WriteNil, WriteObject, WriteString, WriteNA
<1>2. cursor' = 0 /\ rattrs' = 0 /\ UNCHANGED input
    BY <1>1 DEF WriteInv, output, WriteNil, WriteObject, WriteString, WriteNA
<1>3. InputInv' /\ ~foreign'
    BY <1>1, <1>2 DEF InputInv, input
<1>4. ASSUME stage' = "first", FirstInv' PROVE HInv'
    BY <1>3, <1>4 DEF HInv, StageInv, WriteInv, SecondInv, LimitsInv, StringInv, HeaderRoundTrip
<1>5. ASSUME stage' = "string", StringInv' PROVE HInv'
    BY <1>3, <1>5 DEF HInv, StageInv, WriteInv, FirstInv, SecondInv, LimitsInv, HeaderRoundTrip
<1>6. CASE WriteNil
  <2>1. type = "nil" /\ length = 0 /\ attrs = 0
      BY <1>1, <1>6 DEF WriteNil, InputInv, Vectors
  <2>2. FirstInv'
      BY <1>2, <1>6, <2>1 DEF WriteNil, FirstInv, input
  <2> QED BY <1>4, <1>6, <2>2 DEF WriteNil
<1>7. CASE WriteObject
  <2>1. PICK c \in Classes, d \in Classes :
           /\ Smallest(type, length, c)
           /\ IF attrs = 0 THEN d = 1 /\ pods' = Header(type, length, c)
              ELSE /\ Smallest("attribute", attrs, d)
                   /\ pods' = Header("attribute", attrs, d) \o Header(type, length, c)
      BY <1>7 DEF WriteObject
  <2>2. WroteObject(c, d)'
      BY <1>2, <2>1 DEF WroteObject, Smallest, input
  <2>3. FirstInv'
      BY <1>2, <1>7, <2>2 DEF WriteObject, FirstInv, input
  <2> QED BY <1>4, <1>7, <2>3 DEF WriteObject
<1>8. CASE WriteString
  <2>1. type = "characters" /\ length <= MaxString /\ attrs = 0 /\ UNCHANGED <<type, length, attrs>>
      BY <1>1, <1>2, <1>8 DEF WriteString, InputInv, Vectors, input
  <2>2. WroteString'
      BY <1>8, <2>1 DEF WriteString, WroteString
  <2>3. StringInv'
      BY <1>2, <2>1, <2>2 DEF StringInv
  <2> QED BY <1>5, <1>8, <2>3 DEF WriteString
<1>9. CASE WriteNA
  <2>1. type = "NA" /\ length = 0 /\ attrs = 0 /\ UNCHANGED <<type, length, attrs>>
      BY <1>1, <1>2, <1>9 DEF WriteNA, InputInv, Vectors, input
  <2>2. WroteString'
      BY <1>9, <2>1 DEF WriteNA, WroteString
  <2>3. StringInv'
      BY <1>2, <2>1, <2>2 DEF StringInv
  <2> QED BY <1>5, <1>9, <2>3 DEF WriteNA
<1> QED BY <1>6, <1>7, <1>8, <1>9

\* A foreign stream stays foreign.
LEMMA ForeignInv ==
    ASSUME HInv, foreign, [Next]_vars
    PROVE  HInv'
<1>1. UNCHANGED input
  <2>1. ASSUME WriteNil \/ WriteObject \/ WriteString \/ WriteNA \/ WriteOverLimit \/ Foreign
        PROVE  UNCHANGED input
      BY <2>1 DEF WriteNil, WriteObject, WriteString, WriteNA, WriteOverLimit, Foreign
  <2>2. \A t, n, used : Decoded(t, n, used) \/ StringLength(n, used) => UNCHANGED input
      BY DEF Decoded, StringLength
  <2>3. ASSUME DecodeNil \/ DecodeShort \/ DecodeLong \/ ReadString
        PROVE  UNCHANGED input
      BY <2>2, <2>3 DEF DecodeNil, DecodeShort, DecodeLong, ReadString
  <2>4. ASSUME DecodeUnknown \/ CheckLimits \/ Terminated \/ UNCHANGED vars
        PROVE  UNCHANGED input
      BY <2>4 DEF DecodeUnknown, CheckLimits, Terminated, vars
  <2> QED BY <2>1, <2>3, <2>4 DEF Next
<1> QED BY <1>1 DEF HInv, InputInv, input

\* The limits that are checked on reading have been checked on writing.
LEMMA CheckLimitsInv ==
    ASSUME HInv, ~foreign, CheckLimits
    PROVE  HInv'
<1>1. InputInv /\ stage = "limits" /\ Decided
    BY DEF HInv, StageInv, LimitsInv, CheckLimits
<1>2. length \in Nat /\ attrs \in Nat /\ MaxVector \in Nat /\ MaxAttrs \in Nat
    BY <1>1, InputNat, LimitsAssumption
<1>3. type # "NA" /\ ~(type # "nil" /\ (length > MaxVector \/ attrs > MaxAttrs))
    BY <1>1, <1>2 DEF Decided, Vectors
<1>4. stage' = "ok" /\ UNCHANGED <<input, pods, cursor, output>>
    BY <1>1, <1>3 DEF CheckLimits, Decided
<1> QED BY <1>1, <1>3, <1>4, ToOk DEF Decided, output

LEMMA NextHInv == HInv /\ [Next]_vars => HInv'
<1> SUFFICES ASSUME HInv, [Next]_vars PROVE HInv'
    OBVIOUS
<1>1. CASE foreign
    BY <1>1, ForeignInv
<1>2. CASE ~foreign
  <2>1. CASE WriteNil \/ WriteObject \/ WriteString \/ WriteNA
      BY <1>2, <2>1, WriteHInv
  <2>2. CASE WriteOverLimit
    <3>1. InputInv' /\ ~foreign' /\ stage' = "write limit"
        BY <1>2, <2>2 DEF WriteOverLimit, HInv, InputInv, input
    <3> QED BY <3>1
            DEF HInv, StageInv, WriteInv, FirstInv, SecondInv, LimitsInv, StringInv, HeaderRoundTrip
  <2>3. CASE DecodeNil \/ DecodeShort \/ DecodeLong \/ DecodeUnknown
    <3>1. stage \in {"first", "second"}
        BY <2>3 DEF DecodeNil, DecodeShort, DecodeLong, DecodeUnknown
    <3> QED BY <1>2, <2>3, <3>1, ReadHeaderInv
  <2>4. CASE CheckLimits
      BY <1>2, <2>4, CheckLimitsInv
  <2>5. CASE ReadString
      BY <1>2, <2>5, ReadStringInv
  <2>6. CASE UNCHANGED vars
    <3>1. UNCHANGED <<foreign, type, length, attrs, pods, stage, cursor, rtype, rlength, rattrs>>
        BY <2>6 DEF vars, input, output
    <3>2. InputInv' /\ StageInv
        BY <1>2, <3>1 DEF HInv, InputInv
    <3>3. WriteInv' /\ FirstInv'
        BY <3>1, <3>2 DEF StageInv, WriteInv, FirstInv, WroteObject
    <3>4. SecondInv'
        BY <3>1, <3>2 DEF StageInv, SecondInv, WroteObject
    <3>5. LimitsInv' /\ HeaderRoundTrip'
        BY <3>1, <3>2 DEF StageInv, LimitsInv, Decided, HeaderRoundTrip
    <3>6. WroteString' = WroteString
        BY <3>1 DEF WroteString
    <3>7. StringInv'
        BY <3>1, <3>2, <3>6 DEF StageInv, StringInv
    <3> QED BY <3>2, <3>3, <3>4, <3>5, <3>7 DEF HInv, StageInv
  <2>7. ~Foreign
      BY <1>2 DEF Foreign
  <2> QED BY <2>1, <2>2, <2>3, <2>4, <2>5, <2>6, <2>7 DEF Next, Terminated
<1> QED BY <1>1, <1>2

\* What the serializer writes as a header is read back as the same type, length
\* and attribute count, and to the last byte of it, whatever the limits are.
THEOREM HeadersRoundTrip == Spec => []HeaderRoundTrip
<1>1. HInv => HeaderRoundTrip
    BY DEF HInv, StageInv, HeaderRoundTrip
<1> QED BY InitHInv, NextHInv, <1>1, PTL DEF Spec

--------------------------------------------------------------------------------
(* Types and limits, on a foreign stream too *)

PodSet == [bytes : {1, 2, 4, 8}, value : Nat]

LEMMA PodType ==
    \A w \in {1, 2, 4, 8}, bound \in Nat \ {0}, v \in Nat : Pod(w, bound, v) \in PodSet
BY DEF Pod, PodSet

LEMMA HeaderType ==
    ASSUME NEW t \in AllTypes, NEW n \in Nat, NEW c \in Classes, Fits(t, n, c)
    PROVE  Header(t, n, c) \in Seq(PodSet)
<1>1. Tags[t][c] \in Nat
  <2>1. CASE c = 1 BY <2>1, TagsType DEF None
  <2>2. CASE c # 1
    <3>1. c \in 2..5 BY <2>2 DEF Classes
    <3>2. Tags[t][c] \in (1..31) \cup {None} BY <3>1, TagsType
    <3> QED BY <3>2 DEF None
  <2> QED BY <2>1, <2>2
<1>2. CASE c = 1
    BY <1>1, <1>2, PodType DEF Header
<1>3. CASE c # 1
  <2>1. c \in 2..5 BY <1>3 DEF Classes
  <2>2. Bytes[c] \in {1, 2, 4, 8} /\ Bounds[c] \in Nat \ {0} BY <2>1, BoundsType
  <2>3. Pod(1, 256, Tags[t][c]) \in PodSet /\ Pod(Bytes[c], Bounds[c], n) \in PodSet
      BY <1>1, <2>2, PodType
  <2> QED BY <1>3, <2>3 DEF Header
<1> QED BY <1>2, <1>3

\* TypeOK taken apart, and put together again.
LEMMA TypeFacts ==
    ASSUME TypeOK
    PROVE  /\ length \in Nat /\ attrs \in Nat /\ rlength \in Nat /\ rattrs \in Nat
           /\ pods \in Seq(PodSet) /\ Len(pods) \in Nat
           /\ ~foreign => cursor \in 0..Len(pods)
<1>1. length \in Lengths /\ attrs \in Lengths /\ rlength \in Nat /\ rattrs \in Nat
    BY DEF TypeOK
<1>2. length \in Nat /\ attrs \in Nat
    BY <1>1, LimitsAssumption
<1>3. pods \in Seq(PodSet)
    BY DEF TypeOK, PodSet
<1>4. Len(pods) \in Nat
    BY <1>3
<1>5. cursor \in 0..(IF foreign THEN 2 ELSE Len(pods))
    BY DEF TypeOK
<1>6. ~foreign => cursor \in 0..Len(pods)
    BY <1>5
<1> QED BY <1>1, <1>2, <1>3, <1>4, <1>6

\* A POD that is read is a natural number, and is there.
LEMMA FieldType ==
    ASSUME TypeOK, NEW i \in {1, 2}, NEW w, NEW bound, NEW v \in Field(i, w, bound)
    PROVE  v \in Nat /\ (foreign \/ cursor + i <= Len(pods))
<1>1. CASE foreign
    BY <1>1, LimitsAssumption DEF Field
<1>2. CASE ~foreign
  <2>1. cursor + i <= Len(pods) /\ v = pods[cursor + i].value
      BY <1>2 DEF Field
  <2>2. cursor + i \in 1..Len(pods) /\ pods \in Seq(PodSet)
      BY <1>2, <2>1, TypeFacts
  <2>3. pods[cursor + i] \in PodSet
      BY <2>2
  <2> QED BY <2>1, <2>3 DEF PodSet
<1> QED BY <1>1, <1>2

\* The limits of LimitsBothSides are kept together with the types.
AtStart ==
    /\ stage \in {"write", "string"} => cursor = 0
    /\ stage = "limits" => rtype \in Vectors \cup {"nil"}
WriterLimits ==
    ~foreign /\ stage \notin {"write", "write limit"} =>
      /\ type \in Vectors => length <= MaxVector /\ attrs <= MaxAttrs
      /\ type = "characters" => length <= MaxString
ReaderLimits ==
    stage = "ok" =>
      /\ rtype \in Vectors => rlength <= MaxVector /\ rattrs <= MaxAttrs
      /\ rtype = "characters" => rlength <= MaxString
LInv == TypeOK /\ AtStart /\ WriterLimits /\ ReaderLimits

LEMMA InitLInv == Init => LInv
BY LimitsAssumption DEF Init, LInv, TypeOK, AtStart, WriterLimits, ReaderLimits, Vectors

LEMMA WriteLInv ==
    ASSUME LInv, WriteNil \/ WriteObject \/ WriteString \/ WriteNA
    PROVE  LInv'
<1>1. TypeOK /\ length \in Nat /\ attrs \in Nat
    BY TypeFacts DEF LInv
<1>2. /\ UNCHANGED <<foreign, type, length, attrs, cursor, rtype, rlength, rattrs>>
      /\ stage' \in {"first", "string"} /\ ~foreign /\ stage = "write" /\ cursor = 0
    BY DEF LInv, AtStart, WriteNil, WriteObject, WriteString, WriteNA, input, output
<1>3. pods' \in Seq(PodSet)
  <2>1. CASE WriteNil
      BY <2>1, PodType DEF WriteNil, NilTag
  <2>2. CASE WriteNA
      BY <2>2, PodType DEF WriteNA, StringTagNA
  <2>3. CASE WriteString
    <3>1. Pod(1, 256, length) \in PodSet /\ Pod(2, 65536, length) \in PodSet
          /\ Pod(4, B32, length) \in PodSet /\ Pod(1, 256, StringTag16) \in PodSet
          /\ Pod(1, 256, StringTag32) \in PodSet
        BY <1>1, PodType, WidthsAssumption DEF StringTag16, StringTag32
    <3> QED BY <2>3, <3>1 DEF WriteString
  <2>4. CASE WriteObject
    <3>1. PICK c \in Classes, d \in Classes :
             /\ Smallest(type, length, c)
             /\ IF attrs = 0 THEN d = 1 /\ pods' = Header(type, length, c)
                ELSE /\ Smallest("attribute", attrs, d)
                     /\ pods' = Header("attribute", attrs, d) \o Header(type, length, c)
        BY <2>4 DEF WriteObject
    <3>2. Header(type, length, c) \in Seq(PodSet)
        BY <1>1, <2>4, <3>1, HeaderType, TagsType DEF WriteObject, Smallest
    <3>3. attrs # 0 => Header("attribute", attrs, d) \in Seq(PodSet)
        BY <1>1, <3>1, HeaderType, TagsType DEF Smallest
    <3>4. CASE attrs = 0
        BY <3>1, <3>2, <3>4
    <3>5. CASE attrs # 0
      <4> DEFINE g == Header("attribute", attrs, d)
                 h == Header(type, length, c)
      <4>1. g \in Seq(PodSet) /\ h \in Seq(PodSet) /\ pods' = g \o h
          BY <3>1, <3>2, <3>3, <3>5
      <4> HIDE DEF g, h
      <4> QED BY <4>1
    <3> QED BY <3>4, <3>5
  <2> QED BY <2>1, <2>2, <2>3, <2>4
<1>4. TypeOK'
  <2>1. Len(pods') \in Nat
      BY <1>3
  <2>2. cursor' \in 0..(IF foreign' THEN 2 ELSE Len(pods'))
      BY <1>2, <2>1
  <2> QED BY <1>1, <1>2, <1>3, <2>2 DEF TypeOK, PodSet
<1>5. WriterLimits'
  <2>1. (type \in Vectors => length <= MaxVector /\ attrs <= MaxAttrs)
        /\ (type = "characters" => length <= MaxString)
      BY DEF WriteNil, WriteObject, WriteString, WriteNA, Vectors
  <2> QED BY <1>2, <2>1 DEF WriterLimits
<1> QED BY <1>2, <1>4, <1>5 DEF LInv, AtStart, ReaderLimits

\* What decode_object_header returns is a type and a length.
LEMMA DecodedLInv ==
    ASSUME LInv, stage \in {"first", "second"}, NEW t \in AllTypes \cup {"nil"}, NEW n \in Nat,
           NEW used \in {1, 2}, foreign \/ cursor + used <= Len(pods), Decoded(t, n, used)
    PROVE  LInv'
<1>1. TypeOK /\ UNCHANGED <<foreign, type, length, attrs, pods>>
    BY DEF LInv, Decoded, input
<1>2. stage' \in {"second", "malformed", "limits"}
    BY DEF Decoded
<1>3. rtype' \in Vectors \cup {"none", "nil", "characters", "NA"} /\ rlength' \in Nat /\ rattrs' \in Nat
  <2>1. CASE t = "attribute"
      BY <1>1, <2>1 DEF Decoded, TypeOK
  <2>2. CASE t # "attribute"
      BY <1>1, <2>2, TagsType DEF Decoded, TypeOK
  <2> QED BY <2>1, <2>2
<1>4. cursor' \in 0..(IF foreign' THEN 2 ELSE Len(pods'))
  <2>1. CASE foreign
    <3>1. cursor' = 0 BY <2>1 DEF Decoded
    <3> QED BY <1>1, <2>1, <3>1
  <2>2. CASE ~foreign
    <3>1. cursor' = cursor + used BY <2>2 DEF Decoded
    <3>2. cursor \in 0..Len(pods) /\ Len(pods) \in Nat BY <1>1, <2>2, TypeFacts
    <3> QED BY <1>1, <2>2, <3>1, <3>2
  <2> QED BY <2>1, <2>2
<1>5. TypeOK'
    BY <1>1, <1>2, <1>3, <1>4 DEF TypeOK
<1>6. WriterLimits'
    BY <1>1, <1>2 DEF LInv, WriterLimits
<1>7. stage' = "limits" => rtype' \in Vectors \cup {"nil"}
    BY TagsType DEF Decoded
<1> QED BY <1>2, <1>5, <1>6, <1>7 DEF LInv, AtStart, ReaderLimits

LEMMA DecodeLInv ==
    ASSUME LInv, DecodeNil \/ DecodeShort \/ DecodeLong
    PROVE  LInv'
<1>1. TypeOK
    BY DEF LInv
<1>2. CASE DecodeNil
  <2>1. foreign \/ cursor + 1 <= Len(pods)
      BY <1>1, <1>2, FieldType DEF DecodeNil
  <2> QED BY <1>2, <2>1, DecodedLInv DEF DecodeNil
<1>3. CASE DecodeShort
  <2>1. PICK b \in Field(1, 1, 256), t \in AllTypes : Decoded(t, b % 32, 1)
      BY <1>3 DEF DecodeShort, AllTypes
  <2>2. b \in Nat /\ (foreign \/ cursor + 1 <= Len(pods))
      BY <1>1, <2>1, FieldType
  <2>3. b % 32 \in Nat
      BY <2>2
  <2> QED BY <1>3, <2>1, <2>2, <2>3, DecodedLInv DEF DecodeShort
<1>4. CASE DecodeLong
  <2>1. PICK t \in AllTypes, c \in 2..5 : \E n \in Field(2, Bytes[c], Bounds[c]) : Decoded(t, n, 2)
      BY <1>4 DEF DecodeLong, AllTypes
  <2>2. PICK n \in Field(2, Bytes[c], Bounds[c]) : Decoded(t, n, 2)
      BY <2>1
  <2>3. n \in Nat /\ (foreign \/ cursor + 2 <= Len(pods))
      BY <1>1, <2>2, FieldType
  <2> QED BY <1>4, <2>2, <2>3, DecodedLInv DEF DecodeLong
<1> QED BY <1>2, <1>3, <1>4

\* What read_string_header returns is within the limit, or NA.
LEMMA StringLengthLInv ==
    ASSUME LInv, stage = "string", NEW n \in Nat, NEW used \in {1, 2},
           foreign \/ cursor + used <= Len(pods), StringLength(n, used)
    PROVE  LInv'
<1>1. TypeOK /\ cursor = 0 /\ UNCHANGED <<foreign, type, length, attrs, pods, rattrs>>
    BY DEF LInv, AtStart, StringLength, input
<1>2. cursor' = used /\ rlength' = n /\ used \in Nat
  <2>1. cursor' = cursor + used /\ rlength' = n
      BY StringLengthFacts
  <2> QED BY <1>1, <2>1
<1>3. stage' \in {"read limit", "ok"} /\ rtype' \in {"NA", "characters"}
    BY DEF StringLength
<1>4. cursor' \in 0..(IF foreign' THEN 2 ELSE Len(pods'))
  <2>1. CASE foreign
    <3>1. used \in 0..2 OBVIOUS
    <3> QED BY <1>1, <1>2, <2>1, <3>1
  <2>2. CASE ~foreign
    <3>1. Len(pods) \in Nat BY <1>1, TypeFacts
    <3>2. used <= Len(pods) BY <1>1, <1>2, <2>2
    <3>3. used \in 0..Len(pods) BY <1>2, <3>1, <3>2
    <3> QED BY <1>1, <1>2, <2>2, <3>3
  <2> QED BY <2>1, <2>2
<1>5. TypeOK'
    BY <1>1, <1>2, <1>4, <1>3 DEF TypeOK
<1>6. stage' = "ok" /\ rtype' = "characters" => rlength' <= MaxString
  <2>1. CASE n = NAString
      BY <2>1 DEF StringLength
  <2>2. CASE n # NAString
    <3>1. stage' = "ok" => ~(n > MaxString) BY <2>2 DEF StringLength
    <3> QED BY <1>2, <3>1, LimitsAssumption
  <2> QED BY <2>1, <2>2
<1>7. ReaderLimits'
    BY <1>3, <1>6 DEF ReaderLimits, Vectors
<1>8. WriterLimits'
    BY <1>1 DEF LInv, WriterLimits
<1> QED BY <1>3, <1>5, <1>7, <1>8 DEF LInv, AtStart

LEMMA ReadStringLInv ==
    ASSUME LInv, ReadString
    PROVE  LInv'
<1>1. TypeOK /\ stage = "string" /\ NAString \in Nat
    BY WidthsAssumption DEF LInv, ReadString, NAString
<1>2. PICK b \in Field(1, 1, 256) :
         \/ StringLength(b, 1)
         \/ \E n \in Field(2, 2, 65536) : StringLength(n, 2)
         \/ \E n \in Field(2, 4, B32) : StringLength(n, 2)
         \/ StringLength(NAString, 1)
    BY DEF ReadString
<1>3. b \in Nat /\ (foreign \/ cursor + 1 <= Len(pods))
    BY <1>1, FieldType
<1>4. CASE StringLength(b, 1)
    BY <1>1, <1>3, <1>4, StringLengthLInv
<1>5. CASE StringLength(NAString, 1)
    BY <1>1, <1>3, <1>5, StringLengthLInv
<1>6. ASSUME NEW n \in Field(2, 2, 65536) \cup Field(2, 4, B32), StringLength(n, 2)
      PROVE  LInv'
  <2>1. n \in Nat /\ (foreign \/ cursor + 2 <= Len(pods))
      BY <1>1, FieldType
  <2> QED BY <1>1, <1>6, <2>1, StringLengthLInv
<1> QED BY <1>2, <1>4, <1>5, <1>6

LEMMA CheckLimitsLInv ==
    ASSUME LInv, CheckLimits
    PROVE  LInv'
<1>1. /\ TypeOK /\ UNCHANGED <<foreign, type, length, attrs, pods, cursor, rtype, rlength, rattrs>>
      /\ stage = "limits" /\ stage' \in {"read limit", "ok"}
    BY DEF LInv, CheckLimits, input, output
<1>2. TypeOK'
    BY <1>1 DEF TypeOK
<1>3. WriterLimits'
    BY <1>1 DEF LInv, WriterLimits
<1>4. rlength \in Nat /\ rattrs \in Nat /\ MaxVector \in Nat /\ MaxAttrs \in Nat
    BY <1>1, TypeFacts, LimitsAssumption
<1>5. stage' = "ok" /\ rtype \in Vectors => rlength <= MaxVector /\ rattrs <= MaxAttrs
    BY <1>4 DEF CheckLimits, Vectors
<1>6. rtype # "characters"
    BY <1>1 DEF LInv, AtStart, Vectors
<1> QED BY <1>1, <1>2, <1>3, <1>5, <1>6 DEF LInv, AtStart, ReaderLimits

LEMMA NextLInv == LInv /\ [Next]_vars => LInv'
<1> SUFFICES ASSUME LInv, [Next]_vars PROVE LInv'
    OBVIOUS
<1>1. CASE WriteNil \/ WriteObject \/ WriteString \/ WriteNA
    BY <1>1, WriteLInv
<1>2. CASE DecodeNil \/ DecodeShort \/ DecodeLong
    BY <1>2, DecodeLInv
<1>3. CASE ReadString
    BY <1>3, ReadStringLInv
<1>4. CASE CheckLimits
    BY <1>4, CheckLimitsLInv
<1>5. ASSUME UNCHANGED <<foreign, type, length, attrs, pods, cursor, rtype, rlength, rattrs>>,
             \/ stage' \in {"write limit", "unknown"} /\ (stage' = "unknown" => stage \in {"first", "second"})
             \/ foreign /\ stage = "write" /\ stage' \in {"first", "string"}
             \/ stage' = stage
      PROVE  LInv'
  <2>1. TypeOK'
      BY <1>5 DEF LInv, TypeOK
  <2>2. WriterLimits'
      BY <1>5 DEF LInv, WriterLimits
  <2>3. AtStart' /\ ReaderLimits'
      BY <1>5 DEF LInv, AtStart, ReaderLimits
  <2> QED BY <2>1, <2>2, <2>3 DEF LInv
<1>6. CASE WriteOverLimit \/ Foreign \/ DecodeUnknown
    BY <1>5, <1>6 DEF WriteOverLimit, Foreign, DecodeUnknown, input, output
<1>7. CASE Terminated \/ UNCHANGED vars
    BY <1>5, <1>7 DEF Terminated, vars, input, output
<1> QED BY <1>1, <1>2, <1>3, <1>4, <1>6, <1>7 DEF Next

\* The reader's cursor never passes the end of what has been written, and what
\* it holds is well typed, for every stream.
THEOREM TypeCorrect == Spec => []TypeOK
<1>1. LInv => TypeOK
    BY DEF LInv
<1> QED BY InitLInv, NextLInv, <1>1, PTL DEF Spec

\* No object over the limits is written or, whatever the stream holds, handed
\* to the reader of the data as valid.
THEOREM LimitsKept == Spec => []LimitsBothSides
<1>1. LInv => LimitsBothSides
    BY DEF LInv, WriterLimits, ReaderLimits, LimitsBothSides
<1> QED BY InitLInv, NextLInv, <1>1, PTL DEF Spec
--------------------------------------------------------------------------------
(* The size of the headers *)

\* A tag byte, or a tag byte and at most w bytes of length.
Sized(s, w) ==
    \/ Len(s) = 1 /\ s[1].bytes = 1
    \/ Len(s) = 2 /\ s[1].bytes = 1 /\ s[2].bytes \in Nat /\ s[2].bytes <= w

SizeInv ==
    /\ HeaderFitsReserve /\ HeaderBytes(pods) \in Nat
    /\ stage = "write" => pods = << >>

\* The attributes of an object are counted by at most 4 bytes.
LEMMA HeaderSized ==
    ASSUME NEW t, NEW n, NEW c \in Classes, Fits(t, n, c)
    PROVE  Sized(Header(t, n, c), IF t = "attribute" THEN 4 ELSE 8)
<1>1. CASE c = 1
    BY <1>1 DEF Header, Sized, Pod
<1>2. CASE c # 1
  <2>1. Bytes[c] \in {1, 2, 4, 8} /\ (c # 5 => Bytes[c] <= 4)
      BY <1>2 DEF Classes, Bytes
  <2>2. t = "attribute" => c # 5
      BY DEF Fits, Tags, None
  <2>3. /\ Len(Header(t, n, c)) = 2 /\ Header(t, n, c)[1].bytes = 1
        /\ Header(t, n, c)[2].bytes = Bytes[c]
      BY <1>2 DEF Header, Pod
  <2> QED BY <2>1, <2>2, <2>3 DEF Sized
<1> QED BY <1>1, <1>2

LEMMA OneSized ==
    ASSUME NEW s, NEW w \in Nat, Sized(s, w)
    PROVE  Len(s) <= 2 /\ HeaderBytes(s) \in 1..(w + 1)
<1>1. s # << >>
    BY DEF Sized
<1>2. CASE Len(s) = 1
    BY <1>1, <1>2 DEF Sized, HeaderBytes
<1>3. CASE Len(s) = 2
    BY <1>1, <1>3 DEF Sized, HeaderBytes
<1> QED BY <1>2, <1>3 DEF Sized

LEMMA TwoSized ==
    ASSUME NEW a \in Seq(PodSet), NEW s \in Seq(PodSet), Sized(a, 4), Sized(s, 8)
    PROVE  Len(a \o s) <= 4 /\ HeaderBytes(a \o s) \in 1..14
<1> DEFINE p == a \o s
<1>1. /\ Len(p) = Len(a) + Len(s) /\ \A i \in 1..Len(a) : p[i] = a[i]
      /\ \A i \in 1..Len(s) : p[Len(a) + i] = s[i]
    OBVIOUS
<1>2. p # << >>
    BY <1>1 DEF Sized
<1> HIDE DEF p
<1>6. /\ Len(p) = 2 => HeaderBytes(p) = p[1].bytes + p[2].bytes + 0 + 0
      /\ Len(p) = 3 => HeaderBytes(p) = p[1].bytes + p[2].bytes + p[3].bytes + 0
      /\ Len(p) = 4 => HeaderBytes(p) = p[1].bytes + p[2].bytes + p[3].bytes + p[4].bytes
    BY <1>2 DEF HeaderBytes
<1>3. ASSUME Len(a) = 1 PROVE Len(p) <= 4 /\ HeaderBytes(p) \in 1..14
  <2>1. a[1].bytes = 1 /\ p[1] = a[1]
      BY <1>1, <1>3 DEF Sized
  <2>2. CASE Len(s) = 1
    <3>1. s[1].bytes = 1 /\ p[2] = s[1] /\ Len(p) = 2
        BY <1>1, <1>3, <2>2 DEF Sized
    <3> QED BY <1>6, <2>1, <3>1
  <2>3. CASE Len(s) = 2
    <3>1. /\ s[1].bytes = 1 /\ s[2].bytes \in 0..8
          /\ p[2] = s[1] /\ p[3] = s[2] /\ Len(p) = 3
        BY <1>1, <1>3, <2>3 DEF Sized
    <3>2. p[1].bytes = 1 /\ p[2].bytes = 1 /\ p[3].bytes \in 0..8
        BY <2>1, <3>1
    <3>3. HeaderBytes(p) \in 1..14
        BY <1>6, <3>1, <3>2
    <3> QED BY <3>1, <3>3
  <2> QED BY <2>2, <2>3 DEF Sized
<1>4. ASSUME Len(a) = 2 PROVE Len(p) <= 4 /\ HeaderBytes(p) \in 1..14
  <2>1. a[1].bytes = 1 /\ a[2].bytes \in 0..4 /\ p[1] = a[1] /\ p[2] = a[2]
      BY <1>1, <1>4 DEF Sized
  <2>2. CASE Len(s) = 1
    <3>1. s[1].bytes = 1 /\ p[3] = s[1] /\ Len(p) = 3
        BY <1>1, <1>4, <2>2 DEF Sized
    <3>2. p[1].bytes = 1 /\ p[2].bytes \in 0..4 /\ p[3].bytes = 1
        BY <2>1, <3>1
    <3>3. HeaderBytes(p) \in 1..14
        BY <1>6, <3>1, <3>2
    <3> QED BY <3>1, <3>3
  <2>3. CASE Len(s) = 2
    <3>1. /\ s[1].bytes = 1 /\ s[2].bytes \in 0..8
          /\ p[3] = s[1] /\ p[4] = s[2] /\ Len(p) = 4
        BY <1>1, <1>4, <2>3 DEF Sized
    <3>2. p[1].bytes = 1 /\ p[2].bytes \in 0..4 /\ p[3].bytes = 1 /\ p[4].bytes \in 0..8
        BY <2>1, <3>1
    <3>3. HeaderBytes(p) = p[1].bytes + p[2].bytes + p[3].bytes + p[4].bytes
        BY <1>6, <3>1
    <3>4. HeaderBytes(p) \in 1..14
        BY <3>2, <3>3
    <3> QED BY <3>1, <3>4
  <2> QED BY <2>2, <2>3 DEF Sized
<1>5. Len(p) <= 4 /\ HeaderBytes(p) \in 1..14
    BY <1>3, <1>4 DEF Sized
<1> QED BY <1>5 DEF p

LEMMA WriteObjectSize ==
    ASSUME TypeOK, WriteObject
    PROVE  SizeInv'
<1>1. stage' = "first"
    BY DEF WriteObject
<1>2. PICK c \in Classes, d \in Classes :
        /\ Smallest(type, length, c)
        /\ IF attrs = 0
             THEN d = 1 /\ pods' = Header(type, length, c)
             ELSE /\ Smallest("attribute", attrs, d)
                  /\ pods' = Header("attribute", attrs, d) \o Header(type, length, c)
    BY DEF WriteObject
<1>3. Sized(Header(type, length, c), 8)
  <2>1. Sized(Header(type, length, c), IF type = "attribute" THEN 4 ELSE 8)
      BY <1>2, HeaderSized DEF Smallest
  <2> QED BY <2>1 DEF Sized
<1>4. CASE attrs = 0
  <2>1. Len(pods') <= 2 /\ HeaderBytes(pods') \in 1..9
      BY <1>2, <1>3, <1>4, OneSized
  <2> QED BY <1>1, <2>1 DEF SizeInv, HeaderFitsReserve
<1>5. CASE attrs # 0
  <2>1. Sized(Header("attribute", attrs, d), 4)
      BY <1>2, <1>5, HeaderSized DEF Smallest
  <2>2. Len(pods') <= 4 /\ HeaderBytes(pods') \in 1..14
    <3>1. type \in AllTypes /\ "attribute" \in AllTypes /\ length \in Nat /\ attrs \in Nat
        BY TagsType, TypeFacts DEF WriteObject
    <3>2. /\ Header(type, length, c) \in Seq(PodSet)
          /\ Header("attribute", attrs, d) \in Seq(PodSet)
        BY <1>2, <1>5, <3>1, HeaderType DEF Smallest
    <3> QED BY <1>2, <1>3, <1>5, <2>1, <3>2, TwoSized
  <2> QED BY <1>1, <2>2 DEF SizeInv, HeaderFitsReserve
<1> QED BY <1>4, <1>5

LEMMA WriteStringSize ==
    ASSUME WriteNil \/ WriteString \/ WriteNA
    PROVE  SizeInv'
<1>1. stage' \in {"first", "string"}
    BY DEF WriteNil, WriteString, WriteNA
<1>2. Sized(pods', 4)
    BY DEF WriteNil, WriteString, WriteNA, Sized, Pod
<1>3. Len(pods') <= 2 /\ HeaderBytes(pods') \in 1..5
    BY <1>2, OneSized
<1> QED BY <1>1, <1>3 DEF SizeInv, HeaderFitsReserve

LEMMA NextSize == TypeOK /\ SizeInv /\ [Next]_vars => SizeInv'
<1> SUFFICES ASSUME TypeOK, SizeInv, [Next]_vars PROVE SizeInv'
    OBVIOUS
<1>1. CASE WriteObject
    BY <1>1, WriteObjectSize
<1>2. CASE WriteNil \/ WriteString \/ WriteNA
    BY <1>2, WriteStringSize
<1>3. CASE WriteOverLimit \/ Foreign
  <2>1. pods = << >> /\ pods' = << >> /\ stage' # "write"
      BY <1>3 DEF SizeInv, WriteOverLimit, Foreign
  <2> QED BY <2>1 DEF SizeInv, HeaderFitsReserve, HeaderBytes
<1>4. ASSUME UNCHANGED pods, stage' = stage \/ stage' \notin {"write", "string"},
             HeaderBytes(pods) <= 14
      PROVE  SizeInv'
    BY <1>4 DEF SizeInv, HeaderFitsReserve
<1>5. HeaderBytes(pods) <= 14
    BY DEF SizeInv, HeaderFitsReserve
<1>6. CASE DecodeNil \/ DecodeShort \/ DecodeLong
    BY <1>4, <1>5, <1>6 DEF DecodeNil, DecodeShort, DecodeLong, Decoded
<1>7. CASE DecodeUnknown \/ CheckLimits
    BY <1>4, <1>5, <1>7 DEF DecodeUnknown, CheckLimits
<1>8. CASE ReadString
  <2>1. UNCHANGED pods /\ stage' \in {"read limit", "ok"}
    <3>1. \E n, used : StringLength(n, used)
        BY <1>8 DEF ReadString
    <3> QED BY <3>1 DEF StringLength
  <2> QED BY <1>4, <1>5, <2>1
<1>9. CASE Terminated \/ UNCHANGED vars
    BY <1>4, <1>5, <1>9 DEF Terminated, vars
<1> QED BY <1>1, <1>2, <1>3, <1>6, <1>7, <1>8, <1>9 DEF Next

\* A whole header, that of the attributes included, fits the reserve that
\* push_pod leaves at the end of a block, because attributes are counted by at
\* most four bytes.
THEOREM HeadersFitReserve == Spec => []HeaderFitsReserve
<1>1. Init => SizeInv
    BY DEF Init, SizeInv, HeaderFitsReserve, HeaderBytes
<1>2. SizeInv => HeaderFitsReserve
    BY DEF SizeInv
<1> QED BY <1>1, <1>2, NextSize, TypeCorrect, PTL DEF Spec
================================================================================
