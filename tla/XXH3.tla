-------------------------------- MODULE XXH3 --------------------------------
(***************************************************************************)
(* XXH3_64bits of one contiguous input, as xxhash.h computes it: which     *)
(* bytes of the input each step reads, and with which bytes of the secret. *)
(* The arithmetic is left uninterpreted: a hash is the record of the reads *)
(* it was mixed from, so two hashes are the same number when their records *)
(* are, and a byte that no record names has no influence on the number.    *)
(*                                                                         *)
(* An input is a slice: a function from 0..len-1.  What it maps an offset  *)
(* to stands for the byte found there; reading outside of the slice has no *)
(* value, which is how TLC would report a read out of bounds.              *)
(***************************************************************************)
EXTENDS Integers, Sequences

CONSTANTS
  StripeLen,       \* XXH_STRIPE_LEN, 64
  StripesPerBlock, \* (secretSize - XXH_STRIPE_LEN) / XXH_SECRET_CONSUME_RATE, 16
  MidSizeMax       \* XXH3_MIDSIZE_MAX, 240

ASSUME XXH3Assumption ==
  /\ StripeLen \in Nat \ {0}
  /\ StripesPerBlock \in Nat \ {0}
  /\ MidSizeMax \in Nat

\* XXH_readLE32, XXH_readLE64: the bytes of one word.
Word(v, at, size) == [k \in 1..size |-> v[at + k - 1]]

-----------------------------------------------------------------------------
(* Inputs of at most MidSizeMax bytes.  Each read of the input comes with  *)
(* the offset in the secret it is keyed by.                                *)

\* XXH3_mix16B: sixteen bytes of input against sixteen of the secret.
Mix16B(v, at, key) ==
  [lo |-> Word(v, at, 8), hi |-> Word(v, at + 8, 8), key |-> key]

\* Up to three bytes make one 32-bit word, the length being one of its bytes.
Len1to3(v, len) ==
  {[lo |-> <<v[len - 1], v[0], v[len \div 2]>>, hi |-> <<>>, key |-> 0]}

Len4to8(v, len) ==
  {[lo |-> Word(v, len - 4, 4), hi |-> Word(v, 0, 4), key |-> 8]}

\* Two words, which overlap when the input has less than sixteen bytes.
Len9to16(v, len) ==
  {[lo |-> Word(v, 0, 8), hi |-> <<>>, key |-> 24],
   [lo |-> <<>>, hi |-> Word(v, len - 8, 8), key |-> 40]}

Len0to16(v, len) ==
  IF len > 8 THEN Len9to16(v, len)
  ELSE IF len >= 4 THEN Len4to8(v, len)
  ELSE IF len > 0 THEN Len1to3(v, len)
  ELSE {}

\* Mutant of Len17to128: the middle is read one byte too late.
Len17to128Late(v, len) ==
  {Mix16B(v, 0, 0), Mix16B(v, len - 16, 16)}
  \cup (IF len > 32 THEN {Mix16B(v, 16, 32), Mix16B(v, len - 32, 48)} ELSE {})
  \cup (IF len > 65 THEN {Mix16B(v, 32, 64), Mix16B(v, len - 48, 80)} ELSE {})
  \cup (IF len > 96 THEN {Mix16B(v, 48, 96), Mix16B(v, len - 64, 112)} ELSE {})

\* From both ends towards the middle: the nested tests of the default build.
Len17to128(v, len) ==
  {Mix16B(v, 0, 0), Mix16B(v, len - 16, 16)}
  \cup (IF len > 32 THEN {Mix16B(v, 16, 32), Mix16B(v, len - 32, 48)} ELSE {})
  \cup (IF len > 64 THEN {Mix16B(v, 32, 64), Mix16B(v, len - 48, 80)} ELSE {})
  \cup (IF len > 96 THEN {Mix16B(v, 48, 96), Mix16B(v, len - 64, 112)} ELSE {})

\* The same, as the loop of a build with XXH_SIZE_OPT.
Len17to128Loop(v, len) ==
  UNION {{Mix16B(v, 16 * i, 32 * i), Mix16B(v, len - 16 * (i + 1), 32 * i + 16)} :
            i \in 0..((len - 1) \div 32)}

\* Eight rounds, then the others with the secret from offset 3, then the end.
Len129to240(v, len) ==
  {Mix16B(v, 16 * i, 16 * i) : i \in 0..7}
  \cup {Mix16B(v, 16 * i, 16 * (i - 8) + 3) : i \in 8..(len \div 16 - 1)}
  \cup {Mix16B(v, len - 16, 136 - 17)}

ShortHash(v, len) ==
  [len   |-> len,
   reads |-> IF len <= 16 THEN Len0to16(v, len)
             ELSE IF len <= 128 THEN Len17to128(v, len)
             ELSE Len129to240(v, len)]

-----------------------------------------------------------------------------
(* Longer inputs.  The accumulators are what went into them: the stripes   *)
(* in order, each with the index in the secret it was keyed by, and how    *)
(* many stripes had gone in at each scramble.                              *)

Stripe(v, at) == Word(v, at, StripeLen)

\* XXH3_accumulate: nbStripes stripes of v from "at", keyed from "key" on.
Accumulate(stripes, v, at, key, nbStripes) ==
  stripes \o [i \in 1..nbStripes |->
                [bytes |-> Stripe(v, at + (i - 1) * StripeLen), key |-> key + i - 1]]

\* XXH3_scrambleAcc: after the stripes that have gone in so far.
ScrambleAcc(scrambles, stripes) == Append(scrambles, Len(stripes))

BlockLen == StripeLen * StripesPerBlock

\* XXH3_hashLong_internal_loop: nb_blocks whole blocks, each followed by a
\* scramble, then the stripes of the partial block, then the last stripe,
\* which overlaps them unless the input ends with a stripe.
HashLong(v, len) ==
  LET nbBlocks  == (len - 1) \div BlockLen
      nbStripes == ((len - 1) - BlockLen * nbBlocks) \div StripeLen
      stripe(b, s) == [bytes |-> Stripe(v, b * BlockLen + s * StripeLen), key |-> s]
  IN [len       |-> len,
      stripes   |-> [i \in 1..(nbBlocks * StripesPerBlock + nbStripes) |->
                       stripe((i - 1) \div StripesPerBlock, (i - 1) % StripesPerBlock)],
      scrambles |-> [b \in 1..nbBlocks |-> b * StripesPerBlock],
      last      |-> Stripe(v, len - StripeLen)]

\* XXH3_64bits_internal
Hash64(v, len) == IF len <= MidSizeMax THEN ShortHash(v, len) ELSE HashLong(v, len)

-----------------------------------------------------------------------------
\* What a hash was computed from, for the properties.
IsLong(h) == "stripes" \in DOMAIN h

Values(s) == {s[k] : k \in DOMAIN s}

BytesRead(h) ==
  IF IsLong(h)
  THEN (UNION {Values(h.stripes[i].bytes) : i \in DOMAIN h.stripes}) \cup Values(h.last)
  ELSE UNION {Values(r.lo) \cup Values(r.hi) : r \in h.reads}

=============================================================================
