----------------------------- MODULE XXH3Digest -----------------------------
(***************************************************************************)
(* The streaming hash with its accumulators computed: the stripes that a   *)
(* digest of XXH3Stream names, put through the kernels of XXH3Kernels.     *)
(***************************************************************************)
EXTENDS XXH3Stream, XXH3Kernels

\* XXH_ACC_NB is defined so: a lane for every eight bytes of a stripe.
ASSUME DigestAssumption == StripeLen = 8 * AccNb

\* What the bytes of the stream and of the secret are.  Any content will do:
\* the words of this one take most values.
ByteAt(position) == (position * position * 7 + position * 3 + position \div 5) % 251

ReadLE64(bytes, lane) ==
  LET b(k) == ByteAt(bytes[8 * (lane - 1) + k])
  IN (b(1) + 3 * b(2) + 5 * b(3) + 9 * b(4) + 17 * b(5) + 7 * b(6) + 11 * b(7) + 13 * b(8))
       % WordMod

ReadSecret64(offset) == (offset * offset * 11 + offset * 5 + 29) % WordMod

SecretConsumeRate == 8  \* XXH_SECRET_CONSUME_RATE

\* Eight lanes of the stripe, and of the secret from an offset.
DataLanes(bytes) == Lanes([l \in 1..AccNb |-> ReadLE64(bytes, l)])
SecretLanes(offset) ==
  Lanes([l \in 1..AccNb |-> ReadSecret64(offset + SecretConsumeRate * (l - 1))])

SecretLimit == SecretConsumeRate * StripesPerBlock
SecretLastAccStart == 7

\* Accumulators that a digest of n bytes may have come to.
SomeAcc(n) == Lanes([l \in 1..AccNb |-> (n * l * l + 3 * l + n \div 7) % WordMod])

-----------------------------------------------------------------------------
\* The builds agree.  Every step of a digest of more than MidSizeMax bytes, a
\* stripe of a block, a scramble or the last stripe, takes the accumulators to
\* the same values whichever instruction set it is compiled for; and the loop
\* for up to 128 bytes of a build for size reads what the nested tests read.  A
\* file written by one build then passes the check of another.
BuildsAgree ==
  /\ hash # NoHash /\ IsLong(hash) =>
       LET acc == SomeAcc(totalLen)
           agree(data, key) ==
             \A kernel \in Kernels :
               Accumulate512(kernel, acc, data, key) = Accumulate512Scalar(acc, data, key)
       IN /\ \A i \in DOMAIN hash.stripes :
               agree(DataLanes(hash.stripes[i].bytes),
                     SecretLanes(SecretConsumeRate * hash.stripes[i].key))
          /\ agree(DataLanes(hash.last), SecretLanes(SecretLimit - SecretLastAccStart))
          /\ \A kernel \in Kernels :
               Scramble(kernel, acc, SecretLanes(SecretLimit))
                 = ScrambleScalar(acc, SecretLanes(SecretLimit))
  /\ hash # NoHash /\ ~IsLong(hash) /\ totalLen \in 17..128 =>
       hash.reads = Len17to128Loop(Whole, totalLen)

=============================================================================
