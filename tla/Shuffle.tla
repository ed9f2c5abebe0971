-------------------------------- MODULE Shuffle --------------------------------
(***************************************************************************)
(* The byte transposition in front of the compressor (blosc_shuffle) and   *)
(* behind the decompressor (blosc_unshuffle).  A block of n elements of t  *)
(* bytes becomes the first bytes of all elements, then the second bytes,   *)
(* and so on.  Which code does it depends on how the library was built:    *)
(* plain loops, or kernels for 128 bit (SSE2) or 256 bit (AVX2) registers  *)
(* with the loops for the rest.  A stream written by one build is read by  *)
(* any other.                                                              *)
(*                                                                         *)
(* A buffer is a function from offsets to bytes, a register a function     *)
(* from 0..Width-1 to bytes, and an array of registers a function from its *)
(* indices.  An operator that writes a buffer yields the bytes written.    *)
(***************************************************************************)
EXTENDS Naturals

Builds == {"generic", "sse2", "avx2"}

\* The bytes of f, written over those of g.
Over(f, g) == [i \in (DOMAIN f) \cup (DOMAIN g) |-> IF i \in DOMAIN f THEN f[i] ELSE g[i]]

\* Elements a kernel transposes at a time: the bytes of a register.
Width(build) == IF build = "avx2" THEN 32 ELSE 16

--------------------------------------------------------------------------------
(* The instructions the kernels use.  All but the permutations work on each  *)
(* 128 bit lane of a register by itself.  Immediates are given as the tuple  *)
(* of the fields they select, least significant first.                       *)

\* unpacklo (half = 0) and unpackhi (half = 1) of elements of e bytes: the
\* elements of one half of each lane of a and b, in turns.
Unpack(e, half, a, b) ==
    [i \in DOMAIN a |->
        LET o == i % 16
            from == (i - o) + 8 * half + (o \div (2 * e)) * e + (o % e)
        IN  IF (o \div e) % 2 = 0 THEN a[from] ELSE b[from]]

\* shuffle_epi32: reorders the four double words of each lane.
ShuffleEpi32(a, fields) ==
    [i \in DOMAIN a |-> a[16 * (i \div 16) + 4 * fields[(i % 16) \div 4 + 1] + (i % 4)]]

\* permute4x64_epi64: reorders the four quad words of a 256 bit register.
Permute4x64(a, fields) == [i \in DOMAIN a |-> a[8 * fields[i \div 8 + 1] + (i % 8)]]

\* permutevar8x32_epi32: reorders its eight double words.
PermuteVar8x32(a, fields) == [i \in DOMAIN a |-> a[4 * fields[i \div 4 + 1] + (i % 4)]]

\* permute2x128_si256: one lane of a, then the same lane of b.
Permute2x128(a, b, lane) ==
    [i \in DOMAIN a |-> IF i < 16 THEN a[16 * lane + i] ELSE b[16 * lane + i - 16]]

\* Registers 2r and 2r+1 from unpacking register low[r + 1] with the one step above.
Zip(x, e, low, step) ==
    [r \in DOMAIN x |-> LET l == low[r \div 2 + 1] IN Unpack(e, r % 2, x[l], x[l + step])]

\* The low halves of all pairs of registers, then the high halves.
Halves(x, e) ==
    LET m == (CHOOSE r \in DOMAIN x : r + 1 \notin DOMAIN x) + 1
    IN  [r \in DOMAIN x |->
            LET j == 2 * (r % (m \div 2)) IN Unpack(e, r \div (m \div 2), x[j], x[j + 1])]

--------------------------------------------------------------------------------
(* Shuffling *)

\* shuffle_generic_inline: the elements from the vectorizable ones on.
ShuffleGeneric(src, t, vectorizable, blocksize) ==
    LET n == blocksize \div t
    IN  [p \in {q \in 0..(n * t - 1) : q % n >= vectorizable} |-> src[(p % n) * t + p \div n]]

\* shuffle8_sse2, the registers of one round.
Transpose8(x) ==
    LET bytes == [k \in DOMAIN x |-> Unpack(1, 0, x[k], ShuffleEpi32(x[k], <<2, 3, 0, 1>>))]
        words == Zip(bytes, 2, <<0, 2, 4, 6>>, 1)
        doubles == Zip(words, 4, <<0, 1, 4, 5>>, 2)
    IN  Zip(doubles, 8, <<0, 1, 2, 3>>, 4)

\* shuffle8_avx2: the same, then the two lanes of each register are merged.
Transpose8Avx2(x) ==
    LET quads == Transpose8(x)
    IN  [k \in DOMAIN x |->
            Unpack(2, 0, Permute4x64(quads[k], <<0, 2, 1, 3>>), Permute4x64(quads[k], <<2, 0, 3, 1>>))]

\* shuffle4_sse2, the registers of one round.
Transpose4(x) ==
    LET bytes == [k \in DOMAIN x |-> Unpack(1, 0, ShuffleEpi32(x[k], <<0, 2, 1, 3>>),
                                                  ShuffleEpi32(x[k], <<1, 3, 0, 2>>))]
        words == [k \in DOMAIN x |-> Unpack(2, 0, bytes[k], ShuffleEpi32(bytes[k], <<2, 3, 0, 1>>))]
    IN  Zip(Zip(words, 4, <<0, 2>>, 1), 8, <<0, 1>>, 2)

\* shuffle4_avx2
Transpose4Avx2(x) ==
    LET quads == Transpose4(x)
    IN  [k \in DOMAIN x |-> PermuteVar8x32(quads[k], <<0, 4, 1, 5, 2, 6, 3, 7>>)]

ShuffleRound(build, t, x) ==
    CASE build = "sse2" /\ t = 8 -> Transpose8(x)
      [] build = "sse2" /\ t = 4 -> Transpose4(x)
      [] build = "avx2" /\ t = 8 -> Transpose8Avx2(x)
      [] build = "avx2" /\ t = 4 -> Transpose4Avx2(x)

\* A kernel's loop: t registers from consecutive addresses, stored n apart.
ShuffleKernel(build, src, t, vectorizable, n) ==
    LET w == Width(build)
        Load(j) == [k \in 0..(t - 1) |-> [i \in 0..(w - 1) |-> src[j * t + k * w + i]]]
        round == [j \in {w * c : c \in 0..(vectorizable \div w)} \ {vectorizable} |->
                     ShuffleRound(build, t, Load(j))]
    IN  [p \in {q \in 0..(n * t - 1) : q % n < vectorizable} |->
            LET i == p % n IN round[i - (i % w)][p \div n][i % w]]

\* vectorizable_elements: the elements of whole chunks of t registers.
Vectorizable(build, t, blocksize) ==
    (blocksize - (blocksize % (t * Width(build)))) \div t

\* Mutant of Shuffled: the kernel does it all.
ShuffledNoRest(build, src, blocksize, t) ==
    IF build = "generic" THEN ShuffleGeneric(src, t, 0, blocksize)
    ELSE ShuffleKernel(build, src, t, Vectorizable(build, t, blocksize), blocksize \div t)

\* blosc_shuffle: the loops are left out where the kernel did all.
Shuffled(build, src, blocksize, t) ==
    LET v == Vectorizable(build, t, blocksize)
        kernel == ShuffleKernel(build, src, t, v, blocksize \div t)
    IN  IF build = "generic" THEN ShuffleGeneric(src, t, 0, blocksize)
        ELSE IF blocksize # v * t THEN Over(ShuffleGeneric(src, t, v, blocksize), kernel)
        ELSE kernel

--------------------------------------------------------------------------------
(* Unshuffling *)

\* unshuffle_generic_inline
UnshuffleGeneric(src, t, vectorizable, blocksize) ==
    LET n == blocksize \div t
    IN  [p \in (vectorizable * t)..(n * t - 1) |-> src[(p % t) * n + p \div t]]

\* unshuffle8_sse2, the registers of one round in the order they are stored.
Restore8(x) ==
    LET doubles == Halves(Halves(Halves(x, 1), 2), 4)
    IN  [k \in DOMAIN x |-> doubles[<<0, 4, 2, 6, 1, 5, 3, 7>>[k + 1]]]

\* unshuffle8_avx2
Restore8Avx2(x) ==
    LET words == Halves(Halves(x, 1), 2)
        doubles == Halves([k \in DOMAIN x |-> Permute4x64(words[k], <<0, 2, 1, 3>>)], 4)
    IN  [k \in DOMAIN x |-> doubles[<<0, 2, 1, 3, 4, 6, 5, 7>>[k + 1]]]

\* unshuffle4_sse2
Restore4(x) ==
    LET words == Halves(Halves(x, 1), 2)
    IN  [k \in DOMAIN x |-> words[<<0, 2, 1, 3>>[k + 1]]]

\* unshuffle4_avx2
Restore4Avx2(x) ==
    LET words == Halves(Halves(x, 1), 2)
    IN  [k \in DOMAIN x |-> Permute2x128(words[k % 2], words[(k % 2) + 2], k \div 2)]

UnshuffleRound(build, t, x) ==
    CASE build = "sse2" /\ t = 8 -> Restore8(x)
      [] build = "sse2" /\ t = 4 -> Restore4(x)
      [] build = "avx2" /\ t = 8 -> Restore8Avx2(x)
      [] build = "avx2" /\ t = 4 -> Restore4Avx2(x)

\* A kernel's loop: t registers from addresses n apart, stored consecutively.
UnshuffleKernel(build, src, t, vectorizable, n) ==
    LET w == Width(build)
        Load(i) == [k \in 0..(t - 1) |-> [b \in 0..(w - 1) |-> src[i + k * n + b]]]
        round == [i \in {w * c : c \in 0..(vectorizable \div w)} \ {vectorizable} |->
                     UnshuffleRound(build, t, Load(i))]
    IN  [p \in 0..(vectorizable * t - 1) |->
            LET q == p % (t * w) IN round[(p - q) \div t][q \div w][q % w]]

\* blosc_unshuffle
Unshuffled(build, src, blocksize, t) ==
    LET v == Vectorizable(build, t, blocksize)
    IN  IF build = "generic" THEN UnshuffleGeneric(src, t, 0, blocksize)
        ELSE Over(UnshuffleGeneric(src, t, v, blocksize),
                  UnshuffleKernel(build, src, t, v, blocksize \div t))
================================================================================
